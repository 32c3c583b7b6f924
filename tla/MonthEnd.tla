------------------------------ MODULE MonthEnd ------------------------------
(***************************************************************************)
(* The month end: pre-close, its dry run, close and reopen (agents/        *)
(* period_close.py, api/routes/period.py), with the agents that pre-close  *)
(* runs in one transaction -- FX revaluation, depreciation, prepaid        *)
(* amortization -- and the sub-ledgers their lines feed and the close      *)
(* reconciles: tutor payable, fixed assets, prepaids, intangibles.         *)
(*                                                                         *)
(* Posting models one journal in the steps of its checks; here a journal   *)
(* is one step of a transaction that makes several.  A draft has its lines *)
(* on the control accounts of these sub-ledgers only; the other side of    *)
(* the entry balances it and nothing here reads it.                        *)
(***************************************************************************)
EXTENDS TutorPayable, Functions

CONSTANTS
    Slots,       \* database connections
    Months,      \* period labels; a posting date is the month it lies in
    Missing,     \* the months that have no row in master.periods
    Dates,       \* the months that requests have their posting dates in
    Assets,      \* assets.fixed_assets with status ACTIVE
    Prepaids,    \* assets.prepaids
    Intangibles, \* assets.intangibles
    Tutors,      \* tutors paid in PKR
    CostAccounts,\* what lines on 1111, 1113 and 1115 are about
    Classes,     \* asset classes
    ClassOf,     \* the class of each asset
    Cost,        \* cost_aed of an asset, total_aed of a prepaid
    Life,        \* useful_life_months, total_months
    Rates,       \* closing rates, AED for one PKR, in hundredths
    Others,      \* drafts that other parts post: accruals, payments, ...
    Opening,     \* drafts already in the book at the start
    NoKey,
    Leaving,     \* bound: the tutors that are deactivated and activated again
    MaxEntries   \* bound: journal entries inserted, committed or not

VARIABLES
    status,      \* master.periods, "ABSENT" when there is no row
    book,        \* ledger.journal_entries: id and draft
    rows,        \* the mirror rows of the four sub-ledgers
    active,      \* tutors with active = true
    nextId,      \* the je_id sequence
    pc,          \* where each slot's transaction is
    job,         \* its request, what it has still to post and what it posted
    seen         \* what the gate has read of the sub-ledger it is at

vars == <<status, book, rows, active, nextId, pc, job, seen>>
tables == <<status, book, rows, active>>

-----------------------------------------------------------------------------
(* Data.                                                                   *)

NoEntry == 0
Items == Assets \cup Prepaids
Keys == Items \cup Intangibles \cup Tutors \cup CostAccounts

Ref(kind, at, key) == [kind |-> kind, at |-> at, key |-> key]
NoRef == Ref("none", NoEntry, NoKey)

Refs == [kind : {"none", "FX-REVAL", "DEP", "AMORT", "other", "reversal"},
         at : Months \cup Nat, key : Keys \cup Classes \cup {NoKey}]

Line == [key : Keys, amount : Int, original : Int \cup {NoOriginal}]
Draft == [ref : Refs, on : Months, reverses : Nat,
          lines : {lines \in SUBSET Line : IsFiniteSet(lines)}]
Entry == [id : Nat \ {NoEntry}, draft : Draft]
MirrorRow == [je : Nat, key : Keys, amount : Int, original : Int]

Statuses == {"ABSENT", "OPEN", "IN_CLOSING", "CLOSED", "REOPENED"}
Agents == {"fx", "depreciation", "amortization", "none"}
Ops == {"none", "preclose", "preview", "post", "close", "reopen"}

(* The SELECTs of close's gate, each on its own, in the registry's order.  *)
NextRead ==
    [payableBook    |-> "payableRows",
     payableRows    |-> "costBook",
     costBook       |-> "assetBook",
     assetBook      |-> "assetRows",
     assetRows      |-> "prepaidBook",
     prepaidBook    |-> "prepaidRows",
     prepaidRows    |-> "intangibleBook",
     intangibleBook |-> "intangibleRows",
     intangibleRows |-> "lock"]
Reads == DOMAIN NextRead
Compares == {"payableRows", "assetRows", "prepaidRows", "intangibleRows"}

Steps == {"idle", "status", "lock", "plan", "write", "commit"} \cup Reads

Job == [op : Ops, period : Months \cup {NoKey}, on : Months \cup {NoKey},
        rate : Nat, agent : Agents, todo : SUBSET Draft, done : SUBSET Entry]

NoJob == [op |-> "none", period |-> NoKey, on |-> NoKey, rate |-> 0,
          agent |-> "none", todo |-> {}, done |-> {}]

EntryOf(id, d) == [id |-> id, draft |-> d]

ASSUME MonthEndAssumption ==
    /\ ClassOf \in [Assets -> Classes]
    /\ Cost \in [Items -> Nat] /\ Life \in [Items -> Nat \ {0}]
    /\ Assets \cap Prepaids = {}
    /\ (Items \cup Intangibles) \cap Tutors = {} /\ Items \cap Intangibles = {}
    /\ CostAccounts \cap (Items \cup Intangibles \cup Tutors) = {}
    /\ IsFiniteSet(Items) /\ IsFiniteSet(Slots)
    /\ Rates \subseteq Nat
    /\ Dates \subseteq Months /\ Missing \subseteq Months
    /\ Leaving \subseteq Tutors
    /\ NoOriginal \notin Int
    /\ MaxEntries \in Nat
    /\ Months \cap Nat = {} /\ NoKey \notin Months

(* Only the agents write DEP-, AMORT- and FX-REVAL- references, and only   *)
(* reverse_journal the bare id of an entry.                                *)
ASSUME DraftsAssumption ==
    /\ Others \subseteq Draft
    /\ \A d \in Others : d.reverses = NoEntry /\ d.ref.kind \in {"none", "other"}

(* The entries that are there at the start: their ids and their references *)
(* are their own.                                                          *)
ASSUME OpeningAssumption ==
    /\ Opening \subseteq Entry /\ IsFiniteSet(Opening)
    /\ \A e \in Opening : /\ e.draft.reverses = NoEntry
                          /\ e.draft.ref.kind \in {"none", "other"}
                          /\ e.id <= Cardinality(Opening)
    /\ \A e, f \in Opening : e.id = f.id \/ (e.draft.ref = f.draft.ref
                                              /\ e.draft.ref # NoRef) => e = f

-----------------------------------------------------------------------------
(* The mirrors.                                                            *)

(* Mutant: an asset takes charges that are taken back.                     *)
FixedAssetTakesBack(l) == l.amount # 0

(* Which lines leave a row: fixed assets take those that charge, never     *)
(* those that take a charge back nor what a cost account says; prepaids    *)
(* those that charge, never a top-up; intangibles all but zero; tutor      *)
(* payable every one.                                                      *)
FixedAssetTakes(l) == l.amount > 0
PrepaidTakes(l) == l.amount > 0
IntangibleTakes(l) == l.amount # 0

Mirrored(l) ==
    CASE l.key \in Assets      -> FixedAssetTakes(l)
      [] l.key \in Prepaids    -> PrepaidTakes(l)
      [] l.key \in Intangibles -> IntangibleTakes(l)
      [] OTHER                 -> l.key \notin CostAccounts

RowsOf(id, lines) == {Row(id, l) : l \in {k \in lines : Mirrored(k)}}
Mirror(E) == UNION {RowsOf(e.id, e.draft.lines) : e \in E}

(* The balance of a control account, read from the journal lines.          *)
ControlRows(E) == UNION {{Row(e.id, l) : l \in e.draft.lines} : e \in E}

GroupSum(R, group) == MapThenSumSet(LAMBDA r : r.amount, {r \in R : r.key \in group})

Booked(group) == GroupSum(ControlRows(book), group)
Kept(group) == GroupSum(rows, group)

(* assets.fixed_assets and assets.prepaids: nothing in src/ writes them.   *)
TotalCost(items) == SumFunctionOnSet(Cost, items)

(* reconcile_to_gl of each sub-ledger, all of it in one state.             *)
FixedAssetReconciles ==
    Booked(CostAccounts) + Booked(Assets) + TotalCost(Assets) - Kept(Assets) = 0
PrepaidReconciles == Booked(Prepaids) + TotalCost(Prepaids) - Kept(Prepaids) = 0
IntangibleReconciles == Booked(Intangibles) - Kept(Intangibles) = 0
TutorPayableReconciles == Booked(Tutors) - Kept(Tutors) = 0

(* What a read of the gate adds to the difference of its sub-ledger.       *)
ReadAt(step) ==
    CASE step = "payableBook"    -> Booked(Tutors)
      [] step = "payableRows"    -> - Kept(Tutors)
      [] step = "costBook"       -> Booked(CostAccounts)
      [] step = "assetBook"      -> Booked(Assets)
      [] step = "assetRows"      -> TotalCost(Assets) - Kept(Assets)
      [] step = "prepaidBook"    -> Booked(Prepaids)
      [] step = "prepaidRows"    -> TotalCost(Prepaids) - Kept(Prepaids)
      [] step = "intangibleBook" -> Booked(Intangibles)
      [] step = "intangibleRows" -> - Kept(Intangibles)

-----------------------------------------------------------------------------
(* What the agents post.                                                   *)

(* Mutant: the last month is charged in full.                              *)
DueUncapped(R, i) == HalfUp(Cost[i], Life[i])

(* What is left of the cost: the balance of an asset or a prepaid.         *)
Left(R, i) == Cost[i] - Amount(R, i)

(* A month's charge, and no more than is left.                             *)
Due(R, i) ==
    LET monthly == HalfUp(Cost[i], Life[i])
    IN  IF monthly > Left(R, i) THEN Left(R, i) ELSE monthly

InService(R, items) == {i \in items : Left(R, i) > 0}

ChargeLine(R, i) == SubLine(i, Due(R, i), NoOriginal)

AgentDraft(ref, on, lines) ==
    [ref |-> ref, on |-> on, reverses |-> NoEntry, lines |-> lines]

(* post_monthly_depreciation: one entry per class whose total is not zero. *)
Depreciation(R, p, on) ==
    LET ofClass(c) == InService(R, {a \in Assets : ClassOf[a] = c})
    IN  {AgentDraft(Ref("DEP", p, c), on, {ChargeLine(R, i) : i \in ofClass(c)}) :
           c \in {k \in Classes : \E i \in ofClass(k) : Due(R, i) # 0}}

(* Mutant: the reference has the month of the posting date.                *)
AmortizationByDate(R, p, on) ==
    {AgentDraft(Ref("AMORT", on, i), on, {ChargeLine(R, i)}) : i \in InService(R, Prepaids)}

(* post_prepaid_amortization: one entry per prepaid.                       *)
Amortization(R, p, on) ==
    {AgentDraft(Ref("AMORT", p, i), on, {ChargeLine(R, i)}) : i \in InService(R, Prepaids)}

(* revalue_unrealized: one entry per open position that moved, under the   *)
(* posting date and not the period.                                        *)
Revaluation(R, on, rate) ==
    {AgentDraft(Ref("FX-REVAL", on, t), on, {RevaluationLine(R, t, rate)}) :
       t \in {u \in OpenPositions(R, Tutors) : Delta(R, u, rate) # 0}}

(* The order of run_pre_close.                                             *)
Following(agent) ==
    CASE agent = "fx"           -> "depreciation"
      [] agent = "depreciation" -> "amortization"
      [] OTHER                  -> "none"

Planned(R, j) ==
    CASE j.agent = "fx"           -> Revaluation(R, j.on, j.rate)
      [] j.agent = "depreciation" -> Depreciation(R, j.period, j.on)
      [] j.agent = "amortization" -> Amortization(R, j.period, j.on)
      [] OTHER                    -> {}

-----------------------------------------------------------------------------
(* Slots.                                                                  *)

Goto(s, from, to) == pc[s] = from /\ pc' = [pc EXCEPT ![s] = to]

(* The transaction is over: what it did not commit is gone.                *)
End(s) ==
    /\ pc' = [pc EXCEPT ![s] = "idle"]
    /\ job' = [job EXCEPT ![s] = NoJob]
    /\ seen' = [seen EXCEPT ![s] = 0]

Running(s) == pc[s] \in {"plan", "write", "commit"}

(* begin_closing's UPDATE keeps the row of its period until the end.       *)
LockedBy(t, p) == Running(t) /\ job[t].op = "preclose" /\ job[t].period = p

(* An inserted entry keeps its reference until the end.                    *)
Holds(t, ref) == ref # NoRef /\ \E e \in job[t].done : e.draft.ref = ref

RefUsed(E, ref) == ref # NoRef /\ \E e \in E : e.draft.ref = ref

(* Bounds on the runs: the ids that the requests in flight may take.       *)
Wanted(op) ==
    CASE op \in {"preclose", "preview"} ->
            Cardinality(Tutors) + Cardinality(Classes) + Cardinality(Prepaids)
      [] op = "post" -> 1
      [] OTHER -> 0
Room(op) ==
    nextId - 1 + Wanted(op)
      + MapThenSumSet(LAMBDA t : IF pc[t] = "idle" THEN 0 ELSE Wanted(job[t].op), Slots)
      <= MaxEntries

Start(s, op, p, on, rate, agent, todo, first) ==
    /\ Room(op)
    /\ Goto(s, "idle", first)
    /\ job' = [job EXCEPT ![s] =
                 [op |-> op, period |-> p, on |-> on, rate |-> rate,
                  agent |-> agent, todo |-> todo, done |-> {}]]
    /\ UNCHANGED <<tables, nextId, seen>>

Init ==
    /\ status = [p \in Months |-> IF p \in Missing THEN "ABSENT" ELSE "OPEN"]
    /\ book = Opening
    /\ rows = Mirror(Opening)
    /\ active = Tutors
    /\ nextId = Cardinality(Opening) + 1
    /\ pc = [s \in Slots |-> "idle"]
    /\ job = [s \in Slots |-> NoJob]
    /\ seen = [s \in Slots |-> 0]

-----------------------------------------------------------------------------
(* Requests.                                                               *)

(* POST /periods/{period}/pre-close: any posting date, any rate.           *)
StartPreClose(s, p, on, rate) == Start(s, "preclose", p, on, rate, "fx", {}, "status")

(* POST /periods/{period}/pre-close-preview asks for no status.            *)
StartPreview(s, p, on, rate) == Start(s, "preview", p, on, rate, "fx", {}, "plan")

StartClose(s, p) == Start(s, "close", p, p, 0, "none", {}, "status")
StartReopen(s, p) == Start(s, "reopen", p, p, 0, "none", {}, "status")

(* A journal of another part of the system.                                *)
StartPost(s, d) == Start(s, "post", d.on, d.on, 0, "none", {d}, "write")

Reversal(e, on) ==
    [ref |-> Ref("reversal", e.id, NoKey), on |-> on, reverses |-> e.id,
     lines |-> {TakeBack(l) : l \in e.draft.lines}]

(* reverse_journal goes on from an entry that nothing has reversed.        *)
StartReverse(s, e, on) ==
    /\ \A f \in book : f.draft.reverses # e.id
    /\ Start(s, "post", on, on, 0, "none", {Reversal(e, on)}, "write")

-----------------------------------------------------------------------------
(* The steps of a request.                                                 *)

Allowed(op, st) ==
    CASE op = "preclose" -> st = "OPEN"
      [] op = "close"    -> st \in {"OPEN", "IN_CLOSING", "REOPENED"}
      [] op = "reopen"   -> st = "CLOSED"

(* Mutant: the transition is written where its outcome should be.          *)
NamedAfter(op) == op

(* The status a transition leaves.                                         *)
Outcome(op) ==
    CASE op = "preclose" -> "IN_CLOSING"
      [] op = "close"    -> "CLOSED"
      [] OTHER           -> "REOPENED"

CheckStatus(s) ==
    /\ pc[s] = "status"
    /\ IF Allowed(job[s].op, status[job[s].period])
         THEN /\ Goto(s, "status", IF job[s].op = "close" THEN "payableBook" ELSE "lock")
              /\ UNCHANGED <<job, seen>>
         ELSE End(s)
    /\ UNCHANGED <<tables, nextId>>

GateWhen(s, compares) ==
    LET difference == seen[s] + ReadAt(pc[s])
    IN  /\ pc[s] \in Reads
        /\ IF compares /\ difference # 0
             THEN End(s)
             ELSE /\ pc' = [pc EXCEPT ![s] = NextRead[@]]
                  /\ seen' = [seen EXCEPT ![s] = difference]
                  /\ UNCHANGED job
        /\ UNCHANGED <<tables, nextId>>

(* Mutant: prepaids that differ are passed over.                           *)
GatePassing(s) == GateWhen(s, pc[s] \in Compares \ {"prepaidRows"})

(* close refuses when a sub-ledger differs from its control accounts, as   *)
(* far as its reads say: each of them sees what has committed by then.     *)
Gate(s) == GateWhen(s, pc[s] \in Compares)

(* The UPDATE of the period waits for a pre-close that has its row, and    *)
(* then writes whatever status it finds.  close and reopen commit at once. *)
Lock(s) ==
    LET j == job[s]
    IN  /\ pc[s] = "lock"
        /\ \A t \in Slots \ {s} : ~ LockedBy(t, j.period)
        /\ IF j.op = "preclose"
             THEN Goto(s, "lock", "plan") /\ UNCHANGED <<status, job, seen>>
             ELSE /\ status' = [status EXCEPT ![j.period] = Outcome(j.op)]
                  /\ End(s)
        /\ UNCHANGED <<book, rows, active, nextId>>

(* What is left to do once todo has been posted.                           *)
After(agent, todo) ==
    IF todo # {} THEN "write" ELSE IF agent = "none" THEN "commit" ELSE "plan"

(* An agent reads the sub-ledger and lists what it posts.                  *)
Plan(s) ==
    LET j    == job[s]
        todo == Planned(rows, j)
        next == Following(j.agent)
    IN  /\ Goto(s, "plan", After(next, todo))
        /\ job' = [job EXCEPT ![s] =
                     [op |-> j.op, period |-> j.period, on |-> j.on, rate |-> j.rate,
                      agent |-> next, todo |-> todo, done |-> j.done]]
        /\ UNCHANGED <<tables, nextId, seen>>

(* The status a transaction sees: a pre-close has begun the closing of its *)
(* own period.                                                             *)
Seen(s, p) ==
    IF job[s].op = "preclose" /\ job[s].period = p THEN "IN_CLOSING" ELSE status[p]

(* post_journal: a line has a side, the month is neither missing nor       *)
(* closed, the tutor is active.                                            *)
Accepted(s, d) ==
    /\ \A l \in d.lines : l.amount # 0
    /\ Seen(s, d.on) \notin {"ABSENT", "CLOSED"}
    /\ \A l \in d.lines : l.key \in Tutors => l.key \in active

(* A journal that is refused ends the request with nothing kept; the       *)
(* agents and the pre-close catch no error.                                *)
Refuse(s, d) ==
    /\ pc[s] = "write" /\ d \in job[s].todo
    /\ ~ Accepted(s, d)
    /\ End(s)
    /\ UNCHANGED <<tables, nextId>>

NobodyHolds(s, ref) == \A t \in Slots \ {s} : ~ Holds(t, ref)

(* An insert takes an id; it waits for an open transaction with the same   *)
(* reference and fails on a used one.                                      *)
WriteWhen(s, d, turn, free) ==
    LET j == job[s]
    IN  /\ pc[s] = "write" /\ d \in j.todo
        /\ Accepted(s, d)
        /\ turn
        /\ nextId' = nextId + 1
        /\ IF free
             THEN /\ Goto(s, "write", After(j.agent, j.todo \ {d}))
                  /\ job' = [job EXCEPT ![s] =
                       [op |-> j.op, period |-> j.period, on |-> j.on, rate |-> j.rate,
                        agent |-> j.agent, todo |-> j.todo \ {d},
                        done |-> j.done \cup {EntryOf(nextId, d)}]]
                  /\ UNCHANGED seen
             ELSE End(s)
        /\ UNCHANGED tables

Free(s, ref) == ~ RefUsed(book \cup job[s].done, ref)

(* Mutants: no unique index; a caller that waits until it is free.         *)
WriteUnindexed(s, d) == WriteWhen(s, d, TRUE, TRUE)
WriteRetried(s, d) ==
    WriteWhen(s, d, NobodyHolds(s, d.ref) /\ Free(s, d.ref), TRUE)

Write(s, d) == WriteWhen(s, d, NobodyHolds(s, d.ref), Free(s, d.ref))

(* Two transactions that wait for each other's references: PostgreSQL      *)
(* cancels one.                                                            *)
Waits(s, t) == \E d \in job[s].todo : Holds(t, d.ref)
Victim(s) ==
    /\ pc[s] = "write"
    /\ \E t \in Slots \ {s} : pc[t] = "write" /\ Waits(s, t) /\ Waits(t, s)
    /\ End(s)
    /\ UNCHANGED <<tables, nextId>>

(* The commit publishes everything at once; the dry run has been rolled    *)
(* back to its savepoint.                                                  *)
Commit(s) ==
    LET j == job[s]
    IN  /\ pc[s] = "commit"
        /\ IF j.op = "preview"
             THEN UNCHANGED <<status, book, rows>>
             ELSE /\ book' = book \cup j.done
                  /\ rows' = rows \cup Mirror(j.done)
                  /\ status' = IF j.op = "preclose"
                                 THEN [status EXCEPT ![j.period] = Outcome(j.op)]
                                 ELSE status
        /\ End(s)
        /\ UNCHANGED <<active, nextId>>

(* The process dies or the connection drops.                               *)
Crash(s) ==
    /\ pc[s] # "idle"
    /\ End(s)
    /\ UNCHANGED <<tables, nextId>>

(* PUT /tutors/{id}.                                                       *)
SetTutorActive(t) ==
    /\ active' = IF t \in active THEN active \ {t} ELSE active \cup {t}
    /\ UNCHANGED <<status, book, rows, nextId, pc, job, seen>>

-----------------------------------------------------------------------------
Request(s) ==
    \/ \E p \in Months, on \in Dates, rate \in Rates :
          StartPreClose(s, p, on, rate) \/ StartPreview(s, p, on, rate)
    \/ \E p \in Months : StartClose(s, p) \/ StartReopen(s, p)
    \/ \E d \in Others : StartPost(s, d)
    \/ \E e \in book, on \in Dates : StartReverse(s, e, on)

Writing(s) == \E d \in job[s].todo : Refuse(s, d) \/ Write(s, d)

Step(s) ==
    \/ CheckStatus(s) \/ Gate(s) \/ Lock(s) \/ Plan(s)
    \/ Writing(s) \/ Victim(s) \/ Commit(s)

Next ==
    \/ \E s \in Slots : Request(s) \/ Step(s) \/ Crash(s)
    \/ \E t \in Leaving : SetTutorActive(t)

Spec == Init /\ [][Next]_vars

(* A request that has a connection runs on, and the waiters for the row of *)
(* a period get it in their turn, however many come after them.            *)
FairSpec == Spec /\ \A s \in Slots : WF_vars(Step(s)) /\ SF_vars(Lock(s))

-----------------------------------------------------------------------------
(* Properties.                                                             *)

BookTyped ==
    /\ status \in [Months -> Statuses]
    /\ book \subseteq Entry /\ IsFiniteSet(book)
    /\ rows \subseteq MirrorRow
    /\ active \subseteq Tutors
    /\ nextId \in Nat \ {NoEntry}
    /\ pc \in [Slots -> Steps]
    /\ job \in [Slots -> Job]
    /\ \A s \in Slots : /\ IsFiniteSet(job[s].done)
                        /\ pc[s] # "idle" => job[s].period \in Months /\ job[s].on \in Months

TypeOK == BookTyped /\ seen \in [Slots -> Int]

(* What the agents charged under the label p.                              *)
ChargesFor(E, p) ==
    {e \in E : e.draft.ref.kind \in {"DEP", "AMORT"} /\ e.draft.ref.at = p}

Charges(e, i) == \E l \in e.draft.lines : l.key = i /\ l.amount > 0

(* What the agents have charged an item, and the book before them: reversed *)
(* or not, beside whatever manual journals charge it.                      *)
IsCharge(d) == d.ref.kind \in {"DEP", "AMORT"}
ByAgents(E) == {e \in E : IsCharge(e.draft) \/ e \in Opening}
Charged(i) == Amount(Mirror(ByAgents(book)), i)

(* What journals have debited to items, and to the cost accounts.          *)
Debited(group) == - GroupSum({r \in ControlRows(book) : r.amount < 0}, group)

(* No asset and no prepaid is charged twice under one period label, however *)
(* many pre-closes of it are sent, overlap, fail or are sent again, and     *)
(* whatever posting dates they name.                                        *)
ChargedOnce ==
    \A p \in Months, i \in Items : \A e, f \in ChargesFor(book, p) :
        Charges(e, i) /\ Charges(f, i) => e = f

(* Pre-closes of different periods read the accumulated charge before the  *)
(* other commits.  Together the agents charge at most one month too much   *)
(* for each connection that can overlap.                                   *)
OverchargeBounded ==
    \A i \in Items :
        Charged(i) <= Cost[i] + (Cardinality(Slots) - 1) * HalfUp(Cost[i], Life[i])

(* A period is IN_CLOSING only when the agents have done its assets and    *)
(* prepaids: each is charged under its label or has nothing left.          *)
InClosingMeansCharged ==
    \A p \in Months, i \in Items : status[p] = "IN_CLOSING" =>
        \/ \E e \in ChargesFor(book, p) : Charges(e, i)
        \/ Left(rows, i) <= 0

(* What reconcile_to_gl tells: tutor payable and intangibles reconcile in  *)
(* every state; prepaids when the debits of 1051 and 1052 are what the     *)
(* table says was paid; fixed assets when the cost accounts and the        *)
(* charges taken back together are what the table says was bought.         *)
GateTells ==
    /\ TutorPayableReconciles
    /\ IntangibleReconciles
    /\ PrepaidReconciles <=> Debited(Prepaids) = TotalCost(Prepaids)
    /\ FixedAssetReconciles <=> Debited(Assets) - Booked(CostAccounts) = TotalCost(Assets)

(* Once the debits of the prepaid accounts exceed what the table says was  *)
(* paid -- a charge has been reversed, or a manual journal has debited     *)
(* one -- no close that comes later of any period gets past the gate:      *)
(* neither a reversal nor a manual journal nor an agent brings it back,    *)
(* because every credit is mirrored.                                       *)
Overdebited == Debited(Prepaids) > TotalCost(Prepaids)
OverdebitBlocks ==
    \A s \in Slots :
        []((Overdebited /\ pc[s] = "idle") => [](job[s].op = "close" => pc[s] # "lock"))

(* Every request ends: no wait for the row of a period or for a reference  *)
(* lasts for ever, and a deadlock is broken.                               *)
RequestsEnd == \A s \in Slots : pc[s] # "idle" ~> pc[s] = "idle"

(* The PKR a tutor is owed moves with what sessions and payments say, and  *)
(* a revaluation changes its AED value only.                               *)
RevaluationKeepsPkr ==
    [][\A t \in Tutors : Original(rows', t) # Original(rows, t) =>
           \E e \in book' \ book : e.draft.ref.kind # "FX-REVAL"
                                   /\ \E l \in e.draft.lines : l.key = t]_vars

-----------------------------------------------------------------------------
(* What is known of references and of transactions under way.              *)

(* The reference of a charge names what its lines charge.                  *)
WellNamed(d) ==
    LET r == d.ref
    IN  IsCharge(d) =>
          /\ r = Ref(r.kind, r.at, r.key)
          /\ \A l \in d.lines :
                IF r.kind = "DEP" THEN l.key \in Assets /\ ClassOf[l.key] = r.key
                                  ELSE l.key \in Prepaids /\ l.key = r.key

(* A request makes charges only if it is a pre-close, under the label of   *)
(* its period; the dry run asks for no status and waits for no period.     *)
Makes(s, d) ==
    /\ WellNamed(d)
    /\ IsCharge(d) => job[s].op \in {"preclose", "preview"} /\ d.ref.at = job[s].period

Working(s) ==
    /\ \A d \in job[s].todo : Makes(s, d)
    /\ \A e \in job[s].done : Makes(s, e.draft)
    /\ ~ Running(s) => job[s].todo = {} /\ job[s].done = {}
    /\ job[s].agent # "none" => job[s].op \in {"preclose", "preview"}

SameRef(e, f) == e.draft.ref # NoRef /\ e.draft.ref = f.draft.ref

(* References are used once, in the book and by what may yet come into it. *)
RefsApart ==
    /\ \A e, f \in book : SameRef(e, f) => e = f
    /\ \A s \in Slots : \A e \in job[s].done :
          /\ \A f \in book : ~ SameRef(e, f)
          /\ \A f \in job[s].done : SameRef(e, f) => e = f
          /\ \A t \in Slots \ {s} : \A f \in job[t].done : ~ SameRef(e, f)

(* The inductive invariant.  It has no types of amounts, which are sums.   *)
IInv ==
    /\ pc \in [Slots -> Steps]
    /\ job = [s \in Slots |-> job[s]]
    /\ \A s \in Slots : Working(s)
    /\ \A e \in book : WellNamed(e.draft)
    /\ RefsApart
=============================================================================
