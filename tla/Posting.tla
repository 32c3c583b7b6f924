------------------------------ MODULE Posting ------------------------------
(***************************************************************************)
(* The ledger engine as it runs: several database connections at once (two *)
(* API processes with a thread pool each, and the worker process), each    *)
(* serving one request in one READ COMMITTED transaction.                  *)
(*                                                                         *)
(* A slot is such a connection.  Its transaction reads what is committed   *)
(* at the time of each read, keeps its own writes to itself, and publishes *)
(* them all in one commit or none.  The requests are post_journal and      *)
(* reverse_journal (ledger/posting.py), the transitions of PeriodService   *)
(* (ledger/period.py) and the activation of a student, which                *)
(* the sub-ledger key check reads.  Of the six sub-ledgers this module has *)
(* the student wallet, the one whose balance a posting must respect.       *)
(***************************************************************************)
EXTENDS Integers, Sequences, FiniteSets, FiniteSetsExt

CONSTANTS
    Slots,       \* database connections
    Periods,     \* calendar months
    Students,
    Accounts,    \* postable accounts of the chart
    Wallet,      \* account 2050, control account of the student wallet
    Refs,        \* source references that agents and adapters write
    NoRef,       \* source_ref NULL
    NoStudent,   \* a line without a student_id
    Drafts,      \* the drafts callers hand to post_journal
    MaxEntries,  \* bound: journal entries inserted, committed or not
    MaxLog       \* bound: rows of period_close_log per period

VARIABLES
    entries,     \* ledger.journal_entries with their journal_lines
    wallet,      \* subledger.student_wallet_entries
    period,      \* master.periods: status, "ABSENT" when there is no row
    closeLog,    \* audit.period_close_log, per period
    audit,       \* audit.audit_log, the rows about entries and periods
    active,      \* students with active = true
    nextId,      \* the je_id sequence
    pc,          \* where each slot's transaction is
    job          \* what it is doing, and what it has read and written so far

vars == <<entries, wallet, period, closeLog, audit, active, nextId, pc, job>>
tables == <<entries, wallet, period, closeLog, audit, active>>

L == INSTANCE Ledger WITH book <- entries

NoEntry == L!NoEntry

-----------------------------------------------------------------------------
(* Data.  An amount of money is a natural number.                          *)

Statuses == {"ABSENT", "OPEN", "IN_CLOSING", "CLOSED", "REOPENED"}
PostSteps == {"period", "keys", "wallet", "insert", "trigger", "commit", "failing"}
PeriodSteps == {"status", "gl", "sub", "snapshot", "apply"}
PeriodOps == {"begin_closing", "close", "reopen"}
Kinds == {"system", "manual", "import"}

(* Attachment of an entry: not over the threshold of AED 50,000; over it   *)
(* with a file; without one but with a reason of 30 characters; neither.   *)
Attachments == {"small", "file", "reason", "missing"}

Line == [account : Accounts, dr : Nat, cr : Nat,
         student : Students \cup {NoStudent}]

Draft == [period : Periods, kind : Kinds, ref : Refs \cup {NoRef} \cup Nat,
          reverses : Nat, attach : Attachments, lines : Seq(Line)]

Entry == [id : Nat \ {NoEntry}, draft : Draft, status : {"POSTED", "REVERSED"}]

WalletRow == [je : Nat, line : Nat, student : Students \cup {NoStudent},
              delta : Int]

LogRow == [action : {"CLOSE", "REOPEN"}, counted : SUBSET Nat]

AuditRow == [action : {"POST_JOURNAL", "REVERSE_JOURNAL"}, target : Nat,
             success : BOOLEAN]
            \cup [action : PeriodOps, target : Periods, success : BOOLEAN]

Job == [op : {"none"}]
       \cup [op : {"post"}, draft : Draft, id : Nat]
       \cup [op : PeriodOps, period : Periods, gl : SUBSET WalletRow,
             counted : SUBSET Nat]

NoJob == [op |-> "none"]
PostJob(d, i) == [op |-> "post", draft |-> d, id |-> i]
PeriodJob(op, p, gl, counted) ==
    [op |-> op, period |-> p, gl |-> gl, counted |-> counted]

ASSUME PostingAssumption ==
    /\ Wallet \in Accounts
    /\ NoRef \notin Refs
    /\ NoStudent \notin Students
    /\ MaxEntries \in Nat /\ MaxLog \in Nat

(* Callers' source references (SES-.., DEP-.., PAYOUT-..) are never the    *)
(* bare decimal je_id that reverse_journal uses, and only reverse_journal  *)
(* sets reverses_je_id.                                                     *)
ASSUME DraftsAssumption ==
    /\ Drafts \subseteq Draft
    /\ \A d \in Drafts : d.reverses = NoEntry /\ d.ref \in Refs \cup {NoRef}
    /\ NoRef \notin Nat /\ \A r \in Refs : r \notin Nat

-----------------------------------------------------------------------------
(* Operators on drafts, entries and rows.                                  *)

Posted(E) == {e \in E : e.status = "POSTED"}
InPeriod(E, p) == {e \in E : e.draft.period = p}

WalletLines(d) == {i \in DOMAIN d.lines : d.lines[i].account = Wallet}

(* _validate_draft_shape: two lines or more, each with exactly one side.   *)
ShapeOK(d) ==
    /\ Len(d.lines) >= 2
    /\ \A i \in DOMAIN d.lines : (d.lines[i].dr > 0) # (d.lines[i].cr > 0)

PeriodAccepts(status, kind) ==
    /\ status \notin {"ABSENT", "CLOSED"}
    /\ ~ (status = "IN_CLOSING" /\ kind = "import")

AttachmentOK(d) == d.kind = "manual" => d.attach # "missing"

KeysOK(d) == \A i \in WalletLines(d) : d.lines[i].student \in active

(* Mutant: the mirror takes only the lines that add to the balance.        *)
ApplyCredits(id, d) ==
    {[je |-> id, line |-> i, student |-> d.lines[i].student,
      delta |-> d.lines[i].cr] : i \in {k \in WalletLines(d) : d.lines[k].cr > 0}}

(* The rows StudentWalletSubLedger.apply_line inserts, one per 2050 line,  *)
(* with the delta signed for a credit-normal account.                      *)
ApplyLines(id, d) ==
    {[je |-> id, line |-> i, student |-> d.lines[i].student,
      delta |-> d.lines[i].cr - d.lines[i].dr] : i \in WalletLines(d)}

(* The lines the GL has on 2050, read from the journal and not from the    *)
(* sub-ledger, whatever the status of the entry.                           *)
ControlLines(E) ==
    UNION {{[je |-> e.id, line |-> i, student |-> e.draft.lines[i].student,
             delta |-> e.draft.lines[i].cr - e.draft.lines[i].dr] :
               i \in WalletLines(e.draft)} : e \in E}

Sum(rows) == MapThenSumSet(LAMBDA r : r.delta, rows)

Balance(rows, st) == Sum({r \in rows : r.student = st})

(* Mutant: the balance is tested as it was before the draft.               *)
CoveredBefore(rows, d) ==
    \A i \in WalletLines(d) : Balance(rows, d.lines[i].student) >= 0

(* No student of the draft ends below zero when its rows join the others.  *)
Covered(rows, d) ==
    \A i \in WalletLines(d) :
        Balance(rows \cup ApplyLines(NoEntry, d), d.lines[i].student) >= 0

Total(d, Side(_)) == MapThenSumSet(LAMBDA i : Side(d.lines[i]), DOMAIN d.lines)
Balanced(d) == Total(d, LAMBDA l : l.dr) = Total(d, LAMBDA l : l.cr)

(* Mutant: a reversal negates the amounts where they are.                  *)
NegatedReversal(o, on) ==
    [period |-> on, kind |-> "system", ref |-> o.id, reverses |-> o.id,
     attach |-> "small",
     lines |-> [i \in DOMAIN o.draft.lines |->
                  [o.draft.lines[i] EXCEPT !.dr = - @, !.cr = - @]]]

(* The draft reverse_journal builds.  on is on_date's month.               *)
Reversal(o, on) ==
    [period |-> on, kind |-> "system", ref |-> o.id, reverses |-> o.id,
     attach |-> "small", lines |-> L!Flip(o.draft.lines)]

-----------------------------------------------------------------------------
(* Slots.                                                                  *)

Goto(s, from, to) ==
    /\ pc[s] = from
    /\ pc' = [pc EXCEPT ![s] = to]

(* The transaction is over: what it did not commit is gone.                *)
End(s) ==
    /\ pc' = [pc EXCEPT ![s] = "idle"]
    /\ job' = [job EXCEPT ![s] = NoJob]

(* The transaction has an uncommitted entry: a waiter on the unique index  *)
(* blocks until it ends.                                                   *)
Inserted(s) == pc[s] \in {"trigger", "commit"}
Holds(s, ref) == Inserted(s) /\ job[s].draft.ref = ref

Writing == {s \in Slots : pc[s] \in {"period", "keys", "wallet", "insert"}}
Logging(p) == {s \in Slots : pc[s] \in PeriodSteps /\ job[s].period = p}

(* Bounds on the runs, not on the program.                                 *)
RoomForEntry == nextId + Cardinality(Writing) <= MaxEntries
RoomForLog(p) == Len(closeLog[p]) + Cardinality(Logging(p)) < MaxLog

Init ==
    /\ entries = {} /\ wallet = {} /\ audit = {}
    /\ period \in [Periods -> {"ABSENT", "OPEN"}]
    /\ closeLog = [p \in Periods |-> <<>>]
    /\ active = Students
    /\ nextId = 1
    /\ pc = [s \in Slots |-> "idle"]
    /\ job = [s \in Slots |-> NoJob]

-----------------------------------------------------------------------------
(* post_journal and reverse_journal.                                       *)

(* A caller hands over a draft.  The shape is checked before any read.     *)
StartPost(s, d) ==
    /\ RoomForEntry
    /\ Goto(s, "idle", IF ShapeOK(d) THEN "period" ELSE "failing")
    /\ job' = [job EXCEPT ![s] = PostJob(d, NoEntry)]
    /\ UNCHANGED <<tables, nextId>>

(* reverse_journal reads the original and goes on only if it is POSTED;    *)
(* on_date is optional and may lie in any period.                          *)
StartReverse(s, o, on) ==
    /\ RoomForEntry
    /\ o.status = "POSTED"
    /\ Goto(s, "idle", "period")
    /\ job' = [job EXCEPT ![s] = PostJob(Reversal(o, on), NoEntry)]
    /\ UNCHANGED <<tables, nextId>>

(* Each check reads committed data; a failing one leads to the error path. *)
Check(s, from, ok, to) ==
    /\ Goto(s, from, IF ok THEN to ELSE "failing")
    /\ UNCHANGED <<tables, nextId, job>>

CheckPeriod(s) ==
    LET d == job[s].draft
    IN  Check(s, "period",
              PeriodAccepts(period[d.period], d.kind) /\ AttachmentOK(d), "keys")

CheckKeys(s) == Check(s, "keys", KeysOK(job[s].draft), "wallet")

CheckWallet(s) ==
    LET d == job[s].draft
    IN  Check(s, "wallet", Covered(wallet, d) /\ Balanced(d), "insert")

(* A failed check writes the audit row and raises; db_session rolls back.  *)
Fail(s) ==
    /\ pc[s] = "failing"
    /\ End(s)
    /\ UNCHANGED <<tables, nextId>>

(* INSERT INTO journal_entries takes an id from the sequence, which no     *)
(* rollback gives back.                                                    *)
InsertWhen(s, turn, free) ==
    /\ pc[s] = "insert"
    /\ turn
    /\ nextId' = nextId + 1
    /\ IF free
         THEN /\ Goto(s, "insert", "trigger")
              /\ job' = [job EXCEPT ![s] = PostJob(job[s].draft, nextId)]
         ELSE End(s)
    /\ UNCHANGED tables

NobodyHolds(s) ==
    job[s].draft.ref = NoRef \/ \A t \in Slots \ {s} : ~ Holds(t, job[s].draft.ref)
Unused(s) == L!RefFree(entries, job[s].draft.ref)

(* Mutants: no unique index; a lookup instead of the index; a caller that  *)
(* retries until the reference is free.                                    *)
InsertUnindexed(s) == InsertWhen(s, TRUE, TRUE)
InsertAfterLookup(s) == InsertWhen(s, TRUE, Unused(s))
InsertRetried(s) == InsertWhen(s, NobodyHolds(s) /\ Unused(s), TRUE)

(* The unique index makes it wait for an uncommitted entry with the same   *)
(* source_ref, and fail on a committed one.                                *)
Insert(s) == InsertWhen(s, NobodyHolds(s), Unused(s))

(* COMMIT runs the deferred trigger tg_check_wallet_nonneg on the wallet   *)
(* rows of this transaction and of those committed by then ...             *)
Trigger(s) ==
    /\ pc[s] = "trigger"
    /\ IF Covered(wallet, job[s].draft)
         THEN Goto(s, "trigger", "commit") /\ UNCHANGED job
         ELSE End(s)
    /\ UNCHANGED <<tables, nextId>>

(* Mutant: the original stays POSTED.                                      *)
LeaveOriginal(E, i) == E

(* UPDATE journal_entries SET status = 'REVERSED' WHERE je_id = i.         *)
MarkReversed(E, i) == {IF e.id = i THEN L!Marked(e) ELSE e : e \in E}

(* ... and then publishes the entry, its mirror rows, the mark on the      *)
(* entry it reverses and its audit row.                                    *)
Commit(s) ==
    LET d == job[s].draft
        i == job[s].id
    IN  /\ pc[s] = "commit"
        /\ entries' = MarkReversed(entries, d.reverses)
                      \cup {[id |-> i, draft |-> d, status |-> "POSTED"]}
        /\ wallet' = wallet \cup ApplyLines(i, d)
        /\ audit' = audit \cup
             {[action |-> IF d.reverses = NoEntry THEN "POST_JOURNAL"
                                                  ELSE "REVERSE_JOURNAL",
               target |-> i, success |-> TRUE]}
        /\ End(s)
        /\ UNCHANGED <<period, closeLog, active, nextId>>

-----------------------------------------------------------------------------
(* PeriodService.                                                          *)

(* A period row appears (ensure_period; only the seed script calls it).    *)
EnsurePeriod(p) ==
    /\ period[p] = "ABSENT"
    /\ period' = [period EXCEPT ![p] = "OPEN"]
    /\ UNCHANGED <<entries, wallet, closeLog, audit, active, nextId, pc, job>>

(* A reopen with a reason under 30 characters is refused before any read   *)
(* and changes nothing: requests here have a long enough one.              *)
StartPeriodOp(s, op, p) ==
    /\ RoomForLog(p)
    /\ Goto(s, "idle", "status")
    /\ job' = [job EXCEPT ![s] = PeriodJob(op, p, {}, {})]
    /\ UNCHANGED <<tables, nextId>>

(* Mutant: closing can begin again in any status.                          *)
AllowedAgain(op, status) ==
    CASE op = "begin_closing" -> status # "ABSENT"
      [] op = "close"         -> status \in {"OPEN", "IN_CLOSING", "REOPENED"}
      [] op = "reopen"        -> status = "CLOSED"

Allowed(op, status) ==
    CASE op = "begin_closing" -> status = "OPEN"
      [] op = "close"         -> status \in {"OPEN", "IN_CLOSING", "REOPENED"}
      [] op = "reopen"        -> status = "CLOSED"

Target(op) ==
    CASE op = "begin_closing" -> "IN_CLOSING"
      [] op = "close"         -> "CLOSED"
      [] op = "reopen"        -> "REOPENED"

CheckStatus(s) ==
    /\ pc[s] = "status"
    /\ IF Allowed(job[s].op, period[job[s].period])
         THEN /\ Goto(s, "status", IF job[s].op = "close" THEN "gl" ELSE "apply")
              /\ UNCHANGED job
         ELSE End(s)
    /\ UNCHANGED <<tables, nextId>>

(* Trial balance and attachment gate of close, over committed entries.     *)
CloseGate(p) ==
    /\ \A e \in Posted(InPeriod(entries, p)) : Balanced(e.draft)
    /\ \A e \in InPeriod(entries, p) :
           e.draft.kind = "manual" => e.draft.attach # "missing"

(* reconcile_to_gl reads the control balance in one statement ...          *)
ReadControl(s) ==
    /\ pc[s] = "gl"
    /\ IF CloseGate(job[s].period)
         THEN /\ Goto(s, "gl", "sub")
              /\ job' = [job EXCEPT ![s] =
                           PeriodJob("close", job[s].period, ControlLines(entries), {})]
         ELSE End(s)
    /\ UNCHANGED <<tables, nextId>>

(* ... and the sub-ledger in the next; a difference refuses the close.     *)
ReadSubLedger(s) ==
    /\ pc[s] = "sub"
    /\ IF Sum(job[s].gl) = Sum(wallet)
         THEN Goto(s, "sub", "snapshot") /\ UNCHANGED job
         ELSE End(s)
    /\ UNCHANGED <<tables, nextId>>

(* _gl_balances_snapshot: the entries whose lines it counts.               *)
Snapshot(s) ==
    /\ Goto(s, "snapshot", "apply")
    /\ job' = [job EXCEPT ![s] =
                 PeriodJob("close", job[s].period, job[s].gl,
                           L!Ids(Posted(InPeriod(entries, job[s].period))))]
    /\ UNCHANGED <<tables, nextId>>

(* close and reopen write a row of period_close_log, begin_closing none.   *)
Logged(log, op, counted) ==
    CASE op = "begin_closing" -> log
      [] op = "close"         -> Append(log, [action |-> "CLOSE", counted |-> counted])
      [] op = "reopen"        -> Append(log, [action |-> "REOPEN", counted |-> {}])

(* The UPDATE of master.periods has no condition on the status that was    *)
(* read: a writer that waited for the row overwrites what it finds.        *)
ApplyStatus(s) ==
    LET p  == job[s].period
        op == job[s].op
    IN  /\ pc[s] = "apply"
        /\ period' = [period EXCEPT ![p] = Target(op)]
        /\ closeLog' = [closeLog EXCEPT ![p] = Logged(@, op, job[s].counted)]
        /\ audit' = audit \cup {[action |-> op, target |-> p, success |-> TRUE]}
        /\ End(s)
        /\ UNCHANGED <<entries, wallet, active, nextId>>

-----------------------------------------------------------------------------
(* Around the requests.                                                    *)

(* PUT /students/{id}: one UPDATE of the active flag.                      *)
SetActive(st) ==
    /\ active' = IF st \in active THEN active \ {st} ELSE active \cup {st}
    /\ UNCHANGED <<entries, wallet, period, closeLog, audit, nextId, pc, job>>

(* The process dies or the connection drops before the commit.             *)
Crash(s) ==
    /\ pc[s] # "idle"
    /\ End(s)
    /\ UNCHANGED <<tables, nextId>>

Request(s) ==
    \/ \E d \in Drafts : StartPost(s, d)
    \/ \E o \in entries, on \in Periods : StartReverse(s, o, on)
    \/ \E op \in PeriodOps, p \in Periods : StartPeriodOp(s, op, p)

(* What a slot does once it has a request.                                 *)
Step(s) ==
    \/ CheckPeriod(s) \/ CheckKeys(s) \/ CheckWallet(s) \/ Fail(s)
    \/ Insert(s) \/ Trigger(s) \/ Commit(s)
    \/ CheckStatus(s) \/ ReadControl(s) \/ ReadSubLedger(s)
    \/ Snapshot(s) \/ ApplyStatus(s)

Next ==
    \/ \E s \in Slots : Request(s) \/ Step(s) \/ Crash(s)
    \/ \E p \in Periods : EnsurePeriod(p)
    \/ \E st \in Students : SetActive(st)

Spec == Init /\ [][Next]_vars

(* A request that has a connection runs to its end: the thread is not      *)
(* stopped and PostgreSQL wakes the waiter of a lock when its holder ends. *)
FairSpec == Spec /\ \A s \in Slots : WF_vars(Step(s))

-----------------------------------------------------------------------------
(* Properties.                                                             *)

(* Every committed row has the type of its table, and a slot that is in a  *)
(* posting holds a posting, one in a period transition holds that.         *)
TypeOK ==
    /\ entries \subseteq Entry
    /\ wallet \subseteq WalletRow
    /\ period \in [Periods -> Statuses]
    /\ closeLog \in [Periods -> Seq(LogRow)]
    /\ audit \subseteq AuditRow
    /\ active \subseteq Students
    /\ nextId \in Nat \ {NoEntry}
    /\ pc \in [Slots -> {"idle"} \cup PostSteps \cup PeriodSteps]
    /\ job \in [Slots -> Job]
    /\ \A s \in Slots : /\ pc[s] \in PostSteps   => job[s].op = "post"
                        /\ pc[s] \in PeriodSteps => job[s].op \in PeriodOps

(* The student wallet mirrors account 2050 line by line at every commit,   *)
(* through postings, reversals, refused commits and crashes: the           *)
(* reconciliation gate of close compares two sums of the same rows.        *)
WalletMirrorsControl == wallet = ControlLines(entries)

(* An entry is REVERSED exactly when one committed entry reverses it, and  *)
(* that one has its lines with the sides swapped.  Nothing in              *)
(* reverse_journal but the source_ref it writes stops two callers who both *)
(* read POSTED from reversing the same entry.                              *)
ReversalsPaired ==
    /\ \A e \in entries : e.draft.reverses # NoEntry =>
          \E o \in entries : /\ o.id = e.draft.reverses
                             /\ o.status = "REVERSED"
                             /\ e.draft.lines = L!Flip(o.draft.lines)
    /\ \A o \in entries : o.status = "REVERSED" =>
          \E e \in entries : e.draft.reverses = o.id
    /\ \A e, f \in entries :
          e.draft.reverses # NoEntry /\ e.draft.reverses = f.draft.reverses => e = f

(* A draft reverses nothing, or it reverses an entry of the book under the *)
(* reference that reverse_journal gives it.                                *)
ReversalOf(d, E) ==
    \/ d.reverses = NoEntry /\ d.ref \in Refs \cup {NoRef}
    \/ /\ d.reverses # NoEntry /\ d.ref = d.reverses
       /\ \E o \in E : o.id = d.reverses /\ d.lines = L!Flip(o.draft.lines)

(* What a transaction in flight is about to commit fits the book as it is: *)
(* an entry it has inserted has an id and a source_ref that neither the    *)
(* book nor another open transaction has, and a reversal still finds its   *)
(* original with the lines it read.                                        *)
InFlight ==
    /\ \A s \in Slots : pc[s] \in PostSteps => ReversalOf(job[s].draft, entries)
    /\ \A s \in Slots : Inserted(s) =>
          /\ job[s].id \in Nat \ {NoEntry} /\ job[s].id < nextId
          /\ \A e \in entries : e.id # job[s].id
          /\ L!RefFree(entries, job[s].draft.ref)
    /\ \A s, t \in Slots : s # t /\ Inserted(s) /\ Inserted(t) =>
          /\ job[s].id # job[t].id
          /\ job[s].draft.ref # NoRef => job[s].draft.ref # job[t].draft.ref

(* Whatever the interleaving, the committed journal behaves as the book    *)
(* that Ledger promises: append-only, ids and references unique, one       *)
(* reversal in the step that marks its original.                           *)
ImplementsLedger == L!Spec

(* The ids and the source references of the book are unique, and what      *)
(* reverses an entry has its id for a reference.                           *)
BookUnique ==
    /\ \A e \in entries : e.id < nextId
    /\ \A e, f \in entries : e.id = f.id => e = f
    /\ \A e, f \in entries :
          e.draft.ref # NoRef /\ e.draft.ref = f.draft.ref => e = f
    /\ \A e \in entries : ReversalOf(e.draft, entries)

(* The inductive invariant of the proofs.                                  *)
IInv ==
    /\ TypeOK
    /\ BookUnique
    /\ InFlight
    /\ WalletMirrorsControl
    /\ ReversalsPaired

(* Every request that is given a connection gets an answer: no lock wait   *)
(* on the unique index lasts for ever.                                     *)
RequestsEnd == \A s \in Slots : pc[s] # "idle" ~> pc[s] = "idle"

(* No student wallet is below zero (_validate_wallet_non_negative and the  *)
(* deferred trigger).                                                      *)
WalletNonNegative == \A st \in Students : Balance(wallet, st) >= 0

(* What a draft, or a reversal of it, may take from one student.           *)
Moves(d, st) == Sum({r \in ApplyLines(NoEntry, d) : r.student = st})
MostTaken ==
    LET moves == {Moves(d, st) : d \in Drafts, st \in Students}
    IN  Max({0} \cup moves \cup {- m : m \in moves})

(* How far below zero a wallet gets when postings overlap: whoever passes  *)
(* the trigger has enough without the others that passed it, so that each  *)
(* connection but one can take what it takes once too often, and while the *)
(* wallet is below zero nobody else passes.                                *)
OverdraftBounded ==
    \A st \in Students : Balance(wallet, st) >= - (Cardinality(Slots) - 1) * MostTaken

(* No entry is committed into a CLOSED period.                             *)
NothingEntersClosed ==
    [][\A e \in entries' : e.id \notin L!Ids(entries) =>
           period[e.draft.period] # "CLOSED"]_vars

(* A closed period is sealed when no posting and no transition that read   *)
(* its status before it was closed is still under way.  From then on,      *)
(* however many connections there are, no entry enters it and it stays     *)
(* CLOSED until a request that read CLOSED reopens it: the two checks on   *)
(* the status are enough, and only a read before the close gets past them. *)
Checked == {"keys", "wallet", "insert", "trigger", "commit"}
Passed(s, p) ==
    \/ pc[s] \in Checked /\ job[s].draft.period = p
    \/ pc[s] = "apply" /\ job[s].op # "close" /\ job[s].period = p
Reopening(s, p) == pc[s] = "apply" /\ job[s].op = "reopen" /\ job[s].period = p
Sealed(p) == period[p] = "CLOSED" /\ \A s \in Slots : ~ Passed(s, p)
SealedUntilReopened ==
    [][\A p \in Periods : Sealed(p) =>
          /\ Sealed(p)' \/ \E s \in Slots : Reopening(s, p)' /\ period'[p] = "CLOSED"
          /\ L!Ids(InPeriod(entries', p)) = L!Ids(InPeriod(entries, p))]_vars

=============================================================================
