----------------------------- MODULE Sanctions -----------------------------
(***************************************************************************)
(* The sanction workflow (agents/sanctions.py, api/routes/sanctions.py)    *)
(* with its memo sub-ledger (subledgers/sanction_memo.py): a department    *)
(* submits a request, the financial analyst and then the CFO decide, a CFO *)
(* approval posts a memo on the paired accounts 2060 and 9010, a spend     *)
(* reverses memo and posts the expense.                                    *)
(*                                                                         *)
(* A slot is a database connection serving one call in one transaction.    *)
(* An UPDATE locks the row of the request until the transaction ends, and  *)
(* reads it as it is once the lock is granted; mail goes out at once.      *)
(* Posting is abstracted to what matters here: it may refuse (a closed     *)
(* period, an unknown account), and a source_ref is posted once.           *)
(* The CFO's journals (api/routes/manual_je.py) reach 2060 and 9010 as     *)
(* well: reversals of what the workflow posted, and lines of any kind.     *)
(***************************************************************************)
EXTENDS Integers, Sequences, SequencesExt, FiniteSetsExt

CONSTANTS
    Slots,        \* database connections
    Requests,     \* ids of sanction requests
    Amounts,      \* amounts asked for and spent
    MaxDecisions, \* bound: decisions committed on one request
    MaxByHand     \* bound: amounts on the CFO's lines for one request

ASSUME SanctionsAssumption ==
    /\ IsFiniteSet(Requests)
    /\ Amounts \subseteq Nat \ {0}
    /\ MaxDecisions \in Nat
    /\ MaxByHand \in Nat

VARIABLES
    status,     \* sanction_requests.status, "NONE" when there is no row
    amount,     \* sanction_requests.amount_aed, 0 when there is no row
    decisions,  \* audit_log rows of a request: who decided, and how
    posted,     \* amount posted on a request, per kind of journal entry
    memo,       \* sanction_memo_entries of a request, summed per side
    byhand,     \* amounts of the CFO's lines on 2060 and 9010, per request
    reversed,   \* the workflow's entries of a request that are REVERSED
    pc, job     \* each slot's transaction

cfo == <<byhand, reversed>>
vars == <<status, amount, decisions, posted, memo, cfo, pc, job>>
tables == <<status, amount, decisions, posted, memo, cfo>>

-----------------------------------------------------------------------------
Statuses == {"NONE", "PENDING_FA", "PENDING_CFO", "APPROVED", "REJECTED"}
Decision == [by : {"FA", "CFO"}, approve : BOOLEAN]

(* The last part of the three source references of a request.              *)
Kinds == {"APPROVE", "SPEND-REV", "SPEND-EXP"}
Sides == {"COMMIT", "CONTRA", "SPEND_REVERSE"}
Lines == {"Dr2060", "Cr2060", "Dr9010", "Cr9010"}

Job == [op : {"none"}]
       \cup [op : {"decide"}, req : Requests, by : {"FA", "CFO"}, approve : BOOLEAN]
       \cup [op : {"spend"}, req : Requests, amount : Amounts]

NoJob == [op |-> "none"]
DecideJob(r, by, ok) == [op |-> "decide", req |-> r, by |-> by, approve |-> ok]
SpendJob(r, a) == [op |-> "spend", req |-> r, amount |-> a]

DecideSteps == {"update", "notify", "memo", "commit"}
SpendSteps == {"reverse", "expense", "spent"}

(* Mutant: a spend takes back the commitment alone.                        *)
ApplyLinesScoped(sums, kind, a) ==
    IF kind = "APPROVE"
    THEN [sums EXCEPT !["COMMIT"] = @ - a, !["CONTRA"] = @ + a]
    ELSE [sums EXCEPT !["SPEND_REVERSE"] = @ - a]

(* The row of one line, as apply_line classifies and signs it: a debit of  *)
(* 2060 is a COMMIT, a credit of 9010 a CONTRA, the rest SPEND_REVERSE;    *)
(* the sign is credit - debit on both accounts.                            *)
ApplyLine(sums, line, a) ==
    CASE line = "Dr2060" -> [sums EXCEPT !["COMMIT"] = @ - a]
      [] line = "Cr9010" -> [sums EXCEPT !["CONTRA"] = @ + a]
      [] line = "Dr9010" -> [sums EXCEPT !["SPEND_REVERSE"] = @ - a]
      [] line = "Cr2060" -> [sums EXCEPT !["SPEND_REVERSE"] = @ + a]

(* The two lines of a memo entry: an approval debits 2060 and credits      *)
(* 9010, a spend does the opposite.                                        *)
ApplyLines(sums, kind, a) ==
    IF kind = "APPROVE"
    THEN ApplyLine(ApplyLine(sums, "Dr2060", a), "Cr9010", a)
    ELSE ApplyLine(ApplyLine(sums, "Dr9010", a), "Cr2060", a)

(* The unique index on source_ref: SANCTION-<r>-<kind> has been used.      *)
(* Amounts are positive: an entry leaves a sum that is not zero.           *)
InBook(r, kind) == posted[r][kind] # 0

(* post_journal of an entry of each kind.                                  *)
Post(sums, kinds, a) ==
    [k \in Kinds |-> IF k \in kinds THEN sums[k] + a ELSE sums[k]]

(* reconcile_to_gl: the balance of 2060 in the journal, and what the       *)
(* sub-ledger makes of it.                                                 *)
ControlBalance ==
    MapThenSumSet(LAMBDA r : (posted[r]["SPEND-REV"] + byhand[r]["Cr2060"])
                                - (posted[r]["APPROVE"] + byhand[r]["Dr2060"]), Requests)
SubLedgerSum ==
    MapThenSumSet(LAMBDA r : memo[r]["COMMIT"] - memo[r]["SPEND_REVERSE"], Requests)

-----------------------------------------------------------------------------
Goto(s, from, to) == pc[s] = from /\ pc' = [pc EXCEPT ![s] = to]

(* Commit or rollback: the transaction and its locks are gone.             *)
End(s) ==
    /\ pc' = [pc EXCEPT ![s] = "idle"]
    /\ job' = [job EXCEPT ![s] = NoJob]

(* The slot holds the lock on the request's row.                           *)
Locks(s, r) == pc[s] \in {"notify", "memo", "commit"} /\ job[s].req = r

(* The slot has inserted an entry of a spend and not committed.            *)
Spending(s, r) == pc[s] \in {"expense", "spent"} /\ job[s].req = r

Deciding(r) == {s \in Slots : job[s].op = "decide" /\ job[s].req = r}
RoomFor(r) == Len(decisions[r]) + Cardinality(Deciding(r)) < MaxDecisions

Init ==
    /\ status = [r \in Requests |-> "NONE"]
    /\ amount = [r \in Requests |-> 0]
    /\ decisions = [r \in Requests |-> <<>>]
    /\ posted = [r \in Requests |-> [k \in Kinds |-> 0]]
    /\ memo = [r \in Requests |-> [side \in Sides |-> 0]]
    /\ byhand = [r \in Requests |-> [l \in Lines |-> 0]]
    /\ reversed = [r \in Requests |-> {}]
    /\ pc = [s \in Slots |-> "idle"]
    /\ job = [s \in Slots |-> NoJob]

(* submit: one INSERT, already PENDING_FA.                                 *)
Submit(r, a) ==
    /\ status[r] = "NONE"
    /\ status' = [status EXCEPT ![r] = "PENDING_FA"]
    /\ amount' = [amount EXCEPT ![r] = a]
    /\ UNCHANGED <<decisions, posted, memo, cfo, pc, job>>

(* A decision on an id without a row touches no request: not enumerated.   *)
StartDecision(s, r, by, ok) ==
    /\ RoomFor(r)
    /\ status[r] # "NONE"
    /\ Goto(s, "idle", "update")
    /\ job' = [job EXCEPT ![s] = DecideJob(r, by, ok)]
    /\ UNCHANGED tables

(* The UPDATE waits for the row and then reads its latest committed        *)
(* version; no row matched, the call raises.                               *)
UpdateWhere(s, turn, matches) ==
    /\ pc[s] = "update"
    /\ turn
    /\ IF matches THEN Goto(s, "update", "notify") /\ UNCHANGED job
                  ELSE End(s)
    /\ UNCHANGED tables

RowFree(s) == \A t \in Slots \ {s} : ~ Locks(t, job[s].req)
Pending(s) == job[s].by = "CFO" => status[job[s].req] = "PENDING_CFO"

(* Mutants: cfo_decide as unconditional as fa_decide; a CFO decision that  *)
(* waits for the FA's instead of failing.                                  *)
UpdateAny(s) == UpdateWhere(s, RowFree(s), TRUE)
UpdateWhenPending(s) == UpdateWhere(s, RowFree(s) /\ Pending(s), TRUE)

(* fa_decide's UPDATE has no condition on the status, cfo_decide's has.    *)
Update(s) == UpdateWhere(s, RowFree(s), Pending(s))

(* _notify_sanction, inside the transaction and under the lock.  The mail  *)
(* leaves the system, sent or not: a failure to send is swallowed.         *)
Notify(s) ==
    /\ Goto(s, "notify", IF job[s].by = "CFO" /\ job[s].approve THEN "memo" ELSE "commit")
    /\ UNCHANGED <<tables, job>>

(* Mutant: a source_ref of its own for each approval.                      *)
PostMemoAgain(s) ==
    /\ \/ Goto(s, "memo", "commit") /\ UNCHANGED job
       \/ pc[s] = "memo" /\ End(s)
    /\ UNCHANGED tables

(* post_journal of the memo entry.  It may be refused by a check, and is   *)
(* refused by the index once the request has been approved before.         *)
PostMemo(s) ==
    /\ \/ /\ Goto(s, "memo", "commit") /\ ~ InBook(job[s].req, "APPROVE")
          /\ UNCHANGED job
       \/ pc[s] = "memo" /\ End(s)
    /\ UNCHANGED tables

(* Mutant: a rejection by the FA closes the request, as its mail says.     *)
RejectCloses(by, ok) ==
    IF ~ ok THEN "CLOSED" ELSE IF by = "FA" THEN "PENDING_CFO" ELSE "APPROVED"

NewStatus(by, ok) ==
    IF ~ ok THEN "REJECTED" ELSE IF by = "FA" THEN "PENDING_CFO" ELSE "APPROVED"

CommitDecision(s) ==
    LET j == job[s]
        r == j.req
    IN  /\ pc[s] = "commit"
        /\ status' = [status EXCEPT ![r] = NewStatus(j.by, j.approve)]
        /\ decisions' = [decisions EXCEPT ![r] =
                           Append(@, [by |-> j.by, approve |-> j.approve])]
        /\ IF j.by = "CFO" /\ j.approve
             THEN /\ posted' = [posted EXCEPT ![r] = Post(@, {"APPROVE"}, amount[r])]
                  /\ memo' = [memo EXCEPT ![r] = ApplyLines(@, "APPROVE", amount[r])]
             ELSE UNCHANGED <<posted, memo>>
        /\ End(s)
        /\ UNCHANGED <<amount, cfo>>

(* post_spend asks nothing of the request but, through the key check, that *)
(* it exists.                                                              *)
StartSpend(s, r, a) ==
    /\ Goto(s, "idle", "reverse")
    /\ job' = [job EXCEPT ![s] = SpendJob(r, a)]
    /\ UNCHANGED tables

(* The first of its two postings.                                          *)
ReverseMemoWhen(s, turn) ==
    LET r == job[s].req
    IN  /\ pc[s] = "reverse"
        /\ turn
        /\ \/ /\ status[r] # "NONE" /\ ~ InBook(r, "SPEND-REV")
              /\ Goto(s, "reverse", "expense") /\ UNCHANGED job
           \/ End(s)
        /\ UNCHANGED tables

(* Mutant: a lookup of the source_ref instead of the index.                *)
ReverseMemoAfterLookup(s) == ReverseMemoWhen(s, TRUE)

(* On the unique index it waits for another spend of the request.          *)
ReverseMemo(s) == ReverseMemoWhen(s, \A t \in Slots \ {s} : ~ Spending(t, job[s].req))

(* Mutant: the handler's except clause answers 400 without raising, and    *)
(* the session commits what the first posting left.                        *)
PostExpenseSwallowed(s) ==
    LET r == job[s].req
    IN  \/ Goto(s, "expense", "spent") /\ UNCHANGED <<tables, job>>
        \/ /\ pc[s] = "expense" /\ End(s)
           /\ posted' = [posted EXCEPT ![r] = Post(@, {"SPEND-REV"}, job[s].amount)]
           /\ UNCHANGED <<status, amount, decisions, memo, cfo>>

(* The second, refused by a check (the account is the caller's): the       *)
(* exception rolls the first one back.                                     *)
PostExpense(s) ==
    /\ \/ Goto(s, "expense", "spent") /\ UNCHANGED job
       \/ pc[s] = "expense" /\ End(s)
    /\ UNCHANGED tables

CommitSpend(s) ==
    LET r == job[s].req
        a == job[s].amount
    IN  /\ pc[s] = "spent"
        /\ posted' = [posted EXCEPT ![r] = Post(@, {"SPEND-REV", "SPEND-EXP"}, a)]
        /\ memo' = [memo EXCEPT ![r] = ApplyLines(@, "SPEND-REV", a)]
        /\ End(s)
        /\ UNCHANGED <<status, amount, decisions, cfo>>

(* post_manual: a line on one of the two accounts, its counterpart on any  *)
(* account (a journal with a line on each is two of these).  The key check *)
(* asks for the request; no source_ref keeps the journal from coming back. *)
PostManual(r, line, a) ==
    /\ status[r] # "NONE"
    /\ SumFunctionOnSet(byhand[r], Lines) + a <= MaxByHand
    /\ byhand' = [byhand EXCEPT ![r][line] = @ + a]
    /\ memo' = [memo EXCEPT ![r] = ApplyLine(@, line, a)]
    /\ UNCHANGED <<status, amount, decisions, posted, reversed, pc, job>>

Swapped(kind) ==
    IF kind = "APPROVE" THEN {"Cr2060", "Dr9010"} ELSE {"Dr2060", "Cr9010"}

(* reverse_journal of a memo entry, once (its own source_ref): the lines   *)
(* with sides swapped, mirrored like any others.  The request, its status  *)
(* and its source_refs stay.  The expense has no line on these accounts;   *)
(* a reversal's reversal has lines that PostManual posts.                  *)
ReverseEntry(r, kind) ==
    LET a == posted[r][kind]
    IN  /\ InBook(r, kind) /\ kind \notin reversed[r]
        /\ SumFunctionOnSet(byhand[r], Lines) + a <= MaxByHand
        /\ reversed' = [reversed EXCEPT ![r] = @ \cup {kind}]
        /\ byhand' = [byhand EXCEPT ![r] =
                        [l \in Lines |-> IF l \in Swapped(kind) THEN @[l] + a ELSE @[l]]]
        /\ memo' = [memo EXCEPT ![r] =
                      ApplyLines(@, IF kind = "APPROVE" THEN "SPEND-REV" ELSE "APPROVE", a)]
        /\ UNCHANGED <<status, amount, decisions, posted, pc, job>>

(* The process dies or the connection drops before the commit.             *)
Crash(s) ==
    /\ pc[s] # "idle"
    /\ End(s)
    /\ UNCHANGED tables

Others(s) ==
    \/ Notify(s) \/ PostMemo(s) \/ CommitDecision(s)
    \/ ReverseMemo(s) \/ PostExpense(s) \/ CommitSpend(s)

Call(s, r) ==
    \/ \E by \in {"FA", "CFO"}, ok \in BOOLEAN : StartDecision(s, r, by, ok)
    \/ \E a \in Amounts : StartSpend(s, r, a)

ByHand(r) ==
    \/ \E line \in Lines, a \in Amounts : PostManual(r, line, a)
    \/ \E kind \in {"APPROVE", "SPEND-REV"} : ReverseEntry(r, kind)

Next ==
    \/ \E r \in Requests, a \in Amounts : Submit(r, a)
    \/ \E s \in Slots, r \in Requests : Call(s, r)
    \/ \E r \in Requests : ByHand(r)
    \/ \E s \in Slots : Update(s) \/ Others(s) \/ Crash(s)

Spec == Init /\ [][Next]_vars

(* A thread is not stopped.  The UPDATE and the INSERT wait in the queue   *)
(* that PostgreSQL keeps for a lock, and are woken in turn.                *)
FairSpec ==
    /\ Spec
    /\ \A s \in Slots : WF_vars(Others(s)) /\ SF_vars(Update(s)) /\ SF_vars(ReverseMemo(s))

-----------------------------------------------------------------------------
(* Properties.                                                             *)

(* Every row has the type of its table, and a transaction is in a step of  *)
(* the call it serves.                                                     *)
TypeOK ==
    /\ status \in [Requests -> Statuses]
    /\ amount \in [Requests -> Nat]
    /\ decisions \in [Requests -> Seq(Decision)]
    /\ posted \in [Requests -> [Kinds -> Nat]]
    /\ memo \in [Requests -> [Sides -> Int]]
    /\ byhand \in [Requests -> [Lines -> Nat]]
    /\ reversed \in [Requests -> SUBSET Kinds]
    /\ pc \in [Slots -> {"idle"} \cup DecideSteps \cup SpendSteps]
    /\ job \in [Slots -> Job]
    /\ \A s \in Slots : /\ pc[s] \in DecideSteps => job[s].op = "decide"
                        /\ pc[s] \in SpendSteps  => job[s].op = "spend"

LastIs(seq, d) == seq # <<>> /\ seq[Len(seq)] = d
Yes(by) == [by |-> by, approve |-> TRUE]

(* A request is APPROVED only by the CFO's approval right after the FA's:  *)
(* with both decisions repeatable and racing, nothing but the condition of *)
(* cfo_decide's UPDATE and the row lock it takes sees to that.             *)
TwoApprovals ==
    \A r \in Requests : status[r] = "APPROVED" =>
        LET d == decisions[r]
        IN  Len(d) >= 2 /\ d[Len(d)] = Yes("CFO") /\ d[Len(d) - 1] = Yes("FA")

(* The books have a commitment of what was asked or none, and that of an   *)
(* APPROVED request.  The FA may send an approved request back to the CFO: *)
(* only the source_ref stops a second memo.                                *)
CommittedOnce ==
    \A r \in Requests :
        /\ posted[r]["APPROVE"] \in {0, amount[r]}
        /\ status[r] = "APPROVED" => InBook(r, "APPROVE")

(* The two journals of a spend are posted together or not at all, for the  *)
(* same amount: they are two calls of post_journal, the second of which    *)
(* may be refused.                                                         *)
SpendWhole == \A r \in Requests : posted[r]["SPEND-REV"] = posted[r]["SPEND-EXP"]

(* What a transaction in flight may count on: the request is there; under  *)
(* the lock, a CFO's decision finds it pending; what it is about to post   *)
(* has not been posted.                                                    *)
Fits(s) ==
    /\ pc[s] \in DecideSteps => status[job[s].req] # "NONE"
    /\ pc[s] \in {"notify", "memo", "commit"} /\ job[s].by = "CFO" =>
          status[job[s].req] = "PENDING_CFO"
    /\ pc[s] = "memo" => job[s].by = "CFO" /\ job[s].approve
    /\ pc[s] = "commit" /\ job[s].by = "CFO" /\ job[s].approve =>
          ~ InBook(job[s].req, "APPROVE")
    /\ pc[s] \in {"expense", "spent"} => ~ InBook(job[s].req, "SPEND-REV")

(* No two of them hold one request's row or one source_ref.                *)
Apart(s, t) ==
    \A r \in Requests : ~ (Locks(s, r) /\ Locks(t, r)) /\ ~ (Spending(s, r) /\ Spending(t, r))

(* A request that waits for the CFO has the FA's approval as its last      *)
(* decision; a request that is there asks for something, and nothing is    *)
(* committed on one that is not.                                           *)
Backed ==
    \A r \in Requests :
        /\ status[r] = "PENDING_CFO" => LastIs(decisions[r], Yes("FA"))
        /\ InBook(r, "APPROVE") => status[r] # "NONE"
        /\ status[r] # "NONE" => amount[r] # 0

(* The inductive invariant of the proofs.                                  *)
IInv ==
    /\ TypeOK
    /\ \A s \in Slots : Fits(s)
    /\ \A s, t \in Slots : s # t => Apart(s, t)
    /\ Backed /\ TwoApprovals /\ CommittedOnce /\ SpendWhole

(* What was posted on a request is posted once: no later step adds to it.  *)
PostedOnce ==
    [][\A r \in Requests, k \in Kinds : InBook(r, k) => posted'[r][k] = posted[r][k]]_vars

(* Every call gets an answer: the queue on a request's row drains.         *)
CallsEnd == \A s \in Slots : pc[s] # "idle" ~> pc[s] = "idle"

(* What makes the memo sub-ledger differ from account 2060: every credit   *)
(* of 2060 counts double, as SPEND_REVERSE is subtracted, and every debit  *)
(* of 9010 takes its own amount off.  So a spend sets them apart by what   *)
(* was spent, and so does taking an approval back; taking a spend back     *)
(* does not bring them together, and whatever else was decided, retried or *)
(* crashed leaves no trace.                                                *)
MemoDrift ==
    ControlBalance - SubLedgerSum
      = MapThenSumSet(LAMBDA r : (posted[r]["SPEND-EXP"] + 2 * byhand[r]["Cr2060"])
                                   - byhand[r]["Dr9010"], Requests)

=============================================================================
