-------------------------- MODULE SanctionsProofs --------------------------
(***************************************************************************)
(* Proofs about Sanctions, for every set of connections, requests and      *)
(* amounts.  IInv adds to the properties what the row lock and the unique  *)
(* index guarantee to a transaction before its commit.  MemoFollows is     *)
(* what the sums over all requests of MemoDrift come from.                 *)
(***************************************************************************)
EXTENDS Sanctions, Sums

USE SanctionsAssumption
USE DEF vars, cfo, tables, DecideSteps, SpendSteps

(* A transaction in the steps of a decision carries one, and one in the    *)
(* steps of a spend carries that.                                          *)
LEMMA JobFields ==
    ASSUME TypeOK, NEW s \in Slots
    PROVE  /\ pc[s] \in DecideSteps =>
                /\ job[s].req \in Requests
                /\ job[s].by \in {"FA", "CFO"}
                /\ job[s].approve \in BOOLEAN
                /\ job[s] = DecideJob(job[s].req, job[s].by, job[s].approve)
           /\ pc[s] \in SpendSteps =>
                job[s].req \in Requests /\ job[s].amount \in Amounts
<1>1. job[s] \in Job
  BY DEF TypeOK
<1>2. pc[s] \in DecideSteps => job[s].op = "decide"
  BY DEF TypeOK
<1>3. pc[s] \in SpendSteps => job[s].op = "spend"
  BY DEF TypeOK
<1> QED BY <1>1, <1>2, <1>3 DEF Job, DecideJob

(* The jobs a call hands to its transaction are jobs.                      *)
LEMMA JobTypes ==
    /\ NoJob \in Job
    /\ \A r \in Requests, by \in {"FA", "CFO"}, ok \in BOOLEAN : DecideJob(r, by, ok) \in Job
    /\ \A r \in Requests, a \in Amounts : SpendJob(r, a) \in Job
BY DEF Job, NoJob, DecideJob, SpendJob

(* Init puts nothing on the books and no transaction in flight.            *)
LEMMA InductiveInit == Init => IInv
<1> SUFFICES ASSUME Init PROVE IInv
  OBVIOUS
<1>1. TypeOK
  <2>1. \A S : <<>> \in Seq(S)
    OBVIOUS
  <2> QED BY <2>1, JobTypes DEF Init, TypeOK, Statuses, Kinds, Lines, Sides
<1>2. \A s \in Slots : Fits(s)
  BY DEF Init, Fits
<1>3. \A s, t \in Slots : Apart(s, t)
  BY DEF Init, Apart, Locks, Spending
<1>4. Backed /\ TwoApprovals /\ CommittedOnce /\ SpendWhole
  BY DEF Init, Backed, TwoApprovals, CommittedOnce, SpendWhole, InBook, Kinds
<1> QED BY <1>1, <1>2, <1>3, <1>4 DEF IInv

-----------------------------------------------------------------------------
(* Steps that write no table.                                              *)

(* What is on the tables stays true of them.                               *)
LEMMA TablesKept ==
    ASSUME IInv, UNCHANGED tables
    PROVE  Backed' /\ TwoApprovals' /\ CommittedOnce' /\ SpendWhole'
BY DEF IInv, Backed, TwoApprovals, CommittedOnce, SpendWhole, InBook, LastIs

(* Two transactions are apart whichever is named first.                    *)
LEMMA ApartBothWays ==
    ASSUME NEW s, NEW t, Apart(s, t)'
    PROVE  Apart(t, s)'
BY DEF Apart

(* When one transaction moves and no table changes, it is enough that the  *)
(* one that moves fits and stays apart from the others.                    *)
LEMMA OneMoves ==
    ASSUME IInv, TypeOK', UNCHANGED tables, NEW s \in Slots,
           \A t \in Slots : t # s => pc'[t] = pc[t] /\ job'[t] = job[t],
           Fits(s)', \A t \in Slots : t # s => Apart(s, t)'
    PROVE  IInv'
<1>1. ASSUME NEW t \in Slots PROVE Fits(t)'
  BY DEF IInv, Fits, InBook
<1>2. ASSUME NEW t \in Slots, NEW u \in Slots, t # u, t # s, u # s PROVE Apart(t, u)'
  BY <1>2 DEF IInv, Apart, Locks, Spending
<1>3. ASSUME NEW t \in Slots, NEW u \in Slots, t # u PROVE Apart(t, u)'
  BY <1>2, <1>3, ApartBothWays
<1> QED BY <1>1, <1>3, TablesKept DEF IInv

(* A transaction that ends gives up what it held.                          *)
LEMMA EndKept ==
    ASSUME IInv, NEW s \in Slots, End(s), UNCHANGED tables
    PROVE  IInv'
<1>1. /\ pc'[s] = "idle" /\ \A t \in Slots : t # s => pc'[t] = pc[t] /\ job'[t] = job[t]
  BY DEF IInv, TypeOK, End
<1>2. TypeOK'
  BY JobTypes DEF IInv, TypeOK, End
<1>3. Fits(s)' /\ \A t \in Slots : Apart(s, t)'
  BY <1>1 DEF Fits, Apart, Locks, Spending
<1> QED BY <1>1, <1>2, <1>3, OneMoves

(* A call begins: its transaction holds nothing yet.                       *)
LEMMA StartKept ==
    ASSUME IInv, NEW s \in Slots, NEW j \in Job, NEW to \in {"update", "reverse"},
           Goto(s, "idle", to), job' = [job EXCEPT ![s] = j],
           UNCHANGED tables,
           to = "update" => j.op = "decide" /\ status[j.req] # "NONE",
           to = "reverse" => j.op = "spend"
    PROVE  IInv'
<1>1. /\ pc'[s] = to /\ job'[s] = j
      /\ \A t \in Slots : t # s => pc'[t] = pc[t] /\ job'[t] = job[t]
  BY DEF IInv, TypeOK, Goto
<1>2. TypeOK'
  BY DEF IInv, TypeOK, Goto
<1>3. Fits(s)' /\ \A t \in Slots : Apart(s, t)'
  BY <1>1 DEF Fits, Apart, Locks, Spending
<1> QED BY <1>1, <1>2, <1>3, OneMoves

(* The two calls start so.                                                 *)
LEMMA CallKept ==
    ASSUME IInv, NEW s \in Slots, NEW r \in Requests, Call(s, r)
    PROVE  IInv'
<1>1. CASE \E by \in {"FA", "CFO"}, ok \in BOOLEAN : StartDecision(s, r, by, ok)
  <2>1. PICK by \in {"FA", "CFO"}, ok \in BOOLEAN : StartDecision(s, r, by, ok)
    BY <1>1
  <2>2. DecideJob(r, by, ok) \in Job
    BY JobTypes
  <2>3. DecideJob(r, by, ok).op = "decide" /\ DecideJob(r, by, ok).req = r
    BY DEF DecideJob
  <2> QED BY <2>1, <2>2, <2>3, StartKept DEF StartDecision
<1>2. CASE \E a \in Amounts : StartSpend(s, r, a)
  <2>1. PICK a \in Amounts : StartSpend(s, r, a)
    BY <1>2
  <2>2. SpendJob(r, a) \in Job
    BY JobTypes
  <2>3. SpendJob(r, a).op = "spend"
    BY DEF SpendJob
  <2> QED BY <2>1, <2>2, <2>3, StartKept DEF StartSpend
<1> QED BY <1>1, <1>2 DEF Call

(* A transaction that moves on within its call, with what it needs there.  *)
LEMMA MoveKept ==
    ASSUME IInv, NEW s \in Slots, NEW from, NEW to, Goto(s, from, to),
           UNCHANGED <<tables, job>>,
           to \in DecideSteps \cup SpendSteps,
           to \in DecideSteps => from \in DecideSteps,
           to \in SpendSteps => from \in SpendSteps,
           Fits(s)', \A t \in Slots : t # s => Apart(s, t)'
    PROVE  IInv'
<1>1. \A t \in Slots : t # s => pc'[t] = pc[t] /\ job'[t] = job[t]
  BY DEF IInv, TypeOK, Goto
<1>2. TypeOK'
  BY DEF IInv, TypeOK, Goto
<1> QED BY <1>1, <1>2, OneMoves

(* What the moving transaction holds afterwards, when nothing else moves.  *)
LEMMA Moved ==
    ASSUME IInv, NEW s \in Slots, NEW from, NEW to, Goto(s, from, to), UNCHANGED <<tables, job>>
    PROVE  /\ pc[s] = from /\ pc'[s] = to
           /\ \A t \in Slots : t # s => pc'[t] = pc[t]
BY DEF IInv, TypeOK, Goto

(* The UPDATE takes the lock nobody else holds.                            *)
LEMMA UpdateKept ==
    ASSUME IInv, NEW s \in Slots, Update(s)
    PROVE  IInv'
<1>1. CASE Pending(s)
  <2>1. UNCHANGED <<tables, job>> /\ Goto(s, "update", "notify") /\ RowFree(s)
    BY <1>1 DEF Update, UpdateWhere
  <2>2. /\ pc[s] = "update" /\ pc'[s] = "notify"
        /\ \A t \in Slots : t # s => pc'[t] = pc[t]
    BY <2>1, Moved
  <2>3. Fits(s)'
    BY <1>1, <2>1, <2>2 DEF IInv, Fits, Pending
  <2>4. \A t \in Slots : t # s => Apart(s, t)'
    BY <2>1, <2>2 DEF Apart, Locks, Spending, RowFree
  <2> QED BY <2>1, <2>2, <2>3, <2>4, MoveKept
<1>2. CASE ~ Pending(s)
  BY <1>2, EndKept DEF Update, UpdateWhere
<1> QED BY <1>1, <1>2

(* Within a call, the lock and the source_ref once held stay held.         *)
LEMMA HeldApart ==
    ASSUME IInv, NEW s \in Slots, UNCHANGED job,
           \A t \in Slots : t # s => pc'[t] = pc[t],
           \/ pc[s] \in {"notify", "memo"} /\ pc'[s] \in {"memo", "commit"}
           \/ pc[s] = "expense" /\ pc'[s] = "spent"
    PROVE  \A t \in Slots : t # s => Apart(s, t)'
BY DEF IInv, Apart, Locks, Spending

(* The mail goes out under the lock.                                       *)
LEMMA NotifyKept ==
    ASSUME IInv, NEW s \in Slots, Notify(s)
    PROVE  IInv'
<1> DEFINE to == IF job[s].by = "CFO" /\ job[s].approve THEN "memo" ELSE "commit"
<1>1. UNCHANGED <<tables, job>> /\ Goto(s, "notify", to) /\ to \in {"memo", "commit"}
  BY DEF Notify
<1>3. to = "memo" => job[s].by = "CFO" /\ job[s].approve
  OBVIOUS
<1>4. to = "commit" => ~ (job[s].by = "CFO" /\ job[s].approve)
  OBVIOUS
<1> HIDE DEF to
<1>5. pc[s] = "notify" /\ pc'[s] = to /\ \A t \in Slots : t # s => pc'[t] = pc[t]
  BY <1>1, Moved
<1>6. Fits(s)'
  BY <1>1, <1>3, <1>4, <1>5 DEF IInv, Fits
<1>7. \A t \in Slots : t # s => Apart(s, t)'
  BY <1>1, <1>5, HeldApart
<1> QED BY <1>1, <1>6, <1>7, MoveKept

(* The memo entry gets its source_ref, or the decision ends.               *)
LEMMA PostMemoKept ==
    ASSUME IInv, NEW s \in Slots, PostMemo(s)
    PROVE  IInv'
<1>1. CASE End(s)
  BY <1>1, EndKept DEF PostMemo
<1>2. CASE Goto(s, "memo", "commit") /\ ~ InBook(job[s].req, "APPROVE") /\ UNCHANGED job
  <2>1. UNCHANGED tables
    BY DEF PostMemo
  <2>2. /\ pc[s] = "memo" /\ pc'[s] = "commit"
        /\ \A t \in Slots : t # s => pc'[t] = pc[t]
    BY <1>2, <2>1, Moved
  <2>3. Fits(s)'
    BY <1>2, <2>1, <2>2 DEF IInv, Fits, InBook
  <2>4. \A t \in Slots : t # s => Apart(s, t)'
    BY <1>2, <2>2, HeldApart
  <2> QED BY <1>2, <2>1, <2>2, <2>3, <2>4, MoveKept
<1> QED BY <1>1, <1>2 DEF PostMemo

(* The reversal gets its source_ref, or the spend ends.                    *)
LEMMA ReverseMemoKept ==
    ASSUME IInv, NEW s \in Slots, ReverseMemo(s)
    PROVE  IInv'
<1>1. CASE End(s)
  BY <1>1, EndKept DEF ReverseMemo, ReverseMemoWhen
<1>2. CASE Goto(s, "reverse", "expense") /\ ~ InBook(job[s].req, "SPEND-REV") /\ UNCHANGED job
  <2>1. UNCHANGED tables /\ \A t \in Slots \ {s} : ~ Spending(t, job[s].req)
    BY DEF ReverseMemo, ReverseMemoWhen
  <2>2. /\ pc[s] = "reverse" /\ pc'[s] = "expense"
        /\ \A t \in Slots : t # s => pc'[t] = pc[t]
    BY <1>2, <2>1, Moved
  <2>3. Fits(s)'
    BY <1>2, <2>1, <2>2 DEF Fits, InBook
  <2>4. \A t \in Slots : t # s => Apart(s, t)'
    BY <1>2, <2>1, <2>2 DEF Apart, Locks, Spending
  <2> QED BY <1>2, <2>1, <2>2, <2>3, <2>4, MoveKept
<1> QED BY <1>1, <1>2 DEF ReverseMemo, ReverseMemoWhen

(* The expense follows, or the spend ends.                                 *)
LEMMA PostExpenseKept ==
    ASSUME IInv, NEW s \in Slots, PostExpense(s)
    PROVE  IInv'
<1>1. CASE End(s)
  BY <1>1, EndKept DEF PostExpense
<1>2. CASE Goto(s, "expense", "spent") /\ UNCHANGED job
  <2>1. UNCHANGED tables
    BY DEF PostExpense
  <2>2. /\ pc[s] = "expense" /\ pc'[s] = "spent"
        /\ \A t \in Slots : t # s => pc'[t] = pc[t]
    BY <1>2, <2>1, Moved
  <2>3. Fits(s)'
    BY <1>2, <2>1, <2>2 DEF IInv, Fits, InBook
  <2>4. \A t \in Slots : t # s => Apart(s, t)'
    BY <1>2, <2>2, HeldApart
  <2> QED BY <1>2, <2>1, <2>2, <2>3, <2>4, MoveKept
<1> QED BY <1>1, <1>2 DEF PostExpense

-----------------------------------------------------------------------------
(* Steps that write the tables.                                            *)

(* A line leaves the rows of a request integers.                           *)
LEMMA LineTyped ==
    ASSUME NEW sums \in [Sides -> Int], NEW line \in Lines, NEW a \in Int
    PROVE  /\ ApplyLine(sums, line, a) \in [Sides -> Int]
           /\ ApplyLine(sums, line, a)["COMMIT"] =
                IF line = "Dr2060" THEN sums["COMMIT"] - a ELSE sums["COMMIT"]
           /\ ApplyLine(sums, line, a)["SPEND_REVERSE"] =
                IF line = "Dr9010" THEN sums["SPEND_REVERSE"] - a
                ELSE IF line = "Cr2060" THEN sums["SPEND_REVERSE"] + a
                ELSE sums["SPEND_REVERSE"]
BY DEF ApplyLine, Sides, Lines

(* So does an entry: an approval takes its amount from COMMIT, a spend     *)
(* leaves SPEND_REVERSE where it was.                                      *)
LEMMA LinesTyped ==
    ASSUME NEW sums \in [Sides -> Int], NEW kind, NEW a \in Int
    PROVE  /\ ApplyLines(sums, kind, a) \in [Sides -> Int]
           /\ ApplyLines(sums, kind, a)["COMMIT"] =
                IF kind = "APPROVE" THEN sums["COMMIT"] - a ELSE sums["COMMIT"]
           /\ ApplyLines(sums, kind, a)["SPEND_REVERSE"] = sums["SPEND_REVERSE"]
<1>1. CASE kind = "APPROVE"
  <2> DEFINE one == ApplyLine(sums, "Dr2060", a)
  <2>1. /\ one \in [Sides -> Int] /\ one["COMMIT"] = sums["COMMIT"] - a
        /\ one["SPEND_REVERSE"] = sums["SPEND_REVERSE"]
    BY LineTyped DEF Lines
  <2> HIDE DEF one
  <2>2. /\ ApplyLine(one, "Cr9010", a) \in [Sides -> Int]
        /\ ApplyLine(one, "Cr9010", a)["COMMIT"] = one["COMMIT"]
        /\ ApplyLine(one, "Cr9010", a)["SPEND_REVERSE"] = one["SPEND_REVERSE"]
    BY <2>1, LineTyped DEF Lines
  <2> QED BY <1>1, <2>1, <2>2 DEF ApplyLines, one
<1>2. CASE kind # "APPROVE"
  <2> DEFINE one == ApplyLine(sums, "Dr9010", a)
  <2>1. /\ one \in [Sides -> Int] /\ one["COMMIT"] = sums["COMMIT"]
        /\ one["SPEND_REVERSE"] = sums["SPEND_REVERSE"] - a
    BY LineTyped DEF Lines
  <2> HIDE DEF one
  <2>2. /\ ApplyLine(one, "Cr2060", a) \in [Sides -> Int]
        /\ ApplyLine(one, "Cr2060", a)["COMMIT"] = one["COMMIT"]
        /\ ApplyLine(one, "Cr2060", a)["SPEND_REVERSE"] = one["SPEND_REVERSE"] + a
    BY <2>1, LineTyped DEF Lines
  <2>3. sums["SPEND_REVERSE"] \in Int
    BY DEF Sides
  <2> QED BY <1>2, <2>1, <2>2, <2>3 DEF ApplyLines, one
<1> QED BY <1>1, <1>2

(* A request that is not there has no decision and no commitment.          *)
LEMMA SubmitKept ==
    ASSUME IInv, NEW r \in Requests, NEW a \in Amounts, Submit(r, a)
    PROVE  IInv'
<1>1. TypeOK'
  BY DEF IInv, TypeOK, Submit, Statuses
<1>2. ASSUME NEW s \in Slots PROVE Fits(s)'
  <2>1. \A q \in Requests : status[q] # "NONE" => status'[q] = status[q]
    BY DEF IInv, TypeOK, Submit
  <2>2. pc[s] \in DecideSteps => job[s].req \in Requests
    BY JobFields DEF IInv
  <2>3. Fits(s) /\ UNCHANGED <<pc, job, posted>>
    BY DEF IInv, Submit
  <2> QED BY <2>1, <2>2, <2>3 DEF Fits, InBook
<1>3. ASSUME NEW s \in Slots, NEW t \in Slots, s # t PROVE Apart(s, t)'
  BY <1>3 DEF IInv, Submit, Apart, Locks, Spending
<1>4. Backed' /\ TwoApprovals' /\ CommittedOnce' /\ SpendWhole'
  BY DEF IInv, TypeOK, Submit, Backed, TwoApprovals, CommittedOnce, SpendWhole, InBook
<1> QED BY <1>1, <1>2, <1>3, <1>4 DEF IInv

(* A commit on one request leaves the transactions of the others as they   *)
(* are, and those on the same one that hold nothing there.                 *)
LEMMA CommitApart ==
    ASSUME IInv, NEW s \in Slots, End(s)
    PROVE  /\ pc'[s] = "idle"
           /\ \A t \in Slots : t # s => pc'[t] = pc[t] /\ job'[t] = job[t]
           /\ \A t, u \in Slots : t # u => Apart(t, u)'
<1>1. pc'[s] = "idle" /\ \A t \in Slots : t # s => pc'[t] = pc[t] /\ job'[t] = job[t]
  BY DEF IInv, TypeOK, End
<1>2. \A t, u \in Slots : t # u => Apart(t, u)'
  BY <1>1 DEF IInv, Apart, Locks, Spending
<1> QED BY <1>1, <1>2

(* The decision is committed under the lock and with its source_ref.       *)
LEMMA CommitDecisionKept ==
    ASSUME IInv, NEW s \in Slots, CommitDecision(s), NEW r, r = job[s].req,
           NEW by, by = job[s].by, NEW ok, ok = job[s].approve
    PROVE  IInv'
<1> DEFINE d == [by |-> by, approve |-> ok]
           new == NewStatus(by, ok)
<1>1. pc[s] = "commit" /\ r \in Requests /\ by \in {"FA", "CFO"} /\ ok \in BOOLEAN
  BY JobFields DEF CommitDecision, IInv
<1>2. d \in Decision
  BY <1>1, Zenon DEF Decision
<1>3. /\ status' = [status EXCEPT ![r] = new]
      /\ decisions' = [decisions EXCEPT ![r] = Append(@, d)]
      /\ End(s) /\ UNCHANGED <<amount, cfo>>
  BY DEF CommitDecision
<1>4. /\ new \in Statuses
      /\ new = "PENDING_CFO" => d = Yes("FA")
      /\ new = "APPROVED" => by = "CFO" /\ ok /\ d = Yes("CFO")
      /\ new # "APPROVED" => ~ (by = "CFO" /\ ok)
      /\ new # "NONE"
  BY <1>1 DEF NewStatus, Statuses, Yes
<1>5. /\ status'[r] = new
      /\ \A q \in Requests : q # r => status'[q] = status[q] /\ decisions'[q] = decisions[q]
  BY <1>1, <1>3 DEF IInv, TypeOK
<1>6. /\ decisions[r] \in Seq(Decision) /\ Len(decisions[r]) \in Nat
      /\ decisions'[r] = Append(decisions[r], d)
  BY <1>1, <1>3 DEF IInv, TypeOK
<1> HIDE DEF d, new
<1>7. /\ Len(decisions'[r]) = Len(decisions[r]) + 1
      /\ decisions'[r][Len(decisions'[r])] = d
      /\ decisions'[r] # <<>>
      /\ Len(decisions[r]) >= 1 =>
            decisions'[r][Len(decisions'[r]) - 1] = decisions[r][Len(decisions[r])]
  BY <1>2, <1>6
<1>8. /\ posted' \in [Requests -> [Kinds -> Nat]] /\ memo' \in [Requests -> [Sides -> Int]]
      /\ \A q \in Requests, k \in Kinds :
           posted'[q][k] = IF q = r /\ k = "APPROVE" /\ new = "APPROVED"
                           THEN posted[q][k] + amount[q] ELSE posted[q][k]
  <2>1. CASE by = "CFO" /\ ok
    <3>1. /\ posted' = [posted EXCEPT ![r] = Post(@, {"APPROVE"}, amount[r])]
          /\ memo' = [memo EXCEPT ![r] = ApplyLines(@, "APPROVE", amount[r])]
          /\ new = "APPROVED"
      BY <2>1 DEF CommitDecision, new, NewStatus
    <3>2. amount[r] \in Nat /\ memo \in [Requests -> [Sides -> Int]]
      BY <1>1 DEF IInv, TypeOK
    <3>3. ApplyLines(memo[r], "APPROVE", amount[r]) \in [Sides -> Int]
      BY <1>1, <3>2, LinesTyped
    <3>4. memo' \in [Requests -> [Sides -> Int]]
      BY <1>1, <3>1, <3>2, <3>3
    <3>5. posted' \in [Requests -> [Kinds -> Nat]]
          /\ \A q \in Requests, k \in Kinds :
               posted'[q][k] = IF q = r /\ k \in {"APPROVE"} THEN posted[q][k] + amount[r]
                                                            ELSE posted[q][k]
      <4> DEFINE kinds == {"APPROVE"}
      <4>1. posted' = [posted EXCEPT ![r] = Post(@, kinds, amount[r])]
        BY <3>1
      <4> HIDE DEF kinds
      <4>2. posted \in [Requests -> [Kinds -> Nat]] /\ posted[r] \in [Kinds -> Nat]
        BY <1>1 DEF IInv, TypeOK
      <4>3. /\ Post(posted[r], kinds, amount[r]) \in [Kinds -> Nat]
            /\ \A k \in Kinds : Post(posted[r], kinds, amount[r])[k] =
                                 IF k \in kinds THEN posted[r][k] + amount[r] ELSE posted[r][k]
        BY <3>2, <4>2 DEF Post
      <4>4. posted' \in [Requests -> [Kinds -> Nat]]
        BY <1>1, <4>1, <4>2, <4>3
      <4>5. /\ posted'[r] = Post(posted[r], kinds, amount[r])
            /\ \A q \in Requests : q # r => posted'[q] = posted[q]
        BY <1>1, <4>1, <4>2
      <4>6. \A q \in Requests, k \in Kinds :
              posted'[q][k] = IF q = r /\ k \in kinds THEN posted[q][k] + amount[r]
                                                     ELSE posted[q][k]
        BY <4>3, <4>5
      <4> QED BY <4>4, <4>6 DEF kinds
    <3> QED BY <3>1, <3>4, <3>5
  <2>2. CASE ~ (by = "CFO" /\ ok)
    BY <1>4, <2>2 DEF CommitDecision, IInv, TypeOK
  <2> QED BY <2>1, <2>2
<1>9. TypeOK'
  <2>1. status' \in [Requests -> Statuses] /\ amount' \in [Requests -> Nat]
    BY <1>1, <1>3, <1>4 DEF IInv, TypeOK
  <2>2. decisions' \in [Requests -> Seq(Decision)]
    BY <1>1, <1>2, <1>3, <1>6 DEF IInv, TypeOK
  <2>3. /\ pc' \in [Slots -> {"idle"} \cup DecideSteps \cup SpendSteps]
        /\ job' \in [Slots -> Job]
    BY <1>3, JobTypes DEF IInv, TypeOK, End
  <2>4. \A t \in Slots : /\ pc'[t] \in DecideSteps => job'[t].op = "decide"
                         /\ pc'[t] \in SpendSteps  => job'[t].op = "spend"
    BY <1>3, CommitApart DEF IInv, TypeOK
  <2>5. byhand' \in [Requests -> [Lines -> Nat]] /\ reversed' \in [Requests -> SUBSET Kinds]
    BY <1>3 DEF IInv, TypeOK
  <2> QED BY <1>8, <2>1, <2>2, <2>3, <2>4, <2>5 DEF TypeOK
<1>10. Locks(s, r)
  BY <1>1 DEF Locks
<1>11. ASSUME NEW t \in Slots PROVE Fits(t)'
  <2>1. CASE t = s
    BY <1>3, <2>1, CommitApart DEF Fits
  <2>2. CASE t # s
    <3>1. pc'[t] = pc[t] /\ job'[t] = job[t] /\ ~ Locks(t, r) /\ Fits(t)
      BY <1>1, <1>3, <1>10, <2>2, CommitApart DEF IInv, Apart
    <3>2. /\ pc[t] \in DecideSteps => job[t].req \in Requests
          /\ pc[t] \in SpendSteps => job[t].req \in Requests
      BY JobFields DEF IInv
    <3>3. pc[t] \in DecideSteps => status'[job[t].req] # "NONE"
      BY <1>4, <1>5, <3>1, <3>2 DEF Fits
    <3>4. pc[t] \in {"notify", "memo", "commit"} => job[t].req # r
      BY <3>1 DEF Locks
    <3>5. "SPEND-REV" \in Kinds /\ "APPROVE" \in Kinds
      BY DEF Kinds
    <3> QED BY <1>5, <1>8, <3>1, <3>2, <3>3, <3>4, <3>5 DEF Fits, InBook
  <2> QED BY <2>1, <2>2
<1>12. \A t, u \in Slots : t # u => Apart(t, u)'
  BY <1>3, CommitApart
<1>13. /\ by = "CFO" => status[r] = "PENDING_CFO" /\ LastIs(decisions[r], Yes("FA"))
       /\ new = "APPROVED" => posted[r]["APPROVE"] = 0
  BY <1>1, <1>4 DEF IInv, Fits, Backed, InBook
<1>14. Backed'
  <2>1. /\ status'[r] = "PENDING_CFO" => LastIs(decisions'[r], Yes("FA"))
        /\ status'[r] # "NONE" /\ status[r] # "NONE"
    BY <1>1, <1>4, <1>5, <1>7 DEF IInv, Fits, LastIs
  <2>2. \A q \in Requests : q # r => posted'[q]["APPROVE"] = posted[q]["APPROVE"]
    BY <1>8 DEF Kinds
  <2> QED BY <1>1, <1>3, <1>5, <2>1, <2>2 DEF IInv, Backed, LastIs, InBook
<1>15. TwoApprovals'
  <2>1. CASE new = "APPROVED"
    <3>1. Len(decisions[r]) >= 1 /\ decisions[r][Len(decisions[r])] = Yes("FA")
      BY <1>4, <1>6, <1>13, <2>1 DEF LastIs
    <3>2. Len(decisions'[r]) >= 2
      BY <1>6, <1>7, <3>1
    <3>3. /\ decisions'[r][Len(decisions'[r])] = Yes("CFO")
          /\ decisions'[r][Len(decisions'[r]) - 1] = Yes("FA")
      BY <1>4, <1>7, <2>1, <3>1
    <3>4. ASSUME NEW q \in Requests, q # r, status'[q] = "APPROVED"
          PROVE  LET e == decisions'[q]
                 IN  Len(e) >= 2 /\ e[Len(e)] = Yes("CFO") /\ e[Len(e) - 1] = Yes("FA")
      BY <1>5, <3>4 DEF IInv, TwoApprovals
    <3> QED BY <3>2, <3>3, <3>4 DEF TwoApprovals
  <2>2. CASE new # "APPROVED"
    BY <1>5, <2>2 DEF IInv, TwoApprovals
  <2> QED BY <2>1, <2>2
<1>16. CommittedOnce'
  <2>1. ASSUME NEW q \in Requests
        PROVE  /\ posted'[q]["APPROVE"] \in {0, amount'[q]}
               /\ status'[q] = "APPROVED" => InBook(q, "APPROVE")'
    <3>1. amount'[q] = amount[q] /\ amount[q] \in Nat /\ "APPROVE" \in Kinds
      BY <1>3 DEF IInv, TypeOK, Kinds
    <3>2. posted[q]["APPROVE"] \in {0, amount[q]} /\ (status[q] = "APPROVED" => InBook(q, "APPROVE"))
      BY DEF IInv, CommittedOnce
    <3>3. amount[r] # 0
      BY <1>1 DEF IInv, Backed, Fits
    <3>4. CASE q = r /\ new = "APPROVED"
      <4>1. posted'[q]["APPROVE"] = amount[q]
        BY <1>8, <1>13, <3>1, <3>4
      <4> QED BY <3>1, <3>3, <3>4, <4>1 DEF InBook
    <3>5. CASE ~ (q = r /\ new = "APPROVED")
      <4>1. posted'[q]["APPROVE"] = posted[q]["APPROVE"]
        BY <1>8, <3>1, <3>5
      <4> QED BY <1>5, <3>1, <3>2, <3>5, <4>1 DEF InBook
    <3> QED BY <3>4, <3>5
  <2> QED BY <2>1 DEF CommittedOnce
<1>17. SpendWhole'
  BY <1>8 DEF IInv, SpendWhole, Kinds
<1> QED BY <1>9, <1>11, <1>12, <1>14, <1>15, <1>16, <1>17 DEF IInv

(* The spend is committed with its source_ref.                             *)
LEMMA CommitSpendKept ==
    ASSUME IInv, NEW s \in Slots, CommitSpend(s), NEW r, r = job[s].req,
           NEW a, a = job[s].amount
    PROVE  IInv'
<1>1. r \in Requests /\ a \in Nat /\ a # 0 /\ pc[s] = "spent" /\ End(s)
  BY JobFields DEF CommitSpend, IInv
<1>2. /\ posted' = [posted EXCEPT ![r] = Post(@, {"SPEND-REV", "SPEND-EXP"}, a)]
      /\ memo' = [memo EXCEPT ![r] = ApplyLines(@, "SPEND-REV", a)]
      /\ UNCHANGED <<status, amount, decisions, cfo>>
  BY DEF CommitSpend
<1>3. /\ "SPEND-REV" \in Kinds /\ "SPEND-EXP" \in Kinds /\ "APPROVE" \in Kinds
      /\ posted \in [Requests -> [Kinds -> Nat]] /\ memo \in [Requests -> [Sides -> Int]]
  BY DEF IInv, TypeOK, Kinds
<1>4. ApplyLines(memo[r], "SPEND-REV", a) \in [Sides -> Int]
  BY <1>1, <1>3, LinesTyped
<1>5. /\ posted' \in [Requests -> [Kinds -> Nat]] /\ memo' \in [Requests -> [Sides -> Int]]
      /\ \A q \in Requests, k \in Kinds :
           posted'[q][k] = IF q = r /\ k \in {"SPEND-REV", "SPEND-EXP"}
                           THEN posted[q][k] + a ELSE posted[q][k]
  <2>1. memo' \in [Requests -> [Sides -> Int]]
    BY <1>1, <1>2, <1>3, <1>4
  <2> DEFINE kinds == {"SPEND-REV", "SPEND-EXP"}
  <2>2. posted' = [posted EXCEPT ![r] = Post(@, kinds, a)]
    BY <1>2
  <2> HIDE DEF kinds
  <2>3. posted[r] \in [Kinds -> Nat]
    BY <1>1, <1>3
  <2>4. /\ Post(posted[r], kinds, a) \in [Kinds -> Nat]
        /\ \A k \in Kinds : Post(posted[r], kinds, a)[k] =
                             IF k \in kinds THEN posted[r][k] + a ELSE posted[r][k]
    BY <1>1, <2>3 DEF Post
  <2>5. posted' \in [Requests -> [Kinds -> Nat]]
    BY <1>1, <1>3, <2>2, <2>4
  <2>6. /\ posted'[r] = Post(posted[r], kinds, a)
        /\ \A q \in Requests : q # r => posted'[q] = posted[q]
    BY <1>1, <1>3, <2>2
  <2>7. \A q \in Requests, k \in Kinds :
          posted'[q][k] = IF q = r /\ k \in kinds THEN posted[q][k] + a ELSE posted[q][k]
    BY <2>4, <2>6
  <2> QED BY <2>1, <2>5, <2>7 DEF kinds
<1>6. TypeOK'
  BY <1>1, <1>2, <1>5, JobTypes DEF IInv, TypeOK, End
<1>7. ASSUME NEW t \in Slots PROVE Fits(t)'
  <2>1. CASE t = s
    BY <1>1, <2>1, CommitApart DEF Fits
  <2>2. CASE t # s
    <3>1. pc'[t] = pc[t] /\ job'[t] = job[t] /\ ~ Spending(t, r) /\ Fits(t)
      BY <1>1, <2>2, CommitApart DEF IInv, Apart, Spending
    <3>2. /\ pc[t] \in DecideSteps => job[t].req \in Requests
          /\ pc[t] \in SpendSteps => job[t].req \in Requests
      BY JobFields DEF IInv
    <3>3. pc[t] \in {"expense", "spent"} => job[t].req # r
      BY <3>1 DEF Spending
    <3>4. \A q \in Requests : /\ status'[q] = status[q]
                              /\ posted'[q]["APPROVE"] = posted[q]["APPROVE"]
                              /\ q # r => posted'[q]["SPEND-REV"] = posted[q]["SPEND-REV"]
      BY <1>2, <1>3, <1>5
    <3> QED BY <3>1, <3>2, <3>3, <3>4 DEF Fits, InBook
  <2> QED BY <2>1, <2>2
<1>8. \A t, u \in Slots : t # u => Apart(t, u)'
  BY <1>1, CommitApart
<1>9. \A q \in Requests : posted'[q]["APPROVE"] = posted[q]["APPROVE"]
  BY <1>3, <1>5
<1>10. Backed' /\ TwoApprovals' /\ CommittedOnce'
  BY <1>2, <1>9 DEF IInv, Backed, TwoApprovals, CommittedOnce, InBook, LastIs
<1>11. SpendWhole'
  BY <1>3, <1>5 DEF IInv, SpendWhole
<1> QED BY <1>6, <1>7, <1>8, <1>10, <1>11 DEF IInv

(* The CFO's journals touch nothing that the workflow reads.               *)
LEMMA HandsOff ==
    ASSUME IInv, TypeOK', UNCHANGED <<status, amount, decisions, posted, pc, job>>
    PROVE  IInv'
<1>1. \A s \in Slots : Fits(s)'
  BY DEF IInv, Fits, InBook
<1>2. \A s, t \in Slots : s # t => Apart(s, t)'
  BY DEF IInv, Apart, Locks, Spending
<1>3. Backed' /\ TwoApprovals' /\ CommittedOnce' /\ SpendWhole'
  BY DEF IInv, Backed, TwoApprovals, CommittedOnce, SpendWhole, InBook, LastIs
<1> QED BY <1>1, <1>2, <1>3 DEF IInv

(* What a line by hand leaves.                                             *)
LEMMA ManualWrites ==
    ASSUME TypeOK, NEW r \in Requests, NEW line \in Lines, NEW a \in Amounts,
           PostManual(r, line, a)
    PROVE  /\ byhand' \in [Requests -> [Lines -> Nat]] /\ memo' \in [Requests -> [Sides -> Int]]
           /\ \A l \in Lines : byhand'[r][l] = IF l = line THEN byhand[r][l] + a ELSE byhand[r][l]
           /\ memo'[r] = ApplyLine(memo[r], line, a)
           /\ \A q \in Requests : q # r => byhand'[q] = byhand[q] /\ memo'[q] = memo[q]
<1>1. /\ byhand \in [Requests -> [Lines -> Nat]] /\ memo \in [Requests -> [Sides -> Int]]
      /\ a \in Nat /\ a \in Int
  BY DEF TypeOK
<1>2. ApplyLine(memo[r], line, a) \in [Sides -> Int]
  BY <1>1, LineTyped
<1>3. /\ byhand' = [byhand EXCEPT ![r][line] = @ + a]
      /\ memo' = [memo EXCEPT ![r] = ApplyLine(@, line, a)]
  BY DEF PostManual
<1> QED BY <1>1, <1>2, <1>3

(* What a reversal leaves: the amount on the two swapped lines.            *)
LEMMA ReversalWrites ==
    ASSUME TypeOK, NEW r \in Requests, NEW kind \in {"APPROVE", "SPEND-REV"},
           ReverseEntry(r, kind)
    PROVE  /\ byhand' \in [Requests -> [Lines -> Nat]] /\ memo' \in [Requests -> [Sides -> Int]]
           /\ \A l \in Lines : byhand'[r][l] =
                IF l \in Swapped(kind) THEN byhand[r][l] + posted[r][kind] ELSE byhand[r][l]
           /\ memo'[r] = ApplyLines(memo[r], IF kind = "APPROVE" THEN "SPEND-REV" ELSE "APPROVE", posted[r][kind])
           /\ \A q \in Requests : q # r => byhand'[q] = byhand[q] /\ memo'[q] = memo[q]
           /\ reversed' \in [Requests -> SUBSET Kinds]
<1>1. /\ byhand \in [Requests -> [Lines -> Nat]] /\ memo \in [Requests -> [Sides -> Int]]
      /\ reversed \in [Requests -> SUBSET Kinds] /\ kind \in Kinds /\ posted[r][kind] \in Nat /\ posted[r][kind] \in Int
  BY DEF TypeOK, Kinds
<1> DEFINE opposite == IF kind = "APPROVE" THEN "SPEND-REV" ELSE "APPROVE"
           lines == [l \in Lines |-> IF l \in Swapped(kind) THEN byhand[r][l] + posted[r][kind] ELSE byhand[r][l]]
<1>2. ApplyLines(memo[r], opposite, posted[r][kind]) \in [Sides -> Int]
  BY <1>1, LinesTyped
<1>3. /\ byhand' = [byhand EXCEPT ![r] = lines]
      /\ memo' = [memo EXCEPT ![r] = ApplyLines(@, opposite, posted[r][kind])]
      /\ reversed' = [reversed EXCEPT ![r] = @ \cup {kind}]
  BY DEF ReverseEntry
<1>4. lines \in [Lines -> Nat] /\ \A l \in Lines : lines[l] =
        IF l \in Swapped(kind) THEN byhand[r][l] + posted[r][kind] ELSE byhand[r][l]
  BY <1>1
<1> HIDE DEF lines
<1>5. byhand' \in [Requests -> [Lines -> Nat]] /\ byhand'[r] = lines
  BY <1>1, <1>3, <1>4
<1>6. memo' \in [Requests -> [Sides -> Int]] /\ memo'[r] = ApplyLines(memo[r], opposite, posted[r][kind])
  BY <1>1, <1>2, <1>3
<1>7. \A q \in Requests : q # r => byhand'[q] = byhand[q] /\ memo'[q] = memo[q]
  BY <1>1, <1>3
<1>8. reversed' \in [Requests -> SUBSET Kinds]
  BY <1>1, <1>3
<1> QED BY <1>1, <1>4, <1>5, <1>6, <1>7, <1>8

(* Both keep the invariant.                                                *)
LEMMA ByHandKept ==
    ASSUME IInv, NEW r \in Requests, ByHand(r)
    PROVE  IInv'
<1>1. ASSUME NEW line \in Lines, NEW a \in Amounts, PostManual(r, line, a) PROVE IInv'
  <2>1. UNCHANGED <<status, amount, decisions, posted, reversed, pc, job>>
    BY <1>1 DEF PostManual
  <2>2. TypeOK'
    BY <1>1, <2>1, ManualWrites DEF IInv, TypeOK
  <2> QED BY <2>1, <2>2, HandsOff
<1>2. ASSUME NEW kind \in {"APPROVE", "SPEND-REV"}, ReverseEntry(r, kind) PROVE IInv'
  <2>1. UNCHANGED <<status, amount, decisions, posted, pc, job>>
    BY <1>2 DEF ReverseEntry
  <2>2. TypeOK'
    BY <1>2, <2>1, ReversalWrites DEF IInv, TypeOK
  <2> QED BY <2>1, <2>2, HandsOff
<1> QED BY <1>1, <1>2 DEF ByHand

-----------------------------------------------------------------------------
(* Every step keeps the invariant.                                         *)
LEMMA InductiveStep == IInv /\ [Next]_vars => IInv'
<1> SUFFICES ASSUME IInv, [Next]_vars PROVE IInv'
  OBVIOUS
<1>1. CASE UNCHANGED vars
  <2>1. TypeOK'
    BY <1>1 DEF IInv, TypeOK
  <2>2. \A s \in Slots : Fits(s)'
    BY <1>1 DEF IInv, Fits, InBook
  <2>3. \A s, t \in Slots : s # t => Apart(s, t)'
    BY <1>1 DEF IInv, Apart, Locks, Spending
  <2> QED BY <1>1, <2>1, <2>2, <2>3, TablesKept DEF IInv
<1>2. ASSUME NEW r \in Requests, NEW a \in Amounts, Submit(r, a) PROVE IInv'
  BY <1>2, SubmitKept
<1>3. ASSUME NEW s \in Slots, NEW r \in Requests, Call(s, r) PROVE IInv'
  BY <1>3, CallKept
<1>4. ASSUME NEW s \in Slots, Update(s) PROVE IInv'
  BY <1>4, UpdateKept
<1>5. ASSUME NEW s \in Slots, Others(s) PROVE IInv'
  BY <1>5, NotifyKept, PostMemoKept, CommitDecisionKept, ReverseMemoKept,
     PostExpenseKept, CommitSpendKept DEF Others
<1>6. ASSUME NEW s \in Slots, Crash(s) PROVE IInv'
  BY <1>6, EndKept DEF Crash
<1>7. ASSUME NEW r \in Requests, ByHand(r) PROVE IInv'
  BY <1>7, ByHandKept
<1> QED BY <1>1, <1>2, <1>3, <1>4, <1>5, <1>6, <1>7 DEF Next

(* The invariant holds in every reachable state.                           *)
THEOREM Inductive == Spec => []IInv
BY InductiveInit, InductiveStep, PTL DEF Spec

(* Every reachable state is well typed.                                    *)
THEOREM Typed == Spec => []TypeOK
<1>1. IInv => TypeOK
  BY DEF IInv
<1> QED BY <1>1, Inductive, PTL

(* APPROVED means the FA's approval and then the CFO's, whatever the       *)
(* number of connections that decide on the request.                       *)
THEOREM ApprovedTwice == Spec => []TwoApprovals
<1>1. IInv => TwoApprovals
  BY DEF IInv
<1> QED BY <1>1, Inductive, PTL

(* The books never have more or less of a commitment than was asked, and   *)
(* have that of every APPROVED request.                                    *)
THEOREM Committed == Spec => []CommittedOnce
<1>1. IInv => CommittedOnce
  BY DEF IInv
<1> QED BY <1>1, Inductive, PTL

(* A spend leaves both its journals or none.                               *)
THEOREM BothOrNone == Spec => []SpendWhole
<1>1. IInv => SpendWhole
  BY DEF IInv
<1> QED BY <1>1, Inductive, PTL

(* No step posts on a request what was posted on it before.                *)
THEOREM NeverTwice == Spec => PostedOnce
<1>1. ASSUME IInv, [Next]_vars
      PROVE  [\A r \in Requests, k \in Kinds : InBook(r, k) => posted'[r][k] = posted[r][k]]_vars
  <2>1. CASE UNCHANGED posted
    BY <2>1
  <2>2. ASSUME NEW s \in Slots, CommitDecision(s) PROVE
          \A r \in Requests, k \in Kinds : InBook(r, k) => posted'[r][k] = posted[r][k]
    <3>1. pc[s] = "commit" /\ job[s].req \in Requests
      BY <1>1, <2>2, JobFields DEF IInv, CommitDecision
    <3>2. posted \in [Requests -> [Kinds -> Nat]]
      BY <1>1 DEF IInv, TypeOK
    <3>3. CASE job[s].by = "CFO" /\ job[s].approve
      <4>1. posted' = [posted EXCEPT ![job[s].req] = Post(@, {"APPROVE"}, amount[job[s].req])]
        BY <2>2, <3>3 DEF CommitDecision
      <4>2. posted[job[s].req]["APPROVE"] = 0
        BY <1>1, <3>1, <3>3 DEF IInv, Fits, InBook
      <4> QED BY <3>1, <3>2, <4>1, <4>2 DEF InBook, Post
    <3>4. CASE ~ (job[s].by = "CFO" /\ job[s].approve)
      BY <2>2, <3>4 DEF CommitDecision
    <3> QED BY <3>3, <3>4
  <2>3. ASSUME NEW s \in Slots, CommitSpend(s) PROVE
          \A r \in Requests, k \in Kinds : InBook(r, k) => posted'[r][k] = posted[r][k]
    <3>1. pc[s] = "spent" /\ job[s].req \in Requests
      BY <1>1, <2>3, JobFields DEF IInv, CommitSpend
    <3>2. posted \in [Requests -> [Kinds -> Nat]]
      BY <1>1 DEF IInv, TypeOK
    <3>3. posted[job[s].req]["SPEND-REV"] = 0 /\ posted[job[s].req]["SPEND-EXP"] = 0
      BY <1>1, <3>1 DEF IInv, Fits, InBook, SpendWhole
    <3> QED BY <2>3, <3>1, <3>2, <3>3 DEF CommitSpend, InBook, Post
  <2> QED BY <1>1, <2>1, <2>2, <2>3
     DEF Next, Submit, Call, StartDecision, StartSpend, Update, UpdateWhere, Others, Notify,
         PostMemo, ReverseMemo, ReverseMemoWhen, PostExpense, Crash, ByHand, PostManual,
         ReverseEntry
<1> QED BY <1>1, Inductive, PTL DEF Spec, PostedOnce

-----------------------------------------------------------------------------
(* The memo sub-ledger and account 2060.                                   *)

(* The memo rows of a request are those of the debits of 2060 on it, and   *)
(* of the CFO's lines: a spend leaves no trace in SPEND_REVERSE.           *)
MemoFollows ==
    \A r \in Requests :
        /\ memo[r]["COMMIT"] + posted[r]["APPROVE"] + byhand[r]["Dr2060"] = 0
        /\ memo[r]["SPEND_REVERSE"] = byhand[r]["Cr2060"] - byhand[r]["Dr9010"]

(* A decision writes entry and rows, or neither.                           *)
LEMMA CommitDecisionFollows ==
    ASSUME IInv, MemoFollows, NEW s \in Slots, CommitDecision(s)
    PROVE  MemoFollows'
<1> DEFINE r == job[s].req
           sums == ApplyLines(memo[r], "APPROVE", amount[r])
           books == Post(posted[r], {"APPROVE"}, amount[r])
<1>1. r \in Requests /\ byhand' = byhand
  BY JobFields DEF CommitDecision, IInv
<1>2. /\ posted \in [Requests -> [Kinds -> Nat]] /\ memo \in [Requests -> [Sides -> Int]]
      /\ byhand \in [Requests -> [Lines -> Nat]] /\ amount[r] \in Nat
  BY <1>1 DEF IInv, TypeOK
<1>3. /\ memo[r] \in [Sides -> Int] /\ posted[r] \in [Kinds -> Nat] /\ byhand[r] \in [Lines -> Nat]
  BY <1>1, <1>2
<1>4. /\ sums["COMMIT"] = memo[r]["COMMIT"] - amount[r]
      /\ sums["SPEND_REVERSE"] = memo[r]["SPEND_REVERSE"]
      /\ books["APPROVE"] = posted[r]["APPROVE"] + amount[r]
  <2>1. books["APPROVE"] = posted[r]["APPROVE"] + amount[r]
    BY <1>3 DEF Post, Kinds
  <2>2. amount[r] \in Int
    BY <1>2
  <2>3. /\ sums["COMMIT"] = memo[r]["COMMIT"] - amount[r]
        /\ sums["SPEND_REVERSE"] = memo[r]["SPEND_REVERSE"]
    BY <1>3, <2>2, LinesTyped
  <2> QED BY <2>1, <2>3
<1>5. CASE UNCHANGED <<posted, memo>>
  BY <1>1, <1>5 DEF MemoFollows
<1>6. CASE /\ posted' = [posted EXCEPT ![r] = books]
           /\ memo' = [memo EXCEPT ![r] = sums]
  <2>1. posted'[r] = books /\ memo'[r] = sums
    BY <1>1, <1>2, <1>6
  <2>2. \A q \in Requests : q # r => posted'[q] = posted[q] /\ memo'[q] = memo[q]
    BY <1>1, <1>2, <1>6
  <2>3. /\ memo[r]["COMMIT"] \in Int /\ posted[r]["APPROVE"] \in Int
        /\ byhand[r]["Dr2060"] \in Int
    BY <1>3 DEF Sides, Kinds, Lines
  <2>4. /\ memo[r]["COMMIT"] + posted[r]["APPROVE"] + byhand[r]["Dr2060"] = 0
        /\ memo[r]["SPEND_REVERSE"] = byhand[r]["Cr2060"] - byhand[r]["Dr9010"]
    BY <1>1 DEF MemoFollows
  <2>5. /\ sums["COMMIT"] + books["APPROVE"] + byhand[r]["Dr2060"] = 0
        /\ sums["SPEND_REVERSE"] = byhand[r]["Cr2060"] - byhand[r]["Dr9010"]
    BY <1>2, <1>4, <2>3, <2>4
  <2> HIDE DEF r, sums, books
  <2> QED BY <1>1, <2>1, <2>2, <2>5 DEF MemoFollows
<1> QED BY <1>5, <1>6 DEF CommitDecision

(* A spend adds to SPEND_REVERSE what it takes from it.                    *)
LEMMA CommitSpendFollows ==
    ASSUME IInv, MemoFollows, NEW s \in Slots, CommitSpend(s)
    PROVE  MemoFollows'
<1> DEFINE r == job[s].req
           a == job[s].amount
           sums == ApplyLines(memo[r], "SPEND-REV", a)
           books == Post(posted[r], {"SPEND-REV", "SPEND-EXP"}, a)
<1>1. r \in Requests /\ a \in Nat /\ byhand' = byhand
  BY JobFields DEF CommitSpend, IInv
<1>2. posted \in [Requests -> [Kinds -> Nat]] /\ memo \in [Requests -> [Sides -> Int]]
  BY DEF IInv, TypeOK
<1>3. memo[r] \in [Sides -> Int] /\ posted[r] \in [Kinds -> Nat]
  BY <1>1, <1>2
<1>4. /\ sums["COMMIT"] = memo[r]["COMMIT"]
      /\ sums["SPEND_REVERSE"] = memo[r]["SPEND_REVERSE"]
      /\ books["APPROVE"] = posted[r]["APPROVE"]
  <2>1. books["APPROVE"] = posted[r]["APPROVE"]
    BY <1>1, <1>3 DEF Post, Kinds
  <2> QED BY <1>1, <1>3, <2>1, LinesTyped
<1>5. posted' = [posted EXCEPT ![r] = books] /\ memo' = [memo EXCEPT ![r] = sums]
  BY DEF CommitSpend
<1> HIDE DEF r, sums, books
<1>6. posted'[r] = books /\ memo'[r] = sums
  BY <1>1, <1>2, <1>5
<1>7. \A q \in Requests : q # r => posted'[q] = posted[q] /\ memo'[q] = memo[q]
  BY <1>1, <1>2, <1>5
<1> QED BY <1>1, <1>4, <1>6, <1>7 DEF MemoFollows

(* A line by hand writes its row.                                          *)
LEMMA ManualFollows ==
    ASSUME IInv, MemoFollows, NEW r \in Requests, NEW line \in Lines, NEW a \in Amounts,
           PostManual(r, line, a)
    PROVE  MemoFollows'
<1>1. /\ memo[r] \in [Sides -> Int] /\ byhand[r] \in [Lines -> Nat] /\ posted[r] \in [Kinds -> Nat]
      /\ a \in Int /\ TypeOK /\ posted' = posted
  BY DEF IInv, TypeOK, PostManual
<1>2. /\ memo[r]["COMMIT"] \in Int /\ memo[r]["SPEND_REVERSE"] \in Int
      /\ \A l \in Lines : byhand[r][l] \in Int
      /\ posted[r]["APPROVE"] \in Int
  BY <1>1 DEF Sides, Kinds
<1>3. \A l \in Lines : byhand'[r][l] = IF l = line THEN byhand[r][l] + a ELSE byhand[r][l]
  BY <1>1, ManualWrites
<1>4. memo'[r] = ApplyLine(memo[r], line, a)
  BY <1>1, ManualWrites
<1>5. \A q \in Requests : q # r => byhand'[q] = byhand[q] /\ memo'[q] = memo[q]
  BY <1>1, ManualWrites
<1>6. /\ memo'[r]["COMMIT"] = IF line = "Dr2060" THEN memo[r]["COMMIT"] - a ELSE memo[r]["COMMIT"]
      /\ memo'[r]["SPEND_REVERSE"] =
           IF line = "Dr9010" THEN memo[r]["SPEND_REVERSE"] - a
           ELSE IF line = "Cr2060" THEN memo[r]["SPEND_REVERSE"] + a
           ELSE memo[r]["SPEND_REVERSE"]
  <2> DEFINE sums == memo[r]
  <2>1. sums \in [Sides -> Int] /\ a \in Int
    BY <1>1
  <2> HIDE DEF sums
  <2>2. /\ ApplyLine(sums, line, a)["COMMIT"] =
             IF line = "Dr2060" THEN sums["COMMIT"] - a ELSE sums["COMMIT"]
        /\ ApplyLine(sums, line, a)["SPEND_REVERSE"] =
             IF line = "Dr9010" THEN sums["SPEND_REVERSE"] - a
             ELSE IF line = "Cr2060" THEN sums["SPEND_REVERSE"] + a
             ELSE sums["SPEND_REVERSE"]
    BY <2>1, LineTyped
  <2>3. memo'[r] = ApplyLine(sums, line, a)
    BY <1>4 DEF sums
  <2> QED BY <2>2, <2>3 DEF sums
<1>7. /\ memo[r]["COMMIT"] + posted[r]["APPROVE"] + byhand[r]["Dr2060"] = 0
      /\ memo[r]["SPEND_REVERSE"] = byhand[r]["Cr2060"] - byhand[r]["Dr9010"]
  BY DEF MemoFollows
<1>8. "Dr2060" \in Lines /\ "Cr2060" \in Lines /\ "Dr9010" \in Lines
  BY DEF Lines
<1>9. /\ memo'[r]["COMMIT"] + posted'[r]["APPROVE"] + byhand'[r]["Dr2060"] = 0
      /\ memo'[r]["SPEND_REVERSE"] = byhand'[r]["Cr2060"] - byhand'[r]["Dr9010"]
  <2> DEFINE b == byhand[r]["Cr2060"]
             c == byhand[r]["Dr9010"]
             d == byhand[r]["Dr2060"]
  <2>1. /\ byhand'[r]["Cr2060"] = IF line = "Cr2060" THEN b + a ELSE b
        /\ byhand'[r]["Dr9010"] = IF line = "Dr9010" THEN c + a ELSE c
        /\ byhand'[r]["Dr2060"] = IF line = "Dr2060" THEN d + a ELSE d
        /\ b \in Int /\ c \in Int /\ d \in Int
    BY <1>2, <1>3, <1>8
  <2> QED BY <1>1, <1>2, <1>6, <1>7, <2>1
<1> QED BY <1>1, <1>5, <1>9 DEF MemoFollows

(* A reversal writes the rows of the entry it mirrors.                     *)
LEMMA ReversalFollows ==
    ASSUME IInv, MemoFollows, NEW r \in Requests, NEW kind \in {"APPROVE", "SPEND-REV"},
           ReverseEntry(r, kind)
    PROVE  MemoFollows'
<1> DEFINE a == posted[r][kind]
           opposite == IF kind = "APPROVE" THEN "SPEND-REV" ELSE "APPROVE"
<1>1. /\ memo[r] \in [Sides -> Int] /\ byhand[r] \in [Lines -> Nat] /\ posted[r] \in [Kinds -> Nat]
      /\ TypeOK /\ posted' = posted
  BY DEF IInv, TypeOK, ReverseEntry
<1>2. /\ memo[r]["COMMIT"] \in Int /\ memo[r]["SPEND_REVERSE"] \in Int
      /\ \A l \in Lines : byhand[r][l] \in Int
      /\ posted[r]["APPROVE"] \in Int /\ a \in Int
  BY <1>1 DEF Sides, Kinds
<1>0. /\ a = posted[r][kind]
      /\ opposite = IF kind = "APPROVE" THEN "SPEND-REV" ELSE "APPROVE"
  OBVIOUS
<1>3. \A l \in Lines : byhand'[r][l] = IF l \in Swapped(kind) THEN byhand[r][l] + a ELSE byhand[r][l]
  BY <1>0, <1>1, ReversalWrites
<1>4. memo'[r] = ApplyLines(memo[r], opposite, a)
  BY <1>0, <1>1, ReversalWrites
<1>5. \A q \in Requests : q # r => byhand'[q] = byhand[q] /\ memo'[q] = memo[q]
  BY <1>0, <1>1, ReversalWrites
<1>6. /\ memo'[r]["COMMIT"] = IF opposite = "APPROVE" THEN memo[r]["COMMIT"] - a ELSE memo[r]["COMMIT"]
      /\ memo'[r]["SPEND_REVERSE"] = memo[r]["SPEND_REVERSE"]
  BY <1>1, <1>2, <1>4, LinesTyped
<1>7. /\ memo[r]["COMMIT"] + posted[r]["APPROVE"] + byhand[r]["Dr2060"] = 0
      /\ memo[r]["SPEND_REVERSE"] = byhand[r]["Cr2060"] - byhand[r]["Dr9010"]
  BY DEF MemoFollows
<1>8. "Dr2060" \in Lines /\ "Cr2060" \in Lines /\ "Dr9010" \in Lines
  BY DEF Lines
<1>9. /\ memo'[r]["COMMIT"] + posted'[r]["APPROVE"] + byhand'[r]["Dr2060"] = 0
      /\ memo'[r]["SPEND_REVERSE"] = byhand'[r]["Cr2060"] - byhand'[r]["Dr9010"]
  <2>1. CASE kind = "APPROVE"
    <3>1. /\ byhand'[r]["Cr2060"] = byhand[r]["Cr2060"] + a
          /\ byhand'[r]["Dr9010"] = byhand[r]["Dr9010"] + a
          /\ byhand'[r]["Dr2060"] = byhand[r]["Dr2060"]
          /\ memo'[r]["COMMIT"] = memo[r]["COMMIT"]
      BY <1>0, <1>3, <1>6, <1>8, <2>1 DEF Swapped
    <3> HIDE DEF a, opposite
    <3> QED BY <1>1, <1>2, <1>6, <1>7, <1>8, <3>1
  <2>2. CASE kind = "SPEND-REV"
    <3>1. /\ byhand'[r]["Cr2060"] = byhand[r]["Cr2060"]
          /\ byhand'[r]["Dr9010"] = byhand[r]["Dr9010"]
          /\ byhand'[r]["Dr2060"] = byhand[r]["Dr2060"] + a
          /\ memo'[r]["COMMIT"] = memo[r]["COMMIT"] - a
      BY <1>0, <1>3, <1>6, <1>8, <2>2 DEF Swapped
    <3> HIDE DEF a, opposite
    <3> QED BY <1>1, <1>2, <1>6, <1>7, <1>8, <3>1
  <2> QED BY <2>1, <2>2
<1> QED BY <1>1, <1>5, <1>9 DEF MemoFollows

(* Nothing else writes any of them.                                        *)
LEMMA Following == Spec => []MemoFollows
<1>1. Init => MemoFollows
  BY DEF Init, MemoFollows, Kinds, Sides, Lines
<1>2. ASSUME IInv, MemoFollows, [Next]_vars PROVE MemoFollows'
  <2>1. CASE UNCHANGED <<posted, memo, byhand>>
    BY <1>2, <2>1 DEF MemoFollows
  <2>2. ASSUME NEW s \in Slots, CommitDecision(s) PROVE MemoFollows'
    BY <1>2, <2>2, CommitDecisionFollows
  <2>3. ASSUME NEW s \in Slots, CommitSpend(s) PROVE MemoFollows'
    BY <1>2, <2>3, CommitSpendFollows
  <2>4. ASSUME NEW r \in Requests, ByHand(r) PROVE MemoFollows'
    BY <1>2, <2>4, ManualFollows, ReversalFollows DEF ByHand
  <2> QED BY <1>2, <2>1, <2>2, <2>3, <2>4
     DEF Next, Submit, Call, StartDecision, StartSpend, Update, UpdateWhere, Others, Notify,
         PostMemo, ReverseMemo, ReverseMemoWhen, PostExpense, Crash
<1> QED BY <1>1, <1>2, Inductive, PTL DEF Spec

-----------------------------------------------------------------------------
(* The three sums of MemoDrift, as sums of functions.                      *)

(* The balance of 2060.                                                    *)
LEMMA ControlSum ==
    ASSUME NEW f, \A r \in Requests : f[r] = (posted[r]["SPEND-REV"] + byhand[r]["Cr2060"])
      - (posted[r]["APPROVE"] + byhand[r]["Dr2060"])
    PROVE  ControlBalance = SumFunctionOnSet(f, Requests)
<1> DEFINE Eq(g) == g = [T \in SUBSET Requests |->
                           IF T = {} THEN 0
                           ELSE ((posted[Pick(T)]["SPEND-REV"] + byhand[Pick(T)]["Cr2060"])
      - (posted[Pick(T)]["APPROVE"] + byhand[Pick(T)]["Dr2060"])) + g[T \ {Pick(T)}]]
           h == CHOOSE g : Eq(g)
<1>1. ControlBalance = h[Requests]
  BY DEF MapThenSumSet, MapThenFoldSet, Pick, ControlBalance
<1>2. \A T \in SUBSET Requests : T # {} => f[Pick(T)] = (posted[Pick(T)]["SPEND-REV"] + byhand[Pick(T)]["Cr2060"])
      - (posted[Pick(T)]["APPROVE"] + byhand[Pick(T)]["Dr2060"])
  BY PickIn
<1>3. \A g : Eq(g) <=> IsFold(g, f, Requests)
  BY <1>2 DEF IsFold
<1>4. IsFold(h, f, Requests)
  BY <1>3, FoldExists
<1> HIDE DEF h
<1> QED BY <1>1, <1>4, SumIsFold

(* What the sub-ledger makes of it.                                        *)
LEMMA MemoSum ==
    ASSUME NEW f, \A r \in Requests : f[r] = memo[r]["COMMIT"] - memo[r]["SPEND_REVERSE"]
    PROVE  SubLedgerSum = SumFunctionOnSet(f, Requests)
<1> DEFINE Eq(g) == g = [T \in SUBSET Requests |->
                           IF T = {} THEN 0
                           ELSE (memo[Pick(T)]["COMMIT"] - memo[Pick(T)]["SPEND_REVERSE"]) + g[T \ {Pick(T)}]]
           h == CHOOSE g : Eq(g)
<1>1. SubLedgerSum = h[Requests]
  BY DEF MapThenSumSet, MapThenFoldSet, Pick, SubLedgerSum
<1>2. \A T \in SUBSET Requests : T # {} => f[Pick(T)] = memo[Pick(T)]["COMMIT"] - memo[Pick(T)]["SPEND_REVERSE"]
  BY PickIn
<1>3. \A g : Eq(g) <=> IsFold(g, f, Requests)
  BY <1>2 DEF IsFold
<1>4. IsFold(h, f, Requests)
  BY <1>3, FoldExists
<1> HIDE DEF h
<1> QED BY <1>1, <1>4, SumIsFold

(* What sets them apart.                                                   *)
LEMMA ApartSum ==
    ASSUME NEW f, \A r \in Requests : f[r] = (posted[r]["SPEND-EXP"] + 2 * byhand[r]["Cr2060"]) - byhand[r]["Dr9010"]
    PROVE  MapThenSumSet(LAMBDA r : (posted[r]["SPEND-EXP"] + 2 * byhand[r]["Cr2060"]) - byhand[r]["Dr9010"], Requests) = SumFunctionOnSet(f, Requests)
<1> DEFINE Eq(g) == g = [T \in SUBSET Requests |->
                           IF T = {} THEN 0
                           ELSE ((posted[Pick(T)]["SPEND-EXP"] + 2 * byhand[Pick(T)]["Cr2060"]) - byhand[Pick(T)]["Dr9010"]) + g[T \ {Pick(T)}]]
           h == CHOOSE g : Eq(g)
<1>1. MapThenSumSet(LAMBDA r : (posted[r]["SPEND-EXP"] + 2 * byhand[r]["Cr2060"]) - byhand[r]["Dr9010"], Requests) = h[Requests]
  BY DEF MapThenSumSet, MapThenFoldSet, Pick
<1>2. \A T \in SUBSET Requests : T # {} => f[Pick(T)] = (posted[Pick(T)]["SPEND-EXP"] + 2 * byhand[Pick(T)]["Cr2060"]) - byhand[Pick(T)]["Dr9010"]
  BY PickIn
<1>3. \A g : Eq(g) <=> IsFold(g, f, Requests)
  BY <1>2 DEF IsFold
<1>4. IsFold(h, f, Requests)
  BY <1>3, FoldExists
<1> HIDE DEF h
<1> QED BY <1>1, <1>4, SumIsFold

(* The reconciliation of the memo accounts is off by every credit of 2060  *)
(* twice less every debit of 9010, on any number of requests and whatever  *)
(* the order of decisions, spends, reversals and the CFO's own lines.      *)
THEOREM Drift == Spec => []MemoDrift
<1>1. IInv /\ MemoFollows => MemoDrift
  <2> SUFFICES ASSUME IInv, MemoFollows PROVE MemoDrift
    OBVIOUS
  <2> DEFINE control == [r \in Requests |-> (posted[r]["SPEND-REV"] + byhand[r]["Cr2060"])
                                             - (posted[r]["APPROVE"] + byhand[r]["Dr2060"])]
             sub == [r \in Requests |-> memo[r]["COMMIT"] - memo[r]["SPEND_REVERSE"]]
             apart == [r \in Requests |->
                         (posted[r]["SPEND-EXP"] + 2 * byhand[r]["Cr2060"]) - byhand[r]["Dr9010"]]
  <2>1. ASSUME NEW r \in Requests
        PROVE  sub[r] \in Int /\ apart[r] \in Int /\ control[r] = sub[r] + apart[r]
    <3>1. posted[r] \in [Kinds -> Nat] /\ memo[r] \in [Sides -> Int] /\ byhand[r] \in [Lines -> Nat]
      BY DEF IInv, TypeOK
    <3>2. /\ posted[r]["SPEND-REV"] \in Int /\ posted[r]["APPROVE"] \in Int
          /\ posted[r]["SPEND-EXP"] \in Int /\ memo[r]["COMMIT"] \in Int
          /\ memo[r]["SPEND_REVERSE"] \in Int /\ byhand[r]["Cr2060"] \in Int
          /\ byhand[r]["Dr2060"] \in Int /\ byhand[r]["Dr9010"] \in Int
      BY <3>1 DEF Kinds, Sides, Lines
    <3>3. /\ posted[r]["SPEND-REV"] = posted[r]["SPEND-EXP"]
          /\ memo[r]["COMMIT"] + posted[r]["APPROVE"] + byhand[r]["Dr2060"] = 0
          /\ memo[r]["SPEND_REVERSE"] = byhand[r]["Cr2060"] - byhand[r]["Dr9010"]
      BY DEF IInv, SpendWhole, MemoFollows
    <3> QED BY <3>2, <3>3
  <2>2. ControlBalance = SumFunctionOnSet(control, Requests)
    BY ControlSum
  <2>3. SubLedgerSum = SumFunctionOnSet(sub, Requests)
    BY MemoSum
  <2>4. MapThenSumSet(LAMBDA r : (posted[r]["SPEND-EXP"] + 2 * byhand[r]["Cr2060"])
                                   - byhand[r]["Dr9010"], Requests)
          = SumFunctionOnSet(apart, Requests)
    BY ApartSum
  <2> HIDE DEF control, sub, apart
  <2>5. SumFunctionOnSet(sub, Requests) \in Int /\ SumFunctionOnSet(apart, Requests) \in Int
    BY <2>1, SumInt
  <2>6. SumFunctionOnSet(control, Requests)
          = SumFunctionOnSet(sub, Requests) + SumFunctionOnSet(apart, Requests)
    BY <2>1, SumPlus
  <2>7. ControlBalance - SubLedgerSum = SumFunctionOnSet(apart, Requests)
    BY <2>2, <2>3, <2>5, <2>6
  <2> QED BY <2>4, <2>7, Zenon DEF MemoDrift
<1> QED BY <1>1, Inductive, Following, PTL

=============================================================================
