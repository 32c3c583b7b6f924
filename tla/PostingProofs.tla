--------------------------- MODULE PostingProofs ---------------------------
(***************************************************************************)
(* Proofs about Posting, for every set of connections, periods, students,  *)
(* accounts and drafts.  IInv is inductive: what it adds to the properties *)
(* of the book is what holds of the transactions in flight (InFlight) and  *)
(* the uniqueness of ids and references (BookUnique).                      *)
(***************************************************************************)
EXTENDS Posting, TLAPS

USE DEF NoEntry, L!NoEntry, Insert, InsertWhen, Unused

(* Swapping the sides of lines gives lines (posting.py, flipped_lines).    *)
LEMMA FlipType ==
    ASSUME NEW lines \in Seq(Line)
    PROVE  L!Flip(lines) \in Seq(Line)
<1>1. Len(lines) \in Nat /\ DOMAIN lines = 1..Len(lines)
  OBVIOUS
<1>2. \A i \in 1..Len(lines) : lines[i] \in Line
  OBVIOUS
<1> QED BY <1>1, <1>2 DEF L!Flip, Line

(* apply_line writes rows of the wallet table.                             *)
LEMMA ApplyLinesType ==
    ASSUME NEW d \in Draft, NEW i \in Nat
    PROVE  ApplyLines(i, d) \subseteq WalletRow
<1>1. \A k \in DOMAIN d.lines : k \in Nat /\ d.lines[k] \in Line
  BY DEF Draft
<1> QED BY <1>1 DEF ApplyLines, WalletLines, WalletRow, Line

(* The draft of a reversal is a draft.                                     *)
LEMMA ReversalType ==
    ASSUME NEW o \in Entry, NEW on \in Periods
    PROVE  Reversal(o, on) \in Draft
<1>1. L!Flip(o.draft.lines) \in Seq(Line)
  BY FlipType DEF Entry, Draft
<1> QED BY <1>1 DEF Reversal, Draft, Entry, Kinds, Attachments

(* Marking an entry REVERSED leaves an entry.                              *)
LEMMA MarkedType ==
    ASSUME NEW o \in Entry
    PROVE  L!Marked(o) \in Entry
BY DEF L!Marked, Entry

(* The GL's lines on the control account compare with the wallet's rows.   *)
LEMMA ControlLinesType ==
    ASSUME NEW E \in SUBSET Entry
    PROVE  ControlLines(E) \subseteq WalletRow
<1>1. \A e \in E : \A k \in DOMAIN e.draft.lines : k \in Nat /\ e.draft.lines[k] \in Line
  BY DEF Entry, Draft
<1> QED BY <1>1 DEF ControlLines, WalletLines, WalletRow, Line, Entry

-----------------------------------------------------------------------------
(* Types.                                                                  *)

(* The program starts well typed.                                          *)
LEMMA InitType == Init => TypeOK
BY PostingAssumption
   DEF Init, TypeOK, Statuses, Job, NoJob, PostSteps, PeriodSteps

(* A transaction that ends, and one that only moves on, keep the types.    *)
LEMMA EndType ==
    ASSUME TypeOK, NEW s \in Slots, End(s),
           entries' \subseteq Entry, wallet' \subseteq WalletRow,
           period' \in [Periods -> Statuses], closeLog' \in [Periods -> Seq(LogRow)],
           audit' \subseteq AuditRow, active' \subseteq Students,
           nextId' \in Nat \ {NoEntry}
    PROVE  TypeOK'
BY DEF TypeOK, End, Job, NoJob, PostSteps, PeriodSteps

(* The same for a slot that goes on to another step.                       *)
LEMMA MoveType ==
    ASSUME TypeOK, NEW s \in Slots, NEW to, UNCHANGED tables,
           nextId' \in Nat \ {NoEntry},
           pc' = [pc EXCEPT ![s] = to],
           \/ job' = job
           \/ \E j \in Job : job' = [job EXCEPT ![s] = j],
           \/ to \in PostSteps   /\ job'[s].op = "post"
           \/ to \in PeriodSteps /\ job'[s].op \in PeriodOps
    PROVE  TypeOK'
<1>1. job' \in [Slots -> Job] /\ \A t \in Slots \ {s} : job'[t] = job[t]
  BY DEF TypeOK
<1>2. pc' \in [Slots -> {"idle"} \cup PostSteps \cup PeriodSteps]
      /\ pc'[s] = to /\ \A t \in Slots \ {s} : pc'[t] = pc[t]
  BY DEF TypeOK
<1>3. PostSteps \cap PeriodSteps = {}
  BY DEF PostSteps, PeriodSteps
<1> QED BY <1>1, <1>2, <1>3 DEF TypeOK, tables, PeriodOps

(* What a posting slot holds is a job.                                     *)
LEMMA PostJobType ==
    ASSUME NEW d \in Draft, NEW i \in Nat
    PROVE  PostJob(d, i) \in Job /\ PostJob(d, i).op = "post"
BY DEF PostJob, Job

(* What a slot in a period transition holds is a job.                      *)
LEMMA PeriodJobType ==
    ASSUME NEW op \in PeriodOps, NEW p \in Periods,
           NEW gl \in SUBSET WalletRow, NEW counted \in SUBSET Nat
    PROVE  PeriodJob(op, p, gl, counted) \in Job
           /\ PeriodJob(op, p, gl, counted).op = op
BY DEF PeriodJob, Job

(* What the job of a slot holds in each part of its transaction.           *)
LEMMA JobOf ==
    ASSUME TypeOK, NEW s \in Slots
    PROVE  /\ pc[s] \in PostSteps => job[s].draft \in Draft /\ job[s].id \in Nat
                                     /\ job[s].op = "post"
           /\ pc[s] \in PeriodSteps => /\ job[s].op \in PeriodOps
                                       /\ job[s].period \in Periods
                                       /\ job[s].gl \in SUBSET WalletRow
                                       /\ job[s].counted \in SUBSET Nat
BY DEF TypeOK, Job, PeriodOps

(* A request that starts is well typed.                                    *)
LEMMA RequestType ==
    ASSUME TypeOK, NEW s \in Slots, Request(s)
    PROVE  TypeOK'
<1>1. ASSUME NEW d \in Drafts, StartPost(s, d) PROVE TypeOK'
  <2>1. PostJob(d, NoEntry) \in Job /\ PostJob(d, NoEntry).op = "post"
    BY DraftsAssumption, PostJobType
  <2> QED BY <1>1, <2>1, MoveType DEF StartPost, Goto, TypeOK, PostSteps
<1>2. ASSUME NEW o \in entries, NEW on \in Periods, StartReverse(s, o, on)
      PROVE  TypeOK'
  <2>1. Reversal(o, on) \in Draft
    BY ReversalType DEF TypeOK
  <2>2. PostJob(Reversal(o, on), NoEntry) \in Job
        /\ PostJob(Reversal(o, on), NoEntry).op = "post"
    BY <2>1, PostJobType
  <2> QED BY <1>2, <2>2, MoveType DEF StartReverse, Goto, TypeOK, PostSteps
<1>3. ASSUME NEW op \in PeriodOps, NEW p \in Periods, StartPeriodOp(s, op, p)
      PROVE  TypeOK'
  <2>1. PeriodJob(op, p, {}, {}) \in Job /\ PeriodJob(op, p, {}, {}).op = op
    BY PeriodJobType
  <2> QED BY <1>3, <2>1, MoveType DEF StartPeriodOp, Goto, TypeOK, PeriodSteps
<1> QED BY <1>1, <1>2, <1>3 DEF Request

(* So are the steps of a posting up to its commit ...                      *)
LEMMA PostStepType ==
    ASSUME TypeOK, NEW s \in Slots,
           CheckPeriod(s) \/ CheckKeys(s) \/ CheckWallet(s) \/ Fail(s)
             \/ Insert(s) \/ Trigger(s)
    PROVE  TypeOK'
<1> USE DEF PostSteps
<1>1. ASSUME NEW from, NEW ok, NEW to, from \in PostSteps, to \in PostSteps,
             Check(s, from, ok, to)
      PROVE  TypeOK'
  <2>1. job[s].op = "post"
    BY <1>1, JobOf DEF Check, Goto
  <2> QED BY <1>1, <2>1, MoveType DEF Check, Goto, TypeOK
<1>2. CASE CheckPeriod(s) \/ CheckKeys(s) \/ CheckWallet(s)
  BY <1>1, <1>2 DEF CheckPeriod, CheckKeys, CheckWallet
<1>3. CASE Fail(s)
  BY <1>3, EndType DEF Fail, TypeOK, tables
<1>4. CASE Insert(s)
  <2>1. job[s].draft \in Draft /\ nextId \in Nat /\ nextId' \in Nat \ {NoEntry}
    BY <1>4, JobOf DEF Insert, TypeOK
  <2>2. PostJob(job[s].draft, nextId) \in Job
        /\ PostJob(job[s].draft, nextId).op = "post"
    BY <2>1, PostJobType
  <2>3. CASE L!RefFree(entries, job[s].draft.ref)
    BY <1>4, <2>1, <2>2, <2>3, MoveType DEF Insert, Goto, TypeOK
  <2>4. CASE ~ L!RefFree(entries, job[s].draft.ref)
    BY <1>4, <2>1, <2>4, EndType DEF Insert, TypeOK, tables
  <2> QED BY <2>3, <2>4
<1>5. CASE Trigger(s)
  <2>1. CASE Covered(wallet, job[s].draft)
    BY <1>5, <2>1, MoveType, JobOf DEF Trigger, Goto, TypeOK
  <2>2. CASE ~ Covered(wallet, job[s].draft)
    BY <1>5, <2>2, EndType DEF Trigger, TypeOK, tables
  <2> QED BY <2>1, <2>2
<1> QED BY <1>2, <1>3, <1>4, <1>5

(* ... its commit ...                                                      *)
LEMMA CommitType ==
    ASSUME TypeOK, NEW s \in Slots, InFlight, Commit(s)
    PROVE  TypeOK'
<1> DEFINE d == job[s].draft
           i == job[s].id
<1>1. d \in Draft /\ i \in Nat \ {NoEntry}
  BY JobOf DEF Commit, PostSteps, InFlight, Inserted
<1>2. entries' \subseteq Entry
  <2>1. MarkReversed(entries, d.reverses) \subseteq Entry
    BY MarkedType DEF MarkReversed, TypeOK
  <2>2. [id |-> i, draft |-> d, status |-> "POSTED"] \in Entry
    BY <1>1 DEF Entry
  <2> QED BY <2>1, <2>2 DEF Commit
<1>3. wallet' \subseteq WalletRow
  BY <1>1, ApplyLinesType DEF Commit, TypeOK
<1>4. audit' \subseteq AuditRow
  <2> DEFINE row(a) == [action |-> a, target |-> i, success |-> TRUE]
  <2>1. row("POST_JOURNAL") \in AuditRow /\ row("REVERSE_JOURNAL") \in AuditRow
    BY <1>1, Zenon DEF AuditRow
  <2>2. audit' = audit \cup {row("POST_JOURNAL")}
        \/ audit' = audit \cup {row("REVERSE_JOURNAL")}
    BY DEF Commit
  <2> QED BY <2>1, <2>2 DEF TypeOK
<1> QED BY <1>2, <1>3, <1>4, EndType DEF Commit, TypeOK

(* ... and the steps of PeriodService.                                     *)
LEMMA PeriodStepType ==
    ASSUME TypeOK, NEW s \in Slots,
           CheckStatus(s) \/ ReadControl(s) \/ ReadSubLedger(s)
             \/ Snapshot(s) \/ ApplyStatus(s)
    PROVE  TypeOK'
<1> USE DEF PeriodSteps
<1>1. nextId \in Nat \ {NoEntry}
  BY DEF TypeOK
<1>2. ASSUME UNCHANGED <<tables, nextId>>, End(s) PROVE TypeOK'
  BY <1>2, EndType DEF TypeOK, tables
<1>3. ASSUME NEW to \in PeriodSteps, UNCHANGED <<tables, nextId, job>>,
             pc[s] \in PeriodSteps, pc' = [pc EXCEPT ![s] = to]
      PROVE  TypeOK'
  <2>1. job'[s].op \in PeriodOps
    BY <1>3, JobOf
  <2> QED BY <1>1, <1>3, <2>1, MoveType
<1>4. CASE CheckStatus(s)
  BY <1>2, <1>3, <1>4 DEF CheckStatus, Goto
<1>5. CASE ReadControl(s)
  <2>1. CASE CloseGate(job[s].period)
    <3>1. ControlLines(entries) \in SUBSET WalletRow
      BY ControlLinesType DEF TypeOK
    <3>2. job[s].period \in Periods
      BY <1>5, JobOf DEF ReadControl
    <3>3. PeriodJob("close", job[s].period, ControlLines(entries), {}) \in Job
          /\ PeriodJob("close", job[s].period, ControlLines(entries), {}).op = "close"
      BY <3>1, <3>2, PeriodJobType DEF PeriodOps
    <3> QED BY <1>1, <1>5, <2>1, <3>3, MoveType DEF ReadControl, Goto, TypeOK, PeriodOps
  <2>2. CASE ~ CloseGate(job[s].period)
    BY <1>2, <1>5, <2>2 DEF ReadControl
  <2> QED BY <2>1, <2>2
<1>6. CASE ReadSubLedger(s)
  BY <1>2, <1>3, <1>6 DEF ReadSubLedger, Goto
<1>7. CASE Snapshot(s)
  <2> DEFINE counted == L!Ids(Posted(InPeriod(entries, job[s].period)))
  <2>1. counted \in SUBSET Nat
    BY DEF TypeOK, L!Ids, Posted, InPeriod, Entry
  <2>2. job[s].period \in Periods /\ job[s].gl \in SUBSET WalletRow
    BY <1>7, JobOf DEF Snapshot, Goto
  <2>3. PeriodJob("close", job[s].period, job[s].gl, counted) \in Job
        /\ PeriodJob("close", job[s].period, job[s].gl, counted).op = "close"
    BY <2>1, <2>2, PeriodJobType DEF PeriodOps
  <2> QED BY <1>1, <1>7, <2>3, MoveType DEF Snapshot, Goto, TypeOK, PeriodOps
<1>8. CASE ApplyStatus(s)
  <2> DEFINE p == job[s].period
             op == job[s].op
  <2>1. op \in PeriodOps /\ p \in Periods /\ job[s].counted \in SUBSET Nat
    BY <1>8, JobOf DEF ApplyStatus
  <2>2. period' \in [Periods -> Statuses]
    BY <1>8, <2>1 DEF ApplyStatus, TypeOK, Target, PeriodOps, Statuses
  <2>3. Logged(closeLog[p], op, job[s].counted) \in Seq(LogRow)
    <3>1. /\ [action |-> "CLOSE", counted |-> job[s].counted] \in LogRow
          /\ [action |-> "REOPEN", counted |-> {}] \in LogRow
      BY <2>1 DEF LogRow
    <3>2. closeLog[p] \in Seq(LogRow)
      BY <2>1 DEF TypeOK
    <3> QED BY <2>1, <3>1, <3>2 DEF Logged, PeriodOps
  <2>4. closeLog' \in [Periods -> Seq(LogRow)]
    BY <1>8, <2>1, <2>3 DEF ApplyStatus, TypeOK
  <2>5. [action |-> op, target |-> p, success |-> TRUE] \in AuditRow
    BY <2>1, Zenon DEF AuditRow
  <2>6. audit' \subseteq AuditRow
    BY <1>8, <2>5 DEF ApplyStatus, TypeOK
  <2> QED BY <1>8, <2>2, <2>4, <2>6, EndType DEF ApplyStatus, TypeOK
<1> QED BY <1>4, <1>5, <1>6, <1>7, <1>8

(* Every step keeps the types; Commit needs the id to be one.              *)
LEMMA NextType ==
    ASSUME TypeOK, InFlight, [Next]_vars
    PROVE  TypeOK'
<1>1. ASSUME NEW s \in Slots, Request(s) PROVE TypeOK'
  BY <1>1, RequestType
<1>2. ASSUME NEW s \in Slots, Step(s) PROVE TypeOK'
  BY <1>2, PostStepType, CommitType, PeriodStepType DEF Step
<1>3. ASSUME NEW s \in Slots, Crash(s) PROVE TypeOK'
  BY <1>3, EndType DEF Crash, TypeOK, tables
<1>4. ASSUME NEW p \in Periods, EnsurePeriod(p) PROVE TypeOK'
  BY <1>4 DEF EnsurePeriod, TypeOK, Statuses
<1>5. ASSUME NEW st \in Students, SetActive(st) PROVE TypeOK'
  BY <1>5 DEF SetActive, TypeOK
<1>6. CASE UNCHANGED vars
  BY <1>6 DEF vars, TypeOK
<1> QED BY <1>1, <1>2, <1>3, <1>4, <1>5, <1>6 DEF Next

-----------------------------------------------------------------------------
(* The inductive invariant, for the steps that leave the book alone.       *)

(* The book, and what holds of it, when neither table nor sequence loses.  *)
LEMMA BookKept ==
    ASSUME IInv, UNCHANGED <<entries, wallet>>,
           nextId' = nextId \/ nextId' = nextId + 1
    PROVE  BookUnique' /\ WalletMirrorsControl' /\ ReversalsPaired'
<1>1. \A e \in entries : e.id \in Nat
  BY DEF IInv, TypeOK, Entry
<1>2. nextId \in Nat
  BY DEF IInv, TypeOK
<1> QED BY <1>1, <1>2 DEF IInv, BookUnique, WalletMirrorsControl, ReversalsPaired, ReversalOf

(* One slot moves; it is sound on its own and against the others.          *)
LEMMA InFlightKept ==
    ASSUME IInv, NEW s \in Slots, UNCHANGED entries,
           nextId' = nextId \/ nextId' = nextId + 1,
           \A t \in Slots \ {s} : pc'[t] = pc[t] /\ job'[t] = job[t],
           pc'[s] \in PostSteps => ReversalOf(job'[s].draft, entries),
           Inserted(s)' =>
             /\ job'[s].id \in Nat \ {NoEntry} /\ job'[s].id < nextId'
             /\ \A e \in entries : e.id # job'[s].id
             /\ L!RefFree(entries, job'[s].draft.ref)
             /\ \A t \in Slots \ {s} : Inserted(t) =>
                   /\ job'[s].id # job[t].id
                   /\ job'[s].draft.ref # NoRef =>
                        job'[s].draft.ref # job[t].draft.ref
    PROVE  InFlight'
<1>1. \A t \in Slots \ {s} : Inserted(t)' = Inserted(t)
  BY DEF Inserted
<1>2. nextId \in Nat
  BY DEF IInv, TypeOK
<1>3. \A t \in Slots : pc'[t] \in PostSteps => ReversalOf(job'[t].draft, entries)
  BY DEF IInv, InFlight
<1>4. \A t \in Slots : Inserted(t)' =>
          /\ job'[t].id \in Nat \ {NoEntry} /\ job'[t].id < nextId'
          /\ \A e \in entries : e.id # job'[t].id
          /\ L!RefFree(entries, job'[t].draft.ref)
  BY <1>1, <1>2 DEF IInv, InFlight
<1>5. \A t, u \in Slots : t # u /\ Inserted(t)' /\ Inserted(u)' =>
          /\ job'[t].id # job'[u].id
          /\ job'[t].draft.ref # NoRef => job'[t].draft.ref # job'[u].draft.ref
  <2> SUFFICES ASSUME NEW t \in Slots, NEW u \in Slots, t # u,
                      Inserted(t)', Inserted(u)'
               PROVE  /\ job'[t].id # job'[u].id
                      /\ job'[t].draft.ref # NoRef =>
                           job'[t].draft.ref # job'[u].draft.ref
    OBVIOUS
  <2>1. CASE t = s
    BY <1>1, <2>1
  <2>2. CASE u = s
    BY <1>1, <2>2
  <2>3. CASE t # s /\ u # s
    BY <1>1, <2>3 DEF IInv, InFlight
  <2> QED BY <2>1, <2>2, <2>3
<1> QED BY <1>3, <1>4, <1>5 DEF InFlight, ReversalOf, L!RefFree

(* A transaction that ends has nothing in flight.                          *)
LEMMA EndInFlight ==
    ASSUME IInv, NEW s \in Slots, End(s), UNCHANGED entries,
           nextId' = nextId \/ nextId' = nextId + 1
    PROVE  InFlight'
<1>1. pc'[s] = "idle" /\ \A t \in Slots \ {s} : pc'[t] = pc[t] /\ job'[t] = job[t]
  BY DEF End, IInv, TypeOK
<1> QED BY <1>1, InFlightKept DEF Inserted, PostSteps

(* A request starts with a draft that reverses nothing, or an entry of the *)
(* book.                                                                   *)
LEMMA RequestInFlight ==
    ASSUME IInv, NEW s \in Slots, Request(s)
    PROVE  InFlight'
<1>1. job \in [Slots -> Job] /\ DOMAIN pc = Slots
  BY DEF IInv, TypeOK
<1>2. ASSUME NEW d \in Drafts, StartPost(s, d) PROVE InFlight'
  <2>1. /\ pc'[s] \in {"period", "failing"} /\ job'[s].draft = d
        /\ \A t \in Slots \ {s} : pc'[t] = pc[t] /\ job'[t] = job[t]
    BY <1>1, <1>2 DEF StartPost, Goto, PostJob
  <2>2. ReversalOf(d, entries)
    BY DraftsAssumption DEF ReversalOf
  <2> QED BY <1>2, <2>1, <2>2, InFlightKept DEF StartPost, tables, Inserted
<1>3. ASSUME NEW o \in entries, NEW on \in Periods, StartReverse(s, o, on)
      PROVE  InFlight'
  <2>1. /\ pc'[s] = "period" /\ job'[s].draft = Reversal(o, on)
        /\ \A t \in Slots \ {s} : pc'[t] = pc[t] /\ job'[t] = job[t]
    BY <1>1, <1>3 DEF StartReverse, Goto, PostJob
  <2>2. ReversalOf(Reversal(o, on), entries)
    BY DEF ReversalOf, Reversal, IInv, TypeOK, Entry
  <2> QED BY <1>3, <2>1, <2>2, InFlightKept DEF StartReverse, tables, Inserted
<1>4. ASSUME NEW op \in PeriodOps, NEW p \in Periods, StartPeriodOp(s, op, p)
      PROVE  InFlight'
  <2>1. /\ pc'[s] = "status"
        /\ \A t \in Slots \ {s} : pc'[t] = pc[t] /\ job'[t] = job[t]
    BY <1>1, <1>4 DEF StartPeriodOp, Goto
  <2> QED BY <1>4, <2>1, InFlightKept DEF StartPeriodOp, tables, Inserted, PostSteps
<1> QED BY <1>2, <1>3, <1>4 DEF Request

(* The checks carry the draft on; the insert takes an id from the sequence *)
(* and a reference that no row and no open transaction has.                *)
LEMMA PostStepInFlight ==
    ASSUME IInv, NEW s \in Slots,
           CheckPeriod(s) \/ CheckKeys(s) \/ CheckWallet(s) \/ Fail(s)
             \/ Insert(s) \/ Trigger(s)
    PROVE  InFlight'
<1>1. job \in [Slots -> Job] /\ DOMAIN pc = Slots /\ nextId \in Nat \ {NoEntry}
  BY DEF IInv, TypeOK
<1>2. pc[s] \in PostSteps => ReversalOf(job[s].draft, entries)
  BY DEF IInv, InFlight
<1>3. ASSUME NEW from, NEW ok, NEW to,
             from \in PostSteps, to \in {"keys", "wallet", "insert"},
             Check(s, from, ok, to)
      PROVE  InFlight'
  <2>1. /\ pc'[s] \in {"keys", "wallet", "insert", "failing"} /\ job' = job
        /\ \A t \in Slots \ {s} : pc'[t] = pc[t]
        /\ pc[s] \in PostSteps
    BY <1>1, <1>3 DEF Check, Goto
  <2> QED BY <1>2, <1>3, <2>1, InFlightKept DEF Check, tables, Inserted
<1>4. CASE CheckPeriod(s) \/ CheckKeys(s) \/ CheckWallet(s)
  BY <1>3, <1>4 DEF CheckPeriod, CheckKeys, CheckWallet, PostSteps
<1>5. CASE Fail(s)
  BY <1>5, EndInFlight DEF Fail, tables
<1>6. CASE Insert(s)
  <2> DEFINE d == job[s].draft
  <2>1. CASE ~ L!RefFree(entries, d.ref)
    BY <1>6, <2>1, EndInFlight DEF Insert, tables
  <2>2. CASE L!RefFree(entries, d.ref)
    <3>1. /\ pc[s] = "insert" /\ pc'[s] = "trigger" /\ nextId' = nextId + 1
          /\ job'[s].draft = d /\ job'[s].id = nextId /\ UNCHANGED entries
          /\ \A t \in Slots \ {s} : pc'[t] = pc[t] /\ job'[t] = job[t]
      BY <1>1, <1>6, <2>2 DEF Insert, Goto, PostJob, tables
    <3>2. ReversalOf(d, entries)
      BY <1>2, <3>1 DEF PostSteps
    <3>3. \A e \in entries : e.id # nextId
      BY <1>1 DEF IInv, BookUnique, TypeOK, Entry
    <3>4. \A t \in Slots \ {s} : Inserted(t) =>
             /\ nextId # job[t].id
             /\ d.ref # NoRef => d.ref # job[t].draft.ref
      BY <1>1, <1>6 DEF IInv, InFlight, NobodyHolds, Holds
    <3> QED BY <1>1, <2>2, <3>1, <3>2, <3>3, <3>4, InFlightKept
  <2> QED BY <2>1, <2>2
<1>7. CASE Trigger(s)
  <2>1. CASE Covered(wallet, job[s].draft)
    <3>1. /\ pc[s] = "trigger" /\ pc'[s] = "commit" /\ job' = job
          /\ nextId' = nextId /\ UNCHANGED entries
          /\ \A t \in Slots \ {s} : pc'[t] = pc[t]
      BY <1>1, <1>7, <2>1 DEF Trigger, Goto, tables
    <3>2. Inserted(s)
      BY <3>1 DEF Inserted
    <3>3. ReversalOf(job[s].draft, entries)
      BY <1>2, <3>1 DEF PostSteps
    <3>4. /\ job[s].id \in Nat \ {NoEntry} /\ job[s].id < nextId
          /\ \A e \in entries : e.id # job[s].id
          /\ L!RefFree(entries, job[s].draft.ref)
          /\ \A t \in Slots \ {s} : Inserted(t) =>
                /\ job[s].id # job[t].id
                /\ job[s].draft.ref # NoRef =>
                      job[s].draft.ref # job[t].draft.ref
      BY <3>2 DEF IInv, InFlight
    <3> QED BY <3>1, <3>3, <3>4, InFlightKept
  <2>2. CASE ~ Covered(wallet, job[s].draft)
    BY <1>7, <2>2, EndInFlight DEF Trigger, tables
  <2> QED BY <2>1, <2>2
<1> QED BY <1>4, <1>5, <1>6, <1>7

(* A period transition has no entry in flight.                             *)
LEMMA PeriodStepInFlight ==
    ASSUME IInv, NEW s \in Slots,
           CheckStatus(s) \/ ReadControl(s) \/ ReadSubLedger(s)
             \/ Snapshot(s) \/ ApplyStatus(s)
    PROVE  InFlight'
<1>1. job \in [Slots -> Job] /\ DOMAIN pc = Slots
  BY DEF IInv, TypeOK
<1>2. ASSUME UNCHANGED <<tables, nextId>>, End(s) PROVE InFlight'
  BY <1>2, EndInFlight DEF tables
<1>3. ASSUME NEW to \in PeriodSteps, UNCHANGED <<tables, nextId>>,
             pc' = [pc EXCEPT ![s] = to],
             \A t \in Slots \ {s} : job'[t] = job[t]
      PROVE  InFlight'
  <2>1. pc'[s] \in PeriodSteps /\ \A t \in Slots \ {s} : pc'[t] = pc[t]
    BY <1>1, <1>3
  <2> QED BY <1>3, <2>1, InFlightKept DEF tables, Inserted, PostSteps, PeriodSteps
<1>4. CASE CheckStatus(s)
  BY <1>2, <1>3, <1>4 DEF CheckStatus, Goto, PeriodSteps
<1>5. CASE ReadControl(s)
  BY <1>1, <1>2, <1>3, <1>5 DEF ReadControl, Goto, PeriodSteps
<1>6. CASE ReadSubLedger(s)
  BY <1>2, <1>3, <1>6 DEF ReadSubLedger, Goto, PeriodSteps
<1>7. CASE Snapshot(s)
  BY <1>1, <1>3, <1>7 DEF Snapshot, Goto, PeriodSteps
<1>8. CASE ApplyStatus(s)
  BY <1>8, EndInFlight DEF ApplyStatus
<1> QED BY <1>4, <1>5, <1>6, <1>7, <1>8

-----------------------------------------------------------------------------
(* The commit of a posting.                                                *)

(* A row is in the control account when its entry's wallet lines have it.  *)
LEMMA ControlLinesOf ==
    ASSUME NEW E, NEW r
    PROVE  r \in ControlLines(E) <=> \E e \in E : r \in ApplyLines(e.id, e.draft)
BY DEF ControlLines, ApplyLines

(* What Commit(s) finds: an entry with an id and a reference that are      *)
(* free, and, if it is a reversal, one original, still POSTED because the  *)
(* entry that would have reversed it would have the same reference.        *)
LEMMA CommitFinds ==
    ASSUME IInv, NEW s \in Slots, pc[s] = "commit"
    PROVE  LET d == job[s].draft
               i == job[s].id
           IN  /\ d \in Draft /\ i \in Nat \ {NoEntry} /\ i < nextId
               /\ \A e \in entries : e.id # i
               /\ L!RefFree(entries, d.ref)
               /\ ReversalOf(d, entries)
               /\ d.reverses # NoEntry =>
                    /\ d.ref # NoRef
                    /\ \A e \in entries : e.draft.reverses # d.reverses
                    /\ \A o \in entries : o.id = d.reverses => o.status = "POSTED"
<1> DEFINE d == job[s].draft
           i == job[s].id
<1>1. d \in Draft
  BY JobOf DEF IInv, PostSteps
<1>2. /\ i \in Nat \ {NoEntry} /\ i < nextId
      /\ \A e \in entries : e.id # i
      /\ L!RefFree(entries, d.ref) /\ ReversalOf(d, entries)
  BY DEF IInv, InFlight, Inserted, PostSteps
<1>3. ASSUME d.reverses # NoEntry
      PROVE  /\ d.ref # NoRef
             /\ \A e \in entries : e.draft.reverses # d.reverses
             /\ \A o \in entries : o.id = d.reverses => o.status = "POSTED"
  <2>1. d.ref = d.reverses /\ d.ref # NoRef
    BY <1>1, <1>2, <1>3, DraftsAssumption DEF ReversalOf, Draft
  <2>2. ASSUME NEW e \in entries, e.draft.reverses = d.reverses PROVE FALSE
    <3>1. e.draft.ref = d.ref
      BY <1>3, <2>1, <2>2 DEF IInv, BookUnique, ReversalOf
    <3> QED BY <1>2, <2>1, <3>1 DEF L!RefFree
  <2>3. ASSUME NEW o \in entries, o.id = d.reverses PROVE o.status = "POSTED"
    BY <2>2, <2>3 DEF IInv, TypeOK, Entry, ReversalsPaired
  <2> QED BY <2>1, <2>2, <2>3
<1> QED BY <1>1, <1>2, <1>3

(* What Commit(s) leaves: every row of before, with its id and its draft,  *)
(* REVERSED if it is the one reversed, and the new one.                    *)
LEMMA CommitLeaves ==
    ASSUME IInv, NEW s \in Slots, Commit(s)
    PROVE  LET d == job[s].draft
               i == job[s].id
               new == [id |-> i, draft |-> d, status |-> "POSTED"]
           IN  /\ new \in entries'
               /\ \A e \in entries : \E f \in entries' :
                     /\ f.id = e.id /\ f.draft = e.draft
                     /\ e.id = d.reverses \/ e.status = "REVERSED" =>
                          f.status = "REVERSED"
               /\ \A f \in entries' : f = new \/ \E e \in entries :
                     /\ f.id = e.id /\ f.draft = e.draft
                     /\ f = IF e.id = d.reverses THEN L!Marked(e) ELSE e
<1> DEFINE d == job[s].draft
           new == [id |-> job[s].id, draft |-> d, status |-> "POSTED"]
           M(e) == IF e.id = d.reverses THEN L!Marked(e) ELSE e
<1>1. entries' = {M(e) : e \in entries} \cup {new}
  BY DEF Commit, MarkReversed
<1>2. \A e \in entries : M(e).id = e.id /\ M(e).draft = e.draft
  BY DEF L!Marked
<1>3. \A e \in entries :
         e.id = d.reverses \/ e.status = "REVERSED" => M(e).status = "REVERSED"
  BY DEF L!Marked
<1> QED BY <1>1, <1>2, <1>3

(* The commit keeps the book unique, mirrored and its reversals paired.    *)
LEMMA CommitBook ==
    ASSUME IInv, NEW s \in Slots, Commit(s)
    PROVE  BookUnique' /\ WalletMirrorsControl' /\ ReversalsPaired'
<1> DEFINE d == job[s].draft
           i == job[s].id
           new == [id |-> i, draft |-> d, status |-> "POSTED"]
<1>0. pc[s] = "commit" /\ nextId' = nextId /\ wallet' = wallet \cup ApplyLines(i, d)
  BY DEF Commit
<1>1. /\ d \in Draft /\ i \in Nat \ {NoEntry} /\ i < nextId
      /\ \A e \in entries : e.id # i
      /\ L!RefFree(entries, d.ref) /\ ReversalOf(d, entries)
  BY <1>0, CommitFinds
<1>2. d.reverses # NoEntry => \A e \in entries : e.draft.reverses # d.reverses
  BY <1>0, CommitFinds
<1>3. /\ new \in entries'
      /\ \A e \in entries : \E f \in entries' :
            /\ f.id = e.id /\ f.draft = e.draft
            /\ e.id = d.reverses \/ e.status = "REVERSED" => f.status = "REVERSED"
  BY CommitLeaves
<1>4. \A f \in entries' : f = new \/ \E e \in entries :
            /\ f.id = e.id /\ f.draft = e.draft
            /\ f = IF e.id = d.reverses THEN L!Marked(e) ELSE e
  BY CommitLeaves
<1>5. new.id = i /\ new.draft = d /\ new.status = "POSTED"
  OBVIOUS
<1>6. ASSUME NEW x, ReversalOf(x, entries) PROVE ReversalOf(x, entries')
  BY <1>3, <1>6 DEF ReversalOf
<1> HIDE DEF new
<1>7. BookUnique'
  <2>1. \A e \in entries' : e.id < nextId'
    BY <1>0, <1>1, <1>4, <1>5 DEF IInv, BookUnique
  <2>2. \A e, f \in entries' : e.id = f.id => e = f
    BY <1>1, <1>4, <1>5 DEF IInv, BookUnique
  <2>3. \A e, f \in entries' :
          e.draft.ref # NoRef /\ e.draft.ref = f.draft.ref => e = f
    <3> SUFFICES ASSUME NEW e \in entries', NEW f \in entries',
                        e.draft.ref # NoRef, e.draft.ref = f.draft.ref
                 PROVE  e = f
      OBVIOUS
    <3>1. \A x \in entries : d.ref # NoRef => x.draft.ref # d.ref
      BY <1>1 DEF L!RefFree
    <3>2. \A x, y \in entries : x.draft.ref # NoRef /\ x.draft.ref = y.draft.ref
                                => x = y
      BY DEF IInv, BookUnique
    <3> QED BY <1>4, <1>5, <3>1, <3>2
  <2>4. \A e \in entries' : ReversalOf(e.draft, entries')
    <3>1. \A e \in entries : ReversalOf(e.draft, entries)
      BY DEF IInv, BookUnique
    <3> QED BY <1>1, <1>4, <1>5, <1>6, <3>1
  <2> QED BY <2>1, <2>2, <2>3, <2>4 DEF BookUnique, ReversalOf
<1>8. WalletMirrorsControl'
  <2>1. \A r : r \in ControlLines(entries') <=>
               r \in ControlLines(entries) \/ r \in ApplyLines(i, d)
    <3>1. \A r : (\E f \in entries' : r \in ApplyLines(f.id, f.draft)) <=>
               (\E e \in entries : r \in ApplyLines(e.id, e.draft))
                 \/ r \in ApplyLines(i, d)
      BY <1>3, <1>4, <1>5
    <3> QED BY <3>1, ControlLinesOf
  <2>2. ControlLines(entries') = ControlLines(entries) \cup ApplyLines(i, d)
    BY <2>1
  <2>3. ControlLines(entries)' = ControlLines(entries')
    BY DEF ControlLines, WalletLines
  <2> QED BY <1>0, <2>2, <2>3 DEF IInv, WalletMirrorsControl
<1>9. ReversalsPaired'
  <2>1. \A e \in entries' : e.draft.reverses # NoEntry =>
          \E o \in entries' : /\ o.id = e.draft.reverses
                              /\ o.status = "REVERSED"
                              /\ e.draft.lines = L!Flip(o.draft.lines)
    <3> SUFFICES ASSUME NEW e \in entries', e.draft.reverses # NoEntry
                 PROVE  \E o \in entries' : /\ o.id = e.draft.reverses
                              /\ o.status = "REVERSED"
                              /\ e.draft.lines = L!Flip(o.draft.lines)
      OBVIOUS
    <3>1. CASE e.draft = d
      <4>1. PICK o \in entries : o.id = d.reverses /\ d.lines = L!Flip(o.draft.lines)
        BY <1>1, <3>1 DEF ReversalOf
      <4> QED BY <1>3, <3>1, <4>1
    <3>2. CASE e.draft # d
      <4>1. PICK f \in entries : e.draft = f.draft
        BY <1>4, <1>5, <3>2
      <4>2. PICK o \in entries : /\ o.id = f.draft.reverses /\ o.status = "REVERSED"
                                /\ f.draft.lines = L!Flip(o.draft.lines)
        BY <4>1 DEF IInv, ReversalsPaired
      <4> QED BY <1>3, <4>1, <4>2
    <3> QED BY <3>1, <3>2
  <2>2. \A o \in entries' : o.status = "REVERSED" =>
          \E e \in entries' : e.draft.reverses = o.id
    <3> SUFFICES ASSUME NEW o \in entries', o.status = "REVERSED"
                 PROVE  \E e \in entries' : e.draft.reverses = o.id
      OBVIOUS
    <3>1. PICK x \in entries : /\ o.id = x.id
                              /\ o = IF x.id = d.reverses THEN L!Marked(x) ELSE x
      BY <1>4, <1>5
    <3>2. CASE x.id = d.reverses
      BY <1>3, <1>5, <3>1, <3>2
    <3>3. CASE x.id # d.reverses
      <4>1. PICK g \in entries : g.draft.reverses = x.id
        BY <3>1, <3>3 DEF IInv, ReversalsPaired
      <4> QED BY <1>3, <3>1, <4>1
    <3> QED BY <3>2, <3>3
  <2>3. \A e, f \in entries' :
          e.draft.reverses # NoEntry /\ e.draft.reverses = f.draft.reverses => e = f
    <3>1. \A x, y \in entries : x.draft.reverses # NoEntry
                                /\ x.draft.reverses = y.draft.reverses => x = y
      BY DEF IInv, ReversalsPaired
    <3> QED BY <1>2, <1>4, <1>5, <3>1
  <2> QED BY <2>1, <2>2, <2>3 DEF ReversalsPaired

<1> QED BY <1>7, <1>8, <1>9

(* The other transactions keep their ids and references, for the one that  *)
(* commits had others.                                                     *)
LEMMA CommitInFlight ==
    ASSUME IInv, NEW s \in Slots, Commit(s)
    PROVE  InFlight'
<1> DEFINE d == job[s].draft
           i == job[s].id
           new == [id |-> i, draft |-> d, status |-> "POSTED"]
<1>1. pc[s] = "commit" /\ pc'[s] = "idle" /\ nextId' = nextId
      /\ \A t \in Slots \ {s} : pc'[t] = pc[t] /\ job'[t] = job[t]
  BY DEF Commit, End, IInv, TypeOK
<1>2. \A e \in entries : \E f \in entries' : f.id = e.id /\ f.draft = e.draft
  BY CommitLeaves
<1>3. \A f \in entries' : \/ f.id = i /\ f.draft = d
                          \/ \E e \in entries : f.id = e.id /\ f.draft = e.draft
  <2>1. \A f \in entries' : \/ f = new
                            \/ \E e \in entries : f.id = e.id /\ f.draft = e.draft
    BY CommitLeaves, Zenon
  <2> QED BY <2>1
<1>4. Inserted(s) /\ \A t \in Slots : Inserted(t)' => t # s /\ Inserted(t)
  BY <1>1 DEF Inserted
<1>5. \A t \in Slots : pc'[t] \in PostSteps => ReversalOf(job'[t].draft, entries')
  <2>1. ASSUME NEW x, ReversalOf(x, entries) PROVE ReversalOf(x, entries')
    BY <1>2, <2>1 DEF ReversalOf
  <2> QED BY <1>1, <2>1 DEF IInv, InFlight, PostSteps
<1>6. \A t \in Slots : Inserted(t)' =>
          /\ job'[t].id \in Nat \ {NoEntry} /\ job'[t].id < nextId'
          /\ \A e \in entries' : e.id # job'[t].id
          /\ L!RefFree(entries', job'[t].draft.ref)
  <2> SUFFICES ASSUME NEW t \in Slots, Inserted(t)'
               PROVE  /\ job'[t].id \in Nat \ {NoEntry} /\ job'[t].id < nextId'
                      /\ \A e \in entries' : e.id # job'[t].id
                      /\ L!RefFree(entries', job'[t].draft.ref)
    OBVIOUS
  <2>1. t # s /\ Inserted(t) /\ Inserted(s) /\ job'[t] = job[t]
    BY <1>1, <1>4
  <2>2. /\ job[t].id \in Nat \ {NoEntry} /\ job[t].id < nextId
        /\ \A e \in entries : e.id # job[t].id
        /\ L!RefFree(entries, job[t].draft.ref)
        /\ job[t].id # i
        /\ job[t].draft.ref # NoRef => job[t].draft.ref # d.ref
    BY <2>1 DEF IInv, InFlight
  <2> QED BY <1>1, <1>3, <2>1, <2>2 DEF L!RefFree
<1>7. \A t, u \in Slots : t # u /\ Inserted(t)' /\ Inserted(u)' =>
          /\ job'[t].id # job'[u].id
          /\ job'[t].draft.ref # NoRef => job'[t].draft.ref # job'[u].draft.ref
  BY <1>1, <1>4 DEF IInv, InFlight
<1> QED BY <1>5, <1>6, <1>7 DEF InFlight, ReversalOf, L!RefFree

-----------------------------------------------------------------------------
(* The theorems.                                                           *)

(* Every step keeps the inductive invariant.                               *)
LEMMA InductiveStep == IInv /\ [Next]_vars => IInv'
<1> SUFFICES ASSUME IInv, [Next]_vars PROVE IInv'
  OBVIOUS
<1>1. TypeOK'
  BY NextType DEF IInv
<1>2. nextId \in Nat
  BY DEF IInv, TypeOK
<1>3. ASSUME NEW s \in Slots, Commit(s)
      PROVE  BookUnique' /\ WalletMirrorsControl' /\ ReversalsPaired' /\ InFlight'
  BY <1>3, CommitBook, CommitInFlight
<1>4. ASSUME NEW s \in Slots, Request(s) \/ Crash(s) \/ (Step(s) /\ ~ Commit(s))
      PROVE  BookUnique' /\ WalletMirrorsControl' /\ ReversalsPaired' /\ InFlight'
  <2>1. UNCHANGED <<entries, wallet>> /\ (nextId' = nextId \/ nextId' = nextId + 1)
    BY <1>4 DEF Request, StartPost, StartReverse, StartPeriodOp, Crash, Step,
                CheckPeriod, CheckKeys, CheckWallet, Check, Fail, Insert, Trigger,
                CheckStatus, ReadControl, ReadSubLedger, Snapshot, ApplyStatus, tables
  <2>2. CASE Request(s)
    BY <2>1, <2>2, BookKept, RequestInFlight
  <2>3. CASE Crash(s)
    BY <2>1, <2>3, BookKept, EndInFlight DEF Crash
  <2>4. CASE Step(s) /\ ~ Commit(s)
    BY <2>1, <2>4, BookKept, PostStepInFlight, PeriodStepInFlight DEF Step
  <2> QED BY <1>4, <2>2, <2>3, <2>4
<1>5. ASSUME UNCHANGED <<entries, wallet, nextId, pc, job>>
      PROVE  BookUnique' /\ WalletMirrorsControl' /\ ReversalsPaired' /\ InFlight'
  <2>1. BookUnique' /\ WalletMirrorsControl' /\ ReversalsPaired'
    BY <1>5, BookKept
  <2>2. InFlight'
    BY <1>5 DEF IInv, InFlight, Inserted, ReversalOf, L!RefFree
  <2> QED BY <2>1, <2>2
<1>6. BookUnique' /\ WalletMirrorsControl' /\ ReversalsPaired' /\ InFlight'
  BY <1>3, <1>4, <1>5 DEF Next, EnsurePeriod, SetActive, vars
<1> QED BY <1>1, <1>6 DEF IInv

(* The empty book satisfies it.                                            *)
LEMMA InductiveInit == Init => IInv
<1> SUFFICES ASSUME Init PROVE IInv
  OBVIOUS
<1>1. TypeOK
  BY InitType
<1>2. BookUnique /\ ReversalsPaired /\ WalletMirrorsControl
  BY DEF Init, BookUnique, ReversalsPaired, WalletMirrorsControl, ControlLines
<1>3. InFlight
  BY DEF Init, InFlight, Inserted, PostSteps
<1> QED BY <1>1, <1>2, <1>3 DEF IInv

(* The inductive invariant holds in every reachable state.                 *)
THEOREM Inductive == Spec => []IInv
BY InductiveInit, InductiveStep, PTL DEF Spec

(* Every committed row, and what each transaction holds, is well typed,    *)
(* for any number of connections, periods, drafts and entries.             *)
THEOREM Typed == Spec => []TypeOK
<1>1. IInv => TypeOK
  BY DEF IInv
<1> QED BY <1>1, Inductive, PTL

(* The wallet sub-ledger and account 2050 never differ in a single line.   *)
THEOREM Mirrored == Spec => []WalletMirrorsControl
<1>1. IInv => WalletMirrorsControl
  BY DEF IInv
<1> QED BY <1>1, Inductive, PTL

(* No entry is reversed twice, and none is REVERSED without its reversal.  *)
THEOREM ReversedOnce == Spec => []ReversalsPaired
<1>1. IInv => ReversalsPaired
  BY DEF IInv
<1> QED BY <1>1, Inductive, PTL

(* What an open transaction will commit never clashes with the book.       *)
THEOREM InFlightFits == Spec => []InFlight
<1>1. IInv => InFlight
  BY DEF IInv
<1> QED BY <1>1, Inductive, PTL

-----------------------------------------------------------------------------
(* The commit of a posting is one step of the abstract book.               *)
LEMMA CommitIsLedgerStep ==
    ASSUME IInv, NEW s \in Slots, Commit(s)
    PROVE  L!Next
<1> DEFINE d == job[s].draft
           i == job[s].id
           new == [id |-> i, draft |-> d, status |-> "POSTED"]
           M(e) == IF e.id = d.reverses THEN L!Marked(e) ELSE e
<1>0. pc[s] = "commit"
  BY DEF Commit
<1>1. /\ \A e \in entries : e.id # i
      /\ L!RefFree(entries, d.ref) /\ ReversalOf(d, entries)
  BY <1>0, CommitFinds
<1>2. d.reverses # NoEntry =>
         \A o \in entries : o.id = d.reverses => o.status = "POSTED"
  BY <1>0, CommitFinds
<1>3. new.id = i /\ new.draft = d /\ new.status = "POSTED"
  OBVIOUS
<1>4. entries' = {M(e) : e \in entries} \cup {new}
  BY DEF Commit, MarkReversed
<1> HIDE DEF new
<1>5. \A e \in entries : M(e).id = e.id
  BY DEF L!Marked
<1>6. new \in entries' \ entries /\ L!Fresh(new)
  BY <1>1, <1>3, <1>4 DEF L!Fresh, L!Ids
<1>7. CASE d.reverses = NoEntry
  <2>1. \A e \in entries : M(e) = e
    BY <1>7 DEF IInv, TypeOK, Entry
  <2>2. entries' = entries \cup {new}
    BY <1>4, <2>1
  <2> QED BY <1>3, <1>6, <1>7, <2>2 DEF L!Next, L!Record
<1>8. CASE d.reverses # NoEntry
  <2>1. PICK o \in entries : o.id = d.reverses /\ d.lines = L!Flip(o.draft.lines)
    BY <1>1, <1>8 DEF ReversalOf
  <2>2. \A e \in entries : e.id = d.reverses <=> e = o
    BY <2>1 DEF IInv, BookUnique
  <2>3. o.status = "POSTED"
    BY <1>2, <1>8, <2>1
  <2>4. entries' = (entries \ {o}) \cup {L!Marked(o), new}
    <3>1. \A e \in entries : M(e) = IF e = o THEN L!Marked(o) ELSE e
      BY <2>2
    <3> HIDE DEF M
    <3> QED BY <1>4, <3>1
  <2> QED BY <1>3, <1>6, <2>1, <2>3, <2>4 DEF L!Next, L!Reverse
<1> QED BY <1>7, <1>8

(* Every other step leaves the book as it is.                              *)
LEMMA StepRefines == IInv /\ [Next]_vars => [L!Next]_entries
<1> SUFFICES ASSUME IInv, [Next]_vars, entries' # entries PROVE L!Next
  OBVIOUS
<1>1. PICK s \in Slots : Commit(s)
  BY DEF Next, vars, EnsurePeriod, SetActive, Request, StartPost, StartReverse,
         StartPeriodOp, Crash, Step, CheckPeriod, CheckKeys, CheckWallet, Check, Fail,
         Insert, Trigger, CheckStatus, ReadControl, ReadSubLedger, Snapshot,
         ApplyStatus, tables
<1> QED BY <1>1, CommitIsLedgerStep

(* The transactions, interleaved and interrupted in any way, implement the *)
(* append-only book of Ledger.                                             *)
THEOREM Refinement == Spec => ImplementsLedger
<1>1. Init => L!Init
  BY DEF Init, L!Init
<1> QED BY <1>1, StepRefines, Inductive, PTL DEF Spec, ImplementsLedger, L!Spec
-----------------------------------------------------------------------------
(* In a sealed period, the slot that moves passes no check but that of a   *)
(* reopen.                                                                 *)
LEMMA NonePasses ==
    ASSUME TypeOK, NEW s \in Slots, Request(s) \/ Step(s) \/ Crash(s),
           NEW p \in Periods, Sealed(p), Passed(s, p)'
    PROVE  Reopening(s, p)' /\ UNCHANGED period
<1> USE DEF Checked
<1>1. /\ pc \in [Slots -> {"idle"} \cup PostSteps \cup PeriodSteps]
      /\ job \in [Slots -> Job] /\ period[p] = "CLOSED" /\ ~ Passed(s, p)
      /\ pc'[s] \in Checked \cup {"apply"}
  BY DEF TypeOK, Sealed, Passed
<1>2. CASE Request(s)
  BY <1>1, <1>2 DEF Request, StartPost, StartReverse, StartPeriodOp, Goto
<1>3. CASE End(s)
  BY <1>1, <1>3 DEF End
<1>4. CASE CheckPeriod(s)
  BY <1>1, <1>4 DEF CheckPeriod, Check, Goto, PeriodAccepts, Passed, tables
<1>5. CASE CheckKeys(s) \/ CheckWallet(s)
  BY <1>1, <1>5 DEF CheckKeys, CheckWallet, Check, Goto, Passed
<1>6. CASE Insert(s) /\ ~ End(s)
  <2>1. /\ pc[s] = "insert" /\ pc'[s] = "trigger"
        /\ job'[s] = PostJob(job[s].draft, nextId)
    BY <1>1, <1>6 DEF Insert, InsertWhen, Goto
  <2> QED BY <1>1, <2>1 DEF Passed, PostJob
<1>7. CASE Trigger(s) /\ ~ End(s)
  BY <1>1, <1>7 DEF Trigger, Goto, Passed
<1>8. CASE CheckStatus(s) /\ ~ End(s)
  <2>1. /\ pc'[s] = "apply" /\ job' = job /\ UNCHANGED period /\ job[s].period = p
        /\ job[s].op # "close" /\ Allowed(job[s].op, "CLOSED")
    BY <1>1, <1>8 DEF CheckStatus, Goto, Passed, tables
  <2>2. job[s].op \in PeriodOps
    BY <1>8 DEF CheckStatus, TypeOK, PeriodSteps
  <2>3. job[s].op = "reopen"
    BY <2>1, <2>2 DEF Allowed, PeriodOps
  <2> QED BY <2>1, <2>3 DEF Reopening
<1>9. CASE (ReadControl(s) \/ ReadSubLedger(s)) /\ ~ End(s)
  BY <1>1, <1>9 DEF ReadControl, ReadSubLedger, Goto
<1>10. CASE Snapshot(s)
  BY <1>1, <1>10 DEF Snapshot, Goto, PeriodJob, Passed
<1> QED BY <1>2, <1>3, <1>4, <1>5, <1>6, <1>7, <1>8, <1>9, <1>10
        DEF Step, Crash, Fail, Commit, ApplyStatus

(* The slots that stand still pass nothing.                                *)
LEMMA OthersStand ==
    ASSUME NEW s \in Slots, Request(s) \/ Step(s) \/ Crash(s), TypeOK,
           NEW t \in Slots \ {s}
    PROVE  pc'[t] = pc[t] /\ job'[t] = job[t]
<1> USE DEF TypeOK
<1>1. CASE Request(s)
  BY <1>1 DEF Request, StartPost, StartReverse, StartPeriodOp, Goto
<1>2. CASE Crash(s)
  BY <1>2 DEF Crash, End
<1>3. CASE CheckPeriod(s) \/ CheckKeys(s) \/ CheckWallet(s) \/ Fail(s)
  BY <1>3 DEF CheckPeriod, CheckKeys, CheckWallet, Check, Fail, Goto, End
<1>4. CASE Insert(s) \/ Trigger(s) \/ Commit(s)
  BY <1>4 DEF Insert, InsertWhen, Trigger, Commit, Goto, End
<1>5. CASE CheckStatus(s) \/ ReadControl(s) \/ ReadSubLedger(s)
  BY <1>5 DEF CheckStatus, ReadControl, ReadSubLedger, Goto, End
<1>6. CASE Snapshot(s) \/ ApplyStatus(s)
  BY <1>6 DEF Snapshot, ApplyStatus, Goto, End
<1> QED BY <1>1, <1>2, <1>3, <1>4, <1>5, <1>6 DEF Step

(* A sealed period has the entries it had, and its status.                 *)
LEMMA SealHolds ==
    ASSUME IInv, Next, NEW p \in Periods, Sealed(p)
    PROVE  /\ period'[p] = "CLOSED"
           /\ L!Ids(InPeriod(entries', p)) = L!Ids(InPeriod(entries, p))
<1>1. period[p] = "CLOSED" /\ period \in [Periods -> Statuses]
  BY DEF Sealed, IInv, TypeOK
<1>2. ASSUME NEW s \in Slots, Commit(s)
      PROVE  /\ UNCHANGED period
             /\ L!Ids(InPeriod(entries', p)) = L!Ids(InPeriod(entries, p))
  <2> DEFINE d == job[s].draft
             new == [id |-> job[s].id, draft |-> d, status |-> "POSTED"]
             M(e) == IF e.id = d.reverses THEN L!Marked(e) ELSE e
  <2>1. d.period # p
    BY <1>2 DEF Commit, Sealed, Passed, Checked
  <2>2. entries' = {M(e) : e \in entries} \cup {new} /\ UNCHANGED period
    BY <1>2 DEF Commit, MarkReversed
  <2>3. \A e \in entries : M(e).id = e.id /\ M(e).draft = e.draft
    BY DEF L!Marked, IInv, TypeOK, Entry
  <2>4. new.draft.period # p
    BY <2>1
  <2> HIDE DEF M, new, d
  <2>5. InPeriod(entries', p) = {M(e) : e \in InPeriod(entries, p)}
    BY <2>2, <2>3, <2>4 DEF InPeriod
  <2>6. L!Ids(InPeriod(entries', p)) = L!Ids(InPeriod(entries, p))
    BY <2>3, <2>5 DEF L!Ids, InPeriod
  <2> QED BY <2>2, <2>6
<1>3. ASSUME NEW s \in Slots, ApplyStatus(s) PROVE period'[p] = "CLOSED" /\ UNCHANGED entries
  <2>1. job[s].period = p => job[s].op = "close"
    BY <1>3 DEF ApplyStatus, Sealed, Passed
  <2> QED BY <1>1, <1>3, <2>1 DEF ApplyStatus, Target
<1>4. ASSUME NEW q \in Periods, EnsurePeriod(q) PROVE period'[p] = "CLOSED" /\ UNCHANGED entries
  BY <1>1, <1>4 DEF EnsurePeriod
<1>5. CASE UNCHANGED <<entries, period>>
  BY <1>1, <1>5
<1>6. UNCHANGED <<entries, period>> \/ (\E s \in Slots : Commit(s) \/ ApplyStatus(s))
        \/ (\E q \in Periods : EnsurePeriod(q))
  BY DEF Next, SetActive, Request, StartPost, StartReverse, StartPeriodOp, Crash, Step,
         CheckPeriod, CheckKeys, CheckWallet, Check, Fail, Insert, InsertWhen, Trigger,
         CheckStatus, ReadControl, ReadSubLedger, Snapshot, tables
<1>7. CASE UNCHANGED entries /\ period'[p] = "CLOSED"
  BY <1>7
<1> QED BY <1>1, <1>2, <1>3, <1>4, <1>5, <1>6, <1>7

(* Once the transactions that read the status before the close have ended, *)
(* a closed period is closed to all connections until it is reopened.      *)
THEOREM SealedStays == Spec => SealedUntilReopened
<1>1. ASSUME IInv, Next, NEW p \in Periods, Sealed(p)
      PROVE  Sealed(p)' \/ \E s \in Slots : Reopening(s, p)' /\ period'[p] = "CLOSED"
  <2>1. period'[p] = "CLOSED"
    BY <1>1, SealHolds
  <2>2. CASE \E s \in Slots : Request(s) \/ Step(s) \/ Crash(s)
    <3>1. PICK s \in Slots : Request(s) \/ Step(s) \/ Crash(s)
      BY <2>2
    <3>2. \A t \in Slots \ {s} : ~ Passed(t, p)'
      BY <1>1, <3>1, OthersStand DEF Sealed, Passed, IInv
    <3>3. Passed(s, p)' => Reopening(s, p)'
      BY <1>1, <3>1, NonePasses DEF IInv
    <3> QED BY <2>1, <3>2, <3>3 DEF Sealed
  <2>3. CASE UNCHANGED <<pc, job>>
    BY <1>1, <2>1, <2>3 DEF Sealed, Passed
  <2> QED BY <1>1, <2>2, <2>3 DEF Next, EnsurePeriod, SetActive
<1>2. IInv /\ [Next]_vars =>
        [\A p \in Periods : Sealed(p) =>
          /\ Sealed(p)' \/ \E s \in Slots : Reopening(s, p)' /\ period'[p] = "CLOSED"
          /\ L!Ids(InPeriod(entries', p)) = L!Ids(InPeriod(entries, p))]_vars
  BY <1>1, SealHolds
<1> QED BY <1>2, Inductive, PTL DEF Spec, SealedUntilReopened
=============================================================================
