-------------------------- MODULE MonthEndProofs ---------------------------
(***************************************************************************)
(* Proofs about MonthEnd.  References keep an item from being charged      *)
(* twice, whatever the amounts are; what the amounts come to rests on the  *)
(* laws of sums over finite sets of rows, which Sums proves.               *)
(***************************************************************************)
EXTENDS MonthEnd, Sums

(* A step of one slot leaves the others where they were.                   *)
Moved(s) == \A t \in Slots \ {s} : pc'[t] = pc[t] /\ job'[t] = job[t]

(* pc and job are functions of the slots.                                  *)
Shape == pc \in [Slots -> Steps] /\ job = [s \in Slots |-> job[s]]

-----------------------------------------------------------------------------
(* What the agents draft.                                                  *)

(* A charge that an agent drafts names what it charges, and the period.    *)
LEMMA PlannedNamed ==
    ASSUME NEW R, NEW j, NEW d \in Planned(R, j)
    PROVE  WellNamed(d) /\ (IsCharge(d) => j.agent # "none" /\ d.ref.at = j.period)
<1>1. CASE j.agent = "fx"
  <2>1. d \in Revaluation(R, j.on, j.rate)
    BY <1>1 DEF Planned
  <2>2. d.ref.kind = "FX-REVAL"
    BY <2>1 DEF Revaluation, AgentDraft, Ref
  <2> QED BY <2>2 DEF WellNamed, IsCharge
<1>2. CASE j.agent = "depreciation"
  <2>1. d \in Depreciation(R, j.period, j.on)
    BY <1>2 DEF Planned
  <2>2. PICK c \in Classes :
           d = AgentDraft(Ref("DEP", j.period, c), j.on,
                 {ChargeLine(R, i) : i \in InService(R, {a \in Assets : ClassOf[a] = c})})
    BY <2>1 DEF Depreciation
  <2>3. d.ref = Ref("DEP", j.period, c)
    BY <2>2 DEF AgentDraft
  <2>4. \A l \in d.lines : l.key \in Assets /\ ClassOf[l.key] = c
    <3>1. d.lines = {ChargeLine(R, i) : i \in InService(R, {a \in Assets : ClassOf[a] = c})}
      BY <2>2 DEF AgentDraft
    <3>2. \A i : ChargeLine(R, i).key = i
      BY DEF ChargeLine, SubLine
    <3> QED BY <3>1, <3>2 DEF InService
  <2>5. d.ref.kind = "DEP" /\ d.ref.at = j.period /\ d.ref.key = c
    BY <2>3 DEF Ref
  <2> QED BY <1>2, <2>3, <2>4, <2>5 DEF WellNamed, IsCharge
<1>3. CASE j.agent = "amortization"
  <2>1. d \in Amortization(R, j.period, j.on)
    BY <1>3 DEF Planned
  <2>2. PICK i \in InService(R, Prepaids) :
           d = AgentDraft(Ref("AMORT", j.period, i), j.on, {ChargeLine(R, i)})
    BY <2>1 DEF Amortization
  <2>3. d.ref = Ref("AMORT", j.period, i) /\ i \in Prepaids
    BY <2>2 DEF AgentDraft, InService
  <2>4. \A l \in d.lines : l.key = i
    BY <2>2 DEF AgentDraft, ChargeLine, SubLine
  <2>5. d.ref.kind = "AMORT" /\ d.ref.at = j.period /\ d.ref.key = i
    BY <2>3 DEF Ref
  <2> QED BY <1>3, <2>3, <2>4, <2>5 DEF WellNamed, IsCharge
<1>4. CASE j.agent \notin {"fx", "depreciation", "amortization"}
  <2>1. d \in {}
    BY <1>4 DEF Planned
  <2> QED BY <2>1
<1> QED BY <1>1, <1>2, <1>3, <1>4

-----------------------------------------------------------------------------
(* What a step keeps.                                                      *)

LEMMA SlotMoves ==
    ASSUME IInv, NEW s \in Slots, NEW x \in Steps, NEW j,
           pc' = [pc EXCEPT ![s] = x], job' = [job EXCEPT ![s] = j]
    PROVE  Shape' /\ Moved(s) /\ pc'[s] = x /\ job'[s] = j
BY DEF IInv, Shape, Moved

(* A slot that rests is as it was.                                         *)
LEMMA WorkingKept ==
    ASSUME NEW t \in Slots, Working(t), pc'[t] = pc[t], job'[t] = job[t]
    PROVE  Working(t)'
BY DEF Working, Makes, Running, WellNamed, IsCharge

(* A step that adds nothing to the book nor to what is posted.             *)
LEMMA QuietStep ==
    ASSUME IInv, NEW s \in Slots, Moved(s), Shape', book' = book,
           job'[s].done \subseteq job[s].done, Working(s)'
    PROVE  IInv'
<1>1. ASSUME NEW t \in Slots PROVE Working(t)'
  BY WorkingKept DEF IInv, Moved
<1>2. \A t \in Slots : job'[t].done \subseteq job[t].done
  BY DEF Moved
<1>3. RefsApart'
  <2>1. \A e, f \in book' : SameRef(e, f) => e = f
    BY DEF IInv, RefsApart
  <2>2. ASSUME NEW t \in Slots, NEW e \in job'[t].done
        PROVE  /\ \A f \in book' : ~ SameRef(e, f)
               /\ \A f \in job'[t].done : SameRef(e, f) => e = f
               /\ \A u \in Slots \ {t} : \A f \in job'[u].done : ~ SameRef(e, f)
    BY <1>2 DEF IInv, RefsApart
  <2> QED BY <2>1, <2>2 DEF RefsApart, SameRef
<1>4. \A e \in book' : WellNamed(e.draft)
  BY DEF IInv
<1> QED BY <1>1, <1>3, <1>4 DEF IInv, Shape, WellNamed, IsCharge, Ref

(* The transaction is over.                                                *)
LEMMA NoJobWorks ==
    ASSUME NEW s \in Slots, pc'[s] = "idle", job'[s] = NoJob PROVE Working(s)'
BY DEF NoJob, Working, Running

LEMMA EndStep ==
    ASSUME IInv, NEW s \in Slots, End(s), book' = book PROVE IInv'
<1>1. Shape' /\ Moved(s) /\ pc'[s] = "idle" /\ job'[s] = NoJob
  BY SlotMoves DEF End, Steps
<1>2. job'[s].done \subseteq job[s].done
  BY <1>1 DEF NoJob
<1> QED BY <1>1, <1>2, NoJobWorks, QuietStep

-----------------------------------------------------------------------------
(* The actions.                                                            *)

LEMMA InitStep == Init => IInv
<1> SUFFICES ASSUME Init PROVE IInv
  OBVIOUS
<1>1. pc \in [Slots -> Steps] /\ job = [s \in Slots |-> job[s]]
  BY DEF Init, Steps
<1>2. \A s \in Slots : Working(s) /\ job[s].done = {}
  BY DEF Init, NoJob, Working, Running
<1>3. \A e \in book : WellNamed(e.draft)
  BY OpeningAssumption DEF Init, WellNamed, IsCharge
<1>4. \A e, f \in book : SameRef(e, f) => e = f
  BY OpeningAssumption DEF Init, SameRef
<1>5. RefsApart
  BY <1>2, <1>4 DEF RefsApart
<1> QED BY <1>1, <1>2, <1>3, <1>5 DEF IInv

(* A request starts with nothing to post, or with a draft that is no       *)
(* charge.                                                                 *)
LEMMA StartStep ==
    ASSUME IInv, NEW s \in Slots, NEW op, NEW p, NEW on, NEW rate, NEW agent, NEW todo,
           NEW first \in Steps, Start(s, op, p, on, rate, agent, todo, first),
           \A d \in todo : ~ IsCharge(d),
           todo = {} \/ first = "write",
           agent # "none" => op \in {"preclose", "preview"}
    PROVE  IInv'
<1> DEFINE j == [op |-> op, period |-> p, on |-> on, rate |-> rate,
                 agent |-> agent, todo |-> todo, done |-> {}]
<1>1. /\ j.op = op /\ j.agent = agent /\ j.todo = todo /\ j.done = {}
      /\ pc' = [pc EXCEPT ![s] = first] /\ job' = [job EXCEPT ![s] = j]
      /\ book' = book
  BY DEF Start, Goto, tables
<1> HIDE DEF j
<1>2. Shape' /\ Moved(s) /\ pc'[s] = first /\ job'[s] = j
  BY <1>1, SlotMoves
<1>3. Working(s)'
  <2>1. \A d \in todo : WellNamed(d) /\ ~ IsCharge(d)
    BY DEF WellNamed
  <2>2. \A d \in job'[s].todo : Makes(s, d)'
    BY <1>1, <1>2, <2>1 DEF Makes, WellNamed, IsCharge
  <2>3. ~ Running(s)' => job'[s].todo = {}
    BY <1>1, <1>2 DEF Running
  <2> QED BY <1>1, <1>2, <2>2, <2>3 DEF Working
<1>4. job'[s].done \subseteq job[s].done
  BY <1>1, <1>2
<1> QED BY <1>1, <1>2, <1>3, <1>4, QuietStep

LEMMA RequestStep == ASSUME IInv, NEW s \in Slots, Request(s) PROVE IInv'
<1>1. {"status", "plan", "write"} \subseteq Steps
  BY DEF Steps
<1>2. ASSUME NEW p, NEW on, NEW rate, StartPreClose(s, p, on, rate) PROVE IInv'
  BY <1>1, <1>2, StartStep DEF StartPreClose
<1>3. ASSUME NEW p, NEW on, NEW rate, StartPreview(s, p, on, rate) PROVE IInv'
  BY <1>1, <1>3, StartStep DEF StartPreview
<1>4. ASSUME NEW p, StartClose(s, p) \/ StartReopen(s, p) PROVE IInv'
  BY <1>1, <1>4, StartStep DEF StartClose, StartReopen
<1>5. ASSUME NEW d \in Others, StartPost(s, d) PROVE IInv'
  <2>1. \A e \in {d} : ~ IsCharge(e)
    BY DraftsAssumption DEF IsCharge
  <2> QED BY <1>1, <1>5, <2>1, StartStep DEF StartPost
<1>6. ASSUME NEW e \in book, NEW on, StartReverse(s, e, on) PROVE IInv'
  <2>1. \A d \in {Reversal(e, on)} : ~ IsCharge(d)
    BY DEF Reversal, Ref, IsCharge
  <2> QED BY <1>1, <1>6, <2>1, StartStep DEF StartReverse
<1> QED BY <1>2, <1>3, <1>4, <1>5, <1>6 DEF Request

(* The reads of the gate.                                                  *)
LEMMA ReadsAre ==
    /\ Reads = {"payableBook", "payableRows", "costBook", "assetBook", "assetRows",
                "prepaidBook", "prepaidRows", "intangibleBook", "intangibleRows"}
    /\ NextRead["payableBook"] = "payableRows" /\ NextRead["payableRows"] = "costBook"
    /\ NextRead["costBook"] = "assetBook" /\ NextRead["assetBook"] = "assetRows"
    /\ NextRead["assetRows"] = "prepaidBook" /\ NextRead["prepaidBook"] = "prepaidRows"
    /\ NextRead["prepaidRows"] = "intangibleBook"
    /\ NextRead["intangibleBook"] = "intangibleRows" /\ NextRead["intangibleRows"] = "lock"
BY DEF Reads, NextRead

LEMMA StepsAre ==
    /\ \A r \in Reads : NextRead[r] \in Reads \cup {"lock"}
    /\ Reads \cap {"idle", "status", "lock", "plan", "write", "commit"} = {}
    /\ "payableBook" \in Reads /\ Reads \subseteq Steps
    /\ {"idle", "status", "lock", "plan", "write", "commit"} \subseteq Steps
BY ReadsAre DEF Steps

(* The status guard, the gate, and a pre-close that has locked its period. *)
LEMMA GotoStep ==
    ASSUME IInv, NEW s \in Slots, NEW x \in Steps, pc' = [pc EXCEPT ![s] = x],
           UNCHANGED <<job, book>>, ~ Running(s)
    PROVE  IInv'
<1>1. Shape' /\ Moved(s) /\ pc'[s] = x
  BY DEF IInv, Shape, Moved
<1>2. Working(s)'
  BY <1>1 DEF IInv, Working, Running
<1> QED BY <1>1, <1>2, QuietStep

(* The guard and the gate end the request or send it on.                   *)
Guards(s) ==
    /\ UNCHANGED <<tables, nextId>> /\ pc[s] \in Reads \cup {"status"}
    /\ \/ End(s)
       \/ /\ UNCHANGED job
          /\ \E x \in Reads \cup {"lock"} : pc' = [pc EXCEPT ![s] = x]

LEMMA GuardMoves ==
    ASSUME NEW s \in Slots, CheckStatus(s) \/ Gate(s) PROVE Guards(s)
<1>1. CASE CheckStatus(s)
  BY <1>1, StepsAre DEF CheckStatus, Goto, Guards
<1>2. CASE Gate(s)
  BY <1>2, StepsAre DEF Gate, GateWhen, Guards
<1> QED BY <1>1, <1>2

LEMMA GuardStep == ASSUME IInv, NEW s \in Slots, Guards(s) PROVE IInv'
<1>1. book' = book /\ ~ Running(s)
  BY StepsAre DEF Guards, tables, Running
<1>2. CASE End(s)
  BY <1>1, <1>2, EndStep
<1>3. CASE ~ End(s)
  BY <1>1, <1>3, StepsAre, GotoStep DEF Guards
<1> QED BY <1>2, <1>3

LEMMA LockStep == ASSUME IInv, NEW s \in Slots, Lock(s) PROVE IInv'
<1>1. book' = book /\ ~ Running(s) /\ "plan" \in Steps
  BY DEF Lock, Running, Steps
<1> QED BY <1>1, EndStep, GotoStep DEF Lock, Goto

(* An agent lists what it posts.                                           *)
LEMMA PlanStep == ASSUME IInv, NEW s \in Slots, Plan(s) PROVE IInv'
<1> DEFINE old == job[s]
           todo == Planned(rows, old)
           x == After(Following(old.agent), todo)
           j == [op |-> old.op, period |-> old.period, on |-> old.on, rate |-> old.rate,
                 agent |-> Following(old.agent), todo |-> todo, done |-> old.done]
<1>1. /\ j.op = old.op /\ j.period = old.period /\ j.agent = Following(old.agent)
      /\ j.todo = todo /\ j.done = old.done
      /\ pc[s] = "plan" /\ pc' = [pc EXCEPT ![s] = x] /\ job' = [job EXCEPT ![s] = j]
      /\ book' = book
  BY DEF Plan, Goto, tables
<1>2. x \in {"write", "commit", "plan"} /\ x \in Steps
  BY DEF After, Steps
<1>3. \A d \in todo : WellNamed(d) /\ (IsCharge(d) => old.agent # "none" /\ d.ref.at = old.period)
  BY PlannedNamed
<1>4. Following(old.agent) # "none" => old.agent # "none"
  BY DEF Following
<1> HIDE DEF j, x, todo
<1>5. Shape' /\ Moved(s) /\ pc'[s] = x /\ job'[s] = j
  <2>1. pc' = [pc EXCEPT ![s] = x] /\ job' = [job EXCEPT ![s] = j] /\ x \in Steps
    BY <1>1, <1>2
  <2> QED BY ONLY <2>1, SlotMoves, IInv, s \in Slots
<1>6. Working(s)'
  <2>1. Working(s) /\ Running(s)'
    BY <1>2, <1>5 DEF IInv, Running
  <2>2. \A d \in job'[s].todo : Makes(s, d)'
    BY <1>1, <1>3, <1>5, <2>1 DEF Working, Makes, WellNamed, IsCharge
  <2>3. \A e \in job'[s].done : Makes(s, e.draft)'
    BY <1>1, <1>5, <2>1 DEF Working, Makes, WellNamed, IsCharge
  <2>4. job'[s].agent # "none" => job'[s].op \in {"preclose", "preview"}
    BY <1>1, <1>4, <1>5, <2>1 DEF Working
  <2> QED BY <1>2, <1>5, <2>1, <2>2, <2>3, <2>4 DEF Working
<1>7. job'[s].done \subseteq job[s].done
  BY <1>1, <1>5
<1> QED BY <1>1, <1>5, <1>6, <1>7, QuietStep

(* An insert: a reference that is in the book, in the transaction itself   *)
(* or in another one is not inserted.                                      *)
LEMMA WriteStep ==
    ASSUME IInv, NEW s \in Slots, NEW d, Write(s, d) PROVE IInv'
<1>1. /\ pc[s] = "write" /\ d \in job[s].todo /\ NobodyHolds(s, d.ref)
      /\ book' = book
  BY DEF Write, WriteWhen, tables
<1>2. CASE End(s)
  BY <1>1, <1>2, EndStep
<1>3. CASE ~ End(s)
  <2> DEFINE old == job[s]
             x == After(old.agent, old.todo \ {d})
             new == EntryOf(nextId, d)
             j == [op |-> old.op, period |-> old.period, on |-> old.on, rate |-> old.rate,
                   agent |-> old.agent, todo |-> old.todo \ {d}, done |-> old.done \cup {new}]
  <2>1. Free(s, d.ref) /\ pc' = [pc EXCEPT ![s] = x] /\ job' = [job EXCEPT ![s] = j]
    BY <1>3 DEF Write, WriteWhen, Goto
  <2>2. /\ j.op = old.op /\ j.period = old.period /\ j.agent = old.agent
        /\ j.todo = old.todo \ {d} /\ j.done = old.done \cup {new} /\ new.draft = d
    BY DEF EntryOf
  <2>3. x \in {"write", "commit", "plan"} /\ x \in Steps
    BY DEF After, Steps
  <2> HIDE DEF j, x, new
  <2>4. Shape' /\ Moved(s) /\ pc'[s] = x /\ job'[s] = j
    BY <2>1, <2>3, SlotMoves
  <2>5. Working(s)'
    <3>1. Working(s) /\ Running(s)'
      BY <2>3, <2>4 DEF IInv, Running
    <3>2. \A c \in job'[s].todo : Makes(s, c)'
      BY <2>2, <2>4, <3>1 DEF Working, Makes, WellNamed, IsCharge
    <3>3. \A e \in job'[s].done : Makes(s, e.draft)'
      BY <1>1, <2>2, <2>4, <3>1 DEF Working, Makes, WellNamed, IsCharge
    <3>4. job'[s].agent # "none" => job'[s].op \in {"preclose", "preview"}
      BY <2>2, <2>4, <3>1 DEF Working
    <3> QED BY <2>3, <2>4, <3>1, <3>2, <3>3, <3>4 DEF Working
  <2>6. \A t \in Slots : Working(t)'
    BY <2>4, <2>5, WorkingKept DEF IInv, Moved
  <2>7. \A f \in book \cup old.done : ~ SameRef(new, f) /\ ~ SameRef(f, new)
    BY <2>1, <2>2 DEF Free, RefUsed, SameRef
  <2>8. \A t \in Slots \ {s} : \A f \in job[t].done : ~ SameRef(new, f) /\ ~ SameRef(f, new)
    BY <1>1, <2>2 DEF NobodyHolds, Holds, SameRef
  <2>9. RefsApart'
    <3>1. \A e, f \in book' : SameRef(e, f) => e = f
      BY <1>1 DEF IInv, RefsApart
    <3>2. \A t \in Slots \ {s} : job'[t].done = job[t].done
      BY <2>4 DEF Moved
    <3>3. job'[s].done = job[s].done \cup {new}
      BY <2>2, <2>4
    <3>4. ASSUME NEW t \in Slots, NEW e \in job'[t].done
          PROVE  /\ \A f \in book' : ~ SameRef(e, f)
                 /\ \A f \in job'[t].done : SameRef(e, f) => e = f
                 /\ \A u \in Slots \ {t} : \A f \in job'[u].done : ~ SameRef(e, f)
      <4>1. \A f \in book' : ~ SameRef(e, f)
        BY <1>1, <2>7, <3>2, <3>3 DEF IInv, RefsApart
      <4>2. \A f \in job'[t].done : SameRef(e, f) => e = f
        BY <2>7, <3>2, <3>3 DEF IInv, RefsApart
      <4>3. \A u \in Slots \ {t} : \A f \in job'[u].done : ~ SameRef(e, f)
        BY <2>8, <3>2, <3>3 DEF IInv, RefsApart
      <4> QED BY <4>1, <4>2, <4>3
    <3> QED BY <3>1, <3>4 DEF RefsApart, SameRef
  <2>10. \A e \in book' : WellNamed(e.draft)
    BY <1>1 DEF IInv
  <2> QED BY <2>4, <2>6, <2>9, <2>10 DEF IInv, Shape, WellNamed, IsCharge, Ref
<1> QED BY <1>2, <1>3

(* A commit: what was apart from the book comes into it.                   *)
LEMMA CommitStep == ASSUME IInv, NEW s \in Slots, Commit(s) PROVE IInv'
<1>1. CASE book' = book
  BY <1>1, EndStep DEF Commit
<1>2. CASE book' = book \cup job[s].done
  <2>1. Shape' /\ Moved(s) /\ pc'[s] = "idle" /\ job'[s] = NoJob
    BY SlotMoves DEF Commit, End, Steps
  <2>2. \A t \in Slots : Working(t)'
    BY <2>1, NoJobWorks, WorkingKept DEF IInv, Moved
  <2>3. \A e \in book' : WellNamed(e.draft)
    BY <1>2 DEF IInv, Working, Makes
  <2>4. RefsApart'
    <3>1. \A e, f \in book' : SameRef(e, f) => e = f
      <4>1. \A e, f : SameRef(e, f) => SameRef(f, e)
        BY DEF SameRef
      <4> QED BY <1>2, <4>1 DEF IInv, RefsApart
    <3>2. job'[s].done = {} /\ \A t \in Slots \ {s} : job'[t].done = job[t].done
      BY <2>1 DEF NoJob, Moved
    <3>3. ASSUME NEW t \in Slots, NEW e \in job'[t].done
          PROVE  /\ \A f \in book' : ~ SameRef(e, f)
                 /\ \A f \in job'[t].done : SameRef(e, f) => e = f
                 /\ \A u \in Slots \ {t} : \A f \in job'[u].done : ~ SameRef(e, f)
      BY <1>2, <3>2 DEF IInv, RefsApart
    <3> QED BY <3>1, <3>3 DEF RefsApart, SameRef
  <2> QED BY <2>1, <2>2, <2>3, <2>4 DEF IInv, Shape, WellNamed, IsCharge, Ref
<1> QED BY <1>1, <1>2 DEF Commit

(* A step that leaves the book and the transactions alone.                 *)
LEMMA RestStep == ASSUME IInv, UNCHANGED <<book, pc, job>> PROVE IInv'
<1>1. \A t \in Slots : Working(t)'
  BY WorkingKept DEF IInv
<1>2. RefsApart'
  BY DEF IInv, RefsApart, SameRef
<1> QED BY <1>1, <1>2 DEF IInv, WellNamed, IsCharge, Ref

-----------------------------------------------------------------------------
(* Every step preserves the invariant.                                     *)
LEMMA InductiveStep == IInv /\ [Next]_vars => IInv'
<1> SUFFICES ASSUME IInv, [Next]_vars PROVE IInv'
  OBVIOUS
<1>1. ASSUME NEW s \in Slots, Step(s) PROVE IInv'
  <2>1. CASE Writing(s)
    <3>1. ASSUME NEW d, Refuse(s, d) PROVE IInv'
      BY <3>1, EndStep DEF Refuse, tables
    <3> QED BY <2>1, <3>1, WriteStep DEF Writing
  <2>2. CASE Victim(s)
    BY <2>2, EndStep DEF Victim, tables
  <2> QED BY <1>1, <2>1, <2>2, GuardMoves, GuardStep, LockStep, PlanStep, CommitStep DEF Step
<1>2. ASSUME NEW s \in Slots, Crash(s) PROVE IInv'
  BY <1>2, EndStep DEF Crash, tables
<1>3. ASSUME NEW t \in Leaving, SetTutorActive(t) PROVE IInv'
  BY <1>3, RestStep DEF SetTutorActive
<1>4. CASE UNCHANGED vars
  BY <1>4, RestStep DEF vars
<1> QED BY <1>1, <1>2, <1>3, <1>4, RequestStep DEF Next

(* The inductive invariant holds in every state that is reached.           *)
THEOREM Inductive == Spec => []IInv
BY InitStep, InductiveStep, PTL DEF Spec

(* No item is charged twice under one period label, whatever the number of *)
(* connections, of months and of items.                                    *)
THEOREM NeverTwice == Spec => []ChargedOnce
<1>1. IInv => ChargedOnce
  <2> SUFFICES ASSUME IInv, NEW p \in Months, NEW i \in Items,
                      NEW e \in ChargesFor(book, p), NEW f \in ChargesFor(book, p),
                      Charges(e, i), Charges(f, i)
               PROVE  e = f
    BY DEF ChargedOnce
  <2>1. /\ e \in book /\ e.draft.ref.at = p /\ WellNamed(e.draft) /\ IsCharge(e.draft)
        /\ f \in book /\ f.draft.ref.at = p /\ WellNamed(f.draft) /\ IsCharge(f.draft)
    BY DEF ChargesFor, IInv, IsCharge
  <2>2. ASSUME NEW g \in {e, f}
        PROVE  \/ i \in Assets /\ g.draft.ref = Ref("DEP", p, ClassOf[i])
               \/ i \in Prepaids /\ g.draft.ref = Ref("AMORT", p, i)
    <3>1. PICK l \in g.draft.lines : l.key = i
      BY DEF Charges
    <3> QED BY <2>1, <3>1 DEF WellNamed, IsCharge
  <2>3. e.draft.ref = f.draft.ref
    BY <2>2, MonthEndAssumption
  <2>4. e.draft.ref # NoRef
    BY <2>1 DEF IsCharge, NoRef, Ref
  <2> QED BY <2>1, <2>3, <2>4 DEF IInv, RefsApart, SameRef
<1> QED BY <1>1, Inductive, PTL

-----------------------------------------------------------------------------
(* The status of a period is one of the five.                              *)
StatusTyped == status \in [Months -> Statuses]

LEMMA StatusStep == StatusTyped /\ [Next]_vars => StatusTyped'
<1> SUFFICES ASSUME StatusTyped, [Next]_vars PROVE StatusTyped'
  OBVIOUS
<1>1. \A op : Outcome(op) \in Statuses
  BY DEF Outcome, Statuses
<1>2. ASSUME NEW s \in Slots, Lock(s) \/ Commit(s) PROVE StatusTyped'
  BY <1>1, <1>2 DEF Lock, Commit, StatusTyped
<1>3. CASE UNCHANGED status
  BY <1>3 DEF StatusTyped
<1>4. CASE ~ \E s \in Slots : Lock(s) \/ Commit(s)
  <2>1. ASSUME NEW s \in Slots, Request(s) PROVE UNCHANGED status
    BY <2>1 DEF Request, StartPreClose, StartPreview, StartClose, StartReopen, StartPost,
       StartReverse, Start, tables
  <2>2. ASSUME NEW s \in Slots, Step(s) PROVE UNCHANGED status
    BY <1>4, <2>2 DEF Step, CheckStatus, Gate, GateWhen, Plan, Writing, Refuse, Write,
       WriteWhen, Victim, tables
  <2>3. UNCHANGED status
    BY <2>1, <2>2 DEF Next, Crash, SetTutorActive, vars, tables
  <2> QED BY <1>3, <2>3
<1> QED BY <1>2, <1>4

LEMMA StatusAlways == Spec => []StatusTyped
<1>1. Init => StatusTyped
  BY DEF Init, StatusTyped, Statuses
<1> QED BY <1>1, StatusStep, PTL DEF Spec

-----------------------------------------------------------------------------
(* Amounts.                                                                *)

(* A rounded quotient is a whole amount, and none below zero is made of    *)
(* none.                                                                   *)
LEMMA HalfUpType ==
    ASSUME NEW n \in Int, NEW d \in Nat \ {0}
    PROVE  HalfUp(n, d) \in Int /\ (n >= 0 => HalfUp(n, d) >= 0)
<1>1. ASSUME NEW k \in Nat PROVE (2 * k + d) \div (2 * d) \in Nat
  <2>1. 2 * k + d \in Nat /\ 2 * d \in Nat \ {0}
    OBVIOUS
  <2> QED BY <2>1
<1> QED BY <1>1 DEF HalfUp

(* A line leaves a row of the mirror.                                      *)
LEMMA RowType ==
    ASSUME NEW id \in Nat, NEW l \in Line
    PROVE  /\ Row(id, l) \in MirrorRow
           /\ Row(id, l).je = id /\ Row(id, l).key = l.key /\ Row(id, l).amount = l.amount
BY DEF Row, MirrorRow, Line

(* The rows of finitely many entries are finitely many.                    *)
LEMMA RowsFinite ==
    ASSUME NEW E \in SUBSET Entry, IsFiniteSet(E)
    PROVE  /\ ControlRows(E) \in SUBSET MirrorRow /\ IsFiniteSet(ControlRows(E))
           /\ Mirror(E) \in SUBSET MirrorRow /\ IsFiniteSet(Mirror(E))
           /\ Mirror(E) \subseteq ControlRows(E)
<1> DEFINE rowsOf == [e \in E |-> {Row(e.id, l) : l \in e.draft.lines}]
<1>1. \A e \in E : e.id \in Nat /\ e.draft.lines \in SUBSET Line /\ IsFiniteSet(e.draft.lines)
  BY DEF Entry, Draft
<1>2. ASSUME NEW e \in E PROVE IsFiniteSet(rowsOf[e]) /\ rowsOf[e] \in SUBSET MirrorRow
  <2> DEFINE row == [l \in e.draft.lines |-> Row(e.id, l)]
  <2>1. rowsOf[e] = {row[l] : l \in e.draft.lines}
    OBVIOUS
  <2>2. IsFiniteSet({row[l] : l \in e.draft.lines})
    <3> HIDE DEF row
    <3> QED BY <1>1, ImageFinite
  <2>3. IsFiniteSet(rowsOf[e])
    BY <2>1, <2>2, Zenon
  <2>4. \A l \in e.draft.lines : Row(e.id, l) \in MirrorRow
    BY <1>1, RowType
  <2> QED BY <2>3, <2>4
<1>3. ControlRows(E) = UNION {rowsOf[e] : e \in E}
  BY DEF ControlRows
<1>4. IsFiniteSet({rowsOf[e] : e \in E})
  <2> HIDE DEF rowsOf
  <2> QED BY ImageFinite
<1>5. IsFiniteSet(ControlRows(E)) /\ ControlRows(E) \in SUBSET MirrorRow
  <2> HIDE DEF rowsOf
  <2>1. \A T \in {rowsOf[e] : e \in E} : IsFiniteSet(T)
    BY <1>2
  <2> QED BY <1>2, <1>3, <1>4, <2>1, FS_UNION
<1>6. Mirror(E) \subseteq ControlRows(E)
  BY DEF Mirror, ControlRows, RowsOf
<1> QED BY <1>5, <1>6, FS_Subset

AmountAt == [r \in MirrorRow |-> r.amount]
OriginalAt == [r \in MirrorRow |-> r.original]

(* The balance of a key is the sum of the amounts of its rows.             *)
LEMMA Amounts ==
    ASSUME NEW R \in SUBSET MirrorRow, IsFiniteSet(R), NEW k
    PROVE  /\ Amount(R, k) = SumFunctionOnSet(AmountAt, {r \in R : r.key = k})
           /\ Original(R, k) = SumFunctionOnSet(OriginalAt, {r \in R : r.key = k})
           /\ Amount(R, k) \in Int /\ Original(R, k) \in Int
<1> DEFINE S == {r \in R : r.key = k}
<1>1. IsFiniteSet(S)
  BY FS_Subset
<1>2. /\ \A r \in S : AmountAt[r] = r.amount /\ r.amount \in Int
      /\ \A r \in S : OriginalAt[r] = r.original /\ r.original \in Int
  BY DEF AmountAt, OriginalAt, MirrorRow
<1>3. Amount(R, k) = MapThenSumSet(LAMBDA r : r.amount, S)
  BY DEF Amount
<1>4. Original(R, k) = MapThenSumSet(LAMBDA r : r.original, S)
  BY DEF Original
<1> HIDE DEF S
<1>5. Amount(R, k) = SumFunctionOnSet(AmountAt, S) /\ Amount(R, k) \in Int
  BY <1>1, <1>2, <1>3, AmountSum, SumInt
<1>6. Original(R, k) = SumFunctionOnSet(OriginalAt, S) /\ Original(R, k) \in Int
  BY <1>1, <1>2, <1>4, OriginalSum, SumInt
<1> QED BY <1>5, <1>6 DEF S

-----------------------------------------------------------------------------
(* Types.                                                                  *)

(* A charge and a revaluation are whole amounts.                           *)
LEMMA DueType ==
    ASSUME NEW R \in SUBSET MirrorRow, IsFiniteSet(R), NEW i \in Items
    PROVE  /\ Left(R, i) \in Int /\ Due(R, i) \in Int /\ ChargeLine(R, i) \in Line
           /\ HalfUp(Cost[i], Life[i]) \in Nat
           /\ Due(R, i) <= HalfUp(Cost[i], Life[i]) /\ Due(R, i) <= Left(R, i)
           /\ Left(R, i) > 0 => Due(R, i) >= 0
           /\ Left(R, i) > 0 /\ HalfUp(Cost[i], Life[i]) > 0 => Due(R, i) > 0
<1>1. Cost[i] \in Nat /\ Life[i] \in Nat \ {0}
  BY MonthEndAssumption
<1>2. HalfUp(Cost[i], Life[i]) \in Nat
  BY <1>1, HalfUpType
<1>3. Left(R, i) \in Int
  <2>1. Amount(R, i) \in Int
    BY Amounts
  <2> QED BY <1>1, <2>1 DEF Left
<1>4. /\ Due(R, i) \in Int
      /\ Due(R, i) <= HalfUp(Cost[i], Life[i]) /\ Due(R, i) <= Left(R, i)
      /\ Left(R, i) > 0 => Due(R, i) >= 0
      /\ Left(R, i) > 0 /\ HalfUp(Cost[i], Life[i]) > 0 => Due(R, i) > 0
  BY <1>2, <1>3 DEF Due
<1>5. ChargeLine(R, i) \in Line
  BY <1>4 DEF ChargeLine, SubLine, Line, Keys
<1> QED BY <1>2, <1>3, <1>4, <1>5

LEMMA RevaluationType ==
    ASSUME NEW R \in SUBSET MirrorRow, IsFiniteSet(R), NEW t \in Tutors, NEW rate \in Nat
    PROVE  RevaluationLine(R, t, rate) \in Line
<1>1. Amount(R, t) \in Int /\ Original(R, t) \in Int
  BY Amounts
<1>2. Original(R, t) * rate \in Int /\ RateUnit \in Nat \ {0}
  BY <1>1 DEF RateUnit
<1>3. Revalued(R, t, rate) \in Int
  BY <1>2, HalfUpType DEF Revalued
<1> QED BY <1>1, <1>3 DEF RevaluationLine, Delta, SubLine, Line, Keys

(* What an agent plans is a set of drafts.                                 *)
LEMMA PlannedType ==
    ASSUME NEW R \in SUBSET MirrorRow, IsFiniteSet(R), NEW j,
           j.period \in Months, j.on \in Months, j.rate \in Nat
    PROVE  Planned(R, j) \subseteq Draft
<1>1. \A kind \in {"FX-REVAL", "DEP", "AMORT"} : \A at \in Months : \A k \in Keys \cup Classes :
         Ref(kind, at, k) \in Refs
  BY DEF Ref, Refs
<1>2. ASSUME NEW ref \in Refs, NEW lines \in SUBSET Line, IsFiniteSet(lines)
      PROVE  AgentDraft(ref, j.on, lines) \in Draft
  BY <1>2 DEF AgentDraft, Draft, NoEntry
<1>3. \A t \in Tutors : RevaluationLine(R, t, j.rate) \in Line
  BY RevaluationType
<1>4. Revaluation(R, j.on, j.rate) \subseteq Draft
  <2> SUFFICES ASSUME NEW t \in Tutors
               PROVE  AgentDraft(Ref("FX-REVAL", j.on, t), j.on,
                                 {RevaluationLine(R, t, j.rate)}) \in Draft
    BY DEF Revaluation, OpenPositions
  <2>1. {RevaluationLine(R, t, j.rate)} \in SUBSET Line
        /\ IsFiniteSet({RevaluationLine(R, t, j.rate)})
    BY <1>3, FS_Singleton
  <2> QED BY <1>1, <1>2, <2>1 DEF Keys
<1>5. Depreciation(R, j.period, j.on) \subseteq Draft
  <2> SUFFICES ASSUME NEW c \in Classes
               PROVE  AgentDraft(Ref("DEP", j.period, c), j.on,
                         {ChargeLine(R, i) : i \in InService(R, {a \in Assets : ClassOf[a] = c})})
                        \in Draft
    BY DEF Depreciation
  <2> DEFINE A == InService(R, {a \in Assets : ClassOf[a] = c})
             line == [i \in A |-> ChargeLine(R, i)]
  <2>1. A \subseteq Items /\ IsFiniteSet(A)
    BY MonthEndAssumption, FS_Subset DEF InService, Items
  <2>2. {ChargeLine(R, i) : i \in A} = {line[i] : i \in A}
    OBVIOUS
  <2>3. IsFiniteSet({line[i] : i \in A})
    <3> HIDE DEF line
    <3> QED BY <2>1, ImageFinite
  <2>4. {ChargeLine(R, i) : i \in A} \in SUBSET Line
    BY <2>1, DueType
  <2> HIDE DEF A, line
  <2>5. IsFiniteSet({ChargeLine(R, i) : i \in A})
    BY <2>2, <2>3
  <2> QED BY <1>1, <1>2, <2>4, <2>5 DEF A
<1>6. Amortization(R, j.period, j.on) \subseteq Draft
  <2> SUFFICES ASSUME NEW i \in Prepaids
               PROVE  AgentDraft(Ref("AMORT", j.period, i), j.on, {ChargeLine(R, i)}) \in Draft
    BY DEF Amortization, InService
  <2>1. {ChargeLine(R, i)} \in SUBSET Line /\ IsFiniteSet({ChargeLine(R, i)})
    BY DueType, FS_Singleton DEF Items
  <2> QED BY <1>1, <1>2, <2>1 DEF Keys, Items
<1> QED BY <1>4, <1>5, <1>6 DEF Planned

(* reverse_journal takes back every line.                                  *)
LEMMA ReversalType ==
    ASSUME NEW e \in Entry, NEW on \in Months
    PROVE  Reversal(e, on) \in Draft
<1> DEFINE lines == e.draft.lines
           back == [l \in lines |-> TakeBack(l)]
<1>1. lines \in SUBSET Line /\ IsFiniteSet(lines) /\ e.id \in Nat
  BY DEF Entry, Draft
<1>2. {TakeBack(l) : l \in lines} = {back[l] : l \in lines}
  OBVIOUS
<1>3. IsFiniteSet({back[l] : l \in lines})
  <2> HIDE DEF back
  <2> QED BY <1>1, ImageFinite
<1>4. {TakeBack(l) : l \in lines} \in SUBSET Line
  BY <1>1 DEF TakeBack, Line
<1>5. Ref("reversal", e.id, NoKey) \in Refs
  BY <1>1 DEF Ref, Refs
<1> HIDE DEF back
<1> QED BY <1>1, <1>2, <1>3, <1>4, <1>5 DEF Reversal, Draft

(* The mirror holds what the book makes it hold.                           *)
Mirrors == rows = Mirror(book)

TypeInv == BookTyped /\ Mirrors

LEMMA MirrorUnion ==
    ASSUME NEW D, NEW E PROVE Mirror(D \cup E) = Mirror(D) \cup Mirror(E)
BY DEF Mirror

LEMMA RowsType == ASSUME TypeInv PROVE rows \in SUBSET MirrorRow /\ IsFiniteSet(rows)
BY RowsFinite DEF TypeInv, BookTyped, Mirrors

(* A step of a slot that keeps the book, from the types of what it leaves. *)
LEMMA SlotTyped ==
    ASSUME TypeInv, NEW s \in Slots, NEW x \in Steps, NEW j \in Job,
           pc' = [pc EXCEPT ![s] = x], job' = [job EXCEPT ![s] = j],
           IsFiniteSet(j.done), x # "idle" => j.period \in Months /\ j.on \in Months,
           status' \in [Months -> Statuses], UNCHANGED <<book, rows, active>>,
           nextId' \in Nat \ {NoEntry}
    PROVE  TypeInv'
<1>1. pc' \in [Slots -> Steps] /\ job' \in [Slots -> Job]
  BY DEF TypeInv, BookTyped
<1>2. ASSUME NEW t \in Slots
      PROVE  /\ IsFiniteSet(job'[t].done)
             /\ pc'[t] # "idle" => job'[t].period \in Months /\ job'[t].on \in Months
  BY DEF TypeInv, BookTyped
<1> QED BY <1>1, <1>2 DEF TypeInv, BookTyped, Mirrors, Mirror, RowsOf, MirrorRow, Mirrored,
     FixedAssetTakes, PrepaidTakes, IntangibleTakes, Row

LEMMA NoJobType == NoJob \in Job /\ IsFiniteSet(NoJob.done)
BY FS_EmptySet DEF NoJob, Job, Ops, Agents

LEMMA EndTyped ==
    ASSUME TypeInv, NEW s \in Slots, End(s), status' \in [Months -> Statuses],
           UNCHANGED <<book, rows, active>>, nextId' \in Nat \ {NoEntry}
    PROVE  TypeInv'
<1>1. "idle" \in Steps
  BY DEF Steps
<1> QED BY <1>1, NoJobType, SlotTyped DEF End

LEMMA StartTyped ==
    ASSUME TypeInv, NEW s \in Slots, NEW op \in Ops, NEW p \in Months, NEW on \in Months,
           NEW rate \in Nat, NEW agent \in Agents, NEW todo \in SUBSET Draft,
           NEW first \in Steps, Start(s, op, p, on, rate, agent, todo, first)
    PROVE  TypeInv'
<1> DEFINE j == [op |-> op, period |-> p, on |-> on, rate |-> rate,
                 agent |-> agent, todo |-> todo, done |-> {}]
<1>1. j \in Job /\ IsFiniteSet(j.done) /\ j.period \in Months /\ j.on \in Months
  BY FS_EmptySet DEF Job
<1>2. /\ pc' = [pc EXCEPT ![s] = first] /\ job' = [job EXCEPT ![s] = j]
      /\ UNCHANGED <<status, book, rows, active, nextId>>
  BY DEF Start, Goto, tables
<1>3. status' \in [Months -> Statuses] /\ nextId' \in Nat \ {NoEntry}
  BY <1>2 DEF TypeInv, BookTyped
<1> HIDE DEF j
<1> QED BY <1>1, <1>2, <1>3, SlotTyped

LEMMA RequestTyped == ASSUME TypeInv, NEW s \in Slots, Request(s) PROVE TypeInv'
<1>1. /\ {"status", "plan", "write"} \subseteq Steps /\ {} \in SUBSET Draft /\ 0 \in Nat
      /\ {"preclose", "preview", "post", "close", "reopen"} \subseteq Ops
      /\ {"fx", "none"} \subseteq Agents /\ Dates \subseteq Months /\ Rates \subseteq Nat
  BY MonthEndAssumption DEF Steps, Ops, Agents
<1>2. ASSUME NEW p \in Months, NEW on \in Dates, NEW rate \in Rates,
             StartPreClose(s, p, on, rate) \/ StartPreview(s, p, on, rate)
      PROVE  TypeInv'
  BY <1>1, <1>2, StartTyped DEF StartPreClose, StartPreview
<1>3. ASSUME NEW p \in Months, StartClose(s, p) \/ StartReopen(s, p) PROVE TypeInv'
  BY <1>1, <1>3, StartTyped DEF StartClose, StartReopen
<1>4. ASSUME NEW d \in Others, StartPost(s, d) PROVE TypeInv'
  <2>1. {d} \in SUBSET Draft /\ d.on \in Months
    BY DraftsAssumption DEF Draft
  <2> QED BY <1>1, <1>4, <2>1, StartTyped DEF StartPost
<1>5. ASSUME NEW e \in book, NEW on \in Dates, StartReverse(s, e, on) PROVE TypeInv'
  <2>1. {Reversal(e, on)} \in SUBSET Draft
    BY <1>1, ReversalType DEF TypeInv, BookTyped
  <2> QED BY <1>1, <1>5, <2>1, StartTyped DEF StartReverse
<1> QED BY <1>2, <1>3, <1>4, <1>5 DEF Request

(* A step that only moves on.                                              *)
LEMMA GotoTyped ==
    ASSUME TypeInv, NEW s \in Slots, NEW x \in Steps, pc[s] # "idle",
           pc' = [pc EXCEPT ![s] = x],
           UNCHANGED <<status, book, rows, active, nextId, job>>
    PROVE  TypeInv'
<1>1. /\ job[s] \in Job /\ IsFiniteSet(job[s].done)
      /\ job[s].period \in Months /\ job[s].on \in Months
      /\ job' = [job EXCEPT ![s] = job[s]]
      /\ status' \in [Months -> Statuses] /\ nextId' \in Nat \ {NoEntry}
  BY DEF TypeInv, BookTyped
<1> QED BY <1>1, SlotTyped

LEMMA OutcomeType == \A op : Outcome(op) \in Statuses
BY DEF Outcome, Statuses

LEMMA GuardTyped == ASSUME TypeInv, NEW s \in Slots, Guards(s) PROVE TypeInv'
<1>1. /\ pc[s] # "idle" /\ UNCHANGED <<status, book, rows, active, nextId>>
      /\ status' \in [Months -> Statuses] /\ nextId' \in Nat \ {NoEntry}
  BY StepsAre DEF Guards, tables, TypeInv, BookTyped
<1>2. CASE End(s)
  BY <1>1, <1>2, EndTyped
<1>3. CASE ~ End(s)
  BY <1>1, <1>3, StepsAre, GotoTyped DEF Guards
<1> QED BY <1>2, <1>3

LEMMA LockTyped == ASSUME TypeInv, NEW s \in Slots, Lock(s) PROVE TypeInv'
<1>1. /\ pc[s] # "idle" /\ UNCHANGED <<book, rows, active, nextId>>
      /\ status' \in [Months -> Statuses] /\ nextId' \in Nat \ {NoEntry}
  BY OutcomeType DEF Lock, TypeInv, BookTyped
<1>2. CASE End(s)
  BY <1>1, <1>2, EndTyped
<1>3. CASE ~ End(s)
  <2>1. UNCHANGED <<status, job>> /\ pc' = [pc EXCEPT ![s] = "plan"]
    BY <1>3 DEF Lock, Goto
  <2> QED BY <1>1, <2>1, StepsAre, GotoTyped
<1> QED BY <1>2, <1>3

LEMMA PlanTyped == ASSUME TypeInv, NEW s \in Slots, Plan(s) PROVE TypeInv'
<1> DEFINE old == job[s]
           todo == Planned(rows, old)
           x == After(Following(old.agent), todo)
           j == [op |-> old.op, period |-> old.period, on |-> old.on, rate |-> old.rate,
                 agent |-> Following(old.agent), todo |-> todo, done |-> old.done]
<1>1. /\ pc[s] = "plan" /\ pc' = [pc EXCEPT ![s] = x] /\ job' = [job EXCEPT ![s] = j]
      /\ UNCHANGED <<status, book, rows, active, nextId>>
  BY DEF Plan, Goto, tables
<1>2. /\ old \in Job /\ IsFiniteSet(old.done) /\ old.period \in Months /\ old.on \in Months
      /\ status' \in [Months -> Statuses] /\ nextId' \in Nat \ {NoEntry}
  BY <1>1 DEF TypeInv, BookTyped
<1>3. todo \subseteq Draft
  <2>1. old.rate \in Nat
    BY <1>2 DEF Job
  <2> QED BY <1>2, <2>1, RowsType, PlannedType
<1>4. x \in Steps /\ Following(old.agent) \in Agents
  BY DEF After, Following, Steps, Agents
<1> HIDE DEF todo, x
<1>5. j \in Job /\ IsFiniteSet(j.done) /\ j.period \in Months /\ j.on \in Months
  BY <1>2, <1>3, <1>4 DEF Job
<1> HIDE DEF j, old
<1> QED BY <1>1, <1>2, <1>4, <1>5, SlotTyped

LEMMA WriteTyped == ASSUME TypeInv, NEW s \in Slots, NEW d, Write(s, d) PROVE TypeInv'
<1>1. /\ pc[s] = "write" /\ d \in job[s].todo /\ UNCHANGED <<status, book, rows, active>>
      /\ nextId' = nextId + 1
  BY DEF Write, WriteWhen, tables
<1>2. /\ job[s] \in Job /\ IsFiniteSet(job[s].done)
      /\ job[s].period \in Months /\ job[s].on \in Months /\ nextId \in Nat \ {NoEntry}
      /\ status' \in [Months -> Statuses] /\ nextId' \in Nat \ {NoEntry}
  BY <1>1 DEF TypeInv, BookTyped, NoEntry
<1>3. CASE End(s)
  BY <1>1, <1>2, <1>3, EndTyped
<1>4. CASE ~ End(s)
  <2> DEFINE old == job[s]
             x == After(old.agent, old.todo \ {d})
             done == old.done \cup {EntryOf(nextId, d)}
             j == [op |-> old.op, period |-> old.period, on |-> old.on, rate |-> old.rate,
                   agent |-> old.agent, todo |-> old.todo \ {d}, done |-> done]
  <2>1. pc' = [pc EXCEPT ![s] = x] /\ job' = [job EXCEPT ![s] = j]
    BY <1>4 DEF Write, WriteWhen, Goto
  <2>2. x \in Steps
    BY DEF After, Steps
  <2>3. done \in SUBSET Entry
    BY <1>1, <1>2 DEF Job, EntryOf, Entry
  <2>4. IsFiniteSet(done)
    BY <1>2, FS_AddElement
  <2> HIDE DEF done, x
  <2>5. j \in Job /\ j.done = done /\ j.period \in Months /\ j.on \in Months
    BY <1>2, <2>3 DEF Job
  <2> HIDE DEF j, old
  <2> QED BY <1>1, <1>2, <2>1, <2>2, <2>4, <2>5, SlotTyped
<1> QED BY <1>3, <1>4

LEMMA CommitTyped == ASSUME TypeInv, NEW s \in Slots, Commit(s) PROVE TypeInv'
<1>1. /\ status' \in [Months -> Statuses] /\ UNCHANGED <<active, nextId>> /\ End(s)
  BY OutcomeType DEF Commit, TypeInv, BookTyped
<1>2. CASE UNCHANGED <<book, rows>>
  <2>1. nextId' \in Nat \ {NoEntry}
    BY <1>1 DEF TypeInv, BookTyped
  <2> QED BY <1>1, <1>2, <2>1, EndTyped
<1>3. CASE book' = book \cup job[s].done /\ rows' = rows \cup Mirror(job[s].done)
  <2>1. /\ book \subseteq Entry /\ IsFiniteSet(book)
        /\ job[s].done \subseteq Entry /\ IsFiniteSet(job[s].done)
    BY DEF TypeInv, BookTyped, Job
  <2>2. book' \subseteq Entry /\ IsFiniteSet(book')
    BY <1>3, <2>1, FS_Union
  <2>3. rows' = Mirror(book')
    BY <1>3, MirrorUnion DEF TypeInv, Mirrors
  <2>4. rows' \subseteq MirrorRow
    BY <2>2, <2>3, RowsFinite
  <2>5. pc' \in [Slots -> Steps] /\ job' \in [Slots -> Job]
    BY <1>1, NoJobType DEF TypeInv, BookTyped, End, Steps
  <2>6. \A t \in Slots :
           /\ IsFiniteSet(job'[t].done)
           /\ pc'[t] # "idle" => job'[t].period \in Months /\ job'[t].on \in Months
    BY <1>1, NoJobType DEF TypeInv, BookTyped, End
  <2>7. active' \subseteq Tutors /\ nextId' \in Nat \ {NoEntry}
    BY <1>1 DEF TypeInv, BookTyped
  <2>8. BookTyped'
    BY <1>1, <2>2, <2>4, <2>5, <2>6, <2>7 DEF BookTyped
  <2> QED BY <2>3, <2>8 DEF TypeInv, Mirrors, Mirror, RowsOf, Mirrored, FixedAssetTakes,
       PrepaidTakes, IntangibleTakes, Row
<1> QED BY <1>2, <1>3 DEF Commit

(* A step that leaves everything but the tutors' flags.                    *)
LEMMA RestTyped ==
    ASSUME TypeInv, UNCHANGED <<status, book, rows, nextId, pc, job>>, active' \subseteq Tutors
    PROVE  TypeInv'
BY DEF TypeInv, BookTyped, Mirrors, Mirror, RowsOf, Mirrored, FixedAssetTakes, PrepaidTakes,
   IntangibleTakes, Row

LEMMA TypeStep == TypeInv /\ [Next]_vars => TypeInv'
<1> SUFFICES ASSUME TypeInv, [Next]_vars PROVE TypeInv'
  OBVIOUS
<1>0. /\ status \in [Months -> Statuses] /\ nextId \in Nat \ {NoEntry}
      /\ active \subseteq Tutors
  BY DEF TypeInv, BookTyped
<1>1. ASSUME NEW s \in Slots, Step(s) PROVE TypeInv'
  <2>1. CASE Writing(s)
    <3>1. ASSUME NEW d, Refuse(s, d) PROVE TypeInv'
      BY <1>0, <3>1, EndTyped DEF Refuse, tables
    <3> QED BY <2>1, <3>1, WriteTyped DEF Writing
  <2>2. CASE Victim(s)
    BY <1>0, <2>2, EndTyped DEF Victim, tables
  <2> QED BY <1>1, <2>1, <2>2, GuardMoves, GuardTyped, LockTyped, PlanTyped, CommitTyped DEF Step
<1>2. ASSUME NEW s \in Slots, Crash(s) PROVE TypeInv'
  BY <1>0, <1>2, EndTyped DEF Crash, tables
<1>3. ASSUME NEW t \in Leaving, SetTutorActive(t) PROVE TypeInv'
  <2>1. active' \subseteq Tutors
    BY <1>0, <1>3, MonthEndAssumption DEF SetTutorActive
  <2> QED BY <1>3, <2>1, RestTyped DEF SetTutorActive
<1>4. CASE UNCHANGED vars
  BY <1>0, <1>4, RestTyped DEF vars
<1> QED BY <1>1, <1>2, <1>3, <1>4, RequestTyped DEF Next

LEMMA TypeInit == Init => TypeInv
<1> SUFFICES ASSUME Init PROVE TypeInv
  OBVIOUS
<1>1. book \subseteq Entry /\ IsFiniteSet(book) /\ rows = Mirror(book)
  BY OpeningAssumption DEF Init
<1>2. rows \subseteq MirrorRow
  BY <1>1, RowsFinite
<1>3. nextId \in Nat \ {NoEntry}
  BY OpeningAssumption, FS_CardinalityType DEF Init, NoEntry
<1>4. /\ status \in [Months -> Statuses] /\ pc \in [Slots -> Steps] /\ active \subseteq Tutors
  BY DEF Init, Statuses, Steps
<1>5. job \in [Slots -> Job] /\ \A s \in Slots : IsFiniteSet(job[s].done) /\ pc[s] = "idle"
  BY NoJobType DEF Init
<1> QED BY <1>1, <1>2, <1>3, <1>4, <1>5 DEF TypeInv, BookTyped, Mirrors

LEMMA TypeAlways == Spec => []TypeInv
BY TypeInit, TypeStep, PTL DEF Spec

-----------------------------------------------------------------------------
(* What the gate reads.                                                    *)

(* The sum of a group's rows.                                              *)
LEMMA GroupSums ==
    ASSUME NEW Q \in SUBSET MirrorRow, IsFiniteSet(Q), NEW group
    PROVE  LET S == {r \in Q : r.key \in group}
           IN  /\ S \in SUBSET MirrorRow /\ IsFiniteSet(S)
               /\ GroupSum(Q, group) = SumFunctionOnSet(AmountAt, S)
               /\ GroupSum(Q, group) \in Int
<1> DEFINE S == {r \in Q : r.key \in group}
<1>1. S \in SUBSET MirrorRow /\ IsFiniteSet(S)
  BY FS_Subset
<1>2. \A r \in S : AmountAt[r] = r.amount /\ AmountAt[r] \in Int
  BY <1>1 DEF AmountAt, MirrorRow
<1>3. GroupSum(Q, group) = MapThenSumSet(LAMBDA r : r.amount, S)
  BY DEF GroupSum
<1> HIDE DEF S
<1>4. GroupSum(Q, group) = SumFunctionOnSet(AmountAt, S) /\ GroupSum(Q, group) \in Int
  BY <1>1, <1>2, <1>3, AmountSum, SumInt
<1> QED BY <1>1, <1>4 DEF S

LEMMA TotalCostType ==
    ASSUME NEW items \in SUBSET Items PROVE TotalCost(items) \in Int
<1>1. IsFiniteSet(items)
  BY MonthEndAssumption, FS_Subset
<1>2. \A i \in items : Cost[i] \in Int
  BY MonthEndAssumption
<1> QED BY <1>1, <1>2, SumInt DEF TotalCost

LEMMA ReadType ==
    ASSUME TypeInv, NEW r \in Reads PROVE ReadAt(r) \in Int
<1>1. \A group : Booked(group) \in Int /\ Kept(group) \in Int
  <2>1. ControlRows(book) \in SUBSET MirrorRow /\ IsFiniteSet(ControlRows(book))
    BY RowsFinite DEF TypeInv, BookTyped
  <2> QED BY <2>1, RowsType, GroupSums DEF Booked, Kept
<1>2. TotalCost(Assets) \in Int /\ TotalCost(Prepaids) \in Int
  BY TotalCostType DEF Items
<1> QED BY <1>1, <1>2, ReadsAre DEF ReadAt

(* Who compares starts again from nothing.                                 *)
Between == {"payableRows", "assetBook", "assetRows", "prepaidRows", "intangibleRows"}
SeenInv ==
    /\ seen \in [Slots -> Int]
    /\ \A s \in Slots : pc[s] \notin Between => seen[s] = 0

LEMMA SeenStep == IInv /\ TypeInv /\ SeenInv /\ [Next]_vars => SeenInv'
<1> SUFFICES ASSUME IInv, TypeInv, SeenInv, [Next]_vars PROVE SeenInv'
  OBVIOUS
<1>0. pc \in [Slots -> Steps]
  BY DEF IInv
<1>1. ASSUME NEW s \in Slots, End(s) PROVE SeenInv'
  BY <1>0, <1>1 DEF End, SeenInv
<1>2. ASSUME NEW s \in Slots, NEW x, x \notin Between, pc' = [pc EXCEPT ![s] = x],
             pc[s] \notin Between, seen' = seen
      PROVE  SeenInv'
  BY <1>0, <1>2 DEF SeenInv
<1>3. {"idle", "status", "payableBook", "lock", "plan", "write", "commit"} \cap Between = {}
  BY DEF Between
<1>4. ASSUME NEW s \in Slots, Request(s) PROVE SeenInv'
  BY <1>2, <1>3, <1>4 DEF Request, StartPreClose, StartPreview, StartClose, StartReopen,
     StartPost, StartReverse, Start, Goto
<1>5. ASSUME NEW s \in Slots, Gate(s) PROVE SeenInv'
  <2>1. CASE End(s)
    BY <1>1, <2>1
  <2>2. CASE ~ End(s)
    <3> DEFINE difference == seen[s] + ReadAt(pc[s])
    <3>1. /\ pc[s] \in Reads /\ pc' = [pc EXCEPT ![s] = NextRead[pc[s]]]
          /\ seen' = [seen EXCEPT ![s] = difference]
          /\ pc[s] \in Compares => difference = 0
      BY <1>5, <2>2 DEF Gate, GateWhen
    <3>2. difference \in Int
      BY <3>1, ReadType DEF SeenInv
    <3> HIDE DEF difference
    <3>3. NextRead[pc[s]] \notin Between => pc[s] \in Compares
      BY <3>1, ReadsAre DEF Between, Compares
    <3> QED BY <1>0, <3>1, <3>2, <3>3 DEF SeenInv
  <2> QED BY <2>1, <2>2
<1>6. ASSUME NEW s \in Slots, CheckStatus(s) \/ Lock(s) \/ Plan(s) PROVE SeenInv'
  <2>1. CASE End(s)
    BY <1>1, <2>1
  <2>2. CASE ~ End(s)
    BY <1>2, <1>3, <1>6, <2>2 DEF CheckStatus, Lock, Plan, Goto, After
  <2> QED BY <2>1, <2>2
<1>7. ASSUME NEW s \in Slots, Writing(s) PROVE SeenInv'
  <2>1. CASE End(s)
    BY <1>1, <2>1
  <2>2. CASE ~ End(s)
    BY <1>2, <1>3, <1>7, <2>2 DEF Writing, Refuse, Write, WriteWhen, Goto, After
  <2> QED BY <2>1, <2>2
<1>8. ASSUME NEW s \in Slots, Victim(s) \/ Commit(s) \/ Crash(s) PROVE SeenInv'
  BY <1>1, <1>8 DEF Victim, Commit, Crash
<1>9. CASE UNCHANGED <<pc, seen>>
  BY <1>9 DEF SeenInv
<1> QED BY <1>4, <1>5, <1>6, <1>7, <1>8, <1>9 DEF Next, Step, SetTutorActive, vars

LEMMA SeenAlways == Spec => []SeenInv
<1>1. Init => SeenInv
  BY DEF Init, SeenInv
<1> QED BY <1>1, SeenStep, Inductive, TypeAlways, PTL DEF Spec

(* The tables, the requests and what they have in hand keep their types:   *)
(* every amount that is posted is a whole number, and the book and what a  *)
(* transaction holds stay finite.                                          *)
THEOREM Typed == Spec => []TypeOK
<1>1. TypeInv /\ SeenInv => TypeOK
  BY DEF TypeInv, SeenInv, TypeOK
<1> QED BY <1>1, TypeAlways, SeenAlways, PTL

-----------------------------------------------------------------------------
(* The steps, by what they do to a transaction.                            *)

NoMoreClosing == \A p \in Months : status'[p] = "IN_CLOSING" => status[p] = "IN_CLOSING"

(* It ends, or goes on to a check or to its first plan.                    *)
Quiet(s) ==
    /\ UNCHANGED <<book, rows>> /\ nextId' \in {nextId, nextId + 1} /\ NoMoreClosing
    /\ \/ pc'[s] = "idle" /\ job'[s] = NoJob
       \/ pc'[s] \in Reads \cup {"lock", "plan"} /\ ~ Running(s) /\ job'[s] = job[s]

(* It begins.                                                              *)
Takes(s) ==
    LET j == job'[s]
    IN  /\ UNCHANGED <<status, book, rows, nextId>> /\ j.done = {}
        /\ \/ pc'[s] = "status" /\ j.todo = {} /\ (j.op = "preclose" => j.agent = "fx")
           \/ pc'[s] = "plan" /\ j.todo = {} /\ j.op = "preview" /\ j.agent = "fx"
           \/ /\ pc'[s] = "write" /\ j.op = "post" /\ j.agent = "none"
              /\ \E d : /\ j.todo = {d}
                        /\ d \in Others \/ \E e \in book, on \in Months : d = Reversal(e, on)

SameRequest(s) ==
    /\ job'[s].op = job[s].op /\ job'[s].period = job[s].period
    /\ UNCHANGED <<status, book, rows>>

(* An agent plans.                                                         *)
Plans(s) ==
    /\ SameRequest(s) /\ nextId' = nextId
    /\ pc[s] = "plan" /\ pc'[s] = After(job'[s].agent, job'[s].todo)
    /\ job'[s].agent = Following(job[s].agent)
    /\ job'[s].todo = Planned(rows, job[s]) /\ job'[s].done = job[s].done

(* A draft becomes an entry.                                               *)
Writes(s) ==
    \E d \in job[s].todo :
        /\ SameRequest(s) /\ nextId' = nextId + 1
        /\ pc[s] = "write" /\ pc'[s] = After(job'[s].agent, job'[s].todo)
        /\ job'[s].agent = job[s].agent
        /\ job'[s].todo = job[s].todo \ {d}
        /\ job'[s].done = job[s].done \cup {EntryOf(nextId, d)}

(* The entries come into the book.                                         *)
Publishes(s) ==
    /\ pc[s] = "commit" /\ job[s].op # "preview" /\ nextId' = nextId
    /\ book' = book \cup job[s].done /\ rows' = rows \cup Mirror(job[s].done)
    /\ \A p \in Months : status'[p] = "IN_CLOSING" =>
          status[p] = "IN_CLOSING" \/ (job[s].op = "preclose" /\ job[s].period = p)
    /\ pc'[s] = "idle" /\ job'[s] = NoJob

Idles == UNCHANGED <<status, book, rows, nextId, pc, job>>

Kind(s) == Quiet(s) \/ Takes(s) \/ Plans(s) \/ Writes(s) \/ Publishes(s)

LEMMA EndKind ==
    ASSUME IInv, NEW s \in Slots, End(s), UNCHANGED <<book, rows>>,
           nextId' \in {nextId, nextId + 1}, NoMoreClosing
    PROVE  Moved(s) /\ Kind(s)
<1>1. Moved(s) /\ pc'[s] = "idle" /\ job'[s] = NoJob
  BY SlotMoves DEF End, Steps
<1> QED BY <1>1 DEF Kind, Quiet

LEMMA RequestKind == ASSUME IInv, NEW s \in Slots, Request(s) PROVE Moved(s) /\ Kind(s)
<1>1. ASSUME NEW op, NEW p, NEW on, NEW rate, NEW agent, NEW todo, NEW first \in Steps,
             Start(s, op, p, on, rate, agent, todo, first)
      PROVE  /\ Moved(s) /\ pc'[s] = first
             /\ job'[s].op = op /\ job'[s].agent = agent /\ job'[s].todo = todo
             /\ job'[s].done = {} /\ UNCHANGED <<status, book, rows, nextId>>
  <2> DEFINE j == [op |-> op, period |-> p, on |-> on, rate |-> rate,
                   agent |-> agent, todo |-> todo, done |-> {}]
  <2>1. /\ pc' = [pc EXCEPT ![s] = first] /\ job' = [job EXCEPT ![s] = j]
        /\ UNCHANGED <<status, book, rows, nextId>>
    BY <1>1 DEF Start, Goto, tables
  <2>2. j.op = op /\ j.agent = agent /\ j.todo = todo /\ j.done = {}
    OBVIOUS
  <2> HIDE DEF j
  <2>3. Moved(s) /\ pc'[s] = first /\ job'[s] = j
    BY <2>1, SlotMoves
  <2> QED BY <2>1, <2>2, <2>3
<1>2. {"status", "plan", "write"} \subseteq Steps /\ Dates \subseteq Months
  BY MonthEndAssumption DEF Steps
<1>3. ASSUME NEW p, NEW on, NEW rate, StartPreClose(s, p, on, rate) PROVE Moved(s) /\ Takes(s)
  BY <1>1, <1>2, <1>3 DEF StartPreClose, Takes
<1>4. ASSUME NEW p, NEW on, NEW rate, StartPreview(s, p, on, rate) PROVE Moved(s) /\ Takes(s)
  BY <1>1, <1>2, <1>4 DEF StartPreview, Takes
<1>5. ASSUME NEW p, StartClose(s, p) \/ StartReopen(s, p) PROVE Moved(s) /\ Takes(s)
  BY <1>1, <1>2, <1>5 DEF StartClose, StartReopen, Takes
<1>6. ASSUME NEW d \in Others, StartPost(s, d) PROVE Moved(s) /\ Takes(s)
  BY <1>1, <1>2, <1>6 DEF StartPost, Takes
<1>7. ASSUME NEW e \in book, NEW on \in Dates, StartReverse(s, e, on) PROVE Moved(s) /\ Takes(s)
  BY <1>1, <1>2, <1>7 DEF StartReverse, Takes
<1> QED BY <1>3, <1>4, <1>5, <1>6, <1>7 DEF Request, Kind

LEMMA GuardKind == ASSUME IInv, NEW s \in Slots, Guards(s) PROVE Moved(s) /\ Kind(s)
<1>1. UNCHANGED <<status, book, rows, nextId>> /\ ~ Running(s)
  BY StepsAre DEF Guards, tables, Running
<1>2. CASE End(s)
  BY <1>1, <1>2, EndKind DEF NoMoreClosing
<1>3. CASE ~ End(s)
  <2>1. PICK x \in Reads \cup {"lock"} : pc' = [pc EXCEPT ![s] = x] /\ UNCHANGED job
    BY <1>3 DEF Guards
  <2>2. Moved(s) /\ pc'[s] = x
    BY <2>1 DEF Moved, IInv
  <2> QED BY <1>1, <2>1, <2>2 DEF Kind, Quiet, NoMoreClosing
<1> QED BY <1>2, <1>3

LEMMA LockKind ==
    ASSUME IInv, TypeInv, NEW s \in Slots, Lock(s) PROVE Moved(s) /\ Kind(s)
<1>1. UNCHANGED <<book, rows, nextId>> /\ ~ Running(s)
  BY DEF Lock, Running
<1>2. CASE Goto(s, "lock", "plan") /\ UNCHANGED <<status, job>>
  <2>1. Moved(s) /\ pc'[s] = "plan"
    BY <1>2 DEF Goto, Moved, IInv
  <2> QED BY <1>1, <1>2, <2>1 DEF Kind, Quiet, NoMoreClosing
<1>3. CASE /\ job[s].op # "preclose" /\ End(s)
           /\ status' = [status EXCEPT ![job[s].period] = Outcome(job[s].op)]
  <2>1. Outcome(job[s].op) # "IN_CLOSING"
    BY <1>3 DEF Outcome
  <2>2. NoMoreClosing
    BY <1>3, <2>1 DEF NoMoreClosing, TypeInv, BookTyped
  <2> QED BY <1>1, <1>3, <2>2, EndKind
<1> QED BY <1>2, <1>3 DEF Lock

LEMMA PlanKind == ASSUME IInv, NEW s \in Slots, Plan(s) PROVE Moved(s) /\ Kind(s)
<1> DEFINE old == job[s]
           todo == Planned(rows, old)
           x == After(Following(old.agent), todo)
           j == [op |-> old.op, period |-> old.period, on |-> old.on, rate |-> old.rate,
                 agent |-> Following(old.agent), todo |-> todo, done |-> old.done]
<1>1. /\ j.op = old.op /\ j.period = old.period /\ j.agent = Following(old.agent)
      /\ j.todo = todo /\ j.done = old.done
      /\ pc[s] = "plan" /\ pc' = [pc EXCEPT ![s] = x] /\ job' = [job EXCEPT ![s] = j]
      /\ UNCHANGED <<status, book, rows, nextId>> /\ x = After(j.agent, j.todo)
  BY DEF Plan, Goto, tables
<1>2. x \in Steps
  BY DEF After, Steps
<1> HIDE DEF j, x, todo
<1>3. Moved(s) /\ pc'[s] = x /\ job'[s] = j
  <2>1. pc' = [pc EXCEPT ![s] = x] /\ job' = [job EXCEPT ![s] = j]
    BY <1>1
  <2> QED BY ONLY <1>2, <2>1, SlotMoves, IInv, s \in Slots
<1> QED BY <1>1, <1>3 DEF Kind, Plans, SameRequest, todo

LEMMA WriteKind == ASSUME IInv, NEW s \in Slots, NEW d, Write(s, d) PROVE Moved(s) /\ Kind(s)
<1>1. /\ pc[s] = "write" /\ d \in job[s].todo
      /\ nextId' = nextId + 1 /\ UNCHANGED <<status, book, rows>>
  BY DEF Write, WriteWhen, tables
<1>2. CASE End(s)
  BY <1>1, <1>2, EndKind DEF NoMoreClosing
<1>3. CASE ~ End(s)
  <2> DEFINE old == job[s]
             x == After(old.agent, old.todo \ {d})
             j == [op |-> old.op, period |-> old.period, on |-> old.on, rate |-> old.rate,
                   agent |-> old.agent, todo |-> old.todo \ {d},
                   done |-> old.done \cup {EntryOf(nextId, d)}]
  <2>1. pc' = [pc EXCEPT ![s] = x] /\ job' = [job EXCEPT ![s] = j]
    BY <1>3 DEF Write, WriteWhen, Goto
  <2>2. /\ j.op = old.op /\ j.period = old.period /\ j.agent = old.agent
        /\ j.todo = old.todo \ {d} /\ j.done = old.done \cup {EntryOf(nextId, d)}
        /\ x = After(j.agent, j.todo)
    OBVIOUS
  <2>3. x \in Steps
    BY DEF After, Steps
  <2> HIDE DEF j, x
  <2>4. Moved(s) /\ pc'[s] = x /\ job'[s] = j
    BY ONLY <2>1, <2>3, SlotMoves, IInv, s \in Slots
  <2>5. Writes(s)
    BY <1>1, <2>2, <2>4 DEF Writes, SameRequest
  <2> QED BY <2>4, <2>5 DEF Kind
<1> QED BY <1>2, <1>3

LEMMA CommitKind ==
    ASSUME IInv, TypeInv, NEW s \in Slots, Commit(s) PROVE Moved(s) /\ Kind(s)
<1>1. /\ pc[s] = "commit" /\ nextId' = nextId
      /\ Moved(s) /\ pc'[s] = "idle" /\ job'[s] = NoJob
  BY SlotMoves DEF Commit, End, Steps
<1>2. CASE UNCHANGED <<status, book, rows>>
  BY <1>1, <1>2 DEF Kind, Quiet, NoMoreClosing
<1>3. CASE /\ job[s].op # "preview"
           /\ book' = book \cup job[s].done /\ rows' = rows \cup Mirror(job[s].done)
           /\ status' = IF job[s].op = "preclose"
                          THEN [status EXCEPT ![job[s].period] = Outcome(job[s].op)]
                          ELSE status
  <2>1. \A p \in Months : status'[p] = "IN_CLOSING" =>
           status[p] = "IN_CLOSING" \/ (job[s].op = "preclose" /\ job[s].period = p)
    <3>1. status \in [Months -> Statuses]
      BY DEF TypeInv, BookTyped
    <3>2. CASE status' = status
      BY <3>2
    <3>3. CASE job[s].op = "preclose"
               /\ status' = [status EXCEPT ![job[s].period] = Outcome(job[s].op)]
      BY <3>1, <3>3
    <3> QED BY <1>3, <3>2, <3>3
  <2> QED BY <1>1, <1>3, <2>1 DEF Kind, Publishes
<1> QED BY <1>2, <1>3 DEF Commit

(* Every step is of one of these kinds.                                    *)
LEMMA StepKinds ==
    ASSUME IInv, TypeInv, [Next]_vars
    PROVE  Idles \/ \E s \in Slots : Moved(s) /\ Kind(s)
<1>1. ASSUME NEW s \in Slots, Step(s) PROVE Moved(s) /\ Kind(s)
  <2>1. CASE Writing(s)
    <3>1. ASSUME NEW d, Refuse(s, d) PROVE Moved(s) /\ Kind(s)
      BY <3>1, EndKind DEF Refuse, tables, NoMoreClosing
    <3> QED BY <2>1, <3>1, WriteKind DEF Writing
  <2>2. CASE Victim(s)
    BY <2>2, EndKind DEF Victim, tables, NoMoreClosing
  <2> QED BY <1>1, <2>1, <2>2, GuardMoves, GuardKind, LockKind, PlanKind, CommitKind DEF Step
<1>2. ASSUME NEW s \in Slots, Crash(s) PROVE Moved(s) /\ Kind(s)
  BY <1>2, EndKind DEF Crash, tables, NoMoreClosing
<1>3. CASE \E t \in Leaving : SetTutorActive(t)
  BY <1>3 DEF SetTutorActive, Idles
<1>4. CASE UNCHANGED vars
  BY <1>4 DEF vars, Idles
<1> QED BY <1>1, <1>2, <1>3, <1>4, RequestKind DEF Next

-----------------------------------------------------------------------------
(* What the gate of close compares.                                        *)

(* The mirror has the rows of the control account that the sub-ledger      *)
(* takes.                                                                  *)
LEMMA MirrorTakes ==
    ASSUME NEW E \in SUBSET Entry
    PROVE  Mirror(E) = {r \in ControlRows(E) : Mirrored(r)}
<1>1. \A id, l : Row(id, l).key = l.key /\ Row(id, l).amount = l.amount
  BY DEF Row
<1>2. \A id, l : Mirrored(Row(id, l)) <=> Mirrored(l)
  BY <1>1 DEF Mirrored, FixedAssetTakes, PrepaidTakes, IntangibleTakes
<1> QED BY <1>2 DEF Mirror, ControlRows, RowsOf

(* The balance of a key adds up over two parts of the rows.                *)
LEMMA AmountSplit ==
    ASSUME NEW R \in SUBSET MirrorRow, IsFiniteSet(R), NEW i, NEW T \in SUBSET R
    PROVE  /\ Amount(R, i) = Amount(T, i) + Amount(R \ T, i)
           /\ Amount(T, i) \in Int /\ Amount(R \ T, i) \in Int
<1> DEFINE inT == {r \in T : r.key = i}
           rest == {r \in R \ T : r.key = i}
           both == {r \in R : r.key = i}
<1>1. both = inT \cup rest /\ inT \cap rest = {}
  OBVIOUS
<1>2. /\ IsFiniteSet(T) /\ IsFiniteSet(R \ T) /\ R \ T \in SUBSET MirrorRow
      /\ IsFiniteSet(inT) /\ IsFiniteSet(rest)
  BY FS_Subset
<1>3. \A r \in inT \cup rest : AmountAt[r] \in Int
  BY DEF AmountAt, MirrorRow
<1>4. /\ Amount(T, i) = SumFunctionOnSet(AmountAt, inT) /\ Amount(T, i) \in Int
      /\ Amount(R \ T, i) = SumFunctionOnSet(AmountAt, rest) /\ Amount(R \ T, i) \in Int
      /\ Amount(R, i) = SumFunctionOnSet(AmountAt, both)
  BY <1>2, Amounts
<1> HIDE DEF inT, rest, both
<1>5. SumFunctionOnSet(AmountAt, inT \cup rest)
        = SumFunctionOnSet(AmountAt, inT) + SumFunctionOnSet(AmountAt, rest)
  BY <1>1, <1>2, <1>3, SumUnion
<1>6. SumFunctionOnSet(AmountAt, both) = SumFunctionOnSet(AmountAt, inT \cup rest)
  BY <1>1, Zenon
<1> QED BY <1>4, <1>5, <1>6

(* Rows that all go one way have a balance that goes that way.             *)
LEMMA AmountSign ==
    ASSUME NEW R \in SUBSET MirrorRow, IsFiniteSet(R), NEW i
    PROVE  /\ (\A r \in R : r.key = i => r.amount >= 0) => Amount(R, i) >= 0
           /\ (\A r \in R : r.key = i => r.amount <= 0) => Amount(R, i) <= 0
<1> DEFINE S == {r \in R : r.key = i}
           zero == [r \in S |-> 0]
<1>1. IsFiniteSet(S) /\ \A r \in S : /\ AmountAt[r] = r.amount /\ AmountAt[r] \in Int
                                     /\ zero[r] \in Int /\ zero[r] = 0
  BY FS_Subset DEF AmountAt, MirrorRow
<1>2. Amount(R, i) = SumFunctionOnSet(AmountAt, S) /\ Amount(R, i) \in Int
  BY Amounts
<1>3. (\A r \in R : r.key = i => r.amount >= 0) => \A r \in S : zero[r] <= AmountAt[r]
  BY <1>1
<1>4. (\A r \in R : r.key = i => r.amount <= 0) => \A r \in S : AmountAt[r] <= zero[r]
  BY <1>1
<1> HIDE DEF S, zero
<1>5. SumFunctionOnSet(zero, S) = 0
  BY <1>1, SumZero
<1>6. ASSUME \A r \in R : r.key = i => r.amount >= 0 PROVE Amount(R, i) >= 0
  <2>1. SumFunctionOnSet(zero, S) <= SumFunctionOnSet(AmountAt, S)
    BY <1>1, <1>3, <1>6, SumBelow
  <2> QED BY <1>2, <1>5, <2>1
<1>7. ASSUME \A r \in R : r.key = i => r.amount <= 0 PROVE Amount(R, i) <= 0
  <2>1. SumFunctionOnSet(AmountAt, S) <= SumFunctionOnSet(zero, S)
    BY <1>1, <1>4, <1>7, SumBelow
  <2> QED BY <1>2, <1>5, <2>1
<1> QED BY <1>6, <1>7

(* The rows of an asset or a prepaid charge it.                            *)
LEMMA ItemRows ==
    ASSUME NEW E \in SUBSET Entry, IsFiniteSet(E), NEW i \in Items
    PROVE  \A r \in Mirror(E) : r.key = i => r.amount > 0
<1>1. i \notin Intangibles /\ i \notin Tutors /\ (i \in Assets \/ i \in Prepaids)
  BY MonthEndAssumption DEF Items
<1> QED BY <1>1, MirrorTakes DEF Mirrored, FixedAssetTakes, PrepaidTakes

(* What a sub-ledger does not take makes the difference.                   *)
LEMMA GroupDiffers ==
    ASSUME TypeInv, NEW group
    PROVE  LET missed == {r \in ControlRows(book) : r.key \in group /\ ~ Mirrored(r)}
           IN  /\ IsFiniteSet(missed) /\ missed \in SUBSET MirrorRow
               /\ Booked(group) \in Int /\ Kept(group) \in Int
               /\ SumFunctionOnSet(AmountAt, missed) \in Int
               /\ Booked(group) - Kept(group) = SumFunctionOnSet(AmountAt, missed)
<1> DEFINE C == ControlRows(book)
           missed == {r \in C : r.key \in group /\ ~ Mirrored(r)}
           all == {r \in C : r.key \in group}
           taken == {r \in rows : r.key \in group}
<1>1. /\ book \in SUBSET Entry /\ IsFiniteSet(book) /\ rows = Mirror(book)
      /\ C \in SUBSET MirrorRow /\ IsFiniteSet(C)
      /\ rows \in SUBSET MirrorRow /\ IsFiniteSet(rows)
  BY RowsFinite DEF TypeInv, BookTyped, Mirrors
<1>2. all = taken \cup missed /\ taken \cap missed = {}
  BY <1>1, MirrorTakes
<1>3. missed \in SUBSET MirrorRow /\ IsFiniteSet(missed)
  BY <1>1, FS_Subset
<1>4. /\ Booked(group) = SumFunctionOnSet(AmountAt, all) /\ Booked(group) \in Int
      /\ Kept(group) = SumFunctionOnSet(AmountAt, taken) /\ Kept(group) \in Int
      /\ taken \in SUBSET MirrorRow /\ IsFiniteSet(taken)
  BY <1>1, GroupSums DEF Booked, Kept
<1>5. \A r \in MirrorRow : AmountAt[r] \in Int
  BY DEF AmountAt, MirrorRow
<1> HIDE DEF C, all, taken, missed
<1>6. SumFunctionOnSet(AmountAt, taken \cup missed)
        = SumFunctionOnSet(AmountAt, taken) + SumFunctionOnSet(AmountAt, missed)
  BY <1>2, <1>3, <1>4, <1>5, SumUnion
<1>7. SumFunctionOnSet(AmountAt, all) = SumFunctionOnSet(AmountAt, taken \cup missed)
  BY <1>2, Zenon
<1>8. SumFunctionOnSet(AmountAt, missed) \in Int
  BY <1>3, <1>5, SumInt
<1>9. Booked(group) - Kept(group) = SumFunctionOnSet(AmountAt, missed)
  BY <1>4, <1>6, <1>7, <1>8
<1> QED BY <1>3, <1>4, <1>8, <1>9 DEF C, missed

(* Rows that are added on one side move the sum to that side.              *)
LEMMA SumGrows ==
    ASSUME NEW T \in SUBSET MirrorRow, IsFiniteSet(T), NEW S \in SUBSET T
    PROVE  /\ SumFunctionOnSet(AmountAt, S) \in Int /\ SumFunctionOnSet(AmountAt, T) \in Int
           /\ (\A r \in T \ S : r.amount >= 0) =>
                SumFunctionOnSet(AmountAt, S) <= SumFunctionOnSet(AmountAt, T)
           /\ (\A r \in T \ S : r.amount <= 0) =>
                SumFunctionOnSet(AmountAt, T) <= SumFunctionOnSet(AmountAt, S)
           /\ (\A r \in T \ S : r.amount = 0) =>
                SumFunctionOnSet(AmountAt, T) = SumFunctionOnSet(AmountAt, S)
<1> DEFINE D == T \ S
           zero == [r \in D |-> 0]
<1>1. /\ IsFiniteSet(S) /\ IsFiniteSet(D) /\ S \cap D = {} /\ S \cup D = T
      /\ \A r \in T : AmountAt[r] = r.amount /\ AmountAt[r] \in Int
      /\ \A r \in D : zero[r] = 0
  BY FS_Subset DEF AmountAt, MirrorRow
<1> HIDE DEF D, zero
<1>2. /\ SumFunctionOnSet(AmountAt, S) \in Int /\ SumFunctionOnSet(AmountAt, D) \in Int
      /\ SumFunctionOnSet(AmountAt, S \cup D)
            = SumFunctionOnSet(AmountAt, S) + SumFunctionOnSet(AmountAt, D)
  <2>1. (\A r \in S : AmountAt[r] \in Int) /\ (\A r \in D : AmountAt[r] \in Int)
        /\ \A r \in S \cup D : AmountAt[r] \in Int
    BY <1>1
  <2> QED BY <1>1, <2>1, SumUnion, SumInt
<1>3. SumFunctionOnSet(AmountAt, T) = SumFunctionOnSet(AmountAt, S \cup D)
  BY <1>1, Zenon
<1>4. SumFunctionOnSet(zero, D) = 0
  BY <1>1, SumZero
<1>5. \A r \in D : r \in T /\ zero[r] \in Int
  BY <1>1
<1>6. (\A r \in D : r.amount >= 0) => SumFunctionOnSet(zero, D) <= SumFunctionOnSet(AmountAt, D)
  BY <1>1, <1>5, SumBelow
<1>7. (\A r \in D : r.amount <= 0) => SumFunctionOnSet(AmountAt, D) <= SumFunctionOnSet(zero, D)
  BY <1>1, <1>5, SumBelow
<1>8. (\A r \in D : r.amount = 0) => SumFunctionOnSet(AmountAt, D) = 0
  BY <1>1, <1>5, SumZero
<1> QED BY <1>2, <1>3, <1>4, <1>6, <1>7, <1>8 DEF D

(* The rows of the lines that debit a group.                               *)
Debits(group) == {r \in {q \in ControlRows(book) : q.amount < 0} : r.key \in group}

LEMMA DebitsType ==
    ASSUME TypeInv, NEW group
    PROVE  /\ Debits(group) \in SUBSET MirrorRow /\ IsFiniteSet(Debits(group))
           /\ SumFunctionOnSet(AmountAt, Debits(group)) \in Int
           /\ Debited(group) = - SumFunctionOnSet(AmountAt, Debits(group))
<1> DEFINE D == {q \in ControlRows(book) : q.amount < 0}
<1>1. D \in SUBSET MirrorRow /\ IsFiniteSet(D)
  BY RowsFinite, FS_Subset DEF TypeInv, BookTyped
<1>2. Debited(group) = - GroupSum(D, group) /\ Debits(group) = {r \in D : r.key \in group}
  BY DEF Debited, Debits
<1> HIDE DEF D
<1>3. LET S == {r \in D : r.key \in group}
      IN  /\ S \in SUBSET MirrorRow /\ IsFiniteSet(S)
          /\ GroupSum(D, group) = SumFunctionOnSet(AmountAt, S) /\ GroupSum(D, group) \in Int
  BY <1>1, GroupSums
<1> QED BY <1>2, <1>3

(* Assets and prepaids mirror everything but what debits them.             *)
LEMMA ItemsTold ==
    ASSUME TypeInv, NEW group \in {Assets, Prepaids}
    PROVE  /\ Booked(group) \in Int /\ Kept(group) \in Int /\ Debited(group) \in Int
           /\ Booked(group) - Kept(group) = - Debited(group)
<1> DEFINE missed == {r \in ControlRows(book) : r.key \in group /\ ~ Mirrored(r)}
<1>1. /\ IsFiniteSet(missed) /\ missed \in SUBSET MirrorRow
      /\ Booked(group) \in Int /\ Kept(group) \in Int
      /\ Booked(group) - Kept(group) = SumFunctionOnSet(AmountAt, missed)
  BY GroupDiffers
<1>2. \A r \in ControlRows(book) : r.amount \in Int
  BY RowsFinite DEF TypeInv, BookTyped, MirrorRow
<1>3. \A r \in ControlRows(book) : r.key \in group => (Mirrored(r) <=> r.amount > 0)
  BY MonthEndAssumption DEF Mirrored, FixedAssetTakes, PrepaidTakes, Items
<1>4. Debits(group) \in SUBSET missed /\ \A r \in missed \ Debits(group) : r.amount = 0
  BY <1>2, <1>3 DEF Debits
<1> HIDE DEF missed
<1>5. SumFunctionOnSet(AmountAt, missed) = SumFunctionOnSet(AmountAt, Debits(group))
  BY <1>1, <1>4, SumGrows
<1> QED BY <1>1, <1>5, DebitsType

LEMMA GateTold == ASSUME TypeInv PROVE GateTells
<1>1. TutorPayableReconciles
  <2> DEFINE missed == {r \in ControlRows(book) : r.key \in Tutors /\ ~ Mirrored(r)}
  <2>1. missed = {}
    BY MonthEndAssumption DEF Mirrored, Items
  <2>2. Booked(Tutors) - Kept(Tutors) = SumFunctionOnSet(AmountAt, missed)
    BY GroupDiffers
  <2>3. SumFunctionOnSet(AmountAt, missed) = 0
    BY <2>1, SumEmpty, Zenon
  <2> QED BY <2>2, <2>3 DEF TutorPayableReconciles
<1>2. IntangibleReconciles
  <2> DEFINE missed == {r \in ControlRows(book) : r.key \in Intangibles /\ ~ Mirrored(r)}
  <2>1. /\ missed \in SUBSET MirrorRow /\ IsFiniteSet(missed)
        /\ Booked(Intangibles) - Kept(Intangibles) = SumFunctionOnSet(AmountAt, missed)
    BY GroupDiffers
  <2>2. \A r \in missed : r.amount = 0
    BY MonthEndAssumption DEF Mirrored, IntangibleTakes
  <2>3. \A r \in missed : AmountAt[r] = 0
    BY <2>1, <2>2 DEF AmountAt
  <2> HIDE DEF missed
  <2>4. SumFunctionOnSet(AmountAt, missed) = 0
    BY <2>1, <2>3, SumZero
  <2> QED BY <2>1, <2>4 DEF IntangibleReconciles
<1>3. PrepaidReconciles <=> Debited(Prepaids) = TotalCost(Prepaids)
  <2>1. TotalCost(Prepaids) \in Int
    BY TotalCostType DEF Items
  <2> QED BY <2>1, ItemsTold DEF PrepaidReconciles
<1>4. FixedAssetReconciles <=> Debited(Assets) - Booked(CostAccounts) = TotalCost(Assets)
  <2>1. TotalCost(Assets) \in Int /\ Booked(CostAccounts) \in Int
    BY TotalCostType, GroupDiffers DEF Items
  <2>2. /\ Booked(Assets) \in Int /\ Kept(Assets) \in Int /\ Debited(Assets) \in Int
        /\ Booked(Assets) - Kept(Assets) = - Debited(Assets)
    BY ItemsTold
  <2> QED BY <2>1, <2>2 DEF FixedAssetReconciles
<1> QED BY <1>1, <1>2, <1>3, <1>4 DEF GateTells

(* What the gate of close tells of the book, in every state: whatever      *)
(* journals, charges and reversals have made of it.                        *)
THEOREM Told == Spec => []GateTells
BY GateTold, TypeAlways, PTL

-----------------------------------------------------------------------------
(* Prepaids that were debited too much.                                    *)

LEMMA BookGrows ==
    ASSUME IInv, TypeInv, [Next]_vars PROVE book \subseteq book' /\ rows \subseteq rows'
BY StepKinds DEF Idles, Kind, Quiet, Takes, Plans, Writes, SameRequest, Publishes

(* What debits a prepaid stays, and what credits it is kept.               *)
LEMMA PrepaidsGrow ==
    ASSUME IInv, TypeInv, TypeInv', [Next]_vars
    PROVE  /\ Debited(Prepaids) \in Int /\ Debited(Prepaids)' \in Int
           /\ Debited(Prepaids) <= Debited(Prepaids)'
           /\ Kept(Prepaids) \in Int /\ Kept(Prepaids)' \in Int
           /\ Kept(Prepaids) <= Kept(Prepaids)'
<1> DEFINE D == Debits(Prepaids)
           B == {r \in ControlRows(book') : r.amount < 0}
           E == {r \in B : r.key \in Prepaids}
           K == {r \in rows : r.key \in Prepaids}
           M == {r \in rows' : r.key \in Prepaids}
<1>1. book \subseteq book' /\ rows \subseteq rows'
  BY BookGrows
<1>2. /\ book' \in SUBSET Entry /\ IsFiniteSet(book')
      /\ rows \in SUBSET MirrorRow /\ IsFiniteSet(rows)
  BY RowsType DEF TypeInv, BookTyped
<1>3. rows' = Mirror(book')
  BY DEF TypeInv, Mirrors, Mirror, RowsOf, Mirrored, FixedAssetTakes, PrepaidTakes,
     IntangibleTakes, Row
<1>4. /\ ControlRows(book') \in SUBSET MirrorRow /\ IsFiniteSet(ControlRows(book'))
      /\ rows' \in SUBSET MirrorRow /\ IsFiniteSet(rows')
  BY <1>2, <1>3, RowsFinite
<1>5. Debited(Prepaids) = - SumFunctionOnSet(AmountAt, D)
  BY DebitsType
<1>6. Debited(Prepaids)' = - SumFunctionOnSet(AmountAt, E)
  <2>1. B \in SUBSET MirrorRow /\ IsFiniteSet(B)
    BY <1>4, FS_Subset
  <2>2. Debited(Prepaids)' = - GroupSum(B, Prepaids)
    BY DEF Debited
  <2> HIDE DEF B
  <2> QED BY <2>1, <2>2, GroupSums
<1>7. D \in SUBSET E /\ E \in SUBSET MirrorRow /\ IsFiniteSet(E) /\ \A r \in E \ D : r.amount <= 0
  <2>1. D \in SUBSET E
    BY <1>1 DEF Debits, ControlRows
  <2>2. \A r \in E : r.amount \in Int
    BY <1>4 DEF MirrorRow
  <2> QED BY <1>4, <2>1, <2>2, FS_Subset
<1>8. /\ Kept(Prepaids) = SumFunctionOnSet(AmountAt, K)
      /\ Kept(Prepaids)' = SumFunctionOnSet(AmountAt, M)
  <2>1. Kept(Prepaids) = GroupSum(rows, Prepaids)
    BY DEF Kept
  <2>2. Kept(Prepaids)' = GroupSum(rows', Prepaids)
    BY DEF Kept
  <2> QED BY <1>2, <1>4, <2>1, <2>2, GroupSums
<1>9. K \in SUBSET M /\ M \in SUBSET MirrorRow /\ IsFiniteSet(M) /\ \A r \in M \ K : r.amount >= 0
  <2>1. K \in SUBSET M /\ M \in SUBSET MirrorRow /\ IsFiniteSet(M)
    BY <1>1, <1>4, FS_Subset
  <2>2. \A r \in M : r.amount > 0
    BY <1>2, <1>3, ItemRows DEF Items
  <2>3. \A r \in M : r.amount \in Int
    BY <2>1 DEF MirrorRow
  <2> QED BY <2>1, <2>2, <2>3
<1> HIDE DEF D, E, K, M
<1> QED BY <1>5, <1>6, <1>7, <1>8, <1>9, SumGrows

(* A close on its way to the lock, and what it has seen of the prepaids.   *)
Kept0(s) ==
    /\ Overdebited
    /\ pc[s] = "prepaidRows" => seen[s] + TotalCost(Prepaids) - Kept(Prepaids) < 0
    /\ job[s].op = "close" => pc[s] \notin {"intangibleBook", "intangibleRows", "lock"}

(* Only the gate leads past the prepaids.                                  *)
LEMMA Approaches ==
    ASSUME IInv, SeenInv, [Next]_vars, NEW s \in Slots
    PROVE  \/ pc'[s] = pc[s] /\ job'[s] = job[s] /\ seen'[s] = seen[s]
           \/ Gate(s)
           \/ /\ pc'[s] \notin {"prepaidRows", "intangibleBook", "intangibleRows"}
              /\ pc'[s] = "lock" => job'[s].op # "close"
<1> DEFINE Same == pc'[s] = pc[s] /\ job'[s] = job[s] /\ seen'[s] = seen[s]
           Away == /\ pc'[s] \notin {"prepaidRows", "intangibleBook", "intangibleRows"}
                   /\ pc'[s] = "lock" => job'[s].op # "close"
<1>0. pc \in [Slots -> Steps] /\ job = [t \in Slots |-> job[t]] /\ seen \in [Slots -> Int]
  BY DEF IInv, SeenInv
<1>1. ASSUME NEW t \in Slots, End(t) PROVE Same \/ Away
  BY <1>0, <1>1 DEF End
<1>2. ASSUME NEW t \in Slots, NEW x, x \notin Reads \ {"payableBook"},
             pc' = [pc EXCEPT ![t] = x], UNCHANGED seen,
             \A u \in Slots \ {t} : job'[u] = job[u],
             x = "lock" => job'[t].op # "close"
      PROVE  Same \/ Away
  BY <1>0, <1>2, ReadsAre
<1>3. {"idle", "status", "payableBook", "lock", "plan", "write", "commit"}
        \cap (Reads \ {"payableBook"}) = {}
  BY StepsAre
<1>4. ASSUME NEW t \in Slots, Request(t) PROVE Same \/ Away
  <2>1. ASSUME NEW op, NEW p, NEW on, NEW rate, NEW agent, NEW todo,
               NEW first \in {"status", "plan", "write"},
               Start(t, op, p, on, rate, agent, todo, first)
        PROVE  Same \/ Away
    <3>1. \A u \in Slots \ {t} : job'[u] = job[u]
      BY <1>0, <2>1 DEF Start
    <3> QED BY <1>2, <1>3, <2>1, <3>1 DEF Start, Goto
  <2> QED BY <1>4, <2>1 DEF Request, StartPreClose, StartPreview, StartClose, StartReopen,
       StartPost, StartReverse
<1>5. ASSUME NEW t \in Slots, CheckStatus(t) PROVE Same \/ Away
  <2>1. CASE End(t)
    BY <1>1, <2>1
  <2>2. CASE ~ End(t)
    BY <1>2, <1>3, <1>5, <2>2 DEF CheckStatus, Goto
  <2> QED BY <2>1, <2>2
<1>6. ASSUME NEW t \in Slots \ {s}, Gate(t) PROVE Same
  BY <1>0, <1>6 DEF Gate, GateWhen, End
<1>7. ASSUME NEW t \in Slots, Lock(t) \/ Plan(t) \/ \E d : Write(t, d) PROVE Same \/ Away
  <2>1. CASE End(t)
    BY <1>1, <2>1
  <2>2. CASE ~ End(t)
    <3>1. PICK x \in {"plan", "write", "commit"} : pc' = [pc EXCEPT ![t] = x] /\ UNCHANGED seen
      BY <1>7, <2>2 DEF Lock, Plan, Write, WriteWhen, Goto, After
    <3>2. \A u \in Slots \ {t} : job'[u] = job[u]
      BY <1>0, <1>7, <2>2 DEF Lock, Plan, Write, WriteWhen
    <3> QED BY <1>2, <1>3, <3>1, <3>2
  <2> QED BY <2>1, <2>2
<1>8. ASSUME NEW t \in Slots, Writing(t) \/ Victim(t) \/ Commit(t) \/ Crash(t) PROVE Same \/ Away
  BY <1>1, <1>7, <1>8 DEF Writing, Refuse, Victim, Commit, Crash
<1>9. CASE UNCHANGED <<pc, job, seen>>
  BY <1>9
<1> QED BY <1>4, <1>5, <1>6, <1>7, <1>8, <1>9 DEF Next, Step, SetTutorActive, vars

LEMMA KeptOut ==
    ASSUME IInv, TypeInv, TypeInv', SeenInv, [Next]_vars, NEW s \in Slots, Kept0(s)
    PROVE  Kept0(s)'
<1>1. TotalCost(Prepaids) \in Int /\ seen[s] \in Int
  BY TotalCostType DEF Items, SeenInv
<1>2. Overdebited'
  BY <1>1, PrepaidsGrow DEF Kept0, Overdebited
<1>3. CASE pc'[s] = pc[s] /\ job'[s] = job[s] /\ seen'[s] = seen[s]
  BY <1>1, <1>2, <1>3, PrepaidsGrow DEF Kept0
<1>4. CASE /\ pc'[s] \notin {"prepaidRows", "intangibleBook", "intangibleRows"}
           /\ pc'[s] = "lock" => job'[s].op # "close"
  BY <1>2, <1>4 DEF Kept0
<1>5. CASE Gate(s)
  <2>1. CASE End(s)
    BY <1>2, <2>1 DEF End, Kept0, IInv, Shape
  <2>2. CASE ~ End(s)
    <3>1. /\ pc[s] \in Reads /\ pc'[s] = NextRead[pc[s]] /\ job' = job
          /\ seen'[s] = seen[s] + ReadAt(pc[s])
          /\ pc[s] \in Compares => seen[s] + ReadAt(pc[s]) = 0
          /\ rows' = rows
      BY <1>5, <2>2 DEF Gate, GateWhen, tables, IInv, SeenInv
    <3>2. pc[s] # "prepaidRows"
      <4>1. SUFFICES ASSUME pc[s] = "prepaidRows" PROVE FALSE
        OBVIOUS
      <4>2. ReadAt(pc[s]) = TotalCost(Prepaids) - Kept(Prepaids) /\ pc[s] \in Compares
        BY <4>1 DEF ReadAt, Compares
      <4> QED BY <1>1, <3>1, <4>1, <4>2, PrepaidsGrow DEF Kept0
    <3>3. CASE pc[s] = "prepaidBook"
      <4>1. seen[s] = 0 /\ ReadAt(pc[s]) = Booked(Prepaids) /\ pc'[s] = "prepaidRows"
        BY <3>1, <3>3, ReadsAre DEF SeenInv, Between, ReadAt
      <4>2. /\ Booked(Prepaids) \in Int /\ Kept(Prepaids) \in Int
            /\ Booked(Prepaids) - Kept(Prepaids) = - Debited(Prepaids)
        BY ItemsTold
      <4>3. Debited(Prepaids) > TotalCost(Prepaids) /\ Debited(Prepaids) \in Int
        BY PrepaidsGrow DEF Kept0, Overdebited
      <4>4. Kept(Prepaids)' = Kept(Prepaids)
        BY <3>1 DEF Kept
      <4>5. seen'[s] + TotalCost(Prepaids) - Kept(Prepaids)' < 0
        BY <1>1, <3>1, <4>1, <4>2, <4>3, <4>4
      <4> QED BY <1>2, <4>1, <4>5 DEF Kept0
    <3>4. CASE pc[s] \in {"intangibleBook", "intangibleRows"}
      <4>1. job'[s].op # "close" /\ pc'[s] # "prepaidRows"
        BY <3>1, <3>4, ReadsAre DEF Kept0
      <4> QED BY <1>2, <4>1 DEF Kept0
    <3>5. CASE pc[s] \in {"payableBook", "payableRows", "costBook", "assetBook", "assetRows"}
      <4>1. pc'[s] \notin {"prepaidRows", "intangibleBook", "intangibleRows", "lock"}
        BY <3>1, <3>5, ReadsAre
      <4> QED BY <1>2, <4>1 DEF Kept0
    <3> QED BY <3>1, <3>2, <3>3, <3>4, <3>5, ReadsAre
  <2> QED BY <2>1, <2>2
<1> QED BY <1>3, <1>4, <1>5, Approaches

(* Once the prepaid accounts have been debited by more than the table says *)
(* was paid, no close that begins later gets to the lock: not by any       *)
(* reversal, manual journal or charge, and however its reads fall.         *)
THEOREM Blocked == Spec => OverdebitBlocks
<1>1. ASSUME NEW s \in Slots
      PROVE  Spec => []((Overdebited /\ pc[s] = "idle") => [](job[s].op = "close" => pc[s] # "lock"))
  <2>1. Overdebited /\ pc[s] = "idle" => Kept0(s)
    BY DEF Kept0
  <2>2. IInv /\ TypeInv /\ TypeInv' /\ SeenInv /\ [Next]_vars /\ Kept0(s) => Kept0(s)'
    BY KeptOut
  <2>3. Kept0(s) => (job[s].op = "close" => pc[s] # "lock")
    BY DEF Kept0
  <2> QED BY <2>1, <2>2, <2>3, Inductive, TypeAlways, SeenAlways, PTL DEF Spec
<1> QED BY <1>1 DEF OverdebitBlocks

-----------------------------------------------------------------------------
(* The ids of entries.                                                     *)

(* Ids are used once, in the book and by what may yet come into it.        *)
IdsApart ==
    /\ \A e \in book : e.id < nextId
    /\ \A e, f \in book : e.id = f.id => e = f
    /\ \A s \in Slots : \A e \in job[s].done :
          /\ e.id < nextId /\ \A f \in book : f.id # e.id
          /\ \A f \in job[s].done : e.id = f.id => e = f
          /\ \A t \in Slots \ {s} : \A f \in job[t].done : e.id # f.id

LEMMA IdsStep ==
    ASSUME TypeInv, IdsApart, NEW s \in Slots, Moved(s), Kind(s) PROVE IdsApart'
<1>1. nextId \in Nat /\ (\A e \in book : e.id \in Nat)
      /\ \A t \in Slots : \A e \in job[t].done : e.id \in Nat
  BY DEF TypeInv, BookTyped, Entry, Job
<1>2. \A t \in Slots \ {s} : job'[t].done = job[t].done
  BY DEF Moved
<1>3. CASE /\ book' = book /\ job'[s].done \subseteq job[s].done
           /\ nextId' \in {nextId, nextId + 1}
  <2>1. (\A e \in book' : e.id < nextId') /\ \A e, f \in book' : e.id = f.id => e = f
    BY <1>1, <1>3 DEF IdsApart
  <2>2. ASSUME NEW t \in Slots, NEW e \in job'[t].done
        PROVE  /\ e.id < nextId' /\ \A f \in book' : f.id # e.id
               /\ \A f \in job'[t].done : e.id = f.id => e = f
               /\ \A u \in Slots \ {t} : \A f \in job'[u].done : e.id # f.id
    <3>1. e \in job[t].done /\ \A u \in Slots : job'[u].done \subseteq job[u].done
      BY <1>2, <1>3
    <3> QED BY <1>1, <1>3, <3>1 DEF IdsApart
  <2> QED BY <2>1, <2>2 DEF IdsApart
<1>4. CASE Writes(s)
  <2>1. PICK d \in job[s].todo : job'[s].done = job[s].done \cup {EntryOf(nextId, d)}
    BY <1>4 DEF Writes
  <2> DEFINE new == EntryOf(nextId, d)
  <2>2. nextId' = nextId + 1 /\ book' = book /\ new.id = nextId
    BY <1>4 DEF Writes, SameRequest, EntryOf
  <2> HIDE DEF new
  <2>3. (\A e \in book' : e.id < nextId') /\ \A e, f \in book' : e.id = f.id => e = f
    BY <1>1, <2>2 DEF IdsApart
  <2>4. ASSUME NEW t \in Slots, NEW e \in job'[t].done
        PROVE  /\ e.id < nextId' /\ \A f \in book' : f.id # e.id
               /\ \A f \in job'[t].done : e.id = f.id => e = f
               /\ \A u \in Slots \ {t} : \A f \in job'[u].done : e.id # f.id
    <3>1. \A f \in book : f.id < nextId
      BY DEF IdsApart
    <3>2. \A u \in Slots : \A f \in job[u].done : f.id < nextId
      BY DEF IdsApart
    <3>3. \A u \in Slots : \A f \in job'[u].done :
             f \in job[u].done \/ (u = s /\ f = new)
      BY <1>2, <2>1 DEF new
    <3>4. e.id < nextId' /\ \A f \in book' : f.id # e.id
      BY <1>1, <2>2, <3>1, <3>2, <3>3 DEF IdsApart
    <3>5. \A f \in job'[t].done : e.id = f.id => e = f
      BY <1>1, <2>2, <3>2, <3>3 DEF IdsApart
    <3>6. ASSUME NEW u \in Slots \ {t}, NEW f \in job'[u].done PROVE e.id # f.id
      BY <1>1, <2>2, <3>2, <3>3 DEF IdsApart
    <3> QED BY <3>4, <3>5, <3>6
  <2> QED BY <2>3, <2>4 DEF IdsApart
<1>5. CASE Publishes(s)
  <2>1. book' = book \cup job[s].done /\ nextId' = nextId /\ job'[s].done = {}
    BY <1>5 DEF Publishes, NoJob
  <2>2. (\A e \in book' : e.id < nextId') /\ \A e, f \in book' : e.id = f.id => e = f
    BY <2>1 DEF IdsApart
  <2>3. ASSUME NEW t \in Slots, NEW e \in job'[t].done
        PROVE  /\ e.id < nextId' /\ \A f \in book' : f.id # e.id
               /\ \A f \in job'[t].done : e.id = f.id => e = f
               /\ \A u \in Slots \ {t} : \A f \in job'[u].done : e.id # f.id
    BY <1>2, <2>1 DEF IdsApart
  <2> QED BY <2>2, <2>3 DEF IdsApart
<1>6. CASE Quiet(s)
  BY <1>3, <1>6 DEF Quiet, NoJob
<1>7. CASE Takes(s)
  BY <1>3, <1>7 DEF Takes
<1>8. CASE Plans(s)
  BY <1>3, <1>8 DEF Plans, SameRequest
<1> QED BY <1>4, <1>5, <1>6, <1>7, <1>8 DEF Kind

LEMMA IdsAlways == Spec => []IdsApart
<1>1. ASSUME IInv, TypeInv, IdsApart, [Next]_vars PROVE IdsApart'
  <2>1. CASE Idles
    BY <1>1, <2>1 DEF Idles, IdsApart
  <2> QED BY <1>1, <2>1, StepKinds, IdsStep
<1>2. ASSUME Init PROVE IdsApart
  <2>1. \A s \in Slots : job[s].done = {}
    BY <1>2 DEF Init, NoJob
  <2>2. Cardinality(Opening) \in Nat
    BY OpeningAssumption, FS_CardinalityType
  <2>3. \A e \in book : e.id < nextId
    BY <1>2, <2>2, OpeningAssumption DEF Init, Entry
  <2>4. \A e, f \in book : e.id = f.id => e = f
    BY <1>2, OpeningAssumption DEF Init
  <2> QED BY <2>1, <2>3, <2>4 DEF IdsApart
<1> QED BY <1>1, <1>2, Inductive, TypeAlways, PTL DEF Spec

-----------------------------------------------------------------------------
(* A closed period has its charges.                                        *)

(* What a transaction has posted or is about to.                           *)
Drafts(s) == job[s].todo \cup {e.draft : e \in job[s].done}

HasCharge(d, p, i) ==
    IsCharge(d) /\ d.ref.at = p /\ \E l \in d.lines : l.key = i /\ l.amount > 0

(* The item has nothing left, or its charge for the period is in hand.     *)
Handled(s, i) ==
    Left(rows, i) <= 0 \/ \E d \in Drafts(s) : HasCharge(d, job[s].period, i)

(* A pre-close goes through its agents in their order.                     *)
Orderly(s) ==
    /\ pc[s] = "plan" => job[s].todo = {}
    /\ pc[s] = "commit" => job[s].todo = {} /\ job[s].agent = "none"
    /\ job[s].op = "preclose" =>
         IF Running(s)
         THEN /\ job[s].agent \in {"amortization", "none"} => \A i \in Assets : Handled(s, i)
              /\ job[s].agent = "none" => \A i \in Prepaids : Handled(s, i)
         ELSE job[s].agent = "fx"

ClosingInv == InClosingMeansCharged /\ \A s \in Slots : Orderly(s)

(* Every month's charge of an item that costs anything comes to something. *)
MonthsCount == \A i \in Items : Cost[i] = 0 \/ HalfUp(Cost[i], Life[i]) > 0

(* What is left of an item only falls.                                     *)
LEMMA LeftFalls ==
    ASSUME TypeInv, TypeInv', book \subseteq book', NEW i \in Items
    PROVE  Left(rows, i) \in Int /\ Left(rows', i) \in Int /\ Left(rows', i) <= Left(rows, i)
<1>1. /\ book \in SUBSET Entry /\ IsFiniteSet(book) /\ rows = Mirror(book)
      /\ book' \in SUBSET Entry /\ IsFiniteSet(book')
  BY DEF TypeInv, BookTyped, Mirrors
<1>2. rows' = Mirror(book')
  BY DEF TypeInv, Mirrors, Mirror, RowsOf, Mirrored, FixedAssetTakes, PrepaidTakes,
     IntangibleTakes, Row
<1>3. rows \subseteq rows'
  BY <1>1, <1>2 DEF Mirror
<1>4. \A r \in rows' : r.key = i => r.amount >= 0
  <2>1. \A r \in rows' : r.key = i => r.amount > 0
    BY <1>1, <1>2, ItemRows
  <2>2. \A r \in rows' : r.amount \in Int
    BY <1>1, <1>2, RowsFinite DEF MirrorRow
  <2> QED BY <2>1, <2>2
<1>5. /\ rows \in SUBSET MirrorRow /\ IsFiniteSet(rows)
      /\ rows' \in SUBSET MirrorRow /\ IsFiniteSet(rows')
  BY <1>1, <1>2, RowsFinite
<1>6. Amount(rows', i) = Amount(rows, i) + Amount(rows' \ rows, i)
      /\ Amount(rows, i) \in Int /\ Amount(rows' \ rows, i) \in Int
  BY <1>3, <1>5, AmountSplit
<1>7. Amount(rows' \ rows, i) >= 0
  <2>1. rows' \ rows \in SUBSET MirrorRow /\ IsFiniteSet(rows' \ rows)
    BY <1>5, FS_Subset
  <2> QED BY <1>4, <2>1, AmountSign
<1>8. Cost[i] \in Nat
  BY MonthEndAssumption
<1> QED BY <1>6, <1>7, <1>8 DEF Left

(* What is in service is charged something.                                *)
LEMMA DueSome ==
    ASSUME TypeInv, MonthsCount, NEW i \in Items, Left(rows, i) > 0
    PROVE  Due(rows, i) \in Int /\ Due(rows, i) > 0
<1>1. /\ rows \in SUBSET MirrorRow /\ IsFiniteSet(rows) /\ rows = Mirror(book)
      /\ book \in SUBSET Entry /\ IsFiniteSet(book)
  BY RowsType DEF TypeInv, BookTyped, Mirrors
<1>2. \A r \in rows : r.key = i => r.amount >= 0
  <2>1. \A r \in rows : r.key = i => r.amount > 0
    BY <1>1, ItemRows
  <2> QED BY <1>1, <2>1 DEF MirrorRow
<1>3. Amount(rows, i) >= 0
  BY <1>1, <1>2, AmountSign
<1>4. Amount(rows, i) \in Int
  BY <1>1, Amounts
<1>5. Cost[i] \in Nat /\ Cost[i] # 0
  BY <1>3, <1>4, MonthEndAssumption DEF Left
<1> QED BY <1>1, <1>5, DueType DEF MonthsCount

(* An agent handles what it charges.                                       *)
LEMMA DepreciationHandles ==
    ASSUME TypeInv, MonthsCount, NEW p, NEW on, NEW i \in Assets, Left(rows, i) > 0
    PROVE  \E d \in Depreciation(rows, p, on) : HasCharge(d, p, i)
<1>1. Due(rows, i) \in Int /\ Due(rows, i) > 0
  BY DueSome DEF Items
<1> DEFINE ofClass(c) == InService(rows, {a \in Assets : ClassOf[a] = c})
           draft(c) == AgentDraft(Ref("DEP", p, c), on, {ChargeLine(rows, k) : k \in ofClass(c)})
           c0 == ClassOf[i]
<1>2. c0 \in Classes /\ i \in ofClass(c0)
  BY MonthEndAssumption DEF InService
<1>3. Depreciation(rows, p, on) =
        {draft(c) : c \in {k \in Classes : \E j \in ofClass(k) : Due(rows, j) # 0}}
  BY DEF Depreciation
<1>4. IsCharge(draft(c0)) /\ draft(c0).ref.at = p /\ ChargeLine(rows, i) \in draft(c0).lines
  BY <1>2 DEF IsCharge, AgentDraft, Ref
<1>5. ChargeLine(rows, i).key = i /\ ChargeLine(rows, i).amount > 0
  BY <1>1 DEF ChargeLine, SubLine
<1>6. HasCharge(draft(c0), p, i)
  BY <1>4, <1>5 DEF HasCharge
<1>7. c0 \in {k \in Classes : \E j \in ofClass(k) : Due(rows, j) # 0}
  BY <1>1, <1>2
<1> HIDE DEF draft, ofClass, c0
<1> QED BY <1>3, <1>6, <1>7

LEMMA AmortizationHandles ==
    ASSUME TypeInv, MonthsCount, NEW p, NEW on, NEW i \in Prepaids, Left(rows, i) > 0
    PROVE  \E d \in Amortization(rows, p, on) : HasCharge(d, p, i)
<1>1. Due(rows, i) \in Int /\ Due(rows, i) > 0
  BY DueSome DEF Items
<1> DEFINE d == AgentDraft(Ref("AMORT", p, i), on, {ChargeLine(rows, i)})
<1>2. d \in Amortization(rows, p, on)
  BY DEF Amortization, InService
<1>3. IsCharge(d) /\ d.ref.at = p /\ ChargeLine(rows, i) \in d.lines
  BY DEF IsCharge, AgentDraft, Ref
<1>4. ChargeLine(rows, i).key = i /\ ChargeLine(rows, i).amount > 0
  BY <1>1 DEF ChargeLine, SubLine
<1> HIDE DEF d
<1> QED BY <1>2, <1>3, <1>4 DEF HasCharge

(* What was handled stays so while the transaction keeps its drafts.       *)
LEMMA StaysHandled ==
    ASSUME TypeInv, TypeInv', book \subseteq book', NEW s \in Slots, NEW i \in Items,
           Handled(s, i), job'[s].period = job[s].period,
           \A d \in Drafts(s) : d \in Drafts(s)'
    PROVE  Handled(s, i)'
<1>1. CASE Left(rows, i) <= 0
  <2>1. Left(rows', i) <= 0
    BY <1>1, LeftFalls
  <2> QED BY <2>1 DEF Handled
<1>2. CASE \E d \in Drafts(s) : HasCharge(d, job[s].period, i)
  BY <1>2 DEF Handled, HasCharge, IsCharge
<1> QED BY <1>1, <1>2 DEF Handled

(* The steps of one slot.                                                  *)
LEMMA OrderlyQuiet ==
    ASSUME IInv, NEW s \in Slots, Orderly(s), Quiet(s) \/ Publishes(s) PROVE Orderly(s)'
<1>1. CASE pc'[s] = "idle" /\ job'[s] = NoJob
  BY <1>1 DEF Orderly, NoJob
<1>2. CASE pc'[s] \in Reads \cup {"lock", "plan"} /\ ~ Running(s) /\ job'[s] = job[s]
  <2>1. job[s].todo = {}
    BY <1>2 DEF IInv, Working
  <2>2. job[s].op = "preclose" => job[s].agent = "fx"
    BY <1>2 DEF Orderly
  <2>3. pc'[s] # "commit" /\ pc'[s] # "write"
    BY <1>2, StepsAre
  <2> QED BY <1>2, <2>1, <2>2, <2>3 DEF Orderly
<1> QED BY <1>1, <1>2 DEF Quiet, Publishes

LEMMA OrderlyTakes ==
    ASSUME NEW s \in Slots, Takes(s) PROVE Orderly(s)'
<1>1. pc'[s] \in {"status", "plan", "write"} /\ (pc'[s] = "plan" => job'[s].todo = {})
  BY DEF Takes
<1>2. job'[s].op = "preclose" => pc'[s] = "status" /\ job'[s].agent = "fx"
  BY DEF Takes
<1> QED BY <1>1, <1>2 DEF Orderly, Running

LEMMA OrderlyPlans ==
    ASSUME IInv, TypeInv, TypeInv', MonthsCount, NEW s \in Slots, Orderly(s), Plans(s)
    PROVE  Orderly(s)'
<1>1. /\ book' = book /\ rows' = rows /\ Running(s) /\ job[s].todo = {}
      /\ job'[s].op = job[s].op /\ job'[s].period = job[s].period
      /\ job'[s].agent = Following(job[s].agent)
      /\ job'[s].todo = Planned(rows, job[s]) /\ job'[s].done = job[s].done
      /\ pc'[s] = After(job'[s].agent, job'[s].todo)
  BY DEF Plans, SameRequest, Running, Orderly
<1>2. /\ pc'[s] = "plan" => job'[s].todo = {}
      /\ pc'[s] = "commit" => job'[s].todo = {} /\ job'[s].agent = "none"
      /\ Running(s)'
  BY <1>1 DEF After, Running
<1>3. ASSUME NEW i \in Items, Handled(s, i) PROVE Handled(s, i)'
  <2>1. \A d \in Drafts(s) : d \in Drafts(s)'
    BY <1>1 DEF Drafts
  <2> QED BY <1>1, <1>3, <2>1, StaysHandled
<1>4. ASSUME NEW i \in Items, Left(rows, i) > 0 => \E d \in Planned(rows, job[s]) : HasCharge(d, job[s].period, i)
      PROVE  Handled(s, i)'
  <2>1. Left(rows, i) \in Int
    BY RowsType, DueType
  <2>2. CASE Left(rows, i) > 0
    <3>1. PICK d \in Planned(rows, job[s]) : HasCharge(d, job[s].period, i)
      BY <1>4, <2>2
    <3>2. d \in Drafts(s)' /\ HasCharge(d, job'[s].period, i)
      BY <1>1, <3>1 DEF Drafts
    <3> QED BY <3>2 DEF Handled, HasCharge, IsCharge
  <2>3. CASE Left(rows, i) <= 0
    <3>1. Left(rows', i) <= 0
      BY <1>1, <2>3
    <3> QED BY <3>1 DEF Handled
  <2> QED BY <2>1, <2>2, <2>3
<1>5. ASSUME job[s].op = "preclose", job'[s].agent \in {"amortization", "none"}, NEW i \in Assets
      PROVE  Handled(s, i)'
  <2>1. CASE job[s].agent = "depreciation"
    <3>1. Planned(rows, job[s]) = Depreciation(rows, job[s].period, job[s].on)
      BY <2>1 DEF Planned
    <3> QED BY <1>4, <3>1, DepreciationHandles DEF Items
  <2>2. CASE job[s].agent # "depreciation"
    <3>1. job[s].agent \in {"amortization", "none"}
      BY <1>1, <1>5, <2>2 DEF Following, TypeInv, BookTyped, Job, Agents
    <3> QED BY <1>1, <1>3, <1>5, <3>1 DEF Orderly, Items
  <2> QED BY <2>1, <2>2
<1>6. ASSUME job[s].op = "preclose", job'[s].agent = "none", NEW i \in Prepaids
      PROVE  Handled(s, i)'
  <2>1. CASE job[s].agent = "amortization"
    <3>1. Planned(rows, job[s]) = Amortization(rows, job[s].period, job[s].on)
      BY <2>1 DEF Planned
    <3> QED BY <1>4, <3>1, AmortizationHandles DEF Items
  <2>2. CASE job[s].agent # "amortization"
    <3>1. job[s].agent = "none"
      BY <1>1, <1>6, <2>2 DEF Following, TypeInv, BookTyped, Job, Agents
    <3> QED BY <1>1, <1>3, <1>6, <3>1 DEF Orderly, Items
  <2> QED BY <2>1, <2>2
<1> QED BY <1>1, <1>2, <1>5, <1>6 DEF Orderly

LEMMA OrderlyWrites ==
    ASSUME IInv, TypeInv, TypeInv', NEW s \in Slots, Orderly(s), Writes(s)
    PROVE  Orderly(s)'
<1>1. PICK d \in job[s].todo :
         /\ book' = book /\ rows' = rows /\ Running(s)
         /\ job'[s].op = job[s].op /\ job'[s].period = job[s].period
         /\ job'[s].agent = job[s].agent
         /\ job'[s].todo = job[s].todo \ {d}
         /\ job'[s].done = job[s].done \cup {EntryOf(nextId, d)}
         /\ pc'[s] = After(job'[s].agent, job'[s].todo)
  BY DEF Writes, SameRequest, Running
<1>2. /\ pc'[s] = "plan" => job'[s].todo = {}
      /\ pc'[s] = "commit" => job'[s].todo = {} /\ job'[s].agent = "none"
      /\ Running(s)'
  BY <1>1 DEF After, Running
<1>3. ASSUME NEW i \in Items, Handled(s, i) PROVE Handled(s, i)'
  <2>1. EntryOf(nextId, d).draft = d
    BY DEF EntryOf
  <2>2. \A x \in Drafts(s) : x \in Drafts(s)'
    BY <1>1, <2>1 DEF Drafts
  <2> QED BY <1>1, <1>3, <2>2, StaysHandled
<1> QED BY <1>1, <1>2, <1>3 DEF Orderly, Items

(* The others lose nothing of what they have handled.                      *)
LEMMA OrderlyRests ==
    ASSUME TypeInv, TypeInv', book \subseteq book', NEW t \in Slots, Orderly(t),
           pc'[t] = pc[t], job'[t] = job[t]
    PROVE  Orderly(t)'
<1>1. ASSUME NEW i \in Items, Handled(t, i) PROVE Handled(t, i)'
  <2>1. \A x \in Drafts(t) : x \in Drafts(t)'
    BY DEF Drafts
  <2> QED BY <1>1, <2>1, StaysHandled
<1> QED BY <1>1 DEF Orderly, Running, Items

(* The status is written together with the charges.                        *)
LEMMA ClosingPublished ==
    ASSUME IInv, TypeInv, TypeInv', ClosingInv, NEW s \in Slots, Publishes(s),
           NEW p \in Months, NEW i \in Items, status'[p] = "IN_CLOSING"
    PROVE  (\E e \in ChargesFor(book', p) : Charges(e, i)) \/ Left(rows', i) <= 0
<1>1. book' = book \cup job[s].done
  BY DEF Publishes
<1>2. Left(rows, i) <= 0 => Left(rows', i) <= 0
  BY <1>1, LeftFalls
<1>3. CASE status[p] = "IN_CLOSING"
  BY <1>1, <1>2, <1>3 DEF ClosingInv, InClosingMeansCharged, ChargesFor
<1>4. CASE job[s].op = "preclose" /\ job[s].period = p
  <2>1. job[s].todo = {} /\ Handled(s, i)
    BY <1>4 DEF ClosingInv, Orderly, Publishes, Running, Items
  <2>2. CASE \E d \in Drafts(s) : HasCharge(d, p, i)
    <3>1. PICK e \in job[s].done : HasCharge(e.draft, p, i)
      BY <2>1, <2>2 DEF Drafts
    <3> QED BY <1>1, <3>1 DEF HasCharge, IsCharge, ChargesFor, Charges
  <2> QED BY <1>2, <1>4, <2>1, <2>2 DEF Handled
<1> QED BY <1>3, <1>4 DEF Publishes

LEMMA ClosingStep ==
    MonthsCount /\ IInv /\ TypeInv /\ TypeInv' /\ ClosingInv /\ [Next]_vars => ClosingInv'
<1> SUFFICES ASSUME MonthsCount, IInv, TypeInv, TypeInv', ClosingInv, [Next]_vars
             PROVE  ClosingInv'
  OBVIOUS
<1>1. CASE Idles
  BY <1>1 DEF Idles, ClosingInv, InClosingMeansCharged, ChargesFor, Charges, Orderly, Running,
     Handled, Drafts, HasCharge, IsCharge
<1>2. ASSUME NEW s \in Slots, Moved(s), Kind(s) PROVE ClosingInv'
  <2>1. book \subseteq book'
    BY <1>2 DEF Kind, Quiet, Takes, Plans, Writes, SameRequest, Publishes
  <2>2. Orderly(s)'
    BY <1>2, OrderlyQuiet, OrderlyTakes, OrderlyPlans, OrderlyWrites DEF Kind, ClosingInv
  <2>3. ASSUME NEW t \in Slots \ {s} PROVE Orderly(t)'
    BY <1>2, <2>1, OrderlyRests DEF Moved, ClosingInv
  <2>4. ASSUME NEW p \in Months, NEW i \in Items, status'[p] = "IN_CLOSING"
        PROVE  (\E e \in ChargesFor(book', p) : Charges(e, i)) \/ Left(rows', i) <= 0
    <3>1. CASE Publishes(s)
      BY <2>4, <3>1, ClosingPublished
    <3>2. CASE ~ Publishes(s)
      <4>1. status[p] = "IN_CLOSING"
        BY <1>2, <2>4, <3>2 DEF Kind, Quiet, NoMoreClosing, Takes, Plans, Writes, SameRequest
      <4>2. Left(rows, i) <= 0 => Left(rows', i) <= 0
        BY <2>1, LeftFalls
      <4> QED BY <2>1, <4>1, <4>2 DEF ClosingInv, InClosingMeansCharged, ChargesFor
    <3> QED BY <3>1, <3>2
  <2>5. InClosingMeansCharged'
    BY <2>4 DEF InClosingMeansCharged, ChargesFor, Charges
  <2> QED BY <2>2, <2>3, <2>5 DEF ClosingInv
<1> QED BY <1>1, <1>2, StepKinds

LEMMA ClosingInit == Init => ClosingInv
<1> SUFFICES ASSUME Init PROVE ClosingInv
  OBVIOUS
<1>1. \A p \in Months : status[p] # "IN_CLOSING"
  BY DEF Init
<1>2. \A s \in Slots : Orderly(s)
  BY DEF Init, NoJob, Orderly
<1> QED BY <1>1, <1>2 DEF ClosingInv, InClosingMeansCharged

(* A period is IN_CLOSING only when the agents have charged each of its    *)
(* assets and prepaids under its label, or found nothing left to charge -- *)
(* when a month of whatever costs anything comes to at least one unit.     *)
(* Below that depreciation passes over a class and the status is written   *)
(* all the same.                                                           *)
THEOREM Closed ==
    ASSUME MonthsCount
    PROVE  Spec => []InClosingMeansCharged
<1>1. IInv /\ TypeInv /\ TypeInv' /\ ClosingInv /\ [Next]_vars => ClosingInv'
  BY ClosingStep
<1>2. ClosingInv => InClosingMeansCharged
  BY DEF ClosingInv
<1> QED BY <1>1, <1>2, ClosingInit, Inductive, TypeAlways, PTL DEF Spec

-----------------------------------------------------------------------------
(* How much too much.                                                      *)

Monthly(i) == HalfUp(Cost[i], Life[i])
Bound(i) == Cost[i] + (Cardinality(Slots) - 1) * Monthly(i)

(* A charge of an agent has one line for an asset or a prepaid and asks    *)
(* for no more than a month.                                               *)
Modest(d) ==
    IsCharge(d) => \A l \in d.lines : l.key \in Items =>
        /\ 0 <= l.amount /\ l.amount <= Monthly(l.key)
        /\ \A k \in d.lines : k.key = l.key => k = l

(* A slot has a charge of an item in hand.                                 *)
Pends(s, i, x) ==
    \E d \in Drafts(s) : IsCharge(d) /\ \E l \in d.lines : l.key = i /\ l.amount = x

InHand(X, i) == \A s \in Slots : X[s] = 0 \/ Pends(s, i, X[s])

(* What the agents charged and what every slot has in hand stay within the *)
(* bound together.                                                         *)
OverInv ==
    /\ Opening \subseteq book
    /\ \A s \in Slots : \A d \in Drafts(s) : Modest(d)
    /\ \A i \in Items : \A X \in [Slots -> Int] :
          InHand(X, i) => Charged(i) + SumFunctionOnSet(X, Slots) <= Bound(i)

(* The book starts within the costs.                                       *)
StartsWithin ==
    Slots # {} /\ \A i \in Items : Amount(Mirror(Opening), i) <= Cost[i]

LEMMA BoundType ==
    ASSUME NEW i \in Items
    PROVE  /\ Monthly(i) \in Nat /\ Cost[i] \in Nat /\ Cardinality(Slots) \in Nat
           /\ (Cardinality(Slots) - 1) * Monthly(i) \in Int /\ Bound(i) \in Int
<1>1. Cost[i] \in Nat /\ Life[i] \in Nat \ {0}
  BY MonthEndAssumption
<1>2. Monthly(i) \in Nat
  BY <1>1, HalfUpType DEF Monthly
<1>3. Cardinality(Slots) \in Nat
  BY MonthEndAssumption, FS_CardinalityType
<1>4. (Cardinality(Slots) - 1) * Monthly(i) \in Int
  <2>1. \A m \in Nat, n \in Nat : (n - 1) * m \in Int
    OBVIOUS
  <2> QED BY <1>2, <1>3, <2>1
<1> QED BY <1>1, <1>2, <1>3, <1>4 DEF Bound

(* What the agents charged an item is no more than its sub-ledger says:    *)
(* that has what manual journals charged, too.                             *)
LEMMA ChargedBelow ==
    ASSUME TypeInv, NEW i \in Items
    PROVE  Charged(i) \in Int /\ Amount(rows, i) \in Int /\ Charged(i) <= Amount(rows, i)
<1> DEFINE C == Mirror(ByAgents(book))
<1>1. /\ book \in SUBSET Entry /\ IsFiniteSet(book) /\ rows = Mirror(book)
      /\ ByAgents(book) \subseteq book
  BY DEF TypeInv, BookTyped, Mirrors, ByAgents
<1>2. C \in SUBSET rows
  BY <1>1 DEF Mirror
<1>3. rows \in SUBSET MirrorRow /\ IsFiniteSet(rows)
  BY RowsType
<1>4. \A r \in rows \ C : r.key = i => r.amount >= 0
  <2>1. \A r \in rows : r.key = i => r.amount > 0
    BY <1>1, ItemRows
  <2>2. \A r \in rows : r.amount \in Int
    BY <1>3 DEF MirrorRow
  <2> QED BY <2>1, <2>2
<1>5. Charged(i) = Amount(C, i)
  BY DEF Charged
<1> HIDE DEF C
<1>6. /\ Amount(rows, i) = Amount(C, i) + Amount(rows \ C, i)
      /\ Amount(C, i) \in Int /\ Amount(rows \ C, i) \in Int
  BY <1>2, <1>3, AmountSplit
<1>7. Amount(rows \ C, i) >= 0
  <2>1. rows \ C \in SUBSET MirrorRow /\ IsFiniteSet(rows \ C)
    BY <1>3, FS_Subset
  <2> QED BY <1>4, <2>1, AmountSign
<1> QED BY <1>5, <1>6, <1>7

(* The lines by which the agents charge.                                   *)
LEMMA PlannedLines ==
    ASSUME NEW R, NEW j, NEW d \in Planned(R, j), NEW l \in d.lines, l.key \in Items
    PROVE  IsCharge(d) /\ l = ChargeLine(R, l.key) /\ Left(R, l.key) > 0
<1>0. Items \cap Tutors = {} /\ \A i : ChargeLine(R, i).key = i
  BY MonthEndAssumption DEF ChargeLine, SubLine
<1>1. CASE j.agent = "fx"
  <2>1. d \in Revaluation(R, j.on, j.rate)
    BY <1>1 DEF Planned
  <2>2. PICK t \in Tutors : d.lines = {RevaluationLine(R, t, j.rate)}
    BY <2>1 DEF Revaluation, OpenPositions, AgentDraft
  <2>3. l.key = t
    BY <2>2 DEF RevaluationLine, SubLine
  <2> QED BY <1>0, <2>3
<1>2. CASE j.agent = "depreciation"
  <2>1. d \in Depreciation(R, j.period, j.on)
    BY <1>2 DEF Planned
  <2>2. PICK c \in Classes :
           d = AgentDraft(Ref("DEP", j.period, c), j.on,
                 {ChargeLine(R, i) : i \in InService(R, {a \in Assets : ClassOf[a] = c})})
    BY <2>1 DEF Depreciation
  <2>3. /\ d.lines = {ChargeLine(R, i) : i \in InService(R, {a \in Assets : ClassOf[a] = c})}
        /\ IsCharge(d)
    BY <2>2 DEF AgentDraft, IsCharge, Ref
  <2>4. PICK i \in InService(R, {a \in Assets : ClassOf[a] = c}) : l = ChargeLine(R, i)
    BY <2>3
  <2> QED BY <1>0, <2>3, <2>4 DEF InService
<1>3. CASE j.agent = "amortization"
  <2>1. d \in Amortization(R, j.period, j.on)
    BY <1>3 DEF Planned
  <2>2. PICK i \in InService(R, Prepaids) :
           d = AgentDraft(Ref("AMORT", j.period, i), j.on, {ChargeLine(R, i)})
    BY <2>1 DEF Amortization
  <2>3. l = ChargeLine(R, i) /\ IsCharge(d)
    BY <2>2 DEF AgentDraft, IsCharge, Ref
  <2> QED BY <1>0, <2>2, <2>3 DEF InService
<1>4. CASE j.agent \notin {"fx", "depreciation", "amortization"}
  <2>1. d \in {}
    BY <1>4 DEF Planned
  <2> QED BY <2>1
<1> QED BY <1>1, <1>2, <1>3, <1>4

LEMMA PlannedModest ==
    ASSUME TypeInv, NEW j, NEW d \in Planned(rows, j)
    PROVE  /\ Modest(d)
           /\ \A l \in d.lines : l.key \in Items => l.amount <= Left(rows, l.key)
<1> SUFFICES ASSUME NEW l \in d.lines, l.key \in Items
             PROVE  /\ 0 <= l.amount /\ l.amount <= Monthly(l.key)
                    /\ \A k \in d.lines : k.key = l.key => k = l
                    /\ l.amount <= Left(rows, l.key)
  BY DEF Modest
<1>1. IsCharge(d) /\ l = ChargeLine(rows, l.key) /\ Left(rows, l.key) > 0
  BY PlannedLines
<1>2. \A k \in d.lines : k.key = l.key => k = ChargeLine(rows, k.key)
  BY PlannedLines
<1>3. l.amount = Due(rows, l.key)
  <2>1. ChargeLine(rows, l.key).amount = Due(rows, l.key)
    BY DEF ChargeLine, SubLine
  <2> QED BY <1>1, <2>1
<1>4. \A k \in d.lines : k.key = l.key => k = l
  BY <1>1, <1>2
<1>5. /\ Due(rows, l.key) <= Monthly(l.key) /\ Due(rows, l.key) <= Left(rows, l.key)
      /\ 0 <= Due(rows, l.key)
  BY <1>1, RowsType, DueType DEF Monthly
<1> QED BY <1>1, <1>3, <1>4, <1>5

-----------------------------------------------------------------------------
(* The steps.                                                              *)

(* A step that leaves the book and drafts no charge.                       *)
LEMMA OverFewer ==
    ASSUME OverInv, book' = book,
           \A t \in Slots : \A d \in Drafts(t)' : d \in Drafts(t) \/ ~ IsCharge(d)
    PROVE  OverInv'
<1>1. \A t \in Slots : \A d \in Drafts(t)' : Modest(d)
  BY DEF OverInv, Modest
<1>2. \A i \in Items : Charged(i)' = Charged(i)
  BY DEF Charged
<1>3. ASSUME NEW i \in Items, NEW X \in [Slots -> Int], InHand(X, i)'
      PROVE  InHand(X, i)
  <2>1. ASSUME NEW t \in Slots, Pends(t, i, X[t])' PROVE Pends(t, i, X[t])
    BY <2>1 DEF Pends, IsCharge
  <2> QED BY <1>3, <2>1 DEF InHand
<1> QED BY <1>1, <1>2, <1>3 DEF OverInv, Modest, IsCharge

LEMMA OverTakes ==
    ASSUME NEW s \in Slots, Takes(s)
    PROVE  \A d \in Drafts(s)' : ~ IsCharge(d)
<1>1. \A d \in Others : ~ IsCharge(d)
  BY DraftsAssumption DEF IsCharge
<1>2. \A e, on : ~ IsCharge(Reversal(e, on))
  BY DEF Reversal, Ref, IsCharge
<1> QED BY <1>1, <1>2 DEF Takes, Drafts

(* A plan reads what is left, and the other slots have a month in hand     *)
(* each.                                                                   *)
LEMMA OverPlans ==
    ASSUME TypeInv, OverInv, NEW s \in Slots, Moved(s), Plans(s)
    PROVE  OverInv'
<1>1. /\ book' = book /\ job'[s].todo = Planned(rows, job[s]) /\ job'[s].done = job[s].done
      /\ \A t \in Slots \ {s} : job'[t] = job[t]
  BY DEF Plans, SameRequest, Moved
<1>2. /\ \A t \in Slots \ {s} : Drafts(t)' = Drafts(t)
      /\ \A d \in Drafts(s)' : d \in Drafts(s) \/ d \in Planned(rows, job[s])
  BY <1>1 DEF Drafts
<1>3. \A t \in Slots : \A d \in Drafts(t)' : Modest(d)
  BY <1>2, PlannedModest DEF OverInv
<1>4. \A i \in Items : Charged(i)' = Charged(i)
  BY <1>1 DEF Charged
<1>5. ASSUME NEW i \in Items, NEW X \in [Slots -> Int], InHand(X, i)'
      PROVE  Charged(i) + SumFunctionOnSet(X, Slots) <= Bound(i)
  <2>1. \A t \in Slots \ {s} : X[t] = 0 \/ Pends(t, i, X[t])
    BY <1>2, <1>5 DEF InHand, Pends
  <2>2. CASE X[s] = 0 \/ Pends(s, i, X[s])
    BY <2>1, <2>2 DEF OverInv, InHand
  <2>3. CASE ~ (X[s] = 0 \/ Pends(s, i, X[s]))
    <3>1. PICK d \in Planned(rows, job[s]) : \E l \in d.lines : l.key = i /\ l.amount = X[s]
      BY <1>2, <1>5, <2>3 DEF InHand, Pends
    <3>2. X[s] <= Left(rows, i)
      BY <3>1, PlannedModest
    <3> DEFINE others == Slots \ {s}
               m == Monthly(i)
    <3>3. \A t \in others : X[t] \in Int /\ X[t] <= m
      <4>1. m \in Nat
        BY BoundType
      <4>2. ASSUME NEW t \in others, Pends(t, i, X[t]) PROVE X[t] <= m
        BY <4>2 DEF Pends, OverInv, Modest
      <4> QED BY <2>1, <4>1, <4>2
    <3>4. /\ IsFiniteSet(Slots) /\ IsFiniteSet(others)
          /\ Cardinality(others) = Cardinality(Slots) - 1
      BY MonthEndAssumption, FS_RemoveElement
    <3>5. SumFunctionOnSet(X, others) <= Cardinality(others) * m
          /\ SumFunctionOnSet(X, others) \in Int
      BY <3>3, <3>4, BoundType, SumAtMost, SumInt
    <3>6. Cardinality(others) * m = (Cardinality(Slots) - 1) * m
      BY <3>4
    <3>7. SumFunctionOnSet(X, Slots) = X[s] + SumFunctionOnSet(X, others)
      BY <3>4, SumRemove
    <3>8. /\ Charged(i) \in Int /\ Amount(rows, i) \in Int /\ Charged(i) <= Amount(rows, i)
          /\ Left(rows, i) = Cost[i] - Amount(rows, i)
      BY ChargedBelow DEF Left
    <3>9. Cost[i] \in Nat /\ (Cardinality(Slots) - 1) * m \in Int
          /\ Bound(i) = Cost[i] + (Cardinality(Slots) - 1) * m
      BY BoundType DEF Bound
    <3> HIDE DEF others, m
    <3> QED BY <3>2, <3>5, <3>6, <3>7, <3>8, <3>9
  <2> QED BY <2>2, <2>3
<1> QED BY <1>1, <1>3, <1>4, <1>5 DEF OverInv, Modest, IsCharge

(* What a transaction brings into the book charges an item what the        *)
(* transaction had in hand, once.                                          *)
LEMMA BroughtIn ==
    ASSUME IInv, TypeInv, IdsApart, OverInv, NEW s \in Slots, NEW i \in Items
    PROVE  LET a == Amount(Mirror(ByAgents(job[s].done)), i)
           IN  a \in Int /\ (a = 0 \/ Pends(s, i, a))
<1> DEFINE F == ByAgents(job[s].done)
           C == Mirror(F)
           a == Amount(C, i)
           S == {r \in C : r.key = i}
<1>1. F \subseteq job[s].done /\ F \in SUBSET Entry /\ IsFiniteSet(F)
  BY FS_Subset DEF TypeInv, BookTyped, Job, ByAgents
<1>2. C \in SUBSET MirrorRow /\ IsFiniteSet(C)
  BY <1>1, RowsFinite
<1>3. a = SumFunctionOnSet(AmountAt, S) /\ a \in Int
  BY <1>2, Amounts
<1>4. CASE S = {}
  <2>1. SumFunctionOnSet(AmountAt, {}) = 0
    BY SumEmpty
  <2>2. a = 0
    BY <1>3, <1>4, <2>1, Zenon
  <2> QED BY <1>3, <2>2
<1>5. CASE S # {}
  <2>1. PICK e \in F : \E l \in e.draft.lines : l.key = i /\ Mirrored(l)
    BY <1>5 DEF Mirror, RowsOf, Row
  <2>2. PICK l \in e.draft.lines : l.key = i /\ Mirrored(l)
    BY <2>1
  <2>3. \A f \in F : /\ f \in job[s].done /\ IsCharge(f.draft)
                     /\ Modest(f.draft) /\ Makes(s, f.draft)
    <3>1. \A f \in job[s].done : f \notin Opening
      BY DEF OverInv, IdsApart
    <3> QED BY <1>1, <3>1 DEF ByAgents, OverInv, Drafts, IInv, Working
  <2>4. ASSUME NEW f \in F, NEW k \in f.draft.lines, k.key = i PROVE f = e /\ k = l
    <3>1. IsCharge(f.draft) /\ IsCharge(e.draft)
      BY <2>3
    <3>2. /\ f.draft.ref = Ref(f.draft.ref.kind, job[s].period, f.draft.ref.key)
          /\ e.draft.ref = Ref(e.draft.ref.kind, job[s].period, e.draft.ref.key)
      BY <2>3, <3>1 DEF Makes, WellNamed
    <3>3. \A g \in F : \A h \in g.draft.lines : h.key = i /\ IsCharge(g.draft) =>
             IF i \in Assets THEN g.draft.ref.kind = "DEP" /\ g.draft.ref.key = ClassOf[i]
                             ELSE g.draft.ref.kind = "AMORT" /\ g.draft.ref.key = i
      BY <2>3, MonthEndAssumption DEF Makes, WellNamed, IsCharge
    <3>4. f.draft.ref = e.draft.ref
      BY <2>2, <2>4, <3>1, <3>2, <3>3
    <3>5. e.draft.ref # NoRef
      BY <3>1 DEF IsCharge, NoRef, Ref
    <3>6. f = e
      BY <2>3, <3>4, <3>5 DEF IInv, RefsApart, SameRef
    <3> QED BY <2>2, <2>3, <2>4, <3>6 DEF Modest
  <2> DEFINE row == Row(e.id, l)
  <2>5. S = {row}
    <3>1. row \in C /\ row.key = i
      BY <2>2 DEF Mirror, RowsOf, Row
    <3>2. ASSUME NEW r \in S PROVE r = row
      <4>1. PICK f \in F : \E k \in f.draft.lines : r = Row(f.id, k)
        BY DEF Mirror, RowsOf
      <4>2. PICK k \in f.draft.lines : r = Row(f.id, k)
        BY <4>1
      <4>3. k.key = i
        BY <4>2 DEF Row
      <4>4. f = e /\ k = l
        BY <2>4, <4>3
      <4> QED BY <4>2, <4>4
    <3> QED BY <3>1, <3>2
  <2>6. AmountAt[row] = l.amount /\ AmountAt[row] \in Int
    <3>1. row \in MirrorRow /\ row.amount = l.amount
      BY <1>2, <2>5 DEF Row
    <3> QED BY <3>1 DEF AmountAt, MirrorRow
  <2>7. SumFunctionOnSet(AmountAt, {row}) = l.amount
    <3>1. IsFiniteSet({}) /\ {} \cup {row} = {row} /\ row \notin {}
      BY FS_EmptySet
    <3>2. \A x \in {} \cup {row} : AmountAt[x] \in Int
      BY <2>6
    <3> HIDE DEF row
    <3>3. SumFunctionOnSet(AmountAt, {} \cup {row}) = AmountAt[row] + SumFunctionOnSet(AmountAt, {})
      BY <3>1, <3>2, SumAdd
    <3> QED BY <2>6, <3>1, <3>3, SumEmpty
  <2>8. a = l.amount
    BY <1>3, <2>5, <2>7, Zenon
  <2>9. e.draft \in Drafts(s)
    BY <2>3 DEF Drafts
  <2>10. Pends(s, i, l.amount)
    BY <2>2, <2>3, <2>9 DEF Pends
  <2> QED BY <1>3, <2>8, <2>10
<1> QED BY <1>4, <1>5

(* A commit turns what its slot had in hand into charges.                  *)
LEMMA ChargedGrows ==
    ASSUME TypeInv, IdsApart, NEW s \in Slots, book' = book \cup job[s].done, NEW i \in Items
    PROVE  Charged(i)' = Charged(i) + Amount(Mirror(ByAgents(job[s].done)), i)
<1> DEFINE E == ByAgents(book)
           F == ByAgents(job[s].done)
           T == Mirror(E)
           D == Mirror(F)
           C == Mirror(E \cup F)
<1>1. /\ book \in SUBSET Entry /\ IsFiniteSet(book)
      /\ job[s].done \in SUBSET Entry /\ IsFiniteSet(job[s].done)
  BY DEF TypeInv, BookTyped, Job
<1>2. /\ E \in SUBSET Entry /\ IsFiniteSet(E)
      /\ F \in SUBSET Entry /\ IsFiniteSet(F)
      /\ E \cup F \in SUBSET Entry /\ IsFiniteSet(E \cup F)
  BY <1>1, FS_Subset, FS_Union DEF ByAgents
<1>3. C \in SUBSET MirrorRow /\ IsFiniteSet(C)
  BY <1>2, RowsFinite
<1>4. C = T \cup D
  BY DEF Mirror
<1>5. T \cap D = {}
  <2>1. ASSUME NEW r \in T, r \in D PROVE FALSE
    <3>1. PICK e \in E : r.je = e.id
      BY <2>1 DEF Mirror, RowsOf, Row
    <3>2. PICK f \in F : r.je = f.id
      BY <2>1 DEF Mirror, RowsOf, Row
    <3>3. e \in book /\ f \in job[s].done
      BY DEF ByAgents
    <3> QED BY <3>1, <3>2, <3>3 DEF IdsApart
  <2> QED BY <2>1
<1>6. Charged(i) = Amount(T, i)
  BY DEF Charged
<1>7. Charged(i)' = Amount(C, i)
  <2>1. ByAgents(book') = E \cup F
    BY DEF ByAgents
  <2>2. Charged(i)' = Amount(Mirror(ByAgents(book')), i)
    BY DEF Charged, ByAgents, IsCharge
  <2> HIDE DEF E, F
  <2> QED BY <2>1, <2>2
<1> HIDE DEF C, T, D
<1>8. Amount(C, i) = Amount(T, i) + Amount(C \ T, i)
  BY <1>3, <1>4, AmountSplit
<1>9. C \ T = D
  BY <1>4, <1>5
<1> QED BY <1>6, <1>7, <1>8, <1>9 DEF D

LEMMA OverPublishes ==
    ASSUME IInv, TypeInv, IdsApart, OverInv, NEW s \in Slots, Moved(s), Publishes(s)
    PROVE  OverInv'
<1>1. /\ book' = book \cup job[s].done /\ job'[s].todo = {} /\ job'[s].done = {}
      /\ \A t \in Slots \ {s} : job'[t] = job[t]
  BY DEF Publishes, Moved, NoJob
<1>2. Drafts(s)' = {} /\ \A t \in Slots \ {s} : Drafts(t)' = Drafts(t)
  BY <1>1 DEF Drafts
<1>3. \A t \in Slots : \A d \in Drafts(t)' : Modest(d)
  BY <1>2 DEF OverInv
<1>4. ASSUME NEW i \in Items, NEW X \in [Slots -> Int], InHand(X, i)'
      PROVE  Charged(i)' + SumFunctionOnSet(X, Slots) <= Bound(i)
  <2> DEFINE a == Amount(Mirror(ByAgents(job[s].done)), i)
             Y == [X EXCEPT ![s] = a]
             others == Slots \ {s}
  <2>1. a \in Int /\ (a = 0 \/ Pends(s, i, a))
    BY BroughtIn
  <2>2. X[s] = 0 /\ \A t \in others : X[t] = 0 \/ Pends(t, i, X[t])
    BY <1>2, <1>4 DEF InHand, Pends
  <2>3. Charged(i)' = Charged(i) + a
    BY <1>1, ChargedGrows
  <2> HIDE DEF a
  <2>4. Y \in [Slots -> Int] /\ Y[s] = a /\ \A t \in others : Y[t] = X[t]
    BY <2>1
  <2>5. InHand(Y, i)
    BY <2>1, <2>2, <2>4 DEF InHand
  <2> HIDE DEF Y
  <2>6. Charged(i) + SumFunctionOnSet(Y, Slots) <= Bound(i)
    BY <2>4, <2>5 DEF OverInv
  <2>7. IsFiniteSet(Slots) /\ IsFiniteSet(others)
    BY MonthEndAssumption, FS_RemoveElement
  <2>8. /\ SumFunctionOnSet(Y, Slots) = a + SumFunctionOnSet(Y, others)
        /\ SumFunctionOnSet(X, Slots) = SumFunctionOnSet(X, others)
    <3>1. \A t \in Slots : X[t] \in Int /\ Y[t] \in Int
      BY <2>4
    <3>2. SumFunctionOnSet(Y, Slots) = Y[s] + SumFunctionOnSet(Y, others)
      BY <2>7, <3>1, SumRemove
    <3>3. SumFunctionOnSet(X, Slots) = X[s] + SumFunctionOnSet(X, others)
          /\ SumFunctionOnSet(X, others) \in Int
      BY <2>7, <3>1, SumRemove, SumInt
    <3> QED BY <2>2, <2>4, <3>2, <3>3
  <2>9. SumFunctionOnSet(Y, others) = SumFunctionOnSet(X, others)
        /\ SumFunctionOnSet(X, others) \in Int
    BY <2>4, <2>7, SumEqual, SumInt
  <2>10. Charged(i) \in Int /\ Bound(i) \in Int
    BY ChargedBelow, BoundType
  <2> QED BY <2>1, <2>3, <2>6, <2>8, <2>9, <2>10
<1> QED BY <1>1, <1>3, <1>4 DEF OverInv, Modest, IsCharge

LEMMA OverStep ==
    IInv /\ TypeInv /\ IdsApart /\ OverInv /\ [Next]_vars => OverInv'
<1> SUFFICES ASSUME IInv, TypeInv, IdsApart, OverInv, [Next]_vars PROVE OverInv'
  OBVIOUS
<1>1. CASE Idles
  <2>1. \A t \in Slots : Drafts(t)' = Drafts(t)
    BY <1>1 DEF Idles, Drafts
  <2> QED BY <1>1, <2>1, OverFewer DEF Idles
<1>2. ASSUME NEW s \in Slots, Moved(s), Kind(s) PROVE OverInv'
  <2>1. \A t \in Slots \ {s} : Drafts(t)' = Drafts(t)
    BY <1>2 DEF Moved, Drafts
  <2>2. CASE Quiet(s)
    <3>1. book' = book /\ \A d \in Drafts(s)' : d \in Drafts(s)
      BY <2>2 DEF Quiet, Drafts, NoJob
    <3> QED BY <2>1, <3>1, OverFewer
  <2>3. CASE Takes(s)
    <3>1. book' = book /\ \A d \in Drafts(s)' : ~ IsCharge(d)
      BY <2>3, OverTakes DEF Takes
    <3> QED BY <2>1, <3>1, OverFewer
  <2>4. CASE Writes(s)
    <3>1. PICK d \in job[s].todo : /\ book' = book
                                   /\ job'[s].todo = job[s].todo \ {d}
                                   /\ job'[s].done = job[s].done \cup {EntryOf(nextId, d)}
      BY <2>4 DEF Writes, SameRequest
    <3>2. EntryOf(nextId, d).draft = d
      BY DEF EntryOf
    <3>3. \A x \in Drafts(s)' : x \in Drafts(s)
      BY <3>1, <3>2 DEF Drafts
    <3> QED BY <2>1, <3>1, <3>3, OverFewer
  <2> QED BY <1>2, <2>2, <2>3, <2>4, OverPlans, OverPublishes DEF Kind
<1> QED BY <1>1, <1>2, StepKinds

LEMMA OverInit == StartsWithin /\ Init => OverInv
<1> SUFFICES ASSUME StartsWithin, Init PROVE OverInv
  OBVIOUS
<1>1. \A s \in Slots : Drafts(s) = {}
  BY DEF Init, NoJob, Drafts
<1>2. ASSUME NEW i \in Items, NEW X \in [Slots -> Int], InHand(X, i)
      PROVE  Charged(i) + SumFunctionOnSet(X, Slots) <= Bound(i)
  <2>1. \A s \in Slots : X[s] = 0
    BY <1>1, <1>2 DEF InHand, Pends
  <2>2. SumFunctionOnSet(X, Slots) = 0
    BY <2>1, SumZero, MonthEndAssumption
  <2>3. Charged(i) = Amount(Mirror(Opening), i)
    <3>1. ByAgents(book) = Opening
      BY DEF Init, ByAgents
    <3>2. Charged(i) = Amount(Mirror(ByAgents(book)), i)
      BY DEF Charged
    <3> QED BY <3>1, <3>2, Zenon
  <2>4. (Cardinality(Slots) - 1) * Monthly(i) >= 0
    <3>1. Cardinality(Slots) - 1 \in Nat
      <4>1. Cardinality(Slots) # 0 /\ Cardinality(Slots) \in Nat
        BY MonthEndAssumption, FS_EmptySet, FS_CardinalityType DEF StartsWithin
      <4> QED BY <4>1
    <3>2. \A m, n \in Nat : m * n >= 0
      OBVIOUS
    <3> QED BY <3>1, <3>2, BoundType
  <2>5. Charged(i) \in Int
    BY TypeInit, ChargedBelow
  <2>6. Charged(i) <= Cost[i]
    BY <2>3 DEF StartsWithin
  <2> QED BY <2>2, <2>4, <2>5, <2>6, BoundType DEF Bound
<1>3. Opening \subseteq book
  BY DEF Init
<1> QED BY <1>1, <1>2, <1>3 DEF OverInv

(* Pre-closes of different periods that overlap charge an item at most one *)
(* month too much for each connection beyond the first, however many there *)
(* are, whatever fails and whatever manual journals charge beside them:    *)
(* when the book starts within the costs.                                  *)
THEOREM Overcharged ==
    ASSUME StartsWithin
    PROVE  Spec => []OverchargeBounded
<1>1. IInv /\ TypeInv /\ IdsApart /\ OverInv /\ [Next]_vars => OverInv'
  BY OverStep
<1>2. Init => OverInv
  BY OverInit
<1>3. TypeInv /\ OverInv => OverchargeBounded
  <2> SUFFICES ASSUME TypeInv, OverInv, NEW i \in Items
               PROVE  Charged(i) <= Cost[i] + (Cardinality(Slots) - 1) * HalfUp(Cost[i], Life[i])
    BY DEF OverchargeBounded
  <2> DEFINE X == [s \in Slots |-> 0]
  <2>1. X \in [Slots -> Int] /\ InHand(X, i) /\ \A s \in Slots : X[s] = 0
    BY DEF InHand
  <2>2. SumFunctionOnSet(X, Slots) = 0
    <3> HIDE DEF X
    <3> QED BY <2>1, SumZero, MonthEndAssumption
  <2>3. Charged(i) + SumFunctionOnSet(X, Slots) <= Bound(i)
    BY <2>1 DEF OverInv
  <2> QED BY <2>2, <2>3, ChargedBelow, BoundType DEF Bound, Monthly
<1> QED BY <1>1, <1>2, <1>3, Inductive, TypeAlways, IdsAlways, PTL DEF Spec
=============================================================================
