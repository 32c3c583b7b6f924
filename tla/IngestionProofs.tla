-------------------------- MODULE IngestionProofs --------------------------
(***************************************************************************)
(* Proofs about Ingestion.  Its inductive invariant falls into the types,  *)
(* what transactions may count on (Postings) and what is known of a batch  *)
(* under way (Accounts); most steps leave the last two to lemmas on the    *)
(* kind of step they are.                                                  *)
(***************************************************************************)
EXTENDS Ingestion, FiniteSetTheorems, TLAPS

Postings ==
    /\ \A s \in Slots : Fits(s)
    /\ \A s, t \in Slots : s # t => Apart(s, t)
    /\ PostedOnce /\ RowsBacked

Accounts ==
    /\ \A s \in Slots : Progress(s)
    /\ IsFiniteSet(quarantine)
    /\ \A b \in Batches : batches[b].status = "none" => InQuarantine(b) = {}
    /\ DoneAccounts

(* The invariant is the conjunction of the three.                          *)
LEMMA Parts == IInv <=> TypeOK /\ Postings /\ Accounts
BY Zenon DEF IInv, Postings, Accounts

-----------------------------------------------------------------------------
(* The fields of a job, and the row it is at.                              *)
LEMMA JobFields ==
    ASSUME TypeOK, NEW s \in Slots
    PROVE  /\ job[s] \in Job /\ job[s].batch \in Batches
           /\ job[s].row \in Nat \ {0}
           /\ job[s].drafts \subseteq Entries /\ job[s].inserted \subseteq Entries
           /\ job[s].accepted \in Nat /\ job[s].skipped \in Nat
           /\ job[s].quarantined \in Nat
           /\ Content[job[s].batch] \in Seq(Row)
           /\ Len(Content[job[s].batch]) \in Nat
           /\ pc[s] \in Steps
<1>1. job[s] \in Job /\ pc[s] \in Steps
  BY DEF TypeOK
<1>2. job[s].batch \in Batches /\ Content[job[s].batch] \in Seq(Row)
  BY <1>1, IngestionAssumption DEF Job
<1>3. Len(Content[job[s].batch]) \in Nat
  BY <1>2
<1> QED BY <1>1, <1>2, <1>3 DEF Job

(* A row within its batch is a Row.                                        *)
LEMMA RowFields ==
    ASSUME TypeOK, NEW s \in Slots, job[s].row <= Len(Content[job[s].batch])
    PROVE  /\ RowOf(job[s]) \in Row /\ Id(s) \in Ids
           /\ RowOf(job[s]).valid \in BOOLEAN
           /\ RowOf(job[s]).taught \in BOOLEAN /\ RowOf(job[s]).absent \in BOOLEAN
<1>1. job[s].row \in 1 .. Len(Content[job[s].batch])
  BY JobFields
<1>2. RowOf(job[s]) \in Row
  BY <1>1, JobFields DEF RowOf
<1> QED BY <1>2 DEF Row, Id

(* The jobs that the actions write.                                        *)
LEMMA NewJobType ==
    ASSUME NEW b \in Batches
    PROVE  /\ NewJob(b) \in Job /\ NewJob(b).batch = b /\ NewJob(b).row = 1
           /\ NewJob(b).drafts = {} /\ NewJob(b).inserted = {}
           /\ NewJob(b).accepted = 0 /\ NewJob(b).skipped = 0
           /\ NewJob(b).quarantined = 0
BY DEF NewJob, Job

(* The job of a slot at rest.                                              *)
LEMMA NoJobType ==
    NoJob \in Job /\ NoJob.drafts = {} /\ NoJob.inserted = {}
<1>1. (CHOOSE b \in Batches : TRUE) \in Batches
  BY IngestionAssumption, Zenon
<1> QED BY <1>1, NewJobType DEF NoJob

(* A job with other drafts is where it was.                                *)
LEMMA WithType ==
    ASSUME NEW j \in Job, NEW ds \in SUBSET Entries, NEW es \in SUBSET Entries
    PROVE  /\ With(j, ds, es) \in Job /\ With(j, ds, es).batch = j.batch
           /\ With(j, ds, es).row = j.row
           /\ With(j, ds, es).drafts = ds /\ With(j, ds, es).inserted = es
           /\ With(j, ds, es).accepted = j.accepted
           /\ With(j, ds, es).skipped = j.skipped
           /\ With(j, ds, es).quarantined = j.quarantined
BY DEF With, Job

(* A job at the next row has nothing drafted.                              *)
LEMMA NextRowType ==
    ASSUME NEW j \in Job, NEW a \in {0, 1}, NEW k \in {0, 1}, NEW q \in {0, 1}
    PROVE  /\ NextRow(j, a, k, q) \in Job /\ NextRow(j, a, k, q).batch = j.batch
           /\ NextRow(j, a, k, q).row = j.row + 1
           /\ NextRow(j, a, k, q).drafts = {} /\ NextRow(j, a, k, q).inserted = {}
           /\ NextRow(j, a, k, q).accepted = j.accepted + a
           /\ NextRow(j, a, k, q).skipped = j.skipped + k
           /\ NextRow(j, a, k, q).quarantined = j.quarantined + q
BY DEF NextRow, Job

(* Drafts are entries of a session.                                        *)
LEMMA DraftsType ==
    ASSUME NEW row, NEW data PROVE Drafts(row, data) \subseteq Entries
BY DEF Drafts

(* A batch as it is written at first.                                      *)
LEMMA NewBatchType ==
    ASSUME NEW st \in {"none", "processing", "done", "failed"}
    PROVE  NewBatch(st) \in Batch /\ NewBatch(st).status = st
BY DEF NewBatch, Batch

-----------------------------------------------------------------------------
(* A slot that moved and the others that did not.                          *)
Moved(s) == \A t \in Slots : t # s => pc'[t] = pc[t] /\ job'[t] = job[t]

(* A step that leaves the book alone and its slot outside a transaction.   *)
LEMMA PostingsKept ==
    ASSUME TypeOK, Postings, NEW s \in Slots, Moved(s),
           UNCHANGED <<book, sessions>>,
           pc'[s] # "post", job'[s].inserted = {},
           pc'[s] = "lookup" => RowOf(job'[s]).valid
    PROVE  Postings'
<1>1. \A t \in Slots : t # s => pc'[t] = pc[t] /\ job'[t] = job[t] /\ Id(t)' = Id(t)
                                /\ RowOf(job[t])' = RowOf(job[t])
  BY DEF Moved, Id, RowOf
<1>2. \A id, e : InBook(id, e)' = InBook(id, e)
  BY DEF InBook
<1>4. ASSUME NEW t \in Slots PROVE Fits(t)'
  <2>1. CASE t = s
    BY <2>1 DEF Fits, RowOf
  <2>2. CASE t # s
    BY <1>1, <1>2, <2>2 DEF Postings, Fits
  <2> QED BY <2>1, <2>2
<1>5. ASSUME NEW t \in Slots, NEW u \in Slots, t # u PROVE Apart(t, u)'
  BY <1>1, <1>5 DEF Postings, Apart, InFlight
<1>6. PostedOnce' /\ RowsBacked'
  BY <1>2 DEF Postings, PostedOnce, RowsBacked
<1> QED BY <1>4, <1>5, <1>6 DEF Postings

(* A row stays accounted for while quarantine and master.sessions grow.    *)
LEMMA StaysAccounted ==
    ASSUME TypeOK, quarantine \subseteq quarantine',
           \A id \in Ids : sessions[id].there => sessions'[id].there,
           NEW b \in Batches, NEW i \in 1 .. Len(Content[b]), Accounted(b, i)
    PROVE  Accounted(b, i)'
<1>1. Content[b] \in Seq(Row)
  BY IngestionAssumption
<1>2. Content[b][i] \in Row
  BY <1>1
<1>3. Content[b][i].id \in Ids
  BY <1>2 DEF Row
<1>4. InQuarantine(b) \subseteq InQuarantine(b)'
  BY DEF InQuarantine
<1> QED BY <1>3, <1>4 DEF Accounted

(* A step that leaves the batches and the quarantine alone, and its slot   *)
(* where it is in its batch, or idle.                                      *)
LEMMA AccountsKept ==
    ASSUME TypeOK, Accounts, NEW s \in Slots, Moved(s),
           UNCHANGED <<batches, quarantine>>,
           \A id \in Ids : sessions[id].there => sessions'[id].there,
           \/ pc'[s] = "idle"
           \/ /\ pc[s] # "idle"
              /\ job'[s].batch = job[s].batch /\ job'[s].row = job[s].row
              /\ job'[s].accepted = job[s].accepted /\ job'[s].skipped = job[s].skipped
              /\ job'[s].quarantined = job[s].quarantined
    PROVE  Accounts'
<1>1. \A b : InQuarantine(b)' = InQuarantine(b)
  BY DEF InQuarantine
<1>2. ASSUME NEW b \in Batches, NEW i \in 1 .. Len(Content[b]), Accounted(b, i)
      PROVE  Accounted(b, i)'
  BY <1>2, StaysAccounted
<1>3. ASSUME NEW t \in Slots PROVE Progress(t)'
  <2>1. CASE pc'[t] = "idle"
    BY <2>1 DEF Progress
  <2>2. CASE pc'[t] # "idle"
    <3>1. /\ pc[t] # "idle" /\ Progress(t)
          /\ job'[t].batch = job[t].batch /\ job'[t].row = job[t].row
          /\ job'[t].accepted = job[t].accepted /\ job'[t].skipped = job[t].skipped
          /\ job'[t].quarantined = job[t].quarantined
      BY <2>2 DEF Accounts, Moved
    <3>2. \A u \in Slots \ {t} : pc'[u] # "idle" => job'[u].batch # job[t].batch
      BY <3>1 DEF Moved, Progress
    <3>3. \A i \in 1 .. job[t].row - 1 : i \in 1 .. Len(Content[job[t].batch])
      BY <3>1, JobFields DEF Progress
    <3>4. \A i \in 1 .. job[t].row - 1 : Accounted(job[t].batch, i)'
      BY <1>2, <3>1, <3>3, JobFields DEF Progress
    <3> QED BY <1>1, <3>1, <3>2, <3>4 DEF Progress
  <2> QED BY <2>1, <2>2
<1>4. DoneAccounts'
  BY <1>1, <1>2 DEF Accounts, DoneAccounts
<1>5. IsFiniteSet(quarantine')
  BY DEF Accounts
<1>6. \A b \in Batches : batches'[b].status = "none" => InQuarantine(b)' = {}
  BY <1>1 DEF Accounts
<1> QED BY <1>3, <1>4, <1>5, <1>6 DEF Accounts
-----------------------------------------------------------------------------
OnRow == {"lookup", "post", "reject", "refuse"}
RowThere(s) == pc[s] \in OnRow => job[s].row <= Len(Content[job[s].batch])

(* Master data that a step leaves alone keeps its type.                    *)
LEMMA MasterTyped ==
    ASSUME TypeOK, UNCHANGED master
    PROVE  enrolled' \subseteq Enrollments /\ rates' \subseteq Rates
BY DEF TypeOK, master

(* The types, for a slot that moves within them.                           *)
LEMMA TypeKept ==
    ASSUME TypeOK, NEW s \in Slots, Moved(s), RowThere(s)',
           pc' \in [Slots -> Steps], job' \in [Slots -> Job],
           batches' \in [Batches -> Batch], book' \in [Ids -> [Entries -> Nat]],
           sessions' \in [Ids -> SessionRow], quarantine' \subseteq Quarantined,
           enrolled' \subseteq Enrollments, rates' \subseteq Rates
    PROVE  TypeOK'
<1>1. ASSUME NEW t \in Slots PROVE RowThere(t)'
  BY DEF TypeOK, Moved, RowThere, OnRow
<1>2. (rates \subseteq Rates)'
  BY DEF Rates
<1> QED BY <1>1, <1>2 DEF TypeOK, RowThere, OnRow

(* A step that changes no table, and leaves its slot outside of a          *)
(* transaction, where it is in its batch or idle.                          *)
LEMMA QuietKept ==
    ASSUME IInv, NEW s \in Slots, Moved(s), RowThere(s)',
           pc' \in [Slots -> Steps], job' \in [Slots -> Job],
           UNCHANGED <<batches, book, sessions, quarantine, master>>,
           pc'[s] # "post", job'[s].inserted = {},
           pc'[s] = "lookup" => RowOf(job'[s]).valid,
           \/ pc'[s] = "idle"
           \/ /\ pc[s] # "idle"
              /\ job'[s].batch = job[s].batch /\ job'[s].row = job[s].row
              /\ job'[s].accepted = job[s].accepted /\ job'[s].skipped = job[s].skipped
              /\ job'[s].quarantined = job[s].quarantined
    PROVE  IInv'
<1>1. TypeOK /\ Postings /\ Accounts
  BY Parts
<1>2. TypeOK'
  <2>1. /\ batches' \in [Batches -> Batch] /\ book' \in [Ids -> [Entries -> Nat]]
        /\ sessions' \in [Ids -> SessionRow] /\ quarantine' \subseteq Quarantined
        /\ enrolled' \subseteq Enrollments /\ rates' \subseteq Rates
    BY <1>1 DEF TypeOK, master, Rates
  <2> QED BY <1>1, <2>1, TypeKept, MasterTyped
<1>3. Postings'
  BY <1>1, PostingsKept
<1>4. Accounts'
  BY <1>1, AccountsKept
<1> QED BY <1>2, <1>3, <1>4 DEF IInv, Postings, Accounts

(* The call ends with its transaction rolled back.                         *)
LEMMA EndKept ==
    ASSUME IInv, NEW s \in Slots, End(s),
           UNCHANGED <<batches, book, sessions, quarantine, master>>
    PROVE  IInv'
<1>1. /\ pc' \in [Slots -> Steps] /\ job' \in [Slots -> Job]
      /\ Moved(s) /\ pc'[s] = "idle" /\ job'[s] = NoJob
  BY NoJobType DEF End, SetJob, IInv, TypeOK, Moved, Steps
<1>2. RowThere(s)'
  BY <1>1 DEF RowThere, OnRow
<1> QED BY <1>1, <1>2, NoJobType, QuietKept

(* The transaction is rolled back and the row to be put in quarantine.     *)
LEMMA RefuseKept ==
    ASSUME IInv, NEW s \in Slots, Refuse(s),
           UNCHANGED <<batches, book, sessions, quarantine, master>>
    PROVE  IInv'
<1> DEFINE j == With(job[s], {}, {})
<1>1. job[s] \in Job /\ pc[s] = "post" /\ job[s].row <= Len(Content[job[s].batch])
  BY DEF IInv, TypeOK, Refuse, Goto
<1>2. /\ j \in Job /\ j.batch = job[s].batch /\ j.row = job[s].row
      /\ j.drafts = {} /\ j.inserted = {} /\ j.accepted = job[s].accepted
      /\ j.skipped = job[s].skipped /\ j.quarantined = job[s].quarantined
  BY <1>1, WithType
<1>3. pc' = [pc EXCEPT ![s] = "refuse"] /\ job' = [job EXCEPT ![s] = j]
  BY DEF Refuse, Goto, SetJob
<1> HIDE DEF j
<1>4. /\ pc' \in [Slots -> Steps] /\ job' \in [Slots -> Job]
      /\ Moved(s) /\ pc'[s] = "refuse" /\ job'[s] = j
  BY <1>2, <1>3 DEF IInv, TypeOK, Moved, Steps
<1>5. RowThere(s)'
  BY <1>1, <1>2, <1>4 DEF RowThere
<1> QED BY <1>1, <1>2, <1>4, <1>5, QuietKept
-----------------------------------------------------------------------------
(* A step that takes its slot to the next row, the row at hand accounted   *)
(* for by one of its counters.                                             *)
LEMMA AdvanceKept ==
    ASSUME TypeOK, Accounts, NEW s \in Slots, Moved(s), UNCHANGED batches,
           NEW b \in Batches, b = job[s].batch, NEW i \in Nat \ {0}, i = job[s].row,
           pc[s] # "idle", i <= Len(Content[b]),
           job'[s].batch = b, job'[s].row = i + 1,
           job'[s].accepted + job'[s].skipped + job'[s].quarantined =
               job[s].accepted + job[s].skipped + job[s].quarantined + 1,
           \A id \in Ids : sessions[id].there => sessions'[id].there,
           quarantine \subseteq quarantine', IsFiniteSet(quarantine'),
           job'[s].quarantined = Cardinality(InQuarantine(b)'),
           \A q \in InQuarantine(b)' : q.row < i + 1,
           \A c \in Batches : c # b => InQuarantine(c)' = InQuarantine(c),
           Accounted(b, i)'
    PROVE  Accounts'
<1>1. Len(Content[b]) \in Nat /\ Progress(s) /\ batches[b].status = "processing"
  BY JobFields DEF Accounts, Progress
<1>2. ASSUME NEW c \in Batches, NEW k \in 1 .. Len(Content[c]), Accounted(c, k)
      PROVE  Accounted(c, k)'
  BY <1>2, StaysAccounted
<1>3. Progress(s)'
  <2>1. \A k \in 1 .. i : Accounted(b, k)'
    <3>1. ASSUME NEW k \in 1 .. i PROVE Accounted(b, k)'
      <4>1. CASE k = i
        BY <4>1
      <4>2. CASE k # i
        <5>1. k \in 1 .. i - 1 /\ k \in 1 .. Len(Content[b])
          BY <1>1, <4>2
        <5>2. Accounted(b, k)
          BY <1>1, <5>1 DEF Progress
        <5> QED BY <1>2, <5>1, <5>2
      <4> QED BY <4>1, <4>2
    <3> QED BY <3>1
  <2>2. job'[s].accepted + job'[s].skipped + job'[s].quarantined = i
    BY <1>1, JobFields DEF Progress
  <2>3. \A t \in Slots \ {s} : pc'[t] # "idle" => job'[t].batch # b
    BY <1>1 DEF Progress, Moved
  <2> QED BY <1>1, <2>1, <2>2, <2>3 DEF Progress
<1>4. ASSUME NEW t \in Slots, t # s PROVE Progress(t)'
  <2>1. CASE pc[t] = "idle"
    BY <1>4, <2>1 DEF Progress, Moved
  <2>2. CASE pc[t] # "idle"
    <3>1. /\ Progress(t) /\ pc'[t] = pc[t] /\ job'[t] = job[t]
          /\ job[t].batch # b /\ job[t].batch \in Batches
      BY <1>1, <1>4, <2>2, JobFields DEF Accounts, Moved, Progress
    <3>2. InQuarantine(job[t].batch)' = InQuarantine(job[t].batch)
      BY <3>1 DEF InQuarantine
    <3>3. \A u \in Slots \ {t} : pc'[u] # "idle" => job'[u].batch # job[t].batch
      BY <2>2, <3>1 DEF Moved, Progress
    <3>4. ASSUME NEW k \in 1 .. job[t].row - 1 PROVE Accounted(job[t].batch, k)'
      <4>1. k \in 1 .. Len(Content[job[t].batch])
        BY <2>2, <3>1, JobFields DEF Progress
      <4> QED BY <1>2, <2>2, <3>1, <4>1 DEF Progress
    <3> QED BY <2>2, <3>1, <3>2, <3>3, <3>4 DEF Progress
  <2> QED BY <2>1, <2>2
<1>5. DoneAccounts'
  <2>1. ASSUME NEW c \in Batches, batches'[c].status = "done"
        PROVE  c # b /\ batches'[c] = batches[c] /\ InQuarantine(c)' = InQuarantine(c)
    BY <1>1, <2>1
  <2> QED BY <1>2, <2>1 DEF Accounts, DoneAccounts
<1>6. \A c \in Batches : batches'[c].status = "none" => InQuarantine(c)' = {}
  BY <1>1 DEF Accounts
<1> QED BY <1>3, <1>4, <1>5, <1>6 DEF Accounts

(* The initial states satisfy the invariant.                               *)
LEMMA InductiveInit == Init => IInv
<1> SUFFICES ASSUME Init PROVE IInv
  OBVIOUS
<1>1. TypeOK
  <2>1. NewBatch("none") \in Batch
    BY NewBatchType
  <2> QED BY <2>1, NoJobType DEF Init, TypeOK, Steps, SessionRow
<1>2. Postings
  BY NoJobType DEF Init, Postings, Fits, Apart, InFlight, PostedOnce, RowsBacked, InBook
<1>3. Accounts
  <2>1. \A b : InQuarantine(b) = {}
    BY DEF Init, InQuarantine
  <2>2. \A b \in Batches : batches[b].status = "none"
    BY NewBatchType DEF Init
  <2> QED BY <2>1, <2>2, FS_EmptySet DEF Init, Accounts, Progress, DoneAccounts
<1> QED BY <1>1, <1>2, <1>3 DEF IInv, Postings, Accounts

(* Master data is added or changed.                                        *)
LEMMA MasterKept ==
    ASSUME IInv, enrolled' \subseteq Enrollments, rates' \subseteq Rates,
           UNCHANGED <<batches, book, sessions, quarantine, pc, job>>
    PROVE  IInv'
<1>1. TypeOK'
  BY DEF IInv, TypeOK, Rates
<1>2. Postings'
  <2>1. /\ \A s : Id(s)' = Id(s) /\ RowOf(job[s])' = RowOf(job[s])
        /\ \A id, e : InBook(id, e)' = InBook(id, e)
    BY DEF Id, RowOf, InBook
  <2>2. \A s \in Slots : Fits(s)'
    BY <2>1 DEF IInv, Fits
  <2>3. \A s, t \in Slots : s # t => Apart(s, t)'
    BY <2>1 DEF IInv, Apart, InFlight
  <2>4. PostedOnce' /\ RowsBacked'
    BY <2>1 DEF IInv, PostedOnce, RowsBacked
  <2> QED BY <2>2, <2>3, <2>4 DEF Postings
<1>3. Accounts'
  <2>1. \A b : InQuarantine(b)' = InQuarantine(b)
    BY DEF InQuarantine
  <2>2. \A b, i : Accounted(b, i)' = Accounted(b, i)
    BY <2>1 DEF Accounted
  <2>3. \A s \in Slots : Progress(s)'
    BY <2>1, <2>2 DEF IInv, Progress
  <2>4. DoneAccounts'
    BY <2>1, <2>2 DEF IInv, DoneAccounts
  <2> QED BY <2>1, <2>3, <2>4 DEF IInv, Accounts
<1> QED BY <1>1, <1>2, <1>3 DEF IInv, Postings, Accounts

(* An enrollment is uploaded, a rate entered.                              *)
LEMMA EnrollKept == ASSUME IInv, NEW e \in Enrollments, Enroll(e) PROVE IInv'
BY MasterKept DEF Enroll, IInv, TypeOK
LEMMA SetRateKept == ASSUME IInv, NEW x \in Rates, SetRate(x) PROVE IInv'
BY MasterKept DEF SetRate, IInv, TypeOK

(* A batch is registered: none of its rows is accounted for yet.           *)
LEMMA StartKept ==
    ASSUME IInv, NEW s \in Slots, NEW b \in Batches, Start(s, b) PROVE IInv'
<1> DEFINE st == IF b \in Polls THEN "fetch" ELSE "row"
           j == NewJob(b)
           new == NewBatch("processing")
<1>1. /\ batches[b].status = "none" /\ pc[s] = "idle"
      /\ pc' = [pc EXCEPT ![s] = st] /\ job' = [job EXCEPT ![s] = j]
      /\ batches' = [batches EXCEPT ![b] = new]
      /\ UNCHANGED <<book, sessions, quarantine, master>>
  BY DEF Start, Goto, SetJob
<1>2. /\ j \in Job /\ j.batch = b /\ j.row = 1 /\ j.drafts = {} /\ j.inserted = {}
      /\ j.accepted = 0 /\ j.skipped = 0 /\ j.quarantined = 0
      /\ new \in Batch /\ new.status = "processing" /\ st \in {"fetch", "row"}
  BY NewJobType, NewBatchType
<1> HIDE DEF st, j, new
<1>3. /\ pc' \in [Slots -> Steps] /\ job' \in [Slots -> Job] /\ Moved(s)
      /\ pc'[s] = st /\ job'[s] = j /\ batches' \in [Batches -> Batch]
      /\ batches'[b] = new /\ \A c \in Batches : c # b => batches'[c] = batches[c]
  BY <1>1, <1>2 DEF IInv, TypeOK, Moved, Steps
<1>4. TypeOK'
  <2>1. RowThere(s)'
    BY <1>2, <1>3 DEF RowThere, OnRow
  <2> QED BY <1>1, <1>3, <2>1, TypeKept, MasterTyped DEF IInv, TypeOK
<1>5. Postings'
  BY <1>1, <1>2, <1>3, Parts, PostingsKept
<1>6. \A c : InQuarantine(c)' = InQuarantine(c) /\ \A i : Accounted(c, i)' = Accounted(c, i)
  BY <1>1 DEF InQuarantine, Accounted
<1>7. InQuarantine(b) = {} /\ Len(Content[b]) \in Nat
  BY <1>1, IngestionAssumption DEF IInv
<1>8. Progress(s)'
  <2>1. \A t \in Slots \ {s} : pc'[t] # "idle" => job'[t].batch # b
    BY <1>1, <1>3 DEF Moved, IInv, Progress
  <2>2. Cardinality({}) = 0
    BY FS_EmptySet
  <2>3. /\ batches'[b].status = "processing" /\ job'[s] = j /\ InQuarantine(b)' = {}
        /\ 1 <= Len(Content[b]) + 1 /\ 1 .. 1 - 1 = {}
    BY <1>2, <1>3, <1>6, <1>7
  <2>4. /\ job'[s].batch = b /\ job'[s].row = 1
        /\ job'[s].accepted + job'[s].skipped + job'[s].quarantined = 1 - 1
        /\ job'[s].quarantined = 0
    BY <1>2, <2>3
  <2> QED BY <2>1, <2>2, <2>3, <2>4 DEF Progress
<1>9. ASSUME NEW t \in Slots, t # s PROVE Progress(t)'
  <2>1. CASE pc[t] = "idle"
    BY <1>3, <1>9, <2>1 DEF Progress, Moved
  <2>2. CASE pc[t] # "idle"
    <3>1. /\ Progress(t) /\ pc'[t] = pc[t] /\ job'[t] = job[t] /\ job[t].batch \in Batches
      BY <1>3, <1>9, JobFields DEF IInv, Moved
    <3>2. job[t].batch # b
      BY <1>1, <2>2, <3>1 DEF Progress
    <3>3. \A u \in Slots \ {t} : pc'[u] # "idle" => job'[u].batch # job[t].batch
      BY <1>2, <1>3, <2>2, <3>1, <3>2 DEF Moved, Progress
    <3> QED BY <1>3, <1>6, <2>2, <3>1, <3>2, <3>3 DEF Progress
  <2> QED BY <2>1, <2>2
<1>10. Accounts'
  <2>1. DoneAccounts'
    BY <1>2, <1>3, <1>6 DEF IInv, DoneAccounts
  <2>2. \A c \in Batches : batches'[c].status = "none" => InQuarantine(c)' = {}
    BY <1>2, <1>3, <1>6 DEF IInv
  <2>3. IsFiniteSet(quarantine')
    BY <1>1 DEF IInv
  <2> QED BY <1>8, <1>9, <2>1, <2>2, <2>3 DEF Accounts
<1> QED BY <1>4, <1>5, <1>10 DEF IInv, Postings, Accounts

(* A batch ends: done, with the counts of its slot, or failed.             *)
LEMMA BatchEnds ==
    ASSUME IInv, NEW s \in Slots, pc[s] # "idle", End(s),
           NEW b \in Batches, b = job[s].batch, NEW new \in Batch,
           batches' = [batches EXCEPT ![b] = new],
           UNCHANGED <<book, sessions, quarantine, master>>,
           \/ new.status = "failed"
           \/ /\ job[s].row > Len(Content[b])
              /\ new.accepted = job[s].accepted /\ new.skipped = job[s].skipped
              /\ new.quarantined = job[s].quarantined /\ new.status = "done"
    PROVE  IInv'
<1>1. /\ pc' \in [Slots -> Steps] /\ job' \in [Slots -> Job]
      /\ Moved(s) /\ pc'[s] = "idle" /\ job'[s] = NoJob
  BY NoJobType DEF End, SetJob, IInv, TypeOK, Moved, Steps
<1>2. /\ batches' \in [Batches -> Batch]
      /\ batches'[b] = new /\ \A c \in Batches : c # b => batches'[c] = batches[c]
  BY DEF IInv, TypeOK
<1>3. TypeOK'
  <2>1. RowThere(s)'
    BY <1>1 DEF RowThere, OnRow
  <2> QED BY <1>1, <1>2, <2>1, TypeKept, MasterTyped DEF IInv, TypeOK
<1>4. Postings'
  BY <1>1, NoJobType, Parts, PostingsKept
<1>5. \A c : InQuarantine(c)' = InQuarantine(c) /\ \A i : Accounted(c, i)' = Accounted(c, i)
  BY DEF InQuarantine, Accounted
<1>6. ASSUME NEW t \in Slots PROVE Progress(t)'
  <2>1. CASE t = s \/ pc[t] = "idle"
    BY <1>1, <2>1 DEF Progress, Moved
  <2>2. CASE t # s /\ pc[t] # "idle"
    <3>1. /\ Progress(t) /\ Progress(s) /\ pc'[t] = pc[t] /\ job'[t] = job[t]
          /\ job[t].batch \in Batches
      BY <1>1, <2>2, JobFields DEF IInv, Moved
    <3>2. job[t].batch # b
      BY <2>2, <3>1 DEF Progress
    <3>3. \A u \in Slots \ {t} : pc'[u] # "idle" => job'[u].batch # job[t].batch
      BY <1>1, <2>2, <3>1 DEF Moved, Progress
    <3> QED BY <1>2, <1>5, <2>2, <3>1, <3>2, <3>3 DEF Progress
  <2> QED BY <2>1, <2>2
<1>7. DoneAccounts'
  <2>1. ASSUME NEW c \in Batches, batches'[c].status = "done", c # b
        PROVE  /\ batches'[c].accepted + batches'[c].skipped + batches'[c].quarantined
                    = Len(Content[c])
               /\ batches'[c].quarantined = Cardinality(InQuarantine(c)')
               /\ \A i \in 1 .. Len(Content[c]) : Accounted(c, i)'
    BY <1>2, <1>5, <2>1 DEF IInv, DoneAccounts
  <2>2. ASSUME batches'[b].status = "done"
        PROVE  /\ batches'[b].accepted + batches'[b].skipped + batches'[b].quarantined
                    = Len(Content[b])
               /\ batches'[b].quarantined = Cardinality(InQuarantine(b)')
               /\ \A i \in 1 .. Len(Content[b]) : Accounted(b, i)'
    <3>1. Progress(s) /\ Len(Content[b]) \in Nat /\ job[s].row \in Nat
      BY JobFields DEF IInv
    <3>2. job[s].row = Len(Content[b]) + 1
      BY <1>2, <2>2, <3>1 DEF Progress
    <3> QED BY <1>2, <1>5, <2>2, <3>1, <3>2 DEF Progress
  <2> QED BY <2>1, <2>2 DEF DoneAccounts
<1>8. Accounts'
  <2>1. \A c \in Batches : batches'[c].status = "none" => InQuarantine(c)' = {}
    BY <1>2, <1>5 DEF IInv
  <2>2. IsFiniteSet(quarantine')
    BY DEF IInv
  <2> QED BY <1>6, <1>7, <2>1, <2>2 DEF Accounts
<1> QED BY <1>3, <1>4, <1>8 DEF IInv, Postings, Accounts

(* The batch is done, and its counts are those of the call.                *)
LEMMA FinaliseKept == ASSUME IInv, NEW s \in Slots, Finalise(s) PROVE IInv'
<1> DEFINE new == [status |-> "done", accepted |-> job[s].accepted,
                   skipped |-> job[s].skipped, quarantined |-> job[s].quarantined]
           b == job[s].batch
<1>1. /\ batches' = [batches EXCEPT ![b] = new] /\ pc[s] # "idle" /\ End(s)
      /\ job[s].row > Len(Content[b]) /\ UNCHANGED <<book, sessions, quarantine, master>>
  BY DEF Finalise
<1>2. /\ new \in Batch /\ b \in Batches /\ new.status = "done"
      /\ new.accepted = job[s].accepted /\ new.skipped = job[s].skipped
      /\ new.quarantined = job[s].quarantined
  BY JobFields DEF IInv, Batch
<1> HIDE DEF new
<1> QED BY <1>1, <1>2, BatchEnds

(* The poll has its rows, or has failed.                                   *)
LEMMA FetchKept == ASSUME IInv, NEW s \in Slots, Fetch(s) PROVE IInv'
<1>1. pc[s] = "fetch" /\ UNCHANGED <<book, sessions, quarantine, master>>
  BY DEF Fetch, FetchInto
<1>2. CASE Goto(s, "fetch", "row") /\ UNCHANGED <<batches, job>>
  <2>1. /\ pc' \in [Slots -> Steps] /\ job' \in [Slots -> Job]
        /\ Moved(s) /\ pc'[s] = "row" /\ job'[s] = job[s]
    BY <1>2 DEF Goto, IInv, TypeOK, Moved, Steps
  <2>2. RowThere(s)'
    BY <2>1 DEF RowThere, OnRow
  <2>3. job[s].inserted = {}
    BY <1>1 DEF IInv, Fits
  <2> QED BY <1>1, <1>2, <2>1, <2>2, <2>3, QuietKept
<1>3. CASE End(s) /\ batches' = [batches EXCEPT ![job[s].batch] = NewBatch("failed")]
  <2>1. NewBatch("failed") \in Batch /\ NewBatch("failed").status = "failed"
        /\ job[s].batch \in Batches
    BY NewBatchType, JobFields DEF IInv
  <2> QED BY <1>1, <1>3, <2>1, BatchEnds
<1> QED BY <1>2, <1>3 DEF Fetch, FetchInto

(* A row is skipped: its revenue is in the book, so its sessions row is    *)
(* there.                                                                  *)
LEMMA SkipKept ==
    ASSUME IInv, NEW s \in Slots, pc[s] = "row",
           NEW b \in Batches, b = job[s].batch, NEW i \in Nat \ {0}, i = job[s].row,
           i <= Len(Content[b]), RowOf(job[s]).valid, InBook(Id(s), "REV"),
           SetJob(s, NextRow(job[s], 0, 1, 0)),
           UNCHANGED <<batches, book, sessions, quarantine, master, pc>>
    PROVE  IInv'
<1> DEFINE new == NextRow(job[s], 0, 1, 0)
<1>1. /\ TypeOK /\ Postings /\ Accounts /\ Progress(s)
      /\ job[s] \in Job /\ Len(Content[b]) \in Nat
  BY Parts, JobFields DEF Accounts
<1>2. /\ new \in Job /\ new.batch = b /\ new.row = i + 1
      /\ new.drafts = {} /\ new.inserted = {} /\ new.accepted = job[s].accepted + 0
      /\ new.skipped = job[s].skipped + 1 /\ new.quarantined = job[s].quarantined + 0
  BY <1>1, NextRowType
<1>3. job' = [job EXCEPT ![s] = new] /\ pc' = pc
  BY DEF SetJob
<1> HIDE DEF new
<1>4. /\ pc' \in [Slots -> Steps] /\ job' \in [Slots -> Job]
      /\ Moved(s) /\ pc'[s] = "row" /\ job'[s] = new
  BY <1>1, <1>2, <1>3 DEF TypeOK, Moved
<1>5. TypeOK'
  <2>1. RowThere(s)'
    BY <1>4 DEF RowThere, OnRow
  <2> QED BY <1>1, <1>4, <2>1, TypeKept, MasterTyped DEF TypeOK
<1>6. Postings'
  BY <1>1, <1>2, <1>4, PostingsKept DEF Postings
<1>7. Accounted(b, i)'
  <2>1. RowOf(job[s]) = Content[b][i] /\ Id(s) = Content[b][i].id
    BY DEF RowOf, Id
  <2>2. Id(s) \in Ids
    BY <1>1, RowFields
  <2>3. sessions[Id(s)].there
    BY <1>1, <2>2 DEF Postings, RowsBacked, Entries
  <2> QED BY <2>1, <2>3 DEF Accounted
<1>8. Accounts'
  <2>1. /\ \A c : InQuarantine(c)' = InQuarantine(c)
        /\ IsFiniteSet(quarantine') /\ quarantine \subseteq quarantine'
    BY <1>1 DEF InQuarantine, Accounts
  <2>2. \A q \in InQuarantine(b)' : q.row < i + 1
    <3>1. \A q \in InQuarantine(b) : q.row < i /\ q.row \in Nat
      BY <1>1 DEF Progress, TypeOK, InQuarantine, Quarantined
    <3> QED BY <2>1, <3>1
  <2>3. /\ job[s].accepted \in Nat /\ job[s].skipped \in Nat /\ job[s].quarantined \in Nat
        /\ job[s].quarantined = Cardinality(InQuarantine(b))
    BY <1>1, JobFields DEF Progress
  <2>4. /\ job'[s].quarantined = Cardinality(InQuarantine(b)')
        /\ job'[s].accepted + job'[s].skipped + job'[s].quarantined
             = job[s].accepted + job[s].skipped + job[s].quarantined + 1
    <3>1. /\ job'[s].accepted = job[s].accepted /\ job'[s].skipped = job[s].skipped + 1
          /\ job'[s].quarantined = job[s].quarantined
      BY <1>2, <1>4, <2>3
    <3>2. InQuarantine(b)' = InQuarantine(b)
      BY <2>1
    <3>3. job'[s].quarantined = Cardinality(InQuarantine(b)')
      BY <2>3, <3>1, <3>2
    <3>4. \A x, y, z \in Nat : x + (y + 1) + z = x + y + z + 1
      OBVIOUS
    <3>5. job[s].accepted + (job[s].skipped + 1) + job[s].quarantined
            = job[s].accepted + job[s].skipped + job[s].quarantined + 1
      BY <2>3, <3>4
    <3> QED BY <3>1, <3>3, <3>5, Zenon
  <2> QED BY <1>1, <1>2, <1>4, <1>7, <2>1, <2>2, <2>4, AdvanceKept
<1> QED BY <1>5, <1>6, <1>8 DEF IInv, Postings, Accounts

(* A row is read: malformed, posted already, or to be posted.              *)
LEMMA ReadRowKept == ASSUME IInv, NEW s \in Slots, ReadRow(s) PROVE IInv'
<1> DEFINE j == job[s]
           b == j.batch
           i == j.row
<1>1. /\ pc[s] = "row" /\ i <= Len(Content[b])
      /\ UNCHANGED <<batches, book, sessions, quarantine, master>>
      /\ j \in Job /\ b \in Batches /\ i \in Nat \ {0} /\ Len(Content[b]) \in Nat
      /\ j.inserted = {}
  BY JobFields DEF ReadRow, ReadRowIf, IInv, Fits
<1>2. RowOf(j) \in Row /\ Id(s) \in Ids
  BY <1>1, RowFields DEF IInv
<1>3. ASSUME NEW st \in {"reject", "lookup"}, Goto(s, "row", st), UNCHANGED job,
             st = "lookup" => RowOf(j).valid
      PROVE  IInv'
  <2>1. /\ pc' \in [Slots -> Steps] /\ job' \in [Slots -> Job]
        /\ Moved(s) /\ pc'[s] = st /\ job'[s] = job[s]
    BY <1>3 DEF Goto, IInv, TypeOK, Moved, Steps
  <2>2. RowThere(s)'
    BY <1>1, <2>1 DEF RowThere, OnRow
  <2> QED BY <1>1, <1>3, <2>1, <2>2, QuietKept
<1>4. CASE /\ RowOf(j).valid /\ InBook(Id(s), "REV")
           /\ SetJob(s, NextRow(j, 0, 1, 0)) /\ UNCHANGED pc
  BY <1>1, <1>4, SkipKept
<1> QED BY <1>3, <1>4 DEF ReadRow, ReadRowIf

-----------------------------------------------------------------------------
(* A step of an open transaction that leaves the book alone.               *)
LEMMA PostingsInTransaction ==
    ASSUME TypeOK, Postings, NEW s \in Slots, Moved(s),
           UNCHANGED <<book, sessions>>,
           pc'[s] = "post", job'[s].batch = job[s].batch, job'[s].row = job[s].row,
           Fits(s)',
           \A t \in Slots \ {s}, e \in job'[s].inserted : ~ InFlight(t, Id(s), e)
    PROVE  Postings'
<1>1. /\ \A t \in Slots : t # s => pc'[t] = pc[t] /\ job'[t] = job[t]
      /\ \A t \in Slots : Id(t)' = Id(t)
  BY DEF Moved, Id, RowOf
<1>2. \A id, e : InBook(id, e)' = InBook(id, e)
  BY DEF InBook
<1>3. ASSUME NEW t \in Slots PROVE Fits(t)'
  <2>1. CASE t = s
    BY <2>1
  <2>2. CASE t # s
    BY <1>1, <1>2, <2>2 DEF Postings, Fits, RowOf
  <2> QED BY <2>1, <2>2
<1>4. ASSUME NEW t \in Slots, t # s PROVE Apart(s, t)' /\ Apart(t, s)'
  BY <1>1, <1>4 DEF Apart, InFlight
<1>5. ASSUME NEW t \in Slots, NEW u \in Slots, t # u PROVE Apart(t, u)'
  <2>1. CASE t = s \/ u = s
    BY <1>4, <1>5, <2>1
  <2>2. CASE t # s /\ u # s
    BY <1>1, <1>5, <2>2 DEF Postings, Apart, InFlight
  <2> QED BY <2>1, <2>2
<1>6. PostedOnce' /\ RowsBacked'
  BY <1>2 DEF Postings, PostedOnce, RowsBacked
<1> QED BY <1>3, <1>5, <1>6 DEF Postings

(* The drafts are made from the rates as they are.                         *)
LEMMA LookupKept == ASSUME IInv, NEW s \in Slots, Lookup(s) PROVE IInv'
<1> DEFINE j == job[s]
           ds == Drafts(RowOf(j), rates)
<1>1. /\ pc[s] = "lookup" /\ j \in Job /\ j.row <= Len(Content[j.batch])
      /\ j.inserted = {} /\ RowOf(j).valid
      /\ UNCHANGED <<batches, book, sessions, quarantine, master>>
  BY DEF Lookup, Goto, IInv, TypeOK, Fits
<1>2. CASE Goto(s, "lookup", "refuse") /\ UNCHANGED job
  <2>1. /\ pc' \in [Slots -> Steps] /\ job' \in [Slots -> Job]
        /\ Moved(s) /\ pc'[s] = "refuse" /\ job'[s] = job[s]
    BY <1>2 DEF Goto, IInv, TypeOK, Moved, Steps
  <2>2. RowThere(s)'
    BY <1>1, <2>1 DEF RowThere, OnRow
  <2> QED BY <1>1, <2>1, <2>2, QuietKept
<1>3. CASE Goto(s, "lookup", "post") /\ SetJob(s, With(j, ds, {}))
  <2>1. ds \subseteq Entries
    BY DraftsType
  <2> DEFINE new == With(j, ds, {})
  <2>2. /\ new \in Job /\ new.batch = j.batch /\ new.row = j.row
        /\ new.drafts = ds /\ new.inserted = {} /\ new.accepted = j.accepted
        /\ new.skipped = j.skipped /\ new.quarantined = j.quarantined
    BY <1>1, <2>1, WithType
  <2>3. pc' = [pc EXCEPT ![s] = "post"] /\ job' = [job EXCEPT ![s] = new]
    BY <1>3 DEF Goto, SetJob
  <2> HIDE DEF new, ds
  <2>4. /\ pc' \in [Slots -> Steps] /\ job' \in [Slots -> Job]
        /\ Moved(s) /\ pc'[s] = "post" /\ job'[s] = new
    BY <2>2, <2>3 DEF IInv, TypeOK, Moved, Steps
  <2>5. TypeOK'
    <3>1. RowThere(s)'
      BY <1>1, <2>2, <2>4 DEF RowThere, OnRow
    <3> QED BY <1>1, <2>4, <3>1, TypeKept, MasterTyped DEF IInv, TypeOK
  <2>6. Postings'
    <3>1. Fits(s)'
      BY <1>1, <2>2, <2>4 DEF Fits, RowOf
    <3> QED BY <1>1, <2>1, <2>2, <2>4, <3>1, Parts, PostingsInTransaction
  <2>7. Accounts'
    BY <1>1, <2>2, <2>4, Parts, AccountsKept
  <2> QED BY <2>5, <2>6, <2>7 DEF IInv, Postings, Accounts
<1> QED BY <1>2, <1>3 DEF Lookup

(* An entry is inserted that is neither in the book nor in another         *)
(* transaction.                                                            *)
LEMMA PostKept == ASSUME IInv, NEW s \in Slots, Post(s) PROVE IInv'
<1> DEFINE j == job[s]
           e == NextEntry(j)
<1>1. /\ pc[s] = "post" /\ j \in Job /\ j.row <= Len(Content[j.batch])
      /\ j.drafts # j.inserted /\ j.inserted \subseteq j.drafts
      /\ j.drafts \subseteq Entries /\ RowOf(j).valid /\ Free(s, e)
      /\ UNCHANGED <<batches, sessions, quarantine, master>>
  BY JobFields DEF Post, Posting, IInv, TypeOK, Fits
<1>2. e \in j.drafts
  BY <1>1 DEF NextEntry, Entries
<1>3. CASE Refuse(s) /\ UNCHANGED book
  BY <1>1, <1>3, RefuseKept
<1>4. CASE ~ InBook(Id(s), e) /\ Insert(s, e)
  <2> DEFINE new == With(j, j.drafts, j.inserted \cup {e})
  <2>1. /\ new \in Job /\ new.batch = j.batch /\ new.row = j.row
        /\ new.drafts = j.drafts /\ new.inserted = j.inserted \cup {e}
        /\ new.accepted = j.accepted
        /\ new.skipped = j.skipped /\ new.quarantined = j.quarantined
    BY <1>1, <1>2, WithType
  <2>2. pc' = pc /\ job' = [job EXCEPT ![s] = new] /\ book' = book
    BY <1>4 DEF Insert, SetJob
  <2> HIDE DEF new, e
  <2>3. /\ pc' \in [Slots -> Steps] /\ job' \in [Slots -> Job]
        /\ Moved(s) /\ pc'[s] = "post" /\ job'[s] = new
    BY <1>1, <2>1, <2>2 DEF IInv, TypeOK, Moved
  <2>4. TypeOK'
    <3>1. RowThere(s)'
      BY <1>1, <2>1, <2>3 DEF RowThere, OnRow
    <3> QED BY <1>1, <2>2, <2>3, <3>1, TypeKept, MasterTyped DEF IInv, TypeOK
  <2>5. Postings'
    <3>1. RowOf(new) = RowOf(j) /\ RowOf(job[s])' = RowOf(j) /\ Id(s)' = Id(s)
      BY <2>1, <2>3 DEF RowOf, Id
    <3>2. Fits(s)'
      <4>1. \A f \in j.inserted : ~ InBook(Id(s), f)
        BY DEF IInv, Fits
      <4>2. \A f \in new.inserted : ~ InBook(Id(s), f)'
        BY <1>4, <2>1, <2>2, <3>1, <4>1 DEF InBook
      <4> QED BY <1>1, <1>2, <2>1, <2>3, <3>1, <4>2 DEF Fits
    <3>3. \A t \in Slots \ {s}, f \in new.inserted : ~ InFlight(t, Id(s), f)
      <4>1. ASSUME NEW t \in Slots \ {s}, NEW f \in new.inserted, InFlight(t, Id(s), f)
            PROVE  FALSE
        <5>1. f \in j.inserted
          BY <1>1, <2>1, <4>1 DEF Free
        <5>2. InFlight(s, Id(s), f) /\ Id(s) \in Ids /\ f \in Entries
          BY <1>1, <5>1, RowFields DEF InFlight, IInv
        <5> QED BY <4>1, <5>2 DEF IInv, Apart
      <4> QED BY <4>1
    <3> QED BY <1>1, <2>1, <2>2, <2>3, <3>2, <3>3, Parts, PostingsInTransaction
  <2>6. Accounts'
    BY <1>1, <2>1, <2>3, Parts, AccountsKept
  <2> QED BY <2>4, <2>5, <2>6 DEF IInv, Postings, Accounts
<1> QED BY <1>3, <1>4 DEF Post

-----------------------------------------------------------------------------
(* The transaction of a row commits: its entries are in the book, and its  *)
(* sessions row is there.                                                  *)
LEMMA RecordKept ==
    ASSUME IInv, NEW s \in Slots, pc[s] = "post", job[s].drafts = job[s].inserted,
           NEW b \in Batches, b = job[s].batch, NEW i \in Nat \ {0}, i = job[s].row,
           NEW id, id = Id(s), NEW D, D = job[s].inserted,
           Goto(s, "post", "row"), SetJob(s, NextRow(job[s], 1, 0, 0)),
           book' = [book EXCEPT ![id] = Add(book[id], D)],
           sessions' = [sessions EXCEPT ![id] = Record(sessions[id], D)],
           UNCHANGED <<batches, quarantine, master>>
    PROVE  IInv'
<1> DEFINE new == NextRow(job[s], 1, 0, 0)
<1>1. /\ TypeOK /\ Postings /\ Accounts /\ Progress(s) /\ job[s] \in Job
      /\ Len(Content[b]) \in Nat /\ i <= Len(Content[b])
      /\ D \subseteq Entries /\ Content[b][i].valid
      /\ id = Content[b][i].id
  BY Parts, JobFields DEF Accounts, Postings, TypeOK, Fits, RowOf, Id
<1>2. id \in Ids /\ \A e \in D : ~ InBook(id, e)
  BY <1>1, RowFields DEF Postings, Fits
<1>3. /\ new \in Job /\ new.batch = b /\ new.row = i + 1
      /\ new.drafts = {} /\ new.inserted = {} /\ new.accepted = job[s].accepted + 1
      /\ new.skipped = job[s].skipped + 0 /\ new.quarantined = job[s].quarantined + 0
  BY <1>1, NextRowType
<1>4. job' = [job EXCEPT ![s] = new] /\ pc' = [pc EXCEPT ![s] = "row"]
  BY DEF SetJob, Goto
<1> HIDE DEF new
<1>5. /\ pc' \in [Slots -> Steps] /\ job' \in [Slots -> Job]
      /\ Moved(s) /\ pc'[s] = "row" /\ job'[s] = new
  BY <1>1, <1>3, <1>4 DEF TypeOK, Moved, Steps
<1>6. /\ book' \in [Ids -> [Entries -> Nat]]
      /\ \A k \in Ids, e \in Entries :
           book'[k][e] = IF k = id /\ e \in D THEN book[k][e] + 1 ELSE book[k][e]
  <2>1. Add(book[id], D) \in [Entries -> Nat]
    <3>1. \A e \in Entries : book[id][e] \in Nat /\ book[id][e] + 1 \in Nat
      <4>1. book[id] \in [Entries -> Nat]
        BY <1>1, <1>2 DEF TypeOK
      <4> QED BY <4>1
    <3> QED BY <3>1 DEF Add
  <2>2. \A e \in Entries :
          Add(book[id], D)[e] = IF e \in D THEN book[id][e] + 1 ELSE book[id][e]
    BY DEF Add
  <2>3. book \in [Ids -> [Entries -> Nat]]
    BY <1>1 DEF TypeOK
  <2> HIDE DEF Add
  <2> QED BY <1>2, <2>1, <2>2, <2>3
<1>7. \A k \in Ids, e \in Entries :
        /\ book[k][e] \in Nat
        /\ InBook(k, e)' <=> InBook(k, e) \/ (k = id /\ e \in D)
  <2>1. \A k \in Ids, e \in Entries : book[k][e] \in Nat
    BY <1>1 DEF TypeOK
  <2>2. ASSUME NEW k \in Ids, NEW e \in Entries
        PROVE  book'[k][e] > 0 <=> book[k][e] > 0 \/ (k = id /\ e \in D)
    BY <1>6, <2>1
  <2> QED BY <2>1, <2>2 DEF InBook
<1>8. /\ sessions' \in [Ids -> SessionRow] /\ sessions'[id].there
      /\ \A k \in Ids : k # id => sessions'[k] = sessions[k]
      /\ sessions'[id].names = IF sessions[id].there THEN sessions[id].names ELSE D
  <2>1. /\ sessions \in [Ids -> SessionRow] /\ sessions[id] \in SessionRow
        /\ [there |-> TRUE, names |-> D] \in SessionRow
    BY <1>1, <1>2 DEF TypeOK, SessionRow
  <2>2. /\ Record(sessions[id], D) \in SessionRow /\ Record(sessions[id], D).there
        /\ Record(sessions[id], D).names
             = IF sessions[id].there THEN sessions[id].names ELSE D
    BY <2>1 DEF Record
  <2> QED BY <1>2, <2>1, <2>2
<1>9. TypeOK'
  <2>1. RowThere(s)'
    BY <1>5 DEF RowThere, OnRow
  <2> QED BY <1>1, <1>5, <1>6, <1>8, <2>1, TypeKept, MasterTyped DEF TypeOK
<1>11. \A t \in Slots : t # s => /\ pc'[t] = pc[t] /\ job'[t] = job[t]
                                 /\ Id(t)' = Id(t) /\ RowOf(job[t])' = RowOf(job[t])
  BY <1>5 DEF Moved, Id, RowOf
<1>12. \A t \in Slots : pc[t] = "post" => Id(t) \in Ids
  BY <1>1, RowFields DEF TypeOK
<1>13. ASSUME NEW t \in Slots PROVE Fits(t)'
  <2>1. CASE t = s
    BY <1>3, <1>5, <2>1 DEF Fits
  <2>2. CASE t # s
    <3>1. /\ Fits(t) /\ job[t].inserted \subseteq Entries /\ Apart(s, t)
          /\ pc'[t] = pc[t] /\ job'[t] = job[t] /\ Id(t)' = Id(t)
          /\ RowOf(job[t])' = RowOf(job[t])
      BY <1>1, <1>11, <2>2, JobFields DEF Postings
    <3>2. ASSUME NEW e \in job[t].inserted PROVE ~ InBook(Id(t), e)'
      <4>1. pc[t] = "post" /\ Id(t) \in Ids /\ e \in Entries /\ ~ InBook(Id(t), e)
        BY <1>12, <3>1, <3>2 DEF Fits
      <4>2. ~ (Id(t) = id /\ e \in D)
        BY <3>1, <3>2, <4>1 DEF Apart, InFlight
      <4> QED BY <1>7, <3>1, <4>1, <4>2
    <3> QED BY <3>1, <3>2 DEF Fits
  <2> QED BY <2>1, <2>2
<1>14. ASSUME NEW t \in Slots, NEW u \in Slots, t # u PROVE Apart(t, u)'
  <2>1. CASE t = s \/ u = s
    BY <1>5, <2>1 DEF Apart, InFlight
  <2>2. CASE t # s /\ u # s
    <3>1. Apart(t, u)
      BY <1>1, <1>14 DEF Postings
    <3>2. /\ pc'[t] = pc[t] /\ job'[t] = job[t] /\ Id(t)' = Id(t)
          /\ pc'[u] = pc[u] /\ job'[u] = job[u] /\ Id(u)' = Id(u)
      BY <1>11, <2>2
    <3> QED BY <3>1, <3>2 DEF Apart, InFlight
  <2> QED BY <2>1, <2>2
<1>15. PostedOnce'
  <2>1. ASSUME NEW k \in Ids, NEW e \in Entries PROVE book'[k][e] <= 1
    <3>1. book[k][e] \in Nat /\ book[k][e] <= 1 /\ (k = id /\ e \in D => ~ book[k][e] > 0)
      BY <1>1, <1>2, <1>7 DEF Postings, PostedOnce, InBook
    <3>2. book'[k][e] = IF k = id /\ e \in D THEN book[k][e] + 1 ELSE book[k][e]
      BY <1>6
    <3> QED BY <3>1, <3>2
  <2> QED BY <2>1 DEF PostedOnce
<1>16. RowsBacked'
  <2>1. ASSUME NEW k \in Ids, NEW e \in sessions'[k].names PROVE InBook(k, e)'
    <3>1. e \in Entries
      BY <1>8, <2>1 DEF SessionRow
    <3> QED BY <1>1, <1>7, <1>8, <2>1, <3>1 DEF Postings, RowsBacked
  <2>2. ASSUME NEW k \in Ids, NEW e \in Entries, InBook(k, e)' PROVE sessions'[k].there
    BY <1>1, <1>7, <1>8, <2>2 DEF Postings, RowsBacked
  <2> QED BY <2>1, <2>2 DEF RowsBacked
<1>18. Accounts'
  <2>1. Accounted(b, i)'
    BY <1>1, <1>8 DEF Accounted
  <2>2. /\ \A c : InQuarantine(c)' = InQuarantine(c)
        /\ IsFiniteSet(quarantine') /\ quarantine \subseteq quarantine'
    BY <1>1 DEF InQuarantine, Accounts
  <2>3. \A q \in InQuarantine(b)' : q.row < i + 1
    <3>1. \A q \in InQuarantine(b) : q.row < i /\ q.row \in Nat
      BY <1>1 DEF Progress, TypeOK, InQuarantine, Quarantined
    <3> QED BY <2>2, <3>1
  <2>4. /\ job'[s].quarantined = Cardinality(InQuarantine(b)')
        /\ job'[s].accepted + job'[s].skipped + job'[s].quarantined
             = job[s].accepted + job[s].skipped + job[s].quarantined + 1
    <3>1. /\ job[s].accepted \in Nat /\ job[s].skipped \in Nat
          /\ job[s].quarantined \in Nat
          /\ job[s].quarantined = Cardinality(InQuarantine(b))
      BY <1>1, JobFields DEF Progress
    <3>2. /\ job'[s].accepted = job[s].accepted + 1 /\ job'[s].skipped = job[s].skipped
          /\ job'[s].quarantined = job[s].quarantined
      BY <1>3, <1>5, <3>1
    <3>3. InQuarantine(b)' = InQuarantine(b)
      BY <2>2
    <3> QED BY <3>1, <3>2, <3>3
  <2>5. \A k \in Ids : sessions[k].there => sessions'[k].there
    BY <1>8
  <2> QED BY <1>1, <1>3, <1>5, <2>1, <2>2, <2>3, <2>4, <2>5, AdvanceKept
<1> QED BY <1>9, <1>13, <1>14, <1>15, <1>16, <1>18 DEF IInv, Postings, Accounts

(* A commit succeeds or the row is refused.                                *)
LEMMA CommitKept == ASSUME IInv, NEW s \in Slots, Commit(s) PROVE IInv'
<1>1. /\ pc[s] = "post" /\ job[s].drafts = job[s].inserted
      /\ UNCHANGED <<batches, quarantine, master>>
      /\ job[s].batch \in Batches /\ job[s].row \in Nat \ {0}
  BY JobFields DEF Commit, IInv
<1>2. CASE /\ Goto(s, "post", "row") /\ SetJob(s, NextRow(job[s], 1, 0, 0))
           /\ book' = [book EXCEPT ![Id(s)] = Add(@, job[s].inserted)]
           /\ sessions' = [sessions EXCEPT ![Id(s)] = Record(@, job[s].inserted)]
  BY <1>1, <1>2, RecordKept
<1>3. CASE Refuse(s) /\ UNCHANGED <<book, sessions>>
  BY <1>1, <1>3, RefuseKept
<1> QED BY <1>2, <1>3 DEF Commit

-----------------------------------------------------------------------------
(* A row is put in quarantine: one more of its batch, for no row before it *)
(* is this one.                                                            *)
LEMMA PutKept ==
    ASSUME IInv, NEW s \in Slots, pc[s] \in {"reject", "refuse"},
           NEW b \in Batches, b = job[s].batch, NEW i \in Nat \ {0}, i = job[s].row,
           NEW p \in BOOLEAN,
           quarantine' = quarantine \cup {[batch |-> b, row |-> i, posting |-> p]},
           Goto(s, pc[s], "row"), SetJob(s, NextRow(job[s], 0, 0, 1)),
           UNCHANGED <<batches, book, sessions, master>>
    PROVE  IInv'
<1> DEFINE new == NextRow(job[s], 0, 0, 1)
           x == [batch |-> b, row |-> i, posting |-> p]
<1>1. /\ TypeOK /\ Postings /\ Accounts /\ Progress(s) /\ job[s] \in Job
      /\ Len(Content[b]) \in Nat /\ i <= Len(Content[b])
  BY Parts, JobFields DEF Accounts, TypeOK
<1>2. /\ new \in Job /\ new.batch = b /\ new.row = i + 1
      /\ new.drafts = {} /\ new.inserted = {} /\ new.accepted = job[s].accepted + 0
      /\ new.skipped = job[s].skipped + 0 /\ new.quarantined = job[s].quarantined + 1
  BY <1>1, NextRowType
<1>3. job' = [job EXCEPT ![s] = new] /\ pc' = [pc EXCEPT ![s] = "row"]
  BY DEF SetJob, Goto
<1>4. x \in Quarantined /\ x.batch = b /\ x.row = i /\ quarantine' = quarantine \cup {x}
  BY DEF Quarantined
<1> HIDE DEF new, x
<1>5. /\ pc' \in [Slots -> Steps] /\ job' \in [Slots -> Job]
      /\ Moved(s) /\ pc'[s] = "row" /\ job'[s] = new
  BY <1>1, <1>2, <1>3 DEF TypeOK, Moved, Steps
<1>6. TypeOK'
  <2>1. RowThere(s)'
    BY <1>5 DEF RowThere, OnRow
  <2> QED BY <1>1, <1>4, <1>5, <2>1, TypeKept, MasterTyped DEF TypeOK
<1>7. Postings'
  BY <1>1, <1>2, <1>5, PostingsKept
<1>8. /\ InQuarantine(b)' = InQuarantine(b) \cup {x}
      /\ \A c \in Batches : c # b => InQuarantine(c)' = InQuarantine(c)
  BY <1>4 DEF InQuarantine
<1>9. \A q \in InQuarantine(b) : q.row < i /\ q.row \in Nat
  BY <1>1 DEF Progress, TypeOK, InQuarantine, Quarantined
<1>10. Cardinality(InQuarantine(b)') = Cardinality(InQuarantine(b)) + 1
  <2>1. x \notin InQuarantine(b)
    BY <1>4, <1>9
  <2>2. IsFiniteSet(InQuarantine(b))
    BY <1>1, FS_Subset DEF InQuarantine, Accounts
  <2> QED BY <1>8, <2>1, <2>2, FS_AddElement
<1>11. Accounts'
  <2>1. Accounted(b, i)'
    BY <1>4, <1>8 DEF Accounted
  <2>2. IsFiniteSet(quarantine') /\ quarantine \subseteq quarantine'
    BY <1>1, <1>4, FS_AddElement DEF Accounts
  <2>3. \A q \in InQuarantine(b)' : q.row < i + 1
    BY <1>4, <1>8, <1>9
  <2>4. /\ job'[s].quarantined = Cardinality(InQuarantine(b)')
        /\ job'[s].accepted + job'[s].skipped + job'[s].quarantined
             = job[s].accepted + job[s].skipped + job[s].quarantined + 1
    <3>1. /\ job[s].accepted \in Nat /\ job[s].skipped \in Nat
          /\ job[s].quarantined \in Nat
          /\ job[s].quarantined = Cardinality(InQuarantine(b))
      BY <1>1, JobFields DEF Progress
    <3>2. /\ job'[s].accepted = job[s].accepted /\ job'[s].skipped = job[s].skipped
          /\ job'[s].quarantined = job[s].quarantined + 1
      BY <1>2, <1>5, <3>1
    <3> QED BY <1>10, <3>1, <3>2
  <2> QED BY <1>1, <1>2, <1>5, <1>8, <2>1, <2>2, <2>3, <2>4, AdvanceKept
<1> QED BY <1>6, <1>7, <1>11 DEF IInv, Postings, Accounts

(* The row is put in quarantine, or the INSERT raises and the call ends.   *)
LEMMA QuarantineKept == ASSUME IInv, NEW s \in Slots, Quarantine(s) PROVE IInv'
<1> DEFINE p == pc[s] = "refuse"
           ok == /\ quarantine' = quarantine \cup
                      {[batch |-> job[s].batch, row |-> job[s].row, posting |-> p]}
                 /\ Goto(s, pc[s], "row") /\ SetJob(s, NextRow(job[s], 0, 0, 1))
<1>1. /\ pc[s] \in {"reject", "refuse"} /\ UNCHANGED <<batches, book, sessions, master>>
      /\ job[s].batch \in Batches /\ job[s].row \in Nat \ {0} /\ p \in BOOLEAN
  BY JobFields DEF Quarantine, IInv
<1>2. CASE ok
  <2> HIDE DEF p
  <2> QED BY <1>1, <1>2, PutKept
<1>3. CASE End(s) /\ UNCHANGED quarantine
  BY <1>1, <1>3, EndKept
<1> QED BY <1>2, <1>3 DEF Quarantine

(* The process dies.                                                       *)
LEMMA CrashKept == ASSUME IInv, NEW s \in Slots, Crash(s) PROVE IInv'
BY EndKept DEF Crash

-----------------------------------------------------------------------------
(* Every step preserves the invariant.                                     *)
LEMMA InductiveStep == IInv /\ [Next]_vars => IInv'
<1> SUFFICES ASSUME IInv, [Next]_vars PROVE IInv'
  OBVIOUS
<1>1. CASE (\E e \in Enrollments : Enroll(e)) \/ \E x \in Rates : SetRate(x)
  BY <1>1, EnrollKept, SetRateKept
<1>2. CASE \E s \in Slots, b \in Batches : Start(s, b)
  BY <1>2, StartKept
<1>3. CASE \E s \in Slots : Step(s)
  BY <1>3, FetchKept, ReadRowKept, LookupKept, PostKept, CommitKept, QuarantineKept,
     FinaliseKept DEF Step
<1>4. CASE \E s \in Slots : Crash(s)
  BY <1>4, CrashKept
<1>5. CASE UNCHANGED vars
  BY <1>5, MasterKept DEF vars, IInv, TypeOK
<1> QED BY <1>1, <1>2, <1>3, <1>4, <1>5 DEF Next

(* The inductive invariant holds in every state that is reached.           *)
THEOREM Inductive == Spec => []IInv
BY InductiveInit, InductiveStep, PTL DEF Spec

(* The tables and the jobs have their types, however many batches come in  *)
(* at a time.                                                              *)
THEOREM Typed == Spec => []TypeOK
<1>1. IInv => TypeOK
  BY DEF IInv
<1> QED BY <1>1, Inductive, PTL

(* No session is recognised twice, whichever batches it comes in and       *)
(* however their rows interleave.                                          *)
THEOREM Once == Spec => []PostedOnce
<1>1. IInv => PostedOnce
  BY DEF IInv
<1> QED BY <1>1, Inductive, PTL

(* What is posted for a session has its master.sessions row, which names   *)
(* no entry that is not in the book.                                       *)
THEOREM Backed == Spec => []RowsBacked
<1>1. IInv => RowsBacked
  BY DEF IInv
<1> QED BY <1>1, Inductive, PTL

(* A batch that is done accounts for each of its rows.                     *)
THEOREM Accounting == Spec => []DoneAccounts
<1>1. IInv => DoneAccounts
  BY DEF IInv
<1> QED BY <1>1, Inductive, PTL
=============================================================================
