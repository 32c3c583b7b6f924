----------------------------- MODULE Ingestion -----------------------------
(***************************************************************************)
(* Ingestion of tutoring sessions (api/routes/ingestion.py): a file, a     *)
(* sheet or a poll of the LMS is a batch of rows.  The batch is registered *)
(* under its id, each row is skipped, recognised (a revenue entry, a cost  *)
(* entry and a master.sessions row in one commit) or put in quarantine,    *)
(* and the counts are written at the end.                                  *)
(*                                                                         *)
(* A slot is a database connection serving one upload or poll: many        *)
(* transactions, one after the other, on one batch.  post_journal is       *)
(* abstracted to what matters here: it may refuse an entry, and a          *)
(* source_ref is posted once.                                              *)
(***************************************************************************)
EXTENDS Integers, Sequences, FiniteSets

CONSTANTS
    Slots,    \* database connections
    Ids,      \* session ids of the LMS
    Enrollments, Days,  \* what a row may name: enrollment_id and occurred_on
    Files,    \* ids of batches that are files or sheets: hashes of contents
    Polls,    \* ids of batches that are polls of the LMS
    Content   \* the rows of each batch

Batches == Files \cup Polls

(* A row as parse_session_row sees it: the session, its enrollment and     *)
(* day, whether it is well formed, whether its conducted_minutes are       *)
(* positive, whether its status is student_absent.  Two rows of one        *)
(* session need not agree on anything else.                                *)
Row == [id : Ids, of : Enrollments, on : Days,
        valid : BOOLEAN, taught : BOOLEAN, absent : BOOLEAN]

ASSUME IngestionAssumption ==
    /\ Batches # {} /\ Files \cap Polls = {}
    /\ Content \in [Batches -> Seq(Row)]

VARIABLES
    batches,     \* staging.manual_uploads and staging.lms_sync_log
    book,        \* journal entries of a session, counted per source_ref
    sessions,    \* master.sessions: is there a row, which entries it names
    quarantine,  \* staging.data_quality_quarantine
    enrolled,    \* master.enrollments
    rates,       \* which rates are positive, for an enrollment on a day
    pc, job      \* each slot's call and its open transaction

vars == <<batches, book, sessions, quarantine, enrolled, rates, pc, job>>
master == <<enrolled, rates>>

-----------------------------------------------------------------------------
(* The two entries of a session: SES-<id>-REV and SES-<id>-COST.           *)
Entries == {"REV", "COST"}

(* Student rates give the revenue, tutor rates the cost; those of the      *)
(* enrollments and days that some row names.                               *)
Rates == UNION {{[of |-> Content[b][i].of, on |-> Content[b][i].on, gives |-> e] :
                    e \in Entries, i \in DOMAIN Content[b]} : b \in Batches}

Batch == [status : {"none", "processing", "done", "failed"},
          accepted : Nat, skipped : Nat, quarantined : Nat]
SessionRow == [there : BOOLEAN, names : SUBSET Entries]
Quarantined == [batch : Batches, row : Nat \ {0}, posting : BOOLEAN]
Job == [batch : Batches, row : Nat \ {0}, drafts : SUBSET Entries,
        inserted : SUBSET Entries, accepted : Nat, skipped : Nat, quarantined : Nat]

Steps == {"idle", "fetch", "row", "lookup", "post", "reject", "refuse"}

NewBatch(st) == [status |-> st, accepted |-> 0, skipped |-> 0, quarantined |-> 0]
NewJob(b) == [batch |-> b, row |-> 1, drafts |-> {}, inserted |-> {},
              accepted |-> 0, skipped |-> 0, quarantined |-> 0]
NoJob == NewJob(CHOOSE b \in Batches : TRUE)

RowOf(j) == Content[j.batch][j.row]
Id(s) == RowOf(job[s]).id

(* The drafts of a row, given the rates of its enrollment on its day: no   *)
(* entry without a rate and minutes, no cost for an absent student.        *)
Drafts(row, data) ==
    {e \in Entries :
        /\ row.taught
        /\ [of |-> row.of, on |-> row.on, gives |-> e] \in data
        /\ e = "COST" => ~ row.absent}

(* The entry posted next: revenue before cost.                             *)
NextEntry(j) == IF "REV" \in j.drafts \ j.inserted THEN "REV" ELSE "COST"

(* The unique index on source_ref, in the book and in open transactions.   *)
InBook(id, e) == book[id][e] > 0
InFlight(t, id, e) == pc[t] = "post" /\ Id(t) = id /\ e \in job[t].inserted

-----------------------------------------------------------------------------
Goto(s, from, to) == pc[s] = from /\ pc' = [pc EXCEPT ![s] = to]
SetJob(s, j) == job' = [job EXCEPT ![s] = j]
End(s) == pc' = [pc EXCEPT ![s] = "idle"] /\ SetJob(s, NoJob)

(* The job with other drafts, inserted so far; the job at the next row,    *)
(* with a counter moved.                                                   *)
With(j, drafts, inserted) ==
    [batch |-> j.batch, row |-> j.row, drafts |-> drafts, inserted |-> inserted,
     accepted |-> j.accepted, skipped |-> j.skipped, quarantined |-> j.quarantined]
NextRow(j, a, k, q) ==
    [batch |-> j.batch, row |-> j.row + 1, drafts |-> {}, inserted |-> {},
     accepted |-> j.accepted + a, skipped |-> j.skipped + k,
     quarantined |-> j.quarantined + q]

Init ==
    /\ batches = [b \in Batches |-> NewBatch("none")]
    /\ book = [id \in Ids |-> [e \in Entries |-> 0]]
    /\ sessions = [id \in Ids |-> [there |-> FALSE, names |-> {}]]
    /\ quarantine = {}
    /\ enrolled = {} /\ rates = {}
    /\ pc = [s \in Slots |-> "idle"]
    /\ job = [s \in Slots |-> NoJob]

(* Enrollments are uploaded while sessions come in (ON CONFLICT DO         *)
(* NOTHING), and rates entered: the latest row that is in force on a day   *)
(* decides, and the table allows a rate of zero.                           *)
Enroll(e) ==
    /\ e \notin enrolled
    /\ enrolled' = enrolled \cup {e}
    /\ UNCHANGED <<batches, book, sessions, quarantine, rates, pc, job>>
SetRate(x) ==
    /\ rates' = IF x \in rates THEN rates \ {x} ELSE rates \cup {x}
    /\ UNCHANGED <<batches, book, sessions, quarantine, enrolled, pc, job>>

(* _insert_upload_record, or the INSERT of lms_sync_now, and its commit.   *)
(* A file that is there already violates the unique batch_id: the call     *)
(* fails and changes nothing.                                              *)
Start(s, b) ==
    /\ batches[b].status = "none"
    /\ Goto(s, "idle", IF b \in Polls THEN "fetch" ELSE "row")
    /\ batches' = [batches EXCEPT ![b] = NewBatch("processing")]
    /\ SetJob(s, NewJob(b))
    /\ UNCHANGED <<book, sessions, quarantine, master>>

FetchInto(s, failure) ==
    /\ pc[s] = "fetch"
    /\ \/ Goto(s, "fetch", "row") /\ UNCHANGED <<batches, job>>
       \/ End(s) /\ batches' = [batches EXCEPT ![job[s].batch] = NewBatch(failure)]
    /\ UNCHANGED <<book, sessions, quarantine, master>>

(* Mutant: a status that the table does not know.                          *)
FetchOrError(s) == FetchInto(s, "error")

(* adapter.fetch_sessions; a failure is logged.                            *)
Fetch(s) == FetchInto(s, "failed")

(* parse_session_row and _session_already_posted: only the revenue entry   *)
(* makes a row a duplicate.                                                *)
ReadRowIf(s, posted) ==
    LET j == job[s]
    IN  /\ pc[s] = "row"
        /\ j.row <= Len(Content[j.batch])
        /\ \/ /\ ~ RowOf(j).valid
              /\ Goto(s, "row", "reject") /\ UNCHANGED job
           \/ /\ RowOf(j).valid /\ posted
              /\ SetJob(s, NextRow(j, 0, 1, 0)) /\ UNCHANGED pc
           \/ /\ RowOf(j).valid /\ ~ posted
              /\ Goto(s, "row", "lookup") /\ UNCHANGED job
        /\ UNCHANGED <<batches, book, sessions, quarantine, master>>

(* Mutant: the read sees entries that are not committed.                   *)
ReadRowDirty(s) ==
    ReadRowIf(s, InBook(Id(s), "REV") \/ \E t \in Slots : InFlight(t, Id(s), "REV"))

ReadRow(s) == ReadRowIf(s, InBook(Id(s), "REV"))

(* _post_session up to its first posting: the enrollment of the row, and   *)
(* the rates of its day, in one SELECT.                                    *)
Lookup(s) ==
    /\ pc[s] = "lookup"
    /\ IF RowOf(job[s]).of \in enrolled
         THEN /\ Goto(s, "lookup", "post")
              /\ SetJob(s, With(job[s], Drafts(RowOf(job[s]), rates), {}))
         ELSE Goto(s, "lookup", "refuse") /\ UNCHANGED job
    /\ UNCHANGED <<batches, book, sessions, quarantine, master>>

(* An exception: the transaction is rolled back, the row goes to           *)
(* quarantine.                                                             *)
Refuse(s) ==
    /\ Goto(s, "post", "refuse")
    /\ SetJob(s, With(job[s], {}, {}))

Insert(s, e) ==
    /\ SetJob(s, With(job[s], job[s].drafts, job[s].inserted \cup {e}))
    /\ UNCHANGED <<book, pc>>

Posting(s) == pc[s] = "post" /\ job[s].drafts # job[s].inserted
Free(s, e) == \A t \in Slots \ {s} : ~ InFlight(t, Id(s), e)
Add(counts, es) == [e \in Entries |-> IF e \in es THEN counts[e] + 1 ELSE counts[e]]

(* Mutants: a lookup of the source_ref in place of the index; the posting  *)
(* tried again and again; an entry committed as soon as it is posted.      *)
PostAfterLookup(s) ==
    LET e == NextEntry(job[s])
    IN  /\ Posting(s)
        /\ \/ ~ InBook(Id(s), e) /\ Insert(s, e)
           \/ Refuse(s) /\ UNCHANGED book
        /\ UNCHANGED <<batches, sessions, quarantine, master>>
PostRetried(s) ==
    LET e == NextEntry(job[s])
    IN  /\ Posting(s) /\ Free(s, e) /\ ~ InBook(Id(s), e) /\ Insert(s, e)
        /\ UNCHANGED <<batches, sessions, quarantine, master>>
PostCommitted(s) ==
    LET e == NextEntry(job[s])
    IN  /\ Posting(s) /\ Free(s, e)
        /\ \/ /\ ~ InBook(Id(s), e)
              /\ SetJob(s, With(job[s], job[s].drafts, job[s].inserted \cup {e}))
              /\ book' = [book EXCEPT ![Id(s)] = Add(@, {e})]
              /\ UNCHANGED pc
           \/ Refuse(s) /\ UNCHANGED book
        /\ UNCHANGED <<batches, sessions, quarantine, master>>

(* post_journal of the next draft.  It waits for a transaction that has    *)
(* inserted the source_ref, fails on one in the book, and may be refused.  *)
Post(s) ==
    LET e == NextEntry(job[s])
    IN  /\ Posting(s) /\ Free(s, e)
        /\ \/ ~ InBook(Id(s), e) /\ Insert(s, e)
           \/ Refuse(s) /\ UNCHANGED book
        /\ UNCHANGED <<batches, sessions, quarantine, master>>

(* INSERT ... ON CONFLICT DO NOTHING into master.sessions.                 *)
Record(row, names) == IF row.there THEN row ELSE [there |-> TRUE, names |-> names]

(* That INSERT, which needs the period to exist, and the commit, which the *)
(* wallet trigger may refuse.                                              *)
Commit(s) ==
    LET j == job[s]
    IN  /\ pc[s] = "post" /\ j.drafts = j.inserted
        /\ \/ /\ Goto(s, "post", "row")
              /\ SetJob(s, NextRow(j, 1, 0, 0))
              /\ book' = [book EXCEPT ![Id(s)] = Add(@, j.inserted)]
              /\ sessions' = [sessions EXCEPT ![Id(s)] = Record(@, j.inserted)]
           \/ /\ "REV" \in j.inserted \/ ~ sessions[Id(s)].there
              /\ Refuse(s) /\ UNCHANGED <<book, sessions>>
        /\ UNCHANGED <<batches, quarantine, master>>

(* _quarantine_row and its commit.  The INSERT may itself raise (the       *)
(* payload is a Python dict with its quotes replaced, cast to jsonb), and  *)
(* nothing catches that: the call ends and the batch stays in processing.  *)
Quarantine(s) ==
    LET j == job[s]
    IN  /\ pc[s] \in {"reject", "refuse"}
        /\ \/ /\ quarantine' = quarantine \cup
                     {[batch |-> j.batch, row |-> j.row, posting |-> pc[s] = "refuse"]}
              /\ Goto(s, pc[s], "row")
              /\ SetJob(s, NextRow(j, 0, 0, 1))
           \/ End(s) /\ UNCHANGED quarantine
        /\ UNCHANGED <<batches, book, sessions, master>>

(* _finalise_upload, or the last UPDATE of lms_sync_now.                   *)
Finalise(s) ==
    LET j == job[s]
    IN  /\ pc[s] = "row" /\ j.row > Len(Content[j.batch])
        /\ batches' = [batches EXCEPT ![j.batch] =
             [status |-> "done", accepted |-> j.accepted,
              skipped |-> j.skipped, quarantined |-> j.quarantined]]
        /\ End(s)
        /\ UNCHANGED <<book, sessions, quarantine, master>>

(* The process dies, or an error that no clause catches.                   *)
Crash(s) ==
    /\ pc[s] # "idle"
    /\ End(s)
    /\ UNCHANGED <<batches, book, sessions, quarantine, master>>

Step(s) ==
    \/ Fetch(s) \/ ReadRow(s) \/ Lookup(s) \/ Post(s) \/ Commit(s)
    \/ Quarantine(s) \/ Finalise(s)

Next ==
    \/ \E e \in Enrollments : Enroll(e)
    \/ \E x \in Rates : SetRate(x)
    \/ \E s \in Slots, b \in Batches : Start(s, b)
    \/ \E s \in Slots : Step(s) \/ Crash(s)

Spec == Init /\ [][Next]_vars

(* A call that is being served is not stopped.                             *)
FairSpec == Spec /\ \A s \in Slots : WF_vars(Step(s))

-----------------------------------------------------------------------------
(* Properties.                                                             *)

(* Every table has the type of its columns, and a slot works on a row of   *)
(* its batch.                                                              *)
TypeOK ==
    /\ batches \in [Batches -> Batch]
    /\ book \in [Ids -> [Entries -> Nat]]
    /\ sessions \in [Ids -> SessionRow]
    /\ quarantine \subseteq Quarantined
    /\ enrolled \subseteq Enrollments /\ rates \subseteq Rates
    /\ pc \in [Slots -> Steps]
    /\ job \in [Slots -> Job]
    /\ \A s \in Slots : pc[s] \in {"lookup", "post", "reject", "refuse"} =>
           job[s].row <= Len(Content[job[s].batch])

(* A session's revenue and its cost are recognised at most once, by        *)
(* whatever batches it comes in: the check of a row is a read before the   *)
(* transaction, and two batches may pass it together.                      *)
PostedOnce == \A id \in Ids, e \in Entries : book[id][e] <= 1

(* Nothing is posted for a session without its master.sessions row, and    *)
(* the row names no entry that is not in the book: of the two postings     *)
(* and the INSERT, any may fail.                                           *)
RowsBacked ==
    \A id \in Ids :
        /\ \A e \in sessions[id].names : InBook(id, e)
        /\ (\E e \in Entries : InBook(id, e)) => sessions[id].there

(* A batch that is done accounts for every row of its content: a session   *)
(* that is recorded, or a row in quarantine, as its counts say.  A row     *)
(* skipped as a duplicate must not have been one that another batch then   *)
(* rolled back.                                                            *)
InQuarantine(b) == {q \in quarantine : q.batch = b}
Accounted(b, i) ==
    \/ Content[b][i].valid /\ sessions[Content[b][i].id].there
    \/ \E q \in InQuarantine(b) : q.row = i
DoneAccounts ==
    \A b \in Batches : batches[b].status = "done" =>
        /\ batches[b].accepted + batches[b].skipped + batches[b].quarantined
             = Len(Content[b])
        /\ batches[b].quarantined = Cardinality(InQuarantine(b))
        /\ \A i \in 1 .. Len(Content[b]) : Accounted(b, i)

(* What the transaction of a slot may count on: what it has inserted is of *)
(* its drafts and not in the book.                                         *)
Fits(s) ==
    /\ pc[s] # "post" => job[s].inserted = {}
    /\ pc[s] = "post" => job[s].inserted \subseteq job[s].drafts
    /\ \A e \in job[s].inserted : ~ InBook(Id(s), e)
    /\ pc[s] \in {"lookup", "post"} => RowOf(job[s]).valid

(* No two of them have inserted one source_ref.                            *)
Apart(s, t) ==
    \A id \in Ids, e \in Entries : ~ (InFlight(s, id, e) /\ InFlight(t, id, e))

(* Where a batch stands: the rows before the one at hand are accounted     *)
(* for, and no other slot works on it.                                     *)
Progress(s) ==
    LET j == job[s]
    IN  pc[s] # "idle" =>
            /\ batches[j.batch].status = "processing"
            /\ j.row <= Len(Content[j.batch]) + 1
            /\ j.accepted + j.skipped + j.quarantined = j.row - 1
            /\ j.quarantined = Cardinality(InQuarantine(j.batch))
            /\ \A i \in 1 .. j.row - 1 : Accounted(j.batch, i)
            /\ \A q \in InQuarantine(j.batch) : q.row < j.row
            /\ \A t \in Slots \ {s} : pc[t] # "idle" => job[t].batch # j.batch

(* The inductive invariant of the proofs.                                  *)
IInv ==
    /\ TypeOK
    /\ \A s \in Slots : Fits(s) /\ Progress(s)
    /\ \A s, t \in Slots : s # t => Apart(s, t)
    /\ IsFiniteSet(quarantine)
    /\ \A b \in Batches : batches[b].status = "none" => InQuarantine(b) = {}
    /\ PostedOnce /\ RowsBacked /\ DoneAccounts

(* Every call ends, though a posting may wait for another's transaction.   *)
CallsEnd == \A s \in Slots : (pc[s] # "idle") ~> (pc[s] = "idle")

=============================================================================
