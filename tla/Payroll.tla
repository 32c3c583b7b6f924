------------------------------ MODULE Payroll ------------------------------
(***************************************************************************)
(* What tutors are owed and paid.  Sessions are accrued one by one         *)
(* (agents/payroll.py; Ingestion has the batch they come in).  Payout      *)
(* sheets are uploaded to POST /payroll/disburse (api/routes/payroll.py),  *)
(* which posts and records one payment per row and commits after each:     *)
(* a refused row is rolled back and the next one is tried, a row whose     *)
(* amount is not a number ends the request where it is.  Around them the   *)
(* CFO posts and reverses journals on account 2020 (api/routes/            *)
(* manual_je.py) and month-end revalues what is owed (agents/fx.py), each  *)
(* in one transaction: MonthEnd has the interleavings of a revaluation.    *)
(* Account 2030, of tutors paid in AED, is no part of a PKR position: only *)
(* journals entered by hand use it, and none is modelled here.             *)
(***************************************************************************)
EXTENDS TutorPayable, Sequences

CONSTANTS
    Slots,       \* database connections
    Tutors,      \* master.tutors
    Stranger,    \* a tutor_id that is in a sheet and not in master.tutors
    Months,
    Sheets,      \* the payout sheets, sequences of rows
    Sessions,    \* sessions that may be accrued
    Scheduled,   \* bound of PaymentSound: lengths of a session
    Minutes,     \* bound of PaymentSound: minutes conducted
    HourRates,   \* bound of PaymentSound: rates of a tutor
    NoRef,       \* source_ref NULL
    Rates,       \* closing rates of a revaluation
    ByHand,      \* credits less debits of 2020 that the CFO enters
    MaxEntries,  \* bound: journal entries inserted, committed or not
    MaxCorrections  \* bound: revaluations, journals by hand and reversals

VARIABLES
    book,        \* ledger.journal_entries with their line on account 2020
    rows,        \* subledger.tutor_payable_entries
    disbursed,   \* subledger.tutor_disbursements
    active,      \* tutors with active = true
    closed,      \* the CLOSED months
    nextId,      \* the je_id sequence
    pc,          \* where each slot's request is
    job          \* its sheet, its row, what it has paid and refused

vars == <<book, rows, disbursed, active, closed, nextId, pc, job>>
tables == <<book, rows, disbursed>>
masters == <<active, closed>>

-----------------------------------------------------------------------------
(* Data.                                                                   *)

(* A row of a sheet as the route tells them apart: it lacks a column, has  *)
(* an id or a date that cannot be read or an amount that is not positive;  *)
(* its amount is not a number; or it can be paid.                          *)
RowKinds == {"malformed", "not_a_number", "pay"}
SheetRow == [kind : RowKinds, tutor : Tutors \cup {Stranger}, amount : Nat \ {0},
             month : Months]

SessionOf == [id : STRING, tutor : Tutors, month : Months, rate : Nat,
              scheduled : Nat \ {0}, conducted : Nat, fx : Nat]

Line == [key : Tutors, amount : Int, original : Int \cup {NoOriginal}]

(* Who posts: post_accrual, the payout sheets, revalue_unrealized, the CFO *)
(* by hand, reverse_journal.  reverses is 0 in what reverses nothing.      *)
Sources == {"accrual", "payout", "revaluation", "manual", "reversal"}
Entry == [id : Nat \ {0}, source : Sources, ref : STRING \cup {NoRef}, reverses : Nat,
          month : Months, line : Line]
MirrorRow == [je : Nat, key : Tutors, amount : Int, original : Int]
Disbursement == [je : Nat, tutor : Tutors, amount : Nat, month : Months]
Receipt == [row : Nat, je : Nat]

Job == [sheet : Seq(SheetRow), row : Nat, posted : SUBSET Entry,
        record : SUBSET Disbursement, paid : SUBSET Receipt, refused : SUBSET Nat]

NoJob == [sheet |-> <<>>, row |-> 0, posted |-> {}, record |-> {}, paid |-> {},
          refused |-> {}]

ASSUME PayrollAssumption ==
    /\ Stranger \notin Tutors
    /\ Sheets \subseteq Seq(SheetRow)
    /\ Sessions \subseteq SessionOf
    /\ NoRef \notin STRING /\ NoOriginal \notin Int
    /\ HourRates \subseteq Nat /\ Scheduled \subseteq Nat \ {0} /\ Minutes \subseteq Nat
    /\ Rates \subseteq Int /\ ByHand \subseteq Int
    /\ MaxEntries \in Nat /\ MaxCorrections \in Nat

-----------------------------------------------------------------------------
(* Slots.                                                                  *)

Goto(s, from, to) == pc[s] = from /\ pc' = [pc EXCEPT ![s] = to]

Now(s) == job[s].sheet[job[s].row]

End(s) ==
    /\ pc' = [pc EXCEPT ![s] = "idle"]
    /\ job' = [job EXCEPT ![s] = NoJob]

(* The next row, with nothing of this one left in the transaction.         *)
NextRow(s, paid, refused) ==
    /\ pc' = [pc EXCEPT ![s] = "row"]
    /\ job' = [job EXCEPT ![s] =
                 [sheet |-> @.sheet, row |-> @.row + 1, posted |-> {}, record |-> {},
                  paid |-> @.paid \cup paid, refused |-> @.refused \cup refused]]

(* Mutant: a row that is refused leaves the list of rows where it is.      *)
RefuseUncounted(s) == NextRow(s, {}, {})

RefuseRow(s) == NextRow(s, {}, {job[s].row})

(* post_journal of a line on account 2020: the month is not closed, the    *)
(* tutor active, the line has a side.                                      *)
Accepted(month, line) ==
    /\ month \notin closed
    /\ line.key \in active
    /\ line.amount # 0

(* Bound on the runs: the ids that the sheets in flight may take.          *)
Room(n) ==
    nextId - 1 + n + MapThenSumSet(LAMBDA t : Len(job[t].sheet), Slots) <= MaxEntries

Init ==
    /\ book = {} /\ rows = {} /\ disbursed = {}
    /\ active = Tutors
    /\ closed = {}
    /\ nextId = 1
    /\ pc = [s \in Slots |-> "idle"]
    /\ job = [s \in Slots |-> NoJob]

-----------------------------------------------------------------------------
(* POST /payroll/disburse.                                                 *)

StartDisburse(s, sheet) ==
    /\ Room(Len(sheet))
    /\ sheet # <<>>
    /\ Goto(s, "idle", "row")
    /\ job' = [job EXCEPT ![s] = [sheet |-> sheet, row |-> 1, posted |-> {}, record |-> {},
                                  paid |-> {}, refused |-> {}]]
    /\ UNCHANGED <<tables, masters, nextId>>

(* The answer, with the rows that were paid and those that were not.       *)
Answer(s) ==
    /\ pc[s] = "row"
    /\ job[s].row > Len(job[s].sheet)
    /\ End(s)
    /\ UNCHANGED <<tables, masters, nextId>>

(* A row is refused before any posting, or its tutor is looked up; aed     *)
(* raises what no clause catches on an amount that is not a number.        *)
ReadRow(s) ==
    /\ pc[s] = "row"
    /\ job[s].row <= Len(job[s].sheet)
    /\ CASE Now(s).kind = "not_a_number" -> End(s)
         [] Now(s).kind = "malformed" \/ Now(s).tutor = Stranger -> RefuseRow(s)
         [] OTHER -> Goto(s, "row", "post") /\ UNCHANGED job
    /\ UNCHANGED <<tables, masters, nextId>>

(* Dr 2020 / Cr 1010, a manual entry without a source_ref and without an   *)
(* original amount.                                                        *)
PayoutLine(r) == SubLine(r.tutor, - r.amount, NoOriginal)
Payout(id, r) ==
    [id |-> id, source |-> "payout", ref |-> NoRef, reverses |-> 0, month |-> r.month,
     line |-> PayoutLine(r)]

(* A posting that is refused is rolled back and reported.                  *)
Refuse(s) ==
    /\ pc[s] = "post"
    /\ ~ Accepted(Now(s).month, PayoutLine(Now(s)))
    /\ RefuseRow(s)
    /\ UNCHANGED <<tables, masters, nextId>>

Post(s) ==
    /\ Goto(s, "post", "record")
    /\ Accepted(Now(s).month, PayoutLine(Now(s)))
    /\ job' = [job EXCEPT ![s].posted = {Payout(nextId, Now(s))}]
    /\ nextId' = nextId + 1
    /\ UNCHANGED <<tables, masters>>

(* Mutant: the record has the signed amount of the line.                   *)
RecordedSigned(s) ==
    {[je |-> e.id, tutor |-> Now(s).tutor, amount |-> e.line.amount,
      month |-> Now(s).month] : e \in job[s].posted}

Recorded(s) ==
    {[je |-> e.id, tutor |-> Now(s).tutor, amount |-> Now(s).amount,
      month |-> Now(s).month] : e \in job[s].posted}

(* Mutant: the posting commits by itself, before its record is written.    *)
RecordLate(s) ==
    /\ Goto(s, "record", "commit")
    /\ book' = book \cup job[s].posted
    /\ rows' = rows \cup {Row(e.id, e.line) : e \in job[s].posted}
    /\ job' = [job EXCEPT ![s].record = Recorded(s)]
    /\ UNCHANGED <<disbursed, masters, nextId>>

(* INSERT INTO tutor_disbursements, with the je_id of the posting.         *)
Record(s) ==
    /\ Goto(s, "record", "commit")
    /\ job' = [job EXCEPT ![s].record = Recorded(s)]
    /\ UNCHANGED <<tables, masters, nextId>>

(* The row's own commit.                                                   *)
Commit(s) ==
    LET j == job[s]
    IN  /\ pc[s] = "commit"
        /\ book' = book \cup j.posted
        /\ rows' = rows \cup {Row(e.id, e.line) : e \in j.posted}
        /\ disbursed' = disbursed \cup j.record
        /\ NextRow(s, {[row |-> j.row, je |-> e.id] : e \in j.posted}, {})
        /\ UNCHANGED <<masters, nextId>>

(* The process dies or the client goes: what was committed stays.          *)
Crash(s) ==
    /\ pc[s] # "idle"
    /\ End(s)
    /\ UNCHANGED <<tables, masters, nextId>>

-----------------------------------------------------------------------------
(* Around it.                                                              *)

(* One more entry, committed with its row.                                 *)
Enter(source, ref, reverses, month, line) ==
    /\ Room(1)
    /\ Accepted(month, line)
    /\ book' = book \cup {[id |-> nextId, source |-> source, ref |-> ref,
                           reverses |-> reverses, month |-> month, line |-> line]}
    /\ rows' = rows \cup {Row(nextId, line)}
    /\ nextId' = nextId + 1
    /\ UNCHANGED <<disbursed, masters, pc, job>>

(* A session's cost is accrued once (its source_ref), if it has one and    *)
(* something is left of it after the penalty.                              *)
Accrue(x) ==
    LET pay == Payment(x.rate, x.scheduled, x.conducted)
    IN  /\ pay.prorated # 0
        /\ \A e \in book : e.ref # x.id
        /\ Enter("accrual", x.id, 0, x.month, AccrualLine(x.tutor, pay, x.fx))

Corrections == {e \in book : e.source \in {"revaluation", "manual", "reversal"}}

Correct(source, reverses, month, line) ==
    /\ Cardinality(Corrections) < MaxCorrections
    /\ Enter(source, NoRef, reverses, month, line)

(* revalue_unrealized, of one tutor: its reference has the tutor and the   *)
(* day of posting, and a month has more days than a run has entries.       *)
Revalue(t, month, rate) ==
    /\ t \in OpenPositions(rows, Tutors)
    /\ Correct("revaluation", 0, month, RevaluationLine(rows, t, rate))

(* POST /journal-entries: a line of the payload has no original amount.    *)
PostManual(t, month, a) == Correct("manual", 0, month, SubLine(t, a, NoOriginal))

(* reverse_journal, once for an entry and in any open month.  The record   *)
(* of a payment that is reversed stays.                                    *)
ReverseEntry(e, month) ==
    /\ \A f \in book : f.reverses # e.id
    /\ Correct("reversal", e.id, month, TakeBack(e.line))

(* PUT /tutors/{id}.                                                       *)
SetTutorActive(t) ==
    /\ active' = IF t \in active THEN active \ {t} ELSE active \cup {t}
    /\ UNCHANGED <<tables, closed, nextId, pc, job>>

(* PeriodService.close and reopen.                                         *)
CloseOrReopen(m) ==
    /\ closed' = IF m \in closed THEN closed \ {m} ELSE closed \cup {m}
    /\ UNCHANGED <<tables, active, nextId, pc, job>>

Step(s) ==
    \/ Answer(s) \/ ReadRow(s) \/ Refuse(s) \/ Post(s) \/ Record(s) \/ Commit(s)

Next ==
    \/ \E s \in Slots : (\E f \in Sheets : StartDisburse(s, f)) \/ Step(s) \/ Crash(s)
    \/ \E x \in Sessions : Accrue(x)
    \/ \E m \in Months :
          \/ \E t \in Tutors : \/ \E rate \in Rates : Revalue(t, m, rate)
                              \/ \E a \in ByHand : PostManual(t, m, a)
          \/ \E e \in book : ReverseEntry(e, m)
    \/ \E t \in Tutors : SetTutorActive(t)
    \/ \E m \in Months : CloseOrReopen(m)

Spec == Init /\ [][Next]_vars

-----------------------------------------------------------------------------
(* Properties.                                                             *)

TypeOK ==
    /\ book \subseteq Entry
    /\ rows \subseteq MirrorRow
    /\ disbursed \subseteq Disbursement
    /\ active \subseteq Tutors /\ closed \subseteq Months
    /\ nextId \in Nat \ {0}
    /\ pc \in [Slots -> {"idle", "row", "post", "record", "commit"}]
    /\ job \in [Slots -> Job]

Payouts == {e \in book : e.source = "payout"}

(* Every payment in the ledger has its record of disbursement and every    *)
(* record its payment, of the same tutor, amount and month, wherever the   *)
(* requests that made them stopped.                                        *)
PaymentsRecorded ==
    /\ \A e \in Payouts : \E d \in disbursed : d.je = e.id
    /\ \A d \in disbursed : \E e \in Payouts :
          e.id = d.je /\ e.month = d.month /\ e.line = SubLine(d.tutor, - d.amount, NoOriginal)
    /\ \A d, g \in disbursed : d.je = g.je => d = g

(* At every row of a sheet, each row before it has been paid once or       *)
(* refused, never both, and each receipt is a payment of that row's tutor  *)
(* and amount: months that close, tutors that leave and other uploads in   *)
(* between shift nothing.                                                  *)
RowsAccounted ==
    \A s \in Slots : pc[s] # "idle" =>
        LET j == job[s]
        IN  /\ 1 .. (j.row - 1) = {r.row : r \in j.paid} \cup j.refused
            /\ \A r, q \in j.paid : r.row = q.row \/ r.je = q.je => r = q
            /\ \A r \in j.paid :
                  /\ r.row \notin j.refused
                  /\ \E e \in Payouts : e.id = r.je
                                        /\ e.line = PayoutLine(j.sheet[r.row])

(* The AED a tutor is owed is what was accrued, revalued, entered by hand  *)
(* and taken back, less what the records of disbursement say was paid: the *)
(* position, the book and the records agree on every tutor, wherever       *)
(* requests stop and whatever is reversed, payments included.              *)
PositionExplained ==
    \A t \in Tutors :
        Amount(rows, t) =
            MapThenSumSet(LAMBDA e : e.line.amount,
                          {e \in book \ Payouts : e.line.key = t})
            - MapThenSumSet(LAMBDA d : d.amount, {d \in disbursed : d.tutor = t})

(* What compute_payment returns for every rate, length and minutes of the  *)
(* bounds: net and penalty add up to the prorated cost, which never        *)
(* exceeds the rate; more minutes never earn less; a penalty is five       *)
(* percent but for rounding; and the accrual is refused exactly where      *)
(* nothing is left to pay, so such a session never gets its entry.  The    *)
(* inputs are no part of the state: they are tried until the first entry   *)
(* is posted.                                                              *)
PaymentSound ==
    nextId = 1 => \A rate \in HourRates, scheduled \in Scheduled, m \in Minutes :
        LET p == Payment(rate, scheduled, m)
            open == Months \ closed
        IN  /\ \A t \in active, d \in open : Accepted(d, AccrualLine(t, p, RateUnit)) <=> p.net # 0
            /\ p.net + p.penalty = p.prorated /\ p.penalty >= 0
            /\ p.prorated <= rate
            /\ \A n \in Minutes : m <= n => p.net <= Payment(rate, scheduled, n).net
            /\ p.penalty = 0 \/ 2 * (100 * p.net - 95 * p.prorated) \in -195 .. 195

-----------------------------------------------------------------------------
(* What is known of a row under way.                                       *)

(* No one else has the id of what a transaction has posted.                *)
Own(s, id) ==
    /\ \A e \in book : e.id # id
    /\ \A t \in Slots \ {s} : \A e \in job[t].posted : e.id # id

(* A transaction has posted its row and recorded it, or nothing.           *)
Fits(s) ==
    /\ pc[s] # "idle" => job[s].row # 0
    /\ pc[s] \in {"post", "record", "commit"} => job[s].row <= Len(job[s].sheet)
    /\ IF pc[s] \in {"record", "commit"}
         THEN \E id \in 1 .. (nextId - 1) : Own(s, id) /\ job[s].posted = {Payout(id, Now(s))}
         ELSE job[s].posted = {}
    /\ job[s].record = IF pc[s] = "commit" THEN Recorded(s) ELSE {}

(* The inductive invariant.                                                *)
IInv ==
    /\ TypeOK
    /\ \A e \in book : e.id < nextId
    /\ \A s \in Slots : Fits(s)
    /\ PaymentsRecorded
    /\ RowsAccounted
=============================================================================
