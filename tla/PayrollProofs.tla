--------------------------- MODULE PayrollProofs ---------------------------
(***************************************************************************)
(* Proofs about Payroll: the payments that uploads of payout sheets make,  *)
(* row by row, the computation of a session's pay, and what a tutor's      *)
(* position comes to.                                                      *)
(***************************************************************************)
EXTENDS Payroll, Sums

(* A step of one slot leaves the others where they were.                   *)
Moved(s) == \A t \in Slots \ {s} : pc'[t] = pc[t] /\ job'[t] = job[t]

-----------------------------------------------------------------------------
(* Arithmetic of the pay.                                                  *)

(* A common factor that is positive can be left out.                       *)
LEMMA Cancel ==
    ASSUME NEW a \in Int, NEW b \in Int, NEW n \in Nat \ {0}, n * a <= n * b
    PROVE  a <= b
<1>1. SUFFICES ASSUME a >= b + 1 PROVE FALSE
  OBVIOUS
<1>2. n * a >= n * (b + 1)
  BY <1>1
<1>3. n * (b + 1) = n * b + n
  OBVIOUS
<1> QED BY <1>2, <1>3

(* HalfUp is within half a unit of the quotient, and no negative number.   *)
LEMMA HalfUpBounds ==
    ASSUME NEW n \in Nat, NEW d \in Nat \ {0}
    PROVE  /\ HalfUp(n, d) \in Nat
           /\ 2 * (d * HalfUp(n, d)) <= 2 * n + d
           /\ 2 * n - d < 2 * (d * HalfUp(n, d))
<1> DEFINE m == 2 * n + d
           k == 2 * d
           q == m \div k
<1>1. m \in Nat /\ k \in Nat \ {0}
  OBVIOUS
<1>2. HalfUp(n, d) = q
  BY DEF HalfUp
<1>3. q \in Nat /\ k * q <= m /\ m < k * q + k
  <2> HIDE DEF m, k
  <2> QED BY <1>1
<1>4. k * q = 2 * (d * q)
  BY <1>3
<1> HIDE DEF q
<1> QED BY <1>2, <1>3, <1>4

(* It grows with its numerator.                                            *)
LEMMA HalfUpMonotone ==
    ASSUME NEW n \in Nat, NEW m \in Nat, NEW d \in Nat \ {0}, n <= m
    PROVE  HalfUp(n, d) <= HalfUp(m, d)
<1> DEFINE x == HalfUp(n, d)
           y == HalfUp(m, d)
<1>1. /\ x \in Nat /\ 2 * (d * x) <= 2 * n + d
      /\ y \in Nat /\ 2 * m - d < 2 * (d * y)
  BY HalfUpBounds
<1> HIDE DEF x, y
<1>2. d * x \in Nat /\ d * y \in Nat
  BY <1>1
<1>3. d * x < d * y + d
  BY <1>1, <1>2
<1>4. d * y + d = d * (y + 1)
  BY <1>1
<1>5. SUFFICES ASSUME x >= y + 1 PROVE FALSE
  BY <1>1 DEF x, y
<1>6. d * x >= d * (y + 1)
  BY <1>1, <1>5
<1> QED BY <1>1, <1>2, <1>3, <1>4, <1>6

(* It is exact where the quotient is whole.                                *)
LEMMA HalfUpExact ==
    ASSUME NEW n \in Nat, NEW d \in Nat \ {0} PROVE HalfUp(n * d, d) = n
<1> DEFINE x == HalfUp(n * d, d)
<1>1. n * d \in Nat /\ n * d = d * n
  OBVIOUS
<1>2. /\ x \in Nat /\ 2 * (d * x) <= 2 * (d * n) + d
      /\ 2 * (d * n) - d < 2 * (d * x)
  BY <1>1, HalfUpBounds
<1> HIDE DEF x
<1>3. d * x \in Nat /\ d * n \in Nat
  BY <1>1, <1>2
<1>4. d * x < d * n + d /\ d * n < d * x + d
  BY <1>2, <1>3
<1>5. d * n + d = d * (n + 1) /\ d * x + d = d * (x + 1)
  BY <1>2
<1>6. x < n + 1
  <2> SUFFICES ASSUME x >= n + 1 PROVE FALSE
    BY <1>2
  <2>1. d * x >= d * (n + 1)
    BY <1>2
  <2> QED BY <1>3, <1>4, <1>5, <2>1
<1>7. n < x + 1
  <2> SUFFICES ASSUME n >= x + 1 PROVE FALSE
    BY <1>2
  <2>1. d * n >= d * (x + 1)
    BY <1>2
  <2> QED BY <1>3, <1>4, <1>5, <2>1
<1> QED BY <1>2, <1>6, <1>7 DEF x

(* The three cases of a session.                                           *)
LEMMA PaymentCases ==
    ASSUME NEW rate \in Nat, NEW scheduled \in Nat \ {0}, NEW m \in Nat
    PROVE  LET c == Earned(m, scheduled)
               p == Payment(rate, scheduled, m)
           IN  /\ c \in 0 .. scheduled /\ c <= m
               /\ p.penalty = p.prorated - p.net
               /\ m = 0 => p.prorated = 0 /\ p.net = 0
               /\ m # 0 /\ ~ (c < Threshold) => p.prorated = rate /\ p.net = rate
               /\ m # 0 /\ c < Threshold =>
                     /\ p.prorated = HalfUp(rate * c, scheduled)
                     /\ p.net = HalfUp(rate * c * Factor, scheduled * 100)
<1> DEFINE c == Earned(m, scheduled)
           p == Payment(rate, scheduled, m)
           gross == HalfUp(rate * c, scheduled)
           cut == HalfUp(rate * c * Factor, scheduled * 100)
<1>1. c \in 0 .. scheduled /\ c <= m
  BY DEF Earned
<1>2. /\ p.prorated = CASE m <= 0 -> 0
                        [] m > 0 /\ c >= Threshold -> rate
                        [] OTHER -> gross
      /\ p.net = CASE m <= 0 -> 0
                   [] m > 0 /\ c >= Threshold -> rate
                   [] OTHER -> cut
      /\ p.penalty = p.prorated - p.net
  BY DEF Payment
<1> HIDE DEF c, p, gross, cut
<1>3. /\ m = 0 => p.prorated = 0 /\ p.net = 0
      /\ m # 0 /\ ~ (c < Threshold) => p.prorated = rate /\ p.net = rate
      /\ m # 0 /\ c < Threshold => p.prorated = gross /\ p.net = cut
  <2>1. CASE m = 0
    BY <1>2, <2>1
  <2>2. CASE m # 0
    <3>1. m > 0 /\ ~ (m <= 0) /\ (c < Threshold <=> ~ (c >= Threshold))
      BY <1>1, <2>2 DEF Threshold
    <3> QED BY <1>2, <2>2, <3>1
  <2> QED BY <2>1, <2>2
<1> QED BY <1>1, <1>2, <1>3 DEF c, p, gross, cut

(* A session that is not paid in full: what is paid is bounded by the rate *)
(* and by what is prorated, five percent less but for rounding.            *)
LEMMA CutBounds ==
    ASSUME NEW rate \in Nat, NEW scheduled \in Nat \ {0}, NEW c \in 0 .. scheduled,
           NEW gross, gross = HalfUp(rate * c, scheduled),
           NEW net, net = HalfUp(rate * c * Factor, scheduled * 100)
    PROVE  /\ gross \in Nat /\ net \in Nat
           /\ net <= gross /\ gross <= rate
           /\ 2 * (100 * net - 95 * gross) \in -195 .. 195
<1> DEFINE x == rate * c
           d == scheduled * gross
           f == scheduled * net
<1>1. x \in Nat /\ x * 95 \in Nat /\ scheduled * 100 \in Nat \ {0}
  OBVIOUS
<1>2. /\ gross \in Nat /\ 2 * d <= 2 * x + scheduled /\ 2 * x - scheduled < 2 * d
  BY <1>1, HalfUpBounds
<1>3. /\ net \in Nat
      /\ 2 * ((scheduled * 100) * net) <= 2 * (x * 95) + scheduled * 100
      /\ 2 * (x * 95) - scheduled * 100 < 2 * ((scheduled * 100) * net)
  <2> DEFINE y == x * 95
             z == scheduled * 100
  <2>1. net = HalfUp(y, z) /\ y \in Nat /\ z \in Nat \ {0}
    BY <1>1 DEF Factor
  <2> HIDE DEF y, z
  <2>2. net \in Nat /\ 2 * (z * net) <= 2 * y + z /\ 2 * y - z < 2 * (z * net)
    BY <2>1, HalfUpBounds
  <2> QED BY <2>2 DEF y, z
<1>4. (scheduled * 100) * net = 100 * f
  BY <1>3
<1>5. d \in Nat /\ f \in Nat
  BY <1>2, <1>3
<1>6. x <= rate * scheduled
  OBVIOUS
<1>7. gross <= rate
  BY <1>1, <1>6, HalfUpMonotone, HalfUpExact
<1>8. 2 * (100 * net - 95 * gross) \in -195 .. 195
  <2> DEFINE y == 2 * (100 * net - 95 * gross)
  <2>1. y \in Int
    BY <1>2, <1>3
  <2>2. scheduled * y = 200 * f - 190 * d
    BY <1>2, <1>3
  <2> HIDE DEF y, x, d, f
  <2>3. scheduled * y <= scheduled * 195 /\ scheduled * (-195) <= scheduled * y
    BY <1>1, <1>2, <1>3, <1>4, <1>5, <2>2
  <2>4. y <= 195
    BY <2>1, <2>3, Cancel
  <2>5. -195 <= y
    BY <2>1, <2>3, Cancel
  <2> QED BY <2>1, <2>4, <2>5 DEF y
<1>9. net <= gross
  <2> HIDE DEF d, f
  <2> QED BY <1>2, <1>3, <1>8
<1> QED BY <1>2, <1>3, <1>7, <1>8, <1>9

(* What a session is paid, for every rate, length and number of minutes.   *)
LEMMA PaymentBounds ==
    ASSUME NEW rate \in Nat, NEW scheduled \in Nat \ {0}, NEW m \in Nat
    PROVE  LET p == Payment(rate, scheduled, m)
           IN  /\ p.net \in Nat /\ p.prorated \in Nat
               /\ p.net + p.penalty = p.prorated /\ p.penalty >= 0
               /\ p.prorated <= rate /\ p.net <= rate
               /\ p.penalty = 0 \/ 2 * (100 * p.net - 95 * p.prorated) \in -195 .. 195
<1> DEFINE p == Payment(rate, scheduled, m)
           c == Earned(m, scheduled)
           gross == HalfUp(rate * c, scheduled)
           net == HalfUp(rate * c * Factor, scheduled * 100)
<1>1. Threshold = 52
  BY DEF Threshold
<1>2. /\ c \in 0 .. scheduled /\ c <= m
      /\ p.penalty = p.prorated - p.net
      /\ m = 0 => p.prorated = 0 /\ p.net = 0
      /\ m # 0 /\ ~ (c < Threshold) => p.prorated = rate /\ p.net = rate
      /\ m # 0 /\ c < Threshold => p.prorated = gross /\ p.net = net
  <2>1. c \in 0 .. scheduled /\ c <= m
    BY PaymentCases
  <2>2. p.penalty = p.prorated - p.net
    BY PaymentCases
  <2>3. m = 0 => p.prorated = 0 /\ p.net = 0
    BY PaymentCases
  <2>4. m # 0 /\ ~ (c < Threshold) => p.prorated = rate
    BY PaymentCases
  <2>5. m # 0 /\ ~ (c < Threshold) => p.net = rate
    BY PaymentCases
  <2>6. m # 0 /\ c < Threshold => p.prorated = gross
    BY PaymentCases
  <2>7. m # 0 /\ c < Threshold => p.net = net
    BY PaymentCases
  <2> QED BY <2>1, <2>2, <2>3, <2>4, <2>5, <2>6, <2>7
<1>4. /\ gross \in Nat /\ net \in Nat
      /\ net <= gross /\ gross <= rate
      /\ 2 * (100 * net - 95 * gross) \in -195 .. 195
  <2>1. c \in 0 .. scheduled
    BY <1>2
  <2> HIDE DEF c
  <2> QED BY <2>1, CutBounds
<1> HIDE DEF p, c, gross, net
<1>5. /\ p.net \in Nat /\ p.prorated \in Nat
      /\ p.net + p.penalty = p.prorated /\ p.penalty >= 0
      /\ p.prorated <= rate /\ p.net <= rate
      /\ p.penalty = 0 \/ 2 * (100 * p.net - 95 * p.prorated) \in -195 .. 195
  <2>1. CASE m = 0
    BY <1>1, <1>2, <2>1
  <2>2. CASE m # 0 /\ c >= Threshold
    BY <1>1, <1>2, <2>2
  <2>3. CASE m # 0 /\ c < Threshold
    BY <1>1, <1>2, <1>4, <2>3
  <2> QED BY <1>1, <1>2, <2>1, <2>2, <2>3
<1> QED BY <1>5 DEF p

(* More minutes never earn less.                                           *)
LEMMA PaymentMonotone ==
    ASSUME NEW rate \in Nat, NEW scheduled \in Nat \ {0}, NEW m \in Nat, NEW n \in Nat,
           m <= n
    PROVE  Payment(rate, scheduled, m).net <= Payment(rate, scheduled, n).net
<1> DEFINE p == Payment(rate, scheduled, m)
           q == Payment(rate, scheduled, n)
           c == Earned(m, scheduled)
           e == Earned(n, scheduled)
<1> SUFFICES p.net <= q.net
  OBVIOUS
<1>1. c <= e
  BY DEF Earned
<1>2. /\ p.net \in Nat /\ p.net <= rate /\ q.net \in Nat
  BY PaymentBounds
<1>3. /\ c \in 0 .. scheduled
      /\ m = 0 => p.net = 0
      /\ m # 0 /\ c < Threshold => p.net = HalfUp(rate * c * Factor, scheduled * 100)
  BY PaymentCases
<1>4. /\ e \in 0 .. scheduled
      /\ n # 0 /\ ~ (e < Threshold) => q.net = rate
      /\ n # 0 /\ e < Threshold => q.net = HalfUp(rate * e * Factor, scheduled * 100)
  BY PaymentCases
<1>5. HalfUp(rate * c * Factor, scheduled * 100) <= HalfUp(rate * e * Factor, scheduled * 100)
  <2> DEFINE x == rate * c
             y == rate * e
  <2>1. x \in Nat /\ y \in Nat /\ scheduled * 100 \in Nat \ {0}
    BY <1>3, <1>4
  <2>2. x <= y
    BY <1>1, <1>3, <1>4
  <2> HIDE DEF x, y
  <2>3. x * 95 \in Nat /\ y * 95 \in Nat /\ x * 95 <= y * 95
    BY <2>1, <2>2
  <2>4. HalfUp(x * 95, scheduled * 100) <= HalfUp(y * 95, scheduled * 100)
    BY <2>1, <2>3, HalfUpMonotone
  <2> QED BY <2>4 DEF x, y, Factor
<1> HIDE DEF p, q, c, e
<1>6. CASE m = 0
  BY <1>2, <1>3, <1>6
<1>7. CASE m # 0 /\ ~ (e < Threshold)
  BY <1>2, <1>4, <1>7
<1>8. CASE m # 0 /\ e < Threshold
  BY <1>1, <1>3, <1>4, <1>5, <1>8 DEF Threshold
<1> QED BY <1>6, <1>7, <1>8

(* Pay is sound for every rate, length and number of minutes, and not only *)
(* on a grid around the threshold: net and penalty make up the prorated    *)
(* cost, the rate is never exceeded, minutes never cost money, a penalty   *)
(* is five percent but for rounding.                                       *)
THEOREM PaySound == Spec => []PaymentSound
<1>1. PaymentSound
  <2> SUFFICES ASSUME NEW rate \in HourRates, NEW scheduled \in Scheduled, NEW m \in Minutes
               PROVE  LET p == Payment(rate, scheduled, m)
                          open == Months \ closed
                      IN  /\ \A t \in active, d \in open :
                                Accepted(d, AccrualLine(t, p, RateUnit)) <=> p.net # 0
                          /\ p.net + p.penalty = p.prorated /\ p.penalty >= 0
                          /\ p.prorated <= rate
                          /\ \A n \in Minutes :
                                m <= n => p.net <= Payment(rate, scheduled, n).net
                          /\ \/ p.penalty = 0
                             \/ 2 * (100 * p.net - 95 * p.prorated) \in -195 .. 195
    BY DEF PaymentSound
  <2> DEFINE p == Payment(rate, scheduled, m)
  <2>1. rate \in Nat /\ scheduled \in Nat \ {0} /\ m \in Nat /\ Minutes \subseteq Nat
    BY PayrollAssumption
  <2>2. \A n \in Minutes : m <= n => p.net <= Payment(rate, scheduled, n).net
    BY <2>1, PaymentMonotone
  <2>3. \A t \in active, d \in Months \ closed :
           Accepted(d, AccrualLine(t, p, RateUnit)) <=> p.net # 0
    <3> HIDE DEF p
    <3> QED BY DEF Accepted, AccrualLine, SubLine
  <2>4. /\ p.net + p.penalty = p.prorated /\ p.penalty >= 0
        /\ p.prorated <= rate
        /\ p.penalty = 0 \/ 2 * (100 * p.net - 95 * p.prorated) \in -195 .. 195
    BY <2>1, PaymentBounds
  <2> HIDE DEF p
  <2>5. p = Payment(rate, scheduled, m)
    BY DEF p
  <2> QED BY <2>2, <2>3, <2>4, <2>5
<1> QED BY <1>1, PTL

-----------------------------------------------------------------------------
(* Types.                                                                  *)

(* The lines that are posted, and the rows they leave.                     *)
LEMMA LineTypes ==
    /\ \A r \in SheetRow : r.tutor \in Tutors => PayoutLine(r) \in Line
    /\ \A r \in SheetRow, id \in Nat \ {0} : r.tutor \in Tutors => Payout(id, r) \in Entry
    /\ \A l \in Line, id \in Nat : Row(id, l) \in MirrorRow
<1>1. ASSUME NEW r \in SheetRow, r.tutor \in Tutors PROVE PayoutLine(r) \in Line
  BY <1>1 DEF PayoutLine, SubLine, Line, SheetRow
<1>2. ASSUME NEW r \in SheetRow, NEW id \in Nat \ {0}, r.tutor \in Tutors
      PROVE  Payout(id, r) \in Entry
  <2>1. PayoutLine(r) \in Line /\ r.month \in Months
    BY <1>1, <1>2 DEF SheetRow
  <2> QED BY <1>2, <2>1 DEF Payout, Entry, Sources
<1>3. ASSUME NEW l \in Line, NEW id \in Nat PROVE Row(id, l) \in MirrorRow
  BY PayrollAssumption DEF Row, Line, MirrorRow
<1> QED BY <1>1, <1>2, <1>3

(* The line of an accrual.                                                 *)
LEMMA AccrualTypes ==
    ASSUME NEW x \in Sessions
    PROVE  AccrualLine(x.tutor, Payment(x.rate, x.scheduled, x.conducted), x.fx) \in Line
<1> DEFINE net == Payment(x.rate, x.scheduled, x.conducted).net
<1>1. /\ x.rate \in Nat /\ x.scheduled \in Nat \ {0} /\ x.conducted \in Nat
      /\ x.fx \in Nat /\ x.tutor \in Tutors
  BY PayrollAssumption DEF SessionOf
<1>2. net \in Nat
  BY <1>1, PaymentBounds
<1> HIDE DEF net
<1>3. net * x.fx \in Nat /\ RateUnit \in Nat \ {0}
  BY <1>1, <1>2 DEF RateUnit
<1>4. HalfUp(net * x.fx, RateUnit) \in Int
  <2> DEFINE n == net * x.fx
  <2>1. n \in Nat
    BY <1>3
  <2> HIDE DEF n
  <2>2. HalfUp(n, RateUnit) \in Nat
    BY <1>3, <2>1, HalfUpBounds
  <2> QED BY <2>2 DEF n
<1> QED BY <1>1, <1>2, <1>4 DEF AccrualLine, SubLine, Line, net

(* The fields of a job.                                                    *)
LEMMA JobFields ==
    ASSUME TypeOK, NEW s \in Slots
    PROVE  /\ job[s] \in Job /\ job[s].sheet \in Seq(SheetRow)
           /\ job[s].row \in Nat /\ Len(job[s].sheet) \in Nat
           /\ job[s].posted \subseteq Entry /\ job[s].record \subseteq Disbursement
           /\ job[s].paid \subseteq Receipt /\ job[s].refused \subseteq Nat
           /\ job[s].row # 0 /\ job[s].row <= Len(job[s].sheet) => Now(s) \in SheetRow
<1>1. job[s] \in Job
  BY DEF TypeOK
<1>2. /\ job[s].sheet \in Seq(SheetRow) /\ job[s].row \in Nat
      /\ job[s].posted \subseteq Entry /\ job[s].record \subseteq Disbursement
      /\ job[s].paid \subseteq Receipt /\ job[s].refused \subseteq Nat
  BY <1>1 DEF Job
<1>3. Len(job[s].sheet) \in Nat
  BY <1>2
<1>4. ASSUME job[s].row # 0, job[s].row <= Len(job[s].sheet) PROVE Now(s) \in SheetRow
  <2>1. job[s].row \in 1 .. Len(job[s].sheet)
    BY <1>2, <1>3, <1>4
  <2> QED BY <1>2, <2>1 DEF Now
<1> QED BY <1>1, <1>2, <1>3, <1>4

LEMMA NoJobType == NoJob \in Job /\ NoJob.posted = {} /\ NoJob.record = {}
BY DEF NoJob, Job

-----------------------------------------------------------------------------
(* What a step keeps.                                                      *)

(* RowsAccounted, of one slot.                                             *)
Counted(j) == 1 .. (j.row - 1) = {r.row : r \in j.paid} \cup j.refused
NoneTwice(j) ==
    /\ \A r, q \in j.paid : r.row = q.row \/ r.je = q.je => r = q
    /\ \A r \in j.paid : r.row \notin j.refused
AllPaid(j, P) ==
    \A r \in j.paid : \E e \in P : e.id = r.je /\ e.line = PayoutLine(j.sheet[r.row])
RowsOf(s) ==
    pc[s] # "idle" => Counted(job[s]) /\ NoneTwice(job[s]) /\ AllPaid(job[s], Payouts)

LEMMA EachSlot == RowsAccounted <=> \A s \in Slots : RowsOf(s)
BY DEF RowsAccounted, RowsOf, Counted, NoneTwice, AllPaid

LEMMA EachSlotNext == (\A s \in Slots : RowsOf(s)') => RowsAccounted'
BY DEF RowsAccounted, RowsOf, Counted, NoneTwice, AllPaid

(* A slot that rests keeps the id of what it has posted: entries that come *)
(* into the book or into other transactions have been there or are new.    *)
LEMMA FitsKept ==
    ASSUME IInv, NEW t \in Slots, pc'[t] = pc[t], job'[t] = job[t],
           nextId' \in Nat, nextId <= nextId',
           \A e \in book' : \/ e \in book \/ e.id = nextId
                            \/ \E u \in Slots \ {t} : e \in job[u].posted,
           \A u \in Slots \ {t} : \A e \in job'[u].posted :
               e \in job[u].posted \/ e.id = nextId
    PROVE  Fits(t)'
<1>1. Fits(t) /\ nextId \in Nat
  BY DEF IInv, TypeOK
<1>2. Now(t)' = Now(t)
  BY DEF Now
<1>3. Recorded(t)' = Recorded(t)
  BY <1>2 DEF Recorded
<1>4. ASSUME NEW id \in 1 .. (nextId - 1), Own(t, id)
      PROVE  id \in 1 .. (nextId' - 1) /\ Own(t, id)'
  BY <1>1, <1>4 DEF Own
<1>5. \A id : Payout(id, Now(t))' = Payout(id, Now(t))
  BY <1>2 DEF Payout, PayoutLine, SubLine
<1>6. CASE pc[t] \in {"record", "commit"}
  <2>1. PICK id \in 1 .. (nextId - 1) : Own(t, id) /\ job[t].posted = {Payout(id, Now(t))}
    BY <1>1, <1>6 DEF Fits
  <2>2. job'[t].posted = {Payout(id, Now(t))'}
    BY <1>5, <2>1
  <2> QED BY <1>1, <1>3, <1>4, <1>6, <2>1, <2>2 DEF Fits
<1>7. CASE pc[t] \notin {"record", "commit"}
  BY <1>1, <1>3, <1>7 DEF Fits
<1> QED BY <1>6, <1>7

(* The receipts of a slot that rests stay good while payments are added.   *)
LEMMA RowsKept ==
    ASSUME NEW t \in Slots, RowsOf(t), pc'[t] = pc[t], job'[t] = job[t],
           Payouts \subseteq Payouts'
    PROVE  RowsOf(t)'
BY DEF RowsOf, Counted, NoneTwice, AllPaid

(* The step of a slot, from what becomes of that slot and of the tables.   *)
LEMMA SlotStep ==
    ASSUME IInv, NEW s \in Slots, Moved(s), TypeOK',
           nextId <= nextId', Payouts \subseteq Payouts',
           \A e \in book' : e \in book \/ e \in job[s].posted,
           \A e \in job'[s].posted : e \in job[s].posted \/ e.id = nextId,
           \A e \in book' : e.id < nextId',
           Fits(s)', RowsOf(s)', PaymentsRecorded'
    PROVE  IInv'
<1>1. ASSUME NEW t \in Slots PROVE Fits(t)'
  <2>1. CASE t # s
    <3>1. pc'[t] = pc[t] /\ job'[t] = job[t] /\ nextId' \in Nat
      BY <2>1 DEF Moved, TypeOK
    <3>2. \A u \in Slots \ {t} : \A e \in job'[u].posted :
             e \in job[u].posted \/ e.id = nextId
      BY DEF Moved
    <3> QED BY <2>1, <3>1, <3>2, FitsKept
  <2> QED BY <2>1
<1>2. ASSUME NEW t \in Slots PROVE RowsOf(t)'
  BY EachSlot, RowsKept DEF IInv, Moved
<1>3. RowsAccounted'
  BY <1>2, EachSlotNext
<1> QED BY <1>1, <1>3 DEF IInv

(* A step of a slot that writes to no table.                               *)
LEMMA QuietStep ==
    ASSUME IInv, NEW s \in Slots, Moved(s), TypeOK',
           UNCHANGED tables, nextId <= nextId',
           \A e \in job'[s].posted : e \in job[s].posted \/ e.id = nextId,
           Fits(s)', RowsOf(s)'
    PROVE  IInv'
<1>1. book' = book /\ disbursed' = disbursed /\ Payouts' = Payouts
  BY DEF tables, Payouts
<1>2. PaymentsRecorded'
  BY <1>1 DEF IInv, PaymentsRecorded
<1>3. nextId \in Nat /\ nextId' \in Nat /\ \A e \in book : e.id < nextId /\ e.id \in Nat
  BY DEF IInv, TypeOK, Entry
<1>4. \A e \in book' : e.id < nextId'
  BY <1>1, <1>3
<1> QED BY <1>1, <1>2, <1>4, SlotStep

(* The request is over.                                                    *)
LEMMA EndStep ==
    ASSUME IInv, NEW s \in Slots, End(s), UNCHANGED <<tables, masters, nextId>>
    PROVE  IInv'
<1>1. /\ pc'[s] = "idle" /\ job'[s] = NoJob /\ Moved(s)
      /\ pc' \in [Slots -> {"idle", "row", "post", "record", "commit"}]
      /\ job' \in [Slots -> Job]
  BY NoJobType DEF IInv, TypeOK, End, Moved
<1>2. TypeOK'
  BY <1>1 DEF IInv, TypeOK, tables, masters
<1>3. Fits(s)' /\ RowsOf(s)'
  BY <1>1, NoJobType DEF Fits, RowsOf
<1>4. nextId <= nextId'
  BY DEF IInv, TypeOK
<1>5. \A e \in job'[s].posted : e \in job[s].posted \/ e.id = nextId
  BY <1>1, NoJobType
<1> QED BY <1>1, <1>2, <1>3, <1>4, <1>5, QuietStep

(* What a row adds to the receipts and to the refused rows.                *)
Additions(p, r) == p \subseteq Receipt /\ r \subseteq Nat

(* The job at the next row.                                                *)
LEMMA NextRowType ==
    ASSUME IInv, NEW s \in Slots, NEW p, NEW r, Additions(p, r), NextRow(s, p, r)
    PROVE  /\ pc' \in [Slots -> {"idle", "row", "post", "record", "commit"}]
           /\ job' \in [Slots -> Job] /\ Moved(s) /\ pc'[s] = "row"
           /\ job'[s].sheet = job[s].sheet /\ job'[s].row = job[s].row + 1
           /\ job'[s].posted = {} /\ job'[s].record = {}
           /\ job'[s].paid = job[s].paid \cup p
           /\ job'[s].refused = job[s].refused \cup r
<1> DEFINE j == [sheet |-> job[s].sheet, row |-> job[s].row + 1, posted |-> {},
                 record |-> {}, paid |-> job[s].paid \cup p,
                 refused |-> job[s].refused \cup r]
<1>1. /\ job[s].sheet \in Seq(SheetRow) /\ job[s].row \in Nat
      /\ job[s].paid \subseteq Receipt /\ job[s].refused \subseteq Nat
  BY JobFields DEF IInv
<1>2. j \in Job
  <2>1. job[s].row + 1 \in Nat
    BY <1>1
  <2>2. job[s].paid \cup p \subseteq Receipt
    BY <1>1 DEF Additions
  <2>3. job[s].refused \cup r \subseteq Nat
    BY <1>1 DEF Additions
  <2> QED BY <1>1, <2>1, <2>2, <2>3 DEF Job
<1>3. job' = [job EXCEPT ![s] = j] /\ pc' = [pc EXCEPT ![s] = "row"]
  BY DEF NextRow
<1>4. /\ j.sheet = job[s].sheet /\ j.row = job[s].row + 1
      /\ j.posted = {} /\ j.record = {} /\ j.paid = job[s].paid \cup p
      /\ j.refused = job[s].refused \cup r
  OBVIOUS
<1> HIDE DEF j
<1>5. /\ pc' \in [Slots -> {"idle", "row", "post", "record", "commit"}]
      /\ job' \in [Slots -> Job] /\ Moved(s) /\ pc'[s] = "row" /\ job'[s] = j
  BY <1>2, <1>3 DEF IInv, TypeOK, Moved
<1> QED BY <1>4, <1>5

(* A row is refused.                                                       *)
LEMMA RefuseRowStep ==
    ASSUME IInv, NEW s \in Slots, pc[s] # "idle", RefuseRow(s),
           UNCHANGED <<tables, masters, nextId>>
    PROVE  IInv'
<1> DEFINE i == job[s].row
<1>1. /\ i \in Nat \ {0} /\ job[s].paid \subseteq Receipt /\ job[s].refused \subseteq Nat
      /\ RowsOf(s)
  BY JobFields, EachSlot DEF IInv, Fits
<1>2. /\ pc' \in [Slots -> {"idle", "row", "post", "record", "commit"}]
      /\ job' \in [Slots -> Job] /\ Moved(s) /\ pc'[s] = "row"
      /\ job'[s].sheet = job[s].sheet /\ job'[s].row = i + 1
      /\ job'[s].posted = {} /\ job'[s].record = {}
      /\ job'[s].paid = job[s].paid /\ job'[s].refused = job[s].refused \cup {i}
  <2>1. NextRow(s, {}, {i})
    BY DEF RefuseRow
  <2>2. Additions({}, {i})
    BY <1>1 DEF Additions
  <2> HIDE DEF i
  <2>3. /\ pc' \in [Slots -> {"idle", "row", "post", "record", "commit"}]
        /\ job' \in [Slots -> Job] /\ Moved(s) /\ pc'[s] = "row"
        /\ job'[s].sheet = job[s].sheet /\ job'[s].row = job[s].row + 1
        /\ job'[s].posted = {} /\ job'[s].record = {}
        /\ job'[s].paid = job[s].paid \cup {}
        /\ job'[s].refused = job[s].refused \cup {i}
    BY <2>1, <2>2, NextRowType
  <2> QED BY <2>3 DEF i
<1>3. TypeOK'
  BY <1>2 DEF IInv, TypeOK, tables, masters
<1>4. Fits(s)'
  BY <1>1, <1>2 DEF Fits
<1>5. RowsOf(s)'
  <2>1. Counted(job[s]) /\ NoneTwice(job[s]) /\ AllPaid(job[s], Payouts)
    BY <1>1 DEF RowsOf
  <2>2. \A r \in job[s].paid : r.row \in 1 .. (i - 1)
    BY <2>1 DEF Counted
  <2>3. 1 .. (job'[s].row - 1) = (1 .. (i - 1)) \cup {i}
    BY <1>1, <1>2
  <2>4. Counted(job'[s])
    BY <1>2, <2>1, <2>3 DEF Counted
  <2>5. NoneTwice(job'[s])
    BY <1>1, <1>2, <2>1, <2>2 DEF NoneTwice
  <2>6. Payouts' = Payouts
    BY DEF tables, Payouts
  <2>7. AllPaid(job'[s], Payouts')
    BY <1>2, <2>1, <2>6 DEF AllPaid
  <2> QED BY <2>4, <2>5, <2>7 DEF RowsOf
<1>6. nextId <= nextId'
  BY DEF IInv, TypeOK
<1>7. \A e \in job'[s].posted : e \in job[s].posted \/ e.id = nextId
  BY <1>2
<1> QED BY <1>2, <1>3, <1>4, <1>5, <1>6, <1>7, QuietStep

-----------------------------------------------------------------------------
(* The actions.                                                            *)

LEMMA InitStep == Init => IInv
<1> SUFFICES ASSUME Init PROVE IInv
  OBVIOUS
<1>1. TypeOK
  BY NoJobType DEF Init, TypeOK
<1>2. \A s \in Slots : Fits(s) /\ RowsOf(s)
  BY NoJobType DEF Init, Fits, RowsOf
<1>3. PaymentsRecorded
  BY DEF Init, PaymentsRecorded, Payouts
<1>4. RowsAccounted
  BY <1>2, EachSlot
<1>5. \A e \in book : e.id < nextId
  BY DEF Init
<1> QED BY <1>1, <1>2, <1>3, <1>4, <1>5 DEF IInv

LEMMA StartStep ==
    ASSUME IInv, NEW s \in Slots, NEW f \in Sheets, StartDisburse(s, f) PROVE IInv'
<1> DEFINE j == [sheet |-> f, row |-> 1, posted |-> {}, record |-> {}, paid |-> {},
                 refused |-> {}]
<1>1. j \in Job
  BY PayrollAssumption DEF Job
<1>2. j.row = 1 /\ j.posted = {} /\ j.record = {} /\ j.paid = {} /\ j.refused = {}
  OBVIOUS
<1>3. /\ pc' = [pc EXCEPT ![s] = "row"] /\ job' = [job EXCEPT ![s] = j]
      /\ UNCHANGED <<tables, masters, nextId>>
  BY DEF StartDisburse, Goto
<1> HIDE DEF j
<1>4. /\ pc' \in [Slots -> {"idle", "row", "post", "record", "commit"}]
      /\ job' \in [Slots -> Job] /\ Moved(s) /\ pc'[s] = "row" /\ job'[s] = j
  BY <1>1, <1>3 DEF IInv, TypeOK, Moved
<1>5. TypeOK'
  BY <1>3, <1>4 DEF IInv, TypeOK, tables, masters
<1>6. Fits(s)'
  BY <1>2, <1>4 DEF Fits
<1>7. RowsOf(s)'
  BY <1>2, <1>4 DEF RowsOf, Counted, NoneTwice, AllPaid
<1>8. nextId <= nextId'
  BY <1>3 DEF IInv, TypeOK
<1>9. \A e \in job'[s].posted : e \in job[s].posted \/ e.id = nextId
  BY <1>2, <1>4
<1> QED BY <1>3, <1>4, <1>5, <1>6, <1>7, <1>8, <1>9, QuietStep

(* A row is read: refused, the end of the request, or to be posted.        *)
LEMMA ReadRowStep == ASSUME IInv, NEW s \in Slots, ReadRow(s) PROVE IInv'
<1>1. pc[s] = "row" /\ job[s].row <= Len(job[s].sheet) /\ UNCHANGED <<tables, masters, nextId>>
  BY DEF ReadRow
<1>2. CASE End(s)
  BY <1>1, <1>2, EndStep
<1>3. CASE RefuseRow(s)
  BY <1>1, <1>3, RefuseRowStep
<1>4. CASE Goto(s, "row", "post") /\ UNCHANGED job
  <2>1. /\ pc' \in [Slots -> {"idle", "row", "post", "record", "commit"}]
        /\ Moved(s) /\ pc'[s] = "post" /\ job' = job
    BY <1>4 DEF IInv, TypeOK, Goto, Moved
  <2>2. TypeOK'
    BY <1>1, <2>1 DEF IInv, TypeOK, tables, masters
  <2>3. Fits(s)'
    BY <1>1, <2>1 DEF IInv, Fits
  <2>4. RowsOf(s)'
    <3>1. RowsOf(s) /\ Payouts' = Payouts
      BY <1>1, EachSlot DEF IInv, tables, Payouts
    <3> QED BY <1>1, <2>1, <3>1 DEF RowsOf
  <2>5. nextId <= nextId'
    BY <1>1 DEF IInv, TypeOK
  <2> QED BY <1>1, <2>1, <2>2, <2>3, <2>4, <2>5, QuietStep
<1> QED BY <1>2, <1>3, <1>4 DEF ReadRow

(* A row is posted under a new id.                                         *)
LEMMA PostStep == ASSUME IInv, NEW s \in Slots, Post(s) PROVE IInv'
<1> DEFINE x == Payout(nextId, Now(s))
           j == [job[s] EXCEPT !.posted = {x}]
<1>1. /\ pc[s] = "post" /\ pc' = [pc EXCEPT ![s] = "record"]
      /\ Accepted(Now(s).month, PayoutLine(Now(s))) /\ nextId' = nextId + 1
      /\ UNCHANGED <<tables, masters>>
  BY DEF Post, Goto
<1>2. /\ job[s] \in Job /\ job[s].row \in Nat \ {0} /\ job[s].row <= Len(job[s].sheet)
      /\ Now(s) \in SheetRow /\ nextId \in Nat \ {0} /\ job[s].record = {}
  BY <1>1, JobFields DEF IInv, TypeOK, Fits
<1>3. Now(s).tutor \in Tutors
  BY <1>1 DEF IInv, TypeOK, Accepted, PayoutLine, SubLine
<1>4. x \in Entry /\ x.id = nextId
  BY <1>2, <1>3, LineTypes DEF Payout
<1>5. /\ job' = [job EXCEPT ![s] = j] /\ j \in Job
      /\ j.sheet = job[s].sheet /\ j.row = job[s].row /\ j.posted = {x}
      /\ j.record = {} /\ j.paid = job[s].paid /\ j.refused = job[s].refused
  <2>1. job' = [job EXCEPT ![s] = j]
    BY DEF Post
  <2> HIDE DEF x
  <2>2. j \in Job
    BY <1>2, <1>4 DEF Job
  <2> QED BY <1>2, <2>1, <2>2 DEF Job
<1>6. PICK n \in Nat \ {0} : n = nextId
  BY <1>2
<1> HIDE DEF j
<1>7. /\ pc' \in [Slots -> {"idle", "row", "post", "record", "commit"}]
      /\ job' \in [Slots -> Job] /\ Moved(s) /\ pc'[s] = "record" /\ job'[s] = j
  BY <1>1, <1>5 DEF IInv, TypeOK, Moved
<1>8. TypeOK'
  BY <1>1, <1>2, <1>7 DEF IInv, TypeOK, tables, masters
<1>9. Now(s)' = Now(s)
  BY <1>5, <1>7 DEF Now
<1>10. Own(s, n)'
  <2>1. \A e \in book' : e.id # n
    BY <1>1, <1>2, <1>6 DEF IInv, TypeOK, tables, Entry
  <2>2. ASSUME NEW t \in Slots \ {s}, NEW e \in job'[t].posted PROVE e.id # n
    <3>1. e \in job[t].posted
      BY <1>7, <2>2 DEF Moved
    <3>2. PICK id \in 1 .. (nextId - 1) : job[t].posted = {Payout(id, Now(t))}
      BY <3>1 DEF IInv, Fits
    <3>3. e.id = id
      BY <3>1, <3>2 DEF Payout
    <3> QED BY <1>2, <1>6, <3>3
  <2> QED BY <1>1, <2>1, <2>2 DEF Own
<1>11. Fits(s)'
  <2> HIDE DEF x
  <2>1. n \in 1 .. (nextId' - 1)
    BY <1>1, <1>2, <1>6
  <2>2. job'[s].posted = {Payout(n, Now(s)')}
    BY <1>5, <1>6, <1>7, <1>9 DEF x
  <2>3. \E id \in 1 .. (nextId' - 1) : Own(s, id)' /\ job'[s].posted = {Payout(id, Now(s)')}
    BY <1>10, <2>1, <2>2
  <2> QED BY <1>2, <1>5, <1>7, <2>3 DEF Fits, Payout, PayoutLine, SubLine
<1>12. RowsOf(s)'
  <2>1. RowsOf(s) /\ Payouts' = Payouts
    BY <1>1, EachSlot DEF IInv, tables, Payouts
  <2> QED BY <1>1, <1>5, <1>7, <2>1 DEF RowsOf, Counted, NoneTwice, AllPaid
<1>13. nextId <= nextId' /\ \A e \in job'[s].posted : e \in job[s].posted \/ e.id = nextId
  BY <1>1, <1>2, <1>4, <1>5, <1>7
<1> QED BY <1>1, <1>7, <1>8, <1>11, <1>12, <1>13, QuietStep

(* Its record is written.                                                  *)
LEMMA RecordStep == ASSUME IInv, NEW s \in Slots, Record(s) PROVE IInv'
<1> DEFINE j == [job[s] EXCEPT !.record = Recorded(s)]
<1>1. /\ pc[s] = "record" /\ pc' = [pc EXCEPT ![s] = "commit"]
      /\ UNCHANGED <<tables, masters, nextId>>
  BY DEF Record, Goto
<1>2. /\ job[s] \in Job /\ job[s].row \in Nat \ {0} /\ job[s].row <= Len(job[s].sheet)
      /\ Now(s) \in SheetRow /\ Fits(s)
  BY <1>1, JobFields DEF IInv, TypeOK, Fits
<1>3. PICK id \in 1 .. (nextId - 1) : Own(s, id) /\ job[s].posted = {Payout(id, Now(s))}
  BY <1>1, <1>2 DEF Fits
<1>4. Recorded(s) \subseteq Disbursement
  <2>1. Payout(id, Now(s)) \in Entry
    BY <1>2, <1>3 DEF Job
  <2>2. id \in Nat /\ Now(s).tutor \in Tutors
    BY <2>1 DEF Payout, PayoutLine, SubLine, Entry, Line
  <2>3. Recorded(s) = {[je |-> id, tutor |-> Now(s).tutor, amount |-> Now(s).amount,
                        month |-> Now(s).month]}
    BY <1>3 DEF Recorded, Payout
  <2> QED BY <1>2, <2>2, <2>3 DEF SheetRow, Disbursement
<1>5. /\ job' = [job EXCEPT ![s] = j] /\ j \in Job
      /\ j.sheet = job[s].sheet /\ j.row = job[s].row /\ j.posted = job[s].posted
      /\ j.record = Recorded(s) /\ j.paid = job[s].paid /\ j.refused = job[s].refused
  <2>1. job' = [job EXCEPT ![s] = j]
    BY DEF Record
  <2>2. j \in Job
    BY <1>2, <1>4 DEF Job
  <2> QED BY <1>2, <2>1, <2>2 DEF Job
<1> HIDE DEF j
<1>6. /\ pc' \in [Slots -> {"idle", "row", "post", "record", "commit"}]
      /\ job' \in [Slots -> Job] /\ Moved(s) /\ pc'[s] = "commit" /\ job'[s] = j
  BY <1>1, <1>5 DEF IInv, TypeOK, Moved
<1>7. TypeOK'
  BY <1>1, <1>6 DEF IInv, TypeOK, tables, masters
<1>8. Now(s)' = Now(s)
  BY <1>5, <1>6 DEF Now
<1>9. Fits(s)'
  <2>1. Recorded(s)' = Recorded(s)
    BY <1>5, <1>6, <1>8 DEF Recorded
  <2>2. Own(s, id)'
    BY <1>1, <1>3, <1>6 DEF Own, Moved, tables
  <2>3. job'[s].posted = {Payout(id, Now(s)')}
    BY <1>3, <1>5, <1>6, <1>8
  <2>4. \E i \in 1 .. (nextId' - 1) : Own(s, i)' /\ job'[s].posted = {Payout(i, Now(s)')}
    BY <1>1, <2>2, <2>3
  <2> QED BY <1>2, <1>5, <1>6, <2>1, <2>4 DEF Fits, Payout, PayoutLine, SubLine
<1>10. RowsOf(s)'
  <2>1. RowsOf(s) /\ Payouts' = Payouts
    BY <1>1, EachSlot DEF IInv, tables, Payouts
  <2> QED BY <1>1, <1>5, <1>6, <2>1 DEF RowsOf, Counted, NoneTwice, AllPaid
<1>11. nextId <= nextId' /\ \A e \in job'[s].posted : e \in job[s].posted \/ e.id = nextId
  BY <1>1, <1>5, <1>6 DEF IInv, TypeOK
<1> QED BY <1>1, <1>6, <1>7, <1>9, <1>10, <1>11, QuietStep

(* A commit adds one payment, its record and its receipt.                  *)
LEMMA CommitAdds ==
    ASSUME IInv, NEW s \in Slots, Commit(s)
    PROVE  \E id \in 1 .. (nextId - 1) :
             LET x == Payout(id, Now(s))
                 d == [je |-> id, tutor |-> Now(s).tutor, amount |-> Now(s).amount,
                       month |-> Now(s).month]
                 r == [row |-> job[s].row, je |-> id]
             IN  /\ Own(s, id) /\ job[s].posted = {x}
                 /\ x \in Entry /\ d \in Disbursement /\ r \in Receipt
                 /\ book' = book \cup {x} /\ Payouts' = Payouts \cup {x}
                 /\ rows' = rows \cup {Row(id, x.line)}
                 /\ disbursed' = disbursed \cup {d}
                 /\ NextRow(s, {r}, {})
<1>1. /\ pc[s] = "commit" /\ Fits(s) /\ job[s] \in Job
      /\ job[s].row \in Nat \ {0} /\ job[s].row <= Len(job[s].sheet)
      /\ Now(s) \in SheetRow
  BY JobFields DEF Commit, IInv, TypeOK, Fits
<1>2. PICK id \in 1 .. (nextId - 1) : Own(s, id) /\ job[s].posted = {Payout(id, Now(s))}
  BY <1>1 DEF Fits
<1> DEFINE x == Payout(id, Now(s))
           d == [je |-> id, tutor |-> Now(s).tutor, amount |-> Now(s).amount,
                 month |-> Now(s).month]
           r == [row |-> job[s].row, je |-> id]
<1>3. x.id = id /\ x.source = "payout"
  BY DEF Payout
<1>4. x \in Entry
  BY <1>1, <1>2 DEF Job
<1>5. id \in Nat /\ Now(s).tutor \in Tutors
  BY <1>4 DEF Payout, PayoutLine, SubLine, Entry, Line
<1>6. d \in Disbursement
  BY <1>1, <1>5 DEF SheetRow, Disbursement
<1>7. r \in Receipt
  BY <1>1, <1>5 DEF Receipt
<1>8. job[s].record = {d}
  BY <1>1, <1>2, <1>3 DEF Fits, Recorded
<1>9. /\ book' = book \cup job[s].posted
      /\ rows' = rows \cup {Row(e.id, e.line) : e \in job[s].posted}
      /\ disbursed' = disbursed \cup job[s].record
      /\ NextRow(s, {[row |-> job[s].row, je |-> e.id] : e \in job[s].posted}, {})
  BY DEF Commit
<1>10. job[s].posted = {x}
  BY <1>2
<1> HIDE DEF x
<1>11. {Row(e.id, e.line) : e \in job[s].posted} = {Row(id, x.line)}
  BY <1>3, <1>10
<1>12. {[row |-> job[s].row, je |-> e.id] : e \in job[s].posted} = {r}
  BY <1>3, <1>10
<1>13. NextRow(s, {r}, {})
  BY <1>9, <1>12
<1>14. Payouts' = Payouts \cup {x}
  BY <1>3, <1>9, <1>10 DEF Payouts
<1> HIDE DEF d, r
<1>15. /\ Own(s, id) /\ job[s].posted = {x}
       /\ x \in Entry /\ d \in Disbursement /\ r \in Receipt
       /\ book' = book \cup {x} /\ Payouts' = Payouts \cup {x}
       /\ rows' = rows \cup {Row(id, x.line)}
       /\ disbursed' = disbursed \cup {d}
       /\ NextRow(s, {r}, {})
  BY <1>2, <1>4, <1>6, <1>7, <1>8, <1>9, <1>10, <1>11, <1>13, <1>14
<1> QED BY <1>15 DEF x, d, r

(* The commit of a row.                                                    *)
LEMMA CommitStep == ASSUME IInv, NEW s \in Slots, Commit(s) PROVE IInv'
<1>1. PICK id \in 1 .. (nextId - 1) :
         LET x == Payout(id, Now(s))
             d == [je |-> id, tutor |-> Now(s).tutor, amount |-> Now(s).amount,
                   month |-> Now(s).month]
             r == [row |-> job[s].row, je |-> id]
         IN  /\ Own(s, id) /\ job[s].posted = {x}
             /\ x \in Entry /\ d \in Disbursement /\ r \in Receipt
             /\ book' = book \cup {x} /\ Payouts' = Payouts \cup {x}
             /\ rows' = rows \cup {Row(id, x.line)}
             /\ disbursed' = disbursed \cup {d}
             /\ NextRow(s, {r}, {})
  BY CommitAdds
<1> DEFINE x == Payout(id, Now(s))
           d == [je |-> id, tutor |-> Now(s).tutor, amount |-> Now(s).amount,
                 month |-> Now(s).month]
           r == [row |-> job[s].row, je |-> id]
           i == job[s].row
<1>2. /\ x.id = id /\ x.month = d.month /\ x.line = PayoutLine(job[s].sheet[i])
      /\ x.line = SubLine(d.tutor, - d.amount, NoOriginal)
      /\ d.je = id /\ r.row = i /\ r.je = id
  BY DEF Payout, PayoutLine, Now
<1> HIDE DEF x, d, r
<1>3. /\ Own(s, id) /\ job[s].posted = {x}
      /\ x \in Entry /\ d \in Disbursement /\ r \in Receipt
      /\ book' = book \cup {x} /\ Payouts' = Payouts \cup {x}
      /\ rows' = rows \cup {Row(id, x.line)}
      /\ disbursed' = disbursed \cup {d}
      /\ NextRow(s, {r}, {})
  BY <1>1 DEF x, d, r
<1>4. /\ pc[s] = "commit" /\ RowsOf(s) /\ UNCHANGED <<masters, nextId>>
      /\ i \in Nat \ {0} /\ nextId \in Nat /\ job[s].refused \subseteq Nat
      /\ \A e \in book : e.id # id
  BY <1>3, JobFields, EachSlot DEF Commit, IInv, TypeOK, Fits, Own
<1>5. /\ pc' \in [Slots -> {"idle", "row", "post", "record", "commit"}]
      /\ job' \in [Slots -> Job] /\ Moved(s) /\ pc'[s] = "row"
      /\ job'[s].sheet = job[s].sheet /\ job'[s].row = i + 1
      /\ job'[s].posted = {} /\ job'[s].record = {}
      /\ job'[s].paid = job[s].paid \cup {r}
      /\ job'[s].refused = job[s].refused
  <2>1. PICK p, q : p = {r} /\ q = {}
    OBVIOUS
  <2>2. Additions(p, q)
    BY <1>3, <2>1 DEF Additions
  <2>3. NextRow(s, p, q)
    BY <1>3, <2>1
  <2> HIDE DEF i
  <2>4. /\ pc' \in [Slots -> {"idle", "row", "post", "record", "commit"}]
        /\ job' \in [Slots -> Job] /\ Moved(s) /\ pc'[s] = "row"
        /\ job'[s].sheet = job[s].sheet /\ job'[s].row = job[s].row + 1
        /\ job'[s].posted = {} /\ job'[s].record = {}
        /\ job'[s].paid = job[s].paid \cup p
        /\ job'[s].refused = job[s].refused \cup q
    BY <2>2, <2>3, NextRowType
  <2> QED BY <2>1, <2>4 DEF i
<1>6. TypeOK'
  <2>1. Row(id, x.line) \in MirrorRow
    BY <1>3, LineTypes DEF Entry
  <2>2. book' \subseteq Entry
    BY <1>3 DEF IInv, TypeOK
  <2>3. rows' \subseteq MirrorRow
    BY <1>3, <2>1 DEF IInv, TypeOK
  <2>4. disbursed' \subseteq Disbursement
    BY <1>3 DEF IInv, TypeOK
  <2> QED BY <1>4, <1>5, <2>2, <2>3, <2>4 DEF IInv, TypeOK, masters
<1>7. Fits(s)'
  BY <1>4, <1>5 DEF Fits
<1>8. PaymentsRecorded'
  <2>1. \A e \in Payouts' : \E g \in disbursed' : g.je = e.id
    BY <1>2, <1>3 DEF IInv, PaymentsRecorded
  <2>2. \A g \in disbursed' : \E e \in Payouts' :
           e.id = g.je /\ e.month = g.month
           /\ e.line = SubLine(g.tutor, - g.amount, NoOriginal)
    BY <1>2, <1>3 DEF IInv, PaymentsRecorded
  <2>3. \A g \in disbursed : g.je # id
    BY <1>4 DEF IInv, PaymentsRecorded, Payouts
  <2>4. \A f, g \in disbursed' : f.je = g.je => f = g
    BY <1>2, <1>3, <2>3 DEF IInv, PaymentsRecorded
  <2> QED BY <2>1, <2>2, <2>4 DEF PaymentsRecorded, SubLine
<1>9. RowsOf(s)'
  <2>1. Counted(job[s]) /\ NoneTwice(job[s]) /\ AllPaid(job[s], Payouts)
    BY <1>4 DEF RowsOf
  <2>2. \A q \in job[s].paid : q.row \in 1 .. (i - 1)
    BY <2>1 DEF Counted
  <2>3. \A q \in job[s].paid : q.row # i /\ q.je # id
    BY <1>4, <2>1, <2>2 DEF Payouts, AllPaid
  <2>4. i \notin job[s].refused
    <3>1. job[s].refused \subseteq 1 .. (i - 1)
      BY <2>1 DEF Counted
    <3> QED BY <1>4, <3>1
  <2>5. 1 .. (job'[s].row - 1) = (1 .. (i - 1)) \cup {i}
    BY <1>4, <1>5
  <2>6. {q.row : q \in job'[s].paid} = {q.row : q \in job[s].paid} \cup {i}
    BY <1>2, <1>5
  <2>7. Counted(job'[s])
    BY <1>5, <2>1, <2>5, <2>6 DEF Counted
  <2> HIDE DEF i
  <2>8. NoneTwice(job'[s])
    BY <1>2, <1>5, <2>1, <2>3, <2>4 DEF NoneTwice
  <2>9. AllPaid(job'[s], Payouts')
    BY <1>2, <1>3, <1>5, <2>1 DEF AllPaid
  <2> QED BY <2>7, <2>8, <2>9 DEF RowsOf
<1>10. \A e \in book' : e.id < nextId'
  BY <1>2, <1>3, <1>4 DEF IInv
<1>11. /\ nextId <= nextId' /\ Payouts \subseteq Payouts'
       /\ \A e \in book' : e \in book \/ e \in job[s].posted
       /\ \A e \in job'[s].posted : e \in job[s].posted \/ e.id = nextId
  BY <1>3, <1>4, <1>5
<1> QED BY <1>5, <1>6, <1>7, <1>8, <1>9, <1>10, <1>11, SlotStep

(* An entry of its own, which is no payment.                               *)
Other(source, ref, reverses, month, line) ==
    /\ source \in Sources \ {"payout"} /\ ref \in STRING \cup {NoRef}
    /\ reverses \in Nat /\ month \in Months /\ line \in Line

LEMMA EnterStep ==
    ASSUME IInv, NEW source, NEW ref, NEW reverses, NEW month, NEW line,
           Other(source, ref, reverses, month, line),
           Enter(source, ref, reverses, month, line)
    PROVE  IInv'
<1> DEFINE e == [id |-> nextId, source |-> source, ref |-> ref, reverses |-> reverses,
                 month |-> month, line |-> line]
<1>1. /\ book' = book \cup {e} /\ rows' = rows \cup {Row(nextId, line)}
      /\ nextId' = nextId + 1 /\ UNCHANGED <<disbursed, masters, pc, job>>
  BY DEF Enter
<1>2. line \in Line
  BY DEF Other
<1>3. nextId \in Nat \ {0}
  BY DEF IInv, TypeOK
<1>4. e \in Entry /\ e.id = nextId /\ e.source # "payout"
  BY <1>3 DEF Entry, Other
<1>5. Row(nextId, line) \in MirrorRow
  BY <1>2, <1>3, LineTypes
<1> HIDE DEF e
<1>6. TypeOK'
  BY <1>1, <1>3, <1>4, <1>5 DEF IInv, TypeOK, masters
<1>7. Payouts' = Payouts
  BY <1>1, <1>4 DEF Payouts
<1>8. PaymentsRecorded'
  BY <1>1, <1>7 DEF IInv, PaymentsRecorded
<1>9. \A t \in Slots : RowsOf(t)'
  BY <1>1, <1>7, EachSlot, RowsKept DEF IInv
<1>10. ASSUME NEW t \in Slots PROVE Fits(t)'
  <2>1. pc'[t] = pc[t] /\ job'[t] = job[t] /\ nextId' \in Nat /\ nextId <= nextId'
    BY <1>1, <1>3
  <2>2. \A f \in book' : f \in book \/ f.id = nextId
    BY <1>1, <1>4
  <2> QED BY <1>1, <2>1, <2>2, FitsKept
<1>11. \A f \in book' : f.id < nextId'
  BY <1>1, <1>3, <1>4 DEF IInv, TypeOK, Entry
<1>12. RowsAccounted'
  BY <1>9, EachSlotNext
<1> QED BY <1>6, <1>8, <1>10, <1>11, <1>12 DEF IInv

(* The actions around the sheets that post, as one.                        *)
Enters ==
    \E source, ref, reverses, month, line :
        Other(source, ref, reverses, month, line) /\ Enter(source, ref, reverses, month, line)

LEMMA HalfUpInt == ASSUME NEW n \in Int, NEW d \in Nat \ {0} PROVE HalfUp(n, d) \in Int
BY DEF HalfUp

(* A session's accrual.                                                    *)
LEMMA AccrueEnters == ASSUME IInv, NEW x \in Sessions, Accrue(x) PROVE Enters
<1> DEFINE line == AccrualLine(x.tutor, Payment(x.rate, x.scheduled, x.conducted), x.fx)
<1>1. Enter("accrual", x.id, 0, x.month, line)
  BY DEF Accrue
<1>2. line \in Line
  BY AccrualTypes
<1>3. x.id \in STRING /\ x.month \in Months
  BY PayrollAssumption DEF SessionOf
<1> HIDE DEF line
<1>4. Other("accrual", x.id, 0, x.month, line)
  BY <1>2, <1>3 DEF Other, Sources
<1> QED BY <1>1, <1>4 DEF Enters

(* The sums of the rows are whole numbers.                                 *)
AmountAt == [r \in MirrorRow \cup Disbursement |-> r.amount]
OriginalAt == [r \in MirrorRow |-> r.original]

LEMMA SumsInt ==
    ASSUME NEW R \in SUBSET MirrorRow, IsFiniteSet(R), NEW t
    PROVE  Amount(R, t) \in Int /\ Original(R, t) \in Int
<1> DEFINE S == {x \in R : x.key = t}
<1>1. IsFiniteSet(S)
  BY FS_Subset
<1>2. \A x \in S : /\ AmountAt[x] = x.amount /\ AmountAt[x] \in Int
                   /\ OriginalAt[x] = x.original /\ OriginalAt[x] \in Int
  BY DEF AmountAt, OriginalAt, MirrorRow
<1>3. /\ Amount(R, t) = MapThenSumSet(LAMBDA x : x.amount, S)
      /\ Original(R, t) = MapThenSumSet(LAMBDA x : x.original, S)
  BY DEF Amount, Original
<1> HIDE DEF S
<1>4. Amount(R, t) = SumFunctionOnSet(AmountAt, S)
  BY <1>1, <1>2, <1>3, AmountSum
<1>5. Original(R, t) = SumFunctionOnSet(OriginalAt, S)
  BY <1>1, <1>2, <1>3, OriginalSum
<1> QED BY <1>1, <1>2, <1>4, <1>5, SumInt

(* A revaluation of a position, a journal by hand, a reversal.             *)
LEMMA RevalueEnters ==
    ASSUME IInv, IsFiniteSet(rows), NEW t \in Tutors, NEW m \in Months, NEW rate \in Rates,
           Revalue(t, m, rate)
    PROVE  Enters
<1> DEFINE pkr == Original(rows, t)
           line == RevaluationLine(rows, t, rate)
<1>1. Enter("revaluation", NoRef, 0, m, line)
  BY DEF Revalue, Correct
<1>2. Amount(rows, t) \in Int /\ pkr \in Int /\ rate \in Int
  BY SumsInt, PayrollAssumption DEF IInv, TypeOK
<1>3. line = [key |-> t, amount |-> HalfUp(pkr * rate, RateUnit) - Amount(rows, t),
              original |-> pkr]
  BY DEF RevaluationLine, SubLine, Delta, Revalued
<1> HIDE DEF pkr, line
<1>4. HalfUp(pkr * rate, RateUnit) \in Int
  <2>1. pkr * rate \in Int /\ RateUnit \in Nat \ {0}
    BY <1>2 DEF RateUnit
  <2> QED BY <2>1, HalfUpInt
<1>5. line \in Line
  BY <1>2, <1>3, <1>4 DEF Line
<1>6. Other("revaluation", NoRef, 0, m, line)
  BY <1>5 DEF Other, Sources
<1> QED BY <1>1, <1>6 DEF Enters

LEMMA ManualEnters ==
    ASSUME IInv, NEW t \in Tutors, NEW m \in Months, NEW a \in ByHand, PostManual(t, m, a)
    PROVE  Enters
<1>1. Enter("manual", NoRef, 0, m, SubLine(t, a, NoOriginal))
  BY DEF PostManual, Correct
<1>2. SubLine(t, a, NoOriginal) \in Line
  BY PayrollAssumption DEF SubLine, Line
<1>3. Other("manual", NoRef, 0, m, SubLine(t, a, NoOriginal))
  BY <1>2 DEF Other, Sources
<1> QED BY <1>1, <1>3 DEF Enters

LEMMA ReverseEnters ==
    ASSUME IInv, NEW m \in Months, NEW e \in book, ReverseEntry(e, m)
    PROVE  Enters
<1>1. Enter("reversal", NoRef, e.id, m, TakeBack(e.line))
  BY DEF ReverseEntry, Correct
<1>2. e.id \in Nat /\ e.line \in Line
  BY DEF IInv, TypeOK, Entry
<1>3. TakeBack(e.line) \in Line
  BY <1>2 DEF TakeBack, Line
<1>4. Other("reversal", NoRef, e.id, m, TakeBack(e.line))
  BY <1>2, <1>3 DEF Other, Sources
<1> QED BY <1>1, <1>4 DEF Enters

(* Tutors leave or return, months close or open: the checks of a posting   *)
(* see it, what is recorded does not change.                               *)
LEMMA MastersStep ==
    ASSUME IInv, UNCHANGED <<tables, nextId, pc, job>>,
           active' \subseteq Tutors, closed' \subseteq Months
    PROVE  IInv'
<1>1. TypeOK'
  BY DEF IInv, TypeOK, tables
<1>2. Payouts' = Payouts
  BY DEF Payouts, tables
<1>3. PaymentsRecorded' /\ \A e \in book' : e.id < nextId'
  BY <1>2 DEF IInv, PaymentsRecorded, tables
<1>4. \A t \in Slots : RowsOf(t)'
  BY <1>2, EachSlot, RowsKept DEF IInv
<1>5. ASSUME NEW t \in Slots PROVE Fits(t)'
  <2>1. nextId' \in Nat /\ nextId <= nextId' /\ book' = book
    BY DEF IInv, TypeOK, tables
  <2> QED BY <2>1, FitsKept
<1>6. RowsAccounted'
  BY <1>4, EachSlotNext
<1> QED BY <1>1, <1>3, <1>5, <1>6 DEF IInv

-----------------------------------------------------------------------------
(* What a step does to the tables: nothing, a payment or another entry.    *)
LEMMA Writes ==
    ASSUME IInv, IsFiniteSet(rows), [Next]_vars
    PROVE  UNCHANGED tables \/ (\E s \in Slots : Commit(s)) \/ Enters
<1>1. ASSUME NEW x \in Sessions, Accrue(x) PROVE Enters
  BY <1>1, AccrueEnters
<1>2. ASSUME NEW t \in Tutors, NEW m \in Months, NEW rate \in Rates, Revalue(t, m, rate)
      PROVE  Enters
  BY <1>2, RevalueEnters
<1>3. ASSUME NEW t \in Tutors, NEW m \in Months, NEW a \in ByHand, PostManual(t, m, a)
      PROVE  Enters
  BY <1>3, ManualEnters
<1>4. ASSUME NEW m \in Months, NEW e \in book, ReverseEntry(e, m) PROVE Enters
  BY <1>4, ReverseEnters
<1>5. ASSUME NEW s \in Slots, Step(s) PROVE UNCHANGED tables \/ Commit(s)
  BY <1>5 DEF Step, Answer, ReadRow, Refuse, Post, Record
<1>6. ASSUME NEW s \in Slots, (\E f \in Sheets : StartDisburse(s, f)) \/ Crash(s)
      PROVE  UNCHANGED tables
  BY <1>6 DEF StartDisburse, Crash
<1>7. ASSUME \/ \E t \in Tutors : SetTutorActive(t)
             \/ \E m \in Months : CloseOrReopen(m)
      PROVE  UNCHANGED tables
  BY <1>7 DEF SetTutorActive, CloseOrReopen
<1>8. CASE UNCHANGED vars
  BY <1>8 DEF vars, tables
<1>9. CASE Next
  BY <1>1, <1>2, <1>3, <1>4, <1>5, <1>6, <1>7, <1>9 DEF Next
<1> QED BY <1>8, <1>9

(* A table that grows by one row stays finite: a revaluation can add it up.*)
Finite == IInv /\ IsFiniteSet(rows)

LEMMA FiniteStep == Finite /\ [Next]_vars => IsFiniteSet(rows')
<1> SUFFICES ASSUME Finite, [Next]_vars PROVE IsFiniteSet(rows')
  OBVIOUS
<1>1. IsFiniteSet(rows)
  BY DEF Finite
<1>2. CASE UNCHANGED tables
  BY <1>1, <1>2 DEF tables
<1>3. ASSUME NEW s \in Slots, Commit(s) PROVE IsFiniteSet(rows')
  <2>1. \E r : rows' = rows \cup {r}
    BY <1>3, CommitAdds DEF Finite
  <2> QED BY <1>1, <2>1, FS_AddElement
<1>4. CASE Enters
  <2>1. \E r : rows' = rows \cup {r}
    BY <1>4 DEF Enters, Enter
  <2> QED BY <1>1, <2>1, FS_AddElement
<1> QED BY <1>2, <1>3, <1>4, Writes DEF Finite

(* Every step preserves the invariant.                                     *)
LEMMA InductiveStep == Finite /\ [Next]_vars => Finite'
<1> SUFFICES ASSUME Finite, [Next]_vars PROVE IInv'
  BY FiniteStep DEF Finite
<1>0. IInv /\ IsFiniteSet(rows)
  BY DEF Finite
<1>1. ASSUME NEW s \in Slots, NEW f \in Sheets, StartDisburse(s, f) PROVE IInv'
  BY <1>0, <1>1, StartStep
<1>2. ASSUME NEW s \in Slots, Step(s) PROVE IInv'
  <2>1. CASE Answer(s)
    BY <1>0, <2>1, EndStep DEF Answer
  <2>2. CASE Refuse(s)
    <3>1. pc[s] # "idle" /\ RefuseRow(s) /\ UNCHANGED <<tables, masters, nextId>>
      BY <2>2 DEF Refuse
    <3> QED BY <1>0, <3>1, RefuseRowStep
  <2> QED BY <1>0, <1>2, <2>1, <2>2, ReadRowStep, PostStep, RecordStep, CommitStep DEF Step
<1>3. ASSUME NEW s \in Slots, Crash(s) PROVE IInv'
  BY <1>0, <1>3, EndStep DEF Crash
<1>4. ASSUME Enters PROVE IInv'
  BY <1>0, <1>4, EnterStep DEF Enters
<1>5. ASSUME NEW t \in Tutors, SetTutorActive(t) PROVE IInv'
  <2>1. active' \subseteq Tutors /\ closed' \subseteq Months
        /\ UNCHANGED <<tables, nextId, pc, job>>
    BY <1>0, <1>5 DEF SetTutorActive, IInv, TypeOK
  <2> QED BY <1>0, <2>1, MastersStep
<1>6. ASSUME NEW m \in Months, CloseOrReopen(m) PROVE IInv'
  <2>1. active' \subseteq Tutors /\ closed' \subseteq Months
        /\ UNCHANGED <<tables, nextId, pc, job>>
    BY <1>0, <1>6 DEF CloseOrReopen, IInv, TypeOK
  <2> QED BY <1>0, <2>1, MastersStep
<1>7. CASE UNCHANGED vars
  <2>1. active' \subseteq Tutors /\ closed' \subseteq Months
        /\ UNCHANGED <<tables, nextId, pc, job>>
    BY <1>0, <1>7 DEF vars, tables, IInv, TypeOK
  <2> QED BY <1>0, <2>1, MastersStep
<1>8. ASSUME NEW x \in Sessions, Accrue(x) PROVE IInv'
  BY <1>0, <1>4, <1>8, AccrueEnters
<1>9. ASSUME NEW m \in Months,
             \/ \E t \in Tutors : \/ \E rate \in Rates : Revalue(t, m, rate)
                                \/ \E a \in ByHand : PostManual(t, m, a)
             \/ \E e \in book : ReverseEntry(e, m)
      PROVE  IInv'
  BY <1>0, <1>4, <1>9, RevalueEnters, ManualEnters, ReverseEnters
<1> QED BY <1>1, <1>2, <1>3, <1>5, <1>6, <1>7, <1>8, <1>9 DEF Next

LEMMA FiniteInit == Init => Finite
BY InitStep, FS_EmptySet DEF Init, Finite

THEOREM FiniteAlways == Spec => []Finite
BY FiniteInit, InductiveStep, PTL DEF Spec

(* The inductive invariant holds in every state that is reached.           *)
THEOREM Inductive == Spec => []IInv
<1>1. Finite => IInv
  BY DEF Finite
<1> QED BY <1>1, FiniteAlways, PTL

(* The tables and the jobs have their types, whatever the sheets hold.     *)
THEOREM Typed == Spec => []TypeOK
<1>1. IInv => TypeOK
  BY DEF IInv
<1> QED BY <1>1, Inductive, PTL

(* Payments and records of disbursement match, one to one, for any number  *)
(* of uploads at a time and wherever they stop, among journals by hand,    *)
(* revaluations and reversals.                                             *)
THEOREM PaymentsMatch == Spec => []PaymentsRecorded
<1>1. IInv => PaymentsRecorded
  BY DEF IInv
<1> QED BY <1>1, Inductive, PTL

(* Each row that an upload has passed is paid once or refused.             *)
THEOREM EachRowOnce == Spec => []RowsAccounted
<1>1. IInv => RowsAccounted
  BY DEF IInv
<1> QED BY <1>1, Inductive, PTL

-----------------------------------------------------------------------------
(* What a tutor is owed.                                                   *)

LineAmountAt == [e \in Entry |-> e.line.amount]

(* The entries of a tutor that are no payments, and what they come to.     *)
OtherThanPaid(E, t) == {e \in E \ {x \in E : x.source = "payout"} : e.line.key = t}
Booked(E, t) == MapThenSumSet(LAMBDA e : e.line.amount, OtherThanPaid(E, t))
PaidTo(D, t) == MapThenSumSet(LAMBDA d : d.amount, {d \in D : d.tutor = t})

Explained(t) == Amount(rows, t) = Booked(book, t) - PaidTo(disbursed, t)

(* The tables are finite and a row is of an entry of the book.             *)
PositionInv ==
    /\ IsFiniteSet(book) /\ IsFiniteSet(rows) /\ IsFiniteSet(disbursed)
    /\ \A r \in rows : \E e \in book : e.id = r.je
    /\ \A t \in Tutors : Explained(t)

LEMMA Explains == PositionExplained <=> \A t \in Tutors : Explained(t)
BY DEF PositionExplained, Explained, Booked, OtherThanPaid, Payouts, PaidTo

(* The sum of what the lines of a set of entries say.                      *)
LEMMA LineAmountSum ==
    ASSUME NEW S, IsFiniteSet(S), NEW f, \A e \in S : f[e] = e.line.amount
    PROVE  MapThenSumSet(LAMBDA e : e.line.amount, S) = SumFunctionOnSet(f, S)
<1> DEFINE Eq(g) == g = [T \in SUBSET S |-> IF T = {} THEN 0
                                            ELSE Pick(T).line.amount + g[T \ {Pick(T)}]]
           h == CHOOSE g : Eq(g)
<1>1. MapThenSumSet(LAMBDA e : e.line.amount, S) = h[S]
  BY DEF MapThenSumSet, MapThenFoldSet, Pick
<1>2. \A T \in SUBSET S : T # {} => f[Pick(T)] = Pick(T).line.amount
  BY PickIn
<1>3. \A g : Eq(g) <=> IsFold(g, f, S)
  BY <1>2 DEF IsFold
<1>4. IsFold(h, f, S)
  BY <1>3, FoldExists
<1> HIDE DEF h
<1> QED BY <1>1, <1>4, SumIsFold

(* A new row changes the balance of its tutor.                             *)
LEMMA RowAdds ==
    ASSUME NEW R \in SUBSET MirrorRow, IsFiniteSet(R), NEW r \in MirrorRow \ R, NEW t
    PROVE  /\ Amount(R, t) \in Int
           /\ Amount(R \cup {r}, t) = Amount(R, t) + (IF r.key = t THEN r.amount ELSE 0)
<1> DEFINE S == {x \in R : x.key = t}
           N == {x \in R \cup {r} : x.key = t}
<1>0. IsFiniteSet(R \cup {r})
  BY FS_AddElement
<1>1. IsFiniteSet(S) /\ IsFiniteSet(N) /\ r \notin S
  BY <1>0, FS_Subset
<1>2. \A x \in N \cup S \cup {r} : AmountAt[x] = x.amount /\ AmountAt[x] \in Int
  BY DEF AmountAt, MirrorRow
<1>3. N = IF r.key = t THEN S \cup {r} ELSE S
  OBVIOUS
<1>4. /\ Amount(R, t) = MapThenSumSet(LAMBDA x : x.amount, S)
      /\ Amount(R \cup {r}, t) = MapThenSumSet(LAMBDA x : x.amount, N)
  BY DEF Amount
<1> HIDE DEF S, N
<1>5. /\ Amount(R, t) = SumFunctionOnSet(AmountAt, S)
      /\ Amount(R \cup {r}, t) = SumFunctionOnSet(AmountAt, N)
  BY <1>1, <1>2, <1>4, AmountSum
<1>6. /\ SumFunctionOnSet(AmountAt, S \cup {r}) = AmountAt[r] + SumFunctionOnSet(AmountAt, S)
      /\ SumFunctionOnSet(AmountAt, S) \in Int
  BY <1>1, <1>2, SumAdd, SumInt
<1>7. CASE r.key = t
  <2>1. N = S \cup {r}
    BY <1>3, <1>7
  <2> QED BY <1>2, <1>5, <1>6, <1>7, <2>1
<1>8. CASE r.key # t
  <2>1. N = S
    BY <1>3, <1>8
  <2> QED BY <1>5, <1>6, <1>8, <2>1
<1> QED BY <1>7, <1>8

(* A record of disbursement adds to what its tutor was paid.               *)
LEMMA PaymentAdds ==
    ASSUME NEW D \in SUBSET Disbursement, IsFiniteSet(D), NEW d \in Disbursement \ D, NEW t
    PROVE  /\ PaidTo(D, t) \in Int
           /\ PaidTo(D \cup {d}, t) = PaidTo(D, t) + (IF d.tutor = t THEN d.amount ELSE 0)
<1> DEFINE S == {x \in D : x.tutor = t}
           N == {x \in D \cup {d} : x.tutor = t}
<1>0. IsFiniteSet(D \cup {d})
  BY FS_AddElement
<1>1. IsFiniteSet(S) /\ IsFiniteSet(N) /\ d \notin S
  BY <1>0, FS_Subset
<1>2. \A x \in N \cup S \cup {d} : AmountAt[x] = x.amount /\ AmountAt[x] \in Int
  BY DEF AmountAt, Disbursement
<1>3. N = IF d.tutor = t THEN S \cup {d} ELSE S
  OBVIOUS
<1>4. /\ PaidTo(D, t) = MapThenSumSet(LAMBDA x : x.amount, S)
      /\ PaidTo(D \cup {d}, t) = MapThenSumSet(LAMBDA x : x.amount, N)
  BY DEF PaidTo
<1> HIDE DEF S, N
<1>5. /\ PaidTo(D, t) = SumFunctionOnSet(AmountAt, S)
      /\ PaidTo(D \cup {d}, t) = SumFunctionOnSet(AmountAt, N)
  BY <1>1, <1>2, <1>4, AmountSum
<1>6. /\ SumFunctionOnSet(AmountAt, S \cup {d}) = AmountAt[d] + SumFunctionOnSet(AmountAt, S)
      /\ SumFunctionOnSet(AmountAt, S) \in Int
  BY <1>1, <1>2, SumAdd, SumInt
<1>7. CASE d.tutor = t
  <2>1. N = S \cup {d}
    BY <1>3, <1>7
  <2> QED BY <1>2, <1>5, <1>6, <1>7, <2>1
<1>8. CASE d.tutor # t
  <2>1. N = S
    BY <1>3, <1>8
  <2> QED BY <1>5, <1>6, <1>8, <2>1
<1> QED BY <1>7, <1>8

(* An entry adds to what is booked of its tutor, a payment does not.       *)
LEMMA EntryAdds ==
    ASSUME NEW E \in SUBSET Entry, IsFiniteSet(E), NEW e \in Entry \ E, NEW t
    PROVE  LET counts == e.source # "payout" /\ e.line.key = t
           IN  /\ Booked(E, t) \in Int
               /\ Booked(E \cup {e}, t) = Booked(E, t) + (IF counts THEN e.line.amount ELSE 0)
<1> DEFINE S == OtherThanPaid(E, t)
           N == OtherThanPaid(E \cup {e}, t)
           counts == e.source # "payout" /\ e.line.key = t
<1>0. IsFiniteSet(E \cup {e})
  BY FS_AddElement
<1>1. IsFiniteSet(S) /\ IsFiniteSet(N) /\ e \notin S
  BY <1>0, FS_Subset DEF OtherThanPaid
<1>2. \A x \in S \cup N : x \in Entry /\ x.line.amount \in Int
  BY DEF OtherThanPaid, Entry, Line
<1>3. \A x \in S \cup N : LineAmountAt[x] = x.line.amount /\ LineAmountAt[x] \in Int
  BY <1>2 DEF LineAmountAt
<1>4. N = IF counts THEN S \cup {e} ELSE S
  BY DEF OtherThanPaid
<1>5. /\ Booked(E, t) = MapThenSumSet(LAMBDA x : x.line.amount, S)
      /\ Booked(E \cup {e}, t) = MapThenSumSet(LAMBDA x : x.line.amount, N)
  BY DEF Booked
<1> HIDE DEF S, N, counts
<1>6. /\ Booked(E, t) = SumFunctionOnSet(LineAmountAt, S)
      /\ Booked(E \cup {e}, t) = SumFunctionOnSet(LineAmountAt, N)
  BY <1>1, <1>3, <1>5, LineAmountSum
<1>7. SumFunctionOnSet(LineAmountAt, S) \in Int
  BY <1>1, <1>3, SumInt
<1>8. CASE counts
  <2>1. N = S \cup {e}
    BY <1>4, <1>8
  <2>2. SumFunctionOnSet(LineAmountAt, S \cup {e})
          = LineAmountAt[e] + SumFunctionOnSet(LineAmountAt, S)
    BY <1>1, <1>3, <2>1, SumAdd
  <2>3. LineAmountAt[e] = e.line.amount /\ LineAmountAt[e] \in Int
    BY <1>3, <2>1
  <2>4. Booked(E \cup {e}, t) = Booked(E, t) + e.line.amount
    BY <1>6, <1>7, <2>1, <2>2, <2>3
  <2> QED BY <1>6, <1>7, <1>8, <2>4 DEF counts
<1>9. CASE ~ counts
  <2>1. N = S
    BY <1>4, <1>9
  <2> QED BY <1>6, <1>7, <1>9, <2>1 DEF counts
<1> QED BY <1>8, <1>9

-----------------------------------------------------------------------------
(* The steps that post.                                                    *)

(* A payment: its row takes from the position what its record says.        *)
LEMMA CommitExplains ==
    ASSUME IInv, PositionInv, NEW s \in Slots, Commit(s) PROVE PositionInv'
<1>0. /\ book \in SUBSET Entry /\ rows \in SUBSET MirrorRow
      /\ disbursed \in SUBSET Disbursement
      /\ IsFiniteSet(book) /\ IsFiniteSet(rows) /\ IsFiniteSet(disbursed)
  BY DEF IInv, TypeOK, PositionInv
<1>1. PICK id \in 1 .. (nextId - 1) :
         LET x == Payout(id, Now(s))
             d == [je |-> id, tutor |-> Now(s).tutor, amount |-> Now(s).amount,
                   month |-> Now(s).month]
         IN  /\ Own(s, id) /\ x \in Entry /\ d \in Disbursement
             /\ book' = book \cup {x}
             /\ rows' = rows \cup {Row(id, x.line)}
             /\ disbursed' = disbursed \cup {d}
  BY CommitAdds
<1> DEFINE x == Payout(id, Now(s))
           d == [je |-> id, tutor |-> Now(s).tutor, amount |-> Now(s).amount,
                 month |-> Now(s).month]
           r == Row(id, x.line)
<1>2. /\ x.id = id /\ x.source = "payout"
      /\ r.je = id /\ r.key = d.tutor /\ r.amount = - d.amount /\ d.je = id
  BY DEF Payout, PayoutLine, SubLine, Row
<1>3. /\ x \in Entry /\ d \in Disbursement /\ id \in Nat
      /\ book' = book \cup {x} /\ rows' = rows \cup {r} /\ disbursed' = disbursed \cup {d}
      /\ \A e \in book : e.id # id
  BY <1>1 DEF Own
<1>4. r \in MirrorRow /\ d.amount \in Int
  <2>1. x.line \in Line
    BY <1>3 DEF Entry
  <2>2. r \in MirrorRow
    BY <1>3, <2>1, LineTypes
  <2> HIDE DEF d, r
  <2> QED BY <1>3, <2>2 DEF Disbursement
<1> HIDE DEF x, d, r
<1>5. x \notin book /\ r \notin rows
  BY <1>2, <1>3 DEF PositionInv
<1>6. d \notin disbursed
  BY <1>2, <1>3 DEF IInv, PaymentsRecorded, Payouts
<1>7. IsFiniteSet(book') /\ IsFiniteSet(rows') /\ IsFiniteSet(disbursed')
  BY <1>0, <1>3, FS_AddElement
<1>8. \A q \in rows' : \E e \in book' : e.id = q.je
  BY <1>2, <1>3 DEF PositionInv
<1>9. ASSUME NEW t \in Tutors PROVE Explained(t)'
  <2>1. /\ Amount(rows, t) \in Int
        /\ Amount(rows', t) = Amount(rows, t) + (IF r.key = t THEN r.amount ELSE 0)
    BY <1>0, <1>3, <1>4, <1>5, RowAdds
  <2>2. /\ PaidTo(disbursed, t) \in Int
        /\ PaidTo(disbursed', t)
             = PaidTo(disbursed, t) + (IF d.tutor = t THEN d.amount ELSE 0)
    BY <1>0, <1>3, <1>6, PaymentAdds
  <2>3. Booked(book, t) \in Int /\ Booked(book', t) = Booked(book, t)
    <3>1. x \in Entry \ book
      BY <1>3, <1>5
    <3>2. /\ Booked(book, t) \in Int
          /\ Booked(book \cup {x}, t) = Booked(book, t)
               + (IF x.source # "payout" /\ x.line.key = t THEN x.line.amount ELSE 0)
      BY <1>0, <3>1, EntryAdds
    <3>3. Booked(book \cup {x}, t) = Booked(book, t)
      BY <1>2, <3>2
    <3> QED BY <1>3, <3>2, <3>3
  <2>4. Amount(rows', t) = Booked(book', t) - PaidTo(disbursed', t)
    BY <1>2, <1>4, <2>1, <2>2, <2>3 DEF PositionInv, Explained
  <2> QED BY <2>4 DEF Explained
<1> QED BY <1>7, <1>8, <1>9 DEF PositionInv

(* Any other entry: its row adds what its line says.                       *)
LEMMA EnterExplains ==
    ASSUME IInv, PositionInv, NEW source, NEW ref, NEW reverses, NEW month, NEW line,
           Other(source, ref, reverses, month, line),
           Enter(source, ref, reverses, month, line)
    PROVE  PositionInv'
<1> DEFINE e == [id |-> nextId, source |-> source, ref |-> ref, reverses |-> reverses,
                 month |-> month, line |-> line]
           r == Row(nextId, line)
<1>0. /\ book \in SUBSET Entry /\ rows \in SUBSET MirrorRow
      /\ disbursed \in SUBSET Disbursement /\ nextId \in Nat \ {0}
      /\ IsFiniteSet(book) /\ IsFiniteSet(rows) /\ IsFiniteSet(disbursed)
      /\ \A f \in book : f.id # nextId
  BY DEF IInv, TypeOK, PositionInv, Entry
<1>1. book' = book \cup {e} /\ rows' = rows \cup {r} /\ disbursed' = disbursed
  BY DEF Enter
<1>2. /\ e.id = nextId /\ e.source # "payout" /\ e.line = line /\ e \in Entry
      /\ r.je = nextId /\ r.key = line.key /\ r.amount = line.amount
  BY <1>0 DEF Row, Entry, Other
<1>3. r \in MirrorRow /\ line.amount \in Int
  BY <1>0, LineTypes DEF Other, Line
<1> HIDE DEF e, r
<1>4. e \notin book /\ r \notin rows
  BY <1>0, <1>2 DEF PositionInv
<1>5. IsFiniteSet(book') /\ IsFiniteSet(rows') /\ IsFiniteSet(disbursed')
  BY <1>0, <1>1, FS_AddElement
<1>6. \A q \in rows' : \E f \in book' : f.id = q.je
  BY <1>1, <1>2 DEF PositionInv
<1>7. ASSUME NEW t \in Tutors PROVE Explained(t)'
  <2>1. /\ Amount(rows, t) \in Int
        /\ Amount(rows', t) = Amount(rows, t) + (IF line.key = t THEN line.amount ELSE 0)
    <3>1. r \in MirrorRow \ rows
      BY <1>3, <1>4
    <3>2. /\ Amount(rows, t) \in Int
          /\ Amount(rows \cup {r}, t)
               = Amount(rows, t) + (IF r.key = t THEN r.amount ELSE 0)
      BY <1>0, <3>1, RowAdds
    <3> QED BY <1>1, <1>2, <3>2
  <2>2. /\ Booked(book, t) \in Int
        /\ Booked(book', t) = Booked(book, t) + (IF line.key = t THEN line.amount ELSE 0)
    BY <1>0, <1>1, <1>2, <1>4, EntryAdds
  <2>3. PaidTo(disbursed, t) \in Int
    <3>1. \A d \in {y \in disbursed : y.tutor = t} :
             AmountAt[d] = d.amount /\ AmountAt[d] \in Int
      BY <1>0 DEF AmountAt, Disbursement
    <3>2. IsFiniteSet({y \in disbursed : y.tutor = t})
      BY <1>0, FS_Subset
    <3>3. PaidTo(disbursed, t)
            = MapThenSumSet(LAMBDA d : d.amount, {y \in disbursed : y.tutor = t})
      BY DEF PaidTo
    <3> QED BY <3>1, <3>2, <3>3, AmountSum, SumInt
  <2>4. Amount(rows', t) = Booked(book', t) - PaidTo(disbursed', t)
    BY <1>1, <1>3, <2>1, <2>2, <2>3 DEF PositionInv, Explained
  <2> QED BY <2>4 DEF Explained
<1> QED BY <1>5, <1>6, <1>7 DEF PositionInv

LEMMA PositionStep == Finite /\ PositionInv /\ [Next]_vars => PositionInv'
<1> SUFFICES ASSUME Finite, PositionInv, [Next]_vars PROVE PositionInv'
  OBVIOUS
<1>0. IInv /\ IsFiniteSet(rows)
  BY DEF Finite
<1>1. CASE UNCHANGED tables
  <2>1. book' = book /\ rows' = rows /\ disbursed' = disbursed
    BY <1>1 DEF tables
  <2> QED BY <2>1 DEF PositionInv, Explained
<1>2. CASE Enters
  BY <1>0, <1>2, EnterExplains DEF Enters
<1> QED BY <1>0, <1>1, <1>2, Writes, CommitExplains

LEMMA PositionInit == Init => PositionInv
<1> SUFFICES ASSUME Init PROVE PositionInv
  OBVIOUS
<1>1. book = {} /\ rows = {} /\ disbursed = {} /\ IsFiniteSet({})
  BY FS_EmptySet DEF Init
<1>2. ASSUME NEW t \in Tutors PROVE Explained(t)
  <2>1. /\ {r \in rows : r.key = t} = {} /\ OtherThanPaid(book, t) = {}
        /\ {d \in disbursed : d.tutor = t} = {}
    BY <1>1 DEF OtherThanPaid
  <2>2. /\ Amount(rows, t) = MapThenSumSet(LAMBDA r : r.amount, {})
        /\ PaidTo(disbursed, t) = MapThenSumSet(LAMBDA r : r.amount, {})
    BY <2>1, Zenon DEF Amount, PaidTo
  <2>3. Booked(book, t) = MapThenSumSet(LAMBDA e : e.line.amount, {})
    BY <2>1, Zenon DEF Booked
  <2>4. SumFunctionOnSet(AmountAt, {}) = 0
    BY SumEmpty
  <2>5. Amount(rows, t) = 0 /\ PaidTo(disbursed, t) = 0
    BY <1>1, <2>2, <2>4, AmountSum
  <2>6. Booked(book, t) = 0
    BY <1>1, <2>3, <2>4, LineAmountSum
  <2> QED BY <2>5, <2>6 DEF Explained
<1> QED BY <1>1, <1>2 DEF PositionInv

(* What a tutor is owed is what was accrued, revalued, entered by hand and *)
(* taken back, less what the records of disbursement say was paid, for any *)
(* number of tutors, sheets and corrections.                               *)
THEOREM Position == Spec => []PositionExplained
<1>1. Finite /\ PositionInv /\ [Next]_vars => PositionInv'
  BY PositionStep
<1>2. PositionInv => PositionExplained
  BY Explains DEF PositionInv
<1> QED BY <1>1, <1>2, PositionInit, FiniteAlways, PTL DEF Spec
=============================================================================
