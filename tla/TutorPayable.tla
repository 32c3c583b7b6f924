---------------------------- MODULE TutorPayable ----------------------------
(***************************************************************************)
(* The tutor-payable sub-ledger (accounts 2020 and 2030) and the two       *)
(* computations that rest on it: what a session earns a tutor              *)
(* (agents/payroll.py), and what the month-end revaluation posts on the    *)
(* position of a tutor paid in PKR (agents/fx.py).                         *)
(*                                                                         *)
(* Money is an integer number of the smallest units a run cares about; an  *)
(* exchange rate is an integer number of hundredths.                       *)
(***************************************************************************)
EXTENDS Integers, FiniteSets, FiniteSetsExt

CONSTANT NoOriginal    \* a line whose original_amount is NULL

RateUnit == 100        \* a rate of 1

(* aed: the quotient n / d in whole units, ties away from zero.            *)
HalfUp(n, d) ==
    IF n >= 0 THEN (2 * n + d) \div (2 * d) ELSE - ((2 * (- n) + d) \div (2 * d))

-----------------------------------------------------------------------------
(* Lines and mirror rows.                                                  *)

(* A line on a control account: the side that grows the balance of the     *)
(* sub-ledger minus the other side.                                        *)
SubLine(key, amount, original) ==
    [key |-> key, amount |-> amount, original |-> original]

(* Mutant: the row takes the size of the line and not its side.            *)
RowUnsigned(id, l) ==
    LET size == IF l.amount < 0 THEN - l.amount ELSE l.amount
    IN  [je |-> id, key |-> l.key, amount |-> size,
         original |-> IF l.original = NoOriginal THEN size ELSE l.original]

(* The row TutorPayableSubLedger.apply_line inserts: where the line says   *)
(* nothing of the original currency the AED amount stands in for it.       *)
Row(id, l) ==
    [je |-> id, key |-> l.key, amount |-> l.amount,
     original |-> IF l.original = NoOriginal THEN l.amount ELSE l.original]

(* reverse_journal swaps debit and credit and copies original_amount.      *)
TakeBack(l) == [key |-> l.key, amount |-> - l.amount, original |-> l.original]

Amount(R, k) == MapThenSumSet(LAMBDA r : r.amount, {r \in R : r.key = k})
Original(R, k) == MapThenSumSet(LAMBDA r : r.original, {r \in R : r.key = k})

-----------------------------------------------------------------------------
(* Revaluation.                                                            *)

(* open_pkr_positions: the tutors whose booked AED is above zero.          *)
OpenPositions(R, tutors) == {t \in tutors : Amount(R, t) > 0}

Revalued(R, t, rate) == HalfUp(Original(R, t) * rate, RateUnit)
Delta(R, t, rate) == Revalued(R, t, rate) - Amount(R, t)

(* revalue_unrealized: the line on 2020 moves the booked amount by the     *)
(* difference and carries the whole position as its original amount.       *)
RevaluationLine(R, t, rate) ==
    SubLine(t, Delta(R, t, rate), Original(R, t))

-----------------------------------------------------------------------------
(* Payroll.                                                                *)

Threshold == 52        \* PENALTY_THRESHOLD_MIN
Factor == 95           \* PENALTY_FACTOR, in hundredths

(* Mutant: a session that runs over is paid for all its minutes.           *)
EarnedUncapped(minutes, scheduled) == minutes

(* Minutes over the scheduled ones are not paid.                           *)
Earned(minutes, scheduled) == IF minutes < scheduled THEN minutes ELSE scheduled

(* compute_payment: net is taken from the unrounded proration, the penalty *)
(* is what is left of the rounded one.                                     *)
Payment(rate, scheduled, conducted) ==
    LET capped   == Earned(conducted, scheduled)
        full     == conducted > 0 /\ capped >= Threshold
        prorated == CASE conducted <= 0 -> 0
                      [] full           -> rate
                      [] OTHER          -> HalfUp(rate * capped, scheduled)
        net      == CASE conducted <= 0 -> 0
                      [] full           -> rate
                      [] OTHER          ->
                            HalfUp(rate * capped * Factor, scheduled * 100)
    IN  [prorated |-> prorated, net |-> net, penalty |-> prorated - net]

(* build_accrual_draft: the credit of 2020 carries the PKR of that day.    *)
AccrualLine(t, pay, fx) == SubLine(t, pay.net, HalfUp(pay.net * fx, RateUnit))
=============================================================================
