----------------------------- MODULE MCPayroll -----------------------------
(* A small instance of Payroll for TLC.                                    *)
EXTENDS Payroll, TLC

CONSTANTS Sara, Jan, Feb

R(kind, tutor, amount, month) ==
    [kind |-> kind, tutor |-> tutor, amount |-> amount, month |-> month]

(* A sheet with the same payment twice, one with rows that are refused     *)
(* before and after a payment, one that stops after its first row.         *)
MCSheets ==
    {<<R("pay", Sara, 1, Jan), R("pay", Sara, 1, Jan)>>,
     <<R("pay", Stranger, 1, Jan), R("pay", Sara, 2, Feb), R("malformed", Sara, 1, Jan)>>,
     <<R("pay", Sara, 1, Jan), R("not_a_number", Sara, 1, Jan)>>}

S(id, rate, scheduled, conducted) ==
    [id |-> id, tutor |-> Sara, month |-> Jan, rate |-> rate, scheduled |-> scheduled,
     conducted |-> conducted, fx |-> 7600]

(* Taught in full; cut short; of which nothing is left after the penalty.  *)
MCSessions == {S("full", 3, 60, 60), S("short", 3, 60, 46), S("nothing", 1, 60, 31)}

(* Closing rates, in hundredths of an AED for a PKR, and journals by hand. *)
MCRates == {1, 2}
MCByHand == {-1}

MCMinutes == (0 .. 2) \cup (29 .. 32) \cup (43 .. 62) \cup {89, 90, 95}

Connections == Permutations(Slots)
=============================================================================
