----------------------------- MODULE MCReports -----------------------------
(* A small instance of Reports for TLC, on accounts of the real chart.     *)
EXTENDS Reports, TLC

CONSTANT Algebra

A(range, type, statement, parent) ==
    [range |-> range, type |-> type, statement |-> statement, memo |-> type = "memo",
     postable |-> parent # NoParent, parent |-> parent]

MCChart ==
    "1000" :> A(1, "asset", "BS", NoParent) @@
    "1020" :> A(1, "asset", "BS", "1000") @@
    "1051" :> A(1, "asset", "BS", "1000") @@
    "1111" :> A(1, "asset", "BS", "1000") @@
    "1112" :> A(1, "contra", "BS", "1000") @@
    "2000" :> A(2, "liability", "BS", NoParent) @@
    "2020" :> A(2, "liability", "BS", "2000") @@
    "2050" :> A(2, "liability", "BS", "2000") @@
    "2060" :> A(2, "liability", "BS", "2000") @@
    "3000" :> A(3, "equity", "BS", NoParent) @@
    "3010" :> A(3, "equity", "BS", "3000") @@
    "4000" :> A(4, "revenue", "IS", NoParent) @@
    "4010" :> A(4, "revenue", "IS", "4000") @@
    "5000" :> A(5, "expense", "IS", NoParent) @@
    "5010" :> A(5, "expense", "IS", "5000") @@
    "5020" :> A(5, "contra", "IS", "5000") @@
    "6000" :> A(6, "expense", "IS", NoParent) @@
    "6510" :> A(6, "expense", "IS", "6000") @@
    "6540" :> A(6, "expense", "IS", "6000") @@
    "7000" :> A(7, "expense", "IS", NoParent) @@
    "7020" :> A(7, "expense", "IS", "7000") @@
    "7030" :> A(7, "revenue", "IS", "7000") @@
    "9000" :> A(9, "memo", "MEMO", NoParent) @@
    "9010" :> A(9, "memo", "MEMO", "9000")

D(account, of, amount) == [account |-> account, of |-> of, dr |-> amount, cr |-> 0]
C(account, of, amount) == [account |-> account, of |-> of, dr |-> 0, cr |-> amount]

(* Capital, a laptop and a top-up; a session with a penalty; month end;    *)
(* a manual journal of a sanction and interest.                            *)
MCJournals ==
    {{C("3010", NoEnrollment, 5), C("2050", NoEnrollment, 4), D("1020", NoEnrollment, 7),
      D("1111", NoEnrollment, 2)},
     {D("2050", NoEnrollment, 4), C("4010", Algebra, 4), D("5010", Algebra, 3),
      C("5020", Algebra, 1), C("2020", NoEnrollment, 2)},
     {D("6510", NoEnrollment, 1), C("1112", NoEnrollment, 1), D("7020", NoEnrollment, 2),
      C("2020", NoEnrollment, 2), D("6540", NoEnrollment, 2), C("1051", NoEnrollment, 2)},
     {D("2060", NoEnrollment, 1), C("9010", NoEnrollment, 1), D("1020", NoEnrollment, 3),
      C("7030", NoEnrollment, 3)}}

(* A sanction alone.                                                       *)
Commitments == {{D("2060", NoEnrollment, 1), C("9010", NoEnrollment, 1)}}
=============================================================================
