----------------------------- MODULE MCMonthEnd -----------------------------
(* Small instances of MonthEnd for TLC.                                    *)
EXTENDS MonthEnd, TLC

CONSTANTS Jan, Feb, Mar, Laptop, LaptopCost, Licence, Software, Sara, Omar

(* An asset of 3 over two months: 1.5 is charged as 2, and 1 is left.      *)
MCClassOf == [a \in Assets |-> "LAPTOP"]
MCCost == [i \in Items |-> 3]
MCLife == [i \in Items |-> 2]

D(kind, on, key, amount, original) ==
    [ref |-> IF kind = "none" THEN NoRef ELSE Ref(kind, NoEntry, key), on |-> on,
     reverses |-> NoEntry, lines |-> {SubLine(key, amount, original)}]

(* A session of a tutor at 2 PKR for an AED, and the capitalisation of     *)
(* development cost.                                                       *)
Accrual(t) == D("other", Feb, t, 2, 4)
Capitalised == D("other", Feb, Software, 1, NoOriginal)

MCOpening ==
    {EntryOf(1, [Accrual(Sara) EXCEPT !.lines =
                   @ \cup Accrual(Omar).lines])}

(* A laptop and a licence as they were bought, and a month of the laptop.  *)
Bought ==
    D("none", Feb, Laptop, 2, NoOriginal).lines
      \cup {SubLine(LaptopCost, -3, NoOriginal), SubLine(Licence, -3, NoOriginal)}
AssetOpening == {EntryOf(1, [D("none", Feb, Laptop, 2, NoOriginal) EXCEPT !.lines = Bought])}

(* Manual journals: on 1051 both ways, a credit of 1111, and one that      *)
(* capitalises what a tutor is owed.                                       *)
ByHand ==
    {D("none", Feb, Licence, -1, NoOriginal), D("none", Feb, Licence, 1, NoOriginal),
     D("none", Feb, LaptopCost, 2, NoOriginal),
     [D("none", Feb, Software, 1, NoOriginal) EXCEPT
        !.lines = @ \cup {SubLine(Sara, 1, NoOriginal)}]}

MCOthers == {Capitalised}
Connections == Permutations(Slots)
=============================================================================
