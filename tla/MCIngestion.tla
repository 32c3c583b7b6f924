---------------------------- MODULE MCIngestion ----------------------------
(***************************************************************************)
(* A small instance of Ingestion.  A file and a poll name session 1, the   *)
(* poll with another enrollment and day, whose rates are others; there are *)
(* a malformed row and a charge for an absent student.                     *)
(***************************************************************************)
EXTENDS Ingestion

Conducted(id, of, on) ==
    [id |-> id, of |-> of, on |-> on, valid |-> TRUE, taught |-> TRUE, absent |-> FALSE]
Absent(id, of, on) == [Conducted(id, of, on) EXCEPT !.absent = TRUE]
Malformed(id, of, on) == [Conducted(id, of, on) EXCEPT !.valid = FALSE, !.taught = FALSE]

MCFiles == {"f1"}
MCPolls == {"p1"}
MCContent == [b \in MCFiles \cup MCPolls |->
    CASE b = "f1" -> <<Conducted(1, "a", 1), Malformed(2, "a", 1)>>
      [] b = "p1" -> <<Conducted(1, "b", 2), Absent(2, "b", 2)>>]
=============================================================================
