------------------------------- MODULE Ledger -------------------------------
(***************************************************************************)
(* What the general ledger promises to everything that reads it, whatever  *)
(* happens inside the transactions that write it: a book of journal        *)
(* entries to which entries are only ever added.  An entry is recorded     *)
(* once, under an id and a source reference nobody else has, and nothing   *)
(* of it changes afterwards except that a POSTED entry becomes REVERSED,   *)
(* in the same step that records the one entry that reverses it.           *)
(*                                                                         *)
(* Posting implements this specification (Posting!ImplementsLedger).       *)
(***************************************************************************)
EXTENDS Naturals, Sequences

CONSTANT NoRef     \* source_ref NULL

VARIABLE book      \* the committed rows of ledger.journal_entries

NoEntry == 0       \* reverses_je_id NULL

(* The lines of a reversal: debit and credit change sides, all else stays. *)
Flip(lines) ==
    [i \in DOMAIN lines |->
        [account |-> lines[i].account, student |-> lines[i].student,
         dr |-> lines[i].cr, cr |-> lines[i].dr]]

Ids(B) == {e.id : e \in B}

(* The partial unique index on journal_entries(source_ref): NULL is free.  *)
RefFree(B, ref) ==
    ref # NoRef => \A e \in B : e.draft.ref # ref

(* An entry the book does not have yet.                                    *)
Fresh(e) ==
    /\ e.id \notin Ids(book)
    /\ RefFree(book, e.draft.ref)
    /\ e.status = "POSTED"

Marked(o) == [id |-> o.id, draft |-> o.draft, status |-> "REVERSED"]

Init == book = {}

(* The new entry is the one the step adds: the record sets are infinite,   *)
(* so the step is described by what is in the new book and not in the old. *)
Record ==
    \E e \in book' \ book :
        /\ Fresh(e)
        /\ e.draft.reverses = NoEntry
        /\ book' = book \cup {e}

Reverse ==
    \E o \in book, e \in book' \ book :
        /\ Fresh(e)
        /\ o.status = "POSTED"
        /\ e.draft.reverses = o.id
        /\ e.draft.lines = Flip(o.draft.lines)
        /\ book' = (book \ {o}) \cup {Marked(o), e}

Next == Record \/ Reverse

Spec == Init /\ [][Next]_book

=============================================================================
