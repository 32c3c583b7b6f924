----------------------------- MODULE MCPosting -----------------------------
(* Small instances of Posting for TLC.                                     *)
EXTENDS Posting, TLC

CONSTANTS TopUpRef, SessionRef, Jan, Ali

D(account, amount, student) ==
    [account |-> account, dr |-> amount, cr |-> 0, student |-> student]
C(account, amount, student) ==
    [account |-> account, dr |-> 0, cr |-> amount, student |-> student]

(* A top-up imported from the bank, the session that consumes it, a manual *)
(* refund of the same money.                                               *)
TopUp == [period |-> Jan, kind |-> "import", ref |-> TopUpRef, reverses |-> 0,
          attach |-> "small",
          lines |-> <<D("1020", 1, NoStudent), C("2050", 1, Ali)>>]
Session == [period |-> Jan, kind |-> "system", ref |-> SessionRef, reverses |-> 0,
            attach |-> "small",
            lines |-> <<D("2050", 1, Ali), C("4010", 1, NoStudent)>>]
Refund == [period |-> Jan, kind |-> "manual", ref |-> NoRef, reverses |-> 0,
           attach |-> "small",
           lines |-> <<D("2050", 1, Ali), C("1020", 1, NoStudent)>>]

(* Drafts that the checks refuse: a line with no side, no attachment, no   *)
(* student, unbalanced.                                                    *)
NoSide == [Session EXCEPT !.lines[2].cr = 0]
NoFile == [Refund EXCEPT !.attach = "missing"]
NoKey == [TopUp EXCEPT !.lines[2].student = NoStudent]
OffBalance == [TopUp EXCEPT !.lines[1].dr = 2]

WalletDrafts == {TopUp, Session, Refund}
AllDrafts == WalletDrafts \cup {NoSide, NoFile, NoKey, OffBalance}
=============================================================================
