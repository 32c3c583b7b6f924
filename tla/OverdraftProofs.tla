-------------------------- MODULE OverdraftProofs --------------------------
(***************************************************************************)
(* How far below zero postings that overlap can take a student wallet, for *)
(* any number of connections, students and drafts.  The trigger that runs  *)
(* at COMMIT sees what is committed by then: between its test and the      *)
(* commit, the transactions of other connections may commit too.           *)
(***************************************************************************)
EXTENDS PostingProofs, Sums

USE DEF NoEntry, L!NoEntry

Delta == [r \in WalletRow |-> r.delta]
RowsOf(d, i, st) == {r \in ApplyLines(i, d) : r.student = st}

(* Drafts that take no more than the largest of Drafts.                    *)
Within(d) ==
    \A st \in Students : - MostTaken <= Moves(d, st) /\ Moves(d, st) <= MostTaken

(* What a connection past the trigger is about to take from a student.     *)
Promise(s, st) ==
    IF pc[s] = "commit" /\ Moves(job[s].draft, st) < 0
      THEN - Moves(job[s].draft, st)
      ELSE 0
Promises(st) == [s \in Slots |-> Promise(s, st)]

(* The bound holds of the balance less all that is promised, which is what *)
(* the balance comes to if every connection past the trigger commits.      *)
Bounded(st) ==
    Balance(wallet, st) - SumFunctionOnSet(Promises(st), Slots)
        >= - (Cardinality(Slots) - 1) * MostTaken

OverInv ==
    /\ IsFiniteSet(wallet)
    /\ \A e \in entries : Within(e.draft)
    /\ \A s \in Slots : pc[s] \in PostSteps => Within(job[s].draft)
    /\ \A st \in Students : Bounded(st)

(* There is a connection; connections, students and drafts are finitely    *)
(* many (amounts are NUMERIC(18,4)).                                       *)
Finite ==
    /\ IsFiniteSet(Slots) /\ Slots # {}
    /\ IsFiniteSet(Drafts) /\ IsFiniteSet(Students)

-----------------------------------------------------------------------------
(* Sums of rows.                                                           *)

(* Sum, on rows of the wallet table, is a sum over a set.                  *)
LEMMA DeltaSum ==
    ASSUME NEW S \in SUBSET WalletRow, IsFiniteSet(S)
    PROVE  Sum(S) = SumFunctionOnSet(Delta, S) /\ Sum(S) \in Int
<1> DEFINE Eq(g) == g = [T \in SUBSET S |-> IF T = {} THEN 0
                                            ELSE Pick(T).delta + g[T \ {Pick(T)}]]
           h == CHOOSE g : Eq(g)
<1>0. \A r \in S : Delta[r] = r.delta /\ Delta[r] \in Int
  BY DEF Delta, WalletRow
<1>1. Sum(S) = h[S]
  BY DEF Sum, MapThenSumSet, MapThenFoldSet, Pick
<1>2. \A T \in SUBSET S : T # {} => Delta[Pick(T)] = Pick(T).delta
  BY <1>0, PickIn
<1>3. \A g : Eq(g) <=> IsFold(g, Delta, S)
  BY <1>2 DEF IsFold
<1>4. IsFold(h, Delta, S)
  BY <1>3, FoldExists
<1> HIDE DEF h
<1> QED BY <1>0, <1>1, <1>4, SumIsFold, SumInt

(* The terms of a sum with their signs turned.                             *)
LEMMA SumNegated ==
    ASSUME NEW f, NEW g, NEW S, IsFiniteSet(S),
           \A x \in S : f[x] \in Int /\ g[x] = - f[x]
    PROVE  SumFunctionOnSet(g, S) = - SumFunctionOnSet(f, S)
<1> DEFINE zero == [x \in S |-> 0]
<1>1. SumFunctionOnSet(zero, S) = 0
  <2>1. \A x \in S : zero[x] = 0
    OBVIOUS
  <2> HIDE DEF zero
  <2> QED BY <2>1, SumZero
<1>2. SumFunctionOnSet(zero, S) = SumFunctionOnSet(f, S) + SumFunctionOnSet(g, S)
  <2>1. \A x \in S : f[x] \in Int /\ g[x] \in Int /\ zero[x] = f[x] + g[x]
    OBVIOUS
  <2> HIDE DEF zero
  <2> QED BY <2>1, SumPlus
<1>3. SumFunctionOnSet(f, S) \in Int /\ SumFunctionOnSet(g, S) \in Int
  BY SumInt
<1> HIDE DEF zero
<1> QED BY <1>1, <1>2, <1>3

(* Rows that are copied, one for one, with their deltas have the same sum. *)
LEMMA SumCopied ==
    ASSUME NEW f, NEW S, NEW R, IsFiniteSet(S), NEW e \in [S -> R], R = {e[x] : x \in S},
           \A x, y \in S : e[x] = e[y] => x = y,
           \A x \in S : f[x] \in Int /\ f[e[x]] = f[x]
    PROVE  SumFunctionOnSet(f, S) = SumFunctionOnSet(f, R)
<1> DEFINE g == [y \in R |-> f[y]]
<1>1. \A y \in R : g[y] = f[y]
  OBVIOUS
<1>2. \A x \in S : f[x] \in Int /\ g[e[x]] = f[x]
  BY <1>1
<1> HIDE DEF g
<1>3. SumFunctionOnSet(f, S) = SumFunctionOnSet(g, {e[x] : x \in S})
  BY <1>2, SumRenamed
<1>4. SumFunctionOnSet(f, S) = SumFunctionOnSet(g, R)
  BY <1>3
<1>5. IsFiniteSet(R)
  BY ImageFinite
<1> QED BY <1>1, <1>4, <1>5, SumEqual

(* An entry has finitely many rows.                                        *)
LEMMA RowsFinite ==
    ASSUME NEW d \in Draft, NEW i \in Nat
    PROVE  IsFiniteSet(ApplyLines(i, d))
<1> DEFINE row == [k \in WalletLines(d) |->
                     [je |-> i, line |-> k, student |-> d.lines[k].student,
                      delta |-> d.lines[k].cr - d.lines[k].dr]]
<1>1. DOMAIN d.lines = 1 .. Len(d.lines) /\ Len(d.lines) \in Nat
  BY DEF Draft
<1>2. IsFiniteSet(WalletLines(d))
  <2>1. IsFiniteSet(1 .. Len(d.lines))
    BY <1>1, FS_Interval
  <2>2. WalletLines(d) \subseteq 1 .. Len(d.lines)
    BY <1>1 DEF WalletLines
  <2> QED BY <2>1, <2>2, FS_Subset
<1>3. IsFiniteSet({row[k] : k \in WalletLines(d)})
  <2> HIDE DEF row
  <2> QED BY <1>2, ImageFinite
<1>4. ApplyLines(i, d) = {row[k] : k \in WalletLines(d)}
  BY DEF ApplyLines
<1> QED BY <1>3, <1>4

(* What a draft moves is the same under every id.                          *)
LEMMA MovesOf ==
    ASSUME NEW d \in Draft, NEW i \in Nat, NEW st
    PROVE  /\ RowsOf(d, i, st) \subseteq WalletRow /\ IsFiniteSet(RowsOf(d, i, st))
           /\ SumFunctionOnSet(Delta, RowsOf(d, i, st)) = Moves(d, st)
           /\ Moves(d, st) \in Int
<1> DEFINE S == RowsOf(d, NoEntry, st)
           R == RowsOf(d, i, st)
           e == [r \in S |-> [je |-> i, line |-> r.line, student |-> r.student,
                              delta |-> r.delta]]
<1>1. S \subseteq WalletRow /\ R \subseteq WalletRow /\ IsFiniteSet(S) /\ IsFiniteSet(R)
  <2>1. /\ ApplyLines(NoEntry, d) \subseteq WalletRow /\ ApplyLines(i, d) \subseteq WalletRow
        /\ IsFiniteSet(ApplyLines(NoEntry, d)) /\ IsFiniteSet(ApplyLines(i, d))
    BY ApplyLinesType, RowsFinite
  <2>2. S \subseteq ApplyLines(NoEntry, d) /\ R \subseteq ApplyLines(i, d)
    BY DEF RowsOf
  <2> QED BY <2>1, <2>2, FS_Subset
<1>2. Moves(d, st) = SumFunctionOnSet(Delta, S) /\ Moves(d, st) \in Int
  BY <1>1, DeltaSum DEF Moves, RowsOf
<1>3. \A r \in S : r.je = NoEntry /\ r.student = st /\ e[r] \in R /\ e[r].delta = r.delta
  BY DEF RowsOf, ApplyLines
<1>4. R = {e[r] : r \in S}
  <2>1. ASSUME NEW x \in R PROVE \E r \in S : x = e[r]
    <3>1. PICK k \in WalletLines(d) :
             x = [je |-> i, line |-> k, student |-> d.lines[k].student,
                  delta |-> d.lines[k].cr - d.lines[k].dr]
      BY DEF RowsOf, ApplyLines
    <3> DEFINE r == [je |-> NoEntry, line |-> k, student |-> d.lines[k].student,
                     delta |-> d.lines[k].cr - d.lines[k].dr]
    <3>2. x.student = st
      BY DEF RowsOf
    <3>3. r \in S
      BY <3>1, <3>2 DEF RowsOf, ApplyLines
    <3> QED BY <3>1, <3>3
  <2> QED BY <1>3, <2>1
<1>5. \A x, y \in S : e[x] = e[y] => x = y
  BY <1>1, <1>3 DEF WalletRow
<1>6. \A r \in S : Delta[r] \in Int /\ Delta[e[r]] = Delta[r]
  BY <1>1, <1>3 DEF Delta, WalletRow
<1>7. e \in [S -> R]
  BY <1>3
<1> HIDE DEF S, R, e
<1>8. SumFunctionOnSet(Delta, S) = SumFunctionOnSet(Delta, R)
  BY <1>1, <1>4, <1>5, <1>6, <1>7, SumCopied
<1> QED BY <1>1, <1>2, <1>8 DEF R

(* The rows of a new entry add to the balance what its draft moves.        *)
LEMMA BalanceAdds ==
    ASSUME NEW rows \in SUBSET WalletRow, IsFiniteSet(rows), NEW d \in Draft,
           NEW i \in Nat, \A r \in rows : r.je # i, NEW st
    PROVE  /\ Balance(rows \cup ApplyLines(i, d), st) = Balance(rows, st) + Moves(d, st)
           /\ Balance(rows, st) \in Int
<1> DEFINE old == {r \in rows : r.student = st}
           new == RowsOf(d, i, st)
<1>1. old \subseteq WalletRow /\ IsFiniteSet(old)
  BY FS_Subset
<1>2. /\ new \subseteq WalletRow /\ IsFiniteSet(new)
      /\ SumFunctionOnSet(Delta, new) = Moves(d, st)
  BY MovesOf
<1>3. old \cap new = {}
  BY DEF RowsOf, ApplyLines
<1>4. {r \in rows \cup ApplyLines(i, d) : r.student = st} = old \cup new
  BY DEF RowsOf
<1>5. IsFiniteSet(old \cup new) /\ old \cup new \subseteq WalletRow
  BY <1>1, <1>2, FS_Union
<1>6. \A r \in old \cup new : Delta[r] \in Int
  BY <1>5 DEF Delta, WalletRow
<1>7. Balance(rows, st) = SumFunctionOnSet(Delta, old) /\ Balance(rows, st) \in Int
  BY <1>1, DeltaSum DEF Balance
<1>8. Balance(rows \cup ApplyLines(i, d), st) = SumFunctionOnSet(Delta, old \cup new)
  BY <1>4, <1>5, DeltaSum DEF Balance
<1> HIDE DEF old, new
<1>9. SumFunctionOnSet(Delta, old \cup new)
        = SumFunctionOnSet(Delta, old) + SumFunctionOnSet(Delta, new)
  BY <1>1, <1>2, <1>3, <1>6, SumUnion
<1> QED BY <1>2, <1>7, <1>8, <1>9

(* A reversal moves the opposite of its original.                          *)
LEMMA ReversalMoves ==
    ASSUME NEW o \in Entry, NEW on \in Periods, NEW st
    PROVE  Moves(Reversal(o, on), st) = - Moves(o.draft, st)
<1> DEFINE d == o.draft
           f == Reversal(o, on)
           S == RowsOf(d, NoEntry, st)
           R == RowsOf(f, NoEntry, st)
           e == [r \in S |-> [je |-> NoEntry, line |-> r.line, student |-> r.student,
                              delta |-> - r.delta]]
           Turned == [r \in S |-> - r.delta]
<1>0. d \in Draft /\ f \in Draft
  BY ReversalType DEF Entry
<1>1. /\ S \subseteq WalletRow /\ IsFiniteSet(S)
      /\ SumFunctionOnSet(Delta, S) = Moves(d, st)
      /\ SumFunctionOnSet(Delta, R) = Moves(f, st)
      /\ Moves(d, st) \in Int /\ Moves(f, st) \in Int
  <2> HIDE DEF d, f
  <2> QED BY <1>0, MovesOf
<1>2. /\ DOMAIN f.lines = DOMAIN d.lines
      /\ \A k \in DOMAIN d.lines : /\ f.lines[k].account = d.lines[k].account
                                   /\ f.lines[k].student = d.lines[k].student
                                   /\ f.lines[k].dr = d.lines[k].cr
                                   /\ f.lines[k].cr = d.lines[k].dr
  BY DEF Reversal, L!Flip
<1>3. \A k \in DOMAIN d.lines : d.lines[k].dr \in Int /\ d.lines[k].cr \in Int
  <2>1. d.lines \in Seq(Line)
    BY <1>0 DEF Draft
  <2>2. \A k \in DOMAIN d.lines : d.lines[k] \in Line
    BY <2>1
  <2> QED BY <2>2 DEF Line
<1>4. WalletLines(f) = WalletLines(d) /\ WalletLines(d) \subseteq DOMAIN d.lines
  BY <1>2 DEF WalletLines
<1> DEFINE Row(x, k) == [je |-> NoEntry, line |-> k, student |-> x.lines[k].student,
                         delta |-> x.lines[k].cr - x.lines[k].dr]
<1>5. /\ S = {r \in {Row(d, k) : k \in WalletLines(d)} : r.student = st}
      /\ R = {r \in {Row(f, k) : k \in WalletLines(d)} : r.student = st}
  BY <1>4 DEF RowsOf, ApplyLines
<1>6. \A k \in WalletLines(d) :
         /\ Row(f, k).student = Row(d, k).student
         /\ Row(d, k) \in S => Row(f, k) = e[Row(d, k)]
  BY <1>2, <1>3, <1>4
<1>7. R = {e[r] : r \in S}
  <2> HIDE DEF Row, d, f, e
  <2>1. ASSUME NEW r \in R PROVE r \in {e[x] : x \in S}
    <3>1. PICK k \in WalletLines(d) : r = Row(f, k) /\ r.student = st
      BY <1>5, <2>1
    <3>2. Row(d, k) \in S
      BY <1>5, <1>6, <3>1
    <3> QED BY <1>6, <3>1, <3>2
  <2>2. ASSUME NEW x \in S PROVE e[x] \in R
    <3>1. PICK k \in WalletLines(d) : x = Row(d, k) /\ x.student = st
      BY <1>5, <2>2
    <3> QED BY <1>5, <1>6, <2>2, <3>1
  <2> QED BY <2>1, <2>2
<1>8. \A r \in S : r.je = NoEntry /\ r.delta \in Int /\ Delta[r] = r.delta
  <2>1. \A r \in S : r \in WalletRow /\ r.je = NoEntry
    BY <1>1 DEF RowsOf, ApplyLines
  <2> QED BY <2>1 DEF Delta, WalletRow
<1>9. \A x, y \in S : e[x] = e[y] => x = y
  <2>1. \A r \in S : r \in WalletRow
    BY <1>1
  <2> HIDE DEF S
  <2> QED BY <1>8, <2>1 DEF WalletRow
<1>10. \A r \in S : Turned[r] \in Int /\ Delta[e[r]] = Turned[r] /\ Turned[r] = - Delta[r]
  <2>1. \A r \in S : r \in WalletRow
    BY <1>1
  <2> HIDE DEF S
  <2> QED BY <1>8, <2>1 DEF Delta, WalletRow
<1>11. e \in [S -> R]
  BY <1>7
<1> HIDE DEF S, R, e, Turned, d, f
<1>12. SumFunctionOnSet(Turned, S) = SumFunctionOnSet(Delta, R)
  BY <1>1, <1>7, <1>9, <1>10, <1>11, SumRenamed
<1>13. SumFunctionOnSet(Turned, S) = - SumFunctionOnSet(Delta, S)
  BY <1>1, <1>8, <1>10, SumNegated
<1> QED BY <1>1, <1>12, <1>13 DEF d, f

-----------------------------------------------------------------------------
(* The most that a draft takes.                                            *)

(* A finite set of integers has a largest one.                             *)
LEMMA LargestIn ==
    ASSUME NEW T \in SUBSET Int, IsFiniteSet(T), T # {}
    PROVE  Max(T) \in T /\ \A y \in T : Max(T) >= y
<1> DEFINE Good == {R \in SUBSET T : R = {} \/ \E x \in R : \A y \in R : x >= y}
<1>1. {} \in Good
  OBVIOUS
<1>2. ASSUME NEW R \in Good, NEW x \in T \ R PROVE R \cup {x} \in Good
  <2>1. CASE R = {}
    BY <2>1
  <2>2. ASSUME NEW z \in R, \A y \in R : z >= y PROVE R \cup {x} \in Good
    <3>1. CASE x >= z
      <4>1. \A y \in R \cup {x} : x >= y
        BY <2>2, <3>1
      <4> QED BY <4>1
    <3>2. CASE ~ (x >= z)
      <4>1. \A y \in R \cup {x} : z >= y
        BY <2>2, <3>2
      <4> QED BY <4>1
    <3> QED BY <3>1, <3>2
  <2> QED BY <2>1, <2>2
<1>3. T \in Good
  <2> HIDE DEF Good
  <2> QED BY <1>1, <1>2, GrowingSets
<1>4. \E x \in T : \A y \in T : x >= y
  BY <1>3
<1> QED BY <1>4 DEF Max

(* MostTaken is what it says.                                              *)
LEMMA MostTakenBounds ==
    ASSUME Finite
    PROVE  MostTaken \in Nat /\ \A d \in Drafts : Within(d)
<1> DEFINE pairs == Drafts \X Students
           move == [x \in pairs |-> Moves(x[1], x[2])]
           moves == {Moves(d, st) : d \in Drafts, st \in Students}
           minus == [m \in moves |-> - m]
           T == ({0} \cup moves) \cup {- m : m \in moves}
<1>1. \A d \in Drafts, st \in Students : Moves(d, st) \in Int
  BY DraftsAssumption, MovesOf
<1>2. IsFiniteSet(moves)
  <2>1. IsFiniteSet(pairs)
    BY FS_Product DEF Finite
  <2>2. \A d \in Drafts, st \in Students :
           <<d, st>> \in pairs /\ move[<<d, st>>] = Moves(d, st)
    OBVIOUS
  <2>3. \A x \in pairs : \E d \in Drafts, st \in Students : x = <<d, st>>
    OBVIOUS
  <2>4. moves \subseteq {move[x] : x \in pairs}
    <3> SUFFICES ASSUME NEW d \in Drafts, NEW st \in Students
                 PROVE  Moves(d, st) \in {move[x] : x \in pairs}
      OBVIOUS
    <3> HIDE DEF pairs, move
    <3> QED BY <2>2
  <2>5. {move[x] : x \in pairs} \subseteq moves
    <3> HIDE DEF pairs, move
    <3> QED BY <2>2, <2>3
  <2>6. moves = {move[x] : x \in pairs}
    BY <2>4, <2>5
  <2> HIDE DEF pairs, move, moves
  <2> QED BY <2>1, <2>6, ImageFinite
<1>3. IsFiniteSet({- m : m \in moves})
  <2> HIDE DEF moves
  <2>1. \A m \in moves : minus[m] = - m
    OBVIOUS
  <2> HIDE DEF minus
  <2>2. {- m : m \in moves} = {minus[m] : m \in moves}
    BY <2>1
  <2>3. IsFiniteSet({minus[m] : m \in moves})
    BY <1>2, ImageFinite
  <2> QED BY <2>2, <2>3
<1>4. IsFiniteSet(T)
  <2> HIDE DEF moves
  <2>1. IsFiniteSet({0})
    BY FS_Singleton
  <2>2. IsFiniteSet({0} \cup moves)
    BY <1>2, <2>1, FS_Union
  <2> QED BY <1>3, <2>2, FS_Union
<1>5. moves \subseteq Int
  BY <1>1
<1>6. T \subseteq Int /\ 0 \in T /\ \A m \in moves : m \in T /\ - m \in T
  <2> HIDE DEF moves
  <2>1. \A m \in moves : m \in Int /\ - m \in Int
    BY <1>5
  <2>2. \A m \in moves : m \in T /\ - m \in T
    OBVIOUS
  <2>3. \A y \in T : y = 0 \/ y \in moves \/ \E m \in moves : y = - m
    OBVIOUS
  <2>4. 0 \in T
    OBVIOUS
  <2> HIDE DEF T
  <2> QED BY <2>1, <2>2, <2>3, <2>4
<1>7. MostTaken = Max(T)
  BY DEF MostTaken
<1>8. \A d \in Drafts, st \in Students : Moves(d, st) \in moves
  OBVIOUS
<1> HIDE DEF T, moves
<1>9. MostTaken \in Int /\ \A y \in T : MostTaken >= y
  BY <1>4, <1>6, <1>7, LargestIn
<1>10. MostTaken \in Nat
  BY <1>6, <1>9
<1>11. \A d \in Drafts, st \in Students :
          - MostTaken <= Moves(d, st) /\ Moves(d, st) <= MostTaken
  <2> SUFFICES ASSUME NEW d \in Drafts, NEW st \in Students
               PROVE  - MostTaken <= Moves(d, st) /\ Moves(d, st) <= MostTaken
    OBVIOUS
  <2>1. Moves(d, st) \in Int /\ Moves(d, st) \in T /\ - Moves(d, st) \in T
    BY <1>1, <1>6, <1>8
  <2>2. MostTaken >= Moves(d, st) /\ MostTaken >= - Moves(d, st)
    BY <1>9, <2>1
  <2> QED BY <1>9, <2>1, <2>2
<1> QED BY <1>10, <1>11 DEF Within

-----------------------------------------------------------------------------
(* The invariant.                                                          *)

(* The wallet has rows of committed entries only.                          *)
LEMMA RowsOfBook ==
    ASSUME IInv, NEW r \in wallet
    PROVE  r.je # NoEntry /\ \E e \in entries : r.je = e.id
<1>1. PICK e \in entries : r \in ApplyLines(e.id, e.draft)
  BY ControlLinesOf DEF IInv, WalletMirrorsControl
<1>2. r.je = e.id
  BY <1>1 DEF ApplyLines
<1>3. e.id # NoEntry
  BY DEF IInv, TypeOK, Entry
<1> QED BY <1>2, <1>3

(* A promise is no more than the most that a draft takes.                  *)
LEMMA PromiseBounds ==
    ASSUME Finite, IInv, OverInv, NEW s \in Slots, NEW st \in Students
    PROVE  /\ Promise(s, st) \in Nat /\ Promise(s, st) <= MostTaken
           /\ pc[s] \in PostSteps => Moves(job[s].draft, st) \in Int
<1>1. MostTaken \in Nat
  BY MostTakenBounds
<1>2. ASSUME pc[s] \in PostSteps
      PROVE  Moves(job[s].draft, st) \in Int /\ - MostTaken <= Moves(job[s].draft, st)
  <2>1. job[s].draft \in Draft
    BY <1>2, JobOf DEF IInv
  <2>2. Moves(job[s].draft, st) \in Int
    BY <2>1, MovesOf
  <2> QED BY <1>2, <2>2 DEF OverInv, Within
<1>3. pc[s] = "commit" => pc[s] \in PostSteps
  BY DEF PostSteps
<1> QED BY <1>1, <1>2, <1>3 DEF Promise

(* Where every promise is within m, all but one of them are within that    *)
(* many m.                                                                 *)
LEMMA AllButOne ==
    ASSUME NEW f, NEW S, IsFiniteSet(S), NEW m \in Nat, NEW s \in S,
           \A t \in S : f[t] \in Int /\ f[t] <= m
    PROVE  /\ SumFunctionOnSet(f, S) = f[s] + SumFunctionOnSet(f, S \ {s})
           /\ SumFunctionOnSet(f, S \ {s}) \in Int
           /\ SumFunctionOnSet(f, S \ {s}) <= (Cardinality(S) - 1) * m
<1>1. IsFiniteSet(S \ {s}) /\ Cardinality(S \ {s}) = Cardinality(S) - 1
  BY FS_RemoveElement
<1>2. SumFunctionOnSet(f, S \ {s}) <= Cardinality(S \ {s}) * m
  BY <1>1, SumAtMost
<1>3. SumFunctionOnSet(f, S) = f[s] + SumFunctionOnSet(f, S \ {s})
  BY SumRemove
<1>4. SumFunctionOnSet(f, S \ {s}) \in Int
  BY <1>1, SumInt
<1> QED BY <1>1, <1>2, <1>3, <1>4

(* The sum of the promises to one student, as far as it is known.          *)
LEMMA PromisesSum ==
    ASSUME Finite, IInv, OverInv, NEW st \in Students
    PROVE  /\ \A t \in Slots : /\ Promises(st)[t] = Promise(t, st)
                               /\ Promises(st)[t] \in Int
                               /\ Promises(st)[t] <= MostTaken
           /\ SumFunctionOnSet(Promises(st), Slots) \in Int
<1>1. \A t \in Slots : /\ Promises(st)[t] = Promise(t, st)
                        /\ Promises(st)[t] \in Int /\ Promises(st)[t] <= MostTaken
  BY PromiseBounds DEF Promises
<1> QED BY <1>1, SumInt DEF Finite

(* Steps that leave the wallet alone and promise nothing more.             *)
LEMMA BoundedKept ==
    ASSUME Finite, IInv, OverInv, NEW st \in Students, UNCHANGED wallet,
           \A t \in Slots : Promise(t, st)' \in Int /\ Promise(t, st)' <= Promise(t, st)
    PROVE  Bounded(st)'
<1> DEFINE f == Promises(st)
           g == [t \in Slots |-> Promise(t, st)']
<1>1. Promises(st)' = g
  BY DEF Promises
<1>2. \A t \in Slots : f[t] \in Int /\ g[t] \in Int /\ g[t] <= f[t]
  BY PromisesSum
<1>3. Bounded(st)
  BY DEF OverInv
<1>4. Balance(wallet, st) \in Int
  <2>1. {r \in wallet : r.student = st} \subseteq WalletRow
        /\ IsFiniteSet({r \in wallet : r.student = st})
    BY FS_Subset DEF IInv, TypeOK, OverInv
  <2> QED BY <2>1, DeltaSum DEF Balance
<1>5. SumFunctionOnSet(g, Slots) <= SumFunctionOnSet(f, Slots)
  <2> HIDE DEF f, g
  <2> QED BY <1>2, SumBelow DEF Finite
<1>6. SumFunctionOnSet(g, Slots) \in Int /\ SumFunctionOnSet(f, Slots) \in Int
  <2> HIDE DEF f, g
  <2> QED BY <1>2, SumInt DEF Finite
<1>7. (Cardinality(Slots) - 1) * MostTaken \in Int
  BY MostTakenBounds, FS_CardinalityType DEF Finite
<1>8. Balance(wallet, st)' = Balance(wallet, st)
  OBVIOUS
<1> DEFINE most == (Cardinality(Slots) - 1) * MostTaken
<1>9. Balance(wallet, st) - SumFunctionOnSet(f, Slots) >= - most
  BY <1>3 DEF Bounded
<1> HIDE DEF f, g, most
<1>10. Balance(wallet, st) - SumFunctionOnSet(g, Slots) >= - most
  BY <1>4, <1>5, <1>6, <1>7, <1>9 DEF most
<1> QED BY <1>1, <1>8, <1>10 DEF Bounded, most

-----------------------------------------------------------------------------
(* The steps.                                                              *)

(* Only the trigger lets a transaction go on to its commit.                *)
LEMMA ToCommit ==
    ASSUME TypeOK, NEW s \in Slots, Request(s) \/ Step(s) \/ Crash(s), pc'[s] = "commit"
    PROVE  /\ pc[s] = "trigger" /\ UNCHANGED <<job, wallet, entries>>
           /\ Covered(wallet, job[s].draft)
<1>1. pc \in [Slots -> {"idle"} \cup PostSteps \cup PeriodSteps]
  BY DEF TypeOK
<1>2. ~ Request(s)
  BY <1>1 DEF Request, StartPost, StartReverse, StartPeriodOp, Goto
<1>3. ~ End(s)
  BY <1>1 DEF End
<1>4. ~ CheckPeriod(s) /\ ~ CheckKeys(s) /\ ~ CheckWallet(s)
  BY <1>1 DEF CheckPeriod, CheckKeys, CheckWallet, Check, Goto
<1>5. ~ Insert(s)
  BY <1>1, <1>3 DEF Insert, InsertWhen, Goto
<1>6. ~ CheckStatus(s) /\ ~ ReadControl(s) /\ ~ ReadSubLedger(s) /\ ~ Snapshot(s)
  BY <1>1, <1>3 DEF CheckStatus, ReadControl, ReadSubLedger, Snapshot, Goto
<1>7. ~ Crash(s) /\ ~ Fail(s) /\ ~ Commit(s) /\ ~ ApplyStatus(s)
  BY <1>3 DEF Crash, Fail, Commit, ApplyStatus
<1>8. Trigger(s)
  BY <1>2, <1>4, <1>5, <1>6, <1>7 DEF Step
<1> QED BY <1>3, <1>8 DEF Trigger, Goto, tables

(* A posting keeps its draft; a new one has a draft of a caller, or a      *)
(* reversal of an entry of the book.                                       *)
LEMMA DraftKept ==
    ASSUME TypeOK, NEW s \in Slots, Request(s) \/ Step(s) \/ Crash(s),
           pc'[s] \in PostSteps
    PROVE  \/ pc[s] \in PostSteps /\ job'[s].draft = job[s].draft
           \/ job'[s].draft \in Drafts
           \/ \E o \in entries, on \in Periods : job'[s].draft = Reversal(o, on)
<1>1. /\ pc \in [Slots -> {"idle"} \cup PostSteps \cup PeriodSteps]
      /\ job \in [Slots -> Job]
  BY DEF TypeOK
<1>2. ~ End(s)
  BY <1>1 DEF End, PostSteps
<1>3. CASE Request(s)
  <2>1. ASSUME NEW d \in Drafts, StartPost(s, d) PROVE job'[s].draft = d
    BY <1>1, <2>1 DEF StartPost, PostJob
  <2>2. ASSUME NEW o \in entries, NEW on \in Periods, StartReverse(s, o, on)
        PROVE  job'[s].draft = Reversal(o, on)
    BY <1>1, <2>2 DEF StartReverse, PostJob
  <2>3. ASSUME NEW op \in PeriodOps, NEW p \in Periods, StartPeriodOp(s, op, p) PROVE FALSE
    BY <1>1, <2>3 DEF StartPeriodOp, Goto, PostSteps
  <2> QED BY <1>3, <2>1, <2>2, <2>3 DEF Request
<1>4. CASE CheckPeriod(s) \/ CheckKeys(s) \/ CheckWallet(s)
  BY <1>1, <1>4 DEF CheckPeriod, CheckKeys, CheckWallet, Check, Goto, PostSteps
<1>5. CASE Insert(s)
  BY <1>1, <1>2, <1>5 DEF Insert, InsertWhen, PostJob, PostSteps
<1>6. CASE Trigger(s)
  BY <1>1, <1>2, <1>6 DEF Trigger, Goto, PostSteps
<1>7. CASE CheckStatus(s) \/ ReadControl(s) \/ ReadSubLedger(s) \/ Snapshot(s)
  BY <1>1, <1>2, <1>7 DEF CheckStatus, ReadControl, ReadSubLedger, Snapshot, Goto, PostSteps
<1> QED BY <1>2, <1>3, <1>4, <1>5, <1>6, <1>7
        DEF Step, Crash, Fail, Commit, ApplyStatus

(* A draft that takes money of a student has a wallet line of that student.*)
LEMMA TakesBySomeLine ==
    ASSUME NEW d \in Draft, NEW st, Moves(d, st) # 0
    PROVE  \E k \in WalletLines(d) : d.lines[k].student = st
<1> SUFFICES ASSUME \A k \in WalletLines(d) : d.lines[k].student # st PROVE Moves(d, st) = 0
  OBVIOUS
<1>1. RowsOf(d, NoEntry, st) = {}
  BY DEF RowsOf, ApplyLines
<1>2. Moves(d, st) = SumFunctionOnSet(Delta, RowsOf(d, NoEntry, st))
  BY MovesOf
<1> QED BY <1>1, <1>2, SumEmpty

(* Past the trigger: the wallet has what this transaction takes, and the   *)
(* others have promised no more than one draft each.                       *)
LEMMA TriggerBounded ==
    ASSUME Finite, IInv, OverInv, NEW st \in Students, NEW s \in Slots,
           pc[s] = "trigger", pc'[s] = "commit", UNCHANGED <<job, wallet>>,
           \A t \in Slots \ {s} : pc'[t] = pc[t], Covered(wallet, job[s].draft)
    PROVE  Bounded(st)'
<1> DEFINE d == job[s].draft
           m == Moves(d, st)
           g == [t \in Slots |-> Promise(t, st)']
<1>1. d \in Draft /\ pc[s] \in PostSteps
  BY JobOf DEF IInv, PostSteps
<1>2. m \in Int /\ - MostTaken <= m
  BY <1>1, MovesOf DEF OverInv, Within
<1>3. \A t \in Slots \ {s} : Promise(t, st)' = Promise(t, st)
  BY DEF Promise
<1>4. Promise(s, st)' = IF m < 0 THEN - m ELSE 0
  BY DEF Promise
<1>5. CASE ~ (m < 0)
  <2>1. \A t \in Slots : Promise(t, st)' \in Int /\ Promise(t, st)' <= Promise(t, st)
    <3>1. Promise(s, st)' = 0 /\ Promise(s, st) \in Nat
      BY <1>4, <1>5, PromiseBounds
    <3> QED BY <1>3, <3>1, PromiseBounds
  <2> QED BY <2>1, BoundedKept
<1>6. CASE m < 0
  <2>1. PICK k \in WalletLines(d) : d.lines[k].student = st
    BY <1>1, <1>2, <1>6, TakesBySomeLine
  <2>2. Balance(wallet \cup ApplyLines(NoEntry, d), st) >= 0
    BY <2>1 DEF Covered
  <2>3. /\ Balance(wallet \cup ApplyLines(NoEntry, d), st) = Balance(wallet, st) + m
        /\ Balance(wallet, st) \in Int
    <3>1. wallet \subseteq WalletRow /\ IsFiniteSet(wallet) /\ \A r \in wallet : r.je # NoEntry
      BY RowsOfBook DEF IInv, TypeOK, OverInv
    <3> QED BY <1>1, <3>1, BalanceAdds
  <2>4. MostTaken \in Nat
    BY MostTakenBounds
  <2>5. \A t \in Slots : g[t] \in Int /\ g[t] <= MostTaken
    <3>1. g[s] = - m /\ - m \in Int /\ - m <= MostTaken
      BY <1>2, <1>4, <1>6, <2>4
    <3>2. \A t \in Slots \ {s} : g[t] = Promise(t, st)
      BY <1>3
    <3> HIDE DEF g, m
    <3> QED BY <3>1, <3>2, <2>4, PromiseBounds
  <2>6. g[s] = - m
    BY <1>4, <1>6
  <2> DEFINE rest == SumFunctionOnSet(g, Slots \ {s})
             most == (Cardinality(Slots) - 1) * MostTaken
  <2>7. SumFunctionOnSet(g, Slots) = - m + rest /\ rest \in Int /\ rest <= most
    <3>1. IsFiniteSet(Slots)
      BY DEF Finite
    <3> HIDE DEF g, m
    <3>2. /\ SumFunctionOnSet(g, Slots) = g[s] + SumFunctionOnSet(g, Slots \ {s})
          /\ SumFunctionOnSet(g, Slots \ {s}) \in Int
          /\ SumFunctionOnSet(g, Slots \ {s}) <= (Cardinality(Slots) - 1) * MostTaken
      BY <2>4, <2>5, <3>1, AllButOne
    <3> QED BY <2>6, <3>2
  <2>8. most \in Int
    BY <2>4, FS_CardinalityType DEF Finite
  <2>9. Promises(st)' = g /\ Balance(wallet, st)' = Balance(wallet, st)
    BY DEF Promises
  <2> HIDE DEF g, m, most, rest
  <2>10. Balance(wallet, st) - SumFunctionOnSet(g, Slots) >= - most
    BY <1>2, <2>2, <2>3, <2>7, <2>8
  <2> QED BY <2>9, <2>10 DEF Bounded, most
<1> QED BY <1>5, <1>6

(* The commit takes what was promised, and the promise is gone.            *)
LEMMA CommitBounded ==
    ASSUME Finite, IInv, OverInv, NEW st \in Students, NEW s \in Slots, Commit(s)
    PROVE  Bounded(st)'
<1> DEFINE d == job[s].draft
           i == job[s].id
           m == Moves(d, st)
           f == Promises(st)
           g == [t \in Slots |-> Promise(t, st)']
           rest == SumFunctionOnSet(f, Slots \ {s})
           most == (Cardinality(Slots) - 1) * MostTaken
<1>1. /\ pc[s] = "commit" /\ wallet' = wallet \cup ApplyLines(i, d)
      /\ d \in Draft /\ i \in Nat /\ \A e \in entries : e.id # i
  BY CommitFinds DEF Commit
<1>2. /\ pc'[s] = "idle" /\ \A t \in Slots \ {s} : pc'[t] = pc[t] /\ job'[t] = job[t]
  BY DEF Commit, End, IInv, TypeOK
<1>3. /\ Balance(wallet, st)' = Balance(wallet, st) + m /\ Balance(wallet, st) \in Int
  <2>1. /\ wallet \subseteq WalletRow /\ IsFiniteSet(wallet)
        /\ \A r \in wallet : r.je # i
    BY <1>1, RowsOfBook DEF IInv, TypeOK, OverInv
  <2>2. /\ Balance(wallet \cup ApplyLines(i, d), st) = Balance(wallet, st) + m
        /\ Balance(wallet, st) \in Int
    BY <1>1, <2>1, BalanceAdds
  <2>3. Balance(wallet, st)' = Balance(wallet \cup ApplyLines(i, d), st)
    BY <1>1
  <2> QED BY <2>2, <2>3
<1>4. m \in Int
  BY <1>1, MovesOf
<1>5. f[s] \in Int /\ f[s] + m >= 0
  <2>1. f[s] = IF m < 0 THEN - m ELSE 0
    BY <1>1 DEF Promises, Promise
  <2> HIDE DEF f, m
  <2> QED BY <1>4, <2>1
<1>6. \A t \in Slots : f[t] \in Int /\ f[t] <= MostTaken
  BY PromisesSum
<1>7. g[s] = 0 /\ \A t \in Slots \ {s} : g[t] = f[t]
  BY <1>2 DEF Promise, Promises
<1>8. SumFunctionOnSet(f, Slots) = f[s] + rest /\ rest \in Int
  <2>1. IsFiniteSet(Slots) /\ MostTaken \in Nat
    BY MostTakenBounds DEF Finite
  <2> HIDE DEF f
  <2>2. \A t \in Slots : f[t] \in Int /\ f[t] <= MostTaken
    BY <1>6
  <2> HIDE DEF m, d, i, g, most
  <2>3. /\ SumFunctionOnSet(f, Slots) = f[s] + SumFunctionOnSet(f, Slots \ {s})
        /\ SumFunctionOnSet(f, Slots \ {s}) \in Int
        /\ SumFunctionOnSet(f, Slots \ {s}) <= (Cardinality(Slots) - 1) * MostTaken
    BY <2>1, <2>2, AllButOne
  <2> QED BY <2>3
<1>9. SumFunctionOnSet(g, Slots) = rest
  <2>1. IsFiniteSet(Slots \ {s}) /\ IsFiniteSet(Slots)
    BY FS_RemoveElement DEF Finite
  <2> HIDE DEF f, g
  <2>2. \A t \in Slots : g[t] \in Int
    BY <1>6, <1>7
  <2>3. SumFunctionOnSet(g, Slots) = g[s] + SumFunctionOnSet(g, Slots \ {s})
    BY <2>1, <2>2, SumRemove
  <2>4. SumFunctionOnSet(g, Slots \ {s}) = rest
    BY <1>7, <2>1, SumEqual
  <2> QED BY <1>7, <1>8, <2>3, <2>4
<1>10. Balance(wallet, st) - SumFunctionOnSet(f, Slots) >= - most
  BY DEF OverInv, Bounded
<1>11. most \in Int
  BY MostTakenBounds, FS_CardinalityType DEF Finite
<1>12. Promises(st)' = g
  BY DEF Promises
<1> HIDE DEF f, g, m, most, rest
<1>13. Balance(wallet, st)' - SumFunctionOnSet(g, Slots) >= - most
  BY <1>3, <1>4, <1>5, <1>8, <1>9, <1>10, <1>11
<1> QED BY <1>12, <1>13 DEF Bounded, most

(* What a connection does keeps the bound.                                 *)
LEMMA MoveBounded ==
    ASSUME Finite, IInv, OverInv, NEW st \in Students,
           NEW s \in Slots, Request(s) \/ Step(s) \/ Crash(s)
    PROVE  Bounded(st)'
<1>1. \A t \in Slots \ {s} : pc'[t] = pc[t] /\ job'[t] = job[t]
  BY OthersStand DEF IInv
<1>2. CASE Commit(s)
  BY <1>2, CommitBounded
<1>3. CASE pc'[s] = "commit"
  <2>1. /\ pc[s] = "trigger" /\ UNCHANGED <<job, wallet>>
        /\ Covered(wallet, job[s].draft)
    BY <1>3, ToCommit DEF IInv
  <2> QED BY <1>1, <1>3, <2>1, TriggerBounded
<1>4. CASE ~ Commit(s) /\ pc'[s] # "commit"
  <2>1. UNCHANGED wallet
    BY <1>4 DEF Request, StartPost, StartReverse, StartPeriodOp, Crash, Step,
                CheckPeriod, CheckKeys, CheckWallet, Check, Fail, Insert, InsertWhen, Trigger,
                CheckStatus, ReadControl, ReadSubLedger, Snapshot, ApplyStatus, tables
  <2>2. Promise(s, st)' = 0 /\ \A t \in Slots \ {s} : Promise(t, st)' = Promise(t, st)
    BY <1>1, <1>4 DEF Promise
  <2>3. \A t \in Slots : Promise(t, st)' \in Int /\ Promise(t, st)' <= Promise(t, st)
    BY <2>2, PromiseBounds
  <2> QED BY <2>1, <2>3, BoundedKept
<1> QED BY <1>2, <1>3, <1>4

(* Reversals take no more than what they reverse.                          *)
LEMMA ReversalWithin ==
    ASSUME Finite, NEW o \in Entry, NEW on \in Periods, Within(o.draft)
    PROVE  Within(Reversal(o, on))
<1> SUFFICES ASSUME NEW st \in Students
             PROVE  - MostTaken <= Moves(Reversal(o, on), st)
                    /\ Moves(Reversal(o, on), st) <= MostTaken
  BY DEF Within
<1>1. Moves(o.draft, st) \in Int
  BY MovesOf DEF Entry
<1>2. Moves(Reversal(o, on), st) = - Moves(o.draft, st)
  BY ReversalMoves
<1>3. MostTaken \in Nat /\ - MostTaken <= Moves(o.draft, st) /\ Moves(o.draft, st) <= MostTaken
  BY MostTakenBounds DEF Within
<1> QED BY <1>1, <1>2, <1>3

(* The other parts of the invariant.                                       *)
LEMMA DraftsWithin ==
    ASSUME Finite, IInv, OverInv, NEW s \in Slots, Request(s) \/ Step(s) \/ Crash(s)
    PROVE  /\ IsFiniteSet(wallet')
           /\ \A e \in entries' : Within(e.draft)
           /\ \A t \in Slots : pc'[t] \in PostSteps => Within(job'[t].draft)
<1>1. \A t \in Slots \ {s} : pc'[t] = pc[t] /\ job'[t] = job[t]
  BY OthersStand DEF IInv
<1>2. pc'[s] \in PostSteps => Within(job'[s].draft)
  <2> SUFFICES ASSUME pc'[s] \in PostSteps PROVE Within(job'[s].draft)
    OBVIOUS
  <2>1. CASE pc[s] \in PostSteps /\ job'[s].draft = job[s].draft
    BY <2>1 DEF OverInv
  <2>2. CASE job'[s].draft \in Drafts
    BY <2>2, MostTakenBounds
  <2>3. ASSUME NEW o \in entries, NEW on \in Periods, job'[s].draft = Reversal(o, on)
        PROVE  Within(job'[s].draft)
    BY <2>3, ReversalWithin DEF IInv, TypeOK, OverInv
  <2> QED BY <2>1, <2>2, <2>3, DraftKept DEF IInv
<1>3. CASE Commit(s)
  <2> DEFINE d == job[s].draft
             i == job[s].id
  <2>1. d \in Draft /\ i \in Nat /\ pc[s] \in PostSteps /\ wallet' = wallet \cup ApplyLines(i, d)
    BY <1>3, CommitFinds DEF Commit, PostSteps
  <2>2. IsFiniteSet(wallet')
    BY <2>1, RowsFinite, FS_Union DEF OverInv
  <2>3. \A e \in entries' : e.draft = d \/ \E o \in entries : e.draft = o.draft
    BY <1>3 DEF Commit, MarkReversed, L!Marked
  <2>4. \A e \in entries' : Within(e.draft)
    BY <2>1, <2>3 DEF OverInv
  <2> QED BY <1>1, <1>2, <2>2, <2>4 DEF OverInv
<1>4. CASE ~ Commit(s)
  <2>1. UNCHANGED <<wallet, entries>>
    BY <1>4 DEF Request, StartPost, StartReverse, StartPeriodOp, Crash, Step,
                CheckPeriod, CheckKeys, CheckWallet, Check, Fail, Insert, InsertWhen, Trigger,
                CheckStatus, ReadControl, ReadSubLedger, Snapshot, ApplyStatus, tables
  <2> QED BY <1>1, <1>2, <2>1 DEF OverInv
<1> QED BY <1>3, <1>4

(* It starts with nothing in the wallet and nothing promised.              *)
LEMMA OverInit == Finite /\ Init => OverInv
<1> SUFFICES ASSUME Finite, Init PROVE OverInv
  OBVIOUS
<1>1. wallet = {} /\ entries = {} /\ \A s \in Slots : pc[s] = "idle"
  BY DEF Init
<1>2. ASSUME NEW st \in Students PROVE Bounded(st)
  <2>1. Balance(wallet, st) = 0
    <3>1. {r \in wallet : r.student = st} = {}
      BY <1>1
    <3>2. Sum({}) = 0
      BY DeltaSum, SumEmpty, FS_EmptySet
    <3> QED BY <3>1, <3>2 DEF Balance
  <2>2. SumFunctionOnSet(Promises(st), Slots) = 0
    <3>1. \A s \in Slots : Promises(st)[s] = 0
      BY <1>1 DEF Promises, Promise
    <3> QED BY <3>1, SumZero DEF Finite
  <2>3. MostTaken \in Nat /\ Cardinality(Slots) - 1 \in Nat
    BY MostTakenBounds, FS_EmptySet, FS_CardinalityType DEF Finite
  <2>4. (Cardinality(Slots) - 1) * MostTaken >= 0
    <3> DEFINE n == Cardinality(Slots) - 1
    <3> HIDE DEF n
    <3>1. n \in Nat => n * MostTaken >= 0
      BY <2>3
    <3> QED BY <2>3, <3>1 DEF n
  <2>5. (Cardinality(Slots) - 1) * MostTaken \in Int
    BY <2>3
  <2> QED BY <2>1, <2>2, <2>4, <2>5 DEF Bounded
<1>3. IsFiniteSet(wallet)
  BY <1>1, FS_EmptySet
<1> QED BY <1>1, <1>2, <1>3 DEF OverInv, PostSteps

(* Every step keeps it.                                                    *)
LEMMA OverStep == Finite /\ IInv /\ OverInv /\ [Next]_vars => OverInv'
<1> SUFFICES ASSUME Finite, IInv, OverInv, [Next]_vars PROVE OverInv'
  OBVIOUS
<1>1. ASSUME NEW s \in Slots, Request(s) \/ Step(s) \/ Crash(s) PROVE OverInv'
  <2>1. \A st \in Students : Bounded(st)'
    BY <1>1, MoveBounded
  <2> QED BY <1>1, <2>1, DraftsWithin DEF OverInv
<1>2. CASE UNCHANGED <<entries, wallet, pc, job>>
  BY <1>2 DEF OverInv, Bounded, Promises, Promise
<1> QED BY <1>1, <1>2 DEF Next, EnsurePeriod, SetActive, vars

(* Postings that overlap, reversals among them, take a student wallet at   *)
(* most as far below zero as one draft does for each connection beyond the *)
(* first, whatever fails, crashes or is retried meanwhile: the trigger     *)
(* looks at what is committed, and only what is past it can be overlooked. *)
THEOREM Overdrawn ==
    ASSUME Finite
    PROVE  Spec => []OverdraftBounded
<1>1. IInv /\ OverInv /\ [Next]_vars => OverInv'
  BY OverStep
<1>2. Init => OverInv
  BY OverInit
<1>3. IInv /\ OverInv => OverdraftBounded
  <2> SUFFICES ASSUME IInv, OverInv, NEW st \in Students
               PROVE  Balance(wallet, st) >= - (Cardinality(Slots) - 1) * MostTaken
    BY DEF OverdraftBounded
  <2> DEFINE f == Promises(st)
             zero == [s \in Slots |-> 0]
             most == (Cardinality(Slots) - 1) * MostTaken
  <2>1. Balance(wallet, st) \in Int
    <3>1. {r \in wallet : r.student = st} \subseteq WalletRow
          /\ IsFiniteSet({r \in wallet : r.student = st})
      BY FS_Subset DEF IInv, TypeOK, OverInv
    <3> QED BY <3>1, DeltaSum DEF Balance
  <2>2. SumFunctionOnSet(f, Slots) \in Int
    BY PromisesSum
  <2>3. SumFunctionOnSet(f, Slots) >= 0
    <3>1. \A s \in Slots : zero[s] \in Int /\ f[s] \in Int /\ zero[s] <= f[s] /\ zero[s] = 0
      BY PromiseBounds DEF Promises
    <3> HIDE DEF zero, f
    <3>2. SumFunctionOnSet(zero, Slots) = 0
      BY <3>1, SumZero DEF Finite
    <3>3. SumFunctionOnSet(zero, Slots) <= SumFunctionOnSet(f, Slots)
      BY <3>1, SumBelow DEF Finite
    <3> QED BY <2>2, <3>2, <3>3
  <2>4. most \in Int
    BY MostTakenBounds, FS_CardinalityType DEF Finite
  <2>5. Balance(wallet, st) - SumFunctionOnSet(f, Slots) >= - most
    BY DEF OverInv, Bounded
  <2> HIDE DEF f, most
  <2>6. Balance(wallet, st) >= - most
    BY <2>1, <2>2, <2>3, <2>4, <2>5
  <2> QED BY <2>6 DEF most
<1> QED BY <1>1, <1>2, <1>3, Inductive, PTL DEF Spec
=============================================================================
