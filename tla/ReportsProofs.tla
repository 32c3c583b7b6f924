--------------------------- MODULE ReportsProofs ---------------------------
(***************************************************************************)
(* Proofs about Reports, for every chart, every set of journals and every  *)
(* number of entries.                                                      *)
(*                                                                         *)
(* Every figure of a statement is a sum over the lines of the entries that *)
(* it counts.  Such a sum is written here as Total(w, E, S): what the      *)
(* lines S of the entries E weigh.  It is additive in the lines and in the *)
(* entries, and the statements are compared by cutting one and the same    *)
(* total into the sections of one and into those of the other.             *)
(***************************************************************************)
EXTENDS Reports, Sums

USE ReportsAssumption

-----------------------------------------------------------------------------
(* Totals.                                                                 *)

Worth == [l \in Line |-> l.dr - l.cr]
Debit == [l \in Line |-> l.dr]
Credit == [l \in Line |-> l.cr]

Part(w, e, S) == SumFunctionOnSet(w, e.lines \cap S)
Parts(w, E, S) == [e \in E |-> Part(w, e, S)]
Total(w, E, S) == SumFunctionOnSet(Parts(w, E, S), E)

Weight(w) == \A l \in Line : w[l] \in Int

(* Finitely many entries, of finitely many lines each.                     *)
Entries(E) ==
    /\ IsFiniteSet(E)
    /\ \A e \in E : IsFiniteSet(e.lines) /\ e.lines \subseteq Line

LEMMA Weights == Weight(Worth) /\ Weight(Debit) /\ Weight(Credit)
BY DEF Weight, Worth, Debit, Credit, Line

(* The lines of an entry that a total takes.                               *)
LEMMA PartInt ==
    ASSUME NEW w, Weight(w), NEW e, IsFiniteSet(e.lines), e.lines \subseteq Line, NEW S
    PROVE  /\ IsFiniteSet(e.lines \cap S)
           /\ \A l \in e.lines \cap S : w[l] \in Int
           /\ Part(w, e, S) \in Int
<1>1. IsFiniteSet(e.lines \cap S)
  BY FS_Subset
<1>2. \A l \in e.lines \cap S : w[l] \in Int
  BY DEF Weight
<1>3. SumFunctionOnSet(w, e.lines \cap S) \in Int
  BY <1>1, <1>2, SumInt
<1> QED BY <1>1, <1>2, <1>3 DEF Part

LEMMA TotalInt ==
    ASSUME NEW w, Weight(w), NEW E, Entries(E), NEW S
    PROVE  /\ \A e \in E : Parts(w, E, S)[e] = Part(w, e, S) /\ Part(w, e, S) \in Int
           /\ Total(w, E, S) \in Int
<1>1. \A e \in E : Parts(w, E, S)[e] = Part(w, e, S) /\ Part(w, e, S) \in Int
  BY PartInt DEF Parts, Entries
<1>2. IsFiniteSet(E)
  BY DEF Entries
<1>3. SumFunctionOnSet(Parts(w, E, S), E) \in Int
  BY <1>1, <1>2, SumInt
<1> QED BY <1>1, <1>3 DEF Total

(* Lines of two kinds.                                                     *)
LEMMA TotalLines ==
    ASSUME NEW w, Weight(w), NEW E, Entries(E), NEW S, NEW R, S \cap R = {}
    PROVE  Total(w, E, S \cup R) = Total(w, E, S) + Total(w, E, R)
<1>1. ASSUME NEW e \in E
      PROVE  Part(w, e, S \cup R) = Part(w, e, S) + Part(w, e, R)
  <2> DEFINE A == e.lines \cap S
             B == e.lines \cap R
  <2>1. IsFiniteSet(e.lines) /\ e.lines \subseteq Line
    BY DEF Entries
  <2>2. /\ IsFiniteSet(A) /\ IsFiniteSet(B)
        /\ \A l \in A \cup B : w[l] \in Int
    BY <2>1, PartInt
  <2>3. A \cap B = {} /\ e.lines \cap (S \cup R) = A \cup B
    OBVIOUS
  <2>4. SumFunctionOnSet(w, A \cup B) = SumFunctionOnSet(w, A) + SumFunctionOnSet(w, B)
    <3> HIDE DEF A, B
    <3> QED BY <2>2, <2>3, SumUnion
  <2> QED BY <2>3, <2>4 DEF Part
<1>2. /\ \A e \in E : Parts(w, E, S)[e] = Part(w, e, S) /\ Part(w, e, S) \in Int
      /\ \A e \in E : Parts(w, E, R)[e] = Part(w, e, R) /\ Part(w, e, R) \in Int
      /\ \A e \in E : Parts(w, E, S \cup R)[e] = Part(w, e, S \cup R)
  BY TotalInt
<1>3. IsFiniteSet(E)
  BY DEF Entries
<1> DEFINE f == Parts(w, E, S)
           g == Parts(w, E, R)
           h == Parts(w, E, S \cup R)
<1>4. \A e \in E : f[e] \in Int /\ g[e] \in Int /\ h[e] = f[e] + g[e]
  BY <1>1, <1>2
<1> HIDE DEF f, g, h
<1>5. SumFunctionOnSet(h, E) = SumFunctionOnSet(f, E) + SumFunctionOnSet(g, E)
  BY <1>3, <1>4, SumPlus
<1> QED BY <1>5 DEF f, g, h, Total

(* Some of the entries and the others.                                     *)
LEMMA TotalEntries ==
    ASSUME NEW w, Weight(w), NEW E, Entries(E), NEW D, Entries(D), E \cap D = {}, NEW S
    PROVE  Entries(E \cup D) /\ Total(w, E \cup D, S) = Total(w, E, S) + Total(w, D, S)
<1>1. IsFiniteSet(E) /\ IsFiniteSet(D) /\ IsFiniteSet(E \cup D)
  BY FS_Union DEF Entries
<1>2. Entries(E \cup D)
  BY <1>1 DEF Entries
<1> DEFINE f == Parts(w, E \cup D, S)
           g == Parts(w, E, S)
           h == Parts(w, D, S)
<1>3. /\ \A e \in E \cup D : f[e] \in Int
      /\ \A e \in E : f[e] = g[e]
      /\ \A e \in D : f[e] = h[e]
  <2>1. \A e \in E \cup D : f[e] = Part(w, e, S) /\ f[e] \in Int
    BY <1>2, TotalInt
  <2>2. \A e \in E : g[e] = Part(w, e, S)
    BY TotalInt
  <2>3. \A e \in D : h[e] = Part(w, e, S)
    BY TotalInt
  <2> HIDE DEF f, g, h
  <2> QED BY <2>1, <2>2, <2>3
<1> HIDE DEF f, g, h
<1>4. SumFunctionOnSet(f, E \cup D) = SumFunctionOnSet(f, E) + SumFunctionOnSet(f, D)
  BY <1>1, <1>3, SumUnion
<1>5. SumFunctionOnSet(f, E) = SumFunctionOnSet(g, E)
  BY <1>1, <1>3, SumEqual
<1>6. SumFunctionOnSet(f, D) = SumFunctionOnSet(h, D)
  BY <1>1, <1>3, SumEqual
<1> QED BY <1>2, <1>4, <1>5, <1>6 DEF f, g, h, Total

(* Month by month.                                                         *)
LEMMA TotalByMonth ==
    ASSUME NEW w, Weight(w), NEW E, Entries(E), NEW Q, IsFiniteSet(Q), NEW S,
           \A e \in E : e.month \in Q
    PROVE  Total(w, E, S) = SumFunctionOnSet([q \in Q |-> Total(w, Of(E, q), S)], Q)
<1> DEFINE month == [e \in E |-> e.month]
           f == Parts(w, E, S)
           Class(q) == {e \in E : month[e] = q}
           by == [q \in Q |-> SumFunctionOnSet(f, Class(q))]
           of == [q \in Q |-> Total(w, Of(E, q), S)]
<1>1. IsFiniteSet(E)
  BY DEF Entries
<1>2. \A e \in E : f[e] \in Int /\ month[e] \in Q
  BY TotalInt
<1>3. SumFunctionOnSet(f, E) = SumFunctionOnSet(by, Q)
  <2> HIDE DEF f, month
  <2> QED BY ONLY <1>1, <1>2, IsFiniteSet(Q), SumByKey DEF by, Class
<1>4. ASSUME NEW q \in Q PROVE by[q] = of[q]
  <2>1. Class(q) = Of(E, q)
    BY DEF Of
  <2>2. Entries(Of(E, q)) /\ Of(E, q) \subseteq E /\ IsFiniteSet(Of(E, q))
    BY FS_Subset DEF Of, Entries
  <2> DEFINE g == Parts(w, Of(E, q), S)
  <2>3. \A e \in Of(E, q) : f[e] = g[e]
    BY <2>2, TotalInt
  <2> HIDE DEF f, g, Class
  <2>4. SumFunctionOnSet(f, Of(E, q)) = SumFunctionOnSet(g, Of(E, q))
    BY <2>2, <2>3, SumEqual
  <2> QED BY <2>1, <2>4 DEF g, Total
<1> HIDE DEF f, by, of
<1>5. SumFunctionOnSet(by, Q) = SumFunctionOnSet(of, Q)
  BY <1>4, SumEqual
<1> QED BY <1>3, <1>5 DEF f, of, Total

(* Kind by kind, for any key of the lines.                                 *)
LEMMA TotalByKey ==
    ASSUME NEW w, Weight(w), NEW E, Entries(E), NEW S, NEW key, NEW K, IsFiniteSet(K),
           \A e \in E : \A l \in e.lines \cap S : key[l] \in K
    PROVE  Total(w, E, S) =
             SumFunctionOnSet([k \in K |-> Total(w, E, {l \in S : key[l] = k})], K)
<1> DEFINE Kind(k) == {l \in S : key[l] = k}
           F == [k \in K |-> Parts(w, E, Kind(k))]
           columns == [e \in E |-> SumFunctionOnSet([k \in K |-> F[k][e]], K)]
           rows == [k \in K |-> SumFunctionOnSet(F[k], E)]
           f == Parts(w, E, S)
<1>1. IsFiniteSet(E)
  BY DEF Entries
<1>2. \A k \in K : \A e \in E : F[k][e] = Part(w, e, Kind(k)) /\ F[k][e] \in Int
  <2> HIDE DEF Kind
  <2> QED BY TotalInt
<1>3. ASSUME NEW e \in E PROVE f[e] = columns[e]
  <2> DEFINE L == e.lines \cap S
             Class(k) == {l \in L : key[l] = k}
             by == [k \in K |-> SumFunctionOnSet(w, Class(k))]
             column == [k \in K |-> F[k][e]]
  <2>1. IsFiniteSet(e.lines) /\ e.lines \subseteq Line
    BY DEF Entries
  <2>2. IsFiniteSet(L) /\ (\A l \in L : w[l] \in Int)
    BY <2>1, PartInt
  <2>3. \A l \in L : w[l] \in Int /\ key[l] \in K
    BY <2>2
  <2>4. SumFunctionOnSet(w, L) = SumFunctionOnSet(by, K)
    <3> HIDE DEF L
    <3> QED BY <2>2, <2>3, SumByKey
  <2>5. ASSUME NEW k \in K PROVE by[k] = column[k]
    <3>1. Class(k) = e.lines \cap Kind(k)
      OBVIOUS
    <3>2. column[k] = Part(w, e, Kind(k))
      BY <1>2
    <3>3. by[k] = SumFunctionOnSet(w, Class(k))
      OBVIOUS
    <3> HIDE DEF by, column, Class, Kind
    <3> QED BY <3>1, <3>2, <3>3 DEF Part
  <2>6. f[e] = SumFunctionOnSet(w, L)
    <3>1. f[e] = Part(w, e, S)
      BY TotalInt
    <3> QED BY <3>1 DEF Part
  <2>7. columns[e] = SumFunctionOnSet(column, K)
    OBVIOUS
  <2> HIDE DEF f, by, column, columns, L
  <2>8. SumFunctionOnSet(by, K) = SumFunctionOnSet(column, K)
    BY <2>5, SumEqual
  <2> QED BY <2>4, <2>6, <2>7, <2>8
<1>4. SumFunctionOnSet(rows, K) = SumFunctionOnSet(columns, E)
  <2>1. \A k \in K : \A e \in E : F[k][e] \in Int
    BY <1>2
  <2> HIDE DEF F
  <2> QED BY ONLY <1>1, <2>1, IsFiniteSet(K), SumSwap DEF rows, columns
<1>5. SumFunctionOnSet(f, E) = SumFunctionOnSet(columns, E)
  <2> HIDE DEF f, columns
  <2> QED BY <1>1, <1>3, SumEqual
<1>6. rows = [k \in K |-> Total(w, E, Kind(k))]
  BY DEF Total
<1> HIDE DEF rows, columns, f
<1>7. Total(w, E, S) = SumFunctionOnSet(rows, K)
  BY <1>4, <1>5 DEF f, Total
<1> QED BY <1>6, <1>7

(* Debits less credits.                                                    *)
LEMMA TotalWorth ==
    ASSUME NEW E, Entries(E), NEW S
    PROVE  Total(Worth, E, S) = Total(Debit, E, S) - Total(Credit, E, S)
<1>1. ASSUME NEW e \in E
      PROVE  Part(Debit, e, S) = Part(Worth, e, S) + Part(Credit, e, S)
  <2> DEFINE L == e.lines \cap S
  <2>1. IsFiniteSet(e.lines) /\ e.lines \subseteq Line
    BY DEF Entries
  <2>2. IsFiniteSet(L) /\ L \subseteq Line
    BY <2>1, FS_Subset
  <2>3. \A l \in L : Worth[l] \in Int /\ Credit[l] \in Int /\ Debit[l] = Worth[l] + Credit[l]
    BY <2>2 DEF Worth, Debit, Credit, Line
  <2>4. SumFunctionOnSet(Debit, L) = SumFunctionOnSet(Worth, L) + SumFunctionOnSet(Credit, L)
    <3> HIDE DEF L
    <3> QED BY <2>2, <2>3, SumPlus
  <2> QED BY <2>4 DEF Part
<1> DEFINE f == Parts(Worth, E, S)
           g == Parts(Credit, E, S)
           h == Parts(Debit, E, S)
<1>2. \A e \in E : f[e] \in Int /\ g[e] \in Int /\ h[e] = f[e] + g[e]
  BY <1>1, Weights, TotalInt
<1>3. IsFiniteSet(E)
  BY DEF Entries
<1> HIDE DEF f, g, h
<1>4. SumFunctionOnSet(h, E) = SumFunctionOnSet(f, E) + SumFunctionOnSet(g, E)
  BY <1>2, <1>3, SumPlus
<1>5. SumFunctionOnSet(f, E) \in Int /\ SumFunctionOnSet(g, E) \in Int
  BY <1>2, <1>3, SumInt
<1> QED BY <1>4, <1>5 DEF f, g, h, Total

-----------------------------------------------------------------------------
(* The sums of the code, as totals.                                        *)

(* The lines of one entry.                                                 *)
LEMMA DebitSum ==
    ASSUME NEW L, IsFiniteSet(L), L \subseteq Line
    PROVE  LineSum(L, LAMBDA l : l.dr) = SumFunctionOnSet(Debit, L)
<1> DEFINE Eq(g) == g = [T \in SUBSET L |->
                           IF T = {} THEN 0 ELSE (Pick(T).dr) + g[T \ {Pick(T)}]]
           h == CHOOSE g : Eq(g)
<1>1. LineSum(L, LAMBDA l : l.dr) = h[L]
  BY DEF MapThenSumSet, MapThenFoldSet, Pick, LineSum
<1>2. \A T \in SUBSET L : T # {} => Debit[Pick(T)] = Pick(T).dr
  BY PickIn DEF Debit
<1>3. \A g : Eq(g) <=> IsFold(g, Debit, L)
  BY <1>2 DEF IsFold
<1>4. IsFiniteSet(L)
  OBVIOUS
<1>5. IsFold(h, Debit, L)
  BY <1>3, <1>4, FoldExists
<1> HIDE DEF h
<1> QED BY <1>1, <1>4, <1>5, SumIsFold
LEMMA CreditSum ==
    ASSUME NEW L, IsFiniteSet(L), L \subseteq Line
    PROVE  LineSum(L, LAMBDA l : l.cr) = SumFunctionOnSet(Credit, L)
<1> DEFINE Eq(g) == g = [T \in SUBSET L |->
                           IF T = {} THEN 0 ELSE (Pick(T).cr) + g[T \ {Pick(T)}]]
           h == CHOOSE g : Eq(g)
<1>1. LineSum(L, LAMBDA l : l.cr) = h[L]
  BY DEF MapThenSumSet, MapThenFoldSet, Pick, LineSum
<1>2. \A T \in SUBSET L : T # {} => Credit[Pick(T)] = Pick(T).cr
  BY PickIn DEF Credit
<1>3. \A g : Eq(g) <=> IsFold(g, Credit, L)
  BY <1>2 DEF IsFold
<1>4. IsFiniteSet(L)
  OBVIOUS
<1>5. IsFold(h, Credit, L)
  BY <1>3, <1>4, FoldExists
<1> HIDE DEF h
<1> QED BY <1>1, <1>4, <1>5, SumIsFold
LEMMA WorthSum ==
    ASSUME NEW L, IsFiniteSet(L), L \subseteq Line
    PROVE  LineSum(L, LAMBDA l : l.dr - l.cr) = SumFunctionOnSet(Worth, L)
<1> DEFINE Eq(g) == g = [T \in SUBSET L |->
                           IF T = {} THEN 0 ELSE (Pick(T).dr - Pick(T).cr) + g[T \ {Pick(T)}]]
           h == CHOOSE g : Eq(g)
<1>1. LineSum(L, LAMBDA l : l.dr - l.cr) = h[L]
  BY DEF MapThenSumSet, MapThenFoldSet, Pick, LineSum
<1>2. \A T \in SUBSET L : T # {} => Worth[Pick(T)] = Pick(T).dr - Pick(T).cr
  BY PickIn DEF Worth
<1>3. \A g : Eq(g) <=> IsFold(g, Worth, L)
  BY <1>2 DEF IsFold
<1>4. IsFiniteSet(L)
  OBVIOUS
<1>5. IsFold(h, Worth, L)
  BY <1>3, <1>4, FoldExists
<1> HIDE DEF h
<1> QED BY <1>1, <1>4, <1>5, SumIsFold

OnAccounts(A) == {l \in Line : l.account \in A}
OfEnrollment(n) ==
    {l \in Line : l.of = n /\ l.account \in RevenueCodes \cup DirectCodes}

(* The lines on some accounts.                                             *)
LEMMA NetTotal ==
    ASSUME NEW E, Entries(E), NEW A
    PROVE  Net(E, A) = Total(Worth, E, OnAccounts(A))
<1> DEFINE f == Parts(Worth, E, OnAccounts(A))
           Eq(g) == g = [T \in SUBSET E |->
                           IF T = {} THEN 0
                           ELSE LineSum({l \in Pick(T).lines : l.account \in A}, LAMBDA l : l.dr - l.cr)
                                  + g[T \ {Pick(T)}]]
           h == CHOOSE g : Eq(g)
<1>1. Net(E, A) = h[E]
  BY DEF MapThenSumSet, MapThenFoldSet, Pick, Net, NetOf
<1>2. ASSUME NEW e \in E
      PROVE  f[e] = LineSum({l \in e.lines : l.account \in A}, LAMBDA l : l.dr - l.cr)
  <2> DEFINE L == {l \in e.lines : l.account \in A}
  <2>1. IsFiniteSet(L) /\ L \subseteq Line
    BY FS_Subset DEF Entries
  <2>2. e.lines \cap OnAccounts(A) = L
    BY DEF Entries, OnAccounts
  <2>3. f[e] = SumFunctionOnSet(Worth, L)
    BY <2>2 DEF Parts, Part
  <2>4. LineSum(L, LAMBDA l : l.dr - l.cr) = SumFunctionOnSet(Worth, L)
    <3> HIDE DEF L
    <3> QED BY <2>1, WorthSum
  <2> QED BY <2>3, <2>4
<1>3. \A T \in SUBSET E : T # {} => Pick(T) \in E
  BY PickIn
<1>4. \A g : Eq(g) <=> IsFold(g, f, E)
  <2> HIDE DEF f
  <2> QED BY <1>2, <1>3 DEF IsFold
<1>5. IsFiniteSet(E)
  BY DEF Entries
<1>6. IsFold(h, f, E)
  BY <1>4, <1>5, FoldExists
<1> HIDE DEF h, f
<1>7. h[E] = SumFunctionOnSet(f, E)
  BY <1>5, <1>6, SumIsFold
<1> QED BY <1>1, <1>7 DEF f, Total

(* The lines of an enrollment.                                            *)
LEMMA MarginTotal ==
    ASSUME NEW E, Entries(E), NEW n
    PROVE  Margin(E, n) = - Total(Worth, E, OfEnrollment(n))
<1> DEFINE f == Parts(Worth, E, OfEnrollment(n))
           Eq(g) == g = [T \in SUBSET E |->
                           IF T = {} THEN 0
                           ELSE LineSum({l \in Pick(T).lines : l.of = n /\ l.account \in RevenueCodes \cup DirectCodes}, LAMBDA l : l.dr - l.cr)
                                  + g[T \ {Pick(T)}]]
           h == CHOOSE g : Eq(g)
<1>1. Margin(E, n) = - h[E]
  BY DEF MapThenSumSet, MapThenFoldSet, Pick, Margin, NetOf
<1>2. ASSUME NEW e \in E
      PROVE  f[e] = LineSum({l \in e.lines : l.of = n /\ l.account \in RevenueCodes \cup DirectCodes}, LAMBDA l : l.dr - l.cr)
  <2> DEFINE L == {l \in e.lines : l.of = n /\ l.account \in RevenueCodes \cup DirectCodes}
  <2>1. IsFiniteSet(L) /\ L \subseteq Line
    BY FS_Subset DEF Entries
  <2>2. e.lines \cap OfEnrollment(n) = L
    BY DEF Entries, OfEnrollment
  <2>3. f[e] = SumFunctionOnSet(Worth, L)
    BY <2>2 DEF Parts, Part
  <2>4. LineSum(L, LAMBDA l : l.dr - l.cr) = SumFunctionOnSet(Worth, L)
    <3> HIDE DEF L
    <3> QED BY <2>1, WorthSum
  <2> QED BY <2>3, <2>4
<1>3. \A T \in SUBSET E : T # {} => Pick(T) \in E
  BY PickIn
<1>4. \A g : Eq(g) <=> IsFold(g, f, E)
  <2> HIDE DEF f
  <2> QED BY <1>2, <1>3 DEF IsFold
<1>5. IsFiniteSet(E)
  BY DEF Entries
<1>6. IsFold(h, f, E)
  BY <1>4, <1>5, FoldExists
<1> HIDE DEF h, f
<1>7. h[E] = SumFunctionOnSet(f, E)
  BY <1>5, <1>6, SumIsFold
<1> QED BY <1>1, <1>7 DEF f, Total

(* What the trial balance shows of an account.                            *)
LEMMA DebitTotal ==
    ASSUME NEW E, Entries(E), NEW a \in Accounts
    PROVE  TrialBalance(E)[a].debit = Total(Debit, E, OnAccounts({a}))
<1> DEFINE f == Parts(Debit, E, OnAccounts({a}))
           Eq(g) == g = [T \in SUBSET E |->
                           IF T = {} THEN 0
                           ELSE LineSum({l \in Pick(T).lines : l.account = a}, LAMBDA l : l.dr)
                                  + g[T \ {Pick(T)}]]
           h == CHOOSE g : Eq(g)
<1>1. TrialBalance(E)[a].debit = h[E]
  BY DEF MapThenSumSet, MapThenFoldSet, Pick, TrialBalance
<1>2. ASSUME NEW e \in E
      PROVE  f[e] = LineSum({l \in e.lines : l.account = a}, LAMBDA l : l.dr)
  <2> DEFINE L == {l \in e.lines : l.account = a}
  <2>1. IsFiniteSet(L) /\ L \subseteq Line
    BY FS_Subset DEF Entries
  <2>2. e.lines \cap OnAccounts({a}) = L
    BY DEF Entries, OnAccounts
  <2>3. f[e] = SumFunctionOnSet(Debit, L)
    BY <2>2 DEF Parts, Part
  <2>4. LineSum(L, LAMBDA l : l.dr) = SumFunctionOnSet(Debit, L)
    <3> HIDE DEF L
    <3> QED BY <2>1, DebitSum
  <2> QED BY <2>3, <2>4
<1>3. \A T \in SUBSET E : T # {} => Pick(T) \in E
  BY PickIn
<1>4. \A g : Eq(g) <=> IsFold(g, f, E)
  <2> HIDE DEF f
  <2> QED BY <1>2, <1>3 DEF IsFold
<1>5. IsFiniteSet(E)
  BY DEF Entries
<1>6. IsFold(h, f, E)
  BY <1>4, <1>5, FoldExists
<1> HIDE DEF h, f
<1>7. h[E] = SumFunctionOnSet(f, E)
  BY <1>5, <1>6, SumIsFold
<1> QED BY <1>1, <1>7 DEF f, Total

LEMMA CreditTotal ==
    ASSUME NEW E, Entries(E), NEW a \in Accounts
    PROVE  TrialBalance(E)[a].credit = Total(Credit, E, OnAccounts({a}))
<1> DEFINE f == Parts(Credit, E, OnAccounts({a}))
           Eq(g) == g = [T \in SUBSET E |->
                           IF T = {} THEN 0
                           ELSE LineSum({l \in Pick(T).lines : l.account = a}, LAMBDA l : l.cr)
                                  + g[T \ {Pick(T)}]]
           h == CHOOSE g : Eq(g)
<1>1. TrialBalance(E)[a].credit = h[E]
  BY DEF MapThenSumSet, MapThenFoldSet, Pick, TrialBalance
<1>2. ASSUME NEW e \in E
      PROVE  f[e] = LineSum({l \in e.lines : l.account = a}, LAMBDA l : l.cr)
  <2> DEFINE L == {l \in e.lines : l.account = a}
  <2>1. IsFiniteSet(L) /\ L \subseteq Line
    BY FS_Subset DEF Entries
  <2>2. e.lines \cap OnAccounts({a}) = L
    BY DEF Entries, OnAccounts
  <2>3. f[e] = SumFunctionOnSet(Credit, L)
    BY <2>2 DEF Parts, Part
  <2>4. LineSum(L, LAMBDA l : l.cr) = SumFunctionOnSet(Credit, L)
    <3> HIDE DEF L
    <3> QED BY <2>1, CreditSum
  <2> QED BY <2>3, <2>4
<1>3. \A T \in SUBSET E : T # {} => Pick(T) \in E
  BY PickIn
<1>4. \A g : Eq(g) <=> IsFold(g, f, E)
  <2> HIDE DEF f
  <2> QED BY <1>2, <1>3 DEF IsFold
<1>5. IsFiniteSet(E)
  BY DEF Entries
<1>6. IsFold(h, f, E)
  BY <1>4, <1>5, FoldExists
<1> HIDE DEF h, f
<1>7. h[E] = SumFunctionOnSet(f, E)
  BY <1>5, <1>6, SumIsFold
<1> QED BY <1>1, <1>7 DEF f, Total

-----------------------------------------------------------------------------
(* What every reachable book is.                                           *)

(* Finitely many entries, each balanced, and finitely many budgets.        *)
Kept ==
    /\ IsFiniteSet(book) /\ book \subseteq Entry
    /\ \A e \in book : IsFiniteSet(e.lines) /\ Accepted(e.lines)
    /\ IsFiniteSet(budget)
    /\ budget \subseteq [month : Months, account : Accounts, amount : Nat]

(* The lines of a reversal balance as those of its original do.            *)
LEMMA SwappedAccepted ==
    ASSUME NEW L, IsFiniteSet(L), L \subseteq Line, Accepted(L)
    PROVE  IsFiniteSet(Swapped(L)) /\ Swapped(L) \subseteq Line /\ Accepted(Swapped(L))
<1> DEFINE swap == [l \in L |-> [account |-> l.account, of |-> l.of, dr |-> l.cr, cr |-> l.dr]]
<1>1. Swapped(L) = {swap[l] : l \in L}
  BY DEF Swapped
<1>2. \A l \in L : /\ swap[l] \in Line
                   /\ swap[l].dr = l.cr /\ swap[l].cr = l.dr
                   /\ swap[l].account = l.account /\ swap[l].of = l.of
  BY DEF Line
<1>3. \A l, m \in L : swap[l] = swap[m] => l = m
  <2> SUFFICES ASSUME NEW l \in L, NEW m \in L, swap[l] = swap[m] PROVE l = m
    OBVIOUS
  <2>1. l.account = m.account /\ l.of = m.of /\ l.dr = m.dr /\ l.cr = m.cr
    BY <1>2
  <2>2. l \in Line /\ m \in Line
    OBVIOUS
  <2> QED BY <2>1, <2>2 DEF Line
<1>4. swap \in [L -> Line]
  BY <1>2
<1> HIDE DEF swap
<1>5. IsFiniteSet(Swapped(L)) /\ Swapped(L) \subseteq Line
  BY <1>1, <1>2, ImageFinite
<1>6. ASSUME NEW f, NEW g, \A l \in L : f[l] \in Int /\ g[swap[l]] = f[l]
      PROVE  SumFunctionOnSet(f, L) = SumFunctionOnSet(g, {swap[l] : l \in L})
  BY ONLY <1>3, <1>4, <1>6, IsFiniteSet(L), SumRenamed
<1>7. SumFunctionOnSet(Debit, L) = SumFunctionOnSet(Credit, {swap[l] : l \in L})
  <2>1. \A l \in L : Debit[l] \in Int /\ Credit[swap[l]] = Debit[l]
    BY <1>2 DEF Debit, Credit, Line
  <2> QED BY ONLY <1>6, <2>1
<1>8. SumFunctionOnSet(Credit, L) = SumFunctionOnSet(Debit, {swap[l] : l \in L})
  <2>1. \A l \in L : Credit[l] \in Int /\ Debit[swap[l]] = Credit[l]
    BY <1>2 DEF Debit, Credit, Line
  <2> QED BY ONLY <1>6, <2>1
<1>9. /\ LineSum(L, LAMBDA l : l.dr) = SumFunctionOnSet(Debit, L)
      /\ LineSum(L, LAMBDA l : l.cr) = SumFunctionOnSet(Credit, L)
  BY DebitSum, CreditSum
<1>10. /\ LineSum(Swapped(L), LAMBDA l : l.dr) = SumFunctionOnSet(Debit, Swapped(L))
       /\ LineSum(Swapped(L), LAMBDA l : l.cr) = SumFunctionOnSet(Credit, Swapped(L))
  BY <1>5, DebitSum, CreditSum
<1>11. LineSum(L, LAMBDA l : l.dr) = LineSum(L, LAMBDA l : l.cr)
  BY DEF Accepted
<1>12. LineSum(Swapped(L), LAMBDA l : l.dr) = LineSum(Swapped(L), LAMBDA l : l.cr)
  BY <1>1, <1>7, <1>8, <1>9, <1>10, <1>11
<1>13. \A l \in Swapped(L) : Chart[l.account].postable
  BY <1>1, <1>2 DEF Accepted
<1> QED BY <1>5, <1>12, <1>13 DEF Accepted

(* A posting adds one entry.                                               *)
LEMMA AddKept ==
    ASSUME Kept, NEW E, IsFiniteSet(E), E \subseteq Entry,
           \A e \in E : IsFiniteSet(e.lines) /\ Accepted(e.lines),
           NEW L \in SUBSET Line, IsFiniteSet(L), Accepted(L), NEW p \in Months,
           book' = Add(E, L, p), UNCHANGED budget
    PROVE  Kept'
<1> DEFINE e == [id |-> Cardinality(book) + 1, month |-> p, lines |-> L, status |-> "POSTED"]
<1>1. Cardinality(book) \in Nat
  BY FS_CardinalityType DEF Kept
<1>2. e \in Entry /\ e.lines = L
  BY <1>1 DEF Entry
<1>3. book' = E \cup {e}
  BY DEF Add
<1> HIDE DEF e
<1>4. IsFiniteSet(book') /\ book' \subseteq Entry
  BY <1>2, <1>3, FS_AddElement
<1>5. \A x \in book' : IsFiniteSet(x.lines) /\ Accepted(x.lines)
  BY <1>2, <1>3
<1> QED BY <1>4, <1>5 DEF Kept

LEMMA ReverseKept ==
    ASSUME Kept, NEW e \in book, NEW p \in Months, Reverse(e, p)
    PROVE  Kept'
<1> DEFINE m == [e EXCEPT !.status = "REVERSED"]
           E == (book \ {e}) \cup {m}
<1>1. e \in Entry /\ IsFiniteSet(e.lines) /\ Accepted(e.lines) /\ e.lines \subseteq Line
  BY DEF Kept, Entry
<1>2. m \in Entry /\ m.lines = e.lines
  BY <1>1 DEF Entry
<1>3. /\ IsFiniteSet(Swapped(e.lines)) /\ Swapped(e.lines) \in SUBSET Line
      /\ Accepted(Swapped(e.lines))
  BY <1>1, SwappedAccepted
<1>4. book' = Add(E, Swapped(e.lines), p) /\ UNCHANGED budget
  BY DEF Reverse
<1> HIDE DEF m
<1>5. IsFiniteSet(E) /\ E \subseteq Entry
  <2>1. IsFiniteSet(book \ {e}) /\ book \ {e} \subseteq Entry
    BY FS_Subset DEF Kept
  <2> QED BY <1>2, <2>1, FS_AddElement
<1>6. \A x \in E : IsFiniteSet(x.lines) /\ Accepted(x.lines)
  BY <1>1, <1>2 DEF Kept
<1> HIDE DEF E
<1> QED BY <1>3, <1>4, <1>5, <1>6, AddKept

LEMMA BookKept == Spec => []Kept
<1>1. Init => Kept
  BY FS_EmptySet DEF Init, Kept
<1>2. ASSUME Kept, [Next]_vars PROVE Kept'
  <2>1. CASE UNCHANGED vars
    BY <1>2, <2>1 DEF vars, Kept
  <2>2. ASSUME NEW j \in Journals, NEW p \in Months, Post(j, p) PROVE Kept'
    <3>1. book' = Add(book, j, p) /\ UNCHANGED budget
      BY <2>2 DEF Post
    <3>2. j \in SUBSET Line /\ IsFiniteSet(j) /\ Accepted(j)
      OBVIOUS
    <3>3. /\ IsFiniteSet(book) /\ book \subseteq Entry
          /\ \A e \in book : IsFiniteSet(e.lines) /\ Accepted(e.lines)
      BY <1>2 DEF Kept
    <3> QED BY <1>2, <3>1, <3>2, <3>3, AddKept
  <2>3. ASSUME NEW e \in book, NEW p \in Months, Reverse(e, p) PROVE Kept'
    BY <1>2, <2>3, ReverseKept
  <2>4. ASSUME NEW p \in Months, NEW a \in Budgeted, NEW amount \in Budgets, SetBudget(p, a, amount)
        PROVE  Kept'
    <3> DEFINE b == [month |-> p, account |-> a, amount |-> amount]
               kept == {x \in budget : ~ (x.month = p /\ x.account = a)}
    <3>1. budget' = kept \cup {b} /\ UNCHANGED book
      BY <2>4 DEF SetBudget
    <3>2. IsFiniteSet(kept) /\ kept \subseteq budget
      BY <1>2, FS_Subset DEF Kept
    <3>3. b \in [month : Months, account : Accounts, amount : Nat]
      OBVIOUS
    <3> HIDE DEF b, kept
    <3>4. IsFiniteSet(budget')
      BY <3>1, <3>2, FS_AddElement
    <3> QED BY <1>2, <3>1, <3>2, <3>3, <3>4 DEF Kept
  <2> QED BY <1>2, <2>1, <2>2, <2>3, <2>4 DEF Next
<1> QED BY <1>1, <1>2, PTL DEF Spec

-----------------------------------------------------------------------------
(* Debits less credits on some accounts.                                   *)

LEMMA NetInt ==
    ASSUME NEW E, Entries(E), NEW A
    PROVE  Net(E, A) \in Int
BY Weights, NetTotal, TotalInt

(* What is not on the chart counts nothing.                                *)
LEMMA NetSame ==
    ASSUME NEW E, Entries(E), NEW A, NEW B, A \cap Accounts = B \cap Accounts
    PROVE  Net(E, A) = Net(E, B)
<1>1. OnAccounts(A) = OnAccounts(B)
  BY DEF OnAccounts, Line
<1> QED BY <1>1, NetTotal

LEMMA NetSplit ==
    ASSUME NEW E, Entries(E), NEW A, NEW B, A \cap B \cap Accounts = {}
    PROVE  Net(E, A \cup B) = Net(E, A) + Net(E, B)
<1>1. OnAccounts(A) \cap OnAccounts(B) = {}
  BY DEF OnAccounts, Line
<1>2. OnAccounts(A \cup B) = OnAccounts(A) \cup OnAccounts(B)
  BY DEF OnAccounts
<1>3. Total(Worth, E, OnAccounts(A) \cup OnAccounts(B))
        = Total(Worth, E, OnAccounts(A)) + Total(Worth, E, OnAccounts(B))
  BY <1>1, Weights, TotalLines
<1> QED BY <1>2, <1>3, NetTotal

(* A set of accounts cut in two.                                           *)
LEMMA NetCut ==
    ASSUME NEW E, Entries(E), NEW C, NEW A, NEW B,
           A \cap B \cap Accounts = {}, C \cap Accounts = (A \cup B) \cap Accounts
    PROVE  Net(E, C) = Net(E, A) + Net(E, B)
<1>1. Net(E, C) = Net(E, A \cup B)
  BY NetSame
<1> QED BY <1>1, NetSplit

(* Over all accounts debits equal credits.                                 *)
LEMMA NetNothing ==
    ASSUME NEW E, Entries(E), \A e \in E : Accepted(e.lines)
    PROVE  Net(E, Accounts) = 0
<1> DEFINE S == OnAccounts(Accounts)
<1>1. \A e \in E : IsFiniteSet(e.lines) /\ e.lines \subseteq Line /\ e.lines \cap S = e.lines
  BY DEF Entries, OnAccounts, Line
<1>2. ASSUME NEW e \in E PROVE Parts(Debit, E, S)[e] = Parts(Credit, E, S)[e]
  <2>1. /\ LineSum(e.lines, LAMBDA l : l.dr) = SumFunctionOnSet(Debit, e.lines)
        /\ LineSum(e.lines, LAMBDA l : l.cr) = SumFunctionOnSet(Credit, e.lines)
    BY <1>1, DebitSum, CreditSum
  <2>2. LineSum(e.lines, LAMBDA l : l.dr) = LineSum(e.lines, LAMBDA l : l.cr)
    BY DEF Accepted
  <2>3. SumFunctionOnSet(Debit, e.lines \cap S) = SumFunctionOnSet(Credit, e.lines \cap S)
    <3> HIDE DEF S
    <3> QED BY <1>1, <2>1, <2>2
  <2> QED BY <2>3 DEF Parts, Part
<1> HIDE DEF S
<1>3. IsFiniteSet(E)
  BY DEF Entries
<1>4. Total(Debit, E, S) = Total(Credit, E, S)
  <2> DEFINE f == Parts(Debit, E, S)
             g == Parts(Credit, E, S)
  <2>1. \A e \in E : f[e] = g[e]
    BY <1>2
  <2> HIDE DEF f, g
  <2>2. SumFunctionOnSet(f, E) = SumFunctionOnSet(g, E)
    BY <1>3, <2>1, SumEqual
  <2> QED BY <2>2 DEF f, g, Total
<1>5. Total(Debit, E, S) \in Int
  BY Weights, TotalInt
<1>6. Total(Worth, E, S) = 0
  BY <1>4, <1>5, TotalWorth
<1> QED BY <1>6, NetTotal DEF S

-----------------------------------------------------------------------------
(* The sections of the statements.                                         *)

(* What the chart and the seeded codes say of the sets that are summed.    *)
LEMMA Ranges ==
    /\ Typed("revenue") \cap Accounts = (Ranged({4}) \cup {"7030"}) \cap Accounts
    /\ \A a \in Accounts : Chart[a].range \in {1, 2, 3, 4, 5, 6, 7, 9}
    /\ \A a \in Accounts : Chart[a].type = "revenue" => Chart[a].range \in {4, 7}
    /\ \A a \in Accounts : Chart[a].range = 4 => Chart[a].type = "revenue"
<1>1. \A a \in Accounts : Chart[a].range \in 1 .. 9 /\ Chart[a].type \in TypesOf(Chart[a].range)
  BY DEF ValidChart, Account
<1>2. /\ \A n \in 1 .. 9 : "revenue" \in TypesOf(n) => n \in {4, 7}
      /\ TypesOf(4) = {"revenue"} /\ TypesOf(8) = {}
  BY DEF TypesOf
<1>3. \A a \in Accounts : /\ Chart[a].range \in {1, 2, 3, 4, 5, 6, 7, 9}
                          /\ Chart[a].type = "revenue" => Chart[a].range \in {4, 7}
                          /\ Chart[a].range = 4 => Chart[a].type = "revenue"
  BY <1>1, <1>2
<1>4. Typed("revenue") \cap Accounts = (Ranged({4}) \cup {"7030"}) \cap Accounts
  BY <1>3, SeededCodes DEF Typed, Ranged
<1> QED BY <1>3, <1>4

(* The balance sheet takes every account of the first three ranges, ...    *)
LEMMA SheetSections ==
    ASSUME NEW E, Entries(E)
    PROVE  LET b == BalanceSheet(E)
           IN  b.assets - b.liabilities - b.equity = Net(E, Ranged({1, 2, 3}))
<1> DEFINE A == On("BS") \cap (Typed("asset") \cup (Typed("contra") \cap Ranged({1})))
           L == On("BS") \cap Typed("liability")
           Q == On("BS") \cap Typed("equity")
           b == BalanceSheet(E)
<1>1. \A a \in Accounts : /\ Chart[a].range \in 1 .. 9
                          /\ Chart[a].type \in TypesOf(Chart[a].range)
                          /\ Chart[a].range \in 1 .. 3 <=> Chart[a].statement = "BS"
                          /\ Chart[a].memo <=> Chart[a].range = 9
                          /\ Chart[a].range = 2 => Chart[a].type = "liability"
  BY DEF ValidChart, Account
<1>2. TypesOf(1) = {"asset", "contra"} /\ TypesOf(3) = {"equity"}
  BY DEF TypesOf
<1>3. \A a \in Accounts : /\ a \in On("BS") <=> Chart[a].range \in {1, 2, 3}
                          /\ Chart[a].range = 1 => Chart[a].type \in {"asset", "contra"}
                          /\ Chart[a].range = 2 => Chart[a].type = "liability"
                          /\ Chart[a].range = 3 => Chart[a].type = "equity"
  BY <1>1, <1>2 DEF On
<1>4. A = Ranged({1}) /\ L = Ranged({2}) /\ Q = Ranged({3})
  BY <1>3 DEF On, Typed, Ranged
<1>5. b.assets = Net(E, Ranged({1})) /\ b.liabilities = - Net(E, Ranged({2}))
      /\ b.equity = - Net(E, Ranged({3}))
  BY <1>4 DEF BalanceSheet
<1>6. /\ Net(E, Ranged({1, 2})) = Net(E, Ranged({1})) + Net(E, Ranged({2}))
      /\ Net(E, Ranged({1, 2, 3})) = Net(E, Ranged({1, 2})) + Net(E, Ranged({3}))
  BY NetCut DEF Ranged
<1>7. /\ Net(E, Ranged({1})) \in Int /\ Net(E, Ranged({2})) \in Int
      /\ Net(E, Ranged({3})) \in Int
  BY NetInt
<1> HIDE DEF b
<1>8. b.assets - b.liabilities - b.equity = Net(E, Ranged({1, 2, 3}))
  BY <1>5, <1>6, <1>7
<1> QED BY <1>8 DEF b

(* ... profit and loss every one of the next four, section by section.     *)
LEMMA ProfitSections ==
    ASSUME NEW E, Entries(E)
    PROVE  /\ ProfitLoss(E).gross = - Net(E, Typed("revenue") \cup Ranged({5}))
           /\ ProfitLoss(E).operating = - Net(E, Typed("revenue") \cup Ranged({5, 6}))
           /\ ProfitLoss(E).net = - Net(E, Ranged({4, 5, 6, 7}))
<1> DEFINE income  == On("IS") \cap Typed("revenue")
           charges == On("IS") \ Typed("revenue")
           revenue == Typed("revenue")
           r == ProfitLoss(E)
<1>1. \A a \in Accounts : Chart[a].range \in {4, 5, 6, 7} => a \in On("IS")
  <2>1. \A a \in Accounts : /\ Chart[a].range \in 1 .. 9
                            /\ Chart[a].statement \in Statements
                            /\ Chart[a].range \in 1 .. 3 <=> Chart[a].statement = "BS"
                            /\ Chart[a].memo <=> Chart[a].statement = "MEMO"
                            /\ Chart[a].memo <=> Chart[a].range = 9
    BY DEF Account
  <2> QED BY <2>1 DEF On, Statements
<1>2. /\ income = revenue
      /\ charges \cap Ranged({5}) = Ranged({5}) /\ charges \cap Ranged({6}) = Ranged({6})
      /\ charges \cap Ranged({7}) = Ranged({7}) \ revenue
  BY <1>1, Ranges DEF On, Typed, Ranged
<1>3. /\ r.gross = - Net(E, income) - Net(E, charges \cap Ranged({5}))
      /\ r.operating = r.gross - Net(E, charges \cap Ranged({6}))
      /\ r.net = r.operating - Net(E, charges \cap Ranged({7}))
  BY DEF ProfitLoss
<1> HIDE DEF income, charges, r
<1>4. /\ r.gross = - Net(E, revenue) - Net(E, Ranged({5}))
      /\ r.operating = r.gross - Net(E, Ranged({6}))
      /\ r.net = r.operating - Net(E, Ranged({7}) \ revenue)
  BY <1>2, <1>3
<1>5. Net(E, revenue \cup Ranged({5})) = Net(E, revenue) + Net(E, Ranged({5}))
  BY Ranges, NetCut DEF Typed, Ranged
<1>6. Net(E, revenue \cup Ranged({5, 6})) = Net(E, revenue \cup Ranged({5})) + Net(E, Ranged({6}))
  BY Ranges, NetCut DEF Typed, Ranged
<1>7. Net(E, Ranged({4, 5, 6, 7}))
        = Net(E, revenue \cup Ranged({5, 6})) + Net(E, Ranged({7}) \ revenue)
  BY Ranges, NetCut DEF Typed, Ranged
<1> DEFINE n1 == Net(E, revenue)
           n2 == Net(E, Ranged({5}))
           n3 == Net(E, Ranged({6}))
           n4 == Net(E, Ranged({7}) \ revenue)
<1>8. n1 \in Int /\ n2 \in Int /\ n3 \in Int /\ n4 \in Int
  BY NetInt
<1> HIDE DEF n1, n2, n3, n4
<1>9. /\ r.gross = - n1 - n2 /\ r.operating = r.gross - n3 /\ r.net = r.operating - n4
      /\ Net(E, revenue \cup Ranged({5})) = n1 + n2
      /\ Net(E, revenue \cup Ranged({5, 6})) = n1 + n2 + n3
      /\ Net(E, Ranged({4, 5, 6, 7})) = n1 + n2 + n3 + n4
  BY <1>4, <1>5, <1>6, <1>7 DEF n1, n2, n3, n4
<1> QED BY <1>8, <1>9 DEF r

-----------------------------------------------------------------------------
(* To date, month by month.                                                *)

LEMMA UpToFinite ==
    ASSUME NEW p \in Months
    PROVE  IsFiniteSet(UpTo(p))
<1>1. UpTo(p) \subseteq 0 .. p /\ p \in Nat
  <2>1. p \in Nat /\ \A q \in UpTo(p) : q \in Nat /\ q <= p
    BY DEF UpTo
  <2> QED BY <2>1
<1>2. IsFiniteSet(0 .. p)
  BY <1>1, FS_Interval
<1> QED BY <1>1, <1>2, FS_Subset

(* The two sums of the statement.                                          *)
LEMMA NetToDateSum ==
    ASSUME NEW p \in Months, NEW f, \A q \in UpTo(p) : f[q] = ProfitLoss(Posted(Of(book, q))).net
    PROVE  MapThenSumSet(LAMBDA q : ProfitLoss(Posted(Of(book, q))).net, UpTo(p)) = SumFunctionOnSet(f, UpTo(p))
<1> DEFINE Eq(g) == g = [T \in SUBSET UpTo(p) |->
                           IF T = {} THEN 0 ELSE (ProfitLoss(Posted(Of(book, Pick(T)))).net) + g[T \ {Pick(T)}]]
           h == CHOOSE g : Eq(g)
<1>1. MapThenSumSet(LAMBDA q : ProfitLoss(Posted(Of(book, q))).net, UpTo(p)) = h[UpTo(p)]
  BY DEF MapThenSumSet, MapThenFoldSet, Pick
<1>2. \A T \in SUBSET UpTo(p) : T # {} => f[Pick(T)] = ProfitLoss(Posted(Of(book, Pick(T)))).net
  BY PickIn
<1>3. \A g : Eq(g) <=> IsFold(g, f, UpTo(p))
  BY <1>2 DEF IsFold
<1>4. IsFiniteSet(UpTo(p))
  BY UpToFinite
<1>5. IsFold(h, f, UpTo(p))
  BY <1>3, <1>4, FoldExists
<1> HIDE DEF h
<1> QED BY <1>1, <1>4, <1>5, SumIsFold

LEMMA GrossToDateSum ==
    ASSUME NEW p \in Months, NEW f, \A q \in UpTo(p) : f[q] = ProfitLoss(Posted(Of(book, q))).gross
    PROVE  MapThenSumSet(LAMBDA q : ProfitLoss(Posted(Of(book, q))).gross, UpTo(p)) = SumFunctionOnSet(f, UpTo(p))
<1> DEFINE Eq(g) == g = [T \in SUBSET UpTo(p) |->
                           IF T = {} THEN 0 ELSE (ProfitLoss(Posted(Of(book, Pick(T)))).gross) + g[T \ {Pick(T)}]]
           h == CHOOSE g : Eq(g)
<1>1. MapThenSumSet(LAMBDA q : ProfitLoss(Posted(Of(book, q))).gross, UpTo(p)) = h[UpTo(p)]
  BY DEF MapThenSumSet, MapThenFoldSet, Pick
<1>2. \A T \in SUBSET UpTo(p) : T # {} => f[Pick(T)] = ProfitLoss(Posted(Of(book, Pick(T)))).gross
  BY PickIn
<1>3. \A g : Eq(g) <=> IsFold(g, f, UpTo(p))
  BY <1>2 DEF IsFold
<1>4. IsFiniteSet(UpTo(p))
  BY UpToFinite
<1>5. IsFold(h, f, UpTo(p))
  BY <1>3, <1>4, FoldExists
<1> HIDE DEF h
<1> QED BY <1>1, <1>4, <1>5, SumIsFold

(* What the reports count are books.                                       *)
LEMMA BookEntries ==
    ASSUME Kept, NEW E, E \subseteq book
    PROVE  Entries(E) /\ \A e \in E : Accepted(e.lines) /\ e.month \in Months
BY FS_Subset DEF Kept, Entries, Entry

(* The result to date is that of the months so far.                        *)
LEMMA NetToDate ==
    ASSUME Kept, NEW p \in Months, NEW A, NEW f,
           \A q \in UpTo(p) : f[q] = - Net(Posted(Of(book, q)), A)
    PROVE  SumFunctionOnSet(f, UpTo(p)) = - Net(PostedUpTo(book, p), A)
<1> DEFINE E == PostedUpTo(book, p)
           Q == UpTo(p)
           S == OnAccounts(A)
           g == [q \in Q |-> Total(Worth, Of(E, q), S)]
           zero == [q \in Q |-> 0]
<1>1. Entries(E) /\ \A e \in E : e.month \in Q
  <2>1. E \subseteq book
    BY DEF PostedUpTo, Posted
  <2>2. \A e \in E : e.month <= p
    BY DEF PostedUpTo
  <2>3. Entries(E) /\ \A e \in E : e.month \in Months
    <3> HIDE DEF E
    <3> QED BY <2>1, BookEntries
  <2> QED BY <2>2, <2>3 DEF UpTo
<1>2. IsFiniteSet(Q)
  BY UpToFinite
<1>3. ASSUME NEW q \in Q PROVE g[q] \in Int /\ f[q] = - g[q]
  <2>1. Of(E, q) = Posted(Of(book, q))
    BY DEF UpTo, PostedUpTo, Posted, Of
  <2>2. Entries(Of(E, q))
    <3>1. Posted(Of(book, q)) \subseteq book
      BY DEF Posted, Of
    <3> QED BY <2>1, <3>1, BookEntries
  <2> HIDE DEF E, S
  <2>3. Total(Worth, Of(E, q), S) \in Int
    BY <2>2, Weights, TotalInt
  <2>4. Net(Of(E, q), A) = Total(Worth, Of(E, q), S)
    BY <2>2, NetTotal DEF S
  <2> QED BY <2>1, <2>3, <2>4
<1>4. Total(Worth, E, S) = SumFunctionOnSet(g, Q)
  <2> HIDE DEF E, Q, S
  <2> QED BY <1>1, <1>2, Weights, TotalByMonth
<1>5. Net(E, A) = Total(Worth, E, S)
  <2> HIDE DEF E
  <2> QED BY <1>1, NetTotal
<1>6. \A q \in Q : f[q] \in Int /\ g[q] \in Int /\ zero[q] = f[q] + g[q]
  BY <1>3
<1>7. SumFunctionOnSet(zero, Q) = 0
  BY <1>2, SumZero
<1> HIDE DEF E, Q, S, g, zero
<1>8. SumFunctionOnSet(zero, Q) = SumFunctionOnSet(f, Q) + SumFunctionOnSet(g, Q)
  BY <1>2, <1>6, SumPlus
<1>9. SumFunctionOnSet(f, Q) \in Int /\ SumFunctionOnSet(g, Q) \in Int
  BY <1>2, <1>6, SumInt
<1>10. SumFunctionOnSet(f, Q) = - Net(E, A)
  BY <1>4, <1>5, <1>7, <1>8, <1>9
<1> QED BY <1>10 DEF E, Q

(* Margins cover the sales and direct costs.                               *)
LEMMA MarginsNet ==
    ASSUME NEW E, Entries(E),
           \A e \in E : \A l \in e.lines : l.of \in Enrollments \cup {NoEnrollment}
    PROVE  MapThenSumSet(LAMBDA n : Margin(E, n), Enrollments \cup {NoEnrollment})
             = - Net(E, RevenueCodes \cup DirectCodes)
<1> DEFINE K == Enrollments \cup {NoEnrollment}
           S == OnAccounts(RevenueCodes \cup DirectCodes)
           of == [l \in Line |-> l.of]
           g == [n \in K |-> Total(Worth, E, {l \in S : of[l] = n})]
           f == [n \in K |-> Margin(E, n)]
           zero == [n \in K |-> 0]
<1>1. IsFiniteSet(K)
  BY FS_AddElement
<1>2. \A e \in E : \A l \in e.lines \cap S : of[l] \in K
  BY DEF OnAccounts
<1>3. Total(Worth, E, S) = SumFunctionOnSet(g, K)
  <2>1. Weight(Worth)
    BY Weights
  <2> HIDE DEF K, S, of
  <2> QED BY ONLY <1>1, <1>2, <2>1, Entries(E), TotalByKey DEF g
<1>4. ASSUME NEW n \in K PROVE g[n] \in Int /\ f[n] = - g[n]
  <2>1. {l \in S : of[l] = n} = OfEnrollment(n)
    BY DEF OnAccounts, OfEnrollment
  <2>2. g[n] = Total(Worth, E, OfEnrollment(n))
    BY <2>1
  <2>3. Total(Worth, E, OfEnrollment(n)) \in Int
    BY Weights, TotalInt
  <2>4. f[n] = - Total(Worth, E, OfEnrollment(n))
    BY MarginTotal
  <2> QED BY <2>2, <2>3, <2>4
<1>5. \A n \in K : f[n] \in Int /\ g[n] \in Int /\ zero[n] = f[n] + g[n]
  <2>1. \A n \in K : zero[n] = 0
    OBVIOUS
  <2> HIDE DEF f, g, zero, K
  <2> QED BY <1>4, <2>1
<1>6. SumFunctionOnSet(zero, K) = 0
  BY <1>1, SumZero
<1>7. MapThenSumSet(LAMBDA n : Margin(E, n), K) = SumFunctionOnSet(f, K)
  <2> DEFINE Eq(k) == k = [T \in SUBSET K |->
                             IF T = {} THEN 0 ELSE Margin(E, Pick(T)) + k[T \ {Pick(T)}]]
             h == CHOOSE k : Eq(k)
  <2>1. MapThenSumSet(LAMBDA n : Margin(E, n), K) = h[K]
    BY DEF MapThenSumSet, MapThenFoldSet, Pick
  <2>2. \A T \in SUBSET K : T # {} => f[Pick(T)] = Margin(E, Pick(T))
    BY PickIn
  <2>3. \A k : Eq(k) <=> IsFold(k, f, K)
    <3> HIDE DEF f, K
    <3> QED BY <2>2 DEF IsFold
  <2>4. IsFold(h, f, K)
    <3> HIDE DEF f, K
    <3> QED BY <1>1, <2>3, FoldExists
  <2> HIDE DEF h, f, K
  <2>5. h[K] = SumFunctionOnSet(f, K)
    BY <1>1, <2>4, SumIsFold
  <2> QED BY <2>1, <2>5
<1>8. Net(E, RevenueCodes \cup DirectCodes) = Total(Worth, E, S)
  BY NetTotal
<1> HIDE DEF f, g, zero, S
<1>9. SumFunctionOnSet(zero, K) = SumFunctionOnSet(f, K) + SumFunctionOnSet(g, K)
  BY <1>1, <1>5, SumPlus
<1>10. SumFunctionOnSet(f, K) \in Int /\ SumFunctionOnSet(g, K) \in Int
  BY <1>1, <1>5, SumInt
<1>11. SumFunctionOnSet(f, K) = - Net(E, RevenueCodes \cup DirectCodes)
  BY <1>3, <1>6, <1>8, <1>9, <1>10
<1> QED BY <1>7, <1>11

(* Assets, liabilities and equity differ by the result to date.            *)
LEMMA SheetAgrees ==
    ASSUME Kept, NEW p \in Months
    PROVE  LET E == PostedUpTo(book, p)
               b == BalanceSheet(E)
           IN  b.assets - b.liabilities - b.equity + Net(E, Memo)
                 = MapThenSumSet(LAMBDA q : ProfitLoss(Posted(Of(book, q))).net, UpTo(p))
<1> DEFINE E == PostedUpTo(book, p)
           b == BalanceSheet(E)
           f == [q \in UpTo(p) |-> ProfitLoss(Posted(Of(book, q))).net]
<1>1. Entries(E) /\ \A e \in E : Accepted(e.lines)
  <2>1. E \subseteq book
    BY DEF PostedUpTo, Posted
  <2> HIDE DEF E
  <2> QED BY <2>1, BookEntries
<1>2. \A q \in UpTo(p) : f[q] = - Net(Posted(Of(book, q)), Ranged({4, 5, 6, 7}))
  <2> SUFFICES ASSUME NEW q \in UpTo(p)
               PROVE  f[q] = - Net(Posted(Of(book, q)), Ranged({4, 5, 6, 7}))
    OBVIOUS
  <2>1. Posted(Of(book, q)) \subseteq book
    BY DEF Posted, Of
  <2>2. Entries(Posted(Of(book, q)))
    BY <2>1, BookEntries
  <2> QED BY <2>2, ProfitSections
<1>3. MapThenSumSet(LAMBDA q : ProfitLoss(Posted(Of(book, q))).net, UpTo(p))
        = SumFunctionOnSet(f, UpTo(p))
  BY NetToDateSum
<1> HIDE DEF f
<1>4. SumFunctionOnSet(f, UpTo(p)) = - Net(E, Ranged({4, 5, 6, 7}))
  BY <1>2, NetToDate
<1> HIDE DEF E
<1>5. b.assets - b.liabilities - b.equity = Net(E, Ranged({1, 2, 3}))
  BY <1>1, SheetSections
<1>6. Net(E, Ranged({1, 2, 3}) \cup Ranged({4, 5, 6, 7}))
        = Net(E, Ranged({1, 2, 3})) + Net(E, Ranged({4, 5, 6, 7}))
  BY <1>1, NetSplit DEF Ranged
<1>7. Net(E, Accounts)
        = Net(E, Ranged({1, 2, 3}) \cup Ranged({4, 5, 6, 7})) + Net(E, Memo)
  <2>1. \A a \in Accounts : Chart[a].memo <=> Chart[a].range = 9
    OBVIOUS
  <2> QED BY <1>1, <2>1, Ranges, NetCut DEF Ranged, Memo
<1>8. Net(E, Accounts) = 0
  BY <1>1, NetNothing
<1>9. /\ Net(E, Ranged({1, 2, 3})) \in Int /\ Net(E, Ranged({4, 5, 6, 7})) \in Int
      /\ Net(E, Memo) \in Int
  BY <1>1, NetInt
<1> HIDE DEF b
<1>10. b.assets - b.liabilities - b.equity + Net(E, Memo) = SumFunctionOnSet(f, UpTo(p))
  BY <1>4, <1>5, <1>6, <1>7, <1>8, <1>9
<1> QED BY <1>3, <1>10 DEF b, E

(* The margins and what is sold or bought beside them are the gross        *)
(* profit.                                                                 *)
LEMMA MarginsAgree ==
    ASSUME Kept, NEW p \in Months
    PROVE  LET E == PostedUpTo(book, p)
               others == Ranged({4, 5}) \ (RevenueCodes \cup DirectCodes)
           IN  Net(E, {"7030"}) = 0 =>
               MapThenSumSet(LAMBDA n : Margin(E, n), Enrollments \cup {NoEnrollment})
                 - Net(E, others)
                 = MapThenSumSet(LAMBDA q : ProfitLoss(Posted(Of(book, q))).gross, UpTo(p))
<1> DEFINE E == PostedUpTo(book, p)
           codes == RevenueCodes \cup DirectCodes
           others == Ranged({4, 5}) \ codes
           rest == others \cup {"7030"}
           all == Typed("revenue") \cup Ranged({5})
           f == [q \in UpTo(p) |-> ProfitLoss(Posted(Of(book, q))).gross]
<1>1. /\ Entries(E)
      /\ \A e \in E : \A l \in e.lines : l.of \in Enrollments \cup {NoEnrollment}
  <2>1. E \subseteq book
    BY DEF PostedUpTo, Posted
  <2> HIDE DEF E
  <2>2. Entries(E)
    BY <2>1, BookEntries
  <2> QED BY <2>2 DEF Entries, Line
<1>2. \A q \in UpTo(p) : f[q] = - Net(Posted(Of(book, q)), all)
  <2> SUFFICES ASSUME NEW q \in UpTo(p)
               PROVE  f[q] = - Net(Posted(Of(book, q)), all)
    OBVIOUS
  <2>1. Posted(Of(book, q)) \subseteq book
    BY DEF Posted, Of
  <2>2. Entries(Posted(Of(book, q)))
    BY <2>1, BookEntries
  <2> QED BY <2>2, ProfitSections
<1>3. MapThenSumSet(LAMBDA q : ProfitLoss(Posted(Of(book, q))).gross, UpTo(p))
        = SumFunctionOnSet(f, UpTo(p))
  BY GrossToDateSum
<1>4. /\ codes \cap rest \cap Accounts = {}
      /\ all \cap Accounts = (codes \cup rest) \cap Accounts
      /\ others \cap {"7030"} \cap Accounts = {}
  BY Ranges, SeededCodes DEF Typed, Ranged
<1> HIDE DEF f, codes, others, all
<1>5. SumFunctionOnSet(f, UpTo(p)) = - Net(E, all)
  BY <1>2, NetToDate
<1> HIDE DEF E
<1>6. MapThenSumSet(LAMBDA n : Margin(E, n), Enrollments \cup {NoEnrollment})
        = - Net(E, codes)
  BY <1>1, MarginsNet DEF codes
<1>7. /\ Net(E, rest) = Net(E, others) + Net(E, {"7030"})
      /\ Net(E, all) = Net(E, codes) + Net(E, rest)
  <2>1. Net(E, rest) = Net(E, others) + Net(E, {"7030"})
    BY <1>1, <1>4, NetSplit
  <2> HIDE DEF rest
  <2> QED BY <1>1, <1>4, <2>1, NetCut
<1>8. Net(E, codes) \in Int /\ Net(E, others) \in Int
  BY <1>1, NetInt
<1> HIDE DEF rest
<1>9. Net(E, {"7030"}) = 0 =>
         - Net(E, codes) - Net(E, others) = SumFunctionOnSet(f, UpTo(p))
  BY <1>5, <1>7, <1>8
<1> QED BY <1>3, <1>6, <1>9 DEF E, others, codes

(* At every month end the balance sheet is out by the result to date and   *)
(* by the counter account of the sanctions, and the margins make up the    *)
(* gross profit where no interest is earned: on any chart that             *)
(* validate_structure accepts and with the seeded codes.                   *)
THEOREM Agreed == Spec => []StatementsAgree
<1>1. Kept => StatementsAgree
  <2> SUFFICES ASSUME Kept, NEW p \in Months
               PROVE  LET E == PostedUpTo(book, p)
                          b == BalanceSheet(E)
                          margins == MapThenSumSet(LAMBDA n : Margin(E, n),
                                                   Enrollments \cup {NoEnrollment})
                          others == Ranged({4, 5}) \ (RevenueCodes \cup DirectCodes)
                      IN  /\ b.assets - b.liabilities - b.equity + Net(E, Memo)
                               = MapThenSumSet(LAMBDA q : ProfitLoss(Posted(Of(book, q))).net, UpTo(p))
                          /\ Net(E, {"7030"}) = 0 =>
                             margins - Net(E, others)
                               = MapThenSumSet(LAMBDA q : ProfitLoss(Posted(Of(book, q))).gross, UpTo(p))
    BY DEF StatementsAgree
  <2>1. PostedUpTo(book, p) \subseteq book
    BY DEF PostedUpTo, Posted
  <2>2. Entries(PostedUpTo(book, p))
    BY <2>1, BookEntries
  <2> QED BY <2>2, SheetAgrees, MarginsAgree
<1> QED BY <1>1, BookKept, PTL

-----------------------------------------------------------------------------
(* The cash flow, the trial balance and the budgets.                       *)

(* Against the profit and loss of the month.                               *)
LEMMA IncomeExplained ==
    ASSUME Kept, NEW p \in Months
    PROVE  LET E == Of(book, p)
           IN  CashFlow(book, p).income - ProfitLoss(Posted(E)).net
                 = Net(Posted(E), Ranged({7})) - Net(E \ Posted(E), Ranged({4, 5, 6}))
<1> DEFINE E == Of(book, p)
           D == Posted(E)
           C == E \ D
           S == OnAccounts(Ranged({4, 5, 6}))
<1>1. Entries(E) /\ Entries(D) /\ Entries(C)
  <2>1. E \subseteq book /\ D \subseteq book /\ C \subseteq book
    BY DEF Of, Posted
  <2> HIDE DEF E, D, C
  <2> QED BY <2>1, BookEntries
<1>2. E = D \cup C /\ D \cap C = {}
  BY DEF Posted
<1>3. CashFlow(book, p).income = - Net(E, Ranged({4, 5, 6}))
  BY DEF CashFlow, SectionsOf
<1> HIDE DEF E, D, C
<1>4. ProfitLoss(D).net = - Net(D, Ranged({4, 5, 6, 7}))
  BY <1>1, ProfitSections
<1>5. Net(D, Ranged({4, 5, 6, 7})) = Net(D, Ranged({4, 5, 6})) + Net(D, Ranged({7}))
  BY <1>1, NetCut DEF Ranged
<1>6. Net(E, Ranged({4, 5, 6})) = Net(D, Ranged({4, 5, 6})) + Net(C, Ranged({4, 5, 6}))
  <2>1. Total(Worth, D \cup C, S) = Total(Worth, D, S) + Total(Worth, C, S)
    BY <1>1, <1>2, Weights, TotalEntries
  <2>2. /\ Net(E, Ranged({4, 5, 6})) = Total(Worth, E, S)
        /\ Net(D, Ranged({4, 5, 6})) = Total(Worth, D, S)
        /\ Net(C, Ranged({4, 5, 6})) = Total(Worth, C, S)
    BY <1>1, NetTotal
  <2> QED BY <1>2, <2>1, <2>2
<1>7. /\ Net(D, Ranged({4, 5, 6})) \in Int /\ Net(D, Ranged({7})) \in Int
      /\ Net(C, Ranged({4, 5, 6})) \in Int
  BY <1>1, NetInt
<1>8. CashFlow(book, p).income - ProfitLoss(D).net
        = Net(D, Ranged({7})) - Net(C, Ranged({4, 5, 6}))
  BY <1>3, <1>4, <1>5, <1>6, <1>7
<1> QED BY <1>8 DEF C, D, E

(* Against the movement of cash: every account is in one section, is cash, *)
(* or is in neither.                                                       *)
LEMMA CashExplained ==
    ASSUME Kept, NEW p \in Months
    PROVE  LET E == Of(book, p)
               f == CashFlow(book, p)
               shown == (Ranged({3, 4, 5, 6}) \ WrittenOff)
                          \cup {"2050", "2020", "2030", "7020", "1111", "1121"}
               cash == {"1010", "1020"}
           IN  Net(E, cash)
                 = f.income + f.depreciation + f.amortization - f.wallets - f.payables
                   - f.fx - f.investing + f.financing - Net(E, Accounts \ (shown \cup cash))
<1> DEFINE E == Of(book, p)
           f == CashFlow(book, p)
           A0 == Ranged({4, 5, 6})
           A1 == A0 \ WrittenOff
           A2 == {"2050"}
           A3 == {"2020", "2030"}
           A4 == {"7020"}
           A5 == {"1111", "1121"}
           A6 == Ranged({3})
           cash == {"1010", "1020"}
           shown == (Ranged({3, 4, 5, 6}) \ WrittenOff)
                      \cup {"2050", "2020", "2030", "7020", "1111", "1121"}
           others == Accounts \ (shown \cup cash)
<1>1. Entries(E) /\ \A e \in E : Accepted(e.lines)
  <2>1. E \subseteq book
    BY DEF Of
  <2> HIDE DEF E
  <2> QED BY <2>1, BookEntries
<1>2. /\ f.income = - Net(E, A0) /\ f.depreciation = Net(E, Depreciation)
      /\ f.amortization = Net(E, Amortization) /\ f.wallets = Net(E, A2) /\ f.payables = Net(E, A3)
      /\ f.fx = Net(E, A4) /\ f.investing = Net(E, A5) /\ f.financing = - Net(E, A6)
  BY DEF CashFlow, SectionsOf
<1> HIDE DEF E, f
<1>3. A1 \cap A2 \cap Accounts = {}
  BY SeededCodes DEF Ranged
<1>4. (A1 \cup A2) \cap A3 \cap Accounts = {}
  BY SeededCodes DEF Ranged
<1>5. (A1 \cup A2 \cup A3) \cap A4 \cap Accounts = {}
  BY SeededCodes DEF Ranged
<1>6. (A1 \cup A2 \cup A3 \cup A4) \cap A5 \cap Accounts = {}
  BY SeededCodes DEF Ranged
<1>7. (A1 \cup A2 \cup A3 \cup A4 \cup A5) \cap A6 \cap Accounts = {}
  BY SeededCodes DEF Ranged
<1>8. shown \cap Accounts = (A1 \cup A2 \cup A3 \cup A4 \cup A5 \cup A6) \cap Accounts
  BY SeededCodes DEF Ranged
<1>0. /\ A1 \cap WrittenOff \cap Accounts = {}
      /\ A0 \cap Accounts = (A1 \cup WrittenOff) \cap Accounts
      /\ Depreciation \cap Amortization \cap Accounts = {}
  BY SeededCodes DEF Ranged, Depreciation, Amortization
<1>9. shown \cap cash \cap Accounts = {}
  BY SeededCodes DEF Ranged
<1>10. (shown \cup cash) \cap others \cap Accounts = {}
       /\ Accounts \cap Accounts = ((shown \cup cash) \cup others) \cap Accounts
  OBVIOUS
<1> DEFINE n0 == Net(E, WrittenOff)
           d == Net(E, Depreciation)
           a == Net(E, Amortization)
           n1 == Net(E, A1)
           n2 == Net(E, A2)
           n3 == Net(E, A3)
           n4 == Net(E, A4)
           n5 == Net(E, A5)
           n6 == Net(E, A6)
           c == Net(E, cash)
           o == Net(E, others)
<1> HIDE DEF A0, A1, A2, A3, A4, A5, A6, cash, shown, others
<1>23. Net(E, A0) = n1 + n0 /\ n0 = d + a
  BY <1>0, <1>1, NetCut, NetSplit DEF WrittenOff
<1>11. Net(E, A1 \cup A2) = n1 + n2
  BY <1>1, <1>3, NetSplit
<1>12. Net(E, A1 \cup A2 \cup A3) = Net(E, A1 \cup A2) + n3
  BY <1>1, <1>4, NetSplit
<1>13. Net(E, A1 \cup A2 \cup A3 \cup A4) = Net(E, A1 \cup A2 \cup A3) + n4
  BY <1>1, <1>5, NetSplit
<1>14. Net(E, A1 \cup A2 \cup A3 \cup A4 \cup A5) = Net(E, A1 \cup A2 \cup A3 \cup A4) + n5
  BY <1>1, <1>6, NetSplit
<1>15. Net(E, shown) = Net(E, A1 \cup A2 \cup A3 \cup A4 \cup A5) + n6
  BY <1>1, <1>7, <1>8, NetCut
<1>16. Net(E, shown \cup cash) = Net(E, shown) + c
  BY <1>1, <1>9, NetSplit
<1>17. Net(E, Accounts) = Net(E, shown \cup cash) + o
  BY <1>1, <1>10, NetCut
<1>18. Net(E, Accounts) = 0
  BY <1>1, NetNothing
<1>19. /\ n1 \in Int /\ n2 \in Int /\ n3 \in Int /\ n4 \in Int /\ n5 \in Int /\ n6 \in Int
       /\ c \in Int /\ o \in Int /\ n0 \in Int /\ d \in Int /\ a \in Int
  BY <1>1, NetInt
<1>20. /\ f.income = - (n1 + n0) /\ f.depreciation = d /\ f.amortization = a /\ f.wallets = n2 /\ f.payables = n3
       /\ f.fx = n4 /\ f.investing = n5 /\ f.financing = - n6
  BY <1>2, <1>23
<1> HIDE DEF n0, d, a, n1, n2, n3, n4, n5, n6, c, o
<1>21. n1 + n2 + n3 + n4 + n5 + n6 + c + o = 0
  BY <1>11, <1>12, <1>13, <1>14, <1>15, <1>16, <1>17, <1>18, <1>19
<1>22. c = f.income + f.depreciation + f.amortization - f.wallets - f.payables
             - f.fx - f.investing + f.financing - o
  BY <1>19, <1>20, <1>21, <1>23
<1> QED BY <1>22 DEF c, o, E, f, cash, shown, others

(* Account by account, for finitely many of them.                          *)
LEMMA NetByAccount ==
    ASSUME NEW E, Entries(E), NEW C, IsFiniteSet(C)
    PROVE  Net(E, C) = SumFunctionOnSet([a \in C |-> Net(E, {a})], C)
<1> DEFINE S == OnAccounts(C)
           account == [l \in Line |-> l.account]
           g == [a \in C |-> Total(Worth, E, {l \in S : account[l] = a})]
           f == [a \in C |-> Net(E, {a})]
<1>1. \A e \in E : \A l \in e.lines \cap S : account[l] \in C
  BY DEF OnAccounts
<1>2. Total(Worth, E, S) = SumFunctionOnSet(g, C)
  <2> HIDE DEF S, account
  <2> QED BY <1>1, Weights, TotalByKey
<1>3. ASSUME NEW a \in C PROVE g[a] = f[a]
  <2>1. {l \in S : account[l] = a} = OnAccounts({a})
    BY DEF OnAccounts
  <2>2. g[a] = Total(Worth, E, OnAccounts({a}))
    BY <2>1
  <2>3. Net(E, {a}) = Total(Worth, E, OnAccounts({a}))
    BY NetTotal
  <2> QED BY <2>2, <2>3
<1>4. Net(E, C) = Total(Worth, E, S)
  BY NetTotal
<1> HIDE DEF f, g
<1>5. SumFunctionOnSet(g, C) = SumFunctionOnSet(f, C)
  BY <1>3, SumEqual
<1> QED BY <1>2, <1>4, <1>5 DEF f

(* The trial balance shows the same movement.                              *)
LEMMA TrialExplained ==
    ASSUME Kept, NEW p \in Months
    PROVE  LET E == Of(book, p)
               t == TrialBalance(E)
               cash == {"1010", "1020"}
           IN  Net(E, cash)
                 = MapThenSumSet(LAMBDA a : t[a].debit - t[a].credit, cash \cap Accounts)
<1> DEFINE E == Of(book, p)
           t == TrialBalance(E)
           C == {"1010", "1020"} \cap Accounts
           f == [a \in C |-> Net(E, {a})]
           Eq(k) == k = [T \in SUBSET C |->
                           IF T = {} THEN 0
                           ELSE (t[Pick(T)].debit - t[Pick(T)].credit) + k[T \ {Pick(T)}]]
           h == CHOOSE k : Eq(k)
<1>1. Entries(E)
  <2>1. E \subseteq book
    BY DEF Of
  <2> HIDE DEF E
  <2> QED BY <2>1, BookEntries
<1>2. IsFiniteSet(C)
  <2> DEFINE one == {"1010"}
             two == {"1020"}
  <2>1. IsFiniteSet(one) /\ IsFiniteSet(two)
    BY FS_Singleton
  <2>2. C \subseteq one \cup two
    OBVIOUS
  <2> HIDE DEF C, one, two
  <2>3. IsFiniteSet(one \cup two)
    BY <2>1, FS_Union
  <2> QED BY <2>2, <2>3, FS_Subset
<1>3. MapThenSumSet(LAMBDA a : t[a].debit - t[a].credit, C) = h[C]
  <2> HIDE DEF t, C
  <2> QED BY DEF MapThenSumSet, MapThenFoldSet, Pick
<1> HIDE DEF E
<1>4. ASSUME NEW a \in C PROVE f[a] = t[a].debit - t[a].credit
  <2>1. t[a].debit = Total(Debit, E, OnAccounts({a}))
    BY <1>1, DebitTotal
  <2>2. t[a].credit = Total(Credit, E, OnAccounts({a}))
    BY <1>1, CreditTotal
  <2>3. Net(E, {a}) = Total(Worth, E, OnAccounts({a}))
    BY <1>1, NetTotal
  <2>4. Total(Worth, E, OnAccounts({a}))
          = Total(Debit, E, OnAccounts({a})) - Total(Credit, E, OnAccounts({a}))
    BY <1>1, TotalWorth
  <2>5. f[a] = Net(E, {a})
    OBVIOUS
  <2> HIDE DEF f, t
  <2> QED BY <2>1, <2>2, <2>3, <2>4, <2>5
<1>5. \A T \in SUBSET C : T # {} => Pick(T) \in C
  BY PickIn
<1>6. \A k : Eq(k) <=> IsFold(k, f, C)
  <2> HIDE DEF f, t, C
  <2> QED BY <1>4, <1>5 DEF IsFold
<1>7. IsFold(h, f, C)
  <2> HIDE DEF f, t, C
  <2> QED BY <1>2, <1>6, FoldExists
<1>8. Net(E, C) = SumFunctionOnSet(f, C)
  <2> HIDE DEF C
  <2> QED BY <1>1, <1>2, NetByAccount
<1>9. Net(E, {"1010", "1020"}) = Net(E, C)
  BY <1>1, NetSame
<1> HIDE DEF h, f, t, C
<1>10. h[C] = SumFunctionOnSet(f, C)
  BY <1>2, <1>7, SumIsFold
<1>11. Net(E, {"1010", "1020"}) = MapThenSumSet(LAMBDA a : t[a].debit - t[a].credit, C)
  BY <1>3, <1>8, <1>9, <1>10
<1> QED BY <1>11 DEF t, C, E

(* What is planned on finitely many accounts.                              *)
LEMMA PlannedByAccount ==
    ASSUME Kept, NEW p \in Months, NEW C, IsFiniteSet(C),
           \A b \in Of(budget, p) : b.account \in C
    PROVE  /\ \A a \in C : Planned(p, {a}) \in Int
           /\ Planned(p, Accounts) = SumFunctionOnSet([a \in C |-> Planned(p, {a})], C)
<1> DEFINE B == Of(budget, p)
           amount == [b \in B |-> b.amount]
           account == [b \in B |-> b.account]
           Class(a) == {b \in B : account[b] = a}
           g == [a \in C |-> SumFunctionOnSet(amount, Class(a))]
           f == [a \in C |-> Planned(p, {a})]
<1>1. IsFiniteSet(B) /\ \A b \in B : b.account \in Accounts /\ b.amount \in Nat
  <2>1. B \subseteq budget
    BY DEF Of
  <2> HIDE DEF B
  <2> QED BY <2>1, FS_Subset DEF Kept
<1>2. \A b \in B : amount[b] = b.amount /\ amount[b] \in Int /\ account[b] \in C
  BY <1>1
<1>3. {b \in Of(budget, p) : b.account \in Accounts} = B
  BY <1>1
<1>4. Planned(p, Accounts) = SumFunctionOnSet(amount, B)
  <2>1. MapThenSumSet(LAMBDA b : b.amount, B) = SumFunctionOnSet(amount, B)
    <3> HIDE DEF amount, B
    <3> QED BY <1>1, <1>2, AmountSum
  <2> QED BY <1>3, <2>1 DEF Planned
<1>5. SumFunctionOnSet(amount, B) = SumFunctionOnSet(g, C)
  <2>1. \A b \in B : amount[b] \in Int /\ account[b] \in C
    BY <1>2
  <2> HIDE DEF amount, account, B
  <2> QED BY ONLY <1>1, <2>1, IsFiniteSet(C), SumByKey DEF g, Class
<1>6. ASSUME NEW a \in C PROVE g[a] = f[a] /\ f[a] \in Int /\ f[a] = Planned(p, {a})
  <2>1. {b \in Of(budget, p) : b.account \in {a}} = Class(a)
    OBVIOUS
  <2>2. IsFiniteSet(Class(a)) /\ Class(a) \subseteq B
    <3>1. Class(a) \subseteq B
      OBVIOUS
    <3> HIDE DEF B, Class
    <3> QED BY <1>1, <3>1, FS_Subset
  <2>3. \A b \in Class(a) : amount[b] = b.amount /\ amount[b] \in Int
    BY <1>2
  <2>4. g[a] = SumFunctionOnSet(amount, Class(a))
    OBVIOUS
  <2>5. f[a] = Planned(p, {a})
    OBVIOUS
  <2> HIDE DEF f, g, amount, Class, B
  <2>6. MapThenSumSet(LAMBDA b : b.amount, Class(a)) = SumFunctionOnSet(amount, Class(a))
    BY <2>2, <2>3, AmountSum
  <2>7. Planned(p, {a}) = SumFunctionOnSet(amount, Class(a))
    BY <2>1, <2>6 DEF Planned
  <2>8. SumFunctionOnSet(amount, Class(a)) \in Int
    BY <2>2, <2>3, SumInt
  <2> QED BY <2>4, <2>5, <2>7, <2>8
<1> HIDE DEF f, g, amount
<1>7. SumFunctionOnSet(g, C) = SumFunctionOnSet(f, C)
  <2>1. \A a \in C : g[a] = f[a]
    BY <1>6
  <2> QED BY ONLY <2>1, IsFiniteSet(C), SumEqual
<1>8. \A a \in C : Planned(p, {a}) \in Int
  BY <1>6
<1>9. Planned(p, Accounts) = SumFunctionOnSet(f, C)
  BY <1>4, <1>5, <1>7
<1> QED BY <1>8, <1>9 DEF f

(* The accounts that are compared are those of the budgets and of the      *)
(* lines.                                                                  *)
LEMMA ComparedFinite ==
    ASSUME Kept, NEW p \in Months
    PROVE  /\ IsFiniteSet(Compared(p))
           /\ \A b \in Of(budget, p) : b.account \in Compared(p)
           /\ \A e \in Of(book, p) : \A l \in e.lines : l.account \in Compared(p)
<1> DEFINE B == {b.account : b \in Of(budget, p)}
           Named(e) == {l.account : l \in e.lines}
           S == {Named(e) : e \in Of(book, p)}
<1>1. Compared(p) = B \cup UNION S
  BY DEF Compared
<1>2. IsFiniteSet(B)
  <2> DEFINE f == [b \in budget |-> b.account]
             D == Of(budget, p)
  <2>1. IsFiniteSet(D) /\ D \subseteq budget
    BY FS_Subset DEF Kept, Of
  <2>2. B = {f[b] : b \in D}
    BY <2>1
  <2> HIDE DEF f, B, D
  <2> QED BY <2>1, <2>2, ImageFinite
<1>3. IsFiniteSet(S)
  <2> DEFINE f == [e \in book |-> Named(e)]
             D == Of(book, p)
  <2>1. IsFiniteSet(D) /\ D \subseteq book
    BY FS_Subset DEF Kept, Of
  <2>2. S = {f[e] : e \in D}
    BY <2>1
  <2> HIDE DEF f, S, D
  <2> QED BY <2>1, <2>2, ImageFinite
<1>4. ASSUME NEW e \in Of(book, p) PROVE IsFiniteSet(Named(e))
  <2> DEFINE f == [l \in e.lines |-> l.account]
             L == e.lines
  <2>1. IsFiniteSet(L)
    BY DEF Kept, Of
  <2>2. Named(e) = {f[l] : l \in L}
    OBVIOUS
  <2> HIDE DEF f, Named, L
  <2> QED BY <2>1, <2>2, ImageFinite
<1>5. \A N \in S : IsFiniteSet(N)
  BY <1>4
<1>6. \A e \in Of(book, p) : \A l \in e.lines : l.account \in UNION S
  OBVIOUS
<1>7. \A b \in Of(budget, p) : b.account \in B
  OBVIOUS
<1> HIDE DEF B, S
<1>8. IsFiniteSet(UNION S)
  BY <1>3, <1>5, FS_UNION
<1>9. IsFiniteSet(B \cup UNION S)
  BY <1>2, <1>8, FS_Union
<1> QED BY <1>1, <1>6, <1>7, <1>9

(* The variances lose no account: what was posted cancels out over them.   *)
LEMMA VarianceExplained ==
    ASSUME Kept, NEW p \in Months
    PROVE  MapThenSumSet(LAMBDA a : Variance(p, a), Compared(p)) = - Planned(p, Accounts)
<1> DEFINE E == Of(book, p)
           C == Compared(p)
           v == [a \in C |-> Variance(p, a)]
           n == [a \in C |-> Net(E, {a})]
           b == [a \in C |-> Planned(p, {a})]
           Eq(k) == k = [T \in SUBSET C |->
                           IF T = {} THEN 0 ELSE Variance(p, Pick(T)) + k[T \ {Pick(T)}]]
           h == CHOOSE k : Eq(k)
<1>1. Entries(E) /\ \A e \in E : Accepted(e.lines)
  <2>1. E \subseteq book
    BY DEF Of
  <2> HIDE DEF E
  <2> QED BY <2>1, BookEntries
<1>2. /\ IsFiniteSet(C) /\ (\A x \in Of(budget, p) : x.account \in C)
      /\ \A e \in E : \A l \in e.lines : l.account \in C
  BY ComparedFinite
<1>3. MapThenSumSet(LAMBDA a : Variance(p, a), C) = h[C]
  <2> HIDE DEF C
  <2> QED BY DEF MapThenSumSet, MapThenFoldSet, Pick
<1>4. \A T \in SUBSET C : T # {} => v[Pick(T)] = Variance(p, Pick(T))
  BY PickIn
<1>5. \A k : Eq(k) <=> IsFold(k, v, C)
  <2> HIDE DEF v, C
  <2> QED BY <1>4 DEF IsFold
<1>6. IsFold(h, v, C)
  <2> HIDE DEF v, C
  <2> QED BY <1>2, <1>5, FoldExists
<1>7. ASSUME NEW a \in C PROVE v[a] \in Int /\ b[a] \in Int /\ n[a] = v[a] + b[a]
  <2>1. v[a] = Net(E, {a}) - Planned(p, {a})
    BY DEF Variance
  <2>2. n[a] = Net(E, {a}) /\ b[a] = Planned(p, {a})
    OBVIOUS
  <2> HIDE DEF n, b, v, E, C
  <2>3. Net(E, {a}) \in Int
    BY <1>1, NetInt
  <2>4. Planned(p, {a}) \in Int
    BY <1>2, PlannedByAccount
  <2> QED BY <2>1, <2>2, <2>3, <2>4
<1>8. Net(E, C) = Net(E, Accounts)
  <2> DEFINE S == OnAccounts(C)
             R == OnAccounts(Accounts)
  <2>1. \A e \in E : e.lines \cap S = e.lines \cap R
    <3>1. \A e \in E : e.lines \subseteq Line
      BY <1>1 DEF Entries
    <3> QED BY <1>2, <3>1 DEF OnAccounts, Line
  <2> HIDE DEF E, C, S, R
  <2>2. Parts(Worth, E, S) = Parts(Worth, E, R)
    BY <2>1 DEF Parts, Part
  <2>3. Total(Worth, E, S) = Total(Worth, E, R)
    BY <2>2 DEF Total
  <2> QED BY <1>1, <2>3, NetTotal DEF S, R
<1>9. Net(E, Accounts) = 0
  <2> HIDE DEF E
  <2> QED BY <1>1, NetNothing
<1>10. Net(E, C) = SumFunctionOnSet(n, C)
  <2> HIDE DEF E, C
  <2> QED BY <1>1, <1>2, NetByAccount
<1>11. Planned(p, Accounts) = SumFunctionOnSet(b, C)
  <2> HIDE DEF C
  <2> QED BY <1>2, PlannedByAccount
<1>12. \A a \in C : v[a] \in Int /\ b[a] \in Int /\ n[a] = v[a] + b[a]
  <2> HIDE DEF n, b, v, E, C
  <2> QED BY <1>7
<1> HIDE DEF h, v, n, b, C, E
<1>13. SumFunctionOnSet(n, C) = SumFunctionOnSet(v, C) + SumFunctionOnSet(b, C)
  BY <1>2, <1>12, SumPlus
<1>14. SumFunctionOnSet(v, C) \in Int /\ SumFunctionOnSet(b, C) \in Int
  BY <1>2, <1>12, SumInt
<1>15. h[C] = SumFunctionOnSet(v, C)
  BY <1>2, <1>6, SumIsFold
<1>16. h[C] = - Planned(p, Accounts)
  BY <1>8, <1>9, <1>10, <1>11, <1>13, <1>14, <1>15
<1> QED BY <1>3, <1>16 DEF C

(* Cash flow, profit and loss, trial balance and budget comparison of a    *)
(* month count one book: they differ by the 7xxx range, by the entries     *)
(* that were reversed, and by the accounts in no section, and by nothing   *)
(* else.                                                                   *)
THEOREM Explained == Spec => []CashFlowExplained
<1>1. Kept => CashFlowExplained
  BY IncomeExplained, CashExplained, TrialExplained, VarianceExplained DEF CashFlowExplained
<1> QED BY <1>1, BookKept, PTL

=============================================================================
