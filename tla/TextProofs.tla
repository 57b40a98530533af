----------------------------- MODULE TextProofs -----------------------------
(* Theorems about the functions of Text and Encoding, whatever the texts   *)
(* and bytes.                                                              *)
EXTENDS Encoding, TLAPS, FiniteSetTheorems, SequenceTheorems

-----------------------------------------------------------------------------
(* Induction.  The library's theorems take a predicate; here it is a set,  *)
(* that of the numbers for which something holds.                          *)

LEMMA LeastNatural ==
    ASSUME NEW T \in SUBSET Nat, T # {}
    PROVE  \E m \in T : \A k \in T : m <= k
<1> DEFINE U == {0..i : i \in T}
           R == StrictSubsetOrdering(Nat)
<1>1. U \subseteq FiniteSubsetsOf(Nat)
  <2> SUFFICES ASSUME NEW i \in T PROVE 0..i \in FiniteSubsetsOf(Nat)
    OBVIOUS
  <2>1. i \in Int /\ 0..i \subseteq Nat
    OBVIOUS
  <2> QED  BY <2>1, FS_Interval DEF FiniteSubsetsOf
<1>2. \E x \in U : \A y \in U : <<y, x>> \notin R
  <2>1. U # {}
    OBVIOUS
  <2>2. IsWellFoundedOn(R, FiniteSubsetsOf(Nat))
    BY FS_StrictSubsetOrderingWellFounded
  <2> HIDE DEF U, R
  <2> QED  BY <1>1, <2>1, <2>2, WFMin
<1>3. PICK m \in T : \A k \in T : <<0..k, 0..m>> \notin R
  BY <1>2
<1>4. ASSUME NEW k \in T, ~(m <= k)
      PROVE  FALSE
  <2>1. 0..k \subseteq 0..m /\ 0..k # 0..m
    <3>1. m \in 0..m /\ m \notin 0..k
      BY <1>4
    <3>2. 0..k \subseteq 0..m
      BY <1>4
    <3> QED  BY <3>1, <3>2
  <2>2. 0..k \subseteq Nat /\ 0..m \subseteq Nat
    OBVIOUS
  <2>3. <<0..k, 0..m>> \in R
    BY <2>1, <2>2 DEF StrictSubsetOrdering
  <2> QED  BY <1>3, <2>3
<1> QED  BY <1>4

LEMMA Induction ==
    ASSUME NEW n \in Nat, NEW P, 0 \in P, \A i \in 1..n : i - 1 \in P => i \in P
    PROVE  0..n \subseteq P
<1> DEFINE T == {i \in 0..n : i \notin P}
<1> SUFFICES ASSUME T # {} PROVE FALSE
  OBVIOUS
<1>1. PICK m \in T : \A k \in T : m <= k
  <2>1. T \in SUBSET Nat
    OBVIOUS
  <2> HIDE DEF T
  <2> QED  BY <2>1, LeastNatural
<1>2. m \in 1..n /\ m - 1 \in 0..n
  OBVIOUS
<1>3. m - 1 \in P
  BY <1>1, <1>2
<1> QED  BY <1>2, <1>3

\* What justifies a function that is defined by its value one before.
LEMMA Iteration ==
    ASSUME NEW X, NEW first \in X, NEW n \in Nat, NEW step \in [1..n -> [X -> X]]
    PROVE  \E F \in [0..n -> X] :
              F[0] = first /\ \A i \in 1..n : F[i] = step[i][F[i - 1]]
<1> DEFINE Is(F, m) == F[0] = first /\ \A i \in 1..m : F[i] = step[i][F[i - 1]]
           P == {m \in 0..n : \E F \in [0..m -> X] : Is(F, m)}
<1>1. 0 \in P
  <2>1. [i \in 0..0 |-> first] \in [0..0 -> X] /\ Is([i \in 0..0 |-> first], 0)
    OBVIOUS
  <2> HIDE DEF Is
  <2>2. \E F \in [0..0 -> X] : Is(F, 0)
    BY <2>1
  <2> QED  BY <2>2
<1>2. ASSUME NEW m \in 1..n, m - 1 \in P
      PROVE  m \in P
  <2>1. PICK F \in [0..(m - 1) -> X] : Is(F, m - 1)
    BY <1>2
  <2> DEFINE G == [i \in 0..m |-> IF i = m THEN step[m][F[m - 1]] ELSE F[i]]
  <2>2. F[m - 1] \in X /\ step[m] \in [X -> X]
    OBVIOUS
  <2>3. G \in [0..m -> X]
    BY <2>2
  <2>4. Is(G, m)
    <3>1. G[0] = first
      BY <2>1
    <3>2. ASSUME NEW i \in 1..m PROVE G[i] = step[i][G[i - 1]]
      <4>1. CASE i = m
        BY <4>1
      <4>2. CASE i # m
        <5>1. i \in 1..(m - 1) /\ i \in 0..m /\ i - 1 \in 0..m /\ i - 1 # m
          BY <4>2
        <5>2. G[i] = F[i] /\ G[i - 1] = F[i - 1]
          BY <4>2, <5>1
        <5> QED  BY <2>1, <5>1, <5>2
      <4> QED  BY <4>1, <4>2
    <3> QED  BY <3>1, <3>2
  <2> HIDE DEF Is, G
  <2>5. \E H \in [0..m -> X] : Is(H, m)
    BY <2>3, <2>4
  <2> QED  BY <2>5
<1>3. n \in P
  <2> HIDE DEF P
  <2>1. 0..n \subseteq P
    BY <1>1, <1>2, Induction
  <2> QED  BY <2>1
<1> QED  BY <1>3

-----------------------------------------------------------------------------
StaysIn(P, step) == \A x \in P : step[x] \in P
Nears(P, step, left) == \A x \in P : left[x] \in Nat /\ (step[x] = x \/ left[step[x]] < left[x])

LEMMA LoopEnds ==
    ASSUME NEW P, NEW x \in P, NEW step, StaysIn(P, step), NEW left, Nears(P, step, left),
           NEW n \in Nat, left[x] <= n
    PROVE  Loop(x, step, n) \in P /\ step[Loop(x, step, n)] = Loop(x, step, n)
<1> DEFINE Is(F) == F = [k \in 0..n |-> IF k = 0 THEN x ELSE step[F[k - 1]]]
           G == CHOOSE F : Is(F)
<1>1. PICK each : each = [k \in 1..n |-> [y \in P |-> step[y]]]
  OBVIOUS
<1>2. each \in [1..n -> [P -> P]]
  BY <1>1 DEF StaysIn
<1>3. PICK F \in [0..n -> P] : F[0] = x /\ \A k \in 1..n : F[k] = each[k][F[k - 1]]
  BY ONLY <1>2, x \in P, n \in Nat, Iteration
<1>4. ASSUME NEW k \in 1..n PROVE F[k] = step[F[k - 1]]
  BY <1>1, <1>3
<1>5. Is(F)
  <2>1. \A k \in 0..n : F[k] = IF k = 0 THEN x ELSE step[F[k - 1]]
    <3> SUFFICES ASSUME NEW k \in 0..n, k # 0 PROVE F[k] = step[F[k - 1]]
      BY <1>3
    <3>1. k \in 1..n
      OBVIOUS
    <3> QED  BY <1>4, <3>1
  <2> QED  BY <2>1
<1>6. Is(G)
  <2> HIDE DEF Is
  <2> QED  BY <1>5
<1>7. Loop(x, step, n) = G[n]
  BY DEF Loop
<1> HIDE DEF G
<1>8. G[0] = x /\ \A k \in 1..n : G[k] = step[G[k - 1]]
  <2>1. G[0] = x
    BY <1>6
  <2>2. ASSUME NEW k \in 1..n PROVE G[k] = step[G[k - 1]]
    <3>1. k \in 0..n /\ k # 0
      OBVIOUS
    <3> QED  BY <1>6, <3>1, Zenon
  <2> QED  BY <2>1, <2>2
<1> DEFINE Q == {k \in 0..n : G[k] \in P /\ (step[G[k]] = G[k] \/ left[G[k]] <= n - k)}
<1>9. 0 \in Q
  BY <1>8
<1>10. ASSUME NEW k \in 1..n, k - 1 \in Q
       PROVE  k \in Q
  <2>1. PICK y \in P : y = G[k - 1] /\ (step[y] = y \/ left[y] <= n - (k - 1))
    BY <1>10
  <2>2. G[k] = step[y] /\ step[y] \in P
    BY <1>8, <2>1 DEF StaysIn
  <2>3. step[y] = y \/ left[step[y]] <= n - k
    BY <2>1, <2>2 DEF Nears
  <2> QED  BY <2>2, <2>3
<1>11. n \in Q
  <2> HIDE DEF Q
  <2>1. 0..n \subseteq Q
    BY <1>9, <1>10, Induction
  <2> QED  BY <2>1
<1>12. step[G[n]] = G[n]
  BY <1>11 DEF Nears, StaysIn
<1> QED  BY <1>7, <1>11, <1>12

\* What Each makes of s: L[k] is how long the first k pieces are together.
PiecesAt(C, t, s, e, L) ==
    /\ t \in Seq(C) /\ L \in [0..Len(s) -> Nat] /\ L[0] = 0 /\ Len(t) = L[Len(s)]
    /\ \A k \in 1..Len(s) : /\ L[k] = L[k - 1] + Len(e[s[k]]) /\ L[k] <= Len(t)
                            /\ \A j \in 1..Len(e[s[k]]) : t[L[k - 1] + j] = e[s[k]][j]

Pieces(C, piece, n) == n \in Nat /\ \A i \in 1..n : piece[i] \in Seq(C)
Joins(C, F, piece, n) ==
    /\ F \in [0..n -> Seq(C)] /\ F[0] = <<>>
    /\ \A i \in 1..n : F[i] = F[i - 1] \o piece[i]

LEMMA Joined ==
    ASSUME NEW C, NEW piece, NEW n, Pieces(C, piece, n)
    PROVE  \E F : Joins(C, F, piece, n)
<1>a. PICK X : X = Seq(C)
  OBVIOUS
<1>0. n \in Nat /\ \A i \in 1..n : piece[i] \in X
  BY <1>a DEF Pieces
<1>1. PICK step : step = [i \in 1..n |-> [y \in X |-> y \o piece[i]]]
  OBVIOUS
<1>2. step \in [1..n -> [X -> X]]
  <2>1. ASSUME NEW i \in 1..n, NEW y \in X PROVE y \o piece[i] \in X
    BY <1>a, <1>0
  <2> QED  BY <1>1, <2>1
<1>3. PICK F \in [0..n -> X] : F[0] = <<>> /\ \A i \in 1..n : F[i] = step[i][F[i - 1]]
  <2>0. <<>> \in X
    <3>1. <<>> \in Seq(C)
      OBVIOUS
    <3> QED  BY <1>a, <3>1
  <2>1. PICK first \in X : first = <<>>
    BY <2>0
  <2>2. \E F \in [0..n -> X] : F[0] = first /\ \A i \in 1..n : F[i] = step[i][F[i - 1]]
    <3>1. first \in X /\ n \in Nat
      BY <1>0
    <3> QED  BY ONLY <1>2, <3>1, Iteration
  <2> QED  BY <2>1, <2>2
<1>4. ASSUME NEW i \in 1..n PROVE F[i] = F[i - 1] \o piece[i]
  <2>1. F[i - 1] \in X
    BY <1>0
  <2> QED  BY <1>1, <1>3, <2>1
<1>5. Joins(C, F, piece, n)
  BY <1>a, <1>3, <1>4 DEF Joins
<1> QED  BY <1>5

LEMMA EachIs ==
    ASSUME NEW C, NEW s \in Seq(C), NEW e \in [C -> Seq(C)]
    PROVE  \E L : PiecesAt(C, Each(s, e), s, e, L)
<1>a. PICK n \in Nat : n = Len(s)
  OBVIOUS
<1> DEFINE Is(F) == F = [i \in 0..n |-> IF i = 0 THEN <<>> ELSE F[i - 1] \o e[s[i]]]
           G == CHOOSE F : Is(F)
<1>0. n \in Nat /\ \A i \in 1..n : e[s[i]] \in Seq(C)
  <2>1. ASSUME NEW i \in 1..n PROVE e[s[i]] \in Seq(C)
    <3>1. s[i] \in C
      BY <1>a
    <3> QED  BY <3>1
  <2> QED  BY <2>1
<1>1. PICK piece : piece = [i \in 1..n |-> e[s[i]]]
  OBVIOUS
<1>2. \A i \in 1..n : piece[i] = e[s[i]] /\ piece[i] \in Seq(C)
  BY <1>0, <1>1
<1>3. PICK F \in [0..n -> Seq(C)] :
        F[0] = <<>> /\ \A i \in 1..n : F[i] = F[i - 1] \o piece[i]
  <2>1. Pieces(C, piece, n)
    BY <1>2 DEF Pieces
  <2>2. PICK F : Joins(C, F, piece, n)
    BY <2>1, Joined
  <2> QED  BY <2>2 DEF Joins
<1>4. ASSUME NEW i \in 1..n PROVE F[i] = F[i - 1] \o e[s[i]]
  BY <1>2, <1>3
<1>5. Is(F)
  <2>1. \A i \in 0..n : F[i] = IF i = 0 THEN <<>> ELSE F[i - 1] \o e[s[i]]
    <3> SUFFICES ASSUME NEW i \in 0..n, i # 0 PROVE F[i] = F[i - 1] \o e[s[i]]
      BY <1>3
    <3>1. i \in 1..n
      OBVIOUS
    <3> QED  BY <1>4, <3>1
  <2> QED  BY <2>1
<1>6. Is(G)
  <2> HIDE DEF Is
  <2> QED  BY <1>5
<1>7. Each(s, e) = G[n]
  BY <1>a DEF Each
<1> HIDE DEF G
<1>8. G[0] = <<>> /\ \A i \in 1..n : G[i] = G[i - 1] \o e[s[i]]
  <2>1. G[0] = <<>>
    BY <1>6
  <2>2. ASSUME NEW i \in 1..n PROVE G[i] = G[i - 1] \o e[s[i]]
    <3>1. i \in 0..n /\ i # 0
      OBVIOUS
    <3> QED  BY <1>6, <3>1, Zenon
  <2> QED  BY <2>1, <2>2
<1> DEFINE Built(m) ==
              /\ G[m] \in Seq(C)
              /\ \A k \in 1..m : /\ Len(G[k]) = Len(G[k - 1]) + Len(e[s[k]]) /\ Len(G[k]) <= Len(G[m])
                                 /\ \A j \in 1..Len(e[s[k]]) : G[m][Len(G[k - 1]) + j] = e[s[k]][j]
           Q == {m \in 0..n : \A l \in 0..m : Built(l)}
<1>9. 0 \in Q
  <2>1. G[0] \in Seq(C)
    BY <1>8
  <2>2. Built(0)
    BY <2>1
  <2>3. \A l \in 0..0 : l = 0
    OBVIOUS
  <2> HIDE DEF Built
  <2> QED  BY <2>2, <2>3
<1>10. ASSUME NEW m \in 1..n, m - 1 \in Q
       PROVE  m \in Q
  <2>1. \A l \in 0..(m - 1) : Built(l)
    BY <1>10
  <2>2. PICK x, p : x = G[m - 1] /\ p = e[s[m]]
    OBVIOUS
  <2>3. x \in Seq(C) /\ p \in Seq(C) /\ G[m] = x \o p
    <3>1. Built(m - 1)
      <4>1. m - 1 \in 0..(m - 1)
        OBVIOUS
      <4> HIDE DEF Built
      <4> QED  BY <2>1, <4>1
    <3>2. G[m - 1] \in Seq(C)
      BY <3>1
    <3>3. G[m] = G[m - 1] \o e[s[m]]
      BY <1>8
    <3> QED  BY <1>0, <2>2, <3>2, <3>3
  <2>4. /\ G[m] \in Seq(C) /\ Len(G[m]) = Len(x) + Len(p)
        /\ \A j \in 1..Len(x) : G[m][j] = x[j]
        /\ \A j \in 1..Len(p) : G[m][Len(x) + j] = p[j]
    BY ONLY <2>3
  <2>5. ASSUME NEW k \in 1..m
        PROVE  /\ Len(G[k]) = Len(G[k - 1]) + Len(e[s[k]]) /\ Len(G[k]) <= Len(G[m])
               /\ \A j \in 1..Len(e[s[k]]) : G[m][Len(G[k - 1]) + j] = e[s[k]][j]
    <3>1. CASE k = m
      <4>1. Len(G[k]) = Len(G[k - 1]) + Len(e[s[k]]) /\ Len(G[k]) <= Len(G[m])
        <5>1. PICK b \in Nat, c \in Nat : b = Len(x) /\ c = Len(p)
          BY <2>3
        <5>2. Len(G[m]) = b + c /\ Len(G[m - 1]) = b /\ Len(e[s[m]]) = c
          BY <2>2, <2>4, <5>1
        <5> QED  BY <3>1, <5>2
      <4>2. \A j \in 1..Len(e[s[k]]) : G[m][Len(G[k - 1]) + j] = e[s[k]][j]
        BY <2>2, <2>4, <3>1
      <4> QED  BY <4>1, <4>2
    <3>2. CASE k # m
      <4>1. k \in 1..(m - 1) /\ k \in 0..(m - 1) /\ k - 1 \in 0..(m - 1) /\ m - 1 \in 0..(m - 1)
        BY <3>2
      <4>2. Built(m - 1)
        BY <2>1, <4>1
      <4>3. G[k] \in Seq(C) /\ G[k - 1] \in Seq(C)
        BY <2>1, <4>1
      <4>4. /\ Len(G[k]) = Len(G[k - 1]) + Len(e[s[k]]) /\ Len(G[k]) <= Len(x)
            /\ \A j \in 1..Len(e[s[k]]) : x[Len(G[k - 1]) + j] = e[s[k]][j]
        BY <2>2, <4>1, <4>2
      <4>5. ASSUME NEW j \in 1..Len(e[s[k]])
            PROVE  G[m][Len(G[k - 1]) + j] = e[s[k]][j]
        <5>1. PICK a \in Nat, b \in Nat, c \in Nat : a = Len(G[k - 1]) /\ b = Len(e[s[k]]) /\ c = Len(x)
          BY <1>0, <2>3, <4>3, SMTT(20)
        <5>2. a + b <= c
          <6>1. Len(G[k]) = a + b /\ Len(G[k]) <= c
            BY <4>4, <5>1
          <6> QED  BY <6>1
        <5>3. a + j \in 1..c
          <6>1. j \in 1..b
            BY <5>1
          <6> QED  BY ONLY <6>1, <5>2, a \in Nat, b \in Nat, c \in Nat
        <5> QED  BY <2>4, <4>4, <5>1, <5>3
      <4>6. Len(G[k]) <= Len(G[m])
        <5>1. PICK a \in Nat, b \in Nat, c \in Nat : a = Len(G[k]) /\ b = Len(x) /\ c = Len(p)
          BY <2>3, <4>3
        <5>2. a <= b + c
          <6>1. a <= b
            BY <4>4, <5>1
          <6> QED  BY <5>1, <6>1
        <5>3. Len(G[m]) = b + c
          BY <2>4, <5>1
        <5> QED  BY <5>1, <5>2, <5>3
      <4> QED  BY <4>4, <4>5, <4>6
    <3> QED  BY <3>1, <3>2
  <2>6. Built(m)
    BY <2>4, <2>5
  <2>7. ASSUME NEW l \in 0..m PROVE Built(l)
    <3>1. CASE l = m
      <4> HIDE DEF Built
      <4> QED  BY <2>6, <3>1
    <3>2. CASE l # m
      <4>1. l \in 0..(m - 1)
        BY <3>2
      <4> HIDE DEF Built
      <4> QED  BY <2>1, <4>1
    <3> QED  BY <3>1, <3>2
  <2> HIDE DEF Built
  <2> QED  BY <2>7
<1>11. n \in Q
  <2> HIDE DEF Q
  <2>1. 0..n \subseteq Q
    BY ONLY <1>0, <1>9, <1>10, Induction
  <2> QED  BY <1>0, <2>1
<1>12. \A l \in 0..n : Built(l)
  <2> HIDE DEF Built
  <2> QED  BY <1>11
<1>13. PICK L : L = [k \in 0..n |-> Len(G[k])]
  OBVIOUS
<1>14. \A k \in 0..n : L[k] = Len(G[k]) /\ L[k] \in Nat
  BY <1>12, <1>13
<1>15. PiecesAt(C, G[n], s, e, L)
  <2>1. Built(n)
    <3>1. n \in 0..n
      BY <1>0
    <3> HIDE DEF Built
    <3> QED  BY <1>12, <3>1
  <2>2. L \in [0..n -> Nat] /\ L[0] = 0 /\ Len(G[n]) = L[n]
    <3>1. L[0] = 0
      <4>1. G[0] = <<>> /\ 0 \in 0..n /\ Len(<<>>) = 0
        BY <1>0, <1>8
      <4> QED  BY <1>14, <4>1
    <3>2. L \in [0..n -> Nat]
      BY <1>13, <1>14
    <3> QED  BY <1>0, <1>14, <3>1, <3>2
  <2>3. ASSUME NEW k \in 1..n
        PROVE  /\ L[k] = L[k - 1] + Len(e[s[k]]) /\ L[k] <= Len(G[n])
               /\ \A j \in 1..Len(e[s[k]]) : G[n][L[k - 1] + j] = e[s[k]][j]
    <3>1. L[k] = Len(G[k]) /\ L[k - 1] = Len(G[k - 1])
      BY <1>0, <1>14
    <3> QED  BY <2>1, <3>1
  <2>4. G[n] \in Seq(C)
    BY <2>1
  <2> QED  BY <1>a, <2>2, <2>3, <2>4 DEF PiecesAt
<1> QED  BY <1>7, <1>15


\* The piece between two cuts is what the pattern's character i stands for,
\* and the pattern from j on describes the text from i on.
Piece(str, pattern, cut, k) ==
    IF pattern[k] = "*" THEN cut[k - 1] <= cut[k]
    ELSE cut[k] = cut[k - 1] + 1 /\ pattern[k] \in {"?", str[cut[k]]}
Cuts(str, pattern, j) == [(j - 1)..Len(pattern) -> 0..Len(str)]
Describes(str, pattern, i, j) ==
    \E cut \in Cuts(str, pattern, j) :
        /\ cut[j - 1] = i - 1 /\ cut[Len(pattern)] = Len(str)
        /\ \A k \in j..Len(pattern) : Piece(str, pattern, cut, k)

LEMMA DescribesNothing ==
    ASSUME NEW str \in Seq(Characters), NEW pattern \in Seq(Characters), NEW i \in 1..(Len(str) + 1)
    PROVE  Describes(str, pattern, i, Len(pattern) + 1) <=> i = Len(str) + 1
<1>1. ASSUME i = Len(str) + 1 PROVE Describes(str, pattern, i, Len(pattern) + 1)
  <2>1. [k \in (Len(pattern) + 1 - 1)..Len(pattern) |-> Len(str)] \in Cuts(str, pattern, Len(pattern) + 1)
    BY DEF Cuts
  <2> QED  BY <1>1, <2>1 DEF Describes
<1>2. ASSUME Describes(str, pattern, i, Len(pattern) + 1) PROVE i = Len(str) + 1
  <2>1. PICK cut : cut[Len(pattern) + 1 - 1] = i - 1 /\ cut[Len(pattern)] = Len(str)
    BY <1>2 DEF Describes
  <2> QED  BY <2>1
<1> QED  BY <1>1, <1>2

\* A cut before the others, and the cuts without their first.
LEMMA CutBefore ==
    ASSUME NEW str \in Seq(Characters), NEW pattern \in Seq(Characters),
           NEW i \in 1..(Len(str) + 1), NEW t \in 1..(Len(str) + 1), NEW j \in 1..Len(pattern),
           Describes(str, pattern, t, j + 1),
           IF pattern[j] = "*" THEN i <= t ELSE t = i + 1 /\ pattern[j] \in {"?", str[i]}
    PROVE  Describes(str, pattern, i, j)
<1>1. PICK cut \in Cuts(str, pattern, j + 1) :
        /\ cut[j] = t - 1 /\ cut[Len(pattern)] = Len(str)
        /\ \A k \in (j + 1)..Len(pattern) : Piece(str, pattern, cut, k)
  BY DEF Describes
<1>2. PICK new : new = [k \in (j - 1)..Len(pattern) |-> IF k = j - 1 THEN i - 1 ELSE cut[k]]
  OBVIOUS
<1>3. cut \in [j..Len(pattern) -> 0..Len(str)]
  BY <1>1 DEF Cuts
<1>4. new \in Cuts(str, pattern, j) /\ new[j - 1] = i - 1
      /\ \A k \in j..Len(pattern) : new[k] = cut[k]
  BY <1>2, <1>3 DEF Cuts
<1>5. ASSUME NEW k \in j..Len(pattern) PROVE Piece(str, pattern, new, k)
  <2>1. CASE k = j
    BY <1>1, <1>4, <2>1 DEF Piece
  <2>2. CASE k # j
    <3>1. k \in (j + 1)..Len(pattern) /\ k - 1 \in j..Len(pattern)
      BY <2>2
    <3> QED  BY <1>1, <1>4, <3>1 DEF Piece
  <2> QED  BY <2>1, <2>2
<1>6. new[Len(pattern)] = Len(str)
  BY <1>1, <1>4
<1> QED  BY <1>4, <1>5, <1>6 DEF Describes

LEMMA CutAfter ==
    ASSUME NEW str \in Seq(Characters), NEW pattern \in Seq(Characters),
           NEW i \in 1..(Len(str) + 1), NEW j \in 1..Len(pattern), Describes(str, pattern, i, j)
    PROVE  \E t \in 1..(Len(str) + 1) :
              /\ Describes(str, pattern, t, j + 1)
              /\ IF pattern[j] = "*" THEN i <= t ELSE t = i + 1 /\ pattern[j] \in {"?", str[i]}
<1>1. PICK cut \in Cuts(str, pattern, j) :
        /\ cut[j - 1] = i - 1 /\ cut[Len(pattern)] = Len(str)
        /\ \A k \in j..Len(pattern) : Piece(str, pattern, cut, k)
  BY DEF Describes
<1>2. PICK new : new = [k \in j..Len(pattern) |-> cut[k]]
  OBVIOUS
<1>3. cut \in [(j - 1)..Len(pattern) -> 0..Len(str)]
  BY <1>1 DEF Cuts
<1>4. new \in [j..Len(pattern) -> 0..Len(str)] /\ \A k \in j..Len(pattern) : new[k] = cut[k]
  BY <1>2, <1>3
<1>5. new \in Cuts(str, pattern, j + 1) /\ j + 1 - 1 = j
  BY <1>4 DEF Cuts
<1>6. ASSUME NEW k \in (j + 1)..Len(pattern) PROVE Piece(str, pattern, new, k)
  <2>1. k \in j..Len(pattern) /\ k - 1 \in j..Len(pattern)
    OBVIOUS
  <2> QED  BY <1>1, <1>4, <2>1 DEF Piece
<1>7. cut[j] \in 0..Len(str) /\ new[j] = cut[j] /\ new[Len(pattern)] = Len(str)
  BY <1>1, <1>3, <1>4
<1>8. Describes(str, pattern, cut[j] + 1, j + 1)
  BY <1>5, <1>6, <1>7 DEF Describes
<1>9. Piece(str, pattern, cut, j) /\ cut[j - 1] = i - 1
  BY <1>1
<1> QED  BY <1>7, <1>8, <1>9, SMTT(20) DEF Piece

\* Characters of the pattern that are not stars stand for one character each.
NoStars(pattern, j, p) == \A k \in j..(p - 1) : pattern[k] # "*"

LEMMA ReadsOn ==
    ASSUME NEW str \in Seq(Characters), NEW pattern \in Seq(Characters),
           NEW i \in 1..(Len(str) + 1), NEW j \in 1..(Len(pattern) + 1), NEW p \in j..(Len(pattern) + 1),
           NoStars(pattern, j, p), Describes(str, pattern, i, j)
    PROVE  i + (p - j) <= Len(str) + 1 /\ Describes(str, pattern, i + (p - j), p)
<1> DEFINE P == {d \in 0..(p - j) : i + d <= Len(str) + 1 /\ Describes(str, pattern, i + d, j + d)}
<1>1. 0 \in P
  <2>1. i + 0 = i /\ j + 0 = j
    OBVIOUS
  <2> QED  BY <2>1
<1>2. ASSUME NEW d \in 1..(p - j), d - 1 \in P
      PROVE  d \in P
  <2>1. PICK s \in 1..(Len(str) + 1), k \in 1..Len(pattern) : s = i + (d - 1) /\ k = j + (d - 1)
    BY <1>2
  <2>2. Describes(str, pattern, s, k)
    BY <1>2, <2>1
  <2>3. pattern[k] # "*"
    BY <2>1 DEF NoStars
  <2>4. s + 1 \in 1..(Len(str) + 1) /\ Describes(str, pattern, s + 1, k + 1)
    BY <2>2, <2>3, CutAfter
  <2>5. s + 1 = i + d /\ k + 1 = j + d
    BY <2>1
  <2> QED  BY <2>4, <2>5
<1>3. p - j \in P
  <2> HIDE DEF P
  <2>1. p - j \in Nat
    OBVIOUS
  <2>2. 0..(p - j) \subseteq P
    BY <1>1, <1>2, <2>1, Induction
  <2> QED  BY <2>1, <2>2
<1>4. j + (p - j) = p
  OBVIOUS
<1> QED  BY <1>3, <1>4

\* What they stand for has been found from i on.
Found(str, pattern, i, j, p) ==
    \A k \in j..(p - 1) : /\ pattern[k] # "*" /\ i + (k - j) <= Len(str)
                          /\ pattern[k] \in {"?", str[i + (k - j)]}

LEMMA ReadsBackwards ==
    ASSUME NEW str \in Seq(Characters), NEW pattern \in Seq(Characters),
           NEW i \in 1..(Len(str) + 1), NEW j \in 1..(Len(pattern) + 1), NEW p \in j..(Len(pattern) + 1),
           Found(str, pattern, i, j, p), i + (p - j) <= Len(str) + 1,
           Describes(str, pattern, i + (p - j), p)
    PROVE  Describes(str, pattern, i, j)
<1> DEFINE P == {d \in 0..(p - j) : Describes(str, pattern, i + (p - j) - d, p - d)}
<1>1. 0 \in P
  <2>1. i + (p - j) - 0 = i + (p - j) /\ p - 0 = p
    OBVIOUS
  <2> QED  BY <2>1
<1>2. ASSUME NEW d \in 1..(p - j), d - 1 \in P
      PROVE  d \in P
  <2>1. PICK s \in 1..(Len(str) + 1), k \in 1..Len(pattern) :
            s + 1 \in 1..(Len(str) + 1) /\ k \in j..(p - 1) /\ s = i + (p - j) - d /\ k = p - d
    BY <1>2
  <2>2. s + 1 = i + (p - j) - (d - 1) /\ k + 1 = p - (d - 1) /\ s = i + (k - j)
    BY <2>1
  <2>3. Describes(str, pattern, s + 1, k + 1)
    BY <1>2, <2>2
  <2>4. pattern[k] # "*" /\ pattern[k] \in {"?", str[s]}
    BY <2>1, <2>2 DEF Found
  <2>5. Describes(str, pattern, s, k)
    BY <2>1, <2>3, <2>4, CutBefore
  <2> QED  BY <2>1, <2>5
<1>3. p - j \in P
  <2> HIDE DEF P
  <2>1. p - j \in Nat
    OBVIOUS
  <2>2. 0..(p - j) \subseteq P
    BY <1>1, <1>2, <2>1, Induction
  <2> QED  BY <2>1, <2>2
<1>4. i + (p - j) - (p - j) = i /\ p - (p - j) = j
  OBVIOUS
<1> QED  BY <1>3, <1>4

\* Behind the text's end only stars describe anything.
LEMMA OnlyStarsLeft ==
    ASSUME NEW str \in Seq(Characters), NEW pattern \in Seq(Characters), NEW p \in 1..(Len(pattern) + 1)
    PROVE  Describes(str, pattern, Len(str) + 1, p) <=> \A k \in p..Len(pattern) : pattern[k] = "*"
<1> DEFINE m == Len(pattern)
           end == Len(str) + 1
           Stars(j) == \A k \in j..Len(pattern) : pattern[k] = "*"
           P == {d \in 0..m : Describes(str, pattern, end, m + 1 - d) <=> Stars(m + 1 - d)}
<1>0. m \in Nat /\ end \in 1..(Len(str) + 1)
  OBVIOUS
<1>1. 0 \in P
  <2>1. m + 1 - 0 = m + 1 /\ Stars(m + 1)
    OBVIOUS
  <2> QED  BY <2>1, <1>0, DescribesNothing
<1>2. ASSUME NEW d \in 1..m, d - 1 \in P
      PROVE  d \in P
  <2>1. PICK j \in 1..m : j = m + 1 - d
    <3>1. m + 1 - d \in 1..m
      BY <1>0, <1>2
    <3> QED  BY <3>1
  <2>2. j + 1 = m + 1 - (d - 1)
    BY <2>1
  <2>3. Describes(str, pattern, end, j + 1) <=> Stars(j + 1)
    BY <1>2, <2>2
  <2>4. Stars(j) <=> pattern[j] = "*" /\ Stars(j + 1)
    <3> SUFFICES ASSUME pattern[j] = "*", Stars(j + 1) PROVE Stars(j)
      OBVIOUS
    <3> QED  OBVIOUS
  <2>5. Describes(str, pattern, end, j) <=> pattern[j] = "*" /\ Describes(str, pattern, end, j + 1)
    <3>1. ASSUME Describes(str, pattern, end, j)
          PROVE  pattern[j] = "*" /\ Describes(str, pattern, end, j + 1)
      <4> HIDE DEF end
      <4>1. PICK t \in 1..(Len(str) + 1) :
              /\ Describes(str, pattern, t, j + 1)
              /\ IF pattern[j] = "*" THEN end <= t ELSE t = end + 1 /\ pattern[j] \in {"?", str[end]}
        BY <3>1, <1>0, CutAfter
      <4>2. pattern[j] = "*" /\ end = t
        BY <4>1 DEF end
      <4> QED  BY <4>1, <4>2
    <3>2. ASSUME pattern[j] = "*", Describes(str, pattern, end, j + 1)
          PROVE  Describes(str, pattern, end, j)
      <4> HIDE DEF end
      <4> QED  BY <3>2, <1>0, CutBefore
    <3> QED  BY <3>1, <3>2
  <2> QED  BY <2>1, <2>3, <2>4, <2>5
<1>3. m + 1 - p \in P
  <2>1. m + 1 - p \in 0..m
    OBVIOUS
  <2> HIDE DEF P
  <2>2. 0..m \subseteq P
    BY <1>0, <1>1, <1>2, Induction
  <2> QED  BY <2>1, <2>2
<1>4. m + 1 - (m + 1 - p) = p
  OBVIOUS
<1> QED  BY <1>3, <1>4


Plain(str) == str \in Seq(Characters) /\ \A i \in 1..Len(str) : str[i] # "*"
NoChanceYet(str, pattern, x) ==
    x.match = 0 /\ (Describes(str, pattern, 1, 1) <=> Describes(str, pattern, x.s, x.p))
\* What the pattern has behind its last star is found at match so far, and
\* nowhere before.
SinceStar(str, pattern, x) ==
    /\ x.star \in 1..Len(pattern) /\ pattern[x.star] = "*" /\ x.star < x.p
    /\ x.match \in 1..(Len(str) + 1) /\ x.s = x.match + (x.p - (x.star + 1))
    /\ Found(str, pattern, x.match, x.star + 1, x.p)
    /\ Describes(str, pattern, 1, 1) <=>
          \E t \in 1..(Len(str) + 1) : x.match <= t /\ Describes(str, pattern, t, x.star + 1)

Right(str, pattern, x) ==
    /\ x \in Matching
    /\ x.s \in 1..(Len(str) + 1) /\ x.p \in 1..(Len(pattern) + 1)
    /\ x.match <= Len(str) + 1
    /\ IF x.failed THEN ~Describes(str, pattern, 1, 1)
       ELSE IF x.star = 0 THEN NoChanceYet(str, pattern, x)
       ELSE SinceStar(str, pattern, x)

LEMMA StartsRight ==
    ASSUME NEW str \in Seq(Characters), NEW pattern \in Seq(Characters)
    PROVE  Right(str, pattern, At(1, 1, 0, 0))
BY DEF Right, At, Matching, NoChanceYet

LEMMA OneCharacter ==
    ASSUME NEW str, Plain(str), NEW pattern \in Seq(Characters), NEW x, Right(str, pattern, x),
           ~x.failed, x.s <= Len(str), x.p <= Len(pattern), pattern[x.p] \in {"?", str[x.s]}
    PROVE  Right(str, pattern, At(x.s + 1, x.p + 1, x.star, x.match))
<1> DEFINE y == At(x.s + 1, x.p + 1, x.star, x.match)
<1>0. /\ x \in Matching /\ Len(str) \in Nat /\ Len(pattern) \in Nat
      /\ x.s \in Nat /\ x.p \in Nat /\ x.star \in Nat /\ x.match \in Nat /\ x.match <= Len(str) + 1
  BY DEF Right, Plain, Matching
<1>1. /\ x.s \in 1..Len(str) /\ x.p \in 1..Len(pattern) /\ pattern[x.p] # "*" /\ str \in Seq(Characters)
      /\ x.s \in 1..(Len(str) + 1) /\ x.s + 1 \in 1..(Len(str) + 1)
  BY DEF Plain, Right
<1>2. /\ y \in Matching /\ y.s = x.s + 1 /\ y.p = x.p + 1
      /\ y.star = x.star /\ y.match = x.match /\ ~y.failed
  BY ONLY <1>0 DEF Matching, At
<1> SUFFICES Right(str, pattern, y)
  OBVIOUS
<1> HIDE DEF y
<1>3. CASE x.star = 0
  <2>1. Describes(str, pattern, x.s, x.p) <=> Describes(str, pattern, x.s + 1, x.p + 1)
    <3>1. ASSUME Describes(str, pattern, x.s, x.p) PROVE Describes(str, pattern, x.s + 1, x.p + 1)
      BY <1>1, <3>1, CutAfter
    <3>2. ASSUME Describes(str, pattern, x.s + 1, x.p + 1) PROVE Describes(str, pattern, x.s, x.p)
      BY <1>1, <3>2, CutBefore
    <3> QED  BY <3>1, <3>2
  <2>2. NoChanceYet(str, pattern, y)
    BY <1>2, <1>3, <2>1 DEF Right, NoChanceYet
  <2> QED  BY <1>0, <1>1, <1>2, <1>3, <2>2 DEF Right
<1>4. CASE x.star # 0
  <2>1. SinceStar(str, pattern, x)
    BY <1>4 DEF Right
  <2>2. ASSUME NEW k \in (y.star + 1)..(y.p - 1)
        PROVE  /\ pattern[k] # "*" /\ y.match + (k - (y.star + 1)) <= Len(str)
               /\ pattern[k] \in {"?", str[y.match + (k - (y.star + 1))]}
    <3>1. CASE k = x.p
      BY <1>1, <1>2, <2>1, <3>1 DEF SinceStar
    <3>2. CASE k # x.p
      <4>1. k \in (x.star + 1)..(x.p - 1)
        BY <1>1, <1>2, <2>1, <3>2, SMTT(20) DEF SinceStar
      <4> QED  BY <1>2, <2>1, <4>1 DEF SinceStar, Found
    <3> QED  BY <3>1, <3>2
  <2>3. Found(str, pattern, y.match, y.star + 1, y.p)
    BY <2>2 DEF Found
  <2>4. y.star < y.p /\ y.s = y.match + (y.p - (y.star + 1))
    <3>1. x.star < x.p /\ x.s = x.match + (x.p - (x.star + 1))
      BY <2>1 DEF SinceStar
    <3>2. y.star = x.star /\ y.p = x.p + 1 /\ y.s = x.s + 1 /\ y.match = x.match
      BY <1>2
    <3>3. PICK a \in Nat, b \in Nat, c \in Nat, d \in Nat :
            a = x.star /\ b = x.p /\ c = x.s /\ d = x.match
      BY <1>0
    <3>4. a < b /\ c = d + (b - (a + 1))
      BY <3>1, <3>3, Zenon
    <3>5. a < b + 1 /\ c + 1 = d + (b + 1 - (a + 1))
      BY ONLY <3>4, a \in Nat, b \in Nat, c \in Nat, d \in Nat
    <3>6. y.star = a /\ y.p = b + 1 /\ y.s = c + 1 /\ y.match = d
      BY <3>2, <3>3
    <3>7. y.star < y.p
      BY <3>5, <3>6
    <3>8. y.s = y.match + (y.p - (y.star + 1))
      BY <3>5, <3>6
    <3> QED  BY <3>7, <3>8
  <2>5. SinceStar(str, pattern, y)
    BY <1>2, <2>1, <2>3, <2>4 DEF SinceStar
  <2> QED  BY <1>0, <1>1, <1>2, <1>4, <2>5 DEF Right
<1> QED  BY <1>3, <1>4

LEMMA NewStar ==
    ASSUME NEW str, Plain(str), NEW pattern \in Seq(Characters), NEW x, Right(str, pattern, x),
           ~x.failed, x.s <= Len(str), x.p <= Len(pattern), pattern[x.p] = "*"
    PROVE  Right(str, pattern, At(x.s, x.p + 1, x.p, x.s))
<1> DEFINE y == At(x.s, x.p + 1, x.p, x.s)
<1>0. /\ x \in Matching /\ Len(str) \in Nat /\ Len(pattern) \in Nat
      /\ x.s \in Nat /\ x.p \in Nat /\ x.star \in Nat /\ x.match \in Nat /\ x.match <= Len(str) + 1
  BY DEF Right, Plain, Matching
<1>1. /\ x.s \in 1..Len(str) /\ x.p \in 1..Len(pattern) /\ str \in Seq(Characters)
      /\ x.s \in 1..(Len(str) + 1)
  BY DEF Plain, Right
<1>2. /\ y \in Matching /\ y.s = x.s /\ y.p = x.p + 1
      /\ y.star = x.p /\ y.match = x.s /\ ~y.failed
  BY ONLY <1>0 DEF Matching, At
<1> SUFFICES Right(str, pattern, y)
  OBVIOUS
<1> HIDE DEF y
<1>3. Describes(str, pattern, x.s, x.p) <=>
          \E t \in 1..(Len(str) + 1) : x.s <= t /\ Describes(str, pattern, t, x.p + 1)
  <2>1. ASSUME Describes(str, pattern, x.s, x.p)
        PROVE  \E t \in 1..(Len(str) + 1) : x.s <= t /\ Describes(str, pattern, t, x.p + 1)
    BY <1>1, <2>1, CutAfter
  <2>2. ASSUME NEW t \in 1..(Len(str) + 1), x.s <= t, Describes(str, pattern, t, x.p + 1)
        PROVE  Describes(str, pattern, x.s, x.p)
    BY <1>1, <2>2, CutBefore
  <2> QED  BY <2>1, <2>2
<1>4. Describes(str, pattern, 1, 1) <=>
          \E t \in 1..(Len(str) + 1) : x.s <= t /\ Describes(str, pattern, t, x.p + 1)
  <2>1. CASE x.star = 0
    BY <1>3, <2>1 DEF Right, NoChanceYet
  <2>2. CASE x.star # 0
    <3>1. SinceStar(str, pattern, x)
      BY <2>2 DEF Right
    <3>2. PICK j, d : j = x.star + 1 /\ d = x.p - j
      OBVIOUS
    <3>3. j \in 1..(Len(pattern) + 1) /\ x.p \in j..(Len(pattern) + 1) /\ d \in Nat
          /\ x.s = x.match + d /\ x.match \in 1..(Len(str) + 1)
      <4>1. /\ x.star < x.p /\ x.s = x.match + (x.p - (x.star + 1))
            /\ x.star \in 1..Len(pattern) /\ x.match \in 1..(Len(str) + 1)
        BY <3>1 DEF SinceStar
      <4>2. PICK e, b, m : e = x.star /\ b = x.p /\ m = x.match
        OBVIOUS
      <4>3. PICK n, l : n = Len(pattern) /\ l = Len(str)
        OBVIOUS
      <4>4. /\ n \in Nat /\ l \in Nat /\ e < b /\ e \in 1..n /\ m \in 1..(l + 1)
            /\ b \in 1..(n + 1) /\ j = e + 1 /\ d = b - j /\ x.s = m + (b - (e + 1))
        BY <1>0, <1>1, <3>2, <4>1, <4>2, <4>3
      <4>5. j \in 1..(n + 1) /\ b \in j..(n + 1) /\ d \in Nat /\ x.s = m + d
        BY ONLY <4>4
      <4> QED  BY <4>2, <4>3, <4>4, <4>5
    <3>4. ASSUME NEW t \in 1..(Len(str) + 1), x.match <= t, Describes(str, pattern, t, j)
          PROVE  \E u \in 1..(Len(str) + 1) : x.s <= u /\ Describes(str, pattern, u, x.p + 1)
      <4>1. NoStars(pattern, j, x.p)
        BY <3>1, <3>2 DEF SinceStar, NoStars, Found
      <4>2. t + (x.p - j) <= Len(str) + 1 /\ Describes(str, pattern, t + (x.p - j), x.p)
        BY <1>1, <3>3, <3>4, <4>1, ReadsOn
      <4>3. PICK v : v = t + (x.p - j)
        OBVIOUS
      <4>4. v \in 1..(Len(str) + 1) /\ x.s <= v /\ Describes(str, pattern, v, x.p)
        <5>1. v = t + d /\ v <= Len(str) + 1 /\ v \in 1..(Len(str) + 1)
          BY ONLY <1>0, <3>2, <3>3, <4>2, <4>3, SMTT(20)
        <5>2. x.s <= v
          BY ONLY <1>0, <3>2, <3>3, <3>4, <5>1
        <5> QED  BY <4>2, <4>3, <5>1, <5>2
      <4>5. \E u \in 1..(Len(str) + 1) : v <= u /\ Describes(str, pattern, u, x.p + 1)
        BY <1>1, <4>4, CutAfter
      <4> QED  BY <4>4, <4>5, <1>1
    <3>5. ASSUME NEW u \in 1..(Len(str) + 1), x.s <= u, Describes(str, pattern, u, x.p + 1)
          PROVE  Describes(str, pattern, x.match, j)
      <4>1. Describes(str, pattern, x.s, x.p)
        BY <1>3, <3>5
      <4>2. Found(str, pattern, x.match, j, x.p)
        BY <3>1, <3>2 DEF SinceStar
      <4>3. x.match + (x.p - j) = x.s
        BY <3>2, <3>3
      <4>4. x.match + (x.p - j) <= Len(str) + 1 /\ Describes(str, pattern, x.match + (x.p - j), x.p)
        BY <1>1, <4>1, <4>3
      <4> QED  BY <1>1, <3>3, <4>2, <4>4, ReadsBackwards
    <3>6. Describes(str, pattern, 1, 1) <=>
              \E t \in 1..(Len(str) + 1) : x.match <= t /\ Describes(str, pattern, t, j)
      BY <3>1, <3>2 DEF SinceStar
    <3>7. x.match <= x.match
      BY <3>3
    <3> QED  BY <3>3, <3>4, <3>5, <3>6, <3>7
  <2> QED  BY <2>1, <2>2
<1>5. Found(str, pattern, y.match, y.star + 1, y.p)
  BY <1>1, <1>2 DEF Found
<1>6. y.star < y.p /\ y.s = y.match + (y.p - (y.star + 1)) /\ y.star # 0
  <2>1. PICK a \in Nat, b \in Nat : a = x.s /\ b = x.p /\ b # 0
    BY <1>0, <1>1
  <2>2. y.s = a /\ y.p = b + 1 /\ y.star = b /\ y.match = a
    BY <1>2, <2>1
  <2>3. b < b + 1 /\ a = a + (b + 1 - (b + 1)) /\ b # 0
    BY <2>1
  <2> QED  BY <2>2, <2>3
<1>7. SinceStar(str, pattern, y)
  BY <1>1, <1>2, <1>4, <1>5, <1>6 DEF SinceStar
<1>8. y.s \in 1..(Len(str) + 1) /\ y.p \in 1..(Len(pattern) + 1) /\ y.match <= Len(str) + 1
  BY <1>1, <1>2
<1>9. Right(str, pattern, y)
  BY <1>2, <1>6, <1>7, <1>8 DEF Right
<1> QED  BY <1>9

LEMMA BackToStar ==
    ASSUME NEW str, Plain(str), NEW pattern \in Seq(Characters), NEW x, Right(str, pattern, x),
           ~x.failed, x.s <= Len(str), x.star # 0,
           ~(x.p <= Len(pattern) /\ (pattern[x.p] = "*" \/ pattern[x.p] \in {"?", str[x.s]}))
    PROVE  Right(str, pattern, At(x.match + 1, x.star + 1, x.star, x.match + 1))
<1> DEFINE y == At(x.match + 1, x.star + 1, x.star, x.match + 1)
<1> SUFFICES Right(str, pattern, y)
  OBVIOUS
<1>0. /\ x \in Matching /\ Len(str) \in Nat /\ Len(pattern) \in Nat
      /\ x.s \in Nat /\ x.p \in Nat /\ x.star \in Nat /\ x.match \in Nat /\ x.match <= Len(str) + 1
  BY DEF Right, Plain, Matching
<1>1. /\ x.s \in 1..Len(str) /\ x.p \in 1..(Len(pattern) + 1) /\ str \in Seq(Characters)
      /\ x.s \in 1..(Len(str) + 1)
  BY DEF Plain, Right
<1>2. /\ y \in Matching /\ y.s = x.match + 1 /\ y.p = x.star + 1
      /\ y.star = x.star /\ y.match = x.match + 1 /\ ~y.failed
  BY ONLY <1>0 DEF Matching, At
<1> HIDE DEF y
<1>3. SinceStar(str, pattern, x)
  BY DEF Right
<1>4. /\ x.star < x.p /\ x.s = x.match + (x.p - (x.star + 1))
      /\ x.star \in 1..Len(pattern) /\ x.match \in 1..(Len(str) + 1) /\ pattern[x.star] = "*"
  BY <1>3 DEF SinceStar
<1>5. PICK j, d : j = x.star + 1 /\ d = x.p - j
  OBVIOUS
<1>6. j \in 1..(Len(pattern) + 1) /\ x.p \in j..(Len(pattern) + 1) /\ d \in Nat
      /\ x.s = x.match + d /\ x.match + 1 \in 1..(Len(str) + 1)
  <2>1. j \in 1..(Len(pattern) + 1) /\ x.p \in j..(Len(pattern) + 1) /\ d \in Nat
    <3>1. PICK a \in 1..Len(pattern), b \in 1..(Len(pattern) + 1) : a = x.star /\ b = x.p
      BY <1>1, <1>4
    <3>2. a < b /\ j = a + 1 /\ d = b - j
      BY <1>4, <1>5, <3>1
    <3>3. j \in 1..(Len(pattern) + 1) /\ b \in j..(Len(pattern) + 1) /\ d \in Nat
      BY ONLY <1>0, <3>2, a \in 1..Len(pattern), b \in 1..(Len(pattern) + 1)
    <3> QED  BY <3>1, <3>3
  <2>2. x.s = x.match + d
    BY <1>4, <1>5
  <2>3. PICK s \in Nat, t \in Nat : s = x.s /\ t = x.match
    BY <1>0
  <2>4. t + 1 \in 1..(Len(str) + 1)
    BY ONLY <1>0, <1>1, <2>1, <2>2, <2>3
  <2> QED  BY <2>1, <2>2, <2>3, <2>4
<1>7. ~Describes(str, pattern, x.match, j)
  <2> SUFFICES ASSUME Describes(str, pattern, x.match, j) PROVE FALSE
    OBVIOUS
  <2>1. NoStars(pattern, j, x.p)
    BY <1>3, <1>5 DEF SinceStar, NoStars, Found
  <2>2. Describes(str, pattern, x.match + (x.p - j), x.p)
    BY <1>1, <1>4, <1>6, <2>1, ReadsOn
  <2>3. x.match + (x.p - j) = x.s
    BY <1>5, <1>6
  <2>4. Describes(str, pattern, x.s, x.p)
    BY <2>2, <2>3
  <2>5. CASE x.p = Len(pattern) + 1
    <3>1. x.s = Len(str) + 1
      BY <1>1, <2>4, <2>5, DescribesNothing
    <3> QED  BY <1>0, <3>1
  <2>6. CASE x.p # Len(pattern) + 1
    <3>1. x.p \in 1..Len(pattern)
      BY <1>1, <2>6
    <3>2. pattern[x.p] # "*" /\ pattern[x.p] \notin {"?", str[x.s]}
      BY <3>1
    <3> QED  BY <1>1, <2>4, <3>1, <3>2, CutAfter
  <2> QED  BY <2>5, <2>6
<1>8. \A t \in 1..(Len(str) + 1) : x.match <= t /\ Describes(str, pattern, t, j) <=>
                                     x.match + 1 <= t /\ Describes(str, pattern, t, j)
  <2> SUFFICES ASSUME NEW t \in 1..(Len(str) + 1), Describes(str, pattern, t, j)
               PROVE  x.match <= t <=> x.match + 1 <= t
    OBVIOUS
  <2>1. t # x.match
    BY <1>7
  <2> QED  BY <1>0, <2>1
<1>9. Describes(str, pattern, 1, 1) <=>
          \E t \in 1..(Len(str) + 1) : y.match <= t /\ Describes(str, pattern, t, y.star + 1)
  <2>1. Describes(str, pattern, 1, 1) <=>
            \E t \in 1..(Len(str) + 1) : x.match <= t /\ Describes(str, pattern, t, j)
    BY <1>3, <1>5 DEF SinceStar
  <2> QED  BY <1>2, <1>5, <1>8, <2>1
<1>10. Found(str, pattern, y.match, y.star + 1, y.p)
  BY <1>0, <1>2 DEF Found
<1>11. y.star < y.p /\ y.s = y.match + (y.p - (y.star + 1)) /\ y.star # 0
  BY ONLY <1>0, <1>2, <1>4
<1>12. SinceStar(str, pattern, y)
  BY <1>2, <1>4, <1>6, <1>9, <1>10, <1>11 DEF SinceStar
<1>13. y.s \in 1..(Len(str) + 1) /\ y.p \in 1..(Len(pattern) + 1) /\ y.match <= Len(str) + 1
  <2>1. x.star + 1 \in 1..(Len(pattern) + 1)
    BY <1>5, <1>6
  <2>2. x.match + 1 \in 1..(Len(str) + 1) /\ x.match + 1 <= Len(str) + 1
    BY ONLY <1>0, <1>6
  <2> QED  BY <1>2, <2>1, <2>2
<1> QED  BY <1>2, <1>11, <1>12, <1>13 DEF Right

LEMMA NoStarToGoBackTo ==
    ASSUME NEW str, Plain(str), NEW pattern \in Seq(Characters), NEW x, Right(str, pattern, x),
           ~x.failed, x.s <= Len(str), x.star = 0,
           ~(x.p <= Len(pattern) /\ (pattern[x.p] = "*" \/ pattern[x.p] \in {"?", str[x.s]}))
    PROVE  Right(str, pattern, [x EXCEPT !.failed = TRUE])
<1> DEFINE y == [x EXCEPT !.failed = TRUE]
<1> SUFFICES Right(str, pattern, y)
  OBVIOUS
<1>0. /\ x \in Matching /\ Len(str) \in Nat /\ Len(pattern) \in Nat
      /\ x.s \in Nat /\ x.p \in Nat /\ x.match <= Len(str) + 1
  BY DEF Right, Plain, Matching
<1>1. /\ x.s \in 1..Len(str) /\ x.p \in 1..(Len(pattern) + 1) /\ str \in Seq(Characters)
      /\ x.s \in 1..(Len(str) + 1)
  BY DEF Plain, Right
<1>2. y \in Matching /\ y.s = x.s /\ y.p = x.p /\ y.match = x.match /\ y.failed
  BY ONLY <1>0 DEF Matching
<1> HIDE DEF y
<1>3. ~Describes(str, pattern, x.s, x.p)
  <2> SUFFICES ASSUME Describes(str, pattern, x.s, x.p) PROVE FALSE
    OBVIOUS
  <2>5. CASE x.p = Len(pattern) + 1
    <3>1. x.s = Len(str) + 1
      BY <1>1, <2>5, DescribesNothing
    <3> QED  BY <1>0, <3>1
  <2>6. CASE x.p # Len(pattern) + 1
    <3>1. x.p \in 1..Len(pattern)
      BY <1>1, <2>6
    <3>2. pattern[x.p] # "*" /\ pattern[x.p] \notin {"?", str[x.s]}
      BY <3>1
    <3> QED  BY <1>1, <3>1, <3>2, CutAfter
  <2> QED  BY <2>5, <2>6
<1>4. ~Describes(str, pattern, 1, 1)
  BY <1>3 DEF Right, NoChanceYet
<1> QED  BY <1>0, <1>1, <1>2, <1>4 DEF Right


LEMMA RowsBefore ==
    ASSUME NEW w \in Nat, NEW a \in Nat, NEW b \in Nat, a < b
    PROVE  a * w + w <= b * w
<1>1. PICK d \in Nat : b = a + 1 + d
  <2>1. b - (a + 1) \in Nat /\ b = a + 1 + (b - (a + 1))
    OBVIOUS
  <2> QED  BY <2>1
<1>2. (a + 1 + d) * w = a * w + w + d * w
  OBVIOUS
<1>3. d * w \in Nat /\ a * w \in Nat
  OBVIOUS
<1> QED  BY <1>1, <1>2, <1>3

\* The star's position in the text first, then the one in the pattern.
Progress(pattern, match, p) == match * (Len(pattern) + 1) + p

LEMMA ProgressGrows ==
    ASSUME NEW pattern \in Seq(Characters), NEW a \in Nat, NEW b \in Nat, a <= b,
           NEW p \in 1..(Len(pattern) + 1), NEW q \in 1..(Len(pattern) + 1), a = b => p < q
    PROVE  Progress(pattern, a, p) < Progress(pattern, b, q)
<1> DEFINE w == Len(pattern) + 1
<1>0. w \in Nat /\ p \in 1..w /\ q \in 1..w
  OBVIOUS
<1> HIDE DEF w
<1>1. a * w \in Nat /\ b * w \in Nat
  BY <1>0
<1>2. CASE a = b
  BY <1>0, <1>1, <1>2 DEF Progress, w
<1>3. CASE a < b
  <2>1. a * w + w <= b * w
    BY <1>0, <1>3, RowsBefore
  <2>2. a * w + p < b * w + q
    BY <1>0, <1>1, <2>1
  <2> QED  BY <2>2 DEF Progress, w
<1> QED  BY <1>2, <1>3

LEMMA ProgressEnds ==
    ASSUME NEW str \in Seq(Characters), NEW pattern \in Seq(Characters), NEW a \in Nat, a <= Len(str) + 1,
           NEW p \in 1..(Len(pattern) + 1)
    PROVE  Progress(pattern, a, p) \in Nat
           /\ Progress(pattern, a, p) <= (Len(str) + 2) * (Len(pattern) + 1)
<1> DEFINE w == Len(pattern) + 1
           n == Len(str)
<1>0. w \in Nat /\ p \in 1..w /\ n \in Nat /\ a < n + 2 /\ n + 2 \in Nat
  OBVIOUS
<1> HIDE DEF w, n
<1>1. a * w \in Nat /\ (n + 2) * w \in Nat
  BY <1>0
<1>2. a * w + w <= (n + 2) * w
  BY <1>0, RowsBefore
<1>3. a * w + p <= (n + 2) * w /\ a * w + p \in Nat
  BY <1>0, <1>1, <1>2
<1> QED  BY <1>3 DEF Progress, w, n

Advances(pattern, x, y) == y.failed \/ Progress(pattern, x.match, x.p) < Progress(pattern, y.match, y.p)

\* One step keeps what the loop knows, and comes nearer to its end.
LEMMA OneStep ==
    ASSUME NEW str, Plain(str), NEW pattern \in Seq(Characters), NEW x, Right(str, pattern, x),
           NEW y, y = WildcardStep(str, pattern)[x]
    PROVE  /\ Right(str, pattern, y)
           /\ IF x.failed \/ x.s > Len(str) THEN y = x ELSE y # x /\ ~x.failed /\ Advances(pattern, x, y)
<1>0. /\ x \in Matching /\ Len(str) \in Nat /\ Len(pattern) \in Nat /\ x.failed \in BOOLEAN
      /\ x.s \in Nat /\ x.p \in 1..(Len(pattern) + 1) /\ x.match \in Nat /\ x.star \in Nat
      /\ x.s \in 1..(Len(str) + 1)
  BY DEF Right, Plain, Matching
<1>1. y = (IF x.failed \/ x.s > Len(str) THEN x
           ELSE IF x.p <= Len(pattern) /\ pattern[x.p] \in {"?", str[x.s]}
             THEN At(x.s + 1, x.p + 1, x.star, x.match)
           ELSE IF x.p <= Len(pattern) /\ pattern[x.p] = "*" THEN At(x.s, x.p + 1, x.p, x.s)
           ELSE IF x.star # 0 THEN At(x.match + 1, x.star + 1, x.star, x.match + 1)
           ELSE [x EXCEPT !.failed = TRUE])
  BY <1>0 DEF WildcardStep
<1>2. CASE x.failed \/ x.s > Len(str)
  BY <1>1, <1>2
<1>3. CASE ~(x.failed \/ x.s > Len(str))
  <2>0. ~x.failed /\ x.s <= Len(str)
    BY <1>0, <1>3
  <2>1. CASE x.p <= Len(pattern) /\ pattern[x.p] \in {"?", str[x.s]}
    <3>1. y = At(x.s + 1, x.p + 1, x.star, x.match)
      BY <1>1, <1>3, <2>1, Zenon
    <3>2. Right(str, pattern, y)
      BY <2>0, <2>1, <3>1, OneCharacter
    <3>3. y.match = x.match /\ y.p = x.p + 1 /\ y # x
      BY <1>0, <3>1 DEF At
    <3>4. Advances(pattern, x, y)
      BY <1>0, <2>1, <3>3, ProgressGrows DEF Advances
    <3> QED  BY <1>3, <3>2, <3>3, <3>4
  <2>2. CASE ~(x.p <= Len(pattern) /\ pattern[x.p] \in {"?", str[x.s]})
             /\ x.p <= Len(pattern) /\ pattern[x.p] = "*"
    <3>1. y = At(x.s, x.p + 1, x.p, x.s)
      BY <1>1, <1>3, <2>2, Zenon
    <3>2. Right(str, pattern, y)
      BY <2>0, <2>2, <3>1, NewStar
    <3>3. y.match = x.s /\ y.p = x.p + 1 /\ y # x
      BY <1>0, <3>1 DEF At
    <3>4. x.match <= x.s
      <4>1. CASE x.star = 0
        BY <1>0, <2>0, <4>1 DEF Right, NoChanceYet
      <4>2. CASE x.star # 0
        <5>1. x.s = x.match + (x.p - (x.star + 1)) /\ x.star < x.p
          BY <2>0, <4>2 DEF Right, SinceStar
        <5> QED  BY ONLY <1>0, <5>1
      <4> QED  BY <4>1, <4>2
    <3>5. Advances(pattern, x, y)
      BY <1>0, <2>2, <3>3, <3>4, ProgressGrows DEF Advances
    <3> QED  BY <1>3, <3>2, <3>3, <3>5
  <2>3. CASE ~(x.p <= Len(pattern) /\ (pattern[x.p] = "*" \/ pattern[x.p] \in {"?", str[x.s]}))
             /\ x.star # 0
    <3>1. y = At(x.match + 1, x.star + 1, x.star, x.match + 1)
      BY <1>1, <1>3, <2>3, Zenon
    <3>2. Right(str, pattern, y)
      BY <2>0, <2>3, <3>1, BackToStar
    <3>3. y.match = x.match + 1 /\ y.p = x.star + 1 /\ y # x
      BY <1>0, <3>1 DEF At
    <3>4. x.star + 1 \in 1..(Len(pattern) + 1)
      BY <3>2, <3>3 DEF Right
    <3>5. Advances(pattern, x, y)
      BY <1>0, <3>3, <3>4, ProgressGrows DEF Advances
    <3> QED  BY <1>3, <3>2, <3>3, <3>5
  <2>4. CASE ~(x.p <= Len(pattern) /\ (pattern[x.p] = "*" \/ pattern[x.p] \in {"?", str[x.s]}))
             /\ x.star = 0
    <3>1. y = [x EXCEPT !.failed = TRUE]
      BY <1>1, <1>3, <2>4, Zenon
    <3>2. Right(str, pattern, y)
      BY <2>0, <2>4, <3>1, NoStarToGoBackTo
    <3>3. y.failed
      BY <1>0, <3>1 DEF Matching
    <3> QED  BY <1>3, <2>0, <3>2, <3>3 DEF Advances
  <2> QED  BY <2>1, <2>2, <2>3, <2>4
<1> QED  BY <1>2, <1>3

\* At the end the loop knows whether the pattern describes the text.
LEMMA KnowsAtEnd ==
    ASSUME NEW str, Plain(str), NEW pattern \in Seq(Characters), NEW x, Right(str, pattern, x),
           x.failed \/ x.s > Len(str)
    PROVE  Describes(str, pattern, 1, 1) <=>
              ~x.failed /\ \A i \in x.p..Len(pattern) : pattern[i] = "*"
<1>0. /\ x \in Matching /\ Len(str) \in Nat /\ Len(pattern) \in Nat /\ str \in Seq(Characters)
      /\ x.s \in 1..(Len(str) + 1) /\ x.p \in 1..(Len(pattern) + 1) /\ x.match \in Nat /\ x.star \in Nat
  BY DEF Right, Plain, Matching
<1>1. CASE x.failed
  BY <1>1 DEF Right
<1>2. CASE ~x.failed
  <2>1. x.s = Len(str) + 1
    BY <1>0, <1>2
  <2>2. Describes(str, pattern, x.s, x.p) <=> \A i \in x.p..Len(pattern) : pattern[i] = "*"
    BY <1>0, <2>1, OnlyStarsLeft
  <2>3. CASE x.star = 0
    BY <1>2, <2>2, <2>3 DEF Right, NoChanceYet
  <2>4. CASE x.star # 0
    <3>1. SinceStar(str, pattern, x)
      BY <1>2, <2>4 DEF Right
    <3>2. PICK j : j = x.star + 1
      OBVIOUS
    <3>3. /\ x.star < x.p /\ x.s = x.match + (x.p - j) /\ Found(str, pattern, x.match, j, x.p)
          /\ x.star \in 1..Len(pattern) /\ x.match \in 1..(Len(str) + 1) /\ pattern[x.star] = "*"
          /\ Describes(str, pattern, 1, 1) <=>
                \E t \in 1..(Len(str) + 1) : x.match <= t /\ Describes(str, pattern, t, j)
      BY <3>1, <3>2 DEF SinceStar
    <3>4. j \in 1..(Len(pattern) + 1) /\ x.p \in j..(Len(pattern) + 1) /\ x.p - j \in Nat
      <4>1. PICK a \in 1..Len(pattern), b \in 1..(Len(pattern) + 1) : a = x.star /\ b = x.p
        BY <1>0, <3>3
      <4>2. a < b /\ j = a + 1
        BY <3>2, <3>3, <4>1
      <4>3. j \in 1..(Len(pattern) + 1) /\ b \in j..(Len(pattern) + 1) /\ b - j \in Nat
        BY ONLY <1>0, <4>2, a \in 1..Len(pattern), b \in 1..(Len(pattern) + 1)
      <4> QED  BY <4>1, <4>3
    <3>5. ASSUME Describes(str, pattern, x.s, x.p) PROVE Describes(str, pattern, x.match, j)
      <4>1. x.match + (x.p - j) <= Len(str) + 1 /\ Describes(str, pattern, x.match + (x.p - j), x.p)
        BY <1>0, <3>3, <3>5
      <4> QED  BY <1>0, <3>3, <3>4, <4>1, ReadsBackwards
    <3>6. ASSUME NEW t \in 1..(Len(str) + 1), x.match <= t, Describes(str, pattern, t, j)
          PROVE  Describes(str, pattern, x.s, x.p)
      <4>1. NoStars(pattern, j, x.p)
        BY <3>3 DEF NoStars, Found
      <4>2. t + (x.p - j) <= Len(str) + 1 /\ Describes(str, pattern, t + (x.p - j), x.p)
        BY <1>0, <3>4, <3>6, <4>1, ReadsOn
      <4>3. t + (x.p - j) = x.s
        <5>1. PICK d \in Nat, m \in Nat : d = x.p - j /\ m = x.match
          BY <1>0, <3>4
        <5>2. t + d <= Len(str) + 1 /\ m <= t /\ m + d = Len(str) + 1
          BY <2>1, <3>3, <3>6, <4>2, <5>1
        <5>3. t + d = Len(str) + 1
          BY ONLY <1>0, <5>2, t \in 1..(Len(str) + 1), d \in Nat, m \in Nat
        <5> QED  BY <2>1, <5>1, <5>3
      <4> QED  BY <4>2, <4>3
    <3>7. x.match <= x.match
      BY <1>0
    <3> QED  BY <2>2, <3>3, <3>5, <3>6, <3>7, <1>2
  <2> QED  BY <2>3, <2>4
<1> QED  BY <1>1, <1>2

(* StringUtils::MatchesWildcard: whatever the pattern, the loop, which     *)
(* goes back to the last star only, ends and accepts exactly the texts     *)
(* that are pieces matching the pattern, if the text itself has no star.   *)
THEOREM WildcardsMatch ==
    ASSUME NEW str \in Seq(Characters), \A i \in 1..Len(str) : str[i] # "*", NEW pattern \in Seq(Characters)
    PROVE  WildcardMatchesPieces(str, pattern)
<1> DEFINE P == {x \in Matching : Right(str, pattern, x)}
           step == WildcardStep(str, pattern)
           n == (Len(str) + 2) * (Len(pattern) + 1)
           left == [x \in P |-> IF x.failed THEN 0 ELSE n - Progress(pattern, x.match, x.p) + 1]
           first == At(1, 1, 0, 0)
           end == Loop(first, step, n)
<1>0. Plain(str)
  BY DEF Plain
<1>1. first \in P
  BY StartsRight DEF Right
<1>2. ASSUME NEW x \in P
      PROVE  /\ step[x] \in P
             /\ IF x.failed \/ x.s > Len(str) THEN step[x] = x
                ELSE step[x] # x /\ ~x.failed /\ Advances(pattern, x, step[x])
  <2>1. PICK y : y = step[x]
    OBVIOUS
  <2>2. Right(str, pattern, x)
    OBVIOUS
  <2>3. /\ Right(str, pattern, y)
        /\ IF x.failed \/ x.s > Len(str) THEN y = x ELSE y # x /\ ~x.failed /\ Advances(pattern, x, y)
    BY <1>0, <2>1, <2>2, OneStep
  <2> QED  BY <2>1, <2>3 DEF Right
<1>3. StaysIn(P, step)
  BY <1>2 DEF StaysIn
<1>4. n \in Nat
  <2>1. Len(str) + 2 \in Nat /\ Len(pattern) + 1 \in Nat
    OBVIOUS
  <2> QED  BY <2>1
<1>5. ASSUME NEW x \in P
      PROVE  /\ Progress(pattern, x.match, x.p) \in Nat /\ Progress(pattern, x.match, x.p) <= n
             /\ left[x] = IF x.failed THEN 0 ELSE n - Progress(pattern, x.match, x.p) + 1
  <2>1. x.match \in Nat /\ x.match <= Len(str) + 1 /\ x.p \in 1..(Len(pattern) + 1)
    BY DEF Right, Matching
  <2> QED  BY <2>1, ProgressEnds
<1> HIDE DEF P, n, left, step, first
<1>6. ASSUME NEW x \in P
      PROVE  left[x] \in Nat /\ (step[x] = x \/ left[step[x]] < left[x])
  <2>1. PICK y \in P : y = step[x]
    BY <1>2
  <2>2. PICK a \in Nat, b \in Nat : a = Progress(pattern, x.match, x.p) /\ b = Progress(pattern, y.match, y.p)
    BY <1>5
  <2>3. a <= n /\ b <= n
    BY <1>5, <2>2
  <2>4. left[x] \in Nat
    BY <1>4, <1>5, <2>2, <2>3
  <2>5. ASSUME y # x PROVE left[y] < left[x]
    <3>1. ~x.failed /\ (y.failed \/ a < b)
      BY <1>2, <2>1, <2>2, <2>5 DEF Advances
    <3>2. left[x] = n - a + 1 /\ left[y] = IF y.failed THEN 0 ELSE n - b + 1
      BY <1>5, <2>2, <3>1
    <3> QED  BY <1>4, <2>3, <3>1, <3>2
  <2> QED  BY <2>1, <2>4, <2>5
<1>7. Nears(P, step, left)
  BY <1>6 DEF Nears
<1>8. left[first] <= n
  <2>1. ~first.failed /\ first.match = 0 /\ first.p = 1
    BY DEF first, At
  <2>2. Progress(pattern, 0, 1) = 1
    BY DEF Progress
  <2> QED  BY <1>1, <1>4, <1>5, <2>1, <2>2
<1>9. end \in P /\ step[end] = end
  BY ONLY <1>1, <1>3, <1>4, <1>7, <1>8, LoopEnds
<1>10. Right(str, pattern, end) /\ (end.failed \/ end.s > Len(str))
  BY <1>2, <1>9 DEF P
<1>11. Describes(str, pattern, 1, 1) <=>
          ~end.failed /\ \A i \in end.p..Len(pattern) : pattern[i] = "*"
  <2> HIDE DEF end
  <2> QED  BY <1>0, <1>10, KnowsAtEnd
<1>12. MatchesWildcard(str, pattern) <=> Describes(str, pattern, 1, 1)
  BY <1>11 DEF MatchesWildcard, end, first, step, n
<1>13. Describes(str, pattern, 1, 1) <=>
        \E cut \in [0..Len(pattern) -> 0..Len(str)] :
            /\ cut[0] = 0 /\ cut[Len(pattern)] = Len(str)
            /\ \A i \in 1..Len(pattern) : Piece(str, pattern, cut, i)
  <2>1. 1 - 1 = 0
    OBVIOUS
  <2> QED  BY <2>1 DEF Describes, Cuts
<1> QED  BY <1>12, <1>13 DEF WildcardMatchesPieces, Piece


\* The state of a loop that has read k pieces, b being where the first began.
ReadingAt(i, out, open) == [i |-> i, out |-> out, open |-> open]
Stage(s, L, b, open, k) == ReadingAt(L[k] + b, SubSeq(s, 1, k), open)

\* Each step reads one piece, and one more what is behind the pieces.
ReadsEach(s, L, b, open, step) ==
    \A k \in 1..Len(s) : step[Stage(s, L, b, open, k - 1)] = Stage(s, L, b, open, k)
EndsIn(s, L, b, open, step, final, extra) ==
    /\ step[Stage(s, L, b, open, Len(s))] = final /\ step[final] = final
    /\ extra \in {0, 1} /\ (extra = 1 \/ final = Stage(s, L, b, open, Len(s)))

LEMMA ReadsPieces ==
    ASSUME NEW C, NEW s \in Seq(C), NEW L, NEW b, NEW open, NEW step, NEW final, NEW extra,
           ReadsEach(s, L, b, open, step), EndsIn(s, L, b, open, step, final, extra),
           NEW n \in Nat, Len(s) + extra <= n
    PROVE  Loop(Stage(s, L, b, open, 0), step, n) = final
<1> DEFINE Then(k) == Stage(s, L, b, open, k)
           P == {Then(k) : k \in 0..Len(s)} \union {final}
           left == [x \in P |-> IF x = final THEN 0 ELSE Len(s) - Len(x.out) + extra]
<1>1. ASSUME NEW k \in 0..Len(s) PROVE Len(Then(k).out) = k
  BY DEF Stage, ReadingAt
<1>2. ASSUME NEW k \in 1..Len(s) PROVE step[Then(k - 1)] = Then(k) /\ k - 1 \in 0..Len(s) /\ k \in 0..Len(s)
  BY DEF ReadsEach
<1>3. step[Then(Len(s))] = final /\ step[final] = final /\ extra \in {0, 1}
      /\ (extra = 1 \/ final = Then(Len(s)))
  BY DEF EndsIn
<1>a. Len(s) \in Nat
  OBVIOUS
<1> HIDE DEF Then
<1>4. Then(0) \in P
  BY <1>a
<1>5. ASSUME NEW x \in P, x # final
      PROVE  \E k \in 0..Len(s) : x = Then(k) /\ step[x] = IF k = Len(s) THEN final ELSE Then(k + 1)
  <2>1. PICK k \in 0..Len(s) : x = Then(k)
    BY <1>5
  <2>2. CASE k = Len(s)
    BY <1>3, <2>1, <2>2
  <2>3. CASE k # Len(s)
    <3>1. k + 1 \in 1..Len(s) /\ k + 1 - 1 = k
      BY <1>a, <2>3
    <3>2. step[Then(k)] = Then(k + 1)
      BY <1>2, <3>1
    <3> QED  BY <2>1, <2>3, <3>2
  <2> QED  BY <2>2, <2>3
<1>6. StaysIn(P, step)
  <2>1. ASSUME NEW x \in P PROVE step[x] \in P
    <3>1. CASE x = final
      BY <1>3, <3>1
    <3>2. CASE x # final
      <4>1. PICK k \in 0..Len(s) : x = Then(k) /\ step[x] = IF k = Len(s) THEN final ELSE Then(k + 1)
        BY <1>5, <3>2
      <4>2. k = Len(s) \/ k + 1 \in 0..Len(s)
        BY <1>a
      <4> QED  BY <4>1, <4>2
    <3> QED  BY <3>1, <3>2
  <2> QED  BY <2>1 DEF StaysIn
<1>7. ASSUME NEW x \in P
      PROVE  left[x] \in Nat /\ (step[x] = x \/ left[step[x]] < left[x])
  <2>1. CASE x = final
    BY <1>3, <2>1
  <2>2. CASE x # final
    <3>1. PICK k \in 0..Len(s) : x = Then(k) /\ step[x] = IF k = Len(s) THEN final ELSE Then(k + 1)
      BY <1>5, <2>2
    <3>2. left[x] = Len(s) - k + extra
      BY <1>1, <2>2, <3>1
    <3>3. left[final] = 0
      OBVIOUS
    <3>4. CASE k = Len(s)
      <4>1. extra = 1
        BY <1>3, <2>2, <3>1, <3>4
      <4>2. left[x] = 1 /\ step[x] = final
        BY <1>a, <3>1, <3>2, <3>4, <4>1
      <4>3. left[step[x]] = 0 /\ left[x] \in Nat
        BY <3>3, <4>2
      <4> HIDE DEF left
      <4> QED  BY <4>2, <4>3
    <3>5. CASE k # Len(s)
      <4>1. k + 1 \in 0..Len(s) /\ step[x] = Then(k + 1)
        BY <1>a, <3>1, <3>5
      <4>2. left[Then(k + 1)] = 0 \/ left[Then(k + 1)] = Len(s) - (k + 1) + extra
        BY <1>1, <4>1
      <4> QED  BY <1>a, <1>3, <3>2, <3>5, <4>1, <4>2, SMTT(20)
    <3> QED  BY <3>4, <3>5
  <2> QED  BY <2>1, <2>2
<1>8. Nears(P, step, left)
  <2> HIDE DEF P, left
  <2> QED  BY <1>7 DEF Nears
<1>9. left[Then(0)] <= n
  <2>1. left[Then(0)] = 0 \/ left[Then(0)] = Len(s) - 0 + extra
    BY <1>a, <1>1, <1>4
  <2> QED  BY <1>a, <1>3, <2>1
<1>10. PICK end : end = Loop(Then(0), step, n)
  OBVIOUS
<1>11. end \in P /\ step[end] = end
  <2> HIDE DEF P, left
  <2> QED  BY <1>4, <1>6, <1>8, <1>9, <1>10, LoopEnds
<1>12. end = final
  <2> SUFFICES ASSUME end # final PROVE FALSE
    OBVIOUS
  <2>1. PICK k \in 0..Len(s) : end = Then(k) /\ step[end] = IF k = Len(s) THEN final ELSE Then(k + 1)
    BY <1>5, <1>11
  <2>2. k # Len(s) /\ Then(k) = Then(k + 1) /\ k + 1 \in 0..Len(s)
    BY <1>a, <1>11, <2>1
  <2>3. k = k + 1
    BY <1>1, <2>2
  <2> QED  BY <2>3
<1> QED  BY <1>10, <1>12 DEF Then

\* To take a piece and write its character is to read one more.
LEMMA ReadsOneMore ==
    ASSUME NEW C, NEW s \in Seq(C), NEW L, NEW b \in Nat, NEW open, NEW k \in 1..Len(s), NEW m \in Nat,
           L[k - 1] \in Nat, L[k] = L[k - 1] + m
    PROVE  Take(Stage(s, L, b, open, k - 1), m, <<s[k]>>) = Stage(s, L, b, open, k)
<1>1. SubSeq(s, 1, k - 1) \o <<s[k]>> = SubSeq(s, 1, k)
  OBVIOUS
<1>2. L[k - 1] + b + m = L[k] + b
  OBVIOUS
<1> QED  BY <1>1, <1>2 DEF Take, Stage, ReadingAt


\* The piece p lies in t from position i on.
LiesAt(t, i, p) == i + Len(p) - 1 <= Len(t) /\ \A j \in 1..Len(p) : t[i + j - 1] = p[j]

PiecesLie(C, t, s, e, L) ==
    \A k \in 1..Len(s) : /\ L[k - 1] \in Nat /\ L[k] = L[k - 1] + Len(e[s[k]])
                         /\ LiesAt(t, L[k - 1] + 1, e[s[k]])
PiecesAre(C, s, e) == \A k \in 1..Len(s) : e[s[k]] \in Seq(C)

LEMMA EachPieceLies ==
    ASSUME NEW C, NEW t, NEW s, NEW e, NEW L,
           s \in Seq(C), PiecesAt(C, t, s, e, L), PiecesAre(C, s, e)
    PROVE  PiecesLie(C, t, s, e, L)
<1> SUFFICES ASSUME NEW k \in 1..Len(s)
             PROVE  /\ L[k - 1] \in Nat /\ L[k] = L[k - 1] + Len(e[s[k]])
                    /\ LiesAt(t, L[k - 1] + 1, e[s[k]])
  BY DEF PiecesLie
<1>0. PICK a : a = L[k - 1]
  OBVIOUS
<1>b. PICK p \in Seq(C) : p = e[s[k]]
  BY DEF PiecesAre
<1>1. a = L[k - 1] /\ p = e[s[k]]
  BY <1>0, <1>b
<1>2. /\ t \in Seq(C) /\ a \in Nat /\ L[k] = a + Len(p) /\ L[k] <= Len(t)
      /\ \A j \in 1..Len(p) : t[a + j] = p[j]
  <2>1. k - 1 \in 0..Len(s)
    OBVIOUS
  <2> QED  BY <1>1, <2>1 DEF PiecesAt
<1>3. ASSUME NEW j \in 1..Len(p) PROVE t[a + 1 + j - 1] = p[j]
  <2>1. a + 1 + j - 1 = a + j
    BY <1>2
  <2> QED  BY <1>2, <2>1
<1>4. LiesAt(t, a + 1, p)
  BY <1>2, <1>3 DEF LiesAt
<1> QED  BY <1>1, <1>2, <1>4

LEMMA PiecesAreLong ==
    ASSUME NEW t, NEW C, NEW s \in Seq(C), NEW e, NEW L, PiecesAt(C, t, s, e, L),
           PiecesAre(C, s, e), \A k \in 1..Len(s) : e[s[k]] # <<>>
    PROVE  Len(s) <= Len(t)
<1>1. PICK P : P = {k \in 0..Len(s) : k <= L[k]}
  OBVIOUS
<1>a. PiecesLie(C, t, s, e, L)
  BY EachPieceLies
<1>2. 0 \in P
  BY <1>1 DEF PiecesAt
<1>3. ASSUME NEW k \in 1..Len(s), k - 1 \in P
      PROVE  k \in P
  <2>1. PICK p \in Seq(C) : p = e[s[k]] /\ p # <<>>
    BY DEF PiecesAre
  <2>2. Len(p) >= 1
    BY <2>1
  <2>3. L[k - 1] \in Nat /\ L[k] = L[k - 1] + Len(p)
    BY <1>a, <2>1 DEF PiecesLie
  <2>4. k - 1 <= L[k - 1]
    BY <1>1, <1>3
  <2> QED  BY <1>1, <2>2, <2>3, <2>4
<1>4. Len(s) \in P
  <2>1. Len(s) \in Nat
    OBVIOUS
  <2>2. 0..Len(s) \subseteq P
    BY <1>2, <1>3, <2>1, Induction
  <2> QED  BY <2>1, <2>2
<1> QED  BY <1>1, <1>4 DEF PiecesAt

\* What unescaping reads as the character c.
Unescapes(c, p) ==
    \/ c \in {"\"", "\\"} /\ p = <<"\\", c>>
    \/ c = "nl" /\ p = <<"\\", "n">>
    \/ c = "nul" /\ p = <<"\\", "u", "0", "0", "0", "0">>
    \/ c = "ct" /\ p = <<"\\", "u", "0", "0", "0", "1">>
    \/ c # "\\" /\ p = <<c>>

\* A code of four digits is the character that the last two make.
LEMMA DecodesOne ==
    ASSUME NEW t, NEW i, i \in Nat, t[i] = "0", t[i + 1] = "0", t[i + 2] = "0",
           t[i + 3] \in {"0", "1"}
    PROVE  Decoded(t, i) = IF t[i + 3] = "0" THEN "nul" ELSE "ct"
<1> DEFINE read == {n \in i..(i + 3) : \A j \in i..n : t[j] \in {"0", "1"}}
           low  == {n \in read : n + 2 \notin read}
<1>1. \A n \in i..(i + 3) : n = i \/ n = i + 1 \/ n = i + 2 \/ n = i + 3
  OBVIOUS
<1>2. \A n \in i..(i + 3) : t[n] \in {"0", "1"}
  BY <1>1
<1>3. \A n \in i..(i + 3) : \A j \in i..n : j \in i..(i + 3)
  OBVIOUS
<1>4. read = i..(i + 3)
  BY <1>2, <1>3
<1>5. i \in i..(i + 3) /\ i + 3 \in i..(i + 3) /\ i + 3 + 2 \notin i..(i + 3)
      /\ i + 2 \in i..(i + 3)
  OBVIOUS
<1>6. read # {} /\ i + 3 \in low
  BY <1>4, <1>5
<1>7. \A n \in low : n \in i..(i + 3)
  BY <1>4
<1>8. Decoded(t, i) = IF read = {} THEN "\\" ELSE IF \A n \in low : t[n] = "0" THEN "nul" ELSE "ct"
  BY DEF Decoded
<1> HIDE DEF read, low
<1>9. CASE t[i + 3] = "0"
  <2>1. \A n \in low : t[n] = "0"
    BY <1>1, <1>7, <1>9
  <2> QED  BY <1>6, <1>8, <1>9, <2>1
<1>10. CASE t[i + 3] # "0"
  <2>1. ~\A n \in low : t[n] = "0"
    BY <1>6, <1>10
  <2> QED  BY <1>6, <1>8, <1>10, <2>1
<1> QED  BY <1>9, <1>10

LEMMA UnescapesOne ==
    ASSUME NEW t \in Seq(Characters), NEW x \in Reading(Characters), NEW c \in Characters, NEW p, Unescapes(c, p),
           x.i \in Nat \ {0}, LiesAt(t, x.i, p)
    PROVE  UnescapeStep(t)[x] = Take(x, Len(p), <<c>>)
<1> DEFINE Step ==
        IF x.i > Len(t) THEN x
        ELSE IF t[x.i] # "\\" \/ x.i = Len(t) THEN Take(x, 1, <<t[x.i]>>)
        ELSE CASE t[x.i + 1] \in {"\"", "\\"} -> Take(x, 2, <<t[x.i + 1]>>)
               [] t[x.i + 1] = "n" -> Take(x, 2, <<"nl">>)
               [] t[x.i + 1] = "u" /\ x.i + 5 <= Len(t) -> Take(x, 6, <<Decoded(t, x.i + 2)>>)
               [] OTHER -> Take(x, 1, <<"\\">>)
<1>1. UnescapeStep(t)[x] = Step
  BY DEF UnescapeStep
<1> SUFFICES Step = Take(x, Len(p), <<c>>)
  BY <1>1
<1>2. PICK i \in Nat : i = x.i /\ i >= 1
  OBVIOUS
<1>3. i + Len(p) - 1 <= Len(t) /\ \A j \in 1..Len(p) : t[i + j - 1] = p[j]
  BY <1>2 DEF LiesAt
<1>4. ASSUME NEW a, NEW b, p = <<a, b>>
      PROVE  Len(p) = 2 /\ t[i] = a /\ t[i + 1] = b /\ i < Len(t)
  <2>1. Len(p) = 2 /\ p[1] = a /\ p[2] = b
    BY <1>4
  <2>2. i + 1 - 1 = i /\ i + 2 - 1 = i + 1 /\ 1 \in 1..2 /\ 2 \in 1..2
    OBVIOUS
  <2>3. t[i + 1 - 1] = a /\ t[i + 2 - 1] = b
    BY <1>3, <2>1, <2>2
  <2> QED  BY <1>3, <2>1, <2>2, <2>3
<1>5. CASE c \in {"\"", "\\"} /\ p = <<"\\", c>>
  <2>1. Len(p) = 2 /\ t[i] = "\\" /\ t[i + 1] = c /\ i < Len(t)
    BY <1>4, <1>5
  <2>a. /\ ~(x.i > Len(t)) /\ ~(t[x.i] # "\\" \/ x.i = Len(t)) /\ t[x.i + 1] \in {"\"", "\\"}
        /\ t[x.i + 1] # "n" /\ t[x.i + 1] # "u"
    <3>1. x.i <= Len(t) /\ x.i < Len(t) /\ t[x.i] = "\\" /\ t[x.i + 1] = c
      BY <1>2, <2>1
    <3>2. c \in {"\"", "\\"} /\ c # "n" /\ c # "u"
      BY <1>5
    <3>3. ~(x.i > Len(t)) /\ x.i # Len(t)
      BY <1>2, <3>1
    <3> QED  BY <3>1, <3>2, <3>3
  <2>2. Step = Take(x, 2, <<t[x.i + 1]>>)
    BY <2>a
  <2>3. Step = Take(x, 2, <<c>>)
    BY <1>2, <2>1, <2>2
  <2> HIDE DEF Step
  <2> QED  BY <2>1, <2>3
<1>6. CASE c = "nl" /\ p = <<"\\", "n">>
  <2>1. Len(p) = 2 /\ t[i] = "\\" /\ t[i + 1] = "n" /\ i < Len(t)
    BY <1>4, <1>6
  <2> QED  BY <1>2, <1>6, <2>1
<1>7. ASSUME NEW d \in {"0", "1"}, p = <<"\\", "u", "0", "0", "0", d>>,
             c = IF d = "0" THEN "nul" ELSE "ct"
      PROVE  Step = Take(x, Len(p), <<c>>)
  <2>1. Len(p) = 6 /\ p[1] = "\\" /\ p[2] = "u" /\ p[3] = "0" /\ p[4] = "0" /\ p[5] = "0" /\ p[6] = d
    BY <1>7
  <2>2. /\ t[i + 1 - 1] = "\\" /\ t[i + 2 - 1] = "u" /\ t[i + 3 - 1] = "0" /\ t[i + 4 - 1] = "0"
        /\ t[i + 5 - 1] = "0" /\ t[i + 6 - 1] = d /\ i + 5 <= Len(t)
    BY <1>3, <2>1
  <2>3. /\ t[i] = "\\" /\ t[i + 1] = "u" /\ i < Len(t)
        /\ t[i + 2] = "0" /\ t[i + 2 + 1] = "0" /\ t[i + 2 + 2] = "0" /\ t[i + 2 + 3] = d
    BY <2>2
  <2>4. Decoded(t, i + 2) = c
    <3>1. i + 2 \in Nat
      OBVIOUS
    <3> QED  BY <1>7, <2>3, <3>1, DecodesOne
  <2>5. Step = Take(x, 6, <<Decoded(t, x.i + 2)>>)
    BY <1>2, <2>2, <2>3
  <2>6. Step = Take(x, 6, <<c>>)
    BY <1>2, <2>4, <2>5
  <2> HIDE DEF Step
  <2> QED  BY <2>1, <2>6
<1>8. CASE c # "\\" /\ p = <<c>>
  <2>1. Len(p) = 1 /\ p[1] = c
    BY <1>8
  <2>2. t[i + 1 - 1] = c /\ i <= Len(t)
    BY <1>3, <2>1
  <2>3. t[i] = c
    BY <2>2
  <2> QED  BY <1>2, <1>8, <2>1, <2>2, <2>3
<1>9. CASE c = "nul" /\ p = <<"\\", "u", "0", "0", "0", "0">>
  BY <1>7, <1>9
<1>10. CASE c = "ct" /\ p = <<"\\", "u", "0", "0", "0", "1">>
  BY <1>7, <1>10
<1> HIDE DEF Step
<1> QED  BY <1>5, <1>6, <1>8, <1>9, <1>10 DEF Unescapes

LEMMA UnescapesAll ==
    ASSUME NEW s \in Seq(Characters), NEW e \in [Characters -> Seq(Characters)],
           \A k \in 1..Len(s) : Unescapes(s[k], e[s[k]])
    PROVE  UnescapeFromJSON(Each(s, e)) = s
<1>1. PICK L, t : t = Each(s, e) /\ PiecesAt(Characters, t, s, e, L)
  BY EachIs
<1>2. t \in Seq(Characters) /\ L \in [0..Len(s) -> Nat] /\ L[0] = 0 /\ L[Len(s)] = Len(t)
  BY <1>1 DEF PiecesAt
<1>3. PICK step : step = UnescapeStep(t)
  OBVIOUS
<1>4. ASSUME NEW k \in 0..Len(s)
      PROVE  /\ Stage(s, L, 1, "none", k) \in Reading(Characters)
             /\ Stage(s, L, 1, "none", k).i = L[k] + 1 /\ L[k] \in Nat
  <2>1. PICK out \in Seq(Characters) : out = SubSeq(s, 1, k)
    <3>1. SubSeq(s, 1, k) \in Seq(Characters)
      OBVIOUS
    <3> QED  BY <3>1
  <2>2. L[k] \in Nat
    BY <1>2
  <2>3. Stage(s, L, 1, "none", k) = [i |-> L[k] + 1, out |-> out, open |-> "none"]
    BY <2>1 DEF Stage, ReadingAt
  <2>4. [i |-> L[k] + 1, out |-> out, open |-> "none"] \in Reading(Characters)
    BY <2>2 DEF Reading
  <2> QED  BY <2>2, <2>3, <2>4
<1>5. ASSUME NEW k \in 1..Len(s)
      PROVE  e[s[k]] \in Seq(Characters) /\ e[s[k]] # <<>> /\ s[k] \in Characters
  <2>1. s[k] \in Characters
    OBVIOUS
  <2>2. PICK p : p = e[s[k]] /\ Unescapes(s[k], p)
    OBVIOUS
  <2>3. p # <<>>
    <3>1. CASE \E c : p = <<"\\", c>>
      BY <3>1
    <3>2. CASE \E d : p = <<"\\", "u", "0", "0", "0", d>>
      BY <3>2
    <3>3. CASE \E c : p = <<c>>
      BY <3>3
    <3> QED  BY <2>2, <3>1, <3>2, <3>3 DEF Unescapes
  <2> QED  BY <2>1, <2>2, <2>3
<1>a. PiecesAre(Characters, s, e) /\ PiecesLie(Characters, t, s, e, L)
  <2>1. PiecesAre(Characters, s, e)
    BY <1>5 DEF PiecesAre
  <2> QED  BY <1>1, <2>1, EachPieceLies
<1>6. ASSUME NEW k \in 1..Len(s)
      PROVE  step[Stage(s, L, 1, "none", k - 1)] = Stage(s, L, 1, "none", k)
  <2>a. PICK x : x = Stage(s, L, 1, "none", k - 1)
    OBVIOUS
  <2>b. PICK c \in Characters, p \in Seq(Characters) : c = s[k] /\ p = e[s[k]]
    BY <1>5
  <2>c. PICK m \in Nat : m = Len(p)
    OBVIOUS
  <2>1. x = Stage(s, L, 1, "none", k - 1) /\ c = s[k] /\ p = e[s[k]] /\ m = Len(p)
    BY <2>a, <2>b, <2>c
  <2>2. k - 1 \in 0..Len(s)
    OBVIOUS
  <2>3. x \in Reading(Characters) /\ x.i = L[k - 1] + 1 /\ L[k - 1] \in Nat
    BY <1>4, <2>1, <2>2
  <2>4. L[k] = L[k - 1] + m /\ LiesAt(t, x.i, p)
    BY <1>a, <2>1, <2>3 DEF PiecesLie
  <2>5. Unescapes(c, p) /\ x.i \in Nat \ {0}
    BY <2>1, <2>3
  <2>6. step[x] = Take(x, m, <<c>>)
    BY <1>2, <1>3, <2>1, <2>3, <2>4, <2>5, UnescapesOne
  <2>7. Take(x, m, <<s[k]>>) = Stage(s, L, 1, "none", k)
    BY <2>1, <2>3, <2>4, ReadsOneMore
  <2> QED  BY <2>1, <2>6, <2>7
<1>7. ReadsEach(s, L, 1, "none", step)
  BY <1>6 DEF ReadsEach
<1>8. PICK final : final = Stage(s, L, 1, "none", Len(s))
  OBVIOUS
<1>9. final \in Reading(Characters) /\ final.i = Len(t) + 1
  <2>1. Len(s) \in 0..Len(s)
    OBVIOUS
  <2> QED  BY <1>2, <1>4, <1>8, <2>1
<1>10. step[final] = final
  <2>1. final.i > Len(t)
    BY <1>2, <1>9
  <2> QED  BY <1>3, <1>9, <2>1 DEF UnescapeStep
<1>11. EndsIn(s, L, 1, "none", step, final, 0)
  BY <1>8, <1>10 DEF EndsIn
<1>12. Len(s) + 0 <= Len(t) /\ Len(t) \in Nat
  <2>1. Len(s) <= Len(t)
    BY <1>1, <1>5, <1>a, PiecesAreLong
  <2> QED  BY <1>2, <2>1
<1>13. Loop(Stage(s, L, 1, "none", 0), step, Len(t)) = final
  BY <1>7, <1>11, <1>12, ReadsPieces
<1>14. Stage(s, L, 1, "none", 0) = Begin(1, "none")
  BY <1>2 DEF Stage, ReadingAt, Begin
<1>15. final.out = s
  <2>1. SubSeq(s, 1, Len(s)) = s
    OBVIOUS
  <2> QED  BY <1>8, <2>1 DEF Stage, ReadingAt
<1> QED  BY <1>1, <1>3, <1>13, <1>14, <1>15 DEF UnescapeFromJSON

LEMMA EscapesAreTexts ==
    /\ JSONEscapes \in [Characters -> Seq(Characters)]
    /\ SQLEscapes \in [Characters -> Seq(Characters)]
    /\ NameEscapes \in [Characters -> Seq(Characters)]
<1>1. ASSUME NEW C, NEW a \in C, NEW b \in C
      PROVE  <<a>> \in Seq(C) /\ <<a, b>> \in Seq(C)
  OBVIOUS
<1>b. ASSUME NEW C, NEW a \in C, NEW b \in C, NEW c \in C, NEW d \in C
      PROVE  <<a, b, c, c, c, d>> \in Seq(C)
  OBVIOUS
<1>c. "'" \in Characters /\ "\"" \in Characters /\ "bq" \in Characters /\ "\\" \in Characters
      /\ "n" \in Characters /\ "u" \in Characters /\ "0" \in Characters /\ "1" \in Characters
  BY CharactersAssumption
<1>a. <<"\\", "u", "0", "0", "0", "1">> \in Seq(Characters)
      /\ <<"\\", "u", "0", "0", "0", "0">> \in Seq(Characters)
  BY <1>b, <1>c
<1>2. ASSUME NEW c \in Characters PROVE JSONEscapes[c] \in Seq(Characters)
  BY <1>1, <1>a, <1>c DEF JSONEscapes
<1>3. ASSUME NEW c \in Characters PROVE SQLEscapes[c] \in Seq(Characters)
  BY <1>1, <1>c DEF SQLEscapes
<1>4. ASSUME NEW c \in Characters PROVE NameEscapes[c] \in Seq(Characters)
  BY <1>1, <1>c DEF NameEscapes
<1>5. JSONEscapes \in [Characters -> Seq(Characters)]
  BY <1>2 DEF JSONEscapes
<1>6. SQLEscapes \in [Characters -> Seq(Characters)]
  BY <1>3 DEF SQLEscapes
<1>7. NameEscapes \in [Characters -> Seq(Characters)]
  BY <1>4 DEF NameEscapes
<1> QED  BY <1>5, <1>6, <1>7

LEMMA JSONReadsBack ==
    ASSUME NEW s \in Seq(Characters)
    PROVE  UnescapeFromJSON(EscapeForJSON(s)) = s
<1>1. ASSUME NEW k \in 1..Len(s) PROVE Unescapes(s[k], JSONEscapes[s[k]])
  <2>1. PICK c \in Characters : c = s[k]
    <3>1. s[k] \in Characters
      OBVIOUS
    <3> QED  BY <3>1
  <2>2. Unescapes(c, JSONEscapes[c])
    BY DEF Unescapes, JSONEscapes
  <2> QED  BY <2>1, <2>2
<1> QED  BY <1>1, EscapesAreTexts, UnescapesAll DEF EscapeForJSON

(* Encoding::EncodeString and DecodeString: a text without a single quote, *)
(* which escaping doubles and unescaping leaves doubled, and without a     *)
(* NUL, whose escape unescaping does not know, comes back.                 *)
THEOREM StringsComeBack == ASSUME NEW s \in Seq(Characters) PROVE StringsReadBack(s)
<1> SUFFICES ASSUME \A i \in 1..Len(s) : s[i] \notin {"'", "nul"} PROVE DecodeString(EncodeString(s)) = s
  BY DEF StringsReadBack
<1>1. ASSUME NEW k \in 1..Len(s) PROVE Unescapes(s[k], SQLEscapes[s[k]])
  <2>1. PICK c \in Characters : c = s[k] /\ c # "'" /\ c # "nul"
    <3>1. s[k] \in Characters
      OBVIOUS
    <3> QED  BY <3>1
  <2>2. Unescapes(c, SQLEscapes[c])
    BY <2>1 DEF Unescapes, SQLEscapes
  <2> QED  BY <2>1, <2>2
<1> QED  BY <1>1, EscapesAreTexts, UnescapesAll DEF DecodeString, EncodeString, EscapeForSQL


\* The text t is u between two quotes q.
Between(t, q, u) ==
    /\ t \in Seq(Characters) /\ Len(t) = Len(u) + 2 /\ t[1] = q /\ t[Len(t)] = q
    /\ \A i \in 1..Len(u) : t[i + 1] = u[i]

LEMMA QuotesAround ==
    ASSUME NEW u \in Seq(Characters), NEW q \in Characters
    PROVE  Between(<<q>> \o u \o <<q>>, q, u)
<1>1. PICK v : v = <<q>> \o u
  OBVIOUS
<1>2. /\ v \in Seq(Characters) /\ Len(v) = Len(u) + 1 /\ v[1] = q
      /\ \A i \in 1..Len(u) : v[i + 1] = u[i]
  BY <1>1
<1>3. PICK t : t = v \o <<q>>
  OBVIOUS
<1>4. /\ t \in Seq(Characters) /\ Len(t) = Len(v) + 1 /\ t[Len(t)] = q
      /\ \A i \in 1..Len(v) : t[i] = v[i]
  BY <1>2, <1>3
<1>5. Len(t) = Len(u) + 2 /\ t[1] = q
  BY <1>2, <1>4
<1>6. \A i \in 1..Len(u) : t[i + 1] = u[i]
  BY <1>2, <1>4
<1>7. Between(t, q, u)
  BY <1>4, <1>5, <1>6 DEF Between
<1> QED  BY <1>1, <1>3, <1>7

LEMMA LiesBetween ==
    ASSUME NEW t, NEW q, NEW u, u \in Seq(Characters), Between(t, q, u), NEW p, p \in Seq(Characters),
           NEW i, i \in Nat \ {0}, LiesAt(u, i, p)
    PROVE  LiesAt(t, i + 1, p) /\ i + 1 + Len(p) - 1 < Len(t)
<1>1. i + Len(p) - 1 <= Len(u) /\ \A j \in 1..Len(p) : u[i + j - 1] = p[j]
  BY DEF LiesAt
<1>2. Len(t) = Len(u) + 2 /\ \A k \in 1..Len(u) : t[k + 1] = u[k]
  BY DEF Between
<1>3. ASSUME NEW j \in 1..Len(p) PROVE t[i + 1 + j - 1] = p[j]
  <2>1. PICK k : k = i + j - 1
    OBVIOUS
  <2>2. k \in 1..Len(u) /\ i + 1 + j - 1 = k + 1
    BY <1>1, <2>1
  <2> QED  BY <1>1, <1>2, <2>1, <2>2
<1>4. i + 1 + Len(p) - 1 < Len(t)
  BY <1>1, <1>2
<1> QED  BY <1>3, <1>4 DEF LiesAt

\* What MySQL reads as the character c between quotes q.
ReadAs(q, c, p) ==
    \/ c = q /\ p = <<q, q>>
    \/ q # "bq" /\ c # q /\ c \in {"\"", "\\"} /\ p = <<"\\", c>>
    \/ q # "bq" /\ c = "nl" /\ p = <<"\\", "n">>
    \/ q # "bq" /\ c = "nul" /\ p = <<"\\", "0">>
    \/ c # q /\ (q = "bq" \/ c # "\\") /\ p = <<c>>

LEMMA Pair ==
    ASSUME NEW t, NEW i, i \in Nat \ {0}, NEW a, NEW b, LiesAt(t, i, <<a, b>>)
    PROVE  t[i] = a /\ t[i + 1] = b
<1>1. Len(<<a, b>>) = 2 /\ <<a, b>>[1] = a /\ <<a, b>>[2] = b
  OBVIOUS
<1>2. i + 1 - 1 = i /\ i + 2 - 1 = i + 1 /\ 1 \in 1..2 /\ 2 \in 1..2
  OBVIOUS
<1>3. \A j \in 1..2 : t[i + j - 1] = <<a, b>>[j]
  BY <1>1 DEF LiesAt
<1>4. t[i + 1 - 1] = a /\ t[i + 2 - 1] = b
  BY <1>1, <1>2, <1>3
<1> QED  BY <1>2, <1>4

LEMMA Single ==
    ASSUME NEW t, NEW i, i \in Nat \ {0}, NEW a, LiesAt(t, i, <<a>>)
    PROVE  t[i] = a
<1>1. Len(<<a>>) = 1 /\ <<a>>[1] = a
  OBVIOUS
<1>2. i + 1 - 1 = i /\ 1 \in 1..1
  OBVIOUS
<1>3. \A j \in 1..1 : t[i + j - 1] = <<a>>[j]
  BY <1>1 DEF LiesAt
<1>4. t[i + 1 - 1] = a
  BY <1>1, <1>2, <1>3
<1> QED  BY <1>2, <1>4

\* Where a text reads a doubled quote, and where it cannot.
DoubledAt(t, i, q) == i + 1 <= Len(t) /\ t[i] = q /\ t[i + 1] = q
LEMMA Doubled ==
    ASSUME NEW t, NEW i, i \in Nat \ {0}, NEW q
    PROVE  Starts(t, i, <<q, q>>) <=> DoubledAt(t, i, q)
<1>1. Len(<<q, q>>) = 2 /\ <<q, q>>[1] = q /\ <<q, q>>[2] = q
  OBVIOUS
<1>2. i + 1 - 1 = i /\ i + 2 - 1 = i + 1 /\ 1 \in 1..2 /\ 2 \in 1..2
  OBVIOUS
<1>3. ASSUME Starts(t, i, <<q, q>>) PROVE i + 1 <= Len(t) /\ t[i] = q /\ t[i + 1] = q
  <2>1. i + 2 - 1 <= Len(t) /\ \A j \in 1..2 : t[i + j - 1] = <<q, q>>[j]
    BY <1>1, <1>3 DEF Starts
  <2>2. t[i + 1 - 1] = q /\ t[i + 2 - 1] = q
    BY <1>1, <1>2, <2>1
  <2> QED  BY <1>2, <2>1, <2>2
<1>4. ASSUME i + 1 <= Len(t), t[i] = q, t[i + 1] = q PROVE Starts(t, i, <<q, q>>)
  <2>1. ASSUME NEW j \in 1..2 PROVE t[i + j - 1] = <<q, q>>[j]
    <3>1. CASE j = 1
      BY <1>1, <1>2, <1>4, <3>1
    <3>2. CASE j = 2
      BY <1>1, <1>2, <1>4, <3>2
    <3> QED  BY <3>1, <3>2
  <2>2. i + 2 - 1 <= Len(t)
    BY <1>2, <1>4
  <2> QED  BY <1>1, <2>1, <2>2 DEF Starts
<1> QED  BY <1>3, <1>4 DEF DoubledAt

\* The branches of LiteralStep, for a position within the text.
Stands(t, x, q, i) ==
    /\ t \in Seq(Characters) /\ x \in Reading(Characters) /\ x.open = q /\ x.i = i
    /\ i \in Nat \ {0} /\ i < Len(t)

Branches(t, x, q, i) ==
    LiteralStep(t, q)[x] =
      IF t[i] = q /\ t[i + 1] = q THEN Take(x, 2, <<q>>)
      ELSE IF t[i] = q THEN [x EXCEPT !.open = "bad"]
      ELSE IF t[i] = "\\" /\ q # "bq"
        THEN Take(x, 2, <<Escaped(t[i + 1])>>)
      ELSE Take(x, 1, <<t[i]>>)

LEMMA LiteralStepIs ==
    ASSUME NEW t, NEW x, NEW q, NEW i, Stands(t, x, q, i)
    PROVE  Branches(t, x, q, i)
<1>1. LiteralStep(t, q)[x] =
             IF x.open # q THEN x
             ELSE IF x.i > Len(t) THEN [x EXCEPT !.open = "bad"]
             ELSE IF Starts(t, x.i, <<q, q>>) THEN Take(x, 2, <<q>>)
             ELSE IF t[x.i] = q THEN [x EXCEPT !.open = IF x.i = Len(t) THEN "closed" ELSE "bad"]
             ELSE IF t[x.i] = "\\" /\ q # "bq" /\ x.i < Len(t)
               THEN Take(x, 2, <<Escaped(t[x.i + 1])>>)
             ELSE Take(x, 1, <<t[x.i]>>)
  BY DEF LiteralStep, Stands
<1>2. i + 1 <= Len(t) /\ ~(i > Len(t)) /\ i # Len(t) /\ i \in Nat \ {0} /\ x.i = i /\ x.open = q
      /\ i < Len(t)
  BY DEF Stands
<1>3. Starts(t, i, <<q, q>>) <=> t[i] = q /\ t[i + 1] = q
  <2>1. Starts(t, i, <<q, q>>) <=> DoubledAt(t, i, q)
    BY <1>2, Doubled
  <2> QED  BY <1>2, <2>1 DEF DoubledAt
<1>4. LiteralStep(t, q)[x] =
             IF Starts(t, i, <<q, q>>) THEN Take(x, 2, <<q>>)
             ELSE IF t[i] = q THEN [x EXCEPT !.open = "bad"]
             ELSE IF t[i] = "\\" /\ q # "bq"
               THEN Take(x, 2, <<Escaped(t[i + 1])>>)
             ELSE Take(x, 1, <<t[i]>>)
  BY <1>1, <1>2
<1> QED  BY <1>3, <1>4 DEF Branches

LEMMA ReadsOne ==
    ASSUME NEW t, NEW x, NEW q, NEW i, NEW c, NEW p,
           Stands(t, x, q, i), q \in {"'", "bq"}, ReadAs(q, c, p), LiesAt(t, i, p)
    PROVE  LiteralStep(t, q)[x] = Take(x, Len(p), <<c>>)
<1> DEFINE Step == LiteralStep(t, q)[x]
<1>0. i \in Nat \ {0}
  BY DEF Stands
<1>a. Branches(t, x, q, i)
  BY LiteralStepIs
<1>1. CASE c = q /\ p = <<q, q>>
  <2>1. t[i] = q /\ t[i + 1] = q
    BY <1>1, <1>0, Pair
  <2>2. Len(p) = 2
    BY <1>1
  <2>4. Step = Take(x, 2, <<q>>)
    BY <2>1, <1>a DEF Branches
  <2> QED  BY <1>1, <2>2, <2>4
<1>2. CASE q # "bq" /\ c # q /\ c \in {"\"", "\\"} /\ p = <<"\\", c>>
  <2>1. t[i] = "\\" /\ t[i + 1] = c
    BY <1>2, <1>0, Pair
  <2>2. Len(p) = 2
    BY <1>2
  <2>3. t[i] # q /\ Escaped(c) = c
    BY <1>2, <2>1, <2>2 DEF Escaped
  <2>4. Step = Take(x, 2, <<Escaped(t[i + 1])>>)
    BY <1>2, <2>1, <2>3, <1>a DEF Branches
  <2>5. Step = Take(x, 2, <<c>>)
    BY <2>1, <2>3, <2>4
  <2> QED  BY <2>2, <2>5
<1>3. CASE q # "bq" /\ c = "nl" /\ p = <<"\\", "n">>
  <2>1. t[i] = "\\" /\ t[i + 1] = "n"
    BY <1>3, <1>0, Pair
  <2>2. Len(p) = 2
    BY <1>3
  <2>3. t[i] # q
    BY <1>3, <2>1, <2>2
  <2>4. Step = Take(x, 2, <<Escaped(t[i + 1])>>)
    BY <1>3, <2>1, <2>3, <1>a DEF Branches
  <2>5. Step = Take(x, 2, <<c>>)
    BY <1>3, <2>1, <2>4 DEF Escaped
  <2> QED  BY <2>2, <2>5
<1>5. CASE q # "bq" /\ c = "nul" /\ p = <<"\\", "0">>
  <2>1. t[i] = "\\" /\ t[i + 1] = "0"
    BY <1>5, <1>0, Pair
  <2>2. Len(p) = 2
    BY <1>5
  <2>3. t[i] # q
    BY <1>5, <2>1, <2>2
  <2>4. Step = Take(x, 2, <<Escaped(t[i + 1])>>)
    BY <1>5, <2>1, <2>3, <1>a DEF Branches
  <2>5. Step = Take(x, 2, <<c>>)
    BY <1>5, <2>1, <2>4 DEF Escaped
  <2> QED  BY <2>2, <2>5
<1>4. CASE c # q /\ (q = "bq" \/ c # "\\") /\ p = <<c>>
  <2>1. t[i] = c
    BY <1>4, <1>0, Single
  <2>2. Len(p) = 1
    BY <1>4
  <2>3. t[i] # q /\ ~(t[i] = "\\" /\ q # "bq")
    BY <1>4, <2>1, <2>2
  <2>4. Step = Take(x, 1, <<t[i]>>)
    BY <2>3, <1>a DEF Branches
  <2> QED  BY <2>1, <2>2, <2>4
<1> QED  BY <1>1, <1>2, <1>3, <1>4, <1>5 DEF ReadAs

StageOf(C, s, L, b, open, k) ==
    /\ s \in Seq(C) /\ b \in Nat /\ open \in Quotes \union {"none", "closed", "bad"}
    /\ k \in 0..Len(s) /\ L[k] \in Nat

LEMMA StageReads ==
    ASSUME NEW C, NEW s, NEW L, NEW b, NEW open, NEW k, StageOf(C, s, L, b, open, k)
    PROVE  /\ Stage(s, L, b, open, k) \in Reading(C)
           /\ Stage(s, L, b, open, k).i = L[k] + b /\ Stage(s, L, b, open, k).open = open
<1>1. PICK out \in Seq(C) : out = SubSeq(s, 1, k)
  <2>1. SubSeq(s, 1, k) \in Seq(C)
    BY DEF StageOf
  <2> QED  BY <2>1
<1>2. Stage(s, L, b, open, k) = [i |-> L[k] + b, out |-> out, open |-> open]
  BY <1>1 DEF Stage, ReadingAt
<1>3. [i |-> L[k] + b, out |-> out, open |-> open] \in Reading(C)
  BY DEF Reading, StageOf
<1> QED  BY <1>2, <1>3

LEMMA LiteralsComeBack ==
    ASSUME NEW s \in Seq(Characters), NEW e \in [Characters -> Seq(Characters)],
           NEW q, q \in {"'", "bq"}, \A k \in 1..Len(s) : ReadAs(q, s[k], e[s[k]])
    PROVE  ReadLiteral(<<q>> \o Each(s, e) \o <<q>>, q) = s
<1>1. PICK L, u : u = Each(s, e) /\ PiecesAt(Characters, u, s, e, L)
  BY EachIs
<1>2. u \in Seq(Characters) /\ L \in [0..Len(s) -> Nat] /\ L[0] = 0 /\ L[Len(s)] = Len(u)
  BY <1>1 DEF PiecesAt
<1>3. PICK t : t = <<q>> \o u \o <<q>>
  OBVIOUS
<1>q. q \in Quotes \union {"none", "closed", "bad"}
  BY DEF Quotes
<1>4. Between(t, q, u)
  <2>1. q \in Characters
    BY CharactersAssumption
  <2> QED  BY <1>2, <1>3, <2>1, QuotesAround
<1>5. t \in Seq(Characters) /\ Len(t) = Len(u) + 2 /\ t[1] = q /\ t[Len(t)] = q
  BY <1>4 DEF Between
<1>6. PICK step : step = LiteralStep(t, q)
  OBVIOUS
<1>7. ASSUME NEW k \in 1..Len(s)
      PROVE  e[s[k]] \in Seq(Characters) /\ e[s[k]] # <<>>
  <2>1. s[k] \in Characters
    OBVIOUS
  <2>2. PICK p : p = e[s[k]] /\ ReadAs(q, s[k], p)
    OBVIOUS
  <2>3. p # <<>>
    <3>1. CASE \E c, d : p = <<c, d>>
      BY <3>1
    <3>2. CASE \E c : p = <<c>>
      BY <3>2
    <3> QED  BY <2>2, <3>1, <3>2 DEF ReadAs
  <2> QED  BY <2>1, <2>2, <2>3
<1>8. PiecesAre(Characters, s, e) /\ PiecesLie(Characters, u, s, e, L)
  <2>1. PiecesAre(Characters, s, e)
    BY <1>7 DEF PiecesAre
  <2> QED  BY <1>1, <2>1, EachPieceLies
<1>9. ASSUME NEW k \in 1..Len(s)
      PROVE  step[Stage(s, L, 2, q, k - 1)] = Stage(s, L, 2, q, k)
  <2>1. PICK x : x = Stage(s, L, 2, q, k - 1)
    OBVIOUS
  <2>2. PICK p \in Seq(Characters) : p = e[s[k]]
    BY <1>7
  <2>3. L[k - 1] \in Nat /\ L[k] = L[k - 1] + Len(p) /\ LiesAt(u, L[k - 1] + 1, p)
    BY <1>8, <2>2 DEF PiecesLie
  <2>4. x \in Reading(Characters) /\ x.i = L[k - 1] + 2 /\ x.open = q
    <3>1. k - 1 \in 0..Len(s)
      OBVIOUS
    <3>2. StageOf(Characters, s, L, 2, q, k - 1)
      BY <1>q, <2>3, <3>1 DEF StageOf
    <3> QED  BY <2>1, <3>2, StageReads
  <2>5. PICK i, m : i = L[k - 1] + 1 /\ m = Len(p)
    OBVIOUS
  <2>6. i \in Nat \ {0} /\ i + 1 \in Nat \ {0} /\ x.i = i + 1 /\ m \in Nat
    <3>1. PICK a \in Nat : a = L[k - 1]
      BY <2>3
    <3>2. i = a + 1 /\ x.i = a + 2
      BY <2>4, <2>5, <3>1
    <3> QED  BY <2>2, <2>5, <3>2
  <2>7. LiesAt(t, i + 1, p) /\ i + 1 + Len(p) - 1 < Len(t)
    BY <1>2, <1>4, <2>2, <2>3, <2>5, <2>6, LiesBetween
  <2>8. ReadAs(q, s[k], p)
    BY <2>2
  <2>9. step[x] = Take(x, m, <<s[k]>>)
    <3>1. PICK j : j = i + 1
      OBVIOUS
    <3>2. LiesAt(t, j, p) /\ j < Len(t)
      <4>1. Len(p) >= 1
        BY <1>7, <2>2
      <4>2. Len(t) \in Nat
        BY <1>5
      <4>3. PICK a \in Nat, b \in Nat : a = Len(p) /\ b = Len(t)
        BY <2>2, <4>2
      <4>4. j + a - 1 < b /\ a >= 1 /\ j \in Nat
        BY <2>6, <2>7, <3>1, <4>1, <4>3
      <4>5. j < b
        BY ONLY <4>4, a \in Nat, b \in Nat
      <4> QED  BY <2>7, <3>1, <4>3, <4>5
    <3>3. Stands(t, x, q, j)
      BY <1>5, <2>4, <2>6, <3>1, <3>2 DEF Stands
    <3> QED  BY <1>6, <2>5, <2>8, <3>2, <3>3, ReadsOne
  <2>10. Take(x, m, <<s[k]>>) = Stage(s, L, 2, q, k)
    BY <2>1, <2>3, <2>5, <2>6, ReadsOneMore, SMTT(20)
  <2> QED  BY <2>1, <2>9, <2>10
<1>10. ReadsEach(s, L, 2, q, step)
  BY <1>9 DEF ReadsEach
<1>11. PICK last : last = Stage(s, L, 2, q, Len(s))
  OBVIOUS
<1>12. last \in Reading(Characters) /\ last.i = Len(t) /\ last.open = q
  <2>1. Len(s) \in 0..Len(s)
    OBVIOUS
  <2>2. L[Len(s)] \in Nat /\ L[Len(s)] + 2 = Len(t)
    BY <1>2, <1>5
  <2>3. StageOf(Characters, s, L, 2, q, Len(s))
    BY <1>q, <2>1, <2>2 DEF StageOf
  <2> QED  BY <1>11, <2>2, <2>3, StageReads
<1>13. PICK final : final = [last EXCEPT !.open = "closed"]
  OBVIOUS
<1>14. final \in Reading(Characters) /\ final.open = "closed" /\ final.out = last.out
  BY <1>12, <1>13 DEF Reading
<1>15. step[last] = final
  <2>1. PICK n : n = Len(t) /\ n \in Nat \ {0}
    BY <1>2, <1>5
  <2>2. ~Starts(t, n, <<q, q>>)
    <3>1. ~(n + 1 <= n)
      BY <2>1
    <3> QED  BY <2>1, <3>1, Doubled DEF DoubledAt
  <2>3. step[last] =
             IF last.open # q THEN last
             ELSE IF last.i > Len(t) THEN [last EXCEPT !.open = "bad"]
             ELSE IF Starts(t, last.i, <<q, q>>) THEN Take(last, 2, <<q>>)
             ELSE IF t[last.i] = q THEN [last EXCEPT !.open = IF last.i = Len(t) THEN "closed" ELSE "bad"]
             ELSE IF t[last.i] = "\\" /\ q # "bq" /\ last.i < Len(t)
               THEN Take(last, 2, <<Escaped(t[last.i + 1])>>)
             ELSE Take(last, 1, <<t[last.i]>>)
    BY <1>6, <1>12 DEF LiteralStep
  <2>4. last.open = q /\ ~(last.i > Len(t)) /\ ~Starts(t, last.i, <<q, q>>) /\ t[last.i] = q
        /\ last.i = Len(t)
    BY <1>5, <1>12, <2>1, <2>2
  <2>5. step[last] = [last EXCEPT !.open = "closed"]
    BY <2>3, <2>4
  <2> QED  BY <1>13, <2>5
<1>16. step[final] = final
  BY <1>6, <1>14 DEF LiteralStep
<1>17. EndsIn(s, L, 2, q, step, final, 1)
  BY <1>11, <1>15, <1>16 DEF EndsIn
<1>18. Len(s) + 1 <= Len(t) + 1 /\ Len(t) + 1 \in Nat
  <2>1. Len(s) <= Len(u)
    BY <1>1, <1>7, <1>8, PiecesAreLong
  <2> QED  BY <1>2, <1>5, <2>1
<1>19. Loop(Stage(s, L, 2, q, 0), step, Len(t) + 1) = final
  BY <1>10, <1>17, <1>18, ReadsPieces
<1>20. Stage(s, L, 2, q, 0) = Begin(2, q)
  BY <1>2 DEF Stage, ReadingAt, Begin
<1>21. final.out = s
  <2>1. SubSeq(s, 1, Len(s)) = s
    OBVIOUS
  <2> QED  BY <1>11, <1>14, <2>1 DEF Stage, ReadingAt
<1>22. t # <<>>
  BY <1>2, <1>5
<1> QED  BY <1>1, <1>3, <1>5, <1>6, <1>14, <1>19, <1>20, <1>21, <1>22 DEF ReadLiteral


LEMMA PieceOf ==
    ASSUME NEW C, NEW t, NEW s, NEW e, NEW L,
           s \in Seq(C), PiecesAt(C, t, s, e, L), PiecesAre(C, s, e), NEW i, i \in 1..Len(t)
    PROVE  \E k \in 1..Len(s) : \E d \in 1..Len(e[s[k]]) : i = L[k - 1] + d /\ t[i] = e[s[k]][d]
<1> DEFINE T == {k \in 0..Len(s) : i <= L[k]}
<1>0. /\ Len(s) \in Nat /\ t \in Seq(C) /\ L \in [0..Len(s) -> Nat] /\ L[0] = 0 /\ L[Len(s)] = Len(t)
      /\ PiecesLie(C, t, s, e, L)
  <2>1. PiecesLie(C, t, s, e, L)
    BY EachPieceLies
  <2> QED  BY <2>1 DEF PiecesAt
<1>1. Len(s) \in T
  BY <1>0
<1>2. PICK m \in T : \A k \in T : m <= k
  <2>1. T \in SUBSET Nat /\ T # {}
    BY <1>1
  <2> HIDE DEF T
  <2> QED  BY <2>1, LeastNatural
<1>3. m \in 1..Len(s)
  BY <1>0
<1>4. m - 1 \in 0..Len(s) /\ ~(i <= L[m - 1])
  <2>1. m - 1 \in 0..Len(s)
    BY <1>3
  <2>2. m - 1 \notin T
    <3> SUFFICES ASSUME m - 1 \in T PROVE FALSE
      OBVIOUS
    <3>1. m <= m - 1
      BY <1>2
    <3> QED  BY <1>3, <3>1
  <2> QED  BY <2>1, <2>2
<1>5. PICK a \in Nat, p \in Seq(C) : a = L[m - 1] /\ p = e[s[m]]
  BY <1>0, <1>3, <1>4 DEF PiecesAre
<1>6. L[m] = a + Len(p) /\ LiesAt(t, a + 1, p) /\ i <= L[m] /\ ~(i <= a)
  BY <1>0, <1>3, <1>4, <1>5 DEF PiecesLie
<1>7. PICK d \in 1..Len(p) : i = a + d
  <2>1. i - a \in 1..Len(p) /\ i = a + (i - a)
    <3>1. PICK b \in Nat : b = Len(p)
      OBVIOUS
    <3>2. i <= a + b /\ ~(i <= a) /\ i \in Nat
      BY <1>6, <3>1
    <3> QED  BY <3>1, <3>2
  <2> QED  BY <2>1
<1>8. t[i] = p[d]
  <2>1. t[a + 1 + d - 1] = p[d]
    BY <1>6 DEF LiesAt
  <2>2. a + 1 + d - 1 = i
    BY <1>7
  <2> QED  BY <2>1, <2>2
<1> QED  BY <1>3, <1>5, <1>7, <1>8

LEMMA PiecesInOrder ==
    ASSUME NEW C, NEW t, NEW s, NEW e, NEW L, s \in Seq(C), PiecesAt(C, t, s, e, L), PiecesAre(C, s, e)
    PROVE  \A b \in 0..Len(s) : \A a \in 0..b : L[a] <= L[b]
<1>1. PICK P : P = {b \in 0..Len(s) : \A a \in 0..b : L[a] <= L[b]}
  OBVIOUS
<1>0. Len(s) \in Nat /\ L \in [0..Len(s) -> Nat] /\ PiecesLie(C, t, s, e, L)
  <2>1. PiecesLie(C, t, s, e, L)
    BY EachPieceLies
  <2> QED  BY <2>1 DEF PiecesAt
<1>2. 0 \in P
  BY <1>0, <1>1
<1>3. ASSUME NEW b \in 1..Len(s), b - 1 \in P
      PROVE  b \in P
  <2>1. \A a \in 0..(b - 1) : L[a] <= L[b - 1]
    BY <1>1, <1>3
  <2>2. PICK p \in Seq(C) : p = e[s[b]]
    BY DEF PiecesAre
  <2>3. L[b] = L[b - 1] + Len(p) /\ L[b - 1] \in Nat /\ L[b] \in Nat
    BY <1>0, <2>2 DEF PiecesLie
  <2>4. ASSUME NEW a \in 0..b PROVE L[a] <= L[b]
    <3>1. CASE a = b
      BY <2>3, <3>1
    <3>2. CASE a # b
      <4>1. a \in 0..(b - 1) /\ a \in 0..Len(s)
        BY <3>2
      <4>2. L[a] <= L[b - 1] /\ L[a] \in Nat
        BY <1>0, <2>1, <4>1
      <4> QED  BY <2>2, <2>3, <4>2
    <3> QED  BY <3>1, <3>2
  <2> QED  BY <1>1, <2>4
<1>4. 0..Len(s) \subseteq P
  BY <1>0, <1>2, <1>3, Induction
<1> QED  BY <1>1, <1>4

-----------------------------------------------------------------------------
(* A literal and comments.                                                 *)

\* The second of a doubled quote, in the literal t of s.
Second(s, L, i) == \E k \in 1..Len(s) : s[k] = "'" /\ i = L[k - 1] + 3
Literal(t, s, L) ==
    /\ s \in Seq(Characters)
    /\ \E u : PiecesAt(Characters, u, s, SQLEscapes, L) /\ Between(t, "'", u)

LEMMA QuoteIsDoubled ==
    ASSUME NEW t, NEW s, NEW L, Literal(t, s, L), NEW k, k \in 1..Len(s), s[k] = "'"
    PROVE  /\ L[k - 1] \in Nat /\ L[k] = L[k - 1] + 2 /\ L[k] + 2 <= Len(t)
           /\ t[L[k - 1] + 2] = "'" /\ t[L[k - 1] + 3] = "'"
<1>1. PICK u : PiecesAt(Characters, u, s, SQLEscapes, L) /\ Between(t, "'", u)
  BY DEF Literal
<1>0. s \in Seq(Characters) /\ PiecesAre(Characters, s, SQLEscapes)
  <2>1. s \in Seq(Characters)
    BY DEF Literal
  <2>2. ASSUME NEW j \in 1..Len(s) PROVE SQLEscapes[s[j]] \in Seq(Characters)
    <3>1. s[j] \in Characters
      BY <2>1
    <3> QED  BY <3>1, EscapesAreTexts
  <2> QED  BY <2>1, <2>2 DEF PiecesAre
<1>2. PiecesLie(Characters, u, s, SQLEscapes, L)
  BY <1>0, <1>1, EachPieceLies
<1>3. SQLEscapes[s[k]] = <<"'", "'">>
  BY CharactersAssumption DEF SQLEscapes
<1>4. L[k - 1] \in Nat /\ L[k] = L[k - 1] + Len(<<"'", "'">>) /\ LiesAt(u, L[k - 1] + 1, <<"'", "'">>)
  BY <1>2, <1>3 DEF PiecesLie
<1>5. Len(<<"'", "'">>) = 2
  OBVIOUS
<1>6. PICK a \in Nat : a = L[k - 1]
  BY <1>4
<1>7. LiesAt(u, a + 1, <<"'", "'">>) /\ a + 1 \in Nat \ {0}
  BY <1>4, <1>6
<1>8. PICK i : i = a + 1
  OBVIOUS
<1>9. u[i] = "'" /\ u[i + 1] = "'"
  BY <1>7, <1>8, Pair
<1>10. i + 1 <= Len(u) /\ i \in Nat \ {0} /\ Len(u) \in Nat
  <2>1. a + 1 + 2 - 1 <= Len(u)
    BY <1>5, <1>7 DEF LiesAt
  <2>2. u \in Seq(Characters)
    BY <1>1 DEF PiecesAt
  <2> QED  BY <1>8, <2>1, <2>2
<1>11. t[i + 1] = u[i] /\ t[i + 1 + 1] = u[i + 1] /\ Len(t) = Len(u) + 2
  BY <1>1, <1>10 DEF Between
<1>12. i + 1 = a + 2 /\ i + 1 + 1 = a + 3
  BY <1>8
<1>13. L[k] = a + 2 /\ L[k] + 2 <= Len(t)
  <2>1. L[k] = a + 2
    BY <1>4, <1>5, <1>6
  <2>2. a + 2 <= Len(u) /\ Len(t) = Len(u) + 2
    BY <1>8, <1>10, <1>11
  <2>3. a + 2 + 2 <= Len(u) + 2
    BY <1>10, <2>2
  <2> QED  BY <2>1, <2>2, <2>3
<1> QED  BY <1>6, <1>9, <1>11, <1>12, <1>13

\* A quote within the literal is the first or the second of two.
LEMMA QuoteIsFirst ==
    ASSUME NEW t, NEW s, NEW L, Literal(t, s, L), NEW i, i \in 2..(Len(t) - 1), t[i] = "'",
           ~Second(s, L, i)
    PROVE  \E k \in 1..Len(s) : s[k] = "'" /\ i = L[k - 1] + 2
<1>1. PICK u : PiecesAt(Characters, u, s, SQLEscapes, L) /\ Between(t, "'", u)
  BY DEF Literal
<1>0. s \in Seq(Characters) /\ PiecesAre(Characters, s, SQLEscapes)
  <2>1. s \in Seq(Characters)
    BY DEF Literal
  <2>2. ASSUME NEW j \in 1..Len(s) PROVE SQLEscapes[s[j]] \in Seq(Characters)
    <3>1. s[j] \in Characters
      BY <2>1
    <3> QED  BY <3>1, EscapesAreTexts
  <2> QED  BY <2>1, <2>2 DEF PiecesAre
<1>2. PICK n : n = i - 1
  OBVIOUS
<1>3. n \in 1..Len(u) /\ i = n + 1 /\ t[i] = u[n]
  <2>1. u \in Seq(Characters) /\ Len(t) = Len(u) + 2
    BY <1>1 DEF PiecesAt, Between
  <2>2. n \in 1..Len(u) /\ i = n + 1
    BY <1>2, <2>1
  <2> QED  BY <1>1, <2>2 DEF Between
<1>4. PICK k \in 1..Len(s) :
        \E d \in 1..Len(SQLEscapes[s[k]]) : n = L[k - 1] + d /\ u[n] = SQLEscapes[s[k]][d]
  BY <1>0, <1>1, <1>3, PieceOf
<1>5. PICK c \in Characters : c = s[k]
  <2>1. s[k] \in Characters
    BY <1>0
  <2> QED  BY <2>1
<1>6. PICK d \in 1..Len(SQLEscapes[c]) : n = L[k - 1] + d /\ SQLEscapes[c][d] = "'"
  BY <1>3, <1>4, <1>5
<1>7. c = "'"
  <2> SUFFICES ASSUME c # "'" PROVE FALSE
    OBVIOUS
  <2>1. PICK p : p = SQLEscapes[c]
    OBVIOUS
  <2>2. CASE c = "\""
    <3>1. p = <<"\\", "\"">>
      BY <2>1, <2>2 DEF SQLEscapes
    <3>a. PICK a : a = "\\" /\ a # "'"
      OBVIOUS
    <3>b. PICK b : b = "\"" /\ b # "'"
      BY <2>2, c # "'"
    <3>2. a # "'" /\ b # "'"
      BY <3>a, <3>b
    <3>3. p = <<a, b>>
      BY <3>1, <3>a, <3>b
    <3>4. Len(p) = 2 /\ p[1] = a /\ p[2] = b
      BY ONLY <3>3
    <3>5. d \in 1..Len(p) /\ p[d] = "'"
      BY <1>6, <2>1
    <3>6. d \in {1, 2}
      BY ONLY <3>4, <3>5
    <3> QED  BY <3>2, <3>4, <3>5, <3>6
  <2>3. CASE c = "\\"
    <3>1. p = <<"\\", "\\">>
      BY <2>1, <2>3 DEF SQLEscapes
    <3>2. Len(p) = 2 /\ p[1] = "\\" /\ p[2] = "\\"
      BY <3>1
    <3>3. d \in 1..Len(p) /\ p[d] = "'"
      BY <1>6, <2>1
    <3>4. d \in {1, 2}
      BY <3>2, <3>3
    <3> QED  BY <3>2, <3>3, <3>4
  <2>4. CASE c = "nl"
    <3>1. p = <<"\\", "n">>
      BY <2>1, <2>4 DEF SQLEscapes
    <3>2. Len(p) = 2 /\ p[1] = "\\" /\ p[2] = "n"
      BY <3>1
    <3>3. d \in 1..Len(p) /\ p[d] = "'"
      BY <1>6, <2>1
    <3>4. d \in {1, 2}
      BY <3>2, <3>3
    <3> QED  BY <3>2, <3>3, <3>4
  <2>6. CASE c = "nul"
    <3>1. p = <<"\\", "0">>
      BY <2>1, <2>6 DEF SQLEscapes
    <3>2. Len(p) = 2 /\ p[1] = "\\" /\ p[2] = "0"
      BY <3>1
    <3>3. d \in 1..Len(p) /\ p[d] = "'"
      BY <1>6, <2>1
    <3>4. d \in {1, 2}
      BY <3>2, <3>3
    <3> QED  BY <3>2, <3>3, <3>4
  <2>5. CASE c \notin {"\"", "\\", "nl", "nul"}
    <3>1. p = <<c>>
      BY <2>1, <2>5 DEF SQLEscapes
    <3>2. Len(p) = 1 /\ p[1] = c
      BY <3>1
    <3>3. d = 1
      BY <1>6, <2>1, <3>2
    <3>4. p[d] = "'"
      BY <1>6, <2>1
    <3> QED  BY <3>2, <3>3, <3>4
  <2> QED  BY <2>2, <2>3, <2>4, <2>5, <2>6
<1>8. d \in 1..2
  <2>1. SQLEscapes[c] = <<"'", "'">> /\ Len(<<"'", "'">>) = 2
    BY <1>7 DEF SQLEscapes
  <2> QED  BY <1>6, <2>1
<1>9. L[k - 1] \in Nat
  <2>1. k - 1 \in 0..Len(s)
    BY <1>0
  <2> QED  BY <1>1, <2>1 DEF PiecesAt
<1>10. d # 2
  <2> SUFFICES ASSUME d = 2 PROVE FALSE
    OBVIOUS
  <2>1. i = L[k - 1] + 3
    BY <1>3, <1>6, <1>9
  <2> QED  BY <1>5, <1>7, <2>1 DEF Second
<1>11. i = L[k - 1] + 2
  BY <1>3, <1>6, <1>8, <1>9, <1>10
<1> QED  BY <1>5, <1>7, <1>11


\* The state of a loop that has kept the first i - 1 characters of t.
Kept(t, i, open) == ReadingAt(i, SubSeq(t, 1, i - 1), open)

LEMMA KeptIs ==
    ASSUME NEW t \in Seq(Characters), NEW i \in 1..(Len(t) + 1),
           NEW open \in Quotes \union {"none", "closed", "bad"}
    PROVE  /\ Kept(t, i, open) \in Reading(Characters)
           /\ Kept(t, i, open).i = i /\ Kept(t, i, open).open = open
<1>0. PICK k \in 0..Len(t) : k = i - 1
  OBVIOUS
<1>1. PICK out \in Seq(Characters) : out = SubSeq(t, 1, k)
  <2>1. SubSeq(t, 1, k) \in Seq(Characters)
    OBVIOUS
  <2> QED  BY <2>1
<1>2. Kept(t, i, open) = [i |-> i, out |-> out, open |-> open]
  BY <1>0, <1>1 DEF Kept, ReadingAt
<1> QED  BY <1>2 DEF Reading

LEMMA KeepsOne ==
    ASSUME NEW t \in Seq(Characters), NEW i \in 1..Len(t), NEW open
    PROVE  Take(Kept(t, i, open), 1, <<t[i]>>) = Kept(t, i + 1, open)
<1>1. SubSeq(t, 1, i - 1) \o <<t[i]>> = SubSeq(t, 1, i)
  OBVIOUS
<1>2. i + 1 - 1 = i
  OBVIOUS
<1> QED  BY <1>1, <1>2 DEF Take, Kept, ReadingAt

LEMMA OneByOne ==
    ASSUME NEW u, u \in Seq(Characters), NEW a \in Characters, NEW b \in Characters
    PROVE  (u \o <<a>>) \o <<b>> = u \o <<a, b>>
<1>1. <<a>> \o <<b>> = <<a, b>>
  <2>1. PICK v, p, q, w : v = p \o q /\ p = <<a>> /\ q = <<b>> /\ w = <<a, b>>
    OBVIOUS
  <2>2. p \in Seq(Characters) /\ q \in Seq(Characters) /\ w \in Seq(Characters)
    BY <2>1
  <2>3. v \in Seq(Characters) /\ Len(v) = 2 /\ v[1] = a /\ v[2] = b
    BY <2>1, <2>2
  <2>4. Len(w) = 2 /\ w[1] = a /\ w[2] = b
    BY <2>1
  <2>5. \A i \in 1..Len(v) : v[i] = w[i]
    BY <2>3, <2>4
  <2>6. v = w
    BY <2>2, <2>3, <2>4, <2>5, SeqEqual
  <2> QED  BY <2>1, <2>6
<1>2. <<a>> \in Seq(Characters) /\ <<b>> \in Seq(Characters)
  OBVIOUS
<1>3. (u \o <<a>>) \o <<b>> = u \o (<<a>> \o <<b>>)
  BY <1>2, ConcatAssociative
<1> QED  BY <1>1, <1>3

LEMMA KeepsTwo ==
    ASSUME NEW t \in Seq(Characters), NEW i \in 1..(Len(t) - 1), NEW open
    PROVE  Take(Kept(t, i, open), 2, <<t[i], t[i + 1]>>) = Kept(t, i + 2, open)
<1>1. SubSeq(t, 1, i - 1) \o <<t[i], t[i + 1]>> = SubSeq(t, 1, i + 1)
  <2>1. SubSeq(t, 1, i - 1) \o <<t[i]>> = SubSeq(t, 1, i)
    OBVIOUS
  <2>2. SubSeq(t, 1, i) \o <<t[i + 1]>> = SubSeq(t, 1, i + 1)
    OBVIOUS
  <2>0. PICK k \in 0..Len(t) : k = i - 1
    OBVIOUS
  <2>3. SubSeq(t, 1, k) \in Seq(Characters) /\ t[i] \in Characters /\ t[i + 1] \in Characters
    OBVIOUS
  <2>4. (SubSeq(t, 1, k) \o <<t[i]>>) \o <<t[i + 1]>> = SubSeq(t, 1, k) \o <<t[i], t[i + 1]>>
    BY <2>3, OneByOne
  <2> QED  BY <2>0, <2>1, <2>2, <2>4
<1>2. PICK j : j = i + 2 /\ j - 1 = i + 1
  OBVIOUS
<1>3. Take(Kept(t, i, open), 2, <<t[i], t[i + 1]>>)
        = [i |-> j, out |-> SubSeq(t, 1, i + 1), open |-> open]
  BY <1>1, <1>2 DEF Take, Kept, ReadingAt
<1> QED  BY <1>2, <1>3 DEF Kept, ReadingAt

\* Where the removal of comments can be in a literal.
Where(t, s, L, i, open) ==
    \/ i = 1 /\ open = "none"
    \/ i \in 2..Len(t) /\ open = "'" /\ ~Second(s, L, i)
    \/ i = Len(t) + 1 /\ open = "none"
Moves(t, s, L, i, open) ==
    \E j, o : /\ Where(t, s, L, j, o) /\ j > i
              /\ StripStep(t)[Kept(t, i, open)] = Kept(t, j, o)

LEMMA LiteralIs ==
    ASSUME NEW t, NEW s, NEW L, Literal(t, s, L)
    PROVE  /\ t \in Seq(Characters) /\ s \in Seq(Characters) /\ Len(t) \in Nat /\ Len(t) >= 2
           /\ t[1] = "'" /\ t[Len(t)] = "'"
<1>1. PICK u : PiecesAt(Characters, u, s, SQLEscapes, L) /\ Between(t, "'", u)
  BY DEF Literal
<1>2. u \in Seq(Characters)
  BY <1>1 DEF PiecesAt
<1>3. Len(u) \in Nat
  BY <1>2
<1> QED  BY <1>1, <1>3 DEF Between, Literal

LEMMA InOrder ==
    ASSUME NEW t, NEW s, NEW L, Literal(t, s, L)
    PROVE  \A b \in 0..Len(s) : L[b] \in Nat /\ \A a \in 0..b : L[a] <= L[b]
<1>1. PICK u : PiecesAt(Characters, u, s, SQLEscapes, L)
  BY DEF Literal
<1>2. s \in Seq(Characters) /\ PiecesAre(Characters, s, SQLEscapes)
  <2>1. s \in Seq(Characters)
    BY DEF Literal
  <2>2. ASSUME NEW j \in 1..Len(s) PROVE SQLEscapes[s[j]] \in Seq(Characters)
    <3>1. s[j] \in Characters
      BY <2>1
    <3> QED  BY <3>1, EscapesAreTexts
  <2> QED  BY <2>1, <2>2 DEF PiecesAre
<1>3. L \in [0..Len(s) -> Nat]
  BY <1>1 DEF PiecesAt
<1>4. \A b \in 0..Len(s) : \A a \in 0..b : L[a] <= L[b]
  BY <1>1, <1>2, PiecesInOrder
<1> QED  BY <1>3, <1>4

\* Behind a doubled quote there is no second quote, nor behind another character.
LEMMA NoSecondBehindTwo ==
    ASSUME NEW t, NEW s, NEW L, Literal(t, s, L), NEW k \in 1..Len(s), s[k] = "'"
    PROVE  ~Second(s, L, L[k - 1] + 4)
<1>0. Len(s) \in Nat
  BY LiteralIs
<1>1. PICK a : a = L[k - 1]
  OBVIOUS
<1>2. a \in Nat /\ L[k] = a + 2
  BY <1>1, QuoteIsDoubled
<1> SUFFICES ASSUME NEW m \in 1..Len(s), a + 4 = L[m - 1] + 3
             PROVE  FALSE
  BY <1>1 DEF Second
<1>3. k - 1 \in 0..Len(s) /\ m - 1 \in 0..Len(s) /\ k \in 0..Len(s) /\ L[m - 1] \in Nat
  BY <1>0, InOrder
<1>4. CASE m - 1 <= k - 1
  <2>1. m - 1 \in 0..(k - 1)
    BY <1>3, <1>4
  <2>2. L[m - 1] <= a
    BY <1>1, <1>3, <2>1, InOrder
  <2> QED  BY <1>2, <1>3, <2>2
<1>5. CASE ~(m - 1 <= k - 1)
  <2>1. k \in 0..(m - 1)
    BY <1>3, <1>5
  <2>2. a + 2 <= L[m - 1]
    BY <1>2, <1>3, <2>1, InOrder
  <2> QED  BY <1>2, <1>3, <2>2
<1> QED  BY <1>4, <1>5

LEMMA NoSecondBehindOne ==
    ASSUME NEW t, NEW s, NEW L, Literal(t, s, L), NEW i \in Nat, t[i] # "'"
    PROVE  ~Second(s, L, i + 1)
<1> SUFFICES ASSUME NEW m \in 1..Len(s), s[m] = "'", i + 1 = L[m - 1] + 3
             PROVE  FALSE
  BY DEF Second
<1>1. L[m - 1] \in Nat /\ t[L[m - 1] + 2] = "'"
  BY QuoteIsDoubled
<1>2. i = L[m - 1] + 2
  BY <1>1
<1> QED  BY <1>1, <1>2

LEMMA StripsOpening ==
    ASSUME NEW t, NEW s, NEW L, Literal(t, s, L)
    PROVE  Moves(t, s, L, 1, "none")
<1>0. t \in Seq(Characters) /\ Len(t) \in Nat /\ Len(t) >= 2 /\ t[1] = "'"
  BY LiteralIs
<1>1. PICK x : x = Kept(t, 1, "none")
  OBVIOUS
<1>2. x \in Reading(Characters) /\ x.i = 1 /\ x.open = "none"
  <2>1. 1 \in 1..(Len(t) + 1) /\ "none" \in Quotes \union {"none", "closed", "bad"}
    BY <1>0
  <2> QED  BY <1>0, <1>1, <2>1, KeptIs
<1>3. StripStep(t)[x] = [Take(x, 1, <<t[1]>>) EXCEPT !.open = "'"]
  <2>1. ~(1 > Len(t)) /\ t[1] \in {"'", "\""}
    BY <1>0
  <2>2. StripStep(t)[x] = [Take(x, 1, <<t[x.i]>>) EXCEPT !.open = t[x.i]]
    BY <1>2, <2>1 DEF StripStep
  <2> QED  BY <1>0, <1>2, <2>2
<1>4. Take(x, 1, <<t[1]>>) = Kept(t, 2, "none")
  BY <1>0, <1>1, KeepsOne
<1>5. [Kept(t, 2, "none") EXCEPT !.open = "'"] = Kept(t, 2, "'")
  BY DEF Kept, ReadingAt
<1>6. ~Second(s, L, 2)
  <2> SUFFICES ASSUME NEW m \in 1..Len(s), s[m] = "'", 2 = L[m - 1] + 3
               PROVE  FALSE
    BY DEF Second
  <2>1. L[m - 1] \in Nat
    BY QuoteIsDoubled
  <2> QED  BY <2>1
<1>7. Where(t, s, L, 2, "'")
  BY <1>0, <1>6 DEF Where
<1> QED  BY <1>1, <1>3, <1>4, <1>5, <1>7 DEF Moves

LEMMA StripsWithin ==
    ASSUME NEW t, NEW s, NEW L, Literal(t, s, L), NEW i \in 2..Len(t), ~Second(s, L, i)
    PROVE  Moves(t, s, L, i, "'")
<1>0. t \in Seq(Characters) /\ Len(t) \in Nat /\ Len(t) >= 2 /\ t[Len(t)] = "'"
  BY LiteralIs
<1>1. PICK x : x = Kept(t, i, "'")
  OBVIOUS
<1>2. x \in Reading(Characters) /\ x.i = i /\ x.open = "'"
  <2>1. i \in 1..(Len(t) + 1) /\ "'" \in Quotes \union {"none", "closed", "bad"}
    BY <1>0 DEF Quotes
  <2> QED  BY <1>0, <1>1, <2>1, KeptIs
<1>a. i \in Nat \ {0} /\ i \in 1..Len(t) /\ ~(i > Len(t))
  BY <1>0
<1>3. StripStep(t)[x] =
        IF Starts(t, i, <<"'", "'">>) THEN Take(x, 2, <<"'", "'">>)
        ELSE [Take(x, 1, <<t[i]>>) EXCEPT !.open = IF t[i] = @ THEN "none" ELSE @]
  BY <1>0, <1>2, <1>a DEF StripStep
<1>4. Starts(t, i, <<"'", "'">>) <=> DoubledAt(t, i, "'")
  BY <1>a, Doubled
<1>5. CASE DoubledAt(t, i, "'")
  <2>1. i + 1 <= Len(t) /\ t[i] = "'" /\ t[i + 1] = "'"
    BY <1>5 DEF DoubledAt
  <2>2. i \in 2..(Len(t) - 1) /\ i \in 1..(Len(t) - 1)
    BY <1>0, <2>1
  <2>3. PICK k \in 1..Len(s) : s[k] = "'" /\ i = L[k - 1] + 2
    BY <2>1, <2>2, QuoteIsFirst
  <2>4. L[k - 1] \in Nat /\ L[k] = L[k - 1] + 2 /\ L[k] + 2 <= Len(t)
    BY <2>3, QuoteIsDoubled
  <2>5. i + 2 <= Len(t) /\ i + 2 = L[k - 1] + 4
    BY <2>3, <2>4
  <2>6. ~Second(s, L, i + 2)
    BY <2>3, <2>5, NoSecondBehindTwo
  <2>7. Where(t, s, L, i + 2, "'")
    <3>1. i + 2 \in 2..Len(t)
      BY <1>0, <2>5
    <3> QED  BY <2>6, <3>1 DEF Where
  <2>8. Take(x, 2, <<t[i], t[i + 1]>>) = Kept(t, i + 2, "'")
    BY <1>0, <1>1, <2>2, KeepsTwo
  <2>9. StripStep(t)[x] = Kept(t, i + 2, "'")
    BY <1>3, <1>4, <1>5, <2>1, <2>8
  <2>10. i + 2 > i
    OBVIOUS
  <2> QED  BY <1>1, <2>7, <2>9, <2>10 DEF Moves
<1>6. CASE ~DoubledAt(t, i, "'")
  <2>1. Take(x, 1, <<t[i]>>) = Kept(t, i + 1, "'")
    BY <1>0, <1>1, <1>a, KeepsOne
  <2>2. StripStep(t)[x] = [Kept(t, i + 1, "'") EXCEPT !.open = IF t[i] = @ THEN "none" ELSE @]
    BY <1>3, <1>4, <1>6, <2>1
  <2>3. i + 1 > i
    OBVIOUS
  <2>4. CASE i = Len(t)
    <3>1. StripStep(t)[x] = Kept(t, i + 1, "none")
      BY <1>0, <2>2, <2>4 DEF Kept, ReadingAt
    <3>2. Where(t, s, L, i + 1, "none")
      BY <2>4 DEF Where
    <3> QED  BY <1>1, <2>3, <3>1, <3>2 DEF Moves
  <2>5. CASE i # Len(t)
    <3>1. i \in 2..(Len(t) - 1) /\ i + 1 \in 2..Len(t)
      BY <1>0, <2>5
    <3>2. t[i] # "'"
      <4> SUFFICES ASSUME t[i] = "'" PROVE FALSE
        OBVIOUS
      <4>1. PICK k \in 1..Len(s) : s[k] = "'" /\ i = L[k - 1] + 2
        BY <3>1, QuoteIsFirst
      <4>2. L[k - 1] \in Nat /\ t[L[k - 1] + 3] = "'"
        BY <4>1, QuoteIsDoubled
      <4>3. i + 1 = L[k - 1] + 3 /\ i + 1 <= Len(t)
        BY <3>1, <4>1, <4>2
      <4> QED  BY <1>6, <4>2, <4>3 DEF DoubledAt
    <3>3. StripStep(t)[x] = Kept(t, i + 1, "'")
      BY <2>2, <3>2 DEF Kept, ReadingAt
    <3>4. ~Second(s, L, i + 1)
      BY <1>a, <3>2, NoSecondBehindOne
    <3>5. Where(t, s, L, i + 1, "'")
      BY <3>1, <3>4 DEF Where
    <3> QED  BY <1>1, <2>3, <3>3, <3>5 DEF Moves
  <2> QED  BY <2>4, <2>5
<1> QED  BY <1>5, <1>6


LEMMA CommentsAreNotSeen ==
    ASSUME NEW t, NEW s, NEW L, Literal(t, s, L)
    PROVE  RemoveSQLComments(t) = t
<1>0. t \in Seq(Characters) /\ Len(t) \in Nat /\ Len(t) >= 2
  BY LiteralIs
<1> DEFINE n == Len(t)
           A == {a \in (1..(n + 1)) \X {"none", "'"} : Where(t, s, L, a[1], a[2])}
           P == {Kept(t, a[1], a[2]) : a \in A}
           left == [x \in P |-> n + 1 - x.i]
<1>1. PICK step : step = StripStep(t)
  OBVIOUS
<1>2. ASSUME NEW j, NEW o, Where(t, s, L, j, o)
      PROVE  Kept(t, j, o) \in P /\ j \in 1..(n + 1) /\ o \in {"none", "'"}
  <2>1. j \in 1..(n + 1) /\ o \in {"none", "'"}
    BY <1>0, <1>2 DEF Where
  <2>2. PICK a : a = <<j, o>>
    OBVIOUS
  <2>3. a \in A /\ a[1] = j /\ a[2] = o
    BY <1>2, <2>1, <2>2
  <2> QED  BY <2>1, <2>3
<1>3. ASSUME NEW j, NEW o, Where(t, s, L, j, o)
      PROVE  /\ Kept(t, j, o) \in Reading(Characters) /\ Kept(t, j, o).i = j /\ Kept(t, j, o).open = o
             /\ left[Kept(t, j, o)] = n + 1 - j
  <2>1. j \in 1..(Len(t) + 1) /\ o \in Quotes \union {"none", "closed", "bad"}
    BY <1>2, <1>3 DEF Quotes
  <2>2. /\ Kept(t, j, o) \in Reading(Characters) /\ Kept(t, j, o).i = j
        /\ Kept(t, j, o).open = o
    BY <1>0, <2>1, KeptIs
  <2> QED  BY <1>2, <1>3, <2>2
<1>4. ASSUME NEW x \in P
      PROVE  \E j, o : Where(t, s, L, j, o) /\ x = Kept(t, j, o)
  <2>1. PICK a \in A : x = Kept(t, a[1], a[2])
    BY <1>4
  <2> QED  BY <2>1
<1> HIDE DEF A, P, left
<1>5. ASSUME NEW x \in P
      PROVE  /\ step[x] \in P /\ left[x] \in Nat /\ (step[x] = x \/ left[step[x]] < left[x])
             /\ step[x] = x => x = Kept(t, n + 1, "none")
  <2>1. PICK i, open : Where(t, s, L, i, open) /\ x = Kept(t, i, open)
    BY <1>4
  <2>2. i \in 1..(n + 1) /\ left[x] = n + 1 - i /\ left[x] \in Nat
    <3>1. i \in 1..(n + 1) /\ left[x] = n + 1 - i
      BY <1>2, <1>3, <2>1
    <3> QED  BY <1>0, <3>1
  <2>3. CASE i = n + 1
    <3>1. open = "none" /\ i \notin 2..n /\ i # 1
      BY <1>0, <2>1, <2>3 DEF Where
    <3>2. x.i > Len(t) /\ x \in Reading(Characters)
      <4>1. x.i = n + 1
        BY <1>3, <2>1, <2>3
      <4>2. n + 1 > n
        BY <1>0
      <4> QED  BY <1>3, <2>1, <4>1, <4>2
    <3>3. step[x] = x
      BY <1>1, <3>2 DEF StripStep
    <3> QED  BY <1>5, <2>1, <2>2, <2>3, <3>1, <3>3
  <2>4. CASE i # n + 1
    <3>1. Moves(t, s, L, i, open)
      <4>1. CASE i = 1 /\ open = "none"
        BY <4>1, StripsOpening
      <4>2. CASE i \in 2..Len(t) /\ open = "'" /\ ~Second(s, L, i)
        BY <4>2, StripsWithin
      <4> QED  BY <2>1, <2>4, <4>1, <4>2 DEF Where
    <3>2. PICK j, o : Where(t, s, L, j, o) /\ j > i /\ step[x] = Kept(t, j, o)
      BY <1>1, <2>1, <3>1 DEF Moves
    <3>3. step[x] \in P /\ left[step[x]] = n + 1 - j /\ j \in 1..(n + 1)
      BY <1>2, <1>3, <3>2
    <3>4. left[step[x]] < left[x] /\ step[x] # x
      BY <1>0, <2>2, <3>2, <3>3
    <3> QED  BY <2>2, <3>3, <3>4
  <2> QED  BY <2>3, <2>4
<1>6. StaysIn(P, step) /\ Nears(P, step, left)
  BY <1>5 DEF StaysIn, Nears
<1>7. PICK first : first = Kept(t, 1, "none")
  OBVIOUS
<1>8. first \in P /\ left[first] = n + 1 - 1
  <2>1. Where(t, s, L, 1, "none")
    BY DEF Where
  <2> QED  BY <1>2, <1>3, <1>7, <2>1
<1>9. left[first] <= n /\ n \in Nat
  BY <1>0, <1>8
<1>10. PICK end : end = Loop(first, step, n)
  OBVIOUS
<1>11. end \in P /\ step[end] = end
  BY <1>6, <1>8, <1>9, <1>10, LoopEnds
<1>12. end = Kept(t, n + 1, "none")
  BY <1>5, <1>11
<1>13. end.out = t
  <2>1. end.out = SubSeq(t, 1, n + 1 - 1)
    BY <1>12 DEF Kept, ReadingAt
  <2>2. n + 1 - 1 = n
    BY <1>0
  <2>3. SubSeq(t, 1, Len(t)) = t
    BY <1>0
  <2> QED  BY <2>1, <2>2, <2>3
<1>14. first = Begin(1, "none")
  <2>1. SubSeq(t, 1, 0) = <<>>
    BY <1>0
  <2>2. 1 - 1 = 0
    OBVIOUS
  <2> QED  BY <1>7, <2>1, <2>2 DEF Kept, ReadingAt, Begin
<1> QED  BY <1>1, <1>10, <1>13, <1>14 DEF RemoveSQLComments

LEMMA CommentsStay ==
    ASSUME NEW s \in Seq(Characters)
    PROVE  RemoveSQLComments(QuoteForSQL(s)) = QuoteForSQL(s)
<1>1. PICK L, u : u = EscapeForSQL(s) /\ PiecesAt(Characters, u, s, SQLEscapes, L)
  BY EachIs, EscapesAreTexts DEF EscapeForSQL
<1>2. PICK t : t = <<"'">> \o u \o <<"'">>
  OBVIOUS
<1>3. u \in Seq(Characters) /\ "'" \in Characters
  BY <1>1, CharactersAssumption DEF PiecesAt
<1>4. Between(t, "'", u)
  BY <1>2, <1>3, QuotesAround
<1>5. Literal(t, s, L)
  BY <1>1, <1>4 DEF Literal
<1>6. RemoveSQLComments(t) = t
  BY <1>5, CommentsAreNotSeen
<1> QED  BY <1>1, <1>2, <1>6 DEF QuoteForSQL

LEMMA SQLReadsBack ==
    ASSUME NEW s \in Seq(Characters)
    PROVE  ReadLiteral(QuoteForSQL(s), "'") = s
<1>1. ASSUME NEW k \in 1..Len(s) PROVE ReadAs("'", s[k], SQLEscapes[s[k]])
  <2>1. PICK c \in Characters : c = s[k]
    <3>1. s[k] \in Characters
      OBVIOUS
    <3> QED  BY <3>1
  <2>2. ReadAs("'", c, SQLEscapes[c])
    BY DEF ReadAs, SQLEscapes
  <2> QED  BY <2>1, <2>2
<1> QED  BY <1>1, EscapesAreTexts, LiteralsComeBack DEF QuoteForSQL, EscapeForSQL

LEMMA NamesReadBack ==
    ASSUME NEW s \in Seq(Characters)
    PROVE  ReadLiteral(QuoteIdentifier(s), "bq") = s
<1>1. ASSUME NEW k \in 1..Len(s) PROVE ReadAs("bq", s[k], NameEscapes[s[k]])
  <2>1. PICK c \in Characters : c = s[k]
    <3>1. s[k] \in Characters
      OBVIOUS
    <3> QED  BY <3>1
  <2>2. ReadAs("bq", c, NameEscapes[c])
    BY DEF ReadAs, NameEscapes
  <2> QED  BY <2>1, <2>2
<1> QED  BY <1>1, EscapesAreTexts, LiteralsComeBack DEF QuoteIdentifier

\* A name without backquotes is quoted as it is.
LEMMA PlainNames ==
    ASSUME NEW s \in Seq(Characters), \A i \in 1..Len(s) : s[i] # "bq"
    PROVE  Each(s, NameEscapes) = s
<1>1. PICK u, L : u = Each(s, NameEscapes) /\ PiecesAt(Characters, u, s, NameEscapes, L)
  BY EachIs, EscapesAreTexts
<1>2. /\ u \in Seq(Characters) /\ L \in [0..Len(s) -> Nat] /\ L[0] = 0 /\ Len(u) = L[Len(s)]
      /\ Len(s) \in Nat
  BY <1>1 DEF PiecesAt
<1>3. ASSUME NEW k \in 1..Len(s)
      PROVE  L[k] = L[k - 1] + 1 /\ u[L[k - 1] + 1] = s[k] /\ L[k - 1] \in Nat
  <2>1. PICK c \in Characters : c = s[k] /\ c # "bq"
    <3>1. s[k] \in Characters
      OBVIOUS
    <3> QED  BY <3>1
  <2>2. NameEscapes[s[k]] = <<c>>
    BY <2>1 DEF NameEscapes
  <2>a. PICK p : p = <<c>>
    OBVIOUS
  <2>3. p = <<c>> /\ Len(p) = 1 /\ p[1] = c
    BY <2>a
  <2>4. L[k] = L[k - 1] + Len(p) /\ \A j \in 1..Len(p) : u[L[k - 1] + j] = p[j]
    BY <1>1, <2>2, <2>3 DEF PiecesAt
  <2>5. k - 1 \in 0..Len(s)
    BY <1>2
  <2> QED  BY <1>2, <2>1, <2>3, <2>4, <2>5, SMTT(20)
<1>4. PICK P : P = {k \in 0..Len(s) : L[k] = k}
  OBVIOUS
<1>5. 0 \in P
  BY <1>2, <1>4
<1>6. ASSUME NEW k \in 1..Len(s), k - 1 \in P PROVE k \in P
  BY <1>3, <1>4, <1>6
<1>7. 0..Len(s) \subseteq P
  BY <1>2, <1>5, <1>6, Induction
<1>8. \A k \in 0..Len(s) : L[k] = k
  BY <1>4, <1>7
<1>9. Len(u) = Len(s)
  BY <1>2, <1>8
<1>10. ASSUME NEW i \in 1..Len(u) PROVE u[i] = s[i]
  <2>1. i \in 1..Len(s) /\ i - 1 \in 0..Len(s) /\ i - 1 + 1 = i
    BY <1>2, <1>9
  <2>2. u[L[i - 1] + 1] = s[i] /\ L[i - 1] = i - 1
    BY <1>3, <1>8, <2>1
  <2> QED  BY <2>1, <2>2
<1>11. u = s
  BY <1>2, <1>9, <1>10, SeqEqual
<1> QED  BY <1>1, <1>11

LEMMA NothingToTrim ==
    ASSUME NEW t \in Seq(Characters), Len(t) >= 2, t[1] \notin Blanks, t[Len(t)] \notin Blanks
    PROVE  Trim(t) = t
<1> DEFINE kept == {i \in 1..Len(t) : t[i] \notin Blanks}
           low == CHOOSE i \in kept : \A j \in kept : i <= j
           high == CHOOSE i \in kept : \A j \in kept : i >= j
<1>1. Len(t) \in Nat /\ 1 \in kept /\ Len(t) \in kept /\ \A j \in kept : j \in 1..Len(t)
  OBVIOUS
<1>2. Trim(t) = SubSeq(t, low, high)
  BY <1>1 DEF Trim
<1> HIDE DEF kept
<1>3. low = 1
  <2>1. \A j \in kept : 1 <= j
    BY <1>1
  <2>2. low \in kept /\ \A j \in kept : low <= j
    BY <1>1, <2>1
  <2> HIDE DEF low
  <2> QED  BY <1>1, <2>2
<1>4. high = Len(t)
  <2>1. \A j \in kept : Len(t) >= j
    BY <1>1
  <2>2. high \in kept /\ \A j \in kept : high >= j
    BY <1>1, <2>1
  <2> HIDE DEF high
  <2> QED  BY <1>1, <2>2
<1> HIDE DEF low, high
<1>5. SubSeq(t, 1, Len(t)) = t
  OBVIOUS
<1> QED  BY <1>2, <1>3, <1>4, <1>5

LEMMA NamesComeBack ==
    ASSUME NEW s \in Seq(Characters), \A i \in 1..Len(s) : s[i] # "bq"
    PROVE  NormalizeTableName(QuoteIdentifier(s)) = s
<1>1. PICK t : t = <<"bq">> \o s \o <<"bq">>
  OBVIOUS
<1>2. t = QuoteIdentifier(s)
  BY <1>1, PlainNames DEF QuoteIdentifier
<1>3. Between(t, "bq", s)
  BY <1>1, QuotesAround, CharactersAssumption
<1>4. /\ t \in Seq(Characters) /\ Len(t) = Len(s) + 2 /\ t[1] = "bq" /\ t[Len(t)] = "bq"
      /\ \A i \in 1..Len(s) : t[i + 1] = s[i]
  BY <1>3 DEF Between
<1>5. Len(s) \in Nat /\ Len(t) \in Nat /\ Len(t) >= 2
  BY <1>4
<1>6. Trim(t) = t
  <2>1. "bq" \notin Blanks
    BY DEF Blanks
  <2> QED  BY <1>4, <1>5, <2>1, NothingToTrim
<1>7. NormalizeTableName(t) = SubSeq(t, 2, Len(t) - 1)
  <2>1. t[1] \in Quotes /\ t[1] = t[Len(t)]
    BY <1>4 DEF Quotes
  <2> QED  BY <1>5, <1>6, <2>1 DEF NormalizeTableName
<1>8. SubSeq(t, 2, Len(t) - 1) = s
  <2>1. PICK v, h : h = Len(t) - 1 /\ v = SubSeq(t, 2, h)
    OBVIOUS
  <2>2. h = Len(s) + 1 /\ h \in Nat /\ h <= Len(t) /\ h - 2 + 1 = Len(s)
    BY <1>4, <1>5, <2>1
  <2>3. v \in Seq(Characters) /\ Len(v) = Len(s) /\ \A i \in 1..Len(s) : v[i] = t[2 + i - 1]
    BY <1>4, <1>5, <2>1, <2>2
  <2>4. ASSUME NEW i \in 1..Len(v) PROVE v[i] = s[i]
    <3>1. i \in 1..Len(s) /\ 2 + i - 1 = i + 1
      BY <2>3
    <3> QED  BY <1>4, <2>3, <3>1
  <2>5. v = s
    BY <2>3, <2>4, SeqEqual
  <2> QED  BY <2>1, <2>5
<1> QED  BY <1>2, <1>7, <1>8

(* StringUtils: for every text, QuoteForSQL and QuoteIdentifier write      *)
(* literals that hold it, RemoveSQLComments leaves a text without marks of *)
(* a comment as it is, UnescapeFromJSON undoes EscapeForJSON, and the      *)
(* parts NormalizeTableName takes from two quoted names are the names.     *)
THEOREM TextsComeBack == ASSUME NEW s \in Seq(Characters) PROVE TextReadsBack(s)
BY SQLReadsBack, NamesReadBack, CommentsStay, JSONReadsBack, NamesComeBack DEF TextReadsBack


\* The positions before e at which the sequences of s begin, and e.
Cut(s, B, e) ==
    /\ B \subseteq 1..e /\ 1 \in B /\ e \in B
    /\ \A i \in B : i < e => Length(s[i]) > 0 /\ i + Length(s[i]) \in B
WholeTo(s, e) == \E B : Cut(s, B, e)

LEMMA LengthIs == ASSUME NEW b PROVE Length(b) \in Nat
BY DEF Length

LEMMA CutIsLonger ==
    ASSUME NEW s, NEW e \in Nat \ {0}, WholeTo(s, e), Length(s[e]) > 0
    PROVE  WholeTo(s, e + Length(s[e]))
<1>1. PICK B : Cut(s, B, e)
  BY DEF WholeTo
<1>2. PICK n \in Nat : n = Length(s[e]) /\ n > 0
  BY LengthIs
<1>3. PICK C : C = B \union {e + n}
  OBVIOUS
<1>4. C \subseteq 1..(e + n) /\ 1 \in C /\ e + n \in C
  <2>1. B \subseteq 1..e /\ 1 \in B
    BY <1>1 DEF Cut
  <2>2. \A i \in 1..e : i \in 1..(e + n)
    BY <1>2
  <2>3. e + n \in 1..(e + n)
    BY <1>2
  <2> QED  BY <1>3, <2>1, <2>2, <2>3
<1>5. ASSUME NEW i \in C, i < e + n
      PROVE  Length(s[i]) > 0 /\ i + Length(s[i]) \in C
  <2>1. i \in B /\ i \in 1..e
    BY <1>1, <1>2, <1>3, <1>5 DEF Cut
  <2>2. CASE i = e
    BY <1>2, <1>3, <2>2
  <2>3. CASE i # e
    <3>1. i < e
      BY <2>1, <2>3
    <3> QED  BY <1>1, <1>3, <2>1, <3>1 DEF Cut
  <2> QED  BY <2>2, <2>3
<1>6. Cut(s, C, e + n)
  BY <1>4, <1>5 DEF Cut
<1> QED  BY <1>2, <1>6 DEF WholeTo

LEMMA CutOfNothing == ASSUME NEW s PROVE WholeTo(s, 1)
<1>1. Cut(s, {1}, 1)
  BY DEF Cut
<1> QED  BY <1>1 DEF WholeTo

\* A valid text is made of whole sequences.
LEMMA ValidIsWhole ==
    ASSUME NEW s \in Seq(Bytes), IsValidUTF8(s)
    PROVE  WholeTo(s, Len(s) + 1)
<1>0. Len(s) \in Nat
  OBVIOUS
<1> DEFINE N == Len(s)
           P == {x \in Reading(Bytes) : x.i \in 1..(N + 1) /\ (x.open = "bad" \/ WholeTo(s, x.i))}
           left == [x \in P |-> IF x.open = "bad" THEN 0 ELSE N + 1 - x.i]
<1>1. PICK step : step = ValidStep(s)
  OBVIOUS
<1>2. ASSUME NEW x \in P
      PROVE  /\ step[x] \in P /\ left[x] \in Nat /\ (step[x] = x \/ left[step[x]] < left[x])
             /\ step[x] = x => x.open = "bad" \/ x.i = N + 1
  <2>0. x \in Reading(Bytes) /\ x.i \in 1..(N + 1) /\ x.i \in Nat \ {0}
    BY <1>0
  <2>a. left[x] \in Nat
    BY <1>0, <2>0
  <2>1. CASE x.open = "bad" \/ x.i > N
    <3>1. step[x] = x
      BY <1>1, <2>0, <2>1 DEF ValidStep
    <3> QED  BY <1>0, <2>0, <2>1, <2>a, <3>1
  <2>2. CASE ~(x.open = "bad" \/ x.i > N)
    <3>0. WholeTo(s, x.i) /\ x.open # "bad" /\ x.i \in 1..N /\ left[x] = N + 1 - x.i
      BY <1>0, <2>0, <2>2
    <3>1. CASE Whole(s, x.i) /\ \A j \in (x.i + 1)..(x.i + Length(s[x.i]) - 1) : s[j] = "c"
      <4>1. step[x] = Take(x, Length(s[x.i]), <<>>)
        BY <1>1, <2>0, <2>2, <3>1 DEF ValidStep
      <4>2. PICK n \in Nat : n = Length(s[x.i])
        BY LengthIs
      <4>3. n > 0 /\ x.i + n - 1 <= N
        BY <3>1, <4>2 DEF Whole
      <4>4. PICK y : y = step[x]
        OBVIOUS
      <4>5. y = [i |-> x.i + n, out |-> x.out \o <<>>, open |-> x.open]
        BY <4>1, <4>2, <4>4 DEF Take
      <4>6. x.i + n \in 1..(N + 1) /\ x.i + n \in Nat /\ x.out \o <<>> \in Seq(Bytes)
        <5>1. x.out \o <<>> \in Seq(Bytes)
          BY <2>0 DEF Reading
        <5>2. PICK i \in Nat \ {0} : i = x.i
          BY <2>0
        <5>3. i + n \in 1..(N + 1)
          BY <1>0, <4>3, <5>2
        <5> QED  BY <5>1, <5>2, <5>3
      <4>7. y \in Reading(Bytes) /\ y.i = x.i + n /\ y.open = x.open
        <5>1. x.open \in Quotes \union {"none", "closed", "bad"}
          BY <2>0 DEF Reading
        <5> QED  BY <4>5, <4>6, <5>1 DEF Reading
      <4>8. WholeTo(s, y.i)
        BY <2>0, <3>0, <4>2, <4>3, <4>7, CutIsLonger
      <4>9. y \in P
        BY <4>6, <4>7, <4>8
      <4>10. left[y] = N + 1 - (x.i + n)
        BY <3>0, <4>7, <4>9
      <4>11. left[y] < left[x]
        <5>1. PICK i \in Nat : i = x.i
          BY <2>0
        <5>2. left[y] = N + 1 - (i + n) /\ left[x] = N + 1 - i
          BY <3>0, <4>10, <5>1
        <5> HIDE DEF left
        <5> QED  BY <1>0, <4>3, <5>2
      <4> HIDE DEF left, P
      <4> QED  BY <2>a, <4>4, <4>9, <4>11
    <3>2. CASE ~(Whole(s, x.i) /\ \A j \in (x.i + 1)..(x.i + Length(s[x.i]) - 1) : s[j] = "c")
      <4>1. step[x] = [x EXCEPT !.open = "bad"]
        BY <1>1, <2>0, <2>2, <3>2 DEF ValidStep
      <4>2. PICK y : y = step[x]
        OBVIOUS
      <4>3. y \in Reading(Bytes) /\ y.i = x.i /\ y.open = "bad"
        BY <2>0, <4>1, <4>2 DEF Reading
      <4>4. y \in P /\ left[y] = 0 /\ y # x
        BY <2>0, <3>0, <4>3
      <4>5. left[x] > 0
        BY <1>0, <3>0
      <4> HIDE DEF left, P
      <4> QED  BY <2>a, <4>2, <4>4, <4>5
    <3> QED  BY <3>1, <3>2
  <2> QED  BY <2>1, <2>2
<1>3. PICK first : first = Begin(1, "none")
  OBVIOUS
<1>4. first \in P /\ left[first] = N + 1 - 1
  <2>1. first.i = 1 /\ first.open = "none" /\ first \in Reading(Bytes)
    BY <1>3 DEF Begin, Reading
  <2>2. first \in P
    BY <1>0, <2>1, CutOfNothing
  <2> QED  BY <2>1, <2>2
<1>5. PICK end : end = Loop(first, step, N)
  OBVIOUS
<1>6. end \in P /\ step[end] = end
  <2> HIDE DEF P, left
  <2>1. StaysIn(P, step) /\ Nears(P, step, left)
    BY <1>2 DEF StaysIn, Nears
  <2>2. left[first] <= N /\ N \in Nat
    BY <1>0, <1>4
  <2> QED  BY <1>4, <1>5, <2>1, <2>2, LoopEnds
<1>7. end.open # "bad"
  BY <1>1, <1>3, <1>5 DEF IsValidUTF8
<1>8. end.i = N + 1
  <2> HIDE DEF P, left
  <2> QED  BY <1>2, <1>6, <1>7
<1>9. WholeTo(s, end.i)
  BY <1>6, <1>7
<1> QED  BY <1>8, <1>9

\* Whole sequences are encoded as they are.
LEMMA WholeStays ==
    ASSUME NEW s \in Seq(Bytes), WholeTo(s, Len(s) + 1)
    PROVE  EncodeForUTF8(s) = s
<1>0. Len(s) \in Nat
  OBVIOUS
<1> DEFINE N == Len(s)
<1>a. PICK B : Cut(s, B, N + 1)
  BY DEF WholeTo
<1>b. PICK P : P = {x \in Reading(Bytes) : x.i \in B /\ x.out = SubSeq(s, 1, x.i - 1)}
  OBVIOUS
<1>c. PICK left : left = [x \in P |-> N + 1 - x.i]
  OBVIOUS
<1>1. PICK step : step = EncodeStep(s)
  OBVIOUS
<1>2. ASSUME NEW x \in P
      PROVE  /\ step[x] \in P /\ left[x] \in Nat /\ (step[x] = x \/ left[step[x]] < left[x])
             /\ step[x] = x => x.i = N + 1
  <2>0. x \in Reading(Bytes) /\ x.i \in B /\ x.out = SubSeq(s, 1, x.i - 1)
    BY <1>b
  <2>b. PICK i \in 1..(N + 1) : i = x.i
    BY <1>a, <2>0 DEF Cut
  <2>a. left[x] \in Nat /\ left[x] = N + 1 - i
    BY <1>0, <1>c, <2>b
  <2>1. CASE i > N
    <3>1. step[x] = x
      BY <1>1, <2>0, <2>1, <2>b DEF EncodeStep
    <3>2. i = N + 1
      BY <1>0, <2>1
    <3> QED  BY <2>a, <2>b, <3>1, <3>2
  <2>2. CASE ~(i > N)
    <3>0. i \in 1..N /\ i < N + 1
      BY <1>0, <2>2
    <3>1. PICK n \in Nat : n = Length(s[i])
      BY LengthIs
    <3>2. n > 0 /\ i + n \in B /\ i + n \in 1..(N + 1)
      BY <1>a, <2>0, <2>b, <3>0, <3>1 DEF Cut
    <3>3. Whole(s, i)
      BY <1>0, <3>1, <3>2 DEF Whole
    <3>4. step[x] = Take(x, Length(s[i]), SubSeq(s, i, i + Length(s[i]) - 1))
      BY <1>1, <2>0, <2>2, <2>b, <3>3 DEF EncodeStep
    <3>5. PICK y : y = step[x]
      OBVIOUS
    <3>6. y = [i |-> i + n, out |-> SubSeq(s, 1, i - 1) \o SubSeq(s, i, i + n - 1), open |-> x.open]
      BY <2>0, <2>b, <3>1, <3>4, <3>5 DEF Take
    <3>7. SubSeq(s, 1, i - 1) \o SubSeq(s, i, i + n - 1) = SubSeq(s, 1, i + n - 1)
      <4>1. PICK k, h : k = i - 1 /\ h = i + n - 1
        OBVIOUS
      <4>2. k \in (1 - 1)..Len(s) /\ h \in k..Len(s) /\ k + 1 = i /\ 1 \in 1..(Len(s) + 1)
        BY <1>0, <3>0, <3>2, <4>1
      <4>3. SubSeq(s, 1, k) \o SubSeq(s, k + 1, h) = SubSeq(s, 1, h)
        BY <4>2, ConcatAdjacentSubSeq
      <4> QED  BY <4>1, <4>2, <4>3
    <3>8. SubSeq(s, 1, i + n - 1) \in Seq(Bytes)
      <4>1. PICK h : h = i + n - 1
        OBVIOUS
      <4>2. h \in 0..Len(s)
        BY <1>0, <3>2, <4>1
      <4>3. SubSeq(s, 1, h) \in Seq(Bytes)
        BY <4>2
      <4> QED  BY <4>1, <4>3
    <3>9. y \in Reading(Bytes) /\ y.i = i + n /\ y.out = SubSeq(s, 1, i + n - 1)
      <4>1. x.open \in Quotes \union {"none", "closed", "bad"}
        BY <2>0 DEF Reading
      <4>2. PICK out \in Seq(Bytes) : out = SubSeq(s, 1, i + n - 1)
        BY <3>8
      <4>3. y = [i |-> i + n, out |-> out, open |-> x.open]
        BY <3>6, <3>7, <4>2
      <4> QED  BY <4>1, <4>2, <4>3 DEF Reading
    <3>10. y \in P
      BY <1>b, <3>2, <3>9
    <3>11. left[y] = N + 1 - (i + n)
      BY <1>c, <3>9, <3>10
    <3>12. left[y] < left[x]
      BY <1>0, <2>a, <3>2, <3>11
    <3>13. y # x
      <4>1. i + n # i
        BY <3>2
      <4> QED  BY <2>b, <3>9, <4>1
    <3> QED  BY <2>a, <3>5, <3>10, <3>12, <3>13
  <2> QED  BY <2>1, <2>2
<1>3. PICK first : first = Begin(1, "none")
  OBVIOUS
<1>4. first \in P /\ left[first] = N + 1 - 1
  <2>1. /\ first.i = 1 /\ first.open = "none" /\ first \in Reading(Bytes)
        /\ first.out = <<>>
    BY <1>3 DEF Begin, Reading
  <2>2. 1 \in B
    BY <1>a DEF Cut
  <2>3. first.out = SubSeq(s, 1, first.i - 1)
    <3>1. SubSeq(s, 1, 0) = <<>>
      OBVIOUS
    <3> QED  BY <2>1, <3>1
  <2>4. first \in P
    BY <1>b, <2>1, <2>2, <2>3
  <2> QED  BY <1>c, <2>1, <2>4
<1>5. PICK end : end = Loop(first, step, N)
  OBVIOUS
<1>6. end \in P /\ step[end] = end
  <2>1. StaysIn(P, step) /\ Nears(P, step, left)
    BY <1>2 DEF StaysIn, Nears
  <2>2. left[first] <= N /\ N \in Nat
    BY <1>0, <1>4
  <2> QED  BY <1>4, <1>5, <2>1, <2>2, LoopEnds
<1>7. end.i = N + 1
  BY <1>2, <1>6
<1>8. end.out = SubSeq(s, 1, N)
  <2>1. N + 1 - 1 = N
    BY <1>0
  <2> QED  BY <1>6, <1>7, <1>b, <2>1
<1>9. SubSeq(s, 1, N) = s
  OBVIOUS
<1> QED  BY <1>1, <1>3, <1>5, <1>8, <1>9 DEF EncodeForUTF8

LEMMA CutStaysWhole ==
    ASSUME NEW C, NEW s, NEW t, s \in Seq(C), t \in Seq(C), NEW e, e \in 1..(Len(s) + 1), WholeTo(s, e)
    PROVE  WholeTo(s \o t, e)
<1>1. PICK B : Cut(s, B, e)
  BY DEF WholeTo
<1>2. PICK u : u = s \o t
  OBVIOUS
<1>3. \A i \in 1..Len(s) : u[i] = s[i]
  BY <1>2
<1>4. ASSUME NEW i \in B, i < e
      PROVE  Length(u[i]) > 0 /\ i + Length(u[i]) \in B
  <2>1. i \in 1..Len(s)
    <3>1. i \in 1..e /\ Len(s) \in Nat
      BY <1>1 DEF Cut
    <3> QED  BY <1>4, <3>1
  <2> QED  BY <1>1, <1>3, <1>4, <2>1 DEF Cut
<1>5. Cut(u, B, e)
  BY <1>1, <1>4 DEF Cut
<1> QED  BY <1>2, <1>5 DEF WholeTo

\* What is encoded is made of whole sequences.
LEMMA EncodesWhole ==
    ASSUME NEW s \in Seq(Bytes)
    PROVE  /\ EncodeForUTF8(s) \in Seq(Bytes)
           /\ WholeTo(EncodeForUTF8(s), Len(EncodeForUTF8(s)) + 1)
<1>0. Len(s) \in Nat
  OBVIOUS
<1> DEFINE N == Len(s)
<1>b. PICK P : P = {x \in Reading(Bytes) : x.i \in 1..(N + 1) /\ WholeTo(x.out, Len(x.out) + 1)}
  OBVIOUS
<1>c. PICK left : left = [x \in P |-> N + 1 - x.i]
  OBVIOUS
<1>1. PICK step : step = EncodeStep(s)
  OBVIOUS
<1>2. ASSUME NEW x \in P
      PROVE  step[x] \in P /\ left[x] \in Nat /\ (step[x] = x \/ left[step[x]] < left[x])
  <2>0. x \in Reading(Bytes) /\ WholeTo(x.out, Len(x.out) + 1) /\ x.out \in Seq(Bytes)
        /\ x.open \in Quotes \union {"none", "closed", "bad"}
    BY <1>b DEF Reading
  <2>b. PICK i \in 1..(N + 1) : i = x.i
    BY <1>b
  <2>a. left[x] \in Nat /\ left[x] = N + 1 - i
    BY <1>0, <1>c, <2>b
  <2>1. CASE i > N
    <3>1. step[x] = x
      BY <1>1, <2>0, <2>1, <2>b DEF EncodeStep
    <3> QED  BY <2>a, <3>1
  <2>2. CASE ~(i > N)
    <3>0. i \in 1..N
      BY <1>0, <2>2
    <3>1. ASSUME NEW n \in Nat, n > 0, i + n <= N + 1, NEW p \in Seq(Bytes),
                 WholeTo(x.out \o p, Len(x.out \o p) + 1), step[x] = Take(x, n, p)
          PROVE  step[x] \in P /\ (step[x] = x \/ left[step[x]] < left[x])
      <4>1. PICK y : y = step[x]
        OBVIOUS
      <4>2. PICK out \in Seq(Bytes) : out = x.out \o p
        <5>1. x.out \o p \in Seq(Bytes)
          BY <2>0
        <5> QED  BY <5>1
      <4>3. y = [i |-> i + n, out |-> out, open |-> x.open]
        BY <2>b, <3>1, <4>1, <4>2 DEF Take
      <4>4. y \in Reading(Bytes) /\ y.i = i + n /\ y.out = out
        BY <2>0, <4>3 DEF Reading
      <4>5. i + n \in 1..(N + 1)
        BY <1>0, <3>1
      <4>6. y \in P
        BY <1>b, <3>1, <4>2, <4>4, <4>5
      <4>7. left[y] = N + 1 - (i + n)
        BY <1>c, <4>4, <4>6
      <4>8. left[y] < left[x]
        BY <1>0, <2>a, <3>1, <4>7
      <4> QED  BY <4>1, <4>6, <4>8
    <3>2. CASE Whole(s, i)
      <4>1. PICK n \in Nat : n = Length(s[i])
        BY LengthIs
      <4>2. n > 0 /\ i + n - 1 <= N
        BY <3>2, <4>1 DEF Whole
      <4>3. PICK h : h = i + n - 1
        OBVIOUS
      <4>4. h \in 0..N /\ h - i + 1 = n /\ i <= h /\ i + n <= N + 1
        BY <1>0, <4>2, <4>3
      <4>5. PICK p : p = SubSeq(s, i, h)
        OBVIOUS
      <4>6. p \in Seq(Bytes) /\ Len(p) = n /\ p[1] = s[i]
        <5>1. \A j \in i..h : s[j] \in Bytes
          BY <1>0, <4>4
        <5>2. /\ p \in Seq(Bytes) /\ Len(p) = h - i + 1
              /\ \A j \in 1..(h - i + 1) : p[j] = s[i + j - 1]
          BY <4>4, <4>5, <5>1, SubSeqProperties
        <5>3. 1 \in 1..(h - i + 1) /\ i + 1 - 1 = i
          BY <4>2, <4>4
        <5>4. p[1] = s[i + 1 - 1]
          BY <5>2, <5>3
        <5> QED  BY <4>4, <5>2, <5>3, <5>4
      <4>7. step[x] = Take(x, n, p)
        BY <1>1, <2>0, <2>2, <2>b, <3>2, <4>1, <4>3, <4>5 DEF EncodeStep
      <4>8. PICK w \in Seq(Bytes) : w = x.out
        BY <2>0
      <4>a. PICK m \in Nat : m = Len(w)
        OBVIOUS
      <4>b. PICK out : out = w \o p
        OBVIOUS
      <4>9. out \in Seq(Bytes) /\ Len(out) = m + n /\ out[m + 1] = s[i]
        <5>1. out \in Seq(Bytes) /\ Len(out) = m + n /\ \A j \in 1..n : out[m + j] = p[j]
          <6>1. /\ out \in Seq(Bytes) /\ Len(out) = Len(w) + Len(p)
                /\ \A j \in 1..Len(p) : out[Len(w) + j] = p[j]
            <7>1. p \in Seq(Bytes)
              BY <4>6
            <7> QED  BY ONLY <7>1, <4>b, w \in Seq(Bytes)
          <6> QED  BY <4>6, <4>a, <6>1
        <5>2. 1 \in 1..n
          BY <4>2
        <5> QED  BY <4>6, <5>1, <5>2
      <4>10. WholeTo(out, m + 1)
        <5>1. WholeTo(w, m + 1) /\ m + 1 \in 1..(Len(w) + 1)
          BY <2>0, <4>8, <4>a
        <5> QED  BY <4>6, <4>b, <5>1, CutStaysWhole
      <4>11. WholeTo(out, m + 1 + n)
        <5>1. m + 1 \in Nat \ {0} /\ Length(out[m + 1]) = n
          BY <4>1, <4>9
        <5> QED  BY <4>2, <4>10, <5>1, CutIsLonger
      <4>12. m + 1 + n = Len(out) + 1
        BY <4>9
      <4>13. WholeTo(x.out \o p, Len(x.out \o p) + 1)
        BY <4>8, <4>b, <4>11, <4>12
      <4> QED  BY <2>a, <3>1, <4>2, <4>4, <4>6, <4>7, <4>13
    <3>3. CASE ~Whole(s, i)
      <4>1. step[x] = Take(x, 1, <<>>)
        BY <1>1, <2>0, <2>2, <2>b, <3>3 DEF EncodeStep
      <4>p. PICK p : p = <<>>
        OBVIOUS
      <4>2. p \in Seq(Bytes) /\ step[x] = Take(x, 1, p)
        BY <4>p, <4>1
      <4>3. x.out \o p = x.out
        BY <2>0, <4>p
      <4>4. i + 1 <= N + 1
        BY <1>0, <3>0
      <4>5. WholeTo(x.out \o p, Len(x.out \o p) + 1)
        BY <2>0, <4>3
      <4>6. 1 \in Nat /\ 1 > 0
        OBVIOUS
      <4> QED  BY <2>a, <3>1, <4>2, <4>4, <4>5, <4>6
    <3> QED  BY <3>2, <3>3
  <2> QED  BY <2>1, <2>2
<1>3. PICK first : first = Begin(1, "none")
  OBVIOUS
<1>4. first \in P /\ left[first] = N + 1 - 1
  <2>1. /\ first.i = 1 /\ first \in Reading(Bytes) /\ first.out = <<>>
    BY <1>3 DEF Begin, Reading
  <2>2. WholeTo(first.out, Len(first.out) + 1)
    <3>1. Len(first.out) + 1 = 1
      BY <2>1
    <3> QED  BY <3>1, CutOfNothing
  <2>3. first \in P
    BY <1>0, <1>b, <2>1, <2>2
  <2> QED  BY <1>c, <2>1, <2>3
<1>5. PICK end : end = Loop(first, step, N)
  OBVIOUS
<1>6. end \in P
  <2>1. StaysIn(P, step) /\ Nears(P, step, left)
    BY <1>2 DEF StaysIn, Nears
  <2>2. left[first] <= N /\ N \in Nat
    BY <1>0, <1>4
  <2> QED  BY <1>4, <1>5, <2>1, <2>2, LoopEnds
<1>7. end.out \in Seq(Bytes) /\ WholeTo(end.out, Len(end.out) + 1)
  BY <1>6, <1>b DEF Reading
<1> QED  BY <1>1, <1>3, <1>5, <1>7 DEF EncodeForUTF8

(* Encoding::EncodeForUTF8 and IsValidUTF8: valid bytes stay as they are,  *)
(* and what encoding makes of any bytes stays as it is.                    *)
THEOREM BytesComeBack == ASSUME NEW s \in Seq(Bytes) PROVE BytesReadBack(s)
<1>1. IsValidUTF8(s) => EncodeForUTF8(s) = s
  BY ValidIsWhole, WholeStays
<1>2. PICK t : t = EncodeForUTF8(s)
  OBVIOUS
<1>3. EncodeForUTF8(t) = t
  BY <1>2, EncodesWhole, WholeStays
<1> QED  BY <1>1, <1>2, <1>3 DEF BytesReadBack
=============================================================================
