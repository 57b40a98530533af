---------------------------- MODULE ParserProofs ----------------------------
(* Theorem about AlterParser as a part of Values, whatever the names of    *)
(* columns, keys, tables and databases and the lists of operations: of     *)
(* every statement in the form that the parser knows, the operations whose *)
(* names hide no keyword that it looks for are understood.  From the       *)
(* tokens up: a list of operations falls apart at its commas; a part says  *)
(* one operation; a statement is a table and a list.                       *)
EXTENDS Values, TextProofs

-----------------------------------------------------------------------------
(* The ALTER parser.  First the list of operations, cut at its commas.     *)

\* The provers do not know that a literal is a STRING: SqlWords names those of
\* a statement.
Keywords == {"COLUMN", "PRIMARY", "UNIQUE", "INDEX", "KEY", "FIRST", "AFTER"}
SqlWords == {"ADD", "DROP", "MODIFY", "CHANGE", "RENAME", "ENGINE", "ALTER", "TABLE",
          "DECIMAL", "10", "2", "a", "b", ".", "TO", "other", "=", "InnoDB"}
Symbols == STRING \union Keywords \union SqlWords \union {"(", ")"} \union {Alter!Comma}

SplitsBy(F, s) ==
    /\ F[0] = [depth |-> 0, current |-> <<>>, parts |-> <<>>]
    /\ \A i \in 1..Len(s) : F[i] = Alter!NextToken(F[i - 1], s[i])
EndOf(F, s) ==
    IF F[Len(s)].current = <<>> THEN F[Len(s)].parts ELSE Append(F[Len(s)].parts, F[Len(s)].current)

LEMMA Associative == \A x, y, z \in Seq(Symbols) : (x \o y) \o z = x \o (y \o z)
BY ConcatAssociative

LEMMA SplitSteps ==
    ASSUME NEW s \in Seq(Symbols)
    PROVE  \E F : SplitsBy(F, s) /\ Alter!SplitOperations(s) = EndOf(F, s)
<1> DEFINE Is(F) == F = [i \in 0..Len(s) |->
                          IF i = 0 THEN [depth |-> 0, current |-> <<>>, parts |-> <<>>]
                          ELSE Alter!NextToken(F[i - 1], s[i])]
           G == CHOOSE F : Is(F)
           X == [depth : Int, current : Seq(Symbols), parts : Seq(Seq(Symbols))]
<1>1. PICK n \in Nat : n = Len(s)
  OBVIOUS
<1>2. PICK first : first = [depth |-> 0, current |-> <<>>, parts |-> <<>>]
  OBVIOUS
<1>3. first \in X
  BY <1>2
<1>4. PICK each : each = [i \in 1..n |-> [f \in X |-> Alter!NextToken(f, s[i])]]
  OBVIOUS
<1>5. each \in [1..n -> [X -> X]]
  <2> SUFFICES ASSUME NEW i \in 1..n, NEW f \in X PROVE Alter!NextToken(f, s[i]) \in X
    BY <1>4
  <2>1. s[i] \in Symbols
    BY <1>1
  <2>2. f.depth \in Int /\ f.current \in Seq(Symbols) /\ f.parts \in Seq(Seq(Symbols))
    OBVIOUS
  <2>3. Append(f.current, s[i]) \in Seq(Symbols) /\ Append(f.parts, f.current) \in Seq(Seq(Symbols))
    BY <2>1, <2>2
  <2>4. (IF f.current = <<>> THEN f.parts ELSE Append(f.parts, f.current)) \in Seq(Seq(Symbols))
    BY <2>2, <2>3
  <2>5. (CASE s[i] = "(" -> f.depth + 1 [] s[i] = ")" -> f.depth - 1 [] OTHER -> f.depth) \in Int
    BY <2>2
  <2>6. <<>> \in Seq(Symbols) /\ 0 \in Int
    OBVIOUS
  <2>7. CASE s[i] = Alter!Comma /\ f.depth = 0
    BY <2>4, <2>6, <2>7 DEF Alter!NextToken
  <2>8. CASE ~(s[i] = Alter!Comma /\ f.depth = 0)
    BY <2>2, <2>3, <2>5, <2>8 DEF Alter!NextToken
  <2> QED  BY <2>7, <2>8
<1>6. PICK F \in [0..n -> X] : F[0] = first /\ \A i \in 1..n : F[i] = each[i][F[i - 1]]
  <2> HIDE DEF X
  <2>1. first \in X /\ n \in Nat
    BY <1>3
  <2> QED  BY ONLY <1>5, <2>1, Iteration, SMTT(20)
<1>7. ASSUME NEW i \in 1..n PROVE F[i] = Alter!NextToken(F[i - 1], s[i])
  <2>1. F[i - 1] \in X
    OBVIOUS
  <2> HIDE DEF X
  <2> QED  BY <1>4, <1>6, <2>1
<1>8. Is(F)
  <2>1. \A i \in 0..n : F[i] = IF i = 0 THEN first ELSE Alter!NextToken(F[i - 1], s[i])
    <3> SUFFICES ASSUME NEW i \in 0..n, i # 0 PROVE F[i] = Alter!NextToken(F[i - 1], s[i])
      BY <1>6
    <3>1. i \in 1..n
      OBVIOUS
    <3> QED  BY <1>7, <3>1
  <2> QED  BY <1>1, <1>2, <2>1
<1> HIDE DEF Is
<1>9. Is(G)
  BY <1>8
<1>10. \A i \in 0..Len(s) : G[i] = IF i = 0 THEN [depth |-> 0, current |-> <<>>, parts |-> <<>>]
                          ELSE Alter!NextToken(G[i - 1], s[i])
  BY <1>9 DEF Is
<1>11. Alter!SplitOperations(s) = EndOf(G, s)
  BY DEF Alter!SplitOperations, Is, EndOf
<1> HIDE DEF G
<1>12. SplitsBy(G, s)
  <2>1. 0 \in 0..Len(s) /\ \A i \in 1..Len(s) : i \in 0..Len(s) /\ i # 0
    BY <1>1
  <2> QED  BY <1>10, <2>1 DEF SplitsBy
<1> QED  BY <1>11, <1>12

\* A text with at most one pair of parentheses, and its commas between them.
Holds(s, p, q) ==
    /\ p \in Nat /\ q \in Nat /\ p <= q /\ (p = 0 \/ p = q => q = 0) /\ q <= Len(s)
    /\ \A i \in 1..Len(s) :
          /\ s[i] = "(" <=> i = p
          /\ s[i] = ")" <=> i = q
          /\ s[i] = Alter!Comma => p < i /\ i < q
OnePart(s) == s \in Seq(Symbols) /\ s # <<>> /\ \E p, q \in Nat : Holds(s, p, q)

StandsAt(s, k, W) == k + Len(W) <= Len(s) /\ \A j \in 1..Len(W) : s[k + j] = W[j]
AtDepth0(current, parts) == [depth |-> 0, current |-> current, parts |-> parts]

LEMMA PartIsTaken ==
    ASSUME NEW s \in Seq(Symbols), NEW F, SplitsBy(F, s), NEW W, OnePart(W), NEW k \in Nat,
           StandsAt(s, k, W), NEW parts, F[k] = AtDepth0(<<>>, parts)
    PROVE  F[k + Len(W)] = AtDepth0(W, parts)
<1>1. PICK p \in Nat, q \in Nat : Holds(W, p, q)
  BY DEF OnePart
<1>2. /\ W \in Seq(Symbols) /\ Len(W) \in Nat /\ Len(W) > 0 /\ Len(s) \in Nat
      /\ k + Len(W) <= Len(s) /\ \A j \in 1..Len(W) : s[k + j] = W[j]
  BY DEF OnePart, StandsAt
<1> DEFINE depth(j) == IF p <= j /\ j < q THEN 1 ELSE 0
           P == {j \in 0..Len(W) : F[k + j] = [depth |-> depth(j), current |-> SubSeq(W, 1, j), parts |-> parts]}
<1>3. 0 \in P
  <2>1. SubSeq(W, 1, 0) = <<>> /\ depth(0) = 0
    <3>1. p <= 0 => q = 0
      BY <1>1, <1>2 DEF Holds
    <3> QED  BY <1>2, <3>1
  <2> QED  BY <2>1, <1>2 DEF AtDepth0
<1>4. ASSUME NEW j \in 1..Len(W), j - 1 \in P PROVE j \in P
  <2>1. F[k + j] = Alter!NextToken(F[k + (j - 1)], W[j])
    <3>1. k + j \in 1..Len(s) /\ (k + j) - 1 = k + (j - 1) /\ s[k + j] = W[j]
      BY <1>2
    <3> QED  BY <3>1 DEF SplitsBy
  <2>2. PICK f : f = F[k + (j - 1)]
    OBVIOUS
  <2>3. f = [depth |-> depth(j - 1), current |-> SubSeq(W, 1, j - 1), parts |-> parts]
    BY <1>4, <2>2
  <2>4. /\ W[j] = Alter!Comma => depth(j - 1) = 1 /\ depth(j) = 1
        /\ W[j] = "(" => depth(j - 1) = 0 /\ depth(j) = 1
        /\ W[j] = ")" => depth(j - 1) = 1 /\ depth(j) = 0
        /\ W[j] # "(" /\ W[j] # ")" => depth(j) = depth(j - 1)
    <3>1. /\ p \in Nat /\ q \in Nat /\ p <= q /\ (p = 0 \/ p = q => q = 0) /\ q <= Len(W)
          /\ W[j] = "(" <=> j = p
          /\ W[j] = ")" <=> j = q
          /\ W[j] = Alter!Comma => p < j /\ j < q
      BY <1>1 DEF Holds
    <3> QED  BY <1>2, <3>1
  <2>5. Append(SubSeq(W, 1, j - 1), W[j]) = SubSeq(W, 1, j)
    BY <1>2
  <2>6. f.depth = depth(j - 1) /\ f.current = SubSeq(W, 1, j - 1) /\ f.parts = parts /\ depth(j - 1) \in Int
    BY <2>3
  <2> HIDE DEF depth
  <2>7. Alter!NextToken(f, W[j]) = [depth |-> depth(j), current |-> SubSeq(W, 1, j), parts |-> parts]
    <3>1. Alter!Comma # "(" /\ Alter!Comma # ")"
      BY Zenon DEF Alter!Comma
    <3>2. ~(W[j] = Alter!Comma /\ f.depth = 0)
      BY <2>4, <2>6
    <3>3. (CASE W[j] = "(" -> f.depth + 1 [] W[j] = ")" -> f.depth - 1 [] OTHER -> f.depth) = depth(j)
      BY <2>4, <2>6
    <3> QED  BY <2>5, <2>6, <3>2, <3>3 DEF Alter!NextToken
  <2> QED  BY <2>1, <2>2, <2>7
<1>5. Len(W) \in P
  <2> HIDE DEF P
  <2>1. 0..Len(W) \subseteq P
    BY <1>2, <1>3, <1>4, Induction
  <2> QED  BY <1>2, <2>1
<1>6. depth(Len(W)) = 0 /\ SubSeq(W, 1, Len(W)) = W
  <2>1. q <= Len(W)
    BY <1>1 DEF Holds
  <2> QED  BY <1>2, <2>1
<1> QED  BY <1>5, <1>6 DEF AtDepth0

-----------------------------------------------------------------------------
LEMMA CommaIsText == Alter!Comma \in Symbols /\ Alter!Comma # "(" /\ Alter!Comma # ")" /\ Alter!Comma # ""
<1>1. Alter!Comma # "(" /\ Alter!Comma # ")" /\ Alter!Comma # ""
  BY Zenon DEF Alter!Comma
<1> QED  BY <1>1 DEF Symbols

\* The text before the i-th operation, and that with it.
Sep(i) == IF i = 1 THEN <<>> ELSE <<Alter!Comma>>
ListsBy(G, ops, column) ==
    /\ G[0] = <<>>
    /\ \A i \in 1..Len(ops) :
          G[i] = G[i - 1] \o Sep(i) \o Alter!Written(ops[i], column)
AreParts(ops, column) == \A i \in 1..Len(ops) : OnePart(Alter!Written(ops[i], column))

LEMMA SepIsText == ASSUME NEW i PROVE Sep(i) \in Seq(Symbols)
<1>1. <<>> \in Seq(Symbols) /\ <<Alter!Comma>> \in Seq(Symbols)
  <2>1. PICK comma \in Symbols : comma = Alter!Comma
    BY CommaIsText
  <2>2. <<comma>> \in Seq(Symbols)
    BY ONLY comma \in Symbols
  <2> QED  BY <2>1, <2>2
<1> QED  BY <1>1 DEF Sep

LEMMA PartIsText ==
    ASSUME NEW ops, NEW column, AreParts(ops, column), NEW i \in 1..Len(ops)
    PROVE  /\ Alter!Written(ops[i], column) \in Seq(Symbols) /\ Alter!Written(ops[i], column) # <<>>
           /\ OnePart(Alter!Written(ops[i], column))
<1>1. OnePart(Alter!Written(ops[i], column))
  BY DEF AreParts
<1> QED  BY <1>1 DEF OnePart

LEMMA JoinsText ==
    ASSUME NEW f \in Seq(Symbols), NEW b \in Seq(Symbols), NEW w \in Seq(Symbols)
    PROVE  f \o b \o w \in Seq(Symbols)
<1>1. f \o b \in Seq(Symbols)
  BY ConcatProperties
<1> QED  BY <1>1, ConcatProperties

LEMMA ListSteps ==
    ASSUME NEW ops, NEW column, Len(ops) \in Nat, AreParts(ops, column)
    PROVE  \E G : /\ ListsBy(G, ops, column) /\ Alter!Listed(ops, column) = G[Len(ops)]
                  /\ \A i \in 0..Len(ops) : G[i] \in Seq(Symbols)
<1> DEFINE Is(F) == F = [i \in 0..Len(ops) |->
                          IF i = 0 THEN <<>>
                          ELSE F[i - 1] \o (IF i = 1 THEN <<>> ELSE <<Alter!Comma>>)
                                 \o Alter!Written(ops[i], column)]
           G == CHOOSE F : Is(F)
           X == Seq(Symbols)
<1>1. PICK n \in Nat : n = Len(ops)
  OBVIOUS
<1>2. <<>> \in X
  OBVIOUS
<1>3. PICK each : each = [i \in 1..n |-> [f \in X |-> f \o Sep(i) \o Alter!Written(ops[i], column)]]
  OBVIOUS
<1>4. each \in [1..n -> [X -> X]]
  <2> SUFFICES ASSUME NEW i \in 1..n, NEW f \in X
               PROVE  f \o Sep(i) \o Alter!Written(ops[i], column) \in X
    BY <1>3
  <2>1. Sep(i) \in X /\ Alter!Written(ops[i], column) \in X
    BY <1>1, SepIsText, PartIsText
  <2> QED  BY <2>1, JoinsText
<1>5. PICK F \in [0..n -> X] : F[0] = <<>> /\ \A i \in 1..n : F[i] = each[i][F[i - 1]]
  <2> HIDE DEF X
  <2>1. <<>> \in X /\ n \in Nat
    BY <1>2
  <2> QED  BY ONLY <1>4, <2>1, Iteration
<1>6. ASSUME NEW i \in 1..n PROVE F[i] = F[i - 1] \o Sep(i) \o Alter!Written(ops[i], column)
  <2>1. F[i - 1] \in X
    OBVIOUS
  <2> HIDE DEF X
  <2> QED  BY <1>3, <1>5, <2>1
<1>7. \A i \in 0..n : F[i] = IF i = 0 THEN <<>> ELSE F[i - 1] \o Sep(i) \o Alter!Written(ops[i], column)
  <2> SUFFICES ASSUME NEW i \in 0..n, i # 0 PROVE F[i] = F[i - 1] \o Sep(i) \o Alter!Written(ops[i], column)
    BY <1>5
  <2>1. i \in 1..n
    OBVIOUS
  <2> QED  BY <1>6, <2>1
<1>8. Is(F)
  <2> HIDE DEF X
  <2>1. F = [i \in 0..n |-> F[i]]
    BY <1>5
  <2> QED  BY <1>1, <1>7, <2>1 DEF Sep
<1> HIDE DEF Is
<1>9. Is(G)
  BY <1>8
<1>10. \A i \in 0..Len(ops) : G[i] = IF i = 0 THEN <<>>
                          ELSE G[i - 1] \o Sep(i) \o Alter!Written(ops[i], column)
  BY <1>9 DEF Is, Sep
<1>11. Alter!Listed(ops, column) = G[Len(ops)]
  BY DEF Alter!Listed, Is
<1> HIDE DEF G
<1>12. ListsBy(G, ops, column)
  <2>1. 0 \in 0..Len(ops) /\ \A i \in 1..Len(ops) : i \in 0..Len(ops) /\ i # 0
    BY <1>1
  <2> QED  BY <1>10, <2>1 DEF ListsBy
<1>13. \A i \in 0..Len(ops) : G[i] \in Seq(Symbols)
  <2> DEFINE P == {i \in 0..n : G[i] \in X}
  <2>1. 0 \in P
    <3>1. 0 \in 0..n /\ G[0] = <<>>
      BY <1>12 DEF ListsBy
    <3> QED  BY <1>2, <3>1
  <2>2. ASSUME NEW i \in 1..n, i - 1 \in P PROVE i \in P
    <3>1. Sep(i) \in X /\ Alter!Written(ops[i], column) \in X
      BY <1>1, SepIsText, PartIsText
    <3>2. G[i] = G[i - 1] \o Sep(i) \o Alter!Written(ops[i], column)
      BY <1>1, <1>12 DEF ListsBy
    <3>3. G[i - 1] \in X
      BY <2>2
    <3>4. G[i] \in X
      BY <3>1, <3>2, <3>3, JoinsText
    <3> QED  BY <3>4
  <2> HIDE DEF P
  <2>3. 0..n \subseteq P
    BY <2>1, <2>2, Induction
  <2> QED  BY <1>1, <2>3 DEF P
<1> QED  BY <1>11, <1>12, <1>13

\* Each text is the beginning of the last one.
LEMMA ListGrows ==
    ASSUME NEW ops, NEW column, Len(ops) \in Nat, AreParts(ops, column), NEW G, ListsBy(G, ops, column),
           \A i \in 0..Len(ops) : G[i] \in Seq(Symbols), NEW k \in 0..Len(ops)
    PROVE  Len(G[k]) <= Len(G[Len(ops)]) /\ \A j \in 1..Len(G[k]) : G[Len(ops)][j] = G[k][j]
<1> DEFINE n == Len(ops)
           P == {m \in 0..n : Len(G[n - m]) <= Len(G[n]) /\ \A j \in 1..Len(G[n - m]) : G[n][j] = G[n - m][j]}
<1>1. 0 \in P
  OBVIOUS
<1>2. ASSUME NEW m \in 1..n, m - 1 \in P PROVE m \in P
  <2> DEFINE i == n - (m - 1)
  <2>1. i \in 1..n /\ i - 1 = n - m /\ i - 1 \in 0..n
    OBVIOUS
  <2> HIDE DEF i
  <2>2. G[i] = G[i - 1] \o Sep(i) \o Alter!Written(ops[i], column)
    BY <2>1 DEF ListsBy
  <2>3. PICK rest \in Seq(Symbols) : G[i] = G[i - 1] \o rest
    <3>1. Sep(i) \in Seq(Symbols) /\ Alter!Written(ops[i], column) \in Seq(Symbols)
      BY <2>1, SepIsText, PartIsText
    <3>2. G[i - 1] \in Seq(Symbols)
      BY <2>1
    <3>3. PICK b \in Seq(Symbols), w \in Seq(Symbols) : b = Sep(i) /\ w = Alter!Written(ops[i], column)
      BY <3>1
    <3>4. (G[i - 1] \o b) \o w = G[i - 1] \o (b \o w) /\ b \o w \in Seq(Symbols)
      <4>1. PICK g \in Seq(Symbols) : g = G[i - 1]
        BY <3>2
      <4>2. (g \o b) \o w = g \o (b \o w)
        BY ONLY g \in Seq(Symbols), b \in Seq(Symbols), w \in Seq(Symbols), ConcatAssociative, SMTT(20)
      <4>3. b \o w \in Seq(Symbols)
        BY ONLY b \in Seq(Symbols), w \in Seq(Symbols), ConcatProperties
      <4> QED  BY <4>1, <4>2, <4>3
    <3> QED  BY <2>2, <3>3, <3>4
  <2>4. PICK g \in Seq(Symbols) : g = G[i - 1]
    BY <2>1
  <2>5. Len(g) <= Len(g \o rest) /\ \A j \in 1..Len(g) : (g \o rest)[j] = g[j] /\ j \in 1..Len(g \o rest)
    OBVIOUS
  <2>6. Len(G[i]) <= Len(G[n]) /\ \A j \in 1..Len(G[i]) : G[n][j] = G[i][j]
    BY <1>2 DEF i
  <2>7. Len(G[n]) \in Nat /\ Len(g \o rest) \in Nat /\ Len(g) \in Nat
    <3>1. n \in 0..n /\ g \o rest \in Seq(Symbols)
      OBVIOUS
    <3>2. G[n] \in Seq(Symbols)
      BY <3>1
    <3> QED  BY <3>1, <3>2
  <2>8. Len(g) <= Len(G[n]) /\ \A j \in 1..Len(g) : G[n][j] = g[j]
    BY <2>3, <2>4, <2>5, <2>6, <2>7
  <2> QED  BY <2>1, <2>4, <2>8
<1>3. n - k \in P
  <2> HIDE DEF P
  <2>1. 0..n \subseteq P
    BY <1>1, <1>2, Induction
  <2> QED  BY <2>1
<1>4. n - (n - k) = k
  OBVIOUS
<1> QED  BY <1>3, <1>4

LEMMA PartFollows ==
    ASSUME NEW f \in Seq(Symbols), NEW w \in Seq(Symbols), NEW b, b = <<>> \/ b = <<Alter!Comma>>
    PROVE  /\ Len(f \o b \o w) = Len(f) + Len(b) + Len(w)
           /\ \A j \in 1..Len(w) : (f \o b \o w)[Len(f) + Len(b) + j] = w[j]
           /\ b = <<Alter!Comma>> => (f \o b \o w)[Len(f) + 1] = Alter!Comma
<1>1. PICK comma \in Symbols : comma = Alter!Comma
  BY CommaIsText
<1>2. CASE b = <<>>
  <2>1. f \o b = f /\ b # <<comma>>
    BY <1>2
  <2> QED  BY <1>1, <1>2, <2>1, ConcatProperties
<1>3. CASE b = <<comma>>
  <2>1. PICK g \in Seq(Symbols) : g = f \o <<comma>>
    <3>1. <<comma>> \in Seq(Symbols)
      BY ONLY comma \in Symbols
    <3> QED  BY <3>1, ConcatProperties
  <2>2. Len(g) = Len(f) + 1 /\ g[Len(f) + 1] = comma
    BY ONLY comma \in Symbols, f \in Seq(Symbols), <2>1
  <2>3. /\ Len(g \o w) = Len(g) + Len(w) /\ \A j \in 1..Len(w) : (g \o w)[Len(g) + j] = w[j]
        /\ (g \o w)[Len(f) + 1] = comma
    BY <2>2
  <2>4. Len(b) = 1 /\ f \o b = g
    BY <1>3, <2>1
  <2> QED  BY <1>1, <2>2, <2>3, <2>4
<1> QED  BY <1>1, <1>2, <1>3

LEMMA AppendsNext ==
    ASSUME NEW m \in Nat, m > 0, NEW w
    PROVE  Append([j \in 1..(m - 1) |-> w[j]], w[m]) = [j \in 1..m |-> w[j]]
<1> DEFINE S == {w[j] : j \in 1..m}
           a == [j \in 1..(m - 1) |-> w[j]]
<1>1. m - 1 \in Nat /\ a \in [1..(m - 1) -> S] /\ w[m] \in S
  OBVIOUS
<1>2. a \in Seq(S) /\ Len(a) = m - 1
  BY <1>1
<1>3. Append(a, w[m]) = [j \in 1..(Len(a) + 1) |-> IF j = Len(a) + 1 THEN w[m] ELSE a[j]]
  <2> HIDE DEF a, S
  <2> QED  BY <1>1, <1>2
<1>4. \A j \in 1..m : j # m => j \in 1..(m - 1) /\ a[j] = w[j]
  BY <1>1
<1> HIDE DEF a, S
<1> QED  BY <1>1, <1>2, <1>3, <1>4 DEF a

\* The operations of a list are its parts.
LEMMA ListSplits ==
    ASSUME NEW ops, NEW column, Len(ops) \in Nat \ {0}, AreParts(ops, column)
    PROVE  /\ Alter!Listed(ops, column) \in Seq(Symbols)
           /\ Alter!SplitOperations(Alter!Listed(ops, column))
                = [i \in 1..Len(ops) |-> Alter!Written(ops[i], column)]
           /\ Len(Alter!Listed(ops, column)) > 0
           /\ Alter!Listed(ops, column)[1] = Alter!Written(ops[1], column)[1]
<1>1. PICK G : /\ ListsBy(G, ops, column) /\ Alter!Listed(ops, column) = G[Len(ops)]
               /\ \A i \in 0..Len(ops) : G[i] \in Seq(Symbols)
  BY ListSteps
<1>2. PICK n \in Nat : n = Len(ops) /\ n > 0
  OBVIOUS
<1>3. PICK s \in Seq(Symbols) : s = G[n]
  BY <1>1, <1>2
<1>4. PICK F : SplitsBy(F, s) /\ Alter!SplitOperations(s) = EndOf(F, s)
  BY SplitSteps
<1>5. ASSUME NEW i \in 1..n
      PROVE  /\ G[i] \in Seq(Symbols) /\ Len(G[i]) <= Len(s) /\ \A j \in 1..Len(G[i]) : s[j] = G[i][j]
             /\ G[i - 1] \in Seq(Symbols)
  <2>1. i \in 0..Len(ops) /\ i - 1 \in 0..Len(ops)
    BY <1>2
  <2> QED  BY <1>1, <1>2, <1>3, <2>1, ListGrows
<1> DEFINE W(i) == Alter!Written(ops[i], column)
           First(i) == [j \in 1..i |-> W(j)]
<1>6. ASSUME NEW i \in 1..n
      PROVE  /\ W(i) \in Seq(Symbols) /\ Len(W(i)) \in Nat /\ OnePart(W(i)) /\ W(i) # <<>>
             /\ Len(G[i]) = Len(G[i - 1]) + Len(Sep(i)) + Len(W(i))
             /\ \A j \in 1..Len(W(i)) : G[i][Len(G[i - 1]) + Len(Sep(i)) + j] = W(i)[j]
             /\ i # 1 => G[i][Len(G[i - 1]) + 1] = Alter!Comma
  <2>1. G[i] = G[i - 1] \o Sep(i) \o W(i)
    BY <1>1, <1>2 DEF ListsBy
  <2>2. Sep(i) = <<>> \/ Sep(i) = <<Alter!Comma>>
    BY DEF Sep
  <2>3. W(i) \in Seq(Symbols) /\ OnePart(W(i)) /\ W(i) # <<>>
    BY <1>2, PartIsText
  <2>4. i # 1 => Sep(i) = <<Alter!Comma>>
    BY DEF Sep
  <2> HIDE DEF W
  <2>5. PICK f \in Seq(Symbols), w \in Seq(Symbols) : f = G[i - 1] /\ w = W(i)
    BY <1>5, <2>3
  <2>6. PICK b : b = Sep(i)
    OBVIOUS
  <2>7. /\ Len(f \o b \o w) = Len(f) + Len(b) + Len(w)
        /\ \A j \in 1..Len(w) : (f \o b \o w)[Len(f) + Len(b) + j] = w[j]
        /\ b = <<Alter!Comma>> => (f \o b \o w)[Len(f) + 1] = Alter!Comma
    BY <2>2, <2>6, PartFollows
  <2>8. G[i] = f \o b \o w
    BY <2>1, <2>5, <2>6
  <2> QED  BY <2>3, <2>4, <2>5, <2>6, <2>7, <2>8
<1>7. ASSUME NEW i \in 1..n
      PROVE  /\ Len(G[i]) \in Nat /\ Len(G[i - 1]) \in Nat /\ Len(Sep(i)) \in Nat /\ Len(s) \in Nat
             /\ Len(Sep(i)) = IF i = 1 THEN 0 ELSE 1
  <2>1. Len(<<>>) = 0 /\ Len(<<Alter!Comma>>) = 1
    <3>1. PICK comma : comma = Alter!Comma
      OBVIOUS
    <3> QED  BY <3>1
  <2> QED  BY <1>5, <2>1 DEF Sep
<1> HIDE DEF W
\* What the loop has when it has read i of them.
<1> DEFINE Done(i) == F[Len(G[i])] = [depth |-> 0, current |-> W(i), parts |-> First(i - 1)]
<1>8. ASSUME NEW i \in 1..n,
             F[Len(G[i - 1]) + Len(Sep(i))] = [depth |-> 0, current |-> <<>>, parts |-> First(i - 1)]
      PROVE  Done(i)
  <2>1. PICK k \in Nat : k = Len(G[i - 1]) + Len(Sep(i))
    BY <1>7
  <2>2. k + Len(W(i)) = Len(G[i]) /\ k + Len(W(i)) <= Len(s)
    BY <1>5, <1>6, <2>1
  <2>3. \A j \in 1..Len(W(i)) : s[k + j] = W(i)[j]
    <3> SUFFICES ASSUME NEW j \in 1..Len(W(i)) PROVE s[k + j] = W(i)[j]
      OBVIOUS
    <3>1. k + j \in 1..Len(G[i])
      BY <1>6, <1>7, <2>2
    <3> QED  BY <1>5, <1>6, <2>1, <3>1
  <2>4. PICK w, parts : w = W(i) /\ parts = First(i - 1)
    OBVIOUS
  <2>5. F[k] = [depth |-> 0, current |-> <<>>, parts |-> parts]
    BY <1>8, <2>1, <2>4
  <2>6. OnePart(w)
    BY <1>6, <2>4
  <2> HIDE DEF First
  <2>7. F[k + Len(w)] = [depth |-> 0, current |-> w, parts |-> parts]
    <3>1. k + Len(w) <= Len(s) /\ \A j \in 1..Len(w) : s[k + j] = w[j]
      BY <2>2, <2>3, <2>4
    <3>2. SplitsBy(F, s)
      BY <1>4
    <3>3. StandsAt(s, k, w) /\ F[k] = AtDepth0(<<>>, parts)
      BY <2>5, <3>1 DEF StandsAt, AtDepth0
    <3>4. F[k + Len(w)] = AtDepth0(w, parts)
      BY <2>6, <3>2, <3>3, PartIsTaken
    <3> QED  BY <3>4 DEF AtDepth0
  <2> QED  BY <2>2, <2>4, <2>7
<1> DEFINE P == {m \in 0..(n - 1) : Done(m + 1)}
<1>9. 0 \in P
  <2>1. 1 \in 1..n /\ 0 \in 0..(n - 1)
    BY <1>2
  <2>2. Len(G[0]) = 0
    BY <1>1 DEF ListsBy
  <2>3. Len(Sep(1)) = 0
    BY <1>7, <2>1
  <2>4. First(0) = <<>>
    OBVIOUS
  <2>5. F[0] = [depth |-> 0, current |-> <<>>, parts |-> First(0)]
    BY <1>4, <2>4 DEF SplitsBy
  <2> HIDE DEF Done, First
  <2>6. Done(1)
    BY <1>8, <2>1, <2>2, <2>3, <2>5
  <2> QED  BY <2>1, <2>6
<1>10. ASSUME NEW m \in 1..(n - 1), m - 1 \in P PROVE m \in P
  <2>1. m \in 1..n /\ m + 1 \in 1..n /\ m + 1 # 1 /\ (m + 1) - 1 = m
    BY <1>2
  <2>2. PICK f : f = F[Len(G[m])]
    OBVIOUS
  <2>3. f.depth = 0 /\ f.current = W(m) /\ f.parts = First(m - 1)
    <3>1. Done(m)
      BY <1>10
    <3> QED  BY <2>2, <3>1
  <2>4. Len(G[m]) \in Nat /\ Len(Sep(m + 1)) = 1 /\ Len(G[m]) + 1 <= Len(G[m + 1]) /\ Len(G[m + 1]) <= Len(s)
        /\ Len(G[m + 1]) \in Nat /\ Len(s) \in Nat
    <3>1. Len(G[m + 1]) = Len(G[m]) + Len(Sep(m + 1)) + Len(W(m + 1)) /\ Len(W(m + 1)) \in Nat
      BY <1>6, <2>1
    <3>2. Len(Sep(m + 1)) = 1
      BY <1>7, <2>1
    <3>3. Len(G[m]) \in Nat /\ Len(s) \in Nat
      BY <1>7, <2>1
    <3>4. Len(G[m + 1]) \in Nat /\ Len(G[m + 1]) <= Len(s)
      BY <1>5, <1>7, <2>1
    <3>5. PICK a \in Nat, b \in Nat, c \in Nat :
              a = Len(G[m]) /\ b = Len(W(m + 1)) /\ c = Len(G[m + 1])
      BY <3>1, <3>3, <3>4
    <3>6. c = a + 1 + b
      BY ONLY <3>1, <3>2, <3>5
    <3>7. a + 1 <= c
      BY ONLY a \in Nat, b \in Nat, c \in Nat, <3>6
    <3> QED  BY <3>2, <3>3, <3>4, <3>5, <3>7
  <2>5. s[Len(G[m]) + 1] = Alter!Comma
    <3>1. Len(G[m]) + 1 \in 1..Len(G[m + 1])
      BY <2>4
    <3>2. G[m + 1][Len(G[m]) + 1] = Alter!Comma
      BY <1>6, <2>1
    <3> QED  BY <1>5, <2>1, <3>1, <3>2
  <2>6. F[Len(G[m]) + 1] = Alter!NextToken(f, Alter!Comma)
    <3>1. Len(G[m]) + 1 \in 1..Len(s) /\ (Len(G[m]) + 1) - 1 = Len(G[m])
      BY <2>4
    <3> QED  BY <1>4, <2>2, <2>5, <3>1 DEF SplitsBy
  <2>7. Append(First(m - 1), W(m)) = First(m)
    <3>1. PICK w : w = [j \in 1..n |-> W(j)]
      OBVIOUS
    <3>2. /\ w[m] = W(m) /\ First(m - 1) = [j \in 1..(m - 1) |-> w[j]]
          /\ First(m) = [j \in 1..m |-> w[j]]
      BY <1>2, <3>1
    <3>3. m \in Nat /\ m > 0
      BY <1>2
    <3> HIDE DEF First
    <3> QED  BY <3>2, <3>3, AppendsNext
  <2>8. F[Len(G[m]) + 1] = [depth |-> 0, current |-> <<>>, parts |-> First(m)]
    <3>1. f.current # <<>>
      BY <1>6, <2>1, <2>3
    <3> HIDE DEF First
    <3>2. Alter!NextToken(f, Alter!Comma) = [depth |-> 0, current |-> <<>>, parts |-> Append(f.parts, f.current)]
      BY <2>3, <3>1 DEF Alter!NextToken
    <3> QED  BY <2>3, <2>6, <2>7, <3>2
  <2> HIDE DEF Done, First
  <2>9. Done(m + 1)
    BY <1>8, <2>1, <2>4, <2>8
  <2> QED  BY <2>9
<1>11. Done(n)
  <2>1. n - 1 \in Nat /\ \A i \in 1..(n - 1) : i - 1 \in P => i \in P
    BY <1>2, <1>10
  <2> HIDE DEF P
  <2>2. 0..(n - 1) \subseteq P
    BY <1>9, <2>1, Induction
  <2>3. n - 1 \in P /\ (n - 1) + 1 = n
    BY <1>2, <2>2
  <2> QED  BY <2>3 DEF P
<1>12. Alter!SplitOperations(s) = [i \in 1..n |-> W(i)]
  <2>1. F[Len(s)].current = W(n) /\ F[Len(s)].parts = First(n - 1)
    BY <1>3, <1>11
  <2>2. W(n) # <<>>
    BY <1>2, <1>6
  <2>3. Append(First(n - 1), W(n)) = First(n)
    <3>1. PICK w : w = [j \in 1..n |-> W(j)]
      OBVIOUS
    <3>2. /\ w[n] = W(n) /\ First(n - 1) = [j \in 1..(n - 1) |-> w[j]]
          /\ First(n) = [j \in 1..n |-> w[j]]
      BY <1>2, <3>1
    <3>3. n \in Nat /\ n > 0
      BY <1>2
    <3> HIDE DEF First
    <3> QED  BY <3>2, <3>3, AppendsNext
  <2> QED  BY <1>4, <2>1, <2>2, <2>3 DEF EndOf
<1>13. Len(s) > 0 /\ s[1] = W(1)[1]
  <2>1. 1 \in 1..n /\ Len(G[0]) = 0 /\ Len(Sep(1)) = 0
    BY <1>1, <1>2, <1>7 DEF ListsBy
  <2>2. Len(W(1)) > 0
    BY <1>6, <2>1
  <2>3. Len(G[1]) = Len(W(1)) /\ G[1][1] = W(1)[1]
    <3>1. /\ Len(G[1]) = Len(G[0]) + Len(Sep(1)) + Len(W(1))
          /\ \A j \in 1..Len(W(1)) : G[1][Len(G[0]) + Len(Sep(1)) + j] = W(1)[j]
          /\ Len(W(1)) \in Nat
      <4>1. 1 - 1 = 0
        OBVIOUS
      <4> QED  BY <1>6, <2>1, <4>1
    <3>2. 1 \in 1..Len(W(1)) /\ 0 + 0 + 1 = 1
      BY <2>2, <3>1
    <3> QED  BY <2>1, <3>1, <3>2
  <2>4. Len(G[1]) <= Len(s) /\ \A j \in 1..Len(G[1]) : s[j] = G[1][j]
    BY <1>5, <2>1
  <2>5. Len(G[1]) \in Nat /\ Len(s) \in Nat
    BY <1>7, <2>1
  <2> QED  BY <2>2, <2>3, <2>4, <2>5
<1> QED  BY <1>1, <1>2, <1>3, <1>12, <1>13 DEF W

\* Two texts, one behind the other.
SymbolsOf(s) == {s[i] : i \in 1..Len(s)}

LEMMA JoinSymbols ==
    ASSUME NEW s \in Seq(Symbols), NEW t \in Seq(Symbols)
    PROVE  /\ s \o t \in Seq(Symbols) /\ Len(s \o t) = Len(s) + Len(t)
           /\ \A i \in 1..Len(s) : (s \o t)[i] = s[i]
           /\ \A i \in 1..Len(t) : (s \o t)[Len(s) + i] = t[i]
           /\ SymbolsOf(s \o t) = SymbolsOf(s) \union SymbolsOf(t)
           /\ Alter!Drop(s \o t, Len(s)) = t
<1>1. /\ s \o t \in Seq(Symbols) /\ Len(s \o t) = Len(s) + Len(t)
      /\ \A i \in 1..Len(s) : (s \o t)[i] = s[i]
      /\ \A i \in 1..Len(t) : (s \o t)[Len(s) + i] = t[i]
  BY ConcatProperties
<1>2. PICK u \in Seq(Symbols) : u = s \o t
  BY <1>1
<1>3. \A i \in 1..Len(u) : i \in 1..Len(s) \/ (i - Len(s) \in 1..Len(t) /\ i = Len(s) + (i - Len(s)))
  BY <1>1, <1>2
<1>4. \A i \in 1..Len(s) : i \in 1..Len(u)
  BY <1>1, <1>2
<1>5. \A i \in 1..Len(t) : Len(s) + i \in 1..Len(u)
  BY <1>1, <1>2
<1>6. SymbolsOf(u) = SymbolsOf(s) \union SymbolsOf(t)
  <2>1. ASSUME NEW i \in 1..Len(u) PROVE u[i] \in SymbolsOf(s) \union SymbolsOf(t)
    <3>1. CASE i \in 1..Len(s)
      BY <1>1, <1>2, <3>1 DEF SymbolsOf
    <3>2. CASE i - Len(s) \in 1..Len(t) /\ i = Len(s) + (i - Len(s))
      <4>1. u[i] = t[i - Len(s)]
        BY <1>1, <1>2, <3>2
      <4> QED  BY <3>2, <4>1 DEF SymbolsOf
    <3> QED  BY <1>3, <3>1, <3>2
  <2>2. ASSUME NEW i \in 1..Len(s) PROVE s[i] \in SymbolsOf(u)
    BY <1>1, <1>2, <1>4 DEF SymbolsOf
  <2>3. ASSUME NEW i \in 1..Len(t) PROVE t[i] \in SymbolsOf(u)
    <3>1. t[i] = u[Len(s) + i]
      BY <1>1, <1>2
    <3> QED  BY <1>5, <3>1 DEF SymbolsOf
  <2> QED  BY <2>1, <2>2, <2>3 DEF SymbolsOf
<1>7. Alter!Drop(u, Len(s)) = t
  <2>1. /\ Len(u) = Len(s) + Len(t) /\ Len(s) \in Nat /\ Len(t) \in Nat
        /\ \A i \in 1..Len(t) : u[Len(s) + i] = t[i]
    BY <1>1, <1>2
  <2>2. PICK n \in Nat, m \in Nat : n = Len(s) /\ m = Len(t)
    BY <2>1
  <2>3. SubSeq(u, n + 1, Len(u)) = [i \in 1..m |-> u[n + i]]
    <3>1. SubSeq(u, n + 1, Len(u)) = [i \in 1..((Len(u) - (n + 1)) + 1) |-> u[i + (n + 1) - 1]]
      OBVIOUS
    <3>2. (Len(u) - (n + 1)) + 1 = m /\ \A i \in 1..m : i + (n + 1) - 1 = n + i
      BY <2>1, <2>2
    <3> QED  BY <3>1, <3>2
  <2>4. t = [i \in 1..m |-> t[i]]
    BY <2>2
  <2> QED  BY <2>1, <2>2, <2>3, <2>4 DEF Alter!Drop
<1> QED  BY <1>1, <1>2, <1>6, <1>7

Marks == {"(", ")", Alter!Comma}
Unmarked(s) == s \in Seq(Symbols) /\ SymbolsOf(s) \intersect Marks = {}

LEMMA UnmarkedIsOnePart ==
    ASSUME NEW s, Unmarked(s), s # <<>>
    PROVE  OnePart(s)
<1>1. \A i \in 1..Len(s) : s[i] \notin Marks
  BY DEF Unmarked, SymbolsOf
<1>2. Holds(s, 0, 0)
  BY <1>1 DEF Unmarked, Holds, Marks
<1> QED  BY <1>2 DEF OnePart, Unmarked

LEMMA UnmarkedBefore ==
    ASSUME NEW s, NEW t, Unmarked(s), OnePart(t)
    PROVE  OnePart(s \o t)
<1>1. s \in Seq(Symbols) /\ t \in Seq(Symbols) /\ Len(s) \in Nat /\ Len(t) \in Nat /\ Len(t) > 0
  BY DEF Unmarked, OnePart
<1>2. PICK p \in Nat, q \in Nat : Holds(t, p, q)
  BY DEF OnePart
<1>3. PICK n \in Nat, m \in Nat : n = Len(s) /\ m = Len(t) /\ m > 0
  BY <1>1
<1>4. PICK u \in Seq(Symbols) :
          /\ u = s \o t /\ Len(u) = n + m
          /\ \A i \in 1..n : u[i] = s[i]
          /\ \A i \in 1..m : u[n + i] = t[i]
  <2>1. PICK u \in Seq(Symbols) : u = s \o t
    BY <1>1, JoinSymbols
  <2>2. /\ Len(u) = Len(s) + Len(t) /\ \A i \in 1..Len(s) : u[i] = s[i]
        /\ \A i \in 1..Len(t) : u[Len(s) + i] = t[i]
    BY <1>1, <2>1, JoinSymbols
  <2> QED  BY <1>3, <2>1, <2>2
<1>5. \A i \in 1..n : u[i] \notin Marks
  BY <1>3, <1>4 DEF Unmarked, SymbolsOf
<1>6. /\ p <= q /\ (p = 0 \/ p = q => q = 0) /\ q <= m
      /\ \A i \in 1..m : /\ t[i] = "(" <=> i = p
                         /\ t[i] = ")" <=> i = q
                         /\ t[i] = Alter!Comma => p < i /\ i < q
  BY <1>2, <1>3 DEF Holds
<1>7. PICK a \in Nat, b \in Nat : a = (IF q = 0 THEN 0 ELSE n + p) /\ b = (IF q = 0 THEN 0 ELSE n + q)
  <2>1. (IF q = 0 THEN 0 ELSE n + p) \in Nat /\ (IF q = 0 THEN 0 ELSE n + q) \in Nat
    OBVIOUS
  <2> QED  BY <2>1
<1>8. ASSUME NEW i \in 1..(n + m)
      PROVE  /\ u[i] = "(" <=> i = a
             /\ u[i] = ")" <=> i = b
             /\ u[i] = Alter!Comma => a < i /\ i < b
  <2>1. CASE i \in 1..n
    <3>1. u[i] # "(" /\ u[i] # ")" /\ u[i] # Alter!Comma
      BY <1>5, <2>1 DEF Marks
    <3>2. i # a /\ i # b
      BY <1>6, <1>7, <2>1
    <3> QED  BY <3>1, <3>2
  <2>2. CASE i \notin 1..n
    <3>1. PICK j \in 1..m : i = n + j
      <4>1. i - n \in 1..m /\ i = n + (i - n)
        BY <2>2
      <4> QED  BY <4>1
    <3>2. u[i] = t[j]
      BY <1>4, <3>1
    <3>3. /\ t[j] = "(" <=> j = p
          /\ t[j] = ")" <=> j = q
          /\ t[j] = Alter!Comma => p < j /\ j < q
      BY <1>6
    <3>4. (i = a <=> j = p) /\ (i = b <=> j = q) /\ (p < j /\ j < q => a < i /\ i < b)
      BY <1>6, <1>7, <3>1
    <3> QED  BY <3>2, <3>3, <3>4
  <2> QED  BY <2>1, <2>2
<1>9. Holds(u, a, b)
  <2>1. a <= b /\ (a = 0 \/ a = b => b = 0) /\ b <= n + m
    BY <1>6, <1>7
  <2> QED  BY <1>4, <1>8, <2>1 DEF Holds
<1>10. u # <<>>
  BY <1>3, <1>4
<1> QED  BY <1>4, <1>9, <1>10 DEF OnePart

LEMMA UnmarkedBehind ==
    ASSUME NEW s, NEW t, Unmarked(s), OnePart(t)
    PROVE  OnePart(t \o s)
<1>1. s \in Seq(Symbols) /\ t \in Seq(Symbols) /\ Len(s) \in Nat /\ Len(t) \in Nat /\ Len(t) > 0
  BY DEF Unmarked, OnePart
<1>2. PICK p \in Nat, q \in Nat : Holds(t, p, q)
  BY DEF OnePart
<1>3. PICK n \in Nat, m \in Nat : n = Len(s) /\ m = Len(t) /\ m > 0
  BY <1>1
<1>4. PICK u \in Seq(Symbols) :
          /\ u = t \o s /\ Len(u) = m + n
          /\ \A i \in 1..m : u[i] = t[i]
          /\ \A i \in 1..n : u[m + i] = s[i]
  <2>1. PICK u \in Seq(Symbols) : u = t \o s
    BY <1>1, JoinSymbols
  <2>2. /\ Len(u) = Len(t) + Len(s) /\ \A i \in 1..Len(t) : u[i] = t[i]
        /\ \A i \in 1..Len(s) : u[Len(t) + i] = s[i]
    BY <1>1, <2>1, JoinSymbols
  <2> QED  BY <1>3, <2>1, <2>2
<1>5. \A i \in 1..n : u[m + i] \notin Marks
  BY <1>3, <1>4 DEF Unmarked, SymbolsOf
<1>6. /\ p <= q /\ (p = 0 \/ p = q => q = 0) /\ q <= m
      /\ \A i \in 1..m : /\ t[i] = "(" <=> i = p
                         /\ t[i] = ")" <=> i = q
                         /\ t[i] = Alter!Comma => p < i /\ i < q
  BY <1>2, <1>3 DEF Holds
<1>7. ASSUME NEW i \in 1..(m + n)
      PROVE  /\ u[i] = "(" <=> i = p
             /\ u[i] = ")" <=> i = q
             /\ u[i] = Alter!Comma => p < i /\ i < q
  <2>1. CASE i \in 1..m
    BY <1>4, <1>6, <2>1
  <2>2. CASE i \notin 1..m
    <3>1. i - m \in 1..n /\ i = m + (i - m)
      BY <2>2
    <3>2. u[i] # "(" /\ u[i] # ")" /\ u[i] # Alter!Comma
      BY <1>5, <3>1 DEF Marks
    <3>3. i # p /\ i # q
      BY <1>6, <2>2
    <3> QED  BY <3>2, <3>3
  <2> QED  BY <2>1, <2>2
<1>8. Holds(u, p, q)
  <2>1. q <= m + n
    BY <1>6
  <2> QED  BY <1>4, <1>6, <1>7, <2>1 DEF Holds
<1>9. u # <<>>
  BY <1>3, <1>4
<1> QED  BY <1>4, <1>8, <1>9 DEF OnePart

-----------------------------------------------------------------------------
\* Two words at the beginning of a text, and anywhere in it.
LEMMA StartsPair ==
    ASSUME NEW s \in Seq(Symbols), NEW a, NEW b
    PROVE  Alter!Starts(s, <<a, b>>) <=> Len(s) >= 2 /\ s[1] = a /\ s[2] = b
<1>1. Len(<<a, b>>) = 2
  OBVIOUS
<1>2. ASSUME 2 <= Len(s) PROVE SubSeq(s, 1, 2) = <<s[1], s[2]>>
  <2>1. PICK x : x = SubSeq(s, 1, 2)
    OBVIOUS
  <2>2. x \in Seq(Symbols) /\ Len(x) = 2 /\ x[1] = s[1] /\ x[2] = s[2]
    BY <1>2, <2>1
  <2>3. x = <<x[1], x[2]>>
    BY <2>2
  <2> QED  BY <2>1, <2>2, <2>3
<1>3. <<s[1], s[2]>> = <<a, b>> <=> s[1] = a /\ s[2] = b
  OBVIOUS
<1> QED  BY <1>1, <1>2, <1>3 DEF Alter!Starts

LEMMA BesidePair ==
    ASSUME NEW s \in Seq(Symbols), NEW a, NEW b
    PROVE  Alter!Beside(s, <<a, b>>) = {i \in 1..Len(s) : i + 1 <= Len(s) /\ s[i] = a /\ s[i + 1] = b}
<1>1. ASSUME NEW i \in 1..Len(s)
      PROVE  Alter!Starts(Alter!Drop(s, i - 1), <<a, b>>) <=> i + 1 <= Len(s) /\ s[i] = a /\ s[i + 1] = b
  <2>1. PICK t : t = SubSeq(s, i, Len(s))
    OBVIOUS
  <2>2. /\ t \in Seq(Symbols) /\ Len(t) = Len(s) - i + 1
        /\ \A j \in 1..(Len(s) - i + 1) : t[j] = s[i + j - 1]
    BY <2>1
  <2>3. Alter!Drop(s, i - 1) = t
    <3>1. (i - 1) + 1 = i
      OBVIOUS
    <3> QED  BY <2>1, <3>1 DEF Alter!Drop
  <2>4. Len(t) >= 2 <=> i + 1 <= Len(s)
    BY <2>2
  <2>5. Len(t) >= 2 => t[1] = s[i] /\ t[2] = s[i + 1]
    BY <2>2
  <2> QED  BY <2>2, <2>3, <2>4, <2>5, StartsPair
<1> QED  BY <1>1 DEF Alter!Beside

LEMMA WithoutPair ==
    ASSUME NEW s \in Seq(Symbols), NEW a, NEW b, Len(s) >= 2, s[1] = a, s[2] = b
    PROVE  Alter!Without(s, <<a, b>>) = Alter!Drop(s, 2)
<1>1. 1 \in Alter!Beside(s, <<a, b>>) /\ \A i \in Alter!Beside(s, <<a, b>>) : i \in Nat /\ 1 <= i
  BY BesidePair
<1>2. Alter!Least(Alter!Beside(s, <<a, b>>)) = 1
  BY <1>1 DEF Alter!Least
<1>3. Len(<<a, b>>) = 2
  OBVIOUS
<1>4. SubSeq(s, 1, 1 - 1) = <<>>
  OBVIOUS
<1>5. Alter!Drop(s, 2) \in Seq(Symbols)
  BY DEF Alter!Drop
<1>6. <<>> \o Alter!Drop(s, 2) = Alter!Drop(s, 2)
  BY <1>5, ConcatEmptySeq
<1>7. PICK beside : beside = Alter!Beside(s, <<a, b>>)
  OBVIOUS
<1>8. beside # {} /\ Alter!Least(beside) = 1 /\ 1 - 1 + 2 = 2
  BY <1>1, <1>2, <1>7
<1> QED  BY <1>3, <1>4, <1>6, <1>7, <1>8 DEF Alter!Without

-----------------------------------------------------------------------------
\* Short texts.
LEMMA Texts ==
    ASSUME NEW a \in Symbols, NEW b \in Symbols, NEW c \in Symbols
    PROVE  /\ <<>> \in Seq(Symbols) /\ Len(<<>>) = 0 /\ SymbolsOf(<<>>) = {}
           /\ <<a>> \in Seq(Symbols) /\ Len(<<a>>) = 1 /\ SymbolsOf(<<a>>) = {a}
           /\ <<a, b>> \in Seq(Symbols) /\ Len(<<a, b>>) = 2 /\ SymbolsOf(<<a, b>>) = {a, b}
           /\ <<a, b, c>> \in Seq(Symbols) /\ Len(<<a, b, c>>) = 3 /\ SymbolsOf(<<a, b, c>>) = {a, b, c}
<1>1. <<>> \in Seq(Symbols) /\ Len(<<>>) = 0 /\ SymbolsOf(<<>>) = {}
  BY DEF SymbolsOf
<1>2. <<a>> \in Seq(Symbols) /\ Len(<<a>>) = 1 /\ SymbolsOf(<<a>>) = {a}
  BY DEF SymbolsOf
<1>3. <<a, b>> \in Seq(Symbols) /\ Len(<<a, b>>) = 2 /\ SymbolsOf(<<a, b>>) = {a, b}
  <2>1. 1..2 = {1, 2}
    OBVIOUS
  <2> QED  BY <2>1 DEF SymbolsOf
<1>4. <<a, b, c>> \in Seq(Symbols) /\ Len(<<a, b, c>>) = 3 /\ SymbolsOf(<<a, b, c>>) = {a, b, c}
  <2>1. 1..3 = {1, 2, 3}
    OBVIOUS
  <2> QED  BY <2>1 DEF SymbolsOf
<1> QED  BY <1>1, <1>2, <1>3, <1>4

LEMMA LongerTexts ==
    ASSUME NEW a \in Symbols, NEW b \in Symbols, NEW c \in Symbols, NEW d \in Symbols, NEW e \in Symbols,
           NEW f \in Symbols
    PROVE  /\ <<a, b, c, d, e>> \in Seq(Symbols) /\ Len(<<a, b, c, d, e>>) = 5
           /\ <<a, b, c, d, e, f>> \in Seq(Symbols) /\ Len(<<a, b, c, d, e, f>>) = 6
OBVIOUS

LEMMA CommaIsNoWord ==
    ASSUME NEW w \in Keywords \union SqlWords \union {""}
    PROVE  w # Alter!Comma
<1>1. CASE w \in Keywords
  BY <1>1, Zenon DEF Keywords, Alter!Comma
<1>2. CASE w \in SqlWords
  BY <1>2, Zenon DEF SqlWords, Alter!Comma
<1>3. CASE w = ""
  BY <1>3, Zenon DEF Alter!Comma
<1> QED  BY <1>1, <1>2, <1>3

LEMMA WordIs == ASSUME NEW w \in Keywords \union SqlWords PROVE w \in Symbols /\ w \notin Marks /\ w # Alter!Comma
<1>1. w # Alter!Comma
  BY CommaIsNoWord
<1>2. w # "(" /\ w # ")"
  BY DEF Keywords, SqlWords
<1>3. w \in Symbols
  BY DEF Symbols
<1> QED  BY <1>1, <1>2, <1>3, Zenon DEF Marks

LEMMA NameIs ==
    ASSUME NEW n \in Names
    PROVE  n \in Symbols /\ n \notin Keywords \union Marks /\ n # ""
BY StatementsAssumption DEF Symbols, Keywords, Marks

LEMMA TypeIs ==
    /\ Alter!Type \in Seq(Symbols) /\ Len(Alter!Type) = 6 /\ OnePart(Alter!Type)
    /\ SymbolsOf(Alter!Type) = {"DECIMAL", "(", "10", Alter!Comma, "2", ")"}
<1>1. PICK comma \in Symbols : comma = Alter!Comma
  BY CommaIsText
<1>2. comma \notin {"(", ")", "DECIMAL", "10", "2"}
  BY <1>1, CommaIsText, CommaIsNoWord DEF SqlWords
<1>3. PICK t : t = <<"DECIMAL", "(", "10", comma, "2", ")">>
  OBVIOUS
<1>4. /\ t \in Seq(Symbols) /\ Len(t) = 6 /\ t # <<>>
      /\ t[1] = "DECIMAL" /\ t[2] = "(" /\ t[3] = "10" /\ t[4] = comma /\ t[5] = "2" /\ t[6] = ")"
  <2>1. {"DECIMAL", "(", "10", "2", ")"} \subseteq Symbols
    BY Zenon DEF Symbols, SqlWords
  <2>2. t \in Seq(Symbols) /\ Len(t) = 6
    BY <1>3, <2>1, LongerTexts
  <2> QED  BY <1>3, <2>2
<1>5. 1..6 = {1, 2, 3, 4, 5, 6}
  OBVIOUS
<1>6. SymbolsOf(t) = {"DECIMAL", "(", "10", comma, "2", ")"}
  BY <1>4, <1>5 DEF SymbolsOf
<1>7. Holds(t, 2, 6)
  <2>1. \A i \in {1, 2, 3, 4, 5, 6} :
          /\ t[i] = "(" <=> i = 2
          /\ t[i] = ")" <=> i = 6
          /\ t[i] = comma => 2 < i /\ i < 6
    BY <1>2, <1>4
  <2> QED  BY <1>1, <1>4, <1>5, <2>1 DEF Holds
<1>8. OnePart(t)
  BY <1>4, <1>7 DEF OnePart
<1> QED  BY <1>1, <1>3, <1>4, <1>6, <1>8 DEF Alter!Type

LEMMA ColumnsIs ==
    /\ Alter!Columns \in Seq(Symbols) /\ Len(Alter!Columns) = 5 /\ OnePart(Alter!Columns)
    /\ SymbolsOf(Alter!Columns) = {"(", "a", Alter!Comma, "b", ")"} /\ Alter!Columns[1] = "("
<1>1. PICK comma \in Symbols : comma = Alter!Comma
  BY CommaIsText
<1>2. comma \notin {"(", ")", "a", "b"}
  BY <1>1, CommaIsText, CommaIsNoWord DEF SqlWords
<1>3. PICK t : t = <<"(", "a", comma, "b", ")">>
  OBVIOUS
<1>4. /\ t \in Seq(Symbols) /\ Len(t) = 5 /\ t # <<>>
      /\ t[1] = "(" /\ t[2] = "a" /\ t[3] = comma /\ t[4] = "b" /\ t[5] = ")"
  <2>1. {"(", "a", "b", ")"} \subseteq Symbols
    BY Zenon DEF Symbols, SqlWords
  <2>2. t \in Seq(Symbols) /\ Len(t) = 5
    BY <1>3, <2>1, LongerTexts
  <2> QED  BY <1>3, <2>2
<1>5. 1..5 = {1, 2, 3, 4, 5}
  OBVIOUS
<1>6. SymbolsOf(t) = {"(", "a", comma, "b", ")"}
  BY <1>4, <1>5 DEF SymbolsOf
<1>7. Holds(t, 1, 5)
  <2>1. \A i \in {1, 2, 3, 4, 5} :
          /\ t[i] = "(" <=> i = 1
          /\ t[i] = ")" <=> i = 5
          /\ t[i] = comma => 1 < i /\ i < 5
    BY <1>2, <1>4
  <2> QED  BY <1>1, <1>4, <1>5, <2>1 DEF Holds
<1>8. OnePart(t)
  BY <1>4, <1>7 DEF OnePart
<1> QED  BY <1>1, <1>3, <1>4, <1>6, <1>8 DEF Alter!Columns

-----------------------------------------------------------------------------
(* What a column's definition says.                                        *)

DefinitionOf(op) == (<<op.name>> \o Alter!Type) \o Alter!Position(op)

\* What Contains finds: the word itself, or a name that hides it.
HoldsWord(x, word) == x = word \/ (x \in Names /\ word \in Hides[x])
Within(s, word) == \E x \in SymbolsOf(s) : HoldsWord(x, word)
LEMMA FoundIs ==
    ASSUME NEW s, NEW word
    PROVE  Alter!Found(s, word) = {i \in 1..Len(s) : HoldsWord(s[i], word)}
BY Zenon DEF Alter!Found, HoldsWord

LEMMA ContainsIs == ASSUME NEW s, NEW word PROVE Alter!Contains(s, word) <=> Within(s, word)
BY FoundIs DEF Alter!Contains, Within, SymbolsOf

\* No word but a name hides another.
LEMMA WordsHideNothing ==
    /\ \A x \in Keywords \union {"ADD", "DROP"} \union SymbolsOf(Alter!Type) \union SymbolsOf(Alter!Columns) :
          x \notin Names
    /\ "" \notin Names
<1>1. \A n \in Names : n \notin {"ADD", "DROP", "COLUMN", "PRIMARY", "UNIQUE", "INDEX", "KEY", "FIRST", "AFTER"}
  BY StatementsAssumption
<1>2. \A n \in Names : n \notin {"(", ")", Alter!Comma, "DECIMAL", "10", "2", "a", "b"}
  BY StatementsAssumption
<1>3. "" \notin Names
  BY StatementsAssumption
<1>4. \A x \in SymbolsOf(Alter!Type) \union SymbolsOf(Alter!Columns) :
        x \in {"(", ")", Alter!Comma, "DECIMAL", "10", "2", "a", "b"}
  BY TypeIs, ColumnsIs
<1>5. \A x \in Keywords \union {"ADD", "DROP"} :
        x \in {"ADD", "DROP", "COLUMN", "PRIMARY", "UNIQUE", "INDEX", "KEY", "FIRST", "AFTER"}
  BY DEF Keywords
<1> QED  BY <1>1, <1>2, <1>3, <1>4, <1>5, Zenon

\* No name of the operation hides the words of a position.
Plainly(op) == \A name \in {op.name, op.after} \intersect Names : Hides[name] \intersect {"FIRST", "AFTER"} = {}

IsColumn(op) ==
    /\ op.name \in Names /\ op.after \in Names \union {""} /\ op.first \in BOOLEAN
    /\ op.first => op.after = ""

ReadsColumn(op, type, garbage) ==
    \E first : /\ Alter!ParseColumnDefinition(type, DefinitionOf(op), garbage)
                    = Alter!Operation(type, op.name, "", op.after, first)
               /\ op.first => first

LEMMA DefinitionIs ==
    ASSUME NEW op, IsColumn(op), NEW type, NEW garbage
    PROVE  /\ DefinitionOf(op) \in Seq(Symbols) /\ Len(DefinitionOf(op)) >= 7 /\ OnePart(DefinitionOf(op))
           /\ DefinitionOf(op)[1] = op.name
           /\ SymbolsOf(DefinitionOf(op)) \subseteq
                {op.name, op.after, "FIRST", "AFTER"} \union SymbolsOf(Alter!Type)
           /\ op.after = "" => SymbolsOf(DefinitionOf(op)) \subseteq {op.name, "FIRST"} \union SymbolsOf(Alter!Type)
           /\ Plainly(op) => ReadsColumn(op, type, garbage)
<1>1. PICK name \in Symbols : name = op.name /\ name \notin Keywords \union Marks /\ name # ""
  BY NameIs DEF IsColumn
<1>2. PICK before \in Seq(Symbols) :
          /\ before = <<name>> \o Alter!Type /\ Len(before) = 7 /\ before[1] = name /\ OnePart(before)
          /\ SymbolsOf(before) = {name} \union SymbolsOf(Alter!Type)
  <2>1. <<name>> \in Seq(Symbols) /\ Len(<<name>>) = 1 /\ SymbolsOf(<<name>>) = {name} /\ <<name>>[1] = name
    BY Texts
  <2>2. PICK n : n = <<name>>
    OBVIOUS
  <2>3. Unmarked(n)
    BY <1>1, <2>1, <2>2 DEF Unmarked
  <2>4. OnePart(n \o Alter!Type)
    BY <2>3, TypeIs, UnmarkedBefore
  <2>5. PICK t \in Seq(Symbols) : t = n \o Alter!Type
    BY <2>1, <2>2, TypeIs, JoinSymbols
  <2>6. Len(t) = 7 /\ t[1] = name /\ SymbolsOf(t) = {name} \union SymbolsOf(Alter!Type)
    <3>1. n \in Seq(Symbols) /\ Len(n) = 1 /\ n[1] = name /\ SymbolsOf(n) = {name}
      BY <2>1, <2>2
    <3>2. /\ Len(t) = Len(n) + Len(Alter!Type) /\ \A i \in 1..Len(n) : t[i] = n[i]
          /\ SymbolsOf(t) = SymbolsOf(n) \union SymbolsOf(Alter!Type)
      BY <2>5, <3>1, TypeIs, JoinSymbols
    <3>3. 1 \in 1..1
      OBVIOUS
    <3> QED  BY <3>1, <3>2, <3>3, TypeIs
  <2> QED  BY <2>2, <2>4, <2>5, <2>6
<1>3. SymbolsOf(before) \intersect {"FIRST", "AFTER", ""} = {}
  <2>1. name \notin {"FIRST", "AFTER", ""}
    BY <1>1 DEF Keywords
  <2>2. Alter!Comma \notin {"FIRST", "AFTER", ""}
    BY CommaIsNoWord DEF Keywords
  <2> QED  BY <1>2, <2>1, <2>2, TypeIs
<1>8. ASSUME Plainly(op), NEW word \in {"FIRST", "AFTER"}
      PROVE  \A x \in SymbolsOf(before) \union {op.after} : ~HoldsWord(x, word)
  <2>1. \A x \in SymbolsOf(Alter!Type) : x \notin Names
    BY WordsHideNothing
  <2>2. ASSUME NEW x \in SymbolsOf(before) \union {op.after} PROVE x # word
    <3>1. x \in SymbolsOf(before) => x # word
      BY <1>3
    <3>2. op.after \in Names \union {""}
      BY Zenon DEF IsColumn
    <3>3. word # "" /\ word \in Keywords
      BY DEF Keywords
    <3> QED  BY <3>1, <3>2, <3>3, NameIs, Zenon
  <2>3. ASSUME NEW x \in SymbolsOf(before) \union {op.after}, x \in Names PROVE word \notin Hides[x]
    <3>1. x \in {op.name, op.after}
      BY <1>1, <1>2, <2>1, <2>3
    <3>2. Hides[x] \intersect {"FIRST", "AFTER"} = {}
      BY <1>8, <2>3, <3>1, Zenon DEF Plainly
    <3> QED  BY <3>2
  <2> QED  BY <2>2, <2>3, Zenon DEF HoldsWord
<1> DEFINE def == DefinitionOf(op)
<1>4. def = before \o Alter!Position(op)
  BY <1>1, <1>2 DEF DefinitionOf
<1>5. CASE op.first
  <2>1. PICK word : word = "FIRST"
    OBVIOUS
  <2>2. PICK pos : pos = <<word>> /\ Alter!Position(op) = pos
    BY <1>5, <2>1 DEF Alter!Position
  <2>3. word \in Symbols /\ word \notin Marks
    BY <2>1, WordIs DEF Keywords
  <2>4. pos \in Seq(Symbols) /\ Len(pos) = 1 /\ SymbolsOf(pos) = {word} /\ Unmarked(pos)
    <3>1. pos \in Seq(Symbols) /\ Len(pos) = 1 /\ SymbolsOf(pos) = {word}
      BY <2>2, <2>3, Texts
    <3> QED  BY <2>3, <3>1 DEF Unmarked
  <2>5. /\ def \in Seq(Symbols) /\ Len(def) = 8 /\ def[1] = name /\ OnePart(def)
        /\ SymbolsOf(def) = {name, word} \union SymbolsOf(Alter!Type)
    <3>1. def = before \o pos
      BY <1>4, <2>2
    <3>2. /\ def \in Seq(Symbols) /\ Len(def) = 7 + 1 /\ OnePart(def)
          /\ SymbolsOf(def) = SymbolsOf(before) \union {word}
          /\ \A i \in 1..7 : def[i] = before[i]
      <4> HIDE DEF def
      <4>1. OnePart(def)
        BY <1>2, <2>4, <3>1, UnmarkedBehind
      <4>2. /\ def \in Seq(Symbols) /\ Len(def) = Len(before) + Len(pos)
            /\ SymbolsOf(def) = SymbolsOf(before) \union SymbolsOf(pos)
            /\ \A i \in 1..Len(before) : def[i] = before[i]
        BY <1>2, <2>4, <3>1, JoinSymbols
      <4> QED  BY <1>2, <2>4, <4>1, <4>2
    <3>3. 1 \in 1..7
      OBVIOUS
    <3> HIDE DEF def
    <3> QED  BY <1>2, <3>2, <3>3
  <2> HIDE DEF def
  <2>6. Alter!Contains(def, "FIRST")
    BY <2>1, <2>5, ContainsIs DEF Within, HoldsWord
  <2>7. Alter!ParseColumnDefinition(type, def, garbage)
          = Alter!Operation(type, name, "", "", Alter!Contains(def, "FIRST") \/ garbage)
    BY <2>5, <2>6 DEF Alter!ParseColumnDefinition
  <2>8. PICK first : first = (Alter!Contains(def, "FIRST") \/ garbage)
    OBVIOUS
  <2>9. first
    BY <2>6, <2>8
  <2>10. Alter!ParseColumnDefinition(type, def, garbage) = Alter!Operation(type, op.name, "", op.after, first)
    BY <1>1, <1>5, <2>7, <2>8 DEF IsColumn
  <2>11. SymbolsOf(def) \subseteq {op.name, "FIRST"} \union SymbolsOf(Alter!Type)
    BY <1>1, <2>1, <2>5
  <2>12. ReadsColumn(op, type, garbage)
    BY <2>9, <2>10, Zenon DEF ReadsColumn, def
  <2>13. OnePart(def) /\ def \in Seq(Symbols) /\ Len(def) >= 7 /\ def[1] = op.name
    <3>1. def[1] = op.name
      BY <1>1, <2>5
    <3>2. Len(def) >= 7
      BY <2>5
    <3> QED  BY <2>5, <3>1, <3>2
  <2>14. SymbolsOf(def) \subseteq {op.name, op.after, "FIRST", "AFTER"} \union SymbolsOf(Alter!Type)
    BY <2>11
  <2> QED  BY <2>11, <2>12, <2>13, <2>14, Zenon DEF def
<1>6. CASE ~op.first /\ op.after # ""
  <2>1. PICK after \in Symbols : after = op.after /\ after \notin Keywords \union Marks
    BY <1>6, NameIs DEF IsColumn
  <2>2. PICK word : word = "AFTER"
    OBVIOUS
  <2>3. PICK pos : pos = <<word, after>> /\ Alter!Position(op) = pos
    BY <1>6, <2>1, <2>2 DEF Alter!Position
  <2>4. word \in Symbols /\ word \notin Marks /\ word # after
    <3>1. word \in Keywords
      BY <2>2 DEF Keywords
    <3> QED  BY <2>1, <3>1, WordIs
  <2>5. /\ pos \in Seq(Symbols) /\ Len(pos) = 2 /\ SymbolsOf(pos) = {word, after} /\ Unmarked(pos)
        /\ pos[1] = word /\ pos[2] = after
    <3>0. after \in Symbols /\ word \in Symbols
      BY <2>1, <2>4
    <3>1. /\ pos \in Seq(Symbols) /\ Len(pos) = 2 /\ SymbolsOf(pos) = {word, after}
          /\ pos[1] = word /\ pos[2] = after
      <4>1. LET c == after IN
            <<word, after>> \in Seq(Symbols) /\ Len(<<word, after>>) = 2 /\ SymbolsOf(<<word, after>>) = {word, after}
        BY <3>0, Texts
      <4> QED  BY <2>3, <4>1
    <3> QED  BY <2>1, <2>4, <3>1 DEF Unmarked
  <2>6. /\ def \in Seq(Symbols) /\ Len(def) = 9 /\ def[1] = name /\ OnePart(def)
        /\ SymbolsOf(def) = {name, word, after} \union SymbolsOf(Alter!Type)
        /\ \A i \in 1..7 : def[i] = before[i]
        /\ def[8] = word /\ def[9] = after
    <3>1. /\ def \in Seq(Symbols) /\ Len(def) = 7 + 2 /\ OnePart(def)
          /\ SymbolsOf(def) = SymbolsOf(before) \union {word, after}
          /\ \A i \in 1..7 : def[i] = before[i]
          /\ \A i \in 1..2 : def[7 + i] = pos[i]
      <4>1. def = before \o pos
        BY <1>4, <2>3
      <4> HIDE DEF def
      <4>2. OnePart(def)
        BY <1>2, <2>5, <4>1, UnmarkedBehind
      <4>3. /\ def \in Seq(Symbols) /\ Len(def) = Len(before) + Len(pos)
            /\ SymbolsOf(def) = SymbolsOf(before) \union SymbolsOf(pos)
            /\ \A i \in 1..Len(before) : def[i] = before[i]
            /\ \A i \in 1..Len(pos) : def[Len(before) + i] = pos[i]
        BY <1>2, <2>5, <4>1, JoinSymbols
      <4> QED  BY <1>2, <2>5, <4>2, <4>3
    <3> HIDE DEF def
    <3>2. def[7 + 1] = pos[1] /\ def[7 + 2] = pos[2]
      BY <3>1
    <3> QED  BY <1>2, <2>5, <3>1, <3>2
  <2> HIDE DEF def
  <2>7. ASSUME Plainly(op) PROVE ReadsColumn(op, type, garbage)
    <3>1. \A x \in SymbolsOf(before) \union {after} : ~HoldsWord(x, "FIRST") /\ ~HoldsWord(x, "AFTER")
      BY <1>8, <2>1, <2>7
    <3>2. ~Alter!Contains(def, "FIRST")
      <4>1. ~HoldsWord(word, "FIRST")
        <5>1. word \notin Names /\ word # "FIRST"
          BY <2>2, WordsHideNothing DEF Keywords
        <5> QED  BY <5>1, Zenon DEF HoldsWord
      <4>2. \A x \in SymbolsOf(def) : x \in SymbolsOf(before) \union {after} \/ x = word
        BY <1>2, <2>6
      <4> QED  BY <3>1, <4>1, <4>2, ContainsIs, Zenon DEF Within
    <3>3. {i \in Alter!Found(def, "AFTER") : i < Len(def)} = {8}
      <4>1. \A i \in 1..7 : before[i] \in SymbolsOf(before)
        BY <1>2 DEF SymbolsOf
      <4>2. \A i \in 1..9 : i \in 1..7 \/ i = 8 \/ i = 9
        OBVIOUS
      <4>3. \A i \in 1..7 : ~HoldsWord(def[i], "AFTER")
        BY <2>6, <3>1, <4>1
      <4>4. HoldsWord(def[8], "AFTER")
        BY <2>2, <2>6 DEF HoldsWord
      <4>5. \A i \in 1..Len(def) : HoldsWord(def[i], "AFTER") /\ i < Len(def) <=> i = 8
        BY <2>6, <4>2, <4>3, <4>4
      <4>6. {i \in Alter!Found(def, "AFTER") : i < Len(def)}
              = {i \in 1..Len(def) : HoldsWord(def[i], "AFTER") /\ i < Len(def)}
        BY FoundIs
      <4>7. 8 \in 1..Len(def)
        BY <2>6
      <4> QED  BY <4>5, <4>6, <4>7
    <3>4. Alter!AfterColumn(def) = after
      <4>1. Alter!Least({8}) = 8
        BY DEF Alter!Least
      <4>2. Alter!AfterColumn(def) = Alter!Column(Alter!Drop(def, 8))
        <5>1. PICK at : at = {i \in Alter!Found(def, "AFTER") : i < Len(def)}
          OBVIOUS
        <5>2. at # {} /\ Alter!Least(at) = 8
          BY <3>3, <4>1, <5>1
        <5> QED  BY <5>1, <5>2, Zenon DEF Alter!AfterColumn
      <4>3. PICK rest : rest = Alter!Drop(def, 8)
        OBVIOUS
      <4>4. Len(rest) = 1 /\ rest[1] = after
        BY <2>6, <4>3 DEF Alter!Drop
      <4>5. Alter!Column(rest) = after
        BY <4>4, Zenon DEF Alter!Column
      <4> QED  BY <4>2, <4>3, <4>5
    <3>5. PICK first : first = (Alter!Contains(def, "FIRST") \/ garbage)
      OBVIOUS
    <3>6. Alter!ParseColumnDefinition(type, def, garbage) = Alter!Operation(type, name, "", after, first)
      BY <2>6, <3>2, <3>4, <3>5, Zenon DEF Alter!ParseColumnDefinition
    <3>7. Alter!ParseColumnDefinition(type, def, garbage) = Alter!Operation(type, op.name, "", op.after, first)
      BY <1>1, <2>1, <3>6
    <3> QED  BY <1>6, <3>7, Zenon DEF ReadsColumn, def
  <2>13. SymbolsOf(def) \subseteq {op.name, op.after, "FIRST", "AFTER"} \union SymbolsOf(Alter!Type)
    BY <1>1, <2>1, <2>2, <2>6
  <2>15. OnePart(def) /\ def \in Seq(Symbols) /\ Len(def) >= 7 /\ def[1] = op.name
    <3>1. def[1] = before[1]
      <4>1. 1 \in 1..7
        OBVIOUS
      <4> QED  BY <2>6, <4>1
    <3>2. def[1] = op.name
      BY <1>1, <1>2, <3>1
    <3>3. Len(def) >= 7
      BY <2>6
    <3> QED  BY <2>6, <3>2, <3>3
  <2> QED  BY <1>6, <2>7, <2>13, <2>15, Zenon DEF def
<1>7. CASE ~op.first /\ op.after = ""
  <2>1. def = before
    <3>1. Alter!Position(op) = <<>>
      BY <1>7 DEF Alter!Position
    <3> QED  BY <1>2, <1>4, <3>1, ConcatEmptySeq
  <2> HIDE DEF def
  <2>2. ASSUME Plainly(op) PROVE ReadsColumn(op, type, garbage)
    <3>1. \A x \in SymbolsOf(def) : ~HoldsWord(x, "FIRST") /\ ~HoldsWord(x, "AFTER")
      BY <1>8, <2>1, <2>2
    <3>2. ~Alter!Contains(def, "FIRST")
      BY <3>1, ContainsIs, Zenon DEF Within
    <3>3. Alter!AfterColumn(def) = ""
      <4>1. \A i \in 1..Len(def) : def[i] \in SymbolsOf(def)
        BY DEF SymbolsOf
      <4>2. Alter!Found(def, "AFTER") = {}
        BY <3>1, <4>1, FoundIs
      <4>3. {i \in Alter!Found(def, "AFTER") : i < Len(def)} = {}
        BY <4>2
      <4> QED  BY <4>3, Zenon DEF Alter!AfterColumn
    <3>4. PICK first : first = (Alter!Contains(def, "FIRST") \/ garbage)
      OBVIOUS
    <3>5. Alter!ParseColumnDefinition(type, def, garbage) = Alter!Operation(type, name, "", "", first)
      BY <1>2, <2>1, <3>2, <3>3, <3>4, Zenon DEF Alter!ParseColumnDefinition
    <3>6. Alter!ParseColumnDefinition(type, def, garbage) = Alter!Operation(type, op.name, "", op.after, first)
      BY <1>1, <1>7, <3>5
    <3> QED  BY <1>7, <3>6, Zenon DEF ReadsColumn, def
  <2>7. /\ SymbolsOf(def) \subseteq {op.name, "FIRST"} \union SymbolsOf(Alter!Type)
        /\ SymbolsOf(def) \subseteq {op.name, op.after, "FIRST", "AFTER"} \union SymbolsOf(Alter!Type)
    BY <1>1, <1>2, <2>1
  <2>9. OnePart(def) /\ def \in Seq(Symbols) /\ Len(def) >= 7 /\ def[1] = op.name
    <3>1. def[1] = op.name
      BY <1>1, <1>2, <2>1
    <3>2. Len(def) >= 7
      BY <1>2, <2>1
    <3> QED  BY <1>2, <2>1, <3>1, <3>2
  <2> QED  BY <2>2, <2>7, <2>9, Zenon DEF def
<1> QED  BY <1>5, <1>6, <1>7

-----------------------------------------------------------------------------
(* One operation, written and read.                                        *)

ReadsAs(op, r) ==
    \E first : /\ r = Alter!Operation(op.type, op.name, op.old_name, op.after, first)
               /\ op.first => first

LEMMA ExceptIs ==
    ASSUME NEW type, NEW name, NEW old, NEW after, NEW f, NEW garbage
    PROVE  Alter!Untouched(Alter!Operation(type, name, old, after, f), garbage)
             = Alter!Operation(type, name, old, after, garbage)
BY DEF Alter!Untouched, Alter!Operation

LEMMA ExceptFalseIs ==
    ASSUME NEW type, NEW name, NEW old, NEW garbage
    PROVE  Alter!Untouched(Alter!Operation(type, name, old, "", FALSE), garbage)
             = Alter!Operation(type, name, old, "", garbage)
<1>1. PICK f, after : f = FALSE /\ after = ""
  OBVIOUS
<1>2. Alter!Operation(type, name, old, after, FALSE) = Alter!Operation(type, name, old, after, f)
  BY <1>1
<1>3. Alter!Untouched(Alter!Operation(type, name, old, after, f), garbage)
        = Alter!Operation(type, name, old, after, garbage)
  BY ExceptIs
<1> QED  BY <1>1, <1>2, <1>3

LEMMA UntouchedIs ==
    ASSUME NEW type, NEW name, NEW old, NEW garbage
    PROVE  LET op == Alter!Operation(type, name, old, "", FALSE) IN ReadsAs(op, Alter!Untouched(op, garbage))
<1> DEFINE op == Alter!Operation(type, name, old, "", FALSE)
<1>1. Alter!Untouched(op, garbage) = Alter!Operation(type, name, old, "", garbage)
  BY ExceptFalseIs
<1>2. op.type = type /\ op.name = name /\ op.old_name = old /\ op.after = ""
  BY DEF Alter!Operation
<1>3. ~op.first
  BY DEF Alter!Operation
<1> HIDE DEF op
<1>4. Alter!Untouched(op, garbage) = Alter!Operation(op.type, op.name, op.old_name, op.after, garbage)
  BY <1>1, <1>2
<1>5. ReadsAs(op, Alter!Untouched(op, garbage))
  BY <1>3, <1>4, Zenon DEF ReadsAs
<1> QED  BY <1>5, Zenon DEF op

\* Only what begins with RENAME renames.
LEMMA OnlyRenameRenames ==
    ASSUME NEW s, NEW garbage
    PROVE  Alter!ParseOperation(s, garbage).type = "RenameTable" <=> s[1] = "RENAME"
<1>1. \A type, def : Alter!ParseColumnDefinition(type, def, garbage).type = type
  BY DEF Alter!ParseColumnDefinition, Alter!Operation
<1>2. ASSUME NEW type, NEW name, NEW old
      PROVE  Alter!Untouched(Alter!Operation(type, name, old, "", FALSE), garbage).type = type
  <2>1. Alter!Untouched(Alter!Operation(type, name, old, "", FALSE), garbage)
          = Alter!Operation(type, name, old, "", garbage)
    BY ExceptFalseIs
  <2>2. Alter!Operation(type, name, old, "", garbage).type = type
    BY DEF Alter!Operation
  <2> QED  BY <2>1, <2>2, Zenon
<1>3. \A type, name : Alter!Untouched(Alter!Plain(type, name), garbage).type = type
  <2>1. ASSUME NEW type, NEW name PROVE Alter!Untouched(Alter!Plain(type, name), garbage).type = type
    <3>1. Alter!Plain(type, name) = Alter!Operation(type, name, "", "", FALSE)
      BY Zenon DEF Alter!Plain
    <3> QED  BY <1>2, <3>1
  <2> QED  BY <2>1
<1>4. Alter!ParseAdd(s, garbage).type \in {"AddColumn", "AddPrimaryKey", "AddUniqueKey", "AddIndex"}
  BY <1>1, <1>3 DEF Alter!ParseAdd, Alter!ParseAddColumn, Alter!ParsePrimaryKey, Alter!ParseIndex
<1>5. Alter!ParseDrop(s, garbage).type \in {"DropColumn", "DropPrimaryKey", "DropIndex"}
  BY <1>3 DEF Alter!ParseDrop, Alter!ParseDropColumn, Alter!ParsePrimaryKey, Alter!ParseIndex
<1>6. \A def : Alter!ParseModifyColumn(def, garbage).type = "ModifyColumn"
  BY <1>1 DEF Alter!ParseModifyColumn
<1>7. \A def : Alter!ParseChangeColumn(def, garbage).type = "ChangeColumn"
  <2>1. ASSUME NEW def PROVE Alter!ParseChangeColumn(def, garbage).type = "ChangeColumn"
    BY <1>2 DEF Alter!ParseChangeColumn
  <2> QED  BY <2>1
<1>8. Alter!ParseEngineChange(s, garbage).type = "EngineChange"
  BY <1>3 DEF Alter!ParseEngineChange
<1>9. CASE s[1] = "ADD"
  BY <1>4, <1>9 DEF Alter!ParseOperation
<1>10. CASE s[1] = "DROP"
  BY <1>5, <1>10 DEF Alter!ParseOperation
<1>11. CASE s[1] = "MODIFY"
  BY <1>6, <1>11 DEF Alter!ParseOperation
<1>12. CASE s[1] = "CHANGE"
  BY <1>7, <1>12 DEF Alter!ParseOperation
<1>13. CASE s[1] = "RENAME"
  BY <1>3, <1>13 DEF Alter!ParseOperation
<1>14. CASE s[1] = "ENGINE"
  BY <1>8, <1>14 DEF Alter!ParseOperation
<1>15. CASE s[1] \notin {"ADD", "DROP", "MODIFY", "CHANGE", "RENAME", "ENGINE"}
  <2>1. Alter!ParseOperation(s, garbage) = Alter!Untouched(Alter!Plain("Unknown", ""), garbage)
    BY <1>15 DEF Alter!ParseOperation
  <2>2. Alter!ParseOperation(s, garbage).type = "Unknown"
    BY <1>3, <2>1
  <2> QED  BY <1>15, <2>2
<1> QED  BY <1>9, <1>10, <1>11, <1>12, <1>13, <1>14, <1>15

LEMMA Tuples ==
    ASSUME NEW a \in Symbols, NEW b \in Symbols, NEW c \in Symbols
    PROVE  <<a>> \o <<b>> = <<a, b>> /\ (<<a>> \o <<b>>) \o <<c>> = <<a, b, c>>
<1>1. PICK x \in Seq(Symbols), y \in Seq(Symbols), z \in Seq(Symbols) :
        /\ x = <<a>> /\ y = <<b>> /\ z = <<c>> /\ Len(x) = 1 /\ Len(y) = 1 /\ Len(z) = 1
        /\ x[1] = a /\ y[1] = b /\ z[1] = c
  <2>1. <<a>> \in Seq(Symbols) /\ <<b>> \in Seq(Symbols) /\ <<c>> \in Seq(Symbols)
    OBVIOUS
  <2> QED  BY <2>1
<1>2. PICK u \in Seq(Symbols) : u = x \o y /\ Len(u) = 2 /\ u[1] = a /\ u[2] = b
  <2>1. PICK u \in Seq(Symbols) : u = x \o y
    BY JoinSymbols
  <2>2. Len(u) = Len(x) + Len(y) /\ (\A i \in 1..Len(x) : u[i] = x[i]) /\ \A i \in 1..Len(y) : u[Len(x) + i] = y[i]
    BY <2>1, JoinSymbols
  <2>3. 1 \in 1..1 /\ 1 + 1 = 2
    OBVIOUS
  <2> QED  BY <1>1, <2>1, <2>2, <2>3, ZenonT(40)
<1>3. PICK v \in Seq(Symbols) : v = u \o z /\ Len(v) = 3 /\ v[1] = a /\ v[2] = b /\ v[3] = c
  <2>1. PICK v \in Seq(Symbols) : v = u \o z
    BY JoinSymbols
  <2>2. Len(v) = Len(u) + Len(z) /\ (\A i \in 1..Len(u) : v[i] = u[i]) /\ \A i \in 1..Len(z) : v[Len(u) + i] = z[i]
    BY <2>1, JoinSymbols
  <2>3. Len(v) = 2 + 1 /\ (\A i \in 1..2 : v[i] = u[i]) /\ \A i \in 1..1 : v[2 + i] = z[i]
    BY <1>1, <1>2, <2>2
  <2>4. Len(v) = 3 /\ v[1] = u[1] /\ v[2] = u[2] /\ v[3] = z[1]
    BY <2>3
  <2> QED  BY <1>1, <1>2, <2>1, <2>4
<1>4. u = <<a, b>>
  <2>1. u \in Seq(Symbols) /\ Len(u) = 2 /\ u[1] = a /\ u[2] = b
    BY <1>2
  <2> QED  BY <2>1
<1>5. v = <<a, b, c>>
  <2>1. v \in Seq(Symbols) /\ Len(v) = 3 /\ v[1] = a /\ v[2] = b /\ v[3] = c
    BY <1>3
  <2> QED  BY <2>1
<1> QED  BY <1>1, <1>2, <1>3, <1>4, <1>5

LEMMA ShortTexts ==
    ASSUME NEW a \in Symbols \ Marks, NEW b \in Symbols \ Marks, NEW c \in Symbols \ Marks
    PROVE  /\ Unmarked(<<a>>) /\ Unmarked(<<a, b>>) /\ Unmarked(<<a, b, c>>)
           /\ OnePart(<<a>>) /\ OnePart(<<a, b>>) /\ OnePart(<<a, b, c>>)
<1>1. <<a>> \in Seq(Symbols) /\ SymbolsOf(<<a>>) = {a} /\ <<a>> # <<>>
  BY Texts
<1>2. <<a, b>> \in Seq(Symbols) /\ SymbolsOf(<<a, b>>) = {a, b} /\ <<a, b>> # <<>>
  BY Texts
<1>3. <<a, b, c>> \in Seq(Symbols) /\ SymbolsOf(<<a, b, c>>) = {a, b, c} /\ <<a, b, c>> # <<>>
  BY Texts, ZenonT(40)
<1>4. Unmarked(<<a>>)
  BY <1>1, Zenon DEF Unmarked
<1>5. Unmarked(<<a, b>>)
  BY <1>2, Zenon DEF Unmarked
<1>6. Unmarked(<<a, b, c>>)
  BY <1>3, Zenon DEF Unmarked
<1> QED  BY <1>1, <1>2, <1>3, <1>4, <1>5, <1>6, UnmarkedIsOnePart

-----------------------------------------------------------------------------
(* A keyword, perhaps the word COLUMN, and what is said of the column.     *)

Saying(word, column, body) == (<<word>> \o column) \o body

LEMMA HeadIs ==
    ASSUME NEW word \in SqlWords, NEW column \in {<<>>, <<"COLUMN">>}
    PROVE  <<word>> \o column \in Seq(Symbols)
<1>1. PICK w \in Symbols : w = "COLUMN"
  BY WordIs DEF Keywords
<1>2. <<word>> \in Seq(Symbols) /\ <<w>> \in Seq(Symbols) /\ <<>> \in Seq(Symbols)
  BY WordIs
<1>3. column \in Seq(Symbols)
  BY <1>1, <1>2
<1> QED  BY <1>2, <1>3, JoinSymbols

SayingHas(s, word, column, body) ==
    /\ s \in Seq(Symbols) /\ OnePart(s) /\ Len(s) >= 2 /\ s[1] = word
    /\ column # <<>> => s[2] = "COLUMN" /\ s[3] = body[1] /\ Len(s) >= 3 /\ Alter!Drop(s, 2) = body
    /\ column = <<>> => /\ s[2] = body[1] /\ Alter!Drop(s, 1) = body /\ Tail(s) = body
                        /\ SymbolsOf(s) = {word} \union SymbolsOf(body)

LEMMA SayingIs ==
    ASSUME NEW word \in SqlWords, NEW column \in {<<>>, <<"COLUMN">>},
           NEW body \in Seq(Symbols), OnePart(body)
    PROVE  SayingHas(Saying(word, column, body), word, column, body)
<1>1. PICK w : w = "COLUMN"
  OBVIOUS
<1>2. word \in Symbols \ Marks /\ w \in Symbols \ Marks
  BY <1>1, WordIs DEF Keywords
<1>3. body # <<>> /\ Len(body) \in Nat /\ Len(body) > 0
  BY DEF OnePart
<1>4. CASE column = <<>>
  <2>1. PICK h \in Seq(Symbols) : h = <<word>> /\ Len(h) = 1 /\ SymbolsOf(h) = {word} /\ h[1] = word /\ Unmarked(h)
    BY <1>2, Texts, ShortTexts
  <2>2. <<word>> \o column = h
    BY <1>4, <2>1, ConcatEmptySeq
  <2>3. PICK s \in Seq(Symbols) : s = h \o body
    BY <2>1, JoinSymbols
  <2>4. /\ Len(s) = Len(h) + Len(body) /\ (\A i \in 1..Len(h) : s[i] = h[i])
        /\ (\A i \in 1..Len(body) : s[Len(h) + i] = body[i])
        /\ SymbolsOf(s) = SymbolsOf(h) \union SymbolsOf(body)
        /\ Alter!Drop(s, Len(h)) = body
    BY <2>3, JoinSymbols
  <2>5. OnePart(s)
    BY <2>1, <2>3, UnmarkedBefore
  <2>6. s[1] = word /\ s[2] = body[1] /\ Len(s) >= 2
    <3>1. 1 \in 1..1 /\ 1 \in 1..Len(body) /\ 1 + 1 = 2
      BY <1>3
    <3> QED  BY <1>3, <2>1, <2>4, <3>1
  <2>7. Tail(s) = body
    <3>1. PICK n \in Nat : n = Len(body)
      BY <1>3
    <3>2. /\ Len(s) = 1 + n /\ \A i \in 1..n : s[1 + i] = body[i]
      BY <2>1, <2>4, <3>1
    <3>3. Tail(s) \in Seq(Symbols) /\ Len(Tail(s)) = n /\ \A i \in 1..n : Tail(s)[i] = body[i]
      <4>1. s # <<>>
        BY <3>2
      <4>2. Tail(s) \in Seq(Symbols) /\ Len(Tail(s)) = Len(s) - 1 /\ \A i \in 1..Len(Tail(s)) : Tail(s)[i] = s[i + 1]
        BY <4>1
      <4>3. \A i \in 1..n : i + 1 = 1 + i
        OBVIOUS
      <4> QED  BY <3>2, <4>2, <4>3
    <3>4. PICK t : t = Tail(s)
      OBVIOUS
    <3>5. t = [i \in 1..n |-> t[i]]
      <4>1. t \in Seq(Symbols) /\ Len(t) = n
        BY <3>3, <3>4
      <4> QED  BY <4>1
    <3>6. body = [i \in 1..n |-> body[i]]
      BY <3>1
    <3> QED  BY <3>3, <3>4, <3>5, <3>6
  <2>8. SayingHas(s, word, column, body)
    BY <1>4, <2>1, <2>4, <2>5, <2>6, <2>7 DEF SayingHas
  <2>9. s = Saying(word, column, body)
    BY <2>2, <2>3 DEF Saying
  <2> QED  BY <2>8, <2>9
<1>5. CASE column = <<"COLUMN">>
  <2>1. PICK h \in Seq(Symbols) : h = <<word, w>> /\ Len(h) = 2 /\ h[1] = word /\ h[2] = w /\ Unmarked(h)
    BY <1>2, Texts, ShortTexts
  <2>2. <<word>> \o column = h
    BY <1>1, <1>2, <1>5, <2>1, Tuples
  <2>3. PICK s \in Seq(Symbols) : s = h \o body
    BY <2>1, JoinSymbols
  <2>4. /\ Len(s) = Len(h) + Len(body) /\ (\A i \in 1..Len(h) : s[i] = h[i])
        /\ (\A i \in 1..Len(body) : s[Len(h) + i] = body[i])
        /\ Alter!Drop(s, Len(h)) = body
    BY <2>3, JoinSymbols
  <2>5. OnePart(s)
    BY <2>1, <2>3, UnmarkedBefore
  <2>6. s[1] = word /\ s[2] = w /\ s[3] = body[1] /\ Len(s) >= 3
    <3>1. 1 \in 1..2 /\ 2 \in 1..2 /\ 1 \in 1..Len(body) /\ 2 + 1 = 3
      BY <1>3
    <3> QED  BY <1>3, <2>1, <2>4, <3>1
  <2>7. column # <<>>
    BY <1>5
  <2>8. SayingHas(s, word, column, body)
    BY <1>1, <2>1, <2>4, <2>5, <2>6, <2>7 DEF SayingHas
  <2>9. s = Saying(word, column, body)
    BY <2>2, <2>3 DEF Saying
  <2> QED  BY <2>8, <2>9
<1> QED  BY <1>4, <1>5

Starters == {"ADD", "DROP", "MODIFY", "CHANGE", "RENAME", "ENGINE"}
IsRead(op, column, garbage) ==
    LET s == Alter!Written(op, column) IN
    /\ s \in Seq(Symbols) /\ OnePart(s) /\ s[1] \in Starters
    /\ op.type = "RenameTable" <=> s[1] = "RENAME"
    /\ Alter!Clear(op, column) => ReadsAs(op, Alter!ParseOperation(s, garbage))

LEMMA NoPrimaryKey ==
    ASSUME NEW s \in Seq(Symbols), "PRIMARY" \notin SymbolsOf(s)
    PROVE  Alter!Beside(s, <<"PRIMARY", "KEY">>) = {}
BY BesidePair DEF SymbolsOf

LEMMA KeyNameIs ==
    ASSUME NEW s \in Seq(Symbols), NEW k \in 1..Len(s), k < Len(s), s[k] \in {"INDEX", "KEY"},
           \A i \in 1..Len(s) : s[i] \in {"INDEX", "KEY"} => i = k, s[k + 1] # "("
    PROVE  Alter!KeyName(s) = s[k + 1]
<1>1. Alter!Places(s, "INDEX") \union Alter!Places(s, "KEY") = {k}
  BY DEF Alter!Places
<1>2. Alter!Least({k}) = k
  BY DEF Alter!Least
<1>3. PICK at : at = Alter!Places(s, "INDEX") \union Alter!Places(s, "KEY")
  OBVIOUS
<1>4. at # {} /\ Alter!Least(at) = k
  BY <1>1, <1>2, <1>3
<1>5. k # Len(s)
  OBVIOUS
<1> QED  BY <1>3, <1>4, <1>5, Zenon DEF Alter!KeyName

LEMMA FixedSymbols ==
    /\ SymbolsOf(Alter!Type) \intersect Keywords = {}
    /\ SymbolsOf(Alter!Columns) \intersect Keywords = {}
<1>1. \A w \in Keywords : w # Alter!Comma
  BY CommaIsNoWord
<1>2. \A w \in Keywords : w \notin {"DECIMAL", "(", "10", "2", ")", "a", "b"}
  BY DEF Keywords
<1> QED  BY <1>1, <1>2, TypeIs, ColumnsIs

\* What Clear says of an operation that has one name, or a position.
LEMMA ClearIs ==
    ASSUME NEW op, NEW column, Alter!Clear(op, column), NEW name \in {op.name, op.after}, name \in Names
    PROVE  /\ op.type \in {"AddColumn", "ModifyColumn"} => Hides[name] \intersect {"FIRST", "AFTER"} = {}
           /\ op.type = "AddColumn" /\ column = <<>> => Hides[name] \intersect {"UNIQUE", "INDEX", "KEY"} = {}
           /\ op.type = "DropColumn" /\ column = <<>> => Hides[name] \intersect {"INDEX", "KEY"} = {}
           /\ op.type = "AddIndex" => "UNIQUE" \notin Hides[name]
<1>1. Hides[name] \intersect Alter!Sought(op, column) = {}
  BY Zenon DEF Alter!Clear
<1>2. op.type \in {"AddColumn", "ModifyColumn"} => {"FIRST", "AFTER"} \subseteq Alter!Sought(op, column)
  BY DEF Alter!Sought
<1>3. op.type = "AddColumn" /\ column = <<>> => {"UNIQUE", "INDEX", "KEY"} \subseteq Alter!Sought(op, column)
  BY DEF Alter!Sought
<1>4. op.type = "DropColumn" /\ column = <<>> => {"INDEX", "KEY"} \subseteq Alter!Sought(op, column)
  BY DEF Alter!Sought
<1>5. op.type = "AddIndex" => "UNIQUE" \in Alter!Sought(op, column)
  BY DEF Alter!Sought
<1> QED  BY <1>1, <1>2, <1>3, <1>4, <1>5

LEMMA ClearIsPlain ==
    ASSUME NEW op, NEW column, Alter!Clear(op, column), op.type \in {"AddColumn", "ModifyColumn"}
    PROVE  Plainly(op)
BY ClearIs, Zenon DEF Plainly

LEMMA ChangeIsRead ==
    ASSUME NEW new \in Names, NEW old \in Names, NEW column \in {<<>>, <<"COLUMN">>}, NEW garbage
    PROVE  IsRead(Alter!Operation("ChangeColumn", new, old, "", FALSE), column, garbage)
<1> DEFINE op == Alter!Operation("ChangeColumn", new, old, "", FALSE)
<1>1. op.type = "ChangeColumn" /\ op.name = new /\ op.old_name = old
  BY DEF Alter!Operation
<1>2. PICK h \in Seq(Symbols) : h = <<old, new>> /\ Len(h) = 2 /\ h[1] = old /\ h[2] = new /\ Unmarked(h)
  BY NameIs, Texts, ShortTexts
<1>3. PICK body \in Seq(Symbols) : body = h \o Alter!Type
  BY TypeIs, JoinSymbols
<1>4. OnePart(body) /\ body[1] = old /\ body[2] = new
  <2>1. \A i \in 1..Len(h) : body[i] = h[i]
    BY <1>3, TypeIs, JoinSymbols
  <2>2. 1 \in 1..2 /\ 2 \in 1..2
    OBVIOUS
  <2>3. OnePart(body)
    BY <1>2, <1>3, TypeIs, UnmarkedBefore
  <2> QED  BY <1>2, <2>1, <2>2, <2>3
<1>5. PICK word \in SqlWords : word = "CHANGE"
  BY DEF SqlWords
<1>6. PICK s \in Seq(Symbols) : s = Saying(word, column, body) /\ SayingHas(s, word, column, body)
  <2>1. SayingHas(Saying(word, column, body), word, column, body)
    BY <1>4, SayingIs
  <2>2. Saying(word, column, body) \in Seq(Symbols)
    BY <2>1 DEF SayingHas
  <2> QED  BY <2>1, <2>2
<1>7. Alter!Written(op, column) = s
  <2>1. PICK head \in Seq(Symbols), type \in Seq(Symbols) : head = <<word>> \o column /\ type = Alter!Type
    BY <1>5, HeadIs, TypeIs
  <2>2. head \o (h \o type) = (head \o h) \o type
    BY ONLY head \in Seq(Symbols), h \in Seq(Symbols), type \in Seq(Symbols), Associative, Zenon
  <2> HIDE DEF op
  <2>3. Alter!Written(op, column) = ((<<word>> \o column) \o h) \o Alter!Type
    BY <1>1, <1>2, <1>5 DEF Alter!Written
  <2> QED  BY <1>3, <1>6, <2>1, <2>2, <2>3 DEF Saying
<1>8. OnePart(s) /\ s[1] = "CHANGE" /\ Len(s) >= 2
  BY <1>5, <1>6 DEF SayingHas
<1>9. column # <<>> => s[2] = "COLUMN" /\ Alter!Drop(s, 2) = body
  BY <1>6 DEF SayingHas
<1>10. column = <<>> => s[2] # "COLUMN" /\ Alter!Drop(s, 1) = body
  <2>1. column = <<>> => s[2] = body[1] /\ Alter!Drop(s, 1) = body
    BY <1>6 DEF SayingHas
  <2> QED  BY <1>4, <2>1, NameIs DEF Keywords
<1>11. Alter!ParseOperation(s, garbage) = Alter!ParseChangeColumn(body, garbage)
  BY <1>8, <1>9, <1>10 DEF Alter!ParseOperation
<1>12. Alter!ParseChangeColumn(body, garbage) = Alter!Untouched(op, garbage)
  BY <1>4, Zenon DEF Alter!ParseChangeColumn
<1>13. ReadsAs(op, Alter!Untouched(op, garbage))
  BY UntouchedIs
<1> HIDE DEF op
<1>14. ReadsAs(op, Alter!ParseOperation(Alter!Written(op, column), garbage))
  BY <1>7, <1>11, <1>12, <1>13
<1>15. s[1] \in Starters /\ ~(op.type = "RenameTable") /\ ~(s[1] = "RENAME")
  BY <1>1, <1>8 DEF Starters
<1>16. IsRead(op, column, garbage)
  BY <1>7, <1>8, <1>14, <1>15, Zenon DEF IsRead
<1> QED  BY <1>16 DEF op

LEMMA DropIsRead ==
    ASSUME NEW name \in Names, NEW column \in {<<>>, <<"COLUMN">>}, NEW garbage
    PROVE  IsRead(Alter!Plain("DropColumn", name), column, garbage)
<1> DEFINE op == Alter!Plain("DropColumn", name)
<1>1. op.type = "DropColumn" /\ op.name = name
  BY DEF Alter!Plain, Alter!Operation
<1>2. PICK body \in Seq(Symbols) : body = <<name>> /\ body[1] = name /\ OnePart(body) /\ SymbolsOf(body) = {name}
  BY NameIs, Texts, ShortTexts
<1>3. PICK word \in SqlWords : word = "DROP"
  BY DEF SqlWords
<1>4. PICK s \in Seq(Symbols) : s = Saying(word, column, body) /\ SayingHas(s, word, column, body)
  <2>1. SayingHas(Saying(word, column, body), word, column, body)
    BY <1>2, SayingIs
  <2>2. Saying(word, column, body) \in Seq(Symbols)
    BY <2>1 DEF SayingHas
  <2> QED  BY <2>1, <2>2
<1>5. Alter!Written(op, column) = s
  <2> HIDE DEF op
  <2>1. Alter!Written(op, column) = (<<word>> \o column) \o body
    BY <1>1, <1>2, <1>3 DEF Alter!Written
  <2> QED  BY <1>4, <2>1 DEF Saying
<1>6. OnePart(s) /\ s[1] = "DROP" /\ Len(s) >= 2
  BY <1>3, <1>4 DEF SayingHas
<1>7. ASSUME column # <<>> PROVE Alter!ParseDrop(s, garbage) = Alter!ParseDropColumn(name, garbage)
  <2>1. s[2] = "COLUMN" /\ s[3] = name
    BY <1>2, <1>4, <1>7 DEF SayingHas
  <2>2. Alter!Starts(s, <<"DROP", "COLUMN">>)
    BY <1>6, <2>1, StartsPair
  <2> QED  BY <2>1, <2>2 DEF Alter!ParseDrop
<1>8. ASSUME column = <<>>, Hides[name] \intersect {"INDEX", "KEY"} = {}
      PROVE  Alter!ParseDrop(s, garbage) = Alter!ParseDropColumn(name, garbage)
  <2>1. s[2] = name /\ SymbolsOf(s) = {"DROP", name}
    BY <1>2, <1>3, <1>4, <1>8 DEF SayingHas
  <2>2. name \notin Keywords
    BY NameIs
  <2>3. ~Alter!Starts(s, <<"DROP", "COLUMN">>)
    BY <2>1, <2>2, StartsPair DEF Keywords
  <2>4. Alter!Beside(s, <<"PRIMARY", "KEY">>) = {}
    <3>1. "PRIMARY" \notin SymbolsOf(s)
      BY <2>1, <2>2 DEF Keywords
    <3> QED  BY <3>1, NoPrimaryKey
  <2>5. ~Alter!Contains(s, "KEY") /\ ~Alter!Contains(s, "INDEX")
    <3>1. ~HoldsWord(name, "KEY") /\ ~HoldsWord(name, "INDEX")
      BY <1>8, <2>2 DEF HoldsWord, Keywords
    <3>2. ~HoldsWord("DROP", "KEY") /\ ~HoldsWord("DROP", "INDEX")
      BY WordsHideNothing DEF HoldsWord
    <3>3. ~Within(s, "KEY") /\ ~Within(s, "INDEX")
      BY <2>1, <3>1, <3>2 DEF Within
    <3> QED  BY <3>3, ContainsIs
  <2> QED  BY <2>1, <2>3, <2>4, <2>5 DEF Alter!ParseDrop
<1>9. Alter!ParseOperation(s, garbage) = Alter!ParseDrop(s, garbage)
  BY <1>6 DEF Alter!ParseOperation
<1>10. Alter!ParseDropColumn(name, garbage) = Alter!Untouched(op, garbage)
  BY Zenon DEF Alter!ParseDropColumn
<1>11. ReadsAs(op, Alter!Untouched(op, garbage))
  BY UntouchedIs, Zenon DEF Alter!Plain
<1> HIDE DEF op
<1>12. Alter!Clear(op, column) => column # <<>> \/ Hides[name] \intersect {"INDEX", "KEY"} = {}
  BY <1>1, ClearIs
<1>13. Alter!Clear(op, column) => ReadsAs(op, Alter!ParseOperation(s, garbage))
  BY <1>7, <1>8, <1>9, <1>10, <1>11, <1>12
<1>14. s[1] \in Starters /\ ~(op.type = "RenameTable") /\ ~(s[1] = "RENAME")
  BY <1>1, <1>6 DEF Starters
<1>15. IsRead(op, column, garbage)
  BY <1>5, <1>6, <1>13, <1>14, Zenon DEF IsRead
<1> QED  BY <1>15 DEF op

IsThree(s, a, b, c) ==
    /\ s = <<a, b, c>> /\ s \in Seq(Symbols) /\ Len(s) = 3 /\ SymbolsOf(s) = {a, b, c} /\ OnePart(s) /\ Unmarked(s)
    /\ s[1] = a /\ s[2] = b /\ s[3] = c

LEMMA ThreeIs ==
    ASSUME NEW a \in Symbols \ Marks, NEW b \in Symbols \ Marks, NEW c \in Symbols \ Marks
    PROVE  IsThree(<<a, b, c>>, a, b, c)
<1>1. <<a, b, c>> \in Seq(Symbols) /\ Len(<<a, b, c>>) = 3 /\ SymbolsOf(<<a, b, c>>) = {a, b, c}
  BY Texts, ZenonT(40)
<1>2. OnePart(<<a, b, c>>) /\ Unmarked(<<a, b, c>>)
  BY ShortTexts
<1> QED  BY <1>1, <1>2 DEF IsThree

LEMMA HasPrimaryKey ==
    ASSUME NEW s \in Seq(Symbols), Len(s) >= 3, s[2] = "PRIMARY", s[3] = "KEY"
    PROVE  Alter!Beside(s, <<"PRIMARY", "KEY">>) # {}
<1>1. 2 \in 1..Len(s) /\ 2 + 1 = 3
  OBVIOUS
<1>2. 2 \in Alter!Beside(s, <<"PRIMARY", "KEY">>)
  BY <1>1, BesidePair
<1> QED  BY <1>2

LEMMA DropIndexIsRead ==
    ASSUME NEW name \in Names, NEW column, NEW garbage
    PROVE  IsRead(Alter!Plain("DropIndex", name), column, garbage)
<1> DEFINE op == Alter!Plain("DropIndex", name)
<1>1. op.type = "DropIndex" /\ op.name = name
  BY DEF Alter!Plain, Alter!Operation
<1>2. PICK a \in Symbols \ Marks, b \in Symbols \ Marks : a = "DROP" /\ b = "INDEX"
  BY WordIs DEF Keywords, SqlWords
<1>3. name \in Symbols \ Marks /\ name \notin Keywords
  BY NameIs
<1>4. PICK s \in Seq(Symbols) :
        /\ s = <<a, b, name>> /\ Len(s) = 3 /\ SymbolsOf(s) = {a, b, name} /\ OnePart(s)
        /\ s[1] = a /\ s[2] = b /\ s[3] = name
  <2>1. <<a, b, name>> \in Seq(Symbols) /\ Len(<<a, b, name>>) = 3 /\ SymbolsOf(<<a, b, name>>) = {a, b, name}
    BY <1>3, Texts
  <2>2. OnePart(<<a, b, name>>)
    BY <1>3, ShortTexts
  <2> QED  BY <2>1, <2>2
<1>5. Alter!Written(op, column) = s
  <2> HIDE DEF op
  <2> QED  BY <1>1, <1>2, <1>4 DEF Alter!Written
<1>6. ~Alter!Starts(s, <<"DROP", "COLUMN">>)
  BY <1>2, <1>4, StartsPair
<1>7. Alter!Beside(s, <<"PRIMARY", "KEY">>) = {}
  <2>1. "PRIMARY" \notin SymbolsOf(s)
    BY <1>2, <1>3, <1>4 DEF Keywords
  <2> QED  BY <2>1, NoPrimaryKey
<1>8. Alter!Contains(s, "INDEX")
  <2>1. HoldsWord(b, "INDEX") /\ b \in SymbolsOf(s)
    BY <1>2, <1>4 DEF HoldsWord
  <2> QED  BY <2>1, ContainsIs, Zenon DEF Within
<1>9. Alter!KeyName(s) = name
  <2>1. \A i \in 1..Len(s) : s[i] \in {"INDEX", "KEY"} => i = 2
    <3>1. \A i \in 1..3 : i = 1 \/ i = 2 \/ i = 3
      OBVIOUS
    <3> QED  BY <1>2, <1>3, <1>4, <3>1 DEF Keywords
  <2>2. 2 \in 1..Len(s) /\ 2 < Len(s) /\ s[2] \in {"INDEX", "KEY"} /\ s[2 + 1] = name /\ name # "("
    BY <1>2, <1>3, <1>4 DEF Marks
  <2>3. Alter!KeyName(s) = s[2 + 1]
    BY <2>1, <2>2, KeyNameIs
  <2> QED  BY <2>2, <2>3
<1>10. Alter!ParseOperation(s, garbage) = Alter!ParseIndex("DropIndex", s, garbage)
  <2>1. Alter!ParseOperation(s, garbage) = Alter!ParseDrop(s, garbage)
    BY <1>2, <1>4 DEF Alter!ParseOperation
  <2> QED  BY <1>6, <1>7, <1>8, <2>1 DEF Alter!ParseDrop
<1>11. Alter!ParseIndex("DropIndex", s, garbage) = Alter!Untouched(op, garbage)
  BY <1>9, Zenon DEF Alter!ParseIndex
<1>12. ReadsAs(op, Alter!Untouched(op, garbage))
  BY UntouchedIs, Zenon DEF Alter!Plain
<1> HIDE DEF op
<1>13. ReadsAs(op, Alter!ParseOperation(s, garbage))
  BY <1>10, <1>11, <1>12
<1>14. s[1] \in Starters /\ ~(op.type = "RenameTable") /\ ~(s[1] = "RENAME")
  BY <1>1, <1>2, <1>4 DEF Starters
<1>15. IsRead(op, column, garbage)
  BY <1>4, <1>5, <1>13, <1>14, Zenon DEF IsRead
<1> QED  BY <1>15 DEF op

LEMMA OthersAreRead ==
    ASSUME NEW column, NEW garbage
    PROVE  /\ IsRead(Alter!Plain("DropPrimaryKey", ""), column, garbage)
           /\ IsRead(Alter!Plain("RenameTable", ""), column, garbage)
           /\ IsRead(Alter!Plain("EngineChange", "InnoDB"), column, garbage)
<1>1. IsRead(Alter!Plain("DropPrimaryKey", ""), column, garbage)
  <2> DEFINE op == Alter!Plain("DropPrimaryKey", "")
  <2>1. op.type = "DropPrimaryKey"
    BY DEF Alter!Plain, Alter!Operation
  <2>2. PICK a \in Symbols \ Marks, b \in Symbols \ Marks, c \in Symbols \ Marks : a = "DROP" /\ b = "PRIMARY" /\ c = "KEY"
    BY WordIs DEF Keywords, SqlWords
  <2>3. PICK s \in Seq(Symbols) : s = <<a, b, c>> /\ Len(s) = 3 /\ OnePart(s) /\ s[1] = a /\ s[2] = b /\ s[3] = c
    <3>1. PICK s : s = <<a, b, c>>
      OBVIOUS
    <3>2. IsThree(s, a, b, c)
      BY <3>1, ThreeIs
    <3> QED  BY <3>2 DEF IsThree
  <2>4. Alter!Written(op, column) = s
    <3> HIDE DEF op
    <3> QED  BY <2>1, <2>2, <2>3 DEF Alter!Written
  <2>5. ~Alter!Starts(s, <<"DROP", "COLUMN">>)
    BY <2>2, <2>3, StartsPair
  <2>6. Alter!Beside(s, <<"PRIMARY", "KEY">>) # {}
    <3>1. s[2] = "PRIMARY" /\ s[3] = "KEY"
      BY <2>2, <2>3
    <3>2. s \in Seq(Symbols)
      OBVIOUS
    <3>3. Len(s) >= 3
      BY <2>3
    <3> QED  BY <3>1, <3>2, <3>3, HasPrimaryKey
  <2>7. Alter!ParseOperation(s, garbage) = Alter!ParsePrimaryKey("DropPrimaryKey", garbage)
    <3>1. Alter!ParseOperation(s, garbage) = Alter!ParseDrop(s, garbage)
      BY <2>2, <2>3 DEF Alter!ParseOperation
    <3> QED  BY <2>5, <2>6, <3>1 DEF Alter!ParseDrop
  <2>8. Alter!ParsePrimaryKey("DropPrimaryKey", garbage) = Alter!Untouched(op, garbage)
    BY Zenon DEF Alter!ParsePrimaryKey
  <2>9. ReadsAs(op, Alter!Untouched(op, garbage))
    BY UntouchedIs, Zenon DEF Alter!Plain
  <2> HIDE DEF op
  <2>10. ReadsAs(op, Alter!ParseOperation(s, garbage))
    BY <2>7, <2>8, <2>9
  <2>11. s[1] \in Starters /\ ~(op.type = "RenameTable") /\ ~(s[1] = "RENAME")
    BY <2>1, <2>2, <2>3 DEF Starters
  <2>12. IsRead(op, column, garbage)
    BY <2>3, <2>4, <2>10, <2>11, Zenon DEF IsRead
  <2> QED  BY <2>12 DEF op
<1>2. IsRead(Alter!Plain("RenameTable", ""), column, garbage)
  <2> DEFINE op == Alter!Plain("RenameTable", "")
  <2>1. op.type = "RenameTable"
    BY DEF Alter!Plain, Alter!Operation
  <2>2. PICK a \in Symbols \ Marks, b \in Symbols \ Marks, c \in Symbols \ Marks : a = "RENAME" /\ b = "TO" /\ c = "other"
    BY WordIs DEF Keywords, SqlWords
  <2>3. PICK s \in Seq(Symbols) : s = <<a, b, c>> /\ Len(s) = 3 /\ OnePart(s) /\ s[1] = a /\ s[2] = b /\ s[3] = c
    <3>1. PICK s : s = <<a, b, c>>
      OBVIOUS
    <3>2. IsThree(s, a, b, c)
      BY <3>1, ThreeIs
    <3> QED  BY <3>2 DEF IsThree
  <2>4. Alter!Written(op, column) = s
    <3> HIDE DEF op
    <3> QED  BY <2>1, <2>2, <2>3 DEF Alter!Written
  <2>5. Alter!ParseOperation(s, garbage) = Alter!Untouched(op, garbage)
    BY <2>2, <2>3 DEF Alter!ParseOperation
  <2>6. ReadsAs(op, Alter!Untouched(op, garbage))
    BY UntouchedIs, Zenon DEF Alter!Plain
  <2> HIDE DEF op
  <2>7. ReadsAs(op, Alter!ParseOperation(s, garbage))
    BY <2>5, <2>6
  <2>8. s[1] \in Starters /\ op.type = "RenameTable" /\ s[1] = "RENAME"
    BY <2>1, <2>2, <2>3 DEF Starters
  <2>12. IsRead(op, column, garbage)
    BY <2>3, <2>4, <2>7, <2>8, Zenon DEF IsRead
  <2> QED  BY <2>12 DEF op
<1>3. IsRead(Alter!Plain("EngineChange", "InnoDB"), column, garbage)
  <2> DEFINE op == Alter!Plain("EngineChange", "InnoDB")
  <2>1. op.type = "EngineChange" /\ op.name = "InnoDB"
    BY DEF Alter!Plain, Alter!Operation
  <2>2. PICK a \in Symbols \ Marks, b \in Symbols \ Marks, c \in Symbols \ Marks : a = "ENGINE" /\ b = "=" /\ c = "InnoDB"
    BY WordIs DEF Keywords, SqlWords
  <2>3. PICK s \in Seq(Symbols) : s = <<a, b, c>> /\ Len(s) = 3 /\ OnePart(s) /\ s[1] = a /\ s[2] = b /\ s[3] = c
    <3>1. PICK s : s = <<a, b, c>>
      OBVIOUS
    <3>2. IsThree(s, a, b, c)
      BY <3>1, ThreeIs
    <3> QED  BY <3>2 DEF IsThree
  <2>4. Alter!Written(op, column) = s
    <3> HIDE DEF op
    <3> QED  BY <2>1, <2>2, <2>3 DEF Alter!Written
  <2>5. Alter!ParseOperation(s, garbage) = Alter!ParseEngineChange(s, garbage)
    BY <2>2, <2>3 DEF Alter!ParseOperation
  <2>6. Alter!ParseEngineChange(s, garbage) = Alter!Untouched(op, garbage)
    BY <2>2, <2>3, Zenon DEF Alter!ParseEngineChange
  <2>7. ReadsAs(op, Alter!Untouched(op, garbage))
    BY UntouchedIs, Zenon DEF Alter!Plain
  <2> HIDE DEF op
  <2>8. ReadsAs(op, Alter!ParseOperation(s, garbage))
    BY <2>5, <2>6, <2>7
  <2>9. s[1] \in Starters /\ ~(op.type = "RenameTable") /\ ~(s[1] = "RENAME")
    BY <2>1, <2>2, <2>3 DEF Starters
  <2>12. IsRead(op, column, garbage)
    BY <2>3, <2>4, <2>8, <2>9, Zenon DEF IsRead
  <2> QED  BY <2>12 DEF op
<1> QED  BY <1>1, <1>2, <1>3

\* Some words and the columns of a key.
LEMMA WithColumns ==
    ASSUME NEW h, Unmarked(h)
    PROVE  LET s == h \o Alter!Columns IN
           /\ s \in Seq(Symbols) /\ OnePart(s) /\ Len(s) = Len(h) + 5 /\ s[Len(h) + 1] = "("
           /\ SymbolsOf(s) = SymbolsOf(h) \union SymbolsOf(Alter!Columns)
           /\ \A i \in 1..Len(h) : s[i] = h[i]
           /\ \A i \in 1..Len(s) : i \in 1..Len(h) \/ s[i] \notin Keywords
<1>1. h \in Seq(Symbols)
  BY DEF Unmarked
<1>2. PICK c \in Seq(Symbols) :
        /\ c = Alter!Columns /\ Len(c) = 5 /\ OnePart(c) /\ c[1] = "(" /\ SymbolsOf(c) \intersect Keywords = {}
  BY ColumnsIs, FixedSymbols
<1>3. PICK s \in Seq(Symbols) :
        /\ s = h \o c /\ Len(s) = Len(h) + Len(c) /\ SymbolsOf(s) = SymbolsOf(h) \union SymbolsOf(c)
        /\ \A i \in 1..Len(h) : s[i] = h[i]
        /\ \A i \in 1..Len(c) : s[Len(h) + i] = c[i]
  <2>1. PICK s \in Seq(Symbols) : s = h \o c
    BY <1>1, JoinSymbols
  <2> QED  BY <1>1, <2>1, JoinSymbols
<1>4. OnePart(s)
  BY <1>2, <1>3, UnmarkedBefore
<1>5. s[Len(h) + 1] = "("
  BY <1>2, <1>3
<1>6. ASSUME NEW i \in 1..Len(s), i \notin 1..Len(h) PROVE s[i] \notin Keywords
  <2>1. i - Len(h) \in 1..Len(c) /\ i = Len(h) + (i - Len(h))
    BY <1>1, <1>2, <1>3, <1>6
  <2>2. PICK j \in 1..Len(c) : i = Len(h) + j
    BY <2>1
  <2>3. s[i] = c[j]
    BY <1>3, <2>2
  <2> QED  BY <1>2, <2>2, <2>3 DEF SymbolsOf
<1> QED  BY <1>2, <1>3, <1>4, <1>5, <1>6

HasColumns(s, h) ==
    /\ s \in Seq(Symbols) /\ OnePart(s) /\ Len(s) = Len(h) + 5 /\ s[Len(h) + 1] = "("
    /\ SymbolsOf(s) = SymbolsOf(h) \union SymbolsOf(Alter!Columns)
    /\ \A i \in 1..Len(h) : s[i] = h[i]
    /\ \A i \in 1..Len(s) : i \in 1..Len(h) \/ s[i] \notin Keywords

LEMMA AddIndexIsRead ==
    ASSUME NEW name \in Names, NEW column, NEW garbage
    PROVE  IsRead(Alter!Plain("AddIndex", name), column, garbage)
<1> DEFINE op == Alter!Plain("AddIndex", name)
<1>1. op.type = "AddIndex" /\ op.name = name
  BY DEF Alter!Plain, Alter!Operation
<1>2. PICK a \in Symbols \ Marks, b \in Symbols \ Marks : a = "ADD" /\ b = "INDEX"
  BY WordIs DEF Keywords, SqlWords
<1>3. name \in Symbols \ Marks /\ name \notin Keywords
  BY NameIs
<1>4. PICK h : h = <<a, b, name>>
  OBVIOUS
<1>5. h \in Seq(Symbols) /\ Len(h) = 3 /\ SymbolsOf(h) = {a, b, name} /\ Unmarked(h) /\ h[1] = a /\ h[2] = b /\ h[3] = name
  <2>1. IsThree(h, a, b, name)
    BY <1>3, <1>4, ThreeIs
  <2> QED  BY <2>1 DEF IsThree
<1>6. PICK s : s = h \o Alter!Columns
  OBVIOUS
<1>7. HasColumns(s, h)
  BY <1>5, <1>6, WithColumns DEF HasColumns
<1>8. /\ s \in Seq(Symbols) /\ OnePart(s) /\ Len(s) = 8 /\ s[1] = a /\ s[2] = b /\ s[3] = name
      /\ SymbolsOf(s) = {a, b, name} \union SymbolsOf(Alter!Columns)
      /\ \A i \in 1..Len(s) : i \in {1, 2, 3} \/ s[i] \notin Keywords
  <2>1. 1 \in 1..3 /\ 2 \in 1..3 /\ 3 \in 1..3 /\ \A i \in 1..3 : i \in {1, 2, 3}
    OBVIOUS
  <2> QED  BY <1>5, <1>7, <2>1 DEF HasColumns
<1>9. Alter!Written(op, column) = s
  <2> HIDE DEF op
  <2> QED  BY <1>1, <1>2, <1>4, <1>6 DEF Alter!Written
<1>10. ~Alter!Starts(s, <<"ADD", "COLUMN">>)
  BY <1>2, <1>8, StartsPair
<1>11. "PRIMARY" \notin SymbolsOf(s) /\ "UNIQUE" \notin SymbolsOf(s)
  BY <1>2, <1>3, <1>8, FixedSymbols DEF Keywords
<1>12. Alter!Beside(s, <<"PRIMARY", "KEY">>) = {}
  BY <1>8, <1>11, NoPrimaryKey
<1>13. /\ Alter!Clear(op, column) => ~Alter!Contains(s, "UNIQUE")
       /\ Alter!Contains(s, "INDEX")
  <2>1. HoldsWord(b, "INDEX") /\ b \in SymbolsOf(s)
    BY <1>2, <1>8 DEF HoldsWord
  <2>2. \A x \in SymbolsOf(s) : x # name => x \notin Names
    <3>1. a \notin Names /\ b \notin Names
      BY <1>2, WordsHideNothing DEF Keywords
    <3> QED  BY <1>8, <3>1, WordsHideNothing
  <2>3. Alter!Clear(op, column) => "UNIQUE" \notin Hides[name]
    BY <1>1, ClearIs
  <2>4. Alter!Clear(op, column) => ~Within(s, "UNIQUE")
    BY <1>11, <2>2, <2>3, Zenon DEF Within, HoldsWord
  <2> QED  BY <2>1, <2>4, ContainsIs, Zenon DEF Within
<1>14. Alter!KeyName(s) = name
  <2>1. \A i \in 1..Len(s) : s[i] \in {"INDEX", "KEY"} => i = 2
    BY <1>2, <1>3, <1>8 DEF Keywords
  <2>2. 2 \in 1..Len(s) /\ 2 < Len(s) /\ s[2] \in {"INDEX", "KEY"} /\ s[2 + 1] = name /\ name # "("
    BY <1>2, <1>3, <1>8 DEF Marks
  <2>3. Alter!KeyName(s) = s[2 + 1]
    BY <1>8, <2>1, <2>2, KeyNameIs
  <2> QED  BY <2>2, <2>3
<1>15. Alter!Clear(op, column) => Alter!ParseOperation(s, garbage) = Alter!ParseIndex("AddIndex", s, garbage)
  <2>1. Alter!ParseOperation(s, garbage) = Alter!ParseAdd(s, garbage)
    BY <1>2, <1>8 DEF Alter!ParseOperation
  <2> HIDE DEF op
  <2> QED  BY <1>10, <1>12, <1>13, <2>1 DEF Alter!ParseAdd
<1>16. Alter!ParseIndex("AddIndex", s, garbage) = Alter!Untouched(op, garbage)
  BY <1>14, Zenon DEF Alter!ParseIndex
<1>17. ReadsAs(op, Alter!Untouched(op, garbage))
  BY UntouchedIs, Zenon DEF Alter!Plain
<1> HIDE DEF op
<1>18. Alter!Clear(op, column) => ReadsAs(op, Alter!ParseOperation(s, garbage))
  BY <1>15, <1>16, <1>17
<1>19. s[1] \in Starters /\ ~(op.type = "RenameTable") /\ ~(s[1] = "RENAME")
  BY <1>1, <1>2, <1>8 DEF Starters
<1>20. IsRead(op, column, garbage)
  BY <1>8, <1>9, <1>18, <1>19, Zenon DEF IsRead
<1> QED  BY <1>20 DEF op

\* Four words.
LEMMA FourIs ==
    ASSUME NEW a \in Symbols \ Marks, NEW b \in Symbols \ Marks, NEW c \in Symbols \ Marks, NEW d \in Symbols \ Marks
    PROVE  LET h == <<a, b, c, d>> IN
           /\ h \in Seq(Symbols) /\ Len(h) = 4 /\ SymbolsOf(h) = {a, b, c, d} /\ Unmarked(h)
           /\ h[1] = a /\ h[2] = b /\ h[3] = c /\ h[4] = d
<1>1. PICK h : h = <<a, b, c, d>>
  OBVIOUS
<1>2. h \in Seq(Symbols) /\ Len(h) = 4 /\ h[1] = a /\ h[2] = b /\ h[3] = c /\ h[4] = d
  BY <1>1
<1>3. SymbolsOf(h) = {a, b, c, d}
  <2>1. 1..4 = {1, 2, 3, 4}
    OBVIOUS
  <2> QED  BY <1>2, <2>1 DEF SymbolsOf
<1>4. Unmarked(h)
  BY <1>2, <1>3 DEF Unmarked
<1> QED  BY <1>1, <1>2, <1>3, <1>4

IsFour(h, a, b, c, d) ==
    /\ h \in Seq(Symbols) /\ Len(h) = 4 /\ SymbolsOf(h) = {a, b, c, d} /\ Unmarked(h)
    /\ h[1] = a /\ h[2] = b /\ h[3] = c /\ h[4] = d

LEMMA AddUniqueKeyIsRead ==
    ASSUME NEW name \in Names, NEW column, NEW garbage
    PROVE  IsRead(Alter!Plain("AddUniqueKey", name), column, garbage)
<1> DEFINE op == Alter!Plain("AddUniqueKey", name)
<1>1. op.type = "AddUniqueKey" /\ op.name = name
  BY DEF Alter!Plain, Alter!Operation
<1>2. PICK a \in Symbols \ Marks, b \in Symbols \ Marks, c \in Symbols \ Marks : a = "ADD" /\ b = "UNIQUE" /\ c = "KEY"
  BY WordIs DEF Keywords, SqlWords
<1>3. name \in Symbols \ Marks /\ name \notin Keywords
  BY NameIs
<1>4. PICK h : h = <<a, b, c, name>>
  OBVIOUS
<1>5. /\ h \in Seq(Symbols) /\ Len(h) = 4 /\ SymbolsOf(h) = {a, b, c, name} /\ Unmarked(h)
      /\ h[1] = a /\ h[2] = b /\ h[3] = c /\ h[4] = name
  <2>1. IsFour(h, a, b, c, name)
    BY <1>3, <1>4, FourIs DEF IsFour
  <2> QED  BY <2>1 DEF IsFour
<1>6. PICK s : s = h \o Alter!Columns
  OBVIOUS
<1>7. HasColumns(s, h)
  BY <1>5, <1>6, WithColumns DEF HasColumns
<1>8. /\ s \in Seq(Symbols) /\ OnePart(s) /\ Len(s) = 9 /\ s[1] = a /\ s[2] = b /\ s[3] = c /\ s[4] = name
      /\ SymbolsOf(s) = {a, b, c, name} \union SymbolsOf(Alter!Columns)
      /\ \A i \in 1..Len(s) : i \in {1, 2, 3, 4} \/ s[i] \notin Keywords
  <2>1. 1 \in 1..4 /\ 2 \in 1..4 /\ 3 \in 1..4 /\ 4 \in 1..4 /\ \A i \in 1..4 : i \in {1, 2, 3, 4}
    OBVIOUS
  <2> QED  BY <1>5, <1>7, <2>1 DEF HasColumns
<1>9. Alter!Written(op, column) = s
  <2> HIDE DEF op
  <2> QED  BY <1>1, <1>2, <1>4, <1>6 DEF Alter!Written
<1>10. ~Alter!Starts(s, <<"ADD", "COLUMN">>)
  BY <1>2, <1>8, StartsPair
<1>11. "PRIMARY" \notin SymbolsOf(s)
  BY <1>2, <1>3, <1>8, FixedSymbols DEF Keywords
<1>12. Alter!Beside(s, <<"PRIMARY", "KEY">>) = {}
  BY <1>8, <1>11, NoPrimaryKey
<1>13. Alter!Contains(s, "UNIQUE")
  <2>1. HoldsWord(b, "UNIQUE") /\ b \in SymbolsOf(s)
    BY <1>2, <1>8 DEF HoldsWord
  <2> QED  BY <2>1, ContainsIs, Zenon DEF Within
<1>14. Alter!KeyName(s) = name
  <2>1. \A i \in 1..Len(s) : s[i] \in {"INDEX", "KEY"} => i = 3
    BY <1>2, <1>3, <1>8 DEF Keywords
  <2>2. 3 \in 1..Len(s) /\ 3 < Len(s) /\ s[3] \in {"INDEX", "KEY"} /\ s[3 + 1] = name /\ name # "("
    BY <1>2, <1>3, <1>8 DEF Marks
  <2>3. Alter!KeyName(s) = s[3 + 1]
    BY <1>8, <2>1, <2>2, KeyNameIs
  <2> QED  BY <2>2, <2>3
<1>15. Alter!ParseOperation(s, garbage) = Alter!ParseIndex("AddUniqueKey", s, garbage)
  <2>1. Alter!ParseOperation(s, garbage) = Alter!ParseAdd(s, garbage)
    BY <1>2, <1>8 DEF Alter!ParseOperation
  <2> QED  BY <1>10, <1>12, <1>13, <2>1 DEF Alter!ParseAdd
<1>16. Alter!ParseIndex("AddUniqueKey", s, garbage) = Alter!Untouched(op, garbage)
  BY <1>14, Zenon DEF Alter!ParseIndex
<1>17. ReadsAs(op, Alter!Untouched(op, garbage))
  BY UntouchedIs, Zenon DEF Alter!Plain
<1> HIDE DEF op
<1>18. ReadsAs(op, Alter!ParseOperation(s, garbage))
  BY <1>15, <1>16, <1>17
<1>19. s[1] \in Starters /\ ~(op.type = "RenameTable") /\ ~(s[1] = "RENAME")
  BY <1>1, <1>2, <1>8 DEF Starters
<1>20. IsRead(op, column, garbage)
  BY <1>8, <1>9, <1>18, <1>19, Zenon DEF IsRead
<1> QED  BY <1>20 DEF op

LEMMA AddPrimaryKeyIsRead ==
    ASSUME NEW column, NEW garbage
    PROVE  IsRead(Alter!Plain("AddPrimaryKey", ""), column, garbage)
<1> DEFINE op == Alter!Plain("AddPrimaryKey", "")
<1>1. op.type = "AddPrimaryKey"
  BY DEF Alter!Plain, Alter!Operation
<1>2. PICK a \in Symbols \ Marks, b \in Symbols \ Marks, c \in Symbols \ Marks : a = "ADD" /\ b = "PRIMARY" /\ c = "KEY"
  BY WordIs DEF Keywords, SqlWords
<1>3. PICK h : h = <<a, b, c>>
  OBVIOUS
<1>4. h \in Seq(Symbols) /\ Len(h) = 3 /\ SymbolsOf(h) = {a, b, c} /\ Unmarked(h) /\ h[1] = a /\ h[2] = b /\ h[3] = c
  <2>1. IsThree(h, a, b, c)
    BY <1>3, ThreeIs
  <2> QED  BY <2>1 DEF IsThree
<1>5. PICK s : s = h \o Alter!Columns
  OBVIOUS
<1>6. HasColumns(s, h)
  BY <1>4, <1>5, WithColumns DEF HasColumns
<1>7. s \in Seq(Symbols) /\ OnePart(s) /\ Len(s) = 8 /\ s[1] = a /\ s[2] = b /\ s[3] = c
  <2>1. 1 \in 1..3 /\ 2 \in 1..3 /\ 3 \in 1..3
    OBVIOUS
  <2> QED  BY <1>4, <1>6, <2>1 DEF HasColumns
<1>8. Alter!Written(op, column) = s
  <2> HIDE DEF op
  <2> QED  BY <1>1, <1>2, <1>3, <1>5 DEF Alter!Written
<1>9. ~Alter!Starts(s, <<"ADD", "COLUMN">>)
  BY <1>2, <1>7, StartsPair
<1>10. Alter!Beside(s, <<"PRIMARY", "KEY">>) # {}
  BY <1>2, <1>7, HasPrimaryKey
<1>11. Alter!ParseOperation(s, garbage) = Alter!ParsePrimaryKey("AddPrimaryKey", garbage)
  <2>1. Alter!ParseOperation(s, garbage) = Alter!ParseAdd(s, garbage)
    BY <1>2, <1>7 DEF Alter!ParseOperation
  <2> QED  BY <1>9, <1>10, <2>1 DEF Alter!ParseAdd
<1>12. Alter!ParsePrimaryKey("AddPrimaryKey", garbage) = Alter!Untouched(op, garbage)
  BY Zenon DEF Alter!ParsePrimaryKey
<1>13. ReadsAs(op, Alter!Untouched(op, garbage))
  BY UntouchedIs, Zenon DEF Alter!Plain
<1> HIDE DEF op
<1>14. ReadsAs(op, Alter!ParseOperation(s, garbage))
  BY <1>11, <1>12, <1>13
<1>15. s[1] \in Starters /\ ~(op.type = "RenameTable") /\ ~(s[1] = "RENAME")
  BY <1>1, <1>2, <1>7 DEF Starters
<1>16. IsRead(op, column, garbage)
  BY <1>7, <1>8, <1>14, <1>15, Zenon DEF IsRead
<1> QED  BY <1>16 DEF op

\* Of a column that is added or modified, what is written is the keyword and
\* the definition.
LEMMA PositionIs ==
    ASSUME NEW op, IsColumn(op)
    PROVE  Alter!Position(op) \in Seq(Symbols)
<1>1. <<"FIRST">> \in Seq(Symbols)
  <2>1. "FIRST" \in Symbols
    BY WordIs DEF Keywords
  <2> QED  BY <2>1
<1>2. op.after # "" => <<"AFTER", op.after>> \in Seq(Symbols)
  <2>1. "AFTER" \in Symbols
    BY WordIs DEF Keywords
  <2>2. op.after # "" => op.after \in Symbols
    BY NameIs, Zenon DEF IsColumn
  <2>3. \A a \in Symbols, b \in Symbols : <<a, b>> \in Seq(Symbols)
    OBVIOUS
  <2> QED  BY <2>1, <2>2, <2>3, Zenon
<1>3. <<>> \in Seq(Symbols)
  OBVIOUS
<1> QED  BY <1>1, <1>2, <1>3, Zenon DEF Alter!Position

LEMMA SaysDefinition ==
    ASSUME NEW op, IsColumn(op), NEW word \in SqlWords, NEW column \in {<<>>, <<"COLUMN">>}
    PROVE  <<word>> \o column \o <<op.name>> \o Alter!Type \o Alter!Position(op)
             = Saying(word, column, DefinitionOf(op))
<1>1. PICK h \in Seq(Symbols), n \in Seq(Symbols), t \in Seq(Symbols), p \in Seq(Symbols) :
        h = <<word>> \o column /\ n = <<op.name>> /\ t = Alter!Type /\ p = Alter!Position(op)
  <2>1. <<op.name>> \in Seq(Symbols)
    <3>1. op.name \in Symbols
      BY NameIs, Zenon DEF IsColumn
    <3> QED  BY <3>1
  <2> QED  BY <2>1, HeadIs, TypeIs, PositionIs
<1>2. n \o t \in Seq(Symbols)
  BY JoinSymbols
<1>3. PICK nt \in Seq(Symbols) : nt = n \o t
  BY <1>2
<1>4. (h \o n) \o t = h \o (n \o t)
  BY ONLY h \in Seq(Symbols), n \in Seq(Symbols), t \in Seq(Symbols), ConcatAssociative, SMTT(20)
<1>5. (h \o nt) \o p = h \o (nt \o p)
  BY ONLY h \in Seq(Symbols), nt \in Seq(Symbols), p \in Seq(Symbols), ConcatAssociative, SMTT(20)
<1>6. ((h \o n) \o t) \o p = h \o ((n \o t) \o p)
  BY <1>3, <1>4, <1>5, Zenon
<1> QED  BY <1>1, <1>6, Zenon DEF Saying, DefinitionOf

LEMMA ColumnReads ==
    ASSUME NEW op, op.old_name = "", NEW garbage, ReadsColumn(op, op.type, garbage)
    PROVE  ReadsAs(op, Alter!ParseColumnDefinition(op.type, DefinitionOf(op), garbage))
BY Zenon DEF ReadsColumn, ReadsAs

LEMMA ModifyIsRead ==
    ASSUME NEW op, IsColumn(op), op.type = "ModifyColumn", op.old_name = "",
           NEW column \in {<<>>, <<"COLUMN">>}, NEW garbage
    PROVE  IsRead(op, column, garbage)
<1>1. PICK word \in SqlWords : word = "MODIFY"
  BY DEF SqlWords
<1>2. PICK body \in Seq(Symbols) : body = DefinitionOf(op) /\ OnePart(body) /\ body[1] = op.name
  BY DefinitionIs
<1>3. PICK s : s = Saying(word, column, body) /\ SayingHas(s, word, column, body)
  BY <1>2, SayingIs
<1>4. Alter!Written(op, column) = s
  <2>1. Alter!Written(op, column) = <<word>> \o column \o <<op.name>> \o Alter!Type \o Alter!Position(op)
    BY <1>1 DEF Alter!Written
  <2> QED  BY <1>2, <1>3, <2>1, SaysDefinition
<1>5. s \in Seq(Symbols) /\ OnePart(s) /\ s[1] = "MODIFY" /\ Len(s) >= 2
  BY <1>1, <1>3 DEF SayingHas
<1>6. column # <<>> => s[2] = "COLUMN" /\ Alter!Drop(s, 2) = body
  BY <1>3 DEF SayingHas
<1>7. column = <<>> => s[2] # "COLUMN" /\ Alter!Drop(s, 1) = body
  <2>1. column = <<>> => s[2] = body[1] /\ Alter!Drop(s, 1) = body
    BY <1>3 DEF SayingHas
  <2>2. op.name # "COLUMN"
    BY NameIs DEF IsColumn, Keywords
  <2> QED  BY <1>2, <2>1, <2>2
<1>8. Alter!ParseOperation(s, garbage) = Alter!ParseModifyColumn(body, garbage)
  <2>1. Len(s) > 1
    BY ONLY <1>5
  <2>2. CASE column = <<>>
    BY <1>5, <1>7, <2>2, Zenon DEF Alter!ParseOperation
  <2>3. CASE column # <<>>
    BY <1>5, <1>6, <2>1, <2>3, Zenon DEF Alter!ParseOperation
  <2> QED  BY <2>2, <2>3
<1>9. ASSUME Alter!Clear(op, column) PROVE ReadsAs(op, Alter!ParseModifyColumn(body, garbage))
  <2>1. ReadsColumn(op, op.type, garbage)
    BY <1>9, ClearIsPlain, DefinitionIs
  <2> QED  BY <1>2, <2>1, ColumnReads DEF Alter!ParseModifyColumn
<1>10. s[1] \in Starters /\ ~(op.type = "RenameTable") /\ ~(s[1] = "RENAME")
  BY <1>5 DEF Starters
<1> QED  BY <1>4, <1>5, <1>8, <1>9, <1>10, Zenon DEF IsRead

LEMMA AddIsRead ==
    ASSUME NEW op, IsColumn(op), op.type = "AddColumn", op.old_name = "",
           NEW column \in {<<>>, <<"COLUMN">>}, NEW garbage
    PROVE  IsRead(op, column, garbage)
<1>1. PICK word \in SqlWords : word = "ADD"
  BY DEF SqlWords
<1>2. PICK body \in Seq(Symbols) :
        /\ body = DefinitionOf(op) /\ OnePart(body) /\ body[1] = op.name
        /\ SymbolsOf(body) \subseteq {op.name, op.after, "FIRST", "AFTER"} \union SymbolsOf(Alter!Type)
        /\ op.after = "" => SymbolsOf(body) \subseteq {op.name, "FIRST"} \union SymbolsOf(Alter!Type)
  BY DefinitionIs
<1>3. PICK s : s = Saying(word, column, body) /\ SayingHas(s, word, column, body)
  BY <1>2, SayingIs
<1>4. Alter!Written(op, column) = s
  <2>1. Alter!Written(op, column) = <<word>> \o column \o <<op.name>> \o Alter!Type \o Alter!Position(op)
    BY <1>1 DEF Alter!Written
  <2> QED  BY <1>2, <1>3, <2>1, SaysDefinition
<1>5. s \in Seq(Symbols) /\ OnePart(s) /\ s[1] = "ADD" /\ Len(s) >= 2
  BY <1>1, <1>3 DEF SayingHas
<1>6. op.name \notin Keywords /\ op.after \notin Keywords
  <2>1. op.name \in Names /\ op.after \in Names \union {""}
    BY Zenon DEF IsColumn
  <2>2. "" \notin Keywords
    BY DEF Keywords
  <2> QED  BY <2>1, <2>2, NameIs
<1>7. ASSUME column # <<>> PROVE Alter!ParseAdd(s, garbage) = Alter!ParseAddColumn(body, garbage)
  <2>1. s[2] = "COLUMN" /\ Alter!Drop(s, 2) = body
    BY <1>3, <1>7 DEF SayingHas
  <2>2. Alter!Starts(s, <<"ADD", "COLUMN">>)
    BY <1>5, <2>1, StartsPair
  <2>3. Alter!Without(s, <<"ADD", "COLUMN">>) = body
    BY <1>5, <2>1, WithoutPair
  <2> QED  BY <2>2, <2>3 DEF Alter!ParseAdd
<1>8. ASSUME column = <<>>, Alter!Clear(op, column)
      PROVE  Alter!ParseAdd(s, garbage) = Alter!ParseAddColumn(body, garbage)
  <2>1. s[2] = op.name /\ Tail(s) = body /\ SymbolsOf(s) = {"ADD"} \union SymbolsOf(body)
    BY <1>1, <1>2, <1>3, <1>8 DEF SayingHas
  <2>2. ~Alter!Starts(s, <<"ADD", "COLUMN">>)
    <3>1. s[2] # "COLUMN"
      BY <1>6, <2>1 DEF Keywords
    <3> QED  BY <1>5, <3>1, StartsPair
  <2>3. ASSUME NEW w \in {"PRIMARY", "UNIQUE", "KEY", "INDEX"} PROVE w \notin SymbolsOf(s)
    <3>1. w \notin {op.name, op.after, "FIRST", "AFTER", "ADD"}
      BY <1>6 DEF Keywords
    <3>2. w \notin SymbolsOf(Alter!Type)
      BY FixedSymbols DEF Keywords
    <3> QED  BY <1>2, <2>1, <3>1, <3>2
  <2>4. Alter!Beside(s, <<"PRIMARY", "KEY">>) = {}
    BY <1>5, <2>3, NoPrimaryKey
  <2>5. ~Alter!Contains(s, "UNIQUE") /\ ~Alter!Contains(s, "KEY") /\ ~Alter!Contains(s, "INDEX")
    <3>1. \A x \in SymbolsOf(s) \intersect Names : x \in {op.name, op.after}
      BY <1>2, <2>1, WordsHideNothing DEF Keywords
    <3>2. \A x \in SymbolsOf(s) \intersect Names : Hides[x] \intersect {"UNIQUE", "INDEX", "KEY"} = {}
      BY <1>8, <3>1, ClearIs
    <3>3. ASSUME NEW w \in {"UNIQUE", "INDEX", "KEY"} PROVE ~Within(s, w)
      <4>1. \A x \in SymbolsOf(s) : x \in Names => w \notin Hides[x]
        BY <3>2, <3>3
      <4> QED  BY <2>3, <4>1 DEF Within, HoldsWord
    <3> QED  BY <3>3, ContainsIs
  <2> QED  BY <2>1, <2>2, <2>4, <2>5 DEF Alter!ParseAdd
<1>9. Alter!ParseOperation(s, garbage) = Alter!ParseAdd(s, garbage)
  BY <1>5 DEF Alter!ParseOperation
<1>10. ASSUME Alter!Clear(op, column) PROVE ReadsAs(op, Alter!ParseAddColumn(body, garbage))
  <2>1. ReadsColumn(op, op.type, garbage)
    BY <1>10, ClearIsPlain, DefinitionIs
  <2> QED  BY <1>2, <2>1, ColumnReads DEF Alter!ParseAddColumn
<1>11. Alter!Clear(op, column) => ReadsAs(op, Alter!ParseOperation(s, garbage))
  BY <1>7, <1>8, <1>9, <1>10
<1>12. s[1] \in Starters /\ ~(op.type = "RenameTable") /\ ~(s[1] = "RENAME")
  BY <1>5 DEF Starters
<1> QED  BY <1>4, <1>5, <1>11, <1>12, Zenon DEF IsRead

IsAsked(op) ==
    \E type, name, old, after, first : op = Alter!Operation(type, name, old, after, first)

IsAny(op, types, names, olds, afters, firsts) ==
    \E type \in types, name \in names, old \in olds, after \in afters, first \in firsts :
        op = Alter!Operation(type, name, old, after, first)

LEMMA AnyIs ==
    ASSUME NEW types, NEW names, NEW olds, NEW afters, NEW firsts,
           NEW op \in Alter!Any(types, names, olds, afters, firsts)
    PROVE  IsAny(op, types, names, olds, afters, firsts)
BY DEF Alter!Any, IsAny

LEMMA AskedSplits ==
    ASSUME NEW op \in Alter!Asked
    PROVE  \/ IsAny(op, {"DropColumn", "AddIndex", "AddUniqueKey", "DropIndex"}, Names, {""}, {""}, {FALSE})
           \/ IsAny(op, {"AddPrimaryKey", "DropPrimaryKey", "RenameTable"}, {""}, {""}, {""}, {FALSE})
           \/ IsAny(op, {"EngineChange"}, {"InnoDB"}, {""}, {""}, {FALSE})
           \/ IsAny(op, {"ChangeColumn"}, Names, Names, {""}, {FALSE})
           \/ IsAny(op, {"AddColumn", "ModifyColumn"}, Names, {""}, Names \union {""}, {FALSE})
           \/ IsAny(op, {"AddColumn"}, Names, {""}, {""}, {TRUE})
<1>1. \A types, names, olds, afters, firsts :
        op \in Alter!Any(types, names, olds, afters, firsts) => IsAny(op, types, names, olds, afters, firsts)
  BY AnyIs
<1> QED  BY <1>1, Zenon DEF Alter!Asked, Alter!None

LEMMA AskedIs == ASSUME NEW op \in Alter!Asked PROVE IsAsked(op)
<1>1. \A types, names, olds, afters, firsts : IsAny(op, types, names, olds, afters, firsts) => IsAsked(op)
  BY Zenon DEF IsAny, IsAsked
<1> QED  BY <1>1, AskedSplits, Zenon

LEMMA ColumnIs ==
    ASSUME NEW type, NEW name \in Names, NEW after \in Names \union {""}, NEW first \in BOOLEAN, first => after = ""
    PROVE  LET op == Alter!Operation(type, name, "", after, first) IN
           IsColumn(op) /\ op.type = type /\ op.old_name = ""
<1>1. PICK op : op = Alter!Operation(type, name, "", after, first)
  OBVIOUS
<1>2. op.type = type /\ op.name = name /\ op.old_name = "" /\ op.after = after /\ op.first = first
  BY <1>1 DEF Alter!Operation
<1>3. IsColumn(op)
  BY <1>2, Zenon DEF IsColumn
<1> QED  BY <1>1, <1>2, <1>3

LEMMA AskedIsRead ==
    ASSUME NEW op \in Alter!Asked, NEW column \in {<<>>, <<"COLUMN">>}, NEW garbage
    PROVE  IsRead(op, column, garbage)
<1>1. ASSUME NEW type \in {"DropColumn", "AddIndex", "AddUniqueKey", "DropIndex"}, NEW name \in Names,
             op = Alter!Operation(type, name, "", "", FALSE)
      PROVE  IsRead(op, column, garbage)
  <2>1. op = Alter!Plain(type, name)
    BY <1>1, Zenon DEF Alter!Plain
  <2> QED  BY <2>1, DropIsRead, AddIndexIsRead, AddUniqueKeyIsRead, DropIndexIsRead, Zenon
<1>2. ASSUME NEW type \in {"AddPrimaryKey", "DropPrimaryKey", "RenameTable"},
             op = Alter!Operation(type, "", "", "", FALSE)
      PROVE  IsRead(op, column, garbage)
  <2>1. op = Alter!Plain(type, "")
    BY <1>2, Zenon DEF Alter!Plain
  <2> QED  BY <2>1, AddPrimaryKeyIsRead, OthersAreRead, Zenon
<1>3. ASSUME op = Alter!Operation("EngineChange", "InnoDB", "", "", FALSE) PROVE IsRead(op, column, garbage)
  <2>1. op = Alter!Plain("EngineChange", "InnoDB")
    BY <1>3, Zenon DEF Alter!Plain
  <2> QED  BY <2>1, OthersAreRead, Zenon
<1>4. ASSUME NEW new \in Names, NEW old \in Names, op = Alter!Operation("ChangeColumn", new, old, "", FALSE)
      PROVE  IsRead(op, column, garbage)
  BY <1>4, ChangeIsRead, Zenon
<1>5. ASSUME NEW type \in {"AddColumn", "ModifyColumn"}, NEW name \in Names, NEW after \in Names \union {""},
             NEW first \in BOOLEAN, first => after = "", op = Alter!Operation(type, name, "", after, first)
      PROVE  IsRead(op, column, garbage)
  <2>1. IsColumn(op) /\ op.type = type /\ op.old_name = ""
    BY <1>5, ColumnIs, ZenonT(40)
  <2> QED  BY <2>1, AddIsRead, ModifyIsRead, Zenon
<1>6. IsAny(op, {"DropColumn", "AddIndex", "AddUniqueKey", "DropIndex"}, Names, {""}, {""}, {FALSE})
        => IsRead(op, column, garbage)
  BY <1>1, Zenon DEF IsAny
<1>7. IsAny(op, {"AddPrimaryKey", "DropPrimaryKey", "RenameTable"}, {""}, {""}, {""}, {FALSE})
        => IsRead(op, column, garbage)
  BY <1>2, Zenon DEF IsAny
<1>8. IsAny(op, {"EngineChange"}, {"InnoDB"}, {""}, {""}, {FALSE}) => IsRead(op, column, garbage)
  BY <1>3, Zenon DEF IsAny
<1>9. IsAny(op, {"ChangeColumn"}, Names, Names, {""}, {FALSE}) => IsRead(op, column, garbage)
  BY <1>4, Zenon DEF IsAny
<1>10. IsAny(op, {"AddColumn", "ModifyColumn"}, Names, {""}, Names \union {""}, {FALSE})
         => IsRead(op, column, garbage)
  <2>1. ASSUME NEW type \in {"AddColumn", "ModifyColumn"}, NEW name \in Names, NEW after \in Names \union {""},
               op = Alter!Operation(type, name, "", after, FALSE)
        PROVE  IsRead(op, column, garbage)
    BY <1>5, <2>1, Zenon
  <2> QED  BY <2>1, Zenon DEF IsAny
<1>11. IsAny(op, {"AddColumn"}, Names, {""}, {""}, {TRUE}) => IsRead(op, column, garbage)
  <2>1. ASSUME NEW name \in Names, op = Alter!Operation("AddColumn", name, "", "", TRUE)
        PROVE  IsRead(op, column, garbage)
    BY <1>5, <2>1, Zenon
  <2> QED  BY <2>1, Zenon DEF IsAny
<1> QED  BY <1>6, <1>7, <1>8, <1>9, <1>10, <1>11, AskedSplits, Zenon

Same(r, op) == [r EXCEPT !.first = FALSE] = [op EXCEPT !.first = FALSE]

LEMMA ReadsSame ==
    ASSUME NEW op, IsAsked(op), NEW r, ReadsAs(op, r)
    PROVE  Same(r, op) /\ (op.first => r.first)
<1>1. PICK no : no = FALSE
  OBVIOUS
<1>2. PICK type, name, old, after, first : op = Alter!Operation(type, name, old, after, first)
  BY Zenon DEF IsAsked
<1>3. op.type = type /\ op.name = name /\ op.old_name = old /\ op.after = after /\ op.first = first
  BY <1>2 DEF Alter!Operation
<1>4. PICK second : /\ r = Alter!Operation(op.type, op.name, op.old_name, op.after, second)
                    /\ op.first => second
  BY Zenon DEF ReadsAs
<1>5. r = Alter!Operation(type, name, old, after, second) /\ r.first = second
  BY <1>3, <1>4 DEF Alter!Operation
<1>6. Alter!Untouched(r, no) = Alter!Untouched(op, no)
  BY <1>2, <1>5, ExceptIs
<1>7. Same(r, op)
  BY <1>1, <1>6 DEF Same, Alter!Untouched
<1> QED  BY <1>4, <1>5, <1>7, Zenon

-----------------------------------------------------------------------------
(* A statement: its table, and its operations.                             *)

LEMMA OperationsAreRead ==
    ASSUME NEW ops \in Seq(Alter!Asked), ops # <<>>, NEW column \in {<<>>, <<"COLUMN">>}, NEW garbage
    PROVE  LET s == Alter!Listed(ops, column) IN
           /\ s \in Seq(Symbols) /\ Len(s) > 0 /\ s[1] # "."
           /\ Alter!Operations(s, garbage)
                = [i \in 1..Len(ops) |-> Alter!ParseOperation(Alter!Written(ops[i], column), garbage)]
<1>1. PICK n \in Nat : n = Len(ops) /\ n > 0
  OBVIOUS
<1>2. ASSUME NEW i \in 1..n PROVE IsRead(ops[i], column, garbage)
  <2>1. ops[i] \in Alter!Asked
    BY <1>1
  <2> QED  BY <2>1, AskedIsRead
<1>3. AreParts(ops, column)
  <2>1. \A i \in 1..n : OnePart(Alter!Written(ops[i], column))
    BY <1>2, Zenon DEF IsRead
  <2> QED  BY <1>1, <2>1, Zenon DEF AreParts
<1>4. PICK s : s = Alter!Listed(ops, column)
  OBVIOUS
<1>5. /\ s \in Seq(Symbols) /\ Len(s) > 0 /\ s[1] = Alter!Written(ops[1], column)[1]
      /\ Alter!SplitOperations(s) = [i \in 1..n |-> Alter!Written(ops[i], column)]
  BY <1>1, <1>3, <1>4, ListSplits
<1>6. s[1] # "."
  <2>1. Alter!Written(ops[1], column)[1] \in Starters
    <3>1. 1 \in 1..n
      BY <1>1
    <3> QED  BY <1>2, <3>1, Zenon DEF IsRead
  <2> QED  BY <1>5, <2>1 DEF Starters
<1>7. Alter!Operations(s, garbage) = [i \in 1..n |-> Alter!ParseOperation(Alter!Written(ops[i], column), garbage)]
  <2>1. PICK parts : parts = [i \in 1..n |-> Alter!Written(ops[i], column)]
    OBVIOUS
  <2>2. Alter!SplitOperations(s) = parts /\ Len(parts) = n
    BY <1>5, <2>1
  <2>3. \A i \in 1..n : parts[i] = Alter!Written(ops[i], column)
    BY <2>1
  <2>4. Alter!Operations(s, garbage) = [i \in 1..Len(parts) |-> Alter!ParseOperation(parts[i], garbage)]
    BY <2>2 DEF Alter!Operations
  <2> QED  BY <2>2, <2>3, <2>4
<1> QED  BY <1>1, <1>4, <1>5, <1>6, <1>7

LEMMA StartsWithout ==
    ASSUME NEW h \in Seq(Symbols), NEW t \in Seq(Symbols), NEW a, NEW b, Len(h) = 2, h[1] = a, h[2] = b
    PROVE  Alter!Without(h \o t, <<a, b>>) = t
<1>1. PICK s \in Seq(Symbols) : s = h \o t
  BY JoinSymbols
<1>2. Len(s) = Len(h) + Len(t) /\ (\A i \in 1..Len(h) : s[i] = h[i]) /\ Alter!Drop(s, Len(h)) = t
  BY <1>1, JoinSymbols, ZenonT(40)
<1>3. Len(s) >= 2 /\ s[1] = a /\ s[2] = b
  BY <1>2
<1>4. Alter!Without(s, <<a, b>>) = Alter!Drop(s, 2)
  BY <1>3, WithoutPair
<1> QED  BY <1>1, <1>2, <1>4

IsNamed(database) == database # ""
IsDatabase(database) == database \in Databases \union {""}

\* A statement is read as its database, if it names one, its table and its list.
StatementReads(database, table, ops, column, garbage) ==
    Alter!Parsed(Alter!Statement(database, table, ops, column), garbage)
      = [database   |-> IF database = "" THEN alter_statement.database ELSE database,
         table_name |-> table,
         operations |-> [i \in 1..Len(ops) |->
                           Alter!ParseOperation(Alter!Written(ops[i], column), garbage)]]

LEMMA StatementIsRead ==
    ASSUME NEW ops \in Seq(Alter!Asked), ops # <<>>, NEW column \in {<<>>, <<"COLUMN">>}, NEW garbage,
           NEW database, IsDatabase(database), NEW table \in Tables
    PROVE  StatementReads(database, table, ops, column, garbage)
<1> SUFFICES Alter!Parsed(Alter!Statement(database, table, ops, column), garbage)
               = [database   |-> IF database = "" THEN alter_statement.database ELSE database,
                  table_name |-> table,
                  operations |-> [i \in 1..Len(ops) |->
                                    Alter!ParseOperation(Alter!Written(ops[i], column), garbage)]]
  BY Zenon DEF StatementReads
<1>1. PICK list \in Seq(Symbols) :
        /\ list = Alter!Listed(ops, column) /\ Len(list) > 0 /\ list[1] # "."
        /\ Alter!Operations(list, garbage)
             = [i \in 1..Len(ops) |-> Alter!ParseOperation(Alter!Written(ops[i], column), garbage)]
  BY OperationsAreRead
<1>2. PICK a \in Symbols, b \in Symbols, dot \in Symbols : a = "ALTER" /\ b = "TABLE" /\ dot = "."
  BY WordIs DEF SqlWords
<1>3. table \in Symbols
  <2>1. table \in STRING
    BY StatementsAssumption, Zenon
  <2> QED  BY <2>1 DEF Symbols
<1>4. PICK alter \in Seq(Symbols) : alter = <<a, b>> /\ Len(alter) = 2 /\ alter[1] = a /\ alter[2] = b
  <2>1. <<a, b>> \in Seq(Symbols)
    BY Texts
  <2> QED  BY <2>1
<1>5. PICK name \in Seq(Symbols) : name = <<table>> /\ Len(name) = 1 /\ name[1] = table
  <2>1. <<table>> \in Seq(Symbols)
    BY <1>3, Texts
  <2> QED  BY <2>1
<1>6. PICK rest \in Seq(Symbols) :
        /\ rest = name \o list /\ Len(rest) = 1 + Len(list) /\ rest[1] = table /\ rest[2] = list[1]
        /\ Alter!Drop(rest, 1) = list
  <2>1. PICK rest \in Seq(Symbols) : rest = name \o list
    BY JoinSymbols
  <2>2. /\ Len(rest) = Len(name) + Len(list) /\ (\A i \in 1..Len(name) : rest[i] = name[i])
        /\ (\A i \in 1..Len(list) : rest[Len(name) + i] = list[i])
        /\ Alter!Drop(rest, Len(name)) = list
    BY <2>1, JoinSymbols
  <2>3. 1 \in 1..1 /\ 1 \in 1..Len(list) /\ 1 + 1 = 2
    BY <1>1
  <2> QED  BY <1>5, <2>1, <2>2, <2>3
<1>7. PICK s : s = Alter!Statement(database, table, ops, column)
  OBVIOUS
<1>8. CASE ~IsNamed(database)
  <2>1. s = alter \o rest
    <3>1. s = ((alter \o <<>>) \o name) \o list
      BY <1>1, <1>2, <1>4, <1>5, <1>7, <1>8, Zenon DEF Alter!Statement, IsNamed
    <3>2. alter \o <<>> = alter
      BY ConcatEmptySeq
    <3>3. (alter \o name) \o list = alter \o (name \o list)
      BY Associative, Zenon
    <3> QED  BY <1>6, <3>1, <3>2, <3>3, Zenon
  <2>2. Alter!Without(s, <<"ALTER", "TABLE">>) = rest
    <3>1. Alter!Without(alter \o rest, <<a, b>>) = rest
      BY <1>4, StartsWithout
    <3> QED  BY <1>2, <2>1, <3>1, Zenon
  <2>3. ~(Len(rest) > 2 /\ rest[2] = ".")
    BY <1>1, <1>6
  <2>4. Alter!Parsed(s, garbage) = [database |-> alter_statement.database, table_name |-> rest[1],
                                     operations |-> Alter!Operations(Alter!Drop(rest, 1), garbage)]
    BY <2>2, <2>3, Zenon DEF Alter!Parsed
  <2> QED  BY <1>1, <1>6, <1>7, <1>8, <2>4, Zenon DEF IsNamed
<1>9. CASE IsNamed(database)
  <2>0. database \in Symbols
    <3>1. database \in STRING
      BY <1>9, StatementsAssumption, Zenon DEF IsDatabase, IsNamed
    <3> QED  BY <3>1 DEF Symbols
  <2>1. PICK q \in Seq(Symbols) : q = <<database, dot>> /\ Len(q) = 2 /\ q[1] = database /\ q[2] = dot
    <3>1. <<database, dot>> \in Seq(Symbols)
      BY <2>0
    <3> QED  BY <3>1
  <2>2. PICK t \in Seq(Symbols) :
          /\ t = q \o rest /\ Len(t) = 3 + Len(list) /\ t[1] = database /\ t[2] = "." /\ t[3] = table
          /\ Alter!Drop(t, 3) = list
    <3>1. PICK t \in Seq(Symbols) : t = q \o rest
      BY JoinSymbols
    <3>2. /\ Len(t) = Len(q) + Len(rest) /\ (\A i \in 1..Len(q) : t[i] = q[i])
          /\ (\A i \in 1..Len(rest) : t[Len(q) + i] = rest[i])
      BY <3>1, JoinSymbols
    <3>3. 1 \in 1..2 /\ 2 \in 1..2 /\ 1 \in 1..Len(rest) /\ 2 + 1 = 3
      BY <1>1, <1>6
    <3>4. Len(t) = 3 + Len(list) /\ t[1] = database /\ t[2] = "." /\ t[3] = table
      BY <1>2, <1>6, <2>1, <3>2, <3>3
    <3>5. Alter!Drop(t, 3) = list
      <4>1. PICK qn \in Seq(Symbols) : qn = q \o name /\ Len(qn) = 3
        <5>1. q \o name \in Seq(Symbols) /\ Len(q \o name) = Len(q) + Len(name)
          BY JoinSymbols
        <5>2. Len(q \o name) = 3
          BY <1>5, <2>1, <5>1
        <5> QED  BY <5>1, <5>2, Zenon
      <4>2. (q \o name) \o list = q \o (name \o list)
        BY ONLY q \in Seq(Symbols), name \in Seq(Symbols), list \in Seq(Symbols), Associative, ZenonT(40)
      <4>3. t = qn \o list
        BY <1>6, <3>1, <4>1, <4>2, Zenon
      <4>4. Alter!Drop(qn \o list, Len(qn)) = list
        BY JoinSymbols
      <4> QED  BY <4>1, <4>3, <4>4, Zenon
    <3> QED  BY <3>1, <3>4, <3>5
  <2>3. s = alter \o t
    <3>1. s = ((alter \o q) \o name) \o list
      BY <1>1, <1>2, <1>4, <1>5, <1>7, <1>9, <2>1, Zenon DEF Alter!Statement, IsNamed
    <3>2. PICK aq \in Seq(Symbols) : aq = alter \o q
      BY JoinSymbols
    <3>3. (aq \o name) \o list = aq \o (name \o list)
      BY Associative, Zenon
    <3>4. (alter \o q) \o rest = alter \o (q \o rest)
      <4>1. \A y, z \in Seq(Symbols) : (alter \o y) \o z = alter \o (y \o z)
        BY Associative, Zenon
      <4>2. \A z \in Seq(Symbols) : (alter \o q) \o z = alter \o (q \o z)
        BY <4>1, Zenon
      <4> QED  BY <4>2, Zenon
    <3> QED  BY <1>6, <2>2, <3>1, <3>2, <3>3, <3>4, Zenon
  <2>4. Alter!Without(s, <<"ALTER", "TABLE">>) = t
    <3>1. Alter!Without(alter \o t, <<a, b>>) = t
      BY <1>4, StartsWithout
    <3> QED  BY <1>2, <2>3, <3>1, Zenon
  <2>5. Len(t) > 2 /\ t[2] = "."
    BY <1>1, <2>2
  <2>6. Alter!Parsed(s, garbage) = [database |-> t[1], table_name |-> t[3],
                                     operations |-> Alter!Operations(Alter!Drop(t, 3), garbage)]
    BY <2>4, <2>5, Zenon DEF Alter!Parsed
  <2> QED  BY <1>1, <1>7, <1>9, <2>2, <2>6, Zenon DEF IsNamed
<1> QED  BY <1>8, <1>9

-----------------------------------------------------------------------------
(* Statement after statement.                                              *)

\* What an operation that is asked for has become.
Understood(r, op, column) ==
    /\ r.type = "RenameTable" <=> op.type = "RenameTable"
    /\ Alter!Clear(op, column) => Same(r, op) /\ (op.first => r.first)

LEMMA OperationIsUnderstood ==
    ASSUME NEW op \in Alter!Asked, NEW column \in {<<>>, <<"COLUMN">>}, NEW garbage
    PROVE  Understood(Alter!ParseOperation(Alter!Written(op, column), garbage), op, column)
<1>1. IsRead(op, column, garbage)
  BY AskedIsRead
<1>2. IsAsked(op)
  BY AskedIs
<1>3. PICK s : s = Alter!Written(op, column)
  OBVIOUS
<1>4. Alter!ParseOperation(s, garbage).type = "RenameTable" <=> op.type = "RenameTable"
  <2>1. op.type = "RenameTable" <=> s[1] = "RENAME"
    BY <1>1, <1>3, Zenon DEF IsRead
  <2> QED  BY <2>1, OnlyRenameRenames, Zenon
<1>5. Alter!Clear(op, column) => ReadsAs(op, Alter!ParseOperation(s, garbage))
  BY <1>1, <1>3, Zenon DEF IsRead
<1>6. Alter!Clear(op, column) => Same(Alter!ParseOperation(s, garbage), op)
                             /\ (op.first => Alter!ParseOperation(s, garbage).first)
  BY <1>2, <1>5, ReadsSame, Zenon
<1> QED  BY <1>3, <1>4, <1>6, Zenon DEF Understood

\* The operations, and whether the parser takes them.
AllUnderstood(rs, ops, column, taken) ==
    /\ Len(rs) = Len(ops)
    /\ taken <=> \A i \in 1..Len(rs) : ops[i].type # "RenameTable"
    /\ \A i \in 1..Len(rs) : Alter!Clear(ops[i], column) => Same(rs[i], ops[i]) /\ (ops[i].first => rs[i].first)

LEMMA ListIsUnderstood ==
    ASSUME NEW ops \in Seq(Alter!Asked), ops # <<>>, NEW column \in {<<>>, <<"COLUMN">>}, NEW garbage, NEW rs,
           rs = [i \in 1..Len(ops) |-> Alter!ParseOperation(Alter!Written(ops[i], column), garbage)]
    PROVE  AllUnderstood(rs, ops, column, rs # <<>> /\ ~Alter!HasRenameTable(rs))
<1>1. PICK n \in Nat : n = Len(ops) /\ n > 0
  OBVIOUS
<1>2. Len(rs) = n /\ rs # <<>>
  BY <1>1
<1>3. ASSUME NEW i \in 1..n PROVE Understood(rs[i], ops[i], column)
  <2>1. ops[i] \in Alter!Asked /\ rs[i] = Alter!ParseOperation(Alter!Written(ops[i], column), garbage)
    BY <1>1
  <2> QED  BY <2>1, OperationIsUnderstood
<1>4. Alter!HasRenameTable(rs) <=> \E i \in 1..n : ops[i].type = "RenameTable"
  <2>1. \A i \in 1..n : rs[i].type = "RenameTable" <=> ops[i].type = "RenameTable"
    BY <1>3, Zenon DEF Understood
  <2> QED  BY <1>2, <2>1, Zenon DEF Alter!HasRenameTable
<1>5. \A i \in 1..n : Alter!Clear(ops[i], column) => Same(rs[i], ops[i]) /\ (ops[i].first => rs[i].first)
  BY <1>3, Zenon DEF Understood
<1> QED  BY <1>1, <1>2, <1>4, <1>5, Zenon DEF AllUnderstood

ParserInv ==
    /\ alter_statement.database = named
    /\ parses > 0 =>
        /\ alter_statement.table_name = given.table
        /\ AllUnderstood(alter_statement.operations, given.ops, given.column, parsed)

LEMMA InitParser == Alter!Init => ParserInv
<1> SUFFICES ASSUME Alter!Init PROVE ParserInv
  OBVIOUS
<1>1. parses = 0 /\ alter_statement = [database |-> "", table_name |-> "", operations |-> <<>>] /\ named = ""
  BY Zenon DEF Alter!Init
<1>2. alter_statement.database = named
  BY <1>1, Zenon
<1>3. ~(parses > 0)
  <2>1. parses = 0
    BY <1>1, Zenon
  <2> QED  BY ONLY <2>1
<1> QED  BY <1>2, <1>3, Zenon DEF ParserInv

LEMMA NextParser == ParserInv /\ [Alter!Next]_Alter!vars => ParserInv'
<1> SUFFICES ASSUME ParserInv, [Alter!Next]_Alter!vars PROVE ParserInv'
  OBVIOUS
<1>1. CASE UNCHANGED Alter!vars
  BY <1>1, Zenon DEF ParserInv, Alter!vars, AllUnderstood
<1>2. CASE Alter!Next
  <2>1. PICK database \in Databases \union {""}, table \in Tables, ops \in Lists, column \in {<<>>, <<"COLUMN">>} :
          /\ Alter!Parse(Alter!Statement(database, table, ops, column))
          /\ given' = [table |-> table, column |-> column, ops |-> ops]
          /\ named' = IF database = "" THEN named ELSE database
    BY <1>2, Zenon DEF Alter!Next
  <2>2. PICK garbage \in BOOLEAN :
          alter_statement' = Alter!Parsed(Alter!Statement(database, table, ops, column), garbage)
    BY <2>1, Zenon DEF Alter!Parse
  <2>3. parsed' = (alter_statement'.operations # <<>> /\ ~Alter!HasRenameTable(alter_statement'.operations))
    BY <2>1, Zenon DEF Alter!Parse
  <2>4. ops \in Seq(Alter!Asked) /\ ops # <<>>
    BY StatementsAssumption, Zenon
  <2>5. PICK rs : rs = [i \in 1..Len(ops) |-> Alter!ParseOperation(Alter!Written(ops[i], column), garbage)]
    OBVIOUS
  <2>6. alter_statement' = [database   |-> IF database = "" THEN alter_statement.database ELSE database,
                            table_name |-> table, operations |-> rs]
    <3>1. IsDatabase(database)
      BY Zenon DEF IsDatabase
    <3>2. StatementReads(database, table, ops, column, garbage)
      BY ONLY <2>4, <3>1, StatementIsRead, Zenon
    <3> QED  BY <2>2, <2>5, <3>2, Zenon DEF StatementReads
  <2>7. /\ alter_statement'.database = IF database = "" THEN alter_statement.database ELSE database
        /\ alter_statement'.table_name = table /\ alter_statement'.operations = rs
    BY <2>6
  <2>8. given'.table = table /\ given'.column = column /\ given'.ops = ops
    BY <2>1
  <2>9. alter_statement'.database = named'
    BY <2>1, <2>7, Zenon DEF ParserInv
  <2>10. AllUnderstood(rs, ops, column, rs # <<>> /\ ~Alter!HasRenameTable(rs))
    BY <2>4, <2>5, ListIsUnderstood
  <2>11. parsed' <=> (rs # <<>> /\ ~Alter!HasRenameTable(rs))
    BY <2>3, <2>7, Zenon
  <2>12. AllUnderstood(rs, ops, column, parsed')
    BY <2>10, <2>11, Zenon DEF AllUnderstood
  <2> QED  BY <2>7, <2>8, <2>9, <2>12, Zenon DEF ParserInv, AllUnderstood
<1> QED  BY <1>1, <1>2

LEMMA ParserSteps == Spec => Alter!Spec
<1>1. Init => Alter!Init
  BY DEF Init
<1>2. [Next]_vars => [Alter!Next]_Alter!vars
  BY DEF Next, vars, parser, Alter!vars
<1> QED  BY <1>1, <1>2, PTL DEF Spec, Alter!Spec

(* The ALTER parser understands the statements in the form it knows, one   *)
(* after the other, whatever the names and the lists of operations: cut at *)
(* the commas that no parenthesis holds, each part is one operation, and   *)
(* it is read as written unless a name in it hides a keyword that is       *)
(* looked for in its text.                                                 *)
THEOREM StatementsAreUnderstood == Spec => []AlterIsUnderstood
<1>1. ParserInv => AlterIsUnderstood
  BY Zenon DEF ParserInv, AllUnderstood, Same, AlterIsUnderstood, Alter!AlterIsUnderstood
<1> QED  BY <1>1, InitParser, NextParser, ParserSteps, PTL DEF Alter!Spec
=============================================================================
