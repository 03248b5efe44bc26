---------------------------- MODULE CountryProofs -----------------------------
(***************************************************************************)
(* Proofs about the countries of a leg: how its points are decoded and     *)
(* found in their countries (ShapeCountries), for every line and every two *)
(* triangles with a common side, and how its maneuvers are split at the    *)
(* borders (CountrySplit), for every set of countries, every leg and every *)
(* division into maneuvers.                                                *)
(***************************************************************************)
EXTENDS CountrySplit, ShapeCountries, Sums


-----------------------------------------------------------------------------
(* The groups of a number: the recursion has a solution. *)

LEMMA GroupFacts ==
    ASSUME NEW u \in Nat
    PROVE  /\ u \div 32 \in Nat /\ u % 32 \in 0..31 /\ u = 32 * (u \div 32) + (u % 32)
           /\ u >= 32 => u \div 32 < u
OBVIOUS

GroupStep(g, u) == IF u < 32 THEN <<u>> ELSE <<32 + (u % 32)>> \o g[u \div 32]

Grouped(g, D) == g = [u \in D |-> GroupStep(g, u)]

LEMMA GroupedUpTo ==
    ASSUME NEW n \in Nat
    PROVE  \E g : Grouped(g, 0..n)
<1> DEFINE Ungrouped == {k \in Nat : ~ \E g : Grouped(g, 0..k)}
<1>1. SUFFICES ASSUME Ungrouped # {} PROVE FALSE
  OBVIOUS
<1>2. PICK k \in Ungrouped : \A m \in Ungrouped : k <= m
  BY <1>1, SmallestNumber
<1>3. k # 0
  <2> DEFINE g == [u \in 0..0 |-> <<u>>]
  <2>1. Grouped(g, 0..0)
    BY DEF Grouped, GroupStep
  <2> QED BY <2>1
<1>4. k - 1 \in Nat /\ k - 1 \notin Ungrouped
  BY <1>2, <1>3
<1>5. PICK h : Grouped(h, 0..(k - 1))
  BY <1>4
<1> DEFINE g == [u \in 0..k |-> GroupStep(h, u)]
<1>6. \A u \in 0..(k - 1) : g[u] = h[u]
  BY <1>5 DEF Grouped
<1>7. \A u \in 0..k : u >= 32 => u \div 32 \in 0..(k - 1)
  BY <1>4, GroupFacts
<1>8. \A u \in 0..k : GroupStep(h, u) = GroupStep(g, u)
  <2> TAKE u \in 0..k
  <2>1. u >= 32 => h[u \div 32] = g[u \div 32]
    BY <1>6, <1>7
  <2> HIDE DEF g
  <2> QED BY <2>1 DEF GroupStep
<1>9. Grouped(g, 0..k)
  BY <1>8 DEF Grouped
<1> QED BY <1>9

LEMMA GroupedAgree ==
    ASSUME NEW m \in Nat, NEW n \in Nat, NEW g, NEW h, Grouped(g, 0..m), Grouped(h, 0..n)
    PROVE  \A u \in 0..m : u <= n => g[u] = h[u]
<1> DEFINE Bad == {u \in Nat : u <= m /\ u <= n /\ g[u] # h[u]}
<1>1. SUFFICES ASSUME Bad # {} PROVE FALSE
  OBVIOUS
<1>2. PICK u \in Bad : \A v \in Bad : u <= v
  BY <1>1, SmallestNumber
<1>3. g[u] = GroupStep(g, u) /\ h[u] = GroupStep(h, u)
  <2>1. u \in 0..m /\ u \in 0..n
    BY <1>2
  <2> QED BY <2>1 DEF Grouped
<1>4. CASE u < 32
  BY <1>3, <1>4 DEF GroupStep
<1>5. CASE u >= 32
  <2> DEFINE v == u \div 32
  <2>1. v \in Nat /\ v < u
    BY <1>5, GroupFacts
  <2> HIDE DEF v
  <2>2. g[v] = h[v]
    BY <1>2, <2>1
  <2> QED BY <1>3, <2>2 DEF GroupStep, v
<1> QED BY <1>4, <1>5

LEMMA GroupsSolve == \A u \in Nat : Groups[u] = GroupStep(Groups, u)
<1> DEFINE G(n) == CHOOSE g : Grouped(g, 0..n)
           F == [u \in Nat |-> G(u)[u]]
<1>1. \A n \in Nat : Grouped(G(n), 0..n)
  BY GroupedUpTo
<1> HIDE DEF G
<1>2. \A u \in Nat : F[u] = GroupStep(F, u)
  <2> TAKE u \in Nat
  <2>1. F[u] = GroupStep(G(u), u)
    BY <1>1 DEF Grouped
  <2>2. CASE u < 32
    BY <2>1, <2>2 DEF GroupStep
  <2>3. CASE u >= 32
    <3> DEFINE v == u \div 32
    <3>1. v \in Nat /\ v < u
      BY <2>3, GroupFacts
    <3> HIDE DEF v
    <3>2. G(u)[v] = G(v)[v]
      BY <1>1, <3>1, GroupedAgree
    <3>3. G(u)[v] = F[v]
      BY <3>1, <3>2
    <3> QED BY <2>1, <3>3 DEF GroupStep, v
  <2> QED BY <2>2, <2>3
<1>3. Grouped(F, Nat)
  BY <1>2 DEF Grouped
<1>4. Groups = CHOOSE g : Grouped(g, Nat)
  BY DEF Groups, Grouped, GroupStep
<1>5. Grouped(Groups, Nat)
  BY <1>3, <1>4
<1> QED BY <1>5 DEF Grouped

LEMMA GroupsType ==
    ASSUME NEW u \in Nat
    PROVE  Groups[u] \in Seq(Nat) /\ Len(Groups[u]) > 0
<1> DEFINE Bad == {v \in Nat : ~(Groups[v] \in Seq(Nat) /\ Len(Groups[v]) > 0)}
<1>1. SUFFICES ASSUME Bad # {} PROVE FALSE
  OBVIOUS
<1>2. PICK v \in Bad : \A w \in Bad : v <= w
  BY <1>1, SmallestNumber
<1>3. Groups[v] = GroupStep(Groups, v)
  BY GroupsSolve
<1>4. CASE v < 32
  <2>1. Groups[v] = <<v>>
    BY <1>3, <1>4 DEF GroupStep
  <2>2. <<v>> \in Seq(Nat) /\ Len(<<v>>) > 0
    BY <1>2
  <2> QED BY <1>2, <2>1, <2>2
<1>5. CASE v >= 32
  <2> DEFINE q == v \div 32
             r == 32 + (v % 32)
  <2>1. q \in Nat /\ q < v /\ r \in Nat
    BY <1>5, GroupFacts
  <2> HIDE DEF q, r
  <2>2. Groups[q] \in Seq(Nat)
    BY <1>2, <2>1
  <2>3. Groups[v] = <<r>> \o Groups[q]
    BY <1>3, <1>5 DEF GroupStep, q, r
  <2>4. <<r>> \o Groups[q] \in Seq(Nat) /\ Len(<<r>> \o Groups[q]) > 0
    BY <2>1, <2>2
  <2> QED BY <2>3, <2>4
<1> QED BY <1>4, <1>5

\* The first group tells whether there are more, and what it counts.
LEMMA FirstGroup ==
    ASSUME NEW u \in Nat
    PROVE  /\ u < 32 => Len(Groups[u]) = 1 /\ Groups[u][1] = u
           /\ u >= 32 => LET q == u \div 32
                         IN  /\ Groups[u][1] = 32 + (u % 32)
                             /\ Len(Groups[u]) = 1 + Len(Groups[q])
                             /\ \A j \in 1..Len(Groups[q]) : Groups[u][1 + j] = Groups[q][j]
<1>1. Groups[u] = GroupStep(Groups, u)
  BY GroupsSolve
<1>2. CASE u < 32
  BY <1>1, <1>2 DEF GroupStep
<1>3. CASE u >= 32
  <2> DEFINE q == u \div 32
             r == 32 + (u % 32)
  <2>1. q \in Nat /\ r \in Nat
    BY GroupFacts
  <2>2. Groups[u] = <<r>> \o Groups[q]
    BY <1>1, <1>3 DEF GroupStep
  <2> HIDE DEF q, r
  <2>3. Groups[q] \in Seq(Nat)
    BY <2>1, GroupsType
  <2>4. /\ Groups[u][1] = r
        /\ Len(Groups[u]) = 1 + Len(Groups[q])
        /\ \A j \in 1..Len(Groups[q]) : Groups[u][1 + j] = Groups[q][j]
    BY <2>1, <2>2, <2>3
  <2> QED BY <1>3, <2>4 DEF q, r
<1> QED BY <1>2, <1>3

LEMMA ZigZagFacts ==
    ASSUME NEW v \in Int
    PROVE  ZigZag(v) \in Nat /\ Signed(ZigZag(v)) = v
BY DEF ZigZag, Signed

-----------------------------------------------------------------------------
(* What encodePolyline writes, position by position. *)

\* The code stands in the bytes behind the first ones.
Laid(bytes, first, code) ==
    /\ first + Len(code) <= Len(bytes)
    /\ \A j \in 1..Len(code) : bytes[first + j] = code[j]

Joined(F, g, D) == g = [i \in D |-> IF i = 1 THEN F[i] ELSE g[i - 1] \o F[i]]

LEMMA JoinedStep ==
    ASSUME NEW F, NEW g, NEW n \in Nat, Joined(F, g, 1..n), NEW i \in 1..n
    PROVE  g[i] = IF i = 1 THEN F[i] ELSE g[i - 1] \o F[i]
BY DEF Joined

LEMMA Concat ==
    ASSUME NEW s \in Seq(Nat), NEW t \in Seq(Nat)
    PROVE  /\ s \o t \in Seq(Nat) /\ Len(s \o t) = Len(s) + Len(t)
           /\ Len(s) \in Nat /\ Len(t) \in Nat
           /\ \A j \in 1..Len(s) : (s \o t)[j] = s[j]
           /\ \A j \in 1..Len(t) : (s \o t)[Len(s) + j] = t[j]
OBVIOUS

LEMMA JoinedUpTo ==
    ASSUME NEW n \in Nat \ {0}, NEW F
    PROVE  \E g : Joined(F, g, 1..n)
<1> DEFINE Unjoined == {k \in Nat : k > 0 /\ ~ \E g : Joined(F, g, 1..k)}
<1>1. SUFFICES ASSUME Unjoined # {} PROVE FALSE
  OBVIOUS
<1>2. PICK k \in Unjoined : \A m \in Unjoined : k <= m
  BY <1>1, SmallestNumber
<1>3. k # 1
  <2> DEFINE g == [i \in 1..1 |-> F[i]]
  <2>1. Joined(F, g, 1..1)
    BY DEF Joined
  <2> QED BY <2>1
<1>4. k \in Nat /\ k - 1 \in Nat /\ k - 1 > 0 /\ k - 1 \notin Unjoined
  BY <1>2, <1>3
<1>5. PICK h : Joined(F, h, 1..(k - 1))
  BY <1>4
<1> DEFINE g == [i \in 1..k |-> IF i = 1 THEN F[i] ELSE h[i - 1] \o F[i]]
<1>6. \A i \in 1..(k - 1) : g[i] = h[i]
  <2> TAKE i \in 1..(k - 1)
  <2>1. i \in 1..k
    BY <1>4
  <2> QED BY <1>4, <1>5, <2>1, JoinedStep
<1>7. \A i \in 1..k : i # 1 => i - 1 \in 1..(k - 1)
  BY <1>4
<1>8. \A i \in 1..k : g[i] = IF i = 1 THEN F[i] ELSE g[i - 1] \o F[i]
  BY <1>6, <1>7
<1>9. Joined(F, g, 1..k)
  BY <1>8 DEF Joined
<1> QED BY <1>4, <1>9

Prefixed(s, t) == Len(s) <= Len(t) /\ \A j \in 1..Len(s) : t[j] = s[j]

LEMMA PrefixedConcat ==
    ASSUME NEW s \in Seq(Nat), NEW t \in Seq(Nat)
    PROVE  Prefixed(s, s \o t) /\ Prefixed(s, s) /\ Laid(s \o t, Len(s), t)
BY Concat DEF Prefixed, Laid

LEMMA PrefixedTwice ==
    ASSUME NEW s \in Seq(Nat), NEW t \in Seq(Nat), NEW u \in Seq(Nat),
           Prefixed(s, t), Prefixed(t, u)
    PROVE  Prefixed(s, u)
<1>1. Len(s) \in Nat /\ Len(t) \in Nat /\ Len(u) \in Nat
  OBVIOUS
<1>2. \A j \in 1..Len(s) : j \in 1..Len(t)
  BY <1>1 DEF Prefixed
<1> QED BY <1>1, <1>2 DEF Prefixed

LEMMA LaidInMore ==
    ASSUME NEW s \in Seq(Nat), NEW t \in Seq(Nat), NEW code \in Seq(Nat), NEW first \in Nat,
           Laid(s, first, code), Prefixed(s, t)
    PROVE  Laid(t, first, code)
<1>1. Len(s) \in Nat /\ Len(t) \in Nat /\ Len(code) \in Nat
  OBVIOUS
<1>2. \A j \in 1..Len(code) : first + j \in 1..Len(s)
  BY <1>1 DEF Laid
<1>3. \A j \in 1..Len(code) : t[first + j] = s[first + j]
  BY <1>2 DEF Prefixed
<1>4. first + Len(code) <= Len(t)
  BY <1>1 DEF Laid, Prefixed
<1>5. \A j \in 1..Len(code) : t[first + j] = code[j]
  BY <1>3 DEF Laid
<1> QED BY <1>4, <1>5 DEF Laid

Chained(U, F, n) ==
    /\ \A i \in 1..n : U[i] \in Seq(Nat) /\ F[i] \in Seq(Nat)
    /\ U[1] = F[1]
    /\ \A i \in 1..n : i > 1 => U[i] = U[i - 1] \o F[i]

LEMMA ChainedGrow ==
    ASSUME NEW n \in Nat, NEW U, NEW F, Chained(U, F, n)
    PROVE  \A k \in 1..n : \A i \in 1..k : Prefixed(U[i], U[k])
<1> DEFINE Bad == {k \in Nat : k \in 1..n /\ ~ \A i \in 1..k : Prefixed(U[i], U[k])}
<1>1. SUFFICES ASSUME Bad # {} PROVE FALSE
  OBVIOUS
<1>2. PICK k \in Bad : \A m \in Bad : k <= m
  BY <1>1, SmallestNumber
<1>3. PICK i \in 1..k : ~Prefixed(U[i], U[k])
  BY <1>2
<1>4. k \in 1..n /\ i \in 1..n /\ U[k] \in Seq(Nat) /\ U[i] \in Seq(Nat)
  <2>1. k \in 1..n
    BY <1>2
  <2>2. i \in 1..n
    BY <2>1
  <2> QED BY <2>1, <2>2 DEF Chained
<1>5. i # k
  BY <1>3, <1>4, PrefixedConcat
<1>6. k > 1 /\ i \in 1..(k - 1)
  BY <1>4, <1>5
<1>7. k - 1 \in 1..n /\ k - 1 \notin Bad
  BY <1>2, <1>4, <1>6
<1>8. Prefixed(U[i], U[k - 1])
  BY <1>6, <1>7
<1> HIDE DEF Bad
<1>9. U[k - 1] \in Seq(Nat) /\ F[k] \in Seq(Nat) /\ U[k] = U[k - 1] \o F[k]
  BY <1>4, <1>6, <1>7 DEF Chained
<1>10. Prefixed(U[k - 1], U[k])
  BY <1>9, PrefixedConcat
<1> QED BY <1>3, <1>4, <1>8, <1>9, <1>10, PrefixedTwice

LEMMA JoinedIsChained ==
    ASSUME NEW n \in Nat, n # 0, NEW F \in [1..n -> Seq(Nat)], NEW U, Joined(F, U, 1..n)
    PROVE  Chained(U, F, n)
<1>1. \A i \in 1..n : F[i] \in Seq(Nat)
  OBVIOUS
<1>2. U[1] = F[1]
  <2>1. 1 \in 1..n
    OBVIOUS
  <2> QED BY <2>1, JoinedStep
<1>3. \A i \in 1..n : i > 1 => i - 1 \in 1..n /\ U[i] = U[i - 1] \o F[i]
  <2> TAKE i \in 1..n
  <2>1. n \in Nat /\ (i > 1 => i # 1)
    OBVIOUS
  <2>2. i > 1 => i - 1 \in 1..n
    BY <2>1
  <2> QED BY <2>1, <2>2, JoinedStep
<1>4. \A i \in 1..n : U[i] \in Seq(Nat)
  <2> DEFINE Bad == {i \in Nat : i \in 1..n /\ U[i] \notin Seq(Nat)}
  <2>1. SUFFICES ASSUME NEW x \in 1..n, U[x] \notin Seq(Nat) PROVE FALSE
    OBVIOUS
  <2>2. PICK i \in Bad : \A k \in Bad : i <= k
    <3>1. x \in Bad
      BY <2>1
    <3> QED BY <3>1, SmallestNumber
  <2>3. i \in 1..n /\ F[i] \in Seq(Nat) /\ U[i] \notin Seq(Nat)
    BY <1>1, <2>2
  <2>4. i > 1 => U[i - 1] \in Seq(Nat)
    BY <1>3, <2>2, <2>3
  <2> HIDE DEF Bad
  <2>5. i = 1 \/ i > 1
    BY <2>3
  <2>6. i > 1 => U[i - 1] \o F[i] \in Seq(Nat)
    BY <2>3, <2>4, Concat
  <2> QED BY <1>2, <1>3, <2>3, <2>5, <2>6
<1> QED BY <1>1, <1>2, <1>3, <1>4 DEF Chained

\* Flattening puts the sequences one behind the other, each from the end of the
\* one before.
LEMMA Flattened ==
    ASSUME NEW n \in Nat, NEW F \in [1..n -> Seq(Nat)]
    PROVE  /\ FlattenSeq(F) \in Seq(Nat)
           /\ \E e \in [0..n -> Nat] :
                  /\ e[0] = 0 /\ e[n] = Len(FlattenSeq(F))
                  /\ \A i \in 1..n : /\ e[i] = e[i - 1] + Len(F[i])
                                     /\ Laid(FlattenSeq(F), e[i - 1], F[i])
<1>1. F \in Seq(Seq(Nat)) /\ Len(F) = n
  OBVIOUS
<1>2. CASE n = 0
  <2>1. FlattenSeq(F) = F /\ F = <<>>
    BY <1>1, <1>2 DEF FlattenSeq
  <2> DEFINE e == [i \in 0..0 |-> 0]
  <2>2. e \in [0..n -> Nat] /\ e[0] = 0 /\ e[n] = Len(FlattenSeq(F))
    BY <1>2, <2>1
  <2>3. 1..n = {} /\ <<>> \in Seq(Nat)
    BY <1>2
  <2> HIDE DEF e
  <2>4. FlattenSeq(F) \in Seq(Nat)
    BY <2>1, <2>3
  <2> QED BY <2>2, <2>3, <2>4
<1>3. CASE n # 0
  <2> DEFINE U == CHOOSE g : Joined(F, g, 1..n)
  <2>1. Joined(F, U, 1..n)
    BY <1>3, JoinedUpTo
  <2>2. FlattenSeq(F) = U[n]
    BY <1>1, <1>3 DEF FlattenSeq, Joined
  <2> HIDE DEF U
  <2>3. Chained(U, F, n)
    BY <1>3, <2>1, JoinedIsChained
  <2>4. \A i \in 1..n : U[i] \in Seq(Nat) /\ F[i] \in Seq(Nat) /\ Prefixed(U[i], U[n])
    <3>1. n \in 1..n
      BY <1>3
    <3> QED BY <2>3, <3>1, ChainedGrow DEF Chained
  <2> DEFINE e == [i \in 0..n |-> IF i = 0 THEN 0 ELSE Len(U[i])]
  <2>5. /\ e \in [0..n -> Nat] /\ e[0] = 0 /\ \A i \in 1..n : e[i] = Len(U[i])
    BY <2>4
  <2> HIDE DEF e
  <2>6. \A i \in 1..n : e[i] = e[i - 1] + Len(F[i]) /\ Laid(U[i], e[i - 1], F[i])
    <3> TAKE i \in 1..n
    <3>1. F[i] \in Seq(Nat) /\ U[i] \in Seq(Nat)
      BY <2>4
    <3>2. CASE i = 1
      <4>1. U[i] = F[i] /\ e[i - 1] = 0
        BY <2>3, <2>5, <3>2 DEF Chained
      <4> QED BY <2>5, <3>1, <4>1 DEF Laid
    <3>3. CASE i > 1
      <4>1. i - 1 \in 1..n /\ U[i - 1] \in Seq(Nat) /\ U[i] = U[i - 1] \o F[i]
        <5>1. i - 1 \in 1..n
          BY <3>3
        <5> QED BY <2>3, <3>3, <5>1 DEF Chained
      <4>2. e[i - 1] = Len(U[i - 1]) /\ e[i] = Len(U[i])
        BY <2>5, <4>1
      <4>3. Laid(U[i], Len(U[i - 1]), F[i]) /\ Len(U[i]) = Len(U[i - 1]) + Len(F[i])
        BY <3>1, <4>1, PrefixedConcat, Concat
      <4> QED BY <4>2, <4>3
    <3> QED BY <3>2, <3>3
  <2>7. \A i \in 1..n : Laid(U[n], e[i - 1], F[i])
    <3> TAKE i \in 1..n
    <3>1. U[n] \in Seq(Nat) /\ e[i - 1] \in Nat
      <4>1. n \in 1..n /\ i - 1 \in 0..n
        BY <1>3
      <4> QED BY <2>4, <2>5, <4>1
    <3> QED BY <2>4, <2>6, <3>1, LaidInMore
  <2>8. U[n] \in Seq(Nat) /\ e[n] = Len(U[n])
    <3>1. n \in 1..n
      BY <1>3
    <3> QED BY <2>4, <2>5, <3>1
  <2> QED BY <2>2, <2>5, <2>6, <2>7, <2>8
<1> QED BY <1>2, <1>3

-----------------------------------------------------------------------------
(* Where the code of each point stands. *)

Code(line, i, x) == Bytes(line[i][x] - Previous(line, i)[x])

\* e says where the code of each point ends.
Layout(line, e) ==
    /\ e \in [0..Len(line) -> Nat] /\ e[0] = 0 /\ e[Len(line)] = Len(Encode(line))
    /\ \A i \in 1..Len(line) :
           /\ e[i] = e[i - 1] + Len(Code(line, i, 1)) + Len(Code(line, i, 2))
           /\ Laid(Encode(line), e[i - 1], Code(line, i, 1))
           /\ Laid(Encode(line), e[i - 1] + Len(Code(line, i, 1)), Code(line, i, 2))

LEMMA PreviousFacts ==
    ASSUME NEW line \in Seq(Int \X Int), NEW i \in 1..Len(line)
    PROVE  /\ line[i] \in Int \X Int /\ line[i][1] \in Int /\ line[i][2] \in Int
           /\ Previous(line, i) \in Int \X Int
           /\ Previous(line, i)[1] \in Int /\ Previous(line, i)[2] \in Int
<1>1. line[i] \in Int \X Int
  OBVIOUS
<1>2. i # 1 => i - 1 \in 1..Len(line)
  OBVIOUS
<1>3. Previous(line, i) \in Int \X Int
  BY <1>2 DEF Previous, Origin
<1> QED BY <1>1, <1>3

LEMMA CodeFacts ==
    ASSUME NEW line \in Seq(Int \X Int), NEW i \in 1..Len(line), NEW x \in {1, 2}
    PROVE  /\ line[i][x] \in Int /\ Previous(line, i)[x] \in Int
           /\ Code(line, i, x) = Groups[ZigZag(line[i][x] - Previous(line, i)[x])]
           /\ ZigZag(line[i][x] - Previous(line, i)[x]) \in Nat
           /\ Code(line, i, x) \in Seq(Nat) /\ Len(Code(line, i, x)) \in Nat
           /\ Len(Code(line, i, x)) > 0
<1>1. line[i][x] \in Int /\ Previous(line, i)[x] \in Int
  BY PreviousFacts
<1>2. ZigZag(line[i][x] - Previous(line, i)[x]) \in Nat
  <2>1. line[i][x] - Previous(line, i)[x] \in Int
    BY <1>1
  <2> QED BY <2>1, ZigZagFacts
<1>3. Code(line, i, x) = Groups[ZigZag(line[i][x] - Previous(line, i)[x])]
  BY DEF Code, Bytes
<1> QED BY <1>1, <1>2, <1>3, GroupsType

LEMMA LaidApart ==
    ASSUME NEW s \in Seq(Nat), NEW a \in Seq(Nat), NEW b \in Seq(Nat), NEW first \in Nat,
           Laid(s, first, a \o b)
    PROVE  Laid(s, first, a) /\ Laid(s, first + Len(a), b)
<1> DEFINE c == a \o b
<1>1. /\ Len(c) = Len(a) + Len(b) /\ Len(a) \in Nat /\ Len(b) \in Nat
      /\ \A j \in 1..Len(a) : c[j] = a[j]
      /\ \A j \in 1..Len(b) : c[Len(a) + j] = b[j]
  BY Concat
<1>2. Laid(s, first, c) /\ Len(s) \in Nat
  OBVIOUS
<1> HIDE DEF c
<1>3. first + Len(a) <= Len(s) /\ first + Len(a) + Len(b) <= Len(s)
  BY <1>1, <1>2 DEF Laid
<1>4. \A j \in 1..Len(a) : s[first + j] = a[j]
  BY <1>1, <1>2 DEF Laid
<1>5. \A j \in 1..Len(b) : s[first + Len(a) + j] = b[j]
  <2> TAKE j \in 1..Len(b)
  <2>1. Len(a) + j \in 1..Len(c) /\ first + (Len(a) + j) = first + Len(a) + j
    BY <1>1
  <2> QED BY <1>1, <1>2, <2>1 DEF Laid
<1> QED BY <1>3, <1>4, <1>5 DEF Laid

LEMMA EncodeFacts ==
    ASSUME NEW line \in Seq(Int \X Int)
    PROVE  Encode(line) \in Seq(Nat) /\ \E e : Layout(line, e)
<1> DEFINE n == Len(line)
           F == [i \in 1..n |-> Code(line, i, 1) \o Code(line, i, 2)]
<1>1. n \in Nat /\ DOMAIN line = 1..n
  OBVIOUS
<1>2. Encode(line) = FlattenSeq(F)
  BY <1>1 DEF Encode, Code
<1>3. \A i \in 1..n : /\ Code(line, i, 1) \in Seq(Nat) /\ Code(line, i, 2) \in Seq(Nat)
                      /\ F[i] = Code(line, i, 1) \o Code(line, i, 2)
                      /\ F[i] \in Seq(Nat)
                      /\ Len(F[i]) = Len(Code(line, i, 1)) + Len(Code(line, i, 2))
  BY CodeFacts, Concat
<1>4. F \in [1..n -> Seq(Nat)]
  BY <1>3
<1> HIDE DEF F
<1>5. Encode(line) \in Seq(Nat)
  BY <1>1, <1>2, <1>4, Flattened
<1>6. PICK e \in [0..n -> Nat] :
          /\ e[0] = 0 /\ e[n] = Len(Encode(line))
          /\ \A i \in 1..n : /\ e[i] = e[i - 1] + Len(F[i])
                             /\ Laid(Encode(line), e[i - 1], F[i])
  <2>1. \E d \in [0..n -> Nat] :
            /\ d[0] = 0 /\ d[n] = Len(FlattenSeq(F))
            /\ \A i \in 1..n : /\ d[i] = d[i - 1] + Len(F[i])
                               /\ Laid(FlattenSeq(F), d[i - 1], F[i])
    BY <1>1, <1>4, Flattened
  <2> HIDE DEF n
  <2> QED BY <1>2, <2>1
<1>7. ASSUME NEW i \in 1..n
      PROVE  /\ e[i] = e[i - 1] + Len(Code(line, i, 1)) + Len(Code(line, i, 2))
             /\ Laid(Encode(line), e[i - 1], Code(line, i, 1))
             /\ Laid(Encode(line), e[i - 1] + Len(Code(line, i, 1)), Code(line, i, 2))
  <2>1. e[i - 1] \in Nat /\ Len(Code(line, i, 1)) \in Nat /\ Len(Code(line, i, 2)) \in Nat
    <3>1. i - 1 \in 0..n
      BY <1>1
    <3> QED BY <1>6, <3>1, CodeFacts
  <2>2. e[i] = e[i - 1] + (Len(Code(line, i, 1)) + Len(Code(line, i, 2)))
        /\ Laid(Encode(line), e[i - 1], Code(line, i, 1) \o Code(line, i, 2))
    BY <1>3, <1>6
  <2>3. /\ Laid(Encode(line), e[i - 1], Code(line, i, 1))
        /\ Laid(Encode(line), e[i - 1] + Len(Code(line, i, 1)), Code(line, i, 2))
    BY <1>3, <1>5, <2>1, <2>2, LaidApart
  <2> QED BY <2>1, <2>2, <2>3
<1>8. Layout(line, e)
  BY <1>6, <1>7 DEF Layout
<1> QED BY <1>5, <1>8

-----------------------------------------------------------------------------
(* The decoder follows. *)

EndsOf(line) == CHOOSE e : Layout(line, e)

Ends == EndsOf(points)

\* The bytes from here on are the groups of a number that completes what has
\* been read of the value to the difference encoded, and they end where that
\* coordinate's code does.
Reading(k, u) ==
    /\ value + u * unit = ZigZag(points[k][axis] - Previous(points, k)[axis])
    /\ Laid(encoded, index, Groups[u])
    /\ index + Len(Groups[u]) = Ends[k - 1] + Len(Code(points, k, 1))
                                + (IF axis = 1 THEN 0 ELSE Len(Code(points, k, 2)))

\* Where the decoder is in the line.
DecoderIsAt(k) ==
    IF k > Len(points)
    THEN index = Len(encoded) /\ unit = 1 /\ value = 0 /\ axis = 1
    ELSE /\ at = IF axis = 1 THEN Previous(points, k)
                 ELSE <<points[k][1], Previous(points, k)[2]>>
         /\ \E u \in Nat : Reading(k, u)

CodecInv ==
    /\ points \in Seq(Int \X Int) /\ encoded = Encode(points)
    /\ index \in Nat /\ unit \in Nat /\ value \in Nat /\ axis \in {1, 2}
    /\ decoded \in Seq(Int \X Int) /\ Len(decoded) <= Len(points)
    /\ \A i \in 1..Len(decoded) : decoded[i] = points[i]
    /\ DecoderIsAt(Len(decoded) + 1)

LEMMA EndsFacts ==
    ASSUME points \in Seq(Int \X Int)
    PROVE  /\ Len(points) \in Nat /\ Encode(points) \in Seq(Nat)
           /\ Ends \in [0..Len(points) -> Nat] /\ Ends[0] = 0
           /\ Ends[Len(points)] = Len(Encode(points))
           /\ \A i \in 1..Len(points) :
                  /\ Ends[i - 1] \in Nat
                  /\ Ends[i] = Ends[i - 1] + Len(Code(points, i, 1)) + Len(Code(points, i, 2))
                  /\ Laid(Encode(points), Ends[i - 1], Code(points, i, 1))
                  /\ Laid(Encode(points), Ends[i - 1] + Len(Code(points, i, 1)), Code(points, i, 2))
<1>1. Layout(points, Ends)
  BY EncodeFacts DEF Ends, EndsOf
<1>2. \A i \in 1..Len(points) : i - 1 \in 0..Len(points)
  OBVIOUS
<1>3. Ends \in [0..Len(points) -> Nat]
  BY <1>1 DEF Layout
<1>4. \A i \in 1..Len(points) : Ends[i - 1] \in Nat
  BY <1>2, <1>3
<1>5. Len(points) \in Nat /\ Encode(points) \in Seq(Nat)
  BY EncodeFacts
<1> QED BY <1>1, <1>3, <1>4, <1>5 DEF Layout

\* A coordinate begins.
LEMMA Begins ==
    ASSUME points \in Seq(Int \X Int), NEW k \in 1..Len(points), NEW x \in {1, 2},
           NEW u, u = ZigZag(points[k][x] - Previous(points, k)[x])
    PROVE  /\ u \in Nat /\ Groups[u] = Code(points, k, x)
           /\ x = 1 => Laid(Encode(points), Ends[k - 1], Groups[u])
           /\ x = 2 => Laid(Encode(points), Ends[k - 1] + Len(Code(points, k, 1)), Groups[u])
<1>1. u \in Nat /\ Groups[u] = Code(points, k, x)
  BY CodeFacts
<1>2. /\ Laid(Encode(points), Ends[k - 1], Code(points, k, 1))
      /\ Laid(Encode(points), Ends[k - 1] + Len(Code(points, k, 1)), Code(points, k, 2))
  BY EndsFacts
<1> QED BY <1>1, <1>2

LEMMA InitCodec == CodecInit => CodecInv
<1> SUFFICES ASSUME CodecInit PROVE CodecInv
  OBVIOUS
<1>1. /\ points \in Seq(Int \X Int) /\ encoded = Encode(points) /\ Len(points) \in Nat
      /\ index = 0 /\ unit = 1 /\ value = 0 /\ axis = 1 /\ at = Origin /\ decoded = <<>>
  BY LineAssumption DEF CodecInit
<1>2. /\ decoded \in Seq(Int \X Int) /\ Len(decoded) = 0
  BY <1>1
<1>3. DecoderIsAt(1)
  <2>1. CASE Len(points) = 0
    BY <1>1, <2>1, EndsFacts DEF DecoderIsAt
  <2>2. CASE Len(points) > 0
    <3> DEFINE u == ZigZag(points[1][1] - Previous(points, 1)[1])
    <3>1. 1 \in 1..Len(points) /\ 1 - 1 = 0
      BY <1>1, <2>2
    <3>2. /\ u \in Nat /\ Groups[u] = Code(points, 1, 1)
          /\ Laid(Encode(points), Ends[1 - 1], Groups[u])
      <4> HIDE DEF u
      <4>1. u = ZigZag(points[1][1] - Previous(points, 1)[1])
        BY DEF u
      <4> QED BY <1>1, <3>1, <4>1, Begins
    <3>3. Ends[1 - 1] = 0
      BY <1>1, EndsFacts
    <3>4. Reading(1, u)
      <4>1. 0 + u * 1 = u
        BY <3>2
      <4>2. 0 + Len(Groups[u]) = 0 + Len(Code(points, 1, 1)) + 0
        BY <3>2, GroupsType
      <4> QED BY <1>1, <3>2, <3>3, <4>1, <4>2 DEF Reading
    <3>5. at = Previous(points, 1)
      BY <1>1 DEF Previous
    <3> QED BY <1>1, <2>2, <3>2, <3>4, <3>5 DEF DecoderIsAt
  <2> QED BY <1>1, <2>1, <2>2
<1> QED BY <1>1, <1>2, <1>3 DEF CodecInv

\* What is left to read of a line that is not finished, byte by byte.
LEMMA NextByte ==
    ASSUME CodecInv, index < Len(encoded)
    PROVE  LET k == Len(decoded) + 1
           IN  /\ k \in 1..Len(points)
               /\ \E u \in Nat :
                      /\ Reading(k, u)
                      /\ u < 32 => Byte = u /\ Len(Groups[u]) = 1
                      /\ u >= 32 => Byte = 32 + (u % 32)
<1> DEFINE k == Len(decoded) + 1
<1>1. /\ index \in Nat /\ Len(encoded) \in Nat /\ Len(decoded) \in Nat /\ Len(points) \in Nat
      /\ Len(decoded) <= Len(points) /\ DecoderIsAt(k)
  BY EncodeFacts DEF CodecInv
<1>2. k \in 1..Len(points)
  BY <1>1 DEF DecoderIsAt
<1> HIDE DEF k
<1>3. PICK u \in Nat : Reading(k, u)
  BY <1>1, <1>2 DEF DecoderIsAt
<1>4. Len(Groups[u]) \in Nat /\ 1 \in 1..Len(Groups[u])
  BY GroupsType
<1>5. Byte = Groups[u][1]
  BY <1>3, <1>4 DEF Reading, Laid, Byte
<1>6. /\ u < 32 => Byte = u /\ Len(Groups[u]) = 1
      /\ u >= 32 => Byte = 32 + (u % 32)
  BY <1>5, FirstGroup
<1> QED BY <1>2, <1>3, <1>6 DEF k

LEMMA LaidNext ==
    ASSUME NEW s, NEW first \in Nat, NEW u \in Nat, u >= 32, Laid(s, first, Groups[u])
    PROVE  /\ Laid(s, first + 1, Groups[u \div 32])
           /\ first + Len(Groups[u]) = first + 1 + Len(Groups[u \div 32])
<1> DEFINE q == u \div 32
<1>1. q \in Nat
  BY GroupFacts
<1>2. /\ Len(Groups[u]) = 1 + Len(Groups[q])
      /\ \A j \in 1..Len(Groups[q]) : Groups[u][1 + j] = Groups[q][j]
  BY FirstGroup
<1> HIDE DEF q
<1>3. Len(Groups[q]) \in Nat /\ Len(Groups[u]) \in Nat
  BY <1>1, GroupsType
<1>4. first + 1 + Len(Groups[q]) = first + Len(Groups[u])
  <2>1. PICK l \in Nat : l = Len(Groups[q])
    BY <1>3
  <2>2. Len(Groups[u]) = 1 + l
    BY <1>2, <2>1
  <2>3. first + 1 + l = first + (1 + l)
    OBVIOUS
  <2> QED BY <2>1, <2>2, <2>3
<1>5. \A j \in 1..Len(Groups[q]) : s[first + 1 + j] = Groups[q][j]
  <2> TAKE j \in 1..Len(Groups[q])
  <2>1. 1 + j \in 1..Len(Groups[u]) /\ first + (1 + j) = first + 1 + j
    BY <1>2, <1>3
  <2> QED BY <1>2, <2>1 DEF Laid
<1> QED BY <1>4, <1>5 DEF Laid, q

LEMMA ReadGroupKeepsInv ==
    ASSUME CodecInv, ReadGroup
    PROVE  CodecInv'
<1>0. PICK k \in Nat : k = Len(decoded) + 1
  BY DEF CodecInv
<1>1. /\ index < Len(encoded) /\ Byte >= 32
      /\ value' = value + (Byte % 32) * unit /\ unit' = 32 * unit /\ index' = index + 1
      /\ points' = points /\ encoded' = encoded /\ axis' = axis /\ at' = at /\ decoded' = decoded
  BY DEF ReadGroup
<1>2. /\ index \in Nat /\ unit \in Nat /\ value \in Nat /\ DecoderIsAt(k)
  BY <1>0 DEF CodecInv
<1>3. PICK u \in Nat : /\ k \in 1..Len(points) /\ Reading(k, u)
                       /\ u < 32 => Byte = u
                       /\ u >= 32 => Byte = 32 + (u % 32)
  BY <1>0, <1>1, NextByte
<1> DEFINE q == u \div 32
           r == u % 32
<1>4. q \in Nat /\ r \in 0..31 /\ u = 32 * q + r
  BY GroupFacts
<1>5. u >= 32 /\ Byte = 32 + r
  BY <1>1, <1>3
<1>6. /\ Laid(encoded, index + 1, Groups[q])
      /\ index + Len(Groups[u]) = index + 1 + Len(Groups[q])
  <2>1. Laid(encoded, index, Groups[u])
    BY <1>3 DEF Reading
  <2>2. index \in Nat
    BY <1>2
  <2>3. u >= 32
    BY <1>5
  <2>4. Laid(encoded, index + 1, Groups[u \div 32])
    BY <2>1, <2>2, <2>3, LaidNext
  <2>5. index + Len(Groups[u]) = index + 1 + Len(Groups[u \div 32])
    BY <2>1, <2>2, <2>3, LaidNext
  <2> QED BY <2>4, <2>5
<1> HIDE DEF q, r
<1>7. Byte % 32 = r
  BY <1>4, <1>5
<1>8. value' \in Nat /\ unit' \in Nat /\ index' \in Nat
  <2>1. r \in Nat /\ r * unit \in Nat
    BY <1>2, <1>4
  <2> QED BY <1>1, <1>2, <1>7, <2>1
<1>9. value' + q * unit' = value + u * unit
  <2>1. value' = value + r * unit
    BY <1>1, <1>7
  <2>2. q * unit' = 32 * q * unit /\ u * unit = 32 * q * unit + (r * unit)
    BY <1>1, <1>2, <1>4
  <2>3. r * unit \in Int /\ 32 * q * unit \in Int
    BY <1>2, <1>4
  <2> QED BY <1>2, <2>1, <2>2, <2>3
<1>10. k \in 1..Len(points) /\ points \in Seq(Int \X Int)
  BY <1>3 DEF CodecInv
<1>11. Reading(k, q)'
  <2>1. /\ Reading(k, q)' <=>
              /\ value' + q * unit' = ZigZag(points[k][axis] - Previous(points, k)[axis])
              /\ Laid(encoded, index', Groups[q])
              /\ index' + Len(Groups[q]) = Ends[k - 1] + Len(Code(points, k, 1))
                                + (IF axis = 1 THEN 0 ELSE Len(Code(points, k, 2)))
    BY <1>1 DEF Reading, Ends
  <2> QED BY <1>1, <1>3, <1>6, <1>9, <2>1 DEF Reading
<1>12. DecoderIsAt(k)'
  <2>1. ~(k > Len(points)) /\ Len(points) \in Nat
    BY <1>10
  <2>2. at' = IF axis' = 1 THEN Previous(points', k)
             ELSE <<points'[k][1], Previous(points', k)[2]>>
    BY <1>1, <1>2, <2>1 DEF DecoderIsAt
  <2> QED BY <1>1, <1>4, <1>11, <2>1, <2>2 DEF DecoderIsAt
<1> QED BY <1>0, <1>1, <1>8, <1>12 DEF CodecInv

\* The last byte completes the difference.
LEMMA LastByte ==
    ASSUME CodecInv, ReadLast
    PROVE  LET k == Len(decoded) + 1
           IN  /\ k \in 1..Len(points)
               /\ at' = [at EXCEPT ![axis] = @ + (points[k][axis] - Previous(points, k)[axis])]
               /\ index' = Ends[k - 1] + Len(Code(points, k, 1))
                           + (IF axis = 1 THEN 0 ELSE Len(Code(points, k, 2)))
<1> DEFINE k == Len(decoded) + 1
<1>1. /\ index < Len(encoded) /\ Byte < 32 /\ index' = index + 1
      /\ at' = [at EXCEPT ![axis] = @ + Signed(value + Byte * unit)]
  BY DEF ReadLast
<1>2. PICK u \in Nat : /\ k \in 1..Len(points) /\ Reading(k, u)
                       /\ u < 32 => Byte = u /\ Len(Groups[u]) = 1
                       /\ u >= 32 => Byte = 32 + (u % 32)
  BY <1>1, NextByte
<1>3. u < 32
  <2>1. u % 32 \in 0..31
    BY GroupFacts
  <2> QED BY <1>1, <1>2, <2>1
<1>4. value + Byte * unit = ZigZag(points[k][axis] - Previous(points, k)[axis])
  BY <1>2, <1>3 DEF Reading
<1>5. points[k][axis] - Previous(points, k)[axis] \in Int
  <2>1. points \in Seq(Int \X Int) /\ axis \in {1, 2}
    BY DEF CodecInv
  <2>2. points[k][axis] \in Int /\ Previous(points, k)[axis] \in Int
    BY <1>2, <2>1, CodeFacts
  <2> QED BY <2>2
<1> HIDE DEF k
<1>6. Signed(value + Byte * unit) = points[k][axis] - Previous(points, k)[axis]
  BY <1>4, <1>5, ZigZagFacts
<1>7. index + 1 = Ends[k - 1] + Len(Code(points, k, 1))
                  + (IF axis = 1 THEN 0 ELSE Len(Code(points, k, 2)))
  BY <1>2, <1>3 DEF Reading
<1> QED BY <1>1, <1>2, <1>6, <1>7 DEF k

\* Behind a latitude, the longitude begins.
LEMMA LatitudeKeepsInv ==
    ASSUME CodecInv, ReadLast, axis = 1
    PROVE  CodecInv'
<1>0. PICK k \in Nat : k = Len(decoded) + 1
  BY DEF CodecInv
<1>1. /\ points' = points /\ encoded' = encoded /\ decoded' = decoded /\ axis' = 2
      /\ value' = 0 /\ unit' = 1 /\ index' = index + 1
  BY DEF ReadLast
<1>2. /\ k \in 1..Len(points)
      /\ at' = [at EXCEPT ![1] = @ + (points[k][1] - Previous(points, k)[1])]
      /\ index' = Ends[k - 1] + Len(Code(points, k, 1)) + 0
  BY <1>0, LastByte
<1>3. /\ index \in Nat /\ points \in Seq(Int \X Int) /\ encoded = Encode(points) /\ DecoderIsAt(k)
  BY <1>0 DEF CodecInv
<1>4. /\ points[k][1] \in Int /\ points[k][2] \in Int
      /\ Previous(points, k) \in Int \X Int
      /\ Previous(points, k)[1] \in Int /\ Previous(points, k)[2] \in Int
  BY <1>2, <1>3, PreviousFacts
<1>5. ~(k > Len(points)) /\ Len(points) \in Nat
  BY <1>2, <1>3
<1>6. at = Previous(points, k)
  BY <1>3, <1>5 DEF DecoderIsAt
<1>7. at' = <<points[k][1], Previous(points, k)[2]>>
  <2>1. \A p \in Int \X Int : \A d \in Int : [p EXCEPT ![1] = @ + d] = <<p[1] + d, p[2]>>
    OBVIOUS
  <2>2. Previous(points, k)[1] + (points[k][1] - Previous(points, k)[1]) = points[k][1]
        /\ points[k][1] - Previous(points, k)[1] \in Int
    BY <1>4
  <2> QED BY <1>2, <1>4, <1>6, <2>1, <2>2
<1>8. PICK u : u = ZigZag(points[k][2] - Previous(points, k)[2])
  OBVIOUS
<1>9. /\ u \in Nat /\ Laid(encoded, index', Groups[u])
      /\ index' + Len(Groups[u]) = Ends[k - 1] + Len(Code(points, k, 1)) + Len(Code(points, k, 2))
  <2>1. index' = Ends[k - 1] + Len(Code(points, k, 1))
    <3>1. Ends[k - 1] \in Nat /\ Len(Code(points, k, 1)) \in Nat
      BY <1>2, <1>3, EndsFacts, CodeFacts
    <3> QED BY <1>2, <3>1
  <2>2. /\ u \in Nat /\ Groups[u] = Code(points, k, 2)
        /\ Laid(Encode(points), Ends[k - 1] + Len(Code(points, k, 1)), Groups[u])
    BY <1>2, <1>3, <1>8, Begins
  <2> QED BY <1>3, <2>1, <2>2
<1>10. Reading(k, u)'
  BY <1>1, <1>8, <1>9 DEF Reading, Ends
<1>11. DecoderIsAt(k)'
  BY <1>1, <1>5, <1>7, <1>9, <1>10 DEF DecoderIsAt
<1> QED BY <1>0, <1>1, <1>3, <1>11 DEF CodecInv

\* Behind a longitude the point is complete.
LEMMA LongitudeKeepsInv ==
    ASSUME CodecInv, ReadLast, axis = 2
    PROVE  CodecInv'
<1>0. PICK k \in Nat : k = Len(decoded) + 1
  BY DEF CodecInv
<1>1. /\ points' = points /\ encoded' = encoded /\ decoded' = Append(decoded, at') /\ axis' = 1
      /\ value' = 0 /\ unit' = 1 /\ index' = index + 1
  BY DEF ReadLast
<1>2. /\ k \in 1..Len(points)
      /\ at' = [at EXCEPT ![2] = @ + (points[k][2] - Previous(points, k)[2])]
      /\ index' = Ends[k - 1] + Len(Code(points, k, 1)) + Len(Code(points, k, 2))
  BY <1>0, LastByte
<1>3. /\ index \in Nat /\ points \in Seq(Int \X Int) /\ encoded = Encode(points) /\ DecoderIsAt(k)
      /\ decoded \in Seq(Int \X Int) /\ \A i \in 1..Len(decoded) : decoded[i] = points[i]
  BY <1>0 DEF CodecInv
<1>4. /\ points[k] \in Int \X Int /\ points[k][1] \in Int /\ points[k][2] \in Int
      /\ Previous(points, k)[1] \in Int /\ Previous(points, k)[2] \in Int
  BY <1>2, <1>3, PreviousFacts
<1>5. ~(k > Len(points)) /\ Len(points) \in Nat
  <2>1. k \in 1..Len(points) /\ points \in Seq(Int \X Int)
    BY <1>2, <1>3
  <2> QED BY <2>1
<1>6. at = <<points[k][1], Previous(points, k)[2]>>
  BY <1>3, <1>5 DEF DecoderIsAt
<1>7. at' = points[k]
  <2>1. \A p \in Int \X Int : \A x, y, d \in Int :
            /\ [<<x, y>> EXCEPT ![2] = @ + d] = <<x, y + d>>
            /\ p = <<p[1], p[2]>>
    OBVIOUS
  <2>2. Previous(points, k)[2] + (points[k][2] - Previous(points, k)[2]) = points[k][2]
        /\ points[k][2] - Previous(points, k)[2] \in Int
    BY <1>4
  <2>3. at' = <<points[k][1], Previous(points, k)[2] + (points[k][2] - Previous(points, k)[2])>>
    BY <1>2, <1>4, <1>6, <2>1, <2>2
  <2>4. points[k] = <<points[k][1], points[k][2]>>
    BY <1>4
  <2> QED BY <2>2, <2>3, <2>4
<1>8. /\ decoded' \in Seq(Int \X Int) /\ Len(decoded') = k
      /\ \A i \in 1..Len(decoded') : decoded'[i] = points[i]
  <2>1. \A s \in Seq(Int \X Int) : \A p \in Int \X Int :
            /\ Append(s, p) \in Seq(Int \X Int) /\ Len(Append(s, p)) = Len(s) + 1
            /\ \A i \in 1..(Len(s) + 1) :
                   Append(s, p)[i] = IF i = Len(s) + 1 THEN p ELSE s[i]
    OBVIOUS
  <2>2. /\ decoded' \in Seq(Int \X Int) /\ Len(decoded') = k
        /\ \A i \in 1..k : decoded'[i] = IF i = k THEN points[k] ELSE decoded[i]
    <3>1. decoded' = Append(decoded, points[k])
      BY <1>1, <1>7
    <3>2. points[k] \in Int \X Int /\ decoded \in Seq(Int \X Int)
      BY <1>3, <1>4
    <3> QED BY <1>0, <2>1, <3>1, <3>2
  <2>3. \A i \in 1..k : i = k \/ i \in 1..Len(decoded)
    BY <1>0, <1>3
  <2> QED BY <1>3, <2>2, <2>3
<1>9. index' = Ends[k]
  BY <1>2, <1>3, EndsFacts
<1>10. DecoderIsAt(k + 1)'
  <2>1. CASE k = Len(points)
    <3>1. Ends[k] = Len(encoded) /\ k + 1 > Len(points)
      BY <1>2, <1>3, <2>1, EndsFacts
    <3> QED BY <1>1, <1>9, <3>1 DEF DecoderIsAt
  <2>2. CASE k < Len(points)
    <3>1. PICK n \in 1..Len(points) : n = k + 1 /\ n - 1 = k
      BY <1>2, <1>5, <2>2
    <3>2. PICK u : u = ZigZag(points[n][1] - Previous(points, n)[1])
      OBVIOUS
    <3>3. index' = Ends[n - 1] + 0
      <4>1. Ends[n - 1] \in Nat /\ Ends[n - 1] = Ends[k]
        BY <1>3, <3>1, EndsFacts
      <4> QED BY <1>9, <4>1
    <3>4. /\ u \in Nat /\ Laid(encoded, index', Groups[u])
          /\ index' + Len(Groups[u]) = Ends[n - 1] + Len(Code(points, n, 1)) + 0
      <4>1. /\ u \in Nat /\ Groups[u] = Code(points, n, 1)
            /\ Laid(Encode(points), Ends[n - 1], Groups[u])
        BY <1>3, <3>2, Begins
      <4>2. Ends[n - 1] \in Nat /\ Len(Groups[u]) \in Nat
        BY <1>3, <4>1, EndsFacts, GroupsType
      <4>3. index' = Ends[n - 1] /\ Len(Groups[u]) = Len(Code(points, n, 1))
        BY <3>3, <4>1, <4>2
      <4>4. Ends[n - 1] + Len(Groups[u]) = Ends[n - 1] + Len(Groups[u]) + 0
        BY <4>2
      <4> QED BY <1>3, <4>1, <4>3, <4>4
    <3>5. Reading(n, u)'
      BY <1>1, <3>2, <3>4 DEF Reading, Ends
    <3>6. Previous(points, n) = points[k] /\ ~(n > Len(points))
      BY <1>2, <1>5, <3>1 DEF Previous
    <3>7. DecoderIsAt(n)'
      BY <1>1, <1>7, <3>4, <3>5, <3>6 DEF DecoderIsAt
    <3> QED BY <3>1, <3>7
  <2> QED BY <1>2, <1>5, <2>1, <2>2
<1>11. /\ index' \in Nat /\ unit' \in Nat /\ value' \in Nat /\ axis' \in {1, 2}
       /\ points' \in Seq(Int \X Int) /\ encoded' = Encode(points') /\ Len(decoded') <= Len(points')
  BY <1>1, <1>2, <1>3, <1>5, <1>8
<1>12. DecoderIsAt(Len(decoded) + 1)'
  BY <1>8, <1>10
<1> QED BY <1>1, <1>8, <1>11, <1>12 DEF CodecInv

LEMMA DecodeKeepsInv ==
    ASSUME CodecInv, [Decode]_codecVars
    PROVE  CodecInv'
<1>1. axis \in {1, 2}
  BY DEF CodecInv
<1>2. CASE ReadGroup
  BY <1>2, ReadGroupKeepsInv
<1>3. CASE ReadLast
  BY <1>1, <1>3, LatitudeKeepsInv, LongitudeKeepsInv
<1>4. CASE UNCHANGED codecVars
  BY <1>4 DEF codecVars, CodecInv, DecoderIsAt, Reading, Ends
<1> QED BY <1>2, <1>3, <1>4 DEF Decode

LEMMA SameSequence ==
    ASSUME NEW S, NEW s \in Seq(S), NEW t \in Seq(S), Len(s) = Len(t),
           \A i \in 1..Len(s) : s[i] = t[i]
    PROVE  s = t
OBVIOUS

LEMMA CodecInvariant == ShapeSpec => []CodecInv
<1>1. ShapeInit => CodecInv
  BY InitCodec DEF ShapeInit
<1>2. [ShapeNext]_shapeVars => [Decode]_codecVars
  BY DEF ShapeNext, shapeVars, DecodeShape, NextPoint, LookUp
<1>3. CodecInv /\ [ShapeNext]_shapeVars => CodecInv'
  BY <1>2, DecodeKeepsInv
<1> QED BY <1>1, <1>3, PTL DEF ShapeSpec

\* Decoding gives back every line encoded, whatever its length and the
\* differences between its points, and ends where the bytes do
\* (valhalla.go:698-766).
THEOREM DecodingInvertsEncoding == ShapeSpec => []RoundTrip
<1>1. ASSUME CodecInv PROVE IsPrefix(decoded, points)
  <2>1. /\ decoded \in Seq(Int \X Int) /\ points \in Seq(Int \X Int)
        /\ Len(decoded) \in Nat /\ Len(points) \in Nat /\ Len(decoded) <= Len(points)
        /\ \A i \in 1..Len(decoded) : decoded[i] = points[i]
    BY <1>1 DEF CodecInv
  <2> QED BY <2>1 DEF IsPrefix
<1>2. ASSUME CodecInv, Finished PROVE decoded = points /\ unit = 1 /\ axis = 1
  <2>1. /\ decoded \in Seq(Int \X Int) /\ points \in Seq(Int \X Int)
        /\ Len(decoded) \in Nat /\ Len(points) \in Nat /\ Len(decoded) <= Len(points)
        /\ \A i \in 1..Len(decoded) : decoded[i] = points[i]
        /\ encoded = Encode(points) /\ axis \in {1, 2} /\ DecoderIsAt(Len(decoded) + 1)
    BY <1>2 DEF CodecInv
  <2>2. CASE Len(decoded) = Len(points)
    <3>1. decoded = points
      BY <2>1, <2>2, SameSequence
    <3> QED BY <2>1, <2>2, <3>1 DEF DecoderIsAt
  <2>3. CASE Len(decoded) < Len(points)
    <3>1. PICK u \in Nat : Reading(Len(decoded) + 1, u)
      BY <2>1, <2>3 DEF DecoderIsAt
    <3>2. Len(Groups[u]) > 0 /\ Len(Groups[u]) \in Nat /\ index + Len(Groups[u]) <= Len(encoded)
      BY <3>1, GroupsType DEF Reading, Laid
    <3>3. Len(encoded) \in Nat /\ index = Len(encoded)
      BY <1>2, <2>1, EncodeFacts DEF Finished
    <3> QED BY <3>2, <3>3
  <2> QED BY <2>1, <2>2, <2>3
<1>3. CodecInv => RoundTrip
  BY <1>1, <1>2 DEF RoundTrip
<1> QED BY <1>3, CodecInvariant, PTL

-----------------------------------------------------------------------------
(* The ray and a triangle. *)

\* A side from height l to height m above the point, which lies to the left of
\* it (v > 0) or to the right: the ray crosses it.
RayCrosses(l, m, v) == (l > 0 /\ m <= 0 /\ v > 0) \/ (l <= 0 /\ m > 0 /\ v < 0)

LEMMA SignOfProduct ==
    ASSUME NEW x \in Int, NEW y \in Int
    PROVE  /\ x * y \in Int
           /\ x > 0 /\ y > 0 => x * y > 0
           /\ x >= 0 /\ y >= 0 => x * y >= 0
           /\ x < 0 /\ y < 0 => x * y > 0
           /\ x <= 0 /\ y <= 0 => x * y >= 0
           /\ x > 0 /\ y < 0 => x * y < 0
           /\ x >= 0 /\ y <= 0 => x * y <= 0
           /\ x < 0 /\ y > 0 => x * y < 0
           /\ x <= 0 /\ y >= 0 => x * y <= 0
<1>1. x * y \in Int
  OBVIOUS
<1>2. x > 0 /\ y > 0 => x * y > 0
  OBVIOUS
<1>3. x < 0 /\ y < 0 => x * y > 0
  OBVIOUS
<1>4. x > 0 /\ y < 0 => x * y < 0
  OBVIOUS
<1>5. x < 0 /\ y > 0 => x * y < 0
  OBVIOUS
<1>6. x = 0 \/ y = 0 => x * y = 0
  OBVIOUS
<1> QED BY <1>1, <1>2, <1>3, <1>4, <1>5, <1>6

\* A triangle whose corners have heights l, m and n; the point lies at signed
\* areas u, v and w to the sides opposite of them.
Triangle(l, m, n, u, v, w) ==
    /\ l \in Int /\ m \in Int /\ n \in Int /\ u \in Int /\ v \in Int /\ w \in Int
    /\ u * l + v * m + w * n = 0
    /\ u + v + w > 0
    /\ ~(l = 0 /\ m = 0 /\ n = 0)

\* One corner is on another side of the level of the point than the others.
LEMMA OneCornerApart ==
    ASSUME NEW l, NEW m, NEW n, NEW u, NEW v, NEW w, Triangle(l, m, n, u, v, w),
           \/ l > 0 /\ m <= 0 /\ n <= 0
           \/ l <= 0 /\ m > 0 /\ n > 0
    PROVE  /\ ~RayCrosses(m, n, u)
           /\ u > 0 /\ v > 0 /\ w > 0 => (RayCrosses(n, l, v) # RayCrosses(l, m, w))
           /\ u < 0 \/ v < 0 \/ w < 0 => (RayCrosses(n, l, v) <=> RayCrosses(l, m, w))
<1>1. /\ l \in Int /\ m \in Int /\ n \in Int /\ u \in Int /\ v \in Int /\ w \in Int
      /\ u * l + v * m + w * n = 0 /\ u + v + w > 0
  BY DEF Triangle
<1>2. u * l \in Int /\ v * m \in Int /\ w * n \in Int
  BY <1>1
<1>3. CASE l > 0 /\ m <= 0 /\ n <= 0
  <2>1. (RayCrosses(n, l, v) <=> v < 0) /\ (RayCrosses(l, m, w) <=> w > 0) /\ ~RayCrosses(m, n, u)
    BY <1>1, <1>3 DEF RayCrosses
  <2>2. ASSUME v >= 0, w > 0 PROVE u >= 0
    <3>1. v * m <= 0 /\ w * n <= 0
      BY <1>1, <1>3, <2>2, SignOfProduct
    <3>2. u * l >= 0
      BY <1>1, <1>2, <3>1
    <3>3. u < 0 => u * l < 0
      BY <1>1, <1>3, SignOfProduct
    <3> QED BY <1>1, <1>2, <3>2, <3>3
  <2>3. ASSUME v < 0, w <= 0 PROVE FALSE
    <3>1. v * m >= 0 /\ w * n >= 0
      BY <1>1, <1>3, <2>3, SignOfProduct
    <3>2. u * l <= 0
      BY <1>1, <1>2, <3>1
    <3>3. u > 0 => u * l > 0
      BY <1>1, <1>3, SignOfProduct
    <3> QED BY <1>1, <1>2, <2>3, <3>2, <3>3
  <2> QED BY <1>1, <2>1, <2>2, <2>3
<1>4. CASE l <= 0 /\ m > 0 /\ n > 0
  <2>1. (RayCrosses(n, l, v) <=> v > 0) /\ (RayCrosses(l, m, w) <=> w < 0) /\ ~RayCrosses(m, n, u)
    BY <1>1, <1>4 DEF RayCrosses
  <2>2. ASSUME v > 0, w >= 0 PROVE u >= 0
    <3>1. v * m > 0 /\ w * n >= 0
      BY <1>1, <1>4, <2>2, SignOfProduct
    <3>2. u * l < 0
      BY <1>1, <1>2, <3>1
    <3>3. u < 0 => u * l >= 0
      BY <1>1, <1>4, SignOfProduct
    <3> QED BY <1>1, <1>2, <3>2, <3>3
  <2>3. ASSUME v <= 0, w < 0 PROVE FALSE
    <3>1. v * m <= 0 /\ w * n < 0
      BY <1>1, <1>4, <2>3, SignOfProduct
    <3>2. u * l > 0
      BY <1>1, <1>2, <3>1
    <3>3. u >= 0 => u * l <= 0
      BY <1>1, <1>4, SignOfProduct
    <3> QED BY <1>1, <1>2, <2>3, <3>2, <3>3
  <2> QED BY <1>1, <2>1, <2>2, <2>3
<1> QED BY <1>3, <1>4

LEMMA Rotated ==
    ASSUME NEW l, NEW m, NEW n, NEW u, NEW v, NEW w, Triangle(l, m, n, u, v, w)
    PROVE  Triangle(m, n, l, v, w, u)
<1>1. /\ l \in Int /\ m \in Int /\ n \in Int /\ u \in Int /\ v \in Int /\ w \in Int
      /\ u * l \in Int /\ v * m \in Int /\ w * n \in Int
  BY DEF Triangle
<1> QED BY <1>1 DEF Triangle

\* The three sides in the order of the loop.
Odd(l, m, n, u, v, w) == (RayCrosses(n, l, v) # RayCrosses(l, m, w)) # RayCrosses(m, n, u)

\* The number of sides crossed is odd when the point lies to the left of all of
\* them, and even when it lies to the right of one.
LEMMA OddInside ==
    ASSUME NEW l, NEW m, NEW n, NEW u, NEW v, NEW w, Triangle(l, m, n, u, v, w)
    PROVE  /\ u > 0 /\ v > 0 /\ w > 0 => Odd(l, m, n, u, v, w)
           /\ u < 0 \/ v < 0 \/ w < 0 => ~Odd(l, m, n, u, v, w)
<1> DEFINE x == RayCrosses(n, l, v)
           y == RayCrosses(l, m, w)
           z == RayCrosses(m, n, u)
           all == u > 0 /\ v > 0 /\ w > 0
           some == u < 0 \/ v < 0 \/ w < 0
<1>1. /\ l \in Int /\ m \in Int /\ n \in Int /\ u \in Int /\ v \in Int /\ w \in Int
      /\ u * l \in Int /\ v * m \in Int /\ w * n \in Int
      /\ u * l + v * m + w * n = 0 /\ ~(l = 0 /\ m = 0 /\ n = 0)
  BY DEF Triangle
<1>2. x \in BOOLEAN /\ y \in BOOLEAN /\ z \in BOOLEAN
  BY DEF RayCrosses
<1> DEFINE odd == Odd(l, m, n, u, v, w)
<1>8. odd = ((x # y) # z)
  BY DEF Odd
<1> HIDE DEF odd, x, y, z
<1>3. CASE l > 0 /\ m > 0 /\ n > 0
  <2>1. ~x /\ ~y /\ ~z
    BY <1>1, <1>3 DEF RayCrosses, x, y, z
  <2>2. ~all
    <3> SUFFICES ASSUME all PROVE FALSE
      OBVIOUS
    <3>1. u * l > 0 /\ v * m > 0 /\ w * n > 0
      BY <1>1, <1>3, SignOfProduct
    <3> QED BY <1>1, <3>1
  <2>3. ~odd
    BY <1>2, <1>8, <2>1
  <2> QED BY <2>2, <2>3 DEF odd
<1>4. CASE l <= 0 /\ m <= 0 /\ n <= 0
  <2>1. ~x /\ ~y /\ ~z
    BY <1>1, <1>4 DEF RayCrosses, x, y, z
  <2>2. ~all
    <3> SUFFICES ASSUME all PROVE FALSE
      OBVIOUS
    <3>1. u * l <= 0 /\ v * m <= 0 /\ w * n <= 0
      BY <1>1, <1>4, SignOfProduct
    <3>2. l < 0 \/ m < 0 \/ n < 0
      BY <1>1, <1>4
    <3>3. u * l < 0 \/ v * m < 0 \/ w * n < 0
      BY <1>1, <3>2, SignOfProduct
    <3> QED BY <1>1, <3>1, <3>3
  <2>3. ~odd
    BY <1>2, <1>8, <2>1
  <2> QED BY <2>2, <2>3 DEF odd
<1>5. CASE (l > 0 /\ m <= 0 /\ n <= 0) \/ (l <= 0 /\ m > 0 /\ n > 0)
  <2>1. ~z /\ (all => (x # y)) /\ (some => (x <=> y))
    BY <1>5, OneCornerApart DEF x, y, z
  <2> QED BY <1>2, <1>8, <2>1 DEF odd
<1>6. CASE (m > 0 /\ n <= 0 /\ l <= 0) \/ (m <= 0 /\ n > 0 /\ l > 0)
  <2>1. ~x /\ (all => (y # z)) /\ (some => (y <=> z))
    BY <1>6, Rotated, OneCornerApart DEF x, y, z
  <2> QED BY <1>2, <1>8, <2>1 DEF odd
<1>7. CASE (n > 0 /\ l <= 0 /\ m <= 0) \/ (n <= 0 /\ l > 0 /\ m > 0)
  <2>1. Triangle(n, l, m, w, u, v)
    BY Rotated
  <2>2. ~y /\ (all => (z # x)) /\ (some => (z <=> x))
    BY <1>7, <2>1, OneCornerApart DEF x, y, z
  <2> QED BY <1>2, <1>8, <2>2 DEF odd
<1> QED BY <1>1, <1>3, <1>4, <1>5, <1>6, <1>7

\* The corners of a triangle, seen from the point.
Seen(a, b, c, p, l, m, n, u, v, w) ==
    /\ l = a[1] - p[1] /\ m = b[1] - p[1] /\ n = c[1] - p[1]
    /\ u = Cross(b, c, p) /\ v = Cross(c, a, p) /\ w = Cross(a, b, p)

LEMMA AreasOfCoordinates ==
    ASSUME NEW a1 \in Int, NEW a2 \in Int, NEW b1 \in Int, NEW b2 \in Int, NEW c1 \in Int,
           NEW c2 \in Int, NEW p1 \in Int, NEW p2 \in Int,
           NEW u, NEW v, NEW w,
           u = (c1 - b1) * (p2 - b2) - (c2 - b2) * (p1 - b1),
           v = (a1 - c1) * (p2 - c2) - (a2 - c2) * (p1 - c1),
           w = (b1 - a1) * (p2 - a2) - (b2 - a2) * (p1 - a1)
    PROVE  /\ u \in Int /\ v \in Int /\ w \in Int
           /\ u * (a1 - p1) + v * (b1 - p1) + w * (c1 - p1) = 0
           /\ u + v + w = (b1 - a1) * (c2 - a2) - (b2 - a2) * (c1 - a1)
<1>1. u \in Int /\ v \in Int /\ w \in Int
  OBVIOUS
<1>2. u + v + w = (b1 - a1) * (c2 - a2) - (b2 - a2) * (c1 - a1)
  OBVIOUS
<1>3. u * (a1 - p1) + v * (b1 - p1) + w * (c1 - p1) = 0
  OBVIOUS
<1> QED BY <1>1, <1>2, <1>3

LEMMA SeenFacts ==
    ASSUME NEW a \in Int \X Int, NEW b \in Int \X Int, NEW c \in Int \X Int, NEW p \in Int \X Int,
           Cross(a, b, c) > 0,
           NEW l, NEW m, NEW n, NEW u, NEW v, NEW w, Seen(a, b, c, p, l, m, n, u, v, w)
    PROVE  Triangle(l, m, n, u, v, w)
<1>1. /\ a[1] \in Int /\ a[2] \in Int /\ b[1] \in Int /\ b[2] \in Int
      /\ c[1] \in Int /\ c[2] \in Int /\ p[1] \in Int /\ p[2] \in Int
  OBVIOUS
<1>2. /\ u \in Int /\ v \in Int /\ w \in Int
      /\ u * (a[1] - p[1]) + v * (b[1] - p[1]) + w * (c[1] - p[1]) = 0
      /\ u + v + w = Cross(a, b, c)
  BY <1>1, AreasOfCoordinates DEF Seen, Cross
<1>3. l \in Int /\ m \in Int /\ n \in Int
  BY <1>1 DEF Seen
<1>4. ~(l = 0 /\ m = 0 /\ n = 0)
  <2> SUFFICES ASSUME l = 0, m = 0, n = 0 PROVE FALSE
    OBVIOUS
  <2>1. b[1] - a[1] = 0 /\ c[1] - a[1] = 0
    BY <1>1 DEF Seen
  <2>2. b[2] - a[2] \in Int /\ c[2] - a[2] \in Int
    BY <1>1
  <2>3. Cross(a, b, c) = 0
    BY <2>1, <2>2 DEF Cross
  <2> QED BY <2>3
<1> QED BY <1>2, <1>3, <1>4 DEF Triangle, Seen

\* Between the ends of a side, a point is to the left of what the side is to
\* the left of: e is the side, r leads from its beginning to the point, and w
\* from another corner to that beginning.
LEMMA BetweenTheEnds ==
    ASSUME NEW e1 \in Int, NEW e2 \in Int, NEW r1 \in Int, NEW r2 \in Int,
           NEW w1 \in Int, NEW w2 \in Int,
           e1 * r2 - e2 * r1 = 0, r1 * (r1 - e1) + r2 * (r2 - e2) < 0, w1 * e2 - w2 * e1 > 0
    PROVE  w1 * r2 - w2 * r1 > 0
<1> DEFINE L == e1 * e1 + e2 * e2
           d == r1 * e1 + r2 * e2
           W == w1 * e2 - w2 * e1
           V == w1 * r2 - w2 * r1
           K == w1 * e1 + w2 * e2
<1>1. L \in Int /\ d \in Int /\ W \in Int /\ V \in Int /\ K \in Int
  OBVIOUS
<1>2. V * L - W * d = K * (e1 * r2 - e2 * r1)
  OBVIOUS
<1>3. d > 0
  <2>1. r1 * r1 >= 0 /\ r2 * r2 >= 0 /\ r1 * r1 \in Int /\ r2 * r2 \in Int
    BY SignOfProduct
  <2>2. r1 * (r1 - e1) + r2 * (r2 - e2) = (r1 * r1) + (r2 * r2) - d
    OBVIOUS
  <2> QED BY <1>1, <2>1, <2>2
<1>4. L >= 0
  <2>1. e1 * e1 >= 0 /\ e2 * e2 >= 0 /\ e1 * e1 \in Int /\ e2 * e2 \in Int
    BY SignOfProduct
  <2> QED BY <2>1
<1>5. W > 0
  OBVIOUS
<1>6. K * (e1 * r2 - e2 * r1) = 0
  BY <1>1
<1> HIDE DEF L, d, W, V, K
<1>7. V * L > 0
  <2>1. W * d > 0 /\ W * d \in Int /\ V * L \in Int
    BY <1>1, <1>3, <1>5, SignOfProduct
  <2> QED BY <1>2, <1>6, <2>1
<1>8. V > 0
  BY <1>1, <1>4, <1>7, SignOfProduct
<1> QED BY <1>8 DEF V

LEMMA BorderCoordinates ==
    ASSUME NEW a1 \in Int, NEW a2 \in Int, NEW b1 \in Int, NEW b2 \in Int,
           NEW d1 \in Int, NEW d2 \in Int, NEW p1 \in Int, NEW p2 \in Int,
           (b1 - a1) * (d2 - a2) - (b2 - a2) * (d1 - a1) > 0,
           (d1 - b1) * (p2 - b2) - (d2 - b2) * (p1 - b1) = 0,
           (p1 - b1) * (p1 - d1) + (p2 - b2) * (p2 - d2) < 0
    PROVE  /\ (b1 - a1) * (p2 - a2) - (b2 - a2) * (p1 - a1) > 0
           /\ (a1 - d1) * (p2 - d2) - (a2 - d2) * (p1 - d1) > 0
<1> DEFINE e1 == d1 - b1
           e2 == d2 - b2
           r1 == p1 - b1
           r2 == p2 - b2
           w1 == b1 - a1
           w2 == b2 - a2
<1>1. (b1 - a1) * (p2 - a2) - (b2 - a2) * (p1 - a1) > 0
  <2>1. /\ e1 \in Int /\ e2 \in Int /\ r1 \in Int /\ r2 \in Int /\ w1 \in Int /\ w2 \in Int
        /\ e1 * r2 - e2 * r1 = 0
        /\ p1 - d1 = r1 - e1 /\ p2 - d2 = r2 - e2
    OBVIOUS
  <2>2. w1 * e2 - w2 * e1 = (b1 - a1) * (d2 - a2) - (b2 - a2) * (d1 - a1)
    OBVIOUS
  <2>3. r1 * (r1 - e1) + r2 * (r2 - e2) < 0
    BY <2>1
  <2>4. w1 * r2 - w2 * r1 = (b1 - a1) * (p2 - a2) - (b2 - a2) * (p1 - a1)
    OBVIOUS
  <2>5. w1 * e2 - w2 * e1 > 0
    BY <2>2
  <2> HIDE DEF e1, e2, r1, r2, w1, w2
  <2>6. w1 * r2 - w2 * r1 > 0
    BY <2>1, <2>3, <2>5, BetweenTheEnds
  <2> QED BY <2>4, <2>6
<1>2. (a1 - d1) * (p2 - d2) - (a2 - d2) * (p1 - d1) > 0
  <2> DEFINE f1 == b1 - d1
             f2 == b2 - d2
             s1 == p1 - d1
             s2 == p2 - d2
             x1 == a1 - d1
             x2 == a2 - d2
  <2>1. /\ f1 \in Int /\ f2 \in Int /\ s1 \in Int /\ s2 \in Int /\ x1 \in Int /\ x2 \in Int
        /\ p1 - b1 = s1 - f1 /\ p2 - b2 = s2 - f2
    OBVIOUS
  <2>2. x1 * f2 - x2 * f1 = (b1 - a1) * (d2 - a2) - (b2 - a2) * (d1 - a1)
    OBVIOUS
  <2>3. (s1 - f1) * s1 + (s2 - f2) * s2 < 0
    BY <2>1
  <2>4. f1 * s2 - f2 * s1 = -((d1 - b1) * (p2 - b2) - (d2 - b2) * (p1 - b1))
    OBVIOUS
  <2>5. x1 * f2 - x2 * f1 > 0 /\ f1 * s2 - f2 * s1 = 0
    BY <2>2, <2>4
  <2> HIDE DEF f1, f2, s1, s2, x1, x2
  <2>6. s1 * (s1 - f1) + s2 * (s2 - f2) < 0
    BY <2>1, <2>3
  <2>7. x1 * s2 - x2 * s1 > 0
    BY <2>1, <2>5, <2>6, BetweenTheEnds
  <2> QED BY <2>7 DEF s1, s2, x1, x2
<1> QED BY <1>1, <1>2

\* A border with the point on it, and a triangle to its left.
LEMMA LeftOfTheBorder ==
    ASSUME NEW a \in Int \X Int, NEW b \in Int \X Int, NEW d \in Int \X Int,
           NEW p \in Int \X Int, Cross(a, b, d) > 0, Between(b, d, p)
    PROVE  Cross(b, d, p) = 0 /\ Cross(d, a, p) > 0 /\ Cross(a, b, p) > 0
<1>1. /\ a[1] \in Int /\ a[2] \in Int /\ b[1] \in Int /\ b[2] \in Int
      /\ d[1] \in Int /\ d[2] \in Int /\ p[1] \in Int /\ p[2] \in Int
  OBVIOUS
<1>2. /\ (b[1] - a[1]) * (d[2] - a[2]) - (b[2] - a[2]) * (d[1] - a[1]) > 0
      /\ (d[1] - b[1]) * (p[2] - b[2]) - (d[2] - b[2]) * (p[1] - b[1]) = 0
      /\ (p[1] - b[1]) * (p[1] - d[1]) + (p[2] - b[2]) * (p[2] - d[2]) < 0
  BY DEF Cross, Between
<1>3. /\ (b[1] - a[1]) * (p[2] - a[2]) - (b[2] - a[2]) * (p[1] - a[1]) > 0
      /\ (a[1] - d[1]) * (p[2] - d[2]) - (a[2] - d[2]) * (p[1] - d[1]) > 0
  <2>1. PICK a1 \in Int, a2 \in Int : a1 = a[1] /\ a2 = a[2]
    BY <1>1
  <2>2. PICK b1 \in Int, b2 \in Int : b1 = b[1] /\ b2 = b[2]
    BY <1>1
  <2>3. PICK d1 \in Int, d2 \in Int : d1 = d[1] /\ d2 = d[2]
    BY <1>1
  <2>4. PICK p1 \in Int, p2 \in Int : p1 = p[1] /\ p2 = p[2]
    BY <1>1
  <2>5. /\ (b1 - a1) * (d2 - a2) - (b2 - a2) * (d1 - a1) > 0
        /\ (d1 - b1) * (p2 - b2) - (d2 - b2) * (p1 - b1) = 0
        /\ (p1 - b1) * (p1 - d1) + (p2 - b2) * (p2 - d2) < 0
    BY <1>2, <2>1, <2>2, <2>3, <2>4
  <2>6. /\ (b1 - a1) * (p2 - a2) - (b2 - a2) * (p1 - a1) > 0
        /\ (a1 - d1) * (p2 - d2) - (a2 - d2) * (p1 - d1) > 0
    BY <2>5, BorderCoordinates, ZenonT(30)
  <2> QED BY <2>1, <2>2, <2>3, <2>4, <2>6
<1> QED BY <1>3 DEF Cross, Between

LEMMA OtherWayRound ==
    ASSUME NEW b \in Int \X Int, NEW d \in Int \X Int, NEW p \in Int \X Int
    PROVE  /\ Cross(d, b, p) \in Int /\ Cross(b, d, p) \in Int
           /\ Cross(d, b, p) + Cross(b, d, p) = 0
           /\ Between(b, d, p) => Between(d, b, p)
<1>1. b[1] \in Int /\ b[2] \in Int /\ d[1] \in Int /\ d[2] \in Int /\ p[1] \in Int /\ p[2] \in Int
  OBVIOUS
<1>2. \A b1, b2, d1, d2, p1, p2 \in Int :
          /\ (b1 - d1) * (p2 - d2) - (b2 - d2) * (p1 - d1) \in Int
          /\ ((b1 - d1) * (p2 - d2) - (b2 - d2) * (p1 - d1))
                 + ((d1 - b1) * (p2 - b2) - (d2 - b2) * (p1 - b1)) = 0
  OBVIOUS
<1>3. \A x1, y1, x2, y2 \in Int : x1 * y1 + x2 * y2 = y1 * x1 + y2 * x2
  OBVIOUS
<1>4. /\ Cross(d, b, p) \in Int /\ Cross(b, d, p) \in Int
      /\ Cross(d, b, p) + Cross(b, d, p) = 0
  BY <1>1, <1>2 DEF Cross
<1>5. (p[1] - b[1]) * (p[1] - d[1]) + (p[2] - b[2]) * (p[2] - d[2])
          = (p[1] - d[1]) * (p[1] - b[1]) + (p[2] - d[2]) * (p[2] - b[2])
  BY <1>1, <1>3
<1>6. ASSUME Between(b, d, p) PROVE Between(d, b, p)
  <2>1. Cross(b, d, p) = 0
    BY <1>6 DEF Between
  <2>2. Cross(d, b, p) = 0
    BY <1>4, <2>1
  <2>3. (p[1] - b[1]) * (p[1] - d[1]) + (p[2] - b[2]) * (p[2] - d[2]) < 0
    BY <1>6 DEF Between
  <2> QED BY <1>5, <2>2, <2>3 DEF Between
<1> QED BY <1>4, <1>6

\* Two triangles on both sides of a border on which the point lies: the ray is
\* in one of them.
LEMMA OneSideOfTheBorder ==
    ASSUME NEW a, NEW b, NEW c, NEW d, NEW v, NEW w, NEW x, NEW y,
           Triangle(a, b, d, 0, v, w), Triangle(c, d, b, 0, x, y),
           v > 0, w > 0, x > 0, y > 0,
           b = 0 /\ d = 0 => a > 0 \/ c > 0
    PROVE  Odd(a, b, d, 0, v, w) \/ Odd(c, d, b, 0, x, y)
<1>1. /\ a \in Int /\ b \in Int /\ c \in Int /\ d \in Int
      /\ v \in Int /\ w \in Int /\ x \in Int /\ y \in Int
      /\ 0 * a + v * b + w * d = 0
  BY DEF Triangle
<1>2. v * b \in Int /\ w * d \in Int /\ v * b + w * d = 0
  BY <1>1
<1>3. \/ b > 0 /\ d < 0
      \/ b < 0 /\ d > 0
      \/ b = 0 /\ d = 0
  <2>1. /\ b > 0 => v * b > 0
        /\ b < 0 => v * b < 0
        /\ b = 0 => v * b = 0
    BY <1>1, SignOfProduct
  <2>2. /\ d > 0 => w * d > 0
        /\ d < 0 => w * d < 0
        /\ d = 0 => w * d = 0
    BY <1>1, SignOfProduct
  <2> QED BY <1>1, <1>2, <2>1, <2>2
<1>4. CASE b > 0 /\ d < 0
  <2>1. (RayCrosses(b, c, x) <=> c <= 0) /\ (RayCrosses(c, d, y) <=> c > 0) /\ ~RayCrosses(d, b, 0)
    BY <1>1, <1>4 DEF RayCrosses
  <2>3. RayCrosses(b, c, x) # RayCrosses(c, d, y)
    BY <1>1, <2>1
  <2> QED BY <2>1, <2>3 DEF Odd
<1>5. CASE b < 0 /\ d > 0
  <2>1. (RayCrosses(d, a, v) <=> a <= 0) /\ (RayCrosses(a, b, w) <=> a > 0) /\ ~RayCrosses(b, d, 0)
    BY <1>1, <1>5 DEF RayCrosses
  <2>3. RayCrosses(d, a, v) # RayCrosses(a, b, w)
    BY <1>1, <2>1
  <2> QED BY <2>1, <2>3 DEF Odd
<1>6. CASE b = 0 /\ d = 0 /\ a > 0
  <2>1. ~RayCrosses(d, a, v) /\ RayCrosses(a, b, w) /\ ~RayCrosses(b, d, 0)
    BY <1>1, <1>6 DEF RayCrosses
  <2> QED BY <2>1 DEF Odd
<1>7. CASE b = 0 /\ d = 0 /\ c > 0
  <2>1. ~RayCrosses(b, c, x) /\ RayCrosses(c, d, y) /\ ~RayCrosses(d, b, 0)
    BY <1>1, <1>7 DEF RayCrosses
  <2> QED BY <2>1 DEF Odd
<1> QED BY <1>3, <1>4, <1>5, <1>6, <1>7

\* A level border has one of the triangles above it.
LEMMA LevelBorder ==
    ASSUME NEW a \in Int \X Int, NEW b \in Int \X Int, NEW c \in Int \X Int,
           NEW d \in Int \X Int, NEW h \in Int,
           Cross(a, b, d) > 0, Cross(c, d, b) > 0, b[1] - h = 0, d[1] - h = 0
    PROVE  a[1] - h > 0 \/ c[1] - h > 0
<1>1. /\ a[1] \in Int /\ a[2] \in Int /\ b[1] \in Int /\ b[2] \in Int
      /\ c[1] \in Int /\ c[2] \in Int /\ d[1] \in Int /\ d[2] \in Int
  OBVIOUS
<1>2. \A a1, a2, k, b2, c1, c2, d2 \in Int :
          /\ (k - a1) * (d2 - a2) - (b2 - a2) * (k - a1) = (k - a1) * (d2 - b2)
          /\ (k - c1) * (b2 - c2) - (d2 - c2) * (k - c1) = -((k - c1) * (d2 - b2))
  OBVIOUS
<1>3. b[1] = h /\ d[1] = h
  BY <1>1
<1> DEFINE x == h - a[1]
           y == h - c[1]
           z == d[2] - b[2]
<1>4. x \in Int /\ y \in Int /\ z \in Int
  BY <1>1
<1>5. Cross(a, b, d) = x * z /\ Cross(c, d, b) = -(y * z)
  BY <1>1, <1>2, <1>3 DEF Cross
<1> HIDE DEF x, y, z
<1>6. x * z > 0 /\ y * z < 0
  <2>1. x * z \in Int /\ y * z \in Int
    BY <1>4
  <2> QED BY <1>5, <2>1
<1>7. x < 0 \/ y < 0
  BY <1>4, <1>6, SignOfProduct
<1> QED BY <1>1, <1>7 DEF x, y

-----------------------------------------------------------------------------
(* pointInPolygon and countryFromCoord on two triangles. *)

Height(t, p, k) == t[k][1] - p[1]

\* The ray crosses the side from corner j to corner k.
SideCrossed(t, p, j, k) == RayCrosses(Height(t, p, j), Height(t, p, k), Cross(t[j], t[k], p))

Holds(t, p) ==
    (SideCrossed(t, p, 3, 1) # SideCrossed(t, p, 1, 2)) # SideCrossed(t, p, 2, 3)

\* What the loop has found out when it comes to a side.
Before(t, p, s) ==
    IF s = 1 THEN FALSE
    ELSE IF s = 2 THEN SideCrossed(t, p, 3, 1)
    ELSE IF s = 3 THEN SideCrossed(t, p, 3, 1) # SideCrossed(t, p, 1, 2)
    ELSE Holds(t, p)

Corner(t) == /\ t \in Seq(Int \X Int) /\ Len(t) = 3
             /\ t[1] \in Int \X Int /\ t[2] \in Int \X Int /\ t[3] \in Int \X Int
             /\ Cross(t[1], t[2], t[3]) > 0

\* Each side of a triangle is tested.
LEMMA ThreeSides ==
    ASSUME Len(Polygon) = 3
    PROVE  SideCount = 3
<1>1. ~(Len(Polygon) < 3)
  OBVIOUS
<1> QED BY <1>1 DEF SideCount

LEMMA MapFacts ==
    ASSUME NEW m \in Maps
    PROVE  /\ Len(m) = 2 /\ DOMAIN m = 1..2 /\ Corner(m[1]) /\ Corner(m[2])
           /\ m[1][2] = m[2][3] /\ m[1][3] = m[2][2]
<1>1. /\ m \in Seq(Seq(Int \X Int)) /\ Len(m) = 2
      /\ \A k \in 1..2 : Len(m[k]) = 3 /\ Cross(m[k][1], m[k][2], m[k][3]) > 0
      /\ m[1][2] = m[2][3] /\ m[1][3] = m[2][2]
  BY MapAssumption, TriangleAssumption
<1>2. DOMAIN m = 1..2 /\ \A k \in 1..2 : m[k] \in Seq(Int \X Int)
  <2>1. \A S : \A s \in Seq(S) : DOMAIN s = 1..Len(s) /\ \A j \in 1..Len(s) : s[j] \in S
    OBVIOUS
  <2> QED BY <1>1, <2>1
<1>3. ASSUME NEW t \in Seq(Int \X Int), Len(t) = 3
      PROVE  t[1] \in Int \X Int /\ t[2] \in Int \X Int /\ t[3] \in Int \X Int
  <2>1. \A k \in 1..Len(t) : t[k] \in Int \X Int
    <3>1. \A S : \A s \in Seq(S) : \A k \in 1..Len(s) : s[k] \in S
      OBVIOUS
    <3> QED BY <1>3, <3>1
  <2>2. 1 \in 1..Len(t) /\ 2 \in 1..Len(t) /\ 3 \in 1..Len(t)
    BY <1>3
  <2> QED BY <2>1, <2>2
<1>4. ASSUME NEW k \in 1..2 PROVE Corner(m[k])
  BY <1>1, <1>2, <1>3 DEF Corner
<1> QED BY <1>1, <1>2, <1>4

LEMMA TriangleSeen ==
    ASSUME NEW t, Corner(t), NEW p \in Int \X Int,
           NEW l, l = Height(t, p, 1), NEW m, m = Height(t, p, 2), NEW n, n = Height(t, p, 3),
           NEW u, u = Cross(t[2], t[3], p), NEW v, v = Cross(t[3], t[1], p),
           NEW w, w = Cross(t[1], t[2], p)
    PROVE  /\ Triangle(l, m, n, u, v, w)
           /\ Holds(t, p) <=> Odd(l, m, n, u, v, w)
<1>1. Seen(t[1], t[2], t[3], p, l, m, n, u, v, w)
  BY DEF Seen, Height
<1>2. Triangle(l, m, n, u, v, w)
  BY <1>1, SeenFacts DEF Corner
<1> QED BY <1>2 DEF Holds, Odd, SideCrossed

\* What lies to the left of every side is inside, what lies to the right of
\* one is not.
LEMMA HoldsWhatIsInside ==
    ASSUME NEW t, Corner(t), NEW p \in Int \X Int
    PROVE  /\ Within(t, p) => Holds(t, p)
           /\ Beyond(t, p) => ~Holds(t, p)
<1>1. PICK l, m, n : l = Height(t, p, 1) /\ m = Height(t, p, 2) /\ n = Height(t, p, 3)
  OBVIOUS
<1>2. PICK u, v, w : /\ u = Cross(t[2], t[3], p) /\ v = Cross(t[3], t[1], p)
                     /\ w = Cross(t[1], t[2], p)
  OBVIOUS
<1>3. Triangle(l, m, n, u, v, w) /\ (Holds(t, p) <=> Odd(l, m, n, u, v, w))
  BY <1>1, <1>2, TriangleSeen
<1>4. /\ u > 0 /\ v > 0 /\ w > 0 => Odd(l, m, n, u, v, w)
      /\ u < 0 \/ v < 0 \/ w < 0 => ~Odd(l, m, n, u, v, w)
  BY <1>3, OddInside
<1> QED BY <1>2, <1>3, <1>4 DEF Within, Beyond

\* The country of a point is not beyond it, and a border has one.
Right(m, p, k) ==
    /\ \A j \in 1..2 : Within(m[j], p) => k = j
    /\ k # None => ~Beyond(m[k], p)
    /\ Between(m[1][2], m[1][3], p) => k # None

LEMMA CountriesAreApart ==
    ASSUME NEW m \in Maps, NEW p \in Int \X Int, Within(m[2], p)
    PROVE  Beyond(m[1], p)
<1>1. Corner(m[1]) /\ m[1][2] = m[2][3] /\ m[1][3] = m[2][2]
  BY MapFacts
<1>2. Cross(m[1][3], m[1][2], p) > 0
  BY <1>1 DEF Within
<1>3. Cross(m[1][2], m[1][3], p) < 0
  <2>1. /\ Cross(m[1][3], m[1][2], p) \in Int /\ Cross(m[1][2], m[1][3], p) \in Int
        /\ Cross(m[1][3], m[1][2], p) + Cross(m[1][2], m[1][3], p) = 0
    BY <1>1, OtherWayRound DEF Corner
  <2> QED BY <1>2, <2>1
<1> QED BY <1>3 DEF Beyond

LEMMA BorderIsHeld ==
    ASSUME NEW m \in Maps, NEW p \in Int \X Int, Between(m[1][2], m[1][3], p)
    PROVE  Holds(m[1], p) \/ Holds(m[2], p)
<1>1. PICK a \in Int \X Int : a = m[1][1]
  BY MapFacts DEF Corner
<1>2. PICK b \in Int \X Int : b = m[1][2] /\ b = m[2][3]
  BY MapFacts DEF Corner
<1>3. PICK c \in Int \X Int : c = m[2][1]
  BY MapFacts DEF Corner
<1>4. PICK d \in Int \X Int : d = m[1][3] /\ d = m[2][2]
  BY MapFacts DEF Corner
<1>5. Cross(a, b, d) > 0 /\ Cross(c, d, b) > 0 /\ Between(b, d, p) /\ Between(d, b, p)
  <2>1. Cross(a, b, d) > 0 /\ Cross(c, d, b) > 0
    BY <1>1, <1>2, <1>3, <1>4, MapFacts DEF Corner
  <2>2. Between(b, d, p)
    BY <1>2, <1>4
  <2> QED BY <2>1, <2>2, OtherWayRound
<1>6. PICK v, w : v = Cross(d, a, p) /\ w = Cross(a, b, p) /\ v > 0 /\ w > 0
                  /\ Cross(b, d, p) = 0
  BY <1>5, LeftOfTheBorder
<1>7. PICK x, y : x = Cross(b, c, p) /\ y = Cross(c, d, p) /\ x > 0 /\ y > 0
                  /\ Cross(d, b, p) = 0
  BY <1>5, LeftOfTheBorder
<1>8. PICK la, lb : la = Height(m[1], p, 1) /\ lb = Height(m[1], p, 2) /\ lb = Height(m[2], p, 3)
  BY <1>2 DEF Height
<1>9. PICK lc, ld : lc = Height(m[2], p, 1) /\ ld = Height(m[1], p, 3) /\ ld = Height(m[2], p, 2)
  BY <1>4 DEF Height
<1>10. Triangle(la, lb, ld, 0, v, w) /\ (Holds(m[1], p) <=> Odd(la, lb, ld, 0, v, w))
  BY <1>1, <1>2, <1>4, <1>6, <1>8, <1>9, MapFacts, TriangleSeen
<1>11. Triangle(lc, ld, lb, 0, x, y) /\ (Holds(m[2], p) <=> Odd(lc, ld, lb, 0, x, y))
  BY <1>2, <1>3, <1>4, <1>7, <1>8, <1>9, MapFacts, TriangleSeen
<1>12. lb = 0 /\ ld = 0 => la > 0 \/ lc > 0
  <2>1. la = a[1] - p[1] /\ lb = b[1] - p[1] /\ lc = c[1] - p[1] /\ ld = d[1] - p[1]
    BY <1>1, <1>2, <1>3, <1>4, <1>8, <1>9 DEF Height
  <2>2. p[1] \in Int
    OBVIOUS
  <2> QED BY <1>5, <2>1, <2>2, LevelBorder
<1>13. Odd(la, lb, ld, 0, v, w) \/ Odd(lc, ld, lb, 0, x, y)
  BY <1>6, <1>7, <1>10, <1>11, <1>12, OneSideOfTheBorder
<1> QED BY <1>10, <1>11, <1>13

\* The comparison with the crossing, multiplied out, is the side of the line on
\* which the point lies.
LEMMA CrossedIs ==
    ASSUME NEW p \in Int \X Int, NEW q \in Int \X Int, place \in Int \X Int
    PROVE  Crossed(p, q) <=> RayCrosses(q[1] - place[1], p[1] - place[1], Cross(q, p, place))
<1>1. /\ p[1] \in Int /\ p[2] \in Int /\ q[1] \in Int /\ q[2] \in Int
      /\ place[1] \in Int /\ place[2] \in Int
  OBVIOUS
<1> DEFINE h == q[1] - p[1]
           lf == (place[2] - p[2]) * h
           rt == (place[1] - p[1]) * (q[2] - p[2])
           cr == Cross(q, p, place)
<1>2. h \in Int /\ lf \in Int /\ rt \in Int /\ cr \in Int /\ rt - lf = cr
  <2>1. \A p1, p2, q1, q2, r1, r2 \in Int :
            /\ (r2 - p2) * (q1 - p1) \in Int /\ (r1 - p1) * (q2 - p2) \in Int
            /\ (p1 - q1) * (r2 - q2) - (p2 - q2) * (r1 - q1) \in Int
            /\ (r1 - p1) * (q2 - p2) - (r2 - p2) * (q1 - p1)
                   = (p1 - q1) * (r2 - q2) - (p2 - q2) * (r1 - q1)
    OBVIOUS
  <2> QED BY <1>1, <2>1 DEF Cross
<1>3. Crossed(p, q) <=> Straddles(p, q) /\ (IF h > 0 THEN lf < rt ELSE lf > rt)
  BY DEF Crossed
<1> HIDE DEF lf, rt, cr
<1>4. CASE p[1] > place[1] /\ q[1] <= place[1]
  <2>1. Straddles(p, q) /\ ~(h > 0)
    BY <1>1, <1>4 DEF Straddles
  <2>2. RayCrosses(q[1] - place[1], p[1] - place[1], cr) <=> cr < 0
    BY <1>1, <1>2, <1>4 DEF RayCrosses
  <2> QED BY <1>2, <1>3, <2>1, <2>2 DEF cr
<1>5. CASE p[1] <= place[1] /\ q[1] > place[1]
  <2>1. Straddles(p, q) /\ h > 0
    BY <1>1, <1>5 DEF Straddles
  <2>2. RayCrosses(q[1] - place[1], p[1] - place[1], cr) <=> cr > 0
    BY <1>1, <1>2, <1>5 DEF RayCrosses
  <2> QED BY <1>2, <1>3, <2>1, <2>2 DEF cr
<1>6. CASE (p[1] > place[1] /\ q[1] > place[1]) \/ (p[1] <= place[1] /\ q[1] <= place[1])
  <2>1. ~Straddles(p, q)
    BY <1>1, <1>6 DEF Straddles
  <2>2. ~RayCrosses(q[1] - place[1], p[1] - place[1], cr)
    BY <1>1, <1>2, <1>6 DEF RayCrosses
  <2> QED BY <1>3, <2>1, <2>2 DEF cr
<1> QED BY <1>1, <1>4, <1>5, <1>6

-----------------------------------------------------------------------------
(* Every point of the line finds its country. *)

LookupInv ==
    /\ polygons \in Maps /\ place \in Int \X Int
    /\ located \in Seq({None, 1, 2}) /\ Len(located) <= Len(points)
    /\ \A i \in 1..Len(located) : Right(polygons, points[i], located[i])
    /\ found \in {Looking, None, 1, 2}
    /\ found = Looking =>
           /\ Finished
           /\ Len(located) < Len(points) /\ place = points[Len(located) + 1]
           /\ country \in {1, 2} /\ side \in 1..4
           /\ inside = Before(polygons[country], place, side)
           /\ country = 2 => ~Holds(polygons[1], place)

LEMMA InitLookup == ShapeInit => LookupInv
<1> SUFFICES ASSUME ShapeInit PROVE LookupInv
  OBVIOUS
<1>1. /\ polygons \in Maps /\ place = <<0, 0>> /\ found = None /\ located = <<>>
      /\ points \in Seq(Int \X Int)
  BY LineAssumption DEF ShapeInit, CodecInit, Origin
<1>2. <<0, 0>> \in Int \X Int
  OBVIOUS
<1>3. located \in Seq({None, 1, 2}) /\ Len(located) = 0 /\ 1..0 = {} /\ Len(points) \in Nat
  BY <1>1
<1> QED BY <1>1, <1>2, <1>3 DEF LookupInv, Looking, None

LEMMA StillReading ==
    ASSUME CodecInv, LookupInv, DecodeShape
    PROVE  LookupInv'
<1>1. /\ points' = points /\ polygons' = polygons /\ place' = place /\ located' = located
      /\ found' = found /\ index < Len(encoded)
  BY DEF DecodeShape, Decode, ReadGroup, ReadLast, lookupVars
<1>2. index \in Nat /\ Len(encoded) \in Nat
  BY EncodeFacts DEF CodecInv
<1>3. found # Looking
  BY <1>1, <1>2 DEF LookupInv, Finished
<1> QED BY <1>1, <1>3 DEF LookupInv

LEMMA NextPointKeepsInv ==
    ASSUME CodecInv, RoundTrip, LookupInv, NextPoint
    PROVE  LookupInv'
<1>1. /\ Finished /\ Finished' /\ decoded = points /\ Len(located) < Len(points)
      /\ place' = points[Len(located) + 1]
      /\ points' = points /\ polygons' = polygons /\ located' = located
      /\ country' = 1 /\ side' = 1 /\ inside' = FALSE /\ found' = Looking
  BY DEF NextPoint, RoundTrip, Finished, codecVars
<1>2. place' \in Int \X Int
  <2>1. points \in Seq(Int \X Int) /\ Len(located) \in Nat
    BY DEF CodecInv, LookupInv
  <2>2. Len(located) + 1 \in 1..Len(points)
    BY <1>1, <2>1
  <2> QED BY <1>1, <2>1, <2>2
<1>3. inside' = Before(polygons'[country'], place', side')
  BY <1>1 DEF Before
<1> QED BY <1>1, <1>2, <1>3 DEF LookupInv

LEMMA TestSideKeepsInv ==
    ASSUME LookupInv, TestSide, UNCHANGED codecVars, located' = located
    PROVE  LookupInv'
<1>1. /\ found = Looking /\ found' = found /\ side' = side + 1 /\ side <= SideCount
      /\ points' = points /\ polygons' = polygons /\ place' = place /\ country' = country
      /\ inside' = (inside # Crossed(Polygon[side],
                               Polygon[IF side = 1 THEN Len(Polygon) ELSE side - 1]))
  BY DEF TestSide, codecVars
<1>2. PICK t : t = polygons[country]
  OBVIOUS
<1>3. /\ polygons \in Maps /\ place \in Int \X Int /\ side \in 1..4 /\ country \in {1, 2}
      /\ inside = Before(t, place, side)
  BY <1>1, <1>2 DEF LookupInv
<1>4. Corner(t) /\ Polygon = t
  BY <1>2, <1>3, MapFacts DEF Polygon
<1>5. side \in 1..3
  <2>1. SideCount = 3
    BY <1>4, ThreeSides DEF Corner
  <2> QED BY <1>1, <1>3, <2>1
<1> DEFINE q == t[IF side = 1 THEN Len(t) ELSE side - 1]
<1>6. \A j, k \in 1..3 : Crossed(t[k], t[j]) <=> SideCrossed(t, place, j, k)
  <2> TAKE j \in 1..3, k \in 1..3
  <2>1. t[j] \in Int \X Int /\ t[k] \in Int \X Int
    BY <1>4 DEF Corner
  <2> QED BY <1>3, <2>1, CrossedIs DEF SideCrossed, Height
<1>7. /\ \A j, k \in 1..3 : Crossed(t[k], t[j]) \in BOOLEAN
      /\ \A j, k \in 1..3 : SideCrossed(t, place, j, k) \in BOOLEAN
  BY DEF Crossed, SideCrossed, RayCrosses
<1>8. inside' = Before(t, place, side + 1)
  <2>1. inside' = (Before(t, place, side) # Crossed(t[side], q))
    BY <1>1, <1>3, <1>4
  <2>2. Len(t) = 3
    BY <1>4 DEF Corner
  <2>3. CASE side = 1
    <3>1. q = t[3]
      BY <2>2, <2>3
    <3>2. inside' = (FALSE # Crossed(t[1], t[3]))
      BY <2>1, <2>3, <3>1 DEF Before
    <3>3. Before(t, place, side + 1) = SideCrossed(t, place, 3, 1)
      BY <2>3 DEF Before
    <3>4. Crossed(t[1], t[3]) = SideCrossed(t, place, 3, 1)
      BY <1>6, <1>7
    <3>5. SideCrossed(t, place, 3, 1) \in BOOLEAN
      BY <1>7
    <3>6. (FALSE # SideCrossed(t, place, 3, 1)) = SideCrossed(t, place, 3, 1)
      BY <3>5
    <3>7. inside' = (FALSE # SideCrossed(t, place, 3, 1))
      BY <3>2, <3>4
    <3> QED BY <3>3, <3>6, <3>7
  <2>4. CASE side = 2
    <3>1. q = t[1]
      BY <2>4
    <3>2. inside' = (SideCrossed(t, place, 3, 1) # Crossed(t[2], t[1]))
      BY <2>1, <2>4, <3>1 DEF Before
    <3>3. Before(t, place, side + 1) = (SideCrossed(t, place, 3, 1) # SideCrossed(t, place, 1, 2))
      BY <2>4 DEF Before
    <3>4. Crossed(t[2], t[1]) = SideCrossed(t, place, 1, 2)
      BY <1>6, <1>7
    <3> QED BY <3>2, <3>3, <3>4
  <2>5. CASE side = 3
    <3>1. q = t[2]
      BY <2>5
    <3>2. inside' = ((SideCrossed(t, place, 3, 1) # SideCrossed(t, place, 1, 2))
                         # Crossed(t[3], t[2]))
      BY <2>1, <2>5, <3>1 DEF Before
    <3>3. Before(t, place, side + 1) = Holds(t, place)
      BY <2>5 DEF Before
    <3>4. Crossed(t[3], t[2]) = SideCrossed(t, place, 2, 3)
      BY <1>6, <1>7
    <3> QED BY <3>2, <3>3, <3>4 DEF Holds
  <2> QED BY <1>5, <2>3, <2>4, <2>5
<1>9. side' \in 1..4 /\ Finished'
  BY <1>1, <1>5 DEF LookupInv, Finished, codecVars
<1> QED BY <1>1, <1>2, <1>8, <1>9 DEF LookupInv

\* All sides are tested: the polygon holds the point, or it does not.
LEMMA Tested ==
    ASSUME LookupInv, found = Looking, side > SideCount
    PROVE  /\ polygons \in Maps /\ place \in Int \X Int /\ country \in {1, 2}
           /\ inside <=> Holds(polygons[country], place)
           /\ country = 2 => ~Holds(polygons[1], place)
<1>1. /\ polygons \in Maps /\ place \in Int \X Int /\ country \in {1, 2} /\ side \in 1..4
      /\ inside = Before(polygons[country], place, side)
      /\ country = 2 => ~Holds(polygons[1], place)
  BY DEF LookupInv
<1>2. side = 4
  <2>1. SideCount = 3
    <3>1. Len(Polygon) = 3
      BY <1>1, MapFacts DEF Corner, Polygon
    <3> QED BY <3>1, ThreeSides
  <2> QED BY <1>1, <2>1
<1> QED BY <1>1, <1>2 DEF Before

\* A point is answered.
LEMMA AnswerKeepsInv ==
    ASSUME CodecInv, LookupInv, found = Looking, found' \in {None, 1, 2},
           UNCHANGED codecVars, polygons' = polygons, place' = place,
           located' = Append(located, found'), Right(polygons, place, found')
    PROVE  LookupInv'
<1>1. /\ points' = points /\ located \in Seq({None, 1, 2}) /\ Len(located) \in Nat
      /\ Len(located) < Len(points) /\ place = points[Len(located) + 1]
      /\ polygons \in Maps /\ place \in Int \X Int
      /\ \A i \in 1..Len(located) : Right(polygons, points[i], located[i])
  BY DEF LookupInv, codecVars
<1>2. PICK v \in {None, 1, 2} : v = found'
  OBVIOUS
<1>3. /\ located' \in Seq({None, 1, 2}) /\ Len(located') = Len(located) + 1
      /\ located'[Len(located) + 1] = v
      /\ \A i \in 1..Len(located) : located'[i] = located[i]
  BY <1>1, <1>2
<1>4. \A i \in 1..Len(located') : i \in 1..Len(located) \/ i = Len(located) + 1
  BY <1>1, <1>3
<1>5. \A i \in 1..Len(located') : Right(polygons', points'[i], located'[i])
  BY <1>1, <1>2, <1>3, <1>4
<1>6. found' # Looking
  BY DEF None, Looking
<1>7. Len(located') <= Len(points')
  <2>1. Len(points) \in Nat
    BY DEF CodecInv
  <2> QED BY <1>1, <1>3, <2>1
<1> QED BY <1>1, <1>3, <1>5, <1>6, <1>7 DEF LookupInv

LEMMA InsideKeepsInv ==
    ASSUME CodecInv, LookupInv, Inside, LookUp
    PROVE  LookupInv'
<1>1. /\ found = Looking /\ side > SideCount /\ inside /\ found' = country
      /\ polygons' = polygons /\ place' = place
  BY DEF Inside
<1>2. /\ polygons \in Maps /\ place \in Int \X Int /\ country \in {1, 2}
      /\ Holds(polygons[country], place)
      /\ country = 2 => ~Holds(polygons[1], place)
  BY <1>1, Tested
<1>3. Corner(polygons[1]) /\ Corner(polygons[2])
  BY <1>2, MapFacts
<1>4. Right(polygons, place, country)
  <2>1. country = 2 => ~Within(polygons[1], place)
    BY <1>2, <1>3, HoldsWhatIsInside
  <2>2. country = 1 => ~Within(polygons[2], place)
    BY <1>2, <1>3, CountriesAreApart, HoldsWhatIsInside
  <2>3. ~Beyond(polygons[country], place)
    BY <1>2, <1>3, HoldsWhatIsInside
  <2>4. country # None
    BY <1>2 DEF None
  <2> QED BY <1>2, <2>1, <2>2, <2>3, <2>4 DEF Right
<1>5. found' # Looking /\ found' \in {None, 1, 2}
  BY <1>1, <1>2 DEF Looking
<1>6. located' = Append(located, found') /\ UNCHANGED codecVars
  BY <1>5 DEF LookUp
<1> QED BY <1>1, <1>4, <1>5, <1>6, AnswerKeepsInv

LEMMA OutsideKeepsInv ==
    ASSUME CodecInv, LookupInv, Outside, LookUp
    PROVE  LookupInv'
<1>1. /\ found = Looking /\ side > SideCount /\ ~inside /\ country' = country + 1
      /\ polygons' = polygons /\ place' = place
  BY DEF Outside
<1>2. /\ polygons \in Maps /\ place \in Int \X Int /\ country \in {1, 2}
      /\ ~Holds(polygons[country], place)
      /\ country = 2 => ~Holds(polygons[1], place)
  BY <1>1, Tested
<1>3. Corner(polygons[1]) /\ Corner(polygons[2]) /\ Len(polygons) = 2
  BY <1>2, MapFacts
<1>4. UNCHANGED codecVars
  BY DEF LookUp
<1>5. CASE country = 1
  <2>1. side' = 1 /\ found' = found
    BY <1>3, <1>5 DEF Outside
  <2>2. located' = located
    BY <1>1, <2>1 DEF LookUp
  <2>3. inside' = FALSE
    <3>1. inside' = inside /\ inside = Before(polygons[country], place, side)
      BY <1>1 DEF Outside, LookupInv
    <3>2. side \in 1..4 /\ side > 3
      <4>1. Len(Polygon) = 3
        BY <1>3, <1>5 DEF Polygon, Corner
      <4> QED BY <1>1, <4>1, ThreeSides DEF LookupInv
    <3>3. inside = Holds(polygons[country], place)
      <4>1. ~(side = 1) /\ ~(side = 2) /\ ~(side = 3)
        BY <3>2
      <4> QED BY <3>1, <4>1 DEF Before
    <3>4. Holds(polygons[country], place) \in BOOLEAN
      BY DEF Holds
    <3> QED BY <1>2, <3>1, <3>3, <3>4
  <2>4. inside' = Before(polygons'[country'], place', side')
    BY <2>1, <2>3 DEF Before
  <2>5. country' = 2 /\ ~Holds(polygons[1], place)
    BY <1>1, <1>2, <1>5
  <2>6. Finished' /\ points' = points
    BY <1>1, <1>4 DEF LookupInv, Finished, codecVars
  <2> QED BY <1>1, <2>1, <2>2, <2>4, <2>5, <2>6 DEF LookupInv
<1>6. CASE country = 2
  <2>1. found' = None /\ found' # Looking
    BY <1>3, <1>6 DEF Outside, None, Looking
  <2>2. ~Holds(polygons[1], place) /\ ~Holds(polygons[2], place)
    BY <1>2, <1>6
  <2>3. Right(polygons, place, None)
    <3>1. ~Within(polygons[1], place) /\ ~Within(polygons[2], place)
      BY <1>2, <1>3, <2>2, HoldsWhatIsInside
    <3>2. ~Between(polygons[1][2], polygons[1][3], place)
      BY <1>2, <2>2, BorderIsHeld
    <3> QED BY <3>1, <3>2 DEF Right
  <2>4. located' = Append(located, found')
    BY <2>1 DEF LookUp
  <2> QED BY <1>1, <1>4, <2>1, <2>3, <2>4, AnswerKeepsInv
<1> QED BY <1>2, <1>5, <1>6

LEMMA LookupInvariant == ShapeSpec => [](CodecInv /\ RoundTrip /\ LookupInv)
<1>1. ShapeInit => LookupInv
  BY InitLookup
<1>2. ASSUME CodecInv, RoundTrip, LookupInv, [ShapeNext]_shapeVars PROVE LookupInv'
  <2>1. CASE DecodeShape
    BY <1>2, <2>1, StillReading
  <2>2. CASE NextPoint
    BY <1>2, <2>2, NextPointKeepsInv
  <2>3. CASE LookUp /\ TestSide
    <3>1. found' = Looking /\ located' = located /\ UNCHANGED codecVars
      BY <2>3 DEF LookUp, TestSide
    <3> QED BY <1>2, <2>3, <3>1, TestSideKeepsInv
  <2>4. CASE LookUp /\ Inside
    BY <1>2, <2>4, InsideKeepsInv
  <2>5. CASE LookUp /\ Outside
    BY <1>2, <2>5, OutsideKeepsInv
  <2>6. CASE UNCHANGED shapeVars
    BY <1>2, <2>6 DEF shapeVars, codecVars, lookupVars, LookupInv, Finished
  <2>7. LookUp => TestSide \/ Inside \/ Outside
    BY DEF LookUp, Lookup
  <2> QED BY <1>2, <2>1, <2>2, <2>3, <2>4, <2>5, <2>6, <2>7 DEF ShapeNext
<1>3. CodecInv /\ RoundTrip /\ LookupInv /\ [ShapeNext]_shapeVars => LookupInv'
  BY <1>2
<1> QED BY <1>1, <1>3, CodecInvariant, DecodingInvertsEncoding, PTL DEF ShapeSpec

\* On every map of two triangles with a common side, every point of every line
\* is found in the triangle it lies in, none in a triangle it lies beyond, and
\* one on the border in one of the two (countries.go:530-594).
THEOREM EveryPointFindsItsCountry == ShapeSpec => []FindsTheCountry
<1>1. ASSUME LookupInv PROVE FindsTheCountry
  <2>1. /\ DOMAIN located = 1..Len(located) /\ DOMAIN polygons = 1..2
        /\ \A i \in 1..Len(located) : Right(polygons, points[i], located[i])
    BY <1>1, MapFacts DEF LookupInv
  <2> QED BY <2>1 DEF FindsTheCountry, Right
<1>2. LookupInv => FindsTheCountry
  BY <1>1
<1> QED BY <1>2, LookupInvariant, PTL


-----------------------------------------------------------------------------
(* The largest and the smallest of a set of indices. *)

LEMMA MinFacts ==
    ASSUME NEW S \in SUBSET Nat, S # {}
    PROVE  Min(S) \in S /\ \A y \in S : Min(S) <= y
<1>1. \E x \in S : \A y \in S : x <= y
  BY SmallestNumber
<1> QED BY <1>1 DEF Min

LEMMA MaxFacts ==
    ASSUME NEW b \in Nat, NEW S \in SUBSET (0..b), S # {}
    PROVE  Max(S) \in S /\ \A y \in S : Max(S) >= y
<1> DEFINE T == {b - y : y \in S}
<1>1. T \in SUBSET Nat /\ T # {}
  <2>1. \A y \in S : b - y \in Nat
    <3> TAKE y \in S
    <3>1. y \in 0..b
      OBVIOUS
    <3> QED BY <3>1
  <2> QED BY <2>1
<1>2. PICK t \in T : \A u \in T : t <= u
  BY <1>1, SmallestNumber
<1>3. PICK x \in S : t = b - x
  BY <1>2
<1>4. \A y \in S : x >= y
  <2> TAKE y \in S
  <2>1. b - x <= b - y
    BY <1>2, <1>3
  <2>2. x \in 0..b /\ y \in 0..b
    OBVIOUS
  <2> QED BY <2>1, <2>2
<1> QED BY <1>4 DEF Max

-----------------------------------------------------------------------------
(* Filling the gaps of a list of codes, without the loops.                   *)

KnownIn(codes) == {h \in DOMAIN codes : codes[h] # Unknown}
KnownUpTo(codes, i) == {h \in KnownIn(codes) : h <= i}

Carried(codes, i) ==
    IF KnownUpTo(codes, i) = {} THEN Unknown ELSE codes[Max(KnownUpTo(codes, i))]

Filling(codes, i) ==
    IF KnownUpTo(codes, i) # {} THEN Carried(codes, i)
    ELSE IF KnownIn(codes) # {} THEN codes[Min(KnownIn(codes))] ELSE Unknown

\* The recursion that CarryForward solves.
CarryStep(codes, g, i) ==
    IF codes[i] = Unknown /\ i - 1 \in DOMAIN codes THEN g[i - 1] ELSE codes[i]

LEMMA CarriedSteps ==
    ASSUME NEW a \in Nat, NEW b \in Nat, NEW codes, DOMAIN codes = a..b, NEW i \in a..b
    PROVE  Carried(codes, i) =
               CarryStep(codes, [j \in a..b |-> Carried(codes, j)], i)
<1>1. CASE codes[i] # Unknown
  <2>1. i \in KnownUpTo(codes, i) /\ KnownUpTo(codes, i) \in SUBSET (0..b)
    BY <1>1 DEF KnownUpTo, KnownIn
  <2>2. Max(KnownUpTo(codes, i)) \in KnownUpTo(codes, i) /\ Max(KnownUpTo(codes, i)) >= i
    BY <2>1, MaxFacts
  <2>3. Max(KnownUpTo(codes, i)) = i
    BY <2>2 DEF KnownUpTo, KnownIn
  <2> QED BY <1>1, <2>1, <2>3 DEF Carried, CarryStep
<1>2. CASE codes[i] = Unknown /\ i # a
  <2>1. i - 1 \in a..b
    BY <1>2
  <2>2. KnownUpTo(codes, i) = KnownUpTo(codes, i - 1)
    <3>1. \A h \in KnownIn(codes) : h <= i <=> h <= i - 1
      BY <1>2 DEF KnownIn
    <3> QED BY <3>1 DEF KnownUpTo
  <2> QED BY <1>2, <2>1, <2>2 DEF Carried, CarryStep
<1>3. CASE codes[i] = Unknown /\ i = a
  <2>1. KnownUpTo(codes, i) = {} /\ i - 1 \notin a..b
    BY <1>3 DEF KnownUpTo, KnownIn
  <2> QED BY <1>3, <2>1 DEF Carried, CarryStep
<1> QED BY <1>1, <1>2, <1>3

LEMMA CarryForwardFacts ==
    ASSUME NEW a \in Nat, NEW b \in Nat, NEW codes, DOMAIN codes = a..b
    PROVE  CarryForward(codes) = [i \in a..b |-> Carried(codes, i)]
<1> DEFINE Solves1(g) == g = [i \in a..b |-> CarryStep(codes, g, i)]
           w == [i \in a..b |-> Carried(codes, i)]
           cf == CHOOSE g : Solves1(g)
<1>1. CarryForward(codes) = cf
  BY DEF CarryForward, CarryStep
<1>2. Solves1(w)
  BY CarriedSteps
<1>3. Solves1(cf)
  BY <1>2
<1> DEFINE Wrong == {i \in a..b : cf[i] # w[i]}
<1>4. Wrong = {}
  <2> SUFFICES ASSUME Wrong # {} PROVE FALSE
    OBVIOUS
  <2>1. PICK n \in Wrong : \A k \in Wrong : n <= k
    <3>1. Wrong \in SUBSET Nat
      OBVIOUS
    <3> HIDE DEF Wrong
    <3> QED BY <3>1, SmallestNumber
  <2> HIDE DEF cf, w
  <2>2. cf[n] = CarryStep(codes, cf, n) /\ w[n] = CarryStep(codes, w, n)
    BY <1>2, <1>3
  <2>3. n - 1 \in a..b => cf[n - 1] = w[n - 1]
    BY <2>1
  <2> QED BY <2>2, <2>3 DEF CarryStep
<1>5. cf = w
  <2> HIDE DEF cf
  <2>1. cf = [i \in a..b |-> cf[i]]
    BY <1>3
  <2> QED BY <1>4, <2>1
<1> QED BY <1>1, <1>5

LEMMA FirstKnownFacts ==
    ASSUME NEW codes, DOMAIN codes \in SUBSET Nat
    PROVE  FirstKnown(codes) =
               IF KnownIn(codes) # {} THEN codes[Min(KnownIn(codes))] ELSE Unknown
<1>1. CASE KnownIn(codes) = {}
  BY <1>1 DEF KnownIn, FirstKnown
<1>2. CASE KnownIn(codes) # {}
  <2> DEFINE IsFirst(i) == codes[i] # Unknown /\ \A h \in DOMAIN codes : h < i => codes[h] = Unknown
             c == CHOOSE i \in DOMAIN codes : IsFirst(i)
             l == Min(KnownIn(codes))
  <2>1. l \in KnownIn(codes) /\ \A h \in KnownIn(codes) : l <= h
    <3>1. KnownIn(codes) \in SUBSET Nat
      BY DEF KnownIn
    <3> QED BY <1>2, <3>1, MinFacts
  <2> HIDE DEF l
  <2>2. l \in DOMAIN codes /\ IsFirst(l)
    <3>1. l \in DOMAIN codes /\ codes[l] # Unknown
      BY <2>1 DEF KnownIn
    <3>2. \A h \in DOMAIN codes : h < l => codes[h] = Unknown
      <4> SUFFICES ASSUME NEW h \in DOMAIN codes, h < l, codes[h] # Unknown PROVE FALSE
        OBVIOUS
      <4>1. l <= h /\ h \in Nat /\ l \in Nat
        BY <2>1, <3>1 DEF KnownIn
      <4> QED BY <4>1
    <3> QED BY <3>1, <3>2
  <2>3. c \in DOMAIN codes /\ IsFirst(c)
    BY <2>2
  <2>4. c = l
    <3>1. ~(c < l) /\ ~(l < c) /\ c \in Nat /\ l \in Nat
      BY <2>2, <2>3
    <3> QED BY <3>1
  <2>5. \E i \in DOMAIN codes : codes[i] # Unknown
    BY <2>2
  <2>6. FirstKnown(codes) = codes[c]
    BY <2>5 DEF FirstKnown
  <2> QED BY <1>2, <2>4, <2>6 DEF l
<1> QED BY <1>1, <1>2

\* Carrying forward keeps what is known, and what is first known.
LEMMA CarriedKnown ==
    ASSUME NEW a \in Nat, NEW b \in Nat, NEW codes, DOMAIN codes = a..b, NEW i \in a..b
    PROVE  /\ codes[i] # Unknown => Carried(codes, i) = codes[i]
           /\ Carried(codes, i) # Unknown <=> KnownUpTo(codes, i) # {}
<1>1. codes[i] # Unknown => Carried(codes, i) = codes[i]
  BY CarriedSteps DEF CarryStep
<1>2. ASSUME KnownUpTo(codes, i) # {} PROVE Carried(codes, i) # Unknown
  <2>1. KnownUpTo(codes, i) \in SUBSET (0..b)
    BY DEF KnownUpTo, KnownIn
  <2>2. Max(KnownUpTo(codes, i)) \in KnownUpTo(codes, i)
    BY <1>2, <2>1, MaxFacts
  <2>3. codes[Max(KnownUpTo(codes, i))] # Unknown
    BY <2>2 DEF KnownUpTo, KnownIn
  <2> QED BY <1>2, <2>3 DEF Carried
<1> QED BY <1>1, <1>2 DEF Carried

LEMMA FillGapsFacts ==
    ASSUME NEW a \in Nat, NEW b \in Nat, NEW codes, DOMAIN codes = a..b
    PROVE  FillGaps(codes) = [i \in a..b |-> Filling(codes, i)]
<1> DEFINE w == [i \in a..b |-> Carried(codes, i)]
<1>1. CarryForward(codes) = w
  BY CarryForwardFacts
<1>2. \A i \in a..b : /\ codes[i] # Unknown => w[i] = codes[i]
                      /\ w[i] # Unknown <=> KnownUpTo(codes, i) # {}
  BY CarriedKnown
<1>3. FirstKnown(w) = IF KnownIn(codes) # {} THEN codes[Min(KnownIn(codes))] ELSE Unknown
  <2>1. DOMAIN w = a..b /\ a..b \in SUBSET Nat
    OBVIOUS
  <2> HIDE DEF w
  <2>2. FirstKnown(w) = IF KnownIn(w) # {} THEN w[Min(KnownIn(w))] ELSE Unknown
    BY <2>1, FirstKnownFacts
  <2>3. KnownIn(w) = {} <=> KnownIn(codes) = {}
    <3>1. \A i \in KnownIn(codes) : i \in KnownIn(w)
      BY <1>2, <2>1 DEF KnownIn
    <3>2. \A i \in KnownIn(w) : KnownIn(codes) # {}
      BY <1>2, <2>1 DEF KnownIn, KnownUpTo
    <3> QED BY <3>1, <3>2
  <2>4. ASSUME KnownIn(codes) # {}
        PROVE  w[Min(KnownIn(w))] = codes[Min(KnownIn(codes))]
    <3> DEFINE p == Min(KnownIn(codes))
               q == Min(KnownIn(w))
    <3>1. p \in KnownIn(codes) /\ \A h \in KnownIn(codes) : p <= h
      <4>1. KnownIn(codes) \in SUBSET Nat
        BY <2>1 DEF KnownIn
      <4> QED BY <2>4, <4>1, MinFacts
    <3>2. q \in KnownIn(w) /\ \A h \in KnownIn(w) : q <= h
      <4>1. KnownIn(w) \in SUBSET Nat /\ KnownIn(w) # {}
        BY <2>1, <2>3, <2>4 DEF KnownIn
      <4> QED BY <4>1, MinFacts
    <3> HIDE DEF p, q
    <3>3. p \in a..b /\ q \in a..b /\ w[p] = codes[p] /\ p \in KnownIn(w)
      BY <1>2, <2>1, <3>1, <3>2 DEF KnownIn
    <3>4. PICK h \in KnownIn(codes) : h <= q
      BY <1>2, <2>1, <3>2, <3>3 DEF KnownIn, KnownUpTo
    <3>5. q <= p /\ p <= h /\ h \in a..b
      BY <3>1, <3>2, <3>3, <3>4 DEF KnownIn
    <3>6. p = q
      BY <3>3, <3>4, <3>5
    <3> QED BY <3>3, <3>6 DEF p, q
  <2> QED BY <2>2, <2>3, <2>4
<1>4. FillGaps(codes) = [i \in a..b |-> IF w[i] = Unknown THEN FirstKnown(w) ELSE w[i]]
  BY <1>1 DEF FillGaps
<1>5. \A i \in a..b : (IF w[i] = Unknown THEN FirstKnown(w) ELSE w[i]) = Filling(codes, i)
  BY <1>2, <1>3 DEF Filling, Carried
<1> HIDE DEF w
<1> QED BY <1>4, <1>5

\* What is known stays; with anything known, everything is.
LEMMA FillingKnows ==
    ASSUME NEW a \in Nat, NEW b \in Nat, NEW codes, DOMAIN codes = a..b, NEW i \in a..b
    PROVE  /\ codes[i] # Unknown => Filling(codes, i) = codes[i]
           /\ Filling(codes, i) # Unknown <=> KnownIn(codes) # {}
<1>1. /\ codes[i] # Unknown => Carried(codes, i) = codes[i]
      /\ Carried(codes, i) # Unknown <=> KnownUpTo(codes, i) # {}
  BY CarriedKnown
<1>2. codes[i] # Unknown => i \in KnownUpTo(codes, i)
  BY DEF KnownUpTo, KnownIn
<1>3. KnownUpTo(codes, i) \subseteq KnownIn(codes)
  BY DEF KnownUpTo
<1>4. KnownIn(codes) # {} => codes[Min(KnownIn(codes))] # Unknown
  <2>1. KnownIn(codes) \in SUBSET Nat
    BY DEF KnownIn
  <2>2. KnownIn(codes) # {} => Min(KnownIn(codes)) \in KnownIn(codes)
    BY <2>1, MinFacts
  <2> QED BY <2>2 DEF KnownIn
<1> QED BY <1>1, <1>2, <1>3, <1>4 DEF Filling

-----------------------------------------------------------------------------
(* The points where the country changes. *)

\* The recursion that Changes solves.
Grow(codes, b, g, i) ==
    IF i = b THEN <<i>>
    ELSE IF codes[i] # codes[i - 1] THEN Append(g[i - 1], i) ELSE g[i - 1]

LEMMA GrowsUpTo ==
    ASSUME NEW b \in Nat, NEW codes, NEW n \in Nat, n >= b
    PROVE  \E g : g = [i \in b..n |-> Grow(codes, b, g, i)]
<1> DEFINE Solved(k) == \E g : g = [i \in b..k |-> Grow(codes, b, g, i)]
           Unsolved == {k \in Nat : k >= b /\ ~Solved(k)}
<1>1. SUFFICES ASSUME Unsolved # {} PROVE FALSE
  OBVIOUS
<1>2. PICK k \in Unsolved : \A j \in Unsolved : k <= j
  <2>1. Unsolved \in SUBSET Nat
    OBVIOUS
  <2> HIDE DEF Unsolved
  <2> QED BY <1>1, <2>1, SmallestNumber
<1>3. k # b
  <2> SUFFICES ASSUME k = b PROVE Solved(b)
    OBVIOUS
  <2> DEFINE g == [i \in b..b |-> <<i>>]
  <2>1. g = [i \in b..b |-> Grow(codes, b, g, i)]
    BY DEF Grow
  <2> QED BY <2>1
<1>4. k - 1 \in Nat /\ k - 1 >= b /\ k - 1 \notin Unsolved
  <2>1. k \in Nat /\ k >= b /\ ~(k <= k - 1)
    OBVIOUS
  <2>2. k - 1 \in Nat /\ k - 1 >= b
    BY <1>3, <2>1
  <2> HIDE DEF Unsolved
  <2> QED BY <1>2, <2>1, <2>2
<1>5. PICK h : h = [i \in b..(k - 1) |-> Grow(codes, b, h, i)]
  BY <1>4
<1> DEFINE g == [i \in b..k |-> Grow(codes, b, h, i)]
<1>6. \A i \in b..(k - 1) : g[i] = h[i]
  <2> TAKE i \in b..(k - 1)
  <2>1. i \in b..k
    BY <1>4
  <2>2. h[i] = Grow(codes, b, h, i)
    BY <1>5
  <2> QED BY <2>1, <2>2
<1>7. \A i \in b..k : Grow(codes, b, h, i) = Grow(codes, b, g, i)
  <2> TAKE i \in b..k
  <2>1. i # b => i - 1 \in b..(k - 1)
    BY <1>4
  <2>2. i # b => g[i - 1] = h[i - 1]
    BY <1>6, <2>1
  <2> HIDE DEF g
  <2> QED BY <2>2 DEF Grow
<1>8. g = [i \in b..k |-> Grow(codes, b, g, i)]
  BY <1>7
<1>9. Solved(k)
  BY <1>8
<1> QED BY <1>9

\* Cuts at every change of the country up to point i, and nowhere else.
CutsOK(codes, b, i, s) ==
    /\ s \in Seq(Nat) /\ Len(s) >= 1 /\ s[1] = b
    /\ \A k \in 1..Len(s) : s[k] \in b..i
    /\ \A k \in 1..(Len(s) - 1) :
          s[k] < s[k + 1] /\ \A q \in s[k]..(s[k + 1] - 1) : codes[q] = codes[s[k]]
    /\ \A q \in s[Len(s)]..i : codes[q] = codes[s[Len(s)]]
    /\ \A k \in 2..Len(s) : codes[s[k]] # codes[s[k] - 1]

LEMMA CutsStep ==
    ASSUME NEW b \in Nat, NEW codes, NEW g, NEW i \in Nat, i > b,
           CutsOK(codes, b, i - 1, g[i - 1])
    PROVE  CutsOK(codes, b, i, Grow(codes, b, g, i))
<1> DEFINE s == g[i - 1]
<1>a. CutsOK(codes, b, i - 1, s)
  OBVIOUS
<1>b. codes[i] = codes[i - 1] => Grow(codes, b, g, i) = s
  BY DEF Grow
<1>c. codes[i] # codes[i - 1] => Grow(codes, b, g, i) = Append(s, i)
  BY DEF Grow
<1> HIDE DEF s
<1>0. /\ s \in Seq(Nat) /\ Len(s) >= 1 /\ s[1] = b /\ Len(s) \in Nat
      /\ \A k \in 1..Len(s) : s[k] \in b..(i - 1)
      /\ \A k \in 1..(Len(s) - 1) :
            s[k] < s[k + 1] /\ \A q \in s[k]..(s[k + 1] - 1) : codes[q] = codes[s[k]]
      /\ \A q \in s[Len(s)]..(i - 1) : codes[q] = codes[s[Len(s)]]
      /\ \A k \in 2..Len(s) : codes[s[k]] # codes[s[k] - 1]
  BY <1>a DEF CutsOK
<1>1. CASE codes[i] = codes[i - 1]
  <2>1. Grow(codes, b, g, i) = s
    BY <1>1, <1>b
  <2>2. \A k \in 1..Len(s) : s[k] \in b..i
    <3> TAKE k \in 1..Len(s)
    <3>1. s[k] \in b..(i - 1)
      BY <1>0
    <3> QED BY <3>1
  <2>3. \A q \in s[Len(s)]..i : codes[q] = codes[s[Len(s)]]
    <3>1. s[Len(s)] \in b..(i - 1)
      BY <1>0
    <3>2. codes[i - 1] = codes[s[Len(s)]]
      <4>1. i - 1 \in s[Len(s)]..(i - 1)
        BY <3>1
      <4> QED BY <1>0, <4>1
    <3>3. \A q \in s[Len(s)]..i : q = i \/ q \in s[Len(s)]..(i - 1)
      BY <3>1
    <3> QED BY <1>0, <1>1, <3>2, <3>3
  <2> QED BY <1>0, <2>1, <2>2, <2>3 DEF CutsOK
<1>2. CASE codes[i] # codes[i - 1]
  <2> DEFINE n == Len(s)
             w == Append(s, i)
  <2>1. Grow(codes, b, g, i) = w
    BY <1>2, <1>c
  <2>2. /\ w \in Seq(Nat) /\ Len(w) = n + 1 /\ w[n + 1] = i
        /\ \A k \in 1..n : w[k] = s[k]
    BY <1>0
  <2> HIDE DEF w
  <2>3. \A k \in 1..Len(w) : w[k] \in b..i
    <3> TAKE k \in 1..Len(w)
    <3>1. k \in 1..n => w[k] = s[k] /\ s[k] \in b..(i - 1)
      BY <1>0, <2>2
    <3>2. k = n + 1 \/ k \in 1..n
      BY <1>0, <2>2
    <3> QED BY <2>2, <3>1, <3>2
  <2>4. \A k \in 1..(Len(w) - 1) :
            w[k] < w[k + 1] /\ \A q \in w[k]..(w[k + 1] - 1) : codes[q] = codes[w[k]]
    <3> TAKE k \in 1..(Len(w) - 1)
    <3>1. k \in 1..n /\ (k = n \/ (k \in 1..(n - 1) /\ k + 1 \in 1..n))
      BY <1>0, <2>2
    <3>2. CASE k = n
      <4>1. w[k] = s[n] /\ w[k + 1] = i /\ s[n] \in b..(i - 1)
        BY <1>0, <2>2, <3>1, <3>2
      <4>2. w[k] < w[k + 1]
        BY <4>1
      <4> QED BY <1>0, <4>1, <4>2
    <3>3. CASE k \in 1..(n - 1) /\ k + 1 \in 1..n
      <4>1. w[k] = s[k] /\ w[k + 1] = s[k + 1]
        BY <2>2, <3>1, <3>3
      <4>2. k \in 1..(Len(s) - 1)
        BY <3>3
      <4> QED BY <1>0, <4>1, <4>2
    <3> QED BY <3>1, <3>2, <3>3
  <2>5. \A q \in w[Len(w)]..i : codes[q] = codes[w[Len(w)]]
    BY <2>2
  <2>6. \A k \in 2..Len(w) : codes[w[k]] # codes[w[k] - 1]
    <3> TAKE k \in 2..Len(w)
    <3>1. k = n + 1 \/ (k \in 2..n /\ k \in 1..n)
      BY <1>0, <2>2
    <3> QED BY <1>0, <1>2, <2>2, <3>1
  <2>7. w[1] = b /\ Len(w) >= 1
    BY <1>0, <2>2
  <2> QED BY <2>1, <2>2, <2>3, <2>4, <2>5, <2>6, <2>7 DEF CutsOK
<1> QED BY <1>1, <1>2

LEMMA ChangesFacts ==
    ASSUME NEW m \in Maneuver, m.begin <= m.end, NEW codes
    PROVE  CutsOK(codes, m.begin, m.end, Changes(m, codes)[m.end])
<1> DEFINE b == m.begin
           e == m.end
           Solves1(g) == g = [i \in b..e |-> Grow(codes, b, g, i)]
           cuts == CHOOSE g : Solves1(g)
<1>1. b \in Nat /\ e \in Nat /\ b <= e
  BY PointAssumption DEF Maneuver, Points
<1>2. Changes(m, codes) = cuts
  BY DEF Changes, Grow
<1>3. Solves1(cuts)
  <2>1. \E g : Solves1(g)
    BY <1>1, GrowsUpTo
  <2> QED BY <2>1
<1> HIDE DEF cuts
<1> HIDE DEF b, e
<1>4. \A i \in b..e : cuts[i] = Grow(codes, b, cuts, i)
  BY <1>3
<1> DEFINE Wrong == {i \in b..e : ~CutsOK(codes, b, i, cuts[i])}
<1>5. Wrong = {}
  <2> SUFFICES ASSUME Wrong # {} PROVE FALSE
    OBVIOUS
  <2>1. PICK n \in Wrong : \A k \in Wrong : n <= k
    <3>1. Wrong \in SUBSET Nat
      BY <1>1
    <3> HIDE DEF Wrong
    <3> QED BY <3>1, SmallestNumber
  <2>2. n \in b..e /\ n \in Nat
    BY <1>1
  <2>3. CASE n = b
    <3>1. cuts[n] = <<b>>
      BY <1>4, <2>2, <2>3 DEF Grow
    <3>2. CutsOK(codes, b, b, <<b>>)
      BY <1>1 DEF CutsOK
    <3> QED BY <2>3, <3>1, <3>2
  <2>4. CASE n > b
    <3>1. n - 1 \in b..e /\ ~(n <= n - 1)
      BY <1>1, <2>2, <2>4
    <3>2. CutsOK(codes, b, n - 1, cuts[n - 1])
      BY <2>1, <3>1
    <3>3. CutsOK(codes, b, n, Grow(codes, b, cuts, n))
      BY <1>1, <2>2, <2>4, <3>2, CutsStep
    <3> QED BY <1>4, <2>2, <3>3
  <2> QED BY <1>1, <2>2, <2>3, <2>4
<1>6. e \in b..e
  BY <1>1
<1> QED BY <1>2, <1>5, <1>6 DEF b, e

-----------------------------------------------------------------------------
(* What a maneuver is split into. *)

CountryCode == Countries \cup {Unknown}

PartType == [country : CountryCode, begin : Points, end : Points, length : Nat, time : Nat]

\* Points at no distance from each other lie in one country.
PlacesAgree == \A i \in 0..(LastPoint - 1) : Hop[i] = 0 => raw[i] = raw[i + 1]

Tiling(m, s) ==
    /\ s \in Seq(PartType) /\ Len(s) >= 1
    /\ s[1].begin = m.begin /\ s[Len(s)].end = m.end
    /\ \A k \in 1..Len(s) : /\ s[k].begin \in m.begin..m.end /\ s[k].end \in m.begin..m.end
                            /\ s[k].begin <= s[k].end
    /\ \A k \in 1..(Len(s) - 1) : s[k].end = s[k + 1].begin

\* The parts share out the length and the time of their maneuver.
Fair(m, p) ==
    /\ p.length * ShapeDist(m.begin, m.end) = m.length * ShapeDist(p.begin, p.end)
    /\ p.time * ShapeDist(m.begin, m.end) = m.time * ShapeDist(p.begin, p.end)

SharedOut(m, s) ==
    /\ TotalLength(s) = m.length /\ TotalTime(s) = m.time
    /\ \A k \in 1..Len(s) : Fair(m, s[k])

Charged(m, s) ==
    Known(m) # {} =>
        \A i \in m.begin..(m.end - 1) : \A k \in 1..Len(s) :
            s[k].begin <= i /\ i < s[k].end => s[k].country = Owner(m, i)

BlanksUnknown(s) ==
    \A k \in 1..Len(s) :
        s[k].country = Unknown <=> \A i \in s[k].begin..s[k].end : raw[i] = Unknown

LEMMA WholeQuotient ==
    ASSUME NEW q \in Nat, NEW t \in Nat, t > 0
    PROVE  (q * t) \div t = q
OBVIOUS

LEMMA DistanceFacts ==
    ASSUME NEW i \in Points, NEW j \in Points, i <= j
    PROVE  /\ ShapeDist(i, j) \in Nat
           /\ \A k \in Points : j <= k => ShapeDist(i, k) = ShapeDist(i, j) + ShapeDist(j, k)
           /\ \A h \in i..(j - 1) : Hop[h] <= ShapeDist(i, j)
<1>1. i \in Nat /\ j \in Nat /\ LastPoint \in Nat /\ j <= LastPoint
  BY PointAssumption DEF Points
<1>2. ASSUME NEW a \in Nat, NEW b \in Nat, b <= LastPoint
      PROVE  IsFiniteSet(a..(b - 1)) /\ \A h \in a..(b - 1) : Hop[h] \in Nat
  <2>1. b - 1 \in Int /\ a \in Int
    OBVIOUS
  <2>2. IsFiniteSet(a..(b - 1))
    BY <2>1, FS_Interval
  <2>3. \A h \in a..(b - 1) : h \in 0..(LastPoint - 1)
    BY <1>1, <1>2
  <2> QED BY <2>2, <2>3, HopAssumption
<1>3. ShapeDist(i, j) \in Nat
  BY <1>1, <1>2, SumType DEF ShapeDist
<1>4. ASSUME NEW k \in Points, j <= k
      PROVE  ShapeDist(i, k) = ShapeDist(i, j) + ShapeDist(j, k)
  <2>1. k \in Nat /\ k <= LastPoint
    BY PointAssumption DEF Points
  <2> DEFINE A == i..(j - 1)
             B == j..(k - 1)
  <2>2. i..(k - 1) = A \cup B /\ A \cap B = {}
    BY <1>1, <1>4, <2>1
  <2>3. IsFiniteSet(A) /\ IsFiniteSet(B) /\ \A x \in A \cup B : Hop[x] \in Int
    <3>1. IsFiniteSet(A) /\ \A x \in A : Hop[x] \in Nat
      BY <1>1, <1>2
    <3>2. IsFiniteSet(B) /\ \A x \in B : Hop[x] \in Nat
      BY <1>1, <1>2, <2>1
    <3> HIDE DEF A, B
    <3> QED BY <3>1, <3>2
  <2> HIDE DEF A, B
  <2>4. SumFunctionOnSet(Hop, A \cup B) = SumFunctionOnSet(Hop, A) + SumFunctionOnSet(Hop, B)
    BY <2>2, <2>3, SumUnion
  <2> QED BY <2>2, <2>4 DEF ShapeDist, A, B
<1>5. ASSUME NEW h \in i..(j - 1) PROVE Hop[h] <= ShapeDist(i, j)
  BY <1>1, <1>2, SumAtLeast DEF ShapeDist
<1> QED BY <1>3, <1>4, <1>5

\* A share is a whole number of the units that go into the distance.
LEMMA ShareFacts ==
    ASSUME NEW m \in Maneuver, m.begin < m.end, ShapeDist(m.begin, m.end) > 0,
           NEW x \in Lengths \cup Times
    PROVE  \E piece \in Nat :
               /\ x = piece * ShapeDist(m.begin, m.end)
               /\ \A from, to \in Points :
                     Share(m, x, from, to) = piece * ShapeDist(from, to)
<1> DEFINE total == ShapeDist(m.begin, m.end)
<1>1. x \in Nat /\ m.begin \in Points /\ m.end \in Points
  BY UnitAssumption DEF Maneuver
<1>2. total \in Nat /\ total > 0
  <2>1. m.begin <= m.end
    BY <1>1, PointAssumption DEF Points
  <2> QED BY <1>1, <2>1, DistanceFacts
<1>3. PICK piece \in 0..x : x = piece * total
  BY <1>1, <1>2, UnitAssumption
<1>4. \A from, to \in Points : Share(m, x, from, to) = (x \div total) * ShapeDist(from, to)
  BY <1>2 DEF Share
<1> HIDE DEF total
<1>5. x \div total = piece
  BY <1>2, <1>3, WholeQuotient
<1> QED BY <1>3, <1>4, <1>5 DEF total

LEMMA PartFacts ==
    ASSUME NEW m \in Maneuver, m.begin < m.end, ShapeDist(m.begin, m.end) > 0,
           NEW c \in CountryCode, NEW from \in Points, NEW to \in Points, from <= to
    PROVE  /\ Part(m, c, from, to) \in PartType
           /\ Part(m, c, from, to).country = c
           /\ Part(m, c, from, to).begin = from
           /\ Part(m, c, from, to).end = to
           /\ Fair(m, Part(m, c, from, to))
<1> DEFINE total == ShapeDist(m.begin, m.end)
           d == ShapeDist(from, to)
           p == Part(m, c, from, to)
<1>1. m.length \in Lengths /\ m.time \in Times /\ m.begin \in Points /\ m.end \in Points
  BY DEF Maneuver
<1>2. total \in Nat /\ d \in Nat
  <2>1. m.begin <= m.end
    BY <1>1, PointAssumption DEF Points
  <2> QED BY <1>1, <2>1, DistanceFacts
<1>3. PICK piece \in Nat : m.length = piece * total /\ Share(m, m.length, from, to) = piece * d
  BY <1>1, ShareFacts
<1>4. PICK part \in Nat : m.time = part * total /\ Share(m, m.time, from, to) = part * d
  BY <1>1, ShareFacts
<1>5. /\ p.country = c /\ p.begin = from /\ p.end = to
      /\ p.length = piece * d /\ p.time = part * d
      /\ p = [country |-> c, begin |-> from, end |-> to, length |-> piece * d, time |-> part * d]
  BY <1>3, <1>4 DEF Part
<1> HIDE DEF total, d, p
<1>6. piece * d \in Nat /\ part * d \in Nat
  BY <1>2
<1>7. p \in PartType
  BY <1>5, <1>6 DEF PartType
<1>8. (piece * d) * total = (piece * total) * d /\ (part * d) * total = (part * total) * d
  BY <1>2
<1>9. /\ p.length * total = m.length * ShapeDist(p.begin, p.end)
      /\ p.time * total = m.time * ShapeDist(p.begin, p.end)
  BY <1>3, <1>4, <1>5, <1>8 DEF d
<1> QED BY <1>5, <1>7, <1>9 DEF Fair, p, total

\* A maneuver that is not split.
LEMMA WholeParts ==
    ASSUME NEW m \in Maneuver, m.begin <= m.end, NEW c \in CountryCode
    PROVE  LET s == Whole(m, c)
           IN  /\ Len(s) = 1 /\ s[1] \in PartType
               /\ s[1].country = c /\ s[1].begin = m.begin /\ s[1].end = m.end
               /\ Tiling(m, s) /\ SharedOut(m, s)
<1> DEFINE p == [country |-> c, begin |-> m.begin, end |-> m.end,
                 length |-> m.length, time |-> m.time]
           s == Whole(m, c)
<1>1. /\ m.begin \in Points /\ m.end \in Points /\ m.begin \in Nat /\ m.end \in Nat
      /\ m.length \in Nat /\ m.time \in Nat
  <2>1. m.length \in Nat /\ m.time \in Nat
    <3>1. Lengths \subseteq Nat /\ Times \subseteq Nat
      BY UnitAssumption
    <3>2. m.length \in Lengths /\ m.time \in Times
      BY DEF Maneuver
    <3> QED BY <3>1, <3>2
  <2>2. m.begin \in Points /\ m.end \in Points
    BY DEF Maneuver
  <2>3. m.begin \in Nat /\ m.end \in Nat
    BY <2>2, PointAssumption DEF Points
  <2> QED BY <2>1, <2>2, <2>3
<1>2. /\ p \in PartType /\ p.country = c /\ p.begin = m.begin /\ p.end = m.end
      /\ p.length = m.length /\ p.time = m.time
  BY <1>1 DEF PartType
<1>3. s = <<p>>
  BY DEF Whole
<1> HIDE DEF p, s
<1>4. s \in Seq(PartType) /\ Len(s) = 1 /\ s[1] = p /\ DOMAIN s = 1..1
  BY <1>2, <1>3
<1>5. Tiling(m, s)
  BY <1>1, <1>2, <1>4 DEF Tiling
<1>6. TotalLength(s) = m.length
  <2> DEFINE f == [k \in DOMAIN s |-> s[k].length]
  <2>1. f[1] = m.length
    BY <1>2, <1>4
  <2> HIDE DEF f
  <2>2. SumFunctionOnSet(f, 1..1) = m.length
    BY <1>1, <2>1, SumOne
  <2> QED BY <1>4, <2>2 DEF TotalLength, f
<1>7. TotalTime(s) = m.time
  <2> DEFINE f == [k \in DOMAIN s |-> s[k].time]
  <2>1. f[1] = m.time
    BY <1>2, <1>4
  <2> HIDE DEF f
  <2>2. SumFunctionOnSet(f, 1..1) = m.time
    BY <1>1, <2>1, SumOne
  <2> QED BY <1>4, <2>2 DEF TotalTime, f
<1>8. Fair(m, p)
  BY <1>2 DEF Fair
<1>9. SharedOut(m, s)
  BY <1>4, <1>6, <1>7, <1>8 DEF SharedOut
<1> QED BY <1>2, <1>4, <1>5, <1>9 DEF s

LEMMA WholeFacts ==
    ASSUME NEW m \in Maneuver, m.begin <= m.end, raw \in [Points -> CountryCode],
           SinglePoint(m) \/ FastPath(m)
    PROVE  LET s == Whole(m, raw[m.begin])
           IN  Tiling(m, s) /\ SharedOut(m, s) /\ Charged(m, s) /\ BlanksUnknown(s)
<1> DEFINE s == Whole(m, raw[m.begin])
           p == s[1]
<1>1. m.begin \in Points /\ m.end \in Points /\ m.begin \in Nat /\ m.end \in Nat
  BY PointAssumption DEF Maneuver, Points
<1>2. raw[m.begin] \in CountryCode
  BY <1>1
<1>3. /\ Len(s) = 1 /\ p.country = raw[m.begin] /\ p.begin = m.begin /\ p.end = m.end
      /\ Tiling(m, s) /\ SharedOut(m, s)
  BY <1>2, WholeParts
<1>4. s[1] = p
  OBVIOUS
<1> HIDE DEF p, s
<1>5. Len(s) = 1 /\ s[1] = p
  BY <1>3, <1>4
<1>7. Charged(m, s)
  <2>1. SUFFICES ASSUME NEW i \in m.begin..(m.end - 1) PROVE p.country = Owner(m, i)
    BY <1>5 DEF Charged
  <2>2. ~SinglePoint(m)
    BY <1>1, <2>1 DEF SinglePoint
  <2> QED BY <1>3, <2>2 DEF FastPath, Owner
<1>8. BlanksUnknown(s)
  <2>1. raw[m.begin] = Unknown <=> \A i \in m.begin..m.end : raw[i] = Unknown
    <3>1. m.begin \in m.begin..m.end
      BY <1>1
    <3>2. CASE SinglePoint(m)
      <4>1. \A i \in m.begin..m.end : i = m.begin
        BY <1>1, <3>2 DEF SinglePoint
      <4> QED BY <3>1, <4>1
    <3>3. CASE FastPath(m)
      BY <3>1, <3>3 DEF FastPath
    <3> QED BY <3>2, <3>3
  <2> QED BY <1>3, <1>5, <2>1 DEF BlanksUnknown
<1> QED BY <1>3, <1>7, <1>8 DEF s

\* The filling of the points is a code, changes at known points only, and is
\* the country of the owner.
LEMMA FillingIsACode ==
    ASSUME NEW a \in Nat, NEW b \in Nat, NEW codes \in [a..b -> CountryCode], NEW i \in a..b
    PROVE  Filling(codes, i) \in CountryCode
<1>1. KnownUpTo(codes, i) # {} => Max(KnownUpTo(codes, i)) \in a..b
  <2>1. KnownUpTo(codes, i) \in SUBSET (0..b) /\ KnownUpTo(codes, i) \subseteq a..b
    BY DEF KnownUpTo, KnownIn
  <2> QED BY <2>1, MaxFacts
<1>2. KnownIn(codes) # {} => Min(KnownIn(codes)) \in a..b
  <2>1. KnownIn(codes) \in SUBSET Nat /\ KnownIn(codes) \subseteq a..b
    BY DEF KnownIn
  <2> QED BY <2>1, MinFacts
<1> QED BY <1>1, <1>2 DEF Filling, Carried, CountryCode

LEMMA ChangesWhereKnown ==
    ASSUME NEW a \in Nat, NEW b \in Nat, NEW codes, DOMAIN codes = a..b,
           NEW i \in a..b, Filling(codes, i) # Filling(codes, i - 1)
    PROVE  codes[i] # Unknown
<1> SUFFICES ASSUME codes[i] = Unknown PROVE FALSE
  OBVIOUS
<1>1. \A h \in KnownIn(codes) : h <= i <=> h <= i - 1
  BY DEF KnownIn
<1>2. KnownUpTo(codes, i) = KnownUpTo(codes, i - 1)
  BY <1>1 DEF KnownUpTo
<1> QED BY <1>2 DEF Filling, Carried

\* The filled codes of the points of a maneuver.
LEMMA CodesFacts ==
    ASSUME NEW m \in Maneuver, m.begin <= m.end, raw \in [Points -> CountryCode],
           NEW i \in m.begin..m.end
    PROVE  /\ Codes(m)[i] \in CountryCode
           /\ Known(m) = {} => Codes(m)[i] = Unknown
           /\ Known(m) # {} => Codes(m)[i] # Unknown
           /\ i # m.begin /\ Codes(m)[i] # Codes(m)[i - 1] => raw[i] # Unknown
           /\ raw[i] # Unknown => Codes(m)[i] = raw[i]
           /\ ~FastPath(m) /\ Known(m) # {} => Codes(m)[i] = Owner(m, i)
<1> DEFINE b == m.begin
           e == m.end
           codes == [j \in b..e |-> raw[j]]
<1>1. b \in Nat /\ e \in Nat /\ b <= e /\ b..e \subseteq Points
  BY PointAssumption DEF Maneuver, Points
<1>2. codes \in [b..e -> CountryCode] /\ DOMAIN codes = b..e /\ \A j \in b..e : codes[j] = raw[j]
  BY <1>1
<1>3. Codes(m) = FillGaps(codes)
  BY DEF Codes
<1>4. Known(m) = {j \in b..e : raw[j] # Unknown}
  BY DEF Known
<1>5. FastPath(m) <=> raw[b] # Unknown /\ raw[b] = raw[e] /\ m.length < LongLength
  BY DEF FastPath
<1>6. Owner(m, i) = IF raw[b] # Unknown /\ raw[b] = raw[e] /\ m.length < LongLength THEN raw[b]
                    ELSE IF {j \in Known(m) : j <= i} # {}
                         THEN raw[Max({j \in Known(m) : j <= i})] ELSE raw[Min(Known(m))]
  BY DEF Owner
<1> HIDE DEF codes
<1> HIDE DEF b, e
<1>7. FillGaps(codes) = [j \in b..e |-> Filling(codes, j)]
  BY <1>1, <1>2, FillGapsFacts
<1>8. KnownIn(codes) = Known(m) /\ KnownUpTo(codes, i) = {j \in Known(m) : j <= i}
  BY <1>2, <1>4 DEF KnownIn, KnownUpTo
<1>9. i \in b..e
  BY DEF b, e
<1>10. Codes(m)[i] = Filling(codes, i)
  BY <1>3, <1>7, <1>9
<1>11. Codes(m)[i] \in CountryCode
  BY <1>1, <1>2, <1>9, <1>10, FillingIsACode
<1>15. raw[i] # Unknown => Codes(m)[i] = raw[i]
  BY <1>1, <1>2, <1>9, <1>10, FillingKnows
<1>12. Codes(m)[i] # Unknown <=> Known(m) # {}
  BY <1>1, <1>2, <1>8, <1>9, <1>10, FillingKnows
<1>13. i # b /\ Codes(m)[i] # Codes(m)[i - 1] => raw[i] # Unknown
  <2> SUFFICES ASSUME i # b, Codes(m)[i] # Codes(m)[i - 1] PROVE raw[i] # Unknown
    OBVIOUS
  <2>1. i - 1 \in b..e
    BY <1>1, <1>9
  <2>2. Filling(codes, i) # Filling(codes, i - 1)
    BY <1>3, <1>7, <1>9, <2>1
  <2> QED BY <1>1, <1>2, <1>9, <2>2, ChangesWhereKnown
<1>14. ~FastPath(m) /\ Known(m) # {} => Codes(m)[i] = Owner(m, i)
  <2> SUFFICES ASSUME ~FastPath(m), Known(m) # {} PROVE Codes(m)[i] = Owner(m, i)
    OBVIOUS
  <2>1. CASE KnownUpTo(codes, i) # {}
    <3>1. KnownUpTo(codes, i) \in SUBSET (0..e) /\ KnownUpTo(codes, i) \subseteq b..e
      BY <1>1, <1>2 DEF KnownUpTo, KnownIn
    <3>2. Max(KnownUpTo(codes, i)) \in b..e
      BY <1>1, <2>1, <3>1, MaxFacts
    <3>3. codes[Max(KnownUpTo(codes, i))] = raw[Max(KnownUpTo(codes, i))]
      BY <1>2, <3>2
    <3> QED BY <1>5, <1>6, <1>8, <1>10, <2>1, <3>3 DEF Filling, Carried
  <2>2. CASE KnownUpTo(codes, i) = {}
    <3>1. Known(m) \in SUBSET Nat /\ Known(m) \subseteq b..e
      BY <1>1, <1>4
    <3>2. Min(Known(m)) \in b..e
      BY <3>1, MinFacts
    <3>3. codes[Min(Known(m))] = raw[Min(Known(m))]
      BY <1>2, <3>2
    <3> QED BY <1>5, <1>6, <1>8, <1>10, <2>2, <3>3 DEF Filling
  <2> QED BY <2>1, <2>2
<1> QED BY <1>11, <1>12, <1>13, <1>14, <1>15 DEF b

LEMMA ListOfParts ==
    ASSUME NEW T, NEW n \in Nat, NEW s \in [1..n -> T]
    PROVE  s \in Seq(T) /\ Len(s) = n
OBVIOUS

LEMMA PartsFacts ==
    ASSUME NEW m \in Maneuver, m.begin < m.end, raw \in [Points -> CountryCode], PlacesAgree,
           ~FastPath(m)
    PROVE  LET s == Parts(m)
           IN  Tiling(m, s) /\ SharedOut(m, s) /\ Charged(m, s) /\ BlanksUnknown(s)
<1> DEFINE b == m.begin
           e == m.end
           codes == Codes(m)
           cuts == Changes(m, codes)[m.end]
           bounds == Append(cuts, m.end)
           n == Len(cuts)
           P(k) == Part(m, codes[bounds[k]], bounds[k], bounds[k + 1])
           s == Parts(m)
<1>1. b \in Nat /\ e \in Nat /\ b < e /\ b..e \subseteq Points
  BY PointAssumption DEF Maneuver, Points
<1>2. \A i \in b..e :
          /\ codes[i] \in CountryCode
          /\ Known(m) = {} => codes[i] = Unknown
          /\ Known(m) # {} => codes[i] # Unknown
          /\ i # b /\ codes[i] # codes[i - 1] => raw[i] # Unknown
          /\ raw[i] # Unknown => codes[i] = raw[i]
          /\ Known(m) # {} => codes[i] = Owner(m, i)
  BY <1>1, CodesFacts
<1>3. CutsOK(codes, b, e, cuts)
  BY <1>1, ChangesFacts
<1>4. s = IF Len(bounds) = 2 THEN Whole(m, codes[m.begin])
          ELSE [k \in 1..(Len(bounds) - 1) |-> P(k)]
  BY DEF Parts, Boundaries
<1>5. Known(m) = {j \in b..e : raw[j] # Unknown}
  BY DEF Known
<1>6. bounds = Append(cuts, e)
  OBVIOUS
<1> HIDE DEF codes
<1> HIDE DEF cuts
<1> HIDE DEF bounds
<1> HIDE DEF s
<1>7. /\ cuts \in Seq(Nat) /\ n \in Nat /\ n >= 1 /\ cuts[1] = b
      /\ \A k \in 1..n : cuts[k] \in b..e
      /\ \A k \in 1..(n - 1) :
            cuts[k] < cuts[k + 1]
            /\ \A q \in cuts[k]..(cuts[k + 1] - 1) : codes[q] = codes[cuts[k]]
      /\ \A q \in cuts[n]..e : codes[q] = codes[cuts[n]]
      /\ \A k \in 2..n : codes[cuts[k]] # codes[cuts[k] - 1]
  BY <1>3 DEF CutsOK
<1>8. /\ bounds \in Seq(Nat) /\ Len(bounds) = n + 1 /\ bounds[n + 1] = e
      /\ \A k \in 1..n : bounds[k] = cuts[k]
  BY <1>1, <1>6, <1>7
<1>9. \A k \in 1..n : /\ bounds[k] \in b..e /\ bounds[k + 1] \in b..e
                      /\ bounds[k] <= bounds[k + 1]
                      /\ \A q \in bounds[k]..(bounds[k + 1] - 1) : codes[q] = codes[bounds[k]]
  <2> TAKE k \in 1..n
  <2>1. bounds[k] = cuts[k] /\ cuts[k] \in b..e
    BY <1>7, <1>8
  <2>2. CASE k = n
    <3>1. bounds[k + 1] = e /\ e \in b..e
      BY <1>1, <1>8, <2>2
    <3>2. \A q \in bounds[k]..(e - 1) : q \in cuts[n]..e
      BY <1>1, <2>1, <2>2
    <3> QED BY <1>7, <2>1, <2>2, <3>1, <3>2
  <2>3. CASE k # n
    <3>1. k \in 1..(n - 1) /\ k + 1 \in 1..n
      BY <1>7, <2>3
    <3>2. bounds[k + 1] = cuts[k + 1] /\ cuts[k + 1] \in b..e
      BY <1>7, <1>8, <3>1
    <3>3. cuts[k] < cuts[k + 1] /\ \A q \in cuts[k]..(cuts[k + 1] - 1) : codes[q] = codes[cuts[k]]
      BY <1>7, <3>1
    <3> QED BY <2>1, <3>2, <3>3
  <2> QED BY <2>2, <2>3
<1>15. n # 1 => ShapeDist(b, e) > 0
  <2> SUFFICES ASSUME n # 1 PROVE ShapeDist(b, e) > 0
    OBVIOUS
  <2>1. 2 \in 1..n /\ 2 \in 2..n /\ 1 \in 1..(n - 1)
    <3>1. n \in Nat /\ n >= 1
      BY <1>7
    <3> HIDE DEF n
    <3> QED BY <3>1
  <2> DEFINE i == cuts[2]
  <2>2. i \in b..e /\ i > b /\ codes[i] # codes[i - 1]
    <3>1. cuts[1] < cuts[1 + 1] /\ cuts[1] = b
      BY <1>7, <2>1
    <3>2. cuts[2] \in b..e /\ codes[cuts[2]] # codes[cuts[2] - 1]
      BY <1>7, <2>1
    <3> QED BY <1>1, <3>1, <3>2
  <2> HIDE DEF i
  <2>3. i - 1 \in b..(e - 1) /\ i - 1 \in b..e /\ i - 1 \in 0..(LastPoint - 1) /\ (i - 1) + 1 = i
    <3>1. e \in Points
      BY <1>1 DEF e
    <3> QED BY <1>1, <2>2, <3>1, PointAssumption DEF Points
  <2>4. raw[i] # Unknown /\ codes[i] = raw[i]
    BY <1>1, <1>2, <2>2
  <2>5. raw[i - 1] # raw[i]
    BY <1>2, <2>2, <2>3, <2>4
  <2>6. Hop[i - 1] # 0 /\ Hop[i - 1] \in Nat
    BY <2>3, <2>5, HopAssumption DEF PlacesAgree
  <2>7. ShapeDist(b, e) \in Nat /\ Hop[i - 1] <= ShapeDist(b, e)
    <3>1. b \in Points /\ e \in Points /\ b <= e
      BY <1>1
    <3> QED BY <2>3, <3>1, DistanceFacts
  <2> QED BY <2>6, <2>7
<1>10. /\ s \in Seq(PartType) /\ Len(s) = n
       /\ \A k \in 1..n : /\ s[k].country = codes[bounds[k]]
                          /\ s[k].begin = bounds[k] /\ s[k].end = bounds[k + 1]
       /\ SharedOut(m, s)
  <2>1. CASE n = 1
    <3>1. Len(bounds) = 2 /\ bounds[1] = b /\ bounds[1 + 1] = e
      <4>1. 1 \in 1..n
        BY <2>1
      <4>2. Len(bounds) = 1 + 1 /\ bounds[1 + 1] = e /\ bounds[1] = cuts[1]
        BY <1>8, <2>1, <4>1
      <4> QED BY <1>7, <4>2
    <3>2. s = Whole(m, codes[m.begin])
      BY <1>4, <3>1
    <3>3. codes[m.begin] \in CountryCode /\ m.begin <= m.end
      BY <1>1, <1>2
    <3>4. /\ Len(s) = 1
          /\ s[1].country = codes[m.begin] /\ s[1].begin = m.begin /\ s[1].end = m.end
          /\ Tiling(m, s) /\ SharedOut(m, s)
      BY <3>2, <3>3, WholeParts
    <3>5. s \in Seq(PartType)
      BY <3>4 DEF Tiling
    <3> QED BY <2>1, <3>1, <3>4, <3>5
  <2>2. CASE n # 1
    <3>1. Len(bounds) - 1 = n /\ Len(bounds) # 2 /\ n \in Nat
      <4>1. n \in Nat /\ Len(bounds) = n + 1
        BY <1>7, <1>8
      <4> HIDE DEF n
      <4> QED BY <2>2, <4>1
    <3>2. s = [k \in 1..n |-> P(k)]
      BY <1>4, <3>1
    <3>3. \A k \in 1..n :
             /\ s[k] \in PartType /\ s[k].country = codes[bounds[k]]
             /\ s[k].begin = bounds[k] /\ s[k].end = bounds[k + 1]
             /\ Fair(m, s[k])
             /\ s[k] = P(k)
      <4> TAKE k \in 1..n
      <4>1. /\ codes[bounds[k]] \in CountryCode /\ bounds[k] \in Points
            /\ bounds[k + 1] \in Points /\ bounds[k] <= bounds[k + 1]
        BY <1>1, <1>2, <1>9
      <4>2. s[k] = P(k)
        BY <3>2
      <4>3. m.begin < m.end /\ ShapeDist(m.begin, m.end) > 0
        BY <1>15, <2>2
      <4> QED BY <4>1, <4>2, <4>3, PartFacts
    <3>4. s \in Seq(PartType) /\ Len(s) = n
      <4>1. s \in [1..n -> PartType]
        BY <3>2, <3>3
      <4> QED BY <3>1, <4>1, ListOfParts
    <3>5. ASSUME NEW x \in Lengths \cup Times, NEW f,
                 \A k \in 1..n : f[k] = Share(m, x, bounds[k], bounds[k + 1])
          PROVE  SumFunctionOnSet(f, 1..n) = x
      <4> DEFINE total == ShapeDist(b, e)
      <4>1. PICK piece \in Nat :
                /\ x = piece * total
                /\ \A from, to \in Points : Share(m, x, from, to) = piece * ShapeDist(from, to)
        <5>1. m.begin < m.end /\ ShapeDist(m.begin, m.end) > 0
          BY <1>15, <2>2
        <5> QED BY <5>1, ShareFacts
      <4> DEFINE g == [k \in 1..(n + 1) |-> piece * ShapeDist(b, bounds[k])]
      <4>2. \A k \in 1..(n + 1) : bounds[k] \in b..e /\ bounds[k] \in Points
        <5> TAKE k \in 1..(n + 1)
        <5>1. k \in 1..n \/ k = n + 1
          BY <3>1
        <5>2. e \in b..e
          BY <1>1
        <5> QED BY <1>1, <1>8, <1>9, <5>1, <5>2
      <4>3. \A k \in 1..(n + 1) : ShapeDist(b, bounds[k]) \in Nat
        <5> TAKE k \in 1..(n + 1)
        <5>1. b \in Points /\ bounds[k] \in Points /\ b <= bounds[k]
          BY <1>1, <4>2
        <5> QED BY <5>1, DistanceFacts
      <4>4. \A k \in 1..n : f[k] = g[k + 1] - g[k]
        <5> TAKE k \in 1..n
        <5>1. k \in 1..(n + 1) /\ k + 1 \in 1..(n + 1)
          BY <3>1
        <5>2. /\ b \in Points /\ bounds[k] \in Points /\ bounds[k + 1] \in Points
              /\ b <= bounds[k] /\ bounds[k] <= bounds[k + 1]
          <6>1. bounds[k] \in b..e /\ bounds[k] \in Points /\ bounds[k + 1] \in Points
            BY <4>2, <5>1
          <6>2. bounds[k] <= bounds[k + 1]
            BY <1>9
          <6>3. b \in Points /\ b <= bounds[k]
            <7>1. b \in b..e /\ \A i \in b..e : b <= i
              BY <1>1
            <7> QED BY <1>1, <6>1, <7>1
          <6> QED BY <6>1, <6>2, <6>3
        <5> DEFINE d1 == ShapeDist(b, bounds[k])
                   d2 == ShapeDist(bounds[k], bounds[k + 1])
                   d3 == ShapeDist(b, bounds[k + 1])
        <5>3. d3 = d1 + d2 /\ d1 \in Nat /\ d2 \in Nat
          BY <5>2, DistanceFacts
        <5>4. f[k] = piece * d2
          BY <3>5, <4>1, <5>2
        <5>5. g[k] = piece * d1 /\ g[k + 1] = piece * d3
          BY <5>1
        <5> HIDE DEF d1, d2, d3, g
        <5>6. piece * d3 = piece * d1 + piece * d2
          BY <5>3
        <5> QED BY <5>3, <5>4, <5>5, <5>6
      <4>5. \A k \in 1..(n + 1) : g[k] \in Int
        BY <4>3
      <4>6. g[1] = 0 /\ g[n + 1] = piece * total
        <5>1. bounds[1] = b /\ bounds[n + 1] = e /\ 1 \in 1..(n + 1) /\ n + 1 \in 1..(n + 1)
          BY <1>7, <1>8, <3>1
        <5>2. b..(b - 1) = {}
          BY <1>1
        <5>3. ShapeDist(b, b) = 0
          BY <5>2, SumEmpty DEF ShapeDist
        <5> QED BY <5>1, <5>3
      <4>9. Differences(f, g, n)
        BY <4>4, <4>5 DEF Differences
      <4> HIDE DEF g
      <4>7. SumFunctionOnSet(f, 1..n) = g[n + 1] - g[1]
        BY <3>1, <4>9, SumOfDifferences
      <4>8. piece * total \in Int
        BY <4>5, <4>6, <3>1
      <4> QED BY <4>1, <4>6, <4>7, <4>8
    <3>6. DOMAIN s = 1..n
      BY <3>2
    <3>7. TotalLength(s) = m.length
      <4> DEFINE f == [k \in DOMAIN s |-> s[k].length]
      <4>1. \A k \in 1..n : f[k] = Share(m, m.length, bounds[k], bounds[k + 1])
        BY <3>3, <3>6 DEF Part
      <4>2. m.length \in Lengths \cup Times
        BY DEF Maneuver
      <4> HIDE DEF f
      <4>3. SumFunctionOnSet(f, 1..n) = m.length
        BY <3>5, <4>1, <4>2
      <4> QED BY <3>6, <4>3 DEF TotalLength, f
    <3>8. TotalTime(s) = m.time
      <4> DEFINE f == [k \in DOMAIN s |-> s[k].time]
      <4>1. \A k \in 1..n : f[k] = Share(m, m.time, bounds[k], bounds[k + 1])
        BY <3>3, <3>6 DEF Part
      <4>2. m.time \in Lengths \cup Times
        BY DEF Maneuver
      <4> HIDE DEF f
      <4>3. SumFunctionOnSet(f, 1..n) = m.time
        BY <3>5, <4>1, <4>2
      <4> QED BY <3>6, <4>3 DEF TotalTime, f
    <3> QED BY <3>3, <3>4, <3>7, <3>8 DEF SharedOut
  <2> QED BY <2>1, <2>2
<1>11. s \in Seq(PartType) /\ Len(s) = n
  BY <1>10
<1>12. Tiling(m, s)
  <2>1. s[1].begin = m.begin /\ s[Len(s)].end = m.end
    BY <1>7, <1>8, <1>10, <1>11
  <2>2. \A k \in 1..Len(s) : /\ s[k].begin \in m.begin..m.end /\ s[k].end \in m.begin..m.end
                             /\ s[k].begin <= s[k].end
    BY <1>9, <1>10, <1>11
  <2>3. \A k \in 1..(Len(s) - 1) : s[k].end = s[k + 1].begin
    BY <1>7, <1>10, <1>11
  <2> QED BY <1>7, <1>11, <2>1, <2>2, <2>3 DEF Tiling
<1>13. Charged(m, s)
  <2>1. SUFFICES ASSUME Known(m) # {}, NEW i \in m.begin..(m.end - 1), NEW k \in 1..Len(s),
                        s[k].begin <= i, i < s[k].end
                 PROVE  s[k].country = Owner(m, i)
    BY DEF Charged
  <2>2. i \in b..e /\ k \in 1..n
    BY <1>1, <1>11
  <2>3. i \in bounds[k]..(bounds[k + 1] - 1)
    <3>1. bounds[k] \in b..e /\ bounds[k + 1] \in b..e /\ bounds[k] <= i /\ i < bounds[k + 1]
      BY <1>9, <1>10, <2>1, <2>2
    <3> QED BY <1>1, <2>2, <3>1
  <2>4. codes[i] = codes[bounds[k]]
    BY <1>9, <2>2, <2>3
  <2> QED BY <1>2, <1>10, <2>1, <2>2, <2>4
<1>14. BlanksUnknown(s)
  <2>1. SUFFICES ASSUME NEW k \in 1..n
                 PROVE  codes[bounds[k]] = Unknown <=>
                            \A i \in bounds[k]..bounds[k + 1] : raw[i] = Unknown
    BY <1>10, <1>11 DEF BlanksUnknown
  <2>2. bounds[k] \in b..e /\ bounds[k + 1] \in b..e /\ bounds[k] <= bounds[k + 1]
    BY <1>9
  <2>3. CASE Known(m) = {}
    <3>1. \A i \in bounds[k]..bounds[k + 1] : i \in b..e
      BY <1>1, <2>2
    <3> QED BY <1>2, <1>5, <2>2, <2>3, <3>1
  <2>4. CASE Known(m) # {}
    <3>1. SUFFICES \E i \in bounds[k]..bounds[k + 1] : raw[i] # Unknown
      BY <1>2, <2>2, <2>4
    <3>2. CASE k # 1
      <4>1. k \in 2..n /\ bounds[k] = cuts[k] /\ k - 1 \in 1..(n - 1) /\ k - 1 \in 1..n
        BY <1>7, <1>8, <3>2
      <4>2. bounds[k] # b
        <5>1. cuts[k - 1] < cuts[k - 1 + 1] /\ cuts[k - 1] \in b..e /\ k - 1 + 1 = k
          <6>1. cuts[k - 1] < cuts[k - 1 + 1] /\ cuts[k - 1] \in b..e
            BY <1>7, <4>1
          <6>2. k - 1 + 1 = k
            OBVIOUS
          <6> QED BY <6>1, <6>2
        <5> QED BY <1>1, <4>1, <5>1
      <4>3. codes[bounds[k]] # codes[bounds[k] - 1]
        BY <1>7, <4>1
      <4>4. raw[bounds[k]] # Unknown
        BY <1>2, <2>2, <4>2, <4>3
      <4>5. bounds[k] \in bounds[k]..bounds[k + 1]
        BY <1>1, <2>2
      <4> QED BY <4>4, <4>5
    <3>3. CASE k = 1 /\ n # 1
      <4>0. n \in Nat /\ n > 1
        <5>1. n \in Nat /\ n >= 1
          BY <1>7
        <5> HIDE DEF n
        <5> QED BY <3>3, <5>1
      <4>1. 2 \in 2..n /\ 1 \in 1..(n - 1) /\ 2 \in 1..n /\ 1 \in 1..n
        BY <4>0
      <4>2. bounds[k] = b /\ bounds[k + 1] = cuts[2]
        BY <1>7, <1>8, <3>3, <4>1
      <4>3. b < cuts[2]
        <5>1. cuts[1] < cuts[1 + 1]
          BY <1>7, <4>1
        <5> QED BY <1>7, <5>1
      <4>4. codes[cuts[2]] # codes[cuts[2] - 1]
        BY <1>7, <4>1
      <4>5. raw[bounds[k + 1]] # Unknown
        BY <1>1, <1>2, <2>2, <4>2, <4>3, <4>4
      <4>6. bounds[k + 1] \in bounds[k]..bounds[k + 1]
        BY <1>1, <2>2
      <4> QED BY <4>5, <4>6
    <3>4. CASE k = 1 /\ n = 1
      <4>1. bounds[k] = b /\ bounds[k + 1] = e
        BY <1>7, <1>8, <3>4
      <4> QED BY <1>5, <2>4, <4>1
    <3> QED BY <3>2, <3>3, <3>4
  <2> QED BY <2>3, <2>4
<1> QED BY <1>10, <1>12, <1>13, <1>14 DEF s

\* What splitManeuverByCountry makes of any maneuver.
LEMMA SplitFacts ==
    ASSUME NEW m \in Maneuver, m.begin <= m.end, raw \in [Points -> CountryCode], PlacesAgree
    PROVE  LET s == SplitManeuver(m)
           IN  Tiling(m, s) /\ SharedOut(m, s) /\ Charged(m, s) /\ BlanksUnknown(s)
<1>1. m.begin \in Nat /\ m.end \in Nat
  BY PointAssumption DEF Maneuver, Points
<1>2. CASE SinglePoint(m) \/ FastPath(m)
  BY <1>2, WholeFacts DEF SplitManeuver
<1>3. CASE ~SinglePoint(m) /\ ~FastPath(m)
  <2>1. m.begin < m.end
    BY <1>1, <1>3 DEF SinglePoint
  <2>2. SplitManeuver(m) = Parts(m)
    BY <1>3 DEF SplitManeuver
  <2> QED BY <1>3, <2>1, <2>2, PartsFacts
<1> QED BY <1>2, <1>3

-----------------------------------------------------------------------------
(* The inductive invariant. *)

SplitTypeOK ==
    /\ raw \in [Points -> CountryCode] /\ PlacesAgree
    /\ maneuvers \in Seq(Maneuver)
    /\ parts \in Seq(PartType)
    /\ state \in {"split", "fill", "filled"}

\* Nothing reaches behind the point up to which the leg is split.
UpToHere ==
    /\ parts = <<>> <=> maneuvers = <<>>
    /\ \A n \in DOMAIN maneuvers :
          maneuvers[n].begin <= maneuvers[n].end /\ maneuvers[n].end <= Here
    /\ \A k \in DOMAIN parts : parts[k].end <= Here

\* Until the filling a part has no country exactly when all its points have none.
BlanksToFill ==
    state # "filled" => \A k \in DOMAIN parts : parts[k].country = Unknown <=> Blank(k)

SplitInv ==
    /\ SplitTypeOK
    /\ UpToHere
    /\ TilesTheLeg
    /\ ChargesTheOwner
    /\ BlanksToFill
    /\ NoCountryLost
    /\ InheritsTheNeighbour

LEMMA InitSplit == Init => SplitInv
<1> SUFFICES ASSUME Init PROVE SplitInv
  OBVIOUS
<1> USE DEF Init
<1>1. SplitTypeOK
  BY DEF SplitTypeOK, CountryCode, PlacesAgree
<1>2. UpToHere
  BY DEF UpToHere
<1>3. ChargesTheOwner /\ BlanksToFill /\ NoCountryLost /\ InheritsTheNeighbour
  BY DEF ChargesTheOwner, BlanksToFill, NoCountryLost, InheritsTheNeighbour, Filled
<1>4. TilesTheLeg
  <2>1. TotalLength(parts) = TotalLength(maneuvers) /\ TotalTime(parts) = TotalTime(maneuvers)
    <3>1. parts = maneuvers
      OBVIOUS
    <3> QED BY <3>1
  <2>2. Tiled /\ InProportion /\ NothingAddedOrLost
    BY <2>1 DEF Tiled, InProportion, NothingAddedOrLost
  <2> QED BY <2>2 DEF TilesTheLeg
<1> QED BY <1>1, <1>2, <1>3, <1>4 DEF SplitInv

\* The points of parts and maneuvers are numbers, and so is the point reached.
LEMMA PointsAreNumbers ==
    ASSUME SplitTypeOK
    PROVE  /\ \A k \in DOMAIN parts : /\ parts[k].begin \in Nat /\ parts[k].end \in Nat
                                      /\ parts[k] \in PartType
           /\ \A n \in DOMAIN maneuvers : /\ maneuvers[n].begin \in Nat /\ maneuvers[n].end \in Nat
                                          /\ maneuvers[n] \in Maneuver
           /\ Here \in Nat
           /\ DOMAIN parts = 1..Len(parts) /\ Len(parts) \in Nat
           /\ DOMAIN maneuvers = 1..Len(maneuvers) /\ Len(maneuvers) \in Nat
<1>1. Points \subseteq Nat
  BY PointAssumption DEF Points
<1>2. /\ DOMAIN parts = 1..Len(parts) /\ Len(parts) \in Nat
      /\ DOMAIN maneuvers = 1..Len(maneuvers) /\ Len(maneuvers) \in Nat
  BY DEF SplitTypeOK
<1>3. \A k \in DOMAIN parts : parts[k] \in PartType
  BY <1>2 DEF SplitTypeOK
<1>4. \A n \in DOMAIN maneuvers : maneuvers[n] \in Maneuver
  BY <1>2 DEF SplitTypeOK
<1>5. \A k \in DOMAIN parts : parts[k].begin \in Nat /\ parts[k].end \in Nat
  <2> TAKE k \in DOMAIN parts
  <2>1. parts[k].begin \in Points /\ parts[k].end \in Points
    BY <1>3 DEF PartType
  <2> QED BY <1>1, <2>1
<1>6. \A n \in DOMAIN maneuvers : maneuvers[n].begin \in Nat /\ maneuvers[n].end \in Nat
  BY <1>1, <1>4 DEF Maneuver
<1>7. Here \in Nat
  <2>1. CASE maneuvers = <<>>
    BY <2>1 DEF Here
  <2>2. CASE maneuvers # <<>>
    <3>1. Len(maneuvers) \in DOMAIN maneuvers
      BY <2>2 DEF SplitTypeOK
    <3> QED BY <1>6, <2>2, <3>1 DEF Here, Last
  <2> QED BY <2>1, <2>2
<1> QED BY <1>2, <1>3, <1>4, <1>5, <1>6, <1>7

\* The owner of the hops, of the countries r of the points.
Charges(ms, ps, r) ==
    \A n \in DOMAIN ms :
        LET m         == ms[n]
            known     == {i \in m.begin..m.end : r[i] # Unknown}
            before(i) == {j \in known : j <= i}
            owner(i)  == IF r[m.begin] # Unknown /\ r[m.begin] = r[m.end] /\ m.length < LongLength THEN r[m.begin]
                         ELSE IF before(i) # {} THEN r[Max(before(i))] ELSE r[Min(known)]
        IN  known # {} =>
                \A i \in m.begin..(m.end - 1) : \A k \in DOMAIN ps :
                    ps[k].begin <= i /\ i < ps[k].end => ps[k].country = owner(i)

LEMMA ChargesIs ==
    /\ ChargesTheOwner <=> Charges(maneuvers, parts, raw)
    /\ ChargesTheOwner' <=> Charges(maneuvers', parts', raw')
<1>1. ChargesTheOwner <=> Charges(maneuvers, parts, raw)
  BY DEF ChargesTheOwner, Charges, Known, Owner
<1>2. ChargesTheOwner' <=> Charges(maneuvers', parts', raw')
  BY DEF ChargesTheOwner, Charges, Known, Owner
<1> QED BY <1>1, <1>2

\* The totals of one list followed by another.
Followed(a, l, b, n, c) ==
    /\ DOMAIN a = 1..l /\ DOMAIN b = 1..n /\ DOMAIN c = 1..(l + n)
    /\ \A k \in 1..l : a[k].length \in Int /\ a[k].time \in Int /\ c[k] = a[k]
    /\ \A k \in 1..n : b[k].length \in Int /\ b[k].time \in Int /\ c[l + k] = b[k]

LEMMA TotalsConcat ==
    ASSUME NEW l \in Nat, NEW n \in Nat, NEW a, NEW b, NEW c, Followed(a, l, b, n, c)
    PROVE  /\ TotalLength(c) = TotalLength(a) + TotalLength(b)
           /\ TotalTime(c) = TotalTime(a) + TotalTime(b)
<1> USE DEF Followed
<1>1. TotalLength(c) = TotalLength(a) + TotalLength(b)
  <2> DEFINE f == [k \in DOMAIN a |-> a[k].length]
             g == [k \in DOMAIN b |-> b[k].length]
             h == [k \in DOMAIN c |-> c[k].length]
  <2>1. \A k \in 1..l : f[k] \in Int /\ h[k] = f[k]
    <3>1. \A k \in 1..l : k \in 1..(l + n)
      OBVIOUS
    <3> QED BY <3>1
  <2>2. \A k \in 1..n : g[k] \in Int /\ h[l + k] = g[k]
    <3>1. \A k \in 1..n : l + k \in 1..(l + n)
      OBVIOUS
    <3> QED BY <3>1
  <2> HIDE DEF f, g, h
  <2>3. OneAfterTheOther(f, l, g, n, h)
    BY <2>1, <2>2 DEF OneAfterTheOther
  <2>4. SumFunctionOnSet(h, 1..(l + n)) = SumFunctionOnSet(f, 1..l) + SumFunctionOnSet(g, 1..n)
    BY <2>3, SumConcat
  <2> QED BY <2>4 DEF TotalLength, f, g, h
<1>2. TotalTime(c) = TotalTime(a) + TotalTime(b)
  <2> DEFINE f == [k \in DOMAIN a |-> a[k].time]
             g == [k \in DOMAIN b |-> b[k].time]
             h == [k \in DOMAIN c |-> c[k].time]
  <2>1. \A k \in 1..l : f[k] \in Int /\ h[k] = f[k]
    <3>1. \A k \in 1..l : k \in 1..(l + n)
      OBVIOUS
    <3> QED BY <3>1
  <2>2. \A k \in 1..n : g[k] \in Int /\ h[l + k] = g[k]
    <3>1. \A k \in 1..n : l + k \in 1..(l + n)
      OBVIOUS
    <3> QED BY <3>1
  <2> HIDE DEF f, g, h
  <2>3. OneAfterTheOther(f, l, g, n, h)
    BY <2>1, <2>2 DEF OneAfterTheOther
  <2>4. SumFunctionOnSet(h, 1..(l + n)) = SumFunctionOnSet(f, 1..l) + SumFunctionOnSet(g, 1..n)
    BY <2>3, SumConcat
  <2> QED BY <2>4 DEF TotalTime, f, g, h
<1> QED BY <1>1, <1>2

\* The totals of one maneuver.
LEMMA TotalsOfOne ==
    ASSUME NEW m, m.length \in Int, m.time \in Int
    PROVE  TotalLength(<<m>>) = m.length /\ TotalTime(<<m>>) = m.time
<1> DEFINE s == <<m>>
           f == [k \in DOMAIN s |-> s[k].length]
           g == [k \in DOMAIN s |-> s[k].time]
<1>1. DOMAIN s = 1..1 /\ f[1] = m.length /\ g[1] = m.time
  OBVIOUS
<1> HIDE DEF f, g
<1>2. SumFunctionOnSet(f, 1..1) = m.length /\ SumFunctionOnSet(g, 1..1) = m.time
  BY <1>1, SumOne
<1> QED BY <1>1, <1>2 DEF TotalLength, TotalTime, f, g

\* NothingAddedOrLost and InProportion of these maneuvers and parts.
LEMMA TotalsIs ==
    /\ NothingAddedOrLost <=> /\ TotalLength(parts) = TotalLength(maneuvers)
                              /\ TotalTime(parts) = TotalTime(maneuvers)
    /\ NothingAddedOrLost' <=> /\ TotalLength(parts') = TotalLength(maneuvers')
                               /\ TotalTime(parts') = TotalTime(maneuvers')
BY DEF NothingAddedOrLost, TotalLength, TotalTime

Proportions(ms, ps) ==
    \A n \in DOMAIN ms, k \in DOMAIN ps :
        ms[n].begin <= ps[k].begin /\ ps[k].begin < ps[k].end /\ ps[k].end <= ms[n].end =>
            Fair(ms[n], ps[k])

LEMMA ProportionsIs ==
    /\ InProportion <=> Proportions(maneuvers, parts)
    /\ InProportion' <=> Proportions(maneuvers', parts')
<1>1. InProportion <=> Proportions(maneuvers, parts)
  BY DEF InProportion, Proportions, Fair
<1>2. InProportion' <=> Proportions(maneuvers', parts')
  BY DEF InProportion, Proportions, Fair
<1> QED BY <1>1, <1>2

LEMMA SplitKeeps ==
    ASSUME SplitInv, NEW m \in Maneuver, Split(m)
    PROVE  SplitInv'
<1> DEFINE s == SplitManeuver(m)
           L == Len(parts)
           N == Len(maneuvers)
<1>0. SplitTypeOK /\ UpToHere /\ TilesTheLeg /\ ChargesTheOwner /\ BlanksToFill
  BY DEF SplitInv
<1>1. /\ raw \in [Points -> CountryCode] /\ raw' = raw /\ state' = "split" /\ state = "split"
      /\ m.begin = Here /\ m.begin <= m.end
      /\ maneuvers' = Append(maneuvers, m) /\ parts' = parts \o s
  BY <1>0, PointsAreNumbers, PointAssumption DEF Split, SplitTypeOK, Maneuver, Points
<1>2. m.begin \in Nat /\ m.end \in Nat
  BY PointAssumption DEF Maneuver, Points
<1>3. Tiling(m, s) /\ SharedOut(m, s) /\ Charged(m, s) /\ BlanksUnknown(s)
  BY <1>0, <1>1, SplitFacts DEF SplitTypeOK
<1> HIDE DEF s
<1>4. s \in Seq(PartType) /\ Len(s) \in Nat /\ Len(s) >= 1
  BY <1>3 DEF Tiling
<1>5. /\ \A k \in 1..L : parts[k].begin \in Nat /\ parts[k].end \in Nat
      /\ DOMAIN parts = 1..L /\ L \in Nat
      /\ DOMAIN maneuvers = 1..N /\ N \in Nat
      /\ \A n \in 1..N : maneuvers[n].begin \in Nat /\ maneuvers[n].end \in Nat
      /\ Here \in Nat
  BY <1>0, PointsAreNumbers
<1>6. /\ maneuvers' \in Seq(Maneuver) /\ DOMAIN maneuvers' = 1..(N + 1) /\ maneuvers' # <<>>
      /\ Len(maneuvers') = N + 1
      /\ maneuvers'[N + 1] = m /\ \A n \in 1..N : maneuvers'[n] = maneuvers[n]
  BY <1>0, <1>1, SMTT(30) DEF SplitTypeOK
<1>7. /\ parts' \in Seq(PartType) /\ DOMAIN parts' = 1..(L + Len(s)) /\ Len(parts') = L + Len(s)
      /\ \A k \in 1..L : parts'[k] = parts[k]
      /\ \A k \in 1..Len(s) : parts'[L + k] = s[k]
  BY <1>0, <1>1, <1>4 DEF SplitTypeOK
<1>8. \A k \in 1..(L + Len(s)) : k \in 1..L \/ (k - L \in 1..Len(s) /\ k = L + (k - L))
  BY <1>4, <1>5
<1>9. Here' = m.end
  BY <1>6 DEF Here, Last
<1>10. /\ s[1].begin = m.begin /\ s[Len(s)].end = m.end
       /\ \A k \in 1..Len(s) : /\ s[k].begin \in m.begin..m.end /\ s[k].end \in m.begin..m.end
                               /\ s[k].begin <= s[k].end
       /\ \A k \in 1..(Len(s) - 1) : s[k].end = s[k + 1].begin
  BY <1>3 DEF Tiling
<1>11. /\ parts = <<>> <=> maneuvers = <<>>
       /\ \A n \in 1..N : maneuvers[n].begin <= maneuvers[n].end /\ maneuvers[n].end <= m.begin
       /\ \A k \in 1..L : parts[k].end <= m.begin
  BY <1>0, <1>1, <1>5 DEF UpToHere
<1>12. SplitTypeOK'
  BY <1>0, <1>1, <1>6, <1>7 DEF SplitTypeOK, PlacesAgree
<1>13. UpToHere'
  <2>1. parts' # <<>>
    BY <1>4, <1>5, <1>7
  <2>2. \A n \in 1..(N + 1) : maneuvers'[n].begin <= maneuvers'[n].end /\ maneuvers'[n].end <= m.end
    <3> TAKE n \in 1..(N + 1)
    <3>1. n \in 1..N \/ n = N + 1
      BY <1>5
    <3>2. CASE n \in 1..N
      BY <1>1, <1>2, <1>5, <1>6, <1>11, <3>2
    <3> QED BY <1>1, <1>2, <1>6, <3>1, <3>2
  <2>3. \A k \in 1..(L + Len(s)) : parts'[k].end <= m.end
    <3> TAKE k \in 1..(L + Len(s))
    <3>1. CASE k \in 1..L
      BY <1>1, <1>2, <1>5, <1>7, <1>11, <3>1
    <3>2. CASE k - L \in 1..Len(s) /\ k = L + (k - L)
      <4>1. parts'[k] = s[k - L] /\ s[k - L].end \in m.begin..m.end
        BY <1>7, <1>10, <3>2
      <4> QED BY <1>2, <4>1
    <3> QED BY <1>8, <3>1, <3>2
  <2> QED BY <1>6, <1>7, <1>9, <2>1, <2>2, <2>3 DEF UpToHere
<1>14. Tiled'
  <2>1. /\ L # 0 => parts[1].begin = 0 /\ parts[L].end = m.begin
        /\ L = 0 => m.begin = 0
        /\ \A k \in 1..L : parts[k].begin <= parts[k].end
        /\ \A k \in 1..(L - 1) : parts[k].end = parts[k + 1].begin
    <3>1. CASE L # 0
      <4>1. parts # <<>>
        BY <3>1
      <4>2. Last(parts) = parts[L]
        BY DEF Last
      <4> QED BY <1>0, <1>1, <1>5, <3>1, <4>1, <4>2 DEF TilesTheLeg, Tiled
    <3>2. CASE L = 0
      <4>1. parts = <<>>
        BY <1>0, <3>2 DEF SplitTypeOK
      <4>2. m.begin = 0
        BY <1>1, <1>11, <4>1 DEF Here
      <4> QED BY <3>2, <4>2
    <3> QED BY <3>1, <3>2
  <2>2. parts'[1].begin = 0
    <3>1. CASE L = 0
      <4>1. parts'[L + 1] = s[1] /\ L + 1 = 1
        BY <1>4, <1>7, <3>1
      <4> QED BY <1>10, <2>1, <3>1, <4>1
    <3>2. CASE L # 0
      <4>1. parts'[1] = parts[1]
        BY <1>5, <1>7, <3>2
      <4> QED BY <2>1, <3>2, <4>1
    <3> QED BY <3>1, <3>2
  <2>3. Last(parts').end = Here'
    <3>1. parts'[L + Len(s)] = s[Len(s)]
      BY <1>4, <1>7
    <3> QED BY <1>7, <1>9, <1>10, <3>1 DEF Last
  <2>4. \A k \in 1..(L + Len(s)) : parts'[k].begin <= parts'[k].end
    <3> TAKE k \in 1..(L + Len(s))
    <3>1. CASE k \in 1..L
      BY <1>7, <2>1, <3>1
    <3>2. CASE k - L \in 1..Len(s) /\ k = L + (k - L)
      <4>1. parts'[k] = s[k - L]
        BY <1>7, <3>2
      <4> QED BY <1>10, <3>2, <4>1
    <3> QED BY <1>8, <3>1, <3>2
  <2>5. \A k \in 1..(L + Len(s) - 1) : parts'[k].end = parts'[k + 1].begin
    <3> TAKE k \in 1..(L + Len(s) - 1)
    <3>1. CASE k \in 1..(L - 1)
      <4>1. k \in 1..L /\ k + 1 \in 1..L
        BY <1>5, <3>1
      <4> QED BY <1>7, <2>1, <3>1, <4>1
    <3>2. CASE k = L
      <4>1. L \in 1..L /\ 1 \in 1..Len(s) /\ L # 0
        BY <1>4, <1>5, <3>2
      <4>2. parts'[k] = parts[L] /\ parts'[L + 1] = s[1]
        BY <1>7, <3>2, <4>1
      <4> QED BY <1>10, <2>1, <3>2, <4>1, <4>2
    <3>3. CASE k > L
      <4> DEFINE j == k - L
      <4>1. j \in 1..(Len(s) - 1) /\ j \in 1..Len(s) /\ j + 1 \in 1..Len(s)
            /\ k = L + j /\ k + 1 = L + (j + 1)
        BY <1>4, <1>5, <3>3
      <4> HIDE DEF j
      <4>2. parts'[k] = s[j]
        BY <1>7, <4>1
      <4>3. parts'[k + 1] = s[j + 1]
        BY <1>7, <4>1
      <4> QED BY <1>10, <4>1, <4>2, <4>3
    <3>4. k \in 1..(L - 1) \/ k = L \/ k > L
      <4>1. k \in Int /\ k >= 1 /\ L \in Int
        BY <1>4, <1>5
      <4> HIDE DEF L
      <4> QED BY <4>1
    <3> QED BY <3>1, <3>2, <3>3, <3>4
  <2> QED BY <1>7, <2>2, <2>3, <2>4, <2>5 DEF Tiled
<1>18. NothingAddedOrLost'
  <2>1. \A k \in 1..L : parts[k].length \in Int /\ parts[k].time \in Int
    BY <1>0, <1>5, PointsAreNumbers DEF PartType
  <2>2. \A k \in 1..Len(s) : s[k].length \in Int /\ s[k].time \in Int
    <3>1. \A k \in 1..Len(s) : s[k] \in PartType
      BY <1>4
    <3> QED BY <3>1 DEF PartType
  <2>3. \A n \in 1..N : maneuvers[n].length \in Int /\ maneuvers[n].time \in Int
    <3>1. Lengths \subseteq Int /\ Times \subseteq Int
      BY UnitAssumption
    <3> QED BY <1>0, <1>5, <3>1, PointsAreNumbers DEF Maneuver
  <2>4. m.length \in Int /\ m.time \in Int
    <3>1. Lengths \subseteq Int /\ Times \subseteq Int
      BY UnitAssumption
    <3> QED BY <3>1 DEF Maneuver
  <2>5. DOMAIN s = 1..Len(s)
    BY <1>4
  <2>6. /\ TotalLength(parts') = TotalLength(parts) + TotalLength(s)
        /\ TotalTime(parts') = TotalTime(parts) + TotalTime(s)
    <3>1. Followed(parts, L, s, Len(s), parts')
      BY <1>4, <1>5, <1>7, <2>1, <2>2, <2>5 DEF Followed
    <3> QED BY <1>4, <1>5, <3>1, TotalsConcat
  <2>7. /\ TotalLength(maneuvers') = TotalLength(maneuvers) + TotalLength(<<m>>)
        /\ TotalTime(maneuvers') = TotalTime(maneuvers) + TotalTime(<<m>>)
    <3> DEFINE one == <<m>>
    <3>1. DOMAIN one = 1..1 /\ one[1] = m
      OBVIOUS
    <3>2. \A k \in 1..1 : k = 1
      OBVIOUS
    <3> HIDE DEF one
    <3>3. \A k \in 1..1 : one[k].length \in Int /\ one[k].time \in Int /\ maneuvers'[N + k] = one[k]
      BY <1>6, <2>4, <3>1, <3>2
    <3>4. /\ TotalLength(maneuvers') = TotalLength(maneuvers) + TotalLength(one)
          /\ TotalTime(maneuvers') = TotalTime(maneuvers) + TotalTime(one)
      <4>1. Followed(maneuvers, N, one, 1, maneuvers')
        BY <1>5, <1>6, <2>3, <3>1, <3>3 DEF Followed
      <4> QED BY <1>5, <4>1, TotalsConcat, SMTT(30)
    <3> QED BY <3>4 DEF one
  <2>8. TotalLength(s) = TotalLength(<<m>>) /\ TotalTime(s) = TotalTime(<<m>>)
    BY <1>3, <2>4, TotalsOfOne DEF SharedOut
  <2>9. TotalLength(parts) = TotalLength(maneuvers) /\ TotalTime(parts) = TotalTime(maneuvers)
    BY <1>0, TotalsIs DEF TilesTheLeg
  <2> QED BY <2>6, <2>7, <2>8, <2>9, TotalsIs
<1>19. InProportion'
  <2>1. \A n \in 1..N, k \in 1..L :
            maneuvers[n].begin <= parts[k].begin /\ parts[k].begin < parts[k].end
              /\ parts[k].end <= maneuvers[n].end => Fair(maneuvers[n], parts[k])
    <3>1. Proportions(maneuvers, parts)
      BY <1>0, ProportionsIs DEF TilesTheLeg
    <3> QED BY <1>5, <3>1 DEF Proportions
  <2>2. \A k \in 1..Len(s) : Fair(m, s[k])
    BY <1>3 DEF SharedOut
  <2>3. SUFFICES ASSUME NEW n \in 1..(N + 1), NEW k \in 1..(L + Len(s)),
                        maneuvers'[n].begin <= parts'[k].begin,
                        parts'[k].begin < parts'[k].end,
                        parts'[k].end <= maneuvers'[n].end
                 PROVE  Fair(maneuvers'[n], parts'[k])
    <3>1. SUFFICES Proportions(maneuvers', parts')
      BY ProportionsIs
    <3> QED BY <1>6, <1>7 DEF Proportions
  <2>4. n \in 1..N \/ n = N + 1
    BY <1>5
  <2>5. CASE n \in 1..N /\ k \in 1..L
    BY <1>6, <1>7, <2>1, <2>3, <2>5
  <2>6. CASE n \in 1..N /\ k - L \in 1..Len(s) /\ k = L + (k - L)
    <3>1. /\ parts'[k] = s[k - L] /\ s[k - L].begin \in m.begin..m.end
          /\ s[k - L].end \in m.begin..m.end
          /\ maneuvers'[n] = maneuvers[n] /\ maneuvers[n].end <= m.begin
          /\ maneuvers[n].end \in Nat
      BY <1>5, <1>6, <1>7, <1>10, <1>11, <2>6
    <3>2. PICK g : g = s[k - L].begin
      OBVIOUS
    <3>3. PICK l : l = s[k - L].end
      OBVIOUS
    <3>4. PICK mb \in Nat, me \in Nat, me2 \in Nat :
              mb = m.begin /\ me = m.end /\ me2 = maneuvers[n].end
      BY <1>2, <3>1
    <3>5. g \in mb..me /\ l \in mb..me /\ g < l /\ l <= me2 /\ me2 <= mb
      BY <2>3, <3>1, <3>2, <3>3, <3>4
    <3>6. FALSE
      BY <3>5
    <3> QED BY <3>6
  <2>7. CASE n = N + 1 /\ k \in 1..L
    <3>1. /\ parts'[k] = parts[k] /\ parts[k].end <= m.begin /\ maneuvers'[n] = m
          /\ parts[k].end \in Nat /\ parts[k].begin \in Nat
      BY <1>5, <1>6, <1>7, <1>11, <2>7
    <3>2. m.begin <= parts[k].begin /\ parts[k].begin < parts[k].end
      BY <2>3, <3>1
    <3> QED BY <1>2, <3>1, <3>2
  <2>8. CASE n = N + 1 /\ k - L \in 1..Len(s) /\ k = L + (k - L)
    <3>1. parts'[k] = s[k - L] /\ maneuvers'[n] = m
      BY <1>6, <1>7, <2>8
    <3> QED BY <2>2, <2>8, <3>1
  <2> QED BY <1>8, <2>4, <2>5, <2>6, <2>7, <2>8
<1>15. ChargesTheOwner'
  <2> DEFINE known(w)     == {i \in w.begin..w.end : raw[i] # Unknown}
             before(w, i) == {j \in known(w) : j <= i}
             owner(w, i)  == IF raw[w.begin] # Unknown /\ raw[w.begin] = raw[w.end]
                                  /\ w.length < LongLength
                             THEN raw[w.begin]
                             ELSE IF before(w, i) # {} THEN raw[Max(before(w, i))]
                                                       ELSE raw[Min(known(w))]
  <2>1. \A n \in 1..N : known(maneuvers[n]) # {} =>
            \A i \in maneuvers[n].begin..(maneuvers[n].end - 1) : \A k \in 1..L :
                parts[k].begin <= i /\ i < parts[k].end => parts[k].country = owner(maneuvers[n], i)
    <3>1. Charges(maneuvers, parts, raw)
      BY <1>0, ChargesIs
    <3> QED BY <1>5, <3>1 DEF Charges
  <2>2. known(m) # {} =>
            \A i \in m.begin..(m.end - 1) : \A k \in 1..Len(s) :
                s[k].begin <= i /\ i < s[k].end => s[k].country = owner(m, i)
    BY <1>3 DEF Charged, Known, Owner
  <2>3. SUFFICES ASSUME NEW n \in 1..(N + 1), known(maneuvers'[n]) # {},
                        NEW i \in maneuvers'[n].begin..(maneuvers'[n].end - 1),
                        NEW k \in 1..(L + Len(s)), parts'[k].begin <= i, i < parts'[k].end
                 PROVE  parts'[k].country = owner(maneuvers'[n], i)
    <3>1. SUFFICES Charges(maneuvers', parts', raw)
      BY <1>1, ChargesIs
    <3> QED BY <1>6, <1>7 DEF Charges
  <2> HIDE DEF known, owner
  <2>4. n \in 1..N \/ n = N + 1
    BY <1>5
  <2>5. CASE n \in 1..N /\ k \in 1..L
    <3>1. parts'[k] = parts[k] /\ maneuvers'[n] = maneuvers[n]
      BY <1>6, <1>7, <2>5
    <3>2. /\ known(maneuvers[n]) # {} /\ i \in maneuvers[n].begin..(maneuvers[n].end - 1)
          /\ parts[k].begin <= i /\ i < parts[k].end
      BY <2>3, <3>1
    <3> QED BY <2>1, <2>5, <3>1, <3>2
  <2>6. CASE n \in 1..N /\ k - L \in 1..Len(s) /\ k = L + (k - L)
    <3>1. /\ parts'[k] = s[k - L] /\ s[k - L].begin \in m.begin..m.end
          /\ maneuvers'[n] = maneuvers[n] /\ maneuvers[n].end <= m.begin
          /\ maneuvers[n].begin \in Nat /\ maneuvers[n].end \in Nat
      BY <1>5, <1>6, <1>7, <1>10, <1>11, <2>6
    <3>2. PICK f \in Nat, l \in Nat : f = maneuvers[n].begin /\ l = maneuvers[n].end
      BY <3>1
    <3>3. PICK g : g = s[k - L].begin
      OBVIOUS
    <3>4. PICK mb \in Nat, me \in Nat : mb = m.begin /\ me = m.end
      BY <1>2
    <3>5. i \in f..(l - 1) /\ g <= i
      BY <2>3, <3>1, <3>2, <3>3
    <3>6. g \in mb..me /\ l <= mb
      BY <3>1, <3>2, <3>3, <3>4
    <3>7. FALSE
      <4>1. i \in Nat /\ i < l
        BY <3>5
      <4>2. g \in Nat /\ mb <= g
        BY <3>6
      <4> QED BY <3>5, <3>6, <4>1, <4>2
    <3> QED BY <3>7
  <2>7. CASE n = N + 1 /\ k \in 1..L
    <3>1. parts'[k] = parts[k] /\ parts[k].end <= m.begin /\ parts[k].end \in Nat /\ maneuvers'[n] = m
      BY <1>5, <1>6, <1>7, <1>11, <2>7
    <3>2. i \in m.begin..(m.end - 1) /\ i < parts[k].end
      BY <2>3, <3>1
    <3> QED BY <1>2, <3>1, <3>2
  <2>8. CASE n = N + 1 /\ k - L \in 1..Len(s) /\ k = L + (k - L)
    <3>1. parts'[k] = s[k - L] /\ maneuvers'[n] = m
      BY <1>6, <1>7, <2>8
    <3> QED BY <2>2, <2>3, <2>8, <3>1
  <2> QED BY <1>8, <2>4, <2>5, <2>6, <2>7, <2>8
<1>16. BlanksToFill'
  <2>1. \A k \in 1..L : parts[k].country = Unknown <=>
            \A i \in parts[k].begin..parts[k].end : raw[i] = Unknown
    BY <1>0, <1>1, <1>5 DEF BlanksToFill, Blank
  <2>2. \A k \in 1..Len(s) : s[k].country = Unknown <=>
            \A i \in s[k].begin..s[k].end : raw[i] = Unknown
    BY <1>3 DEF BlanksUnknown
  <2>3. \A k \in 1..(L + Len(s)) : parts'[k].country = Unknown <=>
            \A i \in parts'[k].begin..parts'[k].end : raw'[i] = Unknown
    <3> TAKE k \in 1..(L + Len(s))
    <3>1. CASE k \in 1..L
      <4>1. parts'[k] = parts[k]
        BY <1>7, <3>1
      <4> QED BY <1>1, <2>1, <3>1, <4>1
    <3>2. CASE k - L \in 1..Len(s) /\ k = L + (k - L)
      <4>1. parts'[k] = s[k - L]
        BY <1>7, <3>2
      <4> QED BY <1>1, <2>2, <3>2, <4>1
    <3> QED BY <1>8, <3>1, <3>2
  <2> QED BY <1>7, <2>3 DEF BlanksToFill, Blank
<1>17. NoCountryLost' /\ InheritsTheNeighbour'
  BY <1>1 DEF NoCountryLost, InheritsTheNeighbour, Filled
<1> QED BY <1>12, <1>13, <1>14, <1>15, <1>16, <1>17, <1>18, <1>19 DEF SplitInv, TilesTheLeg

\* A hop of a maneuver with a known point has an owner.
LEMMA OwnersAreKnown ==
    ASSUME SplitTypeOK, NEW n \in DOMAIN maneuvers, Known(maneuvers[n]) # {},
           NEW i \in maneuvers[n].begin..(maneuvers[n].end - 1)
    PROVE  Owner(maneuvers[n], i) # Unknown
<1> DEFINE m == maneuvers[n]
           known == {j \in m.begin..m.end : raw[j] # Unknown}
           before == {j \in known : j <= i}
<1>1. m.begin \in Nat /\ m.end \in Nat
  BY PointsAreNumbers
<1>2. known # {}
  BY DEF Known
<1>3. Owner(m, i) = IF raw[m.begin] # Unknown /\ raw[m.begin] = raw[m.end] /\ m.length < LongLength
                    THEN raw[m.begin]
                    ELSE IF before # {} THEN raw[Max(before)] ELSE raw[Min(known)]
  BY DEF Owner, Known
<1>4. before # {} => raw[Max(before)] # Unknown
  <2>1. before \in SUBSET (0..m.end)
    BY <1>1
  <2>2. before # {} => Max(before) \in before
    <3> HIDE DEF before
    <3> QED BY <1>1, <2>1, MaxFacts
  <2> QED BY <2>2
<1>5. raw[Min(known)] # Unknown
  <2>1. known \in SUBSET Nat
    BY <1>1
  <2>2. Min(known) \in known
    <3> HIDE DEF known
    <3> QED BY <1>2, <2>1, MinFacts
  <2> QED BY <2>2
<1> HIDE DEF before, known
<1> QED BY <1>3, <1>4, <1>5

LEMMA FillKeeps ==
    ASSUME SplitInv, Fill
    PROVE  SplitInv'
<1> DEFINE L == Len(parts)
           codes == [k \in DOMAIN parts |-> parts[k].country]
<1>0. SplitTypeOK /\ UpToHere /\ TilesTheLeg /\ ChargesTheOwner /\ BlanksToFill
  BY DEF SplitInv
<1>1. /\ state = "fill" /\ state' = "filled" /\ raw' = raw /\ maneuvers' = maneuvers
      /\ parts' = Recolour(FillGaps(codes))
  BY DEF Fill
<1>2. /\ DOMAIN parts = 1..L /\ L \in Nat /\ \A k \in 1..L : parts[k] \in PartType
      /\ \A k \in 1..L : parts[k].begin \in Nat /\ parts[k].end \in Nat
      /\ DOMAIN maneuvers = 1..Len(maneuvers)
  BY <1>0, PointsAreNumbers
<1>3. codes \in [1..L -> CountryCode] /\ DOMAIN codes = 1..L /\ \A k \in 1..L : codes[k] = parts[k].country
  BY <1>2 DEF PartType
<1> HIDE DEF codes
<1>4. FillGaps(codes) = [k \in 1..L |-> Filling(codes, k)]
  BY <1>2, <1>3, FillGapsFacts
<1>5. parts' = [k \in 1..L |-> [parts[k] EXCEPT !.country = Filling(codes, k)]]
  BY <1>1, <1>2, <1>4 DEF Recolour
<1>6. \A k \in 1..L : Filling(codes, k) \in CountryCode
  BY <1>2, <1>3, FillingIsACode
<1>7. \A k \in 1..L : /\ parts'[k] \in PartType /\ parts'[k].country = Filling(codes, k)
                      /\ parts'[k].begin = parts[k].begin /\ parts'[k].end = parts[k].end
                      /\ parts'[k].length = parts[k].length /\ parts'[k].time = parts[k].time
  <2> TAKE k \in 1..L
  <2>1. parts[k] \in PartType /\ parts'[k] = [parts[k] EXCEPT !.country = Filling(codes, k)]
    BY <1>2, <1>5
  <2> QED BY <1>6, <2>1 DEF PartType
<1>8. parts' \in Seq(PartType) /\ Len(parts') = L /\ DOMAIN parts' = 1..L
  <2>1. parts' \in [1..L -> PartType]
    BY <1>5, <1>7
  <2> QED BY <1>2, <2>1, ListOfParts
<1>9. Here' = Here
  BY <1>1 DEF Here
<1>10. \A k \in 1..L : /\ codes[k] # Unknown => Filling(codes, k) = codes[k]
                       /\ Filling(codes, k) # Unknown <=> KnownIn(codes) # {}
  BY <1>2, <1>3, FillingKnows
<1>11. parts' = <<>> <=> parts = <<>>
  BY <1>0, <1>8 DEF SplitTypeOK
<1>12. SplitTypeOK'
  BY <1>0, <1>1, <1>8 DEF SplitTypeOK, PlacesAgree
<1>13. UpToHere'
  BY <1>0, <1>1, <1>2, <1>7, <1>8, <1>9, <1>11 DEF UpToHere
<1>14. Tiled'
  <2>1. CASE parts = <<>>
    BY <1>11, <2>1 DEF Tiled
  <2>2. CASE parts # <<>>
    <3>1. /\ parts[1].begin = 0 /\ parts[L].end = Here
          /\ \A k \in 1..L : parts[k].begin <= parts[k].end
          /\ \A k \in 1..(L - 1) : parts[k].end = parts[k + 1].begin
      BY <1>0, <1>2, <2>2 DEF TilesTheLeg, Tiled, Last
    <3>2. 1 \in 1..L /\ L \in 1..L
      BY <1>0, <1>2, <2>2 DEF SplitTypeOK
    <3>3. parts'[1].begin = 0 /\ Last(parts').end = Here'
      BY <1>7, <1>8, <1>9, <3>1, <3>2 DEF Last
    <3>4. \A k \in 1..L : parts'[k].begin <= parts'[k].end
      BY <1>7, <3>1
    <3>5. \A k \in 1..(L - 1) : parts'[k].end = parts'[k + 1].begin
      <4> TAKE k \in 1..(L - 1)
      <4>1. k \in 1..L /\ k + 1 \in 1..L
        BY <1>2
      <4> QED BY <1>7, <3>1, <4>1
    <3> QED BY <1>8, <3>3, <3>4, <3>5 DEF Tiled
  <2> QED BY <2>1, <2>2
<1>19. NothingAddedOrLost'
  <2>1. [k \in DOMAIN parts' |-> parts'[k].length] = [k \in DOMAIN parts |-> parts[k].length]
    BY <1>2, <1>7, <1>8
  <2>2. [k \in DOMAIN parts' |-> parts'[k].time] = [k \in DOMAIN parts |-> parts[k].time]
    BY <1>2, <1>7, <1>8
  <2>3. DOMAIN parts' = DOMAIN parts
    BY <1>2, <1>8
  <2>4. TotalLength(parts') = TotalLength(parts) /\ TotalTime(parts') = TotalTime(parts)
    BY <2>1, <2>2, <2>3 DEF TotalLength, TotalTime
  <2>5. TotalLength(parts) = TotalLength(maneuvers) /\ TotalTime(parts) = TotalTime(maneuvers)
    BY <1>0, TotalsIs DEF TilesTheLeg
  <2> QED BY <1>1, <2>4, <2>5, TotalsIs
<1>20. InProportion'
  <2>1. Proportions(maneuvers, parts)
    BY <1>0, ProportionsIs DEF TilesTheLeg
  <2>2. Proportions(maneuvers, parts')
    BY <1>2, <1>7, <1>8, <2>1 DEF Proportions, Fair
  <2> QED BY <1>1, <2>2, ProportionsIs
<1>15. ChargesTheOwner'
  <2>1. \A n \in DOMAIN maneuvers : Known(maneuvers[n]) # {} =>
            \A i \in maneuvers[n].begin..(maneuvers[n].end - 1) : \A k \in 1..L :
                parts[k].begin <= i /\ i < parts[k].end =>
                    parts[k].country = Owner(maneuvers[n], i)
    BY <1>0, <1>2 DEF ChargesTheOwner
  <2>2. \A n \in DOMAIN maneuvers : Known(maneuvers[n]) # {} =>
            \A i \in maneuvers[n].begin..(maneuvers[n].end - 1) : \A k \in 1..L :
                parts'[k].begin <= i /\ i < parts'[k].end =>
                    parts'[k].country = Owner(maneuvers[n], i)
    <3> SUFFICES ASSUME NEW n \in DOMAIN maneuvers, Known(maneuvers[n]) # {},
                        NEW i \in maneuvers[n].begin..(maneuvers[n].end - 1), NEW k \in 1..L,
                        parts[k].begin <= i, i < parts[k].end
                 PROVE  parts'[k].country = Owner(maneuvers[n], i)
      BY <1>7
    <3>1. parts[k].country = Owner(maneuvers[n], i)
      BY <2>1
    <3>2. Owner(maneuvers[n], i) # Unknown
      BY <1>0, OwnersAreKnown
    <3> QED BY <1>3, <1>7, <1>10, <3>1, <3>2
  <2>3. Charges(maneuvers, parts', raw)
    BY <1>8, <2>2 DEF Charges, Known, Owner
  <2> QED BY <1>1, <2>3, ChargesIs
<1>16. BlanksToFill'
  BY <1>1 DEF BlanksToFill
<1>17. NoCountryLost'
  <2>1. SUFFICES ASSUME NEW k \in 1..L, parts'[k].country # Unknown, NEW h \in 1..L
                 PROVE  parts'[h].country # Unknown
    BY <1>8 DEF NoCountryLost
  <2> QED BY <1>7, <1>10, <2>1
<1>18. InheritsTheNeighbour'
  <2> DEFINE blank(k) == \A i \in parts[k].begin..parts[k].end : raw[i] = Unknown
             known == {h \in 1..L : ~blank(h)}
             before(k) == {h \in known : h < k}
  <2>1. \A k \in 1..L : codes[k] = Unknown <=> blank(k)
    BY <1>0, <1>1, <1>2, <1>3 DEF BlanksToFill, Blank
  <2>2. \A k \in 1..L : (\A i \in parts'[k].begin..parts'[k].end : raw'[i] = Unknown) <=> blank(k)
    BY <1>1, <1>7
  <2>3. {h \in 1..L : ~(\A i \in parts'[h].begin..parts'[h].end : raw'[i] = Unknown)} = known
    BY <2>2
  <2>4. SUFFICES ASSUME NEW k \in 1..L, blank(k), known # {}
                 PROVE  parts'[k].country =
                            parts'[IF before(k) # {} THEN Max(before(k)) ELSE Min(known)].country
    BY <1>8, <2>2, <2>3 DEF InheritsTheNeighbour, Blank
  <2> HIDE DEF blank
  <2>5. known = KnownIn(codes)
    BY <1>3, <2>1 DEF KnownIn
  <2>6. before(k) = KnownUpTo(codes, k)
    <3>1. \A h \in known : h < k <=> h <= k
      <4> TAKE h \in known
      <4>1. h # k /\ h \in Nat /\ k \in Nat
        BY <2>4
      <4> QED BY <4>1
    <3> QED BY <2>5, <3>1 DEF KnownUpTo
  <2> HIDE DEF known, before
  <2>7. CASE before(k) # {}
    <3>1. KnownUpTo(codes, k) \in SUBSET (0..L) /\ KnownUpTo(codes, k) # {}
      BY <1>2, <1>3, <2>6, <2>7 DEF KnownUpTo, KnownIn
    <3>2. Max(KnownUpTo(codes, k)) \in KnownUpTo(codes, k)
      BY <1>2, <3>1, MaxFacts
    <3>3. Max(before(k)) \in 1..L /\ codes[Max(before(k))] # Unknown
      BY <1>3, <2>6, <3>2 DEF KnownUpTo, KnownIn
    <3>4. parts'[Max(before(k))].country = codes[Max(before(k))]
      BY <1>7, <1>10, <3>3
    <3> QED BY <1>7, <2>6, <2>7, <3>4 DEF Filling, Carried
  <2>8. CASE before(k) = {}
    <3>1. KnownIn(codes) \in SUBSET Nat /\ KnownIn(codes) # {}
      BY <1>3, <2>4, <2>5 DEF KnownIn
    <3>2. Min(KnownIn(codes)) \in KnownIn(codes)
      BY <3>1, MinFacts
    <3>3. Min(known) \in 1..L /\ codes[Min(known)] # Unknown
      BY <1>3, <2>5, <3>2 DEF KnownIn
    <3>4. parts'[Min(known)].country = codes[Min(known)]
      BY <1>7, <1>10, <3>3
    <3> QED BY <1>7, <2>5, <2>6, <2>8, <3>1, <3>4 DEF Filling
  <2> QED BY <2>7, <2>8
<1> QED BY <1>12, <1>13, <1>14, <1>15, <1>16, <1>17, <1>18, <1>19, <1>20
        DEF SplitInv, TilesTheLeg

\* InheritsTheNeighbour of these parts and points.
Inherits(ps, r) ==
    \A k \in DOMAIN ps :
        LET blank(j) == \A i \in ps[j].begin..ps[j].end : r[i] = Unknown
            known    == {h \in DOMAIN ps : ~blank(h)}
            before   == {h \in known : h < k}
        IN  blank(k) /\ known # {} =>
                ps[k].country = ps[IF before # {} THEN Max(before) ELSE Min(known)].country

LEMMA InheritsIs ==
    /\ InheritsTheNeighbour <=> (Filled => Inherits(parts, raw))
    /\ InheritsTheNeighbour' <=> (Filled' => Inherits(parts', raw'))
BY DEF InheritsTheNeighbour, Inherits, Blank

LEMMA StillKeeps ==
    ASSUME SplitInv, UNCHANGED <<raw, maneuvers, parts>>, state' = state
                                 \/ (state = "split" /\ state' = "fill")
    PROVE  SplitInv'
<1>1. SplitTypeOK' /\ UpToHere'
  BY DEF SplitInv, SplitTypeOK, PlacesAgree, UpToHere, Here
<1>6. TilesTheLeg'
  <2>1. Tiled'
    BY DEF SplitInv, TilesTheLeg, Tiled, Here
  <2>2. NothingAddedOrLost' /\ InProportion'
    BY TotalsIs, ProportionsIs DEF SplitInv, TilesTheLeg
  <2> QED BY <2>1, <2>2 DEF TilesTheLeg
<1>2. ChargesTheOwner'
  BY ChargesIs DEF SplitInv
<1>3. BlanksToFill'
  BY DEF SplitInv, BlanksToFill, Blank
<1>4. NoCountryLost'
  BY DEF SplitInv, NoCountryLost, Filled
<1>5. InheritsTheNeighbour'
  <2>1. CASE state' = state
    <3>1. raw' = raw /\ parts' = parts /\ Filled' = Filled
      BY <2>1 DEF Filled
    <3>2. InheritsTheNeighbour
      BY DEF SplitInv
    <3> QED BY <3>1, <3>2, InheritsIs
  <2>2. CASE state' = "fill"
    BY <2>2 DEF InheritsTheNeighbour, Filled
  <2> QED BY <2>1, <2>2
<1> QED BY <1>1, <1>2, <1>3, <1>4, <1>5, <1>6 DEF SplitInv

LEMMA NextSplit == SplitInv /\ [Next]_vars => SplitInv'
<1> SUFFICES ASSUME SplitInv, [Next]_vars PROVE SplitInv'
  OBVIOUS
<1>1. ASSUME NEW m \in Maneuver, Split(m) PROVE SplitInv'
  BY <1>1, SplitKeeps
<1>2. CASE SplitDone
  BY <1>2, StillKeeps DEF SplitDone
<1>3. CASE Fill
  BY <1>3, FillKeeps
<1>4. CASE UNCHANGED vars
  BY <1>4, StillKeeps DEF vars
<1> QED BY <1>1, <1>2, <1>3, <1>4 DEF Next

\* Whatever the leg and however the engine cut it, all of this holds together.
THEOREM SplitCorrect == Spec => []SplitInv
BY InitSplit, NextSplit, PTL DEF Spec

\* splitManeuverByCountry: the parts tile the leg.  Their lengths and times add
\* up to what the engine gave its maneuvers, and each part has the share of its
\* maneuver's that it has of the shape.
THEOREM ThePartsTileTheLeg == Spec => []TilesTheLeg
<1>1. SplitInv => TilesTheLeg
  BY DEF SplitInv
<1> QED BY <1>1, SplitCorrect, PTL

\* splitManeuverByCountry and fillManeuverCountries: every hop of a maneuver
\* with a known point is charged to the country the points say.
THEOREM HopsAreChargedToTheOwner == Spec => []ChargesTheOwner
<1>1. SplitInv => ChargesTheOwner
  BY DEF SplitInv
<1> QED BY <1>1, SplitCorrect, PTL

\* fillManeuverCountries: where one stretch has a country, all have.
THEOREM AllStretchesGetACountry == Spec => []NoCountryLost
<1>1. SplitInv => NoCountryLost
  BY DEF SplitInv
<1> QED BY <1>1, SplitCorrect, PTL

\* fillManeuverCountries: a stretch that had no country has that of the one
\* before it, or of the first that had one.
THEOREM BlanksInherit == Spec => []InheritsTheNeighbour
<1>1. SplitInv => InheritsTheNeighbour
  BY DEF SplitInv
<1> QED BY <1>1, SplitCorrect, PTL

===============================================================================
