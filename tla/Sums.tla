--------------------------------- MODULE Sums ---------------------------------
(***************************************************************************)
(* Sums of the values of a function over a finite set of its arguments:    *)
(* what SumFunctionOnSet of the community modules yields.  Its order of    *)
(* summation is a CHOOSE, so that even the sum of a set with one more      *)
(* element has to be shown not to depend on it.                            *)
(***************************************************************************)
EXTENDS Integers, Functions, FiniteSetTheorems, TLAPS

Pick(s) == CHOOSE x \in s : TRUE

\* The recursion that SumFunctionOnSet solves on the subsets of S.
Step(f, g, s) == IF s = {} THEN 0 ELSE f[Pick(s)] + g[s \ {Pick(s)}]

Solves(f, g, D) == g = [s \in D |-> Step(f, g, s)]

Small(S, n) == {s \in SUBSET S : Cardinality(s) <= n}

\* Every set has a smallest number: induction over the numbers, as a fact
\* about sets.
LEMMA SmallestNumber ==
    ASSUME NEW T \in SUBSET Nat, T # {}
    PROVE  \E n \in T : \A m \in T : n <= m
<1>1. PICK n \in T : \A m \in T : <<m, n>> \notin OpToRel(<, Nat)
  BY NatLessThanWellFounded, WFMin
<1>2. \A m \in T : ~(m < n)
  BY <1>1 DEF OpToRel
<1> QED BY <1>2

-----------------------------------------------------------------------------
(* The recursion has a solution, so what CHOOSE yields is one. *)

Solution(f, S) == CHOOSE g : Solves(f, g, SUBSET S)

LEMMA PickIsAMember ==
    ASSUME NEW s, s # {}
    PROVE  Pick(s) \in s
BY DEF Pick

LEMMA OneLess ==
    ASSUME NEW S, IsFiniteSet(S), NEW s \in SUBSET S, NEW x \in s
    PROVE  /\ Cardinality(s) \in Nat /\ Cardinality(s \ {x}) \in Nat
           /\ Cardinality(s \ {x}) = Cardinality(s) - 1
BY FS_Subset, FS_RemoveElement, FS_CardinalityType

LEMMA SolvedForSmall ==
    ASSUME NEW f, NEW S, IsFiniteSet(S), NEW n \in Nat
    PROVE  \E g : Solves(f, g, Small(S, n))
<1> DEFINE Unsolved == {k \in Nat : ~ \E g : Solves(f, g, Small(S, k))}
<1>1. SUFFICES ASSUME Unsolved # {} PROVE FALSE
  OBVIOUS
<1>2. PICK k \in Unsolved : \A m \in Unsolved : k <= m
  BY <1>1, SmallestNumber
<1>3. k # 0
  <2> DEFINE g == [s \in Small(S, 0) |-> 0]
  <2>1. \A s \in Small(S, 0) : s = {}
    BY FS_Subset, FS_EmptySet, FS_CardinalityType DEF Small
  <2>2. Solves(f, g, Small(S, 0))
    BY <2>1 DEF Solves, Step
  <2> QED BY <2>2
<1>4. k - 1 \in Nat /\ k - 1 \notin Unsolved
  BY <1>2, <1>3
<1>5. PICK h : Solves(f, h, Small(S, k - 1))
  BY <1>4
<1> DEFINE g == [s \in Small(S, k) |-> Step(f, h, s)]
<1>6. \A s \in Small(S, k - 1) : s \in Small(S, k) /\ g[s] = h[s]
  <2> TAKE s \in Small(S, k - 1)
  <2>1. s \in Small(S, k)
    BY FS_Subset, FS_CardinalityType DEF Small
  <2>2. h[s] = Step(f, h, s)
    BY <1>5 DEF Solves
  <2> QED BY <2>1, <2>2
<1>7. \A s \in Small(S, k) : s # {} => s \ {Pick(s)} \in Small(S, k - 1)
  BY PickIsAMember, OneLess DEF Small
<1>8. \A s \in Small(S, k) : Step(f, h, s) = Step(f, g, s)
  BY <1>6, <1>7 DEF Step
<1>9. Solves(f, g, Small(S, k))
  BY <1>8 DEF Solves
<1> QED BY <1>9

LEMMA SolutionSolves ==
    ASSUME NEW f, NEW S, IsFiniteSet(S), NEW s \in SUBSET S
    PROVE  Solution(f, S)[s] = Step(f, Solution(f, S), s)
<1>1. SUBSET S = Small(S, Cardinality(S)) /\ Cardinality(S) \in Nat
  BY FS_Subset, FS_CardinalityType DEF Small
<1>2. \E g : Solves(f, g, SUBSET S)
  BY <1>1, SolvedForSmall
<1>3. Solves(f, Solution(f, S), SUBSET S)
  BY <1>2 DEF Solution
<1> QED BY <1>3 DEF Solves

LEMMA SumIsSolution ==
    ASSUME NEW f, NEW S
    PROVE  SumFunctionOnSet(f, S) = Solution(f, S)[S]
BY DEF SumFunctionOnSet, FoldFunctionOnSet, MapThenFoldSet, Solution, Solves, Step, Pick

-----------------------------------------------------------------------------
(* What holds of the solution, by induction over the size of a subset. *)

\* Induction: a set of finite sets has one of the fewest elements.
LEMMA FewestElements ==
    ASSUME NEW S, IsFiniteSet(S), NEW B \in SUBSET (SUBSET S), B # {}
    PROVE  \E u \in B : \A v \in B : Cardinality(u) <= Cardinality(v)
<1> DEFINE Sizes == {n \in Nat : \E u \in B : Cardinality(u) = n}
<1>1. \A u \in B : Cardinality(u) \in Sizes
  BY FS_Subset, FS_CardinalityType
<1>2. PICK n \in Sizes : \A m \in Sizes : n <= m
  BY <1>1, SmallestNumber
<1> QED BY <1>1, <1>2

LEMMA SolutionAgrees ==
    ASSUME NEW f, NEW S, IsFiniteSet(S), NEW g, NEW R, IsFiniteSet(R),
           NEW T, T \subseteq S, T \subseteq R, \A x \in T : f[x] = g[x]
    PROVE  Solution(f, S)[T] = Solution(g, R)[T]
<1> DEFINE Differ == {u \in SUBSET T : Solution(f, S)[u] # Solution(g, R)[u]}
<1>1. SUFFICES ASSUME Differ # {} PROVE FALSE
  OBVIOUS
<1>2. IsFiniteSet(T) /\ Differ \in SUBSET (SUBSET T)
  BY FS_Subset
<1>3. PICK u \in Differ : \A v \in Differ : Cardinality(u) <= Cardinality(v)
  BY <1>1, <1>2, FewestElements
<1>4. /\ Solution(f, S)[u] = Step(f, Solution(f, S), u)
      /\ Solution(g, R)[u] = Step(g, Solution(g, R), u)
  BY SolutionSolves
<1>5. u # {}
  BY <1>4 DEF Step
<1>6. Pick(u) \in u /\ u \ {Pick(u)} \notin Differ
  BY <1>2, <1>3, <1>5, PickIsAMember, OneLess
<1>7. /\ f[Pick(u)] = g[Pick(u)]
      /\ Solution(f, S)[u \ {Pick(u)}] = Solution(g, R)[u \ {Pick(u)}]
  BY <1>6
<1> QED BY <1>4, <1>5, <1>7 DEF Step

LEMMA SolutionType ==
    ASSUME NEW f, NEW S, IsFiniteSet(S), NEW V \in {Nat, Int}, NEW T \in SUBSET S,
           \A x \in T : f[x] \in V
    PROVE  Solution(f, S)[T] \in V
<1> DEFINE Untyped == {u \in SUBSET T : Solution(f, S)[u] \notin V}
<1>1. SUFFICES ASSUME Untyped # {} PROVE FALSE
  OBVIOUS
<1>2. IsFiniteSet(T) /\ Untyped \in SUBSET (SUBSET T)
  BY FS_Subset
<1>3. PICK u \in Untyped : \A v \in Untyped : Cardinality(u) <= Cardinality(v)
  BY <1>1, <1>2, FewestElements
<1>4. Solution(f, S)[u] = Step(f, Solution(f, S), u)
  BY SolutionSolves
<1>5. u # {}
  BY <1>4 DEF Step
<1>6. Pick(u) \in u /\ u \ {Pick(u)} \notin Untyped
  BY <1>2, <1>3, <1>5, PickIsAMember, OneLess
<1>7. f[Pick(u)] \in V /\ Solution(f, S)[u \ {Pick(u)}] \in V
  BY <1>6
<1>8. f[Pick(u)] + Solution(f, S)[u \ {Pick(u)}] \in V
  BY <1>7
<1> QED BY <1>4, <1>5, <1>8 DEF Step

\* The element picked first is immaterial.
LEMMA SolutionRemoves ==
    ASSUME NEW f, NEW S, IsFiniteSet(S), \A x \in S : f[x] \in Int, NEW T \in SUBSET S,
           NEW x \in T
    PROVE  Solution(f, S)[T] = f[x] + Solution(f, S)[T \ {x}]
<1> DEFINE Sum(s) == Solution(f, S)[s]
           Wrong == {u \in SUBSET S : \E y \in u : Sum(u) # f[y] + Sum(u \ {y})}
<1>1. SUFFICES ASSUME Wrong # {} PROVE FALSE
  OBVIOUS
<1>2. PICK u \in Wrong : \A v \in Wrong : Cardinality(u) <= Cardinality(v)
  BY <1>1, FewestElements
<1>3. PICK y \in u : Sum(u) # f[y] + Sum(u \ {y})
  OBVIOUS
<1> DEFINE z == Pick(u)
<1>4. z \in u /\ Sum(u) = f[z] + Sum(u \ {z})
  <2>1. u \in SUBSET S /\ u # {}
    OBVIOUS
  <2>2. Solution(f, S)[u] = Step(f, Solution(f, S), u)
    BY <2>1, SolutionSolves
  <2>3. Step(f, Solution(f, S), u) = f[Pick(u)] + Solution(f, S)[u \ {Pick(u)}]
    BY <2>1 DEF Step
  <2> QED BY <2>1, <2>2, <2>3, PickIsAMember
<1>5. z # y
  BY <1>3, <1>4
<1>6. u \ {y} \notin Wrong /\ u \ {z} \notin Wrong
  <2> SUFFICES ASSUME NEW x1 \in u PROVE u \ {x1} \notin Wrong
    BY <1>4
  <2>1. u \in SUBSET S
    OBVIOUS
  <2>2. /\ Cardinality(u) \in Nat /\ Cardinality(u \ {x1}) \in Nat
        /\ Cardinality(u \ {x1}) = Cardinality(u) - 1
    BY <2>1, OneLess
  <2>3. ~(Cardinality(u) <= Cardinality(u \ {x1}))
    BY <2>2
  <2> HIDE DEF Wrong
  <2> QED BY <1>2, <2>3
<1>7. Sum(u \ {y}) = f[z] + Sum((u \ {y}) \ {z})
  BY <1>4, <1>5, <1>6
<1>8. Sum(u \ {z}) = f[y] + Sum((u \ {z}) \ {y})
  BY <1>5, <1>6
<1>9. (u \ {y}) \ {z} = (u \ {z}) \ {y}
  OBVIOUS
<1>10. f[y] \in Int /\ f[z] \in Int /\ Sum((u \ {z}) \ {y}) \in Int
  BY <1>4, SolutionType
<1> DEFINE rest == Sum((u \ {z}) \ {y})
<1>11. Sum(u) = f[z] + (f[y] + rest) /\ f[y] + Sum(u \ {y}) = f[y] + (f[z] + rest)
  BY <1>4, <1>7, <1>8, <1>9
<1>12. f[z] + (f[y] + rest) = f[y] + (f[z] + rest)
  BY <1>10
<1> QED BY <1>3, <1>11, <1>12

-----------------------------------------------------------------------------
(* The facts to cite. *)

\* A sum over nothing is 0.
LEMMA SumEmpty ==
    ASSUME NEW f
    PROVE  SumFunctionOnSet(f, {}) = 0
BY SumIsSolution, SolutionSolves, FS_EmptySet DEF Step

\* Only the values at the elements of the set matter.
LEMMA SumAgrees ==
    ASSUME NEW f, NEW g, NEW S, IsFiniteSet(S), \A x \in S : f[x] = g[x]
    PROVE  SumFunctionOnSet(f, S) = SumFunctionOnSet(g, S)
BY SumIsSolution, SolutionAgrees

\* A sum of numbers is a number.
LEMMA SumType ==
    ASSUME NEW f, NEW S, IsFiniteSet(S), NEW V \in {Nat, Int}, \A x \in S : f[x] \in V
    PROVE  SumFunctionOnSet(f, S) \in V
BY SumIsSolution, SolutionType

\* One more element adds its value.
LEMMA SumAdds ==
    ASSUME NEW f, NEW S, IsFiniteSet(S), NEW x, x \notin S,
           \A y \in S \cup {x} : f[y] \in Int
    PROVE  SumFunctionOnSet(f, S \cup {x}) = SumFunctionOnSet(f, S) + f[x]
<1> DEFINE R == S \cup {x}
<1>1. IsFiniteSet(R) /\ R \ {x} = S
  BY FS_AddElement
<1>2. Solution(f, R)[R] = f[x] + Solution(f, R)[S]
  BY <1>1, SolutionRemoves
<1>3. Solution(f, R)[S] = Solution(f, S)[S] /\ Solution(f, S)[S] \in Int
  BY <1>1, SolutionAgrees, SolutionType
<1> QED BY <1>2, <1>3, SumIsSolution

\* One value is at most the sum of them all.
LEMMA SumAtLeast ==
    ASSUME NEW f, NEW S, IsFiniteSet(S), \A y \in S : f[y] \in Nat, NEW x \in S
    PROVE  f[x] <= SumFunctionOnSet(f, S)
<1> DEFINE R == S \ {x}
<1>1. IsFiniteSet(R) /\ R \cup {x} = S /\ x \notin R
  BY FS_RemoveElement
<1>2. SumFunctionOnSet(f, S) = SumFunctionOnSet(f, R) + f[x]
  BY <1>1, SumAdds
<1>3. SumFunctionOnSet(f, R) \in Nat /\ f[x] \in Nat
  BY <1>1, SumType
<1> QED BY <1>2, <1>3

\* Induction over finite sets, as a fact about sets: what does not hold of all
\* subsets fails somewhere for the first time, with an element added.
LEMMA FirstFailure ==
    ASSUME NEW S, IsFiniteSet(S), NEW B \in SUBSET (SUBSET S), {} \notin B, B # {}
    PROVE  \E u \in B : \E x \in u : IsFiniteSet(u \ {x}) /\ u \ {x} \notin B
<1>1. PICK u \in B : \A v \in B : Cardinality(u) <= Cardinality(v)
  BY FewestElements
<1>2. PICK x \in u : TRUE
  BY <1>1
<1>3. IsFiniteSet(u \ {x}) /\ u \ {x} \in SUBSET S
  BY FS_Subset
<1>4. Cardinality(u) \in Nat /\ Cardinality(u \ {x}) = Cardinality(u) - 1
  BY OneLess
<1>5. u \ {x} \notin B
  BY <1>1, <1>4
<1> QED BY <1>3, <1>5

\* The sums over two sets without a common element add up.
LEMMA SumUnion ==
    ASSUME NEW f, NEW S, IsFiniteSet(S), NEW R, IsFiniteSet(R), S \cap R = {},
           \A x \in S \cup R : f[x] \in Int
    PROVE  SumFunctionOnSet(f, S \cup R) = SumFunctionOnSet(f, S) + SumFunctionOnSet(f, R)
<1> DEFINE Sum(u) == SumFunctionOnSet(f, u)
           Wrong == {u \in SUBSET R : Sum(S \cup u) # Sum(S) + Sum(u)}
<1>1. SUFFICES ASSUME Wrong # {} PROVE FALSE
  OBVIOUS
<1>2. {} \notin Wrong
  BY SumEmpty, SumType
<1>3. PICK u \in Wrong : \E x \in u : IsFiniteSet(u \ {x}) /\ u \ {x} \notin Wrong
  BY <1>1, <1>2, FirstFailure
<1>4. PICK x \in u : IsFiniteSet(u \ {x}) /\ u \ {x} \notin Wrong
  BY <1>3
<1> DEFINE v == u \ {x}
<1>5. Sum(S \cup v) = Sum(S) + Sum(v)
  BY <1>4
<1>6. u = v \cup {x} /\ S \cup u = (S \cup v) \cup {x} /\ x \notin v /\ x \notin S \cup v
  OBVIOUS
<1>7. IsFiniteSet(S \cup v)
  BY <1>4, FS_Union
<1>8. Sum(u) = Sum(v) + f[x]
  BY <1>4, <1>6, SumAdds
<1>9. Sum(S \cup u) = Sum(S \cup v) + f[x]
  BY <1>6, <1>7, SumAdds
<1>10. Sum(S) \in Int /\ Sum(v) \in Int /\ f[x] \in Int
  BY <1>4, SumType
<1> HIDE DEF Sum, v
<1>11. Sum(S \cup u) = Sum(S) + Sum(u)
  BY <1>5, <1>8, <1>9, <1>10
<1> QED BY <1>11

\* A common factor.
LEMMA SumScales ==
    ASSUME NEW f, NEW g, NEW S, IsFiniteSet(S), NEW c \in Int,
           \A x \in S : f[x] \in Int /\ g[x] = c * f[x]
    PROVE  SumFunctionOnSet(g, S) = c * SumFunctionOnSet(f, S)
<1> DEFINE F(u) == SumFunctionOnSet(f, u)
           G(u) == SumFunctionOnSet(g, u)
           Wrong == {u \in SUBSET S : G(u) # c * F(u)}
<1>1. SUFFICES ASSUME Wrong # {} PROVE FALSE
  OBVIOUS
<1>2. {} \notin Wrong
  BY SumEmpty
<1>3. PICK u \in Wrong : \E x \in u : IsFiniteSet(u \ {x}) /\ u \ {x} \notin Wrong
  BY <1>1, <1>2, FirstFailure
<1>4. PICK x \in u : IsFiniteSet(u \ {x}) /\ u \ {x} \notin Wrong
  BY <1>3
<1> DEFINE v == u \ {x}
<1>5. G(v) = c * F(v)
  BY <1>4
<1>6. u = v \cup {x} /\ x \notin v /\ IsFiniteSet(v)
  BY <1>4
<1>7. \A y \in v \cup {x} : f[y] \in Int /\ g[y] \in Int
  BY <1>6
<1> HIDE DEF v
<1>8. F(u) = F(v) + f[x] /\ G(u) = G(v) + g[x]
  BY <1>6, <1>7, SumAdds
<1>9. F(v) \in Int /\ f[x] \in Int /\ g[x] = c * f[x]
  BY <1>6, <1>7, SumType
<1>10. \A a, b \in Int : c * (a + b) = c * a + c * b
  OBVIOUS
<1> HIDE DEF F, G
<1>11. G(u) = c * F(u)
  BY <1>5, <1>8, <1>9, <1>10
<1> QED BY <1>11

\* A function that has one more argument, such as a sequence with one more
\* element, and a set that has it as well.
LEMMA SumExtends ==
    ASSUME NEW f, NEW g, NEW S, IsFiniteSet(S), NEW x, x \notin S, g[x] \in Int,
           \A y \in S : f[y] \in Int /\ g[y] = f[y]
    PROVE  SumFunctionOnSet(g, S \cup {x}) = SumFunctionOnSet(f, S) + g[x]
<1>1. \A y \in S \cup {x} : g[y] \in Int
  OBVIOUS
<1>2. SumFunctionOnSet(g, S \cup {x}) = SumFunctionOnSet(g, S) + g[x]
  BY <1>1, SumAdds
<1>3. SumFunctionOnSet(g, S) = SumFunctionOnSet(f, S)
  BY SumAgrees
<1> QED BY <1>2, <1>3

\* Of one value.
LEMMA SumOne ==
    ASSUME NEW f, f[1] \in Int
    PROVE  SumFunctionOnSet(f, 1..1) = f[1]
<1>1. 1..1 = {} \cup {1} /\ IsFiniteSet({}) /\ 1 \notin {}
  BY FS_EmptySet
<1>2. SumFunctionOnSet(f, {} \cup {1}) = SumFunctionOnSet(f, {}) + f[1]
  BY <1>1, SumAdds
<1> QED BY <1>1, <1>2, SumEmpty

\* Of one more value at the end of a list.
LEMMA SumUpTo ==
    ASSUME NEW f, NEW n \in Nat, n > 0, \A k \in 1..n : f[k] \in Int
    PROVE  /\ SumFunctionOnSet(f, 1..n) = SumFunctionOnSet(f, 1..(n - 1)) + f[n]
           /\ SumFunctionOnSet(f, 1..(n - 1)) \in Int
<1>1. 1..n = 1..(n - 1) \cup {n} /\ n \notin 1..(n - 1) /\ IsFiniteSet(1..(n - 1))
  BY FS_Interval
<1>2. SumFunctionOnSet(f, 1..(n - 1) \cup {n}) = SumFunctionOnSet(f, 1..(n - 1)) + f[n]
  BY <1>1, SumAdds
<1> QED BY <1>1, <1>2, SumType

\* Differences of successive values: only the ends remain.
Differences(f, g, n) ==
    /\ \A k \in 1..(n + 1) : g[k] \in Int
    /\ \A k \in 1..n : f[k] = g[k + 1] - g[k]

LEMMA SumOfDifferences ==
    ASSUME NEW n \in Nat, NEW f, NEW g, Differences(f, g, n)
    PROVE  SumFunctionOnSet(f, 1..n) = g[n + 1] - g[1]
<1>0. /\ \A k \in 1..(n + 1) : g[k] \in Int
      /\ \A k \in 1..n : f[k] = g[k + 1] - g[k]
  BY DEF Differences
<1> DEFINE Sum(j) == SumFunctionOnSet(f, 1..j)
           Wrong == {j \in 0..n : Sum(j) # g[j + 1] - g[1]}
<1>1. SUFFICES ASSUME Wrong # {} PROVE FALSE
  OBVIOUS
<1>2. PICK j \in Wrong : \A i \in Wrong : j <= i
  <2>1. Wrong \in SUBSET Nat
    OBVIOUS
  <2> HIDE DEF Wrong
  <2> QED BY <1>1, <2>1, SmallestNumber
<1>3. j # 0
  <2>1. 1..0 = {}
    OBVIOUS
  <2>2. Sum(0) = 0
    BY <2>1, SumEmpty
  <2>3. g[0 + 1] - g[1] = 0
    BY <1>0
  <2> HIDE DEF Sum
  <2> QED BY <2>2, <2>3
<1>4. j - 1 \in 0..n /\ j - 1 \notin Wrong /\ j \in 1..n
  BY <1>2, <1>3
<1>5. Sum(j - 1) = g[j] - g[1]
  BY <1>4
<1>6. \A k \in 1..j : f[k] \in Int
  <2> TAKE k \in 1..j
  <2>1. k \in 1..n /\ k \in 1..(n + 1) /\ k + 1 \in 1..(n + 1)
    BY <1>4
  <2>2. g[k] \in Int /\ g[k + 1] \in Int /\ f[k] = g[k + 1] - g[k]
    BY <1>0, <2>1
  <2> QED BY <2>2
<1>7. Sum(j) = Sum(j - 1) + f[j]
  BY <1>4, <1>6, SumUpTo
<1>8. g[j] \in Int /\ g[j + 1] \in Int /\ g[1] \in Int /\ f[j] = g[j + 1] - g[j]
  BY <1>0, <1>4
<1> HIDE DEF Sum
<1>9. Sum(j) = g[j + 1] - g[1]
  BY <1>5, <1>7, <1>8
<1> QED BY <1>2, <1>9

\* The values of one list followed by those of another.
OneAfterTheOther(f, l, g, n, h) ==
    /\ \A k \in 1..l : f[k] \in Int /\ h[k] = f[k]
    /\ \A k \in 1..n : g[k] \in Int /\ h[l + k] = g[k]

LEMMA SumConcat ==
    ASSUME NEW l \in Nat, NEW n \in Nat, NEW f, NEW g, NEW h, OneAfterTheOther(f, l, g, n, h)
    PROVE  SumFunctionOnSet(h, 1..(l + n))
               = SumFunctionOnSet(f, 1..l) + SumFunctionOnSet(g, 1..n)
<1>0. /\ \A k \in 1..l : f[k] \in Int /\ h[k] = f[k]
      /\ \A k \in 1..n : g[k] \in Int /\ h[l + k] = g[k]
  BY DEF OneAfterTheOther
<1> DEFINE F == SumFunctionOnSet(f, 1..l)
           G(j) == SumFunctionOnSet(g, 1..j)
           H(j) == SumFunctionOnSet(h, 1..(l + j))
           Wrong == {j \in 0..n : H(j) # F + G(j)}
<1>1. SUFFICES ASSUME Wrong # {} PROVE FALSE
  OBVIOUS
<1>2. PICK j \in Wrong : \A i \in Wrong : j <= i
  <2>1. Wrong \in SUBSET Nat
    OBVIOUS
  <2> HIDE DEF Wrong
  <2> QED BY <1>1, <2>1, SmallestNumber
<1>3. F \in Int
  <2>1. IsFiniteSet(1..l) /\ \A k \in 1..l : f[k] \in Int
    BY <1>0, FS_Interval
  <2> QED BY <2>1, SumType
<1>4. j # 0
  <2>1. 1..0 = {} /\ 1..(l + 0) = 1..l
    OBVIOUS
  <2>2. G(0) = 0
    BY <2>1, SumEmpty
  <2>3. H(0) = F
    <3>1. IsFiniteSet(1..l) /\ \A k \in 1..l : h[k] = f[k]
      BY <1>0, FS_Interval
    <3>2. SumFunctionOnSet(h, 1..l) = SumFunctionOnSet(f, 1..l)
      BY <3>1, SumAgrees
    <3> QED BY <2>1, <3>2
  <2> HIDE DEF F, G, H
  <2> QED BY <1>3, <2>2, <2>3
<1>5. j - 1 \in 0..n /\ j - 1 \notin Wrong /\ j \in 1..n
  BY <1>2, <1>4
<1>6. H(j - 1) = F + G(j - 1)
  BY <1>5
<1>7. G(j) = G(j - 1) + g[j] /\ G(j - 1) \in Int /\ g[j] \in Int
  BY <1>0, <1>5, SumUpTo
<1>8. H(j) = H(j - 1) + g[j]
  <2>1. \A k \in 1..(l + j) : h[k] \in Int
    <3> TAKE k \in 1..(l + j)
    <3>1. CASE k \in 1..l
      BY <1>0, <3>1
    <3>2. CASE k \notin 1..l
      <4>1. k - l \in 1..n /\ l + (k - l) = k
        BY <1>5, <3>2
      <4> QED BY <1>0, <4>1
    <3> QED BY <3>1, <3>2
  <2>2. l + j \in Nat /\ l + j > 0 /\ (l + j) - 1 = l + (j - 1)
    BY <1>5
  <2>3. SumFunctionOnSet(h, 1..(l + j)) = SumFunctionOnSet(h, 1..((l + j) - 1)) + h[l + j]
    BY <2>1, <2>2, SumUpTo
  <2> QED BY <1>0, <1>5, <2>2, <2>3
<1> HIDE DEF F, G, H
<1>9. H(j) = F + G(j)
  BY <1>3, <1>6, <1>7, <1>8
<1> QED BY <1>2, <1>9

=============================================================================
