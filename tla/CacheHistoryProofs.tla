-------------------------- MODULE CacheHistoryProofs --------------------------
(***************************************************************************)
(* Proofs about the cache, for every set of keys and of bodies, every      *)
(* capacity and every time to live: first about its map and its list       *)
(* alone, then about what its callers remember of it: a hit is the latest  *)
(* response stored, and only what was not used recently goes.              *)
(***************************************************************************)
EXTENDS CacheHistory, SequenceTheorems, FiniteSetTheorems, TLAPS

(***************************************************************************)
(* Removing position p of a sequence shifts what is behind it.             *)
(***************************************************************************)
LEMMA RemoveAtFacts ==
    ASSUME NEW S, NEW s \in Seq(S), NEW p \in 1..Len(s)
    PROVE  /\ RemoveAt(s, p) \in Seq(S)
           /\ Len(RemoveAt(s, p)) = Len(s) - 1
           /\ \A i \in 1..(Len(s) - 1) :
                  RemoveAt(s, p)[i] = IF i < p THEN s[i] ELSE s[i + 1]
<1> DEFINE a == SubSeq(s, 1, p - 1)
           b == SubSeq(s, p + 1, Len(s))
<1>0. Len(s) \in Nat /\ \A i \in 1..Len(s) : s[i] \in S
  BY LenProperties, ElementOfSeq
<1>1. a \in Seq(S) /\ Len(a) = p - 1 /\ \A i \in 1..(p - 1) : a[i] = s[i]
  <2>1. 1 \in Int /\ p - 1 \in Int /\ \A i \in 1..(p - 1) : s[i] \in S
    BY <1>0
  <2>2. /\ a \in Seq(S)
        /\ Len(a) = IF 1 <= p - 1 THEN (p - 1) - 1 + 1 ELSE 0
        /\ \A i \in 1..((p - 1) - 1 + 1) : a[i] = s[1 + i - 1]
    BY <2>1, SubSeqProperties
  <2> QED BY <2>2, <1>0
<1>2. /\ b \in Seq(S)
      /\ Len(b) = Len(s) - p
      /\ \A i \in 1..(Len(s) - p) : b[i] = s[p + i]
  <2>1. p + 1 \in Int /\ Len(s) \in Int /\ \A i \in (p + 1)..Len(s) : s[i] \in S
    BY <1>0
  <2>2. /\ b \in Seq(S)
        /\ Len(b) = IF p + 1 <= Len(s) THEN Len(s) - (p + 1) + 1 ELSE 0
        /\ \A i \in 1..(Len(s) - (p + 1) + 1) : b[i] = s[(p + 1) + i - 1]
    BY <2>1, SubSeqProperties
  <2> QED BY <2>2, <1>0
<1>3. /\ a \o b \in Seq(S)
      /\ Len(a \o b) = Len(a) + Len(b)
      /\ \A i \in 1..(Len(a) + Len(b)) :
             (a \o b)[i] = IF i <= Len(a) THEN a[i] ELSE b[i - Len(a)]
  BY <1>1, <1>2, ConcatProperties, Zenon
<1>4. RemoveAt(s, p) = a \o b
  BY DEF RemoveAt
<1> HIDE DEF a, b
<1>5. Len(a \o b) = Len(s) - 1
  BY <1>0, <1>1, <1>2, <1>3
<1>6. ASSUME NEW i \in 1..(Len(s) - 1)
      PROVE  (a \o b)[i] = IF i < p THEN s[i] ELSE s[i + 1]
  <2>1. (a \o b)[i] = IF i <= Len(a) THEN a[i] ELSE b[i - Len(a)]
    BY <1>0, <1>3, <1>5
  <2>2. CASE i < p
    BY <2>1, <2>2, <1>0, <1>1
  <2>3. CASE ~(i < p)
    <3>1. i - Len(a) \in 1..(Len(s) - p) /\ p + (i - Len(a)) = i + 1
      BY <2>3, <1>0, <1>1
    <3>2. b[i - Len(a)] = s[p + (i - Len(a))]
      BY <3>1, <1>2
    <3> QED BY <2>1, <2>3, <3>1, <3>2, <1>0, <1>1
  <2> QED BY <2>2, <2>3
<1> QED BY <1>3, <1>4, <1>5, <1>6

(***************************************************************************)
(* Pushing an element shifts the whole sequence.                           *)
(***************************************************************************)
LEMMA PushFrontFacts ==
    ASSUME NEW S, NEW s \in Seq(S), NEW x \in S
    PROVE  /\ <<x>> \o s \in Seq(S)
           /\ Len(<<x>> \o s) = Len(s) + 1
           /\ (<<x>> \o s)[1] = x
           /\ \A i \in 2..(Len(s) + 1) : (<<x>> \o s)[i] = s[i - 1]
<1>1. <<x>> \in Seq(S) /\ Len(<<x>>) = 1 /\ <<x>>[1] = x
  OBVIOUS
<1>2. /\ <<x>> \o s \in Seq(S)
      /\ Len(<<x>> \o s) = Len(<<x>>) + Len(s)
      /\ \A i \in 1..(Len(<<x>>) + Len(s)) :
             (<<x>> \o s)[i] = IF i <= Len(<<x>>) THEN <<x>>[i] ELSE s[i - Len(<<x>>)]
  BY <1>1, ConcatProperties, Zenon
<1>3. Len(s) \in Nat
  BY LenProperties
<1> QED BY <1>1, <1>2, <1>3

(***************************************************************************)
(* The cache by itself: types, coherence and capacity are inductive.       *)
(***************************************************************************)
CacheInv == CacheTypeOK /\ Coherent

USE SizeAssumption, TTLAssumption, ClockAssumption

LEMMA OrderFacts ==
    ASSUME CacheTypeOK
    PROVE  /\ Len(order) \in Nat
           /\ DOMAIN order = 1..Len(order)
           /\ \A i \in 1..Len(order) : order[i] \in Keys
BY LenProperties, ElementOfSeq DEF CacheTypeOK

LEMMA PositionFacts ==
    ASSUME CacheTypeOK, Listed, NEW k, Cached(k)
    PROVE  Position(k) \in 1..Len(order) /\ order[Position(k)] = k
<1>1. \E i \in DOMAIN order : order[i] = k
  BY DEF Listed, Cached
<1> QED BY <1>1, OrderFacts DEF Position

(***************************************************************************)
(* The list after one key is moved to its front.                           *)
(***************************************************************************)
LEMMA MoveToFrontFacts ==
    ASSUME CacheInv, NEW k \in Keys, Cached(k)
    PROVE  /\ MoveToFront(k) \in Seq(Keys)
           /\ Len(MoveToFront(k)) = Len(order)
           /\ MoveToFront(k)[1] = k
           /\ \A i \in 2..Len(order) :
                  MoveToFront(k)[i] = IF i <= Position(k) THEN order[i - 1] ELSE order[i]
<1> DEFINE p == Position(k)
           r == RemoveAt(order, p)
<1>1. order \in Seq(Keys) /\ Len(order) \in Nat /\ p \in 1..Len(order)
  BY OrderFacts, PositionFacts DEF CacheInv, CacheTypeOK, Coherent
<1>2. /\ r \in Seq(Keys)
      /\ Len(r) = Len(order) - 1
      /\ \A i \in 1..(Len(order) - 1) : r[i] = IF i < p THEN order[i] ELSE order[i + 1]
  BY <1>1, RemoveAtFacts
<1> HIDE DEF r, p
<1>3. /\ <<k>> \o r \in Seq(Keys)
      /\ Len(<<k>> \o r) = Len(r) + 1
      /\ (<<k>> \o r)[1] = k
      /\ \A i \in 2..(Len(r) + 1) : (<<k>> \o r)[i] = r[i - 1]
  BY <1>2, PushFrontFacts
<1>4. MoveToFront(k) = <<k>> \o r
  BY DEF MoveToFront, r, p
<1>5. ASSUME NEW i \in 2..Len(order)
      PROVE  (<<k>> \o r)[i] = IF i <= p THEN order[i - 1] ELSE order[i]
  <2>1. i - 1 \in 1..(Len(order) - 1) /\ (i - 1) + 1 = i /\ (i - 1 < p <=> i <= p)
    BY <1>1
  <2>2. (<<k>> \o r)[i] = r[i - 1]
    BY <1>1, <1>2, <1>3
  <2>3. r[i - 1] = IF i - 1 < p THEN order[i - 1] ELSE order[(i - 1) + 1]
    BY <1>2, <2>1
  <2> QED BY <2>1, <2>2, <2>3
<1> QED BY <1>1, <1>2, <1>3, <1>4, <1>5 DEF p

(***************************************************************************)
(* What the eviction loop leaves, and what it takes: nothing below         *)
(* capacity, exactly the back of the list at capacity.                     *)
(***************************************************************************)
LEMMA RetainedFacts ==
    ASSUME CacheInv
    PROVE  /\ Retained \in Seq(Keys)
           /\ Len(Retained) = IF Len(order) < MaxSize THEN Len(order) ELSE MaxSize - 1
           /\ \A i \in 1..Len(Retained) : Retained[i] = order[i]
           /\ Evicted = IF Len(order) < MaxSize THEN {} ELSE {order[MaxSize]}
<1> DEFINE n == IF Len(order) < MaxSize THEN Len(order) ELSE MaxSize - 1
<1>1. /\ Len(order) \in Nat
      /\ Len(order) <= MaxSize
      /\ DOMAIN order = 1..Len(order)
      /\ \A i \in 1..Len(order) : order[i] \in Keys
  BY OrderFacts DEF CacheInv, Coherent, WithinCapacity
<1>2. n \in Nat /\ n <= Len(order)
  BY <1>1
<1>3. Retained = SubSeq(order, 1, n)
  BY DEF Retained
<1> HIDE DEF n
<1>4. 1 \in Int /\ n \in Int /\ \A i \in 1..n : order[i] \in Keys
  BY <1>1, <1>2
<1>5. /\ SubSeq(order, 1, n) \in Seq(Keys)
      /\ Len(SubSeq(order, 1, n)) = IF 1 <= n THEN n - 1 + 1 ELSE 0
      /\ \A i \in 1..(n - 1 + 1) : SubSeq(order, 1, n)[i] = order[1 + i - 1]
  BY <1>4, SubSeqProperties
<1>6. Retained \in Seq(Keys) /\ Len(Retained) = n /\ \A i \in 1..n : Retained[i] = order[i]
  BY <1>2, <1>3, <1>5
<1>7. Evicted = IF Len(order) < MaxSize THEN {} ELSE {order[MaxSize]}
  BY <1>1, <1>6 DEF Evicted, n
<1> QED BY <1>6, <1>7 DEF n

-----------------------------------------------------------------------------
(* One lemma per action that changes the cache. *)

LEMMA GetExpiredKeepsInv ==
    ASSUME CacheInv, NEW k \in Keys, GetExpired(k)
    PROVE  CacheInv'
<1> DEFINE p == Position(k)
           n == Len(order)
<1>1. /\ n \in Nat
      /\ DOMAIN order = 1..n
      /\ \A i \in 1..n : order[i] \in Keys
      /\ p \in 1..n
      /\ order[p] = k
      /\ order \in Seq(Keys)
  BY OrderFacts, PositionFacts DEF CacheInv, CacheTypeOK, Coherent, GetExpired
<1> HIDE DEF p, n
<1>2. /\ order' \in Seq(Keys)
      /\ Len(order') = n - 1
      /\ \A i \in 1..(n - 1) : order'[i] = IF i < p THEN order[i] ELSE order[i + 1]
  BY <1>1, RemoveAtFacts DEF GetExpired, p, n
<1>3. DOMAIN order' = 1..(n - 1)
  BY <1>2, LenProperties
<1>4. CacheTypeOK'
  BY <1>2 DEF CacheInv, CacheTypeOK, GetExpired
<1>5. Listed'
  <2>1. ASSUME NEW i \in 1..(n - 1) PROVE order'[i] \in DOMAIN entries \ {k}
    <3>1. ASSUME NEW j \in 1..n, j # p PROVE order[j] \in DOMAIN entries \ {k}
      <4>1. order[j] \in DOMAIN entries
        BY <1>1 DEF CacheInv, Coherent, Listed
      <4>2. order[j] # order[p]
        BY <1>1, <3>1 DEF CacheInv, Coherent, NoDuplicates
      <4> QED BY <1>1, <4>1, <4>2
    <3>2. CASE i < p
      <4>1. i \in 1..n /\ i # p
        BY <1>1, <3>2
      <4> QED BY <1>2, <3>1, <3>2, <4>1
    <3>3. CASE ~(i < p)
      <4>1. i + 1 \in 1..n /\ i + 1 # p
        BY <1>1, <3>3
      <4> QED BY <1>2, <3>1, <3>3, <4>1
    <3> QED BY <3>2, <3>3
  <2>2. ASSUME NEW x \in DOMAIN entries \ {k} PROVE \E i \in 1..(n - 1) : order'[i] = x
    <3>1. PICK i \in 1..n : order[i] = x /\ i # p
      BY <1>1 DEF CacheInv, Coherent, Listed
    <3>2. CASE i < p
      BY <1>1, <1>2, <3>1, <3>2
    <3>3. CASE i > p
      <4>1. i - 1 \in 1..(n - 1) /\ ~(i - 1 < p) /\ (i - 1) + 1 = i
        BY <1>1, <3>3
      <4> QED BY <1>2, <3>1, <4>1
    <3> QED BY <1>1, <3>1, <3>2, <3>3
  <2> QED BY <1>3, <2>1, <2>2 DEF Listed, GetExpired
<1>6. NoDuplicates'
  <2> DEFINE was(i) == IF i < p THEN i ELSE i + 1
  <2>1. ASSUME NEW i \in 1..(n - 1), NEW j \in 1..(n - 1), i # j
        PROVE  order'[i] # order'[j]
    <3>1. /\ was(i) \in 1..n /\ was(j) \in 1..n /\ was(i) # was(j)
          /\ order'[i] = order[was(i)] /\ order'[j] = order[was(j)]
      BY <1>1, <1>2, <2>1
    <3> QED BY <1>1, <3>1 DEF CacheInv, Coherent, NoDuplicates
  <2> QED BY <1>3, <2>1 DEF NoDuplicates
<1>7. WithinCapacity'
  BY <1>1, <1>2 DEF CacheInv, Coherent, WithinCapacity, n
<1> QED BY <1>4, <1>5, <1>6, <1>7 DEF CacheInv, Coherent

(***************************************************************************)
(* Moving a cached key to the front keeps the set of keys on the list.     *)
(***************************************************************************)
LEMMA MoveToFrontKeepsCoherence ==
    ASSUME CacheInv, NEW k \in Keys, Cached(k),
           order' = MoveToFront(k), DOMAIN entries' = DOMAIN entries
    PROVE  Coherent' /\ order' \in Seq(Keys)
<1> DEFINE p == Position(k)
           n == Len(order)
<1>1. /\ n \in Nat
      /\ DOMAIN order = 1..n
      /\ p \in 1..n
      /\ order[p] = k
  BY OrderFacts, PositionFacts DEF CacheInv, Coherent
<1> HIDE DEF p, n
<1>2. /\ order' \in Seq(Keys)
      /\ Len(order') = n
      /\ order'[1] = k
      /\ \A i \in 2..n : order'[i] = IF i <= p THEN order[i - 1] ELSE order[i]
  BY MoveToFrontFacts DEF p, n
<1>3. DOMAIN order' = 1..n
  BY <1>2, LenProperties
<1>4. Listed'
  <2>1. ASSUME NEW i \in 1..n PROVE order'[i] \in DOMAIN entries
    BY <1>1, <1>2 DEF CacheInv, Coherent, Listed, Cached
  <2>2. ASSUME NEW x \in DOMAIN entries PROVE \E i \in 1..n : order'[i] = x
    <3>1. PICK i \in 1..n : order[i] = x
      BY <1>1 DEF CacheInv, Coherent, Listed
    <3>2. CASE i = p
      BY <1>1, <1>2, <3>1, <3>2
    <3>3. CASE i > p
      BY <1>1, <1>2, <3>1, <3>3
    <3>4. CASE i < p
      <4>1. i + 1 \in 2..n /\ i + 1 <= p /\ (i + 1) - 1 = i
        BY <1>1, <3>4
      <4>2. order'[i + 1] = order[(i + 1) - 1]
        BY <1>2, <4>1
      <4> QED BY <1>1, <3>1, <4>1, <4>2
    <3> QED BY <1>1, <3>2, <3>3, <3>4
  <2> QED BY <1>3, <2>1, <2>2 DEF Listed
<1>5. NoDuplicates'
  <2>1. ASSUME NEW i \in 2..n PROVE order'[i] # k
    BY <1>1, <1>2 DEF CacheInv, Coherent, NoDuplicates
  <2> DEFINE was(i) == IF i <= p THEN i - 1 ELSE i
  <2>2. ASSUME NEW i \in 2..n, NEW j \in 2..n, i # j PROVE order'[i] # order'[j]
    <3>1. /\ was(i) \in 1..n /\ was(j) \in 1..n /\ was(i) # was(j)
          /\ order'[i] = order[was(i)] /\ order'[j] = order[was(j)]
      BY <1>1, <1>2, <2>2
    <3> QED BY <1>1, <3>1 DEF CacheInv, Coherent, NoDuplicates
  <2> QED BY <1>1, <1>2, <1>3, <2>1, <2>2 DEF NoDuplicates
<1>6. WithinCapacity'
  BY <1>2 DEF CacheInv, Coherent, WithinCapacity, n
<1> QED BY <1>2, <1>4, <1>5, <1>6 DEF Coherent

LEMMA GetHitKeepsInv ==
    ASSUME CacheInv, NEW k \in Keys, GetHit(k)
    PROVE  CacheInv'
<1>1. Coherent' /\ order' \in Seq(Keys)
  BY MoveToFrontKeepsCoherence DEF GetHit
<1> QED BY <1>1 DEF CacheInv, CacheTypeOK, GetHit

LEMMA SetExistingKeepsInv ==
    ASSUME CacheInv, NEW k \in Keys, NEW b \in Bodies, SetExisting(k, b)
    PROVE  CacheInv'
<1>1. DOMAIN entries' = DOMAIN entries
  BY DEF SetExisting
<1>2. Coherent' /\ order' \in Seq(Keys)
  BY <1>1, MoveToFrontKeepsCoherence DEF SetExisting
<1>3. NewEntry(b) \in Entry
  BY DEF NewEntry, Entry, CacheInv, CacheTypeOK
<1> QED BY <1>2, <1>3 DEF CacheInv, CacheTypeOK, SetExisting, Cached

LEMMA SetNewKeepsInv ==
    ASSUME CacheInv, NEW k \in Keys, NEW b \in Bodies, SetNew(k, b)
    PROVE  CacheInv'
<1> DEFINE m == Len(Retained)
<1>1. /\ Len(order) \in Nat
      /\ Len(order) <= MaxSize
      /\ DOMAIN order = 1..Len(order)
  BY OrderFacts DEF CacheInv, Coherent, WithinCapacity
<1>2. /\ Retained \in Seq(Keys)
      /\ m = IF Len(order) < MaxSize THEN Len(order) ELSE MaxSize - 1
      /\ \A i \in 1..m : Retained[i] = order[i]
      /\ Evicted = IF Len(order) < MaxSize THEN {} ELSE {order[MaxSize]}
  BY RetainedFacts
<1>3. /\ order' \in Seq(Keys)
      /\ Len(order') = m + 1
      /\ order'[1] = k
      /\ \A i \in 2..(m + 1) : order'[i] = Retained[i - 1]
  BY <1>2, PushFrontFacts DEF SetNew
<1> HIDE DEF m
<1>4. DOMAIN order' = 1..(m + 1) /\ m \in Nat /\ m <= Len(order) /\ m + 1 <= MaxSize
  BY <1>1, <1>2, <1>3, LenProperties
<1>5. \A i \in 2..(m + 1) : order'[i] = order[i - 1] /\ i - 1 \in 1..m
  BY <1>2, <1>3, <1>4
<1>6. CacheTypeOK'
  <2>1. NewEntry(b) \in Entry
    BY DEF NewEntry, Entry, CacheInv, CacheTypeOK
  <2> QED BY <1>3, <2>1 DEF CacheInv, CacheTypeOK, SetNew
<1>7. DOMAIN entries' = {order[i] : i \in 1..m} \cup {k}
  <2>1. DOMAIN entries \ Evicted = {order[i] : i \in 1..m}
    <3>1. CASE Len(order) < MaxSize
      BY <1>1, <1>2, <3>1 DEF CacheInv, Coherent, Listed
    <3>2. CASE ~(Len(order) < MaxSize)
      <4>1. Len(order) = MaxSize /\ m = MaxSize - 1
        <5>1. Len(order) \in Nat /\ MaxSize \in Nat /\ Len(order) <= MaxSize
          BY <1>1
        <5>2. m = MaxSize - 1
          BY <1>2, <3>2
        <5> QED BY <5>1, <5>2, <3>2
      <4>2. {order[i] : i \in 1..Len(order)} = DOMAIN entries
        BY <1>1 DEF CacheInv, Coherent, Listed
      <4>3. MaxSize \in 1..Len(order) /\ 1..m = 1..Len(order) \ {MaxSize}
        BY <1>1, <4>1
      <4>4. \A i \in 1..m : order[i] # order[MaxSize]
        BY <1>1, <4>3 DEF CacheInv, Coherent, NoDuplicates
      <4>5. Evicted = {order[MaxSize]}
        BY <1>2, <3>2
      <4>6. ASSUME NEW x \in DOMAIN entries, x # order[MaxSize]
            PROVE  x \in {order[i] : i \in 1..m}
        BY <4>2, <4>3, <4>6
      <4>7. ASSUME NEW i \in 1..m
            PROVE  order[i] \in DOMAIN entries /\ order[i] # order[MaxSize]
        BY <4>2, <4>3, <4>4
      <4> QED BY <4>5, <4>6, <4>7
    <3> QED BY <3>1, <3>2
  <2> QED BY <2>1 DEF SetNew
<1>8. Listed'
  <2>1. ASSUME NEW i \in 1..(m + 1) PROVE order'[i] \in DOMAIN entries'
    BY <1>3, <1>4, <1>5, <1>7
  <2>2. ASSUME NEW x \in DOMAIN entries' PROVE \E i \in 1..(m + 1) : order'[i] = x
    <3>1. CASE x = k
      BY <1>3, <1>4, <3>1
    <3>2. CASE x # k
      <4>1. PICK i \in 1..m : order[i] = x
        BY <1>7, <3>2
      <4>2. i + 1 \in 2..(m + 1) /\ i + 1 \in 1..(m + 1) /\ (i + 1) - 1 = i
        BY <1>4
      <4>3. order'[i + 1] = order[(i + 1) - 1]
        BY <1>5, <4>2
      <4> QED BY <4>1, <4>2, <4>3
    <3> QED BY <3>1, <3>2
  <2> QED BY <1>4, <2>1, <2>2 DEF Listed
<1>9. NoDuplicates'
  <2>1. ASSUME NEW i \in 2..(m + 1) PROVE order'[i] # k
    <3>1. order[i - 1] \in DOMAIN entries
      BY <1>1, <1>4, <1>5 DEF CacheInv, Coherent, Listed
    <3> QED BY <1>5, <3>1 DEF SetNew, Cached
  <2>2. ASSUME NEW i \in 2..(m + 1), NEW j \in 2..(m + 1), i # j
        PROVE  order'[i] # order'[j]
    <3>1. /\ i - 1 \in 1..Len(order) /\ j - 1 \in 1..Len(order) /\ i - 1 # j - 1
          /\ order'[i] = order[i - 1] /\ order'[j] = order[j - 1]
      BY <1>1, <1>4, <1>5, <2>2
    <3> QED BY <1>1, <3>1 DEF CacheInv, Coherent, NoDuplicates
  <2> QED BY <1>3, <1>4, <2>1, <2>2 DEF NoDuplicates
<1>10. WithinCapacity'
  BY <1>3, <1>4 DEF WithinCapacity
<1> QED BY <1>6, <1>8, <1>9, <1>10 DEF CacheInv, Coherent

(***************************************************************************)
(* Theorem: whatever the sequence of lookups, stores, expiries and         *)
(* restarts, the map and the list stay in step and within capacity.        *)
(***************************************************************************)
LEMMA CacheInitInv == CacheInit => CacheInv
<1> SUFFICES ASSUME CacheInit PROVE CacheInv
  OBVIOUS
<1>1. order = <<>> /\ Len(order) = 0 /\ DOMAIN order = {}
  BY DEF CacheInit
<1>2. CacheTypeOK
  BY <1>1 DEF CacheInit, CacheTypeOK, NoEntries
<1> QED BY <1>1, <1>2 DEF CacheInit, NoEntries, CacheInv, Coherent, Listed, NoDuplicates,
                          WithinCapacity

LEMMA CacheNextInv == CacheInv /\ [CacheNext]_cacheVars => CacheInv'
<1> SUFFICES ASSUME CacheInv, [CacheNext]_cacheVars PROVE CacheInv'
  OBVIOUS
<1>1. ASSUME UNCHANGED <<entries, order>>, clock' \in Nat PROVE CacheInv'
  BY <1>1 DEF CacheInv, CacheTypeOK, Coherent, Listed, NoDuplicates, WithinCapacity
<1>2. ASSUME NEW k \in Keys, GetAbsent(k) PROVE CacheInv'
  BY <1>1, <1>2 DEF GetAbsent, cacheVars, CacheInv, CacheTypeOK
<1>3. ASSUME NEW k \in Keys, GetExpired(k) PROVE CacheInv'
  BY <1>3, GetExpiredKeepsInv
<1>4. ASSUME NEW k \in Keys, GetHit(k) PROVE CacheInv'
  BY <1>4, GetHitKeepsInv
<1>5. ASSUME NEW k \in Keys, NEW b \in Bodies, Set(k, b) PROVE CacheInv'
  BY <1>5, SetExistingKeepsInv, SetNewKeepsInv DEF Set
<1>6. ASSUME Tick PROVE CacheInv'
  BY <1>1, <1>6 DEF Tick, CacheInv, CacheTypeOK
<1>7. ASSUME Restart PROVE CacheInv'
  <2>1. order' = <<>> /\ Len(order') = 0 /\ DOMAIN order' = {}
    BY <1>7 DEF Restart
  <2>2. CacheTypeOK'
    BY <1>7, <2>1 DEF Restart, CacheInv, CacheTypeOK, NoEntries
  <2> QED BY <1>7, <2>1, <2>2 DEF Restart, NoEntries, CacheInv, Coherent, Listed, NoDuplicates,
                                  WithinCapacity
<1>8. CASE UNCHANGED cacheVars
  BY <1>1, <1>8 DEF cacheVars, CacheInv, CacheTypeOK
<1> QED BY <1>2, <1>3, <1>4, <1>5, <1>6, <1>7, <1>8 DEF CacheNext, Get

THEOREM CacheCorrect == CacheSpec => [](CacheTypeOK /\ Coherent)
<1>1. CacheSpec => []CacheInv
  BY CacheInitInv, CacheNextInv, PTL DEF CacheSpec
<1> QED BY <1>1, PTL DEF CacheInv

-----------------------------------------------------------------------------
(* With what the callers remember. *)

(***************************************************************************)
(* The inductive invariant.  RetainsRecent alone is not inductive: that an *)
(* eviction takes a key many others were used after needs RecencyOrder,    *)
(* which in turn needs the list to be coherent; that an expired entry may  *)
(* go needs Agrees.                                                        *)
(***************************************************************************)
HistoryInv == CacheInv /\ HistoryTypeOK /\ Agrees /\ RecencyOrder /\ RetainsRecent

(***************************************************************************)
(* Using k adds k to every other crowd, which therefore never shrinks.     *)
(***************************************************************************)
LEMMA UseFacts ==
    ASSUME HistoryTypeOK, NEW k \in Keys, crowd' = Use(k)
    PROVE  /\ DOMAIN crowd' = DOMAIN crowd \cup {k}
           /\ crowd' \in [DOMAIN crowd' -> {C \in SUBSET Keys : IsFiniteSet(C)}]
           /\ \A j \in DOMAIN crowd \ {k} :
                 /\ crowd'[j] = crowd[j] \cup {k}
                 /\ Cardinality(crowd'[j]) >= MaxSize \/ Cardinality(crowd[j]) < MaxSize
<1>1. DOMAIN crowd' = DOMAIN crowd \cup {k}
  BY DEF Use
<1>2. ASSUME NEW j \in DOMAIN crowd \ {k}
      PROVE  /\ crowd'[j] = crowd[j] \cup {k}
             /\ crowd'[j] \subseteq Keys
             /\ IsFiniteSet(crowd'[j])
             /\ Cardinality(crowd'[j]) >= Cardinality(crowd[j])
             /\ Cardinality(crowd'[j]) \in Nat
             /\ Cardinality(crowd[j]) \in Nat
  <2>1. crowd[j] \subseteq Keys /\ IsFiniteSet(crowd[j])
    BY DEF HistoryTypeOK
  <2>2. crowd'[j] = crowd[j] \cup {k}
    BY DEF Use
  <2>3. /\ IsFiniteSet(crowd[j] \cup {k})
        /\ Cardinality(crowd[j]) \in Nat
        /\ Cardinality(crowd[j] \cup {k}) =
               IF k \in crowd[j] THEN Cardinality(crowd[j]) ELSE Cardinality(crowd[j]) + 1
    BY <2>1, FS_AddElement, FS_CardinalityType
  <2> QED BY <2>1, <2>2, <2>3
<1>3. crowd'[k] = {} /\ IsFiniteSet({})
  BY FS_EmptySet DEF Use
<1>4. crowd' \in [DOMAIN crowd' -> {C \in SUBSET Keys : IsFiniteSet(C)}]
  <2>1. crowd' = [j \in DOMAIN crowd' |-> crowd'[j]]
    BY DEF Use
  <2>2. ASSUME NEW j \in DOMAIN crowd'
        PROVE  crowd'[j] \in {C \in SUBSET Keys : IsFiniteSet(C)}
    BY <1>1, <1>2, <1>3
  <2> QED BY <2>1, <2>2
<1>5. ASSUME NEW j \in DOMAIN crowd \ {k}
      PROVE  Cardinality(crowd'[j]) >= MaxSize \/ Cardinality(crowd[j]) < MaxSize
  BY <1>2, SizeAssumption
<1> QED BY <1>1, <1>2, <1>4, <1>5

(***************************************************************************)
(* Moving the key just used to the front keeps the list in recency order.  *)
(***************************************************************************)
LEMMA MoveToFrontKeepsRecency ==
    ASSUME CacheInv, HistoryTypeOK, Agrees, RecencyOrder, NEW k \in Keys, Cached(k),
           order' = MoveToFront(k), crowd' = Use(k)
    PROVE  RecencyOrder'
<1> DEFINE p == Position(k)
           n == Len(order)
           was(i) == IF i <= p THEN i - 1 ELSE i
<1>1. /\ n \in Nat
      /\ DOMAIN order = 1..n
      /\ p \in 1..n
      /\ order[p] = k
  BY OrderFacts, PositionFacts DEF CacheInv, Coherent
<1> HIDE DEF p, n
<1>2. /\ order' \in Seq(Keys)
      /\ Len(order') = n
      /\ order'[1] = k
      /\ \A i \in 2..n : order'[i] = IF i <= p THEN order[i - 1] ELSE order[i]
  BY MoveToFrontFacts DEF p, n
<1>3. DOMAIN order' = 1..n
  BY <1>2, LenProperties
<1>4. \A i \in 2..n : was(i) \in 1..n /\ order'[i] = order[was(i)] /\ order[was(i)] # k
  BY <1>1, <1>2 DEF CacheInv, Coherent, NoDuplicates
<1>5. \A i \in 1..n : order[i] \in DOMAIN crowd
  BY <1>1 DEF CacheInv, Coherent, Listed, Agrees, Stored, HistoryTypeOK
<1>6. ASSUME NEW i \in 1..n, NEW j \in 1..n, j < i
      PROVE  order'[j] \in crowd'[order'[i]]
  <2>1. i \in 2..n
    BY <1>1, <1>6
  <2>2. crowd'[order'[i]] = crowd[order[was(i)]] \cup {k}
    <3>1. was(i) \in 1..n /\ order'[i] = order[was(i)] /\ order[was(i)] # k
      BY <2>1, <1>4
    <3>2. order[was(i)] \in DOMAIN crowd
      BY <3>1, <1>5
    <3> HIDE DEF was
    <3> QED BY <3>1, <3>2, UseFacts
  <2>3. CASE j = 1
    BY <1>2, <2>2, <2>3
  <2>4. CASE j # 1
    <3>1. j \in 2..n /\ was(j) < was(i) /\ was(i) \in 1..n /\ was(j) \in 1..n
      BY <1>1, <1>6, <2>1, <2>4
    <3>2. order[was(j)] \in crowd[order[was(i)]]
      BY <1>1, <3>1 DEF RecencyOrder, InFront
    <3> QED BY <1>4, <2>2, <3>1, <3>2
  <2> QED BY <2>3, <2>4
<1> QED BY <1>3, <1>6 DEF RecencyOrder, InFront

(***************************************************************************)
(* Inserting a new key at the front keeps the recency order: the retained  *)
(* prefix moves back by one place and k is in every other crowd.           *)
(***************************************************************************)
LEMMA SetNewKeepsRecency ==
    ASSUME CacheInv, HistoryTypeOK, Agrees, RecencyOrder,
           NEW k \in Keys, NEW b \in Bodies, SetNew(k, b), crowd' = Use(k)
    PROVE  RecencyOrder'
<1> DEFINE m == Len(Retained)
<1>1. /\ Len(order) \in Nat
      /\ Len(order) <= MaxSize
      /\ DOMAIN order = 1..Len(order)
  BY OrderFacts DEF CacheInv, Coherent, WithinCapacity
<1>2. /\ Retained \in Seq(Keys)
      /\ m = IF Len(order) < MaxSize THEN Len(order) ELSE MaxSize - 1
      /\ \A i \in 1..m : Retained[i] = order[i]
  BY RetainedFacts
<1>3. /\ order' \in Seq(Keys)
      /\ Len(order') = m + 1
      /\ order'[1] = k
      /\ \A i \in 2..(m + 1) : order'[i] = Retained[i - 1]
  BY <1>2, PushFrontFacts DEF SetNew
<1> HIDE DEF m
<1>4. DOMAIN order' = 1..(m + 1) /\ m \in Nat /\ m <= Len(order)
  BY <1>1, <1>2, <1>3, LenProperties, SizeAssumption
<1>5. \A i \in 2..(m + 1) : order'[i] = order[i - 1] /\ i - 1 \in 1..Len(order)
  <2>1. ASSUME NEW i \in 2..(m + 1)
        PROVE  order'[i] = order[i - 1] /\ i - 1 \in 1..Len(order)
    <3>1. i - 1 \in 1..m /\ i - 1 \in 1..Len(order)
      BY <1>1, <1>4
    <3> QED BY <1>2, <1>3, <3>1
  <2> QED BY <2>1
<1>6. \A i \in 1..Len(order) : order[i] \in DOMAIN crowd \ {k}
  BY <1>1 DEF CacheInv, Coherent, Listed, Agrees, Stored, HistoryTypeOK, SetNew, Cached
<1>7. ASSUME NEW i \in 1..(m + 1), NEW j \in 1..(m + 1), j < i
      PROVE  order'[j] \in crowd'[order'[i]]
  <2>1. i \in 2..(m + 1)
    BY <1>4, <1>7
  <2>2. crowd'[order'[i]] = crowd[order[i - 1]] \cup {k}
    BY <2>1, <1>5, <1>6, UseFacts
  <2>3. CASE j = 1
    BY <1>3, <2>2, <2>3
  <2>4. CASE j # 1
    <3>1. j \in 2..(m + 1) /\ j - 1 < i - 1
      BY <1>4, <1>7, <2>4
    <3>2. i - 1 \in 1..Len(order) /\ j - 1 \in 1..Len(order) /\ order'[j] = order[j - 1]
      BY <1>5, <2>1, <3>1
    <3>3. order[j - 1] \in crowd[order[i - 1]]
      BY <1>1, <3>1, <3>2 DEF RecencyOrder, InFront
    <3> QED BY <2>2, <3>2, <3>3
  <2> QED BY <2>3, <2>4
<1> QED BY <1>4, <1>7 DEF RecencyOrder, InFront

(***************************************************************************)
(* Dropping an expired key leaves the others in recency order.             *)
(***************************************************************************)
LEMMA GetExpiredKeepsRecency ==
    ASSUME CacheInv, RecencyOrder, NEW k \in Keys, GetExpired(k), crowd' = crowd
    PROVE  RecencyOrder'
<1> DEFINE p == Position(k)
           n == Len(order)
           was(i) == IF i < p THEN i ELSE i + 1
<1>1. /\ n \in Nat
      /\ DOMAIN order = 1..n
      /\ p \in 1..n
      /\ order \in Seq(Keys)
  BY OrderFacts, PositionFacts DEF CacheInv, CacheTypeOK, Coherent, GetExpired
<1> HIDE DEF p, n
<1>2. /\ order' \in Seq(Keys)
      /\ Len(order') = n - 1
      /\ \A i \in 1..(n - 1) : order'[i] = IF i < p THEN order[i] ELSE order[i + 1]
  BY <1>1, RemoveAtFacts DEF GetExpired, p, n
<1>3. DOMAIN order' = 1..(n - 1)
  BY <1>2, LenProperties
<1>4. ASSUME NEW i \in 1..(n - 1), NEW j \in 1..(n - 1), j < i
      PROVE  order'[j] \in crowd'[order'[i]]
  <2>1. was(i) \in 1..n /\ was(j) \in 1..n /\ was(j) < was(i)
    BY <1>1, <1>4
  <2>2. order'[i] = order[was(i)] /\ order'[j] = order[was(j)]
    BY <1>2
  <2>3. order[was(j)] \in crowd[order[was(i)]]
    BY <1>1, <2>1 DEF RecencyOrder, InFront
  <2> QED BY <2>2, <2>3
<1> QED BY <1>3, <1>4 DEF RecencyOrder, InFront

(***************************************************************************)
(* The key an insertion evicts has been overtaken by MaxSize others: those *)
(* in front of it on a full list, and the key inserted.                    *)
(***************************************************************************)
LEMMA EvictedIsOvertaken ==
    ASSUME CacheInv, HistoryTypeOK, Agrees, RecencyOrder,
           NEW k \in Keys, ~Cached(k), crowd' = Use(k), NEW x \in Evicted
    PROVE  Cardinality(crowd'[x]) >= MaxSize
<1> DEFINE N == Len(order)
<1>1. /\ N \in Nat
      /\ N <= MaxSize
      /\ DOMAIN order = 1..N
      /\ order \in [1..N -> Keys]
  BY OrderFacts, LenProperties DEF CacheInv, CacheTypeOK, Coherent, WithinCapacity
<1>2. N = MaxSize /\ x = order[N]
  <2>1. Evicted = IF N < MaxSize THEN {} ELSE {order[MaxSize]}
    BY RetainedFacts
  <2>2. ~(N < MaxSize) /\ x = order[MaxSize]
    BY <2>1
  <2>3. N \in Nat /\ N <= MaxSize /\ ~(N < MaxSize)
    BY <1>1, <2>2
  <2>4. N = MaxSize
    BY <2>3, SizeAssumption
  <2> QED BY <2>2, <2>4
<1> HIDE DEF N
<1> DEFINE A == {order[i] : i \in 1..N}
<1>3. IsFiniteSet(A) /\ Cardinality(A) = N
  <2>1. order \in Bijection(1..N, A)
    BY <1>1 DEF Bijection, Injection, Surjection, IsInjective, CacheInv, Coherent, NoDuplicates
  <2>2. ExistsBijection(1..N, A)
    BY <2>1 DEF ExistsBijection
  <2>3. IsFiniteSet(1..N)
    BY <1>1, FS_Interval
  <2> QED BY <1>1, <2>2, <2>3, FS_CountingElements, FS_Bijection
<1>4. k \notin A /\ x \in A /\ x # k /\ x \in DOMAIN crowd
  <2>1. A = DOMAIN entries
    BY <1>1 DEF CacheInv, Coherent, Listed
  <2>2. N \in 1..N
    BY <1>1, <1>2, SizeAssumption
  <2> QED BY <1>2, <2>1, <2>2 DEF Cached, Agrees, Stored, HistoryTypeOK
<1> DEFINE B == (A \ {x}) \cup {k}
<1>5. B \subseteq crowd'[x] /\ IsFiniteSet(crowd'[x])
  <2>1. crowd'[x] = crowd[x] \cup {k} /\ IsFiniteSet(crowd'[x])
    BY <1>4, UseFacts
  <2>2. ASSUME NEW y \in A \ {x} PROVE y \in crowd[x]
    <3>1. PICK i \in 1..N : y = order[i]
      OBVIOUS
    <3>2. i < N /\ N \in 1..N
      BY <1>1, <1>2, <2>2, <3>1
    <3> QED BY <1>1, <1>2, <3>1, <3>2 DEF RecencyOrder, InFront
  <2> QED BY <2>1, <2>2
<1> HIDE DEF A
<1>6. Cardinality(B) = N
  <2>1. IsFiniteSet(A \ {x}) /\ Cardinality(A \ {x}) = N - 1
    BY <1>3, <1>4, FS_RemoveElement
  <2>2. k \notin A \ {x}
    BY <1>4
  <2>3. Cardinality(B) = Cardinality(A \ {x}) + 1
    BY <2>1, <2>2, FS_AddElement
  <2> QED BY <1>1, <2>1, <2>3
<1>7. Cardinality(B) <= Cardinality(crowd'[x])
  BY <1>5, FS_Subset
<1> HIDE DEF B
<1>8. Cardinality(crowd'[x]) \in Nat
  BY <1>5, FS_CardinalityType
<1> QED BY <1>1, <1>2, <1>6, <1>7, <1>8

-----------------------------------------------------------------------------
(* The invariant, one lemma per action. *)

LEMMA LookupExpiredKeepsInv ==
    ASSUME HistoryInv, NEW k \in Keys, LookupExpired(k)
    PROVE  HistoryInv'
<1>1. CacheInv' /\ RecencyOrder'
  BY GetExpiredKeepsInv, GetExpiredKeepsRecency DEF HistoryInv, LookupExpired
<1>2. HistoryTypeOK'
  BY DEF HistoryInv, LookupExpired, HistoryTypeOK
<1>3. Agrees'
  BY DEF HistoryInv, LookupExpired, GetExpired, Agrees, Stored
<1>4. RetainsRecent'
  <2> SUFFICES ASSUME NEW j \in DOMAIN latest, clock <= latest[j].expires, j \notin DOMAIN entries'
               PROVE  Cardinality(crowd[j]) >= MaxSize
    BY DEF RetainsRecent, LookupExpired, GetExpired, Cached
  <2>1. clock \in Nat /\ latest[j].expires \in Nat
    BY DEF HistoryInv, CacheInv, CacheTypeOK, HistoryTypeOK, Entry
  <2>2. j # k
    BY <2>1 DEF HistoryInv, LookupExpired, GetExpired, Expired, Agrees, Cached
  <2>3. j \notin DOMAIN entries
    BY <2>2 DEF LookupExpired, GetExpired
  <2> QED BY <2>3 DEF HistoryInv, RetainsRecent, Cached
<1> QED BY <1>1, <1>2, <1>3, <1>4 DEF HistoryInv

LEMMA LookupHitKeepsInv ==
    ASSUME HistoryInv, NEW k \in Keys, LookupHit(k)
    PROVE  HistoryInv'
<1>1. CacheInv' /\ RecencyOrder'
  BY GetHitKeepsInv, MoveToFrontKeepsRecency DEF HistoryInv, LookupHit, GetHit
<1>2. k \in DOMAIN latest
  BY DEF HistoryInv, LookupHit, GetHit, Agrees, Stored, Cached
<1>3. HistoryTypeOK'
  <2>1. entries[k].body \in Bodies
    BY DEF HistoryInv, CacheInv, CacheTypeOK, Entry, LookupHit, GetHit, Cached
  <2>2. /\ DOMAIN crowd' = DOMAIN crowd \cup {k}
        /\ crowd' \in [DOMAIN crowd' -> {C \in SUBSET Keys : IsFiniteSet(C)}]
    BY UseFacts DEF HistoryInv, LookupHit
  <2> QED BY <1>2, <2>1, <2>2 DEF HistoryInv, LookupHit, HistoryTypeOK
<1>4. Agrees'
  BY DEF HistoryInv, LookupHit, GetHit, Agrees, Stored
<1>5. RetainsRecent'
  <2> SUFFICES ASSUME NEW j \in DOMAIN latest, clock <= latest[j].expires, j \notin DOMAIN entries
               PROVE  Cardinality(crowd'[j]) >= MaxSize
    BY DEF RetainsRecent, LookupHit, GetHit, Cached
  <2>1. j # k /\ j \in DOMAIN crowd
    BY DEF HistoryInv, HistoryTypeOK, LookupHit, GetHit, Cached
  <2>2. Cardinality(crowd[j]) >= MaxSize
    BY DEF HistoryInv, RetainsRecent, Cached
  <2>3. Cardinality(crowd[j]) \in Nat
    BY <2>1, FS_CardinalityType DEF HistoryInv, HistoryTypeOK
  <2>4. Cardinality(crowd'[j]) >= MaxSize \/ Cardinality(crowd[j]) < MaxSize
    BY <2>1, UseFacts DEF HistoryInv, LookupHit
  <2> QED BY <2>2, <2>3, <2>4, SizeAssumption
<1> QED BY <1>1, <1>3, <1>4, <1>5 DEF HistoryInv

LEMMA StoreKeepsInv ==
    ASSUME HistoryInv, NEW k \in Keys, NEW b \in Bodies, Store(k, b)
    PROVE  HistoryInv'
<1>1. CacheInv'
  BY SetExistingKeepsInv, SetNewKeepsInv DEF HistoryInv, Store, Set
<1>2. RecencyOrder'
  BY MoveToFrontKeepsRecency, SetNewKeepsRecency DEF HistoryInv, Store, Set, SetExisting
<1>3. NewEntry(b) \in Entry
  BY TTLAssumption DEF NewEntry, Entry, HistoryInv, CacheInv, CacheTypeOK
<1>4. /\ DOMAIN crowd' = DOMAIN crowd \cup {k}
      /\ crowd' \in [DOMAIN crowd' -> {C \in SUBSET Keys : IsFiniteSet(C)}]
  BY UseFacts DEF HistoryInv, Store
<1>5. HistoryTypeOK'
  BY <1>3, <1>4 DEF HistoryInv, Store, HistoryTypeOK
<1>6. /\ k \in DOMAIN entries'
      /\ entries'[k] = NewEntry(b)
      /\ \A j \in DOMAIN entries' \ {k} : j \in DOMAIN entries /\ entries'[j] = entries[j]
  BY DEF Store, Set, SetExisting, SetNew, Cached, HistoryInv, CacheInv, CacheTypeOK
<1>7. Agrees'
  BY <1>6 DEF HistoryInv, Store, Agrees, Stored
<1>8. RetainsRecent'
  <2> SUFFICES ASSUME NEW j \in DOMAIN latest',
                      clock <= latest'[j].expires, j \notin DOMAIN entries'
               PROVE  Cardinality(crowd'[j]) >= MaxSize
    BY DEF RetainsRecent, Store, Set, SetExisting, SetNew, Cached
  <2>1. /\ j # k
        /\ j \in DOMAIN latest
        /\ j \in DOMAIN crowd
        /\ latest'[j] = latest[j]
    BY <1>6 DEF HistoryInv, HistoryTypeOK, Store
  <2>2. CASE j \in DOMAIN entries
    <3>1. ~Cached(k) /\ j \in Evicted
      BY <2>1, <2>2 DEF Store, Set, SetExisting, SetNew
    <3> QED BY <3>1, EvictedIsOvertaken DEF HistoryInv, Store
  <2>3. CASE j \notin DOMAIN entries
    <3>1. Cardinality(crowd[j]) >= MaxSize
      BY <2>1, <2>3 DEF HistoryInv, RetainsRecent, Cached
    <3>2. Cardinality(crowd[j]) \in Nat
      BY <2>1, FS_CardinalityType DEF HistoryInv, HistoryTypeOK
    <3>3. Cardinality(crowd'[j]) >= MaxSize \/ Cardinality(crowd[j]) < MaxSize
      BY <2>1, UseFacts DEF HistoryInv, Store
    <3> QED BY <3>1, <3>2, <3>3, SizeAssumption
  <2> QED BY <2>2, <2>3
<1> QED BY <1>1, <1>2, <1>5, <1>7, <1>8 DEF HistoryInv

LEMMA WaitKeepsInv ==
    ASSUME HistoryInv, Wait
    PROVE  HistoryInv'
<1>1. CacheInv'
  BY DEF HistoryInv, Wait, Tick, CacheInv, CacheTypeOK, Coherent, Listed, NoDuplicates,
         WithinCapacity
<1>2. HistoryTypeOK' /\ Agrees' /\ RecencyOrder'
  BY DEF HistoryInv, Wait, Tick, HistoryTypeOK, Agrees, Stored, RecencyOrder, InFront
<1>3. RetainsRecent'
  <2> SUFFICES ASSUME NEW j \in DOMAIN latest, clock + 1 <= latest[j].expires, ~Cached(j)
               PROVE  Cardinality(crowd[j]) >= MaxSize
    BY DEF RetainsRecent, Wait, Tick, Cached
  <2>1. clock <= latest[j].expires
    BY DEF HistoryInv, CacheInv, CacheTypeOK, HistoryTypeOK, Entry
  <2> QED BY <2>1 DEF HistoryInv, RetainsRecent
<1> QED BY <1>1, <1>2, <1>3 DEF HistoryInv

\* An empty cache that remembers nothing satisfies the invariant.
LEMMA EmptyIsCorrect ==
    ASSUME clock \in Nat, entries = NoEntries, order = <<>>,
           latest = NoEntries, crowd = NoEntries, reply = Abstract!NoReply
    PROVE  HistoryInv
<1>1. order = <<>> /\ Len(order) = 0 /\ DOMAIN order = {} /\ order \in Seq(Keys)
  OBVIOUS
<1>2. CacheInv
  BY <1>1, SizeAssumption DEF CacheInv, CacheTypeOK, Coherent, Listed, NoDuplicates,
                              WithinCapacity, NoEntries
<1>3. HistoryTypeOK /\ Agrees /\ RecencyOrder /\ RetainsRecent
  BY <1>1 DEF HistoryTypeOK, Agrees, RecencyOrder, RetainsRecent, NoEntries
<1> QED BY <1>2, <1>3 DEF HistoryInv

LEMMA HistoryInitInv == Init => HistoryInv
BY EmptyIsCorrect DEF Init, CacheInit

LEMMA HistoryNextInv == HistoryInv /\ [Next]_vars => HistoryInv'
<1> SUFFICES ASSUME HistoryInv, [Next]_vars PROVE HistoryInv'
  OBVIOUS
<1>1. ASSUME UNCHANGED <<clock, entries, order, latest, crowd>>, HistoryTypeOK'
      PROVE  HistoryInv'
  BY <1>1 DEF HistoryInv, CacheInv, CacheTypeOK, Coherent, Listed, NoDuplicates, WithinCapacity,
              Agrees, Stored, RecencyOrder, InFront, RetainsRecent, Cached
<1>2. ASSUME NEW k \in Keys, LookupAbsent(k) PROVE HistoryInv'
  BY <1>1, <1>2 DEF LookupAbsent, GetAbsent, cacheVars, HistoryInv, HistoryTypeOK
<1>3. ASSUME NEW k \in Keys, LookupExpired(k) PROVE HistoryInv'
  BY <1>3, LookupExpiredKeepsInv
<1>4. ASSUME NEW k \in Keys, LookupHit(k) PROVE HistoryInv'
  BY <1>4, LookupHitKeepsInv
<1>5. ASSUME NEW k \in Keys, NEW b \in Bodies, Store(k, b) PROVE HistoryInv'
  BY <1>5, StoreKeepsInv
<1>6. ASSUME Wait PROVE HistoryInv'
  BY <1>6, WaitKeepsInv
<1>7. ASSUME Replace PROVE HistoryInv'
  <2>1. /\ clock' \in Nat /\ entries' = NoEntries /\ order' = <<>>
        /\ latest' = NoEntries /\ crowd' = NoEntries /\ reply' = Abstract!NoReply
    BY <1>7 DEF Replace, Restart, HistoryInv, CacheInv, CacheTypeOK
  <2>2. order' = <<>> /\ Len(order') = 0 /\ DOMAIN order' = {} /\ order' \in Seq(Keys)
    BY <2>1
  <2>3. CacheInv'
    BY <2>1, <2>2, SizeAssumption DEF CacheInv, CacheTypeOK, Coherent, Listed, NoDuplicates,
                                      WithinCapacity, NoEntries
  <2>4. HistoryTypeOK' /\ Agrees' /\ RecencyOrder' /\ RetainsRecent'
    BY <2>1, <2>2 DEF HistoryTypeOK, Agrees, RecencyOrder, RetainsRecent, NoEntries
  <2> QED BY <2>3, <2>4 DEF HistoryInv
<1>8. CASE UNCHANGED vars
  BY <1>1, <1>8 DEF vars, HistoryInv, HistoryTypeOK
<1> QED BY <1>2, <1>3, <1>4, <1>5, <1>6, <1>7, <1>8 DEF Next

LEMMA HistoryInvariant == Spec => []HistoryInv
BY HistoryInitInv, HistoryNextInv, PTL DEF Spec

(***************************************************************************)
(* Theorem: the cache evicts only what was not used recently.              *)
(***************************************************************************)
THEOREM CacheRetainsRecent == Spec => []RetainsRecent
BY HistoryInvariant, PTL DEF HistoryInv

\* What the callers remember of the cache has its types.
THEOREM HistoryTypeCorrect == Spec => []HistoryTypeOK
BY HistoryInvariant, PTL DEF HistoryInv

\* What the cache holds is what was Set last under its key (cache.go:71-93).
THEOREM CacheHoldsTheLatest == Spec => []Agrees
BY HistoryInvariant, PTL DEF HistoryInv

\* The list is in order of last use (cache.go:63, 75, 80).
THEOREM ListIsByRecency == Spec => []RecencyOrder
BY HistoryInvariant, PTL DEF HistoryInv

(***************************************************************************)
(* Theorem: the cache implements the expiring store.                       *)
(***************************************************************************)
LEMMA StepImplementsStore ==
    ASSUME HistoryInv, [Next]_vars
    PROVE  [Abstract!Next]_(Abstract!storeVars)
<1>1. ASSUME NEW k \in Keys, LookupAbsent(k) \/ LookupExpired(k)
      PROVE  Abstract!LookupMiss(k)
  BY <1>1 DEF LookupAbsent, LookupExpired, GetAbsent, GetExpired, cacheVars, Abstract!LookupMiss
<1>2. ASSUME NEW k \in Keys, LookupHit(k)
      PROVE  Abstract!LookupHit(k)
  <2>1. k \in DOMAIN latest /\ entries[k] = latest[k]
    BY <1>2 DEF LookupHit, GetHit, Cached, HistoryInv, Agrees, Stored
  <2>2. clock \in Nat /\ latest[k].expires \in Nat
    BY <2>1 DEF HistoryInv, CacheInv, CacheTypeOK, HistoryTypeOK, Entry
  <2>3. clock <= latest[k].expires
    BY <1>2, <2>1, <2>2 DEF LookupHit, GetHit, Expired
  <2> QED BY <1>2, <2>1, <2>3 DEF LookupHit, GetHit, Abstract!LookupHit
<1>3. ASSUME NEW k \in Keys, NEW b \in Bodies, Store(k, b)
      PROVE  Abstract!Store(k, b)
  BY <1>3 DEF Store, Set, SetExisting, SetNew, NewEntry, Abstract!Store
<1>4. ASSUME Wait PROVE Abstract!Advance
  BY <1>4 DEF Wait, Tick, Abstract!Advance
<1>5. ASSUME Replace PROVE Abstract!Wipe
  BY <1>5 DEF Replace, Restart, NoEntries, Abstract!Wipe
<1>6. CASE UNCHANGED vars
  BY <1>6 DEF vars, Abstract!storeVars
<1> QED BY <1>1, <1>2, <1>3, <1>4, <1>5, <1>6 DEF Next, Abstract!Next

THEOREM CacheImplementsStore == Spec => ImplementsStore
<1>1. Init => Abstract!Init
  BY DEF Init, CacheInit, NoEntries, Abstract!Init
<1>2. HistoryInv /\ [Next]_vars => [Abstract!Next]_(Abstract!storeVars)
  BY StepImplementsStore
<1> QED BY <1>1, <1>2, HistoryInvariant, PTL DEF Spec, ImplementsStore, Abstract!Spec

=============================================================================
