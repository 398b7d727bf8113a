----------------------- MODULE DatastoreCounterProofs -----------------------
(***************************************************************************)
(* Proofs about DatastoreCounter for any number of processes, counters and *)
(* keys, any bounds, and any sizes of the groups that are condensed.       *)
(***************************************************************************)
EXTENDS DatastoreCounter, FiniteSetTheorems, WellFoundedInduction, TLAPS

-----------------------------------------------------------------------------
(* Induction, for sets instead of predicates.                              *)

\* A set of naturals that is not empty has a least element.
LEMMA LeastNatural ==
    ASSUME NEW T, T \subseteq Nat, T # {}
    PROVE  \E x \in T : \A y \in T : x <= y
<1> DEFINE R == OpToRel(<, Nat)
<1>1. IsWellFoundedOn(R, Nat)
    BY NatLessThanWellFounded
<1>2. PICK x \in T : \A y \in T : ~(<<y, x>> \in R)
  <2> HIDE DEF R
  <2> QED  BY <1>1, WFMin
<1>3. \A y \in T : ~(y < x)
    BY <1>2 DEF OpToRel
<1> QED  BY <1>3

LEMMA NaturalsInSet ==
    ASSUME NEW S, 0 \in S, \A n \in Nat : n \in S => n + 1 \in S
    PROVE  Nat \subseteq S
<1> DEFINE T == Nat \ S
<1> SUFFICES ASSUME T # {} PROVE FALSE
    OBVIOUS
<1>1. PICK x \in T : \A y \in T : x <= y
  <2>1. T \subseteq Nat
      OBVIOUS
  <2> HIDE DEF T
  <2> QED  BY <2>1, LeastNatural
<1>2. x \in Nat /\ x # 0 /\ x - 1 \in Nat /\ x - 1 + 1 = x
    OBVIOUS
<1>3. x - 1 \in T
    BY <1>2
<1> QED  BY <1>1, <1>2, <1>3

-----------------------------------------------------------------------------
(* The order of the keys.                                                  *)

\* Every key has one position.
LEMMA Positions ==
    ASSUME NEW key \in Keys
    PROVE  /\ Position(key) \in 1..Len(KeyOrder) /\ KeyOrder[Position(key)] = key
           /\ Position(key) \in Nat
           /\ \A k \in Keys : Position(k) = Position(key) => k = key
           /\ \A i \in 1..Len(KeyOrder) : KeyOrder[i] = key => i = Position(key)
<1>1. \A k \in Keys : Position(k) \in 1..Len(KeyOrder) /\ KeyOrder[Position(k)] = k
    BY OrderAssumption DEF Position
<1>2. Len(KeyOrder) \in Nat
    BY OrderAssumption
<1>3. ASSUME NEW i \in 1..Len(KeyOrder), KeyOrder[i] = key PROVE i = Position(key)
  <2>1. Position(key) \in 1..Len(KeyOrder) /\ KeyOrder[i] = KeyOrder[Position(key)]
      BY <1>1, <1>3
  <2> QED  BY <2>1, OrderAssumption
<1>4. \A k \in Keys : Position(k) = Position(key) => k = key
    BY <1>1
<1>5. Position(key) \in Nat
    BY <1>1, <1>2
<1> QED  BY <1>1, <1>3, <1>4, <1>5

\* A set of keys that is not empty has a first one.
LEMMA FirstIsFirst ==
    ASSUME NEW S \in SUBSET Keys, S # {}
    PROVE  First(S) \in S /\ \A k \in S : Position(First(S)) <= Position(k)
<1> DEFINE T == {Position(k) : k \in S}
<1>1. T \subseteq Nat /\ T # {}
    BY Positions
<1>2. PICK x \in T : \A y \in T : x <= y
  <2> HIDE DEF T
  <2> QED  BY <1>1, LeastNatural
<1>3. \E key \in S : \A k \in S : Position(key) <= Position(k)
    BY <1>2
<1> QED  BY <1>3 DEF First

-----------------------------------------------------------------------------
(* Sums over the keys.                                                     *)

Counts == [Keys -> Nat]

LEMMA SumsOf ==
    ASSUME NEW f \in Counts
    PROVE  /\ Sums(f) \in [0..Len(KeyOrder) -> Nat]
           /\ Sums(f)[0] = 0
           /\ \A n \in 1..Len(KeyOrder) : Sums(f)[n] = Sums(f)[n - 1] + f[KeyOrder[n]]
<1> DEFINE N == Len(KeyOrder)
<1>n. N \in Nat /\ \A n \in 1..N : f[KeyOrder[n]] \in Nat
    BY OrderAssumption DEF Counts
<1> DEFINE v(n) == f[KeyOrder[n]]
           IsSums(h, m) == /\ h \in [0..m -> Nat]
                           /\ h[0] = 0
                           /\ \A n \in 1..m : h[n] = h[n - 1] + v(n)
           S == {m \in Nat : m <= N => \E h : IsSums(h, m)}
<1>v. \A n \in 1..N : v(n) \in Nat
    BY <1>n
<1> HIDE DEF N, v
<1>1. Nat \subseteq S
  <2>1. 0 \in S
    <3>1. IsSums([n \in 0..0 |-> 0], 0)
        OBVIOUS
    <3> QED  BY <3>1
  <2>2. ASSUME NEW m \in Nat, m \in S PROVE m + 1 \in S
    <3> SUFFICES ASSUME m + 1 <= N PROVE \E h : IsSums(h, m + 1)
        OBVIOUS
    <3>1. PICK h : IsSums(h, m)
        BY <1>n, <2>2
    <3> DEFINE g == [n \in 0..(m + 1) |-> IF n <= m THEN h[n] ELSE h[m] + v(m + 1)]
    <3>2. v(m + 1) \in Nat /\ h[m] \in Nat
        BY <1>n, <1>v, <3>1
    <3>3. g \in [0..(m + 1) -> Nat] /\ g[0] = 0
        BY <3>1, <3>2
    <3>4. ASSUME NEW n \in 1..(m + 1) PROVE g[n] = g[n - 1] + v(n)
      <4>1. CASE n <= m
          BY <3>1, <4>1
      <4>2. CASE n = m + 1
          BY <3>1, <4>2
      <4> QED  BY <4>1, <4>2
    <3>5. IsSums(g, m + 1)
      <4> HIDE DEF g
      <4> QED  BY <3>3, <3>4
    <3> QED  BY <3>5
  <2> HIDE DEF S
  <2> QED  BY <2>1, <2>2, NaturalsInSet
<1>2. PICK h : IsSums(h, N)
  <2>1. N \in S
      BY <1>1, <1>n
  <2>2. N <= N => \E h : IsSums(h, N)
      BY <2>1
  <2> QED  BY <2>2, <1>n
<1>3. h = [n \in 0..N |-> IF n = 0 THEN 0 ELSE h[n - 1] + v(n)]
    BY <1>2, <1>n
<1>4. Sums(f) = [n \in 0..N |-> IF n = 0 THEN 0 ELSE Sums(f)[n - 1] + v(n)]
    BY <1>3 DEF Sums, N, v
<1>5. Sums(f)[0] = 0 /\ \A n \in 1..N : Sums(f)[n] = Sums(f)[n - 1] + v(n)
    BY <1>4, <1>n
<1>6. \A n \in Nat : n <= N => Sums(f)[n] \in Nat
  <2> DEFINE T == {n \in Nat : n <= N => Sums(f)[n] \in Nat}
  <2>1. 0 \in T
      BY <1>5
  <2>2. ASSUME NEW n \in Nat, n \in T PROVE n + 1 \in T
    <3>1. n + 1 <= N => n + 1 \in 1..N /\ v(n + 1) \in Nat /\ n + 1 - 1 = n
        BY <1>n, <1>v
    <3> QED  BY <1>5, <1>n, <2>2, <3>1
  <2> HIDE DEF T
  <2>3. Nat \subseteq T
      BY <2>1, <2>2, NaturalsInSet
  <2> QED  BY <2>3 DEF T
<1>7. Sums(f) \in [0..N -> Nat]
    BY <1>4, <1>6, <1>n
<1> QED  BY <1>5, <1>7 DEF N, v

\* What holds of the empty sum and of each next one holds of all.
LEMMA SumsInduction ==
    ASSUME NEW S, 0 \in S, 
           \A n \in 1..Len(KeyOrder) : n - 1 \in S => n \in S
    PROVE  0..Len(KeyOrder) \subseteq S
<1> DEFINE N == Len(KeyOrder)
           T == {n \in Nat : n <= N => n \in S}
<1>n. N \in Nat
    BY OrderAssumption
<1>1. 0 \in T
    OBVIOUS
<1>2. ASSUME NEW n \in Nat, n \in T PROVE n + 1 \in T
  <2>1. n + 1 <= N => n \in S
      BY <1>2, <1>n
  <2>2. n + 1 <= N => n + 1 \in 1..N /\ n + 1 - 1 = n
      BY <1>n
  <2> QED  BY <2>1, <2>2
<1>3. Nat \subseteq T
  <2> HIDE DEF T
  <2> QED  BY <1>1, <1>2, NaturalsInSet
<1> QED  BY <1>3, <1>n

LEMMA SumType ==
    ASSUME NEW f \in Counts
    PROVE  Sum(f) \in Nat
<1>1. Len(KeyOrder) \in Nat
    BY OrderAssumption
<1> QED  BY <1>1, SumsOf DEF Sum

\* The sum of sums.
LEMMA SumPlus ==
    ASSUME NEW f \in Counts, NEW g \in Counts, NEW h \in Counts,
           \A key \in Keys : h[key] = f[key] + g[key]
    PROVE  Sum(h) = Sum(f) + Sum(g)
<1> DEFINE N == Len(KeyOrder)
           S == {n \in 0..N : Sums(h)[n] = Sums(f)[n] + Sums(g)[n]}
<1>n. N \in Nat /\ \A n \in 1..N : KeyOrder[n] \in Keys
    BY OrderAssumption
<1>1. 0 \in S
    BY SumsOf, <1>n
<1>2. ASSUME NEW n \in 1..N, n - 1 \in S PROVE n \in S
  <2>1. n \in 0..N /\ n - 1 \in 0..N
      BY <1>n
  <2>2. h[KeyOrder[n]] = f[KeyOrder[n]] + g[KeyOrder[n]]
      BY <1>n
  <2>3. f[KeyOrder[n]] \in Nat /\ g[KeyOrder[n]] \in Nat
      BY <1>n DEF Counts
  <2>4. Sums(f)[n - 1] \in Nat /\ Sums(g)[n - 1] \in Nat
      BY SumsOf, <2>1
  <2>5. /\ Sums(f)[n] = Sums(f)[n - 1] + f[KeyOrder[n]]
        /\ Sums(g)[n] = Sums(g)[n - 1] + g[KeyOrder[n]]
        /\ Sums(h)[n] = Sums(h)[n - 1] + h[KeyOrder[n]]
      BY SumsOf
  <2>6. Sums(h)[n - 1] = Sums(f)[n - 1] + Sums(g)[n - 1]
      BY <1>2
  <2> QED  BY <2>1, <2>2, <2>3, <2>4, <2>5, <2>6
<1>3. 0..N \subseteq S
  <2> HIDE DEF S
  <2> QED  BY <1>1, <1>2, SumsInduction
<1>4. N \in S
    BY <1>3, <1>n
<1> QED  BY <1>4 DEF Sum

LEMMA SumMono ==
    ASSUME NEW f \in Counts, NEW g \in Counts,
           \A key \in Keys : f[key] <= g[key]
    PROVE  Sum(f) <= Sum(g)
<1> DEFINE d == [key \in Keys |-> g[key] - f[key]]
<1>1. d \in Counts /\ \A key \in Keys : g[key] = f[key] + d[key]
    BY DEF Counts
<1>2. Sum(g) = Sum(f) + Sum(d)
  <2> HIDE DEF d
  <2> QED  BY <1>1, SumPlus
<1>3. Sum(d) \in Nat /\ Sum(f) \in Nat
  <2> HIDE DEF d
  <2> QED  BY <1>1, SumType
<1> QED  BY <1>2, <1>3

\* The sum of one count.
LEMMA SumSingle ==
    ASSUME NEW f \in Counts, NEW one \in Keys,
           \A key \in Keys : key # one => f[key] = 0
    PROVE  Sum(f) = f[one]
<1> DEFINE N == Len(KeyOrder)
           S == {n \in 0..N : Sums(f)[n] = IF n < Position(one) THEN 0 ELSE f[one]}
<1>n. N \in Nat /\ Position(one) \in 1..N /\ f[one] \in Nat
    BY OrderAssumption, Positions DEF Counts
<1>1. 0 \in S
    BY SumsOf, <1>n
<1>2. ASSUME NEW n \in 1..N, n - 1 \in S PROVE n \in S
  <2>1. n \in 0..N /\ n - 1 \in 0..N
      BY <1>n
  <2>2. Sums(f)[n] = Sums(f)[n - 1] + f[KeyOrder[n]]
      BY SumsOf
  <2>3. Sums(f)[n - 1] = IF n - 1 < Position(one) THEN 0 ELSE f[one]
      BY <1>2
  <2>4. CASE n = Position(one)
    <3>1. KeyOrder[n] = one
        BY <2>4, Positions
    <3> QED  BY <2>1, <2>2, <2>3, <2>4, <3>1, <1>n
  <2>5. CASE n # Position(one)
    <3>1. KeyOrder[n] \in Keys /\ KeyOrder[n] # one
      <4>1. KeyOrder[n] \in Keys
          BY OrderAssumption
      <4>2. KeyOrder[n] = one => n = Position(one)
          BY Positions
      <4> QED  BY <2>5, <4>1, <4>2
    <3>2. f[KeyOrder[n]] = 0
        BY <3>1
    <3> QED  BY <2>1, <2>2, <2>3, <2>5, <3>2, <1>n
  <2> QED  BY <2>4, <2>5
<1>3. 0..N \subseteq S
  <2> HIDE DEF S
  <2> QED  BY <1>1, <1>2, SumsInduction
<1>4. N \in S /\ ~(N < Position(one))
    BY <1>3, <1>n
<1> QED  BY <1>4 DEF Sum

-----------------------------------------------------------------------------
(* The groups that are condensed.                                          *)

LEMMA KeysAreFinite ==
    /\ IsFiniteSet(Keys)
    /\ \A S \in SUBSET Keys : IsFiniteSet(S) /\ Cardinality(S) \in Nat
<1>1. Len(KeyOrder) \in Nat /\ KeyOrder \in [1..Len(KeyOrder) -> Keys]
    BY OrderAssumption
<1>2. KeyOrder \in Surjection(1..Len(KeyOrder), Keys)
    BY <1>1, OrderAssumption DEF Surjection
<1>3. IsFiniteSet(1..Len(KeyOrder))
    BY <1>1, FS_Interval
<1>4. IsFiniteSet(Keys)
    BY <1>2, <1>3, FS_Surjection
<1>5. ASSUME NEW S \in SUBSET Keys PROVE IsFiniteSet(S) /\ Cardinality(S) \in Nat
  <2>1. IsFiniteSet(S)
      BY <1>4, FS_Subset
  <2> QED  BY <2>1, FS_CardinalityType
<1> QED  BY <1>4, <1>5

\* Keys of one counter have increasing ranks.
LEMMA RanksIncrease ==
    ASSUME NEW S \in SUBSET Keys, NEW k \in S, NEW l \in S,
           IdOf(k) = IdOf(l), Position(k) < Position(l)
    PROVE  Rank(S, k) \in Nat /\ Rank(S, l) \in Nat /\ Rank(S, k) < Rank(S, l)
<1> DEFINE Before(key) ==
      {j \in S : IdOf(j) = IdOf(key) /\ Position(j) < Position(key)}
<1>1. Position(k) \in Nat /\ Position(l) \in Nat /\ \A j \in S : Position(j) \in Nat
    BY Positions
<1>2. Before(k) \subseteq Before(l) \ {k} /\ k \in Before(l)
    BY <1>1
<1>3. Before(k) \in SUBSET Keys /\ Before(l) \in SUBSET Keys
    BY <1>1
<1>4. Rank(S, k) = Cardinality(Before(k)) /\ Rank(S, l) = Cardinality(Before(l))
    BY DEF Rank
<1> HIDE DEF Before
<1>5. IsFiniteSet(Before(l)) /\ Cardinality(Before(l)) \in Nat /\ Cardinality(Before(k)) \in Nat
    BY <1>3, KeysAreFinite
<1>6. /\ IsFiniteSet(Before(l) \ {k})
      /\ Cardinality(Before(l) \ {k}) = Cardinality(Before(l)) - 1
    BY <1>2, <1>5, FS_RemoveElement
<1>7. Cardinality(Before(k)) <= Cardinality(Before(l) \ {k})
    BY <1>2, <1>6, FS_Subset
<1> QED  BY <1>4, <1>5, <1>6, <1>7

LEMMA Quotients ==
    ASSUME NEW r \in Nat, NEW d \in Nat \ {0}
    PROVE  /\ r \div d \in Nat
           /\ r \in (r \div d) * d .. (r \div d) * d + d - 1
OBVIOUS

\* A group has at least two and at most GroupSize keys of one counter.
LEMMA GroupsAreSound ==
    ASSUME NEW S \in SUBSET Keys, NEW G \in Groups(S)
    PROVE  /\ G \in SUBSET Keys
           /\ Cardinality(G) \in 2..GroupSize
           /\ \A k, l \in G : IdOf(k) = IdOf(l)
<1>1. PICK key \in S : G = GroupOf(S, key)
    BY DEF Groups
<1>2. Cardinality(G) > 1
    BY DEF Groups, IsGroup
<1>3. /\ G \subseteq S
      /\ \A k \in G : /\ IdOf(k) = IdOf(key)
                     /\ Rank(S, k) \div GroupSize = Rank(S, key) \div GroupSize
    BY <1>1 DEF GroupOf
<1> DEFINE q == Rank(S, key) \div GroupSize
           rank == [k \in G |-> Rank(S, k)]
           Ranks == q * GroupSize .. q * GroupSize + GroupSize - 1
<1>4. \A k \in S : Rank(S, k) \in Nat
  <2> SUFFICES ASSUME NEW k \in S PROVE Rank(S, k) \in Nat
      OBVIOUS
  <2>1. {j \in S : IdOf(j) = IdOf(k) /\ Position(j) < Position(k)} \in SUBSET Keys
      OBVIOUS
  <2> QED  BY <2>1, KeysAreFinite DEF Rank
<1>5. rank \in [G -> Ranks]
    BY <1>3, <1>4, Quotients, CounterAssumption
<1>6. \A k, l \in G : rank[k] = rank[l] => k = l
  <2> SUFFICES ASSUME NEW k \in G, NEW l \in G, k # l PROVE rank[k] # rank[l]
      OBVIOUS
  <2>1. k \in S /\ l \in S /\ IdOf(k) = IdOf(l) /\ k \in Keys /\ l \in Keys
      BY <1>3
  <2>2. Position(k) \in Nat /\ Position(l) \in Nat /\ Position(k) # Position(l)
      BY <2>1, Positions
  <2>3. CASE Position(k) < Position(l)
      BY <2>1, <2>3, RanksIncrease
  <2>4. CASE Position(l) < Position(k)
      BY <2>1, <2>4, RanksIncrease
  <2> QED  BY <2>2, <2>3, <2>4
<1>7. rank \in Injection(G, Ranks)
    BY <1>5, <1>6 DEF Injection, IsInjective
<1>8. q \in Nat /\ GroupSize \in Nat \ {0} /\ q * GroupSize \in Nat
  <2>1. q \in Nat /\ GroupSize \in Nat \ {0}
      BY <1>1, <1>4, Quotients, CounterAssumption
  <2> HIDE DEF q
  <2> QED  BY <2>1
<1>9. IsFiniteSet(Ranks) /\ Cardinality(Ranks) = GroupSize
  <2> HIDE DEF q
  <2>1. q * GroupSize \in Int /\ q * GroupSize + GroupSize - 1 \in Int
      BY <1>8
  <2>2. ~(q * GroupSize > q * GroupSize + GroupSize - 1)
      BY <1>8
  <2>3. (q * GroupSize + GroupSize - 1) - q * GroupSize + 1 = GroupSize
      BY <1>8
  <2> QED  BY <2>1, <2>2, <2>3, FS_Interval
<1>10. Cardinality(G) <= GroupSize
  <2> HIDE DEF rank, Ranks
  <2> QED  BY <1>7, <1>9, FS_Injection
<1>11. G \in SUBSET Keys
    BY <1>3
<1>12. Cardinality(G) \in Nat
    BY <1>11, KeysAreFinite
<1> QED  BY <1>2, <1>3, <1>8, <1>10, <1>11, <1>12

-----------------------------------------------------------------------------
(* What a reader that has come to position at still has ahead of it, and   *)
(* what becomes of it when keys are condensed, saved or read.              *)

Entities == [Keys -> Entity \cup {NoEntity}]

Ahead(f, id, at) ==
    [key \in Keys |->
       IF IdOf(key) = id /\ f[key] # NoEntity /\ Position(key) > at
       THEN f[key].count ELSE 0]

CountsIn(f, S) == [key \in Keys |-> IF key \in S THEN f[key].count ELSE 0]

CountsOf(w, id) == [key \in Keys |-> IF key \in KeysOf(id) THEN w[key] ELSE 0]

LEMMA EntityCounts ==
    ASSUME NEW f \in Entities
    PROVE  \A key \in Keys : f[key] # NoEntity => f[key].count \in Nat
BY DEF Entities, Entity

LEMMA AheadCounts ==
    ASSUME NEW f \in Entities, NEW id, NEW at
    PROVE  Ahead(f, id, at) \in Counts
BY EntityCounts DEF Ahead, Counts

LEMMA CountsInCounts ==
    ASSUME NEW f \in Entities, NEW S, \A key \in S : f[key] # NoEntity
    PROVE  CountsIn(f, S) \in Counts
BY EntityCounts DEF CountsIn, Counts

LEMMA WrittenCounts ==
    ASSUME NEW w \in Counts, NEW id
    PROVE  CountsOf(w, id) \in Counts
BY DEF CountsOf, Counts

\* The keys G of a counter are condensed: those before the reader stay
\* before it, and nothing is lost as long as the first is ahead of it.
LEMMA CondensingMoves ==
    ASSUME NEW f \in Entities, NEW g \in Entities, NEW G \in SUBSET Keys, G # {},
           \A key \in G : f[key] # NoEntity,
           \A k, l \in G : IdOf(k) = IdOf(l),
           \A key \in Keys \ G : g[key] = f[key],
           \A key \in G \ {First(G)} : g[key] = NoEntity,
           g[First(G)] # NoEntity,
           g[First(G)].count = Sum(CountsIn(f, G)),
           NEW id, NEW at \in Nat
    PROVE  /\ Sum(Ahead(g, id, at)) <= Sum(Ahead(f, id, at))
           /\ at = 0 => Sum(Ahead(g, id, at)) = Sum(Ahead(f, id, at))
<1> DEFINE F == First(G)
<1>1. F \in G /\ F \in Keys /\ \A k \in G : Position(F) <= Position(k)
    BY FirstIsFirst
<1>2. /\ Ahead(f, id, at) \in Counts /\ Ahead(g, id, at) \in Counts
      /\ Sum(Ahead(f, id, at)) \in Nat /\ Sum(Ahead(g, id, at)) \in Nat
    BY AheadCounts, SumType
<1>3. \A k \in Keys : Position(k) \in Nat /\ Position(k) > 0
    BY Positions, OrderAssumption
<1>4. CASE IdOf(F) # id
  <2>1. \A k \in G : IdOf(k) # id
      BY <1>1, <1>4
  <2>2. Ahead(g, id, at) = Ahead(f, id, at)
      BY <2>1 DEF Ahead
  <2> QED  BY <1>2, <2>2
<1>5. CASE IdOf(F) = id /\ Position(F) <= at
  <2>1. \A k \in Keys : Ahead(g, id, at)[k] <= Ahead(f, id, at)[k]
    <3> SUFFICES ASSUME NEW k \in Keys
                 PROVE  Ahead(g, id, at)[k] <= Ahead(f, id, at)[k]
        OBVIOUS
    <3>1. Ahead(f, id, at)[k] \in Nat
        BY <1>2 DEF Counts
    <3>2. CASE k \notin G
      <4>1. Ahead(g, id, at)[k] = Ahead(f, id, at)[k]
          BY <3>2 DEF Ahead
      <4> QED  BY <3>1, <4>1
    <3>3. CASE k \in G /\ k # F
      <4>1. Ahead(g, id, at)[k] = 0
          BY <3>3 DEF Ahead
      <4> QED  BY <3>1, <4>1
    <3>4. CASE k = F
      <4>1. ~(Position(k) > at)
          BY <1>3, <1>5, <3>4
      <4>2. Ahead(g, id, at)[k] = 0
          BY <4>1 DEF Ahead
      <4> QED  BY <3>1, <4>2
    <3> QED  BY <3>2, <3>3, <3>4
  <2>2. Sum(Ahead(g, id, at)) <= Sum(Ahead(f, id, at))
      BY <1>2, <2>1, SumMono
  <2>3. at # 0
      BY <1>1, <1>3, <1>5
  <2> QED  BY <2>2, <2>3
<1>6. CASE IdOf(F) = id /\ Position(F) > at
  <2> DEFINE rest == [key \in Keys |-> IF key \in G THEN 0 ELSE Ahead(f, id, at)[key]]
             one == [key \in Keys |-> IF key = F THEN g[F].count ELSE 0]
             old == CountsIn(f, G)
  <2>1. \A k \in G : IdOf(k) = id /\ Position(k) > at /\ f[k] # NoEntity
      BY <1>1, <1>3, <1>6
  <2>2. /\ old \in Counts /\ Sum(old) \in Nat
        /\ rest \in Counts
        /\ one \in Counts
    <3>1. old \in Counts
        BY <2>1, CountsInCounts
    <3>2. Sum(old) \in Nat
        BY <3>1, SumType
    <3>3. rest \in Counts
        BY <1>2 DEF Counts
    <3>4. one \in Counts
        BY <3>2 DEF Counts
    <3> QED  BY <3>1, <3>2, <3>3, <3>4
  <2>3. \A k \in Keys : Ahead(f, id, at)[k] = rest[k] + old[k]
    <3> SUFFICES ASSUME NEW k \in Keys
                 PROVE  Ahead(f, id, at)[k] = rest[k] + old[k]
        OBVIOUS
    <3>1. Ahead(f, id, at)[k] \in Nat
        BY <1>2 DEF Counts
    <3>2. CASE k \in G
      <4>1. Ahead(f, id, at)[k] = f[k].count
          BY <2>1, <3>2 DEF Ahead
      <4>2. old[k] = f[k].count /\ rest[k] = 0
          BY <3>2 DEF CountsIn
      <4> QED  BY <3>1, <4>1, <4>2
    <3>3. CASE k \notin G
      <4>1. old[k] = 0 /\ rest[k] = Ahead(f, id, at)[k]
          BY <3>3 DEF CountsIn
      <4> QED  BY <3>1, <4>1
    <3> QED  BY <3>2, <3>3
  <2>4. \A k \in Keys : Ahead(g, id, at)[k] = rest[k] + one[k]
    <3> SUFFICES ASSUME NEW k \in Keys
                 PROVE  Ahead(g, id, at)[k] = rest[k] + one[k]
        OBVIOUS
    <3>1. Ahead(g, id, at)[k] \in Nat
        BY <1>2 DEF Counts
    <3>2. CASE k \notin G
      <4>1. Ahead(g, id, at)[k] = Ahead(f, id, at)[k]
          BY <3>2 DEF Ahead
      <4>2. one[k] = 0 /\ rest[k] = Ahead(f, id, at)[k]
          BY <1>1, <3>2
      <4> QED  BY <3>1, <4>1, <4>2
    <3>3. CASE k \in G /\ k # F
      <4>1. Ahead(g, id, at)[k] = 0
          BY <3>3 DEF Ahead
      <4>2. one[k] = 0 /\ rest[k] = 0
          BY <3>3
      <4> QED  BY <4>1, <4>2
    <3>4. CASE k = F
      <4>1. Ahead(g, id, at)[k] = g[F].count
          BY <1>1, <1>6, <3>4 DEF Ahead
      <4>2. one[k] = g[F].count /\ rest[k] = 0
          BY <1>1, <3>4
      <4> QED  BY <3>1, <4>1, <4>2
    <3> QED  BY <3>2, <3>3, <3>4
  <2>5. Sum(one) = Sum(old)
    <3>1. one \in Counts /\ F \in Keys /\ \A key \in Keys : key # F => one[key] = 0
        BY <1>1, <2>2
    <3>2. one[F] = Sum(old)
        BY <1>1
    <3> HIDE DEF one, old, F
    <3> QED  BY <3>1, <3>2, SumSingle
  <2> HIDE DEF rest, one, old
  <2>6. Sum(Ahead(f, id, at)) = Sum(rest) + Sum(old)
      BY <1>2, <2>2, <2>3, SumPlus
  <2>7. Sum(Ahead(g, id, at)) = Sum(rest) + Sum(one)
      BY <1>2, <2>2, <2>4, SumPlus
  <2> QED  BY <1>2, <2>5, <2>6, <2>7
<1>7. Position(F) \in Nat
    BY <1>1, <1>3
<1> QED  BY <1>4, <1>5, <1>6, <1>7

\* Counts that were never condensed are overwritten by what their processes
\* count now: what is ahead grows by no more than what is written.
LEMMA SavingAdds ==
    ASSUME NEW f \in Entities, NEW g \in Entities, NEW v \in Counts, NEW w \in Counts,
           NEW id, NEW at \in Nat,
           \A key \in KeysOf(id) :
             \/ g[key] = f[key] /\ w[key] = v[key]
             \/ /\ g[key] # NoEntity /\ g[key].count = w[key]
                /\ f[key] = NoEntity => v[key] = 0
                /\ f[key] # NoEntity => v[key] = f[key].count
                /\ v[key] <= w[key]
    PROVE  /\ Sum(Ahead(g, id, at)) + Sum(CountsOf(v, id)) <=
                Sum(Ahead(f, id, at)) + Sum(CountsOf(w, id))
           /\ at = 0 => Sum(Ahead(g, id, at)) + Sum(CountsOf(v, id)) =
                          Sum(Ahead(f, id, at)) + Sum(CountsOf(w, id))
<1> DEFINE af == Ahead(f, id, at)
           ag == Ahead(g, id, at)
           cv == CountsOf(v, id)
           cw == CountsOf(w, id)
           new == [key \in Keys |-> ag[key] + cv[key]]
           old == [key \in Keys |-> af[key] + cw[key]]
<1>1. af \in Counts /\ ag \in Counts /\ cv \in Counts /\ cw \in Counts
    BY AheadCounts, WrittenCounts
<1>2. new \in Counts /\ old \in Counts
  <2> HIDE DEF af, ag, cv, cw
  <2> QED  BY <1>1 DEF Counts
<1>3. ASSUME NEW key \in Keys PROVE new[key] <= old[key] /\ (at = 0 => new[key] = old[key])
  <2>1. af[key] \in Nat /\ ag[key] \in Nat /\ cv[key] \in Nat /\ cw[key] \in Nat
      BY <1>1 DEF Counts
  <2>2. CASE key \notin KeysOf(id)
    <3>1. af[key] = 0 /\ ag[key] = 0 /\ cv[key] = 0 /\ cw[key] = 0
        BY <2>2 DEF Ahead, CountsOf, KeysOf
    <3> QED  BY <3>1
  <2>3. CASE key \in KeysOf(id) /\ g[key] = f[key] /\ w[key] = v[key]
    <3>1. ag[key] = af[key] /\ cw[key] = cv[key]
        BY <2>3 DEF Ahead, CountsOf
    <3> HIDE DEF af, ag, cv, cw
    <3> QED  BY <2>1, <3>1
  <2>4. CASE /\ key \in KeysOf(id)
             /\ g[key] # NoEntity /\ g[key].count = w[key]
             /\ f[key] = NoEntity => v[key] = 0
             /\ f[key] # NoEntity => v[key] = f[key].count
             /\ v[key] <= w[key]
    <3>1. IdOf(key) = id /\ cv[key] = v[key] /\ cw[key] = w[key]
        BY <2>4 DEF CountsOf, KeysOf
    <3>2. CASE Position(key) > at
      <4>1. ag[key] = w[key] /\ af[key] = v[key]
          BY <2>4, <3>1, <3>2 DEF Ahead
      <4> HIDE DEF af, ag, cv, cw
      <4> QED  BY <2>1, <3>1, <4>1
    <3>3. CASE ~(Position(key) > at)
      <4>1. ag[key] = 0 /\ af[key] = 0
          BY <3>3 DEF Ahead
      <4>2. at # 0
          BY <3>3, Positions, OrderAssumption
      <4> HIDE DEF af, ag, cv, cw
      <4> QED  BY <2>1, <2>4, <3>1, <4>1, <4>2
    <3> QED  BY <3>2, <3>3
  <2> QED  BY <2>2, <2>3, <2>4
<1> HIDE DEF af, ag, cv, cw
<1>4. \A key \in Keys : new[key] = ag[key] + cv[key] /\ old[key] = af[key] + cw[key]
    OBVIOUS
<1> HIDE DEF new, old
<1>5. Sum(new) = Sum(ag) + Sum(cv) /\ Sum(old) = Sum(af) + Sum(cw)
    BY <1>1, <1>2, <1>4, SumPlus
<1>6. Sum(new) <= Sum(old)
    BY <1>2, <1>3, SumMono
<1>7. at = 0 => Sum(old) <= Sum(new)
  <2> SUFFICES ASSUME at = 0 PROVE Sum(old) <= Sum(new)
      OBVIOUS
  <2>1. \A key \in Keys : old[key] <= new[key]
      BY <1>2, <1>3 DEF Counts
  <2> QED  BY <1>2, <2>1, SumMono
<1>8. Sum(new) \in Nat /\ Sum(old) \in Nat
    BY <1>2, SumType
<1>9. Sum(new) <= Sum(old) /\ (at = 0 => Sum(new) = Sum(old))
    BY <1>6, <1>7, <1>8
<1> QED  BY <1>5, <1>9 DEF af, ag, cv, cw

\* A reader takes the first of the keys ahead of it.
LEMMA ReadingTakes ==
    ASSUME NEW f \in Entities, NEW id, NEW at \in Nat, NEW G,
           G = {key \in KeysOf(id) : Position(key) > at /\ f[key] # NoEntity}, G # {}
    PROVE  Sum(Ahead(f, id, at)) = f[First(G)].count + Sum(Ahead(f, id, Position(First(G))))
<1> DEFINE F == First(G)
           rest == Ahead(f, id, Position(F))
           one == [key \in Keys |-> IF key = F THEN f[F].count ELSE 0]
<1>1. G \in SUBSET Keys
    BY DEF KeysOf
<1>2. F \in G /\ \A k \in G : Position(F) <= Position(k)
    BY <1>1, FirstIsFirst
<1>3. /\ F \in Keys /\ IdOf(F) = id /\ Position(F) > at /\ f[F] # NoEntity
      /\ f[F].count \in Nat
    BY <1>2, EntityCounts DEF KeysOf
<1>4. rest \in Counts /\ one \in Counts /\ Ahead(f, id, at) \in Counts
  <2>1. one \in Counts
      BY <1>3 DEF Counts
  <2> QED  BY <2>1, AheadCounts
<1>5. ASSUME NEW k \in Keys PROVE Ahead(f, id, at)[k] = rest[k] + one[k]
  <2>1. Ahead(f, id, at)[k] \in Nat /\ rest[k] \in Nat
      BY <1>4 DEF Counts
  <2>2. Position(k) \in Nat /\ Position(F) \in Nat
      BY <1>3, Positions
  <2>3. CASE k = F
    <3>1. Ahead(f, id, at)[k] = f[F].count
        BY <1>3, <2>3 DEF Ahead
    <3>2. rest[k] = 0
      <4>1. ~(Position(k) > Position(F))
          BY <2>2, <2>3
      <4> QED  BY <4>1 DEF Ahead
    <3>3. one[k] = f[F].count
        BY <2>3
    <3> QED  BY <2>1, <3>1, <3>2, <3>3
  <2>4. CASE k # F /\ k \in G
    <3>1. Position(k) # Position(F)
        BY <1>3, <2>4, Positions
    <3>2. Position(k) > Position(F) /\ Position(k) > at
        BY <1>2, <2>2, <2>4, <3>1
    <3>3. rest[k] = Ahead(f, id, at)[k]
        BY <3>2 DEF Ahead
    <3>4. one[k] = 0
        BY <2>4
    <3> QED  BY <2>1, <3>3, <3>4
  <2>5. CASE k # F /\ k \notin G
    <3>1. ~(IdOf(k) = id /\ f[k] # NoEntity /\ Position(k) > at)
        BY <2>5 DEF KeysOf
    <3>2. ~(IdOf(k) = id /\ f[k] # NoEntity /\ Position(k) > Position(F))
        BY <1>3, <2>2, <3>1
    <3>3. rest[k] = 0 /\ Ahead(f, id, at)[k] = 0
        BY <3>1, <3>2 DEF Ahead
    <3>4. one[k] = 0
        BY <2>5
    <3> QED  BY <3>3, <3>4
  <2> QED  BY <2>3, <2>4, <2>5
<1>6. Sum(one) = f[F].count
  <2>1. F \in Keys /\ one[F] = f[F].count /\ \A key \in Keys : key # F => one[key] = 0
      BY <1>3
  <2> HIDE DEF one, F
  <2> QED  BY <1>4, <2>1, SumSingle
<1>7. Sum(Ahead(f, id, at)) = Sum(rest) + Sum(one)
  <2> HIDE DEF rest, one
  <2> QED  BY <1>4, <1>5, SumPlus
<1>8. Sum(rest) \in Nat /\ f[F].count \in Nat
    BY <1>3, <1>4, SumType
<1> QED  BY <1>6, <1>7, <1>8

-----------------------------------------------------------------------------
(* Types.                                                                  *)

\* A count is given to an upsert only after it was counted.
TypeInv == TypeOK /\ \A key \in Keys : snapshot[key] <= local[key]

\* The keys of a group belong to one counter.
GroupsHaveOneId ==
    \A p \in Shards : \A group \in groups[p] : \A k, l \in group : IdOf(k) = IdOf(l)

LEMMA SumsOfState ==
    ASSUME TypeOK
    PROVE  /\ entity \in Entities /\ written \in Counts
           /\ \A id : Written(id) = Sum(CountsOf(written, id))
           /\ \A S : Total(S) = Sum(CountsIn(entity, S))
           /\ \A id \in Ids : Total(Present(id)) = Sum(Ahead(entity, id, 0))
<1>1. entity \in Entities /\ written \in Counts
    BY DEF TypeOK, Entities, Counts
<1>2. \A id : Written(id) = Sum(CountsOf(written, id))
    BY DEF Written, CountsOf
<1>3. \A S : Total(S) = Sum(CountsIn(entity, S))
    BY DEF Total, CountsIn
<1>4. ASSUME NEW id \in Ids PROVE Total(Present(id)) = Sum(Ahead(entity, id, 0))
  <2>1. \A key \in Keys : Position(key) > 0
      BY Positions, OrderAssumption
  <2>2. \A key \in Keys : key \in Present(id) <=>
            IdOf(key) = id /\ entity[key] # NoEntity /\ Position(key) > 0
      BY <2>1 DEF Present, KeysOf
  <2>3. CountsIn(entity, Present(id)) = Ahead(entity, id, 0)
      BY <2>2 DEF CountsIn, Ahead
  <2> QED  BY <1>3, <2>3
<1> QED  BY <1>1, <1>2, <1>3, <1>4

\* What an upsert that is done changes.
LEMMA SavedChanges ==
    ASSUME TypeInv, NEW p \in Shards, Saved(p)
    PROVE  /\ entity' \in Entities /\ written' \in Counts
           /\ \A key \in Keys :
                \/ entity'[key] = entity[key] /\ written'[key] = written[key]
                \/ \E e \in pending[p] :
                     /\ e.key = key
                     /\ entity'[key] = [count |-> e.count, timestamp |-> e.timestamp]
                     /\ entity'[key] # NoEntity /\ entity'[key].count = e.count
                     /\ written'[key] = e.count
                     /\ key \in condensed => key \in rewritten'
           /\ condensed' = condensed /\ rewritten \subseteq rewritten'
           /\ rewritten' \subseteq condensed'
<1> USE DEF TypeInv, TypeOK
<1> DEFINE keys == {e.key : e \in pending[p]}
           Of(key) == CHOOSE e \in pending[p] : e.key = key
<1>1. \A key \in keys : Of(key) \in pending[p] /\ Of(key).key = key
    OBVIOUS
<1>2. \A e \in pending[p] : e \in Upserts
    OBVIOUS
<1>3. \A key \in keys : Of(key).count \in Nat /\ Of(key).timestamp \in 0..MaxTime
    BY <1>1, <1>2 DEF Upserts
<1>4. /\ entity' = [key \in Keys |->
                     IF key \in keys
                     THEN [count |-> Of(key).count, timestamp |-> Of(key).timestamp]
                     ELSE entity[key]]
      /\ written' = [key \in Keys |-> IF key \in keys THEN Of(key).count ELSE written[key]]
      /\ rewritten' = rewritten \cup (condensed \cap keys)
      /\ condensed' = condensed
    BY DEF Saved
<1> HIDE DEF keys, Of
<1>5. \A key \in keys : [count |-> Of(key).count, timestamp |-> Of(key).timestamp] \in Entity
    BY <1>3 DEF Entity
<1>6. entity' \in Entities
    BY <1>4, <1>5 DEF Entities
<1>7. written' \in Counts
    BY <1>3, <1>4 DEF Counts
<1>8. ASSUME NEW key \in Keys
      PROVE  \/ entity'[key] = entity[key] /\ written'[key] = written[key]
             \/ \E e \in pending[p] :
                  /\ e.key = key
                  /\ entity'[key] = [count |-> e.count, timestamp |-> e.timestamp]
                  /\ entity'[key] # NoEntity /\ entity'[key].count = e.count
                  /\ written'[key] = e.count
                  /\ key \in condensed => key \in rewritten'
  <2>1. CASE key \notin keys
      BY <1>4, <2>1
  <2>2. CASE key \in keys
    <3>1. Of(key) \in pending[p] /\ Of(key).key = key
        BY <1>1, <2>2
    <3>2. /\ entity'[key] = [count |-> Of(key).count, timestamp |-> Of(key).timestamp]
          /\ written'[key] = Of(key).count
        BY <1>4, <2>2
    <3>3. [count |-> Of(key).count, timestamp |-> Of(key).timestamp] \in
              [count : Nat, timestamp : Nat]
        BY <1>3, <2>2, CounterAssumption
    <3>4. entity'[key] # NoEntity /\ entity'[key].count = Of(key).count
        BY <3>2, <3>3, NoEntityAssumption
    <3>5. key \in condensed => key \in rewritten'
        BY <1>4, <2>2
    <3> QED  BY <3>1, <3>2, <3>4, <3>5
  <2> QED  BY <2>1, <2>2
<1>9. rewritten \subseteq rewritten' /\ rewritten' \subseteq condensed'
    BY <1>4
<1> QED  BY <1>4, <1>6, <1>7, <1>8, <1>9

\* What the transaction of a group changes.
LEMMA CondenseChanges ==
    ASSUME TypeInv, NEW group \in SUBSET Keys,
           Condense({key \in group : entity[key] # NoEntity})
    PROVE  LET G == {key \in group : entity[key] # NoEntity} IN
           \/ entity' = entity /\ condensed' = condensed
           \/ /\ G # {}
              /\ entity' \in Entities
              /\ \A key \in Keys \ G : entity'[key] = entity[key]
              /\ \A key \in G \ {First(G)} : entity'[key] = NoEntity
              /\ entity'[First(G)] # NoEntity
              /\ entity'[First(G)].count = Sum(CountsIn(entity, G))
              /\ condensed' = condensed \cup G
<1> DEFINE G == {key \in group : entity[key] # NoEntity}
<1>1. /\ G \in SUBSET Keys /\ \A key \in G : entity[key] # NoEntity
      /\ Condense(G)
    OBVIOUS
<1> HIDE DEF G
<1> SUFFICES
      \/ entity' = entity /\ condensed' = condensed
      \/ /\ G # {}
         /\ entity' \in Entities
         /\ \A key \in Keys \ G : entity'[key] = entity[key]
         /\ \A key \in G \ {First(G)} : entity'[key] = NoEntity
         /\ entity'[First(G)] # NoEntity
         /\ entity'[First(G)].count = Sum(CountsIn(entity, G))
         /\ condensed' = condensed \cup G
    BY DEF G
<1>2. CASE Cardinality(G) < 2
    BY <1>1, <1>2 DEF Condense
<1>3. CASE ~(Cardinality(G) < 2)
  <2> DEFINE F == First(G)
             sum == [count |-> Total(G), timestamp |-> now]
  <2>1. G # {}
      BY <1>3, FS_EmptySet
  <2>2. F \in G /\ F \in Keys
      BY <1>1, <2>1, FirstIsFirst
  <2>3. /\ entity' = [key \in Keys |-> IF key \in G \ {F} THEN NoEntity
                                     ELSE IF key = F THEN sum ELSE entity[key]]
        /\ condensed' = condensed \cup G
      BY <1>1, <1>3 DEF Condense, Deleted, Survivor
  <2>4. Total(G) = Sum(CountsIn(entity, G)) /\ Total(G) \in Nat
    <3>1. entity \in Entities /\ Total(G) = Sum(CountsIn(entity, G))
        BY SumsOfState DEF TypeInv
    <3>2. CountsIn(entity, G) \in Counts
        BY <1>1, <3>1, CountsInCounts
    <3> QED  BY <3>1, <3>2, SumType
  <2>5. sum \in Entity /\ sum # NoEntity /\ sum.count = Total(G)
    <3>1. now \in 0..MaxTime /\ now \in Nat
        BY CounterAssumption DEF TypeInv, TypeOK
    <3>2. sum \in [count : Nat, timestamp : Nat] /\ sum \in Entity
        BY <2>4, <3>1 DEF Entity
    <3> QED  BY <3>2, NoEntityAssumption
  <2> HIDE DEF F, sum
  <2>6. entity' \in Entities
      BY <2>3, <2>5 DEF Entities, TypeInv, TypeOK
  <2>7. /\ \A key \in Keys \ G : entity'[key] = entity[key]
        /\ \A key \in G \ {F} : entity'[key] = NoEntity
        /\ entity'[F] = sum
      BY <1>1, <2>2, <2>3
  <2> QED  BY <2>1, <2>3, <2>4, <2>5, <2>6, <2>7 DEF F
<1> QED  BY <1>2, <1>3

LEMMA OldKeysAreKeys ==
    /\ OldKeys \in SUBSET Keys
    /\ \A G \in Groups(OldKeys) :
         /\ G \in SUBSET Keys
         /\ Cardinality(G) \in 2..GroupSize
         /\ \A k, l \in G : IdOf(k) = IdOf(l)
<1>1. OldKeys \in SUBSET Keys
    BY DEF OldKeys
<1> QED  BY <1>1, GroupsAreSound

LEMMA TypeInit ==
    Init => TypeInv
<1> SUFFICES ASSUME Init PROVE TypeInv
    OBVIOUS
<1> USE CounterAssumption DEF Init
<1>1. entity \in [Keys -> Entity \cup {NoEntity}] /\ now \in 0..MaxTime /\ failures \in 0..MaxFailures
    OBVIOUS
<1>2. local \in [Keys -> Nat] /\ \A key \in Keys : local[key] <= Limit[key]
    OBVIOUS
<1>3. /\ snapshot \in [Keys -> Nat] /\ written \in [Keys -> Nat]
      /\ \A key \in Keys : snapshot[key] <= local[key]
    OBVIOUS
<1>4. pc \in [Shards -> PC]
    BY DEF PC
<1>5. /\ pending \in [Shards -> SUBSET Upserts]
      /\ groups \in [Shards -> SUBSET SUBSET Keys]
      /\ \A p \in Shards : pending[p] = {} /\ groups[p] = {}
    OBVIOUS
<1>6. reader = NoRead /\ condensed \subseteq Keys /\ rewritten \subseteq condensed
    OBVIOUS
<1> QED  BY <1>1, <1>2, <1>3, <1>4, <1>5, <1>6 DEF TypeInv, TypeOK

LEMMA TypeStep ==
    TypeInv /\ [Next]_vars => TypeInv'
<1> SUFFICES ASSUME TypeInv, [Next]_vars PROVE TypeInv'
    OBVIOUS
<1> USE CounterAssumption DEF TypeInv, TypeOK
<1>1. CASE Tick
  <2>1. now' \in 0..MaxTime /\ now <= now'
      BY <1>1 DEF Tick
  <2>2. UNCHANGED <<stored, counting, reader, failures>>
      BY <1>1 DEF Tick
  <2>3. \A p \in Shards : \A e \in pending[p] : e.timestamp <= now'
    <3>1. \A p \in Shards : \A e \in pending[p] : e \in Upserts /\ e.timestamp <= now
        OBVIOUS
    <3> QED  BY <2>1, <3>1 DEF Upserts
  <2> QED  BY <2>1, <2>2, <2>3 DEF stored, counting
<1>2. ASSUME NEW p \in Shards, Start(p) PROVE TypeInv'
    BY <1>2 DEF Start, Goto, PC, stored
<1>3. ASSUME NEW p \in Shards, Gone(p) PROVE TypeInv'
  <2>1. /\ local' \in [Keys -> Nat] /\ snapshot' \in [Keys -> Nat]
        /\ \A key \in Keys : local'[key] <= Limit[key] /\ snapshot'[key] <= local'[key]
      BY <1>3 DEF Gone
  <2>2. pc' \in [Shards -> PC]
      BY <1>3 DEF Gone, Goto, PC
  <2>3. /\ pending' \in [Shards -> SUBSET Upserts] /\ groups' \in [Shards -> SUBSET SUBSET Keys]
        /\ \A q \in Shards : pending'[q] \subseteq pending[q] /\ groups'[q] \subseteq groups[q]
      BY <1>3 DEF Gone
  <2>4. UNCHANGED <<stored, now, reader, failures>>
      BY <1>3 DEF Gone
  <2> QED  BY <2>1, <2>2, <2>3, <2>4 DEF stored
<1>4. ASSUME NEW key \in Keys, Increase(key) PROVE TypeInv'
  <2>1. /\ local' \in [Keys -> Nat]
        /\ \A k \in Keys : local'[k] <= Limit[k] /\ snapshot[k] <= local'[k]
      BY <1>4 DEF Increase
  <2>2. UNCHANGED <<stored, snapshot, pc, pending, groups, now, reader, failures>>
      BY <1>4 DEF Increase
  <2> QED  BY <2>1, <2>2 DEF stored
<1>5. ASSUME NEW p \in Shards, Collect(p) PROVE TypeInv'
  <2> DEFINE changed == {key \in Keys : ShardOf(key) = p /\ HasChanged(key)}
             Of(key) == [key |-> key, count |-> local[key], timestamp |-> now]
  <2>1. /\ snapshot' = [key \in Keys |-> IF key \in changed THEN local[key] ELSE snapshot[key]]
        /\ pending' = [pending EXCEPT ![p] = {Of(key) : key \in changed}]
        /\ UNCHANGED <<stored, local, groups, now, reader, failures>>
      BY <1>5 DEF Collect
  <2>2. pc' \in [Shards -> PC]
      BY <1>5 DEF Collect, Goto, PC
  <2>3. snapshot' \in [Keys -> Nat] /\ \A key \in Keys : snapshot'[key] <= local[key]
      BY <2>1
  <2>4. \A key \in changed : /\ Of(key) \in Upserts
                             /\ Of(key).count \in 1..Limit[Of(key).key]
                             /\ Of(key).timestamp <= now
    <3> SUFFICES ASSUME NEW key \in changed
                 PROVE  /\ Of(key) \in Upserts
                        /\ Of(key).count \in 1..Limit[Of(key).key]
                        /\ Of(key).timestamp <= now
        OBVIOUS
    <3>1. /\ key \in Keys /\ local[key] \in Nat /\ local[key] <= Limit[key]
          /\ snapshot[key] \in Nat /\ snapshot[key] <= local[key]
          /\ local[key] # snapshot[key]
        BY DEF HasChanged
    <3>2. local[key] \in 1..Limit[key]
        BY <3>1
    <3> QED  BY <3>1, <3>2 DEF Upserts
  <2> HIDE DEF changed, Of
  <2>5. /\ pending' \in [Shards -> SUBSET Upserts]
        /\ \A q \in Shards : \A e \in pending'[q] :
             e.count \in 1..Limit[e.key] /\ e.timestamp <= now
      BY <2>1, <2>4
  <2> QED  BY <2>1, <2>2, <2>3, <2>5 DEF stored
<1>6. ASSUME NEW p \in Shards, Upsert(p) \/ UpsertFails(p) PROVE TypeInv'
  <2>1. /\ pc' \in [Shards -> PC] /\ failures' \in 0..MaxFailures
    <3>1. pc' \in [Shards -> PC]
        BY <1>6 DEF Upsert, UpsertFails, Goto, PC
    <3>2. failures' = failures \/ (failures < MaxFailures /\ failures' = failures + 1)
        BY <1>6 DEF Upsert, UpsertFails
    <3> QED  BY <3>1, <3>2
  <2>2. /\ pending' = [pending EXCEPT ![p] = {}]
        /\ UNCHANGED <<local, snapshot, groups, now, reader>>
      BY <1>6 DEF Upsert, UpsertFails
  <2>3. /\ pending' \in [Shards -> SUBSET Upserts]
        /\ \A q \in Shards : pending'[q] \subseteq pending[q]
      BY <2>2
  <2>4. /\ entity' \in [Keys -> Entity \cup {NoEntity}] /\ written' \in [Keys -> Nat]
        /\ condensed' \subseteq Keys /\ rewritten' \subseteq condensed'
    <3>1. CASE Saved(p)
      <4>1. TypeInv
          OBVIOUS
      <4>2. /\ entity' \in Entities /\ written' \in Counts /\ condensed' = condensed
            /\ rewritten' \subseteq condensed'
          BY <3>1, <4>1, SavedChanges
      <4> QED  BY <4>2 DEF Entities, Counts
    <3>2. CASE UNCHANGED stored
        BY <3>2 DEF stored
    <3> QED  BY <1>6, <3>1, <3>2 DEF Upsert, UpsertFails
  <2> QED  BY <2>1, <2>2, <2>3, <2>4
<1>7. ASSUME NEW p \in Shards, NotYetCondense(p) \/ CondenseDone(p) PROVE TypeInv'
    BY <1>7 DEF NotYetCondense, CondenseDone, Goto, PC, stored
<1>8. ASSUME NEW p \in Shards, Query(p) PROVE TypeInv'
  <2>1. pc' \in [Shards -> PC]
      BY <1>8 DEF Query, Goto, PC
  <2>2. /\ groups' = [groups EXCEPT ![p] = Groups(OldKeys)]
        /\ UNCHANGED <<stored, local, snapshot, pending, now, reader, failures>>
      BY <1>8 DEF Query
  <2>3. \A G \in Groups(OldKeys) : G \in SUBSET Keys /\ Cardinality(G) \in 2..GroupSize
      BY OldKeysAreKeys
  <2>4. /\ groups' \in [Shards -> SUBSET SUBSET Keys]
        /\ \A q \in Shards : \A G \in groups'[q] : Cardinality(G) \in 2..GroupSize
      BY <2>2, <2>3
  <2> QED  BY <2>1, <2>2, <2>4 DEF stored
<1>9. ASSUME NEW p \in Shards, CondenseGroup(p) PROVE TypeInv'
  <2>1. PICK group \in groups[p] :
             /\ Condense({key \in group : entity[key] # NoEntity})
             /\ groups' = [groups EXCEPT ![p] = @ \ {group}]
      BY <1>9 DEF CondenseGroup
  <2>2. UNCHANGED <<local, snapshot, pc, pending, now, reader, failures, written, rewritten>>
      BY <1>9 DEF CondenseGroup
  <2>3. /\ groups' \in [Shards -> SUBSET SUBSET Keys]
        /\ \A q \in Shards : groups'[q] \subseteq groups[q]
      BY <2>1
  <2>4. /\ entity' \in [Keys -> Entity \cup {NoEntity}]
        /\ condensed' \subseteq Keys /\ rewritten \subseteq condensed'
    <3>1. TypeInv /\ group \in SUBSET Keys
        OBVIOUS
    <3> DEFINE G == {key \in group : entity[key] # NoEntity}
    <3>2. CASE entity' = entity /\ condensed' = condensed
        BY <3>2
    <3>3. CASE entity' \in Entities /\ condensed' = condensed \cup G
        BY <3>1, <3>3 DEF Entities
    <3> QED  BY <2>1, <3>1, <3>2, <3>3, CondenseChanges
  <2> QED  BY <2>2, <2>3, <2>4
<1>10. ASSUME NEW p \in Shards, CondenseFails(p) PROVE TypeInv'
  <2>1. /\ pc' \in [Shards -> PC] /\ failures' \in 0..MaxFailures
      BY <1>10 DEF CondenseFails, Goto, PC
  <2>2. /\ groups' \in [Shards -> SUBSET SUBSET Keys]
        /\ \A q \in Shards : groups'[q] \subseteq groups[q]
      BY <1>10 DEF CondenseFails
  <2>3. UNCHANGED <<stored, local, snapshot, pending, now, reader>>
      BY <1>10 DEF CondenseFails
  <2> QED  BY <2>1, <2>2, <2>3 DEF stored
<1>11. ASSUME NEW id \in Ids, ReadBegin(id) PROVE TypeInv'
  <2>1. reader' \in [id : Ids, at : 0..Len(KeyOrder), sum : Nat]
    <3>1. 0 \in 0..Len(KeyOrder)
        BY OrderAssumption
    <3> QED  BY <1>11, <3>1 DEF ReadBegin
  <2>2. UNCHANGED <<stored, counting, now, failures>>
      BY <1>11 DEF ReadBegin
  <2> QED  BY <2>1, <2>2 DEF stored, counting
<1>12. CASE ReadNext
  <2> DEFINE rest == {key \in KeysOf(reader.id) :
                        Position(key) > reader.at /\ entity[key] # NoEntity}
  <2>1. \/ reader' = NoRead
        \/ reader' \in [id : Ids, at : 0..Len(KeyOrder), sum : Nat]
    <3>1. CASE rest = {}
        BY <1>12, <3>1 DEF ReadNext
    <3>2. CASE rest # {}
      <4>1. reader' = [id |-> reader.id, at |-> Position(First(rest)),
                       sum |-> reader.sum + entity[First(rest)].count]
          BY <1>12, <3>2 DEF ReadNext
      <4>2. reader.id \in Ids /\ reader.sum \in Nat
          BY <1>12 DEF ReadNext
      <4>3. rest \in SUBSET Keys
          BY DEF KeysOf
      <4>4. First(rest) \in rest
          BY <3>2, <4>3, FirstIsFirst
      <4>5. First(rest) \in Keys /\ entity[First(rest)] # NoEntity
          BY <4>4 DEF KeysOf
      <4>6. entity[First(rest)].count \in Nat
          BY <4>5 DEF Entity
      <4>7. Position(First(rest)) \in 0..Len(KeyOrder)
          BY <4>5, Positions
      <4> HIDE DEF rest
      <4> QED  BY <4>1, <4>2, <4>6, <4>7
    <3> QED  BY <3>1, <3>2
  <2>2. UNCHANGED <<stored, counting, now, failures>>
      BY <1>12 DEF ReadNext
  <2> QED  BY <2>1, <2>2 DEF stored, counting
<1>13. CASE UNCHANGED vars
    BY <1>13 DEF vars, stored, counting
<1> QED  BY <1>1, <1>2, <1>3, <1>4, <1>5, <1>6, <1>7, <1>8, <1>9, <1>10, <1>11, <1>12, <1>13
         DEF Next, HostedService

\* TypeOK: what is given to an upsert was counted, a group that is condensed
\* has at least two and at most GroupSize keys, and what was condensed
\* before it was saved again is known to be condensed.
THEOREM CounterTypeCorrect == Spec => []TypeOK
<1>1. TypeInv => TypeOK
    BY DEF TypeInv
<1> QED  BY <1>1, TypeInit, TypeStep, PTL DEF Spec

-----------------------------------------------------------------------------
(* The counts add up, and are read once.                                   *)

\* What an upsert writes is what the process last took from its counts, one
\* entity per key and all of them under keys of its own.
PendingIsSnapshot ==
    \A p \in Shards : \A e \in pending[p] :
      /\ ShardOf(e.key) = p /\ e.count = snapshot[e.key]
      /\ \A f \in pending[p] : e.key = f.key => e = f

\* A process that runs has not saved more than it took from its counts.
WrittenWasTaken ==
    \A key \in Keys :
      /\ pc[ShardOf(key)] = "unborn" => written[key] = 0
      /\ pc[ShardOf(key)] \notin {"unborn", "dead"} => written[key] <= snapshot[key]

\* A key that never was part of a condensation holds what its process saved.
UncondensedIsWritten ==
    \A key \in Keys \ condensed :
      /\ entity[key] = NoEntity => written[key] = 0
      /\ entity[key] # NoEntity => written[key] = entity[key].count

\* What was read and what is still ahead of the reader was written.
ReadsAreWritten ==
    reader # NoRead /\ ~IsRewritten(reader.id) =>
      reader.sum + Sum(Ahead(entity, reader.id, reader.at)) <= Written(reader.id)

CounterInv ==
    /\ TypeInv
    /\ GroupsHaveOneId
    /\ PendingIsSnapshot
    /\ WrittenWasTaken
    /\ UncondensedIsWritten
    /\ CountsAddUp
    /\ ReadsAreWritten

LEMMA CounterInit ==
    Init => CounterInv
<1> SUFFICES ASSUME Init PROVE CounterInv
    OBVIOUS
<1>1. TypeInv
    BY TypeInit
<1>2. GroupsHaveOneId /\ PendingIsSnapshot /\ WrittenWasTaken /\ UncondensedIsWritten
    BY DEF Init, GroupsHaveOneId, PendingIsSnapshot, WrittenWasTaken, UncondensedIsWritten
<1>3. ReadsAreWritten
    BY DEF Init, ReadsAreWritten
<1>4. ASSUME NEW id \in Ids PROVE Total(Present(id)) = Written(id)
  <2>1. Ahead(entity, id, 0) = [key \in Keys |-> 0] /\ CountsOf(written, id) = [key \in Keys |-> 0]
      BY DEF Ahead, CountsOf, Init
  <2> QED  BY <1>1, <2>1, SumsOfState DEF TypeInv
<1> QED  BY <1>1, <1>2, <1>3, <1>4 DEF CounterInv, CountsAddUp

\* The parts of the invariant about what a process saves.
LEMMA SavesStep ==
    CounterInv /\ [Next]_vars =>
      GroupsHaveOneId' /\ PendingIsSnapshot' /\ WrittenWasTaken'
<1> SUFFICES ASSUME CounterInv, [Next]_vars
             PROVE  GroupsHaveOneId' /\ PendingIsSnapshot' /\ WrittenWasTaken'
    OBVIOUS
<1>t. /\ TypeInv /\ GroupsHaveOneId /\ PendingIsSnapshot /\ WrittenWasTaken
      /\ pc \in [Shards -> PC] /\ pending \in [Shards -> SUBSET Upserts]
      /\ groups \in [Shards -> SUBSET SUBSET Keys]
      /\ local \in [Keys -> Nat] /\ snapshot \in [Keys -> Nat] /\ written \in [Keys -> Nat]
      /\ \A key \in Keys : snapshot[key] <= local[key]
    BY DEF CounterInv, TypeInv, TypeOK
<1>k. \A key \in Keys : ShardOf(key) \in Shards
    BY DEF Keys, ShardOf
<1>1. ASSUME \A p \in Shards : groups'[p] \subseteq groups[p] PROVE GroupsHaveOneId'
    BY <1>1, <1>t DEF GroupsHaveOneId
<1>2. ASSUME snapshot' = snapshot, \A p \in Shards : pending'[p] \subseteq pending[p]
      PROVE  PendingIsSnapshot'
    BY <1>2, <1>t DEF PendingIsSnapshot
<1>3. CASE Tick \/ ReadNext \/ (\E id \in Ids : ReadBegin(id)) \/ (\E key \in Keys : Increase(key))
           \/ UNCHANGED vars
  <2>1. UNCHANGED <<written, snapshot, pc, pending, groups>>
      BY <1>3 DEF Tick, ReadNext, ReadBegin, Increase, vars, stored, counting
  <2> QED  BY <1>t, <2>1 DEF GroupsHaveOneId, PendingIsSnapshot, WrittenWasTaken
<1>4. ASSUME NEW p \in Shards, Start(p)
      PROVE  GroupsHaveOneId' /\ PendingIsSnapshot' /\ WrittenWasTaken'
  <2>1. /\ UNCHANGED <<written, snapshot, pending, groups>>
        /\ pc[p] = "unborn" /\ pc' = [pc EXCEPT ![p] = "delay"]
      BY <1>4 DEF Start, Goto, stored
  <2>2. WrittenWasTaken'
      BY <1>t, <1>k, <2>1 DEF WrittenWasTaken
  <2> QED  BY <1>t, <2>1, <2>2 DEF GroupsHaveOneId, PendingIsSnapshot
<1>5. ASSUME NEW p \in Shards, Gone(p)
      PROVE  GroupsHaveOneId' /\ PendingIsSnapshot' /\ WrittenWasTaken'
  <2>1. /\ written' = written
        /\ pc[p] # "unborn" /\ pc' = [pc EXCEPT ![p] = "dead"]
        /\ snapshot' = [key \in Keys |-> IF ShardOf(key) = p THEN 0 ELSE snapshot[key]]
        /\ pending' = [pending EXCEPT ![p] = {}]
        /\ groups' = [groups EXCEPT ![p] = {}]
      BY <1>5 DEF Gone, Goto, stored
  <2>2. GroupsHaveOneId'
      BY <1>t, <1>1, <2>1
  <2>3. WrittenWasTaken'
      BY <1>t, <1>k, <2>1 DEF WrittenWasTaken
  <2>4. PendingIsSnapshot'
    <3>1. \A q \in Shards : \A e \in pending'[q] :
              q # p /\ e \in pending[q] /\ e.key \in Keys /\ ShardOf(e.key) = q
        BY <1>t, <2>1 DEF PendingIsSnapshot, Upserts
    <3>2. \A q \in Shards : \A e \in pending'[q] : snapshot'[e.key] = snapshot[e.key]
        BY <2>1, <3>1
    <3> QED  BY <1>t, <3>1, <3>2 DEF PendingIsSnapshot
  <2> QED  BY <2>2, <2>3, <2>4
<1>6. ASSUME NEW p \in Shards, Collect(p)
      PROVE  GroupsHaveOneId' /\ PendingIsSnapshot' /\ WrittenWasTaken'
  <2> DEFINE changed == {key \in Keys : ShardOf(key) = p /\ HasChanged(key)}
             Of(key) == [key |-> key, count |-> local[key], timestamp |-> now]
  <2>1. /\ snapshot' = [key \in Keys |-> IF key \in changed THEN local[key] ELSE snapshot[key]]
        /\ pending' = [pending EXCEPT ![p] = {Of(key) : key \in changed}]
        /\ UNCHANGED <<written, groups>>
        /\ pc[p] = "delay"
        /\ \E place \in {"saved", "upsert"} : pc' = [pc EXCEPT ![p] = place]
      BY <1>6 DEF Collect, Goto, stored
  <2>2. GroupsHaveOneId'
      BY <1>t, <2>1 DEF GroupsHaveOneId
  <2>3. \A key \in Keys : snapshot'[key] >= snapshot[key] /\ snapshot'[key] \in Nat
      BY <1>t, <2>1
  <2>4. WrittenWasTaken'
    <3> SUFFICES ASSUME NEW key \in Keys
                 PROVE  /\ pc'[ShardOf(key)] = "unborn" => written[key] = 0
                        /\ pc'[ShardOf(key)] \notin {"unborn", "dead"} => written[key] <= snapshot'[key]
        BY <2>1 DEF WrittenWasTaken
    <3>1. /\ snapshot'[key] >= snapshot[key] /\ snapshot'[key] \in Nat
          /\ written[key] \in Nat /\ snapshot[key] \in Nat /\ ShardOf(key) \in Shards
          /\ pc[ShardOf(key)] = "unborn" => written[key] = 0
          /\ pc[ShardOf(key)] \notin {"unborn", "dead"} => written[key] <= snapshot[key]
        BY <1>t, <1>k, <2>3 DEF WrittenWasTaken
    <3>2. CASE ShardOf(key) = p
        BY <2>1, <3>1, <3>2
    <3>3. CASE ShardOf(key) # p
      <4>1. pc'[ShardOf(key)] = pc[ShardOf(key)]
          BY <1>t, <2>1, <3>1, <3>3
      <4> QED  BY <3>1, <4>1
    <3> QED  BY <3>2, <3>3
  <2>5. PendingIsSnapshot'
    <3> SUFFICES ASSUME NEW q \in Shards, NEW e \in pending'[q]
                 PROVE  /\ ShardOf(e.key) = q /\ e.count = snapshot'[e.key]
                        /\ \A f \in pending'[q] : e.key = f.key => e = f
        BY DEF PendingIsSnapshot
    <3>1. CASE q = p
      <4>1. pending'[q] = {Of(key) : key \in changed}
          BY <1>t, <2>1, <3>1
      <4>2. PICK key \in changed : e = Of(key)
          BY <4>1
      <4>3. ShardOf(key) = p /\ key \in Keys /\ e.key = key /\ e.count = local[key]
          BY <4>2
      <4>4. \A f \in pending'[q] : e.key = f.key => e = f
          BY <4>1, <4>2
      <4>5. snapshot'[e.key] = local[key]
          BY <2>1, <4>2, <4>3
      <4> QED  BY <3>1, <4>3, <4>4, <4>5
    <3>2. CASE q # p
      <4>1. pending'[q] = pending[q]
          BY <1>t, <2>1, <3>2
      <4>2. /\ e.key \in Keys /\ ShardOf(e.key) = q /\ e.count = snapshot[e.key]
            /\ \A f \in pending[q] : e.key = f.key => e = f
          BY <1>t, <4>1 DEF PendingIsSnapshot, Upserts
      <4>3. snapshot'[e.key] = snapshot[e.key]
          BY <2>1, <3>2, <4>2
      <4> QED  BY <4>1, <4>2, <4>3
    <3> QED  BY <3>1, <3>2
  <2> QED  BY <2>2, <2>4, <2>5
<1>7. ASSUME NEW p \in Shards, Upsert(p) \/ UpsertFails(p)
      PROVE  GroupsHaveOneId' /\ PendingIsSnapshot' /\ WrittenWasTaken'
  <2>1. /\ UNCHANGED <<snapshot, groups>>
        /\ pending' = [pending EXCEPT ![p] = {}]
        /\ pc[p] = "upsert"
        /\ pc' = [pc EXCEPT ![p] = "saved"] \/ pc' = [pc EXCEPT ![p] = "delay"]
        /\ Saved(p) \/ UNCHANGED stored
      BY <1>7 DEF Upsert, UpsertFails, Goto
  <2>2. GroupsHaveOneId' /\ PendingIsSnapshot'
      BY <1>t, <1>1, <1>2, <2>1
  <2>3. ASSUME NEW key \in Keys
        PROVE  /\ ShardOf(key) # p => written'[key] = written[key]
               /\ ShardOf(key) = p => written'[key] <= snapshot[key]
    <3>1. \/ written'[key] = written[key]
          \/ \E e \in pending[p] : e.key = key /\ written'[key] = e.count
      <4>1. CASE Saved(p)
          BY <1>t, <4>1, SavedChanges
      <4>2. CASE UNCHANGED stored
          BY <4>2 DEF stored
      <4> QED  BY <2>1, <4>1, <4>2
    <3>2. CASE written'[key] = written[key]
        BY <1>t, <1>k, <2>1, <3>2 DEF WrittenWasTaken
    <3>3. CASE \E e \in pending[p] : e.key = key /\ written'[key] = e.count
      <4>1. written'[key] = snapshot[key] /\ ShardOf(key) = p /\ snapshot[key] \in Nat
          BY <1>t, <3>3 DEF PendingIsSnapshot
      <4> QED  BY <4>1
    <3> QED  BY <3>1, <3>2, <3>3
  <2>4. WrittenWasTaken'
    <3> SUFFICES ASSUME NEW key \in Keys
                 PROVE  /\ pc'[ShardOf(key)] = "unborn" => written'[key] = 0
                        /\ pc'[ShardOf(key)] \notin {"unborn", "dead"} => written'[key] <= snapshot[key]
        BY <2>1 DEF WrittenWasTaken
    <3>1. CASE ShardOf(key) = p
        BY <1>t, <2>1, <2>3, <3>1
    <3>2. CASE ShardOf(key) # p
      <4>1. pc'[ShardOf(key)] = pc[ShardOf(key)] /\ written'[key] = written[key]
          BY <1>t, <1>k, <2>1, <2>3, <3>2
      <4> QED  BY <1>t, <4>1 DEF WrittenWasTaken
    <3> QED  BY <3>1, <3>2
  <2> QED  BY <2>2, <2>4
<1>8. ASSUME NEW p \in Shards,
             NotYetCondense(p) \/ Query(p) \/ CondenseFails(p) \/ CondenseDone(p)
      PROVE  GroupsHaveOneId' /\ PendingIsSnapshot' /\ WrittenWasTaken'
  <2>1. /\ UNCHANGED <<written, snapshot, pending>>
        /\ pc[p] \in {"saved", "condense"}
        /\ \E place \in {"delay", "condense"} : pc' = [pc EXCEPT ![p] = place]
      BY <1>8 DEF NotYetCondense, Query, CondenseFails, CondenseDone, Goto, stored
  <2>2. PendingIsSnapshot'
      BY <1>t, <1>2, <2>1
  <2>3. WrittenWasTaken'
      BY <1>t, <1>k, <2>1 DEF WrittenWasTaken
  <2>4. GroupsHaveOneId'
    <3>1. CASE Query(p)
      <4>1. groups' = [groups EXCEPT ![p] = Groups(OldKeys)]
          BY <3>1 DEF Query
      <4>2. \A q \in Shards : \A G \in groups'[q] : G \in groups[q] \/ G \in Groups(OldKeys)
          BY <1>t, <4>1
      <4> QED  BY <1>t, <4>2, OldKeysAreKeys DEF GroupsHaveOneId
    <3>2. CASE ~Query(p)
      <4>1. \A q \in Shards : groups'[q] \subseteq groups[q]
          BY <1>8, <1>t, <3>2 DEF NotYetCondense, CondenseFails, CondenseDone
      <4> QED  BY <1>1, <4>1
    <3> QED  BY <3>1, <3>2
  <2> QED  BY <2>2, <2>3, <2>4
<1>9. ASSUME NEW p \in Shards, CondenseGroup(p)
      PROVE  GroupsHaveOneId' /\ PendingIsSnapshot' /\ WrittenWasTaken'
  <2>1. /\ UNCHANGED <<written, snapshot, pc, pending>>
        /\ \E group \in groups[p] : groups' = [groups EXCEPT ![p] = @ \ {group}]
      BY <1>9 DEF CondenseGroup
  <2>2. \A q \in Shards : groups'[q] \subseteq groups[q]
      BY <1>t, <2>1
  <2> QED  BY <1>t, <1>1, <1>2, <2>1, <2>2 DEF WrittenWasTaken
<1> QED  BY <1>3, <1>4, <1>5, <1>6, <1>7, <1>8, <1>9 DEF Next, HostedService

\* An upsert writes keys that were not condensed, or the counter is rewritten.
LEMMA SumsAfterSave ==
    ASSUME CounterInv, NEW p \in Shards, pc[p] = "upsert", Saved(p), TypeOK', reader' = reader
    PROVE  CountsAddUp' /\ ReadsAreWritten' /\ UncondensedIsWritten'
<1>1. /\ TypeInv /\ TypeOK /\ PendingIsSnapshot /\ WrittenWasTaken /\ UncondensedIsWritten
      /\ CountsAddUp /\ ReadsAreWritten
    BY DEF CounterInv, TypeInv
<1>2. /\ entity \in Entities /\ entity' \in Entities
      /\ written \in Counts /\ written' \in Counts
      /\ \A id : Written(id) = Sum(CountsOf(written, id))
      /\ \A id : Written(id)' = Sum(CountsOf(written', id))
      /\ \A id \in Ids : Total(Present(id)) = Sum(Ahead(entity, id, 0))
      /\ \A id \in Ids : Total(Present(id))' = Sum(Ahead(entity', id, 0))
  <2>1. (TypeOK => /\ entity \in Entities /\ written \in Counts
                   /\ \A id : Written(id) = Sum(CountsOf(written, id))
                   /\ \A id \in Ids : Total(Present(id)) = Sum(Ahead(entity, id, 0)))'
      BY SumsOfState, PTL
  <2>2. /\ entity \in Entities /\ written \in Counts
        /\ \A id : Written(id) = Sum(CountsOf(written, id))
        /\ \A id \in Ids : Total(Present(id)) = Sum(Ahead(entity, id, 0))
      BY <1>1, SumsOfState
  <2> QED  BY <2>1, <2>2
<1>3. rewritten \subseteq rewritten' /\ condensed' = condensed
    BY <1>1, SavedChanges
<1>4. ASSUME NEW key \in Keys
      PROVE  \/ entity'[key] = entity[key] /\ written'[key] = written[key]
             \/ /\ entity'[key] # NoEntity /\ entity'[key].count = written'[key]
                /\ key \in condensed => key \in rewritten'
                /\ written[key] <= written'[key]
  <2>1. \/ entity'[key] = entity[key] /\ written'[key] = written[key]
        \/ \E e \in pending[p] :
             /\ e.key = key
             /\ entity'[key] # NoEntity /\ entity'[key].count = e.count
             /\ written'[key] = e.count
             /\ key \in condensed => key \in rewritten'
      BY <1>1, SavedChanges
  <2>2. ASSUME NEW e \in pending[p], e.key = key PROVE written[key] <= e.count
    <3>1. ShardOf(key) = p /\ e.count = snapshot[key]
        BY <1>1, <2>2 DEF PendingIsSnapshot
    <3> QED  BY <1>1, <3>1 DEF WrittenWasTaken
  <2> QED  BY <2>1, <2>2
<1>5. UncondensedIsWritten'
  <2>1. \A key \in Keys \ condensed :
          /\ entity'[key] = NoEntity => written'[key] = 0
          /\ entity'[key] # NoEntity => written'[key] = entity'[key].count
      BY <1>1, <1>4 DEF UncondensedIsWritten
  <2> QED  BY <1>3, <2>1 DEF UncondensedIsWritten
<1>6. ASSUME NEW id \in Ids, NEW at \in Nat, \A key \in rewritten' : IdOf(key) # id
      PROVE  /\ Sum(Ahead(entity', id, at)) + Sum(CountsOf(written, id)) <=
                  Sum(Ahead(entity, id, at)) + Sum(CountsOf(written', id))
             /\ at = 0 => Sum(Ahead(entity', id, at)) + Sum(CountsOf(written, id)) =
                            Sum(Ahead(entity, id, at)) + Sum(CountsOf(written', id))
  <2>1. ASSUME NEW key \in KeysOf(id)
        PROVE  \/ entity'[key] = entity[key] /\ written'[key] = written[key]
               \/ /\ entity'[key] # NoEntity /\ entity'[key].count = written'[key]
                  /\ entity[key] = NoEntity => written[key] = 0
                  /\ entity[key] # NoEntity => written[key] = entity[key].count
                  /\ written[key] <= written'[key]
    <3>1. key \in Keys /\ key \notin rewritten'
        BY <1>6 DEF KeysOf
    <3>2. key \notin condensed => /\ entity[key] = NoEntity => written[key] = 0
                                  /\ entity[key] # NoEntity => written[key] = entity[key].count
        BY <1>1, <3>1 DEF UncondensedIsWritten
    <3>3. CASE entity'[key] = entity[key] /\ written'[key] = written[key]
        BY <3>3
    <3>4. CASE /\ entity'[key] # NoEntity /\ entity'[key].count = written'[key]
               /\ key \in condensed => key \in rewritten'
               /\ written[key] <= written'[key]
      <4>1. key \notin condensed
          BY <3>1, <3>4
      <4> QED  BY <3>2, <3>4, <4>1
    <3> QED  BY <1>4, <3>1, <3>3, <3>4
  <2> QED  BY <1>2, <2>1, SavingAdds
<1>7. ASSUME NEW id \in Ids, NEW at \in Nat
      PROVE  /\ Sum(Ahead(entity, id, at)) \in Nat /\ Sum(Ahead(entity', id, at)) \in Nat
             /\ Sum(CountsOf(written, id)) \in Nat /\ Sum(CountsOf(written', id)) \in Nat
    BY <1>2, AheadCounts, WrittenCounts, SumType
<1>8. ASSUME NEW id \in Ids, ~IsRewritten(id)' PROVE (Total(Present(id)) = Written(id))'
  <2>1. \A key \in rewritten' : IdOf(key) # id
      BY <1>8 DEF IsRewritten
  <2>2. Total(Present(id)) = Written(id)
      BY <1>1, <1>3, <2>1 DEF CountsAddUp, IsRewritten
  <2>3. Sum(Ahead(entity', id, 0)) + Sum(CountsOf(written, id)) =
          Sum(Ahead(entity, id, 0)) + Sum(CountsOf(written', id))
      BY <1>6, <2>1
  <2>4. /\ Sum(Ahead(entity, id, 0)) \in Nat /\ Sum(Ahead(entity', id, 0)) \in Nat
        /\ Sum(CountsOf(written, id)) \in Nat /\ Sum(CountsOf(written', id)) \in Nat
      BY <1>7
  <2>5. Sum(Ahead(entity, id, 0)) = Sum(CountsOf(written, id))
      BY <1>2, <2>2
  <2>6. Sum(Ahead(entity', id, 0)) = Sum(CountsOf(written', id))
      BY <2>3, <2>4, <2>5
  <2> QED  BY <1>2, <2>6
<1>9. CountsAddUp'
    BY <1>8 DEF CountsAddUp
<1>10. ReadsAreWritten'
  <2> SUFFICES ASSUME reader # NoRead, \A key \in rewritten' : IdOf(key) # reader.id
               PROVE  reader.sum + Sum(Ahead(entity', reader.id, reader.at)) <=
                        Sum(CountsOf(written', reader.id))
    <3>1. (Written(reader.id) = Sum(CountsOf(written, reader.id)))'
        BY DEF Written, CountsOf
    <3> QED  BY <3>1 DEF ReadsAreWritten, IsRewritten
  <2>1. reader.id \in Ids /\ reader.at \in Nat /\ reader.sum \in Nat
      BY <1>1, OrderAssumption DEF TypeOK
  <2>2. reader.sum + Sum(Ahead(entity, reader.id, reader.at)) <= Sum(CountsOf(written, reader.id))
      BY <1>1, <1>2, <1>3 DEF ReadsAreWritten, IsRewritten
  <2>3. Sum(Ahead(entity', reader.id, reader.at)) + Sum(CountsOf(written, reader.id)) <=
          Sum(Ahead(entity, reader.id, reader.at)) + Sum(CountsOf(written', reader.id))
      BY <1>6, <2>1
  <2>4. /\ Sum(Ahead(entity, reader.id, reader.at)) \in Nat
        /\ Sum(Ahead(entity', reader.id, reader.at)) \in Nat
        /\ Sum(CountsOf(written, reader.id)) \in Nat
        /\ Sum(CountsOf(written', reader.id)) \in Nat
      BY <1>7, <2>1
  <2> QED  BY <2>1, <2>2, <2>3, <2>4
<1> QED  BY <1>5, <1>9, <1>10

\* A condensation keeps the sums, and moves counts only to keys that a reader
\* comes to no later.
LEMMA SumsAfterCondense ==
    ASSUME CounterInv, NEW p \in Shards, CondenseGroup(p), TypeOK'
    PROVE  CountsAddUp' /\ ReadsAreWritten' /\ UncondensedIsWritten'
<1>1. /\ TypeInv /\ TypeOK /\ GroupsHaveOneId /\ UncondensedIsWritten
      /\ CountsAddUp /\ ReadsAreWritten
    BY DEF CounterInv, TypeInv
<1>2. /\ entity \in Entities /\ entity' \in Entities /\ written \in Counts
      /\ \A id : Written(id) = Sum(CountsOf(written, id))
      /\ \A id : Written(id)' = Sum(CountsOf(written', id))
      /\ \A id \in Ids : Total(Present(id)) = Sum(Ahead(entity, id, 0))
      /\ \A id \in Ids : Total(Present(id))' = Sum(Ahead(entity', id, 0))
  <2>1. (TypeOK => /\ entity \in Entities
                   /\ \A id : Written(id) = Sum(CountsOf(written, id))
                   /\ \A id \in Ids : Total(Present(id)) = Sum(Ahead(entity, id, 0)))'
      BY SumsOfState, PTL
  <2>2. /\ entity \in Entities /\ written \in Counts
        /\ \A id : Written(id) = Sum(CountsOf(written, id))
        /\ \A id \in Ids : Total(Present(id)) = Sum(Ahead(entity, id, 0))
      BY <1>1, SumsOfState
  <2> QED  BY <2>1, <2>2
<1>3. PICK group \in groups[p] : Condense({key \in group : entity[key] # NoEntity})
    BY DEF CondenseGroup
<1>4. group \in SUBSET Keys /\ \A k, l \in group : IdOf(k) = IdOf(l)
    BY <1>1 DEF GroupsHaveOneId, TypeOK
<1> DEFINE G == {key \in group : entity[key] # NoEntity}
<1>5. UNCHANGED <<written, rewritten, reader>>
    BY DEF CondenseGroup
<1>6. \/ entity' = entity /\ condensed' = condensed
      \/ /\ G # {}
         /\ \A key \in Keys \ G : entity'[key] = entity[key]
         /\ \A key \in G \ {First(G)} : entity'[key] = NoEntity
         /\ entity'[First(G)] # NoEntity
         /\ entity'[First(G)].count = Sum(CountsIn(entity, G))
         /\ condensed' = condensed \cup G
    BY <1>1, <1>3, <1>4, CondenseChanges
<1>7. /\ G \in SUBSET Keys
      /\ \A key \in G : entity[key] # NoEntity
      /\ \A k, l \in G : IdOf(k) = IdOf(l)
    BY <1>4
<1> HIDE DEF G
<1>8. UncondensedIsWritten'
    BY <1>1, <1>5, <1>6 DEF UncondensedIsWritten
<1>9. ASSUME NEW id \in Ids, NEW at \in Nat
      PROVE  /\ Sum(Ahead(entity, id, at)) \in Nat /\ Sum(Ahead(entity', id, at)) \in Nat
             /\ Sum(Ahead(entity', id, at)) <= Sum(Ahead(entity, id, at))
             /\ at = 0 => Sum(Ahead(entity', id, at)) = Sum(Ahead(entity, id, at))
  <2>1. Sum(Ahead(entity, id, at)) \in Nat /\ Sum(Ahead(entity', id, at)) \in Nat
      BY <1>2, AheadCounts, SumType
  <2>2. CASE entity' = entity
      BY <2>1, <2>2
  <2>3. CASE entity' # entity
      BY <1>2, <1>6, <1>7, <2>1, <2>3, CondensingMoves
  <2> QED  BY <2>2, <2>3
<1>10. CountsAddUp'
  <2> SUFFICES ASSUME NEW id \in Ids, ~IsRewritten(id)'
               PROVE  (Total(Present(id)) = Written(id))'
      BY DEF CountsAddUp
  <2>1. Total(Present(id)) = Written(id)
      BY <1>1, <1>5 DEF CountsAddUp, IsRewritten
  <2>2. Sum(Ahead(entity', id, 0)) = Sum(Ahead(entity, id, 0))
      BY <1>9
  <2> QED  BY <1>2, <1>5, <2>1, <2>2
<1>11. ReadsAreWritten'
  <2> SUFFICES ASSUME reader # NoRead, \A key \in rewritten : IdOf(key) # reader.id
               PROVE  reader.sum + Sum(Ahead(entity', reader.id, reader.at)) <=
                        Sum(CountsOf(written, reader.id))
    <3>1. (Written(reader.id) = Sum(CountsOf(written, reader.id)))'
        BY DEF Written, CountsOf
    <3> QED  BY <1>5, <3>1 DEF ReadsAreWritten, IsRewritten
  <2>1. reader.id \in Ids /\ reader.at \in Nat /\ reader.sum \in Nat
      BY <1>1, OrderAssumption DEF TypeOK
  <2>2. reader.sum + Sum(Ahead(entity, reader.id, reader.at)) <= Sum(CountsOf(written, reader.id))
      BY <1>1, <1>2 DEF ReadsAreWritten, IsRewritten
  <2>3. /\ Sum(Ahead(entity, reader.id, reader.at)) \in Nat
        /\ Sum(Ahead(entity', reader.id, reader.at)) \in Nat
        /\ Sum(Ahead(entity', reader.id, reader.at)) <= Sum(Ahead(entity, reader.id, reader.at))
      BY <1>9, <2>1
  <2>4. Sum(CountsOf(written, reader.id)) \in Nat
      BY <1>2, WrittenCounts, SumType
  <2> QED  BY <2>1, <2>2, <2>3, <2>4
<1> QED  BY <1>8, <1>10, <1>11

LEMMA SumsAfterRead ==
    ASSUME CounterInv, ReadNext \/ \E id \in Ids : ReadBegin(id)
    PROVE  CountsAddUp' /\ ReadsAreWritten' /\ UncondensedIsWritten'
<1>1. /\ TypeInv /\ TypeOK /\ UncondensedIsWritten /\ CountsAddUp /\ ReadsAreWritten
    BY DEF CounterInv, TypeInv
<1>2. UNCHANGED <<entity, written, condensed, rewritten>>
    BY DEF ReadNext, ReadBegin, stored
<1>3. CountsAddUp' /\ UncondensedIsWritten'
    BY <1>1, <1>2 DEF CountsAddUp, UncondensedIsWritten, IsRewritten, Written, Total, Present
<1>4. /\ entity \in Entities /\ written \in Counts
      /\ \A id : Written(id) = Sum(CountsOf(written, id))
      /\ \A id \in Ids : Total(Present(id)) = Sum(Ahead(entity, id, 0))
    BY <1>1, SumsOfState
<1>5. ASSUME reader' = NoRead \/ (\E key \in rewritten : IdOf(key) = reader'.id)
             \/ reader'.sum + Sum(Ahead(entity, reader'.id, reader'.at)) <=
                  Sum(CountsOf(written, reader'.id))
      PROVE  ReadsAreWritten'
  <2>1. (Written(reader.id) = Sum(CountsOf(written, reader.id)))'
      BY DEF Written, CountsOf
  <2> QED  BY <1>2, <1>5, <2>1 DEF ReadsAreWritten, IsRewritten
<1>6. ASSUME NEW id \in Ids, ReadBegin(id) PROVE ReadsAreWritten'
  <2>1. reader' = [id |-> id, at |-> 0, sum |-> 0]
      BY <1>6 DEF ReadBegin
  <2>2. reader'.id = id /\ reader'.at = 0 /\ reader'.sum = 0
      BY <2>1
  <2>3. (\E key \in rewritten : IdOf(key) = id) \/
        Sum(Ahead(entity, id, 0)) = Sum(CountsOf(written, id))
      BY <1>1, <1>4 DEF CountsAddUp, IsRewritten
  <2>4. Sum(Ahead(entity, id, 0)) \in Nat
      BY <1>4, AheadCounts, SumType
  <2>5. (\E key \in rewritten : IdOf(key) = reader'.id) \/
        reader'.sum + Sum(Ahead(entity, reader'.id, reader'.at)) <=
          Sum(CountsOf(written, reader'.id))
      BY <2>2, <2>3, <2>4
  <2> QED  BY <1>5, <2>5
<1>7. ASSUME ReadNext PROVE ReadsAreWritten'
  <2> DEFINE rest == {key \in KeysOf(reader.id) :
                        Position(key) > reader.at /\ entity[key] # NoEntity}
             F == First(rest)
  <2>1. CASE rest = {}
      BY <1>5, <1>7, <2>1 DEF ReadNext
  <2>2. CASE rest # {}
    <3>1. /\ reader # NoRead
          /\ reader' = [id |-> reader.id, at |-> Position(F), sum |-> reader.sum + entity[F].count]
        BY <1>7, <2>2 DEF ReadNext
    <3>2. reader.id \in Ids /\ reader.at \in Nat /\ reader.sum \in Nat
      <4>1. reader \in [id : Ids, at : 0..Len(KeyOrder), sum : Nat]
          BY <1>1, <3>1 DEF TypeOK
      <4> QED  BY <4>1, OrderAssumption
    <3>3. Sum(Ahead(entity, reader.id, reader.at)) =
            entity[F].count + Sum(Ahead(entity, reader.id, Position(F)))
        BY <1>4, <2>2, <3>2, ReadingTakes
    <3>4. F \in Keys /\ entity[F] # NoEntity
      <4>1. rest \in SUBSET Keys
          BY DEF KeysOf
      <4>2. F \in rest
          BY <2>2, <4>1, FirstIsFirst
      <4> QED  BY <4>2 DEF KeysOf
    <3>5. entity[F].count \in Nat
        BY <1>4, <3>4, EntityCounts
    <3>6. Sum(Ahead(entity, reader.id, Position(F))) \in Nat
        BY <1>4, AheadCounts, SumType
    <3>7. (\E key \in rewritten : IdOf(key) = reader.id) \/
          reader.sum + Sum(Ahead(entity, reader.id, reader.at)) <= Sum(CountsOf(written, reader.id))
        BY <1>1, <1>4, <3>1 DEF ReadsAreWritten, IsRewritten
    <3>8. Sum(CountsOf(written, reader.id)) \in Nat
        BY <1>4, WrittenCounts, SumType
    <3>9. (\E key \in rewritten : IdOf(key) = reader.id) \/
          (reader.sum + entity[F].count) + Sum(Ahead(entity, reader.id, Position(F))) <=
            Sum(CountsOf(written, reader.id))
        BY <3>2, <3>3, <3>5, <3>6, <3>7, <3>8
    <3> HIDE DEF rest, F
    <3>10. /\ reader'.id = reader.id /\ reader'.at = Position(F)
           /\ reader'.sum = reader.sum + entity[F].count
        BY <3>1
    <3>11. (\E key \in rewritten : IdOf(key) = reader'.id) \/
           reader'.sum + Sum(Ahead(entity, reader'.id, reader'.at)) <=
             Sum(CountsOf(written, reader'.id))
        BY <3>9, <3>10
    <3> QED  BY <1>5, <3>11
  <2> QED  BY <2>1, <2>2
<1> QED  BY <1>3, <1>6, <1>7

LEMMA CounterStep ==
    CounterInv /\ [Next]_vars => CounterInv'
<1> SUFFICES ASSUME CounterInv, [Next]_vars PROVE CounterInv'
    OBVIOUS
<1>1. TypeInv'
    BY TypeStep DEF CounterInv
<1>2. TypeOK'
    BY <1>1 DEF TypeInv
<1>3. GroupsHaveOneId' /\ PendingIsSnapshot' /\ WrittenWasTaken'
    BY SavesStep
<1>4. ASSUME UNCHANGED <<entity, written, condensed, rewritten, reader>>
      PROVE  CountsAddUp' /\ ReadsAreWritten' /\ UncondensedIsWritten'
    BY <1>4 DEF CounterInv, CountsAddUp, ReadsAreWritten, UncondensedIsWritten, IsRewritten,
                Written, Total, Present
<1>5. ASSUME NEW p \in Shards, Upsert(p) \/ UpsertFails(p)
      PROVE  CountsAddUp' /\ ReadsAreWritten' /\ UncondensedIsWritten'
  <2>1. pc[p] = "upsert" /\ reader' = reader /\ (Saved(p) \/ UNCHANGED stored)
      BY <1>5 DEF Upsert, UpsertFails
  <2>2. CASE Saved(p)
      BY <1>2, <2>1, <2>2, SumsAfterSave
  <2>3. CASE UNCHANGED stored
      BY <1>4, <2>1, <2>3 DEF stored
  <2> QED  BY <2>1, <2>2, <2>3
<1>6. ASSUME NEW p \in Shards, CondenseGroup(p)
      PROVE  CountsAddUp' /\ ReadsAreWritten' /\ UncondensedIsWritten'
    BY <1>2, <1>6, SumsAfterCondense
<1>7. ASSUME ReadNext \/ \E id \in Ids : ReadBegin(id)
      PROVE  CountsAddUp' /\ ReadsAreWritten' /\ UncondensedIsWritten'
    BY <1>7, SumsAfterRead
<1>8. ASSUME \/ Tick \/ UNCHANGED vars \/ \E key \in Keys : Increase(key)
             \/ \E p \in Shards : \/ Start(p) \/ Gone(p) \/ Collect(p) \/ NotYetCondense(p)
                                 \/ Query(p) \/ CondenseFails(p) \/ CondenseDone(p)
      PROVE  CountsAddUp' /\ ReadsAreWritten' /\ UncondensedIsWritten'
    BY <1>4, <1>8 DEF Tick, vars, Increase, Start, Gone, Collect, NotYetCondense, Query,
                      CondenseFails, CondenseDone, stored
<1>9. CountsAddUp' /\ ReadsAreWritten' /\ UncondensedIsWritten'
    BY <1>5, <1>6, <1>7, <1>8 DEF Next, HostedService
<1> QED  BY <1>1, <1>3, <1>9 DEF CounterInv

LEMMA CounterInvariant ==
    Spec => []CounterInv
BY CounterInit, CounterStep, PTL DEF Spec

\* CountsAddUp: whatever is condensed, in groups of whatever size, and
\* whichever upserts fail or processes die, the keys of a counter add up to
\* what its processes saved, unless one of them saves a condensed key again.
THEOREM CondensingKeepsCounts == Spec => []CountsAddUp
<1>1. CounterInv => CountsAddUp
    BY DEF CounterInv
<1> QED  BY <1>1, CounterInvariant, PTL

\* NoDoubleReads: a reader that passes the keys while they are condensed and
\* saved counts none of them twice.
THEOREM ReadersNeverCountTwice == Spec => []NoDoubleReads
<1>1. ASSUME CounterInv PROVE NoDoubleReads
  <2> SUFFICES ASSUME reader # NoRead, ~IsRewritten(reader.id)
               PROVE  reader.sum <= Written(reader.id)
      BY DEF NoDoubleReads
  <2>1. /\ TypeOK
        /\ reader.sum + Sum(Ahead(entity, reader.id, reader.at)) <= Written(reader.id)
      BY <1>1 DEF CounterInv, TypeInv, ReadsAreWritten
  <2>2. /\ entity \in Entities /\ written \in Counts
        /\ Written(reader.id) = Sum(CountsOf(written, reader.id))
      BY <2>1, SumsOfState
  <2>3. Sum(Ahead(entity, reader.id, reader.at)) \in Nat
      BY <2>2, AheadCounts, SumType
  <2>4. Sum(CountsOf(written, reader.id)) \in Nat
      BY <2>2, WrittenCounts, SumType
  <2>5. reader.sum \in Nat
      BY <2>1 DEF TypeOK
  <2> QED  BY <2>1, <2>2, <2>3, <2>4, <2>5
<1> QED  BY <1>1, CounterInvariant, PTL

=============================================================================
