-------------------- MODULE CSCPartialResultPath_proofs ---------------------
(***************************************************************************)
(* Proofs about CSCPartialResultPath, for every number of bank groups,     *)
(* every capacity and latency and any number of records: no self-check of  *)
(* the path fails, no place is claimed twice, and the path implements      *)
(* ResultDelivery.                                                         *)
(***************************************************************************)
EXTENDS CSCPartialResultPath, SequenceTheorems, FiniteSetTheorems,
        WellFoundedInduction, TLAPS

-----------------------------------------------------------------------------
(* Sums of families of numbers                                             *)

\* The pairs that Total counts.
Below(f) == UNION {{<<i, n>> : n \in 1 .. f[i]} : i \in DOMAIN f}

\* The members of Below.
LEMMA BelowFacts ==
  ASSUME NEW D, NEW f \in [D -> Nat]
  PROVE  /\ Total(f) = Cardinality(Below(f))
         /\ \A i \in D : \A n \in 1 .. f[i] : <<i, n>> \in Below(f)
         /\ \A p \in Below(f) : \E i \in D : \E n \in 1 .. f[i] : p = <<i, n>>
BY DEF Total, Below

\* A finite family has finitely many pairs below it.
LEMMA BelowFinite ==
  ASSUME NEW D, IsFiniteSet(D), NEW f \in [D -> Nat]
  PROVE  IsFiniteSet(Below(f))
<1> DEFINE T(d) == {<<d, n>> : n \in 1 .. f[d]}
           R == {T(d) : d \in D}
           P == [d \in D |-> T(d)]
<1>1. ASSUME NEW d \in D PROVE IsFiniteSet(T(d))
  <2> DEFINE g == [n \in 1 .. f[d] |-> <<d, n>>]
  <2>1. g \in Surjection(1 .. f[d], T(d)) BY DEF Surjection
  <2>2. IsFiniteSet(1 .. f[d]) BY FS_Interval
  <2> HIDE DEF T, g
  <2> QED BY <2>1, <2>2, FS_Surjection
<1>2. IsFiniteSet(R)
  <2>1. P \in [D -> R] /\ \A t \in R : \E d \in D : P[d] = t OBVIOUS
  <2>2. P \in Surjection(D, R) BY <2>1, Zenon DEF Surjection
  <2> HIDE DEF P, R
  <2> QED BY <2>2, FS_Surjection
<1>3. Below(f) = UNION R BY DEF Below
<1>4. \A t \in R : IsFiniteSet(t) BY <1>1
<1> HIDE DEF T, R
<1> QED BY <1>2, <1>3, <1>4, FS_UNION

\* The sum is a number.
LEMMA TotalType ==
  ASSUME NEW D, IsFiniteSet(D), NEW f \in [D -> Nat]
  PROVE  Total(f) \in Nat
BY BelowFinite, BelowFacts, FS_CardinalityType

\* Two finite sets of the same size.
LEMMA SameSize ==
  ASSUME NEW S, NEW T, IsFiniteSet(S), NEW h \in [S -> T],
         \A x, y \in S : h[x] = h[y] => x = y,
         \A y \in T : \E x \in S : h[x] = y
  PROVE  IsFiniteSet(T) /\ Cardinality(T) = Cardinality(S)
<1>1. h \in Bijection(S, T) BY Zenon DEF Bijection, Injection, Surjection, IsInjective
<1>2. ExistsBijection(S, T) BY <1>1 DEF ExistsBijection
<1> QED BY <1>2, FS_Bijection

\* The size of a disjoint union.
LEMMA DisjointSum ==
  ASSUME NEW S, NEW T, IsFiniteSet(S), IsFiniteSet(T), S \cap T = {}
  PROVE  /\ IsFiniteSet(S \cup T)
         /\ Cardinality(S \cup T) = Cardinality(S) + Cardinality(T)
<1>1. Cardinality({}) = 0 /\ Cardinality(S) \in Nat /\ Cardinality(T) \in Nat
  BY FS_EmptySet, FS_CardinalityType
<1>2. /\ IsFiniteSet(S \cup T)
      /\ Cardinality(S \cup T) = Cardinality(S) + Cardinality(T) - Cardinality(S \cap T)
  BY FS_Union
<1>3. Cardinality(S \cap T) = 0 BY <1>1
<1> QED BY <1>1, <1>2, <1>3

\* Numbers that add up, member by member.
LEMMA TotalSum ==
  ASSUME NEW D, IsFiniteSet(D), NEW f \in [D -> Nat], NEW g \in [D -> Nat],
         NEW h \in [D -> Nat], \A d \in D : h[d] = f[d] + g[d]
  PROVE  Total(h) = Total(f) + Total(g)
<1> DEFINE F == Below(f)
           G == Below(g)
           b == [p \in G |-> <<p[1], f[p[1]] + p[2]>>]
           T == {b[p] : p \in G}
<1>1. /\ \A p \in F : \E d \in D : \E i \in 1 .. f[d] : p = <<d, i>>
      /\ \A p \in G : \E d \in D : \E i \in 1 .. g[d] : p = <<d, i>>
      /\ \A p \in Below(h) : \E d \in D : \E i \in 1 .. h[d] : p = <<d, i>>
  BY BelowFacts
<1>2. \A d \in D : /\ \A i \in 1 .. f[d] : <<d, i>> \in F
                   /\ \A i \in 1 .. g[d] : <<d, i>> \in G
                   /\ \A i \in 1 .. h[d] : <<d, i>> \in Below(h)
  BY BelowFacts
<1>3. IsFiniteSet(F) /\ IsFiniteSet(G) BY BelowFinite
<1>4. Total(f) = Cardinality(F) /\ Total(g) = Cardinality(G)
      /\ Total(h) = Cardinality(Below(h))
  BY BelowFacts
<1> HIDE DEF F, G
<1>5. \A d \in D : \A i \in 1 .. g[d] : b[<<d, i>>] = <<d, f[d] + i>> BY <1>2
<1>6. Below(h) = F \cup T
  <2>1. ASSUME NEW p \in Below(h) PROVE p \in F \cup T
    <3>1. PICK d, i : d \in D /\ i \in 1 .. h[d] /\ p = <<d, i>> BY <1>1
    <3>2. CASE i <= f[d] BY <1>2, <3>1, <3>2
    <3>3. CASE i > f[d]
      <4>1. f[d] \in Nat /\ g[d] \in Nat /\ h[d] = f[d] + g[d] BY <3>1
      <4>2. i - f[d] \in 1 .. g[d] /\ f[d] + (i - f[d]) = i BY <3>1, <3>3, <4>1
      <4>3. <<d, i - f[d]>> \in G /\ b[<<d, i - f[d]>>] = p BY <1>2, <1>5, <3>1, <4>2
      <4> QED BY <4>3
    <3>4. f[d] \in Nat /\ i \in Nat BY <3>1
    <3> QED BY <3>2, <3>3, <3>4
  <2>2. ASSUME NEW p \in F PROVE p \in Below(h)
    <3>1. PICK d, i : d \in D /\ i \in 1 .. f[d] /\ p = <<d, i>> BY <1>1
    <3>2. i \in 1 .. h[d] BY <3>1
    <3> QED BY <1>2, <3>1, <3>2
  <2>3. ASSUME NEW p \in T PROVE p \in Below(h)
    <3>1. PICK q \in G : p = b[q] OBVIOUS
    <3>2. PICK d, i : d \in D /\ i \in 1 .. g[d] /\ q = <<d, i>> BY <1>1
    <3>3. f[d] + i \in 1 .. h[d] BY <3>2
    <3>4. p = <<d, f[d] + i>> BY <1>5, <3>1, <3>2
    <3> QED BY <1>2, <3>2, <3>3, <3>4
  <2> HIDE DEF T
  <2> QED BY <2>1, <2>2, <2>3
<1>7. F \cap T = {}
  <2> SUFFICES ASSUME NEW p \in F, p \in T PROVE FALSE OBVIOUS
  <2>1. PICK c, j : c \in D /\ j \in 1 .. f[c] /\ p = <<c, j>> BY <1>1
  <2>2. PICK q \in G : p = b[q] OBVIOUS
  <2>3. PICK d, i : d \in D /\ i \in 1 .. g[d] /\ q = <<d, i>> BY <1>1
  <2>4. p = <<d, f[d] + i>> BY <1>5, <2>2, <2>3
  <2>5. c = d /\ j = f[d] + i BY <2>1, <2>4
  <2> QED BY <2>1, <2>3, <2>5
<1>8. ASSUME NEW p \in G, NEW q \in G, b[p] = b[q] PROVE p = q
  <2>1. PICK c, i : c \in D /\ i \in 1 .. g[c] /\ p = <<c, i>> BY <1>1
  <2>2. PICK d, j : d \in D /\ j \in 1 .. g[d] /\ q = <<d, j>> BY <1>1
  <2>3. <<c, f[c] + i>> = <<d, f[d] + j>> BY <1>5, <1>8, <2>1, <2>2
  <2>4. c = d /\ f[c] + i = f[c] + j /\ f[c] \in Nat BY <2>1, <2>3
  <2> HIDE DEF b
  <2>5. i = j BY <2>1, <2>2, <2>4
  <2> QED BY <2>1, <2>2, <2>4, <2>5
<1>9. IsFiniteSet(T) /\ Cardinality(T) = Cardinality(G)
  <2>1. b \in [G -> T] /\ \A t \in T : \E p \in G : b[p] = t OBVIOUS
  <2> HIDE DEF b, T
  <2> QED BY <1>3, <1>8, <2>1, SameSize
<1> HIDE DEF T
<1>10. Cardinality(F \cup T) = Cardinality(F) + Cardinality(T) BY <1>3, <1>7, <1>9, DisjointSum
<1> QED BY <1>4, <1>6, <1>9, <1>10

\* The sum of ones is their number.
LEMMA TotalOnes ==
  ASSUME NEW D, IsFiniteSet(D), NEW T \in SUBSET D
  PROVE  Total([d \in D |-> IF d \in T THEN 1 ELSE 0]) = Cardinality(T)
<1> DEFINE f == [d \in D |-> IF d \in T THEN 1 ELSE 0]
           h == [d \in T |-> <<d, 1>>]
<1>1. f \in [D -> Nat] OBVIOUS
<1>2. IsFiniteSet(T) BY FS_Subset
<1>3. \A d \in T : f[d] = 1 OBVIOUS
<1>4. \A d \in D : d \notin T => f[d] = 0 OBVIOUS
<1> HIDE DEF f
<1>5. \A d \in T : <<d, 1>> \in Below(f) BY <1>1, <1>3, BelowFacts
<1>6. \A p \in Below(f) : \E d \in T : p = <<d, 1>>
  <2> SUFFICES ASSUME NEW p \in Below(f) PROVE \E d \in T : p = <<d, 1>> OBVIOUS
  <2>1. PICK d \in D : \E i \in 1 .. f[d] : p = <<d, i>> BY <1>1, BelowFacts
  <2>2. PICK i \in 1 .. f[d] : p = <<d, i>> BY <2>1
  <2>3. d \in T /\ i = 1 BY <1>3, <1>4
  <2> QED BY <2>2, <2>3
<1>7. h \in [T -> Below(f)] BY <1>5
<1>8. \A x, y \in T : h[x] = h[y] => x = y OBVIOUS
<1>9. \A p \in Below(f) : \E d \in T : h[d] = p BY <1>6
<1> HIDE DEF h
<1>10. Cardinality(Below(f)) = Cardinality(T) BY <1>2, <1>7, <1>8, <1>9, SameSize
<1> QED BY <1>1, <1>10, BelowFacts DEF f

\* A family that grows by one on a set.
LEMMA TotalStep ==
  ASSUME NEW D, IsFiniteSet(D), NEW f \in [D -> Nat], NEW h \in [D -> Nat],
         NEW T \in SUBSET D,
         \A d \in T : h[d] = f[d] + 1,
         \A d \in D \ T : h[d] = f[d]
  PROVE  Total(h) = Total(f) + Cardinality(T)
<1> DEFINE g == [d \in D |-> IF d \in T THEN 1 ELSE 0]
<1>1. g \in [D -> Nat] /\ \A d \in D : h[d] = f[d] + g[d] OBVIOUS
<1>2. Total(g) = Cardinality(T) BY TotalOnes
<1> HIDE DEF g
<1> QED BY <1>1, <1>2, TotalSum

\* The sum of zeroes.
LEMMA TotalZero ==
  ASSUME NEW D, NEW f \in [D -> Nat], \A d \in D : f[d] = 0
  PROVE  Total(f) = 0
<1>1. Below(f) = {}
  <2> SUFFICES ASSUME NEW p \in Below(f) PROVE FALSE OBVIOUS
  <2>1. PICK d \in D : \E i \in 1 .. f[d] : p = <<d, i>> BY BelowFacts
  <2> QED BY <2>1
<1> QED BY <1>1, BelowFacts, FS_EmptySet

\* A family under other names, filled up with zeroes.
LEMMA TotalRename ==
  ASSUME NEW D, NEW E, IsFiniteSet(D), NEW f \in [D -> Nat], NEW g \in [E -> Nat],
         NEW h \in [D -> E],
         \A c, d \in D : h[c] = h[d] => c = d,
         \A d \in D : g[h[d]] = f[d],
         \A e \in E : g[e] # 0 => \E d \in D : h[d] = e
  PROVE  Total(g) = Total(f)
<1> DEFINE F == Below(f)
           G == Below(g)
           b == [p \in F |-> <<h[p[1]], p[2]>>]
<1>1. /\ \A p \in F : \E d \in D : \E i \in 1 .. f[d] : p = <<d, i>>
      /\ \A p \in G : \E e \in E : \E i \in 1 .. g[e] : p = <<e, i>>
  BY BelowFacts
<1>2. /\ \A d \in D : \A i \in 1 .. f[d] : <<d, i>> \in F
      /\ \A e \in E : \A i \in 1 .. g[e] : <<e, i>> \in G
  BY BelowFacts
<1>3. IsFiniteSet(F) /\ Total(f) = Cardinality(F) /\ Total(g) = Cardinality(G)
  BY BelowFacts, BelowFinite
<1> HIDE DEF F, G
<1>4. \A d \in D : \A i \in 1 .. f[d] : b[<<d, i>>] = <<h[d], i>> BY <1>2
<1>5. b \in [F -> G]
  <2> SUFFICES ASSUME NEW p \in F PROVE <<h[p[1]], p[2]>> \in G OBVIOUS
  <2>1. PICK d, i : d \in D /\ i \in 1 .. f[d] /\ p = <<d, i>> BY <1>1
  <2>2. i \in 1 .. g[h[d]] /\ h[d] \in E BY <2>1
  <2> QED BY <1>2, <2>1, <2>2
<1> HIDE DEF b
<1>6. ASSUME NEW p \in F, NEW q \in F, b[p] = b[q] PROVE p = q
  <2>1. PICK c, i : c \in D /\ i \in 1 .. f[c] /\ p = <<c, i>> BY <1>1
  <2>2. PICK d, j : d \in D /\ j \in 1 .. f[d] /\ q = <<d, j>> BY <1>1
  <2>3. <<h[c], i>> = <<h[d], j>> BY <1>4, <1>6, <2>1, <2>2
  <2> QED BY <2>1, <2>2, <2>3
<1>7. ASSUME NEW q \in G PROVE \E p \in F : b[p] = q
  <2>1. PICK e, i : e \in E /\ i \in 1 .. g[e] /\ q = <<e, i>> BY <1>1
  <2>2. PICK d \in D : h[d] = e BY <2>1
  <2>3. i \in 1 .. f[d] BY <2>1, <2>2
  <2>4. <<d, i>> \in F BY <1>2, <2>3
  <2>5. b[<<d, i>>] = q
    <3>1. b[<<d, i>>] = <<h[d], i>> BY <1>4, <2>3
    <3> QED BY <2>1, <2>2, <3>1
  <2> QED BY <2>4, <2>5
<1>8. Cardinality(G) = Cardinality(F) BY <1>3, <1>5, <1>6, <1>7, SameSize
<1> QED BY <1>3, <1>8

\* One member changes.
LEMMA TotalChange ==
  ASSUME NEW D, IsFiniteSet(D), NEW f \in [D -> Nat], NEW g \in [D -> Nat], NEW d \in D,
         f[d] <= g[d], \A x \in D \ {d} : g[x] = f[x]
  PROVE  Total(g) = Total(f) + (g[d] - f[d])
<1> DEFINE k == g[d] - f[d]
           one == [x \in {d} |-> k]
           more == [x \in D |-> IF x = d THEN k ELSE 0]
           h == [x \in {d} |-> x]
<1>1. k \in Nat /\ more \in [D -> Nat] /\ one \in [{d} -> Nat] OBVIOUS
<1>2. \A x \in D : g[x] = f[x] + more[x] OBVIOUS
<1>3. Total(g) = Total(f) + Total(more)
  <2> HIDE DEF more
  <2> QED BY <1>1, <1>2, TotalSum
<1>4. Total(more) = Total(one)
  <2>1. /\ h \in [{d} -> D] /\ IsFiniteSet({d})
        /\ \A x, y \in {d} : h[x] = h[y] => x = y
        /\ \A x \in {d} : more[h[x]] = one[x]
        /\ \A e \in D : more[e] # 0 => \E x \in {d} : h[x] = e
    BY FS_Singleton
  <2> HIDE DEF h, more, one
  <2> QED BY <1>1, <2>1, TotalRename
<1>5. Total(one) = k
  <2> DEFINE u == [n \in 1 .. k |-> <<d, n>>]
  <2>1. IsFiniteSet(1 .. k) /\ Cardinality(1 .. k) = k BY <1>1, FS_Interval
  <2>2. \A n \in 1 .. k : <<d, n>> \in Below(one) BY <1>1, BelowFacts
  <2>3. \A p \in Below(one) : \E n \in 1 .. k : p = <<d, n>> BY <1>1, BelowFacts
  <2>4. Total(one) = Cardinality(Below(one)) BY <1>1, BelowFacts
  <2> HIDE DEF one, k
  <2>5. u \in [1 .. k -> Below(one)] /\ \A x, y \in 1 .. k : u[x] = u[y] => x = y BY <2>2
  <2>6. \A p \in Below(one) : \E n \in 1 .. k : u[n] = p BY <2>3
  <2> HIDE DEF u
  <2> QED BY <2>1, <2>4, <2>5, <2>6, SameSize
<1> QED BY <1>3, <1>4, <1>5

-----------------------------------------------------------------------------
(* Choices from sets of numbers                                            *)

\* A set of numbers that is not empty has a least member.
LEMMA MinExists ==
  ASSUME NEW N \in SUBSET Nat, N # {}
  PROVE  Min(N) \in N /\ \A m \in N : Min(N) <= m
<1>1. PICK n \in N : \A m \in N : <<m, n>> \notin OpToRel(<, Nat)
  <2>1. IsWellFoundedOn(OpToRel(<, Nat), Nat) BY NatLessThanWellFounded
  <2> QED BY <2>1, WFMin
<1>2. ASSUME NEW m \in N PROVE n <= m
  <2>1. m \in Nat /\ n \in Nat OBVIOUS
  <2>2. ~(m < n) BY <1>1, <2>1 DEF OpToRel
  <2> QED BY <2>1, <2>2
<1>3. \E x \in N : \A m \in N : x <= m BY <1>2
<1> QED BY <1>3 DEF Min

\* The place of a number in a set: so many are lower.
Place(S, c) == Cardinality({d \in S : d < c})

\* The place of a member is below the size of the set.
LEMMA PlaceType ==
  ASSUME NEW S \in SUBSET Nat, IsFiniteSet(S), NEW c \in S
  PROVE  Place(S, c) \in 0 .. Cardinality(S) - 1
<1> DEFINE L == {d \in S : d < c}
<1>1. IsFiniteSet(L) /\ L \in SUBSET S /\ c \notin L BY FS_Subset
<1> HIDE DEF L
<1>2. IsFiniteSet(L \cup {c}) /\ Cardinality(L \cup {c}) = Cardinality(L) + 1
  BY <1>1, FS_AddElement
<1>3. L \cup {c} \in SUBSET S BY <1>1
<1>4. Cardinality(L \cup {c}) <= Cardinality(S) BY <1>3, FS_Subset
<1>5. Cardinality(L) \in Nat /\ Cardinality(S) \in Nat BY <1>1, FS_CardinalityType
<1>6. Cardinality(L) \in 0 .. Cardinality(S) - 1 BY <1>2, <1>4, <1>5
<1> QED BY <1>6 DEF Place, L

\* Two members have different places.
LEMMA PlacesApart ==
  ASSUME NEW S \in SUBSET Nat, IsFiniteSet(S), NEW c \in S, NEW d \in S,
         Place(S, c) = Place(S, d)
  PROVE  c = d
<1>1. ASSUME NEW a \in S, NEW b \in S, a < b PROVE Place(S, a) < Place(S, b)
  <2> DEFINE L == {x \in S : x < a}
             M == {x \in S : x < b}
  <2>1. IsFiniteSet(L) /\ IsFiniteSet(M) /\ a \notin L BY FS_Subset
  <2>2. L \cup {a} \in SUBSET M
    <3>1. a \in Nat /\ b \in Nat /\ \A x \in S : x \in Nat OBVIOUS
    <3>2. \A x \in S : x < a => x < b BY <1>1, <3>1
    <3>3. L \subseteq M /\ a \in M BY <1>1, <3>2
    <3> QED BY <3>3
  <2> HIDE DEF L, M
  <2>3. IsFiniteSet(L \cup {a}) /\ Cardinality(L \cup {a}) = Cardinality(L) + 1
    BY <2>1, FS_AddElement
  <2>4. Cardinality(L \cup {a}) <= Cardinality(M) BY <2>1, <2>2, FS_Subset
  <2>5. Cardinality(L) \in Nat /\ Cardinality(M) \in Nat BY <2>1, FS_CardinalityType
  <2>6. Cardinality(L) < Cardinality(M) BY <2>3, <2>4, <2>5
  <2> QED BY <2>6 DEF Place, L, M
<1>2. Place(S, c) \in Nat /\ Place(S, d) \in Nat /\ c \in Nat /\ d \in Nat
  BY PlaceType, FS_CardinalityType
<1>3. ~(c < d) /\ ~(d < c) BY <1>1, <1>2
<1> QED BY <1>2, <1>3

\* Increasing lists every member of the set once.
LEMMA IncreasingLists ==
  ASSUME NEW S \in SUBSET Nat, IsFiniteSet(S)
  PROVE  /\ Cardinality(S) \in Nat
         /\ Increasing(S) \in [1 .. Cardinality(S) -> S]
         /\ Len(Increasing(S)) = Cardinality(S)
         /\ \A i, j \in 1 .. Cardinality(S) :
              Increasing(S)[i] = Increasing(S)[j] => i = j
         /\ \A c \in S : \E i \in 1 .. Cardinality(S) : Increasing(S)[i] = c
<1> DEFINE m == Cardinality(S)
           h == [c \in S |-> Place(S, c)]
           s == Increasing(S)
<1>1. m \in Nat BY FS_CardinalityType
<1>2. h \in [S -> 0 .. m - 1] /\ \A c, d \in S : h[c] = h[d] => c = d BY PlaceType, PlacesApart
<1>3. IsFiniteSet(0 .. m - 1) /\ Cardinality(0 .. m - 1) = m
  <2> HIDE DEF m
  <2> QED BY <1>1, FS_Interval
<1>9. \A c \in S : h[c] = Place(S, c) OBVIOUS
<1> HIDE DEF h
<1>4. h \in Injection(S, 0 .. m - 1) BY <1>2, Zenon DEF Injection, IsInjective
<1>5. h \in Surjection(S, 0 .. m - 1) BY <1>3, <1>4, FS_Injection
<1>6. \A i \in 1 .. m : \E c \in S : Place(S, c) = i - 1
  <2> SUFFICES ASSUME NEW i \in 1 .. m PROVE \E c \in S : Place(S, c) = i - 1 OBVIOUS
  <2>1. i - 1 \in 0 .. m - 1 BY <1>1
  <2> QED BY <1>5, <1>9, <2>1 DEF Surjection
<1>7. s = [i \in 1 .. m |-> CHOOSE c \in S : Place(S, c) = i - 1] BY DEF Increasing, Place
<1>8. \A i \in 1 .. m : s[i] \in S /\ Place(S, s[i]) = i - 1 BY <1>6, <1>7
<1>10. s \in [1 .. m -> S] BY <1>7, <1>8
<1>11. Len(s) = m BY <1>1, <1>7
<1> HIDE DEF s, m
<1>12. ASSUME NEW i \in 1 .. m, NEW j \in 1 .. m, s[i] = s[j] PROVE i = j
  <2>1. i - 1 = j - 1 BY <1>8, <1>12
  <2> QED BY <1>1, <2>1
<1>13. ASSUME NEW c \in S PROVE \E i \in 1 .. m : s[i] = c
  <2>1. Place(S, c) \in 0 .. m - 1 BY PlaceType DEF m
  <2>2. PICK i \in 1 .. m : i - 1 = Place(S, c)
    <3>1. Place(S, c) + 1 \in 1 .. m /\ (Place(S, c) + 1) - 1 = Place(S, c) BY <1>1, <2>1
    <3> QED BY <3>1
  <2> DEFINE d == s[i]
  <2>3. d \in S /\ Place(S, d) = Place(S, c) BY <1>8, <2>2
  <2> HIDE DEF d
  <2>4. d = c BY <2>3, PlacesApart
  <2> QED BY <2>4 DEF d
<1> QED BY <1>1, <1>10, <1>11, <1>12, <1>13 DEF m, s

\* No more than m members have fewer than m lower ones.
LEMMA FirstFew ==
  ASSUME NEW S \in SUBSET Nat, IsFiniteSet(S), NEW m \in Nat
  PROVE  Cardinality({c \in S : Place(S, c) < m}) <= m
<1> DEFINE T == {c \in S : Place(S, c) < m}
           h == [c \in T |-> Place(S, c)]
<1>1. \A c \in S : Place(S, c) \in Nat BY PlaceType, FS_CardinalityType
<1>6. \A c \in T : c \in S /\ h[c] = Place(S, c) /\ Place(S, c) \in 0 .. m - 1 BY <1>1
<1>2. h \in [T -> 0 .. m - 1] /\ \A c, d \in T : h[c] = h[d] => c = d
  <2>1. h \in [T -> 0 .. m - 1] BY <1>6
  <2> HIDE DEF h, T
  <2> QED BY <1>6, <2>1, PlacesApart
<1>3. IsFiniteSet(0 .. m - 1) /\ Cardinality(0 .. m - 1) = m BY FS_Interval
<1> HIDE DEF h, T
<1>4. h \in Injection(T, 0 .. m - 1) BY <1>2, Zenon DEF Injection, IsInjective
<1>5. Cardinality(T) <= m BY <1>3, <1>4, FS_Injection
<1> QED BY <1>5 DEF T

-----------------------------------------------------------------------------
(* The bank groups of a channel                                            *)

\* The assumptions on the configuration, one by one.
LEMMA Config ==
  /\ Channels \in Nat \ {0} /\ RanksPerChannel \in Nat \ {0}
  /\ BankGroupsPerRank \in Nat \ {0} /\ RecordsPerBurst \in Nat \ {0}
  /\ BufferCapacity \in Nat \ {0} /\ PendingCapacity \in Nat \ {0}
  /\ MaxInflightWrites \in Nat \ {0} /\ MaxInflightReads \in Nat \ {0}
  /\ ReturnQueueCapacity \in Nat \ {0} /\ ReductionQueueCapacity \in Nat \ {0}
  /\ ReduceRecordsPerCycle \in Nat \ {0}
  /\ WriteLatency \in Nat /\ ReadLatency \in Nat /\ ReduceLatency \in Nat
BY PathConfigAssumption

\* A product of positive numbers.
LEMMA ProductIsPositive ==
  ASSUME NEW m \in Nat \ {0}, NEW n \in Nat \ {0}
  PROVE  m * n \in Nat \ {0}
OBVIOUS

\* n numbers from each of m multiples of n on make up the numbers below m * n.
LEMMA Multiples ==
  ASSUME NEW m \in Nat, NEW n \in Nat \ {0}, NEW c \in 0 .. m - 1, NEW x \in 0 .. n - 1
  PROVE  c * n + x \in 0 .. m * n - 1
<1>1. c * n + n = (c + 1) * n OBVIOUS
<1>2. (c + 1) * n <= m * n
  <2>1. (m - (c + 1)) \in Nat OBVIOUS
  <2>2. (m - (c + 1)) * n \in Nat BY <2>1
  <2>3. (m - (c + 1)) * n = m * n - (c + 1) * n OBVIOUS
  <2> QED BY <2>2, <2>3
<1>3. c * n \in Nat /\ m * n \in Nat /\ (c + 1) * n \in Nat OBVIOUS
<1> QED BY <1>1, <1>2, <1>3

\* The parts of a number that is a multiple and a rest.
LEMMA MultiplesApart ==
  ASSUME NEW n \in Nat \ {0}, NEW c \in Nat, NEW d \in Nat, NEW x \in 0 .. n - 1,
         NEW y \in 0 .. n - 1, c * n + x = d * n + y
  PROVE  c = d /\ x = y
<1>1. ASSUME NEW a \in Nat, NEW b \in Nat, a < b PROVE a * n + n <= b * n
  <2>1. (b - a - 1) \in Nat BY <1>1
  <2>2. (b - a - 1) * n \in Nat BY <2>1
  <2>3. (b - a - 1) * n = b * n - a * n - n OBVIOUS
  <2>4. a * n \in Nat /\ b * n \in Nat OBVIOUS
  <2> QED BY <2>2, <2>3, <2>4
<1>2. c * n \in Nat /\ d * n \in Nat OBVIOUS
<1>3. ~(c < d) BY <1>1, <1>2
<1>4. ~(d < c) BY <1>1, <1>2
<1>5. c = d BY <1>3, <1>4
<1> QED BY <1>2, <1>5

\* Every number is one of the n from a multiple of n on.
LEMMA MultipleExists ==
  ASSUME NEW m \in Nat, NEW n \in Nat \ {0}, NEW b \in 0 .. m * n - 1
  PROVE  \E c \in 0 .. m - 1 : \E x \in 0 .. n - 1 : b = c * n + x
<1> DEFINE N == {k \in Nat : b < (k + 1) * n}
<1>1. m * n \in Nat /\ b \in Nat OBVIOUS
<1>2. m # 0 BY <1>1
<1>3. m - 1 \in N BY <1>1, <1>2
<1>4. PICK c \in N : \A k \in N : c <= k
  <2>1. N \in SUBSET Nat /\ N # {} BY <1>3
  <2> HIDE DEF N
  <2> QED BY <2>1, MinExists
<1>5. c \in 0 .. m - 1 BY <1>3, <1>4
<1>6. c * n <= b
  <2>1. CASE c = 0 BY <1>1, <2>1
  <2>2. CASE c # 0
    <3>1. c - 1 \in Nat /\ ~(c - 1 \in N) BY <1>4, <2>2
    <3>2. ~(b < ((c - 1) + 1) * n) BY <3>1
    <3>3. (c - 1) + 1 = c BY <1>5
    <3>4. c * n \in Nat BY <1>5
    <3> QED BY <1>1, <3>2, <3>3, <3>4
  <2> QED BY <2>1, <2>2
<1>7. b < c * n + n
  <2>1. b < (c + 1) * n BY <1>4
  <2>2. (c + 1) * n = c * n + n BY <1>5
  <2> QED BY <2>1, <2>2
<1>8. c * n \in Nat BY <1>5
<1>9. b - c * n \in 0 .. n - 1 /\ b = c * n + (b - c * n) BY <1>1, <1>6, <1>7, <1>8
<1> QED BY <1>5, <1>9

\* The bank groups of a channel.
Home(c) == {c * BankGroupsPerChannel + x : x \in 0 .. BankGroupsPerChannel - 1}

\* Every bank group belongs to one channel.
LEMMA Homes ==
  /\ BankGroupsPerChannel \in Nat \ {0}
  /\ IsFiniteSet(BG) /\ IsFiniteSet(Channel) /\ IsFiniteSet(BufferSlot) /\ IsFiniteSet(Rank)
  /\ Channel \subseteq Nat /\ BufferSlot \subseteq Nat /\ BG \subseteq Nat
  /\ Cardinality(BufferSlot) = BufferCapacity
  /\ \A c \in Channel : Home(c) \subseteq BG
  /\ \A c, d \in Channel : \A b \in Home(c) : b \in Home(d) => c = d
  /\ \A b \in BG : \E c \in Channel : b \in Home(c)
  /\ \A r \in Rank : \A x \in 0 .. BankGroupsPerRank - 1 :
       r * BankGroupsPerRank + x \in BG
<1> DEFINE n == BankGroupsPerChannel
<1>1. n \in Nat \ {0} BY Config, ProductIsPositive DEF BankGroupsPerChannel
<1>2. Channels \in Nat /\ Channels * n \in Nat BY <1>1, Config
<1>3. IsFiniteSet(BG) /\ IsFiniteSet(Channel) /\ IsFiniteSet(BufferSlot) /\ IsFiniteSet(Rank)
  <2>1. Channels * RanksPerChannel \in Nat BY Config
  <2>2. /\ Channels * BankGroupsPerChannel - 1 \in Int /\ Channels - 1 \in Int
        /\ BufferCapacity - 1 \in Int /\ Channels * RanksPerChannel - 1 \in Int
        /\ 0 \in Int
    BY <1>2, <2>1, Config
  <2>3. IsFiniteSet(BG) BY <2>2, FS_Interval DEF BG
  <2>4. IsFiniteSet(Channel) BY <2>2, FS_Interval DEF Channel
  <2>5. IsFiniteSet(BufferSlot) BY <2>2, FS_Interval DEF BufferSlot
  <2>6. IsFiniteSet(Rank) BY <2>2, FS_Interval DEF Rank
  <2> QED BY <2>3, <2>4, <2>5, <2>6
<1>4. Channel \subseteq Nat /\ BufferSlot \subseteq Nat /\ BG \subseteq Nat
  BY DEF Channel, BufferSlot, BG
<1>5. Cardinality(BufferSlot) = BufferCapacity BY Config, FS_Interval DEF BufferSlot
<1> HIDE DEF n
<1>6. BG = 0 .. Channels * n - 1 /\ Channel = 0 .. Channels - 1 BY DEF BG, Channel, n
<1>7. ASSUME NEW c \in Channel PROVE Home(c) \subseteq BG
  <2> SUFFICES ASSUME NEW x \in 0 .. n - 1 PROVE c * n + x \in BG BY DEF Home, n
  <2> QED BY <1>1, <1>2, <1>6, Multiples
<1>8. ASSUME NEW c \in Channel, NEW d \in Channel, NEW b \in Home(c), b \in Home(d)
      PROVE  c = d
  <2>1. PICK x \in 0 .. n - 1 : b = c * n + x BY DEF Home, n
  <2>2. PICK y \in 0 .. n - 1 : b = d * n + y BY <1>8 DEF Home, n
  <2>3. c \in Nat /\ d \in Nat /\ c * n + x = d * n + y BY <1>4, <2>1, <2>2
  <2> QED BY <1>1, <2>3, MultiplesApart
<1>9. ASSUME NEW b \in BG PROVE \E c \in Channel : b \in Home(c)
  <2>1. b \in 0 .. Channels * n - 1 BY <1>6
  <2>2. PICK c \in 0 .. Channels - 1 : \E x \in 0 .. n - 1 : b = c * n + x
    BY <1>1, <1>2, <2>1, MultipleExists
  <2>3. b \in Home(c) BY <2>2 DEF Home, n
  <2> QED BY <1>6, <2>2, <2>3
<1>10. ASSUME NEW r \in Rank, NEW x \in 0 .. BankGroupsPerRank - 1
       PROVE  r * BankGroupsPerRank + x \in BG
  <2> DEFINE k == Channels * RanksPerChannel
  <2>1. k \in Nat /\ r \in 0 .. k - 1 BY Config DEF Rank
  <2>2. k * BankGroupsPerRank = Channels * n BY Config DEF n, BankGroupsPerChannel
  <2> HIDE DEF k
  <2>3. r * BankGroupsPerRank + x \in 0 .. k * BankGroupsPerRank - 1 BY <2>1, Config, Multiples
  <2> QED BY <1>6, <2>2, <2>3
<1> QED BY <1>1, <1>3, <1>4, <1>5, <1>7, <1>8, <1>9, <1>10 DEF n

-----------------------------------------------------------------------------
(* The bursts of a bank group that has sealed u records in bursts: all are *)
(* full but perhaps the last.                                              *)

\* The records before burst n, those in the first n bursts, and those in burst n.
Before(n)    == (n - 1) * RecordsPerBurst
InFirst(n, u) == IF n * RecordsPerBurst <= u THEN n * RecordsPerBurst ELSE u
Size(n, u)   == InFirst(n, u) - InFirst(n - 1, u)

BurstOf(b, n, u) ==
  [number |-> n, records |-> [i \in 1 .. Size(n, u) |-> [bg |-> b, seq |-> Before(n) + i]]]

\* There is a burst n: it has at least one record.
IsBurst(n, u) == n \in Nat \ {0} /\ Before(n) < u

\* Multiples of the burst size.
LEMMA Times ==
  ASSUME NEW m \in Nat, NEW n \in Nat, m <= n
  PROVE  /\ m * RecordsPerBurst \in Nat /\ n * RecordsPerBurst \in Nat
         /\ m * RecordsPerBurst <= n * RecordsPerBurst
         /\ (m + 1) * RecordsPerBurst = m * RecordsPerBurst + RecordsPerBurst
<1> DEFINE r == RecordsPerBurst
<1>1. r \in Nat BY Config
<1> HIDE DEF r
<1>2. n - m \in Nat OBVIOUS
<1>3. (n - m) * r \in Nat BY <1>1, <1>2
<1>4. (n - m) * r = n * r - m * r BY <1>1
<1>5. m * r \in Nat /\ n * r \in Nat BY <1>1
<1>6. (m + 1) * r = m * r + r BY <1>1
<1>7. m * r <= n * r BY <1>3, <1>4, <1>5
<1> QED BY <1>5, <1>6, <1>7 DEF r

\* The records of a burst.
LEMMA BurstFacts ==
  ASSUME NEW n, NEW u \in Nat, IsBurst(n, u)
  PROVE  /\ Before(n) \in Nat /\ InFirst(n - 1, u) = Before(n)
         /\ Size(n, u) \in 1 .. RecordsPerBurst
         /\ InFirst(n, u) = Before(n) + Size(n, u) /\ InFirst(n, u) <= u
         /\ \A m \in 1 .. n : IsBurst(m, u)
         /\ \A b : /\ BurstOf(b, n, u).number = n
                   /\ Len(BurstOf(b, n, u).records) = Size(n, u)
                   /\ \A i \in 1 .. Size(n, u) :
                        BurstOf(b, n, u).records[i] = [bg |-> b, seq |-> Before(n) + i]
                   /\ BurstOf(b, n, u).records # <<>>
                   /\ BurstOf(b, n, u) # NoBurst
         /\ \A b \in BG : BurstOf(b, n, u) \in BurstType
<1>1. n \in Nat \ {0} /\ Before(n) < u /\ Before(n) = (n - 1) * RecordsPerBurst
  BY DEF IsBurst, Before
<1>2. /\ n - 1 \in Nat /\ (n - 1) * RecordsPerBurst \in Nat /\ n * RecordsPerBurst \in Nat
      /\ n * RecordsPerBurst = (n - 1) * RecordsPerBurst + RecordsPerBurst
  <2>1. n - 1 \in Nat /\ n - 1 <= n /\ (n - 1) + 1 = n BY <1>1
  <2> QED BY <1>1, <2>1, Times
<1>3. InFirst(n - 1, u) = Before(n)
  <2>1. Before(n) <= u BY <1>1, <1>2
  <2>2. InFirst(n - 1, u) = IF Before(n) <= u THEN Before(n) ELSE u BY <1>1 DEF InFirst
  <2> QED BY <2>1, <2>2
<1>4. /\ Size(n, u) \in 1 .. RecordsPerBurst
      /\ InFirst(n, u) = Before(n) + Size(n, u) /\ InFirst(n, u) <= u
  <2> DEFINE y == n * RecordsPerBurst
             x == Before(n)
  <2>1. x \in Nat /\ y \in Nat /\ y = x + RecordsPerBurst /\ RecordsPerBurst \in Nat \ {0}
        /\ x < u
    BY <1>1, <1>2, Config
  <2>2. InFirst(n, u) = IF y <= u THEN y ELSE u BY DEF InFirst
  <2>3. Size(n, u) = InFirst(n, u) - x BY <1>3 DEF Size
  <2> HIDE DEF x, y
  <2>4. InFirst(n, u) - x \in 1 .. RecordsPerBurst /\ InFirst(n, u) <= u /\ InFirst(n, u) \in Nat
    BY <2>1, <2>2
  <2> QED BY <2>1, <2>3, <2>4 DEF x
<1>5. ASSUME NEW m \in 1 .. n PROVE IsBurst(m, u)
  <2>1. m - 1 \in Nat /\ n - 1 \in Nat /\ m - 1 <= n - 1 /\ m \in Nat \ {0} BY <1>1
  <2>2. (m - 1) * RecordsPerBurst <= (n - 1) * RecordsPerBurst
        /\ (m - 1) * RecordsPerBurst \in Nat
    BY <2>1, Times
  <2> QED BY <1>1, <1>2, <2>1, <2>2 DEF IsBurst, Before
<1>6. Size(n, u) \in Nat \ {0} /\ Before(n) \in Nat /\ RecordsPerBurst \in Nat
  BY <1>1, <1>2, <1>4, Config
<1>7. ASSUME NEW b
      PROVE  /\ BurstOf(b, n, u).number = n
             /\ Len(BurstOf(b, n, u).records) = Size(n, u)
             /\ \A i \in 1 .. Size(n, u) :
                  BurstOf(b, n, u).records[i] = [bg |-> b, seq |-> Before(n) + i]
             /\ BurstOf(b, n, u).records # <<>>
             /\ BurstOf(b, n, u) # NoBurst
  <2>1. /\ BurstOf(b, n, u).number = n
        /\ BurstOf(b, n, u).records
             = [i \in 1 .. Size(n, u) |-> [bg |-> b, seq |-> Before(n) + i]]
    BY DEF BurstOf
  <2>2. NoBurst.number = 0 BY DEF NoBurst
  <2>3. Len(BurstOf(b, n, u).records) = Size(n, u) BY <1>6, <2>1
  <2>4. BurstOf(b, n, u).records # <<>> BY <1>6, <2>3
  <2> QED BY <1>1, <2>1, <2>2, <2>3, <2>4
<1>8. ASSUME NEW b \in BG PROVE BurstOf(b, n, u) \in BurstType
  <2>1. \A i \in 1 .. Size(n, u) : [bg |-> b, seq |-> Before(n) + i] \in RecordType
    BY <1>6 DEF RecordType
  <2>2. [i \in 1 .. Size(n, u) |-> [bg |-> b, seq |-> Before(n) + i]] \in Seq(RecordType)
    BY <1>6, <2>1
  <2> QED BY <1>1, <2>2 DEF BurstOf, BurstType
<1> QED BY <1>1, <1>2, <1>3, <1>4, <1>5, <1>7, <1>8

\* What is in the first bursts does not change when another burst is sealed.
LEMMA BurstsKeep ==
  ASSUME NEW k \in Nat, NEW v \in Nat, k * RecordsPerBurst <= v, NEW n \in 0 .. k
  PROVE  LET u == k * RecordsPerBurst
         IN  /\ InFirst(n, u) = InFirst(n, v)
             /\ n # 0 => \A b : BurstOf(b, n, u) = BurstOf(b, n, v)
<1> DEFINE u == k * RecordsPerBurst
<1>1. \A m \in 0 .. k : InFirst(m, u) = InFirst(m, v)
  <2> SUFFICES ASSUME NEW m \in 0 .. k PROVE InFirst(m, u) = InFirst(m, v) OBVIOUS
  <2>1. m * RecordsPerBurst <= u /\ m * RecordsPerBurst \in Nat /\ u \in Nat BY Times
  <2>2. m * RecordsPerBurst <= v BY <2>1
  <2> HIDE DEF u
  <2> QED BY <2>1, <2>2 DEF InFirst
<1> HIDE DEF u
<1>2. n # 0 => n - 1 \in 0 .. k OBVIOUS
<1>3. n # 0 => Size(n, u) = Size(n, v) BY <1>1, <1>2 DEF Size
<1>4. n # 0 => \A b : BurstOf(b, n, u) = BurstOf(b, n, v) BY <1>3 DEF BurstOf
<1> QED BY <1>1, <1>4 DEF u

\* The records in the first bursts.
LEMMA InFirstFacts ==
  ASSUME NEW u \in Nat
  PROVE  /\ InFirst(0, u) = 0
         /\ \A n \in Nat : InFirst(n, u) \in Nat
         /\ \A n \in Nat : u <= n * RecordsPerBurst => InFirst(n, u) = u
<1>1. InFirst(0, u) = 0 BY Config DEF InFirst
<1>2. ASSUME NEW n \in Nat
      PROVE  InFirst(n, u) \in Nat /\ (u <= n * RecordsPerBurst => InFirst(n, u) = u)
  <2>1. n * RecordsPerBurst \in Nat BY Times
  <2> QED BY <2>1 DEF InFirst
<1> QED BY <1>1, <1>2

-----------------------------------------------------------------------------
(* Elements of several bank groups, each with a number, on their way: those *)
(* of one bank group come in the order of their numbers, without a gap.    *)

Element == [bg : BG, seq : Nat]

\* z holds of each bank group b of B the numbers above lo[b] up to hi[b].
Line(z, B, lo, hi) ==
  /\ \A i \in 1 .. Len(z) :
       z[i].bg \in B /\ z[i].seq \in lo[z[i].bg] + 1 .. hi[z[i].bg]
  /\ \A i, j \in 1 .. Len(z) : i < j /\ z[i].bg = z[j].bg => z[i].seq < z[j].seq
  /\ \A b \in B : \A n \in lo[b] + 1 .. hi[b] :
       \E i \in 1 .. Len(z) : z[i].bg = b /\ z[i].seq = n

\* A line goes on where another one ends.
LEMMA LineConcat ==
  ASSUME NEW B \in SUBSET BG, NEW y \in Seq(Element), NEW z \in Seq(Element),
         NEW lo \in [BG -> Nat], NEW mid \in [BG -> Nat], NEW hi \in [BG -> Nat],
         \A b \in B : lo[b] <= mid[b] /\ mid[b] <= hi[b],
         Line(y, B, lo, mid), Line(z, B, mid, hi)
  PROVE  Line(y \o z, B, lo, hi)
<1> DEFINE w == y \o z
<1>1. /\ Len(y) \in Nat /\ Len(z) \in Nat /\ Len(w) = Len(y) + Len(z)
      /\ \A i \in 1 .. Len(y) : w[i] = y[i]
      /\ \A i \in 1 .. Len(z) : w[Len(y) + i] = z[i]
  <2>1. /\ Len(y) \in Nat /\ Len(z) \in Nat /\ Len(w) = Len(y) + Len(z)
        /\ \A i \in 1 .. Len(y) + Len(z) :
             w[i] = IF i <= Len(y) THEN y[i] ELSE z[i - Len(y)]
    BY LenProperties, ConcatProperties
  <2> HIDE DEF w
  <2>2. \A i \in 1 .. Len(y) : w[i] = y[i] BY <2>1
  <2>3. \A i \in 1 .. Len(z) :
          /\ Len(y) + i \in 1 .. Len(y) + Len(z) /\ ~(Len(y) + i <= Len(y))
          /\ (Len(y) + i) - Len(y) = i
    BY <2>1
  <2>4. \A i \in 1 .. Len(z) : w[Len(y) + i] = z[i] BY <2>1, <2>3
  <2> QED BY <2>1, <2>2, <2>4
<1> HIDE DEF w
<1>2. ASSUME NEW i \in 1 .. Len(w), i > Len(y)
      PROVE  i - Len(y) \in 1 .. Len(z) /\ w[i] = z[i - Len(y)]
  <2>1. i - Len(y) \in 1 .. Len(z) /\ Len(y) + (i - Len(y)) = i BY <1>1, <1>2
  <2> QED BY <1>1, <2>1
<1>3. ASSUME NEW i \in 1 .. Len(y)
      PROVE  /\ i \in 1 .. Len(w) /\ w[i].bg \in B /\ w[i].seq \in Nat
             /\ lo[w[i].bg] < w[i].seq /\ w[i].seq <= mid[w[i].bg]
  <2>1. w[i] = y[i] /\ y[i].bg \in B /\ y[i].seq \in lo[y[i].bg] + 1 .. mid[y[i].bg]
    BY <1>1 DEF Line
  <2>2. y[i].bg \in BG BY <2>1
  <2> QED BY <1>1, <2>1, <2>2
<1>4. ASSUME NEW i \in 1 .. Len(w), i > Len(y)
      PROVE  /\ w[i].bg \in B /\ w[i].seq \in Nat
             /\ mid[w[i].bg] < w[i].seq /\ w[i].seq <= hi[w[i].bg]
  <2> DEFINE k == i - Len(y)
  <2>1. k \in 1 .. Len(z) /\ w[i] = z[k] BY <1>2, <1>4
  <2> HIDE DEF k
  <2>2. z[k].bg \in B /\ z[k].seq \in mid[z[k].bg] + 1 .. hi[z[k].bg] BY <2>1 DEF Line
  <2>3. z[k].bg \in BG BY <2>2
  <2> QED BY <2>1, <2>2, <2>3
<1>5. ASSUME NEW i \in 1 .. Len(w)
      PROVE  w[i].bg \in B /\ w[i].seq \in lo[w[i].bg] + 1 .. hi[w[i].bg]
  <2>1. CASE i <= Len(y)
    <3>1. i \in 1 .. Len(y) BY <1>1, <2>1
    <3>2. w[i].bg \in B /\ w[i].bg \in BG BY <1>3, <3>1
    <3>3. lo[w[i].bg] \in Nat /\ mid[w[i].bg] \in Nat /\ hi[w[i].bg] \in Nat
          /\ mid[w[i].bg] <= hi[w[i].bg]
      BY <3>2
    <3> QED BY <1>3, <3>1, <3>3
  <2>2. CASE i > Len(y)
    <3>2. w[i].bg \in B /\ w[i].bg \in BG BY <1>4, <2>2
    <3>3. lo[w[i].bg] \in Nat /\ mid[w[i].bg] \in Nat /\ hi[w[i].bg] \in Nat
          /\ lo[w[i].bg] <= mid[w[i].bg]
      BY <3>2
    <3> QED BY <1>4, <2>2, <3>3
  <2> QED BY <1>1, <2>1, <2>2
<1>6. ASSUME NEW i \in 1 .. Len(w), NEW j \in 1 .. Len(w), i < j, w[i].bg = w[j].bg
      PROVE  w[i].seq < w[j].seq
  <2>1. CASE j <= Len(y)
    <3>1. i \in 1 .. Len(y) /\ j \in 1 .. Len(y) BY <1>1, <1>6, <2>1
    <3>2. y[i].bg = y[j].bg /\ w[i] = y[i] /\ w[j] = y[j] BY <1>1, <1>6, <3>1
    <3> QED BY <1>6, <3>1, <3>2 DEF Line
  <2>2. CASE i > Len(y)
    <3>1. j > Len(y) /\ i - Len(y) < j - Len(y) BY <1>1, <1>6, <2>2
    <3>2. /\ i - Len(y) \in 1 .. Len(z) /\ w[i] = z[i - Len(y)]
          /\ j - Len(y) \in 1 .. Len(z) /\ w[j] = z[j - Len(y)]
      BY <1>2, <2>2, <3>1
    <3>3. \A c, d \in 1 .. Len(z) : c < d /\ z[c].bg = z[d].bg => z[c].seq < z[d].seq
      BY DEF Line
    <3> QED BY <1>6, <3>1, <3>2, <3>3
  <2>3. CASE i <= Len(y) /\ j > Len(y)
    <3>1. i \in 1 .. Len(y) BY <1>1, <2>3
    <3>2. /\ w[i].seq \in Nat /\ w[i].seq <= mid[w[i].bg] /\ w[i].bg \in BG
          /\ w[j].seq \in Nat /\ mid[w[j].bg] < w[j].seq
      BY <1>3, <1>4, <2>3, <3>1
    <3>3. mid[w[i].bg] \in Nat BY <3>2
    <3> QED BY <1>6, <3>2, <3>3
  <2> QED BY <1>1, <2>1, <2>2, <2>3
<1>7. ASSUME NEW b \in B, NEW n \in lo[b] + 1 .. hi[b]
      PROVE  \E i \in 1 .. Len(w) : w[i].bg = b /\ w[i].seq = n
  <2>0. b \in BG /\ lo[b] \in Nat /\ mid[b] \in Nat /\ hi[b] \in Nat OBVIOUS
  <2>1. CASE n <= mid[b]
    <3>1. n \in lo[b] + 1 .. mid[b] BY <2>0, <2>1
    <3>2. PICK i \in 1 .. Len(y) : y[i].bg = b /\ y[i].seq = n BY <3>1 DEF Line
    <3> QED BY <1>1, <1>3, <3>2
  <2>2. CASE n > mid[b]
    <3>1. n \in mid[b] + 1 .. hi[b] BY <2>0, <2>2
    <3>2. PICK i \in 1 .. Len(z) : z[i].bg = b /\ z[i].seq = n BY <3>1 DEF Line
    <3>3. Len(y) + i \in 1 .. Len(w) /\ w[Len(y) + i] = z[i] BY <1>1
    <3> QED BY <3>2, <3>3
  <2> QED BY <2>0, <2>1, <2>2
<1>8. Line(w, B, lo, hi) BY <1>5, <1>6, <1>7 DEF Line
<1> QED BY <1>8 DEF w

\* The first element is the lowest of its bank group; without it the line goes on.
LEMMA LineTail ==
  ASSUME NEW B \in SUBSET BG, NEW z \in Seq(Element), z # <<>>,
         NEW lo \in [BG -> Nat], NEW hi \in [BG -> Nat], Line(z, B, lo, hi),
         NEW mid \in [BG -> Nat],
         \A b \in BG : mid[b] = IF b = Head(z).bg THEN lo[b] + 1 ELSE lo[b]
  PROVE  /\ Head(z).bg \in B /\ Head(z).seq = lo[Head(z).bg] + 1
         /\ lo[Head(z).bg] < hi[Head(z).bg]
         /\ Line(Tail(z), B, mid, hi)
<1> DEFINE a == Head(z)
           t == Tail(z)
<1>1. /\ a = z[1] /\ t \in Seq(Element) /\ Len(t) = Len(z) - 1 /\ Len(z) \in Nat \ {0}
      /\ \A i \in 1 .. Len(t) : t[i] = z[i + 1]
  BY HeadTailProperties, EmptySeq
<1> HIDE DEF a, t
<1>2. 1 \in 1 .. Len(z) /\ Len(z) \in Nat BY <1>1
<1>3. a.bg \in B /\ a.bg \in BG /\ a.seq \in lo[a.bg] + 1 .. hi[a.bg] BY <1>1, <1>2 DEF Line
<1>4. lo[a.bg] \in Nat /\ hi[a.bg] \in Nat BY <1>3
<1>5. \A i \in 1 .. Len(t) : i + 1 \in 1 .. Len(z) /\ 1 < i + 1 /\ t[i] = z[i + 1] BY <1>1
<1>6. \A i \in 1 .. Len(t) : t[i].bg = a.bg => a.seq < t[i].seq
  <2>1. \A c, d \in 1 .. Len(z) : c < d /\ z[c].bg = z[d].bg => z[c].seq < z[d].seq BY DEF Line
  <2>2. ASSUME NEW i \in 1 .. Len(t), t[i].bg = a.bg PROVE a.seq < t[i].seq
    <3>1. i + 1 \in 1 .. Len(z) /\ 1 < i + 1 /\ t[i] = z[i + 1] BY <1>5
    <3> QED BY <1>1, <1>2, <2>1, <2>2, <3>1
  <2> QED BY <2>2
<1>7. a.seq = lo[a.bg] + 1
  <2>1. lo[a.bg] + 1 \in lo[a.bg] + 1 .. hi[a.bg] BY <1>3, <1>4
  <2>2. PICK i \in 1 .. Len(z) : z[i].bg = a.bg /\ z[i].seq = lo[a.bg] + 1
    BY <1>3, <2>1 DEF Line
  <2>3. CASE i = 1 BY <1>1, <2>2, <2>3
  <2>4. CASE i # 1
    <3>1. i - 1 \in 1 .. Len(t) /\ (i - 1) + 1 = i BY <1>1, <2>4
    <3>2. t[i - 1] = z[i] BY <1>5, <3>1
    <3>3. a.seq < lo[a.bg] + 1 BY <1>6, <2>2, <3>1, <3>2
    <3> QED BY <1>3, <1>4, <3>3
  <2> QED BY <2>3, <2>4
<1>8. ASSUME NEW i \in 1 .. Len(t)
      PROVE  t[i].bg \in B /\ t[i].seq \in mid[t[i].bg] + 1 .. hi[t[i].bg]
  <2>1. t[i].bg \in B /\ t[i].seq \in lo[t[i].bg] + 1 .. hi[t[i].bg] BY <1>5 DEF Line
  <2>2. t[i].bg \in BG /\ lo[t[i].bg] \in Nat /\ hi[t[i].bg] \in Nat BY <2>1
  <2>3. mid[t[i].bg] = IF t[i].bg = a.bg THEN lo[t[i].bg] + 1 ELSE lo[t[i].bg] BY <2>2 DEF a
  <2>4. t[i].bg = a.bg => lo[t[i].bg] + 1 < t[i].seq BY <1>6, <1>7
  <2> QED BY <2>1, <2>2, <2>3, <2>4
<1>9. ASSUME NEW i \in 1 .. Len(t), NEW j \in 1 .. Len(t), i < j, t[i].bg = t[j].bg
      PROVE  t[i].seq < t[j].seq
  <2>1. i + 1 < j + 1 /\ i + 1 \in 1 .. Len(z) /\ j + 1 \in 1 .. Len(z) BY <1>1, <1>9
  <2>2. t[i] = z[i + 1] /\ t[j] = z[j + 1] BY <1>1
  <2>3. \A c, d \in 1 .. Len(z) : c < d /\ z[c].bg = z[d].bg => z[c].seq < z[d].seq BY DEF Line
  <2> QED BY <1>9, <2>1, <2>2, <2>3
<1>10. ASSUME NEW b \in B, NEW n \in mid[b] + 1 .. hi[b]
       PROVE  \E i \in 1 .. Len(t) : t[i].bg = b /\ t[i].seq = n
  <2>1. /\ b \in BG /\ lo[b] \in Nat /\ hi[b] \in Nat
        /\ mid[b] = IF b = a.bg THEN lo[b] + 1 ELSE lo[b]
    BY DEF a
  <2>2. n \in lo[b] + 1 .. hi[b] /\ (b = a.bg => n # a.seq) BY <1>4, <1>7, <2>1
  <2>3. PICK i \in 1 .. Len(z) : z[i].bg = b /\ z[i].seq = n BY <2>2 DEF Line
  <2>4. i # 1 BY <1>1, <2>2, <2>3
  <2>5. i - 1 \in 1 .. Len(t) /\ (i - 1) + 1 = i BY <1>1, <2>4
  <2>6. t[i - 1] = z[i] BY <1>5, <2>5
  <2> QED BY <2>3, <2>5, <2>6
<1>11. Line(t, B, mid, hi) BY <1>8, <1>9, <1>10 DEF Line
<1>12. lo[a.bg] < hi[a.bg] BY <1>3, <1>4
<1> QED BY <1>3, <1>7, <1>11, <1>12 DEF a, t

\* The first element of a line.
LEMMA LineHead ==
  ASSUME NEW B \in SUBSET BG, NEW z \in Seq(Element), z # <<>>,
         NEW lo \in [BG -> Nat], NEW hi \in [BG -> Nat], Line(z, B, lo, hi)
  PROVE  /\ Head(z).bg \in B /\ Head(z).seq = lo[Head(z).bg] + 1
         /\ lo[Head(z).bg] < hi[Head(z).bg]
<1> DEFINE mid == [b \in BG |-> IF b = Head(z).bg THEN lo[b] + 1 ELSE lo[b]]
<1>1. mid \in [BG -> Nat]
      /\ \A b \in BG : mid[b] = IF b = Head(z).bg THEN lo[b] + 1 ELSE lo[b]
  OBVIOUS
<1> HIDE DEF mid
<1> QED BY <1>1, LineTail, ZenonT(60)

\* In a line from the first number on, an element's number is its position among those
\* of its bank group.
LEMMA LineCounts ==
  ASSUME NEW B \in SUBSET BG, NEW z \in Seq(Element), NEW hi \in [BG -> Nat],
         NEW lo \in [BG -> Nat], \A b \in BG : lo[b] = 0, Line(z, B, lo, hi),
         NEW m \in 0 .. Len(z), NEW b \in B, NEW n \in 0 .. hi[b],
         \A i \in 1 .. m : z[i].bg = b => z[i].seq <= n,
         \A i \in 1 .. Len(z) : i > m /\ z[i].bg = b => z[i].seq > n
  PROVE  Cardinality({i \in 1 .. m : z[i].bg = b}) = n
<1> DEFINE S == {i \in 1 .. m : z[i].bg = b}
           h == [i \in S |-> z[i].seq]
<1>1. Len(z) \in Nat /\ m \in Nat /\ hi[b] \in Nat /\ n \in Nat /\ lo[b] = 0 BY LenProperties
<1>2. \A i \in S : i \in 1 .. m /\ i \in 1 .. Len(z) /\ z[i].bg = b /\ h[i] = z[i].seq BY <1>1
<1>3. \A i \in 1 .. m : z[i].bg = b => i \in S OBVIOUS
<1>4. IsFiniteSet(S)
  <2>1. IsFiniteSet(1 .. m) /\ S \in SUBSET (1 .. m) BY <1>1, FS_Interval
  <2> QED BY <2>1, FS_Subset
<1>5. h = [i \in S |-> z[i].seq] OBVIOUS
<1> HIDE DEF S, h
<1>6. ASSUME NEW i \in S PROVE z[i].seq \in 1 .. n
  <2>1. z[i].seq \in lo[b] + 1 .. hi[b] BY <1>2 DEF Line
  <2>2. z[i].seq <= n BY <1>2
  <2> QED BY <1>1, <2>1, <2>2
<1>7. h \in [S -> 1 .. n] BY <1>5, <1>6
<1>8. ASSUME NEW i \in S, NEW j \in S, h[i] = h[j] PROVE i = j
  <2>1. /\ i \in 1 .. Len(z) /\ j \in 1 .. Len(z) /\ z[i].bg = z[j].bg
        /\ z[i].seq = z[j].seq
    BY <1>2, <1>8
  <2>2. z[i].seq \in 1 .. n BY <1>6
  <2>4. \A c, d \in 1 .. Len(z) : c < d /\ z[c].bg = z[d].bg => z[c].seq < z[d].seq BY DEF Line
  <2>5. ~(z[i].seq < z[j].seq) /\ ~(z[j].seq < z[i].seq) BY <2>1, <2>2
  <2>3. ~(i < j) /\ ~(j < i) BY <2>1, <2>4, <2>5
  <2> QED BY <1>1, <2>1, <2>3
<1>9. ASSUME NEW k \in 1 .. n PROVE \E i \in S : h[i] = k
  <2>1. k \in lo[b] + 1 .. hi[b] BY <1>1
  <2>2. PICK i \in 1 .. Len(z) : z[i].bg = b /\ z[i].seq = k BY <2>1 DEF Line
  <2>3. ~(i > m) BY <1>1, <2>2
  <2>4. i \in 1 .. m BY <1>1, <2>3
  <2> QED BY <1>2, <1>3, <2>2, <2>4
<1>10. Cardinality(1 .. n) = Cardinality(S) BY <1>4, <1>7, <1>8, <1>9, SameSize
<1>11. Cardinality(1 .. n) = n
  <2>1. 1 \in Int /\ n \in Int /\ n >= 0 BY <1>1
  <2>2. Cardinality(1 .. n) = IF 1 > n THEN 0 ELSE n - 1 + 1 BY <2>1, FS_Interval
  <2> QED BY <1>1, <2>2
<1> QED BY <1>10, <1>11 DEF S

-----------------------------------------------------------------------------
(* The inductive invariant, bank group by bank group                       *)

GroupType ==
  [packer : Seq(RecordType), pending : Seq(BurstType),
   inflight : Seq([burst : BurstType, slot : BufferSlot, wait : Nat]),
   resident : [BufferSlot -> BurstType],
   reserved : [BufferSlot -> BOOLEAN], reservedCount : Nat,
   reading : [BufferSlot -> BOOLEAN],
   lastOutput : Nat, nextBurst : Nat \ {0}, nextRead : Nat \ {0},
   lifecycle : BOOLEAN, tailFlushed : BOOLEAN]

\* The records a bank group has sealed in bursts, its bursts, those it has written and
\* those it has asked to be read back.
Sealed(g)  == g.lastOutput - Len(g.packer)
Bursts(g)  == g.nextBurst - 1
Written(g) == Bursts(g) - Len(g.pending) - Len(g.inflight)
Asked(g)   == g.nextRead - 1

\* The packer holds the latest records, the bursts all earlier ones; only the tail
\* burst of a bank group that has drained may be partial.
Packing(g, b, d) ==
  /\ Len(g.packer) <= g.lastOutput
  /\ Len(g.packer) < RecordsPerBurst
  /\ \A i \in 1 .. Len(g.packer) : g.packer[i] = [bg |-> b, seq |-> Sealed(g) + i]
  /\ Sealed(g) <= Bursts(g) * RecordsPerBurst
  /\ Bursts(g) # 0 => Before(Bursts(g)) < Sealed(g)
  /\ ~g.tailFlushed => Sealed(g) = Bursts(g) * RecordsPerBurst
  /\ g.tailFlushed => g.packer = <<>> /\ g.lifecycle
  /\ g.lifecycle => d

\* The bursts not yet written are being written or pending, in the order of their
\* numbers, and the writes are at least a cycle apart.
Sending(g, b, low, high) ==
  /\ Written(g) \in Nat
  /\ \A i \in 1 .. Len(g.inflight) :
       /\ g.inflight[i].burst = BurstOf(b, Written(g) + i, Sealed(g))
       /\ low <= g.inflight[i].wait /\ g.inflight[i].wait <= high
  /\ \A i, j \in 1 .. Len(g.inflight) : i < j => g.inflight[i].wait < g.inflight[j].wait
  /\ \A i \in 1 .. Len(g.pending) :
       g.pending[i] = BurstOf(b, Written(g) + Len(g.inflight) + i, Sealed(g))

\* The buffer holds the bursts written and not yet read, r of them, each once; those
\* below nextRead are being read.
Holding(g, b, r) ==
  /\ r \in Nat /\ r <= Asked(g) /\ Asked(g) <= Written(g)
  /\ \A k \in BufferSlot : g.resident[k] # NoBurst =>
       /\ r < g.resident[k].number /\ g.resident[k].number <= Written(g)
       /\ g.resident[k] = BurstOf(b, g.resident[k].number, Sealed(g))
  /\ \A j, k \in BufferSlot :
       g.resident[j] # NoBurst /\ g.resident[j].number = g.resident[k].number => j = k
  /\ \A n \in r + 1 .. Written(g) : \E k \in BufferSlot : g.resident[k].number = n
  /\ \A k \in BufferSlot :
       g.reading[k] <=> g.resident[k] # NoBurst /\ g.resident[k].number < g.nextRead

\* Each write has a free slot of its own reserved.
Claims(g) ==
  /\ \A k \in BufferSlot :
       g.reserved[k] <=> \E i \in 1 .. Len(g.inflight) : g.inflight[i].slot = k
  /\ \A i \in 1 .. Len(g.inflight) : g.resident[g.inflight[i].slot] = NoBurst
  /\ \A i, j \in 1 .. Len(g.inflight) : g.inflight[i].slot = g.inflight[j].slot => i = j
  /\ g.reservedCount = Len(g.inflight)

Group(g, b, d, low, high, r) ==
  /\ g \in GroupType
  /\ Packing(g, b, d)
  /\ Sending(g, b, low, high)
  /\ Holding(g, b, r)
  /\ Claims(g)

\* A bank group's fields and their domains.
LEMMA GroupFields ==
  ASSUME NEW g \in GroupType
  PROVE  /\ g.packer \in Seq(RecordType) /\ Len(g.packer) \in Nat
         /\ g.pending \in Seq(BurstType) /\ Len(g.pending) \in Nat
         /\ g.inflight \in Seq([burst : BurstType, slot : BufferSlot, wait : Nat])
         /\ Len(g.inflight) \in Nat
         /\ \A i \in 1 .. Len(g.inflight) :
              /\ g.inflight[i] \in [burst : BurstType, slot : BufferSlot, wait : Nat]
              /\ g.inflight[i].burst \in BurstType /\ g.inflight[i].slot \in BufferSlot
              /\ g.inflight[i].wait \in Nat
         /\ g.resident \in [BufferSlot -> BurstType]
         /\ \A k \in BufferSlot : g.resident[k].number \in Nat
         /\ g.reserved \in [BufferSlot -> BOOLEAN] /\ g.reservedCount \in Nat
         /\ g.reading \in [BufferSlot -> BOOLEAN]
         /\ g.lastOutput \in Nat /\ Sealed(g) \in Int
         /\ g.nextBurst \in Nat \ {0} /\ Bursts(g) \in Nat
         /\ g.nextRead \in Nat \ {0} /\ Asked(g) \in Nat
         /\ g.lifecycle \in BOOLEAN /\ g.tailFlushed \in BOOLEAN
<1>1. /\ g.packer \in Seq(RecordType) /\ g.pending \in Seq(BurstType)
      /\ g.inflight \in Seq([burst : BurstType, slot : BufferSlot, wait : Nat])
      /\ g.resident \in [BufferSlot -> BurstType]
      /\ g.reserved \in [BufferSlot -> BOOLEAN] /\ g.reservedCount \in Nat
      /\ g.reading \in [BufferSlot -> BOOLEAN]
      /\ g.lastOutput \in Nat /\ g.nextBurst \in Nat \ {0} /\ g.nextRead \in Nat \ {0}
      /\ g.lifecycle \in BOOLEAN /\ g.tailFlushed \in BOOLEAN
  BY DEF GroupType
<1>2. Len(g.packer) \in Nat /\ Len(g.pending) \in Nat /\ Len(g.inflight) \in Nat BY <1>1
<1>3. \A i \in 1 .. Len(g.inflight) :
        g.inflight[i] \in [burst : BurstType, slot : BufferSlot, wait : Nat]
  BY <1>1, ElementOfSeq
<1>4. \A k \in BufferSlot : g.resident[k].number \in Nat BY <1>1 DEF BurstType
<1>5. Sealed(g) \in Int /\ Bursts(g) \in Nat /\ Asked(g) \in Nat
  BY <1>1, <1>2 DEF Sealed, Bursts, Asked
<1> QED BY <1>1, <1>2, <1>3, <1>4, <1>5

\* What is written, sealed and so on in numbers.
LEMMA GroupNumbers ==
  ASSUME NEW g, NEW b, NEW d, NEW low, NEW high, NEW r, Group(g, b, d, low, high, r)
  PROVE  /\ g \in GroupType /\ Sealed(g) \in Nat /\ Written(g) \in Nat /\ Bursts(g) \in Nat
         /\ Asked(g) \in Nat /\ r \in Nat /\ r <= Asked(g) /\ Asked(g) <= Written(g)
         /\ Written(g) + Len(g.inflight) + Len(g.pending) = Bursts(g)
         /\ Written(g) <= Bursts(g)
         /\ \A n \in 1 .. Bursts(g) : IsBurst(n, Sealed(g))
         /\ InFirst(Bursts(g), Sealed(g)) = Sealed(g)
<1>1. g \in GroupType /\ Written(g) \in Nat /\ r \in Nat /\ r <= Asked(g) /\ Asked(g) <= Written(g)
      /\ Sealed(g) <= Bursts(g) * RecordsPerBurst
      /\ (Bursts(g) # 0 => Before(Bursts(g)) < Sealed(g))
      /\ Len(g.packer) <= g.lastOutput
  BY DEF Group, Sending, Holding, Packing
<1>2. /\ Len(g.packer) \in Nat /\ Len(g.pending) \in Nat /\ Len(g.inflight) \in Nat
      /\ g.lastOutput \in Nat /\ Bursts(g) \in Nat /\ Asked(g) \in Nat
  BY <1>1, GroupFields
<1>3. Sealed(g) \in Nat BY <1>1, <1>2 DEF Sealed
<1>4. Written(g) + Len(g.inflight) + Len(g.pending) = Bursts(g) BY <1>2 DEF Written
<1>5. Written(g) <= Bursts(g) BY <1>1, <1>2, <1>4
<1>6. ASSUME NEW n \in 1 .. Bursts(g) PROVE IsBurst(n, Sealed(g))
  <2>1. IsBurst(Bursts(g), Sealed(g)) BY <1>1, <1>2 DEF IsBurst
  <2> QED BY <1>3, <2>1, BurstFacts
<1>7. InFirst(Bursts(g), Sealed(g)) = Sealed(g) BY <1>1, <1>2, <1>3, InFirstFacts
<1> QED BY <1>1, <1>2, <1>3, <1>4, <1>5, <1>6, <1>7

\* NoBurst is the one burst with the number 0 in a buffer.
LEMMA ResidentNumbers ==
  ASSUME NEW g, NEW b, NEW d, NEW low, NEW high, NEW r, Group(g, b, d, low, high, r),
         NEW k \in BufferSlot
  PROVE  /\ g.resident[k] = NoBurst <=> g.resident[k].number = 0
         /\ g.resident[k] # NoBurst => g.resident[k].number \in r + 1 .. Written(g)
<1>1. r \in Nat /\ g.resident[k].number \in Nat /\ Written(g) \in Nat
      /\ (g.resident[k] # NoBurst =>
            r < g.resident[k].number /\ g.resident[k].number <= Written(g))
  BY GroupNumbers, GroupFields DEF Group, Holding
<1>2. NoBurst.number = 0 BY DEF NoBurst
<1> QED BY <1>1, <1>2

\* How many slots are full and how many are reserved.
LEMMA SlotCounts ==
  ASSUME NEW g, NEW b, NEW d, NEW low, NEW high, NEW r, Group(g, b, d, low, high, r)
  PROVE  /\ IsFiniteSet(Resident(g)) /\ Cardinality(Resident(g)) = Written(g) - r
         /\ Resident(g) \in SUBSET BufferSlot
         /\ Cardinality({k \in BufferSlot : g.reserved[k]}) = Len(g.inflight)
         /\ {g.inflight[i].slot : i \in 1 .. Len(g.inflight)} = {k \in BufferSlot : g.reserved[k]}
<1> DEFINE w == Written(g)
           s == [n \in r + 1 .. w |-> CHOOSE k \in BufferSlot : g.resident[k].number = n]
<1>1. g \in GroupType /\ w \in Nat /\ r \in Nat /\ r <= w
  <2> HIDE DEF w
  <2>1. w = Written(g) BY DEF w
  <2> QED BY <2>1, GroupNumbers
<1>2. \A n \in r + 1 .. w : s[n] \in BufferSlot /\ g.resident[s[n]].number = n
  BY DEF Group, Holding
<1>3. \A k \in BufferSlot : k \in Resident(g) <=> g.resident[k].number # 0
  BY ResidentNumbers DEF Resident
<1>4. \A k \in Resident(g) : k \in BufferSlot /\ g.resident[k].number \in r + 1 .. w
  BY ResidentNumbers DEF Resident
<1> HIDE DEF w
<1>5. s \in [r + 1 .. w -> Resident(g)]
  <2>1. \A n \in r + 1 .. w : s[n] \in Resident(g) BY <1>1, <1>2, <1>3
  <2>2. s = [n \in r + 1 .. w |-> s[n]] OBVIOUS
  <2> HIDE DEF s
  <2> QED BY <2>1, <2>2
<1> HIDE DEF s
<1>6. \A m, n \in r + 1 .. w : s[m] = s[n] => m = n BY <1>2
<1>7. \A k \in Resident(g) : \E n \in r + 1 .. w : s[n] = k
  <2> SUFFICES ASSUME NEW k \in Resident(g) PROVE \E n \in r + 1 .. w : s[n] = k OBVIOUS
  <2> DEFINE n == g.resident[k].number
  <2>1. n \in r + 1 .. w /\ k \in BufferSlot BY <1>4
  <2>2. s[n] \in Resident(g) /\ s[n] \in BufferSlot /\ g.resident[s[n]].number = g.resident[k].number
    BY <1>2, <1>5, <2>1
  <2>3. s[n] = k BY <2>1, <2>2 DEF Group, Holding, Resident
  <2> QED BY <2>1, <2>3
<1>8. IsFiniteSet(r + 1 .. w) /\ Cardinality(r + 1 .. w) = w - r
  <2>1. r + 1 \in Int /\ w \in Int BY <1>1
  <2>2. IsFiniteSet(r + 1 .. w) /\ Cardinality(r + 1 .. w) = IF r + 1 > w THEN 0 ELSE w - (r + 1) + 1
    BY <2>1, FS_Interval
  <2> QED BY <1>1, <2>2
<1>9. IsFiniteSet(Resident(g)) /\ Cardinality(Resident(g)) = w - r
  <2> DEFINE N == r + 1 .. w
             K == Resident(g)
  <2>1. /\ s \in [N -> K] /\ \A m, n \in N : s[m] = s[n] => m = n
        /\ \A k \in K : \E n \in N : s[n] = k
        /\ IsFiniteSet(N) /\ Cardinality(N) = w - r
    BY <1>5, <1>6, <1>7, <1>8
  <2> HIDE DEF N, K
  <2>2. IsFiniteSet(K) /\ Cardinality(K) = Cardinality(N) BY <2>1, SameSize
  <2> QED BY <2>1, <2>2 DEF K
<1> DEFINE m == Len(g.inflight)
           S == {k \in BufferSlot : g.reserved[k]}
           t == [i \in 1 .. m |-> g.inflight[i].slot]
<1>10. \A i \in 1 .. m : t[i] \in S
  <2> SUFFICES ASSUME NEW i \in 1 .. m PROVE t[i] \in S OBVIOUS
  <2>1. g.inflight[i].slot \in BufferSlot BY <1>1, GroupFields
  <2> QED BY <2>1 DEF Group, Claims
<1>11. \A k \in S : \E i \in 1 .. m : t[i] = k BY DEF Group, Claims
<1>12. \A i, j \in 1 .. m : t[i] = t[j] => i = j BY DEF Group, Claims
<1>13. m \in Nat BY <1>1, GroupFields
<1>14. {g.inflight[i].slot : i \in 1 .. m} = {t[i] : i \in 1 .. m} OBVIOUS
<1>15. t \in [1 .. m -> S] BY <1>10
<1> HIDE DEF m, S, t
<1>16. IsFiniteSet(1 .. m) /\ Cardinality(1 .. m) = m
  <2>1. 1 \in Int /\ m \in Int BY <1>13
  <2>2. IsFiniteSet(1 .. m) /\ Cardinality(1 .. m) = IF 1 > m THEN 0 ELSE m - 1 + 1
    BY <2>1, FS_Interval
  <2> QED BY <1>13, <2>2
<1>17. Cardinality(S) = m BY <1>11, <1>12, <1>15, <1>16, SameSize
<1>18. {t[i] : i \in 1 .. m} = S BY <1>10, <1>11
<1>19. Resident(g) \in SUBSET BufferSlot BY DEF Resident
<1> QED BY <1>9, <1>14, <1>17, <1>18, <1>19 DEF w, m, S

-----------------------------------------------------------------------------
(* What the phases do to a bank group                                      *)

\* A packer is not touched by what leaves its own fields alone.
LEMMA PackingKept ==
  ASSUME NEW g, NEW h, NEW b, NEW d, Packing(g, b, d), h.packer = g.packer,
         h.lastOutput = g.lastOutput, h.nextBurst = g.nextBurst,
         h.tailFlushed = g.tailFlushed, h.lifecycle = g.lifecycle
  PROVE  Packing(h, b, d) /\ Sealed(h) = Sealed(g) /\ Bursts(h) = Bursts(g)
<1>1. Sealed(h) = Sealed(g) /\ Bursts(h) = Bursts(g) BY DEF Sealed, Bursts
<1> QED BY <1>1 DEF Packing

\* What does not touch the buffer leaves it as it was.
LEMMA HoldingKept ==
  ASSUME NEW g, NEW h, NEW b, NEW r, Holding(g, b, r), h.resident = g.resident,
         h.reading = g.reading, h.nextRead = g.nextRead, Written(h) = Written(g),
         Sealed(h) = Sealed(g)
  PROVE  Holding(h, b, r)
<1>1. Asked(h) = Asked(g) BY DEF Asked
<1> QED BY <1>1 DEF Holding

\* What does not touch the writes leaves their claims as they were.
LEMMA ClaimsKept ==
  ASSUME NEW g, NEW h, Claims(g), h.resident = g.resident, h.reserved = g.reserved,
         h.reservedCount = g.reservedCount, Len(h.inflight) = Len(g.inflight),
         \A i \in 1 .. Len(g.inflight) : h.inflight[i].slot = g.inflight[i].slot
  PROVE  Claims(h)
BY DEF Claims

\* A cycle passes.
Later(g) == [g EXCEPT !.inflight = Counted(@)]

\* A cycle goes by: the writes have one cycle less to go.
LEMMA GroupNextCycle ==
  ASSUME NEW g, NEW b, NEW d, NEW high \in Nat, NEW r, Group(g, b, d, 1, high, r),
         NEW h, h = Later(g)
  PROVE  /\ Group(h, b, d, 0, high - 1, r)
         /\ h.packer = g.packer /\ h.pending = g.pending /\ h.resident = g.resident
         /\ h.nextBurst = g.nextBurst /\ h.nextRead = g.nextRead /\ h.lastOutput = g.lastOutput
         /\ h.lifecycle = g.lifecycle /\ h.tailFlushed = g.tailFlushed
         /\ Len(h.inflight) = Len(g.inflight)
<1>1. g \in GroupType /\ Len(g.inflight) \in Nat BY GroupFields DEF Group
<1>2. /\ h.packer = g.packer /\ h.pending = g.pending /\ h.resident = g.resident
      /\ h.reserved = g.reserved /\ h.reservedCount = g.reservedCount
      /\ h.reading = g.reading /\ h.lastOutput = g.lastOutput
      /\ h.nextBurst = g.nextBurst /\ h.nextRead = g.nextRead
      /\ h.lifecycle = g.lifecycle /\ h.tailFlushed = g.tailFlushed
      /\ h.inflight = Counted(g.inflight)
  BY <1>1 DEF GroupType, Later
<1> DEFINE s == g.inflight
           t == h.inflight
<1>3. DOMAIN s = 1 .. Len(s) BY <1>1, GroupFields
<1>4. \A i \in 1 .. Len(s) :
        /\ t[i] = [s[i] EXCEPT !.wait = @ - 1]
        /\ s[i] \in [burst : BurstType, slot : BufferSlot, wait : Nat]
        /\ s[i].wait \in Nat /\ 1 <= s[i].wait /\ s[i].wait <= high
  BY <1>1, <1>2, <1>3, GroupFields DEF Counted, Group, Sending
<1>5. ASSUME NEW i \in 1 .. Len(s)
      PROVE  /\ t[i] \in [burst : BurstType, slot : BufferSlot, wait : Nat]
             /\ t[i].burst = s[i].burst /\ t[i].slot = s[i].slot
             /\ t[i].wait = s[i].wait - 1 /\ s[i].wait \in Nat
             /\ 0 <= t[i].wait /\ t[i].wait <= high - 1
  <2> DEFINE x == s[i]
             y == t[i]
  <2>1. /\ y = [x EXCEPT !.wait = @ - 1]
        /\ x \in [burst : BurstType, slot : BufferSlot, wait : Nat]
        /\ x.wait \in Nat /\ 1 <= x.wait /\ x.wait <= high
    BY <1>4
  <2> HIDE DEF x, y
  <2>2. x.wait - 1 \in Nat /\ 0 <= x.wait - 1 /\ x.wait - 1 <= high - 1 BY <2>1
  <2>3. /\ y \in [burst : BurstType, slot : BufferSlot, wait : Nat]
        /\ y.burst = x.burst /\ y.slot = x.slot /\ y.wait = x.wait - 1
    BY <2>1, <2>2
  <2> QED BY <2>1, <2>2, <2>3 DEF x, y
<1>6. t = [i \in 1 .. Len(s) |-> t[i]]
  <2>1. t = [i \in DOMAIN s |-> [s[i] EXCEPT !.wait = @ - 1]] BY <1>2 DEF Counted
  <2> QED BY <1>3, <2>1
<1>7. t \in Seq([burst : BurstType, slot : BufferSlot, wait : Nat]) /\ Len(t) = Len(s)
  <2> HIDE DEF s, t
  <2>1. Len(s) \in Nat BY <1>1 DEF s
  <2> QED BY <1>5, <1>6, <2>1
<1>8. h \in GroupType
  <2>1. h = [g EXCEPT !.inflight = t] BY <1>2 DEF Later
  <2> QED BY <1>1, <1>7, <2>1 DEF GroupType
<1>9. Packing(h, b, d) /\ Sealed(h) = Sealed(g) /\ Bursts(h) = Bursts(g)
  BY <1>2, PackingKept DEF Group
<1>10. Written(h) = Written(g) BY <1>2, <1>7, <1>9 DEF Written
<1>11. Holding(h, b, r) BY <1>2, <1>9, <1>10, HoldingKept DEF Group
<1>12. Claims(h)
  <2>1. Claims(g) BY DEF Group
  <2>2. Len(h.inflight) = Len(g.inflight) BY <1>7
  <2>3. \A i \in 1 .. Len(g.inflight) : h.inflight[i].slot = g.inflight[i].slot BY <1>5
  <2> HIDE DEF s, t
  <2> QED BY <1>2, <2>1, <2>2, <2>3, ClaimsKept
<1>13. Sending(h, b, 0, high - 1)
  <2>1. Written(g) \in Nat /\ \A i \in 1 .. Len(s) : s[i].burst = BurstOf(b, Written(g) + i, Sealed(g))
    BY DEF Group, Sending
  <2>2. \A i, j \in 1 .. Len(s) : i < j => s[i].wait < s[j].wait BY DEF Group, Sending
  <2>3. \A i \in 1 .. Len(g.pending) :
          g.pending[i] = BurstOf(b, Written(g) + Len(s) + i, Sealed(g))
    BY DEF Group, Sending
  <2>4. \A i, j \in 1 .. Len(t) : i < j => t[i].wait < t[j].wait
    <3> SUFFICES ASSUME NEW i \in 1 .. Len(t), NEW j \in 1 .. Len(t), i < j
                 PROVE  t[i].wait < t[j].wait
      OBVIOUS
    <3>1. i \in 1 .. Len(s) /\ j \in 1 .. Len(s) BY <1>7
    <3>2. /\ s[i].wait < s[j].wait /\ s[i].wait \in Nat /\ s[j].wait \in Nat
          /\ t[i].wait = s[i].wait - 1 /\ t[j].wait = s[j].wait - 1
      BY <1>5, <2>2, <3>1
    <3> HIDE DEF s, t
    <3> QED BY <3>2
  <2>5. \A i \in 1 .. Len(t) : /\ t[i].burst = BurstOf(b, Written(h) + i, Sealed(h))
                               /\ 0 <= t[i].wait /\ t[i].wait <= high - 1
    BY <1>5, <1>7, <1>9, <1>10, <2>1
  <2>6. \A i \in 1 .. Len(h.pending) :
          h.pending[i] = BurstOf(b, Written(h) + Len(t) + i, Sealed(h))
    BY <1>2, <1>7, <1>9, <1>10, <2>3
  <2> QED BY <1>10, <2>1, <2>4, <2>5, <2>6 DEF Sending
<1> QED BY <1>2, <1>7, <1>8, <1>9, <1>11, <1>12, <1>13 DEF Group

\* The oldest write lands: its slot is empty and reserved for it.
LEMMA GroupLands ==
  ASSUME NEW g, NEW b, NEW d, NEW high, NEW r, Group(g, b, d, 0, high, r),
         g.inflight # <<>>, Head(g.inflight).wait = 0, NEW h, h = Landed(g)
  PROVE  /\ Group(h, b, d, 1, high, r)
         /\ h.packer = g.packer /\ h.pending = g.pending /\ h.nextBurst = g.nextBurst
         /\ h.nextRead = g.nextRead /\ h.lastOutput = g.lastOutput
         /\ h.lifecycle = g.lifecycle /\ h.tailFlushed = g.tailFlushed
         /\ Written(h) = Written(g) + 1
         /\ \A k \in BufferSlot : g.resident[k] # NoBurst => h.resident[k] = g.resident[k]
         /\ g.reservedCount # 0 /\ Head(g.inflight).slot \in BufferSlot
         /\ g.reserved[Head(g.inflight).slot] /\ ~g.reading[Head(g.inflight).slot]
         /\ Head(g.inflight).slot \notin Resident(g)
<1> DEFINE s == g.inflight
           t == h.inflight
           a == Head(s)
           q == a.slot
<1>1. g \in GroupType BY DEF Group
<1>2. /\ h.packer = g.packer /\ h.pending = g.pending
      /\ h.resident = [g.resident EXCEPT ![q] = a.burst]
      /\ h.reserved = [g.reserved EXCEPT ![q] = FALSE]
      /\ h.reservedCount = g.reservedCount - 1
      /\ h.reading = g.reading /\ h.lastOutput = g.lastOutput
      /\ h.nextBurst = g.nextBurst /\ h.nextRead = g.nextRead
      /\ h.lifecycle = g.lifecycle /\ h.tailFlushed = g.tailFlushed
      /\ t = Tail(s)
  BY <1>1 DEF GroupType, Landed
<1>3. /\ s \in Seq([burst : BurstType, slot : BufferSlot, wait : Nat]) /\ s # <<>>
      /\ g.reading \in [BufferSlot -> BOOLEAN] /\ g.reserved \in [BufferSlot -> BOOLEAN]
      /\ g.resident \in [BufferSlot -> BurstType]
  BY <1>1, GroupFields
<1>4. /\ a = s[1] /\ t \in Seq([burst : BurstType, slot : BufferSlot, wait : Nat])
      /\ Len(t) = Len(s) - 1 /\ Len(s) \in Nat \ {0}
      /\ \A i \in 1 .. Len(t) : t[i] = s[i + 1]
  <2> HIDE DEF s, t
  <2> QED BY <1>2, <1>3, HeadTailProperties, EmptySeq
<1>5. 1 \in 1 .. Len(s) /\ a \in [burst : BurstType, slot : BufferSlot, wait : Nat]
  BY <1>1, <1>4, GroupFields
<1>6. a.burst \in BurstType /\ q \in BufferSlot BY <1>5
<1>7. Written(g) \in Nat /\ Bursts(g) \in Nat /\ r \in Nat /\ Asked(g) \in Nat
      /\ Asked(g) <= Written(g) /\ r <= Asked(g) /\ Sealed(g) \in Nat
      /\ Written(g) + Len(s) + Len(g.pending) = Bursts(g) /\ Len(g.pending) \in Nat
      /\ \A n \in 1 .. Bursts(g) : IsBurst(n, Sealed(g))
  BY <1>1, GroupNumbers, GroupFields
<1>8. /\ a.burst = BurstOf(b, Written(g) + 1, Sealed(g))
      /\ g.resident[q] = NoBurst /\ g.reserved[q] /\ g.reservedCount = Len(s)
  BY <1>4, <1>5, <1>6 DEF Group, Sending, Claims
<1>9. a.burst.number = Written(g) + 1 /\ a.burst # NoBurst
  <2> DEFINE n == Written(g) + 1
             u == Sealed(g)
             x == a.burst
  <2>1. n \in 1 .. Bursts(g)
    <3> DEFINE w == Written(g)
               k == Len(s)
               l == Len(g.pending)
    <3>1. w \in Nat /\ k \in Nat \ {0} /\ l \in Nat /\ w + k + l = Bursts(g) BY <1>4, <1>7
    <3> HIDE DEF w, k, l
    <3>2. w + 1 \in 1 .. Bursts(g) BY <3>1
    <3> QED BY <3>2 DEF w
  <2>2. IsBurst(n, u) /\ u \in Nat /\ x = BurstOf(b, n, u) BY <1>7, <1>8, <2>1
  <2> HIDE DEF n, u, x
  <2>3. BurstOf(b, n, u).number = n /\ BurstOf(b, n, u) # NoBurst BY <2>2, BurstFacts
  <2>4. x.number = n /\ x # NoBurst BY <2>2, <2>3
  <2> QED BY <2>4 DEF n, x
<1>10. Packing(h, b, d) /\ Sealed(h) = Sealed(g) /\ Bursts(h) = Bursts(g)
  BY <1>2, PackingKept DEF Group
<1>11. Written(h) = Written(g) + 1 BY <1>2, <1>4, <1>7, <1>10 DEF Written
<1>12. h \in GroupType
  <2>1. h.reservedCount \in Nat BY <1>2, <1>4, <1>8
  <2>2. h.resident \in [BufferSlot -> BurstType] /\ h.reserved \in [BufferSlot -> BOOLEAN]
    BY <1>2, <1>3, <1>6
  <2>3. h = [g EXCEPT !.inflight = t, !.resident = h.resident, !.reserved = h.reserved,
                      !.reservedCount = h.reservedCount]
    BY <1>1, <1>2 DEF GroupType, Landed
  <2> QED BY <1>1, <1>4, <2>1, <2>2, <2>3 DEF GroupType
<1>13. ~g.reading[q] BY <1>6, <1>8 DEF Group, Holding
<1>14. \A k \in BufferSlot : h.resident[k] = IF k = q THEN a.burst ELSE g.resident[k]
  BY <1>2, <1>3, <1>6
<1> HIDE DEF s, t, a, q
<1>15. \A k \in BufferSlot : g.resident[k] # NoBurst => h.resident[k] = g.resident[k] /\ k # q
  BY <1>8, <1>14
<1>16. Sending(h, b, 1, high)
  <2>1. \A i \in 1 .. Len(t) :
          /\ i + 1 \in 1 .. Len(s) /\ 1 < i + 1 /\ t[i] = s[i + 1]
          /\ Written(g) + (i + 1) = Written(h) + i
    <3> SUFFICES ASSUME NEW i \in 1 .. Len(t)
                 PROVE  /\ i + 1 \in 1 .. Len(s) /\ 1 < i + 1 /\ t[i] = s[i + 1]
                        /\ Written(g) + (i + 1) = Written(h) + i
      OBVIOUS
    <3>1. i + 1 \in 1 .. Len(s) /\ 1 < i + 1 /\ i \in Nat BY <1>4
    <3>2. t[i] = s[i + 1] BY <1>4
    <3>3. Written(g) + (i + 1) = Written(h) + i BY <1>7, <1>11, <3>1
    <3> QED BY <3>1, <3>2, <3>3
  <2>2. \A i \in 1 .. Len(s) : /\ s[i].burst = BurstOf(b, Written(g) + i, Sealed(g))
                               /\ s[i].wait <= high
    BY DEF Group, Sending, s
  <2>3. \A i, j \in 1 .. Len(s) : i < j => s[i].wait < s[j].wait BY DEF Group, Sending, s
  <2>4. \A i \in 1 .. Len(s) : s[i].wait \in Nat BY <1>1, GroupFields DEF s
  <2>5. s[1].wait = 0 BY <1>4 DEF a, s
  <2>6. ASSUME NEW i \in 1 .. Len(t)
        PROVE  /\ t[i].burst = BurstOf(b, Written(h) + i, Sealed(h))
               /\ 1 <= t[i].wait /\ t[i].wait <= high
    <3>1. s[1].wait < s[i + 1].wait /\ s[i + 1].wait \in Nat BY <1>5, <2>1, <2>3, <2>4
    <3>2. t[i].burst = BurstOf(b, Written(h) + i, Sealed(h)) BY <1>10, <2>1, <2>2
    <3> QED BY <2>1, <2>2, <2>5, <3>1, <3>2
  <2>7. ASSUME NEW i \in 1 .. Len(t), NEW j \in 1 .. Len(t), i < j
        PROVE  t[i].wait < t[j].wait
    <3>1. i + 1 < j + 1 BY <1>4, <2>7
    <3> QED BY <2>1, <2>3, <3>1
  <2>8. ASSUME NEW i \in 1 .. Len(h.pending)
        PROVE  h.pending[i] = BurstOf(b, Written(h) + Len(t) + i, Sealed(h))
    <3>1. Written(h) + Len(t) + i = Written(g) + Len(s) + i BY <1>2, <1>4, <1>7, <1>11
    <3>2. \A j \in 1 .. Len(g.pending) :
            g.pending[j] = BurstOf(b, Written(g) + Len(s) + j, Sealed(g))
      BY DEF Group, Sending, s
    <3> QED BY <1>2, <1>10, <3>1, <3>2
  <2>9. Written(h) \in Nat BY <1>7, <1>11
  <2>10. /\ \A i \in 1 .. Len(h.inflight) :
             /\ h.inflight[i].burst = BurstOf(b, Written(h) + i, Sealed(h))
             /\ 1 <= h.inflight[i].wait /\ h.inflight[i].wait <= high
         /\ \A i, j \in 1 .. Len(h.inflight) : i < j => h.inflight[i].wait < h.inflight[j].wait
         /\ \A i \in 1 .. Len(h.pending) :
              h.pending[i] = BurstOf(b, Written(h) + Len(h.inflight) + i, Sealed(h))
    BY <2>6, <2>7, <2>8 DEF t
  <2> QED BY <2>9, <2>10 DEF Sending
<1>17. Holding(h, b, r)
  <2>0. Asked(h) = Asked(g) /\ h.reading = g.reading /\ h.nextRead = g.nextRead
        /\ g.nextRead \in Nat
    BY <1>1, <1>2, GroupFields DEF Asked
  <2>1. \A k \in BufferSlot : g.resident[k] # NoBurst =>
          /\ r < g.resident[k].number /\ g.resident[k].number <= Written(g)
          /\ g.resident[k] = BurstOf(b, g.resident[k].number, Sealed(g))
    BY DEF Group, Holding
  <2>2. \A k \in BufferSlot : g.resident[k].number \in Nat BY <1>1, GroupFields
  <2>3. r <= Asked(h) /\ Asked(h) <= Written(h) BY <1>7, <1>11, <2>0
  <2>4. ASSUME NEW k \in BufferSlot, h.resident[k] # NoBurst
        PROVE  /\ r < h.resident[k].number /\ h.resident[k].number <= Written(h)
               /\ h.resident[k] = BurstOf(b, h.resident[k].number, Sealed(h))
    <3>1. CASE k = q BY <1>7, <1>8, <1>9, <1>10, <1>11, <1>14, <3>1
    <3>2. CASE k # q
      <4>1. h.resident[k] = g.resident[k] /\ g.resident[k] # NoBurst BY <1>14, <2>4, <3>2
      <4>2. g.resident[k].number \in Nat BY <2>2
      <4> QED BY <1>7, <1>10, <1>11, <2>1, <4>1, <4>2
    <3> QED BY <3>1, <3>2
  <2>5. ASSUME NEW j \in BufferSlot, NEW k \in BufferSlot, h.resident[j] # NoBurst,
               h.resident[j].number = h.resident[k].number
        PROVE  j = k
    <3>1. \A i \in BufferSlot : g.resident[i].number # Written(g) + 1
      <4> SUFFICES ASSUME NEW i \in BufferSlot PROVE g.resident[i].number # Written(g) + 1
        OBVIOUS
      <4>1. g.resident[i] = NoBurst <=> g.resident[i].number = 0 BY ResidentNumbers
      <4> QED BY <1>7, <2>1, <2>2, <4>1
    <3>2. CASE j = q BY <1>9, <1>14, <2>5, <3>1, <3>2
    <3>3. CASE j # q
      <4>1. h.resident[j] = g.resident[j] BY <1>14, <3>3
      <4>2. k # q BY <1>9, <1>14, <2>5, <3>1, <4>1
      <4>3. h.resident[k] = g.resident[k] BY <1>14, <4>2
      <4> QED BY <2>5, <4>1, <4>3 DEF Group, Holding
    <3> QED BY <3>2, <3>3
  <2>6. ASSUME NEW n \in r + 1 .. Written(h) PROVE \E k \in BufferSlot : h.resident[k].number = n
    <3>1. CASE n = Written(g) + 1 BY <1>6, <1>9, <1>14, <3>1 DEF q
    <3>2. CASE n # Written(g) + 1
      <4>1. n \in r + 1 .. Written(g) /\ n # 0 BY <1>7, <1>11, <3>2
      <4>2. PICK k \in BufferSlot : g.resident[k].number = n BY <4>1 DEF Group, Holding
      <4>3. g.resident[k] # NoBurst BY <4>1, <4>2, ResidentNumbers
      <4> QED BY <1>15, <4>2, <4>3
    <3> QED BY <3>1, <3>2
  <2>7. ASSUME NEW k \in BufferSlot
        PROVE  h.reading[k] <=> h.resident[k] # NoBurst /\ h.resident[k].number < h.nextRead
    <3>1. CASE k = q
      <4>1. ~(Written(g) + 1 < g.nextRead) BY <1>7, <2>0 DEF Asked
      <4> QED BY <1>9, <1>13, <1>14, <2>0, <3>1, <4>1
    <3>2. CASE k # q
      <4>1. h.resident[k] = g.resident[k] BY <1>14, <3>2
      <4> QED BY <2>0, <4>1 DEF Group, Holding
    <3> QED BY <3>1, <3>2
  <2> QED BY <1>7, <2>3, <2>4, <2>5, <2>6, <2>7 DEF Holding
<1>18. Claims(h)
  <2>1. \A i, j \in 1 .. Len(s) : s[i].slot = s[j].slot => i = j BY DEF Group, Claims, s
  <2>2. \A i \in 1 .. Len(t) : /\ i + 1 \in 1 .. Len(s) /\ t[i] = s[i + 1] /\ i + 1 # 1 BY <1>4
  <2>3. \A i \in 1 .. Len(s) : s[i].slot \in BufferSlot /\ g.resident[s[i].slot] = NoBurst
    BY <1>1, GroupFields DEF Group, Claims, s
  <2>4. q = s[1].slot BY <1>4 DEF q
  <2>5. \A i \in 1 .. Len(t) : t[i].slot # q BY <1>5, <2>1, <2>2, <2>4
  <2>6. \A i \in 1 .. Len(t) : h.resident[t[i].slot] = NoBurst
    <3> SUFFICES ASSUME NEW i \in 1 .. Len(t) PROVE h.resident[t[i].slot] = NoBurst OBVIOUS
    <3>1. t[i].slot \in BufferSlot /\ g.resident[t[i].slot] = NoBurst /\ t[i].slot # q
      BY <2>2, <2>3, <2>5
    <3> QED BY <1>14, <3>1
  <2>7. ASSUME NEW i \in 1 .. Len(t), NEW j \in 1 .. Len(t), t[i].slot = t[j].slot PROVE i = j
    <3>1. i + 1 = j + 1 BY <2>1, <2>2, <2>7
    <3> QED BY <3>1
  <2>8. ASSUME NEW k \in BufferSlot
        PROVE  h.reserved[k] <=> \E i \in 1 .. Len(t) : t[i].slot = k
    <3>1. g.reserved[k] <=> \E i \in 1 .. Len(s) : s[i].slot = k BY DEF Group, Claims, s
    <3>2. h.reserved[k] <=> k # q /\ g.reserved[k] BY <1>2, <1>3
    <3>3. ASSUME NEW i \in 1 .. Len(s), s[i].slot = k, k # q
          PROVE  \E j \in 1 .. Len(t) : t[j].slot = k
      <4>1. i # 1 BY <2>4, <3>3
      <4>2. i - 1 \in 1 .. Len(t) /\ (i - 1) + 1 = i BY <1>4, <4>1
      <4>3. t[i - 1] = s[i] BY <2>2, <4>2
      <4> QED BY <3>3, <4>2, <4>3
    <3>4. ASSUME NEW j \in 1 .. Len(t), t[j].slot = k
          PROVE  k # q /\ \E i \in 1 .. Len(s) : s[i].slot = k
      BY <2>2, <2>5, <3>4
    <3> QED BY <3>1, <3>2, <3>3, <3>4
  <2>9. h.reservedCount = Len(t) BY <1>2, <1>4, <1>8
  <2> QED BY <2>6, <2>7, <2>8, <2>9 DEF Claims, t
<1>19. q \notin Resident(g) /\ g.reservedCount # 0 BY <1>4, <1>8 DEF Resident
<1>20. Group(h, b, d, 1, high, r) BY <1>10, <1>12, <1>16, <1>17, <1>18 DEF Group
<1> QED BY <1>2, <1>6, <1>8, <1>11, <1>13, <1>15, <1>19, <1>20 DEF q, a, s

\* Where none is done, all writes have a cycle or more to go.
LEMMA GroupWaits ==
  ASSUME NEW g, NEW b, NEW d, NEW high, NEW r, Group(g, b, d, 0, high, r),
         g.inflight = <<>> \/ Head(g.inflight).wait # 0
  PROVE  Group(g, b, d, 1, high, r)
<1> DEFINE s == g.inflight
<1>1. g \in GroupType BY DEF Group
<1>2. ASSUME NEW i \in 1 .. Len(s) PROVE 1 <= s[i].wait
  <2>1. Len(s) \in Nat /\ s \in Seq([burst : BurstType, slot : BufferSlot, wait : Nat])
    BY <1>1, GroupFields
  <2>2. s # <<>> /\ 1 \in 1 .. Len(s) BY <2>1
  <2>3. s[1].wait # 0 /\ s[1].wait \in Nat /\ s[i].wait \in Nat
    <3>1. Head(s) = s[1] BY <2>1, <2>2, HeadTailProperties
    <3> QED BY <1>1, <2>2, <3>1, GroupFields
  <2>4. i = 1 \/ s[1].wait < s[i].wait
    <3>1. i = 1 \/ 1 < i BY <2>1
    <3> QED BY <2>2, <3>1 DEF Group, Sending
  <2> QED BY <2>3, <2>4
<1>3. Sending(g, b, 1, high) BY <1>2 DEF Group, Sending
<1> QED BY <1>3 DEF Group

\* A number between others.
LEMMA Between ==
  ASSUME NEW r \in Nat, NEW x \in Nat, NEW m \in Nat, NEW n \in Nat, r < x, x <= m, m <= n
  PROVE  x \in 1 .. n
OBVIOUS

\* What is in the packer becomes a burst. (The packer may be full here.)
LEMMA GroupForms ==
  ASSUME NEW g \in GroupType, NEW b \in BG, NEW low, NEW high, NEW r,
         g.packer # <<>>, Len(g.packer) <= RecordsPerBurst, Len(g.packer) <= g.lastOutput,
         \A i \in 1 .. Len(g.packer) : g.packer[i] = [bg |-> b, seq |-> Sealed(g) + i],
         Sealed(g) = Bursts(g) * RecordsPerBurst,
         Sending(g, b, low, high), Holding(g, b, r), Claims(g),
         NEW h, h = Formed(g)
  PROVE  /\ h \in GroupType /\ h.packer = <<>> /\ h.nextBurst = g.nextBurst + 1
         /\ Len(h.pending) = Len(g.pending) + 1
         /\ h.inflight = g.inflight /\ h.resident = g.resident /\ h.nextRead = g.nextRead
         /\ h.lastOutput = g.lastOutput /\ h.lifecycle = g.lifecycle
         /\ h.tailFlushed = g.tailFlushed
         /\ Written(h) = Written(g) /\ Sealed(h) = g.lastOutput
         /\ Bursts(h) # 0 /\ Before(Bursts(h)) < Sealed(h)
         /\ Sealed(h) <= Bursts(h) * RecordsPerBurst
         /\ Len(g.packer) = RecordsPerBurst => Sealed(h) = Bursts(h) * RecordsPerBurst
         /\ Sending(h, b, low, high) /\ Holding(h, b, r) /\ Claims(h)
<1> DEFINE x == [number |-> g.nextBurst, records |-> g.packer]
           u == Sealed(g)
           v == g.lastOutput
           n == Bursts(g)
           m == Len(g.packer)
<1>1. /\ h.packer = <<>> /\ h.pending = Append(g.pending, x) /\ h.nextBurst = g.nextBurst + 1
      /\ h.inflight = g.inflight /\ h.resident = g.resident /\ h.reading = g.reading
      /\ h.reserved = g.reserved /\ h.reservedCount = g.reservedCount
      /\ h.nextRead = g.nextRead /\ h.lastOutput = g.lastOutput
      /\ h.lifecycle = g.lifecycle /\ h.tailFlushed = g.tailFlushed
  BY DEF GroupType, Formed
<1>2. /\ g.packer \in Seq(RecordType) /\ m \in Nat /\ g.pending \in Seq(BurstType)
      /\ Len(g.pending) \in Nat /\ Len(g.inflight) \in Nat /\ v \in Nat
      /\ g.nextBurst \in Nat \ {0} /\ n \in Nat /\ n + 1 = g.nextBurst
  BY GroupFields DEF Bursts
<1>3. x \in BurstType BY <1>2 DEF BurstType
<1>4. h.pending \in Seq(BurstType) /\ Len(h.pending) = Len(g.pending) + 1
      /\ h.pending[Len(g.pending) + 1] = x
      /\ \A i \in 1 .. Len(g.pending) : h.pending[i] = g.pending[i]
  <2> HIDE DEF x
  <2> QED BY <1>1, <1>2, <1>3, AppendProperties
<1>5. h \in GroupType
  <2>1. h = [g EXCEPT !.pending = h.pending, !.packer = h.packer, !.nextBurst = h.nextBurst]
    BY <1>1 DEF GroupType, Formed
  <2>2. <<>> \in Seq(RecordType) /\ h.nextBurst \in Nat \ {0} BY <1>1, <1>2
  <2> QED BY <1>1, <1>4, <2>1, <2>2 DEF GroupType
<1>6. Written(h) = Written(g) /\ Bursts(h) = n + 1
  <2>1. h.nextBurst = g.nextBurst + 1 /\ g.nextBurst \in Nat /\ h.inflight = g.inflight
        /\ Len(h.pending) = Len(g.pending) + 1 /\ Len(g.pending) \in Nat
        /\ Len(g.inflight) \in Nat
    BY <1>1, <1>2, <1>4
  <2> HIDE DEF x, u, v, m
  <2>2. Bursts(h) = Bursts(g) + 1 /\ Bursts(g) \in Int BY <2>1 DEF Bursts
  <2>3. Written(h) = Written(g) BY <2>1, <2>2 DEF Written
  <2> QED BY <2>2, <2>3
<1>7. m # 0 BY <1>2, EmptySeq
<1>8. Sealed(h) = v BY <1>1, <1>2 DEF Sealed
<1>9. u \in Nat /\ v = u + m /\ u = n * RecordsPerBurst BY <1>2 DEF Sealed
<1>10. (n + 1) * RecordsPerBurst = u + RecordsPerBurst /\ Before(n + 1) = u
  <2>1. (n + 1) * RecordsPerBurst = n * RecordsPerBurst + RecordsPerBurst BY <1>2, Times
  <2>2. (n + 1) - 1 = n BY <1>2
  <2> QED BY <1>9, <2>1, <2>2 DEF Before
<1>11. /\ Bursts(h) # 0 /\ Before(Bursts(h)) < Sealed(h)
       /\ Sealed(h) <= Bursts(h) * RecordsPerBurst
       /\ (m = RecordsPerBurst => Sealed(h) = Bursts(h) * RecordsPerBurst)
  <2>1. m <= RecordsPerBurst /\ m \in Nat /\ m # 0 /\ RecordsPerBurst \in Nat /\ n \in Nat
        /\ u \in Nat /\ v = u + m
    BY <1>2, <1>7, <1>9, Config
  <2>2. /\ Bursts(h) = n + 1 /\ Before(Bursts(h)) = u /\ Sealed(h) = v
        /\ Bursts(h) * RecordsPerBurst = u + RecordsPerBurst
    BY <1>6, <1>8, <1>10
  <2> HIDE DEF u, v, n, m
  <2>3. n + 1 # 0 /\ u < v /\ v <= u + RecordsPerBurst
        /\ (m = RecordsPerBurst => v = u + RecordsPerBurst)
    BY <2>1
  <2> QED BY <2>2, <2>3
<1>12. x = BurstOf(b, n + 1, v)
  <2>1. IsBurst(n + 1, v) BY <1>2, <1>7, <1>9, <1>10 DEF IsBurst
  <2>2. Size(n + 1, v) = m
    <3>1. InFirst((n + 1) - 1, v) = u BY <1>2, <1>9, <1>10, <2>1, BurstFacts
    <3>2. InFirst(n + 1, v) = v
      <4>1. v <= (n + 1) * RecordsPerBurst /\ n + 1 \in Nat BY <1>2, <1>9, <1>10, Config
      <4> HIDE DEF v, n
      <4> QED BY <1>2, <4>1, InFirstFacts
    <3> HIDE DEF u, v, n, m
    <3> QED BY <1>2, <1>9, <3>1, <3>2 DEF Size
  <2>3. g.packer = [i \in 1 .. m |-> [bg |-> b, seq |-> Before(n + 1) + i]]
    <3>1. g.packer = [i \in 1 .. m |-> g.packer[i]] BY <1>2
    <3>2. \A i \in 1 .. m : g.packer[i] = [bg |-> b, seq |-> Before(n + 1) + i] BY <1>10
    <3> HIDE DEF m, n
    <3> QED BY <3>1, <3>2
  <2>4. x.number = n + 1 /\ x.records = g.packer BY <1>2
  <2> HIDE DEF n, m, v
  <2>5. BurstOf(b, n + 1, v) = [number |-> n + 1, records |-> g.packer]
    BY <2>2, <2>3 DEF BurstOf
  <2> QED BY <1>2, <2>5
<1>13. \A i \in 1 .. n : BurstOf(b, i, u) = BurstOf(b, i, v)
  <2> SUFFICES ASSUME NEW i \in 1 .. n PROVE BurstOf(b, i, u) = BurstOf(b, i, v) OBVIOUS
  <2>1. i \in 0 .. n /\ i # 0 /\ n * RecordsPerBurst <= v BY <1>2, <1>9
  <2> HIDE DEF n, v, u
  <2> QED BY <1>2, <1>9, <2>1, BurstsKeep
<1>14. Written(g) \in Nat /\ Written(g) + Len(g.inflight) + Len(g.pending) = n
  BY <1>2 DEF Written, Sending
<1>18. /\ Written(g) \in Nat /\ Len(g.inflight) \in Nat /\ Len(g.pending) \in Nat
       /\ n \in Nat /\ Written(g) + Len(g.inflight) + Len(g.pending) = n
  BY <1>2, <1>14
<1> HIDE DEF x, u, v, n, m
<1>15. Sending(h, b, low, high)
  <2>1. ASSUME NEW i \in 1 .. Len(h.inflight)
        PROVE  /\ h.inflight[i].burst = BurstOf(b, Written(h) + i, Sealed(h))
               /\ low <= h.inflight[i].wait /\ h.inflight[i].wait <= high
    <3>3. i \in 1 .. Len(g.inflight) BY <1>1
    <3>1. Written(g) + i \in 1 .. n BY <1>18, <3>3
    <3>2. /\ g.inflight[i].burst = BurstOf(b, Written(g) + i, u)
          /\ low <= g.inflight[i].wait /\ g.inflight[i].wait <= high
      BY <1>1 DEF Sending, u
    <3> QED BY <1>1, <1>6, <1>8, <1>13, <3>1, <3>2
  <2>2. \A i, j \in 1 .. Len(h.inflight) : i < j => h.inflight[i].wait < h.inflight[j].wait
    BY <1>1 DEF Sending
  <2>3. ASSUME NEW i \in 1 .. Len(h.pending)
        PROVE  h.pending[i] = BurstOf(b, Written(h) + Len(h.inflight) + i, Sealed(h))
    <3>1. CASE i \in 1 .. Len(g.pending)
      <4>1. Written(g) + Len(g.inflight) + i \in 1 .. n
        <5> DEFINE w == Written(g)
                   k == Len(g.inflight)
                   l == Len(g.pending)
        <5>1. w \in Nat /\ k \in Nat /\ l \in Nat /\ w + k + l = n /\ i \in 1 .. l
          BY <1>18, <3>1
        <5> HIDE DEF w, k, l
        <5>2. w + k + i \in 1 .. n BY <5>1
        <5> QED BY <5>2 DEF w, k
      <4>2. g.pending[i] = BurstOf(b, Written(g) + Len(g.inflight) + i, u)
        BY <3>1 DEF Sending, u
      <4>3. h.pending[i] = g.pending[i] BY <1>4, <3>1
      <4> QED BY <1>1, <1>6, <1>8, <1>13, <4>1, <4>2, <4>3
    <3>2. CASE i = Len(g.pending) + 1
      <4>1. Written(g) + Len(g.inflight) + i = n + 1 BY <1>18, <3>2
      <4> QED BY <1>1, <1>4, <1>6, <1>8, <1>12, <3>2, <4>1
    <3> QED BY <1>2, <1>4, <3>1, <3>2
  <2>4. Written(h) \in Nat BY <1>6, <1>14
  <2> QED BY <2>1, <2>2, <2>3, <2>4 DEF Sending
<1>16. Holding(h, b, r)
  <2>1. \A k \in BufferSlot : g.resident[k] # NoBurst =>
          /\ r < g.resident[k].number /\ g.resident[k].number <= Written(g)
          /\ g.resident[k] = BurstOf(b, g.resident[k].number, u)
    BY DEF Holding, u
  <2>2. r \in Nat /\ r <= Asked(h) /\ Asked(h) <= Written(h) BY <1>1, <1>6 DEF Holding, Asked
  <2>3. ASSUME NEW k \in BufferSlot, h.resident[k] # NoBurst
        PROVE  /\ r < h.resident[k].number /\ h.resident[k].number <= Written(h)
               /\ h.resident[k] = BurstOf(b, h.resident[k].number, Sealed(h))
    <3>1. g.resident[k].number \in Nat BY GroupFields
    <3>2. g.resident[k].number \in 1 .. n
      <4>1. /\ g.resident[k] # NoBurst /\ r \in Nat /\ r < g.resident[k].number
            /\ g.resident[k].number <= Written(g)
        <5>1. h.resident[k] = g.resident[k] BY <1>1
        <5>2. g.resident[k] # NoBurst BY <2>3, <5>1
        <5> QED BY <2>1, <2>2, <5>2
      <4>2. Written(g) \in Nat /\ n \in Nat /\ Written(g) <= n BY <1>18
      <4> QED BY <3>1, <4>1, <4>2, Between
    <3> QED BY <1>1, <1>6, <1>8, <1>13, <2>1, <2>3, <3>2
  <2> QED BY <1>1, <1>6, <2>2, <2>3 DEF Holding
<1>17. Claims(h) BY <1>1, ClaimsKept
<1> QED BY <1>1, <1>4, <1>5, <1>6, <1>8, <1>11, <1>15, <1>16, <1>17 DEF v, m

\* A record is packed, of a bank group that has not drained; a full packer is sealed.
LEMMA GroupPacks ==
  ASSUME NEW g, NEW b \in BG, NEW d \in BOOLEAN, ~d, NEW low, NEW high, NEW r, Group(g, b, d, low, high, r),
         NEW h, h = Packed(g, b)
  PROVE  /\ h \in GroupType /\ Len(h.packer) = Len(g.packer) + 1 /\ h.pending = g.pending
         /\ h.nextBurst = g.nextBurst /\ h.inflight = g.inflight /\ h.resident = g.resident
         /\ h.nextRead = g.nextRead /\ h.lastOutput = g.lastOutput + 1
         /\ h.lifecycle = g.lifecycle /\ h.tailFlushed = g.tailFlushed
         /\ Written(h) = Written(g) /\ Sealed(h) = Sealed(g)
         /\ Len(h.packer) <= RecordsPerBurst
         /\ Len(h.packer) # RecordsPerBurst => Group(h, b, d, low, high, r)
         /\ Len(h.packer) = RecordsPerBurst =>
              /\ Group(Formed(h), b, d, low, high, r)
              /\ Formed(h).nextBurst = g.nextBurst + 1 /\ Formed(h).inflight = g.inflight
              /\ Formed(h).resident = g.resident /\ Formed(h).nextRead = g.nextRead
              /\ Formed(h).lastOutput = g.lastOutput + 1
              /\ Written(Formed(h)) = Written(g)
<1> DEFINE x == [bg |-> b, seq |-> g.lastOutput + 1]
<1>1. g \in GroupType BY DEF Group
<1>2. /\ h.packer = Append(g.packer, x) /\ h.pending = g.pending
      /\ h.nextBurst = g.nextBurst
      /\ h.inflight = g.inflight /\ h.resident = g.resident /\ h.reading = g.reading
      /\ h.reserved = g.reserved /\ h.reservedCount = g.reservedCount
      /\ h.nextRead = g.nextRead /\ h.lastOutput = g.lastOutput + 1
      /\ h.lifecycle = g.lifecycle /\ h.tailFlushed = g.tailFlushed
  BY <1>1 DEF GroupType, Packed
<1>3. /\ g.packer \in Seq(RecordType) /\ Len(g.packer) \in Nat /\ g.lastOutput \in Nat
      /\ g.lifecycle \in BOOLEAN /\ g.tailFlushed \in BOOLEAN /\ Len(g.pending) \in Nat
      /\ Len(g.inflight) \in Nat /\ g.nextBurst \in Nat
  BY <1>1, GroupFields
<1>4. x \in RecordType BY <1>3 DEF RecordType
<1>5. h.packer \in Seq(RecordType) /\ Len(h.packer) = Len(g.packer) + 1
      /\ h.packer[Len(g.packer) + 1] = x
      /\ \A i \in 1 .. Len(g.packer) : h.packer[i] = g.packer[i]
  <2> HIDE DEF x
  <2> QED BY <1>2, <1>3, <1>4, AppendProperties
<1>6. h \in GroupType
  <2>1. h = [g EXCEPT !.packer = h.packer, !.lastOutput = h.lastOutput]
    BY <1>1, <1>2 DEF GroupType, Packed
  <2>2. h.lastOutput \in Nat BY <1>2, <1>3
  <2> QED BY <1>1, <1>5, <2>1, <2>2 DEF GroupType
<1>7. g.lifecycle = FALSE /\ g.tailFlushed = FALSE BY <1>3 DEF Group, Packing
<1>8. Sealed(h) = Sealed(g) /\ Bursts(h) = Bursts(g) /\ Written(h) = Written(g)
      /\ g.lastOutput = Sealed(g) + Len(g.packer)
  <2> HIDE DEF x
  <2>1. Sealed(h) = Sealed(g) /\ g.lastOutput = Sealed(g) + Len(g.packer)
    <3>1. Len(h.packer) = Len(g.packer) + 1 /\ h.lastOutput = g.lastOutput + 1 BY <1>2, <1>5
    <3>2. Len(g.packer) \in Nat /\ g.lastOutput \in Nat BY <1>3
    <3> QED BY <3>1, <3>2 DEF Sealed
  <2>2. Bursts(h) = Bursts(g) BY <1>2 DEF Bursts
  <2>3. Written(h) = Written(g) BY <1>2, <2>2 DEF Written
  <2> QED BY <2>1, <2>2, <2>3
<1>9. Len(g.packer) < RecordsPerBurst /\ Len(g.packer) <= g.lastOutput
      /\ Sealed(g) = Bursts(g) * RecordsPerBurst
      /\ (Bursts(g) # 0 => Before(Bursts(g)) < Sealed(g))
  BY <1>7 DEF Group, Packing
<1>10. Len(h.packer) <= RecordsPerBurst /\ Len(h.packer) <= h.lastOutput
  BY <1>2, <1>3, <1>5, <1>9, Config
<1>11. ASSUME NEW i \in 1 .. Len(h.packer)
       PROVE  h.packer[i] = [bg |-> b, seq |-> Sealed(h) + i]
  <2>1. CASE i \in 1 .. Len(g.packer) BY <1>5, <1>8, <2>1 DEF Group, Packing
  <2>2. CASE i = Len(g.packer) + 1
    <3>1. Sealed(g) + i = g.lastOutput + 1
      <4>1. Sealed(g) \in Int BY <1>1, GroupFields
      <4> QED BY <1>3, <1>8, <2>2, <4>1
    <3> QED BY <1>5, <1>8, <2>2, <3>1
  <2> QED BY <1>3, <1>5, <2>1, <2>2
<1>12. Sending(h, b, low, high)
  <2>1. Sending(g, b, low, high) BY DEF Group
  <2> QED BY <1>2, <1>8, <2>1 DEF Sending
<1>13. Holding(h, b, r) BY <1>2, <1>8, HoldingKept DEF Group
<1>14. Claims(h) BY <1>2, ClaimsKept DEF Group
<1>15. ASSUME Len(h.packer) # RecordsPerBurst PROVE Group(h, b, d, low, high, r)
  <2>1. Len(h.packer) < RecordsPerBurst BY <1>3, <1>5, <1>10, <1>15, Config
  <2>2. Packing(h, b, d)
    <3>1. h.lifecycle = FALSE /\ h.tailFlushed = FALSE BY <1>2, <1>7
    <3>2. Bursts(h) \in Nat /\ Bursts(h) * RecordsPerBurst \in Int BY <1>6, GroupFields, Config
    <3> QED BY <1>8, <1>9, <1>10, <1>11, <2>1, <3>1, <3>2 DEF Packing
  <2> QED BY <1>6, <1>12, <1>13, <1>14, <2>2 DEF Group
<1>16. ASSUME Len(h.packer) = RecordsPerBurst
       PROVE  /\ Group(Formed(h), b, d, low, high, r)
              /\ Formed(h).nextBurst = g.nextBurst + 1 /\ Formed(h).inflight = g.inflight
              /\ Formed(h).resident = g.resident /\ Formed(h).nextRead = g.nextRead
              /\ Formed(h).lastOutput = g.lastOutput + 1
              /\ Written(Formed(h)) = Written(g)
  <2> DEFINE f == Formed(h)
  <2>1. h.packer # <<>> /\ Sealed(h) = Bursts(h) * RecordsPerBurst
    BY <1>3, <1>5, <1>8, <1>9, <1>16, Config, EmptySeq
  <2> HIDE DEF f
  <2>2. f = Formed(h) BY DEF f
  <2>3. /\ f \in GroupType /\ f.packer = <<>> /\ f.nextBurst = h.nextBurst + 1
        /\ f.inflight = h.inflight /\ f.resident = h.resident /\ f.nextRead = h.nextRead
        /\ f.lastOutput = h.lastOutput /\ f.lifecycle = h.lifecycle
        /\ f.tailFlushed = h.tailFlushed
        /\ Written(f) = Written(h) /\ Sealed(f) = h.lastOutput
        /\ Bursts(f) # 0 /\ Before(Bursts(f)) < Sealed(f)
        /\ Sealed(f) <= Bursts(f) * RecordsPerBurst
        /\ (Len(h.packer) = RecordsPerBurst => Sealed(f) = Bursts(f) * RecordsPerBurst)
        /\ Sending(f, b, low, high) /\ Holding(f, b, r) /\ Claims(f)
    BY <1>6, <1>10, <1>11, <1>12, <1>13, <1>14, <2>1, <2>2, GroupForms
  <2>4. Packing(f, b, d)
    <3>1. Len(<<>>) = 0 /\ f.lastOutput \in Nat BY <1>2, <1>3, <2>3
    <3> QED BY <1>2, <1>7, <1>16, <2>3, <3>1, Config DEF Packing
  <2> QED BY <1>2, <1>8, <2>3, <2>4 DEF Group, f
<1> QED BY <1>2, <1>5, <1>6, <1>7, <1>8, <1>10, <1>15, <1>16

\* A bank group that has drained sends its tail, if there is room.
LEMMA GroupFlushes ==
  ASSUME NEW g, NEW b \in BG, NEW e \in BOOLEAN, NEW d \in BOOLEAN, NEW low, NEW high, NEW r,
         Group(g, b, e, low, high, r), e => d, NEW h, h = FlushTail(g, d)
  PROVE  /\ Group(h, b, d, low, high, r)
         /\ h.nextBurst = IF HasTail(g, d) THEN g.nextBurst + 1 ELSE g.nextBurst
         /\ h.inflight = g.inflight /\ h.resident = g.resident /\ h.nextRead = g.nextRead
         /\ h.lastOutput = g.lastOutput
         /\ Written(h) = Written(g)
         /\ g.pending # <<>> => h.pending # <<>>
         /\ g.tailFlushed => h = g
<1>1. g \in GroupType BY DEF Group
<1>2. g.lifecycle \in BOOLEAN /\ g.tailFlushed \in BOOLEAN BY <1>1, GroupFields
<1>3. g.tailFlushed => g.lifecycle BY DEF Group, Packing
<1>4. CASE HasTail(g, d)
  <2> DEFINE f == Formed(g)
  <2>1. g.packer # <<>> /\ ~g.tailFlushed /\ (g.lifecycle \/ d) BY <1>4 DEF HasTail, TailDue
  <2>2. /\ Len(g.packer) <= RecordsPerBurst /\ Len(g.packer) <= g.lastOutput
        /\ (\A i \in 1 .. Len(g.packer) : g.packer[i] = [bg |-> b, seq |-> Sealed(g) + i])
        /\ Sealed(g) = Bursts(g) * RecordsPerBurst
        /\ Sending(g, b, low, high) /\ Holding(g, b, r) /\ Claims(g)
        /\ (g.lifecycle => e)
    <3>1. Len(g.packer) \in Nat /\ Len(g.packer) < RecordsPerBurst
      BY <1>1, GroupFields DEF Group, Packing
    <3>2. Len(g.packer) <= RecordsPerBurst BY <3>1, Config
    <3> QED BY <2>1, <3>2 DEF Group, Packing
  <2>3. d BY <2>1, <2>2
  <2> HIDE DEF f
  <2>4. f = Formed(g) BY DEF f
  <2>5. /\ f \in GroupType /\ f.packer = <<>> /\ f.nextBurst = g.nextBurst + 1
        /\ Len(f.pending) = Len(g.pending) + 1
        /\ f.inflight = g.inflight /\ f.resident = g.resident /\ f.nextRead = g.nextRead
        /\ f.lastOutput = g.lastOutput /\ f.lifecycle = g.lifecycle
        /\ f.tailFlushed = g.tailFlushed
        /\ Written(f) = Written(g) /\ Sealed(f) = g.lastOutput
        /\ Bursts(f) # 0 /\ Before(Bursts(f)) < Sealed(f)
        /\ Sealed(f) <= Bursts(f) * RecordsPerBurst
        /\ Sending(f, b, low, high) /\ Holding(f, b, r) /\ Claims(f)
    BY <1>1, <2>1, <2>2, <2>4, GroupForms
  <2>6. h = [f EXCEPT !.lifecycle = TRUE, !.tailFlushed = TRUE]
    <3>1. h = [f EXCEPT !.lifecycle = @ \/ d,
                        !.tailFlushed = @ \/ HasTail(g, d) \/ (TailDue(g, d) /\ g.packer = <<>>)]
      BY <1>4, <2>4 DEF FlushTail
    <3> QED BY <1>4, <2>3, <3>1
  <2>7. /\ h \in GroupType /\ h.packer = <<>> /\ h.nextBurst = g.nextBurst + 1
        /\ h.pending = f.pending /\ h.inflight = f.inflight /\ h.resident = f.resident
        /\ h.reading = f.reading /\ h.reserved = f.reserved
        /\ h.reservedCount = f.reservedCount
        /\ h.nextRead = f.nextRead /\ h.lastOutput = f.lastOutput
        /\ h.lifecycle = TRUE /\ h.tailFlushed = TRUE /\ h.nextBurst = f.nextBurst
    BY <2>5, <2>6 DEF GroupType
  <2>8. Sealed(h) = Sealed(f) /\ Bursts(h) = Bursts(f) /\ Written(h) = Written(f)
    BY <2>5, <2>7 DEF Sealed, Bursts, Written
  <2>9. Packing(h, b, d)
    <3>1. Len(h.packer) = 0 /\ h.lastOutput \in Nat BY <2>7, GroupFields
    <3>2. Len(h.packer) < RecordsPerBurst /\ Len(h.packer) <= h.lastOutput
          /\ \A i \in 1 .. Len(h.packer) : h.packer[i] = [bg |-> b, seq |-> Sealed(h) + i]
      BY <3>1, Config
    <3>3. /\ Bursts(h) # 0 /\ Before(Bursts(h)) < Sealed(h)
          /\ Sealed(h) <= Bursts(h) * RecordsPerBurst
      BY <2>5, <2>8
    <3> QED BY <2>3, <2>7, <3>2, <3>3 DEF Packing
  <2>10. Sending(h, b, low, high) BY <2>5, <2>7, <2>8 DEF Sending
  <2>11. Holding(h, b, r) BY <2>5, <2>7, <2>8, HoldingKept
  <2>12. Claims(h) BY <2>5, <2>7, ClaimsKept
  <2>13. h.pending # <<>>
    <3>1. Len(g.pending) \in Nat BY <1>1, GroupFields
    <3>2. Len(h.pending) # 0 BY <2>5, <2>7, <3>1
    <3> QED BY <3>2, EmptySeq
  <2> QED BY <1>4, <2>1, <2>5, <2>7, <2>8, <2>9, <2>10, <2>11, <2>12, <2>13 DEF Group
<1>5. CASE ~HasTail(g, d)
  <2>1. h = [g EXCEPT !.lifecycle = @ \/ d,
                      !.tailFlushed = @ \/ (TailDue(g, d) /\ g.packer = <<>>)]
    <3>1. h = [g EXCEPT !.lifecycle = @ \/ d,
                        !.tailFlushed = @ \/ HasTail(g, d) \/ (TailDue(g, d) /\ g.packer = <<>>)]
      BY <1>5 DEF FlushTail
    <3> QED BY <1>5, <3>1
  <2>2. /\ h \in GroupType /\ h.packer = g.packer /\ h.nextBurst = g.nextBurst
        /\ h.pending = g.pending /\ h.inflight = g.inflight /\ h.resident = g.resident
        /\ h.reading = g.reading /\ h.reserved = g.reserved
        /\ h.reservedCount = g.reservedCount
        /\ h.nextRead = g.nextRead /\ h.lastOutput = g.lastOutput
        /\ h.lifecycle = (g.lifecycle \/ d)
        /\ h.tailFlushed = (g.tailFlushed \/ (TailDue(g, d) /\ g.packer = <<>>))
    <3>1. (TailDue(g, d) /\ g.packer = <<>>) \in BOOLEAN BY DEF TailDue
    <3>2. (g.lifecycle \/ d) \in BOOLEAN
          /\ (g.tailFlushed \/ (TailDue(g, d) /\ g.packer = <<>>)) \in BOOLEAN
      OBVIOUS
    <3> QED BY <1>1, <2>1, <3>2, Zenon DEF GroupType
  <2>3. Sealed(h) = Sealed(g) /\ Bursts(h) = Bursts(g) /\ Written(h) = Written(g)
    BY <2>2 DEF Sealed, Bursts, Written
  <2>4. Packing(h, b, d)
    <3>1. h.tailFlushed => h.packer = <<>> /\ h.lifecycle
      BY <1>2, <2>2 DEF Group, Packing, TailDue
    <3>2. h.lifecycle => d BY <2>2 DEF Group, Packing
    <3>3. ~h.tailFlushed => ~g.tailFlushed BY <2>2
    <3>4. Packing(g, b, e) BY DEF Group
    <3> QED BY <2>2, <2>3, <3>1, <3>2, <3>3, <3>4 DEF Packing
  <2>5. Sending(h, b, low, high) BY <2>2, <2>3 DEF Group, Sending
  <2>6. Holding(h, b, r) BY <2>2, <2>3, HoldingKept DEF Group
  <2>7. Claims(h) BY <2>2, ClaimsKept DEF Group
  <2>8. g.tailFlushed => h = g
    <3> SUFFICES ASSUME g.tailFlushed PROVE h = g OBVIOUS
    <3>1. g.lifecycle = TRUE /\ g.tailFlushed = TRUE BY <1>2, <1>3
    <3>2. h = [g EXCEPT !.lifecycle = TRUE, !.tailFlushed = TRUE] BY <2>1, <3>1
    <3> QED BY <1>1, <3>1, <3>2 DEF GroupType
  <2> QED BY <1>5, <2>2, <2>3, <2>4, <2>5, <2>6, <2>7, <2>8 DEF Group
<1> QED BY <1>4, <1>5

\* While fewer slots are full or reserved than there are, one is free.
LEMMA SlotIsFree ==
  ASSUME NEW g, NEW b, NEW d, NEW low, NEW high, NEW r, Group(g, b, d, low, high, r),
         g.reservedCount + Cardinality(Resident(g)) < BufferCapacity
  PROVE  FreeSlots(g) # {}
<1> DEFINE K == Resident(g)
           S == {k \in BufferSlot : g.reserved[k]}
<1>1. /\ IsFiniteSet(K) /\ K \in SUBSET BufferSlot /\ Cardinality(S) = Len(g.inflight)
      /\ g.reservedCount = Len(g.inflight)
  BY SlotCounts DEF Group, Claims
<1>2. IsFiniteSet(BufferSlot) /\ Cardinality(BufferSlot) = BufferCapacity BY Homes
<1>3. IsFiniteSet(S) /\ S \in SUBSET BufferSlot BY <1>2, FS_Subset
<1>4. \A k \in S : k \notin K
  <2> SUFFICES ASSUME NEW k \in S PROVE k \notin K OBVIOUS
  <2>1. PICK i \in 1 .. Len(g.inflight) : g.inflight[i].slot = k BY DEF Group, Claims
  <2> QED BY <2>1 DEF Group, Claims, Resident
<1>5. \A k \in BufferSlot : g.reading[k] => k \in K BY DEF Group, Holding, Resident
<1>6. ASSUME FreeSlots(g) = {} PROVE FALSE
  <2>1. \A k \in BufferSlot : k \in K \/ k \in S BY <1>5, <1>6 DEF FreeSlots
  <2> HIDE DEF K, S
  <2>2. K \cup S = BufferSlot /\ K \cap S = {} BY <1>1, <1>3, <1>4, <2>1
  <2>3. Cardinality(K \cup S) = Cardinality(K) + Cardinality(S) BY <1>1, <1>3, <2>2, DisjointSum
  <2>4. Cardinality(K) \in Nat /\ Cardinality(S) \in Nat /\ BufferCapacity \in Nat
    BY <1>1, <1>3, FS_CardinalityType, Config
  <2>5. g.reservedCount + Cardinality(K) < BufferCapacity BY DEF K
  <2>6. Len(g.inflight) = g.reservedCount /\ Cardinality(S) = g.reservedCount BY <1>1
  <2>7. Cardinality(K) + g.reservedCount = BufferCapacity BY <1>2, <2>2, <2>3, <2>6
  <2> QED BY <2>4, <2>5, <2>6, <2>7
<1> QED BY <1>6

\* The oldest pending burst is on its way to a free slot.
LEMMA GroupIssuesWrite ==
  ASSUME NEW g, NEW b, NEW d, NEW high \in Nat \ {0}, NEW r,
         Group(g, b, d, 1, high - 1, r), g.pending # <<>>, FreeSlots(g) # {},
         high = Cycles(WriteLatency), NEW h, h = WriteIssued(g)
  PROVE  /\ Group(h, b, d, 1, high, r)
         /\ h.packer = g.packer /\ h.nextBurst = g.nextBurst /\ h.resident = g.resident
         /\ h.nextRead = g.nextRead /\ h.lastOutput = g.lastOutput
         /\ h.lifecycle = g.lifecycle /\ h.tailFlushed = g.tailFlushed
         /\ Written(h) = Written(g)
<1> DEFINE s == g.inflight
           t == h.inflight
           z == g.pending
           k0 == Min(FreeSlots(g))
           x == [burst |-> Head(z), slot |-> k0, wait |-> high]
<1>1. g \in GroupType BY DEF Group
<1>2. /\ h.packer = g.packer /\ h.pending = Tail(z) /\ h.nextBurst = g.nextBurst
      /\ t = Append(s, x)
      /\ h.resident = g.resident /\ h.reading = g.reading
      /\ h.reserved = [g.reserved EXCEPT ![k0] = TRUE]
      /\ h.reservedCount = g.reservedCount + 1
      /\ h.nextRead = g.nextRead /\ h.lastOutput = g.lastOutput
      /\ h.lifecycle = g.lifecycle /\ h.tailFlushed = g.tailFlushed
  BY <1>1 DEF GroupType, WriteIssued
<1>3. /\ s \in Seq([burst : BurstType, slot : BufferSlot, wait : Nat])
      /\ z \in Seq(BurstType) /\ g.reserved \in [BufferSlot -> BOOLEAN]
      /\ Len(s) \in Nat /\ Len(z) \in Nat /\ g.reservedCount \in Nat
  BY <1>1, GroupFields
<1>4. /\ Head(z) = z[1] /\ Head(z) \in BurstType /\ h.pending \in Seq(BurstType)
      /\ Len(h.pending) = Len(z) - 1 /\ Len(z) # 0
      /\ \A i \in 1 .. Len(h.pending) : h.pending[i] = z[i + 1]
  <2> HIDE DEF s, t, z, k0, x
  <2>1. z # <<>> /\ h.pending = Tail(z) BY <1>2 DEF z
  <2>2. Len(z) # 0 BY <1>3, <2>1, EmptySeq
  <2>3. Head(z) = z[1] /\ h.pending \in Seq(BurstType)
        /\ Len(h.pending) = Len(z) - 1 /\ \A i \in 1 .. Len(h.pending) : h.pending[i] = z[i + 1]
    BY <1>3, <2>1, HeadTailProperties
  <2>4. 1 \in 1 .. Len(z) BY <1>3, <2>2
  <2>5. z[1] \in BurstType BY <1>3, <2>4, ElementOfSeq
  <2> QED BY <2>2, <2>3, <2>5
<1>5. k0 \in FreeSlots(g) /\ k0 \in BufferSlot
  <2>1. FreeSlots(g) \in SUBSET BufferSlot /\ FreeSlots(g) \in SUBSET Nat BY Homes DEF FreeSlots
  <2>2. Min(FreeSlots(g)) \in FreeSlots(g) BY <2>1, MinExists
  <2> QED BY <2>1, <2>2
<1>6. g.resident[k0] = NoBurst /\ ~g.reserved[k0] BY <1>5 DEF FreeSlots, Resident
<1>7. x \in [burst : BurstType, slot : BufferSlot, wait : Nat]
  <2> HIDE DEF z, k0
  <2> QED BY <1>4, <1>5
<1>8. /\ t \in Seq([burst : BurstType, slot : BufferSlot, wait : Nat])
      /\ Len(t) = Len(s) + 1 /\ t[Len(s) + 1] = x
      /\ \A i \in 1 .. Len(s) : t[i] = s[i]
  <2> HIDE DEF s, t, x
  <2> QED BY <1>2, <1>3, <1>7, AppendProperties
<1>9. Written(g) \in Nat /\ Bursts(g) \in Nat /\ Sealed(g) \in Nat
      /\ Written(g) + Len(s) + Len(z) = Bursts(g)
  BY <1>1, GroupNumbers, GroupFields
<1>10. Packing(h, b, d) /\ Sealed(h) = Sealed(g) /\ Bursts(h) = Bursts(g)
  BY <1>2, PackingKept DEF Group
<1>11. Written(h) = Written(g)
  <2>1. Len(h.pending) = Len(z) - 1 /\ Len(h.inflight) = Len(s) + 1 BY <1>4, <1>8
  <2> HIDE DEF s, t, z, k0, x
  <2>2. Written(h) = Bursts(g) - (Len(z) - 1) - (Len(s) + 1) BY <1>10, <2>1 DEF Written
  <2> QED BY <1>3, <1>9, <2>2
<1>12. h.reserved \in [BufferSlot -> BOOLEAN] /\ h.reservedCount \in Nat
  <2> HIDE DEF s, t, z, k0, x
  <2> QED BY <1>2, <1>3, <1>5
<1>13. h \in GroupType
  <2>1. h = [g EXCEPT !.pending = h.pending, !.inflight = t, !.reserved = h.reserved,
                      !.reservedCount = h.reservedCount]
    BY <1>1, <1>2 DEF GroupType, WriteIssued
  <2> QED BY <1>1, <1>4, <1>8, <1>12, <2>1 DEF GroupType
<1>14. x.burst = BurstOf(b, Written(g) + Len(s) + 1, Sealed(g)) /\ x.slot = k0 /\ x.wait = high
  <2>1. 1 \in 1 .. Len(z) BY <1>3, <1>4
  <2>2. z[1] = BurstOf(b, Written(g) + Len(s) + 1, Sealed(g)) BY <2>1 DEF Group, Sending
  <2> QED BY <1>4, <2>2
<1>15. \A i \in 1 .. Len(s) : /\ s[i].slot # k0 /\ s[i].wait < high /\ s[i].wait \in Nat
                              /\ 1 <= s[i].wait
  <2> SUFFICES ASSUME NEW i \in 1 .. Len(s)
               PROVE  /\ s[i].slot # k0 /\ s[i].wait < high /\ s[i].wait \in Nat
                      /\ 1 <= s[i].wait
    OBVIOUS
  <2>1. s[i].wait \in Nat /\ s[i].slot \in BufferSlot BY <1>1, GroupFields
  <2>2. 1 <= s[i].wait /\ s[i].wait <= high - 1 BY DEF Group, Sending
  <2>3. g.reserved[s[i].slot] BY <2>1 DEF Group, Claims
  <2> HIDE DEF s, k0
  <2> QED BY <1>6, <2>1, <2>2, <2>3
<1> HIDE DEF s, t, z, k0, x
<1>16. Sending(h, b, 1, high)
  <2>1. ASSUME NEW i \in 1 .. Len(t)
        PROVE  /\ t[i].burst = BurstOf(b, Written(h) + i, Sealed(h))
               /\ 1 <= t[i].wait /\ t[i].wait <= high
    <3>1. CASE i \in 1 .. Len(s)
      <4>1. s[i].burst = BurstOf(b, Written(g) + i, Sealed(g)) BY <3>1 DEF Group, Sending, s
      <4>2. t[i] = s[i] /\ 1 <= s[i].wait /\ s[i].wait < high /\ s[i].wait \in Nat
        BY <1>8, <1>15, <3>1
      <4> QED BY <1>10, <1>11, <4>1, <4>2
    <3>2. CASE i = Len(s) + 1
      <4>1. Written(g) + Len(s) + 1 = Written(h) + i BY <1>3, <1>9, <1>11, <3>2
      <4> QED BY <1>8, <1>10, <1>14, <3>2, <4>1
    <3> QED BY <1>3, <1>8, <3>1, <3>2
  <2>2. ASSUME NEW i \in 1 .. Len(t), NEW j \in 1 .. Len(t), i < j
        PROVE  t[i].wait < t[j].wait
    <3>1. i \in 1 .. Len(s) BY <1>3, <1>8, <2>2
    <3>2. CASE j \in 1 .. Len(s) BY <1>8, <2>2, <3>1, <3>2 DEF Group, Sending, s
    <3>3. CASE j = Len(s) + 1 BY <1>8, <1>14, <1>15, <3>1, <3>3
    <3> QED BY <1>3, <1>8, <3>2, <3>3
  <2>3. ASSUME NEW i \in 1 .. Len(h.pending)
        PROVE  h.pending[i] = BurstOf(b, Written(h) + Len(t) + i, Sealed(h))
    <3>1. i + 1 \in 1 .. Len(z) /\ h.pending[i] = z[i + 1]
      <4>1. h.pending[i] = z[i + 1] BY <1>4
      <4>2. Len(h.pending) = Len(z) - 1 /\ Len(z) \in Nat BY <1>3, <1>4
      <4>3. i + 1 \in 1 .. Len(z) BY <4>2
      <4> QED BY <4>1, <4>3
    <3>2. z[i + 1] = BurstOf(b, Written(g) + Len(s) + (i + 1), Sealed(g))
      BY <3>1 DEF Group, Sending, s, z
    <3>3. Written(g) + Len(s) + (i + 1) = Written(h) + Len(t) + i
      BY <1>3, <1>4, <1>8, <1>9, <1>11
    <3> QED BY <1>10, <3>1, <3>2, <3>3
  <2>4. Written(h) \in Nat BY <1>9, <1>11
  <2> USE DEF t
  <2>5. \A i \in 1 .. Len(h.inflight) :
          /\ h.inflight[i].burst = BurstOf(b, Written(h) + i, Sealed(h))
          /\ 1 <= h.inflight[i].wait /\ h.inflight[i].wait <= high
    BY <2>1
  <2>6. \A i, j \in 1 .. Len(h.inflight) : i < j => h.inflight[i].wait < h.inflight[j].wait
    BY <2>2
  <2>7. \A i \in 1 .. Len(h.pending) :
          h.pending[i] = BurstOf(b, Written(h) + Len(h.inflight) + i, Sealed(h))
    BY <2>3
  <2> HIDE DEF t
  <2> QED BY <2>4, <2>5, <2>6, <2>7 DEF Sending
<1>17. Holding(h, b, r) BY <1>2, <1>10, <1>11, HoldingKept DEF Group
<1>18. Claims(h)
  <2>1. /\ \A k \in BufferSlot : g.reserved[k] <=> \E i \in 1 .. Len(s) : s[i].slot = k
        /\ \A i \in 1 .. Len(s) : g.resident[s[i].slot] = NoBurst
        /\ \A i, j \in 1 .. Len(s) : s[i].slot = s[j].slot => i = j
        /\ g.reservedCount = Len(s)
    BY DEF Group, Claims, s
  <2>2. \A i \in 1 .. Len(t) : i \in 1 .. Len(s) \/ i = Len(s) + 1 BY <1>3, <1>8
  <2>3. \A i \in 1 .. Len(s) : i \in 1 .. Len(t) /\ t[i] = s[i] BY <1>3, <1>8
  <2>4. Len(s) + 1 \in 1 .. Len(t) /\ t[Len(s) + 1].slot = k0 BY <1>3, <1>8, <1>14
  <2>5. \A i \in 1 .. Len(t) : h.resident[t[i].slot] = NoBurst
    BY <1>2, <1>6, <2>1, <2>2, <2>3, <2>4
  <2>6. ASSUME NEW i \in 1 .. Len(t), NEW j \in 1 .. Len(t), t[i].slot = t[j].slot
        PROVE  i = j
    <3>1. CASE i \in 1 .. Len(s) /\ j \in 1 .. Len(s) BY <2>1, <2>3, <2>6, <3>1
    <3>2. CASE i \in 1 .. Len(s) /\ j = Len(s) + 1 BY <1>15, <2>3, <2>4, <2>6, <3>2
    <3>3. CASE i = Len(s) + 1 /\ j \in 1 .. Len(s) BY <1>15, <2>3, <2>4, <2>6, <3>3
    <3> QED BY <2>2, <3>1, <3>2, <3>3
  <2>7. \A k \in BufferSlot : h.reserved[k] <=> g.reserved[k] \/ k = k0 BY <1>2, <1>3, <1>5
  <2>8. ASSUME NEW k \in BufferSlot
        PROVE  h.reserved[k] <=> \E i \in 1 .. Len(t) : t[i].slot = k
    <3>1. CASE k = k0 BY <2>4, <2>7, <3>1
    <3>2. CASE k # k0
      <4>1. h.reserved[k] <=> \E i \in 1 .. Len(s) : s[i].slot = k BY <2>1, <2>7, <3>2
      <4>2. (\E i \in 1 .. Len(s) : s[i].slot = k) => \E i \in 1 .. Len(t) : t[i].slot = k
        BY <2>3
      <4>3. (\E i \in 1 .. Len(t) : t[i].slot = k) => \E i \in 1 .. Len(s) : s[i].slot = k
        BY <2>2, <2>3, <2>4, <3>2
      <4> QED BY <4>1, <4>2, <4>3
    <3> QED BY <3>1, <3>2
  <2>9. h.reservedCount = Len(t) BY <1>2, <1>8, <2>1
  <2> QED BY <2>5, <2>6, <2>8, <2>9 DEF Claims, t
<1> QED BY <1>2, <1>10, <1>11, <1>13, <1>16, <1>17, <1>18 DEF Group

\* The read of the next burst is issued: it is the one findReadCandidate finds.
Asking(g, q) ==
  [g EXCEPT !.reading = [k \in BufferSlot |-> g.reading[k] \/ k = q], !.nextRead = @ + 1]

\* One more burst is asked to be read.
LEMMA GroupAsks ==
  ASSUME NEW g, NEW b, NEW d, NEW low, NEW high, NEW r, Group(g, b, d, low, high, r),
         NEW q \in ReadSlot(g), NEW h, h = Asking(g, q)
  PROVE  /\ Group(h, b, d, low, high, r)
         /\ h.packer = g.packer /\ h.pending = g.pending /\ h.inflight = g.inflight
         /\ h.resident = g.resident /\ h.nextBurst = g.nextBurst
         /\ h.nextRead = g.nextRead + 1 /\ h.lastOutput = g.lastOutput
         /\ h.lifecycle = g.lifecycle /\ h.tailFlushed = g.tailFlushed
         /\ Written(h) = Written(g)
         /\ q \in BufferSlot /\ g.resident[q] # NoBurst /\ g.resident[q].number = g.nextRead
<1>1. g \in GroupType BY DEF Group
<1>2. /\ h.packer = g.packer /\ h.pending = g.pending /\ h.nextBurst = g.nextBurst
      /\ h.inflight = g.inflight /\ h.resident = g.resident
      /\ h.reading = [k \in BufferSlot |-> g.reading[k] \/ k = q]
      /\ h.reserved = g.reserved /\ h.reservedCount = g.reservedCount
      /\ h.nextRead = g.nextRead + 1 /\ h.lastOutput = g.lastOutput
      /\ h.lifecycle = g.lifecycle /\ h.tailFlushed = g.tailFlushed
  BY <1>1 DEF GroupType, Asking
<1>3. /\ g.reading \in [BufferSlot -> BOOLEAN] /\ g.nextRead \in Nat \ {0}
      /\ \A k \in BufferSlot : g.resident[k].number \in Nat
  BY <1>1, GroupFields
<1>4. h.reading \in [BufferSlot -> BOOLEAN] /\ h.nextRead \in Nat \ {0} BY <1>2, <1>3
<1>5. h \in GroupType
  <2>1. h = [g EXCEPT !.reading = h.reading, !.nextRead = h.nextRead]
    BY <1>1, <1>2 DEF GroupType, Asking
  <2> QED BY <1>1, <1>4, <2>1 DEF GroupType
<1>6. q \in BufferSlot /\ g.resident[q] # NoBurst /\ g.resident[q].number = g.nextRead
  BY DEF ReadSlot, Unread, Resident
<1>7. Packing(h, b, d) /\ Sealed(h) = Sealed(g) /\ Bursts(h) = Bursts(g)
  BY <1>2, PackingKept DEF Group
<1>8. Written(h) = Written(g) BY <1>2, <1>7 DEF Written
<1>9. Sending(h, b, low, high)
  <2>1. Sending(g, b, low, high) BY DEF Group
  <2> QED BY <1>2, <1>7, <1>8, <2>1 DEF Sending
<1>10. Claims(h) BY <1>2, ClaimsKept DEF Group
<1>11. Holding(h, b, r)
  <2>1. Written(g) \in Nat /\ r \in Nat /\ r <= Asked(g) /\ Asked(g) = g.nextRead - 1
    BY GroupNumbers DEF Asked
  <2>2. Asked(h) = g.nextRead BY <1>2, <1>3 DEF Asked
  <2>3. g.nextRead <= Written(g) BY <1>6 DEF Group, Holding
  <2>4. r <= Asked(h) /\ Asked(h) <= Written(h) BY <1>3, <1>8, <2>1, <2>2, <2>3
  <2>5. \A j, k \in BufferSlot :
          g.resident[j] # NoBurst /\ g.resident[j].number = g.resident[k].number => j = k
    BY DEF Group, Holding
  <2>6. ASSUME NEW k \in BufferSlot
        PROVE  h.reading[k] <=> h.resident[k] # NoBurst /\ h.resident[k].number < h.nextRead
    <3>1. g.reading[k] <=> g.resident[k] # NoBurst /\ g.resident[k].number < g.nextRead
      BY DEF Group, Holding
    <3>2. h.reading[k] <=> g.reading[k] \/ k = q BY <1>2
    <3>3. g.resident[k].number < g.nextRead + 1
            <=> g.resident[k].number < g.nextRead \/ g.resident[k].number = g.nextRead
      BY <1>3
    <3>4. g.resident[k] # NoBurst /\ g.resident[k].number = g.nextRead <=> k = q BY <1>6, <2>5
    <3> QED BY <1>2, <3>1, <3>2, <3>3, <3>4
  <2>7. /\ \A k \in BufferSlot : g.resident[k] # NoBurst =>
             /\ r < g.resident[k].number /\ g.resident[k].number <= Written(g)
             /\ g.resident[k] = BurstOf(b, g.resident[k].number, Sealed(g))
        /\ \A n \in r + 1 .. Written(g) : \E k \in BufferSlot : g.resident[k].number = n
    BY DEF Group, Holding
  <2>8. /\ \A k \in BufferSlot : h.resident[k] # NoBurst =>
             /\ r < h.resident[k].number /\ h.resident[k].number <= Written(h)
             /\ h.resident[k] = BurstOf(b, h.resident[k].number, Sealed(h))
        /\ \A j, k \in BufferSlot :
             h.resident[j] # NoBurst /\ h.resident[j].number = h.resident[k].number => j = k
        /\ \A n \in r + 1 .. Written(h) : \E k \in BufferSlot : h.resident[k].number = n
    <3> HIDE DEF Sealed, Written
    <3>1. h.resident = g.resident /\ Sealed(h) = Sealed(g) /\ Written(h) = Written(g)
      BY <1>2, <1>7, <1>8
    <3>2. ASSUME NEW k \in BufferSlot, h.resident[k] # NoBurst
          PROVE  /\ r < h.resident[k].number /\ h.resident[k].number <= Written(h)
                 /\ h.resident[k] = BurstOf(b, h.resident[k].number, Sealed(h))
      BY <2>7, <3>1, <3>2
    <3>3. \A j, k \in BufferSlot :
            h.resident[j] # NoBurst /\ h.resident[j].number = h.resident[k].number => j = k
      BY <2>5, <3>1
    <3>4. \A n \in r + 1 .. Written(h) : \E k \in BufferSlot : h.resident[k].number = n
      BY <2>7, <3>1
    <3> QED BY <3>2, <3>3, <3>4
  <2> QED BY <2>1, <2>4, <2>6, <2>8, Zenon DEF Holding
<1> QED BY <1>2, <1>5, <1>6, <1>7, <1>8, <1>9, <1>10, <1>11 DEF Group

\* The oldest burst has been read: its slot is free.
Freeing(g, q) ==
  [g EXCEPT !.resident = [k \in BufferSlot |-> IF k = q THEN NoBurst ELSE g.resident[k]],
            !.reading = [k \in BufferSlot |-> g.reading[k] /\ k # q]]

\* One more burst has been read.
LEMMA GroupReads ==
  ASSUME NEW g, NEW b, NEW d, NEW low, NEW high, NEW r, Group(g, b, d, low, high, r),
         r < Asked(g), NEW q \in BufferSlot, g.resident[q].number = r + 1,
         NEW h, h = Freeing(g, q)
  PROVE  /\ Group(h, b, d, low, high, r + 1)
         /\ h.packer = g.packer /\ h.pending = g.pending /\ h.inflight = g.inflight
         /\ h.nextBurst = g.nextBurst
         /\ h.nextRead = g.nextRead /\ h.lastOutput = g.lastOutput
         /\ h.lifecycle = g.lifecycle /\ h.tailFlushed = g.tailFlushed
         /\ Written(h) = Written(g)
         /\ \A k \in BufferSlot : h.resident[k] = IF k = q THEN NoBurst ELSE g.resident[k]
         /\ g.reading[q]
<1>1. g \in GroupType /\ NoBurst \in BurstType /\ NoBurst.number = 0
  BY DEF Group, NoBurst, BurstType
<1>2. /\ h.packer = g.packer /\ h.pending = g.pending /\ h.nextBurst = g.nextBurst
      /\ h.inflight = g.inflight
      /\ h.resident = [k \in BufferSlot |-> IF k = q THEN NoBurst ELSE g.resident[k]]
      /\ h.reading = [k \in BufferSlot |-> g.reading[k] /\ k # q]
      /\ h.reserved = g.reserved /\ h.reservedCount = g.reservedCount
      /\ h.nextRead = g.nextRead /\ h.lastOutput = g.lastOutput
      /\ h.lifecycle = g.lifecycle /\ h.tailFlushed = g.tailFlushed
  BY <1>1 DEF GroupType, Freeing
<1>3. /\ g.reading \in [BufferSlot -> BOOLEAN] /\ g.nextRead \in Nat \ {0}
      /\ g.resident \in [BufferSlot -> BurstType]
      /\ \A k \in BufferSlot : g.resident[k].number \in Nat
      /\ \A i \in 1 .. Len(g.inflight) : g.inflight[i].slot \in BufferSlot
  BY <1>1, GroupFields
<1>4. h.reading \in [BufferSlot -> BOOLEAN] /\ h.resident \in [BufferSlot -> BurstType]
  BY <1>1, <1>2, <1>3
<1>5. h \in GroupType
  <2>1. h = [g EXCEPT !.resident = h.resident, !.reading = h.reading]
    BY <1>1, <1>2 DEF GroupType, Freeing
  <2> QED BY <1>1, <1>4, <2>1 DEF GroupType
<1>6. \A k \in BufferSlot : h.resident[k] = IF k = q THEN NoBurst ELSE g.resident[k] BY <1>2
<1>7. Packing(h, b, d) /\ Sealed(h) = Sealed(g) /\ Bursts(h) = Bursts(g)
  BY <1>2, PackingKept DEF Group
<1>8. Written(h) = Written(g) BY <1>2, <1>7 DEF Written
<1>9. Sending(h, b, low, high)
  <2>1. Sending(g, b, low, high) BY DEF Group
  <2> QED BY <1>2, <1>7, <1>8, <2>1 DEF Sending
<1>10. Claims(h)
  <2>1. Claims(g) BY DEF Group
  <2>2. \A i \in 1 .. Len(g.inflight) : h.resident[g.inflight[i].slot] = NoBurst
    BY <1>3, <1>6, <2>1 DEF Claims
  <2> QED BY <1>2, <2>1, <2>2 DEF Claims
<1>11. r \in Nat /\ Asked(g) \in Nat /\ Asked(g) <= Written(g) /\ Written(g) \in Nat
       /\ Asked(g) = g.nextRead - 1 /\ Asked(h) = Asked(g)
  BY <1>2, GroupNumbers DEF Asked
<1>12. g.resident[q] # NoBurst BY <1>1, <1>11
<1>13. g.reading[q]
  <2>1. r + 1 < g.nextRead BY <1>3, <1>11
  <2> QED BY <1>12, <2>1 DEF Group, Holding
<1>14. Holding(h, b, r + 1)
  <2>1. /\ \A k \in BufferSlot : g.resident[k] # NoBurst =>
             /\ r < g.resident[k].number /\ g.resident[k].number <= Written(g)
             /\ g.resident[k] = BurstOf(b, g.resident[k].number, Sealed(g))
        /\ \A j, k \in BufferSlot :
             g.resident[j] # NoBurst /\ g.resident[j].number = g.resident[k].number => j = k
        /\ \A n \in r + 1 .. Written(g) : \E k \in BufferSlot : g.resident[k].number = n
        /\ \A k \in BufferSlot :
             g.reading[k] <=> g.resident[k] # NoBurst /\ g.resident[k].number < g.nextRead
    BY DEF Group, Holding
  <2>2. r + 1 \in Nat /\ r + 1 <= Asked(h) /\ Asked(h) <= Written(h) BY <1>8, <1>11
  <2>3. ASSUME NEW k \in BufferSlot, h.resident[k] # NoBurst
        PROVE  /\ r + 1 < h.resident[k].number /\ h.resident[k].number <= Written(h)
               /\ h.resident[k] = BurstOf(b, h.resident[k].number, Sealed(h))
    <3>1. k # q /\ h.resident[k] = g.resident[k] /\ g.resident[k] # NoBurst BY <1>6, <2>3
    <3>2. g.resident[k].number # r + 1 /\ g.resident[k].number \in Nat BY <1>3, <2>1, <3>1
    <3>3. r + 1 < g.resident[k].number BY <1>11, <2>1, <3>1, <3>2
    <3> QED BY <1>7, <1>8, <2>1, <3>1, <3>3
  <2>4. ASSUME NEW j \in BufferSlot, NEW k \in BufferSlot, h.resident[j] # NoBurst,
               h.resident[j].number = h.resident[k].number
        PROVE  j = k
    <3>1. j # q /\ h.resident[j] = g.resident[j] /\ g.resident[j] # NoBurst BY <1>6, <2>4
    <3>2. r < g.resident[j].number /\ g.resident[j].number \in Nat BY <1>3, <2>1, <3>1
    <3>3. k # q BY <1>1, <1>6, <1>11, <2>4, <3>1, <3>2
    <3> QED BY <1>6, <2>1, <2>4, <3>1, <3>3
  <2>5. ASSUME NEW n \in (r + 1) + 1 .. Written(h)
        PROVE  \E k \in BufferSlot : h.resident[k].number = n
    <3>1. n \in r + 1 .. Written(g) /\ n # r + 1 BY <1>8, <1>11
    <3>2. PICK k \in BufferSlot : g.resident[k].number = n BY <2>1, <3>1
    <3>3. k # q BY <3>1, <3>2
    <3> QED BY <1>6, <3>2, <3>3
  <2>6. ASSUME NEW k \in BufferSlot
        PROVE  h.reading[k] <=> h.resident[k] # NoBurst /\ h.resident[k].number < h.nextRead
    <3>1. h.reading[k] = (g.reading[k] /\ k # q) BY <1>2, Zenon
    <3>2. CASE k = q BY <1>6, <3>1, <3>2
    <3>3. CASE k # q
      <4>1. h.resident[k] = g.resident[k] /\ h.nextRead = g.nextRead BY <1>2, <1>6, <3>3
      <4>2. g.reading[k] <=> g.resident[k] # NoBurst /\ g.resident[k].number < g.nextRead
        BY <2>1
      <4>3. h.reading[k] <=> g.reading[k] BY <3>1, <3>3, Zenon
      <4> QED BY <4>1, <4>2, <4>3
    <3> QED BY <3>2, <3>3
  <2> QED BY <2>2, <2>3, <2>4, <2>5, <2>6 DEF Holding
<1> QED BY <1>2, <1>5, <1>6, <1>7, <1>8, <1>9, <1>10, <1>13, <1>14 DEF Group

-----------------------------------------------------------------------------
(* The inductive invariant of the path                                     *)

ReadType == [burst : BurstType, bg : BG, slot : BufferSlot, wait : Nat]

CountsType ==
  [generated : Nat, bursts : Nat, written : Nat, readsIssued : Nat, readsDone : Nat,
   readRecords : Nat, delivered : Nat, enqueued : Nat, issued : Nat, reduced : Nat]

PathType ==
  [bg : [BG -> GroupType],
   rankCursor : [Rank -> 0 .. BankGroupsPerRank - 1],
   channelCursor : [Channel -> 0 .. BankGroupsPerChannel - 1],
   reads : [Channel -> Seq(ReadType)],
   returned : Seq(BurstType), reservedReturn : Nat,
   queue : Seq(RecordType), batch : Seq(RecordType), batchWait : Nat,
   added : Seq(RecordType), counts : CountsType,
   writebackDone : BOOLEAN, readbackStarted : BOOLEAN, transportDone : BOOLEAN,
   readbackDone : BOOLEAN, reductionDone : BOOLEAN, error : BOOLEAN]

Outputs(p)    == [b \in BG |-> p.bg[b].lastOutput]
AllBursts(p)  == [b \in BG |-> Bursts(p.bg[b])]
AllWritten(p) == [b \in BG |-> Written(p.bg[b])]
AllAsked(p)   == [b \in BG |-> Asked(p.bg[b])]
Lengths(p)    == [c \in Channel |-> Len(p.reads[c])]
None          == [b \in BG |-> 0]

\* The records in the first X[b] bursts of each bank group b.
Records(p, X) == [b \in BG |-> InFirst(X[b], Sealed(p.bg[b]))]

Groups(p, d, low, high, R) ==
  \A b \in BG : Group(p.bg[b], b, d[b], low, high, R[b])

\* The reads of a channel: of each of its bank groups, the bursts asked for and not yet
\* read, in the order of their numbers, each from the slot it lies in.
Reading(p, c, low, high, R) ==
  /\ Len(p.reads[c]) <= MaxInflightReads
  /\ \E z \in Seq(Element) :
       /\ Len(z) = Len(p.reads[c]) /\ Line(z, Home(c), R, AllAsked(p))
       /\ \A i \in 1 .. Len(z) :
            p.reads[c][i].bg = z[i].bg /\ p.reads[c][i].burst.number = z[i].seq
  /\ \A i \in 1 .. Len(p.reads[c]) :
       /\ low <= p.reads[c][i].wait /\ p.reads[c][i].wait <= high
       /\ p.bg[p.reads[c][i].bg].resident[p.reads[c][i].slot] = p.reads[c][i].burst
  /\ \A i, j \in 1 .. Len(p.reads[c]) : i < j => p.reads[c][i].wait < p.reads[c][j].wait

\* The returned bursts, of each bank group those read and not yet delivered, and the
\* records on their way to the result, those of the delivered bursts.
Returned(p, R, D) ==
  \E z \in Seq(Element) :
    /\ Len(z) = Len(p.returned) /\ Line(z, BG, D, R)
    /\ \A i \in 1 .. Len(z) :
         p.returned[i] = BurstOf(z[i].bg, z[i].seq, Sealed(p.bg[z[i].bg]))

Host(p, R, D) ==
  /\ \A b \in BG : D[b] <= R[b]
  /\ Returned(p, R, D)
  /\ p.reservedReturn = Total(Lengths(p))
  /\ Len(p.returned) + p.reservedReturn <= ReturnQueueCapacity
  /\ Line((p.added \o p.batch) \o p.queue, BG, None, Records(p, D))

CountsHold(p, R, D) ==
  /\ p.counts.generated = Total(Outputs(p))
  /\ p.counts.bursts = Total(AllBursts(p))
  /\ p.counts.written = Total(AllWritten(p))
  /\ p.counts.readsIssued = Total(AllAsked(p))
  /\ p.counts.readsDone = Total(R)
  /\ p.counts.readRecords = Total(Records(p, R))
  /\ p.counts.delivered = Total(D)
  /\ p.counts.enqueued = Total(Records(p, D))
  /\ p.counts.enqueued = p.counts.issued + Len(p.queue)
  /\ p.counts.issued = p.counts.reduced + Len(p.batch)

Finished(g) == g.packer = <<>> /\ g.pending = <<>> /\ g.inflight = <<>>
               /\ g.tailFlushed /\ g.lifecycle

Flags(p, R, D) ==
  /\ p.error = FALSE
  /\ p.writebackDone => \A b \in BG : Finished(p.bg[b])
  /\ p.readbackStarted => p.writebackDone
  /\ ~p.readbackStarted => \A b \in BG : p.bg[b].nextRead = 1
  /\ p.transportDone => p.readbackStarted /\ \A b \in BG : R[b] = Written(p.bg[b])
  /\ p.readbackDone => p.transportDone /\ \A b \in BG : D[b] = R[b]
  /\ p.reductionDone => p.readbackDone /\ p.queue = <<>> /\ p.batch = <<>>

\* R and D are the bursts of each bank group that have been read and delivered.
State(p, d, low, high, rlow, rhigh, R, D) ==
  /\ p \in PathType /\ R \in [BG -> Nat] /\ D \in [BG -> Nat]
  /\ Groups(p, d, low, high, R)
  /\ \A c \in Channel : Reading(p, c, rlow, rhigh, R)
  /\ Host(p, R, D)
  /\ CountsHold(p, R, D)
  /\ Flags(p, R, D)

\* The path's fields and their domains.
LEMMA PathFields ==
  ASSUME NEW p \in PathType
  PROVE  /\ p.bg \in [BG -> GroupType]
         /\ p.rankCursor \in [Rank -> 0 .. BankGroupsPerRank - 1]
         /\ p.channelCursor \in [Channel -> 0 .. BankGroupsPerChannel - 1]
         /\ p.reads \in [Channel -> Seq(ReadType)]
         /\ \A c \in Channel : p.reads[c] \in Seq(ReadType) /\ Len(p.reads[c]) \in Nat
         /\ p.returned \in Seq(BurstType) /\ Len(p.returned) \in Nat
         /\ p.reservedReturn \in Nat
         /\ p.queue \in Seq(RecordType) /\ p.batch \in Seq(RecordType)
         /\ Len(p.queue) \in Nat /\ Len(p.batch) \in Nat
         /\ p.batchWait \in Nat
         /\ p.added \in Seq(RecordType) /\ Len(p.added) \in Nat
         /\ p.counts \in CountsType
         /\ p.counts.generated \in Nat /\ p.counts.bursts \in Nat /\ p.counts.written \in Nat
         /\ p.counts.readsIssued \in Nat /\ p.counts.readsDone \in Nat
         /\ p.counts.readRecords \in Nat /\ p.counts.delivered \in Nat
         /\ p.counts.enqueued \in Nat /\ p.counts.issued \in Nat /\ p.counts.reduced \in Nat
         /\ p.writebackDone \in BOOLEAN /\ p.readbackStarted \in BOOLEAN
         /\ p.transportDone \in BOOLEAN /\ p.readbackDone \in BOOLEAN
         /\ p.reductionDone \in BOOLEAN /\ p.error \in BOOLEAN
<1>1. /\ p.bg \in [BG -> GroupType]
      /\ p.rankCursor \in [Rank -> 0 .. BankGroupsPerRank - 1]
      /\ p.channelCursor \in [Channel -> 0 .. BankGroupsPerChannel - 1]
      /\ p.reads \in [Channel -> Seq(ReadType)]
      /\ p.returned \in Seq(BurstType) /\ p.reservedReturn \in Nat
      /\ p.queue \in Seq(RecordType) /\ p.batch \in Seq(RecordType)
      /\ p.batchWait \in Nat /\ p.added \in Seq(RecordType) /\ p.counts \in CountsType
      /\ p.writebackDone \in BOOLEAN /\ p.readbackStarted \in BOOLEAN
      /\ p.transportDone \in BOOLEAN /\ p.readbackDone \in BOOLEAN
      /\ p.reductionDone \in BOOLEAN /\ p.error \in BOOLEAN
  BY DEF PathType
<1>2. /\ p.counts.generated \in Nat /\ p.counts.bursts \in Nat /\ p.counts.written \in Nat
      /\ p.counts.readsIssued \in Nat /\ p.counts.readsDone \in Nat
      /\ p.counts.readRecords \in Nat /\ p.counts.delivered \in Nat
      /\ p.counts.enqueued \in Nat /\ p.counts.issued \in Nat /\ p.counts.reduced \in Nat
  BY <1>1 DEF CountsType
<1>3. Len(p.returned) \in Nat /\ Len(p.queue) \in Nat /\ Len(p.batch) \in Nat
      /\ Len(p.added) \in Nat
  BY <1>1
<1>4. \A c \in Channel : p.reads[c] \in Seq(ReadType) /\ Len(p.reads[c]) \in Nat BY <1>1
<1> QED BY <1>1, <1>2, <1>3, <1>4

\* What reading back and adding up leave alone when bursts are written.
SameReadBack(p, q) ==
  /\ q.reads = p.reads /\ q.returned = p.returned /\ q.reservedReturn = p.reservedReturn
  /\ q.queue = p.queue /\ q.batch = p.batch /\ q.added = p.added
  /\ q.counts.readsIssued = p.counts.readsIssued
  /\ q.counts.readsDone = p.counts.readsDone
  /\ q.counts.readRecords = p.counts.readRecords
  /\ q.counts.delivered = p.counts.delivered
  /\ q.counts.enqueued = p.counts.enqueued
  /\ q.counts.issued = p.counts.issued /\ q.counts.reduced = p.counts.reduced
  /\ q.writebackDone = p.writebackDone /\ q.readbackStarted = p.readbackStarted
  /\ q.transportDone = p.transportDone /\ q.readbackDone = p.readbackDone
  /\ q.reductionDone = p.reductionDone /\ q.error = p.error

\* Before the last write nothing is read back, and then nothing more is sealed.
LEMMA NothingReadYet ==
  ASSUME NEW p, NEW d, NEW low, NEW high, NEW rlow, NEW rhigh, NEW R, NEW D,
         State(p, d, low, high, rlow, rhigh, R, D), ~p.readbackStarted, NEW b \in BG
  PROVE  R[b] = 0 /\ D[b] = 0
<1>1. p.bg[b].nextRead = 1 /\ Group(p.bg[b], b, d[b], low, high, R[b]) /\ D[b] <= R[b]
      /\ D[b] \in Nat /\ R[b] \in Nat
  BY DEF State, Flags, Groups, Host
<1>2. R[b] <= Asked(p.bg[b]) BY <1>1, GroupNumbers
<1>3. Asked(p.bg[b]) = 0 BY <1>1 DEF Asked
<1> QED BY <1>1, <1>2, <1>3

\* A write phase keeps the read side.
LEMMA WritePhase ==
  ASSUME NEW p, NEW d, NEW low, NEW high, NEW rlow, NEW rhigh, NEW R, NEW D,
         State(p, d, low, high, rlow, rhigh, R, D),
         NEW q \in PathType, SameReadBack(p, q), NEW e, NEW l, NEW h,
         Groups(q, e, l, h, R),
         \A b \in BG : /\ q.bg[b].nextRead = p.bg[b].nextRead
                       /\ \A k \in BufferSlot : p.bg[b].resident[k] # NoBurst =>
                            q.bg[b].resident[k] = p.bg[b].resident[k]
                       /\ p.writebackDone => q.bg[b] = p.bg[b],
         q.counts.generated = Total(Outputs(q)), q.counts.bursts = Total(AllBursts(q)),
         q.counts.written = Total(AllWritten(q))
  PROVE  State(q, e, l, h, rlow, rhigh, R, D)
<1>1. /\ p \in PathType /\ R \in [BG -> Nat] /\ D \in [BG -> Nat]
      /\ Groups(p, d, low, high, R) /\ (\A c \in Channel : Reading(p, c, rlow, rhigh, R))
      /\ Host(p, R, D) /\ CountsHold(p, R, D) /\ Flags(p, R, D)
  BY DEF State
<1>2. AllAsked(q) = AllAsked(p) BY DEF AllAsked, Asked
<1>3. \A b \in BG : p.writebackDone \/ (R[b] = 0 /\ D[b] = 0)
  <2>1. p.writebackDone \/ ~p.readbackStarted BY <1>1 DEF Flags
  <2> QED BY <2>1, NothingReadYet
<1>4. ASSUME NEW b \in BG
      PROVE  /\ InFirst(R[b], Sealed(q.bg[b])) = InFirst(R[b], Sealed(p.bg[b]))
             /\ InFirst(D[b], Sealed(q.bg[b])) = InFirst(D[b], Sealed(p.bg[b]))
  <2>1. CASE p.writebackDone BY <2>1
  <2>2. CASE R[b] = 0 /\ D[b] = 0
    <3>1. Sealed(p.bg[b]) \in Nat /\ Sealed(q.bg[b]) \in Nat BY <1>1, GroupNumbers DEF Groups
    <3> QED BY <2>2, <3>1, InFirstFacts
  <2> QED BY <1>3, <2>1, <2>2
<1>5. Records(q, R) = Records(p, R) /\ Records(q, D) = Records(p, D) BY <1>4 DEF Records
<1>6. ASSUME NEW c \in Channel PROVE Reading(q, c, rlow, rhigh, R)
  <2>1. Reading(p, c, rlow, rhigh, R) /\ q.reads = p.reads BY <1>1 DEF SameReadBack
  <2>2. ASSUME NEW i \in 1 .. Len(q.reads[c])
        PROVE  q.bg[q.reads[c][i].bg].resident[q.reads[c][i].slot] = q.reads[c][i].burst
    <3> DEFINE x == p.reads[c][i]
    <3>1. p.bg[x.bg].resident[x.slot] = x.burst BY <2>1 DEF Reading
    <3>2. x \in ReadType BY <1>1, <2>1, PathFields, ElementOfSeq
    <3>3. x.bg \in BG /\ x.slot \in BufferSlot
      <4> HIDE DEF x
      <4> QED BY <3>2 DEF ReadType
    <3>4. x.burst.number # 0
      <4>1. PICK z \in Seq(Element) :
              /\ Len(z) = Len(p.reads[c]) /\ Line(z, Home(c), R, AllAsked(p))
              /\ \A j \in 1 .. Len(z) :
                   p.reads[c][j].bg = z[j].bg /\ p.reads[c][j].burst.number = z[j].seq
        BY <2>1 DEF Reading
      <4>2. i \in 1 .. Len(z) BY <2>1, <4>1
      <4>3. z[i].bg \in Home(c) /\ z[i].seq \in R[z[i].bg] + 1 .. AllAsked(p)[z[i].bg]
        BY <4>1, <4>2 DEF Line
      <4>4. z[i].bg \in BG BY <4>3, Homes
      <4>5. R[z[i].bg] \in Nat BY <1>1, <4>4
      <4>6. z[i].seq # 0 BY <4>3, <4>5
      <4> QED BY <4>1, <4>2, <4>6
    <3>5. x.burst # NoBurst BY <3>4 DEF NoBurst
    <3>6. q.bg[x.bg].resident[x.slot] = x.burst BY <3>1, <3>3, <3>5
    <3> QED BY <2>1, <3>6
  <2> QED BY <1>2, <2>1, <2>2 DEF Reading
<1>7. Host(q, R, D)
  <2>1. Returned(q, R, D)
    <3>1. PICK z \in Seq(Element) :
            /\ Len(z) = Len(p.returned) /\ Line(z, BG, D, R)
            /\ \A i \in 1 .. Len(z) :
                 p.returned[i] = BurstOf(z[i].bg, z[i].seq, Sealed(p.bg[z[i].bg]))
      BY <1>1 DEF Host, Returned
    <3>2. ASSUME NEW i \in 1 .. Len(z)
          PROVE  q.returned[i] = BurstOf(z[i].bg, z[i].seq, Sealed(q.bg[z[i].bg]))
      <4>1. z[i].bg \in BG /\ z[i].seq \in D[z[i].bg] + 1 .. R[z[i].bg] BY <3>1 DEF Line
      <4>2. R[z[i].bg] # 0 BY <1>1, <4>1
      <4>3. q.bg[z[i].bg] = p.bg[z[i].bg] BY <1>3, <4>1, <4>2
      <4> QED BY <3>1, <4>3 DEF SameReadBack
    <3>3. Len(z) = Len(q.returned) BY <3>1 DEF SameReadBack
    <3> QED BY <3>1, <3>2, <3>3 DEF Returned
  <2>2. Lengths(q) = Lengths(p) BY DEF Lengths, SameReadBack
  <2>3. Line((q.added \o q.batch) \o q.queue, BG, None, Records(q, D))
    BY <1>1, <1>5 DEF SameReadBack, Host
  <2> QED BY <1>1, <2>1, <2>2, <2>3 DEF Host, SameReadBack
<1>8. CountsHold(q, R, D) BY <1>1, <1>2, <1>5 DEF CountsHold, SameReadBack
<1>9. Flags(q, R, D) BY <1>1 DEF Flags, SameReadBack
<1> QED BY <1>1, <1>6, <1>7, <1>8, <1>9 DEF State

-----------------------------------------------------------------------------
(* The write phases                                                        *)

\* A transfer takes at least a cycle.
LEMMA CyclesType ==
  ASSUME NEW n \in Nat
  PROVE  Cycles(n) \in Nat \ {0}
<1>1. \E x \in {1, n} : \A y \in {1, n} : x >= y OBVIOUS
<1>2. Max({1, n}) \in {1, n} /\ \A y \in {1, n} : Max({1, n}) >= y BY <1>1 DEF Max
<1> QED BY <1>2 DEF Cycles

\* A remainder.
LEMMA Mod ==
  ASSUME NEW n \in Nat \ {0}, NEW x \in Nat
  PROVE  x % n \in 0 .. n - 1
OBVIOUS

\* What the records sent, added and reported are to the delivery.
SameDelivery(p, q) ==
  /\ \A b \in BG : q.bg[b].lastOutput = p.bg[b].lastOutput
  /\ q.added = p.added /\ q.reductionDone = p.reductionDone

\* The counters depend on the bank groups only.
LEMMA TotalsOfGroups ==
  ASSUME NEW p \in PathType, NEW q \in PathType
  PROVE  /\ Outputs(p) \in [BG -> Nat] /\ AllBursts(p) \in [BG -> Nat]
         /\ (\A b \in BG : q.bg[b].lastOutput = p.bg[b].lastOutput) =>
               Outputs(q) = Outputs(p)
         /\ (\A b \in BG : q.bg[b].nextBurst = p.bg[b].nextBurst) =>
               AllBursts(q) = AllBursts(p)
         /\ (\A b \in BG : Written(q.bg[b]) = Written(p.bg[b])) =>
               AllWritten(q) = AllWritten(p)
<1>1. \A b \in BG : p.bg[b] \in GroupType BY PathFields
<1>2. \A b \in BG : p.bg[b].lastOutput \in Nat /\ Bursts(p.bg[b]) \in Nat BY <1>1, GroupFields
<1> QED BY <1>2 DEF Outputs, AllBursts, AllWritten, Bursts

\* NextCycle: every transfer may now be due.
LEMMA NextCycleKeeps ==
  ASSUME NEW p, NEW d, NEW high \in Nat, NEW rhigh \in Nat, NEW R, NEW D,
         State(p, d, 1, high, 1, rhigh, R, D), NEW q, q = NextCycle(p)
  PROVE  State(q, d, 0, high - 1, 0, rhigh - 1, R, D) /\ SameDelivery(p, q)
<1>1. /\ p \in PathType /\ R \in [BG -> Nat] /\ D \in [BG -> Nat]
      /\ Groups(p, d, 1, high, R) /\ (\A c \in Channel : Reading(p, c, 1, rhigh, R))
      /\ Host(p, R, D) /\ CountsHold(p, R, D) /\ Flags(p, R, D)
  BY DEF State
<1>2. q = [p EXCEPT !.bg = [b \in BG |-> [p.bg[b] EXCEPT !.inflight = Counted(@)]],
                    !.reads = [c \in Channel |-> Counted(p.reads[c])],
                    !.batchWait = IF @ > 0 THEN @ - 1 ELSE 0]
  BY <1>1 DEF NextCycle, Flags
<1>3. /\ q.bg = [b \in BG |-> [p.bg[b] EXCEPT !.inflight = Counted(@)]]
      /\ q.reads = [c \in Channel |-> Counted(p.reads[c])]
      /\ q.batchWait = (IF p.batchWait > 0 THEN p.batchWait - 1 ELSE 0)
      /\ q.returned = p.returned /\ q.reservedReturn = p.reservedReturn
      /\ q.queue = p.queue /\ q.batch = p.batch /\ q.added = p.added
      /\ q.counts = p.counts
      /\ q.writebackDone = p.writebackDone /\ q.readbackStarted = p.readbackStarted
      /\ q.transportDone = p.transportDone /\ q.readbackDone = p.readbackDone
      /\ q.reductionDone = p.reductionDone /\ q.error = p.error
  BY <1>1, <1>2 DEF PathType
<1>4. ASSUME NEW b \in BG
      PROVE  /\ Group(q.bg[b], b, d[b], 0, high - 1, R[b])
             /\ q.bg[b].packer = p.bg[b].packer /\ q.bg[b].pending = p.bg[b].pending
             /\ q.bg[b].resident = p.bg[b].resident
             /\ q.bg[b].nextBurst = p.bg[b].nextBurst
             /\ q.bg[b].nextRead = p.bg[b].nextRead
             /\ q.bg[b].lastOutput = p.bg[b].lastOutput
             /\ q.bg[b].lifecycle = p.bg[b].lifecycle
             /\ q.bg[b].tailFlushed = p.bg[b].tailFlushed
             /\ Len(q.bg[b].inflight) = Len(p.bg[b].inflight)
             /\ q.bg[b] \in GroupType
  <2>1. q.bg[b] = [p.bg[b] EXCEPT !.inflight = Counted(@)] BY <1>3
  <2>2. Group(p.bg[b], b, d[b], 1, high, R[b]) BY <1>1 DEF Groups
  <2> DEFINE g == p.bg[b]
             h == q.bg[b]
             e == d[b]
             r == R[b]
  <2>3. h = Later(g) /\ Group(g, b, e, 1, high, r) BY <2>1, <2>2 DEF Later
  <2> HIDE DEF g, h, e, r
  <2>4. /\ Group(h, b, e, 0, high - 1, r)
        /\ h.packer = g.packer /\ h.pending = g.pending /\ h.resident = g.resident
        /\ h.nextBurst = g.nextBurst /\ h.nextRead = g.nextRead /\ h.lastOutput = g.lastOutput
        /\ h.lifecycle = g.lifecycle /\ h.tailFlushed = g.tailFlushed
        /\ Len(h.inflight) = Len(g.inflight)
    BY <2>3, GroupNextCycle
  <2>5. h \in GroupType BY <2>4 DEF Group
  <2> QED BY <2>4, <2>5 DEF g, h, e, r
<1>5. ASSUME NEW c \in Channel
      PROVE  /\ q.reads[c] \in Seq(ReadType) /\ Len(q.reads[c]) = Len(p.reads[c])
             /\ \A i \in 1 .. Len(p.reads[c]) :
                  /\ q.reads[c][i].bg = p.reads[c][i].bg
                  /\ q.reads[c][i].burst = p.reads[c][i].burst
                  /\ q.reads[c][i].slot = p.reads[c][i].slot
                  /\ q.reads[c][i].wait = p.reads[c][i].wait - 1
                  /\ p.reads[c][i].wait \in Nat
                  /\ 1 <= p.reads[c][i].wait /\ p.reads[c][i].wait <= rhigh
  <2> DEFINE s == p.reads[c]
             t == q.reads[c]
  <2>1. s \in Seq(ReadType) /\ Len(s) \in Nat BY <1>1, PathFields
  <2>2. t = Counted(s) BY <1>3
  <2>3. \A i \in 1 .. Len(s) : 1 <= s[i].wait /\ s[i].wait <= rhigh BY <1>1 DEF Reading
  <2> HIDE DEF s, t
  <2>4. DOMAIN s = 1 .. Len(s) BY <2>1
  <2>5. \A i \in 1 .. Len(s) : t[i] = [s[i] EXCEPT !.wait = @ - 1] BY <2>2, <2>4 DEF Counted
  <2>6. t = [i \in 1 .. Len(s) |-> t[i]]
    <3>1. t = [i \in 1 .. Len(s) |-> [s[i] EXCEPT !.wait = @ - 1]] BY <2>2, <2>4 DEF Counted
    <3> QED BY <3>1
  <2>7. ASSUME NEW i \in 1 .. Len(s)
        PROVE  /\ t[i] \in ReadType /\ t[i].bg = s[i].bg /\ t[i].burst = s[i].burst
               /\ t[i].slot = s[i].slot /\ t[i].wait = s[i].wait - 1 /\ s[i].wait \in Nat
    <3> DEFINE x == s[i]
               y == t[i]
    <3>1. x \in ReadType BY <2>1, ElementOfSeq
    <3>2. y = [x EXCEPT !.wait = @ - 1] /\ 1 <= x.wait BY <2>3, <2>5
    <3> HIDE DEF x, y
    <3>3. x.wait \in Nat BY <3>1 DEF ReadType
    <3>4. x.wait - 1 \in Nat BY <3>2, <3>3
    <3>5. /\ y \in ReadType /\ y.bg = x.bg /\ y.burst = x.burst /\ y.slot = x.slot
          /\ y.wait = x.wait - 1
      BY <3>1, <3>2, <3>4 DEF ReadType
    <3> QED BY <3>3, <3>5 DEF x, y
  <2>8. t \in Seq(ReadType) /\ Len(t) = Len(s) BY <2>1, <2>6, <2>7
  <2> QED BY <2>3, <2>7, <2>8 DEF s, t
<1>6. q \in PathType
  <2>1. q.bg \in [BG -> GroupType] /\ q.reads \in [Channel -> Seq(ReadType)] BY <1>3, <1>4, <1>5
  <2>2. q.batchWait \in Nat BY <1>1, <1>3, PathFields
  <2>3. q = [p EXCEPT !.bg = q.bg, !.reads = q.reads, !.batchWait = q.batchWait] BY <1>2, <1>3
  <2> QED BY <1>1, <2>1, <2>2, <2>3 DEF PathType
<1>7. ASSUME NEW b \in BG
      PROVE  /\ Sealed(q.bg[b]) = Sealed(p.bg[b]) /\ Bursts(q.bg[b]) = Bursts(p.bg[b])
             /\ Written(q.bg[b]) = Written(p.bg[b]) /\ Asked(q.bg[b]) = Asked(p.bg[b])
  BY <1>4 DEF Sealed, Bursts, Written, Asked
<1>8. /\ Outputs(q) = Outputs(p) /\ AllBursts(q) = AllBursts(p) /\ AllWritten(q) = AllWritten(p)
      /\ AllAsked(q) = AllAsked(p) /\ Records(q, R) = Records(p, R)
      /\ Records(q, D) = Records(p, D)
  BY <1>4, <1>7 DEF Outputs, AllBursts, AllWritten, AllAsked, Records
<1>9. ASSUME NEW c \in Channel PROVE Reading(q, c, 0, rhigh - 1, R)
  <2>0. Reading(p, c, 1, rhigh, R) BY <1>1
  <2>1. PICK z \in Seq(Element) :
          /\ Len(z) = Len(p.reads[c]) /\ Line(z, Home(c), R, AllAsked(p))
          /\ \A j \in 1 .. Len(z) :
               p.reads[c][j].bg = z[j].bg /\ p.reads[c][j].burst.number = z[j].seq
    BY <2>0 DEF Reading
  <2>2. \A j \in 1 .. Len(z) :
          q.reads[c][j].bg = z[j].bg /\ q.reads[c][j].burst.number = z[j].seq
    BY <1>5, <2>1
  <2>3. Len(z) = Len(q.reads[c]) /\ Line(z, Home(c), R, AllAsked(q)) BY <1>5, <1>8, <2>1
  <2>4. ASSUME NEW i \in 1 .. Len(q.reads[c])
        PROVE  /\ 0 <= q.reads[c][i].wait /\ q.reads[c][i].wait <= rhigh - 1
               /\ q.bg[q.reads[c][i].bg].resident[q.reads[c][i].slot] = q.reads[c][i].burst
    <3>1. i \in 1 .. Len(p.reads[c]) BY <1>5
    <3>2. p.bg[p.reads[c][i].bg].resident[p.reads[c][i].slot] = p.reads[c][i].burst
      BY <2>0, <3>1 DEF Reading
    <3>3. p.reads[c][i] \in ReadType BY <1>1, <3>1, PathFields, ElementOfSeq
    <3>4. p.reads[c][i].bg \in BG BY <3>3 DEF ReadType
    <3>5. q.bg[q.reads[c][i].bg].resident[q.reads[c][i].slot] = q.reads[c][i].burst
      BY <1>4, <1>5, <3>1, <3>2, <3>4
    <3>6. q.reads[c][i].wait = p.reads[c][i].wait - 1 /\ p.reads[c][i].wait \in Nat
          /\ 1 <= p.reads[c][i].wait /\ p.reads[c][i].wait <= rhigh
      BY <1>5, <3>1
    <3>7. 0 <= q.reads[c][i].wait /\ q.reads[c][i].wait <= rhigh - 1 BY <3>6
    <3> QED BY <3>5, <3>7
  <2>5. ASSUME NEW i \in 1 .. Len(q.reads[c]), NEW j \in 1 .. Len(q.reads[c]), i < j
        PROVE  q.reads[c][i].wait < q.reads[c][j].wait
    <3>1. i \in 1 .. Len(p.reads[c]) /\ j \in 1 .. Len(p.reads[c]) BY <1>5
    <3>2. p.reads[c][i].wait < p.reads[c][j].wait BY <2>0, <2>5, <3>1 DEF Reading
    <3>3. /\ q.reads[c][i].wait = p.reads[c][i].wait - 1 /\ p.reads[c][i].wait \in Nat
          /\ q.reads[c][j].wait = p.reads[c][j].wait - 1 /\ p.reads[c][j].wait \in Nat
      BY <1>5, <3>1
    <3> DEFINE x == p.reads[c][i].wait
               y == p.reads[c][j].wait
    <3>4. x \in Nat /\ y \in Nat /\ x < y BY <3>2, <3>3
    <3>5. q.reads[c][i].wait = x - 1 /\ q.reads[c][j].wait = y - 1 BY <3>3
    <3> HIDE DEF x, y
    <3>6. x - 1 < y - 1 BY <3>4
    <3> QED BY <3>5, <3>6
  <2>6. Len(q.reads[c]) <= MaxInflightReads BY <1>5, <2>0 DEF Reading
  <2> QED BY <2>2, <2>3, <2>4, <2>5, <2>6 DEF Reading
<1>10. Host(q, R, D)
  <2>1. Returned(q, R, D)
    <3>1. PICK z \in Seq(Element) :
            /\ Len(z) = Len(p.returned) /\ Line(z, BG, D, R)
            /\ \A i \in 1 .. Len(z) :
                 p.returned[i] = BurstOf(z[i].bg, z[i].seq, Sealed(p.bg[z[i].bg]))
      BY <1>1 DEF Host, Returned
    <3>2. \A i \in 1 .. Len(z) : z[i].bg \in BG BY <3>1 DEF Line
    <3>3. \A i \in 1 .. Len(z) :
            q.returned[i] = BurstOf(z[i].bg, z[i].seq, Sealed(q.bg[z[i].bg]))
      BY <1>3, <1>7, <3>1, <3>2
    <3> QED BY <1>3, <3>1, <3>3 DEF Returned
  <2>2. Lengths(q) = Lengths(p) BY <1>5 DEF Lengths
  <2> QED BY <1>1, <1>3, <1>8, <2>1, <2>2 DEF Host
<1>11. CountsHold(q, R, D) BY <1>1, <1>3, <1>8 DEF CountsHold
<1>12. Flags(q, R, D)
  <2>1. ASSUME NEW b \in BG, Finished(p.bg[b]) PROVE Finished(q.bg[b])
    <3>1. p.bg[b].inflight = <<>> /\ q.bg[b].inflight \in
             Seq([burst : BurstType, slot : BufferSlot, wait : Nat])
      BY <1>4, <2>1, GroupFields DEF Finished
    <3>2. Len(q.bg[b].inflight) = 0 BY <1>4, <3>1
    <3>3. q.bg[b].inflight = <<>> BY <3>1, <3>2, EmptySeq
    <3> QED BY <1>4, <2>1, <3>3 DEF Finished
  <2> QED BY <1>1, <1>3, <1>4, <1>7, <2>1 DEF Flags
<1>13. SameDelivery(p, q) BY <1>3, <1>4 DEF SameDelivery
<1>14. Groups(q, d, 0, high - 1, R) BY <1>4 DEF Groups
<1> QED BY <1>1, <1>6, <1>9, <1>10, <1>11, <1>12, <1>13, <1>14 DEF State

\* CompleteWrites: what was due has landed; no check fails.
LEMMA CompleteWritesKeeps ==
  ASSUME NEW p, NEW d, NEW high, NEW rlow, NEW rhigh, NEW R, NEW D,
         State(p, d, 0, high, rlow, rhigh, R, D), NEW q, q = CompleteWrites(p)
  PROVE  State(q, d, 1, high, rlow, rhigh, R, D) /\ SameDelivery(p, q)
<1> DEFINE done == {b \in BG : p.bg[b].inflight # <<>> /\ Head(p.bg[b].inflight).wait = 0}
<1>1. /\ p \in PathType /\ R \in [BG -> Nat] /\ D \in [BG -> Nat]
      /\ Groups(p, d, 0, high, R) /\ CountsHold(p, R, D) /\ Flags(p, R, D)
  BY DEF State
<1>2. p.bg \in [BG -> GroupType] /\ p.counts \in CountsType /\ p.counts.written \in Nat
  BY <1>1, PathFields
<1>3. \A b \in BG : Group(p.bg[b], b, d[b], 0, high, R[b]) BY <1>1 DEF Groups
<1>4. ASSUME NEW b \in done
      PROVE  LET g == p.bg[b]
                 h == Landed(g)
             IN  /\ Group(h, b, d[b], 1, high, R[b])
                 /\ h.nextBurst = g.nextBurst
                 /\ h.nextRead = g.nextRead /\ h.lastOutput = g.lastOutput
                 /\ Written(h) = Written(g) + 1
                 /\ \A k \in BufferSlot : g.resident[k] # NoBurst => h.resident[k] = g.resident[k]
                 /\ g.reservedCount # 0 /\ Head(g.inflight).slot \in BufferSlot
                 /\ g.reserved[Head(g.inflight).slot] /\ ~g.reading[Head(g.inflight).slot]
                 /\ Head(g.inflight).slot \notin Resident(g)
  <2> DEFINE g == p.bg[b]
             h == Landed(g)
             e == d[b]
             r == R[b]
  <2>1. Group(g, b, e, 0, high, r) /\ g.inflight # <<>> /\ Head(g.inflight).wait = 0
        /\ h = Landed(g)
    BY <1>3
  <2> HIDE DEF g, h, e, r
  <2>2. /\ Group(h, b, e, 1, high, r)
        /\ h.nextBurst = g.nextBurst
        /\ h.nextRead = g.nextRead /\ h.lastOutput = g.lastOutput
        /\ Written(h) = Written(g) + 1
        /\ \A k \in BufferSlot : g.resident[k] # NoBurst => h.resident[k] = g.resident[k]
        /\ g.reservedCount # 0 /\ Head(g.inflight).slot \in BufferSlot
        /\ g.reserved[Head(g.inflight).slot] /\ ~g.reading[Head(g.inflight).slot]
        /\ Head(g.inflight).slot \notin Resident(g)
    BY <2>1, GroupLands
  <2> QED BY <2>2 DEF g, h, e, r
<1>5. q = [p EXCEPT !.bg = [b \in BG |-> IF b \in done THEN Landed(p.bg[b]) ELSE p.bg[b]],
                    !.counts.written = @ + Cardinality(done)]
  <2>1. done = {b \in BG : ~p.error /\ p.bg[b].inflight # <<>> /\ Head(p.bg[b].inflight).wait = 0}
    BY <1>1 DEF Flags
  <2>2. \A b \in done : LET g == p.bg[b]
                            k == Head(p.bg[b].inflight).slot
                        IN  ~(g.reservedCount = 0 \/ ~g.reserved[k] \/ g.reading[k] \/ k \in Resident(g))
    BY <1>4
  <2> HIDE DEF done
  <2> QED BY <2>1, <2>2 DEF CompleteWrites
<1>6. IsFiniteSet(done) /\ done \in SUBSET BG /\ Cardinality(done) \in Nat
  <2>1. IsFiniteSet(done) /\ done \in SUBSET BG BY Homes, FS_Subset
  <2> HIDE DEF done
  <2> QED BY <2>1, FS_CardinalityType
<1>7. \A b \in BG : b \notin done => p.bg[b].inflight = <<>> \/ Head(p.bg[b].inflight).wait # 0
  OBVIOUS
<1> HIDE DEF done
<1>8. /\ q.bg = [b \in BG |-> IF b \in done THEN Landed(p.bg[b]) ELSE p.bg[b]]
      /\ q.counts = [p.counts EXCEPT !.written = p.counts.written + Cardinality(done)]
      /\ q.reads = p.reads /\ q.returned = p.returned /\ q.reservedReturn = p.reservedReturn
      /\ q.queue = p.queue /\ q.batch = p.batch /\ q.added = p.added
      /\ q.writebackDone = p.writebackDone /\ q.readbackStarted = p.readbackStarted
      /\ q.transportDone = p.transportDone /\ q.readbackDone = p.readbackDone
      /\ q.reductionDone = p.reductionDone /\ q.error = p.error
  BY <1>1, <1>5 DEF PathType
<1>9. /\ q.counts \in CountsType
      /\ q.counts.written = p.counts.written + Cardinality(done)
      /\ q.counts.generated = p.counts.generated /\ q.counts.bursts = p.counts.bursts
      /\ q.counts.readsIssued = p.counts.readsIssued
      /\ q.counts.readsDone = p.counts.readsDone
      /\ q.counts.readRecords = p.counts.readRecords
      /\ q.counts.delivered = p.counts.delivered
      /\ q.counts.enqueued = p.counts.enqueued
      /\ q.counts.issued = p.counts.issued /\ q.counts.reduced = p.counts.reduced
  <2>1. p.counts.written + Cardinality(done) \in Nat BY <1>2, <1>6
  <2> QED BY <1>2, <1>8, <2>1 DEF CountsType
<1>10. ASSUME NEW b \in BG
       PROVE  /\ Group(q.bg[b], b, d[b], 1, high, R[b])
              /\ q.bg[b].nextBurst = p.bg[b].nextBurst /\ q.bg[b].nextRead = p.bg[b].nextRead
              /\ q.bg[b].lastOutput = p.bg[b].lastOutput
              /\ Written(q.bg[b]) = Written(p.bg[b]) + (IF b \in done THEN 1 ELSE 0)
              /\ \A k \in BufferSlot : p.bg[b].resident[k] # NoBurst =>
                   q.bg[b].resident[k] = p.bg[b].resident[k]
              /\ b \notin done => q.bg[b] = p.bg[b]
  <2>1. CASE b \in done
    <3>1. q.bg[b] = Landed(p.bg[b]) BY <1>8, <2>1
    <3> QED BY <1>4, <2>1, <3>1
  <2>2. CASE b \notin done
    <3>1. q.bg[b] = p.bg[b] BY <1>8, <2>2
    <3>2. Group(p.bg[b], b, d[b], 1, high, R[b]) BY <1>3, <1>7, <2>2, GroupWaits
    <3>3. Written(p.bg[b]) + 0 = Written(p.bg[b]) BY <3>2, GroupNumbers
    <3> QED BY <2>2, <3>1, <3>2, <3>3
  <2> QED BY <2>1, <2>2
<1>11. q \in PathType
  <2>1. \A b \in BG : q.bg[b] \in GroupType BY <1>10 DEF Group
  <2>2. q.bg \in [BG -> GroupType] BY <1>8, <2>1
  <2>3. q = [p EXCEPT !.bg = q.bg, !.counts = q.counts] BY <1>5, <1>8
  <2> QED BY <1>1, <1>9, <2>2, <2>3 DEF PathType
<1>12. p.writebackDone => done = {}
  <2>1. \A b \in done : p.bg[b].inflight # <<>> /\ b \in BG BY DEF done
  <2> QED BY <1>1, <2>1 DEF Flags, Finished
<1>13. Groups(q, d, 1, high, R) BY <1>10 DEF Groups
<1>14. SameReadBack(p, q) BY <1>8, <1>9 DEF SameReadBack
<1>15. q.counts.generated = Total(Outputs(q)) /\ q.counts.bursts = Total(AllBursts(q))
  BY <1>1, <1>9, <1>10, <1>11, TotalsOfGroups DEF CountsHold
<1>16. q.counts.written = Total(AllWritten(q))
  <2> DEFINE f == AllWritten(p)
             h == AllWritten(q)
  <2>1. \A b \in BG : Written(p.bg[b]) \in Nat BY <1>3, GroupNumbers
  <2>2. \A b \in BG : Written(q.bg[b]) \in Nat BY <1>10, GroupNumbers
  <2>3. f \in [BG -> Nat] /\ h \in [BG -> Nat] BY <2>1, <2>2 DEF AllWritten
  <2>4. \A b \in done : h[b] = f[b] + 1 BY <1>6, <1>10 DEF AllWritten
  <2>5. \A b \in BG \ done : h[b] = f[b] BY <1>10 DEF AllWritten
  <2>6. IsFiniteSet(BG) BY Homes
  <2> HIDE DEF f, h
  <2>7. Total(h) = Total(f) + Cardinality(done) BY <1>6, <2>3, <2>4, <2>5, <2>6, TotalStep
  <2>8. p.counts.written = Total(f) BY <1>1 DEF CountsHold, f
  <2> QED BY <1>9, <2>7, <2>8 DEF h
<1>17. \A b \in BG : /\ q.bg[b].nextRead = p.bg[b].nextRead
                     /\ \A k \in BufferSlot : p.bg[b].resident[k] # NoBurst =>
                          q.bg[b].resident[k] = p.bg[b].resident[k]
                     /\ p.writebackDone => q.bg[b] = p.bg[b]
  BY <1>10, <1>12
<1>18. State(q, d, 1, high, rlow, rhigh, R, D)
  BY <1>11, <1>13, <1>14, <1>15, <1>16, <1>17, WritePhase
<1>19. SameDelivery(p, q) BY <1>8, <1>10 DEF SameDelivery
<1> QED BY <1>18, <1>19

\* FlushEligibleTails: the tails of the drained bank groups are formed.
LEMMA FlushKeeps ==
  ASSUME NEW p, NEW d \in [BG -> BOOLEAN], NEW low, NEW high, NEW rlow, NEW rhigh, NEW R, NEW D,
         State(p, d, low, high, rlow, rhigh, R, D), NEW q, q = FlushEligibleTails(p, d)
  PROVE  /\ State(q, d, low, high, rlow, rhigh, R, D) /\ SameDelivery(p, q)
         /\ \A b \in BG : p.bg[b].pending # <<>> => q.bg[b].pending # <<>>
<1> DEFINE tails == {b \in BG : HasTail(p.bg[b], d[b])}
<1>1. /\ p \in PathType /\ R \in [BG -> Nat] /\ D \in [BG -> Nat]
      /\ Groups(p, d, low, high, R) /\ CountsHold(p, R, D) /\ Flags(p, R, D)
  BY DEF State
<1>2. p.bg \in [BG -> GroupType] /\ p.counts \in CountsType /\ p.counts.bursts \in Nat
  BY <1>1, PathFields
<1>3. \A b \in BG : Group(p.bg[b], b, d[b], low, high, R[b]) BY <1>1 DEF Groups
<1>5. q = [p EXCEPT !.bg = [b \in BG |-> FlushTail(p.bg[b], d[b])],
                    !.counts.bursts = @ + Cardinality(tails)]
  BY <1>1 DEF FlushEligibleTails, Flags
<1>6. IsFiniteSet(tails) /\ tails \in SUBSET BG /\ Cardinality(tails) \in Nat
  <2>1. IsFiniteSet(tails) /\ tails \in SUBSET BG BY Homes, FS_Subset
  <2> HIDE DEF tails
  <2> QED BY <2>1, FS_CardinalityType
<1>7. \A b \in BG : b \in tails <=> HasTail(p.bg[b], d[b]) OBVIOUS
<1> HIDE DEF tails
<1>8. /\ q.bg = [b \in BG |-> FlushTail(p.bg[b], d[b])]
      /\ q.counts = [p.counts EXCEPT !.bursts = p.counts.bursts + Cardinality(tails)]
      /\ q.reads = p.reads /\ q.returned = p.returned /\ q.reservedReturn = p.reservedReturn
      /\ q.queue = p.queue /\ q.batch = p.batch /\ q.added = p.added
      /\ q.writebackDone = p.writebackDone /\ q.readbackStarted = p.readbackStarted
      /\ q.transportDone = p.transportDone /\ q.readbackDone = p.readbackDone
      /\ q.reductionDone = p.reductionDone /\ q.error = p.error
  BY <1>1, <1>5 DEF PathType
<1>9. /\ q.counts \in CountsType
      /\ q.counts.bursts = p.counts.bursts + Cardinality(tails)
      /\ q.counts.generated = p.counts.generated /\ q.counts.written = p.counts.written
      /\ q.counts.readsIssued = p.counts.readsIssued
      /\ q.counts.readsDone = p.counts.readsDone
      /\ q.counts.readRecords = p.counts.readRecords
      /\ q.counts.delivered = p.counts.delivered
      /\ q.counts.enqueued = p.counts.enqueued
      /\ q.counts.issued = p.counts.issued /\ q.counts.reduced = p.counts.reduced
  <2>1. p.counts.bursts + Cardinality(tails) \in Nat BY <1>2, <1>6
  <2> QED BY <1>2, <1>8, <2>1 DEF CountsType
<1>10. ASSUME NEW b \in BG
       PROVE  /\ Group(q.bg[b], b, d[b], low, high, R[b])
              /\ q.bg[b].nextBurst = (IF b \in tails THEN p.bg[b].nextBurst + 1
                                                      ELSE p.bg[b].nextBurst)
              /\ q.bg[b].nextRead = p.bg[b].nextRead
              /\ q.bg[b].resident = p.bg[b].resident
              /\ q.bg[b].lastOutput = p.bg[b].lastOutput
              /\ Written(q.bg[b]) = Written(p.bg[b])
              /\ p.bg[b].pending # <<>> => q.bg[b].pending # <<>>
              /\ p.bg[b].tailFlushed => q.bg[b] = p.bg[b]
  <2> DEFINE g == p.bg[b]
             h == q.bg[b]
             e == d[b]
             r == R[b]
  <2>1. Group(g, b, e, low, high, r) /\ e \in BOOLEAN /\ h = FlushTail(g, e)
        /\ (b \in tails <=> HasTail(g, e))
    BY <1>3, <1>7, <1>8
  <2> HIDE DEF g, h, e, r
  <2>2. /\ Group(h, b, e, low, high, r)
        /\ h.nextBurst = IF HasTail(g, e) THEN g.nextBurst + 1 ELSE g.nextBurst
        /\ h.inflight = g.inflight /\ h.resident = g.resident /\ h.nextRead = g.nextRead
        /\ h.lastOutput = g.lastOutput
        /\ Written(h) = Written(g)
        /\ (g.pending # <<>> => h.pending # <<>>)
        /\ (g.tailFlushed => h = g)
    BY <2>1, GroupFlushes
  <2> QED BY <2>1, <2>2 DEF g, h, e, r
<1>11. q \in PathType
  <2>1. \A b \in BG : q.bg[b] \in GroupType BY <1>10 DEF Group
  <2>2. q.bg \in [BG -> GroupType] BY <1>8, <2>1
  <2>3. q = [p EXCEPT !.bg = q.bg, !.counts = q.counts] BY <1>5, <1>8
  <2> QED BY <1>1, <1>9, <2>2, <2>3 DEF PathType
<1>13. Groups(q, d, low, high, R) BY <1>10 DEF Groups
<1>14. SameReadBack(p, q) BY <1>8, <1>9 DEF SameReadBack
<1>15. q.counts.generated = Total(Outputs(q)) /\ q.counts.written = Total(AllWritten(q))
  BY <1>1, <1>9, <1>10, <1>11, TotalsOfGroups DEF CountsHold
<1>16. q.counts.bursts = Total(AllBursts(q))
  <2> DEFINE f == AllBursts(p)
             h == AllBursts(q)
  <2>3. f \in [BG -> Nat] /\ h \in [BG -> Nat] BY <1>1, <1>11, TotalsOfGroups
  <2>1. \A b \in BG : p.bg[b].nextBurst \in Nat BY <1>2, GroupFields
  <2>4. \A b \in tails : h[b] = f[b] + 1
    <3> SUFFICES ASSUME NEW b \in tails PROVE h[b] = f[b] + 1 OBVIOUS
    <3>1. b \in BG /\ q.bg[b].nextBurst = p.bg[b].nextBurst + 1 /\ p.bg[b].nextBurst \in Nat
      BY <1>6, <1>10, <2>1
    <3>2. h[b] = q.bg[b].nextBurst - 1 /\ f[b] = p.bg[b].nextBurst - 1
      BY <3>1 DEF AllBursts, Bursts
    <3> HIDE DEF f, h
    <3> QED BY <3>1, <3>2
  <2>5. \A b \in BG \ tails : h[b] = f[b] BY <1>10 DEF AllBursts, Bursts
  <2>6. IsFiniteSet(BG) BY Homes
  <2> HIDE DEF f, h
  <2>7. Total(h) = Total(f) + Cardinality(tails) BY <1>6, <2>3, <2>4, <2>5, <2>6, TotalStep
  <2>8. p.counts.bursts = Total(f) BY <1>1 DEF CountsHold, f
  <2> QED BY <1>9, <2>7, <2>8 DEF h
<1>17. \A b \in BG : /\ q.bg[b].nextRead = p.bg[b].nextRead
                     /\ \A k \in BufferSlot : p.bg[b].resident[k] # NoBurst =>
                          q.bg[b].resident[k] = p.bg[b].resident[k]
                     /\ p.writebackDone => q.bg[b] = p.bg[b]
  BY <1>1, <1>10 DEF Flags, Finished
<1>18. State(q, d, low, high, rlow, rhigh, R, D)
  BY <1>11, <1>13, <1>14, <1>15, <1>16, <1>17, WritePhase
<1>19. SameDelivery(p, q) BY <1>8, <1>10 DEF SameDelivery
<1> QED BY <1>10, <1>18, <1>19

\* bursts names bank groups with a burst pending: each write issued finds a free slot.
LEMMA IssueWritesKeeps ==
  ASSUME NEW p, NEW d, NEW high, high = Cycles(WriteLatency), NEW rlow, NEW rhigh,
         NEW R, NEW D, State(p, d, 1, high - 1, rlow, rhigh, R, D),
         NEW bursts, \A b \in BG : b \in bursts => p.bg[b].pending # <<>>,
         NEW q, q = IssueWrites(p, bursts)
  PROVE  State(q, d, 1, high, rlow, rhigh, R, D) /\ SameDelivery(p, q)
<1> DEFINE bgAt(r, offset) ==
             r * BankGroupsPerRank + ((p.rankCursor[r] + offset) % BankGroupsPerRank)
           writable(b) ==
             /\ ~p.error /\ b \in bursts
             /\ Len(p.bg[b].inflight) < MaxInflightWrites
             /\ p.bg[b].reservedCount + Cardinality(Resident(p.bg[b])) < BufferCapacity
           offsets(r) == {o \in 0 .. BankGroupsPerRank - 1 : writable(bgAt(r, o))}
           active == {r \in Rank : offsets(r) # {}}
           chosen == [r \in active |-> bgAt(r, Min(offsets(r)))]
<1>1. /\ p \in PathType /\ R \in [BG -> Nat] /\ D \in [BG -> Nat]
      /\ Groups(p, d, 1, high - 1, R) /\ CountsHold(p, R, D) /\ Flags(p, R, D)
  BY DEF State
<1>2. /\ p.bg \in [BG -> GroupType] /\ p.rankCursor \in [Rank -> 0 .. BankGroupsPerRank - 1]
      /\ BankGroupsPerRank \in Nat \ {0} /\ high \in Nat \ {0}
  BY <1>1, PathFields, Config, CyclesType
<1>3. \A b \in BG : Group(p.bg[b], b, d[b], 1, high - 1, R[b]) BY <1>1 DEF Groups
<1>4. ASSUME NEW r \in active
      PROVE  /\ chosen[r] \in BG /\ chosen[r] \in bursts
             /\ FreeSlots(p.bg[chosen[r]]) # {}
  <2>1. offsets(r) \in SUBSET Nat /\ offsets(r) # {} /\ r \in Rank OBVIOUS
  <2> DEFINE o == Min(offsets(r))
             b == bgAt(r, o)
  <2>2. o \in offsets(r)
    <3> HIDE DEF offsets
    <3> QED BY <2>1, MinExists
  <2>3. o \in 0 .. BankGroupsPerRank - 1 /\ writable(b)
    <3> HIDE DEF o, writable, bgAt
    <3>1. o \in {k \in 0 .. BankGroupsPerRank - 1 : writable(bgAt(r, k))} BY <2>2
    <3> QED BY <3>1 DEF b
  <2>4. chosen[r] = b
    <3> HIDE DEF offsets, bgAt
    <3> QED OBVIOUS
  <2>5. b \in BG
    <3>1. p.rankCursor[r] + o \in Nat
      <4>1. o \in 0 .. BankGroupsPerRank - 1 /\ r \in Rank BY <2>1, <2>3
      <4> HIDE DEF o, active
      <4>2. p.rankCursor[r] \in 0 .. BankGroupsPerRank - 1 BY <1>2, <4>1
      <4> QED BY <1>2, <4>1, <4>2
    <3>2. (p.rankCursor[r] + o) % BankGroupsPerRank \in 0 .. BankGroupsPerRank - 1
      BY <1>2, <3>1, Mod
    <3> QED BY <2>1, <3>2, Homes
  <2>6. b \in bursts /\ p.bg[b].reservedCount + Cardinality(Resident(p.bg[b])) < BufferCapacity
    <3> HIDE DEF b
    <3> QED BY <2>3
  <2> HIDE DEF chosen, b
  <2>7. FreeSlots(p.bg[b]) # {} BY <1>3, <2>5, <2>6, SlotIsFree
  <2> QED BY <2>4, <2>5, <2>6, <2>7
<1> DEFINE taken == {b \in BG : \E r \in active : chosen[r] = b}
           cursor == [r \in Rank |-> IF r \in active THEN (chosen[r] + 1) % BankGroupsPerRank
                                                     ELSE p.rankCursor[r]]
<1>5. q = [p EXCEPT !.bg = [b \in BG |-> IF \E r \in active : chosen[r] = b
                                         THEN WriteIssued(p.bg[b]) ELSE p.bg[b]],
                    !.rankCursor = cursor]
  <2>1. q = IssueWrites(p, bursts) OBVIOUS
  <2>2. ~ \E r \in active : FreeSlots(p.bg[chosen[r]]) = {} BY <1>4
  <2>3. q = IF \E r \in active : FreeSlots(p.bg[chosen[r]]) = {} THEN Fail(p)
            ELSE [p EXCEPT
                    !.bg = [b \in BG |-> IF \E r \in active : chosen[r] = b
                                         THEN WriteIssued(p.bg[b]) ELSE p.bg[b]],
                    !.rankCursor = cursor]
    BY <2>1 DEF IssueWrites
  <2> HIDE DEF active, chosen, cursor
  <2> QED BY <2>2, <2>3
<1>6. cursor \in [Rank -> 0 .. BankGroupsPerRank - 1]
  <2>1. \A r \in active : chosen[r] + 1 \in Nat
    <3>1. \A r \in active : chosen[r] \in BG BY <1>4
    <3> HIDE DEF active, chosen
    <3> QED BY <3>1 DEF BG
  <2> HIDE DEF active, chosen
  <2>2. \A r \in active : (chosen[r] + 1) % BankGroupsPerRank \in 0 .. BankGroupsPerRank - 1
    BY <1>2, <2>1, Mod
  <2> QED BY <1>2, <2>2
<1>7. \A b \in taken : b \in BG /\ p.bg[b].pending # <<>> /\ FreeSlots(p.bg[b]) # {}
  <2>1. \A r \in active : chosen[r] \in BG /\ chosen[r] \in bursts
                          /\ FreeSlots(p.bg[chosen[r]]) # {}
    BY <1>4
  <2> HIDE DEF active, chosen
  <2> QED BY <2>1
<1> HIDE DEF active, chosen, cursor, offsets, writable, bgAt
<1>8. /\ q.bg = [b \in BG |-> IF b \in taken THEN WriteIssued(p.bg[b]) ELSE p.bg[b]]
      /\ q.rankCursor = cursor /\ q.counts = p.counts
      /\ q.reads = p.reads /\ q.returned = p.returned /\ q.reservedReturn = p.reservedReturn
      /\ q.queue = p.queue /\ q.batch = p.batch /\ q.added = p.added
      /\ q.writebackDone = p.writebackDone /\ q.readbackStarted = p.readbackStarted
      /\ q.transportDone = p.transportDone /\ q.readbackDone = p.readbackDone
      /\ q.reductionDone = p.reductionDone /\ q.error = p.error
  BY <1>1, <1>5 DEF PathType
<1> HIDE DEF taken
<1>10. ASSUME NEW b \in BG
       PROVE  /\ Group(q.bg[b], b, d[b], 1, high, R[b])
              /\ q.bg[b].nextBurst = p.bg[b].nextBurst
              /\ q.bg[b].nextRead = p.bg[b].nextRead
              /\ q.bg[b].resident = p.bg[b].resident
              /\ q.bg[b].lastOutput = p.bg[b].lastOutput
              /\ Written(q.bg[b]) = Written(p.bg[b])
              /\ b \notin taken => q.bg[b] = p.bg[b]
  <2> DEFINE g == p.bg[b]
             h == q.bg[b]
             e == d[b]
             r == R[b]
  <2>1. CASE b \in taken
    <3>1. Group(g, b, e, 1, high - 1, r) /\ g.pending # <<>> /\ FreeSlots(g) # {}
          /\ h = WriteIssued(g)
      BY <1>3, <1>7, <1>8, <2>1
    <3> HIDE DEF g, h, e, r
    <3>2. /\ Group(h, b, e, 1, high, r)
          /\ h.nextBurst = g.nextBurst /\ h.resident = g.resident
          /\ h.nextRead = g.nextRead /\ h.lastOutput = g.lastOutput
          /\ Written(h) = Written(g)
      BY <1>2, <3>1, GroupIssuesWrite
    <3> QED BY <2>1, <3>2 DEF g, h, e, r
  <2>2. CASE b \notin taken
    <3>1. h = g /\ Group(g, b, e, 1, high - 1, r) BY <1>3, <1>8, <2>2
    <3> HIDE DEF g, h, e, r
    <3>2. Sending(g, b, 1, high)
      <4>1. Sending(g, b, 1, high - 1) /\ g \in GroupType BY <3>1 DEF Group
      <4>2. ASSUME NEW i \in 1 .. Len(g.inflight) PROVE g.inflight[i].wait <= high
        <5>1. g.inflight[i].wait <= high - 1 BY <4>1 DEF Sending
        <5>2. g.inflight[i].wait \in Nat BY <4>1, GroupFields
        <5> QED BY <1>2, <5>1, <5>2
      <4> QED BY <4>1, <4>2 DEF Sending
    <3>3. Group(h, b, e, 1, high, r) BY <3>1, <3>2 DEF Group
    <3> QED BY <3>1, <3>3 DEF g, h, e, r
  <2> QED BY <2>1, <2>2
<1>11. q \in PathType
  <2>1. \A b \in BG : q.bg[b] \in GroupType BY <1>10 DEF Group
  <2>2. q.bg \in [BG -> GroupType] BY <1>8, <2>1
  <2>3. q = [p EXCEPT !.bg = q.bg, !.rankCursor = cursor] BY <1>5, <1>8
  <2> QED BY <1>1, <1>6, <2>2, <2>3 DEF PathType
<1>12. p.writebackDone => taken = {} BY <1>1, <1>7 DEF Flags, Finished
<1>13. Groups(q, d, 1, high, R) BY <1>10 DEF Groups
<1>14. SameReadBack(p, q) BY <1>8 DEF SameReadBack
<1>15. /\ q.counts.generated = Total(Outputs(q)) /\ q.counts.written = Total(AllWritten(q))
       /\ q.counts.bursts = Total(AllBursts(q))
  BY <1>1, <1>8, <1>10, <1>11, TotalsOfGroups DEF CountsHold
<1>17. \A b \in BG : /\ q.bg[b].nextRead = p.bg[b].nextRead
                     /\ \A k \in BufferSlot : p.bg[b].resident[k] # NoBurst =>
                          q.bg[b].resident[k] = p.bg[b].resident[k]
                     /\ p.writebackDone => q.bg[b] = p.bg[b]
  BY <1>10, <1>12
<1>18. State(q, d, 1, high, rlow, rhigh, R, D) BY <1>11, <1>13, <1>14, <1>15, <1>17, WritePhase
<1>19. SameDelivery(p, q) BY <1>8, <1>10 DEF SameDelivery
<1> QED BY <1>18, <1>19

\* To the delivery, a bank group sends a record before completion is reported.
SendsOne(p, q, b) ==
  /\ ~p.reductionDone /\ q.reductionDone = p.reductionDone /\ q.added = p.added
  /\ Outputs(q) = [Outputs(p) EXCEPT ![b] = @ + 1]

\* The record a bank group sends before it has drained is packed.
LEMMA TransferKeeps ==
  ASSUME NEW p, NEW d \in [BG -> BOOLEAN], NEW low, NEW high, NEW rlow, NEW rhigh,
         NEW R, NEW D, State(p, d, low, high, rlow, rhigh, R, D),
         NEW b \in BG, ~d[b], CanReserve(p, b), NEW q, q = CommitReserved(p, b)
  PROVE  State(q, d, low, high, rlow, rhigh, R, D) /\ SendsOne(p, q, b)
<1> DEFINE g == p.bg[b]
           m == Packed(g, b)
           full == Len(m.packer) = RecordsPerBurst
           h == IF full THEN Formed(m) ELSE m
           r == R[b]
           e == d[b]
<1>1. /\ p \in PathType /\ R \in [BG -> Nat] /\ D \in [BG -> Nat]
      /\ Groups(p, d, low, high, R) /\ CountsHold(p, R, D) /\ Flags(p, R, D)
  BY DEF State
<1>2. p.bg \in [BG -> GroupType] /\ p.counts \in CountsType /\ p.counts.bursts \in Nat
      /\ p.counts.generated \in Nat
  BY <1>1, PathFields
<1>3. Group(g, b, e, low, high, r) /\ e \in BOOLEAN /\ ~e BY <1>1 DEF Groups
<1>4. g \in GroupType /\ Len(g.packer) \in Nat /\ Len(g.pending) \in Nat BY <1>2, GroupFields
<1> HIDE DEF g, r, e
<1>5. /\ m \in GroupType /\ Len(m.packer) = Len(g.packer) + 1 /\ m.pending = g.pending
      /\ m.nextBurst = g.nextBurst /\ m.inflight = g.inflight /\ m.resident = g.resident
      /\ m.nextRead = g.nextRead /\ m.lastOutput = g.lastOutput + 1
      /\ Written(m) = Written(g)
      /\ Len(m.packer) # RecordsPerBurst => Group(m, b, e, low, high, r)
      /\ Len(m.packer) = RecordsPerBurst =>
           /\ Group(Formed(m), b, e, low, high, r)
           /\ Formed(m).nextBurst = g.nextBurst + 1
           /\ Formed(m).resident = g.resident /\ Formed(m).nextRead = g.nextRead
           /\ Formed(m).lastOutput = g.lastOutput + 1
           /\ Written(Formed(m)) = Written(g)
  <2>1. m = Packed(g, b) OBVIOUS
  <2> HIDE DEF m, h, full
  <2>2. /\ m \in GroupType /\ Len(m.packer) = Len(g.packer) + 1 /\ m.pending = g.pending
        /\ m.nextBurst = g.nextBurst /\ m.inflight = g.inflight /\ m.resident = g.resident
        /\ m.nextRead = g.nextRead /\ m.lastOutput = g.lastOutput + 1
        /\ Written(m) = Written(g)
        /\ Len(m.packer) # RecordsPerBurst => Group(m, b, e, low, high, r)
    BY <1>3, <2>1, GroupPacks
  <2>3. ASSUME Len(m.packer) = RecordsPerBurst
        PROVE  /\ Group(Formed(m), b, e, low, high, r)
               /\ Formed(m).nextBurst = g.nextBurst + 1
               /\ Formed(m).resident = g.resident /\ Formed(m).nextRead = g.nextRead
               /\ Formed(m).lastOutput = g.lastOutput + 1
               /\ Written(Formed(m)) = Written(g)
    BY <1>3, <2>1, <2>3, GroupPacks
  <2> QED BY <2>2, <2>3
<1> HIDE DEF m
<1>6. /\ Group(h, b, e, low, high, r)
      /\ h.nextBurst = g.nextBurst + (IF full THEN 1 ELSE 0)
      /\ h.resident = g.resident /\ h.nextRead = g.nextRead
      /\ h.lastOutput = g.lastOutput + 1 /\ Written(h) = Written(g)
  <2>1. g.nextBurst + 0 = g.nextBurst BY <1>4, GroupFields
  <2> QED BY <1>5, <2>1
<1> DEFINE one == IF full THEN 1 ELSE 0
<1>7. /\ q = [p EXCEPT !.bg = [p.bg EXCEPT ![b] = h], !.counts = q.counts]
      /\ q.counts = [p.counts EXCEPT !.generated = p.counts.generated + 1,
                                     !.bursts = p.counts.bursts + one]
  <2> DEFINE k == [p EXCEPT !.bg[b] = Packed(@, b), !.counts.generated = @ + 1]
             n == [p.counts EXCEPT !.generated = p.counts.generated + 1]
  <2>1. /\ k.bg = [p.bg EXCEPT ![b] = m] /\ k.bg[b] = m /\ k.counts = n
        /\ k = [p EXCEPT !.bg = [p.bg EXCEPT ![b] = m], !.counts = n]
    BY <1>1, <1>2 DEF PathType, m, g
  <2>2. q = IF Len(k.bg[b].packer) = RecordsPerBurst THEN FormBurst(k, b) ELSE k
    BY DEF CommitReserved
  <2>n. n.bursts = p.counts.bursts /\ n = [p.counts EXCEPT !.generated = p.counts.generated + 1]
    BY <1>2 DEF CountsType
  <2>3. CASE full
    <3>1. Len(g.pending) < PendingCapacity
      <4>1. Len(g.packer) = RecordsPerBurst - 1 BY <1>4, <1>5, <2>3
      <4>2. ~(Len(g.pending) >= PendingCapacity) BY <4>1 DEF CanReserve, g
      <4> QED BY <1>4, <4>2, Config
    <3>2. ~(Len(k.bg[b].pending) >= PendingCapacity) BY <1>4, <1>5, <2>1, <3>1, Config
    <3>3. q = FormBurst(k, b) BY <2>1, <2>2, <2>3
    <3>5. h = Formed(m) /\ one = 1 BY <2>3
    <3> HIDE DEF k, h, full, one, n
    <3>4. q = [k EXCEPT !.bg[b] = Formed(@), !.counts.bursts = @ + 1]
      BY <3>2, <3>3 DEF FormBurst
    <3>6. k.counts.bursts = p.counts.bursts BY <2>1, <2>n
    <3>7. q = [k EXCEPT !.bg = [k.bg EXCEPT ![b] = Formed(k.bg[b])],
                        !.counts = [k.counts EXCEPT !.bursts = k.counts.bursts + 1]]
      BY <3>4
    <3>8. [k.bg EXCEPT ![b] = Formed(k.bg[b])] = [p.bg EXCEPT ![b] = h] BY <1>2, <2>1, <3>5
    <3>9. [k.counts EXCEPT !.bursts = k.counts.bursts + 1]
             = [p.counts EXCEPT !.generated = p.counts.generated + 1,
                                !.bursts = p.counts.bursts + one]
      BY <1>2, <2>1, <2>n, <3>5, <3>6 DEF CountsType
    <3> DEFINE v == [p.bg EXCEPT ![b] = h]
               w == [p.counts EXCEPT !.generated = p.counts.generated + 1,
                                     !.bursts = p.counts.bursts + one]
               x == [p.bg EXCEPT ![b] = m]
    <3>10. q = [k EXCEPT !.bg = v, !.counts = w] /\ k = [p EXCEPT !.bg = x, !.counts = n]
      BY <2>1, <3>7, <3>8, <3>9
    <3> HIDE DEF v, w, x
    <3>11. q = [p EXCEPT !.bg = v, !.counts = w] BY <1>1, <3>10 DEF PathType
    <3>12. q.counts = w BY <1>1, <3>11 DEF PathType
    <3> QED BY <3>11, <3>12 DEF v, w
  <2>4. CASE ~full
    <3>1. q = k /\ h = m /\ one = 0 BY <2>1, <2>2, <2>4
    <3>2. p.counts.bursts + 0 = p.counts.bursts BY <1>2
    <3> HIDE DEF k, h, full, one, n
    <3>3. n = [p.counts EXCEPT !.generated = p.counts.generated + 1,
                               !.bursts = p.counts.bursts + one]
      BY <1>2, <2>n, <3>1, <3>2 DEF CountsType
    <3> QED BY <2>1, <3>1, <3>3
  <2> QED BY <2>3, <2>4
<1>8. one \in Nat OBVIOUS
<1> HIDE DEF h, full, one
<1>9. /\ q.bg = [p.bg EXCEPT ![b] = h]
      /\ q.counts = [p.counts EXCEPT !.generated = p.counts.generated + 1,
                                     !.bursts = p.counts.bursts + one]
      /\ q.reads = p.reads /\ q.returned = p.returned /\ q.reservedReturn = p.reservedReturn
      /\ q.queue = p.queue /\ q.batch = p.batch /\ q.added = p.added
      /\ q.writebackDone = p.writebackDone /\ q.readbackStarted = p.readbackStarted
      /\ q.transportDone = p.transportDone /\ q.readbackDone = p.readbackDone
      /\ q.reductionDone = p.reductionDone /\ q.error = p.error
      /\ q = [p EXCEPT !.bg = [p.bg EXCEPT ![b] = h], !.counts = q.counts]
  <2>1. q.counts = [p.counts EXCEPT !.generated = p.counts.generated + 1,
                                    !.bursts = p.counts.bursts + one]
        /\ q = [p EXCEPT !.bg = [p.bg EXCEPT ![b] = h], !.counts = q.counts]
    BY <1>7
  <2> DEFINE v == [p.bg EXCEPT ![b] = h]
             w == q.counts
  <2>2. q = [p EXCEPT !.bg = v, !.counts = w] BY <2>1
  <2> HIDE DEF v, w
  <2>3. /\ q.bg = v
        /\ q.reads = p.reads /\ q.returned = p.returned /\ q.reservedReturn = p.reservedReturn
        /\ q.queue = p.queue /\ q.batch = p.batch /\ q.added = p.added
        /\ q.writebackDone = p.writebackDone /\ q.readbackStarted = p.readbackStarted
        /\ q.transportDone = p.transportDone /\ q.readbackDone = p.readbackDone
        /\ q.reductionDone = p.reductionDone /\ q.error = p.error
    BY <1>1, <2>2 DEF PathType
  <2> QED BY <2>1, <2>3 DEF v
<1>10. /\ q.counts \in CountsType
       /\ q.counts.generated = p.counts.generated + 1
       /\ q.counts.bursts = p.counts.bursts + one
       /\ q.counts.written = p.counts.written
       /\ q.counts.readsIssued = p.counts.readsIssued
       /\ q.counts.readsDone = p.counts.readsDone
       /\ q.counts.readRecords = p.counts.readRecords
       /\ q.counts.delivered = p.counts.delivered
       /\ q.counts.enqueued = p.counts.enqueued
       /\ q.counts.issued = p.counts.issued /\ q.counts.reduced = p.counts.reduced
  <2>1. p.counts.generated + 1 \in Nat /\ p.counts.bursts + one \in Nat BY <1>2, <1>8
  <2> QED BY <1>2, <1>9, <2>1 DEF CountsType
<1>11. ~p.writebackDone /\ ~p.reductionDone
  <2>1. ~g.lifecycle BY <1>3 DEF Group, Packing
  <2>2. ~p.writebackDone BY <1>1, <2>1 DEF Flags, Finished, g
  <2> QED BY <1>1, <2>2 DEF Flags
<1>12. h \in GroupType BY <1>6 DEF Group
<1>13. q.bg[b] = h /\ \A x \in BG \ {b} : q.bg[x] = p.bg[x] BY <1>2, <1>9
<1>14. q \in PathType
  <2>1. [p.bg EXCEPT ![b] = h] \in [BG -> GroupType] BY <1>2, <1>12
  <2> QED BY <1>1, <1>9, <1>10, <2>1 DEF PathType
<1>15. Groups(q, d, low, high, R)
  <2> SUFFICES ASSUME NEW x \in BG PROVE Group(q.bg[x], x, d[x], low, high, R[x]) BY DEF Groups
  <2>1. CASE x = b BY <1>6, <1>13, <2>1 DEF r, e
  <2>2. CASE x # b BY <1>1, <1>13, <2>2 DEF Groups
  <2> QED BY <2>1, <2>2
<1>16. SameReadBack(p, q) BY <1>9, <1>10 DEF SameReadBack
<1>17. \A x \in BG : /\ q.bg[x].nextRead = p.bg[x].nextRead
                     /\ \A k \in BufferSlot : p.bg[x].resident[k] # NoBurst =>
                          q.bg[x].resident[k] = p.bg[x].resident[k]
                     /\ p.writebackDone => q.bg[x] = p.bg[x]
  BY <1>6, <1>11, <1>13 DEF g
<1>18. IsFiniteSet(BG) /\ p.bg[b] = g /\ g.lastOutput \in Nat /\ g.nextBurst \in Nat
  BY <1>4, Homes, GroupFields DEF g
<1>19. q.counts.generated = Total(Outputs(q)) /\ Outputs(q) = [Outputs(p) EXCEPT ![b] = @ + 1]
  <2> DEFINE f == Outputs(p)
             k == Outputs(q)
  <2>1. f \in [BG -> Nat] /\ k \in [BG -> Nat] BY <1>1, <1>14, TotalsOfGroups
  <2>2. f[b] = g.lastOutput /\ k[b] = g.lastOutput + 1 BY <1>6, <1>13, <1>18 DEF Outputs
  <2>3. \A x \in BG \ {b} : k[x] = f[x] BY <1>13 DEF Outputs
  <2>4. p.counts.generated = Total(f) BY <1>1 DEF CountsHold
  <2> HIDE DEF f, k
  <2>5. f[b] <= k[b] /\ k[b] - f[b] = 1 BY <1>18, <2>2
  <2>6. Total(k) = Total(f) + (k[b] - f[b]) BY <1>18, <2>1, <2>3, <2>5, TotalChange
  <2>7. k = [f EXCEPT ![b] = @ + 1] BY <2>1, <2>2, <2>3
  <2> QED BY <1>10, <2>4, <2>5, <2>6, <2>7 DEF f, k
<1>20. q.counts.bursts = Total(AllBursts(q))
  <2> DEFINE f == AllBursts(p)
             k == AllBursts(q)
  <2>1. f \in [BG -> Nat] /\ k \in [BG -> Nat] BY <1>1, <1>14, TotalsOfGroups
  <2>2. f[b] = g.nextBurst - 1 /\ k[b] = (g.nextBurst + one) - 1
    BY <1>6, <1>13, <1>18 DEF AllBursts, Bursts, one
  <2>3. \A x \in BG \ {b} : k[x] = f[x] BY <1>13 DEF AllBursts
  <2>4. p.counts.bursts = Total(f) BY <1>1 DEF CountsHold
  <2> HIDE DEF f, k
  <2>5. f[b] <= k[b] /\ k[b] - f[b] = one BY <1>8, <1>18, <2>2
  <2>6. Total(k) = Total(f) + (k[b] - f[b]) BY <1>18, <2>1, <2>3, <2>5, TotalChange
  <2> QED BY <1>10, <2>4, <2>5, <2>6 DEF k
<1>21. q.counts.written = Total(AllWritten(q))
  <2>1. \A x \in BG : Written(q.bg[x]) = Written(p.bg[x]) BY <1>6, <1>13 DEF g
  <2> QED BY <1>1, <1>10, <1>14, <2>1, TotalsOfGroups DEF CountsHold
<1>22. State(q, d, low, high, rlow, rhigh, R, D)
  <2>1. State(p, d, low, high, rlow, rhigh, R, D) OBVIOUS
  <2>2. q.counts.generated = Total(Outputs(q)) BY <1>19
  <2> HIDE DEF h, full, one, m, g, r, e
  <2> QED BY <2>1, <1>14, <1>15, <1>16, <1>17, <2>2, <1>20, <1>21, WritePhase
<1>23. SendsOne(p, q, b) BY <1>9, <1>11, <1>19 DEF SendsOne
<1> QED BY <1>22, <1>23

\* Once every burst is in the buffer, the buffer holds every sealed record.
LEMMA ResidentRecords ==
  ASSUME NEW g, NEW b \in BG, NEW d, NEW low, NEW high, Group(g, b, d, low, high, 0),
         Written(g) = Bursts(g)
  PROVE  Total(RecordsIn(g.resident)) = Sealed(g)
<1> DEFINE u == Sealed(g)
           f == RecordsIn(g.resident)
           num(k) == g.resident[k].number
<1>1. /\ g \in GroupType /\ u \in Nat /\ Bursts(g) \in Nat
      /\ \A n \in 1 .. Bursts(g) : IsBurst(n, u)
      /\ InFirst(Bursts(g), u) = u
  BY GroupNumbers
<1>2. g.resident \in [BufferSlot -> BurstType] /\ \A k \in BufferSlot : num(k) \in Nat
  BY <1>1, GroupFields
<1>3. f \in [BufferSlot -> Nat] /\ \A k \in BufferSlot : f[k] = Len(g.resident[k].records)
  <2>1. \A k \in BufferSlot : Len(g.resident[k].records) \in Nat BY <1>2 DEF BurstType
  <2>2. f = [k \in BufferSlot |-> Len(g.resident[k].records)] BY <1>2 DEF RecordsIn
  <2> HIDE DEF f
  <2> QED BY <2>1, <2>2
<1>4. ASSUME NEW k \in BufferSlot, f[k] # 0
      PROVE  /\ num(k) \in 1 .. Bursts(g) /\ f[k] = Size(num(k), u)
             /\ f[k] \in 1 .. RecordsPerBurst /\ Before(num(k)) \in Nat
             /\ Before(num(k)) + f[k] <= u
  <2>1. g.resident[k] # NoBurst
    <3>1. Len(NoBurst.records) = 0 BY DEF NoBurst
    <3> QED BY <1>3, <1>4, <3>1
  <2> DEFINE n == num(k)
  <2>2. n \in 0 + 1 .. Written(g) BY <2>1, ResidentNumbers
  <2>3. g.resident[k] = BurstOf(b, n, u) BY <2>1 DEF Group, Holding
  <2> HIDE DEF n
  <2>4. n \in 1 .. Bursts(g) /\ n \in Nat BY <1>1, <2>2
  <2>5. IsBurst(n, u) BY <1>1, <2>4
  <2> HIDE DEF u, f
  <2>6. /\ Before(n) \in Nat /\ Size(n, u) \in 1 .. RecordsPerBurst
        /\ InFirst(n, u) = Before(n) + Size(n, u) /\ InFirst(n, u) <= u
        /\ Len(BurstOf(b, n, u).records) = Size(n, u)
    BY <1>1, <2>5, BurstFacts
  <2>7. f[k] = Size(n, u) BY <1>3, <2>3, <2>6
  <2> QED BY <2>4, <2>6, <2>7 DEF n
<1>5. ASSUME NEW k \in BufferSlot, f[k] # 0
      PROVE  Before(num(k)) = (num(k) - 1) * RecordsPerBurst /\ num(k) - 1 \in Nat
  BY <1>1, <1>2, <1>4, <1>5 DEF Before
<1>6. \A j, k \in BufferSlot : f[j] # 0 /\ num(j) = num(k) => j = k
  <2> SUFFICES ASSUME NEW j \in BufferSlot, NEW k \in BufferSlot, f[j] # 0, num(j) = num(k)
               PROVE  j = k
    OBVIOUS
  <2>1. num(j) # 0 BY <1>1, <1>4
  <2>2. g.resident[j] # NoBurst BY <2>1 DEF NoBurst
  <2> QED BY <2>2 DEF Group, Holding
<1>7. ASSUME NEW x \in 1 .. u
      PROVE  \E k \in BufferSlot : \E i \in 1 .. f[k] : f[k] # 0 /\ Before(num(k)) + i = x
  <2>1. u <= Bursts(g) * RecordsPerBurst /\ Bursts(g) * RecordsPerBurst \in Nat
    <3>1. Bursts(g) * RecordsPerBurst \in Nat BY <1>1, Times
    <3> QED BY <1>1, <3>1 DEF InFirst
  <2>2. x - 1 \in 0 .. Bursts(g) * RecordsPerBurst - 1 BY <1>1, <2>1
  <2>3. PICK c \in 0 .. Bursts(g) - 1 : \E y \in 0 .. RecordsPerBurst - 1 :
          x - 1 = c * RecordsPerBurst + y
    <3> DEFINE m == Bursts(g)
               v == x - 1
    <3>1. m \in Nat /\ v \in 0 .. m * RecordsPerBurst - 1 /\ RecordsPerBurst \in Nat \ {0}
      BY <1>1, <2>2, Config
    <3> HIDE DEF m, v
    <3>2. \E c \in 0 .. m - 1 : \E y \in 0 .. RecordsPerBurst - 1 :
            v = c * RecordsPerBurst + y
      BY <3>1, MultipleExists
    <3> QED BY <3>2 DEF m, v
  <2>4. PICK y \in 0 .. RecordsPerBurst - 1 : x - 1 = c * RecordsPerBurst + y BY <2>3
  <2> DEFINE n == c + 1
  <2>5. n \in 0 + 1 .. Written(g) /\ n \in 1 .. Bursts(g) BY <1>1
  <2>6. PICK k \in BufferSlot : num(k) = n BY <2>5 DEF Group, Holding
  <2>7. g.resident[k] = BurstOf(b, n, u)
    <3>1. g.resident[k] # NoBurst BY <1>1, <2>5, <2>6 DEF NoBurst
    <3> QED BY <2>6, <3>1 DEF Group, Holding
  <2>8. IsBurst(n, u) BY <1>1, <2>5
  <2>9. Before(n) = c * RecordsPerBurst /\ c * RecordsPerBurst \in Nat
        /\ (c + 1) * RecordsPerBurst = c * RecordsPerBurst + RecordsPerBurst
    <3>1. c \in Nat /\ n - 1 = c BY <1>1
    <3> QED BY <3>1, Times DEF Before
  <2> HIDE DEF n, u, f
  <2>10. /\ Size(n, u) \in 1 .. RecordsPerBurst
         /\ InFirst(n, u) = Before(n) + Size(n, u)
         /\ Len(BurstOf(b, n, u).records) = Size(n, u)
    BY <1>1, <2>8, BurstFacts
  <2>11. f[k] = Size(n, u) BY <1>3, <2>7, <2>10
  <2>12. InFirst(n, u) = IF c * RecordsPerBurst + RecordsPerBurst <= u
                         THEN c * RecordsPerBurst + RecordsPerBurst ELSE u
    BY <2>9 DEF InFirst, n
  <2>13. y + 1 \in 1 .. f[k] /\ Before(n) + (y + 1) = x
    BY <1>1, <2>4, <2>9, <2>10, <2>11, <2>12, Config
  <2> QED BY <2>6, <2>11, <2>10, <2>13, Config
<1> HIDE DEF f, u
<1> DEFINE B == Below(f)
           h == [q \in B |-> Before(num(q[1])) + q[2]]
<1>8. IsFiniteSet(B) /\ Total(f) = Cardinality(B) BY <1>3, Homes, BelowFinite, BelowFacts
<1>9. ASSUME NEW q \in B
      PROVE  q[1] \in BufferSlot /\ q[2] \in 1 .. f[q[1]] /\ f[q[1]] # 0 /\ q = <<q[1], q[2]>>
  <2>1. PICK k \in BufferSlot : \E n \in 1 .. f[k] : q = <<k, n>> BY <1>3, BelowFacts
  <2>2. f[k] \in Nat BY <1>3
  <2> QED BY <2>1, <2>2
<1>10. h \in [B -> 1 .. u]
  <2> SUFFICES ASSUME NEW q \in B PROVE Before(num(q[1])) + q[2] \in 1 .. u OBVIOUS
  <2>1. /\ f[q[1]] \in 1 .. RecordsPerBurst /\ Before(num(q[1])) \in Nat
        /\ Before(num(q[1])) + f[q[1]] <= u /\ q[2] \in 1 .. f[q[1]]
    BY <1>4, <1>9
  <2> HIDE DEF B, num
  <2> QED BY <1>1, <2>1
<1>11. ASSUME NEW q \in B, NEW r \in B, h[q] = h[r] PROVE q = r
  <2> DEFINE m == num(q[1]) - 1
             n == num(r[1]) - 1
             i == q[2] - 1
             j == r[2] - 1
  <2>1. /\ m \in Nat /\ Before(num(q[1])) = m * RecordsPerBurst
        /\ n \in Nat /\ Before(num(r[1])) = n * RecordsPerBurst
    BY <1>5, <1>9
  <2>2. i \in 0 .. RecordsPerBurst - 1 /\ j \in 0 .. RecordsPerBurst - 1 BY <1>4, <1>9, Config
  <2>3. Before(num(q[1])) + q[2] = Before(num(r[1])) + r[2] BY <1>11
  <2>4. q[2] = i + 1 /\ r[2] = j + 1 /\ q[2] \in Int /\ r[2] \in Int BY <1>4, <1>9
  <2>5. m * RecordsPerBurst \in Nat /\ n * RecordsPerBurst \in Nat BY <2>1, Times
  <2> HIDE DEF m, n, i, j
  <2>6. m * RecordsPerBurst + i = n * RecordsPerBurst + j
    BY <2>1, <2>2, <2>3, <2>4, <2>5, Config
  <2>7. m = n /\ i = j BY <2>1, <2>2, <2>6, MultiplesApart, Config
  <2>8. num(q[1]) = num(r[1])
    <3>1. num(q[1]) \in Nat /\ num(r[1]) \in Nat BY <1>2, <1>9
    <3> HIDE DEF num
    <3> QED BY <2>7, <3>1 DEF m, n
  <2>9. q[1] = r[1] /\ q[2] = r[2] BY <1>6, <1>9, <2>4, <2>7, <2>8
  <2> QED BY <1>9, <2>9
<1>12. ASSUME NEW x \in 1 .. u PROVE \E q \in B : h[q] = x
  <2>1. PICK k \in BufferSlot : \E i \in 1 .. f[k] : f[k] # 0 /\ Before(num(k)) + i = x BY <1>7
  <2>2. PICK i \in 1 .. f[k] : Before(num(k)) + i = x BY <2>1
  <2>3. <<k, i>> \in B BY <1>3, BelowFacts
  <2>4. h[<<k, i>>] = x BY <2>2, <2>3
  <2> QED BY <2>3, <2>4
<1> HIDE DEF B, h
<1>13. Cardinality(1 .. u) = Cardinality(B) BY <1>8, <1>10, <1>11, <1>12, SameSize
<1>14. Cardinality(1 .. u) = u
  <2>1. 1 \in Int /\ u \in Int /\ (1 > u <=> u = 0) BY <1>1
  <2>2. Cardinality(1 .. u) = IF 1 > u THEN 0 ELSE u - 1 + 1 BY <2>1, FS_Interval
  <2> QED BY <1>1, <2>1, <2>2
<1> QED BY <1>8, <1>13, <1>14 DEF f, u

\* The bursts in the buffer are those written and not read.
LEMMA ResidentCount ==
  ASSUME NEW g, NEW b, NEW d, NEW low, NEW high, NEW r, Group(g, b, d, low, high, r)
  PROVE  IsFiniteSet(Resident(g)) /\ Cardinality(Resident(g)) = Written(g) - r
BY SlotCounts

\* When every bank group has finished, what they wrote is all they sent.
LEMMA AllIsWritten ==
  ASSUME NEW p, NEW d, NEW low, NEW high, NEW rlow, NEW rhigh, NEW R, NEW D,
         State(p, d, low, high, rlow, rhigh, R, D), ~p.readbackStarted,
         \A b \in BG : p.bg[b].packer = <<>> /\ p.bg[b].pending = <<>> /\ p.bg[b].inflight = <<>>
  PROVE  ConservationInvariant(p)
<1>1. /\ p \in PathType /\ Groups(p, d, low, high, R) /\ CountsHold(p, R, D) BY DEF State
<1>2. ASSUME NEW b \in BG
      PROVE  /\ Len(p.bg[b].pending) + Len(p.bg[b].inflight) + Cardinality(Resident(p.bg[b]))
                  = Bursts(p.bg[b])
             /\ Total(RecordsIn(p.bg[b].resident)) = p.bg[b].lastOutput
  <2> DEFINE g == p.bg[b]
             e == d[b]
             r == R[b]
  <2>1. Group(g, b, e, low, high, r) BY <1>1 DEF Groups
  <2>2. r = 0 BY NothingReadYet
  <2>3. g.packer = <<>> /\ g.pending = <<>> /\ g.inflight = <<>> OBVIOUS
  <2> HIDE DEF g, e, r
  <2>4. /\ Len(g.packer) = 0 /\ Len(g.pending) = 0 /\ Len(g.inflight) = 0
        /\ g.lastOutput \in Nat /\ g \in GroupType
    <3>1. g \in GroupType BY <2>1 DEF Group
    <3> QED BY <2>3, <3>1, GroupFields
  <2>5. Written(g) + Len(g.inflight) + Len(g.pending) = Bursts(g) /\ Bursts(g) \in Nat
        /\ Written(g) \in Nat
    BY <2>1, GroupNumbers
  <2>6. Cardinality(Resident(g)) = Written(g) - r BY <2>1, ResidentCount
  <2>7. Written(g) = Bursts(g) /\ Cardinality(Resident(g)) = Bursts(g) BY <2>2, <2>4, <2>5, <2>6
  <2>8. Sealed(g) = g.lastOutput BY <2>4 DEF Sealed
  <2>9. Total(RecordsIn(g.resident)) = Sealed(g) BY <2>1, <2>2, <2>7, ResidentRecords
  <2>10. Len(g.pending) + Len(g.inflight) + Cardinality(Resident(g)) = Bursts(g)
    BY <2>4, <2>5, <2>7
  <2> QED BY <2>8, <2>9, <2>10 DEF g
<1>3. [b \in BG |-> Len(p.bg[b].pending) + Len(p.bg[b].inflight) + Cardinality(Resident(p.bg[b]))]
        = AllBursts(p)
  BY <1>2 DEF AllBursts
<1>4. [b \in BG |-> Total(RecordsIn(p.bg[b].resident))] = Outputs(p) BY <1>2 DEF Outputs
<1> QED BY <1>1, <1>3, <1>4 DEF CountsHold, ConservationInvariant

\* What follows from the bank groups and the reads alone.
LEMMA SameGroups ==
  ASSUME NEW p, NEW q, q.bg = p.bg
  PROVE  /\ \A d, low, high, R : Groups(p, d, low, high, R) => Groups(q, d, low, high, R)
         /\ q.reads = p.reads => \A low, high, R : \A c \in Channel :
              Reading(p, c, low, high, R) => Reading(q, c, low, high, R)
         /\ q.returned = p.returned => \A R, D : Returned(p, R, D) => Returned(q, R, D)
         /\ q.reads = p.reads => Lengths(q) = Lengths(p)
         /\ Outputs(q) = Outputs(p) /\ AllBursts(q) = AllBursts(p)
         /\ AllWritten(q) = AllWritten(p) /\ AllAsked(q) = AllAsked(p)
         /\ \A X : Records(q, X) = Records(p, X)
<1>1. /\ Outputs(q) = Outputs(p) /\ AllBursts(q) = AllBursts(p)
      /\ AllWritten(q) = AllWritten(p) /\ AllAsked(q) = AllAsked(p)
  BY DEF Outputs, AllBursts, AllWritten, AllAsked
<1>2. \A X : Records(q, X) = Records(p, X) BY DEF Records
<1>3. ASSUME q.reads = p.reads, NEW low, NEW high, NEW R, NEW c \in Channel,
             Reading(p, c, low, high, R)
      PROVE  Reading(q, c, low, high, R)
  <2>1. Len(q.reads[c]) <= MaxInflightReads BY <1>3 DEF Reading
  <2>2. PICK z \in Seq(Element) :
          /\ Len(z) = Len(p.reads[c]) /\ Line(z, Home(c), R, AllAsked(p))
          /\ \A i \in 1 .. Len(z) :
               p.reads[c][i].bg = z[i].bg /\ p.reads[c][i].burst.number = z[i].seq
    BY <1>3 DEF Reading
  <2>3. /\ Len(z) = Len(q.reads[c]) /\ Line(z, Home(c), R, AllAsked(q))
        /\ \A i \in 1 .. Len(z) :
             q.reads[c][i].bg = z[i].bg /\ q.reads[c][i].burst.number = z[i].seq
    BY <1>1, <1>3, <2>2
  <2>4. /\ \A i \in 1 .. Len(q.reads[c]) :
             /\ low <= q.reads[c][i].wait /\ q.reads[c][i].wait <= high
             /\ q.bg[q.reads[c][i].bg].resident[q.reads[c][i].slot] = q.reads[c][i].burst
        /\ \A i, j \in 1 .. Len(q.reads[c]) : i < j => q.reads[c][i].wait < q.reads[c][j].wait
    BY <1>3 DEF Reading
  <2> QED BY <2>1, <2>3, <2>4 DEF Reading
<1>4. ASSUME q.returned = p.returned, NEW R, NEW D, Returned(p, R, D) PROVE Returned(q, R, D)
  BY <1>4 DEF Returned
<1>5. q.reads = p.reads => Lengths(q) = Lengths(p) BY DEF Lengths
<1>6. \A d, low, high, R : Groups(p, d, low, high, R) => Groups(q, d, low, high, R)
  BY DEF Groups
<1> QED BY <1>1, <1>2, <1>3, <1>4, <1>5, <1>6

\* UpdateCompletion: the conservation check holds when it is made.
LEMMA UpdateCompletionKeeps ==
  ASSUME NEW p, NEW d, NEW low, NEW high, NEW rlow, NEW rhigh, NEW R, NEW D,
         State(p, d, low, high, rlow, rhigh, R, D), NEW q, q = UpdateCompletion(p)
  PROVE  /\ State(q, d, low, high, rlow, rhigh, R, D) /\ SameDelivery(p, q)
         /\ q.returned = p.returned
<1>1. /\ p \in PathType /\ R \in [BG -> Nat] /\ D \in [BG -> Nat]
      /\ Groups(p, d, low, high, R) /\ (\A c \in Channel : Reading(p, c, rlow, rhigh, R))
      /\ Host(p, R, D) /\ CountsHold(p, R, D) /\ Flags(p, R, D)
  BY DEF State
<1>2. CASE q = p BY <1>2 DEF SameDelivery
<1>3. CASE q # p
  <2>1. /\ ~p.writebackDone /\ \A b \in BG : Finished(p.bg[b])
    BY <1>3 DEF UpdateCompletion, Finished
  <2>2. ~p.readbackStarted BY <1>1, <2>1 DEF Flags
  <2>3. ConservationInvariant(p) BY <2>1, <2>2, AllIsWritten DEF Finished
  <2>4. q = [p EXCEPT !.writebackDone = TRUE] BY <1>3, <2>3 DEF UpdateCompletion
  <2>5. /\ q \in PathType /\ q.bg = p.bg /\ q.reads = p.reads /\ q.returned = p.returned
        /\ q.reservedReturn = p.reservedReturn /\ q.queue = p.queue /\ q.batch = p.batch
        /\ q.added = p.added /\ q.counts = p.counts /\ q.readbackStarted = p.readbackStarted
        /\ q.transportDone = p.transportDone /\ q.readbackDone = p.readbackDone
        /\ q.reductionDone = p.reductionDone /\ q.error = p.error
    BY <1>1, <2>4 DEF PathType
  <2>6. Groups(q, d, low, high, R) BY <1>1, <2>5, SameGroups
  <2>7. \A c \in Channel : Reading(q, c, rlow, rhigh, R) BY <1>1, <2>5, SameGroups
  <2>8. Host(q, R, D) BY <1>1, <2>5, SameGroups DEF Host
  <2>9. CountsHold(q, R, D) BY <1>1, <2>5, SameGroups DEF CountsHold
  <2>10. Flags(q, R, D) BY <1>1, <2>1, <2>5 DEF Flags
  <2> QED BY <1>1, <2>5, <2>6, <2>7, <2>8, <2>9, <2>10 DEF State, SameDelivery
<1> QED BY <1>2, <1>3

-----------------------------------------------------------------------------
(* The phases that only look at the bank groups                            *)

\* StartHostReadback: only after the last write.
LEMMA StartHostReadbackKeeps ==
  ASSUME NEW p, NEW d, NEW low, NEW high, NEW rlow, NEW rhigh, NEW R, NEW D,
         State(p, d, low, high, rlow, rhigh, R, D), NEW q, q = StartHostReadback(p)
  PROVE  /\ State(q, d, low, high, rlow, rhigh, R, D) /\ SameDelivery(p, q)
         /\ q.returned = p.returned
<1>1. /\ p \in PathType /\ R \in [BG -> Nat] /\ D \in [BG -> Nat]
      /\ Groups(p, d, low, high, R) /\ (\A c \in Channel : Reading(p, c, rlow, rhigh, R))
      /\ Host(p, R, D) /\ CountsHold(p, R, D) /\ Flags(p, R, D)
  BY DEF State
<1> DEFINE on == p.readbackStarted \/ (p.writebackDone /\ ~p.error)
<1>2. q = [p EXCEPT !.readbackStarted = on] /\ on \in BOOLEAN BY DEF StartHostReadback
<1>3. /\ (on => p.writebackDone) /\ (p.readbackStarted => on) BY <1>1 DEF Flags
<1> HIDE DEF on
<1>4. /\ q \in PathType /\ q.bg = p.bg /\ q.reads = p.reads /\ q.returned = p.returned
      /\ q.reservedReturn = p.reservedReturn /\ q.queue = p.queue /\ q.batch = p.batch
      /\ q.added = p.added /\ q.counts = p.counts /\ q.readbackStarted = on
      /\ q.writebackDone = p.writebackDone
      /\ q.transportDone = p.transportDone /\ q.readbackDone = p.readbackDone
      /\ q.reductionDone = p.reductionDone /\ q.error = p.error
  BY <1>1, <1>2 DEF PathType
<1>5. Groups(q, d, low, high, R) /\ (\A c \in Channel : Reading(q, c, rlow, rhigh, R))
  BY <1>1, <1>4, SameGroups
<1>6. Host(q, R, D) BY <1>1, <1>4, SameGroups DEF Host
<1>7. CountsHold(q, R, D) BY <1>1, <1>4, SameGroups DEF CountsHold
<1>8. Flags(q, R, D) BY <1>1, <1>3, <1>4 DEF Flags
<1> QED BY <1>1, <1>4, <1>5, <1>6, <1>7, <1>8 DEF State, SameDelivery

\* When the writes are done, what was written holds what was sent.
LEMMA WrittenIsSent ==
  ASSUME NEW p, NEW d, NEW low, NEW high, NEW rlow, NEW rhigh, NEW R, NEW D,
         State(p, d, low, high, rlow, rhigh, R, D), p.writebackDone, NEW b \in BG
  PROVE  /\ Written(p.bg[b]) = Bursts(p.bg[b]) /\ Sealed(p.bg[b]) = p.bg[b].lastOutput
         /\ InFirst(Written(p.bg[b]), Sealed(p.bg[b])) = p.bg[b].lastOutput
         /\ p.bg[b].lastOutput \in Nat /\ R[b] \in Nat
         /\ R[b] <= Asked(p.bg[b]) /\ Asked(p.bg[b]) <= Written(p.bg[b])
         /\ Asked(p.bg[b]) \in Nat /\ Written(p.bg[b]) \in Nat
<1> DEFINE g == p.bg[b]
           e == d[b]
           r == R[b]
<1>1. Group(g, b, e, low, high, r) /\ Finished(g) BY DEF State, Groups, Flags
<1> HIDE DEF g, e, r
<1>2. /\ Len(g.packer) = 0 /\ Len(g.pending) = 0 /\ Len(g.inflight) = 0
      /\ g.lastOutput \in Nat
  <2>1. g \in GroupType BY <1>1 DEF Group
  <2> QED BY <1>1, <2>1, GroupFields DEF Finished
<1>3. /\ Written(g) + Len(g.inflight) + Len(g.pending) = Bursts(g)
      /\ Bursts(g) \in Nat /\ Written(g) \in Nat
      /\ r \in Nat /\ r <= Asked(g) /\ Asked(g) <= Written(g) /\ Asked(g) \in Nat
      /\ InFirst(Bursts(g), Sealed(g)) = Sealed(g)
  BY <1>1, GroupNumbers
<1>4. Sealed(g) = g.lastOutput BY <1>2 DEF Sealed
<1>5. Written(g) = Bursts(g) BY <1>2, <1>3
<1> QED BY <1>2, <1>3, <1>4, <1>5 DEF g, r

\* When everything written has been read, the counts of the read back agree.
LEMMA AllIsRead ==
  ASSUME NEW p, NEW d, NEW low, NEW high, NEW rlow, NEW rhigh, NEW R, NEW D,
         State(p, d, low, high, rlow, rhigh, R, D), p.writebackDone,
         \A b \in BG : R[b] = Written(p.bg[b])
  PROVE  /\ p.counts.readsIssued = p.counts.written
         /\ p.counts.readsDone = p.counts.readsIssued
         /\ p.counts.readRecords = p.counts.generated
<1>1. R \in [BG -> Nat] /\ CountsHold(p, R, D) BY DEF State
<1>2. \A b \in BG : Asked(p.bg[b]) = Written(p.bg[b]) /\ Asked(p.bg[b]) = R[b] BY WrittenIsSent
<1>3. AllAsked(p) = AllWritten(p) BY <1>2 DEF AllAsked, AllWritten
<1>4. AllAsked(p) = R BY <1>1, <1>2 DEF AllAsked
<1>5. Records(p, R) = Outputs(p)
  <2>1. \A b \in BG : InFirst(R[b], Sealed(p.bg[b])) = p.bg[b].lastOutput BY WrittenIsSent
  <2> QED BY <2>1 DEF Records, Outputs
<1> QED BY <1>1, <1>3, <1>4, <1>5 DEF CountsHold

\* UpdateReadTransportCompletion: its conservation check holds.
LEMMA UpdateReadTransportKeeps ==
  ASSUME NEW p, NEW d, NEW low, NEW high, NEW rlow, NEW rhigh, NEW R, NEW D,
         State(p, d, low, high, rlow, rhigh, R, D), NEW q, q = UpdateReadTransportCompletion(p)
  PROVE  /\ State(q, d, low, high, rlow, rhigh, R, D) /\ SameDelivery(p, q)
         /\ q.returned = p.returned
<1>1. /\ p \in PathType /\ R \in [BG -> Nat] /\ D \in [BG -> Nat]
      /\ Groups(p, d, low, high, R) /\ (\A c \in Channel : Reading(p, c, rlow, rhigh, R))
      /\ Host(p, R, D) /\ CountsHold(p, R, D) /\ Flags(p, R, D)
  BY DEF State
<1>2. CASE q = p BY <1>2 DEF SameDelivery
<1>3. CASE q # p
  <2>1. p.readbackStarted /\ \A b \in BG : Resident(p.bg[b]) = {}
    BY <1>3 DEF UpdateReadTransportCompletion
  <2>2. ASSUME NEW b \in BG PROVE R[b] = Written(p.bg[b])
    <3> DEFINE g == p.bg[b]
               e == d[b]
               r == R[b]
    <3>1. Group(g, b, e, low, high, r) /\ Resident(g) = {} BY <1>1, <2>1 DEF Groups
    <3> HIDE DEF g, e, r
    <3>2. Cardinality(Resident(g)) = Written(g) - r /\ Written(g) \in Nat /\ r \in Nat
      BY <3>1, ResidentCount, GroupNumbers
    <3>3. Written(g) - r = 0 BY <3>1, <3>2, FS_EmptySet
    <3>4. r = Written(g) BY <3>2, <3>3
    <3> QED BY <3>4 DEF g, r
  <2>3. ReadbackConservation(p)
    <3>1. p.writebackDone BY <1>1, <2>1 DEF Flags
    <3> QED BY <2>2, <3>1, AllIsRead DEF ReadbackConservation
  <2>4. q = [p EXCEPT !.transportDone = TRUE] BY <1>3, <2>3 DEF UpdateReadTransportCompletion
  <2>5. /\ q \in PathType /\ q.bg = p.bg /\ q.reads = p.reads /\ q.returned = p.returned
        /\ q.reservedReturn = p.reservedReturn /\ q.queue = p.queue /\ q.batch = p.batch
        /\ q.added = p.added /\ q.counts = p.counts /\ q.readbackStarted = p.readbackStarted
        /\ q.writebackDone = p.writebackDone /\ q.readbackDone = p.readbackDone
        /\ q.transportDone /\ q.reductionDone = p.reductionDone /\ q.error = p.error
    BY <1>1, <2>4 DEF PathType
  <2>6. Groups(q, d, low, high, R) /\ (\A c \in Channel : Reading(q, c, rlow, rhigh, R))
    BY <1>1, <2>5, SameGroups
  <2>7. Host(q, R, D) BY <1>1, <2>5, SameGroups DEF Host
  <2>8. CountsHold(q, R, D) BY <1>1, <2>5, SameGroups DEF CountsHold
  <2>9. Flags(q, R, D) BY <1>1, <2>1, <2>2, <2>5 DEF Flags
  <2> QED BY <1>1, <2>5, <2>6, <2>7, <2>8, <2>9 DEF State, SameDelivery
<1> QED BY <1>2, <1>3

\* At most the records of the batch are added, and none after completion was reported.
AddsBatch(p, q) ==
  q.added = p.added \/ (~p.reductionDone /\ q.added = p.added \o p.batch)

\* CompleteReductionBatch: the batch moves to the result.
LEMMA CompleteBatchKeeps ==
  ASSUME NEW p, NEW d, NEW low, NEW high, NEW rlow, NEW rhigh, NEW R, NEW D,
         State(p, d, low, high, rlow, rhigh, R, D), NEW q, q = CompleteReductionBatch(p)
  PROVE  /\ State(q, d, low, high, rlow, rhigh, R, D)
         /\ q.reductionDone = p.reductionDone /\ Outputs(q) = Outputs(p)
         /\ AddsBatch(p, q)
         /\ q.queue = p.queue /\ q.returned = p.returned
<1>1. /\ p \in PathType /\ R \in [BG -> Nat] /\ D \in [BG -> Nat]
      /\ Groups(p, d, low, high, R) /\ (\A c \in Channel : Reading(p, c, rlow, rhigh, R))
      /\ Host(p, R, D) /\ CountsHold(p, R, D) /\ Flags(p, R, D)
  BY DEF State
<1>2. CASE p.batch = <<>> \/ p.batchWait > 0 BY <1>2 DEF CompleteReductionBatch, AddsBatch
<1>3. CASE ~(p.batch = <<>> \/ p.batchWait > 0)
  <2>1. /\ p.added \in Seq(RecordType) /\ p.batch \in Seq(RecordType)
        /\ p.queue \in Seq(RecordType) /\ p.counts \in CountsType
        /\ Len(p.batch) \in Nat /\ p.counts.reduced \in Nat
    BY <1>1, PathFields
  <2> DEFINE added == p.added \o p.batch
             counts == [p.counts EXCEPT !.reduced = @ + Len(p.batch)]
  <2>2. q = [p EXCEPT !.added = added, !.counts = counts, !.batch = <<>>]
    BY <1>1, <1>3 DEF CompleteReductionBatch, Flags
  <2>3. added \in Seq(RecordType) /\ <<>> \in Seq(RecordType) BY <2>1
  <2>4. /\ counts \in CountsType
        /\ counts.generated = p.counts.generated /\ counts.bursts = p.counts.bursts
        /\ counts.written = p.counts.written /\ counts.readsIssued = p.counts.readsIssued
        /\ counts.readsDone = p.counts.readsDone
        /\ counts.readRecords = p.counts.readRecords
        /\ counts.delivered = p.counts.delivered /\ counts.enqueued = p.counts.enqueued
        /\ counts.issued = p.counts.issued
        /\ counts.reduced = p.counts.reduced + Len(p.batch)
    <3>1. p.counts.reduced + Len(p.batch) \in Nat BY <2>1
    <3> QED BY <2>1, <3>1 DEF CountsType
  <2> HIDE DEF added, counts
  <2>5. /\ q \in PathType /\ q.bg = p.bg /\ q.reads = p.reads /\ q.returned = p.returned
        /\ q.reservedReturn = p.reservedReturn /\ q.queue = p.queue /\ q.batch = <<>>
        /\ q.added = added /\ q.counts = counts /\ q.readbackStarted = p.readbackStarted
        /\ q.writebackDone = p.writebackDone /\ q.transportDone = p.transportDone
        /\ q.readbackDone = p.readbackDone
        /\ q.reductionDone = p.reductionDone /\ q.error = p.error
    BY <1>1, <2>2, <2>3, <2>4 DEF PathType
  <2>6. Groups(q, d, low, high, R) /\ (\A c \in Channel : Reading(q, c, rlow, rhigh, R))
    BY <1>1, <2>5, SameGroups
  <2>7. Host(q, R, D)
    <3>1. (q.added \o q.batch) \o q.queue = (p.added \o p.batch) \o p.queue
      <4>1. added \o <<>> = added BY <2>3
      <4> QED BY <2>5, <4>1 DEF added
    <3>2. Line((q.added \o q.batch) \o q.queue, BG, None, Records(q, D))
      BY <1>1, <2>5, <3>1, SameGroups DEF Host
    <3> QED BY <1>1, <2>5, <3>2, SameGroups DEF Host
  <2>8. CountsHold(q, R, D)
    <3>1. Len(<<>>) = 0 /\ p.counts.issued = counts.reduced + 0
      BY <1>1, <2>1, <2>4 DEF CountsHold
    <3>2. /\ Outputs(q) = Outputs(p) /\ AllBursts(q) = AllBursts(p)
          /\ AllWritten(q) = AllWritten(p) /\ AllAsked(q) = AllAsked(p)
          /\ Records(q, R) = Records(p, R) /\ Records(q, D) = Records(p, D)
      BY <2>5, SameGroups
    <3> QED BY <1>1, <2>4, <2>5, <3>1, <3>2 DEF CountsHold
  <2>9. ~p.reductionDone BY <1>1, <1>3 DEF Flags
  <2>10. Flags(q, R, D) BY <1>1, <2>5, <2>9 DEF Flags
  <2>11. Outputs(q) = Outputs(p) BY <2>5, SameGroups
  <2> QED BY <1>1, <2>5, <2>6, <2>7, <2>8, <2>9, <2>10, <2>11 DEF State, added, AddsBatch
<1> QED BY <1>2, <1>3

\* The records in the first bursts of each bank group.
LEMMA RecordsNumber ==
  ASSUME NEW p, NEW d, NEW low, NEW high, NEW R, Groups(p, d, low, high, R),
         NEW X \in [BG -> Nat]
  PROVE  Records(p, X) \in [BG -> Nat]
<1>1. ASSUME NEW b \in BG PROVE InFirst(X[b], Sealed(p.bg[b])) \in Nat
  <2> DEFINE u == Sealed(p.bg[b])
  <2>1. u \in Nat BY GroupNumbers DEF Groups
  <2> HIDE DEF u
  <2>2. InFirst(X[b], u) \in Nat BY <2>1, InFirstFacts
  <2> QED BY <2>2 DEF u
<1> QED BY <1>1 DEF Records

\* A sequence cut in two.
LEMMA CutSequence ==
  ASSUME NEW S, NEW s \in Seq(S), NEW n \in 0 .. Len(s)
  PROVE  /\ SubSeq(s, 1, n) \in Seq(S) /\ SubSeq(s, n + 1, Len(s)) \in Seq(S)
         /\ Len(SubSeq(s, 1, n)) = n /\ Len(SubSeq(s, n + 1, Len(s))) = Len(s) - n
         /\ SubSeq(s, 1, n) \o SubSeq(s, n + 1, Len(s)) = s
<1>1. Len(s) \in Nat /\ n \in Nat /\ n <= Len(s) OBVIOUS
<1>2. \A i \in 1 .. Len(s) : s[i] \in S OBVIOUS
<1> DEFINE x == SubSeq(s, 1, n)
           y == SubSeq(s, n + 1, Len(s))
<1>3. x \in Seq(S) /\ Len(x) = n /\ \A i \in 1 .. n : x[i] = s[i]
  <2>1. \A i \in 1 .. n : s[i] \in S BY <1>1, <1>2
  <2>2. /\ x \in Seq(S) /\ Len(x) = IF 1 <= n THEN n - 1 + 1 ELSE 0
        /\ \A i \in 1 .. n - 1 + 1 : x[i] = s[1 + i - 1]
    BY <1>1, <2>1, SubSeqProperties
  <2>3. /\ n - 1 + 1 = n /\ (~(1 <= n) => n = 0) /\ \A i \in 1 .. n : 1 + i - 1 = i BY <1>1
  <2> HIDE DEF x
  <2> QED BY <2>2, <2>3
<1>4. y \in Seq(S) /\ Len(y) = Len(s) - n /\ \A i \in 1 .. Len(s) - n : y[i] = s[n + i]
  <2>1. n + 1 \in Int /\ Len(s) \in Int /\ \A i \in n + 1 .. Len(s) : s[i] \in S BY <1>1, <1>2
  <2> DEFINE m == n + 1
             l == Len(s)
  <2>2. m \in Int /\ l \in Int /\ \A i \in m .. l : s[i] \in S BY <2>1
  <2> HIDE DEF m, l
  <2>3. /\ SubSeq(s, m, l) \in Seq(S) /\ Len(SubSeq(s, m, l)) = IF m <= l THEN l - m + 1 ELSE 0
        /\ \A i \in 1 .. l - m + 1 : SubSeq(s, m, l)[i] = s[m + i - 1]
    BY <2>2, SubSeqProperties
  <2>4. l - m + 1 = Len(s) - n /\ (~(m <= l) => Len(s) - n = 0)
        /\ \A i \in 1 .. Len(s) - n : m + i - 1 = n + i
    BY <1>1 DEF m, l
  <2>5. y = SubSeq(s, m, l) BY DEF m, l
  <2> HIDE DEF y
  <2> QED BY <2>3, <2>4, <2>5
<1> HIDE DEF x, y
<1>5. /\ x \o y \in Seq(S) /\ Len(x \o y) = Len(x) + Len(y)
      /\ \A i \in 1 .. Len(x) + Len(y) : (x \o y)[i] = IF i <= Len(x) THEN x[i] ELSE y[i - Len(x)]
  BY <1>3, <1>4, ConcatProperties
<1>6. Len(x \o y) = Len(s) /\ Len(x) + Len(y) = Len(s) BY <1>1, <1>3, <1>4, <1>5
<1>7. ASSUME NEW i \in 1 .. Len(s) PROVE (x \o y)[i] = s[i]
  <2>1. (x \o y)[i] = IF i <= n THEN x[i] ELSE y[i - n] BY <1>3, <1>5, <1>6
  <2>2. CASE i <= n BY <1>1, <1>3, <2>1, <2>2
  <2>3. CASE ~(i <= n)
    <3>1. i - n \in 1 .. Len(s) - n /\ n + (i - n) = i BY <1>1, <2>3
    <3>2. y[i - n] = s[n + (i - n)] BY <1>4, <3>1
    <3> QED BY <2>1, <2>3, <3>1, <3>2
  <2> QED BY <2>2, <2>3
<1>8. x \o y = s
  <2> DEFINE z == x \o y
  <2>1. z \in Seq(S) /\ Len(z) = Len(s) /\ \A i \in 1 .. Len(z) : z[i] = s[i]
    BY <1>5, <1>6, <1>7
  <2> HIDE DEF z
  <2>2. z = s BY <2>1, SeqEqual
  <2> QED BY <2>2 DEF z
<1> QED BY <1>3, <1>4, <1>8 DEF x, y

\* IssueReductionBatch: the front of the queue becomes the batch.
LEMMA IssueBatchKeeps ==
  ASSUME NEW p, NEW d, NEW low, NEW high, NEW rlow, NEW rhigh, NEW R, NEW D,
         State(p, d, low, high, rlow, rhigh, R, D),
         NEW eligible \in 0 .. Len(p.queue), NEW q, q = IssueReductionBatch(p, eligible)
  PROVE  State(q, d, low, high, rlow, rhigh, R, D) /\ SameDelivery(p, q)
<1>1. /\ p \in PathType /\ R \in [BG -> Nat] /\ D \in [BG -> Nat]
      /\ Groups(p, d, low, high, R) /\ (\A c \in Channel : Reading(p, c, rlow, rhigh, R))
      /\ Host(p, R, D) /\ CountsHold(p, R, D) /\ Flags(p, R, D)
  BY DEF State
<1> DEFINE n == Min({ReduceRecordsPerCycle, eligible})
<1>2. CASE p.batch # <<>> \/ n = 0 BY <1>2 DEF IssueReductionBatch, SameDelivery
<1>3. CASE ~(p.batch # <<>> \/ n = 0)
  <2>1. /\ p.added \in Seq(RecordType) /\ p.batch = <<>>
        /\ p.queue \in Seq(RecordType) /\ p.counts \in CountsType
        /\ Len(p.queue) \in Nat /\ p.counts.issued \in Nat /\ p.counts.reduced \in Nat
    BY <1>1, <1>3, PathFields
  <2>2. n \in Nat \ {0} /\ n \in 0 .. Len(p.queue)
    <3>1. eligible \in Nat BY <2>1
    <3>2. {ReduceRecordsPerCycle, eligible} \in SUBSET Nat BY <3>1, Config
    <3>3. n \in {ReduceRecordsPerCycle, eligible} /\ n <= eligible BY <3>2, MinExists
    <3> HIDE DEF n
    <3>4. n \in Nat BY <3>2, <3>3
    <3> QED BY <1>3, <2>1, <3>1, <3>3, <3>4 DEF n
  <2> DEFINE batch == SubSeq(p.queue, 1, n)
             queue == SubSeq(p.queue, n + 1, Len(p.queue))
             counts == [p.counts EXCEPT !.issued = @ + n]
             w == Cycles(ReduceLatency)
  <2>3. q = [p EXCEPT !.batch = batch, !.queue = queue, !.batchWait = w, !.counts = counts]
    BY <1>1, <1>3 DEF IssueReductionBatch, Flags
  <2> HIDE DEF n
  <2>4. batch \in Seq(RecordType) /\ queue \in Seq(RecordType) /\ batch \o queue = p.queue
        /\ Len(batch) = n /\ Len(queue) = Len(p.queue) - n
    <3> DEFINE s == p.queue
    <3>1. s \in Seq(RecordType) /\ n \in 0 .. Len(s) BY <2>1, <2>2
    <3> HIDE DEF s
    <3>2. /\ SubSeq(s, 1, n) \in Seq(RecordType) /\ SubSeq(s, n + 1, Len(s)) \in Seq(RecordType)
          /\ Len(SubSeq(s, 1, n)) = n /\ Len(SubSeq(s, n + 1, Len(s))) = Len(s) - n
          /\ SubSeq(s, 1, n) \o SubSeq(s, n + 1, Len(s)) = s
      BY <3>1, CutSequence
    <3>3. batch = SubSeq(s, 1, n) /\ queue = SubSeq(s, n + 1, Len(s)) /\ p.queue = s BY DEF s
    <3> HIDE DEF batch, queue
    <3> QED BY <3>2, <3>3
  <2>5. /\ counts \in CountsType
        /\ counts.generated = p.counts.generated /\ counts.bursts = p.counts.bursts
        /\ counts.written = p.counts.written /\ counts.readsIssued = p.counts.readsIssued
        /\ counts.readsDone = p.counts.readsDone
        /\ counts.readRecords = p.counts.readRecords
        /\ counts.delivered = p.counts.delivered /\ counts.enqueued = p.counts.enqueued
        /\ counts.issued = p.counts.issued + n
        /\ counts.reduced = p.counts.reduced
    <3>1. p.counts.issued + n \in Nat BY <2>1, <2>2
    <3> QED BY <2>1, <3>1 DEF CountsType
  <2>6. w \in Nat BY CyclesType, Config
  <2> HIDE DEF batch, queue, counts, w
  <2>7. /\ q \in PathType /\ q.bg = p.bg /\ q.reads = p.reads /\ q.returned = p.returned
        /\ q.reservedReturn = p.reservedReturn /\ q.queue = queue /\ q.batch = batch
        /\ q.added = p.added /\ q.counts = counts /\ q.readbackStarted = p.readbackStarted
        /\ q.writebackDone = p.writebackDone /\ q.transportDone = p.transportDone
        /\ q.readbackDone = p.readbackDone
        /\ q.reductionDone = p.reductionDone /\ q.error = p.error
    BY <1>1, <2>3, <2>4, <2>5, <2>6 DEF PathType
  <2>8. Groups(q, d, low, high, R) /\ (\A c \in Channel : Reading(q, c, rlow, rhigh, R))
    BY <1>1, <2>7, SameGroups
  <2>9. Host(q, R, D)
    <3>1. (q.added \o q.batch) \o q.queue = (p.added \o p.batch) \o p.queue
      <4> DEFINE a == p.added
      <4>1. a \in Seq(RecordType) BY <2>1
      <4> HIDE DEF a
      <4>2. a \o <<>> = a BY <4>1
      <4>3. (a \o batch) \o queue = a \o (batch \o queue)
        <5> DEFINE x == batch
                   y == queue
        <5>1. x \in Seq(RecordType) /\ y \in Seq(RecordType) BY <2>4
        <5> HIDE DEF x, y
        <5>2. (a \o x) \o y = a \o (x \o y) BY <4>1, <5>1
        <5> QED BY <5>2 DEF x, y
      <4>4. q.added = a /\ p.added = a /\ q.batch = batch /\ q.queue = queue /\ p.batch = <<>>
        BY <2>1, <2>7 DEF a
      <4> QED BY <2>4, <4>2, <4>3, <4>4
    <3>2. Line((q.added \o q.batch) \o q.queue, BG, None, Records(q, D))
      BY <1>1, <2>7, <3>1, SameGroups DEF Host
    <3> QED BY <1>1, <2>7, <3>2, SameGroups DEF Host
  <2>10. CountsHold(q, R, D)
    <3>1. /\ p.counts.enqueued = p.counts.issued + Len(p.queue)
          /\ p.counts.issued = p.counts.reduced + Len(p.batch)
      BY <1>1 DEF CountsHold
    <3>2. Len(p.batch) = 0 BY <2>1
    <3>3. /\ counts.enqueued = counts.issued + Len(queue)
          /\ counts.issued = counts.reduced + Len(batch)
      BY <2>1, <2>2, <2>4, <2>5, <3>1, <3>2
    <3>4. /\ Outputs(q) = Outputs(p) /\ AllBursts(q) = AllBursts(p)
          /\ AllWritten(q) = AllWritten(p) /\ AllAsked(q) = AllAsked(p)
          /\ Records(q, R) = Records(p, R) /\ Records(q, D) = Records(p, D)
      BY <2>7, SameGroups
    <3> QED BY <1>1, <2>5, <2>7, <3>3, <3>4 DEF CountsHold
  <2>11. ~p.reductionDone
    <3>1. Len(p.queue) # 0 BY <2>1, <2>2
    <3>2. p.queue # <<>> BY <3>1
    <3> QED BY <1>1, <3>2 DEF Flags
  <2>12. Flags(q, R, D) BY <1>1, <2>7, <2>11 DEF Flags
  <2> QED BY <1>1, <2>7, <2>8, <2>9, <2>10, <2>12 DEF State, SameDelivery
<1> QED BY <1>2, <1>3

\* UpdateHostCompletion: its conservation check holds.
LEMMA UpdateHostCompletionKeeps ==
  ASSUME NEW p, NEW d, NEW low, NEW high, NEW rlow, NEW rhigh, NEW R, NEW D,
         State(p, d, low, high, rlow, rhigh, R, D), NEW q, q = UpdateHostCompletion(p)
  PROVE  /\ State(q, d, low, high, rlow, rhigh, R, D) /\ Outputs(q) = Outputs(p)
         /\ q.added = p.added /\ (p.reductionDone => q.reductionDone)
<1>1. /\ p \in PathType /\ R \in [BG -> Nat] /\ D \in [BG -> Nat]
      /\ Groups(p, d, low, high, R) /\ (\A c \in Channel : Reading(p, c, rlow, rhigh, R))
      /\ Host(p, R, D) /\ CountsHold(p, R, D) /\ Flags(p, R, D)
  BY DEF State
<1> DEFINE readback == \/ p.readbackDone
                       \/ /\ p.transportDone /\ p.returned = <<>> /\ p.reservedReturn = 0
                          /\ p.counts.delivered = p.counts.readsDone
           reduced == readback /\ p.queue = <<>> /\ p.batch = <<>>
           done == p.reductionDone \/ reduced
<1>2. readback \in BOOLEAN /\ done \in BOOLEAN /\ (p.readbackDone => readback)
      /\ (reduced => readback /\ p.queue = <<>> /\ p.batch = <<>>)
  BY <1>1, PathFields
<1>3. ASSUME readback PROVE p.transportDone /\ \A b \in BG : D[b] = R[b]
  <2>1. CASE p.readbackDone BY <1>1, <2>1 DEF Flags
  <2>2. CASE ~p.readbackDone
    <3>1. p.transportDone /\ p.returned = <<>> BY <1>3, <2>2
    <3>2. PICK z \in Seq(Element) : Len(z) = Len(p.returned) /\ Line(z, BG, D, R)
      BY <1>1 DEF Host, Returned
    <3>3. Len(z) = 0 BY <3>1, <3>2
    <3>4. ASSUME NEW b \in BG PROVE D[b] = R[b]
      <4>1. ~ \E n : n \in D[b] + 1 .. R[b] BY <3>2, <3>3 DEF Line
      <4>2. D[b] \in Nat /\ R[b] \in Nat /\ D[b] <= R[b] BY <1>1 DEF Host
      <4>3. R[b] \notin D[b] + 1 .. R[b] BY <4>1
      <4> QED BY <4>2, <4>3
    <3> QED BY <3>1, <3>4
  <2> QED BY <2>1, <2>2
<1>4. ASSUME reduced PROVE ReductionConservation(p)
  <2>1. R = D BY <1>1, <1>3, <1>4
  <2>2. Len(p.queue) = 0 /\ Len(p.batch) = 0 BY <1>4
  <2>3. /\ p.counts.enqueued = p.counts.readRecords
        /\ p.counts.enqueued = p.counts.issued + 0 /\ p.counts.issued = p.counts.reduced + 0
        /\ p.counts.issued \in Nat /\ p.counts.reduced \in Nat
    BY <1>1, <2>1, <2>2, PathFields DEF CountsHold
  <2> QED BY <2>3 DEF ReductionConservation
<1>5. q = [p EXCEPT !.readbackDone = readback, !.reductionDone = done]
  BY <1>1, <1>4 DEF UpdateHostCompletion, Flags
<1>6. done => readback /\ p.queue = <<>> /\ p.batch = <<>> BY <1>1, <1>2 DEF Flags
<1>6a. p.reductionDone => done OBVIOUS
<1> HIDE DEF readback, reduced, done
<1>7. /\ q \in PathType /\ q.bg = p.bg /\ q.reads = p.reads /\ q.returned = p.returned
      /\ q.reservedReturn = p.reservedReturn /\ q.queue = p.queue /\ q.batch = p.batch
      /\ q.added = p.added /\ q.counts = p.counts /\ q.readbackStarted = p.readbackStarted
      /\ q.writebackDone = p.writebackDone /\ q.transportDone = p.transportDone
      /\ q.readbackDone = readback /\ q.reductionDone = done /\ q.error = p.error
  BY <1>1, <1>2, <1>5 DEF PathType
<1>8. Groups(q, d, low, high, R) /\ (\A c \in Channel : Reading(q, c, rlow, rhigh, R))
  BY <1>1, <1>7, SameGroups
<1>9. Host(q, R, D) BY <1>1, <1>7, SameGroups DEF Host
<1>10. CountsHold(q, R, D) BY <1>1, <1>7, SameGroups DEF CountsHold
<1>11. Flags(q, R, D) BY <1>1, <1>3, <1>6, <1>7 DEF Flags
<1>12. Outputs(q) = Outputs(p) BY <1>7, SameGroups
<1> QED BY <1>1, <1>6a, <1>7, <1>8, <1>9, <1>10, <1>11, <1>12 DEF State

\* The records of burst n of a bank group are those after its first n - 1 bursts.
LEMMA BurstLine ==
  ASSUME NEW b \in BG, NEW n, NEW u \in Nat, IsBurst(n, u),
         NEW lo \in [BG -> Nat], NEW hi \in [BG -> Nat],
         lo[b] = InFirst(n - 1, u), hi[b] = InFirst(n, u),
         \A x \in BG \ {b} : lo[x] = hi[x]
  PROVE  LET s == BurstOf(b, n, u).records
         IN  /\ s \in Seq(Element) /\ s \in Seq(RecordType) /\ Line(s, BG, lo, hi)
             /\ hi[b] = lo[b] + Len(s) /\ Len(s) \in Nat \ {0}
<1> DEFINE s == BurstOf(b, n, u).records
           m == Size(n, u)
           k == Before(n)
<1>1. /\ k \in Nat /\ InFirst(n - 1, u) = k /\ m \in 1 .. RecordsPerBurst
      /\ InFirst(n, u) = k + m /\ Len(s) = m
      /\ \A i \in 1 .. m : s[i] = [bg |-> b, seq |-> k + i]
      /\ BurstOf(b, n, u) \in BurstType
  BY BurstFacts
<1> HIDE DEF k, m
<1>2. s \in Seq(RecordType) BY <1>1 DEF BurstType
<1>3. s \in Seq(Element) BY <1>2 DEF RecordType, Element
<1> HIDE DEF s
<1>4. m \in Nat \ {0} /\ lo[b] = k /\ hi[b] = k + m BY <1>1, Config
<1>5. \A i \in 1 .. Len(s) : s[i].bg \in BG /\ s[i].seq \in lo[s[i].bg] + 1 .. hi[s[i].bg]
  <2> SUFFICES ASSUME NEW i \in 1 .. m PROVE s[i].bg = b /\ s[i].seq \in k + 1 .. k + m
    BY <1>1, <1>4
  <2> QED BY <1>1, <1>4
<1>6. \A i, j \in 1 .. Len(s) : i < j /\ s[i].bg = s[j].bg => s[i].seq < s[j].seq BY <1>1, <1>4
<1>7. ASSUME NEW x \in BG, NEW y \in lo[x] + 1 .. hi[x]
      PROVE  \E i \in 1 .. Len(s) : s[i].bg = x /\ s[i].seq = y
  <2>1. x = b
    <3>1. lo[x] \in Nat /\ hi[x] \in Nat OBVIOUS
    <3> QED BY <3>1
  <2>2. y \in k + 1 .. k + m BY <1>4, <2>1
  <2>3. y - k \in 1 .. m /\ k + (y - k) = y BY <1>1, <1>4, <2>2
  <2>4. s[y - k] = [bg |-> b, seq |-> k + (y - k)] BY <1>1, <2>3
  <2> QED BY <1>1, <2>1, <2>3, <2>4
<1>8. Line(s, BG, lo, hi) BY <1>5, <1>6, <1>7 DEF Line
<1> QED BY <1>1, <1>2, <1>3, <1>4, <1>8 DEF s

\* From lo to hi, bank group b goes on by its burst n.
OneBurst(b, n, u, lo, hi) ==
  /\ lo \in [BG -> Nat] /\ hi \in [BG -> Nat]
  /\ lo[b] = InFirst(n - 1, u) /\ hi[b] = InFirst(n, u)
  /\ \A x \in BG \ {b} : lo[x] = hi[x]

\* The records of a drained burst are a line of their bank group's results.
LEMMA OneBurstLine ==
  ASSUME NEW b \in BG, NEW n, NEW u \in Nat, IsBurst(n, u),
         NEW lo, NEW hi, OneBurst(b, n, u, lo, hi), NEW s, s = BurstOf(b, n, u).records
  PROVE  /\ s \in Seq(Element) /\ s \in Seq(RecordType) /\ Line(s, BG, lo, hi)
         /\ hi[b] = lo[b] + Len(s) /\ Len(s) \in Nat \ {0}
BY BurstLine DEF OneBurst

\* AcceptReturnedBurst: the records of a returned burst join the queue.
LEMMA AcceptKeeps ==
  ASSUME NEW p, NEW d, NEW low, NEW high, NEW rlow, NEW rhigh, NEW R, NEW D,
         State(p, d, low, high, rlow, rhigh, R, D),
         NEW visible, visible => p.returned # <<>>, NEW q, q = AcceptReturnedBurst(p, visible)
  PROVE  \E X : /\ State(q, d, low, high, rlow, rhigh, R, X) /\ SameDelivery(p, q)
                /\ Len(p.queue) <= Len(q.queue)
<1>1. /\ p \in PathType /\ R \in [BG -> Nat] /\ D \in [BG -> Nat]
      /\ Groups(p, d, low, high, R) /\ (\A c \in Channel : Reading(p, c, rlow, rhigh, R))
      /\ Host(p, R, D) /\ CountsHold(p, R, D) /\ Flags(p, R, D)
  BY DEF State
<1>2. /\ p.added \in Seq(RecordType) /\ p.batch \in Seq(RecordType)
      /\ p.queue \in Seq(RecordType) /\ p.counts \in CountsType /\ p.returned \in Seq(BurstType)
      /\ Len(p.queue) \in Nat /\ Len(p.returned) \in Nat
      /\ p.counts.delivered \in Nat /\ p.counts.enqueued \in Nat
      /\ p.counts.issued \in Nat /\ p.reservedReturn \in Nat
  BY <1>1, PathFields
<1> DEFINE s == Head(p.returned).records
<1>3. CASE ~visible \/ ReductionQueueCapacity - Len(p.queue) < Len(s)
  <2>1. q = p BY <1>3 DEF AcceptReturnedBurst
  <2> QED BY <1>2, <2>1 DEF SameDelivery
<1>4. CASE ~(~visible \/ ReductionQueueCapacity - Len(p.queue) < Len(s))
  <2>1. p.returned # <<>> BY <1>4
  <2>2. PICK z \in Seq(Element) :
          /\ Len(z) = Len(p.returned) /\ Line(z, BG, D, R)
          /\ \A i \in 1 .. Len(z) :
               p.returned[i] = BurstOf(z[i].bg, z[i].seq, Sealed(p.bg[z[i].bg]))
    BY <1>1 DEF Host, Returned
  <2>3. z # <<>> /\ 1 \in 1 .. Len(z) BY <1>2, <2>1, <2>2
  <2> DEFINE b == Head(z).bg
             n == Head(z).seq
             u == Sealed(p.bg[b])
             X == [x \in BG |-> IF x = Head(z).bg THEN D[x] + 1 ELSE D[x]]
  <2>4. X \in [BG -> Nat] BY <1>1
  <2>5. /\ b \in BG /\ n = D[b] + 1 /\ D[b] < R[b] /\ Line(Tail(z), BG, X, R)
    <3>1. \A x \in BG : X[x] = IF x = Head(z).bg THEN D[x] + 1 ELSE D[x] OBVIOUS
    <3>2. BG \in SUBSET BG /\ z # <<>> /\ Line(z, BG, D, R) BY <2>2, <2>3
    <3> HIDE DEF X, b, n, u, s
    <3>3. /\ Head(z).bg \in BG /\ Head(z).seq = D[Head(z).bg] + 1
          /\ D[Head(z).bg] < R[Head(z).bg]
          /\ Line(Tail(z), BG, X, R)
      BY <1>1, <2>4, <3>1, <3>2, LineTail
    <3> QED BY <3>3 DEF b, n
  <2>6. Head(p.returned) = BurstOf(b, n, u) BY <1>2, <2>1, <2>2, <2>3
  <2>7. u \in Nat /\ IsBurst(n, u) /\ D[b] \in Nat /\ R[b] \in Nat
    <3> DEFINE g == p.bg[b]
               e == d[b]
               r == R[b]
    <3>1. Group(g, b, e, low, high, r) BY <1>1, <2>5 DEF Groups
    <3>2. D[b] \in Nat BY <1>1, <2>5
    <3> HIDE DEF g, e, r
    <3>3. /\ Sealed(g) \in Nat /\ r \in Nat /\ r <= Asked(g) /\ Asked(g) <= Written(g)
          /\ Written(g) <= Bursts(g) /\ Asked(g) \in Nat /\ Written(g) \in Nat /\ Bursts(g) \in Nat
          /\ \A m \in 1 .. Bursts(g) : IsBurst(m, Sealed(g))
      BY <3>1, GroupNumbers
    <3>4. n = D[b] + 1 /\ D[b] < r BY <2>5 DEF r
    <3> HIDE DEF n
    <3>5. n \in 1 .. Bursts(g) BY <3>2, <3>3, <3>4
    <3>6. IsBurst(n, Sealed(g)) BY <3>3, <3>5
    <3> QED BY <3>2, <3>3, <3>6 DEF g, r
  <2> DEFINE lo == Records(p, D)
             hi == Records(p, X)
  <2>8. lo \in [BG -> Nat] /\ hi \in [BG -> Nat]
    <3> HIDE DEF X
    <3> QED BY <1>1, <2>4, RecordsNumber
  <2>9. /\ lo[b] = InFirst(n - 1, u) /\ hi[b] = InFirst(n, u)
        /\ \A x \in BG \ {b} : lo[x] = hi[x]
    <3>1. n - 1 = D[b] /\ n = X[b] BY <2>5, <2>7
    <3>2. \A x \in BG \ {b} : X[x] = D[x] OBVIOUS
    <3> HIDE DEF X, n, b
    <3> QED BY <2>5, <3>1, <3>2 DEF Records
  <2> HIDE DEF lo, hi, u, n, b, X
  <2>10. /\ s \in Seq(Element) /\ s \in Seq(RecordType) /\ Line(s, BG, lo, hi)
         /\ hi[b] = lo[b] + Len(s) /\ Len(s) \in Nat \ {0}
    <3>1. s = BurstOf(b, n, u).records BY <2>6
    <3> HIDE DEF s
    <3>2. b \in BG /\ u \in Nat /\ IsBurst(n, u) BY <2>5, <2>7
    <3>3. OneBurst(b, n, u, lo, hi) BY <2>8, <2>9 DEF OneBurst
    <3> QED BY <3>1, <3>2, <3>3, OneBurstLine
  <2> DEFINE counts == [p.counts EXCEPT !.delivered = @ + 1, !.enqueued = @ + Len(s)]
             queue == p.queue \o s
             returned == Tail(p.returned)
  <2>11. q = [p EXCEPT !.returned = returned, !.counts = counts, !.queue = queue]
    <3>1. q = [p EXCEPT !.returned = Tail(@), !.counts.delivered = @ + 1, !.queue = @ \o s,
                        !.counts.enqueued = @ + Len(s)]
      BY <1>1, <1>4 DEF AcceptReturnedBurst, Flags
    <3> HIDE DEF s
    <3> QED BY <1>1, <1>2, <3>1 DEF PathType, CountsType
  <2> HIDE DEF s
  <2>12. queue \in Seq(RecordType) /\ Len(queue) = Len(p.queue) + Len(s)
    <3> DEFINE v == p.queue
    <3>1. v \in Seq(RecordType) /\ s \in Seq(RecordType) BY <1>2, <2>10
    <3> HIDE DEF v
    <3>2. v \o s \in Seq(RecordType) /\ Len(v \o s) = Len(v) + Len(s) BY <3>1, ConcatProperties
    <3> QED BY <3>2 DEF v
  <2>13. /\ returned \in Seq(BurstType) /\ Len(returned) = Len(p.returned) - 1
         /\ \A i \in 1 .. Len(returned) : returned[i] = p.returned[i + 1]
    <3> DEFINE v == p.returned
    <3>1. v \in Seq(BurstType) /\ v # <<>> BY <1>2, <2>1
    <3> HIDE DEF v
    <3>2. /\ Tail(v) \in Seq(BurstType) /\ Len(Tail(v)) = Len(v) - 1
          /\ \A i \in 1 .. Len(Tail(v)) : Tail(v)[i] = v[i + 1]
      BY <3>1, HeadTailProperties
    <3> QED BY <3>2 DEF v
  <2>14. /\ counts \in CountsType
         /\ counts.generated = p.counts.generated /\ counts.bursts = p.counts.bursts
         /\ counts.written = p.counts.written /\ counts.readsIssued = p.counts.readsIssued
         /\ counts.readsDone = p.counts.readsDone
         /\ counts.readRecords = p.counts.readRecords
         /\ counts.delivered = p.counts.delivered + 1
         /\ counts.enqueued = p.counts.enqueued + Len(s)
         /\ counts.issued = p.counts.issued /\ counts.reduced = p.counts.reduced
    <3>1. p.counts.delivered + 1 \in Nat /\ p.counts.enqueued + Len(s) \in Nat BY <1>2, <2>10
    <3> QED BY <1>2, <3>1 DEF CountsType
  <2> HIDE DEF counts, queue, returned
  <2>15. /\ q \in PathType /\ q.bg = p.bg /\ q.reads = p.reads /\ q.returned = returned
         /\ q.reservedReturn = p.reservedReturn /\ q.queue = queue /\ q.batch = p.batch
         /\ q.added = p.added /\ q.counts = counts /\ q.readbackStarted = p.readbackStarted
         /\ q.writebackDone = p.writebackDone /\ q.transportDone = p.transportDone
         /\ q.readbackDone = p.readbackDone
         /\ q.reductionDone = p.reductionDone /\ q.error = p.error
    BY <1>1, <2>11, <2>12, <2>13, <2>14 DEF PathType
  <2>16. Groups(q, d, low, high, R) /\ (\A c \in Channel : Reading(q, c, rlow, rhigh, R))
         /\ Lengths(q) = Lengths(p) /\ Records(q, X) = hi /\ Records(q, R) = Records(p, R)
         /\ Outputs(q) = Outputs(p) /\ AllBursts(q) = AllBursts(p)
         /\ AllWritten(q) = AllWritten(p) /\ AllAsked(q) = AllAsked(p)
    BY <1>1, <2>15, SameGroups DEF hi
  <2>17. Returned(q, R, X)
    <3> DEFINE t == Tail(z)
    <3>1. /\ t \in Seq(Element) /\ Len(t) = Len(z) - 1
          /\ \A i \in 1 .. Len(t) : t[i] = z[i + 1]
      BY <2>2, <2>3, HeadTailProperties
    <3>2. Line(t, BG, X, R) BY <2>5
    <3> HIDE DEF t
    <3>3. Len(t) = Len(q.returned) BY <2>2, <2>13, <2>15, <3>1
    <3>4. ASSUME NEW i \in 1 .. Len(t)
          PROVE  q.returned[i] = BurstOf(t[i].bg, t[i].seq, Sealed(q.bg[t[i].bg]))
      <4>1. i + 1 \in 1 .. Len(z) /\ i \in 1 .. Len(returned) BY <1>2, <2>2, <2>13, <3>1
      <4>2. returned[i] = p.returned[i + 1] /\ t[i] = z[i + 1] BY <2>13, <3>1, <4>1
      <4>3. p.returned[i + 1] = BurstOf(z[i + 1].bg, z[i + 1].seq, Sealed(p.bg[z[i + 1].bg]))
        BY <2>2, <4>1
      <4> QED BY <2>15, <4>2, <4>3
    <3> QED BY <3>1, <3>2, <3>3, <3>4 DEF Returned
  <2>18. Line((q.added \o q.batch) \o q.queue, BG, None, Records(q, X))
    <3> DEFINE a == p.added
               c == p.batch
               v == p.queue
               t == (a \o c) \o v
    <3>1. a \in Seq(RecordType) /\ c \in Seq(RecordType) /\ v \in Seq(RecordType) BY <1>2
    <3>2. Line(t, BG, None, lo) BY <1>1 DEF Host, lo
    <3>3. q.added = a /\ q.batch = c /\ q.queue = v \o s BY <2>15 DEF queue
    <3> HIDE DEF a, c, v
    <3>4. t \in Seq(Element) /\ s \in Seq(RecordType) /\ (a \o c) \o (v \o s) = t \o s
      <4>1. a \o c \in Seq(RecordType) BY <3>1
      <4> DEFINE w == a \o c
      <4> HIDE DEF w
      <4>2. w \in Seq(RecordType) /\ s \in Seq(RecordType) BY <2>10, <4>1 DEF w
      <4>3. w \o v \in Seq(RecordType) BY <3>1, <4>2
      <4>4. w \o (v \o s) = (w \o v) \o s BY <3>1, <4>2
      <4>5. w \o v \in Seq(Element) BY <4>3 DEF RecordType, Element
      <4> QED BY <4>2, <4>4, <4>5 DEF w
    <3>5. None \in [BG -> Nat] /\ \A x \in BG : None[x] <= lo[x] /\ lo[x] <= hi[x]
      <4>1. None \in [BG -> Nat] /\ \A x \in BG : None[x] = 0 BY DEF None
      <4>2. \A x \in BG : lo[x] \in Nat /\ hi[x] \in Nat BY <2>8
      <4>3. \A x \in BG : lo[x] <= hi[x]
        <5> SUFFICES ASSUME NEW x \in BG PROVE lo[x] <= hi[x] OBVIOUS
        <5>1. CASE x = b BY <2>5, <2>10, <4>2, <5>1
        <5>2. CASE x # b BY <2>9, <4>2, <5>2
        <5> QED BY <5>1, <5>2
      <4> QED BY <4>1, <4>2, <4>3
    <3> HIDE DEF t
    <3>6. BG \in SUBSET BG OBVIOUS
    <3>7. Line(t \o s, BG, None, hi) BY <2>8, <2>10, <3>2, <3>4, <3>5, <3>6, LineConcat
    <3> QED BY <2>16, <3>3, <3>4, <3>7
  <2>19. Host(q, R, X)
    <3>1. \A x \in BG : X[x] <= R[x]
      <4> SUFFICES ASSUME NEW x \in BG PROVE X[x] <= R[x] OBVIOUS
      <4>1. D[x] \in Nat /\ R[x] \in Nat /\ D[x] <= R[x] BY <1>1 DEF Host
      <4>2. X[x] = IF x = b THEN D[x] + 1 ELSE D[x] BY DEF X, b
      <4> QED BY <2>5, <4>1, <4>2
    <3>2. Len(q.returned) + q.reservedReturn <= ReturnQueueCapacity
      <4>1. Len(p.returned) + p.reservedReturn <= ReturnQueueCapacity BY <1>1 DEF Host
      <4> QED BY <1>2, <2>13, <2>15, <4>1, Config
    <3>3. q.reservedReturn = Total(Lengths(q)) BY <1>1, <2>15, <2>16 DEF Host
    <3> QED BY <2>17, <2>18, <3>1, <3>2, <3>3 DEF Host
  <2>20. CountsHold(q, R, X)
    <3>1. Total(X) = Total(D) + 1
      <4>1. /\ D[b] <= X[b] /\ X[b] - D[b] = 1 /\ \A x \in BG \ {b} : X[x] = D[x]
        <5>1. X[b] = D[b] + 1 BY <2>5 DEF X, b
        <5> QED BY <2>7, <5>1 DEF X, b
      <4>2. Total(X) = Total(D) + (X[b] - D[b])
        <5>1. IsFiniteSet(BG) BY Homes
        <5> QED BY <1>1, <2>4, <2>5, <4>1, <5>1, TotalChange
      <4> QED BY <4>1, <4>2
    <3>2. Total(hi) = Total(lo) + Len(s)
      <4>1. lo[b] \in Nat /\ hi[b] \in Nat BY <2>5, <2>8
      <4>2. lo[b] <= hi[b] /\ hi[b] - lo[b] = Len(s) BY <2>10, <4>1
      <4>3. \A x \in BG \ {b} : hi[x] = lo[x] BY <2>9
      <4>4. Total(hi) = Total(lo) + (hi[b] - lo[b])
        <5>1. IsFiniteSet(BG) BY Homes
        <5> QED BY <2>5, <2>8, <4>2, <4>3, <5>1, TotalChange
      <4> QED BY <4>2, <4>4
    <3>3. /\ p.counts.delivered = Total(D) /\ p.counts.enqueued = Total(lo)
          /\ p.counts.enqueued = p.counts.issued + Len(p.queue)
      BY <1>1 DEF CountsHold, lo
    <3>4. counts.enqueued = counts.issued + Len(queue) BY <1>2, <2>10, <2>12, <2>14, <3>3
    <3>5. counts.delivered = Total(X) /\ counts.enqueued = Total(Records(q, X))
      BY <2>14, <2>16, <3>1, <3>2, <3>3
    <3>6. q.counts = counts /\ q.queue = queue /\ q.batch = p.batch BY <2>15
    <3> QED BY <1>1, <2>14, <2>16, <3>4, <3>5, <3>6 DEF CountsHold
  <2>21. ~p.readbackDone /\ ~p.reductionDone
    <3>1. D[b] # R[b] BY <2>5, <2>7
    <3> QED BY <1>1, <2>5, <3>1 DEF Flags
  <2>22. Flags(q, R, X) BY <1>1, <2>15, <2>21 DEF Flags
  <2>23. Len(p.queue) <= Len(q.queue) BY <1>2, <2>10, <2>12, <2>15
  <2>24. State(q, d, low, high, rlow, rhigh, R, X)
    BY <1>1, <2>4, <2>15, <2>16, <2>19, <2>20, <2>22 DEF State
  <2> QED BY <2>15, <2>23, <2>24 DEF SameDelivery
<1> QED BY <1>3, <1>4

-----------------------------------------------------------------------------
(* The reads                                                               *)

\* A line depends on its bounds at its bank groups only.
LEMMA LineSame ==
  ASSUME NEW B, NEW z, NEW lo, NEW hi, NEW lo2, NEW hi2, Line(z, B, lo, hi),
         \A b \in B : lo2[b] = lo[b] /\ hi2[b] = hi[b]
  PROVE  Line(z, B, lo2, hi2)
BY DEF Line

\* The next number of one bank group makes a line longer.
LEMMA LineGrows ==
  ASSUME NEW B \in SUBSET BG, NEW z \in Seq(Element), NEW lo \in [BG -> Nat],
         NEW hi \in [BG -> Nat], NEW hi2 \in [BG -> Nat], NEW b \in B,
         \A x \in B : lo[x] <= hi[x], Line(z, B, lo, hi), hi2[b] = hi[b] + 1,
         \A x \in B \ {b} : hi2[x] = hi[x],
         NEW e, e = [bg |-> b, seq |-> hi2[b]], NEW y, y = Append(z, e)
  PROVE  /\ y \in Seq(Element) /\ Len(y) = Len(z) + 1 /\ Line(y, B, lo, hi2)
         /\ y[Len(z) + 1] = e /\ \A i \in 1 .. Len(z) : y[i] = z[i]
<1>1. b \in BG /\ hi[b] \in Nat /\ hi2[b] \in Nat OBVIOUS
<1>2. e \in Element /\ e.bg = b /\ e.seq = hi[b] + 1 BY <1>1 DEF Element
<1>3. /\ y \in Seq(Element) /\ Len(y) = Len(z) + 1
      /\ y[Len(z) + 1] = e /\ \A i \in 1 .. Len(z) : y[i] = z[i]
  BY <1>2, AppendProperties
<1>4. <<e>> \in Seq(Element) /\ Len(<<e>>) = 1 /\ <<e>>[1] = e BY <1>2
<1>5. Line(<<e>>, B, hi, hi2)
  <2> DEFINE w == <<e>>
  <2>1. Len(w) = 1 /\ w[1] = e OBVIOUS
  <2> HIDE DEF w
  <2>2. \A i \in 1 .. Len(w) : w[i] = e BY <2>1
  <2>3. e.bg \in B /\ e.seq \in hi[e.bg] + 1 .. hi2[e.bg] BY <1>1, <1>2
  <2>4. \A i, j \in 1 .. Len(w) : i < j /\ w[i].bg = w[j].bg => w[i].seq < w[j].seq BY <2>1
  <2>5. ASSUME NEW x \in B, NEW n \in hi[x] + 1 .. hi2[x]
        PROVE  \E i \in 1 .. Len(w) : w[i].bg = x /\ w[i].seq = n
    <3>1. x = b
      <4>1. hi[x] \in Nat /\ (x # b => hi2[x] = hi[x]) OBVIOUS
      <4> QED BY <4>1
    <3>2. n = hi[b] + 1 BY <1>1, <3>1
    <3> QED BY <1>2, <2>1, <3>1, <3>2
  <2>6. Line(w, B, hi, hi2) BY <2>2, <2>3, <2>4, <2>5 DEF Line
  <2> QED BY <2>6 DEF w
<1>6. \A x \in B : lo[x] <= hi[x] /\ hi[x] <= hi2[x]
  <2> SUFFICES ASSUME NEW x \in B PROVE lo[x] <= hi[x] /\ hi[x] <= hi2[x] OBVIOUS
  <2>1. x \in BG /\ hi[x] \in Nat /\ hi2[x] \in Nat OBVIOUS
  <2>2. CASE x = b BY <2>1, <2>2
  <2>3. CASE x # b
    <3>1. hi2[x] = hi[x] BY <2>3
    <3> QED BY <2>1, <3>1
  <2> QED BY <2>2, <2>3
<1>7. Line(z \o <<e>>, B, lo, hi2) BY <1>4, <1>5, <1>6, LineConcat
<1>8. y = z \o <<e>> BY <1>2, AppendIsConcat
<1> QED BY <1>3, <1>7, <1>8

\* Every phase keeps what was returned as long as no sealed record is lost.
LEMMA ReturnedKept ==
  ASSUME NEW p, NEW q, NEW R, NEW D, Returned(p, R, D), q.returned = p.returned,
         \A b \in BG : Sealed(q.bg[b]) = Sealed(p.bg[b])
  PROVE  Returned(q, R, D)
<1>1. PICK z \in Seq(Element) :
        /\ Len(z) = Len(p.returned) /\ Line(z, BG, D, R)
        /\ \A i \in 1 .. Len(z) :
             p.returned[i] = BurstOf(z[i].bg, z[i].seq, Sealed(p.bg[z[i].bg]))
  BY DEF Returned
<1>2. \A i \in 1 .. Len(z) : Sealed(q.bg[z[i].bg]) = Sealed(p.bg[z[i].bg]) BY <1>1 DEF Line
<1> QED BY <1>1, <1>2 DEF Returned

\* A cursor moved on stays in range.
LEMMA CursorStep ==
  ASSUME NEW n \in Nat \ {0}, NEW y \in 0 .. n - 1, NEW k \in 0 .. n - 1
  PROVE  (y + k) % n \in 0 .. n - 1
<1>1. y + k \in Nat OBVIOUS
<1> QED BY <1>1, Mod

\* The bank groups chosen lie in their channels, and their slots hold the next burst.
LEMMA ReadsChosen ==
  ASSUME NEW p \in PathType, NEW c \in Channel,
         NEW offsets, offsets = {o \in 0 .. BankGroupsPerChannel - 1 :
                                   ReadSlot(p.bg[c * BankGroupsPerChannel
                                     + ((p.channelCursor[c] + o) % BankGroupsPerChannel)]) # {}},
         offsets # {}, NEW b,
         b = c * BankGroupsPerChannel
               + ((p.channelCursor[c] + Min(offsets)) % BankGroupsPerChannel)
  PROVE  /\ b \in Home(c) /\ b \in BG
         /\ ReadSlot(p.bg[b]) # {} /\ Min(ReadSlot(p.bg[b])) \in ReadSlot(p.bg[b])
         /\ (b + 1) % BankGroupsPerChannel \in 0 .. BankGroupsPerChannel - 1
<1>1. p.channelCursor[c] \in 0 .. BankGroupsPerChannel - 1 BY PathFields
<1>2. BankGroupsPerChannel \in Nat \ {0} /\ c \in Nat BY Homes
<1> DEFINE o == Min(offsets)
           x == (p.channelCursor[c] + o) % BankGroupsPerChannel
<1>3. o \in offsets
  <2>1. offsets \in SUBSET Nat BY <1>2
  <2> QED BY <2>1, MinExists
<1>4. o \in 0 .. BankGroupsPerChannel - 1 /\ ReadSlot(p.bg[b]) # {}
  <2> HIDE DEF o
  <2>1. o \in {k \in 0 .. BankGroupsPerChannel - 1 :
                 ReadSlot(p.bg[c * BankGroupsPerChannel
                   + ((p.channelCursor[c] + k) % BankGroupsPerChannel)]) # {}}
    BY <1>3
  <2>2. b = c * BankGroupsPerChannel + ((p.channelCursor[c] + o) % BankGroupsPerChannel)
    BY DEF o
  <2> QED BY <2>1, <2>2
<1> HIDE DEF o
<1>5. x \in 0 .. BankGroupsPerChannel - 1 BY <1>1, <1>2, <1>4, CursorStep, Zenon
<1>6. b \in Home(c)
  <2>1. b = c * BankGroupsPerChannel + x BY DEF o
  <2> HIDE DEF x
  <2> QED BY <1>5, <2>1 DEF Home
<1>7. b \in BG BY <1>6, Homes
<1>8. b + 1 \in Nat
  <2>1. b \in Nat BY <1>7, Homes
  <2>2. \A y \in Nat : y + 1 \in Nat OBVIOUS
  <2> QED BY <2>1, <2>2, Zenon
<1>9. ReadSlot(p.bg[b]) \in SUBSET Nat BY Homes DEF ReadSlot, Unread, Resident
<1> QED BY <1>2, <1>4, <1>6, <1>7, <1>8, <1>9, Mod, MinExists

\* What issuing reads does: q asks for the burst in slot[c] of chosen[c], for each active c.
Issuing(p, q, active, chosen, slot) ==
  /\ active \in SUBSET Channel
  /\ \A c \in active : chosen[c] \in Home(c) /\ chosen[c] \in BG
                       /\ slot[c] \in ReadSlot(p.bg[chosen[c]])
                       /\ Len(p.reads[c]) < MaxInflightReads
  /\ active # {} => p.readbackStarted
  /\ Cardinality(active) <= ReturnRoom(p)

Asked2(p, active, chosen) ==
  [b \in BG |-> Asked(p.bg[b]) + IF \E c \in active : chosen[c] = b THEN 1 ELSE 0]

Begun(g, b, active, chosen, slot) ==
  [g EXCEPT
     !.reading = [k \in BufferSlot |-> @[k] \/ \E c \in {c \in active : chosen[c] = b} :
                                                   slot[c] = k],
     !.nextRead = @ + Cardinality({c \in active : chosen[c] = b})]

\* The effect on a bank group.
LEMMA IssuingGroup ==
  ASSUME NEW p, NEW d, NEW low, NEW high, NEW R, p \in PathType, Groups(p, d, low, high, R),
         NEW q, NEW active, NEW chosen, NEW slot, Issuing(p, q, active, chosen, slot),
         NEW b \in BG, NEW h,
         h = Begun(p.bg[b], b, active, chosen, slot)
  PROVE  /\ Group(h, b, d[b], low, high, R[b])
         /\ h.packer = p.bg[b].packer /\ h.pending = p.bg[b].pending
         /\ h.inflight = p.bg[b].inflight
         /\ h.resident = p.bg[b].resident /\ h.nextBurst = p.bg[b].nextBurst
         /\ h.lastOutput = p.bg[b].lastOutput
         /\ h.lifecycle = p.bg[b].lifecycle /\ h.tailFlushed = p.bg[b].tailFlushed
         /\ Written(h) = Written(p.bg[b]) /\ Sealed(h) = Sealed(p.bg[b])
         /\ Asked(h) = Asked2(p, active, chosen)[b]
         /\ h.nextRead = p.bg[b].nextRead + IF \E c \in active : chosen[c] = b THEN 1 ELSE 0
<1> DEFINE g == p.bg[b]
           e == d[b]
           r == R[b]
           begun == {c \in active : chosen[c] = b}
           one == IF \E c \in active : chosen[c] = b THEN 1 ELSE 0
<1>1. Group(g, b, e, low, high, r) /\ g \in GroupType BY PathFields DEF Groups
<1>2. g.reading \in [BufferSlot -> BOOLEAN] /\ g.nextRead \in Nat \ {0} BY <1>1, GroupFields
<1>3. h = [g EXCEPT !.reading = [k \in BufferSlot |-> g.reading[k] \/ \E c \in begun : slot[c] = k],
                    !.nextRead = g.nextRead + Cardinality(begun)]
  BY DEF Begun
<1>4. \A c \in active : c \in Channel /\ chosen[c] \in Home(c)
                        /\ slot[c] \in ReadSlot(p.bg[chosen[c]])
  BY DEF Issuing
<1>5. \A c \in begun : c \in Channel /\ b \in Home(c) /\ slot[c] \in ReadSlot(g) BY <1>4
<1>6. \A x, y \in begun : x = y BY <1>5, Homes
<1>7. /\ Group(h, b, e, low, high, r) /\ h.packer = g.packer
      /\ h.pending = g.pending /\ h.inflight = g.inflight /\ h.resident = g.resident
      /\ h.nextBurst = g.nextBurst /\ h.lastOutput = g.lastOutput
      /\ h.lifecycle = g.lifecycle /\ h.tailFlushed = g.tailFlushed
      /\ Written(h) = Written(g) /\ h.nextRead = g.nextRead + one
  <2>1. CASE begun = {}
    <3>1. one = 0 BY <2>1
    <3>2. Cardinality(begun) = 0 BY <2>1, FS_EmptySet
    <3>3. [k \in BufferSlot |-> g.reading[k] \/ \E c \in begun : slot[c] = k] = g.reading
      <4>1. \A k \in BufferSlot : (g.reading[k] \/ \E c \in begun : slot[c] = k) = g.reading[k]
        BY <1>2, <2>1
      <4> HIDE DEF g, begun
      <4> QED BY <1>2, <4>1, Zenon
    <3> HIDE DEF g, begun, one
    <3>4. g.nextRead + 0 = g.nextRead BY <1>2
    <3>5. h = [g EXCEPT !.reading = g.reading, !.nextRead = g.nextRead]
      BY <1>3, <3>2, <3>3, <3>4
    <3>6. h = g BY <1>1, <3>5 DEF GroupType
    <3> QED BY <1>1, <3>1, <3>4, <3>6
  <2>2. CASE begun # {}
    <3>1. PICK c : c \in begun BY <2>2
    <3>2. begun = {c} BY <1>6, <3>1
    <3>3. Cardinality(begun) = 1 BY <3>2, FS_Singleton
    <3>4. one = 1 BY <3>1
    <3>5. slot[c] \in ReadSlot(g) BY <1>5, <3>1
    <3> DEFINE s == slot[c]
    <3>6. \A k \in BufferSlot : (\E x \in begun : slot[x] = k) <=> k = s BY <3>2
    <3> HIDE DEF g, begun, one, s
    <3>7. h = Asking(g, s)
      <4>1. [k \in BufferSlot |-> g.reading[k] \/ \E x \in begun : slot[x] = k]
              = [k \in BufferSlot |-> g.reading[k] \/ k = s]
        BY <3>6, Zenon
      <4> QED BY <1>3, <3>3, <4>1 DEF Asking
    <3>8. s \in ReadSlot(g) BY <3>5 DEF s
    <3>9. /\ Group(h, b, e, low, high, r)
          /\ h.packer = g.packer /\ h.pending = g.pending /\ h.inflight = g.inflight
          /\ h.resident = g.resident /\ h.nextBurst = g.nextBurst
          /\ h.nextRead = g.nextRead + 1 /\ h.lastOutput = g.lastOutput
          /\ h.lifecycle = g.lifecycle /\ h.tailFlushed = g.tailFlushed
          /\ Written(h) = Written(g)
      <4> HIDE DEF e, r
      <4> QED BY <1>1, <3>7, <3>8, GroupAsks
    <3> QED BY <3>4, <3>9
  <2> QED BY <2>1, <2>2
<1>8. Sealed(h) = Sealed(g)
  <2> HIDE DEF g, one, begun
  <2> QED BY <1>7 DEF Sealed
<1>9. Asked(h) = Asked(g) + one
  <2>1. one \in Int OBVIOUS
  <2> HIDE DEF g, one, begun
  <2> QED BY <1>2, <1>7, <2>1 DEF Asked
<1>10. Asked2(p, active, chosen)[b] = Asked(g) + one BY DEF Asked2
<1> HIDE DEF one
<1> QED BY <1>7, <1>8, <1>9, <1>10 DEF one

Issued(p, q, active, chosen, slot) ==
  /\ q.bg = [b \in BG |-> Begun(p.bg[b], b, active, chosen, slot)]
  /\ q.reads = [c \in Channel |->
       IF c \in active
       THEN Append(p.reads[c], [burst |-> p.bg[chosen[c]].resident[slot[c]], bg |-> chosen[c],
                                slot |-> slot[c], wait |-> Cycles(ReadLatency)])
       ELSE p.reads[c]]

\* A channel that issues a read has asked for the next burst of the bank group it chose.
LEMMA IssuingReading ==
  ASSUME NEW p, NEW d, NEW low, NEW high, NEW rhigh, rhigh = Cycles(ReadLatency), NEW R, NEW D,
         State(p, d, low, high, 1, rhigh - 1, R, D),
         NEW q, NEW active, NEW chosen, NEW slot, Issuing(p, q, active, chosen, slot),
         Issued(p, q, active, chosen, slot), NEW c \in Channel
  PROVE  /\ Reading(q, c, 1, rhigh, R) /\ q.reads[c] \in Seq(ReadType)
         /\ c \in active => Len(q.reads[c]) = Len(p.reads[c]) + 1
         /\ c \notin active => q.reads[c] = p.reads[c]
<1>1. /\ p \in PathType /\ R \in [BG -> Nat] /\ Groups(p, d, low, high, R)
      /\ Reading(p, c, 1, rhigh - 1, R)
  BY DEF State
<1>2. rhigh \in Nat \ {0} /\ p.reads[c] \in Seq(ReadType) /\ Len(p.reads[c]) \in Nat
      /\ MaxInflightReads \in Nat
  BY <1>1, PathFields, CyclesType, Config
<1>3. \A b \in BG : q.bg[b] = Begun(p.bg[b], b, active, chosen, slot) BY DEF Issued
<1>4. \A b \in BG : /\ q.bg[b].resident = p.bg[b].resident
                    /\ Asked(q.bg[b]) = Asked2(p, active, chosen)[b]
  BY <1>1, <1>3, IssuingGroup
<1>5. AllAsked(p) \in [BG -> Nat] /\ \A b \in BG : R[b] <= AllAsked(p)[b] /\ R[b] \in Nat
  <2>1. ASSUME NEW b \in BG PROVE Asked(p.bg[b]) \in Nat /\ R[b] <= Asked(p.bg[b])
    BY <1>1, GroupNumbers DEF Groups
  <2> QED BY <1>1, <2>1 DEF AllAsked
<1>6. AllAsked(q) = Asked2(p, active, chosen) /\ \A b \in BG : AllAsked(q)[b] =
        AllAsked(p)[b] + IF \E x \in active : chosen[x] = b THEN 1 ELSE 0
  BY <1>4 DEF AllAsked, Asked2
<1>7. AllAsked(q) \in [BG -> Nat]
  <2>1. \A b \in BG : AllAsked(q)[b] \in Nat BY <1>5, <1>6
  <2>2. AllAsked(q) = [b \in BG |-> AllAsked(q)[b]] BY DEF AllAsked
  <2> QED BY <2>1, <2>2
<1>8. PICK z \in Seq(Element) :
        /\ Len(z) = Len(p.reads[c]) /\ Line(z, Home(c), R, AllAsked(p))
        /\ \A i \in 1 .. Len(z) :
             p.reads[c][i].bg = z[i].bg /\ p.reads[c][i].burst.number = z[i].seq
  BY <1>1 DEF Reading
<1>9. \A i \in 1 .. Len(p.reads[c]) : p.reads[c][i] \in ReadType BY <1>2, ElementOfSeq
<1>10. \A i \in 1 .. Len(p.reads[c]) :
         /\ 1 <= p.reads[c][i].wait /\ p.reads[c][i].wait <= rhigh - 1
         /\ p.reads[c][i].wait \in Nat /\ p.reads[c][i].wait < rhigh
         /\ q.bg[p.reads[c][i].bg].resident[p.reads[c][i].slot] = p.reads[c][i].burst
  <2> SUFFICES ASSUME NEW i \in 1 .. Len(p.reads[c])
               PROVE  /\ 1 <= p.reads[c][i].wait /\ p.reads[c][i].wait <= rhigh - 1
                      /\ p.reads[c][i].wait \in Nat /\ p.reads[c][i].wait < rhigh
                      /\ q.bg[p.reads[c][i].bg].resident[p.reads[c][i].slot] = p.reads[c][i].burst
    OBVIOUS
  <2>1. p.reads[c][i].wait \in Nat /\ p.reads[c][i].bg \in BG BY <1>9 DEF ReadType
  <2>2. /\ 1 <= p.reads[c][i].wait /\ p.reads[c][i].wait <= rhigh - 1
        /\ p.bg[p.reads[c][i].bg].resident[p.reads[c][i].slot] = p.reads[c][i].burst
    BY <1>1 DEF Reading
  <2>3. \A x, y \in Nat : y # 0 /\ x <= y - 1 => x < y OBVIOUS
  <2>4. p.reads[c][i].wait < rhigh BY <1>2, <2>1, <2>2, <2>3
  <2> QED BY <1>4, <2>1, <2>2, <2>4
<1>11. \A i, j \in 1 .. Len(p.reads[c]) : i < j => p.reads[c][i].wait < p.reads[c][j].wait
  BY <1>1 DEF Reading
<1>12. CASE c \notin active
  <2>1. q.reads[c] = p.reads[c] BY <1>12 DEF Issued
  <2>2. \A b \in Home(c) : AllAsked(q)[b] = AllAsked(p)[b]
    <3> SUFFICES ASSUME NEW b \in Home(c) PROVE AllAsked(q)[b] = AllAsked(p)[b] OBVIOUS
    <3>1. b \in BG BY Homes
    <3>2. ~ \E x \in active : chosen[x] = b
      <4> SUFFICES ASSUME NEW x \in active, chosen[x] = b PROVE FALSE OBVIOUS
      <4>1. b \in Home(x) /\ x \in Channel BY DEF Issuing
      <4>2. x = c BY <4>1, Homes
      <4> QED BY <1>12, <4>2
    <3>3. AllAsked(p)[b] \in Nat BY <1>5, <3>1
    <3> QED BY <1>6, <3>1, <3>2, <3>3
  <2>3. Line(z, Home(c), R, AllAsked(q)) BY <1>8, <2>2, LineSame
  <2>4. Len(q.reads[c]) <= MaxInflightReads BY <1>1, <2>1 DEF Reading
  <2>5. \A i \in 1 .. Len(q.reads[c]) :
          /\ 1 <= q.reads[c][i].wait /\ q.reads[c][i].wait <= rhigh
          /\ q.bg[q.reads[c][i].bg].resident[q.reads[c][i].slot] = q.reads[c][i].burst
    BY <1>2, <1>10, <2>1
  <2>6. Reading(q, c, 1, rhigh, R) BY <1>8, <1>11, <2>1, <2>3, <2>4, <2>5 DEF Reading
  <2> QED BY <1>2, <1>12, <2>1, <2>6
<1>13. CASE c \in active
  <2> DEFINE b == chosen[c]
             s == slot[c]
             t == [burst |-> p.bg[b].resident[s], bg |-> b, slot |-> s,
                   wait |-> Cycles(ReadLatency)]
             n == Len(p.reads[c])
             y == Append(z, [bg |-> b, seq |-> AllAsked(q)[b]])
  <2>1. q.reads[c] = Append(p.reads[c], t) BY <1>13 DEF Issued
  <2>2. b \in Home(c) /\ b \in BG /\ s \in ReadSlot(p.bg[b]) /\ n < MaxInflightReads
    BY <1>13 DEF Issuing
  <2>3. AllAsked(q)[b] = AllAsked(p)[b] + 1 BY <1>6, <1>13, <2>2
  <2>4. ASSUME NEW x \in Home(c) \ {b} PROVE AllAsked(q)[x] = AllAsked(p)[x]
    <3>1. x \in BG BY Homes
    <3>2. ~ \E a \in active : chosen[a] = x
      <4> SUFFICES ASSUME NEW a \in active, chosen[a] = x PROVE FALSE OBVIOUS
      <4>1. x \in Home(a) /\ a \in Channel BY DEF Issuing
      <4>2. a = c BY <4>1, Homes
      <4> QED BY <4>2
    <3>3. AllAsked(p)[x] \in Nat BY <1>5, <3>1
    <3> QED BY <1>6, <3>1, <3>2, <3>3
  <2>5. /\ s \in BufferSlot /\ p.bg[b].resident[s].number = p.bg[b].nextRead
        /\ p.bg[b].resident[s] \in BurstType
    <3>1. p.bg[b] \in GroupType BY <1>1, <2>2, PathFields
    <3>2. p.bg[b].resident \in [BufferSlot -> BurstType] BY <3>1, GroupFields
    <3> QED BY <2>2, <3>2 DEF ReadSlot, Unread, Resident
  <2>6. t \in ReadType /\ t.burst = p.bg[b].resident[s] /\ t.bg = b /\ t.slot = s
        /\ t.wait = rhigh
    BY <1>2, <2>2, <2>5 DEF ReadType
  <2>7. AllAsked(q)[b] = p.bg[b].nextRead
    <3>1. AllAsked(p)[b] = p.bg[b].nextRead - 1 /\ p.bg[b].nextRead \in Nat
      BY <1>1, <2>2, PathFields, GroupFields DEF AllAsked, Asked
    <3> QED BY <2>3, <3>1
  <2> HIDE DEF t, b, s
  <2>8. /\ q.reads[c] \in Seq(ReadType) /\ Len(q.reads[c]) = n + 1
        /\ \A i \in 1 .. n : q.reads[c][i] = p.reads[c][i]
        /\ q.reads[c][n + 1] = t
    <3> DEFINE v == p.reads[c]
    <3>1. v \in Seq(ReadType) BY <1>2
    <3> HIDE DEF v
    <3>2. /\ Append(v, t) \in Seq(ReadType) /\ Len(Append(v, t)) = Len(v) + 1
          /\ \A i \in 1 .. Len(v) : Append(v, t)[i] = v[i]
          /\ Append(v, t)[Len(v) + 1] = t
      BY <2>6, <3>1, AppendProperties
    <3> QED BY <2>1, <3>2 DEF v
  <2>9. /\ y \in Seq(Element) /\ Len(y) = Len(z) + 1 /\ Line(y, Home(c), R, AllAsked(q))
        /\ y[Len(z) + 1] = [bg |-> b, seq |-> AllAsked(q)[b]]
        /\ \A i \in 1 .. Len(z) : y[i] = z[i]
    <3>1. Home(c) \in SUBSET BG BY Homes
    <3> DEFINE lo == R
               hi == AllAsked(p)
               hi2 == AllAsked(q)
               B == Home(c)
    <3>2. /\ B \in SUBSET BG /\ lo \in [BG -> Nat] /\ hi \in [BG -> Nat] /\ hi2 \in [BG -> Nat]
          /\ b \in B /\ (\A x \in B : lo[x] <= hi[x]) /\ Line(z, B, lo, hi)
          /\ hi2[b] = hi[b] + 1 /\ (\A x \in B \ {b} : hi2[x] = hi[x])
      BY <1>1, <1>5, <1>7, <1>8, <2>2, <2>3, <2>4, <3>1
    <3> HIDE DEF lo, hi, hi2, B
    <3> DEFINE e == [bg |-> b, seq |-> hi2[b]]
               w == Append(z, e)
    <3>3. e = [bg |-> b, seq |-> hi2[b]] OBVIOUS
    <3> HIDE DEF e
    <3>4. w = Append(z, e) OBVIOUS
    <3> HIDE DEF w, y, n
    <3>5. Line(w, B, lo, hi2) BY <3>2, <3>3, <3>4, LineGrows
    <3>7. /\ w \in Seq(Element) /\ Len(w) = Len(z) + 1
          /\ w[Len(z) + 1] = e /\ \A i \in 1 .. Len(z) : w[i] = z[i]
      <4>1. e \in Element BY <2>2, <3>2, <3>3 DEF Element
      <4> QED BY <3>4, <4>1, AppendProperties
    <3>6. w = y BY DEF w, y, e, hi2
    <3> QED BY <3>3, <3>5, <3>6, <3>7 DEF lo, hi2, B
  <2> HIDE DEF y
  <2>10. Len(y) = Len(q.reads[c]) /\ Len(z) = n /\ n \in Nat BY <1>2, <1>8, <2>8, <2>9
  <2> HIDE DEF n
  <2>11. \A i \in 1 .. Len(y) : i \in 1 .. n \/ i = n + 1 BY <2>8, <2>10
  <2>12. ASSUME NEW i \in 1 .. Len(y)
         PROVE  q.reads[c][i].bg = y[i].bg /\ q.reads[c][i].burst.number = y[i].seq
    <3>1. CASE i \in 1 .. n BY <1>8, <2>8, <2>9, <2>10, <3>1
    <3>2. CASE i = n + 1 BY <2>5, <2>6, <2>7, <2>8, <2>9, <2>10, <3>2
    <3> QED BY <2>11, <3>1, <3>2
  <2>13. ASSUME NEW i \in 1 .. Len(q.reads[c])
         PROVE  /\ 1 <= q.reads[c][i].wait /\ q.reads[c][i].wait <= rhigh
                /\ q.bg[q.reads[c][i].bg].resident[q.reads[c][i].slot] = q.reads[c][i].burst
    <3>1. CASE i \in 1 .. n
      <4>1. i \in 1 .. Len(p.reads[c]) /\ q.reads[c][i] = p.reads[c][i] BY <2>8, <3>1 DEF n
      <4> QED BY <1>2, <1>10, <4>1
    <3>2. CASE i = n + 1
      <4>1. q.reads[c][i] = t BY <2>8, <3>2
      <4>2. q.bg[b].resident = p.bg[b].resident BY <1>4, <2>2
      <4> QED BY <1>2, <2>6, <4>1, <4>2
    <3> QED BY <2>10, <2>11, <3>1, <3>2
  <2>14. ASSUME NEW i \in 1 .. Len(q.reads[c]), NEW j \in 1 .. Len(q.reads[c]), i < j
         PROVE  q.reads[c][i].wait < q.reads[c][j].wait
    <3>1. i \in 1 .. n BY <2>8, <2>10, <2>14
    <3>2. i \in 1 .. Len(p.reads[c]) /\ q.reads[c][i] = p.reads[c][i] BY <2>8, <3>1 DEF n
    <3>3. CASE j \in 1 .. n
      <4>1. j \in 1 .. Len(p.reads[c]) /\ q.reads[c][j] = p.reads[c][j] BY <2>8, <3>3 DEF n
      <4> QED BY <1>11, <2>14, <3>2, <4>1
    <3>4. CASE j = n + 1
      <4>1. q.reads[c][j].wait = rhigh BY <2>6, <2>8, <3>4
      <4> QED BY <1>10, <3>2, <4>1
    <3> QED BY <2>10, <2>11, <3>3, <3>4
  <2>15. Len(q.reads[c]) <= MaxInflightReads BY <1>2, <2>2, <2>8, <2>10 DEF n
  <2>16. Reading(q, c, 1, rhigh, R) BY <2>9, <2>10, <2>12, <2>13, <2>14, <2>15 DEF Reading
  <2> QED BY <1>13, <2>8, <2>16 DEF n
<1> QED BY <1>12, <1>13

\* As many bursts are asked for as channels issue a read.
LEMMA IssuingCounts ==
  ASSUME NEW p \in PathType, NEW q, NEW active, NEW chosen, NEW slot,
         Issuing(p, q, active, chosen, slot)
  PROVE  /\ IsFiniteSet(active) /\ Cardinality(active) \in Nat
         /\ Total(Asked2(p, active, chosen)) = Total(AllAsked(p)) + Cardinality(active)
<1> DEFINE T == {b \in BG : \E c \in active : chosen[c] = b}
           h == [c \in active |-> chosen[c]]
           f == AllAsked(p)
           g == Asked2(p, active, chosen)
<1>1. IsFiniteSet(active) BY Homes, FS_Subset DEF Issuing
<1>2. \A c \in active : c \in Channel /\ chosen[c] \in Home(c) /\ chosen[c] \in BG
  BY DEF Issuing
<1>3. h \in [active -> T] /\ (\A x, y \in active : h[x] = h[y] => x = y)
      /\ \A b \in T : \E x \in active : h[x] = b
  <2>1. \A x, y \in active : chosen[x] = chosen[y] => x = y BY <1>2, Homes
  <2> QED BY <1>2, <2>1
<1> HIDE DEF h, T
<1>4. Cardinality(T) = Cardinality(active) BY <1>1, <1>3, SameSize
<1>5. \A b \in BG : f[b] \in Nat /\ f[b] = Asked(p.bg[b])
  BY PathFields, GroupFields DEF AllAsked
<1>6. \A b \in BG : g[b] = f[b] + IF b \in T THEN 1 ELSE 0 BY <1>5 DEF Asked2, T
<1>7. f \in [BG -> Nat] /\ g \in [BG -> Nat] /\ T \in SUBSET BG
  <2>1. \A b \in BG : g[b] \in Nat BY <1>5, <1>6
  <2>2. f = [b \in BG |-> f[b]] /\ g = [b \in BG |-> g[b]] BY DEF AllAsked, Asked2
  <2> QED BY <1>5, <2>1, <2>2 DEF T
<1>8. (\A b \in T : g[b] = f[b] + 1) /\ (\A b \in BG \ T : g[b] = f[b]) BY <1>5, <1>6, <1>7
<1> HIDE DEF f, g
<1>9. IsFiniteSet(BG) BY Homes
<1>10. Total(g) = Total(f) + Cardinality(T) BY <1>7, <1>8, <1>9, TotalStep
<1> QED BY <1>1, <1>4, <1>10, FS_CardinalityType DEF f, g

\* IssueReads: the chosen reads start, each with a place of the return queue.
LEMMA IssueReadsKeeps ==
  ASSUME NEW p, NEW d, NEW low, NEW high, NEW rhigh, rhigh = Cycles(ReadLatency), NEW R, NEW D,
         State(p, d, low, high, 1, rhigh - 1, R, D), NEW q, q = IssueReads(p)
  PROVE  /\ State(q, d, low, high, 1, rhigh, R, D) /\ SameDelivery(p, q)
         /\ q.returned = p.returned
<1>1. /\ p \in PathType /\ R \in [BG -> Nat] /\ D \in [BG -> Nat]
      /\ Groups(p, d, low, high, R) /\ (\A c \in Channel : Reading(p, c, 1, rhigh - 1, R))
      /\ Host(p, R, D) /\ CountsHold(p, R, D) /\ Flags(p, R, D)
  BY DEF State
<1>2. /\ p.bg \in [BG -> GroupType] /\ p.counts \in CountsType
      /\ p.channelCursor \in [Channel -> 0 .. BankGroupsPerChannel - 1]
      /\ p.reads \in [Channel -> Seq(ReadType)]
      /\ p.reservedReturn \in Nat /\ Len(p.returned) \in Nat /\ p.counts.readsIssued \in Nat
  BY <1>1, PathFields
<1> DEFINE bgAt(c, offset) ==
             c * BankGroupsPerChannel + ((p.channelCursor[c] + offset) % BankGroupsPerChannel)
           offsets(c) == {o \in 0 .. BankGroupsPerChannel - 1 : ReadSlot(p.bg[bgAt(c, o)]) # {}}
           able == {c \in Channel : /\ ~p.error /\ p.readbackStarted
                                    /\ Len(p.reads[c]) < MaxInflightReads /\ offsets(c) # {}}
           active == {c \in able : Cardinality({e \in able : e < c}) < ReturnRoom(p)}
           chosen == [c \in active |-> bgAt(c, Min(offsets(c)))]
           slot == [c \in active |-> Min(ReadSlot(p.bg[chosen[c]]))]
           issued(c) == [burst |-> p.bg[chosen[c]].resident[slot[c]], bg |-> chosen[c],
                         slot |-> slot[c], wait |-> Cycles(ReadLatency)]
           begun(b) == {c \in active : chosen[c] = b}
           reads == [c \in Channel |-> IF c \in active THEN Append(p.reads[c], issued(c))
                                                       ELSE p.reads[c]]
           cursor == [c \in Channel |-> IF c \in active
                                        THEN (chosen[c] + 1) % BankGroupsPerChannel
                                        ELSE p.channelCursor[c]]
           n == Cardinality(active)
           counts == [p.counts EXCEPT !.readsIssued = p.counts.readsIssued + n]
           groups == [b \in BG |-> Begun(p.bg[b], b, active, chosen, slot)]
<1>3. q = [p EXCEPT !.reads = reads, !.reservedReturn = p.reservedReturn + n,
                    !.channelCursor = cursor, !.bg = groups, !.counts = counts]
  BY DEF IssueReads, Begun
<1>4. ASSUME NEW c \in active
      PROVE  /\ c \in Channel /\ Len(p.reads[c]) < MaxInflightReads /\ p.readbackStarted
             /\ chosen[c] \in Home(c) /\ chosen[c] \in BG
             /\ slot[c] \in ReadSlot(p.bg[chosen[c]])
             /\ (chosen[c] + 1) % BankGroupsPerChannel \in 0 .. BankGroupsPerChannel - 1
  <2>1. c \in able OBVIOUS
  <2>2. c \in Channel /\ Len(p.reads[c]) < MaxInflightReads /\ p.readbackStarted
        /\ offsets(c) # {}
    <3> HIDE DEF offsets, active
    <3> QED BY <2>1
  <2> DEFINE o == offsets(c)
             b == bgAt(c, Min(o))
  <2>3. o = {k \in 0 .. BankGroupsPerChannel - 1 :
               ReadSlot(p.bg[c * BankGroupsPerChannel
                 + ((p.channelCursor[c] + k) % BankGroupsPerChannel)]) # {}}
    OBVIOUS
  <2>4. b = c * BankGroupsPerChannel + ((p.channelCursor[c] + Min(o)) % BankGroupsPerChannel)
    OBVIOUS
  <2>5. chosen[c] = b /\ slot[c] = Min(ReadSlot(p.bg[b]))
    <3>1. chosen[c] = b
      <4> HIDE DEF active, offsets, bgAt
      <4> QED OBVIOUS
    <3> HIDE DEF chosen, b, active
    <3>2. slot[c] = Min(ReadSlot(p.bg[chosen[c]])) OBVIOUS
    <3> QED BY <3>1, <3>2
  <2>6. o # {} BY <2>2
  <2> HIDE DEF o, b, offsets, bgAt, able, active, chosen, slot
  <2>7. /\ b \in Home(c) /\ b \in BG
        /\ ReadSlot(p.bg[b]) # {} /\ Min(ReadSlot(p.bg[b])) \in ReadSlot(p.bg[b])
        /\ (b + 1) % BankGroupsPerChannel \in 0 .. BankGroupsPerChannel - 1
    BY <1>1, <2>2, <2>3, <2>4, <2>6, ReadsChosen
  <2> QED BY <2>2, <2>5, <2>7
<1>5. IsFiniteSet(able) /\ able \in SUBSET Nat /\ able \in SUBSET Channel
      /\ active \in SUBSET Channel
  <2>1. able \in SUBSET Channel /\ active \in SUBSET Channel OBVIOUS
  <2> HIDE DEF able, active
  <2> QED BY <2>1, Homes, FS_Subset
<1>6. n <= ReturnRoom(p)
  <2> DEFINE m == ReturnRoom(p)
  <2>1. m \in Nat
    <3>1. Len(p.returned) + p.reservedReturn <= ReturnQueueCapacity BY <1>1 DEF Host
    <3> QED BY <1>2, <3>1, Config DEF ReturnRoom
  <2>2. active = {c \in able : Place(able, c) < m} BY DEF Place
  <2> HIDE DEF able, active, m
  <2>3. Cardinality({c \in able : Place(able, c) < m}) <= m BY <1>5, <2>1, FirstFew
  <2> QED BY <2>2, <2>3 DEF m
<1>7. Issuing(p, q, active, chosen, slot)
  <2> HIDE DEF active, chosen, slot
  <2> QED BY <1>4, <1>5, <1>6 DEF Issuing
<1>8. /\ cursor \in [Channel -> 0 .. BankGroupsPerChannel - 1]
  <2> HIDE DEF active, chosen
  <2> QED BY <1>2, <1>4
<1> HIDE DEF active, chosen, slot, able, offsets, bgAt
<1>9. IsFiniteSet(active) /\ n \in Nat
      /\ Total(Asked2(p, active, chosen)) = Total(AllAsked(p)) + n
  BY <1>1, <1>7, IssuingCounts
<1>10. ASSUME NEW b \in BG
       PROVE  /\ groups[b] = Begun(p.bg[b], b, active, chosen, slot)
              /\ groups[b] \in GroupType
  <2>1. groups[b] = Begun(p.bg[b], b, active, chosen, slot) OBVIOUS
  <2> DEFINE h == groups[b]
  <2> HIDE DEF groups
  <2>2. h = Begun(p.bg[b], b, active, chosen, slot) BY <2>1
  <2> HIDE DEF h
  <2>3. Group(h, b, d[b], low, high, R[b]) BY <1>1, <1>7, <2>2, IssuingGroup
  <2>4. h \in GroupType BY <2>3 DEF Group
  <2> QED BY <2>1, <2>4 DEF h
<1>11. groups \in [BG -> GroupType] BY <1>10
<1>12. /\ counts \in CountsType
       /\ counts.generated = p.counts.generated /\ counts.bursts = p.counts.bursts
       /\ counts.written = p.counts.written
       /\ counts.readsIssued = p.counts.readsIssued + n
       /\ counts.readsDone = p.counts.readsDone
       /\ counts.readRecords = p.counts.readRecords
       /\ counts.delivered = p.counts.delivered
       /\ counts.enqueued = p.counts.enqueued
       /\ counts.issued = p.counts.issued /\ counts.reduced = p.counts.reduced
  <2>1. p.counts.readsIssued + n \in Nat BY <1>2, <1>9
  <2> HIDE DEF n
  <2> QED BY <1>2, <2>1 DEF CountsType
<1>13. p.reservedReturn + n \in Nat BY <1>2, <1>9
<1> HIDE DEF groups, cursor, counts, reads, n
<1>14. /\ q.bg = groups /\ q.reads = reads /\ q.returned = p.returned
       /\ q.reservedReturn = p.reservedReturn + n /\ q.queue = p.queue /\ q.batch = p.batch
       /\ q.added = p.added /\ q.counts = counts /\ q.readbackStarted = p.readbackStarted
       /\ q.writebackDone = p.writebackDone /\ q.transportDone = p.transportDone
       /\ q.readbackDone = p.readbackDone
       /\ q.reductionDone = p.reductionDone /\ q.error = p.error
  BY <1>1, <1>3 DEF PathType
<1>15. Issued(p, q, active, chosen, slot) BY <1>14 DEF Issued, groups, reads
<1>16. \A c \in Channel : /\ Reading(q, c, 1, rhigh, R) /\ q.reads[c] \in Seq(ReadType)
                          /\ (c \in active => Len(q.reads[c]) = Len(p.reads[c]) + 1)
                          /\ (c \notin active => q.reads[c] = p.reads[c])
  <2> SUFFICES ASSUME NEW c \in Channel
               PROVE  /\ Reading(q, c, 1, rhigh, R) /\ q.reads[c] \in Seq(ReadType)
                      /\ (c \in active => Len(q.reads[c]) = Len(p.reads[c]) + 1)
                      /\ (c \notin active => q.reads[c] = p.reads[c])
    OBVIOUS
  <2>1. State(p, d, low, high, 1, rhigh - 1, R, D) /\ rhigh = Cycles(ReadLatency) OBVIOUS
  <2>2. Reading(q, c, 1, rhigh, R) BY <1>7, <1>15, <2>1, IssuingReading
  <2>3. /\ q.reads[c] \in Seq(ReadType)
        /\ (c \in active => Len(q.reads[c]) = Len(p.reads[c]) + 1)
        /\ (c \notin active => q.reads[c] = p.reads[c])
    BY <1>7, <1>15, <2>1, IssuingReading
  <2> QED BY <2>2, <2>3
<1>17. reads \in [Channel -> Seq(ReadType)]
  <2>1. reads = [c \in Channel |-> reads[c]] BY DEF reads
  <2> QED BY <1>14, <1>16, <2>1
<1>18. q \in PathType BY <1>1, <1>3, <1>8, <1>11, <1>12, <1>13, <1>17 DEF PathType
<1>19. ASSUME NEW b \in BG
       PROVE  /\ Group(q.bg[b], b, d[b], low, high, R[b])
              /\ q.bg[b].packer = p.bg[b].packer /\ q.bg[b].pending = p.bg[b].pending
              /\ q.bg[b].inflight = p.bg[b].inflight
              /\ q.bg[b].nextBurst = p.bg[b].nextBurst
              /\ q.bg[b].lastOutput = p.bg[b].lastOutput
              /\ q.bg[b].lifecycle = p.bg[b].lifecycle
              /\ q.bg[b].tailFlushed = p.bg[b].tailFlushed
              /\ Written(q.bg[b]) = Written(p.bg[b]) /\ Sealed(q.bg[b]) = Sealed(p.bg[b])
              /\ Asked(q.bg[b]) = Asked2(p, active, chosen)[b]
              /\ q.bg[b].nextRead = p.bg[b].nextRead
                                      + IF \E c \in active : chosen[c] = b THEN 1 ELSE 0
  <2> DEFINE h == q.bg[b]
  <2>1. h = Begun(p.bg[b], b, active, chosen, slot) BY <1>10, <1>14
  <2> HIDE DEF h
  <2>2. /\ Group(h, b, d[b], low, high, R[b])
        /\ h.packer = p.bg[b].packer /\ h.pending = p.bg[b].pending
        /\ h.inflight = p.bg[b].inflight
        /\ h.nextBurst = p.bg[b].nextBurst
        /\ h.lastOutput = p.bg[b].lastOutput
        /\ h.lifecycle = p.bg[b].lifecycle /\ h.tailFlushed = p.bg[b].tailFlushed
        /\ Written(h) = Written(p.bg[b]) /\ Sealed(h) = Sealed(p.bg[b])
        /\ Asked(h) = Asked2(p, active, chosen)[b]
        /\ h.nextRead = p.bg[b].nextRead + IF \E c \in active : chosen[c] = b THEN 1 ELSE 0
    BY <1>1, <1>7, <2>1, IssuingGroup
  <2> QED BY <2>2 DEF h
<1>20. Groups(q, d, low, high, R) BY <1>19 DEF Groups
<1>21. /\ Outputs(q) = Outputs(p) /\ AllBursts(q) = AllBursts(p) /\ AllWritten(q) = AllWritten(p)
       /\ AllAsked(q) = Asked2(p, active, chosen)
       /\ Records(q, R) = Records(p, R) /\ Records(q, D) = Records(p, D)
  <2>1. Outputs(q) = Outputs(p) BY <1>19 DEF Outputs
  <2>2. AllBursts(q) = AllBursts(p) BY <1>19 DEF AllBursts, Bursts
  <2>3. AllWritten(q) = AllWritten(p) BY <1>19 DEF AllWritten
  <2>4. AllAsked(q) = Asked2(p, active, chosen) BY <1>19 DEF AllAsked, Asked2
  <2>5. Records(q, R) = Records(p, R) /\ Records(q, D) = Records(p, D) BY <1>19 DEF Records
  <2> QED BY <2>1, <2>2, <2>3, <2>4, <2>5
<1>22. Host(q, R, D)
  <2>1. Returned(q, R, D) BY <1>1, <1>14, <1>19, ReturnedKept DEF Host
  <2>2. q.reservedReturn = Total(Lengths(q))
    <3> DEFINE f == Lengths(p)
               g == Lengths(q)
    <3>1. f \in [Channel -> Nat] /\ \A c \in Channel : f[c] = Len(p.reads[c])
      BY <1>1, PathFields DEF Lengths
    <3>2. g \in [Channel -> Nat] /\ \A c \in Channel : g[c] = Len(q.reads[c])
      BY <1>18, PathFields DEF Lengths
    <3> HIDE DEF f, g
    <3>3. \A c \in active : g[c] = f[c] + 1 BY <1>5, <1>16, <3>1, <3>2
    <3>4. \A c \in Channel \ active : g[c] = f[c]
      <4> SUFFICES ASSUME NEW c \in Channel \ active PROVE g[c] = f[c] OBVIOUS
      <4>1. q.reads[c] = p.reads[c] BY <1>16
      <4>2. f[c] \in Nat /\ f[c] = Len(p.reads[c]) /\ g[c] = Len(q.reads[c]) BY <3>1, <3>2
      <4> QED BY <4>1, <4>2
    <3>5. IsFiniteSet(Channel) BY Homes
    <3>6. Total(g) = Total(f) + Cardinality(active)
      BY <1>5, <3>1, <3>2, <3>3, <3>4, <3>5, TotalStep
    <3>7. p.reservedReturn = Total(f) BY <1>1 DEF Host, f
    <3> QED BY <1>14, <3>6, <3>7 DEF n, g
  <2>3. Len(q.returned) + q.reservedReturn <= ReturnQueueCapacity
    BY <1>2, <1>6, <1>9, <1>14, Config DEF ReturnRoom
  <2>4. Line((q.added \o q.batch) \o q.queue, BG, None, Records(q, D))
    BY <1>1, <1>14, <1>21 DEF Host
  <2> QED BY <1>1, <2>1, <2>2, <2>3, <2>4 DEF Host
<1>23. CountsHold(q, R, D)
  <2>1. counts.readsIssued = Total(AllAsked(q)) BY <1>1, <1>9, <1>12, <1>21 DEF CountsHold
  <2> QED BY <1>1, <1>12, <1>14, <1>21, <2>1 DEF CountsHold
<1>24. Flags(q, R, D)
  <2>1. p.writebackDone => \A b \in BG : Finished(q.bg[b]) BY <1>1, <1>19 DEF Flags, Finished
  <2>2. ~p.readbackStarted => \A b \in BG : q.bg[b].nextRead = 1
    <3> SUFFICES ASSUME ~p.readbackStarted, NEW b \in BG PROVE q.bg[b].nextRead = 1 OBVIOUS
    <3>1. p.bg[b].nextRead = 1 BY <1>1 DEF Flags
    <3>2. active = {} BY <1>7 DEF Issuing
    <3> QED BY <1>19, <3>1, <3>2
  <2>3. p.transportDone => p.readbackStarted /\ \A b \in BG : R[b] = Written(q.bg[b])
    BY <1>1, <1>19 DEF Flags
  <2> QED BY <1>1, <1>14, <2>1, <2>2, <2>3 DEF Flags
<1>25. SameDelivery(p, q) BY <1>14, <1>19 DEF SameDelivery
<1> QED BY <1>1, <1>14, <1>16, <1>18, <1>20, <1>22, <1>23, <1>24, <1>25 DEF State

\* What ends in a cycle: the oldest read of each channel of Ready(p); its bank group has then
\* read one burst more, and the slot it came from is free.
Ready(p) == {c \in Channel : p.reads[c] # <<>> /\ Head(p.reads[c]).wait = 0}

ReadNow(p, R) ==
  [b \in BG |-> R[b] + IF \E c \in Ready(p) : Head(p.reads[c]).bg = b THEN 1 ELSE 0]

Freed(p, b) ==
  {k \in BufferSlot : \E c \in Ready(p) : Head(p.reads[c]).bg = b /\ Head(p.reads[c]).slot = k}

Ended(p, b) ==
  [p.bg[b] EXCEPT
     !.resident = [k \in BufferSlot |-> IF k \in Freed(p, b) THEN NoBurst ELSE p.bg[b].resident[k]],
     !.reading = [k \in BufferSlot |-> p.bg[b].reading[k] /\ k \notin Freed(p, b)]]

\* The oldest read of a channel is that of the next burst of its bank group.
LEMMA OldestRead ==
  ASSUME NEW p, NEW d, NEW low, NEW high, NEW rlow, NEW rhigh, NEW R, NEW D,
         State(p, d, low, high, rlow, rhigh, R, D), NEW c \in Channel, p.reads[c] # <<>>,
         NEW t, t = Head(p.reads[c])
  PROVE  /\ t \in ReadType /\ t.bg \in Home(c) /\ t.bg \in BG /\ t.slot \in BufferSlot
         /\ p.bg[t.bg].resident[t.slot] = t.burst /\ t.burst.number = R[t.bg] + 1
         /\ R[t.bg] < Asked(p.bg[t.bg]) /\ p.bg[t.bg].reading[t.slot]
         /\ t.burst = BurstOf(t.bg, R[t.bg] + 1, Sealed(p.bg[t.bg]))
<1>1. /\ p \in PathType /\ R \in [BG -> Nat] /\ Groups(p, d, low, high, R)
      /\ Reading(p, c, rlow, rhigh, R)
  BY DEF State
<1>2. p.reads[c] \in Seq(ReadType) /\ Len(p.reads[c]) \in Nat BY <1>1, PathFields
<1>3. t \in ReadType /\ t = p.reads[c][1] /\ 1 \in 1 .. Len(p.reads[c])
  BY <1>2, EmptySeq, ElementOfSeq
<1>4. PICK z \in Seq(Element) :
        /\ Len(z) = Len(p.reads[c]) /\ Line(z, Home(c), R, AllAsked(p))
        /\ \A i \in 1 .. Len(z) :
             p.reads[c][i].bg = z[i].bg /\ p.reads[c][i].burst.number = z[i].seq
  BY <1>1 DEF Reading
<1>5. z # <<>> /\ Head(z) = z[1] /\ 1 \in 1 .. Len(z) BY <1>2, <1>3, <1>4
<1>6. t.bg = Head(z).bg /\ t.burst.number = Head(z).seq BY <1>3, <1>4, <1>5
<1>7. AllAsked(p) \in [BG -> Nat]
  <2>1. ASSUME NEW b \in BG PROVE Asked(p.bg[b]) \in Nat BY <1>1, GroupNumbers DEF Groups
  <2> QED BY <2>1 DEF AllAsked
<1> DEFINE mid == [b \in BG |-> IF b = Head(z).bg THEN R[b] + 1 ELSE R[b]]
<1>8. mid \in [BG -> Nat] /\ \A b \in BG : mid[b] = IF b = Head(z).bg THEN R[b] + 1 ELSE R[b]
  BY <1>1
<1>9. Home(c) \in SUBSET BG BY Homes
<1> HIDE DEF mid
<1>10. /\ Head(z).bg \in Home(c) /\ Head(z).seq = R[Head(z).bg] + 1
       /\ R[Head(z).bg] < AllAsked(p)[Head(z).bg]
  <2> DEFINE B == Home(c)
             hi == AllAsked(p)
  <2>1. /\ B \in SUBSET BG /\ z \in Seq(Element) /\ z # <<>> /\ R \in [BG -> Nat]
        /\ hi \in [BG -> Nat] /\ Line(z, B, R, hi)
    BY <1>1, <1>4, <1>5, <1>7, <1>9
  <2> HIDE DEF B, hi
  <2>2. /\ Head(z).bg \in B /\ Head(z).seq = R[Head(z).bg] + 1
        /\ R[Head(z).bg] < hi[Head(z).bg]
    BY <2>1, LineHead
  <2> QED BY <2>2 DEF B, hi
<1> DEFINE b == t.bg
           s == t.slot
           g == p.bg[b]
           e == d[b]
           r == R[b]
<1>11. b \in Home(c) /\ b \in BG /\ t.burst.number = r + 1 /\ r < Asked(g)
  BY <1>6, <1>9, <1>10 DEF AllAsked
<1>12. s \in BufferSlot BY <1>3 DEF ReadType
<1>13. g.resident[s] = t.burst BY <1>1, <1>3 DEF Reading
<1>14. Group(g, b, e, low, high, r) /\ r \in Nat BY <1>1, <1>11 DEF Groups
<1> HIDE DEF b, s, g, e, r
<1>15. g.reading[s]
  <2> DEFINE h == Freeing(g, s)
  <2>1. h = Freeing(g, s) /\ g.resident[s].number = r + 1 BY <1>11, <1>13
  <2> HIDE DEF h
  <2> QED BY <1>11, <1>12, <1>14, <2>1, GroupReads
<1>16. t.burst = BurstOf(b, r + 1, Sealed(g))
  <2>1. g.resident[s] # NoBurst BY <1>11, <1>13, <1>14 DEF NoBurst
  <2> QED BY <1>11, <1>12, <1>13, <1>14, <2>1 DEF Group, Holding
<1> QED BY <1>3, <1>11, <1>12, <1>13, <1>15, <1>16 DEF b, s, g, r

\* The effect on a bank group.
LEMMA ReadyGroup ==
  ASSUME NEW p, NEW d, NEW low, NEW high, NEW rlow, NEW rhigh, NEW R, NEW D,
         State(p, d, low, high, rlow, rhigh, R, D), NEW b \in BG, NEW h, h = Ended(p, b)
  PROVE  /\ Group(h, b, d[b], low, high, ReadNow(p, R)[b])
         /\ h.packer = p.bg[b].packer /\ h.pending = p.bg[b].pending
         /\ h.inflight = p.bg[b].inflight /\ h.nextBurst = p.bg[b].nextBurst
         /\ h.nextRead = p.bg[b].nextRead /\ h.lastOutput = p.bg[b].lastOutput
         /\ h.lifecycle = p.bg[b].lifecycle /\ h.tailFlushed = p.bg[b].tailFlushed
         /\ Written(h) = Written(p.bg[b])
         /\ \A k \in BufferSlot \ Freed(p, b) : h.resident[k] = p.bg[b].resident[k]
<1> DEFINE g == p.bg[b]
           e == d[b]
           r == R[b]
           ends == {c \in Ready(p) : Head(p.reads[c]).bg = b}
           free == Freed(p, b)
<1>1. Group(g, b, e, low, high, r) /\ g \in GroupType /\ r \in Nat
  BY PathFields DEF State, Groups
<1>2. g.reading \in [BufferSlot -> BOOLEAN] /\ g.resident \in [BufferSlot -> BurstType]
  BY <1>1, GroupFields
<1>3. h = [g EXCEPT !.resident = [k \in BufferSlot |-> IF k \in free THEN NoBurst ELSE g.resident[k]],
                    !.reading = [k \in BufferSlot |-> g.reading[k] /\ k \notin free]]
  BY DEF Ended
<1>4. ASSUME NEW c \in ends
      PROVE  /\ b \in Home(c) /\ c \in Channel /\ Head(p.reads[c]).slot \in BufferSlot
             /\ g.resident[Head(p.reads[c]).slot].number = r + 1 /\ r < Asked(g)
  <2>1. c \in Channel /\ p.reads[c] # <<>> /\ Head(p.reads[c]).bg = b BY DEF Ready
  <2> DEFINE t == Head(p.reads[c])
  <2>2. t = Head(p.reads[c]) OBVIOUS
  <2> HIDE DEF t
  <2>3. /\ t.bg \in Home(c) /\ t.slot \in BufferSlot
        /\ p.bg[t.bg].resident[t.slot] = t.burst /\ t.burst.number = R[t.bg] + 1
        /\ R[t.bg] < Asked(p.bg[t.bg])
    BY <2>1, <2>2, OldestRead
  <2> QED BY <2>1, <2>3 DEF t
<1>5. \A x, y \in ends : x = y BY <1>4, Homes
<1>6. CASE ends = {}
  <2>1. free = {} /\ ReadNow(p, R)[b] = r BY <1>1, <1>6 DEF Freed, ReadNow
  <2>2. [k \in BufferSlot |-> g.reading[k] /\ k \notin free] = g.reading
    <3>1. \A k \in BufferSlot : (g.reading[k] /\ k \notin free) = g.reading[k] BY <1>2, <2>1
    <3> HIDE DEF g, free
    <3> QED BY <1>2, <3>1, Zenon
  <2>3. [k \in BufferSlot |-> IF k \in free THEN NoBurst ELSE g.resident[k]] = g.resident
    <3> HIDE DEF g, free
    <3> QED BY <1>2, <2>1
  <2> HIDE DEF g, free
  <2>4. h = [g EXCEPT !.resident = g.resident, !.reading = g.reading] BY <1>3, <2>2, <2>3
  <2>5. h = g BY <1>1, <2>4 DEF GroupType
  <2> QED BY <1>1, <2>1, <2>5 DEF g
<1>7. CASE ends # {}
  <2>1. PICK c : c \in ends BY <1>7
  <2>2. ends = {c} BY <1>5, <2>1
  <2> DEFINE s == Head(p.reads[c]).slot
  <2>3. s \in BufferSlot /\ g.resident[s].number = r + 1 /\ r < Asked(g) BY <1>4, <2>1
  <2>4. free = {s} BY <2>2, <2>3 DEF Freed
  <2>5. ReadNow(p, R)[b] = r + 1 BY <2>1 DEF ReadNow
  <2> HIDE DEF g, free, s, ends, e, r
  <2>6. h = Freeing(g, s)
    <3>1. [k \in BufferSlot |-> g.reading[k] /\ k \notin free]
            = [k \in BufferSlot |-> g.reading[k] /\ k # s]
      <4>1. \A k \in BufferSlot : k \notin free <=> k # s BY <2>4
      <4> QED BY <4>1, Zenon
    <3>2. [k \in BufferSlot |-> IF k \in free THEN NoBurst ELSE g.resident[k]]
            = [k \in BufferSlot |-> IF k = s THEN NoBurst ELSE g.resident[k]]
      BY <2>4
    <3> QED BY <1>3, <3>1, <3>2 DEF Freeing
  <2>7. /\ Group(h, b, e, low, high, r + 1)
        /\ h.packer = g.packer /\ h.pending = g.pending /\ h.inflight = g.inflight
        /\ h.nextBurst = g.nextBurst
        /\ h.nextRead = g.nextRead /\ h.lastOutput = g.lastOutput
        /\ h.lifecycle = g.lifecycle /\ h.tailFlushed = g.tailFlushed
        /\ Written(h) = Written(g)
        /\ \A k \in BufferSlot : h.resident[k] = IF k = s THEN NoBurst ELSE g.resident[k]
    BY <1>1, <2>3, <2>6, GroupReads
  <2>8. \A k \in BufferSlot \ free : h.resident[k] = g.resident[k] BY <2>4, <2>7
  <2> QED BY <2>5, <2>7, <2>8 DEF g, free, e
<1> QED BY <1>6, <1>7

\* The first bursts of the reads under way move up, and what a read waits for stays.
Returning(p, q) ==
  /\ q.bg = [b \in BG |-> Ended(p, b)]
  /\ q.reads = [c \in Channel |-> IF c \in Ready(p) THEN Tail(p.reads[c]) ELSE p.reads[c]]

\* In the bank groups of a channel only its own read ends.
LEMMA ReadAtHome ==
  ASSUME NEW p, NEW d, NEW low, NEW high, NEW rlow, NEW rhigh, NEW R, NEW D,
         State(p, d, low, high, rlow, rhigh, R, D), NEW c \in Channel, NEW b \in Home(c)
  PROVE  /\ c \in Ready(p) => ReadNow(p, R)[b] =
              IF b = Head(p.reads[c]).bg THEN R[b] + 1 ELSE R[b]
         /\ c \notin Ready(p) => ReadNow(p, R)[b] = R[b]
         /\ \A k \in Freed(p, b) :
              c \in Ready(p) /\ Head(p.reads[c]).bg = b /\ Head(p.reads[c]).slot = k
<1>1. b \in BG /\ R[b] \in Nat BY Homes DEF State
<1>2. ASSUME NEW x \in Ready(p), Head(p.reads[x]).bg = b PROVE x = c
  <2> DEFINE t == Head(p.reads[x])
  <2>1. x \in Channel /\ p.reads[x] # <<>> /\ t = Head(p.reads[x]) BY DEF Ready
  <2> HIDE DEF t
  <2>2. t.bg \in Home(x) BY <2>1, OldestRead
  <2>3. b \in Home(x) BY <1>2, <2>2 DEF t
  <2> QED BY <2>1, <2>3, Homes
<1>3. ReadNow(p, R)[b] = R[b] + IF \E x \in Ready(p) : Head(p.reads[x]).bg = b THEN 1 ELSE 0
  BY <1>1 DEF ReadNow
<1>4. (\E x \in Ready(p) : Head(p.reads[x]).bg = b)
        <=> (c \in Ready(p) /\ b = Head(p.reads[c]).bg)
  BY <1>2
<1>5. \A k \in Freed(p, b) :
        c \in Ready(p) /\ Head(p.reads[c]).bg = b /\ Head(p.reads[c]).slot = k
  BY <1>2 DEF Freed
<1> QED BY <1>1, <1>3, <1>4, <1>5

\* The reads of a channel after the oldest has returned.
LEMMA ReadyReading ==
  ASSUME NEW p, NEW d, NEW low, NEW high, NEW rhigh, NEW R, NEW D,
         State(p, d, low, high, 0, rhigh, R, D), NEW q, Returning(p, q), NEW c \in Channel
  PROVE  /\ Reading(q, c, 1, rhigh, ReadNow(p, R)) /\ q.reads[c] \in Seq(ReadType)
         /\ c \in Ready(p) => Len(p.reads[c]) = Len(q.reads[c]) + 1
         /\ c \notin Ready(p) => q.reads[c] = p.reads[c]
<1>1. /\ p \in PathType /\ R \in [BG -> Nat] /\ Groups(p, d, low, high, R)
      /\ Reading(p, c, 0, rhigh, R)
  BY DEF State
<1>2. /\ p.reads[c] \in Seq(ReadType) /\ Len(p.reads[c]) \in Nat /\ MaxInflightReads \in Nat
  BY <1>1, PathFields, Config
<1>3. \A b \in BG : /\ q.bg[b].nextRead = p.bg[b].nextRead
                    /\ \A k \in BufferSlot \ Freed(p, b) :
                         q.bg[b].resident[k] = p.bg[b].resident[k]
  BY ReadyGroup DEF Returning
<1>4. AllAsked(q) = AllAsked(p) BY <1>3 DEF AllAsked, Asked
<1>5. PICK z \in Seq(Element) :
        /\ Len(z) = Len(p.reads[c]) /\ Line(z, Home(c), R, AllAsked(p))
        /\ \A i \in 1 .. Len(z) :
             p.reads[c][i].bg = z[i].bg /\ p.reads[c][i].burst.number = z[i].seq
  BY <1>1 DEF Reading
<1>6. \A i \in 1 .. Len(p.reads[c]) :
        /\ p.reads[c][i] \in ReadType /\ p.reads[c][i].wait \in Nat
        /\ p.reads[c][i].bg \in Home(c) /\ p.reads[c][i].bg \in BG
        /\ p.reads[c][i].slot \in BufferSlot
  <2> SUFFICES ASSUME NEW i \in 1 .. Len(p.reads[c])
               PROVE  /\ p.reads[c][i] \in ReadType /\ p.reads[c][i].wait \in Nat
                      /\ p.reads[c][i].bg \in Home(c) /\ p.reads[c][i].bg \in BG
                      /\ p.reads[c][i].slot \in BufferSlot
    OBVIOUS
  <2>1. p.reads[c][i] \in ReadType BY <1>2, ElementOfSeq
  <2>2. p.reads[c][i].bg \in Home(c) BY <1>5 DEF Line
  <2> QED BY <2>1, <2>2 DEF ReadType
<1>7. \A i \in 1 .. Len(p.reads[c]) :
        /\ 0 <= p.reads[c][i].wait /\ p.reads[c][i].wait <= rhigh
        /\ p.bg[p.reads[c][i].bg].resident[p.reads[c][i].slot] = p.reads[c][i].burst
  BY <1>1 DEF Reading
<1>8. \A i, j \in 1 .. Len(p.reads[c]) : i < j => p.reads[c][i].wait < p.reads[c][j].wait
  BY <1>1 DEF Reading
<1>9. CASE c \notin Ready(p)
  <2>1. q.reads[c] = p.reads[c] BY <1>9 DEF Returning
  <2>2. \A b \in Home(c) : ReadNow(p, R)[b] = R[b] /\ Freed(p, b) = {} BY <1>9, ReadAtHome
  <2>3. Line(z, Home(c), ReadNow(p, R), AllAsked(q)) BY <1>4, <1>5, <2>2, LineSame
  <2>4. ASSUME NEW i \in 1 .. Len(q.reads[c])
        PROVE  /\ 1 <= q.reads[c][i].wait /\ q.reads[c][i].wait <= rhigh
               /\ q.bg[q.reads[c][i].bg].resident[q.reads[c][i].slot] = q.reads[c][i].burst
    <3>1. i \in 1 .. Len(p.reads[c]) /\ q.reads[c][i] = p.reads[c][i] BY <2>1
    <3>2. q.bg[p.reads[c][i].bg].resident[p.reads[c][i].slot] = p.reads[c][i].burst
      <4> DEFINE x == p.reads[c][i]
      <4>1. /\ x.bg \in Home(c) /\ x.bg \in BG /\ x.slot \in BufferSlot
            /\ p.bg[x.bg].resident[x.slot] = x.burst
        BY <1>6, <1>7, <3>1
      <4> HIDE DEF x
      <4>2. x.slot \in BufferSlot \ Freed(p, x.bg) BY <2>2, <4>1
      <4>3. q.bg[x.bg].resident[x.slot] = x.burst BY <1>3, <4>1, <4>2
      <4> QED BY <4>3 DEF x
    <3>3. p.reads[c][1].wait # 0 /\ 1 \in 1 .. Len(p.reads[c]) BY <1>2, <1>9, <3>1 DEF Ready
    <3>4. i = 1 \/ p.reads[c][1].wait < p.reads[c][i].wait BY <1>8, <3>1, <3>3
    <3>5. 1 <= p.reads[c][i].wait
      <4> DEFINE x == p.reads[c][1].wait
                 y == p.reads[c][i].wait
      <4>1. x \in Nat /\ y \in Nat /\ x # 0 /\ (y = x \/ x < y) BY <1>6, <3>1, <3>3, <3>4
      <4> HIDE DEF x, y
      <4>2. 1 <= y BY <4>1
      <4> QED BY <4>2 DEF y
    <3> QED BY <1>7, <3>1, <3>2, <3>5
  <2>5. Len(q.reads[c]) <= MaxInflightReads BY <1>1, <2>1 DEF Reading
  <2>6. Reading(q, c, 1, rhigh, ReadNow(p, R)) BY <1>5, <1>8, <2>1, <2>3, <2>4, <2>5 DEF Reading
  <2> QED BY <1>2, <1>9, <2>1, <2>6
<1>10. CASE c \in Ready(p)
  <2> DEFINE s == p.reads[c]
             u == q.reads[c]
  <2>1. u = Tail(s) /\ s # <<>> /\ Head(s).wait = 0 BY <1>10 DEF Returning, Ready
  <2>2. s \in Seq(ReadType) BY <1>2
  <2> HIDE DEF s, u
  <2>3. /\ u \in Seq(ReadType) /\ Len(u) = Len(s) - 1 /\ Len(s) \in Nat \ {0}
        /\ \A i \in 1 .. Len(u) : u[i] = s[i + 1]
        /\ Head(s) = s[1] /\ 1 \in 1 .. Len(s)
    BY <2>1, <2>2, HeadTailProperties, EmptySeq
  <2>4. \A i \in 1 .. Len(u) : i + 1 \in 1 .. Len(s) /\ 1 < i + 1 /\ u[i] = s[i + 1] BY <2>3
  <2> DEFINE y == Tail(z)
  <2>5. /\ Len(z) = Len(s) /\ z # <<>>
        /\ \A i \in 1 .. Len(s) : s[i].bg = z[i].bg /\ s[i].burst.number = z[i].seq
    BY <1>5, <2>3 DEF s
  <2>6. /\ y \in Seq(Element) /\ Len(y) = Len(u) /\ Head(z) = z[1]
        /\ \A i \in 1 .. Len(u) : y[i] = z[i + 1]
    BY <2>3, <2>5, HeadTailProperties
  <2>7. \A i \in 1 .. Len(y) : u[i].bg = y[i].bg /\ u[i].burst.number = y[i].seq
    BY <2>4, <2>5, <2>6
  <2>8. Line(y, Home(c), ReadNow(p, R), AllAsked(q))
    <3> DEFINE B == Home(c)
               hi == AllAsked(p)
               mid == [b \in BG |-> IF b = Head(z).bg THEN R[b] + 1 ELSE R[b]]
    <3>1. AllAsked(p) \in [BG -> Nat]
      <4>1. ASSUME NEW b \in BG PROVE Asked(p.bg[b]) \in Nat BY <1>1, GroupNumbers DEF Groups
      <4> QED BY <4>1 DEF AllAsked
    <3>2. mid \in [BG -> Nat] /\ \A b \in BG : mid[b] = IF b = Head(z).bg THEN R[b] + 1 ELSE R[b]
      BY <1>1
    <3>3. /\ B \in SUBSET BG /\ z \in Seq(Element) /\ z # <<>> /\ R \in [BG -> Nat]
          /\ hi \in [BG -> Nat] /\ Line(z, B, R, hi)
      BY <1>1, <1>5, <2>5, <3>1, Homes
    <3>4. Head(z).bg = Head(p.reads[c]).bg BY <2>3, <2>5, <2>6 DEF s
    <3>5. \A b \in Home(c) : ReadNow(p, R)[b] = mid[b] BY <1>10, <3>3, <3>4, ReadAtHome
    <3> HIDE DEF B, hi, mid
    <3>6. Line(Tail(z), B, mid, hi) BY <3>2, <3>3, LineTail
    <3> HIDE DEF y
    <3>7. Line(y, B, mid, hi) BY <3>6 DEF y
    <3>8. \A b \in B : ReadNow(p, R)[b] = mid[b] /\ AllAsked(q)[b] = hi[b]
      BY <1>4, <3>5 DEF B, hi
    <3>9. Line(y, B, ReadNow(p, R), AllAsked(q)) BY <3>7, <3>8, LineSame
    <3> QED BY <3>9 DEF B
  <2> HIDE DEF y
  <2>9. ASSUME NEW i \in 1 .. Len(u)
        PROVE  /\ 1 <= u[i].wait /\ u[i].wait <= rhigh
               /\ q.bg[u[i].bg].resident[u[i].slot] = u[i].burst
    <3> DEFINE x == s[i + 1]
    <3>1. u[i] = x /\ i + 1 \in 1 .. Len(s) /\ 1 < i + 1 BY <2>4
    <3>2. /\ x.wait \in Nat /\ x.bg \in Home(c) /\ x.bg \in BG /\ x.slot \in BufferSlot
          /\ x.wait <= rhigh /\ p.bg[x.bg].resident[x.slot] = x.burst
      BY <1>6, <1>7, <3>1 DEF s
    <3>3. s[1].wait = 0 /\ s[1].wait < x.wait BY <1>8, <2>1, <2>3, <3>1 DEF s
    <3>4. 1 <= x.wait BY <3>2, <3>3
    <3>5. x.slot \notin Freed(p, x.bg)
      <4> SUFFICES ASSUME x.slot \in Freed(p, x.bg) PROVE FALSE OBVIOUS
      <4>1. s[1].bg = x.bg /\ s[1].slot = x.slot
        <5> HIDE DEF x
        <5>1. c \in Ready(p) /\ x.bg = Head(s).bg /\ x.slot = Head(s).slot
          BY <3>2, ReadAtHome DEF s
        <5> QED BY <2>3, <5>1
      <4>2. p.bg[s[1].bg].resident[s[1].slot] = s[1].burst BY <1>7, <2>3 DEF s
      <4>3. s[1].burst.number = x.burst.number BY <3>2, <4>1, <4>2
      <4>4. z[1].bg = z[i + 1].bg /\ z[1].seq = z[i + 1].seq BY <2>3, <2>5, <3>1, <4>1, <4>3
      <4>5. z[1].seq < z[i + 1].seq BY <1>5, <2>3, <2>5, <3>1, <4>4 DEF Line
      <4>6. z[1].seq \in Nat
        <5>1. z[1] \in Element BY <2>3, <2>5, ElementOfSeq
        <5> QED BY <5>1 DEF Element
      <4> QED BY <4>4, <4>5, <4>6
    <3>6. q.bg[x.bg].resident[x.slot] = x.burst BY <1>3, <3>2, <3>5
    <3> HIDE DEF x
    <3> QED BY <3>1, <3>2, <3>4, <3>6
  <2>10. ASSUME NEW i \in 1 .. Len(u), NEW j \in 1 .. Len(u), i < j
         PROVE  u[i].wait < u[j].wait
    <3>1. i + 1 < j + 1 /\ i + 1 \in 1 .. Len(s) /\ j + 1 \in 1 .. Len(s) BY <2>3, <2>10
    <3>2. s[i + 1].wait < s[j + 1].wait BY <1>8, <3>1 DEF s
    <3> QED BY <2>4, <3>2
  <2>11. Len(u) <= MaxInflightReads /\ Len(s) = Len(u) + 1
    <3>1. Len(s) <= MaxInflightReads BY <1>1 DEF Reading, s
    <3> QED BY <1>2, <2>3, <3>1
  <2>12. Reading(q, c, 1, rhigh, ReadNow(p, R))
    BY <2>6, <2>7, <2>8, <2>9, <2>10, <2>11 DEF Reading, u
  <2> QED BY <1>10, <2>3, <2>11, <2>12 DEF s, u
<1> QED BY <1>9, <1>10

\* The reads that end, in the order of their channels.
Ends(p) == LET done == Increasing(Ready(p))
           IN  [i \in DOMAIN done |-> Head(p.reads[done[i]])]

\* They are of different bank groups.
LEMMA EndsFacts ==
  ASSUME NEW p, NEW d, NEW low, NEW high, NEW rlow, NEW rhigh, NEW R, NEW D,
         State(p, d, low, high, rlow, rhigh, R, D), NEW read, read = Ends(p)
  PROVE  /\ IsFiniteSet(Ready(p)) /\ Len(read) = Cardinality(Ready(p)) /\ Len(read) \in Nat
         /\ read \in Seq(ReadType)
         /\ \A i \in 1 .. Len(read) :
              LET t == read[i]
              IN  /\ t.bg \in BG /\ t.slot \in BufferSlot
                  /\ p.bg[t.bg].resident[t.slot] = t.burst /\ t.burst.number = R[t.bg] + 1
                  /\ R[t.bg] < Asked(p.bg[t.bg]) /\ p.bg[t.bg].reading[t.slot]
                  /\ t.burst = BurstOf(t.bg, R[t.bg] + 1, Sealed(p.bg[t.bg]))
         /\ \A i, j \in 1 .. Len(read) : read[i].bg = read[j].bg => i = j
         /\ \A b \in BG : \A k \in BufferSlot :
              k \in Freed(p, b) <=> \E i \in 1 .. Len(read) : read[i].bg = b /\ read[i].slot = k
         /\ \A b \in BG : (\E c \in Ready(p) : Head(p.reads[c]).bg = b)
                            <=> \E i \in 1 .. Len(read) : read[i].bg = b
<1> DEFINE S == Ready(p)
           done == Increasing(S)
           n == Cardinality(S)
<1>1. S \in SUBSET Nat /\ IsFiniteSet(S) /\ S \in SUBSET Channel
  <2>1. S \in SUBSET Channel BY DEF Ready
  <2> HIDE DEF S
  <2> QED BY <2>1, Homes, FS_Subset
<1>2. \A c \in S : p.reads[c] # <<>> BY DEF Ready
<1>3. read = [i \in DOMAIN done |-> Head(p.reads[done[i]])] BY DEF Ends
<1>4. \A b \in BG : \A k \in BufferSlot : k \in Freed(p, b) <=>
        \E c \in S : Head(p.reads[c]).bg = b /\ Head(p.reads[c]).slot = k
  BY DEF Freed
<1> HIDE DEF S
<1>5. /\ n \in Nat /\ done \in [1 .. n -> S]
      /\ \A i, j \in 1 .. n : done[i] = done[j] => i = j
      /\ \A c \in S : \E i \in 1 .. n : done[i] = c
  BY <1>1, IncreasingLists
<1> HIDE DEF done, n
<1>6. DOMAIN done = 1 .. n BY <1>5
<1>7. DOMAIN read = 1 .. n /\ \A i \in 1 .. n : read[i] = Head(p.reads[done[i]]) BY <1>3, <1>6
<1>8. ASSUME NEW i \in 1 .. n
      PROVE  LET t == read[i]
             IN  /\ t \in ReadType /\ t.bg \in Home(done[i])
                 /\ t.bg \in BG /\ t.slot \in BufferSlot
                 /\ p.bg[t.bg].resident[t.slot] = t.burst /\ t.burst.number = R[t.bg] + 1
                 /\ R[t.bg] < Asked(p.bg[t.bg]) /\ p.bg[t.bg].reading[t.slot]
                 /\ t.burst = BurstOf(t.bg, R[t.bg] + 1, Sealed(p.bg[t.bg]))
  <2> DEFINE t == read[i]
             c == done[i]
  <2>1. c \in Channel /\ p.reads[c] # <<>> /\ t = Head(p.reads[c]) BY <1>1, <1>2, <1>5, <1>7
  <2> HIDE DEF t, c
  <2>2. State(p, d, low, high, rlow, rhigh, R, D) OBVIOUS
  <2>3. /\ t \in ReadType /\ t.bg \in Home(c) /\ t.bg \in BG /\ t.slot \in BufferSlot
        /\ p.bg[t.bg].resident[t.slot] = t.burst
    BY <2>1, <2>2, OldestRead
  <2>4. t.burst.number = R[t.bg] + 1 /\ R[t.bg] < Asked(p.bg[t.bg]) BY <2>1, <2>2, OldestRead
  <2>5. p.bg[t.bg].reading[t.slot] BY <2>1, <2>2, OldestRead
  <2>6. t.burst = BurstOf(t.bg, R[t.bg] + 1, Sealed(p.bg[t.bg])) BY <2>1, <2>2, OldestRead
  <2> QED BY <2>3, <2>4, <2>5, <2>6 DEF t, c
<1>9. read \in Seq(ReadType) /\ Len(read) = n
  <2>1. read = [i \in 1 .. n |-> read[i]] BY <1>3, <1>7
  <2>2. \A i \in 1 .. n : read[i] \in ReadType BY <1>8
  <2>3. read \in [1 .. n -> ReadType] BY <2>1, <2>2
  <2> QED BY <1>5, <2>3
<1>10. ASSUME NEW i \in 1 .. n, NEW j \in 1 .. n, read[i].bg = read[j].bg PROVE i = j
  <2>1. read[i].bg \in Home(done[i]) /\ read[i].bg \in Home(done[j]) BY <1>8, <1>10
  <2>2. done[i] \in Channel /\ done[j] \in Channel BY <1>1, <1>5
  <2>3. done[i] = done[j] BY <2>1, <2>2, Homes
  <2> QED BY <1>5, <2>3
<1>11. \A b, k : (\E c \in S : Head(p.reads[c]).bg = b /\ Head(p.reads[c]).slot = k)
                   <=> \E i \in 1 .. n : read[i].bg = b /\ read[i].slot = k
  BY <1>5, <1>7
<1>12. \A b : (\E c \in S : Head(p.reads[c]).bg = b) <=> \E i \in 1 .. n : read[i].bg = b
  BY <1>5, <1>7
<1>13. /\ \A b \in BG : \A k \in BufferSlot :
            k \in Freed(p, b) <=> \E i \in 1 .. n : read[i].bg = b /\ read[i].slot = k
       /\ \A b \in BG : (\E c \in S : Head(p.reads[c]).bg = b)
                          <=> \E i \in 1 .. n : read[i].bg = b
  BY <1>4, <1>11, <1>12
<1> QED BY <1>1, <1>5, <1>8, <1>9, <1>10, <1>13 DEF S, n

\* The bursts read after this cycle's reads have returned.
LEMMA ReadNowFacts ==
  ASSUME NEW p, NEW d, NEW low, NEW high, NEW rlow, NEW rhigh, NEW R, NEW D,
         State(p, d, low, high, rlow, rhigh, R, D), NEW read, read = Ends(p)
  PROVE  /\ ReadNow(p, R) \in [BG -> Nat]
         /\ \A b \in BG : R[b] <= ReadNow(p, R)[b]
         /\ \A i \in 1 .. Len(read) : ReadNow(p, R)[read[i].bg] = R[read[i].bg] + 1
         /\ \A b \in BG : (\A i \in 1 .. Len(read) : read[i].bg # b) => ReadNow(p, R)[b] = R[b]
         /\ Total(ReadNow(p, R)) = Total(R) + Len(read)
<1> DEFINE S == ReadNow(p, R)
           n == Len(read)
           T == {b \in BG : \E i \in 1 .. n : read[i].bg = b}
           h == [i \in 1 .. n |-> read[i].bg]
<1>1. R \in [BG -> Nat] BY DEF State
<1>2. /\ n \in Nat /\ (\A i \in 1 .. n : read[i].bg \in BG)
      /\ (\A i, j \in 1 .. n : read[i].bg = read[j].bg => i = j)
      /\ \A b \in BG : (\E c \in Ready(p) : Head(p.reads[c]).bg = b)
                            <=> \E i \in 1 .. n : read[i].bg = b
  BY EndsFacts
<1>3. S = [b \in BG |-> R[b] + IF b \in T THEN 1 ELSE 0] BY <1>2 DEF ReadNow
<1> HIDE DEF S
<1>4. /\ \A b \in T : S[b] = R[b] + 1
      /\ \A b \in BG \ T : S[b] = R[b]
  BY <1>1, <1>3
<1>5. S \in [BG -> Nat]
  <2>1. \A b \in BG : S[b] \in Nat BY <1>1, <1>4
  <2> QED BY <1>3, <2>1
<1>6. Cardinality(T) = n
  <2>1. IsFiniteSet(1 .. n) /\ Cardinality(1 .. n) = n
    <3> HIDE DEF n
    <3>1. 1 \in Int /\ n \in Int /\ n \in Nat BY <1>2
    <3> QED BY <3>1, FS_Interval
  <2>2. /\ h \in [1 .. n -> T] /\ (\A x, y \in 1 .. n : h[x] = h[y] => x = y)
        /\ \A b \in T : \E x \in 1 .. n : h[x] = b
    BY <1>2
  <2> HIDE DEF h, T, n
  <2> QED BY <2>1, <2>2, SameSize
<1>7. IsFiniteSet(BG) /\ T \in SUBSET BG BY Homes
<1>8. Total(S) = Total(R) + n
  <2> HIDE DEF T, n
  <2>1. Total(S) = Total(R) + Cardinality(T) BY <1>1, <1>4, <1>5, <1>7, TotalStep
  <2> QED BY <1>6, <2>1
<1>9. \A b \in BG : R[b] <= S[b] BY <1>1, <1>4
<1>10. (\A i \in 1 .. n : read[i].bg \in T)
       /\ \A b \in BG : (\A i \in 1 .. n : read[i].bg # b) => b \in BG \ T
  BY <1>2
<1> QED BY <1>4, <1>5, <1>8, <1>9, <1>10 DEF S

\* Their bursts go behind those returned before.
LEMMA EndsLine ==
  ASSUME NEW p, NEW d, NEW low, NEW high, NEW rlow, NEW rhigh, NEW R, NEW D,
         State(p, d, low, high, rlow, rhigh, R, D), NEW read, read = Ends(p),
         NEW z \in Seq(Element), Len(z) = Len(read),
         \A i \in 1 .. Len(z) : z[i].bg = read[i].bg /\ z[i].seq = R[read[i].bg] + 1
  PROVE  Line(z, BG, R, ReadNow(p, R))
<1> DEFINE n == Len(z)
           S == ReadNow(p, R)
<1>1. R \in [BG -> Nat] BY DEF State
<1>2. /\ n \in Nat /\ (\A i \in 1 .. n : read[i].bg \in BG)
      /\ (\A i, j \in 1 .. n : read[i].bg = read[j].bg => i = j)
  BY EndsFacts
<1>3. /\ S \in [BG -> Nat] /\ (\A i \in 1 .. n : S[read[i].bg] = R[read[i].bg] + 1)
      /\ \A b \in BG : (\A i \in 1 .. n : read[i].bg # b) => S[b] = R[b]
  BY ReadNowFacts
<1>4. \A i \in 1 .. n : z[i].bg = read[i].bg /\ z[i].seq = R[read[i].bg] + 1 OBVIOUS
<1> HIDE DEF n, S
<1>5. \A i \in 1 .. n : /\ z[i].bg \in BG /\ z[i].seq = R[z[i].bg] + 1
                        /\ S[z[i].bg] = R[z[i].bg] + 1 /\ R[z[i].bg] \in Nat
  BY <1>1, <1>2, <1>3, <1>4
<1>6. \A i \in 1 .. n : z[i].bg \in BG /\ z[i].seq \in R[z[i].bg] + 1 .. S[z[i].bg]
  <2> SUFFICES ASSUME NEW i \in 1 .. n
               PROVE  z[i].bg \in BG /\ z[i].seq \in R[z[i].bg] + 1 .. S[z[i].bg]
    OBVIOUS
  <2> DEFINE r == R[z[i].bg]
  <2>1. r \in Nat /\ z[i].seq = r + 1 /\ S[z[i].bg] = r + 1 /\ z[i].bg \in BG BY <1>5
  <2> HIDE DEF r
  <2>2. z[i].seq \in r + 1 .. S[z[i].bg] BY <2>1
  <2> QED BY <2>1, <2>2 DEF r
<1>7. \A i, j \in 1 .. n : i < j /\ z[i].bg = z[j].bg => z[i].seq < z[j].seq
  <2>1. \A i, j \in 1 .. n : z[i].bg = z[j].bg => i = j BY <1>2, <1>4
  <2>2. \A i, j \in 1 .. n : i < j => i # j OBVIOUS
  <2> QED BY <2>1, <2>2
<1>8. ASSUME NEW b \in BG, NEW m \in R[b] + 1 .. S[b]
      PROVE  \E i \in 1 .. n : z[i].bg = b /\ z[i].seq = m
  <2>1. R[b] \in Nat /\ S[b] # R[b] BY <1>1, <1>3
  <2>2. PICK i \in 1 .. n : read[i].bg = b BY <1>3, <2>1
  <2>3. z[i].bg = b /\ z[i].seq = R[b] + 1 /\ S[b] = R[b] + 1 BY <1>4, <1>5, <2>2
  <2>4. m = R[b] + 1 BY <2>1, <2>3
  <2> QED BY <2>3, <2>4
<1> QED BY <1>6, <1>7, <1>8 DEF Line, n, S

\* The return queue after this cycle's reads have returned.
LEMMA EndsReturned ==
  ASSUME NEW p, NEW d, NEW low, NEW high, NEW rlow, NEW rhigh, NEW R, NEW D,
         State(p, d, low, high, rlow, rhigh, R, D), NEW read, read = Ends(p),
         NEW q, q.returned = p.returned \o [i \in 1 .. Len(read) |-> read[i].burst],
         \A b \in BG : Sealed(q.bg[b]) = Sealed(p.bg[b])
  PROVE  /\ Returned(q, ReadNow(p, R), D) /\ q.returned \in Seq(BurstType)
         /\ Len(q.returned) = Len(p.returned) + Len(read)
         /\ p.returned # <<>> => q.returned # <<>>
<1> DEFINE n == Len(read)
           S == ReadNow(p, R)
           y == [i \in 1 .. Len(read) |-> [bg |-> read[i].bg, seq |-> R[read[i].bg] + 1]]
           s == p.returned
           t == [i \in 1 .. Len(read) |-> read[i].burst]
           u == q.returned
<1>1. p \in PathType /\ R \in [BG -> Nat] /\ D \in [BG -> Nat] /\ Host(p, R, D) BY DEF State
<1>2. s \in Seq(BurstType) /\ Len(s) \in Nat BY <1>1, PathFields
<1>4. S \in [BG -> Nat] /\ \A b \in BG : R[b] <= S[b] BY ReadNowFacts
<1>5. n \in Nat /\ read \in Seq(ReadType) BY EndsFacts
<1>6. \A i \in 1 .. n : /\ read[i] \in ReadType /\ read[i].burst \in BurstType
                        /\ read[i].bg \in BG
                        /\ read[i].burst = BurstOf(read[i].bg, R[read[i].bg] + 1,
                                                   Sealed(p.bg[read[i].bg]))
  <2>1. \A i \in 1 .. n : read[i] \in ReadType BY <1>5, ElementOfSeq
  <2>2. \A i \in 1 .. n : read[i].burst \in BurstType BY <2>1 DEF ReadType
  <2>3. \A i \in 1 .. n : read[i].bg \in BG /\
          read[i].burst = BurstOf(read[i].bg, R[read[i].bg] + 1, Sealed(p.bg[read[i].bg]))
    BY EndsFacts
  <2> QED BY <2>1, <2>2, <2>3
<1>3. y \in Seq(Element) /\ Len(y) = n /\ Line(y, BG, R, S)
  <2>1. \A i \in 1 .. n : y[i] = [bg |-> read[i].bg, seq |-> R[read[i].bg] + 1] OBVIOUS
  <2>2. \A i \in 1 .. n : R[read[i].bg] + 1 \in Nat
    <3> SUFFICES ASSUME NEW i \in 1 .. n PROVE R[read[i].bg] + 1 \in Nat OBVIOUS
    <3>1. R[read[i].bg] \in Nat BY <1>1, <1>6
    <3> QED BY <3>1
  <2>3. y \in [1 .. n -> Element] BY <1>6, <2>2 DEF Element
  <2>4. State(p, d, low, high, rlow, rhigh, R, D) OBVIOUS
  <2> HIDE DEF y, n
  <2>5. y \in Seq(Element) /\ Len(y) = n BY <1>5, <2>3
  <2>6. Len(y) = Len(read) BY <2>5 DEF n
  <2>7. \A i \in 1 .. Len(y) : y[i].bg = read[i].bg /\ y[i].seq = R[read[i].bg] + 1
    BY <2>1, <2>5
  <2>8. Line(y, BG, R, ReadNow(p, R)) BY <2>4, <2>5, <2>6, <2>7, EndsLine
  <2> QED BY <2>5, <2>8
<1>7. t \in Seq(BurstType) /\ Len(t) = n /\ \A i \in 1 .. n : t[i] = read[i].burst
  <2>1. t \in [1 .. n -> BurstType] BY <1>6
  <2>2. \A i \in 1 .. n : t[i] = read[i].burst OBVIOUS
  <2> HIDE DEF t, n
  <2> QED BY <1>5, <2>1, <2>2
<1>8. \A i \in 1 .. n : y[i].bg = read[i].bg /\ y[i].seq = R[read[i].bg] + 1 OBVIOUS
<1>9. PICK z \in Seq(Element) :
        /\ Len(z) = Len(s) /\ Line(z, BG, D, R)
        /\ \A i \in 1 .. Len(z) : s[i] = BurstOf(z[i].bg, z[i].seq, Sealed(p.bg[z[i].bg]))
  BY <1>1 DEF Host, Returned
<1>10. u = s \o t OBVIOUS
<1> HIDE DEF n, S, y, s, t, u
<1>11. /\ u \in Seq(BurstType) /\ Len(u) = Len(s) + n
       /\ \A i \in 1 .. Len(u) : u[i] = IF i <= Len(s) THEN s[i] ELSE t[i - Len(s)]
  BY <1>2, <1>7, <1>10, ConcatProperties
<1> DEFINE w == z \o y
<1>17. w = z \o y OBVIOUS
<1> HIDE DEF w
<1>12. /\ w \in Seq(Element) /\ Len(w) = Len(s) + n
       /\ \A i \in 1 .. Len(w) : w[i] = IF i <= Len(s) THEN z[i] ELSE y[i - Len(s)]
  BY <1>3, <1>9, <1>17, ConcatProperties
<1>13. Line(w, BG, D, S)
  <2> DEFINE B == BG
  <2>1. B \in SUBSET BG /\ (\A b \in B : D[b] <= R[b] /\ R[b] <= S[b])
        /\ Line(z, B, D, R) /\ Line(y, B, R, S)
    BY <1>1, <1>3, <1>4, <1>9 DEF Host
  <2> HIDE DEF B
  <2>2. Line(z \o y, B, D, S) BY <1>1, <1>3, <1>4, <1>9, <2>1, LineConcat
  <2> QED BY <1>17, <2>2 DEF B
<1>14. ASSUME NEW i \in 1 .. Len(w)
       PROVE  u[i] = BurstOf(w[i].bg, w[i].seq, Sealed(q.bg[w[i].bg]))
  <2>1. CASE i <= Len(s)
    <3>1. u[i] = s[i] /\ w[i] = z[i] /\ i \in 1 .. Len(z) BY <1>2, <1>9, <1>11, <1>12, <2>1
    <3>2. z[i].bg \in BG BY <1>9, <3>1 DEF Line
    <3> QED BY <1>9, <3>1, <3>2
  <2>2. CASE ~(i <= Len(s))
    <3> DEFINE j == i - Len(s)
    <3>1. j \in 1 .. n /\ u[i] = t[j] /\ w[i] = y[j]
      <4>1. i \in 1 .. Len(s) + n BY <1>12
      <4>2. i \in 1 .. Len(u) /\ i \in 1 .. Len(w) BY <1>11, <1>12, <4>1
      <4>3. u[i] = t[j] /\ w[i] = y[j] BY <1>11, <1>12, <2>2, <4>2
      <4>4. i - Len(s) \in 1 .. n BY <1>2, <1>5, <2>2, <4>1
      <4> QED BY <4>3, <4>4
    <3> HIDE DEF j
    <3>2. /\ u[i] = BurstOf(read[j].bg, R[read[j].bg] + 1, Sealed(p.bg[read[j].bg]))
          /\ y[j].bg = read[j].bg /\ y[j].seq = R[read[j].bg] + 1 /\ read[j].bg \in BG
      BY <1>6, <1>7, <1>8, <3>1
    <3>3. Sealed(q.bg[read[j].bg]) = Sealed(p.bg[read[j].bg]) BY <3>2
    <3> QED BY <3>1, <3>2, <3>3
  <2> QED BY <2>1, <2>2
<1>15. Returned(q, S, D) BY <1>11, <1>12, <1>13, <1>14 DEF Returned, u
<1>16. s # <<>> => u # <<>> BY <1>2, <1>5, <1>11
<1> QED BY <1>11, <1>15, <1>16 DEF S, n, s, u

\* And so many records have been read.
LEMMA EndsRecords ==
  ASSUME NEW p, NEW d, NEW low, NEW high, NEW rlow, NEW rhigh, NEW R, NEW D,
         State(p, d, low, high, rlow, rhigh, R, D), NEW read, read = Ends(p)
  PROVE  LET more == [i \in 1 .. Len(read) |-> Len(read[i].burst.records)]
         IN  /\ Total(Records(p, ReadNow(p, R))) = Total(Records(p, R)) + Total(more)
             /\ Total(more) \in Nat
<1> DEFINE n == Len(read)
           S == ReadNow(p, R)
           more == [i \in 1 .. n |-> Len(read[i].burst.records)]
           f == Records(p, R)
           h == Records(p, S)
           g == [b \in BG |-> IF \E i \in 1 .. n : read[i].bg = b
                              THEN Size(R[b] + 1, Sealed(p.bg[b])) ELSE 0]
           bg == [i \in 1 .. n |-> read[i].bg]
<1>1. R \in [BG -> Nat] /\ Groups(p, d, low, high, R) BY DEF State
<1>2. /\ n \in Nat /\ (\A i \in 1 .. n : read[i].bg \in BG)
      /\ (\A i, j \in 1 .. n : read[i].bg = read[j].bg => i = j)
      /\ \A i \in 1 .. n : R[read[i].bg] < Asked(p.bg[read[i].bg]) /\
           read[i].burst = BurstOf(read[i].bg, R[read[i].bg] + 1, Sealed(p.bg[read[i].bg]))
  BY EndsFacts
<1>3. /\ S \in [BG -> Nat] /\ (\A i \in 1 .. n : S[read[i].bg] = R[read[i].bg] + 1)
      /\ \A b \in BG : (\A i \in 1 .. n : read[i].bg # b) => S[b] = R[b]
  BY ReadNowFacts
<1> HIDE DEF n, S
<1>4. f \in [BG -> Nat] /\ h \in [BG -> Nat] BY <1>1, <1>3, RecordsNumber
<1>5. ASSUME NEW b \in BG, R[b] < Asked(p.bg[b])
      PROVE  LET u == Sealed(p.bg[b])
                 m == R[b] + 1
             IN  /\ Size(m, u) \in Nat \ {0} /\ InFirst(m, u) = InFirst(R[b], u) + Size(m, u)
                 /\ Len(BurstOf(b, m, u).records) = Size(m, u)
  <2> DEFINE u == Sealed(p.bg[b])
             m == R[b] + 1
             k == Asked(p.bg[b])
             l == Written(p.bg[b])
             v == Bursts(p.bg[b])
  <2>1. u \in Nat /\ (\A x \in 1 .. v : IsBurst(x, u)) /\ R[b] \in Nat /\ k \in Nat /\ l \in Nat
        /\ v \in Nat /\ k <= l /\ l <= v
    BY <1>1, GroupNumbers DEF Groups
  <2>2. R[b] < k BY <1>5
  <2> HIDE DEF u, k, l, v
  <2>3. m \in 1 .. v /\ m - 1 = R[b] BY <2>1, <2>2
  <2> HIDE DEF m
  <2>4. IsBurst(m, u) BY <2>1, <2>3
  <2>5. /\ Before(m) \in Nat /\ InFirst(m - 1, u) = Before(m)
        /\ Size(m, u) \in 1 .. RecordsPerBurst /\ InFirst(m, u) = Before(m) + Size(m, u)
        /\ Len(BurstOf(b, m, u).records) = Size(m, u)
    BY <2>1, <2>4, BurstFacts
  <2>6. Size(m, u) \in Nat \ {0} BY <2>5, Config
  <2> QED BY <2>3, <2>5, <2>6 DEF u, m
<1>6. ASSUME NEW i \in 1 .. n
      PROVE  /\ more[i] = g[read[i].bg] /\ more[i] \in Nat
             /\ g[read[i].bg] \in Nat /\ h[read[i].bg] = f[read[i].bg] + g[read[i].bg]
  <2> DEFINE b == read[i].bg
             u == Sealed(p.bg[b])
             m == R[b] + 1
  <2>1. b \in BG /\ R[b] < Asked(p.bg[b]) /\ read[i].burst = BurstOf(b, m, u) /\ S[b] = m
    BY <1>2, <1>3
  <2>2. /\ Size(m, u) \in Nat \ {0} /\ InFirst(m, u) = InFirst(R[b], u) + Size(m, u)
        /\ Len(BurstOf(b, m, u).records) = Size(m, u)
    BY <1>5, <2>1
  <2>3. g[b] = Size(m, u) BY <2>1
  <2>4. more[i] = Len(read[i].burst.records) OBVIOUS
  <2>5. f[b] = InFirst(R[b], u) /\ h[b] = InFirst(m, u) BY <2>1 DEF Records
  <2> HIDE DEF b, u, m, g, f, h, more
  <2>6. more[i] = g[b] /\ g[b] \in Nat /\ h[b] = f[b] + g[b] BY <2>1, <2>2, <2>3, <2>4, <2>5
  <2> QED BY <2>6 DEF b
<1>7. ASSUME NEW b \in BG, \A i \in 1 .. n : read[i].bg # b
      PROVE  g[b] = 0 /\ h[b] = f[b]
  <2>1. S[b] = R[b] BY <1>3, <1>7
  <2> QED BY <1>7, <2>1 DEF Records
<1>8. \A b \in BG : g[b] \in Nat /\ h[b] = f[b] + g[b]
  <2> SUFFICES ASSUME NEW b \in BG PROVE g[b] \in Nat /\ h[b] = f[b] + g[b] OBVIOUS
  <2>1. CASE \E i \in 1 .. n : read[i].bg = b
    <3>1. PICK i \in 1 .. n : read[i].bg = b BY <2>1
    <3> HIDE DEF g, f, h
    <3> QED BY <1>6, <3>1
  <2>2. CASE \A i \in 1 .. n : read[i].bg # b
    <3>1. g[b] = 0 /\ h[b] = f[b] BY <1>7, <2>2
    <3> HIDE DEF g, f, h
    <3> QED BY <1>4, <3>1
  <2> QED BY <2>1, <2>2
<1>9. g \in [BG -> Nat] /\ more \in [1 .. n -> Nat] /\ bg \in [1 .. n -> BG]
      /\ \A i \in 1 .. n : bg[i] = read[i].bg
  <2>1. (\A b \in BG : g[b] \in Nat) /\ (\A i \in 1 .. n : more[i] \in Nat) BY <1>6, <1>8
  <2> QED BY <1>2, <2>1
<1>10. IsFiniteSet(1 .. n) /\ IsFiniteSet(BG)
  <2>1. 1 \in Int /\ n \in Int BY <1>2
  <2> QED BY <2>1, FS_Interval, Homes
<1> HIDE DEF f, g, h, more, bg
<1>11. Total(h) = Total(f) + Total(g)
  <2> DEFINE B == BG
  <2>1. /\ IsFiniteSet(B) /\ f \in [B -> Nat] /\ g \in [B -> Nat] /\ h \in [B -> Nat]
        /\ \A b \in B : h[b] = f[b] + g[b]
    BY <1>4, <1>8, <1>9, <1>10
  <2> HIDE DEF B
  <2> QED BY <2>1, TotalSum
<1>12. Total(g) = Total(more)
  <2>1. /\ \A i, j \in 1 .. n : bg[i] = bg[j] => i = j
        /\ \A i \in 1 .. n : g[bg[i]] = more[i]
    BY <1>2, <1>6, <1>9
  <2>2. \A b \in BG : g[b] # 0 => \E i \in 1 .. n : bg[i] = b BY <1>7, <1>9
  <2> DEFINE B == BG
             I == 1 .. n
  <2>3. /\ IsFiniteSet(I) /\ more \in [I -> Nat] /\ g \in [B -> Nat] /\ bg \in [I -> B]
        /\ (\A i, j \in I : bg[i] = bg[j] => i = j) /\ (\A i \in I : g[bg[i]] = more[i])
        /\ \A b \in B : g[b] # 0 => \E i \in I : bg[i] = b
    BY <1>9, <1>10, <2>1, <2>2
  <2> HIDE DEF B, I
  <2> QED BY <2>3, TotalRename
<1>13. Total(more) \in Nat BY <1>9, <1>10, TotalType
<1> QED BY <1>11, <1>12, <1>13 DEF f, h, more, n, S

\* CompleteReads: no check fails, and the returned bursts keep their order.
LEMMA CompleteReadsKeeps ==
  ASSUME NEW p, NEW d, NEW low, NEW high, NEW rhigh, NEW R, NEW D,
         State(p, d, low, high, 0, rhigh, R, D), NEW q, q = CompleteReads(p)
  PROVE  /\ \E S : State(q, d, low, high, 1, rhigh, S, D)
         /\ SameDelivery(p, q) /\ (p.returned # <<>> => q.returned # <<>>)
<1>1. /\ p \in PathType /\ R \in [BG -> Nat] /\ D \in [BG -> Nat]
      /\ Groups(p, d, low, high, R) /\ (\A c \in Channel : Reading(p, c, 0, rhigh, R))
      /\ Host(p, R, D) /\ CountsHold(p, R, D) /\ Flags(p, R, D)
  BY DEF State
<1>2. /\ p.reads \in [Channel -> Seq(ReadType)] /\ p.returned \in Seq(BurstType)
      /\ p.reservedReturn \in Nat /\ Len(p.returned) \in Nat /\ p.counts \in CountsType
      /\ p.counts.readsDone \in Nat /\ p.counts.readRecords \in Nat
      /\ \A c \in Channel : Len(p.reads[c]) \in Nat
  BY <1>1, PathFields
<1> DEFINE done == Increasing(Ready(p))
           read == Ends(p)
           S == ReadNow(p, R)
           n == Len(read)
           more == [i \in 1 .. Len(read) |-> Len(read[i].burst.records)]
           bursts == [i \in 1 .. Len(read) |-> read[i].burst]
           here(b) == {read[i].slot : i \in {j \in DOMAIN read : read[j].bg = b}}
           groups == [b \in BG |-> Ended(p, b)]
           reads == [c \in Channel |-> IF c \in Ready(p) THEN Tail(p.reads[c]) ELSE p.reads[c]]
           counts == [p.counts EXCEPT !.readsDone = p.counts.readsDone + n,
                                      !.readRecords = p.counts.readRecords + Total(more)]
<1>3. /\ IsFiniteSet(Ready(p)) /\ n = Cardinality(Ready(p)) /\ n \in Nat
      /\ read \in Seq(ReadType) /\ DOMAIN read = 1 .. n
  BY EndsFacts
<1>4. \A i \in 1 .. n : /\ read[i].bg \in BG /\ read[i].slot \in BufferSlot
                        /\ p.bg[read[i].bg].resident[read[i].slot] = read[i].burst
                        /\ p.bg[read[i].bg].reading[read[i].slot]
  BY EndsFacts
<1>5. ASSUME NEW b \in BG PROVE \A k \in BufferSlot : k \in here(b) <=> k \in Freed(p, b)
  <2>1. \A k \in BufferSlot :
          k \in Freed(p, b) <=> \E i \in 1 .. n : read[i].bg = b /\ read[i].slot = k
    BY EndsFacts
  <2>2. \A k : k \in here(b) <=> \E i \in 1 .. n : read[i].bg = b /\ read[i].slot = k BY <1>3
  <2> QED BY <2>1, <2>2
<1>6. \A b \in BG :
        [p.bg[b] EXCEPT
           !.resident = [k \in BufferSlot |-> IF k \in here(b) THEN NoBurst ELSE p.bg[b].resident[k]],
           !.reading = [k \in BufferSlot |-> p.bg[b].reading[k] /\ k \notin here(b)]] = Ended(p, b)
  <2> SUFFICES ASSUME NEW b \in BG
               PROVE  /\ [k \in BufferSlot |-> IF k \in here(b) THEN NoBurst ELSE p.bg[b].resident[k]]
                       = [k \in BufferSlot |-> IF k \in Freed(p, b) THEN NoBurst ELSE p.bg[b].resident[k]]
                      /\ [k \in BufferSlot |-> p.bg[b].reading[k] /\ k \notin here(b)]
                       = [k \in BufferSlot |-> p.bg[b].reading[k] /\ k \notin Freed(p, b)]
    BY DEF Ended
  <2>1. \A k \in BufferSlot : k \in here(b) <=> k \in Freed(p, b) BY <1>5
  <2> HIDE DEF here
  <2>2. [k \in BufferSlot |-> IF k \in here(b) THEN NoBurst ELSE p.bg[b].resident[k]]
          = [k \in BufferSlot |-> IF k \in Freed(p, b) THEN NoBurst ELSE p.bg[b].resident[k]]
    BY <2>1
  <2>3. [k \in BufferSlot |-> p.bg[b].reading[k] /\ k \notin here(b)]
          = [k \in BufferSlot |-> p.bg[b].reading[k] /\ k \notin Freed(p, b)]
    BY <2>1, Zenon
  <2> QED BY <2>2, <2>3
\* Nothing is lost: the reads under way have their places reserved.
<1>7. n <= p.reservedReturn
  <2> DEFINE f == Lengths(p)
             h == [c \in Channel |-> IF c \in Ready(p) THEN f[c] - 1 ELSE f[c]]
             T == Ready(p)
  <2>1. f \in [Channel -> Nat] /\ \A c \in Channel : f[c] = Len(p.reads[c]) BY <1>2 DEF Lengths
  <2>2. T \in SUBSET Channel /\ \A c \in T : p.reads[c] # <<>> BY DEF Ready
  <2>3. \A c \in T : f[c] \in Nat \ {0} BY <1>2, <2>1, <2>2, EmptySeq
  <2>4. (\A c \in T : h[c] \in Nat /\ f[c] = h[c] + 1)
        /\ \A c \in Channel \ T : h[c] = f[c] /\ f[c] = h[c]
    BY <2>1, <2>2, <2>3
  <2>5. h \in [Channel -> Nat]
    <3>1. \A c \in Channel : h[c] \in Nat BY <2>1, <2>4
    <3> HIDE DEF f, T
    <3> QED BY <3>1
  <2>6. IsFiniteSet(Channel) BY Homes
  <2>7. p.reservedReturn = Total(f) BY <1>1 DEF Host
  <2>8. n = Cardinality(T) BY <1>3
  <2> HIDE DEF f, h, T, n
  <2>9. Total(f) = Total(h) + Cardinality(T) /\ Total(h) \in Nat
    BY <2>1, <2>2, <2>4, <2>5, <2>6, TotalStep, TotalType
  <2> QED BY <1>3, <2>7, <2>8, <2>9
<1>8. Len(p.returned) + n <= ReturnQueueCapacity
  <2>1. Len(p.returned) + p.reservedReturn <= ReturnQueueCapacity BY <1>1 DEF Host
  <2> HIDE DEF n
  <2> QED BY <1>2, <1>3, <1>7, <2>1, Config
<1>9. q = [p EXCEPT !.returned = p.returned \o bursts,
                    !.reservedReturn = p.reservedReturn - n, !.reads = reads,
                    !.bg = groups, !.counts = counts]
  <2> DEFINE ready == {c \in Channel : ~p.error /\ p.reads[c] # <<>> /\ Head(p.reads[c]).wait = 0}
             rd == [i \in DOMAIN Increasing(ready) |-> Head(p.reads[Increasing(ready)[i]])]
             at(b) == {rd[i].slot : i \in {j \in DOMAIN rd : rd[j].bg = b}}
             lost == \/ \E i \in DOMAIN rd :
                          \/ p.bg[rd[i].bg].resident[rd[i].slot].number # rd[i].burst.number
                          \/ ~p.bg[rd[i].bg].reading[rd[i].slot]
                     \/ p.reservedReturn < Len(rd)
                     \/ Len(p.returned) + Len(rd) > ReturnQueueCapacity
             bg2 == [b \in BG |-> [p.bg[b] EXCEPT
                       !.resident = [k \in BufferSlot |-> IF k \in at(b) THEN NoBurst
                                                           ELSE p.bg[b].resident[k]],
                       !.reading = [k \in BufferSlot |-> p.bg[b].reading[k] /\ k \notin at(b)]]]
             back == p.returned \o [i \in DOMAIN rd |-> rd[i].burst]
             reads2 == [c \in Channel |-> IF c \in ready THEN Tail(p.reads[c]) ELSE p.reads[c]]
             total == Total([i \in DOMAIN rd |-> Len(rd[i].burst.records)])
  <2>1. q = IF lost THEN Fail(p)
            ELSE [p EXCEPT !.returned = back, !.reservedReturn = p.reservedReturn - Len(rd),
                           !.reads = reads2, !.bg = bg2,
                           !.counts.readsDone = p.counts.readsDone + Len(rd),
                           !.counts.readRecords = p.counts.readRecords + total]
    BY DEF CompleteReads
  <2>2. ready = Ready(p) /\ rd = read
    <3>1. ~p.error BY <1>1 DEF Flags
    <3>2. ready = Ready(p) BY <3>1 DEF Ready
    <3> HIDE DEF ready
    <3> QED BY <3>2 DEF Ends
  <2>3. DOMAIN rd = 1 .. n /\ Len(rd) = n BY <1>3, <2>2
  <2>4. ~lost
    <3> HIDE DEF rd, read, n
    <3>1. ~ \E i \in DOMAIN rd :
             \/ p.bg[rd[i].bg].resident[rd[i].slot].number # rd[i].burst.number
             \/ ~p.bg[rd[i].bg].reading[rd[i].slot]
      BY <1>4, <2>2, <2>3
    <3>2. ~(p.reservedReturn < n) /\ ~(Len(p.returned) + n > ReturnQueueCapacity)
      BY <1>2, <1>3, <1>7, <1>8, Config
    <3> QED BY <2>3, <3>1, <3>2
  <2>5. back = p.returned \o bursts /\ total = Total(more)
    <3> HIDE DEF rd, read, n
    <3>1. [i \in DOMAIN rd |-> rd[i].burst] = bursts
          /\ [i \in DOMAIN rd |-> Len(rd[i].burst.records)] = more
      BY <2>2, <2>3 DEF n
    <3> QED BY <3>1
  <2>6. reads2 = reads BY <2>2
  <2>7. bg2 = groups
    <3>1. \A b : at(b) = here(b)
      <4> HIDE DEF rd, read
      <4> QED BY <2>2
    <3> HIDE DEF at, here
    <3> QED BY <1>6, <3>1
  <2> HIDE DEF lost, back, total, reads2, bg2, rd, ready, groups, reads, bursts, n, more
  <2>8. q = [p EXCEPT !.returned = back, !.reservedReturn = p.reservedReturn - n,
                      !.reads = reads2, !.bg = bg2,
                      !.counts.readsDone = p.counts.readsDone + n,
                      !.counts.readRecords = p.counts.readRecords + total]
    BY <2>1, <2>3, <2>4
  <2>9. q = [p EXCEPT !.returned = back, !.reservedReturn = p.reservedReturn - n,
                      !.reads = reads2, !.bg = bg2, !.counts = counts]
    BY <1>1, <2>5, <2>8 DEF PathType
  <2> QED BY <2>5, <2>6, <2>7, <2>9
<1>10. S \in [BG -> Nat] /\ Total(S) = Total(R) + n /\ \A b \in BG : R[b] <= S[b]
  BY ReadNowFacts
<1>11. Total(Records(p, S)) = Total(Records(p, R)) + Total(more) /\ Total(more) \in Nat
  BY EndsRecords
<1>12. /\ counts \in CountsType
       /\ counts.generated = p.counts.generated /\ counts.bursts = p.counts.bursts
       /\ counts.written = p.counts.written /\ counts.readsIssued = p.counts.readsIssued
       /\ counts.readsDone = p.counts.readsDone + n
       /\ counts.readRecords = p.counts.readRecords + Total(more)
       /\ counts.delivered = p.counts.delivered
       /\ counts.enqueued = p.counts.enqueued
       /\ counts.issued = p.counts.issued /\ counts.reduced = p.counts.reduced
  <2>1. p.counts.readsDone + n \in Nat /\ p.counts.readRecords + Total(more) \in Nat
    BY <1>2, <1>3, <1>11
  <2> HIDE DEF n, more
  <2> QED BY <1>2, <2>1 DEF CountsType
<1>13. p.reservedReturn - n \in Nat BY <1>2, <1>3, <1>7
<1>14. ASSUME NEW b \in BG
       PROVE  /\ groups[b] = Ended(p, b) /\ groups[b] \in GroupType
  <2>1. groups[b] = Ended(p, b) OBVIOUS
  <2> DEFINE h == groups[b]
  <2> HIDE DEF groups
  <2>2. h = Ended(p, b) BY <2>1
  <2> HIDE DEF h
  <2>3. Group(h, b, d[b], low, high, ReadNow(p, R)[b]) BY <2>2, ReadyGroup
  <2>4. h \in GroupType BY <2>3 DEF Group
  <2> QED BY <2>1, <2>4 DEF h
<1>15. groups \in [BG -> GroupType] BY <1>14
<1> HIDE DEF groups, counts, reads, read, n, bursts, S, more
<1>16. /\ q.bg = groups /\ q.reads = reads /\ q.returned = p.returned \o bursts
       /\ q.reservedReturn = p.reservedReturn - n /\ q.queue = p.queue /\ q.batch = p.batch
       /\ q.added = p.added /\ q.counts = counts /\ q.readbackStarted = p.readbackStarted
       /\ q.writebackDone = p.writebackDone /\ q.transportDone = p.transportDone
       /\ q.readbackDone = p.readbackDone
       /\ q.reductionDone = p.reductionDone /\ q.error = p.error
  BY <1>1, <1>9 DEF PathType
<1>17. Returning(p, q) BY <1>16 DEF Returning, groups, reads
<1>18. \A c \in Channel : /\ Reading(q, c, 1, rhigh, S) /\ q.reads[c] \in Seq(ReadType)
                          /\ (c \in Ready(p) => Len(p.reads[c]) = Len(q.reads[c]) + 1)
                          /\ (c \notin Ready(p) => q.reads[c] = p.reads[c])
  <2> SUFFICES ASSUME NEW c \in Channel
               PROVE  /\ Reading(q, c, 1, rhigh, S) /\ q.reads[c] \in Seq(ReadType)
                      /\ (c \in Ready(p) => Len(p.reads[c]) = Len(q.reads[c]) + 1)
                      /\ (c \notin Ready(p) => q.reads[c] = p.reads[c])
    OBVIOUS
  <2>1. State(p, d, low, high, 0, rhigh, R, D) OBVIOUS
  <2>2. Reading(q, c, 1, rhigh, S) BY <1>17, <2>1, ReadyReading DEF S
  <2>3. /\ q.reads[c] \in Seq(ReadType)
        /\ (c \in Ready(p) => Len(p.reads[c]) = Len(q.reads[c]) + 1)
        /\ (c \notin Ready(p) => q.reads[c] = p.reads[c])
    BY <1>17, <2>1, ReadyReading
  <2> QED BY <2>2, <2>3
<1>19. reads \in [Channel -> Seq(ReadType)]
  <2>1. reads = [c \in Channel |-> reads[c]] BY DEF reads
  <2> QED BY <1>16, <1>18, <2>1
<1>20. ASSUME NEW b \in BG
       PROVE  /\ Group(q.bg[b], b, d[b], low, high, S[b])
              /\ q.bg[b].packer = p.bg[b].packer /\ q.bg[b].pending = p.bg[b].pending
              /\ q.bg[b].inflight = p.bg[b].inflight
              /\ q.bg[b].nextBurst = p.bg[b].nextBurst
              /\ q.bg[b].nextRead = p.bg[b].nextRead
              /\ q.bg[b].lastOutput = p.bg[b].lastOutput
              /\ q.bg[b].lifecycle = p.bg[b].lifecycle
              /\ q.bg[b].tailFlushed = p.bg[b].tailFlushed
              /\ Written(q.bg[b]) = Written(p.bg[b]) /\ Sealed(q.bg[b]) = Sealed(p.bg[b])
  <2> DEFINE h == q.bg[b]
  <2>1. h = Ended(p, b) BY <1>14, <1>16
  <2> HIDE DEF h
  <2>2. /\ Group(h, b, d[b], low, high, S[b])
        /\ h.packer = p.bg[b].packer /\ h.pending = p.bg[b].pending
        /\ h.inflight = p.bg[b].inflight /\ h.nextBurst = p.bg[b].nextBurst
        /\ h.nextRead = p.bg[b].nextRead /\ h.lastOutput = p.bg[b].lastOutput
        /\ h.lifecycle = p.bg[b].lifecycle /\ h.tailFlushed = p.bg[b].tailFlushed
        /\ Written(h) = Written(p.bg[b])
    BY <2>1, ReadyGroup DEF S
  <2>3. Sealed(h) = Sealed(p.bg[b]) BY <2>2 DEF Sealed
  <2> QED BY <2>2, <2>3 DEF h
<1>21. /\ Returned(q, S, D) /\ q.returned \in Seq(BurstType)
       /\ Len(q.returned) = Len(p.returned) + n
       /\ p.returned # <<>> => q.returned # <<>>
  <2>1. q.returned = p.returned \o [i \in 1 .. Len(read) |-> read[i].burst] BY <1>16 DEF bursts
  <2>2. State(p, d, low, high, 0, rhigh, R, D) /\ read = Ends(p) BY DEF read
  <2>3. \A b \in BG : Sealed(q.bg[b]) = Sealed(p.bg[b]) BY <1>20
  <2>4. Returned(q, ReadNow(p, R), D) BY <2>1, <2>2, <2>3, EndsReturned
  <2>5. q.returned \in Seq(BurstType) /\ Len(q.returned) = Len(p.returned) + Len(read)
    BY <2>1, <2>2, <2>3, EndsReturned
  <2>6. p.returned # <<>> => q.returned # <<>> BY <2>1, <2>2, <2>3, EndsReturned
  <2> QED BY <2>4, <2>5, <2>6 DEF S, n
<1>22. q \in PathType BY <1>1, <1>9, <1>12, <1>13, <1>15, <1>16, <1>19, <1>21 DEF PathType
<1>23. /\ Outputs(q) = Outputs(p) /\ AllBursts(q) = AllBursts(p) /\ AllWritten(q) = AllWritten(p)
       /\ AllAsked(q) = AllAsked(p)
       /\ Records(q, S) = Records(p, S) /\ Records(q, D) = Records(p, D)
  <2>1. Outputs(q) = Outputs(p) BY <1>20 DEF Outputs
  <2>2. AllBursts(q) = AllBursts(p) BY <1>20 DEF AllBursts, Bursts
  <2>3. AllWritten(q) = AllWritten(p) BY <1>20 DEF AllWritten
  <2>4. AllAsked(q) = AllAsked(p) BY <1>20 DEF AllAsked, Asked
  <2>5. Records(q, S) = Records(p, S) /\ Records(q, D) = Records(p, D) BY <1>20 DEF Records
  <2> QED BY <2>1, <2>2, <2>3, <2>4, <2>5
<1>24. Host(q, S, D)
  <2>1. q.reservedReturn = Total(Lengths(q))
    <3> DEFINE f == Lengths(p)
               g == Lengths(q)
               T == Ready(p)
    <3>1. f \in [Channel -> Nat] /\ \A c \in Channel : f[c] = Len(p.reads[c])
      BY <1>1, PathFields DEF Lengths
    <3>2. g \in [Channel -> Nat] /\ \A c \in Channel : g[c] = Len(q.reads[c])
      BY <1>22, PathFields DEF Lengths
    <3>3. T \in SUBSET Channel BY DEF Ready
    <3> HIDE DEF f, g
    <3>4. \A c \in T : f[c] = g[c] + 1 BY <1>18, <3>1, <3>2, <3>3
    <3>5. \A c \in Channel \ T : f[c] = g[c] BY <1>18, <3>1, <3>2
    <3>6. IsFiniteSet(Channel) BY Homes
    <3> HIDE DEF T
    <3>7. Total(f) = Total(g) + Cardinality(T) /\ Total(g) \in Nat
      BY <3>1, <3>2, <3>3, <3>4, <3>5, <3>6, TotalStep, TotalType
    <3>8. p.reservedReturn = Total(f) /\ n = Cardinality(T) BY <1>1, <1>3 DEF Host, f, T
    <3>9. p.reservedReturn - n = Total(g) BY <1>3, <3>7, <3>8
    <3> QED BY <1>16, <3>9 DEF g
  <2>2. Len(q.returned) + q.reservedReturn <= ReturnQueueCapacity
    <3>1. Len(p.returned) + p.reservedReturn <= ReturnQueueCapacity BY <1>1 DEF Host
    <3> QED BY <1>2, <1>3, <1>16, <1>21, <3>1, Config
  <2>3. Line((q.added \o q.batch) \o q.queue, BG, None, Records(q, D))
    BY <1>1, <1>16, <1>23 DEF Host
  <2>4. \A b \in BG : D[b] <= S[b]
    <3> SUFFICES ASSUME NEW b \in BG PROVE D[b] <= S[b] OBVIOUS
    <3>1. D[b] \in Nat /\ R[b] \in Nat /\ S[b] \in Nat /\ D[b] <= R[b] /\ R[b] <= S[b]
      BY <1>1, <1>10 DEF Host
    <3> QED BY <3>1
  <2> QED BY <1>21, <2>1, <2>2, <2>3, <2>4 DEF Host
<1>25. CountsHold(q, S, D)
  <2>1. counts.readsDone = Total(S) /\ counts.readRecords = Total(Records(q, S))
    BY <1>1, <1>10, <1>11, <1>12, <1>23 DEF CountsHold
  <2> QED BY <1>1, <1>12, <1>16, <1>23, <2>1 DEF CountsHold
<1>26. Flags(q, S, D)
  <2>1. p.writebackDone => \A b \in BG : Finished(q.bg[b]) BY <1>1, <1>20 DEF Flags, Finished
  <2>2. ~p.readbackStarted => \A b \in BG : q.bg[b].nextRead = 1 BY <1>1, <1>20 DEF Flags
  <2>3. p.transportDone => \A b \in BG : S[b] = R[b] /\ S[b] = Written(q.bg[b])
    <3> SUFFICES ASSUME p.transportDone, NEW b \in BG
                 PROVE  S[b] = R[b] /\ S[b] = Written(q.bg[b])
      OBVIOUS
    <3>1. R[b] = Written(p.bg[b]) /\ R[b] \in Nat /\ S[b] \in Nat /\ R[b] <= S[b]
      BY <1>1, <1>10 DEF Flags
    <3> DEFINE h == q.bg[b]
               e == d[b]
               s == S[b]
    <3>2. Group(h, b, e, low, high, s) BY <1>20
    <3> HIDE DEF h, e, s
    <3>3. s <= Asked(h) /\ Asked(h) <= Written(h) /\ Asked(h) \in Nat /\ Written(h) \in Nat
      BY <3>2, GroupNumbers
    <3>4. Written(h) = R[b] BY <1>20, <3>1 DEF h
    <3>5. s \in Nat /\ R[b] <= s BY <3>1 DEF s
    <3>6. s = R[b] BY <3>1, <3>3, <3>4, <3>5
    <3> QED BY <3>4, <3>6 DEF s, h
  <2> QED BY <1>1, <1>16, <2>1, <2>2, <2>3 DEF Flags
<1>27. SameDelivery(p, q) BY <1>16, <1>20 DEF SameDelivery
<1>28. Groups(q, d, low, high, S) BY <1>20 DEF Groups
<1>29. State(q, d, low, high, 1, rhigh, S, D)
  BY <1>1, <1>10, <1>18, <1>22, <1>24, <1>25, <1>26, <1>28 DEF State
<1> QED BY <1>21, <1>27, <1>29

-----------------------------------------------------------------------------
(* A cycle                                                                 *)

\* What a cycle does to the delivery.
Delivered(p, q) ==
  /\ Outputs(q) = Outputs(p)
  /\ p.reductionDone => q.reductionDone /\ q.added = p.added
  /\ q.added = p.added \/ \E s \in Seq(RecordType) : s # <<>> /\ q.added = p.added \o s

\* step() as a whole: the phases one after the other.
LEMMA StepKeeps ==
  ASSUME NEW p, NEW d \in [BG -> BOOLEAN], NEW H, H = Cycles(WriteLatency),
         NEW G, G = Cycles(ReadLatency), NEW R, NEW D, State(p, d, 1, H, 1, G, R, D),
         NEW q, Step(p, d, q)
  PROVE  /\ \E S, X : State(q, d, 1, H, 1, G, S, X)
         /\ Delivered(p, q)
<1> DEFINE n == NextCycle(p)
           w == CompleteWrites(n)
           f == FlushEligibleTails(w, d)
           bursts == {b \in BG : w.bg[b].pending # <<>>}
           i == IssueWrites(f, bursts)
           u == UpdateCompletion(i)
           c == CompleteReads(u)
           x == IssueReads(c)
           y == UpdateReadTransportCompletion(x)
           r == StartHostReadback(y)
           h == CompleteReductionBatch(r)
           visible == u.returned # <<>>
           a == AcceptReturnedBurst(h, visible)
           m == Len(h.queue)
           g == IssueReductionBatch(a, m)
<1>1. /\ n = NextCycle(p) /\ w = CompleteWrites(n) /\ f = FlushEligibleTails(w, d)
      /\ i = IssueWrites(f, bursts) /\ u = UpdateCompletion(i) /\ c = CompleteReads(u)
      /\ x = IssueReads(c) /\ y = UpdateReadTransportCompletion(x) /\ r = StartHostReadback(y)
      /\ h = CompleteReductionBatch(r) /\ a = AcceptReturnedBurst(h, visible)
      /\ g = IssueReductionBatch(a, m) /\ m = Len(h.queue)
      /\ (\A b \in BG : b \in bursts => w.bg[b].pending # <<>>)
      /\ (visible => u.returned # <<>>)
  OBVIOUS
<1>2. q = UpdateHostCompletion(g) BY DEF Step
<1>3. H \in Nat /\ G \in Nat BY Config, CyclesType
<1>4. State(p, d, 1, H, 1, G, R, D) OBVIOUS
<1> HIDE DEF n, w, f, bursts, i, u, c, x, y, r, h, visible, a, m, g
<1> DEFINE L == H - 1
           K == G - 1
<1>5. State(n, d, 0, L, 0, K, R, D) /\ SameDelivery(p, n) BY <1>1, <1>3, <1>4, NextCycleKeeps
<1>6. L = H - 1 /\ K = G - 1 OBVIOUS
<1> HIDE DEF L, K
<1>7. State(w, d, 1, L, 0, K, R, D) /\ SameDelivery(n, w) BY <1>1, <1>5, CompleteWritesKeeps
<1>8. /\ State(f, d, 1, L, 0, K, R, D) /\ SameDelivery(w, f)
      /\ \A b \in BG : w.bg[b].pending # <<>> => f.bg[b].pending # <<>>
  BY <1>1, <1>7, FlushKeeps
<1>9. State(i, d, 1, H, 0, K, R, D) /\ SameDelivery(f, i)
  <2>1. State(f, d, 1, H - 1, 0, K, R, D) BY <1>6, <1>8
  <2>2. \A b \in BG : b \in bursts => f.bg[b].pending # <<>> BY <1>1, <1>8
  <2> QED BY <1>1, <2>1, <2>2, IssueWritesKeeps
<1>10. State(u, d, 1, H, 0, K, R, D) /\ SameDelivery(i, u) BY <1>1, <1>9, UpdateCompletionKeeps
<1>11. /\ \E S : State(c, d, 1, H, 1, K, S, D)
       /\ SameDelivery(u, c) /\ (u.returned # <<>> => c.returned # <<>>)
  BY <1>1, <1>10, CompleteReadsKeeps
<1>12. PICK S : State(c, d, 1, H, 1, K, S, D) BY <1>11
<1>13. State(x, d, 1, H, 1, G, S, D) /\ SameDelivery(c, x) /\ x.returned = c.returned
  <2>1. State(c, d, 1, H, 1, G - 1, S, D) BY <1>6, <1>12
  <2> QED BY <1>1, <2>1, IssueReadsKeeps
<1>14. State(y, d, 1, H, 1, G, S, D) /\ SameDelivery(x, y) /\ y.returned = x.returned
  BY <1>1, <1>13, UpdateReadTransportKeeps
<1>15. State(r, d, 1, H, 1, G, S, D) /\ SameDelivery(y, r) /\ r.returned = y.returned
  BY <1>1, <1>14, StartHostReadbackKeeps
<1>16. /\ State(h, d, 1, H, 1, G, S, D) /\ h.reductionDone = r.reductionDone
       /\ Outputs(h) = Outputs(r)
       /\ AddsBatch(r, h) /\ h.returned = r.returned
  <2>1. State(r, d, 1, H, 1, G, S, D) /\ h = CompleteReductionBatch(r) BY <1>1, <1>15
  <2>2. State(h, d, 1, H, 1, G, S, D) BY <2>1, CompleteBatchKeeps
  <2>3. h.reductionDone = r.reductionDone BY <2>1, CompleteBatchKeeps
  <2>4. Outputs(h) = Outputs(r) /\ h.returned = r.returned BY <2>1, CompleteBatchKeeps
  <2>5. AddsBatch(r, h) BY <2>1, CompleteBatchKeeps
  <2> QED BY <2>2, <2>3, <2>4, <2>5
<1>17. visible => h.returned # <<>> BY <1>1, <1>11, <1>13, <1>14, <1>15, <1>16
<1>18. \E X : /\ State(a, d, 1, H, 1, G, S, X) /\ SameDelivery(h, a)
              /\ Len(h.queue) <= Len(a.queue)
  BY <1>1, <1>16, <1>17, AcceptKeeps
<1>19. PICK X : /\ State(a, d, 1, H, 1, G, S, X) /\ SameDelivery(h, a)
                /\ Len(h.queue) <= Len(a.queue)
  BY <1>18
<1>20. State(g, d, 1, H, 1, G, S, X) /\ SameDelivery(a, g)
  <2>1. a \in PathType /\ h \in PathType BY <1>16, <1>19 DEF State
  <2>2. Len(h.queue) \in Nat /\ Len(a.queue) \in Nat BY <2>1, PathFields
  <2>3. m \in 0 .. Len(a.queue) BY <1>1, <1>19, <2>2
  <2> QED BY <1>1, <1>19, <2>3, IssueBatchKeeps
<1>21. /\ State(q, d, 1, H, 1, G, S, X) /\ Outputs(q) = Outputs(g)
       /\ q.added = g.added /\ (g.reductionDone => q.reductionDone)
  BY <1>2, <1>20, UpdateHostCompletionKeeps
<1>22. \A s, t : SameDelivery(s, t) => /\ Outputs(t) = Outputs(s) /\ t.added = s.added
                                       /\ t.reductionDone = s.reductionDone
  BY DEF SameDelivery, Outputs
<1>23. /\ Outputs(r) = Outputs(p) /\ r.added = p.added /\ r.reductionDone = p.reductionDone
  BY <1>5, <1>7, <1>8, <1>9, <1>10, <1>11, <1>13, <1>14, <1>15, <1>22
<1>24. /\ Outputs(q) = Outputs(h) /\ q.added = h.added /\ (h.reductionDone => q.reductionDone)
  BY <1>19, <1>20, <1>21, <1>22
<1>25. r.batch \in Seq(RecordType) /\ p.added \in Seq(RecordType)
  <2>1. r \in PathType /\ p \in PathType BY <1>4, <1>15 DEF State
  <2> QED BY <2>1, PathFields
<1>26. q.added = p.added \/ \E s \in Seq(RecordType) : s # <<>> /\ q.added = p.added \o s
  <2>1. CASE r.batch = <<>>
    <3>1. p.added \o <<>> = p.added BY <1>25
    <3> QED BY <1>16, <1>23, <1>24, <2>1, <3>1 DEF AddsBatch
  <2>2. CASE r.batch # <<>> BY <1>16, <1>23, <1>24, <1>25, <2>2 DEF AddsBatch
  <2> QED BY <2>1, <2>2
<1>27. p.reductionDone => q.reductionDone /\ q.added = p.added
  BY <1>16, <1>23, <1>24 DEF AddsBatch
<1>28. Outputs(q) = Outputs(p) BY <1>16, <1>23, <1>24
<1> QED BY <1>21, <1>26, <1>27, <1>28 DEF Delivered

-----------------------------------------------------------------------------
(* What the invariant says of the places claimed                           *)

Readers(p, b) == {r \in Channel \X (1 .. MaxInflightReads) :
                    r[2] <= Len(p.reads[r[1]]) /\ p.reads[r[1]][r[2]].bg = b}

\* The bursts being read from a bank group's buffer are those of its reads under way.
LEMMA ReadersRead ==
  ASSUME NEW p, NEW d, NEW low, NEW high, NEW rlow, NEW rhigh, NEW R, NEW D,
         State(p, d, low, high, rlow, rhigh, R, D), NEW b \in BG
  PROVE  LET Q == {k \in BufferSlot : p.bg[b].reading[k]}
         IN  /\ Q = {p.reads[r[1]][r[2]].slot : r \in Readers(p, b)}
             /\ Q \subseteq Resident(p.bg[b])
             /\ Cardinality(Q) = Cardinality(Readers(p, b))
<1> DEFINE g == p.bg[b]
           e == d[b]
           s == R[b]
           Q == {k \in BufferSlot : g.reading[k]}
           T == Readers(p, b)
           h == [r \in T |-> p.reads[r[1]][r[2]].slot]
<1>1. /\ p \in PathType /\ R \in [BG -> Nat] /\ Groups(p, d, low, high, R)
      /\ \A c \in Channel : Reading(p, c, rlow, rhigh, R)
  BY DEF State
<1>2. Group(g, b, e, low, high, s) /\ s \in Nat BY <1>1 DEF Groups
<1>3. /\ \A k \in BufferSlot : g.resident[k] # NoBurst =>
           s < g.resident[k].number /\ g.resident[k].number <= Written(g)
      /\ \A j, k \in BufferSlot :
           g.resident[j] # NoBurst /\ g.resident[j].number = g.resident[k].number => j = k
      /\ \A k \in BufferSlot :
           g.reading[k] <=> g.resident[k] # NoBurst /\ g.resident[k].number < g.nextRead
  BY <1>2 DEF Group, Holding
<1>4. /\ g.nextRead \in Nat \ {0} /\ (\A k \in BufferSlot : g.resident[k].number \in Nat)
      /\ AllAsked(p)[b] = g.nextRead - 1
  <2>1. AllAsked(p)[b] = g.nextRead - 1 BY DEF AllAsked, Asked
  <2> HIDE DEF g
  <2>2. g \in GroupType BY <1>2 DEF Group
  <2> QED BY <2>1, <2>2, GroupFields
<1>5. \A c \in Channel : p.reads[c] \in Seq(ReadType) /\ Len(p.reads[c]) \in Nat
  BY <1>1, PathFields
<1>6. ASSUME NEW c \in Channel, NEW i \in 1 .. Len(p.reads[c]), p.reads[c][i].bg = b
      PROVE  /\ b \in Home(c) /\ i \in 1 .. MaxInflightReads
             /\ p.reads[c][i].slot \in BufferSlot
             /\ g.resident[p.reads[c][i].slot] = p.reads[c][i].burst
             /\ g.reading[p.reads[c][i].slot]
  <2> DEFINE x == p.reads[c][i]
  <2>1. PICK z \in Seq(Element) :
          /\ Len(z) = Len(p.reads[c]) /\ Line(z, Home(c), R, AllAsked(p))
          /\ \A j \in 1 .. Len(z) :
               p.reads[c][j].bg = z[j].bg /\ p.reads[c][j].burst.number = z[j].seq
    BY <1>1 DEF Reading
  <2>2. z[i].bg = b /\ z[i].bg \in Home(c) /\ x.burst.number \in R[b] + 1 .. AllAsked(p)[b]
    BY <1>6, <2>1 DEF Line
  <2>3. x \in ReadType BY <1>5, ElementOfSeq
  <2>4. x.slot \in BufferSlot BY <2>3 DEF ReadType
  <2>5. g.resident[x.slot] = x.burst BY <1>1, <1>6 DEF Reading
  <2>6. i \in 1 .. MaxInflightReads
    <3>1. Len(p.reads[c]) <= MaxInflightReads BY <1>1 DEF Reading
    <3> QED BY <1>5, <3>1, Config
  <2> HIDE DEF x, g
  <2>7. x.burst.number # 0 /\ x.burst.number < g.nextRead BY <1>1, <1>4, <2>2
  <2>8. g.resident[x.slot] # NoBurst BY <2>5, <2>7 DEF NoBurst
  <2>9. g.reading[x.slot] BY <1>3, <2>4, <2>5, <2>7, <2>8
  <2> QED BY <2>2, <2>4, <2>5, <2>6, <2>9 DEF x
<1>7. ASSUME NEW k \in Q
      PROVE  \E c \in Channel : \E i \in 1 .. Len(p.reads[c]) :
               p.reads[c][i].bg = b /\ p.reads[c][i].slot = k
  <2>1. k \in BufferSlot /\ g.resident[k] # NoBurst /\ g.resident[k].number < g.nextRead BY <1>3
  <2> DEFINE n == g.resident[k].number
  <2>2. n \in R[b] + 1 .. AllAsked(p)[b]
    <3>1. s < n /\ n \in Nat /\ n < g.nextRead BY <1>3, <1>4, <2>1
    <3> HIDE DEF g, n
    <3>2. n \in s + 1 .. g.nextRead - 1 BY <1>2, <1>4, <3>1
    <3> QED BY <1>4, <3>2
  <2>3. PICK c \in Channel : b \in Home(c) BY Homes
  <2>4. PICK z \in Seq(Element) :
          /\ Len(z) = Len(p.reads[c]) /\ Line(z, Home(c), R, AllAsked(p))
          /\ \A j \in 1 .. Len(z) :
               p.reads[c][j].bg = z[j].bg /\ p.reads[c][j].burst.number = z[j].seq
    BY <1>1 DEF Reading
  <2>5. PICK i \in 1 .. Len(z) : z[i].bg = b /\ z[i].seq = n BY <2>2, <2>3, <2>4 DEF Line
  <2>6. i \in 1 .. Len(p.reads[c]) /\ p.reads[c][i].bg = b /\ p.reads[c][i].burst.number = n
    BY <2>4, <2>5
  <2> DEFINE j == p.reads[c][i].slot
  <2>7. j \in BufferSlot /\ g.resident[j] = p.reads[c][i].burst BY <1>6, <2>6
  <2>8. g.resident[j].number = n BY <2>6, <2>7
  <2>9. j = k
    <3> HIDE DEF j, g
    <3> QED BY <1>3, <2>1, <2>7, <2>8
  <2> QED BY <2>6, <2>9
<1>8. \A r \in T : /\ r[1] \in Channel /\ r[2] \in 1 .. Len(p.reads[r[1]])
                   /\ p.reads[r[1]][r[2]].bg = b /\ r = <<r[1], r[2]>>
  BY <1>5 DEF Readers
<1>9. \A c \in Channel : \A i \in 1 .. Len(p.reads[c]) : p.reads[c][i].bg = b => <<c, i>> \in T
  BY <1>5, <1>6 DEF Readers
<1>10. \A r \in T : h[r] = p.reads[r[1]][r[2]].slot /\ h[r] \in Q BY <1>6, <1>8
<1>11. ASSUME NEW q \in T, NEW r \in T, h[q] = h[r] PROVE q = r
  <2> DEFINE c == q[1]
             i == q[2]
             j == r[2]
  <2>1. /\ c \in Channel /\ i \in 1 .. Len(p.reads[c]) /\ p.reads[c][i].bg = b
        /\ r[1] \in Channel /\ j \in 1 .. Len(p.reads[r[1]]) /\ p.reads[r[1]][j].bg = b
        /\ q = <<c, i>> /\ r = <<r[1], j>>
    BY <1>8
  <2>2. r[1] = c
    <3>1. b \in Home(c) /\ b \in Home(r[1]) BY <1>6, <2>1
    <3> QED BY <2>1, <3>1, Homes
  <2>3. p.reads[c][i].burst = p.reads[c][j].burst
    <3>1. /\ g.resident[p.reads[c][i].slot] = p.reads[c][i].burst
          /\ g.resident[p.reads[c][j].slot] = p.reads[c][j].burst
      <4>1. /\ c \in Channel
            /\ i \in 1 .. Len(p.reads[c]) /\ p.reads[c][i].bg = b
            /\ j \in 1 .. Len(p.reads[c]) /\ p.reads[c][j].bg = b
        BY <2>1, <2>2
      <4> HIDE DEF c, i, j
      <4> QED BY <1>6, <4>1
    <3>2. p.reads[c][i].slot = p.reads[c][j].slot BY <1>10, <1>11, <2>2
    <3> QED BY <3>1, <3>2
  <2>4. PICK z \in Seq(Element) :
          /\ Len(z) = Len(p.reads[c]) /\ Line(z, Home(c), R, AllAsked(p))
          /\ \A k \in 1 .. Len(z) :
               p.reads[c][k].bg = z[k].bg /\ p.reads[c][k].burst.number = z[k].seq
    BY <1>1, <2>1 DEF Reading
  <2> HIDE DEF c, i, j
  <2>5. /\ i \in 1 .. Len(z) /\ j \in 1 .. Len(z) /\ z[i].bg = z[j].bg /\ z[i].seq = z[j].seq
    BY <2>1, <2>2, <2>3, <2>4
  <2>6. z[i].seq \in Nat
    <3>1. z[i] \in Element BY <2>5, ElementOfSeq
    <3> QED BY <3>1 DEF Element
  <2>7. ~(i < j) /\ ~(j < i)
    <3>1. \A x, y \in 1 .. Len(z) : x < y /\ z[x].bg = z[y].bg => z[x].seq < z[y].seq
      BY <2>4 DEF Line
    <3>2. ASSUME i < j PROVE FALSE
      <4>1. z[i].seq < z[j].seq BY <2>5, <3>1, <3>2
      <4> QED BY <2>5, <2>6, <4>1
    <3>3. ASSUME j < i PROVE FALSE
      <4>1. z[j].seq < z[i].seq BY <2>5, <3>1, <3>3
      <4> QED BY <2>5, <2>6, <4>1
    <3> QED BY <3>2, <3>3
  <2>8. i = j BY <2>5, <2>7
  <2> QED BY <2>1, <2>2, <2>8
<1>12. \A k \in Q : \E r \in T : h[r] = k
  <2> SUFFICES ASSUME NEW k \in Q PROVE \E r \in T : h[r] = k OBVIOUS
  <2>0. PICK c \in Channel : \E i \in 1 .. Len(p.reads[c]) :
          p.reads[c][i].bg = b /\ p.reads[c][i].slot = k
    BY <1>7
  <2>1. PICK i \in 1 .. Len(p.reads[c]) : p.reads[c][i].bg = b /\ p.reads[c][i].slot = k BY <2>0
  <2>2. <<c, i>> \in T BY <1>9, <2>1
  <2>3. h[<<c, i>>] = k BY <2>1, <2>2
  <2> QED BY <2>2, <2>3
<1>13. IsFiniteSet(T)
  <2>1. IsFiniteSet(1 .. MaxInflightReads)
    <3>1. 1 \in Int /\ MaxInflightReads \in Int BY Config
    <3> QED BY <3>1, FS_Interval
  <2>2. IsFiniteSet(Channel \X (1 .. MaxInflightReads)) BY <2>1, Homes, FS_Product
  <2>3. T \in SUBSET (Channel \X (1 .. MaxInflightReads)) BY DEF Readers
  <2> HIDE DEF T
  <2> QED BY <2>2, <2>3, FS_Subset
<1>14. Q = {p.reads[r[1]][r[2]].slot : r \in T}
  <2>1. \A r \in T : p.reads[r[1]][r[2]].slot \in Q BY <1>10
  <2>2. \A k \in Q : \E r \in T : p.reads[r[1]][r[2]].slot = k BY <1>10, <1>12
  <2> HIDE DEF Q, T
  <2> QED BY <2>1, <2>2
<1>15. Q \subseteq Resident(g) BY <1>3 DEF Resident
<1>16. Cardinality(Q) = Cardinality(T)
  <2>1. h \in [T -> Q] /\ \A q, r \in T : h[q] = h[r] => q = r BY <1>10, <1>11
  <2> HIDE DEF h, Q, T
  <2> QED BY <1>12, <1>13, <2>1, SameSize
<1> QED BY <1>14, <1>15, <1>16

-----------------------------------------------------------------------------
(* The invariant                                                           *)

\* Before the first record.
LEMMA GroupInit ==
  ASSUME NEW b \in BG, NEW d, NEW low, NEW high
  PROVE  /\ Group(BGInit, b, d, low, high, 0)
         /\ BGInit.lastOutput = 0 /\ BGInit.nextRead = 1 /\ Sealed(BGInit) = 0
         /\ Bursts(BGInit) = 0 /\ Written(BGInit) = 0 /\ Asked(BGInit) = 0
<1> DEFINE g == BGInit
<1>1. /\ g.packer = <<>> /\ g.pending = <<>> /\ g.inflight = <<>> /\ g.lastOutput = 0
      /\ g.nextBurst = 1 /\ g.nextRead = 1 /\ g.reservedCount = 0
      /\ ~g.lifecycle /\ ~g.tailFlushed
      /\ \A k \in BufferSlot : g.resident[k] = NoBurst /\ ~g.reserved[k] /\ ~g.reading[k]
  BY DEF BGInit
<1>2. g \in GroupType
  <2>1. NoBurst \in BurstType BY DEF NoBurst, BurstType
  <2> QED BY <2>1 DEF BGInit, GroupType
<1> HIDE DEF g
<1>3. Len(g.packer) = 0 /\ Len(g.pending) = 0 /\ Len(g.inflight) = 0 BY <1>1
<1>4. Sealed(g) = 0 /\ Bursts(g) = 0 /\ Asked(g) = 0
  <2>1. g.lastOutput = 0 /\ Len(g.packer) = 0 /\ g.nextBurst = 1 /\ g.nextRead = 1 BY <1>1, <1>3
  <2> QED BY <2>1 DEF Sealed, Bursts, Asked
<1>5. Written(g) = 0 BY <1>3, <1>4 DEF Written
<1>6. Packing(g, b, d)
  <2>1. 0 * RecordsPerBurst = 0 /\ 0 < RecordsPerBurst BY Config
  <2> QED BY <1>1, <1>3, <1>4, <2>1 DEF Packing
<1>7. Sending(g, b, low, high) BY <1>3, <1>5 DEF Sending
<1>8. Holding(g, b, 0) BY <1>1, <1>4, <1>5 DEF Holding
<1>9. Claims(g) BY <1>1, <1>3 DEF Claims
<1> QED BY <1>1, <1>2, <1>4, <1>5, <1>6, <1>7, <1>8, <1>9 DEF Group, g

\* The first state.
LEMMA InitState ==
  ASSUME NEW d, NEW low, NEW high, NEW rlow, NEW rhigh, NEW p, p = PathInit
  PROVE  State(p, d, low, high, rlow, rhigh, None, None)
<1>1. /\ \A b \in BG : p.bg[b] = BGInit
      /\ \A c \in Channel : p.reads[c] = <<>>
      /\ p.returned = <<>> /\ p.reservedReturn = 0 /\ p.queue = <<>> /\ p.batch = <<>>
      /\ p.added = <<>> /\ p.error = FALSE
      /\ ~p.writebackDone /\ ~p.readbackStarted /\ ~p.transportDone
      /\ ~p.readbackDone /\ ~p.reductionDone
  BY DEF PathInit
<1>2. /\ p.counts.generated = 0 /\ p.counts.bursts = 0 /\ p.counts.written = 0
      /\ p.counts.readsIssued = 0 /\ p.counts.readsDone = 0 /\ p.counts.readRecords = 0
      /\ p.counts.delivered = 0 /\ p.counts.enqueued = 0 /\ p.counts.issued = 0
      /\ p.counts.reduced = 0
  BY DEF PathInit
<1>3. p \in PathType
  <2>1. \A b \in BG : BGInit \in GroupType BY GroupInit DEF Group
  <2>2. 0 \in 0 .. BankGroupsPerRank - 1 /\ 0 \in 0 .. BankGroupsPerChannel - 1 BY Config, Homes
  <2> QED BY <2>1, <2>2 DEF PathInit, PathType, CountsType
<1>4. \A b \in BG : /\ Group(p.bg[b], b, d[b], low, high, 0)
                    /\ p.bg[b].lastOutput = 0 /\ p.bg[b].nextRead = 1 /\ Sealed(p.bg[b]) = 0
                    /\ Bursts(p.bg[b]) = 0 /\ Written(p.bg[b]) = 0 /\ Asked(p.bg[b]) = 0
  BY <1>1, GroupInit
<1>5. \A b \in BG : None[b] = 0 BY DEF None
<1>6. None \in [BG -> Nat] BY DEF None
<1>7. Groups(p, d, low, high, None) BY <1>4, <1>5 DEF Groups
<1>8. \A b \in BG : Records(p, None)[b] = 0 /\ AllAsked(p)[b] = 0
  BY <1>4, <1>5, InFirstFacts DEF Records, AllAsked
<1>9. \A B \in SUBSET BG : \A hi : (\A b \in B : hi[b] = 0) => Line(<<>>, B, None, hi)
  BY <1>5 DEF Line
<1>10. \A c \in Channel : Reading(p, c, rlow, rhigh, None)
  <2> SUFFICES ASSUME NEW c \in Channel PROVE Reading(p, c, rlow, rhigh, None) OBVIOUS
  <2>1. Line(<<>>, Home(c), None, AllAsked(p))
    <3>1. Home(c) \in SUBSET BG BY Homes
    <3> QED BY <1>8, <1>9, <3>1
  <2>2. Len(p.reads[c]) = 0 /\ 0 <= MaxInflightReads BY <1>1, Config
  <2>3. \E z \in Seq(Element) :
          /\ Len(z) = Len(p.reads[c]) /\ Line(z, Home(c), None, AllAsked(p))
          /\ \A i \in 1 .. Len(z) :
               p.reads[c][i].bg = z[i].bg /\ p.reads[c][i].burst.number = z[i].seq
    <3> DEFINE z == <<>>
    <3>1. z \in Seq(Element) /\ Len(z) = 0 /\ Line(z, Home(c), None, AllAsked(p)) BY <2>1
    <3> HIDE DEF z
    <3>2. \A i \in 1 .. Len(z) : FALSE BY <3>1
    <3> QED BY <2>2, <3>1, <3>2
  <2>4. \A i \in 1 .. Len(p.reads[c]) : FALSE BY <2>2
  <2> QED BY <2>2, <2>3, <2>4 DEF Reading
<1>11. Host(p, None, None)
  <2>1. Returned(p, None, None)
    <3> DEFINE z == <<>>
    <3>1. z \in Seq(Element) /\ Len(z) = 0 /\ Line(z, BG, None, None) BY <1>5, <1>9
    <3>2. Len(p.returned) = 0 BY <1>1
    <3> HIDE DEF z
    <3>3. \A i \in 1 .. Len(z) : FALSE BY <3>1
    <3> QED BY <3>1, <3>2, <3>3 DEF Returned
  <2>2. Total(Lengths(p)) = 0
    <3>1. Lengths(p) \in [Channel -> Nat] /\ \A c \in Channel : Lengths(p)[c] = 0
      BY <1>1 DEF Lengths
    <3> QED BY <3>1, TotalZero
  <2>3. Line((p.added \o p.batch) \o p.queue, BG, None, Records(p, None))
    <3>1. (p.added \o p.batch) \o p.queue = <<>> BY <1>1
    <3> QED BY <1>8, <1>9, <3>1
  <2>4. Len(p.returned) + p.reservedReturn <= ReturnQueueCapacity BY <1>1, Config
  <2> QED BY <1>1, <1>5, <2>1, <2>2, <2>3, <2>4 DEF Host
<1>12. CountsHold(p, None, None)
  <2>1. \A f : f \in [BG -> Nat] /\ (\A b \in BG : f[b] = 0) => Total(f) = 0 BY TotalZero
  <2>2. Outputs(p) \in [BG -> Nat] /\ \A b \in BG : Outputs(p)[b] = 0 BY <1>4 DEF Outputs
  <2>3. AllBursts(p) \in [BG -> Nat] /\ \A b \in BG : AllBursts(p)[b] = 0 BY <1>4 DEF AllBursts
  <2>4. AllWritten(p) \in [BG -> Nat] /\ \A b \in BG : AllWritten(p)[b] = 0
    BY <1>4 DEF AllWritten
  <2>5. AllAsked(p) \in [BG -> Nat] BY <1>4 DEF AllAsked
  <2>6. Records(p, None) \in [BG -> Nat] BY <1>6, <1>7, RecordsNumber
  <2>7. /\ Total(Outputs(p)) = 0 /\ Total(AllBursts(p)) = 0 /\ Total(AllWritten(p)) = 0
        /\ Total(AllAsked(p)) = 0 /\ Total(Records(p, None)) = 0 /\ Total(None) = 0
    BY <1>5, <1>6, <1>8, <2>1, <2>2, <2>3, <2>4, <2>5, <2>6
  <2>8. Len(p.queue) = 0 /\ Len(p.batch) = 0 BY <1>1
  <2> QED BY <1>2, <2>7, <2>8 DEF CountsHold
<1>13. Flags(p, None, None) BY <1>1, <1>4 DEF Flags
<1> QED BY <1>3, <1>6, <1>7, <1>10, <1>11, <1>12, <1>13 DEF State

\* Between two steps: every transfer under way has at least a cycle to go.
PathState(p, d) ==
  \E R, D : State(p, d, 1, Cycles(WriteLatency), 1, Cycles(ReadLatency), R, D)

PathInv == drained \in [BG -> BOOLEAN] /\ PathState(path, drained)

\* An accumulator that has drained leaves the path as it is.
LEMMA DrainKeeps ==
  ASSUME NEW p, NEW d \in [BG -> BOOLEAN], NEW b \in BG, NEW e, e = [d EXCEPT ![b] = TRUE],
         NEW low, NEW high, NEW rlow, NEW rhigh, NEW R, NEW D,
         State(p, d, low, high, rlow, rhigh, R, D)
  PROVE  State(p, e, low, high, rlow, rhigh, R, D)
<1>1. \A x \in BG : d[x] => e[x] OBVIOUS
<1>2. \A g, x : x \in BG /\ Packing(g, x, d[x]) => Packing(g, x, e[x]) BY <1>1 DEF Packing
<1>3. \A x \in BG : Group(p.bg[x], x, d[x], low, high, R[x]) =>
                      Group(p.bg[x], x, e[x], low, high, R[x])
  BY <1>2 DEF Group
<1>4. Groups(p, e, low, high, R) BY <1>3 DEF State, Groups
<1> QED BY <1>4 DEF State

\* The invariant holds initially.
LEMMA PathInvInit == Init => PathInv
<1> SUFFICES ASSUME Init PROVE PathInv OBVIOUS
<1>1. path = PathInit /\ drained \in [BG -> BOOLEAN] BY DEF Init
<1>2. State(path, drained, 1, Cycles(WriteLatency), 1, Cycles(ReadLatency), None, None)
  BY <1>1, InitState
<1> QED BY <1>1, <1>2 DEF PathInv, PathState

\* What each action does to the invariant and to the delivery.
LEMMA TransferStep ==
  ASSUME PathInv, NEW b \in BG, Transfer(b)
  PROVE  PathInv' /\ SendsOne(path, path', b)
<1> DEFINE H == Cycles(WriteLatency)
           G == Cycles(ReadLatency)
           p == path
           q == path'
           d == drained
<1>1. /\ d \in [BG -> BOOLEAN] /\ ~d[b] /\ CanReserve(p, b) /\ q = CommitReserved(p, b)
      /\ drained' = d
  BY DEF PathInv, Transfer
<1>2. PICK R, D : State(p, d, 1, H, 1, G, R, D) BY DEF PathInv, PathState
<1> HIDE DEF H, G, p, q, d
<1>3. State(q, d, 1, H, 1, G, R, D) BY <1>1, <1>2, TransferKeeps
<1>4. SendsOne(p, q, b) BY <1>1, <1>2, TransferKeeps
<1>6. PathInv' BY <1>1, <1>3 DEF PathInv, PathState, H, G, q, d
<1> QED BY <1>4, <1>6 DEF p, q

\* Drain is invisible to the delivery.
LEMMA DrainStep ==
  ASSUME PathInv, NEW b \in BG, Drain(b)
  PROVE  PathInv' /\ path' = path
<1> DEFINE H == Cycles(WriteLatency)
           G == Cycles(ReadLatency)
           e == drained'
<1>1. /\ drained \in [BG -> BOOLEAN] /\ e = [drained EXCEPT ![b] = TRUE] /\ path' = path
  BY DEF PathInv, Drain
<1>2. PICK R, D : State(path, drained, 1, H, 1, G, R, D) BY DEF PathInv, PathState
<1> HIDE DEF H, G, e
<1>3. State(path, e, 1, H, 1, G, R, D) BY <1>1, <1>2, DrainKeeps
<1>4. e \in [BG -> BOOLEAN] BY <1>1
<1>5. PathInv' BY <1>1, <1>3, <1>4 DEF PathInv, PathState, H, G, e
<1> QED BY <1>1, <1>5

\* A cycle keeps the invariant.
LEMMA TickStep ==
  ASSUME PathInv, Tick
  PROVE  PathInv' /\ Delivered(path, path')
<1> DEFINE H == Cycles(WriteLatency)
           G == Cycles(ReadLatency)
           p == path
           q == path'
           d == drained
<1>1. /\ d \in [BG -> BOOLEAN] /\ Step(p, d, q) /\ drained' = d BY DEF PathInv, Tick
<1>2. PICK R, D : State(p, d, 1, H, 1, G, R, D) BY DEF PathInv, PathState
<1>3. H = Cycles(WriteLatency) /\ G = Cycles(ReadLatency) OBVIOUS
<1> HIDE DEF H, G, p, q, d
<1>4. \E S, X : State(q, d, 1, H, 1, G, S, X) BY <1>1, <1>2, <1>3, StepKeeps
<1>5. Delivered(p, q) BY <1>1, <1>2, <1>3, StepKeeps
<1>6. PathInv' BY <1>1, <1>4 DEF PathInv, PathState, H, G, q, d
<1> QED BY <1>5, <1>6 DEF p, q

\* The invariant is inductive.
LEMMA PathInvStep == PathInv /\ [Next]_vars => PathInv'
<1> SUFFICES ASSUME PathInv, [Next]_vars PROVE PathInv' OBVIOUS
<1>1. ASSUME NEW b \in BG, Transfer(b) PROVE PathInv' BY <1>1, TransferStep
<1>2. ASSUME NEW b \in BG, Drain(b) PROVE PathInv' BY <1>2, DrainStep
<1>3. CASE Tick BY <1>3, TickStep
<1>4. CASE UNCHANGED vars BY <1>4 DEF PathInv, PathState, vars
<1> QED BY <1>1, <1>2, <1>3, <1>4 DEF Next

\* The inductive invariant, in every reachable state.
THEOREM PathInvariant == Spec => []PathInv
BY PathInvInit, PathInvStep, PTL DEF Spec

-----------------------------------------------------------------------------
(* The path is safe                                                        *)

\* A sequence whose elements are all in T.
LEMMA SeqNarrow ==
  ASSUME NEW S, NEW T, NEW s \in Seq(S), \A i \in 1 .. Len(s) : s[i] \in T
  PROVE  s \in Seq(T)
<1>1. Len(s) \in Nat /\ s \in [1 .. Len(s) -> S] BY LenProperties
<1>2. s \in [1 .. Len(s) -> T] BY <1>1
<1> QED BY <1>1, <1>2, SeqDef

\* The invariant implies the type invariant.
LEMMA TypesHold ==
  ASSUME NEW high, NEW rhigh, NEW R, NEW D, drained \in [BG -> BOOLEAN],
         State(path, drained, 1, high, 1, rhigh, R, D)
  PROVE  TypeOK
<1>1. /\ path \in PathType /\ Groups(path, drained, 1, high, R)
      /\ \A c \in Channel : Reading(path, c, 1, rhigh, R)
  BY DEF State
<1>2. path.bg \in [BG -> BGType]
  <2> SUFFICES ASSUME NEW b \in BG PROVE path.bg[b] \in BGType BY <1>1, PathFields
  <2> DEFINE g == path.bg[b]
             W == [burst : BurstType, slot : BufferSlot, wait : Nat]
             V == [burst : BurstType, slot : BufferSlot, wait : Nat \ {0}]
  <2>1. Group(g, b, drained[b], 1, high, R[b]) BY <1>1 DEF Groups
  <2> HIDE DEF g
  <2>2. g \in GroupType BY <2>1 DEF Group
  <2>3. g.inflight \in Seq(W) /\ \A i \in 1 .. Len(g.inflight) : g.inflight[i] \in W
    BY <2>2, GroupFields
  <2>4. \A i \in 1 .. Len(g.inflight) : 1 <= g.inflight[i].wait BY <2>1 DEF Group, Sending
  <2>5. \A i \in 1 .. Len(g.inflight) : g.inflight[i] \in V BY <2>3, <2>4
  <2> HIDE DEF W, V
  <2>6. g.inflight \in Seq(V) BY <2>3, <2>5, SeqNarrow
  <2>7. g \in BGType BY <2>2, <2>6 DEF V, GroupType, BGType
  <2> QED BY <2>7 DEF g
<1>3. path.reads \in [Channel -> Seq([burst : BurstType, bg : BG, slot : BufferSlot,
                                      wait : Nat \ {0}])]
  <2> DEFINE V == [burst : BurstType, bg : BG, slot : BufferSlot, wait : Nat \ {0}]
  <2>1. ASSUME NEW c \in Channel PROVE path.reads[c] \in Seq(V)
    <3> DEFINE s == path.reads[c]
    <3>1. s \in Seq(ReadType) /\ Len(s) \in Nat BY <1>1, PathFields
    <3>2. \A i \in 1 .. Len(s) : 1 <= s[i].wait BY <1>1 DEF Reading
    <3> HIDE DEF s
    <3>3. \A i \in 1 .. Len(s) : s[i] \in ReadType BY <3>1, ElementOfSeq
    <3>4. \A i \in 1 .. Len(s) : s[i] \in V BY <3>2, <3>3 DEF ReadType
    <3> HIDE DEF V
    <3>5. s \in Seq(V) BY <3>1, <3>4, SeqNarrow
    <3> QED BY <3>5 DEF s
  <2>2. path.reads \in [Channel -> Seq(ReadType)] BY <1>1, PathFields
  <2> HIDE DEF V
  <2>3. path.reads \in [Channel -> Seq(V)] BY <2>1, <2>2
  <2> QED BY <2>3 DEF V
<1>4. \A c \in DOMAIN path.counts : path.counts[c] \in Nat
  <2>1. path.counts \in CountsType BY <1>1, PathFields
  <2> QED BY <2>1 DEF CountsType
<1>5. /\ path.rankCursor \in [Rank -> 0 .. BankGroupsPerRank - 1]
      /\ path.channelCursor \in [Channel -> 0 .. BankGroupsPerChannel - 1]
      /\ path.returned \in Seq(BurstType) /\ path.reservedReturn \in Nat
      /\ path.queue \in Seq(RecordType) /\ path.batch \in Seq(RecordType)
      /\ path.batchWait \in Nat /\ path.added \in Seq(RecordType)
      /\ path.writebackDone \in BOOLEAN /\ path.readbackStarted \in BOOLEAN
      /\ path.transportDone \in BOOLEAN /\ path.readbackDone \in BOOLEAN
      /\ path.reductionDone \in BOOLEAN /\ path.error \in BOOLEAN
  BY <1>1, PathFields
<1> QED BY <1>2, <1>3, <1>4, <1>5 DEF TypeOK

\* The invariant implies that no place is claimed twice.
LEMMA PlacesHold ==
  ASSUME NEW d, NEW low, NEW high, NEW rlow, NEW rhigh, NEW R, NEW D,
         State(path, d, low, high, rlow, rhigh, R, D)
  PROVE  PlacesClaimedOnce
<1>1. Groups(path, d, low, high, R) /\ Host(path, R, D) BY DEF State
<1>2. ASSUME NEW b \in BG
      PROVE  LET g == path.bg[b]
                 claimed == {g.inflight[i].slot : i \in DOMAIN g.inflight}
                 readers == Readers(path, b)
             IN  /\ claimed = {k \in BufferSlot : g.reserved[k]}
                 /\ claimed \cap Resident(g) = {}
                 /\ Cardinality(claimed) = Len(g.inflight) /\ g.reservedCount = Len(g.inflight)
                 /\ {k \in BufferSlot : g.reading[k]} =
                      {path.reads[r[1]][r[2]].slot : r \in readers}
                 /\ {k \in BufferSlot : g.reading[k]} \subseteq Resident(g)
                 /\ Cardinality({k \in BufferSlot : g.reading[k]}) = Cardinality(readers)
  <2> DEFINE g == path.bg[b]
             claimed == {g.inflight[i].slot : i \in DOMAIN g.inflight}
             Q == {k \in BufferSlot : g.reading[k]}
             e == d[b]
             r == R[b]
  <2>1. Group(g, b, e, low, high, r) BY <1>1 DEF Groups
  <2>2. /\ Q = {path.reads[x[1]][x[2]].slot : x \in Readers(path, b)}
        /\ Q \subseteq Resident(g) /\ Cardinality(Q) = Cardinality(Readers(path, b))
    BY ReadersRead
  <2> HIDE DEF g, e, r
  <2>3. DOMAIN g.inflight = 1 .. Len(g.inflight)
    <3>1. g \in GroupType BY <2>1 DEF Group
    <3> QED BY <3>1, GroupFields, LenProperties
  <2>4. /\ Cardinality({k \in BufferSlot : g.reserved[k]}) = Len(g.inflight)
        /\ {g.inflight[i].slot : i \in 1 .. Len(g.inflight)} = {k \in BufferSlot : g.reserved[k]}
    BY <2>1, SlotCounts
  <2>5. claimed = {k \in BufferSlot : g.reserved[k]} /\ Cardinality(claimed) = Len(g.inflight)
    BY <2>3, <2>4
  <2>6. claimed \cap Resident(g) = {} /\ g.reservedCount = Len(g.inflight)
    BY <2>1, <2>3 DEF Group, Claims, Resident
  <2> QED BY <2>2, <2>5, <2>6 DEF g
<1>3. /\ path.reservedReturn = Total([c \in Channel |-> Len(path.reads[c])])
      /\ Len(path.returned) + path.reservedReturn <= ReturnQueueCapacity
  BY <1>1 DEF Host, Lengths
<1> QED BY <1>2, <1>3 DEF PlacesClaimedOnce, Readers

\* The invariant implies SafeState.
LEMMA PathInvSafe == PathInv => SafeState
<1> SUFFICES ASSUME PathInv PROVE SafeState OBVIOUS
<1> DEFINE H == Cycles(WriteLatency)
           G == Cycles(ReadLatency)
<1>1. drained \in [BG -> BOOLEAN] BY DEF PathInv
<1>2. PICK R, D : State(path, drained, 1, H, 1, G, R, D) BY DEF PathInv, PathState
<1> HIDE DEF H, G
<1>3. TypeOK BY <1>1, <1>2, TypesHold
<1>4. PlacesClaimedOnce BY <1>2, PlacesHold
<1>5. NoPathError BY <1>2 DEF State, Flags, NoPathError
<1> QED BY <1>3, <1>4, <1>5 DEF SafeState

\* The path stays in its declared domains, claims no place twice and none of its
\* self-checks fails (SafeState), whatever the capacities and latencies.
THEOREM PathSafe == Spec => []SafeState
BY PathInvariant, PathInvSafe, PTL

-----------------------------------------------------------------------------
(* The path delivers                                                       *)

\* Cardinality means the same in the instance of the specification.
LEMMA SameCardinality == \A S : Delivery!Cardinality(S) = Cardinality(S)
BY DEF Delivery!Cardinality, Cardinality

\* The records added are, of each bank group, its first ones in order.
LEMMA AddedInOrder ==
  ASSUME NEW p, NEW d, NEW low, NEW high, NEW rlow, NEW rhigh, NEW R, NEW D,
         State(p, d, low, high, rlow, rhigh, R, D)
  PROVE  Delivery!InOrder(p.added, Outputs(p))
<1> DEFINE a == p.added
           z == (p.added \o p.batch) \o p.queue
           hi == Records(p, D)
<1>1. /\ p \in PathType /\ Groups(p, d, low, high, R) /\ D \in [BG -> Nat]
      /\ Host(p, R, D)
  BY DEF State
<1>2. a \in Seq(RecordType) /\ p.batch \in Seq(RecordType) /\ p.queue \in Seq(RecordType)
  BY <1>1, PathFields
<1>3. /\ z \in Seq(RecordType) /\ Len(a) \in Nat /\ Len(z) \in Nat /\ Len(a) <= Len(z)
      /\ \A i \in 1 .. Len(a) : z[i] = a[i]
  <2> DEFINE y == p.batch
             x == p.queue
  <2>1. a \in Seq(RecordType) /\ y \in Seq(RecordType) /\ x \in Seq(RecordType) BY <1>2
  <2>2. z = (a \o y) \o x OBVIOUS
  <2> HIDE DEF a, y, x, z
  <2>3. (a \o y) \o x = a \o (y \o x) BY <2>1, ConcatAssociative
  <2>4. y \o x \in Seq(RecordType) BY <2>1
  <2> DEFINE w == y \o x
  <2>5. z = a \o w /\ w \in Seq(RecordType) BY <2>2, <2>3, <2>4
  <2> HIDE DEF w
  <2> QED BY <2>1, <2>5
<1>4. hi \in [BG -> Nat] /\ \A b \in BG : hi[b] <= Outputs(p)[b]
  <2>1. hi \in [BG -> Nat] BY <1>1, RecordsNumber
  <2>2. ASSUME NEW b \in BG PROVE hi[b] <= Outputs(p)[b]
    <3> DEFINE g == p.bg[b]
               n == D[b] * RecordsPerBurst
    <3>1. Group(g, b, d[b], low, high, R[b]) /\ D[b] \in Nat BY <1>1 DEF Groups
    <3>2. hi[b] = IF n <= Sealed(g) THEN n ELSE Sealed(g) BY DEF Records, InFirst
    <3>3. Outputs(p)[b] = g.lastOutput BY DEF Outputs
    <3> HIDE DEF g, hi
    <3>4. g \in GroupType /\ Sealed(g) \in Nat BY <3>1, GroupNumbers
    <3>5. g.lastOutput \in Nat /\ Len(g.packer) \in Nat BY <3>4, GroupFields
    <3>6. Sealed(g) <= g.lastOutput BY <3>5 DEF Sealed
    <3>7. n \in Nat BY <3>1, Config
    <3> HIDE DEF n
    <3> QED BY <3>2, <3>3, <3>4, <3>5, <3>6, <3>7
  <2> QED BY <2>1, <2>2
<1>5. Line(z, BG, None, hi) BY <1>1 DEF Host
<1>6. None \in [BG -> Nat] /\ \A b \in BG : None[b] = 0 BY DEF None
<1>7. \A b \in BG : Outputs(p)[b] \in Nat BY <1>1, TotalsOfGroups
<1>8. z \in Seq(Element) BY <1>3 DEF Element, RecordType
<1> HIDE DEF a, z, hi
<1>9. ASSUME NEW i \in 1 .. Len(a)
      PROVE  LET b == a[i].bg
             IN  /\ a[i].seq = Cardinality({j \in 1 .. i : a[j].bg = b})
                 /\ a[i].seq <= Outputs(p)[b]
  <2> DEFINE b == a[i].bg
             n == a[i].seq
  <2>1. i \in 1 .. Len(z) /\ i \in 0 .. Len(z) /\ z[i] = a[i] BY <1>3
  <2>2. b \in BG /\ n \in None[b] + 1 .. hi[b] BY <1>5, <2>1 DEF Line
  <2>3. n \in 0 .. hi[b] /\ n \in Nat /\ hi[b] \in Nat /\ n <= hi[b] BY <1>4, <1>6, <2>2
  <2>4. \A k \in 1 .. Len(z) : z[k].seq \in Nat
    <3>1. \A k \in 1 .. Len(z) : z[k] \in Element BY <1>8, ElementOfSeq
    <3> QED BY <3>1 DEF Element
  <2>5. \A j, k \in 1 .. Len(z) : j < k /\ z[j].bg = z[k].bg => z[j].seq < z[k].seq
    BY <1>5 DEF Line
  <2>6. z[i].bg = b /\ z[i].seq = n BY <2>1
  <2>7. \A j \in 1 .. i : a[j] = z[j] /\ j \in 1 .. Len(z) BY <1>3
  <2> HIDE DEF b, n
  <2>8. \A k \in 1 .. i : z[k].bg = b => z[k].seq <= n
    <3> SUFFICES ASSUME NEW k \in 1 .. i, z[k].bg = b PROVE z[k].seq <= n OBVIOUS
    <3>1. CASE k = i BY <2>3, <2>6, <3>1
    <3>2. CASE k < i
      <4>1. z[k].seq < z[i].seq BY <2>1, <2>5, <2>6, <2>7, <3>2
      <4> QED BY <2>3, <2>4, <2>6, <2>7, <4>1
    <3> QED BY <2>1, <3>1, <3>2
  <2>9. \A k \in 1 .. Len(z) : k > i /\ z[k].bg = b => z[k].seq > n
    <3> SUFFICES ASSUME NEW k \in 1 .. Len(z), k > i, z[k].bg = b PROVE z[k].seq > n OBVIOUS
    <3>1. z[i].seq < z[k].seq BY <2>1, <2>5, <2>6
    <3> QED BY <2>3, <2>4, <2>6, <3>1
  <2>10. Cardinality({j \in 1 .. i : z[j].bg = b}) = n
    <3> DEFINE B == BG
    <3>1. /\ B \in SUBSET BG /\ b \in B /\ Line(z, B, None, hi)
          /\ \A x \in BG : None[x] = 0
      BY <1>5, <1>6, <2>2
    <3> QED BY <1>4, <1>6, <1>8, <2>1, <2>3, <2>8, <2>9, <3>1, LineCounts
  <2>11. {j \in 1 .. i : a[j].bg = b} = {j \in 1 .. i : z[j].bg = b} BY <2>7
  <2>12. n <= Outputs(p)[b] BY <1>4, <1>7, <2>2, <2>3
  <2> QED BY <2>10, <2>11, <2>12 DEF b, n
<1> QED BY <1>9, SameCardinality DEF Delivery!InOrder, a

\* When completion is reported, all records of every bank group are added.
LEMMA AllIsAdded ==
  ASSUME NEW p, NEW d, NEW low, NEW high, NEW rlow, NEW rhigh, NEW R, NEW D,
         State(p, d, low, high, rlow, rhigh, R, D), p.reductionDone, NEW b \in BG
  PROVE  Cardinality({i \in 1 .. Len(p.added) : p.added[i].bg = b}) = Outputs(p)[b]
<1> DEFINE z == p.added
           hi == Records(p, D)
<1>1. /\ p \in PathType /\ Groups(p, d, low, high, R) /\ D \in [BG -> Nat]
      /\ Host(p, R, D) /\ Flags(p, R, D)
  BY DEF State
<1>2. p.queue = <<>> /\ p.batch = <<>> /\ p.writebackDone
      /\ R[b] = Written(p.bg[b]) /\ D[b] = R[b]
  BY <1>1 DEF Flags
<1>3. z \in Seq(RecordType) BY <1>1, PathFields
<1>4. (p.added \o p.batch) \o p.queue = z
  <2>1. (z \o <<>>) \o <<>> = z BY <1>3
  <2> QED BY <1>2, <2>1
<1>5. Line(z, BG, None, hi) /\ hi \in [BG -> Nat] BY <1>1, <1>4, RecordsNumber DEF Host
<1>6. None \in [BG -> Nat] /\ \A x \in BG : None[x] = 0 BY DEF None
<1>7. hi[b] = Outputs(p)[b]
  <2>1. InFirst(Written(p.bg[b]), Sealed(p.bg[b])) = p.bg[b].lastOutput BY <1>2, WrittenIsSent
  <2> QED BY <1>2, <2>1 DEF Records, Outputs
<1>8. z \in Seq(Element) BY <1>3 DEF Element, RecordType
<1> HIDE DEF z, hi
<1> DEFINE m == Len(z)
           n == hi[b]
           B == BG
<1>9. /\ m \in 0 .. Len(z) /\ n \in 0 .. hi[b] /\ b \in B /\ B \in SUBSET BG
      /\ Line(z, B, None, hi)
  BY <1>5, <1>8
<1>10. \A i \in 1 .. m : z[i].bg = b => z[i].seq <= n BY <1>5, <1>6 DEF Line
<1>11. \A i \in 1 .. Len(z) : i > m /\ z[i].bg = b => z[i].seq > n BY <1>8
<1> HIDE DEF m, n, B
<1>12. Cardinality({i \in 1 .. m : z[i].bg = b}) = n
  BY <1>5, <1>6, <1>8, <1>9, <1>10, <1>11, LineCounts
<1> QED BY <1>7, <1>12 DEF m, n, z

\* What the invariant says of the delivery.
LEMMA PathDelivers ==
  ASSUME NEW p, NEW d, PathState(p, d)
  PROVE  /\ p.added \in Seq(RecordType) /\ p.reductionDone \in BOOLEAN
         /\ Delivery!InOrder(p.added, Outputs(p))
         /\ p.reductionDone => \A b \in BG :
              Cardinality({i \in 1 .. Len(p.added) : p.added[i].bg = b}) = Outputs(p)[b]
<1> DEFINE H == Cycles(WriteLatency)
           G == Cycles(ReadLatency)
<1>1. PICK R, D : State(p, d, 1, H, 1, G, R, D) BY DEF PathState
<1> HIDE DEF H, G
<1>2. p \in PathType BY <1>1 DEF State
<1>3. p.added \in Seq(RecordType) /\ p.reductionDone \in BOOLEAN BY <1>2, PathFields
<1>4. Delivery!InOrder(p.added, Outputs(p)) BY <1>1, AddedInOrder
<1>5. ASSUME p.reductionDone, NEW b \in BG
      PROVE  Cardinality({i \in 1 .. Len(p.added) : p.added[i].bg = b}) = Outputs(p)[b]
  BY <1>1, <1>5, AllIsAdded
<1> QED BY <1>3, <1>4, <1>5

\* The initial states map to initial states.
LEMMA DeliveryStarts == Init => Delivery!DeliveryInit
<1> SUFFICES ASSUME Init PROVE Delivery!DeliveryInit OBVIOUS
<1>1. /\ \A b \in BG : path.bg[b].lastOutput = 0
      /\ path.added = <<>> /\ path.reductionDone = FALSE
  BY DEF Init, PathInit, BGInit
<1> QED BY <1>1 DEF Delivery!DeliveryInit

\* A cycle adds nothing and reports nothing, adds a batch, reports, or does both.
LEMMA CycleDelivers ==
  ASSUME PathInv, PathInv', Delivered(path, path')
  PROVE  [Delivery!DeliveryNext]_(Delivery!deliveryVars)
<1> DEFINE p == path
           q == path'
<1>1. /\ p.added \in Seq(RecordType) /\ p.reductionDone \in BOOLEAN BY PathDelivers DEF PathInv
<1>2. /\ q.added \in Seq(RecordType) /\ q.reductionDone \in BOOLEAN
      /\ Delivery!InOrder(q.added, Outputs(q))
      /\ q.reductionDone => \A b \in BG :
           Cardinality({i \in 1 .. Len(q.added) : q.added[i].bg = b}) = Outputs(q)[b]
  BY PathDelivers DEF PathInv
<1>3. /\ Outputs(q) = Outputs(p)
      /\ p.reductionDone => q.reductionDone /\ q.added = p.added
      /\ q.added = p.added \/ \E s \in Seq(RecordType) : s # <<>> /\ q.added = p.added \o s
  BY DEF Delivered
<1>4. /\ Outputs(p) = [b \in BG |-> path.bg[b].lastOutput]
      /\ Outputs(q) = [b \in BG |-> path'.bg[b].lastOutput]
  BY DEF Outputs
<1> HIDE DEF p, q
<1>5. q.reductionDone => Delivery!AllAdded'
  <2>1. \A b \in BG : Outputs(q)[b] = path'.bg[b].lastOutput BY <1>4
  <2> QED BY <1>2, <2>1, SameCardinality DEF Delivery!AllAdded, q
<1>6. ASSUME ~p.reductionDone, q.added # p.added PROVE Delivery!Add
  <2>1. PICK s \in Seq(RecordType) : s # <<>> /\ q.added = p.added \o s BY <1>3, <1>6
  <2>2. /\ Len(q.added) > Len(p.added)
        /\ SubSeq(q.added, 1, Len(p.added)) = p.added
    <3> DEFINE x == p.added
               y == q.added
    <3>1. x \in Seq(RecordType) /\ s \in Seq(RecordType) /\ s # <<>> /\ y = x \o s
          /\ y \in Seq(RecordType)
      BY <1>1, <1>2, <2>1
    <3> HIDE DEF x, y
    <3>2. Len(x) \in Nat /\ Len(s) \in Nat \ {0} /\ Len(y) = Len(x) + Len(s)
          /\ \A i \in 1 .. Len(x) : y[i] = x[i]
      BY <3>1
    <3>3. Len(x) \in 0 .. Len(y) BY <3>2
    <3> DEFINE n == Len(x)
               z == SubSeq(y, 1, n)
    <3>4. z \in Seq(RecordType) /\ Len(z) = n /\ \A i \in 1 .. n : z[i] = y[i] BY <3>1, <3>3
    <3> HIDE DEF z
    <3>5. z = x BY <3>1, <3>2, <3>4, SeqEqual
    <3> QED BY <3>2, <3>5 DEF x, y, z
  <2>3. Delivery!InOrder(q.added, Outputs(p)) BY <1>2, <1>3
  <2> QED BY <1>3, <1>4, <1>6, <2>2, <2>3 DEF Delivery!Add, p, q
<1>7. CASE p.reductionDone
  <2>1. q.added = p.added /\ q.reductionDone = p.reductionDone BY <1>1, <1>2, <1>3, <1>7
  <2> QED BY <1>3, <1>4, <2>1 DEF Delivery!deliveryVars, p, q
<1>8. CASE ~p.reductionDone
  <2>1. CASE q.added = p.added /\ q.reductionDone
    <3>1. Delivery!Report
      <4>1. q.reductionDone = TRUE BY <1>2, <2>1
      <4> QED BY <1>5, <2>1, <4>1 DEF Delivery!Report, q
    <3> QED BY <1>3, <1>4, <1>8, <2>1, <3>1 DEF Delivery!DeliveryNext, p, q
  <2>2. CASE q.added = p.added /\ ~q.reductionDone
    <3>1. q.reductionDone = p.reductionDone BY <1>1, <1>2, <1>8, <2>2
    <3> QED BY <1>3, <1>4, <2>2, <3>1 DEF Delivery!deliveryVars, p, q
  <2>3. CASE q.added # p.added /\ q.reductionDone
    <3>1. Delivery!Report
      <4>1. q.reductionDone = TRUE BY <1>2, <2>3
      <4> QED BY <1>5, <2>3, <4>1 DEF Delivery!Report, q
    <3> QED BY <1>6, <1>8, <2>3, <3>1 DEF Delivery!DeliveryNext
  <2>4. CASE q.added # p.added /\ ~q.reductionDone
    <3>1. q.reductionDone = p.reductionDone BY <1>1, <1>2, <1>8, <2>4
    <3> QED BY <1>6, <1>8, <2>4, <3>1 DEF Delivery!DeliveryNext, p, q
  <2> QED BY <2>1, <2>2, <2>3, <2>4
<1> QED BY <1>7, <1>8

\* Every step maps to a step or a stutter.
LEMMA DeliveryStep ==
  PathInv /\ [Next]_vars => [Delivery!DeliveryNext]_(Delivery!deliveryVars)
<1> SUFFICES ASSUME PathInv, [Next]_vars
             PROVE  [Delivery!DeliveryNext]_(Delivery!deliveryVars)
  OBVIOUS
<1>1. ASSUME NEW b \in BG, Transfer(b) PROVE Delivery!Send(b)
  <2>1. SendsOne(path, path', b) BY <1>1, TransferStep
  <2>2. /\ Outputs(path) = [x \in BG |-> path.bg[x].lastOutput]
        /\ Outputs(path') = [x \in BG |-> path'.bg[x].lastOutput]
    BY DEF Outputs
  <2> QED BY <2>1, <2>2 DEF SendsOne, Delivery!Send
<1>2. ASSUME NEW b \in BG, Drain(b) PROVE UNCHANGED Delivery!deliveryVars
  BY <1>2 DEF Drain, Delivery!deliveryVars
<1>3. CASE Tick BY <1>3, TickStep, CycleDelivers
<1>4. CASE UNCHANGED vars BY <1>4 DEF vars, Delivery!deliveryVars
<1> QED BY <1>1, <1>2, <1>3, <1>4 DEF Next, Delivery!DeliveryNext

\* Every record is added once, those of a bank group in the order it sent them, and
\* completion is reported only when all of them are there (ImplementsDelivery).
THEOREM DeliveryImplemented == Spec => ImplementsDelivery
<1>1. Init => Delivery!DeliveryInit BY DeliveryStarts
<1>2. PathInv /\ [Next]_vars => [Delivery!DeliveryNext]_(Delivery!deliveryVars) BY DeliveryStep
<1> QED BY <1>1, <1>2, PathInvariant, PTL DEF Spec, ImplementsDelivery, Delivery!DeliverySpec
=============================================================================
