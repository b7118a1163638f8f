---------------------------- MODULE TallyProofs -----------------------------
(***************************************************************************)
(* How Tally changes with the function: what Shutdown and MarketBin count  *)
(* in many goroutines and Results in many shards, added up.                *)
(***************************************************************************)
EXTENDS Tally, FiniteSetTheorems, FunctionTheorems, TLAPS

\* The pairs that Tally counts.
LEMMA UnitsMember ==
    ASSUME NEW S, NEW f \in [S -> Nat]
    PROVE  \A p : p \in Units(f) <=> \E x \in S : \E k \in 1..f[x] : p = <<x, k>>
BY DEF Units

\* They are finitely many.
LEMMA UnitsFinite ==
    ASSUME NEW S, IsFiniteSet(S), NEW f \in [S -> Nat]
    PROVE  IsFiniteSet(Units(f)) /\ Tally(f) \in Nat
<1> DEFINE F == [x \in S |-> {x} \X (1..f[x])]
           T == {{x} \X (1..f[x]) : x \in S}
<1>1. F \in Surjection(S, T)
  BY DEF Surjection
<1>2. IsFiniteSet(T)
  BY <1>1, FS_Surjection
<1>3. \A t \in T : IsFiniteSet(t)
  <2>1. ASSUME NEW x \in S PROVE IsFiniteSet({x} \X (1..f[x]))
    <3>1. IsFiniteSet({x})
      BY FS_Singleton
    <3>2. IsFiniteSet(1..f[x])
      <4>1. f[x] \in Int /\ 1 \in Int
        OBVIOUS
      <4> QED
        BY <4>1, FS_Interval
    <3> QED
      BY <3>1, <3>2, FS_Product
  <2> QED
    BY <2>1
<1>4. Units(f) = UNION T
  BY DEF Units
<1> HIDE DEF T
<1>5. IsFiniteSet(Units(f))
  BY <1>2, <1>3, <1>4, FS_UNION
<1> QED
  BY <1>5, FS_CardinalityType DEF Tally

\* Changing one value changes the sum by the difference.
LEMMA TallyUpdate ==
    ASSUME NEW S, IsFiniteSet(S), NEW f \in [S -> Nat], NEW g \in [S -> Nat], NEW x \in S,
           \A y \in S : y # x => g[y] = f[y]
    PROVE  Tally(g) + f[x] = Tally(f) + g[x]
<1> DEFINE Rest == {p \in Units(f) : p[1] # x}
           Own(h) == {x} \X (1..h[x])
<1>1. IsFiniteSet(Units(f)) /\ IsFiniteSet(Rest)
  BY UnitsFinite, FS_Subset
<1>2. ASSUME NEW h \in [S -> Nat], \A y \in S : y # x => h[y] = f[y]
      PROVE  Tally(h) = Cardinality(Rest) + h[x]
  <2>1. IsFiniteSet(Own(h)) /\ Cardinality(Own(h)) = h[x]
    <3>1. IsFiniteSet({x}) /\ Cardinality({x}) = 1
      BY FS_Singleton
    <3>2. IsFiniteSet(1..h[x]) /\ Cardinality(1..h[x]) = h[x]
      BY FS_Interval
    <3>3. IsFiniteSet(Own(h)) /\ Cardinality(Own(h)) = Cardinality({x}) * Cardinality(1..h[x])
      BY <3>1, <3>2, FS_Product
    <3> QED
      BY <3>1, <3>2, <3>3
  <2>2. Units(h) = Rest \cup Own(h)
    <3>1. \A p : p \in Rest <=> \E y \in S : \E k \in 1..f[y] : p = <<y, k>> /\ y # x
      BY UnitsMember
    <3>2. \A p : p \in Own(h) <=> \E k \in 1..h[x] : p = <<x, k>>
      OBVIOUS
    <3>3. \A p : p \in Units(h) <=> \E y \in S : \E k \in 1..h[y] : p = <<y, k>>
      BY UnitsMember
    <3> HIDE DEF Rest, Own
    <3> QED
      BY <1>2, <3>1, <3>2, <3>3
  <2>3. Rest \cap Own(h) = {}
    BY UnitsMember
  <2> HIDE DEF Rest, Own
  <2>4. Cardinality(Rest \cup Own(h)) = Cardinality(Rest) + Cardinality(Own(h)) - Cardinality({})
    BY <1>1, <2>1, <2>3, FS_Union
  <2>5. Cardinality({}) = 0 /\ Cardinality(Rest) \in Nat
    BY <1>1, FS_EmptySet, FS_CardinalityType
  <2> QED
    BY <2>1, <2>2, <2>4, <2>5 DEF Tally
<1>3. Tally(f) = Cardinality(Rest) + f[x] /\ Tally(g) = Cardinality(Rest) + g[x]
  BY <1>2
<1>4. Cardinality(Rest) \in Nat
  BY <1>1, FS_CardinalityType
<1> HIDE DEF Rest
<1> QED
  BY <1>3, <1>4

\* Where g differs from f.
Changed(f, g) == {x \in DOMAIN f : g[x] # f[x]}

\* Adding one at some elements adds as many as they are.
LEMMA TallyAdd ==
    ASSUME NEW S, IsFiniteSet(S), NEW f \in [S -> Nat], NEW g \in [S -> Nat],
           \A y \in S : g[y] = f[y] \/ g[y] = f[y] + 1
    PROVE  Tally(g) = Tally(f) + Cardinality(Changed(f, g))
<1> DEFINE T == Changed(f, g)
<1>0. /\ T \subseteq S
      /\ \A y \in T : g[y] = f[y] + 1
      /\ \A y \in S : y \notin T => g[y] = f[y]
  BY DEF Changed
<1> HIDE DEF T
<1> DEFINE New == {<<y, f[y] + 1>> : y \in T}
           F == [y \in T |-> <<y, f[y] + 1>>]
<1>1. IsFiniteSet(T) /\ Cardinality(T) \in Nat
  BY <1>0, FS_Subset, FS_CardinalityType
<1>2. IsFiniteSet(New) /\ Cardinality(New) = Cardinality(T)
  <2>1. F \in Surjection(T, New) /\ F \in Injection(T, New)
    BY DEF Surjection, Injection, IsInjective
  <2> QED
    BY <1>1, <2>1, FS_Surjection
<1>3. \A p : p \in Units(f) <=> \E y \in S : \E k \in 1..f[y] : p = <<y, k>>
  BY UnitsMember
<1>4. \A p : p \in Units(g) <=> \E y \in S : \E k \in 1..g[y] : p = <<y, k>>
  BY UnitsMember
<1>5. \A p : p \in New <=> \E y \in T : p = <<y, f[y] + 1>>
  OBVIOUS
<1> HIDE DEF New
<1>6. Units(g) = Units(f) \cup New
  <2>1. ASSUME NEW p \in Units(g) PROVE p \in Units(f) \cup New
    <3>0. PICK y \in S : \E k \in 1..g[y] : p = <<y, k>>
      BY <1>4, <2>1
    <3>1. PICK k \in 1..g[y] : p = <<y, k>>
      BY <3>0
    <3>2. CASE k \in 1..f[y]
      BY <1>3, <3>1, <3>2
    <3>3. CASE k \notin 1..f[y]
      <4>1. y \in T /\ k = f[y] + 1
        BY <1>0, <3>1, <3>3
      <4> QED
        BY <1>5, <3>1, <4>1
    <3> QED
      BY <3>2, <3>3
  <2>2. ASSUME NEW p \in Units(f) PROVE p \in Units(g)
    <3>0. PICK y \in S : \E k \in 1..f[y] : p = <<y, k>>
      BY <1>3, <2>2
    <3>1. PICK k \in 1..f[y] : p = <<y, k>>
      BY <3>0
    <3>2. k \in 1..g[y]
      BY <1>0, <3>1
    <3> QED
      BY <1>4, <3>1, <3>2
  <2>3. ASSUME NEW p \in New PROVE p \in Units(g)
    <3>1. PICK y \in T : p = <<y, f[y] + 1>>
      BY <1>5, <2>3
    <3>2. y \in S /\ f[y] + 1 \in 1..g[y]
      BY <1>0
    <3> QED
      BY <1>4, <3>1, <3>2
  <2> QED
    BY <2>1, <2>2, <2>3
<1>7. Units(f) \cap New = {}
  <2>1. ASSUME NEW p \in Units(f), p \in New PROVE FALSE
    <3>0. PICK y \in S : \E k \in 1..f[y] : p = <<y, k>>
      BY <1>3, <2>1
    <3>1. PICK k \in 1..f[y] : p = <<y, k>>
      BY <3>0
    <3>2. PICK z \in T : p = <<z, f[z] + 1>>
      BY <1>5, <2>1
    <3>3. y = z /\ k = f[y] + 1
      BY <1>0, <3>1, <3>2
    <3> QED
      BY <3>1, <3>3
  <2> QED
    BY <2>1
<1>8. IsFiniteSet(Units(f)) /\ Tally(f) \in Nat
  BY UnitsFinite
<1>9. Cardinality(Units(f) \cup New) = Cardinality(Units(f)) + Cardinality(New) - Cardinality({})
  BY <1>2, <1>7, <1>8, FS_Union
<1>10. Cardinality({}) = 0
  BY FS_EmptySet
<1> QED
  BY <1>1, <1>2, <1>6, <1>8, <1>9, <1>10 DEF Tally, T

\* Growing at each element by no more than the size of a set of its own, where
\* these sets are disjoint, adds no more than all of them have.
LEMMA TallySpread ==
    ASSUME NEW S, IsFiniteSet(S), NEW f \in [S -> Nat], NEW g \in [S -> Nat],
           NEW K, IsFiniteSet(K), NEW own \in [S -> SUBSET K],
           \A x, y \in S : x # y => own[x] \cap own[y] = {},
           \A x \in S : g[x] <= f[x] + Cardinality(own[x])
    PROVE  Tally(g) <= Tally(f) + Cardinality(K)
<1> DEFINE New == Units(g) \ Units(f)
           nth == [x \in S |-> CHOOSE h : h \in Bijection(1..Cardinality(own[x]), own[x])]
           F == [p \in New |-> nth[p[1]][p[2] - f[p[1]]]]
<1>1. ASSUME NEW x \in S
      PROVE  /\ Cardinality(own[x]) \in Nat
             /\ nth[x] \in Bijection(1..Cardinality(own[x]), own[x])
  <2>1. IsFiniteSet(own[x])
    BY FS_Subset
  <2>2. Cardinality(own[x]) \in Nat /\ ExistsBijection(1..Cardinality(own[x]), own[x])
    BY <2>1, FS_CardinalityType
  <2>3. \E h : h \in Bijection(1..Cardinality(own[x]), own[x])
    BY <2>2 DEF ExistsBijection
  <2> QED
    BY <2>2, <2>3
<1> HIDE DEF nth
<1>2. ASSUME NEW x \in S
      PROVE  /\ nth[x] \in [1..Cardinality(own[x]) -> own[x]]
             /\ \A a, b \in 1..Cardinality(own[x]) : nth[x][a] = nth[x][b] => a = b
  BY <1>1, Fun_BijectionProperties
<1>3. ASSUME NEW p \in New
      PROVE  \E x \in S : \E j \in 1..Cardinality(own[x]) : p = <<x, f[x] + j>> /\ p[2] - f[p[1]] = j
  <2>0. PICK x \in S : \E k \in 1..g[x] : p = <<x, k>>
    BY UnitsMember
  <2>1. PICK k \in 1..g[x] : p = <<x, k>>
    BY <2>0
  <2>2. k \notin 1..f[x]
    BY <2>1, UnitsMember
  <2>3. f[x] \in Nat /\ g[x] \in Nat /\ Cardinality(own[x]) \in Nat /\ g[x] <= f[x] + Cardinality(own[x])
    BY <1>1
  <2>4. k - f[x] \in 1..Cardinality(own[x]) /\ k = f[x] + (k - f[x])
    BY <2>2, <2>3
  <2> QED
    BY <2>1, <2>4
<1>4. F \in Injection(New, K)
  <2>1. ASSUME NEW p \in New PROVE F[p] \in K
    <3>0. PICK x \in S : \E j \in 1..Cardinality(own[x]) : p = <<x, f[x] + j>> /\ p[2] - f[p[1]] = j
      BY <1>3
    <3>1. PICK j \in 1..Cardinality(own[x]) : p = <<x, f[x] + j>> /\ p[2] - f[p[1]] = j
      BY <3>0
    <3>2. F[p] = nth[x][j]
      BY <3>1
    <3> QED
      BY <1>2, <3>2
  <2>2. ASSUME NEW p \in New, NEW q \in New, F[p] = F[q] PROVE p = q
    <3>0. PICK x \in S : \E j \in 1..Cardinality(own[x]) : p = <<x, f[x] + j>> /\ p[2] - f[p[1]] = j
      BY <1>3
    <3>1. PICK j \in 1..Cardinality(own[x]) : p = <<x, f[x] + j>> /\ p[2] - f[p[1]] = j
      BY <3>0
    <3>2. PICK y \in S : \E i \in 1..Cardinality(own[y]) : q = <<y, f[y] + i>> /\ q[2] - f[q[1]] = i
      BY <1>3
    <3>3. PICK i \in 1..Cardinality(own[y]) : q = <<y, f[y] + i>> /\ q[2] - f[q[1]] = i
      BY <3>2
    <3>4. nth[x][j] = nth[y][i]
      <4>1. F[p] = nth[x][j]
        BY <3>1
      <4>2. F[q] = nth[y][i]
        BY <3>3
      <4> QED
        BY <2>2, <4>1, <4>2
    <3>5. nth[x][j] \in own[x] /\ nth[y][i] \in own[y]
      <4>1. nth[x] \in [1..Cardinality(own[x]) -> own[x]]
        BY <1>2
      <4>2. nth[y] \in [1..Cardinality(own[y]) -> own[y]]
        BY <1>2
      <4>3. nth[x][j] \in own[x]
        BY <3>1, <4>1
      <4>4. nth[y][i] \in own[y]
        BY <3>3, <4>2
      <4> QED
        BY <4>3, <4>4
    <3>6. x = y
      BY <3>4, <3>5
    <3>7. i = j
      BY <1>2, <3>4, <3>6
    <3> QED
      BY <3>1, <3>3, <3>6, <3>7
  <2> HIDE DEF New
  <2> QED
    BY <2>1, <2>2 DEF Injection, IsInjective
<1>5. IsFiniteSet(New) /\ Cardinality(New) <= Cardinality(K)
  <2> HIDE DEF New, F
  <2> QED
    BY <1>4, FS_Injection
<1>6. IsFiniteSet(Units(f)) /\ IsFiniteSet(Units(g)) /\ Tally(f) \in Nat /\ Tally(g) \in Nat
  BY UnitsFinite
<1>7. /\ IsFiniteSet(Units(f) \cup New)
      /\ Cardinality(Units(f) \cup New) = Cardinality(Units(f)) + Cardinality(New) - Cardinality(Units(f) \cap New)
  <2> HIDE DEF New
  <2> QED
    BY <1>5, <1>6, FS_Union
<1>8. Cardinality(Units(g)) <= Cardinality(Units(f) \cup New)
  <2>1. Units(g) \in SUBSET (Units(f) \cup New)
    OBVIOUS
  <2> HIDE DEF New
  <2> QED
    BY <1>7, <2>1, FS_Subset
<1>9. Units(f) \cap New = {} /\ Cardinality({}) = 0
  BY FS_EmptySet
<1>10. Cardinality(New) \in Nat /\ Cardinality(K) \in Nat
  <2> HIDE DEF New
  <2> QED
    BY <1>5, FS_CardinalityType
<1> HIDE DEF New
<1> QED
  BY <1>5, <1>6, <1>7, <1>8, <1>9, <1>10 DEF Tally

\* A function that is zero everywhere.
LEMMA TallyZero ==
    ASSUME NEW S, NEW f \in [S -> Nat], \A x \in S : f[x] = 0
    PROVE  Tally(f) = 0
<1>1. Units(f) = {}
  BY UnitsMember
<1> QED
  BY <1>1, FS_EmptySet DEF Tally

\* A function on one place, and on two.
LEMMA TallyOne ==
    ASSUME NEW a, NEW f \in [{a} -> Nat]
    PROVE  Tally(f) = f[a]
<1> DEFINE z == [x \in {a} |-> 0]
<1>1. z \in [{a} -> Nat] /\ z[a] = 0 /\ IsFiniteSet({a})
  BY FS_Singleton
<1>2. Tally(z) = 0
  BY <1>1, TallyZero
<1> HIDE DEF z
<1>3. \A y \in {a} : y # a => z[y] = f[y]
  OBVIOUS
<1>4. a \in {a}
  OBVIOUS
<1>5. Tally(z) + f[a] = Tally(f) + z[a]
  BY <1>1, <1>3, <1>4, TallyUpdate
<1>6. Tally(f) \in Nat /\ f[a] \in Nat
  BY <1>1, UnitsFinite
<1> QED
  BY <1>1, <1>2, <1>5, <1>6

LEMMA TallyTwo ==
    ASSUME NEW a, NEW b, a # b, NEW f \in [{a, b} -> Nat]
    PROVE  Tally(f) = f[a] + f[b]
<1> DEFINE z == [x \in {a, b} |-> 0]
           g == [x \in {a, b} |-> IF x = a THEN f[a] ELSE 0]
<1>0. f[a] \in Nat /\ f[b] \in Nat
  OBVIOUS
<1>1. /\ z \in [{a, b} -> Nat] /\ z[a] = 0
      /\ g \in [{a, b} -> Nat] /\ g[a] = f[a] /\ g[b] = 0
      /\ \A y \in {a, b} : z[y] = 0
      /\ \A y \in {a, b} : y # a => z[y] = g[y]
      /\ \A y \in {a, b} : y # b => g[y] = f[y]
  BY <1>0
<1>2. IsFiniteSet({a, b}) /\ a \in {a, b} /\ b \in {a, b}
  <2>1. IsFiniteSet({a} \cup {b})
    BY FS_Singleton, FS_AddElement
  <2>2. {a} \cup {b} = {a, b}
    OBVIOUS
  <2> QED
    BY <2>1, <2>2
<1> HIDE DEF z, g
<1>3. Tally(z) = 0
  BY <1>1, TallyZero
<1>4. Tally(z) + g[a] = Tally(g) + z[a]
  BY <1>1, <1>2, TallyUpdate
<1>5. Tally(g) + f[b] = Tally(f) + g[b]
  BY <1>1, <1>2, TallyUpdate
<1>6. Tally(f) \in Nat /\ Tally(g) \in Nat
  BY <1>1, <1>2, UnitsFinite
<1> QED
  BY <1>0, <1>1, <1>3, <1>4, <1>5, <1>6

\* Two functions with the same units, one on fewer places: the others are zero.
LEMMA TallyZeros ==
    ASSUME NEW S, NEW T, T \subseteq S, NEW f \in [S -> Nat], NEW g \in [T -> Nat],
           \A x \in T : g[x] = f[x], \A x \in S : x \notin T => f[x] = 0
    PROVE  Tally(f) = Tally(g)
<1>1. \A p : p \in Units(f) <=> \E x \in S : \E k \in 1..f[x] : p = <<x, k>>
  BY UnitsMember
<1>2. \A p : p \in Units(g) <=> \E x \in T : \E k \in 1..g[x] : p = <<x, k>>
  BY UnitsMember
<1>3. ASSUME NEW x \in S, NEW k \in 1..f[x] PROVE x \in T /\ k \in 1..g[x]
  OBVIOUS
<1>4. Units(f) = Units(g)
  BY <1>1, <1>2, <1>3
<1> QED
  BY <1>4 DEF Tally

\* One place more.
LEMMA TallyExtend ==
    ASSUME NEW S, IsFiniteSet(S), NEW T, NEW x \in S, T = S \ {x},
           NEW f \in [S -> Nat], NEW g \in [T -> Nat], \A y \in T : g[y] = f[y]
    PROVE  Tally(f) = Tally(g) + f[x]
<1> DEFINE h == [y \in S |-> IF y = x THEN 0 ELSE f[y]]
<1>1. /\ h \in [S -> Nat] /\ h[x] = 0
      /\ \A y \in S : y # x => h[y] = f[y]
      /\ \A y \in T : g[y] = h[y]
      /\ \A y \in S : y \notin T => h[y] = 0
  OBVIOUS
<1> HIDE DEF h
<1>2. Tally(h) = Tally(g)
  <2>1. T \subseteq S
    OBVIOUS
  <2> QED
    BY <1>1, <2>1, TallyZeros
<1>3. Tally(h) + f[x] = Tally(f) + h[x]
  BY <1>1, TallyUpdate
<1>4. Tally(f) \in Nat /\ Tally(h) \in Nat /\ f[x] \in Nat
  BY <1>1, UnitsFinite
<1> QED
  BY <1>1, <1>2, <1>3, <1>4

\* The places in two parts.
Parts(S, A, B) == S = A \cup B /\ A \cap B = {}

LEMMA TallySplit ==
    ASSUME NEW S, IsFiniteSet(S), NEW A, NEW B, Parts(S, A, B),
           NEW f \in [S -> Nat], NEW g \in [A -> Nat], NEW h \in [B -> Nat],
           \A x \in A : g[x] = f[x], \A x \in B : h[x] = f[x]
    PROVE  Tally(f) = Tally(g) + Tally(h)
<1>0. S = A \cup B /\ A \cap B = {}
  BY DEF Parts
<1>1. \A p : p \in Units(f) <=> \E x \in S : \E k \in 1..f[x] : p = <<x, k>>
  BY UnitsMember
<1>2. \A p : p \in Units(g) <=> \E x \in A : \E k \in 1..g[x] : p = <<x, k>>
  BY UnitsMember
<1>3. \A p : p \in Units(h) <=> \E x \in B : \E k \in 1..h[x] : p = <<x, k>>
  BY UnitsMember
<1>4. Units(f) = Units(g) \cup Units(h)
  <2>1. ASSUME NEW p \in Units(f) PROVE p \in Units(g) \cup Units(h)
    <3>1. PICK x \in S : \E k \in 1..f[x] : p = <<x, k>>
      BY <1>1
    <3>2. CASE x \in A
      BY <1>2, <3>1, <3>2
    <3>3. CASE x \in B
      BY <1>3, <3>1, <3>3
    <3> QED
      BY <1>0, <3>2, <3>3
  <2>2. ASSUME NEW p \in Units(g) PROVE p \in Units(f)
    BY <1>0, <1>1, <1>2
  <2>3. ASSUME NEW p \in Units(h) PROVE p \in Units(f)
    BY <1>0, <1>1, <1>3
  <2> QED
    BY <2>1, <2>2, <2>3
<1>5. Units(g) \cap Units(h) = {}
  BY <1>0, <1>2, <1>3
<1>6. IsFiniteSet(A) /\ IsFiniteSet(B)
  <2>1. A \subseteq S /\ B \subseteq S
    BY <1>0
  <2> QED
    BY <2>1, FS_Subset
<1>7. /\ IsFiniteSet(Units(g)) /\ IsFiniteSet(Units(h))
      /\ Cardinality(Units(g)) \in Nat /\ Cardinality(Units(h)) \in Nat
  BY <1>6, UnitsFinite DEF Tally
<1>8. Cardinality(Units(g) \cup Units(h))
        = Cardinality(Units(g)) + Cardinality(Units(h)) - Cardinality({})
  BY <1>5, <1>7, FS_Union
<1> QED
  BY <1>4, <1>7, <1>8, FS_EmptySet DEF Tally

\* Fewer places.
LEMMA TallyPart ==
    ASSUME NEW S, IsFiniteSet(S), NEW A, A \subseteq S,
           NEW f \in [S -> Nat], NEW g \in [A -> Nat], \A x \in A : g[x] = f[x]
    PROVE  Tally(g) \in Nat /\ Tally(f) \in Nat /\ Tally(g) <= Tally(f)
<1> DEFINE B == S \ A
           h == [x \in B |-> f[x]]
<1>1. Parts(S, A, B) /\ h \in [B -> Nat] /\ \A x \in B : h[x] = f[x]
  BY DEF Parts
<1>2. IsFiniteSet(A) /\ IsFiniteSet(B)
  BY FS_Subset
<1> HIDE DEF h, B
<1>3. Tally(f) = Tally(g) + Tally(h)
  BY <1>1, TallySplit
<1>4. Tally(f) \in Nat /\ Tally(g) \in Nat /\ Tally(h) \in Nat
  BY <1>1, <1>2, UnitsFinite
<1> QED
  BY <1>3, <1>4

LEMMA TallyAtLeast ==
    ASSUME NEW S, IsFiniteSet(S), NEW f \in [S -> Nat], NEW x \in S
    PROVE  f[x] <= Tally(f)
<1> DEFINE g == [y \in {x} |-> f[y]]
<1>1. g \in [{x} -> Nat] /\ g[x] = f[x] /\ {x} \subseteq S /\ \A y \in {x} : g[y] = f[y]
  OBVIOUS
<1> HIDE DEF g
<1>2. Tally(g) = g[x]
  BY <1>1, TallyOne
<1>3. Tally(g) <= Tally(f)
  BY <1>1, TallyPart
<1> QED
  BY <1>1, <1>2, <1>3
=============================================================================
