--------------------------- MODULE ThresholdsProofs ---------------------------
(***************************************************************************)
(* Proofs about Thresholds, for any machines, pools, loads and thresholds, *)
(* and any number of changes between the requests.                         *)
(***************************************************************************)
EXTENDS Thresholds, Integers, FiniteSetTheorems, WellFoundedInduction, TLAPS

-----------------------------------------------------------------------------
(* Induction.                                                               *)

LEMMA Least ==
  ASSUME NEW T \in SUBSET Nat, T # {}
  PROVE  \E x \in T : \A y \in T : x <= y
<1>1. PICK x \in T : \A y \in T : ~ (<<y, x>> \in OpToRel(<, Nat))
  BY NatLessThanWellFounded, WFMin
<1>2. ASSUME NEW y \in T PROVE x <= y
  <2>1. <<y, x>> \in OpToRel(<, Nat) <=> y < x
    BY DEF OpToRel
  <2>2. ~ (y < x) /\ x \in Nat /\ y \in Nat
    BY <1>1, <2>1
  <2>3. QED
    BY <2>2
<1>3. QED
  BY <1>2

\* Induction, said of a set: it has every number if it has 0 and the successors of its own.
LEMMA Induction ==
  ASSUME NEW N, 0 \in N, \A n \in Nat : n \in N => n + 1 \in N
  PROVE  Nat \subseteq N
<1> SUFFICES ASSUME Nat \ N # {} PROVE FALSE
  OBVIOUS
<1>1. PICK n \in Nat \ N : \A m \in Nat \ N : n <= m
  BY Least
<1>2. n - 1 \in Nat /\ n - 1 \in N
  BY <1>1
<1>3. QED
  BY <1>1, <1>2

\* ... and of finite sets: a family has all subsets of S if it has the empty set and
\* every set from which removing an element, whichever it is, leaves one of its own.
LEMMA SubsetInduction ==
  ASSUME NEW S, IsFiniteSet(S), NEW F, {} \in F,
         \A s \in SUBSET S : s # {} /\ (\A x \in s : s \ {x} \in F) => s \in F
  PROVE  SUBSET S \subseteq F
<1> DEFINE N == {n \in Nat : \A s \in SUBSET S : Cardinality(s) = n => s \in F}
<1>1. \A s \in SUBSET S : IsFiniteSet(s) /\ Cardinality(s) \in Nat
  BY FS_Subset, FS_CardinalityType
<1>2. 0 \in N
  BY <1>1, FS_EmptySet
<1>3. ASSUME NEW n \in Nat, n \in N PROVE n + 1 \in N
  <2> SUFFICES ASSUME NEW s \in SUBSET S, Cardinality(s) = n + 1 PROVE s \in F
    OBVIOUS
  <2>1. s # {}
    <3>1. Cardinality(s) # 0
      OBVIOUS
    <3>2. QED
      BY <1>1, <3>1, FS_EmptySet
  <2>2. ASSUME NEW x \in s PROVE s \ {x} \in F
    <3>1. Cardinality(s \ {x}) = n
      BY <1>1, FS_RemoveElement
    <3>2. QED
      BY <1>3, <3>1
  <2>3. QED
    BY <2>1, <2>2
<1> HIDE DEF N
<1>4. Nat \subseteq N
  BY <1>2, <1>3, Induction
<1>5. QED
  BY <1>1, <1>4 DEF N

-----------------------------------------------------------------------------
(* Sums.                                                                    *)

Some(s) == CHOOSE x \in s : TRUE
Adds(g, f, S) == g = [s \in SUBSET S |-> IF s = {} THEN 0 ELSE f[Some(s)] + g[s \ {Some(s)}]]

LEMMA SumUnfolded ==
  ASSUME NEW f, NEW S
  PROVE  Sum(f, S) = (CHOOSE g : Adds(g, f, S))[S]
BY DEF Sum, MapThenSumSet, MapThenFoldSet, Adds, Some

\* The function the fold is taken from exists: with it for the sets of at most n elements,
\* it is there for those of at most n + 1.
LEMMA AddsExists ==
  ASSUME NEW S, IsFiniteSet(S), NEW f, \A x \in S : f[x] \in Nat
  PROVE  \E g : Adds(g, f, S)
<1> DEFINE Step(g, s) == IF s = {} THEN 0 ELSE f[Some(s)] + g[s \ {Some(s)}]
           N == {n \in Nat : \E g \in [SUBSET S -> Nat] :
                   \A s \in SUBSET S : Cardinality(s) <= n => g[s] = Step(g, s)}
<1>1. \A s \in SUBSET S : IsFiniteSet(s) /\ Cardinality(s) \in Nat /\ Cardinality(s) <= Cardinality(S)
  BY FS_Subset, FS_CardinalityType
<1>2. \A s \in SUBSET S : s # {} => Some(s) \in s
  BY DEF Some
<1>3. 0 \in N
  <2>1. [s \in SUBSET S |-> 0] \in [SUBSET S -> Nat]
    OBVIOUS
  <2>2. \A s \in SUBSET S : Cardinality(s) <= 0 => s = {}
    BY <1>1, FS_EmptySet
  <2>3. QED
    BY <2>1, <2>2
<1>4. ASSUME NEW n \in Nat, n \in N PROVE n + 1 \in N
  <2>1. PICK g \in [SUBSET S -> Nat] : \A s \in SUBSET S : Cardinality(s) <= n => g[s] = Step(g, s)
    BY <1>4
  <2> DEFINE h == [s \in SUBSET S |-> Step(g, s)]
  <2>2. h \in [SUBSET S -> Nat]
    BY <1>2
  <2>3. ASSUME NEW s \in SUBSET S, Cardinality(s) <= n + 1 PROVE h[s] = Step(h, s)
    <3>1. CASE s = {}
      BY <3>1
    <3>2. CASE s # {}
      <4> DEFINE t == s \ {Some(s)}
      <4>1. t \in SUBSET S /\ Cardinality(t) = Cardinality(s) - 1
        BY <1>1, <1>2, <3>2, FS_RemoveElement
      <4>2. Cardinality(t) <= n
        BY <1>1, <2>3, <4>1
      <4> HIDE DEF t
      <4>3. g[t] = h[t]
        BY <2>1, <4>1, <4>2
      <4>4. QED
        BY <3>2, <4>3 DEF t
    <3>3. QED
      BY <3>1, <3>2
  <2> HIDE DEF h
  <2>4. QED
    BY <2>2, <2>3
<1>5. Cardinality(S) \in N
  <2> HIDE DEF N
  <2>1. QED
    BY <1>1, <1>3, <1>4, Induction
<1>6. PICK g \in [SUBSET S -> Nat] : \A s \in SUBSET S : Cardinality(s) <= Cardinality(S) => g[s] = Step(g, s)
  BY <1>5
<1>7. \A s \in SUBSET S : g[s] = Step(g, s)
  BY <1>1, <1>6
<1>8. g = [s \in SUBSET S |-> Step(g, s)]
  BY <1>6, <1>7
<1>9. QED
  BY <1>8 DEF Adds

\* In whichever order the elements are taken, the sum is the same.
LEMMA AnyOrder ==
  ASSUME NEW S, IsFiniteSet(S), NEW f, \A x \in S : f[x] \in Nat, NEW g, Adds(g, f, S)
  PROVE  /\ g[{}] = 0
         /\ \A s \in SUBSET S : g[s] \in Nat /\ \A x \in s : g[s] = f[x] + g[s \ {x}]
<1>1. /\ g[{}] = 0
      /\ \A s \in SUBSET S : s # {} => Some(s) \in s /\ g[s] = f[Some(s)] + g[s \ {Some(s)}]
  BY DEF Adds, Some
<1>2. \A s \in SUBSET S : g[s] \in Nat
  <2> DEFINE F == {s \in SUBSET S : g[s] \in Nat}
  <2>1. ASSUME NEW s \in SUBSET S, s # {}, \A x \in s : s \ {x} \in F PROVE s \in F
    <3>1. Some(s) \in s /\ g[s] = f[Some(s)] + g[s \ {Some(s)}]
      BY <1>1, <2>1
    <3>2. f[Some(s)] \in Nat /\ g[s \ {Some(s)}] \in Nat
      BY <2>1, <3>1
    <3>3. QED
      BY <3>1, <3>2
  <2>2. {} \in F
    BY <1>1
  <2>3. SUBSET S \subseteq F
    <3> HIDE DEF F
    <3>1. QED
      BY <2>1, <2>2, SubsetInduction
  <2>4. QED
    BY <2>3
<1> DEFINE F == {s \in SUBSET S : \A x \in s : g[s] = f[x] + g[s \ {x}]}
<1>3. ASSUME NEW s \in SUBSET S, s # {}, \A x \in s : s \ {x} \in F PROVE s \in F
  <2> DEFINE c == Some(s)
  <2>1. c \in s /\ g[s] = f[c] + g[s \ {c}] /\ f[c] \in Nat
    BY <1>1, <1>3
  <2> HIDE DEF c
  <2>2. ASSUME NEW x \in s PROVE g[s] = f[x] + g[s \ {x}]
    <3>1. CASE x = c
      BY <2>1, <3>1
    <3>2. CASE x # c
      <4> DEFINE t == (s \ {c}) \ {x}
      <4>1. s \ {x} \in F /\ s \ {c} \in F /\ x \in s \ {c} /\ c \in s \ {x} /\ f[x] \in Nat
        BY <1>3, <2>1, <3>2
      <4>2. t = (s \ {x}) \ {c} /\ t \in SUBSET S
        OBVIOUS
      <4> HIDE DEF t
      <4>3. g[s \ {c}] = f[x] + g[t] /\ g[s \ {x}] = f[c] + g[t]
        BY <4>1, <4>2 DEF t
      <4>4. g[t] \in Nat
        BY <1>2, <4>2
      <4>5. QED
        BY <2>1, <4>1, <4>3, <4>4
    <3>3. QED
      BY <3>1, <3>2
  <2>3. QED
    BY <2>2
<1>4. {} \in F
  OBVIOUS
<1>5. SUBSET S \subseteq F
  <2> HIDE DEF F
  <2>1. QED
    BY <1>3, <1>4, SubsetInduction
<1>6. QED
  BY <1>1, <1>2, <1>5

\* The sum over a subset is what the function of a larger set has for it.
LEMMA AddsIsSum ==
  ASSUME NEW S, IsFiniteSet(S), NEW f, \A x \in S : f[x] \in Nat, NEW g, Adds(g, f, S),
         NEW T \in SUBSET S
  PROVE  g[T] = Sum(f, T)
<1> DEFINE h == CHOOSE k : Adds(k, f, T)
<1>1. IsFiniteSet(T) /\ \A x \in T : f[x] \in Nat
  BY FS_Subset
<1>2. Adds(h, f, T)
  BY <1>1, AddsExists
<1>3. h[T] = Sum(f, T)
  BY SumUnfolded
<1> HIDE DEF h
<1>4. h[{}] = 0 /\ \A s \in SUBSET T : \A x \in s : h[s] = f[x] + h[s \ {x}]
  BY <1>1, <1>2, AnyOrder
<1>5. g[{}] = 0 /\ \A s \in SUBSET T : \A x \in s : g[s] = f[x] + g[s \ {x}]
  <2>1. /\ g[{}] = 0
        /\ \A s \in SUBSET S : g[s] \in Nat /\ \A x \in s : g[s] = f[x] + g[s \ {x}]
    BY AnyOrder
  <2>2. QED
    BY <2>1
<1> DEFINE F == {s \in SUBSET T : h[s] = g[s]}
<1>6. ASSUME NEW s \in SUBSET T, s # {}, \A x \in s : s \ {x} \in F PROVE s \in F
  BY <1>4, <1>5, <1>6
<1>7. {} \in F
  BY <1>4, <1>5
<1>8. SUBSET T \subseteq F
  <2> HIDE DEF F
  <2>1. QED
    BY <1>1, <1>6, <1>7, SubsetInduction
<1>9. QED
  BY <1>3, <1>8

LEMMA SumProperties ==
  ASSUME NEW S, IsFiniteSet(S), NEW f, \A x \in S : f[x] \in Nat
  PROVE  /\ Sum(f, {}) = 0
         /\ \A s \in SUBSET S : Sum(f, s) \in Nat /\ \A x \in s : Sum(f, s) = f[x] + Sum(f, s \ {x})
<1>1. PICK g : Adds(g, f, S)
  BY AddsExists
<1>2. \A s \in SUBSET S : g[s] = Sum(f, s)
  BY <1>1, AddsIsSum
<1>3. /\ g[{}] = 0
      /\ \A s \in SUBSET S : g[s] \in Nat /\ \A x \in s : g[s] = f[x] + g[s \ {x}]
  BY <1>1, AnyOrder
<1>4. {} \in SUBSET S /\ \A s \in SUBSET S : \A x \in s : s \ {x} \in SUBSET S
  OBVIOUS
<1>5. QED
  BY <1>2, <1>3, <1>4

LEMMA SumSame ==
  ASSUME NEW S, IsFiniteSet(S), NEW f, NEW h, \A x \in S : f[x] \in Nat /\ h[x] = f[x]
  PROVE  Sum(h, S) = Sum(f, S)
<1> DEFINE F == {s \in SUBSET S : Sum(h, s) = Sum(f, s)}
<1>1. /\ Sum(f, {}) = 0 /\ Sum(h, {}) = 0
      /\ \A s \in SUBSET S : \A x \in s : /\ Sum(f, s) = f[x] + Sum(f, s \ {x})
                                          /\ Sum(h, s) = h[x] + Sum(h, s \ {x})
  BY SumProperties
<1>2. ASSUME NEW s \in SUBSET S, s # {}, \A x \in s : s \ {x} \in F PROVE s \in F
  BY <1>1, <1>2
<1>3. {} \in F
  BY <1>1
<1>4. SUBSET S \subseteq F
  <2> HIDE DEF F
  <2>1. QED
    BY <1>2, <1>3, SubsetInduction
<1>5. QED
  BY <1>4

LEMMA SumUnion ==
  ASSUME NEW S, NEW T, IsFiniteSet(S), IsFiniteSet(T), NEW f, \A x \in S \cup T : f[x] \in Nat
  PROVE  /\ Sum(f, S \cup T) <= Sum(f, S) + Sum(f, T)
         /\ S \cap T = {} => Sum(f, S \cup T) = Sum(f, S) + Sum(f, T)
<1> DEFINE U == S \cup T
           F == {s \in SUBSET T : /\ Sum(f, S \cup s) <= Sum(f, S) + Sum(f, s)
                                  /\ S \cap s = {} => Sum(f, S \cup s) = Sum(f, S) + Sum(f, s)}
<1>1. /\ Sum(f, {}) = 0
      /\ \A s \in SUBSET U : Sum(f, s) \in Nat /\ \A x \in s : Sum(f, s) = f[x] + Sum(f, s \ {x})
  <2>1. IsFiniteSet(U)
    BY FS_Union
  <2>2. QED
    BY <2>1, SumProperties
<1>2. ASSUME NEW s \in SUBSET T, s # {}, \A x \in s : s \ {x} \in F PROVE s \in F
  <2>1. PICK x \in s : TRUE
    BY <1>2
  <2> DEFINE r == s \ {x}
  <2>2. /\ Sum(f, S \cup r) <= Sum(f, S) + Sum(f, r)
        /\ S \cap r = {} => Sum(f, S \cup r) = Sum(f, S) + Sum(f, r)
    BY <1>2
  <2>3. /\ Sum(f, s) = f[x] + Sum(f, r) /\ f[x] \in Nat
        /\ Sum(f, S) \in Nat /\ Sum(f, r) \in Nat /\ Sum(f, S \cup r) \in Nat
    <3>1. s \in SUBSET U /\ r \in SUBSET U /\ S \in SUBSET U /\ S \cup r \in SUBSET U /\ x \in U
      OBVIOUS
    <3> HIDE DEF U
    <3>2. f[x] \in Nat
      BY <3>1 DEF U
    <3>3. QED
      BY <1>1, <3>1, <3>2
  <2>4. CASE x \in S
    <3>1. S \cup s = S \cup r /\ S \cap s # {}
      BY <2>4
    <3> HIDE DEF r
    <3>2. QED
      BY <2>2, <2>3, <3>1
  <2>5. CASE x \notin S
    <3>1. S \cup r = (S \cup s) \ {x} /\ (S \cap s = {} => S \cap r = {}) /\ x \in S \cup s /\ S \cup s \in SUBSET U
      BY <2>5
    <3>2. Sum(f, S \cup s) = f[x] + Sum(f, S \cup r)
      BY <1>1, <3>1
    <3> HIDE DEF r, U
    <3>3. QED
      BY <2>2, <2>3, <3>1, <3>2
  <2>6. QED
    BY <2>4, <2>5
<1>3. {} \in F
  <2>1. S \cup {} = S /\ S \in SUBSET U
    OBVIOUS
  <2> HIDE DEF U
  <2>2. Sum(f, S) \in Nat
    BY <1>1, <2>1
  <2>3. QED
    BY <1>1, <2>1, <2>2
<1>4. SUBSET T \subseteq F
  <2> HIDE DEF F
  <2>1. QED
    BY <1>2, <1>3, SubsetInduction
<1>5. QED
  BY <1>4

LEMMA SumMonotone ==
  ASSUME NEW S, IsFiniteSet(S), NEW T \in SUBSET S, NEW f, \A x \in S : f[x] \in Nat
  PROVE  Sum(f, T) <= Sum(f, S) /\ Sum(f, T) \in Nat /\ Sum(f, S) \in Nat
<1>1. S = T \cup (S \ T) /\ T \cap (S \ T) = {} /\ S \ T \in SUBSET S
  OBVIOUS
<1>2. IsFiniteSet(T) /\ IsFiniteSet(S \ T)
  BY <1>1, FS_Subset
<1>3. Sum(f, S) = Sum(f, T) + Sum(f, S \ T)
  BY <1>1, <1>2, SumUnion
<1>4. Sum(f, T) \in Nat /\ Sum(f, S \ T) \in Nat /\ Sum(f, S) \in Nat
  BY <1>1, SumProperties
<1>5. QED
  BY <1>3, <1>4

-----------------------------------------------------------------------------
(* What is measured.                                                        *)

Usages == [c \in Containers |-> Usage(c)]

LEMMA UsageType ==
  ASSUME TypeOK
  PROVE  /\ \A c : On(c) \in SUBSET VMs /\ IsFiniteSet(On(c)) /\ Usage(c) \in Nat
         /\ Used \in Nat
<1>1. IsFiniteSet(VMs) /\ \A v \in VMs : load[v] \in Nat
  BY ThresholdsAssumption DEF TypeOK
<1>2. \A c : On(c) \in SUBSET VMs
  BY DEF On
<1>3. \A c : Usage(c) \in Nat
  <2>1. \A S \in SUBSET VMs : Sum(load, S) \in Nat
    BY <1>1, SumProperties
  <2>2. QED
    BY <1>2, <2>1 DEF Usage
<1>4. capacity \in Nat
  BY ThresholdsAssumption DEF TypeOK
<1>5. Used \in Nat
  BY <1>3, <1>4 DEF Used
<1>6. \A c : IsFiniteSet(On(c))
  BY <1>1, <1>2, FS_Subset
<1>7. QED
  BY <1>2, <1>3, <1>5, <1>6

LEMMA PoolsMemory ==
  ASSUME TypeOK
  PROVE  MapThenSumSet(Usage, eligible) = Sum(Usages, eligible) /\ Sum(Usages, eligible) \in Nat
<1> DEFINE Body(g) == [s \in SUBSET eligible |->
                         IF s = {} THEN 0 ELSE Usage(Some(s)) + g[s \ {Some(s)}]]
           h == CHOOSE g : g = Body(g)
<1>1. IsFiniteSet(eligible) /\ eligible \subseteq Containers /\ \A c \in eligible : Usages[c] \in Nat
  <2>1. eligible \in SUBSET Containers
    BY DEF TypeOK
  <2>2. IsFiniteSet(eligible)
    BY <2>1, ThresholdsAssumption, FS_Subset
  <2>3. QED
    BY <2>1, <2>2, UsageType DEF Usages
<1>2. MapThenSumSet(Usage, eligible) = h[eligible]
  BY DEF MapThenSumSet, MapThenFoldSet, Some
<1>3. \A s \in SUBSET eligible : s # {} => Usages[Some(s)] = Usage(Some(s))
  BY <1>1 DEF Some, Usages
<1>4. \A g : Body(g) = [s \in SUBSET eligible |->
                          IF s = {} THEN 0 ELSE Usages[Some(s)] + g[s \ {Some(s)}]]
  BY <1>3
<1> HIDE DEF Body
<1>5. \A g : g = Body(g) <=> Adds(g, Usages, eligible)
  BY <1>4 DEF Adds
<1>6. Adds(h, Usages, eligible)
  <2>1. \E g : g = Body(g)
    BY <1>1, <1>5, AddsExists
  <2>2. h = Body(h)
    BY <2>1
  <2> HIDE DEF h
  <2>3. QED
    BY <1>5, <2>2
<1> HIDE DEF h
<1>7. h[eligible] = Sum(Usages, eligible)
  BY <1>1, <1>6, AddsIsSum
<1>8. Sum(Usages, eligible) \in Nat
  BY <1>1, SumProperties
<1>9. QED
  BY <1>2, <1>7, <1>8

\* What is in several pools is added for each of them, and once when they share nothing.
LEMMA MemoryOfMachines ==
  ASSUME TypeOK
  PROVE  /\ Sum(load, InPools) <= Sum(Usages, eligible)
         /\ Disjoint => Sum(load, InPools) = Sum(Usages, eligible)
<1> DEFINE In(E) == {v \in VMs : \E c \in E : place[v] \in Within[c]}
           F == {E \in SUBSET eligible : /\ Sum(load, In(E)) <= Sum(Usages, E)
                                         /\ Disjoint => Sum(load, In(E)) = Sum(Usages, E)}
<1>1. IsFiniteSet(eligible) /\ \A c \in eligible : c \in Containers /\ Usages[c] = Sum(load, On(c)) /\ Usages[c] \in Nat
  <2>1. eligible \in SUBSET Containers
    BY DEF TypeOK
  <2>2. IsFiniteSet(eligible)
    BY <2>1, ThresholdsAssumption, FS_Subset
  <2>3. QED
    BY <2>1, <2>2, UsageType DEF Usages, Usage
<1>2. /\ Sum(Usages, {}) = 0
      /\ \A E \in SUBSET eligible : /\ Sum(Usages, E) \in Nat
                                    /\ \A c \in E : Sum(Usages, E) = Usages[c] + Sum(Usages, E \ {c})
  BY <1>1, SumProperties
<1>3. IsFiniteSet(VMs) /\ \A v \in VMs : load[v] \in Nat
  BY ThresholdsAssumption DEF TypeOK
<1>4. Sum(load, {}) = 0 /\ \A S \in SUBSET VMs : Sum(load, S) \in Nat /\ IsFiniteSet(S)
  BY <1>3, SumProperties, FS_Subset
<1>5. ASSUME NEW E \in SUBSET eligible, E # {}, \A c \in E : E \ {c} \in F PROVE E \in F
  <2>1. PICK c \in E : TRUE
    BY <1>5
  <2> DEFINE D == E \ {c}
             A == In(D)
             B == On(c)
  <2>2. D \in F /\ c \in eligible /\ D \in SUBSET eligible
    BY <1>5
  <2>3. Sum(Usages, E) = Sum(load, B) + Sum(Usages, D) /\ Sum(Usages, D) \in Nat
    BY <1>1, <1>2, <2>1, <2>2
  <2>4. In(E) = A \cup B /\ A \in SUBSET VMs /\ B \in SUBSET VMs
    BY <2>1 DEF On
  <2>5. Disjoint => A \cap B = {}
    <3> SUFFICES ASSUME Disjoint, NEW v \in A, v \in B PROVE FALSE
      OBVIOUS
    <3>1. PICK d \in D : place[v] \in Within[d]
      OBVIOUS
    <3>2. place[v] \in Within[c] /\ d # c /\ d \in eligible
      BY <2>2 DEF On
    <3>3. QED
      BY <2>2, <3>1, <3>2 DEF Disjoint
  <2>6. /\ Sum(load, A) <= Sum(Usages, D)
        /\ Disjoint => Sum(load, A) = Sum(Usages, D)
    BY <2>2
  <2> HIDE DEF A, B, D, In
  <2>7. /\ Sum(load, A \cup B) <= Sum(load, A) + Sum(load, B)
        /\ A \cap B = {} => Sum(load, A \cup B) = Sum(load, A) + Sum(load, B)
    BY <1>3, <1>4, <2>4, SumUnion
  <2>8. Sum(load, A) \in Nat /\ Sum(load, B) \in Nat /\ Sum(load, A \cup B) \in Nat
    BY <1>4, <2>4
  <2>9. /\ Sum(load, In(E)) <= Sum(Usages, E)
        /\ Disjoint => Sum(load, In(E)) = Sum(Usages, E)
    BY <2>3, <2>4, <2>5, <2>6, <2>7, <2>8
  <2>10. QED
    BY <2>9
<1>6. {} \in F
  <2>1. In({}) = {}
    OBVIOUS
  <2> HIDE DEF In
  <2>2. QED
    BY <1>2, <1>4, <2>1
<1>7. SUBSET eligible \subseteq F
  <2> HIDE DEF F
  <2>1. QED
    BY <1>1, <1>5, <1>6, SubsetInduction
<1>8. InPools = In(eligible)
  BY DEF InPools
<1>9. QED
  BY <1>7, <1>8
-----------------------------------------------------------------------------
(* The invariant.                                                           *)

\* The stages from the first measurement on, errors apart.
Measured == stage \in {"hosts", "machines", "evaluate"} \/ cause = "verdict"
\* ... and those in which all machines have been found.
Complete == stage = "evaluate" \/ cause = "verdict"

\* How far the run is says what it has.
Progress ==
  /\ stage \in {"measure", "hosts"} => record = << >> /\ searched = {}
  /\ stage # "done" => critical = {} /\ warning = {} /\ ok = {}
  /\ stage = "hosts" => plugin = "rps_memory"
  /\ exitState = "none" <=> cause = "none"
  /\ changes = 0 => touched = {}
  /\ searched \subseteq ToSearch
  /\ plugin = "datastore" => searched = {}
  /\ Complete => IF plugin = "datastore" THEN DOMAIN record = sample.machines ELSE searched = ToSearch

\* Of the machines that stay as they are, exactly those in the containers searched are
\* recorded, with the load they have.
Current ==
  /\ \A v \in DOMAIN record \ touched : record[v] = load[v]
  /\ Measured /\ plugin = "datastore" =>
       /\ On(Target) \ touched \subseteq sample.machines
       /\ sample.machines \ touched \subseteq On(Target)
  /\ \A c \in searched : On(c) \ touched \subseteq DOMAIN record
  /\ plugin # "datastore" =>
       \A v \in DOMAIN record \ touched : \E c \in searched : v \in On(c)

\* Nothing was changed: what was measured is what there is.
Sampled ==
  Measured =>
    /\ plugin \in OneObject /\ changes = 0 => sample.used = Used /\ sample.of = capacity
    /\ plugin = "rps_memory" => sample.of = MaxAllowed
    /\ plugin = "rps_memory" /\ changes = 0 => sample.used = Sum(Usages, eligible)

Exceeding(n) == {v \in DOMAIN record : record[v] > n}

\* What each plugin makes of what it has.
Judged ==
  cause = "verdict" =>
    /\ plugin \in OneObject => exitState = SummaryState
    /\ plugin = "rps_memory" => exitState = MemoryState
    /\ plugin = "vcpus" => exitState = VCPUsState
    /\ plugin = "uptime" => critical = Exceeding(DaysCritical) /\ critical \cup warning = Exceeding(DaysWarning)
    /\ plugin \in PerMachine \ {"uptime"} => critical = Exceeding(0) /\ warning = {}
    /\ plugin \in PerMachine =>
         /\ DOMAIN record = critical \cup warning \cup ok
         /\ exitState = "CRITICAL" <=> critical # {}
         /\ exitState = "OK" <=> critical \cup warning = {}

IInv == TypeOK /\ Progress /\ Current /\ Sampled /\ Judged

-----------------------------------------------------------------------------
(* The inventory changes.                                                   *)

LEMMA EnvironmentInv ==
  ASSUME IInv, NEW v \in VMs, MoveVM(v) \/ SetLoad(v)
  PROVE  IInv'
<1>1. /\ stage # "done" /\ changes < MaxChanges /\ changes' = changes + 1 /\ touched' = touched \cup {v}
      /\ UNCHANGED <<plugin, eligible, stage, sample, searched, record, lists, exitState, cause, capacity>>
  BY DEF MoveVM, SetLoad, Change
<1>2. /\ place' \in [VMs -> Containers \cup {Gone}] /\ load' \in [VMs -> 0..MaxLoad]
      /\ \A w \in VMs \ {v} : place'[w] = place[w] /\ load'[w] = load[w]
  <2>1. CASE MoveVM(v)
    BY <2>1 DEF MoveVM, IInv, TypeOK
  <2>2. CASE SetLoad(v)
    BY <2>2 DEF SetLoad, IInv, TypeOK
  <2>3. QED
    BY <2>1, <2>2
<1>3. changes' # 0 /\ changes' \in 0..MaxChanges
  BY <1>1, ThresholdsAssumption DEF IInv, TypeOK
<1>4. TypeOK'
  BY <1>1, <1>2, <1>3 DEF IInv, TypeOK, lists
<1>5. Progress'
  BY <1>1, <1>3 DEF IInv, TypeOK, Progress, Complete, ToSearch, lists
<1>6. \A w \in VMs \ touched' : /\ w \in VMs \ touched /\ load'[w] = load[w]
                                /\ \A c : w \in On(c)' <=> w \in On(c)
  BY <1>1, <1>2 DEF On
<1>7. Current'
  <2>1. DOMAIN record \subseteq VMs /\ sample.machines \subseteq VMs /\ \A c : On(c)' \subseteq VMs
    BY DEF IInv, TypeOK, On
  <2>2. \A w \in DOMAIN record \ touched' : record[w] = load'[w]
    BY <1>6, <2>1 DEF IInv, Current
  <2>3. Measured /\ plugin = "datastore" =>
          /\ On(Target)' \ touched' \subseteq sample.machines
          /\ sample.machines \ touched' \subseteq On(Target)'
    BY <1>6, <2>1 DEF IInv, Current
  <2>4. \A c \in searched : On(c)' \ touched' \subseteq DOMAIN record
    BY <1>6, <2>1 DEF IInv, Current
  <2>5. plugin # "datastore" =>
          \A w \in DOMAIN record \ touched' : \E c \in searched : w \in On(c)'
    BY <1>6, <2>1 DEF IInv, Current
  <2>6. QED
    BY <1>1, <2>2, <2>3, <2>4, <2>5 DEF Current, Measured
<1>8. Sampled'
  BY <1>1, <1>3 DEF IInv, Sampled, Measured
<1>9. Judged'
  <2>1. cause' # "verdict"
    BY <1>1 DEF IInv, TypeOK, Progress
  <2>2. QED
    BY <2>1 DEF Judged
<1>10. QED
  BY <1>4, <1>5, <1>7, <1>8, <1>9 DEF IInv
-----------------------------------------------------------------------------
(* The steps of the plugins.                                                *)

LEMMA SameServer ==
  ASSUME UNCHANGED <<server, plugin, eligible>>
  PROVE  /\ \A c : On(c)' = On(c) /\ Usage(c)' = Usage(c)
         /\ Used' = Used /\ Usages' = Usages /\ InPools' = InPools /\ ToSearch' = ToSearch
<1>1. UNCHANGED <<place, load, capacity>>
  BY DEF server
<1>2. \A c : On(c)' = On(c)
  BY <1>1 DEF On
<1>3. \A c : Usage(c)' = Usage(c)
  BY <1>1, <1>2 DEF Usage
<1>4. Used' = Used /\ Usages' = Usages
  BY <1>1, <1>3 DEF Used, Usages
<1>5. InPools' = InPools /\ ToSearch' = ToSearch
  BY <1>1 DEF InPools, ToSearch
<1>6. QED
  BY <1>2, <1>3, <1>4, <1>5

\* A run that fails has no verdict.
LEMMA FailureInv ==
  ASSUME IInv, stage # "done", stage' = "done", exitState' = "CRITICAL", cause' \in {"error", "panic"},
         UNCHANGED <<server, plugin, eligible, sample, searched, record, lists>>
  PROVE  IInv'
<1>1. TypeOK'
  BY DEF IInv, TypeOK, server, lists
<1>2. Progress'
  BY DEF IInv, Progress, Complete, ToSearch, server
<1>3. Current'
  BY SameServer DEF IInv, Current, Measured, server
<1>4. Sampled' /\ Judged'
  BY DEF Sampled, Judged, Measured
<1>5. QED
  BY <1>1, <1>2, <1>3, <1>4 DEF IInv

LEMMA RequestFailsInv == IInv /\ RequestFails => IInv'
BY FailureInv DEF RequestFails

LEMMA NilHardwareInv == IInv /\ NilHardware => IInv'
BY FailureInv DEF NilHardware

LEMMA ListedVMIsGoneInv == IInv /\ ListedVMIsGone => IInv'
BY FailureInv DEF ListedVMIsGone

\* A measurement comes before the machines are retrieved.
LEMMA MeasureInv ==
  ASSUME IInv, stage = "measure", stage' \in {"hosts", "machines"},
         stage' = "hosts" => plugin = "rps_memory",
         UNCHANGED <<server, plugin, eligible, searched, record, lists, exitState, cause>>,
         sample' \in [used : Nat, of : Nat, machines : SUBSET VMs],
         plugin \in OneObject => sample'.used = Used /\ sample'.of = capacity,
         plugin = "datastore" => sample'.machines = On(Target),
         plugin = "rps_memory" => sample'.used = Sum(Usages, eligible) /\ sample'.of = MaxAllowed
  PROVE  IInv'
<1>1. TypeOK'
  BY DEF IInv, TypeOK, server, lists
<1>2. record = << >> /\ searched = {} /\ cause # "verdict"
  BY DEF IInv, TypeOK, Progress
<1>3. Progress'
  BY <1>2 DEF IInv, TypeOK, Progress, Complete, ToSearch, server, lists
<1>4. Current'
  BY <1>2, SameServer DEF IInv, Current, Measured, server
<1>5. Sampled'
  BY SameServer DEF Sampled, server
<1>6. Judged'
  BY <1>2 DEF Judged
<1>7. QED
  BY <1>1, <1>3, <1>4, <1>5, <1>6 DEF IInv

LEMMA MeasureDatastoreInv == IInv /\ MeasureDatastore => IInv'
<1> SUFFICES ASSUME IInv, MeasureDatastore PROVE IInv'
  OBVIOUS
<1>1. Used \in Nat /\ capacity \in Nat /\ On(Target) \in SUBSET VMs
  BY UsageType, ThresholdsAssumption DEF IInv, TypeOK
<1>2. QED
  BY <1>1, MeasureInv DEF MeasureDatastore

LEMMA MeasureHostInv == IInv /\ MeasureHost => IInv'
<1> SUFFICES ASSUME IInv, MeasureHost PROVE IInv'
  OBVIOUS
<1>1. Used \in Nat /\ capacity \in Nat
  BY UsageType, ThresholdsAssumption DEF IInv, TypeOK
<1>2. QED
  BY <1>1, MeasureInv DEF MeasureHost

LEMMA MeasurePoolsInv == IInv /\ MeasurePools => IInv'
<1> SUFFICES ASSUME IInv, MeasurePools PROVE IInv'
  OBVIOUS
<1>1. /\ MapThenSumSet(Usage, eligible) = Sum(Usages, eligible) /\ Sum(Usages, eligible) \in Nat
      /\ MaxAllowed \in Nat
      /\ sample \in [used : Nat, of : Nat, machines : SUBSET VMs]
  BY PoolsMemory, ThresholdsAssumption DEF IInv, TypeOK
<1>2. /\ stage = "measure" /\ plugin \notin OneObject
      /\ plugin = "rps_memory" =>
           sample' = [used |-> Sum(Usages, eligible), of |-> MaxAllowed, machines |-> {}] /\ stage' = "hosts"
      /\ plugin # "rps_memory" => sample' = sample /\ stage' = "machines"
      /\ UNCHANGED <<server, plugin, eligible, searched, record, lists, exitState, cause>>
  BY <1>1 DEF MeasurePools
<1>3. sample' \in [used : Nat, of : Nat, machines : SUBSET VMs]
  BY <1>1, <1>2
<1>4. QED
  BY <1>2, <1>3, MeasureInv DEF OneObject

\* What is retrieved changes neither what was measured nor what is judged.
LEMMA RetrievalKeeps ==
  ASSUME IInv, Measured, stage # "done", stage' \in {"machines", "evaluate"},
         UNCHANGED <<server, plugin, eligible, sample, lists, exitState, cause>>
  PROVE  Sampled' /\ Judged'
<1>1. Sampled'
  BY SameServer DEF IInv, Sampled, Measured, server
<1>2. cause' # "verdict"
  BY DEF IInv, TypeOK, Progress
<1>3. Judged'
  BY <1>2 DEF Judged
<1>4. QED
  BY <1>1, <1>3

LEMMA GetHostSystemsTotalMemoryInv == IInv /\ GetHostSystemsTotalMemory => IInv'
<1> SUFFICES ASSUME IInv, GetHostSystemsTotalMemory PROVE IInv'
  OBVIOUS
<1>1. /\ stage = "hosts" /\ stage' = "machines"
      /\ UNCHANGED <<server, plugin, eligible, sample, searched, record, lists, exitState, cause>>
  BY DEF GetHostSystemsTotalMemory
<1>2. TypeOK'
  BY <1>1 DEF IInv, TypeOK, server, lists
<1>3. Progress'
  BY <1>1 DEF IInv, TypeOK, Progress, Complete, ToSearch, server, lists
<1>4. Current'
  BY <1>1, SameServer DEF IInv, Current, Measured, server
<1>5. Sampled' /\ Judged'
  BY <1>1, RetrievalKeeps DEF Measured
<1>6. QED
  BY <1>2, <1>3, <1>4, <1>5 DEF IInv

LEMMA GetVMsFromDatastoreInv == IInv /\ GetVMsFromDatastore => IInv'
<1> SUFFICES ASSUME IInv, GetVMsFromDatastore PROVE IInv'
  OBVIOUS
<1>1. /\ stage = "machines" /\ plugin = "datastore" /\ stage' = "evaluate"
      /\ record' = [v \in sample.machines |-> load[v]]
      /\ UNCHANGED <<server, plugin, eligible, sample, searched, lists, exitState, cause>>
  BY DEF GetVMsFromDatastore
<1>2. DOMAIN record' = sample.machines /\ \A v \in sample.machines : record'[v] = load[v]
  BY <1>1
<1>3. sample.machines \subseteq VMs
  BY DEF IInv, TypeOK
<1>4. critical = {} /\ warning = {} /\ ok = {}
  BY <1>1 DEF IInv, Progress
<1>5. TypeOK'
  BY <1>1, <1>2, <1>3, <1>4 DEF IInv, TypeOK, server, lists
<1>6. Progress'
  BY <1>1, <1>2 DEF IInv, TypeOK, Progress, Complete, ToSearch, server, lists
<1>7. searched = {}
  BY <1>1 DEF IInv, Progress
<1>8. Current'
  BY <1>1, <1>2, <1>7, SameServer DEF IInv, Current, Measured, server
<1>9. Sampled' /\ Judged'
  BY <1>1, RetrievalKeeps DEF Measured
<1>10. QED
  BY <1>5, <1>6, <1>8, <1>9 DEF IInv

LEMMA GetVMsFromContainerInv ==
  ASSUME IInv, NEW c \in Containers, GetVMsFromContainer(c)
  PROVE  IInv'
<1>1. /\ stage = "machines" /\ plugin # "datastore" /\ c \in ToSearch
      /\ searched' = searched \cup {c}
      /\ UNCHANGED <<server, plugin, eligible, stage, sample, lists, exitState, cause>>
  BY DEF GetVMsFromContainer
<1>2. /\ DOMAIN record' = DOMAIN record \cup On(c)
      /\ \A v \in DOMAIN record : record'[v] = record[v]
      /\ \A v \in On(c) : v \in DOMAIN record \/ record'[v] = load[v]
  BY DEF GetVMsFromContainer
<1>3. On(c) \subseteq VMs /\ critical = {} /\ warning = {} /\ ok = {}
  BY <1>1 DEF On, IInv, Progress
<1>4. TypeOK'
  <2>1. DOMAIN record' \subseteq VMs /\ \A v \in DOMAIN record' : record'[v] \in 0..MaxLoad
    BY <1>2, <1>3 DEF IInv, TypeOK
  <2>2. QED
    BY <1>1, <1>3, <2>1 DEF IInv, TypeOK, server, lists
<1>5. Progress'
  BY <1>1 DEF IInv, TypeOK, Progress, Complete, ToSearch, server, lists
<1>6. Current'
  <2>1. \A v \in DOMAIN record' \ touched : record'[v] = load[v]
    BY <1>2 DEF IInv, Current
  <2>2. \A d \in searched' : On(d) \ touched \subseteq DOMAIN record'
    BY <1>1, <1>2 DEF IInv, Current
  <2>3. \A v \in DOMAIN record' \ touched : \E d \in searched' : v \in On(d)
    BY <1>1, <1>2 DEF IInv, Current
  <2>4. QED
    BY <1>1, <2>1, <2>2, <2>3, SameServer DEF Current, server
<1>7. Sampled' /\ Judged'
  BY <1>1, RetrievalKeeps DEF Measured
<1>8. QED
  BY <1>4, <1>5, <1>6, <1>7 DEF IInv

LEMMA AllSearchedInv == IInv /\ AllSearched => IInv'
<1> SUFFICES ASSUME IInv, AllSearched PROVE IInv'
  OBVIOUS
<1>1. /\ stage = "machines" /\ plugin # "datastore" /\ searched = ToSearch /\ stage' = "evaluate"
      /\ UNCHANGED <<server, plugin, eligible, sample, searched, record, lists, exitState, cause>>
  BY DEF AllSearched
<1>2. TypeOK'
  BY <1>1 DEF IInv, TypeOK, server, lists
<1>3. Progress'
  BY <1>1 DEF IInv, TypeOK, Progress, Complete, ToSearch, server, lists
<1>4. Current'
  BY <1>1, SameServer DEF IInv, Current, Measured, server
<1>5. Sampled' /\ Judged'
  BY <1>1, RetrievalKeeps DEF Measured
<1>6. QED
  BY <1>2, <1>3, <1>4, <1>5 DEF IInv

\* A verdict changes nothing of what it is about.
LEMMA VerdictKeeps ==
  ASSUME IInv, stage = "evaluate", stage' = "done", cause' = "verdict",
         exitState' \in {"OK", "WARNING", "CRITICAL"},
         UNCHANGED <<server, plugin, eligible, sample, searched, record>>,
         critical' \cup warning' \cup ok' \subseteq DOMAIN record,
         critical' \cap warning' = {}, (critical' \cup warning') \cap ok' = {}
  PROVE  TypeOK' /\ Progress' /\ Current' /\ Sampled'
<1>1. TypeOK'
  BY DEF IInv, TypeOK, server
<1>2. Progress'
  BY DEF IInv, TypeOK, Progress, Complete, ToSearch, server
<1>3. Current'
  BY SameServer DEF IInv, Current, Measured, server
<1>4. Sampled'
  BY SameServer DEF IInv, Sampled, Measured, server
<1>5. QED
  BY <1>1, <1>2, <1>3, <1>4

\* The three plugins that compare one amount.
LEMMA AmountInv == IInv /\ (EvaluateUsage \/ EvaluateMemory \/ EvaluateVCPUs) => IInv'
<1> SUFFICES ASSUME IInv, EvaluateUsage \/ EvaluateMemory \/ EvaluateVCPUs PROVE IInv'
  OBVIOUS
<1>1. /\ stage = "evaluate" /\ stage' = "done" /\ cause' = "verdict"
      /\ UNCHANGED <<server, plugin, eligible, sample, searched, record, lists>>
  BY DEF EvaluateUsage, EvaluateMemory, EvaluateVCPUs, Verdict
<1>2. /\ plugin \in OneObject \cup {"rps_memory", "vcpus"}
      /\ plugin \in OneObject => exitState' = SummaryState
      /\ plugin = "rps_memory" => exitState' = MemoryState
      /\ plugin = "vcpus" => exitState' = VCPUsState
  BY DEF EvaluateUsage, EvaluateMemory, EvaluateVCPUs, Verdict, OneObject
<1>3. exitState' \in {"OK", "WARNING", "CRITICAL"}
  BY <1>2 DEF SummaryState, MemoryState, VCPUsState
<1>4. TypeOK' /\ Progress' /\ Current' /\ Sampled'
  BY <1>1, <1>3, VerdictKeeps DEF IInv, TypeOK, lists
<1>5. Judged'
  <2>1. SummaryState' = SummaryState /\ MemoryState' = MemoryState /\ VCPUsState' = VCPUsState
    BY <1>1 DEF SummaryState, MemoryState, VCPUsState, VCPUsAllocated
  <2>2. plugin \notin PerMachine
    BY <1>2 DEF PerMachine, OneObject
  <2>3. QED
    BY <1>1, <1>2, <2>1, <2>2 DEF Judged, PerMachine
<1>6. QED
  BY <1>4, <1>5 DEF IInv

LEMMA EvaluateUptimeInv == IInv /\ EvaluateUptime => IInv'
<1> SUFFICES ASSUME IInv, EvaluateUptime PROVE IInv'
  OBVIOUS
<1>1. /\ stage = "evaluate" /\ stage' = "done" /\ cause' = "verdict" /\ plugin = "uptime"
      /\ UNCHANGED <<server, plugin, eligible, sample, searched, record>>
      /\ exitState' = IF critical' # {} THEN "CRITICAL" ELSE IF warning' # {} THEN "WARNING" ELSE "OK"
  BY DEF EvaluateUptime, Verdict
<1>2. /\ critical' = {v \in DOMAIN record : record[v] > DaysCritical}
      /\ warning' = {v \in DOMAIN record \ critical' : record[v] > DaysWarning}
      /\ ok' = DOMAIN record \ (critical' \cup warning')
  BY DEF EvaluateUptime
<1>3. \A v \in DOMAIN record : record[v] > DaysCritical => record[v] > DaysWarning
  BY ThresholdsAssumption DEF IInv, TypeOK
<1>4. TypeOK' /\ Progress' /\ Current' /\ Sampled'
  <2>1. exitState' \in {"OK", "WARNING", "CRITICAL"}
    BY <1>1
  <2>2. QED
    BY <1>1, <1>2, <2>1, VerdictKeeps
<1>5. Judged'
  <2>1. critical' = Exceeding(DaysCritical)' /\ critical' \cup warning' = Exceeding(DaysWarning)'
    BY <1>1, <1>2, <1>3 DEF Exceeding
  <2>2. DOMAIN record' = critical' \cup warning' \cup ok'
    BY <1>1, <1>2
  <2>3. QED
    BY <1>1, <2>1, <2>2 DEF Judged, OneObject
<1>6. QED
  BY <1>4, <1>5 DEF IInv

LEMMA EvaluateFlagInv == IInv /\ EvaluateFlag => IInv'
<1> SUFFICES ASSUME IInv, EvaluateFlag PROVE IInv'
  OBVIOUS
<1>1. /\ stage = "evaluate" /\ stage' = "done" /\ cause' = "verdict"
      /\ plugin \in {"question", "disk_consolidation"}
      /\ UNCHANGED <<server, plugin, eligible, sample, searched, record, warning>>
      /\ exitState' = IF critical' # {} THEN "CRITICAL" ELSE "OK"
  BY DEF EvaluateFlag, Verdict
<1>2. /\ critical' = {v \in DOMAIN record : record[v] > 0}
      /\ ok' = DOMAIN record \ critical' /\ warning' = {}
  BY <1>1 DEF EvaluateFlag, IInv, Progress
<1>3. TypeOK' /\ Progress' /\ Current' /\ Sampled'
  <2>1. exitState' \in {"OK", "WARNING", "CRITICAL"}
    BY <1>1
  <2>2. QED
    BY <1>1, <1>2, <2>1, VerdictKeeps
<1>4. Judged'
  <2>1. critical' = Exceeding(0)' /\ DOMAIN record' = critical' \cup warning' \cup ok'
    BY <1>1, <1>2 DEF Exceeding
  <2>2. QED
    BY <1>1, <1>2, <2>1 DEF Judged, OneObject
<1>5. QED
  BY <1>3, <1>4 DEF IInv

LEMMA StutterInv == IInv /\ UNCHANGED vars => IInv'
<1> SUFFICES ASSUME IInv, UNCHANGED vars PROVE IInv'
  OBVIOUS
<1>1. TypeOK' /\ Progress'
  BY DEF vars, server, lists, IInv, TypeOK, Progress, Complete, ToSearch
<1>2. Current' /\ Sampled'
  BY SameServer DEF vars, server, IInv, Current, Sampled, Measured
<1>3. Judged'
  <2>1. SummaryState' = SummaryState /\ MemoryState' = MemoryState /\ VCPUsState' = VCPUsState
    BY DEF vars, SummaryState, MemoryState, VCPUsState, VCPUsAllocated
  <2>2. \A n : Exceeding(n)' = Exceeding(n)
    BY DEF vars, Exceeding
  <2>3. QED
    BY <2>1, <2>2 DEF vars, lists, IInv, Judged
<1>4. QED
  BY <1>1, <1>2, <1>3 DEF IInv

LEMMA InitInv == Init => IInv
<1> SUFFICES ASSUME Init PROVE IInv
  OBVIOUS
<1>1. DOMAIN record = {} /\ stage = "measure" /\ cause = "none"
  BY DEF Init
<1>2. TypeOK
  BY <1>1, ThresholdsAssumption DEF Init, TypeOK
<1>3. Progress
  BY DEF Init, Progress, Complete
<1>4. Current /\ Sampled /\ Judged
  BY <1>1 DEF Init, Current, Sampled, Judged, Measured
<1>5. QED
  BY <1>2, <1>3, <1>4 DEF IInv

THEOREM InductiveInv == Spec => []IInv
<1>1. IInv /\ [Next]_vars => IInv'
  <2> SUFFICES ASSUME IInv, [Next]_vars PROVE IInv'
    OBVIOUS
  <2>1. CASE \E v \in VMs : MoveVM(v) \/ SetLoad(v)
    BY <2>1, EnvironmentInv
  <2>2. CASE RequestFails
    BY <2>2, RequestFailsInv
  <2>3. CASE MeasureDatastore
    BY <2>3, MeasureDatastoreInv
  <2>4. CASE MeasureHost
    BY <2>4, MeasureHostInv
  <2>5. CASE NilHardware
    BY <2>5, NilHardwareInv
  <2>6. CASE MeasurePools
    BY <2>6, MeasurePoolsInv
  <2>7. CASE GetHostSystemsTotalMemory
    BY <2>7, GetHostSystemsTotalMemoryInv
  <2>8. CASE GetVMsFromDatastore
    BY <2>8, GetVMsFromDatastoreInv
  <2>9. CASE ListedVMIsGone
    BY <2>9, ListedVMIsGoneInv
  <2>10. CASE \E c \in Containers : GetVMsFromContainer(c)
    BY <2>10, GetVMsFromContainerInv
  <2>11. CASE AllSearched
    BY <2>11, AllSearchedInv
  <2>12. CASE EvaluateUsage \/ EvaluateMemory \/ EvaluateVCPUs
    BY <2>12, AmountInv
  <2>13. CASE EvaluateUptime
    BY <2>13, EvaluateUptimeInv
  <2>14. CASE EvaluateFlag
    BY <2>14, EvaluateFlagInv
  <2>15. CASE UNCHANGED vars
    BY <2>15, StutterInv
  <2>16. QED
    BY <2>1, <2>2, <2>3, <2>4, <2>5, <2>6, <2>7, <2>8, <2>9, <2>10, <2>11, <2>12, <2>13,
       <2>14, <2>15 DEF Next
<1>2. QED
  BY InitInv, <1>1, PTL DEF Spec

-----------------------------------------------------------------------------
(* The theorems.                                                            *)

\* Whatever moves, changes or goes while a plugin runs, no machine is in two lists of its
\* report, its lists are of machines it retrieved, and it ends with a state and a cause.
THEOREM TypeCorrect == Spec => []TypeOK
BY InductiveInv, PTL DEF IInv

\* A higher percentage of the same total is no lower.
LEMMA Scaled ==
  ASSUME NEW a \in Nat, NEW b \in Nat, a < b, NEW t \in Nat
  PROVE  a * t \in Nat /\ b * t \in Nat /\ a * t <= b * t
<1>1. b * t = a * t + (b - a) * t /\ (b - a) * t \in Nat /\ a * t \in Nat
  OBVIOUS
<1>2. QED
  BY <1>1

\* At the verdict, the machines that stayed as they are have been found where they are.
LEMMA SteadyFound ==
  ASSUME IInv, cause = "verdict", plugin \notin OneObject
  PROVE  /\ InPools \ touched \subseteq DOMAIN record
         /\ DOMAIN record \ touched \subseteq InPools
<1>1. searched = eligible
  BY DEF IInv, Progress, Complete, ToSearch, OneObject
<1>2. \A v \in InPools : \E c \in searched : v \in On(c)
  BY <1>1 DEF InPools, On
<1>3. \A c \in searched : On(c) \subseteq InPools
  BY <1>1 DEF InPools, On
<1>4. QED
  BY <1>2, <1>3 DEF IInv, Current, OneObject

\* No less is counted for all machines found than for those that stayed as they are.
LEMMA SteadyVCPUs ==
  ASSUME IInv, cause = "verdict", plugin = "vcpus"
  PROVE  /\ Sum(load, InPools \ touched) <= VCPUsAllocated
         /\ touched = {} => Sum(load, InPools) = VCPUsAllocated
         /\ VCPUsAllocated \in Nat /\ \A S \in SUBSET VMs : Sum(load, S) \in Nat
<1> DEFINE S == InPools \ touched
           D == DOMAIN record
<1>1. IsFiniteSet(VMs) /\ (\A v \in VMs : load[v] \in Nat) /\ D \in SUBSET VMs /\ \A v \in D : record[v] \in Nat
  BY ThresholdsAssumption DEF IInv, TypeOK
<1>2. IsFiniteSet(D) /\ \A T \in SUBSET VMs : Sum(load, T) \in Nat
  BY <1>1, FS_Subset, SumProperties
<1>3. S \in SUBSET D /\ D \ touched \subseteq InPools
  BY SteadyFound DEF OneObject
<1>4. IsFiniteSet(S)
  BY <1>2, <1>3, FS_Subset
<1>5. \A v \in S : record[v] = load[v] /\ load[v] \in Nat
  BY <1>1, <1>3 DEF IInv, Current
<1>6. touched = {} => S = D /\ S = InPools
  BY <1>3
<1> HIDE DEF S, D
<1>7. Sum(record, S) = Sum(load, S)
  BY <1>4, <1>5, SumSame
<1>8. Sum(record, S) <= Sum(record, D) /\ Sum(record, D) \in Nat
  BY <1>1, <1>2, <1>3, SumMonotone
<1>9. VCPUsAllocated = Sum(record, D)
  BY DEF VCPUsAllocated, D
<1>10. QED
  BY <1>2, <1>6, <1>7, <1>8, <1>9 DEF S

\* A machine that stays as it is in an eligible pool is in the lists, the verdict and the
\* number of vCPUs, whatever else changes between the requests, and the report of a
\* datastore has every machine the datastore listed.
THEOREM SteadyMachinesAreCounted == Spec => []SteadyMachinesCount
<1>1. IInv => SteadyMachinesCount
  <2> DEFINE steady == InPools \ touched
  <2> SUFFICES ASSUME IInv, cause = "verdict"
               PROVE  /\ plugin = "datastore" =>
                           DOMAIN record = sample.machines /\ On(Target) \ touched \subseteq DOMAIN record
                      /\ plugin \in PerMachine =>
                           /\ steady \subseteq DOMAIN record
                           /\ DOMAIN record = critical \cup warning \cup ok
                           /\ (\E v \in steady : load[v] > DaysWarning) => exitState # "OK"
                           /\ (\E v \in steady : load[v] > DaysCritical) => exitState = "CRITICAL"
                      /\ plugin = "vcpus" =>
                           /\ 100 * Sum(load, steady) > Critical * MaxAllowed => exitState = "CRITICAL"
                           /\ 100 * Sum(load, steady) > Warning * MaxAllowed => exitState # "OK"
    BY DEF SteadyMachinesCount
  <2>1. CASE plugin = "datastore"
    BY <2>1 DEF IInv, Progress, Current, Complete, Measured, PerMachine
  <2>2. CASE plugin \in PerMachine
    <3>1. steady \subseteq DOMAIN record
      BY <2>2, SteadyFound DEF PerMachine, OneObject
    <3>2. \A v \in steady : record[v] = load[v] /\ load[v] \in Nat
      BY <3>1 DEF IInv, TypeOK, Current
    <3>3. /\ Exceeding(DaysCritical) # {} => exitState = "CRITICAL"
          /\ Exceeding(DaysWarning) # {} => exitState # "OK"
      <4>1. CASE plugin = "uptime"
        BY <2>2, <4>1 DEF IInv, Judged
      <4>2. CASE plugin # "uptime"
        <5>1. critical = Exceeding(0) /\ warning = {}
          BY <2>2, <4>2 DEF IInv, Judged
        <5>2. Exceeding(DaysCritical) \subseteq Exceeding(0) /\ Exceeding(DaysWarning) \subseteq Exceeding(0)
          BY ThresholdsAssumption DEF Exceeding, IInv, TypeOK
        <5>3. QED
          BY <2>2, <5>1, <5>2 DEF IInv, Judged
      <4>3. QED
        BY <4>1, <4>2
    <3>4. DOMAIN record = critical \cup warning \cup ok
      BY <2>2 DEF IInv, Judged
    <3>5. \A v \in steady : /\ load[v] > DaysCritical => v \in Exceeding(DaysCritical)
                            /\ load[v] > DaysWarning => v \in Exceeding(DaysWarning)
      BY <3>1, <3>2 DEF Exceeding
    <3>6. QED
      BY <2>2, <3>1, <3>3, <3>4, <3>5 DEF PerMachine
  <2>3. CASE plugin = "vcpus"
    <3>1. Sum(load, steady) <= VCPUsAllocated /\ VCPUsAllocated \in Nat /\ Sum(load, steady) \in Nat
      <4>1. steady \in SUBSET VMs
        BY DEF InPools
      <4>2. QED
        BY <2>3, <4>1, SteadyVCPUs
    <3>2. exitState = VCPUsState /\ MaxAllowed # 0
      BY <2>3, ThresholdsAssumption DEF IInv, Judged
    <3>3. Critical * MaxAllowed \in Nat /\ Warning * MaxAllowed \in Nat
      BY ThresholdsAssumption
    <3> HIDE DEF steady
    <3>4. /\ 100 * Sum(load, steady) > Critical * MaxAllowed => 100 * VCPUsAllocated > Critical * MaxAllowed
          /\ 100 * Sum(load, steady) > Warning * MaxAllowed => 100 * VCPUsAllocated > Warning * MaxAllowed
      BY <3>1, <3>3
    <3>5. QED
      BY <2>3, <3>2, <3>4 DEF VCPUsState, Above, PerMachine
  <2>4. QED
    BY <2>1, <2>2, <2>3
<1>2. QED
  BY <1>1, InductiveInv, PTL

\* When nothing changes, the verdict of each of the eight plugins says exactly which
\* thresholds the inventory crosses; the memory of nested pools, added twice, is the one
\* exception, and it only alerts too early.
THEOREM QuietVerdict == Spec => []QuietVerdictIsExact
<1>1. IInv => QuietVerdictIsExact
  <2> SUFFICES ASSUME IInv, cause = "verdict", changes = 0
               PROVE  /\ Crossed(Critical, DaysCritical) => exitState = "CRITICAL"
                      /\ Crossed(Warning, DaysWarning) => exitState # "OK"
                      /\ plugin # "rps_memory" \/ Disjoint =>
                           /\ exitState = "CRITICAL" => Crossed(Critical, DaysCritical)
                           /\ exitState # "OK" => Crossed(Warning, DaysWarning)
    BY DEF QuietVerdictIsExact
  <2>1. touched = {} /\ plugin \in Plugins /\ Measured
    BY DEF IInv, TypeOK, Progress, Measured
  <2>2. /\ Critical \in Nat /\ Warning \in Nat /\ Warning < Critical /\ MaxAllowed \in Nat /\ MaxAllowed # 0
        /\ capacity \in Nat /\ DaysWarning \in Nat /\ DaysCritical \in Nat /\ DaysWarning < DaysCritical
    BY ThresholdsAssumption DEF IInv, TypeOK
  <2>3. CASE plugin \in OneObject
    <3>1. sample.used = Used /\ sample.of = capacity /\ exitState = SummaryState /\ Used \in Nat
      BY <2>1, <2>3, UsageType DEF IInv, Sampled, Judged
    <3>2. Warning * capacity \in Nat /\ Critical * capacity \in Nat /\ Warning * capacity <= Critical * capacity
      BY <2>2, Scaled
    <3>3. AtLeast(Used, capacity, Critical) => AtLeast(Used, capacity, Warning)
      BY <3>1, <3>2 DEF AtLeast
    <3>4. \A p, d : Crossed(p, d) <=> AtLeast(Used, capacity, p)
      BY <2>3 DEF Crossed, AtLeast, OneObject
    <3>5. exitState = IF AtLeast(Used, capacity, Critical) THEN "CRITICAL"
                      ELSE IF AtLeast(Used, capacity, Warning) THEN "WARNING" ELSE "OK"
      BY <3>1 DEF SummaryState
    <3>6. QED
      BY <3>3, <3>4, <3>5
  <2>4. CASE plugin = "rps_memory"
    <3> DEFINE m == Sum(Usages, eligible)
               s == Sum(load, InPools)
    <3>1. sample.used = m /\ sample.of = MaxAllowed /\ exitState = MemoryState
      BY <2>1, <2>4 DEF IInv, Sampled, Judged
    <3>2. s <= m /\ (Disjoint => s = m) /\ m \in Nat /\ s \in Nat
      <4>1. s <= m /\ (Disjoint => s = m) /\ m \in Nat
        BY PoolsMemory, MemoryOfMachines DEF IInv
      <4>2. s \in Nat
        <5>1. IsFiniteSet(VMs) /\ (\A v \in VMs : load[v] \in Nat) /\ InPools \in SUBSET VMs
          BY ThresholdsAssumption DEF IInv, TypeOK, InPools
        <5>2. QED
          BY <5>1, SumProperties
      <4>3. QED
        BY <4>1, <4>2
    <3>3. Warning * MaxAllowed \in Nat /\ Critical * MaxAllowed \in Nat /\ Warning * MaxAllowed <= Critical * MaxAllowed
      BY <2>2, Scaled
    <3>4. \A p, d : Crossed(p, d) <=> 100 * s > p * MaxAllowed
      BY <2>4 DEF Crossed, OneObject
    <3>5. exitState = IF 100 * m > Critical * MaxAllowed THEN "CRITICAL"
                      ELSE IF 100 * m > Warning * MaxAllowed THEN "WARNING" ELSE "OK"
      BY <2>2, <3>1 DEF MemoryState, Above
    <3> HIDE DEF m, s
    <3>6. QED
      BY <2>4, <3>2, <3>3, <3>4, <3>5
  <2>5. CASE plugin = "vcpus"
    <3> DEFINE s == Sum(load, InPools)
    <3>1. s = VCPUsAllocated /\ s \in Nat /\ exitState = VCPUsState
      BY <2>1, <2>5, SteadyVCPUs DEF IInv, Judged
    <3>2. Warning * MaxAllowed \in Nat /\ Critical * MaxAllowed \in Nat /\ Warning * MaxAllowed <= Critical * MaxAllowed
      BY <2>2, Scaled
    <3>3. \A p, d : Crossed(p, d) <=> 100 * s > p * MaxAllowed
      BY <2>5 DEF Crossed, OneObject
    <3> HIDE DEF s
    <3>4. exitState = IF 100 * s > Critical * MaxAllowed THEN "CRITICAL"
                      ELSE IF 100 * s > Warning * MaxAllowed THEN "WARNING" ELSE "OK"
      BY <2>2, <3>1 DEF VCPUsState, Above
    <3>5. QED
      BY <3>1, <3>2, <3>3, <3>4
  <2>6. CASE plugin \in PerMachine
    <3>1. DOMAIN record = InPools /\ \A v \in InPools : record[v] = load[v] /\ load[v] \in Nat
      <4>1. DOMAIN record = InPools
        BY <2>1, <2>6, SteadyFound DEF PerMachine, OneObject
      <4>2. QED
        BY <2>1, <4>1 DEF IInv, TypeOK, Current
    <3>2. \A n : Exceeding(n) # {} <=> \E v \in InPools : load[v] > n
      BY <3>1 DEF Exceeding
    <3>3. CASE plugin = "uptime"
      <4>1. /\ exitState = "CRITICAL" <=> Exceeding(DaysCritical) # {}
            /\ exitState = "OK" <=> Exceeding(DaysWarning) = {}
        BY <2>6, <3>3 DEF IInv, Judged
      <4>2. \A p, d : Crossed(p, d) <=> Exceeding(d) # {}
        BY <3>2, <3>3 DEF Crossed, OneObject
      <4>3. QED
        BY <4>1, <4>2
    <3>4. CASE plugin # "uptime"
      <4>1. /\ exitState = "CRITICAL" <=> Exceeding(0) # {}
            /\ exitState = "OK" <=> Exceeding(0) = {}
        BY <2>6, <3>4 DEF IInv, Judged
      <4>2. \A p, d : Crossed(p, d) <=> Exceeding(0) # {}
        BY <2>6, <3>2, <3>4 DEF Crossed, OneObject, PerMachine
      <4>3. QED
        BY <4>1, <4>2
    <3>5. QED
      BY <3>3, <3>4
  <2>7. QED
    BY <2>1, <2>3, <2>4, <2>5, <2>6 DEF Plugins
<1>2. QED
  BY <1>1, InductiveInv, PTL
=============================================================================
