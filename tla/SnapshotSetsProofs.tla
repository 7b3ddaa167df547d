-------------------------- MODULE SnapshotSetsProofs --------------------------
(***************************************************************************)
(* Proofs about SnapshotTree and SnapshotSets: for any machines, disks and *)
(* snapshots, any number of operations on them, and any thresholds.        *)
(***************************************************************************)
EXTENDS SnapshotSets, FiniteSetTheorems, WellFoundedInduction, TLAPS

-----------------------------------------------------------------------------
(* Induction.                                                               *)

LEMMA Least ==
  ASSUME NEW T \in SUBSET Nat, T # {}
  PROVE  \E x \in T : \A y \in T : x <= y
<1>1. PICK x \in T : \A y \in T : ~ (<<y, x>> \in OpToRel(<, Nat))
  BY NatLessThanWellFounded, WFMin
<1>2. ASSUME NEW y \in T PROVE x <= y
  <2>1. <<y, x>> \in OpToRel(<, Nat) <=> y < x
    BY DEF OpToRel
  <2>2. ~ (y < x) /\ x \in Nat /\ y \in Nat
    BY <1>1, <2>1
  <2>3. QED
    BY <2>2
<1>3. QED
  BY <1>2

\* Induction, said of a set: it has every number if it has 0 and the successors of its own.
LEMMA Induction ==
  ASSUME NEW N, 0 \in N, \A n \in Nat : n \in N => n + 1 \in N
  PROVE  Nat \subseteq N
<1> SUFFICES ASSUME Nat \ N # {} PROVE FALSE
  OBVIOUS
<1>1. PICK n \in Nat \ N : \A m \in Nat \ N : n <= m
  BY Least
<1>2. n - 1 \in Nat /\ n - 1 \in N
  BY <1>1
<1>3. QED
  BY <1>1, <1>2

\* ... and of finite sets: a family has all subsets of S if it has the empty set and
\* every set from which removing an element, whichever it is, leaves one of its own.
LEMMA SubsetInduction ==
  ASSUME NEW S, IsFiniteSet(S), NEW F, {} \in F,
         \A s \in SUBSET S : s # {} /\ (\A x \in s : s \ {x} \in F) => s \in F
  PROVE  SUBSET S \subseteq F
<1> DEFINE N == {n \in Nat : \A s \in SUBSET S : Cardinality(s) = n => s \in F}
<1>1. \A s \in SUBSET S : IsFiniteSet(s) /\ Cardinality(s) \in Nat
  BY FS_Subset, FS_CardinalityType
<1>2. 0 \in N
  BY <1>1, FS_EmptySet
<1>3. ASSUME NEW n \in Nat, n \in N PROVE n + 1 \in N
  <2> SUFFICES ASSUME NEW s \in SUBSET S, Cardinality(s) = n + 1 PROVE s \in F
    OBVIOUS
  <2>1. s # {}
    <3>1. Cardinality(s) # 0
      OBVIOUS
    <3>2. QED
      BY <1>1, <3>1, FS_EmptySet
  <2>2. ASSUME NEW x \in s PROVE s \ {x} \in F
    <3>1. Cardinality(s \ {x}) = n
      BY <1>1, FS_RemoveElement
    <3>2. QED
      BY <1>3, <3>1
  <2>3. QED
    BY <2>1, <2>2
<1> HIDE DEF N
<1>4. Nat \subseteq N
  BY <1>2, <1>3, Induction
<1>5. QED
  BY <1>1, <1>4 DEF N

-----------------------------------------------------------------------------
(* Sums.                                                                    *)

Some(s) == CHOOSE x \in s : TRUE
Adds(g, f, S) == g = [s \in SUBSET S |-> IF s = {} THEN 0 ELSE f[Some(s)] + g[s \ {Some(s)}]]

LEMMA SumUnfolded ==
  ASSUME NEW f, NEW S
  PROVE  Sum(f, S) = (CHOOSE g : Adds(g, f, S))[S]
BY DEF Sum, MapThenSumSet, MapThenFoldSet, Adds, Some

\* The function the fold is taken from exists: with it for the sets of at most n elements,
\* it is there for those of at most n + 1.
LEMMA AddsExists ==
  ASSUME NEW S, IsFiniteSet(S), NEW f, \A x \in S : f[x] \in Nat
  PROVE  \E g : Adds(g, f, S)
<1> DEFINE Step(g, s) == IF s = {} THEN 0 ELSE f[Some(s)] + g[s \ {Some(s)}]
           N == {n \in Nat : \E g \in [SUBSET S -> Nat] :
                   \A s \in SUBSET S : Cardinality(s) <= n => g[s] = Step(g, s)}
<1>1. \A s \in SUBSET S : IsFiniteSet(s) /\ Cardinality(s) \in Nat /\ Cardinality(s) <= Cardinality(S)
  BY FS_Subset, FS_CardinalityType
<1>2. \A s \in SUBSET S : s # {} => Some(s) \in s
  BY DEF Some
<1>3. 0 \in N
  <2>1. [s \in SUBSET S |-> 0] \in [SUBSET S -> Nat]
    OBVIOUS
  <2>2. \A s \in SUBSET S : Cardinality(s) <= 0 => s = {}
    BY <1>1, FS_EmptySet
  <2>3. QED
    BY <2>1, <2>2
<1>4. ASSUME NEW n \in Nat, n \in N PROVE n + 1 \in N
  <2>1. PICK g \in [SUBSET S -> Nat] : \A s \in SUBSET S : Cardinality(s) <= n => g[s] = Step(g, s)
    BY <1>4
  <2> DEFINE h == [s \in SUBSET S |-> Step(g, s)]
  <2>2. h \in [SUBSET S -> Nat]
    BY <1>2
  <2>3. ASSUME NEW s \in SUBSET S, Cardinality(s) <= n + 1 PROVE h[s] = Step(h, s)
    <3>1. CASE s = {}
      BY <3>1
    <3>2. CASE s # {}
      <4> DEFINE t == s \ {Some(s)}
      <4>1. t \in SUBSET S /\ Cardinality(t) = Cardinality(s) - 1
        BY <1>1, <1>2, <3>2, FS_RemoveElement
      <4>2. Cardinality(t) <= n
        BY <1>1, <2>3, <4>1
      <4> HIDE DEF t
      <4>3. g[t] = h[t]
        BY <2>1, <4>1, <4>2
      <4>4. QED
        BY <3>2, <4>3 DEF t
    <3>3. QED
      BY <3>1, <3>2
  <2> HIDE DEF h
  <2>4. QED
    BY <2>2, <2>3
<1>5. Cardinality(S) \in N
  <2> HIDE DEF N
  <2>1. QED
    BY <1>1, <1>3, <1>4, Induction
<1>6. PICK g \in [SUBSET S -> Nat] : \A s \in SUBSET S : Cardinality(s) <= Cardinality(S) => g[s] = Step(g, s)
  BY <1>5
<1>7. \A s \in SUBSET S : g[s] = Step(g, s)
  BY <1>1, <1>6
<1>8. g = [s \in SUBSET S |-> Step(g, s)]
  BY <1>6, <1>7
<1>9. QED
  BY <1>8 DEF Adds

\* In whichever order the elements are taken, the sum is the same.
LEMMA AnyOrder ==
  ASSUME NEW S, IsFiniteSet(S), NEW f, \A x \in S : f[x] \in Nat, NEW g, Adds(g, f, S)
  PROVE  /\ g[{}] = 0
         /\ \A s \in SUBSET S : g[s] \in Nat /\ \A x \in s : g[s] = f[x] + g[s \ {x}]
<1>1. /\ g[{}] = 0
      /\ \A s \in SUBSET S : s # {} => Some(s) \in s /\ g[s] = f[Some(s)] + g[s \ {Some(s)}]
  BY DEF Adds, Some
<1>2. \A s \in SUBSET S : g[s] \in Nat
  <2> DEFINE F == {s \in SUBSET S : g[s] \in Nat}
  <2>1. ASSUME NEW s \in SUBSET S, s # {}, \A x \in s : s \ {x} \in F PROVE s \in F
    <3>1. Some(s) \in s /\ g[s] = f[Some(s)] + g[s \ {Some(s)}]
      BY <1>1, <2>1
    <3>2. f[Some(s)] \in Nat /\ g[s \ {Some(s)}] \in Nat
      BY <2>1, <3>1
    <3>3. QED
      BY <3>1, <3>2
  <2>2. {} \in F
    BY <1>1
  <2>3. SUBSET S \subseteq F
    <3> HIDE DEF F
    <3>1. QED
      BY <2>1, <2>2, SubsetInduction
  <2>4. QED
    BY <2>3
<1> DEFINE F == {s \in SUBSET S : \A x \in s : g[s] = f[x] + g[s \ {x}]}
<1>3. ASSUME NEW s \in SUBSET S, s # {}, \A x \in s : s \ {x} \in F PROVE s \in F
  <2> DEFINE c == Some(s)
  <2>1. c \in s /\ g[s] = f[c] + g[s \ {c}] /\ f[c] \in Nat
    BY <1>1, <1>3
  <2> HIDE DEF c
  <2>2. ASSUME NEW x \in s PROVE g[s] = f[x] + g[s \ {x}]
    <3>1. CASE x = c
      BY <2>1, <3>1
    <3>2. CASE x # c
      <4> DEFINE t == (s \ {c}) \ {x}
      <4>1. s \ {x} \in F /\ s \ {c} \in F /\ x \in s \ {c} /\ c \in s \ {x} /\ f[x] \in Nat
        BY <1>3, <2>1, <3>2
      <4>2. t = (s \ {x}) \ {c} /\ t \in SUBSET S
        OBVIOUS
      <4> HIDE DEF t
      <4>3. g[s \ {c}] = f[x] + g[t] /\ g[s \ {x}] = f[c] + g[t]
        BY <4>1, <4>2 DEF t
      <4>4. g[t] \in Nat
        BY <1>2, <4>2
      <4>5. QED
        BY <2>1, <4>1, <4>3, <4>4
    <3>3. QED
      BY <3>1, <3>2
  <2>3. QED
    BY <2>2
<1>4. {} \in F
  OBVIOUS
<1>5. SUBSET S \subseteq F
  <2> HIDE DEF F
  <2>1. QED
    BY <1>3, <1>4, SubsetInduction
<1>6. QED
  BY <1>1, <1>2, <1>5

\* The sum over a subset is what the function of a larger set has for it.
LEMMA AddsIsSum ==
  ASSUME NEW S, IsFiniteSet(S), NEW f, \A x \in S : f[x] \in Nat, NEW g, Adds(g, f, S),
         NEW T \in SUBSET S
  PROVE  g[T] = Sum(f, T)
<1> DEFINE h == CHOOSE k : Adds(k, f, T)
<1>1. IsFiniteSet(T) /\ \A x \in T : f[x] \in Nat
  BY FS_Subset
<1>2. Adds(h, f, T)
  BY <1>1, AddsExists
<1>3. h[T] = Sum(f, T)
  BY SumUnfolded
<1> HIDE DEF h
<1>4. h[{}] = 0 /\ \A s \in SUBSET T : \A x \in s : h[s] = f[x] + h[s \ {x}]
  BY <1>1, <1>2, AnyOrder
<1>5. g[{}] = 0 /\ \A s \in SUBSET T : \A x \in s : g[s] = f[x] + g[s \ {x}]
  <2>1. /\ g[{}] = 0
        /\ \A s \in SUBSET S : g[s] \in Nat /\ \A x \in s : g[s] = f[x] + g[s \ {x}]
    BY AnyOrder
  <2>2. QED
    BY <2>1
<1> DEFINE F == {s \in SUBSET T : h[s] = g[s]}
<1>6. ASSUME NEW s \in SUBSET T, s # {}, \A x \in s : s \ {x} \in F PROVE s \in F
  BY <1>4, <1>5, <1>6
<1>7. {} \in F
  BY <1>4, <1>5
<1>8. SUBSET T \subseteq F
  <2> HIDE DEF F
  <2>1. QED
    BY <1>1, <1>6, <1>7, SubsetInduction
<1>9. QED
  BY <1>3, <1>8

LEMMA SumProperties ==
  ASSUME NEW S, IsFiniteSet(S), NEW f, \A x \in S : f[x] \in Nat
  PROVE  /\ Sum(f, {}) = 0
         /\ \A s \in SUBSET S : Sum(f, s) \in Nat /\ \A x \in s : Sum(f, s) = f[x] + Sum(f, s \ {x})
<1>1. PICK g : Adds(g, f, S)
  BY AddsExists
<1>2. \A s \in SUBSET S : g[s] = Sum(f, s)
  BY <1>1, AddsIsSum
<1>3. /\ g[{}] = 0
      /\ \A s \in SUBSET S : g[s] \in Nat /\ \A x \in s : g[s] = f[x] + g[s \ {x}]
  BY <1>1, AnyOrder
<1>4. {} \in SUBSET S /\ \A s \in SUBSET S : \A x \in s : s \ {x} \in SUBSET S
  OBVIOUS
<1>5. QED
  BY <1>2, <1>3, <1>4

LEMMA SumUnion ==
  ASSUME NEW S, NEW T, IsFiniteSet(S), IsFiniteSet(T), NEW f, \A x \in S \cup T : f[x] \in Nat
  PROVE  /\ Sum(f, S \cup T) <= Sum(f, S) + Sum(f, T)
         /\ S \cap T = {} => Sum(f, S \cup T) = Sum(f, S) + Sum(f, T)
<1> DEFINE U == S \cup T
           F == {s \in SUBSET T : /\ Sum(f, S \cup s) <= Sum(f, S) + Sum(f, s)
                                  /\ S \cap s = {} => Sum(f, S \cup s) = Sum(f, S) + Sum(f, s)}
<1>1. /\ Sum(f, {}) = 0
      /\ \A s \in SUBSET U : Sum(f, s) \in Nat /\ \A x \in s : Sum(f, s) = f[x] + Sum(f, s \ {x})
  <2>1. IsFiniteSet(U)
    BY FS_Union
  <2>2. QED
    BY <2>1, SumProperties
<1>2. ASSUME NEW s \in SUBSET T, s # {}, \A x \in s : s \ {x} \in F PROVE s \in F
  <2>1. PICK x \in s : TRUE
    BY <1>2
  <2> DEFINE r == s \ {x}
  <2>2. /\ Sum(f, S \cup r) <= Sum(f, S) + Sum(f, r)
        /\ S \cap r = {} => Sum(f, S \cup r) = Sum(f, S) + Sum(f, r)
    BY <1>2
  <2>3. /\ Sum(f, s) = f[x] + Sum(f, r) /\ f[x] \in Nat
        /\ Sum(f, S) \in Nat /\ Sum(f, r) \in Nat /\ Sum(f, S \cup r) \in Nat
    <3>1. s \in SUBSET U /\ r \in SUBSET U /\ S \in SUBSET U /\ S \cup r \in SUBSET U /\ x \in U
      OBVIOUS
    <3> HIDE DEF U
    <3>2. f[x] \in Nat
      BY <3>1 DEF U
    <3>3. QED
      BY <1>1, <3>1, <3>2
  <2>4. CASE x \in S
    <3>1. S \cup s = S \cup r /\ S \cap s # {}
      BY <2>4
    <3> HIDE DEF r
    <3>2. QED
      BY <2>2, <2>3, <3>1
  <2>5. CASE x \notin S
    <3>1. S \cup r = (S \cup s) \ {x} /\ (S \cap s = {} => S \cap r = {}) /\ x \in S \cup s /\ S \cup s \in SUBSET U
      BY <2>5
    <3>2. Sum(f, S \cup s) = f[x] + Sum(f, S \cup r)
      BY <1>1, <3>1
    <3> HIDE DEF r, U
    <3>3. QED
      BY <2>2, <2>3, <3>1, <3>2
  <2>6. QED
    BY <2>4, <2>5
<1>3. {} \in F
  <2>1. S \cup {} = S /\ S \in SUBSET U
    OBVIOUS
  <2> HIDE DEF U
  <2>2. Sum(f, S) \in Nat
    BY <1>1, <2>1
  <2>3. QED
    BY <1>1, <2>1, <2>2
<1>4. SUBSET T \subseteq F
  <2> HIDE DEF F
  <2>1. QED
    BY <1>2, <1>3, SubsetInduction
<1>5. QED
  BY <1>4

\* Parts that share nothing: their sums add up to that of the whole.
LEMMA SumOfParts ==
  ASSUME NEW X, IsFiniteSet(X), NEW D, IsFiniteSet(D), NEW f, \A k \in D : f[k] \in Nat,
         \A x \in X : x.keys \subseteq D,
         \A x, y \in X : x # y => x.keys \cap y.keys = {},
         NEW h, \A x \in X : h[x] = Sum(f, x.keys)
  PROVE  Sum(h, X) = Sum(f, UNION {x.keys : x \in X})
<1> DEFINE Whole(S) == UNION {x.keys : x \in S}
           F == {S \in SUBSET X : Sum(h, S) = Sum(f, Whole(S))}
<1>1. \A T \in SUBSET D : IsFiniteSet(T) /\ Sum(f, T) \in Nat
  BY SumProperties, FS_Subset
<1>2. Sum(f, {}) = 0
  BY SumProperties
<1>3. /\ Sum(h, {}) = 0
      /\ \A S \in SUBSET X : \A x \in S : Sum(h, S) = h[x] + Sum(h, S \ {x})
  <2>1. \A x \in X : h[x] \in Nat
    BY <1>1
  <2>2. QED
    BY <2>1, SumProperties
<1>4. ASSUME NEW S \in SUBSET X, S # {}, \A x \in S : S \ {x} \in F PROVE S \in F
  <2>1. PICK x \in S : TRUE
    BY <1>4
  <2> DEFINE R == S \ {x}
             W == Whole(R)
  <2>2. Sum(h, R) = Sum(f, W)
    BY <1>4
  <2>3. Whole(S) = W \cup x.keys /\ W \in SUBSET D /\ x.keys \in SUBSET D
    OBVIOUS
  <2>4. W \cap x.keys = {}
    OBVIOUS
  <2>5. Sum(h, S) = Sum(f, x.keys) + Sum(h, R)
    BY <1>3
  <2> HIDE DEF R, W, Whole
  <2>6. Sum(f, W \cup x.keys) = Sum(f, W) + Sum(f, x.keys)
    BY <1>1, <2>3, <2>4, SumUnion
  <2>7. Sum(f, W) \in Nat /\ Sum(f, x.keys) \in Nat
    BY <1>1, <2>3
  <2>8. Sum(h, S) = Sum(f, Whole(S))
    BY <2>2, <2>3, <2>5, <2>6, <2>7
  <2>9. QED
    BY <2>8 DEF Whole
<1>5. {} \in F
  <2>1. Whole({}) = {}
    OBVIOUS
  <2> HIDE DEF Whole
  <2>2. QED
    BY <1>2, <1>3, <2>1
<1>6. SUBSET X \subseteq F
  <2> HIDE DEF F
  <2>1. QED
    BY <1>4, <1>5, SubsetInduction
<1>7. X \in F
  <2> HIDE DEF F
  <2>1. QED
    BY <1>6
<1>8. Sum(h, X) = Sum(f, Whole(X))
  <2> HIDE DEF Whole
  <2>1. QED
    BY <1>7
<1>9. QED
  BY <1>8, Zenon

\* What is in several sets is counted for each of them.
LEMMA CountOfUnion ==
  ASSUME NEW V, IsFiniteSet(V), NEW D, IsFiniteSet(D), NEW O \in [V -> SUBSET D],
         NEW g, \A v \in V : g[v] = Cardinality(O[v])
  PROVE  Cardinality(UNION {O[v] : v \in V}) <= Sum(g, V)
<1> DEFINE Whole(S) == UNION {O[v] : v \in S}
           F == {S \in SUBSET V : Cardinality(Whole(S)) <= Sum(g, S)}
<1>1. \A T \in SUBSET D : IsFiniteSet(T) /\ Cardinality(T) \in Nat
  BY FS_Subset, FS_CardinalityType
<1>2. /\ Sum(g, {}) = 0
      /\ \A S \in SUBSET V : Sum(g, S) \in Nat /\ \A v \in S : Sum(g, S) = g[v] + Sum(g, S \ {v})
  <2>1. \A v \in V : g[v] \in Nat
    BY <1>1
  <2>2. QED
    BY <2>1, SumProperties
<1>3. ASSUME NEW S \in SUBSET V, S # {}, \A v \in S : S \ {v} \in F PROVE S \in F
  <2>1. PICK v \in S : TRUE
    BY <1>3
  <2> DEFINE R == S \ {v}
             W == Whole(R)
  <2>2. Cardinality(W) <= Sum(g, R) /\ R \in SUBSET V
    BY <1>3
  <2>3. Whole(S) = W \cup O[v] /\ W \in SUBSET D /\ O[v] \in SUBSET D /\ W \cap O[v] \in SUBSET D
    OBVIOUS
  <2>4. Sum(g, S) = Cardinality(O[v]) + Sum(g, R)
    BY <1>2
  <2> HIDE DEF R, W, Whole
  <2>5. Cardinality(W \cup O[v]) = Cardinality(W) + Cardinality(O[v]) - Cardinality(W \cap O[v])
    BY <1>1, <2>3, FS_Union
  <2>6. /\ Cardinality(W) \in Nat /\ Cardinality(O[v]) \in Nat /\ Cardinality(W \cap O[v]) \in Nat
        /\ Sum(g, R) \in Nat
    BY <1>1, <1>2, <2>2, <2>3
  <2>7. Cardinality(Whole(S)) <= Sum(g, S)
    BY <2>2, <2>3, <2>4, <2>5, <2>6
  <2>8. QED
    BY <2>7 DEF Whole
<1>4. {} \in F
  <2>1. Whole({}) = {}
    OBVIOUS
  <2> HIDE DEF Whole
  <2>2. Cardinality({}) = 0
    BY FS_EmptySet
  <2>3. Cardinality(Whole({})) = 0 /\ Sum(g, {}) = 0
    BY <1>2, <2>1, <2>2
  <2>4. Cardinality(Whole({})) <= Sum(g, {}) /\ {} \in SUBSET V
    BY <2>3
  <2>5. QED
    BY <2>4
<1>5. SUBSET V \subseteq F
  <2> HIDE DEF F
  <2>1. QED
    BY <1>1, <1>3, <1>4, SubsetInduction
<1>6. V \in F
  <2> HIDE DEF F
  <2>1. QED
    BY <1>5
<1>7. Cardinality(Whole(V)) <= Sum(g, V)
  <2> HIDE DEF Whole
  <2>1. QED
    BY <1>6
<1>8. QED
  BY <1>7, Zenon

-----------------------------------------------------------------------------
(* The tree of a machine.                                                   *)

\* NoSnap stands for the running machine, a state that goes on from the current snapshot.
Layout(m, n) == IF n = NoSnap THEN m.disk ELSE m.layout[n]
From(m, n)   == IF n = NoSnap THEN m.current ELSE m.parent[n]
Uses(m, n)   == AllFiles(Layout(m, n))
States(m)    == m.live \cup {NoSnap}

\* The files a state has and the one it goes on from has not.
Begun(m, n) == Uses(m, n) \ IF From(m, n) = NoSnap THEN {} ELSE Uses(m, From(m, n))

\* Parents are snapshots there are, and from none of them does one come back to it.
Rooted(m) ==
  /\ \A n \in States(m) : From(m, n) \in States(m)
  /\ \A S \in SUBSET m.live : S # {} => \E s \in S : m.parent[s] \notin S

\* Files are numbered by the operations so far.
Numbered(m, k) == \A n \in Snaps \cup {NoSnap} : \A d \in Disks : Layout(m, n)[d] \subseteq {d} \X (0..k)

\* One tree, which the running machine belongs to, and every file was begun once.
Connected(m) ==
  /\ m.live # {} => m.current \in m.live
  /\ \A s, t \in m.live : m.parent[s] = NoSnap /\ m.parent[t] = NoSnap => s = t
  /\ \A a, b \in States(m) : a # b => Begun(m, a) \cap Begun(m, b) = {}

TreeTypes == /\ vm \in [VMs -> Machine]
             /\ split \subseteq VMs
             /\ ops \in [VMs -> Nat] /\ now \in 0..MaxNow

Trees == \A v \in VMs : /\ Rooted(vm[v]) /\ Numbered(vm[v], ops[v])
                        /\ v \notin split => Connected(vm[v])

\* What an operation on a machine leaves.
Operated(v) == \E m \in Machine : /\ Operation(v, m)
                                  /\ Rooted(m) /\ Numbered(m, ops[v] + 1)
                                  /\ split \subseteq split' /\ split' \subseteq VMs
                                  /\ v \notin split' => Connected(m)

LEMMA FilesOf ==
  ASSUME NEW v \in VMs, NEW k \in Nat, k <= MaxOps[v], NEW d \in Disks
  PROVE  <<d, k>> \in Files
<1>1. MaxOps[v] \in Nat /\ k \in 0..MaxOps[v]
  BY TreeAssumption
<1>2. QED
  BY <1>1 DEF Files

LEMMA LayoutTypes ==
  ASSUME NEW m \in Machine
  PROVE  /\ m.live \subseteq Snaps /\ m.current \in Snaps \cup {NoSnap}
         /\ m.parent \in [Snaps -> Snaps \cup {NoSnap}]
         /\ m.created \in [Snaps -> 0..MaxNow]
         /\ m.layout \in [Snaps -> Layouts] /\ m.disk \in Layouts
         /\ m.readable \in BOOLEAN
         /\ \A n \in States(m) : Layout(m, n) \in Layouts
         /\ NoSnap \notin Snaps
BY TreeAssumption DEF Machine, States, Layout

\* A layout whose files carry the number of their disk.
OwnFiles(l) == l \in Layouts /\ \A d \in Disks : l[d] \subseteq {d} \X Nat

LEMMA OwnLayouts ==
  ASSUME NEW m \in Machine, NEW k \in Nat, Numbered(m, k), NEW n \in Snaps \cup {NoSnap}
  PROVE  OwnFiles(Layout(m, n))
<1>1. Layout(m, n) \in Layouts
  BY LayoutTypes DEF Layout
<1>2. \A d \in Disks : Layout(m, n)[d] \subseteq {d} \X (0..k)
  BY DEF Numbered
<1>3. \A d : {d} \X (0..k) \subseteq {d} \X Nat
  OBVIOUS
<1>4. QED
  BY <1>1, <1>2, <1>3 DEF OwnFiles

LEMMA InAllFiles ==
  ASSUME NEW l, NEW f
  PROVE  f \in AllFiles(l) <=> \E d \in Disks : f \in l[d]
BY DEF AllFiles

\* Removing files of their own disks from all layouts removes them.
LEMMA AllFilesWithout ==
  ASSUME NEW l, OwnFiles(l), NEW g \in [Disks -> SUBSET Files],
         \A d \in Disks : g[d] \subseteq {d} \X Nat
  PROVE  AllFiles([d \in Disks |-> l[d] \ g[d]]) = AllFiles(l) \ AllFiles(g)
<1>1. \A d, e \in Disks : \A f : f \in l[d] /\ f \in g[e] => d = e
  BY DEF OwnFiles
<1>2. QED
  BY <1>1 DEF AllFiles

LEMMA NewDeltasFiles ==
  ASSUME NEW v \in VMs, ops[v] \in Nat, ops[v] < MaxOps[v], NEW l \in Layouts,
         \A d \in Disks : l[d] \subseteq {d} \X (0..ops[v])
  PROVE  /\ NewDeltas(v, l) \in Layouts
         /\ \A d \in Disks : NewDeltas(v, l)[d] \subseteq {d} \X (0..(ops[v] + 1))
         /\ AllFiles(l) \subseteq AllFiles(NewDeltas(v, l))
         /\ AllFiles(NewDeltas(v, l)) \subseteq AllFiles(l) \cup Disks \X {ops[v] + 1}
<1>1. \A d \in Disks : <<d, ops[v] + 1>> \in Files
  <2>1. ops[v] + 1 \in Nat /\ ops[v] + 1 <= MaxOps[v]
    BY TreeAssumption
  <2>2. QED
    BY <2>1, FilesOf
<1>2. \A d \in Disks : l[d] \subseteq NewDeltas(v, l)[d] /\ NewDeltas(v, l)[d] \subseteq l[d] \cup {<<d, ops[v] + 1>>}
  BY DEF NewDeltas
<1>3. NewDeltas(v, l) \in Layouts
  BY <1>1 DEF NewDeltas, Layouts
<1>4. \A d \in Disks : NewDeltas(v, l)[d] \subseteq {d} \X (0..(ops[v] + 1))
  <2>1. \A d \in Disks : {d} \X (0..ops[v]) \subseteq {d} \X (0..(ops[v] + 1))
    OBVIOUS
  <2>2. \A d \in Disks : <<d, ops[v] + 1>> \in {d} \X (0..(ops[v] + 1))
    OBVIOUS
  <2>3. QED
    BY <1>2, <2>1, <2>2
<1>5. AllFiles(l) \subseteq AllFiles(NewDeltas(v, l))
  BY <1>2 DEF AllFiles
<1>6. AllFiles(NewDeltas(v, l)) \subseteq AllFiles(l) \cup Disks \X {ops[v] + 1}
  BY <1>2 DEF AllFiles
<1>7. QED
  BY <1>3, <1>4, <1>5, <1>6

\* No state uses the files of the operation to come.
LEMMA NothingFresh ==
  ASSUME NEW m \in Machine, NEW k \in Nat, Numbered(m, k), NEW n \in Snaps \cup {NoSnap}
  PROVE  Uses(m, n) \cap (Disks \X {k + 1}) = {}
<1>1. ASSUME NEW f \in Uses(m, n), f \in Disks \X {k + 1} PROVE FALSE
  <2>1. PICK d \in Disks : f \in Layout(m, n)[d]
    BY <1>1 DEF Uses, AllFiles
  <2>2. f \in {d} \X (0..k)
    BY <2>1 DEF Numbered
  <2>3. f[2] \in 0..k /\ f[2] = k + 1
    BY <1>1, <2>2
  <2>4. QED
    BY <2>3
<1>2. QED
  BY <1>1

\* Operations that leave the snapshots alone and after which the running machine uses,
\* beyond what its snapshot has, only what it did before or new files.
LEMMA MachineGoesOn ==
  ASSUME NEW m \in Machine, NEW k \in Nat, Rooted(m), Numbered(m, k), NEW n \in Machine,
         n.live = m.live, n.parent = m.parent, n.layout = m.layout,
         n.current \in States(m), m.current \in m.live => n.current \in m.live,
         \A d \in Disks : n.disk[d] \subseteq {d} \X (0..(k + 1)),
         Begun(n, NoSnap) \subseteq Begun(m, NoSnap) \cup Disks \X {k + 1}
  PROVE  /\ Rooted(n) /\ Numbered(n, k + 1)
         /\ Connected(m) => Connected(n)
<1>1. \A s \in Snaps : From(n, s) = From(m, s) /\ Layout(n, s) = Layout(m, s) /\ Uses(n, s) = Uses(m, s)
  BY LayoutTypes DEF From, Layout, Uses
<1>2. m.live \subseteq Snaps /\ NoSnap \notin Snaps /\ States(n) = States(m) /\ From(n, NoSnap) = n.current
  BY LayoutTypes DEF States, From
<1>3. Rooted(n)
  <2>1. \A a \in States(n) : From(n, a) \in States(n)
    BY <1>1, <1>2 DEF Rooted, States
  <2>2. QED
    BY <2>1 DEF Rooted
<1>4. Numbered(n, k + 1)
  <2>1. ASSUME NEW s \in Snaps, NEW d \in Disks PROVE Layout(n, s)[d] \subseteq {d} \X (0..(k + 1))
    <3>1. Layout(n, s)[d] \subseteq {d} \X (0..k)
      BY <1>1 DEF Numbered
    <3>2. {d} \X (0..k) \subseteq {d} \X (0..(k + 1))
      OBVIOUS
    <3>3. QED
      BY <3>1, <3>2
  <2>2. \A d \in Disks : Layout(n, NoSnap)[d] \subseteq {d} \X (0..(k + 1))
    BY DEF Layout
  <2>3. QED
    BY <2>1, <2>2 DEF Numbered
<1>5. ASSUME Connected(m) PROVE Connected(n)
  <2>1. \A s \in m.live : Begun(n, s) = Begun(m, s)
    <3>1. \A s \in m.live : From(m, s) \in States(m)
      BY DEF Rooted, States
    <3>2. QED
      BY <1>1, <1>2, <3>1 DEF Begun, States
  <2>2. ASSUME NEW s \in m.live PROVE Begun(n, s) \cap Begun(n, NoSnap) = {}
    <3>1. Begun(m, s) \subseteq Uses(m, s)
      BY DEF Begun
    <3>2. Uses(m, s) \cap (Disks \X {k + 1}) = {}
      BY <1>2, NothingFresh
    <3>3. Begun(m, s) \cap Begun(m, NoSnap) = {}
      BY <1>2, <1>5 DEF Connected, States
    <3>4. QED
      BY <2>1, <3>1, <3>2, <3>3
  <2>3. \A s, t \in m.live : s # t => Begun(n, s) \cap Begun(n, t) = {}
    BY <1>5, <2>1 DEF Connected, States
  <2>4. \A a, b \in States(n) : a # b => Begun(n, a) \cap Begun(n, b) = {}
    BY <1>2, <2>2, <2>3 DEF States
  <2>5. n.live # {} => n.current \in n.live
    BY <1>5 DEF Connected
  <2>6. \A s, t \in n.live : n.parent[s] = NoSnap /\ n.parent[t] = NoSnap => s = t
    BY <1>5 DEF Connected
  <2>7. QED
    BY <2>4, <2>5, <2>6 DEF Connected
<1>6. QED
  BY <1>3, <1>4, <1>5

\* The types of a machine and its tree before an operation.
LEMMA BeforeOperation ==
  ASSUME TreeTypes, Trees, NEW v \in VMs
  PROVE  /\ vm[v] \in Machine /\ ops[v] \in Nat /\ MaxOps[v] \in Nat
         /\ Rooted(vm[v]) /\ Numbered(vm[v], ops[v])
         /\ v \notin split => Connected(vm[v])
         /\ \A n \in Snaps \cup {NoSnap} : Layout(vm[v], n) \in Layouts
         /\ \A n \in Snaps \cup {NoSnap} : \A d \in Disks : Layout(vm[v], n)[d] \subseteq {d} \X (0..ops[v])
<1>1. vm[v] \in Machine /\ ops[v] \in Nat
  BY DEF TreeTypes
<1>2. Rooted(vm[v]) /\ Numbered(vm[v], ops[v]) /\ (v \notin split => Connected(vm[v]))
  BY DEF Trees
<1>3. \A n \in Snaps \cup {NoSnap} : Layout(vm[v], n) \in Layouts
  BY <1>1, LayoutTypes DEF Layout
<1>4. QED
  BY <1>1, <1>2, <1>3, TreeAssumption DEF Numbered

LEMMA RevertToSnapshotTree ==
  ASSUME TreeTypes, Trees, NEW v \in VMs, RevertToSnapshot(v)
  PROVE  Operated(v)
<1> DEFINE m == vm[v]
           k == ops[v]
<1>1. PICK s \in m.live : /\ Operation(v, [m EXCEPT !.current = s, !.disk = NewDeltas(v, m.layout[s])])
                          /\ UNCHANGED split
  BY DEF RevertToSnapshot
<1> DEFINE n == [m EXCEPT !.current = s, !.disk = NewDeltas(v, m.layout[s])]
<1>2. Operation(v, n) /\ k < MaxOps[v]
  BY <1>1 DEF Operation
<1>3. /\ m \in Machine /\ k \in Nat /\ Rooted(m) /\ Numbered(m, k) /\ (v \notin split => Connected(m))
      /\ s \in Snaps /\ NoSnap \notin Snaps /\ m.layout[s] \in Layouts
      /\ \A d \in Disks : m.layout[s][d] \subseteq {d} \X (0..k)
  <2>1. m \in Machine /\ s \in Snaps /\ NoSnap \notin Snaps
    BY BeforeOperation, LayoutTypes
  <2>2. Layout(m, s) = m.layout[s]
    BY <2>1 DEF Layout
  <2>3. QED
    BY <2>1, <2>2, BeforeOperation
<1>4. /\ NewDeltas(v, m.layout[s]) \in Layouts
      /\ \A d \in Disks : NewDeltas(v, m.layout[s])[d] \subseteq {d} \X (0..(k + 1))
      /\ AllFiles(NewDeltas(v, m.layout[s])) \subseteq AllFiles(m.layout[s]) \cup Disks \X {k + 1}
  BY <1>2, <1>3, NewDeltasFiles
<1>5. /\ n \in Machine /\ n.live = m.live /\ n.parent = m.parent /\ n.layout = m.layout
      /\ n.current = s /\ n.disk = NewDeltas(v, m.layout[s])
  BY <1>3, <1>4 DEF Machine
<1> HIDE DEF n, m, k
<1>6. Begun(n, NoSnap) \subseteq Disks \X {k + 1}
  BY <1>3, <1>4, <1>5 DEF Begun, Uses, From, Layout
<1>7. s \in States(m)
  BY DEF States
<1>8. Rooted(n) /\ Numbered(n, k + 1) /\ (Connected(m) => Connected(n))
  BY <1>3, <1>4, <1>5, <1>6, <1>7, MachineGoesOn
<1>9. QED
  BY <1>1, <1>2, <1>3, <1>5, <1>8 DEF Operated, TreeTypes, k

LEMMA AddDiskTree ==
  ASSUME TreeTypes, Trees, NEW v \in VMs, AddDisk(v)
  PROVE  Operated(v)
<1> DEFINE m == vm[v]
           k == ops[v]
<1>1. PICK d \in Disks : /\ m.disk[d] = {}
                         /\ Operation(v, [m EXCEPT !.disk[d] = {<<d, k + 1>>}])
                         /\ UNCHANGED split
  BY DEF AddDisk
<1> DEFINE n == [m EXCEPT !.disk[d] = {<<d, k + 1>>}]
<1>2. Operation(v, n) /\ k < MaxOps[v]
  BY <1>1 DEF Operation
<1>3. /\ m \in Machine /\ k \in Nat /\ Rooted(m) /\ Numbered(m, k) /\ (v \notin split => Connected(m))
      /\ m.disk \in Layouts /\ \A e \in Disks : m.disk[e] \subseteq {e} \X (0..k)
  <2>1. Layout(m, NoSnap) = m.disk
    BY DEF Layout
  <2>2. QED
    BY <2>1, BeforeOperation
<1>4. <<d, k + 1>> \in Files
  BY <1>2, <1>3, BeforeOperation, FilesOf
<1>5. [m.disk EXCEPT ![d] = {<<d, k + 1>>}] \in Layouts
  BY <1>3, <1>4 DEF Layouts
<1>6. /\ n \in Machine /\ n.live = m.live /\ n.parent = m.parent /\ n.layout = m.layout
      /\ n.current = m.current /\ n.disk = [m.disk EXCEPT ![d] = {<<d, k + 1>>}]
  BY <1>3, <1>5 DEF Machine
<1> HIDE DEF n, m, k
<1>7. \A e \in Disks : n.disk[e] = IF e = d THEN {<<d, k + 1>>} ELSE m.disk[e]
  BY <1>3, <1>6 DEF Layouts
<1>8. AllFiles(n.disk) \subseteq AllFiles(m.disk) \cup Disks \X {k + 1}
  BY <1>7 DEF AllFiles
<1>9. \A e \in Disks : n.disk[e] \subseteq {e} \X (0..(k + 1))
  <2>1. \A e \in Disks : {e} \X (0..k) \subseteq {e} \X (0..(k + 1)) /\ <<e, k + 1>> \in {e} \X (0..(k + 1))
    BY <1>3
  <2>2. QED
    BY <1>3, <1>7, <2>1
<1>10. Begun(n, NoSnap) \subseteq Begun(m, NoSnap) \cup Disks \X {k + 1}
  BY <1>6, <1>8, LayoutTypes, <1>3 DEF Begun, Uses, From, Layout
<1>11. m.current \in States(m)
  BY <1>3 DEF Rooted, States, From
<1>12. Rooted(n) /\ Numbered(n, k + 1) /\ (Connected(m) => Connected(n))
  BY <1>3, <1>6, <1>9, <1>10, <1>11, MachineGoesOn
<1>13. QED
  BY <1>1, <1>2, <1>3, <1>6, <1>12 DEF Operated, TreeTypes, k

LEMMA RemoveDiskTree ==
  ASSUME TreeTypes, Trees, NEW v \in VMs, RemoveDisk(v)
  PROVE  Operated(v)
<1> DEFINE m == vm[v]
           k == ops[v]
<1>1. PICK d \in Disks : Operation(v, [m EXCEPT !.disk[d] = {}]) /\ UNCHANGED split
  BY DEF RemoveDisk
<1> DEFINE n == [m EXCEPT !.disk[d] = {}]
<1>2. Operation(v, n)
  BY <1>1
<1>3. /\ m \in Machine /\ k \in Nat /\ Rooted(m) /\ Numbered(m, k) /\ (v \notin split => Connected(m))
      /\ m.disk \in Layouts /\ \A e \in Disks : m.disk[e] \subseteq {e} \X (0..k)
  <2>1. Layout(m, NoSnap) = m.disk
    BY DEF Layout
  <2>2. QED
    BY <2>1, BeforeOperation
<1>4. [m.disk EXCEPT ![d] = {}] \in Layouts
  BY <1>3 DEF Layouts
<1>5. /\ n \in Machine /\ n.live = m.live /\ n.parent = m.parent /\ n.layout = m.layout
      /\ n.current = m.current /\ n.disk = [m.disk EXCEPT ![d] = {}]
  BY <1>3, <1>4 DEF Machine
<1> HIDE DEF n, m, k
<1>6. \A e \in Disks : n.disk[e] \subseteq m.disk[e]
  BY <1>3, <1>5 DEF Layouts
<1>7. AllFiles(n.disk) \subseteq AllFiles(m.disk)
  BY <1>6 DEF AllFiles
<1>8. \A e \in Disks : n.disk[e] \subseteq {e} \X (0..(k + 1))
  <2>1. \A e \in Disks : {e} \X (0..k) \subseteq {e} \X (0..(k + 1))
    BY <1>3
  <2>2. QED
    BY <1>3, <1>6, <2>1
<1>9. Begun(n, NoSnap) \subseteq Begun(m, NoSnap) \cup Disks \X {k + 1}
  BY <1>5, <1>7, LayoutTypes, <1>3 DEF Begun, Uses, From, Layout
<1>10. m.current \in States(m)
  BY <1>3 DEF Rooted, States, From
<1>11. Rooted(n) /\ Numbered(n, k + 1) /\ (Connected(m) => Connected(n))
  BY <1>3, <1>5, <1>8, <1>9, <1>10, MachineGoesOn
<1>12. QED
  BY <1>1, <1>2, <1>3, <1>5, <1>11 DEF Operated, TreeTypes, k

LEMMA BecomeInaccessibleTree ==
  ASSUME TreeTypes, Trees, NEW v \in VMs, BecomeInaccessible(v)
  PROVE  Operated(v)
<1> DEFINE m == vm[v]
           k == ops[v]
           n == [m EXCEPT !.readable = FALSE]
<1>1. Operation(v, n) /\ UNCHANGED split
  BY DEF BecomeInaccessible
<1>2. /\ m \in Machine /\ k \in Nat /\ Rooted(m) /\ Numbered(m, k) /\ (v \notin split => Connected(m))
      /\ m.disk \in Layouts /\ \A e \in Disks : m.disk[e] \subseteq {e} \X (0..k)
  <2>1. Layout(m, NoSnap) = m.disk
    BY DEF Layout
  <2>2. QED
    BY <2>1, BeforeOperation
<1>3. /\ n \in Machine /\ n.live = m.live /\ n.parent = m.parent /\ n.layout = m.layout
      /\ n.current = m.current /\ n.disk = m.disk
  BY <1>2 DEF Machine
<1> HIDE DEF n, m, k
<1>4. \A e \in Disks : n.disk[e] \subseteq {e} \X (0..(k + 1))
  <2>1. \A e \in Disks : {e} \X (0..k) \subseteq {e} \X (0..(k + 1))
    BY <1>2
  <2>2. QED
    BY <1>2, <1>3, <2>1
<1>5. Begun(n, NoSnap) = Begun(m, NoSnap)
  BY <1>2, <1>3, LayoutTypes DEF Begun, Uses, From, Layout
<1>6. m.current \in States(m)
  BY <1>2 DEF Rooted, States, From
<1>7. Rooted(n) /\ Numbered(n, k + 1) /\ (Connected(m) => Connected(n))
  BY <1>2, <1>3, <1>4, <1>5, <1>6, MachineGoesOn
<1>8. QED
  BY <1>1, <1>2, <1>3, <1>7 DEF Operated, TreeTypes, k

\* What the running machine began since the last snapshot is begun in the new one; the
\* machine has nothing but new files.
LEMMA TakeSnapshotTree ==
  ASSUME TreeTypes, Trees, NEW v \in VMs, TakeSnapshot(v)
  PROVE  Operated(v)
<1> DEFINE m == vm[v]
           k == ops[v]
           After(s) == [m EXCEPT !.live = @ \cup {s}, !.parent[s] = m.current, !.current = s,
                                 !.created[s] = now, !.layout[s] = m.disk,
                                 !.disk = NewDeltas(v, @)]
<1>1. PICK s \in Snaps \ m.live : Operation(v, After(s)) /\ UNCHANGED split
  BY DEF TakeSnapshot
<1> DEFINE n == After(s)
<1>2. Operation(v, n) /\ k < MaxOps[v]
  BY <1>1 DEF Operation
<1>3. /\ m \in Machine /\ k \in Nat /\ Rooted(m) /\ Numbered(m, k) /\ (v \notin split => Connected(m))
      /\ m.live \subseteq Snaps /\ NoSnap \notin Snaps /\ m.disk \in Layouts
      /\ m.parent \in [Snaps -> Snaps \cup {NoSnap}] /\ m.layout \in [Snaps -> Layouts]
      /\ m.current \in Snaps \cup {NoSnap}
      /\ \A d \in Disks : m.disk[d] \subseteq {d} \X (0..k)
  <2>1. Layout(m, NoSnap) = m.disk
    BY DEF Layout
  <2>2. QED
    BY <2>1, BeforeOperation, LayoutTypes
<1>4. /\ NewDeltas(v, m.disk) \in Layouts
      /\ \A d \in Disks : NewDeltas(v, m.disk)[d] \subseteq {d} \X (0..(k + 1))
      /\ AllFiles(NewDeltas(v, m.disk)) \subseteq AllFiles(m.disk) \cup Disks \X {k + 1}
  BY <1>2, <1>3, NewDeltasFiles
<1>5. /\ n \in Machine /\ n.live = m.live \cup {s} /\ n.parent = [m.parent EXCEPT ![s] = m.current]
      /\ n.current = s /\ n.layout = [m.layout EXCEPT ![s] = m.disk] /\ n.disk = NewDeltas(v, m.disk)
  <2>1. now \in 0..MaxNow
    BY DEF TreeTypes
  <2>2. QED
    BY <1>3, <1>4, <2>1 DEF Machine
<1> HIDE DEF n, m, k, After
<1>6. /\ s \in Snaps /\ s \notin m.live /\ s # NoSnap
      /\ \A t \in Snaps : t # s => From(n, t) = From(m, t) /\ Layout(n, t) = Layout(m, t) /\ Uses(n, t) = Uses(m, t)
  BY <1>1, <1>3, <1>5 DEF From, Layout, Uses
<1>7. /\ From(n, s) = From(m, NoSnap) /\ Layout(n, s) = Layout(m, NoSnap) /\ Uses(n, s) = Uses(m, NoSnap)
      /\ From(n, NoSnap) = s /\ Layout(n, NoSnap) = NewDeltas(v, m.disk)
      /\ States(n) = States(m) \cup {s}
  BY <1>3, <1>5, <1>6 DEF From, Layout, Uses, States
<1>8. \A a \in States(m) : From(m, a) \in States(m) /\ From(m, a) # s
  BY <1>3, <1>6 DEF Rooted, States
<1>9. Rooted(n)
  <2>1. ASSUME NEW a \in States(n) PROVE From(n, a) \in States(n)
    <3>1. CASE a = NoSnap \/ a = s
      BY <1>7, <1>8, <3>1 DEF States
    <3>2. CASE a # NoSnap /\ a # s
      BY <1>3, <1>6, <1>7, <1>8, <3>2 DEF States
    <3>3. QED
      BY <3>1, <3>2
  <2>2. ASSUME NEW S \in SUBSET n.live, S # {} PROVE \E t \in S : n.parent[t] \notin S
    <3>1. CASE S \ {s} = {}
      <4>1. S = {s} /\ n.parent[s] = m.current /\ m.current # s
        BY <1>3, <1>5, <1>6, <1>8, <2>2, <3>1 DEF From, States
      <4>2. QED
        BY <4>1
    <3>2. CASE S \ {s} # {}
      <4>1. S \ {s} \in SUBSET m.live
        BY <1>5
      <4>2. PICK t \in S \ {s} : m.parent[t] \notin S \ {s}
        BY <1>3, <3>2, <4>1 DEF Rooted
      <4>3. t \in m.live /\ n.parent[t] = m.parent[t] /\ m.parent[t] # s
        BY <1>3, <1>5, <1>8, <4>1, <4>2 DEF From, States
      <4>4. QED
        BY <4>2, <4>3
    <3>3. QED
      BY <3>1, <3>2
  <2>3. QED
    BY <2>1, <2>2 DEF Rooted
<1>10. Numbered(n, k + 1)
  <2>1. \A d : {d} \X (0..k) \subseteq {d} \X (0..(k + 1))
    BY <1>3
  <2>2. ASSUME NEW t \in Snaps, NEW d \in Disks PROVE Layout(n, t)[d] \subseteq {d} \X (0..k)
    <3>1. Layout(m, t)[d] \subseteq {d} \X (0..k) /\ Layout(m, NoSnap)[d] \subseteq {d} \X (0..k)
      BY <1>3 DEF Numbered
    <3>2. QED
      BY <1>6, <1>7, <3>1
  <2>3. QED
    BY <1>4, <1>7, <2>1, <2>2 DEF Numbered
<1>11. ASSUME Connected(m) PROVE Connected(n)
  <2>1. Begun(n, NoSnap) \subseteq Disks \X {k + 1}
    BY <1>3, <1>4, <1>7 DEF Begun, Uses, Layout
  <2>2. Begun(n, s) = Begun(m, NoSnap)
    BY <1>6, <1>7, <1>8, <1>3 DEF Begun, States
  <2>3. \A t \in m.live : Begun(n, t) = Begun(m, t)
    BY <1>6, <1>8, <1>3 DEF Begun, States
  <2>4. \A a \in States(m) : Begun(m, a) \cap (Disks \X {k + 1}) = {}
    <3>1. \A a \in States(m) : Uses(m, a) \cap (Disks \X {k + 1}) = {}
      BY <1>3, NothingFresh DEF States
    <3>2. QED
      BY <3>1 DEF Begun
  <2>5. \A a, b \in States(m) : a # b => Begun(m, a) \cap Begun(m, b) = {}
    BY <1>11 DEF Connected
  <2>6. /\ \A t \in m.live : Begun(n, t) \cap Begun(n, s) = {} /\ Begun(n, t) \cap Begun(n, NoSnap) = {}
        /\ Begun(n, s) \cap Begun(n, NoSnap) = {}
    <3>1. NoSnap \in States(m) /\ \A t \in m.live : t \in States(m) /\ t # NoSnap
      BY <1>3 DEF States
    <3>2. QED
      BY <2>1, <2>2, <2>3, <2>4, <2>5, <3>1
  <2>7. \A t, u \in m.live : t # u => Begun(n, t) \cap Begun(n, u) = {}
    BY <2>3, <2>5 DEF States
  <2>8. \A a, b \in States(n) : a # b => Begun(n, a) \cap Begun(n, b) = {}
    BY <1>7, <2>6, <2>7 DEF States
  <2>9. n.current \in n.live
    BY <1>5
  <2>10. ASSUME NEW t \in n.live, NEW u \in n.live, n.parent[t] = NoSnap, n.parent[u] = NoSnap
         PROVE  t = u
    <3>1. \A w \in m.live : n.parent[w] = m.parent[w]
      BY <1>3, <1>5, <1>6
    <3>2. n.parent[s] = NoSnap => m.live = {}
      BY <1>3, <1>5, <1>6, <1>11 DEF Connected
    <3>3. QED
      BY <1>5, <1>11, <2>10, <3>1, <3>2 DEF Connected
  <2>11. QED
    BY <2>8, <2>9, <2>10 DEF Connected
<1>12. QED
  BY <1>1, <1>2, <1>3, <1>5, <1>9, <1>10, <1>11 DEF Operated, TreeTypes, k, n

\* At most one state goes on from a snapshot with at most one branch.
LEMMA OneBranch ==
  ASSUME NEW v \in VMs, vm[v] \in Machine, NEW s \in vm[v].live,
         ~ (Cardinality(Children(v, s)) + (IF vm[v].current = s THEN 1 ELSE 0) > 1)
  PROVE  \A a, b \in States(vm[v]) : From(vm[v], a) = s /\ From(vm[v], b) = s => a = b
<1> DEFINE m == vm[v]
           C == Children(v, s)
<1>1. m.live \subseteq Snaps /\ NoSnap \notin Snaps
  BY LayoutTypes
<1>2. IsFiniteSet(C) /\ Cardinality(C) \in Nat
  <2>1. C \in SUBSET Snaps
    BY <1>1 DEF Children
  <2>2. QED
    BY <2>1, TreeAssumption, FS_Subset, FS_CardinalityType
<1>3. \A a \in m.live : From(m, a) = s <=> a \in C
  BY <1>1 DEF Children, From
<1>4. From(m, NoSnap) = s <=> m.current = s
  BY DEF From
<1> HIDE DEF C
<1>5. ASSUME NEW a \in C, NEW b \in C, Cardinality(C) <= 1 PROVE a = b
  <2>1. IsFiniteSet(C \ {a}) /\ Cardinality(C \ {a}) = Cardinality(C) - 1 /\ Cardinality(C \ {a}) \in Nat
    BY <1>2, FS_RemoveElement, FS_CardinalityType
  <2>2. Cardinality(C \ {a}) = 0
    BY <1>2, <1>5, <2>1
  <2>3. C \ {a} = {}
    BY <2>1, <2>2, FS_EmptySet
  <2>4. QED
    BY <2>3
<1>6. C # {} => Cardinality(C) # 0
  BY <1>2, FS_EmptySet
<1>7. Cardinality(C) + (IF m.current = s THEN 1 ELSE 0) <= 1
  BY <1>2 DEF C
<1>8. Cardinality(C) <= 1 /\ (m.current = s => Cardinality(C) = 0)
  BY <1>2, <1>7
<1>9. m.current = s => C = {}
  BY <1>6, <1>8
<1>10. \A a, b \in C : a = b
  BY <1>5, <1>8
<1>11. QED
  BY <1>1, <1>3, <1>4, <1>9, <1>10 DEF States

\* Taking a state out of a tree, and with it files of one branch.
LEMMA WithoutState ==
  ASSUME NEW m \in Machine, NEW k \in Nat, Rooted(m), Numbered(m, k), NEW s \in m.live,
         NEW n \in Machine, n.live = m.live \ {s},
         \A a \in States(m) \ {s} : From(n, a) = IF From(m, a) = s THEN m.parent[s] ELSE From(m, a),
         NEW g, \A a \in States(m) \ {s} : Uses(n, a) = Uses(m, a) \ g
  PROVE  /\ Rooted(n)
         /\ /\ Connected(m)
            /\ \A a, b \in States(m) : From(m, a) = s /\ From(m, b) = s => a = b
            => Connected(n)
<1> DEFINE p == m.parent[s]
<1>1. /\ m.live \subseteq Snaps /\ n.live \subseteq Snaps /\ NoSnap \notin Snaps
      /\ States(n) = States(m) \ {s} /\ s # NoSnap /\ s \in States(m) /\ NoSnap \in States(n)
  BY LayoutTypes DEF States
<1>2. \A t \in m.live : From(m, t) = m.parent[t]
  BY <1>1 DEF From
<1>3. \A t \in n.live : /\ From(n, t) = n.parent[t]
                        /\ n.parent[t] = IF m.parent[t] = s THEN p ELSE m.parent[t]
  BY <1>1, <1>2 DEF From, States
<1>4. n.current = IF m.current = s THEN p ELSE m.current
  BY <1>1 DEF From
<1>5. p \in States(m) /\ p # s
  <2>1. p \in States(m)
    BY <1>1, <1>2 DEF Rooted
  <2>2. p \notin {s}
    BY DEF Rooted
  <2>3. QED
    BY <2>1, <2>2
<1> HIDE DEF p
<1>6. Rooted(n)
  <2>1. \A a \in States(n) : From(n, a) \in States(n)
    BY <1>1, <1>5 DEF Rooted, p
  <2>2. ASSUME NEW S \in SUBSET n.live, S # {} PROVE \E t \in S : n.parent[t] \notin S
    <3>1. S \cup {s} \in SUBSET m.live /\ S \in SUBSET m.live /\ s \notin S
      OBVIOUS
    <3>2. PICK t \in S \cup {s} : m.parent[t] \notin S \cup {s}
      BY <3>1 DEF Rooted
    <3>3. CASE t # s
      BY <1>3, <3>1, <3>2, <3>3
    <3>4. CASE t = s
      <4>1. p \notin S
        BY <3>2, <3>4 DEF p
      <4>2. PICK u \in S : m.parent[u] \notin S
        BY <2>2, <3>1 DEF Rooted
      <4>3. n.parent[u] \notin S
        BY <1>3, <4>1, <4>2
      <4>4. QED
        BY <4>3
    <3>5. QED
      BY <3>3, <3>4
  <2>3. QED
    BY <2>1, <2>2 DEF Rooted
<1>7. ASSUME Connected(m),
             \A a, b \in States(m) : From(m, a) = s /\ From(m, b) = s => a = b
      PROVE  Connected(n)
  <2>1. ASSUME n.live # {} PROVE n.current \in n.live
    <3>1. m.current \in m.live
      BY <1>7, <2>1 DEF Connected
    <3>2. CASE m.current # s
      BY <1>4, <3>1, <3>2
    <3>3. CASE m.current = s
      <4>1. PICK t \in n.live : m.parent[t] \notin n.live
        BY <2>1 DEF Rooted
      <4>2. m.parent[t] # s
        <5>1. From(m, NoSnap) = s /\ t # NoSnap
          BY <1>1, <3>3 DEF From
        <5>2. QED
          BY <1>1, <1>2, <1>7, <5>1 DEF States
      <4>3. m.parent[t] \in States(m)
        BY <1>2 DEF Rooted, States
      <4>4. m.parent[t] = NoSnap
        BY <4>1, <4>2, <4>3 DEF States
      <4>5. p # NoSnap
        BY <1>7, <4>4 DEF Connected, p
      <4>6. QED
        BY <1>4, <1>5, <3>3, <4>5 DEF States
    <3>4. QED
      BY <3>2, <3>3
  <2>2. ASSUME NEW t \in n.live, NEW u \in n.live, n.parent[t] = NoSnap, n.parent[u] = NoSnap
        PROVE  t = u
    <3>1. t \in m.live /\ u \in m.live /\ t # s /\ u # s /\ t \in States(m) /\ u \in States(m)
      BY DEF States
    <3>2. \A w \in m.live : m.parent[w] = NoSnap /\ p = NoSnap => w = s
      BY <1>7 DEF Connected, p
    <3>3. m.parent[t] = NoSnap /\ m.parent[u] = NoSnap => t = u
      BY <1>7, <3>1 DEF Connected
    <3>4. m.parent[t] = s /\ m.parent[u] = s => t = u
      BY <1>2, <1>7, <3>1
    <3>5. QED
      BY <1>3, <2>2, <3>1, <3>2, <3>3, <3>4
  <2>3. ASSUME NEW a \in States(n), From(m, a) # s PROVE Begun(n, a) \subseteq Begun(m, a)
    <3>1. From(n, a) = From(m, a) /\ From(m, a) \in States(m) /\ a \in States(m) \ {s}
      BY <1>1, <2>3 DEF Rooted
    <3>2. Uses(n, a) = Uses(m, a) \ g /\ Uses(n, From(m, a)) = Uses(m, From(m, a)) \ g
      BY <2>3, <3>1
    <3>3. QED
      BY <3>1, <3>2 DEF Begun
  <2>4. ASSUME NEW a \in States(n), From(m, a) = s PROVE Begun(n, a) \subseteq Begun(m, a) \cup Begun(m, s)
    <3>1. From(n, a) = p /\ a \in States(m) \ {s}
      BY <1>1, <2>4 DEF p
    <3>2. Uses(n, a) = Uses(m, a) \ g /\ Uses(n, p) = Uses(m, p) \ g
      BY <1>5, <3>1
    <3>3. From(m, s) = p
      BY <1>2 DEF p
    <3>4. QED
      BY <1>1, <2>4, <3>1, <3>2, <3>3 DEF Begun
  <2>5. ASSUME NEW a \in States(n), NEW b \in States(n), a # b PROVE Begun(n, a) \cap Begun(n, b) = {}
    <3>1. /\ Begun(m, a) \cap Begun(m, b) = {} /\ Begun(m, a) \cap Begun(m, s) = {}
          /\ Begun(m, b) \cap Begun(m, s) = {}
      BY <1>1, <1>7, <2>5 DEF Connected
    <3>2. ~ (From(m, a) = s /\ From(m, b) = s)
      BY <1>1, <1>7, <2>5
    <3>3. QED
      BY <2>3, <2>4, <3>1, <3>2
  <2>6. QED
    BY <2>1, <2>2, <2>5 DEF Connected
<1>8. QED
  BY <1>6, <1>7

LEMMA RemoveSnapshotTree ==
  ASSUME TreeTypes, Trees, NEW v \in VMs, RemoveSnapshot(v)
  PROVE  Operated(v)
<1> DEFINE m == vm[v]
           k == ops[v]
           branches(s) == Cardinality(Children(v, s)) + IF m.current = s THEN 1 ELSE 0
           next(s) == IF m.current = s THEN m.disk ELSE m.layout[CHOOSE c \in Children(v, s) : TRUE]
           merged(s, d) == IF branches(s) = 1 /\ m.layout[s][d] # {} THEN next(s)[d] \ m.layout[s][d] ELSE {}
           Without(s, l) == [d \in Disks |-> l[d] \ merged(s, d)]
           After(s) == [m EXCEPT
                          !.live    = @ \ {s},
                          !.current = IF @ = s THEN m.parent[s] ELSE @,
                          !.parent  = [c \in Snaps |-> IF c = s THEN NoSnap
                                                       ELSE IF @[c] = s THEN m.parent[s] ELSE @[c]],
                          !.created[s] = 0,
                          !.layout  = [c \in Snaps |-> IF c = s THEN [d \in Disks |-> {}] ELSE Without(s, @[c])],
                          !.disk    = Without(s, @)]
<1>1. PICK s \in m.live : /\ Operation(v, After(s))
                          /\ split' = IF branches(s) > 1 THEN split \cup {v} ELSE split
  BY DEF RemoveSnapshot
<1> DEFINE n == After(s)
           g == [d \in Disks |-> merged(s, d)]
<1>2. Operation(v, n)
  BY <1>1
<1>3. /\ m \in Machine /\ k \in Nat /\ Rooted(m) /\ Numbered(m, k) /\ (v \notin split => Connected(m))
      /\ m.live \subseteq Snaps /\ NoSnap \notin Snaps /\ m.disk \in Layouts
      /\ m.parent \in [Snaps -> Snaps \cup {NoSnap}] /\ m.layout \in [Snaps -> Layouts]
      /\ m.current \in Snaps \cup {NoSnap}
  BY BeforeOperation, LayoutTypes
<1>4. /\ \A d \in Disks : m.disk[d] \subseteq {d} \X (0..k) /\ m.disk[d] \subseteq Files
      /\ \A c \in Snaps : \A d \in Disks : m.layout[c][d] \subseteq {d} \X (0..k) /\ m.layout[c][d] \subseteq Files
  <2>1. Layout(m, NoSnap) = m.disk /\ \A c \in Snaps : Layout(m, c) = m.layout[c]
    BY <1>3 DEF Layout
  <2>2. QED
    BY <1>3, <2>1, BeforeOperation DEF Layouts
<1>5. ASSUME branches(s) = 1 PROVE \A d \in Disks : next(s)[d] \subseteq {d} \X (0..k) /\ next(s)[d] \subseteq Files
  <2>1. CASE m.current = s
    BY <1>4, <2>1
  <2>2. CASE m.current # s
    <3>1. Cardinality(Children(v, s)) \in Nat /\ IsFiniteSet(Children(v, s))
      <4>1. Children(v, s) \in SUBSET Snaps
        BY <1>3 DEF Children
      <4>2. QED
        BY <4>1, TreeAssumption, FS_Subset, FS_CardinalityType
    <3>2. Cardinality(Children(v, s)) = 1
      BY <1>5, <2>2, <3>1
    <3>3. Children(v, s) # {}
      BY <3>2, FS_EmptySet
    <3>4. (CHOOSE c \in Children(v, s) : TRUE) \in Snaps
      BY <1>3, <3>3 DEF Children
    <3>5. QED
      BY <1>4, <2>2, <3>4
  <2>3. QED
    BY <2>1, <2>2
<1>6. \A d \in Disks : merged(s, d) \subseteq {d} \X (0..k) /\ merged(s, d) \subseteq Files
  BY <1>5
<1> HIDE DEF merged
<1>7. g \in [Disks -> SUBSET Files] /\ \A d \in Disks : g[d] = merged(s, d) /\ g[d] \subseteq {d} \X Nat
  <2>1. \A d : {d} \X (0..k) \subseteq {d} \X Nat
    BY <1>3
  <2>2. QED
    BY <1>6, <2>1
<1>8. \A l \in Layouts : Without(s, l) \in Layouts /\ Without(s, l) = [d \in Disks |-> l[d] \ g[d]]
  <2>1. \A l \in Layouts : Without(s, l) = [d \in Disks |-> l[d] \ g[d]]
    OBVIOUS
  <2>2. \A l \in Layouts : Without(s, l) \in Layouts
    BY DEF Layouts
  <2>3. QED
    BY <2>1, <2>2
<1> HIDE DEF Without, g
<1>9. /\ n \in Machine /\ n.live = m.live \ {s}
      /\ n.current = IF m.current = s THEN m.parent[s] ELSE m.current
      /\ n.parent = [c \in Snaps |-> IF c = s THEN NoSnap ELSE IF m.parent[c] = s THEN m.parent[s] ELSE m.parent[c]]
      /\ n.layout = [c \in Snaps |-> IF c = s THEN [d \in Disks |-> {}] ELSE Without(s, m.layout[c])]
      /\ n.disk = Without(s, m.disk)
  <2>1. m.live \ {s} \in SUBSET Snaps /\ s \in Snaps
    BY <1>3
  <2>2. (IF m.current = s THEN m.parent[s] ELSE m.current) \in Snaps \cup {NoSnap}
    BY <1>3, <2>1
  <2>3. [c \in Snaps |-> IF c = s THEN NoSnap ELSE IF m.parent[c] = s THEN m.parent[s] ELSE m.parent[c]]
          \in [Snaps -> Snaps \cup {NoSnap}]
    BY <1>3, <2>1
  <2>4. [m.created EXCEPT ![s] = 0] \in [Snaps -> 0..MaxNow]
    BY <1>3, TreeAssumption, LayoutTypes
  <2>5. [d \in Disks |-> {}] \in Layouts
    BY DEF Layouts
  <2>6. [c \in Snaps |-> IF c = s THEN [d \in Disks |-> {}] ELSE Without(s, m.layout[c])] \in [Snaps -> Layouts]
    BY <1>3, <1>8, <2>5
  <2>7. Without(s, m.disk) \in Layouts
    BY <1>3, <1>8
  <2>8. QED
    BY <1>3, <2>1, <2>2, <2>3, <2>4, <2>6, <2>7 DEF Machine
<1> HIDE DEF n, m, k, After, next
<1>10. s \in Snaps /\ s # NoSnap
  BY <1>3
<1>11. \A a \in States(m) \ {s} : From(n, a) = IF From(m, a) = s THEN m.parent[s] ELSE From(m, a)
  BY <1>3, <1>9 DEF States, From
<1>12. \A a \in (Snaps \cup {NoSnap}) \ {s} : Layout(n, a) = Without(s, Layout(m, a))
  BY <1>3, <1>9 DEF Layout
<1>13. \A a \in Snaps \cup {NoSnap} : OwnFiles(Layout(m, a)) /\ Layout(m, a) \in Layouts
  BY <1>3, OwnLayouts DEF OwnFiles
<1>14. \A a \in States(m) \ {s} : Uses(n, a) = Uses(m, a) \ AllFiles(g)
  <2>1. ASSUME NEW a \in (Snaps \cup {NoSnap}) \ {s} PROVE Uses(n, a) = Uses(m, a) \ AllFiles(g)
    <3>1. AllFiles([d \in Disks |-> Layout(m, a)[d] \ g[d]]) = AllFiles(Layout(m, a)) \ AllFiles(g)
      BY <1>7, <1>13, AllFilesWithout
    <3>2. QED
      BY <1>8, <1>12, <1>13, <3>1 DEF Uses
  <2>2. States(m) \subseteq Snaps \cup {NoSnap}
    BY <1>3 DEF States
  <2>3. QED
    BY <2>1, <2>2
<1>15. Numbered(n, k + 1)
  <2>1. ASSUME NEW a \in Snaps \cup {NoSnap}, NEW d \in Disks PROVE Layout(n, a)[d] \subseteq {d} \X (0..(k + 1))
    <3>1. {d} \X (0..k) \subseteq {d} \X (0..(k + 1))
      BY <1>3
    <3>2. CASE a = s
      <4>1. Layout(n, a)[d] = {}
        BY <1>9, <1>10, <3>2 DEF Layout
      <4>2. QED
        BY <4>1
    <3>3. CASE a # s
      <4>1. Layout(n, a)[d] = Layout(m, a)[d] \ g[d]
        BY <1>8, <1>12, <1>13, <3>3
      <4>2. Layout(m, a)[d] \subseteq {d} \X (0..k)
        BY <1>3 DEF Numbered
      <4>3. QED
        BY <3>1, <4>1, <4>2
    <3>4. QED
      BY <3>2, <3>3
  <2>2. QED
    BY <2>1 DEF Numbered
<1>16. Rooted(n) /\ (Connected(m) /\ (\A a, b \in States(m) : From(m, a) = s /\ From(m, b) = s => a = b) => Connected(n))
  BY <1>3, <1>9, <1>11, <1>14, WithoutState
<1>17. split \subseteq split' /\ split' \subseteq VMs
  BY <1>1 DEF TreeTypes
<1>18. v \notin split' => Connected(n)
  <2> SUFFICES ASSUME v \notin split' PROVE Connected(n)
    OBVIOUS
  <2>1. ~ (branches(s) > 1) /\ v \notin split
    BY <1>1
  <2>2. \A a, b \in States(m) : From(m, a) = s /\ From(m, b) = s => a = b
    BY <1>3, <2>1, OneBranch DEF m
  <2>3. QED
    BY <1>3, <1>16, <2>1, <2>2
<1>19. QED
  BY <1>2, <1>9, <1>15, <1>16, <1>17, <1>18 DEF Operated, k

LEMMA OperatedTree ==
  ASSUME TreeTypes, Trees, NEW v \in VMs, Operated(v)
  PROVE  TreeTypes' /\ Trees'
<1>1. PICK m \in Machine : /\ Operation(v, m)
                           /\ Rooted(m) /\ Numbered(m, ops[v] + 1)
                           /\ split \subseteq split' /\ split' \subseteq VMs
                           /\ v \notin split' => Connected(m)
  BY DEF Operated
<1>2. /\ vm' = [vm EXCEPT ![v] = m] /\ ops' = [ops EXCEPT ![v] = @ + 1] /\ now' = now
      /\ vm \in [VMs -> Machine] /\ ops \in [VMs -> Nat] /\ now \in 0..MaxNow
  BY <1>1 DEF Operation, TreeTypes
<1>3. /\ vm'[v] = m /\ ops'[v] = ops[v] + 1
      /\ \A u \in VMs : u # v => vm'[u] = vm[u] /\ ops'[u] = ops[u]
  BY <1>2
<1>4. TreeTypes'
  BY <1>1, <1>2 DEF TreeTypes
<1>5. ASSUME NEW u \in VMs
      PROVE  /\ Rooted(vm'[u]) /\ Numbered(vm'[u], ops'[u])
             /\ u \notin split' => Connected(vm'[u])
  <2>1. CASE u = v
    BY <1>1, <1>3, <2>1
  <2>2. CASE u # v
    BY <1>1, <1>3, <2>2 DEF Trees
  <2>3. QED
    BY <2>1, <2>2
<1>6. QED
  BY <1>4, <1>5 DEF Trees

\* Whatever is done to the machines, their snapshots remain trees and, as long as no branching
\* was removed, every file in use was begun by one state.
LEMMA TreeStepKeeps ==
  ASSUME TreeTypes, Trees, TreeStep
  PROVE  TreeTypes' /\ Trees'
<1>1. CASE Tick
  BY <1>1, TreeAssumption DEF Tick, TreeTypes, Trees
<1>2. ASSUME NEW v \in VMs,
             \/ TakeSnapshot(v) \/ RevertToSnapshot(v) \/ RemoveSnapshot(v)
             \/ AddDisk(v) \/ RemoveDisk(v) \/ BecomeInaccessible(v)
      PROVE  TreeTypes' /\ Trees'
  <2>1. Operated(v)
    BY <1>2, TakeSnapshotTree, RevertToSnapshotTree, RemoveSnapshotTree, AddDiskTree, RemoveDiskTree,
       BecomeInaccessibleTree
  <2>2. QED
    BY <2>1, OperatedTree
<1>3. QED
  BY <1>1, <1>2 DEF TreeStep

LEMMA TreeAtFirst ==
  ASSUME TreeInit
  PROVE  TreeTypes /\ Trees
<1> DEFINE m == [live     |-> {},
                 parent   |-> [s \in Snaps |-> NoSnap],
                 current  |-> NoSnap,
                 created  |-> [s \in Snaps |-> 0],
                 layout   |-> [s \in Snaps |-> [d \in Disks |-> {}]],
                 disk     |-> [d \in Disks |-> IF d \in Attached THEN {<<d, 0>>} ELSE {}],
                 readable |-> TRUE]
<1>1. \A v \in VMs : vm[v] = m /\ ops[v] = 0
  BY DEF TreeInit
<1>2. ASSUME NEW v \in VMs PROVE m \in Machine
  <2>1. \A d \in Disks : <<d, 0>> \in Files
    BY FilesOf, TreeAssumption
  <2>2. m.disk \in Layouts /\ [d \in Disks |-> {}] \in Layouts
    BY <2>1 DEF Layouts
  <2>3. MaxNow \in Nat
    BY TreeAssumption
  <2>4. QED
    BY <2>2, <2>3 DEF Machine
<1>3. m.live = {} /\ m.current = NoSnap /\ NoSnap \notin Snaps /\ States(m) = {NoSnap}
  BY TreeAssumption DEF States
<1>4. Rooted(m) /\ Connected(m)
  BY <1>3 DEF Rooted, Connected, From
<1>5. Numbered(m, 0)
  <2>1. \A d \in Disks : Layout(m, NoSnap)[d] \subseteq {d} \X (0..0)
    BY DEF Layout
  <2>2. \A s \in Snaps : \A d \in Disks : Layout(m, s)[d] = {}
    BY <1>3 DEF Layout
  <2>3. QED
    BY <2>1, <2>2 DEF Numbered
<1> HIDE DEF m
<1>6. vm \in [VMs -> Machine]
  <2>1. vm = [v \in VMs |-> m]
    BY DEF TreeInit, m
  <2>2. QED
    BY <1>2, <2>1
<1>7. TreeTypes
  <2>1. split = {} /\ ops = [v \in VMs |-> 0] /\ now = 0
    BY DEF TreeInit
  <2>2. QED
    BY <1>6, <2>1, TreeAssumption DEF TreeTypes
<1>8. QED
  BY <1>1, <1>4, <1>5, <1>7 DEF Trees

-----------------------------------------------------------------------------
(* The invariant.                                                           *)

\* An age is compared once, between the retrieval and now.
Crossed(x, days, flag) == /\ ExceedsAge(x.vm, x.snap, days, started) => flag
                          /\ flag => ExceedsAge(x.vm, x.snap, days, now)

\* There is one summary of each snapshot visited.
Summarised ==
  /\ IsFiniteSet(summaries)
  /\ stage = "select" => summaries = {}
  /\ \A x \in summaries : /\ x.keys = FileKeys(x.vm, x.snap)
                          /\ Crossed(x, AgeWarning, x.ageWarning)
                          /\ Crossed(x, AgeCritical, x.ageCritical)
  /\ \A x, y \in summaries : x.vm = y.vm /\ x.snap = y.snap => x = y
  /\ panicked => stage = "done"
  /\ stage \in {"report", "list", "done"} /\ ~ panicked => Crawled = Done

\* What the one-line summary counts.
Counted ==
  /\ exitState # "OK" => older.vms > 0 /\ older.snaps > 0
  /\ exitState = "CRITICAL" /\ mode = "age" =>
       Cardinality({x \in summaries : x.ageCritical}) <= older.snaps

\* The verdict and the two lists.
Judged ==
  /\ stage \in {"report", "list", "done"} /\ ~ panicked => exitState = State /\ Counted
  /\ stage \in {"list", "done"} /\ ~ panicked => exceeding = {x \in summaries : Flagged(x)}
  /\ stage = "done" /\ ~ panicked =>
       \/ notYet = {x \in summaries : ~ Flagged(x)}
       \/ /\ notYet = {} /\ mode = "age"
          /\ \A x \in summaries : ExceedsAge(x.vm, x.snap, AgeWarning, now)

IInv == TypeOK /\ Trees /\ Summarised /\ Judged

\* What is read of the machines and the summaries does not change if they do not.
LEMMA SameData ==
  ASSUME vm' = vm, mode' = mode, summaries' = summaries
  PROVE  /\ State' = State /\ Crawled' = Crawled /\ Done' = Done /\ WithSnapshots' = WithSnapshots
         /\ \A x : Flagged(x)' = Flagged(x)
         /\ \A v, s : FileKeys(v, s)' = FileKeys(v, s)
<1>1. \A v : Set(v)' = Set(v)
  BY DEF Set
<1>2. Sizes' = Sizes
  BY DEF Sizes
<1>3. \A v : SetSize(v)' = SetSize(v)
  BY <1>1, <1>2 DEF SetSize
<1>4. WithSnapshots' = WithSnapshots /\ Crawled' = Crawled /\ Done' = Done
  BY DEF WithSnapshots, Crawled, Done
<1>5. \A v : IsCriticalState(v)' = IsCriticalState(v) /\ IsWarningState(v)' = IsWarningState(v)
  BY <1>1, <1>3 DEF IsCriticalState, IsWarningState
<1>6. State' = State
  BY <1>4, <1>5 DEF State
<1>7. \A x : Flagged(x)' = Flagged(x)
  BY <1>5 DEF Flagged
<1>8. \A v, s : FileKeys(v, s)' = FileKeys(v, s)
  BY DEF FileKeys
<1>9. QED
  BY <1>4, <1>6, <1>7, <1>8

-----------------------------------------------------------------------------
(* The steps.                                                               *)

LEMMA TypesGiveTreeTypes == TypeOK => TreeTypes
BY DEF TypeOK, TreeTypes

LEMMA ClockGoesOn ==
  ASSUME TreeStep
  PROVE  now' = now \/ now' = now + 1
<1>1. CASE Tick
  BY <1>1 DEF Tick
<1>2. ASSUME NEW v \in VMs, NEW m, Operation(v, m) PROVE now' = now
  BY <1>2 DEF Operation
<1>3. ASSUME NEW v \in VMs,
             \/ TakeSnapshot(v) \/ RevertToSnapshot(v) \/ RemoveSnapshot(v)
             \/ AddDisk(v) \/ RemoveDisk(v) \/ BecomeInaccessible(v)
      PROVE  now' = now
  <2>1. \E m : Operation(v, m)
    BY <1>3 DEF TakeSnapshot, RevertToSnapshot, RemoveSnapshot, AddDisk, RemoveDisk, BecomeInaccessible
  <2>2. QED
    BY <1>2, <2>1
<1>4. QED
  BY <1>1, <1>3 DEF TreeStep

LEMMA EnvironmentInv == IInv /\ Environment => IInv'
<1> SUFFICES ASSUME IInv, Environment PROVE IInv'
  OBVIOUS
<1>0. UNCHANGED <<mode, stage, started, summaries, exitState, panicked, older, exceeding, notYet>>
  BY DEF Environment
<1>1. CASE stage = "select" /\ TreeStep
  <2>1. TreeTypes' /\ Trees'
    BY TypesGiveTreeTypes, TreeStepKeeps, <1>1 DEF IInv
  <2>2. summaries = {} /\ summaries' = {} /\ Done' = {} /\ stage' = "select" /\ panicked' = panicked
    BY <1>0, <1>1 DEF IInv, Summarised, Done
  <2>3. now \in Nat /\ now' \in Nat /\ now <= now'
    <3>1. now' = now \/ now' = now + 1
      BY <1>1, ClockGoesOn
    <3>2. now \in Nat
      BY TreeAssumption DEF IInv, TypeOK
    <3>3. QED
      BY <3>1, <3>2
  <2>4. TypeOK'
    BY <1>0, <1>1, <2>1, <2>2, <2>3 DEF IInv, TypeOK, TreeTypes
  <2>5. Summarised'
    BY <1>0, <2>2 DEF IInv, Summarised
  <2>6. Judged'
    BY <2>2 DEF Judged
  <2>7. QED
    BY <2>1, <2>4, <2>5, <2>6 DEF IInv
<1>2. CASE stage # "select" /\ now = started /\ Tick
  <2>1. vm' = vm /\ split' = split /\ ops' = ops /\ now' = now + 1 /\ now' \in 0..MaxNow /\ now \in Nat
    BY <1>2, TreeAssumption DEF Tick, IInv, TypeOK
  <2>2. /\ State' = State /\ Crawled' = Crawled /\ Done' = Done
        /\ \A x : Flagged(x)' = Flagged(x)
        /\ \A v, s : FileKeys(v, s)' = FileKeys(v, s)
    BY <1>0, <2>1, SameData
  <2>3. TypeOK'
    BY <1>0, <1>2, <2>1, <2>2 DEF IInv, TypeOK
  <2>4. Trees'
    BY <2>1 DEF IInv, Trees
  <2>5. ASSUME NEW x \in summaries, NEW days \in Nat, ExceedsAge(x.vm, x.snap, days, now)
        PROVE  ExceedsAge(x.vm, x.snap, days, now)'
    <3>1. x.vm \in VMs /\ x.snap \in Snaps
      BY DEF IInv, TypeOK, Summary
    <3>2. vm[x.vm] \in Machine
      BY <3>1 DEF IInv, TypeOK
    <3>3. vm[x.vm].created[x.snap] \in Nat
      BY <3>1, <3>2, LayoutTypes
    <3>4. QED
      BY <2>1, <2>5, <3>3 DEF ExceedsAge
  <2>6. AgeWarning \in Nat /\ AgeCritical \in Nat
    BY SetsAssumption
  <2>7. ASSUME NEW x \in summaries
        PROVE  Crossed(x, AgeWarning, x.ageWarning)' /\ Crossed(x, AgeCritical, x.ageCritical)'
    <3>1. Crossed(x, AgeWarning, x.ageWarning) /\ Crossed(x, AgeCritical, x.ageCritical)
      BY DEF IInv, Summarised
    <3>2. \A days \in Nat : ExceedsAge(x.vm, x.snap, days, started)' = ExceedsAge(x.vm, x.snap, days, started)
      BY <1>0, <2>1 DEF ExceedsAge
    <3>3. QED
      BY <2>5, <2>6, <3>1, <3>2 DEF Crossed
  <2>8. Summarised'
    BY <1>0, <2>2, <2>7 DEF IInv, Summarised
  <2>9. Counted' = Counted
    BY <1>0 DEF Counted
  <2>10. Judged'
    <3>1. {x \in summaries : Flagged(x)}' = {x \in summaries : Flagged(x)}
      BY <1>0, <2>2
    <3>2. {x \in summaries : ~ Flagged(x)}' = {x \in summaries : ~ Flagged(x)}
      BY <1>0, <2>2
    <3>3. (\A x \in summaries : ExceedsAge(x.vm, x.snap, AgeWarning, now))
            => (\A x \in summaries : ExceedsAge(x.vm, x.snap, AgeWarning, now))'
      BY <1>0, <2>5, <2>6
    <3>4. QED
      BY <1>0, <2>2, <2>9, <3>1, <3>2, <3>3 DEF IInv, Judged
  <2>11. QED
    BY <2>3, <2>4, <2>8, <2>10 DEF IInv
<1>3. QED
  BY <1>1, <1>2 DEF Environment

LEMMA FilterVMsWithSnapshotsInv == IInv /\ FilterVMsWithSnapshots => IInv'
<1> SUFFICES ASSUME IInv, FilterVMsWithSnapshots PROVE IInv'
  OBVIOUS
<1>1. /\ stage = "select" /\ mode' \in {"age", "count", "size"} /\ stage' = "sets" /\ started' = now
      /\ vm' = vm /\ split' = split /\ ops' = ops /\ now' = now
      /\ UNCHANGED <<summaries, exitState, panicked, older, exceeding, notYet>>
  BY DEF FilterVMsWithSnapshots, tree
<1>2. summaries = {} /\ summaries' = {} /\ Done' = {} /\ ~ panicked
  BY <1>1 DEF IInv, Summarised, Done, TypeOK
<1>3. TypeOK'
  <2>1. now \in Nat
    BY TreeAssumption DEF IInv, TypeOK
  <2>2. QED
    BY <1>1, <1>2, <2>1 DEF IInv, TypeOK
<1>4. Trees'
  BY <1>1 DEF IInv, Trees
<1>5. Summarised'
  BY <1>1, <1>2 DEF IInv, Summarised
<1>6. Judged'
  BY <1>1 DEF Judged
<1>7. QED
  BY <1>3, <1>4, <1>5, <1>6 DEF IInv

\* The types of what is on the stage between the retrieval and the end.
LEMMA DuringRun ==
  ASSUME IInv
  PROVE  /\ now \in Nat /\ started \in Nat /\ started <= now
         /\ \A v \in VMs : vm[v] \in Machine
         /\ {AgeWarning, AgeCritical, CountWarning, CountCritical, SizeWarning, SizeCritical} \subseteq Nat
         /\ IsFiniteSet(summaries) /\ summaries \subseteq Summary
         /\ stage # "select" => mode \in {"age", "count", "size"}
         /\ IsFiniteSet(VMs) /\ WithSnapshots \subseteq VMs
BY TreeAssumption, SetsAssumption DEF IInv, TypeOK, Summarised, WithSnapshots

LEMMA crawlFuncInv ==
  ASSUME IInv, NEW v \in VMs, NEW s \in Snaps, crawlFunc(v, s)
  PROVE  IInv'
<1> DEFINE y == [vm |-> v, snap |-> s, keys |-> FileKeys(v, s),
                 ageWarning  |-> ExceedsAge(v, s, AgeWarning, now),
                 ageCritical |-> ExceedsAge(v, s, AgeCritical, now)]
<1>1. /\ stage = "sets" /\ <<v, s>> \in Crawled \ Done
      /\ summaries' = summaries \cup {y}
      /\ vm' = vm /\ split' = split /\ ops' = ops /\ now' = now
      /\ UNCHANGED <<mode, stage, started, exitState, panicked, older, exceeding, notYet>>
  BY DEF crawlFunc, Turn, tree
<1>2. y \in Summary
  <2>1. FileKeys(v, s) \in SUBSET (Files \cup Snaps)
    <3>1. vm[v] \in Machine
      BY DuringRun
    <3>2. \A l \in Layouts : AllFiles(l) \subseteq Files
      BY DEF Layouts, AllFiles
    <3>3. AllFiles(vm[v].layout[s]) \subseteq Files /\ AllFiles(vm[v].disk) \subseteq Files
      BY <3>1, <3>2, LayoutTypes
    <3>4. QED
      BY <3>3 DEF FileKeys
  <2>2. ExceedsAge(v, s, AgeWarning, now) \in BOOLEAN /\ ExceedsAge(v, s, AgeCritical, now) \in BOOLEAN
    BY DEF ExceedsAge
  <2>3. QED
    BY <2>1, <2>2 DEF Summary
<1>3. /\ y.vm = v /\ y.snap = s /\ y.keys = FileKeys(v, s)
      /\ y.ageWarning = ExceedsAge(v, s, AgeWarning, now)
      /\ y.ageCritical = ExceedsAge(v, s, AgeCritical, now)
  OBVIOUS
<1> HIDE DEF y
<1>4. Crawled' = Crawled /\ Done' = Done \cup {<<v, s>>}
  BY <1>1, <1>3 DEF Crawled, Done
<1>5. \A u, t : FileKeys(u, t)' = FileKeys(u, t)
  BY <1>1 DEF FileKeys
<1>6. TypeOK'
  BY <1>1, <1>2, <1>4 DEF IInv, TypeOK
<1>7. Trees'
  BY <1>1 DEF IInv, Trees
<1>8. Crossed(y, AgeWarning, y.ageWarning) /\ Crossed(y, AgeCritical, y.ageCritical)
  <2>1. vm[v].created[s] \in Nat
    BY DuringRun, LayoutTypes
  <2>2. \A days \in Nat : ExceedsAge(v, s, days, started) => ExceedsAge(v, s, days, now)
    BY <2>1, DuringRun DEF ExceedsAge
  <2>3. AgeWarning \in Nat /\ AgeCritical \in Nat
    BY SetsAssumption
  <2>4. QED
    BY <1>3, <2>2, <2>3 DEF Crossed
<1>9. \A x, days, flag : Crossed(x, days, flag)' = Crossed(x, days, flag)
  BY <1>1 DEF Crossed, ExceedsAge
<1>10. Summarised'
  <2>1. IsFiniteSet(summaries')
    BY <1>1, FS_AddElement DEF IInv, Summarised
  <2>2. \A x \in summaries' : /\ x.keys = FileKeys(x.vm, x.snap)'
                              /\ Crossed(x, AgeWarning, x.ageWarning)'
                              /\ Crossed(x, AgeCritical, x.ageCritical)'
    BY <1>1, <1>3, <1>5, <1>8, <1>9 DEF IInv, Summarised
  <2>3. \A x \in summaries : <<x.vm, x.snap>> # <<v, s>>
    BY <1>1 DEF Done
  <2>4. \A x, z \in summaries' : x.vm = z.vm /\ x.snap = z.snap => x = z
    BY <1>1, <1>3, <2>3 DEF IInv, Summarised
  <2>5. stage' = "sets" /\ panicked' = panicked /\ (panicked => stage = "done")
    BY <1>1 DEF IInv, Summarised
  <2>6. QED
    BY <1>1, <2>1, <2>2, <2>4, <2>5 DEF Summarised
<1>11. Judged'
  BY <1>1 DEF Judged
<1>12. QED
  BY <1>6, <1>7, <1>10, <1>11 DEF IInv

LEMMA NilCurrentSnapshotInv ==
  ASSUME IInv, NEW v \in VMs, NilCurrentSnapshot(v)
  PROVE  IInv'
<1>1. /\ stage = "sets" /\ stage' = "done" /\ panicked' = TRUE /\ exitState' = "CRITICAL"
      /\ vm' = vm /\ split' = split /\ ops' = ops /\ now' = now
      /\ UNCHANGED <<mode, started, summaries, older, exceeding, notYet>>
  BY DEF NilCurrentSnapshot, Turn, tree
<1>2. Crawled' = Crawled /\ Done' = Done /\ \A v1, s : FileKeys(v1, s)' = FileKeys(v1, s)
  BY <1>1, SameData
<1>3. TypeOK'
  BY <1>1, <1>2 DEF IInv, TypeOK
<1>4. Trees'
  BY <1>1 DEF IInv, Trees
<1>5. \A x, days, flag : Crossed(x, days, flag)' = Crossed(x, days, flag)
  BY <1>1 DEF Crossed, ExceedsAge
<1>6. Summarised'
  BY <1>1, <1>2, <1>5 DEF IInv, Summarised
<1>7. Judged'
  BY <1>1 DEF Judged
<1>8. QED
  BY <1>3, <1>4, <1>6, <1>7 DEF IInv

LEMMA SetsFinite ==
  ASSUME IInv, NEW v
  PROVE  /\ Set(v) \in SUBSET summaries /\ IsFiniteSet(Set(v)) /\ Cardinality(Set(v)) \in Nat
         /\ Cardinality(Set(v)) = 0 <=> Set(v) = {}
<1>1. Set(v) \in SUBSET summaries
  BY DEF Set
<1>2. IsFiniteSet(Set(v)) /\ Cardinality(Set(v)) \in Nat
  BY <1>1, DuringRun, FS_Subset, FS_CardinalityType
<1>3. QED
  BY <1>1, <1>2, FS_EmptySet

LEMMA FilesFinite == IsFiniteSet(Files \cup Snaps)
<1> DEFINE R == {0..MaxOps[v] : v \in VMs}
<1>1. IsFiniteSet(R)
  <2> DEFINE f == [v \in VMs |-> 0..MaxOps[v]]
  <2>1. f \in Surjection(VMs, R)
    BY DEF Surjection
  <2> HIDE DEF f, R
  <2>2. QED
    BY <2>1, TreeAssumption, FS_Surjection
<1>2. \A r \in R : IsFiniteSet(r)
  BY TreeAssumption, FS_Interval
<1>3. IsFiniteSet(UNION R)
  <2> HIDE DEF R
  <2>1. QED
    BY <1>1, <1>2, FS_UNION
<1>4. IsFiniteSet(Files)
  BY <1>3, TreeAssumption, FS_Product DEF Files
<1>5. QED
  BY <1>4, TreeAssumption, FS_Union

\* The files of a snapshot have a size together, and machines without summaries have none.
LEMMA SetSizes ==
  ASSUME IInv
  PROVE  /\ \A x \in summaries : Sizes[x] \in Nat
         /\ \A v : SetSize(v) \in Nat /\ (Set(v) = {} => SetSize(v) = 0)
<1>1. \A k \in Files \cup Snaps : SizeOf[k] \in Nat
  BY SetsAssumption
<1>2. \A x \in summaries : x.keys \in SUBSET (Files \cup Snaps)
  BY DuringRun DEF Summary
<1>3. \A x \in summaries : Sizes[x] \in Nat
  BY <1>1, <1>2, FilesFinite, SumProperties DEF Sizes
<1>4. \A v : Set(v) \in SUBSET summaries
  BY SetsFinite
<1>5. IsFiniteSet(summaries)
  BY DuringRun
<1>6. Sum(Sizes, {}) = 0 /\ \A S \in SUBSET summaries : Sum(Sizes, S) \in Nat
  BY <1>3, <1>5, SumProperties
<1>7. QED
  BY <1>3, <1>4, <1>6 DEF SetSize

\* The product of two thresholds is a number.
LEMMA Gigabytes ==
  ASSUME NEW gb \in Nat
  PROVE  gb * GB \in Nat
<1>1. GB \in Nat
  BY SetsAssumption
<1>2. QED
  BY <1>1

\* What the one-line summary counts of an alert.
LEMMA ExcessCounts ==
  ASSUME IInv, stage = "sets", NEW critical \in BOOLEAN,
         \E v \in WithSnapshots : IF critical THEN IsCriticalState(v) ELSE IsWarningState(v)
  PROVE  /\ Excess(critical) \in [vms : Nat, snaps : Nat]
         /\ Excess(critical).vms > 0 /\ Excess(critical).snaps > 0
         /\ critical /\ mode = "age" =>
              Cardinality({x \in summaries : x.ageCritical}) <= Excess(critical).snaps
<1> DEFINE days   == IF critical THEN AgeCritical ELSE AgeWarning
           limit  == IF critical THEN CountCritical ELSE CountWarning
           gb     == IF critical THEN SizeCritical ELSE SizeWarning
           old(v) == {x \in Set(v) : ExceedsAge(v, x.snap, days, now)}
           V      == CASE mode = "age"   -> {v \in WithSnapshots : old(v) # {}}
                       [] mode = "count" -> {v \in WithSnapshots : Cardinality(Set(v)) > limit}
                       [] mode = "size"  -> {v \in WithSnapshots : ExceedsSize(SetSize(v), gb)}
           f      == [v \in V |-> CASE mode = "age"   -> Cardinality(old(v))
                                    [] mode = "count" -> Cardinality(Set(v)) - limit
                                    [] mode = "size"  -> Cardinality(Set(v))]
<1>1. Excess(critical) = [vms |-> Cardinality(V), snaps |-> Sum(f, V)]
  BY DEF Excess
<1>2. days \in Nat /\ limit \in Nat /\ gb \in Nat /\ gb * GB \in Nat
  BY SetsAssumption, Gigabytes
<1>3. mode \in {"age", "count", "size"} /\ V \subseteq WithSnapshots
  BY DuringRun
<1>4. IsFiniteSet(V) /\ Cardinality(V) \in Nat
  <2>1. IsFiniteSet(WithSnapshots)
    BY DuringRun, FS_Subset
  <2> HIDE DEF V
  <2>2. QED
    BY <1>3, <2>1, FS_Subset, FS_CardinalityType
<1>5. \A v : /\ Set(v) \in SUBSET summaries /\ IsFiniteSet(Set(v)) /\ Cardinality(Set(v)) \in Nat
             /\ (Cardinality(Set(v)) = 0 <=> Set(v) = {})
  BY SetsFinite
<1>6. \A v : /\ old(v) \in SUBSET Set(v) /\ IsFiniteSet(old(v)) /\ Cardinality(old(v)) \in Nat
             /\ (old(v) # {} => Cardinality(old(v)) > 0)
  <2>1. \A v : old(v) \in SUBSET Set(v)
    OBVIOUS
  <2> HIDE DEF old
  <2>2. \A v : IsFiniteSet(old(v)) /\ Cardinality(old(v)) \in Nat
    BY <1>5, <2>1, FS_Subset, FS_CardinalityType
  <2>3. QED
    BY <2>1, <2>2, FS_EmptySet
<1> HIDE DEF old, days, limit, gb
<1>7. \A v \in V : f[v] \in Nat /\ f[v] > 0
  <2>1. CASE mode = "age"
    BY <1>6, <2>1
  <2>2. CASE mode = "count"
    BY <1>2, <1>5, <2>2
  <2>3. CASE mode = "size"
    <3> DEFINE most == gb * GB
    <3>1. most \in Nat /\ \A v \in V : SetSize(v) > most /\ SetSize(v) \in Nat
      BY <1>2, <2>3, SetSizes DEF ExceedsSize
    <3> HIDE DEF most
    <3>2. ASSUME NEW v \in V PROVE Set(v) # {}
      <4> HIDE DEF V, f
      <4>1. SetSize(v) # 0
        BY <3>1
      <4>2. QED
        BY <4>1, SetSizes
    <3>3. \A v \in V : f[v] = Cardinality(Set(v))
      BY <2>3
    <3> HIDE DEF f, V
    <3>4. ASSUME NEW v \in V PROVE f[v] \in Nat /\ f[v] > 0
      <4>1. Cardinality(Set(v)) \in Nat /\ Cardinality(Set(v)) # 0
        BY <1>5, <3>2
      <4>2. QED
        BY <3>3, <4>1
    <3>5. QED
      BY <3>4
  <2>4. QED
    BY <1>3, <2>1, <2>2, <2>3
<1>8. V # {}
  <2>1. PICK v \in WithSnapshots : IF critical THEN IsCriticalState(v) ELSE IsWarningState(v)
    OBVIOUS
  <2>2. CASE mode = "age"
    <3>1. PICK x \in Set(v) : IF critical THEN x.ageCritical ELSE x.ageWarning
      BY <2>1, <2>2 DEF IsCriticalState, IsWarningState
    <3>2. x \in summaries /\ x.vm = v
      BY DEF Set
    <3>3. ExceedsAge(v, x.snap, days, now)
      BY <3>1, <3>2 DEF IInv, Summarised, Crossed, days
    <3>4. old(v) # {}
      BY <3>3 DEF old
    <3>5. QED
      BY <2>2, <3>4
  <2>3. CASE mode = "count"
    BY <2>1, <2>3 DEF IsCriticalState, IsWarningState, limit
  <2>4. CASE mode = "size"
    BY <2>1, <2>4 DEF IsCriticalState, IsWarningState, gb
  <2>5. QED
    BY <1>3, <2>2, <2>3, <2>4
<1>9. critical /\ mode = "age" => Cardinality({x \in summaries : x.ageCritical}) <= Sum(f, V)
  <2> SUFFICES ASSUME critical, mode = "age" PROVE Cardinality({x \in summaries : x.ageCritical}) <= Sum(f, V)
    OBVIOUS
  <2> DEFINE O == [v \in V |-> old(v)]
             W == UNION {O[v] : v \in V}
             C == {x \in summaries : x.ageCritical}
  <2>1. O \in [V -> SUBSET summaries] /\ \A v \in V : f[v] = Cardinality(O[v])
    BY <1>5, <1>6
  <2>2. IsFiniteSet(summaries)
    BY DuringRun
  <2>3. C \subseteq W
    <3> SUFFICES ASSUME NEW x \in C PROVE x \in W
      OBVIOUS
    <3>1. x \in Set(x.vm) /\ ExceedsAge(x.vm, x.snap, days, now)
      BY DEF IInv, Summarised, Crossed, days, Set
    <3>2. x \in old(x.vm)
      BY <3>1 DEF old
    <3>3. x.vm \in WithSnapshots
      <4>1. <<x.vm, x.snap>> \in Crawled
        BY DEF IInv, TypeOK, Done
      <4>2. QED
        BY <4>1 DEF Crawled, WithSnapshots
    <3>4. x.vm \in V /\ O[x.vm] = old(x.vm)
      BY <3>2, <3>3
    <3> HIDE DEF V, O
    <3>5. QED
      BY <3>2, <3>4
  <2> HIDE DEF V, f, O, C
  <2>4. W \subseteq summaries
    BY <2>1
  <2>5. Cardinality(W) <= Sum(f, V)
    BY <1>4, <2>1, <2>2, CountOfUnion
  <2>6. Sum(f, V) \in Nat
    BY <1>4, <1>7, SumProperties
  <2> HIDE DEF W
  <2>7. Cardinality(C) <= Cardinality(W) /\ Cardinality(C) \in Nat /\ Cardinality(W) \in Nat
    BY <2>2, <2>3, <2>4, FS_Subset, FS_CardinalityType
  <2>8. QED
    BY <2>5, <2>6, <2>7 DEF C
<1>10. Sum(f, V) \in Nat /\ Sum(f, V) > 0 /\ Cardinality(V) > 0
  <2>1. PICK v \in V : TRUE
    BY <1>8
  <2> HIDE DEF V, f
  <2>2. Sum(f, V) = f[v] + Sum(f, V \ {v}) /\ Sum(f, V \ {v}) \in Nat /\ Sum(f, V) \in Nat
    <3>1. \A s \in SUBSET V : Sum(f, s) \in Nat /\ \A u \in s : Sum(f, s) = f[u] + Sum(f, s \ {u})
      BY <1>4, <1>7, SumProperties
    <3>2. V \in SUBSET V /\ V \ {v} \in SUBSET V
      OBVIOUS
    <3>3. QED
      BY <3>1, <3>2
  <2>3. Cardinality(V) # 0
    BY <1>4, <1>8, FS_EmptySet
  <2>4. QED
    BY <1>4, <1>7, <2>2, <2>3
<1> HIDE DEF V, f
<1>11. QED
  BY <1>1, <1>4, <1>9, <1>10

LEMMA EvaluateInv == IInv /\ Evaluate => IInv'
<1> SUFFICES ASSUME IInv, Evaluate PROVE IInv'
  OBVIOUS
<1>1. /\ stage = "sets" /\ stage' = "report" /\ Crawled = Done /\ exitState' = State
      /\ older' = IF State = "OK" THEN [vms |-> 0, snaps |-> 0] ELSE Excess(State = "CRITICAL")
      /\ vm' = vm /\ split' = split /\ ops' = ops /\ now' = now
      /\ UNCHANGED <<mode, started, summaries, panicked, exceeding, notYet>>
  BY DEF Evaluate, tree
<1>2. /\ State' = State /\ Crawled' = Crawled /\ Done' = Done
      /\ \A v1, s : FileKeys(v1, s)' = FileKeys(v1, s)
  BY <1>1, SameData
<1>3. /\ State \in {"OK", "WARNING", "CRITICAL"}
      /\ State = "CRITICAL" => \E v \in WithSnapshots : IsCriticalState(v)
      /\ State = "WARNING" => \E v \in WithSnapshots : IsWarningState(v)
  BY DEF State
<1>4. /\ older' \in [vms : Nat, snaps : Nat]
      /\ State # "OK" => older'.vms > 0 /\ older'.snaps > 0
      /\ State = "CRITICAL" /\ mode = "age" => Cardinality({x \in summaries : x.ageCritical}) <= older'.snaps
  <2>1. CASE State = "OK"
    BY <1>1, <2>1
  <2>2. CASE State = "CRITICAL"
    <3>1. \E v \in WithSnapshots : IF TRUE THEN IsCriticalState(v) ELSE IsWarningState(v)
      BY <1>3, <2>2
    <3>2. older' = Excess(TRUE)
      BY <1>1, <2>2
    <3>3. QED
      BY <1>1, <2>2, <3>1, <3>2, ExcessCounts
  <2>3. CASE State = "WARNING"
    <3>1. \E v \in WithSnapshots : IF FALSE THEN IsCriticalState(v) ELSE IsWarningState(v)
      BY <1>3, <2>3
    <3>2. older' = Excess(FALSE)
      BY <1>1, <2>3
    <3>3. QED
      BY <1>1, <2>3, <3>1, <3>2, ExcessCounts
  <2>4. QED
    BY <1>3, <2>1, <2>2, <2>3
<1>5. TypeOK'
  BY <1>1, <1>2, <1>3, <1>4 DEF IInv, TypeOK
<1>6. Trees'
  BY <1>1 DEF IInv, Trees
<1>7. \A x, days, flag : Crossed(x, days, flag)' = Crossed(x, days, flag)
  BY <1>1 DEF Crossed, ExceedsAge
<1>8. Summarised'
  BY <1>1, <1>2, <1>7 DEF IInv, Summarised
<1>9. Counted'
  BY <1>1, <1>4 DEF Counted
<1>10. Judged'
  BY <1>1, <1>2, <1>9 DEF Judged
<1>11. QED
  BY <1>5, <1>6, <1>8, <1>10 DEF IInv

\* An alert by the count is one at WARNING: the thresholds are ordered.
LEMMA FlaggedByCount ==
  ASSUME IInv, mode = "count", NEW x \in summaries
  PROVE  Flagged(x) <=> Cardinality(Set(x.vm)) > CountWarning
<1>1. Cardinality(Set(x.vm)) \in Nat
  BY SetsFinite
<1>2. CountWarning \in Nat /\ CountCritical \in Nat /\ CountWarning < CountCritical
  BY SetsAssumption
<1>3. Flagged(x) <=> Cardinality(Set(x.vm)) > CountCritical \/ Cardinality(Set(x.vm)) > CountWarning
  BY DEF Flagged, IsCriticalState, IsWarningState
<1>4. QED
  BY <1>1, <1>2, <1>3

LEMMA ListExceedingInv == IInv /\ ListExceeding => IInv'
<1> SUFFICES ASSUME IInv, ListExceeding PROVE IInv'
  OBVIOUS
<1>1. /\ stage = "report" /\ stage' = "list"
      /\ exceeding' = IF mode = "count"
                      THEN {x \in summaries : Cardinality(Set(x.vm)) > CountWarning}
                      ELSE {x \in summaries : Flagged(x)}
      /\ vm' = vm /\ split' = split /\ ops' = ops /\ now' = now
      /\ UNCHANGED <<mode, started, summaries, exitState, panicked, older, notYet>>
  BY DEF ListExceeding, tree
<1>2. /\ State' = State /\ Crawled' = Crawled /\ Done' = Done
      /\ \A x : Flagged(x)' = Flagged(x)
      /\ \A v1, s : FileKeys(v1, s)' = FileKeys(v1, s)
  BY <1>1, SameData
<1>3. exceeding' = {x \in summaries : Flagged(x)}
  BY <1>1, FlaggedByCount
<1>4. TypeOK'
  BY <1>1, <1>2, <1>3 DEF IInv, TypeOK
<1>5. Trees'
  BY <1>1 DEF IInv, Trees
<1>6. \A x, days, flag : Crossed(x, days, flag)' = Crossed(x, days, flag)
  BY <1>1 DEF Crossed, ExceedsAge
<1>7. Summarised'
  BY <1>1, <1>2, <1>6 DEF IInv, Summarised
<1>8. Judged'
  <2>1. Counted' = Counted
    BY <1>1 DEF Counted
  <2>2. {x \in summaries : Flagged(x)}' = {x \in summaries : Flagged(x)}
    BY <1>1, <1>2
  <2>3. QED
    BY <1>1, <1>2, <1>3, <2>1, <2>2 DEF IInv, Judged
<1>9. QED
  BY <1>4, <1>5, <1>7, <1>8 DEF IInv

LEMMA ListNotYetInv == IInv /\ ListNotYet => IInv'
<1> SUFFICES ASSUME IInv, ListNotYet PROVE IInv'
  OBVIOUS
<1>1. /\ stage = "list" /\ stage' = "done"
      /\ notYet' = IF HasNotYetExceeded THEN {x \in summaries : ~ Flagged(x)} ELSE {}
      /\ vm' = vm /\ split' = split /\ ops' = ops /\ now' = now
      /\ UNCHANGED <<mode, started, summaries, exitState, panicked, older, exceeding>>
  BY DEF ListNotYet, tree
<1>2. /\ State' = State /\ Crawled' = Crawled /\ Done' = Done
      /\ \A x : Flagged(x)' = Flagged(x)
      /\ \A v1, s : FileKeys(v1, s)' = FileKeys(v1, s)
  BY <1>1, SameData
<1>3. \/ notYet' = {x \in summaries : ~ Flagged(x)}
      \/ /\ notYet' = {} /\ mode = "age"
         /\ \A x \in summaries : ExceedsAge(x.vm, x.snap, AgeWarning, now)
  <2> SUFFICES ASSUME ~ HasNotYetExceeded
               PROVE  \/ \A x \in summaries : Flagged(x)
                      \/ /\ mode = "age"
                         /\ \A x \in summaries : ExceedsAge(x.vm, x.snap, AgeWarning, now)
    BY <1>1
  <2>1. \A x \in summaries : x \in Set(x.vm) /\ x.vm \in WithSnapshots
    <3>1. \A x \in summaries : <<x.vm, x.snap>> \in Crawled
      BY DEF IInv, TypeOK, Done
    <3>2. QED
      BY <3>1 DEF Crawled, WithSnapshots, Set
  <2>2. CASE mode = "age"
    BY <2>2 DEF HasNotYetExceeded
  <2>3. CASE mode = "count"
    <3>1. \A x \in summaries : Cardinality(Set(x.vm)) > CountWarning
      <4>1. \A x \in summaries : ~ (Cardinality(Set(x.vm)) <= CountWarning)
        BY <2>1, <2>3 DEF HasNotYetExceeded
      <4>2. CountWarning \in Nat /\ \A v : Cardinality(Set(v)) \in Nat
        BY SetsAssumption, SetsFinite
      <4>3. QED
        BY <4>1, <4>2
    <3>2. QED
      BY <2>3, <3>1, FlaggedByCount
  <2>4. CASE mode = "size"
    BY <2>1, <2>4 DEF HasNotYetExceeded, Flagged, IsWarningState
  <2>5. QED
    BY <1>1, <2>2, <2>3, <2>4, DuringRun
<1>4. TypeOK'
  BY <1>1, <1>2 DEF IInv, TypeOK
<1>5. Trees'
  BY <1>1 DEF IInv, Trees
<1>6. \A x, days, flag : Crossed(x, days, flag)' = Crossed(x, days, flag)
  BY <1>1 DEF Crossed, ExceedsAge
<1>7. Summarised'
  BY <1>1, <1>2, <1>6 DEF IInv, Summarised
<1>8. Judged'
  <2>1. Counted' = Counted
    BY <1>1 DEF Counted
  <2>2. /\ {x \in summaries : Flagged(x)}' = {x \in summaries : Flagged(x)}
        /\ {x \in summaries : ~ Flagged(x)}' = {x \in summaries : ~ Flagged(x)}
    BY <1>1, <1>2
  <2>3. (\A x \in summaries : ExceedsAge(x.vm, x.snap, AgeWarning, now))
          => (\A x \in summaries : ExceedsAge(x.vm, x.snap, AgeWarning, now))'
    BY <1>1 DEF ExceedsAge
  <2>4. QED
    BY <1>1, <1>2, <1>3, <2>1, <2>2, <2>3 DEF IInv, Judged
<1>9. QED
  BY <1>4, <1>5, <1>7, <1>8 DEF IInv

LEMMA StutterInv == IInv /\ UNCHANGED vars => IInv'
<1> SUFFICES ASSUME IInv, UNCHANGED vars PROVE IInv'
  OBVIOUS
<1>1. /\ vm' = vm /\ split' = split /\ ops' = ops /\ now' = now
      /\ UNCHANGED <<mode, stage, started, summaries, exitState, panicked, older, exceeding, notYet>>
  BY DEF vars, tree
<1>2. /\ State' = State /\ Crawled' = Crawled /\ Done' = Done
      /\ \A x : Flagged(x)' = Flagged(x)
      /\ \A v1, s : FileKeys(v1, s)' = FileKeys(v1, s)
  BY <1>1, SameData
<1>3. TypeOK'
  BY <1>1, <1>2 DEF IInv, TypeOK
<1>4. Trees'
  BY <1>1 DEF IInv, Trees
<1>5. \A x, days, flag : Crossed(x, days, flag)' = Crossed(x, days, flag)
  BY <1>1 DEF Crossed, ExceedsAge
<1>6. Summarised'
  BY <1>1, <1>2, <1>5 DEF IInv, Summarised
<1>7. Judged'
  <2>1. Counted' = Counted
    BY <1>1 DEF Counted
  <2>2. /\ {x \in summaries : Flagged(x)}' = {x \in summaries : Flagged(x)}
        /\ {x \in summaries : ~ Flagged(x)}' = {x \in summaries : ~ Flagged(x)}
    BY <1>1, <1>2
  <2>3. (\A x \in summaries : ExceedsAge(x.vm, x.snap, AgeWarning, now))
          => (\A x \in summaries : ExceedsAge(x.vm, x.snap, AgeWarning, now))'
    BY <1>1 DEF ExceedsAge
  <2>4. QED
    BY <1>1, <1>2, <2>1, <2>2, <2>3 DEF IInv, Judged
<1>8. QED
  BY <1>3, <1>4, <1>6, <1>7 DEF IInv

LEMMA InitInv == Init => IInv
<1> SUFFICES ASSUME Init PROVE IInv
  OBVIOUS
<1>1. TreeTypes /\ Trees
  BY TreeAtFirst DEF Init
<1>2. /\ mode = "none" /\ stage = "select" /\ started = 0 /\ summaries = {} /\ exitState = "none"
      /\ panicked = FALSE /\ older = [vms |-> 0, snaps |-> 0] /\ exceeding = {} /\ notYet = {}
  BY DEF Init
<1>3. Done = {}
  BY <1>2 DEF Done
<1>4. TypeOK
  <2>1. now \in Nat /\ 0 \in 0..now
    BY <1>1, TreeAssumption DEF TreeTypes
  <2>2. QED
    BY <1>1, <1>2, <1>3, <2>1 DEF TypeOK, TreeTypes
<1>5. Summarised
  BY <1>2, FS_EmptySet DEF Summarised
<1>6. Judged
  BY <1>2 DEF Judged
<1>7. QED
  BY <1>1, <1>4, <1>5, <1>6 DEF IInv

\* The machines' trees, the summaries of them and what is concluded from these summaries
\* fit together at every step.
THEOREM InductiveInv == Spec => []IInv
<1>1. IInv /\ [Next]_vars => IInv'
  <2> SUFFICES ASSUME IInv, [Next]_vars PROVE IInv'
    OBVIOUS
  <2>1. CASE Environment
    BY <2>1, EnvironmentInv
  <2>2. CASE FilterVMsWithSnapshots
    BY <2>2, FilterVMsWithSnapshotsInv
  <2>3. CASE \E v \in VMs, s \in Snaps : crawlFunc(v, s)
    BY <2>3, crawlFuncInv
  <2>4. CASE \E v \in VMs : NilCurrentSnapshot(v)
    BY <2>4, NilCurrentSnapshotInv
  <2>5. CASE Evaluate
    BY <2>5, EvaluateInv
  <2>6. CASE ListExceeding
    BY <2>6, ListExceedingInv
  <2>7. CASE ListNotYet
    BY <2>7, ListNotYetInv
  <2>8. CASE UNCHANGED vars
    BY <2>8, StutterInv
  <2>9. QED
    BY <2>1, <2>2, <2>3, <2>4, <2>5, <2>6, <2>7, <2>8 DEF Next
<1>2. QED
  BY InitInv, <1>1, PTL DEF Spec

-----------------------------------------------------------------------------
(* What the summaries say of a machine.                                     *)

\* Of a machine whose Config is set there is a summary of every snapshot, of others none.
LEMMA SummariesOfMachine ==
  ASSUME IInv, Crawled = Done, NEW v \in VMs
  PROVE  /\ vm[v].readable => \A s \in vm[v].live : \E x \in Set(v) : x.snap = s
         /\ \A x \in Set(v) : /\ x \in summaries /\ x.vm = v
                              /\ vm[v].readable /\ x.snap \in vm[v].live /\ x.keys = FileKeys(v, x.snap)
         /\ \A x, y \in Set(v) : x.snap = y.snap => x = y
<1>1. vm[v].live \subseteq Snaps
  BY LayoutTypes, DuringRun
<1>2. \A s \in vm[v].live : vm[v].readable => <<v, s>> \in Done
  BY <1>1 DEF Crawled
<1>3. \A s \in vm[v].live : vm[v].readable => \E x \in Set(v) : x.snap = s
  BY <1>2 DEF Done, Set
<1>4. \A x \in Set(v) : x \in summaries /\ x.vm = v
  BY DEF Set
<1>5. \A x \in Set(v) : <<v, x.snap>> \in Crawled
  BY <1>4 DEF Done
<1>6. \A x \in Set(v) : vm[v].readable /\ x.snap \in vm[v].live
  BY <1>5 DEF Crawled
<1>7. QED
  BY <1>3, <1>4, <1>6 DEF IInv, Summarised

\* The oldest snapshot of a machine.
LEMMA OneRoot ==
  ASSUME NEW m \in Machine, Rooted(m), Connected(m), m.live # {}
  PROVE  \E r \in m.live : \A s \in m.live : m.parent[s] = NoSnap <=> s = r
<1>1. PICK r \in m.live : m.parent[r] \notin m.live
  BY DEF Rooted
<1>2. m.parent[r] = NoSnap
  BY <1>1, LayoutTypes DEF Rooted, States, From
<1>3. \A s \in m.live : m.parent[s] = NoSnap => s = r
  BY <1>2 DEF Connected
<1>4. QED
  BY <1>2, <1>3

\* The files NewSnapshotSummarySet finds for the snapshots of a machine: each for one of
\* them, and all but those the machine shares with the oldest.
LEMMA KeysOfSnapshots ==
  ASSUME IInv, NEW v \in VMs \ split, NEW r \in vm[v].live,
         \A s \in vm[v].live : vm[v].parent[s] = NoSnap <=> s = r
  PROVE  /\ \A s, t \in vm[v].live : s # t => FileKeys(v, s) \cap FileKeys(v, t) = {}
         /\ UNION {FileKeys(v, s) : s \in vm[v].live} =
              vm[v].live \cup ((AllFiles(vm[v].disk) \cup UNION {AllFiles(vm[v].layout[s]) : s \in vm[v].live})
                                 \ (AllFiles(vm[v].layout[r]) \cap AllFiles(vm[v].disk)))
<1> DEFINE m == vm[v]
           attached == Uses(m, NoSnap)
           own(s)   == Uses(m, s)
           below(s) == IF m.parent[s] = NoSnap THEN attached ELSE own(m.parent[s])
           written  == attached \ own(m.current)
           K(s)     == FileKeys(v, s)
<1>1. m \in Machine /\ Rooted(m) /\ Connected(m)
  BY DuringRun DEF IInv, Trees
<1>2. /\ m.live \subseteq Snaps /\ NoSnap \notin Snaps /\ m.current \in m.live
      /\ \A s \in m.live : m.parent[s] \in m.live \/ m.parent[s] = NoSnap
  <2>1. m.live \subseteq Snaps /\ NoSnap \notin Snaps /\ m.current \in m.live
    BY <1>1, LayoutTypes DEF Connected
  <2>2. QED
    BY <1>1, <2>1 DEF Rooted, States, From
<1>3. AllFiles(m.disk) = attached /\ \A s \in m.live : AllFiles(m.layout[s]) = own(s)
  BY <1>2 DEF Uses, Layout
<1>4. \A s \in m.live : K(s) = {s} \cup (own(s) \ below(s)) \cup IF s = m.current THEN written ELSE {}
  BY <1>2, <1>3 DEF FileKeys
<1>5. /\ \A s \in m.live : own(s) \ below(s) \subseteq Begun(m, s)
      /\ written = Begun(m, NoSnap)
      /\ own(r) = Begun(m, r)
  BY <1>2 DEF Begun, From
<1>6. \A a \in States(m) : Begun(m, a) \cap Snaps = {}
  <2>1. \A l \in Layouts : AllFiles(l) \subseteq Files
    BY DEF Layouts, AllFiles
  <2>2. \A a \in States(m) : Uses(m, a) \subseteq Files
    BY <1>1, <2>1, LayoutTypes DEF Uses
  <2>3. QED
    BY <2>2, TreeAssumption DEF Begun
<1>7. \A a, b \in States(m) : a # b => Begun(m, a) \cap Begun(m, b) = {}
  BY <1>1 DEF Connected
<1>8. NoSnap \in States(m) /\ \A s \in m.live : s \in States(m) /\ s # NoSnap /\ s \in Snaps
  BY <1>2 DEF States
<1> HIDE DEF m, attached, own, below, written, K
<1>9. ASSUME NEW s \in m.live, NEW t \in m.live, s # t, NEW f \in K(s), f \in K(t) PROVE FALSE
  <2>1. \/ f = s
        \/ f \in Begun(m, s)
        \/ s = m.current /\ f \in Begun(m, NoSnap)
    BY <1>4, <1>5, <1>9
  <2>2. \/ f = t
        \/ f \in Begun(m, t)
        \/ t = m.current /\ f \in Begun(m, NoSnap)
    BY <1>4, <1>5, <1>9
  <2>3. QED
    BY <1>6, <1>7, <1>8, <1>9, <2>1, <2>2
<1> DEFINE inUse  == attached \cup UNION {own(s) : s \in m.live}
           shared == own(r) \cap attached
<1>10. ASSUME NEW s \in m.live, NEW f \in K(s) PROVE f \in m.live \cup (inUse \ shared)
  <2>1. CASE f = s
    BY <2>1
  <2>2. CASE f \in own(s) \ below(s) /\ s = r
    BY <1>2, <2>2 DEF m, below
  <2>3. CASE f \in own(s) \ below(s) /\ s # r
    BY <1>5, <1>7, <1>8, <2>3 DEF m
  <2>4. CASE s = m.current /\ f \in written
    BY <1>5, <1>7, <1>8, <2>4 DEF m, written
  <2>5. QED
    BY <1>4, <1>10, <2>1, <2>2, <2>3, <2>4
<1>11. ASSUME NEW f \in inUse \ shared PROVE \E s \in m.live : f \in K(s)
  <2> DEFINE S == {s \in m.live : f \in own(s)}
  <2>1. CASE S # {}
    <3>1. PICK s \in S : m.parent[s] \notin S
      BY <1>1, <2>1 DEF Rooted
    <3>2. CASE m.parent[s] = NoSnap
      <4>1. s = r /\ f \notin attached
        BY <1>11, <3>2 DEF m
      <4>2. QED
        BY <1>4, <3>2, <4>1 DEF below
    <3>3. CASE m.parent[s] \in m.live
      <4>1. f \notin own(m.parent[s]) /\ m.parent[s] # NoSnap
        BY <1>2, <3>1, <3>3
      <4>2. QED
        BY <1>4, <4>1 DEF below
    <3>4. QED
      BY <1>2, <3>2, <3>3
  <2>2. CASE S = {}
    <3>1. f \in written
      BY <1>2, <1>11, <2>2 DEF written
    <3>2. QED
      BY <1>2, <1>4, <3>1
  <2>3. QED
    BY <2>1, <2>2
<1>12. \A s \in m.live : s \in K(s)
  BY <1>4
<1>13. UNION {K(s) : s \in m.live} = m.live \cup (inUse \ shared)
  <2> HIDE DEF inUse, shared
  <2>1. QED
    BY <1>10, <1>11, <1>12
<1>14. inUse = AllFiles(m.disk) \cup UNION {AllFiles(m.layout[s]) : s \in m.live}
  BY <1>3
<1>15. shared = AllFiles(m.layout[r]) \cap AllFiles(m.disk)
  BY <1>3 DEF m
<1>16. \A s, t \in m.live : s # t => K(s) \cap K(t) = {}
  BY <1>9
<1>17. QED
  BY <1>13, <1>14, <1>15, <1>16 DEF m, K


\* The same said of the summaries of a machine.
LEMMA KeysOfSet ==
  ASSUME IInv, Crawled = Done, NEW v \in VMs \ split, vm[v].readable, NEW r \in vm[v].live,
         \A s \in vm[v].live : vm[v].parent[s] = NoSnap <=> s = r
  PROVE  /\ \A x, y \in Set(v) : x # y => x.keys \cap y.keys = {}
         /\ UNION {x.keys : x \in Set(v)} =
              vm[v].live \cup ((AllFiles(vm[v].disk) \cup UNION {AllFiles(vm[v].layout[s]) : s \in vm[v].live})
                                 \ (AllFiles(vm[v].layout[r]) \cap AllFiles(vm[v].disk)))
<1> DEFINE K(s) == FileKeys(v, s)
           L    == vm[v].live
<1>1. /\ \A s \in L : \E x \in Set(v) : x.snap = s
      /\ \A x \in Set(v) : x.snap \in L /\ x.keys = K(x.snap)
      /\ \A x, y \in Set(v) : x.snap = y.snap => x = y
  BY SummariesOfMachine
<1>2. \A s, t \in L : s # t => K(s) \cap K(t) = {}
  BY KeysOfSnapshots
<1>3. UNION {K(s) : s \in L} =
        vm[v].live \cup ((AllFiles(vm[v].disk) \cup UNION {AllFiles(vm[v].layout[s]) : s \in vm[v].live})
                           \ (AllFiles(vm[v].layout[r]) \cap AllFiles(vm[v].disk)))
  BY KeysOfSnapshots
<1> HIDE DEF K, L
<1>4. \A x, y \in Set(v) : x # y => x.keys \cap y.keys = {}
  BY <1>1, <1>2
<1>5. UNION {x.keys : x \in Set(v)} = UNION {K(s) : s \in L}
  BY <1>1
<1>6. QED
  BY <1>3, <1>4, <1>5

LEMMA CountedOnce == IInv => GrowthCountedOnce
<1> SUFFICES ASSUME IInv, stage \in {"report", "list", "done"}, ~ panicked,
                    NEW v \in WithSnapshots \ split, vm[v].readable
             PROVE  LET m      == vm[v]
                        root   == CHOOSE s \in m.live : m.parent[s] = NoSnap
                        inUse  == AllFiles(m.disk) \cup UNION {AllFiles(m.layout[s]) : s \in m.live}
                        shared == AllFiles(m.layout[root]) \cap AllFiles(m.disk)
                    IN /\ \A x, y \in Set(v) : x # y => x.keys \cap y.keys = {}
                       /\ UNION {x.keys : x \in Set(v)} = m.live \cup (inUse \ shared)
  BY DEF GrowthCountedOnce
<1> DEFINE root == CHOOSE s \in vm[v].live : vm[v].parent[s] = NoSnap
<1>1. Crawled = Done /\ v \in VMs \ split /\ vm[v].live # {}
  BY DEF IInv, Summarised, WithSnapshots
<1>2. vm[v] \in Machine /\ Rooted(vm[v]) /\ Connected(vm[v])
  BY <1>1, DuringRun DEF IInv, Trees
<1>3. PICK r \in vm[v].live : \A s \in vm[v].live : vm[v].parent[s] = NoSnap <=> s = r
  BY <1>1, <1>2, OneRoot
<1>4. root = r
  BY <1>3
<1> HIDE DEF root
<1>5. /\ \A x, y \in Set(v) : x # y => x.keys \cap y.keys = {}
      /\ UNION {x.keys : x \in Set(v)} =
           vm[v].live \cup ((AllFiles(vm[v].disk) \cup UNION {AllFiles(vm[v].layout[s]) : s \in vm[v].live})
                              \ (AllFiles(vm[v].layout[root]) \cap AllFiles(vm[v].disk)))
  BY <1>1, <1>3, <1>4, KeysOfSet
<1>6. QED
  BY <1>5 DEF root

-----------------------------------------------------------------------------
(* The verdict.                                                             *)

\* What a machine exceeds at time t, and what its set is said to exceed.
Over(v, critical, t) == IF critical THEN Exceeded(v, AgeCritical, CountCritical, SizeCritical, t)
                                    ELSE Exceeded(v, AgeWarning, CountWarning, SizeWarning, t)
Alerted(v, critical) == IF critical THEN IsCriticalState(v) ELSE IsWarningState(v)

\* There are as many summaries of a machine as it has snapshots.
LEMMA SetCount ==
  ASSUME IInv, Crawled = Done, NEW v \in VMs, vm[v].readable
  PROVE  Cardinality(Set(v)) = Cardinality(vm[v].live)
<1> DEFINE f == [x \in Set(v) |-> x.snap]
           L == vm[v].live
<1>1. /\ \A s \in L : \E x \in Set(v) : x.snap = s
      /\ \A x \in Set(v) : x.snap \in L
      /\ \A x, y \in Set(v) : x.snap = y.snap => x = y
  BY SummariesOfMachine
<1>2. f \in [Set(v) -> L] /\ \A x \in Set(v) : f[x] = x.snap
  BY <1>1
<1> HIDE DEF f, L
<1>3. f \in Bijection(Set(v), L)
  BY <1>1, <1>2 DEF Bijection, Injection, IsInjective, Surjection
<1>4. ExistsBijection(Set(v), L)
  BY <1>3 DEF ExistsBijection
<1>5. IsFiniteSet(Set(v))
  BY SetsFinite
<1>6. QED
  BY <1>4, <1>5, FS_Bijection DEF L

\* The size of a set is what its machine's snapshots cost.
LEMMA SetCost ==
  ASSUME IInv, Crawled = Done, NEW v \in VMs \ split, vm[v].readable, vm[v].live # {}
  PROVE  SetSize(v) =
           Sum(SizeOf, vm[v].live \cup
                 ((AllFiles(vm[v].disk) \cup UNION {AllFiles(vm[v].layout[s]) : s \in vm[v].live})
                    \ UNION {AllFiles(vm[v].layout[s]) \cap AllFiles(vm[v].disk) :
                                s \in {r \in vm[v].live : vm[v].parent[r] = NoSnap}}))
<1>1. vm[v] \in Machine /\ Rooted(vm[v]) /\ Connected(vm[v])
  BY DuringRun DEF IInv, Trees
<1>2. PICK r \in vm[v].live : \A s \in vm[v].live : vm[v].parent[s] = NoSnap <=> s = r
  BY <1>1, OneRoot
<1>3. UNION {AllFiles(vm[v].layout[s]) \cap AllFiles(vm[v].disk) :
                s \in {q \in vm[v].live : vm[v].parent[q] = NoSnap}}
        = AllFiles(vm[v].layout[r]) \cap AllFiles(vm[v].disk)
  <2>1. {q \in vm[v].live : vm[v].parent[q] = NoSnap} = {r}
    BY <1>2
  <2>2. QED
    BY <2>1
<1>4. /\ \A x, y \in Set(v) : x # y => x.keys \cap y.keys = {}
      /\ UNION {x.keys : x \in Set(v)} =
           vm[v].live \cup ((AllFiles(vm[v].disk) \cup UNION {AllFiles(vm[v].layout[s]) : s \in vm[v].live})
                              \ (AllFiles(vm[v].layout[r]) \cap AllFiles(vm[v].disk)))
  BY <1>2, KeysOfSet
<1>5. Sum(Sizes, Set(v)) = Sum(SizeOf, UNION {x.keys : x \in Set(v)})
  <2> DEFINE D == Files \cup Snaps
  <2>1. IsFiniteSet(Set(v)) /\ Set(v) \subseteq summaries
    BY SetsFinite
  <2>2. IsFiniteSet(D) /\ \A k \in D : SizeOf[k] \in Nat
    BY FilesFinite, SetsAssumption
  <2>3. \A x \in Set(v) : x.keys \subseteq D /\ Sizes[x] = Sum(SizeOf, x.keys)
    BY <2>1, DuringRun DEF Summary, Sizes
  <2> HIDE DEF D
  <2>4. QED
    BY <1>4, <2>1, <2>2, <2>3, SumOfParts
<1>6. QED
  BY <1>3, <1>4, <1>5 DEF SetSize

\* A set is alerted on if its machine exceeded the threshold at the retrieval, and only if
\* the machine exceeds it by now.
LEMMA AlertOfMachine ==
  ASSUME IInv, stage # "select", Crawled = Done, NEW v \in VMs \ split, NEW critical \in BOOLEAN
  PROVE  /\ Over(v, critical, started) => v \in WithSnapshots /\ Alerted(v, critical)
         /\ v \in WithSnapshots /\ Alerted(v, critical) => Over(v, critical, now)
<1> DEFINE days    == IF critical THEN AgeCritical ELSE AgeWarning
           count   == IF critical THEN CountCritical ELSE CountWarning
           gb      == IF critical THEN SizeCritical ELSE SizeWarning
           flag(x) == IF critical THEN x.ageCritical ELSE x.ageWarning
           L       == vm[v].live
           cost    == vm[v].live \cup
                 ((AllFiles(vm[v].disk) \cup UNION {AllFiles(vm[v].layout[s]) : s \in vm[v].live})
                    \ UNION {AllFiles(vm[v].layout[s]) \cap AllFiles(vm[v].disk) :
                                s \in {r \in vm[v].live : vm[v].parent[r] = NoSnap}})
           most    == gb * GB
<1>1. mode \in {"age", "count", "size"} /\ count \in Nat /\ most \in Nat
  BY DuringRun, SetsAssumption, Gigabytes
<1>2. Alerted(v, critical) <=> CASE mode = "age"   -> \E x \in Set(v) : flag(x)
                                 [] mode = "count" -> Cardinality(Set(v)) > count
                                 [] mode = "size"  -> SetSize(v) > most
  BY DEF Alerted, IsCriticalState, IsWarningState, ExceedsSize
<1>3. \A t : Over(v, critical, t) <=>
               /\ vm[v].readable
               /\ CASE mode = "age"   -> \E s \in L : ExceedsAge(v, s, days, t)
                    [] mode = "count" -> Cardinality(L) > count
                    [] mode = "size"  -> L # {} /\ Sum(SizeOf, cost) > most
  BY DEF Over, Exceeded
<1>4. v \in WithSnapshots <=> L # {}
  BY DEF WithSnapshots
<1>5. \A x \in Set(v) : /\ vm[v].readable /\ x.snap \in L
                        /\ ExceedsAge(v, x.snap, days, started) => flag(x)
                        /\ flag(x) => ExceedsAge(v, x.snap, days, now)
  <2>1. \A x \in Set(v) : x \in summaries /\ x.vm = v /\ vm[v].readable /\ x.snap \in L
    BY SummariesOfMachine
  <2>2. \A x \in Set(v) : Crossed(x, AgeWarning, x.ageWarning) /\ Crossed(x, AgeCritical, x.ageCritical)
    BY <2>1 DEF IInv, Summarised
  <2>3. QED
    BY <2>1, <2>2 DEF Crossed
<1>6. vm[v].readable => /\ \A s \in L : \E x \in Set(v) : x.snap = s
                        /\ Cardinality(Set(v)) = Cardinality(L)
                        /\ L # {} => SetSize(v) = Sum(SizeOf, cost)
  <2>1. ASSUME vm[v].readable PROVE \A s \in L : \E x \in Set(v) : x.snap = s
    BY <2>1, SummariesOfMachine
  <2>2. ASSUME vm[v].readable PROVE Cardinality(Set(v)) = Cardinality(L)
    BY <2>2, SetCount
  <2>3. ASSUME vm[v].readable, L # {} PROVE SetSize(v) = Sum(SizeOf, cost)
    BY <2>3, SetCost
  <2>4. QED
    BY <2>1, <2>2, <2>3
<1>7. Set(v) = {} => Cardinality(Set(v)) = 0 /\ SetSize(v) = 0
  BY SetsFinite, SetSizes
<1>8. Cardinality({}) = 0
  BY FS_EmptySet
<1> HIDE DEF days, count, gb, flag, L, cost, most
<1>9. CASE mode = "age"
  <2>1. ASSUME Over(v, critical, started) PROVE v \in WithSnapshots /\ Alerted(v, critical)
    BY <1>2, <1>3, <1>4, <1>5, <1>6, <1>9, <2>1
  <2>2. ASSUME Alerted(v, critical) PROVE Over(v, critical, now)
    BY <1>2, <1>3, <1>5, <1>9, <2>2
  <2>3. QED
    BY <2>1, <2>2
<1>10. CASE mode = "count"
  <2>1. ASSUME Over(v, critical, started) PROVE v \in WithSnapshots /\ Alerted(v, critical)
    <3>1. vm[v].readable /\ Cardinality(L) > count
      BY <1>3, <1>10, <2>1
    <3>2. L # {}
      BY <1>1, <1>8, <3>1
    <3>3. QED
      BY <1>2, <1>4, <1>6, <1>10, <3>1, <3>2
  <2>2. ASSUME Alerted(v, critical) PROVE Over(v, critical, now)
    <3>1. Cardinality(Set(v)) > count
      BY <1>2, <1>10, <2>2
    <3>2. Set(v) # {}
      BY <1>1, <1>7, <3>1
    <3>3. QED
      BY <1>3, <1>5, <1>6, <1>10, <3>1, <3>2
  <2>3. QED
    BY <2>1, <2>2
<1>11. CASE mode = "size"
  <2>1. ASSUME Over(v, critical, started) PROVE v \in WithSnapshots /\ Alerted(v, critical)
    BY <1>2, <1>3, <1>4, <1>6, <1>11, <2>1
  <2>2. ASSUME v \in WithSnapshots, Alerted(v, critical) PROVE Over(v, critical, now)
    <3>1. SetSize(v) > most
      BY <1>2, <1>11, <2>2
    <3>2. Set(v) # {}
      BY <1>1, <1>7, <3>1
    <3>3. QED
      BY <1>3, <1>4, <1>5, <1>6, <1>11, <2>2, <3>1, <3>2
  <2>3. QED
    BY <2>1, <2>2
<1>12. QED
  BY <1>1, <1>9, <1>10, <1>11

LEMMA StateOfSets ==
  /\ State \in {"OK", "WARNING", "CRITICAL"}
  /\ State = "CRITICAL" <=> \E v \in WithSnapshots : Alerted(v, TRUE)
  /\ State = "OK" <=> \A v \in WithSnapshots : ~ Alerted(v, TRUE) /\ ~ Alerted(v, FALSE)
BY DEF State, Alerted

LEMMA VerdictMatches == IInv => VerdictMatchesSnapshots
<1> SUFFICES ASSUME IInv, stage = "done", ~ panicked, split = {}
             PROVE  /\ (\E v \in VMs : Over(v, TRUE, started)) => exitState = "CRITICAL"
                    /\ (\E v \in VMs : Over(v, FALSE, started)) => exitState # "OK"
                    /\ exitState = "CRITICAL" => \E v \in VMs : Over(v, TRUE, now)
                    /\ exitState = "WARNING" => \E v \in VMs : Over(v, FALSE, now)
  BY DEF VerdictMatchesSnapshots, Over
<1>1. exitState = State /\ Crawled = Done /\ stage # "select"
  BY DEF IInv, Judged, Summarised
<1>2. \A v \in VMs : \A critical \in BOOLEAN :
        /\ Over(v, critical, started) => v \in WithSnapshots /\ Alerted(v, critical)
        /\ v \in WithSnapshots /\ Alerted(v, critical) => Over(v, critical, now)
  BY <1>1, AlertOfMachine
<1>3. WithSnapshots \subseteq VMs
  BY DuringRun
<1>4. QED
  BY <1>1, <1>2, <1>3, StateOfSets

-----------------------------------------------------------------------------
(* The report.                                                              *)

\* A set that is alerted on has a summary that is listed, and only such a set has one.
LEMMA FlaggedOfSet ==
  ASSUME IInv, stage # "select", NEW v \in WithSnapshots
  PROVE  (\E x \in Set(v) : Flagged(x)) <=> Alerted(v, TRUE) \/ Alerted(v, FALSE)
<1>1. \A x \in Set(v) : x.vm = v
  BY DEF Set
<1>2. CASE mode = "age"
  BY <1>2 DEF Flagged, Alerted, IsCriticalState, IsWarningState
<1>3. CASE mode \in {"count", "size"}
  <2>1. \A x \in Set(v) : Flagged(x) <=> Alerted(v, TRUE) \/ Alerted(v, FALSE)
    BY <1>1, <1>3 DEF Flagged, Alerted
  <2>2. Alerted(v, TRUE) \/ Alerted(v, FALSE) => Set(v) # {}
    <3> SUFFICES ASSUME Set(v) = {} PROVE ~ Alerted(v, TRUE) /\ ~ Alerted(v, FALSE)
      OBVIOUS
    <3>1. Cardinality(Set(v)) = 0 /\ SetSize(v) = 0
      BY SetsFinite, SetSizes
    <3>2. CountWarning \in Nat /\ CountCritical \in Nat
      BY SetsAssumption
    <3>3. SizeWarning * GB \in Nat /\ SizeCritical * GB \in Nat
      BY SetsAssumption, Gigabytes
    <3>4. CASE mode = "count"
      BY <3>1, <3>2, <3>4 DEF Alerted, IsCriticalState, IsWarningState
    <3>5. CASE mode = "size"
      <4>1. ~ ExceedsSize(SetSize(v), SizeWarning) /\ ~ ExceedsSize(SetSize(v), SizeCritical)
        <5> DEFINE a == SizeWarning * GB
                   b == SizeCritical * GB
        <5>1. ~ (0 > a) /\ ~ (0 > b)
          <6>1. a \in Nat /\ b \in Nat
            BY <3>3
          <6> HIDE DEF a, b
          <6>2. QED
            BY <6>1
        <5>2. QED
          BY <3>1, <5>1 DEF ExceedsSize
      <4>2. QED
        BY <3>5, <4>1 DEF Alerted, IsCriticalState, IsWarningState
    <3>6. QED
      BY <1>3, <3>4, <3>5
  <2>3. QED
    BY <2>1, <2>2
<1>4. QED
  BY <1>2, <1>3, DuringRun

LEMMA ReportAccounts == IInv => ReportAccountsForSnapshots
<1> SUFFICES ASSUME IInv, stage = "done", ~ panicked
             PROVE  /\ exceeding \cap notYet = {}
                    /\ exitState # "OK" <=> exceeding # {}
                    /\ exitState = "CRITICAL" /\ mode = "age" =>
                         Cardinality({x \in summaries : x.ageCritical}) <= older.snaps
                    /\ exitState # "OK" => older.vms > 0 /\ older.snaps > 0
                    /\ \/ exceeding \cup notYet = summaries
                       \/ /\ mode = "age"
                          /\ \A x \in summaries : ExceedsAge(x.vm, x.snap, AgeWarning, now)
  BY DEF ReportAccountsForSnapshots
<1>1. /\ exitState = State /\ Counted
      /\ exceeding = {x \in summaries : Flagged(x)}
      /\ \/ notYet = {x \in summaries : ~ Flagged(x)}
         \/ /\ notYet = {} /\ mode = "age"
            /\ \A x \in summaries : ExceedsAge(x.vm, x.snap, AgeWarning, now)
  BY DEF IInv, Judged
<1>2. exitState # "OK" <=> exceeding # {}
  <2>1. exitState # "OK" <=> \E v \in WithSnapshots : \E x \in Set(v) : Flagged(x)
    BY <1>1, StateOfSets, FlaggedOfSet
  <2>2. \A x \in summaries : x.vm \in WithSnapshots /\ x \in Set(x.vm)
    <3>1. \A x \in summaries : <<x.vm, x.snap>> \in Crawled
      BY DEF IInv, TypeOK, Done
    <3>2. QED
      BY <3>1 DEF Crawled, WithSnapshots, Set
  <2>3. \A v : Set(v) \subseteq summaries
    BY DEF Set
  <2>4. QED
    BY <1>1, <2>1, <2>2, <2>3
<1>3. exceeding \cap notYet = {}
  BY <1>1
<1>4. \/ exceeding \cup notYet = summaries
      \/ /\ mode = "age"
         /\ \A x \in summaries : ExceedsAge(x.vm, x.snap, AgeWarning, now)
  BY <1>1
<1>5. QED
  BY <1>1, <1>2, <1>3, <1>4 DEF Counted

-----------------------------------------------------------------------------
(* The theorems.                                                            *)

\* The machines' trees, the summaries, the lists and the verdict stay what their types
\* say, there are summaries only of snapshots NewSnapshotSummarySet finds, and the clock
\* moves by no more than a day during a run.
THEOREM TypeCorrect == Spec => []TypeOK
<1>1. IInv => TypeOK
  BY DEF IInv
<1>2. QED
  BY <1>1, InductiveInv, PTL

\* However snapshots were taken, reverted to and removed, and disks added and removed,
\* NewSnapshotSummarySet counts every file written since the oldest snapshot once, unless
\* a snapshot with several branches was removed.
THEOREM FilesCountedOnce == Spec => []GrowthCountedOnce
<1>1. QED
  BY CountedOnce, InductiveInv, PTL

\* The plugins for age, count and size alert on what exceeded a threshold when the
\* machines were retrieved, and on nothing that does not exceed it by the end of the run.
THEOREM VerdictIsAboutSnapshots == Spec => []VerdictMatchesSnapshots
<1>1. QED
  BY VerdictMatches, InductiveInv, PTL

\* The one-line summary and the two lists of the report agree with the verdict and leave
\* no snapshot out, but for those whose age crosses the threshold while it is written.
THEOREM ReportIsComplete == Spec => []ReportAccountsForSnapshots
<1>1. QED
  BY ReportAccounts, InductiveInv, PTL
=============================================================================
