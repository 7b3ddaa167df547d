-------------------------- MODULE VMSelectionProofs --------------------------
(***************************************************************************)
(* Proofs about VMSelection, for every tree of pools, any virtual machines *)
(* and any number of changes between the requests.                         *)
(***************************************************************************)
EXTENDS VMSelection, Integers, FiniteSetTheorems, WellFoundedInduction, TLAPS

-----------------------------------------------------------------------------
(* Natural numbers: induction, and the least element of a set.              *)

LEMMA Least ==
  ASSUME NEW T \in SUBSET Nat, T # {}
  PROVE  \E x \in T : \A y \in T : x <= y
<1>1. PICK x \in T : \A y \in T : ~ (<<y, x>> \in OpToRel(<, Nat))
  BY NatLessThanWellFounded, WFMin
<1>2. ASSUME NEW y \in T PROVE x <= y
  <2>1. <<y, x>> \in OpToRel(<, Nat) <=> y < x
    BY DEF OpToRel
  <2>2. ~ (y < x) /\ x \in Nat /\ y \in Nat
    BY <1>1, <2>1
  <2>3. QED
    BY <2>2
<1>3. QED
  BY <1>2

\* Induction, said of a set: it has every number if it has 0 and the successors of its own.
LEMMA Induction ==
  ASSUME NEW N, 0 \in N, \A n \in Nat : n \in N => n + 1 \in N
  PROVE  Nat \subseteq N
<1> SUFFICES ASSUME Nat \ N # {} PROVE FALSE
  OBVIOUS
<1>1. PICK n \in Nat \ N : \A m \in Nat \ N : n <= m
  BY Least
<1>2. n - 1 \in Nat /\ n - 1 \in N
  BY <1>1
<1>3. QED
  BY <1>1, <1>2

-----------------------------------------------------------------------------
(* Lists.                                                                   *)

Elements(s) == {s[i] : i \in DOMAIN s}
Increasing(f) == \A i, j \in DOMAIN f : i < j => f[i] < f[j]

LEMMA ElementTypes ==
  ASSUME NEW R, NEW s \in Seq(R)
  PROVE  Elements(s) \subseteq R /\ \A i \in DOMAIN s : s[i] \in R
BY DEF Elements

LEMMA WiderSeq ==
  ASSUME NEW R, NEW T, R \subseteq T, NEW s \in Seq(R)
  PROVE  s \in Seq(T) /\ Len(s) \in Nat
OBVIOUS

LEMMA ConcatElements ==
  ASSUME NEW R, NEW s \in Seq(R), NEW t \in Seq(R)
  PROVE  s \o t \in Seq(R) /\ Elements(s \o t) = Elements(s) \cup Elements(t)
<1>1. s \o t \in Seq(R) /\ Len(s \o t) = Len(s) + Len(t) /\ Len(s) \in Nat /\ Len(t) \in Nat
  OBVIOUS
<1>2. \A i \in 1..Len(s) : (s \o t)[i] = s[i] /\ i \in 1..Len(s \o t)
  BY <1>1
<1>3. \A i \in 1..Len(t) : (s \o t)[Len(s) + i] = t[i] /\ Len(s) + i \in 1..Len(s \o t)
  BY <1>1
<1>4. \A i \in 1..Len(s \o t) : i \in 1..Len(s) \/ \E j \in 1..Len(t) : i = Len(s) + j
  <2> SUFFICES ASSUME NEW i \in 1..Len(s \o t), i \notin 1..Len(s)
               PROVE  i - Len(s) \in 1..Len(t) /\ i = Len(s) + (i - Len(s))
    OBVIOUS
  <2>1. QED
    BY <1>1
<1>5. DOMAIN s = 1..Len(s) /\ DOMAIN t = 1..Len(t) /\ DOMAIN (s \o t) = 1..Len(s \o t)
  BY <1>1
<1>6. Elements(s \o t) \subseteq Elements(s) \cup Elements(t)
  <2>1. ASSUME NEW i \in 1..Len(s \o t) PROVE (s \o t)[i] \in Elements(s) \cup Elements(t)
    <3>1. CASE i \in 1..Len(s)
      BY <1>2, <1>5, <3>1 DEF Elements
    <3>2. CASE \E j \in 1..Len(t) : i = Len(s) + j
      BY <1>3, <1>5, <3>2 DEF Elements
    <3>3. QED
      BY <1>4, <3>1, <3>2
  <2>2. QED
    BY <1>5, <2>1 DEF Elements
<1>7. Elements(s) \cup Elements(t) \subseteq Elements(s \o t)
  BY <1>2, <1>3, <1>5 DEF Elements
<1>8. QED
  BY <1>1, <1>6, <1>7

\* A set of indices can be enumerated in its order.
LEMMA Enumeration ==
  ASSUME NEW l \in Nat, NEW K \in SUBSET (1..l)
  PROVE  \E f \in [1..Cardinality(K) -> K] : Increasing(f)
<1> DEFINE N == {n \in Nat : \A S \in SUBSET (1..n) : \E f \in [1..Cardinality(S) -> S] : Increasing(f)}
<1>1. 0 \in N
  <2> SUFFICES ASSUME NEW S \in SUBSET (1..0)
               PROVE  \E f \in [1..Cardinality(S) -> S] : Increasing(f)
    OBVIOUS
  <2>1. S = {} /\ Cardinality(S) = 0
    <3>1. S = {}
      OBVIOUS
    <3>2. QED
      BY <3>1, FS_EmptySet
  <2>2. [i \in 1..0 |-> 0] \in [1..0 -> S] /\ Increasing([i \in 1..0 |-> 0])
    BY DEF Increasing
  <2>3. QED
    BY <2>1, <2>2
<1>2. ASSUME NEW n \in Nat, n \in N PROVE n + 1 \in N
  <2> SUFFICES ASSUME NEW S \in SUBSET (1..(n + 1))
               PROVE  \E f \in [1..Cardinality(S) -> S] : Increasing(f)
    OBVIOUS
  <2>1. CASE n + 1 \notin S
    <3>1. S \in SUBSET (1..n)
      BY <2>1
    <3>2. QED
      BY <1>2, <3>1
  <2>2. CASE n + 1 \in S
    <3> DEFINE T == S \ {n + 1}
               c == Cardinality(T)
    <3>1. T \in SUBSET (1..n) /\ IsFiniteSet(1..n)
      BY FS_Interval
    <3>2. PICK f \in [1..c -> T] : Increasing(f)
      BY <1>2, <3>1
    <3>3. IsFiniteSet(T) /\ c \in Nat
      BY <3>1, FS_Subset, FS_CardinalityType
    <3>4. Cardinality(S) = c + 1
      <4>1. S = T \cup {n + 1} /\ n + 1 \notin T
        BY <2>2
      <4>2. QED
        BY <3>3, <4>1, FS_AddElement
    <3> HIDE DEF c
    <3> DEFINE g == [i \in 1..(c + 1) |-> IF i = c + 1 THEN n + 1 ELSE f[i]]
    <3>5. g \in [1..(c + 1) -> S]
      BY <2>2, <3>3
    <3>6. \A i \in 1..c : f[i] \in 1..n
      BY <3>1
    <3>7. ASSUME NEW i \in 1..(c + 1), NEW j \in 1..(c + 1), i < j PROVE g[i] < g[j]
      <4>1. i \in 1..c /\ g[i] = f[i]
        BY <3>3, <3>7
      <4>2. CASE j = c + 1
        BY <3>6, <4>1, <4>2
      <4>3. CASE j # c + 1
        <5>1. j \in 1..c /\ g[j] = f[j]
          BY <3>3, <4>3
        <5>2. QED
          BY <3>2, <3>7, <4>1, <5>1 DEF Increasing
      <4>4. QED
        BY <4>2, <4>3
    <3>8. Increasing(g)
      BY <3>7 DEF Increasing
    <3>9. QED
      BY <3>4, <3>5, <3>8
  <2>3. QED
    BY <2>1, <2>2
<1>3. l \in N
  <2> HIDE DEF N
  <2>1. QED
    BY <1>1, <1>2, Induction
<1>4. QED
  BY <1>3

\* A list that holds different elements and as many as a finite set has all of them.
LEMMA AllListed ==
  ASSUME NEW S, IsFiniteSet(S), NEW s \in [1..Cardinality(S) -> S],
         \A i, j \in 1..Cardinality(S) : s[i] = s[j] => i = j
  PROVE  Elements(s) = S
<1>1. Cardinality(S) \in Nat
  BY FS_CardinalityType
<1>2. IsFiniteSet(1..Cardinality(S)) /\ Cardinality(1..Cardinality(S)) = Cardinality(S)
  BY <1>1, FS_Interval
<1>3. s \in Injection(1..Cardinality(S), S)
  BY DEF Injection, IsInjective
<1>4. s \in Surjection(1..Cardinality(S), S)
  BY <1>2, <1>3, FS_Injection
<1>5. QED
  BY <1>4 DEF Surjection, Elements

LEMMA FiniteIndices ==
  ASSUME NEW R, NEW s \in Seq(R), NEW K \in SUBSET (DOMAIN s)
  PROVE  IsFiniteSet(K)
<1>1. K \in SUBSET (1..Len(s)) /\ Len(s) \in Nat
  OBVIOUS
<1>2. IsFiniteSet(1..Len(s))
  BY <1>1, FS_Interval
<1>3. QED
  BY <1>1, <1>2, FS_Subset

\* What is appended to a list in a loop: the elements chosen, in their order.
LEMMA AppendedElements ==
  ASSUME NEW R, NEW s \in Seq(R), NEW K \in SUBSET (DOMAIN s)
  PROVE  /\ Appended(s, K) \in Seq(R)
         /\ Elements(Appended(s, K)) = {s[i] : i \in K}
         /\ \E f \in [DOMAIN Appended(s, K) -> K] :
              Increasing(f) /\ \A n \in DOMAIN f : Appended(s, K)[n] = s[f[n]]
<1> DEFINE c == Cardinality(K)
           f == CHOOSE g \in [1..c -> K] : \A i, j \in DOMAIN g : i < j => g[i] < g[j]
<1>1. DOMAIN s = 1..Len(s) /\ Len(s) \in Nat
  OBVIOUS
<1>2. IsFiniteSet(K) /\ c \in Nat
  BY FiniteIndices, FS_CardinalityType
<1>3. \E g \in [1..c -> K] : \A i, j \in DOMAIN g : i < j => g[i] < g[j]
  BY <1>1, Enumeration DEF Increasing
<1>4. f \in [1..c -> K] /\ Increasing(f)
  BY <1>3 DEF Increasing
<1>5. Appended(s, K) = [n \in 1..c |-> s[f[n]]]
  BY DEF Appended
<1> HIDE DEF f
<1>6. \A i, j \in 1..c : f[i] = f[j] => i = j
  <2> SUFFICES ASSUME NEW i \in 1..c, NEW j \in 1..c, i # j PROVE f[i] # f[j]
    OBVIOUS
  <2>1. f[i] \in Nat /\ f[j] \in Nat
    BY <1>1, <1>4
  <2>2. f[i] < f[j] \/ f[j] < f[i]
    BY <1>2, <1>4 DEF Increasing
  <2>3. QED
    BY <2>1, <2>2
<1>7. Elements(f) = K
  BY <1>2, <1>4, <1>6, AllListed
<1> HIDE DEF c
<1>8. \A n \in 1..c : s[f[n]] \in R
  BY <1>1, <1>4
<1>9. Appended(s, K) \in Seq(R)
  BY <1>2, <1>5, <1>8
<1>10. Elements(Appended(s, K)) = {s[i] : i \in K}
  BY <1>4, <1>5, <1>7 DEF Elements
<1>11. QED
  BY <1>4, <1>5, <1>9, <1>10

LEMMA FiniteElements ==
  ASSUME NEW R, NEW s \in Seq(R), NEW K \in SUBSET (DOMAIN s)
  PROVE  IsFiniteSet({s[i] : i \in K})
<1>1. IsFiniteSet(K)
  BY FiniteIndices
<1>2. [i \in K |-> s[i]] \in Surjection(K, {s[i] : i \in K})
  BY DEF Surjection
<1>3. QED
  BY <1>1, <1>2, FS_Surjection

Sorted(s) == \A i, j \in DOMAIN s : i < j => Rank[s[i].name] <= Rank[s[j].name]

LEMMA SortedElements ==
  ASSUME NEW S, IsFiniteSet(S), NEW s \in SortedByName(S)
  PROVE  /\ s \in Seq(S) /\ Elements(s) = S
         /\ \A i, j \in DOMAIN s : s[i] = s[j] => i = j
         /\ Sorted(s)
<1>1. Cardinality(S) \in Nat
  BY FS_CardinalityType
<1>2. s \in [1..Cardinality(S) -> S]
  BY DEF SortedByName
<1>3. \A i, j \in 1..Cardinality(S) : s[i] = s[j] => i = j
  BY DEF SortedByName
<1>4. QED
  BY <1>1, <1>2, <1>3, AllListed DEF SortedByName, Sorted

\* What a view finds: a record of every machine inside.
LEMMA FoundElements ==
  ASSUME NEW p
  PROVE  /\ Found(p) \in Seq({Record(v) : v \in Inside(p)})
         /\ Elements(Found(p)) = {Record(v) : v \in Inside(p)}
<1> DEFINE I == Inside(p)
           c == Cardinality(I)
           S == {Record(v) : v \in I}
<1>1. IsFiniteSet(I) /\ c \in Nat /\ ExistsBijection(1..c, I)
  <2>1. I \in SUBSET VMs
    BY DEF Inside
  <2>2. QED
    BY <2>1, SelectionAssumption, FS_Subset, FS_CardinalityType
<1>2. PICK b \in Bijection(1..c, I) : TRUE
  BY <1>1 DEF ExistsBijection
<1>3. b \in [1..c -> I] /\ \A i, j \in 1..c : b[i] = b[j] => i = j
  BY <1>2 DEF Bijection, Injection, IsInjective
<1>4. \A v, w : Record(v) = Record(w) => v = w
  BY DEF Record
<1>5. [i \in 1..c |-> Record(b[i])] \in [1..c -> S]
  BY <1>3
<1>6. \A i, j \in 1..c : [k \in 1..c |-> Record(b[k])][i] = [k \in 1..c |-> Record(b[k])][j] => i = j
  BY <1>3, <1>4
<1>7. /\ Found(p) \in [1..c -> S]
      /\ \A i, j \in 1..c : Found(p)[i] = Found(p)[j] => i = j
  BY <1>5, <1>6 DEF Found
<1>8. IsFiniteSet(S) /\ Cardinality(S) = c
  <2>1. [v \in I |-> Record(v)] \in Bijection(I, S)
    BY <1>4 DEF Bijection, Injection, Surjection, IsInjective
  <2>2. QED
    BY <1>1, <2>1, FS_Bijection DEF ExistsBijection
<1>9. Elements(Found(p)) = S
  BY <1>7, <1>8, AllListed
<1>10. QED
  BY <1>1, <1>7, <1>9
-----------------------------------------------------------------------------
(* The invariant.                                                           *)

\* How far the run is says what it has; what is not touched has not changed.
Progress ==
  /\ stage \in {"validate", "pools"} => viewed = 0 /\ rps = << >> /\ vms = << >> /\ touched = {}
  /\ stage \in {"ignored", "power", "evaluate"} \/ Verdict => viewed = Len(rps)
  /\ stage \in {"validate", "pools", "vms", "ignored"} \/ exitState = "error" => filteredVMs = << >>
  /\ exitState = "none" <=> stage # "done"
  /\ changes = 0 => touched = {}

\* The records of machines that stay as they are are what the inventory has, and there
\* is one of each such machine that is in a pool searched.
Current ==
  /\ \A r \in Elements(vms) : r.vm \notin touched => r = Record(r.vm)
  /\ \A v \in VMs \ touched, i \in 1..viewed :
       inv.pool[v] = rps[i].pool => Record(v) \in Elements(vms)

Once(s) == \A i, j \in DOMAIN s : s[i].vm = s[j].vm => i = j

\* The lists after deduplication.
Kept(r) == ~ InList(r.name, flags.ignored) /\ (stage = "power" \/ PowerOK(r.power))

Lists ==
  /\ stage \in {"ignored", "power", "evaluate"} \/ Verdict => Once(vms) /\ Sorted(vms)
  /\ stage \in {"power", "evaluate"} \/ Verdict =>
       /\ Elements(filteredVMs) = {r \in Elements(vms) : Kept(r)}
       /\ Once(filteredVMs) /\ Sorted(filteredVMs)

Chosen == {p \in Live : Eligible(inv.poolName[p])}
Searched == UNION {Inside(rps[i].pool) : i \in 1..viewed}

\* Nothing was changed: the pools and the machines are those the flags select.
Quiet ==
  changes = 0 /\ exitState # "error" =>
    /\ stage \notin {"validate", "pools"} =>
         {r.pool : r \in Elements(rps)} = Chosen
    /\ {r.vm : r \in Elements(vms)} = Searched

Evaluated == Verdict => (exitState = "OK" <=> \A r \in Elements(filteredVMs) : r.tools = "toolsOk")

IInv == TypeOK /\ Progress /\ Current /\ Lists /\ Quiet /\ Evaluated

-----------------------------------------------------------------------------
(* The inventory changes.                                                   *)

\* What a change leaves of the machines that are not in S.
Agree(w, S) ==
  /\ w \in Inventory /\ S \in SUBSET VMs
  /\ \A v \in VMs \ S : /\ w.pool[v] = inv.pool[v] /\ w.power[v] = inv.power[v]
                        /\ w.tools[v] = inv.tools[v]

LEMMA EnvironmentAgrees ==
  ASSUME inv \in Inventory, Environment
  PROVE  \E S : Agree(inv', S) /\ Change(inv', S)
<1>1. ASSUME NEW v \in VMs, MoveVM(v) PROVE Agree(inv', {v}) /\ Change(inv', {v})
  <2>1. PICK p \in Live \cup {Gone} : inv' = [inv EXCEPT !.pool[v] = p] /\ Change(inv', {v})
    BY <1>1 DEF MoveVM, Change
  <2>2. p \in Pools \cup {Gone}
    BY DEF Live
  <2>3. QED
    BY <2>1, <2>2 DEF Agree, Inventory
<1>2. ASSUME NEW v \in VMs, PowerVM(v) PROVE Agree(inv', {v}) /\ Change(inv', {v})
  <2>1. PICK x \in PowerStates : inv' = [inv EXCEPT !.power[v] = x] /\ Change(inv', {v})
    BY <1>2 DEF PowerVM, Change
  <2>2. QED
    BY <2>1 DEF Agree, Inventory
<1>3. ASSUME NEW v \in VMs, UpdateTools(v) PROVE Agree(inv', {v}) /\ Change(inv', {v})
  <2>1. PICK x \in ToolsStates : inv' = [inv EXCEPT !.tools[v] = x] /\ Change(inv', {v})
    BY <1>3 DEF UpdateTools, Change
  <2>2. QED
    BY <2>1 DEF Agree, Inventory
<1>4. ASSUME NEW p \in Pools, MovePool(p) PROVE Agree(inv', {}) /\ Change(inv', {})
  <2>1. PICK q \in Live : inv' = [inv EXCEPT !.parent[p] = q] /\ Change(inv', {})
    BY <1>4 DEF MovePool, Change
  <2>2. q \in Pools
    BY DEF Live
  <2>3. QED
    BY <2>1, <2>2 DEF Agree, Inventory
<1>5. ASSUME NEW p \in Pools, RenamePool(p) PROVE Agree(inv', {}) /\ Change(inv', {})
  <2>1. PICK n \in Names : inv' = [inv EXCEPT !.poolName[p] = n] /\ Change(inv', {})
    BY <1>5 DEF RenamePool, Change
  <2>2. QED
    BY <2>1 DEF Agree, Inventory
<1>6. ASSUME NEW p \in Pools, DestroyPool(p)
      PROVE  Agree(inv', {v \in VMs : inv.pool[v] = p}) /\ Change(inv', {v \in VMs : inv.pool[v] = p})
  <2> DEFINE up(q) == IF q = p THEN inv.parent[p] ELSE q
             w == [inv EXCEPT
                     !.pool   = [v \in VMs |-> IF @[v] = Gone THEN Gone ELSE up(@[v])],
                     !.parent = [q \in Pools |-> IF q = p \/ @[q] = Gone THEN Gone ELSE up(@[q])]]
  <2>1. inv' = w /\ Change(inv', {v \in VMs : inv.pool[v] = p})
    BY <1>6 DEF DestroyPool, Change
  <2>2. \A q \in Pools : up(q) \in Pools \cup {Gone}
    BY DEF Inventory
  <2>3. /\ [v \in VMs |-> IF inv.pool[v] = Gone THEN Gone ELSE up(inv.pool[v])] \in [VMs -> Pools \cup {Gone}]
        /\ [q \in Pools |-> IF q = p \/ inv.parent[q] = Gone THEN Gone ELSE up(inv.parent[q])]
             \in [Pools -> Pools \cup {Gone}]
    BY <2>2 DEF Inventory
  <2>4. /\ w.pool = [v \in VMs |-> IF inv.pool[v] = Gone THEN Gone ELSE up(inv.pool[v])]
        /\ w.power = inv.power /\ w.tools = inv.tools
    BY DEF Inventory
  <2>5. w \in Inventory
    BY <2>3 DEF Inventory
  <2>6. \A v \in VMs : inv.pool[v] # p => w.pool[v] = inv.pool[v]
    BY <2>4
  <2> HIDE DEF w
  <2>7. QED
    BY <2>1, <2>4, <2>5, <2>6 DEF Agree
<1>7. QED
  BY <1>1, <1>2, <1>3, <1>4, <1>5, <1>6 DEF Environment

\* The records and the pools of machines that are not in S are the same.
LEMMA SameRecords ==
  ASSUME NEW S, Agree(inv', S)
  PROVE  \A v \in VMs \ S : Record(v)' = Record(v) /\ inv'.pool[v] = inv.pool[v]
BY DEF Agree, Record

LEMMA RecordsOfVMs ==
  ASSUME IInv
  PROVE  Elements(vms) \subseteq Records /\ \A r \in Elements(vms) : r.vm \in VMs
<1>1. vms \in Seq(Records)
  BY DEF IInv, TypeOK
<1>2. Elements(vms) \subseteq Records
  BY <1>1, ElementTypes
<1>3. QED
  BY <1>2 DEF Records

LEMMA EnvironmentInv == IInv /\ Environment => IInv'
<1> SUFFICES ASSUME IInv, Environment PROVE IInv'
  OBVIOUS
<1>1. PICK S : Agree(inv', S) /\ Change(inv', S)
  BY EnvironmentAgrees DEF IInv, TypeOK
<1>2. /\ stage # "done" /\ changes < MaxChanges /\ changes' = changes + 1
      /\ UNCHANGED <<flags, stage, rps, viewed, vms, filteredVMs, exitState>>
      /\ touched' = IF stage \in {"validate", "pools"} THEN {} ELSE touched \cup S
  BY <1>1 DEF Change, plugin
<1>3. changes' # 0 /\ changes' \in 0..MaxChanges
  BY <1>2, SelectionAssumption DEF IInv, TypeOK
<1>4. TypeOK'
  BY <1>1, <1>2, <1>3 DEF IInv, TypeOK, Agree
<1>5. Progress' /\ Quiet'
  BY <1>2, <1>3 DEF IInv, Progress, Quiet, Verdict
<1>6. Lists' /\ Evaluated'
  BY <1>2 DEF IInv, Lists, Once, Sorted, Kept, InList, PowerOK, Evaluated, Verdict, Elements
<1>7. Current'
  <2>1. CASE stage \in {"validate", "pools"}
    <3>1. vms' = << >> /\ viewed' = 0
      BY <1>2, <2>1 DEF IInv, Progress
    <3>2. Elements(vms') = {}
      BY <3>1 DEF Elements
    <3>3. QED
      BY <3>1, <3>2 DEF Current, Elements
  <2>2. CASE stage \notin {"validate", "pools"}
    <3>1. \A v \in VMs \ touched' : /\ v \in VMs \ touched
                                    /\ Record(v)' = Record(v) /\ inv'.pool[v] = inv.pool[v]
      BY <1>1, <1>2, <2>2, SameRecords
    <3>2. Elements(vms)' = Elements(vms)
      BY <1>2 DEF Elements
    <3>3. \A r \in Elements(vms) : r.vm \in VMs
      BY RecordsOfVMs
    <3>4. ASSUME NEW r \in Elements(vms)', r.vm \notin touched' PROVE r = Record(r.vm)'
      BY <3>1, <3>2, <3>3, <3>4 DEF IInv, Current
    <3>5. ASSUME NEW v \in VMs \ touched', NEW i \in 1..viewed', inv'.pool[v] = rps'[i].pool
          PROVE  Record(v)' \in Elements(vms)'
      BY <1>2, <3>1, <3>2, <3>5 DEF IInv, Current
    <3>6. QED
      BY <3>4, <3>5 DEF Current
  <2>3. QED
    BY <2>1, <2>2
<1>8. QED
  BY <1>4, <1>5, <1>6, <1>7 DEF IInv
-----------------------------------------------------------------------------
(* The steps of the plugin.                                                 *)

LEMMA SameInventory ==
  ASSUME UNCHANGED <<inv, flags>>
  PROVE  /\ Live' = Live /\ \A p : Inside(p)' = Inside(p)
         /\ \A v : Record(v)' = Record(v) /\ \A n : Eligible(n)' = Eligible(n)
         /\ Chosen' = Chosen
         /\ UNCHANGED <<rps, viewed>> => Searched' = Searched
<1>1. /\ Live' = Live /\ \A p : Inside(p)' = Inside(p)
      /\ \A v : Record(v)' = Record(v) /\ \A n : Eligible(n)' = Eligible(n)
  BY DEF Live, Inside, Above, Record, Eligible, InList
<1>2. Chosen' = Chosen
  BY <1>1 DEF Chosen
<1>3. UNCHANGED <<rps, viewed>> => Searched' = Searched
  BY <1>1 DEF Searched
<1>4. QED
  BY <1>1, <1>2, <1>3

LEMMA AbortInv ==
  ASSUME IInv, Abort, stage \in {"validate", "pools", "vms"}
  PROVE  IInv'
<1>1. /\ stage' = "done" /\ exitState' = "error"
      /\ UNCHANGED <<inv, changes, touched, flags, rps, viewed, vms, filteredVMs>>
  BY DEF Abort, Reading
<1>2. TypeOK'
  BY <1>1 DEF IInv, TypeOK
<1>3. Progress'
  BY <1>1 DEF IInv, Progress, Verdict
<1>4. Current'
  BY <1>1, SameInventory DEF IInv, Current, Elements
<1>5. Lists' /\ Quiet' /\ Evaluated'
  BY <1>1 DEF Lists, Quiet, Evaluated, Verdict
<1>6. QED
  BY <1>2, <1>3, <1>4, <1>5 DEF IInv

LEMMA RequestFailsInv == IInv /\ RequestFails => IInv'
BY AbortInv DEF RequestFails

LEMMA ValidateRPsInv == IInv /\ ValidateRPs => IInv'
<1> SUFFICES ASSUME IInv, ValidateRPs PROVE IInv'
  OBVIOUS
<1>1. CASE Abort
  BY <1>1, AbortInv DEF ValidateRPs
<1>2. CASE stage' = "pools" /\ Reading /\ UNCHANGED <<rps, viewed, vms, filteredVMs, exitState>>
  <2>1. stage = "validate" /\ UNCHANGED <<inv, changes, touched, flags>>
    BY <1>2 DEF ValidateRPs, Reading
  <2>2. TypeOK' /\ Progress' /\ Lists' /\ Evaluated'
    BY <1>2, <2>1 DEF IInv, TypeOK, Progress, Lists, Evaluated, Verdict
  <2>3. Current'
    BY <1>2, <2>1, SameInventory DEF IInv, Current, Elements
  <2>4. Quiet'
    BY <1>2, <2>1, SameInventory DEF IInv, Quiet, Elements
  <2>5. QED
    BY <2>2, <2>3, <2>4 DEF IInv
<1>3. QED
  BY <1>1, <1>2 DEF ValidateRPs

LEMMA GetEligibleRPsInv == IInv /\ GetEligibleRPs => IInv'
<1> SUFFICES ASSUME IInv, GetEligibleRPs PROVE IInv'
  OBVIOUS
<1> DEFINE P == {q \in Live : Eligible(inv.poolName[q])}
           S == {[pool |-> p, name |-> inv.poolName[p]] : p \in P}
<1>1. /\ stage = "pools" /\ stage' = "vms" /\ rps' \in SortedByName(S)
      /\ UNCHANGED <<inv, changes, touched, flags, viewed, vms, filteredVMs, exitState>>
  BY DEF GetEligibleRPs, Reading
<1>2. viewed = 0 /\ vms = << >> /\ touched = {} /\ exitState = "none" /\ filteredVMs = << >>
  BY <1>1 DEF IInv, Progress
<1>3. IsFiniteSet(S)
  <2>1. P \in SUBSET Pools
    BY DEF Live
  <2>2. IsFiniteSet(P)
    BY <2>1, SelectionAssumption, FS_Subset
  <2>3. [p \in P |-> [pool |-> p, name |-> inv.poolName[p]]] \in Surjection(P, S)
    BY DEF Surjection
  <2>4. QED
    BY <2>2, <2>3, FS_Surjection
<1>4. rps' \in Seq(S) /\ Elements(rps') = S
  BY <1>1, <1>3, SortedElements
<1>5. S \subseteq [pool : Pools, name : Names]
  BY DEF IInv, TypeOK, Inventory, Live
<1>6. rps' \in Seq([pool : Pools, name : Names]) /\ Len(rps') \in Nat
  <2> HIDE DEF S
  <2>1. QED
    BY <1>4, <1>5, WiderSeq
<1>7. TypeOK'
  BY <1>1, <1>2, <1>6 DEF IInv, TypeOK
<1>8. Elements(vms') = {} /\ 1..viewed' = {}
  BY <1>1, <1>2 DEF Elements
<1>9. Current'
  BY <1>1, <1>2, <1>8 DEF Current, Elements
<1>10. Quiet'
  <2>1. {r.pool : r \in S} = P
    <3>1. \A p \in P : [pool |-> p, name |-> inv.poolName[p]].pool = p
      OBVIOUS
    <3> HIDE DEF P
    <3>2. QED
      BY <3>1
  <2>2. P' = P
    BY <1>1, SameInventory
  <2> HIDE DEF P, S
  <2>3. {r.pool : r \in Elements(rps)'} = P
    BY <1>4, <2>1 DEF Elements
  <2>4. {r.vm : r \in Elements(vms)'} = Searched'
    BY <1>8 DEF Elements, Searched
  <2>5. QED
    BY <2>2, <2>3, <2>4 DEF Quiet, Chosen, P
<1>11. Progress' /\ Lists' /\ Evaluated'
  BY <1>1, <1>2 DEF Progress, Lists, Evaluated, Verdict
<1>12. QED
  BY <1>7, <1>9, <1>10, <1>11 DEF IInv

LEMMA SearchNextPoolInv == IInv /\ SearchNextPool => IInv'
<1> SUFFICES ASSUME IInv, SearchNextPool PROVE IInv'
  OBVIOUS
<1> DEFINE p == rps[viewed + 1].pool
           R == {Record(v) : v \in Inside(p)}
<1>1. CASE p \notin Live
  <2>1. Abort /\ stage = "vms"
    BY <1>1 DEF SearchNextPool
  <2>2. QED
    BY <2>1, AbortInv
<1>2. CASE p \in Live
  <2>1. /\ stage = "vms" /\ viewed < Len(rps) /\ vms' = vms \o Found(p) /\ viewed' = viewed + 1
        /\ UNCHANGED <<inv, changes, touched, flags, stage, rps, filteredVMs, exitState>>
    BY <1>2 DEF SearchNextPool, Reading
  <2>2. viewed \in Nat /\ viewed' \in 0..Len(rps)
    BY <2>1 DEF IInv, TypeOK
  <2>3. Found(p) \in Seq(R) /\ Elements(Found(p)) = R
    BY FoundElements
  <2>4. R \subseteq Records /\ \A v \in Inside(p) : v \in VMs /\ Record(v).vm = v
    BY SelectionAssumption DEF IInv, TypeOK, Inventory, Records, Record, Inside
  <2> HIDE DEF R
  <2>5. vms \in Seq(Records) /\ Found(p) \in Seq(Records)
    BY <2>3, <2>4, WiderSeq DEF IInv, TypeOK
  <2> HIDE DEF p
  <2>6. vms' \in Seq(Records) /\ Elements(vms') = Elements(vms) \cup R
    BY <2>1, <2>3, <2>5, ConcatElements
  <2>7. Elements(vms)' = Elements(vms) \cup R
    BY <2>6 DEF Elements
  <2>8. TypeOK'
    BY <2>1, <2>2, <2>6 DEF IInv, TypeOK
  <2>9. Progress' /\ Lists' /\ Evaluated'
    BY <2>1 DEF IInv, Progress, Lists, Evaluated, Verdict
  <2>10. \A i \in 1..viewed' : i \in 1..viewed \/ rps[i].pool = p
    BY <2>1, <2>2 DEF p
  <2>11. Current'
    <3>1. ASSUME NEW r \in Elements(vms)', r.vm \notin touched PROVE r = Record(r.vm)
      <4>1. CASE r \in Elements(vms)
        BY <3>1, <4>1 DEF IInv, Current
      <4>2. CASE r \in R
        BY <2>4, <4>2 DEF R
      <4>3. QED
        BY <2>7, <4>1, <4>2
    <3>2. ASSUME NEW v \in VMs \ touched, NEW i \in 1..viewed', inv.pool[v] = rps[i].pool
          PROVE  Record(v) \in Elements(vms)'
      <4>1. CASE i \in 1..viewed
        BY <2>7, <3>2, <4>1 DEF IInv, Current
      <4>2. CASE rps[i].pool = p
        <5>1. p \in Above(p) /\ p # Gone
          BY <1>2, SelectionAssumption DEF Above, Live
        <5>2. v \in Inside(p)
          BY <3>2, <4>2, <5>1 DEF Inside
        <5>3. QED
          BY <2>7, <5>2 DEF R
      <4>3. QED
        BY <2>10, <4>1, <4>2
    <3>3. QED
      BY <2>1, <3>1, <3>2, SameInventory DEF Current
  <2>12. Quiet'
    <3> SUFFICES ASSUME changes = 0
                 PROVE  /\ {r.pool : r \in Elements(rps)} = Chosen
                        /\ {r.vm : r \in Elements(vms)'} = Searched'
      BY <2>1, SameInventory DEF Quiet, Elements
    <3>1. /\ {r.pool : r \in Elements(rps)} = Chosen
          /\ {r.vm : r \in Elements(vms)} = Searched
      BY <2>1 DEF IInv, Quiet, Progress
    <3>2. {r.vm : r \in R} = Inside(p)
      BY <2>4 DEF R
    <3>3. {r.vm : r \in Elements(vms)'} = {r.vm : r \in Elements(vms)} \cup Inside(p)
      BY <2>7, <3>2
    <3>4. viewed + 1 \in 1..viewed' /\ rps[viewed + 1].pool = p /\ 1..viewed \subseteq 1..viewed'
      BY <2>1, <2>2 DEF p
    <3>5. UNION {Inside(rps[i].pool) : i \in 1..viewed'}
            = (UNION {Inside(rps[i].pool) : i \in 1..viewed}) \cup Inside(p)
      BY <2>10, <3>4
    <3>6. Searched' = UNION {Inside(rps[i].pool) : i \in 1..viewed'}
      BY <2>1, SameInventory DEF Searched
    <3>7. QED
      BY <3>1, <3>3, <3>5, <3>6 DEF Searched
  <2>13. QED
    BY <2>8, <2>9, <2>11, <2>12 DEF IInv
<1>3. QED
  BY <1>1, <1>2

\* What deduplication leaves: of each machine one record, which was there before.
LEMMA DedupedElements ==
  ASSUME NEW R, NEW s \in Seq(R)
  PROVE  /\ IsFiniteSet(dedupeVMs(s)) /\ dedupeVMs(s) \subseteq Elements(s)
         /\ \A r \in Elements(s) : \E d \in dedupeVMs(s) : d.vm = r.vm
         /\ \A c, d \in dedupeVMs(s) : c.vm = d.vm => c = d
<1> DEFINE K == {k \in DOMAIN s : \A j \in 1..(k - 1) : s[j].vm # s[k].vm}
<1>1. dedupeVMs(s) = {s[i] : i \in K} /\ K \in SUBSET (DOMAIN s)
  BY DEF dedupeVMs
<1>2. DOMAIN s = 1..Len(s) /\ Len(s) \in Nat
  OBVIOUS
<1>3. IsFiniteSet({s[i] : i \in K})
  BY <1>1, FiniteElements
<1>4. ASSUME NEW i \in DOMAIN s PROVE \E k \in K : s[k].vm = s[i].vm
  <2> DEFINE T == {k \in DOMAIN s : s[k].vm = s[i].vm}
  <2>1. T \in SUBSET Nat /\ T # {}
    BY <1>2
  <2>2. PICK k \in T : \A j \in T : k <= j
    <3> HIDE DEF T
    <3>1. QED
      BY <2>1, Least
  <2>3. \A j \in 1..(k - 1) : j \in DOMAIN s /\ ~ (k <= j)
    BY <1>2
  <2>4. k \in K
    BY <2>2, <2>3
  <2>5. QED
    BY <2>4
<1>5. ASSUME NEW i \in K, NEW j \in K, s[i].vm = s[j].vm PROVE i = j
  <2>1. ~ (i \in 1..(j - 1)) /\ ~ (j \in 1..(i - 1))
    BY <1>5
  <2>2. i \in 1..Len(s) /\ j \in 1..Len(s)
    BY <1>2
  <2>3. QED
    BY <1>2, <2>1, <2>2
<1> HIDE DEF K
<1>6. QED
  BY <1>1, <1>3, <1>4, <1>5 DEF Elements

LEMMA DedupeAndSortInv == IInv /\ DedupeAndSort => IInv'
<1> SUFFICES ASSUME IInv, DedupeAndSort PROVE IInv'
  OBVIOUS
<1> DEFINE D == dedupeVMs(vms)
<1>1. /\ stage = "vms" /\ viewed = Len(rps) /\ vms' \in SortedByName(D) /\ stage' = "ignored"
      /\ UNCHANGED <<inv, changes, touched, flags, rps, viewed, filteredVMs, exitState>>
  BY DEF DedupeAndSort, Reading
<1>2. vms \in Seq(Records)
  BY DEF IInv, TypeOK
<1>3. /\ IsFiniteSet(D) /\ D \subseteq Elements(vms)
      /\ \A r \in Elements(vms) : \E d \in D : d.vm = r.vm
      /\ \A c, d \in D : c.vm = d.vm => c = d
  BY <1>2, DedupedElements
<1> HIDE DEF D
<1>4. /\ vms' \in Seq(D) /\ Elements(vms') = D /\ Sorted(vms')
      /\ \A i, j \in DOMAIN vms' : vms'[i] = vms'[j] => i = j
  BY <1>1, <1>3, SortedElements
<1>5. Elements(vms)' = D
  BY <1>4 DEF Elements
<1>6. TypeOK'
  <2>1. D \subseteq Records
    BY <1>3, RecordsOfVMs
  <2>2. vms' \in Seq(Records)
    BY <1>4, <2>1, WiderSeq
  <2>3. QED
    BY <1>1, <2>2 DEF IInv, TypeOK
<1>7. Progress' /\ Evaluated'
  BY <1>1 DEF IInv, Progress, Evaluated, Verdict
<1>8. Current'
  <2>1. ASSUME NEW r \in D, r.vm \notin touched PROVE r = Record(r.vm)
    BY <1>3, <2>1 DEF IInv, Current
  <2>2. ASSUME NEW v \in VMs \ touched, NEW i \in 1..viewed, inv.pool[v] = rps[i].pool
        PROVE  Record(v) \in D
    <3>1. Record(v) \in Elements(vms) /\ Record(v).vm = v
      BY <2>2 DEF IInv, Current, Record
    <3>2. PICK d \in D : d.vm = v
      BY <1>3, <3>1
    <3>3. d = Record(v)
      BY <2>1, <3>2
    <3>4. QED
      BY <3>3
  <2>3. QED
    BY <1>1, <1>5, <2>1, <2>2, SameInventory DEF Current
<1>9. Lists'
  <2>1. Once(vms')
    <3>1. \A i \in DOMAIN vms' : vms'[i] \in D
      BY <1>4 DEF Elements
    <3>2. QED
      BY <1>3, <1>4, <3>1 DEF Once
  <2>2. QED
    BY <1>1, <1>4, <2>1 DEF IInv, Progress, Lists, Verdict, Once, Sorted
<1>10. Quiet'
  <2>1. {r.vm : r \in D} = {r.vm : r \in Elements(vms)}
    BY <1>3
  <2>2. QED
    BY <1>1, <1>5, <2>1, SameInventory DEF IInv, Quiet, Elements
<1>11. QED
  BY <1>6, <1>7, <1>8, <1>9, <1>10 DEF IInv

\* A filter neither searches pools nor changes what was retrieved.
LEMMA FilterKeeps ==
  ASSUME IInv, stage \in {"ignored", "power"}, stage' \in {"power", "evaluate"},
         UNCHANGED <<inv, changes, touched, flags, rps, viewed, vms, exitState>>,
         filteredVMs' \in Seq(Records)
  PROVE  TypeOK' /\ Progress' /\ Current' /\ Quiet' /\ Evaluated'
<1>1. TypeOK'
  BY DEF IInv, TypeOK
<1>2. Progress' /\ Evaluated'
  BY DEF IInv, Progress, Evaluated, Verdict
<1>3. Current'
  BY SameInventory DEF IInv, Current, Elements
<1>4. Quiet'
  BY SameInventory DEF IInv, Quiet, Elements
<1>5. QED
  BY <1>1, <1>2, <1>3, <1>4

LEMMA ExcludeVMsByNameInv == IInv /\ ExcludeVMsByName => IInv'
<1> SUFFICES ASSUME IInv, ExcludeVMsByName PROVE IInv'
  OBVIOUS
<1> DEFINE K == {k \in DOMAIN vms : ~ InList(vms[k].name, flags.ignored)}
           S == {vms[i] : i \in K}
<1>1. /\ stage = "ignored" /\ stage' = "power"
      /\ UNCHANGED <<inv, changes, touched, flags, rps, viewed, vms, exitState>>
      /\ filteredVMs' \in IF flags.ignored = {} THEN {vms} ELSE SortedByName(S)
  BY DEF ExcludeVMsByName, Reading
<1>2. vms \in Seq(Records) /\ Once(vms) /\ Sorted(vms)
  BY <1>1 DEF IInv, TypeOK, Lists
<1>3. \A r : Kept(r)' <=> ~ InList(r.name, flags.ignored)
  BY <1>1 DEF Kept, InList
<1>4. /\ filteredVMs' \in Seq(Records) /\ Once(filteredVMs') /\ Sorted(filteredVMs')
      /\ Elements(filteredVMs') = {r \in Elements(vms) : ~ InList(r.name, flags.ignored)}
  <2>1. CASE flags.ignored = {}
    <3>1. filteredVMs' = vms /\ \A r : ~ InList(r.name, flags.ignored)
      BY <1>1, <2>1 DEF InList
    <3>2. QED
      BY <1>2, <3>1
  <2>2. CASE flags.ignored # {}
    <3>1. IsFiniteSet(S) /\ filteredVMs' \in SortedByName(S)
      <4>1. K \in SUBSET (DOMAIN vms)
        OBVIOUS
      <4> HIDE DEF K
      <4>2. QED
        BY <1>1, <1>2, <2>2, <4>1, FiniteElements
    <3>2. S = {r \in Elements(vms) : ~ InList(r.name, flags.ignored)}
      BY DEF Elements
    <3>3. S \subseteq Records /\ \A c, d \in S : c.vm = d.vm => c = d
      BY <1>2, <3>2, RecordsOfVMs DEF Once, Elements
    <3> HIDE DEF S
    <3>4. /\ filteredVMs' \in Seq(S) /\ Elements(filteredVMs') = S /\ Sorted(filteredVMs')
          /\ \A i, j \in DOMAIN filteredVMs' : filteredVMs'[i] = filteredVMs'[j] => i = j
      BY <3>1, SortedElements
    <3>5. filteredVMs' \in Seq(Records)
      BY <3>3, <3>4, WiderSeq
    <3>6. \A i \in DOMAIN filteredVMs' : filteredVMs'[i] \in S
      BY <3>4 DEF Elements
    <3>7. Once(filteredVMs')
      BY <3>3, <3>4, <3>6 DEF Once
    <3>8. QED
      BY <3>2, <3>4, <3>5, <3>7
  <2>3. QED
    BY <2>1, <2>2
<1>5. Lists'
  <2>1. Elements(filteredVMs)' = {r \in Elements(vms)' : Kept(r)'}
    BY <1>1, <1>3, <1>4 DEF Elements
  <2>2. Once(vms)' /\ Sorted(vms)' /\ Once(filteredVMs)' /\ Sorted(filteredVMs)'
    BY <1>1, <1>2, <1>4 DEF Once, Sorted
  <2>3. QED
    BY <1>1, <2>1, <2>2 DEF Lists, Verdict
<1>6. QED
  BY <1>1, <1>4, <1>5, FilterKeeps DEF IInv

LEMMA FilterVMsByPowerStateInv == IInv /\ FilterVMsByPowerState => IInv'
<1> SUFFICES ASSUME IInv, FilterVMsByPowerState PROVE IInv'
  OBVIOUS
<1> DEFINE K == {i \in DOMAIN filteredVMs : PowerOK(filteredVMs[i].power)}
<1>1. /\ stage = "power" /\ stage' = "evaluate" /\ filteredVMs' = Appended(filteredVMs, K)
      /\ UNCHANGED <<inv, changes, touched, flags, rps, viewed, vms, exitState>>
  BY DEF FilterVMsByPowerState, Reading
<1>2. /\ filteredVMs \in Seq(Records) /\ Once(filteredVMs) /\ Sorted(filteredVMs)
      /\ Once(vms) /\ Sorted(vms)
      /\ Elements(filteredVMs) = {r \in Elements(vms) : ~ InList(r.name, flags.ignored)}
  BY <1>1 DEF IInv, TypeOK, Lists, Kept
<1>3. K \in SUBSET (DOMAIN filteredVMs)
  OBVIOUS
<1>4. \A r : Kept(r)' <=> ~ InList(r.name, flags.ignored) /\ PowerOK(r.power)
  BY <1>1 DEF Kept, InList, PowerOK
<1>5. {filteredVMs[i] : i \in K} = {r \in Elements(filteredVMs) : PowerOK(r.power)}
  BY DEF Elements
<1> HIDE DEF K
<1>6. /\ filteredVMs' \in Seq(Records)
      /\ Elements(filteredVMs') = {filteredVMs[i] : i \in K}
  BY <1>1, <1>2, <1>3, AppendedElements
<1>7. PICK f \in [DOMAIN filteredVMs' -> K] :
        Increasing(f) /\ \A n \in DOMAIN f : filteredVMs'[n] = filteredVMs[f[n]]
  BY <1>1, <1>2, <1>3, AppendedElements
<1>8. /\ DOMAIN filteredVMs = 1..Len(filteredVMs) /\ Len(filteredVMs) \in Nat
      /\ DOMAIN filteredVMs' = 1..Len(filteredVMs') /\ Len(filteredVMs') \in Nat
  BY <1>2, <1>6
<1>9. \A n \in DOMAIN filteredVMs' : f[n] \in DOMAIN filteredVMs
  BY <1>3, <1>7
<1>10. \A i, j \in DOMAIN filteredVMs' : i < j => f[i] < f[j]
  BY <1>7 DEF Increasing
<1>11. Sorted(filteredVMs')
  BY <1>2, <1>7, <1>9, <1>10 DEF Sorted
<1>12. Once(filteredVMs')
  <2> SUFFICES ASSUME NEW i \in DOMAIN filteredVMs', NEW j \in DOMAIN filteredVMs',
                      filteredVMs'[i].vm = filteredVMs'[j].vm
               PROVE  i = j
    BY DEF Once
  <2>1. f[i] = f[j]
    BY <1>2, <1>7, <1>9 DEF Once
  <2>2. ~ (i < j) /\ ~ (j < i)
    BY <1>8, <1>9, <1>10, <2>1
  <2>3. QED
    BY <1>8, <2>2
<1>13. Lists'
  <2>1. Elements(filteredVMs)' = {r \in Elements(vms)' : Kept(r)'}
    BY <1>1, <1>2, <1>4, <1>5, <1>6 DEF Elements
  <2>2. Once(vms)' /\ Sorted(vms)' /\ Once(filteredVMs)' /\ Sorted(filteredVMs)'
    BY <1>1, <1>2, <1>11, <1>12 DEF Once, Sorted
  <2>3. QED
    BY <1>1, <2>1, <2>2 DEF Lists, Verdict
<1>14. QED
  BY <1>1, <1>6, <1>13, FilterKeeps DEF IInv

\* A summary of machines with issues is never OK.
LEMMA SummaryOfIssues ==
  ASSUME NEW s \in Seq(Records), \A r \in Elements(s) : r.tools # "toolsOk", Len(s) > 0
  PROVE  GetVMToolsStatusSummary(s) \in {"WARNING", "CRITICAL", "UNKNOWN"}
<1>1. /\ DOMAIN s = 1..Len(s) /\ Len(s) \in Nat
      /\ \A i \in DOMAIN s : s[i].tools \in ToolsStates \ {"toolsOk"}
  <2>1. \A i \in DOMAIN s : s[i] \in Records /\ s[i] \in Elements(s)
    BY ElementTypes DEF Elements
  <2>2. QED
    BY <2>1 DEF Records
<1>2. CASE \E i \in DOMAIN s : Breaks(s[i])
  <2> DEFINE T == {i \in DOMAIN s : Breaks(s[i])}
  <2>1. T \in SUBSET Nat /\ T # {}
    BY <1>1, <1>2
  <2>2. PICK i \in T : \A j \in T : i <= j
    <3> HIDE DEF T
    <3>1. QED
      BY <2>1, Least
  <2>3. \A j \in 1..(i - 1) : j \in DOMAIN s /\ ~ (i <= j)
    BY <1>1
  <2>4. i \in DOMAIN s /\ FirstBreak(s, i)
    BY <2>2, <2>3 DEF FirstBreak
  <2>5. QED
    BY <2>4, <1>2 DEF GetVMToolsStatusSummary
<1>3. CASE \A i \in DOMAIN s : ~ Breaks(s[i])
  <2>1. \A i \in DOMAIN s : ~ FirstBreak(s, i)
    BY <1>3 DEF FirstBreak
  <2>2. 1 \in DOMAIN s /\ s[1].tools = "toolsOld"
    BY <1>1, <1>3 DEF Breaks
  <2>3. QED
    BY <1>3, <2>1, <2>2 DEF GetVMToolsStatusSummary
<1>4. QED
  BY <1>2, <1>3

LEMMA EvaluateInv == IInv /\ Evaluate => IInv'
<1> SUFFICES ASSUME IInv, Evaluate PROVE IInv'
  OBVIOUS
<1> DEFINE K == {i \in DOMAIN filteredVMs : filteredVMs[i].tools # "toolsOk"}
           issues == FilterVMsWithToolsIssues
<1>1. /\ stage = "evaluate" /\ stage' = "done"
      /\ UNCHANGED <<inv, changes, touched, flags, rps, viewed, vms, filteredVMs>>
      /\ exitState' = IF Len(issues) > 0 THEN GetVMToolsStatusSummary(issues) ELSE "OK"
  BY DEF Evaluate, Reading
<1>2. filteredVMs \in Seq(Records) /\ exitState = "none"
  BY <1>1 DEF IInv, TypeOK, Progress
<1>3. {filteredVMs[i] : i \in K} = {r \in Elements(filteredVMs) : r.tools # "toolsOk"}
  BY DEF Elements
<1>4. /\ issues \in Seq(Records)
      /\ Elements(issues) = {r \in Elements(filteredVMs) : r.tools # "toolsOk"}
  <2>1. issues = Appended(filteredVMs, K) /\ K \in SUBSET (DOMAIN filteredVMs)
    BY DEF FilterVMsWithToolsIssues
  <2> HIDE DEF issues, K
  <2>2. QED
    BY <1>2, <1>3, <2>1, AppendedElements
<1> HIDE DEF issues
<1>5. Len(issues) \in Nat /\ (Len(issues) > 0 <=> Elements(issues) # {})
  <2>1. Len(issues) \in Nat /\ DOMAIN issues = 1..Len(issues)
    BY <1>4
  <2>2. Len(issues) > 0 => 1 \in DOMAIN issues
    BY <2>1
  <2>3. QED
    BY <2>1, <2>2 DEF Elements
<1>6. Len(issues) > 0 => GetVMToolsStatusSummary(issues) \in {"WARNING", "CRITICAL", "UNKNOWN"}
  BY <1>4, SummaryOfIssues
<1>7. /\ exitState' \in {"OK", "WARNING", "CRITICAL", "UNKNOWN"}
      /\ exitState' = "OK" <=> \A r \in Elements(filteredVMs) : r.tools = "toolsOk"
  BY <1>1, <1>4, <1>5, <1>6
<1>8. TypeOK' /\ Progress'
  BY <1>1, <1>2, <1>7 DEF IInv, TypeOK, Progress, Verdict
<1>9. Current'
  BY <1>1, SameInventory DEF IInv, Current, Elements
<1>10. Quiet'
  BY <1>1, <1>2, SameInventory DEF IInv, Quiet, Elements
<1>11. Evaluated'
  BY <1>1, <1>7 DEF Evaluated, Elements
<1>12. Lists'
  <2>1. Elements(filteredVMs)' = {r \in Elements(vms)' : Kept(r)'}
    <3>1. \A r : Kept(r)' <=> Kept(r)
      BY <1>1 DEF Kept, InList, PowerOK
    <3>2. QED
      BY <1>1, <3>1 DEF IInv, Lists, Elements
  <2>2. Once(vms)' /\ Sorted(vms)' /\ Once(filteredVMs)' /\ Sorted(filteredVMs)'
    BY <1>1 DEF IInv, Lists, Once, Sorted
  <2>3. QED
    BY <2>1, <2>2 DEF Lists
<1>13. QED
  BY <1>8, <1>9, <1>10, <1>11, <1>12 DEF IInv

LEMMA StutterInv == IInv /\ UNCHANGED vars => IInv'
<1> SUFFICES ASSUME IInv, UNCHANGED vars PROVE IInv'
  OBVIOUS
<1>1. TypeOK' /\ Progress' /\ Evaluated'
  BY DEF vars, IInv, TypeOK, Progress, Evaluated, Verdict, Elements
<1>2. Current' /\ Quiet'
  BY SameInventory DEF vars, IInv, Current, Quiet, Elements
<1>3. Lists'
  <2>1. \A r : Kept(r)' <=> Kept(r)
    BY DEF vars, Kept, InList, PowerOK
  <2>2. QED
    BY <2>1 DEF vars, IInv, Lists, Once, Sorted, Elements, Verdict
<1>4. QED
  BY <1>1, <1>2, <1>3 DEF IInv

LEMMA InitInv == Init => IInv
<1> SUFFICES ASSUME Init PROVE IInv
  OBVIOUS
<1>1. TypeOK
  BY SelectionAssumption DEF Init, TypeOK
<1>2. Elements(vms) = {} /\ 1..viewed = {}
  BY DEF Init, Elements
<1>3. Progress /\ Lists /\ Evaluated
  BY DEF Init, Progress, Lists, Evaluated, Verdict
<1>4. Current /\ Quiet
  BY <1>2 DEF Init, Current, Quiet, Searched
<1>5. QED
  BY <1>1, <1>3, <1>4 DEF IInv

THEOREM InductiveInv == Spec => []IInv
<1>1. IInv /\ [Next]_vars => IInv'
  <2> SUFFICES ASSUME IInv, [Next]_vars PROVE IInv'
    OBVIOUS
  <2>1. CASE Environment
    BY <2>1, EnvironmentInv
  <2>2. CASE RequestFails
    BY <2>2, RequestFailsInv
  <2>3. CASE ValidateRPs
    BY <2>3, ValidateRPsInv
  <2>4. CASE GetEligibleRPs
    BY <2>4, GetEligibleRPsInv
  <2>5. CASE SearchNextPool
    BY <2>5, SearchNextPoolInv
  <2>6. CASE DedupeAndSort
    BY <2>6, DedupeAndSortInv
  <2>7. CASE ExcludeVMsByName
    BY <2>7, ExcludeVMsByNameInv
  <2>8. CASE FilterVMsByPowerState
    BY <2>8, FilterVMsByPowerStateInv
  <2>9. CASE Evaluate
    BY <2>9, EvaluateInv
  <2>10. CASE UNCHANGED vars
    BY <2>10, StutterInv
  <2>11. QED
    BY <2>1, <2>2, <2>3, <2>4, <2>5, <2>6, <2>7, <2>8, <2>9, <2>10 DEF Next, Select
<1>2. QED
  BY InitInv, <1>1, PTL DEF Spec
-----------------------------------------------------------------------------
(* The theorems.                                                            *)

\* Every list a run builds holds records of virtual machines and pools, however the
\* pools are nested and changed, and no more pools are searched than were listed.
THEOREM TypeCorrect == Spec => []TypeOK
BY InductiveInv, PTL DEF IInv

\* No virtual machine is evaluated twice, although the views of GetVMsFromContainer
\* overlap and a machine may change pool, power state and tools between two of them.
THEOREM VMsEvaluatedOnce == Spec => []EvaluatedOnce
<1>1. IInv => EvaluatedOnce
  <2> SUFFICES ASSUME IInv PROVE EvaluatedOnce
    OBVIOUS
  <2>1. CASE stage \in {"power", "evaluate"} \/ Verdict
    BY <2>1 DEF IInv, Lists, Once, EvaluatedOnce
  <2>2. CASE filteredVMs = << >>
    BY <2>2 DEF EvaluatedOnce
  <2>3. QED
    BY <2>1, <2>2 DEF IInv, TypeOK, Progress, Verdict
<1>2. QED
  BY <1>1, InductiveInv, PTL

\* When nothing changes, the virtual machines evaluated are exactly those the flags
\* select, in the order of their names: no tree of pools, include list, exclude list or
\* ignore list loses one or adds one.
THEOREM QuietRunSelectsExactly == Spec => []QuietRunIsExact
<1>1. IInv => QuietRunIsExact
  <2> SUFFICES ASSUME IInv, Verdict, changes = 0
               PROVE  /\ {filteredVMs[i].vm : i \in DOMAIN filteredVMs} = Selected
                      /\ Sorted(filteredVMs)
    BY DEF QuietRunIsExact, Sorted
  <2>1. /\ viewed = Len(rps) /\ touched = {}
        /\ Elements(filteredVMs) = {r \in Elements(vms) : Kept(r)} /\ Sorted(filteredVMs)
        /\ {r.pool : r \in Elements(rps)} = Chosen /\ {r.vm : r \in Elements(vms)} = Searched
    BY DEF IInv, Progress, Lists, Quiet, Verdict
  <2>2. \A r \in Elements(vms) : r.vm \in VMs /\ r = Record(r.vm)
    BY <2>1, RecordsOfVMs DEF IInv, Current
  <2>3. \A v : Kept(Record(v)) <=> ~ InList(VMName[v], flags.ignored) /\ PowerOK(inv.power[v])
    BY DEF Kept, Record, Verdict
  <2>4. Elements(rps) = {rps[i] : i \in 1..viewed}
    BY <2>1 DEF IInv, TypeOK, Elements
  <2>5. Searched = UNION {Inside(p) : p \in Chosen}
    BY <2>1, <2>4 DEF Searched
  <2>6. Selected = {v \in Searched : Kept(Record(v))}
    BY <2>3, <2>5 DEF Selected, Chosen, Inside, Above
  <2>7. {r.vm : r \in Elements(filteredVMs)} = {v \in Searched : Kept(Record(v))}
    BY <2>1, <2>2
  <2>8. {filteredVMs[i].vm : i \in DOMAIN filteredVMs} = {r.vm : r \in Elements(filteredVMs)}
    BY DEF Elements
  <2>9. QED
    BY <2>1, <2>6, <2>7, <2>8
<1>2. QED
  BY <1>1, InductiveInv, PTL

LEMMA SteadyEvaluated ==
  ASSUME IInv, Verdict, NEW v \in VMs \ touched, NEW i \in DOMAIN rps,
         inv.pool[v] = rps[i].pool, ~ InList(VMName[v], flags.ignored), PowerOK(inv.power[v])
  PROVE  Record(v) \in Elements(filteredVMs)
<1>1. i \in 1..viewed
  BY DEF IInv, TypeOK, Progress
<1>2. Record(v) \in Elements(vms)
  BY <1>1 DEF IInv, Current
<1>3. Kept(Record(v))
  BY DEF Kept, Record
<1>4. QED
  BY <1>2, <1>3 DEF IInv, Lists

\* Whatever else is moved, renamed or destroyed between the requests, a virtual machine
\* that stays as it is in a pool that was listed is evaluated with its present state.
THEOREM NoSteadyVMMissed == Spec => []SteadyVMsEvaluated
<1>1. IInv => SteadyVMsEvaluated
  BY SteadyEvaluated DEF SteadyVMsEvaluated, Elements
<1>2. QED
  BY <1>1, InductiveInv, PTL

\* The verdict of check_vmware_tools misses no steady machine with bad tools, and is no
\* alert without a machine whose tools were seen to be bad.
THEOREM VerdictOfTools == Spec => []VerdictFollowsTools
<1>1. IInv => VerdictFollowsTools
  <2> SUFFICES ASSUME IInv, Verdict
               PROVE  /\ exitState = "OK" =>
                           \A v \in VMs \ touched, i \in DOMAIN rps :
                             /\ inv.pool[v] = rps[i].pool /\ PowerOK(inv.power[v])
                             /\ ~ InList(VMName[v], flags.ignored)
                             => inv.tools[v] = "toolsOk"
                      /\ exitState # "OK" =>
                           \E i \in DOMAIN filteredVMs : filteredVMs[i].tools # "toolsOk"
    BY DEF VerdictFollowsTools
  <2>1. exitState = "OK" <=> \A r \in Elements(filteredVMs) : r.tools = "toolsOk"
    BY DEF IInv, Evaluated
  <2>2. \A v : Record(v).tools = inv.tools[v]
    BY DEF Record
  <2>3. QED
    BY <2>1, <2>2, SteadyEvaluated DEF Elements
<1>2. QED
  BY <1>1, InductiveInv, PTL
=============================================================================
