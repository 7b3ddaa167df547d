------------------------- MODULE AlarmFilterProofs -------------------------
(***************************************************************************)
(* Proofs about AlarmFilter, for every population of alarms and every      *)
(* setting of the filter flags, and about the loop of a stage (FilterLoop) *)
(* for any number of comparisons.                                          *)
(***************************************************************************)
EXTENDS AlarmFilter, FilterLoop, FiniteSetTheorems, TLAPS

-----------------------------------------------------------------------------
(* The operations on marks yield marks.                                     *)

LEMMA HitsAndMissesAreMarks ==
  ASSUME NEW m \in Marks, NEW r \in Reasons
  PROVE  /\ IncludeHit(m) \in Marks
         /\ IncludeMiss(m, r) \in Marks
         /\ ExcludeHit(m, r) \in Marks
BY DEF Marks, IncludeHit, IncludeMiss, ExcludeHit

\* The outcomes of the first n + 1 comparisons are those of the first n and the next.
LEMMA OneMoreTest ==
  ASSUME NEW s \in Seq(BOOLEAN), NEW n \in Nat, n + 1 <= Len(s)
  PROVE  /\ SomeHit(s, n + 1) <=> SomeHit(s, n) \/ s[n + 1]
         /\ SomeMiss(s, n + 1) <=> SomeMiss(s, n) \/ ~ s[n + 1]
<1>1. 1..(n + 1) = (1..n) \cup {n + 1}
  OBVIOUS
<1>2. QED
  BY <1>1 DEF SomeHit, SomeMiss

-----------------------------------------------------------------------------
(* One iteration extends the closed form by one comparison.                 *)

LEMMA IncludeStep ==
  ASSUME NEW m \in Marks, NEW s \in Seq(BOOLEAN), NEW n \in Nat, n + 1 <= Len(s)
  PROVE  IncludeFirst(m, s, n + 1, StageReason) =
           IF s[n + 1] THEN IncludeHit(IncludeFirst(m, s, n, StageReason))
           ELSE IncludeMiss(IncludeFirst(m, s, n, StageReason), StageReason)
<1> DEFINE sofar == IncludeFirst(m, s, n, StageReason)
<1>1. /\ SomeHit(s, n + 1) <=> SomeHit(s, n) \/ s[n + 1]
      /\ SomeMiss(s, n + 1) <=> SomeMiss(s, n) \/ ~ s[n + 1]
  BY OneMoreTest
<1>2. n = 0 => ~ SomeHit(s, n) /\ ~ SomeMiss(s, n)
  BY DEF SomeHit, SomeMiss
<1>3. n > 0 => (SomeHit(s, n) \/ SomeMiss(s, n))
  BY DEF SomeHit, SomeMiss
<1>4. n > 0 /\ s[1] => SomeHit(s, n)
  BY DEF SomeHit
<1>4a. n > 0 /\ ~ s[1] => SomeMiss(s, n)
  BY DEF SomeMiss
<1>5. CASE m.ExplicitlyExcluded
  BY <1>1, <1>5 DEF IncludeFirst, IncludeHit, IncludeMiss, Marks
<1>6. CASE ~ m.ExplicitlyExcluded /\ SomeHit(s, n)
  <2>1. n > 0
    BY <1>2, <1>6
  <2>2. QED
    BY <1>1, <1>6, <2>1 DEF IncludeFirst, IncludeHit, IncludeMiss, Marks
<1>7. CASE ~ m.ExplicitlyExcluded /\ ~ SomeHit(s, n) /\ s[n + 1]
  <2>1. CASE n = 0
    <3>1. s[1] /\ ~ SomeHit(s, n) /\ ~ SomeMiss(s, n)
      BY <1>2, <1>7, <2>1
    <3>2. sofar = m
      BY <3>1 DEF IncludeFirst
    <3>3. QED
      BY <1>1, <1>7, <3>1, <3>2 DEF IncludeFirst, IncludeHit, Marks
  <2>2. CASE n > 0
    <3>1. SomeMiss(s, n) /\ ~ s[1]
      BY <1>3, <1>4, <1>7, <2>2
    <3>2. QED
      BY <1>1, <1>7, <2>2, <3>1 DEF IncludeFirst, IncludeHit, IncludeMiss, Marks
  <2>3. QED
    BY <2>1, <2>2
<1>8. CASE ~ m.ExplicitlyExcluded /\ ~ SomeHit(s, n) /\ ~ s[n + 1]
  BY <1>1, <1>8 DEF IncludeFirst, IncludeHit, IncludeMiss, Marks
<1>9. QED
  BY <1>5, <1>6, <1>7, <1>8

LEMMA ExcludeStep ==
  ASSUME NEW m \in Marks, NEW s \in Seq(BOOLEAN), NEW n \in Nat, n + 1 <= Len(s)
  PROVE  ExcludeFirst(m, s, n + 1, StageReason) =
           IF s[n + 1] THEN ExcludeHit(ExcludeFirst(m, s, n, StageReason), StageReason)
           ELSE ExcludeFirst(m, s, n, StageReason)
<1>1. SomeHit(s, n + 1) <=> SomeHit(s, n) \/ s[n + 1]
  BY OneMoreTest
<1>2. QED
  BY <1>1 DEF ExcludeFirst, ExcludeHit, Marks

-----------------------------------------------------------------------------
\* Type correctness of the loop: the outcomes are a sequence of Booleans, the marks are
\* marks, the index stays in or just past the loop.
THEOREM LoopTypeCorrect == LoopSpec => []LoopTypeOK
<1>1. LoopInit => LoopTypeOK
  <2>1. ASSUME NEW n \in 0..MaxTests, NEW f \in [1..n -> BOOLEAN]
        PROVE  f \in Seq(BOOLEAN) /\ Len(f) \in Nat
    BY <2>1, LoopAssumption
  <2>2. Outcomes \subseteq Seq(BOOLEAN)
    BY <2>1 DEF Outcomes
  <2>3. QED
    BY <2>2 DEF LoopInit, LoopTypeOK, ReachableMarks
<1>2. LoopTypeOK /\ [LoopNext]_loopVars => LoopTypeOK'
  <2> SUFFICES ASSUME LoopTypeOK, [LoopNext]_loopVars
               PROVE  LoopTypeOK'
    OBVIOUS
  <2>0. StageReason \in Reasons
    BY LoopAssumption
  <2>1. CASE TestInclude
    <3>1. IncludeHit(marks) \in Marks /\ IncludeMiss(marks, StageReason) \in Marks
      BY <2>0, HitsAndMissesAreMarks DEF LoopTypeOK
    <3>2. marks' \in Marks
      BY <2>1, <3>1 DEF TestInclude
    <3>3. QED
      BY <2>1, <3>2 DEF LoopTypeOK, TestInclude
  <2>2. CASE TestExclude
    <3>1. ExcludeHit(marks, StageReason) \in Marks /\ marks \in Marks
      BY <2>0, HitsAndMissesAreMarks DEF LoopTypeOK
    <3>2. marks' \in Marks
      BY <2>2, <3>1 DEF TestExclude
    <3>3. QED
      BY <2>2, <3>2 DEF LoopTypeOK, TestExclude
  <2>3. CASE UNCHANGED loopVars
    BY <2>3 DEF LoopTypeOK, loopVars
  <2>4. QED
    BY <2>1, <2>2, <2>3 DEF LoopNext
<1>3. QED
  BY <1>1, <1>2, PTL DEF LoopSpec

\* After each iteration the marks are those of the closed form that the
\* pipeline of AlarmFilter uses for a whole stage.
THEOREM LoopComputesClosedForm == LoopSpec => []LoopIsClosedForm
<1>1. LoopInit => LoopIsClosedForm
  BY DEF LoopInit, LoopIsClosedForm, IncludeFirst, ExcludeFirst, SomeHit, SomeMiss
<1>2. LoopTypeOK /\ LoopIsClosedForm /\ [LoopNext]_loopVars => LoopIsClosedForm'
  <2> SUFFICES ASSUME LoopTypeOK, LoopIsClosedForm, [LoopNext]_loopVars
               PROVE  LoopIsClosedForm'
    OBVIOUS
  <2>1. CASE TestInclude
    <3>1. /\ position - 1 \in Nat
          /\ (position - 1) + 1 = position
          /\ position' - 1 = (position - 1) + 1
          /\ (position - 1) + 1 <= Len(results)
      BY <2>1 DEF TestInclude, LoopTypeOK
    <3>2. before \in Marks /\ results \in Seq(BOOLEAN)
      BY DEF LoopTypeOK, ReachableMarks
    <3>3. QED
      BY <2>1, <3>1, <3>2, IncludeStep DEF TestInclude, LoopIsClosedForm
  <2>2. CASE TestExclude
    <3>1. /\ position - 1 \in Nat
          /\ (position - 1) + 1 = position
          /\ position' - 1 = (position - 1) + 1
          /\ (position - 1) + 1 <= Len(results)
      BY <2>2 DEF TestExclude, LoopTypeOK
    <3>2. before \in Marks /\ results \in Seq(BOOLEAN)
      BY DEF LoopTypeOK, ReachableMarks
    <3>3. QED
      BY <2>2, <3>1, <3>2, ExcludeStep DEF TestExclude, LoopIsClosedForm
  <2>3. CASE UNCHANGED loopVars
    BY <2>3 DEF LoopIsClosedForm, loopVars
  <2>4. QED
    BY <2>1, <2>2, <2>3 DEF LoopNext
<1>3. QED
  BY <1>1, <1>2, LoopTypeCorrect, PTL DEF LoopSpec

\* The verdict of a stage is a function of which comparisons succeed, not of
\* the order in which the keywords come.
THEOREM VerdictIgnoresKeywordOrder == LoopSpec => []KeywordOrderIrrelevant
<1>1. LoopTypeOK /\ LoopIsClosedForm => KeywordOrderIrrelevant
  <2> SUFFICES ASSUME LoopTypeOK, LoopIsClosedForm, position = Len(results) + 1
               PROVE  KeywordOrderIrrelevant
    BY DEF KeywordOrderIrrelevant
  <2>1. /\ before \in ReachableMarks /\ before \in Marks
        /\ results \in Seq(BOOLEAN)
        /\ position - 1 = Len(results)
        /\ DOMAIN results = 1..Len(results)
        /\ results = << >> <=> Len(results) = 0
    BY DEF LoopTypeOK, ReachableMarks
  <2>2. SomeHit(results, Len(results)) <=> \E i \in DOMAIN results : results[i]
    BY <2>1 DEF SomeHit
  <2>3. SomeMiss(results, Len(results)) <=> \E i \in DOMAIN results : ~results[i]
    BY <2>1 DEF SomeMiss
  <2>4. results = << >> <=> ~(\E i \in DOMAIN results : results[i])
                            /\ ~(\E i \in DOMAIN results : ~results[i])
    BY <2>1
  <2>5. CASE branch = "exclude"
    BY <2>1, <2>2, <2>5
       DEF LoopIsClosedForm, KeywordOrderIrrelevant, ExcludeFirst, ExcludeHit, Marks
  <2>6. CASE branch = "include"
    BY <2>1, <2>2, <2>3, <2>4, <2>6
       DEF LoopIsClosedForm, KeywordOrderIrrelevant, IncludeFirst, IncludeMiss,
           Marks, ReachableMarks
  <2>7. QED
    BY <2>5, <2>6 DEF LoopTypeOK
<1>2. QED
  BY <1>1, LoopTypeCorrect, LoopComputesClosedForm, PTL

-----------------------------------------------------------------------------
(* The pipeline: the comparisons of a stage.                                *)

AllRetrieved == [a \in Triggered |-> Retrieved(world[a])]

\* What a stage may read of an alarm.
Readable(al) == al.pools \in Seq(Texts \cup {NoPool})

LEMMA OneToNIsSeq ==
  ASSUME NEW n \in Nat, NEW f \in [1..n -> BOOLEAN]
  PROVE  f \in Seq(BOOLEAN) /\ Len(f) = n
OBVIOUS

LEMMA TestsAreBooleans ==
  ASSUME NEW l \in Lists, NEW al, Readable(al), NEW kws \in Seq(Texts)
  PROVE  /\ Tests(l, al, kws) \in Seq(BOOLEAN)
         /\ kws # << >> => Len(Tests(l, al, kws)) > 0
<1>1. ASSUME NEW field
      PROVE  /\ SubstringTests(field, kws) \in Seq(BOOLEAN)
             /\ Len(SubstringTests(field, kws)) = Len(kws)
  <2>1. \A i : MatchesSubstring(field, kws[i]) \in BOOLEAN
    BY DEF MatchesSubstring, EqualFold
  <2>2. SubstringTests(field, kws) \in [1..Len(kws) -> BOOLEAN]
    BY <2>1 DEF SubstringTests
  <2>3. QED
    BY <2>2, Len(kws) \in Nat, OneToNIsSeq
<1>2. /\ StatusTests(al, kws) \in Seq(BOOLEAN)
      /\ Len(StatusTests(al, kws)) = Len(kws)
  <2>1. \A i : EqualFold(al.status, kws[i]) \in BOOLEAN
    BY DEF EqualFold
  <2>2. StatusTests(al, kws) \in [1..Len(kws) -> BOOLEAN]
    BY <2>1 DEF StatusTests
  <2>3. QED
    BY <2>2, Len(kws) \in Nat, OneToNIsSeq
<1>3. /\ EntityTypeTests(al, kws) \in Seq(BOOLEAN)
      /\ Len(EntityTypeTests(al, kws)) = 1
  <2>1. InList(al.type, kws) \in BOOLEAN
    BY DEF InList
  <2>2. QED
    BY <2>1 DEF EntityTypeTests
<1>4. /\ ResourcePoolTests(al, kws) \in Seq(BOOLEAN)
      /\ Len(ResourcePoolTests(al, kws)) > 0
  <2>1. CASE al.pools = << >>
    BY <2>1 DEF ResourcePoolTests
  <2>2. CASE al.pools # << >>
    <3>1. Len(al.pools) \in Nat /\ Len(al.pools) > 0 /\ DOMAIN al.pools = 1..Len(al.pools)
      BY <2>2 DEF Readable
    <3>2. \A j : InList(al.pools[j], kws) \in BOOLEAN
      BY DEF InList
    <3>3. QED
      BY <2>2, <3>1, <3>2 DEF ResourcePoolTests
  <2>3. QED
    BY <2>1, <2>2
<1>5. kws # << >> => Len(kws) > 0
  OBVIOUS
<1>6. CASE l = "type"
  <2>1. Tests(l, al, kws) = EntityTypeTests(al, kws)
    BY <1>6 DEF Tests
  <2>2. QED
    BY <2>1, <1>3
<1>7. CASE l \in {"name", "description", "entityName"}
  <2>1. \E field : Tests(l, al, kws) = SubstringTests(field, kws)
    BY <1>7 DEF Tests
  <2>2. QED
    BY <2>1, <1>1, <1>5
<1>8. CASE l = "status"
  <2>1. Tests(l, al, kws) = StatusTests(al, kws)
    BY <1>8 DEF Tests
  <2>2. QED
    BY <2>1, <1>2, <1>5
<1>9. CASE l = "pool"
  <2>1. Tests(l, al, kws) = ResourcePoolTests(al, kws)
    BY <1>9 DEF Tests
  <2>2. QED
    BY <2>1, <1>4
<1>10. QED
  BY <1>6, <1>7, <1>8, <1>9 DEF Lists

LEMMA RetrievedIsReadable ==
  ASSUME NEW w \in AlarmStates
  PROVE  Readable(Retrieved(w))
<1>1. w.entityName \in Texts /\ w.pool \in Texts \cup {NoPool}
  BY AlarmAssumption
<1>2. getResourcePools(w) \in Seq(Texts \cup {NoPool})
  <2> DEFINE P == Texts \cup {NoPool}
  <2>1. /\ <<w.entityName, w.entityName>> \in Seq(P)
        /\ <<w.pool>> \in Seq(P)
        /\ << >> \in Seq(P)
    BY <1>1
  <2>2. getResourcePools(w) \in {<<w.entityName, w.entityName>>, <<w.pool>>, << >>}
    BY DEF getResourcePools
  <2>3. QED
    BY <2>1, <2>2
<1>3. QED
  BY <1>2 DEF Readable, Retrieved

-----------------------------------------------------------------------------
(* What a stage does to the marks of one alarm.                             *)

LEMMA IncludeAllMarks ==
  ASSUME NEW m \in Marks, NEW r \in Reasons, NEW t \in Seq(BOOLEAN), Len(t) > 0,
         NEW hit, hit <=> \E i \in DOMAIN t : t[i]
  PROVE  /\ IncludeAll(m, t, r) \in Marks
         /\ IncludeAll(m, t, r).ExplicitlyExcluded = m.ExplicitlyExcluded
         /\ IncludeAll(m, t, r).ExplicitlyIncluded
              <=> m.ExplicitlyIncluded \/ (hit /\ ~ m.ExplicitlyExcluded)
         /\ hit /\ ~ m.ExplicitlyExcluded => ~ IncludeAll(m, t, r).Exclude
         /\ ~ hit /\ ~ m.ExplicitlyIncluded => IncludeAll(m, t, r).Exclude
         /\ ~ hit /\ m.ExplicitlyIncluded => IncludeAll(m, t, r).Exclude = m.Exclude
         /\ m.ExplicitlyExcluded /\ m.Exclude => IncludeAll(m, t, r).Exclude
<1>1. DOMAIN t = 1..Len(t)
  OBVIOUS
<1>2. SomeHit(t, Len(t)) <=> hit
  BY <1>1 DEF SomeHit
<1>3. ~ hit => SomeMiss(t, Len(t))
  BY <1>1 DEF SomeMiss
<1>4. CASE hit /\ ~ m.ExplicitlyExcluded
  BY <1>2, <1>4 DEF IncludeAll, IncludeFirst, Marks
<1>5. CASE ~ (hit /\ ~ m.ExplicitlyExcluded)
  BY <1>2, <1>3, <1>5 DEF IncludeAll, IncludeFirst, IncludeMiss, Marks
<1>6. QED
  BY <1>4, <1>5

LEMMA ExcludeAllMarks ==
  ASSUME NEW m \in Marks, NEW r \in Reasons, NEW t \in Seq(BOOLEAN),
         NEW hit, hit <=> \E i \in DOMAIN t : t[i]
  PROVE  /\ ExcludeAll(m, t, r) \in Marks
         /\ ExcludeAll(m, t, r).ExplicitlyExcluded <=> m.ExplicitlyExcluded \/ hit
         /\ ExcludeAll(m, t, r).Exclude <=> m.Exclude \/ hit
         /\ ExcludeAll(m, t, r).ExplicitlyIncluded = m.ExplicitlyIncluded
<1>1. SomeHit(t, Len(t)) <=> hit
  BY DEF SomeHit
<1>2. QED
  BY <1>1 DEF ExcludeAll, ExcludeFirst, ExcludeHit, Marks

-----------------------------------------------------------------------------
(* The stages that have run.                                                *)

LEMMA NextStage ==
  ASSUME NEW s \in Lists \cup {AckReason}, stage = s,
         stage' \in {t \in DOMAIN Rank : Rank[t] = Rank[stage] + 1}
  PROVE  /\ \A r \in Lists \cup {AckReason} : Ran(r)' <=> Ran(r) \/ r = s
         /\ ~ Ran(s)
         /\ stage' \notin {"retrieve", "done"}
         /\ stage' \in DOMAIN Rank
BY DEF Lists, AckReason, Ran, Rank

\* An empty keyword list matches nothing.
LEMMA EmptyListMatchesNothing ==
  ASSUME NEW l \in Lists, NEW al
  PROVE  ~ AnyMatch(l, al, << >>)
<1>1. \A x : ~ InList(x, << >>)
  BY DEF InList
<1>2. \A field : DOMAIN SubstringTests(field, << >>) = {}
  BY DEF SubstringTests
<1>3. DOMAIN StatusTests(al, << >>) = {}
  BY DEF StatusTests
<1>4. ASSUME NEW i \in DOMAIN EntityTypeTests(al, << >>)
      PROVE  ~ EntityTypeTests(al, << >>)[i]
  BY <1>1 DEF EntityTypeTests
<1>5. ASSUME NEW i \in DOMAIN ResourcePoolTests(al, << >>)
      PROVE  ~ ResourcePoolTests(al, << >>)[i]
  <2>1. CASE al.pools = << >>
    <3>1. ResourcePoolTests(al, << >>) = << FALSE >>
      BY <2>1 DEF ResourcePoolTests
    <3>2. i = 1 /\ << FALSE >>[1] = FALSE
      BY <1>5, <3>1
    <3>3. QED
      BY <3>1, <3>2
  <2>2. CASE al.pools # << >>
    <3>1. ResourcePoolTests(al, << >>) = [j \in DOMAIN al.pools |-> InList(al.pools[j], << >>)]
      BY <2>2 DEF ResourcePoolTests
    <3>2. QED
      BY <1>1, <1>5, <3>1
  <2>3. QED
    BY <2>1, <2>2
<1>6. CASE l = "type"
  BY <1>4, <1>6 DEF AnyMatch, Tests
<1>7. CASE l \in {"name", "description", "entityName"}
  BY <1>2, <1>7 DEF AnyMatch, Tests
<1>8. CASE l = "status"
  BY <1>3, <1>8 DEF AnyMatch, Tests
<1>9. CASE l = "pool"
  BY <1>5, <1>9 DEF AnyMatch, Tests
<1>10. QED
  BY <1>6, <1>7, <1>8, <1>9 DEF Lists

-----------------------------------------------------------------------------
(* The inductive invariant.                                                 *)

\* The collection is what was retrieved, from the retrieval to the end.
Retrieval ==
  /\ stage = "retrieve" => alarm = << >> /\ mark = << >>
  /\ stage \notin {"retrieve", "done"} => alarm = AllRetrieved

\* A stage with keyword lists keeps the marks of an alarm explained.
LEMMA StageExplains ==
  ASSUME TypeOK, MarksExplained,
         NEW l \in Lists, AtStage(l),
         NEW a \in DOMAIN mark, Readable(alarm[a]), NEW m, m = StageMark(l, a),
         mark'[a] = m
  PROVE  m \in Marks /\ Explained(a)'
<1> DEFINE incl == filters.include[l]
           excl == filters.exclude[l]
           hitI == AnyMatch(l, alarm[a], incl)
           hitE == AnyMatch(l, alarm[a], excl)
           drop == ExplicitlyExcludedSoFar(a)
           inn == IncludedSoFar(a)
           some == SomeIncludeListSoFar
<1>1. /\ incl \in Seq(Texts) /\ excl \in Seq(Texts)
      /\ mark[a] \in Marks
      /\ filters' = filters /\ alarm' = alarm
  BY DEF TypeOK, Flags, KeywordLists, AtStage
<1>2. /\ \A r \in Lists \cup {AckReason} : Ran(r)' <=> Ran(r) \/ r = l
      /\ ~ Ran(l)
  BY NextStage DEF AtStage
<1>3. /\ drop' <=> drop \/ (incl = << >> /\ hitE)
      /\ inn' <=> inn \/ hitI
      /\ some' <=> some \/ incl # << >>
  <2>1. AckReason # l
    BY DEF AckReason, Lists
  <2>2. QED
    BY <1>1, <1>2, <2>1 DEF ExplicitlyExcludedSoFar, IncludedSoFar, SomeIncludeListSoFar
<1>4. l \in Reasons
  BY ReasonsAssumption
<1>5. Explained(a)
  BY DEF MarksExplained
<1>6. CASE incl # << >>
  <2> DEFINE t == Tests(l, alarm[a], incl)
  <2>1. t \in Seq(BOOLEAN) /\ Len(t) > 0
    BY <1>1, <1>6, TestsAreBooleans
  <2>2. hitI <=> \E i \in DOMAIN t : t[i]
    BY DEF AnyMatch
  <2>3. m = IncludeAll(mark[a], t, l)
    BY <1>6 DEF StageMark
  <2> HIDE DEF t, hitI, hitE, drop, inn, some
  <2>4. /\ m \in Marks
        /\ m.ExplicitlyExcluded = mark[a].ExplicitlyExcluded
        /\ m.ExplicitlyIncluded
              <=> mark[a].ExplicitlyIncluded \/ (hitI /\ ~ mark[a].ExplicitlyExcluded)
        /\ hitI /\ ~ mark[a].ExplicitlyExcluded => ~ m.Exclude
        /\ ~ hitI /\ ~ mark[a].ExplicitlyIncluded => m.Exclude
        /\ ~ hitI /\ mark[a].ExplicitlyIncluded => m.Exclude = mark[a].Exclude
        /\ mark[a].ExplicitlyExcluded /\ mark[a].Exclude => m.Exclude
    BY <1>1, <1>4, <2>1, <2>2, <2>3, IncludeAllMarks
  <2>5. /\ mark[a].ExplicitlyExcluded <=> drop
        /\ mark[a].Exclude <=> drop \/ (some /\ ~ inn)
        /\ mark[a].ExplicitlyIncluded => inn
        /\ inn /\ ~ drop => mark[a].ExplicitlyIncluded
    BY <1>5 DEF Explained, drop, inn, some
  <2>6. /\ m.ExplicitlyExcluded <=> drop'
        /\ m.Exclude <=> drop' \/ (some' /\ ~ inn')
        /\ m.ExplicitlyIncluded => inn'
        /\ inn' /\ ~ drop' => m.ExplicitlyIncluded
    BY <1>3, <1>6, <2>4, <2>5
  <2>7. QED
    BY <2>4, <2>6 DEF Explained, drop, inn, some
<1>7. CASE incl = << >>
  <2>1. ~ hitI /\ (excl = << >> => ~ hitE)
    BY <1>7, EmptyListMatchesNothing
  <2> DEFINE t == Tests(l, alarm[a], excl)
  <2>2. t \in Seq(BOOLEAN)
    BY <1>1, TestsAreBooleans
  <2>3. hitE <=> \E i \in DOMAIN t : t[i]
    BY DEF AnyMatch
  <2>4. m = IF excl # << >> THEN ExcludeAll(mark[a], t, l) ELSE mark[a]
    BY <1>7 DEF StageMark
  <2> HIDE DEF t, hitI, hitE, drop, inn, some
  <2>5. /\ m \in Marks
        /\ m.ExplicitlyExcluded <=> mark[a].ExplicitlyExcluded \/ hitE
        /\ m.Exclude <=> mark[a].Exclude \/ hitE
        /\ m.ExplicitlyIncluded = mark[a].ExplicitlyIncluded
    BY <1>1, <1>4, <2>1, <2>2, <2>3, <2>4, ExcludeAllMarks
  <2>6. /\ mark[a].ExplicitlyExcluded <=> drop
        /\ mark[a].Exclude <=> drop \/ (some /\ ~ inn)
        /\ mark[a].ExplicitlyIncluded => inn
        /\ inn /\ ~ drop => mark[a].ExplicitlyIncluded
    BY <1>5 DEF Explained, drop, inn, some
  <2>7. /\ m.ExplicitlyExcluded <=> drop'
        /\ m.Exclude <=> drop' \/ (some' /\ ~ inn')
        /\ m.ExplicitlyIncluded => inn'
        /\ inn' /\ ~ drop' => m.ExplicitlyIncluded
    BY <1>3, <1>7, <2>1, <2>5, <2>6
  <2>8. QED
    BY <2>5, <2>7 DEF Explained, drop, inn, some
<1>8. QED
  BY <1>6, <1>7

LEMMA AcknowledgedExplains ==
  ASSUME TypeOK, MarksExplained, FilterByAcknowledgedState, NEW a \in DOMAIN mark
  PROVE  mark'[a] \in Marks /\ Explained(a)'
<1> DEFINE acked == alarm[a].acknowledged /\ ~ filters.evalAcknowledged
           drop == ExplicitlyExcludedSoFar(a)
           inn == IncludedSoFar(a)
           some == SomeIncludeListSoFar
<1>1. /\ mark[a] \in Marks
      /\ filters' = filters /\ alarm' = alarm
      /\ mark'[a] = IF acked THEN ExcludeHit(mark[a], AckReason) ELSE mark[a]
  BY DEF TypeOK, FilterByAcknowledgedState, AtStage
<1>2. /\ \A r \in Lists \cup {AckReason} : Ran(r)' <=> Ran(r) \/ r = AckReason
      /\ ~ Ran(AckReason)
  BY NextStage DEF AtStage, FilterByAcknowledgedState
<1>3. (drop' <=> drop \/ acked) /\ (inn' <=> inn) /\ (some' <=> some)
  <2>1. AckReason \notin Lists
    BY DEF AckReason, Lists
  <2>2. QED
    BY <1>1, <1>2, <2>1 DEF ExplicitlyExcludedSoFar, IncludedSoFar, SomeIncludeListSoFar
<1>4. AckReason \in Reasons
  BY ReasonsAssumption
<1>5. Explained(a)
  BY DEF MarksExplained
<1> HIDE DEF acked, drop, inn, some
<1>6. /\ mark[a].ExplicitlyExcluded <=> drop
      /\ mark[a].Exclude <=> drop \/ (some /\ ~ inn)
      /\ mark[a].ExplicitlyIncluded => inn
      /\ inn /\ ~ drop => mark[a].ExplicitlyIncluded
  BY <1>5 DEF Explained, drop, inn, some
<1>7. /\ mark'[a] \in Marks
      /\ mark'[a].ExplicitlyExcluded <=> drop'
      /\ mark'[a].Exclude <=> drop' \/ (some' /\ ~ inn')
      /\ mark'[a].ExplicitlyIncluded => inn'
      /\ inn' /\ ~ drop' => mark'[a].ExplicitlyIncluded
  BY <1>1, <1>3, <1>4, <1>6 DEF ExcludeHit, Marks
<1>8. QED
  BY <1>7 DEF Explained, drop, inn, some

\* The stages with keyword lists, as one.
LEMMA StageOfFilter ==
  ASSUME Filter, ~ FilterByAcknowledgedState
  PROVE  \E l \in Lists : /\ AtStage(l)
                          /\ mark' = [a \in DOMAIN mark |-> StageMark(l, a)]
BY DEF Filter, filterByEntityType, filterBySubstring, filterByStatus,
       filterByEntityResourcePool, Lists

LEMMA FilterKeepsType ==
  ASSUME TypeOK, Retrieval, MarksExplained, Filter
  PROVE  TypeOK' /\ Retrieval' /\ MarksExplained'
<1>1. PICK s \in Lists \cup {AckReason} : AtStage(s)
  BY StageOfFilter DEF FilterByAcknowledgedState
<1>2. /\ UNCHANGED <<world, filters, alarm, exitState, lastError, report>>
      /\ stage \notin {"retrieve", "done"}
      /\ stage' \in DOMAIN Rank /\ stage' \notin {"retrieve", "done"}
  BY <1>1, NextStage DEF AtStage, Lists, AckReason
<1>3. DOMAIN mark' = DOMAIN mark
  BY StageOfFilter DEF FilterByAcknowledgedState
<1>4. alarm = AllRetrieved
  BY <1>2 DEF Retrieval
<1>5. \A a \in DOMAIN mark : mark'[a] \in Marks /\ Explained(a)'
  <2>1. CASE FilterByAcknowledgedState
    BY <2>1, AcknowledgedExplains
  <2>2. CASE ~ FilterByAcknowledgedState
    <3>1. PICK l \in Lists : /\ AtStage(l)
                            /\ mark' = [a \in DOMAIN mark |-> StageMark(l, a)]
      BY <2>2, StageOfFilter
    <3>2. ASSUME NEW a \in DOMAIN mark
          PROVE  mark'[a] \in Marks /\ Explained(a)'
      <4>1. Readable(alarm[a])
        BY <1>4, RetrievedIsReadable DEF TypeOK, AllRetrieved
      <4>2. mark'[a] = StageMark(l, a)
        BY <3>1
      <4>3. QED
        BY <3>1, <4>1, <4>2, StageExplains
    <3>3. QED
      BY <3>2
  <2>3. QED
    BY <2>1, <2>2
<1>6. TypeOK'
  BY <1>2, <1>3, <1>5 DEF TypeOK, Triggered
<1>7. Retrieval'
  BY <1>2, <1>4 DEF Retrieval, AllRetrieved, Triggered
<1>8. QED
  BY <1>3, <1>5, <1>6, <1>7 DEF MarksExplained

LEMMA GetKeepsType ==
  ASSUME TypeOK, Retrieval, MarksExplained, GetTriggeredAlarms
  PROVE  TypeOK' /\ Retrieval' /\ MarksExplained'
<1>1. /\ UNCHANGED <<world, filters, exitState, lastError, report>>
      /\ alarm' = AllRetrieved /\ mark' = [a \in Triggered |-> Unmarked]
      /\ stage' \in {AckReason, "evaluate"}
      /\ Triggered # {} => stage' = AckReason
  BY DEF GetTriggeredAlarms, AllRetrieved
<1>2. Unmarked \in Marks
  BY DEF Unmarked, Marks
<1>3. TypeOK'
  BY <1>1, <1>2 DEF TypeOK, Triggered, AllRetrieved, Rank, AckReason
<1>4. Retrieval'
  BY <1>1 DEF Retrieval, AllRetrieved, Triggered, AckReason
<1>5. ASSUME NEW a \in DOMAIN mark'
      PROVE  Explained(a)'
  <2>1. stage' = AckReason
    BY <1>1, <1>5
  <2>2. \A r \in Lists \cup {AckReason} : ~ Ran(r)'
    BY <2>1 DEF Ran, Rank, Lists, AckReason
  <2>3. mark'[a] = Unmarked
    BY <1>1, <1>5
  <2>4. ~ ExplicitlyExcludedSoFar(a)' /\ ~ IncludedSoFar(a)' /\ ~ SomeIncludeListSoFar'
    BY <2>2 DEF ExplicitlyExcludedSoFar, IncludedSoFar, SomeIncludeListSoFar
  <2>5. QED
    BY <2>3, <2>4 DEF Explained, Unmarked
<1>6. QED
  BY <1>3, <1>4, <1>5 DEF MarksExplained

LEMMA FetchErrorKeepsType ==
  ASSUME TypeOK, Retrieval, MarksExplained, FetchAlarmsError
  PROVE  TypeOK' /\ Retrieval' /\ MarksExplained'
<1>1. /\ UNCHANGED <<world, filters, alarm, mark, report>>
      /\ stage' = "done" /\ exitState' = "CRITICAL" /\ lastError' = TRUE
      /\ mark = << >>
  BY DEF FetchAlarmsError, Retrieval
<1>2. TypeOK'
  BY <1>1 DEF TypeOK, Triggered, Rank
<1>3. QED
  BY <1>1, <1>2 DEF MarksExplained, Retrieval

LEMMA EvaluateKeepsType ==
  ASSUME TypeOK, Retrieval, MarksExplained, Evaluate
  PROVE  TypeOK' /\ Retrieval' /\ MarksExplained'
<1>1. /\ UNCHANGED <<world, filters, alarm, mark>>
      /\ stage = "evaluate" /\ stage' = "done"
      /\ exitState' \in {"OK", "WARNING", "CRITICAL", "UNKNOWN"} /\ lastError' \in BOOLEAN
  BY DEF Evaluate, IsOKState, HasState
<1>2. TypeOK'
  BY <1>1 DEF TypeOK, Triggered, Rank
<1>3. \A r \in Lists \cup {AckReason} : Ran(r)' <=> Ran(r)
  BY <1>1 DEF Ran, Rank, Lists, AckReason
<1>4. ASSUME NEW a
      PROVE  Explained(a)' <=> Explained(a)
  BY <1>1, <1>3
     DEF Explained, ExplicitlyExcludedSoFar, IncludedSoFar, SomeIncludeListSoFar
<1>5. QED
  BY <1>1, <1>2, <1>4 DEF MarksExplained, Retrieval

IInv == TypeOK /\ Retrieval /\ MarksExplained

LEMMA InitHolds == Init => IInv
<1> SUFFICES ASSUME Init PROVE IInv
  OBVIOUS
<1>1. Triggered \subseteq Alarms /\ world \in [Triggered -> AlarmStates]
  BY DEF Init, Triggered
<1>2. filters \in Flags
  BY AlarmAssumption DEF Init
<1>3. mark = << >> /\ alarm = << >> /\ DOMAIN mark = {}
  BY DEF Init
<1>4. QED
  BY <1>1, <1>2, <1>3 DEF Init, IInv, TypeOK, Retrieval, MarksExplained, Rank

LEMMA StepKeeps == IInv /\ [Next]_vars => IInv'
<1> SUFFICES ASSUME IInv, [Next]_vars PROVE IInv'
  OBVIOUS
<1>1. CASE GetTriggeredAlarms
  BY <1>1, GetKeepsType DEF IInv
<1>2. CASE FetchAlarmsError
  BY <1>2, FetchErrorKeepsType DEF IInv
<1>3. CASE Filter
  BY <1>3, FilterKeepsType DEF IInv
<1>4. CASE Evaluate
  BY <1>4, EvaluateKeepsType DEF IInv
<1>5. CASE UNCHANGED vars
  BY <1>5 DEF vars, IInv, TypeOK, Retrieval, MarksExplained, Explained, Triggered,
     ExplicitlyExcludedSoFar, IncludedSoFar, SomeIncludeListSoFar, Ran, AllRetrieved
<1>6. QED
  BY <1>1, <1>2, <1>3, <1>4, <1>5 DEF Next

LEMMA Invariance == Spec => []IInv
BY InitHolds, StepKeeps, PTL DEF Spec

-----------------------------------------------------------------------------
(* Safety.                                                                  *)

\* Every variable keeps its type, whatever alarms vSphere reports and whatever
\* flags are given.
THEOREM TypeCorrect == Spec => []TypeOK
<1>1. IInv => TypeOK
  BY DEF IInv
<1>2. QED
  BY Invariance, <1>1, PTL

\* At every point of the pipeline the marks on an alarm are what the stages that
\* have run say of it (Filter, alarms.go).
THEOREM MarksAlwaysExplained == Spec => []MarksExplained
<1>1. IInv => MarksExplained
  BY DEF IInv
<1>2. QED
  BY Invariance, <1>1, PTL

\* What one step does to the mark on an alarm.
LEMMA StepOnMark ==
  ASSUME IInv, [Next]_vars, NEW a \in DOMAIN mark
  PROVE  \/ a \in DOMAIN mark' /\ mark'[a] = mark[a]
         \/ /\ Filter
            /\ a \in DOMAIN mark'
            /\ mark'[a] \in Marks
            /\ \/ mark'[a] = ExcludeHit(mark[a], AckReason)
               \/ \E l \in Lists : AtStage(l) /\ mark'[a] = StageMark(l, a)
<1>1. CASE Filter
  <2>1. a \in DOMAIN mark' /\ mark'[a] \in Marks
    <3>1. TypeOK'
      BY StepKeeps DEF IInv
    <3>2. DOMAIN mark' = DOMAIN mark
      BY <1>1, StageOfFilter DEF FilterByAcknowledgedState
    <3>3. QED
      BY <3>1, <3>2 DEF TypeOK
  <2>2. CASE FilterByAcknowledgedState
    BY <1>1, <2>1, <2>2 DEF FilterByAcknowledgedState
  <2>3. CASE ~ FilterByAcknowledgedState
    BY <1>1, <2>1, <2>3, StageOfFilter
  <2>4. QED
    BY <2>2, <2>3
<1>2. CASE ~ Filter
  <2>1. ~ GetTriggeredAlarms
    BY DEF IInv, Retrieval, GetTriggeredAlarms
  <2>2. mark' = mark
    BY <1>2, <2>1 DEF Next, FetchAlarmsError, Evaluate, vars
  <2>3. QED
    BY <2>2
<1>3. QED
  BY <1>1, <1>2

\* The alarms a stage of the pipeline reads are what was retrieved.
LEMMA StageReads ==
  ASSUME IInv, NEW l \in Lists, AtStage(l), NEW a \in DOMAIN mark
  PROVE  /\ Readable(alarm[a]) /\ mark[a] \in Marks /\ l \in Reasons
         /\ filters.include[l] \in Seq(Texts) /\ filters.exclude[l] \in Seq(Texts)
<1>1. alarm = AllRetrieved
  BY DEF IInv, Retrieval, AtStage, Lists
<1>2. Readable(alarm[a])
  BY <1>1, RetrievedIsReadable DEF IInv, TypeOK, AllRetrieved
<1>3. QED
  BY <1>2, ReasonsAssumption DEF IInv, TypeOK, Flags, KeywordLists

\* No stage undoes an explicit exclusion.
LEMMA ExclusionStands ==
  ASSUME IInv, [Next]_vars, NEW a \in DOMAIN mark, mark[a].ExplicitlyExcluded
  PROVE  a \in DOMAIN mark' /\ mark'[a].ExplicitlyExcluded /\ mark'[a].Exclude
<1>1. mark[a].Exclude /\ mark[a] \in Marks
  BY DEF IInv, TypeOK, MarksExplained, Explained
<1>2. CASE a \in DOMAIN mark' /\ mark'[a] = mark[a]
  BY <1>1, <1>2
<1>3. CASE a \in DOMAIN mark' /\ mark'[a] = ExcludeHit(mark[a], AckReason)
  BY <1>1, <1>3 DEF ExcludeHit, Marks
<1>4. ASSUME a \in DOMAIN mark', NEW l \in Lists, AtStage(l), mark'[a] = StageMark(l, a)
      PROVE  mark'[a].ExplicitlyExcluded /\ mark'[a].Exclude
  <2>1. CASE filters.include[l] # << >>
    <3> DEFINE t == Tests(l, alarm[a], filters.include[l])
    <3>1. mark'[a] = IncludeAll(mark[a], t, l)
      BY <1>4, <2>1 DEF StageMark
    <3>2. t \in Seq(BOOLEAN) /\ Len(t) > 0
      BY <1>4, <2>1, StageReads, TestsAreBooleans
    <3>3. l \in Reasons
      BY <1>4, StageReads
    <3> HIDE DEF t
    <3>4. PICK hit \in BOOLEAN : hit <=> \E i \in DOMAIN t : t[i]
      OBVIOUS
    <3>5. QED
      BY <1>1, <3>1, <3>2, <3>3, <3>4, IncludeAllMarks
  <2>2. CASE filters.include[l] = << >>
    <3> DEFINE t == Tests(l, alarm[a], filters.exclude[l])
    <3>1. mark'[a] = mark[a] \/ mark'[a] = ExcludeAll(mark[a], t, l)
      BY <1>4, <2>2 DEF StageMark
    <3>2. t \in Seq(BOOLEAN)
      BY <1>4, <2>2, StageReads, TestsAreBooleans
    <3>3. l \in Reasons
      BY <1>4, StageReads
    <3> HIDE DEF t
    <3>4. PICK hit \in BOOLEAN : hit <=> \E i \in DOMAIN t : t[i]
      OBVIOUS
    <3>5. QED
      BY <1>1, <3>1, <3>2, <3>3, <3>4, ExcludeAllMarks
  <2>3. QED
    BY <2>1, <2>2
<1>5. QED
  BY <1>2, <1>3, <1>4, StepOnMark

\* Explicit exclusions have precedence over inclusions in every later stage.
THEOREM ExclusionIsPermanent == Spec => ExplicitExclusionIsPermanent
<1> DEFINE Stands == \A a \in DOMAIN mark : mark[a].ExplicitlyExcluded =>
                          /\ a \in DOMAIN mark'
                          /\ mark'[a].ExplicitlyExcluded
                          /\ mark'[a].Exclude
<1>1. IInv /\ [Next]_vars => [Stands]_vars
  BY ExclusionStands
<1>2. ExplicitExclusionIsPermanent <=> [][Stands]_vars
  BY DEF ExplicitExclusionIsPermanent
<1> HIDE DEF Stands
<1>3. QED
  BY Invariance, <1>1, <1>2, PTL DEF Spec

LEMMA InclusionStands ==
  ASSUME IInv, [Next]_vars, NEW a \in DOMAIN mark,
         mark[a].ExplicitlyIncluded, ~ mark[a].Exclude, mark'[a].Exclude
  PROVE  mark'[a].ExplicitlyExcluded
<1>1. mark[a] \in Marks
  BY DEF IInv, TypeOK
<1>2. CASE mark'[a] = mark[a]
  BY <1>2
<1>3. CASE mark'[a] = ExcludeHit(mark[a], AckReason)
  BY <1>1, <1>3 DEF ExcludeHit, Marks
<1>4. ASSUME NEW l \in Lists, AtStage(l), mark'[a] = StageMark(l, a)
      PROVE  mark'[a].ExplicitlyExcluded
  <2>1. CASE filters.include[l] # << >>
    <3> DEFINE t == Tests(l, alarm[a], filters.include[l])
    <3>1. mark'[a] = IncludeAll(mark[a], t, l)
      BY <1>4, <2>1 DEF StageMark
    <3>2. t \in Seq(BOOLEAN) /\ Len(t) > 0
      BY <1>4, <2>1, StageReads, TestsAreBooleans
    <3>3. l \in Reasons
      BY <1>4, StageReads
    <3> HIDE DEF t
    <3>4. PICK hit \in BOOLEAN : hit <=> \E i \in DOMAIN t : t[i]
      OBVIOUS
    <3>5. /\ hit /\ ~ mark[a].ExplicitlyExcluded => ~ IncludeAll(mark[a], t, l).Exclude
          /\ ~ hit /\ mark[a].ExplicitlyIncluded
                => IncludeAll(mark[a], t, l).Exclude = mark[a].Exclude
          /\ IncludeAll(mark[a], t, l).ExplicitlyExcluded = mark[a].ExplicitlyExcluded
      BY <1>1, <3>2, <3>3, <3>4, IncludeAllMarks
    <3>6. QED
      BY <3>1, <3>5
  <2>2. CASE filters.include[l] = << >>
    <3> DEFINE t == Tests(l, alarm[a], filters.exclude[l])
    <3>1. mark'[a] = mark[a] \/ mark'[a] = ExcludeAll(mark[a], t, l)
      BY <1>4, <2>2 DEF StageMark
    <3>2. t \in Seq(BOOLEAN)
      BY <1>4, <2>2, StageReads, TestsAreBooleans
    <3>3. l \in Reasons
      BY <1>4, StageReads
    <3> HIDE DEF t
    <3>4. PICK hit \in BOOLEAN : hit <=> \E i \in DOMAIN t : t[i]
      OBVIOUS
    <3>5. QED
      BY <1>1, <3>1, <3>2, <3>3, <3>4, ExcludeAllMarks
  <2>3. QED
    BY <2>1, <2>2
<1>5. QED
  BY <1>2, <1>3, <1>4, StepOnMark

\* An explicit inclusion is lost to nothing but an exclude list or the
\* acknowledgement.
THEOREM InclusionIsKept == Spec => InclusionLostOnlyToExclusion
<1> DEFINE Stands == \A a \in DOMAIN mark :
                       mark[a].ExplicitlyIncluded /\ ~ mark[a].Exclude /\ mark'[a].Exclude
                         => mark'[a].ExplicitlyExcluded
<1>1. IInv /\ [Next]_vars => [Stands]_vars
  BY InclusionStands
<1>2. InclusionLostOnlyToExclusion <=> [][Stands]_vars
  BY DEF InclusionLostOnlyToExclusion
<1> HIDE DEF Stands
<1>3. QED
  BY Invariance, <1>1, <1>2, PTL DEF Spec

-----------------------------------------------------------------------------
(* The verdict.                                                             *)

Left == {a \in DOMAIN mark : ~ mark[a].Exclude}

\* The two ways of counting agree: NumExcluded looks at both flags, the lists of
\* the report at Exclude alone.
LEMMA CountsAgree ==
  ASSUME IInv
  PROVE  /\ IsFiniteSet(DOMAIN mark) /\ IsFiniteSet(Left)
         /\ NumToReport = Cardinality(Left)
         /\ NumToReport = 0 <=> Left = {}
         /\ NumExcluded = 0 <=> Left = DOMAIN mark
<1> DEFINE S == DOMAIN mark
           out == {a \in S : mark[a].ExplicitlyExcluded \/ mark[a].Exclude}
<1>1. IsFiniteSet(S)
  <2>1. S \subseteq Alarms
    BY DEF IInv, TypeOK, Retrieved
  <2>2. QED
    BY <2>1, FS_Subset, AlarmAssumption
<1>2. out = {a \in S : mark[a].Exclude} /\ out \subseteq S /\ Left = S \ out
  BY DEF Left, IInv, MarksExplained, Explained
<1>3. IsFiniteSet(out) /\ IsFiniteSet(Left) /\ Left \subseteq S
  BY <1>1, <1>2, FS_Subset
<1>4. NumExcluded = Cardinality(out)
  BY DEF NumExcluded
<1> HIDE DEF out
<1>5. Cardinality(S \ out) = Cardinality(S) - Cardinality(S \cap out) /\ S \cap out = out
  BY <1>1, <1>2, <1>3, FS_Difference
<1>6. NumToReport = Cardinality(Left)
  BY <1>2, <1>4, <1>5 DEF NumToReport
<1>7. (Cardinality(Left) = 0 <=> Left = {}) /\ (Cardinality(out) = 0 <=> out = {})
  BY <1>3, FS_EmptySet
<1>8. out = {} <=> Left = S
  BY <1>2
<1>9. QED
  BY <1>1, <1>3, <1>4, <1>6, <1>7, <1>8

LEMMA ReportLists ==
  ASSUME IInv
  PROVE  /\ AlarmsReport.listed = Left
         /\ DOMAIN AlarmsReport.excluded = DOMAIN mark \ Left
         /\ IsOKState <=> \A a \in Left : EntityStatusToNagiosState(alarm[a].status) = "OK"
         /\ AlarmsReport.count = IF IsOKState THEN 0 ELSE Cardinality(Left)
<1>1. AlarmsReport.listed = IF NumToReport = 0 THEN {} ELSE Left
  BY DEF AlarmsReport, Left
<1>2. AlarmsReport.excluded = IF NumExcluded = 0 THEN << >>
                              ELSE [a \in {b \in DOMAIN mark : mark[b].Exclude} |-> mark[a].ExcludeReason]
  BY DEF AlarmsReport
<1>3. {b \in DOMAIN mark : mark[b].Exclude} = DOMAIN mark \ Left
  BY DEF Left
<1>4. AlarmsReport.count = IF IsOKState THEN 0 ELSE NumToReport
  BY DEF AlarmsReport
<1>5. DOMAIN << >> = {}
  OBVIOUS
<1>6. IsOKState <=> \A a \in Left : EntityStatusToNagiosState(alarm[a].status) = "OK"
  BY DEF IsOKState, HasState, Left, EntityStatusToNagiosState, IInv, TypeOK
<1>7. DOMAIN AlarmsReport.excluded = DOMAIN mark \ Left
  <2>1. CASE NumExcluded = 0
    <3>1. Left = DOMAIN mark /\ AlarmsReport.excluded = << >>
      BY <1>2, <2>1, CountsAgree
    <3>2. QED
      BY <1>5, <3>1
  <2>2. CASE NumExcluded # 0
    BY <1>2, <1>3, <2>2
  <2>3. QED
    BY <2>1, <2>2
<1>8. QED
  BY <1>1, <1>4, <1>6, <1>7, CountsAgree

\* How a run of the plugin ends.
Failed == alarm = << >> /\ report = NoReport /\ lastError = TRUE /\ exitState = "CRITICAL"

Evaluated ==
  /\ alarm = AllRetrieved
  /\ report = AlarmsReport
  /\ lastError = ~ IsOKState
  /\ exitState = IF HasState("CRITICAL") THEN "CRITICAL"
                 ELSE IF HasState("WARNING") THEN "WARNING"
                 ELSE IF HasState("UNKNOWN") THEN "UNKNOWN"
                 ELSE "OK"

Outcome ==
  IF stage = "done" THEN Failed \/ Evaluated
  ELSE report = NoReport /\ exitState = "none" /\ lastError = FALSE

LEMMA OutcomeKept == IInv /\ Outcome /\ [Next]_vars => Outcome'
<1> SUFFICES ASSUME IInv, Outcome, [Next]_vars PROVE Outcome'
  OBVIOUS
<1>1. CASE GetTriggeredAlarms
  BY <1>1 DEF GetTriggeredAlarms, Outcome, AckReason
<1>2. CASE FetchAlarmsError
  BY <1>2 DEF FetchAlarmsError, Outcome, Failed, IInv, Retrieval
<1>3. CASE Filter
  <2>1. PICK s \in Lists \cup {AckReason} : AtStage(s)
    BY <1>3, StageOfFilter DEF FilterByAcknowledgedState
  <2>2. stage # "done" /\ stage' # "done" /\ UNCHANGED <<report, exitState, lastError>>
    BY <2>1, NextStage DEF AtStage, Lists, AckReason
  <2>3. QED
    BY <2>2 DEF Outcome
<1>4. CASE Evaluate
  <2>1. /\ stage' = "done" /\ alarm' = AllRetrieved'
        /\ UNCHANGED <<world, filters, alarm, mark>>
    BY <1>4 DEF Evaluate, IInv, Retrieval, AllRetrieved, Triggered
  <2>2. /\ AlarmsReport' = AlarmsReport /\ IsOKState' = IsOKState
        /\ \A st : HasState(st)' = HasState(st)
    BY <2>1 DEF AlarmsReport, IsOKState, HasState, NumToReport, NumExcluded
  <2>3. QED
    BY <1>4, <2>1, <2>2 DEF Evaluate, Outcome, Evaluated
<1>5. CASE UNCHANGED vars
  BY <1>5 DEF vars, Outcome, Failed, Evaluated, AllRetrieved, Triggered,
     AlarmsReport, IsOKState, HasState, NumToReport, NumExcluded
<1>6. QED
  BY <1>1, <1>2, <1>3, <1>4, <1>5 DEF Next

LEMMA OutcomeInvariant == Spec => [](IInv /\ Outcome)
<1>1. Init => Outcome
  BY DEF Init, Outcome
<1>2. QED
  BY <1>1, InitHolds, StepKeeps, OutcomeKept, PTL DEF Spec

\* A triggered alarm never has the green status, so that OK means that the
\* filters left none.
LEMMA OKIsNothingLeft ==
  ASSUME IInv, alarm = AllRetrieved
  PROVE  IsOKState <=> Left = {}
<1>1. ASSUME NEW a \in Left
      PROVE  EntityStatusToNagiosState(alarm[a].status) # "OK"
  <2>1. a \in Triggered /\ alarm[a] = Retrieved(world[a]) /\ world[a] \in AlarmStates
    BY DEF Left, IInv, TypeOK, AllRetrieved
  <2>2. alarm[a].status = world[a].status
    BY <2>1 DEF Retrieved
  <2>3. world[a].status # "green"
    BY <2>1, AlarmAssumption
  <2>4. QED
    BY <2>2, <2>3 DEF EntityStatusToNagiosState
<1>2. QED
  BY <1>1, ReportLists

\* check_vmware_alarms never reports OK with an alarm left or unretrieved, and
\* reports OK when the filters leave none.
THEOREM OKIsSound == Spec => []OKMeansNothingLeft
<1>1. IInv /\ Outcome => OKMeansNothingLeft
  <2> SUFFICES ASSUME IInv, Outcome, stage = "done"
               PROVE  exitState = "OK" <=> DOMAIN alarm = Triggered /\ ~ lastError
                                           /\ report.listed = {}
    BY DEF OKMeansNothingLeft
  <2>1. CASE Failed
    BY <2>1 DEF Failed
  <2>2. CASE Evaluated
    <3>1. DOMAIN alarm = Triggered /\ report.listed = Left /\ lastError = ~ IsOKState
      BY <2>2, ReportLists DEF Evaluated, AllRetrieved
    <3>2. exitState = "OK" <=> IsOKState
      BY <2>2 DEF Evaluated, IsOKState
    <3>3. IsOKState <=> Left = {}
      BY <2>2, OKIsNothingLeft DEF Evaluated
    <3>4. QED
      BY <3>1, <3>2, <3>3
  <2>3. QED
    BY <2>1, <2>2 DEF Outcome
<1>2. QED
  BY <1>1, OutcomeInvariant, PTL

\* The summary line and the report account for every triggered alarm exactly once.
THEOREM ReportIsComplete == Spec => []ReportAccountsForAlarms
<1>1. IInv /\ Outcome => ReportAccountsForAlarms
  <2> SUFFICES ASSUME IInv, Outcome, stage = "done", ~ (lastError /\ report = NoReport)
               PROVE  /\ report.listed \cup DOMAIN report.excluded = Triggered
                      /\ report.listed \cap DOMAIN report.excluded = {}
                      /\ Cardinality(report.listed) = NumToReport
                      /\ report.count = Cardinality(report.listed)
    BY DEF ReportAccountsForAlarms
  <2>1. Evaluated
    BY DEF Outcome, Failed
  <2>2. /\ report.listed = Left /\ DOMAIN report.excluded = DOMAIN mark \ Left
        /\ report.count = IF IsOKState THEN 0 ELSE Cardinality(Left)
    BY <2>1, ReportLists DEF Evaluated
  <2>3. DOMAIN mark = Triggered /\ Left \subseteq Triggered
    BY <2>1 DEF Evaluated, AllRetrieved, IInv, TypeOK, Left
  <2>4. IsOKState => Cardinality(Left) = 0
    BY <2>1, OKIsNothingLeft, FS_EmptySet DEF Evaluated
  <2>5. Cardinality(Left) = NumToReport
    BY CountsAgree
  <2>6. QED
    BY <2>2, <2>3, <2>4, <2>5
<1>2. QED
  BY <1>1, OutcomeInvariant, PTL

-----------------------------------------------------------------------------
(* The refinement.                                                          *)

\* AlarmVerdict compares texts as AlarmFilter does.
LEMMA SameMatching ==
  /\ Verdict!Lists = Lists
  /\ \A l, al, kws : Verdict!AnyMatch(l, al, kws) <=> AnyMatch(l, al, kws)
<1>1. \A x, kws : Verdict!InList(x, kws) = InList(x, kws)
  BY DEF InList, EqualFold, Verdict!InList, Verdict!EqualFold
<1>2. \A field, kws : Verdict!SubstringTests(field, kws) = SubstringTests(field, kws)
  BY DEF SubstringTests, MatchesSubstring, EqualFold,
         Verdict!SubstringTests, Verdict!MatchesSubstring, Verdict!EqualFold
<1>3. \A al, kws : Verdict!StatusTests(al, kws) = StatusTests(al, kws)
  BY DEF StatusTests, EqualFold, Verdict!StatusTests, Verdict!EqualFold
<1>4. \A al, kws : Verdict!EntityTypeTests(al, kws) = EntityTypeTests(al, kws)
  BY <1>1 DEF EntityTypeTests, Verdict!EntityTypeTests
<1>5. \A al, kws : Verdict!ResourcePoolTests(al, kws) = ResourcePoolTests(al, kws)
  BY <1>1 DEF ResourcePoolTests, Verdict!ResourcePoolTests
<1>6. \A l, al, kws : Verdict!Tests(l, al, kws) = Tests(l, al, kws)
  BY <1>2, <1>3, <1>4, <1>5 DEF Tests, Verdict!Tests
<1>7. QED
  BY <1>6 DEF AnyMatch, Verdict!AnyMatch, Lists, Verdict!Lists

\* After the last stage the marks say what the abstract verdict says.
LEMMA MarksAreTheVerdict ==
  ASSUME IInv, stage = "evaluate", NEW a \in DOMAIN mark
  PROVE  ~ mark[a].Exclude <=> Verdict!Wanted(a)
<1>1. alarm = AllRetrieved /\ DOMAIN mark = Triggered
  BY DEF IInv, Retrieval, TypeOK, AllRetrieved
<1>2. \A r \in Lists \cup {AckReason} : Ran(r)
  BY DEF Ran, Rank, Lists, AckReason
<1>3. ExplicitlyExcludedSoFar(a) <=> Verdict!ExplicitlyExcluded(a)
  <2>1. \A l \in Lists : AnyMatch(l, alarm[a], filters.exclude[l]) => filters.exclude[l] # << >>
    BY EmptyListMatchesNothing
  <2>2. QED
    BY <1>1, <1>2, <2>1, SameMatching
       DEF ExplicitlyExcludedSoFar, Verdict!ExplicitlyExcluded, AllRetrieved
<1>4. IncludedSoFar(a) <=>
        \E l \in Verdict!IncludeLists : AnyMatch(l, alarm[a], filters.include[l])
  BY <1>2, EmptyListMatchesNothing, SameMatching DEF IncludedSoFar, Verdict!IncludeLists
<1>5. SomeIncludeListSoFar <=> Verdict!IncludeLists # {}
  BY <1>2, SameMatching DEF SomeIncludeListSoFar, Verdict!IncludeLists
<1>6. Explained(a)
  BY DEF IInv, MarksExplained
<1>7. mark[a].Exclude <=>
        ExplicitlyExcludedSoFar(a) \/ (SomeIncludeListSoFar /\ ~ IncludedSoFar(a))
  BY <1>6 DEF Explained
<1>8. Verdict!Wanted(a) <=>
        /\ ~ Verdict!ExplicitlyExcluded(a)
        /\ \/ Verdict!IncludeLists = {}
           \/ \E l \in Verdict!IncludeLists : AnyMatch(l, alarm[a], filters.include[l])
  BY <1>1, SameMatching DEF Verdict!Wanted, AllRetrieved
<1>9. QED
  BY <1>3, <1>4, <1>5, <1>7, <1>8

\* The evaluation decides, a failed retrieval fails, every other step is a
\* stuttering step of the abstract verdict.
LEMMA StepImplements ==
  IInv /\ Outcome /\ [Next]_vars => [Verdict!Next]_(Verdict!vars)
<1> SUFFICES ASSUME IInv, Outcome, [Next]_vars PROVE [Verdict!Next]_(Verdict!vars)
  OBVIOUS
<1> DEFINE hidden == [a \in Triggered |-> Retrieved(world[a])]
<1>1. ASSUME UNCHANGED <<world, filters, exitState, lastError, report>>,
             stage' = "done" <=> stage = "done"
      PROVE  UNCHANGED Verdict!vars
  <2>1. UNCHANGED hidden
    BY <1>1 DEF Triggered
  <2>2. QED
    BY <1>1, <2>1 DEF Verdict!vars
<1>2. CASE GetTriggeredAlarms
  BY <1>1, <1>2 DEF GetTriggeredAlarms, AckReason
<1>3. CASE Filter
  <2>1. PICK s \in Lists \cup {AckReason} : AtStage(s)
    BY <1>3, StageOfFilter DEF FilterByAcknowledgedState
  <2>2. /\ stage # "done" /\ stage' # "done"
        /\ UNCHANGED <<world, filters, report, exitState, lastError>>
    BY <2>1, NextStage DEF AtStage, Lists, AckReason
  <2>3. QED
    BY <1>1, <2>2
<1>4. CASE UNCHANGED vars
  BY <1>1, <1>4 DEF vars
<1>5. CASE FetchAlarmsError
  <2>1. /\ UNCHANGED <<world, filters, report>> /\ stage # "done" /\ stage' = "done"
        /\ exitState' = "CRITICAL" /\ lastError' = TRUE /\ report = NoReport
    BY <1>5 DEF FetchAlarmsError, Outcome
  <2>2. UNCHANGED hidden
    BY <2>1 DEF Triggered
  <2>3. NoReport.listed = {}
    BY DEF NoReport
  <2>4. Verdict!Fail
    BY <2>1, <2>2, <2>3 DEF Verdict!Fail, NoReport
  <2>5. QED
    BY <2>4 DEF Verdict!Next
<1>6. CASE Evaluate
  <2>1. /\ UNCHANGED <<world, filters, alarm, mark>> /\ stage = "evaluate" /\ stage' = "done"
        /\ lastError' = ~ IsOKState /\ report' = AlarmsReport
        /\ alarm = AllRetrieved
    BY <1>6 DEF Evaluate, IInv, Retrieval
  <2>2. UNCHANGED hidden /\ DOMAIN mark = DOMAIN hidden
    BY <2>1 DEF Triggered, IInv, TypeOK, AllRetrieved
  <2>3. Left = {a \in DOMAIN hidden : Verdict!Wanted(a)}
    BY <2>1, <2>2, MarksAreTheVerdict DEF Left
  <2>4. report'.listed = Left
    BY <2>1, ReportLists
  <2>5. ~ (lastError' /\ report' = NoReport)
    <3>1. NoReport.listed = {}
      BY DEF NoReport
    <3>2. IsOKState <=> Left = {}
      BY <2>1, OKIsNothingLeft
    <3>3. QED
      BY <2>1, <2>4, <3>1, <3>2
  <2>6. exitState' = Verdict!Severest(Left)
    <3>1. \A a \in Left : /\ alarm[a] = hidden[a]
                          /\ EntityStatusToNagiosState(alarm[a].status)
                               = Verdict!NagiosState(hidden[a].status)
      BY <2>1, <2>2 DEF Left, AllRetrieved, EntityStatusToNagiosState, Verdict!NagiosState
    <3>2. DOMAIN alarm = DOMAIN mark
      BY DEF IInv, TypeOK
    <3> HIDE DEF hidden
    <3>3. \A st : HasState(st) <=> \E a \in Left : Verdict!NagiosState(hidden[a].status) = st
      BY <3>1, <3>2 DEF HasState, Left
    <3>4. Verdict!Severest(Left) =
             IF HasState("CRITICAL") THEN "CRITICAL"
             ELSE IF HasState("WARNING") THEN "WARNING"
             ELSE IF HasState("UNKNOWN") THEN "UNKNOWN" ELSE "OK"
      BY <3>3 DEF Verdict!Severest, hidden
    <3>5. QED
      BY <1>6, <3>4 DEF Evaluate
  <2>7. Verdict!Decide
    BY <2>1, <2>2, <2>3, <2>4, <2>5, <2>6 DEF Verdict!Decide
  <2>8. QED
    BY <2>7 DEF Verdict!Next
<1>7. QED
  BY <1>2, <1>3, <1>4, <1>5, <1>6 DEF Next

\* The pipeline with its stages, marks and reports implements the verdict that
\* the flags describe.
THEOREM PipelineImplementsVerdict == Spec => ImplementsVerdict
<1>1. Init => Verdict!Init
  BY DEF Init, Verdict!Init
<1>2. QED
  BY <1>1, StepImplements, OutcomeInvariant, PTL DEF Spec, ImplementsVerdict, Verdict!Spec
=============================================================================
