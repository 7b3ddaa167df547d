----------------------------- MODULE FilterLoop -----------------------------
(***************************************************************************)
(* The inner loop of one filter stage for one alarm, one comparison per    *)
(* step (filterByEntityType, filterByEntityResourcePool, filterBySubstring *)
(* and filterByStatus of internal/vsphere/alarms.go share its form).  The  *)
(* pipeline of AlarmFilter takes the loop in one step, with IncludeAll and *)
(* ExcludeAll: this module is why it may.                                  *)
(***************************************************************************)
EXTENDS FilterMarks

CONSTANTS MaxTests,        \* bound on the comparisons of one loop
          StageReason      \* the reason this stage records

ASSUME LoopAssumption ==
  /\ MaxTests \in Nat
  /\ StageReason \in Reasons

VARIABLES before,          \* the marks the stage finds
          branch,          \* the list the stage loops over
          results,         \* the outcomes of the comparisons, in loop order
          marks,           \* the marks now
          position         \* the next comparison

loopVars == <<before, branch, results, marks, position>>

\* Marks are those a stage can find: an explicit exclusion always excludes, an
\* explicit inclusion lasts unless the alarm is explicitly excluded, and an
\* excluded alarm has a reason.
ReachableMarks ==
  {m \in Marks : /\ m.ExplicitlyExcluded => m.Exclude
                 /\ m.ExplicitlyIncluded /\ m.Exclude => m.ExplicitlyExcluded
                 /\ m.Exclude => m.ExcludeReason # NoReason}

Outcomes == UNION {[1..n -> BOOLEAN] : n \in 0..MaxTests}

LoopInit == /\ before \in ReachableMarks
            /\ branch \in {"include", "exclude"}
            /\ results \in Outcomes
            /\ marks = before
            /\ position = 1

\* for ... range include { switch { case match: ...; default: ... } }
TestInclude ==
  /\ branch = "include"
  /\ position <= Len(results)
  /\ marks' = IF results[position] THEN IncludeHit(marks) ELSE IncludeMiss(marks, StageReason)
  /\ position' = position + 1
  /\ UNCHANGED <<before, branch, results>>

\* Mutant of TestExclude: one iteration too many.
TestExcludePastEnd ==
  /\ branch = "exclude"
  /\ position <= Len(results) + 1
  /\ marks' = IF position \in DOMAIN results /\ results[position]
              THEN ExcludeHit(marks, StageReason) ELSE marks
  /\ position' = position + 1
  /\ UNCHANGED <<before, branch, results>>

\* for ... range exclude { if match { ... } }
TestExclude ==
  /\ branch = "exclude"
  /\ position <= Len(results)
  /\ marks' = IF results[position] THEN ExcludeHit(marks, StageReason) ELSE marks
  /\ position' = position + 1
  /\ UNCHANGED <<before, branch, results>>

LoopNext == TestInclude \/ TestExclude

LoopSpec == LoopInit /\ [][LoopNext]_loopVars

-----------------------------------------------------------------------------
\* The marks are marks, and the loop is at one of its comparisons or past the last.
LoopTypeOK == /\ before \in ReachableMarks
              /\ branch \in {"include", "exclude"}
              /\ results \in Seq(BOOLEAN)
              /\ marks \in Marks
              /\ position \in 1..(Len(results) + 1)

\* After any number of iterations the marks are what the closed form gives for
\* the comparisons made so far; the include loop of filterBySubstring,
\* filterByStatus and filterByEntityResourcePool flips the marks back and
\* forth, the closed form reads them from the set of outcomes.
LoopIsClosedForm ==
  marks = IF branch = "include"
          THEN IncludeFirst(before, results, position - 1, StageReason)
          ELSE ExcludeFirst(before, results, position - 1, StageReason)

\* The verdict of a stage does not depend on the order of its keywords (the
\* status lists come out of a Go map in random order): an alarm some keyword of
\* an include list matches is kept whichever keywords miss before or after,
\* unless it is explicitly excluded; the loop over an exclude list only excludes.
KeywordOrderIrrelevant ==
  position = Len(results) + 1 =>
    marks.Exclude =
      IF branch = "exclude"
      THEN before.Exclude \/ \E i \in DOMAIN results : results[i]
      ELSE \/ before.ExplicitlyExcluded
           \/ /\ ~ before.ExplicitlyIncluded
              /\ results # << >>
              /\ \A i \in DOMAIN results : ~results[i]
           \/ results = << >> /\ before.Exclude
=============================================================================
