---------------------------- MODULE FilterMarks ----------------------------
(***************************************************************************)
(* The marks the filtering pipeline keeps on one triggered alarm (fields   *)
(* Exclude, ExplicitlyIncluded, ExplicitlyExcluded and ExcludeReason of    *)
(* TriggeredAlarm, internal/vsphere/alarms.go), what one iteration of a    *)
(* stage's keyword loop does to them, and what the whole loop does.        *)
(***************************************************************************)
EXTENDS Naturals, Sequences

CONSTANT Reasons       \* the alarmExcludeReason... constants

\* No filter has touched the alarm yet.  The empty string is no reason.
NoReason == ""
ASSUME NoReasonAssumption == NoReason \notin Reasons

Marks == [Exclude : BOOLEAN, ExplicitlyIncluded : BOOLEAN,
          ExplicitlyExcluded : BOOLEAN, ExcludeReason : Reasons \cup {NoReason}]

Unmarked == [Exclude |-> FALSE, ExplicitlyIncluded |-> FALSE,
             ExplicitlyExcluded |-> FALSE, ExcludeReason |-> NoReason]

-----------------------------------------------------------------------------
(* One iteration.                                                           *)

\* A keyword of an include list matches: an explicit exclusion stands.
IncludeHit(m) ==
  IF m.ExplicitlyExcluded THEN m
  ELSE [m EXCEPT !.Exclude = FALSE, !.ExplicitlyIncluded = TRUE]

\* Mutant of IncludeMiss: every miss excludes.
IncludeMissAlways(m, reason) == [m EXCEPT !.Exclude = TRUE, !.ExcludeReason = reason]

\* A keyword of an include list does not match: implicit exclusion, unless an
\* earlier keyword or stage included the alarm explicitly.
IncludeMiss(m, reason) ==
  IF m.ExplicitlyIncluded THEN m
  ELSE [m EXCEPT !.Exclude = TRUE, !.ExcludeReason = reason]

\* A keyword of an exclude list matches.  ExplicitlyIncluded is left alone.
ExcludeHit(m, reason) ==
  [m EXCEPT !.Exclude = TRUE, !.ExcludeReason = reason,
            !.ExplicitlyExcluded = TRUE]

-----------------------------------------------------------------------------
(* The whole loop, as a function of the outcomes of the first n comparisons. *)

SomeHit(results, n) == \E i \in 1..n : results[i]
SomeMiss(results, n) == \E i \in 1..n : ~results[i]

\* Mutant of IncludeFirst: a hit brings an explicitly excluded alarm back.
IncludeFirstRevives(m, results, n, reason) ==
  IF SomeHit(results, n) THEN [m EXCEPT !.Exclude = FALSE, !.ExplicitlyIncluded = TRUE]
  ELSE IF SomeMiss(results, n) THEN IncludeMiss(m, reason)
  ELSE m

\* The loop over an include list.  The reason is written by a miss that comes
\* before the alarm is explicitly included, so that the first comparison decides.
IncludeFirst(m, results, n, reason) ==
  IF SomeHit(results, n) /\ ~m.ExplicitlyExcluded
  THEN [m EXCEPT !.Exclude = FALSE,
                 !.ExplicitlyIncluded = TRUE,
                 !.ExcludeReason = IF m.ExplicitlyIncluded \/ results[1] THEN @ ELSE reason]
  ELSE IF SomeMiss(results, n) THEN IncludeMiss(m, reason)
  ELSE m

\* The loop over an exclude list: a miss does nothing.
ExcludeFirst(m, results, n, reason) ==
  IF SomeHit(results, n) THEN ExcludeHit(m, reason) ELSE m

IncludeAll(m, results, reason) == IncludeFirst(m, results, Len(results), reason)
ExcludeAll(m, results, reason) == ExcludeFirst(m, results, Len(results), reason)
=============================================================================
