--------------------------- MODULE AlarmMatching ---------------------------
(***************************************************************************)
(* How the alarms plugin compares a property of a triggered alarm with the *)
(* keywords of one filter flag (internal/vsphere/alarms.go and             *)
(* internal/textutils/textutils.go).  Text is opaque: what the filters can *)
(* tell of two texts is whether they are equal, equal up to case, or       *)
(* whether one occurs in the other.                                        *)
(***************************************************************************)
EXTENDS Sequences, Naturals

CONSTANTS Texts,       \* every name, description, status, type and keyword
          Fold,        \* the lower-case form of a text
          Contains     \* the pairs <<s, t>> such that t occurs in s, case-sensitively

\* strings.EqualFold compares the folded forms; a text contains itself.
ASSUME TextsAssumption ==
  /\ Fold \in [Texts -> Texts]
  /\ \A t \in Texts : Fold[Fold[t]] = Fold[t]
  /\ Contains \subseteq Texts \X Texts
  /\ \A t \in Texts : <<t, t>> \in Contains

\* The keyword lists a filter stage takes (TriggeredAlarmFilters), in the
\* order the stages run.  Each has an include and an exclude list.
Lists == {"type", "name", "description", "status", "entityName", "pool"}

EqualFold(s, t) == Fold[s] = Fold[t]

\* textutils.InList with ignoreCase set, as every filter stage calls it.
InList(needle, haystack) ==
  \E i \in DOMAIN haystack : EqualFold(haystack[i], needle)

\* The comparison of filterBySubstring: a literal match that ignores the
\* case, or a substring match that does not.
MatchesSubstring(field, substr) ==
  EqualFold(field, substr) \/ <<field, substr>> \in Contains

-----------------------------------------------------------------------------
(* The outcomes of the comparisons one stage makes for one alarm, in loop    *)
(* order.  "al" is a record with the properties of the alarm the stages read.*)

\* One InList call for the entity type.
EntityTypeTests(al, kws) == << InList(al.type, kws) >>

\* One comparison per keyword.
SubstringTests(field, kws) ==
  [i \in DOMAIN kws |-> MatchesSubstring(field, kws[i])]

StatusTests(al, kws) ==
  [i \in DOMAIN kws |-> EqualFold(al.status, kws[i])]

\* One InList call per Resource Pool of the entity; an entity without pools
\* cannot match, which the include branch treats like a failed comparison.
ResourcePoolTests(al, kws) ==
  IF al.pools = << >> THEN << FALSE >>
  ELSE [j \in DOMAIN al.pools |-> InList(al.pools[j], kws)]

Tests(list, al, kws) ==
  CASE list = "type"        -> EntityTypeTests(al, kws)
    [] list = "name"        -> SubstringTests(al.name, kws)
    [] list = "description" -> SubstringTests(al.description, kws)
    [] list = "status"      -> StatusTests(al, kws)
    [] list = "entityName"  -> SubstringTests(al.entityName, kws)
    [] list = "pool"        -> ResourcePoolTests(al, kws)

\* Some comparison of the stage succeeds.
AnyMatch(list, al, kws) == \E i \in DOMAIN Tests(list, al, kws) : Tests(list, al, kws)[i]
=============================================================================
