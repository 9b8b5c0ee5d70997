--------------------------- MODULE MCCalendarSync ---------------------------
(* Instances of CalendarSync for TLC.                                      *)
EXTENDS CalendarSync

CONSTANTS e1, e2, o1, o2, s1, s2, r1

Symmetry == Permutations({e1, e2}) \cup Permutations({o1, o2}) \cup Permutations({s1, s2})

(* Bound: once a review has overlapped a sync, no full listing leaves an   *)
(* event out.                                                              *)
OverlapsMissNothing == overlap => missed = {}

(* Bound: once a review has overlapped a sync, two sessions at a time.     *)
OverlapsArePairs == overlap => Cardinality({s \in Session : pc[s] # "idle"}) <= 2
=============================================================================
