--------------------------- MODULE MCScheduleSync ---------------------------
(* Instances of ScheduleSync for TLC.  c1 is a pattern the parser takes,   *)
(* bad is one it does not.                                                 *)
EXTENDS ScheduleSync, TLC

CONSTANTS s1, s2, c1, bad, r1, r2

\* Bound: while the scheduler boots, requests that overlap are about one schedule.
Busy == {r \in Requests : req'[r] # NoRequest}
MCNext == Next /\ (boot' = "sync" => \A r, q \in Busy : req'[r].id = req'[q].id)
MCSpec == Init /\ [][MCNext]_vars

Symmetry == Permutations({s1, s2}) \cup Permutations({r1, r2})
=============================================================================
