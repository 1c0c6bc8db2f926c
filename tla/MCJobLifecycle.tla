--------------------------- MODULE MCJobLifecycle ---------------------------
(* Instances of JobLifecycle for TLC.  j1 was asked for by a user, j2 by a *)
(* schedule; 30 and 130 are a progress in range and one to clamp.          *)
EXTENDS JobLifecycle, TLC

CONSTANTS j1, j2, w1, w2

MCMilestones == {30, 130}
\* Bound of lifecycle_calm: the audit of a request, which nothing there is about, comes
\* before all else.
CalmNext == Next /\ \A j \in Jobs : request[j] = "enqueued" => request'[j] = "answered"
CalmSpec == Init /\ [][CalmNext]_vars /\ Fairness

SlotSymmetry == Permutations({w1, w2})
=============================================================================
