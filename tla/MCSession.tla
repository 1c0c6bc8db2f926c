----------------------------- MODULE MCSession -----------------------------
(* Instances of Session for TLC.                                             *)
EXTENDS Session

CONSTANTS u1, u2

\* Bound: once the store was overtaken, only what is in flight goes on, for nothing
\* is claimed of the store any more.
MCNext == \/ ~overtaken /\ Next
          \/ overtaken /\ (Refreshed \/ \E q \in Requests : Answer(q))
MCSpec == Init /\ [][MCNext]_vars /\ WF_vars(Refreshed) /\ \A q \in Requests : WF_vars(Answer(q))
=============================================================================
