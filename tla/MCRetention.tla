---------------------------- MODULE MCRetention -----------------------------
(* Instances of Retention for TLC: two schedules of one database, one keeps *)
(* one backup and the other two.                                           *)
EXTENDS Retention, TLC

CONSTANTS short, long, a, b

MCKeep == [s \in Schedules |-> IF s = short THEN 1 ELSE 2]
=============================================================================
