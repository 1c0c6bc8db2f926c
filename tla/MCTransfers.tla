---------------------------- MODULE MCTransfers -----------------------------
(* Instances of Transfers for TLC: two jobs that share what they can share:  *)
(* the target (restore, clone) or only the process, on both engines.         *)
EXTENDS Transfers

CONSTANTS j1, j2

MCPairs == {<<"restore", "clone">>, <<"import", "exportSql">>, <<"clone", "exportRows">>}
\* A restore creates a target that is not there; on MySQL, where clients have most
\* to do, it has a table of its script already, and the artifact is torn.
MCInit  == /\ Init
           /\ <<kind[j1], kind[j2]>> \in MCPairs
           /\ kind[j1] = "restore" =>
                /\ create[j1] = ~exists
                /\ engine = "mysql" /\ exists => owner[Size] = Other /\ torn
           /\ kind[j1] = "clone" => engine = "postgres"
MCSpec  == MCInit /\ [][Next]_vars
=============================================================================
