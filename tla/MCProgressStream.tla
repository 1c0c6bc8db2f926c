-------------------------- MODULE MCProgressStream --------------------------
(* Instances of ProgressStream for TLC.                                    *)
EXTENDS ProgressStream, TLC

CONSTANTS f1, f2
=============================================================================
