---------------------------- MODULE MCBackupJob -----------------------------
(* Instances of BackupJob for TLC.                                          *)
EXTENDS BackupJob, TLC

CONSTANTS j1, w1, w2

SlotSymmetry == Permutations({w1, w2})
=============================================================================
