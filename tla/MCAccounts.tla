----------------------------- MODULE MCAccounts -----------------------------
(* Instances of Accounts for TLC.                                            *)
EXTENDS Accounts

CONSTANTS e1, e2
=============================================================================
