---------------------------- MODULE MCAuditChain ----------------------------
(* Instances of AuditChain for TLC.  A meta is a sequence of keys; jsonb    *)
(* returns the keys of every object in an order of its own.  A hash is the *)
(* pair of its arguments, so that it is as injective as SHA-256 is taken   *)
(* to be.                                                                  *)
EXTENDS AuditChain, TLC

CONSTANTS w1, w2, w3, login, logout, ann, bob

InOrder == {<<"size", "database">>}
AnyOrder == {<<"size", "database">>, <<"database", "size">>}
JsonbOrder(m) == <<"size", "database">>
PairHash(p, c) == <<p, c>>
Symmetry == Permutations({w1, w2, w3})
=============================================================================
