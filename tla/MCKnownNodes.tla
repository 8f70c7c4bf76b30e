----------------------------- MODULE MCKnownNodes ----------------------------
(* KnownNodes for TLC. *)
EXTENDS KnownNodes

CONSTANTS s, x, y

OneAddr == {<<y, x>>}
=============================================================================
