----------------------------- MODULE MCNodeStore -----------------------------
(* NodeStore for TLC: hashes and addresses are model values, both symmetric. *)
EXTENDS NodeStore

Symmetry == Permutations(BlockHash) \cup Permutations(Address)
=============================================================================
