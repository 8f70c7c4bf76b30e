----------------------------- MODULE MCWalletFile ----------------------------
(* WalletFile for TLC: processes and keys are symmetric. *)
EXTENDS WalletFile, TLC

Symmetry == Permutations(Proc) \cup Permutations(Key)
=============================================================================
