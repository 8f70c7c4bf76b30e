---------------------------- MODULE MCDownloader ----------------------------
(* Downloader for TLC: hashes are model values, symmetric for safety runs. *)
EXTENDS Downloader, TLC

Symmetry == Permutations(BlockHash)
=============================================================================
