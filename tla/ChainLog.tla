------------------------------ MODULE ChainLog ------------------------------
(***************************************************************************)
(* What a node's block store promises its user: blocks are only ever       *)
(* added, and each one extends the block that was the tip.                 *)
(***************************************************************************)
EXTENDS Integers, FiniteSets

CONSTANTS BlockHash, NoBlock

VARIABLES
  stored,   \* the hashes of the blocks kept
  head,     \* the tip, NoBlock while there is none
  parent    \* the previous block of each stored block

logVars == <<stored, head, parent>>

Init == /\ stored = {}
        /\ head = NoBlock
        /\ parent = [h \in {} |-> NoBlock]

Append == \E h \in BlockHash \ stored :
            /\ stored' = stored \cup {h}
            /\ head' = h
            /\ parent' = [k \in stored \cup {h} |-> IF k = h THEN head ELSE parent[k]]

Spec == Init /\ [][Append]_logVars
=============================================================================
