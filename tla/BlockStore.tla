----------------------------- MODULE BlockStore -----------------------------
(***************************************************************************)
(* What the nodes' stores promise each other while blocks are exchanged:   *)
(* a block once stored stays, and the tip only ever moves to the block     *)
(* that was stored last.                                                   *)
(***************************************************************************)
CONSTANTS Node, BlockHash, NoBlock

VARIABLES
  stored,   \* blocks each node has
  head      \* the newest of them, NoBlock if none

storeVars == <<stored, head>>

Init == /\ stored = [n \in Node |-> {}]
        /\ head = [n \in Node |-> NoBlock]

Add(n, h) == /\ h \notin stored[n]
             /\ stored' = [stored EXCEPT ![n] = @ \cup {h}]
             /\ head' = [head EXCEPT ![n] = h]

Next == \E n \in Node, h \in BlockHash : Add(n, h)

Spec == Init /\ [][Next]_storeVars
=============================================================================
