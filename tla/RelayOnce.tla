------------------------------ MODULE RelayOnce ------------------------------
(***************************************************************************)
(* What a node promises about the transactions it hears of: it takes each  *)
(* into its pool at most once, addresses a pooled one at most once, to the *)
(* list of nodes of that moment, and passes it on no more often than that. *)
(* The list is the environment's; an address may stand there repeatedly.   *)
(***************************************************************************)
EXTENDS Naturals

CONSTANTS Tx, Node, Self

VARIABLES
  pool,       \* transactions taken
  list,       \* how often each node is on the list
  addressed,  \* transactions that are passed on or were
  quota,      \* how often each may be passed to each node
  times       \* how often each was

relayVars == <<pool, list, addressed, quota, times>>

None == [t \in Tx |-> [n \in Node |-> 0]]

Init == pool = {} /\ addressed = {} /\ quota = None /\ times = None

Accept(t) == /\ t \notin pool
             /\ pool' = pool \cup {t}
             /\ UNCHANGED <<addressed, quota, times>>

\* One node, where it came from, is left out, and the node itself.
Address(t, from) ==
  /\ t \in pool \ addressed
  /\ addressed' = addressed \cup {t}
  /\ quota' = [quota EXCEPT ![t] = [n \in Node |-> IF n \in {from, Self} THEN 0 ELSE list[n]]]
  /\ UNCHANGED <<pool, times>>

Pass(t, n) == /\ times[t][n] < quota[t][n]
              /\ times' = [times EXCEPT ![t][n] = @ + 1]
              /\ UNCHANGED <<pool, addressed, quota>>

ListChanges == UNCHANGED <<pool, addressed, quota, times>>

Next == \/ ListChanges
        \/ \E t \in Tx : Accept(t) \/ \E n \in Node : Address(t, n) \/ Pass(t, n)

Spec == Init /\ [][Next]_relayVars
=============================================================================
