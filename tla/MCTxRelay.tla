------------------------------ MODULE MCTxRelay ------------------------------
(* TxRelay for TLC: two rewards, a payment of both, one of the first whose        *)
(* signature is wrong, and one of an output that it does not have; the last block *)
(* of no chain, of one with both rewards, and of one with the second only.        *)
EXTENDS TxRelay

CONSTANTS r1, r2, pay, bad, out, p1, p2, empty, b1, fork

Spends == [t \in Tx |-> CASE t = pay -> <<r1, r2>> [] t \in {bad, out} -> <<r1>> [] OTHER -> <<>>]

Checks == [t \in Tx |-> CASE t = bad -> "false" [] t = out -> "panic" [] OTHER -> "true"]

Chains == [b \in Block |-> CASE b = b1 -> {r1, r2} [] b = fork -> {r2} [] OTHER -> {}]

Send(t, from, encoding) == [type |-> "tx", tx |-> t, from |-> from, encoding |-> encoding]

\* Copies that handleTx can decode, and one as sendTx encodes it.
Messages == {Send(t, p1, "gob") : t \in {pay, bad, out}} \cup {Send(pay, p1, "wire")} \cup
            {[type |-> "inv"], [type |-> "getdata"]}
=============================================================================
