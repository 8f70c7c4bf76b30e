----------------------------- MODULE MCBlockSync -----------------------------
(* BlockSync for TLC: a genesis block, one in which A pays its reward to B, one *)
(* in which B pays it back; the sender of a payment earns the next reward.      *)
EXTENDS BlockSync

CONSTANTS A, B, g, b1, b2, f

Pay(txid, from, to) ==
  NewTransaction(<<[txid |-> txid, vout |-> 1, pubKey |-> from]>>,
                 <<[value |-> Subsidy, owner |-> to]>>)

There == Pay(NewCoinbaseTX(A).id, A, B)
Back == Pay(There.id, B, A)

ThreeBlocks ==
  [h \in {g, b1, b2} |->
     CASE h = g  -> [height |-> 0, prev |-> NoBlock, txs |-> <<NewCoinbaseTX(A)>>]
       [] h = b1 -> [height |-> 1, prev |-> g, txs |-> <<NewCoinbaseTX(A), There>>]
       [] h = b2 -> [height |-> 2, prev |-> b1, txs |-> <<NewCoinbaseTX(B), Back>>]]

\* f is a second genesis block, of the other node.
Fork == [h \in {g, b1, f} |->
           IF h = f THEN [height |-> 0, prev |-> NoBlock, txs |-> <<NewCoinbaseTX(B)>>]
           ELSE ThreeBlocks[h]]

ASSUME BlocksAreSafe

MinedBySeed == [h \in BlockHash |-> Seed]

\* The other node mines the last block.
MinedByBoth == [h \in BlockHash |-> IF h \in {b2, f} THEN CHOOSE n \in Node : n # Seed ELSE Seed]
=============================================================================
