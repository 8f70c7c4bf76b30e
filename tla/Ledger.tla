------------------------------- MODULE Ledger -------------------------------
(***************************************************************************)
(* Transactions, the chain as the iterator walks it, and the two ways the  *)
(* code computes the set of unspent outputs: FindUTXO from the whole chain *)
(* and UTXOSet.Update from one block.  Pure operators, no state.           *)
(*                                                                         *)
(*   output       [value, owner]    owner stands for the public key hash   *)
(*   input        [txid, vout, pubKey]   vout is the code's index plus one *)
(*   transaction  [id, vin, vout]                                          *)
(*   block        [height, prev, txs]                                      *)
(*   chainstate   a function from transaction ids to sequences of outputs  *)
(***************************************************************************)
EXTENDS Integers, SequencesExt, Lists

CONSTANTS
  Subsidy,    \* the coins a coinbase transaction creates (10 in the code)
  NoBlock     \* the empty PrevBlockHash of a genesis block

ASSUME SubsidyAssumption == Subsidy \in Nat \ {0}

-----------------------------------------------------------------------------
(* Values *)

\* bucket.Put: add the key or overwrite its value.
Put(f, key, val) == [k \in DOMAIN f \cup {key} |-> IF k = key THEN val ELSE f[k]]

\* A Put for every entry of g.
PutAll(f, g) == [k \in DOMAIN f \cup DOMAIN g |-> IF k \in DOMAIN g THEN g[k] ELSE f[k]]

Worth(outs) == SumOf([k \in DOMAIN outs |-> outs[k].value])

OwnedBy(outs, who) == KeepAt(outs, {k \in DOMAIN outs : outs[k].owner = who})

\* GetUTXO and the sum that getbalance prints.
GetBalance(cs, who) == SumOf([id \in DOMAIN cs |-> Worth(OwnedBy(cs[id], who))])

Total(cs) == SumOf([id \in DOMAIN cs |-> Worth(cs[id])])

-----------------------------------------------------------------------------
(* Transactions *)

\* The empty Txid of a coinbase input.
NoTx == <<>>

\* TxInput.Serialize writes nothing for an input whose Txid is not 32 bytes
\* long, and Transaction.Serialize ignores the error: the input of a coinbase
\* goes missing, its random data included.
SerializedInputs(vin) == SelectSeq(vin, LAMBDA in : in.txid # NoTx)

\* The SHA-256 of the serialised transaction, as the record of what it covers.
Hash(vin, vout) == [vin |-> SerializedInputs(vin), vout |-> vout]

NewTransaction(vin, vout) == [id |-> Hash(vin, vout), vin |-> vin, vout |-> vout]

NewCoinbaseTX(to) ==
  NewTransaction(<<[txid |-> NoTx, vout |-> 1, pubKey |-> NoTx]>>,
                 <<[value |-> Subsidy, owner |-> to]>>)

IsCoinbase(tx) == /\ Len(tx.vin) = 1
                  /\ tx.vin[1].txid = NoTx
                  /\ tx.vin[1].vout = 1

\* Fault: the cursor takes every output, locked with the key or not.
OwnedOutputs_AnyOwner(cs, who) ==
  UNION {{<<id, i>> : i \in DOMAIN cs[id]} : id \in DOMAIN cs}

\* Positions <<id, index>> of the outputs of who in the chainstate bucket.
OwnedOutputs(cs, who) ==
  UNION {{<<id, i>> : i \in {j \in DOMAIN cs[id] : cs[id][j].owner = who}} : id \in DOMAIN cs}

Accumulated(cs, P) == SumOf([p \in P |-> cs[p[1]][p[2]].value])

\* What a cursor over the bucket can collect.  The keys are hashes, so any
\* order of the entries is possible: every entry it met before the last is
\* taken whole, the last one up to the output that reaches the amount.
GetUnSpendableOutputs(cs, who, amount) ==
  {P \in SUBSET OwnedOutputs(cs, who) : \E last \in P :
     /\ Accumulated(cs, P) >= amount
     /\ Accumulated(cs, P \ {last}) < amount
     /\ \A p \in P : p[1] = last[1] => p[2] <= last[2]
     /\ \A p \in P, q \in OwnedOutputs(cs, who) \ P :
          p[1] = q[1] => p[1] = last[1] /\ p[2] < q[2]}

\* The inputs for the collected positions: the ids in the arbitrary order of a
\* Go map, the indices of one id together and ascending.
InputLists(P, who) ==
  LET inOrder(s) == \A i, j \in DOMAIN s : i < j /\ s[i][1] = s[j][1] =>
                      s[i][2] < s[j][2] /\ \A k \in i..j : s[k][1] = s[i][1]
  IN  {[k \in DOMAIN s |-> [txid |-> s[k][1], vout |-> s[k][2], pubKey |-> who]]
         : s \in {r \in SetToSeqs(P) : inOrder(r)}}

\* Fault: the change is forgotten.
PaymentOutputs_NoChange(from, to, amount, balance) == <<[value |-> amount, owner |-> to]>>

PaymentOutputs(from, to, amount, balance) ==
  <<[value |-> amount, owner |-> to]>> \o
  (IF balance > amount THEN <<[value |-> balance - amount, owner |-> from]>> ELSE <<>>)

\* The transactions NewUTXOTransaction can return; none when funds are short.
NewUTXOTransaction(cs, from, to, amount) ==
  UNION {{NewTransaction(vin, PaymentOutputs(from, to, amount, Accumulated(cs, P)))
            : vin \in InputLists(P, from)}
         : P \in GetUnSpendableOutputs(cs, from, amount)}

-----------------------------------------------------------------------------
(* The chain *)

\* The iterator: next to return the block at hash "at", "seen" returned so far.
Iterate(blocks, tip) ==
  LET it[k \in 0..Cardinality(DOMAIN blocks)] ==
        IF k = 0 THEN [at |-> tip, seen |-> <<>>]
        ELSE IF it[k - 1].at = NoBlock THEN it[k - 1]
        ELSE [at   |-> blocks[it[k - 1].at].prev,
              seen |-> Append(it[k - 1].seen, blocks[it[k - 1].at])]
  IN  it

\* The blocks the iterator returns, newest first.
Branch(blocks, tip) == Iterate(blocks, tip)[Cardinality(DOMAIN blocks)].seen

\* Every transaction of the branch in the order the walks meet it.
TransactionsOf(branch) == FlattenSeq([k \in DOMAIN branch |-> branch[k].txs])

\* The code returns the newest; transactions with one id have the same outputs.
FindTransaction(branch, id) == {tx \in ToSet(TransactionsOf(branch)) : tx.id = id}

\* Verify's range check on one input.  The key is not compared with the owner of
\* the output, so a signature by any key passes; its encoding is left to the
\* specification of the commands.
VerifyInput(prevTXs, in) == \E prev \in prevTXs : in.vout \in DOMAIN prev.vout

VerifyTransaction(branch, tx) ==
  IsCoinbase(tx) \/
    \A in \in ToSet(tx.vin) : VerifyInput(FindTransaction(branch, in.txid), in)

\* Fault: the walk records a spent index one too high.
CollectTransaction_OffByOne(acc, tx) ==
  LET outs == KeepAt(tx.vout, {i \in DOMAIN tx.vout : <<tx.id, i>> \notin acc.spent})
      old  == IF tx.id \in DOMAIN acc.utxo THEN acc.utxo[tx.id] ELSE <<>>
  IN  [utxo  |-> IF outs = <<>> THEN acc.utxo ELSE Put(acc.utxo, tx.id, old \o outs),
       spent |-> acc.spent \cup {<<in.txid, in.vout + 1>> : in \in ToSet(tx.vin)}]

\* One transaction of FindUTXO's walk: append its outputs that no later
\* transaction spends, then record what it spends itself.
CollectTransaction(acc, tx) ==
  LET outs == KeepAt(tx.vout, {i \in DOMAIN tx.vout : <<tx.id, i>> \notin acc.spent})
      old  == IF tx.id \in DOMAIN acc.utxo THEN acc.utxo[tx.id] ELSE <<>>
  IN  [utxo  |-> IF outs = <<>> THEN acc.utxo ELSE Put(acc.utxo, tx.id, old \o outs),
       spent |-> IF IsCoinbase(tx) THEN acc.spent
                 ELSE acc.spent \cup {<<in.txid, in.vout>> : in \in ToSet(tx.vin)}]

\* What the walk has collected after each transaction.
Collected(txs) ==
  LET acc[n \in 0..Len(txs)] ==
        IF n = 0 THEN [utxo |-> <<>>, spent |-> {}] ELSE CollectTransaction(acc[n - 1], txs[n])
  IN  acc

FindUTXO(branch) ==
  LET txs == TransactionsOf(branch) IN Collected(txs)[Len(txs)].utxo

-----------------------------------------------------------------------------
(* UTXOSet.Update *)

InputsOf(txs) ==
  FlattenSeq([k \in DOMAIN txs |-> IF IsCoinbase(txs[k]) THEN <<>> ELSE txs[k].vin])

\* Fault: the bounds check is one too strict.
CanUpdate_OffByOne(cs, txs) ==
  \A tx \in ToSet(txs) : IsCoinbase(tx) \/
    \A in \in ToSet(tx.vin) : in.txid \in DOMAIN cs /\ in.vout + 1 \in DOMAIN cs[in.txid]

\* Neither "UTXO not found" nor "Vout index out of range" for any input.
CanUpdate(cs, txs) ==
  \A tx \in ToSet(txs) : IsCoinbase(tx) \/
    \A in \in ToSet(tx.vin) : in.txid \in DOMAIN cs /\ in.vout \in DOMAIN cs[in.txid]

\* Fault: an input takes the whole entry.
PendingUpdate_DropsEntry(cs, txs, id) == <<>>

\* pendingUpdates[id]: for each input that names id, the stored outputs except
\* the one it spends; a further input appends to the list of the first.
PendingUpdate(cs, txs, id) ==
  LET ins == InputsOf(txs)
  IN  FlattenSeq([k \in DOMAIN ins |->
        IF ins[k].txid = id THEN KeepAt(cs[id], DOMAIN cs[id] \ {ins[k].vout}) ELSE <<>>])

\* Fault: entries left empty are not deleted.
SpendInputs_KeepsEmptied(cs, txs) ==
  [id \in DOMAIN cs |->
     IF PendingUpdate(cs, txs, id) = <<>> THEN cs[id] ELSE PendingUpdate(cs, txs, id)]

\* Step 1: write the pending lists, delete the entries they leave empty.
SpendInputs(cs, txs) ==
  LET touched == {in.txid : in \in ToSet(InputsOf(txs))}
      emptied == {id \in touched : PendingUpdate(cs, txs, id) = <<>>}
  IN  [id \in DOMAIN cs \ emptied |->
         IF id \in touched THEN PendingUpdate(cs, txs, id) ELSE cs[id]]

\* Step 2: store the outputs of every transaction under its id.
AddOutputs(cs, txs) ==
  LET stored[n \in 0..Len(txs)] ==
        IF n = 0 THEN cs ELSE Put(stored[n - 1], txs[n].id, txs[n].vout)
  IN  stored[Len(txs)]

\* Fault: step 1 is skipped.
UpdateUTXO_OutputsOnly(cs, txs) == AddOutputs(cs, txs)

UpdateUTXO(cs, txs) == AddOutputs(SpendInputs(cs, txs), txs)

-----------------------------------------------------------------------------
(* Safe blocks *)

\* Not in the code: the terms on which its two ways of computing the unspent
\* outputs can be compared.  The block takes two outputs of no one transaction,
SpendsEachOnce(txs) ==
  \A i, j \in DOMAIN InputsOf(txs) : InputsOf(txs)[i].txid = InputsOf(txs)[j].txid => i = j

\* it creates no id whose outputs are unspent once its inputs are gone,
CreatesFreshIds(cs, txs) ==
  /\ \A i \in DOMAIN txs : txs[i].id \notin DOMAIN SpendInputs(cs, txs)
  /\ \A i, j \in DOMAIN txs : txs[i].id = txs[j].id => i = j

\* and no earlier block took another output of a transaction it spends.
SpendsWholeEntries(cs, txs) ==
  \A in \in ToSet(InputsOf(txs)) : cs[in.txid] = in.txid.vout

SafeToApply(cs, txs) ==
  SpendsEachOnce(txs) /\ CreatesFreshIds(cs, txs) /\ SpendsWholeEntries(cs, txs)
=============================================================================
