------------------------------ MODULE NodeStore ------------------------------
(***************************************************************************)
(* The database file of one node and the commands that change it:          *)
(* createblockchain, reindexutxo and send -mine.  bolt's file lock lets    *)
(* one process at a time hold the file, so the commands run one after the  *)
(* other; but each is a sequence of separately committed transactions, and *)
(* the process can die between two of them.                                *)
(*                                                                         *)
(* A command that panics before its first write leaves everything as it    *)
(* was and is not an action: unknown address, not enough funds, database   *)
(* missing or already there.                                               *)
(***************************************************************************)
EXTENDS Ledger

CONSTANTS
  BlockHash,    \* hashes proof of work can yield; also bounds the chain
  Address,      \* addresses in the node's wallet file
  Amounts,      \* amounts the user sends
  MaxCrashes    \* bound on the processes killed in mid-command

ASSUME NodeStoreAssumption == /\ NoBlock \notin BlockHash
                              /\ Amounts \subseteq Nat \ {0}
                              /\ MaxCrashes \in Nat

VARIABLES
  dbFile,       \* blockchain_<nodeID>.db exists
  buckets,      \* buckets created in it
  blocks,       \* bucket "blocks": hash -> block
  tip,          \* key "l" of bucket "blocks"
  chainstate,   \* bucket "chainstate": transaction id -> outputs
  pc,           \* next transaction of the running command, "idle" if none
  job,          \* what the running command works on
  rounds,       \* calls of Reindex left to the running command
  crashes,      \* processes killed so far
  unapplied,    \* history: stored blocks the chainstate does not reflect
  clean         \* history: every block so far was mined on SafeToApply terms

dbVars   == <<dbFile, buckets, blocks, tip, chainstate>>
procVars == <<pc, job, rounds>>
histVars == <<unapplied, clean>>
vars     == <<dbVars, procVars, crashes, histVars>>

NoJob == [from |-> NoTx, to |-> NoTx, amount |-> 0, txs |-> <<>>]

Init ==
  /\ dbFile = FALSE
  /\ buckets = {}
  /\ blocks = <<>>
  /\ tip = NoBlock
  /\ chainstate = <<>>
  /\ pc = "idle"
  /\ job = NoJob
  /\ rounds = 0
  /\ crashes = 0
  /\ unapplied = {}
  /\ clean = TRUE

\* Fault: the block does not name its parent.
NewBlock_NoParent(txs, prev, height) == [height |-> height, prev |-> NoBlock, txs |-> txs]

NewBlock(txs, prev, height) == [height |-> height, prev |-> prev, txs |-> txs]

\* Fault: lastHeight keeps its initial value.
GetBestHeight_NotRead == 0

GetBestHeight == blocks[tip].height

\* Store a block under a hash proof of work finds and make it the tip.
PutBlock(h, block) ==
  /\ blocks' = Put(blocks, h, block)
  /\ tip' = h
  /\ unapplied' = unapplied \cup {h}

-----------------------------------------------------------------------------
(* createblockchain *)

\* bolt.Open creates the file before the transaction that fills it.
CreateBlockchainOpen(to) ==
  /\ pc = "idle"
  /\ ~dbFile
  /\ dbFile' = TRUE
  /\ job' = [from |-> to, to |-> to, amount |-> 0, txs |-> <<NewCoinbaseTX(to)>>]
  /\ pc' = "genesis"
  /\ UNCHANGED <<buckets, blocks, tip, chainstate, rounds, crashes, histVars>>

\* Fault: the command does not build the chainstate.
CreateBlockchain_NoReindex ==
  /\ pc = "genesis"
  /\ \E h \in BlockHash : PutBlock(h, NewBlock(job.txs, NoBlock, 0))
  /\ buckets' = buckets \cup {"blocks"}
  /\ pc' = "idle"
  /\ job' = NoJob
  /\ UNCHANGED <<dbFile, chainstate, rounds, crashes, clean>>

CreateBlockchain ==
  /\ pc = "genesis"
  /\ \E h \in BlockHash : PutBlock(h, NewBlock(job.txs, NoBlock, 0))
  /\ buckets' = buckets \cup {"blocks"}
  /\ pc' = "drop"
  /\ rounds' = 1
  /\ job' = NoJob
  /\ UNCHANGED <<dbFile, chainstate, crashes, clean>>

-----------------------------------------------------------------------------
(* reindexutxo *)

\* The command calls Reindex twice.
ReindexUTXO ==
  /\ pc = "idle"
  /\ tip # NoBlock
  /\ pc' = "drop"
  /\ rounds' = 2
  /\ UNCHANGED <<dbVars, job, crashes, histVars>>

\* First transaction of Reindex: delete the bucket and create it empty.
ReindexDrop ==
  /\ pc = "drop"
  /\ buckets' = buckets \cup {"chainstate"}
  /\ chainstate' = <<>>
  /\ unapplied' = DOMAIN blocks
  /\ pc' = "fill"
  /\ UNCHANGED <<dbFile, blocks, tip, job, rounds, crashes, clean>>

\* Fault: the rounds are counted one too far.
ReindexFill_OneMore ==
  /\ pc = "fill"
  /\ chainstate' = PutAll(chainstate, FindUTXO(Branch(blocks, tip)))
  /\ unapplied' = {}
  /\ rounds' = rounds - 1
  /\ pc' = IF rounds >= 1 THEN "drop" ELSE "idle"
  /\ UNCHANGED <<dbFile, buckets, blocks, tip, job, crashes, clean>>

\* Walk the chain, then the second transaction stores what is unspent.
ReindexFill ==
  /\ pc = "fill"
  /\ chainstate' = PutAll(chainstate, FindUTXO(Branch(blocks, tip)))
  /\ unapplied' = {}
  /\ rounds' = rounds - 1
  /\ pc' = IF rounds > 1 THEN "drop" ELSE "idle"
  /\ UNCHANGED <<dbFile, buckets, blocks, tip, job, crashes, clean>>

-----------------------------------------------------------------------------
(* send -mine *)

\* Collect the inputs, build and sign the transaction, add the reward.
Send(from, to, amount) ==
  /\ pc = "idle"
  /\ "chainstate" \in buckets
  /\ \E tx \in NewUTXOTransaction(chainstate, from, to, amount) :
       job' = [from |-> from, to |-> to, amount |-> amount,
               txs |-> <<NewCoinbaseTX(from), tx>>]
  /\ pc' = "mine"
  /\ UNCHANGED <<dbVars, rounds, crashes, histVars>>

\* MineBlock refuses the block and the command panics.  Signatures and keys are
\* stored without leading zeros and split in the middle, so the check can fail
\* for a transaction the wallet signed itself.
MineBlockFails ==
  /\ pc = "mine"
  /\ pc' = "idle"
  /\ job' = NoJob
  /\ UNCHANGED <<dbVars, rounds, crashes, histVars>>

MineBlock ==
  /\ pc = "mine"
  /\ \A tx \in ToSet(job.txs) : VerifyTransaction(Branch(blocks, tip), tx)
  /\ \E h \in BlockHash \ DOMAIN blocks :
       PutBlock(h, NewBlock(job.txs, tip, GetBestHeight + 1))
  /\ clean' = (clean /\ unapplied = {} /\ SafeToApply(chainstate, job.txs))
  /\ pc' = "update"
  /\ UNCHANGED <<dbFile, buckets, chainstate, job, rounds, crashes>>

\* UTXOSet.Update commits, or returns an error that rolls it back and makes the
\* command panic.
Update ==
  /\ pc = "update"
  /\ LET applies == CanUpdate(chainstate, blocks[tip].txs)
     IN  /\ chainstate' = IF applies THEN UpdateUTXO(chainstate, blocks[tip].txs) ELSE chainstate
         /\ unapplied' = IF applies THEN unapplied \ {tip} ELSE unapplied
  /\ pc' = "idle"
  /\ job' = NoJob
  /\ UNCHANGED <<dbFile, buckets, blocks, tip, rounds, crashes, clean>>

-----------------------------------------------------------------------------
\* The process dies between two transactions: killed, out of power, or by a
\* panic of its own.
Crash ==
  /\ pc # "idle"
  /\ crashes < MaxCrashes
  /\ crashes' = crashes + 1
  /\ pc' = "idle"
  /\ job' = NoJob
  /\ rounds' = 0
  /\ UNCHANGED <<dbVars, histVars>>

Next ==
  \/ \E to \in Address : CreateBlockchainOpen(to)
  \/ CreateBlockchain
  \/ ReindexUTXO
  \/ ReindexDrop
  \/ ReindexFill
  \/ \E from, to \in Address, amount \in Amounts : Send(from, to, amount)
  \/ MineBlockFails
  \/ MineBlock
  \/ Update
  \/ Crash

Spec == Init /\ [][Next]_vars

-----------------------------------------------------------------------------
(* Properties *)

\* The shape of the state.
TypeOK ==
  /\ dbFile \in BOOLEAN
  /\ buckets \subseteq {"blocks", "chainstate"}
  /\ DOMAIN blocks \subseteq BlockHash
  /\ \A h \in DOMAIN blocks : /\ blocks[h].height \in Nat
                              /\ blocks[h].prev \in BlockHash \cup {NoBlock}
  /\ tip \in BlockHash \cup {NoBlock}
  /\ pc \in {"idle", "genesis", "drop", "fill", "mine", "update"}
  /\ job.from \in Address \cup {NoTx}
  /\ job.to \in Address \cup {NoTx}
  /\ job.amount \in Amounts \cup {0}
  /\ rounds \in 0..2
  /\ crashes \in 0..MaxCrashes
  /\ unapplied \subseteq DOMAIN blocks
  /\ clean \in BOOLEAN

\* Wherever the process dies, the iterator of the next one can walk from the tip
\* to a genesis block without meeting a missing block, and the walk passes every
\* block stored: heights go down by one and no two blocks have the same.
ChainInv ==
  /\ tip = NoBlock <=> DOMAIN blocks = {}
  /\ tip # NoBlock => tip \in DOMAIN blocks
  /\ \A h \in DOMAIN blocks :
       /\ blocks[h].height <= blocks[tip].height
       /\ IF blocks[h].prev = NoBlock
          THEN blocks[h].height = 0
          ELSE /\ blocks[h].prev \in DOMAIN blocks
               /\ blocks[h].height = blocks[blocks[h].prev].height + 1
  /\ \A g, h \in DOMAIN blocks : blocks[g].height = blocks[h].height => g = h

\* The block a node mined itself always applies to its chainstate, also when
\* the chainstate fell behind the chain in a crash: its inputs were collected
\* from the entries that Update looks up.
UpdateNeverFails == pc = "update" => CanUpdate(chainstate, blocks[tip].txs)

\* Unless a process died in mid-command, every command ends with the chainstate
\* reflecting every block stored.
Settled == crashes = 0 /\ pc = "idle" => unapplied = {}

InputsOfChain == InputsOf(TransactionsOf(Branch(blocks, tip)))

\* No output is spent on the chain more often than it was created there.
NoDoubleSpend ==
  LET ins == InputsOfChain
      txs == TransactionsOf(Branch(blocks, tip))
  IN  \A in \in ToSet(ins) :
        Cardinality({k \in DOMAIN ins : ins[k].txid = in.txid /\ ins[k].vout = in.vout})
          <= Cardinality({k \in DOMAIN txs : txs[k].id = in.txid})

\* The output an input on the chain names is one its signer owned.
SpendsOwnOutput ==
  \A in \in ToSet(InputsOfChain) :
    in.vout \in DOMAIN in.txid.vout /\ in.txid.vout[in.vout].owner = in.pubKey

\* The coins that can be spent are at most the coins that were mined.
NoInflation == Total(chainstate) <= Subsidy * Cardinality(DOMAIN blocks)

Consistent == pc = "idle" /\ clean /\ unapplied = {} /\ tip # NoBlock

\* On a chain of safe blocks, applying them one by one leaves in the bucket what
\* reindexing the chain puts there.
ReindexAgrees == Consistent => chainstate = FindUTXO(Branch(blocks, tip))

\* On a chain of safe blocks no coin is lost and none appears.
Conservation == Consistent => Total(chainstate) = Subsidy * Cardinality(DOMAIN blocks)

\* The block settles the payment: the recipient gains the amount, the sender
\* gains the reward less the amount, nobody else is touched.
SettlesPayment ==
  \A a \in Address :
    GetBalance(chainstate', a) = GetBalance(chainstate, a)
      + (IF a = job.to THEN job.amount ELSE 0)
      + (IF a = job.from THEN Subsidy - job.amount ELSE 0)

Completes == pc = "update" /\ pc' = "idle" /\ crashes' = crashes

\* A send that completes settles the payment, if its block takes no transaction's
\* outputs twice and overwrites no live entry.
SafePaymentSettles ==
  [][Completes /\ SpendsEachOnce(job.txs) /\ CreatesFreshIds(chainstate, job.txs)
       => SettlesPayment]_vars

Log == INSTANCE ChainLog WITH
         stored <- DOMAIN blocks,
         head   <- tip,
         parent <- [h \in DOMAIN blocks |-> blocks[h].prev]

\* The store implements the append-only chain: no command and no crash removes a
\* block, rewrites one or moves the tip other than to a new child of it.
ImplementsChainLog == Log!Spec
=============================================================================
