--------------------------- MODULE NodeStoreProofs ---------------------------
(***************************************************************************)
(* Theorems about NodeStore, for every set of hashes, addresses and        *)
(* amounts and any number of crashes.  First the chain of blocks and the   *)
(* order of the commands, where the operators that fold over the chain     *)
(* stay unexpanded; then what is in the bucket, from the lemmas of         *)
(* LedgerProofs about those operators.                                     *)
(***************************************************************************)
EXTENDS NodeStore, LedgerProofs, TLAPS

\* What ties the program counter to the file: where the running command stands
\* says what the buckets hold, and the block being applied is the one the
\* inputs were collected for.
Progress ==
  /\ ~dbFile => DOMAIN blocks = {} /\ pc = "idle"
  /\ "chainstate" \in buckets => DOMAIN blocks # {}
  /\ pc = "genesis" <=> DOMAIN blocks = {} /\ pc # "idle"
  /\ pc \in {"mine", "update"} => CanUpdate(chainstate, job.txs)
  /\ pc = "update" => blocks[tip].txs = job.txs
  /\ pc \in {"drop", "fill"} => rounds \in {1, 2}

\* Without a crash only the command that runs can owe the chainstate a block.
Owed ==
  crashes = 0 => /\ pc \in {"idle", "genesis", "mine"} => unapplied = {}
                 /\ pc = "update" => unapplied = {tip}

StoreInv == TypeOK /\ ChainInv /\ Progress /\ Owed

-----------------------------------------------------------------------------
(* The chain *)

\* Storing a block touches one key of the bucket and the tip.
LEMMA PutBlockKeys ==
  ASSUME NEW h, NEW txs, NEW prev, NEW height, PutBlock(h, NewBlock(txs, prev, height))
  PROVE  /\ DOMAIN blocks' = DOMAIN blocks \cup {h}
         /\ blocks'[h].height = height
         /\ blocks'[h].prev = prev
         /\ blocks'[h].txs = txs
         /\ \A k \in DOMAIN blocks \ {h} : blocks'[k] = blocks[k]
         /\ tip' = h
         /\ unapplied' = unapplied \cup {h}
<1>1. blocks' = [k \in DOMAIN blocks \cup {h} |->
                  IF k = h THEN NewBlock(txs, prev, height) ELSE blocks[k]]
  BY DEF PutBlock, Put
<1>2. blocks'[h] = [height |-> height, prev |-> prev, txs |-> txs]
  BY <1>1 DEF NewBlock
<1> QED
  BY <1>1, <1>2 DEF PutBlock

-----------------------------------------------------------------------------
(* The invariant *)

LEMMA InitInv == Init => StoreInv
<1> SUFFICES ASSUME Init PROVE StoreInv
  OBVIOUS
<1> USE NodeStoreAssumption DEF Init
<1>1. DOMAIN blocks = {}
  OBVIOUS
<1>2. job.from = NoTx /\ job.to = NoTx /\ job.amount = 0
  BY DEF NoJob
<1>3. clean \in BOOLEAN /\ dbFile \in BOOLEAN
  OBVIOUS
<1>4. TypeOK
  BY <1>1, <1>2, <1>3 DEF TypeOK
<1>5. ChainInv
  BY <1>1 DEF ChainInv
<1>6. Progress /\ Owed
  BY <1>1 DEF Progress, Owed
<1> QED
  BY <1>4, <1>5, <1>6 DEF StoreInv

\* A block put under a new hash with the tip as its parent keeps the chain whole.
LEMMA PutBlockKeepsChain ==
  ASSUME TypeOK, ChainInv, NEW h \in BlockHash \ DOMAIN blocks, NEW txs, NEW height,
         IF tip = NoBlock THEN height = 0 ELSE height = GetBestHeight + 1,
         PutBlock(h, NewBlock(txs, tip, height))
  PROVE  /\ ChainInv'
         /\ DOMAIN blocks' = DOMAIN blocks \cup {h}
         /\ blocks'[h].txs = txs
         /\ \A k \in DOMAIN blocks' : /\ blocks'[k].height \in Nat
                                      /\ blocks'[k].prev \in BlockHash \cup {NoBlock}
<1> USE NodeStoreAssumption
<1>1. /\ DOMAIN blocks' = DOMAIN blocks \cup {h}
      /\ \A k \in DOMAIN blocks : blocks'[k] = blocks[k]
      /\ blocks'[h].height = height /\ blocks'[h].prev = tip /\ blocks'[h].txs = txs
      /\ tip' = h
  BY PutBlockKeys
<1>2. height \in Nat /\ \A k \in DOMAIN blocks : blocks[k].height < height
  BY DEF TypeOK, ChainInv, GetBestHeight
<1>3. \A k \in DOMAIN blocks' : /\ blocks'[k].height \in Nat
                                /\ blocks'[k].prev \in BlockHash \cup {NoBlock}
  BY <1>1, <1>2 DEF TypeOK
<1>4. \A k \in DOMAIN blocks' : blocks'[k].height <= blocks'[h].height
  BY <1>1, <1>2, <1>3 DEF TypeOK
<1>5. \A k \in DOMAIN blocks' :
        IF blocks'[k].prev = NoBlock
        THEN blocks'[k].height = 0
        ELSE /\ blocks'[k].prev \in DOMAIN blocks'
             /\ blocks'[k].height = blocks'[blocks'[k].prev].height + 1
  BY <1>1 DEF ChainInv, GetBestHeight
<1>6. \A g, k \in DOMAIN blocks' : blocks'[g].height = blocks'[k].height => g = k
  BY <1>1, <1>2 DEF ChainInv, TypeOK
<1>7. ChainInv'
  BY <1>1, <1>4, <1>5, <1>6 DEF ChainInv
<1> QED
  BY <1>1, <1>3, <1>7

LEMMA NextInv == StoreInv /\ [Next]_vars => StoreInv'
<1> SUFFICES ASSUME StoreInv, [Next]_vars PROVE StoreInv'
  OBVIOUS
<1> USE NodeStoreAssumption DEF StoreInv
<1>1. ASSUME NEW to \in Address, CreateBlockchainOpen(to) PROVE StoreInv'
  <2> USE <1>1 DEF CreateBlockchainOpen
  <2>1. TypeOK'
    BY DEF TypeOK, histVars
  <2>2. ChainInv'
    BY DEF ChainInv
  <2>3. Progress' /\ Owed'
    BY DEF Progress, Owed, histVars
  <2> QED
    BY <2>1, <2>2, <2>3
<1>2. ASSUME CreateBlockchain PROVE StoreInv'
  <2> USE <1>2 DEF CreateBlockchain
  <2>1. DOMAIN blocks = {} /\ tip = NoBlock
    BY DEF Progress, ChainInv
  <2>2. PICK h \in BlockHash : PutBlock(h, NewBlock(job.txs, NoBlock, 0))
    OBVIOUS
  <2>3. /\ ChainInv'
        /\ DOMAIN blocks' = {h}
        /\ \A k \in DOMAIN blocks' : /\ blocks'[k].height \in Nat
                                     /\ blocks'[k].prev \in BlockHash \cup {NoBlock}
    <3>1. TypeOK /\ ChainInv /\ h \in BlockHash \ DOMAIN blocks
      BY <2>1
    <3>2. PutBlock(h, NewBlock(job.txs, tip, 0)) /\ IF tip = NoBlock THEN 0 = 0 ELSE 0 = GetBestHeight + 1
      BY <2>1, <2>2
    <3>3. /\ ChainInv'
          /\ DOMAIN blocks' = DOMAIN blocks \cup {h}
          /\ \A k \in DOMAIN blocks' : /\ blocks'[k].height \in Nat
                                       /\ blocks'[k].prev \in BlockHash \cup {NoBlock}
      BY <3>1, <3>2, PutBlockKeepsChain, Zenon
    <3> QED
      BY <2>1, <3>3
  <2>4. TypeOK'
    <3>1. job'.from = NoTx /\ job'.to = NoTx /\ job'.amount = 0
      BY DEF NoJob
    <3>2. tip' = h /\ unapplied' = unapplied \cup {h}
      BY <2>2, PutBlockKeys
    <3> QED
      BY <2>1, <2>3, <3>1, <3>2 DEF TypeOK
  <2>5. Progress' /\ Owed'
    BY <2>3 DEF Progress, Owed
  <2> QED
    BY <2>3, <2>4, <2>5
<1>3. ASSUME ReindexUTXO PROVE StoreInv'
  <2> USE <1>3 DEF ReindexUTXO, dbVars, histVars
  <2>1. TypeOK'
    BY DEF TypeOK
  <2>2. ChainInv'
    BY DEF ChainInv
  <2>3. Progress' /\ Owed'
    BY DEF Progress, Owed, ChainInv
  <2> QED
    BY <2>1, <2>2, <2>3
<1>4. ASSUME ReindexDrop PROVE StoreInv'
  <2> USE <1>4 DEF ReindexDrop
  <2>1. TypeOK'
    BY DEF TypeOK
  <2>2. ChainInv'
    BY DEF ChainInv
  <2>3. Progress' /\ Owed'
    BY DEF Progress, Owed
  <2> QED
    BY <2>1, <2>2, <2>3
<1>5. ASSUME ReindexFill PROVE StoreInv'
  <2> USE <1>5 DEF ReindexFill
  <2>1. TypeOK'
    BY DEF TypeOK, Progress
  <2>2. ChainInv'
    BY DEF ChainInv
  <2>3. Progress' /\ Owed'
    BY DEF Progress, Owed
  <2> QED
    BY <2>1, <2>2, <2>3
<1>6. ASSUME NEW from \in Address, NEW to \in Address, NEW amount \in Amounts,
             Send(from, to, amount)
      PROVE  StoreInv'
  <2> USE <1>6 DEF Send, dbVars, histVars
  <2>1. PICK tx \in NewUTXOTransaction(chainstate, from, to, amount) :
          job' = [from |-> from, to |-> to, amount |-> amount,
                  txs |-> <<NewCoinbaseTX(from), tx>>]
    OBVIOUS
  <2>2. CanUpdate(chainstate, <<NewCoinbaseTX(from), tx>>)
    BY SendApplies
  <2>3. TypeOK'
    BY <2>1 DEF TypeOK
  <2>4. ChainInv'
    BY DEF ChainInv
  <2>5. Progress' /\ Owed'
    BY <2>1, <2>2 DEF Progress, Owed
  <2> QED
    BY <2>3, <2>4, <2>5
<1>7. ASSUME MineBlockFails PROVE StoreInv'
  <2> USE <1>7 DEF MineBlockFails, dbVars, histVars
  <2>1. TypeOK'
    BY DEF TypeOK, NoJob
  <2>2. ChainInv'
    BY DEF ChainInv
  <2>3. Progress' /\ Owed'
    BY DEF Progress, Owed
  <2> QED
    BY <2>1, <2>2, <2>3
<1>8. ASSUME MineBlock PROVE StoreInv'
  <2> USE <1>8 DEF MineBlock
  <2>1. tip # NoBlock
    BY DEF Progress, ChainInv
  <2>2. PICK h \in BlockHash \ DOMAIN blocks :
          PutBlock(h, NewBlock(job.txs, tip, GetBestHeight + 1))
    OBVIOUS
  <2>3. /\ ChainInv'
        /\ DOMAIN blocks' = DOMAIN blocks \cup {h}
        /\ blocks'[h].txs = job.txs
        /\ \A k \in DOMAIN blocks' : /\ blocks'[k].height \in Nat
                                     /\ blocks'[k].prev \in BlockHash \cup {NoBlock}
    BY <2>1, <2>2, PutBlockKeepsChain
  <2>4. clean' \in BOOLEAN
    OBVIOUS
  <2>5. TypeOK'
    BY <2>2, <2>3, <2>4 DEF TypeOK, PutBlock
  <2>6. Progress' /\ Owed'
    BY <2>2, <2>3 DEF Progress, Owed, PutBlock
  <2> QED
    BY <2>3, <2>5, <2>6
<1>9. ASSUME Update PROVE StoreInv'
  <2> USE <1>9 DEF Update
  <2>1. CanUpdate(chainstate, blocks[tip].txs)
    BY DEF Progress
  <2>2. unapplied' = unapplied \ {tip}
    BY <2>1
  <2>3. TypeOK'
    BY <2>2 DEF TypeOK, NoJob
  <2>4. ChainInv'
    BY DEF ChainInv
  <2>5. Progress' /\ Owed'
    BY <2>2 DEF Progress, Owed
  <2> QED
    BY <2>3, <2>4, <2>5
<1>10. ASSUME Crash PROVE StoreInv'
  <2> USE <1>10 DEF Crash, dbVars, histVars
  <2>1. TypeOK'
    BY DEF TypeOK, NoJob
  <2>2. ChainInv'
    BY DEF ChainInv
  <2>3. Progress'
    BY DEF Progress
  <2>4. Owed'
    BY DEF Owed, TypeOK
  <2> QED
    BY <2>1, <2>2, <2>3, <2>4
<1>11. ASSUME UNCHANGED vars PROVE StoreInv'
  <2> USE <1>11 DEF vars, dbVars, procVars, histVars
  <2>1. TypeOK'
    BY DEF TypeOK
  <2>2. ChainInv' /\ Progress' /\ Owed'
    BY DEF ChainInv, Progress, Owed
  <2> QED
    BY <2>1, <2>2
<1> QED
  BY <1>1, <1>2, <1>3, <1>4, <1>5, <1>6, <1>7, <1>8, <1>9, <1>10, <1>11 DEF Next

LEMMA StoreInvariant == Spec => []StoreInv
BY InitInv, NextInv, PTL DEF Spec

-----------------------------------------------------------------------------
(* The theorems *)

\* Type correctness of the store.
THEOREM TypeCorrect == Spec => []TypeOK
BY StoreInvariant, PTL DEF StoreInv

\* Whatever is sent and wherever a process dies, the next one can walk the
\* chain from its tip to a genesis block, and every stored block is on it.
THEOREM ChainIsWhole == Spec => []ChainInv
BY StoreInvariant, PTL DEF StoreInv

\* Update never rejects a block the node mined itself.
THEOREM MinedBlocksApply == Spec => []UpdateNeverFails
<1>1. StoreInv => UpdateNeverFails
  BY DEF StoreInv, Progress, UpdateNeverFails
<1> QED
  BY <1>1, StoreInvariant, PTL

\* Without a crash the chainstate is up to date whenever no command runs.
THEOREM CommandsSettle == Spec => []Settled
<1>1. StoreInv => Settled
  BY DEF StoreInv, Owed, Settled
<1> QED
  BY <1>1, StoreInvariant, PTL

\* The store is an append-only chain of blocks.
THEOREM StoreImplementsLog == Spec => ImplementsChainLog
<1>1. Init => Log!Init
  BY DEF Init, Log!Init
<1>2. StoreInv /\ [Next]_vars => [Log!Append]_Log!logVars
  <2> SUFFICES ASSUME StoreInv, [Next]_vars,
                      ~(blocks' = blocks /\ tip' = tip)
               PROVE  Log!Append
    BY DEF Log!logVars
  <2>1. CreateBlockchain \/ MineBlock
    BY DEF Next, CreateBlockchainOpen, ReindexUTXO, ReindexDrop, ReindexFill, Send,
           MineBlockFails, Update, Crash, vars, dbVars
  <2>2. PICK h \in BlockHash \ DOMAIN blocks, height \in Int :
          PutBlock(h, NewBlock(job.txs, tip, height))
    <3>1. CASE CreateBlockchain
      BY <3>1 DEF CreateBlockchain, StoreInv, Progress, ChainInv
    <3>2. CASE MineBlock
      <4>1. tip \in DOMAIN blocks
        BY <3>2 DEF MineBlock, StoreInv, Progress, ChainInv
      <4>2. GetBestHeight + 1 \in Int
        BY <4>1 DEF StoreInv, TypeOK, GetBestHeight
      <4> QED
        BY <3>2, <4>2 DEF MineBlock
    <3> QED
      BY <2>1, <3>1, <3>2
  <2>3. /\ DOMAIN blocks' = DOMAIN blocks \cup {h}
        /\ \A k \in DOMAIN blocks \ {h} : blocks'[k] = blocks[k]
        /\ blocks'[h].prev = tip
        /\ tip' = h
    BY <2>2, PutBlockKeys, Zenon
  <2> QED
    BY <2>2, <2>3 DEF Log!Append
<1> QED
  BY <1>1, <1>2, StoreInvariant, PTL DEF Spec, ImplementsChainLog, Log!Spec

-----------------------------------------------------------------------------
(* What is in the bucket *)

ChainShape == IsFiniteSet(DOMAIN blocks) /\ Shapely(Address, blocks)

BucketShape ==
  /\ IsChainstate(chainstate, Coins(Address))
  /\ NoTx \notin DOMAIN chainstate
  /\ pc = "fill" => chainstate = <<>>

\* The running command works on a reward, or on a payment from the bucket.
JobShape ==
  /\ pc = "genesis" => \E to \in Address : job.txs = <<NewCoinbaseTX(to)>>
  /\ pc \in {"mine", "update"} =>
       /\ job.from \in Address
       /\ job.to \in Address
       /\ job.amount \in Amounts
       /\ \E tx : /\ IsPayment(Address, chainstate, tx, job.from, job.to, job.amount)
                  /\ job.txs = <<NewCoinbaseTX(job.from), tx>>

\* The bucket holds what the walk would collect, or will once Update is through.
CleanChain ==
  /\ pc = "update" => tip \in unapplied
  /\ clean => /\ SafeChain(blocks, tip)
              /\ Total(chainstate) <= Subsidy * Cardinality(DOMAIN blocks)
              /\ unapplied = {} => chainstate = FindUTXO(Branch(blocks, tip))
              /\ pc = "update" => FindUTXO(Branch(blocks, tip)) = UpdateUTXO(chainstate, job.txs)

LedgerInv == ChainShape /\ BucketShape /\ JobShape /\ CleanChain

LEMMA LedgerInit == Init => LedgerInv
<1> SUFFICES ASSUME Init PROVE LedgerInv
  OBVIOUS
<1>1. DOMAIN blocks = {} /\ tip = NoBlock /\ chainstate = <<>> /\ pc = "idle"
  BY DEF Init
<1>2. ChainShape
  <2>1. Shaped(Address, {}) /\ Carries(blocks, {})
    BY <1>1 DEF Shaped, Carries
  <2> QED
    BY <1>1, <2>1, FS_EmptySet DEF ChainShape, Shapely
<1>3. BucketShape
  BY <1>1, EmptyIsChainstate DEF BucketShape
<1>4. JobShape
  BY <1>1 DEF JobShape
<1>5. CleanChain
  <2>1. SafeChain(blocks, tip) /\ FindUTXO(Branch(blocks, tip)) = <<>> /\ Total(<<>>) = 0
    BY <1>1, EmptyIsSafe
  <2>2. Subsidy * Cardinality(DOMAIN blocks) = 0
    BY <1>1, FS_EmptySet, SubsidyAssumption
  <2> QED
    BY <1>1, <2>1, <2>2 DEF CleanChain
<1> QED
  BY <1>2, <1>3, <1>4, <1>5 DEF LedgerInv

\* The chain and the bucket stay and no command is in the middle of a block.
LEMMA LedgerUntouched ==
  ASSUME LedgerInv, UNCHANGED <<blocks, tip, chainstate, unapplied, clean>>,
         pc' \in {"idle", "drop"}
  PROVE  LedgerInv'
<1>1. ChainShape'
  BY DEF LedgerInv, ChainShape
<1>2. BucketShape'
  BY DEF LedgerInv, BucketShape
<1>3. JobShape'
  BY DEF JobShape
<1>4. CleanChain'
  BY DEF LedgerInv, CleanChain
<1> QED
  BY <1>1, <1>2, <1>3, <1>4 DEF LedgerInv

LEMMA ChainClosed ==
  ASSUME StoreInv, LedgerInv
  PROVE  Closed(blocks) /\ tip \in DOMAIN blocks \cup {NoBlock}
BY NodeStoreAssumption DEF StoreInv, LedgerInv, TypeOK, ChainInv, ChainShape, Closed

\* createblockchain stores the genesis block: the chain is worth its reward.
LEMMA LedgerGenesis == StoreInv /\ LedgerInv /\ CreateBlockchain => LedgerInv'
<1> SUFFICES ASSUME StoreInv, LedgerInv, CreateBlockchain PROVE LedgerInv'
  OBVIOUS
<1>1. DOMAIN blocks = {}
  BY DEF CreateBlockchain, StoreInv, Progress
<1>2. PICK to \in Address : job.txs = <<NewCoinbaseTX(to)>>
  BY DEF CreateBlockchain, LedgerInv, JobShape
<1>3. PICK h \in BlockHash : PutBlock(h, NewBlock(job.txs, NoBlock, 0))
  BY DEF CreateBlockchain
<1> DEFINE B == NewBlock(job.txs, NoBlock, 0)
           c == NewCoinbaseTX(to)
<1>4. blocks' = Put(blocks, h, B) /\ tip' = h /\ unapplied' = unapplied \cup {h}
  BY <1>3 DEF PutBlock
<1>5. B.txs = <<c>> /\ FitsOn(blocks, NoBlock, h, B)
  BY <1>1, <1>2, NodeStoreAssumption DEF NewBlock, FitsOn
<1>6. UNCHANGED <<chainstate, clean>> /\ pc' = "drop"
  BY DEF CreateBlockchain
<1> HIDE DEF B
<1>7. DOMAIN blocks' = {h}
  BY <1>1, <1>4, Zenon DEF Put
<1>8. ChainShape'
  <2>1. TxShape(Address, c)
    BY RewardShape
  <2> HIDE DEF c
  <2>2. PICK TX : Shaped(Address, TX) /\ Carries(blocks, TX) /\ c \in TX
    BY <2>1, CommonTransactions DEF LedgerInv, ChainShape
  <2>3. B.txs \in Seq(TX)
    BY <1>5, <2>2
  <2>4. Shapely(Address, blocks')
    BY <1>4, <2>2, <2>3, PutKeepsShape
  <2> QED
    BY <1>7, <2>4, FS_Singleton DEF ChainShape
<1>9. BucketShape'
  BY <1>6 DEF LedgerInv, BucketShape
<1>10. JobShape'
  BY <1>6 DEF JobShape
<1>11. ASSUME clean
       PROVE  SafeChain(blocks', tip') /\ Total(chainstate') <= Subsidy * Cardinality(DOMAIN blocks')
  <2>1. SafeChain(blocks', tip')
    BY <1>1, <1>4, <1>5, GenesisIsSafe
  <2>2. Total(chainstate) <= Subsidy * Cardinality(DOMAIN blocks)
    BY <1>11 DEF LedgerInv, CleanChain
  <2>3. Cardinality(DOMAIN blocks) = 0 /\ Cardinality(DOMAIN blocks') = 1
    BY <1>1, <1>7, FS_EmptySet, FS_Singleton
  <2>4. Total(chainstate) \in Int
    BY TotalType DEF LedgerInv, BucketShape
  <2> QED
    BY <1>6, <2>1, <2>2, <2>3, <2>4, SubsidyAssumption
<1>12. CleanChain'
  BY <1>4, <1>6, <1>11 DEF CleanChain
<1> QED
  BY <1>8, <1>9, <1>10, <1>12 DEF LedgerInv

\* Reindex empties the bucket,
LEMMA LedgerDrop == StoreInv /\ LedgerInv /\ ReindexDrop => LedgerInv'
<1> SUFFICES ASSUME StoreInv, LedgerInv, ReindexDrop PROVE LedgerInv'
  OBVIOUS
<1>1. /\ UNCHANGED <<blocks, tip, clean>>
      /\ chainstate' = <<>> /\ unapplied' = DOMAIN blocks /\ pc' = "fill"
      /\ DOMAIN blocks # {}
  BY DEF ReindexDrop, StoreInv, Progress
<1>2. ChainShape'
  BY <1>1 DEF LedgerInv, ChainShape
<1>3. BucketShape'
  BY <1>1, EmptyIsChainstate DEF BucketShape
<1>4. JobShape'
  BY <1>1 DEF JobShape
<1>5. Total(<<>>) <= Subsidy * Cardinality(DOMAIN blocks)
  <2>1. Total(<<>>) = 0
    BY EmptyIsChainstate, TotalIsHeld, HeldNone
  <2>2. Cardinality(DOMAIN blocks) \in Nat
    BY FS_CardinalityType DEF LedgerInv, ChainShape
  <2> QED
    BY <2>1, <2>2, SubsidyAssumption
<1>6. CleanChain'
  BY <1>1, <1>5 DEF LedgerInv, CleanChain
<1> QED
  BY <1>2, <1>3, <1>4, <1>6 DEF LedgerInv

\* and stores what the walk collects.
LEMMA LedgerFill == StoreInv /\ LedgerInv /\ ReindexFill => LedgerInv'
<1> SUFFICES ASSUME StoreInv, LedgerInv, ReindexFill PROVE LedgerInv'
  OBVIOUS
<1> DEFINE u == FindUTXO(Branch(blocks, tip))
<1>1. /\ UNCHANGED <<blocks, tip, clean>>
      /\ chainstate' = PutAll(chainstate, u) /\ unapplied' = {} /\ pc' \in {"drop", "idle"}
      /\ chainstate = <<>>
  BY DEF ReindexFill, LedgerInv, BucketShape
<1>2. IsChainstate(u, Coins(Address)) /\ NoTx \notin DOMAIN u
  BY ChainClosed, WalkedBucket DEF LedgerInv, ChainShape
<1> HIDE DEF u
<1>3. chainstate' = u
  <2>1. u = [id \in DOMAIN u |-> u[id]]
    BY <1>2 DEF IsChainstate
  <2>2. DOMAIN <<>> \cup DOMAIN u = DOMAIN u
    OBVIOUS
  <2> QED
    BY <1>1, <2>1, <2>2 DEF PutAll
<1>4. ChainShape'
  BY <1>1 DEF LedgerInv, ChainShape
<1>5. BucketShape'
  BY <1>1, <1>2, <1>3 DEF BucketShape
<1>6. JobShape'
  BY <1>1 DEF JobShape
<1>7. ASSUME clean PROVE Total(u) <= Subsidy * Cardinality(DOMAIN blocks)
  <2>1. Total(u) = Subsidy * Cardinality(DOMAIN blocks)
    BY <1>7 DEF LedgerInv, CleanChain, SafeChain, u
  <2>2. Total(u) \in Int
    BY <1>2, TotalType
  <2> QED
    BY <2>1, <2>2
<1>8. CleanChain'
  BY <1>1, <1>3, <1>7 DEF LedgerInv, CleanChain, u
<1> QED
  BY <1>4, <1>5, <1>6, <1>8 DEF LedgerInv

\* What Update leaves in the bucket, whatever the payment takes.
LEMMA UpdatedBucket ==
  ASSUME NEW cs, IsChainstate(cs, Coins(Address)), NoTx \notin DOMAIN cs,
         NEW from \in Address, NEW to \in Address, NEW amount \in Nat,
         NEW tx, IsPayment(Address, cs, tx, from, to, amount)
  PROVE  /\ IsChainstate(UpdateUTXO(cs, <<NewCoinbaseTX(from), tx>>), Coins(Address))
         /\ NoTx \notin DOMAIN UpdateUTXO(cs, <<NewCoinbaseTX(from), tx>>)
<1> DEFINE c == NewCoinbaseTX(from)
           O == Coins(Address)
           I == ToSet(tx.vin)
<1>1. TxShape(Address, c) /\ TxShape(Address, tx)
  BY RewardShape, PaymentShape
<1>2. InputsOf(<<c, tx>>) \in Seq(I)
  BY PaymentBlock
<1>3. c.vout \in Seq(O) /\ c.vout # <<>> /\ c.id # NoTx
  BY <1>1 DEF TxShape
<1>4. tx.vout \in Seq(O) /\ tx.vout # <<>> /\ tx.id # NoTx
  BY <1>1 DEF TxShape
<1> HIDE DEF c, O, I
<1>5. /\ IsChainstate(UpdateUTXO(cs, <<c, tx>>), O)
      /\ DOMAIN UpdateUTXO(cs, <<c, tx>>) \subseteq DOMAIN cs \cup {c.id, tx.id}
  BY <1>2, <1>3, <1>4, UpdateType DEF O
<1> QED
  BY <1>3, <1>4, <1>5 DEF c, O

\* MineBlock puts the block on the chain.  On a safe chain the walk of the longer
\* chain collects what Update is about to store.
LEMMA LedgerMine == StoreInv /\ LedgerInv /\ MineBlock => LedgerInv'
<1> SUFFICES ASSUME StoreInv, LedgerInv, MineBlock PROVE LedgerInv'
  OBVIOUS
<1>1. PICK h \in BlockHash \ DOMAIN blocks :
        PutBlock(h, NewBlock(job.txs, tip, GetBestHeight + 1))
  BY DEF MineBlock
<1>2. /\ UNCHANGED <<chainstate, job>> /\ pc = "mine" /\ pc' = "update"
      /\ clean' = (clean /\ unapplied = {} /\ SafeToApply(chainstate, job.txs))
  BY DEF MineBlock
<1>3. /\ job.from \in Address /\ job.to \in Address /\ job.amount \in Nat
      /\ job.amount \in Amounts
  BY <1>2, NodeStoreAssumption DEF LedgerInv, JobShape
<1>4. PICK tx : /\ IsPayment(Address, chainstate, tx, job.from, job.to, job.amount)
                /\ job.txs = <<NewCoinbaseTX(job.from), tx>>
  BY <1>2 DEF LedgerInv, JobShape
<1> DEFINE B == NewBlock(job.txs, tip, GetBestHeight + 1)
           c == NewCoinbaseTX(job.from)
<1>5. blocks' = Put(blocks, h, B) /\ tip' = h /\ unapplied' = unapplied \cup {h}
  BY <1>1 DEF PutBlock
<1>6. B.txs = <<c, tx>> /\ FitsOn(blocks, tip, h, B)
  BY <1>1, <1>4, NodeStoreAssumption DEF NewBlock, FitsOn
<1>7. TxShape(Address, c) /\ TxShape(Address, tx) /\ IsReward(c, job.from)
  BY <1>3, <1>4, RewardShape, PaymentShape DEF IsReward
<1>8. job.txs = <<c, tx>>
  BY <1>4
<1> HIDE DEF B, c
<1>9. PICK TX : Shaped(Address, TX) /\ Carries(blocks, TX) /\ c \in TX /\ tx \in TX
  BY <1>7, CommonTransactions DEF LedgerInv, ChainShape
<1>10. Closed(blocks) /\ tip \in DOMAIN blocks \cup {NoBlock}
  BY ChainClosed
<1>11. ChainShape'
  <2>1. B.txs \in Seq(TX)
    BY <1>6, <1>9
  <2>2. Shapely(Address, blocks')
    BY <1>5, <1>9, <2>1, PutKeepsShape
  <2>3. DOMAIN blocks' = DOMAIN blocks \cup {h}
    BY <1>5, Zenon DEF Put
  <2>4. IsFiniteSet(DOMAIN blocks')
    BY <2>3, FS_AddElement DEF LedgerInv, ChainShape
  <2> QED
    BY <2>2, <2>4 DEF ChainShape
<1>12. BucketShape'
  BY <1>2 DEF LedgerInv, BucketShape
<1>13. JobShape'
  BY <1>2 DEF LedgerInv, JobShape
<1>14. ASSUME clean'
       PROVE  /\ SafeChain(blocks', tip')
              /\ FindUTXO(Branch(blocks', tip')) = UpdateUTXO(chainstate', job'.txs)
  <2>1. chainstate = FindUTXO(Branch(blocks, tip)) /\ SafeChain(blocks, tip)
    BY <1>2, <1>14 DEF LedgerInv, CleanChain
  <2>2. SafeToApply(chainstate, <<c, tx>>)
    BY <1>2, <1>8, <1>14
  <2>3. IsPayment(Address, chainstate, tx, job.from, job.to, job.amount)
    BY <1>4
  <2>4. /\ SafeChain(Put(blocks, h, B), h)
        /\ FindUTXO(Branch(Put(blocks, h, B), h)) = UpdateUTXO(chainstate, <<c, tx>>)
    <3>1. Shaped(Address, TX)
      BY <1>9
    <3>2. Carries(blocks, TX)
      BY <1>9
    <3>3. IsReward(c, job.from)
      BY <1>7
    <3>4. FitsOn(blocks, tip, h, B)
      BY <1>6
    <3>5. B.txs = <<c, tx>>
      BY <1>6
    <3>6. Closed(blocks)
      BY <1>10
    <3>7. SafeChain(blocks, tip)
      BY <2>1
    <3>8. chainstate = FindUTXO(Branch(blocks, tip))
      BY <2>1
    <3> QED
      BY <1>3, <1>9, <1>10, <2>2, <2>3, <3>1, <3>2, <3>3, <3>4, <3>5, <3>6, <3>7, <3>8,
         MinedIsSafe, SMTT(60)
  <2> QED
    BY <1>2, <1>5, <1>8, <2>4
<1>15. ASSUME clean' PROVE Total(chainstate') <= Subsidy * Cardinality(DOMAIN blocks')
  <2>1. Total(chainstate) <= Subsidy * Cardinality(DOMAIN blocks)
    BY <1>2, <1>15 DEF LedgerInv, CleanChain
  <2>2. Cardinality(DOMAIN blocks) \in Nat
        /\ Cardinality(DOMAIN blocks') = Cardinality(DOMAIN blocks) + 1
    <3>1. DOMAIN blocks' = DOMAIN blocks \cup {h}
      BY <1>5, Zenon DEF Put
    <3> QED
      BY <1>1, <3>1, FS_AddElement, FS_CardinalityType DEF LedgerInv, ChainShape
  <2>3. Total(chainstate) \in Int
    BY TotalType DEF LedgerInv, BucketShape
  <2> DEFINE n == Cardinality(DOMAIN blocks)
             t == Total(chainstate)
  <2>4. t <= Subsidy * (n + 1)
    <3>1. n \in Nat /\ t \in Int /\ t <= Subsidy * n
      BY <2>1, <2>2, <2>3
    <3> HIDE DEF n, t
    <3>2. Subsidy * (n + 1) = Subsidy * n + Subsidy /\ Subsidy * n \in Int
      BY <3>1, SubsidyAssumption
    <3> QED
      BY <3>1, <3>2, SubsidyAssumption
  <2> QED
    BY <1>2, <2>2, <2>4
<1>16. CleanChain'
  BY <1>2, <1>5, <1>14, <1>15 DEF CleanChain
<1> QED
  BY <1>11, <1>12, <1>13, <1>16 DEF LedgerInv

\* Update stores the block's outputs and takes its inputs.
LEMMA LedgerUpdate == StoreInv /\ LedgerInv /\ Update => LedgerInv'
<1> SUFFICES ASSUME StoreInv, LedgerInv, Update PROVE LedgerInv'
  OBVIOUS
<1>1. CanUpdate(chainstate, blocks[tip].txs) /\ blocks[tip].txs = job.txs /\ pc = "update"
  BY DEF Update, StoreInv, Progress
<1>2. /\ chainstate' = UpdateUTXO(chainstate, job.txs)
      /\ unapplied' = unapplied \ {tip}
      /\ UNCHANGED <<blocks, tip, clean>> /\ pc' = "idle"
  BY <1>1 DEF Update
<1>3. /\ job.from \in Address /\ job.to \in Address /\ job.amount \in Nat
  BY <1>1, NodeStoreAssumption DEF LedgerInv, JobShape
<1>4. PICK tx : /\ IsPayment(Address, chainstate, tx, job.from, job.to, job.amount)
                /\ job.txs = <<NewCoinbaseTX(job.from), tx>>
  BY <1>1 DEF LedgerInv, JobShape
<1>5. IsChainstate(chainstate, Coins(Address)) /\ NoTx \notin DOMAIN chainstate
  BY DEF LedgerInv, BucketShape
<1>6. IsChainstate(chainstate', Coins(Address)) /\ NoTx \notin DOMAIN chainstate'
  BY <1>2, <1>3, <1>4, <1>5, UpdatedBucket
<1>7. ChainShape'
  BY <1>2 DEF LedgerInv, ChainShape
<1>8. BucketShape'
  BY <1>2, <1>6 DEF BucketShape
<1>9. JobShape'
  BY <1>2 DEF JobShape
<1>10. ASSUME clean
       PROVE  /\ chainstate' = FindUTXO(Branch(blocks, tip))
              /\ Total(chainstate') <= Subsidy * Cardinality(DOMAIN blocks)
  <2>1. SafeChain(blocks, tip) /\ chainstate' = FindUTXO(Branch(blocks, tip))
    BY <1>1, <1>2, <1>10 DEF LedgerInv, CleanChain
  <2>2. Total(chainstate') = Subsidy * Cardinality(DOMAIN blocks)
    BY <2>1 DEF SafeChain
  <2>3. Total(chainstate') \in Int
    BY <1>6, TotalType
  <2> QED
    BY <2>1, <2>2, <2>3
<1>11. CleanChain'
  BY <1>2, <1>10 DEF LedgerInv, CleanChain
<1> QED
  BY <1>7, <1>8, <1>9, <1>11 DEF LedgerInv

LEMMA LedgerNext == StoreInv /\ LedgerInv /\ [Next]_vars => LedgerInv'
<1> SUFFICES ASSUME StoreInv, LedgerInv, [Next]_vars PROVE LedgerInv'
  OBVIOUS
<1>1. ASSUME NEW to \in Address, CreateBlockchainOpen(to) PROVE LedgerInv'
  <2>1. /\ UNCHANGED <<blocks, tip, chainstate, unapplied, clean>> /\ pc' = "genesis"
        /\ job'.txs = <<NewCoinbaseTX(to)>>
    BY <1>1 DEF CreateBlockchainOpen, histVars
  <2>2. ChainShape' /\ BucketShape'
    BY <2>1 DEF LedgerInv, ChainShape, BucketShape
  <2>3. JobShape'
    BY <2>1 DEF JobShape
  <2>4. CleanChain'
    BY <2>1 DEF LedgerInv, CleanChain
  <2> QED
    BY <2>2, <2>3, <2>4 DEF LedgerInv
<1>2. ASSUME CreateBlockchain PROVE LedgerInv'
  BY <1>2, LedgerGenesis
<1>3. ASSUME ReindexUTXO PROVE LedgerInv'
  BY <1>3, LedgerUntouched DEF ReindexUTXO, dbVars, histVars
<1>4. ASSUME ReindexDrop PROVE LedgerInv'
  BY <1>4, LedgerDrop
<1>5. ASSUME ReindexFill PROVE LedgerInv'
  BY <1>5, LedgerFill
<1>6. ASSUME NEW from \in Address, NEW to \in Address, NEW amount \in Amounts,
             Send(from, to, amount)
      PROVE  LedgerInv'
  <2>1. PICK tx \in NewUTXOTransaction(chainstate, from, to, amount) :
          job' = [from |-> from, to |-> to, amount |-> amount,
                  txs |-> <<NewCoinbaseTX(from), tx>>]
    BY <1>6 DEF Send
  <2>2. UNCHANGED <<blocks, tip, chainstate, unapplied, clean>> /\ pc' = "mine"
    BY <1>6 DEF Send, dbVars, histVars
  <2>3. IsPayment(Address, chainstate, tx, from, to, amount)
    BY PaymentFacts DEF LedgerInv, BucketShape
  <2>4. ChainShape' /\ BucketShape'
    BY <2>2 DEF LedgerInv, ChainShape, BucketShape
  <2>5. JobShape'
    <3>1. /\ job'.from = from /\ job'.to = to /\ job'.amount = amount
          /\ job'.txs = <<NewCoinbaseTX(from), tx>>
      BY <2>1
    <3> QED
      BY <1>6, <2>2, <2>3, <3>1 DEF JobShape
  <2>6. CleanChain'
    BY <2>2 DEF LedgerInv, CleanChain
  <2> QED
    BY <2>4, <2>5, <2>6 DEF LedgerInv
<1>7. ASSUME MineBlockFails PROVE LedgerInv'
  BY <1>7, LedgerUntouched DEF MineBlockFails, dbVars, histVars
<1>8. ASSUME MineBlock PROVE LedgerInv'
  BY <1>8, LedgerMine
<1>9. ASSUME Update PROVE LedgerInv'
  BY <1>9, LedgerUpdate
<1>10. ASSUME Crash PROVE LedgerInv'
  BY <1>10, LedgerUntouched DEF Crash, dbVars, histVars
<1>11. ASSUME UNCHANGED vars PROVE LedgerInv'
  <2> USE <1>11 DEF vars, dbVars, procVars, histVars
  <2>1. ChainShape' /\ BucketShape'
    BY DEF LedgerInv, ChainShape, BucketShape
  <2>2. JobShape'
    BY DEF LedgerInv, JobShape
  <2>3. CleanChain'
    BY DEF LedgerInv, CleanChain
  <2> QED
    BY <2>1, <2>2, <2>3 DEF LedgerInv
<1> QED
  BY <1>1, <1>2, <1>3, <1>4, <1>5, <1>6, <1>7, <1>8, <1>9, <1>10, <1>11 DEF Next

LEMMA LedgerInvariant == Spec => [](StoreInv /\ LedgerInv)
<1>1. Init => StoreInv /\ LedgerInv
  BY InitInv, LedgerInit
<1>2. (StoreInv /\ LedgerInv) /\ [Next]_vars => (StoreInv /\ LedgerInv)'
  BY NextInv, LedgerNext
<1> QED
  BY <1>1, <1>2, PTL DEF Spec

-----------------------------------------------------------------------------
(* The theorems about what is in the bucket *)

\* On a chain of safe blocks UTXOSet.Update, block by block, and FindUTXO over
\* the whole chain leave the same unspent outputs, whatever crashes and
\* reindexing came between.
THEOREM UpdateAgreesWithReindex == Spec => []ReindexAgrees
<1>1. LedgerInv => ReindexAgrees
  BY DEF LedgerInv, CleanChain, ReindexAgrees, Consistent
<1> QED
  BY <1>1, LedgerInvariant, PTL

\* On such a chain the bucket is worth exactly what was mined.
THEOREM CoinsAreConserved == Spec => []Conservation
<1>1. LedgerInv => Conservation
  BY DEF LedgerInv, CleanChain, SafeChain, Conservation, Consistent
<1> QED
  BY <1>1, LedgerInvariant, PTL

\* As long as only safe blocks were mined, the bucket is at no moment worth more
\* than what was mined, in the middle of a command too.
THEOREM SafeBlocksInflateNothing == Spec => [](clean => NoInflation)
<1>1. LedgerInv => (clean => NoInflation)
  BY DEF LedgerInv, CleanChain, NoInflation
<1> QED
  BY <1>1, LedgerInvariant, PTL

\* No output is then spent more often than it was made,
THEOREM SafeBlocksSpendOnce == Spec => [](clean => NoDoubleSpend)
<1>1. ASSUME StoreInv, LedgerInv, clean PROVE NoDoubleSpend
  <2> DEFINE txs == TransactionsOf(Branch(blocks, tip))
             ins == InputsOf(txs)
             u == FindUTXO(Branch(blocks, tip))
  <2>1. PICK TX : Shaped(Address, TX) /\ Carries(blocks, TX)
    BY <1>1 DEF LedgerInv, ChainShape, Shapely
  <2> DEFINE I == AllInputs(TX)
  <2>2. txs \in Seq(TX)
    BY <1>1, <2>1, ChainClosed, ChainTransactions
  <2>3. \A tx \in TX : tx.vin \in Seq(I)
    BY <2>1, AllInputsType
  <2>4. Balanced(txs, u)
    BY <1>1 DEF LedgerInv, CleanChain, SafeChain
  <2> HIDE DEF txs, u, I
  <2>5. ins \in Seq(I)
    BY <2>2, <2>3, InputsType
  <2>6. ASSUME NEW in \in ToSet(ins) PROVE Spent(in.txid, in.vout, ins) <= Made(in.txid, txs)
    <3> DEFINE id == in.txid
               v == in.vout
               s == Spent(id, v, ins)
               m == Made(id, txs)
    <3>1. s + (IF id \in DOMAIN u /\ u[id] = id.vout THEN 1 ELSE 0) <= m
      BY <2>4 DEF Balanced
    <3> HIDE DEF id, v, ins
    <3>2. s \in Nat /\ m \in Nat
      BY <2>2, <2>5, SpentConcat, MadeConcat
    <3> HIDE DEF s, m
    <3>3. s <= m
      BY <3>1, <3>2
    <3> QED
      BY <3>3 DEF s, m, id, v, ins
  <2> QED
    BY <2>6 DEF NoDoubleSpend, InputsOfChain, Spent, Made, txs
<1> QED
  BY <1>1, LedgerInvariant, PTL

\* and nobody spends an output of another.
THEOREM SafeBlocksSpendTheirOwn == Spec => [](clean => SpendsOwnOutput)
<1>1. LedgerInv => (clean => SpendsOwnOutput)
  BY DEF LedgerInv, CleanChain, SafeChain, SpendsOwnOutput, InputsOfChain, OwnSpending
<1> QED
  BY <1>1, LedgerInvariant, PTL

\* A send that completes moves the amount and pays the reward, on any chain, if
\* its block takes no transaction's outputs twice and makes fresh ids.
THEOREM SendsSettle == Spec => SafePaymentSettles
<1>1. ASSUME StoreInv, LedgerInv, [Next]_vars, Completes, SpendsEachOnce(job.txs),
             CreatesFreshIds(chainstate, job.txs)
      PROVE  SettlesPayment
  <2> SUFFICES ASSUME NEW a \in Address
               PROVE  GetBalance(chainstate', a) = GetBalance(chainstate, a)
                        + (IF a = job.to THEN job.amount ELSE 0)
                        + (IF a = job.from THEN Subsidy - job.amount ELSE 0)
    BY DEF SettlesPayment
  <2>1. pc = "update" /\ pc' = "idle" /\ crashes' = crashes
    BY <1>1 DEF Completes
  <2>2. Update
    BY <1>1, <2>1 DEF Next, CreateBlockchainOpen, CreateBlockchain, ReindexUTXO, ReindexDrop,
       ReindexFill, Send, MineBlockFails, MineBlock, Crash, StoreInv, TypeOK, vars, procVars
  <2>3. chainstate' = UpdateUTXO(chainstate, job.txs)
    BY <1>1, <2>1, <2>2 DEF Update, StoreInv, Progress
  <2>4. /\ job.from \in Address /\ job.to \in Address /\ job.amount \in Nat
    BY <1>1, <2>1, NodeStoreAssumption DEF LedgerInv, JobShape
  <2>5. PICK tx : /\ IsPayment(Address, chainstate, tx, job.from, job.to, job.amount)
                  /\ job.txs = <<NewCoinbaseTX(job.from), tx>>
    BY <1>1, <2>1 DEF LedgerInv, JobShape
  <2>6. IsChainstate(chainstate, Coins(Address))
    BY <1>1 DEF LedgerInv, BucketShape
  <2>7. NoTx \notin DOMAIN chainstate
    BY <1>1 DEF LedgerInv, BucketShape
  <2> DEFINE c == NewCoinbaseTX(job.from)
  <2>8. IsReward(c, job.from) /\ job.txs = <<c, tx>>
    BY <2>5 DEF IsReward
  <2>9. IsPayment(Address, chainstate, tx, job.from, job.to, job.amount)
    BY <2>5
  <2> HIDE DEF c
  <2>10. SpendsEachOnce(<<c, tx>>) /\ CreatesFreshIds(chainstate, <<c, tx>>)
    BY <1>1, <2>8
  <2>11. OneEach(tx.vin) /\ Fresh(TakeOut(chainstate, Spends(tx)), c, tx)
    BY <2>4, <2>6, <2>7, <2>8, <2>9, <2>10, SafeBlock, SMTT(60)
  <2>12. /\ Total(UpdateUTXO(chainstate, <<c, tx>>)) = Total(chainstate) + Subsidy
         /\ GetBalance(UpdateUTXO(chainstate, <<c, tx>>), a) =
              GetBalance(chainstate, a) + (IF a = job.to THEN job.amount ELSE 0)
                                        + (IF a = job.from THEN Subsidy - job.amount ELSE 0)
    <3>1. c = NewCoinbaseTX(job.from)
      BY DEF c
    <3>2. OneEach(tx.vin)
      BY <2>11
    <3>3. Fresh(TakeOut(chainstate, Spends(tx)), c, tx)
      BY <2>11
    <3> QED
      BY <2>4, <2>6, <2>7, <2>9, <3>1, <3>2, <3>3, BlockPays, SMTT(60)
  <2> QED
    BY <2>3, <2>8, <2>12
<1>2. (StoreInv /\ LedgerInv) /\ [Next]_vars =>
        [Completes /\ SpendsEachOnce(job.txs) /\ CreatesFreshIds(chainstate, job.txs)
           => SettlesPayment]_vars
  BY <1>1
<1> QED
  BY <1>2, LedgerInvariant, PTL DEF Spec, SafePaymentSettles

-----------------------------------------------------------------------------
(* Whole payments *)

\* Where every amount sent is one reward, no output is ever split and every
\* payment takes one output.  Safe blocks are then not asked for: a transaction
\* may repeat one that was spent, with the same id, and the bucket may hold
\* several outputs under that id, or lose some.
OnlyWhole == Amounts \subseteq {Subsidy}

WholeBucket ==
  LET txs == TransactionsOf(Branch(blocks, tip)) IN
  /\ Piles(Address, chainstate)
  /\ IF pc = "update"
     THEN Backed(txs, UpdateUTXO(chainstate, job.txs))
          /\ Piles(Address, UpdateUTXO(chainstate, job.txs))
     ELSE Backed(txs, chainstate)
  /\ NoInflation

WholeJob == pc \in {"mine", "update"} => \E s : PaysOne(chainstate, job.txs[2], job.from, job.to, s)

\* What the walk finds and what the bucket holds is backed by the chain, however
\* the two differ, as long as no command was cut short.
WholeInv == crashes = 0 => WholeChain(Address, blocks, tip) /\ WholeBucket /\ WholeJob

LEMMA WholeInit == Init => WholeInv
<1> SUFFICES ASSUME Init PROVE WholeInv
  OBVIOUS
<1>1. DOMAIN blocks = {} /\ tip = NoBlock /\ chainstate = <<>> /\ pc = "idle"
  BY DEF Init
<1>2. /\ WholeChain(Address, blocks, tip)
      /\ Backed(TransactionsOf(Branch(blocks, tip)), <<>>)
      /\ Piles(Address, <<>>)
  BY <1>1, EmptyIsWhole
<1>3. NoInflation
  <2>1. Total(<<>>) = 0
    BY <1>1, EmptyIsSafe
  <2>2. Subsidy * Cardinality(DOMAIN blocks) = 0
    BY <1>1, FS_EmptySet, SubsidyAssumption
  <2> QED
    BY <1>1, <2>1, <2>2 DEF NoInflation
<1> QED
  BY <1>1, <1>2, <1>3 DEF WholeInv, WholeBucket, WholeJob

\* The chain and the bucket stay and no command is in the middle of a block.
LEMMA WholeUntouched ==
  ASSUME WholeInv, crashes = 0, pc # "update", UNCHANGED <<blocks, tip, chainstate>>,
         pc' \notin {"mine", "update"}
  PROVE  WholeInv'
<1>1. WholeChain(Address, blocks, tip)' /\ WholeJob'
  BY DEF WholeInv, WholeChain, WholeJob
<1>2. WholeBucket'
  BY DEF WholeInv, WholeBucket, NoInflation
<1> QED
  BY <1>1, <1>2 DEF WholeInv

LEMMA WholeGenesis ==
  ASSUME StoreInv, LedgerInv, WholeInv, crashes = 0, CreateBlockchain
  PROVE  WholeInv'
<1>1. DOMAIN blocks = {} /\ pc = "genesis"
  BY DEF CreateBlockchain, StoreInv, Progress
<1>2. PICK to \in Address : job.txs = <<NewCoinbaseTX(to)>>
  BY DEF CreateBlockchain, LedgerInv, JobShape
<1>3. PICK h \in BlockHash : PutBlock(h, NewBlock(job.txs, NoBlock, 0))
  BY DEF CreateBlockchain
<1> DEFINE B == NewBlock(job.txs, NoBlock, 0)
<1>4. blocks' = Put(blocks, h, B) /\ tip' = h
  BY <1>3 DEF PutBlock
<1>5. B.txs = <<NewCoinbaseTX(to)>> /\ FitsOn(blocks, NoBlock, h, B)
  BY <1>1, <1>2, NodeStoreAssumption DEF NewBlock, FitsOn
<1>6. UNCHANGED <<chainstate, crashes>> /\ pc' = "drop"
  BY DEF CreateBlockchain
<1> HIDE DEF B
<1>7. /\ WholeChain(Address, blocks', tip')
      /\ Backed(TransactionsOf(Branch(blocks', tip')), <<>>)
  BY <1>1, <1>4, <1>5, GenesisIsWhole
<1>8. DOMAIN blocks' = {h}
  BY <1>1, <1>4, Zenon DEF Put
<1>9. DOMAIN chainstate = {}
  <2> SUFFICES ASSUME NEW id \in DOMAIN chainstate PROVE FALSE
    OBVIOUS
  <2> DEFINE txs == TransactionsOf(Branch(blocks, tip))
             x == CountOf(chainstate, id)
             n == Spent(id, 1, InputsOf(txs))
  <2>1. tip = NoBlock
    BY <1>1 DEF StoreInv, ChainInv
  <2>2. txs = <<>>
    BY <1>1, <2>1, EmptyChain
  <2>3. Backed(txs, chainstate)
    BY <1>1 DEF WholeInv, WholeBucket
  <2> HIDE DEF txs
  <2>4. x \in Nat /\ x >= 1
    BY CountType DEF LedgerInv, BucketShape
  <2>5. n = 0 /\ Made(id, txs) = 0
    BY <2>2, NoInputs, NoneMade
  <2>6. n + x <= 0
    BY <2>3, <2>5 DEF Backed
  <2> HIDE DEF n, x
  <2> QED
    BY <2>4, <2>5, <2>6
<1>10. chainstate = <<>>
  BY <1>9 DEF LedgerInv, BucketShape, IsChainstate
<1>11. NoInflation'
  <2>1. Total(<<>>) = 0
    BY EmptyIsChainstate, TotalIsHeld, HeldNone
  <2>2. Cardinality(DOMAIN blocks') = 1
    BY <1>8, FS_Singleton
  <2> QED
    BY <1>6, <1>10, <2>1, <2>2, SubsidyAssumption DEF NoInflation
<1>12. Piles(Address, chainstate)
  BY <1>1 DEF WholeInv, WholeBucket
<1> QED
  BY <1>6, <1>7, <1>10, <1>11, <1>12 DEF WholeInv, WholeBucket, WholeJob

LEMMA WholeDrop ==
  ASSUME StoreInv, LedgerInv, WholeInv, crashes = 0, ReindexDrop
  PROVE  WholeInv'
<1>1. /\ UNCHANGED <<blocks, tip, crashes>>
      /\ chainstate' = <<>> /\ pc' = "fill"
  BY DEF ReindexDrop
<1>2. WholeChain(Address, blocks, tip)
  BY DEF WholeInv
<1>3. Backed(TransactionsOf(Branch(blocks, tip)), <<>>)
  BY <1>2, ChainClosed, WholeWalk
<1>4. Piles(Address, <<>>)
  BY EmptyIsChainstate DEF Piles
<1>5. Total(<<>>) <= Subsidy * Cardinality(DOMAIN blocks)
  BY <1>2, <1>3, <1>4, ChainClosed, WholeBounds
<1> QED
  BY <1>1, <1>2, <1>3, <1>4, <1>5 DEF WholeInv, WholeBucket, WholeJob, NoInflation

LEMMA WholeFill ==
  ASSUME StoreInv, LedgerInv, WholeInv, crashes = 0, ReindexFill
  PROVE  WholeInv'
<1> DEFINE u == FindUTXO(Branch(blocks, tip))
<1>1. /\ UNCHANGED <<blocks, tip, crashes>>
      /\ chainstate' = PutAll(chainstate, u) /\ pc' \in {"drop", "idle"}
      /\ chainstate = <<>>
  BY DEF ReindexFill, LedgerInv, BucketShape
<1>2. WholeChain(Address, blocks, tip)
  BY DEF WholeInv
<1>3. Backed(TransactionsOf(Branch(blocks, tip)), u)
  BY <1>2 DEF WholeChain
<1>4. Piles(Address, u)
  BY <1>2, ChainClosed, WholeWalk
<1> HIDE DEF u
<1>5. chainstate' = u
  <2>1. u = [id \in DOMAIN u |-> u[id]]
    BY <1>4 DEF Piles, IsChainstate
  <2>2. DOMAIN <<>> \cup DOMAIN u = DOMAIN u
    OBVIOUS
  <2> QED
    BY <1>1, <2>1, <2>2 DEF PutAll
<1>6. Total(u) <= Subsidy * Cardinality(DOMAIN blocks)
  BY <1>2, <1>3, <1>4, ChainClosed, WholeBounds
<1> QED
  BY <1>1, <1>2, <1>3, <1>4, <1>5, <1>6 DEF WholeInv, WholeBucket, WholeJob, NoInflation

\* send takes one output and hands it on.
LEMMA WholeSend ==
  ASSUME StoreInv, LedgerInv, WholeInv, crashes = 0, OnlyWhole,
         NEW from \in Address, NEW to \in Address, NEW amount \in Amounts,
         Send(from, to, amount)
  PROVE  WholeInv'
<1>1. amount = Subsidy
  BY DEF OnlyWhole
<1>2. PICK tx \in NewUTXOTransaction(chainstate, from, to, Subsidy) :
        job' = [from |-> from, to |-> to, amount |-> amount,
                txs |-> <<NewCoinbaseTX(from), tx>>]
  BY <1>1 DEF Send
<1>3. UNCHANGED <<blocks, tip, chainstate, crashes>> /\ pc = "idle" /\ pc' = "mine"
  BY DEF Send, dbVars
<1>4. Piles(Address, chainstate)
  BY DEF WholeInv, WholeBucket
<1>5. \E s : PaysOne(chainstate, tx, from, to, s)
  BY <1>4, PaymentTakesOne
<1>6. job'.from = from /\ job'.to = to /\ job'.txs[2] = tx
  BY <1>2
<1>7. WholeJob'
  BY <1>3, <1>5, <1>6 DEF WholeJob
<1>8. WholeChain(Address, blocks, tip)' /\ WholeBucket'
  BY <1>3 DEF WholeInv, WholeBucket, WholeChain, NoInflation
<1> QED
  BY <1>7, <1>8 DEF WholeInv

LEMMA WholeMine ==
  ASSUME StoreInv, LedgerInv, WholeInv, crashes = 0, MineBlock
  PROVE  WholeInv'
<1>1. PICK h \in BlockHash \ DOMAIN blocks :
        PutBlock(h, NewBlock(job.txs, tip, GetBestHeight + 1))
  BY DEF MineBlock
<1>2. UNCHANGED <<chainstate, job, crashes>> /\ pc = "mine" /\ pc' = "update"
  BY DEF MineBlock
<1>3. job.from \in Address /\ job.to \in Address /\ job.amount \in Nat
  BY <1>2, NodeStoreAssumption DEF LedgerInv, JobShape
<1>4. PICK tx : /\ IsPayment(Address, chainstate, tx, job.from, job.to, job.amount)
                /\ job.txs = <<NewCoinbaseTX(job.from), tx>>
  BY <1>2 DEF LedgerInv, JobShape
<1>5. PICK s : PaysOne(chainstate, job.txs[2], job.from, job.to, s)
  BY <1>2 DEF WholeInv, WholeJob
<1>6. PaysOne(chainstate, tx, job.from, job.to, s)
  <2>1. job.txs[2] = tx
    BY <1>4
  <2> QED
    BY <1>5, <2>1
<1> DEFINE B == NewBlock(job.txs, tip, GetBestHeight + 1)
           c == NewCoinbaseTX(job.from)
           txs == TransactionsOf(Branch(blocks, tip))
           more == TransactionsOf(Branch(Put(blocks, h, B), h))
<1>7. blocks' = Put(blocks, h, B) /\ tip' = h
  BY <1>1 DEF PutBlock
<1>8. B.txs = <<c, tx>> /\ FitsOn(blocks, tip, h, B)
  BY <1>1, <1>4, NodeStoreAssumption DEF NewBlock, FitsOn
<1>9. IsReward(c, job.from)
  BY DEF IsReward
<1>10. job.txs = <<c, tx>>
  BY <1>4
<1>11. WholeChain(Address, blocks, tip) /\ Piles(Address, chainstate)
       /\ Backed(txs, chainstate) /\ NoInflation
  BY <1>2 DEF WholeInv, WholeBucket
<1> HIDE DEF B, c
<1>12. /\ WholeChain(Address, Put(blocks, h, B), h)
       /\ Backed(more, UpdateUTXO(chainstate, <<c, tx>>))
       /\ Piles(Address, UpdateUTXO(chainstate, <<c, tx>>))
  <2>1. WholeStore(Address, blocks, tip, chainstate)
    BY <1>11, ChainClosed DEF WholeStore, LedgerInv, BucketShape
  <2>2. WholePayment(Address, chainstate, c, tx)
    BY <1>3, <1>4, <1>6, <1>9 DEF WholePayment
  <2>3. Mines(blocks, tip, h, B, c, tx)
    BY <1>8 DEF Mines
  <2> HIDE DEF txs, more
  <2>4. StaysWhole(Address, Put(blocks, h, B), h, UpdateUTXO(chainstate, <<c, tx>>))
    BY <2>1, <2>2, <2>3, MinedIsWhole
  <2> QED
    BY <2>4 DEF StaysWhole, more
<1> HIDE DEF more
<1>13. NoInflation'
  <2> DEFINE n == Cardinality(DOMAIN blocks)
             w == Total(chainstate)
  <2>1. n \in Nat /\ Cardinality(DOMAIN blocks') = n + 1
    <3>1. DOMAIN blocks' = DOMAIN blocks \cup {h}
      BY <1>7, Zenon DEF Put
    <3> QED
      BY <1>1, <3>1, FS_AddElement, FS_CardinalityType DEF LedgerInv, ChainShape
  <2>2. w \in Int /\ w <= Subsidy * n
    BY <1>11, TotalType DEF LedgerInv, BucketShape, NoInflation
  <2> HIDE DEF n, w
  <2>3. Subsidy * (n + 1) = Subsidy * n + Subsidy /\ Subsidy * n \in Int
    BY <2>1, SubsidyAssumption
  <2>4. w <= Subsidy * (n + 1)
    BY <2>2, <2>3, SubsidyAssumption
  <2> QED
    BY <1>2, <2>1, <2>4 DEF NoInflation, w
<1>14. WholeBucket'
  BY <1>2, <1>7, <1>10, <1>11, <1>12, <1>13 DEF WholeBucket, more
<1>15. WholeJob'
  BY <1>2 DEF WholeInv, WholeJob
<1> QED
  BY <1>7, <1>12, <1>14, <1>15 DEF WholeInv

LEMMA WholeUpdate ==
  ASSUME StoreInv, LedgerInv, WholeInv, crashes = 0, Update
  PROVE  WholeInv'
<1> DEFINE u == UpdateUTXO(chainstate, job.txs)
<1>1. CanUpdate(chainstate, blocks[tip].txs) /\ blocks[tip].txs = job.txs /\ pc = "update"
  BY DEF Update, StoreInv, Progress
<1>2. chainstate' = u /\ UNCHANGED <<blocks, tip, crashes>> /\ pc' = "idle"
  BY <1>1 DEF Update
<1>3. /\ WholeChain(Address, blocks, tip)
      /\ Backed(TransactionsOf(Branch(blocks, tip)), u)
      /\ Piles(Address, u)
  BY <1>1 DEF WholeInv, WholeBucket
<1> HIDE DEF u
<1>4. Total(u) <= Subsidy * Cardinality(DOMAIN blocks)
  BY <1>3, ChainClosed, WholeBounds
<1> QED
  BY <1>2, <1>3, <1>4 DEF WholeInv, WholeBucket, WholeJob, NoInflation

LEMMA WholeNext == OnlyWhole /\ StoreInv /\ LedgerInv /\ WholeInv /\ [Next]_vars => WholeInv'
<1> SUFFICES ASSUME OnlyWhole, StoreInv, LedgerInv, WholeInv, [Next]_vars, crashes' = 0
             PROVE  WholeInv'
  BY DEF WholeInv
<1>1. crashes = 0
  BY DEF Next, CreateBlockchainOpen, CreateBlockchain, ReindexUTXO, ReindexDrop, ReindexFill,
     Send, MineBlockFails, MineBlock, Update, Crash, StoreInv, TypeOK, vars
<1>2. ASSUME NEW to \in Address, CreateBlockchainOpen(to) PROVE WholeInv'
  BY <1>1, <1>2, WholeUntouched DEF CreateBlockchainOpen
<1>3. ASSUME CreateBlockchain PROVE WholeInv'
  BY <1>1, <1>3, WholeGenesis
<1>4. ASSUME ReindexUTXO PROVE WholeInv'
  BY <1>1, <1>4, WholeUntouched DEF ReindexUTXO, dbVars
<1>5. ASSUME ReindexDrop PROVE WholeInv'
  BY <1>1, <1>5, WholeDrop
<1>6. ASSUME ReindexFill PROVE WholeInv'
  BY <1>1, <1>6, WholeFill
<1>7. ASSUME NEW from \in Address, NEW to \in Address, NEW amount \in Amounts,
             Send(from, to, amount)
      PROVE  WholeInv'
  BY <1>1, <1>7, WholeSend
<1>8. ASSUME MineBlockFails PROVE WholeInv'
  BY <1>1, <1>8, WholeUntouched DEF MineBlockFails, dbVars
<1>9. ASSUME MineBlock PROVE WholeInv'
  BY <1>1, <1>9, WholeMine
<1>10. ASSUME Update PROVE WholeInv'
  BY <1>1, <1>10, WholeUpdate
<1>11. ASSUME Crash PROVE WholeInv'
  BY <1>1, <1>11 DEF Crash, StoreInv, TypeOK
<1>12. ASSUME UNCHANGED vars PROVE WholeInv'
  BY <1>12 DEF WholeInv, WholeBucket, WholeJob, WholeChain, NoInflation, vars, dbVars, procVars
<1> QED
  BY <1>2, <1>3, <1>4, <1>5, <1>6, <1>7, <1>8, <1>9, <1>10, <1>11, <1>12 DEF Next

LEMMA WholeInvariant ==
  ASSUME OnlyWhole
  PROVE  Spec => [](StoreInv /\ LedgerInv /\ WholeInv)
<1>1. Init => StoreInv /\ LedgerInv /\ WholeInv
  BY InitInv, LedgerInit, WholeInit
<1>2. (StoreInv /\ LedgerInv /\ WholeInv) /\ [Next]_vars => (StoreInv /\ LedgerInv /\ WholeInv)'
  BY NextInv, LedgerNext, WholeNext
<1> QED
  BY <1>1, <1>2, PTL DEF Spec

\* With whole payments the bucket is at no moment worth more than what was
\* mined, safe blocks or not, unless a command was cut short.
THEOREM WholePaymentsInflateNothing ==
  ASSUME OnlyWhole
  PROVE  Spec => [](crashes = 0 => NoInflation)
<1>1. WholeInv => (crashes = 0 => NoInflation)
  BY DEF WholeInv, WholeBucket
<1> QED
  BY <1>1, WholeInvariant, PTL

\* No output is then spent more often than it was made,
THEOREM WholePaymentsSpendOnce ==
  ASSUME OnlyWhole
  PROVE  Spec => [](crashes = 0 => NoDoubleSpend)
<1>1. StoreInv /\ LedgerInv /\ WholeInv => (crashes = 0 => NoDoubleSpend)
  <2> SUFFICES ASSUME StoreInv, LedgerInv, WholeInv, crashes = 0 PROVE NoDoubleSpend
    OBVIOUS
  <2>1. WholeChain(Address, blocks, tip) /\ Closed(blocks) /\ tip \in DOMAIN blocks \cup {NoBlock}
    BY ChainClosed DEF WholeInv
  <2> QED
    BY <2>1, WholeSpendsOnce DEF NoDoubleSpend, InputsOfChain, Spent, Made
<1> QED
  BY <1>1, WholeInvariant, PTL

\* and nobody spends an output of another.
THEOREM WholePaymentsSpendTheirOwn ==
  ASSUME OnlyWhole
  PROVE  Spec => [](crashes = 0 => SpendsOwnOutput)
<1>1. WholeInv => (crashes = 0 => SpendsOwnOutput)
  BY WholeSpendsOwn DEF WholeInv, WholeChain, SpendsOwnOutput, InputsOfChain, OwnSpending
<1> QED
  BY <1>1, WholeInvariant, PTL
=============================================================================
