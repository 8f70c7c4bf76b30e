----------------------------- MODULE BlockSync ------------------------------
(***************************************************************************)
(* Several nodes that exchange their blocks: each server runs one handler  *)
(* per incoming connection, and its download manager asks for the blocks   *)
(* that were announced (in the form of FetchPolicy; Downloader has the     *)
(* details).  While its server is down the node's user mines.              *)
(*                                                                         *)
(* A connection carries one message and is served by a goroutine of its    *)
(* own, so messages are handled in any order.  A handler is one action     *)
(* unless another can run in the middle of it: handleBlock is three, the   *)
(* end of AddBlock's closure, its commit, and Update.                      *)
(***************************************************************************)
EXTENDS Ledger

CONSTANTS
  Node,          \* addresses of the nodes
  Seed,          \* knownNodes[0] of every server that starts
  BlockHash,     \* hashes of the blocks that may be mined
  BlockData,     \* the block under each hash
  Miner,         \* the node whose wallet mines it
  MaxRequests,   \* requests made for an announced block
  MaxStops       \* bound on the servers stopped or killed

ASSUME BlockSyncAssumption ==
  /\ Seed \in Node
  /\ NoBlock \notin BlockHash
  /\ IsFiniteSet(BlockHash)
  /\ Miner \in [BlockHash -> Node]
  /\ MaxRequests \in Nat \ {0}
  /\ MaxStops \in Nat
  /\ \A h \in BlockHash :
       /\ BlockData[h].prev \in BlockHash \cup {NoBlock}
       /\ BlockData[h].height \in Nat
       /\ BlockData[h].height = IF BlockData[h].prev = NoBlock THEN 0
                                ELSE BlockData[BlockData[h].prev].height + 1

\* Every block is one that a command mines on the chain below it: the genesis
\* block, or a reward and a payment that is SafeToApply to what that chain leaves
\* unspent.
BlocksAreSafe ==
  \A h \in BlockHash :
    LET txs == BlockData[h].txs
        cs  == FindUTXO(Branch([b \in BlockHash |-> BlockData[b]], BlockData[h].prev))
    IN  IF BlockData[h].prev = NoBlock
        THEN \E to \in Node : txs = <<NewCoinbaseTX(to)>>
        ELSE /\ SafeToApply(cs, txs)
             /\ \E from, to \in Node, amount \in 1..(Subsidy * Cardinality(BlockHash)) :
                  \E tx \in NewUTXOTransaction(cs, from, to, amount) :
                    txs = <<NewCoinbaseTX(from), tx>>

VARIABLES
  up,            \* the server runs and has the database open
  dbFile,        \* the database exists
  stored,        \* bucket "blocks": hashes of the blocks in it
  tip,           \* its key "l"
  newBlockHash,  \* the tip in the memory of the server
  chainstate,    \* bucket "chainstate"
  knownNodes,
  queue,         \* blocksToDownload
  asked,         \* requests made for the blocks in downloadingBlocks
  net,           \* messages sent and not yet handled
  running,       \* handlers that have more to do
  stops,         \* servers stopped so far
  panics,        \* history: servers that died of a panic
  applied,       \* history: last block whose Update ran
  updated,       \* history: the blocks whose Update ran
  inOrder        \* history: every Update so far ran right after its parent's

dbVars   == <<dbFile, stored, tip, chainstate>>
memVars  == <<newBlockHash, knownNodes, queue, asked>>
commVars == <<net, running>>
ranVars  == <<applied, updated, inOrder>>
histVars == <<stops, panics, ranVars>>
vars     == <<up, dbVars, memVars, commVars, histVars>>

NothingAsked == [h \in BlockHash |-> 0]

Init ==
  /\ up = [n \in Node |-> FALSE]
  /\ dbFile = [n \in Node |-> FALSE]
  /\ stored = [n \in Node |-> {}]
  /\ tip = [n \in Node |-> NoBlock]
  /\ newBlockHash = [n \in Node |-> NoBlock]
  /\ chainstate = [n \in Node |-> <<>>]
  /\ knownNodes = [n \in Node |-> {}]
  /\ queue = [n \in Node |-> {}]
  /\ asked = [n \in Node |-> NothingAsked]
  /\ net = {}
  /\ running = {}
  /\ stops = 0
  /\ panics = {}
  /\ applied = [n \in Node |-> NoBlock]
  /\ updated = [n \in Node |-> {}]
  /\ inOrder = [n \in Node |-> TRUE]

Blocks(n) == [h \in stored[n] |-> BlockData[h]]

GetBestHeight(n) == IF tip[n] = NoBlock THEN 0 ELSE BlockData[tip[n]].height

\* The hashes the iterator visits from a block, up to the first that is missing.
Visited(n, from) ==
  LET hash[k \in 1..(Cardinality(BlockHash) + 1)] ==
        IF k = 1 THEN from
        ELSE IF hash[k - 1] \in stored[n] THEN BlockData[hash[k - 1]].prev ELSE hash[k - 1]
  IN  Range(hash)

\* The walk ends at a genesis block: Next finds every block it is asked for.
Whole(n, from) == from # NoBlock /\ Visited(n, from) \subseteq stored[n] \cup {NoBlock}

\* History of the updates of one node.
Record(n, h) ==
  /\ applied' = [applied EXCEPT ![n] = h]
  /\ updated' = [updated EXCEPT ![n] = @ \cup {h}]
  /\ inOrder' = [inOrder EXCEPT ![n] = @ /\ applied[n] = BlockData[h].prev]

-----------------------------------------------------------------------------
(* Commands, while the server is down *)

\* createblockchain or send -mine, run to its end; NodeStore has the steps.
Mine(n, h) ==
  /\ ~up[n]
  /\ Miner[h] = n
  /\ \A m \in Node : h \notin stored[m]
  /\ BlockData[h].prev = tip[n]
  /\ IF tip[n] = NoBlock THEN ~dbFile[n] ELSE Whole(n, tip[n])
  /\ CanUpdate(chainstate[n], BlockData[h].txs)
  /\ \A tx \in ToSet(BlockData[h].txs) : VerifyTransaction(Branch(Blocks(n), tip[n]), tx)
  /\ dbFile' = [dbFile EXCEPT ![n] = TRUE]
  /\ stored' = [stored EXCEPT ![n] = @ \cup {h}]
  /\ tip' = [tip EXCEPT ![n] = h]
  /\ chainstate' = [chainstate EXCEPT ![n] = UpdateUTXO(@, BlockData[h].txs)]
  /\ Record(n, h)
  /\ UNCHANGED <<up, memVars, commVars, stops, panics>>

-----------------------------------------------------------------------------
(* The server *)

\* Open the database and read its tip, or create one with empty buckets.
InitBlockchain(n) ==
  /\ dbFile' = [dbFile EXCEPT ![n] = TRUE]
  /\ newBlockHash' = [newBlockHash EXCEPT ![n] = tip[n]]

\* startnode: open the database, then introduce itself to the seed.
StartServer(n) ==
  /\ ~up[n]
  /\ up' = [up EXCEPT ![n] = TRUE]
  /\ InitBlockchain(n)
  /\ knownNodes' = [knownNodes EXCEPT ![n] = {Seed}]
  /\ running' = IF n = Seed THEN running
                ELSE running \cup {[node |-> n, do |-> "sendVersion", to |-> Seed]}
  /\ UNCHANGED <<stored, tip, chainstate, queue, asked, net, histVars>>

\* The process ends; its connections and its memory are gone.
GoesDown(n) ==
  /\ up' = [up EXCEPT ![n] = FALSE]
  /\ newBlockHash' = [newBlockHash EXCEPT ![n] = NoBlock]
  /\ knownNodes' = [knownNodes EXCEPT ![n] = {}]
  /\ queue' = [queue EXCEPT ![n] = {}]
  /\ asked' = [asked EXCEPT ![n] = NothingAsked]
  /\ net' = {m \in net : m.to # n}
  /\ running' = {t \in running : t.node # n}
  /\ UNCHANGED dbVars

\* Interrupted, killed, out of power.
Stop(n) ==
  /\ up[n]
  /\ stops < MaxStops
  /\ stops' = stops + 1
  /\ GoesDown(n)
  /\ UNCHANGED <<panics, ranVars>>

\* A message to a server that is down is not sent, and its address is dropped.
SendData(m, rest) ==
  /\ net' = IF up[m.to] THEN rest \cup {m} ELSE rest
  /\ knownNodes' = IF up[m.to] THEN knownNodes
                   ELSE [knownNodes EXCEPT ![m.from] = @ \ {m.to}]

Version(n, to) == [type |-> "version", from |-> n, to |-> to, height |-> GetBestHeight(n)]

SendVersion(t) ==
  /\ t.do = "sendVersion"
  /\ running' = running \ {t}
  /\ SendData(Version(t.node, t.to), net)
  /\ UNCHANGED <<up, dbVars, newBlockHash, queue, asked, histVars>>

\* handleVersion's own version message; its sender is added after the dial.
ReplyVersion(t) ==
  /\ t.do = "replyVersion"
  /\ running' = running \ {t}
  /\ net' = IF up[t.to] THEN net \cup {Version(t.node, t.to)} ELSE net
  /\ knownNodes' = [knownNodes EXCEPT ![t.node] = @ \cup {t.to}]
  /\ UNCHANGED <<up, dbVars, newBlockHash, queue, asked, histVars>>

\* The lower side asks for the blocks, the higher one answers with its version.
HandleVersion(m) ==
  LET n == m.to
      mine == GetBestHeight(n)
      getblocks == [type |-> "getblocks", from |-> n, to |-> m.from]
      rest == net \ {m}
  IN  /\ m.type = "version"
      /\ IF mine > m.height
         THEN /\ running' = running \cup {[node |-> n, do |-> "replyVersion", to |-> m.from]}
              /\ net' = rest
              /\ UNCHANGED knownNodes
         ELSE /\ net' = IF mine < m.height /\ up[m.from] THEN rest \cup {getblocks} ELSE rest
              /\ knownNodes' = [knownNodes EXCEPT ![n] = @ \cup {m.from}]
              /\ UNCHANGED running
      /\ UNCHANGED <<up, dbVars, newBlockHash, queue, asked, histVars>>

\* Fault: the walk leaves before it has noted the genesis block.
HandleGetBlocks_NoGenesis(m) ==
  LET n == m.to
  IN  /\ m.type = "getblocks"
      /\ Whole(n, newBlockHash[n])
      /\ SendData([type |-> "inv", from |-> n, to |-> m.from,
                   items |-> {h \in Visited(n, newBlockHash[n]) \ {NoBlock} :
                                BlockData[h].prev # NoBlock}], net \ {m})
      /\ UNCHANGED <<up, dbVars, newBlockHash, queue, asked, running, histVars>>

\* Announce every block from the tip in memory to the genesis block.  The
\* iterator panics on a block it cannot find.
HandleGetBlocks(m) ==
  LET n == m.to
  IN  /\ m.type = "getblocks"
      /\ IF Whole(n, newBlockHash[n])
         THEN /\ SendData([type |-> "inv", from |-> n, to |-> m.from,
                           items |-> Visited(n, newBlockHash[n]) \ {NoBlock}], net \ {m})
              /\ UNCHANGED <<up, dbVars, newBlockHash, queue, asked, running, histVars>>
         ELSE /\ panics' = panics \cup {n}
              /\ GoesDown(n)
              /\ UNCHANGED <<stops, ranVars>>

HandleInv(m) ==
  LET n == m.to
  IN  /\ m.type = "inv"
      /\ net' = net \ {m}
      /\ queue' = [queue EXCEPT ![n] = @ \cup {h \in m.items : asked[n][h] = 0}]
      /\ UNCHANGED <<up, dbVars, newBlockHash, knownNodes, asked, running, histVars>>

HandleGetData(m) ==
  LET n == m.to
  IN  /\ m.type = "getdata"
      /\ IF m.hash \in stored[n]
         THEN SendData([type |-> "block", from |-> n, to |-> m.from, hash |-> m.hash], net \ {m})
         ELSE net' = net \ {m} /\ UNCHANGED knownNodes
      /\ UNCHANGED <<up, dbVars, newBlockHash, queue, asked, running, histVars>>

\* bolt runs one writing transaction at a time.
Writing(n) == \E t \in running : t.node = n /\ t.do = "commit"

\* Fault: a block that is found stored becomes the tip in memory.
HandleBlock_TipAgain(m) ==
  LET n == m.to
      new == m.hash \notin stored[n]
  IN  /\ m.type = "block"
      /\ ~Writing(n)
      /\ net' = net \ {m}
      /\ newBlockHash' = [newBlockHash EXCEPT ![n] = m.hash]
      /\ running' = running \cup {[node |-> n, do |-> IF new THEN "commit" ELSE "update",
                                   hash |-> m.hash]}
      /\ UNCHANGED <<up, dbVars, knownNodes, queue, asked, histVars>>

\* handleBlock to the end of AddBlock's closure, which puts the block and the tip
\* into the transaction and the tip into memory.
HandleBlock(m) ==
  LET n == m.to
      new == m.hash \notin stored[n]
  IN  /\ m.type = "block"
      /\ ~Writing(n)
      /\ net' = net \ {m}
      /\ newBlockHash' = IF new THEN [newBlockHash EXCEPT ![n] = m.hash] ELSE newBlockHash
      /\ running' = running \cup {[node |-> n, do |-> IF new THEN "commit" ELSE "update",
                                   hash |-> m.hash]}
      /\ UNCHANGED <<up, dbVars, knownNodes, queue, asked, histVars>>

\* Fault: the tip is not written.
Commit_NoTip(t) ==
  /\ t.do = "commit"
  /\ stored' = [stored EXCEPT ![t.node] = @ \cup {t.hash}]
  /\ running' = (running \ {t}) \cup {[t EXCEPT !.do = "update"]}
  /\ UNCHANGED <<up, dbFile, tip, chainstate, memVars, net, histVars>>

\* AddBlock's transaction commits.
Commit(t) ==
  /\ t.do = "commit"
  /\ stored' = [stored EXCEPT ![t.node] = @ \cup {t.hash}]
  /\ tip' = [tip EXCEPT ![t.node] = t.hash]
  /\ running' = (running \ {t}) \cup {[t EXCEPT !.do = "update"]}
  /\ UNCHANGED <<up, dbFile, chainstate, memVars, net, histVars>>

\* Update of the block, whether it was new or not; a failure is logged.
Update(t) ==
  LET n == t.node
      txs == BlockData[t.hash].txs
  IN  /\ t.do = "update"
      /\ ~Writing(n)
      /\ running' = running \ {t}
      /\ chainstate' = IF CanUpdate(chainstate[n], txs)
                       THEN [chainstate EXCEPT ![n] = UpdateUTXO(@, txs)] ELSE chainstate
      /\ Record(n, t.hash)
      /\ UNCHANGED <<up, dbFile, stored, tip, memVars, net, stops, panics>>

\* Fault: a block is asked for once more than it should be.
Request_OneMore(n, h) ==
  /\ \/ asked[n][h] = 0 /\ h \in queue[n]
     \/ asked[n][h] \in 1..MaxRequests
  /\ queue' = [queue EXCEPT ![n] = @ \ {h}]
  /\ asked' = [asked EXCEPT ![n][h] = @ + 1]
  /\ UNCHANGED <<up, dbVars, newBlockHash, knownNodes, commVars, histVars>>

\* A tick of the download manager asks a known node for a block, first or again.
Request(n, h) ==
  /\ \/ asked[n][h] = 0 /\ h \in queue[n]
     \/ asked[n][h] \in 1..(MaxRequests - 1)
  /\ queue' = [queue EXCEPT ![n] = @ \ {h}]
  /\ asked' = [asked EXCEPT ![n][h] = @ + 1]
  /\ IF knownNodes[n] = {} THEN UNCHANGED <<net, knownNodes>>
     ELSE \E peer \in knownNodes[n] :
            SendData([type |-> "getdata", from |-> n, to |-> peer, hash |-> h], net)
  /\ UNCHANGED <<up, dbVars, newBlockHash, running, histVars>>

GiveUp(n, h) ==
  /\ asked[n][h] = MaxRequests
  /\ asked' = [asked EXCEPT ![n][h] = 0]
  /\ UNCHANGED <<up, dbVars, newBlockHash, knownNodes, queue, commVars, histVars>>

-----------------------------------------------------------------------------
Handler ==
  \/ \E m \in net : \/ HandleVersion(m)
                    \/ HandleGetBlocks(m)
                    \/ HandleInv(m)
                    \/ HandleGetData(m)
                    \/ HandleBlock(m)
  \/ \E t \in running : SendVersion(t) \/ ReplyVersion(t) \/ Commit(t) \/ Update(t)

Manager == \E n \in Node, h \in BlockHash : Request(n, h) \/ GiveUp(n, h)

Next ==
  \/ \E n \in Node, h \in BlockHash : Mine(n, h)
  \/ \E n \in Node : StartServer(n) \/ Stop(n)
  \/ Handler
  \/ Manager

Spec == Init /\ [][Next]_vars

\* The goroutines of a server go on.
FairSpec == Spec /\ WF_vars(Handler) /\ WF_vars(Manager)

-----------------------------------------------------------------------------
(* Properties *)

Hashes == BlockHash \cup {NoBlock}

Messages ==
  [type : {"version"}, from : Node, to : Node, height : Nat] \cup
  [type : {"getblocks"}, from : Node, to : Node] \cup
  [type : {"inv"}, from : Node, to : Node, items : SUBSET BlockHash] \cup
  [type : {"getdata", "block"}, from : Node, to : Node, hash : BlockHash]

Tasks == [node : Node, do : {"sendVersion", "replyVersion"}, to : Node] \cup
         [node : Node, do : {"commit", "update"}, hash : BlockHash]

\* The shape of the state.
TypeOK ==
  /\ up \in [Node -> BOOLEAN]
  /\ dbFile \in [Node -> BOOLEAN]
  /\ stored \in [Node -> SUBSET BlockHash]
  /\ tip \in [Node -> Hashes]
  /\ newBlockHash \in [Node -> Hashes]
  /\ knownNodes \in [Node -> SUBSET Node]
  /\ queue \in [Node -> SUBSET BlockHash]
  /\ asked \in [Node -> [BlockHash -> 0..MaxRequests]]
  /\ \A m \in net : m \in Messages
  /\ running \subseteq Tasks
  /\ stops \in 0..MaxStops
  /\ panics \subseteq Node
  /\ applied \in [Node -> Hashes]
  /\ updated \in [Node -> SUBSET BlockHash]
  /\ inOrder \in [Node -> BOOLEAN]

\* The server writes block, tip and memory in this order under one lock, so the
\* tip in memory is the stored one unless a commit is under way, however many
\* connections deliver blocks and whatever forks they bring.
TipInMemory == \A n \in Node : up[n] /\ ~Writing(n) => newBlockHash[n] = tip[n]

\* A node whose updates all ran right after their parents' has in its chainstate
\* what a walk of its chain finds unspent, whoever mined the blocks and however
\* the messages of the other blocks are delayed.
InOrderAgrees ==
  \A n \in Node : inOrder[n] /\ applied[n] = tip[n] /\ tip[n] # NoBlock =>
    /\ Whole(n, tip[n])
    /\ chainstate[n] = FindUTXO(Branch(Blocks(n), tip[n]))

\* Blocks are never removed, and the tip moves only with the block just stored.
Store == INSTANCE BlockStore WITH head <- tip
ImplementsBlockStore == Store!Spec

Behind(n) == \E m \in net : m.type = "version" /\ m.from = n /\ m.to = Seed
                             /\ m.height < GetBestHeight(Seed)

\* No block of an earlier life of the server is under way or lacks its parent.
Afresh(n) ==
  /\ up[n] /\ ~Writing(n)
  /\ Visited(n, tip[n]) \subseteq stored[n] \cup {NoBlock}
  /\ \A m \in net : m.type \in {"getdata", "block"} => n \notin {m.from, m.to}

\* A node that starts afresh and tells a longer seed its height gets every block the
\* seed has, unless a server stops or panics before it does.
SyncStores ==
  \A n \in Node \ {Seed}, h \in BlockHash, k \in 0..MaxStops :
    Behind(n) /\ Afresh(n) /\ h \in Visited(Seed, tip[Seed]) /\ stops = k /\ panics = {}
      ~> h \in stored[n] \/ stops > k \/ panics # {}

\* What the documents promise of a new node: next to a seed that has blocks it
\* gets them.
NewNodeGetsBlocks ==
  \A n \in Node : (/\ tip[Seed] # NoBlock /\ tip[n] = NoBlock
                    /\ \E m \in net : m.type = "version" /\ m.from = n /\ m.to = Seed)
                   ~> tip[n] # NoBlock

\* A block that is already stored is skipped: after updates in order, none of a
\* block that was applied before changes the chainstate.
StoredBlockIsSkipped ==
  [][\A n \in Node : inOrder[n] /\ applied'[n] # applied[n] /\ updated'[n] = updated[n]
                      => chainstate'[n] = chainstate[n]]_vars
=============================================================================
