--------------------------- MODULE BlockSyncProofs ---------------------------
(***************************************************************************)
(* Theorems about BlockSync, for any number of nodes, blocks, forks,       *)
(* requests and stopped servers.                                           *)
(***************************************************************************)
EXTENDS BlockSync, LedgerProofs, TLAPS

\* Messages are on their way to running servers, and handlers belong to them.
Alive == /\ \A m \in net : up[m.to]
         /\ \A t \in running : up[t.node]

\* A server commits one block at a time; the block is not stored yet and is already
\* the tip in memory.
OneCommit ==
  /\ \A t, u \in running : t.do = "commit" /\ u.do = "commit" /\ t.node = u.node => t = u
  /\ \A t \in running : t.do = "commit" => /\ t.hash \notin stored[t.node]
                                           /\ newBlockHash[t.node] = t.hash

SyncInv == TypeOK /\ Alive /\ OneCommit /\ TipInMemory

\* What a step does to the stores, for the refinement.
Abstract == Store!Next \/ UNCHANGED <<stored, tip>>

LEMMA InitInv == Init => SyncInv
<1> SUFFICES ASSUME Init
             PROVE  SyncInv
  OBVIOUS
<1>1. TypeOK
  BY BlockSyncAssumption DEF Init, TypeOK, Hashes, NothingAsked, Messages
<1>2. Alive /\ OneCommit
  BY DEF Init, Alive, OneCommit
<1>3. TipInMemory
  BY DEF Init, TipInMemory
<1> QED
  BY <1>1, <1>2, <1>3 DEF SyncInv

-----------------------------------------------------------------------------
(* What is on the way *)

\* The fields of a message, by its type.
LEMMA Fields ==
  ASSUME NEW m \in Messages
  PROVE  /\ m.from \in Node /\ m.to \in Node
         /\ m.type = "inv" => m.items \subseteq BlockHash
         /\ m.type \in {"getdata", "block"} => m.hash \in BlockHash
BY DEF Messages

LEMMA TaskFields ==
  ASSUME NEW t \in Tasks
  PROVE  /\ t.node \in Node
         /\ t.do \in {"sendVersion", "replyVersion"} => t.to \in Node
         /\ t.do \in {"commit", "update"} => t.hash \in BlockHash
BY DEF Tasks

\* A message made of parts of the right kind.
LEMMA MessageMade ==
  ASSUME NEW a \in Node, NEW b \in Node
  PROVE  /\ \A k \in Nat : [type |-> "version", from |-> a, to |-> b, height |-> k] \in Messages
         /\ [type |-> "getblocks", from |-> a, to |-> b] \in Messages
         /\ \A s \in SUBSET BlockHash :
              [type |-> "inv", from |-> a, to |-> b, items |-> s] \in Messages
         /\ \A h \in BlockHash :
              /\ [type |-> "getdata", from |-> a, to |-> b, hash |-> h] \in Messages
              /\ [type |-> "block", from |-> a, to |-> b, hash |-> h] \in Messages
BY DEF Messages

LEMMA TaskMade ==
  ASSUME NEW n \in Node
  PROVE  /\ \A b \in Node : /\ [node |-> n, do |-> "sendVersion", to |-> b] \in Tasks
                            /\ [node |-> n, do |-> "replyVersion", to |-> b] \in Tasks
         /\ \A h \in BlockHash : /\ [node |-> n, do |-> "commit", hash |-> h] \in Tasks
                                 /\ [node |-> n, do |-> "update", hash |-> h] \in Tasks
BY DEF Tasks

\* The heights that nodes tell each other are numbers.
LEMMA HeightIsNat ==
  ASSUME TypeOK, NEW n \in Node
  PROVE  GetBestHeight(n) \in Nat
BY BlockSyncAssumption DEF TypeOK, Hashes, GetBestHeight

\* A send puts at most its message on the way, and only to a running server.
LEMMA SendKept ==
  ASSUME TypeOK, NEW m \in Messages, NEW rest \in SUBSET net, SendData(m, rest)
  PROVE  /\ net' \subseteq net \cup {m}
         /\ \A k \in net' \ net : up[k.to]
         /\ \A k \in net' : k \in Messages
         /\ knownNodes' \in [Node -> SUBSET Node]
<1>1. m.from \in Node
  BY Fields
<1> QED
  BY <1>1 DEF SendData, TypeOK

-----------------------------------------------------------------------------
(* Two kinds of steps *)

\* Steps that touch no store, and start and end no commit.
LEMMA TalkInv ==
  ASSUME SyncInv, TypeOK',
         UNCHANGED <<up, stored, tip, newBlockHash>>,
         \A m \in net' \ net : up[m.to],
         \A t \in running' \ running : up[t.node] /\ t.do # "commit",
         \A t \in running \ running' : t.do # "commit"
  PROVE  SyncInv' /\ Abstract
<1>1. Alive'
  BY DEF SyncInv, Alive
<1>2. OneCommit'
  BY DEF SyncInv, OneCommit
<1>3. \A n \in Node : Writing(n)' = Writing(n)
  BY DEF Writing
<1>4. TipInMemory'
  BY <1>3 DEF SyncInv, TipInMemory
<1> QED
  BY <1>1, <1>2, <1>4 DEF SyncInv, Abstract

\* The end of a server.
LEMMA DownInv ==
  ASSUME SyncInv, NEW n \in Node, GoesDown(n),
         stops' \in 0..MaxStops, panics' \subseteq Node,
         UNCHANGED <<applied, updated, inOrder>>
  PROVE  SyncInv' /\ Abstract
<1>1. TypeOK
  BY DEF SyncInv
<1>2. TypeOK'
  BY <1>1, BlockSyncAssumption
     DEF GoesDown, dbVars, TypeOK, Hashes, NothingAsked
<1>3. /\ up' = [up EXCEPT ![n] = FALSE]
      /\ newBlockHash' = [newBlockHash EXCEPT ![n] = NoBlock]
      /\ net' = {m \in net : m.to # n}
      /\ running' = {t \in running : t.node # n}
      /\ UNCHANGED <<stored, tip>>
  BY DEF GoesDown, dbVars
<1>4. ~up'[n] /\ \A k \in Node \ {n} : up'[k] = up[k] /\ newBlockHash'[k] = newBlockHash[k]
  BY <1>1, <1>3 DEF TypeOK
<1>5. \A t \in running : t.node \in Node
  BY <1>1, TaskFields DEF TypeOK
<1>6. \A m \in net : m.to \in Node
  BY <1>1, Fields DEF TypeOK
<1>7. Alive'
  BY <1>3, <1>4, <1>5, <1>6 DEF SyncInv, Alive
<1>8. OneCommit'
  BY <1>3, <1>4, <1>5 DEF SyncInv, OneCommit
<1>9. TipInMemory'
  <2>1. \A k \in Node \ {n} : Writing(k)' = Writing(k)
    BY <1>3 DEF Writing
  <2> QED
    BY <1>3, <1>4, <2>1 DEF SyncInv, TipInMemory
<1> QED
  BY <1>2, <1>3, <1>7, <1>8, <1>9 DEF SyncInv, Abstract

-----------------------------------------------------------------------------
(* Steps that exchange messages *)

LEMMA SendVersionInv ==
  ASSUME SyncInv, NEW t \in running, SendVersion(t)
  PROVE  SyncInv' /\ Abstract
<1>1. TypeOK /\ t \in Tasks
  BY DEF SyncInv, TypeOK
<1>2. t.node \in Node /\ t.to \in Node
  BY <1>1, TaskFields DEF SendVersion
<1>3. Version(t.node, t.to) \in Messages
  BY <1>1, <1>2, HeightIsNat, MessageMade DEF Version
<1>4. /\ net' \subseteq net \cup {Version(t.node, t.to)}
      /\ \A k \in net' \ net : up[k.to]
      /\ \A k \in net' : k \in Messages
      /\ knownNodes' \in [Node -> SUBSET Node]
  BY <1>1, <1>3, SendKept DEF SendVersion
<1>5. TypeOK'
  BY <1>1, <1>4 DEF SendVersion, dbVars, histVars, ranVars, TypeOK
<1> QED
  BY <1>4, <1>5, TalkInv DEF SendVersion, dbVars

LEMMA ReplyVersionInv ==
  ASSUME SyncInv, NEW t \in running, ReplyVersion(t)
  PROVE  SyncInv' /\ Abstract
<1>1. TypeOK /\ t \in Tasks
  BY DEF SyncInv, TypeOK
<1>2. t.node \in Node /\ t.to \in Node
  BY <1>1, TaskFields DEF ReplyVersion
<1>3. Version(t.node, t.to) \in Messages /\ Version(t.node, t.to).to = t.to
  BY <1>1, <1>2, HeightIsNat, MessageMade DEF Version
<1>4. (\A k \in net' \ net : up[k.to]) /\ (\A k \in net' : k \in Messages)
  BY <1>1, <1>3 DEF ReplyVersion, TypeOK
<1>5. TypeOK'
  BY <1>1, <1>2, <1>4 DEF ReplyVersion, dbVars, histVars, ranVars, TypeOK
<1> QED
  BY <1>4, <1>5, TalkInv DEF ReplyVersion, dbVars

LEMMA HandleVersionInv ==
  ASSUME SyncInv, NEW m \in net, HandleVersion(m)
  PROVE  SyncInv' /\ Abstract
<1> DEFINE reply == [node |-> m.to, do |-> "replyVersion", to |-> m.from]
           getblocks == [type |-> "getblocks", from |-> m.to, to |-> m.from]
<1>1. TypeOK /\ m \in Messages /\ up[m.to]
  BY DEF SyncInv, TypeOK, Alive
<1>2. m.from \in Node /\ m.to \in Node
  BY <1>1, Fields
<1>3. reply \in Tasks /\ reply.node = m.to /\ reply.do # "commit"
  BY <1>2, TaskMade
<1>4. getblocks \in Messages /\ getblocks.to = m.from
  BY <1>2, MessageMade
<1>5. /\ running \subseteq running' /\ running' \subseteq running \cup {reply}
      /\ net' \subseteq net \cup {getblocks}
      /\ getblocks \in net' => getblocks \in net \/ up[m.from]
      /\ knownNodes' = knownNodes \/ knownNodes' = [knownNodes EXCEPT ![m.to] = @ \cup {m.from}]
      /\ UNCHANGED <<up, dbVars, newBlockHash, queue, asked, histVars>>
  BY DEF HandleVersion
<1>6. TypeOK'
  <2>1. \A k \in net' : k \in Messages
    BY <1>1, <1>4, <1>5 DEF TypeOK
  <2>2. running' \subseteq Tasks
    BY <1>1, <1>3, <1>5 DEF TypeOK
  <2>3. knownNodes' \in [Node -> SUBSET Node]
    BY <1>1, <1>2, <1>5 DEF TypeOK
  <2> QED
    BY <1>1, <1>5, <2>1, <2>2, <2>3 DEF dbVars, histVars, ranVars, TypeOK
<1>7. \A k \in net' \ net : up[k.to]
  BY <1>4, <1>5
<1>8. \A t \in running' \ running : up[t.node] /\ t.do # "commit"
  BY <1>1, <1>3, <1>5
<1> QED
  BY <1>5, <1>6, <1>7, <1>8, TalkInv DEF dbVars

LEMMA HandleGetBlocksInv ==
  ASSUME SyncInv, NEW m \in net, HandleGetBlocks(m)
  PROVE  SyncInv' /\ Abstract
<1> DEFINE inv == [type |-> "inv", from |-> m.to, to |-> m.from,
                   items |-> Visited(m.to, newBlockHash[m.to]) \ {NoBlock}]
<1>1. TypeOK /\ m \in Messages
  BY DEF SyncInv, TypeOK
<1>2. m.from \in Node /\ m.to \in Node
  BY <1>1, Fields
<1>3. CASE Whole(m.to, newBlockHash[m.to])
  <2>1. Visited(m.to, newBlockHash[m.to]) \ {NoBlock} \subseteq BlockHash
    BY <1>1, <1>2, <1>3 DEF Whole, TypeOK
  <2>2. inv \in Messages
    BY <1>2, <2>1, MessageMade
  <2>3. /\ SendData(inv, net \ {m})
        /\ UNCHANGED <<up, dbVars, newBlockHash, queue, asked, running, histVars>>
    BY <1>3 DEF HandleGetBlocks
  <2> HIDE DEF inv
  <2>4. /\ \A k \in net' \ net : up[k.to]
        /\ \A k \in net' : k \in Messages
        /\ knownNodes' \in [Node -> SUBSET Node]
    BY <1>1, <2>2, <2>3, SendKept
  <2>5. TypeOK'
    BY <1>1, <2>3, <2>4 DEF dbVars, histVars, ranVars, TypeOK
  <2> QED
    BY <2>3, <2>4, <2>5, TalkInv DEF dbVars
<1>4. CASE ~Whole(m.to, newBlockHash[m.to])
  <2>1. GoesDown(m.to) /\ panics' = panics \cup {m.to} /\ UNCHANGED <<stops, ranVars>>
    BY <1>4 DEF HandleGetBlocks
  <2>2. panics' \subseteq Node /\ stops' \in 0..MaxStops
    BY <1>1, <1>2, <2>1 DEF TypeOK
  <2> QED
    BY <1>2, <2>1, <2>2, DownInv DEF ranVars
<1> QED
  BY <1>3, <1>4

LEMMA HandleInvInv ==
  ASSUME SyncInv, NEW m \in net, HandleInv(m)
  PROVE  SyncInv' /\ Abstract
<1>1. TypeOK /\ m \in Messages /\ m.type = "inv"
  BY DEF SyncInv, TypeOK, HandleInv
<1>2. m.to \in Node /\ m.items \subseteq BlockHash
  BY <1>1, Fields
<1>3. queue' \in [Node -> SUBSET BlockHash]
  BY <1>1, <1>2 DEF HandleInv, TypeOK
<1>4. TypeOK'
  BY <1>1, <1>3 DEF HandleInv, dbVars, histVars, ranVars, TypeOK
<1> QED
  BY <1>4, TalkInv DEF HandleInv, dbVars

LEMMA HandleGetDataInv ==
  ASSUME SyncInv, NEW m \in net, HandleGetData(m)
  PROVE  SyncInv' /\ Abstract
<1> DEFINE block == [type |-> "block", from |-> m.to, to |-> m.from, hash |-> m.hash]
<1>1. TypeOK /\ m \in Messages /\ m.type = "getdata"
  BY DEF SyncInv, TypeOK, HandleGetData
<1>2. m.from \in Node /\ m.to \in Node /\ m.hash \in BlockHash
  BY <1>1, Fields
<1>3. block \in Messages
  BY <1>2, MessageMade
<1>4. SendData(block, net \ {m}) \/ (net' = net \ {m} /\ UNCHANGED knownNodes)
  BY DEF HandleGetData
<1> HIDE DEF block
<1>5. /\ \A k \in net' \ net : up[k.to]
      /\ \A k \in net' : k \in Messages
      /\ knownNodes' \in [Node -> SUBSET Node]
  <2>1. CASE SendData(block, net \ {m})
    BY <1>1, <1>3, <2>1, SendKept
  <2>2. CASE net' = net \ {m} /\ UNCHANGED knownNodes
    BY <1>1, <2>2 DEF TypeOK
  <2> QED
    BY <1>4, <2>1, <2>2
<1>6. TypeOK'
  BY <1>1, <1>5 DEF HandleGetData, dbVars, histVars, ranVars, TypeOK
<1> QED
  BY <1>5, <1>6, TalkInv DEF HandleGetData, dbVars

LEMMA RequestInv ==
  ASSUME SyncInv, NEW n \in Node, NEW h \in BlockHash, Request(n, h)
  PROVE  SyncInv' /\ Abstract
<1>1. TypeOK
  BY DEF SyncInv
<1>2. queue' \in [Node -> SUBSET BlockHash] /\ asked' \in [Node -> [BlockHash -> 0..MaxRequests]]
  <2>1. asked[n][h] + 1 \in 0..MaxRequests
    BY <1>1, BlockSyncAssumption DEF Request, TypeOK
  <2> QED
    BY <1>1, <2>1 DEF Request, TypeOK
<1>3. /\ \A k \in net' \ net : up[k.to]
      /\ \A k \in net' : k \in Messages
      /\ knownNodes' \in [Node -> SUBSET Node]
  <2>1. CASE UNCHANGED <<net, knownNodes>>
    BY <1>1, <2>1 DEF TypeOK
  <2>2. ASSUME NEW peer \in knownNodes[n],
               SendData([type |-> "getdata", from |-> n, to |-> peer, hash |-> h], net)
        PROVE  /\ \A k \in net' \ net : up[k.to]
               /\ \A k \in net' : k \in Messages
               /\ knownNodes' \in [Node -> SUBSET Node]
    <3>1. peer \in Node
      BY <1>1 DEF TypeOK
    <3>2. [type |-> "getdata", from |-> n, to |-> peer, hash |-> h] \in Messages
      BY <3>1, MessageMade
    <3> QED
      BY <1>1, <2>2, <3>2, SendKept
  <2> QED
    BY <2>1, <2>2 DEF Request
<1>4. TypeOK'
  BY <1>1, <1>2, <1>3 DEF Request, dbVars, histVars, ranVars, TypeOK
<1> QED
  BY <1>3, <1>4, TalkInv DEF Request, dbVars

LEMMA GiveUpInv ==
  ASSUME SyncInv, NEW n \in Node, NEW h \in BlockHash, GiveUp(n, h)
  PROVE  SyncInv' /\ Abstract
<1>1. TypeOK
  BY DEF SyncInv
<1>2. asked' \in [Node -> [BlockHash -> 0..MaxRequests]]
  BY <1>1, BlockSyncAssumption DEF GiveUp, TypeOK
<1>3. TypeOK'
  BY <1>1, <1>2 DEF GiveUp, dbVars, commVars, histVars, ranVars, TypeOK
<1> QED
  BY <1>3, TalkInv DEF GiveUp, dbVars, commVars

-----------------------------------------------------------------------------
(* Steps that write blocks, and the start of a server *)

\* What Record leaves behind.
LEMMA RecordKept ==
  ASSUME TypeOK, NEW n \in Node, NEW h \in BlockHash, Record(n, h)
  PROVE  /\ applied' \in [Node -> Hashes]
         /\ updated' \in [Node -> SUBSET BlockHash]
         /\ inOrder' \in [Node -> BOOLEAN]
<1>1. applied' \in [Node -> Hashes] /\ updated' \in [Node -> SUBSET BlockHash]
  BY DEF Record, TypeOK, Hashes
<1>2. inOrder' \in [Node -> BOOLEAN]
  BY Zenon DEF Record, TypeOK
<1> QED
  BY <1>1, <1>2

LEMMA MineInv ==
  ASSUME SyncInv, NEW n \in Node, NEW h \in BlockHash, Mine(n, h)
  PROVE  SyncInv' /\ Abstract
<1>1. TypeOK
  BY DEF SyncInv
<1>2. /\ ~up[n] /\ h \notin stored[n]
      /\ stored' = [stored EXCEPT ![n] = @ \cup {h}]
      /\ tip' = [tip EXCEPT ![n] = h]
      /\ UNCHANGED <<up, newBlockHash, net, running>>
  BY DEF Mine, memVars, commVars
<1>3. TypeOK'
  <2>1. stored' \in [Node -> SUBSET BlockHash] /\ tip' \in [Node -> Hashes]
    BY <1>1, <1>2 DEF TypeOK, Hashes
  <2>2. dbFile' \in [Node -> BOOLEAN]
    BY <1>1 DEF Mine, TypeOK
  <2> QED
    BY <1>1, <2>1, <2>2, RecordKept DEF Mine, memVars, commVars, TypeOK
<1>4. Alive' /\ \A t \in running : t.node # n
  BY <1>2 DEF SyncInv, Alive
<1>5. \A k \in Node \ {n} : stored'[k] = stored[k] /\ tip'[k] = tip[k]
  BY <1>1, <1>2 DEF TypeOK
<1>6. \A t \in running : t.node \in Node
  BY <1>1, TaskFields DEF TypeOK
<1>7. OneCommit'
  BY <1>2, <1>4, <1>5, <1>6 DEF SyncInv, OneCommit
<1>8. TipInMemory'
  BY <1>2, <1>5 DEF SyncInv, TipInMemory, Writing
<1>9. Store!Add(n, h)
  BY <1>2 DEF Store!Add
<1> QED
  BY <1>3, <1>4, <1>7, <1>8, <1>9 DEF SyncInv, Abstract, Store!Next

LEMMA StartServerInv ==
  ASSUME SyncInv, NEW n \in Node, StartServer(n)
  PROVE  SyncInv' /\ Abstract
<1> DEFINE task == [node |-> n, do |-> "sendVersion", to |-> Seed]
<1>1. TypeOK
  BY DEF SyncInv
<1>2. /\ ~up[n]
      /\ up' = [up EXCEPT ![n] = TRUE]
      /\ newBlockHash' = [newBlockHash EXCEPT ![n] = tip[n]]
      /\ running' = running \/ running' = running \cup {task}
      /\ UNCHANGED <<stored, tip, net>>
  BY DEF StartServer, InitBlockchain
<1>3. task \in Tasks /\ task.node = n /\ task.do = "sendVersion"
  BY BlockSyncAssumption, TaskMade
<1> HIDE DEF task
<1>4. TypeOK'
  <2>1. up' \in [Node -> BOOLEAN] /\ dbFile' \in [Node -> BOOLEAN]
    BY <1>1, <1>2 DEF StartServer, InitBlockchain, TypeOK
  <2>2. newBlockHash' \in [Node -> Hashes] /\ knownNodes' \in [Node -> SUBSET Node]
    BY <1>1, <1>2, BlockSyncAssumption DEF StartServer, TypeOK
  <2> QED
    BY <1>1, <1>2, <1>3, <2>1, <2>2 DEF StartServer, histVars, ranVars, TypeOK
<1>5. up'[n] /\ \A k \in Node \ {n} : up'[k] = up[k] /\ newBlockHash'[k] = newBlockHash[k]
  BY <1>1, <1>2 DEF TypeOK
<1>6. /\ \A t \in running : t.node \in Node /\ t.node # n
      /\ \A m \in net : m.to \in Node
  BY <1>1, <1>2, TaskFields, Fields DEF SyncInv, Alive, TypeOK
<1>7. Alive'
  BY <1>2, <1>3, <1>5, <1>6 DEF SyncInv, Alive
<1>8. OneCommit'
  BY <1>2, <1>3, <1>5, <1>6 DEF SyncInv, OneCommit
<1>9. TipInMemory'
  <2>1. newBlockHash'[n] = tip'[n]
    BY <1>1, <1>2 DEF TypeOK
  <2>2. \A k \in Node : Writing(k)' = Writing(k)
    BY <1>2, <1>3 DEF Writing
  <2> QED
    BY <1>2, <1>5, <2>1, <2>2 DEF SyncInv, TipInMemory
<1> QED
  BY <1>2, <1>4, <1>7, <1>8, <1>9 DEF SyncInv, Abstract

LEMMA HandleBlockInv ==
  ASSUME SyncInv, NEW m \in net, HandleBlock(m)
  PROVE  SyncInv' /\ Abstract
<1> DEFINE task == [node |-> m.to, do |-> IF m.hash \notin stored[m.to] THEN "commit" ELSE "update",
                    hash |-> m.hash]
<1>1. TypeOK /\ m \in Messages /\ m.type = "block" /\ up[m.to]
  BY DEF SyncInv, TypeOK, HandleBlock, Alive
<1>2. m.to \in Node /\ m.hash \in BlockHash
  BY <1>1, Fields
<1>3. /\ ~Writing(m.to)
      /\ net' = net \ {m}
      /\ newBlockHash' = IF m.hash \notin stored[m.to] THEN [newBlockHash EXCEPT ![m.to] = m.hash]
                         ELSE newBlockHash
      /\ running' = running \cup {task}
      /\ UNCHANGED <<up, dbVars, knownNodes, queue, asked, histVars>>
  BY DEF HandleBlock
<1>4. /\ task \in Tasks /\ task.node = m.to /\ task.hash = m.hash
      /\ task.do = IF m.hash \notin stored[m.to] THEN "commit" ELSE "update"
  BY <1>2, TaskMade
<1> HIDE DEF task
<1>5. TypeOK'
  <2>1. newBlockHash' \in [Node -> Hashes]
    BY <1>1, <1>2, <1>3 DEF TypeOK, Hashes
  <2> QED
    BY <1>1, <1>3, <1>4, <2>1 DEF dbVars, histVars, ranVars, TypeOK
<1>6. CASE m.hash \in stored[m.to]
  BY <1>1, <1>3, <1>4, <1>5, <1>6, TalkInv DEF dbVars
<1>7. CASE m.hash \notin stored[m.to]
  <2>1. /\ newBlockHash'[m.to] = m.hash
        /\ \A k \in Node \ {m.to} : newBlockHash'[k] = newBlockHash[k]
    BY <1>1, <1>2, <1>3, <1>7 DEF TypeOK
  <2>2. \A t \in running : t.do = "commit" => t.node \in Node \ {m.to}
    BY <1>1, <1>3, TaskFields DEF TypeOK, Writing
  <2>3. Alive'
    BY <1>1, <1>3, <1>4 DEF SyncInv, Alive
  <2>4. OneCommit'
    BY <1>3, <1>4, <1>7, <2>1, <2>2 DEF SyncInv, OneCommit, dbVars
  <2>5. TipInMemory'
    <3>1. Writing(m.to)' /\ \A k \in Node : Writing(k) => Writing(k)'
      BY <1>3, <1>4, <1>7 DEF Writing
    <3> QED
      BY <1>3, <2>1, <3>1 DEF SyncInv, TipInMemory, dbVars
  <2> QED
    BY <1>3, <1>5, <2>3, <2>4, <2>5 DEF SyncInv, Abstract, dbVars
<1> QED
  BY <1>6, <1>7

LEMMA CommitInv ==
  ASSUME SyncInv, NEW t \in running, Commit(t)
  PROVE  SyncInv' /\ Abstract
<1> DEFINE task == [t EXCEPT !.do = "update"]
<1>1. TypeOK /\ t \in Tasks /\ t.do = "commit"
  BY DEF SyncInv, TypeOK, Commit
<1>2. t.node \in Node /\ t.hash \in BlockHash
  BY <1>1, TaskFields
<1>3. t.hash \notin stored[t.node] /\ newBlockHash[t.node] = t.hash
  BY <1>1 DEF SyncInv, OneCommit
<1>4. task \in Tasks /\ task.node = t.node /\ task.do = "update"
  BY <1>1 DEF Tasks
<1>5. /\ stored' = [stored EXCEPT ![t.node] = @ \cup {t.hash}]
      /\ tip' = [tip EXCEPT ![t.node] = t.hash]
      /\ running' = (running \ {t}) \cup {task}
      /\ UNCHANGED <<up, dbFile, chainstate, memVars, net, histVars>>
  BY DEF Commit
<1> HIDE DEF task
<1>6. TypeOK'
  <2>1. stored' \in [Node -> SUBSET BlockHash] /\ tip' \in [Node -> Hashes]
    BY <1>1, <1>2, <1>5 DEF TypeOK, Hashes
  <2> QED
    BY <1>1, <1>4, <1>5, <2>1 DEF memVars, histVars, ranVars, TypeOK
<1>7. /\ tip'[t.node] = t.hash
      /\ \A k \in Node \ {t.node} : stored'[k] = stored[k] /\ tip'[k] = tip[k]
  BY <1>1, <1>2, <1>5 DEF TypeOK
<1>8. \A u \in running' : u.do = "commit" => u \in running /\ u.node \in Node \ {t.node}
  BY <1>1, <1>4, <1>5, TaskFields DEF SyncInv, OneCommit, TypeOK
<1>9. Alive'
  BY <1>4, <1>5 DEF SyncInv, Alive
<1>10. OneCommit'
  BY <1>5, <1>7, <1>8 DEF SyncInv, OneCommit, memVars
<1>11. TipInMemory'
  <2>1. \A k \in Node \ {t.node} : Writing(k) => Writing(k)'
    BY <1>5 DEF Writing
  <2> QED
    BY <1>3, <1>5, <1>7, <2>1 DEF SyncInv, TipInMemory, memVars
<1>12. Store!Add(t.node, t.hash)
  BY <1>3, <1>5 DEF Store!Add
<1> QED
  BY <1>2, <1>6, <1>9, <1>10, <1>11, <1>12 DEF SyncInv, Abstract, Store!Next

LEMMA UpdateInv ==
  ASSUME SyncInv, NEW t \in running, Update(t)
  PROVE  SyncInv' /\ Abstract
<1>1. TypeOK /\ t \in Tasks /\ t.do = "update"
  BY DEF SyncInv, TypeOK, Update
<1>2. t.node \in Node /\ t.hash \in BlockHash
  BY <1>1, TaskFields
<1>3. /\ running' = running \ {t}
      /\ Record(t.node, t.hash)
      /\ UNCHANGED <<up, dbFile, stored, tip, memVars, net, stops, panics>>
  BY DEF Update
<1>4. TypeOK'
  BY <1>1, <1>2, <1>3, RecordKept DEF memVars, TypeOK
<1> QED
  BY <1>1, <1>3, <1>4, TalkInv DEF memVars

-----------------------------------------------------------------------------
(* Every step *)

LEMMA Inductive == SyncInv /\ [Next]_vars => SyncInv' /\ Abstract
<1> SUFFICES ASSUME SyncInv, [Next]_vars
             PROVE  SyncInv' /\ Abstract
  OBVIOUS
<1>1. ASSUME NEW n \in Node, NEW h \in BlockHash, Mine(n, h) \/ Request(n, h) \/ GiveUp(n, h)
      PROVE  SyncInv' /\ Abstract
  BY <1>1, MineInv, RequestInv, GiveUpInv
<1>2. ASSUME NEW n \in Node, Stop(n)
      PROVE  SyncInv' /\ Abstract
  <2>1. stops' \in 0..MaxStops /\ panics' \subseteq Node
    BY <1>2, BlockSyncAssumption DEF Stop, SyncInv, TypeOK
  <2> QED
    BY <1>2, <2>1, DownInv DEF Stop, ranVars
<1>3. ASSUME NEW m \in net,
             \/ HandleVersion(m) \/ HandleGetBlocks(m) \/ HandleInv(m)
             \/ HandleGetData(m) \/ HandleBlock(m)
      PROVE  SyncInv' /\ Abstract
  BY <1>3, HandleVersionInv, HandleGetBlocksInv, HandleInvInv, HandleGetDataInv, HandleBlockInv
<1>4. ASSUME NEW t \in running, SendVersion(t) \/ ReplyVersion(t) \/ Commit(t) \/ Update(t)
      PROVE  SyncInv' /\ Abstract
  BY <1>4, SendVersionInv, ReplyVersionInv, CommitInv, UpdateInv
<1>5. CASE UNCHANGED vars
  <2>1. TypeOK'
    BY <1>5 DEF vars, dbVars, memVars, commVars, histVars, ranVars, SyncInv, TypeOK
  <2> QED
    BY <1>5, <2>1, TalkInv DEF vars, dbVars, memVars, commVars
<1> QED
  BY <1>1, <1>2, <1>3, <1>4, <1>5, StartServerInv DEF Next, Handler, Manager

LEMMA SyncInvHolds == Spec => []SyncInv
<1>1. SyncInv /\ [Next]_vars => SyncInv'
  BY Inductive
<1> QED
  BY InitInv, <1>1, PTL DEF Spec

-----------------------------------------------------------------------------
(* What is in the chainstates *)

\* The blocks with their hashes in S.
Line(S) == [h \in S |-> BlockData[h]]

\* S is a branch of safe blocks with the newest called top, and cs is what a walk
\* of it finds unspent.
Lined(S, top, cs) ==
  /\ Closed(Line(S))
  /\ Ends(Line(S), top)
  /\ SafeChain(Line(S), top)
  /\ Shapely(Node, Line(S))
  /\ top \in S \cup {NoBlock}
  /\ \A g \in S : top # NoBlock /\ BlockData[g].height <= BlockData[top].height
  /\ cs = FindUTXO(Branch(Line(S), top))

\* A block is stored before its Update runs, and as long as updates run in order
\* the updated blocks are one branch.
InLine ==
  /\ chainstate = [n \in Node |-> chainstate[n]]
  /\ \A n \in Node : updated[n] \subseteq stored[n]
  /\ \A t \in running : t.do = "update" => t.hash \in stored[t.node]
  /\ \A n \in Node : inOrder[n] => Lined(updated[n], applied[n], chainstate[n])

\* An update right after its parent's passes the checks and carries the branch on.
LEMMA LineGrows ==
  ASSUME BlocksAreSafe, NEW S \in SUBSET BlockHash, NEW h \in BlockHash, NEW cs,
         Lined(S, BlockData[h].prev, cs)
  PROVE  /\ CanUpdate(cs, BlockData[h].txs)
         /\ Lined(S \cup {h}, h, UpdateUTXO(cs, BlockData[h].txs))
<1> DEFINE B == BlockData[h]
           t == B.prev
           bs == Line(S)
           new == Put(bs, h, B)
           cs1 == UpdateUTXO(cs, B.txs)
<1>0. /\ Closed(bs) /\ Ends(bs, t) /\ SafeChain(bs, t) /\ Shapely(Node, bs)
      /\ t \in S \cup {NoBlock}
      /\ \A g \in S : t # NoBlock /\ BlockData[g].height <= BlockData[t].height
      /\ cs = FindUTXO(Branch(bs, t))
  BY DEF Lined
<1>1. /\ B.height \in Nat
      /\ t # NoBlock => BlockData[t].height \in Nat /\ B.height = BlockData[t].height + 1
      /\ \A g \in S : BlockData[g].height \in Nat
  BY <1>0, BlockSyncAssumption
<1>2. h \notin S
  BY <1>0, <1>1
<1>3. DOMAIN bs = S
  BY DEF Line
<1>4. FitsOn(bs, t, h, B) /\ t \in DOMAIN bs \cup {NoBlock}
  BY <1>0, <1>2, <1>3, BlockSyncAssumption DEF FitsOn
<1>5. Line(S \cup {h}) = new
  BY <1>2, <1>3 DEF Line, Put
<1> HIDE DEF bs, new, B, t
<1>6. Closed(new) /\ Ends(new, h)
  BY <1>0, <1>4, BranchGrows DEF Heads, new
<1>7. \A g \in S \cup {h} : h # NoBlock /\ BlockData[g].height <= BlockData[h].height
  BY <1>0, <1>1, BlockSyncAssumption DEF B, t
<1>8. /\ CanUpdate(cs, B.txs)
      /\ SafeChain(new, h)
      /\ Shapely(Node, new)
      /\ cs1 = FindUTXO(Branch(new, h))
  <2>1. CASE t = NoBlock
    <3>1. PICK to \in Node : B.txs = <<NewCoinbaseTX(to)>>
      BY <2>1 DEF BlocksAreSafe, B, t
    <3>2. S = {}
      BY <1>0, <2>1
    <3>3. cs = <<>>
      BY <1>0, <1>3, <2>1, <3>2, EmptyIsSafe
    <3>4. SafeChain(new, h) /\ FindUTXO(Branch(new, h)) = UpdateUTXO(<<>>, B.txs)
      BY <1>3, <1>4, <2>1, <3>1, <3>2, GenesisIsSafe DEF new
    <3>5. CanUpdate(<<>>, B.txs)
      BY <3>1, GenesisUpdate
    <3>6. Shapely(Node, new)
      <4> DEFINE c == NewCoinbaseTX(to)
      <4>1. TxShape(Node, c)
        BY RewardShape
      <4>2. B.txs = <<c>>
        BY <3>1
      <4> HIDE DEF c
      <4>3. PICK TX : Shaped(Node, TX) /\ Carries(bs, TX) /\ c \in TX
        BY <1>0, <4>1, CommonTransactions
      <4>4. B.txs \in Seq(TX)
        BY <4>2, <4>3
      <4> QED
        BY <4>3, <4>4, PutKeepsShape DEF new
    <3> QED
      BY <3>3, <3>4, <3>5, <3>6
  <2>2. CASE t # NoBlock
    <3> DEFINE all == [b \in BlockHash |-> BlockData[b]]
               limit == Subsidy * Cardinality(BlockHash)
    <3>1. cs = FindUTXO(Branch(all, t))
      <4>1. IsFiniteSet(DOMAIN all) /\ Within(bs, all)
        BY <1>3, BlockSyncAssumption DEF Within, bs, Line
      <4> HIDE DEF all
      <4>2. Branch(all, t) = Branch(bs, t)
        BY <1>0, <1>4, <4>1, BranchWithin
      <4> QED
        BY <1>0, <4>2
    <3>2. /\ SafeToApply(cs, B.txs)
          /\ \E from, to \in Node, amount \in 1..limit :
               \E tx \in NewUTXOTransaction(cs, from, to, amount) :
                 B.txs = <<NewCoinbaseTX(from), tx>>
      BY <2>2, <3>1, Zenon DEF BlocksAreSafe, B, t
    <3>3. PICK from \in Node, to \in Node, amount \in 1..limit :
            \E tx \in NewUTXOTransaction(cs, from, to, amount) :
              B.txs = <<NewCoinbaseTX(from), tx>>
      BY <3>2
    <3>4. PICK tx \in NewUTXOTransaction(cs, from, to, amount) :
            B.txs = <<NewCoinbaseTX(from), tx>>
      BY <3>3
    <3> DEFINE c == NewCoinbaseTX(from)
    <3>5. amount \in Nat
      <4>1. limit \in Int
        BY BlockSyncAssumption, SubsidyAssumption, FS_CardinalityType
      <4> HIDE DEF limit
      <4> QED
        BY <4>1
    <3>6. IsChainstate(cs, Coins(Node))
      BY <1>0, <1>4, WalkedBucket
    <3>7. IsPayment(Node, cs, tx, from, to, amount)
      BY <3>6, PaymentFacts
    <3>8. TxShape(Node, c) /\ TxShape(Node, tx) /\ IsReward(c, from)
      BY <3>5, <3>7, RewardShape, PaymentShape DEF IsReward
    <3>9. B.txs = <<c, tx>> /\ CanUpdate(cs, <<c, tx>>)
      BY <3>4, SendApplies
    <3> HIDE DEF c, all, limit
    <3>10. PICK TX : Shaped(Node, TX) /\ Carries(bs, TX) /\ c \in TX /\ tx \in TX
      BY <1>0, <3>8, CommonTransactions
    <3>11. SafeToApply(cs, <<c, tx>>)
      BY <3>2, <3>9
    <3>12. /\ SafeChain(new, h)
           /\ FindUTXO(Branch(new, h)) = UpdateUTXO(cs, <<c, tx>>)
      BY <1>0, <1>4, <3>5, <3>7, <3>8, <3>9, <3>10, <3>11, MinedIsSafe, SMTT(60) DEF new
    <3>13. Shapely(Node, new)
      <4>1. B.txs \in Seq(TX)
        BY <3>9, <3>10
      <4> QED
        BY <3>10, <4>1, PutKeepsShape DEF new
    <3> QED
      BY <3>9, <3>12, <3>13
  <2> QED
    BY <2>1, <2>2
<1> HIDE DEF cs1
<1>9. Lined(S \cup {h}, h, cs1)
  BY <1>5, <1>6, <1>7, <1>8 DEF Lined
<1> QED
  BY <1>8, <1>9 DEF B, cs1

LEMMA InLineInit == Init => InLine
<1> SUFFICES ASSUME Init
             PROVE  InLine
  OBVIOUS
<1> DEFINE bs == Line({})
<1>1. DOMAIN bs = {}
  BY DEF Line
<1> HIDE DEF bs
<1>2. Closed(bs)
  BY <1>1, FS_EmptySet DEF Closed
<1>3. Ends(bs, NoBlock)
  BY <1>1, EndsEmpty
<1>4. SafeChain(bs, NoBlock) /\ <<>> = FindUTXO(Branch(bs, NoBlock))
  BY <1>1, EmptyIsSafe
<1>5. Shapely(Node, bs)
  <2>1. Shaped(Node, {}) /\ Carries(bs, {})
    BY <1>1 DEF Shaped, Carries
  <2> QED
    BY <2>1 DEF Shapely
<1>6. Lined({}, NoBlock, <<>>)
  BY <1>2, <1>3, <1>4, <1>5 DEF Lined, bs
<1> QED
  BY <1>6 DEF Init, InLine

\* Steps that update nothing, and store a block before they leave it to an update.
LEMMA LineKept ==
  ASSUME TypeOK, InLine, UNCHANGED <<chainstate, applied, updated, inOrder>>,
         \A n \in Node : stored[n] \subseteq stored'[n],
         \A t \in running' \ running : t.do = "update" => t.hash \in stored'[t.node]
  PROVE  InLine'
<1>1. \A t \in running : t.node \in Node
  BY TaskFields DEF TypeOK
<1>2. \A n \in Node : updated'[n] \subseteq stored'[n]
  BY DEF InLine
<1>3. \A t \in running' : t.do = "update" => t.hash \in stored'[t.node]
  BY <1>1 DEF InLine
<1>4. \A n \in Node : inOrder'[n] => Lined(updated'[n], applied'[n], chainstate'[n])
  BY DEF InLine
<1> QED
  BY <1>2, <1>3, <1>4 DEF InLine

\* Steps that update a stored block.
LEMMA LineMoves ==
  ASSUME BlocksAreSafe, TypeOK, InLine, NEW n \in Node, NEW h \in BlockHash, Record(n, h),
         h \in stored'[n],
         \A k \in Node : stored[k] \subseteq stored'[k],
         running' \subseteq running,
         chainstate' = IF CanUpdate(chainstate[n], BlockData[h].txs)
                       THEN [chainstate EXCEPT ![n] = UpdateUTXO(@, BlockData[h].txs)]
                       ELSE chainstate
  PROVE  InLine'
<1>1. \A t \in running : t.node \in Node
  BY TaskFields DEF TypeOK
<1>2. /\ applied'[n] = h
      /\ updated'[n] = updated[n] \cup {h}
      /\ inOrder'[n] => inOrder[n] /\ applied[n] = BlockData[h].prev
  <2>1. applied'[n] = h /\ updated'[n] = updated[n] \cup {h}
    BY DEF Record, TypeOK
  <2>2. inOrder'[n] => inOrder[n] /\ applied[n] = BlockData[h].prev
    BY Zenon DEF Record, TypeOK
  <2> QED
    BY <2>1, <2>2
<1>3. \A k \in Node \ {n} : /\ applied'[k] = applied[k] /\ updated'[k] = updated[k]
                            /\ inOrder'[k] = inOrder[k] /\ chainstate'[k] = chainstate[k]
  BY DEF Record, TypeOK, InLine
<1>4. \A k \in Node : updated'[k] \subseteq stored'[k]
  BY <1>2, <1>3 DEF InLine
<1>5. \A t \in running' : t.do = "update" => t.hash \in stored'[t.node]
  BY <1>1 DEF InLine
<1>6. \A k \in Node : inOrder'[k] => Lined(updated'[k], applied'[k], chainstate'[k])
  <2>1. ASSUME inOrder'[n]
        PROVE  Lined(updated'[n], applied'[n], chainstate'[n])
    <3>1. Lined(updated[n], BlockData[h].prev, chainstate[n])
      BY <1>2, <2>1 DEF InLine
    <3>2. updated[n] \in SUBSET BlockHash
      BY DEF TypeOK
    <3>3. /\ CanUpdate(chainstate[n], BlockData[h].txs)
          /\ Lined(updated[n] \cup {h}, h, UpdateUTXO(chainstate[n], BlockData[h].txs))
      BY <3>1, <3>2, LineGrows
    <3>4. chainstate'[n] = UpdateUTXO(chainstate[n], BlockData[h].txs)
      BY <3>3 DEF InLine
    <3> QED
      BY <1>2, <3>3, <3>4
  <2>2. ASSUME NEW k \in Node \ {n}, inOrder'[k]
        PROVE  Lined(updated'[k], applied'[k], chainstate'[k])
    BY <1>3, <2>2 DEF InLine
  <2> QED
    BY <2>1, <2>2
<1>7. chainstate' = [k \in Node |-> chainstate'[k]]
  BY DEF InLine
<1> QED
  BY <1>4, <1>5, <1>6, <1>7 DEF InLine

LEMMA InLineKept == BlocksAreSafe /\ SyncInv /\ InLine /\ [Next]_vars => InLine'
<1> SUFFICES ASSUME BlocksAreSafe, SyncInv, InLine, [Next]_vars
             PROVE  InLine'
  OBVIOUS
<1>0. TypeOK
  BY DEF SyncInv
<1>1. ASSUME NEW n \in Node, NEW h \in BlockHash, Mine(n, h)
      PROVE  InLine'
  <2>1. Record(n, h) /\ stored' = [stored EXCEPT ![n] = @ \cup {h}] /\ running' = running
    BY <1>1 DEF Mine, commVars
  <2>2. h \in stored'[n] /\ \A k \in Node : stored[k] \subseteq stored'[k]
    BY <1>0, <2>1 DEF TypeOK
  <2>3. /\ CanUpdate(chainstate[n], BlockData[h].txs)
        /\ chainstate' = [chainstate EXCEPT ![n] = UpdateUTXO(@, BlockData[h].txs)]
    BY <1>1 DEF Mine
  <2> QED
    BY <1>0, <2>1, <2>2, <2>3, LineMoves
<1>2. ASSUME NEW n \in Node, StartServer(n)
      PROVE  InLine'
  <2>1. \A t \in running' \ running : t.do = "sendVersion"
    BY <1>2 DEF StartServer
  <2> QED
    BY <1>0, <1>2, <2>1, LineKept DEF StartServer, histVars, ranVars
<1>3. ASSUME NEW n \in Node, GoesDown(n), UNCHANGED ranVars
      PROVE  InLine'
  BY <1>0, <1>3, LineKept DEF GoesDown, dbVars, ranVars
<1>4. ASSUME NEW n \in Node, NEW h \in BlockHash, Request(n, h) \/ GiveUp(n, h)
      PROVE  InLine'
  BY <1>0, <1>4, LineKept DEF Request, GiveUp, dbVars, commVars, histVars, ranVars
<1>5. ASSUME NEW m \in net, HandleVersion(m)
      PROVE  InLine'
  <2>1. \A t \in running' \ running : t.do = "replyVersion"
    BY <1>5 DEF HandleVersion
  <2> QED
    BY <1>0, <1>5, <2>1, LineKept DEF HandleVersion, dbVars, histVars, ranVars
<1>6. ASSUME NEW m \in net, HandleGetBlocks(m)
      PROVE  InLine'
  <2>1. m.to \in Node
    BY <1>0, Fields DEF TypeOK
  <2>2. CASE Whole(m.to, newBlockHash[m.to])
    BY <1>0, <1>6, <2>2, LineKept DEF HandleGetBlocks, dbVars, histVars, ranVars
  <2>3. CASE ~Whole(m.to, newBlockHash[m.to])
    BY <1>3, <1>6, <2>1, <2>3 DEF HandleGetBlocks
  <2> QED
    BY <2>2, <2>3
<1>7. ASSUME NEW m \in net, HandleInv(m) \/ HandleGetData(m)
      PROVE  InLine'
  BY <1>0, <1>7, LineKept DEF HandleInv, HandleGetData, dbVars, histVars, ranVars
<1>8. ASSUME NEW m \in net, HandleBlock(m)
      PROVE  InLine'
  <2>1. \A t \in running' \ running : t.do = "update" => t.hash \in stored[t.node]
    BY <1>8 DEF HandleBlock
  <2> QED
    BY <1>0, <1>8, <2>1, LineKept DEF HandleBlock, dbVars, histVars, ranVars
<1>9. ASSUME NEW t \in running, SendVersion(t) \/ ReplyVersion(t)
      PROVE  InLine'
  BY <1>0, <1>9, LineKept DEF SendVersion, ReplyVersion, dbVars, histVars, ranVars
<1>10. ASSUME NEW t \in running, Commit(t)
       PROVE  InLine'
  <2> DEFINE task == [t EXCEPT !.do = "update"]
  <2>1. t \in Tasks /\ t.do = "commit"
    BY <1>0, <1>10 DEF TypeOK, Commit
  <2>2. t.node \in Node /\ t.hash \in BlockHash /\ task.node = t.node /\ task.hash = t.hash
    BY <2>1 DEF Tasks
  <2> HIDE DEF task
  <2>3. /\ stored' = [stored EXCEPT ![t.node] = @ \cup {t.hash}]
        /\ running' = (running \ {t}) \cup {task}
        /\ UNCHANGED <<chainstate, applied, updated, inOrder>>
    BY <1>10 DEF Commit, histVars, ranVars, task
  <2>4. t.hash \in stored'[t.node] /\ \A k \in Node : stored[k] \subseteq stored'[k]
    BY <1>0, <2>2, <2>3 DEF TypeOK
  <2> QED
    BY <1>0, <2>2, <2>3, <2>4, LineKept
<1>11. ASSUME NEW t \in running, Update(t)
       PROVE  InLine'
  <2>1. t \in Tasks /\ t.do = "update"
    BY <1>0, <1>11 DEF TypeOK, Update
  <2>2. t.node \in Node /\ t.hash \in BlockHash
    BY <2>1, TaskFields
  <2>3. t.hash \in stored[t.node]
    BY <2>1 DEF InLine
  <2> DEFINE n == t.node
             h == t.hash
  <2>4. /\ Record(n, h) /\ running' \subseteq running /\ stored' = stored
        /\ chainstate' = IF CanUpdate(chainstate[n], BlockData[h].txs)
                         THEN [chainstate EXCEPT ![n] = UpdateUTXO(@, BlockData[h].txs)]
                         ELSE chainstate
    BY <1>11 DEF Update
  <2>5. n \in Node /\ h \in BlockHash /\ h \in stored'[n]
    BY <2>2, <2>3, <2>4
  <2> HIDE DEF n, h
  <2> QED
    BY <1>0, <2>4, <2>5, LineMoves
<1>12. CASE UNCHANGED vars
  BY <1>0, <1>12, LineKept DEF vars, dbVars, commVars, histVars, ranVars
<1>13. ASSUME NEW n \in Node, Stop(n)
       PROVE  InLine'
  BY <1>3, <1>13 DEF Stop
<1> QED
  BY <1>1, <1>2, <1>4, <1>5, <1>6, <1>7, <1>8, <1>9, <1>10, <1>11, <1>12, <1>13
     DEF Next, Handler, Manager

-----------------------------------------------------------------------------
(* The blocks the iterator meets *)

BackStep(S, from, g, k) ==
  IF k = 1 THEN from
  ELSE IF g[k - 1] \in S THEN BlockData[g[k - 1]].prev ELSE g[k - 1]

IsBack(S, from, N, g) == g = [k \in 1..N |-> BackStep(S, from, g, k)]

\* The recursion that Visited names has a solution.
LEMMA BackExists ==
  ASSUME NEW S, NEW from, NEW N \in Nat
  PROVE  \E g : IsBack(S, from, N, g)
<1> DEFINE G == {n \in Nat : \E g : IsBack(S, from, n, g)}
<1>1. 0 \in G
  <2> DEFINE g == [k \in 1..0 |-> from]
  <2>1. g = [k \in 1..0 |-> BackStep(S, from, g, k)]
    OBVIOUS
  <2> HIDE DEF g
  <2>2. IsBack(S, from, 0, g)
    BY <2>1 DEF IsBack
  <2> QED
    BY <2>2
<1>2. \A n \in G : n + 1 \in G
  <2> SUFFICES ASSUME NEW n \in Nat, NEW g, IsBack(S, from, n, g) PROVE n + 1 \in G
    OBVIOUS
  <2> DEFINE h == [k \in 1..(n + 1) |-> BackStep(S, from, g, k)]
  <2>1. \A k \in 1..n : h[k] = g[k]
    BY DEF IsBack
  <2>2. \A k \in 1..(n + 1) : h[k] = BackStep(S, from, g, k)
    OBVIOUS
  <2>3. \A k \in 1..(n + 1) : BackStep(S, from, g, k) = BackStep(S, from, h, k)
    <3> SUFFICES ASSUME NEW k \in 1..(n + 1)
                 PROVE  BackStep(S, from, g, k) = BackStep(S, from, h, k)
      OBVIOUS
    <3>1. k # 1 => g[k - 1] = h[k - 1]
      BY <2>1
    <3> HIDE DEF h
    <3> QED
      BY <3>1 DEF BackStep
  <2>4. h = [k \in 1..(n + 1) |-> h[k]]
    OBVIOUS
  <2> HIDE DEF h
  <2>5. IsBack(S, from, n + 1, h)
    BY <2>2, <2>3, <2>4 DEF IsBack
  <2> QED
    BY <2>5
<1>3. G = Nat
  <2> HIDE DEF G
  <2> QED
    BY <1>1, <1>2, SetInduction DEF G
<1> QED
  BY <1>3

\* A walk that starts in a closed part of the store stays in it.
LEMMA VisitsStay ==
  ASSUME NEW n \in Node, stored[n] \subseteq BlockHash,
         NEW U \in SUBSET stored[n], \A h \in U : BlockData[h].prev \in U \cup {NoBlock},
         NEW from \in U \cup {NoBlock}
  PROVE  Visited(n, from) \subseteq U \cup {NoBlock}
<1> DEFINE N == Cardinality(BlockHash) + 1
           g == CHOOSE hash : IsBack(stored[n], from, N, hash)
           G == {k \in 0..N : k = 0 \/ g[k] \in U \cup {NoBlock}}
<1>1. N \in Nat
  BY BlockSyncAssumption, FS_CardinalityType
<1>2. Visited(n, from) = Range(g)
  BY DEF Visited, IsBack, BackStep
<1> HIDE DEF N
<1>3. IsBack(stored[n], from, N, g)
  <2>1. \E hash : IsBack(stored[n], from, N, hash)
    BY <1>1, BackExists
  <2> QED
    BY <2>1, Zenon
<1> HIDE DEF g
<1>4. DOMAIN g = 1..N /\ \A k \in 1..N : g[k] = BackStep(stored[n], from, g, k)
  BY <1>3 DEF IsBack
<1>5. NoBlock \notin stored[n]
  BY BlockSyncAssumption
<1>6. 0..N \subseteq G
  <2>1. 0 \in G
    BY <1>1
  <2>2. ASSUME NEW k \in 0..(N - 1), k \in G PROVE k + 1 \in G
    <3>1. k + 1 \in 1..N /\ k + 1 \in 0..N /\ (k + 1) - 1 = k
      BY <1>1
    <3>2. g[k + 1] = BackStep(stored[n], from, g, k + 1)
      BY <1>4, <3>1
    <3>3. CASE k = 0
      <4>1. g[k + 1] = from
        BY <3>2, <3>3 DEF BackStep
      <4> QED
        BY <3>1, <4>1
    <3>4. CASE k # 0
      <4>1. g[k] \in U \cup {NoBlock} /\ k + 1 # 1
        BY <2>2, <3>4
      <4>2. g[k + 1] = IF g[k] \in stored[n] THEN BlockData[g[k]].prev ELSE g[k]
        BY <3>1, <3>2, <4>1 DEF BackStep
      <4>3. g[k + 1] \in U \cup {NoBlock}
        BY <1>5, <4>1, <4>2
      <4> QED
        BY <3>1, <4>3
    <3> QED
      BY <3>3, <3>4
  <2> HIDE DEF G
  <2> QED
    BY <1>1, <2>1, <2>2, UpToInduction
<1>7. \A k \in DOMAIN g : g[k] \in U \cup {NoBlock}
  BY <1>1, <1>4, <1>6
<1> QED
  BY <1>2, <1>7 DEF Range

\* What InLine says of a node whose last update was its tip's.
LEMMA LineAgrees == TypeOK /\ InLine => InOrderAgrees
<1> SUFFICES ASSUME TypeOK, InLine, NEW n \in Node,
                    inOrder[n], applied[n] = tip[n], tip[n] # NoBlock
             PROVE  /\ Whole(n, tip[n])
                    /\ chainstate[n] = FindUTXO(Branch(Blocks(n), tip[n]))
  BY DEF InOrderAgrees
<1> DEFINE U == updated[n]
           t == tip[n]
           bs == Line(U)
           more == Blocks(n)
<1>1. Lined(U, t, chainstate[n]) /\ U \in SUBSET stored[n] /\ stored[n] \subseteq BlockHash
  BY DEF InLine, TypeOK
<1>2. /\ DOMAIN bs = U /\ DOMAIN more = stored[n]
      /\ \A h \in U : bs[h] = BlockData[h] /\ more[h] = BlockData[h]
  BY <1>1 DEF Line, Blocks
<1> HIDE DEF U, t, bs, more
<1>3. Closed(bs) /\ Ends(bs, t) /\ t \in U \cup {NoBlock} /\ chainstate[n] = FindUTXO(Branch(bs, t))
  BY <1>1 DEF Lined, bs
<1>4. \A h \in U : BlockData[h].prev \in U \cup {NoBlock}
  BY <1>2, <1>3 DEF Closed
<1>5. Whole(n, t)
  <2>1. Visited(n, t) \subseteq U \cup {NoBlock}
    BY <1>1, <1>3, <1>4, VisitsStay
  <2> QED
    BY <1>1, <2>1 DEF Whole, t
<1>6. IsFiniteSet(DOMAIN more) /\ Within(bs, more)
  BY <1>1, <1>2, FS_Subset, BlockSyncAssumption DEF Within
<1>7. Branch(more, t) = Branch(bs, t)
  BY <1>2, <1>3, <1>6, BranchWithin
<1> QED
  BY <1>3, <1>5, <1>7 DEF t, more

-----------------------------------------------------------------------------
(* The theorems *)

\* Messages, handlers and the stores of all nodes keep their shape.
THEOREM TypeCorrect == Spec => []TypeOK
<1>1. SyncInv => TypeOK
  BY DEF SyncInv
<1> QED
  BY SyncInvHolds, <1>1, PTL

\* However many connections deliver blocks, on whatever forks, and whenever servers
\* stop: outside a commit the tip in the memory of a server is the one in its file.
THEOREM MemoryFollowsFile == Spec => []TipInMemory
<1>1. SyncInv => TipInMemory
  BY DEF SyncInv
<1> QED
  BY SyncInvHolds, <1>1, PTL

\* As long as the updates of a node run in the order of its chain, however the
\* blocks and the handlers of all nodes interleave, its chainstate is what a walk
\* of that chain finds unspent: reindexing would change nothing.
THEOREM InOrderIsReindexed == BlocksAreSafe => (Spec => []InOrderAgrees)
<1> SUFFICES ASSUME BlocksAreSafe PROVE Spec => []InOrderAgrees
  OBVIOUS
<1>1. SyncInv /\ InLine /\ [Next]_vars => InLine'
  BY InLineKept
<1>2. SyncInv /\ InLine => InOrderAgrees
  BY LineAgrees DEF SyncInv
<1> QED
  BY InLineInit, SyncInvHolds, <1>1, <1>2, PTL DEF Spec

\* The exchange of blocks implements stores that only grow, with the tip on the
\* block stored last.
THEOREM SyncImplementsStore == Spec => ImplementsBlockStore
<1>1. Init => Store!Init
  BY DEF Init, Store!Init
<1>2. SyncInv /\ [Next]_vars => [Store!Next]_Store!storeVars
  BY Inductive DEF Abstract, Store!storeVars
<1> QED
  BY SyncInvHolds, <1>1, <1>2, PTL DEF Spec, ImplementsBlockStore, Store!Spec
=============================================================================
