------------------------------- MODULE TxRelay -------------------------------
(***************************************************************************)
(* The transactions of one server: every connection is served by its own   *)
(* goroutine, which checks a transaction, takes it into the memory pool    *)
(* and passes it on (handleTx), asks for announced ones (handleInv), or    *)
(* hands one out (handleGetData).  The goroutines share the set of         *)
(* broadcast marks, the pool and the known nodes, each under a lock of its *)
(* own; the steps are the critical sections, the calls between them, and   *)
(* the begin and the end of the write to the pool, a Go map.               *)
(*                                                                         *)
(* A tx message holds a transaction in one of two encodings: "gob", which  *)
(* handleTx decodes, and "wire", which Transaction.Serialize makes.        *)
(***************************************************************************)
EXTENDS Integers, Sequences, Functions

CONSTANTS
  Tx,         \* transactions, a coinbase among them
  Vin,        \* the transactions each one spends from, none for a coinbase
  Verifies,   \* what Transaction.Verify makes of each one and those it spends from
  Block,      \* the blocks that may come to be the last one
  Holds,      \* the transactions on the way back from each block
  Whole,      \* the blocks from which the way leads to a genesis block
  Start,      \* the last block when the server starts
  Node,       \* addresses
  Self,       \* nodeAddress
  Seed,       \* the node known from the start
  Conn,       \* incoming connections, one message each
  Message,    \* the messages that may come in
  MaxKnown    \* bound on the length of the list of known nodes

ASSUME TxRelayAssumption ==
  /\ Vin \in [Tx -> Seq(Tx)]
  /\ Verifies \in [Tx -> {"true", "false", "panic"}]
  /\ Holds \in [Block -> SUBSET Tx]
  /\ Start \in Block
  /\ {Self, Seed} \subseteq Node
  /\ MaxKnown \in Nat
  /\ \A m \in Message :
       /\ m.type \in {"tx", "inv", "getdata"}
       /\ m.type = "tx" => /\ m.tx \in Tx
                           /\ m.from \in Node
                           /\ m.encoding \in {"gob", "wire"}

VARIABLES
  broadcastedTxs,  \* transactions marked as broadcast
  memPool,         \* transactions in the pool
  newBlockHash,    \* the last block in memory
  blocks,          \* the stored blocks
  knownNodes,      \* copies of each address in the list
  pc,              \* where the goroutine of each connection is
  msg,             \* the tx message it handles
  inputs,          \* the transactions it has still to look up
  todo,            \* copies of each address in its snapshot it has still to dial
  crashed,         \* what ended the process, if anything
  times,           \* history: how often each transaction was passed to each node
  offered          \* history: transactions received, valid, when nobody was about
                   \* to clear their mark and nothing stood in the way since

chain    == <<newBlockHash, blocks>>
shared   == <<broadcastedTxs, memPool, chain, knownNodes>>
local    == <<pc, msg, inputs, todo>>
history  == <<times, offered>>
vars     == <<shared, local, crashed, history>>

NoMsg == [type |-> "none"]

NoCopies == [n \in Node |-> 0]

Init ==
  /\ broadcastedTxs = {}
  /\ memPool = {}
  /\ newBlockHash = Start
  /\ blocks = {Start}
  /\ knownNodes = [NoCopies EXCEPT ![Seed] = 1]
  /\ pc = [c \in Conn |-> "idle"]
  /\ msg = [c \in Conn |-> NoMsg]
  /\ inputs = [c \in Conn |-> <<>>]
  /\ todo = [c \in Conn |-> NoCopies]
  /\ crashed = "no"
  /\ times = [t \in Tx |-> NoCopies]
  /\ offered = {}

\* What the walk from the last block finds.
Found == Holds[newBlockHash]

AllIn(s, set) == \A i \in DOMAIN s : s[i] \in set

Valid(t) == AllIn(Vin[t], Found) /\ Verifies[t] = "true"

\* A dial may fail, which takes all copies of the address off the list.
Dial(n) == knownNodes' \in {knownNodes, [knownNodes EXCEPT ![n] = 0]}

Goto(c, label) == pc' = [pc EXCEPT ![c] = label]

-----------------------------------------------------------------------------
(* handleTx *)

\* Fault: the mark is forgotten.
HandleTx_NotMarked(c, m) ==
  /\ pc[c] = "idle" /\ m.type = "tx"
  /\ m.encoding = "gob" /\ m.tx \notin broadcastedTxs
  /\ msg' = [msg EXCEPT ![c] = m]
  /\ inputs' = [inputs EXCEPT ![c] = Vin[m.tx]]
  /\ Goto(c, "verify")
  /\ UNCHANGED <<shared, todo, crashed, history>>

Unmarking(t) == \E d \in Conn : pc[d] = "unmark" /\ msg[d].tx = t

\* Decode; then look for the mark and set it in one critical section.
HandleTx(c, m) ==
  LET t == m.tx
  IN  /\ pc[c] = "idle" /\ m.type = "tx"
      /\ IF m.encoding # "gob" \/ t \in broadcastedTxs
         THEN Goto(c, "done") /\ UNCHANGED <<broadcastedTxs, msg, inputs>>
         ELSE /\ Goto(c, "verify")
              /\ broadcastedTxs' = broadcastedTxs \cup {t}
              /\ msg' = [msg EXCEPT ![c] = m]
              /\ inputs' = [inputs EXCEPT ![c] = Vin[t]]
      /\ offered' = IF m.encoding = "gob" /\ Valid(t) /\ ~Unmarking(t)
                    THEN offered \cup {t} ELSE offered
      /\ UNCHANGED <<memPool, chain, knownNodes, todo, crashed, times>>

\* VerifyTransaction looks up the spent transactions one after the other, each on the
\* chain of the moment.  Where a block on the way is missing the iterator panics.
FindTransaction(c) ==
  /\ pc[c] = "verify" /\ inputs[c] # <<>>
  /\ \/ /\ newBlockHash \in blocks /\ Head(inputs[c]) \in Found
        /\ inputs' = [inputs EXCEPT ![c] = Tail(@)]
        /\ UNCHANGED <<pc, crashed>>
     \/ /\ newBlockHash \in blocks /\ Head(inputs[c]) \notin Found /\ newBlockHash \in Whole
        /\ inputs' = [inputs EXCEPT ![c] = <<>>]
        /\ Goto(c, "unmark")
        /\ UNCHANGED crashed
     \/ /\ newBlockHash \notin blocks \/ (Head(inputs[c]) \notin Found /\ newBlockHash \notin Whole)
        /\ crashed' = "panic"
        /\ UNCHANGED <<pc, inputs>>
  /\ UNCHANGED <<shared, msg, todo, history>>

\* Fault: the answer is read the wrong way round.
Verify_Inverted(c) ==
  /\ pc[c] = "verify" /\ inputs[c] = <<>>
  /\ Goto(c, IF Verifies[msg[c].tx] = "true" THEN "unmark" ELSE "pool")
  /\ UNCHANGED <<shared, msg, inputs, todo, crashed, history>>

\* A coinbase passes; otherwise Verify answers, or panics on an index that the
\* spent transaction does not have.
Verify(c) ==
  LET answer == IF Vin[msg[c].tx] = <<>> THEN "true" ELSE Verifies[msg[c].tx]
  IN  /\ pc[c] = "verify" /\ inputs[c] = <<>>
      /\ IF answer = "panic" THEN crashed' = "panic" /\ UNCHANGED pc
         ELSE Goto(c, IF answer = "true" THEN "pool" ELSE "unmark") /\ UNCHANGED crashed
      /\ UNCHANGED <<shared, msg, inputs, todo, history>>

\* The goroutine ends, and with it what it handled.
TxHandled(c) == /\ Goto(c, "done")
                /\ msg' = [msg EXCEPT ![c] = NoMsg]

\* Not found or invalid: clear the mark.
Unmark(c) ==
  /\ pc[c] = "unmark"
  /\ broadcastedTxs' = broadcastedTxs \ {msg[c].tx}
  /\ TxHandled(c)
  /\ UNCHANGED <<memPool, chain, knownNodes, inputs, todo, crashed, history>>

\* memPoolMutex: one writer, or readers.
Locked == \E d \in Conn : pc[d] = "pooling"
RLocked == \E d \in Conn : pc[d] = "inv"

PoolBegin(c) ==
  /\ pc[c] = "pool"
  /\ ~Locked /\ ~RLocked
  /\ Goto(c, "pooling")
  /\ UNCHANGED <<shared, msg, inputs, todo, crashed, history>>

\* Fault: the mark goes once the transaction is in the pool.
PoolEnd_Unmarks(c) ==
  /\ pc[c] = "pooling"
  /\ memPool' = memPool \cup {msg[c].tx}
  /\ broadcastedTxs' = broadcastedTxs \ {msg[c].tx}
  /\ Goto(c, "snapshot")
  /\ UNCHANGED <<chain, knownNodes, msg, inputs, todo, crashed, history>>

PoolEnd(c) ==
  /\ pc[c] = "pooling"
  /\ memPool' = memPool \cup {msg[c].tx}
  /\ Goto(c, "snapshot")
  /\ UNCHANGED <<broadcastedTxs, chain, knownNodes, msg, inputs, todo, crashed, history>>

\* The list without some addresses.
Without(nodes) == [n \in Node |-> IF n \in nodes THEN 0 ELSE knownNodes[n]]

\* Fault: the node passes transactions to itself.
Snapshot_Self(c) ==
  /\ pc[c] = "snapshot"
  /\ todo' = [todo EXCEPT ![c] = Without({msg[c].from})]
  /\ Goto(c, "send")
  /\ UNCHANGED <<shared, msg, inputs, crashed, history>>

\* Copy the list, copies of one address and all; the loop leaves out the sender and
\* the node itself.
Snapshot(c) ==
  /\ pc[c] = "snapshot"
  /\ todo' = [todo EXCEPT ![c] = Without({msg[c].from, Self})]
  /\ Goto(c, "send")
  /\ UNCHANGED <<shared, msg, inputs, crashed, history>>

\* Fault: the loop does not move on.
SendTx_Again(c, n) ==
  /\ pc[c] = "send" /\ todo[c][n] > 0
  /\ times[msg[c].tx][n] <= MaxKnown
  /\ times' = [times EXCEPT ![msg[c].tx][n] = @ + 1]
  /\ Dial(n)
  /\ UNCHANGED <<broadcastedTxs, memPool, chain, local, crashed, offered>>

\* One send for every copy.
SendTx(c, n) ==
  /\ pc[c] = "send" /\ todo[c][n] > 0
  /\ todo' = [todo EXCEPT ![c][n] = @ - 1]
  /\ times' = [times EXCEPT ![msg[c].tx][n] = @ + 1]
  /\ Dial(n)
  /\ UNCHANGED <<broadcastedTxs, memPool, chain, pc, msg, inputs, crashed, offered>>

TxDone(c) ==
  /\ pc[c] = "send" /\ todo[c] = NoCopies
  /\ TxHandled(c)
  /\ UNCHANGED <<shared, inputs, todo, crashed, history>>

-----------------------------------------------------------------------------
(* handleInv and handleGetData, for transactions *)

\* The requests for the missing transactions are sent under the read lock.
HandleInv(c, m) ==
  /\ pc[c] = "idle" /\ m.type = "inv"
  /\ ~Locked
  /\ Goto(c, "inv")
  /\ UNCHANGED <<shared, msg, inputs, todo, crashed, history>>

\* Fault: the lock is kept.
InvDone_KeepsLock(c) ==
  /\ pc[c] = "inv"
  /\ \E n \in Node : Dial(n)
  /\ UNCHANGED <<broadcastedTxs, memPool, chain, local, crashed, history>>

InvDone(c) ==
  /\ pc[c] = "inv"
  /\ \E n \in Node : Dial(n)
  /\ Goto(c, "done")
  /\ UNCHANGED <<broadcastedTxs, memPool, chain, msg, inputs, todo, crashed, history>>

\* The pool is read without its lock.  A Go process that notices a write at the
\* same time ends.
HandleGetData(c, m) ==
  /\ pc[c] = "idle" /\ m.type = "getdata"
  /\ \/ /\ Goto(c, "done")
        /\ \E n \in Node : Dial(n)
        /\ UNCHANGED crashed
     \/ /\ Locked
        /\ crashed' = "map"
        /\ UNCHANGED <<pc, knownNodes>>
  /\ UNCHANGED <<broadcastedTxs, memPool, chain, msg, inputs, todo, history>>

-----------------------------------------------------------------------------
(* The rest of the server *)

\* A handler at work on a transaction that is not found from here.
Misses(c, b) == pc[c] = "verify" /\ ~AllIn(inputs[c], Holds[b])

\* Any block that is not stored yet becomes the last one, wherever it leads; the pool
\* is left alone.  There is one writer of the database at a time.
BlockArrives(b) ==
  /\ newBlockHash \in blocks /\ b \notin blocks
  /\ newBlockHash' = b
  /\ offered' = offered \ {msg[c].tx : c \in {d \in Conn : Misses(d, b)}}
  /\ UNCHANGED <<broadcastedTxs, memPool, blocks, knownNodes, local, crashed, times>>

\* The write is committed after newBlockHash was set.
BlockStored ==
  /\ newBlockHash \notin blocks
  /\ blocks' = blocks \cup {newBlockHash}
  /\ UNCHANGED <<broadcastedTxs, memPool, newBlockHash, knownNodes, local, crashed, history>>

\* handleAddr appends what it is given, handleVersion a sender it has looked for in
\* another critical section: the address may be on the list.
NodeJoins(n) ==
  /\ FoldFunction(+, 0, knownNodes) < MaxKnown
  /\ knownNodes' = [knownNodes EXCEPT ![n] = @ + 1]
  /\ UNCHANGED <<broadcastedTxs, memPool, chain, local, crashed, history>>

Step(c) ==
  \/ FindTransaction(c) \/ Verify(c) \/ Unmark(c) \/ PoolBegin(c) \/ PoolEnd(c) \/ Snapshot(c)
  \/ \E n \in Node : SendTx(c, n)
  \/ TxDone(c) \/ InvDone(c)

Next ==
  /\ crashed = "no"
  /\ \/ \E c \in Conn, m \in Message : HandleTx(c, m) \/ HandleInv(c, m) \/ HandleGetData(c, m)
     \/ \E c \in Conn : Step(c)
     \/ \E b \in Block : BlockArrives(b)
     \/ BlockStored
     \/ \E n \in Node : NodeJoins(n)

Spec == Init /\ [][Next]_vars

\* Every goroutine goes on, as long as the process lives.
FairSpec == Spec /\ \A c \in Conn : WF_vars(crashed = "no" /\ Step(c))

-----------------------------------------------------------------------------
(* Properties *)

Labels == {"idle", "verify", "unmark", "pool", "pooling", "snapshot", "send", "inv", "done"}

\* The shape of the state; a node never passes a transaction to itself.
TypeOK ==
  /\ broadcastedTxs \subseteq Tx
  /\ memPool \subseteq Tx
  /\ newBlockHash \in Block /\ blocks \subseteq Block
  /\ knownNodes \in [Node -> Nat]
  /\ pc \in [Conn -> Labels]
  /\ DOMAIN msg = Conn
  /\ \A c \in Conn : msg[c] \in {m \in Message : m.type = "tx"} \cup {NoMsg}
  /\ inputs \in [Conn -> Seq(Tx)]
  /\ todo \in [Conn -> [Node -> Nat]]
  /\ \A c \in Conn : todo[c][Self] = 0
  /\ crashed \in {"no", "panic", "map"}
  /\ times \in [Tx -> [Node -> Nat]]
  /\ offered \subseteq Tx

\* A goroutine between setting the mark of t and its last send of t.
Handles(c, t) ==
  /\ pc[c] \in {"verify", "unmark", "pool", "pooling", "snapshot", "send"}
  /\ msg[c].tx = t

\* The mark admits one goroutine per transaction, although it is cleared by some
\* of them while other copies come in and the chain grows.
OneHandlerPerTx ==
  \A c, d \in Conn, t \in Tx : Handles(c, t) /\ Handles(d, t) => c = d

\* The mark of a pooled transaction is never cleared: the test for its presence
\* before the write always finds it missing.
PoolIsMarked ==
  /\ memPool \subseteq broadcastedTxs
  /\ \A c \in Conn : pc[c] \in {"verify", "unmark", "pool", "pooling"} => msg[c].tx \notin memPool

\* The goroutine that is sending t, if there is one.
Senders(t) == {c \in Conn : pc[c] = "send" /\ msg[c].tx = t}

\* How often t may be passed to each node: it was, or is still to be.
Quota(t) ==
  IF Senders(t) = {} THEN times[t]
  ELSE LET c == CHOOSE c \in Senders(t) : TRUE
       IN  [n \in Node |-> times[t][n] + todo[c][n]]

\* However many copies of a transaction come in at once, it is pooled once and passed
\* on from one copy of the list: to a node as often as its address stood there, and
\* never to the one it came from or to the node itself.
Relay == INSTANCE RelayOnce WITH
           pool <- memPool, list <- knownNodes,
           addressed <- {t \in memPool : \A c \in Conn : ~(pc[c] = "snapshot" /\ msg[c].tx = t)},
           quota <- [t \in Tx |-> Quota(t)]
ImplementsRelayOnce == Relay!Spec

AtRest == \A c \in Conn : pc[c] \in {"idle", "done"}

\* Once the handlers are through, nothing is marked but what is in the pool: a
\* transaction that was dropped is checked again when it comes again.  And a valid one
\* that came in is in the pool, whatever the other connections did, unless a failed
\* handler was about to clear its mark, or a block that leads elsewhere came in while
\* it was looked for.
DroppedIsForgotten ==
  AtRest => broadcastedTxs = memPool /\ offered \subseteq memPool

\* Every handler ends, unless the process does: no lock is kept for ever.
HandlersEnd ==
  \A c \in Conn : pc[c] \notin {"idle", "done"} ~> pc[c] = "done" \/ crashed # "no"
=============================================================================
