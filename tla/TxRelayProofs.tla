---------------------------- MODULE TxRelayProofs ----------------------------
(***************************************************************************)
(* Theorems about TxRelay, for every set of transactions, nodes,           *)
(* connections and messages.                                               *)
(***************************************************************************)
EXTENDS TxRelay, TLAPS

TxMessage == {m \in Message : m.type = "tx"}

\* Where a goroutine stands between setting a mark and its last send.
Before == {"verify", "unmark", "pool", "pooling"}
After == {"snapshot", "send"}

Busy(c) == pc[c] \in Before \cup After

\* A handled transaction is marked; it is in the pool exactly from the write on.
Marked ==
  \A c \in Conn :
    /\ Busy(c) => msg[c] \in TxMessage /\ msg[c].tx \in broadcastedTxs
    /\ pc[c] \in After => msg[c].tx \in memPool

\* Nothing was passed on of a transaction outside the pool, nor of one for which the
\* list of nodes is still to be copied.
Unsent ==
  /\ \A t \in Tx \ memPool : times[t] = NoCopies
  /\ \A c \in Conn : pc[c] = "snapshot" => times[msg[c].tx] = NoCopies

RelayInv == TypeOK /\ Marked /\ OneHandlerPerTx /\ PoolIsMarked /\ Unsent

LEMMA InitInv == Init => RelayInv
BY TxRelayAssumption
   DEF Init, RelayInv, TypeOK, Labels, NoMsg, NoCopies, Marked, Busy, Before, After,
       OneHandlerPerTx, Handles, PoolIsMarked, Unsent

-----------------------------------------------------------------------------
(* One lemma per kind of step *)

LEMMA DialTypes ==
  ASSUME TypeOK, NEW n \in Node, Dial(n)
  PROVE  knownNodes' \in [Node -> Nat]
<1>1. [knownNodes EXCEPT ![n] = 0] \in [Node -> Nat]
  BY DEF TypeOK
<1> QED
  BY <1>1 DEF Dial, TypeOK

\* A message comes in, or a handler of one that is no transaction goes on.
LEMMA HandleTxInv ==
  ASSUME RelayInv, NEW c \in Conn, NEW m \in Message, HandleTx(c, m)
  PROVE  RelayInv'
<1> USE TxRelayAssumption DEF RelayInv
<1>1. m.tx \in Tx /\ m \in TxMessage
  BY DEF HandleTx, TxMessage
<1>2. TypeOK'
  <2>1. broadcastedTxs' \subseteq Tx
    BY <1>1 DEF HandleTx, TypeOK
  <2>2. inputs' \in [Conn -> Seq(Tx)]
    <3>1. Vin[m.tx] \in Seq(Tx)
      BY <1>1
    <3> QED
      BY <3>1 DEF HandleTx, TypeOK
  <2>3. DOMAIN msg' = Conn /\ \A d \in Conn : msg'[d] \in {k \in Message : k.type = "tx"} \cup {NoMsg}
    BY <1>1 DEF HandleTx, TypeOK, TxMessage
  <2>4. offered' \subseteq Tx
    BY <1>1 DEF HandleTx, TypeOK
  <2>5. pc' \in [Conn -> Labels]
    BY DEF HandleTx, Goto, TypeOK, Labels
  <2> QED
    BY <1>1, <2>1, <2>2, <2>3, <2>4, <2>5 DEF HandleTx, TypeOK, chain
<1>3. CASE m.encoding # "gob" \/ m.tx \in broadcastedTxs
  <2>1. /\ pc' = [pc EXCEPT ![c] = "done"]
        /\ UNCHANGED <<broadcastedTxs, msg, memPool, times>>
    BY <1>3 DEF HandleTx, Goto
  <2>2. Marked' /\ OneHandlerPerTx'
    BY <2>1 DEF Marked, OneHandlerPerTx, Handles, Busy, Before, After, TypeOK
  <2>3. PoolIsMarked' /\ Unsent'
    BY <2>1 DEF PoolIsMarked, Unsent, TypeOK
  <2> QED
    BY <1>2, <2>2, <2>3
<1>4. CASE m.encoding = "gob" /\ m.tx \notin broadcastedTxs
  <2>1. /\ pc' = [pc EXCEPT ![c] = "verify"]
        /\ broadcastedTxs' = broadcastedTxs \cup {m.tx}
        /\ msg' = [msg EXCEPT ![c] = m]
        /\ UNCHANGED <<memPool, times>>
    BY <1>4 DEF HandleTx, Goto
  <2>2. pc'[c] = "verify" /\ msg'[c] = m
    BY <2>1 DEF TypeOK
  <2>3. \A d \in Conn \ {c} : pc'[d] = pc[d] /\ msg'[d] = msg[d]
    BY <2>1 DEF TypeOK
  <2>4. Marked'
    BY <1>1, <2>1, <2>2, <2>3 DEF Marked, Busy, Before, After
  <2>5. OneHandlerPerTx'
    <3>1. \A d \in Conn \ {c} : Busy(d) => msg[d].tx # m.tx
      BY <1>4 DEF Marked
    <3> QED
      BY <2>2, <2>3, <3>1 DEF OneHandlerPerTx, Handles, Busy, Before, After
  <2>6. PoolIsMarked'
    BY <1>4, <2>1, <2>2, <2>3 DEF PoolIsMarked
  <2>7. Unsent'
    BY <2>1, <2>2, <2>3 DEF Unsent
  <2> QED
    BY <1>2, <2>4, <2>5, <2>6, <2>7
<1> QED
  BY <1>3, <1>4

\* Steps that leave marks, pool, messages, lists and counts alone, and a goroutine
\* on the same side of the write to the pool.
LEMMA MoveInv ==
  ASSUME RelayInv, TypeOK', NEW c \in Conn, NEW label,
         pc' = [pc EXCEPT ![c] = label],
         UNCHANGED <<broadcastedTxs, memPool, msg, times>>,
         label \notin Before \cup After \/ (label \in Before /\ pc[c] \in Before)
  PROVE  RelayInv'
<1> USE DEF RelayInv
<1>1. Marked'
  BY DEF Marked, Busy, Before, After, TypeOK
<1>2. OneHandlerPerTx'
  BY DEF OneHandlerPerTx, Handles, Before, After, TypeOK
<1>3. PoolIsMarked'
  BY DEF PoolIsMarked, Before, After, TypeOK
<1>4. Unsent'
  BY DEF Unsent, Before, After, TypeOK
<1> QED
  BY <1>1, <1>2, <1>3, <1>4

\* Steps that change nothing these formulas speak of.
LEMMA AsideInv ==
  ASSUME RelayInv, TypeOK', UNCHANGED <<broadcastedTxs, memPool, pc, msg, times>>
  PROVE  RelayInv'
BY DEF RelayInv, Marked, Busy, OneHandlerPerTx, Handles, PoolIsMarked, Unsent

\* A failed check clears the mark of a transaction that is not in the pool and
\* that nobody else handles.
LEMMA UnmarkInv ==
  ASSUME RelayInv, NEW c \in Conn, Unmark(c)
  PROVE  RelayInv'
<1> USE TxRelayAssumption DEF RelayInv
<1>1. /\ pc[c] = "unmark"
      /\ broadcastedTxs' = broadcastedTxs \ {msg[c].tx}
      /\ pc' = [pc EXCEPT ![c] = "done"]
      /\ msg' = [msg EXCEPT ![c] = NoMsg]
      /\ UNCHANGED <<memPool, times>>
  BY DEF Unmark, TxHandled, Goto, history
<1>2. TypeOK'
  BY DEF Unmark, TxHandled, Goto, TypeOK, Labels, chain, history
<1>3. pc'[c] = "done" /\ \A d \in Conn \ {c} : pc'[d] = pc[d] /\ msg'[d] = msg[d]
  BY <1>1 DEF TypeOK
<1>4. msg[c].tx \in Tx /\ msg[c].tx \notin memPool
  BY <1>1 DEF Marked, Busy, Before, TxMessage, PoolIsMarked
<1>5. \A d \in Conn \ {c} : Busy(d) => msg[d].tx # msg[c].tx
  BY <1>1, <1>4 DEF OneHandlerPerTx, Handles, Busy, Before, After
<1>6. Marked'
  BY <1>1, <1>3, <1>5 DEF Marked, Busy, Before, After
<1>7. OneHandlerPerTx'
  BY <1>3 DEF OneHandlerPerTx, Handles
<1>8. PoolIsMarked'
  BY <1>1, <1>3, <1>4 DEF PoolIsMarked
<1>9. Unsent'
  BY <1>1, <1>3 DEF Unsent
<1> QED
  BY <1>2, <1>6, <1>7, <1>8, <1>9

\* The write to the pool.
LEMMA PoolEndInv ==
  ASSUME RelayInv, NEW c \in Conn, PoolEnd(c)
  PROVE  RelayInv'
<1> USE TxRelayAssumption DEF RelayInv
<1>1. /\ pc[c] = "pooling"
      /\ memPool' = memPool \cup {msg[c].tx}
      /\ pc' = [pc EXCEPT ![c] = "snapshot"]
      /\ UNCHANGED <<broadcastedTxs, msg, times>>
  BY DEF PoolEnd, Goto, history
<1>2. /\ msg[c] \in TxMessage
      /\ msg[c].tx \in Tx
      /\ msg[c].tx \in broadcastedTxs
      /\ msg[c].tx \notin memPool
  BY <1>1 DEF Marked, Busy, Before, TxMessage, PoolIsMarked
<1>3. TypeOK'
  BY <1>2 DEF PoolEnd, Goto, TypeOK, Labels, chain, history
<1>4. pc'[c] = "snapshot" /\ \A d \in Conn \ {c} : pc'[d] = pc[d]
  BY <1>1 DEF TypeOK
<1>5. \A d \in Conn \ {c} : Busy(d) => msg[d].tx # msg[c].tx
  BY <1>1, <1>2 DEF OneHandlerPerTx, Handles, Busy, Before, After
<1>6. Marked'
  BY <1>1, <1>2, <1>4 DEF Marked, Busy, Before, After
<1>7. OneHandlerPerTx'
  BY <1>1, <1>4 DEF OneHandlerPerTx, Handles
<1>8. PoolIsMarked'
  BY <1>1, <1>2, <1>4, <1>5 DEF PoolIsMarked, Busy, Before, After
<1>9. Unsent'
  BY <1>1, <1>2, <1>4 DEF Unsent
<1> QED
  BY <1>3, <1>6, <1>7, <1>8, <1>9

\* The copy of the list.
LEMMA SnapshotInv ==
  ASSUME RelayInv, NEW c \in Conn, Snapshot(c)
  PROVE  RelayInv'
<1> USE TxRelayAssumption DEF RelayInv
<1>1. /\ pc[c] = "snapshot"
      /\ pc' = [pc EXCEPT ![c] = "send"]
      /\ todo' = [todo EXCEPT ![c] = Without({msg[c].from, Self})]
      /\ UNCHANGED <<broadcastedTxs, memPool, msg, times>>
  BY DEF Snapshot, Goto, shared, history
<1>2. /\ Without({msg[c].from, Self}) \in [Node -> Nat]
      /\ Without({msg[c].from, Self})[Self] = 0
  BY DEF Without, TypeOK
<1>3. TypeOK'
  BY <1>1, <1>2 DEF Snapshot, TypeOK, Labels, shared, chain, history
<1>4. pc'[c] = "send" /\ \A d \in Conn \ {c} : pc'[d] = pc[d]
  BY <1>1 DEF TypeOK
<1>5. Marked' /\ OneHandlerPerTx'
  BY <1>1, <1>4 DEF Marked, Busy, Before, After, OneHandlerPerTx, Handles
<1>6. PoolIsMarked' /\ Unsent'
  BY <1>1, <1>4 DEF PoolIsMarked, Unsent
<1> QED
  BY <1>3, <1>5, <1>6

\* A send.
LEMMA SendTxInv ==
  ASSUME RelayInv, NEW c \in Conn, NEW n \in Node, SendTx(c, n)
  PROVE  RelayInv'
<1> USE TxRelayAssumption DEF RelayInv
<1>1. /\ pc[c] = "send" /\ todo[c][n] > 0
      /\ todo' = [todo EXCEPT ![c][n] = @ - 1]
      /\ times' = [times EXCEPT ![msg[c].tx][n] = @ + 1]
      /\ UNCHANGED <<broadcastedTxs, memPool, msg, pc>>
  BY DEF SendTx
<1>2. msg[c].tx \in Tx /\ msg[c].tx \in memPool
  BY <1>1 DEF Marked, Busy, After, TxMessage
<1>3. TypeOK'
  <2>1. todo[c] \in [Node -> Nat] /\ todo[c][n] - 1 \in Nat /\ n # Self
    BY <1>1 DEF TypeOK
  <2>2. todo' \in [Conn -> [Node -> Nat]] /\ \A d \in Conn : todo'[d][Self] = 0
    BY <1>1, <2>1 DEF TypeOK
  <2>3. times' \in [Tx -> [Node -> Nat]]
    <3>1. times[msg[c].tx] \in [Node -> Nat] /\ times[msg[c].tx][n] + 1 \in Nat
      BY <1>2 DEF TypeOK
    <3> QED
      BY <1>1, <1>2, <3>1 DEF TypeOK
  <2>4. knownNodes' \in [Node -> Nat]
    BY DialTypes DEF SendTx
  <2> QED
    BY <2>2, <2>3, <2>4, <1>1 DEF SendTx, TypeOK, chain
<1>4. \A d \in Conn : pc[d] = "snapshot" => msg[d].tx # msg[c].tx
  BY <1>1, <1>2 DEF OneHandlerPerTx, Handles
<1>5. Marked' /\ OneHandlerPerTx' /\ PoolIsMarked'
  BY <1>1 DEF Marked, Busy, OneHandlerPerTx, Handles, PoolIsMarked
<1>6. \A t \in Tx \ {msg[c].tx} : times'[t] = times[t]
  BY <1>1 DEF TypeOK
<1>7. \A d \in Conn : pc[d] = "snapshot" => msg[d].tx \in Tx
  BY DEF Marked, Busy, After, TxMessage
<1>8. Unsent'
  BY <1>1, <1>2, <1>4, <1>6, <1>7 DEF Unsent
<1> QED
  BY <1>3, <1>5, <1>8

\* The last send is done.
LEMMA TxDoneInv ==
  ASSUME RelayInv, NEW c \in Conn, TxDone(c)
  PROVE  RelayInv'
<1> USE TxRelayAssumption DEF RelayInv
<1>1. /\ pc' = [pc EXCEPT ![c] = "done"]
      /\ msg' = [msg EXCEPT ![c] = NoMsg]
      /\ UNCHANGED <<broadcastedTxs, memPool, times>>
  BY DEF TxDone, TxHandled, Goto, shared, chain, history
<1>2. TypeOK'
  BY DEF TxDone, TxHandled, Goto, TypeOK, Labels, shared, chain, history
<1>3. pc'[c] = "done" /\ \A d \in Conn \ {c} : pc'[d] = pc[d] /\ msg'[d] = msg[d]
  BY <1>1 DEF TypeOK
<1>4. Marked' /\ OneHandlerPerTx'
  BY <1>1, <1>3 DEF Marked, Busy, Before, After, OneHandlerPerTx, Handles
<1>5. PoolIsMarked' /\ Unsent'
  BY <1>1, <1>3 DEF PoolIsMarked, Unsent
<1> QED
  BY <1>2, <1>4, <1>5

-----------------------------------------------------------------------------
(* Every step *)

LEMMA NextInv ==
  ASSUME RelayInv, Next
  PROVE  RelayInv'
<1> USE TxRelayAssumption
<1>1. ASSUME NEW c \in Conn, NEW m \in Message, HandleInv(c, m)
      PROVE  RelayInv'
  <2>1. /\ pc' = [pc EXCEPT ![c] = "inv"]
        /\ UNCHANGED <<broadcastedTxs, memPool, msg, times>>
    BY <1>1 DEF HandleInv, Goto, shared, history
  <2>2. TypeOK'
    BY <1>1 DEF HandleInv, Goto, shared, chain, history, RelayInv, TypeOK, Labels
  <2> QED
    BY <2>1, <2>2, MoveInv DEF Before, After
<1>2. ASSUME NEW c \in Conn, NEW m \in Message, HandleGetData(c, m)
      PROVE  RelayInv'
  <2>0. knownNodes' \in [Node -> Nat]
    BY <1>2, DialTypes DEF HandleGetData, RelayInv, TypeOK
  <2>1. TypeOK'
    BY <1>2, <2>0 DEF HandleGetData, Goto, chain, history, RelayInv, TypeOK, Labels
  <2>2. UNCHANGED <<broadcastedTxs, memPool, msg, times>>
    BY <1>2 DEF HandleGetData, history
  <2>3. CASE pc' = [pc EXCEPT ![c] = "done"]
    BY <2>1, <2>2, <2>3, MoveInv DEF Before, After
  <2>4. CASE UNCHANGED pc
    BY <2>1, <2>2, <2>4, AsideInv
  <2> QED
    BY <1>2, <2>3, <2>4 DEF HandleGetData, Goto
<1>3. ASSUME NEW c \in Conn, FindTransaction(c)
      PROVE  RelayInv'
  <2>1. inputs[c] \in Seq(Tx) /\ inputs[c] # <<>> /\ Tail(inputs[c]) \in Seq(Tx) /\ <<>> \in Seq(Tx)
    BY <1>3 DEF FindTransaction, RelayInv, TypeOK
  <2>2. inputs' \in [Conn -> Seq(Tx)]
    BY <1>3, <2>1 DEF FindTransaction, RelayInv, TypeOK
  <2>3. TypeOK'
    BY <1>3, <2>2 DEF FindTransaction, Goto, shared, chain, history, RelayInv, TypeOK, Labels
  <2>4. pc[c] = "verify" /\ UNCHANGED <<broadcastedTxs, memPool, msg, times>>
    BY <1>3 DEF FindTransaction, shared, history
  <2>5. CASE UNCHANGED pc
    BY <2>3, <2>4, <2>5, AsideInv
  <2>6. CASE pc' = [pc EXCEPT ![c] = "unmark"]
    BY <2>3, <2>4, <2>6, MoveInv DEF Before
  <2> QED
    BY <1>3, <2>5, <2>6 DEF FindTransaction, Goto
<1>4. ASSUME NEW c \in Conn, Verify(c)
      PROVE  RelayInv'
  <2>1. TypeOK'
    BY <1>4 DEF Verify, Goto, shared, chain, history, RelayInv, TypeOK, Labels
  <2>2. pc[c] = "verify" /\ UNCHANGED <<broadcastedTxs, memPool, msg, times>>
    BY <1>4 DEF Verify, shared, history
  <2>3. CASE UNCHANGED pc
    BY <2>1, <2>2, <2>3, AsideInv
  <2>4. ASSUME NEW label \in {"pool", "unmark"}, pc' = [pc EXCEPT ![c] = label]
        PROVE  RelayInv'
    BY <2>1, <2>2, <2>4, MoveInv DEF Before
  <2> QED
    BY <1>4, <2>3, <2>4 DEF Verify, Goto
<1>5. ASSUME NEW c \in Conn, PoolBegin(c)
      PROVE  RelayInv'
  <2>1. /\ pc[c] = "pool"
        /\ pc' = [pc EXCEPT ![c] = "pooling"]
        /\ UNCHANGED <<broadcastedTxs, memPool, msg, times>>
    BY <1>5 DEF PoolBegin, Goto, shared, history
  <2>2. TypeOK'
    BY <1>5 DEF PoolBegin, Goto, shared, chain, history, RelayInv, TypeOK, Labels
  <2> QED
    BY <2>1, <2>2, MoveInv DEF Before
<1>6. ASSUME NEW c \in Conn, InvDone(c)
      PROVE  RelayInv'
  <2>1. /\ pc' = [pc EXCEPT ![c] = "done"]
        /\ UNCHANGED <<broadcastedTxs, memPool, msg, times>>
    BY <1>6 DEF InvDone, Goto, history
  <2>0. knownNodes' \in [Node -> Nat]
    BY <1>6, DialTypes DEF InvDone, RelayInv
  <2>2. TypeOK'
    BY <1>6, <2>0 DEF InvDone, Goto, chain, history, RelayInv, TypeOK, Labels
  <2> QED
    BY <2>1, <2>2, MoveInv DEF Before, After
<1>7. ASSUME NEW b \in Block, BlockArrives(b)
      PROVE  RelayInv'
  <2>1. UNCHANGED <<broadcastedTxs, memPool, pc, msg, times>>
    BY <1>7 DEF BlockArrives, local, history
  <2>2. offered' \subseteq Tx
    BY <1>7 DEF BlockArrives, RelayInv, TypeOK
  <2>3. TypeOK'
    BY <1>7, <2>2 DEF BlockArrives, local, history, RelayInv, TypeOK
  <2> QED
    BY <2>1, <2>3, AsideInv
<1>8. ASSUME BlockStored
      PROVE  RelayInv'
  <2>1. UNCHANGED <<broadcastedTxs, memPool, pc, msg, times>>
    BY <1>8 DEF BlockStored, local, history
  <2>2. TypeOK'
    BY <1>8 DEF BlockStored, local, history, RelayInv, TypeOK
  <2> QED
    BY <2>1, <2>2, AsideInv
<1>9. ASSUME NEW n \in Node, NodeJoins(n)
      PROVE  RelayInv'
  <2>1. UNCHANGED <<broadcastedTxs, memPool, pc, msg, times>>
    BY <1>9 DEF NodeJoins, local, history
  <2>2. knownNodes' = [knownNodes EXCEPT ![n] = @ + 1]
    BY <1>9 DEF NodeJoins
  <2>3. knownNodes' \in [Node -> Nat]
    BY <2>2 DEF RelayInv, TypeOK
  <2>4. TypeOK'
    BY <1>9, <2>3 DEF NodeJoins, local, chain, history, RelayInv, TypeOK
  <2> QED
    BY <2>1, <2>4, AsideInv
<1> QED
  BY <1>1, <1>2, <1>3, <1>4, <1>5, <1>6, <1>7, <1>8, <1>9,
     HandleTxInv, UnmarkInv, PoolEndInv, SnapshotInv, SendTxInv, TxDoneInv
     DEF Next, Step

LEMMA Inductive == RelayInv /\ [Next]_vars => RelayInv'
<1> SUFFICES ASSUME RelayInv, [Next]_vars
             PROVE  RelayInv'
  OBVIOUS
<1>1. CASE Next
  BY <1>1, NextInv
<1>2. CASE UNCHANGED vars
  <2>1. UNCHANGED <<broadcastedTxs, memPool, pc, msg, times>>
    BY <1>2 DEF vars, shared, local, history
  <2>2. TypeOK'
    BY <1>2 DEF vars, shared, chain, local, history, RelayInv, TypeOK
  <2> QED
    BY <2>1, <2>2, AsideInv
<1> QED
  BY <1>1, <1>2

LEMMA RelayInvHolds == Spec => []RelayInv
BY InitInv, Inductive, PTL DEF Spec

-----------------------------------------------------------------------------
(* The theorems *)

\* The state keeps its shape, and no goroutine ever has its own node on the list
\* of those it passes a transaction to.
THEOREM TypeCorrect == Spec => []TypeOK
<1>1. RelayInv => TypeOK
  BY DEF RelayInv
<1> QED
  BY RelayInvHolds, <1>1, PTL

\* However many copies of a transaction come in on however many connections, one
\* goroutine at a time handles it between its mark and its last send.
THEOREM OneHandler == Spec => []OneHandlerPerTx
<1>1. RelayInv => OneHandlerPerTx
  BY DEF RelayInv
<1> QED
  BY RelayInvHolds, <1>1, PTL

\* The mark of a pooled transaction stays, and no goroutine is about to pool what
\* is in the pool.
THEOREM PooledStaysMarked == Spec => []PoolIsMarked
<1>1. RelayInv => PoolIsMarked
  BY DEF RelayInv
<1> QED
  BY RelayInvHolds, <1>1, PTL

-----------------------------------------------------------------------------
(* The refinement *)

\* The quota of a transaction nobody is sending, and of one somebody is.
QuotaFacts ==
  /\ \A t \in Tx : (\A c \in Conn : pc[c] = "send" => msg[c].tx # t) => Quota(t) = times[t]
  /\ \A t \in Tx, c \in Conn : pc[c] = "send" /\ msg[c].tx = t =>
       Quota(t) = [n \in Node |-> times[t][n] + todo[c][n]]

LEMMA Quotas == RelayInv => QuotaFacts
<1> SUFFICES ASSUME RelayInv
             PROVE  QuotaFacts
  OBVIOUS
<1>1. ASSUME NEW t \in Tx, \A c \in Conn : pc[c] = "send" => msg[c].tx # t
      PROVE  Quota(t) = times[t]
  <2>1. Senders(t) = {}
    BY <1>1 DEF Senders
  <2> QED
    BY <2>1 DEF Quota
<1>2. ASSUME NEW t \in Tx, NEW c \in Conn, pc[c] = "send", msg[c].tx = t
      PROVE  Quota(t) = [n \in Node |-> times[t][n] + todo[c][n]]
  <2>1. \A d \in Conn : pc[d] = "send" /\ msg[d].tx = t => d = c
    BY <1>2 DEF RelayInv, OneHandlerPerTx, Handles
  <2>2. Senders(t) = {c}
    BY <1>2, <2>1 DEF Senders
  <2>3. (CHOOSE d \in Senders(t) : TRUE) = c
    BY <2>2
  <2> QED
    BY <2>2, <2>3 DEF Quota
<1> QED
  BY <1>1, <1>2 DEF QuotaFacts

Addressed == {t \in memPool : \A c \in Conn : ~(pc[c] = "snapshot" /\ msg[c].tx = t)}

\* Steps that leave pool and counts alone, and what a sender still has to send.
LEMMA Stutters ==
  ASSUME RelayInv, RelayInv',
         UNCHANGED <<memPool, times>>,
         \A c \in Conn :
           /\ pc'[c] = "snapshot" <=> pc[c] = "snapshot"
           /\ pc'[c] = "send" <=> pc[c] = "send"
           /\ pc[c] \in {"snapshot", "send"} => msg'[c] = msg[c]
           /\ pc[c] = "send" => todo'[c] = todo[c]
  PROVE  Relay!ListChanges
<1>1. Addressed' = Addressed
  BY DEF Addressed
<1>2. ASSUME NEW t \in Tx
      PROVE  Quota(t)' = Quota(t)
  <2>1. Senders(t)' = Senders(t) /\ Senders(t) \subseteq Conn
    BY DEF Senders
  <2>2. CASE Senders(t) = {}
    BY <2>1, <2>2 DEF Quota
  <2>3. ASSUME NEW c \in Conn, c = CHOOSE d \in Senders(t) : TRUE, Senders(t) # {}
        PROVE  Quota(t)' = Quota(t)
    <3>1. c \in Senders(t)
      BY <2>3
    <3>2. todo'[c] = todo[c]
      BY <3>1 DEF Senders
    <3> QED
      BY <2>1, <2>3, <3>2 DEF Quota
  <2> QED
    BY <2>1, <2>2, <2>3
<1>3. [t \in Tx |-> Quota(t)]' = [t \in Tx |-> Quota(t)]
  BY <1>2
<1> QED
  BY <1>1, <1>3 DEF Addressed, Relay!ListChanges

QuotaMap == [t \in Tx |-> Quota(t)]

\* The goroutine that comes to a step past the mark has its transaction to itself.
LEMMA Alone ==
  ASSUME RelayInv, NEW c \in Conn, Busy(c)
  PROVE  /\ msg[c] \in TxMessage /\ msg[c].tx \in Tx
         /\ \A d \in Conn \ {c} : Busy(d) => msg[d].tx # msg[c].tx
<1>1. msg[c] \in TxMessage /\ msg[c].tx \in Tx
  BY TxRelayAssumption DEF RelayInv, Marked, TxMessage
<1> QED
  BY <1>1 DEF RelayInv, OneHandlerPerTx, Handles, Busy, Before, After

LEMMA PoolEndAccepts ==
  ASSUME RelayInv, RelayInv', NEW c \in Conn, PoolEnd(c)
  PROVE  Relay!Accept(msg[c].tx)
<1>1. /\ pc[c] = "pooling" /\ msg[c].tx \notin memPool
      /\ memPool' = memPool \cup {msg[c].tx}
      /\ pc' = [pc EXCEPT ![c] = "snapshot"]
      /\ UNCHANGED <<msg, todo, times>>
  BY DEF PoolEnd, Goto, history, RelayInv, PoolIsMarked
<1>2. pc'[c] = "snapshot" /\ \A d \in Conn \ {c} : pc'[d] = pc[d]
  BY <1>1 DEF RelayInv, TypeOK
<1>3. \A d \in Conn : pc[d] = "snapshot" => msg[d].tx \in memPool
  BY DEF RelayInv, Marked, After
<1>4. Addressed' = Addressed
  BY <1>1, <1>2, <1>3 DEF Addressed
<1>5. \A t \in Tx : Senders(t)' = Senders(t)
  BY <1>1, <1>2 DEF Senders
<1>6. \A t \in Tx : Quota(t)' = Quota(t)
  BY <1>1, <1>5 DEF Quota
<1>7. QuotaMap' = QuotaMap
  BY <1>6 DEF QuotaMap
<1> QED
  BY <1>1, <1>4, <1>7 DEF Relay!Accept, Addressed, QuotaMap

LEMMA SnapshotAddresses ==
  ASSUME RelayInv, RelayInv', QuotaFacts, QuotaFacts', NEW c \in Conn, Snapshot(c),
         NEW t \in Tx, t = msg[c].tx, NEW from \in Node, from = msg[c].from
  PROVE  Relay!Address(t, from)
<1> DEFINE quota == [n \in Node |-> IF n \in {from, Self} THEN 0 ELSE knownNodes[n]]
<1>1. /\ pc[c] = "snapshot"
      /\ pc' = [pc EXCEPT ![c] = "send"]
      /\ todo' = [todo EXCEPT ![c] = Without({from, Self})]
      /\ UNCHANGED <<memPool, msg, times>>
  BY DEF Snapshot, Goto, shared, history
<1>2. /\ pc'[c] = "send" /\ todo'[c] = Without({from, Self})
      /\ \A d \in Conn \ {c} : pc'[d] = pc[d] /\ todo'[d] = todo[d]
  BY <1>1 DEF RelayInv, TypeOK
<1>3. /\ t \in memPool
      /\ \A d \in Conn \ {c} : Busy(d) => msg[d].tx # t
      /\ times[t] = NoCopies
  BY <1>1, Alone DEF Busy, After, RelayInv, Marked, Unsent
<1>4. t \notin Addressed /\ Addressed' = Addressed \cup {t}
  BY <1>1, <1>2, <1>3 DEF Addressed, Busy, After
<1>5. Quota(t)' = quota
  <2>1. Quota(t)' = [n \in Node |-> times'[t][n] + todo'[c][n]]
    BY <1>1, <1>2 DEF QuotaFacts
  <2>2. \A n \in Node : times[t][n] + todo'[c][n] = quota[n]
    <3> TAKE n \in Node
    <3>1. times[t][n] = 0 /\ knownNodes[n] \in Nat
      BY <1>3 DEF NoCopies, RelayInv, TypeOK
    <3> QED
      BY <1>2, <3>1 DEF Without
  <2> QED
    BY <1>1, <2>1, <2>2
<1>6. ASSUME NEW u \in Tx \ {t}
      PROVE  Quota(u)' = Quota(u)
  <2>1. Senders(u)' = Senders(u) /\ c \notin Senders(u)
    BY <1>1, <1>2 DEF Senders
  <2>2. CASE Senders(u) = {}
    BY <1>1, <2>1, <2>2 DEF Quota
  <2>3. ASSUME NEW d \in Conn, d = CHOOSE e \in Senders(u) : TRUE, Senders(u) # {}
        PROVE  Quota(u)' = Quota(u)
    <3>1. d \in Senders(u)
      BY <2>3
    <3>2. todo'[d] = todo[d]
      BY <1>2, <2>1, <3>1
    <3> QED
      BY <1>1, <2>1, <2>3, <3>2 DEF Quota
  <2>4. Senders(u) \subseteq Conn
    BY DEF Senders
  <2> QED
    BY <2>2, <2>3, <2>4
<1>7. QuotaMap' = [QuotaMap EXCEPT ![t] = quota]
  BY <1>3, <1>5, <1>6 DEF QuotaMap
<1> QED
  BY <1>1, <1>3, <1>4, <1>7 DEF Relay!Address, Addressed, QuotaMap

LEMMA SendTxPasses ==
  ASSUME RelayInv, RelayInv', QuotaFacts, QuotaFacts',
         NEW c \in Conn, NEW n \in Node, SendTx(c, n)
  PROVE  Relay!Pass(msg[c].tx, n)
<1>0. PICK t \in Tx : t = msg[c].tx
  BY Alone DEF SendTx, Busy, After
<1>1. /\ pc[c] = "send" /\ todo[c][n] > 0
      /\ todo' = [todo EXCEPT ![c][n] = @ - 1]
      /\ times' = [times EXCEPT ![t][n] = @ + 1]
      /\ UNCHANGED <<memPool, msg, pc>>
  BY <1>0 DEF SendTx
<1>2. \A d \in Conn \ {c} : pc[d] = "send" => msg[d].tx # t
  BY <1>0, <1>1, Alone DEF Busy, After
<1>3. /\ times[t] \in [Node -> Nat] /\ todo[c] \in [Node -> Nat]
      /\ times'[t] = [times[t] EXCEPT ![n] = @ + 1]
      /\ todo'[c] = [todo[c] EXCEPT ![n] = @ - 1]
      /\ \A u \in Tx \ {t} : times'[u] = times[u]
      /\ \A d \in Conn \ {c} : todo'[d] = todo[d]
  BY <1>0, <1>1, <1>2 DEF RelayInv, TypeOK
<1>4. Quota(t) = [k \in Node |-> times[t][k] + todo[c][k]]
  BY <1>0, <1>1 DEF QuotaFacts
<1>5. times[t][n] < Quota(t)[n]
  BY <1>1, <1>3, <1>4
<1>6. Quota(t)' = Quota(t)
  <2>1. Quota(t)' = [k \in Node |-> times'[t][k] + todo'[c][k]]
    BY <1>0, <1>1 DEF QuotaFacts
  <2>2. \A k \in Node : times'[t][k] + todo'[c][k] = times[t][k] + todo[c][k]
    BY <1>3
  <2> QED
    BY <1>4, <2>1, <2>2
<1>7. ASSUME NEW u \in Tx \ {t}
      PROVE  Quota(u)' = Quota(u)
  <2>1. CASE \A d \in Conn : pc[d] = "send" => msg[d].tx # u
    <3>1. Quota(u) = times[u]
      BY <2>1 DEF QuotaFacts
    <3>2. Quota(u)' = times'[u]
      BY <1>1, <2>1 DEF QuotaFacts
    <3> QED
      BY <1>3, <3>1, <3>2
  <2>2. ASSUME NEW d \in Conn, pc[d] = "send", msg[d].tx = u
        PROVE  Quota(u)' = Quota(u)
    <3>1. /\ Quota(u) = [k \in Node |-> times[u][k] + todo[d][k]]
          /\ Quota(u)' = [k \in Node |-> times'[u][k] + todo'[d][k]]
      BY <1>1, <2>2 DEF QuotaFacts
    <3>2. d # c /\ times'[u] = times[u] /\ todo'[d] = todo[d]
      BY <1>0, <1>3, <2>2
    <3> QED
      BY <3>1, <3>2
  <2> QED
    BY <2>1, <2>2
<1>8. QuotaMap' = QuotaMap
  BY <1>6, <1>7 DEF QuotaMap
<1>9. Addressed' = Addressed
  BY <1>1 DEF Addressed
<1> QED
  BY <1>0, <1>1, <1>5, <1>8, <1>9 DEF Relay!Pass, Addressed, QuotaMap

\* A sender that ends has used up its quota.
LEMMA TxDoneStutters ==
  ASSUME RelayInv, RelayInv', QuotaFacts, QuotaFacts', NEW c \in Conn, TxDone(c)
  PROVE  Relay!ListChanges
<1>0. PICK t \in Tx : t = msg[c].tx
  BY Alone DEF TxDone, Busy, After
<1>1. /\ pc[c] = "send" /\ todo[c] = NoCopies
      /\ pc' = [pc EXCEPT ![c] = "done"]
      /\ msg' = [msg EXCEPT ![c] = NoMsg]
      /\ UNCHANGED <<memPool, todo, times>>
  BY DEF TxDone, TxHandled, Goto, shared, history
<1>2. /\ pc'[c] = "done"
      /\ \A d \in Conn \ {c} : pc'[d] = pc[d] /\ msg'[d] = msg[d]
  BY <1>1 DEF RelayInv, TypeOK
<1>3. \A d \in Conn \ {c} : pc[d] = "send" => msg[d].tx # t
  BY <1>0, <1>1, Alone DEF Busy, After
<1>4. Addressed' = Addressed
  BY <1>1, <1>2 DEF Addressed
<1>5. Quota(t)' = Quota(t)
  <2>1. Quota(t)' = times[t]
    BY <1>0, <1>1, <1>2, <1>3 DEF QuotaFacts
  <2>2. Quota(t) = [n \in Node |-> times[t][n] + todo[c][n]]
    BY <1>0, <1>1 DEF QuotaFacts
  <2>3. times[t] \in [Node -> Nat] /\ \A n \in Node : todo[c][n] = 0
    BY <1>1, <1>3 DEF NoCopies, RelayInv, TypeOK
  <2> QED
    BY <2>1, <2>2, <2>3
<1>6. ASSUME NEW u \in Tx \ {t}
      PROVE  Quota(u)' = Quota(u)
  <2>1. Senders(u)' = Senders(u)
    BY <1>0, <1>1, <1>2, <1>3 DEF Senders
  <2> QED
    BY <1>1, <2>1 DEF Quota
<1>7. QuotaMap' = QuotaMap
  BY <1>5, <1>6 DEF QuotaMap
<1> QED
  BY <1>1, <1>4, <1>7 DEF Relay!ListChanges, Addressed, QuotaMap

LEMMA StepRefines ==
  ASSUME RelayInv, RelayInv', QuotaFacts, QuotaFacts', Next
  PROVE  Relay!Next
<1> USE DEF Relay!Next
<1>1. TypeOK
  BY DEF RelayInv
<1>2. ASSUME NEW c \in Conn, NEW m \in Message, HandleTx(c, m)
      PROVE  Relay!ListChanges
  <2>1. /\ pc[c] = "idle"
        /\ \A d \in Conn \ {c} : pc'[d] = pc[d] /\ msg'[d] = msg[d]
        /\ pc'[c] \in {"done", "verify"}
        /\ UNCHANGED <<memPool, times, todo>>
    BY <1>1, <1>2 DEF HandleTx, Goto, TypeOK
  <2> QED
    BY <2>1, Stutters
<1>3. ASSUME NEW c \in Conn,
             \/ \E m \in Message : HandleInv(c, m) \/ HandleGetData(c, m)
             \/ FindTransaction(c) \/ Verify(c) \/ PoolBegin(c) \/ InvDone(c)
      PROVE  Relay!ListChanges
  <2>1. /\ pc[c] \in {"idle", "verify", "pool", "inv"}
        /\ pc' = pc \/ \E label \in Labels \ {"snapshot", "send"} : pc' = [pc EXCEPT ![c] = label]
        /\ UNCHANGED <<memPool, msg, times, todo>>
    BY <1>3 DEF HandleInv, HandleGetData, FindTransaction, Verify, PoolBegin, InvDone, Goto,
                Labels, shared, history
  <2> QED
    BY <1>1, <2>1, Stutters DEF TypeOK
<1>4. ASSUME NEW c \in Conn, Unmark(c)
      PROVE  Relay!ListChanges
  <2>1. /\ pc[c] = "unmark" /\ pc'[c] = "done"
        /\ \A d \in Conn \ {c} : pc'[d] = pc[d] /\ msg'[d] = msg[d]
        /\ UNCHANGED <<memPool, times, todo>>
    BY <1>1, <1>4 DEF Unmark, TxHandled, Goto, TypeOK, history
  <2> QED
    BY <2>1, Stutters
<1>5. ASSUME NEW c \in Conn, PoolEnd(c)
      PROVE  Relay!Next
  BY <1>5, PoolEndAccepts, Alone DEF PoolEnd, Busy, Before
<1>6. ASSUME NEW c \in Conn, Snapshot(c)
      PROVE  Relay!Next
  <2>1. msg[c] \in TxMessage /\ msg[c].tx \in Tx /\ msg[c].from \in Node
    BY <1>6, Alone, TxRelayAssumption DEF Snapshot, Busy, After, TxMessage
  <2>2. PICK t \in Tx, n \in Node : t = msg[c].tx /\ n = msg[c].from
    BY <2>1
  <2>3. Relay!Address(t, n)
    BY <1>6, <2>2, SnapshotAddresses
  <2> QED
    BY <2>3
<1>7. ASSUME NEW c \in Conn, NEW n \in Node, SendTx(c, n)
      PROVE  Relay!Next
  BY <1>7, SendTxPasses, Alone DEF SendTx, Busy, After
<1>8. ASSUME (\E b \in Block : BlockArrives(b)) \/ BlockStored \/ \E n \in Node : NodeJoins(n)
      PROVE  Relay!ListChanges
  <2>1. UNCHANGED <<memPool, pc, msg, times, todo>>
    BY <1>8 DEF BlockArrives, BlockStored, NodeJoins, local, history
  <2> QED
    BY <2>1, Stutters
<1> QED
  BY <1>2, <1>3, <1>4, <1>5, <1>6, <1>7, <1>8, TxDoneStutters DEF Next, Step

\* The goroutines together implement RelayOnce: a transaction enters the pool once, is
\* passed on from one copy of the list of nodes, and goes to each node at most as often
\* as its address stands there.
THEOREM RelayImplementsOnce == Spec => ImplementsRelayOnce
<1>1. Init => Relay!Init
  <2> SUFFICES ASSUME Init
               PROVE  Relay!Init
    OBVIOUS
  <2>1. \A t \in Tx : Quota(t) = NoCopies
    BY DEF Init, Quota, Senders
  <2> QED
    BY <2>1 DEF Init, Relay!Init, Relay!None, NoCopies
<1>2. RelayInv /\ RelayInv' /\ QuotaFacts /\ QuotaFacts' /\ [Next]_vars
        => [Relay!Next]_Relay!relayVars
  <2> SUFFICES ASSUME RelayInv, RelayInv', QuotaFacts, QuotaFacts', [Next]_vars
               PROVE  [Relay!Next]_Relay!relayVars
    OBVIOUS
  <2>1. CASE Next
    BY <2>1, StepRefines
  <2>2. CASE UNCHANGED vars
    <3>1. Relay!ListChanges
      BY <2>2, Stutters DEF vars, shared, local, history
    <3> QED
      BY <3>1 DEF Relay!Next
  <2> QED
    BY <2>1, <2>2
<1> QED
  BY RelayInvHolds, Quotas, <1>1, <1>2, PTL DEF Spec, ImplementsRelayOnce, Relay!Spec
-----------------------------------------------------------------------------
(* What is dropped, and what is not *)

\* A mark is of a pooled transaction or of one that is being checked.
MarksHaveReason ==
  \A t \in broadcastedTxs : t \in memPool \/ \E c \in Conn : pc[c] \in Before /\ msg[c].tx = t

\* What is still to be looked up is spent by the transaction.
InputsLeft ==
  \A c \in Conn : pc[c] = "verify" =>
    \A i \in DOMAIN inputs[c] : \E j \in DOMAIN Vin[msg[c].tx] : inputs[c][i] = Vin[msg[c].tx][j]

\* A goroutine that will find its transaction valid, unless the chain changes.
Succeeds(c) ==
  \/ pc[c] \in {"pool", "pooling"}
  \/ /\ pc[c] = "verify"
     /\ AllIn(inputs[c], Found)
     /\ Vin[msg[c].tx] = <<>> \/ Verifies[msg[c].tx] = "true"

OffersHold == \A t \in offered : t \in memPool \/ \E c \in Conn : Succeeds(c) /\ msg[c].tx = t

OfferInv == MarksHaveReason /\ InputsLeft /\ OffersHold

\* Steps that leave marks, pool, chain and offers alone, keep each goroutine on its
\* side of the write to the pool, and none from succeeding.
LEMMA OfferKept ==
  ASSUME OfferInv,
         UNCHANGED <<broadcastedTxs, memPool, offered>>,
         \A c \in Conn :
           /\ pc[c] \in Before => pc'[c] \in Before /\ msg'[c] = msg[c]
           /\ pc'[c] = "verify" => pc[c] = "verify" /\ inputs'[c] = inputs[c]
           /\ Succeeds(c) => Succeeds(c)'
  PROVE  OfferInv'
<1>1. MarksHaveReason'
  BY DEF OfferInv, MarksHaveReason
<1>2. InputsLeft'
  BY DEF OfferInv, InputsLeft, Before
<1>3. \A c \in Conn : Succeeds(c) => pc[c] \in Before
  BY DEF Succeeds, Before
<1>4. OffersHold'
  BY <1>3 DEF OfferInv, OffersHold
<1> QED
  BY <1>1, <1>2, <1>4 DEF OfferInv

LEMMA HandleTxOffer ==
  ASSUME RelayInv, OfferInv, NEW c \in Conn, NEW m \in Message, HandleTx(c, m)
  PROVE  OfferInv'
<1>1. /\ pc[c] = "idle"
      /\ UNCHANGED <<memPool, chain>>
      /\ TypeOK
      /\ m.tx \in Tx
  BY TxRelayAssumption DEF HandleTx, RelayInv
<1>2. /\ \A d \in Conn \ {c} : pc'[d] = pc[d] /\ msg'[d] = msg[d] /\ inputs'[d] = inputs[d]
      /\ \/ /\ pc'[c] = "done" /\ broadcastedTxs' = broadcastedTxs
            /\ m.encoding = "gob" => m.tx \in broadcastedTxs
         \/ /\ pc'[c] = "verify" /\ msg'[c] = m /\ inputs'[c] = Vin[m.tx]
            /\ broadcastedTxs' = broadcastedTxs \cup {m.tx}
  <2>1. CASE m.encoding # "gob" \/ m.tx \in broadcastedTxs
    BY <1>1, <2>1 DEF HandleTx, Goto, TypeOK
  <2>2. CASE ~(m.encoding # "gob" \/ m.tx \in broadcastedTxs)
    BY <1>1, <2>2 DEF HandleTx, Goto, TypeOK
  <2> QED
    BY <2>1, <2>2
<1>3. \A d \in Conn : pc[d] \in Before \/ Succeeds(d) => d # c
  BY <1>1 DEF Before, Succeeds
<1>4. MarksHaveReason'
  <2> SUFFICES ASSUME NEW t \in broadcastedTxs'
               PROVE  t \in memPool \/ \E d \in Conn : pc'[d] \in Before /\ msg'[d].tx = t
    BY <1>1 DEF MarksHaveReason
  <2>1. CASE t \in broadcastedTxs /\ t \notin memPool
    <3>1. PICK d \in Conn : pc[d] \in Before /\ msg[d].tx = t
      BY <2>1 DEF OfferInv, MarksHaveReason
    <3> QED
      BY <1>2, <1>3, <3>1
  <2>2. CASE t \notin broadcastedTxs
    BY <1>2, <2>2 DEF Before
  <2> QED
    BY <2>1, <2>2
<1>5. InputsLeft'
  BY <1>2 DEF OfferInv, InputsLeft
<1>6. \A d \in Conn : Succeeds(d) => Succeeds(d)' /\ msg'[d] = msg[d]
  BY <1>1, <1>2, <1>3 DEF Succeeds, Found, chain
<1>7. OffersHold'
  <2> SUFFICES ASSUME NEW t \in offered'
               PROVE  t \in memPool \/ \E d \in Conn : Succeeds(d)' /\ msg'[d].tx = t
    BY <1>1 DEF OffersHold
  <2>1. CASE t \in offered
    BY <1>6, <2>1 DEF OfferInv, OffersHold
  <2>2. CASE t \notin offered
    <3>1. t = m.tx /\ m.encoding = "gob" /\ Valid(t) /\ ~Unmarking(t)
      BY <2>2 DEF HandleTx
    <3>2. CASE pc'[c] = "verify" /\ msg'[c] = m /\ inputs'[c] = Vin[m.tx]
      <4>1. Succeeds(c)'
        BY <1>1, <3>1, <3>2 DEF Succeeds, Valid, Found, chain
      <4> QED
        BY <3>1, <3>2, <4>1
    <3>3. CASE t \in broadcastedTxs /\ t \notin memPool
      <4>1. PICK d \in Conn : pc[d] \in Before /\ msg[d].tx = t
        BY <3>3 DEF OfferInv, MarksHaveReason
      <4>2. CASE pc[d] = "verify"
        <5>1. AllIn(inputs[d], Found)
          BY <3>1, <4>1, <4>2 DEF OfferInv, InputsLeft, AllIn, Valid
        <5> QED
          BY <1>6, <3>1, <4>1, <4>2, <5>1 DEF Succeeds, Valid
      <4>3. CASE pc[d] \in {"pool", "pooling"}
        BY <1>6, <4>1, <4>3 DEF Succeeds
      <4> QED
        BY <3>1, <4>1, <4>2, <4>3 DEF Before, Unmarking
    <3> QED
      BY <1>2, <3>1, <3>2, <3>3
  <2> QED
    BY <2>1, <2>2
<1> QED
  BY <1>4, <1>5, <1>7 DEF OfferInv

LEMMA FindTransactionOffer ==
  ASSUME RelayInv, OfferInv, NEW c \in Conn, FindTransaction(c)
  PROVE  OfferInv'
<1>1. /\ pc[c] = "verify" /\ inputs[c] # <<>>
      /\ UNCHANGED <<broadcastedTxs, memPool, chain, msg, offered>>
      /\ inputs[c] \in Seq(Tx) /\ TypeOK
  BY DEF FindTransaction, shared, history, RelayInv, TypeOK
<1>2. CASE UNCHANGED <<pc, inputs>>
  BY <1>1, <1>2, OfferKept DEF Succeeds, Found, chain
<1>3. CASE pc' = [pc EXCEPT ![c] = "unmark"] /\ Head(inputs[c]) \notin Found
  <2>1. ~Succeeds(c)
    BY <1>1, <1>3 DEF Succeeds, AllIn
  <2>2. \A d \in Conn \ {c} : pc'[d] = pc[d] /\ inputs'[d] = inputs[d]
    BY <1>1, <1>3 DEF FindTransaction, TypeOK
  <2> QED
    BY <1>1, <1>3, <2>1, <2>2, OfferKept DEF Succeeds, Found, chain, Before, TypeOK
<1>4. CASE UNCHANGED pc /\ inputs' = [inputs EXCEPT ![c] = Tail(@)]
  <2>1. /\ inputs'[c] = Tail(inputs[c])
        /\ \A d \in Conn \ {c} : inputs'[d] = inputs[d]
    BY <1>1, <1>4 DEF TypeOK
  <2>2. \A i \in DOMAIN inputs'[c] : i + 1 \in DOMAIN inputs[c] /\ inputs'[c][i] = inputs[c][i + 1]
    BY <1>1, <2>1
  <2>3. MarksHaveReason'
    BY <1>1, <1>4 DEF OfferInv, MarksHaveReason
  <2>4. InputsLeft'
    BY <1>1, <1>4, <2>1, <2>2 DEF OfferInv, InputsLeft
  <2>5. \A d \in Conn : Succeeds(d) => Succeeds(d)'
    BY <1>1, <1>4, <2>1, <2>2 DEF Succeeds, AllIn, Found, chain
  <2>6. OffersHold'
    BY <1>1, <2>5 DEF OfferInv, OffersHold
  <2> QED
    BY <2>3, <2>4, <2>6 DEF OfferInv
<1> QED
  BY <1>2, <1>3, <1>4 DEF FindTransaction, Goto

LEMMA VerifyOffer ==
  ASSUME RelayInv, OfferInv, NEW c \in Conn, Verify(c)
  PROVE  OfferInv'
<1>1. /\ pc[c] = "verify"
      /\ UNCHANGED <<broadcastedTxs, memPool, chain, msg, inputs, offered>>
      /\ TypeOK
  BY DEF Verify, shared, history, RelayInv
<1>2. CASE UNCHANGED pc
  BY <1>1, <1>2, OfferKept DEF Succeeds, Found, chain
<1>3. CASE pc' = [pc EXCEPT ![c] = "pool"]
  BY <1>1, <1>3, OfferKept DEF TypeOK, Before, Succeeds, Found, chain
<1>4. CASE /\ pc' = [pc EXCEPT ![c] = "unmark"]
           /\ Vin[msg[c].tx] # <<>> /\ Verifies[msg[c].tx] # "true"
  <2>1. ~Succeeds(c)
    BY <1>1, <1>4 DEF Succeeds
  <2> QED
    BY <1>1, <1>4, <2>1, OfferKept DEF TypeOK, Before, Succeeds, Found, chain
<1> QED
  BY <1>2, <1>3, <1>4 DEF Verify, Goto

LEMMA UnmarkOffer ==
  ASSUME RelayInv, OfferInv, NEW c \in Conn, Unmark(c)
  PROVE  OfferInv'
<1>1. /\ pc[c] = "unmark"
      /\ broadcastedTxs' = broadcastedTxs \ {msg[c].tx}
      /\ pc' = [pc EXCEPT ![c] = "done"]
      /\ msg' = [msg EXCEPT ![c] = NoMsg]
      /\ UNCHANGED <<memPool, chain, inputs, offered>>
  BY DEF Unmark, TxHandled, Goto, history
<1>2. pc'[c] = "done" /\ \A d \in Conn \ {c} : pc'[d] = pc[d] /\ msg'[d] = msg[d]
  BY <1>1 DEF RelayInv, TypeOK
<1>3. MarksHaveReason'
  BY <1>1, <1>2 DEF OfferInv, MarksHaveReason
<1>4. InputsLeft'
  BY <1>1, <1>2 DEF OfferInv, InputsLeft
<1>5. \A d \in Conn : Succeeds(d) => d # c /\ Succeeds(d)'
  BY <1>1, <1>2 DEF Succeeds, Found, chain
<1>6. OffersHold'
  BY <1>1, <1>2, <1>5 DEF OfferInv, OffersHold
<1> QED
  BY <1>3, <1>4, <1>6 DEF OfferInv

LEMMA PoolEndOffer ==
  ASSUME RelayInv, OfferInv, NEW c \in Conn, PoolEnd(c)
  PROVE  OfferInv'
<1>1. /\ pc[c] = "pooling"
      /\ memPool' = memPool \cup {msg[c].tx}
      /\ pc' = [pc EXCEPT ![c] = "snapshot"]
      /\ UNCHANGED <<broadcastedTxs, chain, msg, inputs, offered>>
  BY DEF PoolEnd, Goto, history
<1>2. pc'[c] = "snapshot" /\ \A d \in Conn \ {c} : pc'[d] = pc[d]
  BY <1>1 DEF RelayInv, TypeOK
<1>3. MarksHaveReason'
  BY <1>1, <1>2 DEF OfferInv, MarksHaveReason
<1>4. InputsLeft'
  BY <1>1, <1>2 DEF OfferInv, InputsLeft
<1>5. \A d \in Conn \ {c} : Succeeds(d) => Succeeds(d)'
  BY <1>1, <1>2 DEF Succeeds, Found, chain
<1>6. OffersHold'
  BY <1>1, <1>5 DEF OfferInv, OffersHold
<1> QED
  BY <1>3, <1>4, <1>6 DEF OfferInv

\* A block that leads elsewhere takes back the offers that are still looked for.
LEMMA BlockArrivesOffer ==
  ASSUME RelayInv, OfferInv, NEW b \in Block, BlockArrives(b)
  PROVE  OfferInv'
<1>1. /\ newBlockHash' = b
      /\ offered' = offered \ {msg[c].tx : c \in {d \in Conn : Misses(d, b)}}
      /\ UNCHANGED <<broadcastedTxs, memPool, pc, msg, inputs>>
  BY DEF BlockArrives, local
<1>2. MarksHaveReason' /\ InputsLeft'
  BY <1>1 DEF OfferInv, MarksHaveReason, InputsLeft
<1>3. \A c \in Conn : Succeeds(c) /\ ~Misses(c, b) => Succeeds(c)'
  BY <1>1 DEF Succeeds, Misses, Found
<1>4. OffersHold'
  BY <1>1, <1>3 DEF OfferInv, OffersHold
<1> QED
  BY <1>2, <1>4 DEF OfferInv

LEMMA OfferInductive == RelayInv /\ OfferInv /\ [Next]_vars => OfferInv'
<1> SUFFICES ASSUME RelayInv, OfferInv, [Next]_vars
             PROVE  OfferInv'
  OBVIOUS
<1> USE DEF Succeeds, Found
<1>1. TypeOK
  BY DEF RelayInv
<1>2. ASSUME NEW c \in Conn,
             (\E m \in Message : HandleInv(c, m) \/ HandleGetData(c, m)) \/ InvDone(c) \/ Snapshot(c)
      PROVE  OfferInv'
  <2>1. /\ pc[c] \in {"idle", "inv", "snapshot"}
        /\ pc' = pc \/ \E label \in {"inv", "done", "send"} : pc' = [pc EXCEPT ![c] = label]
        /\ UNCHANGED <<broadcastedTxs, memPool, chain, msg, inputs, offered>>
    BY <1>2 DEF HandleInv, HandleGetData, InvDone, Snapshot, Goto, shared, history
  <2> QED
    BY <1>1, <2>1, OfferKept DEF Before, TypeOK, chain
<1>3. ASSUME NEW c \in Conn, PoolBegin(c)
      PROVE  OfferInv'
  <2>1. /\ pc[c] = "pool" /\ pc' = [pc EXCEPT ![c] = "pooling"]
        /\ UNCHANGED <<broadcastedTxs, memPool, chain, msg, inputs, offered>>
    BY <1>3 DEF PoolBegin, Goto, shared, history
  <2> QED
    BY <1>1, <2>1, OfferKept DEF Before, TypeOK, chain
<1>4. ASSUME NEW c \in Conn, NEW n \in Node, SendTx(c, n)
      PROVE  OfferInv'
  BY <1>4, OfferKept DEF SendTx, chain
<1>5. ASSUME NEW c \in Conn, TxDone(c)
      PROVE  OfferInv'
  <2>1. /\ pc[c] = "send" /\ pc' = [pc EXCEPT ![c] = "done"]
        /\ msg' = [msg EXCEPT ![c] = NoMsg]
        /\ UNCHANGED <<broadcastedTxs, memPool, chain, inputs, offered>>
    BY <1>5 DEF TxDone, TxHandled, Goto, shared, history
  <2>2. pc'[c] = "done" /\ \A d \in Conn \ {c} : pc'[d] = pc[d] /\ msg'[d] = msg[d]
    BY <1>1, <2>1 DEF TypeOK
  <2> QED
    BY <2>1, <2>2, OfferKept DEF Before, chain
<1>6. ASSUME BlockStored \/ \E n \in Node : NodeJoins(n)
      PROVE  OfferInv'
  BY <1>6, OfferKept DEF BlockStored, NodeJoins, chain, local, history
<1>7. CASE UNCHANGED vars
  BY <1>7, OfferKept DEF vars, shared, chain, local, history
<1> QED
  BY <1>2, <1>3, <1>4, <1>5, <1>6, <1>7, HandleTxOffer, FindTransactionOffer, VerifyOffer,
     UnmarkOffer, PoolEndOffer, BlockArrivesOffer DEF Next, Step

\* Once the handlers are through, nothing is marked but what is in the pool, and every
\* offered transaction is there: one that came in valid, when no failed handler was
\* about to clear its mark, and that no change of the chain made unfindable since.
THEOREM DroppedAreForgotten == Spec => []DroppedIsForgotten
<1>1. Init => OfferInv
  BY DEF Init, OfferInv, MarksHaveReason, InputsLeft, OffersHold
<1>2. RelayInv /\ OfferInv => DroppedIsForgotten
  BY DEF RelayInv, PoolIsMarked, OfferInv, MarksHaveReason, OffersHold, Succeeds,
         DroppedIsForgotten, AtRest, Before
<1> QED
  BY RelayInvHolds, OfferInductive, <1>1, <1>2, PTL DEF Spec
=============================================================================
