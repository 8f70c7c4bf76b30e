----------------------------- MODULE Downloader -----------------------------
(***************************************************************************)
(* The block download manager of one running server: the maps that         *)
(* handleInv fills and downloadManager works through on every tick, the    *)
(* list of known nodes it picks from, and the blocks that come back.       *)
(*                                                                         *)
(* downloadManager holds downloadMutex for a whole tick, network sends     *)
(* included; phase is where it stands, and handleInv runs only while it is *)
(* "idle".  handleBlock and handleVersion take no part in that lock.       *)
(***************************************************************************)
EXTENDS Integers

CONSTANTS
  BlockHash,      \* hashes of the blocks peers announce
  Node,           \* addresses of the nodes that may be known
  Self,           \* nodeAddress, which knownNodes may contain
  InitialNodes,   \* knownNodes when the server starts
  MaxRetries,     \* requests made for a block before it is given up (3)
  MaxFaults       \* bound on failed dials and lost answers

ASSUME DownloaderAssumption == /\ InitialNodes \subseteq Node
                               /\ MaxRetries \in Nat \ {0}
                               /\ MaxFaults \in Nat

VARIABLES
  knownNodes,          \* nodes a request may go to
  blocksToDownload,    \* announced, not yet asked for
  downloadingBlocks,   \* asked for; the code maps each to the time it asked
  overdue,             \* those asked for more than 30 seconds ago
  downloadRetries,     \* retry counts; the code keeps no key for a count of 0
  phase,               \* loop downloadManager is in: "idle", "retry", "dispatch"
  todo,                \* hashes the loop still has to visit
  pending,             \* blocks a node will answer with
  stored,              \* blocks handleBlock has added to the database
  requests,            \* history: requests for a block since it was queued
  faults               \* failed dials and lost answers so far

netVars == <<knownNodes, pending, faults>>
mapVars == <<blocksToDownload, downloadingBlocks, overdue, downloadRetries>>
vars    == <<netVars, mapVars, phase, todo, stored, requests>>

Init ==
  /\ knownNodes = InitialNodes
  /\ blocksToDownload = {}
  /\ downloadingBlocks = {}
  /\ overdue = {}
  /\ downloadRetries = [h \in BlockHash |-> 0]
  /\ phase = "idle"
  /\ todo = {}
  /\ pending = {}
  /\ stored = {}
  /\ requests = [h \in BlockHash |-> 0]
  /\ faults = 0

-----------------------------------------------------------------------------
(* The connection handlers *)

\* Fault: downloads in progress are queued again.
Inv_QueuesAll(items) ==
  /\ phase = "idle"
  /\ blocksToDownload' = blocksToDownload \cup items
  /\ requests' = [h \in BlockHash |-> IF h \in items THEN 0 ELSE requests[h]]
  /\ UNCHANGED <<netVars, downloadingBlocks, overdue, downloadRetries, phase, todo, stored>>

\* handleInv, type "block": queue every hash not being downloaded, stored or not.
Inv(items) ==
  /\ phase = "idle"
  /\ LET new == items \ downloadingBlocks
     IN  /\ blocksToDownload' = blocksToDownload \cup new
         /\ requests' = [h \in BlockHash |-> IF h \in new THEN 0 ELSE requests[h]]
  /\ UNCHANGED <<netVars, downloadingBlocks, overdue, downloadRetries, phase, todo, stored>>

\* handleBlock stores the block and leaves the three maps alone.
Block(h) ==
  /\ h \in pending
  /\ pending' = pending \ {h}
  /\ stored' = stored \cup {h}
  /\ UNCHANGED <<knownNodes, faults, mapVars, phase, todo, requests>>

\* handleVersion learns of the sender.
Version(node) ==
  /\ knownNodes' = knownNodes \cup {node}
  /\ UNCHANGED <<pending, faults, mapVars, phase, todo, stored, requests>>

\* sendData of any handler drops a node it cannot reach.
SendFails(node) ==
  /\ faults < MaxFaults
  /\ faults' = faults + 1
  /\ knownNodes' = knownNodes \ {node}
  /\ UNCHANGED <<pending, mapVars, phase, todo, stored, requests>>

-----------------------------------------------------------------------------
(* downloadManager *)

\* handleGetData finds the block; a node that asks itself has it only if stored.
Answered(h, node) == /\ node # Self \/ h \in stored
                     /\ pending' = pending \cup {h}
                     /\ UNCHANGED <<knownNodes, faults>>

\* The block is not found, or the request or the answer is lost.
Unanswered(h, node) == /\ IF node = Self /\ h \notin stored THEN faults' = faults
                          ELSE faults < MaxFaults /\ faults' = faults + 1
                       /\ UNCHANGED <<knownNodes, pending>>

\* The dial fails.
Unreachable(node) == /\ faults < MaxFaults
                     /\ faults' = faults + 1
                     /\ knownNodes' = knownNodes \ {node}
                     /\ UNCHANGED pending

\* selectNodeForBlock and sendGetData.  With no node known the address is empty
\* and the dial fails.
SendGetData(h) ==
  /\ requests' = [requests EXCEPT ![h] = @ + 1]
  /\ IF knownNodes = {} THEN UNCHANGED netVars
     ELSE \E node \in knownNodes :
            Answered(h, node) \/ Unanswered(h, node) \/ Unreachable(node)

Tick ==
  /\ phase = "idle"
  /\ phase' = "retry"
  /\ todo' = overdue
  /\ UNCHANGED <<netVars, mapVars, stored, requests>>

\* Fault: the retry count survives the download.
Abandon_KeepsRetries(h) ==
  /\ phase = "retry"
  /\ h \in todo
  /\ downloadRetries[h] + 1 >= MaxRetries
  /\ blocksToDownload' = blocksToDownload \ {h}
  /\ downloadingBlocks' = downloadingBlocks \ {h}
  /\ overdue' = overdue \ {h}
  /\ todo' = todo \ {h}
  /\ UNCHANGED <<netVars, downloadRetries, phase, stored, requests>>

\* Fault: a block is given up at its first timeout.
Abandon_AtOnce(h) ==
  /\ phase = "retry"
  /\ h \in todo
  /\ blocksToDownload' = blocksToDownload \ {h}
  /\ downloadingBlocks' = downloadingBlocks \ {h}
  /\ overdue' = overdue \ {h}
  /\ downloadRetries' = [downloadRetries EXCEPT ![h] = 0]
  /\ todo' = todo \ {h}
  /\ UNCHANGED <<netVars, phase, stored, requests>>

\* Fault: the block only leaves the queue.
Abandon_KeepsDownload(h) ==
  /\ phase = "retry"
  /\ h \in todo
  /\ downloadRetries[h] + 1 >= MaxRetries
  /\ blocksToDownload' = blocksToDownload \ {h}
  /\ todo' = todo \ {h}
  /\ UNCHANGED <<netVars, downloadingBlocks, overdue, downloadRetries, phase, stored, requests>>

Abandon(h) ==
  /\ phase = "retry"
  /\ h \in todo
  /\ downloadRetries[h] + 1 >= MaxRetries
  /\ blocksToDownload' = blocksToDownload \ {h}
  /\ downloadingBlocks' = downloadingBlocks \ {h}
  /\ overdue' = overdue \ {h}
  /\ downloadRetries' = [downloadRetries EXCEPT ![h] = 0]
  /\ todo' = todo \ {h}
  /\ UNCHANGED <<netVars, phase, stored, requests>>

\* Fault: the bound is compared with the wrong side of the increment.
Retry_OneMore(h) ==
  /\ phase = "retry"
  /\ h \in todo
  /\ downloadRetries[h] < MaxRetries
  /\ downloadRetries' = [downloadRetries EXCEPT ![h] = @ + 1]
  /\ SendGetData(h)
  /\ overdue' = overdue \ {h}
  /\ todo' = todo \ {h}
  /\ UNCHANGED <<blocksToDownload, downloadingBlocks, phase, stored>>

Retry(h) ==
  /\ phase = "retry"
  /\ h \in todo
  /\ downloadRetries[h] + 1 < MaxRetries
  /\ downloadRetries' = [downloadRetries EXCEPT ![h] = @ + 1]
  /\ SendGetData(h)
  /\ overdue' = overdue \ {h}
  /\ todo' = todo \ {h}
  /\ UNCHANGED <<blocksToDownload, downloadingBlocks, phase, stored>>

\* Fault: the test for a download in progress is inverted.
TakeQueue_Inverted ==
  /\ phase = "retry"
  /\ todo = {}
  /\ phase' = "dispatch"
  /\ todo' = blocksToDownload \cap downloadingBlocks
  /\ UNCHANGED <<netVars, mapVars, stored, requests>>

TakeQueue ==
  /\ phase = "retry"
  /\ todo = {}
  /\ phase' = "dispatch"
  /\ todo' = blocksToDownload \ downloadingBlocks
  /\ UNCHANGED <<netVars, mapVars, stored, requests>>

\* Fault: the block stays in the queue.
Dispatch_KeepsQueued(h) ==
  /\ phase = "dispatch"
  /\ h \in todo
  /\ SendGetData(h)
  /\ downloadingBlocks' = downloadingBlocks \cup {h}
  /\ todo' = todo \ {h}
  /\ UNCHANGED <<blocksToDownload, overdue, downloadRetries, phase, stored>>

Dispatch(h) ==
  /\ phase = "dispatch"
  /\ h \in todo
  /\ SendGetData(h)
  /\ downloadingBlocks' = downloadingBlocks \cup {h}
  /\ blocksToDownload' = blocksToDownload \ {h}
  /\ todo' = todo \ {h}
  /\ UNCHANGED <<overdue, downloadRetries, phase, stored>>

TickDone ==
  /\ phase = "dispatch"
  /\ todo = {}
  /\ phase' = "idle"
  /\ UNCHANGED <<netVars, mapVars, todo, stored, requests>>

\* Thirty seconds pass since a block was asked for.
TimeOut(h) ==
  /\ h \in downloadingBlocks \ overdue
  /\ overdue' = overdue \cup {h}
  /\ UNCHANGED <<netVars, blocksToDownload, downloadingBlocks, downloadRetries,
                 phase, todo, stored, requests>>

Manager == \/ Tick
           \/ \E h \in BlockHash : Abandon(h) \/ Retry(h)
           \/ TakeQueue
           \/ \E h \in BlockHash : Dispatch(h)
           \/ TickDone

Next ==
  \/ \E items \in SUBSET BlockHash : Inv(items)
  \/ \E h \in BlockHash : Block(h)
  \/ \E node \in Node : Version(node) \/ SendFails(node)
  \/ Manager
  \/ \E h \in BlockHash : TimeOut(h)

Spec == Init /\ [][Next]_vars

\* The ticker and the loops go on, time passes, and a node that will answer
\* does so.
Fairness == /\ WF_vars(Manager)
            /\ \A h \in BlockHash : WF_vars(TimeOut(h)) /\ WF_vars(Block(h))

FairSpec == Spec /\ Fairness

-----------------------------------------------------------------------------
(* Properties *)

\* The shape of the state.
TypeOK ==
  /\ knownNodes \subseteq Node
  /\ blocksToDownload \subseteq BlockHash
  /\ downloadingBlocks \subseteq BlockHash
  /\ overdue \subseteq downloadingBlocks
  /\ downloadRetries \in [BlockHash -> 0..(MaxRetries - 1)]
  /\ phase \in {"idle", "retry", "dispatch"}
  /\ todo \subseteq BlockHash
  /\ pending \subseteq BlockHash
  /\ stored \subseteq BlockHash
  /\ requests \in [BlockHash -> Nat]
  /\ faults \in 0..MaxFaults

\* A block waits in the queue or is being downloaded, never both, so a tick
\* cannot retry it and dispatch it.
NeverQueuedTwice == blocksToDownload \cap downloadingBlocks = {}

\* The retry count of a block is that of its current download: what an earlier
\* download left behind never shortens a later one.
RetriesAreCurrent ==
  \A h \in BlockHash :
    /\ h \notin downloadingBlocks => downloadRetries[h] = 0
    /\ h \in downloadingBlocks => requests[h] = downloadRetries[h] + 1

\* One announcement costs at most MaxRetries requests.
RequestsBounded == \A h \in BlockHash : requests[h] <= MaxRetries

\* A tick that ends has emptied the queue.
TickEmptiesQueue == phase = "dispatch" /\ todo = {} => blocksToDownload = {}

\* Every announced block is asked for, whatever the nodes do.
QueuedIsAsked == \A h \in BlockHash : h \in blocksToDownload ~> h \in downloadingBlocks

\* No download lasts for ever: it is given up after the last retry.
DownloadsEnd == \A h \in BlockHash : h \in downloadingBlocks ~> h \notin downloadingBlocks

Policy == INSTANCE FetchPolicy WITH
  status   <- [h \in BlockHash |-> IF h \in downloadingBlocks THEN "asked"
                                   ELSE IF h \in blocksToDownload THEN "queued" ELSE "none"],
  attempts <- [h \in BlockHash |-> IF h \in downloadingBlocks THEN downloadRetries[h] + 1 ELSE 0]

\* The three maps implement the policy of asking MaxRetries times.
ImplementsPolicy == Policy!Spec
=============================================================================
