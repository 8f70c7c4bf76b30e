-------------------------- MODULE DownloaderProofs --------------------------
(***************************************************************************)
(* Theorems about Downloader, for every set of blocks and nodes and any    *)
(* number of retries and faults.                                           *)
(***************************************************************************)
EXTENDS Downloader, TLAPS

\* A queued block has not been asked for since it was queued.
QueuedIsFresh == \A h \in blocksToDownload : requests[h] = 0

\* What the loop in progress still has to visit.
TodoInv == /\ phase = "retry" => todo \subseteq overdue
           /\ phase = "dispatch" => todo = blocksToDownload

DownloadInv == /\ TypeOK
               /\ NeverQueuedTwice
               /\ RetriesAreCurrent
               /\ RequestsBounded
               /\ QueuedIsFresh
               /\ TodoInv

\* A request raises one count and leaves the known nodes, the answers on their
\* way and the faults within their types.
LEMMA RequestCounts ==
  ASSUME TypeOK, NEW h \in BlockHash, SendGetData(h)
  PROVE  /\ requests' = [requests EXCEPT ![h] = @ + 1]
         /\ knownNodes' \subseteq Node
         /\ pending' \subseteq BlockHash
         /\ faults' \in 0..MaxFaults
<1> USE DownloaderAssumption DEF TypeOK
<1>1. CASE UNCHANGED netVars
  BY <1>1 DEF SendGetData, netVars
<1>2. ASSUME NEW node \in knownNodes, Answered(h, node) \/ Unanswered(h, node) \/ Unreachable(node)
      PROVE  /\ knownNodes' \subseteq Node
             /\ pending' \subseteq BlockHash
             /\ faults' \in 0..MaxFaults
  BY <1>2 DEF Answered, Unanswered, Unreachable
<1> QED
  BY <1>1, <1>2 DEF SendGetData

LEMMA InitInv == Init => DownloadInv
BY DownloaderAssumption
   DEF Init, DownloadInv, TypeOK, NeverQueuedTwice, RetriesAreCurrent, RequestsBounded,
       QueuedIsFresh, TodoInv

LEMMA NextInv == DownloadInv /\ [Next]_vars => DownloadInv'
<1> SUFFICES ASSUME DownloadInv, [Next]_vars PROVE DownloadInv'
  OBVIOUS
<1> USE DownloaderAssumption DEF DownloadInv
<1>1. ASSUME NEW items \in SUBSET BlockHash, Inv(items) PROVE DownloadInv'
  <2> DEFINE new == items \ downloadingBlocks
  <2>1. /\ phase = "idle" /\ phase' = "idle"
        /\ blocksToDownload' = blocksToDownload \cup new
        /\ requests' = [h \in BlockHash |-> IF h \in new THEN 0 ELSE requests[h]]
        /\ UNCHANGED <<netVars, downloadingBlocks, overdue, downloadRetries, todo, stored>>
    BY <1>1 DEF Inv
  <2>2. TypeOK'
    BY <2>1 DEF TypeOK, netVars
  <2>3. NeverQueuedTwice' /\ RetriesAreCurrent'
    BY <2>1 DEF NeverQueuedTwice, RetriesAreCurrent
  <2>4. RequestsBounded' /\ QueuedIsFresh'
    BY <2>1 DEF RequestsBounded, QueuedIsFresh, TypeOK
  <2>5. TodoInv'
    BY <2>1 DEF TodoInv
  <2> QED
    BY <2>2, <2>3, <2>4, <2>5
<1>2. ASSUME NEW h \in BlockHash, Block(h) PROVE DownloadInv'
  BY <1>2 DEF Block, mapVars, TypeOK, NeverQueuedTwice, RetriesAreCurrent, RequestsBounded,
              QueuedIsFresh, TodoInv
<1>3. ASSUME NEW node \in Node, Version(node) \/ SendFails(node) PROVE DownloadInv'
  BY <1>3 DEF Version, SendFails, mapVars, TypeOK, NeverQueuedTwice, RetriesAreCurrent, RequestsBounded,
              QueuedIsFresh, TodoInv
<1>4. ASSUME Tick PROVE DownloadInv'
  BY <1>4 DEF Tick, netVars, mapVars, TypeOK, NeverQueuedTwice, RetriesAreCurrent,
              RequestsBounded, QueuedIsFresh, TodoInv
<1>5. ASSUME NEW h \in BlockHash, Abandon(h) PROVE DownloadInv'
  <2> USE <1>5 DEF Abandon
  <2>1. TypeOK'
    BY DEF TypeOK, netVars
  <2>2. NeverQueuedTwice' /\ QueuedIsFresh' /\ RequestsBounded'
    BY DEF NeverQueuedTwice, QueuedIsFresh, RequestsBounded
  <2>3. RetriesAreCurrent'
    BY DEF RetriesAreCurrent, TypeOK
  <2>4. TodoInv'
    BY DEF TodoInv
  <2> QED
    BY <2>1, <2>2, <2>3, <2>4
<1>6. ASSUME NEW h \in BlockHash, Retry(h) PROVE DownloadInv'
  <2> USE <1>6 DEF Retry
  <2>1. /\ requests' = [requests EXCEPT ![h] = @ + 1]
        /\ knownNodes' \subseteq Node /\ pending' \subseteq BlockHash /\ faults' \in 0..MaxFaults
    BY RequestCounts
  <2>2. h \in downloadingBlocks
    BY DEF TodoInv, TypeOK
  <2>3. TypeOK'
    BY <2>1 DEF TypeOK
  <2>4. NeverQueuedTwice'
    BY DEF NeverQueuedTwice
  <2>5. RetriesAreCurrent'
    BY <2>1, <2>2 DEF RetriesAreCurrent, TypeOK
  <2>6. RequestsBounded'
    BY <2>1, <2>2 DEF RetriesAreCurrent, RequestsBounded, TypeOK
  <2>7. QueuedIsFresh'
    BY <2>1, <2>2 DEF QueuedIsFresh, NeverQueuedTwice, TypeOK
  <2>8. TodoInv'
    BY DEF TodoInv
  <2> QED
    BY <2>3, <2>4, <2>5, <2>6, <2>7, <2>8
<1>7. ASSUME TakeQueue PROVE DownloadInv'
  BY <1>7 DEF TakeQueue, netVars, mapVars, TypeOK, NeverQueuedTwice, RetriesAreCurrent,
              RequestsBounded, QueuedIsFresh, TodoInv
<1>8. ASSUME NEW h \in BlockHash, Dispatch(h) PROVE DownloadInv'
  <2> USE <1>8 DEF Dispatch
  <2>1. /\ requests' = [requests EXCEPT ![h] = @ + 1]
        /\ knownNodes' \subseteq Node /\ pending' \subseteq BlockHash /\ faults' \in 0..MaxFaults
    BY RequestCounts
  <2>2. h \in blocksToDownload /\ h \notin downloadingBlocks /\ requests[h] = 0
    BY DEF TodoInv, NeverQueuedTwice, QueuedIsFresh
  <2>3. TypeOK'
    BY <2>1 DEF TypeOK
  <2>4. NeverQueuedTwice'
    BY DEF NeverQueuedTwice
  <2>5. RetriesAreCurrent'
    BY <2>1, <2>2 DEF RetriesAreCurrent, TypeOK
  <2>6. RequestsBounded'
    BY <2>1, <2>2 DEF RequestsBounded, TypeOK
  <2>7. QueuedIsFresh'
    BY <2>1 DEF QueuedIsFresh, TypeOK
  <2>8. TodoInv'
    BY DEF TodoInv
  <2> QED
    BY <2>3, <2>4, <2>5, <2>6, <2>7, <2>8
<1>9. ASSUME TickDone PROVE DownloadInv'
  BY <1>9 DEF TickDone, netVars, mapVars, TypeOK, NeverQueuedTwice, RetriesAreCurrent,
              RequestsBounded, QueuedIsFresh, TodoInv
<1>10. ASSUME NEW h \in BlockHash, TimeOut(h) PROVE DownloadInv'
  BY <1>10 DEF TimeOut, netVars, TypeOK, NeverQueuedTwice, RetriesAreCurrent,
               RequestsBounded, QueuedIsFresh, TodoInv
<1>11. ASSUME UNCHANGED vars PROVE DownloadInv'
  BY <1>11 DEF vars, netVars, mapVars, TypeOK, NeverQueuedTwice, RetriesAreCurrent,
               RequestsBounded, QueuedIsFresh, TodoInv
<1> QED
  BY <1>1, <1>2, <1>3, <1>4, <1>5, <1>6, <1>7, <1>8, <1>9, <1>10, <1>11 DEF Next, Manager

LEMMA DownloadInvariant == Spec => []DownloadInv
BY InitInv, NextInv, PTL DEF Spec

-----------------------------------------------------------------------------
(* The theorems *)

\* Type correctness of the download maps.
THEOREM TypeCorrect == Spec => []TypeOK
BY DownloadInvariant, PTL DEF DownloadInv

\* No block is in the queue while it is being downloaded.
THEOREM QueuesDisjoint == Spec => []NeverQueuedTwice
BY DownloadInvariant, PTL DEF DownloadInv

\* The retry counts belong to the downloads in progress.
THEOREM CountsAreCurrent == Spec => []RetriesAreCurrent
BY DownloadInvariant, PTL DEF DownloadInv

\* One announcement costs at most MaxRetries requests.
THEOREM BoundedRequests == Spec => []RequestsBounded
BY DownloadInvariant, PTL DEF DownloadInv

\* A tick leaves no announced block behind.
THEOREM QueueEmptied == Spec => []TickEmptiesQueue
<1>1. DownloadInv => TickEmptiesQueue
  BY DEF DownloadInv, TodoInv, TickEmptiesQueue
<1> QED
  BY <1>1, DownloadInvariant, PTL

\* The download manager implements the policy.
THEOREM ManagerImplementsPolicy == Spec => ImplementsPolicy
<1> DEFINE stat == [h \in BlockHash |-> IF h \in downloadingBlocks THEN "asked"
                                        ELSE IF h \in blocksToDownload THEN "queued" ELSE "none"]
           att  == [h \in BlockHash |-> IF h \in downloadingBlocks THEN downloadRetries[h] + 1 ELSE 0]
<1>1. Init => Policy!Init
  BY DEF Init, Policy!Init
<1>2. DownloadInv /\ [Next]_vars => [Policy!Next]_Policy!policyVars
  <2> SUFFICES ASSUME DownloadInv, [Next]_vars PROVE [Policy!Next]_Policy!policyVars
    OBVIOUS
  <2> USE DownloaderAssumption DEF DownloadInv
  <2>1. ASSUME NEW items \in SUBSET BlockHash, Inv(items) PROVE Policy!Announce
    <3>1. /\ blocksToDownload' = blocksToDownload \cup (items \ downloadingBlocks)
          /\ UNCHANGED <<downloadingBlocks, downloadRetries>>
      BY <2>1 DEF Inv
    <3> DEFINE S == (items \ downloadingBlocks) \ blocksToDownload
    <3>2. S \in SUBSET {h \in BlockHash : stat[h] = "none"}
      OBVIOUS
    <3>3. stat' = [h \in BlockHash |-> IF h \in S THEN "queued" ELSE stat[h]]
      BY <3>1
    <3>4. att' = att
      BY <3>1
    <3> QED
      BY <3>2, <3>3, <3>4 DEF Policy!Announce
  <2>2. ASSUME NEW h \in BlockHash, Abandon(h) PROVE Policy!GiveUp(h)
    <3>1. h \in downloadingBlocks /\ downloadRetries[h] + 1 = MaxRetries
      BY <2>2 DEF Abandon, TodoInv, TypeOK
    <3>2. /\ blocksToDownload' = blocksToDownload \ {h}
          /\ downloadingBlocks' = downloadingBlocks \ {h}
          /\ \A k \in BlockHash \ {h} : downloadRetries'[k] = downloadRetries[k]
      BY <2>2 DEF Abandon, TypeOK
    <3>3. stat' = [stat EXCEPT ![h] = "none"]
      BY <3>2
    <3>4. att' = [att EXCEPT ![h] = 0]
      BY <3>2
    <3> QED
      BY <3>1, <3>3, <3>4 DEF Policy!GiveUp
  <2>3. ASSUME NEW h \in BlockHash, Retry(h) PROVE Policy!AskAgain(h)
    <3>1. h \in downloadingBlocks /\ downloadRetries[h] + 1 < MaxRetries
      BY <2>3 DEF Retry, TodoInv, TypeOK
    <3>2. /\ UNCHANGED <<blocksToDownload, downloadingBlocks>>
          /\ downloadRetries' = [downloadRetries EXCEPT ![h] = @ + 1]
      BY <2>3 DEF Retry
    <3>3. stat' = stat
      BY <3>2
    <3>4. att' = [att EXCEPT ![h] = @ + 1]
      BY <3>1, <3>2 DEF TypeOK
    <3> QED
      BY <3>1, <3>3, <3>4 DEF Policy!AskAgain
  <2>4. ASSUME NEW h \in BlockHash, Dispatch(h) PROVE Policy!Ask(h)
    <3>1. h \in blocksToDownload /\ h \notin downloadingBlocks /\ downloadRetries[h] = 0
      BY <2>4 DEF Dispatch, TodoInv, NeverQueuedTwice, RetriesAreCurrent
    <3>2. /\ downloadingBlocks' = downloadingBlocks \cup {h}
          /\ blocksToDownload' = blocksToDownload \ {h}
          /\ downloadRetries' = downloadRetries
      BY <2>4 DEF Dispatch
    <3>3. stat' = [stat EXCEPT ![h] = "asked"]
      BY <3>2
    <3>4. att'[h] = 1 /\ \A k \in BlockHash \ {h} : att'[k] = att[k]
      BY <3>1, <3>2
    <3>5. att' = [att EXCEPT ![h] = 1]
      BY <3>4
    <3> QED
      BY <3>1, <3>3, <3>5 DEF Policy!Ask
  <2>5. ASSUME UNCHANGED mapVars PROVE UNCHANGED <<stat, att>>
    BY <2>5 DEF mapVars
  <2>6. ASSUME NEW h \in BlockHash, TimeOut(h) PROVE UNCHANGED <<stat, att>>
    BY <2>6 DEF TimeOut
  <2>7. CASE \/ \E h \in BlockHash : Block(h)
             \/ \E node \in Node : Version(node) \/ SendFails(node)
             \/ Tick \/ TakeQueue \/ TickDone \/ UNCHANGED vars
    BY <2>5, <2>7 DEF Block, Version, SendFails, Tick, TakeQueue, TickDone, vars, Policy!policyVars
  <2> QED
    BY <2>1, <2>2, <2>3, <2>4, <2>6, <2>7 DEF Next, Manager, Policy!Next, Policy!policyVars
<1> QED
  BY <1>1, <1>2, DownloadInvariant, PTL DEF Spec, ImplementsPolicy, Policy!Spec
=============================================================================
