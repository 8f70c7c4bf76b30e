----------------------------- MODULE KnownNodes -----------------------------
(***************************************************************************)
(* The list of known nodes of one server, and the goroutines that change   *)
(* it.  handleVersion appends a sender twice over: the first append is     *)
(* without the lock, so it is three steps here, the load of the slice, and *)
(* the begin and end of its store; the second one runs under the lock.     *)
(* handleAddr appends under the lock and then ranges over the slice        *)
(* without it.  sendData takes an address it cannot dial off under the     *)
(* lock.                                                                   *)
(*                                                                         *)
(* A slice is three machine words.  Who reads it while an unlocked store   *)
(* is under way may see the old one, the new one, or a mixture, with which *)
(* the process may end; so may two stores leave one.                       *)
(***************************************************************************)
EXTENDS Integers, SequencesExt, Lists

CONSTANTS
  Node,      \* addresses
  Seed,      \* the list a server starts with
  Conn,      \* connections that bring a message, one each
  Versions,  \* senders of version messages
  AddrLists  \* contents of addr messages

ASSUME KnownNodesAssumption ==
  /\ Seed \in Node
  /\ Versions \subseteq Node
  /\ AddrLists \subseteq Seq(Node)

VARIABLES
  knownNodes,
  pc,        \* where the goroutine of each connection is
  sender,    \* the sender of the version message it handles
  slice,     \* the slice it has read
  crashed,   \* the process has ended
  expected,  \* history: the set the list would be if each change took effect at once
  raced      \* history: the list changed between a load and the end of its store

vars == <<knownNodes, pc, sender, slice, crashed, expected, raced>>

Init ==
  /\ knownNodes = <<Seed>>
  /\ pc = [c \in Conn |-> "idle"]
  /\ sender = [c \in Conn |-> Seed]
  /\ slice = [c \in Conn |-> <<>>]
  /\ crashed = FALSE
  /\ expected = {Seed}
  /\ raced = FALSE

Goto(c, label) == pc' = [pc EXCEPT ![c] = label]

Storing == {c \in Conn : pc[c] = "storing"}

\* The values that who reads the slice may see.
Seen == {knownNodes} \cup {Append(slice[c], sender[c]) : c \in Storing}

\* Some other goroutine has loaded the list and not stored it yet.
Pending(c) == \E d \in Conn \ {c} : pc[d] \in {"store", "storing"}

\* Fault: the new list is made with room for a blank first.
Without_Blank(list, n) == <<"">> \o KeepAt(list, {k \in DOMAIN list : list[k] # n})

Without(list, n) == KeepAt(list, {k \in DOMAIN list : list[k] # n})

Changes(c, list, set) ==
  /\ knownNodes' = list
  /\ expected' = set
  /\ raced' = (raced \/ Pending(c))

NoChange == UNCHANGED <<knownNodes, expected, raced>>

\* sendData: an address that does not answer is taken off the list.
SendData(c, n) ==
  \/ NoChange
  \/ \E list \in Seen : Changes(c, Without(list, n), expected \ {n})

-----------------------------------------------------------------------------
(* handleVersion *)

\* Unless the heights are equal the sender is dialled first.
Version(c, a) ==
  /\ pc[c] = "idle" /\ a \in Versions
  /\ SendData(c, a)
  /\ sender' = [sender EXCEPT ![c] = a]
  /\ Goto(c, "check")
  /\ UNCHANGED <<slice, crashed>>

\* nodeIsKnown
Check(c) ==
  /\ pc[c] = "check"
  /\ \E list \in Seen : Goto(c, IF Contains(list, sender[c]) THEN "checkAgain" ELSE "load")
  /\ UNCHANGED <<sender, slice, crashed>> /\ NoChange

Load(c) ==
  /\ pc[c] = "load"
  /\ \E list \in Seen : slice' = [slice EXCEPT ![c] = list]
  /\ Goto(c, "store")
  /\ raced' = (raced \/ Pending(c))
  /\ UNCHANGED <<knownNodes, sender, crashed, expected>>

StoreBegin(c) ==
  /\ pc[c] = "store"
  /\ Goto(c, "storing")
  /\ UNCHANGED <<sender, slice, crashed>> /\ NoChange

\* Fault: the store replaces the list.
StoreEnd_Replaces(c) ==
  /\ pc[c] = "storing"
  /\ Changes(c, <<sender[c]>>, expected \cup {sender[c]})
  /\ Goto(c, "checkAgain")
  /\ UNCHANGED <<sender, slice, crashed>>

StoreEnd(c) ==
  /\ pc[c] = "storing"
  /\ Changes(c, Append(slice[c], sender[c]), expected \cup {sender[c]})
  /\ Goto(c, "checkAgain")
  /\ UNCHANGED <<sender, slice, crashed>>

CheckAgain(c) ==
  /\ pc[c] = "checkAgain"
  /\ \E list \in Seen : Goto(c, IF Contains(list, sender[c]) THEN "done" ELSE "append")
  /\ UNCHANGED <<sender, slice, crashed>> /\ NoChange

\* The append under the lock.
LockedAppend(c) ==
  /\ pc[c] = "append"
  /\ \E list \in Seen : Changes(c, Append(list, sender[c]), expected \cup {sender[c]})
  /\ Goto(c, "done")
  /\ UNCHANGED <<sender, slice, crashed>>

-----------------------------------------------------------------------------
(* handleAddr *)

\* Append the list, then print its length.
Addr(c, list) ==
  /\ pc[c] = "idle" /\ list \in AddrLists
  /\ \E old \in Seen : Changes(c, old \o list, expected \cup ToSet(list))
  /\ Goto(c, "range")
  /\ UNCHANGED <<sender, slice, crashed>>

\* requestBlocks: the copy made under the lock is not used; the range reads the
\* slice again, without the lock.
RequestBlocks(c) ==
  /\ pc[c] = "range"
  /\ \E list \in Seen : slice' = [slice EXCEPT ![c] = list]
  /\ Goto(c, "asking")
  /\ UNCHANGED <<sender, crashed>> /\ NoChange

\* Ask the next node of the slice.
AskNext(c) ==
  /\ pc[c] = "asking" /\ slice[c] # <<>>
  /\ slice' = [slice EXCEPT ![c] = Tail(@)]
  /\ SendData(c, Head(slice[c]))
  /\ UNCHANGED <<pc, sender, crashed>>

AskDone(c) ==
  /\ pc[c] = "asking" /\ slice[c] = <<>>
  /\ Goto(c, "done")
  /\ UNCHANGED <<sender, slice, crashed>> /\ NoChange

-----------------------------------------------------------------------------
\* The next access of a goroutine to the list, and whether it holds the lock then.
Accesses(c) == pc[c] \in {"check", "load", "storing", "checkAgain", "append", "range", "asking"}
Writes(c)   == pc[c] \in {"storing", "append", "asking"}
Unlocked(c) == pc[c] \in {"load", "storing", "range"}

\* Two goroutines are at the list at once, one of them to write it and one of them
\* without the lock.
Torn(c, d) ==
  /\ c # d
  /\ Accesses(c) /\ Writes(d)
  /\ Unlocked(c) \/ Unlocked(d)
  /\ crashed' = TRUE
  /\ UNCHANGED <<pc, sender, slice>> /\ NoChange

Step(c) ==
  \/ Check(c) \/ Load(c) \/ StoreBegin(c) \/ StoreEnd(c)
  \/ CheckAgain(c) \/ LockedAppend(c)
  \/ RequestBlocks(c) \/ AskNext(c) \/ AskDone(c)

Next ==
  /\ ~crashed
  /\ \E c \in Conn : \/ \E a \in Versions : Version(c, a)
                     \/ \E list \in AddrLists : Addr(c, list)
                     \/ Step(c)
                     \/ \E d \in Conn : Torn(c, d)

Spec == Init /\ [][Next]_vars

-----------------------------------------------------------------------------
(* Properties *)

\* The shape of the state.
TypeOK ==
  /\ knownNodes \in Seq(Node)
  /\ pc \in [Conn -> {"idle", "check", "load", "store", "storing", "checkAgain",
                      "append", "range", "asking", "done"}]
  /\ sender \in [Conn -> Node]
  /\ slice \in [Conn -> Seq(Node)]
  /\ crashed \in BOOLEAN
  /\ expected \subseteq Node
  /\ raced \in BOOLEAN

\* As long as no change falls between a load and the end of its store, the list
\* holds the nodes it would hold if every change were one critical section.
UnracedAsExpected == ~raced => ToSet(knownNodes) = expected
=============================================================================
