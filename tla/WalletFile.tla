----------------------------- MODULE WalletFile -----------------------------
(***************************************************************************)
(* The wallet file of one node and the processes that run createwallet:    *)
(* each loads the file, adds a new key and writes the whole set back.      *)
(* There is no lock, the write first cuts the file to length zero, and     *)
(* createwallet ignores the errors of both the load and the write: it goes *)
(* on with the keys it has, and prints the address.  An address counts as  *)
(* given out when the command has printed it.                              *)
(***************************************************************************)
EXTENDS FiniteSets, Naturals

CONSTANTS
  Proc,      \* processes, each runs one command after the other
  Key,       \* keys that may be generated
  NoKey,
  MaxFaults  \* bound on the processes killed, and the loads and writes that fail

ASSUME WalletFileAssumption == NoKey \notin Key /\ MaxFaults \in Nat

VARIABLES
  file,      \* "absent", "cut" (it cannot be decoded) or "whole"
  stored,    \* the keys in it
  pc,        \* where each process is
  wallets,   \* the set each process has in memory
  newKey,    \* the key it has made
  faults,    \* processes killed, loads and writes failed so far
  printed,   \* history: the addresses given out
  stale,     \* history: the processes whose set is not what the file had last
  overwritten, \* history: such a set was written
  damaged    \* history: a write did not get to its end

procVars == <<pc, wallets, newKey>>
histVars == <<printed, stale, overwritten, damaged>>
vars     == <<file, stored, procVars, faults, histVars>>

Init ==
  /\ file = "absent"
  /\ stored = {}
  /\ pc = [p \in Proc |-> "idle"]
  /\ wallets = [p \in Proc |-> {}]
  /\ newKey = [p \in Proc |-> NoKey]
  /\ faults = 0
  /\ printed = {}
  /\ stale = {}
  /\ overwritten = FALSE
  /\ damaged = FALSE

Goto(p, label) == pc' = [pc EXCEPT ![p] = label]

\* Keys are random, no two processes make the same one.
Fresh(k) == /\ k \notin stored \cup printed
            /\ \A p \in Proc : k # newKey[p] /\ k \notin wallets[p]

Writing == \E p \in Proc : pc[p] = "writing"

-----------------------------------------------------------------------------
\* NewWallets: without a file, or with one that was cut, the set stays empty.
LoadFromFile(p) ==
  /\ pc[p] = "idle"
  /\ wallets' = [wallets EXCEPT ![p] = IF file = "whole" THEN stored ELSE {}]
  /\ stale' = IF Writing THEN stale \cup {p} ELSE stale
  /\ Goto(p, "loaded")
  /\ UNCHANGED <<file, stored, newKey, faults, printed, overwritten, damaged>>

\* A whole file that cannot be read leaves the set empty, a key in it that cannot
\* be parsed ends the loop over them; nobody looks at the error.
LoadFails(p) ==
  /\ pc[p] = "idle" /\ file = "whole"
  /\ faults < MaxFaults
  /\ faults' = faults + 1
  /\ \E some \in SUBSET stored \ {stored} : wallets' = [wallets EXCEPT ![p] = some]
  /\ stale' = stale \cup {p}
  /\ Goto(p, "loaded")
  /\ UNCHANGED <<file, stored, newKey, printed, overwritten, damaged>>

\* Fault: the new address is not handed to the command.
CreateWallet_NoAddress(p, k) ==
  /\ pc[p] = "loaded" /\ Fresh(k)
  /\ wallets' = [wallets EXCEPT ![p] = @ \cup {k}]
  /\ Goto(p, "created")
  /\ UNCHANGED <<file, stored, newKey, faults, histVars>>

\* Fault: the set is made anew.
CreateWallet_Alone(p, k) ==
  /\ pc[p] = "loaded" /\ Fresh(k)
  /\ wallets' = [wallets EXCEPT ![p] = {k}]
  /\ newKey' = [newKey EXCEPT ![p] = k]
  /\ Goto(p, "created")
  /\ UNCHANGED <<file, stored, faults, histVars>>

CreateWallet(p, k) ==
  /\ pc[p] = "loaded" /\ Fresh(k)
  /\ wallets' = [wallets EXCEPT ![p] = @ \cup {k}]
  /\ newKey' = [newKey EXCEPT ![p] = k]
  /\ Goto(p, "created")
  /\ UNCHANGED <<file, stored, faults, histVars>>

\* os.WriteFile opens the file and cuts it.  What others have loaded is stale then.
Truncate(p) ==
  /\ pc[p] = "created"
  /\ file' = "cut"
  /\ stored' = {}
  /\ stale' = stale \cup {q \in Proc \ {p} : pc[q] \in {"loaded", "created"}}
  /\ overwritten' = (overwritten \/ p \in stale)
  /\ Goto(p, "writing")
  /\ UNCHANGED <<wallets, newKey, faults, printed, damaged>>

\* os.WriteFile writes the content from the start of the file.  What a longer one
\* of another process leaves behind it is not decoded.
Write(p) ==
  /\ pc[p] = "writing"
  /\ file' = "whole"
  /\ stored' = wallets[p]
  /\ Goto(p, "saved")
  /\ UNCHANGED <<wallets, newKey, faults, histVars>>

\* The file cannot be opened, or the disk is full.
WriteFails(p) ==
  /\ pc[p] \in {"created", "writing"}
  /\ faults < MaxFaults
  /\ faults' = faults + 1
  /\ damaged' = TRUE
  /\ Goto(p, "saved")
  /\ UNCHANGED <<file, stored, wallets, newKey, printed, stale, overwritten>>

Quits(p) ==
  /\ Goto(p, "idle")
  /\ wallets' = [wallets EXCEPT ![p] = {}]
  /\ newKey' = [newKey EXCEPT ![p] = NoKey]
  /\ stale' = stale \ {p}

\* The address is printed, whether it was saved or not.
PrintAddress(p) ==
  /\ pc[p] = "saved"
  /\ printed' = printed \cup {newKey[p]}
  /\ Quits(p)
  /\ UNCHANGED <<file, stored, faults, overwritten, damaged>>

\* Interrupted or killed, out of power.
Killed(p) ==
  /\ pc[p] # "idle"
  /\ faults < MaxFaults
  /\ faults' = faults + 1
  /\ damaged' = (damaged \/ pc[p] = "writing")
  /\ Quits(p)
  /\ UNCHANGED <<file, stored, printed, overwritten>>

Next ==
  \E p \in Proc :
    \/ LoadFromFile(p) \/ LoadFails(p)
    \/ \E k \in Key : CreateWallet(p, k)
    \/ Truncate(p) \/ Write(p) \/ WriteFails(p)
    \/ PrintAddress(p) \/ Killed(p)

Spec == Init /\ [][Next]_vars

-----------------------------------------------------------------------------
(* Properties *)

\* The shape of the state.
TypeOK ==
  /\ file \in {"absent", "cut", "whole"}
  /\ stored \subseteq Key
  /\ pc \in [Proc -> {"idle", "loaded", "created", "writing", "saved"}]
  /\ wallets \in [Proc -> SUBSET Key]
  /\ newKey \in [Proc -> Key \cup {NoKey}]
  /\ faults \in 0..MaxFaults
  /\ printed \subseteq Key
  /\ stale \subseteq Proc
  /\ overwritten \in BOOLEAN
  /\ damaged \in BOOLEAN

\* No address that was given out loses its key, as seen between writes.
PrintedIsStored == Writing \/ printed \subseteq stored

\* However commands overlap, are killed and fail to load: as long as every set that
\* was written was loaded from the file as it was then, and every write got to its
\* end, each address given out has its key in the file.
FreshWritesKeepKeys == ~overwritten /\ ~damaged => PrintedIsStored
=============================================================================
