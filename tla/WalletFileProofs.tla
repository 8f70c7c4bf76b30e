-------------------------- MODULE WalletFileProofs ---------------------------
(***************************************************************************)
(* Theorems about WalletFile, for every set of processes and keys and any  *)
(* number of faults.                                                       *)
(***************************************************************************)
EXTENDS WalletFile, TLAPS

\* A command that has passed the creation of its key holds it.
HoldsKey == \A p \in Proc : pc[p] \in {"created", "writing", "saved"} => newKey[p] \in Key

\* While one command writes, what the others have loaded is stale.
Alone ==
  \A p \in Proc : pc[p] = "writing" =>
    \A q \in Proc \ {p} : pc[q] # "writing" /\ (pc[q] \in {"loaded", "created"} => q \in stale)

\* A set that is not stale is what the file has, with the new key.
Carries ==
  \A p \in Proc \ stale :
    /\ pc[p] = "loaded" => wallets[p] = stored
    /\ pc[p] = "created" => wallets[p] = stored \cup {newKey[p]}

\* Nothing that was printed is missing from a set, nor what is about to be.
Complete(keys) ==
  /\ printed \subseteq keys
  /\ \A p \in Proc : pc[p] = "saved" => newKey[p] \in keys

\* What is being written is complete, and between writes the file is; it is whole
\* then, or was never made.
FileKept ==
  /\ \A p \in Proc : pc[p] = "writing" => Complete(wallets[p]) /\ newKey[p] \in wallets[p]
  /\ ~Writing => Complete(stored) /\ (file = "whole" \/ (file = "absent" /\ stored = {}))

Orderly == Alone /\ Carries /\ FileKept

Clean == ~overwritten /\ ~damaged => Orderly

WalletInv == TypeOK /\ HoldsKey /\ Clean

LEMMA InitInv == Init => WalletInv
<1> SUFFICES ASSUME Init
             PROVE  WalletInv
  OBVIOUS
<1>1. TypeOK
  <2>1. overwritten \in BOOLEAN /\ damaged \in BOOLEAN
    BY Zenon DEF Init
  <2> QED
    BY <2>1, WalletFileAssumption DEF Init, TypeOK
<1>2. HoldsKey /\ Orderly
  BY DEF Init, HoldsKey, Orderly, Alone, Carries, FileKept, Complete
<1> QED
  BY <1>1, <1>2 DEF WalletInv, Clean

-----------------------------------------------------------------------------
(* The shape of the state *)

LEMMA ShapeKept ==
  ASSUME TypeOK, HoldsKey, [Next]_vars
  PROVE  TypeOK' /\ HoldsKey'
<1> USE WalletFileAssumption DEF Goto
<1>0. ASSUME NEW p \in Proc, LoadFails(p)
      PROVE  TypeOK' /\ HoldsKey'
  BY <1>0 DEF LoadFails, TypeOK, HoldsKey
<1>1. ASSUME NEW p \in Proc, LoadFromFile(p)
      PROVE  TypeOK' /\ HoldsKey'
  BY <1>1 DEF LoadFromFile, TypeOK, HoldsKey
<1>2. ASSUME NEW p \in Proc, NEW k \in Key, CreateWallet(p, k)
      PROVE  TypeOK' /\ HoldsKey'
  BY <1>2 DEF CreateWallet, histVars, TypeOK, HoldsKey
<1>3. ASSUME NEW p \in Proc, Truncate(p)
      PROVE  TypeOK' /\ HoldsKey'
  <2>1. overwritten' \in BOOLEAN
    BY <1>3 DEF Truncate, TypeOK
  <2> QED
    BY <1>3, <2>1 DEF Truncate, TypeOK, HoldsKey
<1>4. ASSUME NEW p \in Proc, Write(p)
      PROVE  TypeOK' /\ HoldsKey'
  BY <1>4 DEF Write, histVars, TypeOK, HoldsKey
<1>5. ASSUME NEW p \in Proc, WriteFails(p)
      PROVE  TypeOK' /\ HoldsKey'
  BY <1>5 DEF WriteFails, TypeOK, HoldsKey
<1>6. ASSUME NEW p \in Proc, PrintAddress(p)
      PROVE  TypeOK' /\ HoldsKey'
  <2>1. newKey[p] \in Key
    BY <1>6 DEF PrintAddress, HoldsKey
  <2> QED
    BY <1>6, <2>1 DEF PrintAddress, Quits, TypeOK, HoldsKey
<1>7. ASSUME NEW p \in Proc, Killed(p)
      PROVE  TypeOK' /\ HoldsKey'
  <2>1. damaged' \in BOOLEAN
    BY <1>7 DEF Killed, TypeOK
  <2> QED
    BY <1>7, <2>1 DEF Killed, Quits, TypeOK, HoldsKey
<1>8. CASE UNCHANGED vars
  BY <1>8 DEF vars, procVars, histVars, TypeOK, HoldsKey
<1> QED
  BY <1>0, <1>1, <1>2, <1>3, <1>4, <1>5, <1>6, <1>7, <1>8 DEF Next

-----------------------------------------------------------------------------
(* The steps as long as no stale set was written and no write cut short *)

LEMMA LoadOrderly ==
  ASSUME TypeOK, Orderly, NEW p \in Proc, LoadFromFile(p) \/ LoadFails(p)
  PROVE  Orderly'
<1>1. /\ pc[p] = "idle"
      /\ pc' = [pc EXCEPT ![p] = "loaded"]
      /\ UNCHANGED <<file, stored, newKey, printed>>
  BY DEF LoadFromFile, LoadFails, Goto
<1>2. pc'[p] = "loaded" /\ \A q \in Proc \ {p} : pc'[q] = pc[q] /\ wallets'[q] = wallets[q]
  BY <1>1 DEF LoadFromFile, LoadFails, TypeOK
<1>3. stale \subseteq stale' /\ (Writing => p \in stale')
  BY DEF LoadFromFile, LoadFails
<1>4. p \notin stale' => wallets'[p] = stored
  <2> SUFFICES ASSUME p \notin stale' PROVE wallets'[p] = stored
    OBVIOUS
  <2>1. LoadFromFile(p) /\ ~Writing
    BY <1>3 DEF LoadFails
  <2> QED
    BY <2>1 DEF LoadFromFile, Orderly, FileKept, TypeOK
<1>5. Alone'
  BY <1>2, <1>3 DEF Orderly, Alone, Writing
<1>6. Carries'
  BY <1>1, <1>2, <1>3, <1>4 DEF Orderly, Carries
<1>7. FileKept'
  BY <1>1, <1>2 DEF Orderly, FileKept, Complete, Writing
<1> QED
  BY <1>5, <1>6, <1>7 DEF Orderly

LEMMA CreateOrderly ==
  ASSUME TypeOK, Orderly, NEW p \in Proc, NEW k \in Key, CreateWallet(p, k)
  PROVE  Orderly'
<1>1. /\ pc[p] = "loaded"
      /\ pc' = [pc EXCEPT ![p] = "created"]
      /\ wallets' = [wallets EXCEPT ![p] = @ \cup {k}]
      /\ newKey' = [newKey EXCEPT ![p] = k]
      /\ UNCHANGED <<file, stored, printed, stale>>
  BY DEF CreateWallet, Goto, histVars
<1>2. /\ pc'[p] = "created" /\ newKey'[p] = k /\ wallets'[p] = wallets[p] \cup {k}
      /\ \A q \in Proc \ {p} : pc'[q] = pc[q] /\ wallets'[q] = wallets[q] /\ newKey'[q] = newKey[q]
  BY <1>1 DEF TypeOK
<1>3. Alone' /\ Carries'
  BY <1>1, <1>2 DEF Orderly, Alone, Carries
<1>4. FileKept'
  BY <1>1, <1>2 DEF Orderly, FileKept, Complete, Writing
<1> QED
  BY <1>3, <1>4 DEF Orderly

LEMMA TruncateOrderly ==
  ASSUME TypeOK, Orderly, NEW p \in Proc, p \notin stale, Truncate(p)
  PROVE  Orderly'
<1>1. /\ pc[p] = "created"
      /\ pc' = [pc EXCEPT ![p] = "writing"]
      /\ stale' = stale \cup {q \in Proc \ {p} : pc[q] \in {"loaded", "created"}}
      /\ UNCHANGED <<wallets, newKey, printed>>
  BY DEF Truncate, Goto
<1>2. pc'[p] = "writing" /\ \A q \in Proc \ {p} : pc'[q] = pc[q]
  BY <1>1 DEF TypeOK
<1>3. ~Writing
  BY <1>1 DEF Orderly, Alone, Writing
<1>4. wallets[p] = stored \cup {newKey[p]}
  BY <1>1 DEF Orderly, Carries
<1>5. Alone' /\ Carries'
  BY <1>1, <1>2, <1>3 DEF Alone, Carries, Writing
<1>6. Complete(stored)
  BY <1>3 DEF Orderly, FileKept
<1>7. FileKept'
  BY <1>1, <1>2, <1>3, <1>4, <1>6 DEF FileKept, Complete, Writing
<1> QED
  BY <1>5, <1>7 DEF Orderly

LEMMA WriteOrderly ==
  ASSUME TypeOK, Orderly, NEW p \in Proc, Write(p)
  PROVE  Orderly'
<1>1. /\ pc[p] = "writing"
      /\ pc' = [pc EXCEPT ![p] = "saved"]
      /\ file' = "whole" /\ stored' = wallets[p]
      /\ UNCHANGED <<wallets, newKey, printed, stale>>
  BY DEF Write, Goto, histVars
<1>2. pc'[p] = "saved" /\ \A q \in Proc \ {p} : pc'[q] = pc[q] /\ pc[q] # "writing"
  BY <1>1 DEF Orderly, Alone, TypeOK
<1>3. Complete(wallets[p]) /\ newKey[p] \in wallets[p]
  BY <1>1 DEF Orderly, FileKept
<1>4. \A q \in Proc \ {p} : pc[q] \in {"loaded", "created"} => q \in stale
  BY <1>1 DEF Orderly, Alone
<1>5. Alone' /\ Carries'
  BY <1>1, <1>2, <1>4 DEF Alone, Carries
<1>6. FileKept'
  BY <1>1, <1>2, <1>3 DEF FileKept, Complete, Writing
<1> QED
  BY <1>5, <1>6 DEF Orderly

\* The command ends, after printing its address or killed between writes.
LEMMA QuitOrderly ==
  ASSUME TypeOK, Orderly, NEW p \in Proc, pc[p] # "writing",
         Quits(p), UNCHANGED <<file, stored>>,
         printed' = printed \/ (pc[p] = "saved" /\ printed' = printed \cup {newKey[p]})
  PROVE  Orderly'
<1>1. /\ pc' = [pc EXCEPT ![p] = "idle"]
      /\ wallets' = [wallets EXCEPT ![p] = {}]
      /\ newKey' = [newKey EXCEPT ![p] = NoKey]
      /\ stale' = stale \ {p}
  BY DEF Quits, Goto
<1>2. /\ pc'[p] = "idle"
      /\ \A q \in Proc \ {p} : pc'[q] = pc[q] /\ wallets'[q] = wallets[q] /\ newKey'[q] = newKey[q]
  BY <1>1 DEF TypeOK
<1>3. Alone' /\ Carries'
  BY <1>1, <1>2 DEF Orderly, Alone, Carries
<1>4. \A keys : Complete(keys) => Complete(keys)'
  BY <1>2 DEF Complete
<1>5. Writing' <=> Writing
  BY <1>2 DEF Writing
<1>6. FileKept'
  BY <1>2, <1>4, <1>5 DEF Orderly, FileKept, Complete
<1> QED
  BY <1>3, <1>6 DEF Orderly

-----------------------------------------------------------------------------
(* Every step *)

LEMMA NextInv == WalletInv /\ [Next]_vars => WalletInv'
<1> SUFFICES ASSUME WalletInv, [Next]_vars, ~overwritten', ~damaged'
             PROVE  Orderly'
  BY ShapeKept DEF WalletInv, Clean
<1>0. TypeOK /\ Clean
  BY DEF WalletInv
<1>1. ASSUME NEW p \in Proc, LoadFromFile(p) \/ LoadFails(p)
      PROVE  Orderly'
  <2>1. ~overwritten /\ ~damaged
    BY <1>1 DEF LoadFromFile, LoadFails
  <2> QED
    BY <1>0, <1>1, <2>1, LoadOrderly DEF Clean
<1>2. ASSUME NEW p \in Proc, NEW k \in Key, CreateWallet(p, k)
      PROVE  Orderly'
  <2>1. ~overwritten /\ ~damaged
    BY <1>2 DEF CreateWallet, histVars
  <2> QED
    BY <1>0, <1>2, <2>1, CreateOrderly DEF Clean
<1>3. ASSUME NEW p \in Proc, Truncate(p)
      PROVE  Orderly'
  <2>1. ~overwritten /\ ~damaged /\ p \notin stale
    BY <1>3 DEF Truncate
  <2> QED
    BY <1>0, <1>3, <2>1, TruncateOrderly DEF Clean
<1>4. ASSUME NEW p \in Proc, Write(p)
      PROVE  Orderly'
  <2>1. ~overwritten /\ ~damaged
    BY <1>4 DEF Write, histVars
  <2> QED
    BY <1>0, <1>4, <2>1, WriteOrderly DEF Clean
<1>5. ASSUME NEW p \in Proc, WriteFails(p)
      PROVE  Orderly'
  BY <1>5 DEF WriteFails
<1>6. ASSUME NEW p \in Proc, PrintAddress(p)
      PROVE  Orderly'
  <2>1. ~overwritten /\ ~damaged
    BY <1>6 DEF PrintAddress
  <2>2. /\ pc[p] = "saved" /\ printed' = printed \cup {newKey[p]}
        /\ Quits(p) /\ UNCHANGED <<file, stored>>
    BY <1>6 DEF PrintAddress
  <2> QED
    BY <1>0, <2>1, <2>2, QuitOrderly DEF Clean
<1>7. ASSUME NEW p \in Proc, Killed(p)
      PROVE  Orderly'
  <2>1. ~overwritten /\ ~damaged /\ pc[p] # "writing"
    BY <1>7 DEF Killed
  <2>2. /\ pc[p] # "idle" /\ printed' = printed
        /\ Quits(p) /\ UNCHANGED <<file, stored>>
    BY <1>7 DEF Killed
  <2> QED
    BY <1>0, <2>1, <2>2, QuitOrderly DEF Clean
<1>8. CASE UNCHANGED vars
  <2>1. ~overwritten /\ ~damaged
    BY <1>8 DEF vars, histVars
  <2>2. Orderly
    BY <1>0, <2>1 DEF Clean
  <2> QED
    BY <1>8, <2>2
       DEF vars, procVars, histVars, Orderly, Alone, Carries, FileKept, Complete, Writing
<1> QED
  BY <1>1, <1>2, <1>3, <1>4, <1>5, <1>6, <1>7, <1>8 DEF Next

LEMMA WalletInvHolds == Spec => []WalletInv
BY InitInv, NextInv, PTL DEF Spec

-----------------------------------------------------------------------------
(* The theorems *)

\* The state of the wallet file and of its commands keeps its shape.
THEOREM TypeCorrect == Spec => []TypeOK
<1>1. WalletInv => TypeOK
  BY DEF WalletInv
<1> QED
  BY <1>1, WalletInvHolds, PTL

\* However many commands overlap, are killed and fail to load: while only sets that
\* were the file's own when they were written have been written, and to the end,
\* every address given out by createwallet has its key in the file.
THEOREM KeysAreKept == Spec => []FreshWritesKeepKeys
<1>1. WalletInv => FreshWritesKeepKeys
  BY DEF WalletInv, Clean, Orderly, FileKept, Complete, FreshWritesKeepKeys, PrintedIsStored
<1> QED
  BY <1>1, WalletInvHolds, PTL
=============================================================================
