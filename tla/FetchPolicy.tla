----------------------------- MODULE FetchPolicy -----------------------------
(***************************************************************************)
(* What the download manager promises for each announced block: it is      *)
(* asked for once, asked for again while no more than MaxRetries requests  *)
(* have been made, and only then given up.                                 *)
(***************************************************************************)
EXTENDS Integers

CONSTANTS BlockHash, MaxRetries

VARIABLES
  status,     \* "none", "queued" or "asked", for each block
  attempts    \* requests made since the block was queued

policyVars == <<status, attempts>>

Init == /\ status = [h \in BlockHash |-> "none"]
        /\ attempts = [h \in BlockHash |-> 0]

Announce == \E S \in SUBSET {h \in BlockHash : status[h] = "none"} :
              /\ status' = [h \in BlockHash |-> IF h \in S THEN "queued" ELSE status[h]]
              /\ UNCHANGED attempts

Ask(h) == /\ status[h] = "queued"
          /\ status' = [status EXCEPT ![h] = "asked"]
          /\ attempts' = [attempts EXCEPT ![h] = 1]

AskAgain(h) == /\ status[h] = "asked"
               /\ attempts[h] < MaxRetries
               /\ attempts' = [attempts EXCEPT ![h] = @ + 1]
               /\ UNCHANGED status

GiveUp(h) == /\ status[h] = "asked"
             /\ attempts[h] = MaxRetries
             /\ status' = [status EXCEPT ![h] = "none"]
             /\ attempts' = [attempts EXCEPT ![h] = 0]

Next == Announce \/ \E h \in BlockHash : Ask(h) \/ AskAgain(h) \/ GiveUp(h)

Spec == Init /\ [][Next]_policyVars
=============================================================================
