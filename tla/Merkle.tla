------------------------------- MODULE Merkle -------------------------------
(***************************************************************************)
(* NewMerkleTree: the transactions of a block are hashed into leaves, one  *)
(* copied if their number is odd, and joined in pairs level by level.      *)
(* Leaves and inner nodes are hashed alike.                                *)
(***************************************************************************)
EXTENDS Integers, SequencesExt

CONSTANT Sum256(_)  \* the SHA-256 of a byte string, itself a byte string

Leaf(datum) == Sum256(datum)

\* Fault: the right node is left out.
Join_LeftOnly(left, right) == Sum256(left \o left)

Join(left, right) == Sum256(left \o right)

\* The panic; no hash is empty.
OutOfRange == <<>>

\* An odd number of transactions is made even.
Padded(data) == IF Len(data) % 2 = 0 THEN data ELSE Append(data, Last(data))

\* v after n divisions.
Divided(v, base, n) ==
  LET left[k \in 0..n] == IF k = 0 THEN v ELSE left[k - 1] \div base
  IN  left[n]

\* The nodes joined in pairs k times.
Level(nodes, k) ==
  LET size == Len(nodes)
      level[j \in 0..k] ==
        IF j = 0 THEN nodes
        ELSE [i \in 1..Divided(size, 2, j) |-> Join(level[j - 1][2 * i - 1], level[j - 1][2 * i])]
  IN  level[k]

\* The first level of odd length: the root alone, or more nodes of which the last
\* has no neighbour.
Top(size) ==
  CHOOSE k \in 0..size : /\ Divided(size, 2, k) % 2 = 1
                         /\ \A j \in 0..(k - 1) : Divided(size, 2, j) % 2 = 0

\* Join level by level; without a neighbour the program panics.
JoinLevels(nodes) ==
  LET top == Top(Len(nodes))
  IN  IF Divided(Len(nodes), 2, top) = 1 THEN Level(nodes, top)[1] ELSE OutOfRange

LeavesOf(data) == [i \in DOMAIN data |-> Leaf(data[i])]

\* The root; no block has no transactions.
NewMerkleTree(data) == JoinLevels(LeavesOf(Padded(data)))

\* The pairs of hashes that are hashed on the way up.
Pairs(nodes) ==
  UNION {{Level(nodes, j)[2 * i - 1] \o Level(nodes, j)[2 * i] : i \in 1..Divided(Len(nodes), 2, j + 1)} :
            j \in 0..(Top(Len(nodes)) - 1)}

\* All the byte strings hashed for a root.
Hashed(data) == ToSet(Padded(data)) \cup Pairs(LeavesOf(Padded(data)))
=============================================================================
