------------------------------- MODULE Lists -------------------------------
(***************************************************************************)
(* The two loops that the ledger and the list of known nodes are made of:  *)
(* adding numbers up, and copying the elements of a list that pass a test. *)
(* The community modules have both, with an operator for the number or the *)
(* test as a parameter; here it is a function or a set of positions, over  *)
(* which the lemmas of LedgerProofs can quantify.                          *)
(***************************************************************************)
EXTENDS Integers, Sequences, FiniteSets

\* The sum of the values of f, a function with a finite domain or a sequence.
SumOf(f) ==
  LET sum[S \in SUBSET DOMAIN f] ==
        IF S = {} THEN 0
        ELSE LET one == CHOOSE x \in S : TRUE IN f[one] + sum[S \ {one}]
  IN  sum[DOMAIN f]

\* The elements of s at the positions in I, in their order.
KeepAt(s, I) ==
  LET kept[n \in 0..Len(s)] ==
        IF n = 0 THEN <<>>
        ELSE IF n \in I THEN Append(kept[n - 1], s[n]) ELSE kept[n - 1]
  IN  kept[Len(s)]
=============================================================================
