------------------------------- MODULE MCCodec -------------------------------
(* Codec for TLC: five digits to a byte, three characters in the alphabet.     *)
EXTENDS Codec

OfKind(kind, vals) == {[kind |-> kind, val |-> v] : v \in vals}

\* Any function will do.
SumChecksum(payload) ==
  LET sum == FoldLeft(LAMBDA acc, digit : 3 * acc + digit + 1, 7, payload)
  IN  [i \in 1..ChecksumLen |-> (sum \div i) % ByteBase]

Strings(n, digits) == BoundedSeq(digits, n)

Spend(signature) == [txid |-> <<1, 2>>, vout |-> 6, signature |-> signature, pubKey |-> <<3>>]
Reward == [txid |-> <<>>, vout |-> 0, signature |-> <<>>, pubKey |-> <<4, 4>>]
Out(value) == [value |-> value, pubKeyHash |-> <<0, 4>>]

Txs(ins) == [id : {<<2, 0>>}, vin : Strings(2, ins), vout : Strings(2, {Out(3), Out(700)})]

Prize(value) == [id |-> <<0, 1>>, vin |-> <<Reward>>, vout |-> <<Out(value)>>]
Payment == [id |-> <<3, 0>>, vin |-> <<Spend(<<>>)>>, vout |-> <<>>]

\* Any function will do; with this one the hash of the payment is two zeros, and two
\* of the blocks have one root because hashes collide.
MixHash(bytes) ==
  LET mix[k \in 0..Len(bytes)] == IF k = 0 THEN 0 ELSE (31 * mix[k - 1] + 3 * bytes[k] + 1) % 101
      sum == mix[Len(bytes)]
  IN  <<(sum \div 5) % 5, sum % 5>>

\* A transaction without inputs and outputs is as long as two hashes: this one has the
\* bytes of the hashes of the reward and of the payment.
Twin == [id |-> Leaf(Serialize(Prize(3))), vin |-> <<>>, vout |-> <<>>]

\* What the twin, and the copy that pads it, look like.
Mimicked == <<Prize(3), Payment, Prize(3), Payment>>

\* One reward among payments.
LongBlocks == {[i \in 1..n |-> IF i = 3 THEN Prize(3) ELSE Payment] : n \in 4..8}

BlocksOf == (Strings(3, {Prize(3), Payment}) \ {<<>>}) \cup LongBlocks \cup {Mimicked, <<Twin>>}

\* Any predicate that some bytes satisfy will do.
SmallSum(bytes) == FoldLeft(+, 0, bytes) % 4 = 1

AllKinds ==
  OfKind("int", 0..700 \cup {390624}) \cup
  OfKind("bytes", {[i \in 1..n |-> i % ByteBase] : n \in 0..30}) \cup
  OfKind("tx", Txs({Spend(<<>>), Spend(<<1, 0, 4>>), Reward})) \cup
  OfKind("outs", Strings(6, {Out(3), Out(700)})) \cup
  OfKind("address", Strings(3, 0..4)) \cup
  OfKind("text", Strings(5, 0..2)) \cup
  OfKind("pair", (0..130) \X (0..130)) \cup
  OfKind("block", BlocksOf) \cup
  OfKind("header", [height : {0, 1}, prev : {<<>>, <<1, 0>>, <<0, 1>>}, root : {<<1, 1>>, <<0, 1>>},
                    timestamp : {0, 1, 5, 30}])

TwoRests == {<<>>, <<1, 0>>}
=============================================================================
