-------------------------------- MODULE Codec --------------------------------
(***************************************************************************)
(* The encodings: variable-length integers and byte strings, transactions, *)
(* the root over those of a block, the header a proof of work is made of,  *)
(* addresses in base 58, and the pairs of numbers that make a signature or *)
(* a public key.  Byte strings are sequences of digits below ByteBase; a   *)
(* smaller base than 256 brings every width of an integer within reach of  *)
(* bounded inputs, the thresholds move with it.                            *)
(*                                                                         *)
(* A behaviour writes one item and reads it back; what follows it in the   *)
(* stream stays unread.                                                    *)
(***************************************************************************)
EXTENDS Merkle

CONSTANTS
  ByteBase,     \* 256 in the code
  AlphabetSize, \* 58 in the code
  IdLen,        \* length of a transaction id, 32 in the code
  ChecksumLen,  \* 4 in the code
  Checksum(_),  \* the first bytes of a double SHA-256
  TargetBits,   \* 16 in the code
  BelowTarget(_), \* the SHA-256 of these bytes is below 2^(256 - TargetBits)
  MaxNonce,     \* maxNonce, 2^64 - 1 in the code
  Items,        \* what is written: records [kind, val]
  Rests         \* what may follow in the stream

VARIABLES
  item,   \* what is written
  rest,   \* what follows it
  stage,  \* "given", "written", "read"
  data,   \* the bytes written
  back    \* what the reader made of them

vars == <<item, rest, stage, data, back>>

-----------------------------------------------------------------------------
(* Numbers *)

\* The last width digits of v, most significant first.
Fixed(v, width) == [i \in 1..width |-> Divided(v, ByteBase, width - i) % ByteBase]

\* v takes no more than so many bytes.
Fits(v, width) == Divided(v, ByteBase, width) = 0

\* big.Int.SetBytes, and the loop of Base58Decode.
Number(digits, base) ==
  LET sum[k \in 0..Len(digits)] == IF k = 0 THEN 0 ELSE sum[k - 1] * base + digits[k]
  IN  sum[Len(digits)]

\* big.Int.Bytes, and the loop of Base58Encode: the digits without leading zeros,
\* none for zero.
Digits(v, base) ==
  LET length == CHOOSE n \in 0..v : /\ Divided(v, base, n) = 0
                                    /\ \A k \in 0..(n - 1) : Divided(v, base, k) # 0
  IN  [i \in 1..length |-> Divided(v, base, length - i) % base]

-----------------------------------------------------------------------------
(* What is written *)

Byte == 0..(ByteBase - 1)

\* uint64
Word == {v \in Nat : Fits(v, 8)}

\* Lists and byte strings that memory can hold.
ListOf(S) == {l \in Seq(S) : Len(l) \in Word}

Id == {s \in Seq(Byte) : Len(s) = IdLen}

\* The id is missing in a coinbase, and before the genesis block.
IdOrNone == {s \in Seq(Byte) : Len(s) \in {0, IdLen}}

TxInput == [txid : IdOrNone, vout : Word, signature : ListOf(Byte), pubKey : ListOf(Byte)]

TxOutput == [value : Word, pubKeyHash : ListOf(Byte)]

Transaction == [id : Id, vin : ListOf(TxInput), vout : ListOf(TxOutput)]

Header == [height : Word, prev : IdOrNone, root : Id, timestamp : Word]

Item ==
  [kind : {"int"}, val : Word] \cup
  [kind : {"bytes"}, val : ListOf(Byte)] \cup
  [kind : {"tx"}, val : Transaction] \cup
  [kind : {"outs"}, val : ListOf(TxOutput)] \cup
  [kind : {"address"}, val : {h \in Seq(Byte) : Checksum(<<0>> \o h) \in [1..ChecksumLen -> Byte]}] \cup
  [kind : {"text"}, val : Seq(0..(AlphabetSize - 1))] \cup
  [kind : {"pair"}, val : Nat \X Nat] \cup
  [kind : {"block"}, val : Seq(Transaction) \ {<<>>}] \cup
  [kind : {"header"}, val : Header]

ASSUME CodecAssumption ==
  /\ ByteBase \in Nat /\ ByteBase > 3
  /\ AlphabetSize \in 2..ByteBase
  /\ {IdLen, ChecksumLen} \subseteq Nat \ {0}
  /\ {TargetBits, MaxNonce} \subseteq Word
  /\ Items \subseteq Item
  /\ Rests \subseteq Seq(Byte)

-----------------------------------------------------------------------------
(* Reading from a stream: what was read and what is left, or an error *)

Error == [ok |-> FALSE, val |-> <<>>, left |-> <<>>]
Read(v, left) == [ok |-> TRUE, val |-> v, left |-> left]

\* binary.Write and binary.Read.
LittleEndian(v, width) == Reverse(Fixed(v, width))

ReadBytes(s, n) == IF Len(s) < n THEN Error ELSE Read(SubSeq(s, 1, n), SubSeq(s, n + 1, Len(s)))

ReadFixed(s, width) ==
  LET r == ReadBytes(s, width)
  IN  IF ~r.ok THEN Error
      ELSE Read(Number(Reverse(r.val), ByteBase), r.left)

\* Fault: the first threshold is one too high.
WriteVarInt_OffByOne(val) ==
  IF val <= ByteBase - 3 THEN <<val>>
  ELSE IF Fits(val, 2) THEN <<ByteBase - 3>> \o LittleEndian(val, 2)
  ELSE IF Fits(val, 4) THEN <<ByteBase - 2>> \o LittleEndian(val, 4)
  ELSE <<ByteBase - 1>> \o LittleEndian(val, 8)

\* The last three bytes announce two, four or eight more.
WriteVarInt(val) ==
  IF val < ByteBase - 3 THEN <<val>>
  ELSE IF Fits(val, 2) THEN <<ByteBase - 3>> \o LittleEndian(val, 2)
  ELSE IF Fits(val, 4) THEN <<ByteBase - 2>> \o LittleEndian(val, 4)
  ELSE <<ByteBase - 1>> \o LittleEndian(val, 8)

ReadVarInt(s) ==
  IF s = <<>> THEN Error
  ELSE IF Head(s) < ByteBase - 3 THEN Read(Head(s), Tail(s))
  ELSE ReadFixed(Tail(s), <<2, 4, 8>>[Head(s) + 4 - ByteBase])

WriteVarBytes(bytes) == WriteVarInt(Len(bytes)) \o bytes

ReadVarBytes(s) ==
  LET length == ReadVarInt(s)
  IN  IF length.ok THEN ReadBytes(length.left, length.val) ELSE Error

-----------------------------------------------------------------------------
(* Transactions *)

\* An input with an id of another length is left out.
SerializeInput(in) ==
  IF Len(in.txid) # IdLen THEN <<>>
  ELSE in.txid \o LittleEndian(in.vout, 8) \o WriteVarBytes(in.signature) \o WriteVarBytes(in.pubKey)

SerializeOutput(out) == LittleEndian(out.value, 8) \o WriteVarBytes(out.pubKeyHash)

\* A count and the elements.
WriteList(parts) == WriteVarInt(Len(parts)) \o FlattenSeq(parts)

\* An entry of the chainstate.
SerializeOutputs(outs) == WriteList([i \in DOMAIN outs |-> SerializeOutput(outs[i])])

Serialize(tx) ==
  LET id == IF Len(tx.id) = IdLen THEN tx.id
            ELSE [i \in 1..IdLen |-> IF i <= Len(tx.id) THEN tx.id[i] ELSE 0]
  IN  id \o WriteList([i \in DOMAIN tx.vin |-> SerializeInput(tx.vin[i])]) \o SerializeOutputs(tx.vout)

DeserializeTxInput(s) ==
  LET txid == ReadBytes(s, IdLen)
      vout == ReadFixed(txid.left, 8)
      signature == ReadVarBytes(vout.left)
      pubKey == ReadVarBytes(signature.left)
  IN  IF ~(txid.ok /\ vout.ok /\ signature.ok /\ pubKey.ok) THEN Error
      ELSE Read([txid |-> txid.val, vout |-> vout.val,
                 signature |-> signature.val, pubKey |-> pubKey.val], pubKey.left)

DeserializeTxOutput(s) ==
  LET value == ReadFixed(s, 8)
      pubKeyHash == ReadVarBytes(value.left)
  IN  IF ~(value.ok /\ pubKeyHash.ok) THEN Error
      ELSE Read([value |-> value.val, pubKeyHash |-> pubKeyHash.val], pubKeyHash.left)

\* Read so many elements.
ReadMany(s, ReadOne(_), count) ==
  LET acc[k \in 0..count] ==
        IF k = 0 THEN Read(<<>>, s)
        ELSE LET so == acc[k - 1]
                 r == ReadOne(so.left)
             IN  IF so.ok /\ r.ok THEN Read(Append(so.val, r.val), r.left) ELSE Error
  IN  acc[count]

\* Read a count and as many elements.
ReadList(s, ReadOne(_)) ==
  LET count == ReadVarInt(s)
  IN  IF count.ok THEN ReadMany(count.left, ReadOne, count.val) ELSE Error

\* Panics on an error.
DeserializeOutputs(s) == ReadList(s, DeserializeTxOutput)

DeserializeTransaction(s) ==
  LET id == ReadBytes(s, IdLen)
      vin == ReadList(id.left, DeserializeTxInput)
      vout == ReadList(vin.left, DeserializeTxOutput)
  IN  IF ~(id.ok /\ vin.ok /\ vout.ok) THEN Error
      ELSE Read([id |-> id.val, vin |-> vin.val, vout |-> vout.val], vout.left)

-----------------------------------------------------------------------------
(* Blocks *)

Serialized(txs) == [i \in DOMAIN txs |-> Serialize(txs[i])]

HashTransactions(txs) == NewMerkleTree(Serialized(txs))

\* A hash is as long as an id, which is one.
ASSUME HashAssumption ==
  \A i \in Items : i.kind = "block" => \A s \in Hashed(Serialized(i.val)) : Sum256(s) \in Id

\* Fault: leading zeros are left out.
IntToHex_Short(num) == SelectSeq(Fixed(num, 8), LAMBDA digit : digit # 0)

\* Big endian.
IntToHex(num) == Fixed(num, 8)

\* The part of the header that stays; the genesis block has no previous hash.
PreparedPrefix(block) ==
  block.prev \o block.root \o IntToHex(block.timestamp) \o IntToHex(TargetBits)

PrepareData(block, nonce) == PreparedPrefix(block) \o IntToHex(nonce)

\* The first nonce whose hash is small enough; the last one if there is none.
Run(block) == Min({n \in 0..(MaxNonce - 1) : BelowTarget(PrepareData(block, n))} \cup {MaxNonce})

Validate(block, nonce) == BelowTarget(PrepareData(block, nonce))

-----------------------------------------------------------------------------
(* Addresses and pairs of numbers *)

LeadingZeros(s) ==
  CHOOSE n \in 0..Len(s) : (\A i \in 1..n : s[i] = 0) /\ (n < Len(s) => s[n + 1] # 0)

Zeros(n) == [i \in 1..n |-> 0]

\* Fault: leading zeros are not kept.
Base58Encode_NoZeros(input) == Digits(Number(input, ByteBase), AlphabetSize)

\* The digits of the number, most significant first, after a zero digit for every
\* leading zero byte; a digit stands for a character.
Base58Encode(input) ==
  Zeros(LeadingZeros(input)) \o Digits(Number(input, ByteBase), AlphabetSize)

\* Fault: leading zeros are not counted.
Base58Decode_NoZeros(input) ==
  IF input = <<>> THEN Error
  ELSE Read(Digits(Number(input, AlphabetSize), ByteBase), <<>>)

Base58Decode(input) ==
  IF input = <<>> THEN Error
  ELSE Read(Zeros(LeadingZeros(input)) \o Digits(Number(input, AlphabetSize), ByteBase), <<>>)

\* Version byte zero, hash of the public key, checksum.
GetAddress(hash) == Base58Encode(<<0>> \o hash \o Checksum(<<0>> \o hash))

\* TxOutput.Lock: the hash of the public key in an address.
LockedHash(address) ==
  LET r == Base58Decode(address)
  IN  SubSeq(r.val, 2, Len(r.val) - ChecksumLen)

\* "panic" where the slice bounds are out of range.
ValidateAddress(address) ==
  LET r == Base58Decode(address)
      n == Len(r.val) - ChecksumLen
  IN  IF ~r.ok THEN "no"
      ELSE IF n < 1 THEN "panic"
      ELSE IF SubSeq(r.val, n + 1, Len(r.val)) = Checksum(SubSeq(r.val, 1, n)) THEN "yes" ELSE "no"

\* Fault: the middle is rounded up.
SplitPair_RoundsUp(bytes) ==
  LET half == (Len(bytes) + 1) \div 2
  IN  <<Number(SubSeq(bytes, 1, half), ByteBase), Number(SubSeq(bytes, half + 1, Len(bytes)), ByteBase)>>

\* A signature is r.Bytes() with s.Bytes() behind, a public key X and Y.
JoinPair(pair) == Digits(pair[1], ByteBase) \o Digits(pair[2], ByteBase)

\* Verify splits them in the middle.
SplitPair(bytes) ==
  LET half == Len(bytes) \div 2
  IN  <<Number(SubSeq(bytes, 1, half), ByteBase), Number(SubSeq(bytes, half + 1, Len(bytes)), ByteBase)>>

-----------------------------------------------------------------------------
(* Writing and reading *)

Written(it, tail) ==
  CASE it.kind = "int"     -> WriteVarInt(it.val) \o tail
    [] it.kind = "bytes"   -> WriteVarBytes(it.val) \o tail
    [] it.kind = "tx"      -> Serialize(it.val) \o tail
    [] it.kind = "outs"    -> SerializeOutputs(it.val) \o tail
    [] it.kind = "address" -> GetAddress(it.val)
    [] it.kind = "text"    -> it.val
    [] it.kind = "block"   -> HashTransactions(it.val)
    [] it.kind = "header"  -> PrepareData(it.val, Run(it.val))
    [] it.kind = "pair"    -> JoinPair(it.val)

\* What the reader of such bytes makes of them.  Only validation reads a root or
\* a header: it makes them again.
Found(it, bytes, tail) ==
  CASE it.kind = "int"     -> ReadVarInt(bytes)
    [] it.kind = "bytes"   -> ReadVarBytes(bytes)
    [] it.kind = "tx"      -> DeserializeTransaction(bytes)
    [] it.kind = "outs"    -> DeserializeOutputs(bytes)
    [] it.kind = "address" -> Read(LockedHash(bytes), tail)
    [] it.kind = "text"    -> Read(Base58Encode(Base58Decode(bytes).val), tail)
    [] it.kind = "block"   -> IF bytes = OutOfRange THEN Error ELSE Read(it.val, tail)
    [] it.kind = "header"  -> IF Validate(it.val, Run(it.val)) THEN Read(it.val, tail) ELSE Error
    [] it.kind = "pair"    -> Read(SplitPair(bytes), tail)

Init ==
  /\ item \in Items
  /\ rest \in Rests
  /\ stage = "given"
  /\ data = <<>>
  /\ back = Error

Write ==
  /\ stage = "given"
  /\ stage' = "written"
  /\ data' = Written(item, rest)
  /\ UNCHANGED <<item, rest, back>>

ReadBack ==
  /\ stage = "written"
  /\ stage' = "read"
  /\ back' = Found(item, data, rest)
  /\ UNCHANGED <<item, rest, data>>

Next == Write \/ ReadBack

Spec == Init /\ [][Next]_vars

-----------------------------------------------------------------------------
(* Properties *)

CameBack == stage = "read" => back = Read(item.val, rest)

\* Integers of every width, byte strings, outputs and transactions come back from
\* a stream as they were written, and the reader stops where the writer stopped.
\* The exception are the transactions with a coinbase input: it is counted, not
\* written.
StreamsAreKept ==
  /\ item.kind \in {"int", "bytes", "outs"} => CameBack
  /\ item.kind = "tx" /\ stage = "read" =>
       (CameBack <=> \A in \in ToSet(item.val.vin) : in.txid # <<>>)

\* An output is locked with the very hash its address was made from, leading
\* zeros and all, and the address is valid.
AddressesAreKept ==
  item.kind = "address" => CameBack /\ (stage # "given" => ValidateAddress(data) = "yes")

\* A text is the only one that decodes to what it decodes to: two addresses that lock
\* with one hash differ in the version byte, which the check takes as it comes.  And
\* the check panics exactly on a text of no more bytes than a checksum has.
TextsAreCanonical ==
  item.kind = "text" /\ item.val # <<>> =>
    /\ CameBack
    /\ ValidateAddress(item.val) = "panic" <=> Len(Base58Decode(item.val).val) <= ChecksumLen

\* A pair is split where it was joined exactly if its second number has as many
\* bytes as the first or one more.
PairsAreKept ==
  item.kind = "pair" /\ stage = "read" =>
    (back.val = item.val <=>
       Len(Digits(item.val[2], ByteBase)) - Len(Digits(item.val[1], ByteBase)) \in {0, 1})

Blocks == {i \in Items : i.kind = "block"}

\* One, and k zeros, in base two.
TwoTo(k) == Number(<<1>> \o Zeros(k), 2)

\* Two byte strings of one hash.
Collide(S, T) == \E a \in S, b \in T : a # b /\ Sum256(a) = Sum256(b)

\* Transactions that may as well be the pairs of hashes of a longer list.
LikePairs(list, longer) == /\ Len(list) < Len(longer)
                           /\ \A i \in DOMAIN list : Len(list[i]) = 2 * IdLen

\* The root tells all the transactions of a block in their order, up to a copy of
\* the last, unless two strings that were hashed collide, or the block is mistaken
\* for a longer one because each of its transactions is as long as two hashes: a
\* leaf is hashed as an inner node is.  And the tree can be built exactly if the
\* padded number of transactions is a power of two.
RootCommits ==
  item.kind = "block" =>
    /\ stage = "written" /\ data # OutOfRange =>
         \A other \in Blocks :
           LET theirs == Serialized(other.val)
               ours == Serialized(item.val)
           IN  HashTransactions(other.val) = data =>
                 \/ Padded(theirs) = Padded(ours)
                 \/ Collide(Hashed(theirs), Hashed(ours))
                 \/ LikePairs(Padded(theirs), Padded(ours))
                 \/ LikePairs(Padded(ours), Padded(theirs))
    /\ stage = "read" =>
         (back.ok <=> \E k \in 1..Len(item.val) : Len(Padded(item.val)) = TwoTo(k))

Headers == {i \in Items : i.kind = "header"}

\* The bytes that are hashed tell the previous block, the root, the time and the
\* nonce, and nothing of the height: exactly the blocks that differ in nothing else
\* share them, and with them their hash and their check.  And a mined block passes
\* the check unless every nonce fails it.
HeaderCommits ==
  item.kind = "header" =>
    /\ stage = "written" =>
         \A other \in Headers, nonce \in 0..MaxNonce :
           PrepareData(other.val, nonce) = data <=>
             /\ nonce = Run(item.val)
             /\ [other.val EXCEPT !.height = 0] = [item.val EXCEPT !.height = 0]
    /\ stage = "read" =>
         (back.ok <=> \E nonce \in 0..MaxNonce : Validate(item.val, nonce))
=============================================================================
