# A TLA+ model of rbh-blockchain

This directory models the core of rbh-blockchain: a small UTXO blockchain in
Go with a bolt database per node, command-line tools that write it, and a server
that downloads blocks from peers. Source paths below are relative to `src/`.

## Inventory

| Part | State it keeps | Operations | Hard behaviour |
|---|---|---|---|
| Ledger (`transcation*.go`, `utxo_set.go`, `blockchain.go`) | none of its own: transactions, blocks, unspent outputs | build, identify, sign, verify a transaction; `FindUTXO` over the chain; `Update` by one block | two independent computations of the same set that must agree; ids that are hashes of content; an index that means different things in different places |
| Node store (`blockchain.go`, `cli_method.go`) | bolt file: bucket `blocks` with key `l`, bucket `chainstate` | `createblockchain`, `reindexutxo`, `send -mine`, `getbalance` | each command is several committed transactions; the process can die between them |
| Block download manager (`network_node.go`, `network_inv.go`) | `blocksToDownload`, `downloadingBlocks`, `downloadRetries` under `downloadMutex` | `handleInv`, the ticker loop | timeouts, retries, lost answers, nodes dropped while a retry is due |
| Block synchronisation (`network_version.go`, `network_getblocks.go`, `network_getdata.go`, `network_block.go`) | the store, through `AddBlock` and `Update` | the handlers of `version`, `getblocks`, `inv`, `getdata`, `block` | one goroutine per connection; blocks in any order, twice, or not at all |
| Transaction relay (`network_tx.go`, `network_inv.go`, `network_getdata.go`) | `memPool`, `broadcastedTxs` | `handleTx`, `send` without `-mine` | check-then-act between two locks, an unlocked read |
| Known nodes (`network_addr.go`, `network_version.go`, `network.go`) | `knownNodes` | append in `handleVersion` and `handleAddr`, removal in `sendData` | one of the appends has no lock |
| Wallet file (`wallets.go`, `wallet.go`) | `wallet_<id>.dat` | `createwallet`, `listaddresses` | load, add and rewrite without a lock; truncation in a crash |
| Pure algorithms (`base58.go`, `serialization.go`, `merkle_tree.go`, `proofofwork.go`, keys in `wallet.go`) | none | encode, decode, root, mine, validate | boundaries: leading zeros, integer widths, odd levels |
| Command line (`cli.go`, `main.go`) | none | dispatch | none |

How they interact. A command runs in a process of its own, opens the database
(bolt's file lock keeps any other process out until it exits) and calls the
ledger and the store directly. `startnode` keeps the file open; each incoming
connection runs one handler in a goroutine of its own, and `downloadManager` is
one more. Handlers share the maps above and the `BlockChain` struct. Nodes
interact only through messages, one connection for each.

What makes each part correct:

* ledger and store - the stored blocks form one branch down to a genesis block;
  the chainstate is the set of outputs the chain leaves unspent; no output is
  spent twice or by another key; coins are neither created nor lost; a block
  mined on this chainstate applies to it; a crash leaves nothing that a reindex
  cannot repair;
* download manager - each announced block is asked for, at most three times, and
  never while it is already being downloaded; no download lasts for ever;
* synchronisation - a node that has all blocks of a peer has its chain and its
  chainstate;
* relay - a valid transaction is pooled and passed on once; known nodes - no node
  that was added is lost; wallet file - no key is lost;
* pure algorithms - decoding inverts encoding, and nothing panics.

`PROJECT.json` lists the components with their status and every hazard with its
line and the properties that watch it.

## The modules

| Module | What it is |
|---|---|
| `Lists` | operators only: sums, and the elements of a list that pass a test |
| `Ledger` | operators only: transactions, the walk of the chain, `FindUTXO`, `Update`; extends `Lists` |
| `ChainLog` | abstract: an append-only chain of blocks |
| `NodeStore` | one node's database and the commands that write it; extends `Ledger`, implements `ChainLog` |
| `FetchPolicy` | abstract: ask, ask again up to a bound, give up |
| `Downloader` | the download manager of a server; implements `FetchPolicy` |
| `BlockStore` | abstract: blocks are only added, and the newest is the head |
| `BlockSync` | several nodes with their stores, servers and messages; extends `Ledger`, implements `BlockStore` |
| `RelayOnce` | abstract: a transaction is pooled once and passed on from one copy of the list, to each node at most as often as it stands there |
| `TxRelay` | the transactions, pool and marks of one server; implements `RelayOnce` |
| `KnownNodes` | the list of known nodes under concurrent handlers |
| `WalletFile` | the wallet file under concurrent commands |
| `Merkle` | operators only: the Merkle tree |
| `Codec` | the encodings, the header and its proof of work; extends `Merkle` |
| `MC...` | the values and sets TLC instantiates each module with |
| `...Proofs` | the theorems of the module named before; those of `Lists` and of `Merkle` are in `LedgerProofs` and `CodecProofs` |

Operators and actions have the names of the functions they model where these
have one. A definition under a comment that begins with "Fault:", such as
`Retry_OneMore`, is a variant of the operator named before the underscore, with
a plausible bug. Nothing uses it; it is there so that a property can be shown to
notice the bug (`PROJECT.json`, "mutants").

### Ledger

An output is a value and an owner, the owner standing for the public key hash.
A hash is the record of what it covers, so two transactions have the same id
exactly when the code would hash the same bytes. This matters: `TxInput.Serialize`
writes nothing for an input without a 32-byte `Txid` and the caller drops its
error, so the input of a coinbase, with the random bytes meant to make it
unique, is not covered, and all rewards of one address have one id. Indices of
outputs count from 1, the code's from 0. The empty `Txid` of a coinbase is
`NoTx`, the empty sequence, which is no record and so no hash.

Every loop is a recursive function over the naturals up to its length. `SumOf`
and `KeepAt` of `Lists` stand for the loops that add up outputs and copy the
outputs that stay. The community modules have such operators, but with an
operator for a parameter, about which the prover cannot state a lemma.

`GetUnSpendableOutputs` goes through the chainstate in key order, the keys being
hashes. The model allows every order, chosen anew in each call, which includes
the real one. The code's hash order is fixed between calls, so the model has
more behaviours than a single database would have, and none that some choice of
keys, timestamps and addresses could not give for one call. `InputLists` is the
iteration over a Go map: ids in any order, indices of one id together.

`Verify` checks the signature with the key in the input and never compares that
key with the owner of the output; it is modelled by its range check. Whether the
encoded signature survives its split (`r` and `s` lose leading zeros) is left to
the action `MineBlockFails`.

### NodeStore

`pc` is the next database transaction of the running command. While it is
"idle" no process has the file open and any command may start.

| Action | Code |
|---|---|
| `CreateBlockchainOpen`, `CreateBlockchain` | `bolt.Open` creates the file; the transaction that makes the bucket and stores the genesis block |
| `ReindexDrop`, `ReindexFill` | the two transactions of `Reindex`; `createblockchain` runs it once, `reindexutxo` twice |
| `ReindexUTXO` | `reindexutxo` opens the database |
| `Send` | `send -mine` up to the call of `MineBlock`: collect, build, sign, make the reward |
| `MineBlock`, `MineBlockFails` | verify, find a hash, store block and tip; or panic because a signature does not verify |
| `Update` | `UTXOSet.Update` of the mined block, or its error, which rolls back and panics |
| `Crash` | the process is gone between two transactions, for any reason, its own panics included |

A command that fails before its first write changes nothing and is not an
action. `unapplied` and `clean` are history variables and guard nothing.
`NewBlockchain` keeps the tip as a slice into bolt's memory map after its
transaction has ended; when `reindexutxo` then panics on it, that is a `Crash`.

### Downloader

One server's maps. `downloadManager` holds `downloadMutex` from `Tick` to
`TickDone`, so `Inv` needs `phase = "idle"`; `handleBlock` and `handleVersion`
do not take the lock and run in between. One visited hash is one action, because
each may dial a node and other handlers run meanwhile; the hash leaves `todo`,
which stands for the range loop over the map. `overdue` replaces the clock: a
hash enters it at any time after it was asked for, which covers every schedule
of the 30 seconds and the 10-second ticker. `todo` is fixed when the loop begins,
as `now` is read once before the loop. With no node known the manager dials the
empty address; with itself among the known nodes, it may ask itself, and has an
answer only for a block it stored already. Unreachable nodes and lost answers share the
bound `MaxFaults`. `handleVersion` dials the sender before it adds it, so the
sender is known afterwards whether or not that dial failed; the other handlers
touch this state only through `sendData`, which is `SendFails`. `handleAddr`
has no sender anywhere in the code, and `blocksInTransit`, which the end of
`handleBlock` reads, is never filled.

### BlockSync

Each node has a store as in `NodeStore`, reduced to what other nodes can see: a
command is one action, `Mine`, because the database is locked while it runs and
`NodeStore` has its steps. While a server runs, its file is locked, so its user
cannot mine; hence `~up[n]` in `Mine`.

| Action | Code |
|---|---|
| `StartServer`, `InitBlockchain` | `startnode`: open or create the database, read the tip, send a version to the seed |
| `HandleVersion`, `ReplyVersion` | `handleVersion`; the answer reads the height again, so it is a step of its own |
| `HandleGetBlocks` | the walk from the tip in memory; a missing block panics and ends the server |
| `HandleInv`, `Request`, `GiveUp` | the queue and the manager in the form of `FetchPolicy` |
| `HandleGetData` | the block if it is stored |
| `HandleBlock`, `Commit`, `Update` | `AddBlock`'s closure, its commit, and `UTXOSet.Update`, with other connections in between |
| `Stop`, `GoesDown` | the process is interrupted, or panics |

A connection carries one message, so messages arrive in any order, and a message
to a server that is down fails at the dial and takes the address off
`knownNodes`. Identical messages under way are one element of the set `net`,
identical tasks one of `running`. A torn read of `newBlockHash`, which is written
in the closure and read by `handleGetBlocks` without a lock, is not modelled.

Which blocks may be mined is a constant. `BlocksAreSafe` says that each is a
genesis block with its reward, or the sender's reward and a payment that
`NewUTXOTransaction` can build from the chain below, and is safe to apply there
(`SafeToApply`, see the runs). `MCBlockSync` assumes it, so TLC evaluates it for
the blocks of every run, and the theorem about `InOrderAgrees` has it as its
hypothesis.

### TxRelay

One server, one message per connection. A handler is cut at its critical
sections and calls: mark, one step for each spent transaction it looks up, verify,
unmark, the two ends of the write to the pool, the copy of the known nodes, each
send.

| Action | Code |
|---|---|
| `HandleTx` | decode, then test and set the mark under its lock |
| `FindTransaction` | one turn of the loop of `VerifyTransaction`: the walk from `newBlockHash` finds the transaction, ends at a genesis block without it, or panics where a block is missing |
| `Verify` | `Transaction.Verify`: yes, no, or the panic on an index the spent transaction lacks |
| `Unmark`, `PoolBegin`, `PoolEnd` | the mark is cleared; the locked write to the pool |
| `Snapshot`, `SendTx`, `TxDone` | the list is copied, each element dialled |
| `HandleInv`, `InvDone`, `HandleGetData` | the other two handlers that read the pool |
| `BlockArrives`, `BlockStored` | `AddBlock` sets `newBlockHash` inside its transaction, the commit follows |
| `NodeJoins` | an append to the list, by `handleAddr` without any check, or by `handleVersion` |

Any block that arrives becomes the last one, whether it continues the chain, forks
off it or has no parent here. What the walk finds may thus shrink between two
steps of one handler. `Holds` gives the transactions the walk meets from each
block, `Whole` the blocks from which it reaches a genesis block.

`knownNodes` is a slice that may hold an address several times. The model counts
the copies, and a handler sends once for each copy in its snapshot, as the loop
does; `Dial` takes all copies off when a dial fails, as `sendData` does. The order
of the list is left out. `MaxKnown` bounds its length in `NodeJoins`.

A message has one of two encodings: `sendTx` writes `Transaction.Serialize`
("wire") and `handleTx` decodes gob, so a transaction that this program sends is
never accepted. The properties of the pool are therefore about copies that can be
decoded. `handleGetData` reads the map without its lock; meeting a write, the
process may end (`crashed = "map"`). `MineBlock`'s cleaning of the pool runs in a
command, whose pool is empty; the server never mines, and `miningAddress` is
never read. `times` and `offered` are histories: how often a transaction went to
each node, and which valid ones came in without anything standing in their way.

### KnownNodes

`handleVersion` appends its sender twice: first without the lock, as load,
begin and end of a store, then again under the lock if the sender is still
missing. `Seen` is what a reader may get while a store is under way; `Torn` is
the mixture of old and new slice, with which the process may end. `Changes`
records the set the list would be if every change took effect at once
(`expected`), and whether one fell between a load and its store (`raced`).
`handleAddr` has no sender in the code and is modelled as received.

### WalletFile

`createwallet` in processes: load, add a key, truncate, write, print. The load may
fail on a whole file too (`LoadFails`): reading or decoding it fails and the set is
empty, or one of its keys does not parse and the set has some of them.
`createwallet` ignores the error and overwrites the file with what it has. A write
may fail before the file is opened, which leaves it as it was, or after it was
cut; that is ignored as well. Histories: `printed` has the addresses given out,
`stale` the processes whose set is not what the file held last, because of a
failed load, a load during a write, or another's write since; `overwritten` says
that such a set was written, `damaged` that a write did not get to its end.

### Codec and Merkle

One item is written and read back. Bytes are digits below `ByteBase`, 5 in the
run instead of 256, and the alphabet has 3 characters instead of 58: the
thresholds of variable-length integers and the relation of the two bases move
with the constants, and all widths fall inside bounded inputs. `Checksum` and
`BelowTarget` are parameters, and so is the hash function of the Merkle tree,
`Sum256`, of which nothing is assumed but the length of what it returns: hashes may
collide, and leaves and inner nodes are hashed alike, as in the code.
`OutOfRange`, the empty string, is the panic on a level of odd length. A header
has the height of the block, which `PrepareData` leaves out of what is hashed.

`Item` says what a program can hold and write: integers of eight bytes, byte
strings and lists no longer than such an integer counts, ids of `IdLen` bytes or
none, and any two naturals for a pair. Loops are recursive functions here too.
The loop of `NewMerkleTree` that halves the level is unrolled: `Level(nodes, k)`
is the level after `k` rounds and `JoinLevels` picks the first of odd length,
which is the root, or the level on which `nodes[j+1]` is out of range. A number
is taken apart by repeated division (`Divided`), as `Base58Encode` does.

## The runs

| Run | Bounds | Shows |
|---|---|---|
| `store_whole` | 5 hashes, 2 addresses, payments of 10 | with outputs always taken whole: type, `Settled`, `NoDoubleSpend`, `SpendsOwnOutput`, `NoInflation`, refinement of `ChainLog` |
| `store_crash` | 4 hashes, payments of 4 and 7, 2 crashes | `ChainInv`, `UpdateNeverFails`, `ReindexAgrees`, `Conservation`, `SafePaymentSettles` |
| `download_safety` | 2 blocks, 2 nodes, one of them the node itself, 3 retries, 2 faults, fairness | type, the three map invariants, `RequestsBounded`, refinement of `FetchPolicy`, `QueuedIsAsked`, `DownloadsEnd` |
| `sync_fork` | 2 nodes, 3 blocks with 2 genesis blocks, 2 requests, 1 stop, fairness | type, `TipInMemory`, `InOrderAgrees`, `SyncStores`, refinement of `BlockStore` |
| `relay_safety` | 5 transactions (2 rewards, a payment of both, one with a wrong signature, one with an index out of range), 3 last blocks (no chain, one with both rewards, one with the second only), 3 connections, 3 nodes, a list of up to 2, fairness | type, `OneHandlerPerTx`, `PoolIsMarked`, `DroppedIsForgotten`, `HandlersEnd`, refinement of `RelayOnce` |
| `known_safety` | 3 nodes, 3 connections | type, `UnracedAsExpected` |
| `wallet_clean` | 2 processes, 4 keys, 2 faults | type, `FreshWritesKeepKeys` |
| `codec_kept` | integers to 700, strings to 30 digits, pairs to 130, all blocks of up to 3 transactions, blocks of 4 to 8 with one reward, a block whose only transaction is as long as two hashes and the block it is mistaken for | `StreamsAreKept`, `AddressesAreKept`, `TextsAreCanonical`, `PairsAreKept`, `RootCommits`, `HeaderCommits` |

Five blocks are a genesis block and four payments, enough for a reward to be
earned, spent, earned again under the same id and spent again. Four blocks and
payments of 4 and 7 of 10 give change, change of change and payments that need
two inputs. Two crashes are enough for one to leave the chainstate behind and
one to interrupt its repair. Two blocks are enough for one to be retried while
the other is queued; `MaxRetries` has the value of the code. Two genesis blocks
are enough for a fork, and with one stop a server comes back next to answers to
its earlier life. Three connections are enough for two copies of a transaction
and a third message between their steps, for two appends and an addr message, and
two processes are enough for one to write what the other has not loaded. Eight
transactions are enough for odd levels at every depth but the last; the proof
covers the rest. TLC uses
symmetry on hashes, addresses, processes and keys, in safety runs only.
`CHECK_DEADLOCK FALSE` stands where the system may really stop: a database
without its bucket stops every command, and connections, keys and hashes are
finite.

`ReindexAgrees` and `Conservation` speak about `clean` chains only. A block is
safe (`SafeToApply`) when it takes at most one output of each transaction, gives
its transactions ids nothing unspent has, and spends only from transactions no
output of which was spent before. Outside these terms the code loses or creates
coins: a reward with the id of an unspent one overwrites it, and two inputs that
name one transaction put back each other's outputs. `SafePaymentSettles` needs
only the first two terms. In the same way `SyncStores` is about a node that
starts `Afresh`: with an answer to an earlier life of the server under way, the
newest block may come alone, the heights are equal from then on, and the blocks
below it are never asked for. `UnracedAsExpected` says that nothing but the missing
lock makes the list wrong. `FreshWritesKeepKeys` says that a key is lost only by
the write of a set that was not what the file had, or by a write cut short; any
other overlap of commands, and any failure in them, keeps the keys.

`DroppedIsForgotten` speaks of the moments when no handler runs. Marks and pool
are the same set then, so a transaction that was dropped is checked afresh when it
comes again. A transaction that was valid when it came in is in the pool, with two
exceptions. Its copy may be turned away while a failed handler is about to clear
the mark. And a block that leads elsewhere may take from the chain what the handler
has still to look up. Other blocks, copies and failures do it no harm.

`PairsAreKept` says exactly for which numbers a signature does not come back, and
`StreamsAreKept` that of all transactions only those with a coinbase input do not.
`RootCommits` says exactly for which blocks the tree cannot be built, and when two
blocks have one root: they have the same transactions up to the copy that pads
them, or two of the strings that were hashed collide, or one block is shorter and
each of its transactions is as long as two hashes, so that its leaves may be inner
nodes of the other. Each case occurs in `codec_kept`. `HeaderCommits` says that
blocks share the hashed bytes exactly if they differ in nothing but the height.

Fairness. In `Downloader` the manager takes its next step, since the ticker and
the loops of a goroutine go on as long as the server runs and each dial returns;
30 seconds pass; a node that has accepted a request and will answer does so.
In `BlockSync` some handler and some manager of a running server goes on; commands,
starts and stops have no fairness. In `TxRelay` each goroutine goes on, as Go's
scheduler runs every one that is not blocked. Announcements, version messages and
faults have no fairness.

### Disagreements the runs show

| Run | Property | What happens |
|---|---|---|
| `store_crash_spend` | `NoDoubleSpend` | a crash between `MineBlock` and `Update`; nothing notices, the next send spends the same outputs again |
| `store_index` | `SpendsOwnOutput` | after an output of a transaction is spent, the index in its chainstate entry names another output |
| `sync_new_node` | `NewNodeGetsBlocks` | an empty node and a seed with only its genesis block both have height 0, and nobody asks for anything |
| `sync_again` | `StoredBlockIsSkipped` | the second arrival of a block runs `Update` again; after the `Update` of the next block it puts back the output which that one spent |

`PROJECT.json` quotes the comment or document each one disagrees with.
`NoDoubleSpend` and `SpendsOwnOutput` hold in `store_whole`, where no process
crashes and no transaction has two outputs, and are proved there for every set
of hashes and addresses: they fail only through the causes named here.

## The proofs

Assumptions: each module proves from the named assumption of the module it is
about (`NodeStoreAssumption`, `DownloaderAssumption`, `BlockSyncAssumption`,
`TxRelayAssumption`, `KnownNodesAssumption`, `WalletFileAssumption`,
`CodecAssumption`, `HashAssumption`) and from `SubsidyAssumption`, a positive
reward. They only say
of which kind the constants are: the empty hash is not a hash, amounts are
positive, at least one request is made, faults are finitely many, a mined block
is one higher than its parent, a byte has room for the three markers of
variable-length integers and for every character, what is written is an `Item`, and
the hashes in the tree of a block have `IdLen` bytes. The theorems hold for any sets of hashes, addresses, amounts, blocks,
transactions, nodes, connections, processes, keys and items, and for any base,
alphabet, checksum, hash function and target.

`NodeStoreProofs` proves `TypeOK`, `ChainInv`, `UpdateNeverFails`, `Settled` and
the refinement of `ChainLog` from one inductive invariant,
`StoreInv == TypeOK /\ ChainInv /\ Progress /\ Owed`. `ChainInv` alone is not
inductive: `CreateBlockchain` makes a second genesis block unless nothing is
stored while `pc = "genesis"`, and `MineBlock` must find a tip. `Progress` says
what each value of `pc` guarantees: nothing stored in "genesis", a tip elsewhere,
and in "mine" and "update" that the transactions of the job apply to the
chainstate as it is. It rests on the lemma `PaymentApplies`: every input that
`NewUTXOTransaction` makes names an entry of the chainstate and an index inside
it. The chainstate does not change until `Update`, which is why a chainstate
that fell behind in a crash makes no difference. `Owed` says which blocks are
missing from the chainstate at each `pc` when no process has died, and gives
`Settled`.

The second half of `NodeStoreProofs` is about what is in the buckets. Its
lemmas are in `LedgerProofs`, which has two parts.

* The first shows what `SumOf` and `KeepAt` return. The induction theorems of the
  library take an operator and cannot be used, so induction is stated for sets: a
  set of naturals that holds 0 and is closed under successor is all of `Nat`
  (`SetInduction`, from the well-founded order of the naturals), and a family of
  sets that has a set as soon as it has it without any one of its elements has
  every finite set (`RemovalInduction`). That the recursive functions exist at
  all is proved with them (`SumExists`), then that a sum may take its elements in
  any order, and how it changes by one entry. `KnownNodesProofs` and
  `CodecProofs` use this part too.
* The second shows what the operators of `Ledger` do with a block of a reward and
  a payment, the only kind a command mines. A sum over a bucket is weighed: each
  output has a weight, its value for `Total` and its value or 0 for `GetBalance`,
  and what a block adds and takes is computed once for all weights. `Iterate`
  gains one step when the chain gains a block, so the walk of the longer chain is
  the walk of the new block followed by the walk of the old chain; a starting set
  of spent outputs only removes these from what the walk collects. For safe blocks
  this gives the entries themselves, for whole payments how many outputs each has.

`SendsSettle` proves `SafePaymentSettles` from them: the collected outputs leave
the bucket, the payment and the change enter it, and a block that takes every
output once and overwrites nothing moves exactly these weights.

The invariant for the rest is
`LedgerInv == ChainShape /\ BucketShape /\ JobShape /\ CleanChain`. The first three
say what kind of values the code builds: every block is a reward, or a reward and
a payment whose id covers its inputs and outputs; the bucket maps such ids to
lists of outputs and is empty while `ReindexFill` is due; the job's payment was
collected from the bucket as it is. `CleanChain` is about chains all of whose
blocks were safe: the walk adds to no entry it made before, the outputs it
collects are worth the rewards, no output is spent more often than it was made,
once less while its entry is whole, and each input names an output of its own key
(`SafeChain`). The walk of such a chain gives the bucket, or gives it as soon as
`Update` is through; a bucket that fell behind in a crash is worth no more than
the chain. `ReindexAgrees` alone is not inductive: `Update` adds to the bucket
and the walk starts afresh, and they agree only because the id of a new
transaction is not in the bucket and the ids it spends from were not spent from
before. From this invariant follow
`ReindexAgrees` and `Conservation` as the runs check them, and `NoInflation`,
`NoDoubleSpend` and `SpendsOwnOutput` under the hypothesis `clean`, for any number
of crashes. The runs `store_crash_spend` and `store_index` show that the
hypothesis is needed: an unsafe block is enough to break either property.

For whole payments, the case of `store_whole`, the three are proved without that
hypothesis: if every amount sent is one reward (`OnlyWhole`), they hold on any
chain as long as no command was cut short (`WholePaymentsSpendOnce`,
`WholePaymentsSpendTheirOwn`, `WholePaymentsInflateNothing`). Blocks need not be
safe then, and the bucket need not agree with the walk: all rewards of one address
have one id, `Update` overwrites an unspent one with the next, the walk lists both
under the id, and a spent one makes the walk take all made before it for spent.
The invariant `WholeInv` bounds both instead of comparing them. Whatever is stored
under an id are copies of the one output the id covers (`Piles`), so a payment
takes the first output of one entry and leaves no change (`PaysOne`). A bucket is
`Backed` if, for every id, the outputs stored and the outputs spent are together
at most the outputs made; the bucket, what `Update` is about to leave and what the
walk finds all are. The walk's half is inductive only with the bucket's: where it
finds nothing of the transaction the block spends, it is the bucket that shows one
more was there to be spent. And made less spent, over all ids, is the number of
blocks (`Rewarded`), which bounds the worth of a backed bucket. A crash between
`MineBlock` and `Update` leaves a bucket that is not backed.

`DownloaderProofs` proves `TypeOK`, `NeverQueuedTwice`, `RetriesAreCurrent`,
`RequestsBounded`, `TickEmptiesQueue` and the refinement of `FetchPolicy` from
`DownloadInv`, which adds what the loops rely on: in the retry loop `todo` holds
downloads in progress, in the dispatch loop it is the queue itself. The second
is why an abandoned block cannot be dispatched in the same tick, and why a tick
that ends leaves nothing queued.

`BlockSyncProofs` proves `TypeOK`, `TipInMemory` and the refinement of
`BlockStore` from `SyncInv == TypeOK /\ Alive /\ OneCommit /\ TipInMemory`.
`TipInMemory` says nothing of a server in the middle of a commit, so `OneCommit`
adds that there is one such handler at a time, that its block is already the tip
in memory, and that it is not stored yet; the last is why a commit refines `Add`
although the block was looked up before. `Alive` says that messages and handlers
are those of running servers: without it `Mine`, which runs while the server is
down, could move the tip under a handler left over. Most handlers are cases of
one lemma, `TalkInv`, about steps that write no store.

`InOrderAgrees` is proved for blocks that satisfy `BlocksAreSafe`, from `SyncInv`
and a second invariant, `InLine`. The property speaks of the whole store of a
node, where blocks lie in the order they arrived, forks and children of missing
parents among them. `InLine` speaks of the part whose `Update` ran: as long as
updates ran in order, these blocks are one branch of safe blocks (`Lined`), whose
walk finds the chainstate. Heights give that the next block is not on it yet,
and the argument for one more safe block is that of `NodeStoreProofs`, made in
`LedgerProofs` for both. That a block is stored before its `Update` runs is the
other half: the branch lies within the store, and a walk that ends without the
other blocks is the same with them (`BranchWithin`).

`TxRelayProofs` proves `TypeOK`, `OneHandlerPerTx`, `PoolIsMarked` and the
refinement of `RelayOnce` from
`RelayInv == TypeOK /\ Marked /\ OneHandlerPerTx /\ PoolIsMarked /\ Unsent`.
`Marked` ties the three together: what a goroutine handles is marked, so a second
copy is turned away, and is in the pool from the write on. `Unsent` is the part
the refinement needs: nothing was passed on of a transaction outside the pool, or
of one whose list is still to be copied. `RelayOnce` fixes at that copy how often
each node may be sent the transaction; the code keeps no such number, so the
mapping computes it (`Quota`): what was sent and what the one sender has still to
send. A send moves one from the second to the first, and when the sender is done
nothing is left, so the quota never changes after the copy.

A second invariant on top of it, `OfferInv`, proves `DroppedIsForgotten`. A mark
always has a reason: its transaction is pooled or a goroutine handles it. What a
goroutine has still to look up is spent by its transaction. And an offered
transaction is pooled or has a goroutine that will succeed: all that it has still
to look up is on the chain, and the signature is right.

`WalletFileProofs` proves `TypeOK` and `FreshWritesKeepKeys` from `WalletInv`,
which says what holds until a stale set is written or a write is cut short: while
one command writes, no other does and what the others loaded is stale (`Alone`); a
set that is not stale is what the file has, with the new key (`Carries`); and what
is being written has all keys given out, and between writes the file has them and
is whole, or was never made (`FileKept`).

`KnownNodesProofs` proves `TypeOK` and `UnracedAsExpected` from an invariant that
says what a handler between its load and its store holds: the current list, as
long as no change has fallen in between, and nobody stores at the same time.
Removal copies the elements that differ, which is `KeepAt`.

`CodecProofs` proves all six properties of `Codec`. The invariant is short,
`CodecInv`: what was written is `Written` of the item, and what was read back is
`Found` of that. The work is in what these operators compute, a recursion on
either side of each claim:

* Numbers. The digits of a number give the number back and its least length
  (`NumberOfDigits`, `NumberOfFixed`), and a string without a leading zero is the
  digits of its number (`DigitsOfNumber`). Leading zeros are carried past the number, so a string
  recoded to another base and back is the string (`RecodeBack`). `AddressesAreKept`
  and `TextsAreCanonical` are this with the bases of bytes and characters in the
  two orders.
* Pairs. The concatenation of two digit strings splits in the middle into the two
  numbers exactly if the second is as long as the first or a digit longer, where
  a shift of the border changes the first number or the second.
* Streams. Each reader, given what its writer wrote and any bytes behind it,
  returns the value and the bytes behind (`VarIntBack` for all four widths, then
  byte strings, inputs, outputs, lists by induction, `TransactionBack`). For the
  other direction of `StreamsAreKept`, every input that a reader returns has an id
  of `IdLen` bytes, so a coinbase input cannot come back.
* Headers. The fields that follow the previous hash and the root have fixed
  widths, and these two have `IdLen` digits or, in a genesis block, none, so the
  total length tells which; then each part determines its field. The height is in
  none of them.
* Roots. Unless hashes collide, the two strings hashed into one node are equal. Each
  is a pair of hashes of one length, so a level tells the level below it
  (`LevelsTell`), and by induction the leaves, if the trees have the same depth
  (`SameLevels`). If they have not, the leaves of the shorter meet inner nodes of
  the longer, and each of its transactions is a pair of hashes (`RootTells`). The
  tree exists exactly if halving meets no odd number before 1, which makes the
  number of leaves a power of two.

Model-checked only: the liveness properties, which the prover cannot state.

## Not modelled

ECDSA and SHA-256, beyond the joining and splitting of numbers, arbitrary
predicates and an arbitrary function; the x509 form of a private key; logging; `printchain` and
`listaddresses`, which change nothing; the parsing of arguments; durations, and
how long a lock is held over a dial; malformed messages, which end the server as
`Stop` does; a commit that fails while the process goes on; reads of a slice of
bolt's memory map after its transaction. A server does not run next to commands
in the model because bolt's lock does not allow it.

## Plan

What is left: a run of `BlockSync` with three nodes and a chain that two of them
extend.
