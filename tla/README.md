# LeiCoin-Node in TLA+

LeiCoin-Node (`src/src`, TypeScript on Bun) is a full node of a proof-of-stake chain: time is cut
into slots of five seconds, every slot has one minter, blocks and transactions are broadcast over
TCP. The node is one JavaScript thread. Everything that can go wrong between its parts goes wrong at
an `await`, a timer, a socket callback or the end of the process, and that is what these modules are
about: **an action is the code between two awaits** (or one callback with every continuation it
resumes at once), and whatever the code leaves unordered is interleaved.

Paths below are relative to `src/src`. `low-level`, Bun's sockets, `cron`, LevelDB and the file
system are not part of the repository and are modelled by how the code uses them. A warning for
readers of the source: in this code base `a.eqn(b)` is "*not* equal" and `iadd`, `isub` work in place.

## 1. Inventory

| Component | Code | State | Operations | Interacts with |
|---|---|---|---|---|
| Block store and chain state | `storage/blockchain.ts`, `chain.ts`, `chainstate.ts`, `state/blocks.ts` | block files per chain, `chainstate.lcb` and its copy in memory, `Blockchain.chains`, open databases | `isBlockChainStateMatching`, `BlockDB.add/get/delete`, `createFork`, `updateChainStateByBlock`, `init`, `stop` | called by slots, the past block queue, the start-up sync |
| Verification, execution | `verification/index.ts`, `pos/execution.ts` | none | `verifyBlock`, `verifyTransaction`, `verifyBlockProposal`, `executeBlock` | block store, wallets, slots |
| Wallets | `storage/wallets.ts`, `common/models/wallet.ts` | balance and nonce per address and chain, in LevelDB | `getWallet`, `setWallet`, `adjustWalletsByBlock`, the copies for forks, `createFork`'s roll back | execution, verification, block store |
| Slots | `pos/index.ts`, `pos/slot.ts` | `POS.slots`, per slot two checkpoints, two timers, a block | cron job, `Slot.create`, `onSlotStart`, `onBlockNotMinted`, `processBlock`, `processPastSlot`, `POS.stop` | minter, block messages, past block queue |
| Past block queue | `utils/queue.ts`, `messages/block.ts` | list, `processing` | `enqueue`, `processAll`, `back` | slots wait for it |
| Block messages | `network/messaging/messages/block.ts` | none | `NEW_BLOCK`, `GET_BLOCKS` | slots, queue, sync |
| Start-up sync | `network/chain-sync.ts` | `state`, `blockQueue` | `doStartupSync`, `syncChain`, `syncBlocks` | block messages, requests, block store |
| Sockets and framing | `network/socket.ts`, `packets.ts` | sending queue, rest of a packet, receive buffer, socket state | `send`, `writeDrained`, `receiveData`, `close`, Bun's callbacks | handshake, every message |
| Connections, handshake, requests | `network/controller.ts`, `connections.ts`, `node.ts`, `requests.ts`, `messages/challenge.ts`, `status.ts` | connections, queue of connections, active requests, challenges | connect, `STATUS`, `CHALLENGE_REQ`, `CHALLENGE`, `CHALLENGE_RESPONSE`, timeouts, close | sockets |
| Minter | `minter/index.ts` | credentials | `mint` | slots, mempool, chain state |
| Process life cycle | `index.ts`, `core/main.ts`, `utils/index.ts` | handlers of `process` | start, `gracefulShutdown`, `forceShutdown`, `unhandledRejection` | all |
| Minter database | `storage/state/minters.ts`, `storage/leveldb/*` | minters, number of keys per range | `load`, `selectNextMinter`, `setMinter`, `removeMinter`, `close` | slots, console, shutdown |
| Mempool | `storage/mempool.ts`, `messages/transaction.ts` | map of transactions | add, remove, `NEW_TRANSACTION` | execution, minter |
| Command line | `cli/*` | log levels, log file, open console | words and flags, `run`, `stop`, `start-service`, the database commands, `close` | life cycle, minter database |
| Configuration, HTTP API | `config/*`, `http_api/*` | three files, `started` | read or written at the start; start, stop | life cycle |
| Encoding, messages, models, crypto | `encoding/*`, `network/messaging/*`, `common/models/*`, `crypto/*` | none | `encodeToHex`, `fromDecodedHex`, `calculateHash`, `fromSignature` | files, databases, sockets |
| Helpers | `utils/*` | none, but `LinkedList` | queue, list, timers; hosts as text | all |

Behaviours that are hard to get right and hard to test:

* **Stale reads.** `verifyBlock` settles the place of a block and then awaits wallet reads;
  `createFork` reads the latest block and then awaits databases; `verifyBlockProposal` reads
  `slot.block` before the slot accepts one; `executeBlock` puts a block on the chain before its wallets
  are adjusted, so the next block is checked against wallets of before. Several callers of these run
  at a time: a slot, the past block queue, the minter, the synchronisation.
* **Crashes and failed writes.** A block is a file, an entry in `chainstate.lcb` and a set of wallets,
  written one after the other without a log; write errors are swallowed.
* **Timers against answers.** Block timeout against block, request timeout against response, status
  and challenge timeout against messages, connect timeout against the connection.
* **Order.** Two connections between the same two nodes; a broadcast against an answer; the past block
  queue against a slot; packets against the chunks in which they arrive.
* **Start and shutdown.** A shutdown may begin while the services are still being started, and several
  may run at once (console, signal, rejection). The first unhandled rejection starts
  `gracefulShutdown`, which awaits a slot; the second one ends the process (`process.once`).
* **Boundaries of formats.** Lengths in base 15, counts of two bytes that wrap, files cut short, one
  host in several spellings.

What makes the components correct:

* *Block store*: the main chain is linked and immutable, forks leave it where they say, the chain
  state never names a block that is not there, all blocks together are a growing tree, every caller
  gets an answer.
* *Wallets*: every account has the effect of a block or none of it; no account has more than it began
  with and was sent; a nonce counts the payments; a fork keeps the wallets of before the block whose
  place it takes. All but the second are promises to accounts that no two operations meet on: the code
  has no lock, and without that condition they are false (section 7).
* *Minter database*: every node with the same minters selects the same one for a slot.
* *Slots*: one block per slot, one slot at a time, none before its time and none after it was
  reported as missed; every slot, past block and shutdown ends.
* *Start-up sync*: it ends, misses no block when all answers came, and leaves nothing in its queue.
* *Connections*: broadcasts go to live verified peers only, both sides agree, nothing is forgotten.
* *Streams*: messages arrive whole, in order, once.
* *Formats*: what was written is what is read, on every way; what was cut short is not read as
  something else; the hash covers what the minter decided.
* *Life cycle*: the start comes to an end, a shutdown ends the process, an error has been reported,
  databases close after the services that use them.

PROJECT.json lists every component and, under `hazards`, the line where each of these bites with the
properties that watch it.

## 2. Plan

The modules, most important behaviour first; all are written:

1. `ChainStore` with `ChainStoreProps`, `ChainStoreHistory`, the abstract `BlockTree`,
   `ChainStoreProofs`.
2. `PastBlockQueue`, `SlotPipeline` (extends it), `SlotPipelineProps`, `SlotPipelineProofs`.
3. `WalletLedger`: wallets of main and forks under several callers at a time, mempool, minted blocks,
   failing reads and writes, crash; `WalletLedgerProofs`.
4. `PeerHandshake`, `LinkedList` and `PeerStream` (extends it), `StartupSync`, each with its `...Proofs`.
5. `MinterStore`, `NodeConfig`, `ConsoleLog`, and `NodeConsole`, which composes the three with the
   start and the end of the process; `NodeConsoleProofs`.
6. `Numerals`, `Encoding` and `Addresses`, and `Formats`, which composes them with files, databases and
   messages; `FormatsTerms`, the words of its proofs, and `FormatsProofs`.

`ChainStore`'s workers stand for the callers that `SlotPipeline` and `StartupSync` have one by one.
The abstract specification is `BlockTree`; a channel that delivers in order, for `PeerStream`, would be
a second one.

Theorems: every safety property of the passing runs is proved (section 6). No module declares a
recursive operator: what calls itself in the code is a recursive function here, or one function for each
depth.

## 3. The modules and the code

### ChainStore

| Model | Code |
|---|---|
| `files[c][i]` | `blocks/<i>.lcb` of chain `c`; `Torn` is a file that does not decode |
| `latest`, `disk` | the chain state in memory, `chainstate.lcb` |
| `chains`, `locked` | keys of `Blockchain.chains`, LevelDB locations this process holds |
| worker `w` at `pc[w]` | a caller of `verifyBlock` and `executeBlock` at one of its awaits |
| `VerifyBlock`, `Match` | `verifyBlock` to its first await, `isBlockChainStateMatching` |
| `RejectBlock` | 12504, 12520 |
| `ExecuteBlock`, `OpenFork`, `UndoBlock`, `EndUndo` | `executeBlock` with the awaits of `createFork` |
| `StoreBlock` | `BlockDB.add` and `updateChainStateByBlock`, which are synchronous |
| `AdjustWallets` | the end of `adjustWalletsByBlock` |
| `Throw`, `GracefulShutdown`, `Exit` | rejected promise, `gracefulShutdown`, `Blockchain.stop` |
| `Crash`, `CrashInStore`, `Restart` | the process is gone, between or inside the two writes; `Blockchain.init` |

A block is identified with its hash. The wallets are a counter here; `WalletLedger` has them. The
index of `latestBlock` is taken to be right; `StartupSync` is about the one place that changes it.
`ChainStoreHistory` adds a history variable, whether two callers were ever under way at once: with it
`SerialHistory` can speak of callers that took turns so far.
`BlockTree` is the abstraction: a set of blocks to which a block is added whose predecessor is in it,
and from which none is taken.

### PastBlockQueue and SlotPipeline

`items[i].at` says where `processAll` and `processPastSlot` are with the i-th past block. A slot is a
record: `phase` (the awaits of `Slot.create`), `start` and `timer` (its two timers), `block`, `proc`
(the awaits of `processBlock`) and `waitFor` (what `back()` was). `recv[m]` is the await at which
`NewBlockMsg.Handler.receive` is with message `m`. `Tick` and `Cron` are the clock and the cron job;
the timers of a slot fire at their time or later, in the order of their times. `Mint` is
`MinterClient.mint`. What a block does to the store is `ChainStore`'s matter; here verification
succeeds or not and execution ends or throws.

`StartNewSlot`, `EndSlot`, `GetSlot` and `GetCurrentSlot` are the methods of those names.

### WalletLedger

Several callers verify, execute and fork at the same time; no step of one waits for another.

| Model | Code |
|---|---|
| `wallet`, `forkWallet`, `pending` | the wallets of main and of forks in LevelDB; puts into a fork that nobody awaits |
| `job[c]` | what a caller is doing: in the loop of `verifyBlock` (`verify`), in `adjustWalletsByBlock` (`adjust`), in `createFork` (`open`, `undo`, `read`, `pay`, `paid`) |
| `ops` | the subtractions and additions that run; each belongs to a block, a transaction and a side |
| `executed`, `files`, `latest` | the blocks main has executed, its block files, the latest block of its chain state |
| `VerifyBlock`, `MintBlock` | the place of a block is found, which is behind main's last file or that of a fork's first block (`Places`); the minter takes the latest block and all of the mempool |
| `VerifyTransaction` | one round of the loop in `verifyBlock`; it reads main's wallets whatever chain the block is for |
| `AdjustWallets` | from `blocks.add` to the start of all operations, which is synchronous: the file, the chain state, the mempool, then the operations. The block is the latest before any of them has run |
| `GetWallet`, `CheckFork`, `ForkPut`, `SetWallet` | an operation reads a wallet, hands a copy to each fork that has none, changes its own and writes it |
| `Adjusted` | `Promise.all` is over, with every operation or after the first that failed; the others go on |
| `BeginFork` ... `ForkReady` | `createFork`, with a step for each of its awaits: opening (one caller is refused), the two reads and the two writes of an undone transaction, the next block below |
| `NewTransaction`, `Cleared` | the mempool; `clearMempoolbyBlock` removes nothing, since `in` finds no key of a map |

A read or a write may fail (`Faults`), and the process may end; `seen` remembers which of it has
happened. Amounts wrap at `MaxUint + 1`, as 64-bit numbers do. Index 1 is the code's 0. The crash between
the block file and the chain state is `ChainStore`'s, and so are the files of forks. The first block of
a fork comes before that fork is open; afterwards `createFork` only throws. For the properties the
module remembers what each account has paid and received (`books`), the state of main as a fork began
(`forkAt`), and of each executed block main's wallets as it was put on the chain and the blocks whose
operations were over as its verification began (`before`, `over`). Two parts of an account in the
chain are `Together` if they are of one block or the one was not over when `verifyBlock` began with the
other. An account is `Contested` if two of its parts are, and `Raced` if one of the two is a payment.

### MinterStore, NodeConfig, ConsoleLog and NodeConsole

| Model | Code |
|---|---|
| `stored`, `open` | the keys in LevelDB; whether the databases are open |
| `indexes[c]`, `current` | a `LevelIndexes` while it is being loaded, and which one `Blockchain.minters` has |
| `task[c]` | a line typed in the console, or the start (`Boot`) and later the slots, at one of its awaits |
| `Load`, `LoadRange`, `LoadFails` | `Blockchain.init`, `LevelIndexes.load` range by range |
| `StartSelection`, `SelectKey`, `Selected` | `selectNextMinter` with `getRangeByIndex` |
| `RunCommand`, `Commit` | the database commands; their write |
| `files`, `ConfigParsed`, `ReadFiles` | the three files and what their parsers make of them |
| `logs`, `Reaches` | log levels and log file; where `CLI.log` takes a message |
| `boot` | how far `Main.init`, `CLICMDHandler.run` and `RunCMD.run` have come |
| `service[s]` | `started` of `LeiCoinNetNode`, `HTTP_API`, `POS` |
| `shut[code]` | how far `gracefulShutdown(code)` has come; both may run |
| `rejected` | `process.once("unhandledRejection")` has been used |

An address is its place in the order of the keys, so that ranges are intervals. A hash is the number
that is taken modulo the size.

### Encoding, Addresses and Formats

`Settings(class)` are the `encodingSettings` of a class, `EncodeObject` and `DecodeFields` walk them as
`ObjectEncoding` does. `encodeToHex` and `fromDecodedHex` call themselves for the objects in an object;
the classes are four deep in each other, so there is an `Encode0` to `Encode3` and a `Decoder` of a
`Decoder`, and the loops of the decoders are functions of the number of rounds. `Numerals` has numbers
and their figures to any base.

A byte of a number is a digit; hashes, signatures and addresses are tuples that tell what they were made
of, which is what makes "has another minter" a statement. `Atoms` are those there are, and bytes are
sequences of `Elements`, digits and atoms. `IsOriginal` says what may be written first: blocks as
`createNewBlock` makes them from transactions their senders signed, entries and messages with fields of
their lengths, numbers of at most `Base - 1` digits (their count is one byte in `BigIntEncoder`).

`Formats` holds one object: it writes it (`Write` a file, `Put` a database entry, `Send` a message,
`Show` a text), may cut a file short (`Tear`), and reads it again (`Read`, `Get`, `Receive`, `Parse`),
with ids, message types and handlers as `LNMsgInfo` has them. What was read may be written again in any
way there is for it. `Address32` and hosts are sequences of characters or of groups.

### StartupSync

`stage` is where `doStartupSync` is; `asked` and `channel` are one connection to the peer, whose
answers and broadcasts keep their order; `cursor` is `currentBlockIndex`. The chains of node and peer
are a common beginning of length `split` and whatever follows. `shared` says that `currentBlockIndex`
still is the very object `latestBlock.index` of the chain state: `syncBlocks` does not clone it
(`createFork` does), so `iadd(512)` changes both. `Process` condenses `processPastSlot`, `verifyBlock`
and `executeBlock` into one step, as nothing else executes blocks at that time.

### PeerHandshake

Four socket ends: `a` (dialer) and `b` (listener) of the connection that is to be trusted, `c` and
`d` of the challenge connection that the listener opens to the port `STATUS` names. `tcp` is Bun's
socket, `state` is `PeerSocket._state`, `place` is where `LeiCoinNetNode.connections` has the socket.
One action per message, timer, open, close and end callback.

`Stop` is `LeiCoinNetNode.stop`.

### LinkedList and PeerStream

`LinkedList` is `utils/linkedlist.ts` with its nodes and pointers. `PeerStream` is one direction of a
connection, byte by byte, with such a list as sending queue. A byte is the packet it belongs to and its
place in it, so wrongly assembled messages are seen. `link` leaves `"up"` at the two points where the
code loses the stream: `writeDrained` gave up the rest of a packet, or a chunk ended within a length
prefix.

## 4. What the runs check

| Run | Bounds | Shows |
|---|---|---|
| `store_faults` | 5 blocks (two genesis candidates, two branches, one grandchild), 2 callers, one fault of any kind | `MainLinked`, `MainImmutable`, `ForkRooted`, `ChainsRegistered`, `OneHome` |
| `store_crash` | the same tree, 2 callers, 2 crashes, fairness | `ForksLinked`, `StateBacked`, `SerialHistory`, the refinement `TreeGrows`, and that every caller gets an answer (`EveryBlockSettles`) |
| `wallet` | 3 accounts, 3 transactions of which two pay one account and the third spends it, 2 callers, 1 fork, 2 transactions executed, a mempool of 1, failing reads and writes, a crash | `BalancesBacked`, `NonceCounts`, `AccountAtomic`, `ForkKeepsBase` |
| `wallet_comment` | the same accounts, any block of up to three transactions, 1 caller, no fault | violates `TransactionsValid` |
| `console` | 2 ranges of 2 addresses and one key outside them, 2 command lines at a time with the start, 10 command lines, 5 states of the files, fairness | `SelectionAgrees`, `LoadCountsAll`, `FailureIsLogged`, `ServicesStopFirst`, `NodeExits`, `BootSettles` |
| `formats` | 3 values of half a byte, counts of one byte, every class that is stored or sent, all spellings of hosts of 5 groups | `WholeIsRead`, `NeverMisread`, `HashCovers`, `OneHost` |
| `slot_order` | 3 slots, two of them own, two blocks of one minter for the third, all faults | `InTurn`, `EndsOnce`, `BlockKept` |
| `slot_live` | two past blocks, one of a wrong minter, one slot's block, SIGTERM, fairness | `ArrivedBeforeDone`, `SlotFinishes`, `PastBlockSettles`, `ShutdownEnds` |
| `slot_comment` | one past block, one slot's block | violates `NoPastBlockInService` |
| `startup_sync` | all pairs of chains up to length 5, pages of 2, all faults, fairness | `NothingMissed`, `MintsOnTip`, `SyncEnds` |
| `handshake` | two nodes, one connection and its challenge connection, refused, slow and broken connections, a node that stops, fairness | `Trust`, `GivenUp`, `LeavesQueue`, `Agree` |
| `stream` | 4 messages shorter and longer than the prefix, 4 bytes in flight, fairness | `InOrder`, `AllArrive` |

Why the bounds are enough.

* *Store*: two callers are what interleaving needs; a tree with two branches and a grandchild has a
  child, a fork, a child of a fork and a repeated block, and the theorems of section 6 have no bounds.
* *Slots*: a slot interacts with the one before and, in `POS.stop`, the two next to it; three slots
  give every slot both neighbours. `Keep` is 2 instead of 100 so that slots are dropped within the run.
* *Wallets*: two callers are what interleaving needs: two blocks overlap, a block is minted or
  processed while the one before adjusts its wallets, or main goes on while `createFork` waits.
  `MaxTxs` = 2 is what main executes: two transactions meet on an account in one block or in two, one
  after the other or overlapping, and the minter repeats the first. The three transactions have a
  sender short of money, who has it once he is paid, two payments to one account, and an account
  beside them. One fork is made before, while and after main's blocks are adjusted; forks do not look
  at each other. One fault per run of the model: with two, nothing is claimed that is not claimed with
  one. The theorems of section 6 have no bounds.
* *Console*: two ranges of two keys make an index fall at the beginning, within and beyond a range;
  `{0, 2}` as the minters at the start gives a range that is not empty from its first key. `MCNext`
  restricts what the user types, since two lines at any moment of the start and of the stop are too
  many states; a single line meets every moment of both.
* *Formats*: `Base` is 9, so one byte counts to 8 and a block of 9 transactions wraps the count; the
  figures of unlimited lengths change parity at 2; values below and above one byte. a body of
  3 half bytes is a whole number of characters (4^3 = 8^2), as one of 40 is; five groups leave room for
  `::` of every length.
* *Sync*: length 5 with pages of 2 gives full and short last pages, pages without a new block, and
  chains that differ before, within and after the first page.
* *Handshake*: each connection is shaken hands on by itself; the state shared between connections is
  keyed by request id.
* *Stream*: packets of 3 and 6 bytes against 4 in flight fit or need one or two drains; every cut of
  the bytes occurs.

`CHECK_DEADLOCK FALSE` stands where the system really comes to rest: the slots' clock stops at its
bound and the process exits, a synchronisation is over, a handshake is finished, all packets are sent,
the transactions of `MaxTxs` are executed, a node ends, nothing is left to write.

## 5. Fairness

Each action is fair by itself, weakly, and only where something in the code or below it makes it
happen. *Store*: LevelDB promises settle. *Slots*: timers fire, promises settle, the clock goes on;
no block has to arrive and no fault has to happen. *Sync*: the node's own timer and loops; the peer
owes nothing, since the request timeout is enough. *Console*: the start, each task and each shutdown
go on; nobody has to type, to send a signal or to ask for a slot. *Handshake*: TCP connects or
refuses, delivers and reports the end; timers fire. *Stream*: TCP delivers and reports that it drained;
callbacks end.

## 6. What is proved

TLAPS proves the following for all values of the constants that satisfy the modules' assumptions: any
tree of blocks, any numbers of callers, slots, past blocks, messages, accounts and forks, any faults.
TLC checked every inductive invariant on an instance before it was proved (`FormatsInv` with
finite sets in place of the endless ones it ranges over).

| Module | Invariants | Properties of the runs |
|---|---|---|
| `ChainStoreProofs` | `StoreInvariant` | `MainChainLinked` (`MainLinked`), `ForksLeaveMain` (`ForkRooted`), `LookupsHit` (`ChainsRegistered`), `MainChainImmutable` (`MainImmutable`) |
| | `HomeInvariant` | `BlocksHaveOneHome` (`OneHome`), `StateHasFiles` (`StateBacked`), `ForksAreLinked` (`ForksLinked`), `StoreIsATree` (`TreeGrows`), `TurnsKeepTip` (`SerialHistory`) |
| `SlotPipelineProofs` | `PipelineInvariant` | `SlotsInTurn` (`InTurn`), `SlotsEndOnce` (`EndsOnce`), `PastBlocksFirst` (`ArrivedBeforeDone`), `SlotKeepsBlock` (`BlockKept`) |
| `WalletLedgerProofs` | `LedgerInvariant` | `BlocksAreAtomic` (`AccountAtomic`), `NoncesCountTransactions` (`NonceCounts`), `NoMoneyOutOfNothing` (`BalancesBacked`), `ForksKeepTheirBase` (`ForkKeepsBase`) |
| `StartupSyncProofs` | `SyncInvariant` | `MinterHasTip` (`MintsOnTip`), `NothingIsMissed` (`NothingMissed`) |
| `PeerHandshakeProofs` | `HandshakeInvariant` | `OnlyTrustedConnections` (`Trust`), `NeverAfterGivingUp` (`GivenUp`) |
| `PeerStreamProofs` | `StreamInvariant` | `MessagesInOrder` (`InOrder`); `OverflowIsACutPrefix` besides |
| `NodeConsoleProofs` | `LifeInvariant`, `DatabaseInvariant` | `FailuresAreTold` (`FailureIsLogged`), `ServicesStopBeforeStores` (`ServicesStopFirst`), `LoadsCountAll` (`LoadCountsAll`), `SelectionsAgree` (`SelectionAgrees`) |
| `FormatsProofs` | `FormatsInvariant` | `WholeIsReadAll` (`WholeIsRead`), `NeverMisreadAll` (`NeverMisread`), `HashCoversAll` (`HashCovers`), `OneHostAll` (`OneHost`) |

`TypeCorrect`, `PipelineTypes`, `SyncTypes`, `HandshakeTypes` and `StreamTypes` are the type invariants.

*Block store.* From `ChainStoreAssumption`: blocks have an index and at most one predecessor, the
markers are no blocks nor chain states. `MainLinked` is not inductive: a block is stored long after its
place was found. `StoreInv` adds `JobsPlaced` (the place a worker was given is still right, whatever
others stored since: main's files never change once written, and entries of the chain state never
vanish while the process runs), `DownIsEmpty` (a crash ends every job) and `DiskRooted` (what a restart
will read names only forks that leave the main chain as it is).

`HomeInv` adds what keeps a block out of a second chain. While a fork is created, its databases are open
and it has no entry (`Owned`), and LevelDB lets one caller only do so (`OneCreator`); a chain with an
entry is open (`EntriesLocked`); the predecessor stays where verification found it (`FollowsParent`);
and all that a fork's files hold are its base block and descendants of it (`Descends`). "Descends" is
membership in every set closed under children, which gives induction without recursion. Two homes of a
block would be two chains whose base blocks descend from one another, and the lower base would have left
main beside a block of main.

The other theorems have hypotheses because the properties are false without them: a write that fails
may leave an entry without a file, so `StateHasFiles` asks for `"io" \notin Faults`; a torn file or
chain state leaves a fork that no state knows, which the next process may fill anew, so `ForksAreLinked`,
`StoreIsATree` and `TurnsKeepTip` ask for `Faults \subseteq {"crash"}`: the process may end between any
two steps but not within a write. `FilesKnown` is what they rest on: a fork that has files is in the
chain state, in memory and on disk. `StoreIsATree` is the refinement, step by step. `SerialInv` carries
`TurnsKeepTip`, over `HSpec`: until two callers overlap, main's files are filled just to its tip.

*Slots.* From `SlotPipelineAssumption`. `PipelineInv` says where the queue, the slots and the messages
may stand relative to each other: the queue is served in order (`QueueInOrder`); the cron job creates a
slot at most one ahead and once (`CreatedInTime`), `POS.slots` holds the current slots that were created
(`HeldCreated`), and none passes the awaits of `create` before those it follows are finished
(`AfterTheOthers`); a slot's timers, block and phase and the past blocks it waits for fit together
(`SlotsConsistent`); a message in a slot's hands belongs to one that exists (`RecvKnown`).

*Wallets.* The theorems are about any number of callers, blocks, forks and accounts, none of which
waits for another. `LedgerInvariant` (`BaseInv`) holds always: each part of a block has at most one
running operation (`OpsFit`), what was over stays over (`OverIsOver`), and a part that is `Alone`,
together with no other of its account, finds the wallet as the check of its block found it: nobody
writes the account from the start of `verifyBlock` to the end of the operation (`Still`), so what was
verified holds when the block is put on the chain (`Verified`, `VerifiedParts`) and is what the
operation reads (`CopiesFit`).

* *Money* (`NoMoneyOutOfNothing`) has no hypothesis: what an account has, and what an operation has read
  and will write, never exceeds what it began with and was sent (`MoneyInv`), with any overlap and any
  fault. That a payment is also gone afterwards needs that the account is not raced: only then is its
  operation the only one at work and the money that was verified still there.
* *Nonces* (`NoncesCountTransactions`) need that no nonce of a transaction is the last of the 2^64
  (`NoncesFit`). `NonceInv` counts; `SpentInv` says that payments of one account have rising nonces, so
  a transaction the minter repeats is refused unless it is checked while its first execution runs.
* *All or nothing* (`BlocksAreAtomic`) needs also that no addition passes 2^64 (`AdditionsFit`), or the
  wallets wrap. `AtomicInv` is the property itself; it rests on `BaseInv`.
* *Forks* (`ForksKeepTheirBase`) need both hypotheses. The argument is about where the wallet of before
  the fork's base is: with main, as long as no part after the base changed it (`BeforeStill`), then in
  the copy an operation handed over (`HandedInv`), or put back by the roll back (`RestoredInv`), whose
  two reads and two writes `MakingInv` follows while main goes on.

The exclusions in the properties are cases in which the code does go wrong: TLC finds each property
violated when its exclusion is dropped. An account is raced when its next payment is verified before
the last one is written, which nothing in the code prevents (section 7).

*Start-up sync.* `SyncInv` follows `doStartupSync` by its stages (`Stages`). As long as the node has no
block that the peer lacks and nothing failed, its chain is a beginning of the peer's (`Beginning`), the
index is changed by the paging only while it is the tip's (`SharedIsTip`), and every announced block is
stored, in the queue, on its way or yet to be asked for (`Delivery`).

*Handshake.* `AnswerIsTrust`, that an answer is sent only by a dialer that trusts its end and has the
port it named, needs the order of the handshake: the client of the challenge and the request come after
`STATUS` (`AsksAfterStatus`), the challenge after the client connected (`ChallengedByClient`). A listener
that gives up while its request waits has sent no challenge and never will (`NoLateAnswer`), which is
what `GivenUp` rests on.

*Streams.* `StreamInv` has no word of what a sequence was made of, only of each byte and the one that
follows it: `Holds` says it of the sending queue, `Runs` and `Spans` of receive buffer, wire and rest
together. So no induction over the messages is needed. When the receiver has overflowed, what stands
in its buffer is a cut length prefix (`OverflowIsACutPrefix`).

*Process and minter database.* These theorems are about `Spec`, with any command lines, where the run
restricts them by `MCNext`. The counts of the ranges need induction on the number of ranges. The
library's induction theorems take an operator, which the provers cannot instantiate; it is stated with
a set instead and follows from `WFMin`.

*Formats.* From the assumptions of `Encoding`, `Addresses` and `Formats`: any base, any length of a
count, any keys, lists and contents of any length, any originals that satisfy `IsOriginal`. About 230
lemmas, in this order:

* Each recursive function is a `Loop`, a sequence of states with a first one and a next one, of which
  what holds at first and is kept by a round holds at the end. Induction is over sets again (`WFMin`).
  From there come figures and numbers (each is read back; a number of any width has its figures), sums of
  lengths, and sequences that are joined and taken apart.
* *What is written is read back*, whatever stands behind it: shown of each kind of field, then of lists
  (`EncodeArray` against `DecodeArray`, if the count holds their length) and of the fields of an object,
  given the same of the objects in it; so from depth to depth, with the beginning of a code failing at
  every depth because its end is needed. `fromDict` finds minter and sender again: whoever signed is
  whom the signature names.
* *One hash, one object*: of two inputs of a hash the fields are told apart one after the other. The list
  of transactions needs an argument of its own, since its count may have wrapped: the transactions are
  taken off one by one, and the end of the last is the end of the input.
* *A list that is too long.* Whatever is read of any bytes is made of their elements, and of the
  signatures in the code of such a block one only is of a minter's type, its own (`Unforged`). A block that
  is read of the code has that one, over another hash, since it has fewer transactions, or one of a
  sender: it names another minter (`Foreign`).
* *Texts*: normalizing a host twice is normalizing it once, and each way to write it with `::` gives its
  groups; an address keeps its zeros behind the leading 1.

`FormatsInv` puts these together. Held is the original, its `Normal` spelling or a block of `Foreign`
(`HeldIsCopy`), and all of them are read again as themselves, which is why any number of rounds is no
harder than one. Written is the code of what is held, or of a block the beginning of it
(`WrittenIsCode`): only files are torn, and only blocks are in files (`TornIsBlock`). What is whole, fits
and is readable is read (`ReadInFull`).

The hypotheses about the constants are the code's: atoms are no digits and are told from digits by their
length, of atoms an address is told from a hash and from a signature (in the code by the place and the
fixed width of the field), a request has an id that is not reserved and not in use.

Only model-checked is what needs fairness: `EveryBlockSettles`, `SlotFinishes`, `PastBlockSettles`,
`ShutdownEnds`, `SyncEnds`, `LeavesQueue`, `Agree`, `AllArrive`, `NodeExits`, `BootSettles`. That hashes do
not collide and signatures are not forged is not proved but in the terms of `LCrypt`.

## 7. What the code does that its text does not say

Two comments the runs refute:

* `verification/index.ts:47`, "Ensure that the block contains valid transactions": every transaction is
  checked against the wallets before the block, so a block with one transaction twice passes, though
  the second is not valid after the first (`wallet_comment`).
* `pos/slot.ts:78`, "Ensure IncomingBlockQueue is empty before processing this block": `back()` leaves
  out the item being processed and what is enqueued later (`slot_comment`).

Other behaviour a reader may not expect, modelled as it is:

* `messages/block.ts:38`: the comparison is inverted, so a block of the *current* slot goes to
  `handleUnverifiableForkBlock`, whose `createFork(hash, hash)` throws, and the node shuts down. Only
  blocks that arrive before their slot reach it. The same block a second time (12535) ends the same way.
* A block of a slot more than one ahead is processed as a past one at once.
* If execution throws, its slot never finishes, and a shutdown begun in the next slot waits for ever:
  with `"exec"` among the faults of `slot_live`, `ShutdownEnds` fails.
* Two operations on one account that run at a time, of one block or of two, overwrite each other:
  recipients lose money, and a sender whose subtraction is lost keeps what he paid.
* `executeBlock` puts a block on the chain and then awaits its wallets. A block that is minted or
  processed in between follows it, repeats the mempool, is checked against the old wallets and executes
  a transaction a second time. The second subtraction is lost or, in `subtractMoneyIFPossible`, left
  out without a word, while the recipient is paid: money is made without any fault.
* `createFork` reads main's wallets as they are when its awaits are over. Of an account that main's
  blocks touch meanwhile, or that two undone transactions touch, the fork may get a wallet that no
  block of its chain has left.
* A torn `chainstate.lcb` is replaced by an empty one.
* `chain-sync.ts:85`: when a full page from a peer on another branch brings nothing new to the main
  chain, the index of the latest block is raised by 512; `Blockchain.stop` writes it to the file and
  the minter builds on it. `MintsOnTip` holds for a node on the peer's branch and fails without that
  condition.
* A timeout ends the synchronisation successfully, and so does an error response, which finds no handler
  and leaves the request to its timer: two nodes that start at the same time both take themselves for
  synchronised. A gap is never filled, since later blocks find no
  predecessor. With `--ignore-no-peers` a failed sync leaves its queue behind.
* A block is broadcast before it is stored, so a peer that connects in between misses it.
* `socket.ts:144`: a packet that needs more than one drain is cut short. `socket.ts:177`: a chunk that
  ends within a length prefix makes `receiveData` call itself until the stack is full.
* `CHALLENGE` can overtake `CHALLENGE_REQ`; the handshake then ends by its timers.
* `mempool.ts:24`: `in` on a map is never true, so no transaction leaves the mempool, whatever "Function
  to remove a transaction from the Mempool" says: the minter's own blocks repeat executed transactions
  and are refused with 12520, unless the wallets of the block before are still being adjusted. `transaction.ts:36` lets two connected nodes send every transaction to
  and fro.
* Wallets are always checked on main: a block of a fork is verified against balances it does not build
  on. The wallets of a fork are written and, but for `existsWallet`, never read.
* A write that fails or a crash leaves a block half applied; each account has it or not.
* `minterDB.md` has the keys counted once, at startup; every database command of the console counts them
  again, and `setMinter` and `removeMinter` leave the counts as they are. A selection between the write
  and the next count may name another minter than the n-th, or throw.
* A message logged while the log file is being closed turns an orderly exit with code 0 into
  `forceShutdown` with code 1. A second `closeLogStream` waits for an event that is over.
* A `config.json` that holds `null` ends the node with the error that follows from it only. `main.ts`
  turns all words of the command line into lower case, a path for `--cwd` too.
* The number of transactions of a block is written in two bytes and wraps; bytes after an object are
  ignored. What saves the reader is the signature: the block comes out with another minter.
* `GET_TRANSACTIONS` and `GET_CHAINSTATE` are dropped by every receiver, since decoding them throws;
  `ERROR_RESPONSE` is not in `LNMsgRegistry`.
* `node.ts:68` promises port 12200 to a host without one; an unbracketed IPv6 host gives its last group
  for the port.
* `http_api`: `POST /sendtransactions` ends with 500 for every body, and the block route is not
  registered.

## 8. What is not modelled

* *Without a caller in the node*: `SecretWallet`, `FullSignature`, `encryptData`, `decryptData` and
  shared secrets, `OneTimeRequest`, `getRemoteChainstates` and `checkRemoteChainstates`,
  `LevelIndexes.addKey`, `removeKey` and `getRange`, `addFirst` and `removeLast` of the list, reward, slot
  and network records, the smart contract stubs.
* *Without effect on a state*: the history file and the network statistics of the console, colours and
  wording of messages, the HTTP routes.
* *Abstracted*: hash and signature functions are terms, taken to be free of collisions; LevelDB, files
  and TCP are what the code sees of them. An encoder that fails and returns an empty `Uint`, and data
  that arrive in state `OPENING`, do not occur with values and peers made by this code.
* *Left out of the models that are there*: forks of forks in `WalletLedger` (`ChainStore` has them);
  `walletdb insert` and `remove` change wallets behind the ledger's back and are commands of
  `MinterStore` only; the sending on of a transaction; the order of more than one configured peer.
* Packaging, test scripts, sample data.

Every module has operators named `Slip...`: plausible mistakes in the operator that follows, unused by
the specifications. Each property of a passing run is broken by one of them.
