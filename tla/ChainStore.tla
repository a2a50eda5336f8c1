------------------------------ MODULE ChainStore ------------------------------
(***************************************************************************)
(* The block store of one node: the block files of every chain             *)
(* (storage/state/blocks.ts), the chain state in memory and in             *)
(* chainstate.lcb (storage/chainstate.ts), the chains that are open        *)
(* (storage/blockchain.ts), and the path of a block through them:          *)
(* Verification.verifyBlock, Execution.executeBlock, Blockchain.createFork.*)
(*                                                                         *)
(* Node runs JavaScript to completion between two awaits, so an action is  *)
(* the code between two awaits.  A worker is one caller of verifyBlock and *)
(* executeBlock: the slot that processes the minted block, the fallback    *)
(* queue or the start-up sync that process a past one.  Nothing orders two *)
(* callers, so their steps interleave at every await.                      *)
(*                                                                         *)
(* A block is identified with its hash.  Every block is taken to hold a    *)
(* transaction, so each loop over transactions reaches an await.           *)
(***************************************************************************)
EXTENDS Naturals, FiniteSets

CONSTANTS
    Blocks,      \* the well formed blocks that may reach the node
    Index,       \* Index[b] : block.index
    Prev,        \* Prev[b]  : the block whose hash is block.previousHash
    MaxIndex,    \* bound on block indices
    Main,        \* the id of the main chain; a fork has its base block's hash as id
    NoBlock,     \* no such file, no such entry, an unknown hash
    Torn,        \* a file that was truncated or half written: it does not decode
    Workers,     \* the concurrent callers of verifyBlock and executeBlock
    Faults,      \* the faults of the environment that are considered
    MaxFaults    \* bound on the number of faults

ChainIDs == {Main} \cup Blocks
Indices  == 0..MaxIndex
Cells    == Blocks \cup {NoBlock, Torn}
States   == [ChainIDs -> Blocks \cup {NoBlock}]

ASSUME ChainStoreAssumption ==
    /\ MaxIndex \in Nat
    /\ MaxFaults \in Nat
    /\ Index \in [Blocks -> Indices]
    /\ Prev \in [Blocks -> Blocks \cup {NoBlock}]
    /\ Main \notin Blocks
    /\ NoBlock \notin ChainIDs
    /\ Torn \notin ChainIDs \cup {NoBlock}
    /\ Torn \notin States
    /\ Faults \subseteq {"crash", "torn", "io"}
        \* "crash": the process dies between two atomic steps
        \* "torn" : it dies inside the synchronous writes of executeBlock
        \* "io"   : a write fails; BlockDB and Chainstate swallow the error

VARIABLES
    files,     \* files[c][i]: blocks/<i>.lcb of chain c
    latest,    \* latest[c]: latestBlock of c in the chain state in memory, NoBlock if c has no entry
    disk,      \* the content of chainstate.lcb: a value of latest, or Torn
    chains,    \* the keys of Blockchain.chains
    locked,    \* the chains whose LevelDB databases this process holds open
    pc, job,   \* where each worker is, and for which block, target and parent chain
    cursor,    \* blockIndex of the roll-back loop of createFork
    node,      \* "up", "stopping" (gracefulShutdown is running) or "down"
    applied,   \* history: how often the main chain's wallets were adjusted by a block, 2 for more than once
    faults     \* history: how many faults there were, bounded by MaxFaults

stores == <<files, disk>>
memory == <<latest, chains, locked>>
tasks  == <<pc, job, cursor>>
vars   == <<stores, memory, tasks, node, applied, faults>>

NoChains == [c \in ChainIDs |-> NoBlock]
NoJob    == [block |-> NoBlock, target |-> Main, parent |-> Main]
Jobs     == [block : Blocks \cup {NoBlock}, target : ChainIDs, parent : ChainIDs]

\* Types of the variables.
TypeOK ==
    /\ files \in [ChainIDs -> [Indices -> Cells]]
    /\ latest \in States
    /\ disk \in States \cup {Torn}
    /\ chains \subseteq ChainIDs
    /\ locked \subseteq ChainIDs
    /\ pc \in [Workers -> {"idle", "check", "open", "undo", "store", "wallets"}]
    /\ job \in [Workers -> Jobs]
    /\ cursor \in [Workers -> Indices]
    /\ node \in {"up", "stopping", "down"}
    /\ applied \in [Blocks -> 0..2]
    /\ faults \in 0..MaxFaults

\* A first start: ensureFileExists has written an empty chainstate.lcb and
\* Blockchain.init has opened the main chain.
Init ==
    /\ files = [c \in ChainIDs |-> [i \in Indices |-> NoBlock]]
    /\ latest = NoChains
    /\ disk = NoChains
    /\ chains = {Main}
    /\ locked = {Main}
    /\ pc = [w \in Workers |-> "idle"]
    /\ job = [w \in Workers |-> NoJob]
    /\ cursor = [w \in Workers |-> 0]
    /\ node = "up"
    /\ applied = [b \in Blocks |-> 0]
    /\ faults = 0

-------------------------------------------------------------------------------
(***************************************************************************)
(* Chainstate.isBlockChainStateMatching: where a block belongs.            *)
(***************************************************************************)

\* (Operators named Slip... are plausible mistakes in the operator that follows;
\* no specification uses them, they show which property would notice.)
SlipParents(b) == { c \in ChainIDs : latest[c] # NoBlock /\ files[c][Index[b] - 1] \in Blocks }

\* The chains with an entry whose file before b's index holds b's predecessor.
\* The code takes the first of them; a file that does not decode never matches.
Parents(b) ==
    { c \in ChainIDs : /\ latest[c] # NoBlock
                       /\ Prev[b] # NoBlock
                       /\ files[c][Index[b] - 1] = Prev[b] }

Job(b, t, p) == [block |-> b, target |-> t, parent |-> p]

SlipMatchDuplicate(b) ==
    IF Index[b] = 0
    THEN IF latest[Main] = NoBlock THEN {Job(b, Main, Main)} ELSE {}
    ELSE { Job(b, IF files[p][Index[b]] \in Blocks THEN b ELSE p, p) : p \in Parents(b) }

\* Status 12000 with target and parent chain: the main chain's genesis block, a
\* child in the parent chain, or a new fork named by the block.  No match: 12532
\* (no parent) or 12533 (already stored), and the block is dropped.
Match(b) ==
    IF Index[b] = 0
    THEN IF latest[Main] = NoBlock THEN {Job(b, Main, Main)} ELSE {}
    ELSE { Job(b, IF files[p][Index[b]] \in Blocks THEN b ELSE p, p) :
             p \in {c \in Parents(b) : files[c][Index[b]] # b} }

-------------------------------------------------------------------------------
(***************************************************************************)
(* Steps of the process as a whole.                                        *)
(***************************************************************************)

Finish(w) ==
    /\ pc' = [pc EXCEPT ![w] = "idle"]
    /\ job' = [job EXCEPT ![w] = NoJob]
    /\ cursor' = [cursor EXCEPT ![w] = 0]

\* The process is gone: what was in memory and every pending promise with it.
Halt ==
    /\ node' = "down"
    /\ latest' = NoChains
    /\ chains' = {}
    /\ locked' = {}
    /\ pc' = [w \in Workers |-> "idle"]
    /\ job' = [w \in Workers |-> NoJob]
    /\ cursor' = [w \in Workers |-> 0]

\* An exception nobody catches rejects the promise of worker w.  The first one
\* starts gracefulShutdown; process.once has removed the handler by then, so a
\* second one ends the process.
Throw(w) ==
    /\ IF node = "up"
       THEN node' = "stopping" /\ Finish(w) /\ UNCHANGED memory
       ELSE Halt
    /\ UNCHANGED <<stores, applied, faults>>

\* gracefulShutdown has begun: SIGTERM, the stop command, a start-up sync that
\* failed, or NewBlockMsg handing a block it cannot verify to createFork with the
\* block's own hash as parent chain, where copyChain throws.
GracefulShutdown ==
    /\ node = "up"
    /\ node' = "stopping"
    /\ UNCHANGED <<stores, memory, tasks, applied, faults>>

\* The end of Blockchain.stop: the databases are closed, the chain state is
\* written once more, process.exit.
Exit ==
    /\ node = "stopping"
    /\ Halt
    /\ disk' = latest
    /\ UNCHANGED <<files, applied, faults>>

Crash ==
    /\ "crash" \in Faults
    /\ node # "down"
    /\ faults < MaxFaults
    /\ faults' = faults + 1
    /\ Halt
    /\ UNCHANGED <<stores, applied>>

SlipOpened(state) == {Main}

\* The chains Blockchain.init opens: those the chain state names, main in any case.
Opened(state) == {Main} \cup {c \in ChainIDs : state[c] # NoBlock}

\* Blockchain.init and waitAllChainsInit: a chain state that does not decode is
\* replaced by an empty one.
Restart ==
    /\ node = "down"
    /\ node' = "up"
    /\ latest' = IF disk = Torn THEN NoChains ELSE disk
    /\ chains' = Opened(latest')
    /\ locked' = chains'
    /\ UNCHANGED <<stores, tasks, applied, faults>>

-------------------------------------------------------------------------------
(***************************************************************************)
(* The path of one block.                                                  *)
(***************************************************************************)

\* verifyBlock up to its first await: the place of the block is settled here,
\* on the chain state of this moment.
VerifyBlock(w, b) ==
    /\ node # "down"
    /\ pc[w] = "idle"
    /\ \E j \in Match(b) : job' = [job EXCEPT ![w] = j]
    /\ pc' = [pc EXCEPT ![w] = "check"]
    /\ UNCHANGED <<stores, memory, cursor, node, applied, faults>>

\* 12504 or 12520: the hash or a transaction is not valid; the wallets decide.
RejectBlock(w) ==
    /\ pc[w] = "check"
    /\ Finish(w)
    /\ UNCHANGED <<stores, memory, node, applied, faults>>

\* parentLatestBlock.index, where createFork starts to roll back.
ForkCursor == Index[latest[Main]]

\* The block is valid and executeBlock begins.  A fork of the main chain opens
\* its databases; a fork of a fork dies in copyChain.
ExecuteBlock(w) ==
    LET j == job[w] IN
    /\ pc[w] = "check"
    /\ \/ /\ j.target = j.parent
          /\ pc' = [pc EXCEPT ![w] = "store"]
          /\ UNCHANGED <<stores, memory, job, cursor, node, applied, faults>>
       \/ /\ j.target # j.parent
          /\ j.parent = Main
          /\ pc' = [pc EXCEPT ![w] = "open"]
          /\ cursor' = [cursor EXCEPT ![w] = ForkCursor]
          /\ UNCHANGED <<stores, memory, job, node, applied, faults>>
       \/ /\ j.target # j.parent
          /\ j.parent # Main
          /\ Throw(w)

\* createFork after new Chain(...): LevelDB refuses a second open of a location.
OpenFork(w) ==
    LET t == job[w].target IN
    /\ pc[w] = "open"
    /\ \/ /\ t \notin locked
          /\ locked' = locked \cup {t}
          /\ chains' = chains \cup {t}
          /\ pc' = [pc EXCEPT ![w] = "undo"]
          /\ UNCHANGED <<stores, latest, job, cursor, node, applied, faults>>
       \/ /\ t \in locked
          /\ Throw(w)

SlipRollBackInParent(w) ==
    /\ files' = [files EXCEPT ![job[w].parent][cursor[w]] = NoBlock]
    /\ cursor' = [cursor EXCEPT ![w] = cursor[w] - 1]

SlipRollBackNoStep(w) ==
    /\ files' = [files EXCEPT ![job[w].target][cursor[w]] = NoBlock]
    /\ UNCHANGED cursor

\* forkChain.blocks.delete(blockIndex), blockIndex.isub(1)
RollBack(w) ==
    /\ files' = [files EXCEPT ![job[w].target][cursor[w]] = NoBlock]
    /\ cursor' = [cursor EXCEPT ![w] = cursor[w] - 1]

\* One round of the roll-back loop: the wallets of the parent's block are taken
\* back into the fork and the fork's own file at that index is deleted.  A parent
\* file that is missing or torn throws, and so does a database being closed.
UndoBlock(w) ==
    LET j == job[w] IN
    /\ pc[w] = "undo"
    /\ cursor[w] >= Index[j.block]
    /\ \/ /\ files[j.parent][cursor[w]] \in Blocks
          /\ RollBack(w)
          /\ UNCHANGED <<disk, memory, pc, job, node, applied, faults>>
       \/ /\ files[j.parent][cursor[w]] \notin Blocks \/ node = "stopping"
          /\ Throw(w)

EndUndo(w) ==
    /\ pc[w] = "undo"
    /\ cursor[w] < Index[job[w].block]
    /\ pc' = [pc EXCEPT ![w] = "store"]
    /\ UNCHANGED <<stores, memory, job, cursor, node, applied, faults>>

SlipAdded(old, b, mayFail) == {b} \cup (IF mayFail THEN {old, Torn} ELSE {})

\* What BlockDB.add leaves in a file: it never overwrites, whatever is there.  A
\* write that fails or is cut short leaves no file or a torn one.
Added(old, b, mayFail) ==
    IF old # NoBlock THEN {old}
    ELSE {b} \cup (IF mayFail THEN {NoBlock, Torn} ELSE {})

SlipTouchesWallets(t) == t \in ChainIDs

\* executeBlock adjusts wallets for the main chain only.
TouchesWallets(t) == t = Main

\* blocks.add, updateChainStateByBlock and, for the main chain, the synchronous
\* part of clearing the mempool and adjusting the wallets.
StoreBlock(w) ==
    LET b == job[w].block
        t == job[w].target
        io == "io" \in Faults /\ faults < MaxFaults
        stored == files[t][Index[b]]
    IN  /\ pc[w] = "store"
        /\ latest' = [latest EXCEPT ![t] = b]
        /\ \E cell \in Added(stored, b, io), state \in {latest'} \cup (IF io THEN {disk, Torn} ELSE {}) :
             /\ files' = [files EXCEPT ![t][Index[b]] = cell]
             /\ disk' = state
             /\ faults' = IF cell \in {stored, b} \ {NoBlock} /\ state = latest'
                          THEN faults ELSE faults + 1
        /\ IF TouchesWallets(t)
           THEN pc' = [pc EXCEPT ![w] = "wallets"] /\ UNCHANGED <<job, cursor>>
           ELSE Finish(w)
        /\ UNCHANGED <<chains, locked, node, applied>>

\* What chainstate.lcb may hold then, given the block file: it is not touched
\* before the block file is complete, or was found to exist.
StatesAfterCrash(w, cell) ==
    LET b == job[w].block IN
    IF cell \in {b, files[job[w].target][Index[b]]} \ {NoBlock} THEN {disk, Torn} ELSE {disk}

\* The process dies inside StoreBlock: the block file is torn, or it is whole and
\* chainstate.lcb is either the old one or torn.
CrashInStore(w) ==
    LET b == job[w].block
        t == job[w].target
    IN  /\ "torn" \in Faults
        /\ faults < MaxFaults
        /\ pc[w] = "store"
        /\ \E cell \in Added(files[t][Index[b]], b, TRUE) :
             /\ files' = [files EXCEPT ![t][Index[b]] = cell]
             /\ disk' \in StatesAfterCrash(w, cell)
        /\ faults' = faults + 1
        /\ Halt
        /\ UNCHANGED applied

\* adjustWalletsByBlock has settled.  It swallows errors, so while the databases
\* are being closed the wallets may be left as they were.
AdjustWallets(w) ==
    /\ pc[w] = "wallets"
    /\ \/ applied' = [applied EXCEPT ![job[w].block] = IF @ = 0 THEN 1 ELSE 2]
       \/ node = "stopping" /\ UNCHANGED applied
    /\ Finish(w)
    /\ UNCHANGED <<stores, memory, node, faults>>

Step(w) ==
    \/ RejectBlock(w) \/ ExecuteBlock(w) \/ OpenFork(w) \/ UndoBlock(w)
    \/ EndUndo(w) \/ StoreBlock(w) \/ AdjustWallets(w)

Next ==
    \/ \E w \in Workers : Step(w) \/ CrashInStore(w) \/ \E b \in Blocks : VerifyBlock(w, b)
    \/ GracefulShutdown \/ Exit \/ Crash \/ Restart

Spec == Init /\ [][Next]_vars

\* Every promise awaited on the path of a block is a LevelDB operation, which
\* settles.  Nothing obliges a block to arrive, nor the node to restart.
FairSpec == Spec /\ \A w \in Workers : WF_vars(Step(w))
===============================================================================
