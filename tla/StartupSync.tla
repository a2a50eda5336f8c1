----------------------------- MODULE StartupSync ------------------------------
(***************************************************************************)
(* The start-up synchronisation of a node (NetworkSyncManager in           *)
(* network/chain-sync.ts) with the first of its peers, which serves        *)
(* GET_BLOCKS and broadcasts NEW_BLOCK (messages/block.ts) on one          *)
(* connection.  The answers and the broadcasts arrive in the order in      *)
(* which they were sent, and the broadcasts that arrive before the end are *)
(* kept in blockQueue.                                                     *)
(*                                                                         *)
(* The main chain of this node is the blocks Mine(0..own-1), the one of    *)
(* the peer Theirs(0..served-1); they are the same below the index split.  *)
(* A block is accepted as in Chainstate.isBlockChainStateMatching, and     *)
(* what is accepted is executed in one step: ChainStore has the steps.     *)
(***************************************************************************)
EXTENDS Naturals, Sequences, FiniteSets

CONSTANTS
    Page,           \* the blocks one GET_BLOCKS asks for, 512 in the code
    MaxLen,         \* the longest chain
    IgnoreNoPeers,  \* the flag --ignore-no-peers
    Faults          \* what may go wrong: a subset of FaultKinds

\* "nopeers": no connection is verified; "unsynced": the peer is starting itself;
\* "early": the peer broadcast its last block before this node was connected and has
\* not stored it; "exec": an execution throws; "prompt": a NEW_BLOCK arrives within
\* its slot.
FaultKinds == {"nopeers", "unsynced", "early", "exec", "prompt"}

ASSUME StartupSyncAssumption ==
    /\ Page \in Nat \ {0, 1}
    /\ MaxLen \in Nat \ {0}
    /\ IgnoreNoPeers \in BOOLEAN
    /\ Faults \subseteq FaultKinds

VARIABLES
    own,         \* the length of this node's main chain when it started
    split,       \* the first index at which the two chains may differ
    early,       \* announced, if the last one broadcast was not stored at the connection
    served,      \* the length of the peer's main chain
    announced,   \* how many blocks the peer has broadcast
    peerSynced,  \* the peer's own state is "synchronized"
    asked,       \* the startingIndex of each request the peer has to answer
    channel,     \* what the peer sent and this node has not received
    stage,       \* where doStartupSync is
    state,       \* NetworkSyncManager.state, or "down"
    clean,       \* no step failed and every request was answered with blocks
    cursor,      \* currentBlockIndex
    shared,      \* currentBlockIndex is the index object of the latest block
    length,      \* the length of the main chain
    tipIndex,    \* the index of the latest block in the chain state, 0 for none
    batch,       \* the blocks of the answer that are not executed
    full,        \* the answer had Page blocks
    stored,      \* the blocks this node has, in any chain
    blockQueue,  \* NetworkSyncManager.blockQueue
    slots        \* the broadcast blocks handed to their slot or the fallback queue

fixed  == <<own, split, early>>
peer   == <<served, announced, peerSynced>>
ledger == <<length, tipIndex, stored>>
paging == <<cursor, shared, batch, full>>
node   == <<stage, state, clean>>
vars   == <<fixed, peer, asked, channel, node, ledger, paging, blockQueue, slots>>

Block(chain, i) == IF i < split THEN <<"both", i>> ELSE <<chain, i>>
Mine(i)   == Block("mine", i)
Theirs(i) == Block("theirs", i)
Height(b) == b[2]
Prev(b)   == Block(b[1], Height(b) - 1)

Blocks  == {"both", "mine", "theirs"} \X (0..(MaxLen - 1))
Indexes == 0..(MaxLen + Page)

Answer(bs)  == [kind |-> "blocks", blocks |-> bs]
Error       == [kind |-> "error", blocks |-> << >>]
NewBlock(b) == [kind |-> "new", blocks |-> <<b>>]

\* Either chain may be the longer one and the blocks from split on may differ.  The
\* chains of different genesis blocks, or of a node that has none, have split = 0.
Init ==
    /\ own \in 0..MaxLen
    /\ split \in 0..own
    /\ served \in split..MaxLen
    /\ announced \in served..(IF "early" \in Faults /\ served < MaxLen THEN served + 1 ELSE served)
    /\ early = IF announced > served THEN announced ELSE 0
    /\ peerSynced \in (IF "unsynced" \in Faults THEN BOOLEAN ELSE {TRUE})
    /\ asked = << >>
    /\ channel = << >>
    /\ stage = "waiting"
    /\ state = "synchronizing"
    /\ clean = TRUE
    /\ cursor = 0
    /\ shared = FALSE
    /\ length = own
    /\ tipIndex = IF own = 0 THEN 0 ELSE own - 1
    /\ batch = << >>
    /\ full = FALSE
    /\ stored = {Mine(i) : i \in 0..(own - 1)}
    /\ blockQueue = << >>
    /\ slots = {}

-------------------------------------------------------------------------------
(***************************************************************************)
(* The peer.                                                               *)
(***************************************************************************)

\* The peer broadcasts the next block of its main chain, as its minter or as a relay.
Announce ==
    /\ announced = served
    /\ announced < MaxLen
    /\ announced' = announced + 1
    /\ channel' = Append(channel, NewBlock(Theirs(announced)))
    /\ UNCHANGED <<fixed, served, peerSynced, asked, node, ledger, paging, blockQueue, slots>>

\* The peer has executed the block it broadcast last.
Store ==
    /\ served < announced
    /\ served' = announced
    /\ UNCHANGED <<fixed, announced, peerSynced, asked, channel, node, ledger, paging, blockQueue, slots>>

PeerSyncs ==
    /\ ~peerSynced
    /\ peerSynced' = TRUE
    /\ UNCHANGED <<fixed, served, announced, asked, channel, node, ledger, paging, blockQueue, slots>>

\* The indexes for which GetBlocksMsg.Handler finds a block: startingIndex and on,
\* below startingIndex + count, up to the first that is missing.
ServedFrom(i) == {k \in i..(i + Page - 1) : k < served}

\* GetBlocksMsg.Handler.receive
GetBlocks ==
    /\ asked # << >>
    /\ LET i == Head(asked) IN
       channel' = Append(channel,
          IF ~peerSynced THEN Error
          ELSE Answer([k \in 1..Cardinality(ServedFrom(i)) |-> Theirs(i + k - 1)]))
    /\ asked' = Tail(asked)
    /\ UNCHANGED <<fixed, peer, node, ledger, paging, blockQueue, slots>>

-------------------------------------------------------------------------------
(***************************************************************************)
(* A block that is executed: Slot.processPastSlot.                         *)
(***************************************************************************)

\* The first block of a fork of the main chain that this node made already: it is
\* taken for a new fork again, and createFork cannot open its databases twice.
ForksAgain(b) == split < own /\ Height(b) = split /\ split > 0 /\ b \in stored

\* Chainstate.isBlockChainStateMatching lets the block pass.
Matching(b) ==
    IF Height(b) = 0 THEN length = 0
    ELSE b \notin stored /\ Prev(b) \in stored

SlipLatestIndex(b) == tipIndex

\* updateChainStateByBlock: the block becomes latestBlock of its chain.
LatestIndex(b) == Height(b)

\* Accepted blocks go to the main chain, unless the two chains differ below its end.
Process(b) ==
    IF Matching(b)
    THEN /\ stored' = stored \cup {b}
         /\ IF split = own
            THEN /\ length' = Height(b) + 1
                 /\ tipIndex' = LatestIndex(b)
                 /\ shared' = FALSE
            ELSE UNCHANGED <<length, tipIndex, shared>>
    ELSE UNCHANGED <<ledger, shared>>

-------------------------------------------------------------------------------
(***************************************************************************)
(* The node.                                                               *)
(***************************************************************************)

\* The catch block of doStartupSync.
Failed ==
    /\ clean' = FALSE
    /\ stage' = "ended"
    /\ state' = IF IgnoreNoPeers THEN "synchronized" ELSE "down"

Running == state # "down"

\* syncChain and the first request: the latest block is asked for again.
StartSync ==
    /\ Running
    /\ stage = "waiting"
    /\ stage' = "asking"
    /\ cursor' = tipIndex
    /\ shared' = (length > 0)
    /\ asked' = Append(asked, cursor')
    /\ UNCHANGED <<fixed, peer, channel, state, clean, ledger, batch, full, blockQueue, slots>>

NoPeers ==
    /\ Running
    /\ "nopeers" \in Faults
    /\ stage = "waiting"
    /\ Failed
    /\ UNCHANGED <<fixed, peer, asked, channel, ledger, paging, blockQueue, slots>>

\* The answer to the request arrives.  One that comes after the timeout finds no
\* request it belongs to, and an error finds no handler: ErrorResponseMsg is not in
\* LNMsgRegistry, only the timeout ends the request.
ReceiveAnswer ==
    /\ Running
    /\ channel # << >>
    /\ LET msg == Head(channel) IN
       /\ msg.kind # "new"
       /\ IF stage = "asking" /\ msg.kind = "blocks"
          THEN /\ stage' = "executing"
               /\ batch' = msg.blocks
               /\ full' = (Len(msg.blocks) = Page)
          ELSE UNCHANGED <<stage, batch, full>>
    /\ channel' = Tail(channel)
    /\ UNCHANGED <<fixed, peer, asked, state, clean, ledger, cursor, shared, blockQueue, slots>>

\* LNActiveRequest's timer: the request ends with an error response.
RequestTimeout ==
    /\ Running
    /\ stage = "asking"
    /\ stage' = "draining"
    /\ clean' = FALSE
    /\ UNCHANGED <<fixed, peer, asked, channel, state, ledger, paging, blockQueue, slots>>

\* NewBlockMsg.Handler keeps the block in blockQueue.
Kept == state = "synchronizing"

\* NewBlockMsg.Handler.receive, for a block whose slot is not the current one.
ReceiveNewBlock ==
    /\ Running
    /\ channel # << >>
    /\ LET b == Head(channel).blocks[1] IN
       /\ Head(channel).kind = "new"
       /\ IF Kept
          THEN blockQueue' = Append(blockQueue, b) /\ UNCHANGED slots
          ELSE slots' = slots \cup {b} /\ UNCHANGED blockQueue
    /\ channel' = Tail(channel)
    /\ UNCHANGED <<fixed, peer, asked, node, ledger, paging>>

\* NewBlockMsg.Handler.receive, for a block of the current slot: handleUnverifiableForkBlock
\* throws, and the rejection nobody handles shuts the node down.
ReceivePromptBlock ==
    /\ Running
    /\ "prompt" \in Faults
    /\ channel # << >>
    /\ Head(channel).kind = "new"
    /\ channel' = Tail(channel)
    /\ state' = "down"
    /\ UNCHANGED <<fixed, peer, asked, stage, clean, ledger, paging, blockQueue, slots>>

\* One round of the loop in executeBlocks.
ExecuteBlock ==
    /\ Running
    /\ stage = "executing"
    /\ batch # << >>
    /\ ~ForksAgain(Head(batch))
    /\ Process(Head(batch))
    /\ batch' = Tail(batch)
    /\ UNCHANGED <<fixed, peer, asked, channel, node, cursor, full, blockQueue, slots>>

SlipNextCursor == cursor
SlipNextCursorFar == cursor + Page + 1

\* currentBlockIndex.iadd(512)
NextCursor == cursor + Page

\* The page is executed.  After a full one the next is asked for, and iadd changes the
\* index of the latest block as well if it is still the block the paging started from.
NextPage ==
    /\ Running
    /\ stage = "executing"
    /\ batch = << >>
    /\ IF full
       THEN /\ stage' = "asking"
            /\ cursor' = NextCursor
            /\ tipIndex' = IF shared THEN NextCursor ELSE tipIndex
            /\ asked' = Append(asked, NextCursor)
       ELSE /\ stage' = "draining"
            /\ UNCHANGED <<cursor, tipIndex, asked>>
    /\ UNCHANGED <<fixed, peer, channel, state, clean, length, stored, shared, batch, full, blockQueue, slots>>

\* One round of the loop over blockQueue in syncChain.
Drain ==
    /\ Running
    /\ stage = "draining"
    /\ blockQueue # << >>
    /\ ~ForksAgain(Head(blockQueue))
    /\ Process(Head(blockQueue))
    /\ blockQueue' = Tail(blockQueue)
    /\ UNCHANGED <<fixed, peer, asked, channel, node, cursor, batch, full, slots>>

\* processPastSlot throws in one of the two loops, before or after the block is stored.
ExecutionThrows ==
    /\ Running
    /\ \/ /\ stage = "executing" /\ batch # << >>
          /\ \/ ForksAgain(Head(batch)) /\ UNCHANGED <<ledger, shared>>
             \/ "exec" \in Faults /\ Process(Head(batch))
             \/ "exec" \in Faults /\ UNCHANGED <<ledger, shared>>
          /\ UNCHANGED blockQueue
       \/ /\ stage = "draining" /\ blockQueue # << >>
          /\ \/ ForksAgain(Head(blockQueue)) /\ UNCHANGED <<ledger, shared>>
             \/ "exec" \in Faults /\ Process(Head(blockQueue))
             \/ "exec" \in Faults /\ UNCHANGED <<ledger, shared>>
          /\ blockQueue' = Tail(blockQueue)
    /\ Failed
    /\ UNCHANGED <<fixed, peer, asked, channel, cursor, batch, full, slots>>

\* The queue is found empty: no callback runs before the state is set.
EndSync ==
    /\ Running
    /\ stage = "draining"
    /\ blockQueue = << >>
    /\ stage' = "ended"
    /\ state' = "synchronized"
    /\ UNCHANGED <<fixed, peer, asked, channel, clean, ledger, paging, blockQueue, slots>>

Executes == ExecuteBlock \/ ExecutionThrows \/ NextPage
Drains   == Drain \/ ExecutionThrows \/ EndSync

Next ==
    \/ Announce \/ Store \/ PeerSyncs \/ GetBlocks
    \/ StartSync \/ NoPeers \/ ReceiveAnswer \/ RequestTimeout
    \/ ReceiveNewBlock \/ ReceivePromptBlock
    \/ ExecuteBlock \/ NextPage \/ Drain \/ ExecutionThrows \/ EndSync

Spec == Init /\ [][Next]_vars

\* The node's own timers fire and its loops go on.  The peer owes nothing.
Fairness ==
    /\ WF_vars(StartSync) /\ WF_vars(RequestTimeout)
    /\ WF_vars(Executes) /\ WF_vars(Drains)

FairSpec == Spec /\ Fairness

-------------------------------------------------------------------------------
Travels(b) == \E k \in DOMAIN channel : channel[k] = NewBlock(b)

\* A node whose chain is a beginning of the peer's, and whose requests were answered,
\* misses no block of the peer: it has it, or is yet to receive it, whatever the peer
\* broadcast and stored between two pages.  The exception is a block broadcast before
\* the connection and stored after the last answer, and with it those that follow.
NothingMissed ==
    state = "synchronized" /\ clean /\ split = own =>
        \A i \in 0..(announced - 1) :
            \/ Theirs(i) \in stored \cup slots
            \/ Travels(Theirs(i))
            \/ early > 0 /\ i >= early - 1 /\ Theirs(early - 1) \notin stored

\* The latest block of the chain state, on which the minter builds, has the index of
\* the end of the main chain.  Not so once a peer on another branch has sent a full
\* page: it gave the main chain no block, and the iadd of the paging moves the index.
MintsOnTip == split = own => tipIndex = IF length = 0 THEN 0 ELSE length - 1

\* The start-up synchronisation ends, whatever the peer does.
SyncEnds == <>(state # "synchronizing")
===============================================================================
