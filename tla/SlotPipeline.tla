----------------------------- MODULE SlotPipeline -----------------------------
(***************************************************************************)
(* What happens to a block before it reaches the block store: the slots    *)
(* that POS keeps (pos/index.ts), the life of one Slot (pos/slot.ts), the  *)
(* minting of an own block (minter/index.ts), the arrival of a block from  *)
(* a peer (network/messaging/messages/block.ts) and the end of all that in *)
(* gracefulShutdown (utils/index.ts, POS.stop).                            *)
(*                                                                         *)
(* An action is the code between two awaits that can take time, with the   *)
(* timers, the cron job and the promises as the events that start it.  The *)
(* clock counts slots.  A timer fires at its time or later; the timers of  *)
(* one slot fire in the order of their times.                              *)
(***************************************************************************)
EXTENDS PastBlockQueue, FiniteSets

CONSTANTS
    MaxSlot,     \* bound: the last slot that is created; the clock stops one later
    Keep,        \* for how many slots POS.slots keeps a slot, 100 in the code
    OwnSlots,    \* the slots whose minter is one of POS.minters
    SlotOf,      \* SlotOf[b]: block.slotIndex
    Msgs,        \* the NEW_BLOCK messages that may arrive, each at most once
    BlockOf,     \* BlockOf[m]: the block in message m
    Own,         \* the block this node mints for a slot of its own
    NoBlock,     \* no block yet
    Faults       \* the faults of the environment that are considered

Slots  == 1..MaxSlot
MaxNow == MaxSlot + 1

ASSUME SlotPipelineAssumption ==
    /\ MaxSlot \in Nat \ {0}
    /\ Keep \in Nat \ {0, 1}
    /\ OwnSlots \subseteq Slots
    /\ ByMinter \subseteq NetBlocks
    /\ SlotOf \in [NetBlocks -> 0..MaxSlot]
    /\ \A b \in ByMinter : SlotOf[b] \notin OwnSlots   \* nobody else signs with our keys
    /\ BlockOf \in [Msgs -> NetBlocks]
    /\ Own # NoBlock /\ NetBlocks \cap {Own, NoBlock} = {}
    /\ Faults \subseteq {"cron", "minters", "exec", "sigterm"}
        \* "cron"   : the event loop is late and a run of the cron job is skipped
        \* "minters": selectNextMinter throws
        \* "exec"   : verifyBlock or executeBlock throws
        \* "sigterm": the node is told to stop

VARIABLES
    now,         \* calulateCurrentSlotIndex()
    cronDue,     \* the cron job has not run in this slot
    held,        \* the keys of POS.slots
    slot,        \* the Slot objects and the promises that create them
    started,     \* the slots whose slot_started has passed
    finished,    \* the slots whose slot_finished has passed
    recv,        \* where NewBlockMsg.Handler.receive is with each message
    asked,       \* asked[m]: the slot whose promise verifyBlockProposal awaits, 0 for none
    node,        \* "up", "stopping" (gracefulShutdown is running) or "down"
    stopAt,      \* the slot whose promise POS.stop awaits, 0 for none
    stopWait     \* the slots forceFinishAndDeleteSlot has been called for and waits for

queue   == <<items, processing>>
time    == <<now, cronDue>>
objects == <<held, slot, started, finished>>
arrival == <<recv, asked>>
ending  == <<node, stopAt, stopWait>>
vars    == <<queue, time, objects, arrival, ending>>

SlotRecord ==
    [ phase   : {"none", "waiting", "selecting", "built", "failed"},  \* of Slot.create
      dep     : BOOLEAN,                \* POS.slots held the slot before when this one was created
      due     : 0..MaxNow,              \* the slot onSlotStart is scheduled for
      start   : {"off", "armed", "fired"},
      timer   : {"off", "armed", "cancelled", "fired"},               \* blockTimeout
      block   : NetBlocks \cup {Own, NoBlock},
      proc    : {"none", "queue", "start", "verify", "execute", "settled", "threw"},
      waitFor : Nat ]                   \* the item of the past block queue processBlock awaits, 0 for none

\* Types of the variables.
TypeOK ==
    /\ QueueTypeOK
    /\ now \in 0..MaxNow
    /\ cronDue \in BOOLEAN
    /\ held \subseteq Slots
    /\ slot \in [Slots -> SlotRecord]
    /\ started \subseteq Slots
    /\ finished \subseteq Slots
    /\ recv \in [Msgs -> {"sent", "slot", "check", "process", "done"}]
    /\ asked \in [Msgs -> 0..MaxSlot]
    /\ node \in {"up", "stopping", "down"}
    /\ stopAt \in 0..MaxSlot
    /\ stopWait \subseteq Slots

\* The node is synchronized and POS.start has started the cron job.
Init ==
    /\ QueueInit
    /\ now = 0
    /\ cronDue = TRUE
    /\ held = {}
    /\ slot = [s \in Slots |-> [phase |-> "none", dep |-> FALSE, due |-> 0, start |-> "off",
                                timer |-> "off", block |-> NoBlock, proc |-> "none", waitFor |-> 0]]
    /\ started = {}
    /\ finished = {}
    /\ recv = [m \in Msgs |-> "sent"]
    /\ asked = [m \in Msgs |-> 0]
    /\ node = "up"
    /\ stopAt = 0
    /\ stopWait = {}

\* Nothing happens in a process that has ended.
Running == node # "down"

-------------------------------------------------------------------------------
(***************************************************************************)
(* POS.slots.                                                              *)
(***************************************************************************)

StartNewSlot(s, slots) == slots \cup {s}
EndSlot(s, slots)      == slots \ {s}

\* 0 for a slot that is not held.
GetSlot(s)     == IF s \in held THEN s ELSE 0
GetCurrentSlot == GetSlot(now)

\* calculateSlotExecutionTime, or now, when that time has passed.
SlotExecutionTime(s) == IF now < s THEN s ELSE now

-------------------------------------------------------------------------------
(***************************************************************************)
(* Shutdown.                                                               *)
(***************************************************************************)

\* gracefulShutdown up to the first await of POS.stop: the cron job is stopped and
\* the promise of the current slot is awaited.
Shutdown ==
    /\ node' = "stopping"
    /\ stopAt' = GetCurrentSlot
    /\ cronDue' = FALSE
    /\ UNCHANGED stopWait

\* An exception that nobody catches: the first one starts gracefulShutdown, a
\* second one ends the process, since process.once has removed the handler.
Throw ==
    IF node = "up"
    THEN Shutdown
    ELSE node' = "down" /\ UNCHANGED <<cronDue, stopAt, stopWait>>

Sigterm ==
    /\ "sigterm" \in Faults
    /\ node = "up"
    /\ Shutdown
    /\ UNCHANGED <<queue, now, objects, arrival>>

\* POS.stop goes on: it finishes the current slot and the two next to it.
StopCurrent ==
    /\ Running
    /\ stopAt # 0
    /\ slot[stopAt].phase \in {"built", "failed"}
    /\ stopWait' = IF slot[stopAt].phase = "built"
                   THEN {stopAt - 1, stopAt, stopAt + 1} \cap held
                   ELSE {}          \* stopService logs the error and goes on
    /\ stopAt' = 0
    /\ UNCHANGED <<queue, time, objects, arrival, node>>

Cancelled(timer) == IF timer = "armed" THEN "cancelled" ELSE timer

\* slot_finished.pass() with the code it was given: slot_started passes as well.
Finish(s) ==
    /\ finished' = finished \cup {s}
    /\ started' = started \cup {s}

\* forceFinishAndDeleteSlot once the promise of the slot is settled.
ForceFinish(s) ==
    /\ Running
    /\ s \in stopWait
    /\ \/ /\ slot[s].phase = "built"
          /\ Finish(s)
          /\ slot' = [slot EXCEPT ![s].timer = Cancelled(@)]
          /\ held' = EndSlot(s, held)
          /\ stopWait' = stopWait \ {s}
       \/ /\ slot[s].phase = "failed"
          /\ stopWait' = stopWait \ {s}
          /\ UNCHANGED objects
    /\ UNCHANGED <<queue, time, arrival, node, stopAt>>

\* POS.stop has returned, the databases are closed and the process exits.
Exit ==
    /\ node = "stopping"
    /\ stopAt = 0
    /\ stopWait = {}
    /\ node' = "down"
    /\ UNCHANGED <<queue, time, objects, arrival, stopAt, stopWait>>

\* verifyBlock and executeBlock may throw: in the cases ChainStore models, and when
\* Blockchain.stop is closing the databases.
MayThrow == "exec" \in Faults \/ (node = "stopping" /\ stopAt = 0 /\ stopWait = {})

-------------------------------------------------------------------------------
(***************************************************************************)
(* The clock, the cron job and the creation of slots.                      *)
(***************************************************************************)

Reached(t) == now >= t \/ now = MaxNow

Tick ==
    /\ Running
    /\ now < MaxNow
    /\ ~cronDue \/ "cron" \in Faults
    /\ now' = now + 1
    /\ cronDue' = (node = "up")
    /\ UNCHANGED <<queue, objects, arrival, ending>>

\* The cron job, one second into every slot: startNewSlot(now + 1) up to the first
\* await of Slot.create, endSlot(now + 1 - 100).
Cron ==
    LET s == now + 1 IN
    /\ Running /\ cronDue
    /\ cronDue' = FALSE
    /\ IF s \in Slots
       THEN /\ slot' = [slot EXCEPT ![s].phase = "waiting", ![s].dep = (GetSlot(s - 1) # 0)]
            /\ held' = IF s > Keep THEN EndSlot(s - Keep, StartNewSlot(s, held)) ELSE StartNewSlot(s, held)
       ELSE UNCHANGED <<slot, held>>
    /\ UNCHANGED <<queue, now, started, finished, arrival, ending>>

SlipPrevSettled(s) == slot[s].dep => slot[s - 1].phase = "built"

\* The slot before, if there was one, exists and is finished.
PrevSettled(s) == slot[s].dep => slot[s - 1].phase = "built" /\ s - 1 \in finished

\* Slot.create after its awaits of the slot before.
SelectMinter(s) ==
    /\ Running
    /\ slot[s].phase = "waiting"
    /\ PrevSettled(s)
    /\ slot' = [slot EXCEPT ![s].phase = "selecting"]
    /\ UNCHANGED <<queue, time, held, started, finished, arrival, ending>>

\* The constructor: both timers are set, for now if the slot has begun already.
Construct(s) ==
    /\ Running
    /\ slot[s].phase = "selecting"
    /\ slot' = [slot EXCEPT ![s].phase = "built", ![s].start = "armed", ![s].timer = "armed",
                            ![s].due = SlotExecutionTime(s)]
    /\ UNCHANGED <<queue, time, held, started, finished, arrival, ending>>

\* The promise in POS.slots is rejected: selectNextMinter throws, or the promise of
\* the slot before is rejected.
CreateFails(s) ==
    /\ Running
    /\ \/ slot[s].phase = "selecting" /\ "minters" \in Faults
       \/ slot[s].phase = "waiting" /\ slot[s].dep /\ slot[s - 1].phase = "failed"
    /\ slot' = [slot EXCEPT ![s].phase = "failed"]
    /\ Throw
    /\ UNCHANGED <<queue, now, held, started, finished, arrival>>

-------------------------------------------------------------------------------
(***************************************************************************)
(* The life of a slot.                                                     *)
(***************************************************************************)

SlipProcessBlockReplaces(r, b, item) ==
    [r EXCEPT !.timer = Cancelled(@), !.block = b, !.proc = "queue", !.waitFor = item]

\* processBlock up to its first await, in a slot r that is not finished; item is
\* the past block it awaits.
ProcessBlock(r, b, item) ==
    IF r.block = NoBlock
    THEN [r EXCEPT !.timer = Cancelled(@), !.block = b, !.proc = "queue", !.waitFor = item]
    ELSE [r EXCEPT !.timer = Cancelled(@)]

\* The minter client creates a block on top of the latest one and processes it, with
\* no queue to wait for.
Mint(r) == ProcessBlock(r, Own, 0)

\* onSlotStart: in a slot of its own the node mints; then slot_started passes.
SlotStart(s) ==
    /\ Running
    /\ slot[s].start = "armed"
    /\ Reached(slot[s].due)
    /\ LET r == [slot[s] EXCEPT !.start = "fired"] IN
       slot' = [slot EXCEPT ![s] = IF s \in OwnSlots \ finished THEN Mint(r) ELSE r]
    /\ started' = started \cup {s}
    /\ UNCHANGED <<queue, time, held, finished, arrival, ending>>

\* onBlockNotMinted, five seconds later.
Timeout(s) ==
    /\ Running
    /\ slot[s].timer = "armed"
    /\ slot[s].start = "fired"
    /\ Reached(slot[s].due + 1)
    /\ slot' = [slot EXCEPT ![s].timer = "fired"]
    /\ Finish(s)
    /\ UNCHANGED <<queue, time, held, arrival, ending>>

Proc(s, p) == slot' = [slot EXCEPT ![s].proc = p]

SlipQueueEmpty(s) == slot[s].waitFor # 0 => ~At(slot[s].waitFor, "waiting")

\* The item that was at the back of the queue is resolved, or there was none.
QueueEmpty(s) == slot[s].waitFor # 0 => At(slot[s].waitFor, "resolved")

QueuePassed(s) ==
    /\ Running
    /\ slot[s].proc = "queue"
    /\ QueueEmpty(s)
    /\ Proc(s, "start")
    /\ UNCHANGED <<queue, time, held, started, finished, arrival, ending>>

\* ExecutionCheckpoint.hasPassed: onSlotStart has passed it.
HasStarted(s) == s \in started

\* verifyBlock begins.
StartPassed(s) ==
    /\ Running
    /\ slot[s].proc = "start"
    /\ HasStarted(s)
    /\ Proc(s, "verify")
    /\ UNCHANGED <<queue, time, held, started, finished, arrival, ending>>

SlipVerified(s) ==
    /\ slot[s].proc = "verify"
    /\ \/ Proc(s, "execute") /\ Finish(s)
       \/ Proc(s, "settled") /\ Finish(s)

\* verifyBlock has answered: executeBlock begins, or the slot ends without.
Verified(s) ==
    /\ slot[s].proc = "verify"
    /\ \/ Proc(s, "execute") /\ UNCHANGED <<started, finished>>
       \/ Proc(s, "settled") /\ Finish(s)

BlockVerified(s) ==
    /\ Running
    /\ Verified(s)
    /\ UNCHANGED <<queue, time, held, arrival, ending>>

SlipExecuted(s) ==
    /\ slot[s].proc = "execute"
    /\ Proc(s, "settled")
    /\ UNCHANGED <<started, finished>>

\* executeBlock has ended, forked or not.
Executed(s) ==
    /\ slot[s].proc = "execute"
    /\ Proc(s, "settled")
    /\ Finish(s)

BlockExecuted(s) ==
    /\ Running
    /\ Executed(s)
    /\ UNCHANGED <<queue, time, held, arrival, ending>>

\* verifyBlock or executeBlock throws: slot_finished does not pass.
ProcessThrows(s) ==
    /\ Running
    /\ slot[s].proc \in {"verify", "execute"}
    /\ MayThrow
    /\ Proc(s, "threw")
    /\ Throw
    /\ UNCHANGED <<queue, now, held, started, finished, arrival>>

-------------------------------------------------------------------------------
(***************************************************************************)
(* NewBlockMsg.Handler.receive.                                            *)
(***************************************************************************)

\* handleUnverifiableForkBlock throws: createFork is given the block's own hash as
\* parent chain, which has no chain state and no directory to copy.
Unverifiable(m) ==
    /\ recv' = [recv EXCEPT ![m] = "done"]
    /\ Throw
    /\ UNCHANGED <<queue, now, objects, asked>>

\* A block arrives.  One of the current slot goes to handleUnverifiableForkBlock,
\* one of a slot that is held waits for the slot, any other one is queued.
Receive(m) ==
    LET b == BlockOf[m] IN
    /\ recv[m] = "sent"
    /\ node = "up"
    /\ \/ SlotOf[b] = now /\ Unverifiable(m)
       \/ /\ SlotOf[b] # now /\ SlotOf[b] \in held
          /\ recv' = [recv EXCEPT ![m] = "slot"]
          /\ UNCHANGED <<queue, time, objects, asked, ending>>
       \/ /\ SlotOf[b] # now /\ SlotOf[b] \notin held
          /\ recv' = [recv EXCEPT ![m] = "done"]
          /\ Enqueue(b)
          /\ UNCHANGED <<time, objects, asked, ending>>

\* The slot's promise is settled.  verifyBlockProposal asks for the slot that is
\* the current one now.
GotSlot(m) ==
    LET s == SlotOf[BlockOf[m]] IN
    /\ Running /\ recv[m] = "slot"
    /\ \/ /\ slot[s].phase = "built"
          /\ recv' = [recv EXCEPT ![m] = "check"]
          /\ asked' = [asked EXCEPT ![m] = GetCurrentSlot]
          /\ UNCHANGED <<queue, time, objects, ending>>
       \/ slot[s].phase = "failed" /\ Unverifiable(m)

\* The rest of verifyBlockProposal; a block that is refused (12500, 12540, 12534,
\* 12535), or a promise that is rejected, ends like an unverifiable block.
CheckProposal(m) ==
    LET b == BlockOf[m]
        t == asked[m]
    IN  /\ Running /\ recv[m] = "check"
        /\ t # 0 => slot[t].phase \in {"built", "failed"}
        /\ IF t = SlotOf[b] /\ slot[t].phase = "built" /\ b \in ByMinter /\ slot[t].block = NoBlock
           THEN /\ recv' = [recv EXCEPT ![m] = "process"]
                /\ UNCHANGED <<queue, time, objects, asked, ending>>
           ELSE Unverifiable(m)

\* The item processBlock awaits: fallbackBlockQueue.back().
Awaited == Back(items)

\* receive hands the block to the slot.
HandOver(m) ==
    LET s == SlotOf[BlockOf[m]] IN
    /\ Running /\ recv[m] = "process"
    /\ recv' = [recv EXCEPT ![m] = "done"]
    /\ slot' = [slot EXCEPT ![s] = IF s \in finished THEN @ ELSE ProcessBlock(@, BlockOf[m], Awaited)]
    /\ UNCHANGED <<queue, time, held, started, finished, asked, ending>>

-------------------------------------------------------------------------------
\* One step of the past block queue, on the thread that everything else shares.
ServePast ==
    /\ Running
    /\ \/ /\ \/ \E i \in DOMAIN items :
                   PastMinterSelected(i) \/ PastBlockVerified(i) \/ PastBlockExecuted(i)
             \/ ProcessAll
          /\ UNCHANGED <<time, objects, arrival, ending>>
       \/ /\ \E i \in DOMAIN items :
                \/ MayThrow /\ PastBlockThrows(i, {"verify", "execute"})
                \/ "minters" \in Faults /\ PastBlockThrows(i, {"minter"})
          /\ Throw
          /\ UNCHANGED <<now, objects, arrival>>

CreateStep(s) == SelectMinter(s) \/ Construct(s) \/ CreateFails(s)
SlotStep(s) ==
    \/ SlotStart(s) \/ Timeout(s) \/ QueuePassed(s) \/ StartPassed(s)
    \/ BlockVerified(s) \/ BlockExecuted(s) \/ ProcessThrows(s)
RecvStep(m) == GotSlot(m) \/ CheckProposal(m) \/ HandOver(m)
StopStep == StopCurrent \/ (\E s \in Slots : ForceFinish(s)) \/ Exit

Next ==
    \/ Tick \/ Cron \/ Sigterm \/ StopStep \/ ServePast
    \/ \E s \in Slots : CreateStep(s) \/ SlotStep(s)
    \/ \E m \in Msgs : Receive(m) \/ RecvStep(m)

Spec == Init /\ [][Next]_vars

\* Time passes, timers and the cron job run, and every awaited LevelDB operation
\* settles.  Nothing obliges a block to arrive or the node to be told to stop.
Fairness ==
    /\ WF_vars(Tick) /\ WF_vars(Cron) /\ WF_vars(StopStep) /\ WF_vars(ServePast)
    /\ \A s \in Slots : WF_vars(CreateStep(s)) /\ WF_vars(SlotStep(s))
    /\ \A m \in Msgs : WF_vars(RecvStep(m))

FairSpec == Spec /\ Fairness
===============================================================================
