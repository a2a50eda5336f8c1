---------------------------- MODULE PastBlockQueue ----------------------------
(***************************************************************************)
(* FallbackIncomingBlockQueue (network/messaging/messages/block.ts): the   *)
(* AutoProcessingQueue (utils/queue.ts) that hands blocks whose slot the   *)
(* node does not hold to Slot.processPastSlot (pos/slot.ts), one by one.   *)
(*                                                                         *)
(* The module gives the operations of the queue; SlotPipeline extends it   *)
(* and says when they happen.                                              *)
(***************************************************************************)
EXTENDS Naturals, Sequences

CONSTANTS
    NetBlocks,   \* the blocks that peers may send
    ByMinter     \* those whose minter is the one selected for their slot

VARIABLES
    items,       \* all the items ever enqueued, in order, each with the point it has reached
    processing   \* AutoProcessingQueue.processing: processAll is running

\* Where an item is: in the list, at an await of processPastSlot, resolved, or
\* left for good by an exception in processPastSlot.
InService == {"minter", "verify", "execute", "stuck"}
Items     == [block : NetBlocks, at : {"waiting", "resolved"} \cup InService]

QueueTypeOK == items \in Seq(Items) /\ processing \in BOOLEAN

QueueInit == items = << >> /\ processing = FALSE

Waiting(q) == {i \in DOMAIN q : q[i].at = "waiting"}

\* Queue.dequeue and Queue.back: the ends of the list, 0 when it is empty.  An item
\* being processed is no longer in the list.
First(q) == CHOOSE i \in Waiting(q) : \A j \in Waiting(q) : i <= j
Back(q)  == IF Waiting(q) = {} THEN 0 ELSE CHOOSE i \in Waiting(q) : \A j \in Waiting(q) : j <= i

\* One round of processAll: the front item is taken off and its processing begins.
Dequeued(q) == [q EXCEPT ![First(q)].at = "minter"]

\* AutoProcessingQueue.enqueue, which starts processAll unless it is running.
Enqueue(b) ==
    LET q == Append(items, [block |-> b, at |-> "waiting"]) IN
    /\ items' = IF processing THEN q ELSE Dequeued(q)
    /\ processing' = TRUE

At(i, p) == i \in DOMAIN items /\ items[i].at = p
Goto(i, p) == items' = [items EXCEPT ![i].at = p] /\ UNCHANGED processing

\* processPastSlot knows the minter of the slot; a block of another one is dropped.
PastMinterSelected(i) ==
    /\ At(i, "minter")
    /\ Goto(i, IF items[i].block \in ByMinter THEN "verify" ELSE "resolved")

\* verifyBlock has answered.
PastBlockVerified(i) ==
    /\ At(i, "verify")
    /\ \/ Goto(i, "execute")
       \/ Goto(i, "resolved")

\* executeBlock has ended, processPastSlot returns and the item is resolved.
PastBlockExecuted(i) ==
    /\ At(i, "execute")
    /\ Goto(i, "resolved")

\* An exception in processPastSlot: nobody catches it and nobody resolves the item.
PastBlockThrows(i, points) ==
    /\ \E p \in points : At(i, p)
    /\ Goto(i, "stuck")

SlipProcessAll ==
    /\ processing
    /\ \A i \in DOMAIN items : items[i].at \notin InService
    /\ processing' = FALSE
    /\ UNCHANGED items

\* processAll goes on after an item is resolved: the next one, or the loop ends.
ProcessAll ==
    /\ processing
    /\ \A i \in DOMAIN items : items[i].at \notin InService
    /\ IF Waiting(items) # {}
       THEN items' = Dequeued(items) /\ UNCHANGED processing
       ELSE processing' = FALSE /\ UNCHANGED items
===============================================================================
