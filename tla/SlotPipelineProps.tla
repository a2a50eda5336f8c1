-------------------------- MODULE SlotPipelineProps ---------------------------
(***************************************************************************)
(* What the slots and the past block queue promise about the blocks that   *)
(* go through them.                                                        *)
(***************************************************************************)
EXTENDS SlotPipeline

InProcess == {"verify", "execute"}

\* While the node is up no two slots verify or execute a block at a time, however
\* long one takes: a slot is created when the one before is finished.  Only a slot
\* the cron job missed, which nothing finishes, lets the slots around it overlap.
OneAtATime ==
    node = "up" =>
        \A s, t \in Slots :
            (s < t /\ slot[s].proc \in InProcess /\ slot[t].proc \in InProcess) =>
                \E u \in s..t : slot[u].phase = "none"

\* A slot that is finished, by its block, by its timer or by a failed check, has no
\* block on its way to the store and never will: the next slot may choose its
\* minter.  Only shutdown finishes a slot over the head of its block.
FinishedSettled ==
    node = "up" => \A s \in finished : slot[s].proc \in {"none", "settled"}

\* A minter that is reported to have missed its slot has sent nothing the slot
\* accepted: processBlock and onBlockNotMinted exclude each other.
TimeoutMeansNoBlock ==
    \A s \in Slots : slot[s].timer = "fired" => slot[s].block = NoBlock

\* A slot processes one block: when the minter sends two, and both pass
\* verifyBlockProposal before either is accepted, the first one stays.
BlockKept ==
    [][\A s \in Slots : slot[s].block # NoBlock =>
          /\ slot'[s].block = slot[s].block
          /\ slot'[s].proc = "queue" => slot[s].proc = "queue"]_vars

\* No block is verified before its slot has begun and onSlotStart has run, though
\* it may arrive early and its slot may be created late.
NotBeforeStart ==
    node = "up" =>
        \A s \in Slots :
            slot[s].proc \in {"verify", "execute", "settled"} => now >= s /\ slot[s].start = "fired"

\* The slots take their turns: neither do two of them work on a block at a time nor
\* does one before its time.
InTurn == OneAtATime /\ NotBeforeStart

\* A slot ends once, by its block or by its timer, and is over when it has ended.
EndsOnce == FinishedSettled /\ TimeoutMeansNoBlock

\* The past blocks that were waiting in the queue when a slot accepted its block
\* are done before the slot goes on with it.
ArrivedBeforeDone ==
    \A s \in Slots :
        slot[s].proc \in {"start", "verify", "execute", "settled"} =>
            \A i \in 1..slot[s].waitFor : At(i, "resolved")

\* Every slot that is created comes to an end: its block is executed or refused,
\* or the timer ends it.  The next slot waits for that.
SlotFinishes ==
    \A s \in Slots : slot[s].phase = "built" ~> (s \in finished \/ node # "up")

\* Every past block is processed.
PastBlockSettles ==
    \A i \in 1..Cardinality(Msgs) : At(i, "waiting") ~> (At(i, "resolved") \/ node # "up")

\* gracefulShutdown ends, as long as verifyBlock and executeBlock do not throw:
\* POS.stop awaits the current slot, which may wait for the slots before it.
ShutdownEnds == node = "stopping" ~> node = "down"

\* The comment in processBlock: "Ensure IncomingBlockQueue is empty before
\* processing this block".  When a block gets past that line no past block is
\* being processed.
NoPastBlockInService ==
    [][\A s \in Slots : (slot[s].proc = "queue" /\ slot'[s].proc = "start") =>
          \A i \in DOMAIN items : items[i].at \notin InService]_vars
===============================================================================
