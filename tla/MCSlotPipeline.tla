---------------------------- MODULE MCSlotPipeline ----------------------------
(***************************************************************************)
(* Instances of SlotPipeline for TLC.  Blocks x and y are two blocks of one*)
(* minter for slot 2, z is for slot 1; past1 and past2 are of slot 0, which*)
(* the node never holds, past2 by a minter of another slot.                *)
(***************************************************************************)
EXTENDS SlotPipelineProps, TLC

CONSTANTS x, y, z, past1, past2

AllBlocks == {x, y, z, past1, past2}
AllSlotOf == x :> 2 @@ y :> 2 @@ z :> 1 @@ past1 :> 0 @@ past2 :> 0

\* A message is named by its block: every block arrives at most once.
MCSlotOf   == [b \in NetBlocks |-> AllSlotOf[b]]
MCByMinter == NetBlocks \ {past2}
MCBlockOf  == [m \in Msgs |-> m]
===============================================================================
