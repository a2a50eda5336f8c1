----------------------------- MODULE MCChainStore -----------------------------
(***************************************************************************)
(* Instances of ChainStore for TLC: a tree of blocks with two genesis      *)
(* candidates, two children of the first and a child of each child.        *)
(*                                                                         *)
(*     g -+- a1 --- a2              h                                      *)
(*        +- b1 --- b2                                                     *)
(***************************************************************************)
EXTENDS ChainStoreProps, TLC

CONSTANTS g, h, a1, b1, a2, b2, w1, w2

TreeIndex == g :> 0 @@ h :> 0 @@ a1 :> 1 @@ b1 :> 1 @@ a2 :> 2 @@ b2 :> 2
TreePrev  == g :> NoBlock @@ h :> NoBlock @@ a1 :> g @@ b1 :> g @@ a2 :> a1 @@ b2 :> b1

MCBlocks == DOMAIN TreeIndex
MCIndex  == TreeIndex
MCPrev   == TreePrev

\* The tree without the child of b1.
MidBlocks == MCBlocks \ {b2}
MidIndex  == [b \in MidBlocks |-> TreeIndex[b]]
MidPrev   == [b \in MidBlocks |-> TreePrev[b]]

\* Callers are interchangeable in the safety runs.
Callers == Permutations(Workers)
===============================================================================
