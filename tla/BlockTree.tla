------------------------------- MODULE BlockTree -------------------------------
(***************************************************************************)
(* What a node's block store promises: the blocks it keeps form a tree     *)
(* that only grows, one block at a time, from a single genesis block, and  *)
(* every other block is one index above a predecessor that is kept too.    *)
(***************************************************************************)
EXTENDS Naturals

CONSTANTS Blocks, Index, Prev

VARIABLE tree

Init == tree = {}

\* The first block of index 0 is the root; there is never a second one.
Root(b) == Index[b] = 0 /\ \A a \in tree : Index[a] # 0

Child(b) == Prev[b] \in tree /\ Index[b] = Index[Prev[b]] + 1

Accept(b) ==
    /\ b \notin tree
    /\ Root(b) \/ Child(b)
    /\ tree' = tree \cup {b}

Next == \E b \in Blocks : Accept(b)

Spec == Init /\ [][Next]_tree
===============================================================================
