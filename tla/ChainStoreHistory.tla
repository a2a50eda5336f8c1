--------------------------- MODULE ChainStoreHistory ---------------------------
(***************************************************************************)
(* ChainStore with a history variable: whether two callers were ever on    *)
(* their way through the store at the same time.  What holds of a serial   *)
(* history is stated on the others' behalf: it holds until they overlap.   *)
(***************************************************************************)
EXTENDS ChainStoreProps

VARIABLE overlapped  \* history: two workers have been busy at once

HInit == Init /\ overlapped = FALSE

HNext ==
    /\ Next
    /\ overlapped' = (overlapped \/ \E v, w \in Workers : v # w /\ pc'[v] # "idle" /\ pc'[w] # "idle")

HSpec == HInit /\ [][HNext]_<<vars, overlapped>>

HFairSpec == HSpec /\ \A w \in Workers : WF_vars(Step(w))

\* As long as the callers of verifyBlock and executeBlock took turns, over crashes,
\* restarts and shutdowns, the chain state of the main chain names the last block
\* file, on which the next minted block builds, and no block adjusts the wallets
\* twice or without being the main chain's block at its index.
SerialHistory == ~overlapped => TipStored /\ AppliedAtMostOnce
===============================================================================
