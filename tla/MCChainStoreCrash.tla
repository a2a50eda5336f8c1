--------------------------- MODULE MCChainStoreCrash ---------------------------
(***************************************************************************)
(* The instance of MCChainStore with the history of the callers.           *)
(***************************************************************************)
EXTENDS MCChainStore, ChainStoreHistory
===============================================================================
