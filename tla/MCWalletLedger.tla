---------------------------- MODULE MCWalletLedger ----------------------------
(***************************************************************************)
(* Instances of WalletLedger for TLC: three accounts and three             *)
(* transactions, each with its sender's first nonce.  Two of them pay the  *)
(* same account, which spends in the third what the first one sent it.     *)
(***************************************************************************)
EXTENDS WalletLedger, TLC

CONSTANTS alice, bob, carol, t1, t2, t3

\*  t1: alice 1 -> bob    t2: bob 1 -> carol    t3: carol 1 -> bob
MCSender    == t1 :> alice @@ t2 :> bob   @@ t3 :> carol
MCRecipient == t1 :> bob   @@ t2 :> carol @@ t3 :> bob
MCAmount    == t1 :> 1     @@ t2 :> 1     @@ t3 :> 1
MCNonceOf   == t1 :> 0     @@ t2 :> 0     @@ t3 :> 0

MCGenesis ==
    [ a \in Accounts |-> [balance |-> IF a = alice THEN 2 ELSE IF a = carol THEN 1 ELSE 0, nonce |-> 0] ]

\* Every block of one to three transactions.
AnyBodies == [1..1 -> Txs] \cup [1..2 -> Txs] \cup [1..3 -> Txs]

\* Blocks of one transaction, and of two that pay one account.
SomeBodies == {<<t1>>, <<t2>>, <<t1, t3>>}

\* The first block of a fork takes the place of main's first and has no transactions: no
\* wallet is adjusted for it.
MCFirstBody  == [f \in Forks |-> << >>]
MCFirstIndex == [f \in Forks |-> 1]

\* The callers are interchangeable, and so are the forks: only their number matters.
Symmetry == Permutations(Callers) \cup Permutations(Forks)
===============================================================================
