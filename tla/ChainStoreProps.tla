---------------------------- MODULE ChainStoreProps ----------------------------
(***************************************************************************)
(* What the block store must keep true, whatever the callers of verifyBlock*)
(* and executeBlock interleave and however the process ends.               *)
(***************************************************************************)
EXTENDS ChainStore

\* Block b is the content of some chain's file at its index.
Stored(b) == \E c \in ChainIDs : files[c][Index[b]] = b

\* Every block file of the main chain except the first holds a block whose
\* previousHash is the block in the file before.  isBlockChainStateMatching looks
\* at the files long before BlockDB.add writes: other callers, forks being rolled
\* back, crashes and failed writes come in between.
MainLinked ==
    \A i \in Indices \ {0} :
        files[Main][i] \in Blocks =>
            /\ files[Main][i - 1] \in Blocks
            /\ files[Main][i - 1] = Prev[files[Main][i]]

\* A block file of the main chain is never overwritten nor deleted: createFork
\* deletes in the fork only, and BlockDB.add refuses a second block for an index.
MainImmutable ==
    [][\A i \in Indices :
          files[Main][i] \in Blocks => files'[Main][i] = files[Main][i]]_files

\* Block f leaves the main chain, as the files m of the main chain have it: there
\* is another block at f's index and f's predecessor before it.
Leaves(f, m) ==
    /\ Index[f] > 0
    /\ m[Index[f]] \in Blocks \ {f}
    /\ m[Index[f] - 1] = Prev[f]

\* A fork the chain state names really leaves the main chain at its base block,
\* though main went on while the fork was created, or the node was restarted.
ForkRooted == \A f \in Blocks : latest[f] # NoBlock => Leaves(f, files[Main])

\* Every chain the chain state names, and every chain a block is about to be
\* stored in, is registered in Blockchain.chains: both are dereferenced unchecked.
ChainsRegistered ==
    /\ \A c \in ChainIDs : latest[c] # NoBlock => c \in chains
    /\ \A w \in Workers : pc[w] \in {"undo", "store", "wallets"} => job[w].target \in chains

\* A placement that verifyBlock found stays right until the block is stored: in
\* the chain with entries s and main chain files m, j's block follows its parent
\* chain, or leaves it as a fork named by the block.
WellPlaced(j, m, s) ==
    /\ j.block \in Blocks
    /\ \/ j.target = j.parent
       \/ j.target = j.block /\ (j.parent = Main => Leaves(j.block, m))
    /\ IF Index[j.block] = 0
       THEN j.parent = Main /\ j.target = Main
       ELSE /\ s[j.parent] # NoBlock
            /\ j.parent = Main => Prev[j.block] \in Blocks /\ m[Index[j.block] - 1] = Prev[j.block]

\* Past executeBlock's check a fork has the main chain as parent.
JobsPlaced ==
    \A w \in Workers :
        /\ pc[w] # "idle" => WellPlaced(job[w], files[Main], latest)
        /\ pc[w] \in {"open", "undo"} => job[w].target # job[w].parent
        /\ pc[w] \in {"open", "undo", "store", "wallets"} =>
              job[w].target = job[w].parent \/ job[w].parent = Main

\* A process that is down has nothing in memory; one that is not has opened main.
DownIsEmpty ==
    IF node = "down"
    THEN latest = NoChains /\ \A w \in Workers : pc[w] = "idle"
    ELSE Main \in chains

DiskRooted == disk # Torn => \A f \in Blocks : disk[f] # NoBlock => Leaves(f, files[Main])

\* The inductive invariant behind the four properties above.
StoreInv ==
    /\ TypeOK /\ JobsPlaced /\ DownIsEmpty /\ DiskRooted
    /\ MainLinked /\ ForkRooted /\ ChainsRegistered

\* Neither the chain state in memory nor the one on disk names as latest block an
\* index without a block file.  The block file is written first, so a crash
\* between the two writes leaves a file too many, never one too few.
StateBacked ==
    \A c \in ChainIDs :
        /\ latest[c] # NoBlock => files[c][Index[latest[c]]] # NoBlock
        /\ disk # Torn /\ disk[c] # NoBlock => files[c][Index[disk[c]]] # NoBlock

\* No block is kept by two chains: a second copy would let a block be a child in
\* one chain and the start of a fork in another at the same time.
OneHome ==
    \A b \in Blocks, c, d \in ChainIDs :
        files[c][Index[b]] = b /\ files[d][Index[b]] = b => c = d

\* A fork holds no block below its base, and each block above links to the block
\* in the file before, in the fork itself.
ForksLinked ==
    \A f \in Blocks, i \in Indices :
        files[f][i] \in Blocks =>
            \/ i = Index[f] /\ files[f][i] = f
            \/ i > Index[f] /\ files[f][i - 1] = Prev[files[f][i]]

\* When callers take turns the latest block of the main chain is the block in its file
\* and the last one: the next minted block builds on what the store holds.
TipStored ==
    node # "down" =>
        \A i \in Indices :
            files[Main][i] \in Blocks =>
                /\ latest[Main] # NoBlock
                /\ i <= Index[latest[Main]]
                /\ i = Index[latest[Main]] => files[Main][i] = latest[Main]

\* When callers take turns no block adjusts the wallets twice, and none does that is not
\* the main chain's block at its index, over crashes and restarts.
AppliedAtMostOnce ==
    \A b \in Blocks :
        /\ applied[b] <= 1
        /\ applied[b] = 1 => files[Main][Index[b]] = b

\* Every block that passed the chain state check is accepted, rejected or given
\* up with an exception: no caller is left waiting for verifyBlock or executeBlock.
EveryBlockSettles ==
    \A w \in Workers : pc[w] # "idle" ~> pc[w] = "idle"

\* The stored blocks of all chains together are a growing tree.
Tree == INSTANCE BlockTree WITH tree <- {b \in Blocks : Stored(b)}
TreeGrows == Tree!Spec
===============================================================================
