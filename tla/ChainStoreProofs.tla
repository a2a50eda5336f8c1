--------------------------- MODULE ChainStoreProofs ---------------------------
(***************************************************************************)
(* Proofs about the block store, for any tree of blocks and any number of  *)
(* callers.  Under any faults and any number of them the main chain is     *)
(* linked and never changed (MainLinked, MainImmutable), forks leave it at *)
(* their base (ForkRooted), chains are registered (ChainsRegistered) and   *)
(* no block is kept by two of them (OneHome).  The chain state names no    *)
(* index without a file unless writes fail (StateBacked).  Whenever the    *)
(* process dies between two steps only, forks are linked (ForksLinked) and *)
(* all chains together implement BlockTree (TreeGrows); and while the      *)
(* callers take turns the chain state names the last block, applied at     *)
(* most once (SerialHistory).                                              *)
(***************************************************************************)
EXTENDS ChainStoreHistory, TLAPS

USE ChainStoreAssumption

PCs == {"idle", "check", "open", "undo", "store", "wallets"}

-------------------------------------------------------------------------------
(***************************************************************************)
(* The operators the actions are built from.                               *)
(***************************************************************************)

\* verifyBlock only ever yields a well placed job.
LEMMA MatchWellPlaced ==
    ASSUME TypeOK, NEW b \in Blocks, NEW j \in Match(b)
    PROVE  /\ j \in Jobs
           /\ WellPlaced(j, files[Main], latest)
  <1>1. CASE Index[b] = 0
    BY <1>1 DEF Match, Job, Jobs, WellPlaced, ChainIDs
  <1>2. CASE Index[b] # 0
    <2>1. PICK p \in Parents(b) :
             /\ j = Job(b, IF files[p][Index[b]] \in Blocks THEN b ELSE p, p)
             /\ files[p][Index[b]] # b
      BY <1>2 DEF Match
    <2>2. /\ p \in ChainIDs
          /\ latest[p] # NoBlock
          /\ Prev[b] # NoBlock
          /\ files[p][Index[b] - 1] = Prev[b]
      BY DEF Parents
    <2>3. Index[b] > 0 /\ Prev[b] \in Blocks
      BY <1>2, <2>2 DEF Indices
    <2> QED
      BY <1>2, <2>1, <2>2, <2>3 DEF Job, Jobs, WellPlaced, Leaves, ChainIDs
  <1> QED BY <1>1, <1>2

\* A placement survives whatever keeps the main chain's blocks and the entries.
LEMMA WellPlacedKept ==
    ASSUME NEW j, NEW m, NEW n, NEW s, NEW t,
           \A i \in Indices : m[i] \in Blocks => n[i] = m[i],
           \A c \in ChainIDs : s[c] # NoBlock => t[c] # NoBlock,
           j \in Jobs, WellPlaced(j, m, s)
    PROVE  WellPlaced(j, n, t)
  <1>1. \A b \in Blocks : Index[b] \in Indices /\ (Index[b] > 0 => Index[b] - 1 \in Indices)
    BY DEF Indices
  <1>2. \A b \in Blocks : Prev[b] \in Blocks /\ Leaves(b, m) => Leaves(b, n)
    BY <1>1 DEF Leaves
  <1>3. j.block \in Blocks /\ j.parent \in ChainIDs /\ j.target \in ChainIDs
    BY DEF WellPlaced, Jobs
  <1>4. CASE Index[j.block] = 0
    BY <1>2, <1>3, <1>4 DEF WellPlaced
  <1>5. CASE Index[j.block] # 0
    <2>1. Index[j.block] - 1 \in Indices
      BY <1>1, <1>3, <1>5 DEF Indices
    <2> QED BY <1>2, <1>3, <1>5, <2>1 DEF WellPlaced
  <1> QED BY <1>4, <1>5

LEMMA FinishType ==
    ASSUME TypeOK, NEW w \in Workers, Finish(w)
    PROVE  /\ pc' \in [Workers -> PCs]
           /\ job' \in [Workers -> Jobs]
           /\ cursor' \in [Workers -> Indices]
  BY DEF Finish, TypeOK, NoJob, Jobs, ChainIDs, Indices, PCs

LEMMA HaltType ==
    ASSUME TypeOK, Halt
    PROVE  /\ node' \in {"up", "stopping", "down"}
           /\ latest' \in States
           /\ chains' \subseteq ChainIDs
           /\ locked' \subseteq ChainIDs
           /\ pc' \in [Workers -> PCs]
           /\ job' \in [Workers -> Jobs]
           /\ cursor' \in [Workers -> Indices]
  BY DEF Halt, TypeOK, NoChains, States, NoJob, Jobs, ChainIDs, Indices, PCs

\* A halted process has nothing in memory that could be wrong.
LEMMA HaltInv ==
    ASSUME Halt
    PROVE  (JobsPlaced /\ DownIsEmpty /\ ForkRooted /\ ChainsRegistered)'
  BY DEF Halt, JobsPlaced, DownIsEmpty, ForkRooted, ChainsRegistered, NoChains, ChainIDs

\* A worker that ends leaves the jobs of the others as they are.
LEMMA FinishInv ==
    ASSUME StoreInv, NEW w \in Workers, Finish(w), UNCHANGED <<stores, memory>>,
           node # "down", node' # "down"
    PROVE  (JobsPlaced /\ DownIsEmpty /\ DiskRooted /\ MainLinked /\ ForkRooted /\ ChainsRegistered)'
  <1> USE DEF StoreInv, stores, memory
  <1>1. \A v \in Workers : pc'[v] = "idle" \/ (pc'[v] = pc[v] /\ job'[v] = job[v])
    BY DEF Finish, TypeOK
  <1>2. JobsPlaced'
    BY <1>1 DEF JobsPlaced
  <1>3. DownIsEmpty'
    BY DEF DownIsEmpty
  <1>4. (DiskRooted /\ MainLinked /\ ForkRooted)'
    BY DEF DiskRooted, MainLinked, ForkRooted
  <1>5. ChainsRegistered'
    BY <1>1 DEF ChainsRegistered
  <1> QED BY <1>2, <1>3, <1>4, <1>5

LEMMA ThrowInv ==
    ASSUME StoreInv, NEW w \in Workers, pc[w] # "idle", Throw(w)
    PROVE  StoreInv'
  <1>1. node # "down"
    BY DEF StoreInv, DownIsEmpty
  <1>2. CASE node = "up"
    <2>1. TypeOK'
      BY <1>2, FinishType DEF StoreInv, Throw, TypeOK, memory, stores, PCs
    <2> QED
      BY <1>1, <1>2, <2>1, FinishInv DEF StoreInv, Throw, stores, memory
  <1>3. CASE node # "up"
    <2>1. Halt /\ UNCHANGED <<files, disk, applied, faults>>
      BY <1>3 DEF Throw, stores
    <2>2. TypeOK'
      BY <2>1, HaltType DEF StoreInv, TypeOK, PCs
    <2>3. DiskRooted' /\ MainLinked'
      BY <2>1 DEF StoreInv, DiskRooted, MainLinked
    <2> QED
      BY <2>1, <2>2, <2>3, HaltInv DEF StoreInv
  <1> QED BY <1>2, <1>3

-------------------------------------------------------------------------------
(***************************************************************************)
(* The steps.                                                              *)
(***************************************************************************)

\* What a busy worker's job says of the stores.
LEMMA BusyJob ==
    ASSUME StoreInv, NEW w \in Workers, pc[w] # "idle"
    PROVE  /\ node # "down"
           /\ job[w] \in Jobs
           /\ job[w].block \in Blocks
           /\ Index[job[w].block] \in Indices
           /\ WellPlaced(job[w], files[Main], latest)
           /\ job[w].target \in ChainIDs
           /\ job[w].parent \in ChainIDs
           /\ job[w].target = Main => job[w].parent = Main
  <1>1. node # "down" /\ job[w] \in Jobs /\ WellPlaced(job[w], files[Main], latest)
    BY DEF StoreInv, DownIsEmpty, TypeOK, JobsPlaced
  <1>2. job[w].block \in Blocks /\ job[w].target \in ChainIDs /\ job[w].parent \in ChainIDs
    BY <1>1 DEF Jobs, WellPlaced
  <1>3. job[w].target = Main => job[w].parent = Main
    BY <1>1, <1>2 DEF WellPlaced
  <1> QED BY <1>1, <1>2, <1>3

LEMMA VerifyBlockInv ==
    ASSUME StoreInv, NEW w \in Workers, NEW b \in Blocks, VerifyBlock(w, b)
    PROVE  StoreInv'
  <1> USE DEF StoreInv
  <1>1. PICK j \in Match(b) : job' = [job EXCEPT ![w] = j]
    BY DEF VerifyBlock
  <1>2. j \in Jobs /\ WellPlaced(j, files[Main], latest)
    BY MatchWellPlaced
  <1>3. pc' = [pc EXCEPT ![w] = "check"] /\ UNCHANGED <<stores, memory, cursor, node, applied, faults>>
    BY DEF VerifyBlock
  <1>4. TypeOK'
    BY <1>1, <1>2, <1>3 DEF TypeOK, stores, memory
  <1>5. JobsPlaced'
    BY <1>1, <1>2, <1>3 DEF JobsPlaced, TypeOK, stores, memory
  <1>6. DownIsEmpty'
    BY <1>3 DEF VerifyBlock, DownIsEmpty, memory
  <1>7. (DiskRooted /\ MainLinked /\ ForkRooted)'
    BY <1>3 DEF DiskRooted, MainLinked, ForkRooted, stores, memory
  <1>8. ChainsRegistered'
    BY <1>1, <1>3 DEF ChainsRegistered, TypeOK, stores, memory
  <1> QED BY <1>4, <1>5, <1>6, <1>7, <1>8

LEMMA RejectBlockInv ==
    ASSUME StoreInv, NEW w \in Workers, RejectBlock(w)
    PROVE  StoreInv'
  <1>1. /\ pc[w] # "idle" /\ Finish(w)
        /\ UNCHANGED <<stores, memory, node, applied, faults>>
    BY DEF RejectBlock
  <1>2. node # "down" /\ node' # "down"
    BY <1>1, BusyJob
  <1>3. TypeOK'
    BY <1>1, FinishType DEF StoreInv, TypeOK, stores, memory, PCs
  <1> QED BY <1>1, <1>2, <1>3, FinishInv DEF StoreInv

\* A fork's parent is the main chain, and main has an entry: the cursor starts at
\* the index of its latest block.
LEMMA ExecuteBlockInv ==
    ASSUME StoreInv, NEW w \in Workers, ExecuteBlock(w)
    PROVE  StoreInv'
  <1>1. pc[w] = "check"
    BY DEF ExecuteBlock
  <1>2. ASSUME job[w].target = job[w].parent,
               pc' = [pc EXCEPT ![w] = "store"],
               UNCHANGED <<stores, memory, job, cursor, node, applied, faults>>
        PROVE  StoreInv'
    <2> USE <1>2 DEF StoreInv, stores, memory
    <2>1. TypeOK'
      BY DEF TypeOK
    <2>2. JobsPlaced'
      BY <1>1 DEF JobsPlaced, TypeOK
    <2>3. DownIsEmpty'
      BY <1>1, BusyJob DEF DownIsEmpty
    <2>4. (DiskRooted /\ MainLinked /\ ForkRooted)'
      BY DEF DiskRooted, MainLinked, ForkRooted
    <2>5. job[w].target \in chains
      BY <1>1, BusyJob DEF WellPlaced, ChainsRegistered, DownIsEmpty
    <2>6. ChainsRegistered'
      BY <2>5 DEF ChainsRegistered, TypeOK
    <2> QED BY <2>1, <2>2, <2>3, <2>4, <2>6
  <1>3. ASSUME job[w].target # job[w].parent,
               job[w].parent = Main,
               pc' = [pc EXCEPT ![w] = "open"],
               cursor' = [cursor EXCEPT ![w] = Index[latest[Main]]],
               UNCHANGED <<stores, memory, job, node, applied, faults>>
        PROVE  StoreInv'
    <2> USE <1>3 DEF StoreInv, stores, memory
    <2>1. latest[Main] \in Blocks
      BY <1>1, BusyJob DEF WellPlaced, Leaves, TypeOK, States, ChainIDs, Indices
    <2>2. TypeOK'
      BY <2>1 DEF TypeOK
    <2>3. JobsPlaced'
      BY <1>1 DEF JobsPlaced, TypeOK
    <2>4. DownIsEmpty'
      BY <1>1, BusyJob DEF DownIsEmpty
    <2>5. (DiskRooted /\ MainLinked /\ ForkRooted)'
      BY DEF DiskRooted, MainLinked, ForkRooted
    <2>6. ChainsRegistered'
      BY DEF ChainsRegistered, TypeOK
    <2> QED BY <2>2, <2>3, <2>4, <2>5, <2>6
  <1>4. Throw(w) => StoreInv'
    BY <1>1, ThrowInv
  <1> QED BY <1>2, <1>3, <1>4 DEF ExecuteBlock, ForkCursor

LEMMA OpenForkInv ==
    ASSUME StoreInv, NEW w \in Workers, OpenFork(w)
    PROVE  StoreInv'
  <1>1. pc[w] = "open"
    BY DEF OpenFork
  <1>2. ASSUME locked' = locked \cup {job[w].target},
               chains' = chains \cup {job[w].target},
               pc' = [pc EXCEPT ![w] = "undo"],
               UNCHANGED <<stores, latest, job, cursor, node, applied, faults>>
        PROVE  StoreInv'
    <2> USE <1>2 DEF StoreInv, stores
    <2>1. TypeOK'
      BY <1>1, BusyJob DEF TypeOK
    <2>2. JobsPlaced'
      BY <1>1 DEF JobsPlaced, TypeOK
    <2>3. DownIsEmpty'
      BY <1>1, BusyJob DEF DownIsEmpty
    <2>4. (DiskRooted /\ MainLinked /\ ForkRooted)'
      BY DEF DiskRooted, MainLinked, ForkRooted
    <2>5. ChainsRegistered'
      BY DEF ChainsRegistered, TypeOK
    <2> QED BY <2>1, <2>2, <2>3, <2>4, <2>5
  <1>3. Throw(w) => StoreInv'
    BY <1>1, ThrowInv
  <1> QED BY <1>2, <1>3 DEF OpenFork

LEMMA EndUndoInv ==
    ASSUME StoreInv, NEW w \in Workers, EndUndo(w)
    PROVE  StoreInv'
  <1> USE DEF StoreInv, EndUndo, stores, memory
  <1>1. TypeOK'
    BY DEF TypeOK
  <1>2. JobsPlaced'
    BY DEF JobsPlaced, TypeOK
  <1>3. DownIsEmpty'
    BY BusyJob DEF DownIsEmpty
  <1>4. (DiskRooted /\ MainLinked /\ ForkRooted)'
    BY DEF DiskRooted, MainLinked, ForkRooted
  <1>5. ChainsRegistered'
    BY DEF ChainsRegistered, TypeOK
  <1> QED BY <1>1, <1>2, <1>3, <1>4, <1>5

\* The roll-back deletes in the fork, which is not the main chain, and its index
\* stays at or above the base block's, which is not 0.
LEMMA UndoBlockInv ==
    ASSUME StoreInv, NEW w \in Workers, UndoBlock(w)
    PROVE  StoreInv' /\ files'[Main] = files[Main]
  <1>1. pc[w] = "undo" /\ cursor[w] >= Index[job[w].block]
    BY DEF UndoBlock
  <1>2. ASSUME files' = [files EXCEPT ![job[w].target][cursor[w]] = NoBlock],
               cursor' = [cursor EXCEPT ![w] = cursor[w] - 1],
               UNCHANGED <<disk, memory, pc, job, node, applied, faults>>
        PROVE  StoreInv' /\ files'[Main] = files[Main]
    <2> USE <1>2 DEF StoreInv, memory
    <2>1. job[w].target \in Blocks /\ job[w].target # Main /\ Index[job[w].block] > 0
      BY <1>1, BusyJob DEF JobsPlaced, WellPlaced, Indices
    <2>2. files'[Main] = files[Main]
      BY <2>1 DEF TypeOK, ChainIDs
    <2>3. TypeOK'
      BY <1>1, <2>1, BusyJob DEF TypeOK, Indices, Cells
    <2>4. JobsPlaced'
      BY <2>2 DEF JobsPlaced
    <2>5. DownIsEmpty'
      BY DEF DownIsEmpty
    <2>6. (DiskRooted /\ MainLinked /\ ForkRooted)'
      BY <2>2 DEF DiskRooted, MainLinked, ForkRooted
    <2>7. ChainsRegistered'
      BY DEF ChainsRegistered
    <2> QED BY <2>2, <2>3, <2>4, <2>5, <2>6, <2>7
  <1>3. Throw(w) => StoreInv' /\ files'[Main] = files[Main]
    BY <1>1, ThrowInv DEF Throw, stores
  <1> QED BY <1>2, <1>3 DEF UndoBlock, RollBack

\* Blocks that are on the main chain stay there.
Kept(m, n) == \A i \in Indices : m[i] \in Blocks => n[i] = m[i]

\* Writing the file of a well placed job keeps main's blocks and main linked.
LEMMA AddKeepsMain ==
    ASSUME StoreInv, NEW w \in Workers, pc[w] = "store", NEW mayFail \in BOOLEAN,
           NEW cell \in Added(files[job[w].target][Index[job[w].block]], job[w].block, mayFail),
           files' = [files EXCEPT ![job[w].target][Index[job[w].block]] = cell]
    PROVE  /\ files' \in [ChainIDs -> [Indices -> Cells]]
           /\ Kept(files[Main], files'[Main])
           /\ MainLinked'
  <1> DEFINE b == job[w].block
             t == job[w].target
  <1>1. /\ b \in Blocks /\ t \in ChainIDs /\ Index[b] \in Indices
        /\ t = Main => job[w].parent = Main
        /\ WellPlaced(job[w], files[Main], latest)
    BY BusyJob
  <1>2. files[t][Index[b]] \in Cells
    BY <1>1 DEF StoreInv, TypeOK
  <1>3. cell \in Cells /\ (files[t][Index[b]] \in Blocks => cell = files[t][Index[b]])
    BY <1>1, <1>2 DEF Added, Cells, ChainIDs
  <1>4. files' \in [ChainIDs -> [Indices -> Cells]]
    BY <1>1, <1>3 DEF StoreInv, TypeOK
  <1>5. \A i \in Indices : files'[Main][i] = IF t = Main /\ i = Index[b] THEN cell ELSE files[Main][i]
    BY <1>1 DEF StoreInv, TypeOK, ChainIDs
  <1>6. Kept(files[Main], files'[Main])
    BY <1>3, <1>5 DEF Kept
  <1>7. MainLinked'
    <2> SUFFICES ASSUME NEW i \in Indices \ {0}, files'[Main][i] \in Blocks
                 PROVE  /\ files'[Main][i - 1] \in Blocks
                        /\ files'[Main][i - 1] = Prev[files'[Main][i]]
      BY DEF MainLinked
    <2>1. i - 1 \in Indices /\ i \in Indices
      BY DEF Indices
    <2>2. CASE files'[Main][i] = files[Main][i]
      BY <1>6, <2>1, <2>2 DEF StoreInv, MainLinked, Kept
    <2>3. CASE files'[Main][i] # files[Main][i]
      <3>1. t = Main /\ i = Index[b] /\ files'[Main][i] = cell
        BY <1>5, <2>1, <2>3
      <3>2. cell = b
        BY <1>1, <2>3, <3>1 DEF Added, Cells, ChainIDs
      <3>3. files[Main][i - 1] \in Blocks /\ files[Main][i - 1] = Prev[b]
        BY <1>1, <3>1 DEF WellPlaced
      <3> QED BY <1>6, <2>1, <3>1, <3>2, <3>3 DEF Kept
    <2> QED BY <2>2, <2>3
  <1> QED BY <1>4, <1>6, <1>7

\* A fork that left the main chain has still left it: the block before is on the
\* main chain too, because main is linked.
LEMMA LeavesKept ==
    ASSUME StoreInv, NEW n, Kept(files[Main], n), NEW f \in Blocks, Leaves(f, files[Main])
    PROVE  Leaves(f, n)
  <1>1. Index[f] \in Indices \ {0} /\ Index[f] - 1 \in Indices
    BY DEF Leaves, Indices
  <1>2. files[Main][Index[f] - 1] \in Blocks
    BY <1>1 DEF Leaves, StoreInv, MainLinked
  <1> QED BY <1>1, <1>2 DEF Leaves, Kept

LEMMA StoreBlockInv ==
    ASSUME StoreInv, NEW w \in Workers, StoreBlock(w)
    PROVE  StoreInv' /\ Kept(files[Main], files'[Main])
  <1> DEFINE b == job[w].block
             t == job[w].target
             p == job[w].parent
  <1>1. pc[w] = "store"
    BY DEF StoreBlock
  <1>2. /\ node # "down" /\ b \in Blocks /\ t \in ChainIDs /\ p \in ChainIDs
        /\ Index[b] \in Indices /\ WellPlaced(job[w], files[Main], latest)
    BY <1>1, BusyJob
  <1>3. PICK cell \in Added(files[t][Index[b]], b, "io" \in Faults /\ faults < MaxFaults),
             state \in {latest'} \cup (IF "io" \in Faults /\ faults < MaxFaults THEN {disk, Torn} ELSE {}) :
          /\ files' = [files EXCEPT ![t][Index[b]] = cell]
          /\ disk' = state
          /\ faults' = IF cell \in {files[t][Index[b]], b} \ {NoBlock} /\ state = latest'
                       THEN faults ELSE faults + 1
    BY DEF StoreBlock
  <1>4. latest' = [latest EXCEPT ![t] = b] /\ UNCHANGED <<chains, locked, node, applied>>
    BY DEF StoreBlock
  <1>5. /\ files' \in [ChainIDs -> [Indices -> Cells]]
        /\ Kept(files[Main], files'[Main])
        /\ MainLinked'
    BY <1>1, <1>3, AddKeepsMain
  <1>6. latest' \in States /\ disk' \in States \cup {Torn}
    BY <1>2, <1>3, <1>4 DEF StoreInv, TypeOK, States
  <1>7. faults' \in 0..MaxFaults
    <2>1. CASE "io" \in Faults /\ faults < MaxFaults
      BY <1>3, <2>1 DEF StoreInv, TypeOK
    <2>2. CASE ~("io" \in Faults /\ faults < MaxFaults)
      <3>1. state = latest'
        BY <1>3, <2>2
      <3>2. cell \in {files[t][Index[b]], b} /\ cell # NoBlock
        BY <1>2, <1>3, <2>2 DEF Added, ChainIDs
      <3> QED BY <1>3, <3>1, <3>2 DEF StoreInv, TypeOK
    <2> QED BY <2>1, <2>2
  <1>8. /\ pc' \in [Workers -> PCs] /\ job' \in [Workers -> Jobs] /\ cursor' \in [Workers -> Indices]
        /\ \A v \in Workers :
             \/ pc'[v] = "idle"
             \/ pc'[v] = pc[v] /\ job'[v] = job[v]
             \/ v = w /\ pc'[v] = "wallets" /\ job'[v] = job[v]
    <2>1. CASE t = Main
      <3>1. pc' = [pc EXCEPT ![w] = "wallets"] /\ job' = job /\ cursor' = cursor
        BY <2>1 DEF StoreBlock, TouchesWallets
      <3> QED BY <3>1 DEF StoreInv, TypeOK, PCs
    <2>2. CASE t # Main
      <3>1. Finish(w)
        BY <2>2 DEF StoreBlock, TouchesWallets
      <3>2. \A v \in Workers : pc'[v] = "idle" \/ (pc'[v] = pc[v] /\ job'[v] = job[v])
        BY <3>1 DEF StoreInv, Finish, TypeOK
      <3> QED BY <3>1, <3>2, FinishType DEF StoreInv
    <2> QED BY <2>1, <2>2
  <1>9. TypeOK'
    BY <1>4, <1>5, <1>6, <1>7, <1>8 DEF StoreInv, TypeOK, PCs
  <1>10. \A c \in ChainIDs : latest[c] # NoBlock => latest'[c] # NoBlock
    BY <1>2, <1>4 DEF StoreInv, TypeOK, States, ChainIDs
  <1>11. JobsPlaced'
    <2> SUFFICES ASSUME NEW v \in Workers, pc'[v] # "idle"
                 PROVE  /\ WellPlaced(job'[v], files'[Main], latest')
                        /\ pc'[v] \in {"open", "undo"} => job'[v].target # job'[v].parent
                        /\ pc'[v] \in {"open", "undo", "store", "wallets"} =>
                              job'[v].target = job'[v].parent \/ job'[v].parent = Main
      BY DEF JobsPlaced
    <2>1. pc[v] # "idle" /\ job'[v] = job[v] /\ job[v] \in Jobs
      BY <1>1, <1>8 DEF StoreInv, TypeOK
    <2>2. WellPlaced(job[v], files'[Main], latest')
      BY <1>5, <1>10, <2>1, BusyJob, WellPlacedKept DEF Kept
    <2> QED BY <1>1, <1>8, <2>1, <2>2 DEF StoreInv, JobsPlaced
  <1>12. DownIsEmpty'
    BY <1>2, <1>4 DEF StoreInv, DownIsEmpty
  <1>13. ForkRooted'
    <2> SUFFICES ASSUME NEW f \in Blocks, latest'[f] # NoBlock
                 PROVE  Leaves(f, files'[Main])
      BY DEF ForkRooted
    <2>1. CASE latest[f] # NoBlock
      BY <1>5, <2>1, LeavesKept DEF StoreInv, ForkRooted
    <2>2. CASE latest[f] = NoBlock
      <3>1. f = t
        BY <1>4, <2>2 DEF StoreInv, TypeOK, States, ChainIDs
      <3>2. t # p
        BY <1>2, <2>2, <3>1 DEF WellPlaced
      <3>3. f = b /\ Leaves(b, files[Main])
        BY <1>1, <1>2, <3>1, <3>2 DEF StoreInv, JobsPlaced, WellPlaced
      <3> QED BY <1>5, <3>3, LeavesKept
    <2> QED BY <2>1, <2>2
  <1>14. DiskRooted'
    <2> SUFFICES ASSUME disk' # Torn, NEW f \in Blocks, disk'[f] # NoBlock
                 PROVE  Leaves(f, files'[Main])
      BY DEF DiskRooted
    <2>1. CASE disk' = latest'
      BY <1>13, <2>1 DEF ForkRooted
    <2>2. CASE disk' = disk
      BY <1>5, <2>2, LeavesKept DEF StoreInv, DiskRooted
    <2> QED BY <1>3, <2>1, <2>2
  <1>15. ChainsRegistered'
    <2>1. t \in chains
      BY <1>1 DEF StoreInv, ChainsRegistered
    <2> QED BY <1>1, <1>2, <1>4, <1>8, <2>1 DEF StoreInv, ChainsRegistered, TypeOK, States
  <1> QED BY <1>5, <1>9, <1>11, <1>12, <1>13, <1>14, <1>15 DEF StoreInv

LEMMA CrashInStoreInv ==
    ASSUME StoreInv, NEW w \in Workers, CrashInStore(w)
    PROVE  StoreInv' /\ Kept(files[Main], files'[Main])
  <1> DEFINE b == job[w].block
             t == job[w].target
  <1>1. /\ pc[w] = "store" /\ faults < MaxFaults /\ faults' = faults + 1
        /\ Halt /\ UNCHANGED applied
    BY DEF CrashInStore
  <1>2. PICK cell \in Added(files[t][Index[b]], b, TRUE) :
          /\ files' = [files EXCEPT ![t][Index[b]] = cell]
          /\ disk' \in {disk, Torn}
    BY DEF CrashInStore, StatesAfterCrash
  <1>3. /\ files' \in [ChainIDs -> [Indices -> Cells]]
        /\ Kept(files[Main], files'[Main])
        /\ MainLinked'
    BY <1>1, <1>2, AddKeepsMain
  <1>4. TypeOK'
    BY <1>1, <1>2, <1>3, HaltType DEF StoreInv, TypeOK, PCs
  <1>5. DiskRooted'
    BY <1>2, <1>3, LeavesKept DEF StoreInv, DiskRooted
  <1> QED BY <1>1, <1>3, <1>4, <1>5, HaltInv DEF StoreInv

LEMMA AdjustWalletsInv ==
    ASSUME StoreInv, NEW w \in Workers, AdjustWallets(w)
    PROVE  StoreInv'
  <1>1. /\ pc[w] # "idle" /\ Finish(w)
        /\ UNCHANGED <<stores, memory, node, faults>>
    BY DEF AdjustWallets
  <1>2. node # "down" /\ node' # "down" /\ job[w].block \in Blocks
    BY <1>1, BusyJob
  <1>3. applied' \in [Blocks -> 0..2]
    BY DEF AdjustWallets, StoreInv, TypeOK
  <1>4. TypeOK'
    BY <1>1, <1>3, FinishType DEF StoreInv, TypeOK, stores, memory, PCs
  <1> QED BY <1>1, <1>2, <1>4, FinishInv DEF StoreInv

\* The end of the process, orderly or not.
LEMMA HaltingInv ==
    ASSUME StoreInv, Exit \/ Crash
    PROVE  StoreInv' /\ files' = files
  <1>1. Halt /\ files' = files /\ applied' = applied /\ disk' \in {disk, latest}
        /\ faults' \in 0..MaxFaults
    BY DEF StoreInv, TypeOK, Exit, Crash, stores
  <1>2. TypeOK'
    <2>1. disk' \in States \cup {Torn}
      BY <1>1 DEF StoreInv, TypeOK
    <2> QED BY <1>1, <2>1, HaltType DEF StoreInv, TypeOK, PCs
  <1>3. DiskRooted' /\ MainLinked'
    BY <1>1 DEF StoreInv, DiskRooted, ForkRooted, MainLinked
  <1> QED BY <1>1, <1>2, <1>3, HaltInv DEF StoreInv

LEMMA GracefulShutdownInv ==
    ASSUME StoreInv, GracefulShutdown
    PROVE  StoreInv'
  BY DEF StoreInv, GracefulShutdown, stores, memory, tasks, TypeOK, JobsPlaced, DownIsEmpty,
         DiskRooted, MainLinked, ForkRooted, ChainsRegistered

LEMMA RestartInv ==
    ASSUME StoreInv, Restart
    PROVE  StoreInv' /\ files' = files
  <1> USE DEF StoreInv, Restart, Opened, stores, tasks
  <1>1. latest' \in States /\ \A w \in Workers : pc'[w] = "idle"
    BY DEF TypeOK, States, NoChains, DownIsEmpty
  <1>2. TypeOK'
    <2>1. Main \in ChainIDs
      BY DEF ChainIDs
    <2> QED BY <1>1, <2>1 DEF TypeOK
  <1>3. JobsPlaced'
    BY <1>1 DEF JobsPlaced
  <1>4. ForkRooted'
    BY DEF ForkRooted, DiskRooted, NoChains, ChainIDs
  <1>5. ChainsRegistered' /\ DownIsEmpty'
    BY <1>1 DEF ChainsRegistered, DownIsEmpty
  <1>6. DiskRooted' /\ MainLinked'
    BY DEF DiskRooted, MainLinked
  <1> QED BY <1>2, <1>3, <1>4, <1>5, <1>6

-------------------------------------------------------------------------------
(***************************************************************************)
(* The theorems.                                                           *)
(***************************************************************************)

LEMMA InitInv == Init => StoreInv
  <1> SUFFICES ASSUME Init PROVE StoreInv
    OBVIOUS
  <1> USE DEF Init, NoChains
  <1>1. TypeOK
    BY DEF TypeOK, States, NoJob, Jobs, ChainIDs, Cells, Indices
  <1>2. JobsPlaced /\ DownIsEmpty /\ DiskRooted /\ ForkRooted /\ ChainsRegistered
    BY DEF JobsPlaced, DownIsEmpty, DiskRooted, ForkRooted, ChainsRegistered, ChainIDs
  <1>3. MainLinked
    BY DEF MainLinked, ChainIDs
  <1> QED BY <1>1, <1>2, <1>3 DEF StoreInv

\* Every step keeps the invariant, and the blocks of the main chain.
LEMMA StepInv ==
    ASSUME StoreInv, [Next]_vars
    PROVE  StoreInv' /\ Kept(files[Main], files'[Main])
  <1> DEFINE Good == StoreInv' /\ Kept(files[Main], files'[Main])
  <1>1. files' = files => Kept(files[Main], files'[Main])
    BY DEF Kept
  <1>2. ASSUME NEW w \in Workers, Step(w) PROVE Good
    <2>1. CASE RejectBlock(w)
      BY <1>1, <2>1, RejectBlockInv DEF RejectBlock, stores
    <2>2. CASE ExecuteBlock(w)
      BY <1>1, <2>2, ExecuteBlockInv DEF ExecuteBlock, Throw, stores
    <2>3. CASE OpenFork(w)
      BY <1>1, <2>3, OpenForkInv DEF OpenFork, Throw, stores
    <2>4. CASE UndoBlock(w)
      BY <2>4, UndoBlockInv DEF Kept
    <2>5. CASE EndUndo(w)
      BY <1>1, <2>5, EndUndoInv DEF EndUndo, stores
    <2>6. CASE StoreBlock(w)
      BY <2>6, StoreBlockInv
    <2>7. CASE AdjustWallets(w)
      BY <1>1, <2>7, AdjustWalletsInv DEF AdjustWallets, stores
    <2> QED BY <1>2, <2>1, <2>2, <2>3, <2>4, <2>5, <2>6, <2>7 DEF Step
  <1>3. ASSUME NEW w \in Workers, CrashInStore(w) PROVE Good
    BY <1>3, CrashInStoreInv
  <1>4. ASSUME NEW w \in Workers, NEW b \in Blocks, VerifyBlock(w, b) PROVE Good
    BY <1>1, <1>4, VerifyBlockInv DEF VerifyBlock, stores
  <1>5. CASE GracefulShutdown
    BY <1>1, <1>5, GracefulShutdownInv DEF GracefulShutdown, stores
  <1>6. CASE Exit \/ Crash
    BY <1>1, <1>6, HaltingInv
  <1>7. CASE Restart
    BY <1>1, <1>7, RestartInv
  <1>8. CASE UNCHANGED vars
    BY <1>1, <1>8 DEF vars, stores, memory, tasks, StoreInv, TypeOK, JobsPlaced, DownIsEmpty,
                      DiskRooted, MainLinked, ForkRooted, ChainsRegistered
  <1> QED BY <1>2, <1>3, <1>4, <1>5, <1>6, <1>7, <1>8 DEF Next

\* The inductive invariant: whatever callers interleave, crash or fail to write.
THEOREM StoreInvariant == Spec => []StoreInv
  <1>1. StoreInv /\ [Next]_vars => StoreInv'
    BY StepInv
  <1> QED BY InitInv, <1>1, PTL DEF Spec

\* The variables of the block store keep their types; the roll-back index of
\* createFork never leaves the range of block indices.
THEOREM TypeCorrect == Spec => []TypeOK
  <1>1. StoreInv => TypeOK
    BY DEF StoreInv
  <1> QED BY StoreInvariant, <1>1, PTL

\* The main chain is linked by previousHash at all times.
THEOREM MainChainLinked == Spec => []MainLinked
  <1>1. StoreInv => MainLinked
    BY DEF StoreInv
  <1> QED BY StoreInvariant, <1>1, PTL

\* Every fork in the chain state leaves the main chain at its base block.
THEOREM ForksLeaveMain == Spec => []ForkRooted
  <1>1. StoreInv => ForkRooted
    BY DEF StoreInv
  <1> QED BY StoreInvariant, <1>1, PTL

\* No lookup in Blockchain.chains misses.
THEOREM LookupsHit == Spec => []ChainsRegistered
  <1>1. StoreInv => ChainsRegistered
    BY DEF StoreInv
  <1> QED BY StoreInvariant, <1>1, PTL

\* No step replaces or deletes a block of the main chain.
THEOREM MainChainImmutable == Spec => MainImmutable
  <1>1. StoreInv /\ [Next]_vars =>
          [\A i \in Indices : files[Main][i] \in Blocks => files'[Main][i] = files[Main][i]]_files
    BY StepInv DEF Kept
  <1> QED BY StoreInvariant, <1>1, PTL DEF Spec, MainImmutable



-------------------------------------------------------------------------------
(***************************************************************************)
(* The tree of the blocks.                                                 *)
(***************************************************************************)

Child(y, x) == Prev[y] = x /\ Index[y] = Index[x] + 1

\* Block b descends from block f, or is f: it is in every set that holds f and the
\* children of its members.
Below(b, f) ==
    \A S \in SUBSET Blocks :
        f \in S /\ (\A x \in S : \A y \in Blocks : Child(y, x) => y \in S) => b \in S

\* What is shown of f and from a block for its children is shown of all below f.
LEMMA BelowInduction ==
    ASSUME NEW f \in Blocks, NEW b, Below(b, f), NEW S \in SUBSET Blocks, f \in S,
           \A x \in S : \A y \in Blocks : Child(y, x) => y \in S
    PROVE  b \in S
  BY DEF Below

LEMMA BelowSelf == ASSUME NEW f \in Blocks PROVE Below(f, f)
  BY DEF Below

LEMMA BelowChild ==
    ASSUME NEW f \in Blocks, NEW x, NEW y \in Blocks, Below(x, f), Child(y, x)
    PROVE  Below(y, f)
  BY DEF Below

\* A block below f that is not f is a child of one below f.
LEMMA BelowParent ==
    ASSUME NEW f \in Blocks, NEW b, Below(b, f), b # f
    PROVE  \E x \in Blocks : Child(b, x) /\ Below(x, f)
  <1> DEFINE S == {x \in Blocks : Below(x, f) /\ (x = f \/ \E z \in Blocks : Child(x, z) /\ Below(z, f))}
  <1>1. S \in SUBSET Blocks /\ f \in S
    BY BelowSelf
  <1>2. ASSUME NEW x \in S, NEW y \in Blocks, Child(y, x) PROVE y \in S
    <2>1. x \in Blocks /\ Below(x, f)
      OBVIOUS
    <2>2. Below(y, f)
      BY <1>2, <2>1, BelowChild
    <2> QED BY <1>2, <2>1, <2>2
  <1>3. b \in S
    <2> HIDE DEF S
    <2> QED BY <1>1, <1>2, BelowInduction
  <1> QED BY <1>3

\* Of two blocks above the same one, one is above the other.
LEMMA BelowCompare ==
    ASSUME NEW c \in Blocks, NEW d \in Blocks, NEW b, Below(b, c), Below(b, d)
    PROVE  Below(c, d) \/ Below(d, c)
  <1> DEFINE S == {x \in Blocks : Below(x, d) /\ (Below(x, c) => Below(c, d) \/ Below(d, c))}
  <1>1. S \in SUBSET Blocks /\ d \in S
    BY BelowSelf
  <1>2. ASSUME NEW x \in S, NEW y \in Blocks, Child(y, x) PROVE y \in S
    <2>1. x \in Blocks /\ Below(x, d) /\ (Below(x, c) => Below(c, d) \/ Below(d, c))
      OBVIOUS
    <2>2. Below(y, d)
      BY <1>2, <2>1, BelowChild
    <2>3. ASSUME Below(y, c), y # c PROVE Below(c, d) \/ Below(d, c)
      <3>1. PICK z \in Blocks : Child(y, z) /\ Below(z, c)
        BY <2>3, BelowParent
      <3>2. z = x
        BY <1>2, <3>1 DEF Child
      <3> QED BY <2>1, <3>1, <3>2
    <2>4. y = c => Below(c, d)
      BY <2>2
    <2> QED BY <2>2, <2>3, <2>4
  <1>3. b \in S
    <2> HIDE DEF S
    <2> QED BY <1>1, <1>2, BelowInduction
  <1> QED BY <1>3

-------------------------------------------------------------------------------
(***************************************************************************)
(* The invariant behind OneHome.                                           *)
(***************************************************************************)

\* Worker w is creating the fork it will store its block in, from the moment LevelDB
\* opened the fork's databases.
Creating(w) == pc[w] = "undo" \/ (pc[w] = "store" /\ job[w].target # job[w].parent)

\* A fork that is being created is open and has no entry yet.
Owned == \A w \in Workers : Creating(w) => job[w].target \in locked /\ latest[job[w].target] = NoBlock

\* LevelDB lets one caller only create it.
OneCreator ==
    \A v, w \in Workers : v # w /\ Creating(v) /\ Creating(w) => job[v].target # job[w].target

\* A chain with an entry is open, and so is the main chain of a node that runs.
EntriesLocked ==
    /\ \A c \in ChainIDs : latest[c] # NoBlock => c \in locked
    /\ node # "down" => Main \in locked

\* From the check of a block until it is stored, its predecessor stays in the file before.
Follows(j, fs) ==
    Index[j.block] # 0 =>
        Prev[j.block] \in Blocks /\ fs[j.parent][Index[j.block] - 1] = Prev[j.block]
FollowsParent == \A w \in Workers : pc[w] # "idle" => Follows(job[w], files)

\* A file holds a block of its index.
IndexedFiles ==
    \A c \in ChainIDs : \A i \in Indices : files[c][i] \in Blocks => Index[files[c][i]] = i

\* A fork that has files left the main chain, even if no chain state names it any more, and
\* all they hold are its base block and blocks that descend from it.
Descends ==
    \A f \in Blocks : \A i \in Indices :
        files[f][i] \in Blocks => Below(files[f][i], f) /\ Leaves(f, files[Main])

HomeInv ==
    /\ StoreInv
    /\ Owned /\ OneCreator /\ EntriesLocked /\ FollowsParent
    /\ IndexedFiles /\ Descends

\* A block of the main chain that descends from d has d before it on the main chain.
LEMMA AboveMain ==
    ASSUME HomeInv, NEW b \in Blocks, NEW d \in Blocks,
           files[Main][Index[b]] = b, Below(b, d)
    PROVE  files[Main][Index[d]] = d
  <1> DEFINE On(x) == files[Main][Index[x]] = x
             S == {x \in Blocks : On(x) => On(d)}
  <1>1. S \in SUBSET Blocks /\ d \in S
    OBVIOUS
  <1>2. ASSUME NEW x \in S, NEW y \in Blocks, Child(y, x) PROVE y \in S
    <2> SUFFICES ASSUME On(y) PROVE On(d)
      OBVIOUS
    <2>1. x \in Blocks /\ Index[x] \in Nat /\ Index[y] \in Indices
      BY ChainStoreAssumption DEF Indices
    <2>2. Index[y] \in Indices \ {0} /\ Index[y] - 1 = Index[x]
      BY <1>2, <2>1 DEF Child, Indices
    <2>3. files[Main][Index[y] - 1] = Prev[files[Main][Index[y]]]
      BY <2>2 DEF HomeInv, StoreInv, MainLinked
    <2>4. files[Main][Index[x]] = x
      BY <1>2, <2>2, <2>3 DEF Child
    <2> QED BY <2>4
  <1>3. b \in S
    <2> HIDE DEF S
    <2> QED BY <1>1, <1>2, BelowInduction
  <1> QED BY <1>3

\* No block has two homes: a fork never shares a block with the main chain, since its base
\* would be on the main chain, nor with a fork, since one base would descend from the other.
LEMMA HomeIsOne == HomeInv => OneHome
  <1> SUFFICES ASSUME HomeInv PROVE OneHome
    OBVIOUS
  <1>1. ASSUME NEW f \in Blocks, NEW b \in Blocks, files[f][Index[b]] = b
        PROVE  Below(b, f) /\ Leaves(f, files[Main])
    <2>1. Index[b] \in Indices
      BY ChainStoreAssumption
    <2> QED BY <1>1, <2>1 DEF HomeInv, Descends
  <1>2. ASSUME NEW f \in Blocks, Leaves(f, files[Main]), files[Main][Index[f]] = f PROVE FALSE
    BY <1>2 DEF Leaves
  <1>3. ASSUME NEW f \in Blocks, NEW b \in Blocks, files[f][Index[b]] = b, files[Main][Index[b]] = b
        PROVE  FALSE
    <2>1. Below(b, f) /\ Leaves(f, files[Main])
      BY <1>1, <1>3
    <2> QED BY <1>2, <1>3, <2>1, AboveMain
  <1>4. ASSUME NEW c \in Blocks, NEW d \in Blocks, c # d, Below(c, d),
               Leaves(c, files[Main]), Leaves(d, files[Main])
        PROVE  FALSE
    <2>1. PICK x \in Blocks : Child(c, x) /\ Below(x, d)
      BY <1>4, BelowParent
    <2>2. Index[c] - 1 = Index[x] /\ Prev[c] = x
      BY <2>1, ChainStoreAssumption DEF Child, Indices
    <2>3. files[Main][Index[x]] = x
      BY <1>4, <2>2 DEF Leaves
    <2> QED BY <1>2, <1>4, <2>1, <2>3, AboveMain
  <1>5. ASSUME NEW c \in Blocks, NEW d \in Blocks, NEW b \in Blocks, c # d,
               files[c][Index[b]] = b, files[d][Index[b]] = b
        PROVE  FALSE
    <2>1. Below(b, c) /\ Leaves(c, files[Main]) /\ Below(b, d) /\ Leaves(d, files[Main])
      BY <1>1, <1>5
    <2>2. Below(c, d) \/ Below(d, c)
      BY <2>1, BelowCompare
    <2> QED BY <1>4, <1>5, <2>1, <2>2
  <1> QED BY <1>3, <1>5 DEF OneHome, ChainIDs

-------------------------------------------------------------------------------
(***************************************************************************)
(* The steps keep it.                                                      *)
(***************************************************************************)

\* What HomeInv adds to StoreInv and the files alone do not decide.
Placing == Owned /\ OneCreator /\ EntriesLocked /\ FollowsParent

\* Nobody is busy in a process that is gone, and no chain has an entry.
LEMMA HaltCallers == ASSUME Halt PROVE Placing'
  <1>1. /\ node' = "down" /\ \A w \in Workers : pc'[w] = "idle"
        /\ \A c \in ChainIDs : latest'[c] = NoBlock
    BY DEF Halt, NoChains
  <1> QED BY <1>1 DEF Placing, Owned, OneCreator, Creating, EntriesLocked, FollowsParent

LEMMA SameFiles == ASSUME HomeInv, files' = files PROVE IndexedFiles' /\ Descends'
  BY DEF HomeInv, IndexedFiles, Descends

\* Callers that end, or wait for something else than the creation of a fork, leave the
\* others what they had.
LEMMA QuietCallers ==
    ASSUME HomeInv, UNCHANGED <<files, latest, locked>>, node' # "down", node # "down",
           \A w \in Workers :
              \/ pc'[w] = "idle"
              \/ pc[w] # "idle" /\ job'[w] = job[w] /\ (Creating(w)' => Creating(w))
    PROVE  Placing'
  <1>1. ASSUME NEW w \in Workers, Creating(w)'
        PROVE  Creating(w) /\ job'[w] = job[w]
    BY <1>1 DEF Creating
  <1>2. Owned'
    <2>1. ASSUME NEW w \in Workers, Creating(w)'
          PROVE  job'[w].target \in locked' /\ latest'[job'[w].target] = NoBlock
      BY <1>1, <2>1 DEF HomeInv, Owned
    <2> QED BY <2>1 DEF Owned
  <1>3. OneCreator'
    <2>1. ASSUME NEW v \in Workers, NEW w \in Workers, v # w, Creating(v)', Creating(w)'
          PROVE  job'[v].target # job'[w].target
      BY <1>1, <2>1 DEF HomeInv, OneCreator
    <2> QED BY <2>1 DEF OneCreator
  <1>4. EntriesLocked'
    BY DEF HomeInv, EntriesLocked
  <1>5. FollowsParent'
    <2>1. ASSUME NEW w \in Workers, pc'[w] # "idle" PROVE Follows(job'[w], files')
      <3>1. Follows(job[w], files) /\ job'[w] = job[w]
        BY <2>1 DEF HomeInv, FollowsParent
      <3> QED BY <3>1 DEF Follows
    <2> QED BY <2>1 DEF FollowsParent
  <1> QED BY <1>2, <1>3, <1>4, <1>5 DEF Placing

\* A caller that ends.
LEMMA FinishCallers ==
    ASSUME HomeInv, NEW w \in Workers, pc[w] # "idle", Finish(w), node' # "down",
           UNCHANGED <<files, latest, locked>>
    PROVE  Placing'
  <1>1. pc' = [pc EXCEPT ![w] = "idle"] /\ job' = [job EXCEPT ![w] = NoJob]
    BY DEF Finish
  <1>2. pc \in [Workers -> PCs] /\ job \in [Workers -> Jobs]
    BY DEF HomeInv, StoreInv, TypeOK, PCs
  <1>3. node # "down"
    BY BusyJob DEF HomeInv
  <1>4. \A v \in Workers :
           \/ pc'[v] = "idle"
           \/ pc[v] # "idle" /\ job'[v] = job[v] /\ (Creating(v)' => Creating(v))
    <2>1. ASSUME NEW v \in Workers, pc'[v] # "idle"
          PROVE  pc[v] # "idle" /\ job'[v] = job[v] /\ (Creating(v)' => Creating(v))
      <3>1. v # w /\ pc'[v] = pc[v] /\ job'[v] = job[v]
        BY <1>1, <1>2, <2>1
      <3> QED BY <2>1, <3>1 DEF Creating
    <2> QED BY <2>1
  <1> QED BY <1>3, <1>4, QuietCallers

LEMMA ThrowCallers ==
    ASSUME HomeInv, NEW w \in Workers, pc[w] # "idle", Throw(w)
    PROVE  Placing' /\ files' = files /\ disk' = disk
  <1>1. files' = files /\ disk' = disk
    BY DEF Throw, stores
  <1>2. CASE node = "up"
    BY <1>1, <1>2, FinishCallers DEF Throw, memory
  <1>3. CASE node # "up"
    BY <1>1, <1>3, HaltCallers DEF Throw
  <1> QED BY <1>1, <1>2, <1>3

\* verifyBlock finds the predecessor in the parent chain.
LEMMA MatchFollows ==
    ASSUME HomeInv, NEW b \in Blocks, NEW j \in Match(b)
    PROVE  Follows(j, files)
  <1>1. CASE Index[b] = 0
    <2>1. j.block = b
      BY <1>1 DEF Match, Job
    <2> QED BY <1>1, <2>1 DEF Follows
  <1>2. CASE Index[b] # 0
    <2>1. PICK p \in Parents(b) : j = Job(b, IF files[p][Index[b]] \in Blocks THEN b ELSE p, p)
      BY <1>2 DEF Match
    <2>2. Prev[b] # NoBlock /\ files[p][Index[b] - 1] = Prev[b] /\ j.block = b /\ j.parent = p
      BY <2>1 DEF Parents, Job
    <2>3. Prev[b] \in Blocks
      BY <2>2, ChainStoreAssumption
    <2> QED BY <2>2, <2>3 DEF Follows
  <1> QED BY <1>1, <1>2

LEMMA VerifyBlockHome ==
    ASSUME HomeInv, NEW w \in Workers, NEW b \in Blocks, VerifyBlock(w, b)
    PROVE  Placing'
  <1>1. PICK j \in Match(b) : job' = [job EXCEPT ![w] = j]
    BY DEF VerifyBlock
  <1>2. /\ pc' = [pc EXCEPT ![w] = "check"] /\ pc[w] = "idle" /\ node # "down" /\ node' = node
        /\ files' = files /\ latest' = latest /\ locked' = locked
    BY DEF VerifyBlock, stores, memory
  <1>3. pc \in [Workers -> PCs] /\ job \in [Workers -> Jobs]
    BY DEF HomeInv, StoreInv, TypeOK, PCs
  <1>4. \A v \in Workers : v # w => pc'[v] = pc[v] /\ job'[v] = job[v]
    BY <1>1, <1>2, <1>3
  <1>5. pc'[w] = "check" /\ job'[w] = j
    BY <1>1, <1>2, <1>3
  <1>6. ASSUME NEW v \in Workers, Creating(v)'
        PROVE  Creating(v) /\ job'[v] = job[v]
    <2>1. v # w
      BY <1>5, <1>6 DEF Creating
    <2> QED BY <1>4, <1>6, <2>1 DEF Creating
  <1>7. Owned'
    <2>1. ASSUME NEW v \in Workers, Creating(v)'
          PROVE  job'[v].target \in locked' /\ latest'[job'[v].target] = NoBlock
      BY <1>2, <1>6, <2>1 DEF HomeInv, Owned
    <2> QED BY <2>1 DEF Owned
  <1>8. OneCreator'
    <2>1. ASSUME NEW u \in Workers, NEW v \in Workers, u # v, Creating(u)', Creating(v)'
          PROVE  job'[u].target # job'[v].target
      BY <1>6, <2>1 DEF HomeInv, OneCreator
    <2> QED BY <2>1 DEF OneCreator
  <1>9. EntriesLocked'
    BY <1>2 DEF HomeInv, EntriesLocked
  <1>10. FollowsParent'
    <2>1. ASSUME NEW v \in Workers, pc'[v] # "idle" PROVE Follows(job'[v], files')
      <3>1. Follows(job'[v], files)
        <4>1. CASE v = w
          BY <1>5, <4>1, MatchFollows
        <4>2. CASE v # w
          BY <1>4, <2>1, <4>2 DEF HomeInv, FollowsParent
        <4> QED BY <4>1, <4>2
      <3> QED BY <1>2, <3>1 DEF Follows
    <2> QED BY <2>1 DEF FollowsParent
  <1> QED BY <1>7, <1>8, <1>9, <1>10 DEF Placing

\* Only the way over "open" leads to the creation of a fork.
LEMMA ExecuteBlockHome ==
    ASSUME HomeInv, NEW w \in Workers, ExecuteBlock(w)
    PROVE  Placing' /\ files' = files /\ disk' = disk
  <1>1. pc[w] = "check"
    BY DEF ExecuteBlock
  <1>2. node # "down" /\ pc \in [Workers -> PCs]
    BY <1>1, BusyJob DEF HomeInv, StoreInv, TypeOK, PCs
  <1>3. ASSUME NEW q \in {"store", "open"}, q = "store" => job[w].target = job[w].parent,
               pc' = [pc EXCEPT ![w] = q], job' = job, node' = node,
               UNCHANGED <<files, latest, locked>>
        PROVE  Placing'
    <2>1. \A v \in Workers :
             \/ pc'[v] = "idle"
             \/ pc[v] # "idle" /\ job'[v] = job[v] /\ (Creating(v)' => Creating(v))
      <3>1. ASSUME NEW v \in Workers, pc'[v] # "idle"
            PROVE  pc[v] # "idle" /\ job'[v] = job[v] /\ (Creating(v)' => Creating(v))
        <4>1. CASE v = w
          BY <1>1, <1>2, <1>3, <4>1 DEF Creating
        <4>2. CASE v # w
          BY <1>2, <1>3, <3>1, <4>2 DEF Creating
        <4> QED BY <4>1, <4>2
      <3> QED BY <3>1
    <2> QED BY <1>2, <1>3, <2>1, QuietCallers
  <1>4. CASE /\ job[w].target = job[w].parent /\ pc' = [pc EXCEPT ![w] = "store"]
             /\ UNCHANGED <<stores, memory, job, cursor, node, applied, faults>>
    BY <1>3, <1>4 DEF stores, memory
  <1>5. CASE /\ pc' = [pc EXCEPT ![w] = "open"]
             /\ UNCHANGED <<stores, memory, job, node, applied, faults>>
    BY <1>3, <1>5 DEF stores, memory
  <1>6. CASE Throw(w)
    BY <1>1, <1>6, ThrowCallers
  <1> QED BY <1>4, <1>5, <1>6 DEF ExecuteBlock

\* What LevelDB opened for nobody before has no entry, and no other caller creates it.
LEMMA OpenForkHome ==
    ASSUME HomeInv, NEW w \in Workers, OpenFork(w)
    PROVE  Placing' /\ files' = files /\ disk' = disk
  <1> DEFINE t == job[w].target
  <1>1. pc[w] = "open"
    BY DEF OpenFork
  <1>2. node # "down" /\ pc \in [Workers -> PCs] /\ t \in ChainIDs
    BY <1>1, BusyJob DEF HomeInv, StoreInv, TypeOK, PCs
  <1>3. ASSUME t \notin locked, locked' = locked \cup {t}, pc' = [pc EXCEPT ![w] = "undo"],
               job' = job, node' = node, UNCHANGED <<files, latest>>
        PROVE  Placing'
    <2>1. latest[t] = NoBlock
      BY <1>2, <1>3 DEF HomeInv, EntriesLocked
    <2>2. ASSUME NEW v \in Workers, v # w, Creating(v)'
          PROVE  Creating(v) /\ job[v].target \in locked /\ latest[job[v].target] = NoBlock
      <3>1. Creating(v)
        BY <1>2, <1>3, <2>2 DEF Creating
      <3> QED BY <3>1 DEF HomeInv, Owned
    <2>3. Owned'
      <3>1. ASSUME NEW v \in Workers, Creating(v)'
            PROVE  job'[v].target \in locked' /\ latest'[job'[v].target] = NoBlock
        <4>1. CASE v = w
          BY <1>3, <2>1, <4>1
        <4>2. CASE v # w
          BY <1>3, <2>2, <3>1, <4>2
        <4> QED BY <4>1, <4>2
      <3> QED BY <3>1 DEF Owned
    <2>4. OneCreator'
      <3>1. ASSUME NEW u \in Workers, NEW v \in Workers, u # v, Creating(u)', Creating(v)'
            PROVE  job[u].target # job[v].target
        <4>1. CASE u = w
          BY <1>3, <2>2, <3>1, <4>1
        <4>2. CASE v = w
          BY <1>3, <2>2, <3>1, <4>2
        <4>3. CASE u # w /\ v # w
          BY <2>2, <3>1, <4>3 DEF HomeInv, OneCreator
        <4> QED BY <4>1, <4>2, <4>3
      <3> QED BY <1>3, <3>1 DEF OneCreator
    <2>5. EntriesLocked'
      BY <1>3 DEF HomeInv, EntriesLocked
    <2>6. FollowsParent'
      <3>1. ASSUME NEW v \in Workers, pc'[v] # "idle" PROVE Follows(job'[v], files')
        <4>1. pc[v] # "idle"
          BY <1>1, <1>2, <1>3, <3>1
        <4>2. Follows(job[v], files)
          BY <4>1 DEF HomeInv, FollowsParent
        <4> QED BY <1>3, <4>2 DEF Follows
      <3> QED BY <3>1 DEF FollowsParent
    <2> QED BY <2>3, <2>4, <2>5, <2>6 DEF Placing
  <1>4. CASE /\ t \notin locked /\ locked' = locked \cup {t} /\ pc' = [pc EXCEPT ![w] = "undo"]
             /\ UNCHANGED <<stores, latest, job, cursor, node, applied, faults>>
    BY <1>3, <1>4 DEF stores
  <1>5. CASE Throw(w)
    BY <1>1, <1>5, ThrowCallers
  <1> QED BY <1>4, <1>5 DEF OpenFork

\* The fork whose files are deleted has no entry, so it is nobody's parent chain.
LEMMA UndoBlockHome ==
    ASSUME HomeInv, NEW w \in Workers, UndoBlock(w)
    PROVE  Placing' /\ IndexedFiles' /\ Descends' /\ disk' = disk
  <1> DEFINE t == job[w].target
             k == cursor[w]
  <1>1. pc[w] = "undo" /\ Creating(w)
    BY DEF UndoBlock, Creating
  <1>2. /\ node # "down" /\ pc \in [Workers -> PCs] /\ t \in ChainIDs /\ k \in Indices
        /\ files \in [ChainIDs -> [Indices -> Cells]] /\ latest[t] = NoBlock
    BY <1>1, BusyJob DEF HomeInv, StoreInv, TypeOK, PCs, Owned
  <1>3. ASSUME files' = [files EXCEPT ![t][k] = NoBlock],
               UNCHANGED <<disk, memory, pc, job, node, applied, faults>>
        PROVE  Placing' /\ IndexedFiles' /\ Descends'
    <2>1. /\ latest' = latest /\ locked' = locked /\ pc' = pc /\ job' = job /\ node' = node
      BY <1>3 DEF memory
    <2>2. \A c \in ChainIDs : \A i \in Indices :
             files'[c][i] = IF c = t /\ i = k THEN NoBlock ELSE files[c][i]
      BY <1>2, <1>3
    <2>3. files'[Main] = files[Main]
      <3>1. StoreInv /\ UndoBlock(w)
        BY DEF HomeInv
      <3> QED BY <3>1, UndoBlockInv
    <2>4. FollowsParent'
      <3>1. ASSUME NEW v \in Workers, pc[v] # "idle", Index[job[v].block] # 0
            PROVE  files'[job[v].parent][Index[job[v].block] - 1] = files[job[v].parent][Index[job[v].block] - 1]
        <4>1. /\ job[v].block \in Blocks /\ job[v].parent \in ChainIDs
              /\ WellPlaced(job[v], files[Main], latest) /\ Index[job[v].block] \in Indices
          BY <3>1, BusyJob DEF HomeInv
        <4>2. latest[job[v].parent] # NoBlock
          BY <3>1, <4>1 DEF WellPlaced
        <4>3. job[v].parent # t /\ Index[job[v].block] - 1 \in Indices
          BY <1>2, <3>1, <4>1, <4>2, ChainStoreAssumption DEF Indices
        <4> QED BY <2>2, <4>1, <4>3
      <3>2. ASSUME NEW v \in Workers, pc'[v] # "idle" PROVE Follows(job'[v], files')
        <4>1. Follows(job[v], files) /\ pc[v] # "idle"
          BY <2>1, <3>2 DEF HomeInv, FollowsParent
        <4> QED BY <2>1, <3>1, <4>1 DEF Follows
      <3> QED BY <3>2 DEF FollowsParent
    <2>5. Owned' /\ OneCreator' /\ EntriesLocked'
      BY <2>1 DEF HomeInv, Owned, OneCreator, EntriesLocked, Creating
    <2>6. NoBlock \notin Blocks
      BY ChainStoreAssumption DEF ChainIDs
    <2>7. IndexedFiles'
      BY <2>2, <2>6 DEF HomeInv, IndexedFiles
    <2>8. Descends'
      <3>1. ASSUME NEW f \in Blocks, NEW i \in Indices, files'[f][i] \in Blocks
            PROVE  Below(files'[f][i], f) /\ Leaves(f, files'[Main])
        <4>1. files'[f][i] = files[f][i]
          BY <2>2, <2>6, <3>1 DEF ChainIDs
        <4> QED BY <2>3, <3>1, <4>1 DEF HomeInv, Descends
      <3> QED BY <3>1 DEF Descends
    <2> QED BY <2>4, <2>5, <2>7, <2>8 DEF Placing
  <1>4. CASE RollBack(w) /\ UNCHANGED <<disk, memory, pc, job, node, applied, faults>>
    BY <1>3, <1>4 DEF RollBack
  <1>5. CASE Throw(w)
    BY <1>1, <1>5, ThrowCallers, SameFiles
  <1> QED BY <1>4, <1>5 DEF UndoBlock

LEMMA EndUndoHome ==
    ASSUME HomeInv, NEW w \in Workers, EndUndo(w)
    PROVE  Placing' /\ files' = files /\ disk' = disk
  <1>1. /\ pc[w] = "undo" /\ pc' = [pc EXCEPT ![w] = "store"] /\ job' = job /\ node' = node
        /\ files' = files /\ disk' = disk /\ latest' = latest /\ locked' = locked
    BY DEF EndUndo, stores, memory
  <1>2. node # "down" /\ pc \in [Workers -> PCs]
    BY <1>1, BusyJob DEF HomeInv, StoreInv, TypeOK, PCs
  <1>3. \A v \in Workers :
           \/ pc'[v] = "idle"
           \/ pc[v] # "idle" /\ job'[v] = job[v] /\ (Creating(v)' => Creating(v))
    <2>1. ASSUME NEW v \in Workers, pc'[v] # "idle"
          PROVE  pc[v] # "idle" /\ job'[v] = job[v] /\ (Creating(v)' => Creating(v))
      <3>1. CASE v = w
        BY <1>1, <3>1 DEF Creating
      <3>2. CASE v # w
        BY <1>1, <1>2, <2>1, <3>2 DEF Creating
      <3> QED BY <3>1, <3>2
    <2> QED BY <2>1
  <1> QED BY <1>1, <1>2, <1>3, QuietCallers

\* What a write of worker w's block may make of the files: the cell is what it was, the
\* block, or nothing that decodes; and only an empty cell changes.
LEMMA AddFacts ==
    ASSUME HomeInv, NEW w \in Workers, pc[w] = "store", NEW mayFail \in BOOLEAN,
           NEW cell \in Added(files[job[w].target][Index[job[w].block]], job[w].block, mayFail),
           files' = [files EXCEPT ![job[w].target][Index[job[w].block]] = cell]
    PROVE  /\ \A c \in ChainIDs : \A i \in Indices :
                 files'[c][i] = IF c = job[w].target /\ i = Index[job[w].block] THEN cell ELSE files[c][i]
           /\ \A c \in ChainIDs : \A i \in Indices :
                 files[c][i] # NoBlock => files'[c][i] = files[c][i]
           /\ \A c \in ChainIDs : \A i \in Indices :
                 files'[c][i] # files[c][i] =>
                    c = job[w].target /\ i = Index[job[w].block] /\ files'[c][i] \in {job[w].block, Torn}
  <1> DEFINE b == job[w].block
             t == job[w].target
  <1>1. t \in ChainIDs /\ Index[b] \in Indices /\ files \in [ChainIDs -> [Indices -> Cells]]
    BY BusyJob DEF HomeInv, StoreInv, TypeOK
  <1>2. \A c \in ChainIDs : \A i \in Indices :
           files'[c][i] = IF c = t /\ i = Index[b] THEN cell ELSE files[c][i]
    BY <1>1
  <1>3. /\ files[t][Index[b]] # NoBlock => cell = files[t][Index[b]]
        /\ cell # files[t][Index[b]] => cell \in {b, Torn}
    BY DEF Added
  <1> QED BY ONLY <1>2, <1>3

\* The predecessor of a block that is stored is where the block is stored, or the block is
\* the base of a fork of the main chain, or the first of the main chain.
LEMMA StoreCases ==
    ASSUME HomeInv, NEW w \in Workers, pc[w] = "store"
    PROVE  LET b == job[w].block
               t == job[w].target
           IN  /\ b \in Blocks /\ t \in ChainIDs /\ Index[b] \in Indices
               /\ \/ /\ t = job[w].parent /\ Index[b] # 0 /\ latest[t] # NoBlock
                     /\ Prev[b] \in Blocks /\ files[t][Index[b] - 1] = Prev[b] /\ Index[b] - 1 \in Indices
                  \/ /\ t = b /\ t # job[w].parent /\ Index[b] # 0 /\ Leaves(b, files[Main])
                     /\ Prev[b] \in Blocks
                  \/ t = Main /\ Index[b] = 0
  <1> DEFINE b == job[w].block
             t == job[w].target
             p == job[w].parent
  <1>1. /\ b \in Blocks /\ t \in ChainIDs /\ p \in ChainIDs /\ Index[b] \in Indices
        /\ WellPlaced(job[w], files[Main], latest)
    BY BusyJob DEF HomeInv
  <1>2. t = p \/ p = Main
    BY DEF HomeInv, StoreInv, JobsPlaced
  <1>3. Follows(job[w], files)
    BY DEF HomeInv, FollowsParent
  <1>4. Index[b] # 0 => Index[b] - 1 \in Indices
    BY <1>1, ChainStoreAssumption DEF Indices
  <1>5. CASE Index[b] = 0
    BY <1>1, <1>5 DEF WellPlaced
  <1>6. CASE Index[b] # 0 /\ t = p
    BY <1>1, <1>3, <1>4, <1>6 DEF WellPlaced, Follows
  <1>7. CASE Index[b] # 0 /\ t # p
    BY <1>1, <1>2, <1>3, <1>7 DEF WellPlaced, Follows
  <1> QED BY <1>5, <1>6, <1>7

LEMMA AddHome ==
    ASSUME HomeInv, NEW w \in Workers, pc[w] = "store", NEW mayFail \in BOOLEAN,
           NEW cell \in Added(files[job[w].target][Index[job[w].block]], job[w].block, mayFail),
           files' = [files EXCEPT ![job[w].target][Index[job[w].block]] = cell]
    PROVE  IndexedFiles' /\ Descends'
  <1> DEFINE b == job[w].block
             t == job[w].target
  <1>1. /\ \A c \in ChainIDs : \A i \in Indices :
              files'[c][i] # files[c][i] => c = t /\ i = Index[b] /\ files'[c][i] \in {b, Torn}
    BY AddFacts
  <1>2. Torn \notin Blocks /\ Main \notin Blocks
    BY ChainStoreAssumption DEF ChainIDs
  <1>3. Kept(files[Main], files'[Main])
    BY AddKeepsMain DEF HomeInv
  <1>4. IndexedFiles'
    <2>1. ASSUME NEW c \in ChainIDs, NEW i \in Indices, files'[c][i] \in Blocks
          PROVE  Index[files'[c][i]] = i
      BY <1>1, <1>2, <2>1 DEF HomeInv, IndexedFiles
    <2> QED BY <2>1 DEF IndexedFiles
  <1>5. ASSUME NEW f \in Blocks, NEW i \in Indices, files'[f][i] \in Blocks
        PROVE  Below(files'[f][i], f) /\ Leaves(f, files'[Main])
    <2>1. CASE files'[f][i] = files[f][i]
      <3>1. Below(files[f][i], f) /\ Leaves(f, files[Main])
        BY <1>5, <2>1 DEF HomeInv, Descends
      <3>2. Leaves(f, files'[Main])
        BY <1>3, <3>1, LeavesKept DEF HomeInv
      <3> QED BY <2>1, <3>1, <3>2
    <2>2. CASE files'[f][i] # files[f][i]
      <3>1. f = t /\ i = Index[b] /\ files'[f][i] = b
        BY <1>1, <1>2, <1>5, <2>2 DEF ChainIDs
      <3>2. CASE t = b /\ Leaves(b, files[Main])
        <4>1. Leaves(b, files'[Main])
          BY <1>3, <3>1, <3>2, LeavesKept DEF HomeInv
        <4> QED BY <3>1, <3>2, <4>1, BelowSelf
      <3>3. CASE /\ Index[b] # 0 /\ Prev[b] \in Blocks /\ files[t][Index[b] - 1] = Prev[b]
                 /\ Index[b] - 1 \in Indices
        <4>1. Below(Prev[b], f) /\ Leaves(f, files[Main])
          BY <3>1, <3>3 DEF HomeInv, Descends
        <4>2. Index[Prev[b]] = Index[b] - 1
          BY <3>1, <3>3 DEF HomeInv, IndexedFiles, ChainIDs
        <4>3. b \in Blocks /\ Index[b] \in Nat
          BY StoreCases, ChainStoreAssumption DEF Indices
        <4>4. Child(b, Prev[b])
          BY <4>2, <4>3 DEF Child
        <4>5. Below(b, f)
          BY <4>1, <4>3, <4>4, BelowChild
        <4>6. Leaves(f, files'[Main])
          BY <1>3, <4>1, LeavesKept DEF HomeInv
        <4> QED BY <3>1, <4>5, <4>6
      <3> QED BY <1>2, <3>1, <3>2, <3>3, StoreCases
    <2> QED BY <2>1, <2>2
  <1>6. Descends'
    BY <1>5 DEF Descends
  <1> QED BY <1>4, <1>6

\* The chain a block is stored in is nobody else's fork to create.
LEMMA StoreBlockHome ==
    ASSUME HomeInv, NEW w \in Workers, StoreBlock(w)
    PROVE  Placing' /\ IndexedFiles' /\ Descends'
  <1> DEFINE b == job[w].block
             t == job[w].target
  <1>1. /\ pc[w] = "store" /\ latest' = [latest EXCEPT ![t] = b]
        /\ locked' = locked /\ node' = node
    BY DEF StoreBlock
  <1>2. PICK cell \in Added(files[t][Index[b]], b, "io" \in Faults /\ faults < MaxFaults) :
           files' = [files EXCEPT ![t][Index[b]] = cell]
    BY DEF StoreBlock
  <1>3. IndexedFiles' /\ Descends'
    BY <1>1, <1>2, AddHome
  <1>4. \A c \in ChainIDs : \A i \in Indices : files[c][i] # NoBlock => files'[c][i] = files[c][i]
    BY <1>1, <1>2, AddFacts
  <1>5. /\ node # "down" /\ pc \in [Workers -> PCs] /\ job \in [Workers -> Jobs] /\ latest \in States
    BY <1>1, BusyJob DEF HomeInv, StoreInv, TypeOK, PCs
  <1>6. ASSUME NEW v \in Workers, pc'[v] # "idle"
        PROVE  pc[v] # "idle" /\ job'[v] = job[v] /\ (Creating(v)' => Creating(v) /\ v # w)
    <2>1. CASE t = Main
      <3>1. pc' = [pc EXCEPT ![w] = "wallets"] /\ job' = job
        BY <2>1 DEF StoreBlock, TouchesWallets
      <3>2. CASE v = w
        BY <1>1, <1>5, <3>1, <3>2 DEF Creating
      <3>3. CASE v # w
        BY <1>5, <1>6, <3>1, <3>3 DEF Creating
      <3> QED BY <3>2, <3>3
    <2>2. CASE t # Main
      <3>1. pc' = [pc EXCEPT ![w] = "idle"] /\ job' = [job EXCEPT ![w] = NoJob]
        BY <2>2 DEF StoreBlock, TouchesWallets, Finish
      <3>2. v # w /\ pc'[v] = pc[v] /\ job'[v] = job[v]
        BY <1>5, <1>6, <3>1
      <3> QED BY <1>6, <3>2 DEF Creating
    <2> QED BY <2>1, <2>2
  <1>7. ASSUME NEW v \in Workers, Creating(v), v # w
        PROVE  /\ job[v].target \in ChainIDs /\ job[v].target # t
               /\ job[v].target \in locked /\ latest[job[v].target] = NoBlock
    <2>1. job[v].target \in locked /\ latest[job[v].target] = NoBlock
      BY <1>7 DEF HomeInv, Owned
    <2>2. pc[v] # "idle" /\ job[v].target \in ChainIDs
      BY <1>7, BusyJob DEF Creating, HomeInv
    <2>3. job[v].target # job[v].parent
      BY <1>7 DEF HomeInv, StoreInv, JobsPlaced, Creating
    <2>4. job[v].target # Main
      BY <2>2, <2>3, BusyJob DEF HomeInv
    <2>5. CASE latest[t] # NoBlock
      BY <2>1, <2>2, <2>5
    <2>6. CASE t # job[w].parent
      <3>1. Creating(w)
        BY <1>1, <2>6 DEF Creating
      <3> QED BY <1>7, <2>1, <2>2, <3>1 DEF HomeInv, OneCreator
    <2>7. CASE t = Main
      BY <2>1, <2>2, <2>4, <2>7
    <2> QED BY <1>1, <2>5, <2>6, <2>7, StoreCases
  <1>8. \A c \in ChainIDs : latest'[c] = IF c = t THEN b ELSE latest[c]
    BY <1>1, <1>5 DEF States
  <1>9. Owned'
    <2>1. ASSUME NEW v \in Workers, Creating(v)'
          PROVE  job'[v].target \in locked' /\ latest'[job'[v].target] = NoBlock
      <3>1. pc'[v] # "idle"
        BY <2>1 DEF Creating
      <3>2. job'[v] = job[v] /\ Creating(v) /\ v # w
        BY <1>6, <2>1, <3>1
      <3> QED BY <1>1, <1>7, <1>8, <3>2
    <2> QED BY <2>1 DEF Owned
  <1>10. OneCreator'
    <2>1. ASSUME NEW v \in Workers, Creating(v)' PROVE Creating(v) /\ job'[v] = job[v]
      <3>1. pc'[v] # "idle"
        BY <2>1 DEF Creating
      <3> QED BY <1>6, <2>1, <3>1
    <2>2. ASSUME NEW u \in Workers, NEW v \in Workers, u # v, Creating(u)', Creating(v)'
          PROVE  job'[u].target # job'[v].target
      BY <2>1, <2>2 DEF HomeInv, OneCreator
    <2> QED BY <2>2 DEF OneCreator
  <1>11. EntriesLocked'
    <2>1. t \in locked
      <3>1. CASE latest[t] # NoBlock
        BY <3>1, StoreCases, <1>1 DEF HomeInv, EntriesLocked
      <3>2. CASE t # job[w].parent
        BY <1>1, <3>2 DEF HomeInv, Owned, Creating
      <3>3. CASE t = Main
        BY <1>5, <3>3 DEF HomeInv, EntriesLocked
      <3> QED BY <1>1, <3>1, <3>2, <3>3, StoreCases
    <2>2. ASSUME NEW c \in ChainIDs, latest'[c] # NoBlock PROVE c \in locked'
      BY <1>1, <1>8, <2>1, <2>2 DEF HomeInv, EntriesLocked
    <2> QED BY <1>1, <2>2 DEF HomeInv, EntriesLocked
  <1>12. FollowsParent'
    <2>1. ASSUME NEW v \in Workers, pc'[v] # "idle" PROVE Follows(job'[v], files')
      <3>1. job'[v] = job[v] /\ Follows(job[v], files) /\ pc[v] # "idle"
        BY <1>6, <2>1 DEF HomeInv, FollowsParent
      <3>2. ASSUME Index[job[v].block] # 0
            PROVE  Prev[job[v].block] \in Blocks /\ files'[job[v].parent][Index[job[v].block] - 1] = Prev[job[v].block]
        <4>1. Prev[job[v].block] \in Blocks /\ files[job[v].parent][Index[job[v].block] - 1] = Prev[job[v].block]
          BY <3>1, <3>2 DEF Follows
        <4>2. job[v].parent \in ChainIDs /\ Index[job[v].block] \in Indices
          BY <3>1, BusyJob DEF HomeInv
        <4>3. Index[job[v].block] - 1 \in Indices
          BY <3>2, <4>2, ChainStoreAssumption DEF Indices
        <4>4. Prev[job[v].block] # NoBlock
          BY <4>1, ChainStoreAssumption DEF ChainIDs
        <4> QED BY <1>4, <4>1, <4>2, <4>3, <4>4
      <3> QED BY <3>1, <3>2 DEF Follows
    <2> QED BY <2>1 DEF FollowsParent
  <1> QED BY <1>3, <1>9, <1>10, <1>11, <1>12 DEF Placing

LEMMA CrashInStoreHome ==
    ASSUME HomeInv, NEW w \in Workers, CrashInStore(w)
    PROVE  Placing' /\ IndexedFiles' /\ Descends'
  <1>1. pc[w] = "store" /\ Halt
    BY DEF CrashInStore
  <1>2. PICK cell \in Added(files[job[w].target][Index[job[w].block]], job[w].block, TRUE) :
           files' = [files EXCEPT ![job[w].target][Index[job[w].block]] = cell]
    BY DEF CrashInStore
  <1> QED BY <1>1, <1>2, HaltCallers, AddHome

LEMMA RestartHome ==
    ASSUME HomeInv, Restart
    PROVE  Placing'
  <1>1. \A w \in Workers : pc'[w] = "idle"
    BY DEF Restart, tasks, HomeInv, StoreInv, DownIsEmpty
  <1>2. /\ locked' = {Main} \cup {c \in ChainIDs : latest'[c] # NoBlock}
    BY DEF Restart, Opened
  <1> QED BY <1>1, <1>2 DEF Placing, Owned, OneCreator, Creating, EntriesLocked, FollowsParent

LEMMA HomeInit == Init => HomeInv
  <1> SUFFICES ASSUME Init PROVE HomeInv
    OBVIOUS
  <1>1. \A c \in ChainIDs : \A i \in Indices : files[c][i] = NoBlock
    BY DEF Init
  <1>2. NoBlock \notin Blocks
    BY ChainStoreAssumption DEF ChainIDs
  <1>3. IndexedFiles /\ Descends
    BY <1>1, <1>2 DEF IndexedFiles, Descends, ChainIDs
  <1>4. Owned /\ OneCreator /\ EntriesLocked /\ FollowsParent
    BY DEF Init, NoChains, Owned, OneCreator, Creating, EntriesLocked, FollowsParent
  <1> QED BY <1>3, <1>4, InitInv DEF HomeInv

LEMMA HomeStep == HomeInv /\ [Next]_vars => HomeInv'
  <1> SUFFICES ASSUME HomeInv, [Next]_vars PROVE HomeInv'
    OBVIOUS
  <1> DEFINE Good == Placing' /\ IndexedFiles' /\ Descends'
  <1>1. SUFFICES Good
    BY StepInv DEF HomeInv, Placing
  <1>2. ASSUME NEW w \in Workers, Step(w) PROVE Good
    <2>1. CASE RejectBlock(w)
      <3>1. /\ pc[w] # "idle" /\ Finish(w) /\ UNCHANGED <<files, latest, locked>> /\ node' = node
        BY <2>1 DEF RejectBlock, stores, memory
      <3>2. node' # "down"
        BY <3>1, BusyJob DEF HomeInv
      <3> QED BY <3>1, <3>2, FinishCallers, SameFiles
    <2>2. CASE ExecuteBlock(w)
      BY <2>2, ExecuteBlockHome, SameFiles
    <2>3. CASE OpenFork(w)
      BY <2>3, OpenForkHome, SameFiles
    <2>4. CASE UndoBlock(w)
      BY <2>4, UndoBlockHome
    <2>5. CASE EndUndo(w)
      BY <2>5, EndUndoHome, SameFiles
    <2>6. CASE StoreBlock(w)
      BY <2>6, StoreBlockHome
    <2>7. CASE AdjustWallets(w)
      <3>1. /\ pc[w] # "idle" /\ Finish(w) /\ UNCHANGED <<files, latest, locked>> /\ node' = node
        BY <2>7 DEF AdjustWallets, stores, memory
      <3>2. node' # "down"
        BY <3>1, BusyJob DEF HomeInv
      <3> QED BY <3>1, <3>2, FinishCallers, SameFiles
    <2> QED BY <1>2, <2>1, <2>2, <2>3, <2>4, <2>5, <2>6, <2>7 DEF Step
  <1>3. ASSUME NEW w \in Workers, CrashInStore(w) PROVE Good
    BY <1>3, CrashInStoreHome
  <1>4. ASSUME NEW w \in Workers, NEW b \in Blocks, VerifyBlock(w, b) PROVE Good
    <2>1. files' = files
      BY <1>4 DEF VerifyBlock, stores
    <2> QED BY <1>4, <2>1, VerifyBlockHome, SameFiles
  <1>5. CASE GracefulShutdown \/ UNCHANGED vars
    <2>1. /\ UNCHANGED <<files, latest, locked>> /\ pc' = pc /\ job' = job
          /\ node' = node \/ (node # "down" /\ node' # "down")
      BY <1>5 DEF GracefulShutdown, vars, stores, memory, tasks
    <2>2. Owned' /\ OneCreator' /\ EntriesLocked' /\ FollowsParent'
      BY <2>1 DEF HomeInv, Owned, OneCreator, Creating, EntriesLocked, FollowsParent, Follows
    <2> QED BY <2>1, <2>2, SameFiles DEF Placing
  <1>6. CASE Exit \/ Crash
    <2>1. Halt /\ files' = files
      BY <1>6 DEF Exit, Crash, stores
    <2> QED BY <2>1, HaltCallers, SameFiles
  <1>7. CASE Restart
    <2>1. files' = files
      BY <1>7 DEF Restart, stores
    <2> QED BY <1>7, <2>1, RestartHome, SameFiles
  <1> QED BY <1>2, <1>3, <1>4, <1>5, <1>6, <1>7 DEF Next

\* The inductive invariant: what verifyBlock found out about a block's place stays true
\* until it is stored, and a fork holds its base block and blocks that descend from it.
THEOREM HomeInvariant == Spec => []HomeInv
  BY HomeInit, HomeStep, PTL DEF Spec

\* No block is kept by two chains at a time (isBlockChainStateMatching, createFork and
\* BlockDB.add), whichever callers interleave and whatever crashes, tears or fails to write.
THEOREM BlocksHaveOneHome == Spec => []OneHome
  BY HomeInvariant, HomeIsOne, PTL

-------------------------------------------------------------------------------
(***************************************************************************)
(* The chain state and the files, when no write fails.                     *)
(***************************************************************************)

\* What a restart would read names no chain that memory does not.
DiskBehind ==
    node # "down" /\ disk # Torn => \A c \in ChainIDs : disk[c] # NoBlock => latest[c] # NoBlock

BackedInv == DiskBehind /\ StateBacked

\* Files that are there stay, and what is in memory and on disk stays or goes away.
LEMMA BackedLess ==
    ASSUME BackedInv,
           \A c \in ChainIDs : \A i \in Indices : files[c][i] # NoBlock => files'[c][i] # NoBlock,
           latest \in States, latest' \in States, disk \in States \cup {Torn},
           latest' = latest \/ latest' = NoChains,
           disk' \in {disk, latest, Torn},
           node' # "down" => node # "down" /\ latest' = latest /\ disk' = disk
    PROVE  BackedInv'
  <1>1. \A c \in ChainIDs : /\ latest[c] # NoBlock => latest[c] \in Blocks
                            /\ NoChains[c] = NoBlock
    BY DEF States, NoChains
  <1>2. \A b \in Blocks : Index[b] \in Indices
    BY ChainStoreAssumption
  <1>3. disk # Torn => \A c \in ChainIDs : disk[c] # NoBlock => disk[c] \in Blocks
    BY DEF States
  <1>4. \A c \in ChainIDs : latest[c] # NoBlock => files'[c][Index[latest[c]]] # NoBlock
    BY <1>1, <1>2 DEF BackedInv, StateBacked
  <1>5. \A c \in ChainIDs : disk # Torn /\ disk[c] # NoBlock => files'[c][Index[disk[c]]] # NoBlock
    BY <1>2, <1>3 DEF BackedInv, StateBacked
  <1>6. StateBacked'
    <2>1. ASSUME NEW c \in ChainIDs
          PROVE  /\ latest'[c] # NoBlock => files'[c][Index[latest'[c]]] # NoBlock
                 /\ disk' # Torn /\ disk'[c] # NoBlock => files'[c][Index[disk'[c]]] # NoBlock
      BY <1>1, <1>4, <1>5
    <2> QED BY <2>1 DEF StateBacked
  <1>7. DiskBehind'
    BY DEF BackedInv, DiskBehind
  <1> QED BY <1>6, <1>7 DEF BackedInv

LEMMA BackedStore ==
    ASSUME "io" \notin Faults, HomeInv, BackedInv, NEW w \in Workers, StoreBlock(w)
    PROVE  BackedInv'
  <1> DEFINE b == job[w].block
             t == job[w].target
  <1>1. /\ pc[w] = "store" /\ latest' = [latest EXCEPT ![t] = b]
        /\ disk' = latest'
    BY DEF StoreBlock
  <1>2. PICK cell \in Added(files[t][Index[b]], b, FALSE) :
           files' = [files EXCEPT ![t][Index[b]] = cell]
    BY DEF StoreBlock
  <1>3. /\ \A c \in ChainIDs : \A i \in Indices :
              files'[c][i] = IF c = t /\ i = Index[b] THEN cell ELSE files[c][i]
        /\ \A c \in ChainIDs : \A i \in Indices :
              files[c][i] # NoBlock => files'[c][i] = files[c][i]
    <2>1. pc[w] = "store" /\ FALSE \in BOOLEAN
      BY ONLY <1>1
    <2> QED BY ONLY <1>2, <2>1, HomeInv, w \in Workers, AddFacts, Zenon
  <1>4. b \in Blocks /\ t \in ChainIDs /\ Index[b] \in Indices /\ b # NoBlock
    BY <1>1, StoreCases, ChainStoreAssumption DEF ChainIDs
  <1>5. cell # NoBlock
    BY <1>2, <1>4 DEF Added
  <1>6. \A c \in ChainIDs : latest'[c] = IF c = t THEN b ELSE latest[c]
    BY <1>1 DEF HomeInv, StoreInv, TypeOK, States
  <1>7. \A c \in ChainIDs : latest'[c] # NoBlock => files'[c][Index[latest'[c]]] # NoBlock
    <2>1. ASSUME NEW c \in ChainIDs, latest'[c] # NoBlock
          PROVE  files'[c][Index[latest'[c]]] # NoBlock
      <3>1. CASE c = t
        BY <1>3, <1>4, <1>5, <1>6, <3>1
      <3>2. CASE c # t
        <4>1. latest'[c] = latest[c] /\ latest[c] # NoBlock
          BY <1>6, <2>1, <3>2
        <4>2. latest[c] \in Blocks
          BY <4>1 DEF HomeInv, StoreInv, TypeOK, States
        <4>3. Index[latest[c]] \in Indices
          BY <4>2, ChainStoreAssumption
        <4>4. files[c][Index[latest[c]]] # NoBlock
          BY <4>1 DEF BackedInv, StateBacked
        <4> QED BY <1>3, <4>1, <4>3, <4>4
      <3> QED BY <3>1, <3>2
    <2> QED BY <2>1
  <1> QED BY <1>1, <1>7 DEF BackedInv, StateBacked, DiskBehind

\* The fork that is rolled back is in no chain state.
LEMMA BackedUndo ==
    ASSUME HomeInv, BackedInv, NEW w \in Workers, pc[w] = "undo", RollBack(w),
           UNCHANGED <<disk, latest, node>>
    PROVE  BackedInv'
  <1> DEFINE t == job[w].target
             k == cursor[w]
  <1>1. /\ files' = [files EXCEPT ![t][k] = NoBlock] /\ t \in ChainIDs /\ k \in Indices
        /\ files \in [ChainIDs -> [Indices -> Cells]] /\ latest[t] = NoBlock /\ node # "down"
    BY BusyJob DEF RollBack, HomeInv, StoreInv, TypeOK, Owned, Creating
  <1>2. disk # Torn => disk[t] = NoBlock
    BY <1>1 DEF BackedInv, DiskBehind
  <1>3. \A c \in ChainIDs : c # t => files'[c] = files[c]
    BY <1>1
  <1>4. StateBacked'
    BY <1>1, <1>2, <1>3 DEF BackedInv, StateBacked
  <1>5. DiskBehind'
    BY DEF BackedInv, DiskBehind
  <1> QED BY <1>4, <1>5 DEF BackedInv

LEMMA BackedStep ==
    ASSUME "io" \notin Faults, HomeInv, BackedInv, [Next]_vars
    PROVE  BackedInv'
  <1>1. latest \in States /\ latest' \in States /\ disk \in States \cup {Torn}
    BY StepInv DEF HomeInv, StoreInv, TypeOK
  <1>2. ASSUME files' = files, disk' = disk, latest' = latest, node' # "down" => node # "down"
        PROVE  BackedInv'
    BY <1>1, <1>2, BackedLess
  <1>3. ASSUME files' = files, Halt, disk' \in {disk, latest}
        PROVE  BackedInv'
    <2>1. latest' = NoChains /\ node' = "down"
      BY <1>3 DEF Halt
    <2> QED BY <1>1, <1>3, <2>1, BackedLess
  <1>4. ASSUME NEW w \in Workers, pc[w] # "idle", Throw(w) PROVE BackedInv'
    <2>1. files' = files /\ disk' = disk
      BY <1>4 DEF Throw, stores
    <2>2. CASE node = "up"
      BY <1>2, <1>4, <2>1, <2>2 DEF Throw, memory
    <2>3. CASE node # "up"
      BY <1>3, <1>4, <2>1, <2>3 DEF Throw
    <2> QED BY <2>2, <2>3
  <1>5. ASSUME NEW w \in Workers, Step(w) PROVE BackedInv'
    <2>1. CASE RejectBlock(w) \/ EndUndo(w) \/ AdjustWallets(w)
      <3>1. files' = files /\ disk' = disk /\ latest' = latest /\ node' = node
        BY <2>1 DEF RejectBlock, EndUndo, AdjustWallets, stores, memory
      <3> QED BY <1>2, <3>1
    <2>2. CASE ExecuteBlock(w)
      <3>1. pc[w] # "idle"
        BY <2>2 DEF ExecuteBlock
      <3>2. Throw(w) \/ (files' = files /\ disk' = disk /\ latest' = latest /\ node' = node)
        BY <2>2 DEF ExecuteBlock, stores, memory
      <3> QED BY <1>2, <1>4, <3>1, <3>2
    <2>3. CASE OpenFork(w)
      <3>1. pc[w] # "idle"
        BY <2>3 DEF OpenFork
      <3>2. Throw(w) \/ (files' = files /\ disk' = disk /\ latest' = latest /\ node' = node)
        BY <2>3 DEF OpenFork, stores
      <3> QED BY <1>2, <1>4, <3>1, <3>2
    <2>4. CASE UndoBlock(w)
      <3>1. pc[w] = "undo"
        BY <2>4 DEF UndoBlock
      <3>2. Throw(w) \/ (RollBack(w) /\ UNCHANGED <<disk, latest, node>>)
        BY <2>4 DEF UndoBlock, memory
      <3> QED BY <1>4, <3>1, <3>2, BackedUndo
    <2>5. CASE StoreBlock(w)
      BY <2>5, BackedStore
    <2> QED BY <1>5, <2>1, <2>2, <2>3, <2>4, <2>5 DEF Step
  <1>6. ASSUME NEW w \in Workers, CrashInStore(w) PROVE BackedInv'
    <2>1. pc[w] = "store" /\ Halt /\ disk' \in {disk, Torn}
      BY <1>6 DEF CrashInStore, StatesAfterCrash
    <2>2. PICK cell \in Added(files[job[w].target][Index[job[w].block]], job[w].block, TRUE) :
             files' = [files EXCEPT ![job[w].target][Index[job[w].block]] = cell]
      BY <1>6 DEF CrashInStore
    <2>3. \A c \in ChainIDs : \A i \in Indices : files[c][i] # NoBlock => files'[c][i] = files[c][i]
      BY <2>1, <2>2, AddFacts
    <2>4. latest' = NoChains /\ node' = "down"
      BY <2>1 DEF Halt
    <2> QED BY <1>1, <2>1, <2>3, <2>4, BackedLess
  <1>7. ASSUME NEW w \in Workers, NEW b \in Blocks, VerifyBlock(w, b) PROVE BackedInv'
    BY <1>2, <1>7 DEF VerifyBlock, stores, memory
  <1>8. CASE GracefulShutdown \/ UNCHANGED vars
    <2>1. files' = files /\ disk' = disk /\ latest' = latest /\ (node' = node \/ node # "down")
      BY <1>8 DEF GracefulShutdown, vars, stores, memory
    <2> QED BY <1>2, <2>1
  <1>9. CASE Exit \/ Crash
    BY <1>3, <1>9 DEF Exit, Crash, stores
  <1>10. CASE Restart
    <2>1. files' = files /\ disk' = disk /\ latest' = IF disk = Torn THEN NoChains ELSE disk
      BY <1>10 DEF Restart, stores
    <2>2. \A c \in ChainIDs : NoChains[c] = NoBlock
      BY DEF NoChains
    <2> QED BY <2>1, <2>2 DEF BackedInv, StateBacked, DiskBehind
  <1> QED BY <1>5, <1>6, <1>7, <1>8, <1>9, <1>10 DEF Next

\* Unless a write fails, neither chainstate.lcb nor the chain state in memory names a latest
\* block whose index has no file (updateChainStateByBlock runs after BlockDB.add, and
\* createFork deletes in a fork that no chain state names), whatever crashes or is torn.
THEOREM StateHasFiles ==
    ASSUME "io" \notin Faults
    PROVE  Spec => []StateBacked
  <1>1. Init => BackedInv
    BY DEF Init, NoChains, BackedInv, StateBacked, DiskBehind
  <1>2. HomeInv /\ BackedInv /\ [Next]_vars => BackedInv'
    BY BackedStep
  <1>3. BackedInv => StateBacked
    BY DEF BackedInv
  <1> QED BY <1>1, <1>2, <1>3, HomeInvariant, PTL DEF Spec

-------------------------------------------------------------------------------
(***************************************************************************)
(* Forks and the tree of all blocks, when the process only ever dies       *)
(* between two steps.                                                      *)
(***************************************************************************)

\* Every fork that has files is in the chain state, which is the same in memory and on disk.
FilesKnown ==
    /\ disk # Torn
    /\ node # "down" => disk = latest
    /\ \A f \in Blocks : \A i \in Indices : files[f][i] # NoBlock => disk[f] # NoBlock

KnownInv == FilesKnown /\ ForksLinked

\* Worker w's block goes into a file that was not there.
Adds(w) ==
    /\ pc[w] = "store"
    /\ files[job[w].target][Index[job[w].block]] = NoBlock
    /\ files' = [files EXCEPT ![job[w].target][Index[job[w].block]] = job[w].block]

\* A write that does not fail leaves the files as they were, or adds the block.
LEMMA StoreAdds ==
    ASSUME "io" \notin Faults, HomeInv, NEW w \in Workers, StoreBlock(w)
    PROVE  /\ files' = files \/ Adds(w)
           /\ files[job[w].target][Index[job[w].block]] = NoBlock => Adds(w)
  <1> DEFINE b == job[w].block
             t == job[w].target
  <1>1. pc[w] = "store"
    BY DEF StoreBlock
  <1>2. PICK cell \in Added(files[t][Index[b]], b, FALSE) :
           files' = [files EXCEPT ![t][Index[b]] = cell]
    BY DEF StoreBlock
  <1>3. t \in ChainIDs /\ Index[b] \in Indices /\ files \in [ChainIDs -> [Indices -> Cells]]
    BY <1>1, StoreCases DEF HomeInv, StoreInv, TypeOK
  <1>4. CASE files[t][Index[b]] = NoBlock
    <2>1. cell = b
      BY <1>2, <1>4 DEF Added
    <2> QED BY <1>1, <1>2, <1>4, <2>1 DEF Adds
  <1>5. CASE files[t][Index[b]] # NoBlock
    <2>1. cell = files[t][Index[b]]
      BY <1>2, <1>5 DEF Added
    <2> QED BY <1>2, <1>3, <1>5, <2>1
  <1> QED BY <1>4, <1>5

\* The fork that is rolled back has no files yet.
LEMMA UndoFindsNothing ==
    ASSUME HomeInv, FilesKnown, NEW w \in Workers, pc[w] = "undo", RollBack(w)
    PROVE  files' = files
  <1> DEFINE t == job[w].target
             k == cursor[w]
  <1>1. /\ t \in ChainIDs /\ k \in Indices /\ files \in [ChainIDs -> [Indices -> Cells]]
        /\ latest[t] = NoBlock /\ node # "down" /\ t # Main
    BY BusyJob DEF HomeInv, StoreInv, TypeOK, Owned, Creating, JobsPlaced
  <1>2. t \in Blocks
    BY <1>1 DEF ChainIDs
  <1>3. files[t][k] = NoBlock
    BY <1>1, <1>2 DEF FilesKnown
  <1>4. files' = [files EXCEPT ![t][k] = NoBlock]
    BY DEF RollBack
  <1> QED BY <1>1, <1>3, <1>4

\* What a step may make of the files, the chain state on disk and the one in memory.
LEMMA KnownCases ==
    ASSUME Faults \subseteq {"crash"}, HomeInv, FilesKnown, [Next]_vars
    PROVE  \/ /\ files' = files
              /\ disk' = disk
              /\ node' # "down" => latest' = disk
           \/ /\ \E w \in Workers : StoreBlock(w) /\ (files' = files \/ Adds(w))
  <1>1. ASSUME NEW w \in Workers, pc[w] # "idle", Throw(w)
        PROVE  files' = files /\ disk' = disk /\ (node' # "down" => latest' = disk)
    <2>1. node # "down"
      BY <1>1, BusyJob DEF HomeInv
    <2>2. files' = files /\ disk' = disk
      BY <1>1 DEF Throw, stores
    <2>3. node' # "down" => latest' = latest
      BY <1>1 DEF Throw, Halt, memory
    <2> QED BY <2>1, <2>2, <2>3 DEF FilesKnown
  <1>2. ASSUME files' = files, disk' = disk, latest' = latest, node # "down"
        PROVE  files' = files /\ disk' = disk /\ (node' # "down" => latest' = disk)
    BY <1>2 DEF FilesKnown
  <1>3. ASSUME NEW w \in Workers, Step(w)
        PROVE  \/ files' = files /\ disk' = disk /\ (node' # "down" => latest' = disk)
               \/ StoreBlock(w) /\ (files' = files \/ Adds(w))
    <2>1. pc[w] # "idle"
      BY <1>3 DEF Step, RejectBlock, ExecuteBlock, OpenFork, UndoBlock, EndUndo, StoreBlock, AdjustWallets
    <2>2. node # "down"
      BY <2>1, BusyJob DEF HomeInv
    <2>3. CASE RejectBlock(w) \/ EndUndo(w) \/ AdjustWallets(w)
      BY <1>2, <2>2, <2>3 DEF RejectBlock, EndUndo, AdjustWallets, stores, memory
    <2>4. CASE ExecuteBlock(w)
      <3>1. Throw(w) \/ (files' = files /\ disk' = disk /\ latest' = latest)
        BY <2>4 DEF ExecuteBlock, stores, memory
      <3> QED BY <1>1, <1>2, <2>1, <2>2, <3>1
    <2>5. CASE OpenFork(w)
      <3>1. Throw(w) \/ (files' = files /\ disk' = disk /\ latest' = latest)
        BY <2>5 DEF OpenFork, stores
      <3> QED BY <1>1, <1>2, <2>1, <2>2, <3>1
    <2>6. CASE UndoBlock(w)
      <3>1. pc[w] = "undo"
        BY <2>6 DEF UndoBlock
      <3>2. Throw(w) \/ (RollBack(w) /\ UNCHANGED <<disk, latest>>)
        BY <2>6 DEF UndoBlock, memory
      <3> QED BY <1>1, <1>2, <2>1, <2>2, <3>1, <3>2, UndoFindsNothing
    <2>7. CASE StoreBlock(w)
      BY <2>7, StoreAdds
    <2> QED BY <1>3, <2>3, <2>4, <2>5, <2>6, <2>7 DEF Step
  <1>4. ASSUME NEW w \in Workers, CrashInStore(w) PROVE FALSE
    BY <1>4 DEF CrashInStore
  <1>5. ASSUME NEW w \in Workers, NEW b \in Blocks, VerifyBlock(w, b)
        PROVE  files' = files /\ disk' = disk /\ (node' # "down" => latest' = disk)
    BY <1>2, <1>5 DEF VerifyBlock, stores, memory
  <1>6. CASE GracefulShutdown
    BY <1>2, <1>6 DEF GracefulShutdown, stores, memory
  <1>7. CASE UNCHANGED vars
    BY <1>7 DEF vars, stores, memory, FilesKnown
  <1>8. CASE Exit \/ Crash
    <2>1. files' = files /\ node' = "down" /\ (disk' = disk \/ (disk' = latest /\ node # "down"))
      BY <1>8 DEF Exit, Crash, Halt, stores
    <2> QED BY <2>1 DEF FilesKnown
  <1>9. CASE Restart
    BY <1>9 DEF Restart, stores, FilesKnown
  <1> QED BY <1>3, <1>4, <1>5, <1>6, <1>7, <1>8, <1>9 DEF Next

\* What Adds(w) changes: one empty cell, which gets the block.
LEMMA AddsCells ==
    ASSUME HomeInv, NEW w \in Workers, Adds(w)
    PROVE  /\ \A c \in ChainIDs : \A i \in Indices :
                 files'[c][i] = IF c = job[w].target /\ i = Index[job[w].block]
                                THEN job[w].block ELSE files[c][i]
           /\ \A c \in ChainIDs : \A i \in Indices :
                 files[c][i] # NoBlock => files'[c][i] = files[c][i]
  <1>1. job[w].block \in Added(files[job[w].target][Index[job[w].block]], job[w].block, FALSE)
    BY DEF Adds, Added
  <1>2. /\ pc[w] = "store" /\ FALSE \in BOOLEAN
        /\ files' = [files EXCEPT ![job[w].target][Index[job[w].block]] = job[w].block]
    BY DEF Adds
  <1> QED BY ONLY <1>1, <1>2, HomeInv, w \in Workers, AddFacts, Zenon

LEMMA FilesKnownStep ==
    ASSUME Faults \subseteq {"crash"}, HomeInv, FilesKnown, [Next]_vars
    PROVE  FilesKnown'
  <1>1. CASE files' = files /\ disk' = disk /\ (node' # "down" => latest' = disk)
    BY <1>1 DEF FilesKnown
  <1>2. ASSUME NEW w \in Workers, StoreBlock(w), files' = files \/ Adds(w)
        PROVE  FilesKnown'
    <2> DEFINE b == job[w].block
               t == job[w].target
    <2>1. pc[w] = "store" /\ disk' = latest' /\ latest' = [latest EXCEPT ![t] = b]
      BY <1>2 DEF StoreBlock
    <2>2. disk = latest /\ latest \in States
      BY <2>1, BusyJob DEF HomeInv, FilesKnown, StoreInv, TypeOK
    <2>3. b \in Blocks /\ b # NoBlock /\ t \in ChainIDs
      BY <2>1, StoreCases, ChainStoreAssumption DEF ChainIDs
    <2>4. disk' # Torn
      <3>1. latest' \in States
        BY StepInv DEF HomeInv, StoreInv, TypeOK
      <3> QED BY <2>1, <3>1, ChainStoreAssumption
    <2>5. \A c \in ChainIDs : disk'[c] = IF c = t THEN b ELSE disk[c]
      BY <2>1, <2>2 DEF States
    <2>6. ASSUME NEW f \in Blocks, NEW i \in Indices, files'[f][i] # NoBlock
          PROVE  disk'[f] # NoBlock
      <3>1. f \in ChainIDs
        BY DEF ChainIDs
      <3>2. CASE f = t
        BY <2>3, <2>5, <3>1, <3>2
      <3>3. CASE f # t
        <4>1. files'[f][i] = files[f][i]
          BY <1>2, <3>1, <3>3, AddsCells
        <4>2. disk[f] # NoBlock
          BY <2>6, <4>1 DEF FilesKnown
        <4> QED BY <2>5, <3>1, <3>3, <4>2
      <3> QED BY <3>2, <3>3
    <2> QED BY <2>1, <2>4, <2>6 DEF FilesKnown
  <1> QED BY <1>1, <1>2, KnownCases

\* A file that is added to a fork comes after the file of its predecessor, or is the base's.
LEMMA ForksLinkedStep ==
    ASSUME Faults \subseteq {"crash"}, HomeInv, KnownInv, [Next]_vars
    PROVE  ForksLinked'
  <1>1. CASE files' = files
    BY <1>1 DEF KnownInv, ForksLinked
  <1>2. ASSUME NEW w \in Workers, Adds(w) PROVE ForksLinked'
    <2> DEFINE b == job[w].block
               t == job[w].target
    <2>1. pc[w] = "store" /\ files[t][Index[b]] = NoBlock
      BY <1>2 DEF Adds
    <2>2. /\ \A c \in ChainIDs : \A i \in Indices :
                files'[c][i] = IF c = t /\ i = Index[b] THEN b ELSE files[c][i]
          /\ \A c \in ChainIDs : \A i \in Indices : files[c][i] # NoBlock => files'[c][i] = files[c][i]
      BY <1>2, AddsCells
    <2>3. b \in Blocks /\ t \in ChainIDs /\ Index[b] \in Indices
      BY <2>1, StoreCases
    <2>4. NoBlock \notin Blocks /\ Main \notin Blocks /\ Blocks \subseteq ChainIDs
      BY ChainStoreAssumption DEF ChainIDs
    <2>5. ASSUME NEW f \in Blocks, NEW i \in Indices, files'[f][i] \in Blocks
          PROVE  \/ i = Index[f] /\ files'[f][i] = f
                 \/ i > Index[f] /\ files'[f][i - 1] = Prev[files'[f][i]]
      <3>1. CASE f = t /\ i = Index[b]
        <4>1. files'[f][i] = b
          BY <2>2, <2>3, <3>1
        <4>2. CASE t = b
          BY <3>1, <4>1, <4>2
        <4>3. CASE /\ Prev[b] \in Blocks /\ files[t][Index[b] - 1] = Prev[b]
                   /\ Index[b] - 1 \in Indices
          <5>1. Index[b] - 1 = Index[f] \/ Index[b] - 1 > Index[f]
            <6>1. files[f][Index[b] - 1] \in Blocks
              BY <3>1, <4>3
            <6> QED BY <4>3, <6>1 DEF KnownInv, ForksLinked
          <5>2. Index[f] \in Nat /\ Index[b] \in Nat
            BY <2>3, ChainStoreAssumption DEF Indices
          <5>3. i > Index[f]
            BY <3>1, <5>1, <5>2
          <5>4. files'[f][i - 1] = Prev[b]
            BY <2>2, <2>4, <3>1, <4>3
          <5> QED BY <4>1, <5>3, <5>4
        <4> QED BY <2>1, <2>4, <3>1, <4>2, <4>3, StoreCases
      <3>2. CASE ~(f = t /\ i = Index[b])
        <4>1. files'[f][i] = files[f][i]
          BY <2>2, <2>4, <3>2
        <4>2. \/ i = Index[f] /\ files[f][i] = f
              \/ i > Index[f] /\ files[f][i - 1] = Prev[files[f][i]]
          BY <2>5, <4>1 DEF KnownInv, ForksLinked
        <4>3. CASE i > Index[f] /\ files[f][i - 1] = Prev[files[f][i]]
          <5> DEFINE x == files[f][i]
          <5>1. Below(x, f) /\ Index[x] = i /\ x \in Blocks
            BY <2>4, <2>5, <4>1 DEF HomeInv, Descends, IndexedFiles
          <5>2. Index[f] \in Nat /\ i \in Nat
            BY ChainStoreAssumption DEF Indices
          <5>3. x # f
            BY <4>3, <5>1, <5>2
          <5>4. Prev[x] \in Blocks
            BY <5>1, <5>3, BelowParent DEF Child
          <5>5. i - 1 \in Indices
            BY <4>3, <5>2, ChainStoreAssumption DEF Indices
          <5>6. files'[f][i - 1] = files[f][i - 1]
            BY <2>2, <2>4, <4>3, <5>4, <5>5
          <5> QED BY <4>1, <4>3, <5>6
        <4> QED BY <4>1, <4>2, <4>3
      <3> QED BY <3>1, <3>2
    <2> QED BY <2>5 DEF ForksLinked
  <1> QED BY <1>1, <1>2, KnownCases DEF KnownInv

LEMMA KnownInit == Init => KnownInv
  <1> SUFFICES ASSUME Init PROVE KnownInv
    OBVIOUS
  <1>1. \A f \in Blocks : \A i \in Indices : files[f][i] = NoBlock
    BY DEF Init, ChainIDs
  <1>2. disk = latest /\ disk # Torn
    BY ChainStoreAssumption DEF Init, NoChains, States
  <1>3. NoBlock \notin Blocks
    BY ChainStoreAssumption DEF ChainIDs
  <1> QED BY <1>1, <1>2, <1>3 DEF KnownInv, FilesKnown, ForksLinked

\* While the process only dies between two steps, every fork's files start with its base
\* block, and each links to the block in the file before (BlockDB.add in a fork).
THEOREM ForksAreLinked ==
    ASSUME Faults \subseteq {"crash"}
    PROVE  Spec => []ForksLinked
  <1>1. HomeInv /\ KnownInv /\ [Next]_vars => KnownInv'
    BY FilesKnownStep, ForksLinkedStep DEF KnownInv
  <1>2. KnownInv => ForksLinked
    BY DEF KnownInv
  <1> QED BY <1>1, <1>2, KnownInit, HomeInvariant, PTL DEF Spec

-------------------------------------------------------------------------------
(***************************************************************************)
(* The refinement: the stored blocks are the tree of BlockTree.            *)
(***************************************************************************)

StoredBlocks == {b \in Blocks : Stored(b)}

\* What is stored stays, and the worker's block is added.
LEMMA AddsStores ==
    ASSUME HomeInv, NEW w \in Workers, Adds(w)
    PROVE  StoredBlocks' = StoredBlocks \cup {job[w].block}
  <1> DEFINE b == job[w].block
             t == job[w].target
  <1>1. /\ \A c \in ChainIDs : \A i \in Indices :
              files'[c][i] = IF c = t /\ i = Index[b] THEN b ELSE files[c][i]
        /\ \A c \in ChainIDs : \A i \in Indices : files[c][i] # NoBlock => files'[c][i] = files[c][i]
    BY AddsCells
  <1>2. b \in Blocks /\ t \in ChainIDs /\ Index[b] \in Indices
    BY StoreCases DEF Adds
  <1>3. \A x \in Blocks : x = b => Stored(x)'
    BY <1>1, <1>2 DEF Stored
  <1>4. ASSUME NEW x \in Blocks, Stored(x) PROVE Stored(x)'
    <2>1. PICK c \in ChainIDs : files[c][Index[x]] = x
      BY <1>4 DEF Stored
    <2>2. x # NoBlock /\ Index[x] \in Indices
      BY ChainStoreAssumption DEF ChainIDs
    <2> QED BY <1>1, <2>1, <2>2 DEF Stored
  <1>5. ASSUME NEW x \in Blocks, Stored(x)', x # b PROVE Stored(x)
    <2>1. PICK c \in ChainIDs : files'[c][Index[x]] = x
      BY <1>5 DEF Stored
    <2>2. Index[x] \in Indices
      BY ChainStoreAssumption
    <2> QED BY <1>1, <1>5, <2>1, <2>2 DEF Stored
  <1> QED BY <1>2, <1>3, <1>4, <1>5 DEF StoredBlocks

\* The block is the first of index 0, or its predecessor is stored one index below.
LEMMA AddsGrow ==
    ASSUME HomeInv, ForksLinked, NEW w \in Workers, Adds(w)
    PROVE  \/ Index[job[w].block] = 0 /\ \A a \in StoredBlocks : Index[a] # 0
           \/ /\ Prev[job[w].block] \in StoredBlocks
              /\ Index[job[w].block] = Index[Prev[job[w].block]] + 1
  <1> DEFINE b == job[w].block
             t == job[w].target
  <1>1. pc[w] = "store" /\ files[t][Index[b]] = NoBlock
    BY DEF Adds
  <1>2. b \in Blocks /\ Index[b] \in Indices /\ Index[b] \in Nat
    BY <1>1, StoreCases, ChainStoreAssumption DEF Indices
  <1>3. ASSUME NEW c \in ChainIDs, Index[b] - 1 \in Indices, Prev[b] \in Blocks,
               files[c][Index[b] - 1] = Prev[b]
        PROVE  Prev[b] \in StoredBlocks /\ Index[b] = Index[Prev[b]] + 1
    <2>1. Index[Prev[b]] = Index[b] - 1
      BY <1>3 DEF HomeInv, IndexedFiles
    <2>2. Stored(Prev[b])
      BY <1>3, <2>1 DEF Stored
    <2> QED BY <1>2, <1>3, <2>1, <2>2 DEF StoredBlocks
  <1>4. ASSUME t = Main, Index[b] = 0, NEW a \in StoredBlocks, Index[a] = 0 PROVE FALSE
    <2>1. PICK c \in ChainIDs : files[c][0] = a /\ a \in Blocks
      BY <1>4 DEF StoredBlocks, Stored
    <2>2. a # NoBlock /\ 0 \in Indices
      BY <1>2, <1>4, <2>1, ChainStoreAssumption DEF ChainIDs
    <2>3. c \in Blocks
      BY <1>1, <1>4, <2>1, <2>2 DEF ChainIDs
    <2>4. Index[c] > 0
      BY <2>1, <2>2, <2>3 DEF HomeInv, Descends, Leaves
    <2>5. 0 >= Index[c]
      BY <2>1, <2>2, <2>3, ChainStoreAssumption DEF ForksLinked, Indices
    <2> QED BY <2>3, <2>4, <2>5, ChainStoreAssumption DEF Indices
  <1>5. CASE t = job[w].parent /\ Index[b] # 0
    BY <1>1, <1>3, <1>5, StoreCases
  <1>6. CASE t = b /\ Index[b] # 0 /\ Leaves(b, files[Main]) /\ Prev[b] \in Blocks
    <2>1. Index[b] - 1 \in Indices /\ files[Main][Index[b] - 1] = Prev[b] /\ Main \in ChainIDs
      BY <1>2, <1>6, ChainStoreAssumption DEF Leaves, Indices, ChainIDs
    <2> QED BY <1>3, <1>6, <2>1
  <1>7. CASE t = Main /\ Index[b] = 0
    BY <1>4, <1>7
  <1> QED BY <1>1, <1>5, <1>6, <1>7, StoreCases

LEMMA TreeStep ==
    ASSUME Faults \subseteq {"crash"}, HomeInv, KnownInv, [Next]_vars
    PROVE  Tree!Next \/ StoredBlocks' = StoredBlocks
  <1>1. CASE files' = files
    BY <1>1 DEF StoredBlocks, Stored
  <1>2. ASSUME NEW w \in Workers, Adds(w) PROVE Tree!Next \/ StoredBlocks' = StoredBlocks
    <2> DEFINE b == job[w].block
    <2>1. StoredBlocks' = StoredBlocks \cup {b}
      BY <1>2, AddsStores
    <2>2. \/ Index[b] = 0 /\ \A a \in StoredBlocks : Index[a] # 0
          \/ Prev[b] \in StoredBlocks /\ Index[b] = Index[Prev[b]] + 1
      BY <1>2, AddsGrow DEF KnownInv
    <2>3. b \in Blocks
      BY <1>2, StoreCases DEF Adds
    <2>4. CASE b \in StoredBlocks
      BY <2>1, <2>4
    <2>5. CASE b \notin StoredBlocks
      BY <2>1, <2>2, <2>3, <2>5 DEF Tree!Next, Tree!Accept, Tree!Root, Tree!Child, StoredBlocks
    <2> QED BY <2>4, <2>5
  <1> QED BY <1>1, <1>2, KnownCases DEF KnownInv

\* While the process only dies between two steps, the blocks of all chains together are the
\* growing tree of BlockTree: a step adds nothing, or the first block of index 0, or a child
\* of a stored block (verifyBlock, createFork and BlockDB.add, of any number of callers).
THEOREM StoreIsATree ==
    ASSUME Faults \subseteq {"crash"}
    PROVE  Spec => TreeGrows
  <1>1. Init => Tree!Init
    <2> SUFFICES ASSUME Init PROVE Tree!Init
      OBVIOUS
    <2>1. ASSUME NEW b \in Blocks PROVE ~Stored(b)
      <3>1. b # NoBlock /\ Index[b] \in Indices
        BY ChainStoreAssumption DEF ChainIDs
      <3> QED BY <3>1 DEF Init, Stored
    <2> QED BY <2>1 DEF Tree!Init
  <1>2. HomeInv /\ KnownInv /\ [Next]_vars => [Tree!Next]_StoredBlocks
    BY TreeStep
  <1>3. HomeInv /\ KnownInv /\ [Next]_vars => KnownInv'
    BY FilesKnownStep, ForksLinkedStep DEF KnownInv
  <1> QED BY <1>1, <1>2, <1>3, KnownInit, HomeInvariant, PTL DEF Spec, TreeGrows, Tree!Spec, StoredBlocks

-------------------------------------------------------------------------------
(***************************************************************************)
(* Callers that take turns.                                                *)
(***************************************************************************)

Whole == \A c \in ChainIDs : \A i \in Indices : files[c][i] # Torn

Alone == \A v, w \in Workers : v # w => pc[v] = "idle" \/ pc[w] = "idle"

\* The main chain has a block at each index up to that of its latest block, and that is the last.
FilledToTip ==
    /\ \A i \in Indices : files[Main][i] \in Blocks <=> disk[Main] # NoBlock /\ i <= Index[disk[Main]]
    /\ disk[Main] # NoBlock => files[Main][Index[disk[Main]]] = disk[Main]

\* Nobody has stored a block at the index that a caller has found to be free.
Free ==
    \A w \in Workers : pc[w] \notin {"idle", "wallets"} /\ job[w].target = Main =>
        files[Main][Index[job[w].block]] = NoBlock

NotYetApplied ==
    \A w \in Workers : pc[w] = "wallets" =>
        /\ files[Main][Index[job[w].block]] = job[w].block
        /\ applied[job[w].block] = 0

\* While the callers take turns.
TurnInv == FilledToTip /\ Free /\ NotYetApplied /\ AppliedAtMostOnce

SerialInv == Whole /\ (~overlapped => Alone /\ TurnInv)

\* Who goes on or ends without a block stored or wallets adjusted.
Quiet ==
    /\ applied' = applied
    /\ \A v \in Workers : pc'[v] # "idle" =>
          pc[v] # "idle" /\ job'[v] = job[v] /\ (pc'[v] = "wallets" <=> pc[v] = "wallets")

LEMMA FinishQuiet ==
    ASSUME HomeInv, NEW w \in Workers, Finish(w)
    PROVE  \A v \in Workers : pc'[v] # "idle" =>
              v # w /\ pc[v] # "idle" /\ job'[v] = job[v] /\ pc'[v] = pc[v]
  <1>1. pc' = [pc EXCEPT ![w] = "idle"] /\ job' = [job EXCEPT ![w] = NoJob]
    BY DEF Finish
  <1>2. pc \in [Workers -> PCs] /\ job \in [Workers -> Jobs]
    BY DEF HomeInv, StoreInv, TypeOK, PCs
  <1> QED BY <1>1, <1>2

LEMMA QuietCases ==
    ASSUME Faults \subseteq {"crash"}, HomeInv, [Next]_vars
    PROVE  \/ Quiet
           \/ \E w \in Workers : StoreBlock(w) \/ AdjustWallets(w) \/ \E b \in Blocks : VerifyBlock(w, b)
  <1>0. pc \in [Workers -> PCs]
    BY DEF HomeInv, StoreInv, TypeOK, PCs
  <1>1. ASSUME NEW w \in Workers, Throw(w) PROVE Quiet
    <2>1. applied' = applied
      BY <1>1 DEF Throw
    <2>2. CASE node = "up"
      BY <1>1, <2>1, <2>2, FinishQuiet DEF Throw, Quiet
    <2>3. CASE node # "up"
      BY <1>1, <2>1, <2>3 DEF Throw, Halt, Quiet
    <2> QED BY <2>2, <2>3
  <1>2. ASSUME NEW w \in Workers, pc[w] \notin {"idle", "wallets"}, NEW q \in {"store", "open", "undo"},
               pc' = [pc EXCEPT ![w] = q], job' = job, applied' = applied
        PROVE  Quiet
    BY <1>0, <1>2 DEF Quiet
  <1>3. ASSUME NEW w \in Workers, Step(w)
        PROVE  Quiet \/ StoreBlock(w) \/ AdjustWallets(w)
    <2>1. CASE RejectBlock(w)
      BY <2>1, FinishQuiet DEF RejectBlock, Quiet
    <2>2. CASE ExecuteBlock(w)
      BY <1>1, <1>2, <2>2 DEF ExecuteBlock
    <2>3. CASE OpenFork(w)
      BY <1>1, <1>2, <2>3 DEF OpenFork
    <2>4. CASE UndoBlock(w)
      BY <1>1, <2>4 DEF UndoBlock, Quiet
    <2>5. CASE EndUndo(w)
      BY <1>2, <2>5 DEF EndUndo
    <2> QED BY <1>3, <2>1, <2>2, <2>3, <2>4, <2>5 DEF Step
  <1>4. ASSUME NEW w \in Workers, CrashInStore(w) PROVE FALSE
    BY <1>4 DEF CrashInStore
  <1>5. CASE GracefulShutdown \/ UNCHANGED vars
    BY <1>5 DEF GracefulShutdown, vars, tasks, Quiet
  <1>6. CASE Exit \/ Crash
    BY <1>6 DEF Exit, Crash, Halt, Quiet
  <1>7. CASE Restart
    BY <1>7 DEF Restart, tasks, Quiet
  <1> QED BY <1>3, <1>4, <1>5, <1>6, <1>7 DEF Next

LEMMA WholeStep ==
    ASSUME Faults \subseteq {"crash"}, HomeInv, FilesKnown, Whole, [Next]_vars
    PROVE  Whole'
  <1>1. CASE files' = files
    BY <1>1 DEF Whole
  <1>2. ASSUME NEW w \in Workers, Adds(w) PROVE Whole'
    <2>1. job[w].block # Torn
      BY <1>2, StoreCases, ChainStoreAssumption DEF Adds, ChainIDs
    <2> QED BY <1>2, <2>1, AddsCells DEF Whole
  <1> QED BY <1>1, <1>2, KnownCases

\* The files and the chain state on disk are the same, and nobody is busy who was not.
LEMMA QuietTurn ==
    ASSUME HomeInv, TurnInv, Quiet, files' = files, disk' = disk
    PROVE  TurnInv'
  <1>1. FilledToTip'
    BY DEF TurnInv, FilledToTip
  <1>2. Free'
    BY DEF TurnInv, Free, Quiet
  <1>3. NotYetApplied'
    BY DEF TurnInv, NotYetApplied, Quiet
  <1>4. AppliedAtMostOnce'
    BY DEF TurnInv, AppliedAtMostOnce, Quiet
  <1> QED BY <1>1, <1>2, <1>3, <1>4 DEF TurnInv

\* What verifyBlock places on the main chain has no file there.
LEMMA MatchFree ==
    ASSUME HomeInv, Whole, disk = latest, FilledToTip, NEW b \in Blocks, NEW j \in Match(b), j.target = Main
    PROVE  j.block = b /\ files[Main][Index[b]] = NoBlock
  <1>1. Main \notin Blocks /\ Index[b] \in Indices /\ Main \in ChainIDs
    BY ChainStoreAssumption DEF ChainIDs
  <1>2. files[Main][Index[b]] \notin Blocks => files[Main][Index[b]] = NoBlock
    <2>1. files[Main][Index[b]] \in Cells /\ files[Main][Index[b]] # Torn
      BY <1>1 DEF HomeInv, StoreInv, TypeOK, Whole
    <2> QED BY <2>1 DEF Cells
  <1>3. CASE Index[b] = 0
    BY <1>1, <1>2, <1>3 DEF Match, Job, FilledToTip
  <1>4. CASE Index[b] # 0
    <2>1. PICK p \in ChainIDs : j = Job(b, IF files[p][Index[b]] \in Blocks THEN b ELSE p, p)
      BY <1>4 DEF Match, Parents
    <2> QED BY <1>1, <1>2, <2>1 DEF Job
  <1> QED BY <1>3, <1>4

LEMMA VerifyTurn ==
    ASSUME HomeInv, FilesKnown, Whole, TurnInv, NEW w \in Workers, NEW b \in Blocks, VerifyBlock(w, b)
    PROVE  TurnInv'
  <1>1. PICK j \in Match(b) : job' = [job EXCEPT ![w] = j]
    BY DEF VerifyBlock
  <1>2. /\ pc' = [pc EXCEPT ![w] = "check"] /\ node # "down"
        /\ files' = files /\ disk' = disk /\ applied' = applied
    BY DEF VerifyBlock, stores
  <1>3. pc \in [Workers -> PCs] /\ job \in [Workers -> Jobs]
    BY DEF HomeInv, StoreInv, TypeOK, PCs
  <1>4. /\ pc'[w] = "check" /\ job'[w] = j
        /\ \A v \in Workers : v # w => pc'[v] = pc[v] /\ job'[v] = job[v]
    BY <1>1, <1>2, <1>3
  <1>5. Free'
    <2>1. ASSUME NEW v \in Workers, pc'[v] \notin {"idle", "wallets"}, job'[v].target = Main
          PROVE  files[Main][Index[job'[v].block]] = NoBlock
      <3>1. CASE v = w
        <4>1. disk = latest
          BY <1>2 DEF FilesKnown
        <4> QED BY <1>4, <2>1, <3>1, <4>1, MatchFree DEF TurnInv
      <3>2. CASE v # w
        BY <1>4, <2>1, <3>2 DEF TurnInv, Free
      <3> QED BY <3>1, <3>2
    <2> QED BY <1>2, <2>1 DEF Free
  <1>6. NotYetApplied'
    <2>1. ASSUME NEW v \in Workers, pc'[v] = "wallets"
          PROVE  files[Main][Index[job'[v].block]] = job'[v].block /\ applied[job'[v].block] = 0
      <3>1. v # w
        BY <1>4, <2>1
      <3> QED BY <1>4, <2>1, <3>1 DEF TurnInv, NotYetApplied
    <2> QED BY <1>2, <2>1 DEF NotYetApplied
  <1>7. FilledToTip' /\ AppliedAtMostOnce'
    BY <1>2 DEF TurnInv, FilledToTip, AppliedAtMostOnce
  <1> QED BY <1>5, <1>6, <1>7 DEF TurnInv

LEMMA WalletsTurn ==
    ASSUME HomeInv, Alone, TurnInv, NEW w \in Workers, AdjustWallets(w)
    PROVE  TurnInv'
  <1> DEFINE b == job[w].block
  <1>1. pc[w] = "wallets" /\ Finish(w) /\ files' = files /\ disk' = disk
    BY DEF AdjustWallets, stores
  <1>2. /\ b \in Blocks /\ applied \in [Blocks -> 0..2]
        /\ files[Main][Index[b]] = b /\ applied[b] = 0
    BY <1>1, BusyJob DEF HomeInv, StoreInv, TypeOK, TurnInv, NotYetApplied
  <1>3. applied' = [applied EXCEPT ![b] = 1] \/ applied' = applied
    BY <1>2 DEF AdjustWallets
  <1>4. \A v \in Workers : pc'[v] = "idle"
    BY <1>1, FinishQuiet DEF Alone
  <1>5. Free' /\ NotYetApplied'
    BY <1>4 DEF Free, NotYetApplied
  <1>6. AppliedAtMostOnce'
    <2>1. \A a \in Blocks : applied'[a] = applied[a] \/ (a = b /\ applied'[a] = 1)
      BY <1>2, <1>3
    <2> QED BY <1>1, <1>2, <2>1 DEF TurnInv, AppliedAtMostOnce
  <1>7. FilledToTip'
    BY <1>1 DEF TurnInv, FilledToTip
  <1> QED BY <1>5, <1>6, <1>7 DEF TurnInv

\* The only caller stores its block on the main chain: at the index after the latest one's.
LEMMA StoreMainTurn ==
    ASSUME "io" \notin Faults, HomeInv, FilesKnown, Alone, TurnInv,
           NEW w \in Workers, StoreBlock(w), job[w].target = Main
    PROVE  TurnInv'
  <1> DEFINE b == job[w].block
  <1>1. /\ pc[w] = "store" /\ latest' = [latest EXCEPT ![Main] = b] /\ disk' = latest'
        /\ pc' = [pc EXCEPT ![w] = "wallets"] /\ job' = job /\ applied' = applied
    BY DEF StoreBlock, TouchesWallets
  <1>2. files[Main][Index[b]] = NoBlock
    BY <1>1 DEF TurnInv, Free
  <1>3. Adds(w)
    BY <1>2, StoreAdds
  <1>4. /\ b \in Blocks /\ Main \in ChainIDs /\ Index[b] \in Indices /\ NoBlock \notin Blocks
        /\ Main \notin Blocks
    BY <1>1, StoreCases, ChainStoreAssumption DEF ChainIDs
  <1>5. /\ \A i \in Indices : files'[Main][i] = IF i = Index[b] THEN b ELSE files[Main][i]
    BY <1>3, <1>4, AddsCells
  <1>6. /\ disk = latest /\ latest \in States /\ pc \in [Workers -> PCs]
        /\ applied \in [Blocks -> 0..2]
    BY <1>1, BusyJob DEF HomeInv, FilesKnown, StoreInv, TypeOK, PCs
  <1>7. disk'[Main] = b
    BY <1>1, <1>4, <1>6 DEF States
  <1>8. \A i \in Indices : files[Main][i] \in Blocks <=> i < Index[b]
    <2>1. CASE Index[b] = 0
      <3>1. disk[Main] = NoBlock
        <4>1. disk[Main] \in Blocks => Index[disk[Main]] \in Nat
          BY ChainStoreAssumption DEF Indices
        <4>2. disk[Main] \in Blocks \cup {NoBlock}
          BY <1>4, <1>6 DEF States
        <4>3. ~(disk[Main] # NoBlock /\ 0 <= Index[disk[Main]])
          BY <1>2, <1>4, <2>1 DEF TurnInv, FilledToTip
        <4> QED BY <4>1, <4>2, <4>3
      <3>2. \A i \in Indices : ~(i < 0)
        BY ChainStoreAssumption DEF Indices
      <3> QED BY <2>1, <3>1, <3>2 DEF TurnInv, FilledToTip
    <2>2. CASE Index[b] # 0
      <3>1. Prev[b] \in Blocks /\ files[Main][Index[b] - 1] = Prev[b] /\ Index[b] - 1 \in Indices
        BY <1>1, <1>4, <2>2, StoreCases
      <3>2. disk[Main] # NoBlock /\ Index[b] - 1 <= Index[disk[Main]]
        BY <3>1 DEF TurnInv, FilledToTip
      <3>3. ~(Index[b] <= Index[disk[Main]])
        BY <1>2, <1>4, <3>2 DEF TurnInv, FilledToTip
      <3>4. disk[Main] \in Blocks
        BY <1>4, <1>6, <3>2 DEF States
      <3>5. Index[disk[Main]] \in Nat /\ Index[b] \in Nat
        BY <1>4, <3>4, ChainStoreAssumption DEF Indices
      <3>6. Index[disk[Main]] = Index[b] - 1
        BY <3>2, <3>3, <3>5
      <3>7. \A i \in Indices : i <= Index[disk[Main]] <=> i < Index[b]
        BY <3>5, <3>6, ChainStoreAssumption DEF Indices
      <3> QED BY <3>2, <3>7 DEF TurnInv, FilledToTip
    <2> QED BY <2>1, <2>2
  <1>9. FilledToTip'
    <2>1. ASSUME NEW i \in Indices
          PROVE  files'[Main][i] \in Blocks <=> i <= Index[b]
      <3>1. i \in Nat /\ Index[b] \in Nat
        BY <1>4, ChainStoreAssumption DEF Indices
      <3> QED BY <1>4, <1>5, <1>8, <3>1
    <2>2. files'[Main][Index[b]] = b
      BY <1>4, <1>5
    <2> QED BY <1>4, <1>7, <2>1, <2>2 DEF FilledToTip
  <1>10. \A v \in Workers : pc'[v] # "idle" => v = w /\ pc'[v] = "wallets"
    BY <1>1, <1>6 DEF Alone
  <1>11. Free'
    BY <1>10 DEF Free
  <1>12. applied[b] = 0
    <2>1. applied[b] \in 0..2 /\ applied[b] <= 1 /\ applied[b] # 1
      BY <1>2, <1>4, <1>6 DEF TurnInv, AppliedAtMostOnce
    <2> QED BY <2>1
  <1>13. NotYetApplied'
    <2>1. ASSUME NEW v \in Workers, pc'[v] = "wallets"
          PROVE  files'[Main][Index[job'[v].block]] = job'[v].block /\ applied'[job'[v].block] = 0
      BY <1>1, <1>4, <1>5, <1>10, <1>12, <2>1
    <2> QED BY <2>1 DEF NotYetApplied
  <1>14. AppliedAtMostOnce'
    <2>1. ASSUME NEW a \in Blocks
          PROVE  applied'[a] <= 1 /\ (applied'[a] = 1 => files'[Main][Index[a]] = a)
      <3>1. applied[a] <= 1 /\ (applied[a] = 1 => files[Main][Index[a]] = a) /\ Index[a] \in Indices
        BY ChainStoreAssumption DEF TurnInv, AppliedAtMostOnce
      <3>2. applied[a] = 1 => Index[a] # Index[b]
        BY <1>2, <1>4, <3>1
      <3> QED BY <1>1, <1>5, <3>1, <3>2
    <2> QED BY <2>1 DEF AppliedAtMostOnce
  <1> QED BY <1>9, <1>11, <1>13, <1>14 DEF TurnInv

\* A block that is stored in a fork leaves the main chain and the wallets alone.
LEMMA StoreForkTurn ==
    ASSUME "io" \notin Faults, HomeInv, FilesKnown, TurnInv,
           NEW w \in Workers, StoreBlock(w), job[w].target # Main
    PROVE  TurnInv'
  <1> DEFINE t == job[w].target
  <1>1. /\ pc[w] = "store" /\ latest' = [latest EXCEPT ![t] = job[w].block] /\ disk' = latest'
        /\ Finish(w) /\ applied' = applied
    BY DEF StoreBlock, TouchesWallets
  <1>2. disk'[Main] = disk[Main]
    <2>1. disk = latest /\ latest \in States /\ Main \in ChainIDs
      BY <1>1, BusyJob DEF HomeInv, FilesKnown, StoreInv, TypeOK, ChainIDs
    <2> QED BY <1>1, <2>1 DEF States
  <1>3. \A i \in Indices : files'[Main][i] = files[Main][i]
    <2>1. files' = files \/ Adds(w)
      BY StoreAdds
    <2>2. Main \in ChainIDs
      BY DEF ChainIDs
    <2> QED BY <2>1, <2>2, AddsCells
  <1>4. \A v \in Workers : pc'[v] # "idle" => v # w /\ pc'[v] = pc[v] /\ job'[v] = job[v]
    BY <1>1, FinishQuiet
  <1>5. \A a \in Blocks : Index[a] \in Indices
    BY ChainStoreAssumption
  <1>6. \A v \in Workers : pc'[v] # "idle" => Index[job[v].block] \in Indices
    BY <1>4, BusyJob DEF HomeInv
  <1>7. FilledToTip'
    <2>1. disk[Main] # NoBlock => Index[disk[Main]] \in Indices
      BY <1>1, <1>5, BusyJob DEF HomeInv, FilesKnown, StoreInv, TypeOK, States, ChainIDs
    <2> QED BY <1>2, <1>3, <2>1 DEF TurnInv, FilledToTip
  <1>8. Free'
    BY <1>3, <1>4, <1>6 DEF TurnInv, Free
  <1>9. NotYetApplied'
    BY <1>1, <1>3, <1>4, <1>6 DEF TurnInv, NotYetApplied
  <1>10. AppliedAtMostOnce'
    BY <1>1, <1>3, <1>5 DEF TurnInv, AppliedAtMostOnce
  <1> QED BY <1>7, <1>8, <1>9, <1>10 DEF TurnInv

LEMMA SerialInit == Init => Whole /\ Alone /\ TurnInv
  <1> SUFFICES ASSUME Init PROVE Whole /\ Alone /\ TurnInv
    OBVIOUS
  <1>1. /\ \A c \in ChainIDs : \A i \in Indices : files[c][i] = NoBlock
        /\ disk[Main] = NoBlock
        /\ Main \in ChainIDs
    BY DEF Init, NoChains, ChainIDs
  <1>2. NoBlock \notin Blocks /\ NoBlock # Torn
    BY ChainStoreAssumption DEF ChainIDs
  <1>3. \A w \in Workers : pc[w] = "idle"
    BY DEF Init
  <1>4. \A b \in Blocks : applied[b] = 0
    BY DEF Init
  <1> QED BY <1>1, <1>2, <1>3, <1>4 DEF Whole, Alone, TurnInv, FilledToTip, Free, NotYetApplied, AppliedAtMostOnce

LEMMA SerialStep ==
    ASSUME Faults \subseteq {"crash"}, HomeInv, FilesKnown, SerialInv, [HNext]_<<vars, overlapped>>
    PROVE  SerialInv'
  <1>1. [Next]_vars
    BY DEF HNext
  <1>2. Whole'
    BY <1>1, WholeStep DEF SerialInv
  <1>3. ASSUME ~overlapped' PROVE ~overlapped /\ Alone'
    <2>1. CASE HNext
      BY <1>3, <2>1 DEF HNext, Alone
    <2>2. CASE UNCHANGED <<vars, overlapped>>
      BY <1>3, <2>2 DEF SerialInv, Alone, vars, tasks
    <2> QED BY <2>1, <2>2
  <1>4. ASSUME ~overlapped' PROVE TurnInv'
    <2>1. Whole /\ Alone /\ TurnInv
      BY <1>3, <1>4 DEF SerialInv
    <2>2. ASSUME NEW w \in Workers, StoreBlock(w) PROVE TurnInv'
      BY <2>1, <2>2, StoreMainTurn, StoreForkTurn
    <2>3. ASSUME NEW w \in Workers, AdjustWallets(w) PROVE TurnInv'
      BY <2>1, <2>3, WalletsTurn
    <2>4. ASSUME NEW w \in Workers, NEW b \in Blocks, VerifyBlock(w, b) PROVE TurnInv'
      BY <2>1, <2>4, VerifyTurn
    <2>5. CASE Quiet
      BY <1>1, <2>1, <2>2, <2>5, QuietTurn, KnownCases
    <2> QED BY <1>1, <2>2, <2>3, <2>4, <2>5, QuietCases
  <1> QED BY <1>2, <1>3, <1>4 DEF SerialInv

LEMMA TipFound ==
    ASSUME HomeInv, FilesKnown, SerialInv
    PROVE  SerialHistory
  <1> SUFFICES ASSUME ~overlapped PROVE TipStored /\ AppliedAtMostOnce
    BY DEF SerialHistory
  <1>1. TurnInv
    BY DEF SerialInv
  <1>2. TipStored
    BY <1>1 DEF TipStored, TurnInv, FilledToTip, FilesKnown
  <1> QED BY <1>1, <1>2 DEF TurnInv

\* While the process only dies between two steps and the callers of verifyBlock and
\* executeBlock take turns, the chain state names the last block file of the main chain,
\* and no block adjusts the wallets twice (a block found to follow the last file finds
\* its own file free when it is stored, and its wallets are adjusted before the next).
THEOREM TurnsKeepTip ==
    ASSUME Faults \subseteq {"crash"}
    PROVE  HSpec => []SerialHistory
  <1>1. HInit => HomeInv /\ KnownInv /\ SerialInv
    BY HomeInit, KnownInit, SerialInit DEF HInit, SerialInv
  <1>2. HomeInv /\ KnownInv /\ SerialInv /\ [HNext]_<<vars, overlapped>>
        => (HomeInv /\ KnownInv /\ SerialInv)'
    <2> SUFFICES ASSUME HomeInv, KnownInv, SerialInv, [HNext]_<<vars, overlapped>>
                 PROVE  (HomeInv /\ KnownInv /\ SerialInv)'
      OBVIOUS
    <2>1. [Next]_vars
      BY DEF HNext
    <2>2. HomeInv'
      BY <2>1, HomeStep
    <2>3. FilesKnown' /\ ForksLinked'
      BY <2>1, FilesKnownStep, ForksLinkedStep DEF KnownInv
    <2>4. SerialInv'
      BY SerialStep DEF KnownInv
    <2> QED BY <2>2, <2>3, <2>4 DEF KnownInv
  <1>3. HomeInv /\ KnownInv /\ SerialInv => SerialHistory
    BY TipFound DEF KnownInv
  <1> QED BY <1>1, <1>2, <1>3, PTL DEF HSpec

===============================================================================
