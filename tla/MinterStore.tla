------------------------------ MODULE MinterStore ------------------------------
(***************************************************************************)
(* The minter database of the main chain (storage/state/minters.ts on      *)
(* storage/leveldb): the keys in LevelDB, the counts of them that          *)
(* LevelIndexes keeps per range, and the callers that use both at the same *)
(* time: the lines typed in the console (cli/commands/*DBCMD.ts), which    *)
(* nobody awaits, and the slots that ask for their minter.                 *)
(*                                                                         *)
(* An address is its position in the order of the keys: RangeSize          *)
(* addresses share a first byte.  A key outside Prefixed has not the       *)
(* prefix of a minter's address.                                           *)
(***************************************************************************)
EXTENDS Naturals, Sequences, FiniteSets, FiniteSetsExt

CONSTANTS
    Lines,      \* the console's lines and the slots that use the database
    Ranges,     \* LevelIndexes.rangeSize, 256 in the code
    RangeSize,  \* how many addresses share a first byte
    Foreign,    \* other keys the console may insert: they sort after all the minters
    Hashes,     \* the values of LCrypt.sha256(slot)
    NoKey       \* no address

Prefixed == 0..(Ranges * RangeSize - 1)
Keys     == Prefixed \cup Foreign

ASSUME MinterStoreAssumption ==
    /\ Ranges \in Nat \ {0}
    /\ RangeSize \in Nat \ {0}
    /\ Foreign \subseteq Nat \ Prefixed
    /\ Hashes \subseteq Nat
    /\ NoKey \notin Keys \cup Lines

VARIABLES
    stored,    \* the keys in LevelDB: "no", "minter" or "odd", a value that does not decode
    open,      \* the databases accept operations
    indexes,   \* indexes[c]: the LevelIndexes object the last load of caller c has made
    current,   \* the caller whose object is MinterDB.indexes, NoKey before the first
    task,      \* what each caller does (cmd, key) and where it is (at: "idle", "loading", "loaded",
               \* "issued", "sized", "reading" or "threw"); the index, key and ideal choice of a selection
    untouched  \* history: no key came or went since the load of the current object began

minterVars == <<stored, open, indexes, current, task, untouched>>

\* A "read" stands for every command that leaves the minters alone.
Commands == {"init", "read", "insert", "odd", "remove", "getnext"}
KeyCommands == {"insert", "odd", "remove"}
Idle     == [cmd |-> "read", key |-> NoKey, at |-> "idle", index |-> 0, pick |-> NoKey, ideal |-> NoKey]

NewIndexes == [sizes |-> << >>, counting |-> 0]

MinterInit(before) ==
    /\ stored = [k \in Keys |-> IF k \in before THEN "minter" ELSE "no"]
    /\ open = FALSE
    /\ indexes = [c \in Lines |-> NewIndexes]
    /\ current = NoKey
    /\ task = [c \in Lines |-> Idle]
    /\ untouched = FALSE

-------------------------------------------------------------------------------
(***************************************************************************)
(* LevelKeyIndexRange and LevelIndexes.                                    *)
(***************************************************************************)

FirstPossibleKey(r) == (r - 1) * RangeSize

\* (Operators named Slip... are plausible mistakes in the operator that follows.)
SlipLastPossibleKey(r) == FirstPossibleKey(r) + RangeSize - 2

LastPossibleKey(r) == FirstPossibleKey(r) + RangeSize - 1

Present == {k \in Keys : stored[k] # "no"}

\* The key stream of a range, on the snapshot LevelDB takes when it is created.
KeysOf(r) == {k \in Present : FirstPossibleKey(r) <= k /\ k <= LastPossibleKey(r)}

\* The n-th key of a set, counted from 0.
Nth(keys, n) == CHOOSE k \in keys : Cardinality({l \in keys : l < k}) = n

\* The keys counted in the first r ranges.
SizeUpTo(sizes, r) ==
    LET total[i \in 0..Len(sizes)] == IF i = 0 THEN 0 ELSE total[i - 1] + sizes[i]
    IN  total[r]

\* getTotalSize
TotalSize(sizes) == SizeUpTo(sizes, Len(sizes))

SlipRangeByIndex(sizes, n) == {r \in DOMAIN sizes : SizeUpTo(sizes, r) >= n}

\* getRangeByIndex: the first of these ranges, whose end the index lies before.
RangeByIndex(sizes, n) == {r \in DOMAIN sizes : SizeUpTo(sizes, r) > n}

\* An index object that counts, for each first byte, the addresses stored now.
Exact(sizes) ==
    sizes = [r \in 1..Ranges |-> Cardinality({k \in Present \cap Prefixed : k \div RangeSize = r - 1})]

-------------------------------------------------------------------------------
(***************************************************************************)
(* The callers.                                                            *)
(***************************************************************************)

Goto(c, point) == task' = [task EXCEPT ![c].at = point]
Sizes == indexes[current].sizes

\* LevelBasedStateStorage.initialized: one of the callers was here.
Initialized == current # NoKey

\* LevelBasedStateStorage.init opens a database once; closed, it stays so.
LevelInit == open \/ ~Initialized

\* Chain.waitAllinit and Chain.close, of the databases of a chain.
WaitAllInit == open' = LevelInit
CloseAll    == open' = FALSE

\* getData: what cannot be read is missing.
GetData(key) == IF open THEN stored[key] ELSE "no"

\* MinterDB.init, run by Blockchain.waitAllChainsInit at start and again before
\* every command on a database: the database is opened once, but a new LevelIndexes
\* object takes the place of the old one at once and is filled range by range.  (An
\* object that is neither the current one nor being filled is garbage.)
Load(c, cmd, key) ==
    /\ task[c].at = "idle"
    /\ task' = [task EXCEPT ![c] = [Idle EXCEPT !.cmd = cmd, !.key = key, !.at = "loading"]]
    /\ indexes' = [d \in Lines |-> IF d = c THEN [NewIndexes EXCEPT !.counting = Cardinality(KeysOf(1))]
                                   ELSE IF task[d].at = "loading" THEN indexes[d] ELSE NewIndexes]
    /\ WaitAllInit
    /\ current' = c
    /\ untouched' = TRUE
    /\ UNCHANGED stored

SlipLoaded(c, n) == n = Ranges /\ current = c

\* load has counted n ranges and returns.
Loaded(c, n) == n = Ranges

\* One round of LevelIndexes.load: the keys of a range have been counted, and the
\* key stream of the next one is created.
LoadRange(c) ==
    LET n == Len(indexes[c].sizes) + 1 IN
    /\ task[c].at = "loading"
    /\ indexes' = [indexes EXCEPT ![c] =
           IF n < Ranges
           THEN [sizes |-> Append(@.sizes, @.counting), counting |-> Cardinality(KeysOf(n + 1))]
           ELSE IF current = c THEN [sizes |-> Append(@.sizes, @.counting), counting |-> 0] ELSE NewIndexes]
    /\ IF Loaded(c, n) THEN Goto(c, "loaded") ELSE UNCHANGED task
    /\ UNCHANGED <<stored, open, current, untouched>>

\* An iterator of a closed database fails, and so does a load it interrupts.
LoadFails(c) ==
    /\ task[c].at = "loading"
    /\ ~open
    /\ Goto(c, "threw")
    /\ UNCHANGED <<stored, open, indexes, current, untouched>>

\* minterdb read: all the keys, which a closed database refuses; one minter, where a
\* read that fails looks like a minter that is missing; or what is no address.
MinterRead(c) == Goto(c, IF open THEN "idle" ELSE "threw") \/ Goto(c, "idle") \/ Goto(c, "threw")

\* walletdb read, likewise.
WalletRead(c) == Goto(c, IF open THEN "idle" ELSE "threw") \/ Goto(c, "idle") \/ Goto(c, "threw")

\* walletdb insert: setWallet of a closed database throws.  As elsewhere, a wrong
\* number of words ends it, and one that does not parse throws.
WalletInsert(c) == Goto(c, IF open THEN "idle" ELSE "threw") \/ Goto(c, "idle") \/ Goto(c, "threw")

\* walletdb remove: neither existsWallet nor deleteWallet tells that it failed.
WalletRemove(c) == Goto(c, "idle") \/ Goto(c, "threw")

\* blockdb read: a block is a file, and any index, file or content that is wrong
\* reads as a block that is not found.
BlockRead(c) == Goto(c, "idle")

\* chainstate read: the data of ChainState as it is in memory.
ChainstateRead(c) == Goto(c, "idle")

\* The command itself begins.  An argument that does not parse throws; a read, and
\* the removal of a minter that is not found or does not decode, end at once.
RunCommand(c) ==
    LET t == task[c] IN
    /\ t.at = "loaded"
    /\ \/ t.cmd = "init" /\ Goto(c, "idle")
       \/ t.cmd = "read" /\ \/ MinterRead(c) \/ WalletRead(c) \/ WalletInsert(c) \/ WalletRemove(c)
                            \/ BlockRead(c) \/ ChainstateRead(c)
       \/ t.cmd \in {"insert", "odd"} /\ Goto(c, IF open THEN "issued" ELSE "threw")
       \/ t.cmd = "remove" /\ Goto(c, IF GetData(t.key) = "minter" THEN "issued" ELSE "idle")
       \/ t.cmd \notin {"init", "read"} /\ Goto(c, "threw")
    /\ t.cmd # "getnext"
    /\ UNCHANGED <<stored, open, indexes, current, untouched>>

\* setMinter or removeMinter reaches LevelDB.  The counts of LevelIndexes stay as
\* they are: nobody calls addKey and removeKey.
Commit(c) ==
    LET t == task[c]
        value == CASE t.cmd = "insert" -> "minter" [] t.cmd = "odd" -> "odd" [] t.cmd = "remove" -> "no"
        moved == (stored[t.key] = "no") # (value = "no")
    IN  /\ t.at = "issued"
        /\ stored' = [stored EXCEPT ![t.key] = value]
        /\ task' = [d \in Lines |-> IF d = c THEN Idle
                                    ELSE IF moved THEN [task[d] EXCEPT !.ideal = NoKey] ELSE task[d]]
        /\ untouched' = (untouched /\ ~moved)
        /\ UNCHANGED <<open, indexes, current>>

\* selectNextMinter, called by getnext or by Slot.create, which loads nothing, its
\* first await.  With no minter counted there is no remainder, and it throws.
StartSelection(c, hash) ==
    LET n == TotalSize(Sizes) IN
    /\ task' = [task EXCEPT ![c] =
           IF n = 0 THEN [@ EXCEPT !.cmd = "getnext", !.at = "threw"]
           ELSE [@ EXCEPT !.cmd = "getnext", !.at = "sized", !.index = hash % n,
                          !.ideal = IF Exact(Sizes) THEN Nth(Present \cap Prefixed, hash % n) ELSE NoKey]]
    /\ UNCHANGED <<stored, open, indexes, current, untouched>>

\* getRangeByIndex and the key stream of the range: what it will yield is settled.
SelectKey(c) ==
    LET n  == task[c].index
        rs == RangeByIndex(Sizes, n)
        r  == Min(rs)
        offset == n - SizeUpTo(Sizes, r - 1)
        ideal  == IF Exact(Sizes) THEN task[c].ideal ELSE NoKey
    IN  /\ task[c].at = "sized"
        /\ IF rs # {} /\ open /\ offset < Cardinality(KeysOf(r))
           THEN task' = [task EXCEPT ![c].at = "reading", ![c].ideal = ideal, ![c].pick = Nth(KeysOf(r), offset)]
           ELSE task' = [task EXCEPT ![c].at = "threw", ![c].ideal = IF open THEN ideal ELSE NoKey]
        /\ UNCHANGED <<stored, open, indexes, current, untouched>>

\* The key has been read.
Selected(c) ==
    /\ task[c].at = "reading"
    /\ task' = [task EXCEPT ![c] = Idle]
    /\ UNCHANGED <<stored, open, indexes, current, untouched>>

MinterStep(c) ==
    \/ LoadRange(c) \/ LoadFails(c) \/ RunCommand(c) \/ Commit(c) \/ SelectKey(c) \/ Selected(c)
    \/ task[c].at = "loaded" /\ task[c].cmd = "getnext" /\ \E h \in Hashes : StartSelection(c, h)

-------------------------------------------------------------------------------
\* A selection whose index counts the stored keys, from its first step to its last,
\* yields the (hash mod n)-th of the n stored minters in the order of their addresses
\* and never throws: every node with the same database names the same minter,
\* whatever ranges the keys are counted in.
SelectionAgrees ==
    \A c \in Lines : task[c].ideal # NoKey /\ task[c].at \in {"reading", "threw"} =>
        task[c].at = "reading" /\ task[c].pick = task[c].ideal

\* Between the end of a load and the first key that comes or goes the index counts
\* every stored minter exactly once, though other loads and writes ran meanwhile.
LoadCountsAll ==
    current # NoKey /\ untouched /\ Len(Sizes) = Ranges => Exact(Sizes)
===============================================================================
