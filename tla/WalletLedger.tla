----------------------------- MODULE WalletLedger -----------------------------
(***************************************************************************)
(* The wallets of the main chain and of its forks (storage/wallets.ts,     *)
(* common/models/wallet.ts) under the callers that verify and execute      *)
(* blocks: a slot, the queue of past blocks, the synchronisation at the    *)
(* start.  None of them waits for the others.  verifyBlock checks every    *)
(* transaction against the main wallets of the moment; executeBlock puts   *)
(* the block on the chain, and only then adjustWalletsByBlock starts all   *)
(* its subtractions and additions at once: each of them reads a wallet     *)
(* from LevelDB, copies it to the forks that have none, changes it and     *)
(* writes it back, while other callers verify, execute or fork.  A block   *)
(* that begins a fork leaves the main wallets alone: createFork gives the  *)
(* fork the wallets of its parent with the undone transactions taken back. *)
(*                                                                         *)
(* Here a block is its transactions and its place in the chain; the files  *)
(* that keep it are ChainStore's matter, and so are forks of forks.  A     *)
(* read or a write may fail, the process may die, and the transactions a   *)
(* peer sends wait in the mempool for the minter.                          *)
(***************************************************************************)
EXTENDS Naturals, FiniteSets, SequencesExt

CONSTANTS
    Callers,       \* those who verify and execute blocks
    Accounts,      \* the addresses
    Txs,           \* the transactions, with a right txid and signature
    Sender, Recipient, Amount, NonceOf,   \* the fields of a transaction
    Bodies,        \* the transaction lists of the blocks that may come on main
    Offers,        \* the transactions that peers send
    FirstBody, FirstIndex,   \* the transaction list and the index of the first block of a fork
    Genesis,       \* the wallets before the first of them
    MaxUint,       \* the largest Uint64
    Forks,         \* the forks that may begin, each named by the hash of its first block
    NotRead, NoWallet,   \* an operation that has not read yet; a fork without the wallet
    Faults,        \* what may go wrong: "read", "write", "crash"
    MaxTxs, MaxPool   \* bounds on the transactions main executes and on the mempool

Main   == "main"
Uint   == 0..MaxUint
Wallet == [balance : Uint, nonce : Uint]
Empty  == [balance |-> 0, nonce |-> 0]      \* createEmptyWallet

ASSUME WalletLedgerAssumption ==
    /\ MaxUint \in Nat /\ MaxTxs \in Nat /\ MaxPool \in Nat
    /\ Sender \in [Txs -> Accounts]
    /\ Recipient \in [Txs -> Accounts]
    /\ Amount \in [Txs -> Uint]
    /\ NonceOf \in [Txs -> Uint]
    /\ Bodies # {} /\ Bodies \subseteq Seq(Txs) /\ Offers \subseteq Txs
    /\ FirstBody \in [Forks -> Seq(Txs)] /\ FirstIndex \in [Forks -> Nat \ {0}]
    /\ Genesis \in [Accounts -> Wallet]
    /\ Main \notin Forks
    /\ Faults \subseteq {"read", "write", "crash"}
    /\ {NotRead, NoWallet} \cap Wallet = {}

VARIABLES
    wallet,      \* the main chain's wallets in LevelDB
    forkWallet,  \* the wallets of each fork in LevelDB, or NoWallet
    live,        \* the forks in Blockchain.chains
    pending,     \* the puts into a fork that nobody waits for: <<fork, account, wallet>>
    mempool,     \* the transactions of the mempool
    job,         \* what each caller is doing
    ops,         \* the subtractions and additions that run
    failed,      \* the blocks being adjusted one of whose operations has failed
    executed,    \* the blocks main has executed, in that order
    files,       \* main's block files: the number in executed of the block of each index
    latest,      \* the number of the latest block in main's chain state, or 0
    books,       \* history: what each account has paid and received, and how often it paid
    forkAt,      \* history: of each fork, the state of main as it began
    seen         \* history: the faults so far

disk    == <<wallet, forkWallet, pending>>
chain   == <<executed, files, latest>>
history == <<books, forkAt>>
vars    == <<disk, live, mempool, job, ops, failed, chain, history, seen>>

\* A caller between two blocks.  A job has the block's transactions and place, the number
\* of transactions found valid, the block's number on main, where createFork's loops are,
\* the two wallets it has read, and, for the properties, the blocks that were over when
\* verifyBlock or createFork began.
Idle ==
    [ step |-> "idle", body |-> << >>, target |-> Main, index |-> 0, checked |-> 0, number |-> 0,
      cursor |-> 0, next |-> 0, from |-> Empty, to |-> Empty, over |-> {} ]

Init ==
    /\ wallet = Genesis
    /\ forkWallet = [f \in Forks |-> [a \in Accounts |-> NoWallet]]
    /\ live = {} /\ pending = {}
    /\ mempool = << >>
    /\ job = [c \in Callers |-> Idle]
    /\ ops = {} /\ failed = {}
    /\ executed = << >> /\ files = << >> /\ latest = 0
    /\ books = [a \in Accounts |-> [paid |-> 0, received |-> 0, sent |-> 0]]
    /\ forkAt = [f \in Forks |-> [base |-> 0, latest |-> 0, over |-> {}, opened |-> 0, ready |-> 0]]
    /\ seen = {}

-------------------------------------------------------------------------------
(***************************************************************************)
(* The operations on a wallet (common/models/wallet.ts), in 64 bits.       *)
(***************************************************************************)

Mod(n) == n % (MaxUint + 1)

IsSubtractMoneyPossible(w, amount) == w.balance >= amount

\* subtractMoneyIFPossible: without the money the balance stays.
SubtractIfPossible(w, amount) ==
    IF IsSubtractMoneyPossible(w, amount) THEN [w EXCEPT !.balance = @ - amount] ELSE w

AdjustNonce(w, height) == [w EXCEPT !.nonce = Mod(@ + MaxUint + 1 + height)]

\* addMoney
Add(w, amount) == [w EXCEPT !.balance = Mod(@ + amount)]

\* (Operators named Slip... are plausible mistakes in the operator that follows.)
SlipSubtract(w, amount) == SubtractIfPossible(w, amount)

\* The change subtractMoneyFromWallet makes.
Subtract(w, amount) == SubtractIfPossible(AdjustNonce(w, 1), amount)

-------------------------------------------------------------------------------
(***************************************************************************)
(* A block that is verified and executed on main.                          *)
(***************************************************************************)

CanFail(fault) == fault \in Faults /\ seen \cap Faults = {}

\* getData: what LevelDB has; a read that fails finds nothing.
GetData(stored, got) ==
    \/ got = stored /\ UNCHANGED seen
    \/ CanFail("read") /\ got = NoWallet /\ got # stored /\ seen' = seen \cup {"read"}

\* getWallet: w is the wallet of a, an empty one when nothing is found.
Read(a, w) ==
    \E got \in {wallet[a], NoWallet} :
        GetData(wallet[a], got) /\ w = IF got = NoWallet THEN Empty ELSE got

\* An operation's part in the chain: the block's number, the transaction, and the side.
Tx(p)      == executed[p[1]].body[p[2]]
Account(p) == IF p[3] = "subtract" THEN Sender[Tx(p)] ELSE Recipient[Tx(p)]
Sides      == {"subtract", "add"}

\* The executed blocks none of whose operations runs any more.
Over == {n \in DOMAIN executed : \A op \in ops : op.part[1] # n}

\* A place a block may take in the chain: behind main's last file, or that of a file.  (Bound:
\* the first block of a fork comes before it is open; another time createFork only throws.)
Places == {<<Main, Len(files) + 1>>} \cup {<<f, FirstIndex[f]>> : f \in {g \in Forks \ live : FirstIndex[g] <= Len(files)}}

\* The transaction lists of the blocks that may come there.
Coming(place) == IF place[1] = Main THEN Bodies ELSE {FirstBody[place[1]]}

\* The transactions that have been executed, and those that wait for it.
Executed == UNION {{n} \X (DOMAIN executed[n].body) : n \in DOMAIN executed}
Waiting  == UNION {{c} \X (DOMAIN job[c].body) : c \in {d \in Callers : job[d].step = "verify" /\ job[d].target = Main}}

\* A block comes to verifyBlock and its place in the chain has been found.  (Bound: the
\* number of transactions main executes.)
VerifyBlock(c, b, place) ==
    /\ job[c].step = "idle"
    /\ place[1] = Main => Cardinality(Executed) + Cardinality(Waiting) + Len(b) <= MaxTxs
    /\ job' = [job EXCEPT ![c] = [Idle EXCEPT !.step = "verify", !.body = b, !.over = Over,
                                              !.target = place[1], !.index = place[2]]]
    /\ UNCHANGED <<disk, live, mempool, ops, failed, chain, history, seen>>

\* The index of the latest block in the chain state.
LatestIndex == IF latest = 0 THEN 0 ELSE executed[latest].index

\* The minter makes its next block of all that is in the mempool, behind the latest block.
MintBlock(c) ==
    /\ latest # 0 => files[LatestIndex] = latest                    \* or else 12532
    /\ \E place \in Places : /\ place[2] = LatestIndex + 1 /\ mempool \in Coming(place)
                            /\ VerifyBlock(c, mempool, place)

SlipTransactionValidNonce(w, t) == IsSubtractMoneyPossible(w, Amount[t])

SlipTransactionValidMoney(w, t) == w.nonce = NonceOf[t]

\* The checks of verifyTransaction, 12508 and 12524, on the sender's wallet of now.
TransactionValid(w, t) == w.nonce = NonceOf[t] /\ IsSubtractMoneyPossible(w, Amount[t])

\* One round of the loop of verifyBlock; every block is checked against main's wallets.
VerifyTransaction(c) ==
    /\ job[c].step = "verify"
    /\ job[c].checked < Len(job[c].body)
    /\ LET t == job[c].body[job[c].checked + 1] IN
       \E w \in {wallet[Sender[t]], Empty} :
          /\ Read(Sender[t], w)
          /\ job' = IF TransactionValid(w, t) THEN [job EXCEPT ![c] = [job[c] EXCEPT !.checked = @ + 1]]
                                              ELSE [job EXCEPT ![c] = Idle]            \* 12520
    /\ UNCHANGED <<disk, live, mempool, ops, failed, chain, history>>

Accepted(c) == job[c].step = "verify" /\ job[c].checked = Len(job[c].body)

\* `txid in transactions` asks for a property of the map object: no txid is one.
InTransactions(t) == FALSE

\* addTransactionToMempool: set() under a txid the map has changes nothing.
Added(t) == IF InTransactions(t) \/ Contains(mempool, t) THEN mempool ELSE Append(mempool, t)

\* clearMempoolbyBlock
Cleared(b) == SelectSeq(mempool, LAMBDA t : ~ (InTransactions(t) /\ Contains(b, t)))

\* executeBlock on main: the block is on the chain, at an index whose file it does not
\* overwrite, and adjustWalletsByBlock starts its operations.
AdjustWallets(c) ==
    LET n == Len(executed) + 1
        b == job[c].body
        i == job[c].index
    IN  /\ Accepted(c) /\ job[c].target = Main
        /\ files' = IF i = Len(files) + 1 THEN Append(files, n) ELSE files
        /\ latest' = n
        /\ executed' = Append(executed, [body |-> b, index |-> i, before |-> wallet, over |-> job[c].over])
        /\ mempool' = Cleared(b)
        /\ ops' = ops \cup [part : {n} \X (DOMAIN b) \X Sides, copy : {NotRead}, todo : {{}}]
        /\ job' = [job EXCEPT ![c] = [Idle EXCEPT !.step = "adjust", !.number = n]]
        /\ UNCHANGED <<disk, live, failed, history, seen>>

Becomes(op, new) == ops' = (ops \ {op}) \cup {new}

\* getWallet, in subtractMoneyFromWallet or addMoneyToWallet.
GetWallet(op) ==
    /\ op.copy = NotRead
    /\ LET a == Account(op.part) IN
       \E w \in {wallet[a], Empty} : Read(a, w) /\ Becomes(op, [op EXCEPT !.copy = w, !.todo = live])
    /\ UNCHANGED <<disk, live, mempool, job, failed, chain, history>>

\* The copy with the operation's change.
Changed(op) ==
    LET amount == Amount[Tx(op.part)]
    IN  IF op.part[3] = "subtract" THEN Subtract(op.copy, amount) ELSE Add(op.copy, amount)

SlipKept(op) == Changed(op)

\* What a fork is given: the wallet as it was read.
Kept(op) == op.copy

\* existsWallet on a fork, and the put nobody waits for when it has none.
CheckFork(op, f) ==
    /\ f \in op.todo
    /\ Becomes(op, [op EXCEPT !.todo = @ \ {f}])
    /\ LET a == Account(op.part) IN
       \E got \in {forkWallet[f][a], NoWallet} :
          /\ GetData(forkWallet[f][a], got)
          /\ pending' = IF got = NoWallet THEN pending \cup {<<f, a, Kept(op)>>} ELSE pending
    /\ UNCHANGED <<wallet, forkWallet, live, mempool, job, failed, chain, history>>

\* setWallet on a fork
ForkPut(put) ==
    /\ pending' = pending \ {put}
    /\ forkWallet' = [forkWallet EXCEPT ![put[1]][put[2]] = put[3]]
    /\ UNCHANGED <<wallet, live, mempool, job, ops, failed, chain, history, seen>>

\* What the account's books say once an operation has been written.
Entered(p) ==
    IF p[3] = "subtract"
    THEN [books EXCEPT ![Account(p)].paid = @ + Amount[Tx(p)], ![Account(p)].sent = @ + 1]
    ELSE [books EXCEPT ![Account(p)].received = @ + Amount[Tx(p)]]

\* setWallet on main, or its failure, on which Promise.all gives up its block.
SetWallet(op) ==
    /\ op.copy # NotRead /\ op.todo = {}
    /\ ops' = ops \ {op}
    /\ \/ /\ wallet' = [wallet EXCEPT ![Account(op.part)] = Changed(op)]
          /\ books' = Entered(op.part)
          /\ UNCHANGED <<failed, seen>>
       \/ /\ CanFail("write")
          /\ failed' = failed \cup {op.part[1]}
          /\ seen' = seen \cup {"write"}
          /\ UNCHANGED <<wallet, books>>
    /\ UNCHANGED <<forkWallet, live, pending, mempool, job, chain, forkAt>>

\* adjustWalletsByBlock is over, with all its operations or after the first that failed.
Adjusted(c) ==
    /\ job[c].step = "adjust"
    /\ job[c].number \in failed \cup Over
    /\ job' = [job EXCEPT ![c] = Idle]
    /\ failed' = failed \ {job[c].number}
    /\ UNCHANGED <<disk, live, mempool, ops, chain, history, seen>>

-------------------------------------------------------------------------------
(***************************************************************************)
(* A block that begins a fork.                                             *)
(***************************************************************************)

\* createFork reads the parent's latest block and waits for the fork's databases to open.
BeginFork(c) ==
    /\ Accepted(c) /\ job[c].target # Main
    /\ job' = [job EXCEPT ![c] = [Idle EXCEPT !.step = "open", !.target = job[c].target, !.index = job[c].index,
                                              !.cursor = LatestIndex, !.over = Over]]
    /\ UNCHANGED <<disk, live, mempool, ops, failed, chain, history, seen>>

\* LevelDB refuses to open a database twice: of callers that open one fork all but one are
\* told of an error.
OpenRefused(c) ==
    LET f == job[c].target IN
    /\ job[c].step = "open"
    /\ f \in live \/ \E d \in Callers \ {c} : job[d].step = "open" /\ job[d].target = f
    /\ job' = [job EXCEPT ![c] = Idle]
    /\ UNCHANGED <<disk, live, mempool, ops, failed, chain, history, seen>>

\* The fork is among the chains and the roll back begins.
OpenFork(c) ==
    LET f == job[c].target IN
    /\ job[c].step = "open" /\ f \notin live
    /\ job' = [job EXCEPT ![c] = [job[c] EXCEPT !.step = "undo", !.next = 1, !.over = {}]]
    /\ live' = live \cup {f}
    /\ forkAt' = [forkAt EXCEPT ![f] =
          [ base |-> job[c].index, latest |-> job[c].cursor, over |-> job[c].over,
            opened |-> Len(executed), ready |-> 0 ]]
    /\ UNCHANGED <<disk, mempool, ops, failed, chain, books, seen>>

\* The transactions of the block the roll back is at, and the one it takes back.
Undone(c) == executed[files[job[c].cursor]].body
Undo(c)   == Undone(c)[job[c].next]

Undoing(c) == job[c].cursor >= job[c].index /\ job[c].next \in DOMAIN Undone(c)

\* The sender's wallet, as the parent has it now.
ReadSender(c) ==
    /\ job[c].step = "undo" /\ Undoing(c)
    /\ LET a == Sender[Undo(c)] IN
       \E w \in {wallet[a], Empty} :
          Read(a, w) /\ job' = [job EXCEPT ![c] = [job[c] EXCEPT !.step = "read", !.from = w]]
    /\ UNCHANGED <<disk, live, mempool, ops, failed, chain, history>>

\* The recipient's; then the transaction is taken back in both copies.
ReadRecipient(c) ==
    /\ job[c].step = "read"
    /\ LET t == Undo(c)
           a == Recipient[t]
       IN  \E w \in {wallet[a], Empty} :
              /\ Read(a, w)
              /\ job' = [job EXCEPT ![c] = [job[c] EXCEPT !.step = "pay", !.to = SubtractIfPossible(w, Amount[t]),
                                                     !.from = Add(AdjustNonce(@, 0 - 1), Amount[t])]]
    /\ UNCHANGED <<disk, live, mempool, ops, failed, chain, history>>

\* setWallet on the fork and what follows it, or its failure, on which createFork throws.
PutBack(c, a, w, then) ==
    /\ \/ /\ forkWallet' = [forkWallet EXCEPT ![job[c].target][a] = w]
          /\ job' = [job EXCEPT ![c] = then]
          /\ UNCHANGED seen
       \/ /\ CanFail("write")
          /\ job' = [job EXCEPT ![c] = Idle]
          /\ seen' = seen \cup {"write"}
          /\ UNCHANGED forkWallet
    /\ UNCHANGED <<wallet, pending, live, mempool, ops, failed, chain, history>>

PutSender(c) ==
    /\ job[c].step = "pay"
    /\ PutBack(c, Sender[Undo(c)], job[c].from, [job[c] EXCEPT !.step = "paid", !.from = Empty])

PutRecipient(c) ==
    /\ job[c].step = "paid"
    /\ PutBack(c, Recipient[Undo(c)], job[c].to, [job[c] EXCEPT !.step = "undo", !.to = Empty, !.next = @ + 1])

\* The roll back goes on with the block below.
NextBlock(c) ==
    /\ job[c].step = "undo" /\ job[c].cursor >= job[c].index /\ ~Undoing(c)
    /\ job' = [job EXCEPT ![c] = [job[c] EXCEPT !.cursor = @ - 1, !.next = 1]]
    /\ UNCHANGED <<disk, live, mempool, ops, failed, chain, history, seen>>

\* The fork is complete: its first block is stored, and no wallet is adjusted.
ForkReady(c) ==
    /\ job[c].step = "undo" /\ job[c].cursor < job[c].index
    /\ job' = [job EXCEPT ![c] = Idle]
    /\ forkAt' = [forkAt EXCEPT ![job[c].target].ready = Len(executed)]
    /\ UNCHANGED <<disk, live, mempool, ops, failed, chain, books, seen>>

-------------------------------------------------------------------------------
(***************************************************************************)
(* What happens beside the blocks.                                         *)
(***************************************************************************)

\* NEW_TRANSACTION: a transaction that is valid now waits in the mempool.
NewTransaction(t) ==
    /\ ~ InTransactions(t) /\ TransactionValid(wallet[Sender[t]], t)
    /\ Len(mempool) < MaxPool
    /\ mempool' = Added(t)
    /\ UNCHANGED <<disk, live, job, ops, failed, chain, history, seen>>

\* The process dies; a fork that is not complete is in no chain state.
Crash ==
    /\ CanFail("crash")
    /\ seen' = seen \cup {"crash"}
    /\ live' = {f \in live : forkAt[f].ready # 0}
    /\ pending' = {} /\ mempool' = << >>
    /\ job' = [c \in Callers |-> Idle] /\ ops' = {} /\ failed' = {}
    /\ UNCHANGED <<wallet, forkWallet, chain, history>>

Next ==
    \/ \E c \in Callers :
          \/ \E place \in Places : \E b \in Coming(place) : VerifyBlock(c, b, place)
          \/ MintBlock(c) \/ VerifyTransaction(c) \/ AdjustWallets(c) \/ Adjusted(c)
          \/ BeginFork(c) \/ OpenRefused(c) \/ OpenFork(c) \/ ReadSender(c) \/ ReadRecipient(c)
          \/ PutSender(c) \/ PutRecipient(c) \/ NextBlock(c) \/ ForkReady(c)
    \/ \E op \in ops : GetWallet(op) \/ SetWallet(op) \/ (\E f \in Forks : CheckFork(op, f))
    \/ \E put \in pending : ForkPut(put)
    \/ \E t \in Offers : NewTransaction(t)
    \/ Crash

Spec == Init /\ [][Next]_vars

-------------------------------------------------------------------------------
(***************************************************************************)
(* Where each account takes part, and what may come between its parts.     *)
(***************************************************************************)

Parts == UNION {{n} \X (DOMAIN executed[n].body) \X Sides : n \in DOMAIN executed}

PartsOf(a) == {p \in Parts : Account(p) = a}

\* The blocks of two parts are the same, or the first was not over when verifyBlock began
\* with the second.
Overlap(p, q)  == p[1] <= q[1] /\ p[1] \notin executed[q[1]].over
Together(p, q) == Overlap(p, q) \/ Overlap(q, p)

\* An account takes part twice at a time; and one of these times it pays.
Contested(a) == \E p, q \in PartsOf(a) : p # q /\ Together(p, q)
Raced(a)     == \E p, q \in PartsOf(a) : p # q /\ Together(p, q) /\ p[3] = "subtract"

\* No account ever has more money than it began with and has been sent, whatever the
\* callers, the recipients and the faults; and what it paid is gone, unless it paid while
\* another operation on it, or the check of one, was under way: there the code makes money.
BalancesBacked ==
    \A a \in Accounts :
        LET backed == Genesis[a].balance + books[a].received
        IN  /\ wallet[a].balance <= backed
            /\ wallet[a].balance + books[a].paid > backed => Raced(a)

Paid(a) == {p \in PartsOf(a) : p[3] = "subtract"}

\* An account's nonce never exceeds the number of its payments and is that number, through
\* lost writes and crashes, unless a read failed or the account was raced; and without a
\* fault and a race no transaction of its is executed twice, though the minter's blocks
\* repeat all of the mempool.
NonceCounts ==
    \A a \in Accounts :
        LET counted == Genesis[a].nonce + books[a].sent
        IN  /\ wallet[a].nonce <= counted
            /\ "read" \notin seen /\ wallet[a].nonce # counted => Raced(a)
            /\ seen = {} /\ (\E p, q \in Paid(a) : p # q /\ Tx(p) = Tx(q)) => Raced(a)

\* A wallet with the part that p has in its transaction.
Moved(w, p) ==
    IF p[3] = "subtract" THEN [balance |-> w.balance - Amount[Tx(p)], nonce |-> w.nonce + 1]
                         ELSE [balance |-> w.balance + Amount[Tx(p)], nonce |-> w.nonce]

\* The wallet has the effect of p, or not yet when its operation runs or was lost.
Whole(p) ==
    LET a == Account(p)
        before == executed[p[1]].before[a]
    IN  \/ wallet[a] = Moved(before, p)
        \/ wallet[a] = before /\ (seen # {} \/ \E op \in ops : op.part = p)

\* An account that is never contested has, of the last block it takes part in, the effect
\* or not: all of it once the operation is over, and never a part of it, though operations
\* are lost to a crash or to a write that fails.
AccountAtomic ==
    "read" \notin seen =>
        \A p \in Parts :
            ~Whole(p) /\ (\A q \in PartsOf(Account(p)) : q[1] <= p[1]) => Contested(Account(p))

\* A complete fork's wallet, its own or main's where it has none, is that of before the
\* block whose place it takes, though main goes on while createFork waits and afterwards:
\* of an account that is not contested and whose parts were over before that block came,
\* or are one that was over as createFork began and is rolled back, or came when nothing
\* but copies was left to do, only one if none was rolled back.
ForkKeepsBase ==
    seen = {} =>
        \A f \in live, a \in Accounts :
            LET at     == forkAt[f]
                base   == executed[files[at.base]]
                undone == {files[i] : i \in at.base..at.latest} \cap at.over
                back   == {p \in PartsOf(a) : p[1] \in undone}
                later  == {p \in PartsOf(a) : p[1] > IF back = {} THEN at.opened ELSE at.ready}
            IN  ( /\ at.ready # 0 /\ ~Contested(a)
                  /\ \A put \in pending : <<put[1], put[2]>> # <<f, a>>
                  /\ \A p \in PartsOf(a) : p[1] \in base.over \/ p \in back \cup later
                  /\ \A p, q \in IF back = {} THEN later ELSE back : p = q ) =>
                base.before[a] = IF forkWallet[f][a] = NoWallet THEN wallet[a] ELSE forkWallet[f][a]

-------------------------------------------------------------------------------
(***************************************************************************)
(* What the transactions of a block mean, one after the other.             *)
(***************************************************************************)

ValidIn(w, t) == NonceOf[t] = w[Sender[t]].nonce /\ Amount[t] <= w[Sender[t]].balance

Transfer(w, t) ==
    LET paid == [w EXCEPT ![Sender[t]].balance = @ - Amount[t], ![Sender[t]].nonce = @ + 1]
    IN  [paid EXCEPT ![Recipient[t]].balance = @ + Amount[t]]

\* The wallets after the first n transactions of b; none are left out.
After(w, b, n) ==
    LET then[i \in 0..Len(b)] == IF i = 0 THEN w ELSE Transfer(then[i - 1], b[i])
    IN  then[n]

ValidInOrder(w, b) == \A n \in DOMAIN b : ValidIn(After(w, b, n - 1), b[n])

\* The comment in verifyBlock: "Ensure that the block contains valid transactions".
\* A block that gets past it has transactions that are valid one after the other.
TransactionsValid == \A c \in Callers : Accepted(c) => ValidInOrder(wallet, job[c].body)
===============================================================================
