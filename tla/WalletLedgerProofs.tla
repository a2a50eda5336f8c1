-------------------------- MODULE WalletLedgerProofs --------------------------
(***************************************************************************)
(* Proofs about the wallets under any number of callers, for any accounts, *)
(* transactions, blocks, forks and faults: no account has more money than  *)
(* its books allow (BalancesBacked), nonces count payments (NonceCounts),  *)
(* an account has all of the effect of a block or none (AccountAtomic),    *)
(* and forks keep the wallets they branched off with (ForkKeepsBase), each *)
(* unless the account is raced or contested.                               *)
(*                                                                         *)
(* All four rest on one observation.  A part that is alone, no other part  *)
(* on its account being under way from its check to its end, finds the     *)
(* wallet as the check did and as the block's before has it (Still).       *)
(***************************************************************************)
EXTENDS WalletLedger, FiniteSetTheorems, TLAPS

-------------------------------------------------------------------------------
(***************************************************************************)
(* The types and the invariant.                                            *)
(***************************************************************************)

Wallets == [Accounts -> Wallet]
Ops     == [part : Nat \X Nat \X Sides, copy : Wallet \cup {NotRead}, todo : SUBSET Forks]
Blocks  == [body : Seq(Txs), index : Nat, before : Wallets, over : SUBSET Nat]
Jobs    == [ step : {"idle", "verify", "adjust", "open", "undo", "read", "pay", "paid"},
             body : Seq(Txs), target : Forks \cup {Main}, index : Nat, checked : Nat, number : Nat,
             cursor : Nat, next : Nat, from : Wallet, to : Wallet, over : SUBSET Nat ]
Books   == [paid : Nat, received : Nat, sent : Nat]

MakingSteps == {"undo", "read", "pay", "paid"}

\* Where a job's block is, and how far its roll back has come.
JobFits(j) ==
    /\ j.target # Main => j.index \in DOMAIN files
    /\ j.step = "verify" /\ j.target = Main => j.index \in 1..(Len(files) + 1)
    /\ j.step = "verify" => j.checked <= Len(j.body)
    /\ j.step \in MakingSteps \cup {"open"} => j.target # Main /\ j.cursor <= Len(files)
    /\ j.step \in MakingSteps => j.next # 0
    /\ j.step \in {"read", "pay", "paid"} =>
          j.cursor >= j.index /\ j.next \in DOMAIN executed[files[j.cursor]].body

LedgerType ==
    /\ wallet \in Wallets
    /\ live \in SUBSET Forks
    /\ job \in [Callers -> Jobs]
    /\ ops \in SUBSET Ops
    /\ executed \in Seq(Blocks)
    /\ files \in Seq(Nat)
    /\ latest \in 0..Len(executed)
    /\ books \in [Accounts -> Books]

\* Main's block files: each index has one block, in the order in which they came.
FilesFit ==
    /\ \A i \in DOMAIN files : files[i] \in DOMAIN executed
    /\ \A i, j \in DOMAIN files : i < j => files[i] < files[j]
    /\ \A n \in DOMAIN executed : executed[n].index \in DOMAIN files
    /\ \A c \in Callers : JobFits(job[c])

\* Every operation that runs has a part in the chain, and no two have the same.
OpsFit ==
    /\ \A op \in ops : op.part \in Parts
    /\ \A op, other \in ops : op.part = other.part => op = other

\* What was over when a caller looked had been executed and stays over.
OverIsOver ==
    /\ \A c \in Callers : job[c].over \subseteq DOMAIN executed
    /\ \A n \in DOMAIN executed : \A m \in executed[n].over : m \in DOMAIN executed /\ m < n
    /\ \A op \in ops : /\ \A c \in Callers : op.part[1] \notin job[c].over
                       /\ \A n \in DOMAIN executed : op.part[1] \notin executed[n].over

\* The wallet has the money and, if no read failed, the nonce.
Sound(t, w) == Amount[t] <= w.balance /\ ("read" \notin seen => NonceOf[t] = w.nonce)

\* All that was executed of an account is in over.
Clear(a, over) == \A p \in PartsOf(a) : p[1] \in over

\* What verifyBlock has found valid still is, on an account of which nothing has come since.
Verified ==
    \A c \in Callers : job[c].step = "verify" =>
        \A i \in 1..job[c].checked :
            Clear(Sender[job[c].body[i]], job[c].over) =>
                Sound(job[c].body[i], wallet[Sender[job[c].body[i]]])

\* No other part of the account came between the check and the end of p.
Alone(p) == \A q \in PartsOf(Account(p)) : q # p => ~Together(p, q)

Before(p) == executed[p[1]].before[Account(p)]

VerifiedParts == \A p \in Parts : p[3] = "subtract" /\ Alone(p) => Sound(Tx(p), Before(p))

Running(p) == \E op \in ops : op.part = p

\* The wallet of an account is as it was before a block, as long as all that came of the
\* account since the check of the block still runs.
Still ==
    \A n \in DOMAIN executed, a \in Accounts :
        (\A p \in PartsOf(a) : (p[1] \in executed[n].over) \/ Running(p)) =>
            wallet[a] = executed[n].before[a]

\* An operation alone has read the wallet of before its block.
CopiesFit ==
    \A op \in ops : Alone(op.part) /\ op.copy # NotRead =>
        op.copy = Before(op.part) \/ (op.copy = Empty /\ "read" \in seen)

BaseInv == LedgerType /\ FilesFit /\ OpsFit /\ OverIsOver /\ Verified /\ VerifiedParts /\ Still /\ CopiesFit

-------------------------------------------------------------------------------
(***************************************************************************)
(* Facts about the chain.                                                  *)
(***************************************************************************)

LEMMA PartsIff ==
    \A p : p \in Parts <=> /\ p = <<p[1], p[2], p[3]>>
                           /\ p[1] \in DOMAIN executed /\ p[2] \in DOMAIN executed[p[1]].body /\ p[3] \in Sides
  BY DEF Parts

LEMMA PartsType ==
    ASSUME LedgerType, NEW p \in Parts
    PROVE  /\ p \in Nat \X Nat \X Sides
           /\ p[1] \in 1..Len(executed) /\ p[3] \in Sides
           /\ Tx(p) \in Txs /\ Account(p) \in Accounts /\ Before(p) \in Wallet
           /\ executed[p[1]] \in Blocks
           /\ p \in PartsOf(Account(p))
  <1>1. p = <<p[1], p[2], p[3]>> /\ p[1] \in DOMAIN executed /\ p[2] \in DOMAIN executed[p[1]].body /\ p[3] \in Sides
    BY PartsIff
  <1>2. p[1] \in 1..Len(executed) /\ p[1] \in Nat /\ executed[p[1]] \in Blocks
    BY <1>1 DEF LedgerType
  <1>3. executed[p[1]].body \in Seq(Txs) /\ executed[p[1]].before \in Wallets
    BY <1>2 DEF Blocks
  <1>4. p[2] \in Nat /\ Tx(p) \in Txs
    BY <1>1, <1>3 DEF Tx
  <1>5. Account(p) \in Accounts
    BY <1>4, WalletLedgerAssumption DEF Account
  <1>6. Before(p) \in Wallet
    BY <1>3, <1>5 DEF Before, Wallets
  <1> QED BY <1>1, <1>2, <1>4, <1>5, <1>6 DEF PartsOf

LEMMA AloneRaced ==
    ASSUME NEW p \in Parts
    PROVE  /\ ~Contested(Account(p)) => Alone(p)
           /\ ~Raced(Account(p)) /\ p[3] = "subtract" => Alone(p)
  BY DEF Contested, Raced, Alone, PartsOf

\* Without a new block all is as before.
LEMMA SameChain ==
    ASSUME executed' = executed
    PROVE  /\ Parts' = Parts
           /\ \A p : /\ Tx(p)' = Tx(p) /\ Account(p)' = Account(p) /\ Before(p)' = Before(p)
                     /\ Alone(p)' = Alone(p)
           /\ \A a : /\ PartsOf(a)' = PartsOf(a) /\ Paid(a)' = Paid(a)
                     /\ Contested(a)' = Contested(a) /\ Raced(a)' = Raced(a)
                     /\ \A over : Clear(a, over)' = Clear(a, over)
  BY DEF Parts, Tx, Account, Before, Alone, PartsOf, Paid, Contested, Raced, Clear, Together, Overlap

\* A new block leaves the parts of the others as they are.
LEMMA NewBlock ==
    ASSUME LedgerType, NEW b \in Blocks, executed' = Append(executed, b)
    PROVE  /\ Len(executed) \in Nat /\ Len(executed') = Len(executed) + 1
           /\ DOMAIN executed = 1..Len(executed) /\ DOMAIN executed' = 1..(Len(executed) + 1)
           /\ \A n \in DOMAIN executed : n \in DOMAIN executed' /\ executed'[n] = executed[n]
           /\ executed'[Len(executed) + 1] = b
           /\ Parts \subseteq Parts'
           /\ \A p \in Parts' : p \in Parts \/ p[1] = Len(executed) + 1
           /\ \A p \in Parts : /\ Tx(p)' = Tx(p) /\ Account(p)' = Account(p) /\ Before(p)' = Before(p)
                               /\ Alone(p)' => Alone(p)
                               /\ \A q \in Parts : Together(p, q)' = Together(p, q)
           /\ \A a : /\ PartsOf(a) \subseteq PartsOf(a)' /\ Paid(a) \subseteq Paid(a)'
                     /\ \A p \in PartsOf(a)' : p \in PartsOf(a) \/ p[1] = Len(executed) + 1
                     /\ Contested(a) => Contested(a)'
                     /\ Raced(a) => Raced(a)'
                     /\ \A over : Clear(a, over)' => Clear(a, over)
  <1>1. /\ Len(executed) \in Nat /\ Len(executed') = Len(executed) + 1
        /\ DOMAIN executed = 1..Len(executed) /\ DOMAIN executed' = 1..(Len(executed) + 1)
        /\ executed'[Len(executed) + 1] = b
        /\ \A n \in DOMAIN executed : executed'[n] = executed[n]
    BY DEF LedgerType
  <1>2. ASSUME NEW p \in Parts
        PROVE  /\ p \in Parts' /\ p[1] \in DOMAIN executed
               /\ Tx(p)' = Tx(p) /\ Account(p)' = Account(p) /\ Before(p)' = Before(p)
    <2>1. p = <<p[1], p[2], p[3]>> /\ p[1] \in DOMAIN executed /\ p[2] \in DOMAIN executed[p[1]].body /\ p[3] \in Sides
      BY PartsIff
    <2>2. executed'[p[1]] = executed[p[1]] /\ p[1] \in DOMAIN executed'
      BY <1>1, <2>1
    <2>3. p \in Parts'
      BY <2>1, <2>2, PartsIff DEF Parts, Sides
    <2> QED BY <2>1, <2>2, <2>3 DEF Tx, Account, Before
  <1>3. ASSUME NEW p \in Parts' PROVE p \in Parts \/ p[1] = Len(executed) + 1
    <2>1. p = <<p[1], p[2], p[3]>> /\ p[1] \in DOMAIN executed' /\ p[2] \in DOMAIN executed'[p[1]].body /\ p[3] \in Sides
      BY DEF Parts
    <2>2. CASE p[1] \in DOMAIN executed
      BY <1>1, <2>1, <2>2, PartsIff
    <2> QED BY <1>1, <2>1, <2>2
  <1>4. \A p, q \in Parts : Together(p, q)' = Together(p, q)
    BY <1>1, <1>2 DEF Together, Overlap
  <1>5. ASSUME NEW a
        PROVE  /\ PartsOf(a) \subseteq PartsOf(a)' /\ Paid(a) \subseteq Paid(a)'
               /\ \A p \in PartsOf(a)' : p \in PartsOf(a) \/ p[1] = Len(executed) + 1
    BY <1>2, <1>3 DEF PartsOf, Paid
  <1>6. ASSUME NEW a
        PROVE  /\ Contested(a) => Contested(a)'
               /\ Raced(a) => Raced(a)'
               /\ \A over : Clear(a, over)' => Clear(a, over)
    <2>1. PartsOf(a) \subseteq Parts
      BY DEF PartsOf
    <2> QED BY <1>4, <1>5, <2>1 DEF Contested, Raced, Clear
  <1>7. ASSUME NEW p \in Parts, Alone(p)' PROVE Alone(p)
    <2>1. PartsOf(Account(p)) \subseteq Parts
      BY DEF PartsOf
    <2> QED BY <1>2, <1>4, <1>5, <1>7, <2>1 DEF Alone
  <1>8. \A p \in Parts : /\ Tx(p)' = Tx(p) /\ Account(p)' = Account(p) /\ Before(p)' = Before(p)
                         /\ Alone(p)' => Alone(p)
                         /\ \A q \in Parts : Together(p, q)' = Together(p, q)
    BY <1>2, <1>4, <1>7
  <1>9. Parts \subseteq Parts' /\ \A p \in Parts' : p \in Parts \/ p[1] = Len(executed) + 1
    BY <1>2, <1>3
  <1>10. \A n \in DOMAIN executed : n \in DOMAIN executed' /\ executed'[n] = executed[n]
    BY <1>1
  <1>11. \A a : /\ PartsOf(a) \subseteq PartsOf(a)' /\ Paid(a) \subseteq Paid(a)'
                /\ \A p \in PartsOf(a)' : p \in PartsOf(a) \/ p[1] = Len(executed) + 1
                /\ Contested(a) => Contested(a)'
                /\ Raced(a) => Raced(a)'
                /\ \A over : Clear(a, over)' => Clear(a, over)
    BY <1>5, <1>6
  <1> QED BY <1>1, <1>8, <1>9, <1>10, <1>11

LEMMA UintFacts ==
    /\ MaxUint \in Nat /\ Uint \subseteq Nat /\ 0 \in Uint
    /\ \A n \in Nat : Mod(n) \in Uint /\ Mod(n) <= n /\ (n <= MaxUint => Mod(n) = n)
  <1>1. MaxUint \in Nat
    BY WalletLedgerAssumption
  <1>2. Uint \subseteq Nat /\ 0 \in Uint
    BY <1>1 DEF Uint
  <1>3. ASSUME NEW n \in Nat PROVE Mod(n) \in Uint /\ Mod(n) <= n /\ (n <= MaxUint => Mod(n) = n)
    <2> DEFINE m == MaxUint + 1
    <2>1. m \in Nat /\ m > 0 /\ Mod(n) = n % m
      BY <1>1 DEF Mod
    <2>2. m - 1 = MaxUint
      BY <1>1
    <2> HIDE DEF m
    <2> DEFINE q == n \div m
               r == n % m
    <2>3. n = m * q + r /\ q \in Nat /\ r \in 0..(m - 1)
      BY <2>1
    <2> HIDE DEF q, r
    <2>4. q = 0 \/ m * q >= m
      <3>1. CASE q # 0
        <4>1. q - 1 \in Nat /\ q = (q - 1) + 1
          BY <2>3, <3>1
        <4>2. m * (q - 1) \in Nat /\ m * q = m * (q - 1) + m
          BY <2>1, <4>1
        <4> QED BY <2>1, <4>2
      <3> QED BY <3>1
    <2>5. r <= n /\ (n < m => r = n)
      <3>1. m * q \in Nat /\ (q = 0 => m * q = 0)
        BY <2>1, <2>3
      <3> QED BY <2>1, <2>3, <2>4, <3>1
    <2>6. Mod(n) = r
      BY <2>1 DEF r
    <2> QED BY <1>1, <2>1, <2>2, <2>3, <2>5, <2>6 DEF Uint
  <1> QED BY <1>1, <1>2, <1>3

LEMMA EmptyType == Empty \in Wallet
  BY UintFacts DEF Empty, Wallet

-------------------------------------------------------------------------------
(***************************************************************************)
(* The operations on one account.                                          *)
(***************************************************************************)

\* When an operation is alone, every other part of its account was over before.
LEMMA AloneOver ==
    ASSUME LedgerType, OpsFit, OverIsOver, NEW op \in ops, Alone(op.part),
           NEW p \in PartsOf(Account(op.part)), p # op.part
    PROVE  p[1] \in executed[op.part[1]].over /\ p[1] < op.part[1] /\ ~Running(p)
  <1>1. op.part \in Parts /\ p \in Parts
    BY DEF OpsFit, PartsOf
  <1>2. p[1] \in DOMAIN executed /\ op.part[1] \in DOMAIN executed /\ p[1] \in Nat /\ op.part[1] \in Nat
    BY <1>1, PartsIff DEF LedgerType
  <1>3. ~Together(op.part, p)
    BY DEF Alone
  <1>4. op.part[1] \notin executed[p[1]].over
    BY <1>2 DEF OverIsOver
  <1>5. p[1] \in executed[op.part[1]].over
    BY <1>2, <1>3, <1>4 DEF Together, Overlap
  <1> QED BY <1>2, <1>5 DEF OverIsOver, Running

\* And the wallet is that of before its block.
LEMMA AloneStill ==
    ASSUME LedgerType, OpsFit, OverIsOver, Still, NEW op \in ops, Alone(op.part)
    PROVE  wallet[Account(op.part)] = Before(op.part)
  <1>1. op.part \in Parts /\ op.part[1] \in DOMAIN executed /\ Account(op.part) \in Accounts
    BY PartsIff, PartsType DEF OpsFit
  <1>2. \A p \in PartsOf(Account(op.part)) : p[1] \in executed[op.part[1]].over \/ Running(p)
    BY AloneOver DEF Running
  <1> QED BY <1>1, <1>2 DEF Still, Before

\* What a read finds.
LEMMA ReadFinds ==
    ASSUME LedgerType, NEW a \in Accounts, NEW w, Read(a, w)
    PROVE  /\ w \in Wallet /\ seen \subseteq seen'
           /\ w = wallet[a] \/ (w = Empty /\ "read" \in seen')
           /\ seen' = {} => w = wallet[a]
  <1>1. wallet[a] \in Wallet /\ wallet[a] # NoWallet
    BY WalletLedgerAssumption DEF LedgerType, Wallets
  <1> QED BY <1>1, EmptyType DEF Read, GetData

LEMMA OpType ==
    ASSUME LedgerType, OpsFit, NEW op \in ops
    PROVE  /\ op = [part |-> op.part, copy |-> op.copy, todo |-> op.todo]
           /\ op.part \in Parts /\ op.todo \in SUBSET Forks
           /\ Tx(op.part) \in Txs /\ Account(op.part) \in Accounts /\ Amount[Tx(op.part)] \in Uint
           /\ op.part[3] \in Sides
           /\ op.copy # NotRead => op.copy \in Wallet /\ Changed(op) \in Wallet
  <1>1. op.part \in Parts /\ op \in Ops
    BY DEF OpsFit, LedgerType
  <1>2. /\ Tx(op.part) \in Txs /\ Account(op.part) \in Accounts /\ Amount[Tx(op.part)] \in Uint
        /\ op.part[3] \in Sides
    BY <1>1, PartsType, WalletLedgerAssumption
  <1>3. ASSUME op.copy # NotRead PROVE op.copy \in Wallet /\ Changed(op) \in Wallet
    <2>1. op.copy \in Wallet
      BY <1>1, <1>3 DEF Ops
    <2>2. op.copy.balance \in Uint /\ op.copy.nonce \in Uint /\ op.copy = [balance |-> op.copy.balance, nonce |-> op.copy.nonce]
      BY <2>1 DEF Wallet
    <2>3. Add(op.copy, Amount[Tx(op.part)]) \in Wallet
      BY <1>2, <2>1, <2>2, UintFacts DEF Add, Wallet
    <2>4. AdjustNonce(op.copy, 1) \in Wallet
      BY <2>1, <2>2, UintFacts DEF AdjustNonce, Wallet
    <2>5. \A w \in Wallet : SubtractIfPossible(w, Amount[Tx(op.part)]) \in Wallet
      BY <1>2, UintFacts DEF SubtractIfPossible, IsSubtractMoneyPossible, Wallet, Uint
    <2> QED BY <2>1, <2>3, <2>4, <2>5 DEF Changed, Subtract
  <1> QED BY <1>1, <1>2, <1>3 DEF Ops

-------------------------------------------------------------------------------
(***************************************************************************)
(* The invariant holds at first, and every step keeps it.                  *)
(***************************************************************************)

LEMMA IdleType == Idle \in Jobs /\ Idle.step = "idle" /\ Idle.over = {} /\ Idle.target = Main
  BY EmptyType DEF Idle, Jobs, MakingSteps

LEMMA BaseInit == Init => BaseInv
  <1> SUFFICES ASSUME Init PROVE BaseInv
    OBVIOUS
  <1>1. executed = << >> /\ files = << >> /\ ops = {} /\ \A c \in Callers : job[c] = Idle
    BY DEF Init
  <1>2. LedgerType
    BY <1>1, IdleType, WalletLedgerAssumption DEF Init, LedgerType, Wallets, Books
  <1>3. FilesFit
    BY <1>1 DEF FilesFit, JobFits, Idle, MakingSteps
  <1>4. Parts = {} /\ \A a : PartsOf(a) = {}
    BY <1>1 DEF Parts, PartsOf
  <1>5. OpsFit /\ OverIsOver /\ CopiesFit
    BY <1>1, IdleType DEF OpsFit, OverIsOver, CopiesFit
  <1>6. Verified
    BY <1>1, IdleType DEF Verified
  <1>7. VerifiedParts /\ Still
    BY <1>1, <1>4 DEF VerifiedParts, Still
  <1> QED BY <1>2, <1>3, <1>5, <1>6, <1>7 DEF BaseInv

\* Nothing is executed and no operation moves: a caller goes on, or all wait.
LEMMA JobStep ==
    ASSUME BaseInv, UNCHANGED <<wallet, ops, chain, books>>, live' \in SUBSET Forks, seen \subseteq seen',
           NEW c \in Callers, NEW j \in Jobs, job' = [job EXCEPT ![c] = j],
           JobFits(j), j.over \subseteq DOMAIN executed, \A op \in ops : op.part[1] \notin j.over,
           j.step = "verify" => \A i \in 1..j.checked, t \in Txs :
               t = j.body[i] /\ Clear(Sender[t], j.over) => Sound(t, wallet[Sender[t]])'
    PROVE  BaseInv'
  <1>1. executed' = executed /\ files' = files /\ latest' = latest /\ ops' = ops /\ wallet' = wallet /\ books' = books
    BY DEF chain
  <1>2. \A d \in Callers : job'[d] = IF d = c THEN j ELSE job[d]
    BY DEF BaseInv, LedgerType
  <1>3. LedgerType'
    BY <1>1 DEF BaseInv, LedgerType
  <1>4. FilesFit'
    <2>1. \A d \in Callers : JobFits(job[d])'
      BY <1>1, <1>2 DEF BaseInv, FilesFit, JobFits
    <2> QED BY <1>1, <2>1 DEF BaseInv, FilesFit
  <1>5. OpsFit' /\ OverIsOver'
    BY <1>1, <1>2, SameChain DEF BaseInv, OpsFit, OverIsOver
  <1>6. \A t, w : Sound(t, w) => Sound(t, w)'
    BY DEF Sound
  <1>7. Verified'
    <2> SUFFICES ASSUME NEW d \in Callers, (job[d].step = "verify")', NEW i \in (1..job[d].checked)',
                        Clear(Sender[job[d].body[i]], job[d].over)'
                 PROVE  Sound(job[d].body[i], wallet[Sender[job[d].body[i]]])'
      BY DEF Verified
    <2>1. job'[d] \in Jobs /\ JobFits(job[d])'
      BY <1>3, <1>4 DEF LedgerType, FilesFit
    <2>2. job'[d].body \in Seq(Txs) /\ i \in 1..Len(job'[d].body)
      BY <2>1 DEF JobFits, Jobs
    <2>3. PICK t \in Txs : t = job'[d].body[i]
      BY <2>2
    <2>4. Clear(Sender[t], job'[d].over)
      BY <1>1, <2>3, SameChain
    <2>5. CASE d = c
      BY <1>2, <2>3, <2>4, <2>5
    <2>6. CASE d # c
      <3>1. Sound(t, wallet[Sender[t]])
        BY <1>2, <2>3, <2>4, <2>6 DEF BaseInv, Verified
      <3> QED BY <1>1, <1>6, <2>3, <3>1
    <2> QED BY <2>5, <2>6
  <1>8. VerifiedParts'
    BY <1>1, <1>6, SameChain DEF BaseInv, VerifiedParts
  <1>9. Still'
    BY <1>1, SameChain DEF BaseInv, Still, Running
  <1>10. CopiesFit'
    BY <1>1, SameChain DEF BaseInv, CopiesFit
  <1> QED BY <1>3, <1>4, <1>5, <1>7, <1>8, <1>9, <1>10 DEF BaseInv

LEMMA OverFits ==
    ASSUME BaseInv
    PROVE  Over \subseteq DOMAIN executed /\ Over \in SUBSET Nat /\ \A op \in ops : op.part[1] \notin Over
  BY DEF Over, BaseInv, LedgerType

LEMMA VerifyBlockBase ==
    ASSUME BaseInv, NEW c \in Callers, NEW place \in Places, NEW b \in Coming(place), VerifyBlock(c, b, place)
    PROVE  BaseInv'
  <1> DEFINE j == [Idle EXCEPT !.step = "verify", !.body = b, !.over = Over, !.target = place[1], !.index = place[2]]
  <1>1. /\ place[1] \in Forks \cup {Main} /\ place[2] \in Nat /\ b \in Seq(Txs)
        /\ place[1] # Main => place[2] \in DOMAIN files
        /\ place[1] = Main => place[2] \in 1..(Len(files) + 1)
    BY WalletLedgerAssumption DEF Places, Coming, BaseInv, LedgerType
  <1>2. /\ j.step = "verify" /\ j.body = b /\ j.over = Over /\ j.target = place[1] /\ j.index = place[2]
        /\ j.checked = 0 /\ j \in Jobs
    BY <1>1, OverFits, EmptyType DEF Idle, Jobs, MakingSteps
  <1>3. JobFits(j)
    BY <1>1, <1>2 DEF JobFits, MakingSteps
  <1>4. job' = [job EXCEPT ![c] = j] /\ UNCHANGED <<wallet, ops, chain, books, live, seen>>
    BY DEF VerifyBlock, disk, history
  <1> HIDE DEF j
  <1>5. live' \in SUBSET Forks /\ seen \subseteq seen' /\ 1..j.checked = {}
    BY <1>2, <1>4 DEF BaseInv, LedgerType
  <1> QED BY <1>2, <1>3, <1>4, <1>5, OverFits, JobStep

LEMMA MintBlockBase ==
    ASSUME BaseInv, NEW c \in Callers, MintBlock(c)
    PROVE  BaseInv'
  BY VerifyBlockBase DEF MintBlock

LEMMA IdleBase ==
    ASSUME BaseInv, NEW c \in Callers, job' = [job EXCEPT ![c] = Idle], live' \in SUBSET Forks, seen \subseteq seen',
           UNCHANGED <<wallet, ops, chain, books>>
    PROVE  BaseInv'
  <1>1. JobFits(Idle)
    BY DEF JobFits, Idle, MakingSteps
  <1> QED BY <1>1, IdleType, JobStep

LEMMA VerifyTransactionBase ==
    ASSUME BaseInv, NEW c \in Callers, VerifyTransaction(c)
    PROVE  BaseInv'
  <1> DEFINE j == [job[c] EXCEPT !.checked = @ + 1]
  <1>1. /\ job[c] \in Jobs /\ job[c].step = "verify" /\ job[c].checked < Len(job[c].body)
        /\ live' \in SUBSET Forks /\ UNCHANGED <<wallet, ops, chain, books>>
    BY DEF VerifyTransaction, BaseInv, LedgerType, disk, history
  <1>2. PICK t \in Txs : t = job[c].body[job[c].checked + 1]
    BY <1>1 DEF Jobs
  <1>3. Sender[t] \in Accounts /\ Amount[t] \in Uint
    BY WalletLedgerAssumption
  <1>4. PICK w \in {wallet[Sender[t]], Empty} :
           /\ Read(Sender[t], w)
           /\ job' = IF TransactionValid(w, t) THEN [job EXCEPT ![c] = j] ELSE [job EXCEPT ![c] = Idle]
    <2> DEFINE u == job[c].body[job[c].checked + 1]
    <2>1. PICK w \in {wallet[Sender[u]], Empty} :
             /\ Read(Sender[u], w)
             /\ job' = IF TransactionValid(w, u) THEN [job EXCEPT ![c] = j] ELSE [job EXCEPT ![c] = Idle]
      BY DEF VerifyTransaction
    <2> HIDE DEF j, u
    <2>2. u = t
      BY <1>2 DEF u
    <2> QED BY <2>1, <2>2
  <1>5. w \in Wallet /\ seen \subseteq seen' /\ (w = wallet[Sender[t]] \/ (w = Empty /\ "read" \in seen'))
    BY <1>3, <1>4, ReadFinds DEF BaseInv
  <1>6. CASE ~TransactionValid(w, t)
    BY <1>1, <1>4, <1>5, <1>6, IdleBase
  <1>7. CASE TransactionValid(w, t)
    <2>1. /\ j \in Jobs /\ j.step = "verify" /\ j.over = job[c].over /\ j.checked = job[c].checked + 1
          /\ j.body = job[c].body /\ j.target = job[c].target /\ j.index = job[c].index
      BY <1>1 DEF Jobs, MakingSteps
    <2>2. JobFits(j)
      BY <1>1, <2>1 DEF BaseInv, FilesFit, JobFits, MakingSteps, Jobs
    <2>3. j.over \subseteq DOMAIN executed /\ \A op \in ops : op.part[1] \notin j.over
      BY <2>1 DEF BaseInv, OverIsOver
    <2>4. Sound(t, wallet[Sender[t]])'
      <3>1. wallet[Sender[t]] \in Wallet
        BY <1>3 DEF BaseInv, LedgerType, Wallets
      <3>2. CASE w = wallet[Sender[t]]
        BY <1>1, <1>7, <3>2 DEF TransactionValid, IsSubtractMoneyPossible, Sound
      <3>3. CASE w = Empty /\ "read" \in seen'
        <4>1. Amount[t] <= 0 /\ 0 <= wallet[Sender[t]].balance /\ Amount[t] \in Nat
              /\ wallet[Sender[t]].balance \in Nat
          BY <1>3, <1>7, <3>1, <3>3, UintFacts DEF TransactionValid, IsSubtractMoneyPossible, Empty, Wallet, Uint
        <4>2. Amount[t] <= wallet[Sender[t]].balance
          BY <4>1
        <4> QED BY <1>1, <3>3, <4>2 DEF Sound
      <3> QED BY <1>5, <3>2, <3>3
    <2>5. ASSUME NEW i \in 1..j.checked, NEW u \in Txs, u = j.body[i], Clear(Sender[u], j.over)
          PROVE  Sound(u, wallet[Sender[u]])'
      <3>1. CASE i = j.checked
        BY <1>2, <2>1, <2>4, <2>5, <3>1
      <3>2. CASE i # j.checked
        <4>1. i \in 1..job[c].checked /\ u = job[c].body[i] /\ Clear(Sender[u], job[c].over)
          BY <1>1, <2>1, <2>5, <3>2 DEF Jobs
        <4>2. Sound(u, wallet[Sender[u]])
          BY <1>1, <4>1 DEF BaseInv, Verified
        <4> QED BY <1>1, <1>5, <4>2 DEF Sound
      <3> QED BY <3>1, <3>2
    <2> HIDE DEF j
    <2>6. job' = [job EXCEPT ![c] = j]
      BY <1>4, <1>7
    <2> QED BY <1>1, <1>5, <2>1, <2>2, <2>3, <2>5, <2>6, JobStep
  <1> QED BY <1>6, <1>7

\* The transaction that a roll back is at.
LEMMA UndoType ==
    ASSUME LedgerType, FilesFit, NEW c \in Callers,
           job[c].step \in {"read", "pay", "paid"} \/ (job[c].step = "undo" /\ Undoing(c))
    PROVE  /\ job[c] \in Jobs /\ job[c].target \in Forks /\ job[c].index \in DOMAIN files
           /\ job[c].cursor \in DOMAIN files /\ job[c].cursor \in Nat /\ job[c].cursor >= job[c].index
           /\ files[job[c].cursor] \in DOMAIN executed /\ files[job[c].cursor] \in Nat
           /\ job[c].next \in DOMAIN Undone(c) /\ job[c].next \in Nat
           /\ Undo(c) \in Txs /\ Sender[Undo(c)] \in Accounts /\ Recipient[Undo(c)] \in Accounts
           /\ Amount[Undo(c)] \in Uint
  <1>1. job[c] \in Jobs /\ JobFits(job[c])
    BY DEF LedgerType, FilesFit
  <1>2. /\ job[c].target \in Forks /\ job[c].index \in DOMAIN files /\ job[c].cursor \in Nat
        /\ job[c].cursor <= Len(files) /\ job[c].cursor >= job[c].index
        /\ job[c].next \in DOMAIN Undone(c) /\ job[c].next \in Nat
    BY <1>1 DEF JobFits, Jobs, MakingSteps, Undoing, Undone
  <1>3. job[c].cursor \in DOMAIN files
    BY <1>2 DEF LedgerType
  <1>4. files[job[c].cursor] \in DOMAIN executed /\ files[job[c].cursor] \in Nat
    BY <1>3 DEF FilesFit, LedgerType
  <1>5. Undone(c) \in Seq(Txs)
    <2>1. executed[files[job[c].cursor]] \in Blocks
      BY <1>4 DEF LedgerType
    <2> QED BY <2>1 DEF Undone, Blocks
  <1>6. Undo(c) \in Txs
    BY <1>2, <1>5 DEF Undo
  <1> QED BY <1>1, <1>2, <1>3, <1>4, <1>6, WalletLedgerAssumption

LEMMA LatestType ==
    ASSUME LedgerType, FilesFit
    PROVE  LatestIndex \in Nat /\ LatestIndex <= Len(files)
  <1>1. CASE latest = 0
    BY <1>1 DEF LatestIndex, LedgerType
  <1>2. CASE latest # 0
    <2>1. latest \in DOMAIN executed
      BY <1>2 DEF LedgerType
    <2> QED BY <1>2, <2>1 DEF LatestIndex, FilesFit, LedgerType
  <1> QED BY <1>1, <1>2

LEMMA AdjustedBase ==
    ASSUME BaseInv, NEW c \in Callers, Adjusted(c) \/ OpenRefused(c) \/ ForkReady(c)
    PROVE  BaseInv'
  <1>1. /\ job' = [job EXCEPT ![c] = Idle] /\ live' = live /\ seen' = seen
        /\ UNCHANGED <<wallet, ops, chain, books>>
    BY DEF Adjusted, OpenRefused, ForkReady, disk, history
  <1> QED BY <1>1, IdleBase DEF BaseInv, LedgerType

LEMMA BeginForkBase ==
    ASSUME BaseInv, NEW c \in Callers, BeginFork(c)
    PROVE  BaseInv'
  <1> DEFINE j == [Idle EXCEPT !.step = "open", !.target = job[c].target, !.index = job[c].index,
                               !.cursor = LatestIndex, !.over = Over]
  <1>1. /\ job[c] \in Jobs /\ JobFits(job[c]) /\ job[c].target # Main
        /\ job' = [job EXCEPT ![c] = j] /\ live' = live /\ seen' = seen
        /\ UNCHANGED <<wallet, ops, chain, books>>
    BY DEF BeginFork, BaseInv, LedgerType, FilesFit, disk, history
  <1>2. /\ j \in Jobs /\ j.step = "open" /\ j.target = job[c].target /\ j.index = job[c].index
        /\ j.cursor = LatestIndex /\ j.over = Over
    <2>1. LatestIndex \in Nat /\ Over \in SUBSET Nat /\ Empty \in Wallet
          /\ job[c].target \in Forks \cup {Main} /\ job[c].index \in Nat
      BY <1>1, OverFits, EmptyType, LatestType DEF BaseInv, Jobs
    <2> QED BY <2>1, IdleType DEF Jobs, MakingSteps
  <1>3. JobFits(j)
    BY <1>1, <1>2, LatestType DEF JobFits, MakingSteps, BaseInv
  <1> HIDE DEF j
  <1> QED BY <1>1, <1>2, <1>3, OverFits, JobStep DEF BaseInv, LedgerType

LEMMA OpenForkBase ==
    ASSUME BaseInv, NEW c \in Callers, OpenFork(c)
    PROVE  BaseInv'
  <1> DEFINE j == [job[c] EXCEPT !.step = "undo", !.next = 1, !.over = {}]
  <1>1. /\ job[c] \in Jobs /\ JobFits(job[c]) /\ job[c].step = "open"
        /\ job' = [job EXCEPT ![c] = j] /\ live' = live \cup {job[c].target} /\ seen' = seen
        /\ UNCHANGED <<wallet, ops, chain, books>>
    BY DEF OpenFork, BaseInv, LedgerType, FilesFit, disk
  <1>2. /\ j \in Jobs /\ j.step = "undo" /\ j.target = job[c].target /\ j.index = job[c].index
        /\ j.cursor = job[c].cursor /\ j.next = 1 /\ j.over = {}
    BY <1>1 DEF Jobs, MakingSteps
  <1>3. JobFits(j) /\ job[c].target \in Forks
    BY <1>1, <1>2 DEF JobFits, MakingSteps, Jobs
  <1> HIDE DEF j
  <1>4. live' \in SUBSET Forks
    BY <1>1, <1>3 DEF BaseInv, LedgerType
  <1> QED BY <1>1, <1>2, <1>3, <1>4, JobStep

LEMMA ReadSenderBase ==
    ASSUME BaseInv, NEW c \in Callers, ReadSender(c)
    PROVE  BaseInv'
  <1>1. /\ job[c] \in Jobs /\ JobFits(job[c]) /\ job[c].step = "undo" /\ Undoing(c)
        /\ live' = live /\ UNCHANGED <<wallet, ops, chain, books>>
    BY DEF ReadSender, BaseInv, LedgerType, FilesFit, disk, history
  <1>2. PICK w : Read(Sender[Undo(c)], w) /\ job' = [job EXCEPT ![c] = [job[c] EXCEPT !.step = "read", !.from = w]]
    BY DEF ReadSender
  <1>3. w \in Wallet /\ seen \subseteq seen'
    BY <1>1, <1>2, UndoType, ReadFinds DEF BaseInv
  <1> DEFINE j == [job[c] EXCEPT !.step = "read", !.from = w]
  <1>4. /\ j \in Jobs /\ j.step = "read" /\ j.target = job[c].target /\ j.index = job[c].index
        /\ j.cursor = job[c].cursor /\ j.next = job[c].next /\ j.over = job[c].over
    BY <1>1, <1>3 DEF Jobs, MakingSteps
  <1>5. JobFits(j)
    BY <1>1, <1>4 DEF JobFits, MakingSteps, Undoing, Undone
  <1>6. job' = [job EXCEPT ![c] = j]
    BY <1>2
  <1> HIDE DEF j
  <1> QED BY <1>1, <1>3, <1>4, <1>5, <1>6, JobStep DEF BaseInv, LedgerType, OverIsOver

\* Taking a transaction back keeps wallets wallets.
LEMMA TakenBack ==
    ASSUME NEW w \in Wallet, NEW amount \in Uint
    PROVE  SubtractIfPossible(w, amount) \in Wallet /\ Add(AdjustNonce(w, 0 - 1), amount) \in Wallet
  <1>1. /\ w.balance \in Nat /\ w.nonce \in Nat /\ w.balance \in Uint /\ amount \in Nat /\ MaxUint \in Nat
        /\ w = [balance |-> w.balance, nonce |-> w.nonce]
    BY UintFacts DEF Wallet
  <1>2. SubtractIfPossible(w, amount) \in Wallet
    BY <1>1, UintFacts DEF SubtractIfPossible, IsSubtractMoneyPossible, Wallet, Uint
  <1>3. w.nonce + MaxUint + 1 + (0 - 1) \in Nat
    BY <1>1
  <1>4. AdjustNonce(w, 0 - 1) = [balance |-> w.balance, nonce |-> Mod(w.nonce + MaxUint + 1 + (0 - 1))]
    BY <1>1 DEF AdjustNonce
  <1>5. Add(AdjustNonce(w, 0 - 1), amount) =
           [balance |-> Mod(w.balance + amount), nonce |-> Mod(w.nonce + MaxUint + 1 + (0 - 1))]
    BY <1>4 DEF Add
  <1> QED BY <1>1, <1>2, <1>3, <1>5, UintFacts DEF Wallet

LEMMA ReadRecipientBase ==
    ASSUME BaseInv, NEW c \in Callers, ReadRecipient(c)
    PROVE  BaseInv'
  <1>1. /\ job[c] \in Jobs /\ JobFits(job[c]) /\ job[c].step = "read"
        /\ live' = live /\ UNCHANGED <<wallet, ops, chain, books>>
    BY DEF ReadRecipient, BaseInv, LedgerType, FilesFit, disk, history
  <1>2. PICK w : /\ Read(Recipient[Undo(c)], w)
                 /\ job' = [job EXCEPT ![c] =
                       [job[c] EXCEPT !.step = "pay", !.to = SubtractIfPossible(w, Amount[Undo(c)]),
                                      !.from = Add(AdjustNonce(job[c].from, 0 - 1), Amount[Undo(c)])]]
    BY DEF ReadRecipient
  <1>3. w \in Wallet /\ seen \subseteq seen' /\ Amount[Undo(c)] \in Uint /\ job[c].from \in Wallet
    BY <1>1, <1>2, UndoType, ReadFinds DEF BaseInv, Jobs
  <1> DEFINE to   == SubtractIfPossible(w, Amount[Undo(c)])
             from == Add(AdjustNonce(job[c].from, 0 - 1), Amount[Undo(c)])
             j    == [job[c] EXCEPT !.step = "pay", !.to = to, !.from = from]
  <1>4. to \in Wallet /\ from \in Wallet
    BY <1>3, TakenBack
  <1>5. job' = [job EXCEPT ![c] = j]
    BY <1>2
  <1> HIDE DEF to, from
  <1>6. /\ j \in Jobs /\ j.step = "pay" /\ j.target = job[c].target /\ j.index = job[c].index
        /\ j.cursor = job[c].cursor /\ j.next = job[c].next /\ j.over = job[c].over
    BY <1>1, <1>4 DEF Jobs, MakingSteps
  <1>7. JobFits(j)
    BY <1>1, <1>6 DEF JobFits, MakingSteps
  <1> HIDE DEF j
  <1> QED BY <1>1, <1>3, <1>5, <1>6, <1>7, JobStep DEF BaseInv, LedgerType, OverIsOver

LEMMA PutBackBase ==
    ASSUME BaseInv, NEW c \in Callers, PutSender(c) \/ PutRecipient(c)
    PROVE  BaseInv'
  <1> DEFINE paid == [job[c] EXCEPT !.step = "paid", !.from = Empty]
             undo == [job[c] EXCEPT !.step = "undo", !.to = Empty, !.next = @ + 1]
  <1>1. /\ job[c] \in Jobs /\ JobFits(job[c])
        /\ live' = live /\ seen \subseteq seen' /\ UNCHANGED <<wallet, ops, chain, books>>
    BY DEF PutSender, PutRecipient, PutBack, BaseInv, LedgerType, FilesFit, history
  <1>2. \/ job' = [job EXCEPT ![c] = Idle]
        \/ job' = [job EXCEPT ![c] = paid] /\ job[c].step = "pay"
        \/ job' = [job EXCEPT ![c] = undo] /\ job[c].step = "paid"
    BY DEF PutSender, PutRecipient, PutBack
  <1>3. CASE job' = [job EXCEPT ![c] = Idle]
    BY <1>1, <1>3, IdleBase DEF BaseInv, LedgerType
  <1>4. CASE job' = [job EXCEPT ![c] = paid] /\ job[c].step = "pay"
    <2>1. /\ paid \in Jobs /\ paid.step = "paid" /\ paid.target = job[c].target /\ paid.index = job[c].index
          /\ paid.cursor = job[c].cursor /\ paid.over = job[c].over /\ paid.next = job[c].next
      BY <1>1, EmptyType DEF Jobs, MakingSteps
    <2>2. JobFits(paid)
      BY <1>1, <1>4, <2>1 DEF JobFits, MakingSteps
    <2> HIDE DEF paid
    <2> QED BY <1>1, <1>4, <2>1, <2>2, JobStep DEF BaseInv, LedgerType, OverIsOver
  <1>5. CASE job' = [job EXCEPT ![c] = undo] /\ job[c].step = "paid"
    <2>1. /\ undo \in Jobs /\ undo.step = "undo" /\ undo.target = job[c].target /\ undo.index = job[c].index
          /\ undo.cursor = job[c].cursor /\ undo.over = job[c].over /\ undo.next = job[c].next + 1
          /\ job[c].next \in Nat
      <3>1. job[c].next \in Nat /\ job[c].next + 1 \in Nat
        BY <1>1 DEF Jobs
      <3> QED BY <1>1, <3>1, EmptyType DEF Jobs, MakingSteps
    <2>2. JobFits(undo)
      BY <1>1, <1>5, <2>1 DEF JobFits, MakingSteps
    <2> HIDE DEF undo
    <2> QED BY <1>1, <1>5, <2>1, <2>2, JobStep DEF BaseInv, LedgerType, OverIsOver
  <1> QED BY <1>2, <1>3, <1>4, <1>5

LEMMA NextBlockBase ==
    ASSUME BaseInv, NEW c \in Callers, NextBlock(c)
    PROVE  BaseInv'
  <1> DEFINE j == [job[c] EXCEPT !.cursor = @ - 1, !.next = 1]
  <1>1. /\ job[c] \in Jobs /\ JobFits(job[c]) /\ job[c].step = "undo" /\ job[c].cursor >= job[c].index
        /\ job' = [job EXCEPT ![c] = j] /\ live' = live /\ seen' = seen
        /\ UNCHANGED <<wallet, ops, chain, books>>
    BY DEF NextBlock, BaseInv, LedgerType, FilesFit, disk, history
  <1>2. job[c].cursor - 1 \in Nat /\ job[c].cursor - 1 <= Len(files)
    BY <1>1 DEF JobFits, Jobs, MakingSteps, BaseInv, LedgerType
  <1>3. /\ j \in Jobs /\ j.step = "undo" /\ j.target = job[c].target /\ j.index = job[c].index
        /\ j.cursor = job[c].cursor - 1 /\ j.next = 1 /\ j.over = job[c].over
    BY <1>1, <1>2 DEF Jobs
  <1>4. JobFits(j)
    BY <1>1, <1>2, <1>3 DEF JobFits, MakingSteps
  <1> HIDE DEF j
  <1> QED BY <1>1, <1>3, <1>4, JobStep DEF BaseInv, LedgerType, OverIsOver

\* What executeBlock adds: a block, and an operation for each of its parts.
LEMMA Executes ==
    ASSUME BaseInv, NEW c \in Callers, AdjustWallets(c)
    PROVE  \E b \in Blocks :
              /\ b = [body |-> job[c].body, index |-> job[c].index, before |-> wallet, over |-> job[c].over]
              /\ executed' = Append(executed, b)
              /\ \A p \in Parts' :
                    p \in Parts \/ ( /\ p[1] = Len(executed) + 1 /\ p[2] \in 1..Len(b.body)
                                     /\ Tx(p)' = b.body[p[2]] /\ Before(p)' = wallet[Account(p)']
                                     /\ Running(p)' )
              /\ \A op \in ops' :
                    op \in ops \/ ( /\ op \in Ops /\ op.part \in Parts' /\ op.part[1] = Len(executed) + 1
                                    /\ op.copy = NotRead /\ op.todo = {} )
              /\ ops \subseteq ops' /\ \A op, other \in ops' : op.part = other.part => op = other
              /\ \A p \in Parts : Running(p)' <=> Running(p)
  <1> DEFINE n == Len(executed) + 1
             b == [body |-> job[c].body, index |-> job[c].index, before |-> wallet, over |-> job[c].over]
             new == [part : {n} \X (DOMAIN job[c].body) \X Sides, copy : {NotRead}, todo : {{}}]
  <1>1. job[c] \in Jobs /\ wallet \in Wallets /\ LedgerType
    BY DEF BaseInv, LedgerType
  <1>2. b \in Blocks /\ b.body = job[c].body /\ b.before = wallet /\ b.body \in Seq(Txs)
    BY <1>1 DEF Jobs, Blocks
  <1>3. executed' = Append(executed, b) /\ ops' = ops \cup new
    BY DEF AdjustWallets
  <1>4. DOMAIN job[c].body = 1..Len(b.body)
    BY <1>2
  <1> HIDE DEF b
  <1>5. /\ n \in Nat /\ executed'[n] = b /\ n \in DOMAIN executed' /\ n \notin DOMAIN executed
        /\ \A p \in Parts' : p \in Parts \/ p[1] = n
        /\ \A p \in Parts : p[1] # n /\ p \in Parts'
    <2>1. \A p \in Parts : p[1] \in DOMAIN executed
      BY PartsIff
    <2> QED BY <1>1, <1>2, <1>3, <2>1, NewBlock
  <1>6. \A p : p \in Parts' <=> /\ p = <<p[1], p[2], p[3]>> /\ p[1] \in DOMAIN executed'
                                /\ p[2] \in DOMAIN executed'[p[1]].body /\ p[3] \in Sides
    BY DEF Parts
  <1>7. ASSUME NEW p \in Parts', p \notin Parts
        PROVE  /\ p[1] = n /\ p[2] \in 1..Len(b.body) /\ p = <<n, p[2], p[3]>> /\ p[3] \in Sides
               /\ Tx(p)' = b.body[p[2]] /\ Before(p)' = wallet[Account(p)'] /\ Running(p)'
    <2>1. p[1] = n /\ p[2] \in 1..Len(b.body) /\ p[3] \in Sides /\ p = <<n, p[2], p[3]>>
      BY <1>2, <1>4, <1>5, <1>6, <1>7
    <2>2. Tx(p)' = b.body[p[2]] /\ Before(p)' = wallet[Account(p)']
      BY <1>2, <1>5, <2>1 DEF Tx, Before
    <2>3. [part |-> p, copy |-> NotRead, todo |-> {}] \in new
      BY <1>4, <2>1
    <2>4. [part |-> p, copy |-> NotRead, todo |-> {}] \in ops' /\ [part |-> p, copy |-> NotRead, todo |-> {}].part = p
      BY <1>3, <2>3
    <2>5. Running(p)'
      BY <2>4 DEF Running
    <2> QED BY <2>1, <2>2, <2>5
  <1>8. \A op \in new : /\ op = [part |-> op.part, copy |-> NotRead, todo |-> {}]
                        /\ op.part[1] = n /\ op.copy = NotRead /\ op.todo = {}
                        /\ op.part \in Parts' /\ op \in Ops
    <2> SUFFICES ASSUME NEW op \in new
                 PROVE  /\ op = [part |-> op.part, copy |-> NotRead, todo |-> {}]
                        /\ op.part[1] = n /\ op.copy = NotRead /\ op.todo = {}
                        /\ op.part \in Parts' /\ op \in Ops
      OBVIOUS
    <2>1. op = [part |-> op.part, copy |-> NotRead, todo |-> {}] /\ op.copy = NotRead /\ op.todo = {}
      OBVIOUS
    <2>2. op.part \in {n} \X (1..Len(b.body)) \X Sides
      BY <1>4
    <2>3. op.part \in Parts'
      BY <1>2, <1>5, <1>6, <2>2
    <2>4. op.part \in Nat \X Nat \X Sides
      BY <1>2, <1>5, <2>2
    <2> QED BY <2>1, <2>2, <2>3, <2>4 DEF Ops
  <1> HIDE DEF new
  <1>9. \A op, other \in ops' : op.part = other.part => op = other
    <2>1. \A op \in ops : op.part[1] # n
      BY <1>5 DEF BaseInv, OpsFit
    <2>2. \A op, other \in ops : op.part = other.part => op = other
      BY DEF BaseInv, OpsFit
    <2>3. ASSUME NEW op \in new, NEW other \in new, op.part = other.part PROVE op = other
      <3>1. op = [part |-> op.part, copy |-> NotRead, todo |-> {}] /\ other = [part |-> other.part, copy |-> NotRead, todo |-> {}]
        BY <1>8
      <3> QED BY <2>3, <3>1
    <2>4. \A op \in new : op.part[1] = n
      BY <1>8
    <2> QED BY <1>3, <2>1, <2>2, <2>3, <2>4
  <1>10. \A p \in Parts : Running(p)' <=> Running(p)
    BY <1>3, <1>5, <1>8 DEF Running
  <1>11. b = [body |-> job[c].body, index |-> job[c].index, before |-> wallet, over |-> job[c].over]
    BY DEF b
  <1>12. \A op \in ops' :
            op \in ops \/ ( /\ op \in Ops /\ op.part \in Parts' /\ op.part[1] = Len(executed) + 1
                            /\ op.copy = NotRead /\ op.todo = {} )
    BY <1>3, <1>8
  <1> QED BY <1>2, <1>3, <1>7, <1>9, <1>10, <1>11, <1>12

\* A part of the new block whose account is not raced finds all that came before over.
LEMMA NewAlone ==
    ASSUME LedgerType, NEW b \in Blocks, executed' = Append(executed, b),
           NEW p \in Parts', p[1] = Len(executed) + 1, Alone(p)'
    PROVE  Clear(Account(p)', b.over)
  <1>1. /\ Len(executed) \in Nat /\ executed'[Len(executed) + 1] = b
        /\ \A q \in PartsOf(Account(p)') : q \in PartsOf(Account(p))' /\ q[1] \in 1..Len(executed)
    BY NewBlock, PartsIff DEF PartsOf
  <1>2. ASSUME NEW q \in PartsOf(Account(p)') PROVE q[1] \in b.over
    <2>1. q \in PartsOf(Account(p))' /\ q[1] \in 1..Len(executed) /\ q # p
      BY <1>1
    <2>2. ~Together(p, q)'
      BY <2>1 DEF Alone
    <2>3. q[1] <= p[1]
      BY <1>1, <2>1
    <2> QED BY <1>1, <2>2, <2>3 DEF Together, Overlap
  <1> QED BY <1>2 DEF Clear

\* The block's file, when it has a place behind the last one.
LEMMA FilesGrow ==
    ASSUME BaseInv, NEW c \in Callers, AdjustWallets(c)
    PROVE  /\ files' \in Seq(Nat) /\ Len(files) \in Nat /\ DOMAIN files = 1..Len(files)
           /\ DOMAIN files \subseteq DOMAIN files' /\ Len(files') >= Len(files)
           /\ \A i \in DOMAIN files : files'[i] = files[i]
           /\ DOMAIN files' = DOMAIN files \/ DOMAIN files' = 1..(Len(files) + 1)
           /\ \A i \in DOMAIN files' : i \in DOMAIN files \/ (i = Len(files) + 1 /\ files'[i] = Len(executed) + 1)
           /\ job[c].index \in DOMAIN files'
  <1>1. files \in Seq(Nat) /\ Len(executed) + 1 \in Nat
    BY DEF BaseInv, LedgerType
  <1>2. job[c].index \in 1..(Len(files) + 1)
    BY DEF AdjustWallets, Accepted, BaseInv, FilesFit, JobFits
  <1>3. files' = IF job[c].index = Len(files) + 1 THEN Append(files, Len(executed) + 1) ELSE files
    BY DEF AdjustWallets
  <1> QED BY <1>1, <1>2, <1>3

LEMMA AdjustWalletsBase ==
    ASSUME BaseInv, NEW c \in Callers, AdjustWallets(c)
    PROVE  BaseInv'
  <1> DEFINE n == Len(executed) + 1
             j == [Idle EXCEPT !.step = "adjust", !.number = n]
  <1>1. PICK b \in Blocks :
           /\ b = [body |-> job[c].body, index |-> job[c].index, before |-> wallet, over |-> job[c].over]
           /\ executed' = Append(executed, b)
           /\ \A p \in Parts' :
                 p \in Parts \/ ( /\ p[1] = n /\ p[2] \in 1..Len(b.body)
                                  /\ Tx(p)' = b.body[p[2]] /\ Before(p)' = wallet[Account(p)']
                                  /\ Running(p)' )
           /\ \A op \in ops' :
                 op \in ops \/ ( /\ op \in Ops /\ op.part \in Parts' /\ op.part[1] = n
                                 /\ op.copy = NotRead /\ op.todo = {} )
           /\ ops \subseteq ops' /\ \A op, other \in ops' : op.part = other.part => op = other
           /\ \A p \in Parts : Running(p)' <=> Running(p)
    BY Executes
  <1>2. /\ LedgerType /\ wallet' = wallet /\ books' = books /\ seen' = seen /\ live' = live
        /\ latest' = n /\ job' = [job EXCEPT ![c] = j]
        /\ job[c].step = "verify" /\ job[c].checked = Len(job[c].body) /\ job[c] \in Jobs /\ job[c].target = Main
    BY DEF AdjustWallets, Accepted, BaseInv, LedgerType, disk, history
  <1>3. b.body = job[c].body /\ b.index = job[c].index /\ b.before = wallet /\ b.over = job[c].over
    BY <1>1
  <1>4. /\ n \in Nat /\ Len(executed') = n /\ DOMAIN executed = 1..Len(executed) /\ DOMAIN executed' = 1..n
        /\ executed'[n] = b /\ \A m \in DOMAIN executed : m \in DOMAIN executed' /\ executed'[m] = executed[m]
    BY <1>1, <1>2, NewBlock
  <1>5. /\ j \in Jobs /\ j.step = "adjust" /\ j.over = {} /\ j.target = Main
        /\ \A d \in Callers : job'[d] = IF d = c THEN j ELSE job[d]
    <2>1. j \in Jobs /\ j.step = "adjust" /\ j.over = {} /\ j.target = Main
      BY <1>4, IdleType DEF Jobs
    <2> QED BY <1>2, <2>1 DEF LedgerType
  <1> HIDE DEF j
  <1>6. LedgerType'
    <2>1. executed' \in Seq(Blocks)
      BY <1>1, <1>2 DEF LedgerType
    <2>2. ops' \in SUBSET Ops
      BY <1>1, <1>2 DEF LedgerType
    <2>3. job' \in [Callers -> Jobs]
      BY <1>2, <1>5 DEF LedgerType
    <2> QED BY <1>2, <1>4, <2>1, <2>2, <2>3, FilesGrow DEF LedgerType
  <1>7. FilesFit'
    <2>1. \A i \in DOMAIN files' : files'[i] \in DOMAIN executed'
      BY <1>4, FilesGrow DEF BaseInv, FilesFit
    <2>2. \A i, k \in DOMAIN files' : i < k => files'[i] < files'[k]
      <3>1. \A i \in DOMAIN files : files[i] \in 1..Len(executed) /\ i \in 1..Len(files)
        BY <1>4, FilesGrow DEF BaseInv, FilesFit
      <3>2. SUFFICES ASSUME NEW i \in DOMAIN files', NEW k \in DOMAIN files', i < k PROVE files'[i] < files'[k]
        OBVIOUS
      <3>3. i \in DOMAIN files
        BY <3>1, <3>2, FilesGrow
      <3>4. CASE k \in DOMAIN files
        BY <3>2, <3>3, <3>4, FilesGrow DEF BaseInv, FilesFit
      <3>5. CASE k \notin DOMAIN files
        BY <1>4, <3>1, <3>3, <3>5, FilesGrow
      <3> QED BY <3>4, <3>5
    <2>3. \A m \in DOMAIN executed' : executed'[m].index \in DOMAIN files'
      <3>1. \A m \in DOMAIN executed : executed[m].index \in DOMAIN files
        BY DEF BaseInv, FilesFit
      <3>2. \A m \in DOMAIN executed' : m = n \/ (m \in DOMAIN executed /\ executed'[m] = executed[m])
        BY <1>4
      <3>3. executed'[n].index \in DOMAIN files'
        BY <1>3, <1>4, FilesGrow
      <3> QED BY <3>1, <3>2, <3>3, FilesGrow
    <2>4. ASSUME NEW d \in Callers PROVE JobFits(job[d])'
      <3>1. CASE d = c
        BY <1>5, <3>1 DEF JobFits, MakingSteps
      <3>2. CASE d # c
        <4>1. job'[d] = job[d] /\ job[d] \in Jobs /\ JobFits(job[d])
          BY <1>2, <1>5, <3>2 DEF BaseInv, FilesFit, LedgerType
        <4>2. /\ job[d].target # Main => job[d].index \in DOMAIN files'
              /\ job[d].step = "verify" /\ job[d].target = Main => job[d].index \in 1..(Len(files') + 1)
              /\ job[d].step \in MakingSteps \cup {"open"} => job[d].target # Main /\ job[d].cursor <= Len(files')
          <5>1. /\ DOMAIN files \subseteq DOMAIN files' /\ Len(files') >= Len(files)
                /\ Len(files) \in Nat /\ Len(files') \in Nat /\ job[d].cursor \in Nat /\ job[d].index \in Nat
            <6>1. Len(files') \in Nat
              BY <1>6 DEF LedgerType
            <6>2. job[d].cursor \in Nat /\ job[d].index \in Nat
              BY <4>1 DEF Jobs
            <6> QED BY <6>1, <6>2, FilesGrow
          <5> QED BY <4>1, <5>1 DEF JobFits
        <4>3. ASSUME job[d].step \in {"read", "pay", "paid"}
              PROVE  job[d].cursor >= job[d].index /\ job[d].next \in DOMAIN executed'[files'[job[d].cursor]].body
          <5>1. job[d].cursor \in DOMAIN files /\ files[job[d].cursor] \in DOMAIN executed
            BY <4>3, UndoType DEF BaseInv
          <5> QED BY <1>4, <4>1, <4>3, <5>1, FilesGrow DEF JobFits
        <4> QED BY <4>1, <4>2, <4>3 DEF JobFits
      <3> QED BY <3>1, <3>2
    <2> QED BY <2>1, <2>2, <2>3, <2>4 DEF FilesFit
  <1>8. OpsFit'
    BY <1>1, <1>2, NewBlock DEF BaseInv, OpsFit
  <1>9. OverIsOver'
    <2>1. /\ \A d \in Callers : job'[d].over \subseteq DOMAIN executed
          /\ \A m \in DOMAIN executed' : \A k \in executed'[m].over : k \in DOMAIN executed /\ k < m
      BY <1>2, <1>3, <1>4, <1>5 DEF BaseInv, OverIsOver
    <2>2. ASSUME NEW op \in ops'
          PROVE  /\ \A d \in Callers : op.part[1] \notin job'[d].over
                 /\ \A m \in DOMAIN executed' : op.part[1] \notin executed'[m].over
      <3>1. CASE op \in ops
        BY <1>3, <1>4, <1>5, <3>1 DEF BaseInv, OverIsOver
      <3>2. CASE op \notin ops
        BY <1>1, <1>4, <2>1, <3>2
      <3> QED BY <3>1, <3>2
    <2> QED BY <1>4, <2>1, <2>2 DEF OverIsOver
  <1>10. \A t, w : Sound(t, w) => Sound(t, w)'
    BY <1>2 DEF Sound
  <1>11. \A a : \A over : Clear(a, over)' => Clear(a, over)
    BY <1>1, <1>2, NewBlock
  <1>12. Verified'
    <2> SUFFICES ASSUME NEW d \in Callers, (job[d].step = "verify")', NEW i \in (1..job[d].checked)',
                        Clear(Sender[job[d].body[i]], job[d].over)'
                 PROVE  Sound(job[d].body[i], wallet[Sender[job[d].body[i]]])'
      BY DEF Verified
    <2>1. d # c /\ job'[d] = job[d]
      BY <1>5
    <2>2. Clear(Sender[job[d].body[i]], job[d].over)
      BY <1>11, <2>1
    <2>3. Sound(job[d].body[i], wallet[Sender[job[d].body[i]]])
      BY <2>1, <2>2 DEF BaseInv, Verified
    <2> QED BY <1>2, <2>1, <2>3 DEF Sound
  <1>13. VerifiedParts'
    <2> SUFFICES ASSUME NEW p \in Parts', p[3] = "subtract", Alone(p)'
                 PROVE  Sound(Tx(p), Before(p))'
      BY DEF VerifiedParts
    <2>1. CASE p \in Parts
      <3>1. Sound(Tx(p), Before(p)) /\ Tx(p)' = Tx(p) /\ Before(p)' = Before(p)
        BY <1>1, <1>2, <2>1, NewBlock DEF BaseInv, VerifiedParts
      <3> QED BY <1>2, <3>1 DEF Sound
    <2>2. CASE p \notin Parts
      <3>1. p[1] = n /\ p[2] \in 1..Len(b.body) /\ Tx(p)' = b.body[p[2]] /\ Before(p)' = wallet[Account(p)']
        BY <1>1, <2>2
      <3>2. Account(p)' = Sender[b.body[p[2]]]
        BY <3>1 DEF Account
      <3>3. Clear(Sender[job[c].body[p[2]]], job[c].over)
        BY <1>1, <1>2, <1>3, <3>1, <3>2, NewAlone
      <3>4. Sound(job[c].body[p[2]], wallet[Sender[job[c].body[p[2]]]])
        BY <1>2, <1>3, <3>1, <3>3 DEF BaseInv, Verified
      <3> QED BY <1>2, <1>3, <3>1, <3>2, <3>4 DEF Sound
    <2> QED BY <2>1, <2>2
  <1>14. Still'
    <2> SUFFICES ASSUME NEW m \in DOMAIN executed', NEW a \in Accounts,
                        \A p \in PartsOf(a)' : (p[1] \in executed'[m].over) \/ Running(p)'
                 PROVE  wallet'[a] = executed'[m].before[a]
      BY DEF Still
    <2>1. CASE m = n
      BY <1>2, <1>3, <1>4, <2>1
    <2>2. CASE m # n
      <3>1. m \in DOMAIN executed /\ executed'[m] = executed[m]
        BY <1>4, <2>2
      <3>2. \A p \in PartsOf(a) : p \in PartsOf(a)' /\ p \in Parts
        BY <1>1, <1>2, NewBlock DEF PartsOf
      <3>3. \A p \in PartsOf(a) : (p[1] \in executed[m].over) \/ Running(p)
        BY <1>1, <3>1, <3>2
      <3> QED BY <1>2, <3>1, <3>3 DEF BaseInv, Still
    <2> QED BY <2>1, <2>2
  <1>15. CopiesFit'
    <2> SUFFICES ASSUME NEW op \in ops', Alone(op.part)', op.copy # NotRead
                 PROVE  (op.copy = Before(op.part) \/ (op.copy = Empty /\ "read" \in seen))'
      BY DEF CopiesFit
    <2>1. op \in ops
      BY <1>1
    <2>2. PICK p \in Parts : p = op.part
      BY <2>1 DEF BaseInv, OpsFit
    <2>3. Alone(p) /\ Before(p)' = Before(p)
      BY <1>1, <1>2, <2>2, NewBlock
    <2> QED BY <1>2, <2>1, <2>2, <2>3 DEF BaseInv, CopiesFit
  <1> QED BY <1>6, <1>7, <1>8, <1>9, <1>12, <1>13, <1>14, <1>15 DEF BaseInv

\* An operation that has read a wallet or copied it goes on with the same part.
LEMMA OpStep ==
    ASSUME BaseInv, UNCHANGED <<wallet, live, job, chain, books>>, seen \subseteq seen',
           NEW op \in ops, NEW new \in Ops, ops' = (ops \ {op}) \cup {new}, new.part = op.part,
           new.copy = op.copy \/ new.copy = wallet[Account(op.part)] \/ (new.copy = Empty /\ "read" \in seen')
    PROVE  BaseInv'
  <1>1. /\ executed' = executed /\ files' = files /\ latest' = latest /\ job' = job /\ wallet' = wallet
        /\ books' = books /\ live' = live
    BY DEF chain
  <1>2. LedgerType'
    BY <1>1 DEF BaseInv, LedgerType
  <1>3. FilesFit'
    BY <1>1 DEF BaseInv, FilesFit, JobFits
  <1>4. OpsFit'
    BY <1>1, SameChain DEF BaseInv, OpsFit
  <1>5. OverIsOver'
    BY <1>1 DEF BaseInv, OverIsOver
  <1>6. \A t, w : Sound(t, w) => Sound(t, w)'
    BY DEF Sound
  <1>7. Verified'
    BY <1>1, <1>6, SameChain DEF BaseInv, Verified
  <1>8. VerifiedParts'
    BY <1>1, <1>6, SameChain DEF BaseInv, VerifiedParts
  <1>9. \A p : Running(p)' <=> Running(p)
    BY DEF Running
  <1>10. Still'
    BY <1>1, <1>9, SameChain DEF BaseInv, Still
  <1>11. CopiesFit'
    <2> SUFFICES ASSUME NEW o \in ops', Alone(o.part)', o.copy # NotRead
                 PROVE  o.copy = Before(o.part)' \/ (o.copy = Empty /\ "read" \in seen')
      BY DEF CopiesFit
    <2>1. Alone(o.part) /\ Before(o.part)' = Before(o.part)
      BY <1>1, SameChain
    <2>2. CASE o \in ops
      BY <2>1, <2>2 DEF BaseInv, CopiesFit
    <2>3. CASE o = new
      <3>1. wallet[Account(op.part)] = Before(op.part)
        BY <2>1, <2>3, AloneStill DEF BaseInv
      <3>2. op.copy # NotRead => op.copy = Before(op.part) \/ (op.copy = Empty /\ "read" \in seen)
        BY <2>1, <2>3 DEF BaseInv, CopiesFit
      <3> QED BY <2>1, <2>3, <3>1, <3>2
    <2> QED BY <2>2, <2>3
  <1> QED BY <1>2, <1>3, <1>4, <1>5, <1>7, <1>8, <1>10, <1>11 DEF BaseInv

\* What GetWallet and CheckFork make of the operation.
LEMMA GetWalletOp ==
    ASSUME BaseInv, NEW op \in ops, GetWallet(op)
    PROVE  \E new \in Ops :
              /\ ops' = (ops \ {op}) \cup {new}
              /\ new.part = op.part /\ new.copy \in Wallet /\ new.copy # NotRead /\ new.todo = live
              /\ seen \subseteq seen'
              /\ new.copy = wallet[Account(op.part)] \/ (new.copy = Empty /\ "read" \in seen')
              /\ seen' = {} => new.copy = wallet[Account(op.part)]
  <1>1. Account(op.part) \in Accounts /\ op \in Ops /\ live \in SUBSET Forks
    BY OpType DEF BaseInv, LedgerType
  <1>2. PICK w : /\ Read(Account(op.part), w)
                 /\ ops' = (ops \ {op}) \cup {[op EXCEPT !.copy = w, !.todo = live]}
    BY DEF GetWallet, Becomes
  <1>3. /\ w \in Wallet /\ seen \subseteq seen' /\ w # NotRead
        /\ w = wallet[Account(op.part)] \/ (w = Empty /\ "read" \in seen')
        /\ seen' = {} => w = wallet[Account(op.part)]
    BY <1>1, <1>2, ReadFinds, WalletLedgerAssumption DEF BaseInv
  <1> DEFINE new == [op EXCEPT !.copy = w, !.todo = live]
  <1>4. new \in Ops /\ new.part = op.part /\ new.copy = w /\ new.todo = live
    BY <1>1, <1>3 DEF Ops
  <1> HIDE DEF new
  <1>5. ops' = (ops \ {op}) \cup {new}
    BY <1>2 DEF new
  <1> QED BY <1>3, <1>4, <1>5

LEMMA CheckForkOp ==
    ASSUME BaseInv, NEW op \in ops, NEW f \in Forks, CheckFork(op, f)
    PROVE  /\ ops' = (ops \ {op}) \cup {[part |-> op.part, copy |-> op.copy, todo |-> op.todo \ {f}]}
           /\ [part |-> op.part, copy |-> op.copy, todo |-> op.todo \ {f}] \in Ops
           /\ seen \subseteq seen'
  <1>1. op = [part |-> op.part, copy |-> op.copy, todo |-> op.todo] /\ op \in Ops
    BY OpType DEF BaseInv, LedgerType
  <1>2. ops' = (ops \ {op}) \cup {[op EXCEPT !.todo = @ \ {f}]} /\ seen \subseteq seen'
    BY DEF CheckFork, Becomes, GetData
  <1>3. [op EXCEPT !.todo = @ \ {f}] = [part |-> op.part, copy |-> op.copy, todo |-> op.todo \ {f}]
    <2> DEFINE left == op.todo \ {f}
    <2>1. [op EXCEPT !.todo = @ \ {f}] = [op EXCEPT !.todo = left]
      OBVIOUS
    <2> HIDE DEF left
    <2>2. [op EXCEPT !.todo = left] = [part |-> op.part, copy |-> op.copy, todo |-> left]
      BY <1>1 DEF Ops
    <2> QED BY <2>1, <2>2 DEF left
  <1>4. [part |-> op.part, copy |-> op.copy, todo |-> op.todo \ {f}] \in Ops
    BY <1>1 DEF Ops
  <1> QED BY <1>2, <1>3, <1>4

LEMMA ReadOpBase ==
    ASSUME BaseInv, NEW op \in ops, GetWallet(op) \/ \E f \in Forks : CheckFork(op, f)
    PROVE  BaseInv'
  <1>1. UNCHANGED <<wallet, live, job, chain, books>>
    BY DEF GetWallet, CheckFork, disk, history
  <1>2. CASE GetWallet(op)
    <2>1. PICK new \in Ops :
             /\ ops' = (ops \ {op}) \cup {new} /\ new.part = op.part /\ seen \subseteq seen'
             /\ new.copy = wallet[Account(op.part)] \/ (new.copy = Empty /\ "read" \in seen')
      BY <1>2, GetWalletOp
    <2> QED BY <1>1, <2>1, OpStep
  <1>3. ASSUME NEW f \in Forks, CheckFork(op, f) PROVE BaseInv'
    <2> DEFINE new == [part |-> op.part, copy |-> op.copy, todo |-> op.todo \ {f}]
    <2>1. new.part = op.part /\ new.copy = op.copy
      OBVIOUS
    <2>2. ops' = (ops \ {op}) \cup {new} /\ new \in Ops /\ seen \subseteq seen'
      BY <1>3, CheckForkOp
    <2> HIDE DEF new
    <2> QED BY <1>1, <2>1, <2>2, OpStep
  <1> QED BY <1>2, <1>3

\* The effect of a write: one operation is gone, one wallet changed.
LEMMA SetWalletOp ==
    ASSUME BaseInv, NEW op \in ops, SetWallet(op)
    PROVE  /\ op.copy # NotRead /\ op.todo = {} /\ ops' = ops \ {op}
           /\ executed' = executed /\ files' = files /\ latest' = latest /\ job' = job /\ live' = live
           /\ forkAt' = forkAt /\ forkWallet' = forkWallet /\ pending' = pending /\ seen \subseteq seen'
           /\ \A a \in Accounts : a # Account(op.part) => wallet'[a] = wallet[a] /\ books'[a] = books[a]
           /\ \/ /\ wallet'[Account(op.part)] = Changed(op) /\ books' = Entered(op.part) /\ seen' = seen
              \/ wallet' = wallet /\ books' = books /\ seen' # {} /\ ("read" \in seen' => "read" \in seen)
           /\ wallet' \in Wallets /\ books' \in [Accounts -> Books]
  <1>1. /\ Account(op.part) \in Accounts /\ Amount[Tx(op.part)] \in Uint /\ Amount[Tx(op.part)] \in Nat
    BY OpType, UintFacts DEF BaseInv
  <1>2. /\ op.copy # NotRead /\ op.todo = {} /\ ops' = ops \ {op}
        /\ executed' = executed /\ files' = files /\ latest' = latest /\ job' = job /\ live' = live
        /\ forkAt' = forkAt /\ forkWallet' = forkWallet /\ pending' = pending
    BY DEF SetWallet, chain
  <1>3. CASE /\ wallet' = [wallet EXCEPT ![Account(op.part)] = Changed(op)]
             /\ books' = Entered(op.part) /\ seen' = seen
    <2>1. Changed(op) \in Wallet
      BY <1>2, OpType DEF BaseInv
    <2>2. wallet' \in Wallets
      BY <1>1, <1>3, <2>1 DEF Wallets, BaseInv, LedgerType
    <2>3. /\ books' \in [Accounts -> Books]
          /\ \A a \in Accounts : a # Account(op.part) => books'[a] = books[a]
      <3>1. books \in [Accounts -> Books]
        BY DEF BaseInv, LedgerType
      <3>2. /\ books[Account(op.part)] \in Books /\ books[Account(op.part)].paid + Amount[Tx(op.part)] \in Nat
            /\ books[Account(op.part)].sent + 1 \in Nat
            /\ books[Account(op.part)].received + Amount[Tx(op.part)] \in Nat
        BY <1>1, <3>1 DEF Books
      <3> QED BY <1>1, <1>3, <3>1, <3>2 DEF Entered, Books
    <2>4. /\ wallet'[Account(op.part)] = Changed(op)
          /\ \A a \in Accounts : a # Account(op.part) => wallet'[a] = wallet[a]
      BY <1>1, <1>3 DEF Wallets, BaseInv, LedgerType
    <2> QED BY <1>2, <1>3, <2>2, <2>3, <2>4
  <1>4. CASE wallet' = wallet /\ books' = books /\ seen' = seen \cup {"write"}
    BY <1>2, <1>4 DEF BaseInv, LedgerType
  <1> QED BY <1>3, <1>4 DEF SetWallet

LEMMA SetWalletBase ==
    ASSUME BaseInv, NEW op \in ops, SetWallet(op)
    PROVE  BaseInv'
  <1> DEFINE a == Account(op.part)
  <1>1. /\ ops' = ops \ {op} /\ executed' = executed /\ files' = files /\ latest' = latest /\ job' = job
        /\ live' = live /\ seen \subseteq seen' /\ \A e \in Accounts : e # a => wallet'[e] = wallet[e]
    BY SetWalletOp
  <1>2. op.part \in Parts /\ a \in Accounts /\ op.part \in PartsOf(a) /\ op.part[1] \in DOMAIN executed
    BY PartsType, PartsIff DEF BaseInv, OpsFit
  <1> HIDE DEF a
  <1>3. LedgerType'
    BY <1>1, SetWalletOp DEF BaseInv, LedgerType
  <1>4. FilesFit'
    BY <1>1 DEF BaseInv, FilesFit, JobFits
  <1>5. OpsFit' /\ OverIsOver'
    BY <1>1, SameChain DEF BaseInv, OpsFit, OverIsOver
  <1>6. \A t, w : Sound(t, w) => Sound(t, w)'
    BY <1>1 DEF Sound
  <1>7. Verified'
    <2> SUFFICES ASSUME NEW d \in Callers, job[d].step = "verify", NEW i \in 1..job[d].checked,
                        NEW t, t = job[d].body[i], Clear(Sender[t], job[d].over)
                 PROVE  Sound(t, wallet[Sender[t]])'
      BY <1>1, SameChain DEF Verified
    <2>1. Sender[t] # a
      BY <1>2 DEF Clear, BaseInv, OverIsOver
    <2>2. t \in Txs
      <3>1. job[d] \in Jobs /\ JobFits(job[d])
        BY DEF BaseInv, FilesFit, LedgerType
      <3> QED BY <3>1 DEF JobFits, Jobs
    <2>3. wallet'[Sender[t]] = wallet[Sender[t]]
      BY <1>1, <2>1, <2>2, WalletLedgerAssumption
    <2>4. Sound(t, wallet[Sender[t]])
      BY DEF BaseInv, Verified
    <2> QED BY <1>6, <2>3, <2>4
  <1>8. VerifiedParts'
    BY <1>1, <1>6, SameChain DEF BaseInv, VerifiedParts
  <1>9. \A p : Running(p)' => Running(p) /\ p # op.part
    BY <1>1 DEF Running, BaseInv, OpsFit
  <1>10. Still'
    <2> SUFFICES ASSUME NEW m \in DOMAIN executed, NEW e \in Accounts,
                        \A p \in PartsOf(e) : (p[1] \in executed[m].over) \/ Running(p)'
                 PROVE  wallet'[e] = executed[m].before[e]
      BY <1>1, SameChain DEF Still
    <2>1. e # a
      BY <1>2, <1>9 DEF BaseInv, OverIsOver
    <2>2. wallet[e] = executed[m].before[e]
      BY <1>9 DEF BaseInv, Still
    <2> QED BY <1>1, <2>1, <2>2
  <1>11. CopiesFit'
    BY <1>1, SameChain DEF BaseInv, CopiesFit
  <1> QED BY <1>3, <1>4, <1>5, <1>7, <1>8, <1>10, <1>11 DEF BaseInv

LEMMA CrashBase ==
    ASSUME BaseInv, Crash
    PROVE  BaseInv'
  <1>1. /\ ops' = {} /\ executed' = executed /\ files' = files /\ latest' = latest /\ live' \in SUBSET Forks
        /\ wallet' = wallet /\ books' = books /\ seen \subseteq seen'
        /\ job' = [c \in Callers |-> Idle]
    BY DEF Crash, chain, history, BaseInv, LedgerType
  <1>2. \A c \in Callers : job'[c] = Idle
    BY <1>1
  <1>3. LedgerType'
    BY <1>1, IdleType DEF BaseInv, LedgerType
  <1>4. FilesFit'
    <2>1. \A c \in Callers : JobFits(job[c])'
      BY <1>2 DEF JobFits, Idle, MakingSteps
    <2> QED BY <1>1, <2>1 DEF BaseInv, FilesFit
  <1>5. OpsFit' /\ OverIsOver' /\ CopiesFit'
    BY <1>1, <1>2, IdleType DEF BaseInv, OpsFit, OverIsOver, CopiesFit
  <1>6. Verified'
    BY <1>2, IdleType DEF Verified
  <1>7. \A t, w : Sound(t, w) => Sound(t, w)'
    BY <1>1 DEF Sound
  <1>8. VerifiedParts'
    BY <1>1, <1>7, SameChain DEF BaseInv, VerifiedParts
  <1>9. Still'
    BY <1>1, SameChain DEF BaseInv, Still, Running
  <1> QED BY <1>3, <1>4, <1>5, <1>6, <1>8, <1>9 DEF BaseInv

LEMMA QuietBase ==
    ASSUME BaseInv, UNCHANGED <<wallet, live, job, ops, chain, books, seen>>
    PROVE  BaseInv'
  <1>1. /\ executed' = executed /\ files' = files /\ latest' = latest /\ job' = job /\ wallet' = wallet
        /\ books' = books /\ live' = live /\ ops' = ops /\ seen' = seen
    BY DEF chain
  <1>2. LedgerType' /\ FilesFit' /\ OpsFit' /\ OverIsOver'
    BY <1>1, SameChain DEF BaseInv, LedgerType, FilesFit, JobFits, OpsFit, OverIsOver
  <1>3. Verified' /\ VerifiedParts'
    BY <1>1, SameChain DEF BaseInv, Verified, VerifiedParts, Sound
  <1>4. Still' /\ CopiesFit'
    BY <1>1, SameChain DEF BaseInv, Still, CopiesFit, Running
  <1> QED BY <1>2, <1>3, <1>4 DEF BaseInv

\* What only goes on beside the wallets and the callers.
Beside == (\E put \in pending : ForkPut(put)) \/ (\E t \in Offers : NewTransaction(t)) \/ vars' = vars

LEMMA BesideQuiet == Beside => UNCHANGED <<wallet, live, job, ops, failed, chain, history, seen>>
  BY DEF Beside, ForkPut, NewTransaction, vars, disk, chain, history

LEMMA BaseStep == BaseInv /\ [Next]_vars => BaseInv'
  <1> SUFFICES ASSUME BaseInv, [Next]_vars PROVE BaseInv'
    OBVIOUS
  <1>1. ASSUME NEW c \in Callers, NEW place \in Places, NEW b \in Coming(place), VerifyBlock(c, b, place) PROVE BaseInv'
    BY <1>1, VerifyBlockBase
  <1>2. ASSUME NEW c \in Callers, MintBlock(c) \/ VerifyTransaction(c) \/ AdjustWallets(c) PROVE BaseInv'
    BY <1>2, MintBlockBase, VerifyTransactionBase, AdjustWalletsBase
  <1>3. ASSUME NEW c \in Callers, Adjusted(c) \/ OpenRefused(c) \/ ForkReady(c) PROVE BaseInv'
    BY <1>3, AdjustedBase
  <1>4. ASSUME NEW c \in Callers, BeginFork(c) \/ OpenFork(c) \/ ReadSender(c) \/ ReadRecipient(c) PROVE BaseInv'
    BY <1>4, BeginForkBase, OpenForkBase, ReadSenderBase, ReadRecipientBase
  <1>5. ASSUME NEW c \in Callers, PutSender(c) \/ PutRecipient(c) \/ NextBlock(c) PROVE BaseInv'
    BY <1>5, PutBackBase, NextBlockBase
  <1>6. ASSUME NEW op \in ops, GetWallet(op) \/ SetWallet(op) \/ \E f \in Forks : CheckFork(op, f) PROVE BaseInv'
    BY <1>6, ReadOpBase, SetWalletBase
  <1>7. CASE Crash
    BY <1>7, CrashBase
  <1>8. CASE Beside
    BY <1>8, BesideQuiet, QuietBase DEF history
  <1> QED BY <1>1, <1>2, <1>3, <1>4, <1>5, <1>6, <1>7, <1>8 DEF Next, Beside

\* In every reachable state, whatever callers overlap and whatever fails: every operation is
\* the only one of its part, what was over stays over, and a part that is alone has found
\* its account as the check of its block did and as the block's before has it.
THEOREM LedgerInvariant == Spec => []BaseInv
  BY BaseInit, BaseStep, PTL DEF Spec

-------------------------------------------------------------------------------
(***************************************************************************)
(* Money.                                                                  *)
(***************************************************************************)

\* Steps that execute nothing, read nothing for an operation and write no wallet of main.
Rests ==
    /\ executed' = executed /\ wallet' = wallet /\ books' = books /\ seen \subseteq seen'
    /\ \A o \in ops' : \E op \in ops : o.part = op.part /\ o.copy = op.copy
    /\ seen' = {} => \A p : Running(p)' <=> Running(p)

LEMMA StepKinds ==
    ASSUME BaseInv, [Next]_vars
    PROVE  \/ \E c \in Callers : AdjustWallets(c)
           \/ \E op \in ops : GetWallet(op) \/ SetWallet(op)
           \/ Rests
  <1>1. ASSUME ops' = ops, executed' = executed, wallet' = wallet, books' = books, seen \subseteq seen' PROVE Rests
    BY <1>1 DEF Rests, Running
  <1>2. ASSUME NEW c \in Callers, NEW place, NEW b, VerifyBlock(c, b, place) PROVE Rests
    BY <1>1, <1>2 DEF VerifyBlock, disk, chain, history
  <1>3. ASSUME NEW c \in Callers, MintBlock(c) \/ Adjusted(c) \/ BeginFork(c) \/ OpenRefused(c) \/ NextBlock(c) PROVE Rests
    <2>1. CASE MintBlock(c)
      BY <1>2, <2>1 DEF MintBlock
    <2> QED BY <1>1, <1>3, <2>1 DEF Adjusted, BeginFork, OpenRefused, NextBlock, disk, chain, history
  <1>4. ASSUME NEW c \in Callers, OpenFork(c) \/ ForkReady(c) \/ PutSender(c) \/ PutRecipient(c) PROVE Rests
    BY <1>1, <1>4 DEF OpenFork, ForkReady, PutSender, PutRecipient, PutBack, disk, chain, history
  <1>5. ASSUME NEW c \in Callers, VerifyTransaction(c) \/ ReadSender(c) \/ ReadRecipient(c) PROVE Rests
    <2>1. seen \subseteq seen'
      BY <1>5 DEF VerifyTransaction, ReadSender, ReadRecipient, Read, GetData
    <2> QED BY <1>1, <1>5, <2>1 DEF VerifyTransaction, ReadSender, ReadRecipient, disk, chain, history
  <1>6. ASSUME NEW op \in ops, NEW f \in Forks, CheckFork(op, f) PROVE Rests
    <2> DEFINE new == [part |-> op.part, copy |-> op.copy, todo |-> op.todo \ {f}]
    <2>1. ops' = (ops \ {op}) \cup {new} /\ new.part = op.part /\ new.copy = op.copy /\ seen \subseteq seen'
      BY <1>6, CheckForkOp
    <2> HIDE DEF new
    <2>2. executed' = executed /\ wallet' = wallet /\ books' = books
      BY <1>6 DEF CheckFork, chain, history
    <2>3. \A p : Running(p)' <=> Running(p)
      BY <2>1 DEF Running
    <2> QED BY <2>1, <2>2, <2>3 DEF Rests
  <1>7. CASE Crash
    BY <1>7 DEF Crash, Rests, chain, history
  <1>8. CASE Beside
    BY <1>1, <1>8, BesideQuiet DEF chain, history
  <1> QED BY <1>2, <1>3, <1>4, <1>5, <1>6, <1>7, <1>8 DEF Next, Beside

\* What the account began with and has been sent.
Backed(a) == Genesis[a].balance + books[a].received

MoneyInv ==
    /\ \A a \in Accounts : /\ wallet[a].balance <= Backed(a)
                           /\ ~Raced(a) => wallet[a].balance + books[a].paid <= Backed(a)
    /\ \A op \in ops : op.copy # NotRead =>
          /\ op.copy.balance <= Backed(Account(op.part))
          /\ ~Raced(Account(op.part)) /\ op.part[3] = "add" =>
                op.copy.balance + books[Account(op.part)].paid <= Backed(Account(op.part))

LEMMA Amounts ==
    ASSUME LedgerType, NEW a \in Accounts
    PROVE  /\ wallet[a] \in Wallet /\ wallet[a].balance \in Nat /\ wallet[a].nonce \in Nat
           /\ wallet[a].nonce \in Uint /\ wallet[a].balance \in Uint
           /\ Genesis[a].balance \in Nat /\ Genesis[a].nonce \in Nat
           /\ books[a].paid \in Nat /\ books[a].received \in Nat /\ books[a].sent \in Nat
           /\ Backed(a) \in Nat
  <1>1. wallet[a] \in Wallet /\ Genesis[a] \in Wallet /\ books[a] \in Books
    BY WalletLedgerAssumption DEF LedgerType, Wallets
  <1>2. /\ wallet[a].balance \in Uint /\ wallet[a].nonce \in Uint /\ Genesis[a].balance \in Uint
        /\ Genesis[a].nonce \in Uint /\ books[a].paid \in Nat /\ books[a].received \in Nat /\ books[a].sent \in Nat
    BY <1>1 DEF Wallet, Books
  <1>3. \A n \in Uint : n \in Nat
    BY UintFacts
  <1>4. Genesis[a].balance \in Nat /\ Genesis[a].balance + books[a].received \in Nat
    BY <1>2, <1>3
  <1> QED BY <1>1, <1>2, <1>3, <1>4 DEF Backed

LEMMA CopyAmounts ==
    ASSUME BaseInv, NEW op \in ops, op.copy # NotRead
    PROVE  /\ op.copy \in Wallet /\ op.copy.balance \in Nat /\ op.copy.nonce \in Nat
           /\ op.copy.balance \in Uint /\ op.copy.nonce \in Uint
           /\ op.copy = [balance |-> op.copy.balance, nonce |-> op.copy.nonce]
           /\ Tx(op.part) \in Txs /\ Amount[Tx(op.part)] \in Nat /\ NonceOf[Tx(op.part)] \in Nat
           /\ op.part[3] \in Sides
  <1>1. op.copy \in Wallet /\ Tx(op.part) \in Txs /\ Amount[Tx(op.part)] \in Uint /\ op.part[3] \in Sides
    BY OpType DEF BaseInv
  <1>2. op.copy.balance \in Uint /\ op.copy.nonce \in Uint
        /\ op.copy = [balance |-> op.copy.balance, nonce |-> op.copy.nonce]
    BY <1>1 DEF Wallet
  <1>3. NonceOf[Tx(op.part)] \in Uint
    BY <1>1, WalletLedgerAssumption
  <1> QED BY <1>1, <1>2, <1>3, UintFacts

\* What an operation writes.
LEMMA Writes ==
    ASSUME BaseInv, NEW op \in ops, op.copy # NotRead
    PROVE  LET new    == Changed(op)
               copy   == op.copy
               amount == Amount[Tx(op.part)]
           IN  /\ op.part[3] = "add" => new = [balance |-> Mod(copy.balance + amount), nonce |-> copy.nonce]
               /\ op.part[3] = "subtract" =>
                     new = [ balance |-> IF copy.balance >= amount THEN copy.balance - amount ELSE copy.balance,
                             nonce   |-> Mod(copy.nonce + MaxUint + 1 + 1) ]
  <1>1. op.copy = [balance |-> op.copy.balance, nonce |-> op.copy.nonce]
    BY CopyAmounts
  <1>2. CASE op.part[3] = "add"
    BY <1>1, <1>2 DEF Changed, Add
  <1>3. CASE op.part[3] = "subtract"
    <2> DEFINE w == [balance |-> op.copy.balance, nonce |-> Mod(op.copy.nonce + MaxUint + 1 + 1)]
    <2>1. AdjustNonce(op.copy, 1) = w
      BY <1>1 DEF AdjustNonce
    <2>2. SubtractIfPossible(w, Amount[Tx(op.part)]) =
             [ balance |-> IF op.copy.balance >= Amount[Tx(op.part)]
                           THEN op.copy.balance - Amount[Tx(op.part)] ELSE op.copy.balance,
               nonce   |-> Mod(op.copy.nonce + MaxUint + 1 + 1) ]
      BY DEF SubtractIfPossible, IsSubtractMoneyPossible
    <2> HIDE DEF w
    <2> QED BY <1>3, <2>1, <2>2 DEF Changed, Subtract
  <1> QED BY <1>2, <1>3

\* What a subtraction of an account that is not raced has read.
LEMMA SoleSubtraction ==
    ASSUME BaseInv, NEW op \in ops, op.copy # NotRead, op.part[3] = "subtract", ~Raced(Account(op.part))
    PROVE  /\ Sound(Tx(op.part), wallet[Account(op.part)])
           /\ op.copy = wallet[Account(op.part)] \/ (op.copy = Empty /\ "read" \in seen)
           /\ \A other \in ops : Account(other.part) = Account(op.part) => other = op
  <1>1. op.part \in Parts /\ Alone(op.part)
    BY AloneRaced DEF BaseInv, OpsFit
  <1>2. wallet[Account(op.part)] = Before(op.part)
    BY <1>1, AloneStill DEF BaseInv
  <1>3. ASSUME NEW other \in ops, Account(other.part) = Account(op.part) PROVE other = op
    <2>1. other.part \in PartsOf(Account(op.part)) /\ Running(other.part)
      BY <1>3 DEF BaseInv, OpsFit, PartsOf, Running
    <2>2. other.part = op.part
      BY <1>1, <2>1, AloneOver DEF BaseInv
    <2> QED BY <2>2 DEF BaseInv, OpsFit
  <1> QED BY <1>1, <1>2, <1>3 DEF BaseInv, VerifiedParts, CopiesFit

LEMMA RestsMoney ==
    ASSUME Rests, MoneyInv
    PROVE  MoneyInv'
  <1>1. executed' = executed /\ wallet' = wallet /\ books' = books
    BY DEF Rests
  <1>2. \A a : Backed(a)' = Backed(a)
    BY <1>1 DEF Backed
  <1>3. \A o \in ops' : \E op \in ops : o.part = op.part /\ o.copy = op.copy
    BY DEF Rests
  <1> QED BY <1>1, <1>2, <1>3, SameChain DEF MoneyInv

LEMMA ExecutesMoney ==
    ASSUME BaseInv, MoneyInv, NEW c \in Callers, AdjustWallets(c)
    PROVE  MoneyInv'
  <1>1. PICK b \in Blocks :
           /\ executed' = Append(executed, b)
           /\ \A op \in ops' : op \in ops \/ op.copy = NotRead
    BY Executes
  <1>2. wallet' = wallet /\ books' = books
    BY DEF AdjustWallets, disk, history
  <1>3. \A a : Backed(a)' = Backed(a)
    BY <1>2 DEF Backed
  <1>4. \A a : ~Raced(a)' => ~Raced(a)
    BY <1>1, NewBlock DEF BaseInv
  <1>5. \A op \in ops : Account(op.part)' = Account(op.part)
    BY <1>1, NewBlock DEF BaseInv, OpsFit
  <1> QED BY <1>1, <1>2, <1>3, <1>4, <1>5 DEF MoneyInv

LEMMA GetWalletMoney ==
    ASSUME BaseInv, MoneyInv, NEW op \in ops, GetWallet(op)
    PROVE  MoneyInv'
  <1>1. PICK new \in Ops :
           /\ ops' = (ops \ {op}) \cup {new}
           /\ new.part = op.part
           /\ new.copy = wallet[Account(op.part)] \/ (new.copy = Empty /\ "read" \in seen')
    BY GetWalletOp
  <1>2. executed' = executed /\ wallet' = wallet /\ books' = books
    BY DEF GetWallet, disk, chain, history
  <1>3. \A a : Backed(a)' = Backed(a) /\ Raced(a)' = Raced(a)
    BY <1>2, SameChain DEF Backed
  <1>4. \A p : Account(p)' = Account(p)
    BY <1>2, SameChain
  <1>5. Account(op.part) \in Accounts
    BY OpType DEF BaseInv
  <1>6. /\ new.copy.balance <= Backed(Account(op.part))
        /\ ~Raced(Account(op.part)) => new.copy.balance + books[Account(op.part)].paid <= Backed(Account(op.part))
    <2>1. CASE new.copy = wallet[Account(op.part)]
      BY <1>5, <2>1 DEF MoneyInv
    <2>2. CASE new.copy = Empty
      BY <1>5, <2>2, Amounts DEF MoneyInv, Empty, BaseInv
    <2> QED BY <1>1, <2>1, <2>2
  <1> QED BY <1>1, <1>2, <1>3, <1>4, <1>6 DEF MoneyInv

LEMMA SetWalletMoney ==
    ASSUME BaseInv, MoneyInv, NEW op \in ops, SetWallet(op)
    PROVE  MoneyInv'
  <1>0. PICK a, amount : a = Account(op.part) /\ amount = Amount[Tx(op.part)]
    OBVIOUS
  <1>1. /\ op.copy # NotRead /\ ops' = ops \ {op} /\ executed' = executed
        /\ \A e \in Accounts : e # a => wallet'[e] = wallet[e] /\ books'[e] = books[e]
        /\ \/ wallet'[a] = Changed(op) /\ books' = Entered(op.part)
           \/ wallet' = wallet /\ books' = books
    BY <1>0, SetWalletOp
  <1>2. /\ a \in Accounts /\ op.part[3] \in Sides /\ amount \in Nat /\ op.copy.balance \in Nat /\ op.copy.nonce \in Nat
        /\ wallet[a].balance \in Nat /\ books[a].paid \in Nat /\ books[a].received \in Nat /\ Backed(a) \in Nat
        /\ Genesis[a].balance \in Nat
    BY <1>0, <1>1, OpType, CopyAmounts, Amounts DEF BaseInv
  <1>3. \A e : Raced(e)' = Raced(e)
    BY <1>1, SameChain
  <1>4. \A p : Account(p)' = Account(p)
    BY <1>1, SameChain
  <1>5. op.copy.balance <= Backed(a)
    BY <1>0, <1>1 DEF MoneyInv
  <1>6. books \in [Accounts -> Books]
    BY DEF BaseInv, LedgerType
  <1>7. /\ Backed(a) <= Backed(a)' /\ wallet'[a].balance <= Backed(a)'
        /\ ~Raced(a) => wallet'[a].balance + books'[a].paid <= Backed(a)'
        /\ \A o \in ops' : Account(o.part) = a /\ o.copy # NotRead =>
              /\ o.copy.balance <= Backed(a)'
              /\ ~Raced(a) /\ o.part[3] = "add" => o.copy.balance + books'[a].paid <= Backed(a)'
    <2>1. CASE wallet' = wallet /\ books' = books
      <3>1. Backed(a)' = Backed(a)
        BY <2>1 DEF Backed
      <3> QED BY <1>1, <1>2, <2>1, <3>1 DEF MoneyInv
    <2>2. CASE wallet'[a] = Changed(op) /\ books' = Entered(op.part) /\ op.part[3] = "add"
      <3>1. books'[a].paid = books[a].paid /\ books'[a].received = books[a].received + amount
        BY <1>0, <1>2, <1>6, <2>2 DEF Entered, Books
      <3>2. Backed(a)' = Backed(a) + amount
        BY <1>2, <3>1 DEF Backed
      <3>3. wallet'[a].balance <= op.copy.balance + amount /\ wallet'[a].balance \in Nat
        <4>1. wallet'[a].balance = Mod(op.copy.balance + amount)
          BY <1>0, <1>1, <2>2, Writes
        <4>2. op.copy.balance + amount \in Nat
          BY <1>2
        <4>3. Mod(op.copy.balance + amount) \in Nat /\ Mod(op.copy.balance + amount) <= op.copy.balance + amount
          BY <4>2, UintFacts
        <4> QED BY <4>1, <4>3
      <3>4. ~Raced(a) => op.copy.balance + books[a].paid <= Backed(a)
        BY <1>0, <1>1, <2>2 DEF MoneyInv
      <3>5. \A o \in ops' : Account(o.part) = a /\ o.copy # NotRead =>
               /\ o.copy.balance \in Nat /\ o.copy.balance <= Backed(a)
               /\ ~Raced(a) /\ o.part[3] = "add" => o.copy.balance + books[a].paid <= Backed(a)
        BY <1>1, CopyAmounts DEF MoneyInv
      <3> QED BY <1>2, <1>5, <3>1, <3>2, <3>3, <3>4, <3>5
    <2>3. CASE wallet'[a] = Changed(op) /\ books' = Entered(op.part) /\ op.part[3] = "subtract"
      <3>1. books'[a].paid = books[a].paid + amount /\ books'[a].received = books[a].received
        BY <1>0, <1>2, <1>6, <2>3 DEF Entered, Books
      <3>2. Backed(a)' = Backed(a)
        BY <3>1 DEF Backed
      <3>3. wallet'[a].balance = IF op.copy.balance >= amount THEN op.copy.balance - amount ELSE op.copy.balance
        BY <1>0, <1>1, <2>3, Writes
      <3>4. wallet'[a].balance <= op.copy.balance
        BY <1>2, <3>3
      <3>5. ASSUME ~Raced(a) PROVE /\ wallet'[a].balance + books'[a].paid <= Backed(a)
                                   /\ \A o \in ops' : Account(o.part) # a
        <4>1. /\ amount <= wallet[a].balance /\ (op.copy = wallet[a] \/ op.copy = Empty)
              /\ \A other \in ops : Account(other.part) = a => other = op
          BY <1>0, <1>1, <2>3, <3>5, SoleSubtraction DEF Sound
        <4>2. wallet[a].balance + books[a].paid <= Backed(a)
          BY <1>2, <3>5 DEF MoneyInv
        <4>3. op.copy.balance = wallet[a].balance \/ op.copy.balance = 0
          BY <4>1 DEF Empty
        <4> QED BY <1>1, <1>2, <3>1, <3>3, <4>1, <4>2, <4>3
      <3>6. \A o \in ops' : Account(o.part) = a /\ o.copy # NotRead => o.copy.balance <= Backed(a)
        BY <1>1 DEF MoneyInv
      <3>7. Backed(a) <= Backed(a) /\ wallet'[a].balance <= Backed(a)
        BY <1>2, <1>5, <3>3, <3>4
      <3> QED BY <3>2, <3>5, <3>6, <3>7
    <2> QED BY <1>1, <1>2, <2>1, <2>2, <2>3 DEF Sides
  <1>8. \A e \in Accounts : e # a => wallet'[e] = wallet[e] /\ books'[e] = books[e] /\ Backed(e)' = Backed(e)
    BY <1>1 DEF Backed
  <1>9. \A o \in ops' : o \in ops /\ Account(o.part) \in Accounts
    BY <1>1, OpType DEF BaseInv
  <1>10. \A e \in Accounts : /\ wallet'[e].balance <= Backed(e)'
                             /\ ~Raced(e)' => wallet'[e].balance + books'[e].paid <= Backed(e)'
    BY <1>2, <1>3, <1>7, <1>8 DEF MoneyInv
  <1>11. ASSUME NEW o \in ops', o.copy # NotRead, NEW e, e = Account(o.part)
         PROVE  /\ o.copy.balance <= Backed(e)'
                /\ ~Raced(e)' /\ o.part[3] = "add" => o.copy.balance + books'[e].paid <= Backed(e)'
    <2>1. CASE e = a
      BY <1>3, <1>7, <1>11, <2>1
    <2>2. CASE e # a
      BY <1>3, <1>8, <1>9, <1>11, <2>2 DEF MoneyInv
    <2> QED BY <2>1, <2>2
  <1> QED BY <1>4, <1>10, <1>11 DEF MoneyInv

LEMMA MoneyStep == BaseInv /\ MoneyInv /\ [Next]_vars => MoneyInv'
  BY StepKinds, RestsMoney, ExecutesMoney, GetWalletMoney, SetWalletMoney

LEMMA MoneyInit == Init => MoneyInv
  <1> SUFFICES ASSUME Init PROVE MoneyInv
    OBVIOUS
  <1>1. ops = {} /\ LedgerType
    BY BaseInit DEF Init, BaseInv
  <1>2. \A a \in Accounts : wallet[a].balance = Backed(a) /\ books[a].paid = 0
    BY <1>1, Amounts DEF Init, Backed
  <1> QED BY <1>1, <1>2, Amounts DEF MoneyInv

\* In every reachable state, for any callers, accounts, blocks, forks and faults and with no
\* other assumption: no account has more money than it began with and was sent; and one
\* that never paid while another operation on it, or the check of one, was under way no
\* longer has what it paid.
THEOREM NoMoneyOutOfNothing == Spec => []BalancesBacked
  <1>1. BaseInv /\ MoneyInv => BalancesBacked
    <2> SUFFICES ASSUME BaseInv, MoneyInv, NEW a \in Accounts
                 PROVE  /\ wallet[a].balance <= Backed(a)
                        /\ wallet[a].balance + books[a].paid > Backed(a) => Raced(a)
      BY DEF BalancesBacked, Backed
    <2>1. wallet[a].balance \in Nat /\ books[a].paid \in Nat /\ Backed(a) \in Nat
      BY Amounts DEF BaseInv
    <2> QED BY <2>1 DEF MoneyInv
  <1> QED BY <1>1, MoneyInit, MoneyStep, LedgerInvariant, PTL DEF Spec

-------------------------------------------------------------------------------
(***************************************************************************)
(* Nonces.                                                                 *)
(***************************************************************************)

\* No account comes to the last of the 2^64 nonces.
NoncesFit == \A t \in Txs : NonceOf[t] < MaxUint

Counted(a) == Genesis[a].nonce + books[a].sent

NonceInv ==
    /\ \A a \in Accounts : /\ wallet[a].nonce <= Counted(a)
                           /\ ~Raced(a) /\ "read" \notin seen => wallet[a].nonce = Counted(a)
    /\ \A op \in ops : op.copy # NotRead =>
          /\ op.copy.nonce <= Counted(Account(op.part))
          /\ ~Raced(Account(op.part)) /\ "read" \notin seen => op.copy.nonce = Counted(Account(op.part))

\* Payments of an account that is not raced have rising nonces, and when one is over the
\* wallet's nonce is above that of its transaction.
SpentInv ==
    seen = {} =>
        \A a \in Accounts : ~Raced(a) => \A p \in Paid(a) :
            /\ Running(p) \/ NonceOf[Tx(p)] < wallet[a].nonce
            /\ \A q \in Paid(a) : p[1] < q[1] => NonceOf[Tx(p)] < NonceOf[Tx(q)]

\* One round of the 64 bits.
LEMMA ModWraps ==
    ASSUME NEW k \in Nat, k <= MaxUint
    PROVE  Mod(k + MaxUint + 1) = k
  <1> DEFINE c == MaxUint + 1
  <1>1. k + MaxUint + 1 = k + c /\ c \in Nat /\ c > 0 /\ k < c
    BY WalletLedgerAssumption
  <1>2. Mod(k + MaxUint + 1) = (k + c) % c
    BY <1>1 DEF Mod
  <1> HIDE DEF c
  <1> DEFINE q == (k + c) \div c
             r == (k + c) % c
  <1>3. k + c = c * q + r /\ q \in Int /\ r \in 0..(c - 1)
    BY <1>1
  <1>4. Mod(k + MaxUint + 1) = r
    BY <1>2
  <1> HIDE DEF q, r
  <1>5. q = 1
    <2>1. CASE q <= 0
      <3>1. 0 - q \in Nat
        BY <1>3, <2>1
      <3>2. c * (0 - q) \in Nat /\ c * q = 0 - c * (0 - q)
        BY <1>1, <1>3, <3>1
      <3> QED BY <1>1, <1>3, <3>2
    <2>2. CASE q >= 2
      <3>1. q - 2 \in Nat
        BY <1>3, <2>2
      <3>2. c * (q - 2) \in Nat /\ c * q = c * (q - 2) + c + c
        BY <1>1, <1>3, <3>1
      <3> QED BY <1>1, <1>3, <3>2
    <2> QED BY <1>3, <2>1, <2>2
  <1>6. c * q = c
    BY <1>1, <1>5
  <1>7. r = k
    BY <1>1, <1>3, <1>6
  <1> QED BY <1>4, <1>7

LEMMA NonceMoves ==
    ASSUME NEW n \in Nat, n < MaxUint
    PROVE  Mod(n + MaxUint + 1 + 1) = n + 1
  <1>1. n + 1 \in Nat /\ n + 1 <= MaxUint /\ n + MaxUint + 1 + 1 = (n + 1) + MaxUint + 1
    BY WalletLedgerAssumption
  <1> QED BY <1>1, ModWraps

LEMMA RestsNonce ==
    ASSUME Rests, NonceInv
    PROVE  NonceInv'
  <1>1. executed' = executed /\ wallet' = wallet /\ books' = books /\ ("read" \notin seen' => "read" \notin seen)
    BY DEF Rests
  <1>2. \A a : Counted(a)' = Counted(a)
    BY <1>1 DEF Counted
  <1>3. \A o \in ops' : \E op \in ops : o.part = op.part /\ o.copy = op.copy
    BY DEF Rests
  <1> QED BY <1>1, <1>2, <1>3, SameChain DEF NonceInv

LEMMA ExecutesNonce ==
    ASSUME BaseInv, NonceInv, NEW c \in Callers, AdjustWallets(c)
    PROVE  NonceInv'
  <1>1. PICK b \in Blocks :
           /\ executed' = Append(executed, b)
           /\ \A op \in ops' : op \in ops \/ op.copy = NotRead
    BY Executes
  <1>2. wallet' = wallet /\ books' = books /\ seen' = seen
    BY DEF AdjustWallets, disk, history
  <1>3. \A a : Counted(a)' = Counted(a)
    BY <1>2 DEF Counted
  <1>4. \A a : ~Raced(a)' => ~Raced(a)
    BY <1>1, NewBlock DEF BaseInv
  <1>5. \A op \in ops : Account(op.part)' = Account(op.part)
    BY <1>1, NewBlock DEF BaseInv, OpsFit
  <1> QED BY <1>1, <1>2, <1>3, <1>4, <1>5 DEF NonceInv

LEMMA CountedType == ASSUME LedgerType, NEW a \in Accounts PROVE Counted(a) \in Nat
  BY Amounts DEF Counted

LEMMA GetWalletNonce ==
    ASSUME BaseInv, NonceInv, NEW op \in ops, GetWallet(op)
    PROVE  NonceInv'
  <1>1. PICK new \in Ops :
           /\ ops' = (ops \ {op}) \cup {new} /\ seen \subseteq seen'
           /\ new.part = op.part
           /\ new.copy = wallet[Account(op.part)] \/ (new.copy = Empty /\ "read" \in seen')
    BY GetWalletOp
  <1>2. executed' = executed /\ wallet' = wallet /\ books' = books
    BY DEF GetWallet, disk, chain, history
  <1>3. \A a : Counted(a)' = Counted(a) /\ Raced(a)' = Raced(a)
    BY <1>2, SameChain DEF Counted
  <1>4. \A p : Account(p)' = Account(p)
    BY <1>2, SameChain
  <1>5. Account(op.part) \in Accounts
    BY OpType DEF BaseInv
  <1>6. /\ new.copy.nonce <= Counted(Account(op.part))
        /\ ~Raced(Account(op.part)) /\ "read" \notin seen' => new.copy.nonce = Counted(Account(op.part))
    <2>1. CASE new.copy = wallet[Account(op.part)]
      BY <1>1, <1>5, <2>1 DEF NonceInv
    <2>2. CASE new.copy = Empty /\ "read" \in seen'
      BY <1>5, <2>2, CountedType DEF Empty, BaseInv
    <2> QED BY <1>1, <2>1, <2>2
  <1>7. "read" \notin seen' => "read" \notin seen
    BY <1>1
  <1> QED BY <1>1, <1>2, <1>3, <1>4, <1>6, <1>7 DEF NonceInv

LEMMA SetWalletNonce ==
    ASSUME NoncesFit, BaseInv, NonceInv, NEW op \in ops, SetWallet(op)
    PROVE  NonceInv'
  <1>0. PICK a, amount : a = Account(op.part) /\ amount = Amount[Tx(op.part)]
    OBVIOUS
  <1>1. /\ op.copy # NotRead /\ ops' = ops \ {op} /\ executed' = executed
        /\ \A e \in Accounts : e # a => wallet'[e] = wallet[e] /\ books'[e] = books[e]
        /\ \/ wallet'[a] = Changed(op) /\ books' = Entered(op.part) /\ seen' = seen
           \/ wallet' = wallet /\ books' = books
        /\ "read" \notin seen' => "read" \notin seen
    BY <1>0, SetWalletOp
  <1>2. /\ a \in Accounts /\ op.part[3] \in Sides /\ op.copy.nonce \in Nat /\ op.copy.nonce \in Uint
        /\ wallet[a].nonce \in Nat /\ books[a].sent \in Nat /\ Counted(a) \in Nat /\ Genesis[a].nonce \in Nat
        /\ books \in [Accounts -> Books] /\ Tx(op.part) \in Txs /\ NonceOf[Tx(op.part)] \in Nat
    BY <1>0, <1>1, OpType, CopyAmounts, Amounts, CountedType DEF BaseInv, LedgerType
  <1>3. \A e : Raced(e)' = Raced(e)
    BY <1>1, SameChain
  <1>4. \A p : Account(p)' = Account(p)
    BY <1>1, SameChain
  <1>5. op.copy.nonce <= Counted(a) /\ (~Raced(a) /\ "read" \notin seen => op.copy.nonce = Counted(a))
    BY <1>0, <1>1 DEF NonceInv
  <1>6. \A o \in ops' : Account(o.part) = a /\ o.copy # NotRead =>
           /\ o.copy.nonce \in Nat /\ o.copy.nonce <= Counted(a)
           /\ ~Raced(a) /\ "read" \notin seen => o.copy.nonce = Counted(a)
    BY <1>1, CopyAmounts DEF NonceInv
  <1>7. /\ wallet'[a].nonce <= Counted(a)'
        /\ ~Raced(a) /\ "read" \notin seen' => wallet'[a].nonce = Counted(a)'
        /\ \A o \in ops' : Account(o.part) = a /\ o.copy # NotRead =>
              /\ o.copy.nonce <= Counted(a)'
              /\ ~Raced(a) /\ "read" \notin seen' => o.copy.nonce = Counted(a)'
    <2>1. CASE wallet' = wallet /\ books' = books
      <3>1. Counted(a)' = Counted(a)
        BY <2>1 DEF Counted
      <3> QED BY <1>1, <1>2, <1>6, <2>1, <3>1 DEF NonceInv
    <2>2. CASE wallet'[a] = Changed(op) /\ books' = Entered(op.part) /\ op.part[3] = "add"
      <3>1. books'[a].sent = books[a].sent
        BY <1>0, <1>2, <2>2 DEF Entered, Books
      <3>2. Counted(a)' = Counted(a)
        BY <3>1 DEF Counted
      <3>3. wallet'[a].nonce = op.copy.nonce
        BY <1>0, <1>1, <2>2, Writes
      <3> QED BY <1>1, <1>5, <1>6, <3>2, <3>3
    <2>3. CASE wallet'[a] = Changed(op) /\ books' = Entered(op.part) /\ seen' = seen /\ op.part[3] = "subtract"
      <3>1. books'[a].sent = books[a].sent + 1
        BY <1>0, <1>2, <2>3 DEF Entered, Books
      <3>2. Counted(a)' = Counted(a) + 1
        BY <1>2, <3>1 DEF Counted
      <3>3. wallet'[a].nonce = Mod(op.copy.nonce + MaxUint + 1 + 1)
        BY <1>0, <1>1, <2>3, Writes
      <3>4. wallet'[a].nonce <= op.copy.nonce + 1 /\ wallet'[a].nonce \in Nat
        <4>1. CASE op.copy.nonce < MaxUint
          BY <1>2, <3>3, <4>1, NonceMoves
        <4>2. CASE op.copy.nonce = MaxUint
          <5>1. op.copy.nonce + MaxUint + 1 + 1 \in Nat
            BY <1>2, UintFacts
          <5>2. wallet'[a].nonce \in Uint
            BY <3>3, <5>1, UintFacts
          <5> QED BY <1>2, <4>2, <5>2, UintFacts DEF Uint
        <4> QED BY <1>2, <4>1, <4>2, UintFacts DEF Uint
      <3>5. ASSUME ~Raced(a), "read" \notin seen'
            PROVE  wallet'[a].nonce = Counted(a) + 1 /\ \A o \in ops' : Account(o.part) # a
        <4>1. /\ NonceOf[Tx(op.part)] = wallet[a].nonce /\ op.copy = wallet[a]
              /\ \A other \in ops : Account(other.part) = a => other = op
          BY <1>0, <1>1, <2>3, <3>5, SoleSubtraction DEF Sound
        <4>2. op.copy.nonce < MaxUint
          BY <1>2, <4>1 DEF NoncesFit
        <4>3. wallet'[a].nonce = op.copy.nonce + 1
          BY <1>2, <3>3, <4>2, NonceMoves
        <4> QED BY <1>1, <1>5, <3>5, <4>1, <4>3
      <3> QED BY <1>1, <1>2, <1>5, <1>6, <3>2, <3>4, <3>5
    <2> QED BY <1>1, <1>2, <2>1, <2>2, <2>3 DEF Sides
  <1>8. \A e \in Accounts : e # a => wallet'[e] = wallet[e] /\ books'[e] = books[e] /\ Counted(e)' = Counted(e)
    BY <1>1 DEF Counted
  <1>9. \A o \in ops' : o \in ops /\ Account(o.part) \in Accounts
    BY <1>1, OpType DEF BaseInv
  <1>10. \A e \in Accounts : /\ wallet'[e].nonce <= Counted(e)'
                             /\ ~Raced(e)' /\ "read" \notin seen' => wallet'[e].nonce = Counted(e)'
    BY <1>1, <1>2, <1>3, <1>7, <1>8 DEF NonceInv
  <1>11. ASSUME NEW o \in ops', o.copy # NotRead, NEW e, e = Account(o.part)
         PROVE  /\ o.copy.nonce <= Counted(e)'
                /\ ~Raced(e)' /\ "read" \notin seen' => o.copy.nonce = Counted(e)'
    <2>1. CASE e = a
      BY <1>3, <1>7, <1>11, <2>1
    <2>2. CASE e # a
      BY <1>1, <1>3, <1>8, <1>9, <1>11, <2>2 DEF NonceInv
    <2> QED BY <2>1, <2>2
  <1> QED BY <1>4, <1>10, <1>11 DEF NonceInv

LEMMA NonceStep == NoncesFit /\ BaseInv /\ NonceInv /\ [Next]_vars => NonceInv'
  BY StepKinds, RestsNonce, ExecutesNonce, GetWalletNonce, SetWalletNonce

LEMMA NonceInit == Init => NonceInv
  <1> SUFFICES ASSUME Init PROVE NonceInv
    OBVIOUS
  <1>1. ops = {} /\ LedgerType
    BY BaseInit DEF Init, BaseInv
  <1>2. \A a \in Accounts : wallet[a].nonce = Counted(a)
    BY <1>1, Amounts DEF Init, Counted
  <1> QED BY <1>1, <1>2, CountedType DEF NonceInv

LEMMA ExecutesSpent ==
    ASSUME BaseInv, SpentInv, NEW c \in Callers, AdjustWallets(c)
    PROVE  SpentInv'
  <1>1. PICK b \in Blocks :
           /\ b = [body |-> job[c].body, index |-> job[c].index, before |-> wallet, over |-> job[c].over]
           /\ executed' = Append(executed, b)
           /\ \A p \in Parts' :
                 p \in Parts \/ ( /\ p[1] = Len(executed) + 1 /\ p[2] \in 1..Len(b.body)
                                  /\ Tx(p)' = b.body[p[2]] /\ Before(p)' = wallet[Account(p)']
                                  /\ Running(p)' )
           /\ \A p \in Parts : Running(p)' <=> Running(p)
    BY Executes
  <1>2. wallet' = wallet /\ seen' = seen /\ LedgerType
    BY DEF AdjustWallets, BaseInv, disk
  <1> SUFFICES ASSUME seen = {}, NEW a \in Accounts, ~Raced(a)', NEW p \in Paid(a)'
               PROVE  /\ Running(p)' \/ NonceOf[Tx(p)'] < wallet[a].nonce
                      /\ \A q \in Paid(a)' : p[1] < q[1] => NonceOf[Tx(p)'] < NonceOf[Tx(q)']
    BY <1>2 DEF SpentInv
  <1>3. ~Raced(a) /\ p \in Parts' /\ Account(p)' = a /\ p[3] = "subtract"
    BY <1>1, <1>2, NewBlock DEF Paid, PartsOf
  <1>4. \A q \in Parts : /\ q[1] \in 1..Len(executed) /\ q[1] < Len(executed) + 1 /\ Tx(q)' = Tx(q) /\ Account(q)' = Account(q)
    BY <1>1, <1>2, NewBlock, PartsIff
  <1>5. CASE p \in Parts
    <2>1. p \in Paid(a) /\ Tx(p)' = Tx(p)
      BY <1>3, <1>4, <1>5 DEF Paid, PartsOf
    <2>2. Running(p)' \/ NonceOf[Tx(p)'] < wallet[a].nonce
      BY <1>1, <1>3, <1>5, <2>1 DEF SpentInv
    <2>3. ASSUME NEW q \in Paid(a)', p[1] < q[1] PROVE NonceOf[Tx(p)'] < NonceOf[Tx(q)']
      <3>1. q \in Parts' /\ Account(q)' = a /\ q[3] = "subtract"
        BY DEF Paid, PartsOf
      <3>2. CASE q \in Parts
        <4>1. q \in Paid(a) /\ Tx(q)' = Tx(q)
          BY <1>4, <3>1, <3>2 DEF Paid, PartsOf
        <4> QED BY <1>3, <2>1, <2>3, <4>1 DEF SpentInv
      <3>3. CASE q \notin Parts
        <4>1. q[1] = Len(executed) + 1 /\ q[2] \in 1..Len(b.body) /\ Tx(q)' = b.body[q[2]]
          BY <1>1, <3>1, <3>3
        <4>2. Alone(q)'
          BY <3>1 DEF Raced, Alone, PartsOf
        <4>3. Clear(a, b.over)
          BY <1>1, <1>2, <3>1, <4>1, <4>2, NewAlone
        <4>4. /\ job[c].step = "verify" /\ job[c].checked = Len(job[c].body) /\ a = Sender[job[c].body[q[2]]]
              /\ b.body = job[c].body /\ b.over = job[c].over
          BY <1>1, <3>1, <4>1 DEF AdjustWallets, Accepted, Account
        <4>5. NonceOf[Tx(q)'] = wallet[a].nonce
          BY <4>1, <4>3, <4>4 DEF BaseInv, Verified, Sound
        <4>6. ~Running(p)
          <5>1. p[1] \in job[c].over
            BY <2>1, <4>3, <4>4 DEF Clear, Paid
          <5> QED BY <5>1 DEF Running, BaseInv, OverIsOver
        <4>7. NonceOf[Tx(p)] < wallet[a].nonce
          BY <1>3, <2>1, <4>6 DEF SpentInv
        <4> QED BY <2>1, <4>5, <4>7
      <3> QED BY <3>2, <3>3
    <2> QED BY <2>2, <2>3
  <1>6. CASE p \notin Parts
    <2>1. p[1] = Len(executed) + 1 /\ Running(p)'
      BY <1>1, <1>3, <1>6
    <2>2. \A q \in Paid(a)' : ~(p[1] < q[1])
      <3>1. \A q \in Paid(a)' : q \in Parts'
        BY DEF Paid, PartsOf
      <3>2. Len(executed) + 1 \in Nat
        BY <1>2 DEF LedgerType
      <3> QED BY <1>1, <1>4, <2>1, <3>1, <3>2
    <2> QED BY <2>1, <2>2
  <1> QED BY <1>5, <1>6

LEMMA SetWalletSpent ==
    ASSUME NoncesFit, BaseInv, NonceInv, SpentInv, NEW op \in ops, SetWallet(op)
    PROVE  SpentInv'
  <1>0. PICK a : a = Account(op.part)
    OBVIOUS
  <1>1. /\ op.copy # NotRead /\ ops' = ops \ {op} /\ executed' = executed /\ seen \subseteq seen'
        /\ \A e \in Accounts : e # a => wallet'[e] = wallet[e]
        /\ \/ wallet'[a] = Changed(op) /\ seen' = seen
           \/ seen' # {}
    BY <1>0, SetWalletOp
  <1> SUFFICES ASSUME seen' = {}, NEW e \in Accounts, ~Raced(e), NEW p \in Paid(e)
               PROVE  /\ Running(p)' \/ NonceOf[Tx(p)] < wallet'[e].nonce
                      /\ \A q \in Paid(e) : p[1] < q[1] => NonceOf[Tx(p)] < NonceOf[Tx(q)]
    BY <1>1, SameChain DEF SpentInv
  <1>2. seen = {} /\ wallet'[a] = Changed(op)
    BY <1>1
  <1>3. \A q \in Paid(e) : p[1] < q[1] => NonceOf[Tx(p)] < NonceOf[Tx(q)]
    BY <1>2 DEF SpentInv
  <1>4. Running(p) \/ NonceOf[Tx(p)] < wallet[e].nonce
    BY <1>2 DEF SpentInv
  <1>5. p # op.part /\ Running(p) => Running(p)'
    BY <1>1 DEF Running
  <1>6. CASE e # a
    <2>1. p # op.part
      BY <1>0, <1>6 DEF Paid, PartsOf
    <2> QED BY <1>1, <1>3, <1>4, <1>5, <1>6, <2>1
  <1>7. CASE e = a
    <2>1. /\ Tx(op.part) \in Txs /\ op.part[3] \in Sides /\ op.copy.nonce \in Nat /\ wallet[e].nonce \in Nat
      BY <1>1, CopyAmounts, Amounts DEF BaseInv
    <2>2. CASE op.part[3] = "subtract"
      <3>1. /\ NonceOf[Tx(op.part)] = wallet[e].nonce /\ op.copy = wallet[e]
            /\ \A other \in ops : Account(other.part) = e => other = op
        BY <1>0, <1>1, <1>2, <1>7, <2>2, SoleSubtraction DEF Sound
      <3>2. wallet'[e].nonce = wallet[e].nonce + 1
        <4>1. wallet'[e].nonce = Mod(op.copy.nonce + MaxUint + 1 + 1)
          BY <1>1, <1>2, <1>7, <2>2, Writes
        <4>2. op.copy.nonce < MaxUint
          BY <2>1, <3>1 DEF NoncesFit
        <4> QED BY <2>1, <3>1, <4>1, <4>2, NonceMoves
      <3>3. CASE p = op.part
        BY <1>3, <2>1, <3>1, <3>2, <3>3
      <3>4. CASE p # op.part
        <4>1. ~Running(p)
          BY <3>1, <3>4 DEF Running, Paid, PartsOf
        <4>2. NonceOf[Tx(p)] \in Nat
          <5>1. p \in Parts
            BY DEF Paid, PartsOf
          <5> QED BY <5>1, PartsType, WalletLedgerAssumption, UintFacts DEF BaseInv
        <4> QED BY <1>3, <1>4, <2>1, <3>2, <4>1, <4>2
      <3> QED BY <3>3, <3>4
    <2>3. CASE op.part[3] = "add"
      <3>1. wallet'[e].nonce = op.copy.nonce
        BY <1>1, <1>2, <1>7, <2>3, Writes
      <3>2. op.copy.nonce = wallet[e].nonce
        BY <1>0, <1>1, <1>2, <1>7 DEF NonceInv
      <3>3. p # op.part
        BY <2>3 DEF Paid
      <3> QED BY <1>3, <1>4, <1>5, <3>1, <3>2, <3>3
    <2> QED BY <2>1, <2>2, <2>3 DEF Sides
  <1> QED BY <1>6, <1>7

LEMMA SpentStep == NoncesFit /\ BaseInv /\ NonceInv /\ SpentInv /\ [Next]_vars => SpentInv'
  <1> SUFFICES ASSUME NoncesFit, BaseInv, NonceInv, SpentInv, [Next]_vars PROVE SpentInv'
    OBVIOUS
  <1>1. CASE Rests
    <2>1. executed' = executed /\ wallet' = wallet /\ seen \subseteq seen' /\ (seen' = {} => \A p : Running(p)' <=> Running(p))
      BY <1>1 DEF Rests
    <2> QED BY <2>1, SameChain DEF SpentInv
  <1>2. ASSUME NEW op \in ops, GetWallet(op) PROVE SpentInv'
    <2>1. executed' = executed /\ wallet' = wallet
      BY <1>2 DEF GetWallet, disk, chain
    <2>2. PICK new \in Ops : ops' = (ops \ {op}) \cup {new} /\ new.part = op.part /\ seen \subseteq seen'
      BY <1>2, GetWalletOp
    <2>3. \A p : Running(p)' <=> Running(p)
      BY <2>2 DEF Running
    <2> QED BY <2>1, <2>2, <2>3, SameChain DEF SpentInv
  <1> QED BY <1>1, <1>2, StepKinds, ExecutesSpent, SetWalletSpent

LEMMA SpentInit == Init => SpentInv
  <1> SUFFICES ASSUME Init PROVE SpentInv
    OBVIOUS
  <1>1. \A a : Paid(a) = {}
    BY DEF Init, Paid, PartsOf, Parts
  <1> QED BY <1>1 DEF SpentInv

\* In every reachable state, for any callers, blocks, forks and faults, as long as no nonce
\* comes to the end of 64 bits: an account's nonce never exceeds the number of its payments
\* and is that number, unless a read failed or the account was raced; and without a fault
\* and a race no transaction of an account is executed twice, whatever the minter repeats.
THEOREM NoncesCountTransactions ==
    ASSUME NoncesFit
    PROVE  Spec => []NonceCounts
  <1>1. BaseInv /\ NonceInv /\ SpentInv => NonceCounts
    <2> SUFFICES ASSUME BaseInv, NonceInv, SpentInv, NEW a \in Accounts
                 PROVE  /\ wallet[a].nonce <= Counted(a)
                        /\ "read" \notin seen /\ wallet[a].nonce # Counted(a) => Raced(a)
                        /\ seen = {} /\ (\E p, q \in Paid(a) : p # q /\ Tx(p) = Tx(q)) => Raced(a)
      BY DEF NonceCounts, Counted
    <2>1. ASSUME seen = {}, ~Raced(a), NEW p \in Paid(a), NEW q \in Paid(a), p # q, Tx(p) = Tx(q) PROVE FALSE
      <3>1. /\ p \in PartsOf(a) /\ q \in PartsOf(a) /\ p[3] = "subtract" /\ p[1] \in Nat /\ q[1] \in Nat
            /\ NonceOf[Tx(p)] \in Nat /\ p[1] \in DOMAIN executed
        <4>1. p \in Parts /\ q \in Parts /\ p \in PartsOf(a) /\ q \in PartsOf(a) /\ p[3] = "subtract"
          BY DEF Paid, PartsOf
        <4> QED BY <4>1, PartsType, PartsIff, WalletLedgerAssumption, UintFacts DEF BaseInv
      <3>2. ~(p[1] < q[1]) /\ ~(q[1] < p[1])
        BY <2>1, <3>1 DEF SpentInv
      <3>3. p[1] = q[1]
        BY <3>1, <3>2
      <3>4. p[1] \notin executed[q[1]].over
        BY <3>1, <3>3 DEF BaseInv, OverIsOver
      <3>5. Together(p, q)
        BY <3>1, <3>3, <3>4 DEF Together, Overlap
      <3> QED BY <2>1, <3>1, <3>5 DEF Raced
    <2> QED BY <2>1 DEF NonceInv
  <1> QED BY <1>1, NonceInit, NonceStep, SpentInit, SpentStep, LedgerInvariant, PTL DEF Spec

-------------------------------------------------------------------------------
(***************************************************************************)
(* All of a block, or nothing.                                             *)
(***************************************************************************)

\* No addition passes 2^64.
AdditionsFit ==
    \A op \in ops : op.copy # NotRead /\ op.part[3] = "add" => op.copy.balance + Amount[Tx(op.part)] <= MaxUint

IsLast(p) == \A q \in PartsOf(Account(p)) : q[1] <= p[1]

AtomicInv == "read" \notin seen => \A p \in Parts : ~Contested(Account(p)) /\ IsLast(p) => Whole(p)

LEMMA WholeIff ==
    \A p : Whole(p) <=> \/ wallet[Account(p)] = Moved(Before(p), p)
                        \/ wallet[Account(p)] = Before(p) /\ (seen # {} \/ Running(p))
  BY DEF Whole, Before, Running

LEMMA SameLast == ASSUME executed' = executed PROVE \A p : IsLast(p)' = IsLast(p) /\ \A w : Moved(w, p)' = Moved(w, p)
  BY SameChain DEF IsLast, Moved

LEMMA AtomicInit == Init => AtomicInv
  BY DEF Init, AtomicInv, Parts

LEMMA RestsAtomic ==
    ASSUME Rests, AtomicInv
    PROVE  AtomicInv'
  <1>1. /\ executed' = executed /\ wallet' = wallet /\ seen \subseteq seen'
        /\ seen' = {} => \A p : Running(p)' <=> Running(p)
    BY DEF Rests
  <1> SUFFICES ASSUME "read" \notin seen', NEW p \in Parts, ~Contested(Account(p)), IsLast(p)
               PROVE  Whole(p)'
    BY <1>1, SameChain, SameLast DEF AtomicInv
  <1>2. Whole(p)
    BY <1>1 DEF AtomicInv
  <1>3. Whole(p)' <=> \/ wallet'[Account(p)] = Moved(Before(p), p)
                      \/ wallet'[Account(p)] = Before(p) /\ (seen' # {} \/ Running(p)')
    BY <1>1, SameChain, SameLast DEF Whole, Before, Running
  <1> QED BY <1>1, <1>2, <1>3, WholeIff

LEMMA GetWalletAtomic ==
    ASSUME BaseInv, AtomicInv, NEW op \in ops, GetWallet(op)
    PROVE  AtomicInv'
  <1>1. executed' = executed /\ wallet' = wallet
    BY DEF GetWallet, disk, chain
  <1>2. PICK new \in Ops : ops' = (ops \ {op}) \cup {new} /\ new.part = op.part /\ seen \subseteq seen'
    BY GetWalletOp
  <1>3. \A p : Running(p)' <=> Running(p)
    BY <1>2 DEF Running
  <1> SUFFICES ASSUME "read" \notin seen', NEW p \in Parts, ~Contested(Account(p)), IsLast(p)
               PROVE  Whole(p)'
    BY <1>1, SameChain, SameLast DEF AtomicInv
  <1>4. Whole(p)
    BY <1>2 DEF AtomicInv
  <1>5. Whole(p)' <=> \/ wallet'[Account(p)] = Moved(Before(p), p)
                      \/ wallet'[Account(p)] = Before(p) /\ (seen' # {} \/ Running(p)')
    BY <1>1, SameChain, SameLast DEF Whole, Before, Running
  <1> QED BY <1>1, <1>2, <1>3, <1>4, <1>5, WholeIff

LEMMA ExecutesAtomic ==
    ASSUME BaseInv, AtomicInv, NEW c \in Callers, AdjustWallets(c)
    PROVE  AtomicInv'
  <1>1. PICK b \in Blocks :
           /\ executed' = Append(executed, b)
           /\ \A p \in Parts' :
                 p \in Parts \/ (p[1] = Len(executed) + 1 /\ Before(p)' = wallet[Account(p)'] /\ Running(p)')
           /\ \A p \in Parts : Running(p)' <=> Running(p)
    BY Executes
  <1>2. wallet' = wallet /\ seen' = seen /\ LedgerType
    BY DEF AdjustWallets, BaseInv, disk
  <1> SUFFICES ASSUME "read" \notin seen, NEW p \in Parts', ~Contested(Account(p))', IsLast(p)'
               PROVE  Whole(p)'
    BY <1>2 DEF AtomicInv
  <1>3. Whole(p)' <=> \/ wallet[Account(p)'] = Moved(Before(p), p)'
                      \/ wallet[Account(p)'] = Before(p)' /\ (seen # {} \/ Running(p)')
    BY <1>2 DEF Whole, Before, Running
  <1>4. CASE p \in Parts
    <2>1. /\ Account(p)' = Account(p) /\ Before(p)' = Before(p) /\ Tx(p)' = Tx(p)
          /\ ~Contested(Account(p))
          /\ PartsOf(Account(p)) \subseteq PartsOf(Account(p))'
      BY <1>1, <1>2, <1>4, NewBlock
    <2>2. IsLast(p)
      BY <2>1 DEF IsLast
    <2>3. Whole(p)
      BY <1>4, <2>1, <2>2 DEF AtomicInv
    <2>4. Moved(Before(p), p)' = Moved(Before(p), p)
      BY <2>1 DEF Moved
    <2> QED BY <1>1, <1>3, <1>4, <2>1, <2>3, <2>4, WholeIff
  <1>5. CASE p \notin Parts
    BY <1>1, <1>3, <1>5
  <1> QED BY <1>4, <1>5

\* A change without overflow is the one that the transaction means.
LEMMA ChangeIsMove ==
    ASSUME NoncesFit, AdditionsFit, BaseInv, NEW op \in ops, op.copy # NotRead, "read" \notin seen, Alone(op.part)
    PROVE  Changed(op) = Moved(Before(op.part), op.part)
  <1>1. op.copy = Before(op.part)
    BY DEF BaseInv, CopiesFit
  <1>2. /\ op.copy.balance \in Nat /\ op.copy.nonce \in Nat /\ Tx(op.part) \in Txs
        /\ Amount[Tx(op.part)] \in Nat /\ op.part[3] \in Sides /\ op.part \in Parts
    BY CopyAmounts DEF BaseInv, OpsFit
  <1>3. CASE op.part[3] = "add"
    <2>1. op.copy.balance + Amount[Tx(op.part)] <= MaxUint /\ op.copy.balance + Amount[Tx(op.part)] \in Nat
      BY <1>2, <1>3 DEF AdditionsFit
    <2>2. Mod(op.copy.balance + Amount[Tx(op.part)]) = op.copy.balance + Amount[Tx(op.part)]
      BY <2>1, UintFacts
    <2> QED BY <1>1, <1>3, <2>2, Writes DEF Moved
  <1>4. CASE op.part[3] = "subtract"
    <2>1. Amount[Tx(op.part)] <= op.copy.balance /\ NonceOf[Tx(op.part)] = op.copy.nonce
      BY <1>1, <1>2, <1>4 DEF BaseInv, VerifiedParts, Sound
    <2>2. Mod(op.copy.nonce + MaxUint + 1 + 1) = op.copy.nonce + 1
      BY <1>2, <2>1, NonceMoves DEF NoncesFit
    <2>3. op.copy.balance >= Amount[Tx(op.part)]
      BY <1>2, <2>1
    <2> QED BY <1>1, <1>4, <2>2, <2>3, Writes DEF Moved
  <1> QED BY <1>2, <1>3, <1>4 DEF Sides

LEMMA SetWalletAtomic ==
    ASSUME NoncesFit, AdditionsFit, BaseInv, AtomicInv, NEW op \in ops, SetWallet(op)
    PROVE  AtomicInv'
  <1>0. PICK a : a = Account(op.part)
    OBVIOUS
  <1>1. /\ op.copy # NotRead /\ ops' = ops \ {op} /\ executed' = executed /\ seen \subseteq seen'
        /\ \A e \in Accounts : e # a => wallet'[e] = wallet[e]
        /\ \/ wallet'[a] = Changed(op)
           \/ wallet' = wallet /\ seen' # {}
    BY <1>0, SetWalletOp
  <1> SUFFICES ASSUME "read" \notin seen', NEW p \in Parts, ~Contested(Account(p)), IsLast(p)
               PROVE  Whole(p)'
    BY <1>1, SameChain, SameLast DEF AtomicInv
  <1>2. "read" \notin seen /\ Whole(p) /\ Account(p) \in Accounts
    BY <1>1, PartsType DEF AtomicInv, BaseInv
  <1>3. Whole(p)' <=> \/ wallet'[Account(p)] = Moved(Before(p), p)
                      \/ wallet'[Account(p)] = Before(p) /\ (seen' # {} \/ Running(p)')
    BY <1>1, SameChain, SameLast DEF Whole, Before, Running
  <1>4. p # op.part /\ Running(p) => Running(p)'
    BY <1>1 DEF Running
  <1>5. CASE Account(p) # a
    <2>1. p # op.part /\ wallet'[Account(p)] = wallet[Account(p)]
      BY <1>0, <1>1, <1>2, <1>5
    <2> QED BY <1>1, <1>2, <1>3, <1>4, <2>1, WholeIff
  <1>6. CASE Account(p) = a
    <2>1. op.part \in Parts /\ Alone(op.part) /\ p \in PartsOf(a) /\ op.part \in PartsOf(a)
      BY <1>0, <1>6, AloneRaced DEF BaseInv, OpsFit, PartsOf
    <2>2. p = op.part
      <3>1. p[1] >= op.part[1] /\ p[1] \in Nat /\ op.part[1] \in Nat
        BY <1>6, <2>1, PartsType DEF IsLast, BaseInv
      <3> QED BY <1>0, <2>1, <3>1, AloneOver DEF BaseInv
    <2>3. CASE wallet'[a] = Changed(op)
      BY <1>1, <1>2, <1>3, <1>6, <2>1, <2>2, <2>3, ChangeIsMove
    <2>4. CASE wallet' = wallet /\ seen' # {}
      BY <1>0, <1>2, <1>3, <2>1, <2>2, <2>4, AloneStill DEF BaseInv
    <2> QED BY <1>1, <2>3, <2>4
  <1> QED BY <1>5, <1>6

LEMMA AtomicStep == NoncesFit /\ AdditionsFit /\ BaseInv /\ AtomicInv /\ [Next]_vars => AtomicInv'
  BY StepKinds, RestsAtomic, ExecutesAtomic, GetWalletAtomic, SetWalletAtomic

\* In every reachable state, for any callers, blocks, forks and faults other than failed
\* reads, as long as nonces and additions stay below 2^64: an account that is not contested
\* has, of the last block it takes part in, the effect or not, and has it once the
\* operation is over and nothing failed.
THEOREM BlocksAreAtomic ==
    ASSUME NoncesFit
    PROVE  Spec /\ []AdditionsFit => []AccountAtomic
  <1>1. AtomicInv => AccountAtomic
    BY DEF AtomicInv, AccountAtomic, IsLast
  <1>2. BaseInv /\ AtomicInv /\ AdditionsFit /\ [Next]_vars => AtomicInv'
    BY AtomicStep
  <1> QED BY <1>1, <1>2, AtomicInit, LedgerInvariant, PTL DEF Spec

-------------------------------------------------------------------------------
(***************************************************************************)
(* Forks.  An account of which nothing was rolled back is given to the     *)
(* fork by the first operation that comes after (HandedInv); one of which  *)
(* one part was rolled back is given by createFork (RestoredInv), out of   *)
(* the copies it holds (MakingInv).                                        *)
(***************************************************************************)

ForkStates == [base : Nat, latest : Nat, over : SUBSET Nat, opened : Nat, ready : Nat]

\* What came of an account between two blocks was over before the first: nothing changed.
BeforeStill ==
    \A n, m \in DOMAIN executed, a \in Accounts :
        n <= m /\ (\A p \in PartsOf(a) : p[1] < m => p[1] \in executed[n].over) =>
            executed[m].before[a] = executed[n].before[a]

\* The block whose place the fork takes, and the wallets before it.
BaseOf(f)        == files[forkAt[f].base]
BaseWallet(f, a) == executed[BaseOf(f)].before[a]

Early(f, p) == p[1] \in executed[BaseOf(f)].over

\* The parts that createFork rolls back, and those that come after it.
UndoneOf(f) == {files[i] : i \in forkAt[f].base..forkAt[f].latest} \cap forkAt[f].over
Back(f, a)  == {p \in PartsOf(a) : p[1] \in UndoneOf(f)}
Late(f, a)  == {p \in PartsOf(a) : p[1] > forkAt[f].opened}

Handed(f, a)   == \A p \in PartsOf(a) : Early(f, p) \/ p \in Late(f, a)
Restored(f, a) == \A p \in PartsOf(a) : \/ Early(f, p) \/ p \in Back(f, a)
                                        \/ forkAt[f].ready # 0 /\ p[1] > forkAt[f].ready
Once(S)    == \A p, q \in S : p = q
Good(f, a) == ~Contested(a) /\ Restored(f, a) /\ Once(Back(f, a))

Puts(f, a) == {put \in pending : put[1] = f /\ put[2] = a}

\* The fork has the wallet, or is to get it, or the one part since has not come to give it.
Given(f, a) ==
    \/ forkWallet[f][a] = BaseWallet(f, a) /\ Puts(f, a) = {}
    \/ forkWallet[f][a] = NoWallet /\ Puts(f, a) = {<<f, a, BaseWallet(f, a)>>}
    \/ /\ forkWallet[f][a] = NoWallet /\ Puts(f, a) = {}
       /\ \A p \in Late(f, a) : \E op \in ops : op.part = p /\ (op.copy = NotRead \/ f \in op.todo)

HandedInv ==
    \A f \in live, a \in Accounts : ~Contested(a) /\ Handed(f, a) /\ Once(Late(f, a)) => Given(f, a)

Makes(c, f) == job[c].step \in MakingSteps /\ job[c].target = f

\* The roll back of c has taken p back.
Done(c, p) ==
    \/ \E i \in DOMAIN files : i > job[c].cursor /\ files[i] = p[1]
    \/ /\ job[c].cursor \in DOMAIN files /\ files[job[c].cursor] = p[1]
       /\ p[2] < job[c].next \/ (p[2] = job[c].next /\ p[3] = "subtract" /\ job[c].step = "paid")

RestoredInv ==
    \A f \in live, a \in Accounts : Good(f, a) => \A p \in Back(f, a) :
        /\ Puts(f, a) = {}
        /\ (\A c \in Callers : Makes(c, f) => Done(c, p)) => forkWallet[f][a] = BaseWallet(f, a)

\* The part that the roll back is at.
UndoPart(c, side) == <<files[job[c].cursor], job[c].next, side>>

MakingInv ==
    \A c \in Callers : \A f \in Forks, t \in Txs :
        job[c].step \in {"read", "pay", "paid"} /\ f = job[c].target /\ t = Undo(c) =>
            /\ job[c].step = "read" /\ Good(f, Sender[t]) =>
                  job[c].from = Moved(BaseWallet(f, Sender[t]), UndoPart(c, "subtract"))
            /\ job[c].step = "pay" /\ Good(f, Sender[t]) => job[c].from = BaseWallet(f, Sender[t])
            /\ job[c].step \in {"pay", "paid"} /\ Good(f, Recipient[t]) =>
                  job[c].to = BaseWallet(f, Recipient[t])

\* The course of the forks: types; what operations and puts are about; a fork's state of
\* main; and the callers that make forks, no two the same.
ForkType ==
    /\ forkAt \in [Forks -> ForkStates]
    /\ forkWallet \in [Forks -> [Accounts -> Wallet \cup {NoWallet}]]
    /\ pending \subseteq Forks \X Accounts \X Wallet

HandCourse ==
    /\ \A op \in ops : op.todo \subseteq live /\ (op.todo # {} => op.copy # NotRead)
    /\ \A put \in pending : put[1] \in live
    /\ \A f \in Forks \ live, a \in Accounts : forkWallet[f][a] = NoWallet

StateCourse ==
    \A f \in live :
        /\ forkAt[f].base \in DOMAIN files /\ forkAt[f].latest <= Len(files)
        /\ forkAt[f].opened <= Len(executed) /\ forkAt[f].ready <= Len(executed)
        /\ forkAt[f].over \subseteq DOMAIN executed
        /\ \A i \in DOMAIN files : i <= forkAt[f].latest => files[i] <= forkAt[f].opened
        /\ \A op \in ops : op.part[1] \notin forkAt[f].over

MakersCourse ==
    /\ \A c \in Callers : job[c].step \in MakingSteps =>
          /\ job[c].target \in live /\ forkAt[job[c].target].ready = 0
          /\ forkAt[job[c].target].base = job[c].index /\ job[c].cursor <= forkAt[job[c].target].latest
    /\ \A c, d \in Callers : \A f \in Forks : Makes(c, f) /\ Makes(d, f) => c = d

ForkCourse == ForkType /\ HandCourse /\ StateCourse /\ MakersCourse

ForkInv == BeforeStill /\ (seen = {} => ForkCourse /\ HandedInv /\ RestoredInv /\ MakingInv)

LEMMA BaseWalletType ==
    ASSUME BaseInv, ForkCourse, NEW f \in live, NEW a \in Accounts
    PROVE  /\ BaseWallet(f, a) \in Wallet /\ BaseWallet(f, a) # NoWallet
           /\ BaseOf(f) \in DOMAIN executed /\ BaseOf(f) \in Nat
  <1>1. BaseOf(f) \in DOMAIN executed /\ BaseOf(f) \in Nat
    BY DEF BaseOf, ForkCourse, StateCourse, BaseInv, FilesFit, LedgerType
  <1>2. executed[BaseOf(f)] \in Blocks
    BY <1>1 DEF BaseInv, LedgerType
  <1> QED BY <1>1, <1>2, WalletLedgerAssumption DEF BaseWallet, Blocks, Wallets

LEMMA SameBase ==
    ASSUME executed' = executed, files' = files, NEW f, forkAt'[f].base = forkAt[f].base
    PROVE  /\ \A a : BaseWallet(f, a)' = BaseWallet(f, a)
           /\ \A p : Early(f, p)' = Early(f, p)
  BY DEF BaseWallet, BaseOf, Early

LEMMA SameLate ==
    ASSUME executed' = executed, files' = files, NEW f, forkAt'[f].base = forkAt[f].base,
           forkAt'[f].opened = forkAt[f].opened
    PROVE  \A a : Late(f, a)' = Late(f, a) /\ Handed(f, a)' = Handed(f, a)
  BY SameBase, SameChain DEF Late, Handed

LEMMA SameBack ==
    ASSUME executed' = executed, files' = files, NEW f, forkAt'[f].base = forkAt[f].base,
           forkAt'[f].latest = forkAt[f].latest, forkAt'[f].over = forkAt[f].over
    PROVE  /\ \A a : Back(f, a)' = Back(f, a)
           /\ forkAt'[f].ready = forkAt[f].ready => \A a : Restored(f, a)' = Restored(f, a) /\ Good(f, a)' = Good(f, a)
  <1>1. UndoneOf(f)' = UndoneOf(f)
    BY DEF UndoneOf
  <1>2. \A a : Back(f, a)' = Back(f, a) /\ Contested(a)' = Contested(a)
    BY <1>1, SameChain DEF Back
  <1> QED BY <1>2, SameBase, SameChain DEF Restored, Good, Once

\* The wallet of an account that only the part p, still running, has come to since the base.
LEMMA BaseStill ==
    ASSUME BaseInv, ForkCourse, NEW f \in live, NEW a \in Accounts,
           \A p \in PartsOf(a) : Early(f, p) \/ Running(p)
    PROVE  wallet[a] = BaseWallet(f, a)
  BY BaseWalletType DEF BaseInv, Still, Early, BaseWallet

\* The part that a roll back is at.
LEMMA UndoPartFacts ==
    ASSUME BaseInv, ForkCourse, NEW c \in Callers,
           job[c].step \in {"read", "pay", "paid"} \/ (job[c].step = "undo" /\ Undoing(c)),
           NEW side \in Sides, NEW f, f = job[c].target, NEW p, p = UndoPart(c, side), NEW a, a = Account(p)
    PROVE  /\ f \in live /\ p \in PartsOf(a) /\ p \in Parts /\ a \in Accounts
           /\ Tx(p) = Undo(c) /\ a = IF side = "subtract" THEN Sender[Undo(c)] ELSE Recipient[Undo(c)]
           /\ ~Handed(f, a) /\ BaseOf(f) <= p[1] /\ p[1] \in Nat /\ p[1] \in DOMAIN executed
           /\ Good(f, a) => /\ Back(f, a) = {p} /\ ~Running(p)
                            /\ \A q \in PartsOf(a) : q = p \/ (Early(f, q) /\ q[1] < p[1])
  <1>1. /\ job[c] \in Jobs /\ f \in Forks /\ job[c].index \in DOMAIN files
        /\ job[c].cursor \in DOMAIN files /\ job[c].cursor \in Nat /\ job[c].cursor >= job[c].index
        /\ p[1] \in DOMAIN executed /\ p[1] \in Nat /\ p = <<p[1], p[2], p[3]>>
        /\ p[1] = files[job[c].cursor] /\ p[2] = job[c].next /\ p[3] = side
        /\ p[2] \in DOMAIN executed[p[1]].body
    BY UndoType DEF BaseInv, UndoPart, Undone
  <1>2. p \in Parts
    BY <1>1, PartsIff
  <1>3. /\ f \in live /\ forkAt[f].ready = 0 /\ forkAt[f].base = job[c].index /\ job[c].cursor <= forkAt[f].latest
        /\ forkAt[f] \in ForkStates
    BY <1>1 DEF ForkCourse, ForkType, MakersCourse, MakingSteps, BaseInv, LedgerType
  <1>4. Tx(p) = Undo(c) /\ p \in PartsOf(a) /\ a \in Accounts
    BY <1>1, <1>2, PartsType DEF Tx, Undo, Undone, BaseInv
  <1>5. a = IF side = "subtract" THEN Sender[Undo(c)] ELSE Recipient[Undo(c)]
    BY <1>1, <1>4 DEF Account
  <1>6. BaseOf(f) <= p[1] /\ BaseOf(f) \in DOMAIN executed /\ BaseOf(f) \in Nat
    <2>1. BaseOf(f) \in DOMAIN executed /\ BaseOf(f) \in Nat
      BY <1>3, <1>4, BaseWalletType
    <2>2. job[c].index = job[c].cursor \/ job[c].index < job[c].cursor
      BY <1>1 DEF BaseInv, LedgerType
    <2> QED BY <1>1, <1>3, <2>1, <2>2 DEF BaseOf, BaseInv, FilesFit
  <1>7. ~Early(f, p)
    BY <1>1, <1>6 DEF Early, BaseInv, OverIsOver
  <1>8. p[1] <= forkAt[f].opened /\ forkAt[f].opened \in Nat
    BY <1>1, <1>3 DEF ForkCourse, StateCourse, ForkStates
  <1>9. ~Handed(f, a)
    BY <1>1, <1>4, <1>7, <1>8 DEF Handed, Late
  <1>10. ASSUME Good(f, a)
         PROVE  /\ Back(f, a) = {p} /\ ~Running(p)
                /\ \A q \in PartsOf(a) : q = p \/ (Early(f, q) /\ q[1] < p[1])
    <2>1. p \in Back(f, a) /\ Once(Back(f, a))
      BY <1>3, <1>4, <1>7, <1>10 DEF Good, Restored
    <2>2. Back(f, a) = {p}
      BY <2>1 DEF Once
    <2>3. ~Running(p)
      BY <1>3, <2>1 DEF Back, UndoneOf, Running, ForkCourse, StateCourse
    <2>4. ASSUME NEW q \in PartsOf(a), q # p PROVE Early(f, q) /\ q[1] < p[1]
      <3>1. Early(f, q)
        BY <1>3, <1>10, <2>2, <2>4 DEF Good, Restored
      <3>2. q[1] < BaseOf(f) /\ q[1] \in Nat
        <4>1. q[1] \in DOMAIN executed
          BY PartsIff DEF PartsOf
        <4> QED BY <1>6, <3>1, <4>1 DEF Early, BaseInv, OverIsOver, LedgerType
      <3> QED BY <1>1, <1>6, <3>1, <3>2
    <2> QED BY <2>2, <2>3, <2>4
  <1> QED BY <1>1, <1>2, <1>3, <1>4, <1>5, <1>6, <1>9, <1>10

\* What createFork reads of an account that is good: the wallet with just that part.
LEMMA UndoWallet ==
    ASSUME BaseInv, ForkCourse, BeforeStill, AtomicInv, seen = {}, NEW c \in Callers,
           job[c].step \in {"read", "pay", "paid"} \/ (job[c].step = "undo" /\ Undoing(c)),
           NEW side \in Sides, NEW f, f = job[c].target, NEW p, p = UndoPart(c, side), NEW a, a = Account(p), Good(f, a)
    PROVE  /\ wallet[a] = Moved(BaseWallet(f, a), p) /\ BaseWallet(f, a) \in Wallet
           /\ side = "subtract" => Amount[Undo(c)] <= BaseWallet(f, a).balance
  <1>1. /\ f \in live /\ p \in PartsOf(a) /\ p \in Parts /\ a \in Accounts /\ Tx(p) = Undo(c)
        /\ BaseOf(f) <= p[1] /\ p[1] \in Nat /\ p[1] \in DOMAIN executed /\ ~Running(p)
        /\ \A q \in PartsOf(a) : q = p \/ (Early(f, q) /\ q[1] < p[1])
    BY UndoPartFacts
  <1>2. BaseOf(f) \in DOMAIN executed /\ BaseWallet(f, a) \in Wallet
    BY <1>1, BaseWalletType
  <1>3. Before(p) = BaseWallet(f, a)
    <2>1. \A q \in PartsOf(a) : q[1] < p[1] => q[1] \in executed[BaseOf(f)].over
      BY <1>1 DEF Early
    <2>2. executed[p[1]].before[a] = executed[BaseOf(f)].before[a]
      BY <1>1, <1>2, <2>1 DEF BeforeStill
    <2> QED BY <2>2 DEF Before, BaseWallet
  <1>4. ~Contested(Account(p)) /\ IsLast(p)
    <2>1. \A q \in PartsOf(a) : q[1] <= p[1]
      <3>1. \A q \in PartsOf(a) : q[1] \in Nat
        BY PartsType DEF PartsOf, BaseInv
      <3> QED BY <1>1, <3>1
    <2> QED BY <2>1 DEF IsLast, Good
  <1>5. Whole(p)
    BY <1>1, <1>4 DEF AtomicInv
  <1>6. wallet[a] = Moved(BaseWallet(f, a), p)
    BY <1>1, <1>3, <1>5, WholeIff
  <1>7. ASSUME side = "subtract" PROVE Amount[Undo(c)] <= BaseWallet(f, a).balance
    <2>1. p[3] = "subtract" /\ Alone(p)
      BY <1>1, <1>4, <1>7, AloneRaced DEF UndoPart
    <2> QED BY <1>1, <1>3, <2>1 DEF BaseInv, VerifiedParts, Sound
  <1> QED BY <1>2, <1>6, <1>7

-------------------------------------------------------------------------------
\* Steps that leave alone the forks, what they are given and who makes them.
Outside ==
    /\ UNCHANGED <<wallet, forkWallet, pending, live, ops, chain, forkAt>>
    /\ \A c \in Callers : \/ job'[c] = job[c]
                          \/ job[c].step \notin MakingSteps /\ job'[c].step \notin MakingSteps

LEMMA ForkSteps ==
    ASSUME BaseInv, [Next]_vars, seen' = {}
    PROVE  \/ \E c \in Callers : AdjustWallets(c) \/ OpenFork(c) \/ ReadSender(c) \/ ReadRecipient(c)
                                 \/ PutSender(c) \/ PutRecipient(c) \/ NextBlock(c) \/ ForkReady(c)
           \/ \E op \in ops : GetWallet(op) \/ SetWallet(op) \/ \E f \in Forks : CheckFork(op, f)
           \/ \E put \in pending : ForkPut(put)
           \/ Outside
  <1>1. job \in [Callers -> Jobs] /\ Idle.step \notin MakingSteps
    BY IdleType DEF BaseInv, LedgerType, MakingSteps
  <1>2. ASSUME NEW c \in Callers, NEW j, job' = [job EXCEPT ![c] = j], job[c].step \notin MakingSteps,
               j.step \notin MakingSteps, UNCHANGED <<wallet, forkWallet, pending, live, ops, chain, forkAt>>
        PROVE  Outside
    BY <1>1, <1>2 DEF Outside
  <1>3. ASSUME NEW c \in Callers, NEW place, NEW b, VerifyBlock(c, b, place) PROVE Outside
    <2> DEFINE j == [Idle EXCEPT !.step = "verify", !.body = b, !.over = Over, !.target = place[1], !.index = place[2]]
    <2>1. j.step = "verify"
      BY DEF Idle
    <2>2. job' = [job EXCEPT ![c] = j]
      BY <1>3 DEF VerifyBlock
    <2> HIDE DEF j
    <2> QED BY <1>2, <1>3, <2>1, <2>2 DEF VerifyBlock, disk, history, MakingSteps
  <1>4. ASSUME NEW c \in Callers, MintBlock(c) PROVE Outside
    BY <1>3, <1>4 DEF MintBlock
  <1>5. ASSUME NEW c \in Callers, VerifyTransaction(c) PROVE Outside
    <2> DEFINE j == [job[c] EXCEPT !.checked = @ + 1]
    <2>1. job[c].step = "verify" /\ j.step = "verify"
      BY <1>1, <1>5 DEF VerifyTransaction, Jobs
    <2>2. job' = [job EXCEPT ![c] = j] \/ job' = [job EXCEPT ![c] = Idle]
      BY <1>5 DEF VerifyTransaction
    <2> HIDE DEF j
    <2> QED BY <1>1, <1>2, <1>5, <2>1, <2>2 DEF VerifyTransaction, disk, history, MakingSteps
  <1>6. ASSUME NEW c \in Callers, BeginFork(c) PROVE Outside
    <2> DEFINE j == [Idle EXCEPT !.step = "open", !.target = job[c].target, !.index = job[c].index,
                                 !.cursor = LatestIndex, !.over = Over]
    <2>1. j.step = "open"
      BY DEF Idle
    <2>2. job' = [job EXCEPT ![c] = j]
      BY <1>6 DEF BeginFork
    <2> HIDE DEF j
    <2> QED BY <1>2, <1>6, <2>1, <2>2 DEF BeginFork, Accepted, disk, history, MakingSteps
  <1>7. ASSUME NEW c \in Callers, Adjusted(c) \/ OpenRefused(c) PROVE Outside
    BY <1>1, <1>2, <1>7 DEF Adjusted, OpenRefused, disk, history, MakingSteps
  <1>8. ASSUME Crash PROVE FALSE
    BY <1>8 DEF Crash
  <1>9. ASSUME NEW t \in Offers, NewTransaction(t) PROVE Outside
    BY <1>9 DEF NewTransaction, Outside, disk, history
  <1>10. ASSUME vars' = vars PROVE Outside
    BY <1>10 DEF vars, Outside, disk, chain, history
  <1> QED BY <1>3, <1>4, <1>5, <1>6, <1>7, <1>8, <1>9, <1>10 DEF Next

LEMMA BeforeStillStep == BaseInv /\ BeforeStill /\ [Next]_vars => BeforeStill'
  <1> SUFFICES ASSUME BaseInv, BeforeStill, [Next]_vars PROVE BeforeStill'
    OBVIOUS
  <1>1. CASE executed' = executed
    BY <1>1, SameChain DEF BeforeStill
  <1>2. ASSUME NEW c \in Callers, AdjustWallets(c) PROVE BeforeStill'
    <2>1. PICK b \in Blocks :
             /\ b = [body |-> job[c].body, index |-> job[c].index, before |-> wallet, over |-> job[c].over]
             /\ executed' = Append(executed, b)
      BY <1>2, Executes
    <2>2. /\ Len(executed) \in Nat /\ DOMAIN executed = 1..Len(executed) /\ DOMAIN executed' = 1..(Len(executed) + 1)
          /\ executed'[Len(executed) + 1] = b /\ \A n \in DOMAIN executed : executed'[n] = executed[n]
          /\ \A a : PartsOf(a) \subseteq PartsOf(a)'
      BY <2>1, NewBlock DEF BaseInv
    <2> SUFFICES ASSUME NEW n \in DOMAIN executed', NEW m \in DOMAIN executed', NEW a \in Accounts, n <= m,
                        \A p \in PartsOf(a)' : p[1] < m => p[1] \in executed'[n].over
                 PROVE  executed'[m].before[a] = executed'[n].before[a]
      BY DEF BeforeStill
    <2>3. CASE m \in DOMAIN executed
      <3>1. n \in DOMAIN executed
        BY <2>2, <2>3
      <3> QED BY <2>2, <2>3, <3>1 DEF BeforeStill
    <2>4. CASE m = Len(executed) + 1 /\ n # m
      <3>1. n \in DOMAIN executed /\ executed'[n] = executed[n]
        BY <2>2, <2>4
      <3>2. \A p \in PartsOf(a) : p[1] \in executed[n].over
        <4>1. \A p \in PartsOf(a) : p[1] \in 1..Len(executed)
          BY PartsType DEF PartsOf, BaseInv
        <4> QED BY <2>2, <2>4, <3>1, <4>1
      <3>3. wallet[a] = executed[n].before[a]
        BY <3>1, <3>2 DEF BaseInv, Still
      <3> QED BY <2>1, <2>2, <2>4, <3>1, <3>3
    <2> QED BY <2>2, <2>3, <2>4
  <1>3. ASSUME NEW op \in ops, GetWallet(op) \/ SetWallet(op) PROVE executed' = executed
    BY <1>3 DEF GetWallet, SetWallet, chain
  <1> QED BY <1>1, <1>2, <1>3, StepKinds DEF Rests

\* Forks whose part of the state stays as it is.
LEMMA SameGiven ==
    ASSUME executed' = executed, files' = files, NEW f, forkAt'[f].base = forkAt[f].base,
           forkAt'[f].opened = forkAt[f].opened, NEW a, forkWallet'[f][a] = forkWallet[f][a], Puts(f, a)' = Puts(f, a),
           \A p \in Late(f, a), op \in ops :
               op.part = p /\ (op.copy = NotRead \/ f \in op.todo) =>
                   \E o \in ops' : o.part = p /\ (o.copy = NotRead \/ f \in o.todo),
           ~Contested(a) /\ Handed(f, a) /\ Once(Late(f, a)) => Given(f, a)
    PROVE  (~Contested(a) /\ Handed(f, a) /\ Once(Late(f, a)) => Given(f, a))'
  <1>1. Late(f, a)' = Late(f, a) /\ Handed(f, a)' = Handed(f, a) /\ BaseWallet(f, a)' = BaseWallet(f, a)
        /\ Contested(a)' = Contested(a)
    BY SameLate, SameBase, SameChain
  <1> SUFFICES ASSUME ~Contested(a), Handed(f, a), Once(Late(f, a))
               PROVE  Given(f, a)'
    BY <1>1 DEF Once
  <1> QED BY <1>1 DEF Given

LEMMA OutsideFork ==
    ASSUME BaseInv, ForkCourse, HandedInv, RestoredInv, MakingInv, Outside
    PROVE  ForkCourse' /\ HandedInv' /\ RestoredInv' /\ MakingInv'
  <1>1. /\ executed' = executed /\ files' = files /\ forkAt' = forkAt /\ forkWallet' = forkWallet
        /\ pending' = pending /\ live' = live /\ ops' = ops
        /\ \A c \in Callers : job[c].step \in MakingSteps \/ job'[c].step \in MakingSteps => job'[c] = job[c]
    BY DEF Outside, chain
  <1>2. \A f : /\ \A a : Puts(f, a)' = Puts(f, a) /\ Good(f, a)' = Good(f, a) /\ Back(f, a)' = Back(f, a)
                         /\ BaseWallet(f, a)' = BaseWallet(f, a)
    BY <1>1, SameBack, SameBase DEF Puts
  <1>3. ForkCourse'
    <2>1. ForkType' /\ HandCourse' /\ StateCourse'
      BY <1>1 DEF ForkCourse, ForkType, HandCourse, StateCourse
    <2>2. \A c \in Callers : \A f : Makes(c, f)' <=> Makes(c, f)
      BY <1>1 DEF Makes
    <2>3. MakersCourse'
      BY <1>1, <2>2 DEF ForkCourse, MakersCourse
    <2> QED BY <2>1, <2>3 DEF ForkCourse
  <1>4. HandedInv'
    BY <1>1, <1>2, SameGiven DEF HandedInv
  <1>5. RestoredInv'
    <2>1. \A c \in Callers : \A f : Makes(c, f)' <=> Makes(c, f)
      BY <1>1 DEF Makes
    <2>2. \A c \in Callers : \A f, p : Makes(c, f) => (Done(c, p)' <=> Done(c, p))
      BY <1>1 DEF Done, Makes
    <2> QED BY <1>1, <1>2, <2>1, <2>2 DEF RestoredInv
  <1>6. MakingInv'
    <2>1. \A c \in Callers : job'[c].step \in {"read", "pay", "paid"} =>
             job'[c] = job[c] /\ Undo(c)' = Undo(c) /\ \A s : UndoPart(c, s)' = UndoPart(c, s)
      BY <1>1 DEF Undo, Undone, UndoPart, MakingSteps
    <2>2. \A w, p : Moved(w, p)' = Moved(w, p)
      BY <1>1, SameLast
    <2> QED BY <1>1, <1>2, <2>1, <2>2 DEF MakingInv
  <1> QED BY <1>3, <1>4, <1>5, <1>6

\* A caller that makes a fork goes on making it.
LEMMA MakerStep ==
    ASSUME BaseInv, ForkCourse, HandedInv, RestoredInv, MakingInv,
           NEW c \in Callers, NEW f, f = job[c].target, job[c].step \in MakingSteps,
           NEW j \in Jobs, job' = [job EXCEPT ![c] = j], j.step \in MakingSteps, j.target = f,
           j.index = job[c].index, j.cursor <= job[c].cursor,
           UNCHANGED <<ops, pending, live, chain, forkAt>>,
           forkWallet' \in [Forks -> [Accounts -> Wallet \cup {NoWallet}]],
           \A g \in Forks, a \in Accounts : g # f \/ Handed(f, a) => forkWallet'[g][a] = forkWallet[g][a],
           \A a \in Accounts : Good(f, a) => \A p \in Back(f, a) :
               Done(c, p)' => \/ Done(c, p) /\ forkWallet'[f][a] = forkWallet[f][a]
                              \/ forkWallet'[f][a] = BaseWallet(f, a),
           j.step \in {"read", "pay", "paid"} =>
               /\ j.cursor = job[c].cursor /\ j.next = job[c].next
               /\ \A t \in Txs : t = Undo(c) =>
                     /\ j.step = "read" /\ Good(f, Sender[t]) =>
                           j.from = Moved(BaseWallet(f, Sender[t]), UndoPart(c, "subtract"))
                     /\ j.step = "pay" /\ Good(f, Sender[t]) => j.from = BaseWallet(f, Sender[t])
                     /\ j.step \in {"pay", "paid"} /\ Good(f, Recipient[t]) => j.to = BaseWallet(f, Recipient[t])
    PROVE  ForkCourse' /\ HandedInv' /\ RestoredInv' /\ MakingInv'
  <1>1. /\ executed' = executed /\ files' = files /\ forkAt' = forkAt /\ pending' = pending /\ live' = live /\ ops' = ops
        /\ \A d \in Callers : job'[d] = IF d = c THEN j ELSE job[d]
        /\ f \in live /\ live \subseteq Forks /\ job[c] \in Jobs
    BY DEF chain, BaseInv, LedgerType, ForkCourse, MakersCourse
  <1>2. \A g, a : /\ Puts(g, a)' = Puts(g, a) /\ Good(g, a)' = Good(g, a) /\ Back(g, a)' = Back(g, a)
                  /\ BaseWallet(g, a)' = BaseWallet(g, a) /\ Handed(g, a)' = Handed(g, a)
                  /\ Late(g, a)' = Late(g, a) /\ Contested(a)' = Contested(a)
    BY <1>1, SameBack, SameBase, SameLate, SameChain DEF Puts
  <1>3. \A d \in Callers : \A g : Makes(d, g)' <=> Makes(d, g)
    BY <1>1 DEF Makes
  <1>4. ForkCourse'
    <2>1. ForkType' /\ StateCourse'
      BY <1>1 DEF ForkCourse, ForkType, StateCourse
    <2>2. HandCourse'
      BY <1>1 DEF ForkCourse, HandCourse
    <2>3. MakersCourse'
      <3>1. /\ forkAt[f].ready = 0 /\ forkAt[f].base = job[c].index /\ job[c].cursor <= forkAt[f].latest
            /\ forkAt[f].latest \in Nat /\ job[c].cursor \in Nat /\ j.cursor \in Nat
        BY <1>1 DEF ForkCourse, ForkType, MakersCourse, ForkStates, Jobs
      <3>2. j.cursor <= forkAt[f].latest
        BY <3>1
      <3> QED BY <1>1, <1>3, <3>1, <3>2 DEF ForkCourse, MakersCourse
    <2> QED BY <2>1, <2>2, <2>3 DEF ForkCourse
  <1>5. HandedInv'
    <2> SUFFICES ASSUME NEW g \in live, NEW a \in Accounts, ~Contested(a), Handed(g, a), Once(Late(g, a))
                 PROVE  Given(g, a)'
      BY <1>1, <1>2 DEF HandedInv, Once
    <2>1. forkWallet'[g][a] = forkWallet[g][a]
      BY <1>1
    <2>2. Given(g, a)
      BY DEF HandedInv
    <2> QED BY <1>1, <1>2, <2>1, <2>2 DEF Given
  <1>6. RestoredInv'
    <2> SUFFICES ASSUME NEW g \in live, NEW a \in Accounts, Good(g, a), NEW p \in Back(g, a),
                        \A d \in Callers : Makes(d, g) => Done(d, p)'
                 PROVE  forkWallet'[g][a] = BaseWallet(g, a)
      BY <1>1, <1>2, <1>3 DEF RestoredInv
    <2>1. \A d \in Callers : d # c => (Done(d, p)' <=> Done(d, p))
      BY <1>1 DEF Done
    <2>2. CASE g = f
      <3>1. Makes(c, f) /\ \A d \in Callers : Makes(d, f) => d = c
        BY <1>1 DEF Makes, ForkCourse, MakersCourse
      <3>2. CASE Done(c, p)
        <4>1. forkWallet[f][a] = BaseWallet(f, a)
          BY <1>1, <2>2, <3>1, <3>2 DEF RestoredInv
        <4> QED BY <2>2, <3>1, <3>2, <4>1
      <3> QED BY <2>2, <3>1, <3>2
    <2>3. CASE g # f
      <3>1. \A d \in Callers : Makes(d, g) => d # c
        BY <2>3 DEF Makes
      <3>2. \A d \in Callers : Makes(d, g) => Done(d, p)
        BY <2>1, <3>1
      <3> QED BY <1>1, <2>3, <3>2 DEF RestoredInv
    <2> QED BY <2>2, <2>3
  <1>7. MakingInv'
    <2>1. \A d \in Callers : job'[d].cursor = job[d].cursor /\ job'[d].next = job[d].next =>
             Undo(d)' = Undo(d) /\ \A s : UndoPart(d, s)' = UndoPart(d, s)
      BY <1>1 DEF Undo, Undone, UndoPart
    <2>2. \A w, p : Moved(w, p)' = Moved(w, p)
      BY <1>1, SameLast
    <2> SUFFICES ASSUME NEW d \in Callers, NEW g \in Forks, NEW t \in Txs,
                        job'[d].step \in {"read", "pay", "paid"}, g = job'[d].target, t = Undo(d)'
                 PROVE  /\ job'[d].step = "read" /\ Good(g, Sender[t]) =>
                              job'[d].from = Moved(BaseWallet(g, Sender[t]), UndoPart(d, "subtract")')
                        /\ job'[d].step = "pay" /\ Good(g, Sender[t]) => job'[d].from = BaseWallet(g, Sender[t])
                        /\ job'[d].step \in {"pay", "paid"} /\ Good(g, Recipient[t]) =>
                              job'[d].to = BaseWallet(g, Recipient[t])
      BY <1>2, <2>2 DEF MakingInv
    <2>3. CASE d = c
      <3>1. job'[d] = j /\ g = f
        BY <1>1, <2>3
      <3>2. t = Undo(c) /\ UndoPart(c, "subtract")' = UndoPart(c, "subtract")
        BY <2>1, <2>3, <3>1
      <3> QED BY <2>3, <3>1, <3>2
    <2>4. CASE d # c
      <3>1. job'[d] = job[d]
        BY <1>1, <2>4
      <3>2. t = Undo(d) /\ UndoPart(d, "subtract")' = UndoPart(d, "subtract")
        BY <2>1, <3>1
      <3> QED BY <3>1, <3>2 DEF MakingInv
    <2> QED BY <2>3, <2>4
  <1> QED BY <1>4, <1>5, <1>6, <1>7

\* Taking a part back undoes it.
LEMMA MoveBack ==
    ASSUME NEW w \in Wallet, NEW amount \in Nat
    PROVE  /\ SubtractIfPossible([balance |-> w.balance + amount, nonce |-> w.nonce], amount) = w
           /\ amount <= w.balance =>
                 Add(AdjustNonce([balance |-> w.balance - amount, nonce |-> w.nonce + 1], 0 - 1), amount) = w
  <1>1. /\ w = [balance |-> w.balance, nonce |-> w.nonce] /\ w.balance \in Nat /\ w.nonce \in Nat
        /\ w.balance <= MaxUint /\ w.nonce <= MaxUint /\ MaxUint \in Nat
    BY UintFacts DEF Wallet, Uint
  <1>2. SubtractIfPossible([balance |-> w.balance + amount, nonce |-> w.nonce], amount) = w
    <2>1. w.balance + amount >= amount /\ (w.balance + amount) - amount = w.balance
      BY <1>1
    <2>2. SubtractIfPossible([balance |-> w.balance + amount, nonce |-> w.nonce], amount) =
             [balance |-> (w.balance + amount) - amount, nonce |-> w.nonce]
      BY <2>1 DEF SubtractIfPossible, IsSubtractMoneyPossible
    <2> QED BY <1>1, <2>1, <2>2
  <1>3. ASSUME amount <= w.balance
        PROVE  Add(AdjustNonce([balance |-> w.balance - amount, nonce |-> w.nonce + 1], 0 - 1), amount) = w
    <2>1. (w.nonce + 1) + MaxUint + 1 + (0 - 1) = w.nonce + MaxUint + 1
      BY <1>1
    <2>2. Mod((w.nonce + 1) + MaxUint + 1 + (0 - 1)) = w.nonce
      BY <1>1, <2>1, ModWraps
    <2>3. AdjustNonce([balance |-> w.balance - amount, nonce |-> w.nonce + 1], 0 - 1) =
             [balance |-> w.balance - amount, nonce |-> w.nonce]
      BY <2>2 DEF AdjustNonce
    <2>4. (w.balance - amount) + amount = w.balance /\ Mod(w.balance) = w.balance
      BY <1>1, UintFacts
    <2>5. Add([balance |-> w.balance - amount, nonce |-> w.nonce], amount) =
             [balance |-> Mod((w.balance - amount) + amount), nonce |-> w.nonce]
      BY DEF Add
    <2> QED BY <1>1, <2>3, <2>4, <2>5
  <1> QED BY <1>2, <1>3

\* As long as nothing fails a read finds the wallet.
LEMMA ReadSure == ASSUME LedgerType, NEW a \in Accounts, NEW w, Read(a, w), seen' = {} PROVE w = wallet[a]
  BY ReadFinds

LEMMA ReadSenderFork ==
    ASSUME BaseInv, ForkCourse, HandedInv, RestoredInv, MakingInv, AtomicInv, BeforeStill, seen = {}, seen' = {},
           NEW c \in Callers, ReadSender(c)
    PROVE  ForkCourse' /\ HandedInv' /\ RestoredInv' /\ MakingInv'
  <1>1. /\ job[c] \in Jobs /\ job[c].step = "undo" /\ Undoing(c) /\ forkWallet' = forkWallet
        /\ UNCHANGED <<ops, pending, live, chain, forkAt>>
    BY DEF ReadSender, BaseInv, LedgerType, disk, history
  <1>2. PICK f, t, p : f = job[c].target /\ t = Undo(c) /\ p = UndoPart(c, "subtract")
    OBVIOUS
  <1>3. t \in Txs /\ Sender[t] \in Accounts
    BY <1>1, <1>2, UndoType DEF BaseInv
  <1>4. PICK w : Read(Sender[t], w) /\ job' = [job EXCEPT ![c] = [job[c] EXCEPT !.step = "read", !.from = w]]
    BY <1>2 DEF ReadSender
  <1>5. w = wallet[Sender[t]] /\ w \in Wallet
    BY <1>3, <1>4, ReadSure DEF BaseInv, LedgerType, Wallets
  <1> DEFINE j == [job[c] EXCEPT !.step = "read", !.from = w]
  <1>6. /\ j \in Jobs /\ j.step = "read" /\ j.target = job[c].target /\ j.index = job[c].index
        /\ j.cursor = job[c].cursor /\ j.next = job[c].next /\ j.from = w
    BY <1>1, <1>5 DEF Jobs, MakingSteps
  <1>7. job' = [job EXCEPT ![c] = j] /\ job'[c] = j
    BY <1>4 DEF BaseInv, LedgerType
  <1> HIDE DEF j
  <1>8. Good(f, Sender[t]) => w = Moved(BaseWallet(f, Sender[t]), p)
    <2>1. Account(p) = Sender[t]
      BY <1>1, <1>2, UndoPartFacts DEF Sides
    <2> QED BY <1>1, <1>2, <1>5, <2>1, UndoWallet DEF Sides
  <1>9. \A q : Done(c, q)' => Done(c, q)
    BY <1>1, <1>6, <1>7 DEF Done, chain
  <1>10. forkWallet' \in [Forks -> [Accounts -> Wallet \cup {NoWallet}]] /\ j.cursor <= job[c].cursor
    BY <1>1, <1>6 DEF ForkCourse, ForkType, Jobs
  <1> QED BY <1>1, <1>2, <1>6, <1>7, <1>8, <1>9, <1>10, MakerStep DEF MakingSteps

LEMMA ReadRecipientFork ==
    ASSUME BaseInv, ForkCourse, HandedInv, RestoredInv, MakingInv, AtomicInv, BeforeStill, seen = {}, seen' = {},
           NEW c \in Callers, ReadRecipient(c)
    PROVE  ForkCourse' /\ HandedInv' /\ RestoredInv' /\ MakingInv'
  <1>1. /\ job[c] \in Jobs /\ job[c].step = "read" /\ forkWallet' = forkWallet
        /\ UNCHANGED <<ops, pending, live, chain, forkAt>>
    BY DEF ReadRecipient, BaseInv, LedgerType, disk, history
  <1>2. PICK f, t, p, q : /\ f = job[c].target /\ t = Undo(c)
                          /\ p = UndoPart(c, "subtract") /\ q = UndoPart(c, "add")
    OBVIOUS
  <1>3. t \in Txs /\ Recipient[t] \in Accounts /\ Amount[t] \in Uint /\ Amount[t] \in Nat /\ f \in Forks
    BY <1>1, <1>2, UndoType, UintFacts DEF BaseInv
  <1>4. PICK w : /\ Read(Recipient[t], w)
                 /\ job' = [job EXCEPT ![c] =
                       [job[c] EXCEPT !.step = "pay", !.to = SubtractIfPossible(w, Amount[t]),
                                      !.from = Add(AdjustNonce(job[c].from, 0 - 1), Amount[t])]]
    BY <1>2 DEF ReadRecipient
  <1>5. w = wallet[Recipient[t]] /\ w \in Wallet /\ job[c].from \in Wallet
    BY <1>1, <1>3, <1>4, ReadSure DEF BaseInv, LedgerType, Wallets, Jobs
  <1> DEFINE to   == SubtractIfPossible(w, Amount[t])
             from == Add(AdjustNonce(job[c].from, 0 - 1), Amount[t])
             j    == [job[c] EXCEPT !.step = "pay", !.to = to, !.from = from]
  <1>6. to \in Wallet /\ from \in Wallet
    BY <1>3, <1>5, TakenBack
  <1>7. job' = [job EXCEPT ![c] = j] /\ job'[c] = j
    BY <1>4 DEF BaseInv, LedgerType
  <1>8. Good(f, Sender[t]) => from = BaseWallet(f, Sender[t])
    <2> SUFFICES ASSUME Good(f, Sender[t]) PROVE from = BaseWallet(f, Sender[t])
      OBVIOUS
    <2>1. Account(p) = Sender[t] /\ Tx(p) = t /\ p[3] = "subtract"
      BY <1>1, <1>2, UndoPartFacts DEF Sides, UndoPart
    <2>2. BaseWallet(f, Sender[t]) \in Wallet /\ Amount[t] <= BaseWallet(f, Sender[t]).balance
      BY <1>1, <1>2, <2>1, UndoWallet DEF Sides
    <2>3. job[c].from = Moved(BaseWallet(f, Sender[t]), p)
      BY <1>1, <1>2, <1>3 DEF MakingInv
    <2> QED BY <1>3, <2>1, <2>2, <2>3, MoveBack DEF Moved
  <1>9. Good(f, Recipient[t]) => to = BaseWallet(f, Recipient[t])
    <2> SUFFICES ASSUME Good(f, Recipient[t]) PROVE to = BaseWallet(f, Recipient[t])
      OBVIOUS
    <2>1. Account(q) = Recipient[t] /\ Tx(q) = t /\ q[3] = "add"
      BY <1>1, <1>2, UndoPartFacts DEF Sides, UndoPart
    <2>2. BaseWallet(f, Recipient[t]) \in Wallet /\ w = Moved(BaseWallet(f, Recipient[t]), q)
      BY <1>1, <1>2, <1>5, <2>1, UndoWallet DEF Sides
    <2> QED BY <1>3, <2>1, <2>2, MoveBack DEF Moved
  <1> HIDE DEF to, from
  <1>10. /\ j \in Jobs /\ j.step = "pay" /\ j.target = job[c].target /\ j.index = job[c].index
         /\ j.cursor = job[c].cursor /\ j.next = job[c].next /\ j.from = from /\ j.to = to
    BY <1>1, <1>6 DEF Jobs, MakingSteps
  <1> HIDE DEF j
  <1>11. \A e : Done(c, e)' => Done(c, e)
    BY <1>1, <1>7, <1>10 DEF Done, chain
  <1>12. forkWallet' \in [Forks -> [Accounts -> Wallet \cup {NoWallet}]] /\ j.cursor <= job[c].cursor
    BY <1>1, <1>10 DEF ForkCourse, ForkType, Jobs
  <1> QED BY <1>1, <1>2, <1>7, <1>8, <1>9, <1>10, <1>11, <1>12, MakerStep DEF MakingSteps


LEMMA PutSenderFork ==
    ASSUME BaseInv, ForkCourse, HandedInv, RestoredInv, MakingInv, seen' = {}, NEW c \in Callers, PutSender(c)
    PROVE  ForkCourse' /\ HandedInv' /\ RestoredInv' /\ MakingInv'
  <1>1. job[c] \in Jobs /\ job[c].step = "pay" /\ UNCHANGED <<ops, pending, live, chain, forkAt>>
    BY DEF PutSender, PutBack, BaseInv, LedgerType, history
  <1>2. PICK f, t, p, a : f = job[c].target /\ t = Undo(c) /\ p = UndoPart(c, "subtract") /\ a = Sender[t]
    OBVIOUS
  <1>3. t \in Txs /\ a \in Accounts /\ f \in Forks
    BY <1>1, <1>2, UndoType DEF BaseInv
  <1> DEFINE j == [job[c] EXCEPT !.step = "paid", !.from = Empty]
  <1>4. job' = [job EXCEPT ![c] = j] /\ forkWallet' = [forkWallet EXCEPT ![f][a] = job[c].from]
    BY <1>2 DEF PutSender, PutBack
  <1>5. job'[c] = j
    BY <1>4 DEF BaseInv, LedgerType
  <1>6. /\ j \in Jobs /\ j.step = "paid" /\ j.target = job[c].target /\ j.index = job[c].index
        /\ j.cursor = job[c].cursor /\ j.next = job[c].next /\ j.to = job[c].to
        /\ j.cursor <= job[c].cursor /\ job[c].from \in Wallet
    <2>1. job[c].cursor \in Nat /\ job[c].from \in Wallet
      BY <1>1 DEF Jobs
    <2>2. /\ j \in Jobs /\ j.step = "paid" /\ j.target = job[c].target /\ j.index = job[c].index
          /\ j.cursor = job[c].cursor /\ j.next = job[c].next /\ j.to = job[c].to
      BY <1>1, EmptyType DEF Jobs
    <2> HIDE DEF j
    <2> QED BY <2>1, <2>2
  <1> HIDE DEF j
  <1>7. /\ forkWallet' \in [Forks -> [Accounts -> Wallet \cup {NoWallet}]]
        /\ \A g \in Forks, x \in Accounts : g # f \/ x # a => forkWallet'[g][x] = forkWallet[g][x]
        /\ forkWallet'[f][a] = job[c].from
    BY <1>3, <1>4, <1>6 DEF ForkCourse, ForkType
  <1>8. /\ ~Handed(f, a) /\ Account(p) = a
        /\ p[1] = files[job[c].cursor] /\ p[2] = job[c].next /\ p[3] = "subtract"
    BY <1>1, <1>2, UndoPartFacts DEF Sides, UndoPart
  <1>9. ASSUME NEW x \in Accounts, Good(f, x), NEW e \in Back(f, x), Done(c, e)'
        PROVE  \/ Done(c, e) /\ forkWallet'[f][x] = forkWallet[f][x]
               \/ forkWallet'[f][x] = BaseWallet(f, x)
    <2>1. CASE x = a
      BY <1>1, <1>2, <1>3, <1>7, <1>9, <2>1 DEF MakingInv
    <2>2. CASE x # a
      <3>1. Account(e) = x
        BY <1>9 DEF Back, PartsOf
      <3>2. ~(e[1] = files[job[c].cursor] /\ e[2] = job[c].next /\ e[3] = "subtract")
        BY <1>8, <2>2, <3>1 DEF Account, Tx
      <3>3. Done(c, e)
        BY <1>1, <1>5, <1>6, <1>9, <3>2 DEF Done, chain
      <3> QED BY <1>3, <1>7, <2>2, <3>3
    <2> QED BY <2>1, <2>2
  <1>10. Good(f, Recipient[t]) => j.to = BaseWallet(f, Recipient[t])
    BY <1>1, <1>2, <1>3, <1>6 DEF MakingInv
  <1>11. /\ job' = [job EXCEPT ![c] = j] /\ job[c].step \in MakingSteps /\ j.step \in MakingSteps
         /\ \A g \in Forks, x \in Accounts : g # f \/ Handed(f, x) => forkWallet'[g][x] = forkWallet[g][x]
         /\ \A u \in Txs : u = Undo(c) =>
               /\ j.step = "read" /\ Good(f, Sender[u]) =>
                     j.from = Moved(BaseWallet(f, Sender[u]), UndoPart(c, "subtract"))
               /\ j.step = "pay" /\ Good(f, Sender[u]) => j.from = BaseWallet(f, Sender[u])
               /\ j.step \in {"pay", "paid"} /\ Good(f, Recipient[u]) => j.to = BaseWallet(f, Recipient[u])
    BY <1>1, <1>2, <1>4, <1>6, <1>7, <1>8, <1>10 DEF MakingSteps
  <1>12. /\ f = job[c].target /\ j \in Jobs /\ j.target = f /\ j.index = job[c].index /\ j.cursor <= job[c].cursor
         /\ j.cursor = job[c].cursor /\ j.next = job[c].next
         /\ forkWallet' \in [Forks -> [Accounts -> Wallet \cup {NoWallet}]]
    BY <1>2, <1>6, <1>7
  <1> QED BY <1>1, <1>9, <1>11, <1>12, MakerStep

LEMMA PutRecipientFork ==
    ASSUME BaseInv, ForkCourse, HandedInv, RestoredInv, MakingInv, seen' = {}, NEW c \in Callers, PutRecipient(c)
    PROVE  ForkCourse' /\ HandedInv' /\ RestoredInv' /\ MakingInv'
  <1>1. job[c] \in Jobs /\ job[c].step = "paid" /\ UNCHANGED <<ops, pending, live, chain, forkAt>>
    BY DEF PutRecipient, PutBack, BaseInv, LedgerType, history
  <1>2. PICK f, t, p, a : f = job[c].target /\ t = Undo(c) /\ p = UndoPart(c, "add") /\ a = Recipient[t]
    OBVIOUS
  <1>3. t \in Txs /\ a \in Accounts /\ f \in Forks
    BY <1>1, <1>2, UndoType DEF BaseInv
  <1> DEFINE j == [job[c] EXCEPT !.step = "undo", !.to = Empty, !.next = @ + 1]
  <1>4. job' = [job EXCEPT ![c] = j] /\ forkWallet' = [forkWallet EXCEPT ![f][a] = job[c].to]
    BY <1>2 DEF PutRecipient, PutBack
  <1>5. job'[c] = j
    BY <1>4 DEF BaseInv, LedgerType
  <1>6. /\ j \in Jobs /\ j.step = "undo" /\ j.target = job[c].target /\ j.index = job[c].index
        /\ j.cursor = job[c].cursor /\ j.next = job[c].next + 1 /\ job[c].next \in Nat
        /\ j.cursor <= job[c].cursor /\ job[c].to \in Wallet
    <2>1. job[c].cursor \in Nat /\ job[c].to \in Wallet /\ job[c].next \in Nat /\ job[c].next + 1 \in Nat
      BY <1>1 DEF Jobs
    <2>2. /\ j \in Jobs /\ j.step = "undo" /\ j.target = job[c].target /\ j.index = job[c].index
          /\ j.cursor = job[c].cursor /\ j.next = job[c].next + 1
      BY <1>1, <2>1, EmptyType DEF Jobs
    <2> HIDE DEF j
    <2> QED BY <2>1, <2>2
  <1> HIDE DEF j
  <1>7. /\ forkWallet' \in [Forks -> [Accounts -> Wallet \cup {NoWallet}]]
        /\ \A g \in Forks, x \in Accounts : g # f \/ x # a => forkWallet'[g][x] = forkWallet[g][x]
        /\ forkWallet'[f][a] = job[c].to
    BY <1>3, <1>4, <1>6 DEF ForkCourse, ForkType
  <1>8. /\ ~Handed(f, a) /\ Account(p) = a
        /\ p[1] = files[job[c].cursor] /\ p[2] = job[c].next /\ p[3] = "add"
    BY <1>1, <1>2, UndoPartFacts DEF Sides, UndoPart
  <1>9. ASSUME NEW x \in Accounts, Good(f, x), NEW e \in Back(f, x), Done(c, e)'
        PROVE  \/ Done(c, e) /\ forkWallet'[f][x] = forkWallet[f][x]
               \/ forkWallet'[f][x] = BaseWallet(f, x)
    <2>1. CASE x = a
      BY <1>1, <1>2, <1>3, <1>7, <1>9, <2>1 DEF MakingInv
    <2>2. CASE x # a
      <3>1. Account(e) = x /\ e[3] \in Sides /\ e[2] \in Nat
        BY <1>9, PartsType DEF Back, PartsOf, BaseInv
      <3>2. ~(e[1] = files[job[c].cursor] /\ e[2] = job[c].next /\ e[3] = "add")
        BY <1>8, <2>2, <3>1 DEF Account, Tx
      <3>3. Done(c, e)
        BY <1>1, <1>5, <1>6, <1>9, <3>1, <3>2 DEF Done, chain, Sides
      <3> QED BY <1>3, <1>7, <2>2, <3>3
    <2> QED BY <2>1, <2>2
  <1>10. /\ job' = [job EXCEPT ![c] = j] /\ job[c].step \in MakingSteps /\ j.step \in MakingSteps
         /\ \A g \in Forks, x \in Accounts : g # f \/ Handed(f, x) => forkWallet'[g][x] = forkWallet[g][x]
         /\ j.step \notin {"read", "pay", "paid"}
    BY <1>1, <1>2, <1>4, <1>6, <1>7, <1>8 DEF MakingSteps
  <1>11. /\ f = job[c].target /\ j \in Jobs /\ j.target = f /\ j.index = job[c].index /\ j.cursor <= job[c].cursor
         /\ forkWallet' \in [Forks -> [Accounts -> Wallet \cup {NoWallet}]]
    BY <1>2, <1>6, <1>7
  <1> QED BY <1>1, <1>9, <1>10, <1>11, MakerStep

LEMMA NextBlockFork ==
    ASSUME BaseInv, ForkCourse, HandedInv, RestoredInv, MakingInv, NEW c \in Callers, NextBlock(c)
    PROVE  ForkCourse' /\ HandedInv' /\ RestoredInv' /\ MakingInv'
  <1> DEFINE j == [job[c] EXCEPT !.cursor = @ - 1, !.next = 1]
  <1>1. /\ job[c] \in Jobs /\ job[c].step = "undo" /\ UNCHANGED <<ops, pending, live, chain, forkAt>>
        /\ job' = [job EXCEPT ![c] = j] /\ forkWallet' = forkWallet
    BY DEF NextBlock, BaseInv, LedgerType, disk, history
  <1>2. PICK f : f = job[c].target
    OBVIOUS
  <1>3. /\ f \in Forks /\ job[c].index \in DOMAIN files /\ job[c].next # 0 /\ job[c].next \in Nat
        /\ job[c].index \in Nat /\ job[c].index # 0
    <2>1. JobFits(job[c]) /\ job[c].target \in Forks
      BY <1>1 DEF BaseInv, FilesFit, JobFits, MakingSteps, Jobs
    <2> QED BY <1>1, <1>2, <2>1, WalletLedgerAssumption DEF JobFits, MakingSteps, Jobs, BaseInv, LedgerType
  <1>4. job[c].cursor \in Nat /\ job[c].cursor >= job[c].index /\ ~Undoing(c) /\ job[c].cursor # 0
    BY <1>1, <1>3 DEF NextBlock, Jobs
  <1>5. job'[c] = j
    BY <1>1 DEF BaseInv, LedgerType
  <1>6. /\ j \in Jobs /\ j.step = "undo" /\ j.target = job[c].target /\ j.index = job[c].index
        /\ j.cursor = job[c].cursor - 1 /\ j.next = 1 /\ j.cursor <= job[c].cursor
    <2>1. job[c].cursor - 1 \in Nat /\ job[c].cursor - 1 <= job[c].cursor
      BY <1>4
    <2>2. /\ j \in Jobs /\ j.step = "undo" /\ j.target = job[c].target /\ j.index = job[c].index
          /\ j.cursor = job[c].cursor - 1 /\ j.next = 1
      BY <1>1, <2>1 DEF Jobs
    <2> HIDE DEF j
    <2> QED BY <2>1, <2>2
  <1> HIDE DEF j
  <1>7. ASSUME NEW x \in Accounts, NEW e \in Back(f, x), Done(c, e)' PROVE Done(c, e)
    <2>1. e \in Parts
      BY DEF Back, PartsOf
    <2>2. e[1] \in DOMAIN executed /\ e[2] \in DOMAIN executed[e[1]].body /\ e[2] \in Nat /\ e[2] # 0
      <3>1. e[1] \in DOMAIN executed /\ e[2] \in DOMAIN executed[e[1]].body /\ executed[e[1]].body \in Seq(Txs)
        BY <2>1, PartsIff, PartsType DEF BaseInv, Blocks
      <3> QED BY <3>1
    <2>3. ASSUME job[c].cursor \in DOMAIN files, files[job[c].cursor] = e[1] PROVE e[2] < job[c].next
      <3>1. Undone(c) = executed[e[1]].body /\ executed[e[1]].body \in Seq(Txs)
        BY <2>1, <2>3, PartsType DEF Undone, BaseInv, Blocks
      <3>2. job[c].next \notin DOMAIN Undone(c)
        BY <1>4 DEF Undoing
      <3> QED BY <1>3, <2>2, <3>1, <3>2
    <2>4. \/ \E i \in DOMAIN files : i > job[c].cursor - 1 /\ files[i] = e[1]
          \/ e[2] < 1
      BY <1>1, <1>5, <1>6, <1>7 DEF Done, chain
    <2>5. DOMAIN files \subseteq Nat
      BY DEF BaseInv, LedgerType
    <2> QED BY <1>4, <2>2, <2>3, <2>4, <2>5 DEF Done
  <1>8. forkWallet' \in [Forks -> [Accounts -> Wallet \cup {NoWallet}]]
    BY <1>1 DEF ForkCourse, ForkType
  <1> QED BY <1>1, <1>2, <1>6, <1>7, <1>8, MakerStep DEF MakingSteps

\* What a caller that keeps its job makes, when its fork's state of main stays.
LEMMA SameMaking ==
    ASSUME MakingInv, executed' = executed, files' = files,
           NEW d \in Callers, job'[d] = job[d], forkAt'[job[d].target] = forkAt[job[d].target],
           NEW f \in Forks, NEW t \in Txs, job'[d].step \in {"read", "pay", "paid"}, f = job'[d].target, t = Undo(d)'
    PROVE  /\ job'[d].step = "read" /\ Good(f, Sender[t])' =>
                 job'[d].from = Moved(BaseWallet(f, Sender[t]), UndoPart(d, "subtract"))'
           /\ job'[d].step = "pay" /\ Good(f, Sender[t])' => job'[d].from = BaseWallet(f, Sender[t])'
           /\ job'[d].step \in {"pay", "paid"} /\ Good(f, Recipient[t])' => job'[d].to = BaseWallet(f, Recipient[t])'
  <1>1. \A a : Good(f, a)' = Good(f, a) /\ BaseWallet(f, a)' = BaseWallet(f, a)
    BY SameBack, SameBase
  <1>2. Undo(d)' = Undo(d) /\ UndoPart(d, "subtract")' = UndoPart(d, "subtract")
    BY DEF Undo, Undone, UndoPart
  <1>3. \A w, p : Moved(w, p)' = Moved(w, p)
    BY SameLast
  <1> QED BY <1>1, <1>2, <1>3 DEF MakingInv

LEMMA ForkReadyFork ==
    ASSUME BaseInv, ForkCourse, HandedInv, RestoredInv, MakingInv, NEW c \in Callers, ForkReady(c)
    PROVE  ForkCourse' /\ HandedInv' /\ RestoredInv' /\ MakingInv'
  <1>1. PICK f : f = job[c].target
    OBVIOUS
  <1>2. /\ job[c] \in Jobs /\ job[c].step = "undo" /\ job[c].cursor < job[c].index
        /\ executed' = executed /\ files' = files /\ forkWallet' = forkWallet
        /\ pending' = pending /\ live' = live /\ ops' = ops
        /\ job' = [job EXCEPT ![c] = Idle] /\ forkAt' = [forkAt EXCEPT ![f] = [forkAt[f] EXCEPT !.ready = Len(executed)]]
    BY <1>1 DEF ForkReady, BaseInv, LedgerType, disk, chain
  <1>3. /\ \A d \in Callers : job'[d] = IF d = c THEN Idle ELSE job[d]
        /\ Idle.step \notin MakingSteps
    BY <1>2, IdleType DEF BaseInv, LedgerType, MakingSteps
  <1>4. /\ Makes(c, f) /\ f \in live /\ f \in Forks /\ forkAt[f].ready = 0 /\ forkAt[f].base = job[c].index
        /\ forkAt[f] \in ForkStates /\ \A d \in Callers : Makes(d, f) => d = c
    BY <1>1, <1>2 DEF ForkCourse, ForkType, MakersCourse, Makes, MakingSteps, BaseInv, LedgerType
  <1>5. /\ \A g \in Forks : g # f => forkAt'[g] = forkAt[g]
        /\ forkAt'[f].base = forkAt[f].base /\ forkAt'[f].latest = forkAt[f].latest /\ forkAt'[f].over = forkAt[f].over
        /\ forkAt'[f].opened = forkAt[f].opened /\ forkAt'[f].ready = Len(executed) /\ Len(executed) \in Nat
        /\ forkAt'[f] \in ForkStates /\ forkAt' \in [Forks -> ForkStates]
    <2>1. Len(executed) \in Nat
      BY DEF BaseInv, LedgerType
    <2>2. [forkAt[f] EXCEPT !.ready = Len(executed)] \in ForkStates
      BY <1>4, <2>1 DEF ForkStates
    <2> QED BY <1>2, <1>4, <2>1, <2>2 DEF ForkCourse, ForkType, ForkStates
  <1>6. \A d \in Callers : \A g : Makes(d, g)' <=> d # c /\ Makes(d, g)
    BY <1>3 DEF Makes
  <1>7. \A d \in Callers : d # c /\ job[d].step \in MakingSteps => job[d].target # f
    BY <1>4 DEF Makes
  <1>8. ForkCourse'
    <2>1. ForkType' /\ HandCourse'
      BY <1>2, <1>5 DEF ForkCourse, ForkType, HandCourse
    <2>2. StateCourse'
      <3> SUFFICES ASSUME NEW g \in live
                   PROVE  /\ forkAt'[g].base \in DOMAIN files /\ forkAt'[g].latest <= Len(files)
                          /\ forkAt'[g].opened <= Len(executed) /\ forkAt'[g].ready <= Len(executed)
                          /\ forkAt'[g].over \subseteq DOMAIN executed
                          /\ \A i \in DOMAIN files : i <= forkAt'[g].latest => files[i] <= forkAt'[g].opened
                          /\ \A op \in ops : op.part[1] \notin forkAt'[g].over
        BY <1>2 DEF StateCourse
      <3>1. g \in Forks
        BY DEF BaseInv, LedgerType
      <3> QED BY <1>5, <3>1 DEF ForkCourse, StateCourse
    <2>3. MakersCourse'
      <3>1. ASSUME NEW d \in Callers, job'[d].step \in MakingSteps
            PROVE  /\ job'[d].target \in live /\ forkAt'[job'[d].target].ready = 0
                   /\ forkAt'[job'[d].target].base = job'[d].index /\ job'[d].cursor <= forkAt'[job'[d].target].latest
        <4>1. d # c /\ job'[d] = job[d]
          BY <1>3, <3>1
        <4>2. job[d].target # f /\ job[d].target \in live /\ live \subseteq Forks
          BY <1>7, <3>1, <4>1 DEF ForkCourse, MakersCourse, BaseInv, LedgerType
        <4>3. forkAt'[job[d].target] = forkAt[job[d].target]
          BY <1>5, <4>2
        <4> QED BY <3>1, <4>1, <4>2, <4>3 DEF ForkCourse, MakersCourse
      <3> QED BY <1>2, <1>6, <3>1 DEF ForkCourse, MakersCourse
    <2> QED BY <2>1, <2>2, <2>3 DEF ForkCourse
  <1>9. HandedInv'
    <2> SUFFICES ASSUME NEW g \in live, NEW a \in Accounts
                 PROVE  (~Contested(a) /\ Handed(g, a) /\ Once(Late(g, a)) => Given(g, a))'
      BY <1>2 DEF HandedInv
    <2>1. forkAt'[g].base = forkAt[g].base /\ forkAt'[g].opened = forkAt[g].opened
      BY <1>5 DEF BaseInv, LedgerType
    <2>2. Puts(g, a)' = Puts(g, a) /\ forkWallet'[g][a] = forkWallet[g][a]
      BY <1>2 DEF Puts
    <2> QED BY <1>2, <2>1, <2>2, SameGiven DEF HandedInv
  <1>10. RestoredInv'
    <2> SUFFICES ASSUME NEW g \in live, NEW a \in Accounts, Good(g, a)', NEW p \in Back(g, a)'
                 PROVE  /\ Puts(g, a)' = {}
                        /\ (\A d \in Callers : Makes(d, g)' => Done(d, p)') => forkWallet'[g][a] = BaseWallet(g, a)'
      BY <1>2 DEF RestoredInv
    <2>1. g \in Forks /\ Puts(g, a)' = Puts(g, a) /\ forkWallet'[g][a] = forkWallet[g][a]
      BY <1>2 DEF BaseInv, LedgerType, Puts
    <2>2. /\ forkAt'[g].base = forkAt[g].base /\ forkAt'[g].latest = forkAt[g].latest
          /\ forkAt'[g].over = forkAt[g].over
      BY <1>5, <2>1
    <2>3. BaseWallet(g, a)' = BaseWallet(g, a) /\ Back(g, a)' = Back(g, a)
      BY <1>2, <2>2, SameBase, SameBack
    <2>4. CASE g # f
      <3>1. Good(g, a)
        BY <1>2, <1>5, <2>1, <2>2, <2>4, SameBack
      <3>2. \A d \in Callers : Makes(d, g) => d # c
        BY <1>1, <2>4 DEF Makes
      <3>3. \A d \in Callers : Makes(d, g) => Makes(d, g)' /\ (Done(d, p)' <=> Done(d, p))
        BY <1>2, <1>3, <1>6, <3>2 DEF Done
      <3> QED BY <2>1, <2>3, <3>1, <3>3 DEF RestoredInv
    <2>5. CASE g = f
      <3>1. Good(f, a)
        <4>1. ~Contested(a) /\ Once(Back(f, a))
          BY <1>2, <2>3, <2>5, SameChain DEF Good, Once
        <4>2. ASSUME NEW q \in PartsOf(a) PROVE Early(f, q) \/ q \in Back(f, a)
          <5>1. q \in PartsOf(a)' /\ Early(f, q)' = Early(f, q) /\ q[1] <= Len(executed) /\ q[1] \in Nat
            BY <1>2, <2>2, <2>5, SameChain, SameBase, PartsType DEF PartsOf, BaseInv
          <5> QED BY <1>5, <2>3, <2>5, <5>1 DEF Good, Restored
        <4> QED BY <4>1, <4>2 DEF Good, Restored
      <3>2. p \in Back(f, a)
        BY <2>3, <2>5
      <3>3. Done(c, p)
        <4>1. PICK i \in forkAt[f].base..forkAt[f].latest : p[1] = files[i]
          BY <3>2 DEF Back, UndoneOf
        <4>2. /\ i \in Nat /\ i >= job[c].index /\ i <= Len(files) /\ Len(files) \in Nat /\ i # 0
              /\ job[c].index \in Nat /\ job[c].cursor \in Nat
          <5>1. /\ forkAt[f].base \in Nat /\ forkAt[f].latest \in Nat /\ forkAt[f].latest <= Len(files)
                /\ Len(files) \in Nat /\ forkAt[f].base # 0
            BY <1>4 DEF ForkStates, ForkCourse, StateCourse, BaseInv, LedgerType
          <5>2. job[c].index \in Nat /\ job[c].cursor \in Nat
            BY <1>2 DEF Jobs
          <5> QED BY <1>4, <4>1, <5>1, <5>2
        <4>3. i \in DOMAIN files /\ i > job[c].cursor
          BY <1>2, <4>2 DEF BaseInv, LedgerType
        <4> QED BY <4>1, <4>3 DEF Done
      <3>4. Puts(f, a) = {} /\ forkWallet[f][a] = BaseWallet(f, a)
        BY <1>4, <3>1, <3>2, <3>3 DEF RestoredInv
      <3> QED BY <2>1, <2>3, <2>5, <3>4
    <2> QED BY <2>4, <2>5
  <1>11. MakingInv'
    <2> SUFFICES ASSUME NEW d \in Callers, NEW g \in Forks, NEW t \in Txs,
                        job'[d].step \in {"read", "pay", "paid"}, g = job'[d].target, t = Undo(d)'
                 PROVE  /\ job'[d].step = "read" /\ Good(g, Sender[t])' =>
                              job'[d].from = Moved(BaseWallet(g, Sender[t]), UndoPart(d, "subtract"))'
                        /\ job'[d].step = "pay" /\ Good(g, Sender[t])' => job'[d].from = BaseWallet(g, Sender[t])'
                        /\ job'[d].step \in {"pay", "paid"} /\ Good(g, Recipient[t])' =>
                              job'[d].to = BaseWallet(g, Recipient[t])'
      BY DEF MakingInv
    <2>1. d # c /\ job'[d] = job[d]
      BY <1>3 DEF MakingSteps
    <2>2. forkAt'[job[d].target] = forkAt[job[d].target]
      BY <1>5, <1>7, <2>1 DEF MakingSteps
    <2> QED BY <1>2, <2>1, <2>2, SameMaking
  <1> QED BY <1>8, <1>9, <1>10, <1>11

LEMMA OpenForkFork ==
    ASSUME BaseInv, ForkCourse, HandedInv, RestoredInv, MakingInv, NEW c \in Callers, OpenFork(c)
    PROVE  ForkCourse' /\ HandedInv' /\ RestoredInv' /\ MakingInv'
  <1>1. PICK f : f = job[c].target
    OBVIOUS
  <1> DEFINE j  == [job[c] EXCEPT !.step = "undo", !.next = 1, !.over = {}]
             at == [ base |-> job[c].index, latest |-> job[c].cursor, over |-> job[c].over,
                     opened |-> Len(executed), ready |-> 0 ]
  <1>2. /\ job[c] \in Jobs /\ job[c].step = "open" /\ f \notin live
        /\ executed' = executed /\ files' = files /\ forkWallet' = forkWallet
        /\ pending' = pending /\ live' = live \cup {f} /\ ops' = ops
        /\ job' = [job EXCEPT ![c] = j] /\ forkAt' = [forkAt EXCEPT ![f] = at]
    BY <1>1 DEF OpenFork, BaseInv, LedgerType, disk, chain
  <1>3. /\ f \in Forks /\ job[c].index \in DOMAIN files /\ job[c].cursor <= Len(files)
        /\ job[c].over \subseteq DOMAIN executed /\ \A op \in ops : op.part[1] \notin job[c].over
    <2>1. JobFits(job[c])
      BY DEF BaseInv, FilesFit
    <2> QED BY <1>1, <1>2, <2>1 DEF JobFits, Jobs, BaseInv, OverIsOver
  <1>4. /\ j.step = "undo" /\ j.next = 1 /\ j.target = f /\ j.index = job[c].index /\ j.cursor = job[c].cursor
    BY <1>1, <1>2 DEF Jobs
  <1>5. \A d \in Callers : job'[d] = IF d = c THEN j ELSE job[d]
    BY <1>2 DEF BaseInv, LedgerType
  <1> HIDE DEF j
  <1>6. /\ at.base = job[c].index /\ at.latest = job[c].cursor /\ at.over = job[c].over
        /\ at.opened = Len(executed) /\ at.ready = 0 /\ Len(executed) \in Nat /\ at \in ForkStates
    BY <1>2 DEF Jobs, ForkStates, BaseInv, LedgerType
  <1> HIDE DEF at
  <1>7. /\ \A g \in Forks : g # f => forkAt'[g] = forkAt[g]
        /\ forkAt'[f] = at /\ forkAt' \in [Forks -> ForkStates]
    BY <1>2, <1>3, <1>6 DEF ForkCourse, ForkType
  <1>8. live \subseteq Forks /\ \A d \in Callers : \A g : Makes(d, g) => g # f /\ g \in live /\ d # c
    BY <1>2 DEF Makes, ForkCourse, MakersCourse, BaseInv, LedgerType, MakingSteps
  <1>9. \A d \in Callers : \A g : Makes(d, g)' <=> Makes(d, g) \/ (d = c /\ g = f)
    BY <1>4, <1>5, <1>8 DEF Makes, MakingSteps
  <1>10. \A a \in Accounts : forkWallet[f][a] = NoWallet /\ Puts(f, a) = {}
    BY <1>2, <1>3 DEF ForkCourse, HandCourse, Puts
  <1>11. ForkCourse'
    <2>1. ForkType'
      BY <1>2, <1>7 DEF ForkCourse, ForkType
    <2>2. HandCourse'
      BY <1>2 DEF ForkCourse, HandCourse
    <2>3. StateCourse'
      <3> SUFFICES ASSUME NEW g \in live'
                   PROVE  /\ forkAt'[g].base \in DOMAIN files /\ forkAt'[g].latest <= Len(files)
                          /\ forkAt'[g].opened <= Len(executed) /\ forkAt'[g].ready <= Len(executed)
                          /\ forkAt'[g].over \subseteq DOMAIN executed
                          /\ \A i \in DOMAIN files : i <= forkAt'[g].latest => files[i] <= forkAt'[g].opened
                          /\ \A op \in ops : op.part[1] \notin forkAt'[g].over
        BY <1>2 DEF StateCourse
      <3>1. CASE g = f
        <4>1. \A i \in DOMAIN files : files[i] <= Len(executed)
          BY DEF BaseInv, FilesFit, LedgerType
        <4> QED BY <1>3, <1>6, <1>7, <3>1, <4>1
      <3>2. CASE g # f
        <4>1. g \in live /\ forkAt'[g] = forkAt[g]
          BY <1>2, <1>7, <1>8, <3>2
        <4> QED BY <4>1 DEF ForkCourse, StateCourse
      <3> QED BY <3>1, <3>2
    <2>4. MakersCourse'
      <3>1. ASSUME NEW d \in Callers, job'[d].step \in MakingSteps
            PROVE  /\ job'[d].target \in live' /\ forkAt'[job'[d].target].ready = 0
                   /\ forkAt'[job'[d].target].base = job'[d].index /\ job'[d].cursor <= forkAt'[job'[d].target].latest
        <4>1. CASE d = c
          <5>1. job[c].cursor <= job[c].cursor
            BY <1>2 DEF Jobs
          <5> QED BY <1>2, <1>4, <1>5, <1>6, <1>7, <4>1, <5>1
        <4>2. CASE d # c
          <5>1. job'[d] = job[d] /\ Makes(d, job[d].target)
            BY <1>5, <3>1, <4>2 DEF Makes
          <5>2. job[d].target \in live' /\ forkAt'[job[d].target] = forkAt[job[d].target]
            BY <1>2, <1>7, <1>8, <5>1
          <5> QED BY <3>1, <5>1, <5>2 DEF ForkCourse, MakersCourse
        <4> QED BY <4>1, <4>2
      <3>2. \A d, e \in Callers : \A g \in Forks : Makes(d, g)' /\ Makes(e, g)' => d = e
        BY <1>8, <1>9 DEF ForkCourse, MakersCourse
      <3> QED BY <3>1, <3>2 DEF MakersCourse
    <2> QED BY <2>1, <2>2, <2>3, <2>4 DEF ForkCourse
  <1>12. \A g, a : Puts(g, a)' = Puts(g, a)
    BY <1>2 DEF Puts
  <1>13. HandedInv'
    <2> SUFFICES ASSUME NEW g \in live', NEW a \in Accounts
                 PROVE  (~Contested(a) /\ Handed(g, a) /\ Once(Late(g, a)) => Given(g, a))'
      BY DEF HandedInv
    <2>1. CASE g = f
      <3>1. Late(f, a)' = {}
        <4>1. \A p \in PartsOf(a) : p[1] <= Len(executed) /\ p[1] \in Nat
          BY PartsType DEF PartsOf, BaseInv
        <4> QED BY <1>2, <1>6, <1>7, <4>1, SameChain DEF Late
      <3> QED BY <1>2, <1>10, <1>12, <2>1, <3>1 DEF Given
    <2>2. CASE g # f
      <3>1. g \in live /\ forkAt'[g] = forkAt[g]
        BY <1>2, <1>7, <1>8, <2>2
      <3> QED BY <1>2, <1>12, <3>1, SameGiven DEF HandedInv
    <2> QED BY <2>1, <2>2
  <1>14. RestoredInv'
    <2> SUFFICES ASSUME NEW g \in live', NEW a \in Accounts, Good(g, a)', NEW p \in Back(g, a)'
                 PROVE  /\ Puts(g, a)' = {}
                        /\ (\A d \in Callers : Makes(d, g)' => Done(d, p)') => forkWallet'[g][a] = BaseWallet(g, a)'
      BY DEF RestoredInv
    <2>1. CASE g = f
      <3>1. Makes(c, f)'
        BY <1>9
      <3>2. p \in Parts /\ \E i \in job[c].index..job[c].cursor : p[1] = files[i]
        BY <1>2, <1>6, <1>7, <2>1, SameChain DEF Back, UndoneOf, PartsOf
      <3>3. ~Done(c, p)'
        <4>1. PICK i \in job[c].index..job[c].cursor : p[1] = files[i]
          BY <3>2
        <4>2. i \in DOMAIN files /\ i <= job[c].cursor /\ i \in Nat /\ job[c].cursor \in Nat
          BY <1>2, <1>3, <4>1 DEF Jobs, BaseInv, LedgerType
        <4>3. p[2] \in Nat /\ p[2] # 0
          BY <3>2, PartsIff, PartsType DEF BaseInv, Blocks
        <4>4. ASSUME NEW k \in DOMAIN files, k > job[c].cursor PROVE files[k] # p[1]
          <5>1. i < k
            BY <4>2, <4>4 DEF BaseInv, LedgerType
          <5>2. files[i] < files[k] /\ files[i] \in Nat /\ files[k] \in Nat
            <6>1. files \in Seq(Nat) /\ FilesFit
              BY DEF BaseInv, LedgerType
            <6>2. files[i] < files[k]
              BY <4>2, <5>1, <6>1 DEF FilesFit
            <6> QED BY <4>2, <6>1, <6>2
          <5> QED BY <4>1, <5>2
        <4>5. job'[c].cursor = job[c].cursor /\ job'[c].next = 1 /\ job'[c].step = "undo"
          BY <1>4, <1>5
        <4>6. ~(p[2] < 1)
          BY <4>3
        <4> QED BY <1>2, <4>4, <4>5, <4>6 DEF Done
      <3> QED BY <1>3, <1>10, <1>12, <2>1, <3>1, <3>3
    <2>2. CASE g # f
      <3>1. g \in live /\ forkAt'[g] = forkAt[g]
        BY <1>2, <1>7, <1>8, <2>2
      <3>2. Good(g, a) /\ p \in Back(g, a) /\ BaseWallet(g, a)' = BaseWallet(g, a)
        BY <1>2, <3>1, SameBase, SameBack
      <3>3. \A d \in Callers : Makes(d, g) => Makes(d, g)' /\ (Done(d, p)' <=> Done(d, p))
        BY <1>2, <1>5, <1>8, <1>9 DEF Done
      <3> QED BY <1>2, <1>12, <3>1, <3>2, <3>3 DEF RestoredInv
    <2> QED BY <2>1, <2>2
  <1>15. MakingInv'
    <2> SUFFICES ASSUME NEW d \in Callers, NEW g \in Forks, NEW t \in Txs,
                        job'[d].step \in {"read", "pay", "paid"}, g = job'[d].target, t = Undo(d)'
                 PROVE  /\ job'[d].step = "read" /\ Good(g, Sender[t])' =>
                              job'[d].from = Moved(BaseWallet(g, Sender[t]), UndoPart(d, "subtract"))'
                        /\ job'[d].step = "pay" /\ Good(g, Sender[t])' => job'[d].from = BaseWallet(g, Sender[t])'
                        /\ job'[d].step \in {"pay", "paid"} /\ Good(g, Recipient[t])' =>
                              job'[d].to = BaseWallet(g, Recipient[t])'
      BY DEF MakingInv
    <2>1. d # c /\ job'[d] = job[d]
      BY <1>4, <1>5
    <2>2. forkAt'[job[d].target] = forkAt[job[d].target]
      <3>1. Makes(d, job[d].target)
        BY <2>1 DEF Makes, MakingSteps
      <3> QED BY <1>7, <1>8, <3>1
    <2> QED BY <1>2, <2>1, <2>2, SameMaking
  <1> QED BY <1>11, <1>13, <1>14, <1>15

\* Steps of operations and puts: what they leave alone.
LEMMA SameForks ==
    ASSUME ForkCourse, MakingInv, UNCHANGED <<live, job, chain, forkAt>>,
           \A op \in ops' : \E o \in ops : op.part = o.part
    PROVE  /\ StateCourse' /\ MakersCourse' /\ MakingInv'
           /\ \A f, a : /\ Good(f, a)' = Good(f, a) /\ Back(f, a)' = Back(f, a) /\ Handed(f, a)' = Handed(f, a)
                        /\ Late(f, a)' = Late(f, a) /\ BaseWallet(f, a)' = BaseWallet(f, a)
           /\ \A a : Contested(a)' = Contested(a)
           /\ \A c, f : Makes(c, f)' <=> Makes(c, f)
           /\ \A c, p : Done(c, p)' <=> Done(c, p)
  <1>1. executed' = executed /\ files' = files /\ forkAt' = forkAt /\ live' = live /\ job' = job
    BY DEF chain
  <1>2. /\ \A f, a : /\ Good(f, a)' = Good(f, a) /\ Back(f, a)' = Back(f, a) /\ Handed(f, a)' = Handed(f, a)
                     /\ Late(f, a)' = Late(f, a) /\ BaseWallet(f, a)' = BaseWallet(f, a)
        /\ \A a : Contested(a)' = Contested(a)
    BY <1>1, SameBase, SameLate, SameBack, SameChain
  <1>3. (\A c, f : Makes(c, f)' <=> Makes(c, f)) /\ (\A c, p : Done(c, p)' <=> Done(c, p))
    BY <1>1 DEF Makes, Done
  <1>4. StateCourse'
    BY <1>1 DEF ForkCourse, StateCourse
  <1>5. MakersCourse'
    BY <1>1, <1>3 DEF ForkCourse, MakersCourse
  <1>6. MakingInv'
    <2> SUFFICES ASSUME NEW d \in Callers, NEW g \in Forks, NEW t \in Txs,
                        job'[d].step \in {"read", "pay", "paid"}, g = job'[d].target, t = Undo(d)'
                 PROVE  /\ job'[d].step = "read" /\ Good(g, Sender[t])' =>
                              job'[d].from = Moved(BaseWallet(g, Sender[t]), UndoPart(d, "subtract"))'
                        /\ job'[d].step = "pay" /\ Good(g, Sender[t])' => job'[d].from = BaseWallet(g, Sender[t])'
                        /\ job'[d].step \in {"pay", "paid"} /\ Good(g, Recipient[t])' =>
                              job'[d].to = BaseWallet(g, Recipient[t])'
      BY DEF MakingInv
    <2> QED BY <1>1, SameMaking
  <1> QED BY <1>2, <1>3, <1>4, <1>5, <1>6

\* Steps of operations that give a fork nothing.
LEMMA NothingGiven ==
    ASSUME BaseInv, ForkCourse, HandedInv, RestoredInv, MakingInv,
           UNCHANGED <<forkWallet, pending, live, job, chain, forkAt>>,
           \A op \in ops' : /\ \E o \in ops : op.part = o.part
                            /\ op.todo \subseteq live /\ (op.todo # {} => op.copy # NotRead),
           \A f \in live, op \in ops : op.copy = NotRead \/ f \in op.todo =>
               \E o \in ops' : o.part = op.part /\ (o.copy = NotRead \/ f \in o.todo)
    PROVE  ForkCourse' /\ HandedInv' /\ RestoredInv' /\ MakingInv'
  <1>1. /\ executed' = executed /\ files' = files /\ forkAt' = forkAt /\ live' = live /\ job' = job
        /\ forkWallet' = forkWallet /\ pending' = pending /\ \A f, a : Puts(f, a)' = Puts(f, a)
    BY DEF chain, Puts
  <1>2. /\ StateCourse' /\ MakersCourse' /\ MakingInv'
        /\ \A f, a : /\ Good(f, a)' = Good(f, a) /\ Back(f, a)' = Back(f, a)
                     /\ BaseWallet(f, a)' = BaseWallet(f, a)
        /\ \A c, f : Makes(c, f)' <=> Makes(c, f)
        /\ \A c, p : Done(c, p)' <=> Done(c, p)
    BY SameForks
  <1>3. ForkType' /\ HandCourse'
    BY <1>1 DEF ForkCourse, ForkType, HandCourse
  <1>4. HandedInv'
    <2> SUFFICES ASSUME NEW f \in live, NEW a \in Accounts
                 PROVE  (~Contested(a) /\ Handed(f, a) /\ Once(Late(f, a)) => Given(f, a))'
      BY <1>1 DEF HandedInv
    <2>1. \A p \in Late(f, a), op \in ops :
             op.part = p /\ (op.copy = NotRead \/ f \in op.todo) =>
                 \E o \in ops' : o.part = p /\ (o.copy = NotRead \/ f \in o.todo)
      OBVIOUS
    <2> QED BY <1>1, <2>1, SameGiven DEF HandedInv
  <1>5. RestoredInv'
    BY <1>1, <1>2 DEF RestoredInv
  <1> QED BY <1>2, <1>3, <1>4, <1>5 DEF ForkCourse

LEMMA OperationFork ==
    ASSUME BaseInv, ForkCourse, HandedInv, RestoredInv, MakingInv, NEW op \in ops, GetWallet(op) \/ SetWallet(op)
    PROVE  ForkCourse' /\ HandedInv' /\ RestoredInv' /\ MakingInv'
  <1>1. UNCHANGED <<forkWallet, pending, live, job, chain, forkAt>>
    BY DEF GetWallet, SetWallet, disk, history
  <1>2. \A o \in ops : o.todo \subseteq live /\ (o.todo # {} => o.copy # NotRead)
    BY DEF ForkCourse, HandCourse
  <1>3. CASE GetWallet(op)
    <2>1. PICK new \in Ops : /\ ops' = (ops \ {op}) \cup {new}
                             /\ new.part = op.part /\ new.copy # NotRead /\ new.todo = live
      BY <1>3, GetWalletOp
    <2>2. \A o \in ops' : /\ \E b \in ops : o.part = b.part
                          /\ o.todo \subseteq live /\ (o.todo # {} => o.copy # NotRead)
      BY <1>2, <2>1
    <2>3. \A f \in live, o \in ops : o.copy = NotRead \/ f \in o.todo =>
             \E b \in ops' : b.part = o.part /\ (b.copy = NotRead \/ f \in b.todo)
      BY <2>1
    <2> QED BY <1>1, <2>2, <2>3, NothingGiven
  <1>4. CASE SetWallet(op)
    <2>1. ops' = ops \ {op} /\ op.copy # NotRead /\ op.todo = {}
      BY <1>4 DEF SetWallet
    <2>2. \A f \in live, o \in ops : o.copy = NotRead \/ f \in o.todo =>
             \E b \in ops' : b.part = o.part /\ (b.copy = NotRead \/ f \in b.todo)
      BY <2>1
    <2> QED BY <1>1, <1>2, <2>1, <2>2, NothingGiven
  <1> QED BY <1>3, <1>4

LEMMA CheckForkFork ==
    ASSUME BaseInv, ForkCourse, HandedInv, RestoredInv, MakingInv, seen = {}, seen' = {},
           NEW op \in ops, NEW f \in Forks, CheckFork(op, f)
    PROVE  ForkCourse' /\ HandedInv' /\ RestoredInv' /\ MakingInv'
  <1> DEFINE new == [part |-> op.part, copy |-> op.copy, todo |-> op.todo \ {f}]
  <1>1. PICK a : a = Account(op.part)
    OBVIOUS
  <1>2. ops' = (ops \ {op}) \cup {new}
    BY CheckForkOp
  <1>3. new.part = op.part /\ new.copy = op.copy /\ new.todo = op.todo \ {f}
    OBVIOUS
  <1> HIDE DEF new
  <1>4. /\ UNCHANGED <<live, job, chain, forkAt>> /\ live' = live /\ forkAt' = forkAt
        /\ executed' = executed /\ files' = files /\ forkWallet' = forkWallet /\ f \in op.todo
    BY DEF CheckFork, chain, history
  <1>5. pending' = IF forkWallet[f][a] = NoWallet THEN pending \cup {<<f, a, op.copy>>} ELSE pending
    BY <1>1 DEF CheckFork, GetData, Kept
  <1>6. /\ f \in live /\ op.copy # NotRead /\ op.copy \in Wallet /\ a \in Accounts
        /\ op.part \in PartsOf(a) /\ Running(op.part)
    <2>1. f \in live /\ op.copy # NotRead
      BY <1>4 DEF ForkCourse, HandCourse
    <2> QED BY <1>1, <2>1, OpType DEF BaseInv, PartsOf, Running
  <1>7. /\ StateCourse' /\ MakersCourse' /\ MakingInv'
        /\ \A g, x : /\ Good(g, x)' = Good(g, x) /\ Back(g, x)' = Back(g, x)
                     /\ BaseWallet(g, x)' = BaseWallet(g, x) /\ Late(g, x)' = Late(g, x)
                     /\ Handed(g, x)' = Handed(g, x)
        /\ \A x : Contested(x)' = Contested(x)
        /\ \A c, g : Makes(c, g)' <=> Makes(c, g)
        /\ \A c, p : Done(c, p)' <=> Done(c, p)
    <2>1. \A o \in ops' : \E b \in ops : o.part = b.part
      BY <1>2, <1>3
    <2> QED BY <1>4, <2>1, SameForks
  <1>8. ForkType' /\ HandCourse'
    <2>1. \A o \in ops' : o.todo \subseteq live /\ (o.todo # {} => o.copy # NotRead)
      BY <1>2, <1>3, <1>6 DEF ForkCourse, HandCourse
    <2> QED BY <1>4, <1>5, <1>6, <2>1 DEF ForkCourse, ForkType, HandCourse
  <1>9. \A g, x : g # f \/ x # a \/ forkWallet[f][a] # NoWallet => Puts(g, x)' = Puts(g, x)
    BY <1>5 DEF Puts
  <1>10. op.part \notin Back(f, a) /\ ~Early(f, op.part)
    <2>1. op.part[1] \notin UndoneOf(f)
      BY <1>6 DEF UndoneOf, ForkCourse, StateCourse
    <2>2. BaseOf(f) \in DOMAIN executed
      BY <1>6, BaseWalletType
    <2> QED BY <2>1, <2>2 DEF Back, Early, BaseInv, OverIsOver
  <1>11. HandedInv'
    <2> SUFFICES ASSUME NEW g \in live, NEW x \in Accounts
                 PROVE  (~Contested(x) /\ Handed(g, x) /\ Once(Late(g, x)) => Given(g, x))'
      BY <1>4 DEF HandedInv
    <2>1. CASE g # f \/ x # a
      <3>1. ASSUME NEW p \in Late(g, x), NEW o \in ops, o.part = p, o.copy = NotRead \/ g \in o.todo
            PROVE  \E b \in ops' : b.part = p /\ (b.copy = NotRead \/ g \in b.todo)
        <4>1. Account(p) = x
          BY DEF Late, PartsOf
        <4>2. CASE o = op
          <5>1. g # f
            BY <1>1, <2>1, <3>1, <4>1, <4>2
          <5> QED BY <1>2, <1>3, <3>1, <4>2, <5>1
        <4> QED BY <1>2, <3>1, <4>2
      <3> QED BY <1>4, <1>9, <2>1, <3>1, SameGiven DEF HandedInv
    <2>2. CASE g = f /\ x = a
      <3> SUFFICES ASSUME ~Contested(a), Handed(f, a), Once(Late(f, a))
                   PROVE  Given(f, a)'
        BY <1>7, <2>2 DEF Once
      <3>1. Given(f, a)
        BY <1>6 DEF HandedInv
      <3>2. BaseWallet(f, a) \in Wallet /\ BaseWallet(f, a) # NoWallet
        BY <1>6, BaseWalletType
      <3>3. op.copy = BaseWallet(f, a)
        <4>1. op.part \in Late(f, a)
          BY <1>6, <1>10 DEF Handed
        <4>2. \A p \in PartsOf(a) : Early(f, p) \/ Running(p)
          BY <1>6, <4>1 DEF Handed, Once
        <4>3. wallet[a] = BaseWallet(f, a)
          BY <1>6, <4>2, BaseStill
        <4>4. Alone(op.part)
          BY <1>1, <1>6, AloneRaced DEF PartsOf
        <4> QED BY <1>1, <1>6, <4>3, <4>4, AloneStill DEF BaseInv, CopiesFit
      <3>4. CASE forkWallet[f][a] # NoWallet
        BY <1>4, <1>7, <1>9, <3>1, <3>4 DEF Given
      <3>5. CASE forkWallet[f][a] = NoWallet
        <4>1. Puts(f, a)' = Puts(f, a) \cup {<<f, a, BaseWallet(f, a)>>}
          BY <1>5, <3>3, <3>5 DEF Puts
        <4>2. Puts(f, a) \in {{}, {<<f, a, BaseWallet(f, a)>>}}
          BY <3>1, <3>2, <3>5 DEF Given
        <4> QED BY <1>4, <1>7, <3>5, <4>1, <4>2 DEF Given
      <3> QED BY <3>4, <3>5
    <2> QED BY <2>1, <2>2
  <1>12. RestoredInv'
    <2> SUFFICES ASSUME NEW g \in live, NEW x \in Accounts, Good(g, x), NEW p \in Back(g, x)
                 PROVE  /\ Puts(g, x)' = {}
                        /\ (\A c \in Callers : Makes(c, g) => Done(c, p)) => forkWallet[g][x] = BaseWallet(g, x)
      BY <1>4, <1>7 DEF RestoredInv
    <2>1. /\ Puts(g, x) = {}
          /\ (\A c \in Callers : Makes(c, g) => Done(c, p)) => forkWallet[g][x] = BaseWallet(g, x)
      BY DEF RestoredInv
    <2>2. CASE g = f /\ x = a
      <3>1. forkAt[f].ready # 0
        BY <1>6, <1>10, <2>2 DEF Good, Restored
      <3>2. \A c \in Callers : ~Makes(c, f)
        BY <3>1 DEF Makes, ForkCourse, MakersCourse
      <3>3. forkWallet[f][a] = BaseWallet(f, a) /\ BaseWallet(f, a) # NoWallet
        BY <1>6, <2>1, <2>2, <3>2, BaseWalletType
      <3> QED BY <1>9, <2>1, <2>2, <3>3
    <2> QED BY <1>9, <2>1, <2>2
  <1> QED BY <1>7, <1>8, <1>11, <1>12 DEF ForkCourse

LEMMA ForkPutFork ==
    ASSUME BaseInv, ForkCourse, HandedInv, RestoredInv, MakingInv, NEW put \in pending, ForkPut(put)
    PROVE  ForkCourse' /\ HandedInv' /\ RestoredInv' /\ MakingInv'
  <1>1. PICK f, a : f = put[1] /\ a = put[2]
    OBVIOUS
  <1>2. /\ UNCHANGED <<live, job, chain, forkAt>> /\ live' = live /\ forkAt' = forkAt /\ ops' = ops
        /\ executed' = executed /\ files' = files /\ pending' = pending \ {put}
        /\ forkWallet' = [forkWallet EXCEPT ![f][a] = put[3]]
    BY <1>1 DEF ForkPut, chain, history
  <1>3. /\ f \in live /\ f \in Forks /\ a \in Accounts /\ put[3] \in Wallet /\ put = <<f, a, put[3]>>
        /\ put \in Puts(f, a)
    BY <1>1 DEF ForkCourse, ForkType, HandCourse, Puts
  <1>4. /\ forkWallet' \in [Forks -> [Accounts -> Wallet \cup {NoWallet}]]
        /\ \A g \in Forks, x \in Accounts : g # f \/ x # a => forkWallet'[g][x] = forkWallet[g][x]
        /\ forkWallet'[f][a] = put[3] /\ live \subseteq Forks
    BY <1>2, <1>3 DEF ForkCourse, ForkType, BaseInv, LedgerType
  <1>5. /\ StateCourse' /\ MakersCourse' /\ MakingInv'
        /\ \A g, x : /\ Good(g, x)' = Good(g, x) /\ Back(g, x)' = Back(g, x)
                     /\ BaseWallet(g, x)' = BaseWallet(g, x) /\ Late(g, x)' = Late(g, x)
                     /\ Handed(g, x)' = Handed(g, x)
        /\ \A x : Contested(x)' = Contested(x)
        /\ \A c, g : Makes(c, g)' <=> Makes(c, g)
        /\ \A c, p : Done(c, p)' <=> Done(c, p)
    BY <1>2, SameForks
  <1>6. ForkType' /\ HandCourse'
    BY <1>2, <1>3, <1>4 DEF ForkCourse, ForkType, HandCourse
  <1>7. /\ \A g, x : g # f \/ x # a => Puts(g, x)' = Puts(g, x)
        /\ Puts(f, a)' = Puts(f, a) \ {put}
    BY <1>1, <1>2 DEF Puts
  <1>8. HandedInv'
    <2> SUFFICES ASSUME NEW g \in live, NEW x \in Accounts, ~Contested(x), Handed(g, x), Once(Late(g, x))
                 PROVE  Given(g, x)'
      BY <1>2, <1>5 DEF HandedInv, Once
    <2>1. Given(g, x)
      BY DEF HandedInv
    <2>2. CASE g # f \/ x # a
      <3>1. forkWallet'[g][x] = forkWallet[g][x] /\ Puts(g, x)' = Puts(g, x)
        BY <1>4, <1>7, <2>2
      <3> QED BY <1>2, <1>5, <2>1, <3>1 DEF Given
    <2>3. CASE g = f /\ x = a
      <3>1. Puts(f, a) = {<<f, a, BaseWallet(f, a)>>}
        BY <1>3, <2>1, <2>3 DEF Given
      <3>2. put[3] = BaseWallet(f, a) /\ Puts(f, a)' = {}
        BY <1>3, <1>7, <3>1
      <3> QED BY <1>4, <1>5, <2>3, <3>2 DEF Given
    <2> QED BY <2>2, <2>3
  <1>9. RestoredInv'
    <2> SUFFICES ASSUME NEW g \in live, NEW x \in Accounts, Good(g, x), NEW p \in Back(g, x)
                 PROVE  /\ Puts(g, x)' = {}
                        /\ (\A c \in Callers : Makes(c, g) => Done(c, p)) => forkWallet'[g][x] = BaseWallet(g, x)
      BY <1>2, <1>5 DEF RestoredInv
    <2>1. Puts(g, x) = {}
      BY DEF RestoredInv
    <2>2. g # f \/ x # a
      BY <1>3, <2>1
    <2> QED BY <1>4, <1>7, <2>2 DEF RestoredInv
  <1> QED BY <1>5, <1>6, <1>8, <1>9 DEF ForkCourse

\* A new block leaves the state of main at which a fork began, and what is rolled back.
LEMMA ForkStays ==
    ASSUME BaseInv, ForkCourse, NEW c \in Callers, AdjustWallets(c), NEW f \in live
    PROVE  /\ UndoneOf(f)' = UndoneOf(f)
           /\ \A a \in Accounts : BaseWallet(f, a)' = BaseWallet(f, a) /\ Back(f, a)' = Back(f, a)
           /\ \A p : Early(f, p)' = Early(f, p)
           /\ \A p \in Parts' : Early(f, p) => p \in Parts
  <1>1. PICK b \in Blocks : executed' = Append(executed, b)
    BY Executes
  <1>2. /\ Len(executed) \in Nat /\ DOMAIN executed = 1..Len(executed)
        /\ \A n \in DOMAIN executed : executed'[n] = executed[n]
        /\ \A p \in Parts' : p \in Parts \/ p[1] = Len(executed) + 1
        /\ \A a : /\ PartsOf(a) \subseteq PartsOf(a)'
                  /\ \A p \in PartsOf(a)' : p \in PartsOf(a) \/ p[1] = Len(executed) + 1
    BY <1>1, NewBlock DEF BaseInv
  <1>3. /\ \A i \in DOMAIN files : files'[i] = files[i]
        /\ Len(files) \in Nat /\ DOMAIN files = 1..Len(files)
    BY FilesGrow
  <1>4. /\ f \in Forks /\ forkAt' = forkAt /\ forkAt[f].base \in DOMAIN files /\ forkAt[f].latest <= Len(files)
        /\ forkAt[f].latest \in Nat /\ forkAt[f].over \subseteq DOMAIN executed
    BY DEF AdjustWallets, history, BaseInv, LedgerType, ForkCourse, ForkType, ForkStates, StateCourse
  <1>5. \A i \in forkAt[f].base..forkAt[f].latest : i \in DOMAIN files
    BY <1>3, <1>4
  <1>6. UndoneOf(f)' = UndoneOf(f) /\ UndoneOf(f) \subseteq DOMAIN executed
    BY <1>3, <1>4, <1>5 DEF UndoneOf
  <1>7. BaseOf(f)' = BaseOf(f) /\ BaseOf(f) \in DOMAIN executed
    <2>1. BaseOf(f) \in DOMAIN executed
      BY <1>4 DEF BaseOf, BaseInv, FilesFit
    <2> QED BY <1>3, <1>4, <2>1 DEF BaseOf
  <1>8. executed'[BaseOf(f)] = executed[BaseOf(f)]
    BY <1>2, <1>7
  <1>9. (\A a : BaseWallet(f, a)' = BaseWallet(f, a)) /\ (\A p : Early(f, p)' = Early(f, p))
    BY <1>7, <1>8 DEF BaseWallet, Early
  <1>10. \A a : Back(f, a)' = Back(f, a)
    BY <1>2, <1>6 DEF Back
  <1>11. \A p \in Parts' : Early(f, p) => p \in Parts
    BY <1>2, <1>7 DEF Early, BaseInv, OverIsOver
  <1> QED BY <1>6, <1>9, <1>10, <1>11

LEMMA AdjustWalletsFork ==
    ASSUME BaseInv, ForkCourse, HandedInv, RestoredInv, MakingInv, NEW c \in Callers, AdjustWallets(c)
    PROVE  ForkCourse' /\ HandedInv' /\ RestoredInv' /\ MakingInv'
  <1>1. PICK b \in Blocks :
           /\ executed' = Append(executed, b)
           /\ \A p \in Parts' : p \in Parts \/ Running(p)'
           /\ \A op \in ops' : op \in ops \/ ( /\ op.part \in Parts' /\ op.part[1] = Len(executed) + 1
                                               /\ op.copy = NotRead /\ op.todo = {} )
           /\ ops \subseteq ops'
    BY Executes
  <1>2. /\ Len(executed) \in Nat /\ Len(executed') = Len(executed) + 1
        /\ DOMAIN executed = 1..Len(executed) /\ DOMAIN executed' = 1..(Len(executed) + 1)
        /\ \A n \in DOMAIN executed : executed'[n] = executed[n]
        /\ \A p \in Parts : Tx(p)' = Tx(p)
        /\ \A a : /\ PartsOf(a) \subseteq PartsOf(a)' /\ (Contested(a) => Contested(a)')
                  /\ \A p \in PartsOf(a)' : p \in PartsOf(a) \/ p[1] = Len(executed) + 1
    BY <1>1, NewBlock DEF BaseInv
  <1>3. /\ DOMAIN files \subseteq DOMAIN files' /\ Len(files') >= Len(files) /\ Len(files) \in Nat /\ Len(files') \in Nat
        /\ DOMAIN files = 1..Len(files)
        /\ \A i \in DOMAIN files : files'[i] = files[i]
        /\ \A i \in DOMAIN files' : i \in DOMAIN files \/ (i = Len(files) + 1 /\ files'[i] = Len(executed) + 1)
    BY FilesGrow
  <1>4. /\ forkAt' = forkAt /\ live' = live /\ forkWallet' = forkWallet /\ pending' = pending
        /\ live \subseteq Forks
        /\ \A g, a : Puts(g, a)' = Puts(g, a)
    BY DEF AdjustWallets, history, disk, BaseInv, LedgerType, Puts
  <1>5. \A d \in Callers : \/ job'[d] = job[d]
                           \/ job[d].step \notin MakingSteps /\ job'[d].step \notin MakingSteps
    <2> DEFINE j == [Idle EXCEPT !.step = "adjust", !.number = Len(executed) + 1]
    <2>1. j.step = "adjust" /\ job' = [job EXCEPT ![c] = j] /\ job[c].step = "verify"
      BY DEF Idle, AdjustWallets, Accepted
    <2> HIDE DEF j
    <2> QED BY <2>1 DEF BaseInv, LedgerType, MakingSteps
  <1>6. \A d \in Callers : job[d].step \in MakingSteps \/ job'[d].step \in MakingSteps => job'[d] = job[d]
    BY <1>5
  <1>7. \A d \in Callers : \A g : Makes(d, g)' <=> Makes(d, g)
    BY <1>6 DEF Makes
  <1>8. ForkCourse'
    <2>1. ForkType'
      BY <1>4 DEF ForkCourse, ForkType
    <2>2. HandCourse'
      BY <1>1, <1>4 DEF ForkCourse, HandCourse
    <2>3. StateCourse'
      <3> SUFFICES ASSUME NEW f \in live
                   PROVE  /\ forkAt[f].base \in DOMAIN files' /\ forkAt[f].latest <= Len(files')
                          /\ forkAt[f].opened <= Len(executed') /\ forkAt[f].ready <= Len(executed')
                          /\ forkAt[f].over \subseteq DOMAIN executed'
                          /\ \A i \in DOMAIN files' : i <= forkAt[f].latest => files'[i] <= forkAt[f].opened
                          /\ \A op \in ops' : op.part[1] \notin forkAt[f].over
        BY <1>4 DEF StateCourse
      <3>1. /\ forkAt[f].base \in DOMAIN files /\ forkAt[f].latest <= Len(files)
            /\ forkAt[f].opened <= Len(executed) /\ forkAt[f].ready <= Len(executed)
            /\ forkAt[f].over \subseteq DOMAIN executed
            /\ \A i \in DOMAIN files : i <= forkAt[f].latest => files[i] <= forkAt[f].opened
            /\ \A op \in ops : op.part[1] \notin forkAt[f].over
        BY DEF ForkCourse, StateCourse
      <3>2. forkAt[f].latest \in Nat /\ forkAt[f].opened \in Nat /\ forkAt[f].ready \in Nat
        BY <1>4 DEF ForkCourse, ForkType, ForkStates
      <3>3. \A i \in DOMAIN files' : i <= forkAt[f].latest => files'[i] <= forkAt[f].opened
        BY <1>3, <3>1, <3>2
      <3>4. \A op \in ops' : op.part[1] \notin forkAt[f].over
        BY <1>1, <1>2, <3>1
      <3> QED BY <1>2, <1>3, <3>1, <3>2, <3>3, <3>4
    <2>4. MakersCourse'
      BY <1>4, <1>6, <1>7 DEF ForkCourse, MakersCourse
    <2> QED BY <2>1, <2>2, <2>3, <2>4 DEF ForkCourse
  <1>9. HandedInv'
    <2> SUFFICES ASSUME NEW f \in live, NEW a \in Accounts, ~Contested(a)', Handed(f, a)', Once(Late(f, a))'
                 PROVE  Given(f, a)'
      BY <1>4 DEF HandedInv
    <2>1. Late(f, a) \subseteq Late(f, a)'
      BY <1>2, <1>4 DEF Late
    <2>2. Handed(f, a)
      BY <1>2, <1>4, ForkStays DEF Handed, Late
    <2>3. ~Contested(a) /\ Once(Late(f, a))
      BY <1>2, <2>1 DEF Once
    <2>4. Given(f, a)
      BY <2>2, <2>3 DEF HandedInv
    <2>5. ASSUME NEW p \in Late(f, a)', p \notin Late(f, a) PROVE \E op \in ops' : op.part = p /\ op.copy = NotRead
      <3>1. p \in Parts' /\ p \notin Parts
        <4>1. p \in PartsOf(a)' /\ p[1] > forkAt[f].opened
          BY <1>4 DEF Late
        <4>2. p \notin PartsOf(a)
          BY <2>5, <4>1 DEF Late
        <4>3. p[1] = Len(executed) + 1 /\ p \in Parts'
          BY <1>2, <4>1, <4>2 DEF PartsOf
        <4> QED BY <1>2, <4>3, PartsIff
      <3>2. PICK op \in ops' : op.part = p
        BY <1>1, <3>1 DEF Running
      <3>3. op \notin ops
        BY <3>1, <3>2 DEF BaseInv, OpsFit
      <3> QED BY <1>1, <3>2, <3>3
    <2>6. BaseWallet(f, a)' = BaseWallet(f, a)
      BY ForkStays
    <2> QED BY <1>1, <1>4, <2>4, <2>5, <2>6 DEF Given
  <1>10. \A f \in live, a \in Accounts : Good(f, a)' => Good(f, a)
    <2> SUFFICES ASSUME NEW f \in live, NEW a \in Accounts, Good(f, a)' PROVE Good(f, a)
      OBVIOUS
    <2>1. Back(f, a)' = Back(f, a) /\ \A p : Early(f, p)' = Early(f, p)
      BY ForkStays
    <2> QED BY <1>2, <1>4, <2>1 DEF Good, Restored, Once
  <1>11. \A d \in Callers, p \in Parts : job'[d] = job[d] => (Done(d, p)' => Done(d, p))
    <2> SUFFICES ASSUME NEW d \in Callers, NEW p \in Parts, job'[d] = job[d], Done(d, p)'
                 PROVE  Done(d, p)
      OBVIOUS
    <2>1. p[1] # Len(executed) + 1
      BY <1>2, PartsIff
    <2>2. \A i \in DOMAIN files' : files'[i] = p[1] => i \in DOMAIN files /\ files[i] = p[1]
      BY <1>3, <2>1
    <2> QED BY <1>3, <2>2 DEF Done
  <1>12. RestoredInv'
    <2> SUFFICES ASSUME NEW f \in live, NEW a \in Accounts, Good(f, a)', NEW p \in Back(f, a)'
                 PROVE  /\ Puts(f, a)' = {}
                        /\ (\A d \in Callers : Makes(d, f)' => Done(d, p)') => forkWallet'[f][a] = BaseWallet(f, a)'
      BY <1>4 DEF RestoredInv
    <2>1. Good(f, a) /\ p \in Back(f, a) /\ BaseWallet(f, a)' = BaseWallet(f, a) /\ p \in Parts
      BY <1>10, ForkStays DEF Back, PartsOf
    <2>2. \A d \in Callers : Makes(d, f) => Makes(d, f)' /\ (Done(d, p)' => Done(d, p))
      BY <1>6, <1>7, <1>11, <2>1 DEF Makes
    <2> QED BY <1>4, <2>1, <2>2 DEF RestoredInv
  <1>13. MakingInv'
    <2> SUFFICES ASSUME NEW d \in Callers, NEW g \in Forks, NEW t \in Txs,
                        job'[d].step \in {"read", "pay", "paid"}, g = job'[d].target, t = Undo(d)'
                 PROVE  /\ job'[d].step = "read" /\ Good(g, Sender[t])' =>
                              job'[d].from = Moved(BaseWallet(g, Sender[t]), UndoPart(d, "subtract"))'
                        /\ job'[d].step = "pay" /\ Good(g, Sender[t])' => job'[d].from = BaseWallet(g, Sender[t])'
                        /\ job'[d].step \in {"pay", "paid"} /\ Good(g, Recipient[t])' =>
                              job'[d].to = BaseWallet(g, Recipient[t])'
      BY DEF MakingInv
    <2>1. job'[d] = job[d]
      BY <1>6 DEF MakingSteps
    <2>2. job[d].cursor \in DOMAIN files /\ files[job[d].cursor] \in DOMAIN executed
      BY <2>1, UndoType DEF BaseInv
    <2>3. t = Undo(d) /\ UndoPart(d, "subtract")' = UndoPart(d, "subtract")
      BY <1>2, <1>3, <2>1, <2>2 DEF Undo, Undone, UndoPart
    <2>4. g \in live /\ UndoPart(d, "subtract") \in Parts
      BY <2>1, UndoPartFacts DEF Sides
    <2>5. Moved(BaseWallet(g, Sender[t]), UndoPart(d, "subtract"))' = Moved(BaseWallet(g, Sender[t]), UndoPart(d, "subtract"))
      BY <1>2, <2>3, <2>4, ForkStays, WalletLedgerAssumption DEF Moved
    <2>6. /\ Sender[t] \in Accounts /\ Recipient[t] \in Accounts
          /\ BaseWallet(g, Sender[t])' = BaseWallet(g, Sender[t])
          /\ BaseWallet(g, Recipient[t])' = BaseWallet(g, Recipient[t])
          /\ Good(g, Sender[t])' => Good(g, Sender[t])
          /\ Good(g, Recipient[t])' => Good(g, Recipient[t])
      BY <1>10, <2>4, ForkStays, WalletLedgerAssumption
    <2> QED BY <2>1, <2>3, <2>5, <2>6 DEF MakingInv
  <1> QED BY <1>8, <1>9, <1>12, <1>13

LEMMA ForkInit == Init => ForkInv
  <1> SUFFICES ASSUME Init PROVE ForkInv
    OBVIOUS
  <1>1. /\ executed = << >> /\ files = << >> /\ live = {} /\ pending = {} /\ ops = {}
        /\ job = [c \in Callers |-> Idle] /\ Idle.step = "idle"
        /\ forkWallet = [f \in Forks |-> [a \in Accounts |-> NoWallet]]
        /\ forkAt = [f \in Forks |-> [base |-> 0, latest |-> 0, over |-> {}, opened |-> 0, ready |-> 0]]
    BY DEF Init, Idle
  <1>2. BeforeStill
    BY <1>1 DEF BeforeStill
  <1>3. ForkCourse
    BY <1>1 DEF ForkCourse, ForkType, ForkStates, HandCourse, StateCourse, MakersCourse, Makes, MakingSteps
  <1>4. HandedInv /\ RestoredInv /\ MakingInv
    BY <1>1 DEF HandedInv, RestoredInv, MakingInv
  <1> QED BY <1>2, <1>3, <1>4 DEF ForkInv

LEMMA ForkStep == BaseInv /\ AtomicInv /\ ForkInv /\ [Next]_vars => ForkInv'
  <1> SUFFICES ASSUME BaseInv, AtomicInv, ForkInv, [Next]_vars PROVE ForkInv'
    OBVIOUS
  <1>1. BeforeStill /\ BeforeStill'
    BY BeforeStillStep DEF ForkInv
  <1> SUFFICES ASSUME seen' = {} PROVE ForkCourse' /\ HandedInv' /\ RestoredInv' /\ MakingInv'
    BY <1>1 DEF ForkInv
  <1>2. seen = {}
    <2>1. ASSUME NEW c \in Callers, AdjustWallets(c) PROVE seen' = seen
      BY <2>1 DEF AdjustWallets
    <2>2. ASSUME NEW op \in ops, GetWallet(op) \/ SetWallet(op) PROVE seen \subseteq seen'
      BY <2>2, GetWalletOp, SetWalletOp
    <2> QED BY <2>1, <2>2, StepKinds DEF Rests
  <1>3. ForkCourse /\ HandedInv /\ RestoredInv /\ MakingInv
    BY <1>2 DEF ForkInv
  <1> QED BY <1>1, <1>2, <1>3, ForkSteps, OutsideFork, AdjustWalletsFork, OpenForkFork, ReadSenderFork,
             ReadRecipientFork, PutSenderFork, PutRecipientFork, NextBlockFork, ForkReadyFork, OperationFork,
             CheckForkFork, ForkPutFork

LEMMA ForkFollows == BaseInv /\ ForkInv => ForkKeepsBase
  <1> SUFFICES ASSUME BaseInv, ForkInv, seen = {}, NEW f \in live, NEW a \in Accounts,
                      forkAt[f].ready # 0, ~Contested(a),
                      \A put \in pending : <<put[1], put[2]>> # <<f, a>>,
                      NEW later, later = {p \in PartsOf(a) : p[1] > IF Back(f, a) = {} THEN forkAt[f].opened
                                                                                     ELSE forkAt[f].ready},
                      \A p \in PartsOf(a) : Early(f, p) \/ p \in Back(f, a) \cup later,
                      \A p, q \in IF Back(f, a) = {} THEN later ELSE Back(f, a) : p = q
               PROVE  BaseWallet(f, a) = IF forkWallet[f][a] = NoWallet THEN wallet[a] ELSE forkWallet[f][a]
    BY DEF ForkKeepsBase, Back, UndoneOf, Early, BaseOf, BaseWallet
  <1>1. ForkCourse /\ HandedInv /\ RestoredInv
    BY DEF ForkInv
  <1>2. Puts(f, a) = {}
    BY DEF Puts
  <1>3. BaseWallet(f, a) # NoWallet
    BY <1>1, BaseWalletType
  <1>4. CASE Back(f, a) = {}
    <2>1. later = Late(f, a)
      BY <1>4 DEF Late
    <2>2. Handed(f, a) /\ Once(Late(f, a))
      BY <1>4, <2>1 DEF Handed, Once
    <2>3. Given(f, a)
      BY <1>1, <2>2 DEF HandedInv
    <2>4. CASE forkWallet[f][a] = BaseWallet(f, a)
      BY <1>3, <2>4
    <2>5. CASE forkWallet[f][a] = NoWallet /\ \A p \in Late(f, a) : Running(p)
      <3>1. \A p \in PartsOf(a) : Early(f, p) \/ Running(p)
        BY <2>2, <2>5 DEF Handed
      <3>2. wallet[a] = BaseWallet(f, a)
        BY <1>1, <3>1, BaseStill
      <3> QED BY <2>5, <3>2
    <2> QED BY <1>2, <2>3, <2>4, <2>5 DEF Given, Running
  <1>5. CASE Back(f, a) # {}
    <2>1. Good(f, a)
      BY <1>5 DEF Good, Restored, Once
    <2>2. \A c \in Callers : ~Makes(c, f)
      BY <1>1 DEF Makes, ForkCourse, MakersCourse
    <2>3. forkWallet[f][a] = BaseWallet(f, a)
      BY <1>1, <1>5, <2>1, <2>2 DEF RestoredInv
    <2> QED BY <1>3, <2>3
  <1> QED BY <1>4, <1>5

\* In every reachable state, for any callers that verify, execute and fork at the same time,
\* any blocks and any accounts: without a fault, and as long as nonces and additions stay
\* below 2^64, a complete fork has the wallet main had before the block whose place the fork
\* takes, though main executed blocks while createFork waited and its operations handed the
\* fork copies: of an account that is not contested and whose parts since then are one that
\* the roll back took back and any that came after it, or at most one, come when the fork
\* was open.
THEOREM ForksKeepTheirBase ==
    ASSUME NoncesFit
    PROVE  Spec /\ []AdditionsFit => []ForkKeepsBase
  <1>1. BaseInv /\ AtomicInv /\ AdditionsFit /\ [Next]_vars => AtomicInv'
    BY AtomicStep
  <1> QED BY <1>1, AtomicInit, LedgerInvariant, ForkInit, ForkStep, ForkFollows, PTL DEF Spec
===============================================================================
