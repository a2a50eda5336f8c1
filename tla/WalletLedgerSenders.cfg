SPECIFICATION Spec
CONSTANTS
    alice = alice
    bob = bob
    carol = carol
    t1 = t1
    t2 = t2
    t3 = t3
    NotRead = notRead
    NoWallet = noWallet
    Callers = {c1, c2}
    Accounts = {alice, bob, carol}
    Txs = {t1, t2, t3}
    Sender <- MCSender
    Recipient <- MCRecipient
    Amount <- MCAmount
    NonceOf <- MCNonceOf
    Genesis <- MCGenesis
    MaxUint = 7
    Forks = {f1}
    FirstBody <- MCFirstBody
    FirstIndex <- MCFirstIndex
    Faults = {"read", "write", "crash"}
    Bodies <- SomeBodies
    Offers = {t2}
    MaxTxs = 2
    MaxPool = 1
SYMMETRY Symmetry
INVARIANTS BalancesBacked NonceCounts AccountAtomic ForkKeepsBase
CHECK_DEADLOCK FALSE
