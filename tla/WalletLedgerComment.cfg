SPECIFICATION Spec
CONSTANTS
    alice = alice
    bob = bob
    carol = carol
    t1 = t1
    t2 = t2
    t3 = t3
    NotRead = notRead
    NoWallet = noWallet
    Callers = {c1}
    Accounts = {alice, bob, carol}
    Txs = {t1, t2, t3}
    Sender <- MCSender
    Recipient <- MCRecipient
    Amount <- MCAmount
    NonceOf <- MCNonceOf
    Genesis <- MCGenesis
    MaxUint = 7
    Forks = {}
    FirstBody <- MCFirstBody
    FirstIndex <- MCFirstIndex
    Faults = {}
    Bodies <- AnyBodies
    Offers = {}
    MaxTxs = 3
    MaxPool = 0
INVARIANT TransactionsValid
CHECK_DEADLOCK FALSE
