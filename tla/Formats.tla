-------------------------------- MODULE Formats --------------------------------
(***************************************************************************)
(* What a node holds, and the ways it is written down and read again: a    *)
(* block in a block file, in the chain state file or in a message of       *)
(* another node, a wallet or a minter in its database, an address or a     *)
(* host as text.  A copy that was read is held, and may be written again   *)
(* in any of the ways there are for it.                                    *)
(***************************************************************************)
EXTENDS Encoding, Addresses

CONSTANTS
    Originals, \* what is written first: [kind, value]
    Own,       \* the ids of the requests the receiving node has open
    Reserved,  \* 0xff, the last id no request has
    RequestID  \* the id a request has

ASSUME FormatsAssumption ==
    /\ ZeroHash \in Atoms
    /\ Reserved \in Nat
    /\ Own \subseteq 0..(Base - 1)
    /\ RequestID \in (Reserved + 1)..(Base - 1) \ Own  \* no two nodes ask with one id at once

VARIABLES
    original, \* what the first node had
    held,     \* the copy this node has, or Failed
    carrier,  \* how it is written: [medium, class, object]
    bytes,    \* what is written
    whole,    \* nothing of it is lost
    stage     \* "held" or "written"

vars == <<original, held, carrier, bytes, whole, stage>>

-------------------------------------------------------------------------------
(***************************************************************************)
(* The nodes' blocks and transactions.                                     *)
(***************************************************************************)

MinterType == 2 \* PX.A_0e

\* The hash of the object, and its signature.
Signed(object, type, key, class) ==
    LET hash == CalculateHash(class, object)
    IN  IF class = "Block"
        THEN [object EXCEPT !.hash = <<hash>>, !.signature = <<Sign(hash, type, key)>>]
        ELSE [object EXCEPT !.txid = <<hash>>, !.signature = <<Sign(hash, type, key)>>]

\* Transaction.createCoinbaseTransaction, from the address of the empty public key.
CreateCoinbaseTransaction(key, timestamp) ==
    Signed([ version          |-> Digits(0, 1),
             txid             |-> << >>,
             senderAddress    |-> Address(0, 0),
             recipientAddress |-> <<Address(MinterType, key)>>,
             amount           |-> 10,
             nonce            |-> 0,
             timestamp        |-> timestamp,
             input            |-> << >>,
             signature        |-> << >> ], 0, 0, "Transaction")

\* MinterCredentials.fromPrivateKey
Credentials(key) == [privateKey |-> key, address |-> Address(MinterType, key)]

\* MinterClient.createNewBlock
CreateNewBlock(index, slot, previous, timestamp, key, transactions) ==
    Signed([ version      |-> Digits(0, 1),
             index        |-> index,
             slotIndex    |-> slot,
             hash         |-> << >>,
             previousHash |-> <<previous>>,
             timestamp    |-> timestamp,
             minter       |-> Credentials(key).address,
             signature    |-> << >>,
             body         |-> [transactions |-> transactions] ], MinterType, Credentials(key).privateKey, "Block")

-------------------------------------------------------------------------------
(***************************************************************************)
(* What there is at first: the length of a number is written in one byte;  *)
(* blocks are made by minters, of transactions that their senders signed.  *)
(***************************************************************************)

Numbers    == {n \in Nat : Cut(n, Base, Base - 1) = 0}
Words(len) == {word \in Seq(Elements) : Len(word) = len}

\* Of the elements, an address is two long and a hash is four long.
AddressWords == {word \in Words(1) : Len(word[1]) = 2}
HashWords    == {word \in Words(1) : Len(word[1]) = 4}

IsTransaction(t) ==
    /\ t \in [ version          : {Digits(0, 1)},
                txid             : Words(1),
                senderAddress    : {Address(0, key) : key \in Keys \cup {0}},
                recipientAddress : AddressWords,
                amount           : Numbers,
                nonce            : Numbers,
                timestamp        : Numbers,
                input            : Seq(Digit),
                signature        : Words(1) ]
    /\ \E key \in Keys \cup {0} :
          /\ t.senderAddress = Address(0, key)
          /\ t = Signed(t, 0, key, "Transaction")

IsBlock(b) ==
    /\ \E key \in Keys :
          b = CreateNewBlock(b.index, b.slotIndex, b.previousHash[1], b.timestamp, key, b.body.transactions)
    /\ {b.index, b.slotIndex, b.timestamp} \subseteq Numbers
    /\ {b.hash, b.signature} \subseteq Words(1) /\ b.previousHash \in HashWords
    /\ Len(b.body.transactions) \in Nat
    /\ \A i \in DOMAIN b.body.transactions : IsTransaction(b.body.transactions[i])
    /\ b.body.transactions \in Seq({b.body.transactions[i] : i \in DOMAIN b.body.transactions})

\* The messages that carry neither blocks nor transactions.
PlainMessages == Messages \ {"NEW_BLOCK", "BLOCKS", "NEW_TRANSACTION", "CHAINSTATE"}

IsMessage(kind, value) ==
    /\ value \in [DOMAIN Blank(kind) -> Seq(Elements)]
    /\ \A i \in DOMAIN Settings(kind) : Len(value[Settings(kind)[i].key]) = Settings(kind)[i].len

IsOriginal(kind, value) ==
    CASE kind = "Block"           -> IsBlock(value)
      [] kind = "Transaction"     -> IsTransaction(value)
      [] kind = "Wallet"          -> value \in [version : Words(1), balance : Numbers, nonce : Numbers]
      [] kind = "MinterData"      -> value \in [version : Words(1), stake : Numbers]
      [] kind \in PlainMessages   -> IsMessage(kind, value)
      [] kind = "Address32"       -> value \in [ type : [1..2 -> 0..(HalfByte - 1)],
                                                 body : [1..BodyLength -> 0..(HalfByte - 1)] ]
      [] kind = "Endpoint"        -> value \in [host : Seq(Int) \ {<< >>}, port : Int]
      [] OTHER                    -> FALSE

ASSUME OriginalsAssumption == \A o \in Originals : IsOriginal(o.kind, o.value)

-------------------------------------------------------------------------------
(***************************************************************************)
(* The carriers.                                                           *)
(***************************************************************************)

Carrier(medium, class, object) == [medium |-> medium, class |-> class, object |-> object]

\* The entry of a chain whose only block is this one.
Fork(block) == [stateHash |-> <<ZeroHash>>, parentChain |-> <<ZeroHash>>, base |-> block, latestBlock |-> block]

\* BlockDB.add writes a block, updateChainStateFile the ends of every chain.
Files(block) ==
    { Carrier("file", "Block", block),
      Carrier("file", "ChainstateData", [version |-> Digits(0, 1), chains |-> <<Fork(block)>>]) }

\* MinterClient.mint and the relay of NEW_BLOCK, the answers to GET_BLOCKS and
\* GET_CHAINSTATE.
BlockMessages(block) ==
    { Carrier("wire", "NEW_BLOCK", [block |-> block]),
      Carrier("wire", "BLOCKS", [blocks |-> <<block>>]),
      Carrier("wire", "CHAINSTATE", [chainstate |-> Fork(block)]) }

Carriers(copy) ==
    CASE copy.kind = "Block"                       -> Files(copy.value) \cup BlockMessages(copy.value)
      [] copy.kind = "Transaction"                 -> { Carrier("wire", "NEW_TRANSACTION", [transaction |-> copy.value]) }
      [] copy.kind \in {"Wallet", "MinterData"}    -> { Carrier("db", copy.kind, copy.value) }
      [] copy.kind \in Messages                    -> { Carrier("wire", copy.kind, copy.value) }
      [] copy.kind \in {"Address32", "Endpoint"}   -> { Carrier("text", copy.kind, copy.value) }

\* The copy in what was read.
Copy(class, object) ==
    CASE class = "ChainstateData"  -> IF object.chains = << >> THEN Failed ELSE Decoded(object.chains[1].latestBlock, 0)
      [] class = "NEW_BLOCK"       -> Decoded(object.block, 0)
      [] class = "BLOCKS"          -> IF object.blocks = << >> THEN Failed ELSE Decoded(object.blocks[1], 0)
      [] class = "CHAINSTATE"      -> Decoded(object.chainstate.latestBlock, 0)
      [] class = "NEW_TRANSACTION" -> Decoded(object.transaction, 0)
      [] OTHER                     -> Decoded(object, 0)

\* The handlers' types.
HandlerType(class) ==
    CASE class \in {"STATUS", "CHALLENGE"} -> "DEFAULT"
      [] class \in {"NEW_BLOCK", "NEW_TRANSACTION"} -> "BROADCAST"
      [] class \in {"CHALLENGE_REQ", "GET_BLOCKS", "GET_TRANSACTIONS", "GET_CHAINSTATE"} -> "REQUEST"
      [] class \in {"CHALLENGE_RESPONSE", "BLOCKS", "CHAINSTATE", "ERROR_RESPONSE"} -> "RESPONSE"

HasID(class) == HandlerType(class) \in {"REQUEST", "RESPONSE"}

\* The name and its two bytes.  The error response is in no registry.
TypeID(class)    == <<class, 0, 0, 0, 0>>
LNMsgRegistry    == Messages \ {"ERROR_RESPONSE"}
GetMsgInfo(type) == {class \in LNMsgRegistry : TypeID(class) = type}

\* LNStandartMsg, LNRequestMsg, LNResponseMsg, LNBroadcastMsg
EncodeMsg(class, object, id) ==
    <<TypeID(class)>> \o (IF HasID(class) THEN Digits(id, 1) ELSE << >>)
    \o EncodeObject(class, object, FALSE)

Headed(body, id) == IF body.ok THEN [ok |-> TRUE, data |-> body.data, id |-> id] ELSE Failed

\* fromDecodedHex for the class of the type: what is behind the body is ignored.
DecodeMsg(class, msg) ==
    LET head == IF HasID(class) THEN 2 ELSE 1
    IN  Headed(DecodePart(class, From(msg, head)), ToInt(SubSeq(msg, 2, head)))

\* A request needs an id that is free and not reserved, a response one that is open.
Handle(class, msg) ==
    IF \/ ~msg.ok
       \/ HandlerType(class) = "REQUEST" /\ (msg.id <= Reserved \/ msg.id \in Own)
       \/ HandlerType(class) = "RESPONSE" /\ msg.id \notin Own
    THEN Failed
    ELSE Copy(class, msg.data)

\* PeerSocket.handleIncomingMsg
HandleIncomingMsg(msg) ==
    IF GetMsgInfo(msg[1]) = {} THEN Failed
    ELSE LET class == CHOOSE c \in GetMsgInfo(msg[1]) : TRUE
         IN  Handle(class, DecodeMsg(class, msg))

\* BlockDB.get; Chainstate.getChainStateFile, which is empty instead of unreadable.
ReadFile(class, written) ==
    LET copy(read) == IF read.ok THEN Copy(class, read.data) ELSE Failed
    IN  copy(DecodeWhole(class, written))

\* Wallet.fromDecodedHex and MinterData.fromDecodedHex, of what LevelDB returns: the
\* owner is the key.
WalletFromDecodedHex(hexData) == DecodeWhole("Wallet", hexData)
MinterFromDecodedHex(hexData) == DecodeWhole("MinterData", hexData)

\* A text is read with what is known of its kind.
WriteText(class, value) ==
    CASE class = "Address32" -> FromAddressHex(value)
      [] class = "Endpoint"  -> FormatAddress(value.host, value.port)

ReadText(class, text) ==
    CASE class = "Address32" -> Decoded(ToAddressHex(text), 0)
      [] class = "Endpoint"  -> Decoded(SplitHostAndPort(text), 0)

-------------------------------------------------------------------------------
Init ==
    /\ original \in Originals
    /\ held = Decoded(original.value, 0)
    /\ carrier = Carrier("none", original.kind, original.value)
    /\ bytes = << >>
    /\ whole = TRUE
    /\ stage = "held"

Writable == Carriers([kind |-> original.kind, value |-> held.data])

Write ==
    /\ stage = "held" /\ held.ok
    /\ \E c \in Writable :
          /\ c.medium = "file"
          /\ carrier' = c
          /\ bytes' = EncodeObject(c.class, c.object, FALSE)
    /\ stage' = "written"
    /\ UNCHANGED <<original, held, whole>>

\* WalletDB.setWallet, MinterDB.setMinter
Put ==
    /\ stage = "held" /\ held.ok
    /\ \E c \in Writable :
          /\ c.medium = "db"
          /\ carrier' = c
          /\ bytes' = EncodeObject(c.class, c.object, FALSE)
    /\ stage' = "written"
    /\ UNCHANGED <<original, held, whole>>

\* The write ends early: writeFileSync is not atomic, a put of LevelDB is.
Tear ==
    /\ stage = "written" /\ whole
    /\ carrier.medium = "file"
    /\ \E n \in 0..(Len(bytes) - 1) : bytes' = SubSeq(bytes, 1, n)
    /\ whole' = FALSE
    /\ UNCHANGED <<original, held, carrier, stage>>

\* A message is sent; a response goes to whoever asked.
Send ==
    /\ stage = "held" /\ held.ok
    /\ \E c \in Writable :
          /\ c.medium = "wire"
          /\ carrier' = c
          /\ \E id \in IF HandlerType(c.class) = "RESPONSE" THEN Own ELSE {RequestID} :
                bytes' = EncodeMsg(c.class, c.object, id)
    /\ stage' = "written"
    /\ UNCHANGED <<original, held, whole>>

Show ==
    /\ stage = "held" /\ held.ok
    /\ \E c \in Writable :
          /\ c.medium = "text"
          /\ carrier' = c
          /\ bytes' = WriteText(c.class, c.object)
    /\ stage' = "written"
    /\ UNCHANGED <<original, held, whole>>

Read ==
    /\ stage = "written"
    /\ carrier.medium = "file"
    /\ held' = ReadFile(carrier.class, bytes)
    /\ stage' = "held"
    /\ UNCHANGED <<original, carrier, bytes, whole>>

\* WalletDB.getWallet, MinterDB.getMinter
Get ==
    /\ stage = "written"
    /\ carrier.medium = "db"
    /\ held' = IF carrier.class = "Wallet" THEN WalletFromDecodedHex(bytes) ELSE MinterFromDecodedHex(bytes)
    /\ stage' = "held"
    /\ UNCHANGED <<original, carrier, bytes, whole>>

Receive ==
    /\ stage = "written"
    /\ carrier.medium = "wire"
    /\ held' = HandleIncomingMsg(bytes)
    /\ stage' = "held"
    /\ UNCHANGED <<original, carrier, bytes, whole>>

Parse ==
    /\ stage = "written"
    /\ carrier.medium = "text"
    /\ held' = ReadText(carrier.class, bytes)
    /\ stage' = "held"
    /\ UNCHANGED <<original, carrier, bytes, whole>>

Next == Write \/ Tear \/ Put \/ Send \/ Show \/ Read \/ Get \/ Receive \/ Parse

Spec == Init /\ [][Next]_vars

-------------------------------------------------------------------------------
Transactions == IF original.kind = "Block" THEN original.value.body.transactions ELSE << >>

\* The count before a list of transactions holds their number.
Fits == Cut(Len(Transactions), Base, PrefixLength) = 0

\* Written with another version, or a message no node understands.
Unreadable ==
    \/ original.kind \in {"GET_TRANSACTIONS", "GET_CHAINSTATE", "ERROR_RESPONSE"}
    \/ original.kind \in {"Wallet", "MinterData"} /\ original.value.version # Digits(0, 1)

\* Where an original is written in another spelling than it is read.
Normal(value) ==
    IF original.kind = "Endpoint" THEN [value EXCEPT !.host = Or(NormalizeIP(@), @)] ELSE value

\* Whatever was written whole is read, and is what was written, its signer included,
\* over files, databases, messages and texts in any order.
WholeIsRead ==
    stage = "held" /\ whole /\ Fits /\ ~Unreadable =>
        held.ok /\ Normal(held.data) = Normal(original.value)

\* A file that was cut short is never taken for another block, and a block with more
\* transactions than the count can hold reaches nobody as a block of its minter.
NeverMisread ==
    stage = "held" /\ held.ok =>
        \/ Normal(held.data) = Normal(original.value)
        \/ ~Fits /\ held.data.minter # original.value.minter

\* Everything the minter or the sender decided is signed: of two blocks or two
\* transactions with one hash nothing differs but the signature and who made it.
HashCovers ==
    bytes = << >> /\ original.kind \in {"Block", "Transaction"} =>
        \A other \in Originals :
            LET unsigned(value) == [key \in DOMAIN value \ {"signature", "minter", "senderAddress"} |-> value[key]]
            IN  other.kind = original.kind
                /\ CalculateHash(other.kind, other.value) = CalculateHash(original.kind, original.value)
                => unsigned(other.value) = unsigned(original.value)

\* An IPv6 address that was spelled with "::" is read as its groups with the zeros that
\* were left out, and its port is the one behind it.
OneHost ==
    original.kind = "Endpoint" /\ stage = "held" /\ carrier.medium = "text" =>
        /\ held.data.port = original.value.port
        /\ \A h \in Halves(original.value.host) :
              held.data.host = h[1] \o [i \in 1..(Groups - Len(h[1]) - Len(h[2])) |-> 0] \o h[2]
===============================================================================
