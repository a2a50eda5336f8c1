------------------------------- MODULE Encoding -------------------------------
(***************************************************************************)
(* encoding/: an object is written as the sequence of its fields, in the   *)
(* order of the class's encodingSettings, and read back field by field.    *)
(* The settings of the classes that are stored or sent are below.          *)
(*                                                                         *)
(* The bytes of a number are digits <<d>>.  A hash, a signature and an     *)
(* address are elements of their own, built by LCrypt below: tuples that   *)
(* tell what they were made of.                                            *)
(***************************************************************************)
EXTENDS Numerals, SequencesExt

CONSTANTS
    Radix,        \* values of half a byte: 16
    PrefixLength, \* bytes of the count before a list: 2
    Uint64Length, \* bytes of a number of fixed width
    Keys,         \* private keys, numbers
    Atoms         \* the hashes, signatures and addresses there are

Base == Radix * Radix

\* What bytes consist of.
Digit    == {<<d>> : d \in 0..(Base - 1)}
Elements == Digit \cup Atoms

ASSUME EncodingAssumption ==
    /\ Radix \in Nat /\ Radix > 2
    /\ PrefixLength \in Nat \ {0} /\ Uint64Length \in Nat \ {0}
    /\ Keys \subseteq Nat \ {0}
    /\ \A atom \in Atoms : Len(atom) # 1

-------------------------------------------------------------------------------
(***************************************************************************)
(* LCrypt.  Nobody finds two inputs of one hash, and a signature tells the *)
(* key it was made with from the hash that was signed; with another hash   *)
(* some other key comes out, <<0>>.                                        *)
(***************************************************************************)

Sha256(input) == <<input, 0, 0, 0>>
ZeroHash      == Sha256(<< >>)

\* KeyPair.fromPrivate, getPublic and sign: what the elliptic library makes of a key.
FromPrivate(privateKey) == [private |-> privateKey, public |-> <<privateKey>>]
GetPublic(keyPair)      == keyPair.public
SignHash(keyPair, hash) == <<keyPair.private, hash>>

\* PublicKey.empty(), which is given where the library throws: a key of 0 has none.
EmptyPublicKey == << >>

GetPublicKeyFromPrivateKey(privateKey) ==
    IF privateKey = 0 THEN EmptyPublicKey ELSE GetPublic(FromPrivate(privateKey))

\* A Signature: the prefix of the signer's address in front of what the library gives.
FromElliptic(signerType, signature) == <<signerType>> \o signature
IsSignature(bytes)                  == Len(bytes) = 3
GetSignerType(signature)            == IF IsSignature(signature) THEN signature[1] ELSE 0
GetElliptic(signature)              == Tail(signature)

Sign(hash, type, key) == FromElliptic(type, SignHash(FromPrivate(key), hash))

\* The key that signed this hash; no key of bytes that are no signature.
GetPublicKeyFromSignature(hash, signature) ==
    IF ~IsSignature(signature) THEN EmptyPublicKey
    ELSE LET made == GetElliptic(signature)
         IN  IF made[2] = hash THEN GetPublicKeyFromPrivateKey(made[1]) ELSE <<0>>

\* AddressHex, from the first bytes of the key's hash.
FromPublicKey(type, publicKey)  == <<type, publicKey>>
Address(type, key)              == FromPublicKey(type, GetPublicKeyFromPrivateKey(key))
FromSignature(hash, signature)  ==
    FromPublicKey(GetSignerType(signature), GetPublicKeyFromSignature(hash, signature))

-------------------------------------------------------------------------------
(***************************************************************************)
(* Numbers.                                                                *)
(***************************************************************************)

\* Uint.from(n, len): the last len bytes, a larger number loses the others.
Digits(n, len) == [i \in 1..len |-> <<Figures(n, Base, len)[i]>>]

\* toShortUint: without zeros in front.
ShortUint(n) == Digits(n, Width(n, Base))

\* toInt, which is 0 of no bytes.  What is no digit counts as 0.
ToInt(bytes) == Number(0, [i \in DOMAIN bytes |-> IF Len(bytes[i]) = 1 THEN bytes[i][1] ELSE 0], Base)

\* Uint.slice
From(bytes, start)  == SubSeq(bytes, start + 1, Len(bytes))
Upto(bytes, length) == SubSeq(bytes, 1, IF length < Len(bytes) THEN length ELSE Len(bytes))

\* toHex, up to the first element that is no digit.
HalfBytes(bytes) ==
    LET n == CHOOSE k \in 0..Len(bytes) :
                 /\ \A i \in 1..k : Len(bytes[i]) = 1
                 /\ k < Len(bytes) => Len(bytes[k + 1]) # 1
    IN  [i \in 1..(2 * n) |-> LET d == bytes[(i + 1) \div 2][1] IN IF i % 2 = 1 THEN d \div Radix ELSE d % Radix]

\* The figures of n to the base Radix - 1, at least one.
LengthFigures(n) == IF n = 0 THEN <<0>> ELSE InBase(n, Radix - 1)

SlipEncodeLength(n) ==
    LET text == LengthFigures(n)
        even == IF Len(text) % 2 = 0 THEN text ELSE <<0>> \o text
    IN  [i \in 1..(Len(even) \div 2) |-> <<even[2 * i - 1] * Radix + even[2 * i]>>]

\* encodeLengthForUnlimited: the figures and a last half byte F, which is none of
\* them; a zero in front makes the number of half bytes even.
EncodeLength(n) ==
    LET text == Append(LengthFigures(n), Radix - 1)
        even == IF Len(text) % 2 = 0 THEN text ELSE <<0>> \o text
    IN  [i \in 1..(Len(even) \div 2) |-> <<even[2 * i - 1] * Radix + even[2 * i]>>]

\* decodeLengthFromUnlimited: <<length, length of the prefix>>.  No figure at all
\* gives NaN, which no length is equal to.
DecodeLength(bytes) ==
    LET text    == HalfBytes(bytes)
        figures == Upto(text, IF Contains(text, Radix - 1)
                              THEN (CHOOSE i \in DOMAIN text : /\ text[i] = Radix - 1
                                                               /\ \A j \in 1..(i - 1) : text[j] # Radix - 1) - 1
                              ELSE Len(text))
    IN  << IF figures = << >> THEN Len(bytes) + 1
           ELSE Number(0, figures, Radix - 1),
           (Len(figures) + 2) \div 2 >>

-------------------------------------------------------------------------------
(***************************************************************************)
(* The settings.                                                           *)
(***************************************************************************)

Field(key, kind, len, target, hashRemove) ==
    [key |-> key, kind |-> kind, len |-> len, target |-> target, hashRemove |-> hashRemove]

\* BE of PX, Uint256, AddressHex, Signature, LNMsgID, Uint32...
BE(key, len)          == Field(key, "fixed", len, "", FALSE)
Unhashed(key, len)    == Field(key, "fixed", len, "", TRUE)
BigInt(key)           == Field(key, "bigint", 1, "", FALSE)
ListOf(key, target)   == Field(key, "array", PrefixLength, target, FALSE)
Object(key, target)   == Field(key, "object", 0, target, FALSE)
Custom(key)           == Field(key, "custom", 0, "", FALSE)

SlipBlockSettings ==
    << BE("version", 1), BigInt("index"), BigInt("slotIndex"), Unhashed("hash", 1), BE("previousHash", 1),
       Field("timestamp", "bigint", 1, "", TRUE), Unhashed("signature", 1), Object("body", "BlockBody") >>

BlockSettings ==
    << BE("version", 1), BigInt("index"), BigInt("slotIndex"), Unhashed("hash", 1), BE("previousHash", 1),
       BigInt("timestamp"), Unhashed("signature", 1), Object("body", "BlockBody") >>

TransactionSettings ==
    << BE("version", 1), Unhashed("txid", 1), BE("recipientAddress", 1), BigInt("amount"), BigInt("nonce"),
       BigInt("timestamp"), Custom("input"), Unhashed("signature", 1) >>

BodySettings       == << ListOf("transactions", "Transaction") >>
WalletSettings     == << BE("version", 1), BigInt("balance"), BigInt("nonce") >>
MinterSettings     == << BE("version", 1), BigInt("stake") >>
ForkSettings       == << Unhashed("stateHash", 1), BE("parentChain", 1), Object("base", "Block"), Object("latestBlock", "Block") >>
ChainstateSettings == << BE("version", 1), ListOf("chains", "ForkChainstateData") >>

\* The bodies of the messages.
NewBlockMsg          == << Object("block", "Block") >>
GetBlocksMsg         == << BE("startingIndex", Uint64Length), BE("count", Uint64Length) >>
BlocksMsg            == << ListOf("blocks", "Block") >>
NewTransactionMsg    == << Object("transaction", "Transaction") >>
GetTransactionsMsg   == << >>
StatusMsg            == << BE("version", 1), BE("port", 1) >>
ChallengeMsg         == << BE("requestID", 1), BE("challenge", 1) >>
ChallengeREQMsg      == << >>
ChallengeResponseMsg == << BE("challenge", 1) >>
ChainstateMsg        == << Object("chainstate", "ForkChainstateData") >>
GetChainstateMsg     == << >>
ErrorResponseMsg     == << BE("id", 1) >>

MessageSettings ==
    [ NEW_BLOCK          |-> NewBlockMsg,          GET_BLOCKS       |-> GetBlocksMsg,
      BLOCKS             |-> BlocksMsg,            NEW_TRANSACTION  |-> NewTransactionMsg,
      GET_TRANSACTIONS   |-> GetTransactionsMsg,   STATUS           |-> StatusMsg,
      CHALLENGE          |-> ChallengeMsg,         CHALLENGE_REQ    |-> ChallengeREQMsg,
      CHALLENGE_RESPONSE |-> ChallengeResponseMsg, CHAINSTATE       |-> ChainstateMsg,
      GET_CHAINSTATE     |-> GetChainstateMsg,     ERROR_RESPONSE   |-> ErrorResponseMsg ]

Messages == DOMAIN MessageSettings

Classes ==
    {"Block", "Transaction", "BlockBody", "Wallet", "MinterData", "ForkChainstateData", "ChainstateData"} \cup Messages

Settings(class) ==
    CASE class = "Block"              -> BlockSettings
      [] class = "Transaction"        -> TransactionSettings
      [] class = "BlockBody"          -> BodySettings
      [] class = "Wallet"             -> WalletSettings
      [] class = "MinterData"         -> MinterSettings
      [] class = "ForkChainstateData" -> ForkSettings
      [] class = "ChainstateData"     -> ChainstateSettings
      [] OTHER                        -> MessageSettings[class]

-------------------------------------------------------------------------------
(***************************************************************************)
(* ObjectEncoding and the encoders.                                        *)
(***************************************************************************)

EncodeBigInt(value) == LET short == ShortUint(value) IN Digits(Len(short), 1) \o short

EncodeArray(EncodeInner(_, _), array, prefixLength, target) ==
    Digits(Len(array), prefixLength) \o FlattenSeq([i \in DOMAIN array |-> EncodeInner(target, array[i])])

EncodeCustom(value) == EncodeLength(Len(value)) \o value

EncodeField(EncodeInner(_, _), field, value) ==
    CASE field.kind = "fixed"  -> value
      [] field.kind = "bigint" -> EncodeBigInt(value)
      [] field.kind = "array"  -> EncodeArray(EncodeInner, value, field.len, field.target)
      [] field.kind = "object" -> EncodeInner(field.target, value)
      [] field.kind = "custom" -> EncodeCustom(value)

\* encodeToHex, which calls itself for the objects in an object.
EncodeOver(EncodeInner(_, _), class, object, forHash) ==
    FlattenSeq([i \in DOMAIN Settings(class) |->
        LET field == Settings(class)[i]
        IN  IF forHash /\ field.hashRemove THEN << >> ELSE EncodeField(EncodeInner, field, object[field.key])])

\* Objects are in each other four deep: transactions in a body, bodies in a block, blocks
\* in the chains of the chain state or of a message.
EncodeNone(class, object) == << >>
Encode0(class, object)    == EncodeOver(EncodeNone, class, object, FALSE)
Encode1(class, object)    == EncodeOver(Encode0, class, object, FALSE)
Encode2(class, object)    == EncodeOver(Encode1, class, object, FALSE)
Encode3(class, object)    == EncodeOver(Encode2, class, object, FALSE)

\* What is left out of a hash is left out of the outermost object only.
EncodeObject(class, object, forHash) == EncodeOver(Encode3, class, object, forHash)

CalculateHash(class, object) == Sha256(EncodeObject(class, object, TRUE))

Failed == [ok |-> FALSE]
Decoded(data, length) == [ok |-> TRUE, data |-> data, length |-> length]

\* Whoever signed is not written, it is found out from the signature.
BlockFromDict(data) ==
    Decoded([data EXCEPT !.minter = FromSignature(CalculateHash("Block", data), data.signature[1])], 0)

TransactionFromDict(data) ==
    Decoded([data EXCEPT !.senderAddress = FromSignature(data.txid[1], data.signature[1])], 0)

\* The classes that look at their version.
Versioned == {"Block", "Transaction", "Wallet", "MinterData", "ChainstateData"}

\* fromDict: null for another version.  Two messages inherit one that throws.
FromDict(class, data) ==
    IF class \in Versioned /\ data.version # Digits(0, 1) THEN Failed
    ELSE CASE class = "Block"                               -> BlockFromDict(data)
           [] class = "Transaction"                         -> TransactionFromDict(data)
           [] class \in {"GET_TRANSACTIONS", "GET_CHAINSTATE"} -> Failed
           [] OTHER                                         -> Decoded(data, 0)

\* The object the constructor fills, with null where nothing is written.
Blank(class) ==
    [key \in {Settings(class)[i].key : i \in DOMAIN Settings(class)}
             \cup (CASE class = "Block" -> {"minter"} [] class = "Transaction" -> {"senderAddress"} [] OTHER -> {})
        |-> << >>]

\* What the fields of an object make of it.
Completed(object, length) == IF object.ok THEN Decoded(object.data, length) ELSE Failed
FromFields(class, fields) ==
    IF fields.ok THEN Completed(FromDict(class, fields.data), fields.length) ELSE Failed

\* A value of a length, if there are as many bytes behind its prefix.
Taken(bytes, prefixLength, length) ==
    LET value == Upto(From(bytes, prefixLength), length)
    IN  IF Len(value) < length THEN Failed ELSE Decoded(value, prefixLength + length)

DecodeBigInt(bytes) ==
    LET value == Taken(bytes, 1, ToInt(Upto(bytes, 1)))
    IN  IF value.ok THEN Decoded(ToInt(value.data), value.length) ELSE Failed

DecodeFixed(bytes, byteLength) == Taken(bytes, 0, byteLength)

DecodeCustom(bytes) == LET l == DecodeLength(bytes) IN Taken(bytes, l[2], l[1])

WithItem(items, item) ==
    IF item.ok THEN Decoded(Append(items.data, item.data), items.length + item.length) ELSE Failed

NextItem(decodeInner, class, bytes, items) ==
    IF items.ok THEN WithItem(items, decodeInner[<<class, From(bytes, items.length)>>]) ELSE Failed

\* The loop of ArrayEncoder.decode, which throws on an item that does not decode.  The
\* count is read of the bytes there are.
DecodeArray(decodeInner, bytes, prefixLength, target) ==
    LET count == ToInt(Upto(bytes, prefixLength))
        items[n \in 0..count] ==
            IF n = 0 THEN Decoded(<< >>, prefixLength) ELSE NextItem(decodeInner, target, bytes, items[n - 1])
    IN  items[count]

DecodeField(decodeInner, field, bytes) ==
    CASE field.kind = "fixed"  -> DecodeFixed(bytes, field.len)
      [] field.kind = "bigint" -> DecodeBigInt(bytes)
      [] field.kind = "array"  -> DecodeArray(decodeInner, bytes, field.len, field.target)
      [] field.kind = "object" -> decodeInner[<<field.target, bytes>>]
      [] field.kind = "custom" -> DecodeCustom(bytes)

WithField(object, key, value) ==
    IF value.ok THEN Decoded([object.data EXCEPT ![key] = value.data], object.length + value.length) ELSE Failed

NextField(decodeInner, field, bytes, object) ==
    IF object.ok THEN WithField(object, field.key, DecodeField(decodeInner, field, From(bytes, object.length)))
    ELSE Failed

\* The loop of ObjectEncoding.decode.
DecodeFields(decodeInner, class, bytes) ==
    LET settings == Settings(class)
        object[n \in 0..Len(settings)] ==
            IF n = 0 THEN Decoded(Blank(class), 0) ELSE NextField(decodeInner, settings[n], bytes, object[n - 1])
    IN  object[Len(settings)]

\* fromDecodedHex(bytes, true) of every class, which calls itself as encodeToHex does.
Decoder(decodeInner) ==
    [part \in Classes \X Seq(Elements) |-> FromFields(part[1], DecodeFields(decodeInner, part[1], part[2]))]

NoDecoder == [part \in Classes \X Seq(Elements) |-> Failed]

DecodeInner == Decoder(Decoder(Decoder(Decoder(NoDecoder))))

DecodePart(class, bytes) == Decoder(DecodeInner)[<<class, bytes>>]

SlipExact(length, bytes) == TRUE

\* Buffer underflow or overflow: everything was read, and no more than there was.
Exact(length, bytes) == length = Len(bytes)

WholeOf(class, fields, bytes) ==
    IF fields.ok /\ Exact(fields.length, bytes) THEN FromDict(class, fields.data) ELSE Failed

\* fromDecodedHex(bytes)
DecodeWhole(class, bytes) ==
    WholeOf(class, DecodeFields(DecodeInner, class, bytes), bytes)
===============================================================================
