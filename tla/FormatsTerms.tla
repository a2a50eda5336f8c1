----------------------------- MODULE FormatsTerms ------------------------------
(***************************************************************************)
(* The words of the proofs about Formats: the loops its recursions are,    *)
(* what a code that is read back is, the sets of what can be read, and     *)
(* FormatsInv, the inductive invariant.                                    *)
(***************************************************************************)
EXTENDS Formats

-------------------------------------------------------------------------------
(***************************************************************************)
(* Induction, over sets, since it can speak of no operator.                *)
(***************************************************************************)

Smaller == {p \in Nat \X Nat : p[1] < p[2]}

-------------------------------------------------------------------------------
(***************************************************************************)
(* Every recursion of the models is a loop: what comes after so many steps *)
(* from a start.                                                           *)
(***************************************************************************)

\* What the steps are steps of, and what comes after one.
CutBy(base)                  == [loop |-> "cut", base |-> base]
NumberOf(figures, base)      == [loop |-> "number", figures |-> figures, base |-> base]
Joining(seqs)                == [loop |-> "join", seqs |-> seqs]
ItemsOf(inner, class, read)  == [loop |-> "items", inner |-> inner, class |-> class, bytes |-> read]
FieldsOf(inner, class, read) == [loop |-> "fields", inner |-> inner, class |-> class, bytes |-> read]

Step(x, i, last) ==
    CASE x.loop = "cut"    -> last \div x.base
      [] x.loop = "number" -> last * x.base + x.figures[i]
      [] x.loop = "join"   -> last \o x.seqs[i]
      [] x.loop = "items"  -> NextItem(x.inner, x.class, x.bytes, last)
      [] x.loop = "fields" -> NextField(x.inner, Settings(x.class)[i], x.bytes, last)

Goes(f, x, start, n) == \A i \in 0..n : f[i] = IF i = 0 THEN start ELSE Step(x, i, f[i - 1])

Loop(x, start, n) == (CHOOSE f : DOMAIN f = 0..n /\ Goes(f, x, start, n))[n]

-------------------------------------------------------------------------------
(***************************************************************************)
(* Numbers and their figures.                                              *)
(***************************************************************************)

\* The number of the first figures only.
NumberUpto(start, figures, base, i) == Loop(NumberOf(figures, base), start, i)

-------------------------------------------------------------------------------
(***************************************************************************)
(* Bytes.                                                                  *)
(***************************************************************************)

\* The bytes as figures.
Figured(read) == [i \in DOMAIN read |-> IF Len(read[i]) = 1 THEN read[i][1] ELSE 0]

-------------------------------------------------------------------------------
(***************************************************************************)
(* Of every kind of field: what was read of a part is read of the whole.   *)
(***************************************************************************)

\* Read of a part, and within it: then so it is read of more.
Stays(part, more, len) == part.ok /\ part.length <= len => more = part

-------------------------------------------------------------------------------
(***************************************************************************)
(* Lengths without a limit.                                                *)
(***************************************************************************)

HalfByteSet == 0..(Radix - 1)

\* The half bytes of the digits in front, two of each.
FirstDigits(read, n) ==
    /\ n \in 0..Len(read)
    /\ \A i \in 1..n : read[i] \in Digit
    /\ n < Len(read) => read[n + 1] \notin Digit

HalvesOf(read, n) ==
    [i \in 1..(2 * n) |-> LET d == read[(i + 1) \div 2][1] IN IF i % 2 = 1 THEN d \div Radix ELSE d % Radix]

\* The figures in front of the first half byte F, if there is one.
FirstMark(text, j) == j \in 1..Len(text) /\ text[j] = Radix - 1 /\ \A i \in 1..(j - 1) : text[i] # Radix - 1

LengthBase == Radix - 1

\* The figures of n, as many as these, and the mark behind them.
MarkedFigures(n, len) == Append(Figures(n, LengthBase, len), Radix - 1)

InBytes(text) == [i \in 1..(Len(text) \div 2) |-> <<text[2 * i - 1] * Radix + text[2 * i]>>]

\* What DecodeLength found, with the half bytes it looked at.
LengthFound(read, text) ==
    \/ \E j \in Nat : /\ FirstMark(text, j)
                      /\ DecodeLength(read) = << IF j = 1 THEN Len(read) + 1
                                                 ELSE Number(0, Upto(text, j - 1), Radix - 1), (j + 1) \div 2 >>
    \/ /\ \A i \in 1..Len(text) : text[i] # Radix - 1
       /\ DecodeLength(read) = << IF text = << >> THEN Len(read) + 1 ELSE Number(0, text, Radix - 1),
                                  (Len(text) + 2) \div 2 >>

-------------------------------------------------------------------------------
(***************************************************************************)
(* Sequences one behind the other.                                         *)
(***************************************************************************)

\* The first of them joined.
JoinedUpto(seqs, i) == Loop(Joining(seqs), << >>, i)

\* What is read from there on begins with this code.
Begins(S, read, at, code) == \E rest \in Seq(S) : From(read, at) = code \o rest

-------------------------------------------------------------------------------
(***************************************************************************)
(* The settings, and the encoders of every depth.                          *)
(***************************************************************************)

Kinds     == {"fixed", "bigint", "array", "object", "custom"}
KeyOf(class, i) == Settings(class)[i].key

\* What the lengths and targets of a field are.
IsField(field) ==
    /\ field.kind \in Kinds /\ field.len \in Nat
    /\ field.kind \in {"array", "object"} => field.target \in Classes

AreFields(settings) ==
    /\ Len(settings) \in Nat /\ DOMAIN settings = 1..Len(settings)
    /\ \A i \in 1..Len(settings) : IsField(settings[i])

\* The encoder of a depth, and what it makes of a field.
Enc(k, class, object) ==
    CASE k = 0 -> EncodeNone(class, object)
      [] k = 1 -> Encode0(class, object)
      [] k = 2 -> Encode1(class, object)
      [] k = 3 -> Encode2(class, object)
      [] k = 4 -> Encode3(class, object)
      [] OTHER -> EncodeObject(class, object, FALSE)

EncField(k, field, value) ==
    CASE field.kind = "fixed"  -> value
      [] field.kind = "bigint" -> EncodeBigInt(value)
      [] field.kind = "array"  -> Digits(Len(value), field.len)
                                  \o FlattenSeq([i \in DOMAIN value |-> Enc(k, field.target, value[i])])
      [] field.kind = "object" -> Enc(k, field.target, value)
      [] field.kind = "custom" -> EncodeCustom(value)

EncFields(k, class, object) ==
    [i \in DOMAIN Settings(class) |-> EncField(k, Settings(class)[i], object[Settings(class)[i].key])]

\* The fields of what is hashed.
HashFields(class, object) ==
    [i \in DOMAIN Settings(class) |->
        IF Settings(class)[i].hashRemove THEN << >>
        ELSE EncField(4, Settings(class)[i], object[Settings(class)[i].key])]

-------------------------------------------------------------------------------
(***************************************************************************)
(* What is written is read back.                                           *)
(***************************************************************************)

\* This code is read as this value by the decoder of a class, or of a field.
Back(d, class, code, value) ==
    /\ code \in Seq(Elements)
    /\ \A t \in Seq(Elements) : d[<<class, code \o t>>] = Decoded(value, Len(code))

FieldBack(d, field, code, value) ==
    /\ code \in Seq(Elements)
    /\ \A t \in Seq(Elements) : DecodeField(d, field, code \o t) = Decoded(value, Len(code))

ItemsBack(d, class, codes, list) ==
    Len(codes) = Len(list) /\ \A i \in 1..Len(list) : Back(d, class, codes[i], list[i])

ArrayBack(d, class, code, list, len, t) ==
    code \in Seq(Elements) /\ DecodeArray(d, code \o t, len, class) = Decoded(list, Len(code))

\* The object when its first fields are read.
FirstFields(class, object, i) ==
    [key \in DOMAIN Blank(class) |-> IF \E j \in 1..i : KeyOf(class, j) = key THEN object[key] ELSE << >>]

-------------------------------------------------------------------------------
(***************************************************************************)
(* What a decoder reads of the first bytes it reads of them and more.      *)
(***************************************************************************)

Outcome(r) == r = Failed \/ \E v : \E len \in Nat : r = Decoded(v, len)

Parted(r, more, len) == Outcome(r) /\ Stays(r, more, len)

Reads(d) == \A class \in Classes : \A p, t \in Seq(Elements) :
                Parted(d[<<class, p>>], d[<<class, p \o t>>], Len(p))

FieldReads(d, field) == \A p, t \in Seq(Elements) :
                            Parted(DecodeField(d, field, p), DecodeField(d, field, p \o t), Len(p))

\* Every field of the object is read back.
FieldsAreBack(d, k, class, object) ==
    \A i \in 1..Len(Settings(class)) :
        FieldBack(d, Settings(class)[i], EncField(k, Settings(class)[i], object[KeyOf(class, i)]), object[KeyOf(class, i)])

\* The object that is read before fromDict.
Written(class, object) == FirstFields(class, object, Len(Settings(class)))

-------------------------------------------------------------------------------
(***************************************************************************)
(* The object that is read before fromDict has all but what fromDict       *)
(* finds out.                                                              *)
(***************************************************************************)

BlockKeys == {"version", "index", "slotIndex", "hash", "previousHash", "timestamp", "signature", "body"}
TransactionKeys ==
    {"version", "txid", "recipientAddress", "amount", "nonce", "timestamp", "input", "signature"}

-------------------------------------------------------------------------------
(***************************************************************************)
(* Transactions and blocks as they are read.                               *)
(***************************************************************************)

TransactionData ==
    [ version : {Digits(0, 1)}, txid : Words(1), senderAddress : {<< >>}, recipientAddress : Words(1),
      amount : Numbers, nonce : Numbers, timestamp : Numbers, input : Seq(Elements), signature : Words(1) ]

ReadTransactions == {TransactionFromDict(data).data : data \in TransactionData}

Lists      == Seq(ReadTransactions)
ShortLists == {list \in Lists : Cut(Len(list), Base, PrefixLength) = 0}
Bodies(L)  == [transactions : L]

BlockData(L) ==
    [ version : {Digits(0, 1)}, index : Numbers, slotIndex : Numbers, hash : Words(1), previousHash : Words(1),
      timestamp : Numbers, minter : {<< >>}, signature : Words(1), body : Bodies(L) ]

\* Blocks as they are read, with lists of L.
ReadBlocks(L) == {BlockFromDict(data).data : data \in BlockData(L)}

-------------------------------------------------------------------------------
(***************************************************************************)
(* The carriers of a block.                                                *)
(***************************************************************************)

ForkObjects == [stateHash : Words(1), parentChain : Words(1), base : ReadBlocks(ShortLists), latestBlock : ReadBlocks(ShortLists)]

-------------------------------------------------------------------------------
(***************************************************************************)
(* The carriers of a block or a transaction.                               *)
(***************************************************************************)

\* A part of a message that is read back.
PartIsBack(class, object) == Back(Decoder(DecodeInner), class, EncodeObject(class, object, FALSE), object)

\* A file or an entry of a database that is read back, and not without its end.
WholeIsBack(class, object) ==
    LET code == EncodeObject(class, object, FALSE)
    IN  /\ code \in Seq(Elements) /\ DecodeWhole(class, code) = Decoded(object, 0)
        /\ \A n \in 0..(Len(code) - 1) : DecodeWhole(class, SubSeq(code, 1, n)) = Failed

-------------------------------------------------------------------------------
(***************************************************************************)
(* Messages.                                                               *)
(***************************************************************************)

\* Whoever may have the id.
Addressed(class, id) ==
    /\ id \in 0..(Base - 1)
    /\ HandlerType(class) = "RESPONSE" => id \in Own
    /\ HandlerType(class) = "REQUEST" => id > Reserved /\ id \notin Own

-------------------------------------------------------------------------------
(***************************************************************************)
(* The originals are as they are read: whoever signed is who is found out. *)
(***************************************************************************)

BlockKeysAre ==
    /\ KeyOf("Block", 1) = "version" /\ KeyOf("Block", 2) = "index" /\ KeyOf("Block", 3) = "slotIndex"
    /\ KeyOf("Block", 4) = "hash" /\ KeyOf("Block", 5) = "previousHash" /\ KeyOf("Block", 6) = "timestamp"
    /\ KeyOf("Block", 7) = "signature" /\ KeyOf("Block", 8) = "body"

TransactionKeysAre ==
    /\ KeyOf("Transaction", 1) = "version" /\ KeyOf("Transaction", 2) = "txid"
    /\ KeyOf("Transaction", 3) = "recipientAddress" /\ KeyOf("Transaction", 4) = "amount"
    /\ KeyOf("Transaction", 5) = "nonce" /\ KeyOf("Transaction", 6) = "timestamp"
    /\ KeyOf("Transaction", 7) = "input" /\ KeyOf("Transaction", 8) = "signature"

HashedBlockKeys == {"version", "index", "slotIndex", "previousHash", "timestamp", "body"}

\* What a block of a minter is.
IsMinted(b, key) ==
    /\ key \in Keys /\ b.minter = Address(MinterType, key)
    /\ b.hash = <<CalculateHash("Block", b)>> /\ b.signature = <<<<MinterType, key, b.hash[1]>>>>

-------------------------------------------------------------------------------
(***************************************************************************)
(* One hash, one object: what is hashed can be taken apart again.          *)
(***************************************************************************)

\* Neither code begins the other.
Separates(S, x, y) == \A s, t \in Seq(S) : x \o s = y \o t => x = y

FirstSeparate(S, c, e, m) == m <= Len(c) /\ m <= Len(e) /\ \A i \in 1..m : Separates(S, c[i], e[i])

\* The code of a body: the count, and the transactions.
Codes(list) == [i \in DOMAIN list |-> Enc(3, "Transaction", list[i])]

HashCode(class, o, i) ==
    IF Settings(class)[i].hashRemove THEN << >> ELSE EncField(4, Settings(class)[i], o[KeyOf(class, i)])

HashedTransactionKeys == {"version", "recipientAddress", "amount", "nonce", "timestamp", "input"}

Unsigned(value) == [key \in DOMAIN value \ {"signature", "minter", "senderAddress"} |-> value[key]]

-------------------------------------------------------------------------------
(***************************************************************************)
(* Hosts.                                                                  *)
(***************************************************************************)

Hosts == Seq(Int) \ {<< >>}

\* The groups of an address that was spelled with "::".
Filled(pre, post) == pre \o [i \in 1..(Groups - Len(pre) - Len(post)) |-> 0] \o post

\* The host as it is read.
Host(segments) == Or(NormalizeIP(segments), segments)

-------------------------------------------------------------------------------
(***************************************************************************)
(* Addresses.                                                              *)
(***************************************************************************)

AddressTexts == [type : [1..2 -> 0..(HalfByte - 1)], body : [1..BodyLength -> 0..(HalfByte - 1)]]

-------------------------------------------------------------------------------
(***************************************************************************)
(* What is read of any bytes at all.                                       *)
(***************************************************************************)

\* Of bytes in S, an object or a field in W.
Gives(d, class, S, W)      == \A q \in Seq(S) : \A w, len : d[<<class, q>>] = Decoded(w, len) => w \in W
GivesField(d, field, S, W) == \A q \in Seq(S) : \A w, len : DecodeField(d, field, q) = Decoded(w, len) => w \in W

\* The lists of W whose count is written in len bytes.
Counted(W, len) == {list \in Seq(W) : Cut(Len(list), Base, len) = 0}

Updated(object, key, value) == [object EXCEPT ![key] = value]

KeysDiffer(class) ==
    \A i, j \in 1..Len(Settings(class)) : KeyOf(class, i) = KeyOf(class, j) => i = j

\* V tells what each field may give.
Typed(class, V, object, n) ==
    FirstFields(class, object, n) = object /\ \A i \in 1..n : object[KeyOf(class, i)] \in V[i]

OneOf(S) == {w \in Seq(S) : Len(w) = 1}

\* The blocks that may be read of bytes in S.
FoundBlocks(S) == {g \in ReadBlocks(ShortLists) : g.signature \in OneOf(S)}

\* The forks that may be read of bytes in S.
FoundForks(S) ==
    [stateHash : OneOf(S), parentChain : OneOf(S), base : FoundBlocks(S), latestBlock : FoundBlocks(S)]

-------------------------------------------------------------------------------
(***************************************************************************)
(* What the bytes of a block consist of: no signature of a minter is among *)
(* them but the block's own.                                               *)
(***************************************************************************)

Unforged(b) == {e \in Elements : Len(e) = 3 /\ e[1] = MinterType => e = b.signature[1]}

-------------------------------------------------------------------------------
(***************************************************************************)
(* What is read of each carrier.                                           *)
(***************************************************************************)

Code(c)               == EncodeObject(c.class, c.object, FALSE)
StrictPrefix(a, code) == \E n \in 0..(Len(code) - 1) : a = SubSeq(code, 1, n)

\* The blocks of another minter, which are no longer than their count says.
Foreign(b) == {g \in ReadBlocks(ShortLists) : g.minter # b.minter}

OriginalKinds == {"Block", "Transaction", "Wallet", "MinterData", "Address32", "Endpoint"} \cup PlainMessages

\* The only medium of a kind, but for blocks.
IsCarrier(c, kind, value) ==
    /\ c.medium = "file" => kind = "Block" /\ c \in Files(value)
    /\ c.medium = "db" => kind \in {"Wallet", "MinterData"} /\ c.class = kind /\ c.object = value
    /\ c.medium = "wire" =>
           \/ kind = "Block" /\ c \in BlockMessages(value)
           \/ kind = "Transaction" /\ c.class = "NEW_TRANSACTION" /\ c.object = [transaction |-> value]
           \/ kind \in PlainMessages /\ c.class = kind /\ c.object = value
    /\ c.medium = "text" => kind \in {"Address32", "Endpoint"} /\ c.class = kind /\ c.object = value

\* The messages no node understands.
Dumb == {"GET_TRANSACTIONS", "GET_CHAINSTATE", "ERROR_RESPONSE"}

-------------------------------------------------------------------------------
(***************************************************************************)
(* The invariant: the copy that is held is the original, in the spelling   *)
(* it is read in, or the block of another minter, and what is written is   *)
(* the copy.                                                               *)
(***************************************************************************)

IsCopy(data) ==
    \/ data = original.value
    \/ data = Normal(original.value)
    \/ original.kind = "Block" /\ ~Fits /\ data \in Foreign(original.value)

OriginalIs  == original \in Originals /\ stage \in {"held", "written"}
TornIsBlock == ~whole => original.kind = "Block"
HeldIsCopy  == held = Failed \/ \E data : held = Decoded(data, 0) /\ IsCopy(data)
ReadInFull  == whole /\ Fits /\ ~Unreadable => held # Failed

TextIsNormal == stage = "held" /\ carrier.medium = "text" => held = Decoded(Normal(original.value), 0)

WrittenIsCode ==
    stage = "written" =>
        /\ held # Failed
        /\ carrier \in Carriers([kind |-> original.kind, value |-> held.data])
        /\ carrier.medium = "file" => bytes = Code(carrier) \/ (~whole /\ StrictPrefix(bytes, Code(carrier)))
        /\ carrier.medium = "db" => bytes = Code(carrier)
        /\ carrier.medium = "wire" =>
               \E id : Addressed(carrier.class, id) /\ bytes = EncodeMsg(carrier.class, carrier.object, id)
        /\ carrier.medium = "text" => bytes = WriteText(carrier.class, carrier.object)

FormatsInv == OriginalIs /\ TornIsBlock /\ HeldIsCopy /\ ReadInFull /\ TextIsNormal /\ WrittenIsCode

\* What may be read.
Result(read) ==
    /\ read = Failed \/ \E data : read = Decoded(data, 0) /\ IsCopy(data)
    /\ whole /\ Fits /\ ~Unreadable => read # Failed

\* The endpoints there are.
Endpoints == [host : Hosts, port : Int]

-------------------------------------------------------------------------------
(***************************************************************************)
(* What is written.                                                        *)
(***************************************************************************)

\* How the bytes are written on the carrier.
IsWritten(c, code) ==
    /\ c.medium \in {"file", "db"} => code = Code(c)
    /\ c.medium = "wire" => \E id : Addressed(c.class, id) /\ code = EncodeMsg(c.class, c.object, id)
    /\ c.medium = "text" => code = WriteText(c.class, c.object)

===============================================================================
