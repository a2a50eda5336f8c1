------------------------------- MODULE MCFormats -------------------------------
(***************************************************************************)
(* Formats with half bytes of three values, counts of one byte and small   *)
(* numbers, on both sides of what one byte holds.                          *)
(***************************************************************************)
EXTENDS Formats, TLC

Item(kind, value) == [kind |-> kind, value |-> value]

\* What a client signs.
Transfer(key, amount, nonce, timestamp, input) ==
    Signed([ version          |-> Digits(0, 1),
             txid             |-> << >>,
             senderAddress    |-> Address(0, key),
             recipientAddress |-> <<Address(0, 1)>>,
             amount           |-> amount,
             nonce            |-> nonce,
             timestamp        |-> timestamp,
             input            |-> input,
             signature        |-> << >> ], 0, key, "Transaction")

Transfers ==
    {Transfer(2, amount, nonce, 4, input) :
        amount \in {1, 9, 90}, nonce \in {0, 1}, input \in {<< >>, Digits(1, 1), Digits(5, 2), Digits(14, 9)}}
    \cup {CreateCoinbaseTransaction(1, 4)}

Lists ==
    LET t == Transfer(2, 1, 0, 4, << >>) IN
    {<< >>, <<t>>, <<Transfer(2, 9, 1, 4, Digits(5, 2)), t>>}

Many == [i \in 1..Base |-> Transfer(2, 1, i, 4, << >>)]

Blocks ==
    {CreateNewBlock(at[1], at[2], IF at[1] = 0 THEN ZeroHash ELSE Sha256(<<1>>), time, 1, list) :
        at \in {<<0, 0>>, <<1, 2>>, <<9, 90>>}, time \in {0, 90}, list \in Lists}
    \cup {CreateNewBlock(1, 2, ZeroHash, 3, 2, Many)}

WithVersions(fields) == {[version |-> Digits(v, 1)] @@ fields : v \in {0, 1}}

Spelled ==
    LET groups == [1..(Groups - 1) -> {0, 1}] IN
    {Shortened(SubSeq(g, 1, m), SubSeq(g, n, Groups - 1)) :
        g \in groups, m \in 0..(Groups - 1), n \in 1..Groups}

Hosts == {h \in Spelled : IsIPv6(h)} \cup [1..Groups -> {0, 1}] \cup {<<1000>>, <<2000>>, <<Nil, Nil, FFFF, 1000>>}

MCOriginals ==
    {Item("Block", b) : b \in Blocks}
    \cup {Item("Transaction", t) : t \in Transfers}
    \cup {Item("Wallet", w) : w \in UNION {WithVersions([balance |-> b, nonce |-> n]) : b \in {0, 8, 90}, n \in {0, 1, 9}}}
    \cup {Item("MinterData", m) : m \in UNION {WithVersions([stake |-> s]) : s \in {0, 8, 90}}}
    \cup {Item("GET_BLOCKS", [startingIndex |-> Digits(i, Uint64Length), count |-> Digits(80, Uint64Length)]) : i \in {0, 9}}
    \cup {Item("STATUS", [version |-> Digits(1, 1), port |-> Digits(7, 1)]),
          Item("CHALLENGE", [requestID |-> Digits(RequestID, 1), challenge |-> <<Sha256(<<2>>)>>]),
          Item("CHALLENGE_RESPONSE", [challenge |-> <<Sha256(<<2>>)>>]),
          Item("ERROR_RESPONSE", [id |-> Digits(1, 1)])}
    \cup {Item(class, Blank(class)) : class \in {"CHALLENGE_REQ", "GET_TRANSACTIONS", "GET_CHAINSTATE"}}
    \cup {Item("Address32", [type |-> t, body |-> b]) : t \in {<<0, 0>>, <<0, 3>>}, b \in [1..BodyLength -> 0..(HalfByte - 1)]}
    \cup {Item("Endpoint", [host |-> h, port |-> 12200]) : h \in Hosts}

\* What is in their bytes, but for the digits.
MCAtoms ==
    LET written == {o \in MCOriginals : o.kind \notin {"Address32", "Endpoint"}}
    IN  {e \in UNION {ToSet(EncodeObject(o.kind, o.value, FALSE)) : o \in written} : Len(e) # 1}
===============================================================================
