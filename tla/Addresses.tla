------------------------------- MODULE Addresses -------------------------------
(***************************************************************************)
(* Addresses as text: the Address32 of a wallet (common/models/address.ts) *)
(* and the host and port of a node (utils/network-utils.ts).               *)
(*                                                                         *)
(* A text is a sequence: of characters, which are their places in          *)
(* address32Chars, or of what stands between the colons.                   *)
(***************************************************************************)
EXTENDS Numerals, Integers, SequencesExt

CONSTANTS
    HalfByte,   \* the characters of hex: 16
    Char32,     \* the characters of Address32: 32
    BodyLength, \* the half bytes of the body of an address: 40
    Groups      \* the groups of an IPv6 address: 8

\* The body is a whole number of characters, here and with 16, 32 and 40.
ASSUME AddressAssumption ==
    /\ {HalfByte, Char32, BodyLength} \subseteq Nat \ {0, 1}
    /\ \E length \in 1..BodyLength :
          Number(1, Zeros(BodyLength), HalfByte) = Number(1, Zeros(length), Char32)
    /\ Groups \in Nat /\ Groups > 3

-------------------------------------------------------------------------------
(***************************************************************************)
(* Address32.  An address is [type, body], both in half bytes.             *)
(***************************************************************************)

X == HalfByte  \* the character x, which stands for a 0 of the type

\* DataUtils.replaceAtIndex
ReplaceAtIndex(text, search, by, index) ==
    IF index < 0 \/ index >= Len(text) \/ ~\E i \in (index + 1)..Len(text) : text[i] = search THEN text
    ELSE LET next == CHOOSE i \in (index + 1)..Len(text) :
                         text[i] = search /\ \A j \in (index + 1)..(i - 1) : text[j] # search
         IN  [text EXCEPT ![next] = by]

SlipFromAddressHex(address) ==
    [type |-> ReplaceAtIndex(address.type, 0, X, 1), chars |-> InBase(Number(0, address.body, HalfByte), Char32)]

\* The 1 in front of the body keeps its zeros, and is cut off again.
FromAddressHex(address) ==
    [type |-> ReplaceAtIndex(address.type, 0, X, 1), chars |-> Tail(InBase(Number(1, address.body, HalfByte), Char32))]

ToAddressHex(text) ==
    [type |-> ReplaceAtIndex(text.type, X, 0, 0), body |-> Tail(InBase(Number(1, text.chars, Char32), HalfByte))]

-------------------------------------------------------------------------------
(***************************************************************************)
(* Host and port.  An IPv6 address is its segments, as split(":") gives    *)
(* them; an IPv4 address or a name is one segment, above every group.      *)
(***************************************************************************)

Nil   == -1  \* the empty segment
IPv4  == {1000}
FFFF  == 999 \* the group ffff

IsIPv4(segments) == Len(segments) = 1 /\ segments[1] \in IPv4

\* The ways to write the groups with "::", which stands for one zero or more.
Shortened(pre, post) ==
    (IF pre = << >> THEN <<Nil>> ELSE pre) \o <<Nil>> \o (IF post = << >> THEN <<Nil>> ELSE post)

\* The groups before and behind the "::" of an address that is written so.
Halves(segments) ==
    LET ends    == 0..(IF Len(segments) < Groups THEN Len(segments) ELSE Groups - 1)
        both(n) == <<SubSeq(segments, 1, n[1]), SubSeq(segments, Len(segments) - n[2] + 1, Len(segments))>>
    IN  {h \in {both(n) : n \in ends \X ends} :
            /\ Len(h[1]) + Len(h[2]) < Groups
            /\ \A i \in DOMAIN (h[1] \o h[2]) : (h[1] \o h[2])[i] \in 0..FFFF
            /\ segments = Shortened(h[1], h[2])}

Mapped(segments) ==
    /\ Len(segments) = 4 /\ segments[1] = Nil /\ segments[2] = Nil
    /\ segments[3] = FFFF /\ segments[4] \in IPv4

\* The pattern of isIPv6: all groups, or fewer around one "::".
IsIPv6(segments) ==
    \/ Mapped(segments)
    \/ Len(segments) = Groups /\ \A i \in DOMAIN segments : segments[i] \in 0..FFFF
    \/ Halves(segments) # {}

SlipZeroSegments(segments) == Groups - Len(segments)

\* The "0"s put in the place of the first empty segment.
ZeroSegments(segments) == Groups - (Len(segments) - 1)

\* normalizeIP: << >> for null.
NormalizeIP(segments) ==
    IF IsIPv4(segments) THEN segments
    ELSE IF ~IsIPv6(segments) THEN << >>
    ELSE IF Mapped(segments) THEN <<segments[4]>>
    ELSE LET filled ==
               IF ~Contains(segments, Nil) THEN segments
               ELSE LET empty == CHOOSE i \in DOMAIN segments :
                                     segments[i] = Nil /\ \A j \in 1..(i - 1) : segments[j] # Nil
                    IN  SubSeq(segments, 1, empty - 1) \o [i \in 1..ZeroSegments(segments) |-> 0]
                        \o SubSeq(segments, empty + 1, Len(segments))
         IN  [i \in DOMAIN filled |-> IF filled[i] = Nil THEN 0 ELSE filled[i]]

\* A uri: its parts between the colons, and whether there are brackets around all but
\* the last.
Uri(bracketed, parts) == [bracketed |-> bracketed, parts |-> parts]

Or(normalized, segments) == IF normalized = << >> THEN segments ELSE normalized

\* The text behind the last colon is the port.  Without a colon there is none, -1.
SplitHostAndPort(uri) ==
    IF Len(uri.parts) = 1 THEN [host |-> Or(NormalizeIP(uri.parts), uri.parts), port |-> -1]
    ELSE [host |-> Or(NormalizeIP(Front(uri.parts)), Front(uri.parts)), port |-> Last(uri.parts)]

\* formatAddress: brackets around an IPv6 address, not around another host.
FormatAddress(host, port) ==
    LET ip == NormalizeIP(host)
    IN  Uri(ip # << >> /\ ~IsIPv4(ip), Append(Or(ip, host), port))
===============================================================================
