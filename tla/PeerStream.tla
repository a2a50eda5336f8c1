------------------------------ MODULE PeerStream ------------------------------
(***************************************************************************)
(* One direction of a connection (network/socket.ts, network/packets.ts):  *)
(* packets wait in PeerSocket.sendingQueue, are written to a TCP socket    *)
(* that may take a part of one only, arrive in chunks of any size and are  *)
(* put together again by receiveData.                                      *)
(*                                                                         *)
(* A packet is a length prefix and a message.  A byte is named by the      *)
(* packet it belongs to and its place in it, so that a message put         *)
(* together from the wrong bytes is seen.  The model ends where the bytes  *)
(* that follow would be taken for lengths (link "torn"), and where         *)
(* receiveData calls itself without end (link "overflow").                 *)
(***************************************************************************)
EXTENDS Naturals, Sequences, LinkedList

CONSTANTS
    Prefix,      \* the length of the length prefix, 4 in the code
    Sizes,       \* Sizes[i]: the length of the i-th message
    Capacity     \* how many bytes TCP holds between write and the data callback

ASSUME PeerStreamAssumption ==
    /\ Prefix \in Nat \ {0}
    /\ Sizes \in Seq(Nat \ {0})
    /\ Capacity \in Nat \ {0}

Packets == DOMAIN Sizes

VARIABLES
    queue,      \* PeerSocket.sendingQueue: the list of the packets that wait
    sent,       \* the number of packets given to send
    rest,       \* what currentSendProcess has yet to write; empty when it is null
    wire,       \* what the sender wrote and the receiver was not given
    buffer,     \* recvBuffer
    size,       \* revcBufferPackageSize, 0 for not known
    unpacking,  \* receiveData is running: it calls itself for what is left of a chunk
    received,   \* the messages given to handleIncomingMsg
    link        \* "up", "torn" or "overflow"

sender   == <<queue, sent, rest>>
receiver == <<buffer, size, unpacking, received>>
vars     == <<sender, wire, receiver, link>>

Init ==
    /\ queue = EmptyList
    /\ sent = 0
    /\ rest = << >>
    /\ wire = << >>
    /\ buffer = << >>
    /\ size = 0
    /\ unpacking = FALSE
    /\ received = << >>
    /\ link = "up"

Take(s, n) == SubSeq(s, 1, n)
Drop(s, n) == SubSeq(s, n + 1, Len(s))

\* LNDataPaket.encodeToHex: the length and the message.
Packet(i)  == [k \in 1..(Prefix + Sizes[i]) |-> <<i, k>>]
Message(i) == Drop(Packet(i), Prefix)

-------------------------------------------------------------------------------
(***************************************************************************)
(* The sender.                                                             *)
(***************************************************************************)

\* PeerSocket.send
Send ==
    /\ link = "up"
    /\ sent < Len(Sizes)
    /\ sent' = sent + 1
    /\ queue' = Enqueue(queue, sent + 1)
    /\ UNCHANGED <<rest, wire, receiver, link>>

\* How much of the bytes s the socket takes now.
Fits(s) == IF Len(s) <= Capacity - Len(wire) THEN Len(s) ELSE Capacity - Len(wire)

\* processPackageSending, for the next packet when the one before is resolved: it
\* throws if the queue gives it nothing though it is not empty.
ProcessPackageSending ==
    /\ link = "up"
    /\ rest = << >>
    /\ queue.size > 0
    /\ Front(queue) # 0
    /\ LET p == Packet(Front(queue)) IN
       /\ wire' = wire \o Take(p, Fits(p))
       /\ rest' = Drop(p, Fits(p))
    /\ queue' = Dequeue(queue)
    /\ UNCHANGED <<sent, receiver, link>>

\* writeDrained, in the drain callback: it writes until the socket takes no more, and
\* then the packet is resolved, whether all of it was written or not.
WriteDrained ==
    /\ link = "up"
    /\ rest # << >>
    /\ Len(wire) < Capacity
    /\ wire' = wire \o Take(rest, Fits(rest))
    /\ link' = IF Fits(rest) = Len(rest) THEN "up" ELSE "torn"
    /\ rest' = << >>
    /\ UNCHANGED <<queue, sent, receiver>>

-------------------------------------------------------------------------------
(***************************************************************************)
(* The receiver.                                                           *)
(***************************************************************************)

\* The data callback: a chunk is appended to recvBuffer.
Data(n) ==
    /\ link = "up"
    /\ ~unpacking
    /\ n \in 1..Len(wire)
    /\ buffer' = buffer \o Take(wire, n)
    /\ wire' = Drop(wire, n)
    /\ unpacking' = TRUE
    /\ UNCHANGED <<sender, size, received, link>>

SlipReadsSize == size = 0 /\ Len(buffer) > Prefix

\* The length prefix is read and taken off once all of it is there.
ReadsSize == size = 0 /\ Len(buffer) >= Prefix
PackageSize == IF ReadsSize THEN Sizes[buffer[1][1]] ELSE size
Body        == IF ReadsSize THEN Drop(buffer, Prefix) ELSE buffer

SlipReset == size

\* revcBufferPackageSize after a packet is complete.
Reset == 0

\* The packet in the buffer is complete: it is handled and the rest is received anew.
Complete ==
    /\ link = "up"
    /\ unpacking
    /\ PackageSize # 0 /\ PackageSize <= Len(Body)
    /\ received' = Append(received, Take(Body, PackageSize))
    /\ buffer' = Drop(Body, PackageSize)
    /\ size' = Reset
    /\ unpacking' = (buffer' # << >>)
    /\ UNCHANGED <<sender, wire, link>>

\* It is not: receiveData ends.
Incomplete ==
    /\ link = "up"
    /\ unpacking
    /\ PackageSize > Len(Body)
    /\ buffer' = Body
    /\ size' = PackageSize
    /\ unpacking' = FALSE
    /\ UNCHANGED <<sender, wire, received, link>>

\* The prefix itself is not complete: a size of 0 is not larger than the buffer, an
\* empty message is handled, and receiveData is called with the same bytes again.
SplitPrefix ==
    /\ link = "up"
    /\ unpacking
    /\ PackageSize = 0
    /\ link' = "overflow"
    /\ UNCHANGED <<sender, wire, receiver>>

Unpack == Complete \/ Incomplete \/ SplitPrefix

Next ==
    \/ Send \/ ProcessPackageSending \/ WriteDrained
    \/ \E n \in 1..Capacity : Data(n)
    \/ Unpack

Spec == Init /\ [][Next]_vars

\* The queue is served, TCP delivers and reports that it can take more, and a callback
\* runs to its end.  Nothing obliges a message to be sent.
Fairness ==
    /\ WF_vars(ProcessPackageSending) /\ WF_vars(WriteDrained)
    /\ WF_vars(\E n \in 1..Capacity : Data(n)) /\ WF_vars(Unpack)

FairSpec == Spec /\ Fairness

-------------------------------------------------------------------------------
\* However the packets are cut on their way, the messages that are handled are the
\* ones that were sent, whole, in order and once.
InOrder == \A i \in DOMAIN received : i <= sent /\ received[i] = Message(i)

\* Only a chunk that ends within a length prefix may make receiveData call itself
\* without end: what it holds then is a part of the prefix of the next message.
CutInPrefix ==
    /\ link = "overflow"
    /\ size = 0
    /\ Len(buffer) < Prefix
    /\ buffer = Take(Packet(Len(received) + 1), Len(buffer))

\* Every message arrives, unless a packet was cut short, or a chunk ended within a
\* length prefix: no other cut of the stream makes receiveData call itself for ever.
AllArrive ==
    \A i \in Packets : sent >= i ~> (Len(received) >= i \/ link = "torn" \/ CutInPrefix)
===============================================================================
