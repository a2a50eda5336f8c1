--------------------------- MODULE PeerStreamProofs ----------------------------
(***************************************************************************)
(* Proofs about PeerStream: for messages of any length, any length of the  *)
(* prefix and any capacity of the socket, however the stream is cut, what  *)
(* is handled is what was sent (InOrder), and receiveData calls itself     *)
(* without end only when a chunk ended within a length prefix.             *)
(***************************************************************************)
EXTENDS PeerStream, SequenceTheorems, TLAPS

Bytes == Nat \X Nat

\* The length of a packet.
Size(i) == Prefix + Sizes[i]

TypeOK ==
    /\ sent \in 0..Len(Sizes)
    /\ rest \in Seq(Bytes) /\ wire \in Seq(Bytes) /\ buffer \in Seq(Bytes)
    /\ Len(wire) <= Capacity
    /\ size \in Nat
    /\ unpacking \in BOOLEAN
    /\ received \in Seq(Seq(Bytes))
    /\ link \in {"up", "torn", "overflow"}

\* The list q holds the numbers that follow n - q.size, up to n: its nodes are never taken
\* back, and those that wait are linked.
Holds(q, n) ==
    /\ q \in [nodes : Seq([data : Nat, next : Nat]), head : Nat, tail : Nat, size : Nat]
    /\ q.size <= n /\ Len(q.nodes) = n
    /\ q.head = IF q.size = 0 THEN 0 ELSE n - q.size + 1
    /\ q.tail = IF q.size = 0 THEN 0 ELSE n
    /\ \A i \in 1..n : q.nodes[i].data = i
    /\ \A i \in 1..n : i > n - q.size => q.nodes[i].next = IF i < n THEN i + 1 ELSE 0

\* The number of packets taken from the queue.
Taken == sent - queue.size

\* Every byte of s belongs to one of the first n packets, and is followed by the rest of
\* its packet, and that by the first byte of the next one, as far as s goes.
Runs(n, s) ==
    /\ \A j \in 1..Len(s) : s[j][1] \in 1..n /\ s[j][2] \in 1..Size(s[j][1])
    /\ \A j \in 1..Len(s) : \A d \in 0..(Size(s[j][1]) - s[j][2]) :
          j + d <= Len(s) => s[j + d] = <<s[j][1], s[j][2] + d>>
    /\ \A j \in 1..Len(s) :
          s[j][2] = Size(s[j][1]) /\ j < Len(s) => s[j + 1] = <<s[j][1] + 1, 1>>

\* What was taken from the queue and is not handled, but for a length that is known.
Stream == buffer \o (wire \o rest)

\* The stream begins where the receiver is and ends with the last packet taken.
Spans(m, z, n, s) ==
    IF s = << >>
    THEN m = n /\ z = 0
    ELSE /\ s[1] = <<m + 1, IF z = 0 THEN 1 ELSE Prefix + 1>>
         /\ s[Len(s)] = <<n, Size(n)>>
         /\ z # 0 => z = Sizes[m + 1]

StreamInv ==
    /\ TypeOK
    /\ Holds(queue, sent)
    /\ InOrder /\ Len(received) <= Taken
    /\ unpacking => buffer # << >>
    /\ link = "up" => Runs(Taken, Stream) /\ Spans(Len(received), size, Taken, Stream)
    /\ link = "overflow" => CutInPrefix

-------------------------------------------------------------------------------
(***************************************************************************)
(* Sequences of bytes.                                                     *)
(***************************************************************************)

\* The first n of s, and what follows them.
LEMMA TakeFacts ==
    ASSUME NEW s \in Seq(Bytes), NEW n \in 0..Len(s)
    PROVE  /\ Take(s, n) \in Seq(Bytes) /\ Len(Take(s, n)) = n
           /\ \A j \in 1..n : Take(s, n)[j] = s[j]
  <1>1. n \in Int /\ 1 \in Int /\ \A j \in 1..n : s[j] \in Bytes
    BY ElementOfSeq
  <1>2. /\ SubSeq(s, 1, n) \in Seq(Bytes)
        /\ Len(SubSeq(s, 1, n)) = IF 1 <= n THEN n - 1 + 1 ELSE 0
        /\ \A j \in 1..(n - 1 + 1) : SubSeq(s, 1, n)[j] = s[1 + j - 1]
    BY <1>1, SubSeqProperties
  <1>3. \A j \in 1..n : j \in 1..(n - 1 + 1) /\ 1 + j - 1 = j
    BY <1>1
  <1> QED BY <1>1, <1>2, <1>3 DEF Take

LEMMA DropFacts ==
    ASSUME NEW s \in Seq(Bytes), NEW n \in 0..Len(s)
    PROVE  /\ Drop(s, n) \in Seq(Bytes) /\ Len(Drop(s, n)) = Len(s) - n
           /\ \A j \in 1..(Len(s) - n) : Drop(s, n)[j] = s[n + j]
  <1>1. n + 1 \in Int /\ Len(s) \in Int /\ n \in Int /\ \A j \in (n + 1)..Len(s) : s[j] \in Bytes
    BY ElementOfSeq, LenProperties
  <1>2. /\ SubSeq(s, n + 1, Len(s)) \in Seq(Bytes)
        /\ Len(SubSeq(s, n + 1, Len(s))) = IF n + 1 <= Len(s) THEN Len(s) - (n + 1) + 1 ELSE 0
        /\ \A j \in 1..(Len(s) - (n + 1) + 1) : SubSeq(s, n + 1, Len(s))[j] = s[n + 1 + j - 1]
    BY <1>1, SubSeqProperties
  <1>3. \A j \in 1..(Len(s) - n) : j \in 1..(Len(s) - (n + 1) + 1) /\ n + 1 + j - 1 = n + j
    BY <1>1
  <1> QED BY <1>1, <1>2, <1>3 DEF Drop

\* They are the whole.
LEMMA TakeDrop ==
    ASSUME NEW s \in Seq(Bytes), NEW n \in 0..Len(s)
    PROVE  Take(s, n) \o Drop(s, n) = s
  <1> DEFINE t == Take(s, n) \o Drop(s, n)
  <1>1. /\ Take(s, n) \in Seq(Bytes) /\ Len(Take(s, n)) = n
        /\ \A j \in 1..n : Take(s, n)[j] = s[j]
    BY TakeFacts
  <1>2. /\ Drop(s, n) \in Seq(Bytes) /\ Len(Drop(s, n)) = Len(s) - n
        /\ \A j \in 1..(Len(s) - n) : Drop(s, n)[j] = s[n + j]
    BY DropFacts
  <1>3. /\ t \in Seq(Bytes) /\ Len(t) = n + (Len(s) - n)
        /\ \A j \in 1..(n + (Len(s) - n)) : t[j] = IF j <= n THEN Take(s, n)[j] ELSE Drop(s, n)[j - n]
    BY <1>1, <1>2, ConcatProperties
  <1> HIDE DEF t
  <1>4. Len(s) \in Nat /\ Len(t) = Len(s)
    BY <1>3, LenProperties
  <1>5. ASSUME NEW j \in 1..Len(t) PROVE t[j] = s[j]
    <2>1. CASE j <= n
      BY <1>1, <1>3, <1>4, <2>1
    <2>2. CASE ~(j <= n)
      <3>1. j - n \in 1..(Len(s) - n) /\ n + (j - n) = j
        BY <1>4, <2>2
      <3>2. t[j] = Drop(s, n)[j - n]
        BY <1>3, <1>4, <2>2
      <3> QED BY <1>2, <3>1, <3>2
    <2> QED BY <2>1, <2>2
  <1>6. t = s
    BY <1>3, <1>4, <1>5, SeqEqual
  <1> QED BY <1>6 DEF t

\* Dropping from a sequence drops from those it begins.
LEMMA DropConcat ==
    ASSUME NEW s \in Seq(Bytes), NEW t \in Seq(Bytes), NEW n \in 0..Len(s)
    PROVE  Drop(s, n) \o t = Drop(s \o t, n) /\ n <= Len(s \o t)
  <1> DEFINE u == s \o t
             l == Drop(s, n) \o t
             r == Drop(u, n)
  <1>1. /\ u \in Seq(Bytes) /\ Len(u) = Len(s) + Len(t)
        /\ \A j \in 1..(Len(s) + Len(t)) : u[j] = IF j <= Len(s) THEN s[j] ELSE t[j - Len(s)]
        /\ Len(s) \in Nat /\ Len(t) \in Nat
    BY ConcatProperties, LenProperties
  <1>2. /\ Drop(s, n) \in Seq(Bytes) /\ Len(Drop(s, n)) = Len(s) - n
        /\ \A j \in 1..(Len(s) - n) : Drop(s, n)[j] = s[n + j]
    BY DropFacts
  <1>3. /\ l \in Seq(Bytes) /\ Len(l) = Len(s) - n + Len(t)
        /\ \A j \in 1..(Len(s) - n + Len(t)) :
              l[j] = IF j <= Len(s) - n THEN Drop(s, n)[j] ELSE t[j - (Len(s) - n)]
    <2> DEFINE d == Drop(s, n)
    <2>1. d \in Seq(Bytes) /\ Len(d) = Len(s) - n
      BY <1>2
    <2> HIDE DEF d
    <2>2. /\ d \o t \in Seq(Bytes) /\ Len(d \o t) = Len(d) + Len(t)
          /\ \A j \in 1..(Len(d) + Len(t)) : (d \o t)[j] = IF j <= Len(d) THEN d[j] ELSE t[j - Len(d)]
      BY <2>1, ConcatProperties
    <2>3. /\ d \o t \in Seq(Bytes) /\ Len(d \o t) = Len(s) - n + Len(t)
          /\ \A j \in 1..(Len(s) - n + Len(t)) :
                (d \o t)[j] = IF j <= Len(s) - n THEN d[j] ELSE t[j - (Len(s) - n)]
      BY <2>1, <2>2
    <2> QED BY <2>3 DEF d
  <1> HIDE DEF u, l
  <1>4. n \in 0..Len(u)
    BY <1>1
  <1>5. /\ r \in Seq(Bytes) /\ Len(r) = Len(u) - n
        /\ \A j \in 1..(Len(u) - n) : r[j] = u[n + j]
    BY <1>1, <1>4, DropFacts
  <1> HIDE DEF r
  <1>6. Len(l) = Len(r)
    BY <1>1, <1>3, <1>5
  <1>7. ASSUME NEW j \in 1..Len(l) PROVE l[j] = r[j]
    <2>1. r[j] = u[n + j] /\ n + j \in 1..(Len(s) + Len(t))
      BY <1>1, <1>3, <1>5
    <2>2. CASE j <= Len(s) - n
      <3>1. l[j] = s[n + j]
        BY <1>1, <1>2, <1>3, <2>2
      <3>2. u[n + j] = s[n + j]
        BY <1>1, <2>1, <2>2
      <3> QED BY <2>1, <3>1, <3>2
    <2>3. CASE ~(j <= Len(s) - n)
      <3>1. l[j] = t[j - (Len(s) - n)]
        BY <1>1, <1>3, <2>3
      <3>2. u[n + j] = t[n + j - Len(s)]
        BY <1>1, <2>1, <2>3
      <3>3. n + j - Len(s) = j - (Len(s) - n)
        BY <1>1
      <3> QED BY <2>1, <3>1, <3>2, <3>3
    <2> QED BY <2>2, <2>3
  <1>8. l = r
    BY <1>3, <1>5, <1>6, <1>7, SeqEqual
  <1> QED BY <1>4, <1>8 DEF l, r, u

\* What is left of a run is one.
LEMMA RunsDrop ==
    ASSUME NEW n \in Nat, NEW s \in Seq(Bytes), Runs(n, s), NEW k \in 0..Len(s)
    PROVE  Runs(n, Drop(s, k))
  <1> DEFINE t == Drop(s, k)
  <1>1. /\ t \in Seq(Bytes) /\ Len(t) = Len(s) - k /\ Len(s) \in Nat
        /\ \A j \in 1..Len(t) : t[j] = s[k + j] /\ k + j \in 1..Len(s)
    <2>1. /\ t \in Seq(Bytes) /\ Len(t) = Len(s) - k /\ Len(s) \in Nat
          /\ \A j \in 1..(Len(s) - k) : t[j] = s[k + j]
      BY DropFacts, LenProperties
    <2> HIDE DEF t
    <2>2. \A j \in 1..Len(t) : j \in 1..(Len(s) - k) /\ k + j \in 1..Len(s)
      BY <2>1
    <2> QED BY <2>1, <2>2
  <1> HIDE DEF t
  <1>2. \A j \in 1..Len(t) : t[j][1] \in 1..n /\ t[j][2] \in 1..Size(t[j][1])
    BY <1>1 DEF Runs
  <1>3. ASSUME NEW j \in 1..Len(t), NEW d \in 0..(Size(t[j][1]) - t[j][2]), j + d <= Len(t)
        PROVE  t[j + d] = <<t[j][1], t[j][2] + d>>
    <2>1. /\ t[j] = s[k + j] /\ k + j \in 1..Len(s) /\ d \in Nat
          /\ j + d \in 1..Len(t) /\ (k + j) + d <= Len(s)
      BY <1>1, <1>3
    <2>2. t[j + d] = s[k + (j + d)]
      BY <1>1, <2>1
    <2>3. s[(k + j) + d] = <<s[k + j][1], s[k + j][2] + d>>
      BY <1>3, <2>1 DEF Runs
    <2>4. k + (j + d) = (k + j) + d
      BY <2>1
    <2> QED BY <2>1, <2>2, <2>3, <2>4
  <1>4. ASSUME NEW j \in 1..Len(t), t[j][2] = Size(t[j][1]), j < Len(t)
        PROVE  t[j + 1] = <<t[j][1] + 1, 1>>
    <2>1. /\ t[j] = s[k + j] /\ k + j \in 1..Len(s)
          /\ j + 1 \in 1..Len(t) /\ k + j < Len(s)
      BY <1>1, <1>4
    <2>2. t[j + 1] = s[k + (j + 1)]
      BY <1>1, <2>1
    <2>3. s[(k + j) + 1] = <<s[k + j][1] + 1, 1>>
      BY <1>4, <2>1 DEF Runs
    <2>4. k + (j + 1) = (k + j) + 1
      OBVIOUS
    <2> QED BY <2>1, <2>2, <2>3, <2>4
  <1>5. Runs(n, t)
    BY <1>2, <1>3, <1>4 DEF Runs
  <1> QED BY <1>5 DEF t

\* The bytes of a packet and of a message.
LEMMA PacketFacts ==
    ASSUME NEW i \in 1..Len(Sizes)
    PROVE  /\ Size(i) \in Nat /\ Sizes[i] \in Nat \ {0} /\ Size(i) > Prefix
           /\ Packet(i) \in Seq(Bytes) /\ Len(Packet(i)) = Size(i)
           /\ \A k \in 1..Size(i) : Packet(i)[k] = <<i, k>>
           /\ Message(i) \in Seq(Bytes) /\ Len(Message(i)) = Sizes[i]
           /\ \A k \in 1..Sizes[i] : Message(i)[k] = <<i, Prefix + k>>
  <1>1. Sizes[i] \in Nat \ {0} /\ Prefix \in Nat \ {0} /\ i \in Nat
    BY PeerStreamAssumption
  <1>2. Size(i) \in Nat /\ Size(i) > Prefix /\ Size(i) - Prefix = Sizes[i] /\ Prefix \in 0..Size(i)
    BY <1>1 DEF Size
  <1>3. Packet(i) = [k \in 1..Size(i) |-> <<i, k>>]
    BY DEF Packet, Size
  <1>4. Packet(i) \in [1..Size(i) -> Bytes]
    BY <1>1, <1>3 DEF Bytes
  <1>5. /\ Packet(i) \in Seq(Bytes) /\ Len(Packet(i)) = Size(i)
        /\ \A k \in 1..Size(i) : Packet(i)[k] = <<i, k>>
    <2> DEFINE n == Size(i)
               p == Packet(i)
    <2>1. n \in Nat /\ p \in [1..n -> Bytes]
      BY <1>2, <1>4
    <2>2. \A k \in 1..n : p[k] = <<i, k>>
      BY <1>3
    <2> HIDE DEF n, p
    <2>3. p \in Seq(Bytes) /\ Len(p) = n
      BY <2>1
    <2> QED BY <2>2, <2>3 DEF n, p
  <1>6. /\ Message(i) \in Seq(Bytes) /\ Len(Message(i)) = Size(i) - Prefix
        /\ \A k \in 1..(Size(i) - Prefix) : Message(i)[k] = Packet(i)[Prefix + k]
    BY <1>2, <1>5, DropFacts DEF Message
  <1>7. ASSUME NEW k \in 1..Sizes[i] PROVE Message(i)[k] = <<i, Prefix + k>>
    <2>1. Prefix + k \in 1..Size(i) /\ k \in 1..(Size(i) - Prefix)
      BY <1>1, <1>2
    <2> QED BY <1>5, <1>6, <2>1
  <1> QED BY <1>1, <1>2, <1>5, <1>6, <1>7

\* A run that ends with a packet goes on with the next packet.
LEMMA RunsAppend ==
    ASSUME NEW n \in Nat, n + 1 \in 1..Len(Sizes), NEW s \in Seq(Bytes), Runs(n, s),
           s # << >> => s[Len(s)] = <<n, Size(n)>>
    PROVE  /\ Runs(n + 1, s \o Packet(n + 1))
           /\ s \o Packet(n + 1) \in Seq(Bytes) /\ s \o Packet(n + 1) # << >>
           /\ (s \o Packet(n + 1))[Len(s \o Packet(n + 1))] = <<n + 1, Size(n + 1)>>
           /\ (s \o Packet(n + 1))[1] = IF s = << >> THEN <<n + 1, 1>> ELSE s[1]
  <1> DEFINE p == Packet(n + 1)
             z == Size(n + 1)
             t == s \o p
  <1>1. /\ p \in Seq(Bytes) /\ Len(p) = z /\ z \in Nat \ {0}
        /\ \A k \in 1..z : p[k] = <<n + 1, k>>
    BY PacketFacts, PeerStreamAssumption
  <1>2. Len(s) \in Nat /\ (s = << >> <=> Len(s) = 0)
    BY LenProperties, EmptySeq
  <1> HIDE DEF p, z
  <1>3. /\ t \in Seq(Bytes) /\ Len(t) = Len(s) + z
        /\ \A j \in 1..(Len(s) + z) : t[j] = IF j <= Len(s) THEN s[j] ELSE p[j - Len(s)]
    BY <1>1, ConcatProperties
  <1> HIDE DEF t
  <1>4. /\ \A j \in 1..Len(s) : t[j] = s[j]
        /\ \A k \in 1..z : t[Len(s) + k] = <<n + 1, k>>
    <2>1. ASSUME NEW k \in 1..z PROVE t[Len(s) + k] = <<n + 1, k>>
      <3>1. Len(s) + k \in 1..(Len(s) + z) /\ ~(Len(s) + k <= Len(s)) /\ Len(s) + k - Len(s) = k
        BY <1>1, <1>2
      <3>2. t[Len(s) + k] = p[Len(s) + k - Len(s)]
        BY <1>3, <3>1
      <3>3. t[Len(s) + k] = p[k]
        BY <3>1, <3>2
      <3> QED BY <1>1, <3>3
    <2>2. ASSUME NEW j \in 1..Len(s) PROVE t[j] = s[j]
      <3>1. j \in 1..(Len(s) + z) /\ j <= Len(s)
        BY <1>1, <1>2
      <3> QED BY <1>3, <3>1
    <2> QED BY <2>1, <2>2
  <1>5. \A j \in 1..Len(t) : j \in 1..Len(s) \/ (j - Len(s) \in 1..z /\ j = Len(s) + (j - Len(s)))
    BY <1>1, <1>2, <1>3
  <1>6. ASSUME NEW j \in 1..Len(t) PROVE t[j][1] \in 1..(n + 1) /\ t[j][2] \in 1..Size(t[j][1])
    <2>1. CASE j \in 1..Len(s)
      BY <1>4, <2>1 DEF Runs
    <2>2. CASE j - Len(s) \in 1..z /\ j = Len(s) + (j - Len(s))
      <3>1. t[j] = <<n + 1, j - Len(s)>>
        BY <1>4, <2>2
      <3> QED BY <2>2, <3>1 DEF z
    <2> QED BY <1>5, <2>1, <2>2
  <1>7. ASSUME NEW j \in 1..Len(t), NEW d \in 0..(Size(t[j][1]) - t[j][2]), j + d <= Len(t)
        PROVE  t[j + d] = <<t[j][1], t[j][2] + d>>
    <2>1. CASE j \in 1..Len(s) /\ j + d <= Len(s)
      <3>1. t[j] = s[j] /\ j + d \in 1..Len(s) /\ t[j + d] = s[j + d]
        BY <1>2, <1>4, <2>1
      <3>2. d \in 0..(Size(s[j][1]) - s[j][2])
        BY <3>1
      <3>3. s[j + d] = <<s[j][1], s[j][2] + d>>
        BY <2>1, <3>2 DEF Runs
      <3> QED BY <3>1, <3>3
    <2>2. CASE j \in 1..Len(s) /\ ~(j + d <= Len(s))
      <3> DEFINE e == Len(s) - j
      <3>1. t[j] = s[j] /\ e \in Nat /\ e < d /\ j + e = Len(s) /\ s # << >>
        <4>1. t[j] = s[j]
          BY <1>4, <2>2
        <4>2. e \in Nat /\ e < d /\ j + e = Len(s) /\ Len(s) # 0
          BY <1>2, <2>2
        <4> QED BY <1>2, <4>1, <4>2
      <3>2. s[j][1] \in 1..n /\ s[j][2] \in 1..Size(s[j][1])
        BY <2>2 DEF Runs
      <3>3. Size(s[j][1]) \in Int /\ s[j][2] \in Int
        <4>1. s[j][1] \in 1..Len(Sizes)
          BY <3>2
        <4> DEFINE i == s[j][1]
        <4>2. i \in 1..Len(Sizes)
          BY <4>1
        <4> HIDE DEF i
        <4>3. Size(i) \in Nat
          BY <4>2, PacketFacts
        <4> QED BY <3>2, <4>3 DEF i
      <3> HIDE DEF e
      <3>4. e \in 0..(Size(s[j][1]) - s[j][2])
        <4>1. d \in 0..(Size(s[j][1]) - s[j][2])
          BY <3>1
        <4> QED BY <3>1, <3>3, <4>1
      <3>5. s[j + e] = <<s[j][1], s[j][2] + e>>
        BY <2>2, <1>2, <3>1, <3>4 DEF Runs
      <3>6. s[j][1] = n /\ s[j][2] + e = Size(n)
        BY <3>1, <3>5
      <3> QED BY <3>1, <3>3, <3>6
    <2>3. CASE j - Len(s) \in 1..z /\ j = Len(s) + (j - Len(s))
      <3>1. t[j] = <<n + 1, j - Len(s)>>
        BY <1>4, <2>3
      <3>2. d \in 0..(z - (j - Len(s)))
        BY <3>1 DEF z
      <3>3. (j - Len(s)) + d \in 1..z /\ Len(s) + ((j - Len(s)) + d) = j + d
        BY <1>1, <1>2, <2>3, <3>2
      <3>4. t[Len(s) + ((j - Len(s)) + d)] = <<n + 1, (j - Len(s)) + d>>
        BY <1>4, <3>3
      <3> QED BY <3>1, <3>3, <3>4
    <2> QED BY <1>5, <2>1, <2>2, <2>3
  <1>8. ASSUME NEW j \in 1..Len(t), t[j][2] = Size(t[j][1]), j < Len(t)
        PROVE  t[j + 1] = <<t[j][1] + 1, 1>>
    <2>1. CASE j \in 1..Len(s) /\ j < Len(s)
      <3>1. t[j] = s[j] /\ j + 1 \in 1..Len(s) /\ t[j + 1] = s[j + 1]
        BY <1>2, <1>4, <2>1
      <3> QED BY <1>8, <2>1, <3>1 DEF Runs
    <2>2. CASE j \in 1..Len(s) /\ j = Len(s)
      <3>1. t[j] = <<n, Size(n)>>
        BY <1>2, <1>4, <2>2
      <3>2. 1 \in 1..z /\ t[Len(s) + 1] = <<n + 1, 1>>
        BY <1>1, <1>4
      <3> QED BY <2>2, <3>1, <3>2
    <2>3. CASE j - Len(s) \in 1..z /\ j = Len(s) + (j - Len(s))
      <3>1. t[j] = <<n + 1, j - Len(s)>>
        BY <1>4, <2>3
      <3>2. j - Len(s) = z
        BY <1>8, <3>1 DEF z
      <3> QED BY <1>1, <1>2, <1>3, <1>8, <3>2
    <2>4. j \in 1..Len(s) => j < Len(s) \/ j = Len(s)
      BY <1>2
    <2> QED BY <1>5, <2>1, <2>2, <2>3, <2>4
  <1>9. Runs(n + 1, t)
    BY <1>6, <1>7, <1>8 DEF Runs
  <1>10. t # << >> /\ t[Len(t)] = <<n + 1, z>>
    BY <1>1, <1>2, <1>3, <1>4, EmptySeq
  <1>11. t[1] = IF s = << >> THEN <<n + 1, 1>> ELSE s[1]
    <2>1. CASE s = << >>
      <3>1. 1 \in 1..z /\ Len(s) + 1 = 1
        BY <1>1, <1>2, <2>1
      <3> QED BY <1>4, <2>1, <3>1
    <2>2. CASE s # << >>
      BY <1>2, <1>4, <2>2
    <2> QED BY <2>1, <2>2
  <1> QED BY <1>3, <1>9, <1>10, <1>11 DEF t, p, z

-------------------------------------------------------------------------------
(***************************************************************************)
(* The list of the queue.                                                  *)
(***************************************************************************)

\* A packet is added at its end.
LEMMA EnqueueHolds ==
    ASSUME NEW n \in Nat, NEW q, Holds(q, n)
    PROVE  Holds(Enqueue(q, n + 1), n + 1) /\ Enqueue(q, n + 1).size = q.size + 1
  <1> DEFINE m == Append(q.nodes, [data |-> n + 1, next |-> 0])
             l == [m EXCEPT ![q.tail].next = n + 1]
             r == Enqueue(q, n + 1)
             Node == [data : Nat, next : Nat]
  <1>1. /\ q \in [nodes : Seq(Node), head : Nat, tail : Nat, size : Nat]
        /\ q.nodes \in Seq(Node) /\ q.size \in Nat /\ q.size <= n /\ Len(q.nodes) = n
        /\ q.head = (IF q.size = 0 THEN 0 ELSE n - q.size + 1)
        /\ q.tail = (IF q.size = 0 THEN 0 ELSE n)
    BY DEF Holds
  <1>2. /\ m \in Seq(Node) /\ Len(m) = n + 1 /\ m[n + 1] = [data |-> n + 1, next |-> 0]
        /\ \A i \in 1..n : m[i] = q.nodes[i]
    BY <1>1
  <1>3. \A i \in 1..n : m[i] \in Node /\ m[i].data = i
    <2>1. \A i \in 1..n : q.nodes[i].data = i /\ q.nodes[i] \in Node
      <3>1. \A i \in 1..n : q.nodes[i].data = i
        BY DEF Holds
      <3> HIDE DEF Node
      <3>2. \A i \in 1..n : q.nodes[i] \in Node
        BY <1>1
      <3> QED BY <3>1, <3>2
    <2> HIDE DEF m, Node
    <2> QED BY <1>2, <2>1
  <1>4. \A i \in 1..n : i > n - q.size => m[i].next = IF i < n THEN i + 1 ELSE 0
    <2>1. ASSUME NEW i \in 1..n, i > n - q.size
          PROVE  q.nodes[i].next = IF i < n THEN i + 1 ELSE 0
      BY <2>1 DEF Holds
    <2>2. \A i \in 1..n : m[i].next = q.nodes[i].next
      BY <1>2
    <2> HIDE DEF m
    <2> QED BY <2>1, <2>2
  <1> HIDE DEF m
  <1>5. CASE q.size = 0
    <2>1. r = [q EXCEPT !.nodes = m, !.head = n + 1, !.tail = n + 1, !.size = q.size + 1]
      BY <1>1, <1>5 DEF Enqueue, AddLast, WithNode, m
    <2> HIDE DEF r
    <2>2. /\ r.nodes = m /\ r.head = n + 1 /\ r.tail = n + 1 /\ r.size = 1
          /\ r \in [nodes : Seq(Node), head : Nat, tail : Nat, size : Nat]
      <3> HIDE DEF Node
      <3>1. r.nodes = m /\ r.head = n + 1 /\ r.tail = n + 1 /\ r.size = q.size + 1
        BY <1>1, <2>1
      <3>2. n + 1 \in Nat /\ q.size + 1 \in Nat
        BY <1>1
      <3>3. r \in [nodes : Seq(Node), head : Nat, tail : Nat, size : Nat]
        BY <1>1, <1>2, <2>1, <3>2
      <3> QED BY <1>5, <3>1, <3>3
    <2>3. \A i \in 1..(n + 1) : r.nodes[i].data = i
      BY <1>2, <1>3, <2>2
    <2>4. \A i \in 1..(n + 1) : i > n + 1 - r.size => r.nodes[i].next = IF i < n + 1 THEN i + 1 ELSE 0
      BY <1>2, <2>2
    <2>5. Holds(r, n + 1) /\ r.size = q.size + 1
      BY <1>2, <1>5, <2>2, <2>3, <2>4 DEF Holds
    <2> QED BY <2>5 DEF r
  <1>6. CASE q.size # 0
    <2>1. r = [q EXCEPT !.nodes = l, !.tail = n + 1, !.size = q.size + 1]
      <3>1. q.tail # 0 /\ Len(q.nodes) + 1 = n + 1
        BY <1>1, <1>6
      <3>2. r = [q EXCEPT !.nodes = [m EXCEPT ![q.tail].next = n + 1], !.tail = n + 1, !.size = @ + 1]
        BY <1>1, <3>1, Zenon DEF Enqueue, AddLast, WithNode, m
      <3> HIDE DEF m, r
      <3> QED BY <3>2
    <2>2. q.tail = n /\ n \in 1..n /\ n >= 1
      BY <1>1, <1>6
    <2> DEFINE e == [m[n] EXCEPT !.next = n + 1]
    <2>3. l = [m EXCEPT ![n] = e]
      BY <2>2
    <2>4. e \in Node /\ e.data = n /\ e.next = n + 1
      BY <1>3, <2>2
    <2> HIDE DEF r, e, l
    <2>5. /\ l \in Seq(Node) /\ Len(l) = n + 1
          /\ \A j \in 1..(n + 1) : l[j] = IF j = n THEN e ELSE m[j]
      BY <1>2, <2>2, <2>3, <2>4, ExceptSeq
    <2>6. /\ r.nodes = l /\ r.head = q.head /\ r.tail = n + 1 /\ r.size = q.size + 1
          /\ r \in [nodes : Seq(Node), head : Nat, tail : Nat, size : Nat]
      <3> HIDE DEF Node
      <3>1. q.size + 1 \in Nat /\ n + 1 \in Nat
        BY <1>1
      <3> QED BY <1>1, <2>1, <2>5, <3>1
    <2>7. \A i \in 1..(n + 1) : l[i].data = i
      BY <1>2, <1>3, <2>4, <2>5
    <2>8. \A i \in 1..(n + 1) : i > n - q.size => l[i].next = IF i < n + 1 THEN i + 1 ELSE 0
      <3>1. ASSUME NEW i \in 1..n, i # n, i > n - q.size PROVE l[i].next = i + 1
        <4>1. l[i] = m[i] /\ m[i].next = IF i < n THEN i + 1 ELSE 0
          BY <1>4, <2>5, <3>1
        <4>2. i < n
          BY <3>1
        <4> QED BY <4>1, <4>2
      <3>2. l[n].next = n + 1 /\ l[n + 1].next = 0
        BY <1>2, <2>2, <2>4, <2>5
      <3> QED BY <3>1, <3>2
    <2>9. n + 1 - r.size = n - q.size /\ r.size <= n + 1 /\ r.head = n + 1 - r.size + 1 /\ r.size # 0
      <3>1. q.head = n - q.size + 1
        BY <1>1, <1>6
      <3> QED BY <1>1, <1>6, <2>6, <3>1
    <2>10. Holds(r, n + 1)
      <3>1. r.tail = (IF r.size = 0 THEN 0 ELSE n + 1) /\ r.head = (IF r.size = 0 THEN 0 ELSE n + 1 - r.size + 1)
        BY <2>6, <2>9
      <3>2. \A i \in 1..(n + 1) : i > n + 1 - r.size => r.nodes[i].next = IF i < n + 1 THEN i + 1 ELSE 0
        BY <2>6, <2>8, <2>9
      <3>3. \A i \in 1..(n + 1) : r.nodes[i].data = i
        BY <2>6, <2>7
      <3>4. r.size <= n + 1 /\ Len(r.nodes) = n + 1
        BY <2>5, <2>6, <2>9
      <3>5. r \in [nodes : Seq([data : Nat, next : Nat]), head : Nat, tail : Nat, size : Nat]
        BY <2>6
      <3> HIDE DEF Node
      <3> QED BY <3>1, <3>2, <3>3, <3>4, <3>5 DEF Holds
    <2> QED BY <2>6, <2>10 DEF r
  <1> QED BY <1>5, <1>6

\* The one that waited longest is taken from its beginning.
LEMMA DequeueHolds ==
    ASSUME NEW n \in Nat, NEW q, Holds(q, n), q.size > 0
    PROVE  /\ Front(q) = n - q.size + 1
           /\ Holds(Dequeue(q), n) /\ Dequeue(q).size = q.size - 1
  <1> DEFINE h == n - q.size + 1
             r == Dequeue(q)
             Node == [data : Nat, next : Nat]
  <1>1. /\ q \in [nodes : Seq(Node), head : Nat, tail : Nat, size : Nat]
        /\ q.nodes \in Seq(Node) /\ q.size \in Nat \ {0} /\ q.size <= n /\ Len(q.nodes) = n
        /\ q.head = h /\ q.tail = n
    BY DEF Holds
  <1>2. h \in 1..n /\ h > n - q.size /\ h # 0
    BY <1>1
  <1>3. q.nodes[h].data = h /\ q.nodes[h].next = IF h < n THEN h + 1 ELSE 0
    BY <1>2 DEF Holds
  <1>4. Front(q) = h
    BY <1>1, <1>2, <1>3 DEF Front, GetFirst
  <1> DEFINE x == IF h < n THEN h + 1 ELSE 0
  <1>5. r = [q EXCEPT !.head = x, !.tail = IF x = 0 THEN 0 ELSE n, !.size = q.size - 1]
    BY <1>1, <1>2, <1>3 DEF Dequeue, RemoveFirst, TailAfter
  <1>6. x \in Nat /\ (x = 0 <=> q.size - 1 = 0) /\ (x # 0 => x = n - (q.size - 1) + 1)
    <2>1. q.size \in Nat \ {0} /\ q.size <= n
      BY <1>1
    <2>2. CASE q.size = 1
      <3>1. ~(h < n)
        BY <2>1, <2>2
      <3> QED BY <2>2, <3>1
    <2>3. CASE q.size # 1
      <3>1. h < n /\ h + 1 = n - (q.size - 1) + 1 /\ h + 1 \in Nat \ {0} /\ q.size - 1 # 0
        BY <2>1, <2>3
      <3> QED BY <3>1
    <2> QED BY <2>2, <2>3
  <1> HIDE DEF r, x
  <1>7. /\ r.nodes = q.nodes /\ r.head = x /\ r.tail = (IF x = 0 THEN 0 ELSE n)
        /\ r.size = q.size - 1
        /\ r \in [nodes : Seq(Node), head : Nat, tail : Nat, size : Nat]
    <2> HIDE DEF Node
    <2>1. q.size - 1 \in Nat /\ (IF x = 0 THEN 0 ELSE n) \in Nat
      BY <1>1
    <2> QED BY <1>1, <1>5, <1>6, <2>1
  <1>8. \A i \in 1..n : r.nodes[i].data = i
    BY <1>7 DEF Holds
  <1>9. \A i \in 1..n : i > n - r.size => r.nodes[i].next = IF i < n THEN i + 1 ELSE 0
    BY <1>1, <1>7 DEF Holds
  <1>10. Holds(r, n)
    BY <1>1, <1>6, <1>7, <1>8, <1>9 DEF Holds
  <1> QED BY <1>4, <1>7, <1>10 DEF r

-------------------------------------------------------------------------------
(***************************************************************************)
(* The invariant.                                                          *)
(***************************************************************************)

\* What the steps need to know of the types.
LEMMA StreamTyped ==
    ASSUME StreamInv
    PROVE  /\ Stream \in Seq(Bytes) /\ wire \o rest \in Seq(Bytes)
           /\ Len(Sizes) \in Nat /\ Len(received) \in Nat /\ sent \in Nat
           /\ queue.size \in Nat /\ Taken \in 0..sent /\ Taken \in 0..Len(Sizes) /\ Taken \in Nat
  <1>1. /\ wire \in Seq(Bytes) /\ rest \in Seq(Bytes) /\ buffer \in Seq(Bytes)
        /\ received \in Seq(Seq(Bytes)) /\ sent \in 0..Len(Sizes)
    BY DEF StreamInv, TypeOK
  <1>2. wire \o rest \in Seq(Bytes)
    BY <1>1, ConcatProperties
  <1>3. Stream \in Seq(Bytes)
    BY <1>1, <1>2, ConcatProperties DEF Stream
  <1>4. Len(Sizes) \in Nat
    BY PeerStreamAssumption, LenProperties
  <1>5. Len(received) \in Nat
    BY <1>1, LenProperties
  <1>6. queue.size \in Nat /\ queue.size <= sent
    BY DEF StreamInv, Holds
  <1>7. sent \in Nat
    BY <1>1, <1>4
  <1>8. Taken \in 0..sent
    BY <1>6, <1>7 DEF Taken
  <1>9. Taken \in 0..Len(Sizes)
    BY <1>1, <1>4, <1>7, <1>8
  <1>10. Taken \in Nat
    BY <1>7, <1>8
  <1> QED BY <1>2, <1>3, <1>4, <1>5, <1>6, <1>7, <1>8, <1>9, <1>10

\* Where the first two of three sequences are joined does not matter.
LEMMA Associates ==
    ASSUME NEW a \in Seq(Bytes), NEW b \in Seq(Bytes), NEW c \in Seq(Bytes)
    PROVE  (a \o b) \o c = a \o (b \o c)
  <1> DEFINE ab == a \o b
             bc == b \o c
             l  == ab \o c
             r  == a \o bc
  <1>1. Len(a) \in Nat /\ Len(b) \in Nat /\ Len(c) \in Nat
    BY LenProperties
  <1>2. /\ ab \in Seq(Bytes) /\ Len(ab) = Len(a) + Len(b)
        /\ \A j \in 1..(Len(a) + Len(b)) : ab[j] = IF j <= Len(a) THEN a[j] ELSE b[j - Len(a)]
    BY ConcatProperties
  <1>3. /\ bc \in Seq(Bytes) /\ Len(bc) = Len(b) + Len(c)
        /\ \A j \in 1..(Len(b) + Len(c)) : bc[j] = IF j <= Len(b) THEN b[j] ELSE c[j - Len(b)]
    BY ConcatProperties
  <1> HIDE DEF ab, bc
  <1>4. /\ l \in Seq(Bytes) /\ Len(l) = Len(ab) + Len(c)
        /\ \A j \in 1..(Len(ab) + Len(c)) : l[j] = IF j <= Len(ab) THEN ab[j] ELSE c[j - Len(ab)]
    <2>1. ab \in Seq(Bytes)
      BY <1>2
    <2> QED BY <2>1, ConcatProperties
  <1>5. /\ r \in Seq(Bytes) /\ Len(r) = Len(a) + Len(bc)
        /\ \A j \in 1..(Len(a) + Len(bc)) : r[j] = IF j <= Len(a) THEN a[j] ELSE bc[j - Len(a)]
    <2>1. bc \in Seq(Bytes)
      BY <1>3
    <2> QED BY <2>1, ConcatProperties
  <1> HIDE DEF l, r
  <1>6. ASSUME NEW j \in 1..Len(l) PROVE l[j] = r[j]
    <2>1. j \in Nat /\ j >= 1 /\ j <= Len(a) + Len(b) + Len(c)
      BY <1>1, <1>2, <1>4
    <2>2. CASE j <= Len(a)
      <3>1. l[j] = ab[j] /\ ab[j] = a[j]
        BY <1>1, <1>2, <1>4, <2>1, <2>2
      <3>2. j \in 1..(Len(a) + Len(bc))
        BY <1>1, <1>3, <2>1, <2>2
      <3>3. r[j] = a[j]
        BY <1>5, <2>2, <3>2
      <3> QED BY <3>1, <3>3
    <2>3. CASE Len(a) < j /\ j <= Len(a) + Len(b)
      <3>1. l[j] = b[j - Len(a)]
        BY <1>1, <1>2, <1>4, <2>1, <2>3
      <3>2. r[j] = bc[j - Len(a)] /\ j - Len(a) \in 1..Len(b)
        BY <1>1, <1>3, <1>5, <2>1, <2>3
      <3>3. bc[j - Len(a)] = b[j - Len(a)]
        BY <1>1, <1>3, <3>2
      <3> QED BY <3>1, <3>2, <3>3
    <2>4. CASE Len(a) + Len(b) < j
      <3>1. l[j] = c[j - (Len(a) + Len(b))]
        BY <1>1, <1>2, <1>4, <2>1, <2>4
      <3>2. r[j] = bc[j - Len(a)] /\ j - Len(a) \in 1..(Len(b) + Len(c)) /\ ~(j - Len(a) <= Len(b))
        BY <1>1, <1>3, <1>5, <2>1, <2>4
      <3>3. bc[j - Len(a)] = c[j - Len(a) - Len(b)]
        BY <1>3, <3>2
      <3>4. j - Len(a) - Len(b) = j - (Len(a) + Len(b))
        BY <1>1, <2>1
      <3> QED BY <3>1, <3>2, <3>3, <3>4
    <2> QED BY <1>1, <2>1, <2>2, <2>3, <2>4
  <1>7. Len(l) = Len(r)
    BY <1>1, <1>2, <1>3, <1>4, <1>5
  <1>8. l = r
    BY <1>4, <1>5, <1>6, <1>7, SeqEqual
  <1> QED BY <1>8 DEF l, r, ab, bc

\* Wherever the bytes r are cut, writing the first part leaves the stream as it is.
LEMMA CutRest ==
    ASSUME NEW w \in Seq(Bytes), NEW r \in Seq(Bytes), NEW f \in 0..Len(r)
    PROVE  /\ w \o Take(r, f) \in Seq(Bytes) /\ Len(w \o Take(r, f)) = Len(w) + f
           /\ (w \o Take(r, f)) \o Drop(r, f) = w \o r
  <1> DEFINE a == Take(r, f)
             b == Drop(r, f)
  <1>1. a \in Seq(Bytes) /\ Len(a) = f /\ b \in Seq(Bytes) /\ a \o b = r
    BY TakeFacts, DropFacts, TakeDrop
  <1> HIDE DEF a, b
  <1>2. w \o a \in Seq(Bytes) /\ Len(w \o a) = Len(w) + f
    BY <1>1, ConcatProperties
  <1>3. (w \o a) \o b = w \o (a \o b)
    BY <1>1, Associates
  <1> QED BY <1>1, <1>2, <1>3 DEF a, b

\* The part the socket takes is a part, and is not more than it holds.
LEMMA FitsFacts ==
    ASSUME StreamInv, NEW r \in Seq(Bytes)
    PROVE  Fits(r) \in 0..Len(r) /\ Len(wire) + Fits(r) <= Capacity
  <1>1. Len(wire) \in Nat /\ Len(wire) <= Capacity
    BY LenProperties DEF StreamInv, TypeOK
  <1>2. Len(r) \in Nat
    BY LenProperties
  <1>3. Capacity \in Nat
    BY PeerStreamAssumption
  <1> QED BY <1>1, <1>2, <1>3 DEF Fits

\* Nothing was sent: the stream is empty.
LEMMA InitInv == Init => StreamInv
  <1> SUFFICES ASSUME Init PROVE StreamInv
    OBVIOUS
  <1>1. Len(Sizes) \in Nat /\ Capacity \in Nat
    BY PeerStreamAssumption, LenProperties
  <1>2. TypeOK
    <2>1. /\ << >> \in Seq(Bytes) /\ << >> \in Seq(Seq(Bytes)) /\ Len(<< >>) = 0
          /\ 0 \in 0..Len(Sizes) /\ 0 <= Capacity
      BY <1>1, EmptySeq
    <2> QED BY <2>1 DEF Init, TypeOK
  <1>3. Holds(queue, sent) /\ Taken = 0
    BY DEF Init, Holds, EmptyList, Taken
  <1>4. InOrder /\ Len(received) <= Taken
    BY <1>3 DEF Init, InOrder
  <1>5. Stream = << >>
    <2>1. << >> \in Seq(Bytes) /\ << >> \o << >> = << >>
      BY ConcatEmptySeq, EmptySeq
    <2> QED BY <2>1 DEF Stream, Init
  <1>6. Runs(Taken, Stream)
    BY <1>5 DEF Runs
  <1>7. Spans(Len(received), size, Taken, Stream)
    BY <1>3, <1>5 DEF Spans, Init
  <1> QED BY <1>2, <1>3, <1>4, <1>6, <1>7 DEF StreamInv, Init

\* A packet that is given to send joins the queue, not the stream.
LEMMA SendInv == ASSUME StreamInv, Send PROVE StreamInv'
  <1>1. /\ link = "up" /\ sent < Len(Sizes) /\ sent' = sent + 1
        /\ queue' = Enqueue(queue, sent + 1)
        /\ rest' = rest /\ wire' = wire /\ buffer' = buffer /\ size' = size
        /\ unpacking' = unpacking /\ received' = received /\ link' = link
    BY DEF Send, receiver
  <1>2. sent \in Nat /\ Len(Sizes) \in Nat /\ queue.size \in Nat
    BY StreamTyped
  <1>3. Holds(queue, sent)
    BY DEF StreamInv
  <1>4. Holds(queue', sent') /\ queue'.size = queue.size + 1
    BY <1>1, <1>2, <1>3, EnqueueHolds
  <1>5. Taken' = Taken
    BY <1>1, <1>2, <1>4 DEF Taken
  <1>6. sent' \in 0..Len(Sizes)
    BY <1>1, <1>2
  <1>7. TypeOK'
    BY <1>1, <1>6 DEF StreamInv, TypeOK
  <1>8. InOrder'
    <2>1. ASSUME NEW i \in DOMAIN received PROVE i <= sent + 1 /\ received[i] = Message(i)
      <3>1. i <= sent /\ received[i] = Message(i) /\ i \in Nat
        <4>1. DOMAIN received = 1..Len(received)
          BY DEF StreamInv, TypeOK
        <4>2. Len(received) \in Nat
          BY StreamTyped
        <4> QED BY <4>1, <4>2 DEF StreamInv, InOrder
      <3> QED BY <1>2, <3>1
    <2> QED BY <1>1, <2>1 DEF InOrder
  <1>9. Stream' = Stream
    BY <1>1 DEF Stream
  <1>10. Runs(Taken', Stream') /\ Spans(Len(received'), size', Taken', Stream')
    BY <1>1, <1>5, <1>9 DEF StreamInv
  <1>11. Len(received') <= Taken' /\ (unpacking' => buffer' # << >>) /\ link' = "up"
    BY <1>1, <1>5 DEF StreamInv
  <1> QED BY <1>4, <1>7, <1>8, <1>10, <1>11 DEF StreamInv

\* The next packet follows what the stream ended with.
LEMMA ProcessInv == ASSUME StreamInv, ProcessPackageSending PROVE StreamInv'
  <1> DEFINE n == Taken
             p == Packet(Front(queue))
             f == Fits(p)
  <1>1. /\ link = "up" /\ rest = << >> /\ queue.size > 0
        /\ wire' = wire \o Take(p, f) /\ rest' = Drop(p, f)
        /\ queue' = Dequeue(queue)
        /\ sent' = sent /\ buffer' = buffer /\ size' = size
        /\ unpacking' = unpacking /\ received' = received /\ link' = link
    BY DEF ProcessPackageSending, receiver
  <1>2. /\ sent \in Nat /\ Len(Sizes) \in Nat /\ queue.size \in Nat /\ n \in 0..sent /\ n \in Nat
        /\ Len(received) \in Nat /\ Stream \in Seq(Bytes) /\ sent <= Len(Sizes)
    BY StreamTyped DEF StreamInv, TypeOK
  <1>3. /\ Front(queue) = n + 1 /\ Holds(queue', sent') /\ queue'.size = queue.size - 1
    <2>1. Holds(queue, sent)
      BY DEF StreamInv
    <2>2. /\ Front(queue) = sent - queue.size + 1
          /\ Holds(Dequeue(queue), sent) /\ Dequeue(queue).size = queue.size - 1
      BY <1>1, <1>2, <2>1, DequeueHolds
    <2> QED BY <1>1, <1>2, <2>2 DEF Taken
  <1>4. n + 1 \in 1..Len(Sizes) /\ Taken' = n + 1
    BY <1>1, <1>2, <1>3 DEF Taken
  <1>5. p = Packet(n + 1) /\ p \in Seq(Bytes)
    BY <1>3, <1>4, PacketFacts
  <1> HIDE DEF p
  <1>6. f \in 0..Len(p) /\ Len(wire) + f <= Capacity
    BY <1>5, FitsFacts
  <1> HIDE DEF f
  <1>7. /\ wire \in Seq(Bytes) /\ buffer \in Seq(Bytes) /\ received \in Seq(Seq(Bytes))
        /\ size \in Nat /\ unpacking \in BOOLEAN
    BY DEF StreamInv, TypeOK
  <1>8. /\ wire' \in Seq(Bytes) /\ Len(wire') = Len(wire) + f /\ wire' \o rest' = wire \o p
        /\ rest' \in Seq(Bytes)
    BY <1>1, <1>5, <1>6, <1>7, CutRest, DropFacts
  <1>9. TypeOK'
    <2>1. sent' \in 0..Len(Sizes)
      BY <1>1, <1>2
    <2>2. Len(wire') <= Capacity
      BY <1>6, <1>8
    <2> QED BY <1>1, <1>7, <1>8, <2>1, <2>2 DEF TypeOK
  <1>10. Stream' = Stream \o p
    <2>1. wire \o rest = wire
      BY <1>1, <1>7, ConcatEmptySeq
    <2>2. Stream = buffer \o wire
      BY <2>1 DEF Stream
    <2>3. Stream' = buffer \o (wire \o p)
      BY <1>1, <1>8 DEF Stream
    <2> QED BY <1>5, <1>7, <2>2, <2>3, Associates
  <1> DEFINE s == Stream
             m == Len(received)
  <1>11. s \in Seq(Bytes) /\ Runs(n, s) /\ Spans(m, size, n, s)
    BY <1>1, <1>2 DEF StreamInv
  <1> HIDE DEF n, s, m
  <1>12. s # << >> => s[Len(s)] = <<n, Size(n)>> /\ s[1] = <<m + 1, IF size = 0 THEN 1 ELSE Prefix + 1>>
    BY <1>11 DEF Spans
  <1>13. /\ Runs(n + 1, s \o p) /\ s \o p # << >>
         /\ (s \o p)[Len(s \o p)] = <<n + 1, Size(n + 1)>>
         /\ (s \o p)[1] = IF s = << >> THEN <<n + 1, 1>> ELSE s[1]
    BY <1>2, <1>4, <1>5, <1>11, <1>12, RunsAppend
  <1>14. Spans(m, size, n + 1, s \o p)
    <2>1. CASE s = << >>
      BY <1>11, <1>13, <2>1 DEF Spans
    <2>2. CASE s # << >>
      <3>1. size # 0 => size = Sizes[m + 1]
        BY <1>11, <2>2 DEF Spans
      <3>2. (s \o p)[1] = <<m + 1, IF size = 0 THEN 1 ELSE Prefix + 1>>
        BY <1>12, <1>13, <2>2
      <3> QED BY <1>13, <3>1, <3>2 DEF Spans
    <2> QED BY <2>1, <2>2
  <1>15. Runs(Taken', Stream') /\ Spans(Len(received'), size', Taken', Stream')
    BY <1>1, <1>4, <1>10, <1>13, <1>14 DEF s, m
  <1>16. InOrder'
    BY <1>1 DEF StreamInv, InOrder
  <1>17. Len(received') <= Taken'
    <2>1. m <= n
      BY DEF StreamInv, m, n
    <2> QED BY <1>1, <1>2, <1>4, <2>1 DEF m
  <1>18. (unpacking' => buffer' # << >>) /\ link' = "up"
    BY <1>1 DEF StreamInv
  <1> QED BY <1>3, <1>9, <1>15, <1>16, <1>17, <1>18 DEF StreamInv

\* The rest of a packet follows its beginning, or the stream is torn.
LEMMA WriteDrainedInv == ASSUME StreamInv, WriteDrained PROVE StreamInv'
  <1> DEFINE f == Fits(rest)
  <1>1. /\ link = "up" /\ wire' = wire \o Take(rest, f) /\ rest' = << >>
        /\ link' = (IF f = Len(rest) THEN "up" ELSE "torn")
        /\ queue' = queue /\ sent' = sent /\ buffer' = buffer /\ size' = size
        /\ unpacking' = unpacking /\ received' = received
    BY DEF WriteDrained, receiver
  <1>2. wire \in Seq(Bytes) /\ rest \in Seq(Bytes)
    BY DEF StreamInv, TypeOK
  <1>3. f \in 0..Len(rest) /\ Len(wire) + f <= Capacity
    BY <1>2, FitsFacts
  <1> HIDE DEF f
  <1>4. /\ wire' \in Seq(Bytes) /\ Len(wire') = Len(wire) + f
        /\ wire' \o Drop(rest, f) = wire \o rest
        /\ Drop(rest, f) \in Seq(Bytes) /\ Len(Drop(rest, f)) = Len(rest) - f
    BY <1>1, <1>2, <1>3, CutRest, DropFacts
  <1>5. TypeOK'
    <2>1. rest' \in Seq(Bytes)
      BY <1>1, EmptySeq
    <2>2. Len(wire') <= Capacity
      BY <1>3, <1>4
    <2>3. link' \in {"up", "torn", "overflow"}
      BY <1>1
    <2> QED BY <1>1, <1>4, <2>1, <2>2, <2>3 DEF StreamInv, TypeOK
  <1>6. Taken' = Taken
    BY <1>1 DEF Taken
  <1>7. ASSUME link' = "up"
        PROVE  Runs(Taken', Stream') /\ Spans(Len(received'), size', Taken', Stream')
    <2>1. f = Len(rest) /\ Len(rest) \in Nat
      BY <1>1, <1>2, <1>7, LenProperties
    <2>2. Drop(rest, f) = << >>
      BY <1>4, <2>1, EmptySeq
    <2>3. Stream' = Stream
      BY <1>1, <1>4, <2>2 DEF Stream
    <2> QED BY <1>1, <1>6, <2>3 DEF StreamInv
  <1>8. /\ Holds(queue', sent') /\ InOrder' /\ Len(received') <= Taken'
        /\ unpacking' => buffer' # << >>
    BY <1>1, <1>6 DEF StreamInv, InOrder
  <1>9. link' # "overflow"
    BY <1>1
  <1> QED BY <1>5, <1>7, <1>8, <1>9 DEF StreamInv

\* A chunk only moves the place where the stream is cut.
LEMMA DataInv == ASSUME StreamInv, NEW n \in Nat, Data(n) PROVE StreamInv'
  <1>1. /\ link = "up" /\ n \in 1..Len(wire)
        /\ buffer' = buffer \o Take(wire, n) /\ wire' = Drop(wire, n) /\ unpacking' = TRUE
        /\ queue' = queue /\ sent' = sent /\ rest' = rest /\ size' = size
        /\ received' = received /\ link' = link
    BY DEF Data, sender
  <1>2. /\ wire \in Seq(Bytes) /\ rest \in Seq(Bytes) /\ buffer \in Seq(Bytes)
        /\ Len(wire) <= Capacity /\ Len(wire) \in Nat /\ Len(buffer) \in Nat
        /\ Capacity \in Nat
    BY LenProperties, PeerStreamAssumption DEF StreamInv, TypeOK
  <1>3. n \in 0..Len(wire)
    BY <1>1
  <1>4. /\ Drop(wire, n) \in Seq(Bytes) /\ Len(Drop(wire, n)) = Len(wire) - n
        /\ Take(wire, n) \in Seq(Bytes)
        /\ buffer \o Take(wire, n) \in Seq(Bytes)
        /\ Len(buffer \o Take(wire, n)) = Len(buffer) + n
        /\ (buffer \o Take(wire, n)) \o Drop(wire, n) = buffer \o wire
    BY <1>2, <1>3, DropFacts, TakeFacts, CutRest
  <1>5. TypeOK'
    <2>1. Len(wire') <= Capacity
      BY <1>1, <1>2, <1>4
    <2> QED BY <1>1, <1>4, <2>1 DEF StreamInv, TypeOK
  <1>6. Stream' = Stream
    <2>1. Stream' = buffer' \o (wire' \o rest)
      BY <1>1 DEF Stream
    <2>2. buffer' \o (wire' \o rest) = (buffer' \o wire') \o rest
      BY <1>1, <1>2, <1>4, Associates
    <2>3. (buffer \o wire) \o rest = buffer \o (wire \o rest)
      BY <1>2, Associates
    <2> QED BY <1>1, <1>4, <2>1, <2>2, <2>3 DEF Stream
  <1>7. buffer' # << >>
    BY <1>1, <1>2, <1>4, EmptySeq
  <1>8. Taken' = Taken
    BY <1>1 DEF Taken
  <1>9. Runs(Taken', Stream') /\ Spans(Len(received'), size', Taken', Stream')
    BY <1>1, <1>6, <1>8 DEF StreamInv
  <1>10. Holds(queue', sent') /\ InOrder' /\ Len(received') <= Taken' /\ link' = "up"
    BY <1>1, <1>8 DEF StreamInv, InOrder
  <1> QED BY <1>5, <1>7, <1>9, <1>10 DEF StreamInv

\* Where the receiver is when it looks at what it holds: it knows the length of the next
\* message and holds the message next, or it holds a part of the length.
LEMMA BodyFacts ==
    ASSUME StreamInv, link = "up", unpacking
    PROVE  LET m == Len(received)
               n == Taken
               r == Body \o (wire \o rest)
           IN  /\ m + 1 \in 1..Len(Sizes) /\ m + 1 <= n
               /\ \/ /\ PackageSize = Sizes[m + 1]
                     /\ Body \in Seq(Bytes) /\ Runs(n, r) /\ r # << >>
                     /\ r[1] = <<m + 1, Prefix + 1>> /\ r[Len(r)] = <<n, Size(n)>>
                  \/ /\ PackageSize = 0 /\ size = 0 /\ Len(buffer) < Prefix
                     /\ Stream[1] = <<m + 1, 1>>
  <1> DEFINE m == Len(received)
             n == Taken
             s == Stream
             w == wire \o rest
             r == Body \o w
  <1>1. /\ s \in Seq(Bytes) /\ w \in Seq(Bytes) /\ m \in Nat /\ n \in Nat
        /\ n \in 0..Len(Sizes) /\ Len(Sizes) \in Nat /\ buffer \in Seq(Bytes)
    BY StreamTyped DEF StreamInv, TypeOK
  <1>2. Runs(n, s) /\ Spans(m, size, n, s) /\ buffer # << >>
    BY DEF StreamInv
  <1>3. s = buffer \o w
    BY DEF Stream
  <1>4. Prefix \in Nat \ {0} /\ size \in Nat
    BY PeerStreamAssumption DEF StreamInv, TypeOK
  <1> HIDE DEF s, w, n, m
  <1>5. /\ Len(buffer) \in Nat \ {0} /\ Len(s) = Len(buffer) + Len(w) /\ Len(w) \in Nat
        /\ s[1] = buffer[1] /\ s # << >>
    <2>1. /\ Len(buffer) \in Nat \ {0} /\ Len(w) \in Nat /\ Len(s) = Len(buffer) + Len(w)
          /\ \A j \in 1..(Len(buffer) + Len(w)) : s[j] = IF j <= Len(buffer) THEN buffer[j] ELSE w[j - Len(buffer)]
      BY <1>1, <1>2, <1>3, EmptySeq, LenProperties, ConcatProperties
    <2>2. 1 \in 1..(Len(buffer) + Len(w)) /\ 1 <= Len(buffer) /\ Len(s) # 0
      BY <2>1
    <2>3. s # << >>
      BY <2>2, EmptySeq
    <2> QED BY <2>1, <2>2, <2>3
  <1>6. /\ s[1] = <<m + 1, IF size = 0 THEN 1 ELSE Prefix + 1>> /\ s[Len(s)] = <<n, Size(n)>>
        /\ size # 0 => size = Sizes[m + 1]
    BY <1>2, <1>5 DEF Spans
  <1>7. s[1][1] = m + 1 /\ m + 1 \in 1..n
    BY <1>2, <1>5, <1>6 DEF Runs
  <1>8. m + 1 \in 1..Len(Sizes) /\ m + 1 <= n
    BY <1>1, <1>7
  <1>9. Sizes[m + 1] \in Nat \ {0} /\ Size(m + 1) \in Nat /\ Size(m + 1) > Prefix
    BY <1>8, PacketFacts
  <1>10. CASE size # 0
    <2>1. ~ReadsSize
      BY <1>10 DEF ReadsSize
    <2>2. PackageSize = size /\ Body = buffer
      BY <2>1 DEF PackageSize, Body
    <2>3. r = s
      BY <1>3, <2>2
    <2> QED BY <1>1, <1>2, <1>5, <1>6, <1>8, <1>10, <2>2, <2>3 DEF m, n, s, w
  <1>11. CASE size = 0 /\ Len(buffer) >= Prefix
    <2>1. ReadsSize
      BY <1>11 DEF ReadsSize
    <2>2. PackageSize = Sizes[m + 1] /\ Body = Drop(buffer, Prefix)
      BY <1>5, <1>7, <2>1 DEF PackageSize, Body
    <2>3. Prefix \in 0..Len(buffer)
      BY <1>4, <1>5, <1>11
    <2>4. r = Drop(s, Prefix) /\ Body \in Seq(Bytes)
      BY <1>1, <1>3, <2>2, <2>3, DropConcat, DropFacts
    <2> HIDE DEF r
    <2>5. \A d \in 0..(Size(m + 1) - 1) : 1 + d <= Len(s) => s[1 + d] = <<m + 1, 1 + d>>
      <3>1. s[1][2] = 1
        BY <1>6, <1>11
      <3>2. 1 \in 1..Len(s)
        BY <1>5
      <3>3. \A d \in 0..(Size(s[1][1]) - s[1][2]) : 1 + d <= Len(s) => s[1 + d] = <<s[1][1], s[1][2] + d>>
        BY <1>2, <3>2 DEF Runs
      <3> QED BY <1>7, <3>1, <3>3
    <2>6. Len(s) > Prefix
      <3>1. Len(s) >= Prefix
        BY <1>4, <1>5, <1>11
      <3>2. ASSUME Len(s) = Prefix PROVE FALSE
        <4> DEFINE d == Prefix - 1
        <4>1. d \in 0..(Size(m + 1) - 1) /\ 1 + d <= Len(s) /\ 1 + d = Prefix
          BY <1>4, <1>9, <3>2
        <4>2. s[1 + d] = <<m + 1, 1 + d>>
          BY <2>5, <4>1
        <4>3. m + 1 = n /\ Prefix = Size(n)
          BY <1>6, <3>2, <4>1, <4>2
        <4> QED BY <1>4, <1>9, <4>3
      <3> QED BY <1>4, <1>5, <3>1, <3>2
    <2>7. Prefix \in 0..Len(s) /\ Len(s) \in Nat
      BY <1>4, <1>5, <2>6
    <2>8. /\ r \in Seq(Bytes) /\ Len(r) = Len(s) - Prefix /\ Runs(n, r)
          /\ \A j \in 1..(Len(s) - Prefix) : r[j] = s[Prefix + j]
      BY <1>1, <1>2, <2>4, <2>7, DropFacts, RunsDrop
    <2>9. 1 \in 1..(Len(s) - Prefix) /\ Len(r) \in 1..(Len(s) - Prefix) /\ Prefix + Len(r) = Len(s)
      BY <1>4, <2>6, <2>7, <2>8
    <2>10. r[1] = <<m + 1, Prefix + 1>>
      <3>1. Prefix \in 0..(Size(m + 1) - 1) /\ 1 + Prefix <= Len(s) /\ 1 + Prefix = Prefix + 1
        BY <1>4, <1>9, <2>6, <2>7
      <3>2. r[1] = s[Prefix + 1]
        BY <2>8, <2>9
      <3>3. s[1 + Prefix] = <<m + 1, 1 + Prefix>>
        BY <2>5, <3>1
      <3> QED BY <3>1, <3>2, <3>3
    <2>11. r[Len(r)] = <<n, Size(n)>>
      BY <1>6, <2>8, <2>9
    <2>12. r # << >>
      BY <2>9, EmptySeq
    <2> QED BY <1>8, <2>2, <2>4, <2>8, <2>10, <2>11, <2>12 DEF m, n, s, w, r
  <1>12. CASE size = 0 /\ Len(buffer) < Prefix
    <2>1. ~ReadsSize
      BY <1>4, <1>5, <1>12 DEF ReadsSize
    <2>2. PackageSize = 0
      BY <1>12, <2>1 DEF PackageSize
    <2>3. s[1] = <<m + 1, 1>>
      BY <1>6, <1>12
    <2> QED BY <1>8, <1>12, <2>2, <2>3 DEF m, n, s
  <1>13. Len(buffer) >= Prefix \/ Len(buffer) < Prefix
    BY <1>4, <1>5
  <1> HIDE DEF r
  <1>14. size # 0 \/ (size = 0 /\ Len(buffer) >= Prefix) \/ (size = 0 /\ Len(buffer) < Prefix)
    BY <1>13
  <1> QED BY <1>10, <1>11, <1>12, <1>14 DEF m, n, w, r

\* What is handled is the next message, and the stream goes on with the packet after it.
LEMMA CompleteInv == ASSUME StreamInv, Complete PROVE StreamInv'
  <1> DEFINE m == Len(received)
             n == Taken
             b == Body
             k == PackageSize
             w == wire \o rest
             r == b \o w
  <1>1. /\ link = "up" /\ unpacking /\ k # 0 /\ k <= Len(b)
        /\ received' = Append(received, Take(b, k)) /\ buffer' = Drop(b, k) /\ size' = 0
        /\ unpacking' = (buffer' # << >>)
        /\ queue' = queue /\ sent' = sent /\ rest' = rest /\ wire' = wire /\ link' = link
    BY DEF Complete, Reset, sender
  <1>2. /\ m + 1 \in 1..Len(Sizes) /\ m + 1 <= n /\ k = Sizes[m + 1]
        /\ b \in Seq(Bytes) /\ Runs(n, r) /\ r # << >>
        /\ r[1] = <<m + 1, Prefix + 1>> /\ r[Len(r)] = <<n, Size(n)>>
    BY <1>1, BodyFacts
  <1>3. /\ w \in Seq(Bytes) /\ m \in Nat /\ n \in Nat /\ n \in 0..sent /\ sent \in Nat
        /\ received \in Seq(Seq(Bytes))
    BY StreamTyped DEF StreamInv, TypeOK
  <1>4. /\ k \in Nat \ {0} /\ Size(m + 1) = Prefix + k /\ Prefix \in Nat \ {0}
        /\ Message(m + 1) \in Seq(Bytes) /\ Len(Message(m + 1)) = k
        /\ \A i \in 1..k : Message(m + 1)[i] = <<m + 1, Prefix + i>>
    BY <1>2, PacketFacts, PeerStreamAssumption DEF Size
  <1>5. Drop(r, k) = Drop(b, k) \o w /\ k \in 0..Len(b)
    <2>1. Len(b) \in Nat
      BY <1>2, LenProperties
    <2>2. k \in 0..Len(b)
      BY <1>1, <1>4, <2>1
    <2> QED BY <1>2, <1>3, <2>2, DropConcat
  <1> HIDE DEF b, k, w, m, n
  <1>6. /\ r \in Seq(Bytes) /\ Len(r) = Len(b) + Len(w) /\ Len(b) \in Nat /\ Len(w) \in Nat
        /\ \A j \in 1..Len(b) : r[j] = b[j]
    <2>1. Len(b) \in Nat /\ Len(w) \in Nat
      BY <1>2, <1>3, LenProperties
    <2>2. /\ r \in Seq(Bytes) /\ Len(r) = Len(b) + Len(w)
          /\ \A j \in 1..(Len(b) + Len(w)) : r[j] = IF j <= Len(b) THEN b[j] ELSE w[j - Len(b)]
      BY <1>2, <1>3, ConcatProperties
    <2> HIDE DEF r
    <2>3. \A j \in 1..Len(b) : j \in 1..(Len(b) + Len(w)) /\ j <= Len(b)
      BY <2>1
    <2> QED BY <2>1, <2>2, <2>3
  <1> HIDE DEF r
  <1>7. k \in 0..Len(r) /\ k \in 1..Len(r) /\ Len(r) \in Nat /\ Len(r) >= 1
    BY <1>1, <1>4, <1>6
  <1>8. \A i \in 1..k : r[i] = <<m + 1, Prefix + i>>
    <2>1. ASSUME NEW i \in 1..k PROVE r[i] = <<m + 1, Prefix + i>>
      <3> DEFINE d == i - 1
      <3>1. r[1][1] = m + 1 /\ r[1][2] = Prefix + 1 /\ 1 \in 1..Len(r)
        BY <1>2, <1>7
      <3>2. d \in 0..(Size(m + 1) - (Prefix + 1)) /\ 1 + d <= Len(r) /\ 1 + d = i
        BY <1>4, <1>7
      <3>3. Prefix + 1 + d = Prefix + i
        BY <1>4
      <3> HIDE DEF d
      <3>4. r[1 + d] = <<r[1][1], r[1][2] + d>>
        <4>1. \A e \in 0..(Size(r[1][1]) - r[1][2]) : 1 + e <= Len(r) => r[1 + e] = <<r[1][1], r[1][2] + e>>
          BY <1>2, <3>1 DEF Runs
        <4> QED BY <3>1, <3>2, <4>1
      <3> QED BY <3>1, <3>2, <3>3, <3>4
    <2> QED BY <2>1
  <1>9. Take(b, k) = Message(m + 1)
    <2>1. /\ Take(b, k) \in Seq(Bytes) /\ Len(Take(b, k)) = k
          /\ \A j \in 1..k : Take(b, k)[j] = b[j]
      BY <1>2, <1>5, TakeFacts
    <2> DEFINE x == Take(b, k)
               y == Message(m + 1)
    <2>2. \A j \in 1..k : x[j] = y[j]
      <3>1. \A j \in 1..k : j \in 1..Len(b)
        BY <1>5, <1>6
      <3>2. \A j \in 1..k : b[j] = r[j]
        BY <1>6, <3>1
      <3> QED BY <1>4, <1>8, <2>1, <3>2
    <2>3. x \in Seq(Bytes) /\ y \in Seq(Bytes) /\ Len(x) = k /\ Len(y) = k
      BY <1>4, <2>1
    <2> HIDE DEF x, y
    <2>4. x = y
      BY <2>2, <2>3, SeqEqual
    <2> QED BY <2>4 DEF x, y
  <1>10. /\ received' \in Seq(Seq(Bytes)) /\ Len(received') = m + 1
         /\ \A i \in 1..m : received'[i] = received[i]
         /\ received'[m + 1] = Message(m + 1)
    <2> DEFINE y == Message(m + 1)
    <2>1. y \in Seq(Bytes) /\ received' = Append(received, y)
      BY <1>1, <1>4, <1>9
    <2> HIDE DEF y
    <2>2. /\ Append(received, y) \in Seq(Seq(Bytes)) /\ Len(Append(received, y)) = Len(received) + 1
          /\ \A i \in 1..Len(received) : Append(received, y)[i] = received[i]
          /\ Append(received, y)[Len(received) + 1] = y
      BY <1>3, <2>1, AppendProperties
    <2> QED BY <2>1, <2>2 DEF m, y
  <1>11. InOrder'
    <2>1. DOMAIN received' = 1..(m + 1)
      BY <1>3, <1>10
    <2>2. ASSUME NEW i \in 1..m PROVE i <= sent /\ received[i] = Message(i)
      <3>1. DOMAIN received = 1..m
        BY <1>3 DEF m
      <3> QED BY <3>1 DEF StreamInv, InOrder
    <2>3. ASSUME NEW i \in 1..(m + 1) PROVE i <= sent /\ received'[i] = Message(i)
      <3>1. i \in 1..m \/ i = m + 1
        BY <1>3
      <3>2. m + 1 <= sent
        BY <1>2, <1>3
      <3> QED BY <1>10, <2>2, <3>1, <3>2
    <2> QED BY <1>1, <2>1, <2>3 DEF InOrder
  <1>12. Taken' = n
    BY <1>1 DEF Taken, n
  <1>13. Len(received') <= Taken'
    BY <1>2, <1>10, <1>12
  <1> DEFINE s == Drop(r, k)
  <1>14. Stream' = s /\ buffer' \in Seq(Bytes)
    <2>1. buffer' = Drop(b, k) /\ wire' \o rest' = w
      BY <1>1 DEF w
    <2> QED BY <1>2, <1>5, <2>1, DropFacts DEF Stream
  <1>15. /\ s \in Seq(Bytes) /\ Len(s) = Len(r) - k /\ Runs(n, s)
         /\ \A j \in 1..(Len(r) - k) : s[j] = r[k + j]
    BY <1>2, <1>3, <1>6, <1>7, DropFacts, RunsDrop
  <1> HIDE DEF s
  <1>16. r[k] = <<m + 1, Size(m + 1)>>
    BY <1>4, <1>8
  <1>17. Spans(m + 1, 0, n, s)
    <2>1. CASE Len(r) = k
      <3>1. s = << >>
        BY <1>15, <1>7, <2>1, EmptySeq
      <3>2. m + 1 = n
        BY <1>2, <1>16, <2>1
      <3> QED BY <3>1, <3>2 DEF Spans
    <2>2. CASE Len(r) # k
      <3>1. k < Len(r) /\ 1 \in 1..(Len(r) - k) /\ Len(s) \in 1..(Len(r) - k) /\ k + Len(s) = Len(r)
        BY <1>4, <1>7, <1>15, <2>2
      <3>2. s # << >>
        BY <3>1, EmptySeq
      <3>3. r[k + 1] = <<m + 1 + 1, 1>>
        <4>1. r[k][2] = Size(r[k][1]) /\ r[k][1] = m + 1
          BY <1>16
        <4> QED BY <1>2, <1>7, <3>1, <4>1 DEF Runs
      <3>4. s[1] = <<m + 1 + 1, 1>>
        BY <1>15, <3>1, <3>3
      <3>5. s[Len(s)] = <<n, Size(n)>>
        BY <1>2, <1>15, <3>1
      <3> QED BY <3>2, <3>4, <3>5 DEF Spans
    <2> QED BY <2>1, <2>2
  <1>18. Runs(Taken', Stream') /\ Spans(Len(received'), size', Taken', Stream')
    BY <1>1, <1>10, <1>12, <1>14, <1>15, <1>17
  <1>19. TypeOK'
    <2>1. unpacking' \in BOOLEAN
      BY <1>1
    <2> QED BY <1>1, <1>10, <1>14, <2>1 DEF StreamInv, TypeOK
  <1>20. (unpacking' => buffer' # << >>) /\ link' = "up" /\ Holds(queue', sent')
    <2>1. unpacking' => buffer' # << >>
      BY DEF Complete
    <2> QED BY <1>1, <2>1 DEF StreamInv
  <1> QED BY <1>11, <1>13, <1>18, <1>19, <1>20 DEF StreamInv

\* The length is known from now on, and its bytes are taken off.
LEMMA IncompleteInv == ASSUME StreamInv, Incomplete PROVE StreamInv'
  <1> DEFINE m == Len(received)
             n == Taken
             b == Body
             k == PackageSize
             r == b \o (wire \o rest)
  <1>1. /\ link = "up" /\ unpacking /\ k > Len(b)
        /\ received' = received /\ buffer' = b /\ size' = k /\ unpacking' = FALSE
        /\ queue' = queue /\ sent' = sent /\ rest' = rest /\ wire' = wire /\ link' = link
    BY DEF Incomplete, sender
  <1>2. k # 0
    <2>1. CASE k = 0
      <3>1. b = buffer /\ Len(b) \in Nat
        <4>1. size = 0 /\ Len(buffer) < Prefix /\ buffer \in Seq(Bytes) /\ Prefix \in Nat
          <5>1. m + 1 \in 1..Len(Sizes) => Sizes[m + 1] # 0
            BY PeerStreamAssumption
          <5> QED BY <1>1, <2>1, <5>1, BodyFacts, PeerStreamAssumption DEF StreamInv, TypeOK
        <4>2. Len(buffer) \in Nat
          BY <4>1, LenProperties
        <4> QED BY <4>1, <4>2 DEF Body, ReadsSize
      <3> QED BY <1>1, <2>1, <3>1
    <2> QED BY <2>1
  <1>3. /\ m + 1 \in 1..Len(Sizes) /\ m + 1 <= n /\ k = Sizes[m + 1]
        /\ b \in Seq(Bytes) /\ Runs(n, r) /\ r # << >>
        /\ r[1] = <<m + 1, Prefix + 1>> /\ r[Len(r)] = <<n, Size(n)>>
    BY <1>1, <1>2, BodyFacts
  <1>4. k \in Nat
    BY <1>3, PacketFacts
  <1>5. TypeOK'
    BY <1>1, <1>3, <1>4 DEF StreamInv, TypeOK
  <1>6. Taken' = n /\ Stream' = r
    BY <1>1 DEF Taken, Stream
  <1> HIDE DEF r, k, n
  <1>7. Spans(m, k, n, r)
    BY <1>2, <1>3 DEF Spans
  <1>8. Runs(Taken', Stream') /\ Spans(Len(received'), size', Taken', Stream')
    BY <1>1, <1>3, <1>6, <1>7
  <1>9. Holds(queue', sent') /\ InOrder' /\ Len(received') <= Taken' /\ link' = "up" /\ ~unpacking'
    BY <1>1, <1>6 DEF StreamInv, InOrder, n
  <1> QED BY <1>5, <1>8, <1>9 DEF StreamInv

\* What is there when receiveData is called with the same bytes again is a part of the
\* length of the next message.
LEMMA SplitPrefixInv == ASSUME StreamInv, SplitPrefix PROVE StreamInv'
  <1> DEFINE m == Len(received)
             s == Stream
             w == wire \o rest
             l == Len(buffer)
             p == Packet(m + 1)
  <1>1. /\ link = "up" /\ unpacking /\ PackageSize = 0 /\ link' = "overflow"
        /\ queue' = queue /\ sent' = sent /\ rest' = rest /\ wire' = wire /\ buffer' = buffer
        /\ size' = size /\ unpacking' = unpacking /\ received' = received
    BY DEF SplitPrefix, sender, receiver
  <1>2. m + 1 \in 1..Len(Sizes)
    BY <1>1, BodyFacts
  <1>3. /\ Size(m + 1) \in Nat /\ Sizes[m + 1] # 0 /\ Size(m + 1) > Prefix /\ Prefix \in Nat
        /\ p \in Seq(Bytes) /\ Len(p) = Size(m + 1)
        /\ \A i \in 1..Size(m + 1) : p[i] = <<m + 1, i>>
    BY <1>2, PacketFacts, PeerStreamAssumption
  <1>4. size = 0 /\ l < Prefix /\ s[1] = <<m + 1, 1>>
    BY <1>1, <1>3, BodyFacts
  <1>5. /\ s \in Seq(Bytes) /\ Runs(Taken, s) /\ s = buffer \o w /\ w \in Seq(Bytes)
        /\ buffer \in Seq(Bytes)
    BY <1>1, StreamTyped DEF StreamInv, TypeOK, Stream
  <1> HIDE DEF s, w, p, m
  <1>6. /\ l \in Nat /\ Len(s) \in Nat /\ l <= Len(s)
        /\ \A j \in 1..l : s[j] = buffer[j]
    <2>1. Len(w) \in Nat /\ Len(buffer) \in Nat
      BY <1>5, LenProperties
    <2>2. /\ Len(s) = Len(buffer) + Len(w)
          /\ \A j \in 1..(Len(buffer) + Len(w)) : s[j] = IF j <= Len(buffer) THEN buffer[j] ELSE w[j - Len(buffer)]
      BY <1>5, ConcatProperties
    <2>3. \A j \in 1..Len(buffer) : j \in 1..(Len(buffer) + Len(w)) /\ j <= Len(buffer)
      BY <2>1
    <2> QED BY <2>1, <2>2, <2>3
  <1> HIDE DEF l
  <1>7. \A j \in 1..l : buffer[j] = <<m + 1, j>>
    <2>1. ASSUME NEW j \in 1..l PROVE s[j] = <<m + 1, j>>
      <3> DEFINE d == j - 1
      <3>1. s[1][1] = m + 1 /\ s[1][2] = 1 /\ 1 \in 1..Len(s)
        BY <1>4, <1>6
      <3>2. d \in 0..(Size(m + 1) - 1) /\ 1 + d <= Len(s) /\ 1 + d = j
        BY <1>3, <1>4, <1>6
      <3> HIDE DEF d
      <3>3. \A e \in 0..(Size(s[1][1]) - s[1][2]) : 1 + e <= Len(s) => s[1 + e] = <<s[1][1], s[1][2] + e>>
        BY <1>5, <3>1 DEF Runs
      <3>4. s[1 + d] = <<m + 1, 1 + d>>
        BY <3>1, <3>2, <3>3
      <3> QED BY <3>2, <3>4
    <2> QED BY <1>6, <2>1
  <1>8. l \in 0..Len(p) /\ \A j \in 1..l : j \in 1..Size(m + 1)
    BY <1>3, <1>4, <1>6
  <1>9. buffer = Take(p, l)
    <2> DEFINE x == Take(p, l)
    <2>1. x \in Seq(Bytes) /\ Len(x) = l /\ \A j \in 1..l : x[j] = p[j]
      BY <1>3, <1>8, TakeFacts
    <2> HIDE DEF x
    <2>2. \A j \in 1..l : buffer[j] = x[j]
      BY <1>3, <1>7, <1>8, <2>1
    <2>3. Len(buffer) = l
      BY DEF l
    <2>4. buffer = x
      BY <1>5, <2>1, <2>2, <2>3, SeqEqual
    <2> QED BY <2>4 DEF x
  <1>10. CutInPrefix'
    BY <1>1, <1>4, <1>9 DEF CutInPrefix, l, p, m
  <1>11. TypeOK'
    BY <1>1 DEF StreamInv, TypeOK
  <1>12. /\ Holds(queue', sent') /\ InOrder' /\ Len(received') <= Taken' /\ link' # "up"
         /\ unpacking' => buffer' # << >>
    BY <1>1 DEF StreamInv, InOrder, Taken
  <1> QED BY <1>10, <1>11, <1>12 DEF StreamInv

\* Every step keeps the invariant.
LEMMA NextInv == StreamInv /\ [Next]_vars => StreamInv'
  <1> SUFFICES ASSUME StreamInv, [Next]_vars PROVE StreamInv'
    OBVIOUS
  <1>1. CASE Send
    BY <1>1, SendInv
  <1>2. CASE ProcessPackageSending
    BY <1>2, ProcessInv
  <1>3. CASE WriteDrained
    BY <1>3, WriteDrainedInv
  <1>4. CASE \E n \in 1..Capacity : Data(n)
    <2>1. PICK n \in 1..Capacity : Data(n)
      BY <1>4
    <2>2. n \in Nat
      BY PeerStreamAssumption
    <2> QED BY <2>1, <2>2, DataInv
  <1>5. CASE Complete
    BY <1>5, CompleteInv
  <1>6. CASE Incomplete
    BY <1>6, IncompleteInv
  <1>7. CASE SplitPrefix
    BY <1>7, SplitPrefixInv
  <1>8. CASE UNCHANGED vars
    <2>1. /\ queue' = queue /\ sent' = sent /\ rest' = rest /\ wire' = wire /\ buffer' = buffer
          /\ size' = size /\ unpacking' = unpacking /\ received' = received /\ link' = link
      BY <1>8 DEF vars, sender, receiver
    <2> QED BY <2>1 DEF StreamInv, TypeOK, InOrder, CutInPrefix, Taken, Stream
  <1> QED BY <1>1, <1>2, <1>3, <1>4, <1>5, <1>6, <1>7, <1>8 DEF Next, Unpack

-------------------------------------------------------------------------------
(***************************************************************************)
(* The theorems.                                                           *)
(***************************************************************************)

\* Whatever is sent and however TCP cuts it, what the receiver has yet to take goes on where
\* it stands: at the length of a packet, or behind the length that it remembers
\* (PeerSocket.receiveData, processPackageSending and writeDrained together).
THEOREM StreamInvariant == Spec => []StreamInv
  BY InitInv, NextInv, PTL DEF Spec

\* The variables have their types.
THEOREM StreamTypes == Spec => []TypeOK
  <1>1. StreamInv => TypeOK
    BY DEF StreamInv
  <1> QED BY <1>1, StreamInvariant, PTL

\* The messages that are given to handleIncomingMsg are the ones that were given to
\* PeerSocket.send, whole, in the same order, none missing before another and none twice.
THEOREM MessagesInOrder == Spec => []InOrder
  <1>1. StreamInv => InOrder
    BY DEF StreamInv
  <1> QED BY <1>1, StreamInvariant, PTL

\* receiveData calls itself without end only when it was given a part of a length prefix: no
\* other cut of the stream, and no length of a message, does that.
THEOREM OverflowIsACutPrefix == Spec => [](link = "overflow" => CutInPrefix)
  <1>1. StreamInv => (link = "overflow" => CutInPrefix)
    BY DEF StreamInv
  <1> QED BY <1>1, StreamInvariant, PTL
===============================================================================
