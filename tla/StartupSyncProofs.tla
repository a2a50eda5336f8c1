-------------------------- MODULE StartupSyncProofs ---------------------------
(***************************************************************************)
(* Proofs about StartupSync: for every page size, every length of the      *)
(* chains and every set of faults, a node that synchronised without a      *)
(* failure misses no block of its peer (NothingMissed), and the latest     *)
(* block of its chain state is the end of its main chain (MintsOnTip).     *)
(***************************************************************************)
EXTENDS StartupSync, FiniteSetTheorems, SequenceTheorems, TLAPS

Messages == [kind : {"blocks", "error"}, blocks : Seq(Blocks)] \cup {NewBlock(b) : b \in Blocks}

TypeOK ==
    /\ own \in 0..MaxLen /\ split \in 0..own
    /\ early \in 0..MaxLen /\ served \in 0..MaxLen /\ announced \in 0..MaxLen
    /\ peerSynced \in BOOLEAN /\ clean \in BOOLEAN /\ shared \in BOOLEAN /\ full \in BOOLEAN
    /\ asked \in Seq(Nat)
    /\ channel \in Seq(Messages)
    /\ stage \in {"waiting", "asking", "executing", "draining", "ended"}
    /\ state \in {"synchronizing", "synchronized", "down"}
    /\ cursor \in Nat /\ length \in 0..MaxLen /\ tipIndex \in Nat
    /\ batch \in Seq(Blocks) /\ blockQueue \in Seq(Blocks)
    /\ stored \in SUBSET Blocks /\ slots \in SUBSET Blocks

\* The block of index i in a chain that leaves the other one at p: Theirs(i) if p is split.
At(p, i) == IF i < p THEN <<"both", i>> ELSE <<"theirs", i>>

\* The blocks of s are those of the indexes c and on.
RunFrom(p, c, s) == \A k \in 1..Len(s) : s[k] = At(p, c + k - 1)

\* The broadcast blocks in ch are those of the indexes r to n - 1, in this order.
Arriving(p, n, r, ch) ==
    /\ \A k \in 1..Len(ch) : ch[k].kind = "new" => \E i \in r..(n - 1) : ch[k] = NewBlock(At(p, i))
    /\ \A i \in r..(n - 1) : \E k \in 1..Len(ch) : ch[k] = NewBlock(At(p, i))
    /\ \A k, l \in 1..Len(ch) :
          k < l /\ ch[k].kind = "new" /\ ch[l].kind = "new" =>
              Height(ch[k].blocks[1]) < Height(ch[l].blocks[1])

\* With the blocks below n, those below a are there, but for the one that was broadcast
\* before the connection, if that is e - 1, and those after it.
Reaches(e, n, a) == n >= a \/ (e > 0 /\ n = e - 1 /\ a >= e)

\* The blocks bs answer a request for the index i: there are Page, or all the peer had.
Answers(p, e, a, i, bs) ==
    /\ RunFrom(p, i, bs)
    /\ Len(bs) <= Page
    /\ Len(bs) < Page => Reaches(e, i + Len(bs), a)

\* At most one request is under way, and it asks for cursor.
OneRequest(a) ==
    /\ Len(asked) <= 1
    /\ \A k \in 1..Len(asked) : asked[k] = cursor /\ \A l \in 1..Len(channel) : channel[l].kind = "new"
    /\ \A k, l \in 1..Len(channel) : channel[k].kind # "new" /\ channel[l].kind # "new" => k = l
    /\ \A k \in 1..Len(channel) : channel[k].kind = "blocks" => Answers(split, early, a, cursor, channel[k].blocks)

NoRequest == asked = << >> /\ \A l \in 1..Len(channel) : channel[l].kind = "new"

\* The stages in which the blocks below a, those not broadcast, are fetched page by page.
\* What is not executed of a page starts below the end of the chain.
Fetching(a) ==
    /\ early > 0 => a = early
    /\ Reaches(early, served, a)
    /\ stage = "waiting" => NoRequest
    /\ stage = "asking" => cursor <= length /\ OneRequest(a)
    /\ stage = "executing" =>
          /\ NoRequest
          /\ \E c \in Nat :
                /\ c <= length
                /\ RunFrom(split, c, batch)
                /\ full => c + Len(batch) = cursor + Page
                /\ ~full => Reaches(early, c + Len(batch), a)

\* The blocks from a on are in the queue or, from r on, on their way.
Queued(a, r) == RunFrom(split, a, blockQueue) /\ r = a + Len(blockQueue)

\* The block of index i is stored, handed to its slot, or one that cannot be had.
Had(i) == i < length \/ At(split, i) \in slots \/ (early > 0 /\ length = early - 1 /\ i >= early - 1)

\* Where the blocks of the peer are.
Placed(a, r) ==
    /\ r <= announced
    /\ Arriving(split, announced, r, channel)
    /\ stage # "ended" => Queued(a, r)
    /\ stage \in {"waiting", "asking", "executing"} => Fetching(a)
    /\ stage = "draining" => Reaches(early, length, a)
    /\ stage = "ended" => \A i \in 0..(r - 1) : Had(i)

Delivery == \E a, r \in Nat : Placed(a, r)

\* The chain of a node with no block of its own is a beginning of the peer's.
Beginning == stored = {At(split, i) : i \in 0..(length - 1)}

\* The paging changes the index of the latest block only while it is at this block.
SharedIsTip == shared => length > 0 /\ cursor = length - 1

\* The stages of a synchronisation, and the peer's counters.
Stages ==
    /\ stage \in {"waiting", "asking", "executing"} => clean
    /\ stage = "waiting" => ~shared
    /\ state = "synchronizing" => stage # "ended"
    /\ state = "synchronized" => stage = "ended"
    /\ served <= announced

\* The node's chain is a beginning of the peer's, and nothing failed.
Good == split = own /\ clean /\ Running

SyncInv ==
    /\ TypeOK
    /\ Stages
    /\ MintsOnTip
    /\ Good => Beginning /\ SharedIsTip /\ Delivery

-------------------------------------------------------------------------------
(***************************************************************************)
(* The blocks of the peer, in a page, in the queue and on their way.       *)
(***************************************************************************)

\* A block of the peer's chain, by its index.
LEMMA AtFacts ==
    ASSUME NEW p, NEW i \in Nat
    PROVE  Height(At(p, i)) = i /\ Theirs(i) = At(split, i)
  BY DEF Height, At, Theirs, Block

LEMMA AtIsBlock ==
    ASSUME NEW p, NEW i \in 0..(MaxLen - 1)
    PROVE  At(p, i) \in Blocks
  BY DEF At, Blocks

\* Two of them are the same block only if they have the same index.
LEMMA AtOnce ==
    ASSUME NEW p, NEW i \in Nat, NEW j \in Nat, At(p, i) = At(p, j)
    PROVE  i = j
  BY AtFacts

\* The block before one of them.
LEMMA AtPrev ==
    ASSUME NEW i \in Nat \ {0}, TypeOK
    PROVE  Prev(At(split, i)) = At(split, i - 1)
  <1>1. split \in Nat
    BY StartupSyncAssumption DEF TypeOK
  <1>2. CASE i < split
    BY <1>1, <1>2 DEF Prev, Block, Height, At
  <1>3. CASE ~(i < split)
    BY <1>1, <1>3 DEF Prev, Block, Height, At
  <1> QED BY <1>2, <1>3

\* The first block of a run, and the run without it.
LEMMA RunTail ==
    ASSUME NEW p, NEW c \in Nat, NEW s \in Seq(Blocks), RunFrom(p, c, s), s # << >>
    PROVE  /\ Head(s) = At(p, c) /\ Head(s) \in Blocks
           /\ RunFrom(p, c + 1, Tail(s))
           /\ Tail(s) \in Seq(Blocks) /\ Len(Tail(s)) = Len(s) - 1
  <1>1. /\ Tail(s) \in Seq(Blocks) /\ Len(s) \in Nat /\ Len(s) >= 1
        /\ Len(Tail(s)) = Len(s) - 1 /\ Head(s) = s[1] /\ s[1] \in Blocks
    OBVIOUS
  <1>2. \A k \in 1..Len(Tail(s)) : Tail(s)[k] = s[k + 1] /\ k + 1 \in 1..Len(s)
    OBVIOUS
  <1>3. s[1] = At(p, c)
    <2>1. s[1] = At(p, c + 1 - 1)
      BY <1>1 DEF RunFrom
    <2>2. c + 1 - 1 = c
      OBVIOUS
    <2> QED BY <2>1, <2>2
  <1>4. RunFrom(p, c + 1, Tail(s))
    <2> SUFFICES ASSUME NEW k \in 1..Len(Tail(s)) PROVE Tail(s)[k] = At(p, c + 1 + k - 1)
      BY DEF RunFrom
    <2>1. Tail(s)[k] = At(p, c + (k + 1) - 1)
      BY <1>2 DEF RunFrom
    <2>2. c + (k + 1) - 1 = c + 1 + k - 1
      BY <1>1
    <2> QED BY <2>1, <2>2
  <1> QED BY <1>1, <1>3, <1>4

\* A run, and the block that follows.
LEMMA RunAppend ==
    ASSUME NEW p, NEW c \in Nat, NEW s \in Seq(Blocks), RunFrom(p, c, s), NEW b \in Blocks,
           b = At(p, c + Len(s))
    PROVE  /\ RunFrom(p, c, Append(s, b))
           /\ Append(s, b) \in Seq(Blocks) /\ Len(Append(s, b)) = Len(s) + 1
  <1>1. /\ Append(s, b) \in Seq(Blocks) /\ Len(Append(s, b)) = Len(s) + 1 /\ Len(s) \in Nat
        /\ Append(s, b)[Len(s) + 1] = b
        /\ \A k \in 1..Len(s) : Append(s, b)[k] = s[k]
    OBVIOUS
  <1>2. ASSUME NEW k \in 1..(Len(s) + 1) PROVE Append(s, b)[k] = At(p, c + k - 1)
    <2>1. CASE k \in 1..Len(s)
      BY <1>1, <2>1 DEF RunFrom
    <2>2. CASE k = Len(s) + 1
      <3>1. c + k - 1 = c + Len(s)
        BY <1>1, <2>2
      <3> QED BY <1>1, <2>2, <3>1
    <2> QED BY <1>1, <2>1, <2>2
  <1> QED BY <1>1, <1>2 DEF RunFrom

\* What is on its way, without the first message.
LEMMA TailFacts ==
    ASSUME NEW ch \in Seq(Messages), ch # << >>
    PROVE  /\ Tail(ch) \in Seq(Messages) /\ Len(ch) \in Nat /\ Len(ch) >= 1
           /\ Len(Tail(ch)) = Len(ch) - 1 /\ Head(ch) = ch[1] /\ ch[1] \in Messages
           /\ \A k \in 1..Len(Tail(ch)) : Tail(ch)[k] = ch[k + 1] /\ k + 1 \in 1..Len(ch)
           /\ \A k \in 1..Len(ch) : k # 1 => k - 1 \in 1..Len(Tail(ch)) /\ Tail(ch)[k - 1] = ch[k]
  OBVIOUS

\* With one more.
LEMMA AppendFacts ==
    ASSUME NEW ch \in Seq(Messages), NEW m \in Messages
    PROVE  /\ Append(ch, m) \in Seq(Messages) /\ Len(ch) \in Nat
           /\ Len(Append(ch, m)) = Len(ch) + 1
           /\ Append(ch, m)[Len(ch) + 1] = m
           /\ \A k \in 1..Len(ch) : Append(ch, m)[k] = ch[k]
  OBVIOUS

\* An answer is received.
LEMMA ArrivingAfterAnswer ==
    ASSUME NEW p, NEW n \in Nat, NEW r \in Nat, NEW ch \in Seq(Messages), ch # << >>,
           Arriving(p, n, r, ch), Head(ch).kind # "new"
    PROVE  Arriving(p, n, r, Tail(ch))
  <1> DEFINE t == Tail(ch)
  <1>1. /\ Len(ch) \in Nat /\ Len(t) = Len(ch) - 1
        /\ \A k \in 1..Len(t) : t[k] = ch[k + 1] /\ k + 1 \in 1..Len(ch)
        /\ \A k \in 1..Len(ch) : k # 1 => k - 1 \in 1..Len(t) /\ t[k - 1] = ch[k]
        /\ ch[1].kind # "new"
    BY TailFacts
  <1> HIDE DEF t
  <1>2. \A k \in 1..Len(t) : t[k].kind = "new" => \E i \in r..(n - 1) : t[k] = NewBlock(At(p, i))
    BY <1>1 DEF Arriving
  <1>3. ASSUME NEW i \in r..(n - 1) PROVE \E k \in 1..Len(t) : t[k] = NewBlock(At(p, i))
    <2>1. PICK k \in 1..Len(ch) : ch[k] = NewBlock(At(p, i))
      BY DEF Arriving
    <2>2. ch[k].kind = "new"
      BY <2>1 DEF NewBlock
    <2> QED BY <1>1, <2>1, <2>2
  <1>4. ASSUME NEW k \in 1..Len(t), NEW l \in 1..Len(t), k < l, t[k].kind = "new", t[l].kind = "new"
        PROVE  Height(t[k].blocks[1]) < Height(t[l].blocks[1])
    <2>1. /\ k + 1 \in 1..Len(ch) /\ l + 1 \in 1..Len(ch) /\ k + 1 < l + 1
          /\ t[k] = ch[k + 1] /\ t[l] = ch[l + 1]
      BY <1>1, <1>4
    <2> QED BY <1>4, <2>1 DEF Arriving
  <1>5. Arriving(p, n, r, t)
    BY <1>2, <1>3, <1>4 DEF Arriving
  <1> QED BY <1>5 DEF t

\* A broadcast block is received: it is the one that is next.
LEMMA ArrivingAfterNew ==
    ASSUME NEW p, NEW n \in Nat, NEW r \in Nat, NEW ch \in Seq(Messages), ch # << >>,
           Arriving(p, n, r, ch), Head(ch).kind = "new", r <= n
    PROVE  /\ Head(ch) = NewBlock(At(p, r)) /\ r + 1 <= n
           /\ Arriving(p, n, r + 1, Tail(ch))
  <1> DEFINE t == Tail(ch)
  <1>1. /\ Len(ch) \in Nat /\ Len(ch) >= 1 /\ Len(t) = Len(ch) - 1
        /\ \A k \in 1..Len(t) : t[k] = ch[k + 1] /\ k + 1 \in 1..Len(ch)
        /\ \A k \in 1..Len(ch) : k # 1 => k - 1 \in 1..Len(t) /\ t[k - 1] = ch[k]
        /\ ch[1].kind = "new" /\ Head(ch) = ch[1] /\ 1 \in 1..Len(ch)
    BY TailFacts
  <1> HIDE DEF t
  <1>2. \A i \in r..(n - 1) : /\ NewBlock(At(p, i)).kind = "new"
                             /\ Height(NewBlock(At(p, i)).blocks[1]) = i
    <2> SUFFICES ASSUME NEW i \in r..(n - 1)
                 PROVE  NewBlock(At(p, i)).kind = "new" /\ Height(NewBlock(At(p, i)).blocks[1]) = i
      OBVIOUS
    <2>1. NewBlock(At(p, i)).kind = "new" /\ NewBlock(At(p, i)).blocks[1] = At(p, i)
      BY DEF NewBlock
    <2>2. i \in Nat
      OBVIOUS
    <2> QED BY <2>1, <2>2, AtFacts
  <1>3. PICK i \in r..(n - 1) : ch[1] = NewBlock(At(p, i))
    BY <1>1 DEF Arriving
  <1>4. PICK k \in 1..Len(ch) : ch[k] = NewBlock(At(p, r))
    BY DEF Arriving
  <1>5. r \in r..(n - 1) /\ r + 1 <= n
    BY <1>3
  <1>6. k = 1
    <2> SUFFICES ASSUME k # 1 PROVE FALSE
      OBVIOUS
    <2>1. 1 < k /\ ch[k].kind = "new"
      BY <1>2, <1>4, <1>5
    <2>2. Height(ch[1].blocks[1]) < Height(ch[k].blocks[1])
      BY <1>1, <2>1 DEF Arriving
    <2>3. i < r
      BY <1>2, <1>3, <1>4, <1>5, <2>2
    <2> QED BY <2>3
  <1>7. ASSUME NEW m \in 1..Len(t), t[m].kind = "new"
        PROVE  \E j \in (r + 1)..(n - 1) : t[m] = NewBlock(At(p, j))
    <2>1. /\ m + 1 \in 1..Len(ch) /\ 1 < m + 1 /\ t[m] = ch[m + 1]
      BY <1>1
    <2>2. PICK j \in r..(n - 1) : ch[m + 1] = NewBlock(At(p, j))
      BY <1>7, <2>1 DEF Arriving
    <2>3. Height(ch[1].blocks[1]) < Height(ch[m + 1].blocks[1])
      BY <1>1, <1>7, <2>1 DEF Arriving
    <2>4. r < j
      BY <1>2, <1>4, <1>5, <1>6, <2>2, <2>3
    <2> QED BY <2>1, <2>2, <2>4
  <1>8. ASSUME NEW j \in (r + 1)..(n - 1) PROVE \E m \in 1..Len(t) : t[m] = NewBlock(At(p, j))
    <2>1. j \in r..(n - 1) /\ j # r
      OBVIOUS
    <2>2. PICK m \in 1..Len(ch) : ch[m] = NewBlock(At(p, j))
      BY <2>1 DEF Arriving
    <2>3. m # 1
      BY <1>2, <1>4, <1>5, <1>6, <2>1, <2>2
    <2> QED BY <1>1, <2>2, <2>3
  <1>9. ASSUME NEW x \in 1..Len(t), NEW y \in 1..Len(t), x < y, t[x].kind = "new", t[y].kind = "new"
        PROVE  Height(t[x].blocks[1]) < Height(t[y].blocks[1])
    <2>1. /\ x + 1 \in 1..Len(ch) /\ y + 1 \in 1..Len(ch) /\ x + 1 < y + 1
          /\ t[x] = ch[x + 1] /\ t[y] = ch[y + 1]
      BY <1>1, <1>9
    <2> QED BY <1>9, <2>1 DEF Arriving
  <1>10. Arriving(p, n, r + 1, t)
    BY <1>7, <1>8, <1>9 DEF Arriving
  <1> QED BY <1>1, <1>4, <1>5, <1>6, <1>10 DEF t

\* An answer is sent.
LEMMA ArrivingWithAnswer ==
    ASSUME NEW p, NEW n \in Nat, NEW r \in Nat, NEW ch \in Seq(Messages), NEW m \in Messages,
           Arriving(p, n, r, ch), m.kind # "new"
    PROVE  Arriving(p, n, r, Append(ch, m))
  <1> DEFINE t == Append(ch, m)
  <1>1. /\ Len(ch) \in Nat /\ Len(t) = Len(ch) + 1 /\ t[Len(ch) + 1].kind # "new"
        /\ \A k \in 1..Len(ch) : t[k] = ch[k] /\ k \in 1..Len(t)
        /\ \A k \in 1..Len(t) : t[k].kind = "new" => k \in 1..Len(ch)
    BY AppendFacts
  <1> HIDE DEF t
  <1>2. \A k \in 1..Len(t) : t[k].kind = "new" => \E i \in r..(n - 1) : t[k] = NewBlock(At(p, i))
    BY <1>1 DEF Arriving
  <1>3. \A i \in r..(n - 1) : \E k \in 1..Len(t) : t[k] = NewBlock(At(p, i))
    BY <1>1 DEF Arriving
  <1>4. \A k, l \in 1..Len(t) : k < l /\ t[k].kind = "new" /\ t[l].kind = "new" =>
              Height(t[k].blocks[1]) < Height(t[l].blocks[1])
    BY <1>1 DEF Arriving
  <1>5. Arriving(p, n, r, t)
    BY <1>2, <1>3, <1>4 DEF Arriving
  <1> QED BY <1>5 DEF t

\* A block is broadcast.
LEMMA ArrivingWithNew ==
    ASSUME NEW p, NEW n \in Nat, NEW r \in Nat, NEW ch \in Seq(Messages), r <= n,
           Arriving(p, n, r, ch), NewBlock(At(p, n)) \in Messages
    PROVE  Arriving(p, n + 1, r, Append(ch, NewBlock(At(p, n))))
  <1> DEFINE m == NewBlock(At(p, n))
             t == Append(ch, m)
  <1>1. /\ Len(ch) \in Nat /\ Len(t) = Len(ch) + 1 /\ t[Len(ch) + 1] = m
        /\ \A k \in 1..Len(ch) : t[k] = ch[k] /\ k \in 1..Len(t)
        /\ \A k \in 1..Len(t) : k \in 1..Len(ch) \/ k = Len(ch) + 1
    BY AppendFacts
  <1>2. m.kind = "new" /\ Height(m.blocks[1]) = n
    <2>1. m.kind = "new" /\ m.blocks[1] = At(p, n)
      BY DEF NewBlock
    <2> HIDE DEF m
    <2> QED BY <2>1, AtFacts
  <1>3. \A i \in r..(n - 1) : i \in Nat /\ Height(NewBlock(At(p, i)).blocks[1]) = i
    <2> SUFFICES ASSUME NEW i \in r..(n - 1)
                 PROVE  i \in Nat /\ Height(NewBlock(At(p, i)).blocks[1]) = i
      OBVIOUS
    <2>1. NewBlock(At(p, i)).blocks[1] = At(p, i)
      BY DEF NewBlock
    <2>2. i \in Nat
      OBVIOUS
    <2> QED BY <2>1, <2>2, AtFacts
  <1>4. r..n = (r..(n - 1)) \cup {n} /\ n + 1 - 1 = n
    OBVIOUS
  <1>5. m = NewBlock(At(p, n))
    OBVIOUS
  <1> HIDE DEF t, m
  <1>6. \A k \in 1..Len(t) : t[k].kind = "new" => \E i \in r..n : t[k] = NewBlock(At(p, i))
    BY <1>1, <1>4, <1>5 DEF Arriving
  <1>7. \A i \in r..n : \E k \in 1..Len(t) : t[k] = NewBlock(At(p, i))
    <2>1. Len(ch) + 1 \in 1..Len(t)
      BY <1>1
    <2> QED BY <1>1, <1>4, <1>5, <2>1 DEF Arriving
  <1>8. ASSUME NEW k \in 1..Len(t), NEW l \in 1..Len(t), k < l, t[k].kind = "new", t[l].kind = "new"
        PROVE  Height(t[k].blocks[1]) < Height(t[l].blocks[1])
    <2>1. k \in 1..Len(ch) /\ t[k] = ch[k]
      BY <1>1, <1>8
    <2>2. CASE l \in 1..Len(ch)
      BY <1>1, <1>8, <2>1, <2>2 DEF Arriving
    <2>3. CASE l = Len(ch) + 1
      <3>1. PICK i \in r..(n - 1) : ch[k] = NewBlock(At(p, i))
        BY <1>8, <2>1 DEF Arriving
      <3>2. Height(t[k].blocks[1]) = i /\ Height(t[l].blocks[1]) = n
        BY <1>1, <1>2, <1>3, <2>1, <2>3, <3>1
      <3> QED BY <3>2
    <2> QED BY <1>1, <2>2, <2>3
  <1>9. Arriving(p, n + 1, r, t)
    BY <1>4, <1>6, <1>7, <1>8 DEF Arriving
  <1> QED BY <1>9 DEF t, m

-------------------------------------------------------------------------------
(***************************************************************************)
(* The invariant.                                                          *)
(***************************************************************************)

\* The initial states: nothing was asked for, and what was announced and is not stored
\* is the one block that was broadcast early.
LEMMA InitInv == Init => SyncInv
  <1> SUFFICES ASSUME Init PROVE SyncInv
    OBVIOUS
  <1>0. MaxLen \in Nat
    BY StartupSyncAssumption
  <1>1. /\ own \in 0..MaxLen /\ split \in 0..own /\ served \in 0..MaxLen
        /\ announced \in {served, served + 1} /\ announced <= MaxLen
        /\ early = IF announced > served THEN announced ELSE 0
    BY <1>0 DEF Init
  <1>2. /\ asked = << >> /\ channel = << >> /\ stage = "waiting" /\ state = "synchronizing"
        /\ clean = TRUE /\ cursor = 0 /\ shared = FALSE /\ length = own
        /\ tipIndex = IF own = 0 THEN 0 ELSE own - 1
        /\ batch = << >> /\ full = FALSE /\ stored = {Mine(i) : i \in 0..(own - 1)}
        /\ blockQueue = << >> /\ slots = {}
    BY DEF Init
  <1>3. peerSynced \in BOOLEAN
    BY DEF Init
  <1>4. \A i \in 0..(own - 1) : Mine(i) \in Blocks
    BY <1>0, <1>1 DEF Mine, Block, Blocks
  <1>5. << >> \in Seq(Nat) /\ << >> \in Seq(Messages) /\ << >> \in Seq(Blocks) /\ Len(<< >>) = 0
    OBVIOUS
  <1>6. TypeOK
    <2>1. /\ own \in 0..MaxLen /\ split \in 0..own /\ early \in 0..MaxLen /\ served \in 0..MaxLen
          /\ announced \in 0..MaxLen /\ length \in 0..MaxLen /\ tipIndex \in Nat
      BY <1>0, <1>1, <1>2
    <2>2. stored \in SUBSET Blocks /\ slots \in SUBSET Blocks
      BY <1>2, <1>4
    <2> QED BY <1>2, <1>3, <1>5, <2>1, <2>2 DEF TypeOK
  <1>7. Stages /\ MintsOnTip
    BY <1>1, <1>2 DEF Stages, MintsOnTip
  <1>8. ASSUME split = own PROVE Beginning /\ SharedIsTip
    <2>1. \A i \in 0..(own - 1) : Mine(i) = At(split, i)
      BY <1>1, <1>8 DEF Mine, Block, At
    <2> QED BY <1>2, <2>1 DEF Beginning, SharedIsTip
  <1>9. Placed(announced, announced)
    <2>1. announced \in Nat /\ announced - 1 < announced
      BY <1>0, <1>1
    <2>2. Arriving(split, announced, announced, channel)
      BY <1>2, <1>5, <2>1 DEF Arriving
    <2>3. Queued(announced, announced)
      BY <1>2, <1>5, <2>1 DEF Queued, RunFrom
    <2>4. NoRequest
      BY <1>2, <1>5 DEF NoRequest
    <2>5. Fetching(announced)
      BY <1>0, <1>1, <1>2, <2>4 DEF Fetching, Reaches
    <2> QED BY <1>2, <2>1, <2>2, <2>3, <2>5 DEF Placed
  <1>10. announced \in Nat
    BY <1>0, <1>1
  <1>11. Delivery
    BY <1>9, <1>10 DEF Delivery
  <1> QED BY <1>6, <1>7, <1>8, <1>11 DEF SyncInv, Good

\* With more blocks one gets at least as far.
LEMMA ReachesMore ==
    ASSUME NEW a \in Nat, NEW n \in Nat, NEW m \in Nat, NEW e \in Nat,
           Reaches(e, n, a), n <= m, e > 0 => a = e
    PROVE  Reaches(e, m, a)
  BY DEF Reaches

\* A request that is under way is not changed by a block that is broadcast.
LEMMA RequestWithNew ==
    ASSUME NEW m \in Messages, m.kind = "new", TypeOK,
           channel' = Append(channel, m), UNCHANGED <<asked, cursor, split, early>>
    PROVE  /\ NoRequest => NoRequest'
           /\ \A a \in Nat : OneRequest(a) => OneRequest(a)'
  <1>1. /\ Len(channel) \in Nat /\ Len(channel') = Len(channel) + 1
        /\ channel'[Len(channel) + 1] = m
        /\ \A k \in 1..Len(channel) : channel'[k] = channel[k]
    BY AppendFacts DEF TypeOK
  <1>2. \A k \in 1..Len(channel') : channel'[k].kind # "new" =>
                                       k \in 1..Len(channel) /\ channel'[k] = channel[k]
    BY <1>1
  <1>3. UNCHANGED asked /\ UNCHANGED cursor /\ UNCHANGED split /\ UNCHANGED early
    OBVIOUS
  <1>4. NoRequest => NoRequest'
    BY <1>2, <1>3 DEF NoRequest
  <1>5. ASSUME NEW a \in Nat, OneRequest(a) PROVE OneRequest(a)'
    <2>1. Len(asked') <= 1
      BY <1>3, <1>5 DEF OneRequest
    <2>2. \A k \in 1..Len(asked') : /\ asked'[k] = cursor'
                                    /\ \A l \in 1..Len(channel') : channel'[l].kind = "new"
      BY <1>2, <1>3, <1>5 DEF OneRequest
    <2>3. \A k, l \in 1..Len(channel') : channel'[k].kind # "new" /\ channel'[l].kind # "new" => k = l
      BY <1>2, <1>5 DEF OneRequest
    <2>4. \A k \in 1..Len(channel') : channel'[k].kind = "blocks" =>
                 Answers(split', early', a, cursor', channel'[k].blocks)
      BY <1>2, <1>3, <1>5 DEF OneRequest
    <2> QED BY <2>1, <2>2, <2>3, <2>4 DEF OneRequest
  <1> QED BY <1>4, <1>5

\* Nor is a request, or none, by the arrival of a broadcast block.
LEMMA RequestAfterNew ==
    ASSUME TypeOK, channel # << >>, Head(channel).kind = "new",
           channel' = Tail(channel), UNCHANGED <<asked, cursor, split, early>>
    PROVE  /\ NoRequest => NoRequest'
           /\ \A a \in Nat : OneRequest(a) => OneRequest(a)'
  <1>1. /\ Len(channel) \in Nat
        /\ \A k \in 1..Len(channel') : channel'[k] = channel[k + 1] /\ k + 1 \in 1..Len(channel)
    BY TailFacts DEF TypeOK
  <1>2. UNCHANGED asked /\ UNCHANGED cursor /\ UNCHANGED split /\ UNCHANGED early
    OBVIOUS
  <1>3. NoRequest => NoRequest'
    BY <1>1, <1>2 DEF NoRequest
  <1>4. ASSUME NEW a \in Nat, OneRequest(a) PROVE OneRequest(a)'
    <2>1. Len(asked') <= 1
      BY <1>2, <1>4 DEF OneRequest
    <2>2. \A k \in 1..Len(asked') : /\ asked'[k] = cursor'
                                    /\ \A l \in 1..Len(channel') : channel'[l].kind = "new"
      BY <1>1, <1>2, <1>4 DEF OneRequest
    <2>3. ASSUME NEW k \in 1..Len(channel'), NEW l \in 1..Len(channel'),
                 channel'[k].kind # "new", channel'[l].kind # "new"
          PROVE  k = l
      <3>1. k + 1 = l + 1
        BY <1>1, <1>4, <2>3 DEF OneRequest
      <3> QED BY <3>1
    <2>4. \A k \in 1..Len(channel') : channel'[k].kind = "blocks" =>
                 Answers(split', early', a, cursor', channel'[k].blocks)
      BY <1>1, <1>2, <1>4 DEF OneRequest
    <2> QED BY <2>1, <2>2, <2>3, <2>4 DEF OneRequest
  <1> QED BY <1>3, <1>4

\* The stage of fetching, for a step that changes no more than the counters of the peer,
\* the channel and the queue.
LEMMA FetchingKept ==
    ASSUME NEW a \in Nat, Fetching(a), TypeOK, served' \in Nat, served <= served',
           NoRequest => NoRequest', OneRequest(a) => OneRequest(a)',
           UNCHANGED <<early, split, stage, cursor, length, batch, full>>
    PROVE  Fetching(a)'
  <1>1. /\ UNCHANGED early /\ UNCHANGED split /\ UNCHANGED stage /\ UNCHANGED cursor
        /\ UNCHANGED length /\ UNCHANGED batch /\ UNCHANGED full
    OBVIOUS
  <1>2. served \in Nat /\ early \in Nat
    BY StartupSyncAssumption DEF TypeOK
  <1>3. Reaches(early, served', a)
    BY <1>2, ReachesMore DEF Fetching
  <1>4. stage' = "executing" =>
          \E c \in Nat :
            /\ c <= length'
            /\ RunFrom(split', c, batch')
            /\ full' => c + Len(batch') = cursor' + Page
            /\ ~full' => Reaches(early', c + Len(batch'), a)
    BY <1>1 DEF Fetching
  <1> QED BY <1>1, <1>3, <1>4 DEF Fetching

\* A block is executed: the chain keeps its types and the index of its latest block.
LEMMA ProcessTypes ==
    ASSUME TypeOK, MintsOnTip, NEW b \in Blocks, Process(b), UNCHANGED fixed
    PROVE  /\ length' \in 0..MaxLen /\ tipIndex' \in Nat
           /\ stored' \in SUBSET Blocks /\ shared' \in BOOLEAN
           /\ MintsOnTip'
           /\ shared' => shared
  <1>1. b[2] \in 0..(MaxLen - 1) /\ MaxLen \in Nat
    BY StartupSyncAssumption DEF Blocks
  <1>2. UNCHANGED own /\ UNCHANGED split
    BY DEF fixed
  <1>3. CASE Matching(b) /\ split = own
    <2>1. /\ stored' = stored \cup {b} /\ length' = b[2] + 1 /\ tipIndex' = b[2] /\ shared' = FALSE
      BY <1>3 DEF Process, Height, LatestIndex
    <2>2. length' \in 0..MaxLen /\ tipIndex' \in Nat /\ tipIndex' = length' - 1 /\ length' # 0
      BY <1>1, <2>1
    <2>3. stored' \in SUBSET Blocks
      BY <2>1 DEF TypeOK
    <2> QED BY <2>1, <2>2, <2>3 DEF MintsOnTip
  <1>4. CASE ~(Matching(b) /\ split = own)
    <2>1. /\ stored' \in {stored, stored \cup {b}}
          /\ UNCHANGED length /\ UNCHANGED tipIndex /\ UNCHANGED shared
      BY <1>4 DEF Process, ledger
    <2> QED BY <1>1, <1>2, <2>1 DEF TypeOK, MintsOnTip
  <1> QED BY <1>3, <1>4

\* A block of the peer's chain is accepted when it is the one that follows the end of the
\* chain, and only then.
LEMMA ProcessNext ==
    ASSUME TypeOK, Beginning, split = own, NEW h \in Nat, At(split, h) \in Blocks,
           Process(At(split, h)), UNCHANGED fixed
    PROVE  /\ Beginning'
           /\ \/ h = length /\ length' = h + 1 /\ ~shared'
              \/ h # length /\ length' = length /\ shared' = shared /\ tipIndex' = tipIndex
  <1> DEFINE b == At(split, h)
  <1>1. length \in Nat /\ split \in Nat /\ Height(b) = h
    BY StartupSyncAssumption, AtFacts DEF TypeOK
  <1>2. UNCHANGED split
    BY DEF fixed
  <1>3. ASSUME NEW i \in Nat PROVE At(split, i) \in stored <=> i < length
    <2>1. CASE i < length
      BY <1>1, <2>1 DEF Beginning
    <2>2. ASSUME At(split, i) \in stored PROVE i < length
      <3>1. PICK j \in 0..(length - 1) : At(split, i) = At(split, j)
        BY <2>2 DEF Beginning
      <3> QED BY <1>1, <3>1, AtOnce
    <2> QED BY <2>1, <2>2
  <1>4. Matching(b) <=> h = length
    <2>1. CASE h = 0
      BY <1>1, <2>1 DEF Matching
    <2>2. CASE h # 0
      <3>1. Prev(b) = At(split, h - 1) /\ h - 1 \in Nat
        BY <2>2, AtPrev
      <3>2. (b \in stored <=> h < length) /\ (Prev(b) \in stored <=> h - 1 < length)
        BY <1>3, <3>1
      <3> HIDE DEF b
      <3> QED BY <1>1, <2>2, <3>2 DEF Matching
    <2> QED BY <2>1, <2>2
  <1>5. CASE h = length
    <2>1. stored' = stored \cup {b} /\ length' = h + 1 /\ shared' = FALSE
      BY <1>1, <1>4, <1>5 DEF Process
    <2>2. 0..(h + 1 - 1) = (0..(length - 1)) \cup {h}
      BY <1>1, <1>5
    <2>3. Beginning'
      BY <1>2, <2>1, <2>2 DEF Beginning
    <2> QED BY <1>5, <2>1, <2>3
  <1>6. CASE h # length
    <2>1. UNCHANGED stored /\ UNCHANGED length /\ UNCHANGED tipIndex /\ UNCHANGED shared
      BY <1>4, <1>6 DEF Process, ledger
    <2> QED BY <1>2, <1>6, <2>1 DEF Beginning
  <1> QED BY <1>5, <1>6

\* The blocks Theirs(i) are the blocks At(split, i), now and after a step.
LEMMA SameBlocks == \A i : Theirs(i) = At(split, i)
  BY DEF Theirs, Block, At

\* The peer broadcasts a block.
LEMMA AnnounceInv == SyncInv /\ Announce => SyncInv'
  <1> SUFFICES ASSUME SyncInv, Announce PROVE SyncInv'
    OBVIOUS
  <1> DEFINE m == NewBlock(At(split, announced))
  <1>1. /\ announced' = announced + 1 /\ channel' = Append(channel, m)
        /\ announced \in Nat /\ announced < MaxLen /\ announced = served
    BY StartupSyncAssumption, SameBlocks DEF Announce, SyncInv, TypeOK
  <1>2. /\ UNCHANGED own /\ UNCHANGED split /\ UNCHANGED early /\ UNCHANGED served
        /\ UNCHANGED peerSynced /\ UNCHANGED asked /\ UNCHANGED stage /\ UNCHANGED state
        /\ UNCHANGED clean /\ UNCHANGED length /\ UNCHANGED tipIndex /\ UNCHANGED stored
        /\ UNCHANGED cursor /\ UNCHANGED shared /\ UNCHANGED batch /\ UNCHANGED full
        /\ UNCHANGED blockQueue /\ UNCHANGED slots
    BY DEF Announce, fixed, node, ledger, paging
  <1>3. m \in Messages /\ m.kind = "new"
    <2>1. MaxLen \in Nat /\ announced \in 0..(MaxLen - 1)
      BY <1>1, StartupSyncAssumption
    <2>2. At(split, announced) \in Blocks
      BY <2>1, AtIsBlock
    <2> QED BY <2>2 DEF NewBlock, Messages
  <1>4. m = NewBlock(At(split, announced))
    OBVIOUS
  <1> HIDE DEF m
  <1>5. TypeOK
    BY DEF SyncInv
  <1>6. channel' \in Seq(Messages) /\ channel \in Seq(Messages)
    BY <1>1, <1>3, <1>5, AppendFacts DEF TypeOK
  <1>7. TypeOK'
    <2>1. announced' \in 0..MaxLen
      BY <1>1, StartupSyncAssumption
    <2> QED BY <1>2, <1>5, <1>6, <2>1 DEF TypeOK
  <1>8. Stages' /\ MintsOnTip'
    BY <1>1, <1>2, <1>5 DEF SyncInv, Stages, MintsOnTip
  <1>9. ASSUME Good' PROVE Beginning' /\ SharedIsTip' /\ Delivery'
    <2>1. Good
      BY <1>2, <1>9 DEF Good, Running
    <2>2. Beginning' /\ SharedIsTip'
      BY <1>2, <2>1 DEF SyncInv, Beginning, SharedIsTip
    <2>3. PICK a \in Nat, r \in Nat : Placed(a, r)
      BY <2>1 DEF SyncInv, Delivery
    <2>4. r <= announced /\ Arriving(split, announced, r, channel)
      BY <2>3 DEF Placed
    <2>5. Arriving(split, announced + 1, r, channel')
      BY <1>1, <1>3, <1>4, <1>6, <2>4, ArrivingWithNew
    <2>6. /\ NoRequest => NoRequest'
          /\ OneRequest(a) => OneRequest(a)'
      BY <1>1, <1>2, <1>3, <1>5, RequestWithNew
    <2>7. served' \in Nat /\ served <= served'
      BY <1>1, <1>2
    <2>8. Fetching(a) => Fetching(a)'
      BY <1>2, <1>5, <2>6, <2>7, FetchingKept
    <2>9. Queued(a, r) => Queued(a, r)'
      BY <1>2 DEF Queued
    <2>10. \A i : Had(i) => Had(i)'
      BY <1>2 DEF Had
    <2>11. Placed(a, r)'
      BY <1>1, <1>2, <2>3, <2>4, <2>5, <2>8, <2>9, <2>10 DEF Placed
    <2> QED BY <2>2, <2>11 DEF Delivery
  <1> QED BY <1>7, <1>8, <1>9 DEF SyncInv

\* The peer stores a block, or is synchronised itself.
LEMMA StoreInv == SyncInv /\ (Store \/ PeerSyncs) => SyncInv'
  <1> SUFFICES ASSUME SyncInv, Store \/ PeerSyncs PROVE SyncInv'
    OBVIOUS
  <1>1. /\ UNCHANGED own /\ UNCHANGED split /\ UNCHANGED early /\ UNCHANGED announced
        /\ UNCHANGED channel /\ UNCHANGED asked /\ UNCHANGED stage /\ UNCHANGED state
        /\ UNCHANGED clean /\ UNCHANGED length /\ UNCHANGED tipIndex /\ UNCHANGED stored
        /\ UNCHANGED cursor /\ UNCHANGED shared /\ UNCHANGED batch /\ UNCHANGED full
        /\ UNCHANGED blockQueue /\ UNCHANGED slots
    BY DEF Store, PeerSyncs, fixed, node, ledger, paging
  <1>2. TypeOK
    BY DEF SyncInv
  <1>3. served' \in {served, announced} /\ served <= served' /\ served' <= announced /\ served' \in Nat
    BY <1>2, StartupSyncAssumption DEF Store, PeerSyncs, TypeOK, SyncInv, Stages
  <1>4. peerSynced' \in BOOLEAN
    BY <1>2 DEF Store, PeerSyncs, TypeOK
  <1>5. TypeOK'
    BY <1>1, <1>2, <1>3, <1>4 DEF TypeOK
  <1>6. Stages' /\ MintsOnTip'
    BY <1>1, <1>3 DEF SyncInv, Stages, MintsOnTip
  <1>7. ASSUME Good' PROVE Beginning' /\ SharedIsTip' /\ Delivery'
    <2>1. Good
      BY <1>1, <1>7 DEF Good, Running
    <2>2. Beginning' /\ SharedIsTip'
      BY <1>1, <2>1 DEF SyncInv, Beginning, SharedIsTip
    <2>3. PICK a \in Nat, r \in Nat : Placed(a, r)
      BY <2>1 DEF SyncInv, Delivery
    <2>4. /\ NoRequest => NoRequest'
          /\ OneRequest(a) => OneRequest(a)'
      BY <1>1 DEF NoRequest, OneRequest
    <2>5. Fetching(a) => Fetching(a)'
      BY <1>1, <1>2, <1>3, <2>4, FetchingKept
    <2>6. Queued(a, r) => Queued(a, r)'
      BY <1>1 DEF Queued
    <2>7. \A i : Had(i) => Had(i)'
      BY <1>1 DEF Had
    <2>8. Placed(a, r)'
      BY <1>1, <2>3, <2>5, <2>6, <2>7 DEF Placed
    <2> QED BY <2>2, <2>8 DEF Delivery
  <1> QED BY <1>5, <1>6, <1>7 DEF SyncInv

\* The peer answers a request: with Page blocks, or with all it has from the index on.
LEMMA GetBlocksInv == SyncInv /\ GetBlocks => SyncInv'
  <1> SUFFICES ASSUME SyncInv, GetBlocks PROVE SyncInv'
    OBVIOUS
  <1> DEFINE i == Head(asked)
             n == Cardinality(ServedFrom(i))
             bs == [k \in 1..n |-> Theirs(i + k - 1)]
             m == IF ~peerSynced THEN Error ELSE Answer(bs)
  <1>1. /\ UNCHANGED own /\ UNCHANGED split /\ UNCHANGED early /\ UNCHANGED announced
        /\ UNCHANGED served /\ UNCHANGED peerSynced /\ UNCHANGED stage /\ UNCHANGED state
        /\ UNCHANGED clean /\ UNCHANGED length /\ UNCHANGED tipIndex /\ UNCHANGED stored
        /\ UNCHANGED cursor /\ UNCHANGED shared /\ UNCHANGED batch /\ UNCHANGED full
        /\ UNCHANGED blockQueue /\ UNCHANGED slots
    BY DEF GetBlocks, fixed, peer, node, ledger, paging
  <1>2. asked # << >> /\ asked' = Tail(asked) /\ channel' = Append(channel, m)
    BY DEF GetBlocks
  <1>3. /\ TypeOK /\ served \in Nat /\ served <= MaxLen /\ MaxLen \in Nat
        /\ Page \in Nat /\ announced \in Nat
    BY StartupSyncAssumption DEF SyncInv, TypeOK
  <1>4. /\ i \in Nat /\ i = asked[1] /\ 1 \in 1..Len(asked) /\ Len(asked) \in Nat
        /\ asked' \in Seq(Nat) /\ Len(asked') = Len(asked) - 1
    BY <1>2, <1>3 DEF TypeOK
  <1> HIDE DEF i
  <1>5. /\ n \in Nat /\ n <= Page
        /\ n > 0 => i + n <= served
        /\ n < Page => i + n >= served
    <2> DEFINE top == IF i + Page <= served THEN i + Page ELSE served
    <2>1. ServedFrom(i) = i..(top - 1)
      BY <1>3, <1>4 DEF ServedFrom
    <2>2. /\ top \in Nat /\ top <= served /\ top <= i + Page
          /\ top = served \/ top = i + Page
      BY <1>3, <1>4
    <2> HIDE DEF top
    <2>3. Cardinality(i..(top - 1)) = IF i > top - 1 THEN 0 ELSE (top - 1) - i + 1
      <3>1. i \in Int /\ top - 1 \in Int
        BY <1>4, <2>2
      <3> QED BY <3>1, FS_Interval
    <2>4. n = IF i > top - 1 THEN 0 ELSE top - i
      <3>1. n = Cardinality(i..(top - 1))
        BY <2>1
      <3> HIDE DEF n
      <3> QED BY <1>4, <2>2, <2>3, <3>1
    <2> HIDE DEF n
    <2> QED BY <1>3, <1>4, <2>2, <2>4
  <1> HIDE DEF n
  <1>6. /\ bs \in Seq(Blocks) /\ Len(bs) = n
        /\ \A k \in 1..n : bs[k] = At(split, i + k - 1)
    <2>1. \A k \in 1..n : Theirs(i + k - 1) \in Blocks
      <3> SUFFICES ASSUME NEW k \in 1..n PROVE Theirs(i + k - 1) \in Blocks
        OBVIOUS
      <3>1. i + k - 1 \in 0..(MaxLen - 1)
        BY <1>3, <1>4, <1>5
      <3> QED BY <3>1, AtIsBlock, SameBlocks
    <2>2. bs \in [1..n -> Blocks]
      BY <2>1
    <2>3. bs \in Seq(Blocks) /\ Len(bs) = n
      BY <1>5, <2>2
    <2> QED BY <2>3, SameBlocks
  <1>7. RunFrom(split, i, bs)
    BY <1>6 DEF RunFrom
  <1> HIDE DEF bs
  <1>8. m \in Messages /\ m.kind # "new" /\ (m.kind = "blocks" => m.blocks = bs)
    <2>1. << >> \in Seq(Blocks)
      OBVIOUS
    <2> QED BY <1>6, <2>1 DEF Messages, Error, Answer
  <1> HIDE DEF m
  <1>9. channel' \in Seq(Messages) /\ channel \in Seq(Messages)
    BY <1>2, <1>3, <1>8, AppendFacts DEF TypeOK
  <1>10. TypeOK'
    BY <1>1, <1>3, <1>4, <1>9 DEF TypeOK
  <1>11. Stages' /\ MintsOnTip'
    BY <1>1 DEF SyncInv, Stages, MintsOnTip
  <1>12. ASSUME Good' PROVE Beginning' /\ SharedIsTip' /\ Delivery'
    <2>1. Good
      BY <1>1, <1>12 DEF Good, Running
    <2>2. Beginning' /\ SharedIsTip'
      BY <1>1, <2>1 DEF SyncInv, Beginning, SharedIsTip
    <2>3. PICK a \in Nat, r \in Nat : Placed(a, r)
      BY <2>1 DEF SyncInv, Delivery
    <2>4. Arriving(split, announced, r, channel')
      BY <1>2, <1>3, <1>8, <1>9, <2>3, ArrivingWithAnswer DEF Placed
    <2>5. asked # << >> => ~NoRequest
      BY DEF NoRequest
    <2>6. ASSUME OneRequest(a), Reaches(early, served, a), early > 0 => a = early
          PROVE  OneRequest(a)'
      <3>1. /\ Len(channel) \in Nat /\ Len(channel') = Len(channel) + 1
            /\ channel'[Len(channel) + 1] = m
            /\ \A k \in 1..Len(channel) : channel'[k] = channel[k]
        BY <1>2, <1>8, <1>9, AppendFacts
      <3>2. i = cursor /\ \A l \in 1..Len(channel) : channel[l].kind = "new"
        BY <1>4, <2>6 DEF OneRequest
      <3>3. \A k \in 1..Len(channel') : channel'[k].kind # "new" => k = Len(channel) + 1 /\ channel'[k] = m
        BY <3>1, <3>2
      <3>4. Len(asked') = 0
        BY <1>4, <2>6 DEF OneRequest
      <3>5. Answers(split, early, a, i, bs)
        <4>1. early \in Nat /\ i + n \in Nat
          BY <1>3, <1>4, <1>5 DEF TypeOK
        <4>2. n < Page => Reaches(early, i + n, a)
          BY <1>3, <1>5, <2>6, <4>1, ReachesMore
        <4> QED BY <1>5, <1>6, <1>7, <4>2 DEF Answers
      <3>6. \A k \in 1..Len(channel') : channel'[k].kind = "blocks" =>
                   Answers(split', early', a, cursor', channel'[k].blocks)
        BY <1>1, <1>8, <3>2, <3>3, <3>5
      <3>7. \A k, l \in 1..Len(channel') : channel'[k].kind # "new" /\ channel'[l].kind # "new" => k = l
        BY <3>3
      <3>8. Len(asked') <= 1 /\ \A k \in 1..Len(asked') : FALSE
        BY <3>4
      <3> QED BY <3>6, <3>7, <3>8 DEF OneRequest
    <2>7. Fetching(a) => Fetching(a)'
      <3>1. served' \in Nat /\ served <= served'
        BY <1>1, <1>3
      <3> SUFFICES ASSUME Fetching(a) PROVE Fetching(a)'
        OBVIOUS
      <3>2. NoRequest => NoRequest'
        BY <1>2, <2>5
      <3>3. OneRequest(a) => OneRequest(a)'
        BY <2>6 DEF Fetching
      <3> QED BY <1>1, <1>3, <3>1, <3>2, <3>3, FetchingKept
    <2>8. Queued(a, r) => Queued(a, r)'
      BY <1>1 DEF Queued
    <2>9. \A j : Had(j) => Had(j)'
      BY <1>1 DEF Had
    <2>10. Placed(a, r)'
      BY <1>1, <2>3, <2>4, <2>7, <2>8, <2>9 DEF Placed
    <2> QED BY <2>2, <2>10 DEF Delivery
  <1> QED BY <1>10, <1>11, <1>12 DEF SyncInv

\* The node asks for its latest block again, and those that follow it.
LEMMA StartSyncInv == SyncInv /\ StartSync => SyncInv'
  <1> SUFFICES ASSUME SyncInv, StartSync PROVE SyncInv'
    OBVIOUS
  <1>1. /\ UNCHANGED own /\ UNCHANGED split /\ UNCHANGED early /\ UNCHANGED announced
        /\ UNCHANGED served /\ UNCHANGED peerSynced /\ UNCHANGED channel /\ UNCHANGED state
        /\ UNCHANGED clean /\ UNCHANGED length /\ UNCHANGED tipIndex /\ UNCHANGED stored
        /\ UNCHANGED batch /\ UNCHANGED full /\ UNCHANGED blockQueue /\ UNCHANGED slots
    BY DEF StartSync, fixed, peer, ledger
  <1>2. /\ stage = "waiting" /\ stage' = "asking" /\ cursor' = tipIndex
        /\ shared' = (length > 0) /\ asked' = Append(asked, tipIndex) /\ Running
    BY DEF StartSync
  <1>3. TypeOK /\ length \in Nat /\ tipIndex \in Nat /\ asked \in Seq(Nat)
    BY StartupSyncAssumption DEF SyncInv, TypeOK
  <1>4. TypeOK'
    <2>1. asked' \in Seq(Nat) /\ shared' \in BOOLEAN
      BY <1>2, <1>3
    <2> QED BY <1>1, <1>2, <1>3, <2>1 DEF TypeOK
  <1>5. Stages' /\ MintsOnTip'
    <2>1. clean /\ state # "synchronized"
      BY <1>2 DEF SyncInv, Stages
    <2> QED BY <1>1, <1>2, <2>1 DEF SyncInv, Stages, MintsOnTip
  <1>6. ASSUME Good' PROVE Beginning' /\ SharedIsTip' /\ Delivery'
    <2>1. Good /\ split = own
      BY <1>1, <1>6 DEF Good, Running
    <2>2. tipIndex = IF length = 0 THEN 0 ELSE length - 1
      BY <2>1 DEF SyncInv, MintsOnTip
    <2>3. Beginning' /\ SharedIsTip'
      <3>1. Beginning'
        BY <1>1, <2>1 DEF SyncInv, Beginning
      <3>2. SharedIsTip'
        <4>1. shared' => length > 0
          BY DEF StartSync
        <4>2. length > 0 => tipIndex = length - 1
          BY <1>3, <2>2
        <4> QED BY <1>1, <1>2, <4>1, <4>2 DEF SharedIsTip
      <3> QED BY <3>1, <3>2
    <2>4. PICK a \in Nat, r \in Nat : Placed(a, r)
      BY <2>1 DEF SyncInv, Delivery
    <2>5. NoRequest
      BY <1>2, <2>4 DEF Placed, Fetching
    <2>6. asked' = <<tipIndex>> /\ Len(asked') = 1 /\ \A k \in 1..Len(asked') : asked'[k] = tipIndex
      BY <1>2, <2>5 DEF NoRequest
    <2>7. OneRequest(a)'
      BY <1>1, <1>2, <2>5, <2>6 DEF NoRequest, OneRequest
    <2>8. cursor' <= length'
      BY <1>1, <1>2, <1>3, <2>2
    <2>9. Fetching(a)'
      BY <1>1, <1>2, <2>4, <2>7, <2>8 DEF Placed, Fetching
    <2>10. Queued(a, r) => Queued(a, r)'
      BY <1>1 DEF Queued
    <2>11. Placed(a, r)'
      BY <1>1, <1>2, <2>4, <2>9, <2>10 DEF Placed
    <2> QED BY <2>3, <2>11 DEF Delivery
  <1> QED BY <1>4, <1>5, <1>6 DEF SyncInv

\* A step that fails: what was synchronised is no longer claimed.
LEMMA FailedInv ==
    ASSUME SyncInv, TypeOK', MintsOnTip', Failed, UNCHANGED peer, shared' => shared
    PROVE  SyncInv'
  <1>1. /\ clean' = FALSE /\ stage' = "ended" /\ state' # "synchronizing"
        /\ UNCHANGED served /\ UNCHANGED announced
    BY DEF Failed, peer
  <1>2. Stages'
    BY <1>1 DEF SyncInv, Stages
  <1>3. ~Good'
    BY <1>1 DEF Good
  <1> QED BY <1>2, <1>3 DEF SyncInv

LEMMA NoPeersInv == SyncInv /\ NoPeers => SyncInv'
  <1> SUFFICES ASSUME SyncInv, NoPeers PROVE SyncInv'
    OBVIOUS
  <1>1. /\ UNCHANGED own /\ UNCHANGED split /\ UNCHANGED early /\ UNCHANGED announced
        /\ UNCHANGED served /\ UNCHANGED peerSynced /\ UNCHANGED asked /\ UNCHANGED channel
        /\ UNCHANGED length /\ UNCHANGED tipIndex /\ UNCHANGED stored
        /\ UNCHANGED cursor /\ UNCHANGED shared /\ UNCHANGED batch /\ UNCHANGED full
        /\ UNCHANGED blockQueue /\ UNCHANGED slots
    BY DEF NoPeers, fixed, peer, ledger, paging
  <1>2. clean' = FALSE /\ stage' = "ended" /\ state' \in {"synchronized", "down"}
    BY DEF NoPeers, Failed
  <1>3. TypeOK'
    BY <1>1, <1>2 DEF SyncInv, TypeOK
  <1>4. MintsOnTip'
    BY <1>1 DEF SyncInv, MintsOnTip
  <1> QED BY <1>1, <1>3, <1>4, FailedInv DEF NoPeers, peer

\* processPastSlot throws.
LEMMA ExecutionThrowsInv == SyncInv /\ ExecutionThrows => SyncInv'
  <1> SUFFICES ASSUME SyncInv, ExecutionThrows PROVE SyncInv'
    OBVIOUS
  <1>1. /\ UNCHANGED own /\ UNCHANGED split /\ UNCHANGED early /\ UNCHANGED announced
        /\ UNCHANGED served /\ UNCHANGED peerSynced /\ UNCHANGED asked /\ UNCHANGED channel
        /\ UNCHANGED cursor /\ UNCHANGED batch /\ UNCHANGED full /\ UNCHANGED slots
        /\ UNCHANGED fixed /\ TypeOK /\ MintsOnTip
    BY DEF ExecutionThrows, fixed, peer, SyncInv
  <1>2. clean' = FALSE /\ stage' = "ended" /\ state' \in {"synchronized", "down"}
    BY DEF ExecutionThrows, Failed
  <1>3. blockQueue' \in Seq(Blocks)
    <2>1. blockQueue # << >> => Tail(blockQueue) \in Seq(Blocks)
      BY <1>1 DEF TypeOK
    <2> QED BY <1>1, <2>1 DEF ExecutionThrows, TypeOK
  <1>4. /\ length' \in 0..MaxLen /\ tipIndex' \in Nat
        /\ stored' \in SUBSET Blocks /\ shared' \in BOOLEAN
        /\ MintsOnTip' /\ (shared' => shared)
    <2>1. CASE UNCHANGED <<ledger, shared>>
      BY <1>1, <2>1 DEF TypeOK, MintsOnTip, ledger
    <2>2. CASE \E b \in Blocks : Process(b)
      BY <1>1, <2>2, ProcessTypes
    <2>3. /\ batch # << >> => Head(batch) \in Blocks
          /\ blockQueue # << >> => Head(blockQueue) \in Blocks
      BY <1>1 DEF TypeOK
    <2> QED BY <2>1, <2>2, <2>3 DEF ExecutionThrows
  <1>5. TypeOK'
    BY <1>1, <1>2, <1>3, <1>4 DEF TypeOK
  <1> QED BY <1>1, <1>4, <1>5, FailedInv DEF ExecutionThrows, peer

\* The timer of a request, and a block of the current slot, which shuts the node down.
LEMMA GiveUpInv == SyncInv /\ (RequestTimeout \/ ReceivePromptBlock) => SyncInv'
  <1> SUFFICES ASSUME SyncInv, RequestTimeout \/ ReceivePromptBlock PROVE SyncInv'
    OBVIOUS
  <1>1. /\ UNCHANGED own /\ UNCHANGED split /\ UNCHANGED early /\ UNCHANGED announced
        /\ UNCHANGED served /\ UNCHANGED peerSynced /\ UNCHANGED asked
        /\ UNCHANGED length /\ UNCHANGED tipIndex /\ UNCHANGED stored
        /\ UNCHANGED cursor /\ UNCHANGED shared /\ UNCHANGED batch /\ UNCHANGED full
        /\ UNCHANGED blockQueue /\ UNCHANGED slots
    BY DEF RequestTimeout, ReceivePromptBlock, fixed, peer, ledger, paging
  <1>2. \/ /\ stage = "asking" /\ stage' = "draining" /\ clean' = FALSE
           /\ UNCHANGED channel /\ UNCHANGED state
        \/ /\ channel # << >> /\ channel' = Tail(channel) /\ state' = "down"
           /\ UNCHANGED stage /\ UNCHANGED clean
    BY DEF RequestTimeout, ReceivePromptBlock
  <1>3. TypeOK /\ TypeOK'
    <2>1. TypeOK
      BY DEF SyncInv
    <2>2. channel' \in Seq(Messages)
      BY <1>2, <2>1, TailFacts DEF TypeOK
    <2> QED BY <1>1, <1>2, <2>1, <2>2 DEF TypeOK
  <1>4. Stages' /\ MintsOnTip'
    BY <1>1, <1>2 DEF SyncInv, Stages, MintsOnTip
  <1>5. ~Good'
    BY <1>2 DEF Good, Running
  <1> QED BY <1>3, <1>4, <1>5 DEF SyncInv

\* An answer arrives: if it is awaited it is the only one, and starts at cursor.
LEMMA ReceiveAnswerInv == SyncInv /\ ReceiveAnswer => SyncInv'
  <1> SUFFICES ASSUME SyncInv, ReceiveAnswer PROVE SyncInv'
    OBVIOUS
  <1>1. /\ UNCHANGED own /\ UNCHANGED split /\ UNCHANGED early /\ UNCHANGED announced
        /\ UNCHANGED served /\ UNCHANGED peerSynced /\ UNCHANGED asked /\ UNCHANGED state
        /\ UNCHANGED clean /\ UNCHANGED length /\ UNCHANGED tipIndex /\ UNCHANGED stored
        /\ UNCHANGED cursor /\ UNCHANGED shared /\ UNCHANGED blockQueue /\ UNCHANGED slots
    BY DEF ReceiveAnswer, fixed, peer, ledger
  <1>2. /\ channel # << >> /\ channel' = Tail(channel) /\ Head(channel).kind # "new" /\ Running
        /\ \/ /\ stage = "asking" /\ Head(channel).kind = "blocks"
              /\ stage' = "executing" /\ batch' = Head(channel).blocks
              /\ full' = (Len(Head(channel).blocks) = Page)
           \/ /\ ~(stage = "asking" /\ Head(channel).kind = "blocks")
              /\ UNCHANGED stage /\ UNCHANGED batch /\ UNCHANGED full
    BY DEF ReceiveAnswer
  <1>3. /\ TypeOK /\ channel \in Seq(Messages)
        /\ early \in Nat /\ cursor \in Nat /\ Page \in Nat /\ length \in Nat
        /\ announced \in Nat
    BY StartupSyncAssumption DEF SyncInv, TypeOK
  <1>4. /\ channel' \in Seq(Messages) /\ Len(channel) \in Nat /\ Len(channel) >= 1
        /\ Len(channel') = Len(channel) - 1 /\ Head(channel) = channel[1] /\ channel[1] \in Messages
        /\ \A k \in 1..Len(channel') : channel'[k] = channel[k + 1] /\ k + 1 \in 1..Len(channel)
    BY <1>2, <1>3, TailFacts
  <1>5. channel[1].blocks \in Seq(Blocks) /\ 1 \in 1..Len(channel)
    BY <1>2, <1>4 DEF Messages, NewBlock
  <1>6. TypeOK'
    <2>1. batch' \in Seq(Blocks) /\ full' \in BOOLEAN
      BY <1>2, <1>3, <1>4, <1>5 DEF TypeOK
    <2>2. stage' \in {"executing", stage}
      BY <1>2
    <2> QED BY <1>1, <1>3, <1>4, <2>1, <2>2 DEF TypeOK
  <1>7. Stages' /\ MintsOnTip'
    BY <1>1, <1>2 DEF SyncInv, Stages, MintsOnTip
  <1>8. ASSUME Good' PROVE Beginning' /\ SharedIsTip' /\ Delivery'
    <2>1. Good
      BY <1>1, <1>8 DEF Good, Running
    <2>2. Beginning' /\ SharedIsTip'
      BY <1>1, <2>1 DEF SyncInv, Beginning, SharedIsTip
    <2>3. PICK a \in Nat, r \in Nat : Placed(a, r)
      BY <2>1 DEF SyncInv, Delivery
    <2>4. Arriving(split, announced, r, channel')
      BY <1>2, <1>3, <2>3, ArrivingAfterAnswer DEF Placed
    <2>5. ~NoRequest
      BY <1>2, <1>4, <1>5 DEF NoRequest
    <2>6. stage \notin {"waiting", "executing"}
      BY <2>3, <2>5 DEF Placed, Fetching
    <2>7. ASSUME stage = "asking" PROVE Fetching(a)'
      <3>1. cursor <= length /\ OneRequest(a) /\ (early > 0 => a = early) /\ Reaches(early, served, a)
        BY <2>3, <2>7 DEF Placed, Fetching
      <3>2. \A k \in 1..Len(channel') : channel'[k].kind = "new"
        <4> SUFFICES ASSUME NEW k \in 1..Len(channel'), channel'[k].kind # "new" PROVE FALSE
          OBVIOUS
        <4>1. channel[k + 1].kind # "new" /\ k + 1 \in 1..Len(channel) /\ channel[1].kind # "new"
          BY <1>2, <1>4
        <4>2. k + 1 = 1
          BY <1>5, <3>1, <4>1 DEF OneRequest
        <4> QED BY <4>2
      <3>3. asked = << >>
        <4>1. Len(asked) = 0
          <5> SUFFICES ASSUME Len(asked) # 0 PROVE FALSE
            OBVIOUS
          <5>1. Len(asked) \in Nat /\ 1 \in 1..Len(asked)
            BY <1>3 DEF TypeOK
          <5> QED BY <1>2, <1>4, <1>5, <3>1, <5>1 DEF OneRequest
        <4> QED BY <1>3, <4>1 DEF TypeOK
      <3>4. NoRequest'
        BY <1>1, <3>2, <3>3 DEF NoRequest
      <3>5. CASE channel[1].kind = "blocks"
        <4>1. Answers(split, early, a, cursor, channel[1].blocks)
          BY <1>5, <3>1, <3>5 DEF OneRequest
        <4>2. /\ stage' = "executing" /\ batch' = channel[1].blocks
              /\ full' = (Len(channel[1].blocks) = Page)
          BY <1>2, <1>4, <2>7, <3>5
        <4>3. RunFrom(split, cursor, batch') /\ Len(batch') \in Nat
          BY <1>5, <4>1, <4>2 DEF Answers
        <4>4. full' => cursor + Len(batch') = cursor' + Page
          BY <1>1, <4>2
        <4>5. ~full' => Reaches(early', cursor + Len(batch'), a)
          <5>1. ASSUME Len(batch') # Page PROVE Reaches(early, cursor + Len(batch'), a)
            <6>1. Len(batch') < Page
              BY <1>3, <4>1, <4>2, <4>3, <5>1 DEF Answers
            <6> QED BY <4>1, <4>2, <6>1 DEF Answers
          <5>2. ~full' => Len(batch') # Page
            BY <4>2
          <5> QED BY <1>1, <5>1, <5>2
        <4>6. /\ cursor \in Nat /\ cursor <= length' /\ RunFrom(split', cursor, batch')
          BY <1>1, <1>3, <3>1, <4>3
        <4>7. \E c \in Nat :
                /\ c <= length'
                /\ RunFrom(split', c, batch')
                /\ full' => c + Len(batch') = cursor' + Page
                /\ ~full' => Reaches(early', c + Len(batch'), a)
          BY <4>4, <4>5, <4>6
        <4> QED BY <1>1, <3>1, <3>4, <4>2, <4>7 DEF Fetching
      <3>6. CASE channel[1].kind # "blocks"
        <4>1. stage' = "asking" /\ UNCHANGED batch /\ UNCHANGED full
          BY <1>2, <1>4, <2>7, <3>6
        <4>2. OneRequest(a)'
          BY <1>1, <3>2, <3>3 DEF OneRequest
        <4> QED BY <1>1, <3>1, <4>1, <4>2 DEF Fetching
      <3> QED BY <3>5, <3>6
    <2>8. stage # "asking" => UNCHANGED stage
      BY <1>2
    <2>9. stage = "asking" => stage' \in {"asking", "executing"}
      BY <1>2
    <2>10. Queued(a, r) => Queued(a, r)'
      BY <1>1 DEF Queued
    <2>11. \A j : Had(j) => Had(j)'
      BY <1>1 DEF Had
    <2>12. Placed(a, r)'
      BY <1>1, <2>3, <2>4, <2>6, <2>7, <2>8, <2>9, <2>10, <2>11 DEF Placed
    <2> QED BY <2>2, <2>12 DEF Delivery
  <1> QED BY <1>6, <1>7, <1>8 DEF SyncInv

\* A broadcast block arrives: it is the one that is next, and it is kept, or handed to
\* its slot.
LEMMA ReceiveNewBlockInv == SyncInv /\ ReceiveNewBlock => SyncInv'
  <1> SUFFICES ASSUME SyncInv, ReceiveNewBlock PROVE SyncInv'
    OBVIOUS
  <1> DEFINE b == Head(channel).blocks[1]
  <1>1. /\ UNCHANGED own /\ UNCHANGED split /\ UNCHANGED early /\ UNCHANGED announced
        /\ UNCHANGED served /\ UNCHANGED peerSynced /\ UNCHANGED asked /\ UNCHANGED stage
        /\ UNCHANGED state /\ UNCHANGED clean /\ UNCHANGED length /\ UNCHANGED tipIndex
        /\ UNCHANGED stored /\ UNCHANGED cursor /\ UNCHANGED shared /\ UNCHANGED batch
        /\ UNCHANGED full
    BY DEF ReceiveNewBlock, fixed, peer, node, ledger, paging
  <1>2. /\ channel # << >> /\ channel' = Tail(channel) /\ Head(channel).kind = "new" /\ Running
        /\ IF state = "synchronizing"
           THEN blockQueue' = Append(blockQueue, b) /\ slots' = slots
           ELSE slots' = slots \cup {b} /\ blockQueue' = blockQueue
    BY DEF ReceiveNewBlock, Kept
  <1>3. /\ TypeOK /\ channel \in Seq(Messages) /\ announced \in Nat
        /\ channel' \in Seq(Messages) /\ Head(channel) \in Messages
    BY <1>2, StartupSyncAssumption, TailFacts DEF SyncInv, TypeOK
  <1>4. b \in Blocks
    <2>1. PICK x \in Blocks : Head(channel) = NewBlock(x)
      BY <1>2, <1>3 DEF Messages
    <2>2. b = x
      BY <2>1 DEF NewBlock
    <2> QED BY <2>2
  <1> HIDE DEF b
  <1>5. TypeOK'
    <2>1. blockQueue' \in Seq(Blocks) /\ slots' \in SUBSET Blocks
      <3>1. blockQueue \in Seq(Blocks) /\ slots \in SUBSET Blocks
        BY <1>3 DEF TypeOK
      <3>2. Append(blockQueue, b) \in Seq(Blocks) /\ slots \cup {b} \in SUBSET Blocks
        BY <1>4, <3>1
      <3> QED BY <1>2, <3>1, <3>2
    <2> QED BY <1>1, <1>3, <2>1 DEF TypeOK
  <1>6. Stages' /\ MintsOnTip'
    BY <1>1 DEF SyncInv, Stages, MintsOnTip
  <1>7. ASSUME Good' PROVE Beginning' /\ SharedIsTip' /\ Delivery'
    <2>1. Good
      BY <1>1, <1>7 DEF Good, Running
    <2>2. Beginning' /\ SharedIsTip'
      BY <1>1, <2>1 DEF SyncInv, Beginning, SharedIsTip
    <2>3. PICK a \in Nat, r \in Nat : Placed(a, r)
      BY <2>1 DEF SyncInv, Delivery
    <2>4. /\ Head(channel) = NewBlock(At(split, r)) /\ r + 1 <= announced
          /\ Arriving(split, announced, r + 1, channel')
      BY <1>2, <1>3, <2>3, ArrivingAfterNew DEF Placed
    <2>5. b = At(split, r)
      BY <2>4 DEF b, NewBlock
    <2>6. Fetching(a) => Fetching(a)'
      <3>1. served' \in Nat /\ served <= served'
        BY <1>1, <1>3, StartupSyncAssumption DEF TypeOK
      <3> SUFFICES ASSUME Fetching(a) PROVE Fetching(a)'
        OBVIOUS
      <3>2. /\ NoRequest => NoRequest'
            /\ OneRequest(a) => OneRequest(a)'
        BY <1>1, <1>2, <1>3, RequestAfterNew
      <3> QED BY <1>1, <1>3, <3>1, <3>2, FetchingKept
    <2>7. CASE stage = "ended"
      <3>1. state = "synchronized"
        BY <1>2, <1>3, <2>7 DEF SyncInv, Stages, TypeOK, Running
      <3>2. slots' = slots \cup {b}
        BY <1>2, <3>1
      <3>3. \A i : Had(i) => Had(i)'
        BY <1>1, <3>2 DEF Had
      <3>4. Had(r)'
        BY <1>1, <2>5, <3>2 DEF Had
      <3>5. 0..(r + 1 - 1) = (0..(r - 1)) \cup {r}
        OBVIOUS
      <3>6. \A i \in 0..(r + 1 - 1) : Had(i)'
        BY <2>3, <2>7, <3>3, <3>4, <3>5 DEF Placed
      <3>7. Placed(a, r + 1)'
        BY <1>1, <2>4, <2>7, <3>6 DEF Placed
      <3> QED BY <2>2, <3>7 DEF Delivery
    <2>8. CASE stage # "ended"
      <3>1. state = "synchronizing"
        BY <1>2, <1>3, <2>8 DEF SyncInv, Stages, TypeOK, Running
      <3>2. blockQueue' = Append(blockQueue, b) /\ blockQueue \in Seq(Blocks)
        BY <1>2, <1>3, <3>1 DEF TypeOK
      <3>3. RunFrom(split, a, blockQueue) /\ r = a + Len(blockQueue)
        BY <2>3, <2>8 DEF Placed, Queued
      <3>4. RunFrom(split, a, blockQueue') /\ Len(blockQueue') = Len(blockQueue) + 1
        BY <1>4, <2>5, <3>2, <3>3, RunAppend
      <3>5. Queued(a, r + 1)'
        BY <1>1, <3>2, <3>3, <3>4 DEF Queued
      <3>6. Placed(a, r + 1)'
        BY <1>1, <2>3, <2>4, <2>6, <2>8, <3>5 DEF Placed
      <3> QED BY <2>2, <3>6 DEF Delivery
    <2> QED BY <2>7, <2>8
  <1> QED BY <1>5, <1>6, <1>7 DEF SyncInv

\* A block of the answer is executed: the rest starts one index later.
LEMMA ExecuteBlockInv == SyncInv /\ ExecuteBlock => SyncInv'
  <1> SUFFICES ASSUME SyncInv, ExecuteBlock PROVE SyncInv'
    OBVIOUS
  <1>1. /\ UNCHANGED own /\ UNCHANGED split /\ UNCHANGED early /\ UNCHANGED announced
        /\ UNCHANGED served /\ UNCHANGED peerSynced /\ UNCHANGED asked /\ UNCHANGED stage
        /\ UNCHANGED state /\ UNCHANGED clean /\ UNCHANGED channel /\ UNCHANGED cursor
        /\ UNCHANGED full /\ UNCHANGED blockQueue /\ UNCHANGED slots /\ UNCHANGED fixed
    BY DEF ExecuteBlock, fixed, peer, node
  <1>2. /\ stage = "executing" /\ batch # << >> /\ Process(Head(batch)) /\ batch' = Tail(batch)
    BY DEF ExecuteBlock
  <1>3. TypeOK /\ batch \in Seq(Blocks) /\ length \in Nat /\ early \in Nat /\ cursor \in Nat
    BY StartupSyncAssumption DEF SyncInv, TypeOK
  <1>4. Head(batch) \in Blocks /\ batch' \in Seq(Blocks)
    BY <1>2, <1>3
  <1>5. /\ length' \in 0..MaxLen /\ tipIndex' \in Nat
        /\ stored' \in SUBSET Blocks /\ shared' \in BOOLEAN
        /\ MintsOnTip' /\ (shared' => shared)
    BY <1>1, <1>2, <1>3, <1>4, ProcessTypes DEF SyncInv
  <1>6. TypeOK'
    BY <1>1, <1>3, <1>4, <1>5 DEF TypeOK
  <1>7. Stages'
    BY <1>1, <1>2, <1>5 DEF SyncInv, Stages
  <1>8. ASSUME Good' PROVE Beginning' /\ SharedIsTip' /\ Delivery'
    <2>1. Good /\ split = own /\ Beginning /\ SharedIsTip
      BY <1>1, <1>8 DEF Good, Running, SyncInv
    <2>2. PICK a \in Nat, r \in Nat : Placed(a, r)
      BY <2>1 DEF SyncInv, Delivery
    <2>3. /\ NoRequest /\ (early > 0 => a = early) /\ Reaches(early, served, a)
      BY <1>2, <2>2 DEF Placed, Fetching
    <2>4. PICK c \in Nat :
            /\ c <= length
            /\ RunFrom(split, c, batch)
            /\ full => c + Len(batch) = cursor + Page
            /\ ~full => Reaches(early, c + Len(batch), a)
      BY <1>2, <2>2 DEF Placed, Fetching
    <2>5. /\ Head(batch) = At(split, c) /\ RunFrom(split, c + 1, batch')
          /\ Len(batch') = Len(batch) - 1
      BY <1>2, <1>3, <2>4, RunTail
    <2>6. /\ Beginning'
          /\ \/ c = length /\ length' = c + 1 /\ ~shared'
             \/ c # length /\ length' = length /\ shared' = shared /\ tipIndex' = tipIndex
      BY <1>1, <1>2, <1>3, <1>4, <2>1, <2>5, ProcessNext
    <2>7. SharedIsTip'
      BY <1>1, <2>1, <2>6 DEF SharedIsTip
    <2>8. c + 1 <= length' /\ length <= length'
      BY <1>3, <2>4, <2>6
    <2>9. Len(batch) \in Nat /\ c + Len(batch) = (c + 1) + Len(batch')
      BY <1>3, <2>5
    <2>10. \E d \in Nat :
             /\ d <= length'
             /\ RunFrom(split', d, batch')
             /\ full' => d + Len(batch') = cursor' + Page
             /\ ~full' => Reaches(early', d + Len(batch'), a)
      <3>1. c + 1 \in Nat
        OBVIOUS
      <3>2. full' => (c + 1) + Len(batch') = cursor' + Page
        BY <1>1, <2>4, <2>9
      <3>3. ~full' => Reaches(early', (c + 1) + Len(batch'), a)
        BY <1>1, <2>4, <2>9
      <3>4. c + 1 <= length' /\ RunFrom(split', c + 1, batch')
        BY <1>1, <2>5, <2>8
      <3> QED BY <3>1, <3>2, <3>3, <3>4
    <2>11. NoRequest'
      BY <1>1, <2>3 DEF NoRequest
    <2>12. Fetching(a)'
      BY <1>1, <1>2, <2>3, <2>10, <2>11 DEF Fetching
    <2>13. Queued(a, r) => Queued(a, r)'
      BY <1>1 DEF Queued
    <2>14. Placed(a, r)'
      BY <1>1, <1>2, <2>2, <2>12, <2>13 DEF Placed
    <2> QED BY <2>6, <2>7, <2>14 DEF Delivery
  <1> QED BY <1>5, <1>6, <1>7, <1>8 DEF SyncInv

\* The page is executed.  A full one ended where the next begins, below the end of the
\* chain: iadd does not find the index of the latest block.
LEMMA NextPageInv == SyncInv /\ NextPage => SyncInv'
  <1> SUFFICES ASSUME SyncInv, NextPage PROVE SyncInv'
    OBVIOUS
  <1>1. /\ UNCHANGED own /\ UNCHANGED split /\ UNCHANGED early /\ UNCHANGED announced
        /\ UNCHANGED served /\ UNCHANGED peerSynced /\ UNCHANGED channel /\ UNCHANGED state
        /\ UNCHANGED clean /\ UNCHANGED length /\ UNCHANGED stored /\ UNCHANGED shared
        /\ UNCHANGED batch /\ UNCHANGED full /\ UNCHANGED blockQueue /\ UNCHANGED slots
    BY DEF NextPage, fixed, peer
  <1>2. /\ stage = "executing" /\ batch = << >> /\ Running
        /\ \/ /\ full /\ stage' = "asking" /\ cursor' = cursor + Page
              /\ tipIndex' = IF shared THEN cursor + Page ELSE tipIndex
              /\ asked' = Append(asked, cursor + Page)
           \/ /\ ~full /\ stage' = "draining"
              /\ UNCHANGED cursor /\ UNCHANGED tipIndex /\ UNCHANGED asked
    BY DEF NextPage, NextCursor
  <1>3. /\ TypeOK /\ length \in Nat /\ early \in Nat /\ cursor \in Nat /\ Page \in Nat \ {0, 1}
        /\ asked \in Seq(Nat) /\ tipIndex \in Nat /\ clean
    BY <1>2, StartupSyncAssumption DEF SyncInv, TypeOK, Stages
  <1>4. TypeOK'
    <2>1. cursor' \in Nat /\ tipIndex' \in Nat /\ asked' \in Seq(Nat)
      <3>1. cursor + Page \in Nat
        BY <1>3
      <3>2. Append(asked, cursor + Page) \in Seq(Nat)
        BY <1>3, <3>1
      <3> QED BY <1>2, <1>3, <3>1, <3>2
    <2>2. stage' \in {"asking", "draining"}
      BY <1>2
    <2> QED BY <1>1, <1>3, <2>1, <2>2 DEF TypeOK
  <1>5. Stages'
    BY <1>1, <1>2 DEF SyncInv, Stages
  <1>6. ASSUME split = own PROVE MintsOnTip' /\ Beginning' /\ SharedIsTip' /\ Delivery'
    <2>1. Good /\ Beginning /\ SharedIsTip
      BY <1>2, <1>3, <1>6 DEF Good, SyncInv
    <2>2. PICK a \in Nat, r \in Nat : Placed(a, r)
      BY <2>1 DEF SyncInv, Delivery
    <2>3. /\ NoRequest /\ (early > 0 => a = early) /\ Reaches(early, served, a)
      BY <1>2, <2>2 DEF Placed, Fetching
    <2>4. PICK c \in Nat :
            /\ c <= length
            /\ full => c + Len(batch) = cursor + Page
            /\ ~full => Reaches(early, c + Len(batch), a)
      BY <1>2, <2>2 DEF Placed, Fetching
    <2>5. Len(batch) = 0 /\ c + Len(batch) = c
      BY <1>2
    <2>6. Beginning'
      BY <1>1, <2>1 DEF Beginning
    <2>7. Queued(a, r)'
      BY <1>1, <1>2, <2>2 DEF Placed, Queued
    <2>8. CASE full
      <3>1. cursor + Page <= length
        BY <2>4, <2>5, <2>8
      <3>2. ~shared
        BY <1>3, <2>1, <3>1 DEF SharedIsTip
      <3>3. /\ stage' = "asking" /\ cursor' = cursor + Page /\ UNCHANGED tipIndex
            /\ asked' = Append(asked, cursor + Page)
        BY <1>2, <2>8, <3>2
      <3>4. MintsOnTip' /\ SharedIsTip'
        BY <1>1, <3>2, <3>3 DEF SyncInv, MintsOnTip, SharedIsTip
      <3>5. Len(asked') = 1 /\ \A k \in 1..Len(asked') : asked'[k] = cursor + Page
        BY <2>3, <3>3 DEF NoRequest
      <3>6. OneRequest(a)'
        BY <1>1, <2>3, <3>3, <3>5 DEF NoRequest, OneRequest
      <3>7. Fetching(a)'
        BY <1>1, <2>3, <3>1, <3>3, <3>6 DEF Fetching
      <3>8. Placed(a, r)'
        BY <1>1, <1>2, <2>2, <2>7, <3>3, <3>7 DEF Placed
      <3> QED BY <2>6, <3>4, <3>8 DEF Delivery
    <2>9. CASE ~full
      <3>1. stage' = "draining" /\ UNCHANGED cursor /\ UNCHANGED tipIndex
        BY <1>2, <2>9
      <3>2. MintsOnTip' /\ SharedIsTip'
        BY <1>1, <2>1, <3>1 DEF SyncInv, MintsOnTip, SharedIsTip
      <3>3. Reaches(early, length, a)
        BY <1>3, <2>3, <2>4, <2>5, <2>9, ReachesMore
      <3>4. Placed(a, r)'
        BY <1>1, <1>2, <2>2, <2>7, <3>1, <3>3 DEF Placed
      <3> QED BY <2>6, <3>2, <3>4 DEF Delivery
    <2> QED BY <2>8, <2>9
  <1>7. MintsOnTip'
    BY <1>1, <1>6 DEF MintsOnTip
  <1>8. ASSUME Good' PROVE Beginning' /\ SharedIsTip' /\ Delivery'
    BY <1>1, <1>6, <1>8 DEF Good
  <1> QED BY <1>4, <1>5, <1>7, <1>8 DEF SyncInv

\* A block of the queue is executed.
LEMMA DrainInv == SyncInv /\ Drain => SyncInv'
  <1> SUFFICES ASSUME SyncInv, Drain PROVE SyncInv'
    OBVIOUS
  <1>1. /\ UNCHANGED own /\ UNCHANGED split /\ UNCHANGED early /\ UNCHANGED announced
        /\ UNCHANGED served /\ UNCHANGED peerSynced /\ UNCHANGED asked /\ UNCHANGED stage
        /\ UNCHANGED state /\ UNCHANGED clean /\ UNCHANGED channel /\ UNCHANGED cursor
        /\ UNCHANGED full /\ UNCHANGED batch /\ UNCHANGED slots /\ UNCHANGED fixed
    BY DEF Drain, fixed, peer, node
  <1>2. /\ stage = "draining" /\ blockQueue # << >> /\ Process(Head(blockQueue))
        /\ blockQueue' = Tail(blockQueue)
    BY DEF Drain
  <1>3. /\ TypeOK /\ blockQueue \in Seq(Blocks) /\ length \in Nat /\ early \in Nat /\ cursor \in Nat
    BY StartupSyncAssumption DEF SyncInv, TypeOK
  <1>4. Head(blockQueue) \in Blocks /\ blockQueue' \in Seq(Blocks)
    BY <1>2, <1>3
  <1>5. /\ length' \in 0..MaxLen /\ tipIndex' \in Nat
        /\ stored' \in SUBSET Blocks /\ shared' \in BOOLEAN
        /\ MintsOnTip' /\ (shared' => shared)
    BY <1>1, <1>2, <1>3, <1>4, ProcessTypes DEF SyncInv
  <1>6. TypeOK'
    BY <1>1, <1>3, <1>4, <1>5 DEF TypeOK
  <1>7. Stages'
    BY <1>1, <1>2, <1>5 DEF SyncInv, Stages
  <1>8. ASSUME Good' PROVE Beginning' /\ SharedIsTip' /\ Delivery'
    <2>1. Good /\ split = own /\ Beginning /\ SharedIsTip
      BY <1>1, <1>8 DEF Good, Running, SyncInv
    <2>2. PICK a \in Nat, r \in Nat : Placed(a, r)
      BY <2>1 DEF SyncInv, Delivery
    <2>3. /\ RunFrom(split, a, blockQueue) /\ r = a + Len(blockQueue)
          /\ Reaches(early, length, a)
      BY <1>2, <2>2 DEF Placed, Queued
    <2>4. /\ Head(blockQueue) = At(split, a) /\ RunFrom(split, a + 1, blockQueue')
          /\ Len(blockQueue') = Len(blockQueue) - 1
      BY <1>2, <1>3, <2>3, RunTail
    <2>5. /\ Beginning'
          /\ \/ a = length /\ length' = a + 1 /\ ~shared'
             \/ a # length /\ length' = length /\ shared' = shared /\ tipIndex' = tipIndex
      BY <1>1, <1>2, <1>3, <1>4, <2>1, <2>4, ProcessNext
    <2>6. SharedIsTip'
      BY <1>1, <2>1, <2>5 DEF SharedIsTip
    <2>7. Reaches(early, length', a + 1)
      BY <1>3, <2>3, <2>5 DEF Reaches
    <2>8. Len(blockQueue) \in Nat /\ r = (a + 1) + Len(blockQueue')
      BY <1>3, <2>3, <2>4
    <2>9. Queued(a + 1, r)'
      BY <1>1, <2>4, <2>8 DEF Queued
    <2>10. Placed(a + 1, r)'
      BY <1>1, <1>2, <2>2, <2>7, <2>9 DEF Placed
    <2> QED BY <2>5, <2>6, <2>10 DEF Delivery
  <1> QED BY <1>5, <1>6, <1>7, <1>8 DEF SyncInv

\* The queue is empty: what was received is stored, and the rest is on its way.
LEMMA EndSyncInv == SyncInv /\ EndSync => SyncInv'
  <1> SUFFICES ASSUME SyncInv, EndSync PROVE SyncInv'
    OBVIOUS
  <1>1. /\ UNCHANGED own /\ UNCHANGED split /\ UNCHANGED early /\ UNCHANGED announced
        /\ UNCHANGED served /\ UNCHANGED peerSynced /\ UNCHANGED asked /\ UNCHANGED channel
        /\ UNCHANGED clean /\ UNCHANGED length /\ UNCHANGED tipIndex /\ UNCHANGED stored
        /\ UNCHANGED cursor /\ UNCHANGED shared /\ UNCHANGED batch /\ UNCHANGED full
        /\ UNCHANGED blockQueue /\ UNCHANGED slots
    BY DEF EndSync, fixed, peer, ledger, paging
  <1>2. /\ stage = "draining" /\ blockQueue = << >> /\ stage' = "ended"
        /\ state' = "synchronized" /\ Running
    BY DEF EndSync
  <1>3. TypeOK /\ length \in Nat /\ early \in Nat
    BY StartupSyncAssumption DEF SyncInv, TypeOK
  <1>4. TypeOK'
    BY <1>1, <1>2, <1>3 DEF TypeOK
  <1>5. Stages' /\ MintsOnTip'
    BY <1>1, <1>2 DEF SyncInv, Stages, MintsOnTip
  <1>6. ASSUME Good' PROVE Beginning' /\ SharedIsTip' /\ Delivery'
    <2>1. Good
      BY <1>1, <1>2, <1>6 DEF Good
    <2>2. Beginning' /\ SharedIsTip'
      BY <1>1, <2>1 DEF SyncInv, Beginning, SharedIsTip
    <2>3. PICK a \in Nat, r \in Nat : Placed(a, r)
      BY <2>1 DEF SyncInv, Delivery
    <2>4. r = a /\ Reaches(early, length, a)
      <3>1. r = a + Len(blockQueue) /\ Reaches(early, length, a)
        BY <1>2, <2>3 DEF Placed, Queued
      <3>2. Len(blockQueue) = 0
        BY <1>2
      <3> QED BY <3>1, <3>2
    <2>5. ASSUME NEW i \in 0..(r - 1) PROVE Had(i)'
      BY <1>1, <1>3, <2>4 DEF Had, Reaches
    <2>6. Placed(a, r)'
      BY <1>1, <1>2, <2>3, <2>5 DEF Placed
    <2> QED BY <2>2, <2>6 DEF Delivery
  <1> QED BY <1>4, <1>5, <1>6 DEF SyncInv

\* Every step keeps the invariant.
LEMMA NextInv == SyncInv /\ [Next]_vars => SyncInv'
  <1> SUFFICES ASSUME SyncInv, [Next]_vars PROVE SyncInv'
    OBVIOUS
  <1>1. CASE Announce \/ Store \/ PeerSyncs \/ GetBlocks
    BY <1>1, AnnounceInv, StoreInv, GetBlocksInv
  <1>2. CASE StartSync \/ NoPeers \/ ReceiveAnswer \/ RequestTimeout
    BY <1>2, StartSyncInv, NoPeersInv, ReceiveAnswerInv, GiveUpInv
  <1>3. CASE ReceiveNewBlock \/ ReceivePromptBlock
    BY <1>3, ReceiveNewBlockInv, GiveUpInv
  <1>4. CASE ExecuteBlock \/ NextPage \/ Drain \/ ExecutionThrows \/ EndSync
    BY <1>4, ExecuteBlockInv, NextPageInv, DrainInv, ExecutionThrowsInv, EndSyncInv
  <1>5. CASE UNCHANGED vars
    <2>1. /\ UNCHANGED own /\ UNCHANGED split /\ UNCHANGED early /\ UNCHANGED announced
          /\ UNCHANGED served /\ UNCHANGED peerSynced /\ UNCHANGED asked /\ UNCHANGED channel
          /\ UNCHANGED stage /\ UNCHANGED state /\ UNCHANGED clean
          /\ UNCHANGED length /\ UNCHANGED tipIndex /\ UNCHANGED stored
          /\ UNCHANGED cursor /\ UNCHANGED shared /\ UNCHANGED batch /\ UNCHANGED full
          /\ UNCHANGED blockQueue /\ UNCHANGED slots
      BY <1>5 DEF vars, fixed, peer, node, ledger, paging
    <2>2. TypeOK' /\ Stages' /\ MintsOnTip'
      BY <2>1 DEF SyncInv, TypeOK, Stages, MintsOnTip
    <2>3. ASSUME Good' PROVE Beginning' /\ SharedIsTip' /\ Delivery'
      <3>1. Good
        BY <2>1, <2>3 DEF Good, Running
      <3>2. Beginning' /\ SharedIsTip'
        BY <2>1, <3>1 DEF SyncInv, Beginning, SharedIsTip
      <3>3. PICK a \in Nat, r \in Nat : Placed(a, r)
        BY <3>1 DEF SyncInv, Delivery
      <3>4. Placed(a, r)'
        BY <2>1, <3>3 DEF Placed, Queued, Fetching, Had, NoRequest, OneRequest
      <3> QED BY <3>2, <3>4 DEF Delivery
    <2> QED BY <2>2, <2>3 DEF SyncInv
  <1> QED BY <1>1, <1>2, <1>3, <1>4, <1>5 DEF Next

\* The inductive invariant holds in every state.
THEOREM SyncInvariant == Spec => []SyncInv
  <1> QED BY InitInv, NextInv, PTL DEF Spec

-------------------------------------------------------------------------------
(***************************************************************************)
(* The properties.                                                         *)
(***************************************************************************)

\* Types of the two nodes, the messages between them and the queue.
THEOREM SyncTypes == Spec => []TypeOK
  <1>1. SyncInv => TypeOK
    BY DEF SyncInv
  <1> QED BY <1>1, SyncInvariant, PTL

\* The minter builds on the end of the main chain, though the paging adds to an index it
\* shares with the chain state (currentBlockIndex.iadd): a full page that starts at the
\* latest block brings a later one, and the chain state has another index object by then.
THEOREM MinterHasTip == Spec => []MintsOnTip
  <1>1. SyncInv => MintsOnTip
    BY DEF SyncInv
  <1> QED BY <1>1, SyncInvariant, PTL

\* A synchronisation in which nothing failed leaves no block of the peer behind (syncChain,
\* executeBlocks, blockQueue), for chains and pages of any length and any order of the
\* broadcasts and the answers.
THEOREM NothingIsMissed == Spec => []NothingMissed
  <1>1. SyncInv => NothingMissed
    <2> SUFFICES ASSUME SyncInv, state = "synchronized", clean, split = own,
                        NEW i \in 0..(announced - 1)
                 PROVE  \/ Theirs(i) \in stored \cup slots
                        \/ Travels(Theirs(i))
                        \/ early > 0 /\ i >= early - 1 /\ Theirs(early - 1) \notin stored
      BY DEF NothingMissed
    <2>1. Good /\ stage = "ended" /\ Beginning
      BY DEF Good, Running, SyncInv, Stages
    <2>2. PICK a \in Nat, r \in Nat : Placed(a, r)
      BY <2>1 DEF SyncInv, Delivery
    <2>3. i \in Nat /\ length \in Nat /\ early \in Nat /\ Theirs(i) = At(split, i)
      BY SameBlocks, StartupSyncAssumption DEF SyncInv, TypeOK
    <2>4. CASE i < r
      <3>1. Had(i)
        BY <2>1, <2>2, <2>3, <2>4 DEF Placed
      <3>2. i < length => Theirs(i) \in stored
        BY <2>1, <2>3 DEF Beginning
      <3>3. ASSUME early > 0, length = early - 1 PROVE Theirs(early - 1) \notin stored
        <4> SUFFICES ASSUME Theirs(early - 1) \in stored PROVE FALSE
          OBVIOUS
        <4>1. early - 1 \in Nat /\ Theirs(early - 1) = At(split, early - 1)
          BY <2>3, <3>3, SameBlocks
        <4>2. PICK j \in 0..(length - 1) : At(split, early - 1) = At(split, j)
          BY <2>1, <4>1 DEF Beginning
        <4>3. early - 1 = j
          BY <2>3, <4>1, <4>2, AtOnce
        <4> QED BY <2>3, <3>3, <4>3
      <3> QED BY <2>3, <3>1, <3>2, <3>3 DEF Had
    <2>5. CASE ~(i < r)
      <3>1. \E k \in 1..Len(channel) : channel[k] = NewBlock(At(split, i))
        BY <2>2, <2>5 DEF Placed, Arriving
      <3>2. DOMAIN channel = 1..Len(channel)
        BY DEF SyncInv, TypeOK
      <3> QED BY <2>3, <3>1, <3>2 DEF Travels
    <2> QED BY <2>4, <2>5
  <1> QED BY <1>1, SyncInvariant, PTL
===============================================================================
