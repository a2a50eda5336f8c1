-------------------------- MODULE SlotPipelineProofs --------------------------
(***************************************************************************)
(* Proofs about the slots and the past block queue, for any number of      *)
(* slots, any messages, any faults and any slots of the node's own.        *)
(***************************************************************************)
EXTENDS SlotPipelineProps, SequenceTheorems, TLAPS

Phase(s) == slot[s].phase

\* The items q of the past block queue are served in their order: those after the
\* n-th wait and those before it are resolved.
ServedTo(n, q) ==
    /\ \A i \in DOMAIN q : q[i].at = "waiting" <=> i > n
    /\ \A i \in DOMAIN q : i < n => q[i].at = "resolved"

\* Nothing is left to do when processAll does not run.
AllResolved(q) == \A i \in DOMAIN q : q[i].at = "resolved"

QueueInOrder ==
    /\ \E n \in 0..Len(items) : ServedTo(n, items)
    /\ processing \/ AllResolved(items)

\* The cron job creates the slot after the current one, once.
CreatedInTime ==
    /\ \A s \in Slots : Phase(s) # "none" => s <= now + 1
    /\ cronDue => node = "up" /\ \A s \in Slots : Phase(s) # "none" => s <= now

\* A slot that is held was created; while the node is up the current slot and the
\* next one are held if they were.  So a slot that was created on top of nothing is
\* one whose predecessor the cron job missed.
HeldCreated ==
    /\ \A s \in held : Phase(s) # "none"
    /\ node = "up" => \A s \in Slots : (Phase(s) # "none" /\ s >= now) => s \in held
    /\ \A s \in Slots : slot[s].dep => s - 1 \in Slots
    /\ \A s \in Slots : (Phase(s) # "none" /\ ~slot[s].dep /\ s - 1 \in Slots) => Phase(s - 1) = "none"

\* Slot.create passes its awaits when all the slots before are finished, back to
\* the last one that was never created.
AfterTheOthers ==
    \A s, t \in Slots :
        (s < t /\ Phase(t) \in {"selecting", "built"} /\ \A u \in s..t : Phase(u) # "none") => s \in finished

\* What the fields of slot s say of each other, of its two checkpoints and of the
\* past blocks: the timer and the block exclude each other, a slot that is finished
\* is done with its block, and nothing is verified too early.
SlotConsistent(s) ==
    /\ Phase(s) # "built" =>
          /\ slot[s].start = "off" /\ slot[s].timer = "off" /\ slot[s].proc = "none"
          /\ s \notin started /\ s \notin finished
    /\ Phase(s) = "built" =>
          slot[s].timer # "off" /\ slot[s].start # "off" /\ slot[s].due >= s
    /\ slot[s].block = NoBlock <=> slot[s].proc = "none"
    /\ slot[s].block # NoBlock => slot[s].timer = "cancelled"
    /\ slot[s].timer = "fired" => s \in finished
    /\ slot[s].start = "fired" => now >= s
    /\ node = "up" =>
          /\ s \in started => slot[s].start = "fired"
          /\ s \in finished => slot[s].proc \in {"none", "settled"}
          /\ slot[s].proc \in {"verify", "execute", "settled"} => slot[s].start = "fired"
    /\ slot[s].proc \in {"start", "verify", "execute", "settled"} =>
          \A i \in 1..slot[s].waitFor : At(i, "resolved")

SlotsConsistent == \A s \in Slots : SlotConsistent(s)

\* A message that waits for a slot, is checked or is handed over has one, and in the
\* last two cases the slot exists.
RecvKnown ==
    \A m \in Msgs :
        /\ recv[m] \in {"slot", "check", "process"} => SlotOf[BlockOf[m]] \in Slots
        /\ recv[m] \in {"check", "process"} => Phase(SlotOf[BlockOf[m]]) = "built"

\* POS.stop waits for slots only when the node is told to stop.
StopsWhenTold == node = "up" => stopAt = 0 /\ stopWait = {}

\* The inductive invariant behind the safety properties of SlotPipelineProps.
PipelineInv ==
    /\ TypeOK /\ QueueInOrder /\ CreatedInTime /\ HeldCreated /\ AfterTheOthers
    /\ SlotsConsistent /\ RecvKnown /\ StopsWhenTold

-------------------------------------------------------------------------------
(***************************************************************************)
(* The past block queue.                                                   *)
(***************************************************************************)

\* What the queue keeps when it takes a step: what is resolved stays so.
QueueKept ==
    /\ QueueTypeOK' /\ QueueInOrder'
    /\ \A i \in Nat : At(i, "resolved") => At(i, "resolved")'

Points == {"waiting", "resolved"} \cup InService

Moved(q, i, p) == [q EXCEPT ![i].at = p]

\* An item that goes on stays an item, and the others stay what they are.
LEMMA ItemGoesOn ==
    ASSUME NEW q \in Seq(Items), NEW i \in 1..Len(q), NEW p \in Points
    PROVE  /\ Moved(q, i, p) \in Seq(Items)
           /\ Len(Moved(q, i, p)) = Len(q)
           /\ DOMAIN Moved(q, i, p) = 1..Len(q)
           /\ Moved(q, i, p)[i].at = p
           /\ \A j \in 1..Len(q) : j # i => Moved(q, i, p)[j] = q[j]
  <1> DEFINE e == [q[i] EXCEPT !.at = p]
             r == Moved(q, i, p)
  <1>1. q[i] \in Items
    BY ElementOfSeq
  <1>2. e \in Items /\ e.at = p
    BY <1>1 DEF Items, Points
  <1>3. r = [q EXCEPT ![i] = e]
    BY DEF Moved
  <1> HIDE DEF e, r
  <1>4. /\ r \in Seq(Items) /\ Len(r) = Len(q)
        /\ \A j \in 1..Len(q) : r[j] = IF j = i THEN e ELSE q[j]
    BY <1>2, <1>3
  <1>5. DOMAIN r = 1..Len(q)
    BY <1>4, LenProperties
  <1> QED BY <1>2, <1>4, <1>5 DEF r

\* The last item is the back of the queue if there is one that waits.
LEMMA BackIsItem ==
    ASSUME QueueTypeOK, QueueInOrder
    PROVE  Back(items) \in 0..Len(items)
  <1>1. Len(items) \in Nat /\ DOMAIN items = 1..Len(items)
    BY DEF QueueTypeOK
  <1>2. PICK n \in 0..Len(items) : \A i \in DOMAIN items : items[i].at = "waiting" <=> i > n
    BY DEF QueueInOrder, ServedTo
  <1>3. CASE Waiting(items) # {}
    <2>1. Len(items) \in Waiting(items) /\ \A j \in Waiting(items) : j <= Len(items)
      BY <1>1, <1>2, <1>3 DEF Waiting
    <2>2. Back(items) \in Waiting(items)
      BY <1>3, <2>1, Zenon DEF Back
    <2> QED BY <1>1, <2>2 DEF Waiting
  <1>4. CASE Waiting(items) = {}
    BY <1>1, <1>4 DEF Back
  <1> QED BY <1>3, <1>4

\* The first item that waits is the one after those that do not.
LEMMA FirstIsNext ==
    ASSUME NEW q, NEW n \in Nat, NEW l \in Nat, DOMAIN q = 1..l, n < l,
           \A i \in 1..l : q[i].at = "waiting" <=> i > n
    PROVE  First(q) = n + 1
  <1>1. n + 1 \in 1..l /\ \A i \in 1..l : i > n => n + 1 <= i
    OBVIOUS
  <1>2. n + 1 \in Waiting(q) /\ \A j \in Waiting(q) : n + 1 <= j
    BY <1>1 DEF Waiting
  <1>3. First(q) \in Waiting(q) /\ \A j \in Waiting(q) : First(q) <= j
    BY <1>2, Zenon DEF First
  <1>4. First(q) \in 1..l /\ n + 1 <= First(q) /\ First(q) <= n + 1
    BY <1>2, <1>3 DEF Waiting
  <1> HIDE DEF First
  <1> QED BY <1>4

LEMMA EnqueueKept ==
    ASSUME QueueTypeOK, QueueInOrder, NEW b \in NetBlocks, Enqueue(b)
    PROVE  QueueKept
  <1> DEFINE l == Len(items)
             q == Append(items, [block |-> b, at |-> "waiting"])
  <1>1. l \in Nat /\ DOMAIN items = 1..l /\ items \in Seq(Items)
    BY DEF QueueTypeOK
  <1>2. /\ q \in Seq(Items) /\ Len(q) = l + 1 /\ DOMAIN q = 1..(l + 1)
        /\ \A i \in 1..l : q[i] = items[i]
        /\ q[l + 1] = [block |-> b, at |-> "waiting"]
    BY <1>1 DEF Items
  <1>3. processing' = TRUE /\ items' = IF processing THEN q ELSE Dequeued(q)
    BY DEF Enqueue
  <1> HIDE DEF q
  <1>4. CASE processing
    <2>1. items' = q
      BY <1>3, <1>4
    <2>2. PICK n \in 0..l : ServedTo(n, items)
      BY DEF QueueInOrder
    <2>3. ServedTo(n, q)
      BY <1>1, <1>2, <2>2 DEF ServedTo
    <2>4. n \in 0..Len(items')
      BY <1>1, <1>2, <2>1
    <2>5. QueueInOrder'
      BY <1>3, <2>1, <2>3, <2>4 DEF QueueInOrder
    <2> QED BY <1>1, <1>2, <1>3, <2>1, <2>5 DEF QueueKept, QueueTypeOK, At
  <1>5. CASE ~processing
    <2>1. \A i \in 1..l : items[i].at = "resolved"
      BY <1>1, <1>5 DEF QueueInOrder, AllResolved
    <2>2. \A i \in 1..(l + 1) : q[i].at = "waiting" <=> i > l
      BY <1>1, <1>2, <2>1
    <2>3. First(q) = l + 1
      BY <1>1, <1>2, <2>2, FirstIsNext
    <2>4. items' = Moved(q, l + 1, "minter")
      BY <1>3, <1>5, <2>3 DEF Dequeued, Moved
    <2>5. /\ items' \in Seq(Items) /\ Len(items') = l + 1 /\ DOMAIN items' = 1..(l + 1)
          /\ \A i \in 1..l : items'[i] = items[i]
          /\ items'[l + 1].at = "minter"
      <3>1. "minter" \in Points /\ l + 1 \in 1..Len(q)
        BY <1>1, <1>2 DEF Points, InService
      <3>2. /\ items' \in Seq(Items) /\ Len(items') = Len(q) /\ DOMAIN items' = 1..Len(q)
            /\ items'[l + 1].at = "minter"
            /\ \A i \in 1..Len(q) : i # l + 1 => items'[i] = q[i]
        BY <1>2, <2>4, <3>1, ItemGoesOn
      <3>3. \A i \in 1..l : i \in 1..(l + 1) /\ i # l + 1
        BY <1>1
      <3> QED BY <1>2, <3>2, <3>3
    <2>6. ServedTo(l + 1, items')
      BY <1>1, <2>1, <2>5 DEF ServedTo
    <2>7. l + 1 \in 0..Len(items')
      BY <1>1, <2>5
    <2>8. QueueInOrder'
      BY <1>3, <2>6, <2>7 DEF QueueInOrder
    <2> QED BY <1>1, <1>3, <2>5, <2>8 DEF QueueKept, QueueTypeOK, At
  <1> QED BY <1>4, <1>5 DEF QueueTypeOK

LEMMA ProcessAllKept ==
    ASSUME QueueTypeOK, QueueInOrder, ProcessAll
    PROVE  QueueKept
  <1> DEFINE l == Len(items)
  <1>1. l \in Nat /\ DOMAIN items = 1..l /\ items \in Seq(Items) /\ processing
    BY DEF QueueTypeOK, ProcessAll
  <1>2. PICK n \in 0..l : ServedTo(n, items)
    BY DEF QueueInOrder
  <1>3. \A i \in 1..l : i <= n => items[i].at = "resolved"
    <2>1. \A i \in 1..l : items[i] \in Items /\ items[i].at \notin InService
      BY <1>1, ElementOfSeq DEF ProcessAll
    <2> QED BY <1>1, <1>2, <2>1 DEF ServedTo, Items
  <1>4. CASE Waiting(items) # {}
    <2>1. items' = Dequeued(items) /\ processing' = processing
      BY <1>4 DEF ProcessAll
    <2>2. n < l
      BY <1>1, <1>2, <1>4 DEF Waiting, ServedTo
    <2>3. First(items) = n + 1 /\ n + 1 \in 1..l
      <3>1. \A i \in 1..l : items[i].at = "waiting" <=> i > n
        BY <1>1, <1>2 DEF ServedTo
      <3>2. First(items) = n + 1
        BY <1>1, <2>2, <3>1, FirstIsNext
      <3> QED BY <1>1, <2>2, <3>2
    <2>4. items' = Moved(items, n + 1, "minter")
      BY <2>1, <2>3 DEF Dequeued, Moved
    <2>5. /\ items' \in Seq(Items) /\ Len(items') = l /\ DOMAIN items' = 1..l
          /\ \A i \in 1..l : i # n + 1 => items'[i] = items[i]
          /\ items'[n + 1].at = "minter"
      <3>1. "minter" \in Points
        BY DEF Points, InService
      <3> QED BY <1>1, <2>3, <2>4, <3>1, ItemGoesOn
    <2>6. ServedTo(n + 1, items')
      BY <1>1, <1>2, <1>3, <2>1, <2>5 DEF ServedTo
    <2>7. n + 1 \in 0..Len(items')
      BY <1>1, <2>3, <2>5
    <2>8. QueueInOrder'
      BY <1>1, <2>1, <2>6, <2>7 DEF QueueInOrder
    <2>9. \A i \in 1..l : items[i].at = "resolved" => i # n + 1
      BY <1>1, <1>2, <2>3 DEF ServedTo
    <2> QED BY <1>1, <2>1, <2>5, <2>8, <2>9 DEF QueueKept, QueueTypeOK, At
  <1>5. CASE Waiting(items) = {}
    <2>1. items' = items /\ processing' = FALSE
      BY <1>5 DEF ProcessAll
    <2>2. n < l => l \in Waiting(items)
      BY <1>1, <1>2 DEF Waiting, ServedTo
    <2>3. ~(n < l)
      BY <1>5, <2>2
    <2>4. AllResolved(items')
      BY <1>1, <1>3, <2>1, <2>3 DEF AllResolved
    <2>5. QueueInOrder'
      BY <1>2, <2>1, <2>4 DEF QueueInOrder
    <2> QED BY <2>1, <2>5 DEF QueueKept, QueueTypeOK, At
  <1> QED BY <1>4, <1>5

\* An item in service is the one between those that are resolved and those that wait.
LEMMA GotoKept ==
    ASSUME QueueTypeOK, QueueInOrder, NEW i \in DOMAIN items, items[i].at \in InService,
           NEW p \in InService \cup {"resolved"}, Goto(i, p)
    PROVE  QueueKept
  <1> DEFINE l == Len(items)
  <1>1. l \in Nat /\ DOMAIN items = 1..l /\ items \in Seq(Items)
    BY DEF QueueTypeOK
  <1>2. PICK n \in 0..l : ServedTo(n, items)
    BY DEF QueueInOrder
  <1>3. i = n
    BY <1>1, <1>2 DEF InService, ServedTo
  <1>4. processing
    BY DEF QueueInOrder, AllResolved, InService
  <1>5. items' = Moved(items, i, p) /\ processing' = processing
    BY DEF Goto, Moved
  <1>6. /\ items' \in Seq(Items) /\ Len(items') = l /\ DOMAIN items' = 1..l
        /\ \A j \in 1..l : j # i => items'[j] = items[j]
        /\ items'[i].at = p
    <2>1. p \in Points /\ i \in 1..Len(items)
      BY <1>1 DEF Points
    <2> QED BY <1>1, <1>5, <2>1, ItemGoesOn
  <1>7. ServedTo(n, items')
    BY <1>1, <1>2, <1>3, <1>6 DEF ServedTo, InService
  <1>8. QueueInOrder'
    BY <1>1, <1>4, <1>5, <1>6, <1>7 DEF QueueInOrder
  <1> QED BY <1>1, <1>5, <1>6, <1>8 DEF QueueKept, QueueTypeOK, At, InService

-------------------------------------------------------------------------------
(***************************************************************************)
(* What a step leaves as it was.                                           *)
(***************************************************************************)

\* The node does not come up again and the cron job does not become due.
NoRevival == (node' = "up" => node = "up") /\ (cronDue' => cronDue /\ node' = "up") /\ now' = now

\* Which slots there are only depends on phases, dependencies and POS.slots.
LEMMA PhasesKept ==
    ASSUME PipelineInv, NoRevival,
           \A s \in Slots : slot'[s].phase = slot[s].phase /\ slot'[s].dep = slot[s].dep,
           finished \subseteq finished',
           held' \subseteq held, node' = "up" => held' = held
    PROVE  CreatedInTime' /\ HeldCreated' /\ AfterTheOthers'
  <1> USE DEF PipelineInv, NoRevival, Phase
  <1>1. CreatedInTime'
    BY DEF CreatedInTime
  <1>2. held \subseteq Slots /\ \A s \in Slots : \A u \in 1..s : u \in Slots
    BY SlotPipelineAssumption DEF TypeOK, Slots
  <1>3. HeldCreated'
    BY <1>2 DEF HeldCreated
  <1>4. ASSUME NEW s \in Slots, NEW t \in Slots, NEW u \in s..t
        PROVE  u \in Slots
    BY SlotPipelineAssumption DEF Slots
  <1>5. AfterTheOthers'
    BY <1>4 DEF AfterTheOthers
  <1> QED BY <1>1, <1>3, <1>5

\* A step that changes one slot is about that slot only.
LEMMA OthersConsistent ==
    ASSUME PipelineInv, NoRevival, QueueKept, NEW s \in Slots, SlotConsistent(s)',
           \A t \in Slots \ {s} :
               /\ slot'[t] = slot[t]
               /\ t \in started' <=> t \in started
               /\ t \in finished' <=> t \in finished
    PROVE  SlotsConsistent'
  <1> SUFFICES ASSUME NEW t \in Slots, t # s
               PROVE  SlotConsistent(t)'
    BY DEF SlotsConsistent
  <1>1. slot'[t] = slot[t] /\ (t \in started' <=> t \in started) /\ (t \in finished' <=> t \in finished)
    OBVIOUS
  <1>2. slot[t].waitFor \in Nat
    BY DEF PipelineInv, TypeOK, SlotRecord
  <1>3. \A i \in 1..slot[t].waitFor : At(i, "resolved") => At(i, "resolved")'
    BY <1>2 DEF QueueKept
  <1>4. SlotConsistent(t)
    BY DEF PipelineInv, SlotsConsistent
  <1> QED BY <1>1, <1>3, <1>4 DEF SlotConsistent, NoRevival, Phase

\* A step that leaves the slots alone.
LEMMA ObjectsKept ==
    ASSUME PipelineInv, NoRevival, QueueKept, UNCHANGED objects
    PROVE  CreatedInTime' /\ HeldCreated' /\ AfterTheOthers' /\ SlotsConsistent'
  <1> USE DEF objects
  <1>1. CreatedInTime' /\ HeldCreated' /\ AfterTheOthers'
    BY PhasesKept
  <1>2. SlotsConsistent'
    <2> SUFFICES ASSUME NEW t \in Slots
                 PROVE  SlotConsistent(t)'
      BY DEF SlotsConsistent
    <2>1. slot[t].waitFor \in Nat
      BY DEF PipelineInv, TypeOK, SlotRecord
    <2>2. \A i \in 1..slot[t].waitFor : At(i, "resolved") => At(i, "resolved")'
      BY <2>1 DEF QueueKept
    <2>3. SlotConsistent(t)
      BY DEF PipelineInv, SlotsConsistent
    <2> QED BY <2>2, <2>3 DEF SlotConsistent, NoRevival, Phase
  <1> QED BY <1>1, <1>2

LEMMA QueueUnchanged ==
    ASSUME PipelineInv, UNCHANGED queue
    PROVE  QueueKept
  BY DEF PipelineInv, TypeOK, queue, QueueKept, QueueTypeOK, QueueInOrder, At

\* What the rest of the process may do in a step of a slot or of the queue.
EndingOK ==
    /\ NoRevival
    /\ cronDue' \in BOOLEAN
    /\ node' \in {"up", "stopping", "down"}
    /\ stopAt' \in 0..MaxSlot
    /\ stopWait' \subseteq Slots
    /\ StopsWhenTold'

LEMMA EndingUnchanged ==
    ASSUME PipelineInv, UNCHANGED <<time, ending>>
    PROVE  EndingOK
  BY DEF PipelineInv, TypeOK, CreatedInTime, StopsWhenTold, time, ending, EndingOK, NoRevival

LEMMA CurrentSlotType ==
    ASSUME PipelineInv
    PROVE  GetCurrentSlot \in 0..MaxSlot
  BY SlotPipelineAssumption DEF PipelineInv, TypeOK, Slots, GetCurrentSlot, GetSlot

\* gracefulShutdown begins.
LEMMA ShutdownOK ==
    ASSUME PipelineInv, Shutdown, UNCHANGED now
    PROVE  EndingOK /\ node' # "up"
  BY CurrentSlotType
     DEF PipelineInv, TypeOK, StopsWhenTold, Shutdown, EndingOK, NoRevival

\* An exception ends the process or makes it stop, whatever it was doing.
LEMMA ThrowOK ==
    ASSUME PipelineInv, Throw, UNCHANGED now
    PROVE  EndingOK /\ node' # "up"
  <1>1. CASE node = "up"
    BY <1>1, ShutdownOK DEF Throw
  <1>2. CASE node # "up"
    <2>1. node' = "down" /\ UNCHANGED <<cronDue, stopAt, stopWait>>
      BY <1>2 DEF Throw
    <2>2. ~cronDue
      BY <1>2 DEF PipelineInv, CreatedInTime
    <2> QED BY <2>1, <2>2 DEF PipelineInv, TypeOK, StopsWhenTold, EndingOK, NoRevival
  <1> QED BY <1>1, <1>2

\* Messages only end in the step.
ArrivalOK ==
    /\ recv' \in [Msgs -> {"sent", "slot", "check", "process", "done"}]
    /\ asked' \in [Msgs -> 0..MaxSlot]
    /\ RecvKnown'

LEMMA ArrivalUnchanged ==
    ASSUME PipelineInv, UNCHANGED arrival,
           \A s \in Slots : slot'[s].phase = slot[s].phase
    PROVE  ArrivalOK
  BY DEF PipelineInv, TypeOK, RecvKnown, arrival, ArrivalOK, Phase

\* A step that leaves the slots alone.
LEMMA ObjectsInv ==
    ASSUME PipelineInv, EndingOK, ArrivalOK, QueueKept, UNCHANGED objects
    PROVE  PipelineInv'
  <1>1. CreatedInTime' /\ HeldCreated' /\ AfterTheOthers' /\ SlotsConsistent'
    BY ObjectsKept DEF EndingOK
  <1>2. TypeOK'
    BY DEF PipelineInv, TypeOK, EndingOK, ArrivalOK, QueueKept, objects, NoRevival
  <1> QED BY <1>1, <1>2 DEF PipelineInv, EndingOK, ArrivalOK, QueueKept

\* A step in the life of slot s.
LEMMA SlotInv ==
    ASSUME PipelineInv, EndingOK, ArrivalOK, UNCHANGED queue,
           NEW s \in Slots, NEW r \in SlotRecord, slot' = [slot EXCEPT ![s] = r],
           r.phase = slot[s].phase, r.dep = slot[s].dep,
           started' = started \/ started' = started \cup {s},
           finished' = finished \/ finished' = finished \cup {s},
           held' \subseteq held, node' = "up" => held' = held,
           SlotConsistent(s)'
    PROVE  PipelineInv'
  <1>1. QueueKept
    BY QueueUnchanged
  <1>2. slot \in [Slots -> SlotRecord] /\ slot' \in [Slots -> SlotRecord]
    BY DEF PipelineInv, TypeOK
  <1>3. \A t \in Slots : slot'[t] = IF t = s THEN r ELSE slot[t]
    BY <1>2
  <1>4. CreatedInTime' /\ HeldCreated' /\ AfterTheOthers'
    BY <1>3, PhasesKept DEF EndingOK
  <1>5. SlotsConsistent'
    BY <1>1, <1>3, OthersConsistent DEF EndingOK
  <1>6. TypeOK'
    BY <1>1, <1>2 DEF PipelineInv, TypeOK, EndingOK, ArrivalOK, QueueKept, NoRevival
  <1> QED BY <1>1, <1>4, <1>5, <1>6 DEF PipelineInv, EndingOK, ArrivalOK, QueueKept

-------------------------------------------------------------------------------
(***************************************************************************)
(* The steps.                                                              *)
(***************************************************************************)

LEMMA InitInv == Init => PipelineInv
  <1> SUFFICES ASSUME Init PROVE PipelineInv
    OBVIOUS
  <1> USE SlotPipelineAssumption DEF Init, QueueInit
  <1>1. TypeOK
    <2>1. items \in Seq(Items) /\ processing \in BOOLEAN
      <3>1. items = << >> /\ processing = FALSE
        OBVIOUS
      <3> HIDE DEF Init
      <3> QED BY <3>1, EmptySeq
    <2>2. slot \in [Slots -> SlotRecord]
      BY DEF SlotRecord, MaxNow
    <2>3. now \in 0..MaxNow /\ cronDue \in BOOLEAN /\ 0 \in 0..MaxSlot
      BY DEF MaxNow
    <2>4. recv \in [Msgs -> {"sent", "slot", "check", "process", "done"}]
      OBVIOUS
    <2>5. asked \in [Msgs -> 0..MaxSlot]
      BY <2>3
    <2>6. /\ held \subseteq Slots /\ started \subseteq Slots /\ finished \subseteq Slots
          /\ stopWait \subseteq Slots /\ stopAt \in 0..MaxSlot /\ node \in {"up", "stopping", "down"}
      BY <2>3
    <2> HIDE DEF Init
    <2> QED BY <2>1, <2>2, <2>3, <2>4, <2>5, <2>6 DEF TypeOK, QueueTypeOK
  <1>2. QueueInOrder
    BY DEF QueueInOrder, ServedTo, AllResolved
  <1>3. CreatedInTime /\ HeldCreated /\ AfterTheOthers
    BY DEF CreatedInTime, HeldCreated, AfterTheOthers, Phase
  <1>4. SlotsConsistent
    BY DEF SlotsConsistent, SlotConsistent, Phase
  <1>5. RecvKnown /\ StopsWhenTold
    BY DEF RecvKnown, StopsWhenTold
  <1> QED BY <1>1, <1>2, <1>3, <1>4, <1>5 DEF PipelineInv

LEMMA SigtermInv ==
    ASSUME PipelineInv, Sigterm
    PROVE  PipelineInv'
  <1>1. UNCHANGED queue /\ UNCHANGED objects /\ UNCHANGED arrival
    BY DEF Sigterm
  <1>2. EndingOK
    BY ShutdownOK DEF Sigterm
  <1>3. ArrivalOK
    BY <1>1, ArrivalUnchanged DEF objects
  <1> QED BY <1>1, <1>2, <1>3, QueueUnchanged, ObjectsInv

LEMMA StopCurrentInv ==
    ASSUME PipelineInv, StopCurrent
    PROVE  PipelineInv'
  <1>1. UNCHANGED queue /\ UNCHANGED time /\ UNCHANGED objects /\ UNCHANGED arrival /\ node' = node
    BY DEF StopCurrent
  <1>2. node # "up" /\ stopAt' = 0 /\ stopWait' \subseteq Slots
    BY DEF StopCurrent, PipelineInv, TypeOK, StopsWhenTold
  <1>3. EndingOK
    BY <1>1, <1>2, SlotPipelineAssumption
       DEF PipelineInv, TypeOK, CreatedInTime, StopsWhenTold, time, EndingOK, NoRevival
  <1>4. ArrivalOK
    BY <1>1, ArrivalUnchanged DEF objects
  <1> QED BY <1>1, <1>3, <1>4, QueueUnchanged, ObjectsInv

LEMMA ExitInv ==
    ASSUME PipelineInv, Exit
    PROVE  PipelineInv'
  <1>1. UNCHANGED queue /\ UNCHANGED time /\ UNCHANGED objects /\ UNCHANGED arrival
        /\ node' = "down" /\ node = "stopping" /\ UNCHANGED <<stopAt, stopWait>>
    BY DEF Exit
  <1>2. EndingOK
    BY <1>1 DEF PipelineInv, TypeOK, CreatedInTime, StopsWhenTold, time, EndingOK, NoRevival
  <1>3. ArrivalOK
    BY <1>1, ArrivalUnchanged DEF objects
  <1> QED BY <1>1, <1>2, <1>3, QueueUnchanged, ObjectsInv

LEMMA TickInv ==
    ASSUME PipelineInv, Tick
    PROVE  PipelineInv'
  <1>1. UNCHANGED queue /\ UNCHANGED objects /\ UNCHANGED arrival /\ UNCHANGED ending
        /\ now' = now + 1 /\ now < MaxNow /\ (cronDue' <=> node = "up") /\ cronDue' \in BOOLEAN
    BY DEF Tick
  <1> USE <1>1 DEF PipelineInv, objects, ending, Phase
  <1>2. now \in Nat /\ MaxNow \in Nat /\ now' \in 0..MaxNow /\ \A s \in Slots : s \in Nat
    BY SlotPipelineAssumption DEF TypeOK, MaxNow, Slots
  <1>3. QueueKept
    BY QueueUnchanged
  <1>4. ArrivalOK
    BY ArrivalUnchanged
  <1>5. TypeOK'
    BY <1>2, <1>3, <1>4 DEF TypeOK, QueueKept, ArrivalOK
  <1>6. CreatedInTime'
    BY <1>2 DEF CreatedInTime
  <1>7. HeldCreated'
    BY <1>2 DEF HeldCreated
  <1>8. AfterTheOthers'
    BY DEF AfterTheOthers
  <1>9. SlotsConsistent'
    BY <1>2 DEF SlotsConsistent, SlotConsistent, queue, At
  <1>10. StopsWhenTold'
    BY DEF StopsWhenTold
  <1> QED BY <1>3, <1>4, <1>5, <1>6, <1>7, <1>8, <1>9, <1>10 DEF QueueKept, ArrivalOK

\* Slot s is created, and the slots before it are as AfterTheOthers wants them.
LEMMA CreatedInv ==
    ASSUME PipelineInv, EndingOK, UNCHANGED <<queue, held, started, finished, arrival>>,
           NEW s \in Slots, NEW r \in SlotRecord, slot' = [slot EXCEPT ![s] = r],
           Phase(s) \in {"waiting", "selecting"}, r.phase # "none", r.dep = slot[s].dep,
           r.phase \in {"selecting", "built"} =>
               \A u \in Slots : (u < s /\ \A v \in u..s : Phase(v) # "none") => u \in finished,
           r.block = NoBlock, r.proc = "none",
           IF r.phase = "built"
           THEN r.start = "armed" /\ r.timer = "armed" /\ r.due >= s
           ELSE r.start = "off" /\ r.timer = "off"
    PROVE  PipelineInv'
  <1>1. UNCHANGED queue /\ QueueKept
    BY QueueUnchanged
  <1>2. slot \in [Slots -> SlotRecord] /\ slot' \in [Slots -> SlotRecord]
    BY DEF PipelineInv, TypeOK
  <1>3. \A t \in Slots : slot'[t] = IF t = s THEN r ELSE slot[t]
    BY <1>2
  <1>4. \A t \in Slots : (slot'[t].phase # "none" <=> slot[t].phase # "none") /\ slot'[t].dep = slot[t].dep
    BY <1>3 DEF Phase
  <1>5. CreatedInTime'
    BY <1>4 DEF PipelineInv, CreatedInTime, EndingOK, NoRevival, Phase
  <1>6. HeldCreated'
    BY <1>4 DEF PipelineInv, TypeOK, HeldCreated, EndingOK, NoRevival, Phase
  <1>7. AfterTheOthers'
    <2> SUFFICES ASSUME NEW u \in Slots, NEW t \in Slots, u < t,
                        Phase(t)' \in {"selecting", "built"},
                        \A v \in u..t : Phase(v)' # "none"
                 PROVE  u \in finished
      BY DEF AfterTheOthers
    <2>1. \A v \in u..t : v \in Slots
      BY SlotPipelineAssumption DEF Slots
    <2>2. \A v \in u..t : Phase(v) # "none"
      BY <1>4, <2>1 DEF Phase
    <2>3. CASE t = s
      BY <1>3, <2>2, <2>3 DEF Phase
    <2>4. CASE t # s
      BY <1>3, <2>2, <2>4 DEF PipelineInv, AfterTheOthers, Phase
    <2> QED BY <2>3, <2>4
  <1>8. SlotsConsistent'
    <2>1. SlotConsistent(s)
      BY DEF PipelineInv, SlotsConsistent
    <2>2. s \notin started /\ s \notin finished
      BY <2>1 DEF SlotConsistent
    <2>3. SlotConsistent(s)'
      BY <1>3, <2>2 DEF SlotConsistent, Phase
    <2> QED BY <1>1, <1>3, <2>3, OthersConsistent DEF EndingOK
  <1>9. RecvKnown'
    <2>1. \A t \in Slots : Phase(t) = "built" => Phase(t)' = "built"
      BY <1>3 DEF Phase
    <2> QED BY <2>1 DEF PipelineInv, RecvKnown, arrival
  <1>10. TypeOK'
    BY <1>1, <1>2 DEF PipelineInv, TypeOK, EndingOK, QueueKept, NoRevival, arrival
  <1> QED BY <1>1, <1>5, <1>6, <1>7, <1>8, <1>9, <1>10 DEF PipelineInv, EndingOK, QueueKept

\* A slot that does not exist yet has no block and no timers.
LEMMA NotBuilt ==
    ASSUME PipelineInv, NEW s \in Slots, Phase(s) # "built"
    PROVE  /\ slot[s].start = "off" /\ slot[s].timer = "off"
           /\ slot[s].proc = "none" /\ slot[s].block = NoBlock
           /\ slot[s] \in SlotRecord
           /\ s \notin started /\ s \notin finished
  BY DEF PipelineInv, TypeOK, SlotsConsistent, SlotConsistent

\* The slot before is finished, and so are those before that, or there is no slot
\* before: its run of the cron job was skipped.
LEMMA SelectMinterInv ==
    ASSUME PipelineInv, NEW s \in Slots, SelectMinter(s)
    PROVE  PipelineInv'
  <1> DEFINE r == [slot[s] EXCEPT !.phase = "selecting"]
  <1>1. Phase(s) = "waiting" /\ PrevSettled(s)
    BY DEF SelectMinter, Phase
  <1>2. slot[s] \in SlotRecord
    BY <1>1, NotBuilt
  <1>3. r \in SlotRecord /\ slot' = [slot EXCEPT ![s] = r]
    BY <1>2 DEF SelectMinter, SlotRecord
  <1>4. UNCHANGED <<queue, held, started, finished, arrival>> /\ UNCHANGED <<time, ending>>
    BY DEF SelectMinter
  <1>5. ASSUME NEW u \in Slots, u < s, \A v \in u..s : Phase(v) # "none"
        PROVE  u \in finished
    <2>1. s - 1 \in u..s /\ s - 1 \in Slots /\ \A v \in u..(s - 1) : v \in u..s
      BY <1>5, SlotPipelineAssumption DEF Slots
    <2>2. slot[s].dep
      BY <1>1, <1>5, <2>1 DEF PipelineInv, HeldCreated
    <2>3. Phase(s - 1) = "built" /\ s - 1 \in finished
      BY <1>1, <2>2 DEF PrevSettled, Phase
    <2>4. CASE u = s - 1
      BY <2>3, <2>4
    <2>5. CASE u # s - 1
      <3>1. u < s - 1
        BY <1>5, <2>5, SlotPipelineAssumption DEF Slots
      <3>2. \A v \in u..(s - 1) : Phase(v) # "none"
        BY <1>5, <2>1
      <3> QED BY <2>1, <2>3, <3>1, <3>2 DEF PipelineInv, AfterTheOthers
    <2> QED BY <2>4, <2>5
  <1>6. /\ r.phase = "selecting" /\ r.dep = slot[s].dep /\ r.block = NoBlock /\ r.proc = "none"
        /\ r.start = "off" /\ r.timer = "off"
    BY <1>1, <1>2, NotBuilt DEF SlotRecord
  <1> HIDE DEF r
  <1> QED BY <1>1, <1>3, <1>4, <1>5, <1>6, EndingUnchanged, CreatedInv

LEMMA ConstructInv ==
    ASSUME PipelineInv, NEW s \in Slots, Construct(s)
    PROVE  PipelineInv'
  <1> DEFINE r == [slot[s] EXCEPT !.phase = "built", !.start = "armed", !.timer = "armed",
                                  !.due = SlotExecutionTime(s)]
  <1>1. Phase(s) = "selecting"
    BY DEF Construct, Phase
  <1>2. slot[s] \in SlotRecord
    BY <1>1, NotBuilt
  <1>3. SlotExecutionTime(s) \in 0..MaxNow /\ SlotExecutionTime(s) >= s
    BY SlotPipelineAssumption DEF SlotExecutionTime, Slots, MaxNow, PipelineInv, TypeOK
  <1>4. r \in SlotRecord /\ slot' = [slot EXCEPT ![s] = r]
    BY <1>2, <1>3 DEF Construct, SlotRecord
  <1>5. UNCHANGED <<queue, held, started, finished, arrival>> /\ UNCHANGED <<time, ending>>
    BY DEF Construct
  <1>6. \A u \in Slots : (u < s /\ \A v \in u..s : Phase(v) # "none") => u \in finished
    BY <1>1 DEF PipelineInv, AfterTheOthers
  <1>7. /\ r.phase = "built" /\ r.dep = slot[s].dep /\ r.block = NoBlock /\ r.proc = "none"
        /\ r.start = "armed" /\ r.timer = "armed" /\ r.due >= s
    BY <1>1, <1>2, <1>3, NotBuilt DEF SlotRecord
  <1> HIDE DEF r
  <1> QED BY <1>1, <1>4, <1>5, <1>6, <1>7, EndingUnchanged, CreatedInv

LEMMA CreateFailsInv ==
    ASSUME PipelineInv, NEW s \in Slots, CreateFails(s)
    PROVE  PipelineInv'
  <1> DEFINE r == [slot[s] EXCEPT !.phase = "failed"]
  <1>1. Phase(s) \in {"waiting", "selecting"}
    BY DEF CreateFails, Phase
  <1>2. slot[s] \in SlotRecord
    BY <1>1, NotBuilt
  <1>3. r \in SlotRecord /\ slot' = [slot EXCEPT ![s] = r]
    BY <1>2 DEF CreateFails, SlotRecord
  <1>4. UNCHANGED <<queue, held, started, finished, arrival>> /\ UNCHANGED now /\ Throw
    BY DEF CreateFails
  <1>5. /\ r.phase = "failed" /\ r.dep = slot[s].dep /\ r.block = NoBlock /\ r.proc = "none"
        /\ r.start = "off" /\ r.timer = "off"
    BY <1>1, <1>2, NotBuilt DEF SlotRecord
  <1> HIDE DEF r
  <1> QED BY <1>1, <1>3, <1>4, <1>5, ThrowOK, CreatedInv

\* The cron job creates a slot that did not exist, held like the one before it was,
\* and drops one that is long past.
LEMMA CronInv ==
    ASSUME PipelineInv, Cron
    PROVE  PipelineInv'
  <1>1. cronDue /\ node = "up" /\ cronDue' = FALSE
        /\ UNCHANGED <<queue, now, started, finished, arrival, ending>>
    BY DEF Cron, PipelineInv, CreatedInTime
  <1>6. /\ UNCHANGED now /\ UNCHANGED started /\ UNCHANGED finished /\ UNCHANGED node
        /\ ~cronDue'
    BY <1>1 DEF ending
  <1>2. EndingOK
    BY <1>1 DEF PipelineInv, TypeOK, StopsWhenTold, EndingOK, NoRevival, ending
  <1>3. QueueKept
    BY <1>1, QueueUnchanged DEF queue
  <1>4. CASE now + 1 \notin Slots
    <2>1. UNCHANGED objects
      BY <1>1, <1>4 DEF Cron, objects
    <2>2. ArrivalOK
      BY <1>1, <2>1, ArrivalUnchanged DEF objects
    <2> QED BY <1>2, <1>3, <2>1, <2>2, ObjectsInv
  <1>5. ASSUME NEW s \in Slots, s = now + 1
        PROVE  PipelineInv'
    <2> DEFINE r == [slot[s] EXCEPT !.phase = "waiting", !.dep = (GetSlot(s - 1) # 0)]
    <2>1. now \in Nat /\ s \in Nat /\ s - 1 = now /\ \A t \in Slots : t \in Nat \ {0}
      BY <1>5, SlotPipelineAssumption DEF PipelineInv, TypeOK, Slots, MaxNow
    <2>2. \A t \in Slots : Phase(t) # "none" => t <= now
      BY <1>1 DEF PipelineInv, CreatedInTime
    <2>3. Phase(s) = "none"
      BY <1>5, <2>1, <2>2
    <2>4. slot[s] \in SlotRecord /\ slot \in [Slots -> SlotRecord]
      BY <1>5 DEF PipelineInv, TypeOK
    <2>5. r \in SlotRecord /\ r.phase = "waiting" /\ (r.dep <=> s - 1 \in held)
      BY <2>1, <2>4 DEF SlotRecord, GetSlot, PipelineInv, TypeOK
    <2>6. slot' = [slot EXCEPT ![s] = r]
      BY <1>5, <2>4 DEF Cron, SlotRecord
    <2>7. r.start = "off" /\ r.timer = "off" /\ r.proc = "none" /\ r.block = NoBlock
      BY <1>5, <2>3, <2>4, NotBuilt DEF SlotRecord
    <2>8. held' = IF s > Keep THEN EndSlot(s - Keep, StartNewSlot(s, held)) ELSE StartNewSlot(s, held)
      BY <1>5 DEF Cron
    <2> HIDE DEF r
    <2>9. /\ slot' \in [Slots -> SlotRecord]
          /\ \A t \in Slots : slot'[t] = IF t = s THEN r ELSE slot[t]
      BY <1>5, <2>4, <2>5, <2>6
    <2>10. /\ held' \subseteq held \cup {s} /\ s \in held'
           /\ \A t \in held : t >= now => t \in held'
      BY <2>1, <2>8, SlotPipelineAssumption DEF EndSlot, StartNewSlot, PipelineInv, TypeOK
    <2>11. CreatedInTime'
      BY <1>6, <2>1, <2>2, <2>9 DEF CreatedInTime, Phase
    <2>12. HeldCreated'
      <3>1. (\A t \in held : Phase(t) # "none")'
        <4>1. held \subseteq Slots /\ r.phase # "none"
          BY <2>5 DEF PipelineInv, TypeOK
        <4>2. \A t \in held : slot[t].phase # "none"
          BY DEF PipelineInv, HeldCreated, Phase
        <4> QED BY <1>5, <2>9, <2>10, <4>1, <4>2 DEF Phase
      <3>2. (\A t \in Slots : (Phase(t) # "none" /\ t >= now) => t \in held)'
        BY <1>1, <2>9, <2>10 DEF PipelineInv, HeldCreated, Phase
      <3>3. (\A t \in Slots : slot[t].dep => t - 1 \in Slots)'
        BY <2>5, <2>9 DEF PipelineInv, TypeOK, HeldCreated
      <3>4. ASSUME NEW t \in Slots, Phase(t)' # "none", ~slot'[t].dep, t - 1 \in Slots
            PROVE  Phase(t - 1)' = "none"
        <4>1. CASE t = s
          <5>1. now \notin held /\ now \in Slots /\ now # s
            BY <2>1, <2>5, <2>9, <3>4, <4>1
          <5>2. Phase(now) = "none"
            BY <1>1, <2>1, <5>1 DEF PipelineInv, HeldCreated
          <5> QED BY <2>1, <2>9, <4>1, <5>1, <5>2 DEF Phase
        <4>2. CASE t # s
          <5>1. t <= now /\ t - 1 # s /\ Phase(t - 1) = "none"
            BY <2>1, <2>2, <2>9, <3>4, <4>2 DEF PipelineInv, HeldCreated, Phase
          <5> QED BY <2>9, <3>4, <5>1 DEF Phase
        <4> QED BY <4>1, <4>2
      <3> QED BY <1>1, <3>1, <3>2, <3>3, <3>4 DEF HeldCreated
    <2>13. AfterTheOthers'
      <3> SUFFICES ASSUME NEW u \in Slots, NEW t \in Slots, u < t,
                          Phase(t)' \in {"selecting", "built"},
                          \A v \in u..t : Phase(v)' # "none"
                   PROVE  u \in finished
        BY <1>1 DEF AfterTheOthers
      <3>1. t # s /\ Phase(t) = Phase(t)'
        BY <2>5, <2>9 DEF Phase
      <3>2. t <= now
        BY <2>2, <3>1
      <3>3. \A v \in u..t : v \in Slots /\ v # s
        BY <2>1, <3>2, SlotPipelineAssumption DEF Slots
      <3>4. \A v \in u..t : Phase(v) # "none"
        BY <2>9, <3>3 DEF Phase
      <3> QED BY <3>1, <3>4 DEF PipelineInv, AfterTheOthers
    <2>14. SlotsConsistent'
      <3>1. s \notin started /\ s \notin finished
        BY <1>5, <2>3, NotBuilt
      <3>2. SlotConsistent(s)'
        <4>1. slot'[s] = r /\ s \notin started' /\ s \notin finished'
          BY <1>5, <1>6, <2>9, <3>1
        <4> QED BY <2>5, <2>7, <4>1 DEF SlotConsistent, Phase
      <3>3. \A t \in Slots \ {s} :
               /\ slot'[t] = slot[t]
               /\ t \in started' <=> t \in started
               /\ t \in finished' <=> t \in finished
        BY <1>6, <2>9
      <3> QED BY <1>2, <1>3, <1>5, <3>2, <3>3, OthersConsistent DEF EndingOK
    <2>15. RecvKnown'
      <3>1. \A t \in Slots : Phase(t) = "built" => Phase(t)' = "built"
        BY <2>3, <2>9 DEF Phase
      <3> QED BY <1>1, <3>1 DEF PipelineInv, RecvKnown, arrival
    <2>16. TypeOK'
      <3>1. held' \subseteq Slots
        BY <1>5, <2>10 DEF PipelineInv, TypeOK
      <3> QED BY <1>1, <1>2, <1>3, <2>9, <3>1 DEF PipelineInv, TypeOK, EndingOK, QueueKept, arrival
    <2> QED BY <1>2, <1>3, <2>11, <2>12, <2>13, <2>14, <2>15, <2>16 DEF PipelineInv, EndingOK, QueueKept
  <1> QED BY <1>4, <1>5

-------------------------------------------------------------------------------
(***************************************************************************)
(* The life of a slot.                                                     *)
(***************************************************************************)

\* A slot that has left its first phases exists.
LEMMA Built ==
    ASSUME PipelineInv, NEW s \in Slots,
           slot[s].start # "off" \/ slot[s].timer # "off" \/ slot[s].proc # "none"
    PROVE  Phase(s) = "built"
  BY DEF PipelineInv, SlotsConsistent, SlotConsistent

LEMMA SlotType ==
    ASSUME PipelineInv, NEW s \in Slots
    PROVE  slot[s] \in SlotRecord /\ SlotConsistent(s)
  BY DEF PipelineInv, TypeOK, SlotsConsistent

LEMMA ForceFinishInv ==
    ASSUME PipelineInv, NEW s \in Slots, ForceFinish(s)
    PROVE  PipelineInv'
  <1>1. /\ UNCHANGED queue /\ UNCHANGED time /\ UNCHANGED arrival /\ UNCHANGED <<node, stopAt>>
        /\ stopWait' = stopWait \ {s}
    BY DEF ForceFinish
  <1>2. node # "up"
    BY DEF ForceFinish, PipelineInv, StopsWhenTold
  <1>3. EndingOK
    BY <1>1, <1>2 DEF PipelineInv, TypeOK, CreatedInTime, StopsWhenTold, time, EndingOK, NoRevival
  <1>4. CASE Phase(s) = "built"
    <2> DEFINE r == [slot[s] EXCEPT !.timer = Cancelled(@)]
    <2>1. /\ finished' = finished \cup {s} /\ started' = started \cup {s}
          /\ slot' = [slot EXCEPT ![s].timer = Cancelled(@)] /\ held' \subseteq held
      BY <1>4 DEF ForceFinish, Finish, EndSlot, Phase
    <2>2. slot[s] \in SlotRecord /\ SlotConsistent(s) /\ slot \in [Slots -> SlotRecord]
      BY SlotType DEF PipelineInv, TypeOK
    <2>3. r \in SlotRecord /\ slot' = [slot EXCEPT ![s] = r]
      BY <2>1, <2>2 DEF SlotRecord, Cancelled
    <2>4. /\ r.phase = slot[s].phase /\ r.dep = slot[s].dep /\ r.start = slot[s].start
          /\ r.block = slot[s].block /\ r.proc = slot[s].proc /\ r.due = slot[s].due
          /\ r.waitFor = slot[s].waitFor /\ r.timer = Cancelled(slot[s].timer)
      BY <2>2 DEF SlotRecord
    <2> HIDE DEF r
    <2>5. slot'[s] = r
      BY <2>2, <2>3
    <2>6. SlotConsistent(s)'
      BY <1>1, <1>2, <1>4, <2>1, <2>2, <2>4, <2>5
         DEF SlotConsistent, Phase, Cancelled, At, queue, time
    <2>7. \A t \in Slots : slot'[t].phase = slot[t].phase
      BY <2>2, <2>3, <2>4
    <2> QED BY <1>1, <1>2, <1>3, <2>1, <2>3, <2>4, <2>6, <2>7, ArrivalUnchanged, SlotInv
  <1>5. CASE Phase(s) # "built"
    <2>1. UNCHANGED objects
      BY <1>5 DEF ForceFinish, Phase
    <2>2. ArrivalOK
      BY <1>1, <2>1, ArrivalUnchanged DEF objects
    <2> QED BY <1>1, <1>3, <2>1, <2>2, QueueUnchanged, ObjectsInv
  <1> QED BY <1>4, <1>5

\* A step of slot s that only changes its proc.
LEMMA ProcInv ==
    ASSUME PipelineInv, EndingOK, UNCHANGED <<queue, held, arrival>>, NEW s \in Slots,
           NEW p \in {"start", "verify", "execute", "settled", "threw"}, Proc(s, p),
           slot[s].proc # "none",
           started' = started \/ started' = started \cup {s},
           finished' = finished \/ finished' = finished \cup {s},
           node' = "up" =>
               /\ s \in started' => slot[s].start = "fired"
               /\ s \in finished' => p = "settled"
               /\ p \in {"verify", "execute", "settled"} => slot[s].start = "fired",
           p \in {"start", "verify", "execute", "settled"} =>
               \A i \in 1..slot[s].waitFor : At(i, "resolved")
    PROVE  PipelineInv'
  <1> DEFINE r == [slot[s] EXCEPT !.proc = p]
  <1>1. slot[s] \in SlotRecord /\ SlotConsistent(s) /\ slot \in [Slots -> SlotRecord]
    BY SlotType DEF PipelineInv, TypeOK
  <1>2. r \in SlotRecord /\ slot' = [slot EXCEPT ![s] = r]
    BY <1>1 DEF Proc, SlotRecord
  <1>3. /\ r.phase = slot[s].phase /\ r.dep = slot[s].dep /\ r.start = slot[s].start
        /\ r.block = slot[s].block /\ r.timer = slot[s].timer /\ r.due = slot[s].due
        /\ r.waitFor = slot[s].waitFor /\ r.proc = p
    BY <1>1 DEF SlotRecord
  <1> HIDE DEF r
  <1>4. slot'[s] = r /\ \A t \in Slots : slot'[t].phase = slot[t].phase
    BY <1>1, <1>2, <1>3
  <1>5. Phase(s) = "built"
    BY Built
  <1>6. UNCHANGED queue /\ UNCHANGED arrival /\ UNCHANGED held
    OBVIOUS
  <1>7. UNCHANGED items
    BY <1>6 DEF queue
  <1>8. SlotConsistent(s)'
    BY <1>1, <1>3, <1>4, <1>5, <1>7 DEF SlotConsistent, Phase, At, EndingOK, NoRevival
  <1> QED BY <1>2, <1>3, <1>4, <1>6, <1>8, ArrivalUnchanged, SlotInv

\* The block passes the past block queue when the item it waits for is resolved, and
\* with it all the items before.
LEMMA QueuePassedInv ==
    ASSUME PipelineInv, NEW s \in Slots, QueuePassed(s)
    PROVE  PipelineInv'
  <1>1. /\ slot[s].proc = "queue" /\ QueueEmpty(s) /\ Proc(s, "start")
        /\ UNCHANGED <<queue, held, arrival>> /\ UNCHANGED <<time, ending>>
        /\ UNCHANGED started /\ UNCHANGED finished
    BY DEF QueuePassed
  <1>2. slot[s].waitFor \in Nat /\ SlotConsistent(s)
    BY SlotType DEF SlotRecord
  <1>3. \A i \in 1..slot[s].waitFor : At(i, "resolved")
    <2>1. CASE slot[s].waitFor = 0
      BY <2>1
    <2>2. CASE slot[s].waitFor # 0
      <3>1. At(slot[s].waitFor, "resolved")
        BY <1>1, <2>2 DEF QueueEmpty
      <3>2. PICK n \in 0..Len(items) : ServedTo(n, items)
        BY DEF PipelineInv, QueueInOrder
      <3>3. Len(items) \in Nat /\ DOMAIN items = 1..Len(items)
        BY DEF PipelineInv, TypeOK, QueueTypeOK
      <3>4. slot[s].waitFor <= n /\ slot[s].waitFor \in 1..Len(items)
        BY <1>2, <3>1, <3>2, <3>3 DEF At, ServedTo
      <3> QED BY <1>2, <3>1, <3>2, <3>3, <3>4 DEF At, ServedTo
    <2> QED BY <2>1, <2>2
  <1>4. node' = "up" => /\ s \in started => slot[s].start = "fired"
                        /\ s \notin finished
    BY <1>1, <1>2 DEF SlotConsistent, ending
  <1> QED BY <1>1, <1>3, <1>4, EndingUnchanged, ProcInv

LEMMA StartPassedInv ==
    ASSUME PipelineInv, NEW s \in Slots, StartPassed(s)
    PROVE  PipelineInv'
  <1>1. /\ slot[s].proc = "start" /\ s \in started /\ Proc(s, "verify")
        /\ UNCHANGED <<queue, held, arrival>> /\ UNCHANGED <<time, ending>>
        /\ UNCHANGED started /\ UNCHANGED finished
    BY DEF StartPassed, HasStarted
  <1>2. SlotConsistent(s)
    BY SlotType
  <1>3. node' = "up" => slot[s].start = "fired" /\ s \notin finished
    BY <1>1, <1>2 DEF SlotConsistent, ending
  <1>4. \A i \in 1..slot[s].waitFor : At(i, "resolved")
    BY <1>1, <1>2 DEF SlotConsistent
  <1> QED BY <1>1, <1>3, <1>4, EndingUnchanged, ProcInv

LEMMA BlockVerifiedInv ==
    ASSUME PipelineInv, NEW s \in Slots, BlockVerified(s)
    PROVE  PipelineInv'
  <1>1. /\ slot[s].proc = "verify"
        /\ UNCHANGED <<queue, held, arrival>> /\ UNCHANGED <<time, ending>>
    BY DEF BlockVerified, Verified
  <1>2. SlotConsistent(s)
    BY SlotType
  <1>3. node' = "up" => slot[s].start = "fired" /\ s \notin finished
    BY <1>1, <1>2 DEF SlotConsistent, ending
  <1>4. \A i \in 1..slot[s].waitFor : At(i, "resolved")
    BY <1>1, <1>2 DEF SlotConsistent
  <1>5. CASE Proc(s, "execute") /\ UNCHANGED <<started, finished>>
    BY <1>1, <1>3, <1>4, <1>5, EndingUnchanged, ProcInv
  <1>6. CASE Proc(s, "settled") /\ Finish(s)
    BY <1>1, <1>3, <1>4, <1>6, EndingUnchanged, ProcInv DEF Finish
  <1> QED BY <1>5, <1>6 DEF BlockVerified, Verified

LEMMA BlockExecutedInv ==
    ASSUME PipelineInv, NEW s \in Slots, BlockExecuted(s)
    PROVE  PipelineInv'
  <1>1. /\ slot[s].proc = "execute" /\ Proc(s, "settled")
        /\ finished' = finished \cup {s} /\ started' = started \cup {s}
        /\ UNCHANGED <<queue, held, arrival>> /\ UNCHANGED <<time, ending>>
    BY DEF BlockExecuted, Executed, Finish
  <1>2. SlotConsistent(s)
    BY SlotType
  <1>3. node' = "up" => slot[s].start = "fired"
    BY <1>1, <1>2 DEF SlotConsistent, ending
  <1>4. \A i \in 1..slot[s].waitFor : At(i, "resolved")
    BY <1>1, <1>2 DEF SlotConsistent
  <1> QED BY <1>1, <1>3, <1>4, EndingUnchanged, ProcInv

LEMMA ProcessThrowsInv ==
    ASSUME PipelineInv, NEW s \in Slots, ProcessThrows(s)
    PROVE  PipelineInv'
  <1>1. /\ slot[s].proc # "none" /\ Proc(s, "threw") /\ Throw /\ UNCHANGED now
        /\ UNCHANGED <<queue, held, arrival>> /\ UNCHANGED started /\ UNCHANGED finished
    BY DEF ProcessThrows
  <1>2. EndingOK /\ node' # "up"
    BY <1>1, ThrowOK
  <1> QED BY <1>1, <1>2, ProcInv

\* The timer of a slot that has a block is cancelled: one that fires has none.
LEMMA TimeoutInv ==
    ASSUME PipelineInv, NEW s \in Slots, Timeout(s)
    PROVE  PipelineInv'
  <1> DEFINE r == [slot[s] EXCEPT !.timer = "fired"]
  <1>1. /\ slot[s].timer = "armed" /\ slot[s].start = "fired"
        /\ slot' = [slot EXCEPT ![s].timer = "fired"]
        /\ finished' = finished \cup {s} /\ started' = started \cup {s}
        /\ UNCHANGED queue /\ UNCHANGED held /\ UNCHANGED arrival /\ UNCHANGED <<time, ending>>
    BY DEF Timeout, Finish
  <1>2. slot[s] \in SlotRecord /\ SlotConsistent(s) /\ slot \in [Slots -> SlotRecord]
    BY SlotType DEF PipelineInv, TypeOK
  <1>3. r \in SlotRecord /\ slot' = [slot EXCEPT ![s] = r]
    BY <1>1, <1>2 DEF SlotRecord
  <1>4. /\ r.phase = slot[s].phase /\ r.dep = slot[s].dep /\ r.start = slot[s].start
        /\ r.block = slot[s].block /\ r.proc = slot[s].proc /\ r.due = slot[s].due
        /\ r.waitFor = slot[s].waitFor /\ r.timer = "fired"
    BY <1>2 DEF SlotRecord
  <1> HIDE DEF r
  <1>5. slot'[s] = r /\ \A t \in Slots : slot'[t].phase = slot[t].phase
    BY <1>2, <1>3, <1>4
  <1>6. Phase(s) = "built" /\ slot[s].block = NoBlock /\ slot[s].proc = "none"
    BY <1>1, <1>2, Built DEF SlotConsistent
  <1>7. UNCHANGED now /\ UNCHANGED node
    BY <1>1 DEF time, ending
  <1>8. SlotConsistent(s)'
    BY <1>1, <1>2, <1>4, <1>5, <1>6, <1>7 DEF SlotConsistent, Phase
  <1> QED BY <1>1, <1>3, <1>4, <1>5, <1>8, EndingUnchanged, ArrivalUnchanged, SlotInv

\* processBlock gives a slot its block unless it has one.
LEMMA ProcessBlockFields ==
    ASSUME NEW r \in SlotRecord, NEW b \in NetBlocks \cup {Own}, NEW item \in Nat,
           NEW q, q = ProcessBlock(r, b, item)
    PROVE  /\ q \in SlotRecord
           /\ q.phase = r.phase /\ q.dep = r.dep /\ q.start = r.start /\ q.due = r.due
           /\ q.timer = Cancelled(r.timer)
           /\ r.block = NoBlock => q.block = b /\ q.proc = "queue" /\ q.waitFor = item
           /\ r.block # NoBlock => q.block = r.block /\ q.proc = r.proc /\ q.waitFor = r.waitFor
  <1>1. Cancelled(r.timer) \in {"off", "armed", "cancelled", "fired"}
    BY DEF Cancelled, SlotRecord
  <1>2. CASE r.block = NoBlock
    <2>1. q = [r EXCEPT !.timer = Cancelled(r.timer), !.block = b, !.proc = "queue", !.waitFor = item]
      BY <1>2 DEF ProcessBlock
    <2> QED BY <1>1, <1>2, <2>1 DEF SlotRecord
  <1>3. CASE r.block # NoBlock
    <2>1. q = [r EXCEPT !.timer = Cancelled(r.timer)]
      BY <1>3 DEF ProcessBlock
    <2> QED BY <1>1, <1>3, <2>1 DEF SlotRecord
  <1> QED BY <1>2, <1>3

\* onSlotStart runs when the slot has begun.
LEMMA SlotStartInv ==
    ASSUME PipelineInv, NEW s \in Slots, SlotStart(s)
    PROVE  PipelineInv'
  <1> DEFINE r == [slot[s] EXCEPT !.start = "fired"]
             q == IF s \in OwnSlots \ finished THEN Mint(r) ELSE r
  <1>1. /\ slot[s].start = "armed" /\ Reached(slot[s].due)
        /\ slot' = [slot EXCEPT ![s] = q]
        /\ started' = started \cup {s}
        /\ UNCHANGED queue /\ UNCHANGED held /\ UNCHANGED finished
        /\ UNCHANGED arrival /\ UNCHANGED <<time, ending>>
    BY DEF SlotStart
  <1>2. slot[s] \in SlotRecord /\ SlotConsistent(s) /\ slot \in [Slots -> SlotRecord]
    BY SlotType DEF PipelineInv, TypeOK
  <1>3. /\ r \in SlotRecord /\ r.start = "fired"
        /\ r.phase = slot[s].phase /\ r.dep = slot[s].dep /\ r.due = slot[s].due
        /\ r.block = slot[s].block /\ r.proc = slot[s].proc /\ r.timer = slot[s].timer
        /\ r.waitFor = slot[s].waitFor
    BY <1>2 DEF SlotRecord
  <1>4. Phase(s) = "built"
    BY <1>1, Built
  <1>5. now >= s
    BY <1>1, <1>2, <1>4, SlotPipelineAssumption
       DEF SlotConsistent, SlotRecord, Reached, MaxNow, Slots, PipelineInv, TypeOK
  <1>6. UNCHANGED now /\ UNCHANGED node /\ UNCHANGED items
    BY <1>1 DEF time, ending, queue
  <1> HIDE DEF r
  <1>7. CASE s \in OwnSlots \ finished
    <2>1. q = ProcessBlock(r, Own, 0)
      BY <1>7 DEF Mint
    <2> HIDE DEF q
    <2>2. /\ q \in SlotRecord
          /\ q.phase = r.phase /\ q.dep = r.dep /\ q.start = r.start /\ q.due = r.due
          /\ q.timer = Cancelled(r.timer)
          /\ r.block = NoBlock => q.block = Own /\ q.proc = "queue" /\ q.waitFor = 0
          /\ r.block # NoBlock => q.block = r.block /\ q.proc = r.proc /\ q.waitFor = r.waitFor
      <3>1. Own \in NetBlocks \cup {Own} /\ 0 \in Nat
        OBVIOUS
      <3>2. r \in SlotRecord
        BY <1>3
      <3> QED BY <2>1, <3>1, <3>2, ProcessBlockFields
    <2>3. slot'[s] = q /\ \A t \in Slots : slot'[t].phase = slot[t].phase
      BY <1>1, <1>2, <1>3, <2>2
    <2>4. q.timer = "cancelled"
      BY <1>2, <1>3, <1>4, <1>7, <2>2 DEF SlotConsistent, SlotRecord, Cancelled
    <2>5. q.block # NoBlock
      BY <2>2, SlotPipelineAssumption
    <2>6. SlotConsistent(s)'
      BY <1>1, <1>2, <1>3, <1>4, <1>5, <1>6, <1>7, <2>2, <2>3, <2>4, <2>5 DEF SlotConsistent, Phase, At
    <2> QED BY <1>1, <1>3, <2>2, <2>3, <2>6, EndingUnchanged, ArrivalUnchanged, SlotInv
  <1>8. CASE ~(s \in OwnSlots \ finished)
    <2>1. q = r
      BY <1>8
    <2> HIDE DEF q
    <2>2. slot'[s] = r /\ \A t \in Slots : slot'[t].phase = slot[t].phase
      BY <1>1, <1>2, <1>3, <2>1
    <2>3. SlotConsistent(s)'
      BY <1>1, <1>2, <1>3, <1>4, <1>5, <1>6, <2>2 DEF SlotConsistent, Phase, At
    <2> QED BY <1>1, <1>3, <2>1, <2>2, <2>3, EndingUnchanged, ArrivalUnchanged, SlotInv
  <1> QED BY <1>7, <1>8

-------------------------------------------------------------------------------
(***************************************************************************)
(* The messages and the past blocks.                                       *)
(***************************************************************************)

LEMMA HandOverInv ==
    ASSUME PipelineInv, NEW m \in Msgs, HandOver(m)
    PROVE  PipelineInv'
  <1>1. PICK s \in Slots : s = SlotOf[BlockOf[m]] /\ Phase(s) = "built"
    BY DEF HandOver, PipelineInv, RecvKnown
  <1> DEFINE q == IF s \in finished THEN slot[s] ELSE ProcessBlock(slot[s], BlockOf[m], Awaited)
  <1>2. /\ recv' = [recv EXCEPT ![m] = "done"]
        /\ slot' = [slot EXCEPT ![s] = q]
        /\ UNCHANGED queue /\ UNCHANGED held /\ UNCHANGED started /\ UNCHANGED finished
        /\ UNCHANGED asked /\ UNCHANGED <<time, ending>>
    BY <1>1 DEF HandOver
  <1>3. slot[s] \in SlotRecord /\ SlotConsistent(s) /\ slot \in [Slots -> SlotRecord]
    BY SlotType DEF PipelineInv, TypeOK
  <1>4. Awaited \in Nat
    <2>1. Back(items) \in 0..Len(items) /\ Len(items) \in Nat
      BY BackIsItem DEF PipelineInv, TypeOK, QueueTypeOK
    <2> QED BY <2>1 DEF Awaited
  <1>5. BlockOf[m] \in NetBlocks
    BY SlotPipelineAssumption
  <1>6. UNCHANGED now /\ UNCHANGED node /\ UNCHANGED items
    BY <1>2 DEF time, ending, queue
  <1>7. q \in SlotRecord /\ q.phase = slot[s].phase /\ q.dep = slot[s].dep /\ SlotConsistent(s)'
    <2>1. CASE s \in finished
      <3>1. slot' = slot
        BY <1>2, <1>3, <2>1
      <3> QED BY <1>2, <1>3, <1>6, <2>1, <3>1 DEF SlotConsistent, Phase, At
    <2>2. CASE s \notin finished
      <3>1. q = ProcessBlock(slot[s], BlockOf[m], Awaited)
        BY <2>2
      <3> HIDE DEF q
      <3> DEFINE r == slot[s]
      <3>2. /\ q \in SlotRecord
            /\ q.phase = r.phase /\ q.dep = r.dep /\ q.start = r.start /\ q.due = r.due
            /\ q.timer = Cancelled(r.timer)
            /\ r.block = NoBlock => q.block = BlockOf[m] /\ q.proc = "queue" /\ q.waitFor = Awaited
            /\ r.block # NoBlock => q.block = r.block /\ q.proc = r.proc /\ q.waitFor = r.waitFor
        BY <1>3, <1>4, <1>5, <3>1, ProcessBlockFields
      <3>3. slot'[s] = q
        BY <1>2, <1>3
      <3>4. q.timer = "cancelled"
        BY <1>1, <1>3, <2>2, <3>2 DEF SlotConsistent, SlotRecord, Cancelled, Phase
      <3>5. q.block # NoBlock
        BY <1>5, <3>2, SlotPipelineAssumption
      <3>6. SlotConsistent(s)'
        BY <1>1, <1>2, <1>3, <1>6, <2>2, <3>2, <3>3, <3>4, <3>5 DEF SlotConsistent, Phase, At
      <3> QED BY <3>2, <3>6
    <2> QED BY <2>1, <2>2
  <1> HIDE DEF q
  <1>8. \A t \in Slots : slot'[t].phase = slot[t].phase
    BY <1>2, <1>3, <1>7
  <1>9. ArrivalOK
    BY <1>2, <1>8 DEF PipelineInv, TypeOK, RecvKnown, ArrivalOK, Phase
  <1> QED BY <1>2, <1>7, <1>9, EndingUnchanged, SlotInv

\* A message that ends with an exception.
LEMMA UnverifiableOK ==
    ASSUME PipelineInv, NEW m \in Msgs, Unverifiable(m)
    PROVE  PipelineInv'
  <1>1. /\ recv' = [recv EXCEPT ![m] = "done"] /\ Throw
        /\ UNCHANGED queue /\ UNCHANGED now /\ UNCHANGED objects /\ UNCHANGED asked
    BY DEF Unverifiable
  <1>2. ArrivalOK
    BY <1>1 DEF PipelineInv, TypeOK, RecvKnown, ArrivalOK, Phase, objects
  <1> QED BY <1>1, <1>2, ThrowOK, QueueUnchanged, ObjectsInv

LEMMA ReceiveInv ==
    ASSUME PipelineInv, NEW m \in Msgs, Receive(m)
    PROVE  PipelineInv'
  <1>1. CASE Unverifiable(m)
    BY <1>1, UnverifiableOK
  <1>2. CASE /\ SlotOf[BlockOf[m]] \in held
             /\ recv' = [recv EXCEPT ![m] = "slot"]
             /\ UNCHANGED <<queue, time, objects, asked, ending>>
    <2>1. SlotOf[BlockOf[m]] \in Slots
      BY <1>2 DEF PipelineInv, TypeOK
    <2>2. UNCHANGED queue /\ UNCHANGED objects /\ UNCHANGED asked /\ UNCHANGED <<time, ending>>
      BY <1>2
    <2>3. ArrivalOK
      BY <1>2, <2>1, <2>2 DEF PipelineInv, TypeOK, RecvKnown, ArrivalOK, Phase, objects
    <2> QED BY <2>2, <2>3, EndingUnchanged, QueueUnchanged, ObjectsInv
  <1>3. CASE /\ recv' = [recv EXCEPT ![m] = "done"]
             /\ Enqueue(BlockOf[m])
             /\ UNCHANGED <<time, objects, asked, ending>>
    <2>1. UNCHANGED objects /\ UNCHANGED asked /\ UNCHANGED <<time, ending>>
      BY <1>3
    <2>2. BlockOf[m] \in NetBlocks
      BY SlotPipelineAssumption
    <2>3. QueueKept
      BY <1>3, <2>2, EnqueueKept DEF PipelineInv, TypeOK
    <2>4. ArrivalOK
      BY <1>3, <2>1 DEF PipelineInv, TypeOK, RecvKnown, ArrivalOK, Phase, objects
    <2> QED BY <2>1, <2>3, <2>4, EndingUnchanged, ObjectsInv
  <1> QED BY <1>1, <1>2, <1>3 DEF Receive

LEMMA GotSlotInv ==
    ASSUME PipelineInv, NEW m \in Msgs, GotSlot(m)
    PROVE  PipelineInv'
  <1>1. CASE Unverifiable(m)
    BY <1>1, UnverifiableOK
  <1>2. CASE ~Unverifiable(m)
    <2>1. /\ slot[SlotOf[BlockOf[m]]].phase = "built" /\ recv[m] = "slot"
          /\ recv' = [recv EXCEPT ![m] = "check"]
          /\ asked' = [asked EXCEPT ![m] = GetCurrentSlot]
          /\ UNCHANGED queue /\ UNCHANGED objects /\ UNCHANGED <<time, ending>>
      BY <1>2 DEF GotSlot
    <2>2. ArrivalOK
      BY <2>1, CurrentSlotType DEF PipelineInv, TypeOK, RecvKnown, ArrivalOK, Phase, objects
    <2> QED BY <2>1, <2>2, EndingUnchanged, QueueUnchanged, ObjectsInv
  <1> QED BY <1>1, <1>2

LEMMA CheckProposalInv ==
    ASSUME PipelineInv, NEW m \in Msgs, CheckProposal(m)
    PROVE  PipelineInv'
  <1>1. CASE Unverifiable(m)
    BY <1>1, UnverifiableOK
  <1>2. CASE ~Unverifiable(m)
    <2>1. /\ recv[m] = "check" /\ recv' = [recv EXCEPT ![m] = "process"]
          /\ UNCHANGED queue /\ UNCHANGED objects /\ UNCHANGED asked /\ UNCHANGED <<time, ending>>
      BY <1>2 DEF CheckProposal
    <2>2. ArrivalOK
      BY <2>1 DEF PipelineInv, TypeOK, RecvKnown, ArrivalOK, Phase, objects
    <2> QED BY <2>1, <2>2, EndingUnchanged, QueueUnchanged, ObjectsInv
  <1> QED BY <1>1, <1>2

\* Each step of the past block queue is one of its operations.
LEMMA ServePastInv ==
    ASSUME PipelineInv, ServePast
    PROVE  PipelineInv'
  <1>1. UNCHANGED now /\ UNCHANGED objects /\ UNCHANGED arrival
    BY DEF ServePast, time
  <1>2. ArrivalOK
    BY <1>1, ArrivalUnchanged DEF objects
  <1>3. EndingOK
    BY <1>1, EndingUnchanged, ThrowOK DEF ServePast
  <1>4. QueueTypeOK /\ QueueInOrder
    BY DEF PipelineInv, TypeOK
  <1>5. QueueKept
    <2>1. CASE ProcessAll
      BY <1>4, <2>1, ProcessAllKept
    <2>2. ASSUME NEW i \in DOMAIN items, NEW p \in InService, At(i, p),
                 NEW q \in InService \cup {"resolved"}, Goto(i, q)
          PROVE  QueueKept
      BY <1>4, <2>2, GotoKept DEF At
    <2>3. ASSUME NEW i \in DOMAIN items, PastMinterSelected(i)
          PROVE  QueueKept
      BY <2>2, <2>3 DEF PastMinterSelected, InService
    <2>4. ASSUME NEW i \in DOMAIN items, PastBlockVerified(i)
          PROVE  QueueKept
      BY <2>2, <2>4 DEF PastBlockVerified, InService
    <2>5. ASSUME NEW i \in DOMAIN items, PastBlockExecuted(i)
          PROVE  QueueKept
      BY <2>2, <2>5 DEF PastBlockExecuted, InService
    <2>6. ASSUME NEW i \in DOMAIN items, NEW points \in SUBSET InService, PastBlockThrows(i, points)
          PROVE  QueueKept
      BY <2>2, <2>6 DEF PastBlockThrows, InService
    <2>7. {"verify", "execute"} \in SUBSET InService /\ {"minter"} \in SUBSET InService
      BY DEF InService
    <2> QED BY <2>1, <2>3, <2>4, <2>5, <2>6, <2>7 DEF ServePast
  <1> QED BY <1>1, <1>2, <1>3, <1>5, ObjectsInv

LEMMA NextInv ==
    ASSUME PipelineInv, [Next]_vars
    PROVE  PipelineInv'
  <1>1. ASSUME NEW s \in Slots, CreateStep(s)
        PROVE  PipelineInv'
    BY <1>1, SelectMinterInv, ConstructInv, CreateFailsInv DEF CreateStep
  <1>2. ASSUME NEW s \in Slots, SlotStep(s)
        PROVE  PipelineInv'
    BY <1>2, SlotStartInv, TimeoutInv, QueuePassedInv, StartPassedInv,
       BlockVerifiedInv, BlockExecutedInv, ProcessThrowsInv DEF SlotStep
  <1>3. ASSUME NEW m \in Msgs, Receive(m) \/ RecvStep(m)
        PROVE  PipelineInv'
    BY <1>3, ReceiveInv, GotSlotInv, CheckProposalInv, HandOverInv DEF RecvStep
  <1>4. CASE StopStep
    BY <1>4, StopCurrentInv, ForceFinishInv, ExitInv DEF StopStep
  <1>5. CASE Tick \/ Cron \/ Sigterm \/ ServePast
    BY <1>5, TickInv, CronInv, SigtermInv, ServePastInv
  <1>6. CASE UNCHANGED vars
    <2>1. UNCHANGED queue /\ UNCHANGED objects /\ UNCHANGED arrival /\ UNCHANGED <<time, ending>>
      BY <1>6 DEF vars
    <2>2. ArrivalOK
      BY <2>1, ArrivalUnchanged DEF objects
    <2> QED BY <2>1, <2>2, EndingUnchanged, QueueUnchanged, ObjectsInv
  <1> QED BY <1>1, <1>2, <1>3, <1>4, <1>5, <1>6 DEF Next

\* The inductive invariant holds in every state.
THEOREM PipelineInvariant == Spec => []PipelineInv
  <1> QED BY InitInv, NextInv, PTL DEF Spec

-------------------------------------------------------------------------------
(***************************************************************************)
(* The properties.                                                         *)
(***************************************************************************)

\* Types of the slots, the queue, the messages and the shutdown.
THEOREM PipelineTypes == Spec => []TypeOK
  <1>1. PipelineInv => TypeOK
    BY DEF PipelineInv
  <1> QED BY <1>1, PipelineInvariant, PTL

\* The slots take their turns (onSlotStart, processBlock, Slot.create): if two slots
\* were at work, the earlier one would be finished, since the later one exists and
\* all slots between them were created, and a finished slot is done with its block.
THEOREM SlotsInTurn == Spec => []InTurn
  <1>1. PipelineInv => OneAtATime
    <2> SUFFICES ASSUME PipelineInv, node = "up", NEW s \in Slots, NEW t \in Slots,
                        s < t, slot[s].proc \in InProcess, slot[t].proc \in InProcess,
                        \A u \in s..t : slot[u].phase # "none"
                 PROVE  FALSE
      BY DEF OneAtATime
    <2>1. Phase(t) = "built"
      BY Built DEF InProcess
    <2>2. s \in finished
      BY <2>1 DEF PipelineInv, AfterTheOthers, Phase
    <2> QED BY <2>2, SlotType DEF SlotConsistent, InProcess
  <1>2. PipelineInv => NotBeforeStart
    BY DEF PipelineInv, SlotsConsistent, SlotConsistent, NotBeforeStart
  <1>3. PipelineInv => InTurn
    BY <1>1, <1>2 DEF InTurn
  <1> QED BY <1>3, PipelineInvariant, PTL

\* A slot ends once (processBlock cancels blockTimeout, slot_finished passes when the
\* block is settled): by its block or by its timer, and no block is under way in a
\* slot that is over.
THEOREM SlotsEndOnce == Spec => []EndsOnce
  <1>1. PipelineInv => FinishedSettled
    BY DEF PipelineInv, TypeOK, SlotsConsistent, SlotConsistent, FinishedSettled
  <1>2. PipelineInv => TimeoutMeansNoBlock
    BY DEF PipelineInv, SlotsConsistent, SlotConsistent, TimeoutMeansNoBlock
  <1>3. PipelineInv => EndsOnce
    BY <1>1, <1>2 DEF EndsOnce
  <1> QED BY <1>3, PipelineInvariant, PTL

\* The past blocks that were queued before a slot's block are done before the slot goes
\* on with it (processBlock awaits the item at the back of fallbackBlockQueue).
THEOREM PastBlocksFirst == Spec => []ArrivedBeforeDone
  <1>1. PipelineInv => ArrivedBeforeDone
    BY DEF PipelineInv, SlotsConsistent, SlotConsistent, ArrivedBeforeDone
  <1> QED BY <1>1, PipelineInvariant, PTL

\* What BlockKept says of one slot.
BlockStays(s) ==
    slot[s].block # NoBlock =>
        /\ slot'[s].block = slot[s].block
        /\ slot'[s].proc = "queue" => slot[s].proc = "queue"

\* The only step that could give a slot another block is processBlock.
LEMMA ProcessedBlockStays ==
    ASSUME PipelineInv, NEW s \in Slots, NEW r \in SlotRecord,
           r.block = slot[s].block, r.proc = slot[s].proc,
           NEW b \in NetBlocks \cup {Own}, NEW item \in Nat,
           slot' = [slot EXCEPT ![s] = ProcessBlock(r, b, item)]
    PROVE  BlockStays(s)
  <1> DEFINE q == ProcessBlock(r, b, item)
  <1>1. slot'[s] = q
    BY DEF PipelineInv, TypeOK
  <1>2. r.block # NoBlock => q.block = r.block /\ q.proc = r.proc
    BY ProcessBlockFields
  <1> HIDE DEF q
  <1> QED BY <1>1, <1>2 DEF BlockStays

LEMMA BlockStaysStep ==
    ASSUME PipelineInv, [Next]_vars, NEW s \in Slots
    PROVE  BlockStays(s)
  <1>1. slot \in [Slots -> SlotRecord] /\ \A t \in Slots : slot[t] \in SlotRecord
    BY DEF PipelineInv, TypeOK
  <1>2. CASE UNCHANGED slot
    BY <1>2 DEF BlockStays
  <1>3. ASSUME NEW t \in Slots, CreateStep(t)
        PROVE  BlockStays(s)
    BY <1>1, <1>3 DEF CreateStep, SelectMinter, Construct, CreateFails, SlotRecord, BlockStays
  <1>4. ASSUME NEW t \in Slots, NEW p \in {"start", "verify", "execute", "settled", "threw"}, Proc(t, p)
        PROVE  BlockStays(s)
    BY <1>1, <1>4 DEF Proc, SlotRecord, BlockStays
  <1>5. ASSUME NEW t \in Slots, SlotStart(t)
        PROVE  BlockStays(s)
    <2> DEFINE r == [slot[t] EXCEPT !.start = "fired"]
    <2>1. slot' = [slot EXCEPT ![t] = IF t \in OwnSlots \ finished THEN ProcessBlock(r, Own, 0) ELSE r]
      BY <1>5 DEF SlotStart, Mint
    <2>2. r \in SlotRecord /\ r.block = slot[t].block /\ r.proc = slot[t].proc
      BY <1>1 DEF SlotRecord
    <2> HIDE DEF r
    <2>3. CASE s # t
      BY <1>1, <2>1, <2>3 DEF BlockStays
    <2>4. CASE s = t /\ t \in OwnSlots \ finished
      <3>1. slot' = [slot EXCEPT ![s] = ProcessBlock(r, Own, 0)]
        BY <2>1, <2>4
      <3>2. Own \in NetBlocks \cup {Own} /\ 0 \in Nat
        OBVIOUS
      <3> QED BY <2>2, <2>4, <3>1, <3>2, ProcessedBlockStays
    <2>5. CASE s = t /\ ~(t \in OwnSlots \ finished)
      <3>1. slot'[s] = r
        BY <1>1, <2>1, <2>5
      <3> QED BY <2>2, <2>5, <3>1 DEF BlockStays
    <2> QED BY <2>3, <2>4, <2>5
  <1>6. ASSUME NEW t \in Slots, SlotStep(t)
        PROVE  BlockStays(s)
    <2>1. CASE Timeout(t)
      BY <1>1, <2>1 DEF Timeout, SlotRecord, BlockStays
    <2>2. CASE QueuePassed(t) \/ StartPassed(t) \/ BlockVerified(t) \/ BlockExecuted(t) \/ ProcessThrows(t)
      BY <1>4, <2>2
         DEF QueuePassed, StartPassed, BlockVerified, Verified, BlockExecuted, Executed, ProcessThrows
    <2> QED BY <1>5, <1>6, <2>1, <2>2 DEF SlotStep
  <1>7. ASSUME NEW m \in Msgs, Receive(m) \/ RecvStep(m)
        PROVE  BlockStays(s)
    <2>1. CASE Receive(m) \/ GotSlot(m) \/ CheckProposal(m)
      BY <1>2, <2>1 DEF Receive, GotSlot, CheckProposal, Unverifiable, objects
    <2>2. CASE HandOver(m)
      <3> DEFINE t == SlotOf[BlockOf[m]]
      <3>1. t \in Slots /\ slot' = [slot EXCEPT ![t] = IF t \in finished THEN slot[t]
                                                      ELSE ProcessBlock(slot[t], BlockOf[m], Awaited)]
        BY <2>2 DEF HandOver, PipelineInv, RecvKnown
      <3>2. CASE s # t \/ t \in finished
        BY <1>1, <3>1, <3>2 DEF BlockStays
      <3>3. CASE s = t /\ t \notin finished
        <4>1. slot' = [slot EXCEPT ![s] = ProcessBlock(slot[s], BlockOf[m], Awaited)]
          BY <3>1, <3>3
        <4>2. Back(items) \in 0..Len(items) /\ Len(items) \in Nat
          BY BackIsItem DEF PipelineInv, TypeOK, QueueTypeOK
        <4>3. Awaited \in Nat
          BY <4>2 DEF Awaited
        <4>4. BlockOf[m] \in NetBlocks
          BY SlotPipelineAssumption
        <4> QED BY <1>1, <4>1, <4>3, <4>4, ProcessedBlockStays
      <3> QED BY <3>2, <3>3
    <2> QED BY <1>7, <2>1, <2>2 DEF RecvStep
  <1>8. CASE StopStep
    BY <1>1, <1>2, <1>8 DEF StopStep, StopCurrent, ForceFinish, Exit, objects, SlotRecord, BlockStays
  <1>9. CASE Cron
    BY <1>1, <1>9 DEF Cron, SlotRecord, BlockStays
  <1>10. CASE Tick \/ Sigterm \/ ServePast \/ UNCHANGED vars
    BY <1>2, <1>10 DEF Tick, Sigterm, ServePast, vars, objects
  <1> QED BY <1>3, <1>6, <1>7, <1>8, <1>9, <1>10 DEF Next

\* A slot keeps the block it was given first (processBlock: "if (this.block) return").
THEOREM SlotKeepsBlock == Spec => BlockKept
  <1>1. PipelineInv /\ [Next]_vars =>
            [\A s \in Slots : slot[s].block # NoBlock =>
                /\ slot'[s].block = slot[s].block
                /\ slot'[s].proc = "queue" => slot[s].proc = "queue"]_vars
    BY BlockStaysStep DEF BlockStays
  <1> QED BY <1>1, PipelineInvariant, PTL DEF Spec, BlockKept
===============================================================================
