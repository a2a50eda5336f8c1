------------------------- MODULE PeerHandshakeProofs --------------------------
(***************************************************************************)
(* Proofs about PeerHandshake: for every set of faults, the connections    *)
(* that the listener trusts are those the dialer trusted first (Trust),    *)
(* and a connection the listener gave up is never trusted later (GivenUp). *)
(***************************************************************************)
EXTENDS PeerHandshake, SequenceTheorems, TLAPS

TypeOK ==
    /\ dialer \in {"own port", "other port", "other version"}
    /\ tcp \in [Ends -> {"none", "accepted", "open", "ending", "closed"}]
    /\ state \in [Ends -> {"none", "OPENING", "READY", "VERIFIED", "CLOSED"}]
    /\ place \in [Ends -> {"out", "queue", "map"}]
    /\ inbox \in [Ends -> Seq(Msgs)]
    /\ step \in [Ends -> {"idle", "dial", "late", "status", "connect", "response", "done"}]
    /\ request \in {"none", "waiting", "timedout"}
    /\ challenge \in {"none", "waiting"}

\* The message m is in q.
Has(q, m) == \E i \in DOMAIN q : q[i] = m

\* The challenge, or its answer, is on its way.
Challenged == Has(inbox["d"], "CHALLENGE")
Answering  == Has(inbox["b"], "CHALLENGE_RESPONSE")

\* The socket of end e has been opened.
Opened(e) == tcp[e] \in {"open", "ending", "closed"}

\* The listener's handshake begins when its socket opens, and both ends are connected
\* by then.
StartsOpen ==
    /\ tcp["a"] = "none" => tcp["b"] = "none"
    /\ step["b"] # "idle" => Opened("b")

\* The client of the challenge, and the request, belong to a listener past STATUS.
AsksAfterStatus ==
    step["b"] \in {"idle", "status"} => step["c"] = "idle" /\ request = "none"

\* The challenge is sent, and answered, only after its client has connected in time.
ChallengedByClient ==
    Challenged \/ Answering => step["c"] = "done"

\* A listener that gives up while its request still waits has sent no challenge, and
\* will not send one.
NoLateAnswer ==
    request = "waiting" /\ step["b"] = "done" =>
        /\ step["c"] # "dial"
        /\ ~ Challenged
        /\ ~ Answering

\* The dialer waits for a challenge on an end that was opened.
WaitsOpen == challenge = "waiting" => Opened("a")

\* An answer is sent by a dialer that trusts its end, and has the port it named.
AnswerIsTrust ==
    Answering \/ state["b"] = "VERIFIED" =>
        /\ dialer = "own port"
        /\ state["a"] \in {"VERIFIED", "CLOSED"}
        /\ Opened("a")

HandshakeInv ==
    /\ TypeOK
    /\ MapVerified
    /\ StartsOpen
    /\ AsksAfterStatus
    /\ ChallengedByClient
    /\ NoLateAnswer
    /\ WaitsOpen
    /\ AnswerIsTrust

-------------------------------------------------------------------------------
(***************************************************************************)
(* What the operations do to the messages on their way, and to the sockets.*)
(***************************************************************************)

Boxes   == [Ends -> Seq(Msgs)]
Sockets == [Ends -> {"none", "accepted", "open", "ending", "closed"}]

\* A box that holds no challenge and no answer but those of the inboxes.
NothingNew(box) ==
    /\ box \in Boxes
    /\ Has(box["d"], "CHALLENGE") => Challenged
    /\ Has(box["b"], "CHALLENGE_RESPONSE") => Answering

\* Sockets as they are, but that some open ones are ending.
OnlyEnding(sockets) ==
    /\ sockets \in Sockets
    /\ \A e \in Ends : sockets[e] = tcp[e] \/ (tcp[e] = "open" /\ sockets[e] = "ending")

\* A sequence with one more message has that one and those it had.
LEMMA AppendHas ==
    ASSUME NEW q \in Seq(Msgs), NEW m \in Msgs, NEW n
    PROVE  /\ q \o <<m>> \in Seq(Msgs)
           /\ Append(q, m) = q \o <<m>>
           /\ Has(q \o <<m>>, n) <=> Has(q, n) \/ n = m
  <1>1. q \o <<m>> \in Seq(Msgs) /\ Append(q, m) = q \o <<m>>
    OBVIOUS
  <1>2. Len(q \o <<m>>) = Len(q) + 1 /\ (q \o <<m>>)[Len(q) + 1] = m
    OBVIOUS
  <1>3. \A i \in 1..Len(q) : (q \o <<m>>)[i] = q[i]
    OBVIOUS
  <1>4. DOMAIN q = 1..Len(q) /\ DOMAIN (q \o <<m>>) = 1..(Len(q) + 1) /\ Len(q) \in Nat
    OBVIOUS
  <1> HIDE DEF Has
  <1>5. Has(q, n) <=> \E i \in 1..Len(q) : q[i] = n
    BY <1>4 DEF Has
  <1>6. Has(q \o <<m>>, n) <=> \E i \in 1..(Len(q) + 1) : (q \o <<m>>)[i] = n
    BY <1>4 DEF Has
  <1>7. \A i : i \in 1..(Len(q) + 1) <=> i \in 1..Len(q) \/ i = Len(q) + 1
    BY <1>4
  <1>8. Has(q \o <<m>>, n) <=> Has(q, n) \/ n = m
    BY <1>2, <1>3, <1>5, <1>6, <1>7, Zenon
  <1> QED BY <1>1, <1>8

\* What remains after the first message was there before, and so was the first.
LEMMA TailHas ==
    ASSUME NEW q \in Seq(Msgs), q # << >>, NEW n
    PROVE  /\ Tail(q) \in Seq(Msgs)
           /\ Has(Tail(q), n) => Has(q, n)
           /\ Has(q, Head(q))
  <1>1. Tail(q) \in Seq(Msgs) /\ Len(q) \in Nat /\ Len(q) >= 1
    OBVIOUS
  <1>2. \A i \in 1..(Len(q) - 1) : Tail(q)[i] = q[i + 1] /\ i + 1 \in 1..Len(q)
    OBVIOUS
  <1>3. DOMAIN Tail(q) = 1..(Len(q) - 1) /\ DOMAIN q = 1..Len(q)
    OBVIOUS
  <1>4. Has(Tail(q), n) => Has(q, n)
    BY <1>2, <1>3 DEF Has
  <1>5. 1 \in DOMAIN q /\ Head(q) = q[1]
    BY <1>1, <1>3
  <1> QED BY <1>1, <1>4, <1>5 DEF Has

\* Sending one of the other messages brings no challenge and no answer.
LEMMA SentNothingNew ==
    ASSUME NEW box, NothingNew(box), NEW e \in Ends,
           NEW m \in {"STATUS", "FIN", "CHALLENGE_REQ"}
    PROVE  NothingNew(Sent(box, e, <<m>>))
  <1>1. CASE tcp[e] # "open"
    BY <1>1 DEF Sent
  <1>2. CASE tcp[e] = "open"
    <2> DEFINE p == Peer(e)
               new == [box EXCEPT ![p] = box[p] \o <<m>>]
    <2>1. Sent(box, e, <<m>>) = new
      BY <1>2 DEF Sent
    <2>2. p \in Ends /\ box \in Boxes /\ box[p] \in Seq(Msgs) /\ m \in Msgs
      BY DEF NothingNew, Peer, Ends, Boxes, Msgs
    <2> HIDE DEF p
    <2>3. \A n : Has(box[p] \o <<m>>, n) <=> Has(box[p], n) \/ n = m
      BY <2>2, AppendHas
    <2>4. box[p] \o <<m>> \in Seq(Msgs)
      BY <2>2, AppendHas
    <2>5. new \in Boxes /\ new[p] = box[p] \o <<m>> /\ \A x \in Ends \ {p} : new[x] = box[x]
      BY <2>2, <2>4 DEF Boxes
    <2> HIDE DEF new
    <2>6. \A n : \A x \in Ends : Has(new[x], n) => Has(box[x], n) \/ n = m
      BY <2>3, <2>5, Zenon
    <2>7. NothingNew(new)
      BY <2>5, <2>6 DEF NothingNew, Ends
    <2> QED BY <2>1, <2>7
  <1> QED BY <1>1, <1>2

\* Neither does ending a connection.
LEMMA FarewellNothingNew ==
    ASSUME NEW box, NothingNew(box), NEW e \in Ends
    PROVE  NothingNew(Farewell(e, box))
  BY SentNothingNew DEF Farewell

\* The inboxes bring nothing new, nor do they without the message that is received.
LEMMA RestNothingNew ==
    ASSUME TypeOK
    PROVE  /\ NothingNew(inbox)
           /\ \A e \in Ends, m \in Msgs : Gets(e, m) => NothingNew(Rest(e)) /\ Has(inbox[e], m)
  <1>1. NothingNew(inbox)
    BY DEF NothingNew, TypeOK, Boxes, Challenged, Answering
  <1>2. ASSUME NEW e \in Ends, NEW m \in Msgs, Gets(e, m)
        PROVE  NothingNew(Rest(e)) /\ Has(inbox[e], m)
    <2>1. inbox \in Boxes /\ inbox[e] \in Seq(Msgs) /\ inbox[e] # << >> /\ Head(inbox[e]) = m
      BY <1>2 DEF Gets, TypeOK, Boxes
    <2>2. Tail(inbox[e]) \in Seq(Msgs) /\ Has(inbox[e], m)
      BY <2>1, TailHas
    <2>3. \A n : Has(Tail(inbox[e]), n) => Has(inbox[e], n)
      BY <2>1, TailHas
    <2> DEFINE new == [inbox EXCEPT ![e] = Tail(inbox[e])]
    <2>4. new \in Boxes /\ new[e] = Tail(inbox[e]) /\ \A x \in Ends \ {e} : new[x] = inbox[x]
      BY <2>1, <2>2 DEF Boxes
    <2>5. Rest(e) = new
      BY DEF Rest
    <2> HIDE DEF new
    <2>6. \A n : \A x \in Ends : Has(new[x], n) => Has(inbox[x], n)
      BY <2>3, <2>4, Zenon
    <2>7. NothingNew(new)
      BY <2>4, <2>6 DEF NothingNew, Ends, Challenged, Answering
    <2> QED BY <2>2, <2>5, <2>7
  <1> QED BY <1>1, <1>2

\* PeerSocket.close ends an open socket at most.
LEMMA EndedOnlyEnding ==
    ASSUME TypeOK, NEW e \in Ends
    PROVE  OnlyEnding(Ended(e)) /\ OnlyEnding(tcp)
  <1>1. tcp \in Sockets
    BY DEF TypeOK, Sockets
  <1>2. OnlyEnding(tcp)
    BY <1>1 DEF OnlyEnding
  <1> DEFINE new == [tcp EXCEPT ![e] = "ending"]
  <1>3. new \in Sockets /\ new[e] = "ending" /\ \A x \in Ends \ {e} : new[x] = tcp[x]
    BY <1>1 DEF Sockets
  <1> HIDE DEF new
  <1>4. tcp[e] = "open" => OnlyEnding(new)
    BY <1>3 DEF OnlyEnding
  <1>5. (Ended(e) = new /\ tcp[e] = "open") \/ Ended(e) = tcp
    BY DEF Ended, new
  <1> QED BY <1>2, <1>4, <1>5

-------------------------------------------------------------------------------
(***************************************************************************)
(* The invariant.                                                          *)
(***************************************************************************)

\* The parts of the invariant, given what a step does to the sockets and the inboxes.
LEMMA SocketsEnd ==
    ASSUME HandshakeInv, OnlyEnding(tcp')
    PROVE  /\ \A e \in Ends : Opened(e) => Opened(e)'
           /\ \A e \in Ends : tcp'[e] = "none" <=> tcp[e] = "none"
           /\ \A e \in Ends : tcp'[e] = "closed" => tcp[e] = "closed"
           /\ tcp' \in Sockets
  BY DEF OnlyEnding, Opened

\* A step that leaves the handshake alone: connections may be ending, messages may be
\* read, and only STATUS, FIN and CHALLENGE_REQ are sent.
LEMMA QuietInv ==
    ASSUME HandshakeInv, OnlyEnding(tcp'), NothingNew(inbox'),
           UNCHANGED <<dialer, state, place, step, request>>, challenge' \in {challenge, "none"}
    PROVE  HandshakeInv'
  <1>1. /\ \A e \in Ends : Opened(e) => Opened(e)'
        /\ \A e \in Ends : tcp'[e] = "none" <=> tcp[e] = "none"
        /\ \A e \in Ends : tcp'[e] = "closed" => tcp[e] = "closed"
        /\ tcp' \in Sockets
    BY SocketsEnd
  <1>2. Challenged' => Challenged
    BY DEF NothingNew, Challenged
  <1>3. Answering' => Answering
    BY DEF NothingNew, Answering
  <1>4. TypeOK'
    BY <1>1 DEF HandshakeInv, TypeOK, Sockets, NothingNew, Boxes
  <1>5. MapVerified'
    BY <1>1 DEF HandshakeInv, MapVerified
  <1>6. StartsOpen' /\ WaitsOpen'
    BY <1>1 DEF HandshakeInv, StartsOpen, WaitsOpen, Ends
  <1>7. AsksAfterStatus' /\ ChallengedByClient' /\ NoLateAnswer'
    BY <1>2, <1>3 DEF HandshakeInv, AsksAfterStatus, ChallengedByClient, NoLateAnswer
  <1>8. AnswerIsTrust'
    BY <1>1, <1>3 DEF HandshakeInv, AnswerIsTrust, Ends
  <1> QED BY <1>4, <1>5, <1>6, <1>7, <1>8 DEF HandshakeInv

\* The socket of end e is ending or closed, and forgotten with its state CLOSED.
LEMMA GoneInv ==
    ASSUME HandshakeInv, NEW e \in Ends, tcp[e] \in {"open", "ending"},
           tcp' = [tcp EXCEPT ![e] = "closed"], Gone(e), NothingNew(inbox'),
           UNCHANGED <<dialer, step, request, challenge>>
    PROVE  HandshakeInv'
  <1>1. /\ tcp' \in Sockets
        /\ tcp'[e] = "closed"
        /\ \A x \in Ends \ {e} : tcp'[x] = tcp[x]
    BY DEF HandshakeInv, TypeOK, Sockets
  <1>2. /\ state' \in [Ends -> {"none", "OPENING", "READY", "VERIFIED", "CLOSED"}]
        /\ state'[e] = "CLOSED"
        /\ \A x \in Ends \ {e} : state'[x] = state[x]
    BY DEF HandshakeInv, TypeOK, Gone
  <1>3. /\ place' \in [Ends -> {"out", "queue", "map"}]
        /\ place'[e] = "out"
        /\ \A x \in Ends \ {e} : place'[x] = place[x]
    BY DEF HandshakeInv, TypeOK, Gone, Removed
  <1>4. UNCHANGED dialer /\ UNCHANGED step /\ UNCHANGED request /\ UNCHANGED challenge
    OBVIOUS
  <1>5. Challenged' => Challenged
    BY DEF NothingNew, Challenged
  <1>6. Answering' => Answering
    BY DEF NothingNew, Answering
  <1>7. \A x \in Ends : (Opened(x) => Opened(x)') /\ (tcp'[x] = "none" <=> tcp[x] = "none")
    BY <1>1 DEF Opened
  <1>8. TypeOK'
    BY <1>1, <1>2, <1>3, <1>4 DEF HandshakeInv, TypeOK, Sockets, NothingNew, Boxes
  <1>9. MapVerified'
    BY <1>1, <1>2, <1>3 DEF HandshakeInv, MapVerified
  <1>10. StartsOpen' /\ WaitsOpen'
    BY <1>4, <1>7 DEF HandshakeInv, StartsOpen, WaitsOpen, Ends
  <1>11. AsksAfterStatus' /\ ChallengedByClient' /\ NoLateAnswer'
    BY <1>4, <1>5, <1>6 DEF HandshakeInv, AsksAfterStatus, ChallengedByClient, NoLateAnswer
  <1>12. AnswerIsTrust'
    BY <1>2, <1>4, <1>6, <1>7 DEF HandshakeInv, AnswerIsTrust, Ends
  <1> QED BY <1>8, <1>9, <1>10, <1>11, <1>12 DEF HandshakeInv

\* The initial states.
LEMMA InitInv == Init => HandshakeInv
  <1> SUFFICES ASSUME Init PROVE HandshakeInv
    OBVIOUS
  <1>1. << >> \in Seq(Msgs) /\ DOMAIN << >> = {}
    OBVIOUS
  <1>2. inbox \in [Ends -> Seq(Msgs)] /\ step \in [Ends -> {"idle", "dial"}]
    BY <1>1 DEF Init
  <1>3. TypeOK
    BY <1>2 DEF Init, TypeOK
  <1>4. inbox["d"] = << >> /\ inbox["b"] = << >>
    BY DEF Init, Ends
  <1>5. ~ Challenged /\ ~ Answering
    BY <1>1, <1>4 DEF Challenged, Answering, Has
  <1> QED
    BY <1>3, <1>5 DEF Init, HandshakeInv, MapVerified, StartsOpen, AsksAfterStatus, ChallengedByClient,
                      NoLateAnswer, WaitsOpen, AnswerIsTrust, Ends

\* TCP connects the two ends of a connection.
LEMMA EstablishInv ==
    ASSUME HandshakeInv, NEW e \in Out, Establish(e)
    PROVE  HandshakeInv'
  <1>1. Peer(e) \in Ends /\ e \in Ends /\ ((e = "a" /\ Peer(e) = "b") \/ (e = "c" /\ Peer(e) = "d"))
    <2>1. CASE e = "a"
      BY <2>1 DEF Ends, Peer
    <2>2. CASE e = "c"
      BY <2>2 DEF Ends, Peer
    <2> QED BY <2>1, <2>2 DEF Out
  <1>2. /\ tcp[e] = "none"
        /\ tcp' = [tcp EXCEPT ![e] = "accepted", ![Peer(e)] = "accepted"]
    BY DEF Establish
  <1>3. /\ UNCHANGED dialer /\ UNCHANGED state /\ UNCHANGED place /\ UNCHANGED inbox
        /\ UNCHANGED step /\ UNCHANGED request /\ UNCHANGED challenge
    BY DEF Establish
  <1>4. /\ tcp' \in Sockets
        /\ tcp'[e] = "accepted" /\ tcp'[Peer(e)] = "accepted"
        /\ \A x \in Ends \ {e, Peer(e)} : tcp'[x] = tcp[x]
    BY <1>1, <1>2 DEF HandshakeInv, TypeOK, Sockets
  <1>5. (Opened("a") => Opened("a")') /\ (tcp["b"] # "none" => tcp["a"] # "none")
    BY <1>1, <1>2, <1>4 DEF Opened, HandshakeInv, StartsOpen, Ends
  <1>6. TypeOK'
    BY <1>3, <1>4 DEF HandshakeInv, TypeOK, Sockets
  <1>7. MapVerified'
    <2>1. \A x \in Ends : tcp'[x] = "closed" => tcp[x] = "closed"
      BY <1>4
    <2> QED BY <1>3, <2>1 DEF HandshakeInv, MapVerified
  <1>8. StartsOpen'
    BY <1>1, <1>2, <1>3, <1>4 DEF HandshakeInv, StartsOpen, Opened, Ends
  <1>9. AsksAfterStatus' /\ ChallengedByClient' /\ NoLateAnswer'
    BY <1>3 DEF HandshakeInv, AsksAfterStatus, ChallengedByClient, NoLateAnswer, Challenged, Answering
  <1>10. WaitsOpen' /\ AnswerIsTrust'
    BY <1>3, <1>5 DEF HandshakeInv, WaitsOpen, AnswerIsTrust, Answering
  <1> QED BY <1>6, <1>7, <1>8, <1>9, <1>10 DEF HandshakeInv

\* connect fails, or is given up: the listener whose challenge client it is gives up.
LEMMA NoConnectionInv ==
    ASSUME HandshakeInv, NEW e \in Out, Refused(e) \/ ConnectTimeout(e)
    PROVE  HandshakeInv'
  <1>1. /\ UNCHANGED dialer /\ UNCHANGED state /\ UNCHANGED place
        /\ UNCHANGED request /\ UNCHANGED challenge
    BY DEF Refused, ConnectTimeout
  <1>2. Dialing(e) /\ e \in {"a", "c"} /\ e \in Ends
    BY DEF Refused, ConnectTimeout, Dialing, Out, Ends
  <1>3. OnlyEnding(tcp') /\ NothingNew(inbox')
    <2>1. TypeOK /\ "b" \in Ends
      BY DEF HandshakeInv, Ends
    <2>2. OnlyEnding(tcp) /\ OnlyEnding(Ended("b"))
      BY <2>1, EndedOnlyEnding
    <2>3. NothingNew(inbox) /\ NothingNew(Farewell("b", inbox))
      BY <2>1, RestNothingNew, FarewellNothingNew
    <2> QED BY <2>2, <2>3 DEF Refused, ConnectTimeout, ConnectNull, Close, CloseWith
  <1>4. /\ \A x \in Ends : Opened(x) => Opened(x)'
        /\ \A x \in Ends : tcp'[x] = "none" <=> tcp[x] = "none"
        /\ \A x \in Ends : tcp'[x] = "closed" => tcp[x] = "closed"
        /\ tcp' \in Sockets
    BY <1>3, SocketsEnd
  <1>5. (Challenged' => Challenged) /\ (Answering' => Answering)
    BY <1>3 DEF NothingNew, Challenged, Answering
  <1>6. PICK to \in {"done", "late"} :
            step' = [step EXCEPT ![e] = to, !["b"] = IF e = "c" THEN "done" ELSE @]
    BY DEF Refused, ConnectTimeout
  <1>7. /\ step' \in [Ends -> {"idle", "dial", "late", "status", "connect", "response", "done"}]
        /\ step'["b"] = IF e = "c" THEN "done" ELSE step["b"]
        /\ step'["c"] = IF e = "c" THEN to ELSE step["c"]
    BY <1>2, <1>6 DEF HandshakeInv, TypeOK, Ends
  <1>8. e = "c" => step["b"] \notin {"idle", "status"} /\ ~ Challenged /\ ~ Answering
    BY <1>2 DEF HandshakeInv, AsksAfterStatus, ChallengedByClient, Dialing
  <1>9. TypeOK'
    BY <1>1, <1>3, <1>4, <1>7 DEF HandshakeInv, TypeOK, Sockets, NothingNew, Boxes
  <1>10. MapVerified'
    BY <1>1, <1>4 DEF HandshakeInv, MapVerified
  <1>11. StartsOpen' /\ WaitsOpen'
    BY <1>1, <1>4, <1>7, <1>8 DEF HandshakeInv, StartsOpen, WaitsOpen, Ends
  <1>12. AsksAfterStatus' /\ ChallengedByClient' /\ NoLateAnswer'
    BY <1>1, <1>5, <1>7, <1>8 DEF HandshakeInv, AsksAfterStatus, ChallengedByClient, NoLateAnswer
  <1>13. AnswerIsTrust'
    BY <1>1, <1>4, <1>5 DEF HandshakeInv, AnswerIsTrust, Ends
  <1> QED BY <1>9, <1>10, <1>11, <1>12, <1>13 DEF HandshakeInv

\* The socket of an incoming end opens.
LEMMA OpenServerInv ==
    ASSUME HandshakeInv, NEW e \in Ends, OpenServer(e)
    PROVE  HandshakeInv'
  <1>1. /\ UNCHANGED dialer /\ UNCHANGED inbox /\ UNCHANGED request /\ UNCHANGED challenge
        /\ e \in {"b", "d"} /\ tcp[e] = "accepted"
    BY DEF OpenServer, In, Out, Ends
  <1>2. /\ tcp' \in Sockets /\ tcp'[e] = "open" /\ \A x \in Ends \ {e} : tcp'[x] = tcp[x]
    BY DEF HandshakeInv, TypeOK, OpenServer, Sockets
  <1>3. /\ state' \in [Ends -> {"none", "OPENING", "READY", "VERIFIED", "CLOSED"}]
        /\ state'[e] = "READY" /\ \A x \in Ends \ {e} : state'[x] = state[x]
    BY DEF HandshakeInv, TypeOK, OpenServer
  <1>4. /\ place' \in [Ends -> {"out", "queue", "map"}]
        /\ place'[e] = "queue" /\ \A x \in Ends \ {e} : place'[x] = place[x]
    BY DEF HandshakeInv, TypeOK, OpenServer, Queued, Added
  <1>5. /\ step' \in [Ends -> {"idle", "dial", "late", "status", "connect", "response", "done"}]
        /\ step'[e] = "status" /\ \A x \in Ends \ {e} : step'[x] = step[x]
    BY DEF HandshakeInv, TypeOK, OpenServer
  <1>6. \A x \in Ends : Opened(x) => Opened(x)'
    BY <1>2 DEF Opened
  <1>7. e = "b" => step["b"] = "idle"
    BY <1>1 DEF HandshakeInv, StartsOpen, Opened
  <1>8. TypeOK'
    BY <1>1, <1>2, <1>3, <1>4, <1>5 DEF HandshakeInv, TypeOK, Sockets
  <1>9. MapVerified'
    BY <1>2, <1>3, <1>4 DEF HandshakeInv, MapVerified
  <1>10. StartsOpen'
    BY <1>1, <1>2, <1>5 DEF HandshakeInv, StartsOpen, Opened, Ends
  <1>11. AsksAfterStatus' /\ ChallengedByClient' /\ NoLateAnswer'
    BY <1>1, <1>5, <1>7
    DEF HandshakeInv, AsksAfterStatus, ChallengedByClient, NoLateAnswer, Challenged, Answering, Ends
  <1>12. WaitsOpen' /\ AnswerIsTrust'
    BY <1>1, <1>3, <1>6 DEF HandshakeInv, WaitsOpen, AnswerIsTrust, Answering, Ends
  <1> QED BY <1>8, <1>9, <1>10, <1>11, <1>12 DEF HandshakeInv

\* The socket of an outgoing end opens, in time or late; the challenge is sent by an
\* end c that opens in time.
LEMMA OpenClientInv ==
    ASSUME HandshakeInv, NEW e \in Out, OpenClient(e)
    PROVE  HandshakeInv'
  <1> DEFINE Steps == {"idle", "dial", "late", "status", "connect", "response", "done"}
  <1>1. /\ UNCHANGED dialer /\ UNCHANGED request /\ UNCHANGED challenge
        /\ e \in {"a", "c"} /\ e \in Ends /\ tcp[e] = "accepted" /\ step[e] \in {"dial", "late"}
    BY DEF OpenClient, Dialing, Out, Ends
  <1>2. TypeOK /\ NothingNew(inbox) /\ NothingNew(Farewell("b", inbox)) /\ OnlyEnding(Ended("b"))
    BY RestNothingNew, FarewellNothingNew, EndedOnlyEnding DEF HandshakeInv, Ends
  <1>3. /\ place' \in [Ends -> {"out", "queue", "map"}]
        /\ place'[e] = "queue" /\ \A x \in Ends \ {e} : place'[x] = place[x]
    BY <1>1, <1>2 DEF TypeOK, OpenClient, Queued, Added
  <1>4. PICK to \in {"OPENING", "READY", "CLOSED"} : state' = [state EXCEPT ![e] = to]
    BY <1>1 DEF OpenClient
  <1>5. /\ state' \in [Ends -> {"none", "OPENING", "READY", "VERIFIED", "CLOSED"}]
        /\ state'[e] # "VERIFIED" /\ \A x \in Ends \ {e} : state'[x] = state[x]
    BY <1>1, <1>2, <1>4 DEF TypeOK
  <1>6. \/ tcp' = [tcp EXCEPT ![e] = "open"]
        \/ tcp' = [Ended("b") EXCEPT ![e] = "open"]
    BY <1>1 DEF OpenClient
  <1>7. /\ tcp' \in Sockets /\ tcp'[e] = "open"
        /\ \A x \in Ends \ {e} : tcp'[x] = tcp[x] \/ (tcp[x] = "open" /\ tcp'[x] = "ending")
    <2>1. tcp \in Sockets
      BY <1>2 DEF TypeOK, Sockets
    <2>2. CASE tcp' = [tcp EXCEPT ![e] = "open"]
      BY <1>1, <2>1, <2>2 DEF Sockets
    <2>3. CASE tcp' = [Ended("b") EXCEPT ![e] = "open"]
      BY <1>1, <1>2, <2>3 DEF OnlyEnding, Sockets
    <2> QED BY <1>6, <2>2, <2>3
  <1>8. \A x \in Ends : Opened(x) => Opened(x)'
    BY <1>7 DEF Opened
  <1>9. /\ step' \in [Ends -> Steps]
        /\ e = "c" => step'["c"] = "done"
        /\ e = "a" => step'["b"] = step["b"] /\ step'["c"] = step["c"]
        /\ step'["b"] = step["b"] \/ (step'["b"] \in {"response", "done"} /\ step["c"] = "dial" /\ e = "c")
    <2>1. step \in [Ends -> Steps]
      BY <1>2 DEF TypeOK
    <2>2. \/ \E next \in {"done", "status"} : step' = [step EXCEPT ![e] = next] /\ (e = "c" => next = "done")
          \/ /\ e = "c" /\ step["c"] = "dial"
             /\ \E next \in {"response", "done"} : step' = [step EXCEPT !["c"] = "done", !["b"] = next]
      BY <1>1 DEF OpenClient
    <2> QED BY <1>1, <2>1, <2>2 DEF Ends
  <1>10. /\ inbox' \in Boxes
         /\ Answering' => Answering
         /\ Challenged' => Challenged \/ e = "c"
         /\ request = "waiting" /\ step'["b"] = "done" => step["b"] = "done" /\ (Challenged' => Challenged)
    <2>1. CASE step[e] = "late"
      BY <1>1, <1>2, <2>1 DEF OpenClient, TypeOK, Boxes, Challenged, Answering, Ends
    <2>2. CASE step[e] = "dial" /\ e = "a"
      <3>1. inbox' = [inbox EXCEPT !["b"] = Append(inbox["b"], "STATUS")] /\ step'["b"] = step["b"]
        BY <1>9, <2>2 DEF OpenClient
      <3>2. inbox["b"] \in Seq(Msgs) /\ "STATUS" \in Msgs /\ inbox \in Boxes
        BY <1>2 DEF TypeOK, Boxes, Ends, Msgs
      <3>3. /\ inbox["b"] \o <<"STATUS">> \in Seq(Msgs)
            /\ Append(inbox["b"], "STATUS") = inbox["b"] \o <<"STATUS">>
        BY <3>2, AppendHas
      <3>4. Has(inbox["b"] \o <<"STATUS">>, "CHALLENGE_RESPONSE") => Has(inbox["b"], "CHALLENGE_RESPONSE")
        BY <3>2, AppendHas
      <3>5. inbox' \in Boxes /\ inbox'["b"] = inbox["b"] \o <<"STATUS">> /\ inbox'["d"] = inbox["d"]
        BY <3>1, <3>2, <3>3 DEF Boxes, Ends
      <3> QED BY <3>1, <3>4, <3>5 DEF Challenged, Answering
    <2>3. CASE step[e] = "dial" /\ e = "c"
      <3>1. PICK box : NothingNew(box) /\ inbox' = [box EXCEPT !["d"] = Append(box["d"], "CHALLENGE")]
        <4>1. CASE request = "waiting"
          BY <1>2, <2>3, <4>1 DEF OpenClient
        <4>2. CASE request # "waiting"
          BY <1>2, <2>3, <4>2 DEF OpenClient
        <4> QED BY <4>1, <4>2
      <3>2. box \in Boxes /\ box["d"] \in Seq(Msgs) /\ "CHALLENGE" \in Msgs
        BY <3>1 DEF NothingNew, Boxes, Ends, Msgs
      <3>3. Append(box["d"], "CHALLENGE") \in Seq(Msgs)
        BY <3>2, AppendHas
      <3>4. inbox' \in Boxes /\ inbox'["b"] = box["b"]
        BY <3>1, <3>2, <3>3 DEF Boxes, Ends
      <3>5. request = "waiting" => step'["b"] = "response"
        <4>1. step \in [Ends -> Steps]
          BY <1>2 DEF TypeOK
        <4>2. request = "waiting" => step' = [step EXCEPT !["c"] = "done", !["b"] = "response"]
          BY <2>3 DEF OpenClient
        <4> QED BY <4>1, <4>2 DEF Ends
      <3> QED BY <2>3, <3>1, <3>4, <3>5 DEF NothingNew, Answering
    <2> QED BY <1>1, <2>1, <2>2, <2>3
  <1> HIDE DEF Steps
  <1>11. e = "a" => challenge # "waiting" /\ ~ Answering /\ state["b"] # "VERIFIED"
    BY <1>1 DEF HandshakeInv, WaitsOpen, AnswerIsTrust, Opened
  <1>12. e = "c" => step["b"] \notin {"idle", "status"}
    BY <1>1 DEF HandshakeInv, AsksAfterStatus
  <1>13. TypeOK'
    BY <1>1, <1>2, <1>3, <1>5, <1>7, <1>9, <1>10 DEF TypeOK, Sockets, Boxes, Steps
  <1>14. MapVerified'
    BY <1>3, <1>5, <1>7 DEF HandshakeInv, MapVerified
  <1>15. StartsOpen'
    <2>1. (tcp'["a"] = "none" => tcp["a"] = "none") /\ (tcp["b"] = "none" => tcp'["b"] = "none")
      BY <1>1, <1>7 DEF Ends
    <2>2. step'["b"] # "idle" => step["b"] # "idle"
      BY <1>9, <1>12
    <2> QED BY <1>8, <2>1, <2>2 DEF HandshakeInv, StartsOpen, Ends
  <1>16. AsksAfterStatus'
    BY <1>1, <1>9, <1>12 DEF HandshakeInv, AsksAfterStatus
  <1>17. ChallengedByClient'
    BY <1>1, <1>9, <1>10 DEF HandshakeInv, ChallengedByClient
  <1>18. NoLateAnswer'
    BY <1>1, <1>9, <1>10 DEF HandshakeInv, NoLateAnswer
  <1>19. WaitsOpen' /\ AnswerIsTrust'
    BY <1>1, <1>5, <1>8, <1>10, <1>11 DEF HandshakeInv, WaitsOpen, AnswerIsTrust, Ends
  <1> QED BY <1>13, <1>14, <1>15, <1>16, <1>17, <1>18, <1>19 DEF HandshakeInv

\* STATUS: the listener goes on with its handshake, asks for a challenge and dials; all
\* others are done with theirs.
LEMMA RecvStatusInv ==
    ASSUME HandshakeInv, NEW e \in Ends, RecvStatus(e)
    PROVE  HandshakeInv'
  <1> DEFINE Steps == {"idle", "dial", "late", "status", "connect", "response", "done"}
  <1>1. /\ UNCHANGED dialer /\ UNCHANGED state /\ UNCHANGED place /\ UNCHANGED challenge
        /\ TypeOK /\ "STATUS" \in Msgs /\ "b" \in Ends
    BY DEF RecvStatus, HandshakeInv, Msgs, Ends
  <1>2. NothingNew(Rest(e)) /\ NothingNew(Farewell(e, Rest(e))) /\ NothingNew(StatusSent(Rest(e), e))
    BY <1>1, RestNothingNew, FarewellNothingNew, SentNothingNew DEF RecvStatus, StatusSent
  <1>3. NothingNew(Sent(StatusSent(Rest(e), e), "b", <<"CHALLENGE_REQ">>))
    BY <1>1, <1>2, SentNothingNew
  <1>4. OnlyEnding(tcp) /\ OnlyEnding(Ended(e))
    BY <1>1, EndedOnlyEnding
  <1>5. OnlyEnding(tcp') /\ NothingNew(inbox')
    BY <1>2, <1>3, <1>4 DEF RecvStatus, CloseWith, ChallengeClient, Requested
  <1>6. /\ \A x \in Ends : Opened(x) => Opened(x)'
        /\ \A x \in Ends : tcp'[x] = "none" <=> tcp[x] = "none"
        /\ \A x \in Ends : tcp'[x] = "closed" => tcp[x] = "closed"
        /\ tcp' \in Sockets
    BY <1>5, SocketsEnd
  <1>7. (Challenged' => Challenged) /\ (Answering' => Answering)
    BY <1>5 DEF NothingNew, Challenged, Answering
  <1>8. \/ /\ e = "b" /\ step["b"] = "status"
           /\ step' = [step EXCEPT !["b"] = "connect", !["c"] = "dial"]
           /\ request' = "waiting"
        \/ /\ step' = [step EXCEPT ![e] = IF step[e] = "status" THEN "done" ELSE step[e]]
           /\ request' = request
    BY DEF RecvStatus, ChallengeClient, Requested
  <1>9. step \in [Ends -> Steps] /\ step' \in [Ends -> Steps]
    BY <1>1, <1>8 DEF TypeOK
  <1>10. /\ step'["b"] # "idle" => step["b"] # "idle"
         /\ \/ /\ step["b"] = "status"
               /\ step'["b"] = "connect" /\ step'["c"] = "dial" /\ request' = "waiting"
            \/ /\ request' = request
               /\ step["b"] = "status" => step'["b"] \in {"status", "done"}
               /\ step["b"] # "status" => step'["b"] = step["b"]
               /\ step'["c"] = IF step["c"] = "status" /\ e = "c" THEN "done" ELSE step["c"]
    BY <1>8, <1>9 DEF Ends
  <1> HIDE DEF Steps
  <1>11. TypeOK'
    BY <1>1, <1>5, <1>6, <1>9, <1>10 DEF TypeOK, Sockets, NothingNew, Boxes, Steps
  <1>12. MapVerified'
    BY <1>1, <1>6 DEF HandshakeInv, MapVerified
  <1>13. StartsOpen' /\ WaitsOpen'
    BY <1>1, <1>6, <1>10 DEF HandshakeInv, StartsOpen, WaitsOpen, Ends
  <1>14. AsksAfterStatus' /\ ChallengedByClient' /\ NoLateAnswer'
    BY <1>7, <1>10 DEF HandshakeInv, AsksAfterStatus, ChallengedByClient, NoLateAnswer
  <1>15. AnswerIsTrust'
    BY <1>1, <1>6, <1>7 DEF HandshakeInv, AnswerIsTrust, Ends
  <1> QED BY <1>11, <1>12, <1>13, <1>14, <1>15 DEF HandshakeInv

\* The other node's STATUS does not come: the end is closed and done.
LEMMA StatusTimeoutInv ==
    ASSUME HandshakeInv, NEW e \in Ends, StatusTimeout(e)
    PROVE  HandshakeInv'
  <1>1. /\ UNCHANGED dialer /\ UNCHANGED state /\ UNCHANGED place
        /\ UNCHANGED request /\ UNCHANGED challenge
        /\ TypeOK /\ step[e] = "status"
    BY DEF StatusTimeout, HandshakeInv
  <1>2. OnlyEnding(tcp') /\ NothingNew(inbox')
    BY <1>1, RestNothingNew, FarewellNothingNew, EndedOnlyEnding DEF StatusTimeout, Close, CloseWith
  <1>3. /\ \A x \in Ends : Opened(x) => Opened(x)'
        /\ \A x \in Ends : tcp'[x] = "none" <=> tcp[x] = "none"
        /\ \A x \in Ends : tcp'[x] = "closed" => tcp[x] = "closed"
        /\ tcp' \in Sockets
    BY <1>2, SocketsEnd
  <1>4. (Challenged' => Challenged) /\ (Answering' => Answering)
    BY <1>2 DEF NothingNew, Challenged, Answering
  <1>5. /\ step' \in [Ends -> {"idle", "dial", "late", "status", "connect", "response", "done"}]
        /\ step'[e] = "done" /\ \A x \in Ends \ {e} : step'[x] = step[x]
    BY <1>1 DEF StatusTimeout, TypeOK
  <1>6. TypeOK'
    BY <1>1, <1>2, <1>3, <1>5 DEF TypeOK, Sockets, NothingNew, Boxes
  <1>7. MapVerified'
    BY <1>1, <1>3 DEF HandshakeInv, MapVerified
  <1>8. StartsOpen' /\ WaitsOpen'
    BY <1>1, <1>3, <1>5 DEF HandshakeInv, StartsOpen, WaitsOpen, Ends
  <1>9. AsksAfterStatus' /\ ChallengedByClient' /\ NoLateAnswer'
    BY <1>1, <1>4, <1>5 DEF HandshakeInv, AsksAfterStatus, ChallengedByClient, NoLateAnswer, Ends
  <1>10. AnswerIsTrust'
    BY <1>1, <1>3, <1>4 DEF HandshakeInv, AnswerIsTrust, Ends
  <1> QED BY <1>6, <1>7, <1>8, <1>9, <1>10 DEF HandshakeInv

\* The dialer is asked for a challenge to come.
LEMMA RecvChallengeReqInv ==
    ASSUME HandshakeInv, RecvChallengeReq
    PROVE  HandshakeInv'
  <1>1. /\ UNCHANGED dialer /\ UNCHANGED tcp /\ UNCHANGED state /\ UNCHANGED place
        /\ UNCHANGED step /\ UNCHANGED request
        /\ challenge' = "waiting" /\ inbox' = Rest("a") /\ Gets("a", "CHALLENGE_REQ")
    BY DEF RecvChallengeReq
  <1>2. NothingNew(inbox')
    BY <1>1, RestNothingNew DEF HandshakeInv, Ends, Msgs
  <1>3. (Challenged' => Challenged) /\ (Answering' => Answering)
    BY <1>2 DEF NothingNew, Challenged, Answering
  <1>4. TypeOK'
    BY <1>1, <1>2 DEF HandshakeInv, TypeOK, NothingNew, Boxes
  <1>5. MapVerified' /\ StartsOpen' /\ WaitsOpen'
    BY <1>1 DEF HandshakeInv, MapVerified, StartsOpen, WaitsOpen, Opened, Gets
  <1>6. AsksAfterStatus' /\ ChallengedByClient' /\ NoLateAnswer'
    BY <1>1, <1>3 DEF HandshakeInv, AsksAfterStatus, ChallengedByClient, NoLateAnswer
  <1>7. AnswerIsTrust'
    BY <1>1, <1>3 DEF HandshakeInv, AnswerIsTrust, Opened
  <1> QED BY <1>4, <1>5, <1>6, <1>7 DEF HandshakeInv

\* The setter of PeerSocket.state: what is moved to the map is verified.
LEMMA VerifiedKept ==
    ASSUME TypeOK, MapVerified, NEW e \in Ends, SetVerified(e), tcp' \in Sockets,
           \A x \in Ends : tcp'[x] = "closed" => tcp[x] = "closed"
    PROVE  /\ MapVerified'
           /\ state' \in [Ends -> {"none", "OPENING", "READY", "VERIFIED", "CLOSED"}]
           /\ state'[e] = "VERIFIED" /\ \A x \in Ends \ {e} : state'[x] = state[x]
           /\ place' \in [Ends -> {"out", "queue", "map"}]
  <1>1. /\ state' \in [Ends -> {"none", "OPENING", "READY", "VERIFIED", "CLOSED"}]
        /\ state'[e] = "VERIFIED" /\ \A x \in Ends \ {e} : state'[x] = state[x]
    BY DEF SetVerified, TypeOK
  <1>2. \/ place' = place
        \/ place[e] = "queue" /\ place' = [place EXCEPT ![e] = "map"]
    BY DEF SetVerified, Moved, Values, Added
  <1>3. /\ place' \in [Ends -> {"out", "queue", "map"}]
        /\ place'[e] = place[e] \/ place[e] = "queue"
        /\ \A x \in Ends \ {e} : place'[x] = place[x]
    BY <1>2 DEF TypeOK
  <1>4. MapVerified'
    BY <1>1, <1>3 DEF MapVerified
  <1> QED BY <1>1, <1>3, <1>4

\* The challenge: the dialer trusts its end and answers, or ignores it.
LEMMA RecvChallengeInv ==
    ASSUME HandshakeInv, RecvChallenge
    PROVE  HandshakeInv'
  <1>1. /\ UNCHANGED dialer /\ UNCHANGED step /\ UNCHANGED request
        /\ TypeOK /\ {"a", "d"} \subseteq Ends /\ "CHALLENGE" \in Msgs /\ Gets("d", "CHALLENGE")
    BY DEF RecvChallenge, HandshakeInv, Ends, Msgs
  <1>2. /\ NothingNew(Rest("d")) /\ NothingNew(Farewell("d", Rest("d"))) /\ Challenged
        /\ OnlyEnding(tcp) /\ OnlyEnding(Ended("d"))
    BY <1>1, RestNothingNew, FarewellNothingNew, EndedOnlyEnding DEF Challenged
  <1>3. CASE ~ Verifies
    <2>1. /\ UNCHANGED tcp /\ UNCHANGED state /\ UNCHANGED place /\ UNCHANGED challenge
          /\ inbox' = Rest("d")
      BY <1>3 DEF RecvChallenge
    <2>2. OnlyEnding(tcp') /\ NothingNew(inbox') /\ challenge' \in {challenge, "none"}
      BY <1>2, <2>1 DEF OnlyEnding
    <2>3. UNCHANGED <<dialer, state, place, step, request>>
      BY <1>1, <2>1
    <2> QED BY <2>2, <2>3, QuietInv
  <1>4. CASE Verifies
    <2> DEFINE box == Farewell("d", Rest("d"))
    <2>1. /\ challenge' = "none" /\ SetVerified("a") /\ tcp' = Ended("d")
          /\ inbox' = Sent(box, "a", <<"CHALLENGE_RESPONSE">>)
          /\ challenge = "waiting" /\ dialer = "own port"
      BY <1>4 DEF RecvChallenge, Verifies
    <2>2. NothingNew(box)
      BY <1>2
    <2> HIDE DEF box
    <2>3. /\ \A x \in Ends : Opened(x) => Opened(x)'
          /\ \A x \in Ends : tcp'[x] = "none" <=> tcp[x] = "none"
          /\ \A x \in Ends : tcp'[x] = "closed" => tcp[x] = "closed"
          /\ tcp' \in Sockets
      BY <1>2, <2>1, SocketsEnd
    <2>4. /\ MapVerified'
          /\ state' \in [Ends -> {"none", "OPENING", "READY", "VERIFIED", "CLOSED"}]
          /\ state'["a"] = "VERIFIED" /\ state'["b"] = state["b"]
          /\ place' \in [Ends -> {"out", "queue", "map"}]
      BY <1>1, <2>1, <2>3, VerifiedKept DEF HandshakeInv, Ends
    <2>5. inbox' \in Boxes /\ inbox'["d"] = box["d"]
      <3>1. CASE tcp["a"] # "open"
        BY <2>1, <2>2, <3>1 DEF Sent, NothingNew
      <3>2. CASE tcp["a"] = "open"
        <4>1. inbox' = [box EXCEPT !["b"] = box["b"] \o <<"CHALLENGE_RESPONSE">>]
          BY <2>1, <3>2 DEF Sent, Peer
        <4>2. box \in Boxes /\ box["b"] \in Seq(Msgs) /\ "CHALLENGE_RESPONSE" \in Msgs
          BY <2>2 DEF NothingNew, Boxes, Ends, Msgs
        <4>3. box["b"] \o <<"CHALLENGE_RESPONSE">> \in Seq(Msgs)
          BY <4>2, AppendHas
        <4> QED BY <4>1, <4>2, <4>3 DEF Boxes, Ends
      <3> QED BY <3>1, <3>2
    <2>6. Challenged'  => Challenged
      BY <2>2, <2>5 DEF NothingNew, Challenged
    <2>7. TypeOK'
      BY <1>1, <2>1, <2>3, <2>4, <2>5 DEF TypeOK, Sockets, Boxes
    <2>8. StartsOpen' /\ WaitsOpen'
      BY <1>1, <2>1, <2>3 DEF HandshakeInv, StartsOpen, WaitsOpen, Ends
    <2>9. AsksAfterStatus' /\ ChallengedByClient' /\ NoLateAnswer'
      BY <1>1, <1>2, <2>6 DEF HandshakeInv, AsksAfterStatus, ChallengedByClient, NoLateAnswer
    <2>10. AnswerIsTrust'
      BY <1>1, <2>1, <2>3, <2>4 DEF HandshakeInv, WaitsOpen, AnswerIsTrust
    <2> QED BY <2>4, <2>7, <2>8, <2>9, <2>10 DEF HandshakeInv
  <1> QED BY <1>3, <1>4

\* The answer: the listener trusts its end if its request still waits.
LEMMA RecvResponseInv ==
    ASSUME HandshakeInv, RecvResponse
    PROVE  HandshakeInv'
  <1>1. /\ UNCHANGED dialer /\ UNCHANGED tcp /\ UNCHANGED challenge
        /\ TypeOK /\ "b" \in Ends /\ "CHALLENGE_RESPONSE" \in Msgs
        /\ Gets("b", "CHALLENGE_RESPONSE") /\ inbox' = Rest("b")
    BY DEF RecvResponse, HandshakeInv, Ends, Msgs
  <1>2. NothingNew(inbox') /\ Answering /\ OnlyEnding(tcp')
    BY <1>1, RestNothingNew, EndedOnlyEnding DEF Answering, OnlyEnding
  <1>3. CASE ~ Answered
    <2>1. UNCHANGED <<dialer, state, place, step, request>> /\ challenge' = challenge
      BY <1>1, <1>3 DEF RecvResponse
    <2> QED BY <1>2, <2>1, QuietInv
  <1>4. CASE Answered
    <2>1. /\ request = "waiting" /\ request' = "none"
          /\ step' = [step EXCEPT !["b"] = "done"] /\ SetVerified("b")
      BY <1>4 DEF RecvResponse, Answered, Resolved
    <2>2. /\ \A x \in Ends : tcp'[x] = "closed" => tcp[x] = "closed"
          /\ tcp' \in Sockets
      BY <1>2, SocketsEnd
    <2>3. /\ MapVerified'
          /\ state' \in [Ends -> {"none", "OPENING", "READY", "VERIFIED", "CLOSED"}]
          /\ state'["a"] = state["a"]
          /\ place' \in [Ends -> {"out", "queue", "map"}]
      BY <1>1, <2>1, <2>2, VerifiedKept DEF HandshakeInv, Ends
    <2>4. /\ step' \in [Ends -> {"idle", "dial", "late", "status", "connect", "response", "done"}]
          /\ step'["b"] = "done" /\ step'["c"] = step["c"]
      BY <1>1, <2>1 DEF TypeOK, Ends
    <2>5. (Challenged' => Challenged) /\ (Answering' => Answering)
      BY <1>2 DEF NothingNew, Challenged, Answering
    <2>6. step["b"] # "idle"
      BY <2>1 DEF HandshakeInv, AsksAfterStatus
    <2>7. TypeOK'
      BY <1>1, <1>2, <2>1, <2>3, <2>4 DEF TypeOK, NothingNew, Boxes
    <2>8. StartsOpen' /\ WaitsOpen'
      BY <1>1, <2>6 DEF HandshakeInv, StartsOpen, WaitsOpen, Opened
    <2>9. AsksAfterStatus' /\ ChallengedByClient' /\ NoLateAnswer'
      BY <2>1, <2>4, <2>5 DEF HandshakeInv, AsksAfterStatus, ChallengedByClient, NoLateAnswer
    <2>10. AnswerIsTrust'
      BY <1>1, <1>2, <2>3 DEF HandshakeInv, AnswerIsTrust, Opened
    <2> QED BY <2>3, <2>7, <2>8, <2>9, <2>10 DEF HandshakeInv
  <1> QED BY <1>3, <1>4

\* The request's timer.
LEMMA RequestTimeoutInv ==
    ASSUME HandshakeInv, RequestTimeout
    PROVE  HandshakeInv'
  <1>1. /\ UNCHANGED dialer /\ UNCHANGED state /\ UNCHANGED place /\ UNCHANGED challenge
        /\ request = "waiting" /\ request' = "timedout"
        /\ TypeOK /\ "b" \in Ends
    BY DEF RequestTimeout, Resolved, HandshakeInv, Ends
  <1>2. OnlyEnding(tcp') /\ NothingNew(inbox')
    <2>1. OnlyEnding(tcp) /\ OnlyEnding(Ended("b"))
      BY <1>1, EndedOnlyEnding
    <2>2. NothingNew(inbox) /\ NothingNew(Farewell("b", inbox))
      BY <1>1, RestNothingNew, FarewellNothingNew
    <2> QED BY <2>1, <2>2 DEF RequestTimeout, Close, CloseWith
  <1>3. /\ \A x \in Ends : Opened(x) => Opened(x)'
        /\ \A x \in Ends : tcp'[x] = "none" <=> tcp[x] = "none"
        /\ \A x \in Ends : tcp'[x] = "closed" => tcp[x] = "closed"
        /\ tcp' \in Sockets
    BY <1>2, SocketsEnd
  <1>4. (Challenged' => Challenged) /\ (Answering' => Answering)
    BY <1>2 DEF NothingNew, Challenged, Answering
  <1>5. /\ step' \in [Ends -> {"idle", "dial", "late", "status", "connect", "response", "done"}]
        /\ step'["b"] \in {step["b"], "done"} /\ step'["c"] = step["c"]
    BY <1>1 DEF RequestTimeout, TypeOK, Ends
  <1>6. step["b"] \notin {"idle", "status"}
    BY <1>1 DEF HandshakeInv, AsksAfterStatus
  <1>7. TypeOK'
    BY <1>1, <1>2, <1>3, <1>5 DEF TypeOK, Sockets, NothingNew, Boxes
  <1>8. MapVerified'
    BY <1>1, <1>3 DEF HandshakeInv, MapVerified
  <1>9. StartsOpen' /\ WaitsOpen'
    BY <1>1, <1>3, <1>6 DEF HandshakeInv, StartsOpen, WaitsOpen, Ends
  <1>10. AsksAfterStatus' /\ ChallengedByClient' /\ NoLateAnswer'
    BY <1>1, <1>4, <1>5, <1>6 DEF HandshakeInv, AsksAfterStatus, ChallengedByClient, NoLateAnswer
  <1>11. AnswerIsTrust'
    BY <1>1, <1>3, <1>4 DEF HandshakeInv, AnswerIsTrust, Ends
  <1> QED BY <1>7, <1>8, <1>9, <1>10, <1>11 DEF HandshakeInv

\* A connection breaks.
LEMMA ResetInv ==
    ASSUME HandshakeInv, NEW e \in Out, Reset(e)
    PROVE  HandshakeInv'
  <1>1. /\ tcp[e] = "open" /\ tcp[Peer(e)] = "open"
        /\ tcp' = [tcp EXCEPT ![e] = "ending", ![Peer(e)] = "ending"]
        /\ inbox' = [inbox EXCEPT ![e] = << >>, ![Peer(e)] = << >>]
        /\ tcp \in Sockets /\ inbox \in Boxes
    BY DEF Reset, HandshakeInv, TypeOK, Sockets, Boxes
  <1>2. << >> \in Seq(Msgs) /\ DOMAIN << >> = {}
    OBVIOUS
  <1>3. \A n : ~ Has(<< >>, n)
    BY <1>2 DEF Has
  <1>4. inbox' \in Boxes /\ \A x \in Ends : inbox'[x] = inbox[x] \/ inbox'[x] = << >>
    BY <1>1, <1>2 DEF Boxes
  <1>5. NothingNew(inbox')
    BY <1>3, <1>4 DEF NothingNew, Challenged, Answering, Ends
  <1>6. OnlyEnding(tcp')
    BY <1>1 DEF OnlyEnding, Sockets
  <1> QED BY <1>5, <1>6, QuietInv DEF Reset

\* The end of a connection, seen by one end or asked for by one node.
LEMMA EndInv ==
    ASSUME HandshakeInv, NEW e \in Ends, CloseEvent(e) \/ EndEvent(e) \/ Stop(e)
    PROVE  HandshakeInv'
  <1>1. TypeOK /\ "FIN" \in Msgs /\ NothingNew(inbox) /\ OnlyEnding(tcp)
    BY RestNothingNew, EndedOnlyEnding DEF HandshakeInv, Msgs
  <1>2. CASE CloseEvent(e)
    BY <1>1, <1>2, GoneInv DEF CloseEvent, NothingNew
  <1>3. CASE EndEvent(e)
    <2>1. NothingNew(inbox') /\ tcp[e] \in {"open", "ending"}
      BY <1>1, <1>3, RestNothingNew DEF EndEvent, Gets
    <2> QED BY <1>3, <2>1, GoneInv DEF EndEvent
  <1>4. CASE Stop(e)
    <2>1. OnlyEnding(tcp') /\ NothingNew(inbox')
      BY <1>1, <1>4, FarewellNothingNew, EndedOnlyEnding DEF Stop, Close, CloseWith
    <2>2. UNCHANGED <<dialer, state, place, step, request>> /\ challenge' = challenge
      BY <1>4 DEF Stop
    <2> QED BY <2>1, <2>2, QuietInv
  <1> QED BY <1>2, <1>3, <1>4

\* Every step keeps the invariant.
LEMMA NextInv == HandshakeInv /\ [Next]_vars => HandshakeInv'
  <1> SUFFICES ASSUME HandshakeInv, [Next]_vars PROVE HandshakeInv'
    OBVIOUS
  <1>1. ASSUME NEW e \in Out, OpenStep(e) \/ ConnectTimeout(e) \/ Reset(e)
        PROVE  HandshakeInv'
    BY <1>1, EstablishInv, NoConnectionInv, OpenClientInv, ResetInv DEF OpenStep
  <1>2. ASSUME NEW e \in Ends,
               OpenServer(e) \/ RecvStep(e) \/ StatusTimeout(e) \/ CloseEvent(e) \/ Stop(e)
        PROVE  HandshakeInv'
    BY <1>2, OpenServerInv, RecvStatusInv, RecvChallengeReqInv, RecvChallengeInv, RecvResponseInv,
       StatusTimeoutInv, EndInv DEF RecvStep
  <1>3. NothingNew(inbox) /\ OnlyEnding(tcp)
    BY RestNothingNew, EndedOnlyEnding DEF HandshakeInv, Ends
  <1>4. CASE ChallengeTimeout
    <2>1. UNCHANGED <<dialer, state, place, step, request>> /\ challenge' = "none"
      BY <1>4 DEF ChallengeTimeout
    <2>2. OnlyEnding(tcp') /\ NothingNew(inbox')
      BY <1>3, <1>4 DEF ChallengeTimeout, OnlyEnding
    <2> QED BY <2>1, <2>2, QuietInv
  <1>5. CASE UNCHANGED vars
    <2>1. UNCHANGED <<dialer, state, place, step, request>> /\ challenge' = challenge
      BY <1>5 DEF vars
    <2>2. OnlyEnding(tcp') /\ NothingNew(inbox')
      BY <1>3, <1>5 DEF vars, OnlyEnding
    <2> QED BY <2>1, <2>2, QuietInv
  <1> QED BY <1>1, <1>2, <1>4, <1>5, RequestTimeoutInv DEF Next

\* The inductive invariant holds in every state.
THEOREM HandshakeInvariant == Spec => []HandshakeInv
  <1> QED BY InitInv, NextInv, PTL DEF Spec

-------------------------------------------------------------------------------
(***************************************************************************)
(* The properties.                                                         *)
(***************************************************************************)

\* Types of the sockets, the connections, the messages and the requests.
THEOREM HandshakeTypes == Spec => []TypeOK
  <1>1. HandshakeInv => TypeOK
    BY DEF HandshakeInv
  <1> QED BY <1>1, HandshakeInvariant, PTL

\* The map holds verified sockets that have not gone (the setter of PeerSocket.state,
\* PeerConnections.moveFromQueue), and the listener verifies its end only when the
\* dialer did, at the port it named (challenge.ts): for any faults.
THEOREM OnlyTrustedConnections == Spec => []Trust
  <1>1. HandshakeInv => Trust
    BY DEF HandshakeInv, AnswerIsTrust, Trust, ListenerLast
  <1> QED BY <1>1, HandshakeInvariant, PTL

\* A connection the listener gave up is not verified later: an answer is taken only
\* while the request waits, and a challenge that was sent is one the listener still
\* waits for (challengeClient, PeerSocket.request).
THEOREM NeverAfterGivingUp == Spec => GivenUp
  <1> DEFINE Stays == (step["b"] = "done" /\ place["b"] # "map") => place'["b"] # "map"
  <1>1. HandshakeInv /\ [Next]_vars => [Stays]_vars
    <2> SUFFICES ASSUME HandshakeInv, [Next]_vars, step["b"] = "done", place["b"] # "map"
                 PROVE  place'["b"] # "map"
      OBVIOUS
    <2>1. place \in [Ends -> {"out", "queue", "map"}] /\ "b" \in Ends
      BY DEF HandshakeInv, TypeOK, Ends
    <2>2. ASSUME NEW e \in Ends, NEW to \in {"out", "queue"}, place' = [place EXCEPT ![e] = to]
          PROVE  place'["b"] # "map"
      BY <2>1, <2>2
    <2>3. ASSUME NEW e \in Out, OpenStep(e) \/ ConnectTimeout(e) \/ Reset(e)
          PROVE  place'["b"] # "map"
      <3>1. CASE OpenClient(e)
        BY <2>2, <2>3, <3>1 DEF OpenClient, Queued, Added, Out, Ends
      <3>2. CASE Establish(e) \/ Refused(e) \/ ConnectTimeout(e) \/ Reset(e)
        <4>1. UNCHANGED place
          BY <3>2 DEF Establish, Refused, ConnectTimeout, Reset
        <4> QED BY <4>1
      <3> QED BY <2>3, <3>1, <3>2 DEF OpenStep
    <2>4. ASSUME NEW e \in Ends, OpenServer(e) \/ CloseEvent(e) \/ EndEvent(e)
          PROVE  place'["b"] # "map"
      BY <2>2, <2>4 DEF OpenServer, CloseEvent, EndEvent, Gone, Removed, Queued, Added
    <2>5. ASSUME NEW e \in Ends, RecvStatus(e) \/ StatusTimeout(e) \/ Stop(e)
          PROVE  place'["b"] # "map"
      <3>1. UNCHANGED place
        BY <2>5 DEF RecvStatus, StatusTimeout, Stop
      <3> QED BY <3>1
    <2>6. CASE RecvChallenge
      <3>1. place' = place \/ place' = [place EXCEPT !["a"] = "map"]
        BY <2>6 DEF RecvChallenge, SetVerified, Moved, Added
      <3> QED BY <2>1, <3>1
    <2>7. CASE RecvResponse
      <3>1. Answering
        BY <2>7, RestNothingNew DEF RecvResponse, HandshakeInv, Answering, Ends, Msgs
      <3>2. ~ Answered
        BY <3>1 DEF HandshakeInv, NoLateAnswer, Answered
      <3>3. UNCHANGED place
        BY <2>7, <3>2 DEF RecvResponse
      <3> QED BY <3>3
    <2>8. CASE RecvChallengeReq \/ ChallengeTimeout \/ RequestTimeout \/ UNCHANGED vars
      <3>1. UNCHANGED place
        BY <2>8 DEF RecvChallengeReq, ChallengeTimeout, RequestTimeout, vars
      <3> QED BY <3>1
    <2> QED BY <2>3, <2>4, <2>5, <2>6, <2>7, <2>8 DEF Next, RecvStep
  <1> QED BY <1>1, HandshakeInvariant, PTL DEF Spec, GivenUp
===============================================================================
