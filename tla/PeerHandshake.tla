---------------------------- MODULE PeerHandshake -----------------------------
(***************************************************************************)
(* How two nodes come to trust a connection (network/controller.ts,        *)
(* network/socket.ts, network/connections.ts, network/requests.ts and      *)
(* network/messaging/messages/challenge.ts and status.ts).                 *)
(*                                                                         *)
(* The dialer opens the main connection, with its end a and the listener's *)
(* end b.  Both send STATUS; the listener then asks on this connection for *)
(* a challenge, opens the challenge connection (its own end c, the other   *)
(* end d) to the port STATUS names, and sends the challenge there.  The    *)
(* dialer answers on the main connection, and each side moves its end from *)
(* the queue of connections to the map that messages are broadcast to.     *)
(*                                                                         *)
(* An action is one turn of the event loop of one of the nodes: a callback *)
(* of Bun's TCP sockets, or a timer, with every continuation that it       *)
(* resumes at once.  TCP keeps the order of the messages of a connection;  *)
(* nothing orders the messages of the two connections.                     *)
(***************************************************************************)
EXTENDS Naturals, Sequences

CONSTANT
    Faults       \* the faults of the environment that are considered

ASSUME PeerHandshakeAssumption ==
    Faults \subseteq {"refused", "slow", "reset", "stop"}
        \* "refused": a connection cannot be opened
        \* "slow"   : opening a connection takes longer than BoundedExecutor waits
        \* "reset"  : an open connection breaks
        \* "stop"   : one of the nodes is stopped

Ends == {"a", "b", "c", "d"}
Out  == {"a", "c"}          \* PeerSocket.type OUTGOING
In   == Ends \ Out          \* INCOMING

Peer(e) == CASE e = "a" -> "b" [] e = "b" -> "a" [] e = "c" -> "d" [] e = "d" -> "c"

Msgs == {"STATUS", "CHALLENGE_REQ", "CHALLENGE", "CHALLENGE_RESPONSE", "FIN"}

VARIABLES
    dialer,     \* what its STATUS says: its own port, another node's, or another version
    tcp,        \* Bun's socket of each end; "accepted" before its open callback
    state,      \* PeerSocket._state, "none" before there is a PeerSocket
    place,      \* where LeiCoinNetNode.connections has the socket
    inbox,      \* what TCP has yet to deliver to each end
    step,       \* the await that connect, accomplishHandshake or challengeClient is at
    request,    \* the listener's CHALLENGE_REQ in its activeRequests
    challenge   \* the dialer's entry in ChallengeMsgStore

vars == <<dialer, tcp, state, place, inbox, step, request, challenge>>

\* The dialer's LeiCoinNetNode.initPeers has called PeerSocket.connect.
Init ==
    /\ dialer \in {"own port", "other port", "other version"}
    /\ tcp = [e \in Ends |-> "none"]
    /\ state = [e \in Ends |-> "none"]
    /\ place = [e \in Ends |-> "out"]
    /\ inbox = [e \in Ends |-> << >>]
    /\ step = [e \in Ends |-> IF e = "a" THEN "dial" ELSE "idle"]
    /\ request = "none"
    /\ challenge = "none"

-------------------------------------------------------------------------------
(***************************************************************************)
(* Operations on sockets, as functions of the values they change.          *)
(***************************************************************************)

\* The messages m, in order, written to the socket of end e.
Sent(box, e, m) == IF tcp[e] = "open" THEN [box EXCEPT ![Peer(e)] = @ \o m] ELSE box

\* PeerConnections has a map and a queue, each with its add and its iteration.
Added(e, to) == [place EXCEPT ![e] = to]
Values(of)   == {e \in Ends : place[e] = of}

\* (Operators named Slip... are plausible mistakes in the operator that follows.)
SlipMoved(e) == Added(e, "map")

\* PeerConnections.moveFromQueue
Moved(e) == IF e \in Values("queue") THEN Added(e, "map") ELSE place

\* The setter of PeerSocket.state, for the value VERIFIED.
SetVerified(e) == state' = [state EXCEPT ![e] = "VERIFIED"] /\ place' = Moved(e)

\* PeerConnections.remove, from the map and from the queue.
Removed(e) == [place EXCEPT ![e] = "out"]

\* PeerSocket.close: tcpSocket.end, unless the state is CLOSED.  The other end will
\* read the end of the stream after all that was sent.
Ended(e)        == IF state[e] # "CLOSED" /\ tcp[e] = "open" THEN [tcp EXCEPT ![e] = "ending"] ELSE tcp
Farewell(e, box) == IF state[e] # "CLOSED" THEN Sent(box, e, <<"FIN">>) ELSE box

CloseWith(e, box) == tcp' = Ended(e) /\ inbox' = Farewell(e, box)
Close(e)          == CloseWith(e, inbox)

\* A socket is new: BasicSocketHandler.open.
Queued(e) == place' = Added(e, "queue")

\* PeerSocketController.sendStatusMsg, after the messages in box.
StatusSent(box, e) == Sent(box, e, <<"STATUS">>)

\* Deferred.resolve, of the request's: the first call counts.
Resolved(how) == request' = IF request = "waiting" THEN how ELSE request

\* PeerSocket.request: the message is sent and its answer awaited, with a timer.
Requested(box, e) ==
    /\ inbox' = Sent(box, e, <<"CHALLENGE_REQ">>)
    /\ request' = "waiting"

-------------------------------------------------------------------------------
(***************************************************************************)
(* Opening a connection.                                                   *)
(***************************************************************************)

Dialing(e) == e \in Out /\ step[e] \in {"dial", "late"}

\* TCP connects.  The open callbacks of the two ends are yet to run.
Establish(e) ==
    /\ Dialing(e)
    /\ tcp[e] = "none"
    /\ tcp' = [tcp EXCEPT ![e] = "accepted", ![Peer(e)] = "accepted"]
    /\ UNCHANGED <<dialer, state, place, inbox, step, request, challenge>>

\* PeerSocket.connect returns null: the dialer only logs it, challengeClient closes
\* the main connection.
ConnectNull(e) ==
    IF e = "a"
    THEN UNCHANGED <<tcp, inbox>>
    ELSE Close("b")

\* Bun.connect fails.
Refused(e) ==
    /\ "refused" \in Faults
    /\ Dialing(e)
    /\ tcp[e] = "none"
    /\ IF step[e] = "dial" THEN ConnectNull(e) ELSE UNCHANGED <<tcp, inbox>>
    /\ step' = [step EXCEPT ![e] = "done", !["b"] = IF e = "c" THEN "done" ELSE @]
    /\ UNCHANGED <<dialer, state, place, request, challenge>>

\* BoundedExecutor gives up after five seconds; the connection may still open.
ConnectTimeout(e) ==
    /\ "slow" \in Faults
    /\ e \in Out
    /\ step[e] = "dial"
    /\ tcp[e] # "open"
    /\ ConnectNull(e)
    /\ step' = [step EXCEPT ![e] = "late", !["b"] = IF e = "c" THEN "done" ELSE @]
    /\ UNCHANGED <<dialer, state, place, request, challenge>>

\* LNSocketHandler.Server.open, and accomplishHandshake up to its first await.
OpenServer(e) ==
    /\ e \in In
    /\ tcp[e] = "accepted"
    /\ tcp' = [tcp EXCEPT ![e] = "open"]
    /\ state' = [state EXCEPT ![e] = "READY"]
    /\ Queued(e)
    /\ step' = [step EXCEPT ![e] = "status"]
    /\ UNCHANGED <<dialer, inbox, request, challenge>>

\* LNSocketHandler.Client.open.  When connect is still waiting it goes on: the dialer
\* sends its STATUS and waits for the other one; challengeClient sends the challenge,
\* marks its client CLOSED and waits for the response, or finds that the request has
\* timed out.
OpenClient(e) ==
    /\ Dialing(e)
    /\ tcp[e] = "accepted"
    /\ Queued(e)
    /\ \/ /\ step[e] = "late"
          /\ tcp' = [tcp EXCEPT ![e] = "open"]
          /\ state' = [state EXCEPT ![e] = "OPENING"]
          /\ step' = [step EXCEPT ![e] = "done"]
          /\ UNCHANGED inbox
       \/ /\ step[e] = "dial" /\ e = "a"
          /\ tcp' = [tcp EXCEPT !["a"] = "open"]
          /\ state' = [state EXCEPT !["a"] = "READY"]
          /\ step' = [step EXCEPT !["a"] = "status"]
          /\ inbox' = [inbox EXCEPT !["b"] = Append(@, "STATUS")]      \* StatusSent
       \/ /\ step[e] = "dial" /\ e = "c"
          /\ state' = [state EXCEPT !["c"] = "CLOSED"]
          /\ IF request = "waiting"
             THEN /\ step' = [step EXCEPT !["c"] = "done", !["b"] = "response"]
                  /\ tcp' = [tcp EXCEPT !["c"] = "open"]
                  /\ inbox' = [inbox EXCEPT !["d"] = Append(@, "CHALLENGE")]
             ELSE /\ step' = [step EXCEPT !["c"] = "done", !["b"] = "done"]
                  /\ tcp' = [Ended("b") EXCEPT !["c"] = "open"]
                  /\ inbox' = [Farewell("b", inbox) EXCEPT !["d"] = Append(@, "CHALLENGE")]
    /\ UNCHANGED <<dialer, request, challenge>>

-------------------------------------------------------------------------------
(***************************************************************************)
(* Messages.                                                               *)
(***************************************************************************)

\* The next message for end e is m, and the inboxes without it.
Gets(e, m) == tcp[e] \in {"open", "ending"} /\ inbox[e] # << >> /\ Head(inbox[e]) = m
Rest(e)    == [inbox EXCEPT ![e] = Tail(@)]

\* PeerSocketController.verifyRemoteStatus: the version of the other node is 0.
VerifyRemoteStatus(e) == e = "a" \/ dialer # "other version"

\* challengeClient, up to its first await.
ChallengeClient(box) ==
    /\ Requested(box, "b")
    /\ step' = [step EXCEPT !["b"] = "connect", !["c"] = "dial"]

\* STATUS answers request 0.  A dialer is done; a listener answers and goes on with
\* challengeClient.  With another version the connection is closed, without a request
\* the message ignored.
RecvStatus(e) ==
    /\ Gets(e, "STATUS")
    /\ IF step[e] = "status" /\ e = "b" /\ VerifyRemoteStatus(e)
       THEN ChallengeClient(StatusSent(Rest(e), e)) /\ UNCHANGED tcp
       ELSE /\ IF step[e] = "status" /\ ~ VerifyRemoteStatus(e)
               THEN CloseWith(e, Rest(e))
               ELSE inbox' = Rest(e) /\ UNCHANGED tcp
            /\ step' = [step EXCEPT ![e] = IF @ = "status" THEN "done" ELSE @]
            /\ UNCHANGED request
    /\ UNCHANGED <<dialer, state, place, challenge>>

SlipStatusTimeout(e) ==
    /\ step[e] = "status"
    /\ step' = [step EXCEPT ![e] = "done"]
    /\ UNCHANGED <<dialer, tcp, inbox, state, place, request, challenge>>

\* Request 0 is answered by its timer: accomplishHandshake closes the socket.
StatusTimeout(e) ==
    /\ step[e] = "status"
    /\ step' = [step EXCEPT ![e] = "done"]
    /\ Close(e)
    /\ UNCHANGED <<dialer, state, place, request, challenge>>

\* ChallengeREQMsg.Handler.receive up to its await.
RecvChallengeReq ==
    /\ Gets("a", "CHALLENGE_REQ")
    /\ inbox' = Rest("a")
    /\ challenge' = "waiting"
    /\ UNCHANGED <<dialer, tcp, state, place, step, request>>

\* Its timer: nothing is answered.
ChallengeTimeout ==
    /\ challenge = "waiting"
    /\ challenge' = "none"
    /\ UNCHANGED <<dialer, tcp, state, place, inbox, step, request>>

\* ChallengeMsg finds the request it is for.
Verifies == challenge = "waiting" /\ dialer = "own port"

\* ChallengeMsg.Handler.receive, and the rest of ChallengeREQMsg.Handler.receive:
\* the dialer takes its end for verified and answers on the main connection; the
\* challenge connection is closed.  A challenge nobody waits for is ignored.
RecvChallenge ==
    /\ Gets("d", "CHALLENGE")
    /\ IF Verifies
       THEN /\ challenge' = "none"
            /\ SetVerified("a")
            /\ tcp' = Ended("d")
            /\ inbox' = Sent(Farewell("d", Rest("d")), "a", <<"CHALLENGE_RESPONSE">>)
       ELSE inbox' = Rest("d") /\ UNCHANGED <<tcp, state, place, challenge>>
    /\ UNCHANGED <<dialer, step, request>>

SlipAnswered == TRUE

\* The request is still in activeRequests.
Answered == request = "waiting"

\* The response resolves the request and challengeClient finds the challenge it sent;
\* its close of the client, which is marked CLOSED, does nothing.
RecvResponse ==
    /\ Gets("b", "CHALLENGE_RESPONSE")
    /\ inbox' = Rest("b")
    /\ IF Answered
       THEN /\ Resolved("none")
            /\ step' = [step EXCEPT !["b"] = "done"]
            /\ SetVerified("b")
       ELSE UNCHANGED <<request, step, state, place>>
    /\ UNCHANGED <<dialer, tcp, challenge>>

SlipRequestTimeout ==
    /\ request = "waiting"
    /\ request' = "timedout"
    /\ step' = [step EXCEPT !["b"] = IF @ = "response" THEN "done" ELSE @]
    /\ UNCHANGED <<dialer, tcp, inbox, state, place, challenge>>

\* The request's timer.  challengeClient closes the main connection, at once or
\* when connect has returned.
RequestTimeout ==
    /\ request = "waiting"
    /\ Resolved("timedout")
    /\ IF step["b"] = "response"
       THEN step' = [step EXCEPT !["b"] = "done"] /\ Close("b")
       ELSE UNCHANGED <<step, tcp, inbox>>
    /\ UNCHANGED <<dialer, state, place, challenge>>

-------------------------------------------------------------------------------
(***************************************************************************)
(* The end of a connection.                                                *)
(***************************************************************************)

\* LNSocketHandler.close and end: the state is CLOSED and the socket is forgotten.
Gone(e) ==
    /\ state' = [state EXCEPT ![e] = "CLOSED"]
    /\ place' = Removed(e)

\* The close callback of the end that called tcpSocket.end, or of a broken connection.
CloseEvent(e) ==
    /\ tcp[e] = "ending"
    /\ tcp' = [tcp EXCEPT ![e] = "closed"]
    /\ Gone(e)
    /\ UNCHANGED <<dialer, inbox, step, request, challenge>>

\* The end callback: the other end has ended the connection, and Bun ends this one.
EndEvent(e) ==
    /\ Gets(e, "FIN")
    /\ tcp' = [tcp EXCEPT ![e] = "closed"]
    /\ inbox' = Rest(e)
    /\ Gone(e)
    /\ UNCHANGED <<dialer, step, request, challenge>>

\* A connection breaks: both ends will be told, and what was on its way is lost.
Reset(e) ==
    /\ "reset" \in Faults
    /\ e \in Out
    /\ tcp[e] = "open" /\ tcp[Peer(e)] = "open"
    /\ tcp' = [tcp EXCEPT ![e] = "ending", ![Peer(e)] = "ending"]
    /\ inbox' = [inbox EXCEPT ![e] = << >>, ![Peer(e)] = << >>]
    /\ UNCHANGED <<dialer, state, place, step, request, challenge>>

\* LeiCoinNetNode.stop closes the connections of the map; those of the queue are
\* left to the end of the process.
Stop(e) ==
    /\ "stop" \in Faults
    /\ e \in Values("map")
    /\ Close(e)
    /\ UNCHANGED <<dialer, state, place, step, request, challenge>>

-------------------------------------------------------------------------------
OpenStep(e) == Establish(e) \/ Refused(e) \/ OpenClient(e)
RecvStep(e) ==
    \/ RecvStatus(e) \/ EndEvent(e)
    \/ e = "a" /\ RecvChallengeReq
    \/ e = "d" /\ RecvChallenge
    \/ e = "b" /\ RecvResponse

Next ==
    \/ \E e \in Out : OpenStep(e) \/ ConnectTimeout(e) \/ Reset(e)
    \/ \E e \in Ends : OpenServer(e) \/ RecvStep(e) \/ StatusTimeout(e) \/ CloseEvent(e) \/ Stop(e)
    \/ ChallengeTimeout \/ RequestTimeout

Spec == Init /\ [][Next]_vars

\* TCP connects or refuses, delivers what it has and reports the end of a connection;
\* timers fire.  Nothing obliges a connection to break or to open late.
Fairness ==
    /\ \A e \in Ends :
          /\ WF_vars(OpenStep(e)) /\ WF_vars(OpenServer(e)) /\ WF_vars(RecvStep(e))
          /\ WF_vars(StatusTimeout(e)) /\ WF_vars(CloseEvent(e))
    /\ WF_vars(ChallengeTimeout) /\ WF_vars(RequestTimeout)

FairSpec == Spec /\ Fairness

-------------------------------------------------------------------------------
\* The map that blocks and transactions are broadcast to holds verified sockets, and
\* no socket is kept by the connections once its end was reported, though it may be
\* verified by a message on the other connection after its own has gone.
MapVerified ==
    \A e \in Ends :
        /\ place[e] = "map" => state[e] = "VERIFIED"
        /\ tcp[e] = "closed" => place[e] = "out"

\* The listener trusts a connection only when the dialer trusted it before, and only
\* when the node at the port it named is the one on this connection, of its version.
ListenerLast ==
    state["b"] = "VERIFIED" => dialer = "own port" /\ state["a"] \in {"VERIFIED", "CLOSED"}

\* What a verified connection is worth: both of these.
Trust == MapVerified /\ ListenerLast

\* A connection the listener gave up, because the challenge client did not open or
\* nobody answered, does not become a verified one by an answer that comes late.
GivenUp == [][(step["b"] = "done" /\ place["b"] # "map") => place'["b"] # "map"]_vars

\* No socket stays in the queue: every one is verified or closed, those included
\* that opened late or were marked CLOSED before they were closed.
LeavesQueue == \A e \in Ends : place[e] = "queue" ~> place[e] # "queue"

\* In the end the two nodes agree: both have the connection in their map or neither.
Agree == <>[](place["a"] = "map" <=> place["b"] = "map")
===============================================================================
