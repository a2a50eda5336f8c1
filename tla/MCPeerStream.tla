----------------------------- MODULE MCPeerStream -----------------------------
(***************************************************************************)
(* Instance of PeerStream for TLC: messages shorter than and   *)
(* longer than a prefix, packets that fit between sender and receiver and  *)
(* packets that do not.                                                    *)
(***************************************************************************)
EXTENDS PeerStream

MCSizes == <<1, 3, 1, 4>>
===============================================================================
