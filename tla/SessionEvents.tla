----------------------------- MODULE SessionEvents -----------------------------
(***************************************************************************)
(* What a transport promises its application about each peer id, told one  *)
(* event at a time: a peer is connected before its session is ready, its   *)
(* payloads come only while it is ready, and after it is disconnected      *)
(* nothing more is said of it.                                             *)
(***************************************************************************)
CONSTANT PeerIds

VARIABLE phase \* [PeerIds -> Phases]

Phases == {"unknown", "connected", "ready", "gone"}

SessionInit == phase = [p \in PeerIds |-> "unknown"]

PeerConnected(p) ==
    /\ phase[p] = "unknown"
    /\ phase' = [phase EXCEPT ![p] = "connected"]

PeerSessionReady(p) ==
    /\ phase[p] = "connected"
    /\ phase' = [phase EXCEPT ![p] = "ready"]

PeerDisconnected(p) ==
    /\ phase[p] \in {"connected", "ready"}
    /\ phase' = [phase EXCEPT ![p] = "gone"]

SessionNext ==
    \E p \in PeerIds : PeerConnected(p) \/ PeerSessionReady(p) \/ PeerDisconnected(p)

SessionSpec == SessionInit /\ [][SessionNext]_phase
=============================================================================
