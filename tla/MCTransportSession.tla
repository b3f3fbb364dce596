-------------------------- MODULE MCTransportSession --------------------------
(***************************************************************************)
(* TransportSession with clients of two builds, at a server with room for  *)
(* MaxPeers of them or for one.  The room is chosen initially and never    *)
(* changes.                                                                *)
(***************************************************************************)
EXTENDS TransportSession

CONSTANTS c1, c2,
          Rooms     \* the peer limits the run covers: 1, MaxPeers or both

VARIABLE room       \* the peer limit of this behaviour

MCExpected == [protocol |-> 4, config |-> 1, wire |-> 1]
OtherWire == [MCExpected EXCEPT !.wire = 2]

\* c2 was built with another wire profile.
MCIdentity == [c \in Clients |-> IF c = c2 THEN OtherWire ELSE MCExpected]

OnePeer == INSTANCE TransportSession WITH MaxPeers <- 1

RoomInit == Init /\ room \in Rooms

RoomNext ==
    /\ \/ room = MaxPeers /\ Next
       \/ room = 1 /\ OnePeer!Next
    /\ UNCHANGED room

RoomSpec == RoomInit /\ [][RoomNext]_<<vars, room>>

FairRoomSpec == RoomSpec /\ Fairness
-----------------------------------------------------------------------------
\* A handshake that does not complete is given up by both sides (handshake_timeout).
HandshakesSettle == HandshakeEnds /\ ClientDecides
=============================================================================
