----------------------------- MODULE ReplicaStream -----------------------------
(***************************************************************************)
(* What snapshot replication promises a peer, whatever it sends: the       *)
(* server publishes a stream of views; the client's view only ever moves   *)
(* forward in that stream, onto exactly what was published, possibly       *)
(* skipping positions; and the server only ever learns, in order, of       *)
(* positions the client has really held.                                   *)
(***************************************************************************)
EXTENDS Naturals, Sequences

CONSTANTS Views,      \* the states of the world a client can be shown
          EmptyView   \* what the client shows before the first update

VARIABLES published,  \* every view published so far, in order
          position,   \* the position the client's view is at (0: none)
          view,       \* the client's view
          held,       \* positions the client has been at
          confirmed   \* the position the server knows the client reached

vars == <<published, position, view, held, confirmed>>

Init ==
    /\ published = << >>
    /\ position = 0
    /\ view = EmptyView
    /\ held = {}
    /\ confirmed = 0

Publish ==
    /\ \E v \in Views : published' = Append(published, v)
    /\ UNCHANGED <<position, view, held, confirmed>>

Advance ==
    /\ position' \in (position + 1)..Len(published)
    /\ view' = published[position']
    /\ held' = held \cup {position'}
    /\ UNCHANGED <<published, confirmed>>

Confirm ==
    /\ confirmed' \in held
    /\ confirmed' > confirmed
    /\ UNCHANGED <<published, position, view, held>>

Next == Publish \/ Advance \/ Confirm

Spec == Init /\ [][Next]_vars
=============================================================================
