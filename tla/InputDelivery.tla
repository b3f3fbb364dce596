---------------------------- MODULE InputDelivery ----------------------------
(***************************************************************************)
(* What a client wants of the server, kept up to date over a lane that     *)
(* loses packets: the buttons of a player, or the direction a stationary   *)
(* observer looks in (here both are an aim). Every packet carries the      *)
(* latest aim; a changed aim is sent when it may be, the same one again    *)
(* after a heartbeat. The server limits how often an observer turns.       *)
(* Ages stand for the steady clocks of both sides, up to where they count. *)
(***************************************************************************)
EXTENDS Naturals, Sequences, SequencesExt

CONSTANTS
    Role,           \* "player" or "observer"
    Aims, Idle,     \* Idle: no button is down
    MinInterval,    \* stationary_observer_interest_min_interval
    Heartbeat,      \* of the role's submissions
    MaxInFlight     \* model bound on the packets under way: the oldest is lost beyond it

InputAssumption ==
    /\ Role \in {"player", "observer"}
    /\ Idle \in Aims
    /\ {MinInterval, Heartbeat, MaxInFlight} \subseteq Nat \ {0}
    /\ MinInterval <= Heartbeat

VARIABLES
    control,        \* the join on the control lane: "request", "answer" or "idle"
    accepted,       \* the client knows that it has joined
    desired,        \* the aim the client wants
    submitted,      \* the last submission: [any, aim]
    clientAge,      \* time since it, up to Heartbeat
    stopped,        \* a send failed: the client stops
    network,        \* packets on the input lane, in the order they were sent
    peer,           \* the server's record: "none", "joined" or "rejected"
    serverAim,      \* PlayerLatestInput, or the forward of StationaryObserverInterestState
    known,          \* the observer's interest is initialized
    serverAge       \* time since the last accepted interest, up to MinInterval

clientVars == <<accepted, desired, submitted, clientAge, stopped>>
serverVars == <<peer, serverAim, known, serverAge>>
vars == <<control, network, clientVars, serverVars>>

Init ==
    /\ control = "request" /\ network = << >>
    /\ accepted = FALSE /\ desired = Idle
    /\ submitted = [any |-> FALSE, aim |-> Idle] /\ clientAge = 0
    /\ stopped = FALSE
    /\ peer = "none" /\ serverAim = Idle /\ known = FALSE /\ serverAge = 0

UpTo(age, bound) == IF age < bound THEN age + 1 ELSE age

Tick ==
    /\ clientAge' = UpTo(clientAge, Heartbeat)
    /\ serverAge' = UpTo(serverAge, MinInterval)
    /\ UNCHANGED <<control, network, accepted, desired, submitted, stopped, peer, serverAim, known>>

-----------------------------------------------------------------------------
(* The client. *)

ClientJoined ==
    /\ control = "answer" /\ ~stopped
    /\ control' = "idle"
    /\ accepted' = TRUE
    /\ UNCHANGED <<network, desired, submitted, clientAge, stopped, serverVars>>

\* Input counts only once the client has joined; an observer may turn before.
Wanted(aim) == IF Role = "player" /\ ~accepted THEN Idle ELSE aim

\* Faulty variant: only changes are sent.
DueOnce(aim) == accepted /\ (~submitted.any \/ aim # submitted.aim)

\* plan_player_input_submission, and the observer's update_due.
Due(aim) ==
    /\ accepted
    /\ \/ ~submitted.any
       \/ aim # submitted.aim /\ (Role = "player" \/ clientAge >= MinInterval)
       \/ clientAge = Heartbeat

Sent(aim) == LET packets == Append(network, aim) IN
    IF Len(packets) > MaxInFlight THEN Tail(packets) ELSE packets

\* One frame of the client: the viewer's input, then the submission that is due, which
\* commits the aim and its time only when the transport takes it.
ClientFrame(aim) ==
    /\ ~stopped
    /\ desired' = Wanted(aim)
    /\ \/ /\ ~Due(Wanted(aim))
          /\ UNCHANGED <<network, submitted, clientAge, stopped>>
       \/ /\ Due(Wanted(aim))
          /\ network' = Sent(Wanted(aim))
          /\ submitted' = [any |-> TRUE, aim |-> Wanted(aim)]
          /\ clientAge' = 0
          /\ UNCHANGED stopped
       \/ /\ Due(Wanted(aim))
          /\ stopped' = TRUE
          /\ UNCHANGED <<network, submitted, clientAge>>
    /\ UNCHANGED <<control, accepted, serverVars>>

-----------------------------------------------------------------------------
(* The input lane: a packet may be lost, and one that arrives after a later one is dropped. *)

Lose ==
    /\ \E i \in DOMAIN network : network' = RemoveAt(network, i)
    /\ UNCHANGED <<control, clientVars, serverVars>>

Later(i) == SubSeq(network, i + 1, Len(network))

-----------------------------------------------------------------------------
(* The server. *)

HandleJoinRequest ==
    /\ control = "request"
    /\ control' = "answer"
    /\ peer' = "joined"
    /\ UNCHANGED <<network, clientVars, serverAim, known, serverAge>>

Reject ==
    /\ peer' = "rejected"
    /\ UNCHANGED <<serverAim, known, serverAge>>

\* accept_stationary_observer_interest: of a client that stays where it is.
AcceptStationaryObserverInterest(aim) ==
    IF known /\ serverAge < MinInterval THEN UNCHANGED serverVars
    ELSE /\ serverAim' = aim /\ known' = TRUE /\ serverAge' = 0
         /\ UNCHANGED peer

HandleInput(aim) ==
    \/ /\ peer = "none"
       /\ Reject
    \/ /\ peer = "joined" /\ Role = "player"
       /\ serverAim' = aim
       /\ UNCHANGED <<peer, known, serverAge>>
    \/ /\ peer = "joined" /\ Role = "observer"
       /\ AcceptStationaryObserverInterest(aim)

ReceiveInput ==
    /\ \E i \in DOMAIN network :
        /\ network' = Later(i)
        /\ HandleInput(network[i])
    /\ UNCHANGED <<control, clientVars>>

Next ==
    \/ Tick \/ ClientJoined \/ Lose \/ HandleJoinRequest \/ ReceiveInput
    \/ \E aim \in Aims : ClientFrame(aim)

Spec == Init /\ [][Next]_vars

\* Both loops run, also for a user who changes nothing, and both clocks move; of packets
\* sent again and again one arrives again and again.
FairSpec ==
    /\ Spec
    /\ WF_vars(Tick) /\ WF_vars(ClientJoined) /\ WF_vars(HandleJoinRequest)
    /\ WF_vars(ClientFrame(desired))
    /\ SF_vars(ReceiveInput)
-----------------------------------------------------------------------------
(* Properties. *)

\* The server never rejects a client for input it sent in good faith, although packets
\* overtake the control lane, bunch up and arrive faster than the server takes them.
HonestClientStays == peer # "rejected"

\* An aim the client keeps to becomes the server's, whatever was lost, dropped or ignored
\* before, as long as the client runs.
AimConverges ==
    \A aim \in Aims : <>[](desired = aim /\ accepted /\ ~stopped) => <>[](serverAim = aim)
=============================================================================
