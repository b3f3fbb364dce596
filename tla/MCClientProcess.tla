---------------------------- MODULE MCClientProcess ----------------------------
(***************************************************************************)
(* What goes on in a client, in parts that are checked apart: its run loop *)
(* (ClientLoop), the input of a player or of an observer on its way to the *)
(* server (InputDelivery), and the CSV writer of its evidence, or of the   *)
(* server's (EvidenceCsv).  A behaviour is of one part, and the others     *)
(* stay in an initial state.                                               *)
(***************************************************************************)
EXTENDS ClientLoop

CONSTANTS Aims, Idle, BufferCapacity, DrainThreshold, MaxRecords, MaxInFlight

VARIABLES
    part,
    \* InputDelivery
    joining, accepted, desired, submission, clientAge, stopped, network, peer,
    serverAim, known, serverAge,
    \* EvidenceCsv
    requiresRole, buffer, taken, roleAccepted, failure, closed, written, fileFailed, application

inputVars == <<joining, accepted, desired, submission, clientAge, stopped, network, peer,
               serverAim, known, serverAge>>
csvVars == <<requiresRole, buffer, taken, roleAccepted, failure, closed, written, fileFailed,
             application>>

\* A player's buttons are sent again after two steps of the clock.
Player == INSTANCE InputDelivery
    WITH Role <- "player", MinInterval <- 1, Heartbeat <- 2,
         control <- joining, submitted <- submission

\* An observer may turn every second step, and repeats itself after four.
Observer == INSTANCE InputDelivery
    WITH Role <- "observer", MinInterval <- 2, Heartbeat <- 4,
         control <- joining, submitted <- submission

\* The writer of a client, whose rows wait for the role, or of the server.
Csv == INSTANCE EvidenceCsv WITH submitted <- taken, rows <- written

ASSUME PartsConfigured ==
    /\ Player!InputAssumption /\ Observer!InputAssumption
    /\ Csv!EvidenceAssumption

PartInit ==
    /\ part \in {"loop", "player", "observer", "csv"}
    /\ Init /\ Player!Init /\ Csv!Init
    /\ part # "csv" => requiresRole

Running(name, action, others) == part = name /\ action /\ UNCHANGED <<part, others>>

InputOf(ofPlayer, ofObserver) ==
    /\ \/ part = "player" /\ ofPlayer
       \/ part = "observer" /\ ofObserver
    /\ UNCHANGED <<part, vars, csvVars>>

PartNext ==
    \/ Running("loop", Next, <<inputVars, csvVars>>)
    \/ InputOf(Player!Next, Observer!Next)
    \/ Running("csv", Csv!Next, <<vars, inputVars>>)

\* The fairness of ClientLoop and of InputDelivery.
PartFairness ==
    /\ WF_vars(Running("loop", Loop, <<inputVars, csvVars>>))
    /\ WF_inputVars(InputOf(Player!Tick, Observer!Tick))
    /\ WF_inputVars(InputOf(Player!ClientJoined, Observer!ClientJoined))
    /\ WF_inputVars(InputOf(Player!HandleJoinRequest, Observer!HandleJoinRequest))
    /\ WF_inputVars(InputOf(Player!ClientFrame(desired), Observer!ClientFrame(desired)))
    /\ SF_inputVars(InputOf(Player!ReceiveInput, Observer!ReceiveInput))

PartSpec == PartInit /\ [][PartNext]_<<part, vars, inputVars, csvVars>> /\ PartFairness
-----------------------------------------------------------------------------
(* Properties that combine those of the parts. *)

\* A client whose connection is gone stops, and its exit tells why (ClientStopCause).
StopsWithCause == DisconnectStops /\ [](TypeOK /\ ExitTellsCause)

\* What the user keeps to becomes what the server acts on, and the server never turns a
\* client away for it (HonestClientStays; AimConverges does not depend on the role).
InputArrives ==
    /\ Player!AimConverges
    /\ [](part \in {"player", "observer"} => Player!HonestClientStays)

\* The file holds the records in order, none is lost while nothing failed, a successful
\* close has written all, and the buffer never fills (ReplicationWriterState).
RowsKept == Csv!RowsKept
=============================================================================
