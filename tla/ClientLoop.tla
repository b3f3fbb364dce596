------------------------------ MODULE ClientLoop ------------------------------
(***************************************************************************)
(* The run loop of a client: it polls the transport, handles what arrived, *)
(* drains its evidence, shows the world between the two newest snapshots   *)
(* it holds, and stops for one of many reasons. The server it talks to     *)
(* answers a join on the control lane and then sends pause states there    *)
(* and snapshots on a lane of their own: the two lanes race each other.    *)
(***************************************************************************)
EXTENDS Integers, Sequences, FiniteSetsExt, SequencesExt

CONSTANTS
    Deltas,         \* elapsed times a frame may sample
    TickTime,       \* time between two ticks of the server
    MaxRuntime,     \* limit on the runtime; zero disables it
    Viewer,         \* visualization is enabled, with interpolation
    LastTick,       \* model bound: ticks the server sends
    MaxBatch,       \* model bound on the events of one poll
    MaxPauses       \* model bound on the pauses and resumptions of the server

ASSUME LoopAssumption ==
    /\ Deltas \subseteq Nat
    /\ TickTime \in Nat \ {0}
    /\ {MaxRuntime, LastTick, MaxPauses} \subseteq Nat
    /\ MaxBatch \in Nat \ {0}
    /\ Viewer \in BOOLEAN

VARIABLES
    \* the server and the transport
    link,           \* "connecting", "ready" or "gone"
    asked,          \* a JoinRequest is on its way or was handled
    answered,       \* the server has taken the client in
    control,        \* the control lane to the client, in order
    snapshots,      \* ticks of the snapshots on their way: they may be lost and reordered
    server,         \* [tick, paused, pauses]
    \* the client
    at,             \* the part of the loop that runs next
    raw, delta,     \* stats.raw_time and the time of this frame
    reason, cause,  \* StopRequest and ClientStopCause
    conn,           \* ClientConnectionState
    joined,         \* join_accepted: the peer id is assigned
    pause,          \* authoritative pause state, "unknown" before one is received
    batch,          \* events polled and not yet handled
    rows,           \* whether the evidence has rows with and without a peer id
    history,        \* ticks of the two newest applied snapshots
    presentation,   \* ClientPresentationState: [observed, elapsed]
    shown           \* what the last frame showed: [time, paused]

serverVars == <<asked, answered, control, snapshots, server>>
clientVars == <<raw, delta, reason, cause, conn, joined, pause, rows, history>>
viewVars == <<presentation, shown>>
vars == <<link, serverVars, at, batch, clientVars, viewVars>>

Stopped == reason # "None"
Failures == {"ConnectionTimeout", "ConnectionLost", "ProtocolError"}

Init ==
    /\ link = "connecting" /\ asked = FALSE /\ answered = FALSE
    /\ control = << >> /\ snapshots = << >>
    /\ server = [tick |-> 0, paused |-> FALSE, pauses |-> 0]
    /\ at = "top" /\ raw = 0 /\ delta = 0 /\ reason = "None" /\ cause = "None"
    /\ conn = "Connecting" /\ joined = FALSE /\ pause = "unknown"
    /\ batch = << >> /\ rows = {} /\ history = << >>
    /\ presentation = [observed |-> 0, elapsed |-> 0]
    /\ shown = [time |-> 0, paused |-> FALSE]

-----------------------------------------------------------------------------
(* The server. *)

PauseMessage(paused) == IF paused THEN "paused" ELSE "running"

AnswerJoin ==
    /\ asked /\ ~answered
    /\ answered' = TRUE
    /\ control' = control \o <<"JoinAccepted", PauseMessage(server.paused)>>
    /\ UNCHANGED <<link, asked, snapshots, server, at, batch, clientVars, viewVars>>

ChangePause ==
    /\ server.pauses < MaxPauses
    /\ server' = [server EXCEPT !.paused = ~@, !.pauses = @ + 1]
    /\ control' = IF answered THEN Append(control, PauseMessage(~server.paused)) ELSE control
    /\ UNCHANGED <<link, asked, answered, snapshots, at, batch, clientVars, viewVars>>

SendSnapshot ==
    /\ answered /\ ~server.paused /\ server.tick < LastTick
    /\ server' = [server EXCEPT !.tick = @ + 1]
    /\ snapshots' = Append(snapshots, server.tick + 1)
    /\ UNCHANGED <<link, asked, answered, control, at, batch, clientVars, viewVars>>

LoseSnapshot ==
    /\ \E i \in DOMAIN snapshots : snapshots' = RemoveAt(snapshots, i)
    /\ UNCHANGED <<link, asked, answered, control, server, at, batch, clientVars, viewVars>>

-----------------------------------------------------------------------------
(* The loop of the client. *)

\* StopRequest.request: the first reason counts. The cause is the latest one.
Request(r) == reason' = IF Stopped THEN reason ELSE r

Fail(c) == cause' = c /\ Request("FatalError")

StopForSignal ==
    /\ at = "top" /\ ~Stopped
    /\ Request("Signal")
    /\ UNCHANGED <<link, serverVars, at, batch, raw, delta, cause, conn, joined, pause, rows,
                   history, viewVars>>

Frame ==
    /\ at = "top" /\ ~Stopped
    /\ delta' \in Deltas
    /\ raw' = raw + delta'
    /\ at' = "poll"
    /\ UNCHANGED <<link, serverVars, batch, reason, cause, conn, joined, pause, rows, history, viewVars>>

Polled(event) == Len(batch) < MaxBatch /\ batch' = Append(batch, event)

\* transport.poll(): events of the link, and packets of either lane.
PollEvent ==
    /\ at = "poll"
    /\ \/ /\ link = "connecting"
          /\ link' = "ready"
          /\ Polled([kind |-> "PeerSessionReady"])
          /\ UNCHANGED <<control, snapshots>>
       \/ /\ link # "gone"
          /\ link' = "gone"
          /\ \E code \in {"None", "Timeout", "Other"} :
                Polled([kind |-> "PeerDisconnected", code |-> code])
          /\ UNCHANGED <<control, snapshots>>
       \/ /\ link = "ready" /\ control # << >>
          /\ Polled([kind |-> "Control", message |-> Head(control)])
          /\ control' = Tail(control)
          /\ UNCHANGED <<link, snapshots>>
       \/ /\ link = "ready"
          /\ \E i \in DOMAIN snapshots :
                /\ Polled([kind |-> "Snapshot", tick |-> snapshots[i]])
                /\ snapshots' = RemoveAt(snapshots, i)
          /\ UNCHANGED <<link, control>>
       \/ /\ Polled([kind |-> "TransportErrorEvent"])
          /\ UNCHANGED <<link, control, snapshots>>
    /\ UNCHANGED <<asked, answered, server, at, clientVars, viewVars>>

EndPoll ==
    /\ at = "poll"
    /\ \/ at' = "events" /\ UNCHANGED <<reason, cause>>
       \/ at' = "top" /\ Fail("ProtocolError")
    /\ UNCHANGED <<link, serverVars, batch, raw, delta, conn, joined, pause, rows, history, viewVars>>

HandlePeerSessionReady ==
    /\ conn' = "SessionReady" /\ pause' = "unknown" /\ joined' = FALSE
    /\ \/ asked' = TRUE /\ UNCHANGED <<reason, cause>>
       \/ Fail("ProtocolError") /\ UNCHANGED asked
    /\ UNCHANGED <<rows, history>>

\* apply_application_control
HandleControl(message) ==
    /\ \/ /\ message = "JoinAccepted" /\ ~joined
          /\ joined' = TRUE
          /\ UNCHANGED <<reason, cause, pause>>
       \/ /\ message = "JoinAccepted" /\ joined
          /\ Fail("ProtocolError")
          /\ UNCHANGED <<joined, pause>>
       \/ /\ message # "JoinAccepted"
          /\ pause' = message
          /\ UNCHANGED <<reason, cause, joined>>
    /\ UNCHANGED <<asked, conn, rows, history>>

\* The row carries the peer id known by now.
RowWritten == rows' = rows \cup {IF joined THEN "peer" ELSE "zero"}

\* An update older than the latest applied one is not applied.
Applies(tick) == history # << >> => tick > Last(history)

\* receive_snapshot: a row for each packet; the update is applied, or not, or ends the run.
HandleSnapshot(tick) ==
    /\ \/ /\ Applies(tick)
          /\ history' = IF history = << >> THEN <<tick>> ELSE <<Last(history), tick>>
          /\ UNCHANGED <<reason, cause>>
       \/ UNCHANGED <<history, reason, cause>>
       \/ Fail("ProtocolError") /\ UNCHANGED history
    /\ RowWritten
    /\ UNCHANGED <<asked, conn, joined, pause>>

\* Faulty variant: a session that was ready is not looked at.
CauseByCode(code) ==
    IF code = "Timeout" THEN "ConnectionTimeout"
    ELSE IF code = "None" THEN "RemoteShutdown"
    ELSE IF conn = "SessionReady" THEN "ConnectionLost" ELSE "ProtocolError"

DisconnectCause(code) ==
    IF conn = "SessionReady"
    THEN IF code = "None" THEN "RemoteShutdown" ELSE "ConnectionLost"
    ELSE IF code = "Timeout" THEN "ConnectionTimeout" ELSE "ProtocolError"

HandlePeerDisconnected(code) ==
    /\ conn' = "Disconnected"
    /\ cause' = DisconnectCause(code)
    /\ Request(IF cause' = "RemoteShutdown" THEN "TransportDisconnected" ELSE "FatalError")
    /\ UNCHANGED <<asked, joined, pause, rows, history>>

InvalidPacket == Fail("ProtocolError") /\ UNCHANGED <<asked, conn, joined, pause, rows, history>>

\* One event; the first that stops the client is the last that is handled.
HandleEvent ==
    /\ at = "events" /\ batch # << >> /\ ~Stopped
    /\ LET event == Head(batch) IN
       \/ event.kind = "PeerSessionReady" /\ HandlePeerSessionReady
       \/ event.kind = "PeerDisconnected" /\ HandlePeerDisconnected(event.code)
       \/ event.kind = "Control" /\ conn = "SessionReady" /\ HandleControl(event.message)
       \/ event.kind = "Snapshot" /\ conn = "SessionReady" /\ HandleSnapshot(event.tick)
       \/ event.kind = "TransportErrorEvent" /\ InvalidPacket
       \/ event.kind \in {"Control", "Snapshot"} /\ conn # "SessionReady" /\ InvalidPacket
    /\ batch' = Tail(batch)
    /\ UNCHANGED <<link, answered, control, snapshots, server, at, raw, delta, viewVars>>

\* The evidence is drained, which fails the run when the file does, or when there are rows
\* and the role is not known yet.
Drain ==
    /\ at = "events" /\ (batch = << >> \/ Stopped)
    /\ \/ at' = "view" /\ UNCHANGED reason
       \/ at' = "top" /\ rows # {} /\ Request("Exception")
    /\ batch' = << >>
    /\ UNCHANGED <<link, serverVars, raw, delta, cause, conn, joined, pause, rows, history, viewVars>>

-----------------------------------------------------------------------------
(* The viewer. *)

Paused == pause = "paused"

Observed ==
    LET tick == Last(history) IN
    IF presentation.observed # tick THEN [observed |-> tick, elapsed |-> 0]
    ELSE IF Paused THEN presentation
    ELSE [presentation EXCEPT !.elapsed = @ + delta]

\* Faulty variant: a late snapshot is extrapolated.
PassedUnclamped(elapsed, ticks) == elapsed

\* alpha, in time: how far into the interval between two snapshots the client is.
Passed(elapsed, ticks) == Min({elapsed, ticks * TickTime})

\* presentation_snapshot
ShownTime(state) ==
    IF Paused \/ Len(history) < 2 THEN Last(history) * TickTime
    ELSE history[1] * TickTime + Passed(state.elapsed, history[2] - history[1])

\* The user may close the viewer, and ask the server to pause or to resume, which may fail.
Show ==
    /\ at = "view" /\ Viewer /\ ~Stopped
    /\ IF history = << >> THEN UNCHANGED viewVars
       ELSE /\ presentation' = Observed
            /\ shown' = [time |-> ShownTime(Observed), paused |-> Paused]
    /\ \E close \in BOOLEAN, toggleFails \in {FALSE, pause # "unknown"} :
        /\ reason' = IF close THEN "WindowClosed" ELSE IF toggleFails THEN "FatalError" ELSE reason
        /\ cause' = IF toggleFails THEN "ProtocolError" ELSE cause
    /\ at' = "limits"
    /\ UNCHANGED <<link, serverVars, batch, raw, delta, conn, joined, pause, rows, history>>

SkipView ==
    /\ at = "view" /\ (~Viewer \/ Stopped)
    /\ at' = "limits"
    /\ UNCHANGED <<link, serverVars, batch, clientVars, viewVars>>

\* Input is submitted, which may fail; then the limits are looked at.
Limits ==
    /\ at = "limits"
    /\ at' = "top"
    /\ \/ /\ ~Stopped /\ joined
          /\ Fail("ProtocolError")
       \/ /\ IF MaxRuntime # 0 /\ raw >= MaxRuntime THEN Request("RuntimeLimit")
             ELSE UNCHANGED reason
          /\ UNCHANGED cause
    /\ UNCHANGED <<link, serverVars, batch, raw, delta, conn, joined, pause, rows, history, viewVars>>

Loop == StopForSignal \/ Frame \/ EndPoll \/ HandleEvent \/ Drain \/ Show \/ SkipView \/ Limits

Next == AnswerJoin \/ ChangePause \/ SendSnapshot \/ LoseSnapshot \/ PollEvent \/ Loop

Spec == Init /\ [][Next]_vars

\* The loop keeps running: its poll and its viewer return.
FairSpec == Spec /\ WF_vars(Loop)
-----------------------------------------------------------------------------
(* Properties. *)

TypeOK ==
    /\ link \in {"connecting", "ready", "gone"}
    /\ at \in {"top", "poll", "events", "view", "limits"}
    /\ conn \in {"Connecting", "SessionReady", "Disconnected"}
    /\ cause \in Failures \cup {"None", "RemoteShutdown"}
    /\ Len(batch) <= MaxBatch /\ Len(history) <= 2
    /\ Len(history) = 2 => history[1] < history[2]

\* The world a viewer shows never runs backwards between two frames in the same pause
\* state, whatever snapshots come early, late, in bursts or not at all.
ShownForward == [][shown'.paused = shown.paused => shown'.time >= shown.time]_vars

\* A client that fails says why, and only a session that was ready ends well by the server.
\* Closing the viewer hides the failure of a pause request in the same frame.
ExitTellsCause ==
    /\ reason = "FatalError" => cause \in Failures
    /\ reason = "TransportDisconnected" <=> cause = "RemoteShutdown"
    /\ cause = "RemoteShutdown" => asked
    /\ cause \in Failures => reason \in {"FatalError", "WindowClosed"}

\* A client whose connection is gone stops.
DisconnectStops == link = "gone" ~> Stopped
=============================================================================
