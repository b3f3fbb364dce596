----------------------------- MODULE ServerClock -----------------------------
(***************************************************************************)
(* The frame loop of the server: the frame plan and the limits of          *)
(* simnet_runtime, pauses by clients and by the viewer, the ticks of a     *)
(* frame with the snapshots and the interest grid cached between them, the *)
(* viewer's presentation, and the reasons to stop. Time is in whole units. *)
(***************************************************************************)
EXTENDS Integers, FiniteSets, FiniteSetsExt

CONSTANTS
    Deltas,         \* elapsed times a frame may sample
    FixedDt, MaxFrameTime, MaxSteps,
    MaxTicks, MaxFrames, MaxRuntime,   \* the limits; zero disables one
    Viewer,         \* a server viewer with interpolation
    FrameCap,       \* model bound: frames are counted up to it
    MaxChanges      \* model bound on membership changes

ASSUME ClockAssumption ==
    /\ Deltas \subseteq Nat
    /\ {FixedDt, MaxFrameTime, MaxSteps, FrameCap} \subseteq Nat \ {0}
    /\ {MaxTicks, MaxFrames, MaxRuntime, MaxChanges} \subseteq Nat
    /\ Viewer \in BOOLEAN

VARIABLES
    at,             \* the part of the loop that runs next
    signal,         \* the signal latch
    reason,         \* StopRequest
    paused,
    clock,          \* FixedStepClock: [accumulator, tick]
    stats,          \* RuntimeStats: [frames, raw, accepted, clamped, dropped, ticks]
    frame,          \* RuntimeFramePlan: [steps, first], and the next offset
    world,          \* version of the world: it grows with every tick and membership change
    snapshot,       \* CurrentSnapshotState: [valid, dirty, tick, version]
    grid,           \* AreaOfInterestGridState: [valid, tick, version]
    presentation,   \* [previous, current], ticks; NoTick before there is one
    \* histories
    lastRun,        \* last tick run_tick was called for
    replicated,     \* version of the snapshot the last replicating tick used
    pausedTime, forfeited, changes

loop == <<at, signal, reason, paused>>
time == <<clock, stats, frame, pausedTime, forfeited>>
caches == <<world, snapshot, grid, presentation, replicated, changes>>
vars == <<loop, time, caches, lastRun>>

NoTick == -1
Stopped == reason # "None"

Init ==
    /\ at = "poll" /\ signal = FALSE /\ reason = "None" /\ paused = FALSE
    /\ clock = [accumulator |-> 0, tick |-> 0]
    /\ stats = [frames |-> 0, raw |-> 0, accepted |-> 0, clamped |-> 0, dropped |-> 0, ticks |-> 0]
    /\ frame = [steps |-> 0, first |-> 1, offset |-> 0]
    /\ world = 0
    /\ snapshot = [valid |-> FALSE, dirty |-> TRUE, tick |-> 0, version |-> 0]
    /\ grid = [valid |-> FALSE, tick |-> 0, version |-> 0]
    /\ presentation = [previous |-> NoTick, current |-> NoTick]
    /\ lastRun = 0 /\ replicated = 0
    /\ pausedTime = 0 /\ forfeited = 0 /\ changes = 0

\* StopRequest.request: the first reason counts.
Request(r) == reason' = IF Stopped THEN reason ELSE r

\* A player entity appears or goes, in a poll or when a send fails.
WorldMayChange(version, dirty, count) ==
    \/ version = world /\ dirty = snapshot.dirty /\ count = changes
    \/ /\ changes < MaxChanges
       /\ version = world + 1 /\ dirty = TRUE /\ count = changes + 1

-----------------------------------------------------------------------------
RaiseSignal ==
    /\ ~signal
    /\ signal' = TRUE
    /\ UNCHANGED <<at, reason, paused, time, caches, lastRun>>

SeesSignal == signal

StopForSignal ==
    /\ at = "poll"
    /\ ~Stopped
    /\ SeesSignal
    /\ Request("Signal")
    /\ UNCHANGED <<at, signal, paused, time, caches, lastRun>>

\* Starting over after a pause change forfeits what the accumulator held.
Forfeit ==
    /\ clock' = [clock EXCEPT !.accumulator = 0]
    /\ forfeited' = forfeited + clock.accumulator

\* poll_transport: membership may change, and clients may ask to pause or to resume;
\* several requests may cancel out and still count as a change. It may fail.
Poll ==
    /\ at = "poll"
    /\ ~Stopped
    /\ ~SeesSignal
    /\ \/ /\ Request("FatalError")
          /\ UNCHANGED <<at, paused, clock, forfeited, world, snapshot, changes>>
       \/ /\ \E version \in {world, world + 1}, dirty \in BOOLEAN, count \in {changes, changes + 1} :
                /\ WorldMayChange(version, dirty, count)
                /\ world' = version
                /\ snapshot' = [snapshot EXCEPT !.dirty = dirty]
                /\ changes' = count
          /\ \/ paused' = paused /\ UNCHANGED <<clock, forfeited>>
             \/ paused' \in BOOLEAN /\ Forfeit
          /\ at' = "frame"
          /\ UNCHANGED reason
    /\ UNCHANGED <<signal, stats, frame, pausedTime, grid, presentation, replicated, lastRun>>

-----------------------------------------------------------------------------
(* plan_runtime_frame. *)

CountFrame == IF stats.frames < FrameCap THEN stats.frames + 1 ELSE stats.frames

StepLimit ==
    IF MaxTicks = 0 THEN MaxSteps
    ELSE Min({MaxSteps, IF clock.tick < MaxTicks THEN MaxTicks - clock.tick ELSE 0})

\* advance: whole steps of the accumulated time, up to the limit.
Steps(accumulated) == Min({accumulated \div FixedDt, StepLimit})

\* Faulty variant: the fraction of a step is dropped with the whole ones.
RetainNothing(remainder) == IF remainder >= FixedDt THEN 0 ELSE remainder

Retained(remainder) == IF remainder >= FixedDt THEN remainder % FixedDt ELSE remainder

\* Faulty variant: the first tick is taken after the clock has advanced.
FirstTickAfter(steps) == clock.tick + steps + 1

FirstTick(steps) == clock.tick + 1

PlanRuntimeFrame(delta) ==
    LET accepted == Min({delta, MaxFrameTime})
        accumulated == clock.accumulator + accepted
        steps == Steps(accumulated)
        remainder == accumulated - steps * FixedDt
        dropped == IF remainder >= FixedDt THEN remainder - (remainder % FixedDt) ELSE 0
    IN
    /\ clock' = [accumulator |-> Retained(remainder), tick |-> clock.tick + steps]
    /\ stats' = [frames |-> CountFrame,
                 raw |-> stats.raw + delta,
                 accepted |-> stats.accepted + accepted,
                 clamped |-> stats.clamped + delta - accepted,
                 dropped |-> stats.dropped + dropped,
                 ticks |-> clock.tick + steps]
    /\ frame' = [steps |-> steps, first |-> FirstTick(steps), offset |-> 0]
    /\ UNCHANGED <<pausedTime, forfeited>>

\* Faulty variant: a paused frame leaves the elapsed time uncounted.
PausedFrameUncounted(delta) ==
    stats' = [stats EXCEPT !.frames = CountFrame] /\ UNCHANGED pausedTime

PausedFrame(delta) ==
    /\ stats' = [stats EXCEPT !.frames = CountFrame, !.raw = @ + delta, !.accepted = @ + delta]
    /\ pausedTime' = pausedTime + delta

Frame(delta) ==
    /\ at = "frame"
    /\ \/ ~paused /\ PlanRuntimeFrame(delta)
       \/ /\ paused
          /\ PausedFrame(delta)
          /\ Forfeit
          /\ frame' = [steps |-> 0, first |-> 0, offset |-> 0]
    /\ at' = "ticks"
    /\ UNCHANGED <<signal, reason, paused, caches, lastRun>>

-----------------------------------------------------------------------------
(* The ticks of a frame. *)

\* ensure_current_snapshot of a world at a version.
Ensured(cached, tick, version) ==
    IF cached.valid /\ ~cached.dirty THEN cached
    ELSE [valid |-> TRUE, dirty |-> FALSE, tick |-> tick, version |-> version]

\* Faulty variant: a grid once built is used on.
EnsuredGridOnce(source) ==
    IF grid.valid THEN grid ELSE [valid |-> TRUE, tick |-> source.tick, version |-> source.version]

\* ensure_area_of_interest_grid
EnsuredGrid(source) ==
    IF grid.valid /\ grid.tick = source.tick THEN grid
    ELSE [valid |-> TRUE, tick |-> source.tick, version |-> source.version]

\* Faulty variant: a snapshot extracted again for the same tick is retained too.
RetainAlways(tick) == [previous |-> presentation.current, current |-> tick]

\* retain_presentation_snapshot
Retain(tick) ==
    IF presentation.current = tick THEN presentation
    ELSE [previous |-> presentation.current, current |-> tick]

CurrentTick == frame.first + frame.offset

\* run_tick with somebody joined or nobody: a peer whose send fails is removed after the
\* snapshot of the tick was taken. The viewer then extracts what it needs of the tick.
RunTick ==
    /\ at = "ticks" /\ ~Stopped /\ frame.offset < frame.steps
    /\ lastRun' = CurrentTick
    /\ \E joined \in BOOLEAN :
        LET advanced == [snapshot EXCEPT !.dirty = TRUE]
            taken == IF joined THEN Ensured(advanced, CurrentTick, world + 1) ELSE advanced
        IN
        /\ IF joined THEN grid' = EnsuredGrid(taken) /\ replicated' = taken.version
           ELSE UNCHANGED <<grid, replicated>>
        /\ \E lost \in IF joined /\ changes < MaxChanges THEN {0, 1} ELSE {0} :
            LET after == IF lost = 1 THEN [taken EXCEPT !.dirty = TRUE] ELSE taken
                shown == Ensured(after, CurrentTick, world + 1 + lost)
            IN
            /\ world' = world + 1 + lost
            /\ changes' = changes + lost
            /\ snapshot' = IF Viewer THEN shown ELSE after
            /\ presentation' = IF Viewer THEN Retain(shown.tick) ELSE presentation
    /\ frame' = [frame EXCEPT !.offset = @ + 1]
    /\ UNCHANGED <<loop, clock, stats, pausedTime, forfeited>>

\* run_tick fails, or the extraction for the viewer: the plan stands, the ticks left are not run.
FailTick ==
    /\ at = "ticks" /\ ~Stopped /\ frame.offset < frame.steps
    /\ Request("FatalError")
    /\ world' = world + 1
    /\ snapshot' = [snapshot EXCEPT !.dirty = TRUE]
    /\ UNCHANGED <<at, signal, paused, time, grid, presentation, replicated, changes, lastRun>>

\* The CSV is drained, also after a tick that failed; when that fails the loop is left by an
\* exception.
Drain ==
    /\ at = "ticks" /\ (Stopped \/ frame.offset = frame.steps)
    /\ \/ at' = "viewer" /\ UNCHANGED reason
       \/ at' = "poll" /\ Request("Exception")
    /\ UNCHANGED <<signal, paused, time, caches, lastRun>>

-----------------------------------------------------------------------------
\* The viewer's user pauses or resumes, which is broadcast to the clients: a send may fail.
ToggleFromViewer ==
    /\ paused' = ~paused
    /\ Forfeit
    /\ \E lost \in IF changes < MaxChanges THEN {0, 1} ELSE {0} :
        /\ world' = world + lost
        /\ changes' = changes + lost
        /\ snapshot' = [Ensured(snapshot, stats.ticks, world) EXCEPT !.dirty = (lost = 1)]

\* The viewer shows the latest world, unless it cannot be extracted or the server stops;
\* its user may also close it.
View ==
    /\ at = "viewer"
    /\ at' = "limits"
    /\ \/ /\ ~Viewer
          /\ UNCHANGED <<reason, paused, clock, forfeited, world, changes, snapshot, presentation>>
       \/ /\ Viewer /\ Stopped
          /\ snapshot' = Ensured(snapshot, stats.ticks, world)
          /\ UNCHANGED <<reason, paused, clock, forfeited, world, changes, presentation>>
       \/ /\ Viewer /\ ~(snapshot.valid /\ ~snapshot.dirty)
          /\ Request("FatalError")
          /\ snapshot' = [snapshot EXCEPT !.valid = FALSE, !.dirty = TRUE]
          /\ UNCHANGED <<paused, clock, forfeited, world, changes, presentation>>
       \/ /\ Viewer /\ ~Stopped
          /\ presentation' = Retain(Ensured(snapshot, stats.ticks, world).tick)
          /\ Request("WindowClosed") \/ UNCHANGED reason
          /\ \/ ToggleFromViewer
             \/ /\ snapshot' = Ensured(snapshot, stats.ticks, world)
                /\ UNCHANGED <<paused, clock, forfeited, world, changes>>
    /\ UNCHANGED <<signal, stats, frame, pausedTime, grid, replicated, lastRun>>

\* reached_runtime_limit
ReachedLimit ==
    IF MaxTicks # 0 /\ stats.ticks >= MaxTicks THEN "TickLimit"
    ELSE IF MaxFrames # 0 /\ stats.frames >= MaxFrames THEN "FrameLimit"
    ELSE IF MaxRuntime # 0 /\ stats.raw >= MaxRuntime THEN "RuntimeLimit"
    ELSE "None"

Limits ==
    /\ at = "limits"
    /\ IF ReachedLimit = "None" THEN UNCHANGED reason ELSE Request(ReachedLimit)
    /\ at' = "poll"
    /\ UNCHANGED <<signal, paused, time, caches, lastRun>>

Step == StopForSignal \/ Poll \/ (\E delta \in Deltas : Frame(delta)) \/ RunTick \/ FailTick
        \/ Drain \/ View \/ Limits

Next == RaiseSignal \/ Step

Spec == Init /\ [][Next]_vars

\* The loop never waits for anything but its poll, which returns.
FairSpec == Spec /\ WF_vars(Step)

\* The steady clock moves between frames.
ClockMoves == SF_vars(\E delta \in Deltas \ {0} : Frame(delta))
-----------------------------------------------------------------------------
(* Properties. *)

TypeOK ==
    /\ at \in {"poll", "frame", "ticks", "viewer", "limits"}
    /\ signal \in BOOLEAN /\ paused \in BOOLEAN
    /\ reason \in {"None", "Signal", "FatalError", "WindowClosed", "TickLimit", "FrameLimit",
                   "RuntimeLimit", "Exception"}
    /\ clock.accumulator \in 0..FixedDt - 1
    /\ clock.tick \in Nat /\ (MaxTicks # 0 => clock.tick <= MaxTicks)
    /\ frame.offset \in 0..frame.steps /\ frame.steps \in 0..MaxSteps
    /\ snapshot.version \in 0..world /\ grid.version \in 0..world

\* No elapsed time is lost or counted twice: what a frame sampled was accepted or clamped
\* away, and what was accepted became ticks, is in the accumulator, was dropped, passed
\* while paused or was forfeited by a pause change.
TimeAccounted ==
    /\ stats.raw = stats.accepted + stats.clamped
    /\ stats.accepted = clock.tick * FixedDt + clock.accumulator + stats.dropped
                        + pausedTime + forfeited

\* Planned ticks are run one after the other, none twice and none left out, unless the
\* server stops on the way.
TicksRunInOrder ==
    [][/\ lastRun' # lastRun => lastRun' = lastRun + 1
       /\ at = "limits" /\ reason # "FatalError" => lastRun = stats.ticks]_vars

\* Interest is queried in a grid of the very snapshot that is replicated, although the
\* grid is cached by tick and the world changes between extractions.
GridIsOfSnapshot == grid.valid => grid.version = replicated

\* Interpolation is between the last two ticks, also when the membership changes while no
\* tick runs and the current tick is extracted again.
PresentationAdjacent ==
    presentation.previous # NoTick =>
        /\ presentation.previous + 1 = presentation.current
        /\ at = "limits" /\ ~Stopped => presentation.current = stats.ticks

\* A signal ends the server, paused or not, even at a clock that stands still; and at one
\* that moves, the runtime limit ends it, also when it stays paused.
SignalStops == signal ~> Stopped
RuntimeLimitStops == ClockMoves => <>Stopped
StopsWhenAsked == SignalStops /\ RuntimeLimitStops
=============================================================================
