-------------------------- MODULE ServerClockTheorems --------------------------
(***************************************************************************)
(* The server's clock keeps its account of time, runs its ticks in order   *)
(* and keeps its caches in step with them, for every frame length, step    *)
(* limit and run limit.                                                    *)
(***************************************************************************)
EXTENDS ServerClock, TLAPS

Reasons == {"None", "Signal", "FatalError", "WindowClosed", "TickLimit", "FrameLimit",
            "RuntimeLimit", "Exception"}

\* The lesser of two numbers.
LEMMA MinOfTwo ==
  ASSUME NEW a \in Int, NEW b \in Int
  PROVE  Min({a, b}) = IF a <= b THEN a ELSE b
<1> DEFINE m == IF a <= b THEN a ELSE b
<1>1. m \in {a, b} /\ \A y \in {a, b} : m <= y
  OBVIOUS
<1>2. Min({a, b}) \in {a, b} /\ \A y \in {a, b} : Min({a, b}) <= y
  BY <1>1 DEF Min
<1> QED
  BY <1>2

\* No more whole steps fit into some time than its quotient says.
LEMMA StepsFit ==
  ASSUME NEW time_ \in Nat, NEW dt \in Nat \ {0}, NEW steps \in Nat, steps <= time_ \div dt
  PROVE  steps * dt <= time_
<1>1. time_ = dt * (time_ \div dt) + (time_ % dt) /\ time_ % dt \in 0..(dt - 1)
  OBVIOUS
<1>2. time_ \div dt \in Nat
  OBVIOUS
<1>3. steps * dt <= (time_ \div dt) * dt
  BY <1>2
<1> QED
  BY <1>1, <1>2, <1>3

-----------------------------------------------------------------------------
(* Types. *)

Ticks == Nat \cup {NoTick}

\* TypeOK with the whole range of every variable, which TLC could not enumerate.
Typed ==
    /\ at \in {"poll", "frame", "ticks", "viewer", "limits"}
    /\ signal \in BOOLEAN /\ paused \in BOOLEAN
    /\ reason \in Reasons
    /\ clock \in [accumulator : 0..FixedDt - 1, tick : Nat]
    /\ MaxTicks # 0 => clock.tick <= MaxTicks
    /\ stats \in [frames : Nat, raw : Nat, accepted : Nat, clamped : Nat, dropped : Nat, ticks : Nat]
    /\ frame \in [steps : 0..MaxSteps, first : Nat, offset : Nat]
    /\ frame.offset <= frame.steps
    /\ {world, replicated, pausedTime, forfeited, changes, lastRun} \subseteq Nat
    /\ snapshot \in [valid : BOOLEAN, dirty : BOOLEAN, tick : Nat, version : Nat]
    /\ grid \in [valid : BOOLEAN, tick : Nat, version : Nat]
    /\ snapshot.version <= world /\ grid.version <= world
    /\ presentation \in [previous : Ticks, current : Ticks]

\* The constants' part of the assumption, one by one.
LEMMA ConstantsTyped ==
  /\ FixedDt \in Nat \ {0} /\ MaxFrameTime \in Nat \ {0} /\ MaxSteps \in Nat \ {0}
  /\ FrameCap \in Nat \ {0}
  /\ MaxTicks \in Nat /\ MaxFrames \in Nat /\ MaxRuntime \in Nat /\ MaxChanges \in Nat
  /\ Deltas \subseteq Nat /\ Viewer \in BOOLEAN
BY ClockAssumption

\* What is typed fully is typed as the runs check it.
LEMMA TypedSuffices == Typed => TypeOK
<1> SUFFICES ASSUME Typed PROVE TypeOK
  OBVIOUS
<1>1. clock.accumulator \in 0..FixedDt - 1 /\ clock.tick \in Nat
  BY DEF Typed
<1>2. frame.offset \in 0..frame.steps /\ frame.steps \in 0..MaxSteps
  BY ConstantsTyped DEF Typed
<1>3. snapshot.version \in 0..world /\ grid.version \in 0..world
  BY DEF Typed
<1> QED
  BY <1>1, <1>2, <1>3 DEF Typed, TypeOK, Reasons

\* The server starts typed.
LEMMA InitTyped == Init => Typed
<1> SUFFICES ASSUME Init PROVE Typed
  OBVIOUS
<1>1. clock \in [accumulator : 0..FixedDt - 1, tick : Nat] /\ (MaxTicks # 0 => clock.tick <= MaxTicks)
  BY ConstantsTyped DEF Init
<1>2. /\ frame \in [steps : 0..MaxSteps, first : Nat, offset : Nat] /\ frame.offset <= frame.steps
      /\ stats \in [frames : Nat, raw : Nat, accepted : Nat, clamped : Nat, dropped : Nat, ticks : Nat]
  BY ConstantsTyped DEF Init
<1>3. /\ snapshot \in [valid : BOOLEAN, dirty : BOOLEAN, tick : Nat, version : Nat]
      /\ grid \in [valid : BOOLEAN, tick : Nat, version : Nat]
      /\ snapshot.version <= world /\ grid.version <= world
  BY DEF Init
<1>4. presentation \in [previous : Ticks, current : Ticks]
  BY DEF Init, Ticks
<1>5. {world, replicated, pausedTime, forfeited, changes, lastRun} \subseteq Nat
  BY DEF Init
<1> QED
  BY <1>1, <1>2, <1>3, <1>4, <1>5 DEF Init, Typed, Reasons

\* A number of steps a frame may take.
LEMMA StepLimitBounds ==
  ASSUME Typed
  PROVE  /\ StepLimit \in 0..MaxSteps
         /\ MaxTicks # 0 => clock.tick + StepLimit <= MaxTicks
<1> USE ClockAssumption
<1>1. clock.tick \in Nat
  BY DEF Typed
<1>2. CASE MaxTicks = 0
  BY <1>1, <1>2 DEF StepLimit
<1>3. CASE MaxTicks # 0
  <2> DEFINE left == IF clock.tick < MaxTicks THEN MaxTicks - clock.tick ELSE 0
  <2>1. left \in Nat /\ clock.tick + left <= MaxTicks
    BY <1>1, <1>3 DEF Typed
  <2>2. Min({MaxSteps, left}) = IF MaxSteps <= left THEN MaxSteps ELSE left
    BY <2>1, MinOfTwo
  <2>3. StepLimit = Min({MaxSteps, left})
    BY <1>3 DEF StepLimit
  <2> QED
    BY <1>1, <1>3, <2>1, <2>2, <2>3
<1> QED
  BY <1>2, <1>3

\* plan_runtime_frame: the accumulated time is the steps taken, what is dropped and what
\* stays, and the steps keep to the limits.
LEMMA FramePlan ==
  ASSUME Typed, NEW delta \in Deltas, PlanRuntimeFrame(delta)
  PROVE  /\ clock' \in [accumulator : 0..FixedDt - 1, tick : Nat]
         /\ MaxTicks # 0 => clock'.tick <= MaxTicks
         /\ stats' \in [frames : Nat, raw : Nat, accepted : Nat, clamped : Nat, dropped : Nat,
                        ticks : Nat]
         /\ frame' \in [steps : 0..MaxSteps, first : Nat, offset : Nat]
         /\ frame'.offset = 0 /\ frame'.first = clock.tick + 1
         /\ clock'.tick = clock.tick + frame'.steps /\ stats'.ticks = clock'.tick
         /\ stats'.raw - stats'.accepted - stats'.clamped
                = stats.raw - stats.accepted - stats.clamped
         /\ stats'.accepted - stats.accepted
                = frame'.steps * FixedDt + clock'.accumulator - clock.accumulator
                  + stats'.dropped - stats.dropped
<1> USE ClockAssumption
<1> DEFINE accepted == Min({delta, MaxFrameTime})
           accumulated == clock.accumulator + accepted
           steps == Steps(accumulated)
           remainder == accumulated - steps * FixedDt
           dropped == IF remainder >= FixedDt THEN remainder - (remainder % FixedDt) ELSE 0
<1>1. accepted \in Nat /\ accepted <= delta /\ delta \in Nat
  <2>1. delta \in Nat /\ MaxFrameTime \in Nat
    OBVIOUS
  <2> QED
    BY <2>1, MinOfTwo
<1>2. accumulated \in Nat /\ clock.accumulator \in Nat /\ clock.tick \in Nat
  BY <1>1 DEF Typed
<1>3. /\ steps \in 0..MaxSteps /\ steps <= accumulated \div FixedDt
      /\ MaxTicks # 0 => clock.tick + steps <= MaxTicks
  <2>1. accumulated \div FixedDt \in Nat
    BY <1>2
  <2>2. StepLimit \in 0..MaxSteps /\ (MaxTicks # 0 => clock.tick + StepLimit <= MaxTicks)
    BY StepLimitBounds
  <2>3. steps = IF accumulated \div FixedDt <= StepLimit THEN accumulated \div FixedDt ELSE StepLimit
    <3> HIDE DEF accumulated
    <3> QED
      BY <2>1, <2>2, MinOfTwo DEF Steps
  <2> HIDE DEF steps, accumulated
  <2> QED
    BY <1>2, <2>1, <2>2, <2>3
<1>4. remainder \in Nat /\ steps * FixedDt \in Nat
  <2> HIDE DEF steps, accumulated
  <2>1. steps \in Nat
    BY <1>3
  <2>2. steps * FixedDt <= accumulated /\ steps * FixedDt \in Nat
    BY <1>2, <1>3, <2>1, StepsFit
  <2> QED
    BY <1>2, <2>2
<1>5. /\ Retained(remainder) \in 0..FixedDt - 1 /\ dropped \in Nat
      /\ remainder = Retained(remainder) + dropped
  <2> HIDE DEF remainder
  <2>1. remainder % FixedDt \in 0..FixedDt - 1 /\ remainder % FixedDt <= remainder
    BY <1>4
  <2> QED
    BY <1>4, <2>1 DEF Retained
<1>6. /\ clock' = [accumulator |-> Retained(remainder), tick |-> clock.tick + steps]
      /\ stats' = [frames |-> CountFrame, raw |-> stats.raw + delta,
                   accepted |-> stats.accepted + accepted,
                   clamped |-> stats.clamped + delta - accepted,
                   dropped |-> stats.dropped + dropped, ticks |-> clock.tick + steps]
      /\ frame' = [steps |-> steps, first |-> clock.tick + 1, offset |-> 0]
  BY DEF PlanRuntimeFrame, FirstTick
<1>7. CountFrame \in Nat
  BY DEF CountFrame, Typed
<1>8. stats \in [frames : Nat, raw : Nat, accepted : Nat, clamped : Nat, dropped : Nat, ticks : Nat]
  BY DEF Typed
<1>9. accepted = steps * FixedDt + Retained(remainder) + dropped - clock.accumulator
  <2> HIDE DEF steps, accepted, dropped
  <2> QED
    BY <1>1, <1>2, <1>4, <1>5
<1> HIDE DEF accepted, accumulated, steps, remainder, dropped
<1>10. /\ clock'.accumulator = Retained(remainder) /\ clock'.tick = clock.tick + steps
       /\ stats'.raw = stats.raw + delta /\ stats'.accepted = stats.accepted + accepted
       /\ stats'.clamped = stats.clamped + delta - accepted
       /\ stats'.dropped = stats.dropped + dropped /\ stats'.ticks = clock.tick + steps
       /\ frame'.steps = steps /\ frame'.first = clock.tick + 1 /\ frame'.offset = 0
  BY <1>6
<1>11. stats' \in [frames : Nat, raw : Nat, accepted : Nat, clamped : Nat, dropped : Nat, ticks : Nat]
  BY <1>1, <1>2, <1>3, <1>5, <1>6, <1>7, <1>8
<1>12. /\ clock' \in [accumulator : 0..FixedDt - 1, tick : Nat]
       /\ frame' \in [steps : 0..MaxSteps, first : Nat, offset : Nat]
  BY <1>2, <1>3, <1>5, <1>6
<1> QED
  BY <1>1, <1>2, <1>3, <1>4, <1>5, <1>8, <1>9, <1>10, <1>11, <1>12

-----------------------------------------------------------------------------
(* Caches. *)

Extractions == [valid : BOOLEAN, dirty : BOOLEAN, tick : Nat, version : Nat]

\* A cached snapshot, kept or extracted anew, is one of the world at that version or earlier.
LEMMA EnsuredTyped ==
  ASSUME NEW cached \in Extractions, NEW tick \in Nat, NEW version \in Nat,
         cached.version <= version
  PROVE  /\ Ensured(cached, tick, version) \in Extractions
         /\ Ensured(cached, tick, version).version <= version
         /\ Ensured(cached, tick, version).valid /\ ~Ensured(cached, tick, version).dirty
         /\ ~(cached.valid /\ ~cached.dirty) =>
                /\ Ensured(cached, tick, version).tick = tick
                /\ Ensured(cached, tick, version).version = version
         /\ cached.valid /\ ~cached.dirty => Ensured(cached, tick, version) = cached
<1>1. CASE cached.valid /\ ~cached.dirty
  BY <1>1 DEF Ensured
<1>2. CASE ~(cached.valid /\ ~cached.dirty)
  BY <1>2 DEF Ensured, Extractions
<1> QED
  BY <1>1, <1>2

\* The grid, kept or built anew, is one of the snapshot's tick.
LEMMA EnsuredGridTyped ==
  ASSUME Typed, NEW source \in Extractions, source.version <= world + 1
  PROVE  /\ EnsuredGrid(source) \in [valid : BOOLEAN, tick : Nat, version : Nat]
         /\ EnsuredGrid(source).version <= world + 1
         /\ EnsuredGrid(source).valid /\ EnsuredGrid(source).tick = source.tick
<1>1. /\ grid \in [valid : BOOLEAN, tick : Nat, version : Nat]
      /\ grid.version \in Nat /\ world \in Nat /\ grid.version <= world
  BY DEF Typed
<1>2. source.tick \in Nat /\ source.version \in Nat
  BY DEF Extractions
<1> QED
  BY <1>1, <1>2 DEF EnsuredGrid

\* What the viewer retains are ticks.
LEMMA RetainTyped ==
  ASSUME Typed, NEW tick \in Nat
  PROVE  Retain(tick) \in [previous : Ticks, current : Ticks]
<1>1. presentation \in [previous : Ticks, current : Ticks] /\ presentation.current \in Ticks
  BY DEF Typed
<1> QED
  BY <1>1 DEF Retain, Ticks

\* What a tick that is run takes of the world, and what it leaves.
LEMMA RunTickOutcome ==
  ASSUME Typed, RunTick
  PROVE  \E taken, shown \in Extractions, joined \in BOOLEAN, lost \in {0, 1} :
            /\ joined => /\ taken.valid /\ ~taken.dirty /\ taken.tick = CurrentTick
                         /\ taken.version = world + 1
                         /\ grid' = EnsuredGrid(taken) /\ replicated' = taken.version
            /\ ~joined => UNCHANGED <<grid, replicated>>
            /\ world' = world + 1 + lost /\ changes' = changes + lost
            /\ shown.valid /\ ~shown.dirty /\ shown.tick = CurrentTick
            /\ shown.version <= world'
            /\ Viewer => snapshot' = shown /\ presentation' = Retain(CurrentTick)
            /\ ~Viewer => /\ UNCHANGED presentation
                          /\ snapshot' \in Extractions /\ snapshot'.version <= world'
                          /\ snapshot'.valid /\ ~snapshot'.dirty => snapshot'.tick = CurrentTick
<1> USE ConstantsTyped
<1>1. CurrentTick \in Nat /\ snapshot \in Extractions /\ world \in Nat /\ changes \in Nat
  BY DEF CurrentTick, Typed, Extractions
<1> DEFINE advanced == [snapshot EXCEPT !.dirty = TRUE]
           taken(joined) == IF joined THEN Ensured(advanced, CurrentTick, world + 1) ELSE advanced
           after(joined, lost) == IF lost = 1 THEN [taken(joined) EXCEPT !.dirty = TRUE] ELSE taken(joined)
           shown(joined, lost) == Ensured(after(joined, lost), CurrentTick, world + 1 + lost)
<1>2. PICK joined \in BOOLEAN, lost \in {0, 1} :
        /\ IF joined THEN grid' = EnsuredGrid(taken(joined)) /\ replicated' = taken(joined).version
           ELSE UNCHANGED <<grid, replicated>>
        /\ world' = world + 1 + lost
        /\ changes' = changes + lost
        /\ snapshot' = IF Viewer THEN shown(joined, lost) ELSE after(joined, lost)
        /\ presentation' = IF Viewer THEN Retain(shown(joined, lost).tick) ELSE presentation
  <2>1. PICK joined \in BOOLEAN :
        /\ IF joined THEN grid' = EnsuredGrid(taken(joined)) /\ replicated' = taken(joined).version
           ELSE UNCHANGED <<grid, replicated>>
        /\ \E lost \in IF joined /\ changes < MaxChanges THEN {0, 1} ELSE {0} :
            /\ world' = world + 1 + lost
            /\ changes' = changes + lost
            /\ snapshot' = IF Viewer THEN shown(joined, lost) ELSE after(joined, lost)
            /\ presentation' = IF Viewer THEN Retain(shown(joined, lost).tick) ELSE presentation
    BY DEF RunTick
  <2> HIDE DEF taken, after, shown
  <2> QED
    BY <2>1
<1>3. advanced \in Extractions /\ advanced.version <= world /\ advanced.dirty
  BY <1>1 DEF Extractions, Typed
<1>4. /\ taken(joined) \in Extractions /\ taken(joined).version <= world + 1
      /\ joined => /\ taken(joined).valid /\ ~taken(joined).dirty
                   /\ taken(joined).tick = CurrentTick /\ taken(joined).version = world + 1
      /\ ~joined => taken(joined).dirty
  <2> HIDE DEF advanced
  <2>1. advanced.version <= world + 1 /\ advanced.version \in Nat /\ world + 1 \in Nat
    BY <1>1, <1>3 DEF Extractions
  <2>2. CASE joined
    <3> DEFINE extracted == Ensured(advanced, CurrentTick, world + 1)
    <3>1. /\ extracted \in Extractions /\ extracted.version <= world + 1
          /\ extracted.valid /\ ~extracted.dirty
          /\ extracted.tick = CurrentTick /\ extracted.version = world + 1
      <4> HIDE DEF extracted
      <4> QED
        BY <1>1, <1>3, <2>1, EnsuredTyped DEF extracted
    <3> QED
      BY <2>2, <3>1
  <2>3. CASE ~joined
    BY <1>3, <2>1, <2>3
  <2> QED
    BY <2>2, <2>3
<1>5. /\ after(joined, lost) \in Extractions /\ after(joined, lost).version <= world + 1
      /\ ~after(joined, lost).dirty => joined /\ after(joined, lost).tick = CurrentTick
  <2> HIDE DEF taken
  <2> QED
    BY <1>4 DEF Extractions
<1>6. /\ shown(joined, lost) \in Extractions /\ shown(joined, lost).version <= world + 1 + lost
      /\ shown(joined, lost).valid /\ ~shown(joined, lost).dirty
      /\ shown(joined, lost).tick = CurrentTick
  <2> HIDE DEF after
  <2>1. /\ after(joined, lost).version <= world + 1 + lost /\ world + 1 + lost \in Nat
        /\ after(joined, lost).version \in Nat
    BY <1>1, <1>5 DEF Extractions
  <2> DEFINE extracted == Ensured(after(joined, lost), CurrentTick, world + 1 + lost)
  <2>2. /\ extracted \in Extractions /\ extracted.version <= world + 1 + lost
        /\ extracted.valid /\ ~extracted.dirty
        /\ ~(after(joined, lost).valid /\ ~after(joined, lost).dirty) => extracted.tick = CurrentTick
        /\ after(joined, lost).valid /\ ~after(joined, lost).dirty => extracted = after(joined, lost)
    <3> HIDE DEF extracted
    <3> QED
      BY <1>1, <1>5, <2>1, EnsuredTyped DEF extracted
  <2> QED
    BY <1>5, <2>2
<1>7. after(joined, lost).version <= world + 1 + lost
  <2> HIDE DEF after
  <2>1. after(joined, lost).version \in Nat
    BY <1>5 DEF Extractions
  <2> QED
    BY <1>1, <1>5, <2>1
<1> HIDE DEF taken, after, shown
<1>8. /\ joined => /\ taken(joined).valid /\ ~taken(joined).dirty /\ taken(joined).tick = CurrentTick
                   /\ taken(joined).version = world + 1
                   /\ grid' = EnsuredGrid(taken(joined)) /\ replicated' = taken(joined).version
      /\ ~joined => UNCHANGED <<grid, replicated>>
  BY <1>2, <1>4
<1>9. /\ world' = world + 1 + lost /\ changes' = changes + lost
      /\ shown(joined, lost).version <= world'
  BY <1>2, <1>6
<1>10. /\ Viewer => snapshot' = shown(joined, lost) /\ presentation' = Retain(CurrentTick)
       /\ ~Viewer => /\ UNCHANGED presentation
                     /\ snapshot' \in Extractions /\ snapshot'.version <= world'
                     /\ snapshot'.valid /\ ~snapshot'.dirty => snapshot'.tick = CurrentTick
  BY <1>2, <1>5, <1>6, <1>7
<1> QED
  BY <1>4, <1>6, <1>8, <1>9, <1>10

-----------------------------------------------------------------------------
(* Every step keeps the types. *)

\* A poll may change the membership and the pause.
LEMMA PollTyped == Typed /\ Poll => Typed'
<1> SUFFICES ASSUME Typed, Poll PROVE Typed'
  OBVIOUS
<1> USE ConstantsTyped
<1>1. /\ reason' \in Reasons /\ paused' \in BOOLEAN /\ signal' \in BOOLEAN
      /\ at' \in {"poll", "frame", "ticks", "viewer", "limits"}
  BY DEF Poll, Request, Reasons, Typed
<1>2. /\ clock' \in [accumulator : 0..FixedDt - 1, tick : Nat] /\ clock'.tick = clock.tick
      /\ forfeited' \in Nat
  BY DEF Poll, Forfeit, Typed
<1>3. /\ world' \in Nat /\ world <= world' /\ changes' \in Nat
      /\ snapshot' \in [valid : BOOLEAN, dirty : BOOLEAN, tick : Nat, version : Nat]
      /\ snapshot'.version = snapshot.version
  BY DEF Poll, Typed
<1>4. UNCHANGED <<stats, frame, pausedTime, grid, presentation, replicated, lastRun>>
  BY DEF Poll
<1> QED
  BY <1>1, <1>2, <1>3, <1>4 DEF Typed

\* A frame is planned, or passes paused.
LEMMA FrameTyped == ASSUME Typed, NEW delta \in Deltas, Frame(delta) PROVE Typed'
<1> USE ConstantsTyped
<1>1. /\ UNCHANGED <<signal, reason, paused, world, snapshot, grid, presentation, replicated,
                     changes, lastRun>>
      /\ at' = "ticks"
  BY DEF Frame, caches
<1>2. /\ clock' \in [accumulator : 0..FixedDt - 1, tick : Nat]
      /\ MaxTicks # 0 => clock'.tick <= MaxTicks
      /\ stats' \in [frames : Nat, raw : Nat, accepted : Nat, clamped : Nat, dropped : Nat,
                     ticks : Nat]
      /\ frame' \in [steps : 0..MaxSteps, first : Nat, offset : Nat]
      /\ frame'.offset <= frame'.steps
      /\ pausedTime' \in Nat /\ forfeited' \in Nat
  <2>1. CASE ~paused /\ PlanRuntimeFrame(delta)
    <3>1. UNCHANGED <<pausedTime, forfeited>>
      BY <2>1 DEF PlanRuntimeFrame
    <3> QED
      BY <2>1, <3>1, FramePlan DEF Typed
  <2>2. CASE paused /\ PausedFrame(delta) /\ Forfeit /\ frame' = [steps |-> 0, first |-> 0, offset |-> 0]
    <3>1. CountFrame \in Nat
      BY DEF CountFrame, Typed
    <3>2. stats' \in [frames : Nat, raw : Nat, accepted : Nat, clamped : Nat, dropped : Nat,
                     ticks : Nat] /\ pausedTime' \in Nat
      <4>1. /\ stats \in [frames : Nat, raw : Nat, accepted : Nat, clamped : Nat, dropped : Nat,
                          ticks : Nat]
            /\ pausedTime \in Nat /\ delta \in Nat
        BY DEF Typed
      <4>2. /\ stats' = [stats EXCEPT !.frames = CountFrame, !.raw = stats.raw + delta,
                                     !.accepted = stats.accepted + delta]
            /\ pausedTime' = pausedTime + delta
        BY <2>2 DEF PausedFrame
      <4>3. stats' = [frames |-> CountFrame, raw |-> stats.raw + delta,
                      accepted |-> stats.accepted + delta, clamped |-> stats.clamped,
                      dropped |-> stats.dropped, ticks |-> stats.ticks]
        BY <4>1, <4>2
      <4>4. /\ stats.raw + delta \in Nat /\ stats.accepted + delta \in Nat
            /\ stats.clamped \in Nat /\ stats.dropped \in Nat /\ stats.ticks \in Nat
            /\ pausedTime + delta \in Nat
        BY <4>1
      <4> QED
        BY <3>1, <4>2, <4>3, <4>4
    <3>3. clock \in [accumulator : 0..FixedDt - 1, tick : Nat] /\ forfeited \in Nat
      BY DEF Typed
    <3> QED
      BY <2>2, <3>2, <3>3 DEF Forfeit, Typed
  <2> QED
    BY <2>1, <2>2 DEF Frame
<1> QED
  BY <1>1, <1>2 DEF Typed

\* A tick is run.
LEMMA RunTickTyped == Typed /\ RunTick => Typed'
<1> SUFFICES ASSUME Typed, RunTick PROVE Typed'
  OBVIOUS
<1> USE ConstantsTyped
<1>1. PICK taken \in Extractions, shown \in Extractions, joined \in BOOLEAN, lost \in {0, 1} :
        /\ joined => /\ taken.version = world + 1
                     /\ grid' = EnsuredGrid(taken) /\ replicated' = taken.version
        /\ ~joined => UNCHANGED <<grid, replicated>>
        /\ world' = world + 1 + lost /\ changes' = changes + lost
        /\ shown.version <= world'
        /\ Viewer => snapshot' = shown /\ presentation' = Retain(CurrentTick)
        /\ ~Viewer => UNCHANGED presentation /\ snapshot' \in Extractions /\ snapshot'.version <= world'
  BY RunTickOutcome
<1>2. CurrentTick \in Nat /\ world \in Nat /\ world' \in Nat /\ world + 1 <= world' /\ changes' \in Nat
  BY <1>1 DEF CurrentTick, Typed
<1>3. /\ grid' \in [valid : BOOLEAN, tick : Nat, version : Nat] /\ grid'.version <= world'
      /\ replicated' \in Nat
  <2>1. CASE joined
    <3>1. taken.version <= world + 1
      BY <1>1, <1>2, <2>1
    <3>2. /\ EnsuredGrid(taken) \in [valid : BOOLEAN, tick : Nat, version : Nat]
          /\ EnsuredGrid(taken).version <= world + 1
      BY <3>1, EnsuredGridTyped
    <3> QED
      BY <1>1, <1>2, <2>1, <3>2
  <2>2. CASE ~joined
    BY <1>1, <1>2, <2>2 DEF Typed
  <2> QED
    BY <2>1, <2>2
<1>4. presentation' \in [previous : Ticks, current : Ticks]
  BY <1>1, <1>2, RetainTyped DEF Typed
<1>5. snapshot' \in Extractions /\ snapshot'.version <= world'
  BY <1>1
<1>6. /\ frame' \in [steps : 0..MaxSteps, first : Nat, offset : Nat] /\ frame'.offset <= frame'.steps
  BY DEF RunTick, Typed
<1>7. lastRun' \in Nat /\ UNCHANGED <<at, signal, reason, paused, clock, stats, pausedTime, forfeited>>
  BY <1>2 DEF RunTick, loop
<1> QED
  BY <1>2, <1>3, <1>4, <1>5, <1>6, <1>7 DEF Typed, Extractions

\* What the viewer leaves of the cached snapshot and of the world.
LEMMA ViewOutcome ==
  ASSUME Typed, View
  PROVE  LET shown == Ensured(snapshot, stats.ticks, world) IN
         \/ ~Viewer /\ UNCHANGED <<world, changes, snapshot, presentation, reason>>
         \/ /\ Viewer /\ reason' # "None" /\ UNCHANGED <<world, changes, presentation>>
            /\ snapshot' = shown \/ snapshot' = [snapshot EXCEPT !.valid = FALSE, !.dirty = TRUE]
         \/ /\ Viewer /\ ~Stopped /\ presentation' = Retain(shown.tick)
            /\ \E lost \in {0, 1} :
                /\ world' = world + lost /\ changes' = changes + lost
                /\ snapshot' = [shown EXCEPT !.dirty = (lost = 1)]
<1> DEFINE shown == Ensured(snapshot, stats.ticks, world)
<1>1. shown \in Extractions /\ ~shown.dirty
  BY EnsuredTyped DEF Typed, Extractions
<1>2. shown = [shown EXCEPT !.dirty = (0 = 1)]
  <2> HIDE DEF shown
  <2> QED
    BY <1>1 DEF Extractions
<1>3. world = world + 0 /\ changes = changes + 0
  BY DEF Typed
<1>4. CASE ~Viewer /\ UNCHANGED <<reason, paused, clock, forfeited, world, changes, snapshot, presentation>>
  BY <1>4
<1>5. CASE Viewer /\ Stopped /\ snapshot' = shown
           /\ UNCHANGED <<reason, paused, clock, forfeited, world, changes, presentation>>
  BY <1>5 DEF Stopped
<1>6. CASE Viewer /\ Request("FatalError")
           /\ snapshot' = [snapshot EXCEPT !.valid = FALSE, !.dirty = TRUE]
           /\ UNCHANGED <<paused, clock, forfeited, world, changes, presentation>>
  BY <1>6 DEF Request, Stopped
<1>7. CASE /\ Viewer /\ ~Stopped /\ presentation' = Retain(shown.tick)
           /\ \/ ToggleFromViewer
              \/ /\ snapshot' = shown
                 /\ UNCHANGED <<paused, clock, forfeited, world, changes>>
  <2>1. CASE ToggleFromViewer
    <3>1. \E lost \in {0, 1} :
            /\ world' = world + lost /\ changes' = changes + lost
            /\ snapshot' = [shown EXCEPT !.dirty = (lost = 1)]
      BY <2>1 DEF ToggleFromViewer
    <3> QED
      BY <1>7, <3>1
  <2>2. CASE snapshot' = shown /\ UNCHANGED <<paused, clock, forfeited, world, changes>>
    <3> HIDE DEF shown
    <3>1. /\ world' = world + 0 /\ changes' = changes + 0
          /\ snapshot' = [shown EXCEPT !.dirty = (0 = 1)]
      BY <1>2, <1>3, <2>2
    <3>2. \E lost \in {0, 1} :
            /\ world' = world + lost /\ changes' = changes + lost
            /\ snapshot' = [shown EXCEPT !.dirty = (lost = 1)]
      BY <3>1
    <3> QED
      BY <1>7, <3>2 DEF shown
  <2> QED
    BY <1>7, <2>1, <2>2
<1> QED
  BY <1>4, <1>5, <1>6, <1>7 DEF View

\* The viewer's part of a frame.
LEMMA ViewTyped == Typed /\ View => Typed'
<1> SUFFICES ASSUME Typed, View PROVE Typed'
  OBVIOUS
<1> USE ConstantsTyped
<1>1. /\ snapshot \in Extractions /\ world \in Nat /\ changes \in Nat /\ stats.ticks \in Nat
      /\ snapshot.version <= world
  BY DEF Typed, Extractions
<1> DEFINE shown == Ensured(snapshot, stats.ticks, world)
<1>2. shown \in Extractions /\ shown.version <= world /\ shown.tick \in Nat
  <2>1. shown \in Extractions /\ shown.version <= world
    BY <1>1, EnsuredTyped
  <2> QED
    BY <2>1 DEF Extractions
<1>3. Retain(shown.tick) \in [previous : Ticks, current : Ticks]
  <2> HIDE DEF shown
  <2> QED
    BY <1>2, RetainTyped
<1>4. /\ at' = "limits"
      /\ UNCHANGED <<signal, stats, frame, pausedTime, grid, replicated, lastRun>>
  BY DEF View
<1>5. reason' \in Reasons
  BY DEF View, Request, Typed, Reasons
<1>6. /\ paused' \in BOOLEAN /\ clock' \in [accumulator : 0..FixedDt - 1, tick : Nat]
      /\ clock'.tick = clock.tick /\ forfeited' \in Nat
  <2>1. clock \in [accumulator : 0..FixedDt - 1, tick : Nat] /\ forfeited \in Nat /\ paused \in BOOLEAN
    BY DEF Typed
  <2>2. UNCHANGED <<paused, clock, forfeited>> \/ (paused' = ~paused /\ Forfeit)
    BY DEF View, ToggleFromViewer
  <2>3. paused' \in BOOLEAN
    BY <2>1, <2>2
  <2>4. CASE UNCHANGED <<clock, forfeited>>
    BY <2>1, <2>3, <2>4
  <2>5. CASE Forfeit
    <3>1. clock.accumulator \in Nat /\ 0 \in 0..FixedDt - 1
      BY <2>1
    <3> QED
      BY <2>1, <2>3, <2>5, <3>1 DEF Forfeit
  <2> QED
    BY <2>2, <2>4, <2>5
<1>7. /\ presentation' \in [previous : Ticks, current : Ticks]
      /\ world' \in Nat /\ world <= world' /\ changes' \in Nat
      /\ snapshot' \in Extractions /\ snapshot'.version <= world'
  <2>1. \/ ~Viewer /\ UNCHANGED <<world, changes, snapshot, presentation, reason>>
        \/ /\ Viewer /\ reason' # "None" /\ UNCHANGED <<world, changes, presentation>>
           /\ snapshot' = shown \/ snapshot' = [snapshot EXCEPT !.valid = FALSE, !.dirty = TRUE]
        \/ /\ Viewer /\ ~Stopped /\ presentation' = Retain(shown.tick)
           /\ \E lost \in {0, 1} :
               /\ world' = world + lost /\ changes' = changes + lost
               /\ snapshot' = [shown EXCEPT !.dirty = (lost = 1)]
    BY ViewOutcome
  <2>2. presentation \in [previous : Ticks, current : Ticks]
    BY DEF Typed
  <2> HIDE DEF shown
  <2>3. CASE ~Viewer /\ UNCHANGED <<world, changes, snapshot, presentation, reason>>
    BY <1>1, <2>2, <2>3
  <2>4. CASE /\ Viewer /\ reason' # "None" /\ UNCHANGED <<world, changes, presentation>>
             /\ snapshot' = shown \/ snapshot' = [snapshot EXCEPT !.valid = FALSE, !.dirty = TRUE]
    <3>1. snapshot' \in Extractions /\ snapshot'.version <= world
      BY <1>1, <1>2, <2>4 DEF Extractions
    <3> QED
      BY <1>1, <2>2, <2>4, <3>1
  <2>5. CASE /\ Viewer /\ ~Stopped /\ presentation' = Retain(shown.tick)
             /\ \E lost \in {0, 1} :
                 /\ world' = world + lost /\ changes' = changes + lost
                 /\ snapshot' = [shown EXCEPT !.dirty = (lost = 1)]
    <3>1. PICK lost \in {0, 1} : /\ world' = world + lost /\ changes' = changes + lost
                                 /\ snapshot' = [shown EXCEPT !.dirty = (lost = 1)]
      BY <2>5
    <3>2. snapshot' \in Extractions /\ snapshot'.version = shown.version /\ shown.version \in Nat
      BY <1>2, <3>1 DEF Extractions
    <3> QED
      BY <1>1, <1>2, <1>3, <2>5, <3>1, <3>2
  <2> QED
    BY <2>1, <2>3, <2>4, <2>5
<1>8. grid.version <= world'
  BY <1>1, <1>7 DEF Typed
<1> QED
  BY <1>4, <1>5, <1>6, <1>7, <1>8 DEF Typed, Extractions

\* The remaining steps change the place in the loop, the latch and the reason, or fail a tick.
LEMMA OtherStepsTyped ==
  Typed /\ (RaiseSignal \/ StopForSignal \/ FailTick \/ Drain \/ Limits) => Typed'
<1> SUFFICES ASSUME Typed PROVE RaiseSignal \/ StopForSignal \/ FailTick \/ Drain \/ Limits => Typed'
  OBVIOUS
<1>1. ASSUME RaiseSignal \/ StopForSignal \/ Drain \/ Limits PROVE Typed'
  <2>1. UNCHANGED <<paused, clock, stats, frame, pausedTime, forfeited, world, snapshot, grid,
                    presentation, replicated, changes, lastRun>>
    BY <1>1 DEF RaiseSignal, StopForSignal, Drain, Limits, time, caches
  <2>2. /\ signal' \in BOOLEAN /\ reason' \in Reasons
        /\ at' \in {"poll", "frame", "ticks", "viewer", "limits"}
    BY <1>1 DEF RaiseSignal, StopForSignal, Drain, Limits, Request, ReachedLimit, Typed, Reasons
  <2> QED
    BY <2>1, <2>2 DEF Typed
<1>2. ASSUME FailTick PROVE Typed'
  <2>1. UNCHANGED <<at, signal, paused, clock, stats, frame, pausedTime, forfeited, grid,
                    presentation, replicated, changes, lastRun>>
    BY <1>2 DEF FailTick, time
  <2>2. reason' \in Reasons
    BY <1>2 DEF FailTick, Request, Typed, Reasons
  <2>3. world' = world + 1 /\ snapshot' = [snapshot EXCEPT !.dirty = TRUE]
    BY <1>2 DEF FailTick
  <2>4. /\ world \in Nat /\ snapshot \in Extractions
        /\ snapshot.version <= world /\ snapshot.version \in Nat
        /\ grid.version <= world /\ grid.version \in Nat
    BY DEF Typed, Extractions
  <2>5. /\ world' \in Nat /\ snapshot' \in Extractions /\ snapshot'.version <= world'
        /\ grid.version <= world'
    <3>1. snapshot' \in Extractions /\ snapshot'.version = snapshot.version
      BY <2>3, <2>4 DEF Extractions
    <3>2. world' \in Nat /\ snapshot.version <= world' /\ grid.version <= world'
      BY <2>3, <2>4
    <3> QED
      BY <3>1, <3>2
  <2> QED
    BY <2>1, <2>2, <2>5 DEF Typed, Extractions
<1> QED
  BY <1>1, <1>2

\* The types are kept.
LEMMA TypedInductive == Typed /\ [Next]_vars => Typed'
<1> SUFFICES ASSUME Typed, [Next]_vars PROVE Typed'
  OBVIOUS
<1>1. CASE UNCHANGED vars
  BY <1>1 DEF vars, loop, time, caches, Typed
<1>2. CASE Next
  BY <1>2, PollTyped, FrameTyped, RunTickTyped, ViewTyped, OtherStepsTyped DEF Next, Step
<1> QED
  BY <1>1, <1>2

\* The variables keep their types, the accumulator stays below a step and the clock below
\* its limit, for every constant.
THEOREM TypeCorrect == Spec => []TypeOK
<1>1. Spec => []Typed
  BY InitTyped, TypedInductive, PTL DEF Spec
<1> QED
  BY <1>1, TypedSuffices, PTL

-----------------------------------------------------------------------------
(* Time. *)

\* Ticks taken in one frame add up with those taken before.
LEMMA TicksAddUp ==
  ASSUME NEW a \in Nat, NEW b \in Nat, NEW dt \in Nat
  PROVE  (a + b) * dt = a * dt + b * dt /\ a * dt \in Nat /\ b * dt \in Nat
OBVIOUS

\* The account with the time of the ticks, old and new, as plain numbers.
LEMMA Balance ==
  ASSUME NEW old \in Nat, NEW new \in Nat, NEW rest \in Nat, NEW rest2 \in Nat,
         NEW gone \in Nat, NEW gone2 \in Nat, NEW pausing \in Nat, NEW lost \in Nat,
         NEW sum \in Nat, NEW sum2 \in Nat,
         sum = old + rest + gone + pausing + lost,
         sum2 - sum = new + rest2 - rest + gone2 - gone
  PROVE  sum2 = (old + new) + rest2 + gone2 + pausing + lost
OBVIOUS

\* Starting over moves the accumulator into what was forfeited.
LEMMA ForfeitAccounted ==
  Typed /\ Forfeit =>
    /\ clock'.tick = clock.tick
    /\ clock'.accumulator + forfeited' = clock.accumulator + forfeited
BY DEF Forfeit, Typed

\* Every step keeps the account of time.
LEMMA TimeAccountedInductive == Typed /\ TimeAccounted /\ [Next]_vars => TimeAccounted'
<1> SUFFICES ASSUME Typed, TimeAccounted, [Next]_vars PROVE TimeAccounted'
  OBVIOUS
<1> USE ConstantsTyped
<1>1. /\ clock.accumulator \in Nat /\ clock.tick \in Nat /\ pausedTime \in Nat /\ forfeited \in Nat
      /\ stats.raw \in Nat /\ stats.accepted \in Nat /\ stats.clamped \in Nat /\ stats.dropped \in Nat
      /\ stats \in [frames : Nat, raw : Nat, accepted : Nat, clamped : Nat, dropped : Nat, ticks : Nat]
  BY DEF Typed
<1>2. clock.tick * FixedDt \in Nat
  BY <1>1, TicksAddUp
<1>3. CASE UNCHANGED <<clock, stats, pausedTime, forfeited>>
  BY <1>3 DEF TimeAccounted
<1>4. CASE UNCHANGED <<stats, pausedTime>> /\ Forfeit
  <2>1. /\ clock'.tick = clock.tick
        /\ clock'.accumulator + forfeited' = clock.accumulator + forfeited
    BY <1>4, ForfeitAccounted
  <2>2. clock'.accumulator = 0 /\ forfeited' = forfeited + clock.accumulator
    BY <1>1, <1>4 DEF Forfeit, Typed
  <2> QED
    BY <1>1, <1>2, <1>4, <2>1, <2>2 DEF TimeAccounted
<1>5. ASSUME NEW delta \in Deltas, Frame(delta) PROVE TimeAccounted'
  <2>1. CASE ~paused /\ PlanRuntimeFrame(delta)
    <3>1. /\ clock' \in [accumulator : 0..FixedDt - 1, tick : Nat]
          /\ stats' \in [frames : Nat, raw : Nat, accepted : Nat, clamped : Nat, dropped : Nat, ticks : Nat]
          /\ frame'.steps \in Nat /\ clock'.tick = clock.tick + frame'.steps
          /\ stats'.raw - stats'.accepted - stats'.clamped
                 = stats.raw - stats.accepted - stats.clamped
          /\ stats'.accepted - stats.accepted
                 = frame'.steps * FixedDt + clock'.accumulator - clock.accumulator
                   + stats'.dropped - stats.dropped
      BY <2>1, FramePlan
    <3>2. UNCHANGED <<pausedTime, forfeited>>
      BY <2>1 DEF PlanRuntimeFrame
    <3>3. clock'.tick * FixedDt = clock.tick * FixedDt + frame'.steps * FixedDt
          /\ frame'.steps * FixedDt \in Nat
      BY <1>1, <3>1, TicksAddUp
    <3>4. /\ clock'.accumulator \in Nat /\ stats'.raw \in Nat /\ stats'.accepted \in Nat
          /\ stats'.clamped \in Nat /\ stats'.dropped \in Nat
      BY <3>1
    <3>5. stats'.raw = stats'.accepted + stats'.clamped
      BY <1>1, <3>1, <3>4 DEF TimeAccounted
    <3>6. stats'.accepted = clock'.tick * FixedDt + clock'.accumulator + stats'.dropped
                            + pausedTime' + forfeited'
      <4>1. stats.accepted = clock.tick * FixedDt + clock.accumulator + stats.dropped
                             + pausedTime + forfeited
        BY DEF TimeAccounted
      <4>2. stats'.accepted = (clock.tick * FixedDt + frame'.steps * FixedDt)
                              + clock'.accumulator + stats'.dropped + pausedTime + forfeited
        BY <1>1, <1>2, <3>1, <3>3, <3>4, <4>1, Balance
      <4> QED
        BY <3>2, <3>3, <4>2
    <3> QED
      BY <3>5, <3>6 DEF TimeAccounted
  <2>2. CASE paused /\ PausedFrame(delta) /\ Forfeit
    <3>1. delta \in Nat
      OBVIOUS
    <3>2. /\ stats'.raw = stats.raw + delta /\ stats'.accepted = stats.accepted + delta
          /\ stats'.clamped = stats.clamped /\ stats'.dropped = stats.dropped
          /\ pausedTime' = pausedTime + delta
      BY <1>1, <2>2 DEF PausedFrame
    <3>3. clock'.tick = clock.tick /\ clock'.accumulator = 0
          /\ forfeited' = forfeited + clock.accumulator
      BY <2>2 DEF Forfeit, Typed
    <3> QED
      BY <1>1, <1>2, <3>1, <3>2, <3>3 DEF TimeAccounted
  <2> QED
    BY <1>5, <2>1, <2>2 DEF Frame
<1>6. CASE UNCHANGED vars
  BY <1>3, <1>6 DEF vars, time
<1>7. CASE RaiseSignal \/ StopForSignal \/ FailTick \/ Drain \/ Limits \/ RunTick
  BY <1>3, <1>7 DEF RaiseSignal, StopForSignal, FailTick, Drain, Limits, RunTick, time
<1>8. CASE Poll
  <2>1. UNCHANGED <<stats, pausedTime>> /\ (UNCHANGED <<clock, forfeited>> \/ Forfeit)
    BY <1>8 DEF Poll
  <2> QED
    BY <1>3, <1>4, <2>1
<1>9. CASE View
  <2>1. UNCHANGED <<stats, pausedTime>> /\ (UNCHANGED <<clock, forfeited>> \/ Forfeit)
    BY <1>9 DEF View, ToggleFromViewer
  <2> QED
    BY <1>3, <1>4, <2>1
<1> QED
  BY <1>5, <1>6, <1>7, <1>8, <1>9 DEF Next, Step

\* No elapsed time is lost or counted twice, whatever the frames, the limits and the pauses.
THEOREM TimeIsAccounted == Spec => []TimeAccounted
<1>1. Init => TimeAccounted
  BY ConstantsTyped DEF Init, TimeAccounted
<1> QED
  BY <1>1, InitTyped, TypedInductive, TimeAccountedInductive, PTL DEF Spec

-----------------------------------------------------------------------------
(* Ticks and the caches that follow them. *)

\* Between frames every planned tick was run, within one the rest of the plan is next;
\* only a fatal error leaves the plan.
Ordered ==
    /\ clock.tick = stats.ticks
    /\ at = "frame" => ~Stopped
    /\ at = "ticks" => reason \in {"None", "FatalError"}
    /\ at \in {"poll", "frame"} /\ ~Stopped => lastRun = stats.ticks
    /\ at = "ticks" /\ ~Stopped =>
        /\ lastRun + frame.steps = stats.ticks + frame.offset
        /\ frame.offset < frame.steps => CurrentTick = lastRun + 1
    /\ at \in {"viewer", "limits"} /\ reason # "FatalError" => lastRun = stats.ticks

\* The grid is of a tick that was run, and of the snapshot replicated last.
GridFollows == grid.valid => grid.tick <= lastRun /\ grid.version = replicated

\* A snapshot that may be used is of the last tick, and so is what the viewer shows.
PresentationFollows ==
    /\ ~Viewer => presentation = [previous |-> NoTick, current |-> NoTick]
    /\ presentation.previous # NoTick => presentation.previous + 1 = presentation.current
    /\ ~Stopped =>
        /\ snapshot.valid /\ ~snapshot.dirty => snapshot.tick = lastRun
        /\ presentation.current # NoTick => presentation.current = lastRun

\* The order of the ticks is kept.
LEMMA OrderedInductive == Typed /\ Ordered /\ [Next]_vars => Ordered'
<1> SUFFICES ASSUME Typed, Ordered, [Next]_vars PROVE Ordered'
  OBVIOUS
<1> USE ConstantsTyped
<1>1. /\ clock.tick \in Nat /\ stats.ticks \in Nat /\ lastRun \in Nat
      /\ frame.steps \in Nat /\ frame.offset \in Nat /\ frame.first \in Nat
      /\ frame.offset <= frame.steps
      /\ frame \in [steps : 0..MaxSteps, first : Nat, offset : Nat]
  BY DEF Typed
<1>2. CASE UNCHANGED vars
  BY <1>2 DEF vars, loop, time, Ordered, Stopped, CurrentTick
<1>3. CASE RaiseSignal
  BY <1>3 DEF RaiseSignal, time, Ordered, Stopped, CurrentTick
<1>4. CASE StopForSignal
  BY <1>4 DEF StopForSignal, Request, time, Ordered, Stopped, CurrentTick
<1>5. CASE Poll
  <2>1. UNCHANGED <<stats, frame, lastRun>> /\ clock'.tick = clock.tick
        /\ at = "poll" /\ ~Stopped
    BY <1>5 DEF Poll, Forfeit, Typed
  <2>2. (at' = "poll" /\ reason' = "FatalError") \/ (at' = "frame" /\ reason' = reason)
    BY <1>5, <2>1 DEF Poll, Request
  <2> QED
    BY <2>1, <2>2 DEF Ordered, Stopped, CurrentTick
<1>6. ASSUME NEW delta \in Deltas, Frame(delta) PROVE Ordered'
  <2>1. at = "frame" /\ at' = "ticks" /\ UNCHANGED <<reason, lastRun>> /\ ~Stopped
        /\ lastRun = stats.ticks /\ clock.tick = stats.ticks
    BY <1>6 DEF Frame, Ordered
  <2>2. /\ clock'.tick = stats'.ticks /\ frame'.offset = 0
        /\ stats'.ticks = clock.tick + frame'.steps /\ frame'.steps \in Nat
        /\ frame'.steps > 0 => frame'.first = clock.tick + 1
    <3>1. CASE ~paused /\ PlanRuntimeFrame(delta)
      <4>1. /\ frame' \in [steps : 0..MaxSteps, first : Nat, offset : Nat]
            /\ frame'.offset = 0 /\ frame'.first = clock.tick + 1
            /\ clock'.tick = clock.tick + frame'.steps /\ stats'.ticks = clock'.tick
        BY <3>1, FramePlan
      <4> QED
        BY <4>1
    <3>2. CASE /\ PausedFrame(delta) /\ Forfeit
               /\ frame' = [steps |-> 0, first |-> 0, offset |-> 0]
      <4>1. clock'.tick = clock.tick /\ stats'.ticks = stats.ticks
        BY <3>2 DEF PausedFrame, Forfeit, Typed
      <4>2. frame'.steps = 0 /\ frame'.offset = 0
        BY <3>2
      <4> QED
        BY <1>1, <2>1, <4>1, <4>2
    <3> QED
      BY <1>6, <3>1, <3>2 DEF Frame
  <2>3. frame'.offset < frame'.steps => frame'.first + frame'.offset = lastRun + 1
    BY <1>1, <2>1, <2>2
  <2> QED
    BY <1>1, <2>1, <2>2, <2>3 DEF Ordered, Stopped, CurrentTick
<1>7. CASE RunTick
  <2>1. /\ at = "ticks" /\ ~Stopped /\ frame.offset < frame.steps
        /\ lastRun' = CurrentTick /\ frame' = [frame EXCEPT !.offset = frame.offset + 1]
        /\ UNCHANGED <<at, reason, clock, stats>>
    BY <1>7 DEF RunTick, loop
  <2>2. /\ frame'.offset = frame.offset + 1 /\ frame'.steps = frame.steps
        /\ frame'.first = frame.first
    BY <1>1, <2>1
  <2>3. lastRun' = lastRun + 1 /\ lastRun + frame.steps = stats.ticks + frame.offset
    BY <2>1 DEF Ordered
  <2>4. lastRun' + frame'.steps = stats.ticks + frame'.offset
    BY <1>1, <2>2, <2>3
  <2>5. frame'.first + frame'.offset = lastRun' + 1
    BY <1>1, <2>1, <2>2 DEF CurrentTick
  <2> QED
    BY <2>1, <2>4, <2>5 DEF Ordered, Stopped, CurrentTick
<1>8. CASE FailTick
  <2>1. at' = "ticks" /\ reason' = "FatalError" /\ UNCHANGED <<clock, stats>>
    BY <1>8 DEF FailTick, Request, time
  <2> QED
    BY <2>1 DEF Ordered, Stopped, CurrentTick
<1>9. CASE Drain
  <2>1. /\ at = "ticks" /\ (Stopped \/ frame.offset = frame.steps)
        /\ UNCHANGED <<clock, stats, frame, lastRun>>
        /\ (at' = "viewer" /\ reason' = reason) \/ (at' = "poll" /\ reason' # "None")
    BY <1>9 DEF Drain, Request, Stopped, time
  <2>2. reason # "FatalError" => lastRun = stats.ticks
    BY <1>1, <2>1 DEF Ordered, Stopped
  <2> QED
    BY <2>1, <2>2 DEF Ordered, Stopped, CurrentTick
<1>10. CASE View
  <2>1. /\ at = "viewer" /\ at' = "limits" /\ UNCHANGED <<stats, frame, lastRun>>
        /\ clock'.tick = clock.tick
    BY <1>10 DEF View, ToggleFromViewer, Forfeit, Typed
  <2>2. reason' # "FatalError" => reason # "FatalError"
    BY <1>10 DEF View, Request, Stopped
  <2> QED
    BY <2>1, <2>2 DEF Ordered, Stopped, CurrentTick
<1>11. CASE Limits
  <2>1. /\ at = "limits" /\ at' = "poll" /\ UNCHANGED <<clock, stats, frame, lastRun>>
        /\ reason' = "None" => ~Stopped
    BY <1>11 DEF Limits, Request, Stopped, time
  <2> QED
    BY <2>1 DEF Ordered, Stopped, CurrentTick
<1> QED
  BY <1>2, <1>3, <1>4, <1>5, <1>6, <1>7, <1>8, <1>9, <1>10, <1>11 DEF Next, Step

\* The grid follows the ticks.
LEMMA GridInductive == Typed /\ Ordered /\ GridFollows /\ [Next]_vars => GridFollows'
<1> SUFFICES ASSUME Typed, Ordered, GridFollows, [Next]_vars PROVE GridFollows'
  OBVIOUS
<1>1. CASE UNCHANGED <<grid, replicated, lastRun>>
  BY <1>1 DEF GridFollows
<1>2. CASE RunTick
  <2>1. PICK taken \in Extractions, joined \in BOOLEAN :
          /\ joined => /\ taken.tick = CurrentTick
                       /\ grid' = EnsuredGrid(taken) /\ replicated' = taken.version
          /\ ~joined => UNCHANGED <<grid, replicated>>
    BY <1>2, RunTickOutcome
  <2>2. lastRun' = CurrentTick /\ CurrentTick = lastRun + 1 /\ lastRun \in Nat /\ grid.tick \in Nat
    BY <1>2 DEF RunTick, Ordered, Typed
  <2>3. CASE joined
    <3>1. grid.valid => grid.tick # taken.tick
      BY <2>1, <2>2, <2>3 DEF GridFollows
    <3>2. grid' = [valid |-> TRUE, tick |-> taken.tick, version |-> taken.version]
      BY <2>1, <2>3, <3>1 DEF EnsuredGrid
    <3> QED
      BY <2>1, <2>2, <2>3, <3>2 DEF GridFollows
  <2>4. CASE ~joined
    BY <2>1, <2>2, <2>4 DEF GridFollows
  <2> QED
    BY <2>3, <2>4
<1>3. CASE UNCHANGED vars
  BY <1>1, <1>3 DEF vars, caches
<1>4. CASE RaiseSignal \/ StopForSignal \/ Poll \/ FailTick \/ Drain \/ View \/ Limits
  BY <1>1, <1>4 DEF RaiseSignal, StopForSignal, Poll, FailTick, Drain, View, Limits, caches
<1>5. CASE \E delta \in Deltas : Frame(delta)
  BY <1>1, <1>5 DEF Frame, caches
<1> QED
  BY <1>2, <1>3, <1>4, <1>5 DEF Next, Step

\* The cached snapshot and the viewer's presentation follow the ticks.
LEMMA PresentationInductive ==
  Typed /\ Ordered /\ PresentationFollows /\ [Next]_vars => PresentationFollows'
<1> SUFFICES ASSUME Typed, Ordered, PresentationFollows, [Next]_vars PROVE PresentationFollows'
  OBVIOUS
<1>1. /\ lastRun \in Nat /\ presentation.current \in Ticks /\ presentation.previous \in Ticks
      /\ snapshot \in Extractions /\ stats.ticks \in Nat /\ world \in Nat /\ snapshot.version <= world
  BY DEF Typed, Extractions
<1>2. CASE /\ UNCHANGED <<lastRun, presentation>> /\ (reason' = "None" => ~Stopped)
           /\ \/ UNCHANGED snapshot
              \/ snapshot'.dirty = TRUE
              \/ snapshot'.dirty = snapshot.dirty /\ snapshot'.valid = snapshot.valid
                 /\ snapshot'.tick = snapshot.tick
              \/ reason' # "None"
  BY <1>2 DEF PresentationFollows, Stopped
<1>3. CASE UNCHANGED vars
  BY <1>2, <1>3 DEF vars, loop, caches, Stopped
<1>4. CASE RaiseSignal \/ StopForSignal \/ Drain \/ Limits
  BY <1>2, <1>4 DEF RaiseSignal, StopForSignal, Drain, Limits, Request, Stopped, caches
<1>5. CASE \E delta \in Deltas : Frame(delta)
  BY <1>2, <1>5 DEF Frame, Stopped, caches
<1>6. CASE Poll
  <2>1. UNCHANGED <<lastRun, presentation>> /\ ~Stopped
    BY <1>6 DEF Poll
  <2>2. \/ UNCHANGED snapshot
        \/ \E dirty \in BOOLEAN : snapshot' = [snapshot EXCEPT !.dirty = dirty]
                                  /\ (dirty = snapshot.dirty \/ dirty = TRUE)
    BY <1>6 DEF Poll, WorldMayChange
  <2>3. \/ UNCHANGED snapshot
        \/ snapshot'.dirty = TRUE
        \/ snapshot'.dirty = snapshot.dirty /\ snapshot'.valid = snapshot.valid
           /\ snapshot'.tick = snapshot.tick
    BY <1>1, <2>2 DEF Extractions
  <2> QED
    BY <1>2, <2>1, <2>3
<1>7. CASE FailTick
  <2>1. UNCHANGED <<lastRun, presentation>> /\ ~Stopped /\ snapshot'.dirty = TRUE
    BY <1>1, <1>7 DEF FailTick, Extractions
  <2> QED
    BY <1>2, <2>1
<1>8. ASSUME NEW tick \in Nat, Viewer, ~Stopped, lastRun' \in Nat, lastRun' = tick,
             presentation' = Retain(tick),
             presentation.current # NoTick /\ presentation.current # tick
                => presentation.current + 1 = tick,
             snapshot'.valid /\ ~snapshot'.dirty => snapshot'.tick = tick
      PROVE  PresentationFollows'
  <2>1. CASE presentation.current = tick
    BY <1>8, <2>1 DEF PresentationFollows, Retain, Stopped
  <2>2. CASE presentation.current # tick
    <3>1. presentation'.previous = presentation.current /\ presentation'.current = tick
      BY <1>8, <2>2 DEF Retain
    <3> QED
      BY <1>8, <2>2, <3>1 DEF PresentationFollows, Stopped
  <2> QED
    BY <2>1, <2>2
<1>9. CASE RunTick
  <2>1. /\ lastRun' = CurrentTick /\ CurrentTick = lastRun + 1 /\ ~Stopped /\ reason' = reason
    BY <1>9 DEF RunTick, Ordered, loop
  <2>2. PICK shown \in Extractions :
          /\ shown.tick = CurrentTick
          /\ Viewer => snapshot' = shown /\ presentation' = Retain(CurrentTick)
          /\ ~Viewer => /\ UNCHANGED presentation
                        /\ snapshot'.valid /\ ~snapshot'.dirty => snapshot'.tick = CurrentTick
    BY <1>9, RunTickOutcome
  <2>3. CASE Viewer
    <3>1. presentation.current # NoTick => presentation.current + 1 = CurrentTick
      BY <2>1 DEF PresentationFollows
    <3>2. CurrentTick \in Nat /\ lastRun' \in Nat
      BY <1>1, <2>1
    <3> QED
      BY <1>8, <2>1, <2>2, <2>3, <3>1, <3>2
  <2>4. CASE ~Viewer
    <3>1. presentation.current = NoTick /\ presentation.previous = NoTick
      BY <2>4 DEF PresentationFollows
    <3> QED
      BY <2>1, <2>2, <2>4, <3>1 DEF PresentationFollows
  <2> QED
    BY <2>3, <2>4
<1>10. CASE View
  <2> DEFINE shown == Ensured(snapshot, stats.ticks, world)
  <2>1. at = "viewer" /\ UNCHANGED lastRun
    BY <1>10 DEF View
  <2>2. \/ ~Viewer /\ UNCHANGED <<world, changes, snapshot, presentation, reason>>
        \/ Viewer /\ reason' # "None" /\ UNCHANGED <<world, changes, presentation>>
        \/ /\ Viewer /\ ~Stopped /\ presentation' = Retain(shown.tick)
           /\ \E lost \in {0, 1} : snapshot' = [shown EXCEPT !.dirty = (lost = 1)]
    BY <1>10, ViewOutcome
  <2>3. CASE ~Viewer /\ UNCHANGED <<world, changes, snapshot, presentation, reason>>
    BY <1>2, <2>1, <2>3 DEF Stopped
  <2>4. CASE Viewer /\ reason' # "None" /\ UNCHANGED <<world, changes, presentation>>
    BY <1>2, <2>1, <2>4
  <2>5. CASE /\ Viewer /\ ~Stopped /\ presentation' = Retain(shown.tick)
             /\ \E lost \in {0, 1} : snapshot' = [shown EXCEPT !.dirty = (lost = 1)]
    <3>1. lastRun = stats.ticks
      BY <2>1, <2>5 DEF Ordered, Stopped
    <3>2. shown \in Extractions /\ shown.tick = lastRun
      <4>1. /\ shown \in Extractions
            /\ ~(snapshot.valid /\ ~snapshot.dirty) => shown.tick = stats.ticks
            /\ snapshot.valid /\ ~snapshot.dirty => shown = snapshot
        BY <1>1, EnsuredTyped
      <4> HIDE DEF shown
      <4> QED
        BY <2>5, <3>1, <4>1 DEF PresentationFollows
    <3> HIDE DEF shown
    <3>3. snapshot'.tick = lastRun
      BY <2>5, <3>2 DEF Extractions
    <3>4. presentation.current # NoTick => presentation.current = lastRun
      BY <2>5 DEF PresentationFollows
    <3> QED
      BY <1>1, <1>8, <2>1, <2>5, <3>2, <3>3, <3>4
  <2> QED
    BY <2>2, <2>3, <2>4, <2>5
<1> QED
  BY <1>3, <1>4, <1>5, <1>6, <1>7, <1>9, <1>10 DEF Next, Step

\* Everything at once.
LEMMA InStep == Spec => [](Typed /\ Ordered /\ GridFollows /\ PresentationFollows)
<1>1. Init => Ordered /\ GridFollows /\ PresentationFollows
  BY DEF Init, Ordered, GridFollows, PresentationFollows, Stopped
<1> QED
  BY <1>1, InitTyped, TypedInductive, OrderedInductive, GridInductive, PresentationInductive, PTL
     DEF Spec

\* Planned ticks are run one after the other, none twice and none left out but by a fatal error.
THEOREM TicksOrdered == Spec => TicksRunInOrder
<1>1. Typed /\ Ordered /\ [Next]_vars =>
        [/\ lastRun' # lastRun => lastRun' = lastRun + 1
         /\ at = "limits" /\ reason # "FatalError" => lastRun = stats.ticks]_vars
  <2> SUFFICES ASSUME Typed, Ordered, [Next]_vars
               PROVE  /\ lastRun' # lastRun => lastRun' = lastRun + 1
                      /\ at = "limits" /\ reason # "FatalError" => lastRun = stats.ticks
    OBVIOUS
  <2>1. CASE UNCHANGED lastRun
    BY <2>1 DEF Ordered
  <2>2. CASE RunTick
    BY <2>2 DEF RunTick, Ordered
  <2>3. UNCHANGED lastRun \/ RunTick
    BY DEF Next, Step, vars, RaiseSignal, StopForSignal, Poll, Frame, FailTick, Drain, View, Limits
  <2> QED
    BY <2>1, <2>2, <2>3
<1> QED
  BY <1>1, InStep, PTL DEF Spec, TicksRunInOrder

\* Interest is always queried in a grid of the very snapshot that is replicated.
THEOREM GridMatchesSnapshot == Spec => []GridIsOfSnapshot
<1>1. GridFollows => GridIsOfSnapshot
  BY DEF GridFollows, GridIsOfSnapshot
<1> QED
  BY <1>1, InStep, PTL

\* The viewer interpolates between the last two ticks.
THEOREM PresentationIsAdjacent == Spec => []PresentationAdjacent
<1>1. Typed /\ Ordered /\ PresentationFollows => PresentationAdjacent
  <2> SUFFICES ASSUME Typed, Ordered, PresentationFollows, presentation.previous # NoTick
               PROVE  /\ presentation.previous + 1 = presentation.current
                      /\ at = "limits" /\ ~Stopped => presentation.current = stats.ticks
    BY DEF PresentationAdjacent
  <2>1. presentation.previous \in Nat /\ presentation.previous + 1 = presentation.current
    BY DEF Typed, Ticks, PresentationFollows
  <2>2. presentation.current # NoTick
    BY <2>1 DEF NoTick
  <2> QED
    BY <2>1, <2>2 DEF Ordered, PresentationFollows, Stopped
<1> QED
  BY <1>1, InStep, PTL
=============================================================================
