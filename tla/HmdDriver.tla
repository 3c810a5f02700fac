------------------------------ MODULE HmdDriver ------------------------------
(***************************************************************************)
(* The SteamVR side of MicMap: DeviceProvider::RunFrame and writeValue     *)
(* (driver/src/device_provider.cpp), the CommandQueue it drains            *)
(* (driver/src/command_queue.hpp) and the POST /button route that fills it *)
(* (driver/src/http_server.cpp).                                           *)
(*                                                                         *)
(* vrserver calls RunFrame once per frame on its own thread; `pc' is the   *)
(* numbered stage RunFrame is in.  Between any two stages the HTTP thread  *)
(* may push, time may pass and the headset may come or go.                 *)
(*                                                                         *)
(* A TapCommand is empty, so the queue is its length.  steady_clock is     *)
(* counted in ticks: pressTimestamp_ is kept as the age of the press and   *)
(* pendingReleaseAt_ as the ticks left until it is due, both saturating    *)
(* where no comparison of the code can tell larger values apart.           *)
(***************************************************************************)
EXTENDS Integers

CONSTANTS
  MaxDepth,   \* CommandQueue::kMaxDepth
  TapHold,    \* kTapHold, in ticks
  MaxHold     \* kMaxHold, in ticks

ASSUME HmdDriverAssumption ==
  /\ MaxDepth \in Nat \ {0}
  /\ TapHold \in Nat
  /\ MaxHold \in Nat
  /\ TapHold <= MaxHold

VARIABLES
  initialized,      \* Init succeeded and Cleanup has not run
  pc,               \* the stage RunFrame is in, "idle" between frames
  queued,           \* commandQueue_.size()
  hSystemClick,     \* whether hSystemClick_ holds a handle
  hmdState,         \* state_
  pressAge,         \* now - pressTimestamp_, saturating at MaxHold + 1
  releaseIn,        \* *pendingReleaseAt_ - now, at least 0, or NoRelease
  isPressed,        \* isPressed_
  lastWrittenValue, \* lastWrittenValue_
  hmdActive,        \* vrserver: the headset has a property container
  deactivated,      \* vrserver: a TrackedDeviceDeactivated event is queued
  component         \* vrserver: the value of /input/system/click, or "none"

queueVars  == <<queued>>
handleVars == <<hSystemClick, hmdState>>
pressVars  == <<pressAge, releaseIn>>
valueVars  == <<isPressed, lastWrittenValue>>
hostVars   == <<hmdActive, deactivated, component>>
vars == <<initialized, pc, queued, hSystemClick, hmdState, pressAge, releaseIn,
          isPressed, lastWrittenValue, hmdActive, deactivated, component>>

NoRelease == -1
Stages == {"idle", "events", "create", "drain", "release", "watchdog"}
HmdComponentState == {"NotReady", "Ready", "Invalidated"}

TypeOK ==
  /\ initialized \in BOOLEAN
  /\ pc \in Stages
  /\ queued \in 0..MaxDepth
  /\ hSystemClick \in BOOLEAN
  /\ hmdState \in HmdComponentState
  /\ pressAge \in 0..(MaxHold + 1)
  /\ releaseIn \in {NoRelease} \cup 0..TapHold
  /\ isPressed \in BOOLEAN
  /\ lastWrittenValue \in BOOLEAN
  /\ hmdActive \in BOOLEAN
  /\ deactivated \in BOOLEAN
  /\ component \in {"none", "up", "down"}

Init ==
  /\ initialized = FALSE
  /\ pc = "idle"
  /\ queued = 0
  /\ hSystemClick = FALSE
  /\ hmdState = "NotReady"
  /\ pressAge = MaxHold + 1
  /\ releaseIn = NoRelease
  /\ isPressed = FALSE
  /\ lastWrittenValue = FALSE
  /\ hmdActive \in BOOLEAN
  /\ deactivated = FALSE
  /\ component = "none"
-----------------------------------------------------------------------------
(* vrserver and the headset *)

\* vrserver loads the driver.  When the HTTP server finds no port, Init returns
\* Driver_Failed and nothing of this state has changed.
InitDriver ==
  /\ ~initialized
  /\ initialized' = TRUE
  /\ UNCHANGED <<pc, queueVars, handleVars, pressVars, valueVars, hostVars>>

\* vrserver unloads the driver between two frames.  The HTTP thread is joined
\* before the queue goes; pressTimestamp_ is the one field not reset.  vrserver
\* drops the component with the driver that made it.
Cleanup ==
  /\ initialized
  /\ pc = "idle"
  /\ initialized' = FALSE
  /\ queued' = 0
  /\ hSystemClick' = FALSE
  /\ hmdState' = "NotReady"
  /\ releaseIn' = NoRelease
  /\ isPressed' = FALSE
  /\ lastWrittenValue' = FALSE
  /\ component' = "none"
  /\ UNCHANGED <<pc, pressAge, hmdActive, deactivated>>

HmdActivates ==
  /\ ~hmdActive
  /\ hmdActive' = TRUE
  /\ UNCHANGED <<initialized, pc, queueVars, handleVars, pressVars, valueVars,
                 deactivated, component>>

\* The component goes with the headset at once; the driver learns of it from
\* the event, at its next poll.
HmdDeactivates ==
  /\ hmdActive
  /\ hmdActive' = FALSE
  /\ deactivated' = initialized
  /\ component' = "none"
  /\ UNCHANGED <<initialized, pc, queueVars, handleVars, pressVars, valueVars>>
-----------------------------------------------------------------------------
(* The HTTP thread and the clock *)

\* Mutant of push: an off-by-one in the full test.
pushPastTheEnd == queued' = IF queued > MaxDepth THEN queued ELSE queued + 1

\* The oldest tap gives way when the queue is full.
push == queued' = IF queued >= MaxDepth THEN queued ELSE queued + 1

\* POST /button with {"kind":"tap"}, answered 200 whatever the queue drops.
Push ==
  /\ initialized
  /\ push
  /\ UNCHANGED <<initialized, pc, handleVars, pressVars, valueVars, hostVars>>

Tick ==
  /\ pressAge' = IF pressAge <= MaxHold THEN pressAge + 1 ELSE pressAge
  /\ releaseIn' = IF releaseIn > 0 THEN releaseIn - 1 ELSE releaseIn
  /\ UNCHANGED <<initialized, pc, queueVars, handleVars, valueVars, hostVars>>
-----------------------------------------------------------------------------
(* writeValue *)

WriteSkipped(v) ==
  /\ hmdState # "Ready" \/ v = lastWrittenValue
  /\ UNCHANGED <<handleVars, valueVars, component>>

\* A write to the handle of a component that is gone may go unnoticed.
WriteOk(v) ==
  /\ hmdState = "Ready"
  /\ v # lastWrittenValue
  /\ component' = IF component = "none" THEN "none" ELSE IF v THEN "down" ELSE "up"
  /\ lastWrittenValue' = v
  /\ isPressed' = v
  /\ UNCHANGED handleVars

\* Mutants of WriteError: a value not reset; a handle not invalidated.
WriteErrorKeepsValue(v) ==
  /\ hmdState = "Ready"
  /\ v # lastWrittenValue
  /\ hSystemClick' = FALSE
  /\ hmdState' = "Invalidated"
  /\ isPressed' = FALSE
  /\ UNCHANGED <<lastWrittenValue, component>>
WriteErrorKeepsHandle(v) ==
  /\ hmdState = "Ready"
  /\ v # lastWrittenValue
  /\ isPressed' = FALSE
  /\ lastWrittenValue' = FALSE
  /\ UNCHANGED <<handleVars, component>>

\* UpdateBooleanComponent reports an error, because the component is gone or
\* because vrserver refuses the write.
WriteError(v) ==
  /\ hmdState = "Ready"
  /\ v # lastWrittenValue
  /\ hSystemClick' = FALSE
  /\ hmdState' = "Invalidated"
  /\ isPressed' = FALSE
  /\ lastWrittenValue' = FALSE
  /\ UNCHANGED component

writeValue(v) ==
  \/ WriteSkipped(v)
  \/ WriteOk(v)
  \/ WriteError(v)
-----------------------------------------------------------------------------
(* RunFrame *)

BeginFrame ==
  /\ initialized
  /\ pc = "idle"
  /\ pc' = "events"
  /\ UNCHANGED <<initialized, queueVars, handleVars, pressVars, valueVars, hostVars>>

\* Mutants of DrainEvents: isPressed_ not reset; the event read and ignored.
DrainEventsKeepsPressed ==
  /\ pc = "events"
  /\ pc' = "create"
  /\ deactivated' = FALSE
  /\ IF deactivated
       THEN /\ hSystemClick' = FALSE
            /\ hmdState' = "Invalidated"
            /\ lastWrittenValue' = FALSE
            /\ releaseIn' = NoRelease
       ELSE UNCHANGED <<handleVars, lastWrittenValue, releaseIn>>
  /\ UNCHANGED <<initialized, queueVars, isPressed, pressAge, hmdActive, component>>
DrainEventsIgnoresHmd ==
  /\ pc = "events"
  /\ pc' = "create"
  /\ deactivated' = FALSE
  /\ UNCHANGED <<initialized, queueVars, handleVars, pressVars, valueVars,
                 hmdActive, component>>

\* Stage 1: the poll loop runs until no event is left.
DrainEvents ==
  /\ pc = "events"
  /\ pc' = "create"
  /\ deactivated' = FALSE
  /\ IF deactivated
       THEN /\ hSystemClick' = FALSE
            /\ hmdState' = "Invalidated"
            /\ isPressed' = FALSE
            /\ lastWrittenValue' = FALSE
            /\ releaseIn' = NoRelease
       ELSE UNCHANGED <<handleVars, valueVars, releaseIn>>
  /\ UNCHANGED <<initialized, queueVars, pressAge, hmdActive, component>>

CreateSkipped ==
  /\ hmdState = "Ready" \/ ~hmdActive
  /\ UNCHANGED <<handleVars, component>>

\* A component that is created anew is up.
CreateOk ==
  /\ hmdState # "Ready"
  /\ hmdActive
  /\ hSystemClick' = TRUE
  /\ hmdState' = "Ready"
  /\ component' = "up"

CreateError ==
  /\ hmdState # "Ready"
  /\ hmdActive
  /\ hSystemClick' = FALSE
  /\ UNCHANGED <<hmdState, component>>

\* Stage 2: create or recreate /input/system/click while not Ready.
CreateComponent ==
  /\ pc = "create"
  /\ pc' = "drain"
  /\ CreateSkipped \/ CreateOk \/ CreateError
  /\ UNCHANGED <<initialized, queueVars, pressVars, valueVars, hmdActive, deactivated>>

\* Stage 3, one turn of the loop: a tap that finds no component is dropped; any
\* other is stamped, written DOWN and given a release, even if the write failed.
ServeTapUntil(deadline) ==
  /\ pc = "drain"
  /\ queued > 0
  /\ queued' = queued - 1
  /\ IF hmdState # "Ready"
       THEN UNCHANGED <<handleVars, pressVars, valueVars, component>>
       ELSE /\ pressAge' = 0
            /\ writeValue(TRUE)
            /\ releaseIn' = deadline
  /\ UNCHANGED <<initialized, pc, hmdActive, deactivated>>

\* Mutant of ServeTap: a release that is already pending is not overwritten.
ServeTapKeepsDeadline ==
  ServeTapUntil(IF releaseIn = NoRelease THEN TapHold ELSE releaseIn)

ServeTap == ServeTapUntil(TapHold)

QueueDrained ==
  /\ pc = "drain"
  /\ queued = 0
  /\ pc' = "release"
  /\ UNCHANGED <<initialized, queueVars, handleVars, pressVars, valueVars, hostVars>>

\* Stage 4.
ReleaseWhenDue ==
  /\ pc = "release"
  /\ pc' = "watchdog"
  /\ IF releaseIn = 0
       THEN writeValue(FALSE) /\ releaseIn' = NoRelease
       ELSE UNCHANGED <<handleVars, valueVars, component, releaseIn>>
  /\ UNCHANGED <<initialized, queueVars, pressAge, hmdActive, deactivated>>

\* Stage 5.
Watchdog ==
  /\ pc = "watchdog"
  /\ pc' = "idle"
  /\ IF isPressed /\ pressAge > MaxHold
       THEN writeValue(FALSE) /\ releaseIn' = NoRelease
       ELSE UNCHANGED <<handleVars, valueVars, component, releaseIn>>
  /\ UNCHANGED <<initialized, queueVars, pressAge, hmdActive, deactivated>>

RunFrame ==
  \/ BeginFrame
  \/ DrainEvents
  \/ CreateComponent
  \/ ServeTap
  \/ QueueDrained
  \/ ReleaseWhenDue
  \/ Watchdog
-----------------------------------------------------------------------------
Next ==
  \/ InitDriver
  \/ Cleanup
  \/ HmdActivates
  \/ HmdDeactivates
  \/ Push
  \/ Tick
  \/ RunFrame

Spec == Init /\ [][Next]_vars

\* vrserver keeps calling RunFrame, a frame runs to its end, and time passes.
FairSpec == Spec /\ WF_vars(RunFrame) /\ WF_vars(Tick)
-----------------------------------------------------------------------------
(* Properties *)

\* A press never waits for the application, which may crash or hang: whenever
\* the driver holds the button down (isPressed_) it has a release pending.
ReleaseScheduled == isPressed => releaseIn # NoRelease

\* state_ is Ready only over a component that exists, or with the headset's
\* deactivation still waiting in the event queue to be told.
ReadyIsLive == hmdState = "Ready" /\ ~deactivated => component # "none"

\* lastWrittenValue_, which decides whether writeValue writes at all, is what
\* vrserver holds: across failed writes, lost headsets and recreated handles a
\* write is never skipped that the component needs.
HostAgrees ==
  hmdState = "Ready" /\ component # "none" =>
    (component = "down" <=> lastWrittenValue)

\* To SteamVR the driver is a button that can only be tapped: it goes down for
\* a tap only, and comes up no sooner than TapHold after the last one.
TB == INSTANCE TapButton WITH
        available <- hmdState = "Ready",
        down      <- isPressed,
        owed      <- queued,
        sinceTap  <- IF pressAge < TapHold THEN pressAge ELSE TapHold
ImplementsTapButton == TB!Spec

\* Once the taps stop and vrserver goes back to creating the component when
\* asked, the button the user feels comes up and stays up, even when the write
\* that should have raised it failed.
NoMoreTaps == <>[][~Push]_vars
CreatesSucceed == <>[][pc = "create" /\ pc' = "drain" => ~hmdActive \/ hmdState' = "Ready"]_vars
HostReleased == NoMoreTaps /\ CreatesSucceed => <>[](component # "down")
=============================================================================
