--------------------------- MODULE HmdDriver_proofs ---------------------------
(***************************************************************************)
(* Theorems about HmdDriver, for every queue depth and every TapHold and   *)
(* MaxHold with TapHold <= MaxHold: its safety invariants, the refinement  *)
(* of TapButton, and, with the clock of MCHmdWatchdog on the component,    *)
(* when stage 5 does what its comment says.                                *)
(***************************************************************************)
EXTENDS MCHmdWatchdog, TLAPS

\* writeValue keeps the driver's two copies of the value together.
ValuesAgree == isPressed = lastWrittenValue

\* The driver commands DOWN only through a component it takes to be there.
PressedIsReady == isPressed => hmdState = "Ready"

\* A release is due exactly when the last tap is TapHold ticks old.
DeadlineMatches ==
  releaseIn # NoRelease =>
    \/ releaseIn + pressAge = TapHold
    \/ releaseIn = 0 /\ pressAge >= TapHold

\* Nothing runs and nothing is Ready before Init and after Cleanup.
QuietUnlessInitialized ==
  ~initialized => pc = "idle" /\ hmdState # "Ready"

\* The inductive invariant.
IInv ==
  /\ TypeOK
  /\ ValuesAgree
  /\ PressedIsReady
  /\ DeadlineMatches
  /\ QuietUnlessInitialized
  /\ ReleaseScheduled
  /\ ReadyIsLive
  /\ HostAgrees
-----------------------------------------------------------------------------
\* The inductive invariant holds before the driver is loaded.
LEMMA InitIInv == Init => IInv
<1> SUFFICES ASSUME Init PROVE IInv
  OBVIOUS
<1> USE DEF Init
<1>1. TypeOK
  <2>1. pressAge \in 0..(MaxHold + 1) /\ queued \in 0..MaxDepth
    BY HmdDriverAssumption
  <2>2. releaseIn \in {NoRelease} \cup 0..TapHold
    OBVIOUS
  <2>3. pc \in Stages /\ hmdState \in HmdComponentState
    BY DEF Stages, HmdComponentState
  <2> QED BY <2>1, <2>2, <2>3 DEF TypeOK
<1>2. ValuesAgree /\ PressedIsReady /\ ReleaseScheduled
  BY DEF ValuesAgree, PressedIsReady, ReleaseScheduled
<1>3. DeadlineMatches
  BY DEF DeadlineMatches
<1>4. QuietUnlessInitialized /\ ReadyIsLive /\ HostAgrees
  BY DEF QuietUnlessInitialized, ReadyIsLive, HostAgrees
<1> QED BY <1>1, <1>2, <1>3, <1>4 DEF IInv

\* A write of either value keeps the types of what it may change.
LEMMA WriteTypes ==
  ASSUME NEW v \in BOOLEAN, TypeOK, writeValue(v)
  PROVE  /\ hSystemClick' \in BOOLEAN
         /\ hmdState' \in HmdComponentState
         /\ isPressed' \in BOOLEAN
         /\ lastWrittenValue' \in BOOLEAN
         /\ component' \in {"none", "up", "down"}
BY DEF writeValue, WriteSkipped, WriteOk, WriteError, TypeOK, handleVars,
       valueVars, HmdComponentState

\* What a write of v leaves behind: v commanded, or nothing Ready, or the value
\* as it was because it was v already or there was nothing to write to.
LEMMA WriteEffect ==
  ASSUME NEW v \in BOOLEAN, IInv, writeValue(v)
  PROVE  /\ isPressed' = lastWrittenValue'
         /\ isPressed' => v /\ hmdState' = "Ready"
         /\ hmdState' = "Ready" => hmdState = "Ready" /\ isPressed' = v
         /\ component' = "none" <=> component = "none"
         /\ hmdState' = "Ready" /\ component' # "none" =>
              (component' = "down" <=> lastWrittenValue')
<1> USE DEF writeValue, IInv, TypeOK, ValuesAgree, PressedIsReady, HostAgrees,
            HmdComponentState
<1>1. CASE WriteSkipped(v)
  BY <1>1 DEF WriteSkipped, handleVars, valueVars
<1>2. CASE WriteOk(v)
  BY <1>2 DEF WriteOk, handleVars
<1>3. CASE WriteError(v)
  BY <1>3 DEF WriteError
<1> QED BY <1>1, <1>2, <1>3

\* Every step keeps the types.
LEMMA NextTypeOK == TypeOK /\ [Next]_vars => TypeOK'
<1> SUFFICES ASSUME TypeOK, [Next]_vars PROVE TypeOK'
  OBVIOUS
<1> USE HmdDriverAssumption
    DEF TypeOK, queueVars, handleVars, pressVars, valueVars, hostVars,
        NoRelease, Stages, HmdComponentState
<1>1. CASE InitDriver
  BY <1>1 DEF InitDriver
<1>2. CASE Cleanup
  <2>1. queued' \in 0..MaxDepth /\ releaseIn' \in {NoRelease} \cup 0..TapHold
    BY <1>2 DEF Cleanup
  <2>2. hmdState' \in HmdComponentState /\ component' \in {"none", "up", "down"}
    BY <1>2 DEF Cleanup
  <2> QED BY <1>2, <2>1, <2>2 DEF Cleanup
<1>3. CASE HmdActivates
  BY <1>3 DEF HmdActivates
<1>4. CASE HmdDeactivates
  BY <1>4 DEF HmdDeactivates
<1>5. CASE Push
  BY <1>5 DEF Push, push
<1>6. CASE Tick
  BY <1>6 DEF Tick
<1>7. CASE BeginFrame
  BY <1>7 DEF BeginFrame
<1>8. CASE DrainEvents
  BY <1>8 DEF DrainEvents
<1>9. CASE CreateComponent
  BY <1>9 DEF CreateComponent, CreateSkipped, CreateOk, CreateError
<1>10. CASE ServeTap
  <2>1. CASE hmdState # "Ready"
    BY <1>10, <2>1 DEF ServeTap, ServeTapUntil
  <2>2. CASE hmdState = "Ready"
    <3>1. writeValue(TRUE)
      BY <1>10, <2>2 DEF ServeTap, ServeTapUntil
    <3>2. /\ hSystemClick' \in BOOLEAN
          /\ hmdState' \in HmdComponentState
          /\ isPressed' \in BOOLEAN
          /\ lastWrittenValue' \in BOOLEAN
          /\ component' \in {"none", "up", "down"}
      BY <3>1, WriteTypes
    <3> QED BY <1>10, <2>2, <3>2 DEF ServeTap, ServeTapUntil
  <2> QED BY <2>1, <2>2
<1>11. CASE QueueDrained
  BY <1>11 DEF QueueDrained
<1>12. CASE ReleaseWhenDue
  <2>1. CASE releaseIn = 0
    <3>1. writeValue(FALSE)
      BY <1>12, <2>1 DEF ReleaseWhenDue
    <3> QED BY <1>12, <2>1, <3>1, WriteTypes DEF ReleaseWhenDue
  <2>2. CASE releaseIn # 0
    BY <1>12, <2>2 DEF ReleaseWhenDue
  <2> QED BY <2>1, <2>2
<1>13. CASE Watchdog
  <2>1. CASE isPressed /\ pressAge > MaxHold
    <3>1. writeValue(FALSE)
      BY <1>13, <2>1 DEF Watchdog
    <3> QED BY <1>13, <2>1, <3>1, WriteTypes DEF Watchdog
  <2>2. CASE ~(isPressed /\ pressAge > MaxHold)
    BY <1>13, <2>2 DEF Watchdog
  <2> QED BY <2>1, <2>2
<1>14. CASE UNCHANGED vars
  BY <1>14 DEF vars
<1> QED
  BY <1>1, <1>2, <1>3, <1>4, <1>5, <1>6, <1>7, <1>8, <1>9, <1>10, <1>11, <1>12,
     <1>13, <1>14 DEF Next, RunFrame

\* Every step keeps the inductive invariant.
LEMMA NextIInv == IInv /\ [Next]_vars => IInv'
<1> SUFFICES ASSUME IInv, [Next]_vars PROVE IInv'
  OBVIOUS
<1>1. TypeOK'
  BY NextTypeOK DEF IInv
<1> USE DEF IInv, ValuesAgree, PressedIsReady, DeadlineMatches,
            QuietUnlessInitialized, ReleaseScheduled, ReadyIsLive, HostAgrees,
            queueVars, handleVars, pressVars, valueVars, hostVars
<1>2. CASE InitDriver
  BY <1>1, <1>2 DEF InitDriver
<1>3. CASE Cleanup
  BY <1>1, <1>3 DEF Cleanup, NoRelease
<1>4. CASE HmdActivates
  BY <1>1, <1>4 DEF HmdActivates
<1>5. CASE HmdDeactivates
  \* Ready needs Init to have run, so the event is queued.
  BY <1>1, <1>5 DEF HmdDeactivates
<1>6. CASE Push
  BY <1>1, <1>6 DEF Push, push
<1>7. CASE Tick
  <2>1. ReleaseScheduled'
    BY <1>7 DEF Tick, NoRelease, TypeOK
  <2>2. DeadlineMatches'
    BY <1>7, HmdDriverAssumption DEF Tick, NoRelease, TypeOK
  <2> QED BY <1>1, <1>7, <2>1, <2>2 DEF Tick
<1>8. CASE BeginFrame
  BY <1>1, <1>8 DEF BeginFrame
<1>9. CASE DrainEvents
  <2>1. CASE deactivated
    BY <1>1, <1>9, <2>1 DEF DrainEvents
  <2>2. CASE ~deactivated
    BY <1>1, <1>9, <2>2 DEF DrainEvents
  <2> QED BY <2>1, <2>2
<1>10. CASE CreateComponent
  <2> USE <1>1, <1>10 DEF CreateComponent
  <2>1. CASE CreateSkipped
    BY <2>1 DEF CreateSkipped
  <2>2. CASE CreateOk
    \* The new component is up, and so is what the driver last wrote.
    <3>1. ~lastWrittenValue' /\ component' = "up"
      BY <2>2 DEF CreateOk
    <3>2. HostAgrees' /\ ReadyIsLive'
      BY <3>1
    <3>3. initialized
      BY <2>2, <1>10
    <3> QED BY <2>2, <3>1, <3>2, <3>3 DEF CreateOk
  <2>3. CASE CreateError
    BY <2>3 DEF CreateError
  <2> QED BY <2>1, <2>2, <2>3
<1>11. CASE ServeTap
  <2>1. CASE hmdState # "Ready"
    BY <1>1, <1>11, <2>1 DEF ServeTap, ServeTapUntil
  <2>2. CASE hmdState = "Ready"
    <3>1. /\ writeValue(TRUE) /\ pressAge' = 0 /\ releaseIn' = TapHold
          /\ UNCHANGED <<initialized, pc, hmdActive, deactivated>>
      BY <1>11, <2>2 DEF ServeTap, ServeTapUntil
    <3>2. DeadlineMatches' /\ ReleaseScheduled'
      BY <3>1, HmdDriverAssumption DEF NoRelease
    <3> QED BY <1>1, <3>1, <3>2, <2>2, WriteEffect
  <2> QED BY <2>1, <2>2
<1>12. CASE QueueDrained
  BY <1>1, <1>12 DEF QueueDrained
<1>13. CASE ReleaseWhenDue
  <2>1. CASE releaseIn = 0
    <3>1. /\ writeValue(FALSE) /\ releaseIn' = NoRelease
          /\ UNCHANGED <<initialized, pressAge, hmdActive, deactivated>>
          /\ initialized
      BY <1>13, <2>1 DEF ReleaseWhenDue
    <3> QED BY <1>1, <3>1, WriteEffect
  <2>2. CASE releaseIn # 0
    BY <1>1, <1>13, <2>2 DEF ReleaseWhenDue
  <2> QED BY <2>1, <2>2
<1>14. CASE Watchdog
  <2>1. CASE isPressed /\ pressAge > MaxHold
    <3>1. /\ writeValue(FALSE) /\ releaseIn' = NoRelease
          /\ UNCHANGED <<initialized, pressAge, hmdActive, deactivated>>
          /\ initialized
      BY <1>14, <2>1 DEF Watchdog
    <3> QED BY <1>1, <3>1, WriteEffect
  <2>2. CASE ~(isPressed /\ pressAge > MaxHold)
    BY <1>1, <1>14, <2>2 DEF Watchdog
  <2> QED BY <2>1, <2>2
<1>15. CASE UNCHANGED vars
  BY <1>1, <1>15 DEF vars
<1> QED
  BY <1>2, <1>3, <1>4, <1>5, <1>6, <1>7, <1>8, <1>9, <1>10, <1>11, <1>12,
     <1>13, <1>14, <1>15 DEF Next, RunFrame

\* The inductive invariant holds in every reachable state.
THEOREM Invariance == Spec => []IInv
<1>1. QED BY InitIInv, NextIInv, PTL DEF Spec
-----------------------------------------------------------------------------
\* The types are right in every reachable state.
THEOREM TypeCorrect == Spec => []TypeOK
<1>1. IInv => TypeOK
  BY DEF IInv
<1> QED BY <1>1, Invariance, PTL

\* Whenever the driver holds the button down, a release is pending.
THEOREM AlwaysReleaseScheduled == Spec => []ReleaseScheduled
<1>1. IInv => ReleaseScheduled
  BY DEF IInv
<1> QED BY <1>1, Invariance, PTL

\* The driver takes itself for Ready only over a component that exists, or with
\* the deactivation still to be read.
THEOREM AlwaysReadyIsLive == Spec => []ReadyIsLive
<1>1. IInv => ReadyIsLive
  BY DEF IInv
<1> QED BY <1>1, Invariance, PTL

\* The value the driver skips writes by is the value vrserver holds.
THEOREM AlwaysHostAgrees == Spec => []HostAgrees
<1>1. IInv => HostAgrees
  BY DEF IInv
<1> QED BY <1>1, Invariance, PTL
-----------------------------------------------------------------------------
\* Before the driver is loaded there is no button.
LEMMA InitRefines == Init => TB!Init
BY HmdDriverAssumption DEF Init, TB!Init

\* Serving a tap is the abstract Drop, Press or Miss: a write that is skipped
\* finds the button down already, one that succeeds presses it, one that fails
\* loses it.
LEMMA ServeTapRefines ==
  ASSUME IInv, ServeTap
  PROVE  TB!Drop \/ TB!Press \/ TB!Miss
<1> USE DEF IInv, TypeOK, ServeTap, ServeTapUntil
<1>1. CASE hmdState # "Ready"
  BY <1>1 DEF TB!Drop, handleVars, pressVars, valueVars
<1>2. CASE hmdState = "Ready"
  <2>1. writeValue(TRUE) /\ pressAge' = 0 /\ queued > 0 /\ queued' = queued - 1
    BY <1>2
  <2> DEFINE age == IF pressAge' < TapHold THEN pressAge' ELSE TapHold
  <2>2. age = 0
    BY <2>1, HmdDriverAssumption
  <2>3. CASE WriteSkipped(TRUE)
    <3>1. isPressed' = TRUE /\ hmdState' = "Ready"
      BY <1>2, <2>3 DEF WriteSkipped, handleVars, valueVars, ValuesAgree
    <3> QED BY <1>2, <2>1, <2>2, <3>1 DEF TB!Press
  <2>4. CASE WriteOk(TRUE)
    BY <1>2, <2>1, <2>2, <2>4 DEF WriteOk, handleVars, TB!Press
  <2>5. CASE WriteError(TRUE)
    BY <1>2, <2>1, <2>2, <2>5 DEF WriteError, TB!Miss
  <2> QED BY <2>1, <2>3, <2>4, <2>5 DEF writeValue
<1> QED BY <1>1, <1>2

\* Writing UP once the last tap is TapHold old is the abstract Release, the loss
\* of the button, or nothing at all.
LEMMA WriteUpRefines ==
  ASSUME IInv, writeValue(FALSE), pressAge >= TapHold,
         UNCHANGED <<queued, pressAge>>
  PROVE  TB!Release \/ TB!Lose \/ UNCHANGED TB!vars
<1> USE DEF IInv, TypeOK, ValuesAgree, PressedIsReady
<1> DEFINE age == IF pressAge < TapHold THEN pressAge ELSE TapHold
<1>1. age >= TapHold
  BY HmdDriverAssumption
<1>2. CASE WriteSkipped(FALSE)
  BY <1>2 DEF WriteSkipped, handleVars, valueVars, TB!vars
<1>3. CASE WriteOk(FALSE)
  BY <1>1, <1>3 DEF WriteOk, handleVars, TB!Release
<1>4. CASE WriteError(FALSE)
  BY <1>4 DEF WriteError, TB!Lose
<1> QED BY <1>2, <1>3, <1>4 DEF writeValue

\* Every step of the driver is a step of the button or leaves it as it was.
LEMMA NextRefines == IInv /\ [Next]_vars => [TB!Next]_TB!vars
<1> SUFFICES ASSUME IInv, [Next]_vars PROVE [TB!Next]_TB!vars
  OBVIOUS
<1> USE DEF TB!Next, queueVars, handleVars, pressVars, valueVars, hostVars
<1>1. CASE InitDriver
  BY <1>1 DEF InitDriver, TB!vars
<1>2. CASE Cleanup
  BY <1>2 DEF Cleanup, TB!Stop
<1>3. CASE HmdActivates
  BY <1>3 DEF HmdActivates, TB!vars
<1>4. CASE HmdDeactivates
  BY <1>4 DEF HmdDeactivates, TB!vars
<1>5. CASE Push
  BY <1>5, HmdDriverAssumption DEF Push, push, TB!Post, IInv, TypeOK
<1>6. CASE Tick
  <2> USE <1>6, HmdDriverAssumption DEF Tick, IInv, TypeOK
  <2>1. CASE pressAge < TapHold
    BY <2>1 DEF TB!Tick
  <2>2. CASE pressAge >= TapHold
    BY <2>2 DEF TB!vars
  <2> QED BY <2>1, <2>2
<1>7. CASE BeginFrame
  BY <1>7 DEF BeginFrame, TB!vars
<1>8. CASE DrainEvents
  <2> USE <1>8 DEF DrainEvents
  <2>1. CASE deactivated /\ hmdState = "Ready"
    BY <2>1 DEF TB!Lose
  <2>2. CASE deactivated /\ hmdState # "Ready"
    BY <2>2 DEF TB!vars, IInv, TypeOK, PressedIsReady
  <2>3. CASE ~deactivated
    BY <2>3 DEF TB!vars
  <2> QED BY <2>1, <2>2, <2>3
<1>9. CASE CreateComponent
  <2> USE <1>9 DEF CreateComponent
  <2>1. CASE CreateSkipped
    BY <2>1 DEF CreateSkipped, TB!vars
  <2>2. CASE CreateOk
    BY <2>2 DEF CreateOk, TB!Recover, IInv, PressedIsReady
  <2>3. CASE CreateError
    BY <2>3 DEF CreateError, TB!vars
  <2> QED BY <2>1, <2>2, <2>3
<1>10. CASE ServeTap
  BY <1>10, ServeTapRefines
<1>11. CASE QueueDrained
  BY <1>11 DEF QueueDrained, TB!vars
<1>12. CASE ReleaseWhenDue
  <2>1. CASE releaseIn = 0
    <3>1. pressAge >= TapHold
      BY <2>1, HmdDriverAssumption DEF IInv, DeadlineMatches, TypeOK, NoRelease
    <3> QED BY <1>12, <2>1, <3>1, WriteUpRefines DEF ReleaseWhenDue
  <2>2. CASE releaseIn # 0
    BY <1>12, <2>2 DEF ReleaseWhenDue, TB!vars
  <2> QED BY <2>1, <2>2
<1>13. CASE Watchdog
  <2>1. CASE isPressed /\ pressAge > MaxHold
    <3>1. pressAge >= TapHold
      BY <2>1, HmdDriverAssumption DEF IInv, TypeOK
    <3> QED BY <1>13, <2>1, <3>1, WriteUpRefines DEF Watchdog
  <2>2. CASE ~(isPressed /\ pressAge > MaxHold)
    BY <1>13, <2>2 DEF Watchdog, TB!vars
  <2> QED BY <2>1, <2>2
<1>14. CASE UNCHANGED vars
  BY <1>14 DEF vars, TB!vars
<1> QED
  BY <1>1, <1>2, <1>3, <1>4, <1>5, <1>6, <1>7, <1>8, <1>9, <1>10, <1>11, <1>12,
     <1>13, <1>14 DEF Next, RunFrame

\* The driver implements the button that can only be tapped.
THEOREM Refinement == Spec => ImplementsTapButton
<1> QED
  BY InitRefines, NextRefines, Invariance, PTL DEF Spec, ImplementsTapButton, TB!Spec
-----------------------------------------------------------------------------
(* What is left of the button when the driver has lost it *)

\* vrserver has the component only while the headset is there and the driver is
\* loaded.
HostPresent == component # "none" => hmdActive /\ initialized

\* A component that is down in vrserver is never forgotten: either the driver
\* holds it and has a release pending, or the driver is not Ready over a headset
\* that is there, and the next frame asks for the component to be created anew.
NeverStuckDown ==
  component = "down" =>
    \/ hmdState = "Ready" /\ isPressed /\ releaseIn # NoRelease
    \/ hmdState # "Ready" /\ hmdActive /\ initialized

\* A write never makes or removes a component.
LEMMA WriteKeepsPresence ==
  ASSUME NEW v \in BOOLEAN, writeValue(v)
  PROVE  component' = "none" <=> component = "none"
BY DEF writeValue, WriteSkipped, WriteOk, WriteError

\* Every step keeps the component under the headset.
LEMMA NextHostPresent == IInv /\ HostPresent /\ [Next]_vars => HostPresent'
<1> SUFFICES ASSUME IInv, HostPresent, [Next]_vars PROVE HostPresent'
  OBVIOUS
<1> USE DEF HostPresent, hostVars
<1>1. CASE InitDriver \/ Cleanup \/ HmdActivates \/ HmdDeactivates
  BY <1>1 DEF InitDriver, Cleanup, HmdActivates, HmdDeactivates
<1>2. CASE Push \/ Tick \/ BeginFrame \/ QueueDrained \/ DrainEvents
  BY <1>2 DEF Push, Tick, BeginFrame, QueueDrained, DrainEvents
<1>3. CASE CreateComponent
  BY <1>3 DEF CreateComponent, CreateSkipped, CreateOk, CreateError, IInv,
              QuietUnlessInitialized
<1>4. CASE ServeTap
  BY <1>4, WriteKeepsPresence DEF ServeTap, ServeTapUntil
<1>5. CASE ReleaseWhenDue
  BY <1>5, WriteKeepsPresence DEF ReleaseWhenDue
<1>6. CASE Watchdog
  BY <1>6, WriteKeepsPresence DEF Watchdog
<1>7. CASE UNCHANGED vars
  BY <1>7 DEF vars
<1> QED
  BY <1>1, <1>2, <1>3, <1>4, <1>5, <1>6, <1>7 DEF Next, RunFrame

\* HostReleased without its liveness: in every reachable state a button that is
\* down has a release pending or a component about to be created over it, which
\* is what the two fairness assumptions of that property then bring about.
THEOREM AlwaysNeverStuckDown == Spec => []NeverStuckDown
<1>1. Init => HostPresent
  BY DEF Init, HostPresent
<1>2. Spec => []HostPresent
  BY <1>1, Invariance, NextHostPresent, PTL DEF Spec
<1>3. IInv /\ HostPresent => NeverStuckDown
  BY DEF IInv, HostAgrees, ValuesAgree, ReleaseScheduled, HostPresent, NeverStuckDown
<1> QED BY <1>2, <1>3, Invariance, PTL

\* Stage 4 alone raises the button: unless vrserver has just refused the write,
\* the button is down after it only if its last tap is younger than TapHold.
\* The watchdog is left what comes due between stages 4 and 5 of one frame.
UpOnceHeld ==
  [][pc = "release" /\ pc' = "watchdog" /\ hmdState' = "Ready" /\ component' = "down"
       => pressAge < TapHold]_vars

\* The frame that finds a tap TapHold old raises the button.
THEOREM AlwaysUpOnceHeld == Spec => UpOnceHeld
<1> DEFINE Raised ==
      pc = "release" /\ pc' = "watchdog" /\ hmdState' = "Ready" /\ component' = "down"
        => pressAge < TapHold
<1>1. ASSUME IInv, Next, pc = "release", pc' = "watchdog", hmdState' = "Ready",
             component' = "down"
      PROVE  pressAge < TapHold
  <2>1. ReleaseWhenDue
    BY <1>1 DEF Next, RunFrame, InitDriver, Cleanup, HmdActivates, HmdDeactivates, Push,
                Tick, BeginFrame, DrainEvents, CreateComponent, ServeTap,
                ServeTapUntil, QueueDrained, Watchdog
  <2>2. IInv'
    BY <1>1, NextIInv
  <2>3. isPressed'
    BY <1>1, <2>2 DEF IInv, HostAgrees, ValuesAgree
  <2>4. CASE releaseIn = 0
    BY <1>1, <2>1, <2>3, <2>4, WriteEffect DEF ReleaseWhenDue
  <2>5. CASE releaseIn # 0
    <3>1. isPressed
      BY <2>1, <2>3, <2>5 DEF ReleaseWhenDue, valueVars
    <3>2. releaseIn # NoRelease /\ releaseIn + pressAge = TapHold
      BY <1>1, <2>5, <3>1 DEF IInv, ReleaseScheduled, DeadlineMatches
    <3> QED BY <1>1, <2>5, <3>2, HmdDriverAssumption DEF IInv, TypeOK, NoRelease
  <2> QED BY <2>4, <2>5
<1>2. IInv /\ [Next]_vars => [Raised]_vars
  BY <1>1
<1> QED BY <1>2, Invariance, PTL DEF Spec, UpOnceHeld
-----------------------------------------------------------------------------
(* The clock on the component *)

\* Taps that come one at a time, at whatever pace vrserver runs its frames.
SpacedSpec == HeldInit /\ [][Next /\ Spaced /\ Counts]_<<vars, held>>

\* The same over a vrserver at its best.
PromptSpec == HeldInit /\ [][Next /\ Spaced /\ Prompt /\ Counts]_<<vars, held>>

\* While taps are spaced the driver's clock is the button's: pressTimestamp_ is
\* when the component it holds went down.
HeldIsPress ==
  /\ component # "down" => held = 0
  /\ component = "down" /\ isPressed => held = pressAge

\* At best the deadline is exact, too.
DeadlineExact == releaseIn # NoRelease => releaseIn + pressAge = TapHold

\* A step of the system keeps the two clocks together.
LEMMA NextHeld ==
  IInv /\ HeldIsPress /\ [Next /\ Spaced /\ Counts]_<<vars, held>> => HeldIsPress'
<1> SUFFICES ASSUME IInv, HeldIsPress, [Next /\ Spaced /\ Counts]_<<vars, held>>
             PROVE  HeldIsPress'
  OBVIOUS
<1>1. CASE UNCHANGED <<vars, held>>
  BY <1>1 DEF vars, HeldIsPress
<1>2. CASE Next /\ Spaced /\ Counts
  <2> USE DEF HeldIsPress, Counts
  <2>0. IInv'
    BY <1>2, NextIInv
  <2>1. CASE component' # "down"
    BY <1>2, <2>1
  <2>2. CASE component' = "down" /\ ~isPressed'
    BY <2>2
  <2>3. CASE component' = "down" /\ isPressed' /\ ~Tick /\ ~ServeTap
    \* No other step raises isPressed or touches pressTimestamp_.
    <3>1. pressAge' = pressAge
      BY <1>2, <2>3 DEF Next, RunFrame, InitDriver, Cleanup, HmdActivates,
           HmdDeactivates, Push, BeginFrame, DrainEvents, CreateComponent,
           QueueDrained, ReleaseWhenDue, Watchdog, pressVars
    <3>2. isPressed
      <4>1. CASE ReleaseWhenDue
        BY <1>2, <2>3, <4>1, WriteEffect DEF ReleaseWhenDue, valueVars
      <4>2. CASE Watchdog
        BY <1>2, <2>3, <4>2, WriteEffect DEF Watchdog, valueVars
      <4>3. CASE ~ReleaseWhenDue /\ ~Watchdog
        BY <1>2, <2>3, <4>3
           DEF Next, RunFrame, InitDriver, Cleanup, HmdActivates, HmdDeactivates, Push,
               BeginFrame, DrainEvents, CreateComponent, QueueDrained, valueVars
      <4> QED BY <4>1, <4>2, <4>3
    <3>3. hmdState = "Ready"
      BY <1>2, <3>2 DEF IInv, PressedIsReady
    <3>4. component # "none"
      BY <1>2, <2>3, <3>3, WriteKeepsPresence
         DEF Next, RunFrame, InitDriver, Cleanup, HmdActivates, HmdDeactivates, Push,
             BeginFrame, DrainEvents, CreateComponent, CreateSkipped, CreateOk,
             CreateError, QueueDrained, ReleaseWhenDue, Watchdog, hostVars
    <3>5. component = "down"
      BY <3>2, <3>3, <3>4 DEF IInv, HostAgrees, ValuesAgree
    <3>6. held = pressAge /\ ~(pressAge' > pressAge)
      BY <3>1, <3>2, <3>5 DEF IInv, TypeOK
    <3> QED BY <1>2, <2>3, <3>1, <3>5, <3>6
  <2>4. CASE Tick /\ component' = "down" /\ isPressed'
    BY <1>2, <2>4, HmdDriverAssumption DEF Tick, valueVars, hostVars, IInv, TypeOK
  <2>5. CASE ServeTap /\ component' = "down" /\ isPressed'
    <3>1. ~isPressed
      BY <1>2, <2>5 DEF Spaced
    <3>2. CASE hmdState # "Ready"
      BY <2>5, <3>1, <3>2 DEF ServeTap, ServeTapUntil, valueVars
    <3>3. CASE hmdState = "Ready"
      <4>1. pressAge' = 0 /\ component # "down"
        BY <2>5, <3>1, <3>3 DEF ServeTap, ServeTapUntil, IInv, HostAgrees, ValuesAgree
      <4> QED BY <1>2, <2>5, <4>1
    <3> QED BY <3>2, <3>3
  <2> QED BY <2>1, <2>2, <2>3, <2>4, <2>5
<1> QED BY <1>1, <1>2

\* Spaced taps keep the inductive invariant and the two clocks together.
LEMMA SpacedInvariance == SpacedSpec => [](IInv /\ HeldIsPress)
<1>1. HeldInit => IInv /\ HeldIsPress
  BY InitIInv DEF HeldInit, Init, HeldIsPress
<1>2. [Next /\ Spaced /\ Counts]_<<vars, held>> => [Next]_vars
  BY DEF vars
<1> QED BY <1>1, <1>2, NextIInv, NextHeld, PTL DEF SpacedSpec

\* When the comment on stage 5 is true: as long as no tap is served while the
\* button is held, the watchdog leaves no button down that has been held longer
\* than MaxHold, however slowly vrserver runs its frames.  (The run of
\* MCHmdWatchdog shows that without that condition it is not.)
THEOREM SpacedTapsForcedUp == SpacedSpec => WatchdogForcesUp
<1> DEFINE Forced == pc = "watchdog" /\ pc' = "idle" /\ hmdState' = "Ready"
                       => ~(component' = "down" /\ held > MaxHold)
<1>1. ASSUME IInv, HeldIsPress, Next, pc = "watchdog", pc' = "idle",
             hmdState' = "Ready", component' = "down"
      PROVE  ~(held > MaxHold)
  <2>1. Watchdog
    BY <1>1 DEF Next, RunFrame, InitDriver, Cleanup, HmdActivates, HmdDeactivates, Push,
                Tick, BeginFrame, DrainEvents, CreateComponent, ServeTap,
                ServeTapUntil, QueueDrained, ReleaseWhenDue
  <2>2. IInv'
    BY <1>1, NextIInv
  <2>3. isPressed'
    BY <1>1, <2>2 DEF IInv, HostAgrees, ValuesAgree
  <2>4. CASE isPressed /\ pressAge > MaxHold
    BY <1>1, <2>1, <2>3, <2>4, WriteEffect DEF Watchdog
  <2>5. CASE ~(isPressed /\ pressAge > MaxHold)
    <3>1. isPressed /\ component = "down"
      BY <1>1, <2>1, <2>3, <2>5 DEF Watchdog, valueVars
    <3> QED BY <1>1, <2>5, <3>1 DEF HeldIsPress
  <2> QED BY <2>4, <2>5
<1>2. IInv /\ HeldIsPress /\ [Next /\ Spaced /\ Counts]_<<vars, held>>
        => [Forced]_<<vars, held>>
  BY <1>1 DEF vars
<1> QED BY <1>2, SpacedInvariance, PTL DEF SpacedSpec, WatchdogForcesUp

\* A step over a prompt vrserver keeps the deadline exact.
LEMMA NextDeadlineExact ==
  IInv /\ DeadlineExact /\ [Next /\ Prompt]_vars => DeadlineExact'
<1> SUFFICES ASSUME IInv, DeadlineExact, [Next /\ Prompt]_vars PROVE DeadlineExact'
  OBVIOUS
<1> USE DEF DeadlineExact, pressVars
<1>1. CASE InitDriver \/ Cleanup \/ HmdActivates \/ HmdDeactivates \/ Push
  BY <1>1 DEF InitDriver, Cleanup, HmdActivates, HmdDeactivates, Push
<1>2. CASE Tick /\ Prompt
  <2> USE <1>2, HmdDriverAssumption DEF Tick, Prompt, IInv, TypeOK, NoRelease
  <2>1. CASE releaseIn = NoRelease
    BY <2>1
  <2>2. CASE releaseIn # NoRelease
    <3>1. releaseIn + pressAge = TapHold /\ releaseIn \in 0..TapHold /\ pressAge <= MaxHold
      BY <2>2
    <3>2. pressAge' = pressAge + 1 /\ releaseIn # 0
      BY <3>1
    <3>3. releaseIn' = releaseIn - 1
      BY <3>1, <3>2
    <3> QED BY <3>1, <3>2, <3>3
  <2> QED BY <2>1, <2>2
<1>3. CASE BeginFrame \/ CreateComponent \/ QueueDrained
  BY <1>3 DEF BeginFrame, CreateComponent, QueueDrained
<1>4. CASE DrainEvents
  BY <1>4 DEF DrainEvents
<1>5. CASE ServeTap
  <2>1. CASE hmdState = "Ready"
    <3>1. pressAge' = 0 /\ releaseIn' = TapHold
      BY <1>5, <2>1 DEF ServeTap, ServeTapUntil
    <3> QED BY <3>1, HmdDriverAssumption
  <2>2. CASE hmdState # "Ready"
    BY <1>5, <2>2 DEF ServeTap, ServeTapUntil
  <2> QED BY <2>1, <2>2
<1>6. CASE ReleaseWhenDue
  BY <1>6 DEF ReleaseWhenDue
<1>7. CASE Watchdog
  BY <1>7 DEF Watchdog
<1>8. CASE UNCHANGED vars
  BY <1>8 DEF vars
<1> QED
  BY <1>1, <1>2, <1>3, <1>4, <1>5, <1>6, <1>7, <1>8 DEF Next, RunFrame

\* How long a tap lasts for the user: spaced taps over a prompt vrserver hold
\* the component down for TapHold and no longer.
TapIsShort == hmdState = "Ready" /\ component = "down" => held <= TapHold

\* At its best, the driver's tap is TapHold long.
THEOREM AlwaysTapIsShort == PromptSpec => []TapIsShort
<1>1. HeldInit => IInv /\ HeldIsPress /\ DeadlineExact
  BY InitIInv DEF HeldInit, Init, HeldIsPress, DeadlineExact
<1>2. [Next /\ Spaced /\ Prompt /\ Counts]_<<vars, held>> =>
        [Next]_vars /\ [Next /\ Prompt]_vars /\ [Next /\ Spaced /\ Counts]_<<vars, held>>
  BY DEF vars
<1>3. PromptSpec => [](IInv /\ HeldIsPress /\ DeadlineExact)
  BY <1>1, <1>2, NextIInv, NextHeld, NextDeadlineExact, PTL DEF PromptSpec
<1>4. IInv /\ HeldIsPress /\ DeadlineExact => TapIsShort
  <2> SUFFICES ASSUME IInv, HeldIsPress, DeadlineExact, hmdState = "Ready",
                      component = "down"
               PROVE  held <= TapHold
    BY DEF TapIsShort
  <2>1. isPressed
    BY DEF IInv, HostAgrees, ValuesAgree
  <2>2. releaseIn # NoRelease /\ held = pressAge /\ releaseIn + pressAge = TapHold
    BY <2>1 DEF IInv, ReleaseScheduled, HeldIsPress, DeadlineExact
  <2> QED BY <2>2, HmdDriverAssumption DEF IInv, TypeOK, NoRelease
<1> QED BY <1>3, <1>4, PTL
-----------------------------------------------------------------------------
(* A cooldown that is long enough *)

VARIABLES
  quiet,  \* ticks since the last POST
  lap     \* ticks since RunFrame last found the queue empty

coolVars == <<vars, held, quiet, lap>>

\* Taps reach the driver at least gap apart, and a frame gets through its queue
\* within period of the one before; in between, frames are as slow as they like.
TimedNext(gap, period) ==
  \/ /\ Tick
     /\ initialized => lap < period
     /\ quiet' = quiet + 1
     /\ lap' = IF initialized THEN lap + 1 ELSE lap
  \/ Push /\ quiet >= gap /\ quiet' = 0 /\ UNCHANGED lap
  \/ /\ QueueDrained \/ InitDriver \/ Cleanup
     /\ lap' = 0 /\ UNCHANGED quiet
  \/ /\ \/ HmdActivates \/ HmdDeactivates
        \/ BeginFrame \/ DrainEvents \/ CreateComponent
        \/ ServeTap \/ ReleaseWhenDue \/ Watchdog
     /\ UNCHANGED <<quiet, lap>>

CooldownSpec(gap, period) ==
  HeldInit /\ quiet = gap /\ lap = 0 /\ [][TimedNext(gap, period) /\ Counts]_coolVars

\* A tap that waits came since the queue was last empty, alone.
Waiting(period) ==
  /\ quiet \in Nat
  /\ lap \in 0..period
  /\ queued > 0 => initialized /\ queued = 1 /\ quiet <= lap

\* Until stage 4 is reached with the release overdue, the tap that pressed the
\* button is too young for another to have followed it.
Recent(period) ==
  isPressed /\ queued = 0 =>
    /\ releaseIn > 0 => quiet + releaseIn <= period + TapHold
    /\ releaseIn = 0 /\ pc # "release" => quiet <= period + TapHold + lap

\* One that does follow finds the button about to be raised.
Rising == isPressed /\ queued > 0 => pc = "release" /\ releaseIn = 0

\* An overdue release is at most a lap old, two where it is about to be made.
Overdue(period) ==
  isPressed /\ releaseIn = 0 =>
    pressAge <= TapHold + lap + (IF pc = "release" THEN period ELSE 0)

Timely(period) == Waiting(period) /\ Recent(period) /\ Rising /\ Overdue(period)

\* Time keeps the four.
LEMMA TickTimely ==
  ASSUME NEW period \in Nat, IInv, Timely(period), Tick, initialized => lap < period,
         quiet' = quiet + 1, lap' = IF initialized THEN lap + 1 ELSE lap
  PROVE  Timely(period)'
<1> USE HmdDriverAssumption DEF IInv, TypeOK, NoRelease, Timely, Tick, queueVars, valueVars
<1>1. isPressed => initialized
  BY DEF PressedIsReady, QuietUnlessInitialized
<1>2. Waiting(period)'
  BY DEF Waiting
<1>3. Recent(period)'
  BY <1>1 DEF Waiting, Recent
<1>4. Rising'
  BY DEF Rising
<1>5. Overdue(period)'
  <2> SUFFICES ASSUME isPressed, releaseIn' = 0
               PROVE  pressAge' <= TapHold + lap' + (IF pc = "release" THEN period ELSE 0)
    BY DEF Overdue
  <2>1. initialized /\ lap \in 0..period /\ lap' = lap + 1 /\ pressAge' <= pressAge + 1
    BY <1>1 DEF Waiting
  <2>2. CASE releaseIn = 0
    BY <2>1, <2>2 DEF Overdue
  <2>3. CASE releaseIn # 0
    <3>1. releaseIn = 1
      BY <2>3 DEF ReleaseScheduled
    <3>2. pressAge = TapHold - 1
      BY <3>1 DEF DeadlineMatches
    <3> QED BY <2>1, <3>2
  <2> QED BY <2>2, <2>3
<1> QED BY <1>2, <1>3, <1>4, <1>5

\* So does a tap that comes after the cooldown.
LEMMA PushTimely ==
  ASSUME NEW gap \in Nat, NEW period \in Nat, TapHold + 2 * period < gap,
         IInv, Timely(period), Push, quiet >= gap, quiet' = 0, UNCHANGED lap
  PROVE  Timely(period)'
<1> USE HmdDriverAssumption
    DEF IInv, TypeOK, NoRelease, Timely, Push, push, handleVars, pressVars, valueVars
<1>1. queued = 0 /\ quiet \in Nat /\ lap \in 0..period
  BY DEF Waiting
<1>2. queued' = 1
  BY <1>1
<1>3. Waiting(period)'
  BY <1>1, <1>2 DEF Waiting
<1>4. Recent(period)'
  BY <1>2 DEF Recent
<1>5. Rising'
  <2> SUFFICES ASSUME isPressed PROVE pc = "release" /\ releaseIn = 0
    BY DEF Rising
  <2>1. releaseIn \in 0..TapHold
    BY DEF ReleaseScheduled
  <2>2. releaseIn = 0
    BY <1>1, <2>1 DEF Recent
  <2> QED BY <1>1, <2>2 DEF Recent
<1>6. Overdue(period)'
  BY DEF Overdue
<1> QED BY <1>3, <1>4, <1>5, <1>6

\* Serving a tap: no button is pressed then.
LEMMA ServeTimely ==
  ASSUME NEW period \in Nat, IInv, Timely(period), ServeTap, UNCHANGED <<quiet, lap>>
  PROVE  Timely(period)' /\ ~isPressed
<1> USE HmdDriverAssumption DEF IInv, TypeOK, NoRelease, Timely, ServeTap, ServeTapUntil
<1>1. ~isPressed
  BY DEF Rising
<1>2. queued' = 0 /\ quiet <= lap /\ lap \in 0..period /\ quiet \in Nat
  BY DEF Waiting
<1>3. isPressed' => pressAge' = 0 /\ releaseIn' = TapHold
  BY <1>1 DEF valueVars
<1>4. Waiting(period)' /\ Rising'
  BY <1>2 DEF Waiting, Rising
<1>5. Recent(period)' /\ Overdue(period)'
  BY <1>2, <1>3 DEF Recent, Overdue
<1> QED BY <1>1, <1>4, <1>5

\* Every step of such a system keeps the four.
LEMMA NextTimely ==
  ASSUME NEW gap \in Nat, NEW period \in Nat, TapHold + 2 * period < gap,
         IInv, Timely(period), TimedNext(gap, period)
  PROVE  Timely(period)'
<1> USE DEF Timely
<1>1. quiet \in Nat /\ lap \in 0..period /\ pressAge \in Nat /\ TapHold \in Nat
  BY HmdDriverAssumption DEF Waiting, IInv, TypeOK
<1>2. CASE Tick /\ (initialized => lap < period) /\ quiet' = quiet + 1
             /\ lap' = IF initialized THEN lap + 1 ELSE lap
  BY <1>2, TickTimely
<1>3. CASE Push /\ quiet >= gap /\ quiet' = 0 /\ UNCHANGED lap
  BY <1>3, PushTimely
<1>4. CASE QueueDrained /\ lap' = 0 /\ UNCHANGED quiet
  <2> USE <1>1, <1>4 DEF QueueDrained, queueVars, pressVars, valueVars
  <2>1. Waiting(period)' /\ Rising'
    BY DEF Waiting, Rising
  <2>2. Recent(period)'
    BY DEF Recent
  <2>3. Overdue(period)'
    BY DEF Overdue
  <2> QED BY <2>1, <2>2, <2>3
<1>5. CASE InitDriver /\ lap' = 0 /\ UNCHANGED quiet
  <2>1. ~isPressed /\ queued = 0
    BY <1>5 DEF InitDriver, IInv, TypeOK, PressedIsReady, QuietUnlessInitialized, Waiting
  <2> QED BY <1>1, <1>5, <2>1
          DEF InitDriver, Waiting, Recent, Rising, Overdue, queueVars, valueVars
<1>6. CASE Cleanup /\ lap' = 0 /\ UNCHANGED quiet
  BY <1>1, <1>6 DEF Cleanup, Waiting, Recent, Rising, Overdue
<1>7. CASE ServeTap /\ UNCHANGED <<quiet, lap>>
  BY <1>7, ServeTimely
<1>8. CASE /\ HmdActivates \/ HmdDeactivates \/ BeginFrame \/ CreateComponent
           /\ UNCHANGED <<quiet, lap>>
  <2>1. UNCHANGED <<initialized, queued, isPressed, pressAge, releaseIn>>
    BY <1>8 DEF HmdActivates, HmdDeactivates, BeginFrame, CreateComponent, queueVars,
                pressVars, valueVars
  <2>2. (pc # "release" /\ pc' # "release") \/ pc' = pc
    BY <1>8 DEF HmdActivates, HmdDeactivates, BeginFrame, CreateComponent
  <2> QED BY <1>1, <1>8, <2>1, <2>2 DEF Waiting, Recent, Rising, Overdue
<1>9. CASE DrainEvents /\ UNCHANGED <<quiet, lap>>
  <2>1. UNCHANGED <<initialized, queued, pressAge>>
    BY <1>9 DEF DrainEvents, queueVars
  <2>2. pc # "release" /\ pc' # "release"
    BY <1>9 DEF DrainEvents
  <2>3. ~isPressed' \/ UNCHANGED <<isPressed, releaseIn>>
    BY <1>9 DEF DrainEvents, valueVars
  <2> QED BY <1>1, <1>9, <2>1, <2>2, <2>3 DEF Waiting, Recent, Rising, Overdue
<1>10. CASE (ReleaseWhenDue \/ Watchdog) /\ UNCHANGED <<quiet, lap>>
  <2>1. UNCHANGED <<initialized, queued, pressAge>> /\ pc' # "release"
    BY <1>10 DEF ReleaseWhenDue, Watchdog, queueVars
  <2>2. isPressed' => isPressed /\ UNCHANGED releaseIn /\ (pc = "release" => releaseIn # 0)
    BY <1>10, WriteEffect DEF ReleaseWhenDue, Watchdog, valueVars
  <2> QED BY <1>1, <1>10, <2>1, <2>2 DEF Waiting, Recent, Rising, Overdue
<1> QED
  BY <1>2, <1>3, <1>4, <1>5, <1>6, <1>7, <1>8, <1>9, <1>10 DEF TimedNext

\* Such a system is one whose taps are spaced.
LEMMA TimedIsSpaced ==
  ASSUME NEW gap \in Nat, NEW period \in Nat, IInv, Timely(period), TimedNext(gap, period)
  PROVE  Next /\ Spaced
<1>1. Next
  BY DEF TimedNext, Next, RunFrame
<1>2. ServeTap => ~isPressed
  BY DEF Timely, Rising, ServeTap, ServeTapUntil
<1> QED BY <1>1, <1>2 DEF Spaced

\* A cooldown that is longer than the hold and two periods of vrserver's frames
\* keeps all this true for ever.
LEMMA CooldownInvariance ==
  ASSUME NEW gap \in Nat, NEW period \in Nat, TapHold + 2 * period < gap
  PROVE  CooldownSpec(gap, period) => [](IInv /\ Timely(period)) /\ SpacedSpec
<1>1. HeldInit /\ quiet = gap /\ lap = 0 => IInv /\ Timely(period)
  BY InitIInv DEF HeldInit, Init, Timely, Waiting, Recent, Rising, Overdue
<1>2. ASSUME IInv, Timely(period), [TimedNext(gap, period) /\ Counts]_coolVars
      PROVE  /\ [Next /\ Spaced /\ Counts]_<<vars, held>>
             /\ IInv'
             /\ Timely(period)'
  <2>1. CASE TimedNext(gap, period) /\ Counts
    <3>1. Next /\ Spaced
      BY <1>2, <2>1, TimedIsSpaced
    <3>2. IInv'
      BY <1>2, <3>1, NextIInv
    <3>3. Timely(period)'
      BY <1>2, <2>1, NextTimely
    <3> QED BY <2>1, <3>1, <3>2, <3>3
  <2>2. CASE UNCHANGED coolVars
    <3>1. UNCHANGED vars /\ UNCHANGED <<held, quiet, lap>>
      BY <2>2 DEF coolVars
    <3>2. IInv'
      BY <1>2, <3>1, NextIInv
    <3>3. Timely(period)'
      BY <1>2, <3>1 DEF vars, Timely, Waiting, Recent, Rising, Overdue
    <3> QED BY <3>1, <3>2, <3>3
  <2> QED BY <1>2, <2>1, <2>2
<1>3. IInv /\ Timely(period) /\ [TimedNext(gap, period) /\ Counts]_coolVars
        => [Next /\ Spaced /\ Counts]_<<vars, held>> /\ IInv' /\ Timely(period)'
  BY <1>2
<1> QED BY <1>1, <1>3, PTL DEF CooldownSpec, SpacedSpec

\* What the application must do for the watchdog's comment to hold: a cooldown
\* above kTapHold and two periods of vrserver's frames (the default is 300 ms, the
\* hold 150).  No tap is then served over a held button, and none is held too long.
THEOREM CooldownForcesUp ==
  ASSUME NEW gap \in Nat, NEW period \in Nat, TapHold + 2 * period < gap
  PROVE  CooldownSpec(gap, period) => WatchdogForcesUp
BY CooldownInvariance, SpacedTapsForcedUp, PTL

\* How long a tap then lasts, although frames come at any pace within the period.
TapIsBounded(period) ==
  hmdState = "Ready" /\ component = "down" => held <= TapHold + 2 * period

\* The user's button is down for TapHold, give or take two frames.
THEOREM AlwaysTapIsBounded ==
  ASSUME NEW gap \in Nat, NEW period \in Nat, TapHold + 2 * period < gap
  PROVE  CooldownSpec(gap, period) => []TapIsBounded(period)
<1>1. ASSUME IInv, HeldIsPress, Timely(period), hmdState = "Ready", component = "down"
      PROVE  held <= TapHold + 2 * period
  <2>1. isPressed /\ held = pressAge /\ releaseIn \in 0..TapHold /\ pressAge \in Nat
    BY <1>1 DEF IInv, TypeOK, HostAgrees, ValuesAgree, ReleaseScheduled, HeldIsPress
  <2>2. lap \in 0..period
    BY <1>1 DEF Timely, Waiting
  <2>3. CASE releaseIn = 0
    BY <1>1, <2>1, <2>2, <2>3, HmdDriverAssumption DEF Timely, Overdue
  <2>4. CASE releaseIn # 0
    BY <1>1, <2>1, <2>4, HmdDriverAssumption DEF IInv, DeadlineMatches, NoRelease
  <2> QED BY <2>1, <2>3, <2>4
<1>2. IInv /\ HeldIsPress /\ Timely(period) => TapIsBounded(period)
  BY <1>1 DEF TapIsBounded
<1> QED BY <1>2, CooldownInvariance, SpacedInvariance, PTL
=============================================================================
