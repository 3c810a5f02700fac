-------------------------- MODULE AppLifecycle_proofs --------------------------
(***************************************************************************)
(* Why MicMapApp needs no lock around DriverClient and OpenVRInput, for    *)
(* any reconnect interval and any number of polls of the registrar.        *)
(*                                                                         *)
(* Access is handed on by flags: whoever may connect does so only while    *)
(* connected_ is false and taps begin only while it is true; the seeded    *)
(* futures keep the main loop out until the initial thread has had its     *)
(* turn (DriverTurns, VrTurns).  Each step of shutdown settles one thread, *)
(* and a settled thread stays settled (Settled).                           *)
(*                                                                         *)
(* The last two sections are about the end of the process, which is        *)
(* reached because no step adds to the work that is left (WorkLeft), and   *)
(* about the promise that the run of MCSelfHeals refutes.                  *)
(***************************************************************************)
EXTENDS MCSelfHeals, TLAPS

\* Who may be inside DriverClient, and what connected_ is then.
DriverTurns ==
  /\ initial \in {"start", "connecting"} => driverFuture = "initial"
  /\ initial = "connecting" => ~connected
  /\ driverFuture = "connecting" => ~connected
  /\ audio = "tapping" => connected

\* Who may be inside OpenVRInput, and what initialized_ is then.
VrTurns ==
  /\ initial # "done" => vrFuture = "initial"
  /\ initial = "initializing" => ~initialized
  /\ vrFuture = "initializing" => ~initialized
  /\ initialized => sessions = 1
  /\ ~initialized => sessions = 0

\* What each step of shutdown has waited for stays so.
Settled ==
  /\ main \in ShutdownSteps => ~running
  /\ main \in ShutdownSteps \ {"joinManifest"} => manifestThread \in Ended
  /\ main \in ShutdownSteps \ {"joinManifest", "joinInitial"} => initial = "done"
  /\ main \in {"waitVr", "joinCapture", "disconnect", "shutdownVr", "exited"} =>
       driverFuture # "connecting"
  /\ main \in {"joinCapture", "disconnect", "shutdownVr", "exited"} =>
       vrFuture # "initializing"
  /\ main \in {"disconnect", "shutdownVr", "exited"} => audio = "ended"
  /\ main \in {"shutdownVr", "exited"} => ~connected
  /\ main = "exited" => ~initialized

HeldByRegistrar == manifestThread \in Registering => initialized

IInv ==
  /\ TypeOK
  /\ DriverTurns
  /\ VrTurns
  /\ Settled
  /\ HeldByRegistrar
-----------------------------------------------------------------------------
(* The inductive invariant *)

\* It holds when the initial thread starts.
LEMMA InitIInv == Init => IInv
  <1> SUFFICES ASSUME Init PROVE IInv
    OBVIOUS
  <1> USE DEF Init, RegistrarInit
  <1>1. /\ attempts \in 0..PollMaxAttempts
        /\ reconnectCounter \in 0..(ReconnectInterval - 1)
        /\ sessions \in 0..2
    BY RegistrarAssumption, LifecycleAssumption
  <1>2. TypeOK
    BY <1>1 DEF TypeOK, RegistrarTypeOK, LoopSteps
  <1>3. DriverTurns /\ VrTurns /\ HeldByRegistrar
    BY DEF DriverTurns, VrTurns, HeldByRegistrar, Registering
  <1>4. Settled
    BY DEF Settled, ShutdownSteps
  <1> QED
    BY <1>2, <1>3, <1>4 DEF IInv

\* A step of the manifest thread keeps its variables well typed, enters OpenVR only
\* over an open session, and never leaves its end.
LEMMA ManifestStep ==
  ASSUME RegistrarTypeOK, HeldByRegistrar,
         RetryThread(manifestRetryCancel, initialized)
  PROVE  /\ RegistrarTypeOK'
         /\ manifestThread' \in Registering => initialized
         /\ manifestThread \notin Ended
  <1> USE RegistrarAssumption DEF RegistrarTypeOK, HeldByRegistrar, Registering, Ended, goto
  <1>1. CASE Wait(manifestRetryCancel, initialized)
    BY <1>1 DEF Wait
  <1>2. CASE Sleep
    BY <1>2 DEF Sleep
  <1>3. CASE ensureRegistered
    BY <1>3 DEF ensureRegistered
  <1>4. CASE AddApplicationManifest
    <2>1. attempts' \in 0..PollMaxAttempts
      BY <1>4 DEF AddApplicationManifest
    <2>2. /\ added' \in BOOLEAN
          /\ installed' \in BOOLEAN
          /\ autoLaunch' \in BOOLEAN
      BY <1>4 DEF AddApplicationManifest
    <2> QED
      BY <1>4, <2>1, <2>2 DEF AddApplicationManifest
  <1>5. CASE IsApplicationInstalled
    BY <1>5 DEF IsApplicationInstalled
  <1>6. CASE SetApplicationAutoLaunch
    BY <1>6 DEF SetApplicationAutoLaunch
  <1> QED
    BY <1>1, <1>2, <1>3, <1>4, <1>5, <1>6 DEF RetryThread, registerApp

\* Every step keeps the types.
LEMMA NextTypeOK == IInv /\ [Next]_vars => TypeOK'
  <1> SUFFICES ASSUME IInv, [Next]_vars PROVE TypeOK'
    OBVIOUS
  <1> USE DEF IInv, TypeOK, LoopSteps, ShutdownSteps, registrarVars, mainVars, threadVars,
              clientVars, hostVars
  <1>1. CASE DriverChanges
    BY <1>1 DEF DriverChanges, RegistrarTypeOK
  <1>2. CASE SteamVRStarts
    BY <1>2 DEF SteamVRStarts, RegistrarTypeOK
  <1>3. CASE SteamVRStops
    <2>1. quitQueued' \in BOOLEAN
      BY <1>3 DEF SteamVRStops
    <2>2. steamvrUp' \in BOOLEAN
      BY <1>3 DEF SteamVRStops
    <2>3. UNCHANGED <<registrarVars, mainVars, threadVars, clientVars, driverUp>>
      BY <1>3 DEF SteamVRStops
    <2> QED
      BY <2>1, <2>2, <2>3 DEF RegistrarTypeOK
  <1>4. CASE Registry
    <2>1. RegistrarTypeOK'
      BY <1>4 DEF Registry, Install, Unregister, RegistrarTypeOK
    <2> QED
      BY <1>4, <2>1 DEF Registry
  <1>5. CASE InitialEnters
    BY <1>5 DEF InitialEnters, RegistrarTypeOK
  <1>6. CASE InitialReturns
    <2>1. sessions' \in 0..2
      BY <1>6 DEF InitialReturns, InitializeReturns, VrTurns
    <2>2. connected' \in BOOLEAN /\ initialized' \in BOOLEAN
      BY <1>6 DEF InitialReturns, InitializeReturns, ConnectReturns
    <2> QED
      BY <1>6, <2>1, <2>2 DEF InitialReturns, RegistrarTypeOK
  <1>7. CASE DriverFutureReturns
    BY <1>7 DEF DriverFutureReturns, ConnectReturns, RegistrarTypeOK
  <1>8. CASE VrFutureReturns
    <2>1. sessions' \in 0..2
      BY <1>8 DEF VrFutureReturns, InitializeReturns, VrTurns
    <2>2. initialized' \in BOOLEAN
      BY <1>8 DEF VrFutureReturns, InitializeReturns
    <2> QED
      BY <1>8, <2>1, <2>2 DEF VrFutureReturns, RegistrarTypeOK
  <1>9. CASE TapBegins
    BY <1>9 DEF TapBegins, RegistrarTypeOK
  <1>10. CASE TapReturns
    <2>1. connected' \in BOOLEAN
      BY <1>10 DEF TapReturns
    <2> QED
      BY <1>10, <2>1 DEF TapReturns, RegistrarTypeOK
  <1>11. CASE AudioEnds
    BY <1>11 DEF AudioEnds, RegistrarTypeOK
  <1>12. CASE ManifestThread
    <2>1. RegistrarTypeOK'
      BY <1>12, ManifestStep DEF ManifestThread
    <2> QED
      BY <1>12, <2>1 DEF ManifestThread
  <1>13. CASE Loop
    <2>1. CASE Pump
      <3>1. running' \in BOOLEAN
        BY <2>1 DEF Pump
      <3> QED
        BY <2>1, <3>1 DEF Pump, RegistrarTypeOK
    <2>2. CASE Poll
      <3>1. reconnectCounter' \in 0..(ReconnectInterval - 1)
        BY <2>2, LifecycleAssumption DEF Poll
      <3>2. running' \in BOOLEAN /\ quitQueued' \in BOOLEAN
        BY <2>2 DEF Poll, pollEvents, processVREventImpl
      <3> QED
        BY <2>2, <3>1, <3>2 DEF Poll, RegistrarTypeOK
    <2>3. CASE ReconnectDriver
      BY <2>3 DEF ReconnectDriver, RegistrarTypeOK
    <2>4. CASE ReconnectVr
      BY <2>4 DEF ReconnectVr, RegistrarTypeOK
    <2>5. CASE Frame
      BY <2>5 DEF Frame, RegistrarTypeOK
    <2> QED
      BY <1>13, <2>1, <2>2, <2>3, <2>4, <2>5 DEF Loop
  <1>14. CASE Shutdown
    <2> USE DEF then
    <2>1. CASE Disconnect
      <3>1. connected' \in BOOLEAN
        BY <2>1 DEF Disconnect
      <3> QED
        BY <2>1, <3>1 DEF Disconnect, RegistrarTypeOK
    <2>2. CASE ShutdownVr
      <3>1. sessions' \in 0..2
        BY <2>2 DEF ShutdownVr, VrTurns
      <3>2. initialized' \in BOOLEAN
        BY <2>2 DEF ShutdownVr
      <3> QED
        BY <2>2, <3>1, <3>2 DEF ShutdownVr, RegistrarTypeOK
    <2>3. CASE JoinManifest \/ JoinInitial \/ WaitDriver \/ WaitVr \/ JoinCapture
      BY <2>3 DEF JoinManifest, JoinInitial, WaitDriver, WaitVr, JoinCapture, RegistrarTypeOK
    <2> QED
      BY <1>14, <2>1, <2>2, <2>3 DEF Shutdown
  <1>15. CASE UNCHANGED vars
    BY <1>15 DEF vars, RegistrarTypeOK
  <1> QED
    BY <1>1, <1>2, <1>3, <1>4, <1>5, <1>6, <1>7, <1>8, <1>9, <1>10, <1>11, <1>12,
       <1>13, <1>14, <1>15 DEF Next

\* Every step hands on the turns and keeps what is settled.
LEMMA NextTurns == IInv /\ [Next]_vars => (DriverTurns /\ VrTurns /\ Settled /\ HeldByRegistrar)'
  <1> SUFFICES ASSUME IInv, [Next]_vars PROVE (DriverTurns /\ VrTurns /\ Settled /\ HeldByRegistrar)'
    OBVIOUS
  <1> USE DEF IInv, DriverTurns, VrTurns, Settled, HeldByRegistrar, LoopSteps,
          ShutdownSteps, registrarVars, mainVars, threadVars, clientVars, hostVars
  <1>1. CASE DriverChanges
    BY <1>1 DEF DriverChanges
  <1>2. CASE SteamVRStarts
    BY <1>2 DEF SteamVRStarts
  <1>3. CASE SteamVRStops
    BY <1>3 DEF SteamVRStops
  <1>4. CASE Registry
    BY <1>4 DEF Registry, Install, Unregister
  <1>5. CASE InitialEnters
    BY <1>5 DEF InitialEnters
  <1>6. CASE InitialReturns
    BY <1>6 DEF InitialReturns, ConnectReturns, InitializeReturns
  <1>7. CASE DriverFutureReturns
    BY <1>7 DEF DriverFutureReturns, ConnectReturns
  <1>8. CASE VrFutureReturns
    BY <1>8 DEF VrFutureReturns, InitializeReturns
  <1>9. CASE TapBegins
    BY <1>9 DEF TapBegins
  <1>10. CASE TapReturns
    BY <1>10 DEF TapReturns
  <1>11. CASE AudioEnds
    BY <1>11 DEF AudioEnds
  <1>12. CASE ManifestThread
    <2>1. manifestThread' \in Registering => initialized
      BY <1>12, ManifestStep DEF ManifestThread, TypeOK
    <2>2. manifestThread \notin Ended
      BY <1>12, ManifestStep DEF ManifestThread, TypeOK
    <2> QED
      BY <1>12, <2>1, <2>2 DEF ManifestThread
  <1>13. CASE Loop
    <2>1. CASE Pump
      BY <2>1 DEF Pump
    <2>2. CASE Poll
      BY <2>2 DEF Poll, pollEvents, processVREventImpl
    <2>3. CASE ReconnectDriver
      BY <2>3 DEF ReconnectDriver, DriverFutureReady
    <2>4. CASE ReconnectVr
      BY <2>4 DEF ReconnectVr, VrFutureReady
    <2>5. CASE Frame
      BY <2>5 DEF Frame
    <2> QED
      BY <1>13, <2>1, <2>2, <2>3, <2>4, <2>5 DEF Loop
  <1>14. CASE Shutdown
    <2> USE DEF then
    <2>1. CASE JoinManifest
      BY <2>1 DEF JoinManifest
    <2>2. CASE JoinInitial
      BY <2>2 DEF JoinInitial
    <2>3. CASE WaitDriver
      BY <2>3 DEF WaitDriver, DriverFutureReady
    <2>4. CASE WaitVr
      BY <2>4 DEF WaitVr, VrFutureReady
    <2>5. CASE JoinCapture
      BY <2>5 DEF JoinCapture
    <2>6. CASE Disconnect
      BY <2>6 DEF Disconnect
    <2>7. CASE ShutdownVr
      BY <2>7 DEF ShutdownVr, Ended, Registering
    <2> QED
      BY <1>14, <2>1, <2>2, <2>3, <2>4, <2>5, <2>6, <2>7 DEF Shutdown
  <1>15. CASE UNCHANGED vars
    BY <1>15 DEF vars
  <1> QED
    BY <1>1, <1>2, <1>3, <1>4, <1>5, <1>6, <1>7, <1>8, <1>9, <1>10, <1>11, <1>12,
       <1>13, <1>14, <1>15 DEF Next

\* Every step keeps the invariant.
LEMMA NextIInv == IInv /\ [Next]_vars => IInv'
  BY NextTypeOK, NextTurns DEF IInv

-----------------------------------------------------------------------------
(* Theorems *)

\* The inductive invariant holds in every reachable state.
THEOREM Invariance == Spec => []IInv
  BY InitIInv, NextIInv, PTL DEF Spec

\* Every flag, thread position and counter keeps its type: the sessions never exceed
\* what one VR_Init opens.
THEOREM TypeCorrect == Spec => []TypeOK
  BY Invariance, PTL DEF IInv

\* No two threads are ever inside DriverClient, nor any after shutdown reaches it.
THEOREM AlwaysExclusiveDriver == Spec => []ExclusiveDriver
  <1>1. IInv => ExclusiveDriver
    <2> SUFFICES ASSUME IInv,
                        NEW s \in DOMAIN DriverUsers, NEW t \in DOMAIN DriverUsers,
                        DriverUsers[s], DriverUsers[t]
                 PROVE  s = t
      BY DEF ExclusiveDriver, AtMostOne
    <2>1. {s, t} \subseteq {"initial", "future", "audio", "main"}
      BY DEF DriverUsers
    <2>2. ~(initial = "connecting" /\ (driverFuture = "connecting" \/ audio = "tapping"))
      BY DEF IInv, DriverTurns
    <2>3. ~(driverFuture = "connecting" /\ audio = "tapping")
      BY DEF IInv, DriverTurns
    <2>4. main \in {"disconnect", "shutdownVr", "exited"} =>
            initial = "done" /\ driverFuture # "connecting" /\ audio = "ended"
      BY DEF IInv, Settled, ShutdownSteps
    <2>5. /\ DriverUsers["initial"] => initial = "connecting"
          /\ DriverUsers["future"] => driverFuture = "connecting"
          /\ DriverUsers["audio"] => audio = "tapping"
          /\ DriverUsers["main"] => main \in {"disconnect", "shutdownVr", "exited"}
      BY DEF DriverUsers
    <2> QED
      BY <2>1, <2>2, <2>3, <2>4, <2>5
  <1> QED
    BY <1>1, Invariance, PTL

\* VR_Init is called by one thread at a time, never over an open session, and never
\* once shutdown has called VR_Shutdown (main.cpp:290-295).
THEOREM AlwaysExclusiveVr == Spec => []ExclusiveVr
  <1>1. IInv => ExclusiveVr
    <2> SUFFICES ASSUME IInv PROVE ExclusiveVr
      OBVIOUS
    <2>1. sessions <= 1
      BY DEF IInv, TypeOK, VrTurns
    <2>2. ASSUME NEW s \in DOMAIN VrUsers, NEW t \in DOMAIN VrUsers, VrUsers[s], VrUsers[t]
          PROVE  s = t
      <3>1. {s, t} \subseteq {"initial", "future", "session", "main"}
        BY DEF VrUsers
      <3>2. ~(initial = "initializing" /\ (vrFuture = "initializing" \/ initialized))
        BY DEF IInv, VrTurns
      <3>3. ~(vrFuture = "initializing" /\ initialized)
        BY DEF IInv, VrTurns
      <3>4. main = "exited" =>
              initial = "done" /\ vrFuture # "initializing" /\ ~initialized
        BY DEF IInv, Settled, ShutdownSteps
      <3>5. /\ VrUsers["initial"] => initial = "initializing"
            /\ VrUsers["future"] => vrFuture = "initializing"
            /\ VrUsers["session"] => initialized
            /\ VrUsers["main"] => main = "exited"
        BY DEF VrUsers
      <3> QED
        BY <2>2, <3>1, <3>2, <3>3, <3>4, <3>5
    <2> QED
      BY <2>1, <2>2 DEF ExclusiveVr, AtMostOne
  <1> QED
    BY <1>1, Invariance, PTL

\* The session stays open for as long as the manifest thread uses it.
THEOREM AlwaysSessionHeld == Spec => []SessionHeld
  <1>1. IInv => SessionHeld
    BY DEF IInv, VrTurns, HeldByRegistrar, SessionHeld
  <1> QED
    BY <1>1, Invariance, PTL

\* When WinMain returns every thread has ended and nothing is open.
THEOREM AlwaysCleanExit == Spec => []CleanExit
  <1>1. IInv => CleanExit
    <2> SUFFICES ASSUME IInv, main = "exited" PROVE CleanExit
      BY DEF CleanExit
    <2>1. manifestThread \in Ended /\ initial = "done" /\ audio = "ended"
      BY DEF IInv, Settled, ShutdownSteps
    <2>2. driverFuture # "connecting" /\ vrFuture # "initializing"
      BY DEF IInv, Settled, ShutdownSteps
    <2>3. ~connected /\ ~initialized
      BY DEF IInv, Settled
    <2>4. sessions = 0
      BY <2>3 DEF IInv, VrTurns
    <2> QED
      BY <2>1, <2>2, <2>3, <2>4 DEF CleanExit
  <1> QED
    BY <1>1, Invariance, PTL
-----------------------------------------------------------------------------
(* The safety half of Exits *)

\* What each thread still has to do once shutdown has begun.
MainLeft ==
  [joinManifest |-> 7, joinInitial |-> 6, waitDriver |-> 5, waitVr |-> 4,
   joinCapture |-> 3, disconnect |-> 2, shutdownVr |-> 1, exited |-> 0]
InitialLeft ==
  [start |-> 4, connecting |-> 3, connected |-> 2, initializing |-> 1, done |-> 0]
ManifestLeft ==
  [ensure |-> 6 + PollMaxAttempts, add |-> 5 + PollMaxAttempts,
   poll |-> 4 + PollMaxAttempts - attempts, set |-> 3, sleeping |-> 2, waiting |-> 1,
   finished |-> 0, cancelled |-> 0]

WorkLeft ==
  MainLeft[main] + InitialLeft[initial] + ManifestLeft[manifestThread]
    + (IF driverFuture = "connecting" THEN 1 ELSE 0)
    + (IF vrFuture = "initializing" THEN 1 ELSE 0)

\* The steps WF_vars of FairSpec names, but for the capture thread's.
ThreadStep ==
  \/ Shutdown
  \/ InitialEnters \/ InitialReturns
  \/ DriverFutureReturns \/ VrFutureReturns
  \/ ManifestThread

\* Once shutdown has begun the process only ever comes closer to its end: every
\* step of a thread takes away from what is left, and nothing else adds to it.
CloserToTheEnd ==
  main \in ShutdownSteps =>
    /\ main' \in ShutdownSteps
    /\ WorkLeft' <= WorkLeft
    /\ ThreadStep => WorkLeft' < WorkLeft
WindsDown == [][CloserToTheEnd]_vars

\* Shutdown waits for a future only while a task that fulfils it is running: a
\* promise of the initial thread is never abandoned.
NeverAbandoned ==
  /\ main = "waitDriver" => DriverFutureReady \/ driverFuture = "connecting"
  /\ main = "waitVr" => VrFutureReady \/ vrFuture = "initializing"
Left ==
  /\ MainLeft[main] \in Nat
  /\ InitialLeft[initial] \in Nat
  /\ ManifestLeft[manifestThread] \in Nat

LEMMA LeftTypes == TypeOK /\ main \in ShutdownSteps => Left
  <1> SUFFICES ASSUME TypeOK, main \in ShutdownSteps PROVE Left
    OBVIOUS
  <1>1. MainLeft[main] \in Nat
    BY DEF ShutdownSteps, MainLeft
  <1>2. InitialLeft[initial] \in Nat
    BY DEF TypeOK, InitialLeft
  <1>3. ManifestLeft[manifestThread] \in Nat
    BY RegistrarAssumption
       DEF TypeOK, RegistrarTypeOK, Registering, Ended, ManifestLeft
  <1> QED
    BY <1>1, <1>2, <1>3 DEF Left

\* With the cancel flag up every step of the manifest thread brings it nearer its end.
LEMMA ManifestWindsDown ==
  ASSUME RegistrarTypeOK, RetryThread(TRUE, initialized)
  PROVE  ManifestLeft[manifestThread]' < ManifestLeft[manifestThread]
  <1> USE RegistrarAssumption DEF RegistrarTypeOK, ManifestLeft, goto
  <1>1. CASE Wait(TRUE, initialized)
    BY <1>1 DEF Wait
  <1>2. CASE Sleep
    BY <1>2 DEF Sleep
  <1>3. CASE ensureRegistered
    BY <1>3 DEF ensureRegistered
  <1>4. CASE AddApplicationManifest
    BY <1>4 DEF AddApplicationManifest
  <1>5. CASE IsApplicationInstalled
    BY <1>5 DEF IsApplicationInstalled
  <1>6. CASE SetApplicationAutoLaunch
    BY <1>6 DEF SetApplicationAutoLaunch
  <1> QED
    BY <1>1, <1>2, <1>3, <1>4, <1>5, <1>6 DEF RetryThread, registerApp

\* A thread's step in shutdown takes away from what is left.
LEMMA ThreadWindsDown ==
  ASSUME IInv, main \in ShutdownSteps, ThreadStep
  PROVE  main' \in ShutdownSteps /\ WorkLeft' < WorkLeft
  <1> USE DEF mainVars, threadVars, clientVars, hostVars, registrarVars
  <1>0. Left
    BY LeftTypes DEF IInv
  <1>1. CASE Shutdown
    <2>1. main' \in ShutdownSteps /\ MainLeft[main'] < MainLeft[main] /\ MainLeft[main'] \in Nat
      BY <1>1 DEF Shutdown, JoinManifest, JoinInitial, WaitDriver, WaitVr, JoinCapture,
         Disconnect, ShutdownVr, then, MainLeft, ShutdownSteps
    <2>2. UNCHANGED <<registrarVars, threadVars>>
      BY <1>1 DEF Shutdown, JoinManifest, JoinInitial, WaitDriver, WaitVr, JoinCapture,
         Disconnect, ShutdownVr, then
    <2>3. ManifestLeft[manifestThread]' = ManifestLeft[manifestThread]
      BY <2>2 DEF ManifestLeft
    <2> QED
      BY <1>0, <2>1, <2>2, <2>3 DEF WorkLeft, Left, MainLeft, InitialLeft
  <1>2. CASE InitialEnters \/ InitialReturns
    <2>1. InitialLeft[initial'] < InitialLeft[initial] /\ InitialLeft[initial'] \in Nat
      BY <1>2 DEF InitialEnters, InitialReturns, InitialLeft
    <2>2. UNCHANGED <<registrarVars, mainVars, driverFuture, vrFuture>>
      BY <1>2 DEF InitialEnters, InitialReturns
    <2>3. ManifestLeft[manifestThread]' = ManifestLeft[manifestThread]
      BY <2>2 DEF ManifestLeft
    <2> QED
      BY <1>0, <2>1, <2>2, <2>3 DEF WorkLeft, Left, MainLeft, InitialLeft
  <1>3. CASE DriverFutureReturns \/ VrFutureReturns
    <2>1. UNCHANGED <<registrarVars, mainVars, initial>>
      BY <1>3 DEF DriverFutureReturns, VrFutureReturns
    <2>2. \/ driverFuture = "connecting" /\ driverFuture' = "ready" /\ UNCHANGED vrFuture
          \/ vrFuture = "initializing" /\ vrFuture' = "ready" /\ UNCHANGED driverFuture
      BY <1>3 DEF DriverFutureReturns, VrFutureReturns
    <2>3. ManifestLeft[manifestThread]' = ManifestLeft[manifestThread]
      BY <2>1 DEF ManifestLeft
    <2> QED
      BY <1>0, <2>1, <2>2, <2>3 DEF WorkLeft, Left, MainLeft, InitialLeft
  <1>4. CASE ManifestThread
    <2>1. UNCHANGED <<mainVars, initial, driverFuture, vrFuture>>
      BY <1>4 DEF ManifestThread
    <2>2. RetryThread(TRUE, initialized)
      BY <1>4 DEF ManifestThread, manifestRetryCancel, RetryThread, Wait
    <2>3. ManifestLeft[manifestThread]' < ManifestLeft[manifestThread]
      BY <2>2, ManifestWindsDown DEF IInv, TypeOK
    <2>4. (TypeOK /\ main \in ShutdownSteps)'
      BY <1>4, <2>1, NextIInv DEF IInv, Next
    <2>5. Left'
      BY <2>4, LeftTypes, PTL
    <2>6. ManifestLeft[manifestThread]' \in Nat
      BY <2>5 DEF Left
    <2> QED
      BY <1>0, <2>1, <2>3, <2>6 DEF WorkLeft, Left, MainLeft, InitialLeft
  <1> QED
    BY <1>1, <1>2, <1>3, <1>4 DEF ThreadStep

\* Nothing else adds to it: the other steps, in shutdown, move none of these threads.
LEMMA OthersAddNothing ==
  ASSUME IInv, main \in ShutdownSteps, [Next]_vars, ~ThreadStep
  PROVE  main' \in ShutdownSteps /\ WorkLeft' = WorkLeft
  <1>1. ~Loop
    BY DEF Loop, Pump, Poll, ReconnectDriver, ReconnectVr, Frame, ShutdownSteps
  <1>2. UNCHANGED <<main, initial, manifestThread, attempts, driverFuture, vrFuture>>
    BY <1>1 DEF Next, ThreadStep, vars, mainVars, threadVars, registrarVars, DriverChanges,
       SteamVRStarts, SteamVRStops, Registry, Install, Unregister, TapBegins, TapReturns,
       AudioEnds
  <1> QED
    BY <1>2 DEF WorkLeft, MainLeft, InitialLeft, ManifestLeft

\* The process winds down: with the fairness of FairSpec, and a capture thread that
\* ends, nothing is left for it to do but to exit.
THEOREM AlwaysWindsDown == Spec => WindsDown
  <1>1. ASSUME IInv, [Next]_vars PROVE CloserToTheEnd
    <2> SUFFICES ASSUME main \in ShutdownSteps
                 PROVE  /\ main' \in ShutdownSteps
                        /\ WorkLeft' <= WorkLeft
                        /\ ThreadStep => WorkLeft' < WorkLeft
      BY DEF CloserToTheEnd
    <2>1. WorkLeft \in Int
      BY <1>1, LeftTypes DEF IInv, Left, WorkLeft
    <2>2. CASE ThreadStep
      <3>1. main' \in ShutdownSteps /\ WorkLeft' < WorkLeft
        BY <1>1, <2>2, ThreadWindsDown
      <3>2. (TypeOK /\ main \in ShutdownSteps)'
        BY <1>1, <3>1, NextIInv DEF IInv
      <3>3. Left'
        BY <3>2, LeftTypes, PTL
      <3>4. WorkLeft' \in Int
        BY <3>3 DEF Left, WorkLeft
      <3> QED
        BY <2>1, <3>1, <3>4
    <2>3. CASE ~ThreadStep
      BY <1>1, <2>1, <2>3, OthersAddNothing
    <2> QED
      BY <2>2, <2>3
  <1>2. IInv /\ [Next]_vars => [CloserToTheEnd]_vars
    BY <1>1
  <1> QED
    BY <1>2, Invariance, PTL DEF Spec, WindsDown

\* What shutdown waits for is there or on its way.
THEOREM AlwaysNeverAbandoned == Spec => []NeverAbandoned
  <1>1. IInv => NeverAbandoned
    <2> SUFFICES ASSUME IInv PROVE NeverAbandoned
      OBVIOUS
    <2>1. main \in {"waitDriver", "waitVr"} => initial = "done"
      BY DEF IInv, Settled, ShutdownSteps
    <2>2. /\ driverFuture \in {"initial", "connecting", "ready"}
          /\ vrFuture \in {"initial", "initializing", "ready"}
      BY DEF IInv, TypeOK
    <2> QED
      BY <2>1, <2>2 DEF NeverAbandoned, DriverFutureReady, VrFutureReady
  <1> QED
    BY <1>1, Invariance, PTL
-----------------------------------------------------------------------------
(* Where auto-launch does heal *)

\* A registration that has added the manifest goes on to SetApplicationAutoLaunch.
CarriedThrough == ~(manifestThread \in {"poll", "set"} /\ manifestThread' = "sleeping")
CarriedThroughSpec == Init /\ [][Next /\ CarriedThrough]_vars

\* A manifest without auto-launch is one the thread is still working on.
HalfDone ==
  /\ installed => added
  /\ added /\ ~autoLaunch => manifestThread \in {"poll", "set"}

\* Only the manifest thread, vrserver and an unregistering process touch it.
LEMMA OthersLeaveRegistry ==
  ASSUME Next, ~Registry, ~ManifestThread
  PROVE  UNCHANGED registrarVars
  <1>1. CASE Loop
    BY <1>1 DEF Loop, Pump, Poll, ReconnectDriver, ReconnectVr, Frame
  <1>2. CASE Shutdown
    BY <1>2 DEF Shutdown, JoinManifest, JoinInitial, WaitDriver, WaitVr, JoinCapture,
       Disconnect, ShutdownVr, then
  <1>3. CASE DriverChanges \/ SteamVRStarts \/ SteamVRStops
    BY <1>3 DEF DriverChanges, SteamVRStarts, SteamVRStops
  <1>4. CASE InitialEnters \/ InitialReturns \/ DriverFutureReturns \/ VrFutureReturns
    BY <1>4 DEF InitialEnters, InitialReturns, DriverFutureReturns, VrFutureReturns
  <1>5. CASE TapBegins \/ TapReturns \/ AudioEnds
    BY <1>5 DEF TapBegins, TapReturns, AudioEnds
  <1> QED
    BY <1>1, <1>2, <1>3, <1>4, <1>5 DEF Next

LEMMA NextHalfDone == HalfDone /\ [Next /\ CarriedThrough]_vars => HalfDone'
  <1> SUFFICES ASSUME HalfDone, [Next /\ CarriedThrough]_vars PROVE HalfDone'
    OBVIOUS
  <1> USE DEF HalfDone, registrarVars
  <1>1. CASE Registry
    BY <1>1 DEF Registry, Install, Unregister
  <1>2. CASE ManifestThread /\ CarriedThrough
    BY <1>2 DEF ManifestThread, CarriedThrough, RetryThread, Wait, Sleep, ensureRegistered,
       registerApp, AddApplicationManifest, IsApplicationInstalled,
       SetApplicationAutoLaunch, goto
  <1>3. CASE Next /\ ~Registry /\ ~ManifestThread
    BY <1>3, OthersLeaveRegistry
  <1>4. CASE UNCHANGED vars
    BY <1>4 DEF vars
  <1> QED
    BY <1>1, <1>2, <1>3, <1>4

\* When "GUI boot re-registration self-heals" is true: unless a registration has
\* failed after AddApplicationManifest, SteamVR starts MicMap once the thread has
\* finished, whoever unregisters it in between.
THEOREM CarriedThroughHeals == CarriedThroughSpec => SelfHeals
  <1> DEFINE Heals == manifestThread # "finished" /\ manifestThread' = "finished" => autoLaunch'
  <1>1. Init => HalfDone
    BY DEF Init, RegistrarInit, HalfDone
  <1>2. ASSUME HalfDone, Next, manifestThread # "finished", manifestThread' = "finished"
        PROVE  autoLaunch'
    <2>1. ManifestThread
      BY <1>2, OthersLeaveRegistry DEF registrarVars, Registry, Install, Unregister
    <2> USE <1>2, <2>1 DEF goto
    <2>2. CASE ensureRegistered
      <3>1. manifestThread = "ensure" /\ installed /\ autoLaunch' = autoLaunch
        BY <2>2 DEF ensureRegistered
      <3> QED
        BY <3>1 DEF HalfDone
    <2>3. CASE SetApplicationAutoLaunch
      BY <2>3 DEF SetApplicationAutoLaunch
    <2>4. CASE ~ensureRegistered /\ ~SetApplicationAutoLaunch
      BY <2>4 DEF ManifestThread, RetryThread, Wait, Sleep, registerApp,
         AddApplicationManifest, IsApplicationInstalled
    <2> QED
      BY <2>2, <2>3, <2>4
  <1>3. HalfDone /\ [Next /\ CarriedThrough]_vars => [Heals]_vars
    BY <1>2
  <1> QED
    BY <1>1, <1>3, NextHalfDone, PTL DEF CarriedThroughSpec, SelfHeals
=============================================================================
