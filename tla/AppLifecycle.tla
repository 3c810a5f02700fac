----------------------------- MODULE AppLifecycle -----------------------------
(***************************************************************************)
(* MicMapApp's threads from the end of initialize to the end of WinMain    *)
(* (apps/micmap/main.cpp), over the two objects they share: DriverClient   *)
(* and OpenVRInput (src/steamvr/src/vr_input.cpp), neither of which has a  *)
(* lock around its state.                                                  *)
(*                                                                         *)
(*   main      pumps messages, polls SteamVR, reconnects, tears down       *)
(*   initial   initialConnectThread: connect, then initialize              *)
(*   futures   driverConnectFuture and vrInitFuture: the tasks of the      *)
(*             initial thread at first, std::async tasks afterwards        *)
(*   manifest  manifestRetryThread (ManifestRegistrar)                     *)
(*   audio     the capture thread, inside onTrigger or not                 *)
(***************************************************************************)
EXTENDS ManifestRegistrar, FiniteSets

CONSTANT ReconnectInterval   \* loop turns between two reconnect attempts

ASSUME LifecycleAssumption == ReconnectInterval \in Nat \ {0}

VARIABLES
  main,              \* where the main thread is
  running,           \* running
  reconnectCounter,  \* reconnectCounter
  initial,           \* where initialConnectThread is
  driverFuture,      \* what driverConnectFuture stands for
  vrFuture,          \* what vrInitFuture stands for
  audio,             \* where the capture thread is
  connected,         \* DriverClient::connected_
  initialized,       \* OpenVRInput::initialized_
  sessions,          \* VR_Init calls not yet undone by VR_Shutdown
  driverUp,          \* the driver's HTTP server answers
  steamvrUp,         \* VR_Init can succeed
  quitQueued         \* a VREvent_Quit waits to be polled

mainVars   == <<main, running, reconnectCounter>>
threadVars == <<initial, driverFuture, vrFuture, audio>>
clientVars == <<connected, initialized, sessions>>
hostVars   == <<driverUp, steamvrUp, quitQueued>>
vars == <<registrarVars, mainVars, threadVars, clientVars, hostVars>>

LoopSteps == {"pump", "poll", "reconnectDriver", "reconnectVr", "frame"}
ShutdownSteps == {"joinManifest", "joinInitial", "waitDriver", "waitVr", "joinCapture",
                  "disconnect", "shutdownVr", "exited"}

\* Set at the start of shutdown, and once the manifest thread has been joined.
manifestRetryCancel == main \in ShutdownSteps
initialConnectCancel == main \in ShutdownSteps \ {"joinManifest"}

TypeOK ==
  /\ RegistrarTypeOK
  /\ main \in LoopSteps \cup ShutdownSteps
  /\ running \in BOOLEAN
  /\ reconnectCounter \in 0..(ReconnectInterval - 1)
  /\ initial \in {"start", "connecting", "connected", "initializing", "done"}
  /\ driverFuture \in {"initial", "connecting", "ready"}
  /\ vrFuture \in {"initial", "initializing", "ready"}
  /\ audio \in {"listening", "tapping", "ended"}
  /\ connected \in BOOLEAN
  /\ initialized \in BOOLEAN
  /\ sessions \in 0..2
  /\ driverUp \in BOOLEAN
  /\ steamvrUp \in BOOLEAN
  /\ quitQueued \in BOOLEAN

\* initialConnectThread has just been started.
Init ==
  /\ RegistrarInit
  /\ main = "pump"
  /\ running = TRUE
  /\ reconnectCounter = 0
  /\ initial = "start"
  /\ driverFuture = "initial"
  /\ vrFuture = "initial"
  /\ audio = "listening"
  /\ connected = FALSE
  /\ initialized = FALSE
  /\ sessions = 0
  /\ driverUp \in BOOLEAN
  /\ steamvrUp \in BOOLEAN
  /\ quitQueued = FALSE
-----------------------------------------------------------------------------
(* The driver and SteamVR *)

DriverChanges ==
  /\ driverUp' = ~driverUp
  /\ UNCHANGED <<registrarVars, mainVars, threadVars, clientVars, steamvrUp, quitQueued>>

SteamVRStarts ==
  /\ ~steamvrUp
  /\ steamvrUp' = TRUE
  /\ UNCHANGED <<registrarVars, mainVars, threadVars, clientVars, driverUp, quitQueued>>

\* SteamVR closes and tells the session; or crashes and tells nobody.
SteamVRStops ==
  /\ steamvrUp
  /\ steamvrUp' = FALSE
  /\ \/ UNCHANGED quitQueued
     \/ sessions > 0 /\ quitQueued' = TRUE
  /\ UNCHANGED <<registrarVars, mainVars, threadVars, clientVars, driverUp>>

Registry ==
  /\ Install \/ Unregister
  /\ UNCHANGED <<mainVars, threadVars, clientVars, hostVars>>
-----------------------------------------------------------------------------
(* DriverClient::connect and OpenVRInput::initialize, as the two background    *)
(* threads call them: entered, then returned from.                            *)

\* The port scan ends at the port that answered /health, or at the last one.
ConnectReturns == connected' = driverUp

\* VR_Init, and initialized_ set before the event callback runs.
InitializeReturns ==
  IF steamvrUp
    THEN initialized' = TRUE /\ sessions' = sessions + 1
    ELSE UNCHANGED <<initialized, sessions>>

InitialEnters ==
  /\ \/ initial = "start" /\ initial' = IF initialConnectCancel \/ connected THEN "connected" ELSE "connecting"
     \/ initial = "connected" /\ initial' = IF initialConnectCancel \/ initialized THEN "done" ELSE "initializing"
  /\ UNCHANGED <<registrarVars, mainVars, driverFuture, vrFuture, audio, clientVars, hostVars>>

InitialReturns ==
  /\ \/ /\ initial = "connecting"
        /\ initial' = "connected"
        /\ ConnectReturns
        /\ UNCHANGED <<initialized, sessions>>
     \/ /\ initial = "initializing"
        /\ initial' = "done"
        /\ InitializeReturns
        /\ UNCHANGED connected
  /\ UNCHANGED <<registrarVars, mainVars, driverFuture, vrFuture, audio, hostVars>>

DriverFutureReturns ==
  /\ driverFuture = "connecting"
  /\ driverFuture' = "ready"
  /\ ConnectReturns
  /\ UNCHANGED <<registrarVars, mainVars, initial, vrFuture, audio, initialized, sessions, hostVars>>

VrFutureReturns ==
  /\ vrFuture = "initializing"
  /\ vrFuture' = "ready"
  /\ InitializeReturns
  /\ UNCHANGED <<registrarVars, mainVars, initial, driverFuture, audio, connected, hostVars>>

\* wait_for(0) answers ready.  Mutants: a future nobody seeded is taken for ready.
DriverFutureUnseeded == driverFuture # "connecting"
DriverFutureReady ==
  \/ driverFuture = "ready"
  \/ driverFuture = "initial" /\ initial \notin {"start", "connecting"}
VrFutureUnseeded == vrFuture # "initializing"
VrFutureReady ==
  \/ vrFuture = "ready"
  \/ vrFuture = "initial" /\ initial = "done"
-----------------------------------------------------------------------------
(* The capture thread and the manifest thread *)

\* onTrigger: nothing is sent while the driver is not connected.
TapBegins ==
  /\ audio = "listening"
  /\ connected
  /\ audio' = "tapping"
  /\ UNCHANGED <<registrarVars, mainVars, initial, driverFuture, vrFuture, clientVars, hostVars>>

\* No answer, from a driver that is gone or slow, marks the client disconnected.
TapReturns ==
  /\ audio = "tapping"
  /\ audio' = "listening"
  /\ \/ driverUp /\ UNCHANGED connected
     \/ connected' = FALSE
  /\ UNCHANGED <<registrarVars, mainVars, initial, driverFuture, vrFuture, initialized,
                 sessions, hostVars>>

\* The device is lost, or shutdown has stopped capture and the last packet is done.
AudioEnds ==
  /\ audio = "listening"
  /\ audio' = "ended"
  /\ UNCHANGED <<registrarVars, mainVars, initial, driverFuture, vrFuture, clientVars, hostVars>>

ManifestThread ==
  /\ RetryThread(manifestRetryCancel, initialized)
  /\ UNCHANGED <<mainVars, threadVars, clientVars, hostVars>>
-----------------------------------------------------------------------------
(* The main loop *)

\* The tray menu's Exit, WM_STEAMVR_QUIT or WM_QUIT clears running.
Pump ==
  /\ main = "pump"
  /\ running' \in {running, FALSE}
  /\ main' = IF running' THEN "poll" ELSE "joinManifest"
  /\ UNCHANGED <<reconnectCounter, registrarVars, threadVars, clientVars, hostVars>>

\* A Quit is acknowledged to SteamVR, then the callback of initialize clears running.
processVREventImpl == quitQueued' = FALSE /\ running' = FALSE

pollEvents ==
  IF initialized /\ quitQueued THEN processVREventImpl ELSE UNCHANGED <<running, quitQueued>>

\* Mutant of Poll: the counter is not reset.
PollKeepsCounting ==
  /\ main = "poll"
  /\ pollEvents
  /\ main' = IF reconnectCounter + 1 >= ReconnectInterval THEN "reconnectDriver" ELSE "frame"
  /\ reconnectCounter' = reconnectCounter + 1
  /\ UNCHANGED <<registrarVars, threadVars, clientVars, driverUp, steamvrUp>>

\* The turn goes on after a Quit, and leaves the loop at its end.
Poll ==
  /\ main = "poll"
  /\ pollEvents
  /\ IF reconnectCounter + 1 >= ReconnectInterval
       THEN main' = "reconnectDriver" /\ reconnectCounter' = 0
       ELSE main' = "frame" /\ reconnectCounter' = reconnectCounter + 1
  /\ UNCHANGED <<registrarVars, threadVars, clientVars, driverUp, steamvrUp>>

\* Mutant of ReconnectDriver: a future used once is not used again.
ReconnectDriverOnce ==
  /\ main = "reconnectDriver"
  /\ main' = "reconnectVr"
  /\ driverFuture' = IF ~connected /\ driverFuture = "initial" /\ DriverFutureReady
                       THEN "connecting" ELSE driverFuture
  /\ UNCHANGED <<running, reconnectCounter, registrarVars, initial, vrFuture, audio,
                 clientVars, hostVars>>

\* std::async: the task has begun, and found itself not connected, at once.
ReconnectDriver ==
  /\ main = "reconnectDriver"
  /\ main' = "reconnectVr"
  /\ driverFuture' = IF ~connected /\ DriverFutureReady THEN "connecting" ELSE driverFuture
  /\ UNCHANGED <<running, reconnectCounter, registrarVars, initial, vrFuture, audio,
                 clientVars, hostVars>>

ReconnectVr ==
  /\ main = "reconnectVr"
  /\ main' = "frame"
  /\ vrFuture' = IF ~initialized /\ VrFutureReady THEN "initializing" ELSE vrFuture
  /\ UNCHANGED <<running, reconnectCounter, registrarVars, initial, driverFuture,
                 audio, clientVars, hostVars>>

\* The window is drawn, or the thread sleeps.
Frame ==
  /\ main = "frame"
  /\ main' = IF running THEN "pump" ELSE "joinManifest"
  /\ UNCHANGED <<running, reconnectCounter, registrarVars, threadVars, clientVars, hostVars>>

Loop ==
  \/ Pump
  \/ Poll
  \/ ReconnectDriver
  \/ ReconnectVr
  \/ Frame
-----------------------------------------------------------------------------
(* shutdown *)

then(step, next) ==
  /\ main = step
  /\ main' = next
  /\ UNCHANGED <<running, reconnectCounter, registrarVars, threadVars, hostVars>>

\* Mutants: a join or a wait left out.
JoinManifestUnjoined == then("joinManifest", "joinInitial") /\ UNCHANGED clientVars
WaitVrUnwaited == then("waitVr", "joinCapture") /\ UNCHANGED clientVars

JoinManifest ==
  /\ manifestThread \in Ended
  /\ then("joinManifest", "joinInitial")
  /\ UNCHANGED clientVars

JoinInitial ==
  /\ initial = "done"
  /\ then("joinInitial", "waitDriver")
  /\ UNCHANGED clientVars

WaitDriver ==
  /\ DriverFutureReady
  /\ then("waitDriver", "waitVr")
  /\ UNCHANGED clientVars

WaitVr ==
  /\ VrFutureReady
  /\ then("waitVr", "joinCapture")
  /\ UNCHANGED clientVars

\* stopCapture joins the capture thread; the training data is saved.
JoinCapture ==
  /\ audio = "ended"
  /\ then("joinCapture", "disconnect")
  /\ UNCHANGED clientVars

Disconnect ==
  /\ then("disconnect", "shutdownVr")
  /\ connected' = FALSE
  /\ UNCHANGED <<initialized, sessions>>

\* VR_Shutdown, if there is a session; then the configuration, the tray and the window.
ShutdownVr ==
  /\ then("shutdownVr", "exited")
  /\ initialized' = FALSE
  /\ sessions' = IF initialized THEN sessions - 1 ELSE sessions
  /\ UNCHANGED connected

Shutdown ==
  \/ JoinManifest
  \/ JoinInitial
  \/ WaitDriver
  \/ WaitVr
  \/ JoinCapture
  \/ Disconnect
  \/ ShutdownVr
-----------------------------------------------------------------------------
Next ==
  \/ DriverChanges
  \/ SteamVRStarts
  \/ SteamVRStops
  \/ Registry
  \/ InitialEnters
  \/ InitialReturns
  \/ DriverFutureReturns
  \/ VrFutureReturns
  \/ TapBegins
  \/ TapReturns
  \/ AudioEnds
  \/ ManifestThread
  \/ Loop
  \/ Shutdown

Spec == Init /\ [][Next]_vars

\* Every thread runs; connect, initialize and tap return, because their calls time out;
\* once capture is stopped the packets left over are finite.
FairSpec ==
  /\ Spec
  /\ WF_vars(Loop \/ Shutdown)
  /\ WF_vars(InitialEnters \/ InitialReturns)
  /\ WF_vars(DriverFutureReturns)
  /\ WF_vars(VrFutureReturns)
  /\ WF_vars(TapReturns)
  /\ SF_vars(main = "joinCapture" /\ AudioEnds)
  /\ WF_vars(ManifestThread)
-----------------------------------------------------------------------------
(* Properties *)

AtMostOne(uses) == \A s, t \in DOMAIN uses : uses[s] /\ uses[t] => s = t

\* DriverClient has no lock: no two threads are ever inside it, and none is once
\* shutdown is about to disconnect it (main.cpp:934-941, 480-487).
DriverUsers ==
  [initial |-> initial = "connecting",
   future  |-> driverFuture = "connecting",
   audio   |-> audio = "tapping",
   main    |-> main \in {"disconnect", "shutdownVr", "exited"}]
ExclusiveDriver == AtMostOne(DriverUsers)

\* OpenVRInput has none either: one VR_Init at a time and none over an open session
\* (main.cpp:290-295 recalls the crash that a second one caused), nor once shutdown
\* is about to call VR_Shutdown.
VrUsers ==
  [initial |-> initial = "initializing",
   future  |-> vrFuture = "initializing",
   session |-> initialized,
   main    |-> main = "exited"]
ExclusiveVr == AtMostOne(VrUsers) /\ sessions <= 1

\* The manifest thread uses the session of vrInput without holding it: the session
\* is open whenever the thread is inside an IVRApplications call.
SessionHeld == manifestThread \in Registering => initialized /\ sessions = 1

\* When WinMain returns nothing is left behind: every thread has ended, no
\* connection and no OpenVR session is open.
CleanExit ==
  main = "exited" =>
    /\ manifestThread \in Ended
    /\ initial = "done" /\ audio = "ended"
    /\ driverFuture # "connecting" /\ vrFuture # "initializing"
    /\ ~connected /\ sessions = 0

\* A Quit from SteamVR or from the tray ends the process, whatever its threads are at.
Exits == ~running ~> main = "exited"

\* While MicMap runs, a driver that stays up is connected to again and again after
\* failed taps, and a SteamVR that stays up gets its session.
Reconnects ==
  /\ <>[]driverUp => []<>(connected \/ ~running)
  /\ <>[]steamvrUp => []<>(initialized \/ ~running)
=============================================================================
