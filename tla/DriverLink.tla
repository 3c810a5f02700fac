------------------------------ MODULE DriverLink ------------------------------
(***************************************************************************)
(* The way of a tap from an application to the driver: the HttpServer that *)
(* looks for a free port (driver/src/http_server.cpp), the DriverClient    *)
(* that looks for the server (src/steamvr/src/vr_input.cpp), and the bench *)
(* application whose buttons drive the client (apps/hmd_button_test).      *)
(*                                                                         *)
(* SteamVR comes, goes and crashes; other programs take and leave ports;   *)
(* requests are lost, and served after their client has given up.  Another *)
(* program answers a request with something other than 200.  /health is    *)
(* answered like /status: by 200.                                          *)
(***************************************************************************)
EXTENDS Naturals

CONSTANTS
  LastPort,    \* the ports are 1..LastPort: 27015..27025
  Calls,       \* names for the calls of tap() a request of which is about
  MaxTrouble   \* bound on crashes, failures, timeouts and intruders together

ASSUME DriverLinkAssumption == LastPort \in Nat \ {0} /\ MaxTrouble \in Nat

Ports == 1..LastPort
NoPort == 0

VARIABLES
  srv,        \* vrserver and its driver, inside HttpServer::Start or Stop
  tryPort,    \* port_ of the server
  running,    \* running_
  thread,     \* serverThread_
  holder,     \* who holds each port
  app,        \* the bench application, inside DriverClient
  op,         \* the button it serves
  session,    \* its OpenVR session: "none", "open", or told to "quit"
  connected,  \* connected_
  port,       \* port_ of the client, or the port it probes
  call,       \* the latest call of tap()
  result,     \* what became of the latest button
  answered,   \* the reply 200 to `call' has been sent
  wire,       \* the calls with a request the driver has yet to read
  pushes,     \* the taps queued for each call
  trouble

serverVars == <<srv, tryPort, running, thread, holder>>
clientVars == <<app, op, session, connected, port, call, result>>
requestVars == <<answered, wire, pushes>>
vars == <<serverVars, clientVars, requestVars, trouble>>

TypeOK ==
  /\ srv \in {"down", "spawn", "wait", "join", "serving", "failed", "stopping"}
  /\ tryPort \in Ports
  /\ running \in BOOLEAN
  /\ thread \in {"none", "binding", "listening", "ended"}
  /\ holder \in [Ports -> {"free", "driver", "other"}]
  /\ (thread = "listening") = (\E p \in Ports : holder[p] = "driver")
  /\ app \in {"exit", "idle", "probe", "send", "await", "ask"}
  /\ op \in {"none", "tap", "test", "reconnect"}
  /\ session \in {"none", "open", "quit"}
  /\ connected \in BOOLEAN
  /\ port \in Ports \cup {NoPort}
  /\ call \in Calls
  /\ result \in {"none", "ok", "failed"}
  /\ answered \in BOOLEAN
  /\ wire \subseteq Calls
  /\ pushes \in [Calls -> Nat]
  /\ trouble \in 0..MaxTrouble

Init ==
  /\ srv = "down" /\ tryPort = 1 /\ running = FALSE /\ thread = "none"
  /\ holder \in [Ports -> {"free", "other"}]
  /\ app = "exit" /\ op = "none" /\ session = "none"
  /\ connected = FALSE /\ port = NoPort
  /\ call \in Calls /\ result = "none" /\ answered = FALSE
  /\ wire = {} /\ pushes = [c \in Calls |-> 0]
  /\ trouble = 0

Trouble == trouble < MaxTrouble /\ trouble' = trouble + 1
-----------------------------------------------------------------------------
(* HttpServer::Start *)

\* vrserver loads the driver.
Boot ==
  /\ srv = "down"
  /\ srv' = "spawn" /\ tryPort' = 1
  /\ UNCHANGED <<running, thread, holder, clientVars, requestVars, trouble>>

Spawn ==
  /\ srv = "spawn"
  /\ srv' = "wait" /\ thread' = "binding"
  /\ UNCHANGED <<tryPort, running, holder, clientVars, requestVars, trouble>>

\* The 200 ms are over, whether or not the thread has bound its port.
Look ==
  /\ srv = "wait"
  /\ srv' = IF running THEN "serving" ELSE "join"
  /\ UNCHANGED <<tryPort, running, thread, holder, clientVars, requestVars, trouble>>

\* Mutant of Join: one port more is tried.
JoinOneMore ==
  /\ srv = "join" /\ thread = "ended"
  /\ thread' = "none"
  /\ IF tryPort <= LastPort
     THEN srv' = "spawn" /\ tryPort' = tryPort + 1
     ELSE srv' = "failed" /\ UNCHANGED tryPort
  /\ UNCHANGED <<running, holder, clientVars, requestVars, trouble>>
\* Next port, or Driver_Failed after the last one.
Join ==
  /\ srv = "join" /\ thread = "ended"
  /\ thread' = "none"
  /\ IF tryPort < LastPort
     THEN srv' = "spawn" /\ tryPort' = tryPort + 1
     ELSE srv' = "failed" /\ UNCHANGED tryPort
  /\ UNCHANGED <<running, holder, clientVars, requestVars, trouble>>
-----------------------------------------------------------------------------
(* ServerThread *)

Bind ==
  /\ thread = "binding"
  /\ IF holder[tryPort] = "free"
     THEN holder' = [holder EXCEPT ![tryPort] = "driver"] /\ thread' = "listening"
     ELSE thread' = "ended" /\ UNCHANGED holder
  /\ running' = (holder[tryPort] = "free")
  /\ UNCHANGED <<srv, tryPort, clientVars, requestVars, trouble>>

\* What a listener leaves: its port, and connections that are closed.
Leave ==
  /\ holder' = [p \in Ports |-> IF holder[p] = "driver" THEN "free" ELSE holder[p]]
  /\ running' = FALSE
  /\ wire' = {}
  /\ UNCHANGED <<pushes, answered>>

ListenFails ==
  /\ thread = "listening" /\ srv = "serving" /\ Trouble
  /\ thread' = "ended" /\ Leave
  /\ UNCHANGED <<srv, tryPort, clientVars>>

\* POST /button: a tap is pushed, then answered; the handler before the route marks
\* the server as running.
Serve(c) ==
  /\ thread = "listening" /\ c \in wire
  /\ pushes' = [pushes EXCEPT ![c] = @ + 1]
  /\ wire' = wire \ {c}
  /\ answered' = (answered \/ (app = "await" /\ c = call))
  /\ running' = TRUE
  /\ UNCHANGED <<srv, tryPort, thread, holder, clientVars, trouble>>
-----------------------------------------------------------------------------
(* HttpServer::Stop, and vrserver *)

Told == session' = IF session = "open" THEN "quit" ELSE session

Stop ==
  /\ srv = "serving" /\ running
  /\ srv' = "stopping" /\ running' = FALSE /\ Told
  /\ UNCHANGED <<tryPort, thread, holder, app, op, connected, port, call, result,
                 requestVars, trouble>>

Halt ==
  /\ srv = "stopping" /\ thread = "listening"
  /\ thread' = "ended" /\ Leave
  /\ UNCHANGED <<srv, tryPort, clientVars, trouble>>

\* Joined; or, in a driver that failed to start, nothing to stop; or Stop returns at
\* once, and the thread that has ended unjoined takes the process down with it.
Unload ==
  /\ \/ srv = "stopping" /\ thread = "ended" /\ UNCHANGED session
     \/ srv = "failed" /\ Told
     \/ srv = "serving" /\ ~running /\ thread = "ended" /\ Told
  /\ srv' = "down" /\ thread' = "none"
  /\ UNCHANGED <<tryPort, running, holder, app, op, connected, port, call, result,
                 requestVars, trouble>>

\* vrserver crashes, or is killed: nothing is said to the application.
SteamVRCrash ==
  /\ srv # "down" /\ Trouble
  /\ srv' = "down" /\ thread' = "none" /\ Leave
  /\ UNCHANGED <<tryPort, clientVars>>

Intrude(p) ==
  /\ holder[p] = "free" /\ Trouble
  /\ holder' = [holder EXCEPT ![p] = "other"]
  /\ UNCHANGED <<srv, tryPort, running, thread, clientVars, requestVars>>

Withdraw(p) ==
  /\ holder[p] = "other"
  /\ holder' = [holder EXCEPT ![p] = "free"]
  /\ UNCHANGED <<srv, tryPort, running, thread, clientVars, requestVars, trouble>>
-----------------------------------------------------------------------------
(* The bench application *)

\* WinMain: the session is tried once; the client is created by the first button.
Launch ==
  /\ app = "exit"
  /\ app' = "idle" /\ op' = "none" /\ result' = "none"
  /\ session' = IF srv = "serving" THEN "open" ELSE "none"
  /\ UNCHANGED <<serverVars, connected, port, call, requestVars, trouble>>

\* The window is closed, or the timer's pollEvents has got the Quit of SteamVR.
Close ==
  /\ app = "idle"
  /\ app' = "exit" /\ session' = "none" /\ op' = "none" /\ result' = "none"
  /\ connected' = FALSE /\ port' = NoPort
  /\ UNCHANGED <<serverVars, call, requestVars, trouble>>

\* A name for the call which no request uses any more.
NewCall ==
  \E c \in Calls \ wire :
    call' = c /\ pushes' = [pushes EXCEPT ![c] = 0] /\ answered' = FALSE

\* OnSendTapClicked.
ClickTap ==
  /\ app = "idle"
  /\ NewCall
  /\ op' = "tap" /\ result' = "none"
  /\ IF connected THEN app' = "send" /\ UNCHANGED port ELSE app' = "probe" /\ port' = 1
  /\ UNCHANGED <<serverVars, session, connected, wire, trouble>>

\* OnTestDriverClicked and OnReconnectDriverClicked disconnect first.
ClickProbe(button) ==
  /\ app = "idle"
  /\ op' = button /\ result' = "none"
  /\ connected' = FALSE
  /\ app' = "probe" /\ port' = 1
  /\ UNCHANGED <<serverVars, session, call, requestVars, trouble>>

Done(r) ==
  /\ app' = "idle" /\ result' = r
  /\ UNCHANGED <<serverVars, op, session, port, call, requestVars>>

Driver == port \in Ports /\ holder[port] = "driver"

\* connect: /health on one port after the other.
ProbeOk ==
  /\ app = "probe" /\ Driver
  /\ connected' = TRUE /\ running' = TRUE
  /\ app' = CASE op = "tap" -> "send" [] op = "test" -> "ask" [] OTHER -> "idle"
  /\ result' = IF op = "reconnect" THEN "ok" ELSE result
  /\ UNCHANGED <<srv, tryPort, thread, holder, op, session, port, call, requestVars, trouble>>

ProbeFail ==
  /\ app = "probe"
  /\ IF Driver THEN Trouble ELSE UNCHANGED trouble
  /\ IF port < LastPort
     THEN /\ port' = port + 1
          /\ UNCHANGED <<serverVars, app, op, session, call, result, requestVars>>
     ELSE Done("failed")
  /\ UNCHANGED connected

\* getStatus.
AskOk ==
  /\ app = "ask" /\ Driver
  /\ running' = TRUE
  /\ app' = "idle" /\ result' = "ok"
  /\ UNCHANGED <<srv, tryPort, thread, holder, op, session, connected, port, call,
                 requestVars, trouble>>

AskFail ==
  /\ app = "ask"
  /\ IF Driver THEN Trouble ELSE UNCHANGED trouble
  /\ connected' = FALSE
  /\ Done("failed")

\* tap.
Send ==
  /\ app = "send" /\ Driver
  /\ app' = "await"
  /\ wire' = wire \cup {call}
  /\ UNCHANGED <<serverVars, op, session, connected, port, call, result, answered, pushes,
                 trouble>>

\* Mutant of SendRefused: only the failure is noted, not that the server has gone.
SendRefusedStays ==
  /\ app = "send" /\ holder[port] = "free"
  /\ Done("failed")
  /\ UNCHANGED <<connected, trouble>>
SendRefused ==
  /\ app = "send" /\ holder[port] = "free"
  /\ connected' = FALSE
  /\ Done("failed")
  /\ UNCHANGED trouble

\* Another program answers: that is an answer, and the client stays with its port.
SendMisled ==
  /\ app = "send" /\ holder[port] = "other"
  /\ Done("failed")
  /\ UNCHANGED <<connected, trouble>>

TapOk ==
  /\ app = "await" /\ answered
  /\ Done("ok")
  /\ UNCHANGED <<connected, trouble>>

\* Mutant of TapTimeout: the tap is tried once more.
TapTimeoutRetries ==
  /\ app = "await" /\ Trouble
  /\ app' = "send"
  /\ UNCHANGED <<serverVars, op, session, connected, port, call, result, requestVars>>
\* No answer within the timeout; the request stays where it is.
TapTimeout ==
  /\ app = "await" /\ Trouble
  /\ connected' = FALSE
  /\ Done("failed")

\* The connection is closed before it is answered.
TapLost ==
  /\ app = "await" /\ ~answered /\ call \notin wire
  /\ connected' = FALSE
  /\ Done("failed")
  /\ UNCHANGED trouble
-----------------------------------------------------------------------------
Server == Spawn \/ Look \/ Join \/ Bind \/ Halt \/ (srv = "stopping" /\ Unload)
Environment ==
  \/ Boot \/ Stop \/ Unload \/ ListenFails \/ SteamVRCrash
  \/ \E p \in Ports : Intrude(p) \/ Withdraw(p)
Client ==
  \/ ProbeOk \/ ProbeFail \/ AskOk \/ AskFail
  \/ Send \/ SendRefused \/ SendMisled \/ TapOk \/ TapTimeout \/ TapLost
User == Launch \/ Close \/ ClickTap \/ \E button \in {"test", "reconnect"} : ClickProbe(button)

Next == Server \/ (\E c \in Calls : Serve(c)) \/ Environment \/ Client \/ User

Spec == Init /\ [][Next]_vars

\* The threads run, and a request that waits is read.  Nothing is asked of SteamVR,
\* of other programs or of the user.
Fairness ==
  /\ WF_vars(Spawn \/ Look \/ Join) /\ WF_vars(Bind)
  /\ WF_vars(Halt \/ (srv = "stopping" /\ Unload))
  /\ WF_vars(\E c \in Calls : Serve(c))
  /\ WF_vars(Client)
FairSpec == Spec /\ Fairness
-----------------------------------------------------------------------------
(* Properties *)

\* A press the application reports was queued by the driver, and no call of tap()
\* queues two, however late its request is read.
TapsHonest ==
  /\ \A c \in Calls : pushes[c] <= 1
  /\ op = "tap" /\ result = "ok" => pushes[call] = 1

\* The fate of a call, and the verdict on the latest one, as TapChannel sees them.
Fate(c) ==
  IF c \in wire THEN "sent"
  ELSE IF pushes[c] # 0 THEN "taken"
  ELSE IF c = call /\ op = "tap" /\ app \in {"probe", "send"} THEN "unsent"
  ELSE "over"

Verdict ==
  IF op # "tap" THEN "none"
  ELSE IF app \in {"probe", "send", "await"} THEN "pending"
  ELSE result

\* Whatever ports are tried, and however often SteamVR and its driver come and go, the
\* way of a tap is a TapChannel.
Channel == INSTANCE TapChannel WITH
  latest <- call, fate <- [c \in Calls |-> Fate(c)], verdict <- Verdict
ImplementsTapChannel == Channel!Spec

\* The states in which no tap can get through, and the code does nothing about it:
Excused ==
  \/ srv \in {"down", "failed"}                  \* SteamVR is off, every port was taken
  \/ srv = "join" /\ thread = "listening"        \* bound after the 200 ms: Start waits for ever
  \/ srv = "serving" /\ thread = "ended"         \* the listener has failed
  \/ connected /\ port \in Ports /\ holder[port] = "other"  \* a stranger on the driver's old port

\* Whoever keeps tapping gets a tap through, again and again, wherever the driver
\* has its port now, unless one of those states keeps coming back.
Reconnects ==
  []<>(op = "tap" /\ app \in {"probe", "send"})
    => []<>(op = "tap" /\ result = "ok" /\ srv = "serving") \/ []<>Excused
=============================================================================
