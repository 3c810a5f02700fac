-------------------------- MODULE DriverLink_proofs --------------------------
(***************************************************************************)
(* Theorems about DriverLink, for any number of ports, calls and failures. *)
(***************************************************************************)
EXTENDS DriverLink, TLAPS

\* TypeOK in parts: flags, positions, ports, requests, and who holds a port.
Flags == running \in BOOLEAN /\ connected \in BOOLEAN /\ answered \in BOOLEAN
Positions ==
  /\ srv \in {"down", "spawn", "wait", "join", "serving", "failed", "stopping"}
  /\ thread \in {"none", "binding", "listening", "ended"}
  /\ app \in {"exit", "idle", "probe", "send", "await", "ask"}
  /\ op \in {"none", "tap", "test", "reconnect"}
  /\ session \in {"none", "open", "quit"}
  /\ result \in {"none", "ok", "failed"}
Numbers == tryPort \in Ports /\ port \in Ports \cup {NoPort} /\ trouble \in 0..MaxTrouble
Requests == call \in Calls /\ wire \subseteq Calls /\ pushes \in [Calls -> Nat]
Holders == holder \in [Ports -> {"free", "driver", "other"}]
Listens == (thread = "listening") = (\E p \in Ports : holder[p] = "driver")

LEMMA Parts ==
  TypeOK <=> Flags /\ Positions /\ Numbers /\ Requests /\ Holders /\ Listens
  BY Zenon DEF TypeOK, Flags, Positions, Numbers, Requests, Holders, Listens

\* The server has no thread before it starts one and after it has given up.
Stages == srv \in {"down", "spawn", "failed"} => thread = "none"

\* What the application waits for belongs to the button it serves.
Places ==
  /\ app \in {"send", "await"} => op = "tap"
  /\ app = "ask" => op = "test"

\* A call has at most one request, on its way or queued; it has none before it is sent.
OneRequest ==
  /\ \A c \in Calls : pushes[c] <= 1
  /\ \A c \in wire : pushes[c] = 0
  /\ op = "tap" /\ app \in {"probe", "send"} => pushes[call] = 0 /\ call \notin wire

\* An answer, and a success reported on the strength of one, stand for a tap queued.
Answers ==
  /\ answered => pushes[call] = 1
  /\ op = "tap" /\ result = "ok" => pushes[call] = 1

IInv == TypeOK /\ Stages /\ Places /\ OneRequest /\ Answers

LEMMA InitIInv == Init => IInv
<1> SUFFICES ASSUME Init PROVE IInv
  OBVIOUS
<1>1. Flags  BY DEF Init, Flags
<1>2. Positions  BY DEF Init, Positions
<1>3. Numbers  BY DriverLinkAssumption DEF Init, Numbers, Ports, NoPort
<1>4. Requests  BY DEF Init, Requests
<1>5. Holders  BY DEF Init, Holders
<1>6. Listens  BY DEF Init, Listens
<1>7. Stages /\ Places  BY DEF Init, Stages, Places
<1>8. OneRequest /\ Answers  BY DEF Init, OneRequest, Answers
<1> QED  BY <1>1, <1>2, <1>3, <1>4, <1>5, <1>6, <1>7, <1>8, Parts DEF IInv

-----------------------------------------------------------------------------
(* Types *)

Moves == Server \/ (\E c \in Calls : Serve(c)) \/ Environment \/ Client \/ User

LEMMA FlagsKept ==
  ASSUME Flags, Moves
  PROVE  Flags'
<1> USE DEF Flags, serverVars, clientVars, requestVars
<1>1. CASE Server
  BY <1>1 DEF Server, Spawn, Look, Join, Bind, Halt, Unload, Leave, Told
<1>2. CASE Environment
  BY <1>2 DEF Environment, Boot, Stop, Unload, ListenFails, SteamVRCrash, Intrude, Withdraw,
    Leave, Told, Trouble
<1>3. CASE Client
  BY <1>3 DEF Client, ProbeOk, ProbeFail, AskOk, AskFail, Send, SendRefused, SendMisled,
    TapOk, TapTimeout, TapLost, Trouble, Done, Driver
<1>4. CASE User
  BY <1>4 DEF User, Launch, Close, ClickTap, ClickProbe, NewCall
<1>5. CASE \E c \in Calls : Serve(c)  BY <1>5 DEF Serve
<1> QED  BY <1>1, <1>2, <1>3, <1>4, <1>5 DEF Moves

LEMMA PositionsKept ==
  ASSUME Positions, Moves
  PROVE  Positions'
<1> USE DEF Positions, serverVars, clientVars, requestVars
<1>1. CASE Server
  BY <1>1 DEF Server, Spawn, Look, Join, Bind, Halt, Unload, Leave, Told
<1>2. CASE Environment
  BY <1>2 DEF Environment, Boot, Stop, Unload, ListenFails, SteamVRCrash, Intrude, Withdraw,
    Leave, Told, Trouble
<1>3. CASE Client
  BY <1>3 DEF Client, ProbeOk, ProbeFail, AskOk, AskFail, Send, SendRefused, SendMisled,
    TapOk, TapTimeout, TapLost, Trouble, Done, Driver
<1>4. CASE User
  BY <1>4 DEF User, Launch, Close, ClickTap, ClickProbe, NewCall
<1>5. CASE \E c \in Calls : Serve(c)  BY <1>5 DEF Serve
<1> QED  BY <1>1, <1>2, <1>3, <1>4, <1>5 DEF Moves

LEMMA NumbersKept ==
  ASSUME Numbers, Moves
  PROVE  Numbers'
<1> USE DriverLinkAssumption DEF Numbers, Ports, NoPort, serverVars, clientVars, requestVars
<1>1. CASE Server
  BY <1>1 DEF Server, Spawn, Look, Join, Bind, Halt, Unload, Leave, Told
<1>2. CASE Environment
  BY <1>2 DEF Environment, Boot, Stop, Unload, ListenFails, SteamVRCrash, Intrude, Withdraw,
    Leave, Told, Trouble
<1>3. CASE Client
  BY <1>3 DEF Client, ProbeOk, ProbeFail, AskOk, AskFail, Send, SendRefused, SendMisled,
    TapOk, TapTimeout, TapLost, Trouble, Done, Driver
<1>4. CASE User
  BY <1>4 DEF User, Launch, Close, ClickTap, ClickProbe, NewCall
<1>5. CASE \E c \in Calls : Serve(c)  BY <1>5 DEF Serve
<1> QED  BY <1>1, <1>2, <1>3, <1>4, <1>5 DEF Moves

LEMMA RequestsKept ==
  ASSUME Requests, Moves
  PROVE  Requests'
<1> USE DEF Requests, serverVars, clientVars, requestVars
<1>1. CASE Server
  BY <1>1 DEF Server, Spawn, Look, Join, Bind, Halt, Unload, Leave, Told
<1>2. CASE Environment
  BY <1>2 DEF Environment, Boot, Stop, Unload, ListenFails, SteamVRCrash, Intrude, Withdraw,
    Leave, Told, Trouble
<1>3. CASE Client
  BY <1>3 DEF Client, ProbeOk, ProbeFail, AskOk, AskFail, Send, SendRefused, SendMisled,
    TapOk, TapTimeout, TapLost, Trouble, Done, Driver
<1>4. CASE User
  BY <1>4 DEF User, Launch, Close, ClickTap, ClickProbe, NewCall
<1>5. CASE \E c \in Calls : Serve(c)  BY <1>5 DEF Serve
<1> QED  BY <1>1, <1>2, <1>3, <1>4, <1>5 DEF Moves

LEMMA HoldersKept ==
  ASSUME Holders, Moves
  PROVE  Holders'
<1> USE DEF Holders, serverVars, clientVars, requestVars
<1>1. CASE Server
  BY <1>1 DEF Server, Spawn, Look, Join, Bind, Halt, Unload, Leave, Told
<1>2. CASE Environment
  BY <1>2 DEF Environment, Boot, Stop, Unload, ListenFails, SteamVRCrash, Intrude, Withdraw,
    Leave, Told, Trouble
<1>3. CASE Client
  BY <1>3 DEF Client, ProbeOk, ProbeFail, AskOk, AskFail, Send, SendRefused, SendMisled,
    TapOk, TapTimeout, TapLost, Trouble, Done, Driver
<1>4. CASE User
  BY <1>4 DEF User, Launch, Close, ClickTap, ClickProbe, NewCall
<1>5. CASE \E c \in Calls : Serve(c)  BY <1>5 DEF Serve
<1> QED  BY <1>1, <1>2, <1>3, <1>4, <1>5 DEF Moves

LEMMA StagesKept ==
  ASSUME Stages, Moves
  PROVE  Stages'
  BY DEF Stages, Moves, Server, Environment, Client, User, Serve, Spawn, Look, Join, Bind,
         Halt, Unload, Boot, Stop, ListenFails, SteamVRCrash, Intrude, Withdraw, ProbeOk,
         ProbeFail, AskOk, AskFail, Send, SendRefused, SendMisled, TapOk, TapTimeout,
         TapLost, Done, Launch, Close, ClickTap, ClickProbe, serverVars

LEMMA ListensKept ==
  ASSUME Listens, Stages, Holders, tryPort \in Ports, Moves
  PROVE  Listens'
<1> USE DEF Listens, Stages, Holders, serverVars
<1>1. CASE Spawn \/ Look \/ Join \/ Boot \/ Stop \/ Unload
  BY <1>1 DEF Spawn, Look, Join, Boot, Stop, Unload
<1>2. CASE Bind
  BY <1>2 DEF Bind
<1>3. CASE Halt \/ ListenFails \/ SteamVRCrash
  BY <1>3 DEF Halt, ListenFails, SteamVRCrash, Leave
<1>4. CASE \E p \in Ports : Intrude(p) \/ Withdraw(p)
  <2>1. PICK p \in Ports, h \in {"free", "other"} :
          /\ thread' = thread
          /\ holder[p] # "driver" /\ holder' = [holder EXCEPT ![p] = h]
    BY <1>4 DEF Intrude, Withdraw
  <2>2. \A q \in Ports : holder'[q] = "driver" <=> holder[q] = "driver"
    BY <2>1
  <2> QED  BY <2>1, <2>2
<1>5. CASE Client \/ User \/ \E c \in Calls : Serve(c)
  <2>1. UNCHANGED <<thread, holder>>
    BY <1>5 DEF Client, User, Serve, ProbeOk, ProbeFail, AskOk, AskFail, Send, SendRefused,
       SendMisled, TapOk, TapTimeout, TapLost, Done, Launch, Close, ClickTap, ClickProbe
  <2> QED  BY <2>1
<1> QED  BY <1>1, <1>2, <1>3, <1>4, <1>5 DEF Moves, Server, Environment

\* What the requests' invariants are about stays as it is, or only the wire is emptied.
LEMMA Untouched ==
  ASSUME IInv, UNCHANGED <<app, op, call, result, answered, pushes>>, wire' \in {wire, {}}
  PROVE  Places' /\ OneRequest' /\ Answers'
  BY DEF IInv, TypeOK, Places, OneRequest, Answers

-----------------------------------------------------------------------------
(* Requests *)

LEMMA RequestsServer ==
  ASSUME IInv, Server \/ Environment
  PROVE  Places' /\ OneRequest' /\ Answers'
<1>1. /\ UNCHANGED <<app, op, call, result, answered, pushes>>
      /\ wire' \in {wire, {}}
  BY DEF Server, Environment, Spawn, Look, Join, Bind, Halt, Unload, Leave, Boot, Stop,
         ListenFails, SteamVRCrash, Intrude, Withdraw, clientVars, requestVars
<1> QED  BY <1>1, Untouched

\* A request is queued once, for it leaves the wire.
LEMMA RequestsServe ==
  ASSUME IInv, NEW c \in Calls, Serve(c)
  PROVE  Places' /\ OneRequest' /\ Answers'
<1> USE DEF IInv, TypeOK
<1>1. /\ pushes[c] = 0 /\ pushes' = [pushes EXCEPT ![c] = 1]
      /\ c \notin wire' /\ wire' = wire \ {c}
  <2>1. pushes[c] = 0  BY DEF Serve, OneRequest
  <2>2. pushes' = [pushes EXCEPT ![c] = pushes[c] + 1] /\ wire' = wire \ {c}
    BY DEF Serve
  <2> QED  BY <2>1, <2>2
<1>2. UNCHANGED clientVars  BY DEF Serve
<1>3. Places'  BY <1>2 DEF Places, clientVars
<1>4. op = "tap" /\ app \in {"probe", "send"} => c # call  BY DEF Serve, OneRequest
<1>5. OneRequest'  BY <1>1, <1>2, <1>4 DEF OneRequest, clientVars
<1>6. pushes[call] = 1 => pushes'[call] = 1  BY <1>1
<1>7. answered' => answered \/ c = call  BY DEF Serve
<1>8. Answers'  BY <1>1, <1>2, <1>6, <1>7 DEF Answers, clientVars
<1> QED  BY <1>3, <1>5, <1>8

\* The client reports a success only of an answered tap, and sends a call once.
LEMMA RequestsClient ==
  ASSUME IInv, Client
  PROVE  Places' /\ OneRequest' /\ Answers'
<1> USE DEF IInv, TypeOK
<1>1. CASE ProbeOk
  BY <1>1 DEF ProbeOk, Places, OneRequest, Answers, requestVars
<1>2. CASE ProbeFail
  BY <1>2 DEF ProbeFail, Places, OneRequest, Answers, requestVars, Done
<1>3. CASE AskOk
  BY <1>3 DEF AskOk, Places, OneRequest, Answers, requestVars
<1>4. CASE AskFail \/ SendRefused \/ SendMisled \/ TapTimeout \/ TapLost
  BY <1>4 DEF AskFail, SendRefused, SendMisled, TapTimeout, TapLost, Places, OneRequest,
              Answers, requestVars, Done
<1>5. CASE Send
  BY <1>5 DEF Send, Places, OneRequest, Answers
<1>6. CASE TapOk
  BY <1>6 DEF TapOk, Places, OneRequest, Answers, requestVars, Done
<1> QED  BY <1>1, <1>2, <1>3, <1>4, <1>5, <1>6 DEF Client

LEMMA RequestsUser ==
  ASSUME IInv, User
  PROVE  Places' /\ OneRequest' /\ Answers'
<1> USE DEF IInv, TypeOK
<1>1. CASE Launch  BY <1>1 DEF Launch, Places, OneRequest, Answers, requestVars
<1>2. CASE Close  BY <1>2 DEF Close, Places, OneRequest, Answers, requestVars
<1>3. CASE ClickTap
  <2>1. PICK c \in Calls \ wire :
          call' = c /\ pushes' = [pushes EXCEPT ![c] = 0] /\ answered' = FALSE
    BY <1>3 DEF ClickTap, NewCall
  <2>2. wire' = wire /\ app' \in {"send", "probe"} /\ op' = "tap" /\ result' = "none"
    BY <1>3 DEF ClickTap
  <2> QED  BY <2>1, <2>2 DEF Places, OneRequest, Answers
<1>4. CASE \E button \in {"test", "reconnect"} : ClickProbe(button)
  BY <1>4 DEF ClickProbe, Places, OneRequest, Answers, requestVars
<1> QED  BY <1>1, <1>2, <1>3, <1>4 DEF User

-----------------------------------------------------------------------------
\* The invariant is inductive.
THEOREM Invariance == Spec => []IInv
<1>1. IInv /\ [Next]_vars => IInv'
  <2> SUFFICES ASSUME IInv, [Next]_vars PROVE IInv'
    OBVIOUS
  <2>1. CASE Moves
    <3>1. Flags' /\ Positions' /\ Numbers' /\ Requests' /\ Holders'
      BY <2>1, Parts, FlagsKept, PositionsKept, NumbersKept, RequestsKept, HoldersKept DEF IInv
    <3>2. Stages'  BY <2>1, StagesKept DEF IInv
    <3>3. Listens'  BY <2>1, Parts, ListensKept DEF IInv, Numbers
    <3>4. TypeOK'
      BY <3>1, <3>3, Zenon DEF TypeOK, Flags, Positions, Numbers, Requests, Holders, Listens
    <3>5. Places' /\ OneRequest' /\ Answers'
      BY <2>1, RequestsServer, RequestsServe, RequestsClient, RequestsUser DEF Moves
    <3> QED  BY <3>2, <3>4, <3>5 DEF IInv
  <2>2. CASE UNCHANGED vars
    <3>1. UNCHANGED <<srv, tryPort, running, thread, holder, session, connected, port,
                      trouble>>
      BY <2>2 DEF vars, serverVars, clientVars
    <3>2. UNCHANGED <<app, op, call, result, answered, wire, pushes>>
      BY <2>2 DEF vars, clientVars, requestVars
    <3>3. TypeOK'
      <4>1. Flags' /\ Positions'  BY <3>1, <3>2, Parts DEF IInv, Flags, Positions
      <4>2. Numbers' /\ Requests'  BY <3>1, <3>2, Parts DEF IInv, Numbers, Requests
      <4>3. Holders' /\ Listens'  BY <3>1, Parts DEF IInv, Holders, Listens
      <4> QED
        BY <4>1, <4>2, <4>3, Zenon
        DEF TypeOK, Flags, Positions, Numbers, Requests, Holders, Listens
    <3>4. Stages'  BY <3>1 DEF IInv, Stages
    <3>5. Places' /\ OneRequest' /\ Answers'  BY <3>2, Untouched
    <3> QED  BY <3>3, <3>4, <3>5 DEF IInv
  <2> QED  BY <2>1, <2>2 DEF Next, Moves
<1> QED  BY <1>1, InitIInv, PTL DEF Spec

\* Server, client and the requests between them keep their types; somebody listens
\* exactly when the driver holds a port.
THEOREM TypeCorrect == Spec => []TypeOK
  BY Invariance, PTL DEF IInv

\* No call of tap() queues two taps, and none is reported that was not queued, for any
\* ports, losses, delays and crashes.
THEOREM AlwaysHonest == Spec => []TapsHonest
<1>1. IInv => TapsHonest  BY DEF IInv, OneRequest, Answers, TapsHonest
<1> QED  BY <1>1, Invariance, PTL
-----------------------------------------------------------------------------
(* The refinement *)

Fates == [c \in Calls |-> Fate(c)]

\* What the channel sees of a step is what it does to the fate of each call.
LEMMA SameFates ==
  ASSUME \A c \in Calls : Fate(c)' = Fate(c)
  PROVE  Fates' = Fates
  BY DEF Fates

LEMMA OneFate ==
  ASSUME NEW d \in Calls, NEW f, Fate(d)' = f, \A c \in Calls \ {d} : Fate(c)' = Fate(c)
  PROVE  Fates' = [Fates EXCEPT ![d] = f]
  BY DEF Fates

LEMMA InitRefines == Init => Channel!Init
<1> SUFFICES ASSUME Init PROVE Channel!Init
  OBVIOUS
<1>1. \A c \in Calls : Fate(c) = "over"
  BY DEF Init, Fate
<1>2. Verdict = "none"
  BY DEF Init, Verdict
<1> QED  BY <1>1, <1>2 DEF Init, Channel!Init

\* The server and the world outside can take requests off the wire, all or none.
LEMMA ServerRefines ==
  ASSUME IInv, Server \/ Environment
  PROVE  Channel!Next \/ UNCHANGED Channel!vars
<1>1. /\ UNCHANGED <<app, op, call, result, pushes>>
      /\ wire' \in {wire, {}}
  BY DEF Server, Environment, Spawn, Look, Join, Bind, Halt, Unload, Leave, Boot, Stop,
         ListenFails, SteamVRCrash, Intrude, Withdraw, clientVars, requestVars
<1>2. Verdict' = Verdict
  BY <1>1 DEF Verdict
<1>3. CASE wire' = wire
  <2>1. \A c \in Calls : Fate(c)' = Fate(c)
    BY <1>1, <1>3 DEF Fate
  <2> QED  BY <1>1, <1>2, <2>1, SameFates DEF Channel!vars, Fates
<1>4. CASE wire' = {}
  <2>1. \A c \in Calls : Fate(c)' = IF Fate(c) = "sent" THEN "over" ELSE Fate(c)
    BY <1>1, <1>4 DEF Fate, IInv, OneRequest
  <2>2. Channel!Lose
    BY <1>1, <1>2, <2>1 DEF Channel!Lose
  <2> QED  BY <2>2 DEF Channel!Next
<1> QED  BY <1>1, <1>3, <1>4

LEMMA ServeRefines ==
  ASSUME IInv, NEW c \in Calls, Serve(c)
  PROVE  Channel!Next
<1>1. /\ UNCHANGED <<app, op, call, result>>
      /\ c \in wire /\ wire' = wire \ {c}
      /\ pushes'[c] # 0 /\ \A d \in Calls \ {c} : pushes'[d] = pushes[d]
  <2>1. pushes' = [pushes EXCEPT ![c] = pushes[c] + 1] /\ pushes \in [Calls -> Nat]
    BY DEF Serve, IInv, TypeOK
  <2> QED  BY <2>1 DEF Serve, clientVars
<1>2. Fate(c) = "sent" /\ Fate(c)' = "taken"
  BY <1>1 DEF Fate
<1>3. \A d \in Calls \ {c} : Fate(d)' = Fate(d)
  BY <1>1 DEF Fate
<1>4. Verdict' = Verdict
  BY <1>1 DEF Verdict
<1>5. Fates' = [Fates EXCEPT ![c] = "taken"]
  BY <1>2, <1>3, OneFate
<1>6. Channel!Take(c)
  BY <1>1, <1>2, <1>4, <1>5 DEF Channel!Take, Fates
<1> QED  BY <1>6 DEF Channel!Next

\* A call that fails: given up, and never sent if it had not been.
LEMMA GivesUp ==
  ASSUME IInv, op = "tap", app \in {"probe", "send", "await"}, UNCHANGED trouble \/ Trouble,
         app' = "idle", result' = "failed", UNCHANGED <<op, call, requestVars>>
  PROVE  Channel!Next
<1>1. Verdict = "pending" /\ Verdict' = "failed"
  BY DEF Verdict
<1>2. call \in Calls /\ UNCHANGED <<wire, pushes>>
  BY DEF IInv, TypeOK, requestVars
<1>3. \A c \in Calls \ {call} : Fate(c)' = Fate(c)
  BY <1>2 DEF Fate
<1>4. Fate(call)' = IF Fate(call) = "unsent" THEN "over" ELSE Fate(call)
  BY <1>2 DEF Fate
<1>5. Fates' = [Fates EXCEPT ![call] = IF Fate(call) = "unsent" THEN "over" ELSE Fate(call)]
  BY <1>2, <1>3, <1>4, OneFate
<1>6. Channel!GiveUp
  BY <1>1, <1>2, <1>5 DEF Channel!GiveUp, Fates
<1> QED  BY <1>6 DEF Channel!Next

\* What the client does that is about no tap, or that the channel does not see of one.
LEMMA Unseen ==
  ASSUME UNCHANGED <<op, call, requestVars>>, Verdict' = Verdict,
         op = "tap" => (app \in {"probe", "send"} <=> app' \in {"probe", "send"})
  PROVE  UNCHANGED Channel!vars
<1>1. UNCHANGED <<wire, pushes>>
  BY DEF requestVars
<1>2. \A c \in Calls : Fate(c)' = Fate(c)
  BY <1>1 DEF Fate
<1> QED  BY <1>2, SameFates DEF Channel!vars, Fates

LEMMA ClientRefines ==
  ASSUME IInv, Client
  PROVE  Channel!Next \/ UNCHANGED Channel!vars
<1> USE DEF requestVars
<1>0. call \in Calls
  BY DEF IInv, TypeOK
<1>1. CASE ProbeOk
  <2>1. UNCHANGED <<op, call, requestVars>> /\ app = "probe"
        /\ (op = "tap" => app' = "send" /\ result' = result)
    BY <1>1 DEF ProbeOk
  <2>2. Verdict' = Verdict
    BY <2>1 DEF Verdict
  <2> QED  BY <2>1, <2>2, Unseen
<1>2. CASE ProbeFail
  <2>1. /\ UNCHANGED <<op, call, requestVars>> /\ app = "probe"
        /\ UNCHANGED trouble \/ Trouble
        /\ \/ app' = app /\ result' = result
           \/ app' = "idle" /\ result' = "failed"
    BY <1>2 DEF ProbeFail, Done
  <2>2. CASE op = "tap" /\ app' = "idle"
    BY <2>1, <2>2, GivesUp
  <2>3. CASE op # "tap" \/ app' = app
    <3>1. Verdict' = Verdict
      BY <2>1, <2>3 DEF Verdict
    <3> QED  BY <2>1, <2>3, <3>1, Unseen
  <2> QED  BY <2>1, <2>2, <2>3
<1>3. CASE AskOk \/ AskFail
  <2>1. UNCHANGED <<op, call, requestVars>> /\ op # "tap"
    BY <1>3 DEF AskOk, AskFail, Done, IInv, Places
  <2>2. Verdict' = Verdict
    BY <2>1 DEF Verdict
  <2> QED  BY <2>1, <2>2, Unseen
<1>4. CASE Send
  <2>1. /\ UNCHANGED <<op, call, result, pushes>> /\ app = "send" /\ app' = "await"
        /\ op = "tap" /\ wire' = wire \cup {call}
    BY <1>4 DEF Send, IInv, Places
  <2>2. Verdict = "pending" /\ Verdict' = "pending"
    BY <2>1 DEF Verdict
  <2>3. Fate(call) = "unsent" /\ Fate(call)' = "sent"
    BY <2>1 DEF Fate, IInv, OneRequest
  <2>4. \A c \in Calls \ {call} : Fate(c)' = Fate(c)
    BY <2>1 DEF Fate
  <2>5. Fates' = [Fates EXCEPT ![call] = "sent"]
    BY <1>0, <2>1, <2>3, <2>4, OneFate
  <2>6. Channel!Send
    BY <1>0, <2>1, <2>2, <2>3, <2>5 DEF Channel!Send, Fates
  <2> QED  BY <2>6 DEF Channel!Next
<1>5. CASE SendRefused \/ SendMisled \/ TapTimeout \/ TapLost
  <2>1. /\ op = "tap" /\ app \in {"probe", "send", "await"}
        /\ UNCHANGED trouble \/ Trouble
        /\ app' = "idle" /\ result' = "failed" /\ UNCHANGED <<op, call, requestVars>>
    BY <1>5 DEF SendRefused, SendMisled, TapTimeout, TapLost, Done, IInv, Places
  <2> QED  BY <2>1, GivesUp
<1>6. CASE TapOk
  <2>1. /\ UNCHANGED <<op, call, wire, pushes>> /\ app = "await" /\ app' = "idle"
        /\ result' = "ok" /\ op = "tap" /\ pushes[call] = 1
    BY <1>6 DEF TapOk, Done, IInv, Places, Answers
  <2>2. Verdict = "pending" /\ Verdict' = "ok"
    BY <2>1 DEF Verdict
  <2>3. \A c \in Calls : Fate(c)' = Fate(c)
    BY <2>1 DEF Fate
  <2>4. Fate(call) = "taken"
    BY <1>0, <2>1 DEF Fate, IInv, OneRequest
  <2>5. Channel!Succeed
    BY <1>0, <2>1, <2>2, <2>3, <2>4, SameFates DEF Channel!Succeed, Fates
  <2> QED  BY <2>5 DEF Channel!Next
<1> QED  BY <1>1, <1>2, <1>3, <1>4, <1>5, <1>6 DEF Client

LEMMA UserRefines ==
  ASSUME IInv, User
  PROVE  Channel!Next
<1>1. app \in {"exit", "idle"}
  BY DEF User, Launch, Close, ClickTap, ClickProbe
<1>2. Verdict # "pending"
  BY <1>1 DEF Verdict, IInv, TypeOK
<1>3. CASE ClickTap
  <2>1. PICK c \in Calls \ wire :
          call' = c /\ pushes' = [pushes EXCEPT ![c] = 0] /\ answered' = FALSE
    BY <1>3 DEF ClickTap, NewCall
  <2>2. wire' = wire /\ app' \in {"send", "probe"} /\ op' = "tap"
    BY <1>3 DEF ClickTap
  <2>3. Verdict' = "pending"
    BY <2>2 DEF Verdict
  <2>4. pushes'[c] = 0 /\ \A d \in Calls \ {c} : pushes'[d] = pushes[d]
    BY <2>1 DEF IInv, TypeOK
  <2>5. Fate(c) # "sent" /\ Fate(c)' = "unsent"
    BY <2>1, <2>2, <2>4 DEF Fate
  <2>6. \A d \in Calls \ {c} : Fate(d)' = Fate(d)
    BY <1>1, <2>1, <2>2, <2>4 DEF Fate
  <2>7. Fates' = [Fates EXCEPT ![c] = "unsent"]
    BY <2>5, <2>6, OneFate
  <2>8. Channel!Begin
    BY <1>2, <2>1, <2>3, <2>5, <2>7 DEF Channel!Begin, Fates
  <2> QED  BY <2>8 DEF Channel!Next
<1>4. CASE Launch \/ Close \/ \E button \in {"test", "reconnect"} : ClickProbe(button)
  <2>1. UNCHANGED <<call, wire, pushes>> /\ op' # "tap"
    BY <1>4 DEF Launch, Close, ClickProbe, requestVars
  <2>2. Verdict' = "none"
    BY <2>1 DEF Verdict
  <2>3. \A c \in Calls : Fate(c)' = Fate(c)
    BY <1>1, <2>1 DEF Fate
  <2>4. Channel!Forget
    BY <1>2, <2>1, <2>2, <2>3, SameFates DEF Channel!Forget, Fates
  <2> QED  BY <2>4 DEF Channel!Next
<1> QED  BY <1>3, <1>4 DEF User

LEMMA NextRefines == IInv /\ [Next]_vars => [Channel!Next]_(Channel!vars)
<1>1. ASSUME UNCHANGED vars PROVE UNCHANGED Channel!vars
  <2>1. UNCHANGED <<app, op, call, result, wire, pushes>>
    BY <1>1 DEF vars, clientVars, requestVars
  <2>2. Verdict' = Verdict /\ \A c \in Calls : Fate(c)' = Fate(c)
    BY <2>1 DEF Verdict, Fate
  <2> QED  BY <2>1, <2>2, SameFates DEF Channel!vars, Fates
<1> QED
  BY <1>1, ServerRefines, ServeRefines, ClientRefines, UserRefines DEF Next

\* For any number of ports, calls, crashes and delays, a tap is delivered at most once,
\* and only one that was delivered is reported as a success.
THEOREM Refinement == Spec => ImplementsTapChannel
  BY InitRefines, NextRefines, Invariance, PTL DEF Spec, ImplementsTapChannel, Channel!Spec
=============================================================================
