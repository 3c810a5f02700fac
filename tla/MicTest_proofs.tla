---------------------------- MODULE MicTest_proofs ----------------------------
(***************************************************************************)
(* Theorems about MicTest, for any devices and any counts of samples.      *)
(***************************************************************************)
EXTENDS MicTest, TLAPS

\* Somebody else's thread runs only while a capture is on or being joined, and the
\* window is inside a call of the capture only where its code makes one.
Owned ==
  /\ call # "join" /\ ~capturing => thread = "none"
  /\ call = "start" => ~capturing /\ pc \in {"start", "exit"}
  /\ call = "join" => ~capturing /\ pc \in {"stop", "quit", "exit"}
  /\ pc = "select" => ~capturing /\ call = "none"

\* There is a detector wherever one is used.
Known ==
  detector = NoDetector =>
    /\ pc \notin {"flag", "count", "lower", "lowerOnly", "finish", "tell", "clear", "clearFlags"}
    /\ cb \in {"none", "level"}

IInv == TypeOK /\ Owned /\ Known

-----------------------------------------------------------------------------
(* Detectors *)

LEMMA DetectorFields ==
  ASSUME NEW d \in Detector
  PROVE  d.training \in BOOLEAN /\ d.samples \in 0..MinSamples /\ d.has \in BOOLEAN
  BY DEF Detector

LEMMA DetectorMade ==
  /\ Fresh \in Detector /\ Fresh # NoDetector
  /\ \A t, h \in BOOLEAN : [training |-> t, samples |-> 0, has |-> h] \in Detector
<1> USE MicTestAssumption
<1>1. 0 \in 0..MinSamples  OBVIOUS
<1>2. Fresh \in Detector  BY <1>1 DEF Fresh, Detector
<1>3. Fresh # NoDetector  BY <1>2
<1>4. \A t, h \in BOOLEAN : [training |-> t, samples |-> 0, has |-> h] \in Detector
  BY <1>1 DEF Detector
<1> QED  BY <1>2, <1>3, <1>4

LEMMA DetectorChanged ==
  ASSUME NEW d \in Detector
  PROVE  /\ [d EXCEPT !.training = TRUE, !.samples = 0] \in Detector
         /\ [d EXCEPT !.has = TRUE] \in Detector
         /\ d.samples < MinSamples => [d EXCEPT !.samples = @ + 1] \in Detector
<1> USE MicTestAssumption DEF Detector
<1>1. [d EXCEPT !.training = TRUE, !.samples = 0] \in Detector
  <2>1. 0 \in 0..MinSamples  OBVIOUS
  <2> QED  BY <2>1
<1>2. [d EXCEPT !.has = TRUE] \in Detector  OBVIOUS
<1>3. ASSUME d.samples < MinSamples  PROVE [d EXCEPT !.samples = @ + 1] \in Detector
  <2>1. d.samples + 1 \in 0..MinSamples  BY <1>3
  <2> QED  BY <2>1
<1> QED  BY <1>1, <1>2, <1>3

-----------------------------------------------------------------------------
(* Types *)

\* TypeOK in parts: the devices and the capture, its flags, and the bench's own.
DeviceTypes ==
  /\ present \subseteq Devices /\ current \in Devices \cup {NoDevice}
  /\ notices \subseteq Devices \X Fates
CaptureFlags == capturing \in BOOLEAN /\ deviceLost \in BOOLEAN
CapturePositions ==
  /\ stream \in {"none", "live", "dead"}
  /\ thread \in {"none", "waiting", "draining", "callback", "ended"}
  /\ call \in {"none", "join", "start"}
Positions ==
  /\ pc \in {"start", "idle", "flag", "count", "lower", "lowerOnly", "finish", "tell", "stop",
             "select", "clear", "clearFlags", "quit", "exit"}
  /\ cb \in {"none", "level", "adding", "analyzing", "reset", "answer"}
  /\ shown \in {"nothing", "detecting", "fires"}
DetectorType == detector \in Detector \cup {NoDetector}
Flags == freed \in BOOLEAN /\ isTraining \in BOOLEAN /\ hasProfile \in BOOLEAN
Count == trainingSampleCount \in 0..AutoStopCount
Inside == (cb = "none") = (thread # "callback")

LEMMA Parts ==
  TypeOK <=> /\ DeviceTypes /\ CaptureFlags /\ CapturePositions
             /\ Positions /\ DetectorType /\ Flags /\ Count /\ Inside
  BY Zenon DEF TypeOK, CaptureTypeOK, DeviceTypes, CaptureFlags, CapturePositions, Positions,
               DetectorType, Flags, Count, Inside

\* The window's actions: on the capture, and on the detector with its flags.
CaptureWindow ==
  Start \/ Started \/ StartFail \/ Stop \/ Stopped \/ SelectDevice \/ SelectFail
DetectorWindow ==
  RaiseFlag \/ ResetCount \/ AutoStop \/ Lower \/ Finish \/ Tell \/ ClearDetector \/ ClearFlags

Moves == CaptureThread \/ User \/ CaptureWindow \/ DetectorWindow \/ Crash \/ Windows

LEMMA PlainKept ==
  ASSUME DeviceTypes, CaptureFlags, CapturePositions, Positions, Moves
  PROVE  DeviceTypes' /\ CaptureFlags' /\ CapturePositions' /\ Positions'
<1> USE DEF DeviceTypes, CaptureFlags, CapturePositions, Positions,
           captureVars, deviceVars, flags
<1>1. CASE CaptureThread
  BY <1>1 DEF CaptureThread, CallbackBegin, PacketBegin, Add, Analyze, ResetShown,
              CallbackEnd, PacketEnd, WaitEnds, Drained, Invalidated
<1>2. CASE User
  BY <1>2 DEF User, ChooseDevice, StartTraining, StopTraining, Clear, Load, Quit, Goto
<1>3. CASE CaptureWindow
  BY <1>3 DEF CaptureWindow, Start, StartStream, Started, StartThread, StartFail, Stop,
              StopBegin, Stopped, StopEnd, SelectDevice, Select, SelectFail, Goto
<1>4. CASE DetectorWindow
  BY <1>4 DEF DetectorWindow, RaiseFlag, ResetCount, AutoStop, Lower, Finish, Tell,
              ClearDetector, ClearFlags, Goto
<1>5. CASE Crash  BY <1>5 DEF Crash, Goto
<1>6. CASE Windows
  <2>1. DeviceTypes'
    <3>1. PICK d \in Devices : Unplug(d) \/ Plug(d) \/ OnDeviceStateChanged(d)
      BY <1>6 DEF Windows
    <3>2. notices' \subseteq Devices \X Fates
      <4>1. CASE Unplug(d)
        <5>1. PICK fate \in Fates : notices' = notices \cup {<<d, fate>>}
          BY <4>1 DEF Unplug
        <5>2. <<d, fate>> \in Devices \X Fates
          OBVIOUS
        <5> QED  BY <5>1, <5>2, Zenon
      <4>2. CASE Plug(d)  BY <4>2 DEF Plug
      <4>3. CASE OnDeviceStateChanged(d)
        <5>1. notices' \subseteq notices
          BY <4>3, Zenon DEF OnDeviceStateChanged
        <5> QED  BY <5>1, Zenon
      <4> QED  BY <3>1, <4>1, <4>2, <4>3
    <3>3. present' \subseteq Devices /\ current' = current
      BY <3>1 DEF Unplug, Plug, OnDeviceStateChanged
    <3> QED  BY <3>2, <3>3
  <2>2. CaptureFlags'  BY <1>6 DEF Windows, Unplug, Plug, OnDeviceStateChanged, onDeviceRemoved
  <2>3. CapturePositions' /\ Positions'
    BY <1>6 DEF Windows, Unplug, Plug, OnDeviceStateChanged, onDeviceRemoved
  <2> QED  BY <2>1, <2>2, <2>3
<1> QED  BY <1>1, <1>2, <1>3, <1>4, <1>5, <1>6 DEF Moves

LEMMA CountKept ==
  ASSUME Count, Moves
  PROVE  Count'
<1> USE MicTestAssumption DEF Count, captureVars, deviceVars, flags
<1>1. CASE CaptureThread
  BY <1>1 DEF CaptureThread, CallbackBegin, PacketBegin, Add, Analyze, ResetShown,
              CallbackEnd, PacketEnd, WaitEnds, Drained, Invalidated
<1>2. CASE User
  BY <1>2 DEF User, ChooseDevice, StartTraining, StopTraining, Clear, Load, Quit, Goto
<1>3. CASE CaptureWindow
  BY <1>3 DEF CaptureWindow, Start, StartStream, Started, StartThread, StartFail, Stop,
              StopBegin, Stopped, StopEnd, SelectDevice, Select, SelectFail, Goto
<1>4. CASE DetectorWindow
  BY <1>4 DEF DetectorWindow, RaiseFlag, ResetCount, AutoStop, Lower, Finish, Tell,
              ClearDetector, ClearFlags, Goto
<1>5. CASE Crash  BY <1>5 DEF Crash, Goto
<1>6. CASE Windows  BY <1>6 DEF Windows, Unplug, Plug, OnDeviceStateChanged, onDeviceRemoved
<1> QED  BY <1>1, <1>2, <1>3, <1>4, <1>5, <1>6 DEF Moves

LEMMA InsideKept ==
  ASSUME Inside, CapturePositions, Positions, Owned, Moves
  PROVE  Inside'
<1> USE DEF Inside, CapturePositions, Positions, Owned, captureVars, deviceVars, flags
<1>1. CASE CaptureThread
  BY <1>1 DEF CaptureThread, CallbackBegin, PacketBegin, Add, Analyze, ResetShown,
              CallbackEnd, PacketEnd, WaitEnds, Drained, Invalidated
<1>2. CASE User
  BY <1>2 DEF User, ChooseDevice, StartTraining, StopTraining, Clear, Load, Quit, Goto
<1>3. CASE CaptureWindow
  BY <1>3 DEF CaptureWindow, Start, StartStream, Started, StartThread, StartFail, Stop,
              StopBegin, Stopped, StopEnd, SelectDevice, Select, SelectFail, Goto
<1>4. CASE DetectorWindow
  BY <1>4 DEF DetectorWindow, RaiseFlag, ResetCount, AutoStop, Lower, Finish, Tell,
              ClearDetector, ClearFlags, Goto
<1>5. CASE Crash  BY <1>5 DEF Crash, Goto
<1>6. CASE Windows  BY <1>6 DEF Windows, Unplug, Plug, OnDeviceStateChanged, onDeviceRemoved
<1> QED  BY <1>1, <1>2, <1>3, <1>4, <1>5, <1>6 DEF Moves

LEMMA OwnedKept ==
  ASSUME Owned, Inside, CapturePositions, Moves
  PROVE  Owned'
<1> USE DEF Owned, Inside, CapturePositions, captureVars, deviceVars, flags
<1>1. CASE CaptureThread
  BY <1>1 DEF CaptureThread, CallbackBegin, PacketBegin, Add, Analyze, ResetShown,
              CallbackEnd, PacketEnd, WaitEnds, Drained, Invalidated
<1>2. CASE User
  BY <1>2 DEF User, ChooseDevice, StartTraining, StopTraining, Clear, Load, Quit, Goto
<1>3. CASE CaptureWindow
  <2>1. CASE Start  BY <2>1 DEF Start, StartStream, Startable
  <2>2. CASE Started  BY <2>2 DEF Started, StartThread, Goto
  <2>3. CASE StartFail \/ SelectFail  BY <2>3 DEF StartFail, SelectFail, Goto
  <2>4. CASE Stop  BY <2>4 DEF Stop, StopBegin
  <2>5. CASE Stopped  BY <2>5 DEF Stopped, StopEnd, Goto
  <2>6. CASE SelectDevice  BY <2>6 DEF SelectDevice, Select, Goto
  <2> QED  BY <1>3, <2>1, <2>2, <2>3, <2>4, <2>5, <2>6 DEF CaptureWindow
<1>4. CASE DetectorWindow
  BY <1>4 DEF DetectorWindow, RaiseFlag, ResetCount, AutoStop, Lower, Finish, Tell,
              ClearDetector, ClearFlags, Goto
<1>5. CASE Crash  BY <1>5 DEF Crash, Goto
<1>6. CASE Windows  BY <1>6 DEF Windows, Unplug, Plug, OnDeviceStateChanged, onDeviceRemoved
<1> QED  BY <1>1, <1>2, <1>3, <1>4, <1>5, <1>6 DEF Moves

LEMMA DetectorTypeKept ==
  ASSUME DetectorType, Known, Moves
  PROVE  DetectorType'
<1> USE DetectorFields, DetectorMade, DetectorChanged DEF DetectorType
<1>1. CASE UNCHANGED detector
  BY <1>1
<1>2. CASE Add
  BY <1>2 DEF Add, Known
<1>3. CASE StartTraining \/ Load
  BY <1>3 DEF StartTraining, Load
<1>4. CASE AutoStop \/ Finish
  <2>1. detector \in Detector  BY <1>4 DEF AutoStop, Finish, Known
  <2>2. PICK h \in BOOLEAN : detector' = [training |-> FALSE, samples |-> 0, has |-> h]
    BY <1>4, <2>1 DEF AutoStop, Finish, FinishTraining, Success
  <2> QED  BY <2>2
<1>5. CASE SelectDevice \/ ClearDetector
  BY <1>5 DEF SelectDevice, ClearDetector, Replace
<1> QED
  BY <1>1, <1>2, <1>3, <1>4, <1>5
  DEF Moves, CaptureThread, CallbackBegin, Analyze, ResetShown, CallbackEnd, User, ChooseDevice,
      StopTraining, Clear, Quit, CaptureWindow, Start, Started, StartFail, Stop, Stopped,
      SelectFail, DetectorWindow, RaiseFlag, ResetCount, Lower, Tell, ClearFlags, Crash, Windows

LEMMA KnownKept ==
  ASSUME DetectorType, Known, Moves
  PROVE  Known'
<1> USE MicTestAssumption, DetectorFields, DetectorMade, DetectorChanged DEF Known, DetectorType
<1>1. CASE CaptureThread
  BY <1>1 DEF CaptureThread, CallbackBegin, Add, Analyze, ResetShown, CallbackEnd
<1>2. CASE User
  BY <1>2 DEF User, ChooseDevice, StartTraining, StopTraining, Clear, Load, Quit, Goto
<1>3. CASE CaptureWindow
  BY <1>3 DEF CaptureWindow, Start, Started, StartFail, Stop, Stopped, SelectDevice, Replace,
              SelectFail, Goto
<1>4. CASE DetectorWindow
  BY <1>4 DEF DetectorWindow, RaiseFlag, ResetCount, AutoStop, Lower, Finish, Tell,
              ClearDetector, ClearFlags, Replace, FinishTraining, Success, Goto
<1>5. CASE Crash \/ Windows
  BY <1>5 DEF Crash, Windows, Goto
<1> QED  BY <1>1, <1>2, <1>3, <1>4, <1>5 DEF Moves

LEMMA FlagsKept ==
  ASSUME Flags, DetectorType, Known, Moves
  PROVE  Flags'
<1>1. detector # NoDetector => detector.has \in BOOLEAN
  BY DetectorFields DEF DetectorType
<1> USE DEF Flags, Known, flags
<1>2. CASE CaptureThread
  BY <1>1, <1>2 DEF CaptureThread, CallbackBegin, Add, Analyze, ResetShown, CallbackEnd
<1>3. CASE User
  BY <1>3 DEF User, ChooseDevice, StartTraining, StopTraining, Clear, Load, Quit
<1>4. CASE CaptureWindow
  BY <1>4 DEF CaptureWindow, Start, Started, StartFail, Stop, Stopped, SelectDevice, Replace,
              SelectFail
<1>5. CASE DetectorWindow
  BY <1>1, <1>5 DEF DetectorWindow, RaiseFlag, ResetCount, AutoStop, Lower, Finish, Tell,
              ClearDetector, ClearFlags, Replace, FinishTraining, Success
<1>6. CASE Crash \/ Windows
  BY <1>6 DEF Crash, Windows
<1> QED  BY <1>2, <1>3, <1>4, <1>5, <1>6 DEF Moves

-----------------------------------------------------------------------------
(* The invariant *)

LEMMA InitIInv == Init => IInv
<1> SUFFICES ASSUME Init PROVE IInv
  OBVIOUS
<1> USE DEF Init, CaptureInit
<1>1. DeviceTypes /\ CaptureFlags /\ CapturePositions /\ Positions /\ Inside
  BY DEF DeviceTypes, CaptureFlags, CapturePositions, Positions, Inside
<1>2. DetectorType  BY DetectorMade DEF DetectorType
<1>3. Flags  BY DEF Flags
<1>4. Count  BY MicTestAssumption DEF Count
<1>5. Owned /\ Known  BY DEF Owned, Known
<1> QED  BY <1>1, <1>2, <1>3, <1>4, <1>5, Parts DEF IInv

LEMMA NextMoves == Next => Moves
  BY DEF Next, Moves, Window, CaptureWindow, DetectorWindow

LEMMA NextIInv == IInv /\ [Next]_vars => IInv'
<1> SUFFICES ASSUME IInv, [Next]_vars PROVE IInv'
  OBVIOUS
<1>1. /\ DeviceTypes /\ CaptureFlags /\ CapturePositions /\ Positions /\ DetectorType
      /\ Flags /\ Count /\ Inside /\ Owned /\ Known
  BY Parts DEF IInv
<1>2. CASE Next
  <2>1. DeviceTypes' /\ CaptureFlags' /\ CapturePositions' /\ Positions' /\ Count'
    BY <1>1, <1>2, NextMoves, PlainKept, CountKept
  <2>2. DetectorType' /\ Flags' /\ Inside'
    BY <1>1, <1>2, NextMoves, DetectorTypeKept, FlagsKept, InsideKept
  <2>3. TypeOK'
    BY <2>1, <2>2, Zenon
    DEF TypeOK, CaptureTypeOK, DeviceTypes, CaptureFlags, CapturePositions, Positions,
        DetectorType, Flags, Count, Inside
  <2>4. Owned' /\ Known'
    BY <1>1, <1>2, NextMoves, OwnedKept, KnownKept
  <2> QED  BY <2>3, <2>4 DEF IInv
<1>3. CASE UNCHANGED vars
  <2>1. UNCHANGED captureVars /\ UNCHANGED flags /\ UNCHANGED <<pc, detector, cb, freed>>
    BY <1>3 DEF vars
  <2>2. DeviceTypes' /\ CaptureFlags' /\ CapturePositions'
    BY <1>1, <2>1 DEF DeviceTypes, CaptureFlags, CapturePositions, captureVars
  <2>3. Positions' /\ DetectorType' /\ Flags' /\ Count'
    BY <1>1, <2>1 DEF Positions, DetectorType, Flags, Count, flags
  <2>4. Inside' /\ Owned' /\ Known'
    BY <1>1, <2>1 DEF Inside, Owned, Known, captureVars
  <2>5. TypeOK'
    BY <2>2, <2>3, <2>4, Zenon
    DEF TypeOK, CaptureTypeOK, DeviceTypes, CaptureFlags, CapturePositions, Positions,
        DetectorType, Flags, Count, Inside
  <2> QED  BY <2>4, <2>5 DEF IInv
<1> QED  BY <1>2, <1>3

\* The invariant is inductive.
THEOREM Invariance == Spec => []IInv
  BY InitIInv, NextIInv, PTL DEF Spec

\* The detector, the capture and the flags the window and the callback share keep their
\* types, and the callback is inside exactly while the capture thread has called it.
THEOREM TypeCorrect == Spec => []TypeOK
  BY Invariance, PTL DEF IInv

\* Only Clear destroys a detector under the callback: when a device has been chosen, the
\* capture thread has been joined.
THEOREM AlwaysOnlyClear == Spec => OnlyClearRaces
<1>1. IInv /\ [Next]_vars => [~freed /\ freed' => pc = "clear"]_vars
  <2> SUFFICES ASSUME IInv, Next, ~freed, freed', pc # "clear" PROVE FALSE
    OBVIOUS
  <2>1. SelectDevice /\ InUse
    BY DEF Next, CaptureThread, CallbackBegin, Add, Analyze, ResetShown, CallbackEnd, User,
       ChooseDevice, StartTraining, StopTraining, Clear, Load, Quit, Window, Start, Started,
       StartFail, Stop, Stopped, SelectDevice, SelectFail, RaiseFlag, ResetCount, AutoStop,
       Lower, Finish, Tell, ClearDetector, ClearFlags, Replace, FinishTraining,
       Crash, Windows
  <2>2. thread = "none" /\ cb # "none"
    BY <2>1 DEF SelectDevice, InUse, IInv, Owned
  <2> QED  BY <2>2 DEF IInv, TypeOK
<1> QED  BY <1>1, Invariance, PTL DEF Spec, OnlyClearRaces
=============================================================================
