------------------------------- MODULE MicTest -------------------------------
(***************************************************************************)
(* The bench application of the microphone (apps/mic_test/main.cpp): its   *)
(* window procedure, its audio callback on the capture thread, and the     *)
(* AudioCapture and the detector (noise_detector.cpp) they share.  Unlike  *)
(* MicMapApp it has no mutex: the detector locks itself, and the flags     *)
(* are atomics, written one after the other.                               *)
(*                                                                         *)
(* A step of the window is what it does up to the next write the callback  *)
(* can see.  A message box or a file dialog is a delay in which the timer  *)
(* goes on and nothing else is clicked: its handler is one step at its end.*)
(***************************************************************************)
EXTENDS AudioCapture

CONSTANTS
  MinSamples,     \* training samples finishTraining needs: 5
  AutoStopCount,  \* MIN_TRAINING_SAMPLES * 3: 150
  NoDetector

Detector == [training : BOOLEAN, samples : 0..MinSamples, has : BOOLEAN]

ASSUME MicTestAssumption ==
  MinSamples \in Nat \ {0} /\ AutoStopCount \in Nat \ {0} /\ NoDetector \notin Detector

VARIABLES
  pc,                   \* where the window's thread is
  detector,             \* g_state.detector
  cb,                   \* where the callback is
  freed,                \* the detector the callback is in has been destroyed
  isTraining,
  trainingSampleCount,  \* saturating at AutoStopCount
  hasProfile,
  shown                 \* isDetected, detectionActive and buttonWouldFire

flags == <<isTraining, trainingSampleCount, hasProfile, shown>>
vars == <<captureVars, pc, detector, cb, freed, flags>>

TypeOK ==
  /\ CaptureTypeOK
  /\ pc \in {"start", "idle", "flag", "count", "lower", "lowerOnly", "finish", "tell", "stop",
             "select", "clear", "clearFlags", "quit", "exit"}
  /\ detector \in Detector \cup {NoDetector}
  /\ cb \in {"none", "level", "adding", "analyzing", "reset", "answer"}
  /\ freed \in BOOLEAN /\ isTraining \in BOOLEAN /\ hasProfile \in BOOLEAN
  /\ trainingSampleCount \in 0..AutoStopCount
  /\ shown \in {"nothing", "detecting", "fires"}
  /\ (cb = "none") = (thread # "callback")

Fresh == [training |-> FALSE, samples |-> 0, has |-> FALSE]

\* WinMain, before it starts the capture: Beyond, or the first device, or none.
Init ==
  /\ CaptureInit
  /\ pc = "start"
  /\ \/ detector = NoDetector
     \/ current # NoDevice /\ detector = Fresh
  /\ cb = "none" /\ freed = FALSE
  /\ isTraining = FALSE /\ trainingSampleCount = 0 /\ hasProfile = FALSE
  /\ shown = "nothing"

Goto(label) == pc' = label

\* What a handler does to the detector of this moment; if the callback is inside one
\* that is replaced, it is inside freed memory.
InUse == cb \in {"adding", "analyzing"}
Replace ==
  \/ detector' = Fresh /\ freed' = (freed \/ InUse)
  \/ UNCHANGED <<detector, freed>>   \* the device reports no sample rate
-----------------------------------------------------------------------------
(* The audio callback *)

CallbackBegin ==
  /\ PacketBegin
  /\ cb' = IF detector = NoDetector THEN "level"
           ELSE IF isTraining THEN "adding"
           ELSE IF detector.has THEN "analyzing" ELSE "reset"
  /\ UNCHANGED <<pc, detector, freed, flags>>

\* addTrainingSample: a sample without energy, or without training, is not kept.
Add ==
  /\ cb = "adding"
  /\ \/ UNCHANGED detector
     \/ /\ detector.training /\ ~freed /\ detector.samples < MinSamples
        /\ detector' = [detector EXCEPT !.samples = @ + 1]
  /\ trainingSampleCount' = IF trainingSampleCount < AutoStopCount
                            THEN trainingSampleCount + 1 ELSE AutoStopCount
  /\ cb' = "answer" /\ freed' = FALSE
  /\ UNCHANGED <<captureVars, pc, isTraining, hasProfile, shown>>

\* A detection fires the button it would press once it has lasted long enough.
Analyze ==
  /\ cb = "analyzing"
  /\ shown' \in {"nothing"} \cup (IF shown = "nothing" THEN {"detecting"} ELSE {shown, "fires"})
  /\ cb' = "answer" /\ freed' = FALSE
  /\ UNCHANGED <<captureVars, pc, detector, isTraining, trainingSampleCount, hasProfile>>

\* Mutant of ResetShown: without a profile nothing is analysed and nothing reset.
ResetNothing ==
  /\ cb = "reset"
  /\ cb' = "answer"
  /\ UNCHANGED <<captureVars, pc, detector, freed, flags>>
ResetShown ==
  /\ cb = "reset"
  /\ shown' = "nothing"
  /\ cb' = "answer"
  /\ UNCHANGED <<captureVars, pc, detector, freed, isTraining, trainingSampleCount, hasProfile>>

CallbackEnd ==
  /\ cb \in {"level", "answer"}
  /\ PacketEnd
  /\ hasProfile' = IF cb = "answer" THEN detector.has ELSE hasProfile
  /\ cb' = "none"
  /\ UNCHANGED <<pc, detector, freed, isTraining, trainingSampleCount, shown>>

\* The other outcome of a call into freed memory.
Crash ==
  /\ freed /\ pc # "exit"
  /\ Goto("exit")
  /\ UNCHANGED <<captureVars, detector, cb, freed, flags>>
-----------------------------------------------------------------------------
(* The window: capture and devices *)

\* startCapture, here and after a device was chosen, may fail at any of its calls;
\* either way the window goes on.
Start ==
  /\ pc = "start" /\ StartStream
  /\ UNCHANGED <<pc, detector, cb, freed, flags>>

Started ==
  /\ StartThread
  /\ Goto("idle")
  /\ UNCHANGED <<detector, cb, freed, flags>>

StartFail ==
  /\ pc = "start" /\ call = "none"
  /\ Goto("idle")
  /\ UNCHANGED <<captureVars, detector, cb, freed, flags>>

\* OnDeviceSelected.
ChooseDevice ==
  /\ pc = "idle"
  /\ Goto("stop")
  /\ UNCHANGED <<captureVars, detector, cb, freed, flags>>

Stop ==
  /\ pc \in {"stop", "quit"} /\ StopBegin
  /\ UNCHANGED <<pc, detector, cb, freed, flags>>

Stopped ==
  /\ pc \in {"stop", "quit"} /\ ~capturing
  /\ IF call = "join" THEN StopEnd ELSE UNCHANGED captureVars
  /\ Goto(IF pc = "stop" THEN "select" ELSE "exit")
  /\ UNCHANGED <<detector, cb, freed, flags>>

SelectDevice ==
  /\ pc = "select"
  /\ \E d \in Devices : Select(d)
  /\ Replace
  /\ hasProfile' = IF detector' = Fresh THEN FALSE ELSE hasProfile
  /\ Goto("start")
  /\ UNCHANGED <<cb, isTraining, trainingSampleCount, shown>>

SelectFail ==
  /\ pc = "select"
  /\ Goto("idle")
  /\ UNCHANGED <<captureVars, detector, cb, freed, flags>>

Quit ==
  /\ pc = "idle"
  /\ Goto("quit")
  /\ UNCHANGED <<captureVars, detector, cb, freed, flags>>
-----------------------------------------------------------------------------
(* The window: training *)

\* OnTrainClicked, when the user has agreed.
StartTraining ==
  /\ pc = "idle" /\ detector # NoDetector /\ ~isTraining
  /\ detector' = [detector EXCEPT !.training = TRUE, !.samples = 0]
  /\ Goto("flag")
  /\ UNCHANGED <<captureVars, cb, freed, flags>>

RaiseFlag ==
  /\ pc = "flag"
  /\ isTraining' = TRUE
  /\ Goto("count")
  /\ UNCHANGED <<captureVars, detector, cb, freed, trainingSampleCount, hasProfile, shown>>

ResetCount ==
  /\ pc = "count"
  /\ trainingSampleCount' = 0
  /\ Goto("idle")
  /\ UNCHANGED <<captureVars, detector, cb, freed, isTraining, hasProfile, shown>>

\* finishTraining of the detector; the profile of an earlier session stays when there
\* are not enough samples.
Success == detector.training /\ detector.samples = MinSamples
FinishTraining ==
  /\ detector' = [training |-> FALSE, samples |-> 0, has |-> detector.has \/ Success]
  /\ UNCHANGED freed

\* Mutant of AutoStop: the samples kept are awaited, not the buffers heard.
AutoStopOnSamples ==
  /\ pc = "idle" /\ isTraining /\ detector # NoDetector /\ detector.samples = MinSamples
  /\ FinishTraining
  /\ Goto(IF Success THEN "lower" ELSE "lowerOnly")
  /\ UNCHANGED <<captureVars, cb, flags>>
\* WM_TIMER: enough buffers were heard.
AutoStop ==
  /\ pc = "idle" /\ isTraining /\ detector # NoDetector /\ trainingSampleCount = AutoStopCount
  /\ FinishTraining
  /\ Goto(IF Success THEN "lower" ELSE "lowerOnly")
  /\ UNCHANGED <<captureVars, cb, flags>>

Lower ==
  /\ pc \in {"lower", "lowerOnly"}
  /\ isTraining' = FALSE
  /\ Goto(IF pc = "lower" THEN "tell" ELSE "idle")
  /\ UNCHANGED <<captureVars, detector, cb, freed, trainingSampleCount, hasProfile, shown>>

\* OnTrainClicked while training: the flag first, then the detector.
StopTraining ==
  /\ pc = "idle" /\ detector # NoDetector /\ isTraining
  /\ isTraining' = FALSE
  /\ Goto("finish")
  /\ UNCHANGED <<captureVars, detector, cb, freed, trainingSampleCount, hasProfile, shown>>

Finish ==
  /\ pc = "finish"
  /\ FinishTraining
  /\ Goto(IF Success THEN "tell" ELSE "idle")
  /\ UNCHANGED <<captureVars, cb, flags>>

\* After a success, and only then, the profile is announced.
Tell ==
  /\ pc = "tell"
  /\ hasProfile' = TRUE
  /\ Goto("idle")
  /\ UNCHANGED <<captureVars, detector, cb, freed, isTraining, trainingSampleCount, shown>>

\* OnClearClicked: the detector is replaced while the capture goes on.
Clear ==
  /\ pc = "idle" /\ detector # NoDetector
  /\ isTraining' = FALSE
  /\ Goto("clear")
  /\ UNCHANGED <<captureVars, detector, cb, freed, trainingSampleCount, hasProfile, shown>>

ClearDetector ==
  /\ pc = "clear"
  /\ Replace
  /\ Goto("clearFlags")
  /\ UNCHANGED <<captureVars, cb, flags>>

ClearFlags ==
  /\ pc = "clearFlags"
  /\ hasProfile' = FALSE /\ trainingSampleCount' = 0
  /\ Goto("idle")
  /\ UNCHANGED <<captureVars, detector, cb, freed, isTraining, shown>>

\* OnLoadClicked: the file may be refused.  (OnSaveClicked changes nothing here.)
Load ==
  /\ pc = "idle" /\ detector # NoDetector
  /\ \/ detector' = [detector EXCEPT !.has = TRUE] /\ hasProfile' = TRUE
     \/ UNCHANGED <<detector, hasProfile>>
  /\ UNCHANGED <<captureVars, pc, cb, freed, isTraining, trainingSampleCount, shown>>
-----------------------------------------------------------------------------
CaptureThread ==
  \/ CallbackBegin \/ Add \/ Analyze \/ ResetShown \/ CallbackEnd
  \/ (WaitEnds \/ Drained \/ Invalidated) /\ UNCHANGED <<pc, detector, cb, freed, flags>>

User == ChooseDevice \/ StartTraining \/ StopTraining \/ Clear \/ Load \/ Quit

Window ==
  \/ Start \/ Started \/ StartFail \/ Stop \/ Stopped \/ SelectDevice \/ SelectFail
  \/ RaiseFlag \/ ResetCount
  \/ AutoStop \/ Lower \/ Finish \/ Tell
  \/ ClearDetector \/ ClearFlags

Windows ==
  /\ \E d \in Devices : Unplug(d) \/ Plug(d) \/ OnDeviceStateChanged(d)
  /\ UNCHANGED <<pc, detector, cb, freed, flags>>

\* After WinMain has returned there is nothing left.
Next == pc # "exit" /\ (CaptureThread \/ User \/ Window \/ Crash \/ Windows)

Spec == Init /\ [][Next]_vars

\* The threads run, Windows tells of a device that has gone, a live device goes on
\* delivering packets and each is handled before the next comes.
Runs(A) == pc # "exit" /\ A
Idle(A) == Runs(A) /\ UNCHANGED <<pc, detector, cb, freed, flags>>
CaptureSteps == Idle(WaitEnds) \/ Runs(Add \/ Analyze \/ ResetShown \/ CallbackEnd)
Fairness ==
  /\ WF_vars(Runs(Window))
  /\ WF_vars(CaptureSteps) /\ SF_vars(Idle(Drained)) /\ SF_vars(Runs(CallbackBegin))
  /\ WF_vars(\E d \in Devices : Idle(OnDeviceStateChanged(d)))
FairSpec == Spec /\ Fairness
-----------------------------------------------------------------------------
(* Properties *)

\* A detector is never destroyed under the callback but by Clear, which does not stop
\* the capture first: choosing a device does, and waits for the thread.
OnlyClearRaces == [][~freed /\ freed' => pc = "clear"]_vars

Hears == isCapturing /\ stream = "live" /\ pc # "exit"

\* A training session ends while buffers come, whatever becomes of its detector in
\* the meantime: the buffers are counted, not the samples.
TrainingEnds == (isTraining /\ Hears) ~> (~isTraining \/ ~Hears)

\* What the window shows follows the detector: while buffers come, again and again
\* the profile it announces is one there is, and no detection outlives its profile.
DisplayFollows ==
  []<>(Hears /\ detector # NoDetector =>
         hasProfile = detector.has /\ (shown # "nothing" => detector.has \/ isTraining))

\* The thread that captures from a dead device ends when Windows tells of the loss, and
\* when the user chooses a device or quits: no join waits for packets that never come.
\* A loss that was told while the capture was still being started, or that leaves the
\* device not present, ends nothing: until the user does one of the two.
DeadCaptureEnds ==
  (/\ stream = "dead"
   /\ \/ isCapturing /\ <<current, "unplugged">> \in notices
      \/ pc \in {"stop", "quit"})
    ~> (thread \in {"none", "ended"} \/ pc = "exit")
=============================================================================
