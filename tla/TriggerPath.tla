----------------------------- MODULE TriggerPath -----------------------------
(***************************************************************************)
(* From a microphone buffer to a tap: the audio callback of MicMapApp      *)
(* (apps/micmap/main.cpp), which feeds NoiseDetector and StateMachine on   *)
(* the WASAPI capture thread, and renderUI, which trains, clears and       *)
(* replaces the detector on the main thread.                               *)
(*                                                                         *)
(* The callback holds audioMutex throughout and is one action.  renderUI   *)
(* takes the mutex around each detector call only, so what it does before  *)
(* and after such a call is an action of its own, with `ui' for where it   *)
(* is.  A buffer that meets neither training nor a profile changes only    *)
(* what the window shows, and is left out with the rest of the display.    *)
(***************************************************************************)
EXTENDS NoiseDetector, StateMachine

CONSTANT AutoStopCount   \* MIN_TRAINING_SAMPLES * 3

ASSUME TriggerPathAssumption == AutoStopCount \in Nat

VARIABLES
  isTraining,           \* isTraining
  trainingSampleCount,  \* trainingSampleCount, saturating at AutoStopCount
  sinceUpdate,          \* now - lastUpdate in ticks, saturating at MaxSinceUpdate
  capturing,            \* WASAPI delivers buffers to the callback
  ui,                   \* where the main thread is
  sinceTap              \* history: ticks since the last tap, saturating at MinGap

appVars == <<isTraining, trainingSampleCount, sinceUpdate, capturing, ui, sinceTap>>
vars == <<detectorVars, machineVars, appVars>>

MaxSinceUpdate == MaxTimeInState * TicksPerMs
MinGap == CooldownDuration * TicksPerMs

TypeOK ==
  /\ DetectorTypeOK
  /\ MachineTypeOK
  /\ isTraining \in BOOLEAN
  /\ trainingSampleCount \in 0..AutoStopCount
  /\ sinceUpdate \in 0..MaxSinceUpdate
  /\ capturing \in BOOLEAN
  /\ ui \in {"launching", "idle", "hidden", "started", "counting", "finished", "switching"}
  /\ sinceTap \in 0..MinGap

\* initialize, with a microphone that reports a sample rate, up to startCapture.
\* lastUpdate is still the clock's epoch.
Init ==
  /\ DetectorInit
  /\ MachineInit
  /\ isTraining = FALSE
  /\ trainingSampleCount = 0
  /\ sinceUpdate = MaxSinceUpdate
  /\ capturing \in BOOLEAN
  /\ ui = "launching"
  /\ sinceTap = MinGap

Tick ==
  /\ DetectorTick
  /\ sinceUpdate' = Saturate(sinceUpdate + 1, MaxSinceUpdate)
  /\ sinceTap' = Saturate(sinceTap + 1, MinGap)
  /\ UNCHANGED <<machineVars, isTraining, trainingSampleCount, capturing, ui>>
-----------------------------------------------------------------------------
(* The audio callback *)

TrainBuffer ==
  /\ capturing
  /\ isTraining
  /\ \E accepted \in BOOLEAN : addTrainingSample(accepted)
  /\ trainingSampleCount' = Saturate(trainingSampleCount + 1, AutoStopCount)
  /\ UNCHANGED <<machineVars, isTraining, sinceUpdate, capturing, ui, sinceTap>>

\* Mutant of Delta: the operands of the subtraction are swapped.
DeltaSwapped == -Milliseconds(sinceUpdate)

Delta == Milliseconds(sinceUpdate)

DetectBuffer ==
  /\ capturing
  /\ ~isTraining
  /\ hasTrainingData
  /\ \E spike, high \in BOOLEAN : analyze(spike, high)
  /\ update(IsWhiteNoise', Delta)
  /\ sinceUpdate' = 0
  /\ sinceTap' = IF Fires THEN 0 ELSE sinceTap
  /\ UNCHANGED <<isTraining, trainingSampleCount, capturing, ui>>

AudioBuffer == TrainBuffer \/ DetectBuffer
-----------------------------------------------------------------------------
(* The main thread *)

\* initialize stamps lastUpdate, without the mutex, after capture has begun.
InitializeReturns ==
  /\ ui = "launching"
  /\ ui' \in {"idle", "hidden"}
  /\ sinceUpdate' = 0
  /\ UNCHANGED <<detectorVars, machineVars, isTraining, trainingSampleCount, capturing, sinceTap>>

\* renderUI runs only while the window is not minimised to the tray.
MinimizeOrRestore ==
  /\ \/ ui = "idle" /\ ui' = "hidden"
     \/ ui = "hidden" /\ ui' = "idle"
  /\ UNCHANGED <<detectorVars, machineVars, isTraining, trainingSampleCount, sinceUpdate,
                 capturing, sinceTap>>

\* "Train Pattern": three steps, the detector first.
Train ==
  /\ ui = "idle"
  /\ ~isTraining
  /\ startTraining
  /\ ui' = "started"
  /\ UNCHANGED <<machineVars, isTraining, trainingSampleCount, sinceUpdate, capturing, sinceTap>>

TrainingShown ==
  /\ ui = "started"
  /\ isTraining' = TRUE
  /\ ui' = "counting"
  /\ UNCHANGED <<detectorVars, machineVars, trainingSampleCount, sinceUpdate, capturing, sinceTap>>

CountReset ==
  /\ ui = "counting"
  /\ trainingSampleCount' = 0
  /\ ui' = "idle"
  /\ UNCHANGED <<detectorVars, machineVars, isTraining, sinceUpdate, capturing, sinceTap>>

Finish ==
  /\ ui = "idle"
  /\ isTraining
  /\ finishTraining
  /\ ui' = "finished"
  /\ UNCHANGED <<machineVars, isTraining, trainingSampleCount, sinceUpdate, capturing, sinceTap>>

\* Mutant of AutoStop: it asks the detector whether it trains.
AutoStopOfDetector == training /\ trainingSampleCount >= AutoStopCount /\ Finish

AutoStop == trainingSampleCount >= AutoStopCount /\ Finish
StopTraining == Finish

TrainingOver ==
  /\ ui = "finished"
  /\ isTraining' = FALSE
  /\ ui' = "idle"
  /\ UNCHANGED <<detectorVars, machineVars, trainingSampleCount, sinceUpdate, capturing, sinceTap>>

\* "Clear": a device that reports no sample rate keeps its detector.
Clear ==
  /\ ui = "idle"
  /\ ~isTraining
  /\ createFFTDetector(FALSE) \/ UNCHANGED detectorVars
  /\ trainingSampleCount' = 0
  /\ UNCHANGED <<machineVars, isTraining, sinceUpdate, capturing, ui, sinceTap>>

\* Another device: stopCapture joins the capture thread.
SwitchDevice ==
  /\ ui = "idle"
  /\ capturing' = FALSE
  /\ ui' = "switching"
  /\ UNCHANGED <<detectorVars, machineVars, isTraining, trainingSampleCount, sinceUpdate, sinceTap>>

\* The profile is read back if it can be; startCapture may fail unnoticed.
DeviceReady ==
  /\ ui = "switching"
  /\ \E loaded \in BOOLEAN : createFFTDetector(loaded)
  /\ capturing' \in BOOLEAN
  /\ ui' = "idle"
  /\ UNCHANGED <<machineVars, isTraining, trainingSampleCount, sinceUpdate, sinceTap>>

\* A device that reports no sample rate is not captured.
DeviceUnknown ==
  /\ ui = "switching"
  /\ ui' = "idle"
  /\ UNCHANGED <<detectorVars, machineVars, isTraining, trainingSampleCount, sinceUpdate,
                 capturing, sinceTap>>

SetDetectionTime ==
  /\ ui = "idle"
  /\ \E duration \in DetectionTimes : setMinDetectionDuration(duration)
  /\ UNCHANGED <<machineVars, appVars>>

\* What the main thread does without waiting for the user.
Continue ==
  \/ InitializeReturns
  \/ TrainingShown
  \/ CountReset
  \/ TrainingOver
  \/ DeviceReady
  \/ DeviceUnknown
-----------------------------------------------------------------------------
Next ==
  \/ Tick
  \/ TrainBuffer
  \/ DetectBuffer
  \/ MinimizeOrRestore
  \/ Train
  \/ AutoStop
  \/ StopTraining
  \/ Clear
  \/ SwitchDevice
  \/ SetDetectionTime
  \/ Continue

Spec == Init /\ [][Next]_vars

\* A frame of the window runs to its end, every frame makes the auto-stop check, and
\* a device that is captured delivers buffers, silent ones if it must.
FairSpec == Spec /\ WF_vars(Continue) /\ SF_vars(AutoStop) /\ WF_vars(TrainBuffer)
-----------------------------------------------------------------------------
(* Properties *)

\* state_machine.cpp:145 "blocks next tap until duration elapses": two taps are a
\* whole cooldown of real time apart, whatever is lost to truncated deltas and
\* however training, clearing and switching devices interrupt the updates.
TapsSpaced == [][Fires => sinceTap >= MinGap]_vars

\* While every buffer confirms the cover, and buffers a millisecond or more apart
\* keep coming, the machine never gets stuck: taps keep firing.
CoverConfirmed == <>[][AudioBuffer => DetectBuffer /\ IsWhiteNoise']_vars
BuffersSpaced == []<><<DetectBuffer /\ sinceUpdate >= TicksPerMs>>_vars
CoverTaps == CoverConfirmed /\ BuffersSpaced => []<><<Fires>>_vars

\* A training session ends by itself, even when the detector rejects every sample or
\* has been replaced under it, as long as a device is captured and the window is shown.
CaptureGoesOn == <>[]capturing
WindowShown == []<>(ui # "hidden")
TrainingEnds == CaptureGoesOn /\ WindowShown => (isTraining ~> ~isTraining)
=============================================================================
