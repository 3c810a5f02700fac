-------------------------- MODULE TriggerPath_proofs --------------------------
(***************************************************************************)
(* What TriggerPath guarantees for every clock, window, cooldown and set   *)
(* of detection times.                                                     *)
(*                                                                         *)
(* Taps are spaced because the cooldown never counts more time than has    *)
(* passed: timeInState plus the time not yet handed to update is at most   *)
(* the time since the tap.  Truncation only loses time, an interrupted     *)
(* stream of updates only hands it over late.                              *)
(*                                                                         *)
(* The last section is about the two promises that the runs of             *)
(* MCOneTapPerEdge and MCContinuousDetection refute: on which behaviours   *)
(* they do hold.                                                           *)
(***************************************************************************)
EXTENDS MCOneTapPerEdge, MCContinuousDetection, FiniteSetTheorems, TLAPS

CooldownCounted ==
  /\ currentState \in {"Idle", "Detecting"} => sinceTap = MinGap
  /\ currentState = "Cooldown" =>
       \/ sinceTap = MinGap
       \/ timeInState * TicksPerMs + sinceUpdate <= sinceTap

IInv ==
  /\ TypeOK
  /\ DetectionNeedsSpike
  /\ CooldownCounted
-----------------------------------------------------------------------------
(* Arithmetic *)

\* Truncating ticks to milliseconds never gains time.
LEMMA Truncation ==
  ASSUME NEW ticks \in Nat
  PROVE  Milliseconds(ticks) \in Nat /\ Milliseconds(ticks) * TicksPerMs <= ticks
  BY ClockAssumption, SMT DEF Milliseconds

LEMMA Saturation ==
  ASSUME NEW n \in Nat, NEW cap \in Nat
  PROVE  /\ Saturate(n, cap) \in 0..cap
         /\ Saturate(n, cap) <= n
         /\ Saturate(n, cap) = n \/ (Saturate(n, cap) = cap /\ cap <= n)
  BY DEF Saturate

LEMMA InTicks ==
  ASSUME NEW a \in Nat, NEW b \in Nat
  PROVE  /\ a * TicksPerMs \in Nat
         /\ (a + b) * TicksPerMs = a * TicksPerMs + b * TicksPerMs
         /\ a <= b => a * TicksPerMs <= b * TicksPerMs
  <1>1. TicksPerMs \in Nat
    BY ClockAssumption
  <1>2. a * TicksPerMs \in Nat
    BY <1>1, SMT
  <1>3. (a + b) * TicksPerMs = a * TicksPerMs + b * TicksPerMs
    BY <1>1, SMT
  <1>4. a <= b => a * TicksPerMs <= b * TicksPerMs
    BY <1>1, SMT
  <1> QED
    BY <1>2, <1>3, <1>4

\* The bounds of the saturating clocks are natural numbers.
LEMMA Caps ==
  /\ MaxTimeInState \in Nat
  /\ CooldownDuration <= MaxTimeInState
  /\ MaxSinceUpdate \in Nat
  /\ MinGap \in Nat
  /\ MaxSpikeAge \in Nat
  <1>1. MaxTimeInState \in Nat /\ CooldownDuration \in Nat /\ CooldownDuration <= MaxTimeInState
    BY StateMachineAssumption DEF MaxTimeInState
  <1>2. MaxSinceUpdate \in Nat /\ MinGap \in Nat
    BY <1>1, InTicks DEF MaxSinceUpdate, MinGap
  <1>3. MaxSpikeAge \in Nat
    BY NoiseDetectorAssumption DEF MaxSpikeAge
  <1> QED
    BY <1>1, <1>2, <1>3
-----------------------------------------------------------------------------
(* The components *)

\* One update of the state machine with a delta of at most `sinceUpdate'.
LEMMA UpdateTypes ==
  ASSUME MachineTypeOK, NEW detected \in BOOLEAN, NEW delta \in Nat,
         update(detected, delta)
  PROVE  MachineTypeOK'
  <1> DEFINE elapsed == Saturate(timeInState + delta, MaxTimeInState)
  <1>1. timeInState + delta \in Nat /\ 0 \in 0..MaxTimeInState
    BY Caps DEF MachineTypeOK
  <1>2. elapsed \in 0..MaxTimeInState
    BY <1>1, Caps, Saturation
  <1> HIDE DEF elapsed
  <1>3. CASE updateIdle(detected, elapsed)
    BY <1>1, <1>2, <1>3 DEF MachineTypeOK, State, updateIdle, transitionTo, remain
  <1>4. CASE updateDetecting(detected, elapsed)
    BY <1>1, <1>2, <1>4 DEF MachineTypeOK, State, updateDetecting, transitionTo, remain
  <1>5. CASE updateTriggered(elapsed)
    BY <1>1, <1>2, <1>5 DEF MachineTypeOK, State, updateTriggered, transitionTo
  <1>6. CASE updateCooldown(elapsed)
    BY <1>1, <1>2, <1>6 DEF MachineTypeOK, State, updateCooldown, transitionTo, remain
  <1> QED
    BY <1>3, <1>4, <1>5, <1>6 DEF update, elapsed

LEMMA SlideType ==
  ASSUME history \in [1..Window -> BOOLEAN], NEW high \in BOOLEAN
  PROVE  Slide(high) \in [1..Window -> BOOLEAN]
  BY NoiseDetectorAssumption DEF Slide

\* Hearing a buffer keeps the spike at an age it can have.
LEMMA ArmedType ==
  ASSUME spikeAge \in {Never} \cup 0..MaxSpikeAge, NEW spike \in BOOLEAN
  PROVE  /\ Armed(spike) \in {Never} \cup 0..MaxSpikeAge
         /\ Remembered(Armed(spike)) \in {Never} \cup 0..MaxSpikeAge
  BY Caps DEF Armed, Remembered, Never

LEMMA AnalyzeTypes ==
  ASSUME DetectorTypeOK, NEW spike \in BOOLEAN, NEW high \in BOOLEAN, analyze(spike, high)
  PROVE  DetectorTypeOK' /\ IsWhiteNoise' \in BOOLEAN
  <1>1. history' \in [1..Window -> BOOLEAN]
    BY SlideType DEF DetectorTypeOK, analyze
  <1>2. spikeAge' \in {Never} \cup 0..MaxSpikeAge
    BY ArmedType DEF DetectorTypeOK, analyze
  <1>3. detectingFor' \in {Never} \cup 0..MaxDetectionTime
    <2>1. detectingFor' \in {Never, detectingFor, 0}
      BY DEF analyze, updateTemporalState
    <2> QED
      BY <2>1, NoiseDetectorAssumption DEF DetectorTypeOK
  <1>4. UNCHANGED <<training, samples, hasTrainingData, minDetectionDuration>>
    BY DEF analyze, trainingVars
  <1> QED
    BY <1>1, <1>2, <1>3, <1>4 DEF DetectorTypeOK, IsWhiteNoise

LEMMA AnalyzeNeedsSpike ==
  ASSUME DetectorTypeOK, DetectionNeedsSpike,
         NEW spike \in BOOLEAN, NEW high \in BOOLEAN, analyze(spike, high)
  PROVE  DetectionNeedsSpike'
  <1>1. CASE ~Instant(spike, high)
    BY <1>1 DEF analyze, updateTemporalState, DetectionNeedsSpike
  <1>2. CASE Instant(spike, high) /\ detectingFor # Never
    <2>1. spikeAge # Never
      BY <1>2 DEF DetectionNeedsSpike
    <2>2. detectingFor' = detectingFor /\ spikeAge' = spikeAge
      BY <1>2, <2>1 DEF analyze, updateTemporalState, Remembered, Armed
    <2> QED
      BY <2>2 DEF DetectionNeedsSpike
  <1>3. CASE Instant(spike, high) /\ detectingFor = Never
    <2>1. SpikeValid(Armed(spike))
      BY <1>3 DEF Instant
    <2>2. detectingFor' = 0 /\ spikeAge' = Armed(spike)
      BY <1>3, <2>1 DEF analyze, updateTemporalState, Remembered
    <2>3. Armed(spike) \in Nat /\ Armed(spike) < SpikeTicks
      BY <2>1, ArmedType, Caps DEF SpikeValid, DetectorTypeOK, Never
    <2> QED
      BY <2>2, <2>3, NoiseDetectorAssumption DEF DetectionNeedsSpike, Never
  <1> QED
    BY <1>1, <1>2, <1>3

LEMMA TickTypes ==
  ASSUME DetectorTypeOK, DetectionNeedsSpike, DetectorTick
  PROVE  DetectorTypeOK' /\ DetectionNeedsSpike'
  <1>1. spikeAge' \in {Never} \cup 0..MaxSpikeAge
    BY Caps, Saturation DEF DetectorTypeOK, DetectorTick, Never
  <1>2. detectingFor' \in {Never} \cup 0..MaxDetectionTime
    BY NoiseDetectorAssumption, Saturation DEF DetectorTypeOK, DetectorTick, Never
  <1>3. DetectorTypeOK'
    BY <1>1, <1>2 DEF DetectorTypeOK, DetectorTick, trainingVars
  <1>4. DetectionNeedsSpike'
    BY NoiseDetectorAssumption
       DEF DetectorTypeOK, DetectionNeedsSpike, DetectorTick, Saturate, MaxSpikeAge, Never
  <1> QED
    BY <1>3, <1>4
-----------------------------------------------------------------------------
(* Type correctness *)

LEMMA InitIInv == Init => IInv
  <1> SUFFICES ASSUME Init PROVE IInv
    OBVIOUS
  <1> USE DEF Init, DetectorInit, MachineInit
  <1>1. DetectorTypeOK
    <2>1. history \in [1..Window -> BOOLEAN]
      BY DEF NoAnswers
    <2>2. training \in BOOLEAN /\ hasTrainingData \in BOOLEAN
      OBVIOUS
    <2>3. samples \in 0..MinSamples /\ minDetectionDuration \in DetectionTimes
      BY NoiseDetectorAssumption
    <2> QED
      BY <2>1, <2>2, <2>3 DEF DetectorTypeOK
  <1>2. MachineTypeOK
    BY Caps DEF MachineTypeOK, State
  <1>3. TypeOK
    <2>1. isTraining \in BOOLEAN /\ capturing \in BOOLEAN
      OBVIOUS
    <2>2. /\ trainingSampleCount \in 0..AutoStopCount
          /\ sinceUpdate \in 0..MaxSinceUpdate
          /\ sinceTap \in 0..MinGap
      BY Caps, TriggerPathAssumption
    <2> QED
      BY <1>1, <1>2, <2>1, <2>2 DEF TypeOK
  <1>4. DetectionNeedsSpike /\ CooldownCounted
    BY DEF DetectionNeedsSpike, CooldownCounted
  <1> QED
    BY <1>3, <1>4 DEF IInv

\* The main thread's calls keep the detector well typed and leave a running
\* detection with the spike that armed it, or end it.
LEMMA CallTypes ==
  ASSUME DetectorTypeOK, DetectionNeedsSpike,
         \/ startTraining
         \/ \E accepted \in BOOLEAN : addTrainingSample(accepted)
         \/ finishTraining
         \/ \E duration \in DetectionTimes : setMinDetectionDuration(duration)
         \/ \E loaded \in BOOLEAN : createFFTDetector(loaded)
         \/ UNCHANGED detectorVars
  PROVE  DetectorTypeOK' /\ DetectionNeedsSpike'
  <1> USE DEF detectionVars, trainingVars
  <1>1. CASE startTraining
    BY <1>1, NoiseDetectorAssumption DEF DetectorTypeOK, DetectionNeedsSpike, startTraining
  <1>2. CASE \E accepted \in BOOLEAN : addTrainingSample(accepted)
    <2>1. samples' \in 0..MinSamples
      BY <1>2, NoiseDetectorAssumption, Saturation DEF DetectorTypeOK, addTrainingSample
    <2> QED
      BY <1>2, <2>1 DEF DetectorTypeOK, DetectionNeedsSpike, addTrainingSample
  <1>3. CASE finishTraining
    <2>1. samples' \in 0..MinSamples
      BY <1>3, NoiseDetectorAssumption DEF DetectorTypeOK, finishTraining
    <2>2. hasTrainingData' \in BOOLEAN
      BY <1>3 DEF DetectorTypeOK, finishTraining
    <2> QED
      BY <1>3, <2>1, <2>2 DEF DetectorTypeOK, DetectionNeedsSpike, finishTraining
  <1>4. CASE \E duration \in DetectionTimes : setMinDetectionDuration(duration)
    BY <1>4 DEF DetectorTypeOK, DetectionNeedsSpike, setMinDetectionDuration
  <1>5. CASE \E loaded \in BOOLEAN : createFFTDetector(loaded)
    <2>1. history' \in [1..Window -> BOOLEAN]
      BY <1>5 DEF createFFTDetector, NoAnswers
    <2>2. samples' \in 0..MinSamples
      BY <1>5, NoiseDetectorAssumption DEF createFFTDetector
    <2> QED
      BY <1>5, <2>1, <2>2 DEF DetectorTypeOK, DetectionNeedsSpike, createFFTDetector
  <1>6. CASE UNCHANGED detectorVars
    BY <1>6 DEF DetectorTypeOK, DetectionNeedsSpike, detectorVars
  <1> QED
    BY <1>1, <1>2, <1>3, <1>4, <1>5, <1>6

\* A step of the main thread, which leaves the machine and the time since the last
\* tap alone and can only shorten the time since the last update.
LEMMA MainThreadStep ==
  ASSUME IInv,
         \/ MinimizeOrRestore \/ Train \/ AutoStop \/ StopTraining \/ Clear
         \/ SwitchDevice \/ SetDetectionTime \/ Continue
  PROVE  IInv'
  <1> USE DEF IInv
  <1>1. DetectorTypeOK' /\ DetectionNeedsSpike'
    BY CallTypes DEF TypeOK, MinimizeOrRestore, Train, AutoStop, StopTraining, Finish, Clear,
       SwitchDevice, SetDetectionTime, Continue, InitializeReturns, TrainingShown,
       CountReset, TrainingOver, DeviceReady, DeviceUnknown
  <1>2. UNCHANGED <<machineVars, sinceTap>> /\ sinceUpdate' \in {sinceUpdate, 0}
    BY DEF MinimizeOrRestore, Train, AutoStop, StopTraining, Finish, Clear,
       SwitchDevice, SetDetectionTime, Continue, InitializeReturns, TrainingShown,
       CountReset, TrainingOver, DeviceReady, DeviceUnknown, appVars
  <1>3. /\ isTraining' \in BOOLEAN
        /\ capturing' \in BOOLEAN
        /\ trainingSampleCount' \in 0..AutoStopCount
        /\ ui' \in {"launching", "idle", "hidden", "started", "counting", "finished", "switching"}
    <2> USE DEF MinimizeOrRestore, Train, AutoStop, StopTraining, Finish, Clear,
       SwitchDevice, SetDetectionTime, Continue, InitializeReturns, TrainingShown,
       CountReset, TrainingOver, DeviceReady, DeviceUnknown, appVars
    <2>1. trainingSampleCount' \in {trainingSampleCount, 0}
      OBVIOUS
    <2>2. trainingSampleCount' \in 0..AutoStopCount
      BY <2>1, TriggerPathAssumption DEF TypeOK
    <2>3. isTraining' \in BOOLEAN
      BY DEF TypeOK
    <2>4. capturing' \in BOOLEAN
      BY DEF TypeOK
    <2>5. ui' \in {"launching", "idle", "hidden", "started", "counting", "finished", "switching"}
      BY DEF TypeOK
    <2> QED
      BY <2>2, <2>3, <2>4, <2>5
  <1>4. MachineTypeOK' /\ sinceTap' \in 0..MinGap /\ sinceUpdate' \in 0..MaxSinceUpdate
    BY <1>2, Caps DEF TypeOK, MachineTypeOK, machineVars
  <1>5. CooldownCounted'
    <2>1. timeInState * TicksPerMs \in Nat
      BY InTicks, Caps, timeInState \in Nat DEF TypeOK, MachineTypeOK
    <2>2. timeInState' * TicksPerMs = timeInState * TicksPerMs
      BY <1>2 DEF machineVars
    <2> QED
      BY <1>2, <2>1, <2>2, Caps DEF CooldownCounted, TypeOK, machineVars
  <1> QED
    BY <1>1, <1>3, <1>4, <1>5 DEF TypeOK

\* Time passes: the clocks of the tap and of the update go on together.
LEMMA TickStep ==
  ASSUME IInv, Tick
  PROVE  IInv'
  <1> USE DEF IInv
  <1>1. DetectorTypeOK' /\ DetectionNeedsSpike'
    BY TickTypes DEF TypeOK, Tick
  <1>2. sinceUpdate' \in 0..MaxSinceUpdate /\ sinceTap' \in 0..MinGap
    BY Caps, Saturation DEF TypeOK, Tick
  <1>3. TypeOK'
    BY <1>1, <1>2 DEF TypeOK, MachineTypeOK, Tick, machineVars
  <1>4. sinceUpdate' <= sinceUpdate + 1
    BY Caps, Saturation DEF TypeOK, Tick
  <1>5. sinceTap' = MinGap \/ sinceTap' = sinceTap + 1
    BY Caps, Saturation DEF TypeOK, Tick
  <1>6. sinceTap = MinGap => sinceTap' = MinGap
    BY Caps DEF TypeOK, Tick, Saturate
  <1>7. CooldownCounted'
    <2>1. timeInState * TicksPerMs \in Nat
      BY InTicks, Caps, timeInState \in Nat DEF TypeOK, MachineTypeOK
    <2>2. currentState' = currentState /\ timeInState' * TicksPerMs = timeInState * TicksPerMs
      BY DEF Tick, machineVars
    <2> QED
      BY <1>2, <1>4, <1>5, <1>6, <2>1, <2>2, Caps DEF CooldownCounted, TypeOK
  <1> QED
    BY <1>1, <1>3, <1>7

\* An update that leaves a cooldown, or stays in it, counts no more than passed.
LEMMA CooldownSpent ==
  ASSUME TypeOK, CooldownCounted, currentState = "Cooldown",
         NEW elapsed \in Nat, elapsed <= timeInState + Delta
  PROVE  /\ sinceTap = MinGap \/ elapsed * TicksPerMs <= sinceTap
         /\ elapsed >= CooldownDuration => sinceTap = MinGap
  <1>1. /\ timeInState \in Nat
        /\ sinceUpdate \in Nat
        /\ sinceTap \in Nat
        /\ sinceTap <= MinGap
    BY Caps DEF TypeOK, MachineTypeOK
  <1>2. Delta \in Nat /\ Delta * TicksPerMs <= sinceUpdate
    BY <1>1, Truncation DEF Delta
  <1>3. timeInState * TicksPerMs \in Nat /\ Delta * TicksPerMs \in Nat
    BY <1>1, <1>2, InTicks
  <1>4. elapsed * TicksPerMs <= timeInState * TicksPerMs + Delta * TicksPerMs
    <2>1. timeInState + Delta \in Nat
      BY <1>1, <1>2
    <2>2. elapsed * TicksPerMs <= (timeInState + Delta) * TicksPerMs
      BY <2>1, InTicks
    <2> QED
      BY <2>2, <1>1, <1>2, InTicks
  <1>5. elapsed * TicksPerMs \in Nat
    BY InTicks
  <1>6. sinceTap = MinGap \/ elapsed * TicksPerMs <= sinceTap
    BY <1>1, <1>2, <1>3, <1>4, <1>5 DEF CooldownCounted
  <1>7. elapsed >= CooldownDuration => MinGap <= elapsed * TicksPerMs
    BY StateMachineAssumption, InTicks DEF MinGap
  <1> QED
    BY <1>1, <1>5, <1>6, <1>7, Caps

\* A buffer goes to the detector, and its answer to the state machine.
LEMMA DetectStep ==
  ASSUME IInv, DetectBuffer
  PROVE  IInv'
  <1> USE DEF IInv
  <1> PICK spike \in BOOLEAN, high \in BOOLEAN : analyze(spike, high)
    BY DEF DetectBuffer
  <1>1. DetectorTypeOK' /\ IsWhiteNoise' \in BOOLEAN
    BY AnalyzeTypes DEF TypeOK
  <1>2. DetectionNeedsSpike'
    BY AnalyzeNeedsSpike DEF TypeOK
  <1>3. Delta \in Nat
    BY Truncation, Caps DEF TypeOK, Delta
  <1>4. update(IsWhiteNoise', Delta)
    BY DEF DetectBuffer
  <1>5. MachineTypeOK'
    BY <1>1, <1>3, <1>4, UpdateTypes DEF TypeOK
  <1>6. sinceTap' \in 0..MinGap /\ sinceUpdate' = 0
    BY Caps DEF TypeOK, DetectBuffer
  <1>7. TypeOK'
    <2>1. UNCHANGED <<isTraining, trainingSampleCount, capturing, ui>>
      BY DEF DetectBuffer
    <2> QED
      BY <1>1, <1>5, <1>6, <2>1, Caps DEF TypeOK
  <1> DEFINE elapsed == Saturate(timeInState + Delta, MaxTimeInState)
  <1>8. elapsed \in Nat /\ elapsed <= timeInState + Delta
    <2>1. timeInState + Delta \in Nat
      BY <1>3, Caps DEF TypeOK, MachineTypeOK
    <2> QED
      BY <2>1, Caps, Saturation
  <1> HIDE DEF elapsed
  <1>9. ~Fires => sinceTap' = sinceTap
    BY DEF DetectBuffer
  <1>10. CooldownCounted'
    <2>1. CASE updateIdle(IsWhiteNoise', elapsed)
      BY <2>1, <1>9 DEF CooldownCounted, updateIdle, transitionTo, remain, Fires
    <2>2. CASE updateDetecting(IsWhiteNoise', elapsed)
      BY <2>2, <1>9 DEF CooldownCounted, updateDetecting, transitionTo, remain, Fires
    <2>3. CASE updateTriggered(elapsed)
      <3>1. 0 * TicksPerMs = 0
        BY ClockAssumption
      <3> QED
        BY <2>3, <3>1, <1>6, Caps DEF CooldownCounted, updateTriggered, transitionTo
    <2>4. CASE updateCooldown(elapsed)
      <3>1. /\ sinceTap = MinGap \/ elapsed * TicksPerMs <= sinceTap
            /\ elapsed >= CooldownDuration => sinceTap = MinGap
        BY <2>4, <1>8, CooldownSpent DEF updateCooldown
      <3>2. sinceTap' = sinceTap
        BY <2>4, <1>9 DEF updateCooldown, Fires
      <3>3. elapsed * TicksPerMs \in Nat
        BY <1>8, InTicks
      <3> QED
        BY <2>4, <3>1, <3>2, <3>3, <1>6 DEF CooldownCounted, updateCooldown, transitionTo, remain
    <2> QED
      BY <1>4, <2>1, <2>2, <2>3, <2>4 DEF update, elapsed
  <1> QED
    BY <1>2, <1>7, <1>10

LEMMA TrainStep ==
  ASSUME IInv, TrainBuffer
  PROVE  IInv'
  <1> USE DEF IInv
  <1>1. DetectorTypeOK' /\ DetectionNeedsSpike'
    BY CallTypes DEF TypeOK, TrainBuffer
  <1>2. trainingSampleCount' \in 0..AutoStopCount
    BY TriggerPathAssumption, Saturation DEF TypeOK, TrainBuffer
  <1>3. UNCHANGED <<currentState, timeInState, isTraining, sinceUpdate, capturing, ui, sinceTap>>
    BY DEF TrainBuffer, machineVars
  <1>4. TypeOK'
    BY <1>1, <1>2, <1>3 DEF TypeOK, MachineTypeOK
  <1>5. CooldownCounted'
    BY <1>3 DEF CooldownCounted
  <1> QED
    BY <1>1, <1>4, <1>5
-----------------------------------------------------------------------------
(* Theorems *)

LEMMA StutterStep ==
  ASSUME IInv, UNCHANGED vars
  PROVE  IInv'
  <1>1. UNCHANGED detectorVars /\ UNCHANGED machineVars /\ UNCHANGED appVars
    BY DEF vars
  <1>2. DetectorTypeOK' /\ DetectionNeedsSpike'
    BY <1>1, CallTypes DEF IInv, TypeOK
  <1>3. TypeOK'
    BY <1>1, <1>2 DEF IInv, TypeOK, MachineTypeOK, machineVars, appVars
  <1>4. CooldownCounted'
    BY <1>1 DEF IInv, CooldownCounted, machineVars, appVars
  <1> QED
    BY <1>2, <1>3, <1>4 DEF IInv

\* The inductive invariant holds in every reachable state.
THEOREM Invariance == Spec => []IInv
  <1>1. IInv /\ [Next]_vars => IInv'
    BY TickStep, TrainStep, DetectStep, MainThreadStep, StutterStep DEF Next
  <1> QED
    BY InitIInv, <1>1, PTL DEF Spec

\* Every variable of the detector, the state machine and the application keeps its type.
THEOREM TypeCorrect == Spec => []TypeOK
  BY Invariance, PTL DEF IInv

\* The detector answers only covers that began with a spike (noise_detector.cpp:297),
\* through training, clearing and changes of device and detection time.
THEOREM AlwaysNeedsSpike == Spec => []DetectionNeedsSpike
  BY Invariance, PTL DEF IInv

\* No two taps are closer than the cooldown in real time (state_machine.cpp:145).
THEOREM AlwaysSpaced == Spec => TapsSpaced
  <1>1. IInv => (Fires => sinceTap >= MinGap)
    BY Caps DEF IInv, CooldownCounted, Fires
  <1>2. IInv => [Fires => sinceTap >= MinGap]_vars
    BY <1>1
  <1> QED
    BY Invariance, <1>2, PTL DEF TapsSpaced
-----------------------------------------------------------------------------
(* What a tap and a detection rest on *)

\* A tap is given only for a cover that has been confirmed for the configured
\* time, on the profile of a training and outside of any training session.
TapsConfirmed ==
  [][Fires => IsWhiteNoise' /\ spikeAge' # Never /\ hasTrainingData /\ ~isTraining]_vars

\* Only DetectBuffer moves the state machine, so only it can fire.
LEMMA OnlyDetectBufferFires == IInv /\ [Next]_vars /\ Fires => DetectBuffer
  <1> SUFFICES ASSUME IInv, [Next]_vars, Fires PROVE DetectBuffer
    OBVIOUS
  <1>1. currentState' # currentState
    BY DEF Fires
  <1> QED
    BY <1>1 DEF Next, vars, machineVars, appVars, Tick, TrainBuffer, MinimizeOrRestore,
       Train, AutoStop, StopTraining, Finish, Clear, SwitchDevice, SetDetectionTime,
       Continue, InitializeReturns, TrainingShown, CountReset, TrainingOver, DeviceReady,
       DeviceUnknown

\* Every tap has a confirmed cover, its spike, and a profile behind it.
THEOREM AlwaysConfirmed == Spec => TapsConfirmed
  <1> DEFINE Confirmed ==
        Fires => IsWhiteNoise' /\ spikeAge' # Never /\ hasTrainingData /\ ~isTraining
  <1>1. ASSUME IInv, Next, Fires
        PROVE  IsWhiteNoise' /\ spikeAge' # Never /\ hasTrainingData /\ ~isTraining
    <2>1. DetectBuffer
      BY <1>1, OnlyDetectBufferFires
    <2>2. PICK spike \in BOOLEAN, high \in BOOLEAN : analyze(spike, high)
      BY <2>1 DEF DetectBuffer
    <2>3. DetectionNeedsSpike'
      BY <1>1, <2>2, AnalyzeNeedsSpike DEF IInv, TypeOK
    <2>4. update(IsWhiteNoise', Delta)
      BY <2>1 DEF DetectBuffer
    <2>5. IsWhiteNoise'
      BY <1>1, <2>4 DEF update, Fires, updateIdle, updateDetecting, updateTriggered,
         updateCooldown, transitionTo, remain
    <2> QED
      BY <2>1, <2>3, <2>5 DEF DetectBuffer, IsWhiteNoise, DetectionNeedsSpike
  <1>2. IInv /\ [Next]_vars => [Confirmed]_vars
    BY <1>1
  <1> QED
    BY Invariance, <1>2, PTL DEF Spec, TapsConfirmed

\* The answers counted by Hits.
Counted(answers) == {i \in 1..Window : answers[i]}

LEMMA CountedFinite ==
  ASSUME NEW answers
  PROVE  IsFiniteSet(Counted(answers)) /\ Hits(answers) \in Nat
  <1>1. Window \in Int /\ 1 \in Int
    BY NoiseDetectorAssumption
  <1>2. IsFiniteSet(1..Window)
    BY <1>1, FS_Interval
  <1>3. Counted(answers) \in SUBSET (1..Window)
    BY DEF Counted
  <1>4. IsFiniteSet(Counted(answers))
    BY <1>2, <1>3, FS_Subset
  <1> QED
    BY <1>4, FS_CardinalityType DEF Hits, Counted

\* One more answer moves the count of high ones by one at most: the window takes
\* one answer in and lets one go (updateConfidenceHistory).
LEMMA WindowSlides ==
  ASSUME history \in [1..Window -> BOOLEAN], NEW high \in BOOLEAN
  PROVE  /\ Hits(Slide(high)) <= Hits(history) + 1
         /\ Hits(history) <= Hits(Slide(high)) + 1
  <1> DEFINE A == Counted(history)
             B == Counted(Slide(high))
             Kept == A \ {Window}
             Moved == B \ {1}
             f == [i \in Kept |-> i + 1]
  <1>0. Window \in Nat
    BY NoiseDetectorAssumption
  <1>1. IsFiniteSet(A) /\ IsFiniteSet(B) /\ Cardinality(A) \in Nat /\ Cardinality(B) \in Nat
    BY CountedFinite, FS_CardinalityType
  <1>2. /\ IsFiniteSet(Kept)
        /\ Cardinality(Kept) = Cardinality(A) \/ Cardinality(Kept) = Cardinality(A) - 1
    BY <1>1, FS_RemoveElement
  <1>3. Cardinality(Moved) = Cardinality(B) \/ Cardinality(Moved) = Cardinality(B) - 1
    BY <1>1, FS_RemoveElement
  <1>4. f \in Bijection(Kept, Moved)
    <2>1. \A i \in Kept : i \in 1..Window /\ i + 1 \in 2..Window /\ history[i]
      BY <1>0 DEF Counted
    <2>2. \A j \in 2..Window : Slide(high)[j] = history[j - 1] /\ j \in 1..Window /\ j # 1
      BY <1>0 DEF Slide
    <2>3. \A i \in Kept : i + 1 \in Moved
      <3> SUFFICES ASSUME NEW i \in Kept PROVE i + 1 \in Moved
        OBVIOUS
      <3>1. i \in 1..Window /\ i + 1 \in 2..Window /\ history[i]
        BY <2>1
      <3>2. Slide(high)[i + 1] = history[(i + 1) - 1] /\ i + 1 \in 1..Window /\ i + 1 # 1
        BY <2>2, <3>1
      <3>3. (i + 1) - 1 = i
        BY <3>1
      <3> QED
        BY <3>1, <3>2, <3>3 DEF Counted
    <2>4. \A j \in Moved : j - 1 \in Kept /\ j \in 2..Window
      <3> SUFFICES ASSUME NEW j \in Moved PROVE j - 1 \in Kept /\ j \in 2..Window
        OBVIOUS
      <3>1. j \in 1..Window /\ j # 1 /\ Slide(high)[j]
        BY DEF Counted
      <3>2. j \in 2..Window /\ j - 1 \in 1..Window /\ j - 1 # Window
        BY <1>0, <3>1
      <3> QED
        BY <2>2, <3>1, <3>2 DEF Counted
    <2>5. f \in [Kept -> Moved]
      BY <2>3
    <2>6. \A a, b \in Kept : f[a] = f[b] => a = b
      BY <2>1
    <2>7. \A j \in Moved : \E i \in Kept : f[i] = j
      <3> SUFFICES ASSUME NEW j \in Moved PROVE \E i \in Kept : f[i] = j
        OBVIOUS
      <3>1. j - 1 \in Kept /\ j \in 2..Window
        BY <2>4
      <3>2. f[j - 1] = (j - 1) + 1 /\ (j - 1) + 1 = j
        BY <3>1
      <3> QED
        BY <3>1, <3>2
    <2> QED
      BY <2>5, <2>6, <2>7 DEF Bijection, Injection, Surjection, IsInjective
  <1>5. Cardinality(Moved) = Cardinality(Kept)
    BY <1>2, <1>4, FS_Bijection DEF ExistsBijection
  <1>6. Hits(history) = Cardinality(A) /\ Hits(Slide(high)) = Cardinality(B)
    BY DEF Hits, Counted
  <1> HIDE DEF A, B, Kept, Moved, f
  <1> QED
    BY <1>1, <1>2, <1>3, <1>5, <1>6

\* A detection goes on only as long as the window holds StopHits high answers.
DetectionHeld == detectingFor # Never => Hits(history) >= StopHits

\* noise_detector.cpp starts at startThreshold = 4 and stops below stopThreshold = 2.
Hysteresis == StopHits <= StartHits

\* Every step of the system keeps enough answers in the window.
LEMMA NextDetectionHeld == Hysteresis /\ IInv /\ DetectionHeld /\ [Next]_vars => DetectionHeld'
  <1> SUFFICES ASSUME Hysteresis, IInv, DetectionHeld, [Next]_vars PROVE DetectionHeld'
    OBVIOUS
  <1>1. CASE DetectBuffer
    <2>1. PICK spike \in BOOLEAN, high \in BOOLEAN : analyze(spike, high)
      BY <1>1 DEF DetectBuffer
    <2>2. history' = Slide(high) /\ Slide(high) \in [1..Window -> BOOLEAN]
      BY <2>1, SlideType DEF analyze, IInv, TypeOK, DetectorTypeOK
    <2>3. Hits(history') = Hits(Slide(high)) /\ Hits(Slide(high)) \in Nat
      BY <2>2, CountedFinite
    <2>4. detectingFor' # Never => Hits(Slide(high)) >= StopHits
      BY <2>1, <2>3, NoiseDetectorAssumption
         DEF analyze, updateTemporalState, Instant, Hysteresis
    <2>5. Hits(history)' = Hits(history')
      BY DEF Hits
    <2> QED
      BY <2>3, <2>4, <2>5 DEF DetectionHeld
  <1>2. CASE ~DetectBuffer
    <2>1. \/ UNCHANGED history /\ (detectingFor' # Never => detectingFor # Never)
          \/ detectingFor' = Never
      BY <1>2 DEF Next, vars, detectorVars, detectionVars, appVars, Tick, DetectorTick,
         TrainBuffer, addTrainingSample, MinimizeOrRestore, Train, startTraining, AutoStop,
         StopTraining, Finish, finishTraining, Clear, SwitchDevice, SetDetectionTime,
         setMinDetectionDuration, createFFTDetector, Continue, InitializeReturns,
         TrainingShown, CountReset, TrainingOver, DeviceReady, DeviceUnknown
    <2>2. UNCHANGED history => Hits(history)' = Hits(history)
      BY DEF Hits
    <2> QED
      BY <2>1, <2>2 DEF DetectionHeld
  <1> QED
    BY <1>1, <1>2

\* The answers end a detection one at a time: the last buffer of a detection finds
\* the window exactly at the lower threshold and brings a low answer.
EndsAtTheThreshold ==
  [][DetectBuffer /\ detectingFor # Never /\ detectingFor' = Never
       => Hits(history) = StopHits /\ ~IsWhiteNoise']_vars

\* With the hysteresis of the code a detection never ends from above its lower
\* threshold: it takes a run of lost hits, one per buffer.
THEOREM AlwaysEndsAtTheThreshold == Hysteresis => (Spec => []DetectionHeld /\ EndsAtTheThreshold)
  <1> SUFFICES ASSUME Hysteresis PROVE Spec => []DetectionHeld /\ EndsAtTheThreshold
    OBVIOUS
  <1> DEFINE Ends == DetectBuffer /\ detectingFor # Never /\ detectingFor' = Never
                       => Hits(history) = StopHits /\ ~IsWhiteNoise'
  <1>1. Init => DetectionHeld
    BY DEF Init, DetectorInit, DetectionHeld
  <1>2. IInv /\ DetectionHeld /\ [Next]_vars => DetectionHeld'
    BY NextDetectionHeld
  <1>3. ASSUME IInv, DetectionHeld, DetectBuffer, detectingFor # Never, detectingFor' = Never
        PROVE  Hits(history) = StopHits /\ ~IsWhiteNoise'
    <2>1. PICK spike \in BOOLEAN, high \in BOOLEAN : analyze(spike, high)
      BY <1>3 DEF DetectBuffer
    <2>2. Hits(Slide(high)) \in Nat /\ Hits(history) \in Nat
      BY CountedFinite
    <2>3. Hits(history) <= Hits(Slide(high)) + 1
      BY <1>3, WindowSlides DEF IInv, TypeOK, DetectorTypeOK
    <2>4. ~(Hits(Slide(high)) >= StopHits)
      BY <1>3, <2>1 DEF analyze, updateTemporalState, Instant
    <2>5. Hits(history) >= StopHits
      BY <1>3 DEF DetectionHeld
    <2> QED
      BY <1>3, <2>2, <2>3, <2>4, <2>5, NoiseDetectorAssumption DEF IsWhiteNoise
  <1>4. IInv /\ DetectionHeld => [Ends]_vars
    BY <1>3
  <1>5. Spec => []DetectionHeld
    BY Invariance, <1>1, <1>2, PTL DEF Spec
  <1>6. Spec => EndsAtTheThreshold
    BY Invariance, <1>4, <1>5, PTL DEF EndsAtTheThreshold
  <1> QED
    BY <1>5, <1>6
-----------------------------------------------------------------------------
(* Where the refuted promises hold *)

\* The cover is off by the time the cooldown ends.
ShortCovers == currentState = "Cooldown" /\ currentState' = "Idle" => ~IsWhiteNoise'
ShortSpec == EdgeInit /\ [][EdgeNext /\ ShortCovers]_<<vars, released>>

\* The machine waits for a cover only after one has been off.
ReleasedFirst == currentState \in {"Idle", "Detecting"} => released

\* When "one of these per detection rising edge" is true: of covers that are
\* taken off before the cooldown is over, each taps at most once.
THEOREM ShortCoversTapOnce == ShortSpec => OneTapPerEdge
  <1>1. EdgeInit => IInv /\ ReleasedFirst
    BY InitIInv DEF EdgeInit, ReleasedFirst
  <1>2. ASSUME IInv, [Next]_vars PROVE IInv'
    BY <1>2, TickStep, TrainStep, DetectStep, MainThreadStep, StutterStep DEF Next
  <1>3. ASSUME ReleasedFirst, [EdgeNext /\ ShortCovers]_<<vars, released>>, IInv
        PROVE  ReleasedFirst'
    <2>1. CASE DetectBuffer /\ EdgeNext /\ ShortCovers
      <3>1. \/ currentState' = currentState
            \/ currentState = "Idle" /\ currentState' = "Detecting"
            \/ currentState = "Detecting" /\ currentState' = "Idle"
            \/ currentState = "Cooldown" /\ currentState' = "Idle" /\ ~IsWhiteNoise'
            \/ currentState' \in {"Triggered", "Cooldown"}
        BY <2>1 DEF DetectBuffer, update, updateIdle, updateDetecting, updateTriggered,
           updateCooldown, transitionTo, remain, ShortCovers
      <3> QED
        BY <1>3, <2>1, <3>1 DEF ReleasedFirst, EdgeNext, Fires
    <2>2. CASE EdgeNext /\ ~DetectBuffer
      <3>1. ~Fires
        BY <1>3, <2>2, OnlyDetectBufferFires DEF EdgeNext
      <3>2. currentState' = currentState
        BY <2>2 DEF EdgeNext, Next, machineVars, appVars, Tick, TrainBuffer,
           MinimizeOrRestore, Train, AutoStop, StopTraining, Finish, Clear, SwitchDevice,
           SetDetectionTime, Continue, InitializeReturns, TrainingShown, CountReset,
           TrainingOver, DeviceReady, DeviceUnknown
      <3> QED
        BY <1>3, <2>2, <3>1, <3>2 DEF ReleasedFirst, EdgeNext
    <2>3. CASE UNCHANGED <<vars, released>>
      BY <1>3, <2>3 DEF ReleasedFirst, vars, machineVars
    <2> QED
      BY <1>3, <2>1, <2>2, <2>3
  <1>4. [EdgeNext /\ ShortCovers]_<<vars, released>> => [Next]_vars
    BY DEF EdgeNext
  <1>5. ReleasedFirst => [Fires => released]_<<vars, released>>
    BY DEF ReleasedFirst, Fires
  <1> QED
    BY <1>1, <1>2, <1>3, <1>4, <1>5, PTL DEF ShortSpec, OneTapPerEdge

\* No buffer goes to the training while a detection is running.
Undisturbed == TrainBuffer => detectingFor = Never
UndisturbedSpec == ListeningInit /\ [][ListeningNext /\ Undisturbed]_<<vars, listening>>

\* A detection is no older than the listening.
HeardOut ==
  /\ listening \in 0..MaxDetectionTime
  /\ detectingFor # Never => detectingFor <= listening

\* When "detected continuously for >= minDetectionDurationMs_" is true: as long as
\* no training session begins inside a detection, none is confirmed over a time in
\* which the detector was not listening.
THEOREM UndisturbedDetectsContinuously == UndisturbedSpec => DetectedContinuously
  <1>1. ListeningInit => IInv /\ HeardOut
    BY InitIInv, NoiseDetectorAssumption DEF ListeningInit, Init, DetectorInit, HeardOut
  <1>2. ASSUME IInv, [Next]_vars PROVE IInv'
    BY <1>2, TickStep, TrainStep, DetectStep, MainThreadStep, StutterStep DEF Next
  <1>3. [ListeningNext /\ Undisturbed]_<<vars, listening>> => [Next]_vars
    BY DEF ListeningNext, Next
  <1>4. ASSUME IInv, HeardOut, [ListeningNext /\ Undisturbed]_<<vars, listening>>
        PROVE  HeardOut'
    <2> USE NoiseDetectorAssumption, <1>4 DEF HeardOut
    <2>0. detectingFor \in {Never} \cup 0..MaxDetectionTime
      BY DEF IInv, TypeOK, DetectorTypeOK
    <2>1. CASE TrainBuffer /\ listening' = 0 /\ Undisturbed
      BY <2>1 DEF TrainBuffer, addTrainingSample, detectionVars, Undisturbed
    <2>2. CASE Tick /\ listening' = Saturate(listening + 1, MaxDetectionTime)
      BY <2>0, <2>2 DEF Tick, DetectorTick, Saturate, Never
    <2>3. CASE DetectBuffer /\ UNCHANGED listening
      <3>1. detectingFor' \in {Never, 0, detectingFor}
        BY <2>3 DEF DetectBuffer, analyze, updateTemporalState
      <3> QED
        BY <2>0, <2>3, <3>1 DEF Never
    <2>4. CASE /\ \/ MinimizeOrRestore \/ Train \/ AutoStop \/ StopTraining
                  \/ Clear \/ SwitchDevice \/ SetDetectionTime \/ Continue
               /\ UNCHANGED listening
      <3>1. detectingFor' \in {Never, detectingFor}
        BY <2>4 DEF detectorVars, detectionVars, appVars, MinimizeOrRestore, Train,
           startTraining, AutoStop, StopTraining, Finish, finishTraining, Clear,
           SwitchDevice, SetDetectionTime, setMinDetectionDuration, createFFTDetector,
           Continue, InitializeReturns, TrainingShown, CountReset, TrainingOver,
           DeviceReady, DeviceUnknown
      <3> QED
        BY <2>4, <3>1
    <2>5. CASE UNCHANGED <<vars, listening>>
      BY <2>5 DEF vars, detectorVars
    <2> QED
      BY <2>1, <2>2, <2>3, <2>4, <2>5 DEF ListeningNext
  <1>5. ASSUME IInv, HeardOut, IInv', HeardOut', ListeningNext, DetectBuffer, IsWhiteNoise'
        PROVE  listening >= minDetectionDuration
    <2>1. detectingFor' # Never /\ detectingFor' >= minDetectionDuration'
      BY <1>5 DEF IsWhiteNoise
    <2>2. minDetectionDuration' = minDetectionDuration
      BY <1>5 DEF DetectBuffer, analyze
    <2>3. detectingFor' \in {Never, 0, detectingFor}
      BY <1>5 DEF DetectBuffer, analyze, updateTemporalState
    <2>4. minDetectionDuration \in Nat /\ detectingFor \in Int /\ listening \in Nat
      BY <1>5, NoiseDetectorAssumption DEF IInv, TypeOK, DetectorTypeOK, HeardOut, Never
    <2> QED
      BY <1>5, <2>1, <2>2, <2>3, <2>4 DEF HeardOut
  <1>6. UndisturbedSpec => [](IInv /\ HeardOut)
    BY <1>1, <1>2, <1>3, <1>4, PTL DEF UndisturbedSpec
  <1> DEFINE Heard == DetectBuffer /\ IsWhiteNoise' => listening >= minDetectionDuration
  <1>7. IInv /\ HeardOut /\ IInv' /\ HeardOut'
          /\ [ListeningNext /\ Undisturbed]_<<vars, listening>> => [Heard]_<<vars, listening>>
    BY <1>5
  <1> QED
    BY <1>6, <1>7, PTL DEF UndisturbedSpec, DetectedContinuously
=============================================================================
