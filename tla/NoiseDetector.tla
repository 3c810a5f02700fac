---------------------------- MODULE NoiseDetector ----------------------------
(***************************************************************************)
(* FFTNoiseDetector (src/detection/src/noise_detector.cpp): training, and  *)
(* the spike gate, the sliding window of high-confidence answers and the   *)
(* duration that decide whether the microphone is covered.                 *)
(*                                                                         *)
(* What the signal processing makes of a buffer is reduced to two answers: *)
(* whether it is a spike (louder than -10 dB) and whether its confidence   *)
(* is high (at least 0.6).  Either can come with either: the confidence    *)
(* weighs the energy, its steadiness and the shape of the spectrum.        *)
(***************************************************************************)
EXTENDS Clock, FiniteSets

CONSTANTS
  Window,            \* CONFIDENCE_HISTORY_SIZE
  StartHits,         \* startThreshold
  StopHits,          \* stopThreshold
  SpikeTicks,        \* how long a spike arms the detector, in ticks
  DetectionTimes,    \* the values of minDetectionDurationMs_, in ticks
  MaxDetectionTime,  \* no shorter than any of them
  MinSamples         \* training samples finishTraining needs

ASSUME NoiseDetectorAssumption ==
  /\ Window \in Nat
  /\ StartHits \in Nat
  /\ StopHits \in Nat
  /\ SpikeTicks \in Nat
  /\ MaxDetectionTime \in Nat
  /\ DetectionTimes \subseteq 0..MaxDetectionTime
  /\ MinSamples \in Nat

VARIABLES
  training,             \* training_
  samples,              \* trainingSpectra_.size(), saturating at MinSamples
  hasTrainingData,      \* hasTrainingData_
  history,              \* confidenceHistory_, latest answer first
  spikeAge,             \* now - spikeTime_ while spikeTriggered_, else Never
  detectingFor,         \* now - detectionStartTime_ while isCurrentlyDetecting_, else Never
  minDetectionDuration  \* minDetectionDurationMs_, in ticks

trainingVars  == <<training, samples, hasTrainingData>>
detectionVars == <<history, spikeAge, detectingFor>>
detectorVars  == <<training, samples, hasTrainingData, history, spikeAge,
                   detectingFor, minDetectionDuration>>

Never == -1
MaxSpikeAge == SpikeTicks + MaxDetectionTime

DetectorTypeOK ==
  /\ training \in BOOLEAN
  /\ samples \in 0..MinSamples
  /\ hasTrainingData \in BOOLEAN
  /\ history \in [1..Window -> BOOLEAN]
  /\ spikeAge \in {Never} \cup 0..MaxSpikeAge
  /\ detectingFor \in {Never} \cup 0..MaxDetectionTime
  /\ minDetectionDuration \in DetectionTimes

\* An answer not yet given counts as a low one.
NoAnswers == [i \in 1..Window |-> FALSE]

\* With a profile read from disk or without.
DetectorInit ==
  /\ training = FALSE
  /\ samples = 0
  /\ hasTrainingData \in BOOLEAN
  /\ history = NoAnswers
  /\ spikeAge = Never
  /\ detectingFor = Never
  /\ minDetectionDuration \in DetectionTimes

\* A new detector takes the place of this one, with the same detection time.
createFFTDetector(loaded) ==
  /\ training' = FALSE
  /\ samples' = 0
  /\ hasTrainingData' = loaded
  /\ history' = NoAnswers
  /\ spikeAge' = Never
  /\ detectingFor' = Never
  /\ UNCHANGED minDetectionDuration
-----------------------------------------------------------------------------
(* Training *)

startTraining ==
  /\ training' = TRUE
  /\ samples' = 0
  /\ UNCHANGED <<hasTrainingData, detectionVars, minDetectionDuration>>

\* A buffer with hardly any energy is rejected.
addTrainingSample(accepted) ==
  /\ samples' = IF training /\ accepted THEN Saturate(samples + 1, MinSamples) ELSE samples
  /\ UNCHANGED <<training, hasTrainingData, detectionVars, minDetectionDuration>>

\* Too few samples leave the previous profile, if any, and the buffers in place.
finishTraining ==
  /\ training' = FALSE
  /\ IF training /\ samples >= MinSamples
       THEN samples' = 0 /\ hasTrainingData' = TRUE
       ELSE UNCHANGED <<samples, hasTrainingData>>
  /\ UNCHANGED <<detectionVars, minDetectionDuration>>

setMinDetectionDuration(duration) ==
  /\ minDetectionDuration' = duration
  /\ UNCHANGED <<trainingVars, detectionVars>>
-----------------------------------------------------------------------------
(* Detection *)

Hits(answers) == Cardinality({i \in 1..Window : answers[i]})

Slide(high) == [i \in 1..Window |-> IF i = 1 THEN high ELSE history[i - 1]]

\* The spike after this buffer is heard; one already remembered is not re-stamped.
Armed(spike) == IF spike /\ spikeAge = Never THEN 0 ELSE spikeAge

\* Mutant of SpikeValid: an expired spike still arms the detector.
SpikeValidForever(age) == age # Never
SpikeValid(age) == age # Never /\ age < SpikeTicks

\* An expired spike is forgotten, but not during a detection.
Remembered(age) == IF detectingFor = Never /\ ~SpikeValid(age) THEN Never ELSE age

Instant(spike, high) ==
  IF detectingFor # Never
    THEN Hits(Slide(high)) >= StopHits
    ELSE SpikeValid(Armed(spike)) /\ Hits(Slide(high)) >= StartHits

updateTemporalState(instantDetection) ==
  detectingFor' = IF ~instantDetection THEN Never
                  ELSE IF detectingFor = Never THEN 0 ELSE detectingFor

\* With a profile: without one the app does not call it.
analyze(spike, high) ==
  /\ history' = Slide(high)
  /\ spikeAge' = Remembered(Armed(spike))
  /\ updateTemporalState(Instant(spike, high))
  /\ UNCHANGED <<trainingVars, minDetectionDuration>>

\* result.isWhiteNoise, in the state analyze leaves.
IsWhiteNoise == detectingFor # Never /\ detectingFor >= minDetectionDuration

DetectorTick ==
  /\ spikeAge' = IF spikeAge = Never THEN Never ELSE Saturate(spikeAge + 1, MaxSpikeAge)
  /\ detectingFor' = IF detectingFor = Never THEN Never
                     ELSE Saturate(detectingFor + 1, MaxDetectionTime)
  /\ UNCHANGED <<trainingVars, history, minDetectionDuration>>

\* noise_detector.cpp:297 "Must have spike to start (or already detecting)": every
\* detection began less than SpikeTicks after a spike, and that spike is remembered
\* to its end, so that one detection never arms the next.
DetectionNeedsSpike ==
  detectingFor # Never =>
    /\ spikeAge # Never
    /\ detectingFor <= spikeAge
    /\ detectingFor < MaxDetectionTime => spikeAge - detectingFor < SpikeTicks
=============================================================================
