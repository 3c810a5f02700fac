------------------------- MODULE MCContinuousDetection -------------------------
(***************************************************************************)
(* TriggerPath with the time since the detector was last kept from         *)
(* listening by a training session: `listening' is how long ago a buffer   *)
(* last went to the training instead.                                      *)
(***************************************************************************)
EXTENDS TriggerPath

VARIABLE listening  \* ticks, saturating at MaxDetectionTime

ListeningInit == Init /\ listening = MaxDetectionTime

ListeningNext ==
  \/ TrainBuffer /\ listening' = 0
  \/ Tick /\ listening' = Saturate(listening + 1, MaxDetectionTime)
  \/ DetectBuffer /\ UNCHANGED listening
  \/ /\ \/ MinimizeOrRestore \/ Train \/ AutoStop \/ StopTraining
        \/ Clear \/ SwitchDevice \/ SetDetectionTime \/ Continue
     /\ UNCHANGED listening

ListeningSpec == ListeningInit /\ [][ListeningNext]_<<vars, listening>>

\* noise_detector.cpp:597 says analyze "Returns true only if white noise has been
\* detected continuously for >= minDetectionDurationMs_"; a stretch in which the
\* buffers trained the profile instead is not continuous detection.
DetectedContinuously ==
  [][DetectBuffer /\ IsWhiteNoise' => listening >= minDetectionDuration]_<<vars, listening>>
=============================================================================
