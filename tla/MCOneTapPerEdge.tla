---------------------------- MODULE MCOneTapPerEdge ----------------------------
(***************************************************************************)
(* TriggerPath with the edges of the detection in view: `released' is      *)
(* whether the cover has been off since the last tap.                      *)
(***************************************************************************)
EXTENDS TriggerPath

VARIABLE released

EdgeInit == Init /\ released = TRUE

EdgeNext ==
  /\ Next
  /\ released' = IF Fires THEN FALSE ELSE released \/ ~IsWhiteNoise'

EdgeSpec == EdgeInit /\ [][EdgeNext]_<<vars, released>>

\* driver/src/command_queue.hpp:8 says of the tap: "The app posts one of these per
\* detection rising edge"; between two taps the detector has said the cover is off.
OneTapPerEdge == [][Fires => released]_<<vars, released>>
=============================================================================
