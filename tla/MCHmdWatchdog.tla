---------------------------- MODULE MCHmdWatchdog ----------------------------
(***************************************************************************)
(* HmdDriver with a clock on the component itself: `held' is how long      *)
(* /input/system/click has been down in vrserver, which the driver does    *)
(* not record (pressTimestamp_ is the time of the last tap instead).       *)
(***************************************************************************)
EXTENDS HmdDriver

VARIABLE held  \* ticks since the component went down, saturating at MaxHold + 1

HeldInit == Init /\ held = 0

Counts ==
  held' = IF component' # "down" THEN 0
          ELSE IF component = "down" /\ pressAge' > pressAge /\ held <= MaxHold
            THEN held + 1
          ELSE held

\* vrserver at its best: frames take less than a tick and run at every tick, so
\* the clock stands still inside RunFrame and while a release is due.
Prompt == pressAge' > pressAge => pc = "idle" /\ releaseIn # 0

\* No tap is served while the driver still holds the button for the one before.
Spaced == ServeTap => ~isPressed

HeldNext == Next /\ Prompt /\ Counts

HeldSpec == HeldInit /\ [][HeldNext]_<<vars, held>>

\* device_provider.hpp:52 says of RunFrame's stage 5: "max-hold watchdog (SVR-06)
\* forces UP if the button has been held > 5s".  After it, unless vrserver has
\* just refused the write, no button held longer than MaxHold is still down.
WatchdogForcesUp ==
  [][pc = "watchdog" /\ pc' = "idle" /\ hmdState' = "Ready"
       => ~(component' = "down" /\ held > MaxHold)]_<<vars, held>>
=============================================================================
