------------------------------ MODULE TapButton ------------------------------
(***************************************************************************)
(* What the MicMap driver promises the application and SteamVR, whatever   *)
(* its frames, handles and deadlines do: a button the application can only *)
(* tap.  Taps are owed until they are served or dropped; the button is     *)
(* pressed only by serving a tap, and while it stays available it comes    *)
(* back up only once TapHold ticks have passed since the LAST tap served,  *)
(* long enough for SteamVR's complex_button to see a click.                *)
(***************************************************************************)
EXTENDS Naturals

CONSTANTS
  MaxDepth,   \* taps that can be owed at once
  TapHold     \* ticks the button stays down after the last tap

VARIABLES
  available,  \* the button exists on the headset, as far as the driver knows
  down,       \* the value the driver last commanded
  owed,       \* taps accepted and not yet served or dropped
  sinceTap    \* ticks since the last tap served, capped at TapHold

vars == <<available, down, owed, sinceTap>>

Init ==
  /\ available = FALSE
  /\ down = FALSE
  /\ owed = 0
  /\ sinceTap = TapHold

\* A tap arrives; when MaxDepth are already owed the oldest gives way to it.
Post ==
  /\ owed' = IF owed < MaxDepth THEN owed + 1 ELSE MaxDepth
  /\ UNCHANGED <<available, down, sinceTap>>

\* A tap is served: the button goes (or stays) down, its hold starts anew.
Press ==
  /\ available
  /\ owed > 0
  /\ owed' = owed - 1
  /\ down' = TRUE
  /\ sinceTap' = 0
  /\ UNCHANGED available

\* The button is lost while a tap is being served.
Miss ==
  /\ available
  /\ owed > 0
  /\ owed' = owed - 1
  /\ available' = FALSE
  /\ down' = FALSE
  /\ sinceTap' = 0

\* There is no button: the tap is dropped.
Drop ==
  /\ ~available
  /\ owed > 0
  /\ owed' = owed - 1
  /\ UNCHANGED <<available, down, sinceTap>>

Release ==
  /\ available
  /\ down
  /\ sinceTap >= TapHold
  /\ down' = FALSE
  /\ UNCHANGED <<available, owed, sinceTap>>

\* The headset goes away or refuses a write: nothing is pressed any more.
Lose ==
  /\ available
  /\ available' = FALSE
  /\ down' = FALSE
  /\ UNCHANGED <<owed, sinceTap>>

\* A button that comes back is up.
Recover ==
  /\ ~available
  /\ ~down
  /\ available' = TRUE
  /\ UNCHANGED <<down, owed, sinceTap>>

Tick ==
  /\ sinceTap < TapHold
  /\ sinceTap' = sinceTap + 1
  /\ UNCHANGED <<available, down, owed>>

\* The driver is unloaded.
Stop ==
  /\ available' = FALSE
  /\ down' = FALSE
  /\ owed' = 0
  /\ UNCHANGED sinceTap

Next ==
  \/ Post
  \/ Press
  \/ Miss
  \/ Drop
  \/ Release
  \/ Lose
  \/ Recover
  \/ Tick
  \/ Stop

Spec == Init /\ [][Next]_vars
=============================================================================
