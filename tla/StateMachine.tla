----------------------------- MODULE StateMachine -----------------------------
(***************************************************************************)
(* StateMachineImpl (src/core/src/state_machine.cpp), which turns the      *)
(* detector's stream of answers into taps.  MicMap configures it once and  *)
(* then only ever calls update, so the Training state, which update never  *)
(* enters or leaves, is not here.                                          *)
(***************************************************************************)
EXTENDS Clock

CONSTANTS
  MinDetectionDuration,  \* config_.minDetectionDuration, in ms
  CooldownDuration       \* config_.cooldownDuration, in ms

ASSUME StateMachineAssumption ==
  /\ MinDetectionDuration \in Nat
  /\ CooldownDuration \in Nat

VARIABLES
  currentState,  \* currentState_
  timeInState    \* timeInState_, in ms, saturating at MaxTimeInState

machineVars == <<currentState, timeInState>>

State == {"Idle", "Detecting", "Triggered", "Cooldown"}

MaxTimeInState ==
  IF MinDetectionDuration > CooldownDuration THEN MinDetectionDuration ELSE CooldownDuration

MachineTypeOK ==
  /\ currentState \in State
  /\ timeInState \in 0..MaxTimeInState

MachineInit ==
  /\ currentState = "Idle"
  /\ timeInState = 0

\* Mutant of transitionTo: the time spent in the old state is kept.
transitionToKeepsTime(newState) ==
  /\ currentState' = newState
  /\ UNCHANGED timeInState

\* Every caller names a state other than the current one.
transitionTo(newState) ==
  /\ currentState' = newState
  /\ timeInState' = 0

remain(elapsed) ==
  /\ timeInState' = elapsed
  /\ UNCHANGED currentState

updateIdle(detected, elapsed) ==
  /\ currentState = "Idle"
  /\ IF detected THEN transitionTo("Detecting") ELSE remain(elapsed)

updateDetecting(detected, elapsed) ==
  /\ currentState = "Detecting"
  /\ \/ ~detected /\ transitionTo("Idle")
     \/ detected /\ elapsed >= MinDetectionDuration /\ transitionTo("Triggered")
     \/ detected /\ elapsed < MinDetectionDuration /\ remain(elapsed)

\* Mutant of updateTriggered: the one-tick latch is never left.
updateTriggeredLatches(elapsed) ==
  /\ currentState = "Triggered"
  /\ remain(elapsed)

updateTriggered(elapsed) ==
  /\ currentState = "Triggered"
  /\ transitionTo("Cooldown")

updateCooldown(elapsed) ==
  /\ currentState = "Cooldown"
  /\ IF elapsed >= CooldownDuration THEN transitionTo("Idle") ELSE remain(elapsed)

\* The confidence MicMap passes is 1.0 or 0.0, on either side of the threshold.
update(detected, deltaTime) ==
  LET elapsed == Saturate(timeInState + deltaTime, MaxTimeInState)
  IN  \/ updateIdle(detected, elapsed)
      \/ updateDetecting(detected, elapsed)
      \/ updateTriggered(elapsed)
      \/ updateCooldown(elapsed)

\* The step calls triggerCallback_.
Fires == currentState = "Detecting" /\ currentState' = "Triggered"
=============================================================================
