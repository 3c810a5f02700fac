----------------------------- MODULE TapChannel -----------------------------
(***************************************************************************)
(* What the way from the application to the driver promises of a tap,      *)
(* wherever the driver listens and however often it comes and goes: each   *)
(* call is delivered at most once, is reported as a success only when it   *)
(* has been delivered, and is never sent again once it was reported; a     *)
(* failure that is reported may still be delivered later.                  *)
(***************************************************************************)
CONSTANT Calls

VARIABLES
  latest,   \* the call made last
  fate,     \* of each call: "unsent", "sent", "taken" by the driver, or "over"
  verdict   \* on the latest: "pending", "ok", "failed", or "none" to be seen

vars == <<latest, fate, verdict>>

Init ==
  /\ latest \in Calls
  /\ fate = [c \in Calls |-> "over"]
  /\ verdict = "none"

Begin ==
  /\ verdict # "pending"
  /\ \E c \in Calls : /\ fate[c] # "sent"
                      /\ latest' = c
                      /\ fate' = [fate EXCEPT ![c] = "unsent"]
  /\ verdict' = "pending"

Send ==
  /\ verdict = "pending" /\ fate[latest] = "unsent"
  /\ fate' = [fate EXCEPT ![latest] = "sent"]
  /\ UNCHANGED <<latest, verdict>>

Take(c) ==
  /\ fate[c] = "sent"
  /\ fate' = [fate EXCEPT ![c] = "taken"]
  /\ UNCHANGED <<latest, verdict>>

\* The connections are closed: what has not been taken never will be.
Lose ==
  /\ fate' = [c \in Calls |-> IF fate[c] = "sent" THEN "over" ELSE fate[c]]
  /\ UNCHANGED <<latest, verdict>>

Succeed ==
  /\ verdict = "pending" /\ fate[latest] = "taken"
  /\ verdict' = "ok"
  /\ UNCHANGED <<latest, fate>>

\* A call that has been sent is given up, not called back.
GiveUp ==
  /\ verdict = "pending"
  /\ verdict' = "failed"
  /\ fate' = [fate EXCEPT ![latest] = IF @ = "unsent" THEN "over" ELSE @]
  /\ UNCHANGED latest

\* Another button, or the window is closed.
Forget == verdict # "pending" /\ verdict' = "none" /\ UNCHANGED <<latest, fate>>

Next ==
  \/ Begin \/ Send \/ Lose \/ Succeed \/ GiveUp \/ Forget
  \/ \E c \in Calls : Take(c)

Spec == Init /\ [][Next]_vars
=============================================================================
