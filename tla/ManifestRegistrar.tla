--------------------------- MODULE ManifestRegistrar ---------------------------
(***************************************************************************)
(* ManifestRegistrarImpl (src/steamvr/src/manifest_registrar.cpp) and the  *)
(* thread of MicMapApp that calls ensureRegistered until it succeeds       *)
(* (apps/micmap/main.cpp).  Each call on vr::IVRApplications is a step: in *)
(* between, SteamVR installs what was added, and another process may run   *)
(* `micmap.exe --unregister-vrmanifest'.                                   *)
(*                                                                         *)
(* The manifest path is a good one; a bad one ends registerApp before its  *)
(* first call, like an AddApplicationManifest that fails.                  *)
(***************************************************************************)
EXTENDS Integers

CONSTANT PollMaxAttempts   \* kPollMaxAttempts

ASSUME RegistrarAssumption == PollMaxAttempts \in Nat

VARIABLES
  manifestThread,  \* where manifestRetryThread is
  attempts,        \* turns of registerApp's poll loop taken
  added,           \* vrserver: the manifest was accepted
  installed,       \* vrserver: what IsApplicationInstalled answers
  autoLaunch       \* vrserver: MicMap starts with SteamVR

registrarVars == <<manifestThread, attempts, added, installed, autoLaunch>>

\* Inside a call that uses the process-wide OpenVR session.
Registering == {"ensure", "add", "poll", "set"}
Ended == {"finished", "cancelled"}

RegistrarTypeOK ==
  /\ manifestThread \in Registering \cup Ended \cup {"waiting", "sleeping"}
  /\ attempts \in 0..PollMaxAttempts
  /\ added \in BOOLEAN
  /\ installed \in BOOLEAN
  /\ autoLaunch \in BOOLEAN

\* Either MicMap has never been registered or an earlier registration is whole.
RegistrarInit ==
  /\ manifestThread = "waiting"
  /\ attempts = 0
  /\ added \in BOOLEAN
  /\ installed = added
  /\ autoLaunch = added

goto(place) ==
  /\ manifestThread' = place
  /\ UNCHANGED <<attempts, added, installed, autoLaunch>>
-----------------------------------------------------------------------------
(* vrserver *)

\* An accepted manifest becomes visible some time later.
Install ==
  /\ added
  /\ ~installed
  /\ installed' = TRUE
  /\ UNCHANGED <<manifestThread, attempts, added, autoLaunch>>

\* unregisterApp in another process.
Unregister ==
  /\ added
  /\ added' = FALSE
  /\ installed' = FALSE
  /\ autoLaunch' = FALSE
  /\ UNCHANGED <<manifestThread, attempts>>
-----------------------------------------------------------------------------
(* The thread *)

\* Mutant of Wait: the loop does not look at the cancel flag.
WaitUncancelled(cancel, initialized) ==
  /\ manifestThread = "waiting"
  /\ goto(IF initialized THEN "ensure" ELSE "sleeping")

\* Up to three seconds for a session, then thirty of sleep, both cut short by cancel.
Wait(cancel, initialized) ==
  /\ manifestThread = "waiting"
  /\ \/ cancel /\ goto("cancelled")
     \/ ~cancel /\ initialized /\ goto("ensure")
     \/ ~cancel /\ ~initialized /\ goto("sleeping")

Sleep ==
  /\ manifestThread = "sleeping"
  /\ goto("waiting")

ensureRegistered ==
  /\ manifestThread = "ensure"
  /\ goto(IF installed THEN "finished" ELSE "add")

AddApplicationManifest ==
  /\ manifestThread = "add"
  /\ \/ /\ manifestThread' = "poll"
        /\ attempts' = 0
        /\ added' = TRUE
        /\ UNCHANGED <<installed, autoLaunch>>
     \/ goto("sleeping")

\* One turn of the poll loop; after the last one nothing is asked again.
IsApplicationInstalled ==
  /\ manifestThread = "poll"
  /\ IF attempts = PollMaxAttempts THEN goto("sleeping")
     ELSE IF installed THEN goto("set")
     ELSE /\ attempts' = attempts + 1
          /\ UNCHANGED <<manifestThread, added, installed, autoLaunch>>

SetApplicationAutoLaunch ==
  /\ manifestThread = "set"
  /\ \/ /\ installed
        /\ autoLaunch' = TRUE
        /\ manifestThread' = "finished"
        /\ UNCHANGED <<attempts, added, installed>>
     \/ goto("sleeping")

registerApp ==
  \/ AddApplicationManifest
  \/ IsApplicationInstalled
  \/ SetApplicationAutoLaunch

RetryThread(cancel, initialized) ==
  \/ Wait(cancel, initialized)
  \/ Sleep
  \/ ensureRegistered
  \/ registerApp
=============================================================================
