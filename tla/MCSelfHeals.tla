------------------------------ MODULE MCSelfHeals ------------------------------
(***************************************************************************)
(* AppLifecycle, asked what the manifest thread has achieved when it ends. *)
(***************************************************************************)
EXTENDS AppLifecycle

\* manifest_registrar.cpp:17-19 says that against auto-launch drift "ensureRegistered
\* is idempotent ... so GUI boot re-registration self-heals": once the thread has
\* ended with Success, SteamVR starts MicMap.
SelfHeals ==
  [][manifestThread # "finished" /\ manifestThread' = "finished" => autoLaunch']_vars
=============================================================================
