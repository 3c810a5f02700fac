--------------------------- MODULE BindingsPatcher ---------------------------
(***************************************************************************)
(* The bindings patcher (src/bindings/src/bindings_patcher.cpp): it edits  *)
(* SteamVR's generic_hmd bindings in place, keeps a backup of what it      *)
(* found, and adds two lighthouse_hmd files of its own; it also takes all  *)
(* of that back.  The driver runs it at every start of SteamVR, the        *)
(* installer runs it from the command line.                                *)
(*                                                                         *)
(* A step is one call of the file system.  Any call may fail, a process    *)
(* may die between any two of them, the two processes may run at the same  *)
(* time, and SteamVR and other tools write the same files.                 *)
(***************************************************************************)
EXTENDS Naturals

CONSTANTS
  Driver, Cli,   \* vrserver with driver_micmap.dll, and micmap.exe with a flag
  Missing, Torn, \* no file, and a file that does not parse
  MaxRev,        \* revisions of its file that SteamVR ships (a bound)
  MaxTrouble     \* failures, crashes, runs by hand, changes by others (a bound)

Procs == {Driver, Cli}

Generic  == "vrcompositor_bindings_generic_hmd.json"
Bindings == "vrcompositor_bindings_lighthouse_hmd.json"
Profile  == "lighthouse_hmd_profile.json"
Targets  == {Generic, Bindings, Profile}

(***************************************************************************)
(* A document is told by the revision it was made from (0: by another      *)
(* tool), whose the three actions in it are, and its marker.               *)
(***************************************************************************)
Document == [rev : 0..MaxRev, actions : {"valve", "micmap", "erased"},
             marker : {"none", "v1", "v2"}]
Content == Document \cup {Missing, Torn}

ASSUME BindingsAssumption ==
  /\ Driver # Cli
  /\ MaxRev \in Nat \ {0}
  /\ MaxTrouble \in Nat
  /\ Missing # Torn
  /\ Missing \notin Document
  /\ Torn \notin Document

VARIABLES
  files,      \* the three files SteamVR reads
  backup,     \* generic_hmd's .micmap_backup
  tmp,        \* the .micmap_tmp next to each file
  rev,        \* the revision SteamVR shipped last
  source,     \* what the copy under way to the backup has read
  pc,         \* where each process is
  job,        \* what it runs or ran last
  at,         \* the file it is at
  doc,        \* the document it has read or is about to write
  ok,         \* what it returns, or returned
  alone,      \* nothing else has moved since it began
  mixed,      \* where the other process was when the temporary file was opened
  copyFailed, \* taking the backup has failed, once
  trouble     \* how much of MaxTrouble is used up

procVars == <<pc, job, at, doc, ok>>
diskVars == <<files, backup, tmp, rev, source, mixed, copyFailed>>
vars == <<diskVars, procVars, alone, trouble>>

PatchJobs == {"PatchGenericHmdBindings", "--patch-bindings"}
Unpatch == "--unpatch-bindings"
Jobs == PatchJobs \cup {Unpatch}

TypeOK ==
  /\ files \in [Targets -> Content]
  /\ backup \in Content
  /\ tmp \in [Targets -> Content]
  /\ rev \in 1..MaxRev
  /\ source \in Content
  /\ pc \in [Procs -> {"idle", "look", "backup", "copying", "stage", "writing",
                       "rename", "restoring", "removing"}]
  /\ job \in [Procs -> Jobs \cup {"none"}]
  /\ at \in [Procs -> Targets]
  /\ doc \in [Procs -> Content]
  /\ ok \in [Procs -> BOOLEAN]
  /\ alone \in [Procs -> BOOLEAN]
  /\ mixed \in [Targets -> {"elsewhere", "writing", "rename"}]
  /\ copyFailed \in BOOLEAN
  /\ trouble \in 0..MaxTrouble
-----------------------------------------------------------------------------
Pristine(r) == [rev |-> r, actions |-> "valve", marker |-> "none"]
Foreign == Pristine(0)   \* a lighthouse_hmd file of somebody else

AlreadyPatched(d) == d \in Document /\ d.marker = "v2"
OwnedByLegacyMicmap(d) == d \in Document /\ d.marker = "v1"
Ours(d) == AlreadyPatched(d) \/ OwnedByLegacyMicmap(d)

ApplyPatchBumped(d) == [d EXCEPT !.actions = "micmap", !.marker = "v3"]
ApplyPatch(d) == [d EXCEPT !.actions = "micmap", !.marker = "v2"]
EraseMarkers(d) == [d EXCEPT !.actions = "erased", !.marker = "none"]
BuildControllerTypeBindings == [rev |-> 0, actions |-> "micmap", marker |-> "v2"]
BuildControllerTypeProfile == [rev |-> 0, actions |-> "micmap", marker |-> "v2"]

\* A fresh SteamVR, with the generic file or without, or one that an earlier
\* version of MicMap has patched, keeping its backup.
Init ==
  /\ rev = 1
  /\ \/ files = [f \in Targets |-> Missing] /\ backup = Missing
     \/ files = [f \in Targets |-> IF f = Generic THEN Pristine(1) ELSE Missing]
        /\ backup = Missing
     \/ files = [f \in Targets |->
                   [rev |-> IF f = Generic THEN 1 ELSE 0,
                    actions |-> "micmap", marker |-> "v1"]]
        /\ backup = Pristine(1)
  /\ tmp = [f \in Targets |-> Missing]
  /\ source = Missing
  /\ pc = [p \in Procs |-> "idle"]
  /\ job = [p \in Procs |-> "none"]
  /\ at = [p \in Procs |-> Generic]
  /\ doc = [p \in Procs |-> Missing]
  /\ ok = [p \in Procs |-> FALSE]
  /\ alone = [p \in Procs |-> FALSE]
  /\ mixed = [f \in Targets |-> "elsewhere"]
  /\ copyFailed = FALSE
  /\ trouble = 0
-----------------------------------------------------------------------------
(* Helpers of the steps.  What a step does to alone and trouble is added   *)
(* where the steps come together.                                          *)

At(p, label, jobs, targets) == pc[p] = label /\ job[p] \in jobs /\ at[p] \in targets
Other(p) == IF p = Driver THEN Cli ELSE Driver
HasOpen(q, f) == pc[q] = "writing" /\ at[q] = f
Restoring == \E q \in Procs : pc[q] = "restoring"

Goto(p, label) == pc' = [pc EXCEPT ![p] = label] /\ UNCHANGED <<job, at, doc, ok>>

Finish(p, good) ==
  /\ pc' = [pc EXCEPT ![p] = "idle"]
  /\ ok' = [ok EXCEPT ![p] = @ /\ good]
  /\ doc' = [doc EXCEPT ![p] = Missing]
  /\ UNCHANGED <<job, at>>

NextFile(p, good) ==
  /\ pc' = [pc EXCEPT ![p] = "look"]
  /\ ok' = [ok EXCEPT ![p] = @ /\ good]
  /\ at' = [at EXCEPT ![p] = IF @ = Generic THEN Bindings ELSE Profile]
  /\ doc' = [doc EXCEPT ![p] = Missing]
  /\ UNCHANGED job

\* The command line stops when generic_hmd is not well done (&&, or a return);
\* the driver goes on with the others (ok &=).
Stops(p, good) == at[p] = Profile \/ (at[p] = Generic /\ ~good /\ p = Cli)

Continue(p, good) == IF Stops(p, good) THEN Finish(p, good) ELSE NextFile(p, good)

Edit(p, label, d) ==
  /\ pc' = [pc EXCEPT ![p] = label]
  /\ doc' = [doc EXCEPT ![p] = d]
  /\ UNCHANGED <<job, at, ok>>
-----------------------------------------------------------------------------
(* Beginning *)

Begin(p) ==
  /\ pc[p] = "idle"
  /\ pc' = [pc EXCEPT ![p] = "look"]
  /\ \E j \in Jobs : /\ (p = Driver) <=> (j = "PatchGenericHmdBindings")
                     /\ job' = [job EXCEPT ![p] = j]
  /\ at' = [at EXCEPT ![p] = Generic]
  /\ ok' = [ok EXCEPT ![p] = TRUE]
  /\ UNCHANGED <<doc, diskVars>>

\* ResolveSteamVrConfigDir finds no directory: nothing is done.
BeginUnresolved(p) ==
  /\ pc[p] = "idle"
  /\ job' = [job EXCEPT ![p] = "none"]
  /\ ok' = [ok EXCEPT ![p] = FALSE]
  /\ UNCHANGED <<pc, at, doc, diskVars>>
-----------------------------------------------------------------------------
(* AtomicWriteJson: stage the document next to its file, then rename.      *)

StageOpenInPlace(p) ==
  /\ pc[p] = "stage"
  /\ files' = [files EXCEPT ![at[p]] = Torn]
  /\ tmp' = [tmp EXCEPT ![at[p]] = Torn]
  /\ Goto(p, "writing")
  /\ UNCHANGED <<backup, rev, source, mixed, copyFailed>>

\* The other process may have the same temporary file open, then both write into
\* it; or be about to rename it, then what it renames is ours.
StageOpen(p) ==
  /\ pc[p] = "stage"
  /\ tmp' = [tmp EXCEPT ![at[p]] = Torn]
  /\ mixed' = [mixed EXCEPT ![at[p]] =
                 LET staged(q) == pc[q] \in {"writing", "rename"} /\ at[q] = at[p] IN
                 IF staged(Other(p)) THEN pc[Other(p)] ELSE "elsewhere"]
  /\ Goto(p, "writing")
  /\ UNCHANGED <<files, backup, rev, source, copyFailed>>

StageClose(p) ==
  /\ pc[p] = "writing"
  /\ \E left \in IF mixed[at[p]] = "writing" THEN {doc[p], Torn} ELSE {doc[p]} :
       tmp' = [tmp EXCEPT ![at[p]] = left]
  /\ Goto(p, "rename")
  /\ UNCHANGED <<files, backup, rev, source, mixed, copyFailed>>

\* A file that another writer has open, or that is being copied over, cannot be
\* renamed, or replaced.
Rename(p) ==
  /\ pc[p] = "rename"
  /\ tmp[at[p]] # Missing
  /\ \A q \in Procs : ~HasOpen(q, at[p])
  /\ at[p] = Generic => ~Restoring
  /\ files' = [files EXCEPT ![at[p]] = tmp[at[p]]]
  /\ tmp' = [tmp EXCEPT ![at[p]] = Missing]
  /\ Continue(p, TRUE)
  /\ UNCHANGED <<backup, rev, source, mixed, copyFailed>>

\* Either call fails; the temporary file is removed, if no other has it open.
WriteFail(p) ==
  /\ pc[p] \in {"stage", "writing", "rename"}
  /\ tmp' = [tmp EXCEPT ![at[p]] =
               IF HasOpen(Other(p), at[p]) THEN @ ELSE Missing]
  /\ Continue(p, FALSE)
  /\ UNCHANGED <<files, backup, rev, source, mixed, copyFailed>>

\* The rename fails of itself: somebody else has the file open, or took it away.
RenameBlocked(p) ==
  /\ pc[p] = "rename"
  /\ \/ tmp[at[p]] = Missing
     \/ \E q \in Procs : HasOpen(q, at[p])
     \/ at[p] = Generic /\ Restoring
  /\ WriteFail(p)
-----------------------------------------------------------------------------
(* Patching: PatchGenericHmdBindingsFile, then EnsureControllerTypeFiles   *)

PatchLookTakesLegacy(p) ==
  /\ At(p, "look", PatchJobs, {Generic})
  /\ \/ files[Generic] \notin Document /\ Continue(p, FALSE)
     \/ Ours(files[Generic]) /\ Continue(p, TRUE)
     \/ /\ files[Generic] \in Document /\ ~Ours(files[Generic])
        /\ Edit(p, "backup", files[Generic])
  /\ UNCHANGED diskVars

PatchLook(p) ==
  /\ At(p, "look", PatchJobs, {Generic})
  /\ \/ files[Generic] \notin Document /\ Continue(p, FALSE)
     \/ AlreadyPatched(files[Generic]) /\ Continue(p, TRUE)
     \/ /\ files[Generic] \in Document /\ ~AlreadyPatched(files[Generic])
        /\ Edit(p, "backup", files[Generic])
  /\ UNCHANGED diskVars

\* A backup that is there is kept, whatever it holds.
BackupSkip(p) ==
  /\ pc[p] = "backup"
  /\ backup # Missing
  /\ Edit(p, "stage", ApplyPatch(doc[p]))
  /\ UNCHANGED diskVars

BackupBeginAnew(p) ==
  /\ pc[p] = "backup"
  /\ files[Generic] # Missing /\ ~Restoring
  /\ backup' = Torn
  /\ source' = files[Generic]
  /\ Goto(p, "copying")
  /\ UNCHANGED <<files, tmp, rev, mixed, copyFailed>>

BackupBegin(p) ==
  /\ pc[p] = "backup"
  /\ backup = Missing /\ files[Generic] # Missing /\ ~Restoring
  /\ backup' = Torn
  /\ source' = files[Generic]
  /\ Goto(p, "copying")
  /\ UNCHANGED <<files, tmp, rev, mixed, copyFailed>>

BackupEnd(p) ==
  /\ pc[p] = "copying"
  /\ backup' = source
  /\ source' = Missing
  /\ Edit(p, "stage", ApplyPatch(doc[p]))
  /\ UNCHANGED <<files, tmp, rev, mixed, copyFailed>>

\* A copy that fails is reported in the log, and the patch goes on without it.
BackupFail(p) ==
  /\ pc[p] \in {"backup", "copying"}
  /\ pc[p] = "backup" => backup = Missing
  /\ backup' = Missing
  /\ source' = Missing
  /\ copyFailed' = TRUE
  /\ Edit(p, "stage", ApplyPatch(doc[p]))
  /\ UNCHANGED <<files, tmp, rev, mixed>>

EnsureLookKeepsLegacy(p) ==
  /\ At(p, "look", PatchJobs, {Bindings, Profile})
  /\ IF files[at[p]] = Missing
       THEN Edit(p, "stage", IF at[p] = Bindings THEN BuildControllerTypeBindings
                                                 ELSE BuildControllerTypeProfile)
       ELSE Continue(p, Ours(files[at[p]]))
  /\ UNCHANGED diskVars
EnsureLookOverwrites(p) ==
  /\ At(p, "look", PatchJobs, {Bindings, Profile})
  /\ Edit(p, "stage", IF at[p] = Bindings THEN BuildControllerTypeBindings
                                          ELSE BuildControllerTypeProfile)
  /\ UNCHANGED diskVars

EnsureLook(p) ==
  /\ At(p, "look", PatchJobs, {Bindings, Profile})
  /\ LET found == files[at[p]] IN
     \/ /\ found = Missing \/ OwnedByLegacyMicmap(found)
        /\ Edit(p, "stage", IF at[p] = Bindings THEN BuildControllerTypeBindings
                                                ELSE BuildControllerTypeProfile)
     \/ AlreadyPatched(found) /\ Continue(p, TRUE)
     \/ found # Missing /\ ~Ours(found) /\ Continue(p, FALSE)
  /\ UNCHANGED diskVars
-----------------------------------------------------------------------------
(* The way back: UnpatchGenericHmdBindingsFile                             *)

\* From the backup: it is copied over the file, whatever the file holds.
RestoreBegin(p) ==
  /\ At(p, "look", {Unpatch}, {Generic})
  /\ files[Generic] # Missing /\ backup # Missing
  /\ \A q \in Procs : pc[q] # "copying"
  /\ files' = [files EXCEPT ![Generic] = Torn]
  /\ Edit(p, "restoring", backup)
  /\ UNCHANGED <<backup, tmp, rev, source, mixed, copyFailed>>

RestoreEnd(p) ==
  /\ pc[p] = "restoring"
  /\ files' = [files EXCEPT ![Generic] = doc[p]]
  /\ Continue(p, TRUE)
  /\ UNCHANGED <<backup, tmp, rev, source, mixed, copyFailed>>

\* The copy fails: before it has touched the file, or half way.
RestoreFail(p) ==
  /\ \/ At(p, "look", {Unpatch}, {Generic}) /\ files[Generic] # Missing /\ backup # Missing
     \/ pc[p] = "restoring"
  /\ Finish(p, FALSE)
  /\ UNCHANGED diskVars

\* Without a backup: our actions and markers are erased in place.
UnpatchLook(p) ==
  /\ At(p, "look", {Unpatch}, {Generic})
  /\ LET found == files[Generic] IN
     \/ found = Missing /\ Finish(p, TRUE)
     \/ /\ found # Missing /\ backup = Missing
        /\ \/ found = Torn /\ Finish(p, FALSE)
           \/ found \in Document /\ ~Ours(found) /\ Finish(p, TRUE)
           \/ Ours(found) /\ Edit(p, "stage", EraseMarkers(found))
  /\ UNCHANGED diskVars

PurgeLook(p) ==
  /\ At(p, "look", {Unpatch}, {Bindings, Profile})
  /\ IF Ours(files[at[p]]) THEN Goto(p, "removing") ELSE Continue(p, TRUE)
  /\ UNCHANGED diskVars

PurgeRemove(p) ==
  /\ pc[p] = "removing"
  /\ files' = [files EXCEPT ![at[p]] = Missing]
  /\ Continue(p, TRUE)
  /\ UNCHANGED <<backup, tmp, rev, source, mixed, copyFailed>>

\* fs::remove fails: logged, and nothing else.
PurgeFail(p) ==
  /\ pc[p] = "removing"
  /\ Continue(p, TRUE)
  /\ UNCHANGED diskVars
-----------------------------------------------------------------------------
(* The world outside *)

\* vrserver or micmap.exe dies: what is on the disk stays as it is.
Crash(p) ==
  /\ pc[p] # "idle"
  /\ pc' = [pc EXCEPT ![p] = "idle"]
  /\ job' = [job EXCEPT ![p] = "none"]
  /\ ok' = [ok EXCEPT ![p] = FALSE]
  /\ doc' = [doc EXCEPT ![p] = Missing]
  /\ UNCHANGED <<at, diskVars>>

SteamVRUpdate ==
  /\ rev < MaxRev /\ ~Restoring
  /\ rev' = rev + 1
  /\ files' = [files EXCEPT ![Generic] = Pristine(rev + 1)]
  /\ UNCHANGED <<backup, tmp, source, mixed, copyFailed, procVars>>

ThirdParty ==
  /\ \E f \in {Bindings, Profile} :
       files[f] = Missing /\ files' = [files EXCEPT ![f] = Foreign]
  /\ UNCHANGED <<backup, tmp, rev, source, mixed, copyFailed, procVars>>
-----------------------------------------------------------------------------
Step(p) ==
  \/ StageOpen(p) \/ StageClose(p) \/ Rename(p) \/ RenameBlocked(p)
  \/ PatchLook(p) \/ BackupSkip(p) \/ BackupBegin(p) \/ BackupEnd(p) \/ EnsureLook(p)
  \/ RestoreBegin(p) \/ RestoreEnd(p)
  \/ UnpatchLook(p) \/ PurgeLook(p) \/ PurgeRemove(p)

Fault(p) ==
  \/ WriteFail(p) \/ BackupFail(p) \/ RestoreFail(p) \/ PurgeFail(p)
  \/ Crash(p) \/ BeginUnresolved(p)

Moves(p) == alone' = [q \in Procs |-> q = p /\ alone[q]]
Spend == trouble < MaxTrouble /\ trouble' = trouble + 1

Works(p) == Step(p) /\ Moves(p) /\ UNCHANGED trouble
Fails(p) == Fault(p) /\ Moves(p) /\ Spend

\* SteamVR starts again and again; a run by hand is counted.
Starts(p) ==
  /\ Begin(p)
  /\ alone' = [q \in Procs |-> q = p]
  /\ IF p = Driver THEN UNCHANGED trouble ELSE Spend

OthersWrite ==
  /\ SteamVRUpdate \/ ThirdParty
  /\ alone' = [q \in Procs |-> FALSE]
  /\ Spend

Next ==
  \/ \E p \in Procs : Works(p) \/ Fails(p) \/ Starts(p)
  \/ OthersWrite

Spec == Init /\ [][Next]_vars

\* A process that has begun is run to its end, and SteamVR is started again.
Fairness ==
  /\ WF_vars(Works(Driver)) /\ WF_vars(Works(Cli))
  /\ WF_vars(Starts(Driver))
FairSpec == Spec /\ Fairness
-----------------------------------------------------------------------------
(* Properties *)

\* The backup, once it is complete, is the file as SteamVR shipped it, never one
\* of ours: the copy is taken once, before the first patch, also when two
\* processes patch at the same time or one dies on the way.  (A copy that fails
\* gives up on that: a later patch may back up what an earlier one left.)
BackupPristine ==
  backup \in Document /\ ~copyFailed => backup.marker = "none" /\ backup.actions = "valve"

\* A result can be relied on: when nothing else has moved since the run began,
\* true means all three files carry the current marker, or, for the way back,
\* that generic_hmd is readable and free of ours.  Only a backup that is itself
\* incomplete, or was taken of a patched file, makes it restore something else.
ResultHonest ==
  \A p \in Procs : pc[p] = "idle" /\ alone[p] /\ ok[p] =>
    /\ job[p] \in PatchJobs => \A f \in Targets : AlreadyPatched(files[f])
    /\ job[p] = Unpatch => \/ files[Generic] # Torn /\ ~Ours(files[Generic])
                           \/ backup = Torn
                           \/ copyFailed

\* A file that SteamVR reads is never left half written by a crash or a failure
\* of the patch: it becomes unreadable only while a backup is copied over it, by a
\* backup that is incomplete, or when both processes staged it at the same time.
TornOnly ==
  [][\A f \in Targets : files[f] # Torn /\ files'[f] = Torn =>
       \/ \E p \in Procs : pc'[p] = "restoring" /\ f = Generic
       \/ mixed[f] # "elsewhere"]_vars

\* A lighthouse_hmd file of somebody else is neither overwritten nor deleted, but
\* by a process that had looked before the file came.
ForeignKept ==
  [][\A f \in {Bindings, Profile} : files[f] = Foreign /\ files'[f] # Foreign =>
       \E p \in Procs : /\ pc[p] \in {"rename", "removing"} /\ at[p] = f
                        /\ ~alone[p]]_vars

\* Once failures, crashes, other writers and runs by hand are over, the next
\* starts of SteamVR bring every file to the patched state for good, except a
\* file that is not there, that is unreadable, or that is somebody else's.
Recovers ==
  <>[](/\ AlreadyPatched(files[Generic]) \/ files[Generic] \in {Missing, Torn}
       /\ \A f \in {Bindings, Profile} :
            AlreadyPatched(files[f]) \/ files[f] \in {Foreign, Torn})
=============================================================================
