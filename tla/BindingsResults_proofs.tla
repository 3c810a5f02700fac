------------------------ MODULE BindingsResults_proofs ------------------------
(***************************************************************************)
(* More about BindingsPatcher, over the invariant of                       *)
(* BindingsPatcher_proofs: what a process knows as long as nothing else    *)
(* has moved since it began, and from it that its result is honest and     *)
(* that it leaves the files of others alone; what it puts in place of a    *)
(* file; and that a run ends.                                              *)
(***************************************************************************)
EXTENDS BindingsPatcher_proofs, MCUnpatch, Integers

\* About to replace or delete a file, it has seen that it is not somebody else's.
Watched(p) ==
  alone[p] /\ pc[p] \in {"stage", "writing", "rename", "removing"} /\ at[p] # Generic
    => files[at[p]] # Foreign

\* What it has staged is its document, unless the other keeps the file open, in which
\* case it cannot be renamed.
Staged(p) ==
  alone[p] =>
    /\ pc[p] = "writing" /\ mixed[at[p]] = "writing" => HasOpen(Other(p), at[p])
    /\ pc[p] = "rename" => tmp[at[p]] = doc[p] \/ HasOpen(Other(p), at[p])

\* The files a process has dealt with before it is at f.
Before(f) ==
  IF f = Generic THEN {} ELSE IF f = Bindings THEN {Generic} ELSE {Generic, Bindings}

PatchDone(p) ==
  alone[p] /\ ok[p] /\ job[p] \in PatchJobs =>
    /\ pc[p] = "idle" => \A f \in Targets : AlreadyPatched(files[f])
    /\ pc[p] # "idle" => \A f \in Before(at[p]) : AlreadyPatched(files[f])
    /\ pc[p] \in {"stage", "writing", "rename"} => AlreadyPatched(doc[p])

\* generic_hmd is rid of us, as far as its backup allows.
Settled == (files[Generic] # Torn /\ ~Ours(files[Generic])) \/ backup = Torn \/ copyFailed

UnpatchDone(p) ==
  job[p] = Unpatch =>
    /\ pc[p] \notin {"backup", "copying"}
    /\ pc[p] \in {"stage", "writing", "rename", "restoring"} => at[p] = Generic
    /\ pc[p] \in {"stage", "writing", "rename"} => ~Ours(doc[p])
    /\ alone[p] /\ pc[p] = "restoring" => doc[p] = backup /\ backup # Missing
    /\ alone[p] /\ ok[p] /\ (pc[p] = "idle" \/ at[p] # Generic) => Settled

Results == \A p \in Procs : Watched(p) /\ Staged(p) /\ PatchDone(p) /\ UnpatchDone(p)
-----------------------------------------------------------------------------
(* Documents and positions *)

LEMMA DocumentsOurs ==
  /\ \A d \in Document : AlreadyPatched(ApplyPatch(d)) /\ ~Ours(EraseMarkers(d))
  /\ AlreadyPatched(BuildControllerTypeBindings) /\ AlreadyPatched(BuildControllerTypeProfile)
  /\ Foreign \in Document /\ Foreign # Missing /\ ~Ours(Foreign)
  /\ \A c : AlreadyPatched(c) => Ours(c)
  /\ \A c : Clean(c) => ~Ours(c)
  <1>1. \A d \in Document : AlreadyPatched(ApplyPatch(d))
    BY Documents DEF AlreadyPatched, ApplyPatch, Document
  <1>2. \A d \in Document : ~Ours(EraseMarkers(d))
    BY DEF Ours, AlreadyPatched, OwnedByLegacyMicmap, EraseMarkers, Document
  <1>3. AlreadyPatched(BuildControllerTypeBindings) /\ AlreadyPatched(BuildControllerTypeProfile)
    BY Documents DEF AlreadyPatched, BuildControllerTypeBindings, BuildControllerTypeProfile
  <1>4. 0 \in 0..MaxRev
    BY BindingsAssumption
  <1>5. Foreign \in Document /\ Foreign # Missing /\ ~Ours(Foreign)
    BY <1>4, Documents, Contents DEF Foreign
  <1>6. \A c : AlreadyPatched(c) => Ours(c)
    BY DEF Ours
  <1>7. \A c : Clean(c) => ~Ours(c)
    BY DEF Clean, Ours, AlreadyPatched, OwnedByLegacyMicmap
  <1> QED
    BY <1>1, <1>2, <1>3, <1>5, <1>6, <1>7

LEMMA Names ==
  /\ Generic # Bindings /\ Generic # Profile /\ Bindings # Profile
  /\ Targets = {Generic, Bindings, Profile}
  /\ Unpatch \notin PatchJobs /\ Unpatch # "none" /\ "none" \notin PatchJobs
  BY DEF Generic, Bindings, Profile, Targets, Unpatch, PatchJobs

\* Where Goto, Edit, Finish and Continue leave a process.
LEMMA Stays ==
  ASSUME ProcTypeOK, NEW p \in Procs
  PROVE  /\ \A label : Goto(p, label) =>
              ok'[p] = ok[p] /\ at'[p] = at[p] /\ doc'[p] = doc[p] /\ job'[p] = job[p]
              /\ pc'[p] = label
         /\ \A label, d : Edit(p, label, d) =>
              ok'[p] = ok[p] /\ at'[p] = at[p] /\ doc'[p] = d /\ job'[p] = job[p]
              /\ pc'[p] = label
  <1>1. \A label : Goto(p, label) => pc'[p] = label
    BY DEF Goto, ProcTypeOK
  <1>2. \A label, d : Edit(p, label, d) => pc'[p] = label /\ doc'[p] = d
    BY DEF Edit, ProcTypeOK
  <1> QED
    BY <1>1, <1>2 DEF Goto, Edit

LEMMA Leaves ==
  ASSUME ProcTypeOK, NEW p \in Procs, NEW good \in BOOLEAN,
         Continue(p, good) \/ Finish(p, good)
  PROVE  /\ pc'[p] \in {"idle", "look"} /\ job'[p] = job[p]
         /\ ok'[p] => ok[p] /\ good
         /\ pc'[p] = "look" =>
              /\ at[p] # Profile
              /\ at'[p] = IF at[p] = Generic THEN Bindings ELSE Profile
         /\ pc'[p] = "idle" => at'[p] = at[p]
         /\ Continue(p, good) /\ pc'[p] = "idle" =>
              at[p] = Profile \/ (at[p] = Generic /\ ~good)
  <1>1. CASE Finish(p, good) /\ ~NextFile(p, good)
    <2>1. pc'[p] = "idle" /\ at' = at /\ job' = job
      BY <1>1 DEF Finish, ProcTypeOK
    <2>2. ok'[p] => ok[p] /\ good
      BY <1>1 DEF Finish, ProcTypeOK
    <2> QED
      BY <1>1, <2>1, <2>2 DEF Continue, Stops
  <1>2. CASE NextFile(p, good) /\ Continue(p, good)
    <2>1. pc'[p] = "look" /\ job' = job
      BY <1>2 DEF NextFile, ProcTypeOK
    <2>2. ok'[p] => ok[p] /\ good
      BY <1>2 DEF NextFile, ProcTypeOK
    <2>3. at'[p] = IF at[p] = Generic THEN Bindings ELSE Profile
      BY <1>2 DEF NextFile, ProcTypeOK
    <2>4. ~Finish(p, good)
      BY <2>1 DEF Finish, ProcTypeOK
    <2>5. at[p] # Profile
      BY <1>2, <2>4 DEF Continue, Stops
    <2> QED
      BY <2>1, <2>2, <2>3, <2>5
  <1>3. ~(Finish(p, good) /\ NextFile(p, good))
    BY DEF Finish, NextFile, ProcTypeOK
  <1> QED
    BY <1>1, <1>2, <1>3 DEF Continue

-----------------------------------------------------------------------------
(* A file is done with *)

\* What is true of a process that stops, or looks at its next file.
LEMMA AfterPatch ==
  ASSUME ProcTypeOK, NEW p \in Procs, PatchDone(p), NEW good \in BOOLEAN,
         Continue(p, good), pc[p] # "idle", alone'[p] => alone[p],
         alone[p] /\ ok[p] /\ job[p] \in PatchJobs /\ good => AlreadyPatched(files'[at[p]]),
         \A f \in Targets \ {at[p]} : files'[f] = files[f]
  PROVE  PatchDone(p)'
  <1> SUFFICES ASSUME alone'[p], ok'[p], job'[p] \in PatchJobs
               PROVE  /\ pc'[p] = "idle" => \A f \in Targets : AlreadyPatched(files'[f])
                      /\ pc'[p] # "idle" => \A f \in Before(at'[p]) : AlreadyPatched(files'[f])
                      /\ pc'[p] \in {"stage", "writing", "rename"} => AlreadyPatched(doc'[p])
    BY DEF PatchDone, AlreadyPatched
  <1>1. /\ pc'[p] \in {"idle", "look"} /\ job[p] \in PatchJobs /\ ok[p] /\ good
        /\ pc'[p] = "look" =>
             at[p] # Profile /\ at'[p] = IF at[p] = Generic THEN Bindings ELSE Profile
        /\ pc'[p] = "idle" => at[p] = Profile
    BY Leaves
  <1>2. AlreadyPatched(files'[at[p]]) /\ at[p] \in Targets
    BY <1>1 DEF ProcTypeOK
  <1>3. \A f \in Before(at[p]) : f \in Targets \ {at[p]} /\ AlreadyPatched(files[f])
    BY <1>1, <1>2, Names DEF PatchDone, Before
  <1>4. \A f \in Before(at[p]) \cup {at[p]} : AlreadyPatched(files'[f])
    BY <1>2, <1>3
  <1>5. pc'[p] = "idle" => Targets = Before(at[p]) \cup {at[p]}
    BY <1>1, Names DEF Before
  <1>6. pc'[p] = "look" => Before(at'[p]) = Before(at[p]) \cup {at[p]}
    BY <1>1, <1>2, Names DEF Before
  <1> QED
    BY <1>1, <1>4, <1>5, <1>6

LEMMA AfterUnpatch ==
  ASSUME ProcTypeOK, NEW p \in Procs, NEW good \in BOOLEAN,
         Continue(p, good) \/ Finish(p, good), alone'[p] => alone[p],
         job[p] = Unpatch /\ alone[p] /\ ok[p] /\ good => Settled'
  PROVE  UnpatchDone(p)'
  BY Leaves DEF UnpatchDone

LEMMA AfterAny ==
  ASSUME ProcTypeOK, NEW p \in Procs, NEW good \in BOOLEAN,
         Continue(p, good) \/ Finish(p, good)
  PROVE  Watched(p)' /\ Staged(p)'
  BY Leaves DEF Watched, Staged
-----------------------------------------------------------------------------
(* The steps of one process *)

Known(p) == Watched(p) /\ Staged(p) /\ PatchDone(p) /\ UnpatchDone(p)

LEMMA OtherProc ==
  ASSUME NEW p \in Procs
  PROVE  Other(p) \in Procs /\ Other(p) # p /\ \A q \in Procs : q = p \/ q = Other(p)
  BY BindingsAssumption DEF Other, Procs

LEMMA BeginKnown ==
  ASSUME ProcTypeOK, NEW p \in Procs, Begin(p) \/ BeginUnresolved(p) \/ Crash(p)
  PROVE  Known(p)'
  <1>1. CASE Begin(p)
    <2>1. pc'[p] = "look" /\ at'[p] = Generic
      BY <1>1 DEF Begin, ProcTypeOK
    <2> QED
      BY <2>1 DEF Known, Watched, Staged, PatchDone, UnpatchDone, Before
  <1>2. CASE BeginUnresolved(p) \/ Crash(p)
    <2>1. pc'[p] = "idle" /\ job'[p] = "none"
      BY <1>2 DEF BeginUnresolved, Crash, ProcTypeOK
    <2> QED
      BY <2>1, Names DEF Known, Watched, Staged, PatchDone, UnpatchDone
  <1> QED
    BY <1>1, <1>2

LEMMA WriteKnown ==
  ASSUME DiskTypeOK, ProcTypeOK, Inv, NEW p \in Procs, Known(p), alone'[p] => alone[p],
         StageOpen(p) \/ StageClose(p) \/ Rename(p) \/ WriteFail(p) \/ RenameBlocked(p)
  PROVE  Known(p)'
  <1> at[p] \in Targets
    BY DEF ProcTypeOK
  <1>1. CASE StageOpen(p)
    <2>1. /\ ok'[p] = ok[p] /\ at'[p] = at[p] /\ doc'[p] = doc[p] /\ job'[p] = job[p]
          /\ pc[p] = "stage" /\ pc'[p] = "writing" /\ SameElsewhere(p)
      BY <1>1, Stays, Here DEF StageOpen
    <2>2. /\ mixed'[at[p]] = "writing" => HasOpen(Other(p), at[p])
          /\ UNCHANGED <<files, backup, copyFailed>>
      BY <1>1 DEF StageOpen, DiskTypeOK, HasOpen
    <2>3. HasOpen(Other(p), at[p])' = HasOpen(Other(p), at[p])
      BY <2>1, OtherProc DEF HasOpen, SameElsewhere
    <2>4. Watched(p)'  BY <2>1, <2>2 DEF Known, Watched
    <2>5. Staged(p)'
      BY <2>1, <2>2, <2>3 DEF Staged
    <2>6. PatchDone(p)'  BY <2>1, <2>2 DEF Known, PatchDone
    <2>7. UnpatchDone(p)'  BY <2>1, <2>2 DEF Known, UnpatchDone, Settled
    <2> QED
      BY <2>4, <2>5, <2>6, <2>7 DEF Known
  <1>2. CASE StageClose(p)
    <2>1. /\ ok'[p] = ok[p] /\ at'[p] = at[p] /\ doc'[p] = doc[p] /\ job'[p] = job[p]
          /\ pc[p] = "writing" /\ pc'[p] = "rename" /\ SameElsewhere(p)
      BY <1>2, Stays, Here DEF StageClose
    <2>2. /\ tmp'[at[p]] = doc[p] \/ mixed[at[p]] = "writing"
          /\ UNCHANGED <<files, backup, copyFailed>>
      BY <1>2 DEF StageClose, DiskTypeOK
    <2>3. HasOpen(Other(p), at[p]) => HasOpen(Other(p), at[p])'
      BY <2>1, OtherProc DEF HasOpen, SameElsewhere
    <2>4. Watched(p)'  BY <2>1, <2>2 DEF Known, Watched
    <2>5. Staged(p)'
      BY <2>1, <2>2, <2>3 DEF Known, Staged
    <2>6. PatchDone(p)'  BY <2>1, <2>2 DEF Known, PatchDone
    <2>7. UnpatchDone(p)'  BY <2>1, <2>2 DEF Known, UnpatchDone, Settled
    <2> QED
      BY <2>4, <2>5, <2>6, <2>7 DEF Known
  <1>3. CASE Rename(p)
    <2>1. /\ pc[p] = "rename" /\ Continue(p, TRUE) /\ ~HasOpen(Other(p), at[p])
          /\ files'[at[p]] = tmp[at[p]] /\ UNCHANGED <<backup, copyFailed>>
          /\ \A f \in Targets \ {at[p]} : files'[f] = files[f]
      BY <1>3, OtherProc DEF Rename, DiskTypeOK
    <2>2. alone[p] => files'[at[p]] = doc[p]
      BY <2>1 DEF Known, Staged
    <2>3. PatchDone(p)'
      BY <2>1, <2>2, AfterPatch DEF Known, PatchDone
    <2>4. UnpatchDone(p)'
      <3>1. ASSUME job[p] = Unpatch, alone[p]  PROVE Settled'
        <4>1. at[p] = Generic /\ ~Ours(doc[p]) /\ doc[p] \in Document
          BY <2>1, <3>1 DEF Known, UnpatchDone, Inv, Holds
        <4> QED
          BY <2>2, <3>1, <4>1, Contents DEF Settled, Ours, AlreadyPatched, OwnedByLegacyMicmap
      <3> QED
        BY <2>1, <3>1, AfterUnpatch
    <2> QED
      BY <2>1, <2>3, <2>4, AfterAny DEF Known
  <1>4. CASE WriteFail(p) \/ RenameBlocked(p)
    <2>1. Continue(p, FALSE) /\ pc[p] # "idle" /\ files' = files
      BY <1>4 DEF RenameBlocked, WriteFail
    <2>2. PatchDone(p)'  BY <2>1, AfterPatch DEF Known
    <2>3. UnpatchDone(p)'  BY <2>1, AfterUnpatch
    <2> QED
      BY <2>1, <2>2, <2>3, AfterAny DEF Known
  <1> QED
    BY <1>1, <1>2, <1>3, <1>4

\* A process that reads, and stops or goes on to its next file.
LEMMA LookKnown ==
  ASSUME DiskTypeOK, ProcTypeOK, NEW p \in Procs, Known(p), alone'[p] => alone[p],
         UNCHANGED diskVars, pc[p] # "idle", NEW good \in BOOLEAN, Continue(p, good),
         good /\ job[p] \in PatchJobs => AlreadyPatched(files[at[p]]),
         good /\ job[p] = Unpatch => at[p] # Generic
  PROVE  Known(p)'
  <1>1. PatchDone(p)'
    BY AfterPatch DEF Known, diskVars
  <1>2. UnpatchDone(p)'
    <2>1. job[p] = Unpatch /\ alone[p] /\ ok[p] /\ good => Settled
      BY DEF Known, UnpatchDone
    <2>2. Settled' = Settled
      BY DEF Settled, diskVars
    <2> QED
      BY <2>1, <2>2, AfterUnpatch
  <1> QED
    BY <1>1, <1>2, AfterAny DEF Known

LEMMA PatchKnown ==
  ASSUME DiskTypeOK, ProcTypeOK, Inv, NEW p \in Procs, Known(p), alone'[p] => alone[p],
         PatchLook(p) \/ BackupSkip(p) \/ BackupBegin(p) \/ BackupEnd(p) \/ BackupFail(p)
           \/ EnsureLook(p)
  PROVE  Known(p)'
  <1>1. CASE PatchLook(p)
    <2>1. pc[p] = "look" /\ job[p] \in PatchJobs /\ job[p] # Unpatch /\ at[p] = Generic
          /\ UNCHANGED diskVars
      BY <1>1, Names DEF PatchLook, At
    <2>2. CASE Continue(p, FALSE)
      BY <2>1, <2>2, LookKnown
    <2>3. CASE AlreadyPatched(files[Generic]) /\ Continue(p, TRUE)
      BY <2>1, <2>3, LookKnown
    <2>4. CASE Edit(p, "backup", files[Generic])
      <3>1. /\ ok'[p] = ok[p] /\ at'[p] = Generic /\ job'[p] = job[p] /\ pc'[p] = "backup"
        BY <2>1, <2>4, Stays
      <3> QED
        BY <2>1, <3>1 DEF Known, Watched, Staged, PatchDone, UnpatchDone, Before
    <2> QED
      BY <1>1, <2>2, <2>3, <2>4 DEF PatchLook
  <1>2. CASE BackupBegin(p)
    <2>1. /\ ok'[p] = ok[p] /\ at'[p] = at[p] /\ job'[p] = job[p]
          /\ pc[p] = "backup" /\ pc'[p] = "copying" /\ files' = files
      BY <1>2, Stays DEF BackupBegin
    <2> QED
      BY <2>1 DEF Known, Watched, Staged, PatchDone, UnpatchDone
  <1>3. CASE BackupSkip(p) \/ BackupEnd(p) \/ BackupFail(p)
    <2>1. /\ pc[p] \in {"backup", "copying"} /\ files' = files
          /\ Edit(p, "stage", ApplyPatch(doc[p]))
      BY <1>3 DEF BackupSkip, BackupEnd, BackupFail, diskVars
    <2>2. /\ ok'[p] = ok[p] /\ at'[p] = at[p] /\ doc'[p] = ApplyPatch(doc[p])
          /\ job'[p] = job[p] /\ pc'[p] = "stage"
      BY <2>1, Stays
    <2>3. doc[p] \in Document /\ at[p] = Generic /\ job[p] # Unpatch
      BY <2>1 DEF Inv, Holds, Known, UnpatchDone
    <2>4. AlreadyPatched(doc'[p])
      BY <2>2, <2>3, DocumentsOurs
    <2> QED
      BY <2>1, <2>2, <2>3, <2>4 DEF Known, Watched, Staged, PatchDone, UnpatchDone
  <1>4. CASE EnsureLook(p)
    <2>1. /\ pc[p] = "look" /\ job[p] \in PatchJobs /\ job[p] # Unpatch /\ at[p] # Generic
          /\ UNCHANGED diskVars
      BY <1>4, Names DEF EnsureLook, At
    <2>2. CASE Continue(p, FALSE)
      BY <2>1, <2>2, LookKnown
    <2>3. CASE AlreadyPatched(files[at[p]]) /\ Continue(p, TRUE)
      BY <2>1, <2>3, LookKnown
    <2>4. CASE /\ files[at[p]] = Missing \/ OwnedByLegacyMicmap(files[at[p]])
               /\ \E d : AlreadyPatched(d) /\ Edit(p, "stage", d)
      <3>1. PICK d : AlreadyPatched(d) /\ Edit(p, "stage", d)
        BY <2>4
      <3>2. /\ ok'[p] = ok[p] /\ at'[p] = at[p] /\ doc'[p] = d
            /\ job'[p] = job[p] /\ pc'[p] = "stage"
        BY <3>1, Stays
      <3>3. files'[at[p]] # Foreign
        BY <2>1, <2>4, DocumentsOurs DEF diskVars, Ours
      <3> QED
        BY <2>1, <3>1, <3>2, <3>3
           DEF diskVars, Known, Watched, Staged, PatchDone, UnpatchDone
    <2> QED
      BY <1>4, <2>2, <2>3, <2>4, DocumentsOurs DEF EnsureLook
  <1> QED
    BY <1>1, <1>2, <1>3, <1>4

LEMMA UnpatchKnown ==
  ASSUME DiskTypeOK, ProcTypeOK, Inv, NEW p \in Procs, Known(p), alone'[p] => alone[p],
         RestoreBegin(p) \/ RestoreEnd(p) \/ RestoreFail(p) \/ UnpatchLook(p)
           \/ PurgeLook(p) \/ PurgeRemove(p) \/ PurgeFail(p)
  PROVE  Known(p)'
  <1> USE Names
  <1>1. CASE RestoreBegin(p)
    <2>1. /\ ok'[p] = ok[p] /\ at'[p] = at[p] /\ doc'[p] = backup /\ job'[p] = job[p]
          /\ pc'[p] = "restoring" /\ at[p] = Generic /\ job[p] = Unpatch
          /\ backup' = backup /\ backup # Missing
      BY <1>1, Stays DEF RestoreBegin, At
    <2> QED
      BY <2>1 DEF Known, Watched, Staged, PatchDone, UnpatchDone
  <1>2. CASE RestoreEnd(p)
    <2>1. /\ pc[p] = "restoring" /\ job[p] = Unpatch /\ at[p] = Generic
          /\ Continue(p, TRUE) /\ UNCHANGED <<backup, copyFailed>>
          /\ files'[Generic] = doc[p]
          /\ \A f \in Targets \ {at[p]} : files'[f] = files[f]
      BY <1>2 DEF RestoreEnd, Inv, Holds, Known, UnpatchDone, DiskTypeOK
    <2>2. ASSUME alone[p]  PROVE Settled'
      <3>1. files'[Generic] = backup /\ backup # Missing
        BY <2>1, <2>2 DEF Known, UnpatchDone
      <3>2. CASE backup = Torn  BY <2>1, <3>2 DEF Settled
      <3>3. CASE copyFailed  BY <2>1, <3>3 DEF Settled
      <3>4. CASE backup \in Document /\ ~copyFailed
        <4>1. ~Ours(backup) /\ backup # Torn
          BY <3>4, DocumentsOurs, Contents DEF Inv, BackupFirst
        <4> QED
          BY <3>1, <4>1 DEF Settled, Ours, AlreadyPatched, OwnedByLegacyMicmap
      <3> QED
        BY <3>1, <3>2, <3>3, <3>4, Contents DEF DiskTypeOK
    <2>3. PatchDone(p)'  BY <2>1, Leaves DEF PatchDone
    <2>4. UnpatchDone(p)'  BY <2>1, <2>2, AfterUnpatch
    <2> QED
      BY <2>1, <2>3, <2>4, AfterAny DEF Known
  <1>3. CASE RestoreFail(p)
    <2>1. Finish(p, FALSE)
      BY <1>3 DEF RestoreFail
    <2>2. PatchDone(p)'  BY <2>1, Leaves DEF PatchDone
    <2>3. UnpatchDone(p)'  BY <2>1, AfterUnpatch
    <2> QED
      BY <2>1, <2>2, <2>3, AfterAny DEF Known
  <1>4. CASE UnpatchLook(p)
    <2>1. pc[p] = "look" /\ job[p] = Unpatch /\ at[p] = Generic /\ UNCHANGED diskVars
      BY <1>4 DEF UnpatchLook, At
    <2>2. CASE \E good \in BOOLEAN :
                 Finish(p, good) /\ (good => files[Generic] # Torn /\ ~Ours(files[Generic]))
      <3>1. PICK good \in BOOLEAN :
              Finish(p, good) /\ (good => files[Generic] # Torn /\ ~Ours(files[Generic]))
        BY <2>2
      <3>2. good => Settled
        BY <3>1 DEF Settled
      <3>3. Settled' = Settled
        BY <2>1 DEF Settled, diskVars
      <3>4. UnpatchDone(p)'  BY <3>1, <3>2, <3>3, AfterUnpatch
      <3>5. PatchDone(p)'  BY <2>1, <3>1, Leaves DEF PatchDone
      <3> QED
        BY <3>1, <3>4, <3>5, AfterAny DEF Known
    <2>3. CASE Ours(files[Generic]) /\ Edit(p, "stage", EraseMarkers(files[Generic]))
      <3>1. /\ ok'[p] = ok[p] /\ at'[p] = at[p] /\ doc'[p] = EraseMarkers(files[Generic])
            /\ job'[p] = job[p] /\ pc'[p] = "stage"
        BY <2>3, Stays
      <3>2. ~Ours(doc'[p])
        BY <2>3, <3>1, DocumentsOurs, Documents
      <3> QED
        BY <2>1, <3>1, <3>2 DEF Known, Watched, Staged, PatchDone, UnpatchDone, Ours,
                                AlreadyPatched, OwnedByLegacyMicmap
    <2>4. Missing # Torn /\ ~Ours(Missing)
      BY Contents, Documents
    <2> QED
      BY <1>4, <2>2, <2>3, <2>4, Contents DEF UnpatchLook
  <1>5. CASE PurgeLook(p)
    <2>1. /\ pc[p] = "look" /\ job[p] = Unpatch /\ at[p] # Generic /\ UNCHANGED diskVars
      BY <1>5 DEF PurgeLook, At
    <2>2. CASE Continue(p, TRUE)
      BY <2>1, <2>2, LookKnown
    <2>3. CASE Ours(files[at[p]]) /\ Goto(p, "removing")
      <3>1. /\ ok'[p] = ok[p] /\ at'[p] = at[p] /\ job'[p] = job[p] /\ pc'[p] = "removing"
        BY <2>3, Stays
      <3>2. files'[at[p]] # Foreign
        BY <2>1, <2>3, DocumentsOurs DEF diskVars
      <3>3. Settled' = Settled
        BY <2>1 DEF Settled, diskVars
      <3> QED
        BY <2>1, <3>1, <3>2, <3>3 DEF Known, Watched, Staged, PatchDone, UnpatchDone
    <2> QED
      BY <1>5, <2>2, <2>3 DEF PurgeLook
  <1>6. CASE PurgeRemove(p) \/ PurgeFail(p)
    <2>1. pc[p] = "removing" /\ job[p] = Unpatch /\ at[p] # Generic /\ Continue(p, TRUE)
          /\ UNCHANGED <<backup, copyFailed>> /\ files'[Generic] = files[Generic]
      BY <1>6 DEF PurgeRemove, PurgeFail, Inv, Holds, diskVars, DiskTypeOK
    <2>2. Settled' = Settled
      BY <2>1 DEF Settled, Ours, AlreadyPatched, OwnedByLegacyMicmap
    <2>3. UnpatchDone(p)'
      BY <2>1, <2>2, AfterUnpatch DEF Known, UnpatchDone
    <2>4. PatchDone(p)'  BY <2>1, Leaves DEF PatchDone
    <2> QED
      BY <2>1, <2>3, <2>4, AfterAny DEF Known
  <1> QED
    BY <1>1, <1>2, <1>3, <1>4, <1>5, <1>6
-----------------------------------------------------------------------------
(* The invariant *)

\* Nobody who has not moved is alone any more.
LEMMA OthersKnown ==
  ASSUME NEW p \in Procs, Known(p), ~alone'[p], UNCHANGED <<pc[p], job[p], at[p], doc[p]>>
  PROVE  Known(p)'
  <1>1. Watched(p)' /\ Staged(p)' /\ PatchDone(p)'
    BY DEF Watched, Staged, PatchDone
  <1>2. UnpatchDone(p)'
    BY DEF Known, UnpatchDone
  <1> QED
    BY <1>1, <1>2 DEF Known

LEMMA Itself ==
  ASSUME ProcTypeOK, NEW p \in Procs, Begin(p) \/ Step(p) \/ Fault(p)
  PROVE  SameElsewhere(p)
  <1>1. CASE Begin(p) \/ BeginUnresolved(p) \/ Crash(p)
    BY <1>1 DEF Begin, BeginUnresolved, Crash, SameElsewhere, ProcTypeOK
  <1>2. CASE StageOpen(p) \/ StageClose(p) \/ Rename(p) \/ RenameBlocked(p) \/ WriteFail(p)
    BY <1>2, Here DEF StageOpen, StageClose, Rename, RenameBlocked, WriteFail
  <1>3. CASE PatchLook(p) \/ BackupSkip(p) \/ BackupBegin(p) \/ BackupEnd(p) \/ BackupFail(p)
               \/ EnsureLook(p)
    BY <1>3, Here DEF PatchLook, BackupSkip, BackupBegin, BackupEnd, BackupFail, EnsureLook
  <1>4. CASE RestoreBegin(p) \/ RestoreEnd(p) \/ RestoreFail(p) \/ UnpatchLook(p)
               \/ PurgeLook(p) \/ PurgeRemove(p) \/ PurgeFail(p)
    BY <1>4, Here DEF RestoreBegin, RestoreEnd, RestoreFail, UnpatchLook, PurgeLook,
                      PurgeRemove, PurgeFail
  <1> QED
    BY <1>1, <1>2, <1>3, <1>4 DEF Step, Fault

LEMMA InitResults == Init => Results
  BY DEF Init, Results, Watched, Staged, PatchDone, UnpatchDone, Unpatch

LEMMA NextResults == IInv /\ Results /\ [Next]_vars => Results'
  <1> SUFFICES ASSUME IInv, Results, [Next]_vars PROVE Results'
    OBVIOUS
  <1> DiskTypeOK /\ ProcTypeOK /\ Inv
    BY DEF IInv, TypeOK, DiskTypeOK, ProcTypeOK, Inv
  <1>1. \A p \in Procs : Known(p)
    BY DEF Results, Known
  <1>2. ASSUME NEW p \in Procs, Works(p) \/ Fails(p) \/ Starts(p) PROVE Results'
    <2>1. Begin(p) \/ Step(p) \/ Fault(p)
      BY <1>2 DEF Works, Fails, Starts
    <2>2. /\ \A q \in Procs \ {p} : ~alone'[q]
          /\ Begin(p) \/ (alone'[p] => alone[p])
      BY <1>2 DEF Works, Fails, Starts, Moves
    <2>3. ASSUME NEW q \in Procs \ {p} PROVE Known(q)'
      <3>1. UNCHANGED <<pc[q], job[q], at[q], doc[q]>>
        BY <2>1, Itself DEF SameElsewhere
      <3> QED
        BY <1>1, <2>2, <3>1, OthersKnown
    <2>4. Known(p)'
      <3>1. CASE Begin(p) \/ BeginUnresolved(p) \/ Crash(p)
        BY <3>1, BeginKnown
      <3>2. CASE ~Begin(p) /\ ~BeginUnresolved(p) /\ ~Crash(p)
        BY <1>1, <2>1, <2>2, <3>2, WriteKnown, PatchKnown, UnpatchKnown DEF Step, Fault
      <3> QED
        BY <3>1, <3>2
    <2> QED
      BY <2>3, <2>4 DEF Results, Known
  <1>3. CASE OthersWrite
    <2>1. \A p \in Procs : ~alone'[p] /\ UNCHANGED <<pc[p], job[p], at[p], doc[p]>>
      BY <1>3 DEF OthersWrite, SteamVRUpdate, ThirdParty, procVars
    <2> QED
      BY <1>1, <2>1, OthersKnown DEF Results, Known
  <1>4. CASE UNCHANGED vars
    BY <1>4 DEF vars, diskVars, procVars, Results, Watched, Staged, PatchDone, UnpatchDone,
                Settled, HasOpen
  <1> QED
    BY <1>2, <1>3, <1>4 DEF Next

\* What a process knows of its files stays true.
THEOREM ResultsInvariance == Spec => []Results
  BY InitResults, NextResults, Invariance, PTL DEF Spec
-----------------------------------------------------------------------------
(* The theorems *)

\* A result can be relied on whenever nothing else has moved since the run began, for
\* every interleaving of failures and crashes before it.
THEOREM AlwaysResultHonest == Spec => []ResultHonest
  <1>1. TypeOK /\ Results => ResultHonest
    <2> SUFFICES ASSUME TypeOK, Results, NEW p \in Procs, pc[p] = "idle", alone[p], ok[p]
                 PROVE  /\ job[p] \in PatchJobs => \A f \in Targets : AlreadyPatched(files[f])
                        /\ job[p] = Unpatch =>
                             \/ files[Generic] # Torn /\ ~Ours(files[Generic])
                             \/ backup = Torn
                             \/ copyFailed
      BY DEF ResultHonest
    <2>1. job[p] \in PatchJobs => \A f \in Targets : AlreadyPatched(files[f])
      BY DEF Results, PatchDone
    <2>2. job[p] = Unpatch => Settled
      BY DEF Results, UnpatchDone
    <2> QED
      BY <2>1, <2>2 DEF Settled
  <1> QED
    BY <1>1, TypeCorrect, ResultsInvariance, PTL

\* A lighthouse_hmd file of somebody else is overwritten or deleted only by a process
\* which something has overtaken since it looked.
THEOREM AlwaysForeignKept == Spec => ForeignKept
  <1> DEFINE A == \A f \in {Bindings, Profile} : files[f] = Foreign /\ files'[f] # Foreign =>
                    \E p \in Procs : /\ pc[p] \in {"rename", "removing"} /\ at[p] = f
                                     /\ ~alone[p]
  <1>1. IInv /\ Results /\ [Next]_vars => A
    <2> SUFFICES ASSUME IInv, Results, [Next]_vars, NEW f \in {Bindings, Profile},
                        files[f] = Foreign, files'[f] # Foreign
                 PROVE  \E p \in Procs : /\ pc[p] \in {"rename", "removing"} /\ at[p] = f
                                         /\ ~alone[p]
      OBVIOUS
    <2> DiskTypeOK /\ ProcTypeOK /\ f \in Targets /\ f # Generic
      BY Names DEF IInv, TypeOK, DiskTypeOK, ProcTypeOK
    <2>1. PICK p \in Procs : Begin(p) \/ Step(p) \/ Fault(p)
      <3>1. ~OthersWrite
        BY DocumentsOurs DEF OthersWrite, SteamVRUpdate, ThirdParty, DiskTypeOK
      <3>2. ~UNCHANGED vars
        BY DEF vars, diskVars
      <3> QED
        BY <3>1, <3>2 DEF Next, Works, Fails, Starts
    <2>2. Rename(p) \/ RestoreBegin(p) \/ RestoreEnd(p) \/ PurgeRemove(p)
      BY <2>1 DEF Step, Fault, Begin, BeginUnresolved, Crash, StageOpen, StageClose,
           WriteFail, RenameBlocked, PatchLook, BackupSkip, BackupBegin, BackupEnd, BackupFail,
           EnsureLook, RestoreFail, UnpatchLook, PurgeLook, PurgeFail, diskVars
    <2>3. Rename(p) \/ PurgeRemove(p)
      BY <2>2 DEF RestoreBegin, RestoreEnd, DiskTypeOK
    <2>4. pc[p] \in {"rename", "removing"} /\ at[p] = f
      BY <2>3 DEF Rename, PurgeRemove, DiskTypeOK
    <2>5. ~alone[p]
      BY <2>4 DEF Results, Watched
    <2> QED
      BY <2>4, <2>5
  <1>2. IInv /\ Results /\ [Next]_vars => [A]_vars
    BY <1>1
  <1> QED
    BY <1>2, Invariance, ResultsInvariance, PTL DEF Spec, ForeignKept
-----------------------------------------------------------------------------
(* What a process puts in place of a file *)

Staging(p) == pc[p] \in {"writing", "rename"}

\* A temporary file opened by one process at a time is marked so, and then holds the
\* document of the process about to rename it.
OneWriter ==
  \A p, q \in Procs : p # q /\ Staging(p) /\ Staging(q) /\ at[p] = at[q] =>
    mixed[at[p]] # "elsewhere"

Closed ==
  \A p \in Procs : pc[p] = "rename" /\ mixed[at[p]] = "elsewhere" =>
    tmp[at[p]] \in {doc[p], Missing}

LEMMA StageOpenOwn ==
  ASSUME DiskTypeOK, ProcTypeOK, OneWriter, Closed, NEW p \in Procs, StageOpen(p)
  PROVE  OneWriter' /\ Closed'
  <1> at[p] \in Targets /\ Other(p) \in Procs
    BY OtherProc DEF ProcTypeOK
  <1>1. /\ SameElsewhere(p) /\ pc'[p] = "writing" /\ at'[p] = at[p] /\ doc'[p] = doc[p]
        /\ \A f \in Targets \ {at[p]} : tmp'[f] = tmp[f] /\ mixed'[f] = mixed[f]
    BY Here DEF StageOpen, DiskTypeOK
  <1>2. ASSUME NEW q \in Procs \ {p}, Staging(q), at[q] = at[p]
        PROVE  mixed'[at[p]] # "elsewhere"
    <2>1. q = Other(p)
      BY OtherProc
    <2>2. mixed'[at[p]] = pc[q]
      BY <1>2, <2>1 DEF StageOpen, DiskTypeOK, Staging
    <2> QED
      BY <1>2, <2>2 DEF Staging
  <1>3. ASSUME NEW q \in Procs \ {p}
        PROVE  (Staging(q)' <=> Staging(q)) /\ at'[q] = at[q] /\ at[q] \in Targets
    BY <1>1 DEF SameElsewhere, Staging, ProcTypeOK
  <1>4. ASSUME NEW q \in Procs \ {p}, NEW r \in Procs \ {p}, q # r, Staging(q), Staging(r)
        PROVE  FALSE
    <2>1. q = Other(p) /\ r = Other(p)
      BY OtherProc
    <2> QED
      BY <1>4, <2>1
  <1>5. OneWriter'
    BY <1>1, <1>2, <1>3, <1>4 DEF OneWriter
  <1>6. ASSUME NEW q \in Procs, pc'[q] = "rename", mixed'[at'[q]] = "elsewhere"
        PROVE  tmp'[at'[q]] \in {doc'[q], Missing}
    <2>1. q # p /\ pc[q] = "rename" /\ at'[q] = at[q] /\ doc'[q] = doc[q]
      BY <1>1, <1>6 DEF SameElsewhere
    <2>2. at[q] # at[p]
      BY <1>2, <1>6, <2>1 DEF Staging
    <2> QED
      BY <1>1, <1>3, <1>6, <2>1, <2>2 DEF Closed
  <1> QED
    BY <1>5, <1>6 DEF Closed

LEMMA StageCloseOwn ==
  ASSUME DiskTypeOK, ProcTypeOK, OneWriter, Closed, NEW p \in Procs, StageClose(p)
  PROVE  OneWriter' /\ Closed'
  <1> at[p] \in Targets
    BY DEF ProcTypeOK
  <1>1. /\ SameElsewhere(p) /\ pc[p] = "writing" /\ pc'[p] = "rename" /\ mixed' = mixed
        /\ at'[p] = at[p] /\ doc'[p] = doc[p]
        /\ \A f \in Targets \ {at[p]} : tmp'[f] = tmp[f]
    BY Here DEF StageClose, DiskTypeOK
  <1>2. \A q \in Procs : (Staging(q)' <=> Staging(q)) /\ at'[q] = at[q] /\ at[q] \in Targets
    BY <1>1 DEF SameElsewhere, Staging, ProcTypeOK
  <1>3. OneWriter'
    BY <1>1, <1>2 DEF OneWriter
  <1>4. ASSUME NEW q \in Procs, pc'[q] = "rename", mixed'[at'[q]] = "elsewhere"
        PROVE  tmp'[at'[q]] \in {doc'[q], Missing}
    <2>1. CASE q = p
      <3>1. mixed[at[p]] # "writing"
        BY <1>1, <1>4, <2>1
      <3> QED
        BY <1>1, <2>1, <3>1 DEF StageClose, DiskTypeOK
    <2>2. CASE q # p
      <3>1. pc[q] = "rename" /\ at'[q] = at[q] /\ doc'[q] = doc[q] /\ mixed[at[q]] = "elsewhere"
        BY <1>1, <1>4, <2>2 DEF SameElsewhere
      <3>2. at[q] # at[p]
        BY <1>1, <2>2, <3>1 DEF OneWriter, Staging
      <3> QED
        BY <1>1, <1>2, <3>1, <3>2 DEF Closed
    <2> QED
      BY <2>1, <2>2
  <1> QED
    BY <1>3, <1>4 DEF Closed

\* A process that is not about to write any more disturbs neither.
LEMMA NotStagingOwn ==
  ASSUME ProcTypeOK, OneWriter, Closed, NEW p \in Procs, SameElsewhere(p),
         pc'[p] \notin {"writing", "rename"}, mixed' = mixed,
         \A f \in Targets : tmp'[f] \in {tmp[f], Missing}
  PROVE  OneWriter' /\ Closed'
  <1>1. ASSUME NEW q \in Procs, Staging(q)'
        PROVE  /\ q # p /\ Staging(q) /\ at'[q] = at[q] /\ at[q] \in Targets
               /\ pc'[q] = pc[q] /\ doc'[q] = doc[q]
    BY <1>1 DEF Staging, SameElsewhere, ProcTypeOK
  <1>2. OneWriter'
    BY <1>1 DEF OneWriter
  <1>3. Closed'
    BY <1>1 DEF Closed, Staging
  <1> QED
    BY <1>2, <1>3

\* Only three steps bring a process to write, to rename or to restore.
LEMMA Lands ==
  ASSUME ProcTypeOK, NEW p \in Procs, Begin(p) \/ Step(p) \/ Fault(p),
         ~StageOpen(p), ~StageClose(p), ~RestoreBegin(p)
  PROVE  pc'[p] \notin {"writing", "rename", "restoring"}
  <1>1. /\ \A label, d : Goto(p, label) \/ Edit(p, label, d) => pc'[p] = label
        /\ \A good : Continue(p, good) \/ Finish(p, good) => pc'[p] \in {"idle", "look"}
    BY Here
  <1>2. CASE Begin(p) \/ BeginUnresolved(p) \/ Crash(p)
    BY <1>2 DEF Begin, BeginUnresolved, Crash, ProcTypeOK
  <1>3. CASE Rename(p) \/ RenameBlocked(p) \/ WriteFail(p)
    <2>1. \E good \in BOOLEAN : Continue(p, good)
      BY <1>3 DEF Rename, RenameBlocked, WriteFail
    <2> QED
      BY <1>1, <2>1
  <1>4. CASE PatchLook(p) \/ EnsureLook(p)
    <2>1. (\E good \in BOOLEAN : Continue(p, good))
            \/ \E label \in {"backup", "stage"} : \E d : Edit(p, label, d)
      <3>1. CASE PatchLook(p)  BY <3>1 DEF PatchLook
      <3>2. CASE EnsureLook(p)  BY <3>2 DEF EnsureLook
      <3> QED  BY <1>4, <3>1, <3>2
    <2> QED
      BY <1>1, <2>1
  <1>5. CASE BackupSkip(p) \/ BackupBegin(p) \/ BackupEnd(p) \/ BackupFail(p)
    BY <1>1, <1>5 DEF BackupSkip, BackupBegin, BackupEnd, BackupFail
  <1>6. CASE RestoreEnd(p) \/ RestoreFail(p) \/ PurgeRemove(p) \/ PurgeFail(p)
    BY <1>1, <1>6 DEF RestoreEnd, RestoreFail, PurgeRemove, PurgeFail
  <1>7. CASE UnpatchLook(p) \/ PurgeLook(p)
    <2>1. (\E good \in BOOLEAN : Continue(p, good) \/ Finish(p, good))
            \/ (\E d : Edit(p, "stage", d)) \/ Goto(p, "removing")
      <3>1. CASE UnpatchLook(p)  BY <3>1 DEF UnpatchLook
      <3>2. CASE PurgeLook(p)  BY <3>2 DEF PurgeLook
      <3> QED  BY <1>7, <3>1, <3>2
    <2> QED
      BY <1>1, <2>1
  <1> QED
    BY <1>2, <1>3, <1>4, <1>5, <1>6, <1>7 DEF Step, Fault

LEMMA WritesOwnStep ==
  IInv /\ OneWriter /\ Closed /\ [Next]_vars => OneWriter' /\ Closed'
  <1> SUFFICES ASSUME IInv, OneWriter, Closed, [Next]_vars PROVE OneWriter' /\ Closed'
    OBVIOUS
  <1> DiskTypeOK /\ ProcTypeOK /\ Inv
    BY DEF IInv, TypeOK, DiskTypeOK, ProcTypeOK, Inv
  <1>1. ASSUME NEW p \in Procs, Begin(p) \/ Step(p) \/ Fault(p)
        PROVE  OneWriter' /\ Closed'
    <2>1. SameElsewhere(p)
      BY <1>1, Itself
    <2>2. CASE StageOpen(p)
      BY <2>2, StageOpenOwn
    <2>3. CASE StageClose(p)
      BY <2>3, StageCloseOwn
    <2>4. CASE ~StageOpen(p) /\ ~StageClose(p)
      <3>1. mixed' = mixed
        BY <1>1, <2>4 DEF Step, Fault, Begin, BeginUnresolved, Crash, Rename, WriteFail,
             RenameBlocked, PatchLook, BackupSkip, BackupBegin, BackupEnd, BackupFail,
             EnsureLook, RestoreBegin, RestoreEnd, RestoreFail, UnpatchLook, PurgeLook,
             PurgeRemove, PurgeFail, diskVars
      <3>2. \A f \in Targets : tmp'[f] \in {tmp[f], Missing}
        <4>1. CASE Rename(p) \/ WriteFail(p) \/ RenameBlocked(p)
          BY <4>1 DEF Rename, WriteFail, RenameBlocked, DiskTypeOK
        <4>2. CASE ~Rename(p) /\ ~WriteFail(p) /\ ~RenameBlocked(p)
          <5>1. tmp' = tmp
            BY <1>1, <2>4, <4>2 DEF Step, Fault, Begin, BeginUnresolved, Crash, PatchLook,
                 BackupSkip, BackupBegin, BackupEnd, BackupFail, EnsureLook, RestoreBegin,
                 RestoreEnd, RestoreFail, UnpatchLook, PurgeLook, PurgeRemove, PurgeFail,
                 diskVars
          <5> QED
            BY <5>1
        <4> QED
          BY <4>1, <4>2
      <3>3. pc'[p] \notin {"writing", "rename"}
        <4>1. CASE RestoreBegin(p)
          BY <4>1, Here DEF RestoreBegin
        <4> QED
          BY <1>1, <2>4, <4>1, Lands
      <3> QED
        BY <2>1, <3>1, <3>2, <3>3, NotStagingOwn
    <2> QED
      BY <2>2, <2>3, <2>4
  <1>2. CASE OthersWrite \/ UNCHANGED vars
    <2>1. UNCHANGED <<procVars, tmp, mixed>>
      BY <1>2 DEF OthersWrite, SteamVRUpdate, ThirdParty, vars, diskVars
    <2> QED
      BY <2>1 DEF procVars, OneWriter, Closed, Staging
  <1> QED
    BY <1>1, <1>2 DEF Next, Works, Fails, Starts

\* What a process puts in place of a file, unless the other process had staged the same
\* file when it opened its temporary file, is its own document, whole: however the two
\* interleave after that, one fails, dies or starts anew, it never installs the other's
\* document nor a part of one.
WritesItsOwn ==
  [][\A p \in Procs : Rename(p) /\ mixed[at[p]] = "elsewhere" =>
       files'[at[p]] = doc[p]]_vars

\* The invariant above holds, and with it WritesItsOwn: the bindings SteamVR reads after
\* a rename are those this process made.
THEOREM AlwaysWritesItsOwn == Spec => WritesItsOwn
  <1> DEFINE A == \A p \in Procs : Rename(p) /\ mixed[at[p]] = "elsewhere" =>
                    files'[at[p]] = doc[p]
  <1>1. Init => OneWriter /\ Closed
    BY DEF Init, OneWriter, Closed, Staging
  <1>2. IInv /\ Closed => A
    <2> SUFFICES ASSUME IInv, Closed, NEW p \in Procs, Rename(p), mixed[at[p]] = "elsewhere"
                 PROVE  files'[at[p]] = doc[p]
      OBVIOUS
    <2>1. files \in [Targets -> Content] /\ at[p] \in Targets
      BY DEF IInv, TypeOK
    <2>2. pc[p] = "rename" /\ tmp[at[p]] # Missing /\ files'[at[p]] = tmp[at[p]]
      BY <2>1 DEF Rename
    <2> QED
      BY <2>2 DEF Closed
  <1>3. IInv /\ Closed => [A]_vars
    BY <1>2
  <1> QED
    BY <1>1, <1>3, WritesOwnStep, Invariance, PTL DEF Spec, WritesItsOwn

\* Taking the bindings back copies over generic_hmd a file as SteamVR shipped it, or one
\* that does not parse, and never one of ours, unless taking the backup had failed.
RestoresShipped ==
  \A p \in Procs : pc[p] = "restoring" /\ ~copyFailed => Clean(doc[p])

\* Although the backup may be replaced or lost between the look and the copy.
THEOREM AlwaysRestoresShipped == Spec => []RestoresShipped
  <1>1. Init => RestoresShipped
    BY DEF Init, RestoresShipped
  <1>2. IInv /\ RestoresShipped /\ [Next]_vars => RestoresShipped'
    <2> SUFFICES ASSUME IInv, RestoresShipped, [Next]_vars PROVE RestoresShipped'
      OBVIOUS
    <2> DiskTypeOK /\ ProcTypeOK /\ Inv
      BY DEF IInv, TypeOK, DiskTypeOK, ProcTypeOK, Inv
    <2>1. ASSUME NEW p \in Procs, Begin(p) \/ Step(p) \/ Fault(p) PROVE RestoresShipped'
      <3>1. SameElsewhere(p)
        BY <2>1, Itself
      <3>2. copyFailed => copyFailed'
        BY <2>1 DEF Step, Fault, Begin, BeginUnresolved, Crash, StageOpen, StageClose, Rename,
             WriteFail, RenameBlocked, PatchLook, BackupSkip, BackupBegin, BackupEnd,
             BackupFail, EnsureLook, RestoreBegin, RestoreEnd, RestoreFail, UnpatchLook,
             PurgeLook, PurgeRemove, PurgeFail, diskVars
      <3>3. CASE RestoreBegin(p)
        <4>1. doc'[p] = backup /\ copyFailed' = copyFailed
          BY <3>3, Here DEF RestoreBegin
        <4>2. ~copyFailed => Clean(backup)
          BY DEF Inv, BackupFirst
        <4> QED
          BY <3>1, <4>1, <4>2 DEF RestoresShipped, SameElsewhere, Clean
      <3>4. CASE ~RestoreBegin(p)
        <4>1. CASE StageOpen(p) \/ StageClose(p)
          <5>1. pc'[p] # "restoring"
            BY <4>1, Here DEF StageOpen, StageClose
          <5> QED
            BY <3>1, <3>2, <5>1 DEF RestoresShipped, SameElsewhere, Clean
        <4>2. CASE ~StageOpen(p) /\ ~StageClose(p)
          <5>1. pc'[p] # "restoring"
            BY <2>1, <3>4, <4>2, Lands
          <5> QED
            BY <3>1, <3>2, <5>1 DEF RestoresShipped, SameElsewhere, Clean
        <4> QED
          BY <4>1, <4>2
      <3> QED
        BY <3>3, <3>4
    <2>2. CASE OthersWrite \/ UNCHANGED vars
      <3>1. UNCHANGED <<procVars, copyFailed>>
        BY <2>2 DEF OthersWrite, SteamVRUpdate, ThirdParty, vars, diskVars
      <3> QED
        BY <3>1 DEF procVars, RestoresShipped, Clean
    <2> QED
      BY <2>1, <2>2 DEF Next, Works, Fails, Starts
  <1> QED
    BY <1>1, <1>2, Invariance, PTL DEF Spec
-----------------------------------------------------------------------------
(* A run ends *)

FilesLeft == [f \in Targets |-> IF f = Generic THEN 2 ELSE IF f = Bindings THEN 1 ELSE 0]
StepsLeft == [look |-> 6, backup |-> 5, copying |-> 4, stage |-> 3, writing |-> 2,
              rename |-> 1, restoring |-> 1, removing |-> 1]
Labels == {"look", "backup", "copying", "stage", "writing", "rename", "restoring", "removing"}

\* What is left of a run: the files after this one, and the calls for this one.
RunLeft(p) == IF pc[p] = "idle" THEN 0 ELSE 7 * FilesLeft[at[p]] + StepsLeft[pc[p]]

Ends(p) ==
  /\ (RunLeft(p)' <= RunLeft(p)) \/ Starts(p)
  /\ (Works(p) \/ Fails(p)) /\ pc[p] # "idle" => (RunLeft(p)' < RunLeft(p))

\* Every call a process makes, and every failure of one, brings its run nearer to its
\* end, and nothing another process, SteamVR or another tool does takes it further away:
\* there is no retry, no loop, and no wait for the other process.
RunsEnd == [][\A p \in Procs : Ends(p)]_vars

LEMMA Measures ==
  /\ FilesLeft[Generic] = 2 /\ FilesLeft[Bindings] = 1 /\ FilesLeft[Profile] = 0
  /\ \A label \in Labels : StepsLeft[label] \in 1..6
  BY Names DEF FilesLeft, StepsLeft, Labels

\* A step of a run leaves a file behind, or a call, or the whole of it.
LEMMA Shapes ==
  ASSUME ProcTypeOK, NEW p \in Procs, Step(p) \/ Fault(p), pc[p] # "idle"
  PROVE  \/ \E good \in BOOLEAN : Continue(p, good) \/ Finish(p, good)
         \/ pc'[p] = "idle"
         \/ at'[p] = at[p] /\ pc'[p] \in Labels /\ StepsLeft[pc'[p]] < StepsLeft[pc[p]]
  <1>1. \A label, d : Goto(p, label) \/ Edit(p, label, d) => at'[p] = at[p] /\ pc'[p] = label
    BY Here
  <1>2. CASE Rename(p) \/ WriteFail(p) \/ RenameBlocked(p)
    BY <1>2 DEF Rename, WriteFail, RenameBlocked
  <1>3. CASE StageOpen(p) \/ StageClose(p)
    BY <1>1, <1>3 DEF StageOpen, StageClose, StepsLeft, Labels
  <1>4. CASE PatchLook(p) \/ EnsureLook(p)
    <2>1. pc[p] = "look" /\ ((\E good \in BOOLEAN : Continue(p, good))
            \/ \E label \in {"backup", "stage"} : \E d : Edit(p, label, d))
      <3>1. CASE PatchLook(p)  BY <3>1 DEF PatchLook, At
      <3>2. CASE EnsureLook(p)  BY <3>2 DEF EnsureLook, At
      <3> QED  BY <1>4, <3>1, <3>2
    <2> QED
      BY <1>1, <2>1 DEF StepsLeft, Labels
  <1>5. CASE BackupSkip(p) \/ BackupBegin(p) \/ BackupEnd(p) \/ BackupFail(p)
    <2>1. \/ pc[p] = "backup" /\ Goto(p, "copying")
          \/ pc[p] \in {"backup", "copying"} /\ \E d : Edit(p, "stage", d)
      BY <1>5 DEF BackupSkip, BackupBegin, BackupEnd, BackupFail
    <2> QED
      BY <1>1, <2>1 DEF StepsLeft, Labels
  <1>6. CASE RestoreEnd(p) \/ RestoreFail(p) \/ PurgeRemove(p) \/ PurgeFail(p)
    BY <1>6 DEF RestoreEnd, RestoreFail, PurgeRemove, PurgeFail
  <1>7. CASE UnpatchLook(p) \/ PurgeLook(p) \/ RestoreBegin(p)
    <2>1. pc[p] = "look" /\ ((\E good \in BOOLEAN : Continue(p, good) \/ Finish(p, good))
            \/ (\E label \in {"stage", "restoring"} : \E d : Edit(p, label, d))
            \/ Goto(p, "removing"))
      <3>1. CASE UnpatchLook(p)  BY <3>1 DEF UnpatchLook, At
      <3>2. CASE PurgeLook(p)  BY <3>2 DEF PurgeLook, At
      <3>3. CASE RestoreBegin(p)  BY <3>3 DEF RestoreBegin, At
      <3> QED  BY <1>7, <3>1, <3>2, <3>3
    <2> QED
      BY <1>1, <2>1 DEF StepsLeft, Labels
  <1>8. CASE BeginUnresolved(p) \/ Crash(p)
    BY <1>8 DEF BeginUnresolved, Crash, ProcTypeOK
  <1> QED
    BY <1>2, <1>3, <1>4, <1>5, <1>6, <1>7, <1>8 DEF Step, Fault

LEMMA Nearer ==
  ASSUME ProcTypeOK, NEW p \in Procs, Step(p) \/ Fault(p), pc[p] # "idle"
  PROVE  RunLeft(p)' < RunLeft(p) /\ RunLeft(p)' \in Nat
  <1>1. /\ at[p] \in {Generic, Bindings, Profile} /\ pc[p] \in Labels
        /\ FilesLeft[at[p]] \in 0..2 /\ StepsLeft[pc[p]] \in 1..6
    <2>1. at[p] \in {Generic, Bindings, Profile} /\ pc[p] \in Labels
      BY DEF ProcTypeOK, Targets, Labels
    <2> QED
      BY <2>1, Measures
  <1>2. RunLeft(p) = 7 * FilesLeft[at[p]] + StepsLeft[pc[p]]
    BY DEF RunLeft
  <1>3. pc'[p] # "idle" => RunLeft(p)' = 7 * FilesLeft[at'[p]] + StepsLeft[pc'[p]]
    BY DEF RunLeft, FilesLeft, StepsLeft
  <1>4. CASE pc'[p] = "idle"
    <2>1. RunLeft(p)' = 0
      BY <1>4 DEF RunLeft
    <2> QED
      BY <1>1, <1>2, <2>1
  <1>5. CASE pc'[p] # "idle" /\ \E good \in BOOLEAN : Continue(p, good) \/ Finish(p, good)
    <2>1. /\ pc'[p] = "look" /\ at[p] # Profile
          /\ at'[p] = IF at[p] = Generic THEN Bindings ELSE Profile
      BY <1>5, Leaves
    <2>2. FilesLeft[at'[p]] = FilesLeft[at[p]] - 1
      BY <1>1, <2>1, Measures, Names
    <2>3. StepsLeft[pc'[p]] = 6
      BY <2>1 DEF StepsLeft
    <2>4. RunLeft(p)' = 7 * (FilesLeft[at[p]] - 1) + 6
      BY <1>3, <1>5, <2>2, <2>3
    <2>5. FilesLeft[at[p]] \in 1..2
      BY <1>1, <2>1, Measures
    <2> QED
      BY <1>1, <1>2, <2>4, <2>5
  <1>6. CASE at'[p] = at[p] /\ pc'[p] \in Labels /\ StepsLeft[pc'[p]] < StepsLeft[pc[p]]
    <2>1. pc'[p] # "idle" /\ StepsLeft[pc'[p]] \in 1..6
      BY <1>6, Measures DEF Labels
    <2> QED
      BY <1>1, <1>2, <1>3, <1>6, <2>1
  <1> QED
    BY <1>4, <1>5, <1>6, Shapes

\* A run of the patcher makes at most twenty calls, whatever fails and whoever interferes:
\* what it takes for Recovers, which TLC checks, to need no fairness but that of running.
THEOREM AlwaysRunsEnd == Spec => RunsEnd
  <1> DEFINE A == \A p \in Procs : Ends(p)
  <1>1. IInv /\ [Next]_vars => A
    <2> SUFFICES ASSUME IInv, [Next]_vars, NEW p \in Procs PROVE Ends(p)
      OBVIOUS
    <2> ProcTypeOK
      BY DEF IInv, TypeOK, ProcTypeOK
    <2>1. RunLeft(p) \in 0..20
      <3>1. at[p] \in {Generic, Bindings, Profile} /\ (pc[p] = "idle" \/ pc[p] \in Labels)
        BY DEF ProcTypeOK, Targets, Labels
      <3> QED
        BY <3>1, Measures DEF RunLeft
    <2>2. (Works(p) \/ Fails(p)) /\ pc[p] # "idle" => RunLeft(p)' < RunLeft(p)
      BY Nearer DEF Works, Fails
    <2>3. Fault(p) /\ pc[p] = "idle" => RunLeft(p)' = 0 /\ RunLeft(p) = 0
      BY DEF Fault, WriteFail, BackupFail, RestoreFail, PurgeFail, Crash, BeginUnresolved,
             At, RunLeft
    <2>4. Step(p) => pc[p] # "idle"
      BY DEF Step, StageOpen, StageClose, Rename, RenameBlocked, PatchLook, BackupSkip,
             BackupBegin, BackupEnd, EnsureLook, RestoreBegin, RestoreEnd, UnpatchLook,
             PurgeLook, PurgeRemove, At
    <2>5. ASSUME NEW q \in Procs, q # p, Works(q) \/ Fails(q) \/ Starts(q)
          PROVE  RunLeft(p)' = RunLeft(p)
      <3>1. pc'[p] = pc[p] /\ at'[p] = at[p]
        BY <2>5, Itself DEF Works, Fails, Starts, SameElsewhere
      <3> QED
        BY <3>1 DEF RunLeft, FilesLeft, StepsLeft
    <2>6. CASE OthersWrite \/ UNCHANGED vars
      <3>1. pc' = pc /\ at' = at
        BY <2>6 DEF OthersWrite, SteamVRUpdate, ThirdParty, vars, procVars
      <3>2. RunLeft(p)' = RunLeft(p)
        BY <3>1 DEF RunLeft, FilesLeft, StepsLeft
      <3> QED
        BY <2>1, <2>2, <3>2 DEF Ends
    <2>7. CASE Works(p) \/ Fails(p) \/ Starts(p)
      <3>1. (RunLeft(p)' <= RunLeft(p)) \/ Starts(p)
        <4>1. CASE pc[p] # "idle" /\ ~Starts(p)
          <5>1. RunLeft(p)' < RunLeft(p)
            BY <2>2, <2>7, <4>1
          <5>2. RunLeft(p)' \in Int
            BY <2>7, <4>1, Nearer DEF Works, Fails
          <5> QED
            BY <2>1, <5>1, <5>2
        <4>2. CASE pc[p] = "idle" /\ ~Starts(p)
          BY <2>3, <2>4, <2>7, <4>2 DEF Works, Fails
        <4> QED
          BY <4>1, <4>2
      <3> QED
        BY <2>2, <3>1 DEF Ends
    <2>8. ASSUME NEW q \in Procs, q # p, Works(q) \/ Fails(q) \/ Starts(q)
          PROVE  Ends(p)
      BY <2>1, <2>2, <2>5, <2>8 DEF Ends
    <2> QED
      BY <2>6, <2>7, <2>8 DEF Next
  <1>2. IInv /\ [Next]_vars => [A]_vars
    BY <1>1
  <1> QED
    BY <1>2, Invariance, PTL DEF Spec, RunsEnd
-----------------------------------------------------------------------------
(* What the header says of the way back *)

\* The patcher, if it looked for a marker before it copied the backup over the file.
CheckedSpec ==
  Init /\ [][Next /\ (RestoreBegin(Cli) => Ours(files[Generic]))]_vars

\* Copying the backup over whatever the file holds is the one step that writes a file
\* without a marker: with that look, the sentence of the header would be true.
THEOREM CheckedLeavesAlone == CheckedSpec => UnmarkedLeftAlone
  <1> DEFINE C == Next /\ (RestoreBegin(Cli) => Ours(files[Generic]))
             A == pc[Cli] = "look" /\ job[Cli] = Unpatch /\ at[Cli] = Generic
                  /\ pc'[Cli] # "look"
                  /\ files[Generic] \in Document /\ ~Ours(files[Generic])
                    => files'[Generic] = files[Generic]
  <1>1. IInv /\ [C]_vars => A
    <2> SUFFICES ASSUME IInv, [C]_vars, pc[Cli] = "look", job[Cli] = Unpatch,
                        at[Cli] = Generic, pc'[Cli] # "look", ~Ours(files[Generic])
                 PROVE  files' = files
      OBVIOUS
    <2> ProcTypeOK /\ Cli \in Procs
      BY DEF IInv, TypeOK, ProcTypeOK, Procs
    <2>1. ~OthersWrite /\ ~UNCHANGED vars
      BY DEF OthersWrite, SteamVRUpdate, ThirdParty, vars, procVars
    <2>2. PICK p \in Procs : Begin(p) \/ Step(p) \/ Fault(p)
      BY <2>1 DEF Next, Works, Fails, Starts
    <2>3. p = Cli
      BY <2>2, Itself DEF SameElsewhere
    <2>4. ~RestoreBegin(Cli)
      BY <2>1
    <2>5. RestoreFail(Cli) \/ UnpatchLook(Cli) \/ Crash(Cli)
      BY <2>2, <2>3, <2>4, Names DEF Step, Fault, Begin, BeginUnresolved, StageOpen,
         StageClose, Rename, RenameBlocked, WriteFail, PatchLook, BackupSkip, BackupBegin,
         BackupEnd, BackupFail, EnsureLook, RestoreEnd, PurgeLook, PurgeRemove, PurgeFail, At
    <2> QED
      BY <2>5 DEF RestoreFail, UnpatchLook, Crash, diskVars
  <1>2. IInv /\ [C]_vars => IInv'
    BY NextIInv
  <1>3. IInv /\ [C]_vars => [A]_vars
    BY <1>1
  <1> HIDE DEF C
  <1>4. CheckedSpec => Init /\ [][C]_vars
    BY DEF CheckedSpec, C
  <1> QED
    BY InitIInv, <1>2, <1>3, <1>4, PTL DEF UnmarkedLeftAlone
=============================================================================
