------------------------ MODULE BindingsPatcher_proofs ------------------------
(***************************************************************************)
(* What BindingsPatcher guarantees for every number of revisions and any   *)
(* amount of trouble.                                                      *)
(*                                                                         *)
(* The backup is pristine because nothing of ours reaches the file before  *)
(* there is one: as long as it is missing and no copy has failed, nobody   *)
(* stages a document for generic_hmd.  The patch tears no file because     *)
(* what is renamed was closed by its only writer.                          *)
(***************************************************************************)
EXTENDS BindingsPatcher, TLAPS

Clean(c) == c \in Document => c.marker = "none" /\ c.actions = "valve"

\* One copy to the backup at a time, and the backup exists while it lasts.
OneCopy ==
  /\ \A p \in Procs : pc[p] = "copying" => backup # Missing /\ source # Missing
  /\ \A p, q \in Procs : pc[p] = "copying" /\ pc[q] = "copying" => p = q

\* Before there is a backup, generic_hmd is as SteamVR shipped it.
BackupFirst ==
  ~copyFailed =>
    /\ Clean(backup)
    /\ Clean(source)
    /\ backup = Missing =>
         /\ Clean(files[Generic])
         /\ \A p \in Procs :
              /\ pc[p] \in {"stage", "writing", "rename"} => at[p] # Generic
              /\ pc[p] # "restoring"

\* What a process holds where it is.
Holds ==
  \A p \in Procs :
    /\ pc[p] \in {"backup", "copying", "stage", "writing", "rename"} => doc[p] \in Document
    /\ pc[p] \in {"backup", "copying"} => at[p] = Generic
    /\ pc[p] \in {"restoring", "removing"} => job[p] = Unpatch
    /\ pc[p] = "removing" => at[p] # Generic
    /\ job[p] = Unpatch => p = Cli

\* A restore leaves the file unreadable until it ends, and so does a temporary file
\* somebody else has opened; a temporary file closed by its only writer is whole.
TornKnown ==
  \A p \in Procs :
    /\ pc[p] = "restoring" => files[Generic] = Torn
    /\ pc[p] = "rename" /\ tmp[at[p]] = Torn => mixed[at[p]] # "elsewhere"

IInv == TypeOK /\ OneCopy /\ BackupFirst /\ Holds /\ TornKnown
-----------------------------------------------------------------------------
(* Documents *)

LEMMA Documents ==
  /\ \A r \in 0..MaxRev : Pristine(r) \in Document /\ Clean(Pristine(r)) /\ ~Ours(Pristine(r))
  /\ \A d \in Document : ApplyPatch(d) \in Document /\ EraseMarkers(d) \in Document
  /\ BuildControllerTypeBindings \in Document
  /\ BuildControllerTypeProfile \in Document
  /\ \A c : Ours(c) => c \in Document
  <1>1. 0 \in 0..MaxRev
    BY BindingsAssumption
  <1>2. \A r \in 0..MaxRev : Pristine(r) \in Document /\ Clean(Pristine(r)) /\ ~Ours(Pristine(r))
    BY DEF Pristine, Document, Clean, Ours, AlreadyPatched, OwnedByLegacyMicmap
  <1>3. \A d \in Document : ApplyPatch(d) \in Document /\ EraseMarkers(d) \in Document
    BY DEF ApplyPatch, EraseMarkers, Document
  <1>4. BuildControllerTypeBindings \in Document /\ BuildControllerTypeProfile \in Document
    BY <1>1 DEF BuildControllerTypeBindings, BuildControllerTypeProfile, Document
  <1>5. \A c : Ours(c) => c \in Document
    BY DEF Ours, AlreadyPatched, OwnedByLegacyMicmap
  <1> QED
    BY <1>2, <1>3, <1>4, <1>5

LEMMA Contents ==
  /\ Document \subseteq Content /\ Missing \in Content /\ Torn \in Content
  /\ Missing # Torn /\ Missing \notin Document /\ Torn \notin Document
  /\ Clean(Missing) /\ Clean(Torn)
  /\ \A c \in Content : c \in Document \/ c = Missing \/ c = Torn
  BY BindingsAssumption DEF Content, Clean
-----------------------------------------------------------------------------
(* Types *)

DiskTypeOK ==
  /\ files \in [Targets -> Content]
  /\ backup \in Content
  /\ tmp \in [Targets -> Content]
  /\ rev \in 1..MaxRev
  /\ source \in Content
  /\ mixed \in [Targets -> {"elsewhere", "writing", "rename"}]
  /\ copyFailed \in BOOLEAN

ProcTypeOK ==
  /\ pc \in [Procs -> {"idle", "look", "backup", "copying", "stage", "writing",
                       "rename", "restoring", "removing"}]
  /\ job \in [Procs -> Jobs \cup {"none"}]
  /\ at \in [Procs -> Targets]
  /\ doc \in [Procs -> Content]
  /\ ok \in [Procs -> BOOLEAN]

LEMMA Moved ==
  ASSUME ProcTypeOK, NEW p \in Procs
  PROVE  /\ \A label \in {"idle", "look", "backup", "copying", "stage", "writing",
                          "rename", "restoring", "removing"} :
              /\ Goto(p, label) => ProcTypeOK'
              /\ \A d \in Content : Edit(p, label, d) => ProcTypeOK'
         /\ \A good \in BOOLEAN : Continue(p, good) => ProcTypeOK'
         /\ \A good \in BOOLEAN : Finish(p, good) => ProcTypeOK'
  <1>1. \A label \in {"idle", "look", "backup", "copying", "stage", "writing",
                      "rename", "restoring", "removing"} : Goto(p, label) => ProcTypeOK'
    BY DEF Goto, ProcTypeOK
  <1>2. \A label \in {"idle", "look", "backup", "copying", "stage", "writing",
                      "rename", "restoring", "removing"} :
          \A d \in Content : Edit(p, label, d) => ProcTypeOK'
    BY DEF Edit, ProcTypeOK
  <1>3. \A good \in BOOLEAN : Finish(p, good) => ProcTypeOK'
    BY Contents DEF Finish, ProcTypeOK
  <1>4. \A good \in BOOLEAN : NextFile(p, good) => ProcTypeOK'
    BY Contents DEF NextFile, ProcTypeOK, Targets, Bindings, Profile, Generic
  <1> QED
    BY <1>1, <1>2, <1>3, <1>4 DEF Continue

\* Every step of a process keeps the types of what is on the disk.
LEMMA DiskTypes ==
  ASSUME DiskTypeOK, ProcTypeOK, Holds, NEW p \in Procs
  PROVE  Begin(p) \/ Step(p) \/ Fault(p) => DiskTypeOK'
  <1> at[p] \in Targets /\ doc[p] \in Content /\ Generic \in Targets
    BY DEF ProcTypeOK, Targets
  <1>1. UNCHANGED diskVars => DiskTypeOK'
    BY DEF DiskTypeOK, diskVars
  <1>2. Begin(p) \/ BeginUnresolved(p) \/ Crash(p) => DiskTypeOK'
    BY <1>1 DEF Begin, BeginUnresolved, Crash, diskVars
  <1>3. StageOpen(p) => DiskTypeOK'
    <2> SUFFICES ASSUME StageOpen(p) PROVE DiskTypeOK'
      OBVIOUS
    <2>1. mixed' \in [Targets -> {"elsewhere", "writing", "rename"}]
      BY DEF StageOpen, DiskTypeOK
    <2> QED
      BY <2>1, Contents DEF StageOpen, DiskTypeOK
  <1>4. StageClose(p) => DiskTypeOK'
    BY Contents DEF StageClose, DiskTypeOK
  <1>5. Rename(p) => DiskTypeOK'
    BY Contents DEF Rename, DiskTypeOK
  <1>6. WriteFail(p) \/ RenameBlocked(p) => DiskTypeOK'
    BY Contents DEF WriteFail, RenameBlocked, DiskTypeOK
  <1>7. PatchLook(p) \/ BackupSkip(p) \/ EnsureLook(p) \/ UnpatchLook(p) \/ PurgeLook(p)
          \/ RestoreFail(p) \/ PurgeFail(p) => DiskTypeOK'
    BY <1>1 DEF PatchLook, BackupSkip, EnsureLook, UnpatchLook, PurgeLook, RestoreFail,
                PurgeFail
  <1>8. BackupBegin(p) \/ BackupEnd(p) \/ BackupFail(p) => DiskTypeOK'
    BY Contents DEF BackupBegin, BackupEnd, BackupFail, DiskTypeOK
  <1>9. RestoreBegin(p) \/ RestoreEnd(p) \/ PurgeRemove(p) => DiskTypeOK'
    BY Contents DEF RestoreBegin, RestoreEnd, PurgeRemove, DiskTypeOK
  <1> QED
    BY <1>2, <1>3, <1>4, <1>5, <1>6, <1>7, <1>8, <1>9 DEF Step, Fault

\* Every step of a process keeps the types of where the processes are.
LEMMA ProcTypes ==
  ASSUME DiskTypeOK, ProcTypeOK, Holds, NEW p \in Procs
  PROVE  Begin(p) \/ Step(p) \/ Fault(p) => ProcTypeOK'
  <1> at[p] \in Targets /\ doc[p] \in Content /\ Generic \in Targets
    BY DEF ProcTypeOK, Targets
  <1>1. Begin(p) => ProcTypeOK'
    <2> SUFFICES ASSUME Begin(p) PROVE ProcTypeOK'
      OBVIOUS
    <2>1. PICK j \in Jobs : job' = [job EXCEPT ![p] = j]
      BY DEF Begin
    <2> QED
      BY <2>1 DEF Begin, ProcTypeOK
  <1>2. BeginUnresolved(p) \/ Crash(p) => ProcTypeOK'
    <2>1. BeginUnresolved(p) => ProcTypeOK'
      BY DEF BeginUnresolved, ProcTypeOK
    <2>2. Crash(p) => ProcTypeOK'
      BY Contents DEF Crash, ProcTypeOK
    <2> QED
      BY <2>1, <2>2
  <1>3. StageOpen(p) \/ StageClose(p) => ProcTypeOK'
    BY Moved DEF StageOpen, StageClose
  <1>4. Rename(p) \/ WriteFail(p) \/ RenameBlocked(p) => ProcTypeOK'
    BY Moved DEF Rename, WriteFail, RenameBlocked
  <1>5. PatchLook(p) => ProcTypeOK'
    BY Moved, Contents DEF PatchLook
  <1>6. BackupSkip(p) \/ BackupEnd(p) \/ BackupFail(p) => ProcTypeOK'
    <2> SUFFICES ASSUME BackupSkip(p) \/ BackupEnd(p) \/ BackupFail(p) PROVE ProcTypeOK'
      OBVIOUS
    <2>1. pc[p] \in {"backup", "copying"} /\ Edit(p, "stage", ApplyPatch(doc[p]))
      BY DEF BackupSkip, BackupEnd, BackupFail
    <2>2. ApplyPatch(doc[p]) \in Content
      BY <2>1, Documents, Contents DEF Holds
    <2> QED
      BY <2>1, <2>2, Moved
  <1>7. BackupBegin(p) => ProcTypeOK'
    BY Moved DEF BackupBegin
  <1>8. EnsureLook(p) => ProcTypeOK'
    BY Moved, Documents, Contents DEF EnsureLook
  <1>9. UnpatchLook(p) => ProcTypeOK'
    BY Moved, Documents, Contents DEF UnpatchLook
  <1>10. RestoreBegin(p) \/ RestoreEnd(p) \/ RestoreFail(p) => ProcTypeOK'
    BY Moved DEF RestoreBegin, RestoreEnd, RestoreFail, DiskTypeOK
  <1>11. PurgeLook(p) \/ PurgeRemove(p) \/ PurgeFail(p) => ProcTypeOK'
    BY Moved DEF PurgeLook, PurgeRemove, PurgeFail
  <1> QED
    BY <1>1, <1>2, <1>3, <1>4, <1>5, <1>6, <1>7, <1>8, <1>9, <1>10, <1>11 DEF Step, Fault

LEMMA TypeStep == TypeOK /\ Holds /\ [Next]_vars => TypeOK'
  <1> SUFFICES ASSUME TypeOK, Holds, [Next]_vars PROVE TypeOK'
    OBVIOUS
  <1> DiskTypeOK /\ ProcTypeOK
    BY DEF TypeOK, DiskTypeOK, ProcTypeOK
  <1>1. ASSUME DiskTypeOK', ProcTypeOK', alone' \in [Procs -> BOOLEAN], trouble' \in 0..MaxTrouble
        PROVE  TypeOK'
    BY <1>1 DEF TypeOK, DiskTypeOK, ProcTypeOK
  <1>2. trouble \in 0..MaxTrouble /\ (Spend => trouble' \in 0..MaxTrouble)
    BY BindingsAssumption DEF TypeOK, Spend
  <1>3. ASSUME NEW p \in Procs, Works(p) \/ Fails(p) \/ Starts(p) PROVE TypeOK'
    <2>1. Begin(p) \/ Step(p) \/ Fault(p)
      BY <1>3 DEF Works, Fails, Starts
    <2>2. alone' \in [Procs -> BOOLEAN]
      BY <1>3 DEF Works, Fails, Starts, Moves, TypeOK
    <2>3. trouble' \in 0..MaxTrouble
      BY <1>2, <1>3 DEF Works, Fails, Starts
    <2> QED
      BY <1>1, <2>1, <2>2, <2>3, DiskTypes, ProcTypes
  <1>4. CASE OthersWrite
    <2>1. ProcTypeOK' /\ alone' \in [Procs -> BOOLEAN] /\ trouble' \in 0..MaxTrouble
      BY <1>2, <1>4 DEF OthersWrite, SteamVRUpdate, ThirdParty, ProcTypeOK, procVars
    <2>2. ASSUME SteamVRUpdate PROVE DiskTypeOK'
      <3>1. rev + 1 \in 1..MaxRev /\ rev + 1 \in 0..MaxRev
        BY <2>2, BindingsAssumption DEF SteamVRUpdate, DiskTypeOK
      <3>2. Pristine(rev + 1) \in Content
        BY <3>1, Documents, Contents
      <3> QED
        BY <2>2, <3>1, <3>2 DEF SteamVRUpdate, DiskTypeOK
    <2>3. ASSUME ThirdParty PROVE DiskTypeOK'
      <3>1. Foreign \in Content
        BY Documents, Contents, BindingsAssumption DEF Foreign
      <3> QED
        BY <2>3, <3>1 DEF ThirdParty, DiskTypeOK
    <2> QED
      BY <1>1, <1>4, <2>1, <2>2, <2>3 DEF OthersWrite
  <1>5. CASE UNCHANGED vars
    BY <1>5 DEF vars, diskVars, procVars, TypeOK
  <1> QED
    BY <1>3, <1>4, <1>5 DEF Next
-----------------------------------------------------------------------------
(* The invariant *)

\* A process moves itself alone.
SameElsewhere(p) ==
  \A q \in Procs \ {p} :
    pc'[q] = pc[q] /\ job'[q] = job[q] /\ at'[q] = at[q] /\ doc'[q] = doc[q]

LEMMA Here ==
  ASSUME ProcTypeOK, NEW p \in Procs
  PROVE  /\ \A label : Goto(p, label) =>
              /\ SameElsewhere(p) /\ pc'[p] = label
              /\ job'[p] = job[p] /\ at'[p] = at[p] /\ doc'[p] = doc[p]
         /\ \A label, d : Edit(p, label, d) =>
              /\ SameElsewhere(p) /\ pc'[p] = label
              /\ job'[p] = job[p] /\ at'[p] = at[p] /\ doc'[p] = d
         /\ \A good : Continue(p, good) \/ Finish(p, good) =>
              /\ SameElsewhere(p) /\ pc'[p] \in {"idle", "look"} /\ job'[p] = job[p]
  <1>1. \A label : Goto(p, label) =>
          /\ SameElsewhere(p) /\ pc'[p] = label
          /\ job'[p] = job[p] /\ at'[p] = at[p] /\ doc'[p] = doc[p]
    BY DEF Goto, SameElsewhere, ProcTypeOK
  <1>2. \A label, d : Edit(p, label, d) =>
          /\ SameElsewhere(p) /\ pc'[p] = label
          /\ job'[p] = job[p] /\ at'[p] = at[p] /\ doc'[p] = d
    BY DEF Edit, SameElsewhere, ProcTypeOK
  <1>3. \A good : Finish(p, good) =>
          SameElsewhere(p) /\ pc'[p] \in {"idle", "look"} /\ job'[p] = job[p]
    BY DEF Finish, SameElsewhere, ProcTypeOK
  <1>4. \A good : NextFile(p, good) =>
          SameElsewhere(p) /\ pc'[p] \in {"idle", "look"} /\ job'[p] = job[p]
    BY DEF NextFile, SameElsewhere, ProcTypeOK
  <1> QED
    BY <1>1, <1>2, <1>3, <1>4 DEF Continue

Inv == OneCopy /\ BackupFirst /\ Holds /\ TornKnown

\* A process that ends up idle or looking, and leaves the disk alone.
LEMMA LetsGo ==
  ASSUME ProcTypeOK, Inv, NEW p \in Procs, SameElsewhere(p), pc'[p] \in {"idle", "look"},
         job'[p] = Unpatch => p = Cli, UNCHANGED diskVars
  PROVE  Inv'
  <1>1. OneCopy'
    BY DEF Inv, OneCopy, SameElsewhere, diskVars
  <1>2. BackupFirst'
    BY DEF Inv, BackupFirst, SameElsewhere, diskVars, Clean
  <1>3. Holds'
    BY DEF Inv, Holds, SameElsewhere
  <1>4. TornKnown'
    BY DEF Inv, TornKnown, SameElsewhere, diskVars
  <1> QED
    BY <1>1, <1>2, <1>3, <1>4 DEF Inv

LEMMA BeginInv ==
  ASSUME ProcTypeOK, Inv, NEW p \in Procs,
         Begin(p) \/ BeginUnresolved(p) \/ Crash(p) \/ RestoreFail(p) \/ PurgeFail(p)
  PROVE  Inv'
  <1>1. UNCHANGED diskVars
    BY DEF Begin, BeginUnresolved, Crash, RestoreFail, PurgeFail
  <1>2. CASE Begin(p)
    <2>1. PICK j \in Jobs : /\ (p = Driver) <=> (j = "PatchGenericHmdBindings")
                            /\ job' = [job EXCEPT ![p] = j]
      BY <1>2 DEF Begin
    <2>2. SameElsewhere(p) /\ pc'[p] \in {"idle", "look"} /\ job'[p] = j
      BY <1>2, <2>1 DEF Begin, SameElsewhere, ProcTypeOK
    <2>3. job'[p] = Unpatch => p = Cli
      BY <2>1, <2>2 DEF Procs, Unpatch
    <2> QED
      BY <1>1, <2>2, <2>3, LetsGo
  <1>3. CASE BeginUnresolved(p)
    <2>1. SameElsewhere(p) /\ pc'[p] \in {"idle", "look"} /\ job'[p] # Unpatch
      BY <1>3 DEF BeginUnresolved, SameElsewhere, ProcTypeOK, Unpatch
    <2> QED
      BY <1>1, <2>1, LetsGo
  <1>4. CASE Crash(p)
    <2>1. SameElsewhere(p) /\ pc'[p] \in {"idle", "look"} /\ job'[p] # Unpatch
      BY <1>4 DEF Crash, SameElsewhere, ProcTypeOK, Unpatch
    <2> QED
      BY <1>1, <2>1, LetsGo
  <1>5. CASE RestoreFail(p) \/ PurgeFail(p)
    <2>1. SameElsewhere(p) /\ pc'[p] \in {"idle", "look"} /\ job'[p] = job[p]
      BY <1>5, Here DEF RestoreFail, PurgeFail
    <2> QED
      BY <1>1, <2>1, LetsGo DEF Inv, Holds
  <1> QED
    BY <1>2, <1>3, <1>4, <1>5

LEMMA WriteInv ==
  ASSUME DiskTypeOK, ProcTypeOK, Inv, NEW p \in Procs,
         StageOpen(p) \/ StageClose(p) \/ Rename(p) \/ WriteFail(p) \/ RenameBlocked(p)
  PROVE  Inv'
  <1> at[p] \in Targets
    BY DEF ProcTypeOK
  <1> Other(p) \in Procs \ {p} /\ \A q \in Procs \ {p} : q = Other(p)
    BY BindingsAssumption DEF Other, Procs
  <1>1. CASE StageOpen(p)
    <2>1. /\ SameElsewhere(p) /\ pc[p] = "stage" /\ pc'[p] = "writing"
          /\ job'[p] = job[p] /\ at'[p] = at[p] /\ doc'[p] = doc[p]
      BY <1>1, Here DEF StageOpen
    <2>2. \A q \in Procs \ {p} : pc[q] = "rename" /\ at[q] = at[p] => mixed'[at[p]] = "rename"
      BY <1>1 DEF StageOpen, DiskTypeOK
    <2>3. \A f \in Targets \ {at[p]} : mixed'[f] = mixed[f] /\ tmp'[f] = tmp[f]
      BY <1>1 DEF StageOpen, DiskTypeOK
    <2>4. OneCopy' /\ BackupFirst' /\ Holds'
      BY <1>1, <2>1 DEF StageOpen, Inv, OneCopy, BackupFirst, Holds, Clean, SameElsewhere
    <2>5. TornKnown'
      BY <1>1, <2>1, <2>2, <2>3 DEF StageOpen, Inv, TornKnown, SameElsewhere, ProcTypeOK
    <2> QED
      BY <2>4, <2>5 DEF Inv
  <1>2. CASE StageClose(p)
    <2>1. /\ SameElsewhere(p) /\ pc[p] = "writing" /\ pc'[p] = "rename"
          /\ job'[p] = job[p] /\ at'[p] = at[p] /\ doc'[p] = doc[p]
      BY <1>2, Here DEF StageClose
    <2>2. doc[p] \in Document /\ doc[p] # Torn
      BY <2>1, Contents DEF Inv, Holds
    <2>3. /\ tmp'[at[p]] = Torn => mixed[at[p]] = "writing"
          /\ \A f \in Targets \ {at[p]} : tmp'[f] = tmp[f]
      BY <1>2, <2>2 DEF StageClose, DiskTypeOK
    <2>4. OneCopy' /\ BackupFirst' /\ Holds'
      BY <1>2, <2>1 DEF StageClose, Inv, OneCopy, BackupFirst, Holds, Clean, SameElsewhere
    <2>5. TornKnown'
      BY <1>2, <2>1, <2>3 DEF StageClose, Inv, TornKnown, SameElsewhere, ProcTypeOK
    <2> QED
      BY <2>4, <2>5 DEF Inv
  <1>3. CASE Rename(p)
    <2>1. /\ SameElsewhere(p) /\ pc[p] = "rename" /\ pc'[p] \in {"idle", "look"}
          /\ job'[p] = job[p]
      BY <1>3, Here DEF Rename
    <2>2. \A f \in Targets \ {at[p]} : tmp'[f] = tmp[f] /\ files'[f] = files[f]
      BY <1>3 DEF Rename, DiskTypeOK
    <2>3. OneCopy' /\ Holds'
      BY <1>3, <2>1 DEF Rename, Inv, OneCopy, Holds, SameElsewhere
    <2>4. BackupFirst'
      BY <1>3, <2>1, <2>2 DEF Rename, Inv, BackupFirst, Clean, SameElsewhere, Targets
    <2>5. TornKnown'
      <3>1. tmp'[at[p]] # Torn
        BY <1>3, Contents DEF Rename, DiskTypeOK
      <3>2. \A q \in Procs : pc'[q] = "restoring" => files'[Generic] = Torn
        BY <1>3, <2>1, <2>2 DEF Rename, Restoring, Inv, TornKnown, SameElsewhere, Targets
      <3> QED
        BY <1>3, <2>1, <2>2, <3>1, <3>2
           DEF Rename, Inv, TornKnown, SameElsewhere, ProcTypeOK
    <2> QED
      BY <2>3, <2>4, <2>5 DEF Inv
  <1>4. CASE WriteFail(p) \/ RenameBlocked(p)
    <2>1. WriteFail(p)
      BY <1>4 DEF RenameBlocked
    <2>2. SameElsewhere(p) /\ pc'[p] \in {"idle", "look"} /\ job'[p] = job[p]
      BY <2>1, Here DEF WriteFail
    <2>3. \A f \in Targets : tmp'[f] = Torn => tmp[f] = Torn
      BY <2>1, Contents DEF WriteFail, DiskTypeOK
    <2>4. OneCopy' /\ BackupFirst' /\ Holds'
      BY <2>1, <2>2 DEF WriteFail, Inv, OneCopy, BackupFirst, Holds, Clean, SameElsewhere
    <2>5. TornKnown'
      BY <2>1, <2>2, <2>3 DEF WriteFail, Inv, TornKnown, SameElsewhere, ProcTypeOK
    <2> QED
      BY <2>4, <2>5 DEF Inv
  <1> QED
    BY <1>1, <1>2, <1>3, <1>4

LEMMA PatchInv ==
  ASSUME DiskTypeOK, ProcTypeOK, Inv, NEW p \in Procs,
         PatchLook(p) \/ BackupSkip(p) \/ BackupBegin(p) \/ BackupEnd(p) \/ BackupFail(p)
           \/ EnsureLook(p)
  PROVE  Inv'
  <1>1. CASE PatchLook(p)
    <2>1. CASE \E good \in BOOLEAN : Continue(p, good)
      <3>1. SameElsewhere(p) /\ pc'[p] \in {"idle", "look"} /\ job'[p] = job[p]
        BY <2>1, Here
      <3> QED
        BY <1>1, <3>1, LetsGo DEF PatchLook, Inv, Holds
    <2>2. CASE files[Generic] \in Document /\ Edit(p, "backup", files[Generic])
      <3>1. /\ SameElsewhere(p) /\ pc'[p] = "backup" /\ doc'[p] \in Document
            /\ job'[p] = job[p] /\ at'[p] = Generic
        BY <1>1, <2>2, Here DEF PatchLook, At
      <3> QED
        BY <1>1, <3>1 DEF PatchLook, diskVars, Inv, OneCopy, BackupFirst, Holds, TornKnown,
                          Clean, SameElsewhere
    <2> QED
      BY <1>1, <2>1, <2>2 DEF PatchLook
  <1>2. CASE BackupBegin(p)
    <2>1. /\ SameElsewhere(p) /\ pc[p] = "backup" /\ pc'[p] = "copying"
          /\ job'[p] = job[p] /\ at'[p] = at[p] /\ doc'[p] = doc[p]
      BY <1>2, Here DEF BackupBegin
    <2>2. OneCopy' /\ Holds' /\ TornKnown'
      BY <1>2, <2>1, Contents DEF BackupBegin, Inv, OneCopy, Holds, TornKnown, SameElsewhere
    <2>3. BackupFirst'
      <3>1. backup' = Torn /\ source' = files[Generic] /\ backup = Missing
        BY <1>2 DEF BackupBegin
      <3>2. ~copyFailed => Clean(files[Generic])
        BY <3>1 DEF Inv, BackupFirst
      <3> QED
        BY <1>2, <3>1, <3>2, Contents DEF BackupBegin, BackupFirst, Clean
    <2> QED
      BY <2>2, <2>3 DEF Inv
  <1>3. CASE BackupSkip(p) \/ BackupEnd(p) \/ BackupFail(p)
    <2>1. pc[p] \in {"backup", "copying"} /\ Edit(p, "stage", ApplyPatch(doc[p]))
      BY <1>3 DEF BackupSkip, BackupEnd, BackupFail
    <2>2. /\ SameElsewhere(p) /\ pc'[p] = "stage" /\ doc'[p] = ApplyPatch(doc[p])
          /\ job'[p] = job[p] /\ at'[p] = at[p]
      BY <2>1, Here
    <2>3. doc'[p] \in Document
      BY <2>1, <2>2, Documents DEF Inv, Holds
    <2>4. Holds'
      BY <2>2, <2>3 DEF Inv, Holds, SameElsewhere
    <2>5. files' = files /\ tmp' = tmp /\ mixed' = mixed
      BY <1>3 DEF BackupSkip, BackupEnd, BackupFail, diskVars
    <2>6. TornKnown'
      BY <2>2, <2>5 DEF Inv, TornKnown, SameElsewhere
    <2>7. OneCopy' /\ BackupFirst'
      <3>1. CASE BackupSkip(p)
        BY <2>2, <3>1 DEF BackupSkip, diskVars, Inv, OneCopy, BackupFirst, Clean, SameElsewhere
      <3>2. CASE BackupEnd(p)
        <4>1. backup' = source /\ source' = Missing /\ source # Missing /\ copyFailed' = copyFailed
          BY <3>2 DEF BackupEnd, Inv, OneCopy
        <4>2. \A q \in Procs : pc'[q] # "copying"
          BY <2>2, <3>2 DEF BackupEnd, Inv, OneCopy, SameElsewhere
        <4>3. ~copyFailed => Clean(source)
          BY DEF Inv, BackupFirst
        <4> QED
          BY <4>1, <4>2, <4>3, Contents DEF OneCopy, BackupFirst, Clean
      <3>3. CASE BackupFail(p)
        <4>1. copyFailed'
          BY <3>3 DEF BackupFail
        <4>2. \A q \in Procs : pc'[q] # "copying"
          BY <2>2, <3>3 DEF BackupFail, Inv, OneCopy, SameElsewhere
        <4> QED
          BY <4>1, <4>2 DEF OneCopy, BackupFirst
      <3> QED
        BY <1>3, <3>1, <3>2, <3>3
    <2> QED
      BY <2>4, <2>6, <2>7 DEF Inv
  <1>4. CASE EnsureLook(p)
    <2>1. CASE \E good \in BOOLEAN : Continue(p, good)
      <3>1. SameElsewhere(p) /\ pc'[p] \in {"idle", "look"} /\ job'[p] = job[p]
        BY <2>1, Here
      <3> QED
        BY <1>4, <3>1, LetsGo DEF EnsureLook, Inv, Holds
    <2>2. CASE \E d \in Document : Edit(p, "stage", d)
      <3>1. /\ SameElsewhere(p) /\ pc'[p] = "stage" /\ doc'[p] \in Document
            /\ job'[p] = job[p] /\ at'[p] # Generic
        BY <1>4, <2>2, Here DEF EnsureLook, At, Generic, Bindings, Profile
      <3> QED
        BY <1>4, <3>1 DEF EnsureLook, diskVars, Inv, OneCopy, BackupFirst, Holds, TornKnown,
                          Clean, SameElsewhere
    <2> QED
      BY <1>4, <2>1, <2>2, Documents DEF EnsureLook
  <1> QED
    BY <1>1, <1>2, <1>3, <1>4

LEMMA UnpatchInv ==
  ASSUME DiskTypeOK, ProcTypeOK, Inv, NEW p \in Procs,
         RestoreBegin(p) \/ RestoreEnd(p) \/ UnpatchLook(p) \/ PurgeLook(p) \/ PurgeRemove(p)
  PROVE  Inv'
  <1>1. CASE RestoreBegin(p)
    <2>1. /\ SameElsewhere(p) /\ pc'[p] = "restoring" /\ job'[p] = job[p] /\ job[p] = Unpatch
          /\ backup # Missing
      BY <1>1, Here DEF RestoreBegin, At
    <2>2. files'[Generic] = Torn
      BY <1>1 DEF RestoreBegin, DiskTypeOK, Targets
    <2>3. OneCopy' /\ BackupFirst' /\ Holds'
      BY <1>1, <2>1 DEF RestoreBegin, Inv, OneCopy, BackupFirst, Holds, Clean, SameElsewhere
    <2>4. TornKnown'
      BY <1>1, <2>1, <2>2 DEF RestoreBegin, Inv, TornKnown, SameElsewhere
    <2> QED
      BY <2>3, <2>4 DEF Inv
  <1>2. CASE RestoreEnd(p)
    <2>1. SameElsewhere(p) /\ pc[p] = "restoring" /\ pc'[p] \in {"idle", "look"} /\ job'[p] = job[p]
      BY <1>2, Here DEF RestoreEnd
    <2>2. \A q \in Procs : pc'[q] # "restoring"
      BY <2>1 DEF Inv, Holds, SameElsewhere
    <2>3. OneCopy' /\ Holds'
      BY <1>2, <2>1 DEF RestoreEnd, Inv, OneCopy, Holds, SameElsewhere
    <2>4. BackupFirst'
      BY <1>2, <2>1 DEF RestoreEnd, Inv, BackupFirst, Clean
    <2>5. TornKnown'
      BY <1>2, <2>1, <2>2 DEF RestoreEnd, Inv, TornKnown, SameElsewhere
    <2> QED
      BY <2>3, <2>4, <2>5 DEF Inv
  <1>3. CASE UnpatchLook(p)
    <2>1. CASE \E good \in BOOLEAN : Finish(p, good)
      <3>1. SameElsewhere(p) /\ pc'[p] \in {"idle", "look"} /\ job'[p] = job[p]
        BY <2>1, Here
      <3> QED
        BY <1>3, <3>1, LetsGo DEF UnpatchLook, Inv, Holds
    <2>2. CASE /\ backup = Missing /\ Ours(files[Generic])
               /\ Edit(p, "stage", EraseMarkers(files[Generic]))
      <3>1. /\ SameElsewhere(p) /\ pc'[p] = "stage" /\ doc'[p] \in Document
            /\ job'[p] = job[p]
        BY <2>2, Here, Documents
      <3>2. copyFailed
        BY <2>2, Documents
           DEF Inv, BackupFirst, Clean, Ours, AlreadyPatched, OwnedByLegacyMicmap
      <3> QED
        BY <1>3, <3>1, <3>2 DEF UnpatchLook, diskVars, Inv, OneCopy, BackupFirst, Holds,
                                TornKnown, SameElsewhere
    <2> QED
      BY <1>3, <2>1, <2>2 DEF UnpatchLook
  <1>4. CASE PurgeLook(p)
    <2>1. CASE Goto(p, "removing")
      <3>1. /\ SameElsewhere(p) /\ pc'[p] = "removing" /\ job'[p] = Unpatch
            /\ at'[p] # Generic /\ job[p] = Unpatch
        BY <1>4, <2>1, Here DEF PurgeLook, At, Generic, Bindings, Profile
      <3> QED
        BY <1>4, <3>1 DEF PurgeLook, diskVars, Inv, OneCopy, BackupFirst, Holds, TornKnown,
                          Clean, SameElsewhere
    <2>2. CASE Continue(p, TRUE)
      <3>1. SameElsewhere(p) /\ pc'[p] \in {"idle", "look"} /\ job'[p] = job[p]
        BY <2>2, Here
      <3> QED
        BY <1>4, <3>1, LetsGo DEF PurgeLook, Inv, Holds
    <2> QED
      BY <1>4, <2>1, <2>2 DEF PurgeLook
  <1>5. CASE PurgeRemove(p)
    <2>1. /\ SameElsewhere(p) /\ pc[p] = "removing" /\ pc'[p] \in {"idle", "look"}
          /\ job'[p] = job[p] /\ at[p] # Generic
      BY <1>5, Here DEF PurgeRemove, Inv, Holds
    <2>2. files'[Generic] = files[Generic]
      BY <1>5, <2>1 DEF PurgeRemove, DiskTypeOK, Targets
    <2> QED
      BY <1>5, <2>1, <2>2 DEF PurgeRemove, Inv, OneCopy, BackupFirst, Holds, TornKnown, Clean,
                              SameElsewhere
  <1> QED
    BY <1>1, <1>2, <1>3, <1>4, <1>5

LEMMA OthersInv ==
  ASSUME DiskTypeOK, ProcTypeOK, Inv, OthersWrite
  PROVE  Inv'
  <1>1. UNCHANGED <<procVars, backup, tmp, source, mixed, copyFailed>>
    BY DEF OthersWrite, SteamVRUpdate, ThirdParty
  <1>2. CASE SteamVRUpdate
    <2>1. rev + 1 \in 0..MaxRev /\ ~Restoring
      BY <1>2, BindingsAssumption DEF SteamVRUpdate, DiskTypeOK
    <2>2. files'[Generic] = Pristine(rev + 1) /\ Clean(Pristine(rev + 1))
      BY <1>2, <2>1, Documents DEF SteamVRUpdate, DiskTypeOK, Targets
    <2> QED
      BY <1>1, <2>1, <2>2 DEF Restoring, procVars, Inv, OneCopy, BackupFirst, Holds, TornKnown,
                              Clean
  <1>3. CASE ThirdParty
    <2>1. files'[Generic] = files[Generic]
      BY <1>3 DEF ThirdParty, DiskTypeOK, Targets, Generic, Bindings, Profile
    <2> QED
      BY <1>1, <2>1 DEF procVars, Inv, OneCopy, BackupFirst, Holds, TornKnown, Clean
  <1> QED
    BY <1>2, <1>3 DEF OthersWrite

LEMMA InitIInv == Init => IInv
  <1> SUFFICES ASSUME Init PROVE IInv
    OBVIOUS
  <1>1. 1 \in 0..MaxRev /\ 1 \in 1..MaxRev /\ 0 \in 0..MaxRev /\ 0 \in 0..MaxTrouble
    BY BindingsAssumption
  <1>2. Pristine(1) \in Content /\ Clean(Pristine(1)) /\ Pristine(1) # Missing
    BY <1>1, Documents, Contents
  <1>3. \A r \in {0, 1} : [rev |-> r, actions |-> "micmap", marker |-> "v1"] \in Document
    BY <1>1 DEF Document
  <1>4. files \in [Targets -> Content] /\ backup \in Content
    BY <1>2, <1>3, Contents DEF Init
  <1>5. TypeOK
    BY <1>1, <1>4, Contents DEF Init, TypeOK, Targets
  <1>6. OneCopy /\ Holds /\ TornKnown
    BY DEF Init, OneCopy, Holds, TornKnown, Unpatch
  <1>7. BackupFirst
    <2>1. backup = Missing => Clean(files[Generic])
      BY <1>2, Contents DEF Init, Targets
    <2>2. Clean(backup) /\ Clean(source)
      BY <1>2, Contents DEF Init
    <2> QED
      BY <2>1, <2>2 DEF Init, BackupFirst
  <1> QED
    BY <1>5, <1>6, <1>7 DEF IInv

LEMMA NextIInv == IInv /\ [Next]_vars => IInv'
  <1> SUFFICES ASSUME IInv, [Next]_vars PROVE IInv'
    OBVIOUS
  <1> DiskTypeOK /\ ProcTypeOK /\ Inv
    BY DEF IInv, TypeOK, DiskTypeOK, ProcTypeOK, Inv
  <1>1. TypeOK'
    BY TypeStep DEF IInv
  <1>2. Inv'
    <2>1. ASSUME NEW p \in Procs, Works(p) \/ Fails(p) \/ Starts(p) PROVE Inv'
      <3>1. Begin(p) \/ Step(p) \/ Fault(p)
        BY <2>1 DEF Works, Fails, Starts
      <3> QED
        BY <3>1, BeginInv, WriteInv, PatchInv, UnpatchInv DEF Step, Fault
    <2>2. CASE UNCHANGED vars
      BY <2>2 DEF vars, procVars, diskVars, Inv, OneCopy, BackupFirst, Holds, TornKnown, Clean
    <2> QED
      BY <2>1, <2>2, OthersInv DEF Next
  <1> QED
    BY <1>1, <1>2 DEF IInv, Inv

\* The invariant is inductive.
THEOREM Invariance == Spec => []IInv
  BY InitIInv, NextIInv, PTL DEF Spec
-----------------------------------------------------------------------------
(* The theorems *)

\* Whatever processes, failures and others do, the state keeps its types.
THEOREM TypeCorrect == Spec => []TypeOK
  BY Invariance, PTL DEF IInv

\* The backup is the file as SteamVR shipped it, unless a copy has failed.
THEOREM AlwaysPristine == Spec => []BackupPristine
  <1>1. IInv => BackupPristine
    BY DEF IInv, BackupFirst, Clean, BackupPristine
  <1> QED
    BY <1>1, Invariance, PTL

\* Only a restore, or two writers of one temporary file, make a file unreadable.
THEOREM AlwaysTornOnly == Spec => TornOnly
  <1> DEFINE A == \A f \in Targets : files[f] # Torn /\ files'[f] = Torn =>
                    \/ \E p \in Procs : pc'[p] = "restoring" /\ f = Generic
                    \/ mixed[f] # "elsewhere"
  <1>1. IInv /\ [Next]_vars => A
    <2> SUFFICES ASSUME IInv, [Next]_vars, NEW f \in Targets, files[f] # Torn, files'[f] = Torn
                 PROVE  \/ \E p \in Procs : pc'[p] = "restoring" /\ f = Generic
                        \/ mixed[f] # "elsewhere"
      OBVIOUS
    <2> DiskTypeOK /\ ProcTypeOK /\ Holds /\ TornKnown
      BY DEF IInv, TypeOK, DiskTypeOK, ProcTypeOK
    <2>1. files' # files
      OBVIOUS
    <2>2. ASSUME NEW p \in Procs, Begin(p) \/ Step(p) \/ Fault(p)
          PROVE  Rename(p) \/ RestoreBegin(p) \/ RestoreEnd(p) \/ PurgeRemove(p)
      BY <2>1, <2>2 DEF Step, Fault, Begin, BeginUnresolved, Crash, StageOpen, StageClose,
           WriteFail, RenameBlocked, PatchLook, BackupSkip, BackupBegin, BackupEnd, BackupFail,
           EnsureLook, RestoreFail, UnpatchLook, PurgeLook, PurgeFail, diskVars
    <2>3. ASSUME NEW p \in Procs, Rename(p) PROVE mixed[f] # "elsewhere"
      BY <2>3 DEF Rename, DiskTypeOK, TornKnown
    <2>4. ASSUME NEW p \in Procs, RestoreBegin(p) PROVE pc'[p] = "restoring" /\ f = Generic
      BY <2>4, Here DEF RestoreBegin, DiskTypeOK
    <2>5. ASSUME NEW p \in Procs, RestoreEnd(p) PROVE FALSE
      BY <2>5 DEF RestoreEnd, DiskTypeOK, TornKnown
    <2>6. ASSUME NEW p \in Procs, PurgeRemove(p) PROVE FALSE
      BY <2>6, Contents DEF PurgeRemove, DiskTypeOK
    <2>7. ASSUME OthersWrite PROVE FALSE
      <3>1. rev \in 1..MaxRev /\ (rev < MaxRev => rev + 1 \in 0..MaxRev) /\ 0 \in 0..MaxRev
        BY BindingsAssumption DEF DiskTypeOK
      <3>2. (rev < MaxRev => Pristine(rev + 1) # Torn) /\ Foreign # Torn
        BY <3>1, Documents, Contents DEF Foreign
      <3> QED
        BY <2>7, <3>2 DEF OthersWrite, SteamVRUpdate, ThirdParty, DiskTypeOK
    <2>8. CASE UNCHANGED vars
      BY <2>1, <2>8 DEF vars, diskVars
    <2>9. ASSUME NEW p \in Procs, Works(p) \/ Fails(p) \/ Starts(p)
          PROVE  \/ \E q \in Procs : pc'[q] = "restoring" /\ f = Generic
                 \/ mixed[f] # "elsewhere"
      BY <2>9, <2>2, <2>3, <2>4, <2>5, <2>6 DEF Works, Fails, Starts
    <2> QED
      BY <2>7, <2>8, <2>9 DEF Next
  <1>2. IInv /\ [Next]_vars => [A]_vars
    BY <1>1
  <1> QED
    BY <1>2, Invariance, PTL DEF Spec, TornOnly
=============================================================================
