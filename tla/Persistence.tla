----------------------------- MODULE Persistence -----------------------------
(***************************************************************************)
(* What MicMap keeps on the disk from one run to the next: config.json     *)
(* (core/src/config_manager.cpp), replaced through a temporary file and    *)
(* moved aside when it is corrupt, and the training file, written in       *)
(* place by the detector (detection/src/noise_detector.cpp); and the       *)
(* application that reads them when it starts, changes them as it runs     *)
(* and writes them when it quits (apps/micmap/main.cpp), with the          *)
(* balloon of its first silent launch.                                     *)
(*                                                                         *)
(* A step is one call of the file system.  Any call may fail and the       *)
(* process may die between any two of them.                                *)
(***************************************************************************)
EXTENDS ConfigValues, FiniteSets

CONSTANTS
  Missing, Torn,  \* no file, and a file that does not parse
  NoProfile,      \* the detector has none
  Keep,           \* corrupt configurations kept: 5 in the code
  MaxNow,         \* seconds of the clock that names them (a bound)
  MaxProfile,     \* training sessions (a bound)
  MaxTrouble,     \* failures, crashes and changes by hand (a bound)
  EditedDurations, EditedSizes,  \* what a hand writes into the file
  Chosen                         \* what the slider is moved to

\* A profile is told by the session that made it; its size is that of the spectra.
Profile == [id : 1..MaxProfile, size : FftSizes]

\* What a hand may leave.
Edited == [deviceId : Ids \cup {NoId, Absent}, minDurationMs : EditedDurations,
           fftSize : EditedSizes, shownTrayNotification : {TRUE, Absent}]

ASSUME PersistenceAssumption ==
  /\ Missing # Torn
  /\ Missing \notin Document /\ Torn \notin Document
  /\ Missing \notin Profile /\ Torn \notin Profile /\ NoProfile \notin Profile
  /\ NoProfile # Missing /\ NoProfile # Torn
  /\ Keep \in Nat \ {0} /\ MaxNow \in Nat /\ MaxProfile \in Nat \ {0} /\ MaxTrouble \in Nat
  /\ \A v \in EditedDurations \cup EditedSizes : v \in Int \/ v = Absent
  /\ Chosen \subseteq DurationLo..DurationHi

VARIABLES
  config,    \* config.json
  tmp,       \* config.json.tmp
  backups,   \* the times in the names config.json.corrupted.<time>
  training,  \* the training file
  now,       \* the clock
  pc,        \* where the application is
  then,      \* where a save of the configuration goes on
  config_,   \* the manager's configuration
  size,      \* the detector's fftSize_, 0 for no detector
  profile,   \* and its profile
  doomed,    \* backups still to be pruned
  sessions,  \* training sessions so far
  trouble,
  touched,   \* fields changed since the configuration was read or written
  unread,    \* this run could not open the configuration
  told,      \* the flag of the balloon has reached the disk
  unsaved,   \* this run failed to write the training file
  oddSize    \* an fftSize other than the default has been loaded

disk == <<config, tmp, backups, training>>
app == <<pc, then, config_, size, profile, doomed>>
ghosts == <<touched, unread, told, unsaved, oddSize>>
vars == <<disk, app, ghosts, now, sessions, trouble>>

Fields == {"deviceId", "minDurationMs", "fftSize", "shownTrayNotification"}

TypeOK ==
  /\ config \in Document \cup {Missing, Torn}
  /\ tmp \in Config \cup {Missing, Torn}
  /\ backups \subseteq 0..MaxNow
  /\ training \in Profile \cup {Missing, Torn}
  /\ now \in 0..MaxNow
  /\ pc \in {"off", "load", "rotate", "prune", "device", "running", "balloon",
             "train", "training", "stage", "write", "replace", "exit"}
  /\ then \in {"running", "exit"}
  /\ config_ \in Config
  /\ size \in FftSizes \cup {0}
  /\ profile \in Profile \cup {NoProfile}
  /\ doomed \subseteq 0..MaxNow
  /\ sessions \in 0..MaxProfile
  /\ trouble \in 0..MaxTrouble
  /\ touched \subseteq Fields
  /\ unread \in BOOLEAN /\ told \in BOOLEAN /\ unsaved \in BOOLEAN /\ oddSize \in BOOLEAN

Init ==
  /\ config \in Edited \cup {Missing, Torn}
  /\ tmp = Missing
  /\ backups = {}
  /\ training = Missing
  /\ now = 0
  /\ pc = "off"
  /\ then = "exit"
  /\ config_ = Defaults
  /\ size = 0
  /\ profile = NoProfile
  /\ doomed = {}
  /\ sessions = 0
  /\ trouble = 0
  /\ touched = {}
  /\ unread = FALSE /\ told = FALSE /\ unsaved = FALSE /\ oddSize = FALSE

Spend == trouble < MaxTrouble /\ trouble' = trouble + 1
Goto(label) == pc' = label
-----------------------------------------------------------------------------
(* ConfigManagerImpl::load *)

\* WinMain, with the single-instance mutex.
Launch ==
  /\ pc = "off"
  /\ Goto("load")
  /\ UNCHANGED <<disk, then, config_, size, profile, doomed, ghosts, now, sessions, trouble>>

LoadMissing ==
  /\ pc = "load" /\ config = Missing
  /\ Goto("device")
  /\ UNCHANGED <<disk, then, config_, size, profile, doomed, ghosts, now, sessions, trouble>>

\* A file that is there and cannot be opened is taken for one that is not.
LoadUnreadable ==
  /\ pc = "load" /\ config # Missing /\ Spend
  /\ Goto("device")
  /\ unread' = TRUE
  /\ told' = FALSE
  /\ UNCHANGED <<disk, then, config_, size, profile, doomed, touched, unsaved, oddSize, now,
                 sessions>>

LoadDocumentWithoutAudio ==
  /\ pc = "load" /\ config \in Document
  /\ Goto("device")
  /\ config_' = [Normalised(config, config_) EXCEPT !.deviceId = config_.deviceId]
  /\ oddSize' = (oddSize \/ config_'.fftSize # DefaultFftSize)
  /\ UNCHANGED <<disk, then, size, profile, doomed, touched, unread, told, unsaved, now,
                 sessions, trouble>>
LoadDocument ==
  /\ pc = "load" /\ config \in Document
  /\ Goto("device")
  /\ config_' = Normalised(config, config_)
  /\ oddSize' = (oddSize \/ config_'.fftSize # DefaultFftSize)
  /\ UNCHANGED <<disk, then, size, profile, doomed, touched, unread, told, unsaved, now,
                 sessions, trouble>>

LoadCorrupt ==
  /\ pc = "load" /\ config = Torn
  /\ Goto("rotate")
  /\ UNCHANGED <<disk, then, config_, size, profile, doomed, ghosts, now, sessions, trouble>>

(* backupAndRotate *)

RotatePrunesNewest ==
  /\ pc = "rotate"
  /\ config' = Missing
  /\ backups' = backups \cup {now}
  /\ doomed' = {b \in backups' : Cardinality({c \in backups' : c < b}) >= Keep}
  /\ Goto("prune")
  /\ UNCHANGED <<tmp, training, then, config_, size, profile, ghosts, now, sessions, trouble>>
\* The corrupt file is moved aside, over an older one of the same second; all but
\* the newest go.
Rotate ==
  /\ pc = "rotate"
  /\ config' = Missing
  /\ backups' = backups \cup {now}
  /\ doomed' = {b \in backups' : Cardinality({c \in backups' : c > b}) >= Keep}
  /\ Goto("prune")
  /\ UNCHANGED <<tmp, training, then, config_, size, profile, ghosts, now, sessions, trouble>>

RotateFail ==
  /\ pc = "rotate" /\ Spend
  /\ Goto("device")
  /\ config_' = Defaults
  /\ UNCHANGED <<disk, then, size, profile, doomed, ghosts, now, sessions>>

\* A backup that cannot be removed stays, and the next one is tried.
Prune ==
  /\ pc = "prune" /\ doomed # {}
  /\ \E b \in doomed :
       /\ \A c \in doomed : c <= b
       /\ doomed' = doomed \ {b}
       /\ \/ backups' = backups \ {b} /\ UNCHANGED trouble
          \/ UNCHANGED backups /\ Spend
  /\ UNCHANGED <<config, tmp, training, pc, then, config_, size, profile, ghosts, now, sessions>>

PruneDone ==
  /\ pc = "prune" /\ doomed = {}
  /\ Goto("device")
  /\ config_' = Defaults
  /\ UNCHANGED <<disk, then, size, profile, doomed, ghosts, now, sessions, trouble>>
-----------------------------------------------------------------------------
(* The detector and its file *)

\* createFFTDetector and loadTrainingData, which may fail; the header's fftSize is
\* not compared.
MakeDetectorWithProfileOnly(fft) ==
  /\ size' = FftLo
  /\ profile' \in {NoProfile} \cup ({training} \cap Profile)
MakeDetector(fft) ==
  /\ size' = fft
  /\ profile' \in {NoProfile} \cup ({training} \cap Profile)

\* MicMapApp::initialize, on a device that reports a sample rate or on none; the
\* window and Direct3D may fail before it.
Initialize ==
  /\ pc = "device"
  /\ \/ MakeDetector(config_.fftSize)
     \/ UNCHANGED <<size, profile>>
  /\ \/ Goto("running")
     \/ Goto("balloon") /\ ~config_.shownTrayNotification
  /\ UNCHANGED <<disk, then, config_, doomed, ghosts, now, sessions, trouble>>

\* The device combo: the detector is rebuilt with the default size, when the
\* new device reports a sample rate, and the choice is noted in any case.
ChooseDevice ==
  /\ pc = "running"
  /\ \E d \in Ids : config_' = [config_ EXCEPT !.deviceId = d]
  /\ touched' = touched \cup {"deviceId"}
  /\ \/ MakeDetector(DefaultFftSize)
     \/ UNCHANGED <<size, profile>>
  /\ UNCHANGED <<disk, pc, then, doomed, unread, told, unsaved, oddSize, now, sessions, trouble>>

MoveSlider ==
  /\ pc = "running"
  /\ \E t \in Chosen : config_' = [config_ EXCEPT !.minDurationMs = t]
  /\ touched' = touched \cup {"minDurationMs"}
  /\ UNCHANGED <<disk, pc, then, size, profile, doomed, unread, told, unsaved, oddSize, now,
                 sessions, trouble>>

FinishTrainingUnsaved ==
  /\ pc = "running" /\ size # 0 /\ sessions < MaxProfile
  /\ sessions' = sessions + 1
  /\ profile' = [id |-> sessions + 1, size |-> size]
  /\ UNCHANGED <<disk, pc, then, config_, size, doomed, ghosts, now, trouble>>
\* finishTraining succeeds: the profile is in use, then it is saved.
FinishTraining ==
  /\ pc = "running" /\ size # 0 /\ sessions < MaxProfile
  /\ sessions' = sessions + 1
  /\ profile' = [id |-> sessions + 1, size |-> size]
  /\ Goto("train") /\ then' = "running"
  /\ UNCHANGED <<disk, config_, size, doomed, ghosts, now, trouble>>

Clear ==
  /\ pc = "running" /\ size # 0
  /\ size' = DefaultFftSize /\ profile' = NoProfile
  /\ UNCHANGED <<disk, pc, then, config_, doomed, ghosts, now, sessions, trouble>>

\* saveTrainingData: the file is truncated, then written.
OpenTraining ==
  /\ pc = "train"
  /\ training' = Torn
  /\ Goto("training")
  /\ UNCHANGED <<config, tmp, backups, then, config_, size, profile, doomed, ghosts, now,
                 sessions, trouble>>

AfterTraining == Goto(IF then = "exit" THEN "stage" ELSE then)

WriteTraining ==
  /\ pc = "training"
  /\ training' = profile
  /\ unsaved' = FALSE
  /\ AfterTraining
  /\ UNCHANGED <<config, tmp, backups, then, config_, size, profile, doomed, touched, unread,
                 told, oddSize, now, sessions, trouble>>

\* The file cannot be opened, or the write fails half way; or the close does, which
\* saveTrainingData does not see.  No caller looks at what it returns.
TrainingFail ==
  /\ pc \in {"train", "training"} /\ Spend
  /\ unsaved' = TRUE
  /\ AfterTraining
  /\ UNCHANGED <<disk, then, config_, size, profile, doomed, touched, unread, told, oddSize,
                 now, sessions>>
-----------------------------------------------------------------------------
(* Saving the configuration *)

FireBalloon ==
  /\ pc = "balloon"
  /\ config_' = [config_ EXCEPT !.shownTrayNotification = TRUE]
  /\ touched' = touched \cup {"shownTrayNotification"}
  /\ Goto("stage") /\ then' = "running"
  /\ UNCHANGED <<disk, size, profile, doomed, unread, told, unsaved, oddSize, now, sessions,
                 trouble>>

\* MicMapApp::shutdown: the profile, if there is one, then the configuration.
Quit ==
  /\ pc = "running"
  /\ Goto(IF profile # NoProfile THEN "train" ELSE "stage")
  /\ then' = "exit"
  /\ UNCHANGED <<disk, config_, size, profile, doomed, ghosts, now, sessions, trouble>>

StageInPlace ==
  /\ pc = "stage"
  /\ config' = Torn
  /\ tmp' = Torn
  /\ Goto("write")
  /\ UNCHANGED <<backups, training, then, config_, size, profile, doomed, ghosts, now, sessions,
                 trouble>>
\* writeAtomicWindows
Stage ==
  /\ pc = "stage"
  /\ tmp' = Torn
  /\ Goto("write")
  /\ UNCHANGED <<config, backups, training, then, config_, size, profile, doomed, ghosts, now,
                 sessions, trouble>>

StageFail ==
  /\ pc = "stage" /\ Spend
  /\ Goto(then)
  /\ UNCHANGED <<disk, then, config_, size, profile, doomed, ghosts, now, sessions>>

\* The write, the flush and the close have succeeded.
WriteTmp ==
  /\ pc = "write"
  /\ tmp' = config_
  /\ Goto("replace")
  /\ UNCHANGED <<config, backups, training, then, config_, size, profile, doomed, ghosts, now,
                 sessions, trouble>>

\* A failure the write itself reports, and no other.
WriteTmpFail ==
  /\ pc = "write" /\ Spend
  /\ tmp' = Missing
  /\ Goto(then)
  /\ UNCHANGED <<config, backups, training, then, config_, size, profile, doomed, ghosts, now,
                 sessions>>

\* The flush, which writes so small a file, fails unnoticed, and so does the close.
FlushFail ==
  /\ pc = "write" /\ Spend
  /\ Goto("replace")
  /\ UNCHANGED <<disk, then, config_, size, profile, doomed, ghosts, now, sessions>>

ReplaceForgets ==
  /\ pc = "replace"
  /\ config' = IF tmp = Torn THEN Torn ELSE [tmp EXCEPT !.shownTrayNotification = Absent]
  /\ tmp' = Missing
  /\ touched' = {} /\ unread' = FALSE
  /\ told' = (tmp # Torn /\ (told \/ tmp.shownTrayNotification))
  /\ Goto(then)
  /\ UNCHANGED <<backups, training, then, config_, size, profile, doomed, unsaved, oddSize, now,
                 sessions, trouble>>
\* ReplaceFileW over a configuration, MoveFileExW where there is none: with what the
\* temporary file holds.  Every caller takes the save for a good one.
Replace ==
  /\ pc = "replace"
  /\ config' = tmp
  /\ tmp' = Missing
  /\ touched' = {} /\ unread' = FALSE
  /\ told' = (tmp # Torn /\ (told \/ tmp.shownTrayNotification))
  /\ Goto(then)
  /\ UNCHANGED <<backups, training, then, config_, size, profile, doomed, unsaved, oddSize, now,
                 sessions, trouble>>

\* Either fails and the temporary file is removed.  ReplaceFileW without a backup
\* name may fail after it has deleted the file it replaces (error 1176).
ReplaceFail ==
  /\ pc = "replace" /\ Spend
  /\ tmp' = Missing
  /\ Goto(then)
  /\ \/ UNCHANGED <<config, told>>
     \/ config # Missing /\ config' = Missing /\ told' = FALSE
  /\ UNCHANGED <<backups, training, then, config_, size, profile, doomed, touched, unread,
                 unsaved, oddSize, now, sessions>>
-----------------------------------------------------------------------------
(* The world outside *)

\* Of what the process held nothing stays; the next one starts from the defaults.
Vanish ==
  /\ Goto("off") /\ then' = "exit"
  /\ config_' = Defaults
  /\ size' = 0 /\ profile' = NoProfile
  /\ doomed' = {}
  /\ touched' = {} /\ unread' = FALSE /\ unsaved' = FALSE
  /\ UNCHANGED <<disk, told, oddSize, now, sessions>>

Exit == pc = "exit" /\ Vanish /\ UNCHANGED trouble

\* MicMap dies, or its window, Direct3D or audio cannot be initialised.
Crash == pc # "off" /\ Spend /\ Vanish

\* Somebody edits the configuration, breaks it or deletes it.
EditConfig ==
  /\ pc = "off" /\ Spend
  /\ config' \in Edited \cup {Missing, Torn}
  /\ told' = FALSE
  /\ UNCHANGED <<tmp, backups, training, app, touched, unread, unsaved, oddSize, now, sessions>>

Tick ==
  /\ now < MaxNow
  /\ now' = now + 1
  /\ UNCHANGED <<disk, app, ghosts, sessions, trouble>>

Load == LoadMissing \/ LoadUnreadable \/ LoadDocument \/ LoadCorrupt
BackupAndRotate == Rotate \/ RotateFail \/ Prune \/ PruneDone
Run == ChooseDevice \/ MoveSlider \/ FinishTraining \/ Clear
SaveTraining == OpenTraining \/ WriteTraining \/ TrainingFail
Save == Stage \/ StageFail \/ WriteTmp \/ WriteTmpFail \/ FlushFail \/ Replace \/ ReplaceFail

Next ==
  \/ Launch \/ Load \/ BackupAndRotate \/ Initialize \/ FireBalloon \/ Run \/ Quit
  \/ SaveTraining \/ Save
  \/ Exit \/ Crash \/ EditConfig \/ Tick

Spec == Init /\ [][Next]_vars
-----------------------------------------------------------------------------
(* Properties *)

\* As long as the configuration could be opened, the application and the file agree
\* on every field this run has not changed: a save forgets nothing an earlier run
\* has saved.
NothingForgotten ==
  pc \notin {"off", "load", "rotate", "prune"} /\ config \in Document /\ ~unread =>
    \A f \in Fields \ touched : Normalised(config, Defaults)[f] = config_[f]

\* The balloon is shown once: never again after a save has put its flag on the
\* disk, unless the configuration has been edited or unreadable since, or lost by a
\* later save that failed, or whose flush did.
BalloonOnce == [][pc = "balloon" /\ pc' = "stage" => ~told]_vars

\* A corrupt configuration that was moved aside is deleted only when as many newer
\* ones are kept as should be.
NewestKept ==
  [][\A b \in backups \ backups' : Cardinality({c \in backups' : c > b}) >= Keep]_vars

\* What the application detects with is what the training file holds, so that the
\* next start detects with it too: unless the file could not be written, or is just
\* being written.
ProfileOnDisk ==
  pc \notin {"off", "train", "training"} /\ profile # NoProfile /\ ~unsaved
    => training = profile

\* The profile in use has the size of the detector's own spectra, as long as no
\* configuration has asked for another fftSize: then the first device is trained
\* with that one, and a device chosen later reads the profile with the default.
ProfileFits == profile # NoProfile /\ profile.size # size => oddSize

\* Where the SettingsStore below is.
Phase ==
  CASE pc = "off" -> "off"
    [] pc \in {"load", "rotate", "prune"} -> "starting"
    [] OTHER -> "up"

\* A flush that failed shows, and counts, when the file is replaced or the save ends.
Spoilt == pc = "replace" /\ tmp = Torn
Shown == IF Spoilt THEN trouble - 1 ELSE trouble

\* Through temporary files and renames, rotations that stop half way, failures of any
\* call and a death between any two of them, the configuration is a SettingsStore: a
\* save is a single step that takes place when the file is replaced, or not at all.
Store == INSTANCE SettingsStore WITH
  stored <- config, held <- config_, phase <- Phase,
  MaxFaults <- MaxTrouble, faults <- Shown
ImplementsSettingsStore == Store!Spec
=============================================================================
