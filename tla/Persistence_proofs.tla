------------------------- MODULE Persistence_proofs -------------------------
(***************************************************************************)
(* Theorems of ConfigValues and Persistence.                               *)
(***************************************************************************)
EXTENDS Persistence, FiniteSetTheorems, TLAPS

(* Reading a number *)

\* clampRange returns the value of the range nearest to any integer.
THEOREM ClampNearest ==
  ASSUME NEW lo \in Int, NEW hi \in Int, lo <= hi, NEW v \in Int
  PROVE  IsNearest(clampRange(v, lo, hi), v, lo..hi)
BY DEF IsNearest, clampRange, Distance

\* The climb stops at the power of two below.
LEMMA ClimbValue ==
  ASSUME NEW v \in Int, 512 <= v, v <= 8192
  PROVE  \E p \in Int :
           /\ p = Climb(v)
           /\ v < 1024 => p = 512
           /\ v >= 1024 /\ v < 2048 => p = 1024
           /\ v >= 2048 /\ v < 4096 => p = 2048
           /\ v >= 4096 /\ v < 8192 => p = 4096
           /\ v = 8192 => p = 8192
<1> DEFINE P(p) == p <= v /\ \A q \in FftSizes : q <= v => q <= p
<1>0. Climb(v) = CHOOSE p \in FftSizes : P(p)
  BY DEF Climb
<1>1. \A p, q \in FftSizes : P(p) /\ P(q) => p = q
  BY DEF FftSizes
<1>2. v < 1024 => P(512)
  BY DEF FftSizes
<1>3. v >= 1024 /\ v < 2048 => P(1024)
  BY DEF FftSizes
<1>4. v >= 2048 /\ v < 4096 => P(2048)
  BY DEF FftSizes
<1>5. v >= 4096 /\ v < 8192 => P(4096)
  BY DEF FftSizes
<1>6. v = 8192 => P(8192)
  BY DEF FftSizes
<1> HIDE DEF P
<1>7. PICK p \in FftSizes : P(p) /\ p = Climb(v)
  <2>1. \E p \in FftSizes : P(p)
    BY <1>2, <1>3, <1>4, <1>5, <1>6 DEF FftSizes
  <2> QED BY <1>0, <2>1
<1>8. p \in Int
  BY DEF FftSizes
<1>9. \A q \in FftSizes : P(q) => q = p
  BY <1>1, <1>7
<1> QED BY <1>2, <1>3, <1>4, <1>5, <1>6, <1>7, <1>8, <1>9 DEF FftSizes

\* snapPowerOfTwo returns the power of two nearest to any integer, the lower one
\* of two at the same distance.
THEOREM SnapNearest ==
  ASSUME NEW v \in Int
  PROVE  IsNearest(snapPowerOfTwo(v), v, FftSizes)
<1>1. PICK c \in Int : /\ c = clampRange(v, FftLo, FftHi)
                       /\ 512 <= c /\ c <= 8192
                       /\ v < 512 => c = 512
                       /\ v > 8192 => c = 8192
                       /\ 512 <= v /\ v <= 8192 => c = v
  BY DEF clampRange, FftLo, FftHi
<1>2. PICK p \in Int : /\ p = Climb(c)
                       /\ c < 1024 => p = 512
                       /\ c >= 1024 /\ c < 2048 => p = 1024
                       /\ c >= 2048 /\ c < 4096 => p = 2048
                       /\ c >= 4096 /\ c < 8192 => p = 4096
                       /\ c = 8192 => p = 8192
  BY <1>1, ClimbValue
<1>3. snapPowerOfTwo(v) = IF c \in FftSizes THEN c
                          ELSE IF c - p <= 2 * p - c THEN p ELSE 2 * p
  <2>1. snapPowerOfTwo(v) = IF c \in FftSizes THEN c
                          ELSE IF c - Climb(c) <= 2 * Climb(c) - c THEN Climb(c)
                          ELSE 2 * Climb(c)
    BY <1>1 DEF snapPowerOfTwo
  <2>2. p = Climb(c)
    BY <1>2
  <2> QED BY <2>1, <2>2, Zenon
<1>4. PICK s \in Int : /\ s = snapPowerOfTwo(v)
                       /\ c \in FftSizes => s = c
                       /\ c \notin FftSizes /\ c - p <= 2 * p - c => s = p
                       /\ c \notin FftSizes /\ c - p > 2 * p - c => s = 2 * p
  BY <1>3
<1>5. IsNearest(s, v, FftSizes)
  <2>1. CASE c < 1024
    BY <1>1, <1>2, <1>4, <2>1 DEF IsNearest, Distance, FftSizes
  <2>2. CASE c >= 1024 /\ c < 2048
    BY <1>1, <1>2, <1>4, <2>2 DEF IsNearest, Distance, FftSizes
  <2>3. CASE c >= 2048 /\ c < 4096
    BY <1>1, <1>2, <1>4, <2>3 DEF IsNearest, Distance, FftSizes
  <2>4. CASE c >= 4096 /\ c < 8192
    BY <1>1, <1>2, <1>4, <2>4 DEF IsNearest, Distance, FftSizes
  <2>5. CASE c = 8192
    BY <1>1, <1>2, <1>4, <2>5 DEF IsNearest, Distance, FftSizes
  <2> QED BY <1>1, <2>1, <2>2, <2>3, <2>4, <2>5
<1> QED BY <1>4, <1>5

\* What get<int>() makes of an integer is an int.
LEMMA IntIsInt ==
  ASSUME NEW v \in Int
  PROVE  toInt(v) \in Int /\ -(IntMax + 1) <= toInt(v) /\ toInt(v) <= IntMax
BY ConfigAssumption DEF toInt, Width, FftHi

\* An integer that fits an int stays as it is.
LEMMA IntFits ==
  ASSUME NEW v \in Int, -(IntMax + 1) <= v, v <= IntMax
  PROVE  toInt(v) = v
BY ConfigAssumption DEF toInt, Width, FftHi

\* Any other loses a multiple of the width.
LEMMA IntWraps ==
  ASSUME NEW v \in Int
  PROVE  \E k \in Int : toInt(v) = v - k * Width
<1>0. IntMax \in Nat
  BY ConfigAssumption
<1>1. (v + IntMax + 1) % Width = v + IntMax + 1 - ((v + IntMax + 1) \div Width) * Width
  BY <1>0 DEF Width
<1>2. (v + IntMax + 1) \div Width \in Int
  BY <1>0 DEF Width
<1>3. PICK k \in Int : (v + IntMax + 1) % Width = v + IntMax + 1 - k * Width
  BY <1>1, <1>2
<1>4. k * Width \in Int
  BY <1>0 DEF Width
<1>5. toInt(v) = v - k * Width
  BY <1>0, <1>3, <1>4 DEF toInt
<1> QED BY <1>5

\* Values that are allowed stay as they are.
LEMMA Allowed ==
  /\ \A m \in DurationLo..DurationHi : m \in Int /\ clampRange(m, DurationLo, DurationHi) = m
  /\ \A n \in FftSizes : n \in Int /\ snapPowerOfTwo(n) = n
  /\ \A n \in (DurationLo..DurationHi) \cup FftSizes : toInt(n) = n
<1>1. \A m \in DurationLo..DurationHi : m \in Int /\ clampRange(m, DurationLo, DurationHi) = m
  BY DEF clampRange, DurationLo, DurationHi
<1>2. \A n \in FftSizes : n \in Int /\ snapPowerOfTwo(n) = n
  BY DEF snapPowerOfTwo, clampRange, FftLo, FftHi, FftSizes
<1>3. ASSUME NEW n \in (DurationLo..DurationHi) \cup FftSizes PROVE toInt(n) = n
  <2>1. n \in Int /\ -(IntMax + 1) <= n /\ n <= IntMax
    BY ConfigAssumption DEF DurationLo, DurationHi, FftSizes, FftHi
  <2> QED BY <2>1, IntFits
<1> QED BY <1>1, <1>2, <1>3

-----------------------------------------------------------------------------
(* Configurations *)

LEMMA DefaultsConfig == Defaults \in Config
BY DEF Defaults, Config, DurationLo, DurationHi, DefaultFftSize, FftSizes

\* A hand leaves a document.
LEMMA EditedDocument == Edited \subseteq Document
BY PersistenceAssumption DEF Edited, Document

\* What is read is a configuration, whatever the document says.
LEMMA NormalisedConfig ==
  ASSUME NEW doc \in Document, NEW held \in Config
  PROVE  /\ Normalised(doc, held) \in Config
         /\ IsNearest(Normalised(doc, held).minDurationMs,
                      readInt(doc.minDurationMs, held.minDurationMs), DurationLo..DurationHi)
         /\ IsNearest(Normalised(doc, held).fftSize, readInt(doc.fftSize, held.fftSize), FftSizes)
<1>1. /\ doc.deviceId \in Ids \cup {NoId, Absent} /\ doc.minDurationMs \in Int \cup {Absent}
      /\ doc.fftSize \in Int \cup {Absent}
      /\ doc.shownTrayNotification \in BOOLEAN \cup {Absent}
  BY DEF Document
<1>2. /\ held.deviceId \in Ids \cup {NoId} /\ held.minDurationMs \in Int
      /\ held.fftSize \in Int
  BY DEF Config, FftSizes, DurationLo, DurationHi
<1>3. readInt(doc.minDurationMs, held.minDurationMs) \in Int
  BY <1>1, <1>2, IntIsInt DEF readInt
<1>4. readInt(doc.fftSize, held.fftSize) \in Int
  BY <1>1, <1>2, IntIsInt DEF readInt
<1>5. read(doc.deviceId, held.deviceId) \in Ids \cup {NoId}
  BY <1>1, <1>2 DEF read
<1>6. read(doc.shownTrayNotification, FALSE) \in BOOLEAN
  <2>1. CASE doc.shownTrayNotification = Absent
    BY <2>1 DEF read
  <2>2. CASE doc.shownTrayNotification # Absent
    BY <1>1, <2>2 DEF read
  <2> QED BY <2>1, <2>2
<1>7. DurationLo \in Int /\ DurationHi \in Int /\ DurationLo <= DurationHi
  BY DEF DurationLo, DurationHi
<1>8. IsNearest(clampRange(readInt(doc.minDurationMs, held.minDurationMs), DurationLo, DurationHi),
                readInt(doc.minDurationMs, held.minDurationMs), DurationLo..DurationHi)
  BY <1>3, <1>7, ClampNearest
<1>9. IsNearest(snapPowerOfTwo(readInt(doc.fftSize, held.fftSize)),
                readInt(doc.fftSize, held.fftSize), FftSizes)
  BY <1>4, SnapNearest
<1>10. /\ clampRange(readInt(doc.minDurationMs, held.minDurationMs), DurationLo, DurationHi)
            \in DurationLo..DurationHi
       /\ snapPowerOfTwo(readInt(doc.fftSize, held.fftSize)) \in FftSizes
  BY <1>8, <1>9 DEF IsNearest
<1> QED BY <1>5, <1>6, <1>8, <1>9, <1>10 DEF Normalised, Config

\* Changing one field gives a configuration and leaves the others.
LEMMA ChangeOne ==
  ASSUME NEW c \in Config
  PROVE  /\ \A d \in Ids : LET e == [c EXCEPT !.deviceId = d]
                          IN e \in Config /\ \A f \in Fields \ {"deviceId"} : e[f] = c[f]
         /\ \A t \in DurationLo..DurationHi :
              LET e == [c EXCEPT !.minDurationMs = t]
              IN e \in Config /\ \A f \in Fields \ {"minDurationMs"} : e[f] = c[f]
         /\ LET e == [c EXCEPT !.shownTrayNotification = TRUE]
            IN /\ e \in Config /\ e.shownTrayNotification = TRUE
               /\ \A f \in Fields \ {"shownTrayNotification"} : e[f] = c[f]
BY DEF Config, Fields

\* Reading what was written gives it back.
LEMMA RoundTrip ==
  ASSUME NEW c \in Config
  PROVE  c \in Document /\ Normalised(c, Defaults) = c
<1>1. /\ c.deviceId \in Ids \cup {NoId} /\ c.minDurationMs \in DurationLo..DurationHi
      /\ c.fftSize \in FftSizes /\ c.shownTrayNotification \in BOOLEAN
  BY DEF Config
<1>2. c = [deviceId |-> c.deviceId, minDurationMs |-> c.minDurationMs, fftSize |-> c.fftSize,
           shownTrayNotification |-> c.shownTrayNotification]
  BY DEF Config
<1>3. c.minDurationMs \in Int /\ c.fftSize \in Int
  BY <1>1, Allowed
<1>4. c \in Document
  BY <1>1, <1>2, <1>3 DEF Document
<1>5. /\ read(c.deviceId, Defaults.deviceId) = c.deviceId
      /\ readInt(c.minDurationMs, Defaults.minDurationMs) = c.minDurationMs
      /\ readInt(c.fftSize, Defaults.fftSize) = c.fftSize
  BY <1>1, <1>3, Allowed, ConfigAssumption DEF read, readInt
<1>6. read(c.shownTrayNotification, FALSE) = c.shownTrayNotification
  BY <1>1, ConfigAssumption DEF read
<1>7. clampRange(c.minDurationMs, DurationLo, DurationHi) = c.minDurationMs
  BY <1>1, Allowed
<1>8. snapPowerOfTwo(c.fftSize) = c.fftSize
  BY <1>1, Allowed
<1> QED BY <1>2, <1>4, <1>5, <1>6, <1>7, <1>8 DEF Normalised
-----------------------------------------------------------------------------
(* The inductive invariant *)

\* The type invariant in three parts.
FilesOK ==
  /\ config \in Document \cup {Missing, Torn}
  /\ tmp \in Config \cup {Missing, Torn}
  /\ training \in Profile \cup {Missing, Torn}
  /\ config_ \in Config
  /\ profile \in Profile \cup {NoProfile}

CountsOK ==
  /\ backups \subseteq 0..MaxNow /\ doomed \subseteq 0..MaxNow
  /\ now \in 0..MaxNow /\ sessions \in 0..MaxProfile /\ trouble \in 0..MaxTrouble
  /\ size \in FftSizes \cup {0}

FlagsOK ==
  /\ pc \in {"off", "load", "rotate", "prune", "device", "running", "balloon",
             "train", "training", "stage", "write", "replace", "exit"}
  /\ then \in {"running", "exit"}
  /\ touched \subseteq Fields
  /\ unread \in BOOLEAN /\ told \in BOOLEAN /\ unsaved \in BOOLEAN /\ oddSize \in BOOLEAN

LEMMA TypeParts == TypeOK <=> FilesOK /\ CountsOK /\ FlagsOK
BY DEF TypeOK, FilesOK, CountsOK, FlagsOK

Running == pc \notin {"off", "load", "rotate", "prune"}

\* Before the configuration is read nothing is held, and there is no detector
\* before the first device is opened.
Fresh ==
  /\ ~Running => config_ = Defaults /\ touched = {} /\ ~unread /\ ~unsaved
  /\ ~Running \/ pc = "device" => size = 0 /\ profile = NoProfile

\* What the steps of a rotation and of a save find.
Places ==
  /\ pc = "rotate" => config = Torn
  /\ pc = "prune" => config = Missing
  /\ pc = "write" => tmp = Torn
  /\ pc = "replace" => tmp \in {config_, Torn}
  /\ pc \in {"train", "training"} => profile # NoProfile

\* What has just been read.
JustRead ==
  pc = "device" /\ config \in Document /\ ~unread => config_ = Normalised(config, Defaults)

\* The flag on the disk is in memory too, and in the balloon it is not.
Told ==
  /\ told => /\ config \in Config /\ config.shownTrayNotification = TRUE
             /\ Running => config_.shownTrayNotification = TRUE
  /\ pc = "balloon" => config_.shownTrayNotification = FALSE

\* As long as no other size has been read there is only the default one.
Even ==
  /\ profile # NoProfile => size # 0
  /\ ~oddSize => /\ config_.fftSize = DefaultFftSize
                 /\ size \in {0, DefaultFftSize}
                 /\ training \in Profile => training.size = DefaultFftSize
                 /\ profile \in Profile => profile.size = DefaultFftSize

IInv ==
  /\ FilesOK /\ CountsOK /\ FlagsOK
  /\ Fresh /\ Places /\ JustRead /\ NothingForgotten /\ Told /\ Even /\ ProfileOnDisk

\* What a step of a rotation or a save finds, the step before has left.
LEMMA PlacesStep == IInv /\ [Next]_vars => Places'
<1> SUFFICES ASSUME IInv, [Next]_vars PROVE Places'
  OBVIOUS
<1> USE DEF disk, app, ghosts, vars, Goto
<1>0. then \in {"running", "exit"}
  BY DEF IInv, FlagsOK
<1>1. CASE Launch
  BY <1>1, <1>0 DEF Launch, IInv, Places
<1>2. CASE LoadMissing
  BY <1>2, <1>0 DEF LoadMissing, IInv, Places
<1>3. CASE LoadUnreadable
  BY <1>3, <1>0 DEF LoadUnreadable, Spend, IInv, Places
<1>4. CASE LoadDocument
  BY <1>4, <1>0 DEF LoadDocument, IInv, Places
<1>5. CASE LoadCorrupt
  BY <1>5, <1>0 DEF LoadCorrupt, IInv, Places
<1>6. CASE Rotate
  BY <1>6, <1>0 DEF Rotate, IInv, Places
<1>7. CASE RotateFail
  BY <1>7, <1>0 DEF RotateFail, Spend, IInv, Places
<1>8. CASE Prune
  BY <1>8, <1>0 DEF Prune, Spend, IInv, Places
<1>9. CASE PruneDone
  BY <1>9, <1>0 DEF PruneDone, IInv, Places
<1>10. CASE Initialize
  BY <1>10, <1>0 DEF Initialize, MakeDetector, IInv, Places
<1>11. CASE FireBalloon
  BY <1>11, <1>0 DEF FireBalloon, IInv, Places
<1>12. CASE ChooseDevice
  BY <1>12, <1>0 DEF ChooseDevice, MakeDetector, IInv, Places
<1>13. CASE MoveSlider
  BY <1>13, <1>0 DEF MoveSlider, IInv, Places
<1>14. CASE FinishTraining
  <2>1. profile' \in Profile
    BY <1>14, PersistenceAssumption DEF FinishTraining, Profile, IInv, CountsOK
  <2> QED BY <1>14, <2>1, PersistenceAssumption DEF FinishTraining, IInv, Places
<1>15. CASE Clear
  BY <1>15, <1>0 DEF Clear, IInv, Places
<1>16. CASE Quit
  BY <1>16, <1>0 DEF Quit, IInv, Places
<1>17. CASE OpenTraining
  BY <1>17, <1>0 DEF OpenTraining, IInv, Places
<1>18. CASE WriteTraining
  BY <1>18, <1>0 DEF WriteTraining, AfterTraining, IInv, Places
<1>19. CASE TrainingFail
  BY <1>19, <1>0 DEF TrainingFail, Spend, AfterTraining, IInv, Places
<1>20. CASE Stage
  BY <1>20, <1>0 DEF Stage, IInv, Places
<1>21. CASE StageFail
  BY <1>21, <1>0 DEF StageFail, Spend, IInv, Places
<1>22. CASE WriteTmp
  BY <1>22, <1>0 DEF WriteTmp, IInv, Places
<1>23. CASE WriteTmpFail
  BY <1>23, <1>0 DEF WriteTmpFail, Spend, IInv, Places
<1>24. CASE Replace
  BY <1>24, <1>0 DEF Replace, IInv, Places
<1>25. CASE ReplaceFail
  BY <1>25, <1>0 DEF ReplaceFail, Spend, IInv, Places
<1>26. CASE Exit
  BY <1>26, <1>0 DEF Exit, Vanish, IInv, Places
<1>27. CASE Crash
  BY <1>27, <1>0 DEF Crash, Vanish, Spend, IInv, Places
<1>28. CASE EditConfig
  BY <1>28, <1>0 DEF EditConfig, Spend, IInv, Places
<1>29. CASE Tick
  BY <1>29, <1>0 DEF Tick, IInv, Places
<1>30. CASE UNCHANGED vars
  BY <1>30, <1>0 DEF IInv, Places
<1>31. CASE FlushFail
  BY <1>31, <1>0 DEF FlushFail, Spend, IInv, Places
<1> QED BY <1>1, <1>2, <1>3, <1>4, <1>5, <1>6, <1>7, <1>8, <1>9, <1>10, <1>11, <1>12,
   <1>13, <1>14, <1>15, <1>16, <1>17, <1>18, <1>19, <1>20, <1>21, <1>22, <1>23, <1>24,
   <1>25, <1>26, <1>27, <1>28, <1>29, <1>30, <1>31 DEF Next, Load, BackupAndRotate, Run,
   SaveTraining, Save

\* A new process starts from nothing.
LEMMA FreshStep == IInv /\ [Next]_vars => Fresh'
<1> SUFFICES ASSUME IInv, [Next]_vars PROVE Fresh'
  OBVIOUS
<1> USE DEF disk, app, ghosts, vars, Goto
<1>0. then \in {"running", "exit"}
  BY DEF IInv, FlagsOK
<1>1. CASE Launch
  BY <1>1, <1>0 DEF Launch, IInv, Fresh, Running
<1>2. CASE LoadMissing
  BY <1>2, <1>0 DEF LoadMissing, IInv, Fresh, Running
<1>3. CASE LoadUnreadable
  BY <1>3, <1>0 DEF LoadUnreadable, Spend, IInv, Fresh, Running
<1>4. CASE LoadDocument
  BY <1>4, <1>0 DEF LoadDocument, IInv, Fresh, Running
<1>5. CASE LoadCorrupt
  BY <1>5, <1>0 DEF LoadCorrupt, IInv, Fresh, Running
<1>6. CASE Rotate
  BY <1>6, <1>0 DEF Rotate, IInv, Fresh, Running
<1>7. CASE RotateFail
  BY <1>7, <1>0 DEF RotateFail, Spend, IInv, Fresh, Running
<1>8. CASE Prune
  BY <1>8, <1>0 DEF Prune, Spend, IInv, Fresh, Running
<1>9. CASE PruneDone
  BY <1>9, <1>0 DEF PruneDone, IInv, Fresh, Running
<1>10. CASE Initialize
  BY <1>10, <1>0 DEF Initialize, MakeDetector, IInv, Fresh, Running
<1>11. CASE FireBalloon
  BY <1>11, <1>0 DEF FireBalloon, IInv, Fresh, Running
<1>12. CASE ChooseDevice
  BY <1>12, <1>0 DEF ChooseDevice, MakeDetector, IInv, Fresh, Running
<1>13. CASE MoveSlider
  BY <1>13, <1>0 DEF MoveSlider, IInv, Fresh, Running
<1>14. CASE FinishTraining
  BY <1>14, <1>0 DEF FinishTraining, IInv, Fresh, Running
<1>15. CASE Clear
  BY <1>15, <1>0 DEF Clear, IInv, Fresh, Running
<1>16. CASE Quit
  BY <1>16, <1>0 DEF Quit, IInv, Fresh, Running
<1>17. CASE OpenTraining
  BY <1>17, <1>0 DEF OpenTraining, IInv, Fresh, Running
<1>18. CASE WriteTraining
  BY <1>18, <1>0 DEF WriteTraining, AfterTraining, IInv, Fresh, Running
<1>19. CASE TrainingFail
  BY <1>19, <1>0 DEF TrainingFail, Spend, AfterTraining, IInv, Fresh, Running
<1>20. CASE Stage
  BY <1>20, <1>0 DEF Stage, IInv, Fresh, Running
<1>21. CASE StageFail
  BY <1>21, <1>0 DEF StageFail, Spend, IInv, Fresh, Running
<1>22. CASE WriteTmp
  BY <1>22, <1>0 DEF WriteTmp, IInv, Fresh, Running
<1>23. CASE WriteTmpFail
  BY <1>23, <1>0 DEF WriteTmpFail, Spend, IInv, Fresh, Running
<1>24. CASE Replace
  BY <1>24, <1>0 DEF Replace, IInv, Fresh, Running
<1>25. CASE ReplaceFail
  BY <1>25, <1>0 DEF ReplaceFail, Spend, IInv, Fresh, Running
<1>26. CASE Exit
  BY <1>26, <1>0 DEF Exit, Vanish, IInv, Fresh, Running
<1>27. CASE Crash
  BY <1>27, <1>0 DEF Crash, Vanish, Spend, IInv, Fresh, Running
<1>28. CASE EditConfig
  BY <1>28, <1>0 DEF EditConfig, Spend, IInv, Fresh, Running
<1>29. CASE Tick
  BY <1>29, <1>0 DEF Tick, IInv, Fresh, Running
<1>30. CASE UNCHANGED vars
  BY <1>30, <1>0 DEF IInv, Fresh, Running
<1>31. CASE FlushFail
  BY <1>31, <1>0 DEF FlushFail, Spend, IInv, Fresh, Running
<1> QED BY <1>1, <1>2, <1>3, <1>4, <1>5, <1>6, <1>7, <1>8, <1>9, <1>10, <1>11, <1>12,
   <1>13, <1>14, <1>15, <1>16, <1>17, <1>18, <1>19, <1>20, <1>21, <1>22, <1>23, <1>24,
   <1>25, <1>26, <1>27, <1>28, <1>29, <1>30, <1>31 DEF Next, Load, BackupAndRotate, Run,
   SaveTraining, Save

\* The profile in use is the one in the file.
LEMMA DiskStep == IInv /\ [Next]_vars => ProfileOnDisk'
<1> SUFFICES ASSUME IInv, [Next]_vars PROVE ProfileOnDisk'
  OBVIOUS
<1> USE DEF disk, app, ghosts, vars, Goto
<1>1. CASE Launch
  BY <1>1 DEF Launch, IInv, ProfileOnDisk, Places, FlagsOK, FilesOK, Fresh, Running
<1>2. CASE LoadMissing
  BY <1>2 DEF LoadMissing, IInv, ProfileOnDisk, Places, FlagsOK, FilesOK, Fresh, Running
<1>3. CASE LoadUnreadable
  BY <1>3 DEF LoadUnreadable, Spend, IInv, ProfileOnDisk, Places, FlagsOK, FilesOK,
     Fresh, Running
<1>4. CASE LoadDocument
  BY <1>4 DEF LoadDocument, IInv, ProfileOnDisk, Places, FlagsOK, FilesOK, Fresh, Running
<1>5. CASE LoadCorrupt
  BY <1>5 DEF LoadCorrupt, IInv, ProfileOnDisk, Places, FlagsOK, FilesOK, Fresh, Running
<1>6. CASE Rotate
  BY <1>6 DEF Rotate, IInv, ProfileOnDisk, Places, FlagsOK, FilesOK, Fresh, Running
<1>7. CASE RotateFail
  BY <1>7 DEF RotateFail, Spend, IInv, ProfileOnDisk, Places, FlagsOK, FilesOK,
     Fresh, Running
<1>8. CASE Prune
  BY <1>8 DEF Prune, Spend, IInv, ProfileOnDisk, Places, FlagsOK, FilesOK, Fresh, Running
<1>9. CASE PruneDone
  BY <1>9 DEF PruneDone, IInv, ProfileOnDisk, Places, FlagsOK, FilesOK, Fresh, Running
<1>10. CASE Initialize
  BY <1>10 DEF Initialize, MakeDetector, IInv, ProfileOnDisk, Places, FlagsOK,
     FilesOK, Fresh, Running
<1>11. CASE FireBalloon
  BY <1>11 DEF FireBalloon, IInv, ProfileOnDisk, Places, FlagsOK, FilesOK, Fresh, Running
<1>12. CASE ChooseDevice
  BY <1>12 DEF ChooseDevice, MakeDetector, IInv, ProfileOnDisk, Places, FlagsOK,
     FilesOK, Fresh, Running
<1>13. CASE MoveSlider
  BY <1>13 DEF MoveSlider, IInv, ProfileOnDisk, Places, FlagsOK, FilesOK, Fresh, Running
<1>14. CASE FinishTraining
  BY <1>14 DEF FinishTraining, IInv, ProfileOnDisk, Places, FlagsOK, FilesOK, Fresh,
     Running
<1>15. CASE Clear
  BY <1>15 DEF Clear, IInv, ProfileOnDisk, Places, FlagsOK, FilesOK, Fresh, Running
<1>16. CASE Quit
  BY <1>16 DEF Quit, IInv, ProfileOnDisk, Places, FlagsOK, FilesOK, Fresh, Running
<1>17. CASE OpenTraining
  BY <1>17 DEF OpenTraining, IInv, ProfileOnDisk, Places, FlagsOK, FilesOK, Fresh, Running
<1>18. CASE WriteTraining
  BY <1>18 DEF WriteTraining, AfterTraining, IInv, ProfileOnDisk, Places, FlagsOK,
     FilesOK, Fresh, Running
<1>19. CASE TrainingFail
  BY <1>19 DEF TrainingFail, Spend, AfterTraining, IInv, ProfileOnDisk, Places,
     FlagsOK, FilesOK, Fresh, Running
<1>20. CASE Stage
  BY <1>20 DEF Stage, IInv, ProfileOnDisk, Places, FlagsOK, FilesOK, Fresh, Running
<1>21. CASE StageFail
  BY <1>21 DEF StageFail, Spend, IInv, ProfileOnDisk, Places, FlagsOK, FilesOK,
     Fresh, Running
<1>22. CASE WriteTmp
  BY <1>22 DEF WriteTmp, IInv, ProfileOnDisk, Places, FlagsOK, FilesOK, Fresh, Running
<1>23. CASE WriteTmpFail
  BY <1>23 DEF WriteTmpFail, Spend, IInv, ProfileOnDisk, Places, FlagsOK, FilesOK,
     Fresh, Running
<1>24. CASE Replace
  BY <1>24 DEF Replace, IInv, ProfileOnDisk, Places, FlagsOK, FilesOK, Fresh, Running
<1>25. CASE ReplaceFail
  BY <1>25 DEF ReplaceFail, Spend, IInv, ProfileOnDisk, Places, FlagsOK, FilesOK,
     Fresh, Running
<1>26. CASE Exit
  BY <1>26 DEF Exit, Vanish, IInv, ProfileOnDisk, Places, FlagsOK, FilesOK, Fresh, Running
<1>27. CASE Crash
  BY <1>27 DEF Crash, Vanish, Spend, IInv, ProfileOnDisk, Places, FlagsOK, FilesOK,
     Fresh, Running
<1>28. CASE EditConfig
  BY <1>28 DEF EditConfig, Spend, IInv, ProfileOnDisk, Places, FlagsOK, FilesOK,
     Fresh, Running
<1>29. CASE Tick
  BY <1>29 DEF Tick, IInv, ProfileOnDisk, Places, FlagsOK, FilesOK, Fresh, Running
<1>30. CASE UNCHANGED vars
  BY <1>30 DEF IInv, ProfileOnDisk, Places, FlagsOK, FilesOK, Fresh, Running
<1>31. CASE FlushFail
  BY <1>31 DEF FlushFail, Spend, IInv, ProfileOnDisk, Places, FlagsOK,
     FilesOK, Fresh, Running
<1> QED BY <1>1, <1>2, <1>3, <1>4, <1>5, <1>6, <1>7, <1>8, <1>9, <1>10, <1>11, <1>12,
   <1>13, <1>14, <1>15, <1>16, <1>17, <1>18, <1>19, <1>20, <1>21, <1>22, <1>23, <1>24,
   <1>25, <1>26, <1>27, <1>28, <1>29, <1>30, <1>31 DEF Next, Load, BackupAndRotate, Run,
   SaveTraining, Save

\* The files and what is read from them keep their types.
LEMMA FilesStep == IInv /\ [Next]_vars => FilesOK'
<1> SUFFICES ASSUME IInv, [Next]_vars PROVE FilesOK'
  OBVIOUS
<1> USE DEF disk, app, ghosts, vars, Goto
<1>0. config_ \in Config /\ Defaults \in Config
  BY DefaultsConfig DEF IInv, FilesOK
<1>1. CASE Launch
  BY <1>1, <1>0 DEF Launch, IInv, FilesOK
<1>2. CASE LoadMissing
  BY <1>2, <1>0 DEF LoadMissing, IInv, FilesOK
<1>3. CASE LoadUnreadable
  BY <1>3, <1>0 DEF LoadUnreadable, Spend, IInv, FilesOK
<1>4. CASE LoadDocument
  BY <1>4, <1>0, NormalisedConfig DEF LoadDocument, IInv, FilesOK
<1>5. CASE LoadCorrupt
  BY <1>5, <1>0 DEF LoadCorrupt, IInv, FilesOK
<1>6. CASE Rotate
  BY <1>6, <1>0 DEF Rotate, IInv, FilesOK
<1>7. CASE RotateFail
  BY <1>7, <1>0 DEF RotateFail, Spend, IInv, FilesOK
<1>8. CASE Prune
  BY <1>8, <1>0 DEF Prune, Spend, IInv, FilesOK
<1>9. CASE PruneDone
  BY <1>9, <1>0 DEF PruneDone, IInv, FilesOK
<1>10. CASE Initialize
  BY <1>10, <1>0 DEF Initialize, MakeDetector, IInv, FilesOK
<1>11. CASE FireBalloon
  BY <1>11, <1>0, ChangeOne DEF FireBalloon, IInv, FilesOK
<1>12. CASE ChooseDevice
  <2>1. config_' \in Config
    BY <1>12, <1>0 DEF ChooseDevice, Config
  <2> QED BY <1>12, <2>1 DEF ChooseDevice, MakeDetector, IInv, FilesOK
<1>13. CASE MoveSlider
  <2>1. config_' \in Config
    BY <1>13, <1>0, PersistenceAssumption DEF MoveSlider, Config
  <2> QED BY <1>13, <2>1 DEF MoveSlider, IInv, FilesOK
<1>14. CASE FinishTraining
  <2>1. profile' \in Profile
    BY <1>14, PersistenceAssumption DEF FinishTraining, Profile, IInv, CountsOK
  <2> QED BY <1>14, <2>1 DEF FinishTraining, IInv, FilesOK
<1>15. CASE Clear
  BY <1>15, <1>0 DEF Clear, IInv, FilesOK
<1>16. CASE Quit
  BY <1>16, <1>0 DEF Quit, IInv, FilesOK
<1>17. CASE OpenTraining
  BY <1>17, <1>0 DEF OpenTraining, IInv, FilesOK
<1>18. CASE WriteTraining
  BY <1>18, <1>0 DEF WriteTraining, IInv, FilesOK, Places
<1>19. CASE TrainingFail
  BY <1>19, <1>0 DEF TrainingFail, Spend, AfterTraining, IInv, FilesOK
<1>20. CASE Stage
  BY <1>20, <1>0 DEF Stage, IInv, FilesOK
<1>21. CASE StageFail
  BY <1>21, <1>0 DEF StageFail, Spend, IInv, FilesOK
<1>22. CASE WriteTmp
  BY <1>22, <1>0 DEF WriteTmp, IInv, FilesOK
<1>23. CASE WriteTmpFail
  BY <1>23, <1>0 DEF WriteTmpFail, Spend, IInv, FilesOK
<1>24. CASE Replace
  BY <1>24, <1>0, RoundTrip DEF Replace, IInv, FilesOK, Places
<1>25. CASE ReplaceFail
  BY <1>25, <1>0 DEF ReplaceFail, Spend, IInv, FilesOK
<1>26. CASE Exit
  BY <1>26, <1>0 DEF Exit, Vanish, IInv, FilesOK
<1>27. CASE Crash
  BY <1>27, <1>0 DEF Crash, Vanish, Spend, IInv, FilesOK
<1>28. CASE EditConfig
  BY <1>28, <1>0, EditedDocument DEF EditConfig, IInv, FilesOK
<1>29. CASE Tick
  BY <1>29, <1>0 DEF Tick, IInv, FilesOK
<1>30. CASE UNCHANGED vars
  BY <1>30, <1>0 DEF IInv, FilesOK
<1>31. CASE FlushFail
  BY <1>31, <1>0 DEF FlushFail, Spend, IInv, FilesOK
<1> QED BY <1>1, <1>2, <1>3, <1>4, <1>5, <1>6, <1>7, <1>8, <1>9, <1>10, <1>11, <1>12,
   <1>13, <1>14, <1>15, <1>16, <1>17, <1>18, <1>19, <1>20, <1>21, <1>22, <1>23, <1>24,
   <1>25, <1>26, <1>27, <1>28, <1>29, <1>30, <1>31 DEF Next, Load, BackupAndRotate, Run,
   SaveTraining, Save

\* The counters stay within their bounds.
LEMMA CountsStep == IInv /\ [Next]_vars => CountsOK'
<1> SUFFICES ASSUME IInv, [Next]_vars PROVE CountsOK'
  OBVIOUS
<1> USE DEF disk, app, ghosts, vars, Goto
<1>0. MaxNow \in Nat /\ MaxTrouble \in Nat /\ MaxProfile \in Nat
  BY PersistenceAssumption
<1>1. CASE Launch
  BY <1>1, <1>0 DEF Launch, IInv, CountsOK
<1>2. CASE LoadMissing
  BY <1>2, <1>0 DEF LoadMissing, IInv, CountsOK
<1>3. CASE LoadUnreadable
  BY <1>3, <1>0 DEF LoadUnreadable, Spend, IInv, CountsOK
<1>4. CASE LoadDocument
  BY <1>4, <1>0 DEF LoadDocument, IInv, CountsOK
<1>5. CASE LoadCorrupt
  BY <1>5, <1>0 DEF LoadCorrupt, IInv, CountsOK
<1>6. CASE Rotate
  BY <1>6, <1>0 DEF Rotate, IInv, CountsOK
<1>7. CASE RotateFail
  BY <1>7, <1>0 DEF RotateFail, Spend, IInv, CountsOK
<1>8. CASE Prune
  <2>1. backups' \subseteq backups /\ doomed' \subseteq doomed
    BY <1>8 DEF Prune
  <2>2. trouble' \in 0..MaxTrouble
    BY <1>8, <1>0 DEF Prune, Spend, IInv, CountsOK
  <2> QED BY <1>8, <2>1, <2>2 DEF Prune, IInv, CountsOK
<1>9. CASE PruneDone
  BY <1>9, <1>0 DEF PruneDone, IInv, CountsOK
<1>10. CASE Initialize
  BY <1>10, <1>0 DEF Initialize, MakeDetector, IInv, CountsOK, Config, FilesOK
<1>11. CASE FireBalloon
  BY <1>11, <1>0 DEF FireBalloon, IInv, CountsOK
<1>12. CASE ChooseDevice
  BY <1>12, <1>0 DEF ChooseDevice, MakeDetector, IInv, CountsOK, DefaultFftSize, FftSizes
<1>13. CASE MoveSlider
  BY <1>13, <1>0 DEF MoveSlider, IInv, CountsOK
<1>14. CASE FinishTraining
  BY <1>14, <1>0 DEF FinishTraining, IInv, CountsOK
<1>15. CASE Clear
  BY <1>15, <1>0 DEF Clear, IInv, CountsOK, DefaultFftSize, FftSizes
<1>16. CASE Quit
  BY <1>16, <1>0 DEF Quit, IInv, CountsOK
<1>17. CASE OpenTraining
  BY <1>17, <1>0 DEF OpenTraining, IInv, CountsOK
<1>18. CASE WriteTraining
  BY <1>18, <1>0 DEF WriteTraining, AfterTraining, IInv, CountsOK
<1>19. CASE TrainingFail
  BY <1>19, <1>0 DEF TrainingFail, Spend, AfterTraining, IInv, CountsOK
<1>20. CASE Stage
  BY <1>20, <1>0 DEF Stage, IInv, CountsOK
<1>21. CASE StageFail
  BY <1>21, <1>0 DEF StageFail, Spend, IInv, CountsOK
<1>22. CASE WriteTmp
  BY <1>22, <1>0 DEF WriteTmp, IInv, CountsOK
<1>23. CASE WriteTmpFail
  BY <1>23, <1>0 DEF WriteTmpFail, Spend, IInv, CountsOK
<1>24. CASE Replace
  BY <1>24, <1>0 DEF Replace, IInv, CountsOK
<1>25. CASE ReplaceFail
  BY <1>25, <1>0 DEF ReplaceFail, Spend, IInv, CountsOK
<1>26. CASE Exit
  BY <1>26, <1>0 DEF Exit, Vanish, IInv, CountsOK
<1>27. CASE Crash
  BY <1>27, <1>0 DEF Crash, Vanish, Spend, IInv, CountsOK
<1>28. CASE EditConfig
  BY <1>28, <1>0 DEF EditConfig, Spend, IInv, CountsOK
<1>29. CASE Tick
  BY <1>29, <1>0 DEF Tick, IInv, CountsOK
<1>30. CASE UNCHANGED vars
  BY <1>30, <1>0 DEF IInv, CountsOK
<1>31. CASE FlushFail
  BY <1>31, <1>0 DEF FlushFail, Spend, IInv, CountsOK
<1> QED BY <1>1, <1>2, <1>3, <1>4, <1>5, <1>6, <1>7, <1>8, <1>9, <1>10, <1>11, <1>12,
   <1>13, <1>14, <1>15, <1>16, <1>17, <1>18, <1>19, <1>20, <1>21, <1>22, <1>23, <1>24,
   <1>25, <1>26, <1>27, <1>28, <1>29, <1>30, <1>31 DEF Next, Load, BackupAndRotate, Run,
   SaveTraining, Save

\* The labels, marks and flags keep their types.
LEMMA FlagsStep == IInv /\ [Next]_vars => FlagsOK'
<1> SUFFICES ASSUME IInv, [Next]_vars PROVE FlagsOK'
  OBVIOUS
<1> USE DEF disk, app, ghosts, vars, Goto
<1>1. CASE Launch
  BY <1>1 DEF Launch, IInv, FlagsOK, Fields
<1>2. CASE LoadMissing
  BY <1>2 DEF LoadMissing, IInv, FlagsOK, Fields
<1>3. CASE LoadUnreadable
  BY <1>3 DEF LoadUnreadable, Spend, IInv, FlagsOK, Fields
<1>4. CASE LoadDocument
  BY <1>4, Zenon DEF LoadDocument, IInv, FlagsOK, Fields
<1>5. CASE LoadCorrupt
  BY <1>5 DEF LoadCorrupt, IInv, FlagsOK, Fields
<1>6. CASE Rotate
  BY <1>6 DEF Rotate, IInv, FlagsOK, Fields
<1>7. CASE RotateFail
  BY <1>7 DEF RotateFail, Spend, IInv, FlagsOK, Fields
<1>8. CASE Prune
  BY <1>8 DEF Prune, Spend, IInv, FlagsOK, Fields
<1>9. CASE PruneDone
  BY <1>9 DEF PruneDone, IInv, FlagsOK, Fields
<1>10. CASE Initialize
  BY <1>10 DEF Initialize, MakeDetector, IInv, FlagsOK, Fields
<1>11. CASE FireBalloon
  BY <1>11 DEF FireBalloon, IInv, FlagsOK, Fields
<1>12. CASE ChooseDevice
  BY <1>12 DEF ChooseDevice, MakeDetector, IInv, FlagsOK, Fields
<1>13. CASE MoveSlider
  BY <1>13 DEF MoveSlider, IInv, FlagsOK, Fields
<1>14. CASE FinishTraining
  BY <1>14 DEF FinishTraining, IInv, FlagsOK, Fields
<1>15. CASE Clear
  BY <1>15 DEF Clear, IInv, FlagsOK, Fields
<1>16. CASE Quit
  BY <1>16 DEF Quit, IInv, FlagsOK, Fields
<1>17. CASE OpenTraining
  BY <1>17 DEF OpenTraining, IInv, FlagsOK, Fields
<1>18. CASE WriteTraining
  BY <1>18 DEF WriteTraining, AfterTraining, IInv, FlagsOK, Fields
<1>19. CASE TrainingFail
  BY <1>19 DEF TrainingFail, Spend, AfterTraining, IInv, FlagsOK, Fields
<1>20. CASE Stage
  BY <1>20 DEF Stage, IInv, FlagsOK, Fields
<1>21. CASE StageFail
  BY <1>21 DEF StageFail, Spend, IInv, FlagsOK, Fields
<1>22. CASE WriteTmp
  BY <1>22 DEF WriteTmp, IInv, FlagsOK, Fields
<1>23. CASE WriteTmpFail
  BY <1>23 DEF WriteTmpFail, Spend, IInv, FlagsOK, Fields
<1>24. CASE Replace
  BY <1>24 DEF Replace, IInv, FlagsOK, Fields
<1>25. CASE ReplaceFail
  BY <1>25 DEF ReplaceFail, Spend, IInv, FlagsOK, Fields
<1>26. CASE Exit
  BY <1>26 DEF Exit, Vanish, IInv, FlagsOK, Fields
<1>27. CASE Crash
  BY <1>27 DEF Crash, Vanish, Spend, IInv, FlagsOK, Fields
<1>28. CASE EditConfig
  BY <1>28 DEF EditConfig, Spend, IInv, FlagsOK, Fields
<1>29. CASE Tick
  BY <1>29 DEF Tick, IInv, FlagsOK, Fields
<1>30. CASE UNCHANGED vars
  BY <1>30 DEF IInv, FlagsOK, Fields
<1>31. CASE FlushFail
  BY <1>31 DEF FlushFail, Spend, IInv, FlagsOK, Fields
<1> QED BY <1>1, <1>2, <1>3, <1>4, <1>5, <1>6, <1>7, <1>8, <1>9, <1>10, <1>11, <1>12,
   <1>13, <1>14, <1>15, <1>16, <1>17, <1>18, <1>19, <1>20, <1>21, <1>22, <1>23, <1>24,
   <1>25, <1>26, <1>27, <1>28, <1>29, <1>30, <1>31 DEF Next, Load, BackupAndRotate, Run,
   SaveTraining, Save

\* Only the reading itself makes a configuration that has just been read.
LEMMA JustReadStep == IInv /\ [Next]_vars => JustRead'
<1> SUFFICES ASSUME IInv, [Next]_vars PROVE JustRead'
  OBVIOUS
<1> USE DEF disk, app, ghosts, vars, Goto
<1>0. /\ config_ \in Config /\ then \in {"running", "exit"}
      /\ Missing \notin Document /\ Torn \notin Document
  BY PersistenceAssumption DEF IInv, FilesOK, FlagsOK
<1>1. CASE Launch
  BY <1>1, <1>0 DEF Launch, IInv, JustRead, Fresh, Running, Places
<1>2. CASE LoadMissing
  BY <1>2, <1>0 DEF LoadMissing, IInv, JustRead, Fresh, Running, Places
<1>3. CASE LoadUnreadable
  BY <1>3, <1>0 DEF LoadUnreadable, Spend, IInv, JustRead, Fresh, Running, Places
<1>4. CASE LoadDocument
  BY <1>4, <1>0 DEF LoadDocument, IInv, JustRead, Fresh, Running, Places
<1>5. CASE LoadCorrupt
  BY <1>5, <1>0 DEF LoadCorrupt, IInv, JustRead, Fresh, Running, Places
<1>6. CASE Rotate
  BY <1>6, <1>0 DEF Rotate, IInv, JustRead, Fresh, Running, Places
<1>7. CASE RotateFail
  BY <1>7, <1>0 DEF RotateFail, Spend, IInv, JustRead, Fresh, Running, Places
<1>8. CASE Prune
  BY <1>8, <1>0 DEF Prune, Spend, IInv, JustRead, Fresh, Running, Places
<1>9. CASE PruneDone
  BY <1>9, <1>0 DEF PruneDone, IInv, JustRead, Fresh, Running, Places
<1>10. CASE Initialize
  BY <1>10, <1>0 DEF Initialize, MakeDetector, IInv, JustRead, Fresh, Running, Places
<1>11. CASE FireBalloon
  BY <1>11, <1>0 DEF FireBalloon, IInv, JustRead, Fresh, Running, Places
<1>12. CASE ChooseDevice
  BY <1>12, <1>0 DEF ChooseDevice, MakeDetector, IInv, JustRead, Fresh, Running, Places
<1>13. CASE MoveSlider
  BY <1>13, <1>0 DEF MoveSlider, IInv, JustRead, Fresh, Running, Places
<1>14. CASE FinishTraining
  BY <1>14, <1>0 DEF FinishTraining, IInv, JustRead, Fresh, Running, Places
<1>15. CASE Clear
  BY <1>15, <1>0 DEF Clear, IInv, JustRead, Fresh, Running, Places
<1>16. CASE Quit
  BY <1>16, <1>0 DEF Quit, IInv, JustRead, Fresh, Running, Places
<1>17. CASE OpenTraining
  BY <1>17, <1>0 DEF OpenTraining, IInv, JustRead, Fresh, Running, Places
<1>18. CASE WriteTraining
  BY <1>18, <1>0 DEF WriteTraining, AfterTraining, IInv, JustRead, Fresh, Running, Places
<1>19. CASE TrainingFail
  BY <1>19, <1>0 DEF TrainingFail, Spend, AfterTraining, IInv, JustRead, Fresh,
     Running, Places
<1>20. CASE Stage
  BY <1>20, <1>0 DEF Stage, IInv, JustRead, Fresh, Running, Places
<1>21. CASE StageFail
  BY <1>21, <1>0 DEF StageFail, Spend, IInv, JustRead, Fresh, Running, Places
<1>22. CASE WriteTmp
  BY <1>22, <1>0 DEF WriteTmp, IInv, JustRead, Fresh, Running, Places
<1>23. CASE WriteTmpFail
  BY <1>23, <1>0 DEF WriteTmpFail, Spend, IInv, JustRead, Fresh, Running, Places
<1>24. CASE Replace
  BY <1>24, <1>0 DEF Replace, IInv, JustRead, Fresh, Running, Places
<1>25. CASE ReplaceFail
  BY <1>25, <1>0 DEF ReplaceFail, Spend, IInv, JustRead, Fresh, Running, Places
<1>26. CASE Exit
  BY <1>26, <1>0 DEF Exit, Vanish, IInv, JustRead, Fresh, Running, Places
<1>27. CASE Crash
  BY <1>27, <1>0 DEF Crash, Vanish, Spend, IInv, JustRead, Fresh, Running, Places
<1>28. CASE EditConfig
  BY <1>28, <1>0 DEF EditConfig, Spend, IInv, JustRead, Fresh, Running, Places
<1>29. CASE Tick
  BY <1>29, <1>0 DEF Tick, IInv, JustRead, Fresh, Running, Places
<1>30. CASE UNCHANGED vars
  BY <1>30, <1>0 DEF IInv, JustRead, Fresh, Running, Places
<1>31. CASE FlushFail
  BY <1>31, <1>0 DEF FlushFail, Spend, IInv, JustRead, Fresh, Running, Places
<1> QED BY <1>1, <1>2, <1>3, <1>4, <1>5, <1>6, <1>7, <1>8, <1>9, <1>10, <1>11, <1>12,
   <1>13, <1>14, <1>15, <1>16, <1>17, <1>18, <1>19, <1>20, <1>21, <1>22, <1>23, <1>24,
   <1>25, <1>26, <1>27, <1>28, <1>29, <1>30, <1>31 DEF Next, Load, BackupAndRotate, Run,
   SaveTraining, Save

\* A save writes the configuration held, and what is changed is marked.
LEMMA ForgottenStep == IInv /\ [Next]_vars => NothingForgotten'
<1> SUFFICES ASSUME IInv, [Next]_vars PROVE NothingForgotten'
  OBVIOUS
<1> USE DEF disk, app, ghosts, vars, Goto
<1>0. /\ config_ \in Config /\ then \in {"running", "exit"}
      /\ Missing \notin Document /\ Torn \notin Document
  BY PersistenceAssumption DEF IInv, FilesOK, FlagsOK
<1>1. CASE Launch
  BY <1>1, <1>0 DEF Launch, IInv, NothingForgotten, Fresh, Running, Places
<1>2. CASE LoadMissing
  BY <1>2, <1>0 DEF LoadMissing, IInv, NothingForgotten, Fresh, Running, Places
<1>3. CASE LoadUnreadable
  BY <1>3, <1>0 DEF LoadUnreadable, Spend, IInv, NothingForgotten, Fresh, Running, Places
<1>4. CASE LoadDocument
  BY <1>4, <1>0 DEF LoadDocument, IInv, NothingForgotten, Fresh, Running, Places
<1>5. CASE LoadCorrupt
  BY <1>5, <1>0 DEF LoadCorrupt, IInv, NothingForgotten, Fresh, Running, Places
<1>6. CASE Rotate
  BY <1>6, <1>0 DEF Rotate, IInv, NothingForgotten, Fresh, Running, Places
<1>7. CASE RotateFail
  BY <1>7, <1>0 DEF RotateFail, Spend, IInv, NothingForgotten, Fresh, Running, Places
<1>8. CASE Prune
  BY <1>8, <1>0 DEF Prune, Spend, IInv, NothingForgotten, Fresh, Running, Places
<1>9. CASE PruneDone
  BY <1>9, <1>0 DEF PruneDone, IInv, NothingForgotten, Fresh, Running, Places
<1>10. CASE Initialize
  BY <1>10, <1>0 DEF Initialize, MakeDetector, IInv, NothingForgotten, Fresh,
     Running, Places
<1>11. CASE FireBalloon
  BY <1>11, <1>0, ChangeOne DEF FireBalloon, IInv, NothingForgotten
<1>12. CASE ChooseDevice
  <2>1. PICK d \in Ids : config_' = [config_ EXCEPT !.deviceId = d]
    BY <1>12 DEF ChooseDevice
  <2>2. \A f \in Fields \ {"deviceId"} : config_'[f] = config_[f]
    BY <1>0, <2>1 DEF Config, Fields
  <2> QED BY <1>12, <2>2 DEF ChooseDevice, IInv, NothingForgotten, Running
<1>13. CASE MoveSlider
  <2>1. PICK t \in Chosen : config_' = [config_ EXCEPT !.minDurationMs = t]
    BY <1>13 DEF MoveSlider
  <2>2. \A f \in Fields \ {"minDurationMs"} : config_'[f] = config_[f]
    BY <1>0, <2>1 DEF Config, Fields
  <2> QED BY <1>13, <2>2 DEF MoveSlider, IInv, NothingForgotten, Running
<1>14. CASE FinishTraining
  BY <1>14, <1>0 DEF FinishTraining, IInv, NothingForgotten, Fresh, Running, Places
<1>15. CASE Clear
  BY <1>15, <1>0 DEF Clear, IInv, NothingForgotten, Fresh, Running, Places
<1>16. CASE Quit
  BY <1>16, <1>0 DEF Quit, IInv, NothingForgotten, Fresh, Running, Places
<1>17. CASE OpenTraining
  BY <1>17, <1>0 DEF OpenTraining, IInv, NothingForgotten, Fresh, Running, Places
<1>18. CASE WriteTraining
  BY <1>18, <1>0 DEF WriteTraining, AfterTraining, IInv, NothingForgotten, Fresh,
     Running, Places
<1>19. CASE TrainingFail
  BY <1>19, <1>0 DEF TrainingFail, Spend, AfterTraining, IInv, NothingForgotten,
     Fresh, Running, Places
<1>20. CASE Stage
  BY <1>20, <1>0 DEF Stage, IInv, NothingForgotten, Fresh, Running, Places
<1>21. CASE StageFail
  BY <1>21, <1>0 DEF StageFail, Spend, IInv, NothingForgotten, Fresh, Running, Places
<1>22. CASE WriteTmp
  BY <1>22, <1>0 DEF WriteTmp, IInv, NothingForgotten, Fresh, Running, Places
<1>23. CASE WriteTmpFail
  BY <1>23, <1>0 DEF WriteTmpFail, Spend, IInv, NothingForgotten, Fresh, Running, Places
<1>24. CASE Replace
  BY <1>24, <1>0, RoundTrip DEF Replace, IInv, NothingForgotten, Places
<1>25. CASE ReplaceFail
  BY <1>25, <1>0 DEF ReplaceFail, Spend, IInv, NothingForgotten, Fresh, Running, Places
<1>26. CASE Exit
  BY <1>26, <1>0 DEF Exit, Vanish, IInv, NothingForgotten, Fresh, Running, Places
<1>27. CASE Crash
  BY <1>27, <1>0 DEF Crash, Vanish, Spend, IInv, NothingForgotten, Fresh, Running, Places
<1>28. CASE EditConfig
  BY <1>28, <1>0 DEF EditConfig, Spend, IInv, NothingForgotten, Fresh, Running, Places
<1>29. CASE Tick
  BY <1>29, <1>0 DEF Tick, IInv, NothingForgotten, Fresh, Running, Places
<1>30. CASE UNCHANGED vars
  BY <1>30, <1>0 DEF IInv, NothingForgotten, Fresh, Running, Places
<1>31. CASE FlushFail
  BY <1>31, <1>0 DEF FlushFail, Spend, IInv, NothingForgotten, Fresh, Running, Places
<1> QED BY <1>1, <1>2, <1>3, <1>4, <1>5, <1>6, <1>7, <1>8, <1>9, <1>10, <1>11, <1>12,
   <1>13, <1>14, <1>15, <1>16, <1>17, <1>18, <1>19, <1>20, <1>21, <1>22, <1>23, <1>24,
   <1>25, <1>26, <1>27, <1>28, <1>29, <1>30, <1>31 DEF Next, Load, BackupAndRotate, Run,
   SaveTraining, Save

\* The flag stays where it is.
LEMMA ToldStep == IInv /\ [Next]_vars => Told'
<1> SUFFICES ASSUME IInv, [Next]_vars PROVE Told'
  OBVIOUS
<1> USE DEF disk, app, ghosts, vars, Goto
<1>0. /\ config_ \in Config /\ then \in {"running", "exit"}
      /\ Missing \notin Document /\ Torn \notin Document
  BY PersistenceAssumption DEF IInv, FilesOK, FlagsOK
<1>1. CASE Launch
  BY <1>1, <1>0 DEF Launch, IInv, Told, Fresh, Running, Places
<1>2. CASE LoadMissing
  BY <1>2, <1>0, RoundTrip DEF LoadMissing, IInv, Told, Running
<1>3. CASE LoadUnreadable
  BY <1>3, <1>0 DEF LoadUnreadable, Spend, IInv, Told, Fresh, Running, Places
<1>4. CASE LoadDocument
  BY <1>4, <1>0, RoundTrip DEF LoadDocument, IInv, Told, Fresh, Running
<1>5. CASE LoadCorrupt
  BY <1>5, <1>0 DEF LoadCorrupt, IInv, Told, Fresh, Running, Places
<1>6. CASE Rotate
  BY <1>6, <1>0, RoundTrip DEF Rotate, IInv, Told, Places
<1>7. CASE RotateFail
  BY <1>7, <1>0, RoundTrip DEF RotateFail, IInv, Told, Places
<1>8. CASE Prune
  BY <1>8, <1>0 DEF Prune, Spend, IInv, Told, Fresh, Running, Places
<1>9. CASE PruneDone
  BY <1>9, <1>0, RoundTrip DEF PruneDone, IInv, Told, Places
<1>10. CASE Initialize
  BY <1>10, <1>0 DEF Initialize, MakeDetector, IInv, Told, Fresh, Running, Places
<1>11. CASE FireBalloon
  BY <1>11, <1>0 DEF FireBalloon, IInv, Told, Fresh, Running, Places
<1>12. CASE ChooseDevice
  BY <1>12, <1>0, ChangeOne DEF ChooseDevice, IInv, Told, Running, Fields
<1>13. CASE MoveSlider
  BY <1>13, <1>0, ChangeOne, PersistenceAssumption DEF MoveSlider, IInv, Told,
     Running, Fields
<1>14. CASE FinishTraining
  BY <1>14, <1>0 DEF FinishTraining, IInv, Told, Fresh, Running, Places
<1>15. CASE Clear
  BY <1>15, <1>0 DEF Clear, IInv, Told, Fresh, Running, Places
<1>16. CASE Quit
  BY <1>16, <1>0 DEF Quit, IInv, Told, Fresh, Running, Places
<1>17. CASE OpenTraining
  BY <1>17, <1>0 DEF OpenTraining, IInv, Told, Fresh, Running, Places
<1>18. CASE WriteTraining
  BY <1>18, <1>0 DEF WriteTraining, AfterTraining, IInv, Told, Fresh, Running, Places
<1>19. CASE TrainingFail
  BY <1>19, <1>0 DEF TrainingFail, Spend, AfterTraining, IInv, Told, Fresh, Running,
     Places
<1>20. CASE Stage
  BY <1>20, <1>0 DEF Stage, IInv, Told, Fresh, Running, Places
<1>21. CASE StageFail
  BY <1>21, <1>0 DEF StageFail, Spend, IInv, Told, Fresh, Running, Places
<1>22. CASE WriteTmp
  BY <1>22, <1>0 DEF WriteTmp, IInv, Told, Fresh, Running, Places
<1>23. CASE WriteTmpFail
  BY <1>23, <1>0 DEF WriteTmpFail, Spend, IInv, Told, Fresh, Running, Places
<1>24. CASE Replace
  BY <1>24, <1>0 DEF Replace, IInv, Told, Fresh, Running, Places
<1>25. CASE ReplaceFail
  BY <1>25, <1>0 DEF ReplaceFail, Spend, IInv, Told, Fresh, Running, Places
<1>26. CASE Exit
  BY <1>26, <1>0 DEF Exit, Vanish, IInv, Told, Fresh, Running, Places
<1>27. CASE Crash
  BY <1>27, <1>0 DEF Crash, Vanish, Spend, IInv, Told, Fresh, Running, Places
<1>28. CASE EditConfig
  BY <1>28, <1>0 DEF EditConfig, Spend, IInv, Told, Fresh, Running, Places
<1>29. CASE Tick
  BY <1>29, <1>0 DEF Tick, IInv, Told, Fresh, Running, Places
<1>30. CASE UNCHANGED vars
  BY <1>30, <1>0 DEF IInv, Told, Fresh, Running, Places
<1>31. CASE FlushFail
  BY <1>31, <1>0 DEF FlushFail, Spend, IInv, Told, Fresh, Running, Places
<1> QED BY <1>1, <1>2, <1>3, <1>4, <1>5, <1>6, <1>7, <1>8, <1>9, <1>10, <1>11, <1>12,
   <1>13, <1>14, <1>15, <1>16, <1>17, <1>18, <1>19, <1>20, <1>21, <1>22, <1>23, <1>24,
   <1>25, <1>26, <1>27, <1>28, <1>29, <1>30, <1>31 DEF Next, Load, BackupAndRotate, Run,
   SaveTraining, Save

\* Nothing but a configuration brings a size other than the default.
LEMMA EvenStep == IInv /\ [Next]_vars => Even'
<1> SUFFICES ASSUME IInv, [Next]_vars PROVE Even'
  OBVIOUS
<1> USE DEF disk, app, ghosts, vars, Goto
<1>0. config_ \in Config /\ config_.fftSize # 0 /\ profile \in Profile \cup {NoProfile}
  BY DEF IInv, FilesOK, Config, FftSizes
<1>1. CASE Launch
  BY <1>1, <1>0 DEF Launch, IInv, Even, Fresh, Running, Places
<1>2. CASE LoadMissing
  BY <1>2, <1>0 DEF LoadMissing, IInv, Even, Fresh, Running, Places
<1>3. CASE LoadUnreadable
  BY <1>3, <1>0 DEF LoadUnreadable, Spend, IInv, Even, Fresh, Running, Places
<1>4. CASE LoadDocument
  BY <1>4, <1>0 DEF LoadDocument, IInv, Even, Fresh, Running, Places
<1>5. CASE LoadCorrupt
  BY <1>5, <1>0 DEF LoadCorrupt, IInv, Even, Fresh, Running, Places
<1>6. CASE Rotate
  BY <1>6, <1>0 DEF Rotate, IInv, Even, Fresh, Running, Places
<1>7. CASE RotateFail
  BY <1>7, <1>0 DEF RotateFail, Spend, IInv, Even, Fresh, Running, Places
<1>8. CASE Prune
  BY <1>8, <1>0 DEF Prune, Spend, IInv, Even, Fresh, Running, Places
<1>9. CASE PruneDone
  BY <1>9, <1>0 DEF PruneDone, IInv, Even, Fresh, Running, Places
<1>10. CASE Initialize
  BY <1>10, <1>0 DEF Initialize, MakeDetector, IInv, Even, Fresh, FilesOK
<1>11. CASE FireBalloon
  BY <1>11, <1>0 DEF FireBalloon, IInv, Even, Fresh, Running, Places
<1>12. CASE ChooseDevice
  <2>1. PICK d \in Ids : config_' = [config_ EXCEPT !.deviceId = d]
    BY <1>12 DEF ChooseDevice
  <2>2. \A f \in Fields \ {"deviceId"} : config_'[f] = config_[f]
    BY <1>0, <2>1 DEF Config, Fields
  <2>3. config_'.fftSize = config_.fftSize
    BY <2>2 DEF Fields
  <2> QED BY <1>12, <1>0, <2>3, PersistenceAssumption DEF ChooseDevice, MakeDetector,
     IInv, Even, DefaultFftSize
<1>13. CASE MoveSlider
  BY <1>13, <1>0, ChangeOne, PersistenceAssumption DEF MoveSlider, IInv, Even, Fields
<1>14. CASE FinishTraining
  BY <1>14, <1>0 DEF FinishTraining, IInv, Even, Fresh, Running, Places
<1>15. CASE Clear
  BY <1>15, <1>0, PersistenceAssumption DEF Clear, IInv, Even, DefaultFftSize
<1>16. CASE Quit
  BY <1>16, <1>0 DEF Quit, IInv, Even, Fresh, Running, Places
<1>17. CASE OpenTraining
  BY <1>17, <1>0, PersistenceAssumption DEF OpenTraining, IInv, Even
<1>18. CASE WriteTraining
  BY <1>18, <1>0 DEF WriteTraining, AfterTraining, IInv, Even, Fresh, Running, Places
<1>19. CASE TrainingFail
  BY <1>19, <1>0 DEF TrainingFail, Spend, AfterTraining, IInv, Even, Fresh, Running,
     Places
<1>20. CASE Stage
  BY <1>20, <1>0 DEF Stage, IInv, Even, Fresh, Running, Places
<1>21. CASE StageFail
  BY <1>21, <1>0 DEF StageFail, Spend, IInv, Even, Fresh, Running, Places
<1>22. CASE WriteTmp
  BY <1>22, <1>0 DEF WriteTmp, IInv, Even, Fresh, Running, Places
<1>23. CASE WriteTmpFail
  BY <1>23, <1>0 DEF WriteTmpFail, Spend, IInv, Even, Fresh, Running, Places
<1>24. CASE Replace
  BY <1>24, <1>0 DEF Replace, IInv, Even, Fresh, Running, Places
<1>25. CASE ReplaceFail
  BY <1>25, <1>0 DEF ReplaceFail, Spend, IInv, Even, Fresh, Running, Places
<1>26. CASE Exit
  BY <1>26, <1>0, PersistenceAssumption DEF Exit, Vanish, IInv, Even, Defaults
<1>27. CASE Crash
  BY <1>27, <1>0, PersistenceAssumption DEF Crash, Vanish, IInv, Even, Defaults
<1>28. CASE EditConfig
  BY <1>28, <1>0 DEF EditConfig, Spend, IInv, Even, Fresh, Running, Places
<1>29. CASE Tick
  BY <1>29, <1>0 DEF Tick, IInv, Even, Fresh, Running, Places
<1>30. CASE UNCHANGED vars
  BY <1>30, <1>0 DEF IInv, Even, Fresh, Running, Places
<1>31. CASE FlushFail
  BY <1>31, <1>0 DEF FlushFail, Spend, IInv, Even, Fresh, Running, Places
<1> QED BY <1>1, <1>2, <1>3, <1>4, <1>5, <1>6, <1>7, <1>8, <1>9, <1>10, <1>11, <1>12,
   <1>13, <1>14, <1>15, <1>16, <1>17, <1>18, <1>19, <1>20, <1>21, <1>22, <1>23, <1>24,
   <1>25, <1>26, <1>27, <1>28, <1>29, <1>30, <1>31 DEF Next, Load, BackupAndRotate, Run,
   SaveTraining, Save

-----------------------------------------------------------------------------
(* The theorems *)

LEMMA InitIInv == Init => IInv
<1> SUFFICES ASSUME Init PROVE IInv
  OBVIOUS
<1>1. FilesOK
  BY EditedDocument, DefaultsConfig DEF Init, FilesOK
<1>2. CountsOK
  BY PersistenceAssumption DEF Init, CountsOK
<1>3. FlagsOK
  BY DEF Init, FlagsOK
<1>4. Fresh /\ Places /\ JustRead
  BY DEF Init, Fresh, Places, JustRead, Running
<1>5. Told
  BY DEF Init, Told
<1>6. Even
  BY PersistenceAssumption DEF Init, Even, Defaults
<1>7. NothingForgotten /\ ProfileOnDisk
  BY DEF Init, NothingForgotten, ProfileOnDisk
<1> QED BY <1>1, <1>2, <1>3, <1>4, <1>5, <1>6, <1>7 DEF IInv

LEMMA StepIInv == IInv /\ [Next]_vars => IInv'
BY FilesStep, CountsStep, FlagsStep, FreshStep, PlacesStep, JustReadStep, ForgottenStep,
   ToldStep, EvenStep, DiskStep DEF IInv

\* The invariant is inductive.
THEOREM Invariance == Spec => []IInv
BY InitIInv, StepIInv, PTL DEF Spec

\* The type invariant: among others, no configuration outside its ranges is ever
\* held or saved, whatever a hand has written into the file.
THEOREM TypeCorrect == Spec => []TypeOK
<1>1. IInv => TypeOK
  BY TypeParts DEF IInv
<1> QED BY <1>1, Invariance, PTL

\* x is what the field v is read as: the allowed value nearest to the default where there
\* is no integer, nearest to the integer where that fits an int, and otherwise nearest to
\* the int that is left of it when a multiple of the width is taken away.
ReadAs(x, v, default, S) ==
  /\ v = Absent => IsNearest(x, default, S)
  /\ v \in Int /\ -(IntMax + 1) <= v /\ v <= IntMax => IsNearest(x, v, S)
  /\ v \in Int => \E k \in Int : /\ -(IntMax + 1) <= v - k * Width /\ v - k * Width <= IntMax
                               /\ IsNearest(x, v - k * Width, S)

\* The numbers of a file that has just been read: a duration within its range, a power of
\* two for the FFT.
LoadedNearest ==
  pc = "device" /\ config \in Document /\ ~unread =>
    /\ ReadAs(config_.minDurationMs, config.minDurationMs, Defaults.minDurationMs,
              DurationLo..DurationHi)
    /\ ReadAs(config_.fftSize, config.fftSize, DefaultFftSize, FftSizes)

LEMMA NearestReadAs ==
  ASSUME NEW x, NEW v \in Int \cup {Absent}, NEW default, NEW S,
         IsNearest(x, readInt(v, default), S)
  PROVE  ReadAs(x, v, default, S)
<1>1. CASE v = Absent
  <2>1. v \notin Int /\ readInt(v, default) = default
    BY <1>1, ConfigAssumption DEF readInt
  <2> QED BY <2>1 DEF ReadAs
<1>2. CASE v \in Int
  <2>1. v # Absent /\ readInt(v, default) = toInt(v)
    BY <1>2, ConfigAssumption DEF readInt
  <2>2. -(IntMax + 1) <= v /\ v <= IntMax => toInt(v) = v
    BY <1>2, IntFits
  <2>3. PICK k \in Int : toInt(v) = v - k * Width
    BY <1>2, IntWraps
  <2>4. -(IntMax + 1) <= v - k * Width /\ v - k * Width <= IntMax
    BY <1>2, <2>3, IntIsInt
  <2> QED BY <2>1, <2>2, <2>3, <2>4 DEF ReadAs
<1> QED BY <1>1, <1>2

\* Each number of the file is read as the allowed value nearest to it, if it fits an int,
\* and otherwise to what an int keeps of it: not to the number itself.
THEOREM AlwaysNearest == Spec => []LoadedNearest
<1>1. IInv => LoadedNearest
  <2> SUFFICES ASSUME IInv, pc = "device", config \in Document, ~unread
               PROVE  LoadedNearest
    BY DEF LoadedNearest
  <2>1. config_ = Normalised(config, Defaults)
    BY DEF IInv, JustRead
  <2>2. Defaults.fftSize = DefaultFftSize
    BY DEF Defaults
  <2>3. config.minDurationMs \in Int \cup {Absent} /\ config.fftSize \in Int \cup {Absent}
    BY DEF Document
  <2>4. /\ IsNearest(config_.minDurationMs,
                     readInt(config.minDurationMs, Defaults.minDurationMs),
                     DurationLo..DurationHi)
        /\ IsNearest(config_.fftSize, readInt(config.fftSize, DefaultFftSize), FftSizes)
    BY <2>1, <2>2, NormalisedConfig, DefaultsConfig
  <2> QED BY <2>3, <2>4, NearestReadAs DEF LoadedNearest
<1> QED BY <1>1, Invariance, PTL

\* A save forgets nothing an earlier run has saved.
THEOREM AlwaysRemembered == Spec => []NothingForgotten
<1>1. IInv => NothingForgotten
  BY DEF IInv
<1> QED BY <1>1, Invariance, PTL

\* The training file holds the profile in use.
THEOREM AlwaysOnDisk == Spec => []ProfileOnDisk
<1>1. IInv => ProfileOnDisk
  BY DEF IInv
<1> QED BY <1>1, Invariance, PTL

\* The profile in use fits the detector as long as only the default size was read.
THEOREM AlwaysFits == Spec => []ProfileFits
<1>1. IInv => ProfileFits
  BY DEF IInv, FilesOK, Even, ProfileFits
<1> QED BY <1>1, Invariance, PTL

\* The balloon is not shown again once its flag is on the disk.
THEOREM AlwaysBalloonOnce == Spec => BalloonOnce
<1>1. IInv /\ [Next]_vars => [pc = "balloon" /\ pc' = "stage" => ~told]_vars
  BY DEF IInv, FlagsOK, Told, Running
<1> QED BY <1>1, Invariance, PTL DEF Spec, BalloonOnce

\* A change of config.json, wherever MicMap dies: it is replaced by what the manager
\* holds, or moved aside when it was corrupt, or deleted by a replacement that fails; a
\* hand changes it while MicMap is off.
Whole ==
  \/ pc = "replace" /\ config' = config_
  \/ pc = "replace" /\ config' = Missing /\ trouble' > trouble
  \/ pc = "rotate" /\ config = Torn /\ config' = Missing /\ now \in backups'
  \/ pc = "off"

\* Or it is replaced by a file whose flush has failed, which nobody has noticed.
Truncated == Spoilt /\ config' = Torn

OldOrNew == [][config' # config => Whole \/ Truncated]_vars

LEMMA OldOrNewStep ==
  IInv /\ [Next]_vars => [config' # config => Whole \/ Truncated]_vars
<1> SUFFICES ASSUME IInv, Next, config' # config
             PROVE  Whole \/ Truncated
  BY DEF vars
<1> USE DEF disk, app, ghosts, Whole
<1>1. CASE Rotate
  BY <1>1 DEF Rotate, IInv, Places
<1>2. CASE Replace
  BY <1>2 DEF Replace, IInv, Places, Truncated, Spoilt
<1>3. CASE ReplaceFail
  BY <1>3 DEF ReplaceFail, Spend, IInv, CountsOK
<1>4. CASE EditConfig
  BY <1>4 DEF EditConfig
<1>5. ASSUME ~Rotate, ~Replace, ~ReplaceFail, ~EditConfig PROVE FALSE
  BY <1>5 DEF Next, Load, BackupAndRotate, Run, SaveTraining, Save, Launch, LoadMissing,
     LoadUnreadable, LoadDocument, LoadCorrupt, RotateFail, Prune, PruneDone, Initialize,
     FireBalloon, ChooseDevice, MoveSlider, FinishTraining, Clear, Quit, OpenTraining,
     WriteTraining, TrainingFail, Stage, StageFail, WriteTmp, WriteTmpFail, FlushFail, Exit,
     Crash, Vanish, Tick
<1> QED BY <1>1, <1>2, <1>3, <1>4, <1>5

\* config.json is one whole configuration or the next, or what an unnoticed failure of the
\* flush has left of one.
THEOREM AlwaysOldOrNew == Spec => OldOrNew
BY OldOrNewStep, Invariance, PTL DEF Spec, OldOrNew

\* A step in which the flush does not fail, or in which its failure would be seen.
Flushed == Next /\ ~FlushFail

\* What is about to replace the configuration is whole as long as the flush does not fail.
LEMMA FlushedStep == IInv /\ ~Spoilt /\ [Flushed]_vars => ~Spoilt'
<1> SUFFICES ASSUME IInv, ~Spoilt, [Flushed]_vars, pc' = "replace" PROVE tmp' # Torn
  BY DEF Spoilt
<1> USE DEF disk, app, ghosts, vars, Goto
<1>0. then \in {"running", "exit"} /\ config_ \in Config /\ Torn \notin Config
  <2>1. then \in {"running", "exit"} /\ config_ \in Config
    BY DEF IInv, FlagsOK, FilesOK
  <2>2. Config \subseteq Document
    BY RoundTrip
  <2> QED BY <2>1, <2>2, PersistenceAssumption
<1>1. CASE WriteTmp
  BY <1>0, <1>1 DEF WriteTmp
<1>2. CASE UNCHANGED <<pc, tmp>>
  BY <1>2 DEF Spoilt
<1>3. ASSUME ~WriteTmp, ~(UNCHANGED <<pc, tmp>>) PROVE FALSE
  BY <1>0, <1>3
  DEF Flushed, Next, Load, BackupAndRotate, Run, SaveTraining, Save, Launch, LoadMissing,
     LoadUnreadable, LoadDocument, LoadCorrupt, Rotate, RotateFail, Prune, PruneDone,
     Initialize, FireBalloon, ChooseDevice, MoveSlider, FinishTraining, Clear, Quit,
     OpenTraining, WriteTraining, TrainingFail, AfterTraining, Stage, StageFail,
     WriteTmpFail, Replace, ReplaceFail, Exit, Crash, Vanish, EditConfig, Tick
<1> QED BY <1>1, <1>2, <1>3

\* It is the flush alone: if it never failed, or its failure were treated as that of the
\* write, config.json would be one whole configuration or the next.
THEOREM CheckedFlushKeepsWhole ==
  Init /\ [][Flushed]_vars => [][config' # config => Whole]_vars
<1>1. Init => ~Spoilt
  BY DEF Init, Spoilt
<1>2. IInv /\ [Flushed]_vars => IInv'
  BY StepIInv DEF Flushed
<1>3. IInv /\ ~Spoilt /\ [Flushed]_vars => [config' # config => Whole]_vars
  BY OldOrNewStep DEF Flushed, Truncated
<1> QED BY <1>1, <1>2, <1>3, InitIInv, FlushedStep, PTL

-----------------------------------------------------------------------------
(* The backups *)

\* Whatever is still to be pruned has as many newer backups as are to be kept.
Newer(b, S) == {c \in S : c > b}
Doomed == \A b \in doomed : Cardinality(Newer(b, backups)) >= Keep

\* The newest of the doomed goes first, so the others keep as many newer ones as it has.
LEMMA PruneKeeps ==
  ASSUME CountsOK, Doomed, NEW b \in doomed, NEW d \in doomed, d <= b, d # b
  PROVE  Cardinality(Newer(d, backups \ {b})) >= Keep
<1> DEFINE Few == Newer(b, backups)
           Many == Newer(d, backups \ {b})
<1>0. b \in Int /\ d \in Int /\ backups \subseteq Int
  BY PersistenceAssumption DEF CountsOK
<1>1. IsFiniteSet(backups)
  <2>1. 0 \in Int /\ MaxNow \in Int
    BY PersistenceAssumption
  <2>2. IsFiniteSet(0..MaxNow)
    BY <2>1, FS_Interval
  <2>3. backups \in SUBSET (0..MaxNow)
    BY DEF CountsOK
  <2> QED BY <2>2, <2>3, FS_Subset
<1>2. IsFiniteSet(Many)
  <2>1. Many \in SUBSET backups
    BY DEF Newer
  <2> QED BY <1>1, <2>1, FS_Subset
<1>3. Few \subseteq Many
  <2> SUFFICES ASSUME NEW c \in backups, c > b PROVE c \in Many
    BY DEF Newer
  <2>1. c \in Int
    BY <1>0
  <2>2. c > d /\ c # b
    BY <1>0, <2>1
  <2> QED BY <2>2 DEF Newer
<1>4. Few \in SUBSET Many
  BY <1>3
<1> HIDE DEF Few, Many
<1>5. IsFiniteSet(Few) /\ Cardinality(Few) <= Cardinality(Many)
  BY <1>2, <1>4, FS_Subset
<1>6. Cardinality(Few) \in Nat /\ Cardinality(Many) \in Nat
  BY <1>2, <1>5, FS_CardinalityType
<1>7. Cardinality(Few) >= Keep
  BY DEF Doomed, Few
<1> QED BY <1>5, <1>6, <1>7, PersistenceAssumption DEF Many

LEMMA DoomedStep == IInv /\ Doomed /\ [Next]_vars => Doomed'
<1> SUFFICES ASSUME IInv, Doomed, [Next]_vars PROVE Doomed'
  OBVIOUS
<1> USE DEF disk, app, ghosts, vars, Goto
<1>1. CASE Rotate
  BY <1>1 DEF Rotate, Doomed, Newer
<1>2. CASE Prune
  <2>1. PICK b \in doomed :
          /\ \A c \in doomed : c <= b
          /\ doomed' = doomed \ {b}
          /\ backups' = backups \ {b} \/ backups' = backups
    BY <1>2 DEF Prune
  <2>2. CASE backups' = backups
    BY <2>1, <2>2 DEF Doomed
  <2>3. CASE backups' = backups \ {b}
    <3> SUFFICES ASSUME NEW d \in doomed' PROVE Cardinality(Newer(d, backups')) >= Keep
      BY DEF Doomed
    <3>1. d \in doomed /\ d <= b /\ d # b
      BY <2>1
    <3> QED BY <2>3, <3>1, PruneKeeps DEF IInv
  <2> QED BY <2>1, <2>2, <2>3
<1>3. CASE Exit \/ Crash
  BY <1>3 DEF Exit, Crash, Vanish, Doomed
<1>4. CASE UNCHANGED <<backups, doomed>>
  BY <1>4 DEF Doomed
<1>5. ASSUME ~Rotate, ~Prune, ~Exit, ~Crash PROVE UNCHANGED <<backups, doomed>>
  BY <1>5 DEF Next, Load, BackupAndRotate, Run, SaveTraining, Save, Launch, LoadMissing,
     LoadUnreadable, LoadDocument, LoadCorrupt, RotateFail, PruneDone, Initialize,
     FireBalloon, ChooseDevice, MoveSlider, FinishTraining, Clear, Quit, OpenTraining,
     WriteTraining, TrainingFail, Stage, StageFail, WriteTmp, WriteTmpFail, FlushFail, Replace,
     ReplaceFail, EditConfig, Tick
<1> QED BY <1>1, <1>2, <1>3, <1>4, <1>5

LEMMA KeptStep ==
  IInv /\ Doomed /\ [Next]_vars =>
    [\A b \in backups \ backups' : Cardinality({c \in backups' : c > b}) >= Keep]_vars
<1> SUFFICES ASSUME IInv, Doomed, Next, NEW b \in backups \ backups'
             PROVE  Cardinality(Newer(b, backups')) >= Keep
  BY DEF Newer
<1> USE DEF disk, app, ghosts, Goto
<1>1. CASE Prune
  <2>1. b \in doomed /\ backups' = backups \ {b}
    BY <1>1 DEF Prune
  <2>2. b \in Int
    BY <2>1, PersistenceAssumption DEF IInv, CountsOK
  <2>3. Newer(b, backups') = Newer(b, backups)
    BY <2>1, <2>2 DEF Newer
  <2> QED BY <2>1, <2>3 DEF Doomed
<1>2. ASSUME ~Prune PROVE backups \subseteq backups'
  BY <1>2 DEF Next, Load, BackupAndRotate, Run, SaveTraining, Save, Launch, LoadMissing,
     LoadUnreadable, LoadDocument, LoadCorrupt, Rotate, RotateFail, PruneDone, Initialize,
     FireBalloon, ChooseDevice, MoveSlider, FinishTraining, Clear, Quit, OpenTraining,
     WriteTraining, TrainingFail, Stage, StageFail, WriteTmp, WriteTmpFail, FlushFail, Replace,
     ReplaceFail, Exit, Crash, Vanish, EditConfig, Tick
<1> QED BY <1>1, <1>2

\* Only a corrupt configuration with enough newer ones is ever deleted.
THEOREM AlwaysNewestKept == Spec => NewestKept
<1>1. Init => Doomed
  BY DEF Init, Doomed
<1> QED BY <1>1, DoomedStep, KeptStep, Invariance, PTL DEF Spec, NewestKept

-----------------------------------------------------------------------------
(* The refinement *)

LEMMA Phases ==
  ASSUME FlagsOK
  PROVE  /\ pc = "off" => Phase = "off"
         /\ pc \in {"load", "rotate", "prune"} => Phase = "starting"
         /\ pc \notin {"off", "load", "rotate", "prune"} => Phase = "up"
BY DEF FlagsOK, Phase

\* The store takes its values from the same module.
LEMMA SameValues ==
  /\ Store!Document = Document /\ Store!Config = Config /\ Store!Defaults = Defaults
  /\ \A v, default : Store!read(v, default) = read(v, default)
  /\ \A v, default : Store!readInt(v, default) = readInt(v, default)
  /\ \A x, v, S : IsNearest(x, v, S) => Store!IsNearest(x, v, S)
  /\ Store!FftSizes = FftSizes /\ Store!DurationLo = DurationLo
  /\ Store!DurationHi = DurationHi
<1>1. Store!FftSizes = FftSizes /\ Store!DurationLo = DurationLo /\ Store!DurationHi = DurationHi
  BY DEF FftSizes, DurationLo, DurationHi, Store!FftSizes, Store!DurationLo, Store!DurationHi
<1>2. Store!Document = Document
  BY DEF Document, Store!Document
<1>3. Store!Config = Config
  BY <1>1 DEF Config, Store!Config
<1>4. Store!Defaults = Defaults
  BY DEF Defaults, DefaultFftSize, Store!Defaults, Store!DefaultFftSize
<1>5. \A v, default : Store!read(v, default) = read(v, default)
  BY DEF read, Store!read
<1>6. ASSUME NEW x, NEW v, NEW S, IsNearest(x, v, S) PROVE Store!IsNearest(x, v, S)
  <2>1. \A a, b : Store!Distance(a, b) = Distance(a, b)
    BY DEF Distance, Store!Distance
  <2> QED BY <1>6, <2>1 DEF IsNearest, Store!IsNearest
<1>7. \A v, default : Store!readInt(v, default) = readInt(v, default)
  <2>1. Store!Width = Width
    BY DEF Width, Store!Width
  <2>2. \A v : Store!toInt(v) = toInt(v)
    BY <2>1 DEF toInt, Store!toInt
  <2> QED BY <2>2 DEF readInt, Store!readInt
<1> QED BY <1>1, <1>2, <1>3, <1>4, <1>5, <1>6, <1>7

\* No failure is kept back but that of a flush, until the file is replaced.
LEMMA Shows ==
  /\ ~Spoilt => Shown = trouble
  /\ Spoilt => Shown = trouble - 1
BY DEF Shown

LEMMA InitRefines == Init => Store!Init
<1> SUFFICES ASSUME Init PROVE Store!Init
  OBVIOUS
<1>1. config \in Document \cup {Missing, Torn}
  BY EditedDocument DEF Init
<1>2. Phase = "off"
  BY DEF Init, Phase
<1>3. Shown = 0
  BY Shows DEF Init, Spoilt
<1> QED BY <1>1, <1>2, <1>3, SameValues DEF Init, Store!Init, Store!Contents

\* What the load of the configuration comes to.
LEMMA LoadRefines ==
  ASSUME IInv, IInv', Launch \/ Load \/ BackupAndRotate
  PROVE  Store!Next \/ UNCHANGED Store!vars
<1> USE DEF disk, app, ghosts, Goto
<1>0. FlagsOK /\ FlagsOK' /\ config \in Document \cup {Missing, Torn} /\ config_ \in Config
  BY DEF IInv, FilesOK
<1>1. /\ pc = "off" => Phase = "off"
      /\ pc \in {"load", "rotate", "prune"} => Phase = "starting"
  BY <1>0, Phases
<1>2. FlagsOK' => /\ pc' \in {"load", "rotate", "prune"} => Phase' = "starting"
                  /\ pc' = "device" => Phase' = "up"
  BY DEF FlagsOK, Phase
<1>12. Shown = trouble /\ Shown' = trouble'
  <2>1. ~Spoilt /\ ~Spoilt'
    BY DEF Launch, Load, BackupAndRotate, LoadMissing, LoadUnreadable, LoadDocument, LoadCorrupt,
       Rotate, RotateFail, Prune, PruneDone, Spoilt
  <2> QED BY <2>1 DEF Shown
<1>13. trouble \in Nat /\ MaxTrouble \in Nat
  BY PersistenceAssumption DEF IInv, CountsOK
<1>14. Spend => Store!Fault
  BY <1>12, <1>13 DEF Spend, Store!Fault
<1>3. CASE Launch
  <2>1. Store!Start
    BY <1>0, <1>1, <1>2, <1>3, <1>12 DEF Launch, Store!Start
  <2> QED BY <2>1 DEF Store!Next
<1>4. CASE LoadMissing
  <2>1. Store!Read
    BY <1>0, <1>1, <1>2, <1>4, <1>12, SameValues DEF LoadMissing, IInv, Fresh, Running, Store!Read
  <2> QED BY <2>1 DEF Store!Next
<1>5. CASE LoadUnreadable
  <2>1. Store!ReadFails
    BY <1>0, <1>1, <1>2, <1>5, <1>14, SameValues
       DEF LoadUnreadable, IInv, Fresh, Running, Store!ReadFails
  <2> QED BY <2>1 DEF Store!Next
<1>6. CASE LoadDocument
  <2>1. config \in Document /\ config_ = Defaults /\ config_' = Normalised(config, Defaults)
    BY <1>6 DEF LoadDocument, IInv, Fresh, Running
  <2>2. Store!Reads(config, config_')
    <3>1. /\ config_'.deviceId = read(config.deviceId, Defaults.deviceId)
          /\ config_'.shownTrayNotification = read(config.shownTrayNotification, FALSE)
      BY <2>1 DEF Normalised
    <3> QED BY <2>1, <3>1, NormalisedConfig, DefaultsConfig, SameValues DEF Store!Reads
  <2>3. Store!Read
    BY <1>0, <1>1, <1>2, <1>6, <1>12, <2>1, <2>2, SameValues DEF LoadDocument, Store!Read
  <2> QED BY <2>3 DEF Store!Next
<1>7. CASE LoadCorrupt
  BY <1>0, <1>1, <1>2, <1>7, <1>12 DEF LoadCorrupt, Store!vars
<1>8. CASE Rotate
  <2>1. Store!SetAside
    BY <1>0, <1>1, <1>2, <1>8, <1>12 DEF Rotate, IInv, Places, Store!SetAside
  <2> QED BY <2>1 DEF Store!Next
<1>9. CASE RotateFail
  <2>1. Store!ReadFails
    BY <1>0, <1>1, <1>2, <1>9, <1>14, PersistenceAssumption, SameValues
       DEF RotateFail, IInv, Places, Store!ReadFails
  <2> QED BY <2>1 DEF Store!Next
<1>10. CASE Prune
  <2>1. UNCHANGED <<config, config_, pc>> /\ (UNCHANGED trouble \/ Spend)
    BY <1>10 DEF Prune
  <2>2. Phase = "starting" /\ Phase' = "starting"
    BY <1>0, <1>1, <1>2, <1>10, <2>1 DEF Prune
  <2>3. CASE UNCHANGED trouble
    BY <1>12, <2>1, <2>2, <2>3 DEF Store!vars
  <2>4. CASE Spend
    <3>1. Store!TidyFails
      BY <1>14, <2>1, <2>2, <2>4 DEF Store!TidyFails
    <3> QED BY <3>1 DEF Store!Next
  <2> QED BY <2>1, <2>3, <2>4
<1>11. CASE PruneDone
  <2>1. Store!Read
    BY <1>0, <1>1, <1>2, <1>11, <1>12, SameValues DEF PruneDone, IInv, Places, Store!Read
  <2> QED BY <2>1 DEF Store!Next
<1> QED BY <1>3, <1>4, <1>5, <1>6, <1>7, <1>8, <1>9, <1>10, <1>11 DEF Load, BackupAndRotate

\* What is no business of the configuration's, or does not show yet.
LEMMA OthersRefine ==
  ASSUME IInv, IInv',
         \/ Initialize \/ FinishTraining \/ Clear \/ Quit \/ OpenTraining \/ WriteTraining
         \/ Stage \/ WriteTmp \/ FlushFail \/ Tick
  PROVE  UNCHANGED Store!vars
<1> USE DEF disk, app, ghosts, Goto
<1>1. UNCHANGED <<config, config_>>
  BY DEF Initialize, FinishTraining, Clear, Quit, OpenTraining, WriteTraining, Stage,
     WriteTmp, FlushFail, Tick
<1>2. CASE Tick
  BY <1>1, <1>2 DEF Tick, Phase, Shown, Spoilt, Store!vars
<1>3. CASE ~Tick
  <2>1. pc \notin {"off", "load", "rotate", "prune", "replace"}
    BY <1>3 DEF Initialize, FinishTraining, Clear, Quit, OpenTraining, WriteTraining, Stage,
       WriteTmp, FlushFail
  <2>2. pc' \notin {"off", "load", "rotate", "prune"}
    BY <1>3 DEF Initialize, FinishTraining, Clear, Quit, OpenTraining, WriteTraining, Stage,
       WriteTmp, FlushFail, AfterTraining, IInv, FlagsOK
  <2>3. Phase = "up" /\ Phase' = "up"
    BY <2>1, <2>2 DEF Phase
  <2>4. Shown = trouble
    BY <2>1 DEF Shown, Spoilt
  <2>5. Shown' = trouble
    <3>1. CASE FlushFail
      <4>1. Spoilt' /\ trouble' = trouble + 1 /\ trouble \in Nat
        BY <3>1 DEF FlushFail, Spend, Spoilt, IInv, Places, CountsOK
      <4> QED BY <4>1 DEF Shown
    <3>2. CASE WriteTmp
      <4>1. tmp' # Torn
        BY <3>2, RoundTrip, PersistenceAssumption DEF WriteTmp, IInv, FilesOK
      <4> QED BY <3>2, <4>1 DEF WriteTmp, Shown, Spoilt
    <3>3. CASE ~FlushFail /\ ~WriteTmp
      <4>1. pc' # "replace" /\ UNCHANGED trouble
        BY <1>3, <3>3 DEF Initialize, FinishTraining, Clear, Quit, OpenTraining, WriteTraining,
           Stage, AfterTraining, IInv, FlagsOK
      <4> QED BY <4>1 DEF Shown, Spoilt
    <3> QED BY <3>1, <3>2, <3>3
  <2> QED BY <1>1, <2>3, <2>4, <2>5 DEF Store!vars
<1> QED BY <1>2, <1>3

\* What changes a setting, and what saves them, or fails to.
LEMMA SaveRefines ==
  ASSUME IInv, IInv',
         \/ FireBalloon \/ ChooseDevice \/ MoveSlider \/ Replace
         \/ TrainingFail \/ StageFail \/ WriteTmpFail \/ ReplaceFail
  PROVE  Store!Next
<1> USE DEF disk, app, ghosts, Goto
<1>0. config_ \in Config /\ config_' \in Config
  BY DEF IInv, FilesOK
<1>1. Phase = "up" /\ Phase' = "up"
  <2>1. pc \notin {"off", "load", "rotate", "prune"}
    BY DEF FireBalloon, ChooseDevice, MoveSlider, Replace, TrainingFail, StageFail,
       WriteTmpFail, ReplaceFail
  <2>2. pc' \notin {"off", "load", "rotate", "prune"}
    BY DEF FireBalloon, ChooseDevice, MoveSlider, Replace, TrainingFail, StageFail,
       WriteTmpFail, ReplaceFail, AfterTraining, IInv, FlagsOK
  <2> QED BY <2>1, <2>2 DEF Phase
<1>5. Shown' = trouble'
  <2>1. pc' # "replace"
    BY DEF FireBalloon, ChooseDevice, MoveSlider, Replace, TrainingFail, StageFail,
       WriteTmpFail, ReplaceFail, AfterTraining, IInv, FlagsOK
  <2> QED BY <2>1 DEF Shown, Spoilt
<1>6. trouble \in 0..MaxTrouble /\ MaxTrouble \in Nat
  BY PersistenceAssumption DEF IInv, CountsOK
<1>2. CASE FireBalloon \/ ChooseDevice \/ MoveSlider
  <2>1. /\ \E s \in Store!Settings \ {"fftSize"} :
             \A t \in Store!Settings \ {s} : config_'[t] = config_[t]
        /\ config_.shownTrayNotification => config_'.shownTrayNotification
    <3>1. CASE FireBalloon
      <4>1. config_' = [config_ EXCEPT !.shownTrayNotification = TRUE]
        BY <3>1 DEF FireBalloon
      <4>2. \A t \in Store!Settings \ {"shownTrayNotification"} : config_'[t] = config_[t]
        BY <1>0, <4>1 DEF Store!Settings, Config
      <4>3. config_'.shownTrayNotification = TRUE
        BY <1>0, <4>1, ChangeOne
      <4> QED BY <4>2, <4>3 DEF Store!Settings
    <3>2. CASE ChooseDevice
      <4>1. PICK d \in Ids : config_' = [config_ EXCEPT !.deviceId = d]
        BY <3>2 DEF ChooseDevice
      <4>2. \A t \in Store!Settings \ {"deviceId"} : config_'[t] = config_[t]
        BY <1>0, <4>1 DEF Store!Settings, Config
      <4>3. config_'.shownTrayNotification = config_.shownTrayNotification
        BY <4>2 DEF Store!Settings
      <4> QED BY <4>2, <4>3 DEF Store!Settings
    <3>3. CASE MoveSlider
      <4>1. PICK n \in DurationLo..DurationHi : config_' = [config_ EXCEPT !.minDurationMs = n]
        BY <3>3, PersistenceAssumption DEF MoveSlider
      <4>2. \A t \in Store!Settings \ {"minDurationMs"} : config_'[t] = config_[t]
        BY <1>0, <4>1 DEF Store!Settings, Config
      <4>3. config_'.shownTrayNotification = config_.shownTrayNotification
        BY <4>2 DEF Store!Settings
      <4> QED BY <4>2, <4>3 DEF Store!Settings
    <3> QED BY <1>2, <3>1, <3>2, <3>3
  <2>2. UNCHANGED <<config, Shown>>
    BY <1>2, <1>5 DEF FireBalloon, ChooseDevice, MoveSlider, Shown, Spoilt
  <2>3. Store!Change
    BY <1>0, <1>1, <2>1, <2>2, SameValues DEF Store!Change
  <2> QED BY <2>3 DEF Store!Next
<1>3. CASE Replace
  <2>1. CASE Spoilt
    <3>1. Store!Fault
      BY <1>3, <1>5, <1>6, <2>1 DEF Replace, Shown, Store!Fault
    <3>2. Store!SaveSpoils
      BY <1>1, <1>3, <2>1, <3>1 DEF Replace, Spoilt, Store!SaveSpoils
    <3> QED BY <3>2 DEF Store!Next
  <2>2. CASE ~Spoilt
    <3>1. tmp = config_ /\ Shown = trouble
      BY <1>3, <2>2 DEF Replace, Spoilt, Shown, IInv, Places
    <3>2. Store!Save
      BY <1>1, <1>3, <1>5, <3>1 DEF Replace, Store!Save
    <3> QED BY <3>2 DEF Store!Next
  <2> QED BY <2>1, <2>2
<1>4. CASE TrainingFail \/ StageFail \/ WriteTmpFail \/ ReplaceFail
  <2>1. UNCHANGED config_ /\ Spend /\ config' \in {config, Missing}
    BY <1>4 DEF TrainingFail, StageFail, WriteTmpFail, ReplaceFail
  <2>2. Store!Fault
    BY <1>5, <1>6, <2>1 DEF Spend, Shown, Store!Fault
  <2>3. Store!SaveFails
    BY <1>1, <2>1, <2>2 DEF Store!SaveFails
  <2> QED BY <2>3 DEF Store!Next
<1> QED BY <1>2, <1>3, <1>4

LEMMA WorldRefines ==
  ASSUME IInv, IInv', Exit \/ Crash \/ EditConfig
  PROVE  Store!Next
<1> USE DEF disk, app, ghosts, Goto
<1>4. trouble \in 0..MaxTrouble /\ MaxTrouble \in Nat
  BY PersistenceAssumption DEF IInv, CountsOK
<1>5. Shown' = trouble'
  BY DEF Exit, Crash, EditConfig, Vanish, Shown, Spoilt
<1>1. CASE Exit
  <2>1. Phase = "up" /\ Phase' = "off" /\ Shown = trouble
    BY <1>1 DEF Exit, Vanish, Phase, Shown, Spoilt
  <2>2. Store!Quit
    BY <1>1, <1>5, <2>1, SameValues DEF Exit, Vanish, Store!Quit
  <2> QED BY <2>2 DEF Store!Next
<1>2. CASE Crash
  <2>1. Phase # "off" /\ Phase' = "off"
    BY <1>2 DEF Crash, Vanish, Phase
  <2>2. Store!Fault
    BY <1>2, <1>4, <1>5 DEF Crash, Spend, Shown, Store!Fault
  <2>3. Store!Die
    BY <1>2, <2>1, <2>2, SameValues DEF Crash, Vanish, Store!Die
  <2> QED BY <2>3 DEF Store!Next
<1>3. CASE EditConfig
  <2>1. Phase = "off" /\ Phase' = "off"
    BY <1>3 DEF EditConfig, Phase
  <2>2. Store!Fault
    BY <1>3, <1>4, <1>5 DEF EditConfig, Spend, Shown, Store!Fault
  <2>3. Store!EditByHand
    BY <1>3, <2>1, <2>2, EditedDocument, SameValues
       DEF EditConfig, Store!EditByHand, Store!Contents
  <2> QED BY <2>3 DEF Store!Next
<1> QED BY <1>1, <1>2, <1>3

LEMMA NextRefines == IInv /\ IInv' /\ [Next]_vars => [Store!Next]_(Store!vars)
<1>1. ASSUME UNCHANGED vars PROVE UNCHANGED Store!vars
  BY <1>1 DEF vars, disk, app, Store!vars, Phase, Shown, Spoilt
<1> QED BY <1>1, LoadRefines, OthersRefine, SaveRefines, WorldRefines
   DEF Next, Run, SaveTraining, Save

\* The configuration file behaves as one that is replaced in a single step, by a whole
\* configuration unless the save has failed, for any number of backups, documents, failures
\* and crashes.
THEOREM Refinement == Spec => ImplementsSettingsStore
BY InitRefines, NextRefines, Invariance, PTL DEF Spec, ImplementsSettingsStore, Store!Spec
=============================================================================
