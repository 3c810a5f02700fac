---------------------------- MODULE SettingsStore ----------------------------
(***************************************************************************)
(* What the configuration promises, whatever the temporary files, the      *)
(* backups and the order of the calls: a file that holds one whole         *)
(* configuration and is replaced by another in a single step.  It is read  *)
(* once in a run, each number as the allowed value nearest to what an int  *)
(* holds of the one in the file; what is saved is what the application     *)
(* then holds; a file that makes no sense is set aside, never written over *)
(* while it is read; and whatever fails or dies, nothing but that step, a  *)
(* hand while MicMap is off, or a save that fails changes it.  It does not *)
(* promise more of the last one: such a save may delete the file, and if   *)
(* it is the flush that fails it leaves one that makes no sense.           *)
(***************************************************************************)
EXTENDS ConfigValues

CONSTANTS
  Missing, Torn,  \* no file, and a file that makes no sense
  MaxFaults       \* failures, crashes and changes by hand (a bound)

VARIABLES
  stored,  \* what is in the file
  held,    \* what the application goes by
  phase,   \* "off", "starting", "up"
  faults

vars == <<stored, held, phase, faults>>

Settings == {"deviceId", "minDurationMs", "fftSize", "shownTrayNotification"}
Contents == Document \cup {Missing, Torn}

Init ==
  /\ stored \in Contents
  /\ held = Defaults
  /\ phase = "off"
  /\ faults = 0

\* A step that shows one failure, or more than one.
Fault == faults' > faults /\ faults' <= MaxFaults

Start == phase = "off" /\ phase' = "starting" /\ UNCHANGED <<stored, held, faults>>

\* A file that makes no sense is moved aside.
SetAside ==
  /\ phase = "starting" /\ stored = Torn
  /\ stored' = Missing
  /\ UNCHANGED <<held, phase, faults>>

\* c is how the document d is read: text and flag as they are, of a number what
\* an int holds, and that as near as may be.
Reads(d, c) ==
  /\ c \in Config
  /\ c.deviceId = read(d.deviceId, Defaults.deviceId)
  /\ IsNearest(c.minDurationMs, readInt(d.minDurationMs, Defaults.minDurationMs),
               DurationLo..DurationHi)
  /\ IsNearest(c.fftSize, readInt(d.fftSize, Defaults.fftSize), FftSizes)
  /\ c.shownTrayNotification = read(d.shownTrayNotification, FALSE)

Read ==
  /\ phase = "starting" /\ phase' = "up"
  /\ \/ stored \in Document /\ Reads(stored, held')
     \/ stored = Missing /\ held' = Defaults
  /\ UNCHANGED <<stored, faults>>

\* The file cannot be opened, or cannot be set aside: the defaults, and it stays.
ReadFails ==
  /\ phase = "starting" /\ phase' = "up"
  /\ stored # Missing
  /\ held' = Defaults
  /\ Fault
  /\ UNCHANGED stored

\* One setting at a time; the FFT has no control, and the flag is never taken back.
Change ==
  /\ phase = "up"
  /\ held' \in Config
  /\ \E s \in Settings \ {"fftSize"} : \A t \in Settings \ {s} : held'[t] = held[t]
  /\ held.shownTrayNotification => held'.shownTrayNotification
  /\ UNCHANGED <<stored, phase, faults>>

Save == phase = "up" /\ stored' = held /\ UNCHANGED <<held, phase, faults>>

\* A save that fails leaves the file as it was, or deletes it.
SaveFails ==
  /\ phase = "up"
  /\ stored' \in {stored, Missing}
  /\ Fault
  /\ UNCHANGED <<held, phase>>

\* A save whose flush fails goes on, with a file that was not written to the end.
SaveSpoils ==
  /\ phase = "up"
  /\ stored' = Torn
  /\ Fault
  /\ UNCHANGED <<held, phase>>

\* A backup that is too many cannot be removed.
TidyFails == phase = "starting" /\ Fault /\ UNCHANGED <<stored, held, phase>>

Quit ==
  /\ phase = "up" /\ phase' = "off"
  /\ held' = Defaults
  /\ UNCHANGED <<stored, faults>>

Die ==
  /\ phase # "off" /\ phase' = "off"
  /\ held' = Defaults
  /\ Fault
  /\ UNCHANGED stored

EditByHand ==
  /\ phase = "off"
  /\ stored' \in Contents
  /\ Fault
  /\ UNCHANGED <<held, phase>>

Next ==
  \/ Start \/ SetAside \/ Read \/ ReadFails
  \/ Change \/ Save \/ SaveFails \/ SaveSpoils \/ TidyFails
  \/ Quit \/ Die \/ EditByHand

Spec == Init /\ [][Next]_vars
=============================================================================
