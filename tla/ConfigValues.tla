----------------------------- MODULE ConfigValues -----------------------------
(***************************************************************************)
(* The values of a configuration (src/core/src/config_manager.cpp): what   *)
(* is read from a JSON object somebody may have edited, and what is        *)
(* written.  One field of each kind stands for all fields of that kind:    *)
(* deviceId for the strings, minDurationMs for the integers with a range   *)
(* (cooldownMs and bufferSizeMs are read the same way; sensitivity is      *)
(* clamped too, and is a float), fftSize for the one that is snapped,      *)
(* shownTrayNotification for the flags.                                    *)
(***************************************************************************)
EXTENDS Integers

CONSTANTS
  Absent,   \* no such field, or one of another type
  NoId,     \* the empty device id, null in the file
  Ids,      \* device ids
  IntMax    \* the largest int: 2^31 - 1 in the code

DurationLo == 100
DurationHi == 2000
FftSizes == {512, 1024, 2048, 4096, 8192}
FftLo == 512
FftHi == 8192
DefaultFftSize == 2048

Config == [deviceId : Ids \cup {NoId}, minDurationMs : DurationLo..DurationHi,
           fftSize : FftSizes, shownTrayNotification : BOOLEAN]

\* What may stand in a file.  An integer of JSON has 64 bits, any larger number is a
\* float and no integer to readInt.
Document == [deviceId : Ids \cup {NoId, Absent}, minDurationMs : Int \cup {Absent},
             fftSize : Int \cup {Absent}, shownTrayNotification : BOOLEAN \cup {Absent}]

ASSUME ConfigAssumption ==
  /\ Absent \notin Int /\ Absent \notin BOOLEAN /\ Absent \notin Ids
  /\ NoId # Absent
  /\ IntMax \in Nat /\ IntMax >= FftHi

Defaults == [deviceId |-> NoId, minDurationMs |-> 300, fftSize |-> DefaultFftSize,
             shownTrayNotification |-> FALSE]

clampRange(v, lo, hi) == IF v < lo THEN lo ELSE IF v > hi THEN hi ELSE v

\* The loop climbs from lo by doubling, as long as it does not pass v.
Climb(v) == CHOOSE p \in FftSizes : p <= v /\ \A q \in FftSizes : q <= v => q <= p

snapPowerOfTwo(value) ==
  LET v == clampRange(value, FftLo, FftHi)
      p == Climb(v)
  IN IF v \in FftSizes THEN v
     ELSE IF v - p <= 2 * p - v THEN p ELSE 2 * p

read(v, default) == IF v = Absent THEN default ELSE v

\* get<int>() keeps the low bits of an integer, as many as an int has.
Width == 2 * (IntMax + 1)
toInt(v) == ((v + IntMax + 1) % Width) - (IntMax + 1)
readInt(v, default) == IF v = Absent THEN default ELSE toInt(v)

NormalisedUnclamped(doc, held) ==
  [deviceId |-> read(doc.deviceId, held.deviceId),
   minDurationMs |-> readInt(doc.minDurationMs, held.minDurationMs),
   fftSize |-> snapPowerOfTwo(readInt(doc.fftSize, held.fftSize)),
   shownTrayNotification |-> read(doc.shownTrayNotification, FALSE)]
\* readAudio, readDetection, and the flag: over what the manager held before.
Normalised(doc, held) ==
  [deviceId |-> read(doc.deviceId, held.deviceId),
   minDurationMs |-> clampRange(readInt(doc.minDurationMs, held.minDurationMs),
                                DurationLo, DurationHi),
   fftSize |-> snapPowerOfTwo(readInt(doc.fftSize, held.fftSize)),
   shownTrayNotification |-> read(doc.shownTrayNotification, FALSE)]

\* The reference: the value of S nearest to v, the lower one of two.
Distance(a, b) == IF a < b THEN b - a ELSE a - b
IsNearest(x, v, S) ==
  /\ x \in S
  /\ \A y \in S : \/ Distance(x, v) < Distance(y, v)
                  \/ Distance(x, v) = Distance(y, v) /\ x <= y
=============================================================================
