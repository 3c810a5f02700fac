---------------------------- MODULE AudioCapture ----------------------------
(***************************************************************************)
(* WASAPIAudioCapture (src/audio/src/audio_capture.cpp): a device that is  *)
(* selected, a stream that is started and stopped by one thread, the       *)
(* capture thread that hands its packets to a callback, and the thread of  *)
(* Windows that tells of devices taken away.                               *)
(*                                                                         *)
(* The operations; who calls them, and what the callback does between      *)
(* PacketBegin and PacketEnd, is the composing module's.  No lock protects *)
(* what they share: capturing_ and deviceLost_ are atomics.                *)
(***************************************************************************)
EXTENDS Naturals

CONSTANTS Devices, NoDevice

ASSUME AudioCaptureAssumption == NoDevice \notin Devices

\* What becomes of a device: unplugged stands for DEVICE_STATE_UNPLUGGED, for
\* DEVICE_STATE_DISABLED and for a removed endpoint, notPresent for the adapter that is gone.
Fates == {"unplugged", "notPresent"}

VARIABLES
  present,     \* the devices that are plugged in and enabled
  notices,     \* the losses Windows has yet to tell of, with what it will say
  current,     \* currentDevice_
  capturing,   \* capturing_
  deviceLost,  \* deviceLost_
  stream,      \* the audio client: "none", "live", or "dead" with its device gone
  thread,      \* the capture thread
  call         \* how far the owner is inside startCapture or stopCapture

captureVars == <<present, notices, current, capturing, deviceLost, stream, thread, call>>
deviceVars == <<present, notices>>

CaptureTypeOK ==
  /\ present \subseteq Devices
  /\ notices \subseteq Devices \X Fates
  /\ current \in Devices \cup {NoDevice}
  /\ capturing \in BOOLEAN
  /\ deviceLost \in BOOLEAN
  /\ stream \in {"none", "live", "dead"}
  /\ thread \in {"none", "waiting", "draining", "callback", "ended"}
  /\ call \in {"none", "join", "start"}

CaptureInit ==
  /\ present = Devices
  /\ notices = {}
  /\ current \in Devices \cup {NoDevice}
  /\ capturing = FALSE
  /\ deviceLost = FALSE
  /\ stream = "none"
  /\ thread = "none"
  /\ call = "none"

isCapturing == capturing /\ ~deviceLost
-----------------------------------------------------------------------------
(* The owner's calls *)

\* Mutant of StopBegin: the thread is told to end and not waited for.
StopWithoutJoin ==
  /\ capturing /\ call = "none"
  /\ capturing' = FALSE
  /\ stream' = "none"
  /\ UNCHANGED <<deviceVars, current, deviceLost, thread, call>>
\* stopCapture, up to the join; it returns at once when nothing is captured.
StopBegin ==
  /\ capturing /\ call = "none"
  /\ capturing' = FALSE
  /\ call' = "join"
  /\ UNCHANGED <<deviceVars, current, deviceLost, stream, thread>>

\* Mutant of StopEnd: the thread is detached instead of joined.
StopEndDetached ==
  /\ call = "join"
  /\ thread' = "none" /\ stream' = "none" /\ call' = "none"
  /\ UNCHANGED <<deviceVars, current, capturing, deviceLost>>
StopEnd ==
  /\ call = "join" /\ thread = "ended"
  /\ thread' = "none" /\ stream' = "none" /\ call' = "none"
  /\ UNCHANGED <<deviceVars, current, capturing, deviceLost>>

\* selectDeviceById, after its stopCapture: an old loss is forgotten, a notice that
\* is still on its way is not.
Select(d) ==
  /\ current' = d
  /\ deviceLost' = FALSE
  /\ UNCHANGED <<deviceVars, capturing, stream, thread, call>>

\* startCapture, up to the started audio client: for a device that is there.
Startable == ~capturing /\ current # NoDevice /\ ~deviceLost
StartStream ==
  /\ Startable /\ call = "none" /\ current \in present
  /\ stream' = "live"
  /\ call' = "start"
  /\ UNCHANGED <<deviceVars, current, capturing, deviceLost, thread>>

\* The rest of it.  The device may have gone in between: a notice that has come since is
\* forgotten.
StartThread ==
  /\ call = "start"
  /\ capturing' = TRUE
  /\ deviceLost' = FALSE
  /\ thread' = "waiting"
  /\ call' = "none"
  /\ UNCHANGED <<deviceVars, current, stream>>
-----------------------------------------------------------------------------
(* captureLoop and processAudioData *)

\* The wait is over, by the event or after 100 ms.
WaitEnds ==
  /\ thread = "waiting"
  /\ thread' = IF isCapturing THEN "draining" ELSE "ended"
  /\ UNCHANGED <<deviceVars, current, capturing, deviceLost, stream, call>>

\* A packet is there; whether the capture goes on is not asked between packets.
PacketBegin ==
  /\ thread = "draining" /\ stream = "live"
  /\ thread' = "callback"
  /\ UNCHANGED <<deviceVars, current, capturing, deviceLost, stream, call>>

PacketEnd ==
  /\ thread' = "draining"
  /\ UNCHANGED <<deviceVars, current, capturing, deviceLost, stream, call>>

\* No packet is left, or GetNextPacketSize fails.
Drained ==
  /\ thread = "draining"
  /\ thread' = "waiting"
  /\ UNCHANGED <<deviceVars, current, capturing, deviceLost, stream, call>>

\* GetBuffer finds the device gone.
Invalidated ==
  /\ thread = "draining" /\ stream = "dead"
  /\ thread' = "waiting"
  /\ deviceLost' = TRUE
  /\ UNCHANGED <<deviceVars, current, capturing, stream, call>>
-----------------------------------------------------------------------------
(* Devices come and go *)

\* Bound: one device is away, or its removal still to be told, at a time.
OneAway == present = Devices /\ notices = {}

Unplug(d) ==
  /\ OneAway
  /\ present' = present \ {d}
  /\ \E fate \in Fates : notices' = notices \cup {<<d, fate>>}
  /\ stream' = IF stream = "live" /\ current = d THEN "dead" ELSE stream
  /\ UNCHANGED <<current, capturing, deviceLost, thread, call>>

Plug(d) ==
  /\ d \notin present
  /\ present' = present \cup {d}
  /\ UNCHANGED <<notices, current, capturing, deviceLost, stream, thread, call>>

\* Mutant of onDeviceRemoved: the notice is only written into the log.
onDeviceRemovedLogged(d) == UNCHANGED deviceLost
onDeviceRemoved(d) == deviceLost' = (deviceLost \/ current = d)

\* The notification client passes a notice on, but none of a device that is not present.
OnDeviceStateChanged(d) ==
  /\ \E fate \in Fates :
       /\ <<d, fate>> \in notices
       /\ notices' = notices \ {<<d, fate>>}
       /\ \/ fate = "unplugged" /\ onDeviceRemoved(d)
          \/ fate = "notPresent" /\ UNCHANGED deviceLost
  /\ UNCHANGED <<present, current, capturing, stream, thread, call>>
=============================================================================
