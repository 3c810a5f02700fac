# MicMap: a TLA+ model and its proofs

MicMap turns a covered headset microphone into a press of SteamVR's system
button. An application listens to the microphone, recognises the noise of a hand
over it and posts a *tap* over HTTP to a SteamVR driver, which presses and releases
`/input/system/click` on the headset.

This directory holds TLA+ modules translated from the C++ sources, TLC
configurations that check them on small instances, and TLAPS proofs of the safety
properties for every value of the constants. Paths below are relative to the
repository.

## 1. The system

    microphone -> WASAPI capture -> audio callback -> noise detector
                                                        | isWhiteNoise
                                                    state machine
                                                        | onTrigger
                                   DriverClient.tap --- HTTP --- HttpServer
                                                                    | push
                                                               CommandQueue
                                                                    | try_pop
                                             vrserver --- DeviceProvider.RunFrame
                                                                    |
                                                          /input/system/click

| Component | Source | State | Operations |
|---|---|---|---|
| HMD button driver | `driver/src/device_provider.cpp` | component handle, `state_`, press and release times, last value written | `Init`, `Cleanup`, `RunFrame` (events, create, drain, release, watchdog), `writeValue` |
| Command queue | `driver/src/command_queue.hpp` | at most 8 taps | `push` (drops the oldest), `try_pop` |
| HTTP server | `driver/src/http_server.cpp` | `running_`, port, thread | `Start` (port scan), `Stop`, routes |
| State machine | `src/core/src/state_machine.cpp` | state, time in it | `update` |
| Noise detector | `src/detection/src/noise_detector.cpp` | profile, training samples, window of answers, spike, detection start | train, `analyze`, save, load |
| Application | `apps/micmap/main.cpp` | detector, flags, `lastUpdate`, futures and threads | audio callback, `renderUI`, main loop, `shutdown` |
| Driver client | `src/steamvr/src/vr_input.cpp` | `connected_`, port | `connect`, `tap`, `disconnect` |
| OpenVR session | same file and `vr_input_events.cpp` | `initialized_` | `initialize`, `pollEvents`, `shutdown` |
| Manifest registrar | `src/steamvr/src/manifest_registrar.cpp` | none of its own; SteamVR's registry | `ensureRegistered`, `registerApp`, `unregisterApp` |
| WASAPI capture | `src/audio/src/audio_capture.cpp` | device, `capturing_`, `deviceLost_`, thread | select, start, stop, device removal |
| Configuration | `src/core/src/config_manager.cpp` | `config.json`, its temporary file and its backups | load and clamp, rotate, atomic save |
| First-launch balloon | `apps/micmap/first_launch_balloon.cpp` | one flag of the configuration | show once, save |
| Bindings patcher | `src/bindings/src/bindings_patcher.cpp` | SteamVR's binding files, one backup | patch (driver and `--patch-bindings`), unpatch |
| `mic_test` | `apps/mic_test/main.cpp` | detector, atomic flags | window messages, audio callback, device combo |
| `hmd_button_test` | `apps/hmd_button_test/main.cpp` | client and session | tap, test and reconnect buttons |

How they interact, and what is hard:

* vrserver calls `RunFrame` on its own thread; the HTTP thread pushes taps at any
  moment; the headset comes and goes, and each vrserver call may fail. The driver
  must not leave the button down.
* The audio callback runs on the capture thread under `audioMutex`; `renderUI` runs
  on the main thread and takes the mutex only around each call of the detector, so
  the flags it sets before and after are seen half-done.
* Time is `steady_clock`, truncated to milliseconds per buffer; states and windows
  are frozen while the application trains.
* `DriverClient` and `OpenVRInput` have no lock. The initial connect thread, the
  reconnect tasks, the manifest thread, the capture thread and shutdown keep out of
  each other's way by flags, futures and joins alone.
* SteamVR may quit (and say so), crash (and not), and start again.
* The driver and the application each look for a port in the same range, by timeouts,
  while other programs take ports and requests are read after their sender gave up.
* Three files outlive the process: the configuration is replaced through a temporary
  file, the training file is written in place, and SteamVR's bindings are edited by two
  processes at once. A crash may fall between any two calls of the file system.
* `mic_test` has no mutex at all around its detector pointer and its flags.

`PROJECT.json` lists every hazard at its line with the properties that would catch
it; for the eight that no property covers it says why: most often because the code does
nothing there that a property could hold it to.

## 2. The modules

| Module | Models |
|---|---|
| `TapButton` | abstract: a button that can only be tapped |
| `TapChannel` | abstract: a way to the driver that delivers a call at most once and is honest about success |
| `SettingsStore` | abstract: a file of settings that is read once and that a save replaces, or fails to, in one step |
| `HmdDriver` | driver, queue, POST route, against vrserver and a headset |
| `Clock` | ages in ticks, truncation to milliseconds, saturation |
| `StateMachine` | `StateMachineImpl::update` |
| `NoiseDetector` | training, spike gate, sliding window, detection time |
| `TriggerPath` | audio callback and window actions over the two above |
| `DriverLink` | `HttpServer`, `DriverClient` and the buttons of `hmd_button_test`, port by port |
| `ManifestRegistrar` | registrar call by call, with its retry thread and SteamVR's registry |
| `AppLifecycle` | all threads of the application, from launch to exit, over the module above |
| `AudioCapture` | `WASAPIAudioCapture`: select, start, stop, capture thread, removal through its notification client |
| `MicTest` | `mic_test`'s window and callback over `AudioCapture` |
| `ConfigValues` | conversion to int, clamping and snapping of numbers, and their reference definition |
| `Persistence` | configuration, backups, training file and balloon, across runs and crashes |
| `BindingsPatcher` | patching and unpatching by two processes, across crashes and SteamVR's updates |
| `MC...` | one module per question that needs a history variable or its own next-state relation |
| `..._proofs` | theorems about the module they are named for |

### HmdDriver

`pc` is the numbered stage `RunFrame` is in; each stage is an action, and between
two stages anything outside may happen. A `TapCommand` is empty, so the queue is
its length. `pressAge` is `now - pressTimestamp_` and `releaseIn` is
`*pendingReleaseAt_ - now`, both saturating where no comparison of the code can tell
larger values apart. `writeValue` is used inside three stages, with its outcomes:
skipped, written, refused. `Push` is the whole of the POST handler that matters here.

vrserver is external: a component vanishes with the headset at once, its
deactivation event waits to be polled; a component created anew reads up; a write
to a component that is gone may report an error or nothing; any create or write may
be refused. `Cleanup` is called between frames and takes the component with it.

### StateMachine, NoiseDetector, TriggerPath

The spectral arithmetic of `analyze` becomes two answers per buffer, *spike* (louder
than -10 dB) and *high* (confidence of at least 0.6), in any combination; all the
control around them is kept, including that a spike is not re-stamped, that an expired
spike is forgotten only outside a detection, and that training resets nothing of it.
The callback is one action because it holds `audioMutex` throughout; what
`renderUI` does outside the mutex is an action of its own (`ui` says where it is).
`timeInState` and all ages saturate. Values that only the window shows
(`buttonWouldFire`, levels, `hasProfile`) are left out. `StateMachineImpl`'s
`Training` state is left out too: nothing but tests enters it.

### ManifestRegistrar, AppLifecycle

One action per step a thread takes between two points where others can see it:
entering and returning from `connect`, `initialize` and `tap`; each turn of the main
loop in five steps; each wait of `shutdown`. The futures are "initial" (the seeded
packaged tasks), in flight, or ready. `connect` and `VR_Init` succeed exactly when
the driver answers or SteamVR runs at the moment they return; any tap may go
unanswered. The Quit event is acknowledged and handled within one `Poll`, as in
`processVREventImpl`. Calls on `IVRApplications` may fail at any time; other
processes may unregister the application between any two of them. The capture
thread may end at any time between two taps, because the device may be lost.

### DriverLink

The server's side has one action per part of `Start`, `ServerThread` and `Stop` that
others can interleave with: `Spawn`, `Bind`, `Look` (what `Start` sees 200 ms later),
`Join`, `Halt`, `Unload`. The client's side walks the ports in `connect`, then sends,
waits and gives up; `wire` holds requests that were sent and not yet read, so a request
whose sender has timed out may still be served, after the client has moved on. httplib is
external: bind and listen are one step. `holder` says who has each port; another
program may take a free port or give its own up, and answers with something other than 200,
which the code relies on, because the client never asks who it is talking to.

`ImplementsTapChannel` maps all of it to `TapChannel`, which knows no ports. `Fate` of a call is
"sent" while its request is on the wire, "taken" once it was queued, "unsent" while the client
looks for a port, otherwise "over"; `Verdict` is what the button may report. A crash of the driver is
the channel's `Lose`, a timeout its `GiveUp`, after which a call that was sent may still be taken,
but is never sent again.

### AudioCapture, MicTest

`AudioCapture` gives the operations of the class, split where `startCapture` or
`stopCapture` wait or where the notification thread can come between two writes;
`MicTest` adds who calls them. Its window takes one step per write the callback can
see, the callback one per call of the detector (which has its own lock) and per group
of flags. `freed` records that the detector the callback is inside has been destroyed.

Windows is external: `Unplug` removes a device and chooses what will be told of it (`Fates`). The
notification client is the repository's: `OnDeviceStateChanged` passes a device that was unplugged
or disabled on to `onDeviceRemoved`, and drops one that is no longer present
(`audio_capture.cpp:147`). `OnDeviceRemoved`, which passes every id on, has the effect of the
first fate. A loss may therefore go unnoticed in two ways: it was dropped, or it was told while
`startCapture` ran, which resets `deviceLost_` at its end (`StartThread`). The stream is then dead,
`isCapturing` stays true and the thread waits 100 ms again and again. `DeadCaptureEnds` promises
no more than the code does: the capture thread ends once a loss told after the start is passed on, or once
the user chooses a device or quits.

A message box or a file dialog is a delay in which the timer goes on; its handler is one
step at the end of it. A failure to create the window, after which `WinMain` returns
without `stopCapture`, is not modelled.

### ConfigValues, Persistence

A step is a call of the file system; `Spend` marks each that fails, and `Crash` may come
between any two. The configuration keeps the three numbers and flags whose handling differs
(device, duration, `fftSize`, balloon flag); `touched` says what this run has changed
since it read or wrote the file. `Normalised` is what `load` makes of a document, field by field,
absent ones included. `readInt` takes any integer of JSON, which has 64 bits, and keeps of it what
`get<int>()` keeps, the low 32 (`toInt`): 4294967596 is read as 300, before it is clamped. `IntMax` is a
constant, 2^31 - 1 in the code. A profile is told by the session that made it and by the size of
its spectra. What the model shows of the code:

* `writeAtomicWindows` looks only at what `f.write` reports (`config_manager.cpp:340`); a body this small
  reaches the disk with the flush at line 352, whose failure nobody looks at, nor at the
  close's. On a full disk the truncated temporary file therefore replaces a good configuration and
  `save` returns true (`FlushFail`; `SaveSpoils` of `SettingsStore`). The patcher's `AtomicWriteJson`
  guards against just this, with exceptions and an explicit close (`bindings_patcher.cpp:255-260`);
* the training file's closing flush goes unchecked too; it is written in place in any case (`TrainingFail`);
* `ReplaceFileW` that fails with error 1176 has deleted the old file, and the code then
  removes the temporary one, so a failing save can leave no configuration (`SaveFails` of
  `SettingsStore` allows for it, at the cost of a failure);
* a configuration that cannot be opened is taken for a missing one, and the defaults overwrite
  it at shutdown (`unread` in `NothingForgotten`);
* the header's `fftSize` is never compared when a training file is loaded, and the detector is rebuilt
  with the default size when the device changes (`oddSize` in `ProfileFits`).

`ImplementsSettingsStore` maps the module to `SettingsStore`: `stored` is `config.json` alone, `held`
the manager's configuration, and `Phase` forgets at which call the program is. All of
load, convert, clamp and snap becomes one `Read`, which says of each number only that it is the allowed one
nearest to what an int holds of the file's; all of a save becomes one `Save`, which happens at the
replacement, or one `SaveFails` or `SaveSpoils`, which cost a failure. A flush that fails is
not seen before the replacement: until then the mapping does not count it (`Shown`). Every
step on a temporary file or on a backup is a stutter. The two statements this contains
are also theorems on their own, `AlwaysNearest` and `AlwaysOldOrNew`.

Not modelled: a power failure, after which data the code never asks Windows to write through may be
missing from a file that was renamed; and a clock that is set back. The names of the backups are local
time and pruning goes by them, so at the end of summer time the newest backup may be taken for an
old one: `NewestKept` is about a clock that only advances.

Loading that fails half way leaves part of a profile, and a second training session adds its
spectra to those of the first (`noise_detector.cpp:129`): both are about the sums that
make up a profile, which the model does not have.

### BindingsPatcher

Two processes, `Driver` and `Cli`, run the same code over three files. A document is its
revision, whose its three actions are, and its marker. A job goes file by file, `pc` from
the look at the file over the backup and the staged temporary file to the rename; both
use one name for the temporary file, and `mixed` records whether the other one had it
open. `alone` says that nothing else has moved since the job began, which is
what a result can be relied on for. SteamVR may ship a new revision, other tools may write
their own file or remove one.

## 3. The runs

| Run | Expect | Shows |
|---|---|---|
| `hmd_driver` | pass | types and queue bound; a press always has a release pending; `Ready` means a live component or a loss not yet polled; `lastWrittenValue_` is vrserver's value; refinement of `TapButton`; in the end the button comes up even if the write that should have raised it failed |
| `hmd_watchdog` | violation | the watchdog measures the last tap, not the hold |
| `trigger_path` | pass | detections need a spike; taps are a cooldown apart; a sustained cover never gets the machine stuck; training ends |
| `one_tap_per_edge` | violation | one sustained cover taps once per cooldown, where two comments promise one tap per rising edge |
| `continuous_detection` | violation | a detection frozen by training is confirmed after it |
| `app_lifecycle` | pass | never two threads in one client, the session outlives its users, clean exit, exit always reached, reconnection |
| `self_heals` | violation | a half registration is taken for a whole one for ever |
| `driver_link` | pass | a tap reported as sent was queued, and none twice, whatever is lost or late; refinement of `TapChannel`; who keeps tapping gets through again, but in the states named in `Excused` |
| `bindings_patcher` | pass | the backup is the file as shipped; results are honest; nothing but a copy from the backup or two writers leaves a torn file; foreign files stay; later starts of SteamVR repair what a crash left |
| `unpatch` | violation | unpatching overwrites a file that has no marker, when there is a backup |
| `persistence` | pass | refinement of `SettingsStore`: numbers are read as the allowed ones nearest to what an int keeps, the file is the old or the new one, or what a failing replacement or flush leaves; nothing saved is forgotten; the newest corrupt files are kept; the profile in use is on the disk and fits; the balloon comes once |
| `mic_test` | pass | only Clear destroys a detector the callback may be inside; training ends; the display follows the detector; a capture whose device is gone ends when Windows' notice is passed on, and in any case when a device is chosen or the window closed |

The five violations are the findings of `PROJECT.json`, each with the line of the
repository that promises otherwise.

### Bounds

* `HmdDriver.cfg`: a queue of 3, a hold of 3 ticks, a watchdog of 6. Three taps fill
  the queue and overflow it, several taps fall within one hold and into different frames,
  and the watchdog's age is reached and passed. The code's 8, 150 ms and 5 s differ from these
  only in size; the proofs hold for all.
* `TriggerPath.cfg`: ticks of half a millisecond, so that truncation loses time at every
  buffer; a window of 3 answers with thresholds 2 and 1 (12, 4 and 2 in the code); two
  detection times and a spike window of 2 ticks, so that a detection outlasts its
  spike; one sample to train and an auto-stop at 2, so that rejected samples matter.
* `AppLifecycle.cfg`: a reconnect attempt every second turn of the loop (40 or 100 in the
  code) and one poll of the registrar (20). Sessions are not bounded by the configuration:
  that at most one is open is an invariant.
* `DriverLink.cfg`: two ports (the code has eleven), so that a scan passes a port that is
  taken and the client's remembered port can differ from the server's; names for two calls, so that a late request
  meets a new call; three troubles, so that a crash, an intruder and a timeout can combine. 181 000 states.
* `BindingsPatcher.cfg`: two revisions (SteamVR updates once) and two troubles: a crash
  and a run by hand, a failure and another tool. 174 000 states.
* `Persistence.cfg`: `Keep = 1` (5 in the code) with two seconds of the clock, so that a
  backup must go; two training sessions; two troubles. By hand the file gets a duration that
  is absent or 65586, which an int of 16 bits (`IntMax` is 32767) keeps 50 of, below the range, and an `fftSize` that is absent, 1537 (between two powers)
  or 9000 (above); the slider moves to 1000. `ClampNearest` and `SnapNearest` are
  proved for every integer, so that these samples only need to reach each branch, and the
  refinement for every `IntMax`. 2.6 million states.
* `MicTest.cfg`: two devices, of which one at a time may be away, one sample to train, an
  auto-stop at two buffers. 431 000 states.
* The `MC...` configurations are smaller still: one tap in the queue, a window of two, a
  cooldown of one tick, enough for the counterexamples.

`MaxTrouble`, `MaxNow`, `MaxProfile` and `MaxRev` are bounds of the model and not of
the code; every guard that uses one goes through `Spend`, `Trouble` or names it. No state constraint
is used. Deadlock is checked in every run but `mic_test` and `driver_link`: there the
application exits or, SteamVR being off and the troubles used up, the system may really stop.

### Fairness

* `HmdDriver!FairSpec`: vrserver keeps calling `RunFrame` and a frame runs to its end
  (no stage blocks: the queue's lock is held for a few instructions), and time passes.
  Nothing is assumed of the application or the headset. `HostReleased` further assumes that
  taps stop and that creating the component succeeds from some point on.
* `TriggerPath!FairSpec`: a frame of the window that has begun runs to its end, and the
  auto-stop check, which every drawn frame makes, is made when it keeps being possible, and a
  device that is captured delivers buffers, which WASAPI does even for silence.
  `CoverTaps` and `TrainingEnds` name their own assumptions: a device stays captured, at
  least a millisecond passes between some of the buffers, the window is shown again and
  again. The last is a real condition: minimised, training never stops by itself.
* `AppLifecycle!FairSpec`: every thread runs. `connect`, `tap` and `initialize` return,
  because their HTTP calls have timeouts and `VR_Init` does not wait. Audio packets left
  after `stopCapture` are finite, hence the strong fairness of `AudioEnds` there. Nothing
  is assumed of the driver, of SteamVR or of the user.
* `DriverLink!FairSpec`: the threads of server and client run (every wait of theirs has a
  timeout), and a request that waits is read. Nothing is asked of SteamVR, other programs
  or the user. `Reconnects` therefore is conditional: whoever keeps tapping, unless the system
  keeps coming back to one of four states in which the code does nothing (`Excused`:
  SteamVR off or every port taken; bound after the 200 ms, so that `Start` waits in its join for
  ever; the listener failed; a stranger on the port the client remembers).
* `BindingsPatcher!FairSpec`: a process that has begun is run to its end unless it crashes, and SteamVR is
  started again, which runs the driver's patch. `Recovers` is about the time after the
  last trouble.
* `MicTest!FairSpec`: the window's and the capture thread run (every step of the latter that is no wait in one
  condition, since it has one at a time), Windows tells of a loss, whether or not the client passes it on,
  and a live device delivers packets; the strong fairness of `Drained` and `CallbackBegin` says that a device
  does neither stay silent nor outrun the thread for ever.
* `Persistence` has no liveness property.

### Mutants

Every property of a passing run is paired in `PROJECT.json` with a changed definition (a
dropped reset, a swapped operand, a missing join, an unseeded future...) that the property
catches. The changed definitions stand next to the originals in the modules.

## 4. The proofs

All theorems hold for every value of the constants under the named assumptions of the
modules (`HmdDriverAssumption`: hold no longer than the watchdog; otherwise natural
numbers, `ReconnectInterval` and `TicksPerMs` positive).

* `HmdDriver_proofs`: type correctness, `ReleaseScheduled`, `ReadyIsLive`, `HostAgrees` and
  the refinement of `TapButton`. The properties are not inductive. The invariant adds
  that `isPressed_` and `lastWrittenValue_` are the same value, that nothing is pressed
  unless `Ready`, and how press age and release deadline stand to each other: a pending release is
  due exactly `TapHold` after the last tap, which is what makes the release step of the
  abstract button legal and shows the watchdog never fires before the scheduled release.
* `TriggerPath_proofs`: type correctness, `DetectionNeedsSpike` and `TapsSpaced`. The
  latter needs the ghost `sinceTap` tied to the state machine: in `Cooldown` the time
  counted, plus what has passed since the last update, never exceeds the time since the
  tap (`CooldownCounted`). Truncation only ever loses time, which keeps the inequality.
  `AlwaysConfirmed` follows a tap back through both: a confirmed cover, its spike, a profile.
  `AlwaysEndsAtTheThreshold` is about the hysteresis, and assumes it (`StopHits <= StartHits`, 2
  and 4 in the code): a window slides by one answer, so a detection ends only at the lower
  threshold, by a low answer.
* `AppLifecycle_proofs`: type correctness, `ExclusiveDriver`, `ExclusiveVr`, `SessionHeld`,
  `CleanExit`. The invariant says whose turn it is: a thread that connects does so over
  a client that is not connected and a tap over one that is; the seeded futures keep the
  main loop out until the initial thread is past its part; and what each step of shutdown has
  waited for stays settled.
* `DriverLink_proofs`: type correctness, `TapsHonest` and the refinement of `TapChannel`, for any range
  of ports. That no call queues two taps needs `OneRequest`: a call has at most one request, on its way or
  queued, and none before it is sent; that a success is true needs `Answers`: a reply 200 follows the
  push, and `Stages` and `Places` tie threads and replies to the operation under way.
* `MicTest_proofs`: type correctness and `OnlyClearRaces`, for any devices. The invariant
  says whose the capture thread is (`Owned`: none runs when nothing is captured and no join is under way, so
  choosing a device replaces the detector after the thread has ended) and that there is a detector
  wherever one is used (`Known`).
* `Persistence_proofs`: `ClampNearest` and `SnapNearest` for all integers, and for any bounds
  type correctness, the invariants and action properties of the run and the refinement
  of `SettingsStore`. The invariant says what each place in the program has found (`Places`,
  `JustRead`, `Fresh`), so that a replacement finds in the temporary file the configuration
  the manager holds, or the truncated file of a flush that failed; `Told` ties the flag on the disk to the one in memory; `Even` keeps the
  detector's size the default one while no other was read; `Doomed` says that every backup
  marked for pruning has `Keep` newer ones, which pruning the newest first preserves.
  Two theorems say what the code does not promise. `AlwaysNearest`: a number that fits an int
  is read as the allowed value nearest to it, any other as the one nearest to itself less a multiple of
  the width of an int (`ReadAs`), which may be far from it. `AlwaysOldOrNew`: while MicMap runs,
  `config.json` changes only to the configuration that is saved, to none when a replacement
  fails or the corrupt file is moved aside, or to the truncated file of an unnoticed flush (`Truncated`).
  `CheckedFlushKeepsWhole` shows that the flush is all that is missing: without the step `FlushFail`
  the last case does not occur.
* `BindingsPatcher_proofs`: type correctness, `BackupPristine` and `TornOnly`. `OneCopy` and
  `BackupFirst` say that the backup is taken once, of a file not yet ours, and that no
  process has staged a change to `generic_hmd` before; `Holds` and `TornKnown` follow the temporary file
  through two writers.
* `BindingsResults_proofs`, over it: `ResultHonest` and `ForeignKept`. What a process that was
  alone knows is written per process: what it has looked at (`Watched`), what its temporary file
  holds (`Staged`) and which files are done (`PatchDone`, `UnpatchDone`); a step of the other ends its
  being alone, and with it every claim. Two more say what is so when it was not alone:
  `AlwaysWritesItsOwn`, of a temporary file opened while the other process had none there, and
  `AlwaysRestoresShipped`.

### What the safety side of the liveness properties is

TLAPS does not reason about fairness and `ENABLED`, so a liveness property stays with TLC. What
can go wrong in one although every thread runs is often a safety property, and for three of them it is proved:

| Liveness (TLC) | Proved |
|---|---|
| `HostReleased` | `AlwaysNeverStuckDown`: there is no state in which the button is down and nothing is pending that would raise it; `AlwaysUpOnceHeld`: the frame that finds the tap `TapHold` old raises it |
| `Exits` | `AlwaysWindsDown`: from the beginning of shutdown a number (`WorkLeft`) decreases with every step of a thread and never grows; `AlwaysNeverAbandoned`: what shutdown waits for is there or on its way |
| `Recovers` | `AlwaysRunsEnd`: a run of the patcher makes at most twenty calls (`RunLeft`) |

### What the five findings lack

Each violated sentence is proved under the condition that the code does not enforce, which
says how far it is from the truth. The condition is a conjunct of the next-state relation;
everything else is as in the run that violates it.

| Theorem | Under the condition | The sentence then holds |
|---|---|---|
| `SpacedTapsForcedUp` | no tap is served while the button is held | `WatchdogForcesUp`, however slowly vrserver runs its frames; if these are prompt, a tap lasts at most `TapHold` (`AlwaysTapIsShort`) |
| `ShortCoversTapOnce` | a cover is off when its cooldown ends | `OneTapPerEdge` |
| `UndisturbedDetectsContinuously` | no training session begins inside a detection | `DetectedContinuously` |
| `CarriedThroughHeals` | a registration that has added the manifest goes on to set auto-launch | `SelfHeals`, whoever unregisters the application in between |
| `CheckedLeavesAlone` | the file has a marker when the backup is copied over it | `UnmarkedLeftAlone` |

For the first of them the condition is carried back to the application: `CooldownForcesUp` takes
taps that reach the driver at least `gap` apart and a vrserver whose frames get through the queue within
`period` of each other, and needs only `TapHold + 2 * period < gap`. The argument (`Timely`)
is that a tap is served less than a period after it came, and its release made less than a
period after it was due, so that the next tap comes too late to be served before it. No tap then
lasts longer than `TapHold + 2 * period` (`AlwaysTapIsBounded`). The default cooldown of 300 ms over a
hold of 150 ms satisfies it for any frame rate above 14 Hz; a configured cooldown below 150 ms does not, and neither
does a tap that the network delivers late.

### What is only model-checked

The liveness properties (`HostReleased`, `CoverTaps`, both `TrainingEnds`, `Exits`, both `Reconnects`,
`Recovers`, `DisplayFollows`, `DeadCaptureEnds`). Every invariant, every action property and every
refinement of a passing run is proved; the violations are counterexamples of TLC.

## 5. Not modelled

* The spectral analysis (`spectral_analyzer.cpp` and the sums in the detector): floating
  point without control state; `analyze` is a choice of answers.
* The audio ring buffer and `PatternTrainer`: nothing in the program constructs them, so
  no reachable state depends on them. `getAudioBuffer` of the capture is called by nothing either.
* The device enumerator (reads properties, keeps no state), the logger, the drawing of the windows, the
  parsing of the command line (what its flags do is modelled), the conversion of samples,
  the installer script and the stub build without OpenVR.

Things met on the way that no property states, because the code does nothing a property could
be about:

* If the first device reports no sample rate there is no detector and the audio callback is never
  set (`apps/micmap/main.cpp:352-353`): a device chosen later is captured to no effect.
* `config_manager.hpp:21` says that a `deviceId` "overrides pattern"; at start
  `apps/micmap/main.cpp:232-252` looks for a device named Beyond first.
* A lost device that Windows reports as not present, or that goes while `startCapture` runs, is
  never noticed, and a configuration whose flush fails is replaced by a truncated one (above).
* Any answer but 200 leaves the client on its port (`vr_input.cpp:190`), and a server thread that binds
  late or fails leaves the driver without a server (`http_server.cpp:72`, `:103`): `Reconnects` exempts
  these states by name and says nothing of them.
* `BindingsPatcher` begins with a directory in which an older MicMap's patch kept its backup; the second
  resolution of the directory when unpatching (`bindings_patcher.cpp:561-572`), after the one in
  `main.cpp:831` has succeeded, is taken to find the same directory.
* Minimised to the tray, training does not end by itself; a SteamVR that crashes without
  Quit leaves the session believed open.

## 6. What is left

The parts that carry state are modelled. What would add to them:

1. The three abstract modules composed: `TriggerPath`'s taps, a cooldown apart, through `TapChannel`,
   which may deliver one late, to `TapButton`: the `gap` of `CooldownForcesUp` is then the cooldown less the
   delay of a request.
2. `MicMapApp` over `AudioCapture` call by call: `TriggerPath` takes a device that is captured or
   not, and `AppLifecycle` a capture thread that may end.
3. The sums of spectra in a profile, for what a second training session makes of the first.
