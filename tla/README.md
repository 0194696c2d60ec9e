# A TLA+ verification project for G25Standalone

G25Standalone drives a Logitech G25 wheel without the vendor's software. A background service
written in Python owns the wheel; games reach it through a DirectInput effect driver (C++, loaded
into the game) or, for older games, through a `dinput8.dll` proxy. This directory holds TLA+ modules
translated from that code, the TLC configurations that check them on small instances, and proofs
that the TLA+ proof system checks for every value of the constants.

    tlc -workers 2 -config service.cfg MCG25Service             a run
    tlapm EffectEngineProofs.tla                                the proofs of a module

`PROJECT.json` lists the components, the runs, the source lines each definition stands for, the
hazards and the theorems. Paths below are relative to the repository's root, `src/`.

## 1. The system

| component | source | state it keeps | operations |
|---|---|---|---|
| Effect engine | `src/ffb_engine.py` | one session per connection: device gain, actuators, paused, stopped, effects with their start | the wire messages (`device`, `gain`, `effect`, `destroy`, `start`, `stop`, `command`), `connect`, `disconnect`, `render`, `has_active_effects` |
| Driver endpoint | `src/ffb_server.py` | the listener, the clients and their line buffers | `poll`: accept, read, drop; `close` |
| Main loop and wheel output | `src/g25_service.py` | the open handle, the last byte written, the filtered force, the last legacy force, three deadlines | a pass: poll, render or watchdog, write, detect, switch mode, open; the `finally` |
| Runtime | `src/g25_runtime.py` | the instance lock, `runtime.json`, the stop event, the control socket | `run`, `start`, `stop`, `status` |
| End of the Windows session | `src/g25_windows.py` | a hidden window | turns `WM_ENDSESSION` into a stop request |
| DirectInput effect driver | `native/g25ff/driver.cpp` | a mirror of what it told the service, one socket | the calls of `IDirectInputEffectDriver` |
| dinput8 proxy | `native/dinput8/` | the effects of the game's fake devices, one shared output with a worker thread and a heartbeat | create, release, parameters, start, stop, gain, commands; UDP datagrams |
| Receivers of the proxy's datagrams | `src/g25_service.py`, `src/g25_ffb_bridge.py` (the service's predecessor, run by hand) | the last force heard and when | hear, watchdog, let go |
| Registration | `scripts/Register-G25StandaloneFF.ps1` | registry values and their backup | install, uninstall |
| Probes and tools | `src/g25_probe.py`, `directinput_probe.py`, `g25_ffb_test.py`, `g25_state.py`, `g25_range.py`, `g25_native.py` | none | run by hand |

How they interact. The service is one process. Its main thread runs the loop of `run_service`: it
polls the endpoint (which hands complete lines to the engine), drains the proxy's datagrams,
computes a force, writes it, and looks after the wheel. The control server, the signal handlers and
the session window are other threads; all they do to the loop is set the stop event and the status.
A game's driver holds its own lock during a call and talks to the service over TCP, one JSON line
per call, without ever reading an answer. The proxy sends UDP datagrams at most 25 ms apart while it
holds a force, and the service drops a legacy force older than 150 ms. While any game has a session,
the proxy's force is not used.

What is hard here, and what would make it correct:

* *Engine.* Messages of several games interleave with passes and with the clock; a pass renders with
  a clock read before the messages it has just taken in. Pause and continue move the start of
  effects. Correct means: only time moves an effect, a pause costs nothing, nobody touches another
  game's effects, an effect ends only when it has been played, no session outlives its game, stopped
  means silent.
* *Main loop.* The wheel can go, come back elsewhere or change mode between any two steps; reads,
  writes, openings and enumerations fail; the stop request comes at any time, from another thread.
  The output skips writes it believes to be redundant. Correct means: what the output believes is
  what the wheel does, no active source means no force at once, the status is true, force comes up
  gently, every way out neutralises, a stop ends the loop, a wheel is opened and a force that was
  left behind is taken away.
* *Driver.* Its mirror is never confirmed. Services restart, sends fail, messages are lost. Correct
  means: the mirror is what the service will have, and the service never plays what the driver does
  not hold.
* *Wheel forces.* Derivatives are estimated from encoder counts over gaps of any length, go stale,
  and drive forces. Correct means: the estimate amplifies nothing and comes to rest, envelopes that
  overlap stay between their levels, and a condition never jumps at the edges of its deadband or of
  its saturation.
* *Runtime.* A lock is probed by taking it, `runtime.json` outlives a crash, a command reads it
  twice. Correct means: one process holds a data directory, the file leads to the instance that can
  be reached, "stopped" is only said of an instance that has ended, one owner of the wheel over all
  directories, every command is answered.
* *End of the session.* Three threads meet at one event, one lock and two waits. Correct means: the
  notification returns with the wheel neutral, nobody waits for a thread that waits for him, nothing
  but a reason stops the service, every reason does.
* *Proxy.* A heartbeat races a watchdog, datagrams are lost, an output that is being destroyed still
  has a last word to send while the next one already speaks. Correct means: the wheel ends up at what
  the game asks for, and the watchdog spares a game that lives.
* *Registration.* Registry changes in several steps, interrupted anywhere and started again. Correct
  means: what was there before is restored by a removal, or can still be; nothing is ever out of reach.

## 2. The modules

| module | what it is | models |
|---|---|---|
| `EngineOps` | pure operators, one per message, on a session record | `ffb_engine.py` |
| `EffectEngine` | connections, sessions, the clock, passes | `ffb_server.py`, `ffb_engine.py`, the loop's use of them |
| `Stopwatch` | the abstract specification of effect timing | what `EffectEngine` promises about time |
| `EffectEngineProofs` | theorems about `EffectEngine` | |
| `G25Service` | the main loop, `G25Output`, the mode switch, the wheel | `g25_service.py` |
| `G25ServiceProofs` | theorems about `G25Service` | |
| `DriverLink` | driver, connection and sessions composed | `driver.cpp`, `ffb_server.py`, `EngineOps` |
| `DriverLinkProofs` | theorems about `DriverLink` | |
| `WheelForce` | one effect at a wheel: kinematics, envelope, waves, conditions | `ffb_engine.py` |
| `WheelForceProofs` | theorems about `WheelForce` | |
| `G25Runtime` | instances and commands over lock, file, control server and ports | `g25_runtime.py`, `main` and the exits of `g25_service.py` |
| `WheelLease` | the abstract specification of who has the wheel | what `G25Runtime` promises over all data directories |
| `G25RuntimeProofs` | theorems about `G25Runtime` | |
| `SessionEnd` | the threads of one instance and the end of the Windows session | `g25_windows.py`, `request_stop`, `close` |
| `SessionEndProofs` | theorems about `SessionEnd` | |
| `LegacyProxy` | proxy, worker threads, datagrams, receivers composed | `native/dinput8/`, `g25_service.py`, `g25_ffb_bridge.py` |
| `LegacyProxyProofs` | theorems about `LegacyProxy` | |
| `Registration` | install and uninstall, step by step | `Register-G25StandaloneFF.ps1` |
| `RegistrationProofs` | theorems about `Registration` | |
| `MC...` | one module per specification: its instances for TLC | |

`EffectEngine` and `DriverLink` both use `EngineOps`, so that what the driver's messages do is the
one translation of `EffectEngine.handle`. `G25Service` sees the engine through the three questions
the loop asks of it: are there sessions, what is the force, is an effect active.

Names follow the code. Operators whose comment begins with "Mutant" are plausible bugs, used to see
that a property notices; no specification uses them.

### EngineOps, EffectEngine, Stopwatch

A session is a record with the fields of `Session`; `effects` maps every handle to an effect or to
`NoEffect`. `Handle(s, m, now)` is `EffectEngine.handle`, by message; `Start`, `Download`,
`Continue` and so on are its branches. `Receive` is one line of `FfbServer._read`; `Accept` and
`Drop` are `_accept` and `_drop`. `Render` is the part of a pass that needs the wheel: it uses
`passAt`, the clock read at the top of the pass, while messages use the clock itself, so an effect
can start in the future of the pass that first renders it. `Tick` is time.

Abstractions. Time is an integer, for the clock and for the microsecond fields. What an effect plays
(envelope, wave, condition, gain, direction) is one number, `shape.level`; only delay, duration and
count decide *when* it plays, and those are kept; `WheelForce` has what it plays. A line is a step:
how TCP cuts a stream into lines is not modelled. Objects the handler rejects are one message,
`"unusable"`: they still create a session (`setdefault` runs first), as in the code.

`Stopwatch` knows watches, not effects: a running watch advances with every tick unless its owner is
frozen, an operation of an owner may keep, restart, stop or remove that owner's watches and nobody
else's, a new shape never stops a watch, and it stops by itself only after its delay and all its
iterations. (That a download does not restart one it cannot say: a message may also download and
start.)
`EffectEngine!KeepsTime` is `Stopwatch!Spec` under a mapping that computes a position from
`started_at`, `pause_started` and the clock: the code never stores a position, which is what makes
pause and continue delicate.

One allowance is made. An effect that is started *while* its game has paused the device is shifted
by the whole pause at `continue` (`ffb_engine.py:278-280`), so it begins late by the time between
the pause and its start. `Restarted` permits it, since no document or test says otherwise.

### G25Service

`pc` is the place in a pass: `top` (stop? poll), `output` (`set_force`), `detect`, `open`, `switch`
and `await` (`switch_to_native_mode`), `sleep`, `exit` (the `finally`), `stopped`. The environment
(cable, mode switch, stop request) acts between any two of them. `handle`, `cache` and `filtered`
are the fields of `G25Output`; `wheel` is the real device, which the code cannot see;
`handle.attached` says that the handle still reaches it. Every failure is an action with a kind:
`"write"` (a read or write of the wheel in a pass or on the way out, and of the mode switch),
`"open"` (one of the writes of `open`), `"enumerate"`, and `"fatal"` (an exception no handler
takes). A failed write may or may not have reached the wheel.

Abstractions. Deadlines are counted in passes that are left, so that no clock is needed. Wheel bytes
are relative to neutral, and `ByteOf` is `force_to_wheel_byte` exactly, with its ties to even. The
filter is the one approximation: the code moves a float 35 % of the way, the model moves an integer
7/20 of the way, rounded up, so that both arrive. The control server, the signal handlers and the
session window are `RequestStop` here; `SessionEnd` has them apart, and `LegacyProxy` has the
datagrams that are one force with an age here.

### DriverLink

`mirror` is the state of `EffectDriver`, `link` its socket. A connection has a queue of messages on
their way, and its other end is not yet accepted, served, or gone. `SendLine` is `Bridge.send_line`:
send; if that fails close, connect, send once more; and, when the service has just gone, a send that
succeeds although nobody will read it. The calls are atomic because `state_mutex_` is held until the
message is handed over. `GameEnds` is the end of the process; a driver that is destroyed first ends
its device, which is `DeviceEnd` followed by `GameEnds`. The service's side is `Accept`, `Read`,
`ReadEnd`, one step per message; `EffectEnds` is a pass that finds an effect over, at any time,
because time plays no part here.

`After(s, queue)` is what a session becomes when a queue is read, and `Settled(c)` the session of a
connection after everything on its way has been read: the properties compare the mirror with it, and
so speak about the states in between.

`told` says that the service was told everything since the device began. It becomes false when the
driver withholds a download (`DIEP_NODOWNLOAD`, or parameters it refuses after it has given the
handle away, `driver.cpp:309`, `:327`), when a connection is replaced (the mirror is not replayed,
as README.md:93 says), and when a message is lost. `MirrorIsTrue` is stated while it is true. What
the code does otherwise is worth knowing: a *solo* start of an effect the service does not have
returns before the other effects are silenced (`ffb_engine.py:249`), so they go on although the
driver reports them as stopped.

### WheelForce

One effect, as `Effect.from_message` makes it of a message (`FromMessage`), plays over and over;
when effects play is the business of `EffectEngine`. `Report` is a report of the wheel, or of a
pedal, `Pass` is what the loop does with the latest one (`update_raw`) followed by the
`settle_if_stale` at the top of `render`, `Tick` is time. `RenderEffect` is `_render_effect` with
`Envelope`, `Wave` and `Condition` below it.

Abstractions. Time is counted in ticks. Speeds and accelerations are integers, in thousandths of the
half travel per second (squared); where the code keeps a float the model rounds, derivatives towards
zero (so that the rounding cannot add energy) and forces down. The sine is a table of twelfths of a
cycle. A gap between two reports that is longer than `MaxGap` counts as `MaxGap`.

### G25Runtime, WheelLease

An instance (`server[s]`) goes through `Run`, `Acquire` (`InstanceLock`), `Publish` (control server
and `runtime.json`), `Bind` (the two ports of the effect input), the loop, and then back:
`LeaveLoop` or `Crash`, `Neutralise`, `CloseSockets`, `Shutdown`, `Unpublish`, `Release`; every step
that can fail has an action for that, and `Kill` ends an instance anywhere, with its lock and ports
given back by the system and its file left behind. A command (`client[c]`) is a program of small
steps: `ReadEndpoint` and `Query` (the two readings of the file by `stop_process`), `Ask` and
`AskTimesOut` (the request to the instance the file named), `Launch`, `CheckChild` (`start`), `Post`
and `PostTimesOut` (the stop request), `TryLock` and `Drop` (the probe of the lock, which takes it),
`Wait`. Several data directories have their own locks and files and share the ports.

Abstractions. Of the status only `starting`, `up` and `stopping` are kept, which is all the commands
look at. Timeouts are a number of polls. Tokens and the numbers of control ports are not modelled:
`file[r]` is the instance the file was written by, and a request reaches that instance or nobody.

`WheelLease` knows owners only: an instance has the wheel for at most one unbroken time in which
nobody else has it, and a command confirms an end only of an instance that will never have it again.
`LeaseSpec` is that specification under the mapping "owner: the instance between `Bind` and the end
of `Neutralise`", over *all* directories, which no lock protects.

### SessionEnd

Three threads with a program counter each: the main thread (`StartWindow` ... `Join`), the window's
thread (`CreateWindow`, the messages of Windows, `Finish`), a thread of the control server.
`BeginRequest` and `EndRequest` are the three steps of `request_stop`: look at the event, have the
state lock for a moment, set the event. Windows asks (`QuerySession`), decides (`Decide`), and may
end the process after the notification has returned (`Terminate`). How long a wait lasts is left
open: what waits with a timeout may give up at any time.

### LegacyProxy

`output[o]` is a `ForceOutput` with its `ForceState` and its worker; `held` says which of them
devices of the game refer to, `Referred` what `shared_ptr` counts. Methods run under the output's
mutex and are atomic; the worker takes a value under the mutex (`Take`), sends it without
(`SendForce`), and waits (`TimeOut` after 25 ms, or a notification, which is lost on a worker that
does not wait yet). `BeginDestroy` and `EndDestroy` are the destructor around the join of the worker.
A datagram waits in `inbox`, replaces an earlier one that was not read (the receiver minds the
latest only), or is lost. The game dies (`Die`), the receiver is stopped and started again.
`receiver.kind` tells the service, which asks for the force while it is fresh, from the bridge, which
writes when it hears and once more when nothing came for too long. An effect is its level, that is,
magnitude by gain by direction; `Mix` is the sum, the device gain and the clamp. A command the proxy
does not know falls to the `default` of its switch and changes nothing.

### Registration

`InstallWork` and `UninstallWork` list the steps of the two actions in the order of the script;
`script` and `step` say which of them is next, so that `CutOff` is possible between any two of them
and while the state file or a key is being written. A key holds what it held before (`"old"`),
nothing, or is `"ours"`, as a whole or mixed. The OEM key is one key in both registry views. Then the
script is started again, with the same action or the other one.

The state file is `None`, what was saved, or what is left when the script is cut off while
`Set-Content` writes it: `Torn`, which is not JSON, or `Empty`, created and not yet written. Both
count as a file for an installation, which refuses them. A removal refuses `Torn`; of `Empty`,
`ConvertFrom-Json` makes nothing and no error, and the removal runs by a `State` that says no key
existed (`misread` remembers it). That is how PowerShell describes its cmdlets; the script was not
run for this project. `kept` is history: the keys of which some backup directory holds what they
held at first. No run removes a backup directory.

## 3. The runs

| run | instance | checks | shows |
|---|---|---|---|
| `engine` | 1 game, 2 effects that can cancel, shapes finite with a delay and endless, counts up to 2, gains in and out of range, 3 ticks | `TypeOK`, `StoppedMeansSilent`, `ForceMeansActive`, `SessionsBelongToClients`, `KeepsTime` | no interleaving of messages, passes and clock moves an effect; stop, solo, reset and device keep session and effects consistent; a rendered force has an active effect; a game leaves nothing behind |
| `service` | 2 ports, one sign of force, a force left by a killed service, any 1 failure | `TypeOK`, `CacheMatchesWheel`, `NeutralWhenQuiet`, `StatusTellsTheTruth`, `EveryExitNeutralises`, `RestartsGently`, `TorqueIsReclaimed`, `StopEnds`, `NativeIsOpened` | section 1's correctness of the loop; it recovers and ends |
| `service_detection_error` | 1 enumeration that fails | `ShutdownNeutral`, violated | finding 1 |
| `link_mirror` | 2 effects, 2 messages on their way, gains in and out of range, all commands, a service that stays | `TypeOK`, `MirrorIsTrue` | the driver's answers to the game are what the service will have |
| `link_failures` | 2 handles and a driver full with 1, 2 connections, 1 restart, 1 failing send | `NothingUnasked`, `GamesAreForgotten` | the service plays nothing its game's driver does not hold; a closed connection loses its session, with its force |
| `runtime_directory` | 1 directory; a run, a start, and a command that starts or stops; 1 kill or fault | `TypeOK`, `DirectoryHasOneHolder`, `EndpointIsTrue`, `CleanExitLeavesNoEndpoint`, `StopMeansStopped` | who has the lock, what the file says, what "stopped" means |
| `runtime_lease` | 2 directories, a stop and a start, 1 kill or fault | `LeaseSpec`, `CommandsAreAnswered`, `StopsAreHeeded` | one owner of the wheel; commands end; accepted stops end their instance |
| `session` | 2 planned ends of the session, 1 signal, 1 control command, a window that may fail | `TypeOK`, `NotifiedMeansNeutral`, `NoMutualWait`, `StopsForACause`, `WatchedWhileRunning`, `StopsAreHeeded` | the threads around the stop event |
| `forces` | 15 effects of all kinds, 3 reports, ticks of 25 ms, the real `DI_MAX` | `SmoothingAmplifiesNothing`, `EnvelopeIsHonoured`, `ConditionsNeverJump`, `RestIsQuiet` | what is pulled, and the rest after a movement |
| `proxy` | 1 effect, 2 outputs, a level and a gain beyond the maximum, resets, 1 datagram lost or game dead or receiver stopped | `TypeOK`, `WheelSettles`, `WatchdogSparesTheLiving` | the path of a legacy force |
| `registration` | 4 runs of the script, each cut off anywhere | `NothingIsLost` | the registry can be restored by a removal, unless one went by an empty state file; even then what was there lies in a backup directory |
| `registration_empty_file` | 2 runs of the script | `RemovalRestoresAll`, violated | finding 2 |

Why the bounds are enough to be of interest. Three ticks hold a delay, an iteration, a pause and a
late pass. `HalfRange = 4` with `DIMax = 8` makes two magnitudes share a byte and the filter need
several passes; two ports allow a wheel that comes back elsewhere under an open handle; `Watchdog`,
`PollEvery`, `RetryAfter` and `ReenumTimeout` are small and in the order of the real ones, so that
each is reached before and after each other. One message on its way per connection is enough to lose
it, two to have it overtaken by a call. Three possible instances and two commands allow a start that
loses its race, a stop that meets a successor, and both together; a second directory allows the
instances that no lock keeps apart. Two planned ends allow one that is cancelled and one that is
not. Two outputs are one that is being destroyed and its successor; two ticks of watchdog for one of
heartbeat allow the loss of one datagram, as `ProxyAssumption` asks (the real numbers, 150 and 25
ms, allow five). Four runs of the script are a cut installation, a cut removal, another cut
installation and a removal; finding 2 needs two, an installation that is cut off and a removal. The
theorems of section 5 remove the bounds from the most important
properties.

The symmetry of `engine` is over the handles of effects, which the engine only compares; that run
has no liveness property. `CHECK_DEADLOCK` is off in `runtime_directory`, `runtime_lease`,
`session`, `registration` and `registration_empty_file`, whose processes really end; elsewhere, where a service or a behaviour
may end, the specification says so with an action of its own (`Ended`, `Stopped`).

## 4. Fairness

* `G25Service`: `WF` of the loop as a whole. `select` is called with no timeout, the sockets and the
  HID handle do not block, and the waits in `switch_to_native_mode` and at the end of a pass are
  bounded. Nothing is assumed of the wheel, the user, or of any single branch; failures are bounded
  by `MaxFaults`, so what is shown is recovery once failures cease. The loop can be kept from a
  wheel by a wheel that never stays: `NativeIsOpened` allows for that.
* `DriverLink`: `WF` of accepting, reading and noticing the end, per connection: each pass polls and
  a poll serves every socket that is ready. Nothing is assumed of the game. If the service is down
  its sessions are gone at once.
* `G25Runtime`: `WF` of each instance's start and end and of each command: the system runs processes
  that can run, and every wait of a command has a deadline. Nobody has to start or stop anything,
  and an instance may stay in its loop for ever.
* `SessionEnd`: `WF` of the main thread, the window's thread and the control server's, and `SF` where
  the window's thread asks for the state lock: the main thread takes it and lets it go again and
  again, each time for a moment, and a waiter gets it in the end.
* `WheelForce`: `WF` of passes and of time. The wheel need not report.
* `LegacyProxy`: `WF` of each worker, of whoever destroys an output, of the receiver's loop and of
  time; time does not pass a worker's 25 ms nor a receiver's turn, which is the real-time assumption
  `Heartbeat + Late`. The game need not do anything.

## 5. What is proved

The assumptions are the named ones in the modules; no proof fixes a constant.

`EffectEngineProofs`, for any sets of effects, shapes, counts and gains and any bounds:

* `TypeCorrect`, `StoppedSessionsAreSilent`, `NoSessionOutlivesItsClient`, by the inductive
  invariant `EngineInv == TypeOK /\ StoppedMeansSilent /\ SessionsBelongToClients`. One lemma per
  operator (`SilenceOK`, `StartOK`, `DownloadOK`, `CommandOK`, `HandleOK`, `AfterRenderOK`) says
  that it maps a good quiet session to a good quiet session; `NextInv` has one step per action.
* `NoForceWithoutAnEffect`, which states `ForceMeansActive`: `SumOfZeros` is about sums over any
  finite set, `MixIsHeard` finds the game and `HeardIsActive` the effect behind a force that is not
  zero.
* `EngineKeepsTime`, the refinement `Spec => KeepsTime`. It needs `TimeInv`, which adds one fact to
  `EngineInv`: a pause that is on began no later than now. Without it `continue` could move an
  effect backwards. `WholeCycles` is the arithmetic: the quotient that the engine compares with the
  count reaches it exactly when the position has passed all iterations. `HandleAllowed` and
  `AfterRenderWatch` say what a message and a pass do to a watch, `TickWatch` what a tick does.

`G25ServiceProofs`, for any forces, ports, deadlines and numbers of failures:

* `TypeCorrect`, `CacheIsNeverStale`, `QuietPassesNeutralise`, `StatusIsTrue`, by `ServiceInv`,
  which adds `CutOff` to the four: a wheel that is absent has no attached handle. Without it the
  step that plugs a wheel in would not preserve the agreement of cache and wheel. The lemmas on
  `ByteOf` and `Smooth` (bounds, monotony, the ends of the range) are what keeps every byte inside
  the wheel's range.
* `ForceRestartsGently`, the action property, from `ServiceInv` in both states: with the wheel
  neutral, the filter holds something that rounds to neutral, and one filter step from there stays
  within a byte of a filter step from zero (`GentleStep`).
* `StopIsNear`, the action property `EachStepNearsTheEnd`: once a stop is asked for it stays asked
  for, and every step of the loop lowers `StepsLeft`, which begins at seven at most; a failure and
  the mode switch are no exception, and nothing around the loop raises it.
* `ShutdownNeutralises`, which states `EveryExitNeutralises`: as long as no failure was seen but
  `"fatal"` and `"open"` ones, and no force was left on the wheel before, a stopped service leaves
  none. By `HeldInv`: a wheel with a force on it is held by an open handle that follows it, until
  the `finally` has run. Finding 2 shows that `"enumerate"` cannot be allowed; a failing write is
  what the code cannot do anything about.

`G25RuntimeProofs`, for any directories, instances, commands, polls and faults: `TypeCorrect`,
`OneHolder`, `EndpointTrue`, `CleanExit`, `StoppedIsStopped`, by one inductive invariant. It adds
what the lock table says of processes (`LockOK`) and the ports of the loop (`PortOK`), that what a
file or a command names has been published in its directory (`SeenOK`), that a command which holds
the lock has outlived the instance it found (`StoppedOK`: the point of probing the lock by taking
it), and that an instance on its way to exit code 0 has removed its file (`CleanOK`).
`RuntimeImplementsLease` is the refinement, by `PortOK`: it is the ports, not the locks, that keep
instances of different directories apart.

Two theorems there are about how commands and instances end. `AnswerIsNear`
(`EachStepNearsTheAnswer`): every step of a command lowers `Ahead`, three for each poll that is left
and at most ten more, nobody else moves a command, and an answer stays. It needs to know where a
command can be in its phase and that only `start` leaves the first (`PlacesOK`). `StopIsKept`
(`AcceptedStopsStay`): a command that waits has had its request accepted by the instance it names
(`AskedOK`), requests are never taken back, no step sends an instance back, and each of the steps
that end it lowers `LeftAt`.

`SessionEndProofs`, for any number of questions: `TypeCorrect`, `NotifiedNeutral`, `NeverBothWait`,
`OnlyForACause`, `AlwaysWatched`. The invariant adds that the wheel is neutral wherever the main
thread has left its output and that `stopped_event` is set before it turns to the window
(`StoppedOK`), that every thread on its way to the stop event has a cause (`CauseOK`), and when the
window can be gone (`WindowOK`). `StopIsNear` (`EachStepNearsTheEnd`): a main thread that is called,
also by a signal that only left its number, stays called, ends after twelve steps of its own at most,
and no other thread sends it back.

`WheelForceProofs`, for any size of the wheel, rate, gap and number of reports:

* `NothingAmplified`. The bound on the speed is not inductive: a wheel already at a stop cannot be
  thrown further. What holds is `Gathered`: the more speed the smoothing has gathered, the nearer
  the wheel is to the stop it runs towards. From it the speed stays below 61 % of the fastest
  movement, and the acceleration below 57 % of the one that this would be.
* `NoJump`, which states `ConditionsNeverJump`, for any message of a game that `from_message` takes.
  `PullRises` is the heart: moved by some distance, a condition changes by no more than its steeper
  coefficient times that distance, within a side of the deadband (`OneSide`) and across it
  (`TwoSides`); `ForceMoves` says that gain, direction and the last clamp only bring forces together.

* `EnvelopeHonoured`, for any such message as well. Beside the invariant that the position is one of
  the effect's cycle (`EffectShaped`) it is arithmetic: `Between` says that a level on its way from
  one to another, rounded, stays between them; `AttackedBetween`, `FadedBetween` and `EnvelopeSize`
  take it through an attack and a fade that may overlap, `WaveSize` and `Thousandth` through the
  waves, `LevelSize` through all kinds; `FirstTick` and `LastTick` are the two ends.

* `RestComes`, the action property `OnlyReportsMove`: with no report to read no step makes the
  smoothed movement faster, and each pass that finds it stale makes it slower until it is at rest.

`DriverLinkProofs`, for any effects, connections, restarts and failures, and queues of any length:

* `TypeCorrect`, `NothingIsUnasked`, `MirrorTellsTheTruth`, by one inductive invariant. It adds to
  the three that only the driver's own connection is still open, so that an old one cannot be
  written to (`LinkIsAlone`), that a driver whose service was told everything has a connection
  (`LinkIsOpen`), and that a connection has a session only while it is served
  (`SessionsAreServed`). Reading a message takes it from the front of the queue and leaves what is
  settled as it is (`AfterHead`); sending adds one at the end, so that what is settled becomes one
  `Handle` of what was (`AfterAppend`, `SendLineArrives`). All the driver can know of a session is
  its `View`; `HandleView` says how each message changes that, and `CallKeeps` compares it, call by
  call, with what the call does to the mirror. A pass that ends an effect acts on the session as it
  is, not as it will be: `AfterAlike` says that sessions which differ only in that fewer effects play
  differ in no other way after the same messages.

`LegacyProxyProofs`, for any outputs, effects, levels and clock:

* `OneOutputAtMost`, which states `TypeOK` and with it that a game never has two outputs in use, by
  `GameInv`: what is destroyed is referred to by nobody and never used again. The lemmas on sums say
  that `Mix` is a force in range for any finite set of effects.
* `TheLivingAreSpared`, which states `WatchdogSparesTheLiving`, by `SpeakersLive`: as long as no
  datagram waits, the age of the force is no more than what the worker has idled since it last sent,
  and one period of the heartbeat for every fault. `ProxyAssumption` makes the watchdog longer than
  that; the run shows that the bound is reached.

`RegistrationProofs`, for any number of runs: `NothingIsEverLost`, in two halves.

* `Restorable`, as long as no removal went by an empty state file, in `AlwaysRestorable`. The
  invariant follows the script: the state file is there before the first key is overwritten, and from
  it a removal starts (`FileComesFirst`); an installation has exported, at each step, the keys whose
  turn has passed (`ExportsAreDone`); and a removal has put back what it has cleared as far as it has
  come (`RemovalRestores`).
* `NothingIsBeyondRecovery`, without that exception, in `NeverOutOfReach`: whatever a state file is
  taken for, there is one only when every key that held something has been exported, and on the way to
  it the keys an installation has passed have been (`SavedFirst`); a removal needs the file, and an
  installation that overwrites has written it.

How a statement about data of any size is proved here. An induction theorem cannot be applied by
these provers, but a least counterexample can: `Least`, from the well-foundedness of the naturals,
gives every set of them that is not empty a smallest element, and the queue, or the finite set, that
belongs to the smallest bad one is one message, or one element, longer than a good one. Queues are
read by a recursive function, and sums are the ones of the community modules.

Only model-checked: the nine liveness properties (`GamesAreForgotten`, `TorqueIsReclaimed`,
`StopEnds`, `NativeIsOpened`, `CommandsAreAnswered`, `StopsAreHeeded` of the runtime and of the
session, `WheelSettles`, `RestIsQuiet`). They need fairness, and with it `ENABLED`, which is out of
the prover's reach. Of five of them the part that is not about fairness is proved: `StopIsNear` (the
service and the session), `AnswerIsNear`, `StopIsKept` and `RestComes` say that what is promised is a
bounded number of steps away, or that each step brings it nearer, and that nothing moves it off
again. That the steps are taken is what the runs show. Every invariant and every action property that a passing run checks is proved.

## 6. Findings, and what else the models show

1. `service_detection_error`. README.md:21 and :196 say that the service neutralises on shutdown. An
   enumeration that raises is taken for a missing wheel, the output is closed without a write, and a
   stop before the wheel is opened again leaves its force on it.
2. `registration_empty_file`. README.md:133 says that a removal restores whatever registry state
   existed before installation. An installation that is cut off while it writes its state file can
   leave the file empty, with the registry untouched; a removal reads nothing from it without an
   error (`Register-G25StandaloneFF.ps1:167`), deletes the keys (:175-176), imports none (:178-183)
   and removes the file. What they held is still in the directory of that installation's backup
   (`NothingIsBeyondRecovery`, the second half of `NothingIsLost`), but nothing names it any more.

A third disagreement is in the model, as an action, and has no run: the comment at
`src/ffb_server.py:111` says that a malformed packet must never take down wheel output. The handler
around it names `KeyError`, `TypeError` and `ValueError`; a line that holds JSON but not an object
makes `message.get` raise `AttributeError`, which nothing takes, and the loop ends, through its
`finally`. That is `Garbage` of `EffectEngine`.

Behaviour that no document speaks against, but that a reader of the code may not expect:

* An effect that is started during a pause begins late by the time between the pause and its start
  (`ffb_engine.py:278`); `Stopwatch` permits it. A solo start of an effect the service does not have
  returns before the others are silenced (`ffb_engine.py:249`).
* `settle_if_stale` leaves `_last_velocity` as it is, so the first report after a rest, a pedal's for
  example, begins from the speed of before the rest and gives a damper or friction a short kick
  (`ffb_engine.py:84-97`). `RestIsQuiet` holds, since then reports do follow.
* A run that starts while a stop probes the lock is refused as a duplicate, with exit code 2. A stop
  exits with 1 when its instance ends between the query and the request. The loser of two starts
  fails when the winner has the lock but not yet the file (`g25_runtime.py:387`). An instance is
  never harmed by any of it, and every command still answers.
* `DISFFC_RESET` in the proxy stops the effects and leaves a pause and disabled actuators as they
  are.
* A state file of the registration that is not JSON makes both of its actions refuse; the registry
  is untouched then. (An empty one only makes the installation refuse, see finding 2.) A `reg.exe`
  that fails goes unnoticed: the properties of the registration except it (`failed`).
* A status of `"stopping"` can become `"ready"` once more when the request comes while the output is
  opened (`g25_service.py:401`); `StatusTellsTheTruth` allows both for an open output, and the stop
  is not lost. The driver goes on answering that an effect plays when it has ended by itself in the
  service (`driver.cpp:391`), which `MirrorIsTrue` allows.
* `settle_if_stale` brings the movement to rest by its two thresholds (`ffb_engine.py:94-97`); in the
  model the rounding of speeds towards zero would do so as well, so that `RestIsQuiet` shows that
  settling is repeated, not that the thresholds are needed.

## 7. Not modelled, and the plan

Not modelled: the cutting of streams into lines; the COM plumbing and the checks of parameters in the
driver, and the numbers of an effect there; the pass-through of the DirectInput interfaces in the
proxy; the settings' contents, logging and the command line; `apply_range`, whose one write is part
of opening the output; the probes and tools, which are straight lines of prints and device writes,
share no state with the service and wait for nobody; packaging and documents, which do nothing.

Next: the same for the four other liveness properties, as theorems about what no step may undo: a
wheel that settles (`WheelSettles`), a game that is forgotten (`GamesAreForgotten`), a torque that is
reclaimed (`TorqueIsReclaimed`) and a native wheel that is opened (`NativeIsOpened`).
