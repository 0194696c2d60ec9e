------------------------------ MODULE G25Service ------------------------------
(***************************************************************************)
(* The main loop of src/src/g25_service.py, the one owner of the wheel:    *)
(* run_service, detect_g25, switch_to_native_mode and G25Output, with the  *)
(* wheel on its cable and the stop request as environment.                 *)
(*                                                                         *)
(* A pass is Top, Output, Detect, possibly Open or Switch and Await, then  *)
(* Sleep; the environment acts between any two of them.  The two force     *)
(* sources are read at Top: the registered driver (the component of module *)
(* EffectEngine, seen through engine.sessions, render and                  *)
(* has_active_effects) and the legacy proxy's datagrams.                   *)
(*                                                                         *)
(* Time is relative: every deadline the loop compares with its clock is    *)
(* the number of passes that are left until it.                            *)
(***************************************************************************)
EXTENDS Integers

CONSTANTS
    Paths,          \* HID paths the native wheel can have
    NoPath,
    Forces,         \* forces a source can ask for
    DIMax,          \* the largest magnitude, 10000
    HalfRange,      \* wheel bytes on each side of neutral, 0x7F
    Watchdog,       \* LEGACY_WATCHDOG_SECONDS, in passes
    PollEvery,      \* DEVICE_POLL_INTERVAL_SECONDS, in passes
    RetryAfter,     \* RETRY_INTERVAL_SECONDS, in passes
    ReenumTimeout,  \* REENUMERATION_TIMEOUT_SECONDS, in passes
    LeftForces,     \* forces a service that was killed may have left on the wheel
    Faults,         \* kinds of failure that can happen
    MaxFaults       \* bound: failures in a behaviour

FaultKinds == {"write", "open", "enumerate", "fatal"}

ASSUME ForceAssumption ==
    /\ DIMax \in Nat \ {0} /\ HalfRange \in Nat \ {0}
    /\ Forces \subseteq -DIMax .. DIMax /\ LeftForces \subseteq -HalfRange .. HalfRange
    /\ 0 \in Forces /\ 0 \in LeftForces
ASSUME TimeAssumption ==
    /\ Watchdog \in Nat /\ PollEvery \in Nat \ {0} /\ RetryAfter \in Nat /\ ReenumTimeout \in Nat
ASSUME FaultAssumption == Faults \subseteq FaultKinds /\ MaxFaults \in Nat
ASSUME PathAssumption == NoPath \notin Paths

VARIABLES
    pc,             \* where the loop is
    stop,           \* Runtime.stop_event
    status,         \* Runtime._state["state"]
    handle,         \* G25Output.device and .path; attached: it still reaches the wheel
    cache,          \* G25Output.current_force_byte, relative to neutral
    filtered,       \* G25Output.filtered_force
    driver,         \* what the engine said in this pass
    legacy,         \* legacy_force, and the passes since legacy_force_at
    pollIn,         \* next_device_poll
    retryIn,        \* retry_after
    reenumIn,       \* the deadline of switch_to_native_mode
    found,          \* the path of the wheel detected in this pass
    wheel,          \* the wheel: its mode, path and constant-force slot
    faults          \* how many failures can still happen, and the kinds that have

output == <<handle, cache, filtered>>
timers == <<pollIn, retryIn, reenumIn>>
vars == <<pc, stop, status, handle, cache, filtered, driver, legacy, pollIn, retryIn, reenumIn,
          found, wheel, faults>>

\* A service that was killed before this one is a failure too.
FaultRecord == [left : 0 .. MaxFaults, seen : SUBSET (FaultKinds \cup {"kill"})]

Magnitude == -DIMax .. DIMax
ForceByte == -HalfRange .. HalfRange

\* The driver has no session, sessions without an active effect, or active effects.
Silent == [sessions |-> FALSE, active |-> FALSE, force |-> 0]
Idle == [sessions |-> TRUE, active |-> FALSE, force |-> 0]
Active(f) == [sessions |-> TRUE, active |-> TRUE, force |-> f]
Drivers == {Silent, Idle} \cup {Active(f) : f \in Forces}

TypeOK ==
    /\ pc \in {"top", "output", "detect", "open", "switch", "await", "sleep", "exit", "stopped"}
    /\ stop \in BOOLEAN
    /\ status \in {"waiting", "initializing", "ready", "stopping"}
    /\ handle \in [open : BOOLEAN, path : Paths \cup {NoPath}, attached : BOOLEAN]
    /\ cache \in ForceByte
    /\ filtered \in Magnitude
    /\ driver \in Drivers
    /\ legacy \in [force : Forces, age : 0 .. Watchdog + 1]
    /\ pollIn \in 0 .. PollEvery
    /\ retryIn \in 0 .. RetryAfter
    /\ reenumIn \in 0 .. ReenumTimeout
    /\ found \in Paths \cup {NoPath}
    /\ wheel \in [mode : {"absent", "switching", "legacy", "native"}, path : Paths, force : ForceByte]
    /\ faults \in FaultRecord

Closed == [open |-> FALSE, path |-> NoPath, attached |-> FALSE]

Init ==
    /\ pc = "top" /\ stop = FALSE /\ status = "waiting"
    /\ handle = Closed /\ cache = 0 /\ filtered = 0
    /\ driver = Silent /\ legacy = [force |-> 0, age |-> Watchdog + 1]
    /\ pollIn = 0 /\ retryIn = 0 /\ reenumIn = 0
    /\ found = NoPath
    /\ wheel \in [mode : {"absent", "legacy", "native"}, path : Paths, force : LeftForces]
    /\ wheel.mode # "native" => wheel.force = 0
    /\ faults = [left |-> MaxFaults, seen |-> IF wheel.force = 0 THEN {} ELSE {"kill"}]

-----------------------------------------------------------------------------
(* Forces. *)

\* force_to_wheel_byte, relative to neutral: DIMax is HalfRange, rounded to the nearest,
\* a tie to the even byte (neutral, 0x80, is even).
ByteOf(m) ==
    LET upper == (2 * m * HalfRange + DIMax) \div (2 * DIMax)
        tie == 2 * m * HalfRange + DIMax = 2 * DIMax * upper
    IN IF tie /\ upper % 2 = 1 THEN upper - 1 ELSE upper

\* One step of the low-pass filter: G25_FORCE_SMOOTHING_ALPHA (7/20) of the way, in whole
\* units, so that it arrives.
Share(d) == (7 * d + 19) \div 20

\* Mutant: the filter is not applied.
SmoothAtOnce(f, target) == target

Smooth(f, target) ==
    IF target >= f THEN f + Share(target - f) ELSE f - Share(f - target)

\* Mutant: neutralisation is filtered too.
NextFilteredAlways(target, immediate) == Smooth(filtered, target)

\* set_force: `immediate` bypasses the filter.
NextFiltered(target, immediate) == IF immediate THEN target ELSE Smooth(filtered, target)

\* The force the pass wants, and whether something is active: the driver has priority, the
\* legacy force counts while it is fresh.
Wanted ==
    IF driver.sessions THEN [force |-> driver.force, active |-> driver.active]
    ELSE IF legacy.age <= Watchdog THEN [force |-> legacy.force, active |-> TRUE]
    ELSE [force |-> 0, active |-> FALSE]

-----------------------------------------------------------------------------
(* Steps shared by several actions. *)

Fault(kind) ==
    /\ kind \in Faults /\ faults.left > 0
    /\ faults' = [left |-> faults.left - 1, seen |-> faults.seen \cup {kind}]

\* G25Output.close(send_stop=False): nothing is written.
CloseSilently == handle' = Closed /\ cache' = 0 /\ filtered' = 0

\* A write that reports failure may have been delivered or not.
FailedWrite(byte) == wheel' = wheel \/ wheel' = [wheel EXCEPT !.force = byte]

\* Mutant: a deadline that has passed runs on.
MinusOneUnbounded(n) == n - 1

MinusOne(n) == IF n = 0 THEN 0 ELSE n - 1

\* Mutant: the retry delay never ends.
ElapseWithoutRetry ==
    /\ pollIn' = MinusOne(pollIn)
    /\ retryIn' = retryIn
    /\ reenumIn' = MinusOne(reenumIn)
    /\ legacy' = [legacy EXCEPT !.age = IF @ > Watchdog THEN @ ELSE @ + 1]

\* One pass of time.
Elapse ==
    /\ pollIn' = MinusOne(pollIn)
    /\ retryIn' = MinusOne(retryIn)
    /\ reenumIn' = MinusOne(reenumIn)
    /\ legacy' = [legacy EXCEPT !.age = IF @ > Watchdog THEN @ ELSE @ + 1]

-----------------------------------------------------------------------------
(* The pass. *)

\* Mutant: the stop request is looked at only while no wheel is open.
LeaveOnceClosed ==
    /\ pc = "top" /\ stop /\ ~handle.open
    /\ pc' = "exit"
    /\ UNCHANGED <<stop, status, output, driver, legacy, timers, found, wheel, faults>>

\* `while not runtime.should_stop()`.
Leave ==
    /\ pc = "top" /\ stop
    /\ pc' = "exit"
    /\ UNCHANGED <<stop, status, output, driver, legacy, timers, found, wheel, faults>>

\* The endpoint is polled, then the datagrams are drained; the last one counts.
Poll ==
    /\ pc = "top" /\ ~stop
    /\ driver' \in Drivers
    /\ legacy' \in {legacy} \cup [force : Forces, age : {0}]
    /\ pc' = "output"
    /\ UNCHANGED <<stop, status, output, timers, found, wheel, faults>>

NoOutput ==
    /\ pc = "output" /\ ~handle.open
    /\ pc' = "detect"
    /\ UNCHANGED <<stop, status, output, driver, legacy, timers, found, wheel, faults>>

\* Read the steering, render, and write the force if its byte is a new one.
SetForce ==
    /\ pc = "output" /\ handle.open /\ handle.attached
    /\ filtered' = NextFiltered(Wanted.force, ~Wanted.active)
    /\ cache' = ByteOf(filtered')
    /\ wheel' = IF cache' = cache THEN wheel ELSE [wheel EXCEPT !.force = cache']
    /\ pc' = "detect"
    /\ UNCHANGED <<stop, status, handle, driver, legacy, timers, found, faults>>

\* Mutant: the status is left as it was.
OutputFailsSilently ==
    /\ pc = "output" /\ handle.open /\ ~handle.attached
    /\ CloseSilently
    /\ pollIn' = 0
    /\ pc' = "detect"
    /\ UNCHANGED <<stop, status, driver, legacy, retryIn, reenumIn, found, wheel, faults>>

\* The wheel has gone, or a read or a write fails: let go of it and look again at once.
OutputFails ==
    /\ pc = "output" /\ handle.open
    /\ \/ ~handle.attached /\ UNCHANGED <<wheel, faults>>
       \/ handle.attached /\ Fault("write")
          /\ FailedWrite(ByteOf(NextFiltered(Wanted.force, ~Wanted.active)))
    /\ CloseSilently
    /\ status' = "waiting"
    /\ pollIn' = 0
    /\ pc' = "detect"
    /\ UNCHANGED <<stop, driver, legacy, retryIn, reenumIn, found>>

\* An exception that no handler of the loop takes: the `finally` follows.
Crash ==
    /\ pc \in {"top", "output", "switch", "await"}
    /\ \/ Fault("fatal")
       \/ pc = "await" /\ Fault("enumerate")
    /\ pc' = "exit"
    /\ reenumIn' = 0
    /\ UNCHANGED <<stop, status, output, driver, legacy, pollIn, retryIn, found, wheel>>

-----------------------------------------------------------------------------
(* Detection. *)

NotYet ==
    /\ pc = "detect" /\ pollIn # 0
    /\ pc' = "sleep"
    /\ UNCHANGED <<stop, status, output, driver, legacy, timers, found, wheel, faults>>

\* No wheel, or an enumeration that failed.
DetectNothing ==
    /\ pc = "detect" /\ pollIn = 0
    /\ \/ wheel.mode \in {"absent", "switching"} /\ UNCHANGED faults
       \/ Fault("enumerate")
    /\ CloseSilently
    /\ status' = "waiting"
    /\ pollIn' = PollEvery
    /\ pc' = "sleep"
    /\ UNCHANGED <<stop, driver, legacy, retryIn, reenumIn, found, wheel>>

DetectLegacy ==
    /\ pc = "detect" /\ pollIn = 0 /\ wheel.mode = "legacy"
    /\ CloseSilently
    /\ status' = "initializing"
    /\ pollIn' = PollEvery
    /\ pc' = IF retryIn = 0 THEN "switch" ELSE "sleep"
    /\ UNCHANGED <<stop, driver, legacy, retryIn, reenumIn, found, wheel, faults>>

NeedsOpen == ~handle.open \/ handle.path # wheel.path

DetectNative ==
    /\ pc = "detect" /\ pollIn = 0 /\ wheel.mode = "native"
    /\ pollIn' = PollEvery
    /\ IF NeedsOpen /\ retryIn = 0
       THEN pc' = "open" /\ found' = wheel.path
       ELSE pc' = "sleep" /\ UNCHANGED found
    /\ UNCHANGED <<stop, status, output, driver, legacy, retryIn, reenumIn, wheel, faults>>

\* Mutant: the wheel keeps the force it has.
OpenLeavesForce ==
    /\ pc = "open" /\ wheel.mode = "native" /\ wheel.path = found
    /\ handle' = [open |-> TRUE, path |-> found, attached |-> TRUE]
    /\ cache' = 0 /\ filtered' = 0
    /\ status' = "ready"
    /\ found' = NoPath
    /\ pc' = "sleep"
    /\ UNCHANGED <<stop, driver, legacy, timers, wheel, faults>>

\* G25Output.open: close, open, range, STOP_ALL, spring off, neutral.
Open ==
    /\ pc = "open" /\ wheel.mode = "native" /\ wheel.path = found
    /\ handle' = [open |-> TRUE, path |-> found, attached |-> TRUE]
    /\ wheel' = [wheel EXCEPT !.force = 0]
    /\ cache' = 0 /\ filtered' = 0
    /\ status' = "ready"
    /\ found' = NoPath
    /\ pc' = "sleep"
    /\ UNCHANGED <<stop, driver, legacy, timers, faults>>

\* The detected wheel has gone, or one of the writes fails.
OpenFails ==
    /\ pc = "open"
    /\ \/ ~(wheel.mode = "native" /\ wheel.path = found) /\ UNCHANGED <<wheel, faults>>
       \/ wheel.mode = "native" /\ wheel.path = found /\ Fault("open") /\ FailedWrite(0)
    /\ CloseSilently
    /\ status' = "waiting"
    /\ retryIn' = RetryAfter
    /\ found' = NoPath
    /\ pc' = "sleep"
    /\ UNCHANGED <<stop, driver, legacy, pollIn, reenumIn>>

\* An exception that is not an OSError.
OpenCrashes ==
    /\ pc = "open" /\ Fault("fatal")
    /\ CloseSilently
    /\ found' = NoPath
    /\ pc' = "exit"
    /\ UNCHANGED <<stop, status, driver, legacy, timers, wheel>>

-----------------------------------------------------------------------------
(* switch_to_native_mode. *)

\* The command is sent, and the wheel may leave the bus to come back as a native one.
\* A handle that breaks while it is written counts as sent.
SendSwitch ==
    /\ pc = "switch"
    /\ wheel' \in {wheel} \cup
          IF wheel.mode = "legacy" THEN {[wheel EXCEPT !.mode = "switching"]} ELSE {}
    /\ reenumIn' = ReenumTimeout
    /\ pc' = "await"
    /\ UNCHANGED <<stop, status, output, driver, legacy, pollIn, retryIn, found, faults>>

SwitchRefused ==
    /\ pc = "switch" /\ Fault("write")
    /\ retryIn' = RetryAfter
    /\ pc' = "sleep"
    /\ UNCHANGED <<stop, status, output, driver, legacy, pollIn, reenumIn, found, wheel>>

Await ==
    /\ pc = "await" /\ ~stop /\ reenumIn > 0 /\ wheel.mode # "native"
    /\ Elapse
    /\ UNCHANGED <<pc, stop, status, output, driver, found, wheel, faults>>

AwaitFinds ==
    /\ pc = "await" /\ ~stop /\ reenumIn > 0 /\ wheel.mode = "native"
    /\ pollIn' = 0 /\ reenumIn' = 0
    /\ pc' = "sleep"
    /\ UNCHANGED <<stop, status, output, driver, legacy, retryIn, found, wheel, faults>>

AwaitGivesUp ==
    /\ pc = "await" /\ (stop \/ reenumIn = 0)
    /\ retryIn' = RetryAfter /\ reenumIn' = 0
    /\ pc' = "sleep"
    /\ UNCHANGED <<stop, status, output, driver, legacy, pollIn, found, wheel, faults>>

-----------------------------------------------------------------------------
Sleep ==
    /\ pc = "sleep"
    /\ Elapse
    /\ pc' = "top"
    /\ UNCHANGED <<stop, status, output, driver, found, wheel, faults>>

\* Mutant: the output is closed as after a failure.
ExitSilently ==
    /\ pc = "exit"
    /\ status' = "stopping"
    /\ CloseSilently
    /\ pc' = "stopped"
    /\ UNCHANGED <<stop, driver, legacy, timers, found, wheel, faults>>

\* The `finally` of run_service: close(send_stop=True), its failures swallowed.
Exit ==
    /\ pc = "exit"
    /\ status' = "stopping"
    /\ \/ ~(handle.open /\ handle.attached) /\ UNCHANGED <<wheel, faults>>
       \/ handle.open /\ handle.attached
          /\ wheel' = [wheel EXCEPT !.force = 0] /\ UNCHANGED faults
       \/ handle.open /\ handle.attached /\ Fault("write") /\ FailedWrite(0)
    /\ CloseSilently
    /\ pc' = "stopped"
    /\ UNCHANGED <<stop, driver, legacy, timers, found>>

Stopped == pc = "stopped" /\ UNCHANGED vars

-----------------------------------------------------------------------------
(* The environment, while the service lives. *)

\* Runtime.request_stop, from the control server, a signal or the end of the session.
RequestStop ==
    /\ pc # "stopped" /\ ~stop
    /\ stop' = TRUE
    /\ status' = "stopping"
    /\ UNCHANGED <<pc, output, driver, legacy, timers, found, wheel, faults>>

Unplug ==
    /\ pc # "stopped" /\ wheel.mode # "absent"
    /\ wheel' = [wheel EXCEPT !.mode = "absent", !.force = 0]
    /\ handle' = [handle EXCEPT !.attached = FALSE]
    /\ UNCHANGED <<pc, stop, status, cache, filtered, driver, legacy, timers, found, faults>>

Plug ==
    /\ pc # "stopped" /\ wheel.mode = "absent"
    /\ wheel' \in [mode : {"legacy", "native"}, path : Paths, force : {0}]
    /\ UNCHANGED <<pc, stop, status, output, driver, legacy, timers, found, faults>>

Reenumerate ==
    /\ pc # "stopped" /\ wheel.mode = "switching"
    /\ wheel' = [wheel EXCEPT !.mode = "native"]
    /\ UNCHANGED <<pc, stop, status, output, driver, legacy, timers, found, faults>>

Loop ==
    \/ Leave \/ Poll \/ NoOutput \/ SetForce \/ OutputFails \/ Crash
    \/ NotYet \/ DetectNothing \/ DetectLegacy \/ DetectNative
    \/ Open \/ OpenFails \/ OpenCrashes
    \/ SendSwitch \/ SwitchRefused \/ Await \/ AwaitFinds \/ AwaitGivesUp
    \/ Sleep \/ Exit

Environment == RequestStop \/ Unplug \/ Plug \/ Reenumerate

Next == Loop \/ Environment \/ Stopped

Spec == Init /\ [][Next]_vars

\* The loop never blocks: select has no timeout, the sockets and the HID handle are
\* non-blocking, the waits are bounded.  Nothing is assumed of the wheel or the user.
FairSpec == Spec /\ WF_vars(Loop)

-----------------------------------------------------------------------------
(* Properties. *)

\* What set_force remembers is what the wheel does: while the handle reaches the wheel,
\* its force is the cached byte, and the cached byte is that of the filter.  set_force
\* skips a write whose byte is the cached one, so a difference could stay for ever.
CacheMatchesWheel ==
    handle.open /\ handle.attached => wheel.force = cache /\ cache = ByteOf(filtered)

\* Right after the force of a pass is set, no active effect and no fresh legacy force
\* means no force on the wheel, whatever the filter held ("immediate" in set_force; the
\* watchdog of the legacy proxy).
NeutralWhenQuiet ==
    pc = "detect" /\ handle.open /\ handle.attached /\ ~Wanted.active => wheel.force = 0

\* "ready" means the output is open, and an open output is reported as ready or stopping:
\* no path through failures, re-detection and stop requests leaves another answer.
StatusTellsTheTruth ==
    pc # "exit" => /\ status = "ready" => handle.open
                   /\ handle.open => status \in {"ready", "stopping"}

\* A service that has stopped leaves no force on a wheel (README.md:21, :196).
ShutdownNeutral == pc = "stopped" => wheel.force = 0

\* What the `finally` of run_service can achieve: every way out of the loop, also one
\* through an opening or a handler that failed, leaves the wheel neutral, unless a write
\* or an enumeration failed or the force was there before the service.
Unharmed == faults.seen \subseteq {"fatal", "open"}
EveryExitNeutralises == Unharmed => ShutdownNeutral

\* Force that comes up from neutral comes up through the filter: after a neutralisation, a
\* reopened handle or a new wheel, the filter starts from zero again.  One byte more than
\* a single filter step, because the filter may hold what rounds to neutral.
RestartsGently ==
    [][wheel.force = 0 =>
          wheel'.force \in ByteOf(-Share(DIMax)) - 1 .. ByteOf(Share(DIMax)) + 1]_vars

\* Force left on a wheel that the service does not hold, by a failure or by a service that
\* was killed, is taken away: the wheel is found, opened and neutralised, unless the
\* service is stopped first.
TorqueIsReclaimed ==
    wheel.force # 0 /\ ~(handle.open /\ handle.attached) ~> wheel.force = 0 \/ stop \/ pc \in {"exit", "stopped"}

\* A stop request ends the loop, also in the middle of a mode switch.
StopEnds == stop ~> pc = "stopped"

\* A wheel that stays plugged in native mode is opened.
NativeIsOpened ==
    wheel.mode = "native" ~>
        wheel.mode # "native" \/ (handle.open /\ handle.attached) \/ stop \/ pc \in {"exit", "stopped"}
=============================================================================
