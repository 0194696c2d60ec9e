----------------------------- MODULE LegacyProxy -----------------------------
(***************************************************************************)
(* The legacy path of a game's constant forces: the dinput8 proxy in the   *)
(* game (src/native/dinput8) mixes them in a ForceOutput whose worker      *)
(* thread sends the sum as a datagram, at every change and again every 25  *)
(* ms; the main loop of the service (src/src/g25_service.py), or the       *)
(* earlier bridge (src/src/g25_ffb_bridge.py), hears the latest one and    *)
(* falls silent when none comes for 150 ms.                                *)
(*                                                                         *)
(* The methods of ForceOutput run on the game's threads under its mutex;   *)
(* so does the worker, but for the moment it sends and the time it waits.  *)
(* A method that takes the mutex twice is two actions in a row.  Datagrams *)
(* are lost, games die without a word, and receivers are stopped and       *)
(* started again.  An effect is its level: its magnitude times its gain    *)
(* and its direction.                                                      *)
(***************************************************************************)
EXTENDS Integers, FiniteSets, FiniteSetsExt

CONSTANTS
    Outputs,        \* ForceOutput objects
    EffectIds,      \* effects of one output
    Levels,         \* levels a game can set
    Gains,          \* device gains a game can set
    Commands,       \* names of the commands a game can send
    DIMax,          \* the nominal maximum, 10000
    None,           \* no effect under this id; no datagram
    Heartbeat,      \* ticks the worker waits for a change: 25 ms
    Late,           \* ticks by which the scheduler may delay it
    Watchdog,       \* LEGACY_WATCHDOG_SECONDS, WATCHDOG_SECONDS, in ticks
    MaxFaults       \* bound: datagrams lost, stops of the receiver and deaths of the game

ASSUME ProxyAssumption ==
    /\ {Heartbeat, Late, Watchdog, MaxFaults} \subseteq Nat /\ Heartbeat > 0
    /\ DIMax \in Nat \ {0} /\ Levels \subseteq Int /\ Gains \subseteq Nat
    /\ IsFiniteSet(EffectIds)
    /\ (MaxFaults + 1) * (Heartbeat + Late) <= Watchdog

VARIABLES
    output,         \* the ForceOutput objects, their ForceState and their workers
    held,           \* the outputs a device object of the game refers to
    faults,         \* what went wrong so far
    inbox,          \* the latest datagram in the receiver's socket; `alive` like speaker
    receiver,       \* [kind, up, polled]: polled since the last tick
    force,          \* legacy_force, current_force
    age,            \* time since legacy_force_at, last_packet
    speaker,        \* history: `force` is one, sent by an output that is alive still
    wheel           \* the force the receiver asks of the wheel

gameVars == <<output, held>>
receiverVars == <<receiver, force, age, wheel>>
vars == <<gameVars, receiverVars, inbox, speaker, faults>>

Forces == -DIMax .. DIMax

Effect == [level : Levels \cup {0}, playing : BOOLEAN]

Output == [pc : {"none", "take", "send", "wait", "ended"}, stopping : BOOLEAN,
           sending : Forces, idle : 0 .. Heartbeat + Late,
           effects : [EffectIds -> Effect \cup {None}],
           gain : 0 .. DIMax, paused : BOOLEAN, actuators : BOOLEAN]

Datagram == [force : Forces, alive : BOOLEAN]

ASSUME AbsenceAssumption == None \notin Effect \cup Datagram

Gone == [pc |-> "none", stopping |-> FALSE, sending |-> 0, idle |-> 0,
         effects |-> [id \in EffectIds |-> None],
         gain |-> DIMax, paused |-> FALSE, actuators |-> TRUE]

Init ==
    /\ output = [o \in Outputs |-> Gone]
    /\ held = {}
    /\ faults = 0
    /\ inbox = None
    /\ speaker = FALSE
    /\ receiver \in [kind : {"service", "bridge"}, up : {TRUE}, polled : {TRUE}]
    /\ force = 0
    /\ age = Watchdog + 1
    /\ wheel = 0

-----------------------------------------------------------------------------
(* ForceState. *)

Clamp(x, low, high) == IF x < low THEN low ELSE IF x > high THEN high ELSE x
TowardsZero(a, b) == IF a < 0 THEN -((-a) \div b) ELSE a \div b

Playing(s) == {id \in EffectIds : s.effects[id] # None /\ s.effects[id].playing}

Mix(s) ==
    LET sum == MapThenSumSet(LAMBDA id : Clamp(s.effects[id].level, -DIMax, DIMax), Playing(s))
    IN IF s.paused \/ ~s.actuators THEN 0 ELSE Clamp(TowardsZero(sum * s.gain, DIMax), -DIMax, DIMax)

SetPlaying(s, ids, playing) ==
    [s EXCEPT !.effects = [id \in EffectIds |->
        IF id \in ids /\ @[id] # None THEN [@[id] EXCEPT !.playing = playing] ELSE @[id]]]

\* ForceOutput::command: a reset stops the effects, and leaves pause and actuators alone.
Command(s, name) ==
    CASE name \in {"stopall", "reset"} -> SetPlaying(s, EffectIds, FALSE)
      [] name \in {"pause", "continue"} -> [s EXCEPT !.paused = (name = "pause")]
      [] name \in {"actuators_on", "actuators_off"} ->
            [s EXCEPT !.actuators = (name = "actuators_on")]
      [] OTHER -> s

-----------------------------------------------------------------------------
(* The game. *)

\* shared_ptr: a device object of the game or one of its effects refers to the output.
Referred(o) == o \in held \/ \E id \in EffectIds : output[o].effects[id] # None

Alive == {o \in Outputs : output[o].pc # "none" /\ Referred(o)}

\* The types; and two outputs in use would send two mixes in turn, whatever the devices
\* opened and the effects released while another output is still being destroyed.
TypeOK ==
    /\ output \in [Outputs -> Output] /\ Cardinality(Alive) <= 1
    /\ held \subseteq Outputs
    /\ faults \in 0 .. MaxFaults
    /\ inbox \in Datagram \cup {None}
    /\ receiver \in [kind : {"service", "bridge"}, up : BOOLEAN, polled : BOOLEAN]
    /\ speaker \in BOOLEAN
    /\ force \in Forces
    /\ age \in 0 .. Watchdog + 1
    /\ wheel \in Forces

\* notify_one wakes a worker that waits, and is lost on one that does not.
Notify(s) == IF s.pc = "wait" THEN [s EXCEPT !.pc = "take"] ELSE s

\* A method of the output, under its mutex.
Call(o, s) ==
    /\ output' = [output EXCEPT ![o] = Notify(s)]
    /\ UNCHANGED <<inbox, speaker, faults, receiverVars>>

\* Mutant: every device object has an output of its own.
OpenDeviceAnew ==
    \E o \in Outputs :
        /\ output[o] = Gone
        /\ output' = [output EXCEPT ![o].pc = "take"]
        /\ held' = held \cup {o}
        /\ UNCHANGED <<inbox, speaker, faults, receiverVars>>

\* The constructor of G25DeviceProxy: shared_output finds the output that is alive or
\* makes another one, also while one that nobody refers to any more is being destroyed.
OpenDevice ==
    \E o \in Outputs :
        /\ IF Alive # {} THEN o \in Alive /\ UNCHANGED output
           ELSE LET free == {p \in Outputs : output[p] = Gone} IN
                /\ free # {} /\ o = CHOOSE p \in free : TRUE
                /\ output' = [output EXCEPT ![o].pc = "take"]
        /\ held' = held \cup {o}
        /\ UNCHANGED <<inbox, speaker, faults, receiverVars>>

\* History: what was sent by an output that is not alive any more, and never will be.
Forget ==
    IF Alive \subseteq Alive' THEN UNCHANGED <<inbox, speaker>>
    ELSE /\ speaker' = FALSE
         /\ inbox' = IF inbox = None THEN None ELSE [inbox EXCEPT !.alive = FALSE]

CloseDevice(o) ==
    /\ o \in held
    /\ held' = held \ {o}
    /\ UNCHANGED <<output, faults, receiverVars>>
    /\ Forget

CreateEffect(o, id) ==
    /\ o \in held /\ output[o].effects[id] = None
    /\ Call(o, [output[o] EXCEPT !.effects[id] = [level |-> 0, playing |-> FALSE]])
    /\ UNCHANGED held

ReleaseEffect(o, id) ==
    /\ output[o].effects[id] # None
    /\ output' = [output EXCEPT ![o] = Notify([@ EXCEPT !.effects[id] = None])]
    /\ UNCHANGED <<held, faults, receiverVars>>
    /\ Forget

SetParameters(o, id, level) ==
    /\ output[o].effects[id] # None
    /\ Call(o, [output[o] EXCEPT !.effects[id].level = level])
    /\ UNCHANGED held

\* Start, or SetParameters with DIEP_START; Stop, or Unload.
StartOrStop(o, id, playing) ==
    /\ output[o].effects[id] # None
    /\ Call(o, SetPlaying(output[o], {id}, playing))
    /\ UNCHANGED held

SetDeviceGain(o, gain) ==
    /\ o \in held
    /\ Call(o, [output[o] EXCEPT !.gain = IF gain > DIMax THEN DIMax ELSE gain])
    /\ UNCHANGED held

SendCommand(o, name) ==
    /\ o \in held
    /\ Call(o, Command(output[o], name))
    /\ UNCHANGED held

\* ~ForceOutput, begun by whoever gave up the last reference.
BeginDestroy(o) ==
    /\ output[o].pc # "none" /\ ~Referred(o) /\ ~output[o].stopping
    /\ output' = [output EXCEPT ![o] = Notify([output[o] EXCEPT !.stopping = TRUE])]
    /\ UNCHANGED <<held, inbox, speaker, faults, receiverVars>>

\* The process dies: nothing is destroyed, no last word is sent.
Die ==
    /\ faults < MaxFaults
    /\ faults' = faults + 1
    /\ output' = [o \in Outputs |-> Gone]
    /\ held' = {}
    /\ UNCHANGED receiverVars
    /\ Forget

-----------------------------------------------------------------------------
(* The datagram, the worker and the end of an output. *)

\* Sent by o: it arrives, unless nobody has the port, or is lost.
Send(o, magnitude) ==
    \/ /\ inbox' = IF ~receiver.up THEN None
                   ELSE [force |-> magnitude, alive |-> magnitude # 0 /\ o \in Alive]
       /\ UNCHANGED faults
    \/ /\ faults < MaxFaults
       /\ faults' = faults + 1
       /\ UNCHANGED inbox

Take(o) ==
    /\ output[o].pc = "take"
    /\ output' = [output EXCEPT ![o].pc = IF output[o].stopping THEN "ended" ELSE "send",
                                ![o].sending = Mix(output[o])]
    /\ UNCHANGED <<held, inbox, speaker, faults, receiverVars>>

\* Sent without the mutex, and then to wait: a change in between wakes nobody.
SendForce(o) ==
    /\ output[o].pc = "send"
    /\ output' = [output EXCEPT ![o].pc = "wait", ![o].sending = 0, ![o].idle = 0]
    /\ Send(o, output[o].sending)
    /\ UNCHANGED <<held, speaker, receiverVars>>

\* Mutant: the worker waits for a change only.
TimeOutNever(o) == FALSE /\ UNCHANGED vars

TimeOut(o) ==
    /\ output[o].pc = "wait" /\ output[o].idle >= Heartbeat
    /\ output' = [output EXCEPT ![o].pc = "take"]
    /\ UNCHANGED <<held, inbox, speaker, faults, receiverVars>>

\* The worker is joined, and the wheel told to let go.
EndDestroy(o) ==
    /\ output[o].pc = "ended"
    /\ output' = [output EXCEPT ![o] = Gone]
    /\ Send(o, 0)
    /\ UNCHANGED <<held, speaker, receiverVars>>

-----------------------------------------------------------------------------
(* The receiver, and the clock. *)

\* Mutant: the heartbeat of a force already known is no news.
NewsIfChanged == inbox # None /\ inbox.force # force

\* A datagram has come since the last turn of the loop.
News == inbox # None

\* One turn of the receiver's loop: it drains its socket and minds the latest datagram only.
Hear(kind) ==
    /\ receiver.up /\ receiver.kind = kind
    /\ receiver' = [receiver EXCEPT !.polled = TRUE]
    /\ inbox' = None
    /\ age' = IF News THEN 0 ELSE age
    /\ speaker' = IF inbox # None THEN inbox.alive ELSE speaker
    /\ UNCHANGED <<gameVars, faults>>

Heard == IF inbox # None THEN inbox.force ELSE force

\* The service, with a wheel and no registered driver connected (G25Service has the other
\* cases), asks for the force it heard last as long as it is fresh.
ServicePoll ==
    /\ Hear("service")
    /\ force' = Heard
    /\ wheel' = IF age' <= Watchdog THEN Heard ELSE 0

\* The bridge asks for a force when it hears it, and for none when one gets old.
BridgePoll ==
    /\ Hear("bridge")
    /\ force' = IF Heard # 0 /\ age' > Watchdog THEN 0 ELSE Heard
    /\ wheel' = IF inbox # None \/ force' # Heard THEN force' ELSE wheel

Poll == ServicePoll \/ BridgePoll

\* A stop from outside: the wheel is let go and the socket closed.
StopReceiver ==
    /\ receiver.up /\ faults < MaxFaults
    /\ faults' = faults + 1
    /\ receiver' = [receiver EXCEPT !.up = FALSE, !.polled = TRUE]
    /\ inbox' = None
    /\ speaker' = FALSE
    /\ wheel' = 0
    /\ UNCHANGED <<gameVars, force, age>>

\* Bound to the socket again, with the wheel at neutral.
StartReceiver ==
    /\ ~receiver.up
    /\ receiver' = [receiver EXCEPT !.up = TRUE]
    /\ force' = 0
    /\ age' = IF receiver.kind = "bridge" THEN 0 ELSE Watchdog + 1
    /\ wheel' = 0
    /\ UNCHANGED <<gameVars, inbox, speaker, faults>>

Working(o) == output[o].pc \notin {"none", "ended"}

\* A worker sends at least every Heartbeat + Late ticks, a receiver polls every tick.
Tick ==
    /\ \A o \in Outputs : Working(o) => output[o].idle < Heartbeat + Late
    /\ receiver.polled
    /\ output' = [o \in Outputs |-> IF Working(o) THEN [output[o] EXCEPT !.idle = @ + 1]
                                    ELSE output[o]]
    /\ receiver' = [receiver EXCEPT !.polled = ~receiver.up]
    /\ age' = IF age <= Watchdog THEN age + 1 ELSE age
    /\ UNCHANGED <<held, inbox, speaker, faults, force, wheel>>

Destroy(o) == BeginDestroy(o) \/ EndDestroy(o)

Worker(o) == Take(o) \/ SendForce(o) \/ TimeOut(o)

Next ==
    \/ OpenDevice \/ Die
    \/ \E o \in Outputs :
          \/ CloseDevice(o)
          \/ \E id \in EffectIds :
                \/ CreateEffect(o, id) \/ ReleaseEffect(o, id)
                \/ \E level \in Levels : SetParameters(o, id, level)
                \/ \E playing \in BOOLEAN : StartOrStop(o, id, playing)
          \/ \E gain \in Gains : SetDeviceGain(o, gain)
          \/ \E name \in Commands : SendCommand(o, name)
          \/ Worker(o) \/ Destroy(o)
    \/ Poll \/ StopReceiver \/ StartReceiver
    \/ Tick

Spec == Init /\ [][Next]_vars

\* Every thread that can run does: the workers, the receiver, whoever destroys an output.
FairSpec ==
    /\ Spec
    /\ \A o \in Outputs : WF_vars(Worker(o)) /\ WF_vars(Destroy(o))
    /\ WF_vars(Poll) /\ WF_vars(Tick)

-----------------------------------------------------------------------------
(* Properties. *)

\* What the game asks of the wheel: the mix of its output, nothing without one.
Intended == IF Alive = {} THEN 0 ELSE Mix(output[CHOOSE o \in Alive : TRUE])

\* What the calls of the game change.
Asked == <<held, [o \in Outputs |-> <<output[o].effects, output[o].gain, output[o].paused,
                                      output[o].actuators>>]>>

\* Once the game leaves its effects as they are the wheel pulls what they ask for, and
\* keeps to it: whatever wakeup fell between two waits of the worker, whatever datagram
\* was lost, whichever of an old output's last word and a new one's first came last, and
\* nothing once the game is dead.
WheelSettles == <>[][FALSE]_Asked => <>[](receiver.up => wheel = Intended)

\* The watchdog never takes the force of a game that lives: as long as the output that
\* sent it is referred to, its heartbeats come in time, even if some are lost.
WatchdogSparesTheLiving ==
    [][Poll /\ inbox = None /\ speaker => wheel' = wheel]_vars
=============================================================================
