------------------------------ MODULE EngineOps ------------------------------
(***************************************************************************)
(* One game session of the effect engine (src/src/ffb_engine.py), as pure  *)
(* operators: a session record, and one operator per wire message that     *)
(* maps the session before the message to the session after it.            *)
(*                                                                         *)
(* Abstractions.  Time is counted in integer ticks, the clock of both      *)
(* time.monotonic() and the effects' microsecond fields.  The parameters   *)
(* of an effect that never change what it plays WHEN are one number,       *)
(* shape.level: what the effect contributes while it sounds, after its     *)
(* own gain and direction, in units of DI_MAX.  The identifiers a session  *)
(* can hold are EffectIds; one it does not hold maps to NoEffect.          *)
(***************************************************************************)
EXTENDS Integers, FiniteSets

CONSTANTS
    EffectIds,      \* effect handles a game can use
    Shapes,         \* effect definitions a game can download
    Counts,         \* iteration counts a game can ask for
    Gains,          \* device gains a game can set
    DIMax,          \* DI_MAX
    Infinite,       \* INFINITE, of a duration or of an iteration count
    NoEffect,       \* no effect under this handle
    NoSession       \* no session under this client

ASSUME IdsAssumption == EffectIds # {}
ASSUME ShapesAssumption ==
    /\ Infinite \notin Int
    /\ \A s \in Shapes :
          /\ s \in [duration : {s.duration}, delay : Nat, level : Int]
          /\ s.duration \in Nat \/ s.duration = Infinite
ASSUME CountsAssumption == \A n \in Counts : n \in Nat \/ n = Infinite
ASSUME GainAssumption == DIMax \in Nat \ {0} /\ Gains \subseteq Int

Clamp(value, low, high) ==
    IF value < low THEN low ELSE IF value > high THEN high ELSE value

-----------------------------------------------------------------------------
(* The state of an effect and of a session. *)

\* `iterations if iterations else 1`: a count of zero plays once.
AtLeastOnce(n) == IF n = 0 THEN 1 ELSE n

PlayCounts == {AtLeastOnce(n) : n \in Counts} \cup {1}

Effect == [shape : Shapes, playing : BOOLEAN, iterations : PlayCounts, startedAt : Int]

Session == [gain : 0 .. DIMax, actuators : BOOLEAN, paused : BOOLEAN, stopped : BOOLEAN,
            pauseStarted : Int, effects : [EffectIds -> Effect \cup {NoEffect}]]

ASSUME AbsenceAssumption == NoEffect \notin Effect /\ NoSession \notin Session

NoEffects == [id \in EffectIds |-> NoEffect]

NewSession == [gain |-> DIMax, actuators |-> TRUE, paused |-> FALSE, stopped |-> TRUE,
               pauseStarted |-> 0, effects |-> NoEffects]

Plays(s, id) == s.effects[id] # NoEffect /\ s.effects[id].playing

Silence(s, ids) ==
    [s EXCEPT !.effects = [id \in EffectIds |->
        IF id \in ids /\ s.effects[id] # NoEffect
        THEN [s.effects[id] EXCEPT !.playing = FALSE]
        ELSE s.effects[id]]]

-----------------------------------------------------------------------------
(* EffectEngine.handle, one operator per message. *)

BeginDevice(s) ==
    [s EXCEPT !.effects = NoEffects, !.gain = DIMax, !.actuators = TRUE,
              !.paused = FALSE, !.stopped = TRUE]

\* Mutant: the value of the message is taken as it is.
SetGainUnclamped(s, value) == [s EXCEPT !.gain = value]

SetGain(s, value) == [s EXCEPT !.gain = Clamp(value, 0, DIMax)]

\* Mutant: every download makes a new effect.
DownloadAnew(s, id, shape) ==
    [s EXCEPT !.effects[id] =
        [shape |-> shape, playing |-> FALSE, iterations |-> 1, startedAt |-> 0]]

\* A second download of a handle keeps its place: playing, iterations and start.
Download(s, id, shape) ==
    [s EXCEPT !.effects[id] =
        IF @ = NoEffect
        THEN [shape |-> shape, playing |-> FALSE, iterations |-> 1, startedAt |-> 0]
        ELSE [@ EXCEPT !.shape = shape]]

Destroy(s, id) == [s EXCEPT !.effects[id] = NoEffect]

Start(s, id, n, solo, now) ==
    IF s.effects[id] = NoEffect
    THEN s
    ELSE [Silence(s, IF solo THEN EffectIds ELSE {}) EXCEPT
              !.effects[id] = [@ EXCEPT !.playing = TRUE, !.iterations = AtLeastOnce(n),
                                        !.startedAt = now],
              !.stopped = FALSE]

\* Mutant: the actuators stay as they are.
ResetKeepsActuators(s) == [s EXCEPT !.effects = NoEffects, !.stopped = TRUE, !.paused = FALSE]

Reset(s) == [s EXCEPT !.effects = NoEffects, !.stopped = TRUE, !.paused = FALSE,
                      !.actuators = TRUE]

\* Mutant: the session is marked stopped, its effects are not.
StopAllKeepsPlaying(s) == [s EXCEPT !.stopped = TRUE, !.paused = FALSE]

StopAll(s) == [Silence(s, EffectIds) EXCEPT !.stopped = TRUE, !.paused = FALSE]

Pause(s, now) == IF s.paused THEN s ELSE [s EXCEPT !.paused = TRUE, !.pauseStarted = now]

\* Mutant: the time spent paused is not added to the start of the playing effects.
ContinueWithoutShift(s, now) == IF ~s.paused THEN s ELSE [s EXCEPT !.paused = FALSE]

Continue(s, now) ==
    IF ~s.paused
    THEN s
    ELSE [s EXCEPT
            !.paused = FALSE,
            !.effects = [id \in EffectIds |->
                IF Plays(s, id)
                THEN [s.effects[id] EXCEPT !.startedAt = @ + (now - s.pauseStarted)]
                ELSE s.effects[id]]]

Command(s, name, now) ==
    CASE name = "reset" -> Reset(s)
      [] name = "stopall" -> StopAll(s)
      [] name = "pause" -> Pause(s, now)
      [] name = "continue" -> Continue(s, now)
      [] name = "actuators_on" -> [s EXCEPT !.actuators = TRUE]
      [] name = "actuators_off" -> [s EXCEPT !.actuators = FALSE]
      [] OTHER -> s

CommandNames ==
    {"reset", "stopall", "pause", "continue", "actuators_on", "actuators_off", "other"}

\* "unusable" is any object the handler rejects after setdefault: an unknown op, a
\* missing field, a field of the wrong type.
Messages ==
         [op : {"device"}, begin : BOOLEAN]
    \cup [op : {"gain"}, value : Gains]
    \cup [op : {"effect"}, id : EffectIds, shape : Shapes, start : BOOLEAN, count : Counts]
    \cup [op : {"destroy", "stop"}, id : EffectIds]
    \cup [op : {"start"}, id : EffectIds, count : Counts, solo : BOOLEAN]
    \cup [op : {"command"}, name : CommandNames]
    \cup [op : {"unusable"}]

\* The session after message m, where s is the session the engine held, if any.
Handle(s, m, now) ==
    LET session == IF s = NoSession THEN NewSession ELSE s
    IN CASE m.op = "device" -> IF m.begin THEN BeginDevice(session) ELSE NoSession
         [] m.op = "gain" -> SetGain(session, m.value)
         [] m.op = "effect" ->
                LET loaded == Download(session, m.id, m.shape)
                IN IF m.start THEN Start(loaded, m.id, m.count, FALSE, now) ELSE loaded
         [] m.op = "destroy" -> Destroy(session, m.id)
         [] m.op = "stop" -> Silence(session, {m.id})
         [] m.op = "start" -> Start(session, m.id, m.count, m.solo, now)
         [] m.op = "command" -> Command(session, m.name, now)
         [] m.op = "unusable" -> session

-----------------------------------------------------------------------------
(* EffectEngine.render, has_active_effects and _timing, for one session. *)

Audible(s) == s # NoSession /\ s.actuators /\ ~s.paused /\ ~s.stopped

HasActive(s) == Audible(s) /\ \E id \in EffectIds : Plays(s, id)

Elapsed(e, now) == now - e.startedAt - e.shape.delay

\* _timing clears `playing` of an effect in this state.
Expired(e, now) ==
    /\ Elapsed(e, now) >= 0
    /\ \/ e.shape.duration = 0
       \/ /\ e.shape.duration # Infinite
          /\ e.iterations # Infinite
          /\ Elapsed(e, now) \div e.shape.duration >= e.iterations

\* Mutant: the last rendering of an effect forgets that it is over.
SoundsPastItsEnd(s, id, now) ==
    Audible(s) /\ Plays(s, id) /\ Elapsed(s.effects[id], now) >= 0

Sounds(s, id, now) ==
    Audible(s) /\ Plays(s, id) /\ Elapsed(s.effects[id], now) >= 0 /\ ~Expired(s.effects[id], now)

\* Mutant: the effects of a paused session are timed too.
AfterRenderAnyway(s, now) ==
    IF s = NoSession
    THEN s
    ELSE Silence(s, {id \in EffectIds : Plays(s, id) /\ Expired(s.effects[id], now)})

AfterRender(s, now) ==
    IF Audible(s)
    THEN Silence(s, {id \in EffectIds : Plays(s, id) /\ Expired(s.effects[id], now)})
    ELSE s
=============================================================================
