----------------------------- MODULE EffectEngine -----------------------------
(***************************************************************************)
(* The endpoint of the registered DirectInput driver and the effect engine *)
(* behind it: FfbServer (src/src/ffb_server.py) accepts one connection per *)
(* game, reads their messages and sees them go; EffectEngine               *)
(* (src/src/ffb_engine.py) keeps one session per game; one pass of the     *)
(* main loop (src/src/g25_service.py) reads the clock, polls the server    *)
(* and renders the force with the clock it read before the poll.           *)
(*                                                                         *)
(* All of it runs on one thread, but the messages of several games, the    *)
(* passes and the clock interleave freely.                                 *)
(***************************************************************************)
EXTENDS EngineOps, FiniteSetsExt

CONSTANTS
    MaxClients,     \* bound: connections accepted in a behaviour
    MaxTime         \* bound: ticks in a behaviour

ASSUME BoundsAssumption == MaxClients \in Nat /\ MaxTime \in Nat

Clients == 1 .. MaxClients

VARIABLES
    up,             \* the service still polls
    live,           \* FfbServer.clients: connections accepted and not dropped
    nextClient,     \* FfbServer._next_client_id
    session,        \* EffectEngine.sessions
    now,            \* the clock
    passAt,         \* the main loop's `now`: the clock at the start of this pass
    rendered        \* what the last pass rendered, and whether it found an active effect

vars == <<up, live, nextClient, session, now, passAt, rendered>>

TypeOK ==
    /\ up \in BOOLEAN
    /\ live \subseteq Clients
    /\ nextClient \in 1 .. MaxClients + 1
    /\ session \in [Clients -> Session \cup {NoSession}]
    /\ now \in 0 .. MaxTime
    /\ passAt \in 0 .. now
    /\ rendered.active \in BOOLEAN

Init ==
    /\ up = TRUE
    /\ live = {}
    /\ nextClient = 1
    /\ session = [c \in Clients |-> NoSession]
    /\ now = 0
    /\ passAt = 0
    /\ rendered = [force |-> 0, active |-> FALSE]

-----------------------------------------------------------------------------
(* The server. *)

Accept ==
    /\ up /\ nextClient <= MaxClients
    /\ live' = live \cup {nextClient}
    /\ session' = [session EXCEPT ![nextClient] = NewSession]
    /\ nextClient' = nextClient + 1
    /\ UNCHANGED <<up, now, passAt, rendered>>

\* A complete line holding a JSON object.  Any other line but Garbage is skipped.
Receive(c, m) ==
    /\ up /\ c \in live
    /\ session' = [session EXCEPT ![c] = Handle(@, m, now)]
    /\ UNCHANGED <<up, live, nextClient, now, passAt, rendered>>

\* Mutant: the client is forgotten, its session is not.
DropForgetsEngine(c) ==
    /\ up /\ c \in live
    /\ live' = live \ {c}
    /\ UNCHANGED <<up, nextClient, session, now, passAt, rendered>>

\* End of file, a socket error, or a line that never ends.
Drop(c) ==
    /\ up /\ c \in live
    /\ live' = live \ {c}
    /\ session' = [session EXCEPT ![c] = NoSession]
    /\ UNCHANGED <<up, nextClient, now, passAt, rendered>>

\* A line holding a JSON value that is not an object: message.get raises
\* AttributeError, which neither _read nor run_service catches; the `finally` of
\* run_service closes the server, which drops every client.
Garbage(c) ==
    /\ up /\ c \in live
    /\ up' = FALSE
    /\ live' = {}
    /\ session' = [d \in Clients |-> NoSession]
    /\ UNCHANGED <<nextClient, now, passAt, rendered>>

-----------------------------------------------------------------------------
(* The main loop, and the clock. *)

\* The mix of every sounding effect, in units of DI_MAX * DI_MAX.
Contribution(s, t) ==
    s.gain * MapThenSumSet(LAMBDA id : s.effects[id].shape.level,
                           {id \in EffectIds : Sounds(s, id, t)})

Mix(t) ==
    Clamp(MapThenSumSet(LAMBDA c : Contribution(session[c], t),
                        {c \in Clients : Audible(session[c])}),
          -(DIMax * DIMax), DIMax * DIMax)

\* A pass with the wheel connected: render with the clock read before the poll, then
\* ask whether an effect is active.  Without a session the legacy proxy has the wheel.
Render ==
    /\ up
    /\ session' = [c \in Clients |-> AfterRender(session[c], passAt)]
    /\ rendered' = [force |-> Mix(passAt),
                    active |-> \E c \in Clients : HasActive(session'[c])]
    /\ passAt' = now
    /\ UNCHANGED <<up, live, nextClient, now>>

\* A pass without a wheel renders nothing.
IdlePass ==
    /\ up
    /\ passAt' = now
    /\ UNCHANGED <<up, live, nextClient, session, now, rendered>>

Tick ==
    /\ up /\ now < MaxTime
    /\ now' = now + 1
    /\ UNCHANGED <<up, live, nextClient, session, passAt, rendered>>

\* The service has ended.
Ended == ~up /\ UNCHANGED vars

Next ==
    \/ Accept
    \/ \E c \in Clients, m \in Messages : Receive(c, m)
    \/ \E c \in Clients : Drop(c) \/ Garbage(c)
    \/ Render
    \/ IdlePass
    \/ Tick
    \/ Ended

Spec == Init /\ [][Next]_vars

-----------------------------------------------------------------------------
(* Properties. *)

\* A session that says it is stopped plays nothing: render and has_active_effects skip
\* a stopped session without looking, and the next start of any effect makes it
\* audible again, so an effect left playing by stopall, reset or device would resume
\* with that unrelated start.
StoppedMeansSilent ==
    \A c \in Clients :
        session[c] # NoSession /\ session[c].stopped => \A id \in EffectIds : ~Plays(session[c], id)

\* Every session has a connection whose end will remove it.  A session without one
\* would render forever and keep the legacy proxy from ever getting the wheel, since
\* run_service tests the emptiness of engine.sessions.
SessionsBelongToClients ==
    \A c \in Clients : session[c] # NoSession => c \in live

\* A pass that renders a force also finds an active effect.  run_service renders first
\* and asks afterwards; were the answers to disagree, set_force would jump to a force
\* with the bypass that is meant for returning to neutral.
ForceMeansActive == rendered.force # 0 => rendered.active

\* The watch an effect is at time t: its position stands still at the pause while the
\* session is paused, and follows the clock otherwise.
Frozen(s) == s # NoSession /\ s.paused

Position(s, id, t) == (IF s.paused THEN s.pauseStarted ELSE t) - s.effects[id].startedAt

Watch == [shape : Shapes, count : PlayCounts, running : BOOLEAN, position : Int]

ASSUME WatchAssumption == NoEffect \notin Watch

WatchAt(s, id, t) ==
    IF s = NoSession \/ s.effects[id] = NoEffect
    THEN NoEffect
    ELSE [shape |-> s.effects[id].shape, count |-> s.effects[id].iterations,
          running |-> s.effects[id].playing,
          position |-> IF s.effects[id].playing THEN Position(s, id, t) ELSE 0]

WatchMap == [c \in Clients |-> [id \in EffectIds |-> WatchAt(session[c], id, now)]]

FrozenMap == [c \in Clients |-> Frozen(session[c])]

Watches == INSTANCE Stopwatch WITH
    Owners <- Clients, Keys <- EffectIds, None <- NoEffect,
    watch <- WatchMap, frozen <- FrozenMap

\* The engine keeps the promise of Stopwatch: across pauses, repeated downloads, solo
\* starts, late renders and the messages of other games.
KeepsTime == Watches!Spec
=============================================================================
