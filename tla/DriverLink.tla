------------------------------ MODULE DriverLink ------------------------------
(***************************************************************************)
(* A game's effect driver and its connection to the service: EffectDriver  *)
(* and Bridge (src/native/g25ff/driver.cpp) on one side, FfbServer and the *)
(* sessions of EffectEngine (src/src/ffb_server.py, ffb_engine.py) on the  *)
(* other.                                                                  *)
(*                                                                         *)
(* The driver keeps a mirror of what it told the service, answers the game *)
(* from it, and never asks the service.  Bridge connects when it has       *)
(* something to send, and connects again when a send fails; a message sent *)
(* to a service that has just gone can be lost without an error.  A call   *)
(* of the game holds state_mutex_ until its message is handed over, so the *)
(* calls are atomic; the service reads later, message by message.          *)
(*                                                                         *)
(* Time plays no part: an audible effect may end by itself at any pass.    *)
(***************************************************************************)
EXTENDS EngineOps, SequencesExt

CONSTANTS
    Commands,       \* the force feedback commands the games use
    MaxEffects,     \* effects the driver holds at most, 64
    MaxQueue,       \* bound: messages on their way in one connection
    MaxConns,       \* bound: connections in a behaviour
    MaxKills,       \* bound: times the service is stopped or killed
    MaxBreaks       \* bound: sends that fail although the service is there

ASSUME LinkAssumption ==
    /\ IsFiniteSet(EffectIds) /\ EffectIds = 1 .. Cardinality(EffectIds)
    /\ 1 \in Counts
    /\ Commands \subseteq CommandNames \ {"other"}
    /\ \A gain \in Gains : gain \in Nat /\ Clamp(gain, 0, DIMax) \in Gains
    /\ MaxEffects \in Nat \ {0}
    /\ MaxQueue \in Nat \ {0} /\ MaxConns \in Nat /\ MaxKills \in Nat /\ MaxBreaks \in Nat

Conns == 1 .. MaxConns
NoConn == 0

VARIABLES
    alive,          \* the game's process runs
    mirror,         \* the members of EffectDriver; `held` and `playing` are effects_
    link,           \* Bridge.socket_
    conn,           \* every connection: who is at its other end, what is on its way, whether it ended
    session,        \* EffectEngine.sessions
    up,             \* a service listens
    kills, breaks,  \* failures that can still happen
    told            \* the service was told everything since the device began: nothing withheld or lost

vars == <<alive, mirror, link, conn, session, up, kills, breaks, told>>

Mirror == [active : BOOLEAN, stopped : BOOLEAN, paused : BOOLEAN, actuators : BOOLEAN,
           gain : 0 .. DIMax, next : 0 .. Cardinality(EffectIds),
           held : SUBSET EffectIds, playing : SUBSET EffectIds]

TypeOK ==
    /\ alive \in BOOLEAN /\ up \in BOOLEAN /\ told \in BOOLEAN
    /\ mirror \in Mirror
    /\ link \in Conns \cup {NoConn}
    /\ \A c \in Conns :
          /\ conn[c].peer \in {"none", "backlog", "served", "gone"}
          /\ conn[c].queue \in Seq(Messages) /\ Len(conn[c].queue) <= MaxQueue
          /\ conn[c].ended \in BOOLEAN
    /\ session \in [Conns -> Session \cup {NoSession}]
    /\ kills \in 0 .. MaxKills /\ breaks \in 0 .. MaxBreaks

NewMirror == [active |-> FALSE, stopped |-> TRUE, paused |-> FALSE, actuators |-> TRUE,
              gain |-> DIMax, next |-> 0, held |-> {}, playing |-> {}]

Init ==
    /\ alive = TRUE /\ up \in BOOLEAN /\ told = FALSE
    /\ mirror = NewMirror
    /\ link = NoConn
    /\ conn = [c \in Conns |-> [peer |-> "none", queue |-> << >>, ended |-> FALSE]]
    /\ session = [c \in Conns |-> NoSession]
    /\ kills = MaxKills /\ breaks = MaxBreaks

-----------------------------------------------------------------------------
(* Bridge.send_line. *)

Unused == {c \in Conns : conn[c].peer = "none"}

\* ensure_connected after the connection `old` was closed, and send_all once more; either
\* can fail again, with `left` failures left.
Reconnect(old, m, begins, left) ==
    LET closed == [c \in Conns |-> IF c = old THEN [conn[c] EXCEPT !.ended = TRUE] ELSE conn[c]]
    IN \/ /\ up /\ Unused # {}
          /\ link' = Min(Unused)
          /\ conn' = [closed EXCEPT ![Min(Unused)] = [peer |-> "backlog", queue |-> <<m>>, ended |-> FALSE]]
          /\ told' = begins
          /\ breaks' = left
       \/ /\ ~up \/ left > 0
          /\ link' = NoConn /\ conn' = closed
          /\ told' = FALSE
          /\ breaks' = IF up THEN left - 1 ELSE left

Reached(c) == conn[c].peer \in {"backlog", "served"}

\* A send on an open socket succeeds, or fails and is tried over a new connection; when
\* the service has gone, it may also succeed without ever arriving.
SendLine(m, begins) ==
    \/ /\ link # NoConn /\ Reached(link) /\ Len(conn[link].queue) < MaxQueue
       /\ conn' = [conn EXCEPT ![link].queue = Append(@, m)]
       /\ told' = (told \/ begins)
       /\ UNCHANGED <<link, breaks>>
    \/ /\ link # NoConn /\ ~Reached(link)
       /\ told' = FALSE
       /\ UNCHANGED <<link, conn, breaks>>
    \/ /\ link # NoConn => ~Reached(link)
       /\ Reconnect(link, m, begins, breaks)
    \/ /\ link # NoConn /\ Reached(link) /\ breaks > 0
       /\ Reconnect(link, m, begins, breaks - 1)

Device(begin) == [op |-> "device", begin |-> begin]

-----------------------------------------------------------------------------
(* The calls of the game. *)

\* A call on a device that has begun, its new mirror and its message.
Call(m, new) ==
    /\ alive /\ mirror.active
    /\ mirror' = new
    /\ SendLine(m, FALSE)
    /\ UNCHANGED <<alive, session, up, kills>>

DeviceBegin ==
    /\ alive
    /\ mirror' = [NewMirror EXCEPT !.active = TRUE]
    /\ SendLine(Device(TRUE), TRUE)
    /\ UNCHANGED <<alive, session, up, kills>>

DeviceEnd ==
    Call(Device(FALSE), [mirror EXCEPT !.active = FALSE, !.held = {}, !.playing = {}])

\* Mutant: the gain is sent as it comes.
SetDeviceGainUnbounded(gain) ==
    Call([op |-> "gain", value |-> gain], [mirror EXCEPT !.gain = gain])

SetDeviceGain(gain) ==
    LET bounded == Clamp(gain, 0, DIMax)
    IN Call([op |-> "gain", value |-> bounded], [mirror EXCEPT !.gain = bounded])

Commanded(name) ==
    CASE name = "reset" -> [mirror EXCEPT !.held = {}, !.playing = {}, !.actuators = TRUE,
                                          !.paused = FALSE, !.stopped = TRUE]
      [] name = "stopall" -> [mirror EXCEPT !.playing = {}, !.paused = FALSE, !.stopped = TRUE]
      [] name = "pause" -> [mirror EXCEPT !.paused = TRUE]
      [] name = "continue" -> [mirror EXCEPT !.paused = FALSE]
      [] name = "actuators_on" -> [mirror EXCEPT !.actuators = TRUE]
      [] name = "actuators_off" -> [mirror EXCEPT !.actuators = FALSE]

SendForceFeedbackCommand(name) ==
    Call([op |-> "command", name |-> name], Commanded(name))

\* The handle a download uses: the one it was given, or the next one.
Handles ==
    mirror.held \cup
    IF Cardinality(mirror.held) < MaxEffects THEN {mirror.next + 1} \cap EffectIds ELSE {}

Allocated(id) == [mirror EXCEPT !.held = @ \cup {id}, !.next = IF id \in mirror.held THEN @ ELSE id]

DownloadEffect(id, shape, start) ==
    Call([op |-> "effect", id |-> id, shape |-> shape, start |-> start, count |-> 1],
         IF start
         THEN [Allocated(id) EXCEPT !.playing = @ \cup {id}, !.stopped = FALSE]
         ELSE Allocated(id))

\* With DIEP_NODOWNLOAD, or with type-specific parameters that are refused, the handle
\* is there and nothing is sent.
DownloadNothing(id) ==
    /\ alive /\ mirror.active
    /\ mirror' = Allocated(id)
    /\ told' = FALSE
    /\ UNCHANGED <<alive, link, conn, session, up, kills, breaks>>

\* Mutant: the service is told to stop the effect, not to forget it.
DestroyEffectStops(id) ==
    Call([op |-> "stop", id |-> id],
         [mirror EXCEPT !.held = @ \ {id}, !.playing = @ \ {id}])

DestroyEffect(id) ==
    Call([op |-> "destroy", id |-> id],
         [mirror EXCEPT !.held = @ \ {id}, !.playing = @ \ {id}])

StartEffect(id, solo) ==
    Call([op |-> "start", id |-> id, count |-> 1, solo |-> solo],
         [mirror EXCEPT !.playing = (IF solo THEN {} ELSE @) \cup {id}, !.stopped = FALSE])

StopEffect(id) ==
    Call([op |-> "stop", id |-> id], [mirror EXCEPT !.playing = @ \ {id}])

\* The process ends: without a word, or with the destructors, which end the device first
\* (DeviceEnd) and close the socket.
GameEnds ==
    /\ alive
    /\ alive' = FALSE
    /\ mirror' = NewMirror
    /\ link' = NoConn
    /\ conn' = [c \in Conns |-> IF c = link THEN [conn[c] EXCEPT !.ended = TRUE] ELSE conn[c]]
    /\ told' = FALSE
    /\ UNCHANGED <<session, up, kills, breaks>>

\* DirectInput loads the driver into the next process.
GameStarts ==
    /\ ~alive
    /\ alive' = TRUE
    /\ UNCHANGED <<mirror, link, conn, session, up, kills, breaks, told>>

Game ==
    \/ DeviceBegin \/ DeviceEnd \/ GameEnds \/ GameStarts
    \/ \E gain \in Gains : SetDeviceGain(gain)
    \/ \E name \in Commands : SendForceFeedbackCommand(name)
    \/ \E id \in Handles :
          \/ \E shape \in Shapes, start \in BOOLEAN : DownloadEffect(id, shape, start)
          \/ DownloadNothing(id)
    \/ \E id \in mirror.held :
          DestroyEffect(id) \/ StopEffect(id) \/ \E solo \in BOOLEAN : StartEffect(id, solo)

-----------------------------------------------------------------------------
(* The service. *)

Accept(c) ==
    /\ up /\ conn[c].peer = "backlog"
    /\ conn' = [conn EXCEPT ![c].peer = "served"]
    /\ session' = [session EXCEPT ![c] = NewSession]
    /\ UNCHANGED <<alive, mirror, link, up, kills, breaks, told>>

Read(c) ==
    /\ up /\ conn[c].peer = "served" /\ conn[c].queue # << >>
    /\ session' = [session EXCEPT ![c] = Handle(@, Head(conn[c].queue), 0)]
    /\ conn' = [conn EXCEPT ![c].queue = Tail(@)]
    /\ UNCHANGED <<alive, mirror, link, up, kills, breaks, told>>

\* Mutant: the end of a connection is noticed only together with a message.
ReadEndWithMessage(c) ==
    /\ up /\ conn[c].peer = "served" /\ conn[c].ended /\ conn[c].queue # << >>
    /\ conn' = [conn EXCEPT ![c].peer = "gone", ![c].queue = << >>]
    /\ session' = [session EXCEPT ![c] = NoSession]
    /\ UNCHANGED <<alive, mirror, link, up, kills, breaks, told>>

\* The end of the stream, or the error of a connection that was cut, which discards what
\* was on its way.
ReadEnd(c) ==
    /\ up /\ conn[c].peer = "served" /\ conn[c].ended
    /\ conn' = [conn EXCEPT ![c].peer = "gone", ![c].queue = << >>]
    /\ session' = [session EXCEPT ![c] = NoSession]
    /\ UNCHANGED <<alive, mirror, link, up, kills, breaks, told>>

\* A pass finds that an effect is over.
EffectEnds(c, id) ==
    /\ up /\ Audible(session[c]) /\ Plays(session[c], id)
    /\ session' = [session EXCEPT ![c] = Silence(@, {id})]
    /\ UNCHANGED <<alive, mirror, link, conn, up, kills, breaks, told>>

\* The service stops or is killed: the sockets of its process are closed.
ServiceEnds ==
    /\ up /\ kills > 0
    /\ up' = FALSE /\ kills' = kills - 1
    /\ conn' = [c \in Conns |-> IF Reached(c) THEN [conn[c] EXCEPT !.peer = "gone", !.queue = << >>] ELSE conn[c]]
    /\ session' = [c \in Conns |-> NoSession]
    /\ told' = FALSE
    /\ UNCHANGED <<alive, mirror, link, breaks>>

ServiceStarts ==
    /\ ~up
    /\ up' = TRUE
    /\ UNCHANGED <<alive, mirror, link, conn, session, kills, breaks, told>>

Serve == \E c \in Conns : Accept(c) \/ Read(c) \/ ReadEnd(c)

Next ==
    \/ Game \/ Serve \/ ServiceEnds \/ ServiceStarts
    \/ \E c \in Conns, id \in EffectIds : EffectEnds(c, id)

Spec == Init /\ [][Next]_vars

\* The main loop polls in every pass, and a poll serves every socket that has something.
FairSpec == Spec /\ \A c \in Conns : WF_vars(Accept(c)) /\ WF_vars(Read(c)) /\ WF_vars(ReadEnd(c))

-----------------------------------------------------------------------------
(* Properties. *)

\* The session s after the messages of a queue.
After(s, queue) ==
    LET after[n \in 0 .. Len(queue)] ==
            IF n = 0 THEN s ELSE Handle(after[n - 1], queue[n], 0)
    IN after[Len(queue)]

\* The session of connection c once everything on its way has been read.
Settled(c) ==
    IF ~Reached(c) THEN session[c]
    ELSE IF conn[c].ended THEN NoSession
    ELSE After(IF conn[c].peer = "backlog" THEN NewSession ELSE session[c], conn[c].queue)

Held(s) == {id \in EffectIds : s.effects[id] # NoEffect}
Playing(s) == {id \in EffectIds : Plays(s, id)}

\* Once the messages on their way are read, the service has at most one session for the
\* game, that of the driver's own connection, with no effect the driver does not hold: a
\* handle the driver gives away is free, and what the game destroyed is silent.  It
\* survives lost messages, failed sends, refused downloads and restarts of the service.
NothingUnasked ==
    \A c \in Conns :
        LET s == Settled(c)
        IN s # NoSession =>
              /\ c = link
              /\ Held(s) \subseteq mirror.held
              /\ ~s.stopped => ~mirror.stopped

\* While the service has been told everything, the driver's answers to the game are true:
\* gain, actuators, pause and stop are the service's, the effects are the same, and at
\* most an effect that has ended by itself still counts as playing.
MirrorIsTrue ==
    told /\ mirror.active =>
        LET s == Settled(link)
        IN /\ s # NoSession
           /\ s.gain = mirror.gain /\ s.actuators = mirror.actuators
           /\ s.paused = mirror.paused /\ s.stopped = mirror.stopped
           /\ Held(s) = mirror.held /\ Playing(s) \subseteq mirror.playing

\* A connection that its game has closed is forgotten: its session ends, and with it its
\* force, whatever was still on its way.
GamesAreForgotten ==
    \A c \in Conns : conn[c].ended ~> session[c] = NoSession
=============================================================================
