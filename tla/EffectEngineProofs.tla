-------------------------- MODULE EffectEngineProofs --------------------------
(***************************************************************************)
(* Machine-checked theorems about EffectEngine, for any number of clients, *)
(* effects, shapes, counts and gains and any bound on time.                *)
(***************************************************************************)
EXTENDS EffectEngine, WellFoundedInduction, FiniteSetTheorems, TLAPS

-----------------------------------------------------------------------------
(* The operators on one session. *)

\* StoppedMeansSilent, for one session.
Quiet(s) == s # NoSession /\ s.stopped => \A id \in EffectIds : ~Plays(s, id)

MaybeSession == Session \cup {NoSession}

\* An effect of the record type is neither the absent effect nor the absent session.
LEMMA EffectPresent ==
    ASSUME NEW e, e \in Effect PROVE e # NoEffect
BY AbsenceAssumption

\* Nor is a session the absent one.
LEMMA SessionPresent ==
    ASSUME NEW s, s \in Session PROVE s # NoSession
BY AbsenceAssumption

\* A new session is a session, and it is quiet.
LEMMA NewSessionOK == NewSession \in Session /\ Quiet(NewSession)
<1>1. DIMax \in 0 .. DIMax  BY GainAssumption
<1>2. NewSession \in Session  BY <1>1 DEF NewSession, NoEffects, Session
<1>3. QED  BY <1>2 DEF Quiet, NewSession, NoEffects, Plays

\* Silencing effects keeps the type, the effects that are there and their shapes, and
\* what is silenced does not play; nothing else of the session changes.
LEMMA SilenceOK ==
    ASSUME NEW s \in Session, NEW ids
    PROVE  /\ Silence(s, ids) \in Session
           /\ \A id \in EffectIds : Plays(Silence(s, ids), id) <=> Plays(s, id) /\ id \notin ids
           /\ Silence(s, ids).stopped = s.stopped
           /\ Silence(s, ids).paused = s.paused
           /\ Silence(s, ids).pauseStarted = s.pauseStarted
           /\ \A id \in EffectIds : (Silence(s, ids).effects[id] = NoEffect) <=> (s.effects[id] = NoEffect)
           /\ \A id \in EffectIds \ ids : Silence(s, ids).effects[id] = s.effects[id]
           /\ \A id \in EffectIds :
                 s.effects[id] # NoEffect => Silence(s, ids).effects[id].shape = s.effects[id].shape
<1> DEFINE effects == [id \in EffectIds |->
                IF id \in ids /\ s.effects[id] # NoEffect
                THEN [s.effects[id] EXCEPT !.playing = FALSE]
                ELSE s.effects[id]]
<1>1. ASSUME NEW id \in EffectIds
      PROVE  /\ effects[id] \in Effect \cup {NoEffect}
             /\ effects[id] = NoEffect <=> s.effects[id] = NoEffect
             /\ (effects[id] # NoEffect /\ effects[id].playing)
                   <=> (s.effects[id] # NoEffect /\ s.effects[id].playing /\ id \notin ids)
             /\ id \notin ids => effects[id] = s.effects[id]
             /\ s.effects[id] # NoEffect => effects[id].shape = s.effects[id].shape
  <2>1. s.effects[id] \in Effect \cup {NoEffect}  BY DEF Session
  <2>2. CASE id \in ids /\ s.effects[id] # NoEffect
    <3>1. effects[id] = [s.effects[id] EXCEPT !.playing = FALSE]  BY <2>2
    <3>2. /\ effects[id] \in Effect /\ effects[id].playing = FALSE
          /\ effects[id].shape = s.effects[id].shape
      BY <2>1, <2>2, <3>1 DEF Effect
    <3>3. QED  BY <2>2, <3>2, EffectPresent
  <2>3. CASE ~(id \in ids /\ s.effects[id] # NoEffect)
    <3>1. effects[id] = s.effects[id]  BY <2>3
    <3>2. QED  BY <2>1, <2>3, <3>1
  <2>4. QED  BY <2>2, <2>3
<1>2. Silence(s, ids) = [s EXCEPT !.effects = effects]  BY DEF Silence
<1>3. effects \in [EffectIds -> Effect \cup {NoEffect}]  BY <1>1
<1>4. /\ Silence(s, ids) \in Session /\ Silence(s, ids).effects = effects
      /\ Silence(s, ids).stopped = s.stopped
      /\ Silence(s, ids).paused = s.paused
      /\ Silence(s, ids).pauseStarted = s.pauseStarted
  BY <1>2, <1>3 DEF Session
<1> HIDE DEF effects
<1>5. QED  BY <1>1, <1>4 DEF Plays

\* Starting an effect keeps type and quiet: a start that finds the effect ends `stopped`.
LEMMA StartOK ==
    ASSUME NEW s \in Session, Quiet(s), NEW id \in EffectIds, NEW n \in Counts,
           NEW solo \in BOOLEAN, NEW t \in Int
    PROVE  Start(s, id, n, solo, t) \in Session /\ Quiet(Start(s, id, n, solo, t))
<1>1. CASE s.effects[id] = NoEffect
  BY <1>1 DEF Start
<1>2. CASE s.effects[id] # NoEffect
  <2> DEFINE r == Silence(s, IF solo THEN EffectIds ELSE {})
             e == [r.effects[id] EXCEPT !.playing = TRUE, !.iterations = AtLeastOnce(n), !.startedAt = t]
             u == [r EXCEPT !.effects[id] = e, !.stopped = FALSE]
  <2>1. r \in Session /\ r.effects[id] # NoEffect  BY <1>2, SilenceOK
  <2> HIDE DEF r
  <2>2. r.effects[id] \in Effect  BY <2>1 DEF Session
  <2>3. e \in Effect  BY <2>2 DEF Effect, PlayCounts
  <2> HIDE DEF e
  <2>4. u \in Session /\ u.stopped = FALSE  BY <2>1, <2>3 DEF Session
  <2>5. Start(s, id, n, solo, t) = u  BY <1>2 DEF Start, r, e
  <2> HIDE DEF u
  <2>6. QED  BY <2>4, <2>5 DEF Quiet
<1>3. QED  BY <1>1, <1>2

\* So does a download: a new effect does not play, an old one plays on as it did.
LEMMA DownloadOK ==
    ASSUME NEW s \in Session, Quiet(s), NEW id \in EffectIds, NEW shape \in Shapes
    PROVE  Download(s, id, shape) \in Session /\ Quiet(Download(s, id, shape))
<1> DEFINE e == IF s.effects[id] = NoEffect
                THEN [shape |-> shape, playing |-> FALSE, iterations |-> 1, startedAt |-> 0]
                ELSE [s.effects[id] EXCEPT !.shape = shape]
           u == [s EXCEPT !.effects[id] = e]
<1>1. e \in Effect /\ (e.playing => s.effects[id] # NoEffect /\ s.effects[id].playing)
  <2>1. CASE s.effects[id] = NoEffect
    BY <2>1 DEF Effect, PlayCounts
  <2>2. CASE s.effects[id] # NoEffect
    <3>1. s.effects[id] \in Effect  BY <2>2 DEF Session
    <3>2. QED  BY <2>2, <3>1 DEF Effect
  <2>3. QED  BY <2>1, <2>2
<1>2. Download(s, id, shape) = u  BY DEF Download
<1> HIDE DEF e
<1>3. /\ u \in Session /\ u.stopped = s.stopped
      /\ \A i \in EffectIds : u.effects[i] = IF i = id THEN e ELSE s.effects[i]
  BY <1>1 DEF Session
<1> HIDE DEF u
<1>4. Quiet(u)
  BY <1>1, <1>3, SessionPresent DEF Quiet, Plays
<1>5. QED  BY <1>2, <1>3, <1>4

\* And so does every device command.
LEMMA CommandOK ==
    ASSUME NEW s \in Session, Quiet(s), NEW name, NEW t \in Int
    PROVE  Command(s, name, t) \in Session /\ Quiet(Command(s, name, t))
<1>1. Reset(s) \in Session /\ Quiet(Reset(s))
  <2>1. /\ Reset(s) \in Session /\ Reset(s).effects = NoEffects
    BY DEF Reset, Session, NoEffects
  <2>2. QED  BY <2>1 DEF Quiet, Plays, NoEffects
<1>2. StopAll(s) \in Session /\ Quiet(StopAll(s))
  <2> DEFINE r == Silence(s, EffectIds)
  <2>1. r \in Session /\ \A id \in EffectIds : ~Plays(r, id)  BY SilenceOK
  <2>2. StopAll(s) = [r EXCEPT !.stopped = TRUE, !.paused = FALSE]  BY DEF StopAll
  <2> HIDE DEF r
  <2>3. StopAll(s) \in Session /\ StopAll(s).effects = r.effects  BY <2>1, <2>2 DEF Session
  <2>4. QED  BY <2>1, <2>3 DEF Quiet, Plays
<1>3. Pause(s, t) \in Session /\ Quiet(Pause(s, t))
  BY SessionPresent DEF Pause, Session, Quiet, Plays
<1>4. Continue(s, t) \in Session /\ Quiet(Continue(s, t))
  <2>1. CASE ~s.paused
    BY <2>1 DEF Continue
  <2>2. CASE s.paused
    <3> DEFINE effects == [id \in EffectIds |->
                  IF Plays(s, id)
                  THEN [s.effects[id] EXCEPT !.startedAt = @ + (t - s.pauseStarted)]
                  ELSE s.effects[id]]
    <3>1. ASSUME NEW id \in EffectIds
          PROVE  /\ effects[id] \in Effect \cup {NoEffect}
                 /\ (effects[id] # NoEffect /\ effects[id].playing) => Plays(s, id)
      <4>1. s.effects[id] \in Effect \cup {NoEffect} /\ s.pauseStarted \in Int  BY DEF Session
      <4>2. CASE Plays(s, id)
        <5>1. effects[id] = [s.effects[id] EXCEPT !.startedAt = @ + (t - s.pauseStarted)]  BY <4>2
        <5>2. s.effects[id] \in Effect  BY <4>1, <4>2 DEF Plays
        <5>3. effects[id] \in Effect  BY <4>1, <5>1, <5>2 DEF Effect
        <5>4. QED  BY <4>2, <5>3
      <4>3. CASE ~Plays(s, id)
        BY <4>1, <4>3 DEF Plays
      <4>4. QED  BY <4>2, <4>3
    <3>2. Continue(s, t) = [s EXCEPT !.paused = FALSE, !.effects = effects]  BY <2>2 DEF Continue
    <3>3. effects \in [EffectIds -> Effect \cup {NoEffect}]  BY <3>1
    <3>4. /\ Continue(s, t) \in Session /\ Continue(s, t).effects = effects
          /\ Continue(s, t).stopped = s.stopped
      BY <3>2, <3>3 DEF Session
    <3> HIDE DEF effects
    <3>5. QED  BY <3>1, <3>4, SessionPresent DEF Quiet, Plays
  <2>3. QED  BY <2>1, <2>2 DEF Session
<1>5. \A b \in BOOLEAN : [s EXCEPT !.actuators = b] \in Session /\ Quiet([s EXCEPT !.actuators = b])
  BY SessionPresent DEF Session, Quiet, Plays
<1>6. QED
  BY <1>1, <1>2, <1>3, <1>4, <1>5 DEF Command

\* Every message leaves a well-typed, quiet session, or none.
LEMMA HandleOK ==
    ASSUME NEW s \in MaybeSession, Quiet(s), NEW m \in Messages, NEW t \in Int
    PROVE  Handle(s, m, t) \in MaybeSession /\ Quiet(Handle(s, m, t))
<1> DEFINE held == IF s = NoSession THEN NewSession ELSE s
<1>1. held \in Session /\ Quiet(held)  BY NewSessionOK DEF MaybeSession
<1> HIDE DEF held
<1>2. CASE m \in [op : {"device"}, begin : BOOLEAN]
  <2>1. BeginDevice(held) \in Session /\ BeginDevice(held).effects = NoEffects
    BY <1>1, NewSessionOK DEF BeginDevice, Session, NewSession, NoEffects
  <2>2. Quiet(BeginDevice(held)) /\ Quiet(NoSession)  BY <2>1 DEF Quiet, Plays, NoEffects
  <2>3. Handle(s, m, t) = IF m.begin THEN BeginDevice(held) ELSE NoSession
    BY <1>2 DEF Handle, held
  <2>4. QED  BY <2>1, <2>2, <2>3 DEF MaybeSession
<1>3. CASE m \in [op : {"gain"}, value : Gains]
  <2>1. SetGain(held, m.value) \in Session /\ Quiet(SetGain(held, m.value))
    <3>0. m.value \in Int /\ DIMax \in Nat  BY <1>3, GainAssumption
    <3>1. Clamp(m.value, 0, DIMax) \in 0 .. DIMax  BY <3>0 DEF Clamp
    <3>2. QED  BY <1>1, <3>1, SessionPresent DEF SetGain, Session, Quiet, Plays
  <2>2. Handle(s, m, t) = SetGain(held, m.value)  BY <1>3 DEF Handle, held
  <2>3. QED  BY <2>1, <2>2 DEF MaybeSession
<1>4. CASE m \in [op : {"effect"}, id : EffectIds, shape : Shapes, start : BOOLEAN, count : Counts]
  <2> DEFINE loaded == Download(held, m.id, m.shape)
  <2>1. loaded \in Session /\ Quiet(loaded)  BY <1>1, <1>4, DownloadOK
  <2>2. Handle(s, m, t) = IF m.start THEN Start(loaded, m.id, m.count, FALSE, t) ELSE loaded
    BY <1>4 DEF Handle, held
  <2> HIDE DEF loaded
  <2>3. /\ Start(loaded, m.id, m.count, FALSE, t) \in Session
        /\ Quiet(Start(loaded, m.id, m.count, FALSE, t))
    BY <1>4, <2>1, StartOK
  <2>4. QED  BY <2>1, <2>2, <2>3 DEF MaybeSession
<1>5. CASE m \in [op : {"destroy", "stop"}, id : EffectIds]
  <2>1. Destroy(held, m.id) \in Session /\ Quiet(Destroy(held, m.id))
    BY <1>1, <1>5, SessionPresent DEF Destroy, Session, Quiet, Plays
  <2>2. Silence(held, {m.id}) \in Session /\ Quiet(Silence(held, {m.id}))
    BY <1>1, SilenceOK, SessionPresent DEF Quiet
  <2>3. Handle(s, m, t) = Destroy(held, m.id) \/ Handle(s, m, t) = Silence(held, {m.id})
    BY <1>5 DEF Handle, held
  <2>4. QED  BY <2>1, <2>2, <2>3 DEF MaybeSession
<1>6. CASE m \in [op : {"start"}, id : EffectIds, count : Counts, solo : BOOLEAN]
  <2>1. Handle(s, m, t) = Start(held, m.id, m.count, m.solo, t)
    BY <1>6 DEF Handle, held
  <2>2. QED  BY <1>1, <1>6, <2>1, StartOK DEF MaybeSession
<1>7. CASE m \in [op : {"command"}, name : CommandNames]
  <2>1. Handle(s, m, t) = Command(held, m.name, t)  BY <1>7 DEF Handle, held
  <2>2. QED  BY <1>1, <2>1, CommandOK DEF MaybeSession
<1>8. CASE m \in [op : {"unusable"}]
  <2>1. Handle(s, m, t) = held  BY <1>8 DEF Handle, held
  <2>2. QED  BY <1>1, <2>1 DEF MaybeSession
<1>9. QED  BY <1>2, <1>3, <1>4, <1>5, <1>6, <1>7, <1>8 DEF Messages

\* A pass leaves every held well-typed and quiet.
LEMMA AfterRenderOK ==
    ASSUME NEW s \in MaybeSession, Quiet(s), NEW t
    PROVE  AfterRender(s, t) \in MaybeSession /\ Quiet(AfterRender(s, t))
<1>1. CASE ~Audible(s)
  BY <1>1 DEF AfterRender
<1>2. CASE Audible(s)
  <2>1. s \in Session  BY <1>2 DEF Audible, MaybeSession
  <2> DEFINE ids == {id \in EffectIds : Plays(s, id) /\ Expired(s.effects[id], t)}
  <2>2. AfterRender(s, t) = Silence(s, ids)  BY <1>2 DEF AfterRender
  <2> HIDE DEF ids
  <2>3. QED  BY <2>1, <2>2, SilenceOK, SessionPresent DEF Quiet, MaybeSession
<1>3. QED  BY <1>1, <1>2

-----------------------------------------------------------------------------
(* The inductive invariant.  TypeOK and StoppedMeansSilent are inductive       *)
(* together; that a session belongs to a client needs that an identifier not   *)
(* yet handed out has none, which the conjunct itself says.                    *)

EngineInv == TypeOK /\ StoppedMeansSilent /\ SessionsBelongToClients

\* The service starts with neither clients nor sessions.
LEMMA InitInv == Init => EngineInv
<1> SUFFICES ASSUME Init PROVE EngineInv
  OBVIOUS
<1>1. TypeOK  BY BoundsAssumption DEF Init, TypeOK
<1>2. StoppedMeansSilent /\ SessionsBelongToClients
  BY DEF Init, StoppedMeansSilent, SessionsBelongToClients
<1>3. QED  BY <1>1, <1>2 DEF EngineInv

\* Every step of the endpoint, of the main loop and of the clock keeps the invariant.
LEMMA NextInv == EngineInv /\ [Next]_vars => EngineInv'
<1> SUFFICES ASSUME EngineInv, [Next]_vars PROVE EngineInv'
  OBVIOUS
<1> USE DEF EngineInv
<1>0. \A c \in Clients : Quiet(session[c]) /\ session[c] \in MaybeSession
  BY DEF StoppedMeansSilent, Quiet, TypeOK, MaybeSession
<1>1. ASSUME \A c \in Clients : /\ Quiet(session'[c]) /\ session'[c] \in MaybeSession
                                /\ session'[c] # NoSession => c \in live',
             session' \in [Clients -> MaybeSession]
      PROVE  /\ StoppedMeansSilent' /\ SessionsBelongToClients'
             /\ session' \in [Clients -> Session \cup {NoSession}]
  BY <1>1 DEF StoppedMeansSilent, SessionsBelongToClients, Quiet, Plays, MaybeSession
<1>2. CASE Accept
  <2>1. nextClient \in Clients  BY <1>2, BoundsAssumption DEF Accept, Clients, TypeOK
  <2>2. \A c \in Clients : session'[c] = IF c = nextClient THEN NewSession ELSE session[c]
    BY <1>2 DEF Accept, TypeOK
  <2>3. session' \in [Clients -> MaybeSession]
    BY <1>2, <2>1, NewSessionOK DEF Accept, TypeOK, MaybeSession
  <2>4. StoppedMeansSilent' /\ SessionsBelongToClients'
    BY <1>0, <1>1, <1>2, <2>2, <2>3, NewSessionOK DEF Accept, SessionsBelongToClients
  <2>5. TypeOK'
    BY <1>2, <2>1, <2>3, BoundsAssumption DEF Accept, TypeOK, MaybeSession, Clients
  <2>6. QED  BY <2>4, <2>5
<1>3. ASSUME NEW c \in Clients, NEW m \in Messages, Receive(c, m)
      PROVE  EngineInv'
  <2>1. now \in Int  BY DEF TypeOK
  <2>2. Handle(session[c], m, now) \in MaybeSession /\ Quiet(Handle(session[c], m, now))
    BY <1>0, <2>1, HandleOK
  <2>3. \A d \in Clients : session'[d] = IF d = c THEN Handle(session[c], m, now) ELSE session[d]
    BY <1>3 DEF Receive, TypeOK
  <2>4. session' \in [Clients -> MaybeSession]
    BY <1>3, <2>2 DEF Receive, TypeOK, MaybeSession
  <2>5. StoppedMeansSilent' /\ SessionsBelongToClients'
    BY <1>0, <1>1, <1>3, <2>2, <2>3, <2>4 DEF Receive, SessionsBelongToClients
  <2>6. TypeOK'  BY <1>3, <2>4 DEF Receive, TypeOK, MaybeSession
  <2>7. QED  BY <2>5, <2>6
<1>4. ASSUME NEW c \in Clients, Drop(c)
      PROVE  EngineInv'
  <2>1. \A d \in Clients : session'[d] = IF d = c THEN NoSession ELSE session[d]
    BY <1>4 DEF Drop, TypeOK
  <2>2. session' \in [Clients -> MaybeSession]
    BY <1>4 DEF Drop, TypeOK, MaybeSession
  <2>3. StoppedMeansSilent' /\ SessionsBelongToClients'
    BY <1>0, <1>1, <1>4, <2>1, <2>2 DEF Drop, SessionsBelongToClients, Quiet
  <2>4. TypeOK'  BY <1>4, <2>2 DEF Drop, TypeOK, MaybeSession
  <2>5. QED  BY <2>3, <2>4
<1>5. ASSUME NEW c \in Clients, Garbage(c)
      PROVE  EngineInv'
  BY <1>5 DEF Garbage, TypeOK, StoppedMeansSilent, SessionsBelongToClients
<1>6. CASE Render
  <2>1. \A c \in Clients : /\ session'[c] = AfterRender(session[c], passAt)
                           /\ session'[c] \in MaybeSession /\ Quiet(session'[c])
    BY <1>0, <1>6, AfterRenderOK DEF Render
  <2>2. \A c \in Clients : session[c] = NoSession => session'[c] = NoSession
    BY <2>1 DEF AfterRender, Audible
  <2>3. session' \in [Clients -> MaybeSession]
    BY <1>6, <2>1 DEF Render
  <2>4. StoppedMeansSilent' /\ SessionsBelongToClients'
    BY <1>1, <1>6, <2>1, <2>2, <2>3 DEF Render, SessionsBelongToClients
  <2>5. TypeOK'
    <3>1. rendered'.active \in BOOLEAN  BY <1>6 DEF Render
    <3>2. passAt' \in 0 .. now'  BY <1>6 DEF Render, TypeOK
    <3>3. QED  BY <1>6, <2>3, <3>1, <3>2 DEF Render, TypeOK, MaybeSession
  <2>6. QED  BY <2>4, <2>5
<1>7. CASE IdlePass \/ Tick
  <2>1. TypeOK'  BY <1>7, BoundsAssumption DEF IdlePass, Tick, TypeOK
  <2>2. session' = session /\ live' = live  BY <1>7 DEF IdlePass, Tick
  <2>3. QED  BY <2>1, <2>2 DEF StoppedMeansSilent, SessionsBelongToClients
<1>8. CASE Ended \/ UNCHANGED vars
  BY <1>8 DEF Ended, vars, TypeOK, StoppedMeansSilent, SessionsBelongToClients
<1>9. QED  BY <1>2, <1>3, <1>4, <1>5, <1>6, <1>7, <1>8 DEF Next

\* The inductive invariant holds in every reachable state.
THEOREM EngineInvariance == Spec => []EngineInv
BY InitInv, NextInv, PTL DEF Spec

\* The state always has its type (EffectEngine!TypeOK).
THEOREM TypeCorrect == Spec => []TypeOK
BY EngineInvariance, PTL DEF EngineInv

\* A stopped session never plays an effect, whatever its game sends and whenever the
\* passes come (EffectEngine!StoppedMeansSilent).
THEOREM StoppedSessionsAreSilent == Spec => []StoppedMeansSilent
BY EngineInvariance, PTL DEF EngineInv

\* A game that has gone leaves no session behind
\* (EffectEngine!SessionsBelongToClients).
THEOREM NoSessionOutlivesItsClient == Spec => []SessionsBelongToClients
BY EngineInvariance, PTL DEF EngineInv

-----------------------------------------------------------------------------
(* What is rendered is a sum, over the games and over the effects of each. *)

\* Every set of naturals that is not empty has a least element.
LEMMA Least ==
    ASSUME NEW T, T \subseteq Nat, T # {}
    PROVE  \E n \in T : \A m \in T : n <= m
<1> DEFINE R == OpToRel(<, Nat)
<1>1. IsWellFoundedOn(R, Nat)  BY NatLessThanWellFounded
<1> HIDE DEF R
<1>2. PICK n \in T : \A m \in T : ~(<<m, n>> \in R)  BY <1>1, WFMin
<1>3. ASSUME NEW m \in T PROVE n <= m
  <2>1. m < n => <<m, n>> \in R  BY DEF R, OpToRel
  <2>2. QED  BY <2>1, <1>2
<1>4. QED  BY <1>3

First(T) == CHOOSE x \in T : TRUE

\* Partial sums that add nothing but zeros are zero: there is no smallest one that is not.
LEMMA SumOfZeros ==
    ASSUME NEW S, IsFiniteSet(S), NEW f,
           \A T \in SUBSET S : f[T] = IF T = {} THEN 0 ELSE 0 + f[T \ {First(T)}]
    PROVE  f[S] = 0
<1> DEFINE Bad == {n \in Nat : \E T \in SUBSET S : Cardinality(T) = n /\ f[T] # 0}
<1>1. ASSUME Bad # {} PROVE FALSE
  <2>1. Bad \subseteq Nat  OBVIOUS
  <2>2. PICK n \in Bad : \A m \in Bad : n <= m
    <3> HIDE DEF Bad
    <3>1. QED  BY <2>1, <1>1, Least
  <2>3. PICK T \in SUBSET S : Cardinality(T) = n /\ f[T] # 0  BY <2>2
  <2>4. T # {} /\ f[T] = 0 + f[T \ {First(T)}]  BY <2>3
  <2> DEFINE U == T \ {First(T)}
  <2>5. U \in SUBSET S /\ Cardinality(U) = n - 1 /\ n - 1 \in Nat
    <3>1. First(T) \in T  BY <2>4 DEF First
    <3>2. IsFiniteSet(T) /\ n \in Nat  BY <2>1, <2>2, FS_Subset
    <3>3. n # 0  BY <2>3, <2>4, <3>2, FS_EmptySet
    <3>4. Cardinality(U) = n - 1  BY <2>3, <3>1, <3>2, FS_RemoveElement
    <3>5. QED  BY <3>2, <3>3, <3>4
  <2>6. f[T] = 0 + f[U]  BY <2>4
  <2> HIDE DEF U
  <2>7. f[U] # 0  BY <2>3, <2>6
  <2>8. n - 1 \in Bad  BY <2>5, <2>7
  <2>9. QED  BY <2>1, <2>2, <2>5, <2>8
<1>2. Cardinality(S) \in Nat  BY FS_CardinalityType
<1>3. QED  BY <1>1, <1>2

\* A session none of whose effects sounds contributes nothing.
LEMMA SilentContribution ==
    ASSUME NEW s \in Session, NEW t, \A id \in EffectIds : ~Sounds(s, id, t)
    PROVE  Contribution(s, t) = 0
<1> DEFINE level(id) == s.effects[id].shape.level
           iter == CHOOSE iter : iter = [T \in SUBSET {} |->
                      IF T = {} THEN 0 ELSE level(First(T)) + iter[T \ {First(T)}]]
<1>1. {id \in EffectIds : Sounds(s, id, t)} = {}  OBVIOUS
<1>2. Contribution(s, t) = s.gain * MapThenSumSet(LAMBDA id : level(id), {})
  BY <1>1 DEF Contribution
<1>3. MapThenSumSet(LAMBDA id : level(id), {}) = iter[{}]
  BY DEF MapThenSumSet, MapThenFoldSet, First
<1> HIDE DEF level
<1>4. [T \in SUBSET {} |-> 0] = [T \in SUBSET {} |->
          IF T = {} THEN 0 ELSE level(First(T)) + [U \in SUBSET {} |-> 0][T \ {First(T)}]]
  OBVIOUS
<1>5. iter = [T \in SUBSET {} |-> IF T = {} THEN 0 ELSE level(First(T)) + iter[T \ {First(T)}]]
  BY <1>4
<1> HIDE DEF iter
<1>6. iter[{}] = 0  BY <1>5
<1>7. s.gain \in Int  BY DEF Session
<1>8. QED  BY <1>2, <1>3, <1>6, <1>7

\* So a mix that is not zero has an effect that sounds.
LEMMA MixIsHeard ==
    ASSUME TypeOK, NEW t, Mix(t) # 0
    PROVE  \E c \in Clients : session[c] \in Session /\ \E id \in EffectIds : Sounds(session[c], id, t)
<1> SUFFICES ASSUME \A c \in Clients : session[c] \in Session =>
                        \A id \in EffectIds : ~Sounds(session[c], id, t)
             PROVE  FALSE
  OBVIOUS
<1> DEFINE S == {c \in Clients : Audible(session[c])}
           part(c) == Contribution(session[c], t)
           sum == MapThenSumSet(LAMBDA c : part(c), S)
           iter == CHOOSE iter : iter = [T \in SUBSET S |->
                      IF T = {} THEN 0 ELSE part(First(T)) + iter[T \ {First(T)}]]
<1>1. \A c \in S : part(c) = 0
  <2>1. \A c \in S : session[c] \in Session  BY DEF TypeOK, Audible
  <2>2. QED  BY <2>1, SilentContribution
<1>2. IsFiniteSet(S)
  <2>1. S \in SUBSET Clients  OBVIOUS
  <2>2. IsFiniteSet(Clients)  BY FS_Interval, BoundsAssumption DEF Clients
  <2>3. QED  BY <2>1, <2>2, FS_Subset
<1>3. sum = iter[S]
  BY DEF MapThenSumSet, MapThenFoldSet, First
<1>4. Mix(t) = Clamp(sum, -(DIMax * DIMax), DIMax * DIMax)
  BY DEF Mix
<1>5. \A T \in SUBSET S : T # {} => part(First(T)) = 0
  <2>1. \A T \in SUBSET S : T # {} => First(T) \in S  BY DEF First
  <2> HIDE DEF S, part
  <2>2. QED  BY <1>1, <2>1
<1> HIDE DEF S, part, sum
<1>6. [T \in SUBSET S |-> 0] = [T \in SUBSET S |->
          IF T = {} THEN 0 ELSE part(First(T)) + [U \in SUBSET S |-> 0][T \ {First(T)}]]
  BY <1>5
<1>7. iter = [T \in SUBSET S |-> IF T = {} THEN 0 ELSE part(First(T)) + iter[T \ {First(T)}]]
  BY <1>6
<1> HIDE DEF iter
<1>8. \A T \in SUBSET S : iter[T] = IF T = {} THEN 0 ELSE 0 + iter[T \ {First(T)}]
  BY <1>5, <1>7
<1>9. sum = 0  BY <1>2, <1>3, <1>8, SumOfZeros
<1>10. DIMax * DIMax \in Nat  BY GainAssumption
<1>11. Clamp(0, -(DIMax * DIMax), DIMax * DIMax) = 0  BY <1>10 DEF Clamp
<1>12. QED  BY <1>4, <1>9, <1>11

\* A session with an effect that sounds is active after the pass, too: rendering silences
\* only what has ended.
LEMMA HeardIsActive ==
    ASSUME NEW s \in Session, NEW t, NEW id \in EffectIds, Sounds(s, id, t)
    PROVE  HasActive(AfterRender(s, t))
<1> DEFINE ended == {i \in EffectIds : Plays(s, i) /\ Expired(s.effects[i], t)}
           r == Silence(s, ended)
<1>1. AfterRender(s, t) = r  BY DEF AfterRender, Sounds
<1>2. Audible(s) /\ Plays(s, id) /\ id \notin ended  BY DEF Sounds
<1> HIDE DEF ended
<1>3. /\ r \in Session /\ r.stopped = s.stopped /\ r.paused = s.paused
      /\ Plays(r, id) <=> Plays(s, id) /\ id \notin ended
  BY SilenceOK
<1>4. r.actuators = s.actuators  BY DEF Silence, Session
<1> HIDE DEF r
<1>5. QED  BY <1>1, <1>2, <1>3, <1>4, SessionPresent DEF HasActive, Audible

\* No pass renders a force without finding an active effect, whatever cancels, ends or
\* pauses in between (EffectEngine!ForceMeansActive).
THEOREM NoForceWithoutAnEffect == Spec => []ForceMeansActive
<1>1. Init => ForceMeansActive  BY DEF Init, ForceMeansActive
<1>2. EngineInv /\ ForceMeansActive /\ [Next]_vars => ForceMeansActive'
  <2> SUFFICES ASSUME EngineInv, ForceMeansActive, [Next]_vars PROVE ForceMeansActive'
    OBVIOUS
  <2>1. CASE Render
    <3>1. /\ session' = [c \in Clients |-> AfterRender(session[c], passAt)]
          /\ rendered' = [force |-> Mix(passAt),
                          active |-> \E c \in Clients : HasActive(session'[c])]
      BY <2>1 DEF Render
    <3>2. rendered'.force = Mix(passAt) /\ rendered'.active = \E c \in Clients : HasActive(session'[c])
      BY <3>1
    <3>3. ASSUME Mix(passAt) # 0 PROVE \E c \in Clients : HasActive(session'[c])
      BY <3>1, <3>3, MixIsHeard, HeardIsActive DEF EngineInv
    <3>4. QED  BY <3>2, <3>3 DEF ForceMeansActive
  <2>2. CASE UNCHANGED rendered
    BY <2>2 DEF ForceMeansActive
  <2>3. QED
    BY <2>1, <2>2 DEF Next, vars, Accept, Receive, Drop, Garbage, IdlePass, Tick, Ended
<1>3. QED  BY <1>1, <1>2, EngineInvariance, PTL DEF Spec

-----------------------------------------------------------------------------
(* The engine implements Stopwatch. *)

\* Playing n whole cycles of length d takes at least d * n.
LEMMA WholeCycles ==
    ASSUME NEW a \in Nat, NEW d \in Nat \ {0}, NEW n \in Int, a \div d >= n
    PROVE  a >= d * n
<1> DEFINE q == a \div d
<1>1. q \in Int /\ a = d * q + (a % d) /\ a % d >= 0
  OBVIOUS
<1>2. d * q >= d * n
  <2> HIDE DEF q
  <2>1. q - n \in Nat  BY <1>1
  <2>2. d * (q - n) >= 0  BY <2>1
  <2>3. d * (q - n) = d * q - d * n  BY <1>1
  <2>4. QED  BY <1>1, <2>2, <2>3
<1>3. d * n \in Int /\ d * q \in Int  BY <1>1
<1> HIDE DEF q
<1>4. QED  BY <1>1, <1>2, <1>3

\* What an operation may do to one watch: Stopwatch!Operate for one key, where w and v
\* are the watch before and after it and f says whether the owner was frozen.
Allowed(w, v, f) ==
    \/ v = NoEffect
    \/ v # NoEffect /\ ~v.running /\ (w # NoEffect /\ w.running => v.shape = w.shape)
    \/ /\ w # NoEffect /\ w.running /\ v # NoEffect /\ v.running
       /\ v.count = w.count /\ v.position = w.position
    \/ /\ v # NoEffect /\ v.running
       /\ v.position = 0 \/ (f /\ v.position < 0)

\* A pause began in the past.
Sane(s, t) == Frozen(s) => s.pauseStarted <= t

\* The watch of an effect that is there, and that it is not the absent one.
LEMMA WatchPresent ==
    ASSUME NEW s \in Session, NEW id \in EffectIds, NEW t \in Int, s.effects[id] # NoEffect
    PROVE  /\ WatchAt(s, id, t) = [shape |-> s.effects[id].shape, count |-> s.effects[id].iterations,
                                   running |-> s.effects[id].playing,
                                   position |-> IF s.effects[id].playing THEN Position(s, id, t) ELSE 0]
           /\ WatchAt(s, id, t) # NoEffect
           /\ Position(s, id, t) = (IF s.paused THEN s.pauseStarted ELSE t) - s.effects[id].startedAt
           /\ s.effects[id] \in Effect
<1>1. s.effects[id] \in Effect  BY DEF Session
<1>2. Position(s, id, t) \in Int  BY <1>1 DEF Position, Session, Effect
<1>3. WatchAt(s, id, t) = [shape |-> s.effects[id].shape, count |-> s.effects[id].iterations,
                           running |-> s.effects[id].playing,
                           position |-> IF s.effects[id].playing THEN Position(s, id, t) ELSE 0]
  BY SessionPresent DEF WatchAt
<1>4. WatchAt(s, id, t) \in Watch  BY <1>1, <1>2, <1>3 DEF Watch, Effect
<1>5. QED  BY <1>1, <1>3, <1>4, WatchAssumption DEF Position

\* An effect that does not play after an operation is allowed, if it was not a new shape
\* that stopped it.
LEMMA SilentAllowed ==
    ASSUME NEW s \in Session, NEW r \in Session, NEW id \in EffectIds, NEW t \in Int,
           NEW f \in BOOLEAN, ~Plays(r, id),
           Plays(s, id) /\ r.effects[id] # NoEffect => r.effects[id].shape = s.effects[id].shape
    PROVE  Allowed(WatchAt(s, id, t), WatchAt(r, id, t), f)
<1>1. CASE r.effects[id] = NoEffect
  BY <1>1 DEF WatchAt, Allowed
<1>2. CASE r.effects[id] # NoEffect
  <2>1. /\ WatchAt(r, id, t) # NoEffect /\ ~WatchAt(r, id, t).running
        /\ WatchAt(r, id, t).shape = r.effects[id].shape
    BY <1>2, WatchPresent DEF Plays
  <2>2. WatchAt(s, id, t) # NoEffect /\ WatchAt(s, id, t).running =>
           Plays(s, id) /\ WatchAt(s, id, t).shape = s.effects[id].shape
    <3>1. CASE s.effects[id] = NoEffect
      BY <3>1 DEF WatchAt
    <3>2. CASE s.effects[id] # NoEffect
      BY <3>2, WatchPresent DEF Plays
    <3>3. QED  BY <3>1, <3>2
  <2>3. QED  BY <1>2, <2>1, <2>2 DEF Allowed
<1>3. QED  BY <1>1, <1>2

\* An effect that played before and plays on with its count at its position is allowed,
\* whatever its shape.
LEMMA KeptAllowed ==
    ASSUME NEW s \in Session, NEW r \in Session, NEW id \in EffectIds, NEW t \in Int, NEW f \in BOOLEAN,
           Plays(s, id), Plays(r, id), r.effects[id].iterations = s.effects[id].iterations,
           Position(r, id, t) = Position(s, id, t)
    PROVE  Allowed(WatchAt(s, id, t), WatchAt(r, id, t), f)
<1>1. s.effects[id] # NoEffect /\ r.effects[id] # NoEffect  BY DEF Plays
<1>2. s.effects[id] \in Effect /\ r.effects[id] \in Effect  BY <1>1 DEF Session
<1>3. s.effects[id].playing = TRUE /\ r.effects[id].playing = TRUE  BY <1>2 DEF Plays, Effect
<1>4. /\ WatchAt(s, id, t) # NoEffect
      /\ WatchAt(s, id, t) = [shape |-> s.effects[id].shape, count |-> s.effects[id].iterations,
                              running |-> TRUE, position |-> Position(s, id, t)]
  BY <1>1, <1>3, WatchPresent
<1>5. /\ WatchAt(r, id, t) # NoEffect
      /\ WatchAt(r, id, t) = [shape |-> r.effects[id].shape, count |-> r.effects[id].iterations,
                              running |-> TRUE, position |-> Position(r, id, t)]
  BY <1>1, <1>3, WatchPresent
<1>6. QED  BY <1>4, <1>5 DEF Allowed

\* So is one that was started at t, unless the session is paused: then it is behind.
LEMMA StartedAllowed ==
    ASSUME NEW r \in Session, NEW id \in EffectIds, NEW t \in Int, NEW w, NEW f \in BOOLEAN,
           Plays(r, id), r.effects[id].startedAt = t,
           r.paused => f /\ r.pauseStarted <= t
    PROVE  Allowed(w, WatchAt(r, id, t), f)
<1>1. r.effects[id] # NoEffect  BY DEF Plays
<1>2. r.effects[id] \in Effect /\ r.pauseStarted \in Int  BY <1>1 DEF Session
<1>3. r.effects[id].playing = TRUE  BY <1>2 DEF Plays, Effect
<1>4. /\ WatchAt(r, id, t) # NoEffect
      /\ WatchAt(r, id, t) = [shape |-> r.effects[id].shape, count |-> r.effects[id].iterations,
                              running |-> TRUE, position |-> Position(r, id, t)]
      /\ Position(r, id, t) = (IF r.paused THEN r.pauseStarted ELSE t) - r.effects[id].startedAt
  BY <1>1, <1>3, WatchPresent
<1>5. Position(r, id, t) = 0 \/ (f /\ Position(r, id, t) < 0)  BY <1>2, <1>4
<1>6. QED  BY <1>4, <1>5 DEF Allowed

\* What an operation at time t that leads from session s to session r may do to an
\* effect: silence it as it is, let it play on where it was, or start it now.
Step(s, r, id, t) ==
    \/ /\ ~Plays(r, id)
       /\ Plays(s, id) /\ r.effects[id] # NoEffect => r.effects[id].shape = s.effects[id].shape
    \/ /\ Plays(s, id) /\ Plays(r, id)
       /\ r.effects[id].iterations = s.effects[id].iterations
       /\ Position(r, id, t) = Position(s, id, t)
    \/ /\ Plays(r, id) /\ r.effects[id].startedAt = t
       /\ r.paused => s.paused /\ r.pauseStarted <= t

\* Stopwatch allows whatever is a Step: to each of its cases belongs one of the lemmas above.
LEMMA StepAllowed ==
    ASSUME NEW s \in Session, NEW r \in Session, NEW id \in EffectIds, NEW t \in Int,
           Step(s, r, id, t)
    PROVE  Allowed(WatchAt(s, id, t), WatchAt(r, id, t), Frozen(s))
<1>1. Frozen(s) = s.paused /\ s.paused \in BOOLEAN  BY SessionPresent DEF Frozen, Session
<1>2. QED  BY <1>1, SilentAllowed, KeptAllowed, StartedAllowed DEF Step

\* Nothing happened to the effect, or it was silenced.
LEMMA SameStep ==
    ASSUME NEW s \in Session, NEW r \in Session, NEW id \in EffectIds, NEW t,
           Plays(r, id) => /\ Plays(s, id) /\ r.effects[id].iterations = s.effects[id].iterations
                           /\ r.effects[id].startedAt = s.effects[id].startedAt,
           ~Plays(r, id) /\ Plays(s, id) /\ r.effects[id] # NoEffect =>
               r.effects[id].shape = s.effects[id].shape,
           r.paused = s.paused, r.paused => r.pauseStarted = s.pauseStarted
    PROVE  Step(s, r, id, t)
BY DEF Step, Position

\* A start restarts its effect, silences the others if it is solo, and leaves the rest.
LEMMA StartStep ==
    ASSUME NEW s \in Session, NEW t \in Int, Sane(s, t), NEW id \in EffectIds, NEW n \in Counts,
           NEW solo \in BOOLEAN, NEW i \in EffectIds
    PROVE  /\ Step(s, Start(s, id, n, solo, t), i, t) /\ Sane(Start(s, id, n, solo, t), t)
           /\ s.effects[id] # NoEffect => Plays(Start(s, id, n, solo, t), id)
<1>1. CASE s.effects[id] = NoEffect
  BY <1>1, SameStep DEF Start
<1>2. CASE s.effects[id] # NoEffect
  <2> DEFINE ids == IF solo THEN EffectIds ELSE {}
             q == Silence(s, ids)
             e == [q.effects[id] EXCEPT !.playing = TRUE, !.iterations = AtLeastOnce(n), !.startedAt = t]
             r == [q EXCEPT !.effects[id] = e, !.stopped = FALSE]
  <2>1. /\ q \in Session /\ q.effects[id] # NoEffect
        /\ q.paused = s.paused /\ q.pauseStarted = s.pauseStarted
        /\ Plays(q, i) => Plays(s, i) /\ q.effects[i] = s.effects[i]
        /\ s.effects[i] # NoEffect => q.effects[i].shape = s.effects[i].shape
    BY <1>2, SilenceOK
  <2> HIDE DEF q
  <2>2. q.effects[id] \in Effect  BY <2>1 DEF Session
  <2>3. e \in Effect /\ e.playing /\ e.startedAt = t  BY <2>2 DEF Effect, PlayCounts
  <2>4. e # NoEffect  BY <2>3, EffectPresent
  <2> HIDE DEF e
  <2>5. /\ r \in Session /\ r.paused = s.paused /\ r.pauseStarted = s.pauseStarted
        /\ r.effects[i] = IF i = id THEN e ELSE q.effects[i]
        /\ r.effects[id] = e
    BY <2>1, <2>3 DEF Session
  <2>6. Start(s, id, n, solo, t) = r  BY <1>2 DEF Start, r, e, q
  <2> HIDE DEF r
  <2>7. s.paused => s.pauseStarted <= t  BY SessionPresent DEF Sane, Frozen
  <2>8. Sane(r, t)  BY <2>5, <2>7 DEF Sane, Frozen
  <2>9. CASE i = id
    BY <2>3, <2>4, <2>5, <2>6, <2>7, <2>8, <2>9 DEF Step, Plays
  <2>10. CASE i # id
    <3>1. /\ Plays(r, i) => Plays(s, i) /\ r.effects[i] = s.effects[i]
          /\ Plays(s, i) => r.effects[i].shape = s.effects[i].shape
      BY <2>1, <2>5, <2>10 DEF Plays
    <3>2. Step(s, r, i, t)  BY <2>5, <3>1, SameStep
    <3>3. Plays(r, id)  BY <2>3, <2>4, <2>5 DEF Plays
    <3>4. QED  BY <2>6, <2>8, <3>2, <3>3
  <2>11. QED  BY <2>9, <2>10
<1>3. QED  BY <1>1, <1>2

\* A download gives an effect a new shape and leaves it where it was.
LEMMA DownloadStep ==
    ASSUME NEW s \in Session, NEW t \in Int, Sane(s, t), NEW id \in EffectIds,
           NEW shape \in Shapes, NEW i \in EffectIds
    PROVE  /\ Step(s, Download(s, id, shape), i, t) /\ Sane(Download(s, id, shape), t)
           /\ Download(s, id, shape) \in Session
           /\ Download(s, id, shape).paused = s.paused
           /\ IF i = id THEN Download(s, id, shape).effects[i] # NoEffect
                        ELSE Download(s, id, shape).effects[i] = s.effects[i]
           /\ Plays(Download(s, id, shape), i) =>
                 /\ Plays(s, i)
                 /\ Download(s, id, shape).effects[i].iterations = s.effects[i].iterations
                 /\ Position(Download(s, id, shape), i, t) = Position(s, i, t)
<1> DEFINE e == IF s.effects[id] = NoEffect
                THEN [shape |-> shape, playing |-> FALSE, iterations |-> 1, startedAt |-> 0]
                ELSE [s.effects[id] EXCEPT !.shape = shape]
           r == [s EXCEPT !.effects[id] = e]
<1>1. /\ e \in Effect
      /\ e.playing => /\ s.effects[id] # NoEffect /\ s.effects[id].playing
                      /\ e.iterations = s.effects[id].iterations
                      /\ e.startedAt = s.effects[id].startedAt
      /\ s.effects[id] # NoEffect => e.playing = s.effects[id].playing
  <2>1. CASE s.effects[id] = NoEffect
    BY <2>1 DEF Effect, PlayCounts
  <2>2. CASE s.effects[id] # NoEffect
    <3>1. s.effects[id] \in Effect  BY <2>2 DEF Session
    <3>2. QED  BY <2>2, <3>1 DEF Effect
  <2>3. QED  BY <2>1, <2>2
<1>2. Download(s, id, shape) = r  BY DEF Download
<1> HIDE DEF e
<1>3. /\ r \in Session /\ r.paused = s.paused /\ r.pauseStarted = s.pauseStarted
      /\ r.effects[i] = IF i = id THEN e ELSE s.effects[i]
  BY <1>1 DEF Session
<1> HIDE DEF r
<1>4. Plays(r, i) => /\ Plays(s, i) /\ r.effects[i].iterations = s.effects[i].iterations
                     /\ r.effects[i].startedAt = s.effects[i].startedAt
  BY <1>1, <1>3 DEF Plays
<1>5. Step(s, r, i, t)
  <2>1. ~Plays(r, i) /\ Plays(s, i) /\ r.effects[i] # NoEffect =>
           r.effects[i].shape = s.effects[i].shape
    BY <1>1, <1>3 DEF Plays
  <2>2. QED  BY <1>3, <1>4, <2>1, SameStep
<1>6. Sane(r, t)  BY <1>3, SessionPresent DEF Sane, Frozen
<1>7. e # NoEffect  BY <1>1, EffectPresent
<1>8. QED  BY <1>2, <1>3, <1>4, <1>5, <1>6, <1>7 DEF Position

\* A device command silences, or moves nothing: continue pays back exactly the pause.
LEMMA CommandStep ==
    ASSUME NEW s \in Session, NEW t \in Int, Sane(s, t), NEW name, NEW i \in EffectIds
    PROVE  Step(s, Command(s, name, t), i, t) /\ Sane(Command(s, name, t), t)
<1>1. Step(s, Reset(s), i, t) /\ Sane(Reset(s), t)
  <2>1. Reset(s).effects = NoEffects /\ Reset(s).paused = FALSE
    BY DEF Reset, Session
  <2>2. QED  BY <2>1 DEF Step, Plays, NoEffects, Sane, Frozen
<1>2. Step(s, StopAll(s), i, t) /\ Sane(StopAll(s), t)
  <2> DEFINE q == Silence(s, EffectIds)
  <2>1. /\ q \in Session /\ ~Plays(q, i)
        /\ s.effects[i] # NoEffect => q.effects[i].shape = s.effects[i].shape
    BY SilenceOK
  <2>2. StopAll(s) = [q EXCEPT !.stopped = TRUE, !.paused = FALSE]  BY DEF StopAll
  <2> HIDE DEF q
  <2>3. StopAll(s).effects = q.effects /\ StopAll(s).paused = FALSE  BY <2>1, <2>2 DEF Session
  <2>4. QED  BY <2>1, <2>3 DEF Step, Plays, Sane, Frozen
<1>3. Step(s, Pause(s, t), i, t) /\ Sane(Pause(s, t), t)
  <2>1. CASE s.paused
    BY <2>1, SameStep DEF Pause
  <2>2. CASE ~s.paused
    <3>1. /\ Pause(s, t).effects = s.effects /\ Pause(s, t).paused = TRUE
          /\ Pause(s, t).pauseStarted = t
      BY <2>2 DEF Pause, Session
    <3>2. Position(Pause(s, t), i, t) = Position(s, i, t)  BY <2>2, <3>1 DEF Position
    <3>3. QED  BY <3>1, <3>2 DEF Step, Plays, Sane
  <2>3. QED  BY <2>1, <2>2
<1>4. Step(s, Continue(s, t), i, t) /\ Sane(Continue(s, t), t)
  <2>1. CASE ~s.paused
    BY <2>1, SameStep DEF Continue
  <2>2. CASE s.paused
    <3> DEFINE effects == [id \in EffectIds |->
                  IF Plays(s, id)
                  THEN [s.effects[id] EXCEPT !.startedAt = @ + (t - s.pauseStarted)]
                  ELSE s.effects[id]]
    <3>1. Continue(s, t) = [s EXCEPT !.paused = FALSE, !.effects = effects]  BY <2>2 DEF Continue
    <3>2. Continue(s, t).effects = effects /\ Continue(s, t).paused = FALSE  BY <3>1 DEF Session
    <3>3. CASE ~Plays(s, i)
      <4>1. effects[i] = s.effects[i]  BY <3>3
      <4>2. QED  BY <3>2, <3>3, <4>1 DEF Step, Plays, Sane, Frozen
    <3>4. CASE Plays(s, i)
      <4>1. s.effects[i] \in Effect /\ s.pauseStarted \in Int  BY <3>4 DEF Plays, Session
      <4>2. effects[i] = [s.effects[i] EXCEPT !.startedAt = @ + (t - s.pauseStarted)]  BY <3>4
      <4>3. /\ effects[i] \in Effect /\ effects[i].playing = s.effects[i].playing
            /\ effects[i].iterations = s.effects[i].iterations
            /\ effects[i].startedAt = s.effects[i].startedAt + (t - s.pauseStarted)
        BY <4>1, <4>2 DEF Effect
      <4> HIDE DEF effects
      <4>4. Plays(Continue(s, t), i)  BY <3>2, <3>4, <4>3, EffectPresent DEF Plays
      <4>5. s.effects[i].startedAt \in Int  BY <4>1 DEF Effect
      <4>6. Position(Continue(s, t), i, t) = Position(s, i, t)
        BY <2>2, <3>2, <4>1, <4>3, <4>5 DEF Position
      <4>7. QED  BY <3>2, <3>4, <4>3, <4>4, <4>6 DEF Step, Sane, Frozen
    <3>5. QED  BY <3>3, <3>4
  <2>3. QED  BY <2>1, <2>2 DEF Session
<1>5. \A b \in BOOLEAN : /\ Step(s, [s EXCEPT !.actuators = b], i, t)
                         /\ Sane([s EXCEPT !.actuators = b], t)
  <2> SUFFICES ASSUME NEW b \in BOOLEAN
               PROVE  /\ Step(s, [s EXCEPT !.actuators = b], i, t)
                      /\ Sane([s EXCEPT !.actuators = b], t)
    OBVIOUS
  <2> DEFINE r == [s EXCEPT !.actuators = b]
  <2>1. /\ r \in Session /\ r.effects = s.effects /\ r.paused = s.paused
        /\ r.pauseStarted = s.pauseStarted
    BY DEF Session
  <2> HIDE DEF r
  <2>2. Step(s, r, i, t)  BY <2>1, SameStep DEF Plays
  <2>3. Sane(r, t)  BY <2>1, SessionPresent DEF Sane, Frozen
  <2>4. QED  BY <2>2, <2>3 DEF r
<1>6. Step(s, s, i, t)  BY SameStep
<1>7. QED  BY <1>1, <1>2, <1>3, <1>4, <1>5, <1>6 DEF Command

\* Whatever a message does to a game's effects, Stopwatch!Operate allows it.
LEMMA HandleAllowed ==
    ASSUME NEW s \in MaybeSession, NEW t \in Int, Sane(s, t), Quiet(s), NEW m \in Messages
    PROVE  /\ Sane(Handle(s, m, t), t)
           /\ \A i \in EffectIds :
                 Allowed(WatchAt(s, i, t), WatchAt(Handle(s, m, t), i, t), Frozen(s))
<1> DEFINE held == IF s = NoSession THEN NewSession ELSE s
<1>1. /\ held \in Session /\ Sane(held, t) /\ Quiet(held)
      /\ Frozen(held) = Frozen(s)
      /\ \A i \in EffectIds : WatchAt(held, i, t) = WatchAt(s, i, t)
  <2>1. CASE s = NoSession
    <3>1. held = NewSession  BY <2>1
    <3>2. NewSession.paused = FALSE /\ \A i \in EffectIds : NewSession.effects[i] = NoEffect
      BY DEF NewSession, NoEffects
    <3>3. QED  BY <2>1, <3>1, <3>2, NewSessionOK, SessionPresent DEF Sane, Frozen, WatchAt
  <2>2. CASE s # NoSession
    BY <2>2 DEF MaybeSession
  <2>3. QED  BY <2>1, <2>2
<1> HIDE DEF held
<1>2. Handle(s, m, t) \in MaybeSession  BY HandleOK
<1>3. CASE Handle(s, m, t) = NoSession
  BY <1>3 DEF Sane, Frozen, WatchAt, Allowed
<1>4. ASSUME Handle(s, m, t) # NoSession
      PROVE  \A i \in EffectIds : Step(held, Handle(s, m, t), i, t) /\ Sane(Handle(s, m, t), t)
  <2> SUFFICES ASSUME NEW i \in EffectIds
               PROVE  Step(held, Handle(s, m, t), i, t) /\ Sane(Handle(s, m, t), t)
    OBVIOUS
  <2>1. CASE m \in [op : {"device"}, begin : BOOLEAN]
    <3>1. Handle(s, m, t) = BeginDevice(held)
      BY <1>4, <2>1 DEF Handle, held
    <3>2. BeginDevice(held).effects = NoEffects /\ BeginDevice(held).paused = FALSE
      BY <1>1 DEF BeginDevice, Session
    <3>3. QED  BY <3>1, <3>2 DEF Step, Plays, NoEffects, Sane, Frozen
  <2>2. CASE m \in [op : {"gain"}, value : Gains]
    <3>1. Handle(s, m, t) = SetGain(held, m.value)  BY <2>2 DEF Handle, held
    <3>2. /\ SetGain(held, m.value).effects = held.effects
          /\ SetGain(held, m.value).paused = held.paused
          /\ SetGain(held, m.value).pauseStarted = held.pauseStarted
      BY <1>1 DEF SetGain, Session
    <3>3. Handle(s, m, t) \in Session  BY <1>2, <1>4 DEF MaybeSession
    <3>4. Step(held, Handle(s, m, t), i, t)
      BY <1>1, <3>1, <3>2, <3>3, SameStep DEF Plays
    <3>5. QED  BY <1>1, <3>1, <3>2, <3>4, SessionPresent DEF Sane, Frozen
  <2>3. CASE m \in [op : {"effect"}, id : EffectIds, shape : Shapes, start : BOOLEAN, count : Counts]
    <3> DEFINE loaded == Download(held, m.id, m.shape)
    <3>1. Handle(s, m, t) = IF m.start THEN Start(loaded, m.id, m.count, FALSE, t) ELSE loaded
      BY <2>3 DEF Handle, held
    <3>2. /\ Step(held, loaded, i, t) /\ Sane(loaded, t) /\ loaded \in Session
          /\ loaded.paused = held.paused
          /\ Plays(loaded, i) => /\ Plays(held, i)
                                 /\ loaded.effects[i].iterations = held.effects[i].iterations
                                 /\ Position(loaded, i, t) = Position(held, i, t)
          /\ IF i = m.id THEN loaded.effects[i] # NoEffect
                         ELSE loaded.effects[i] = held.effects[i]
      BY <1>1, <2>3, DownloadStep
    <3> HIDE DEF loaded
    <3>3. LET r == Start(loaded, m.id, m.count, FALSE, t)
          IN  /\ Step(loaded, r, i, t) /\ Sane(r, t)
              /\ loaded.effects[m.id] # NoEffect => Plays(r, m.id)
      BY <2>3, <3>2, StartStep
    <3>4. Step(held, Start(loaded, m.id, m.count, FALSE, t), i, t)
      <4>1. CASE i = m.id
        BY <3>2, <3>3, <4>1 DEF Step
      <4>2. CASE i # m.id
        <5>1. loaded.effects[i] = held.effects[i] /\ (Plays(loaded, i) <=> Plays(held, i))
          BY <3>2, <4>2 DEF Plays
        <5>2. QED  BY <3>2, <3>3, <5>1 DEF Step
      <4>3. QED  BY <4>1, <4>2
    <3>5. QED  BY <3>1, <3>2, <3>3, <3>4
  <2>4. CASE m \in [op : {"destroy", "stop"}, id : EffectIds]
    <3>1. Handle(s, m, t) = Destroy(held, m.id) \/ Handle(s, m, t) = Silence(held, {m.id})
      BY <2>4 DEF Handle, held
    <3>2. /\ Destroy(held, m.id).paused = held.paused
          /\ Destroy(held, m.id).pauseStarted = held.pauseStarted
          /\ Destroy(held, m.id).effects[i] = IF i = m.id THEN NoEffect ELSE held.effects[i]
      BY <1>1, <2>4 DEF Destroy, Session
    <3>3. /\ Silence(held, {m.id}).paused = held.paused
          /\ Silence(held, {m.id}).pauseStarted = held.pauseStarted
          /\ Plays(Silence(held, {m.id}), i) =>
                /\ Plays(held, i)
                /\ Silence(held, {m.id}).effects[i] = held.effects[i]
          /\ held.effects[i] # NoEffect =>
                Silence(held, {m.id}).effects[i].shape = held.effects[i].shape
      BY <1>1, SilenceOK
    <3>4. Handle(s, m, t) \in Session  BY <1>2, <1>4 DEF MaybeSession
    <3>5. /\ Handle(s, m, t).paused = held.paused
          /\ Handle(s, m, t).pauseStarted = held.pauseStarted
          /\ Plays(Handle(s, m, t), i) =>
                Plays(held, i) /\ Handle(s, m, t).effects[i] = held.effects[i]
          /\ Plays(held, i) /\ Handle(s, m, t).effects[i] # NoEffect =>
                Handle(s, m, t).effects[i].shape = held.effects[i].shape
      BY <3>1, <3>2, <3>3 DEF Plays
    <3>6. Step(held, Handle(s, m, t), i, t)  BY <1>1, <3>4, <3>5, SameStep
    <3>7. QED  BY <1>1, <3>5, <3>6, SessionPresent DEF Sane, Frozen
  <2>5. CASE m \in [op : {"start"}, id : EffectIds, count : Counts, solo : BOOLEAN]
    <3>1. Handle(s, m, t) = Start(held, m.id, m.count, m.solo, t)
      BY <2>5 DEF Handle, held
    <3>2. QED  BY <1>1, <2>5, <3>1, StartStep
  <2>6. CASE m \in [op : {"command"}, name : CommandNames]
    <3>1. Handle(s, m, t) = Command(held, m.name, t)  BY <2>6 DEF Handle, held
    <3>2. QED  BY <1>1, <3>1, CommandStep
  <2>7. CASE m \in [op : {"unusable"}]
    <3>1. Handle(s, m, t) = held  BY <2>7 DEF Handle, held
    <3>2. QED  BY <1>1, <3>1, SameStep
  <2>8. QED  BY <2>1, <2>2, <2>3, <2>4, <2>5, <2>6, <2>7 DEF Messages
<1>5. ASSUME Handle(s, m, t) # NoSession
      PROVE  \A i \in EffectIds :
                 Allowed(WatchAt(held, i, t), WatchAt(Handle(s, m, t), i, t), Frozen(held))
  BY <1>1, <1>2, <1>4, <1>5, StepAllowed DEF MaybeSession
<1>6. ASSUME Handle(s, m, t) # NoSession PROVE Sane(Handle(s, m, t), t)
  BY <1>4, <1>6, IdsAssumption
<1>7. QED  BY <1>1, <1>3, <1>5, <1>6

\* An effect a pass stops has run out: the whole of its delay and of its iterations lies
\* behind it, also at the later time at which the step is seen.
LEMMA ExpiredRunsOut ==
    ASSUME NEW e \in Effect, NEW t \in Int, NEW u \in Int, t <= u, Expired(e, t)
    PROVE  LET w == [shape |-> e.shape, count |-> e.iterations, running |-> TRUE,
                     position |-> u - e.startedAt]
           IN  Watches!RunOut(w)
<1> DEFINE w == [shape |-> e.shape, count |-> e.iterations, running |-> TRUE,
                 position |-> u - e.startedAt]
<1>1. /\ e.shape \in Shapes /\ e.shape.delay \in Nat
      /\ e.shape.duration \in Nat \/ e.shape.duration = Infinite
      /\ e.startedAt \in Int
  BY ShapesAssumption DEF Effect
<1>2. Elapsed(e, t) \in Nat /\ w.position >= e.shape.delay + Elapsed(e, t)
  BY <1>1 DEF Expired, Elapsed
<1>3. CASE e.shape.duration = 0
  BY <1>1, <1>2, <1>3 DEF Watches!RunOut
<1>4. CASE e.shape.duration # 0
  <2>1. /\ e.shape.duration \in Nat \ {0} /\ e.shape.duration # Infinite
        /\ e.iterations # Infinite
        /\ Elapsed(e, t) \div e.shape.duration >= e.iterations
    BY <1>1, <1>4 DEF Expired
  <2>2. e.iterations \in Int
    BY <2>1, CountsAssumption DEF Effect, PlayCounts, AtLeastOnce
  <2>3. Elapsed(e, t) >= e.shape.duration * e.iterations  BY <1>2, <2>1, <2>2, WholeCycles
  <2>4. e.shape.duration * e.iterations \in Int  BY <2>1, <2>2
  <2>5. w.position >= e.shape.delay + e.shape.duration * e.iterations
    BY <1>1, <1>2, <2>3, <2>4
  <2>6. QED  BY <2>1, <2>5 DEF Watches!RunOut
<1>5. QED  BY <1>3, <1>4

\* A pass leaves the watch of an effect as it is, or stops one that has run out.
LEMMA AfterRenderWatch ==
    ASSUME NEW s \in MaybeSession, NEW t \in Int, NEW u \in Int, t <= u, NEW i \in EffectIds
    PROVE  /\ Frozen(AfterRender(s, t)) = Frozen(s)
           /\ Sane(s, u) => Sane(AfterRender(s, t), u)
           /\ \/ WatchAt(AfterRender(s, t), i, u) = WatchAt(s, i, u)
              \/ /\ WatchAt(s, i, u) # NoEffect /\ WatchAt(s, i, u).running /\ ~Frozen(s)
                 /\ Watches!RunOut(WatchAt(s, i, u))
                 /\ WatchAt(AfterRender(s, t), i, u) =
                       [shape |-> WatchAt(s, i, u).shape, count |-> WatchAt(s, i, u).count,
                        running |-> FALSE, position |-> 0]
<1>1. CASE ~Audible(s)
  BY <1>1 DEF AfterRender
<1>2. CASE Audible(s)
  <2> DEFINE ids == {id \in EffectIds : Plays(s, id) /\ Expired(s.effects[id], t)}
             r == Silence(s, ids)
  <2>1. s \in Session /\ ~s.paused  BY <1>2 DEF Audible, MaybeSession
  <2>2. AfterRender(s, t) = r  BY <1>2 DEF AfterRender
  <2>3. /\ r \in Session /\ r.paused = s.paused /\ r.pauseStarted = s.pauseStarted
        /\ Plays(r, i) <=> Plays(s, i) /\ i \notin ids
        /\ r.effects[i] = NoEffect <=> s.effects[i] = NoEffect
        /\ i \notin ids => r.effects[i] = s.effects[i]
    BY <2>1, SilenceOK
  <2>4. r.effects[i] = IF i \in ids /\ s.effects[i] # NoEffect
                       THEN [s.effects[i] EXCEPT !.playing = FALSE] ELSE s.effects[i]
    BY <2>1 DEF Silence, Session
  <2> HIDE DEF r
  <2>5. /\ Frozen(r) = Frozen(s) /\ ~Frozen(s)
        /\ Sane(s, u) => Sane(r, u)
    BY <2>1, <2>3, SessionPresent DEF Frozen, Sane
  <2>6. CASE i \notin ids
    BY <2>1, <2>2, <2>3, <2>5, <2>6, SessionPresent DEF WatchAt, Position
  <2>7. CASE i \in ids
    <3>1. /\ s.effects[i] # NoEffect /\ s.effects[i] \in Effect
          /\ s.effects[i].playing = TRUE /\ Expired(s.effects[i], t)
      BY <2>1, <2>7 DEF Plays, Session, Effect
    <3>2. /\ WatchAt(s, i, u) = [shape |-> s.effects[i].shape, count |-> s.effects[i].iterations,
                                 running |-> TRUE, position |-> u - s.effects[i].startedAt]
          /\ WatchAt(s, i, u) # NoEffect
      BY <2>1, <3>1, WatchPresent
    <3>3. Watches!RunOut(WatchAt(s, i, u))  BY <3>1, <3>2, ExpiredRunsOut
    <3>4. r.effects[i] = [s.effects[i] EXCEPT !.playing = FALSE]  BY <2>4, <2>7, <3>1
    <3>5. /\ r.effects[i].shape = s.effects[i].shape /\ r.effects[i].playing = FALSE
          /\ r.effects[i].iterations = s.effects[i].iterations
      BY <3>1, <3>4 DEF Effect
    <3>6. WatchAt(r, i, u) = [shape |-> s.effects[i].shape, count |-> s.effects[i].iterations,
                              running |-> FALSE, position |-> 0]
      BY <2>3, <3>1, <3>5, WatchPresent
    <3>7. WatchAt(r, i, u) = [shape |-> WatchAt(s, i, u).shape, count |-> WatchAt(s, i, u).count,
                              running |-> FALSE, position |-> 0]
      BY <3>2, <3>6
    <3>8. QED  BY <2>2, <2>5, <3>2, <3>3, <3>7
  <2>8. QED  BY <2>6, <2>7
<1>3. QED  BY <1>1, <1>2

\* One tick moves the watch of a playing effect of a session that is not paused, and
\* nothing else.
LEMMA TickWatch ==
    ASSUME NEW s \in MaybeSession, NEW t \in Int, NEW i \in EffectIds
    PROVE  WatchAt(s, i, t + 1) =
              IF WatchAt(s, i, t) # NoEffect /\ WatchAt(s, i, t).running /\ ~Frozen(s)
              THEN [WatchAt(s, i, t) EXCEPT !.position = @ + 1]
              ELSE WatchAt(s, i, t)
<1>1. CASE s = NoSession \/ s.effects[i] = NoEffect
  BY <1>1 DEF WatchAt
<1>2. CASE s # NoSession /\ s.effects[i] # NoEffect
  <2>1. s \in Session /\ s.effects[i] \in Effect  BY <1>2 DEF MaybeSession, Session
  <2> DEFINE w(p) == [shape |-> s.effects[i].shape, count |-> s.effects[i].iterations,
                      running |-> s.effects[i].playing, position |-> p]
  <2>2. /\ WatchAt(s, i, t) = w(IF s.effects[i].playing THEN Position(s, i, t) ELSE 0)
        /\ WatchAt(s, i, t + 1) = w(IF s.effects[i].playing THEN Position(s, i, t + 1) ELSE 0)
        /\ WatchAt(s, i, t) # NoEffect
    BY <1>2, <2>1, WatchPresent
  <2>3. CASE s.effects[i].playing /\ ~s.paused
    <3>1. Position(s, i, t + 1) = Position(s, i, t) + 1  BY <2>1, <2>3 DEF Position, Effect
    <3>2. [w(Position(s, i, t)) EXCEPT !.position = @ + 1] = w(Position(s, i, t) + 1)
      OBVIOUS
    <3>3. WatchAt(s, i, t).running  BY <2>2, <2>3
    <3>4. QED  BY <1>2, <2>2, <2>3, <3>1, <3>2, <3>3 DEF Frozen
  <2>4. CASE ~s.effects[i].playing
    BY <2>2, <2>4
  <2>5. CASE s.paused
    <3>1. Position(s, i, t + 1) = Position(s, i, t)  BY <2>5 DEF Position
    <3>2. QED  BY <1>2, <2>2, <2>5, <3>1 DEF Frozen
  <2>6. QED  BY <2>3, <2>4, <2>5
<1>3. QED  BY <1>1, <1>2

\* Refinement needs, besides EngineInv, that every pause began in the past.
TimeInv == EngineInv /\ \A c \in Clients : Sane(session[c], now)

\* At the start there is no watch and nothing is paused.
LEMMA InitTime == Init => TimeInv /\ Watches!Init
<1> SUFFICES ASSUME Init PROVE TimeInv /\ Watches!Init
  OBVIOUS
<1>1. \A c \in Clients : session[c] = NoSession  BY DEF Init
<1>2. TimeInv  BY <1>1, InitInv DEF TimeInv, Sane, Frozen
<1>3. WatchMap = [c \in Clients |-> [id \in EffectIds |-> NoEffect]]
  BY <1>1 DEF WatchMap, WatchAt
<1>4. FrozenMap = [c \in Clients |-> FALSE]  BY <1>1 DEF FrozenMap, Frozen
<1>5. QED  BY <1>2, <1>3, <1>4 DEF Watches!Init

\* A step that leaves the clock alone and changes only the session of client c, as
\* Allowed says, is an operation of c.
LEMMA OperateStep ==
    ASSUME NEW c \in Clients, now' = now,
           \A d \in Clients \ {c} : session'[d] = session[d],
           \A i \in EffectIds : Allowed(WatchAt(session[c], i, now), WatchAt(session'[c], i, now),
                                        Frozen(session[c]))
    PROVE  Watches!Next
<1>1. \A i \in EffectIds : /\ WatchMap[c][i] = WatchAt(session[c], i, now)
                           /\ WatchMap'[c][i] = WatchAt(session'[c], i, now)
  BY DEF WatchMap
<1>2. FrozenMap[c] = Frozen(session[c])  BY DEF FrozenMap
<1>3. \A d \in Clients \ {c} : WatchMap'[d] = WatchMap[d] /\ FrozenMap'[d] = FrozenMap[d]
  BY DEF WatchMap, FrozenMap
<1>4. ASSUME NEW i \in EffectIds
      PROVE  Watches!Absent(c, i) \/ Watches!Stopped(c, i) \/ Watches!Kept(c, i) \/ Watches!Restarted(c, i)
  BY <1>1, <1>2 DEF Allowed, Watches!Absent, Watches!Stopped, Watches!Kept, Watches!Restarted,
                    Watches!Running
<1>5. Watches!Operate(c)  BY <1>3, <1>4 DEF Watches!Operate
<1>6. QED  BY <1>5 DEF Watches!Next

\* Every step keeps TimeInv and is, under the refinement mapping, a step of Stopwatch.
LEMMA NextTime ==
    TimeInv /\ [Next]_vars => TimeInv' /\ [Watches!Next]_(Watches!watchVars)
<1> SUFFICES ASSUME TimeInv, [Next]_vars
             PROVE  TimeInv' /\ [Watches!Next]_(Watches!watchVars)
  OBVIOUS
<1>1. EngineInv /\ EngineInv'  BY NextInv DEF TimeInv
<1>2. /\ now \in Int /\ passAt \in Int /\ passAt <= now
      /\ session \in [Clients -> MaybeSession]
      /\ \A c \in Clients : /\ session[c] \in MaybeSession /\ Quiet(session[c])
                            /\ Sane(session[c], now)
  BY BoundsAssumption DEF TimeInv, EngineInv, TypeOK, StoppedMeansSilent, Quiet, MaybeSession
<1>3. CASE Accept
  <2>1. nextClient \in Clients /\ now' = now
    BY <1>1, <1>3, BoundsAssumption DEF Accept, EngineInv, TypeOK, Clients
  <2>2. \A d \in Clients : session'[d] = IF d = nextClient THEN NewSession ELSE session[d]
    BY <1>2, <1>3 DEF Accept
  <2>3. NewSession.paused = FALSE /\ \A i \in EffectIds : WatchAt(NewSession, i, now) = NoEffect
    BY DEF NewSession, NoEffects, WatchAt
  <2>4. \A d \in Clients : Sane(session'[d], now')
    BY <1>2, <2>1, <2>2, <2>3 DEF Sane, Frozen
  <2>5. Watches!Next  BY <2>1, <2>2, <2>3, OperateStep DEF Allowed
  <2>6. QED  BY <1>1, <2>4, <2>5 DEF TimeInv
<1>4. ASSUME NEW c \in Clients, NEW m \in Messages, Receive(c, m)
      PROVE  TimeInv' /\ Watches!Next
  <2>1. /\ now' = now
        /\ \A d \in Clients : session'[d] = IF d = c THEN Handle(session[c], m, now) ELSE session[d]
    BY <1>2, <1>4 DEF Receive
  <2>2. /\ Sane(session'[c], now)
        /\ \A i \in EffectIds : Allowed(WatchAt(session[c], i, now), WatchAt(session'[c], i, now),
                                        Frozen(session[c]))
    BY <1>2, <2>1, HandleAllowed
  <2>3. Watches!Next  BY <2>1, <2>2, OperateStep
  <2>4. QED  BY <1>1, <1>2, <2>1, <2>2, <2>3 DEF TimeInv
<1>5. ASSUME NEW c \in Clients, Drop(c)
      PROVE  TimeInv' /\ Watches!Next
  <2>1. now' = now /\ \A d \in Clients : session'[d] = IF d = c THEN NoSession ELSE session[d]
    BY <1>2, <1>5 DEF Drop
  <2>2. \A i \in EffectIds : WatchAt(NoSession, i, now) = NoEffect  BY DEF WatchAt
  <2>3. Watches!Next  BY <2>1, <2>2, OperateStep DEF Allowed
  <2>4. QED  BY <1>1, <1>2, <2>1, <2>3 DEF TimeInv, Sane, Frozen
<1>6. ASSUME NEW c \in Clients, Garbage(c)
      PROVE  TimeInv' /\ Watches!Next
  <2>1. \A d \in Clients : session'[d] = NoSession  BY <1>6 DEF Garbage
  <2>2. WatchMap' = [d \in Clients |-> [k \in EffectIds |-> NoEffect]]
    BY <2>1 DEF WatchMap, WatchAt
  <2>3. FrozenMap' = [d \in Clients |-> FALSE]  BY <2>1 DEF FrozenMap, Frozen
  <2>4. Watches!Next  BY <2>2, <2>3 DEF Watches!Next, Watches!End
  <2>5. QED  BY <1>1, <2>1, <2>4 DEF TimeInv, Sane, Frozen
<1>7. CASE Render
  <2>1. now' = now /\ \A c \in Clients : session'[c] = AfterRender(session[c], passAt)
    BY <1>7 DEF Render
  <2>2. FrozenMap' = FrozenMap  BY <1>2, <2>1, AfterRenderWatch, IdsAssumption DEF FrozenMap
  <2>3. ASSUME NEW c \in Clients, NEW i \in EffectIds
        PROVE  WatchMap'[c][i] = WatchMap[c][i] \/ Watches!RunsOut(c, i)
    <3>1. /\ WatchMap[c][i] = WatchAt(session[c], i, now)
          /\ WatchMap'[c][i] = WatchAt(session'[c], i, now)
          /\ FrozenMap[c] = Frozen(session[c])
      BY <2>1 DEF WatchMap, FrozenMap
    <3>2. \/ WatchAt(session'[c], i, now) = WatchAt(session[c], i, now)
          \/ /\ WatchAt(session[c], i, now) # NoEffect /\ WatchAt(session[c], i, now).running
             /\ ~Frozen(session[c]) /\ Watches!RunOut(WatchAt(session[c], i, now))
             /\ WatchAt(session'[c], i, now) =
                   [shape |-> WatchAt(session[c], i, now).shape,
                    count |-> WatchAt(session[c], i, now).count, running |-> FALSE, position |-> 0]
      <4>1. session'[c] = AfterRender(session[c], passAt)  BY <2>1
      <4>2. QED  BY <1>2, <4>1, AfterRenderWatch
    <3>3. CASE WatchAt(session'[c], i, now) = WatchAt(session[c], i, now)
      BY <3>1, <3>3
    <3>4. CASE WatchAt(session'[c], i, now) # WatchAt(session[c], i, now)
      <4>1. Watches!Running(c, i) /\ ~FrozenMap[c] /\ Watches!RunOut(WatchMap[c][i])
        BY <3>1, <3>2, <3>4 DEF Watches!Running
      <4>2. WatchMap'[c][i] = [shape |-> WatchMap[c][i].shape, count |-> WatchMap[c][i].count,
                               running |-> FALSE, position |-> 0]
        BY <3>1, <3>2, <3>4
      <4>3. QED  BY <4>1, <4>2 DEF Watches!RunsOut
    <3>5. QED  BY <3>3, <3>4
  <2>4. Watches!Next  BY <2>2, <2>3 DEF Watches!Next, Watches!Expire
  <2>5. \A c \in Clients : Sane(session'[c], now')
    BY <1>2, <2>1, AfterRenderWatch, IdsAssumption
  <2>6. QED  BY <1>1, <2>4, <2>5 DEF TimeInv
<1>8. CASE Tick
  <2>1. now' = now + 1 /\ session' = session  BY <1>8 DEF Tick
  <2>2. FrozenMap' = FrozenMap  BY <2>1 DEF FrozenMap
  <2>3. WatchMap' = [c \in Clients |-> [i \in EffectIds |->
                        IF Watches!Running(c, i) /\ ~FrozenMap[c]
                        THEN [WatchMap[c][i] EXCEPT !.position = @ + 1]
                        ELSE WatchMap[c][i]]]
    <3>1. ASSUME NEW c \in Clients, NEW i \in EffectIds
          PROVE  /\ WatchMap[c][i] = WatchAt(session[c], i, now)
                 /\ WatchMap'[c][i] = WatchAt(session[c], i, now + 1)
                 /\ FrozenMap[c] = Frozen(session[c])
      BY <2>1 DEF WatchMap, FrozenMap
    <3>2. ASSUME NEW c \in Clients, NEW i \in EffectIds
          PROVE  WatchMap'[c][i] =
                    IF Watches!Running(c, i) /\ ~FrozenMap[c]
                    THEN [WatchMap[c][i] EXCEPT !.position = @ + 1]
                    ELSE WatchMap[c][i]
      BY <1>2, <3>1, TickWatch DEF Watches!Running
    <3>3. WatchMap' = [c \in Clients |-> [i \in EffectIds |-> WatchMap'[c][i]]]
      BY DEF WatchMap
    <3>4. QED  BY <3>2, <3>3
  <2>4. Watches!Next  BY <2>2, <2>3 DEF Watches!Next, Watches!Advance
  <2>5. \A c \in Clients : Sane(session'[c], now')
    <3>1. ASSUME NEW c \in Clients PROVE Sane(session[c], now + 1)
      BY <1>2, <3>1, BoundsAssumption DEF Sane, Frozen, MaybeSession, Session
    <3>2. QED  BY <2>1, <3>1
  <2>6. QED  BY <1>1, <2>4, <2>5 DEF TimeInv
<1>9. CASE IdlePass \/ Ended \/ UNCHANGED vars
  <2>1. session' = session /\ now' = now  BY <1>9 DEF IdlePass, Ended, vars
  <2>2. WatchMap' = WatchMap /\ FrozenMap' = FrozenMap  BY <2>1 DEF WatchMap, FrozenMap
  <2>3. QED  BY <1>1, <1>2, <2>1, <2>2 DEF TimeInv, Watches!watchVars
<1>10. QED  BY <1>3, <1>4, <1>5, <1>6, <1>7, <1>8, <1>9 DEF Next

\* Every effect is a stopwatch (EffectEngine!KeepsTime): pauses, repeated downloads,
\* solo starts, late passes and other games never move it, and it stops by itself only
\* when all of its iterations have been played.
THEOREM EngineKeepsTime == Spec => KeepsTime
BY InitTime, NextTime, PTL DEF Spec, KeepsTime, Watches!Spec
=============================================================================
