--------------------------- MODULE DriverLinkProofs ---------------------------
(***************************************************************************)
(* Proofs about DriverLink: what a session becomes when a queue of         *)
(* messages is read, what the driver's mirror knows of it, and that the    *)
(* two agree through every call, lost message and restart.                 *)
(***************************************************************************)
EXTENDS DriverLink, WellFoundedInduction, FiniteSetTheorems, TLAPS

-----------------------------------------------------------------------------
(* Reading a queue.  A property of every queue is proved from the shortest *)
(* one that would not have it.                                             *)

\* Every set of naturals that is not empty has a least element.
LEMMA Least ==
    ASSUME NEW T, T \subseteq Nat, T # {}
    PROVE  \E n \in T : \A m \in T : n <= m
<1> DEFINE R == OpToRel(<, Nat)
<1>1. IsWellFoundedOn(R, Nat)
  BY NatLessThanWellFounded
<1> HIDE DEF R
<1>2. PICK n \in T : \A m \in T : ~(<<m, n>> \in R)
  BY <1>1, WFMin
<1>3. ASSUME NEW m \in T PROVE n <= m
  <2>1. m < n => <<m, n>> \in R
    BY DEF R, OpToRel
  <2>2. QED
    BY <2>1, <1>2
<1>4. QED
  BY <1>3

\* The states of a session while it reads a queue.
IsRun(f, s, queue, n) ==
    f = [k \in 0 .. n |-> IF k = 0 THEN s ELSE Handle(f[k - 1], queue[k], 0)]

\* There is one, of any length.
LEMMA RunExists ==
    ASSUME NEW s, NEW queue, NEW n \in Nat
    PROVE  \E f : IsRun(f, s, queue, n)
<1> DEFINE T == {k \in Nat : ~\E f : IsRun(f, s, queue, k)}
<1>1. SUFFICES ASSUME T # {} PROVE FALSE
  OBVIOUS
<1>2. PICK k \in T : \A j \in T : k <= j
  BY <1>1, Least
<1>3. k \in Nat /\ ~\E f : IsRun(f, s, queue, k)
  OBVIOUS
<1>4. k # 0
  <2> DEFINE g == [j \in 0 .. 0 |-> s]
  <2>1. IsRun(g, s, queue, 0)
    BY DEF IsRun
  <2>2. QED
    BY <1>3, <2>1
<1>5. k - 1 \in Nat /\ k - 1 \notin T
  BY <1>2, <1>3, <1>4
<1>6. PICK f : IsRun(f, s, queue, k - 1)
  BY <1>5
<1> DEFINE g == [j \in 0 .. k |-> IF j = k THEN Handle(f[k - 1], queue[k], 0) ELSE f[j]]
<1>7. \A j \in 0 .. k - 1 : f[j] = IF j = 0 THEN s ELSE Handle(f[j - 1], queue[j], 0)
  BY <1>6 DEF IsRun
<1>8. \A j \in 0 .. k : g[j] = IF j = 0 THEN s ELSE Handle(g[j - 1], queue[j], 0)
  BY <1>3, <1>4, <1>7
<1>9. IsRun(g, s, queue, k)
  BY <1>8 DEF IsRun
<1>10. QED
  BY <1>3, <1>9

\* After reads the last state of a run.
LEMMA AfterRun ==
    ASSUME NEW s, NEW queue, Len(queue) \in Nat
    PROVE  \E f : IsRun(f, s, queue, Len(queue)) /\ After(s, queue) = f[Len(queue)]
<1> DEFINE f == CHOOSE f : IsRun(f, s, queue, Len(queue))
<1>1. IsRun(f, s, queue, Len(queue))
  BY RunExists
<1>2. After(s, queue) = f[Len(queue)]
  BY DEF After, IsRun
<1>3. QED
  BY <1>1, <1>2

\* Two runs over the same messages are the same.
LEMMA RunUnique ==
    ASSUME NEW s, NEW p, NEW q, NEW n \in Nat, NEW f, NEW g,
           IsRun(f, s, p, n),
           g[0] = s, \A k \in 1 .. n : p[k] = q[k] /\ g[k] = Handle(g[k - 1], q[k], 0)
    PROVE  f[n] = g[n]
<1> DEFINE T == {k \in 0 .. n : f[k] # g[k]}
<1>1. SUFFICES ASSUME T # {} PROVE FALSE
  OBVIOUS
<1>2. PICK k \in T : \A j \in T : k <= j
  <2>1. T \subseteq Nat
    OBVIOUS
  <2> HIDE DEF T
  <2>2. QED
    BY <1>1, <2>1, Least
<1>3. k \in 0 .. n /\ f[k] # g[k]
  OBVIOUS
<1>4. \A j \in 0 .. n : f[j] = IF j = 0 THEN s ELSE Handle(f[j - 1], p[j], 0)
  BY DEF IsRun
<1>5. k # 0
  BY <1>3, <1>4
<1>6. k - 1 \in 0 .. n /\ k - 1 \notin T
  BY <1>2, <1>3, <1>5
<1>7. f[k - 1] = g[k - 1]
  BY <1>6
<1>8. k \in 1 .. n
  BY <1>3, <1>5
<1>9. p[k] = q[k] /\ g[k] = Handle(g[k - 1], q[k], 0)
  BY <1>8
<1>10. f[k] = Handle(f[k - 1], p[k], 0)
  BY <1>4, <1>8
<1>11. QED
  BY <1>3, <1>7, <1>9, <1>10

\* Reading nothing changes nothing.
LEMMA AfterNothing ==
    ASSUME NEW s PROVE After(s, << >>) = s
<1>1. PICK f : IsRun(f, s, << >>, 0) /\ After(s, << >>) = f[0]
  BY AfterRun
<1>2. QED
  BY <1>1 DEF IsRun

\* A message at the end is read last.
LEMMA AfterAppend ==
    ASSUME NEW s, NEW queue \in Seq(Messages), NEW m \in Messages
    PROVE  After(s, Append(queue, m)) = Handle(After(s, queue), m, 0)
<1> DEFINE n == Len(queue)
           q == Append(queue, m)
<1>1. n \in Nat /\ Len(q) = n + 1 /\ q[n + 1] = m /\ \A k \in 1 .. n : q[k] = queue[k]
  OBVIOUS
<1>2. PICK f : IsRun(f, s, q, n + 1) /\ After(s, q) = f[n + 1]
  <2> HIDE DEF n, q
  <2>1. Len(q) \in Nat /\ Len(q) = n + 1
    BY <1>1
  <2>2. PICK f : IsRun(f, s, q, Len(q)) /\ After(s, q) = f[Len(q)]
    BY <2>1, AfterRun
  <2>3. QED
    BY <2>1, <2>2
<1>3. PICK g : IsRun(g, s, queue, n) /\ After(s, queue) = g[n]
  BY <1>1, AfterRun
<1> HIDE DEF n, q
<1>4. \A k \in 0 .. n + 1 : f[k] = IF k = 0 THEN s ELSE Handle(f[k - 1], q[k], 0)
  BY <1>2 DEF IsRun
<1>5. f[0] = s /\ \A k \in 1 .. n : queue[k] = q[k] /\ f[k] = Handle(f[k - 1], q[k], 0)
  BY <1>1, <1>4
<1>6. g[n] = f[n]
  BY <1>1, <1>3, <1>5, RunUnique
<1>7. f[n + 1] = Handle(f[n], q[n + 1], 0)
  BY <1>1, <1>4
<1>8. QED
  BY <1>1, <1>2, <1>3, <1>6, <1>7 DEF q

\* The first message is read first.
LEMMA AfterHead ==
    ASSUME NEW s, NEW queue \in Seq(Messages), queue # << >>
    PROVE  After(s, queue) = After(Handle(s, Head(queue), 0), Tail(queue))
<1> DEFINE n == Len(Tail(queue))
           q == Tail(queue)
<1>1. n \in Nat /\ Len(queue) = n + 1 /\ queue[1] = Head(queue)
      /\ \A k \in 1 .. n : q[k] = queue[k + 1]
  OBVIOUS
<1>2. PICK f : IsRun(f, s, queue, n + 1) /\ After(s, queue) = f[n + 1]
  BY <1>1, AfterRun
<1>3. PICK g : IsRun(g, Handle(s, Head(queue), 0), q, n)
               /\ After(Handle(s, Head(queue), 0), q) = g[n]
  BY <1>1, AfterRun
<1> HIDE DEF n, q
<1> DEFINE h == [k \in 0 .. n |-> f[k + 1]]
<1>4. \A k \in 0 .. n + 1 : f[k] = IF k = 0 THEN s ELSE Handle(f[k - 1], queue[k], 0)
  BY <1>2 DEF IsRun
<1>5. h[0] = Handle(s, Head(queue), 0)
  <2>1. f[0] = s /\ f[1] = Handle(f[0], queue[1], 0)
    BY <1>1, <1>4
  <2>2. QED
    BY <1>1, <2>1
<1>6. ASSUME NEW k \in 1 .. n PROVE h[k] = Handle(h[k - 1], q[k], 0)
  <2>1. f[k + 1] = Handle(f[k], queue[k + 1], 0)
    BY <1>1, <1>4
  <2>2. h[k] = f[k + 1] /\ h[k - 1] = f[k] /\ q[k] = queue[k + 1]
    BY <1>1
  <2>3. QED
    BY <2>1, <2>2
<1>7. h[n] = f[n + 1]
  BY <1>1
<1> HIDE DEF h
<1>8. g[n] = h[n]
  BY <1>1, <1>3, <1>5, <1>6, RunUnique
<1>9. QED
  BY <1>2, <1>3, <1>7, <1>8 DEF q

-----------------------------------------------------------------------------
(* What the driver's mirror knows of a session, and how a message changes that. *)

Views == [gain : 0 .. DIMax, actuators : BOOLEAN, paused : BOOLEAN, stopped : BOOLEAN,
          held : SUBSET EffectIds, playing : SUBSET EffectIds]

View(s) == [gain |-> s.gain, actuators |-> s.actuators, paused |-> s.paused,
            stopped |-> s.stopped, held |-> Held(s), playing |-> Playing(s)]

NewView == [gain |-> DIMax, actuators |-> TRUE, paused |-> FALSE, stopped |-> TRUE,
            held |-> {}, playing |-> {}]

Starts(v, id, solo) ==
    [v EXCEPT !.playing = (IF solo THEN {} ELSE @) \cup {id}, !.stopped = FALSE]

Commanding(v, name) ==
    CASE name = "reset" -> [v EXCEPT !.held = {}, !.playing = {}, !.actuators = TRUE,
                                     !.paused = FALSE, !.stopped = TRUE]
      [] name = "stopall" -> [v EXCEPT !.playing = {}, !.paused = FALSE, !.stopped = TRUE]
      [] name = "pause" -> [v EXCEPT !.paused = TRUE]
      [] name = "continue" -> [v EXCEPT !.paused = FALSE]
      [] name = "actuators_on" -> [v EXCEPT !.actuators = TRUE]
      [] name = "actuators_off" -> [v EXCEPT !.actuators = FALSE]
      [] OTHER -> v

\* An effect of the record type is not the absent effect.
LEMMA EffectPresent ==
    ASSUME NEW e \in Effect PROVE e # NoEffect
BY AbsenceAssumption

\* A session is not the absent session.
LEMMA SessionPresent ==
    ASSUME NEW s \in Session PROVE s # NoSession
BY AbsenceAssumption

\* The view of a session has its type.
LEMMA ViewType == ASSUME NEW s \in Session PROVE View(s) \in Views
BY DEF View, Views, Session, Held, Playing

\* Views that agree on everything are the same.
LEMMA SameView ==
    ASSUME NEW v \in Views, NEW w \in Views,
           v.gain = w.gain, v.actuators = w.actuators, v.paused = w.paused,
           v.stopped = w.stopped, v.held = w.held, v.playing = w.playing
    PROVE  v = w
BY DEF Views

\* A new session shows nothing.
LEMMA NewSessionView == NewSession \in Session /\ View(NewSession) = NewView
<1>1. DIMax \in 0 .. DIMax
  BY GainAssumption
<1>2. NewSession \in Session
  BY <1>1 DEF NewSession, NoEffects, Session
<1>3. Held(NewSession) = {} /\ Playing(NewSession) = {}
  BY DEF Held, Playing, Plays, NewSession, NoEffects
<1>4. QED
  BY <1>2, <1>3 DEF View, NewView, NewSession

\* Silenced effects are held and do not play.
LEMMA SilenceView ==
    ASSUME NEW s \in Session, NEW ids
    PROVE  /\ Silence(s, ids) \in Session
           /\ View(Silence(s, ids)) = [View(s) EXCEPT !.playing = @ \ ids]
<1> DEFINE effects == [id \in EffectIds |->
                IF id \in ids /\ s.effects[id] # NoEffect
                THEN [s.effects[id] EXCEPT !.playing = FALSE]
                ELSE s.effects[id]]
           t == Silence(s, ids)
<1>1. ASSUME NEW id \in EffectIds
      PROVE  /\ effects[id] \in Effect \cup {NoEffect}
             /\ effects[id] = NoEffect <=> s.effects[id] = NoEffect
             /\ (effects[id] # NoEffect /\ effects[id].playing)
                   <=> (s.effects[id] # NoEffect /\ s.effects[id].playing /\ id \notin ids)
  <2>1. s.effects[id] \in Effect \cup {NoEffect}
    BY DEF Session
  <2>2. CASE id \in ids /\ s.effects[id] # NoEffect
    <3>1. effects[id] = [s.effects[id] EXCEPT !.playing = FALSE]
      BY <2>2
    <3>2. effects[id] \in Effect /\ effects[id].playing = FALSE
      BY <2>1, <2>2, <3>1 DEF Effect
    <3>3. QED
      BY <2>2, <3>2, EffectPresent
  <2>3. CASE ~(id \in ids /\ s.effects[id] # NoEffect)
    BY <2>1, <2>3
  <2>4. QED
    BY <2>2, <2>3
<1>2. t = [s EXCEPT !.effects = effects]
  BY DEF Silence
<1>3. effects \in [EffectIds -> Effect \cup {NoEffect}]
  BY <1>1
<1>4. /\ t \in Session /\ t.effects = effects
      /\ t.gain = s.gain /\ t.actuators = s.actuators /\ t.paused = s.paused /\ t.stopped = s.stopped
  BY <1>2, <1>3 DEF Session
<1> HIDE DEF effects, t
<1>5. Held(t) = Held(s)
  BY <1>1, <1>4 DEF Held
<1>6. Playing(t) = Playing(s) \ ids
  BY <1>1, <1>4 DEF Playing, Plays
<1>7. QED
  BY <1>4, <1>5, <1>6 DEF View, t

\* A downloaded effect is held; it plays if it did before.
LEMMA DownloadView ==
    ASSUME NEW s \in Session, NEW id \in EffectIds, NEW shape \in Shapes
    PROVE  /\ Download(s, id, shape) \in Session
           /\ View(Download(s, id, shape)) = [View(s) EXCEPT !.held = @ \cup {id}]
<1> DEFINE e == IF s.effects[id] = NoEffect
                THEN [shape |-> shape, playing |-> FALSE, iterations |-> 1, startedAt |-> 0]
                ELSE [s.effects[id] EXCEPT !.shape = shape]
           t == [s EXCEPT !.effects[id] = e]
<1>1. e \in Effect /\ (e.playing <=> s.effects[id] # NoEffect /\ s.effects[id].playing)
  <2>1. CASE s.effects[id] = NoEffect
    BY <2>1 DEF Effect, PlayCounts
  <2>2. CASE s.effects[id] # NoEffect
    <3>1. s.effects[id] \in Effect
      BY <2>2 DEF Session
    <3>2. QED
      BY <2>2, <3>1 DEF Effect
  <2>3. QED
    BY <2>1, <2>2
<1>2. Download(s, id, shape) = t
  BY DEF Download
<1>3. e # NoEffect
  BY <1>1, EffectPresent
<1> HIDE DEF e
<1>4. /\ t \in Session
      /\ t.gain = s.gain /\ t.actuators = s.actuators /\ t.paused = s.paused /\ t.stopped = s.stopped
      /\ \A i \in EffectIds : t.effects[i] = IF i = id THEN e ELSE s.effects[i]
  BY <1>1 DEF Session
<1> HIDE DEF t
<1>5. Held(t) = Held(s) \cup {id}
  BY <1>3, <1>4 DEF Held
<1>6. Playing(t) = Playing(s)
  BY <1>1, <1>3, <1>4 DEF Playing, Plays
<1>7. View(t) = [View(s) EXCEPT !.held = Held(s) \cup {id}]
  BY <1>4, <1>5, <1>6 DEF View
<1>8. View(s).held = Held(s)
  BY DEF View
<1>9. QED
  BY <1>2, <1>4, <1>7, <1>8

\* A destroyed effect is neither held nor playing.
LEMMA DestroyView ==
    ASSUME NEW s \in Session, NEW id \in EffectIds
    PROVE  /\ Destroy(s, id) \in Session
           /\ View(Destroy(s, id)) = [View(s) EXCEPT !.held = @ \ {id}, !.playing = @ \ {id}]
<1> DEFINE t == Destroy(s, id)
<1>1. /\ t \in Session
      /\ t.gain = s.gain /\ t.actuators = s.actuators /\ t.paused = s.paused /\ t.stopped = s.stopped
      /\ \A i \in EffectIds : t.effects[i] = IF i = id THEN NoEffect ELSE s.effects[i]
  BY DEF Session, Destroy
<1> HIDE DEF t
<1>2. Held(t) = Held(s) \ {id} /\ Playing(t) = Playing(s) \ {id}
  BY <1>1 DEF Held, Playing, Plays
<1>3. View(t) = [View(s) EXCEPT !.held = Held(s) \ {id}, !.playing = Playing(s) \ {id}]
  <2> DEFINE v == View(t)
             w == [View(s) EXCEPT !.held = Held(s) \ {id}, !.playing = Playing(s) \ {id}]
  <2>1. v \in Views /\ View(s) \in Views
    BY <1>1, ViewType
  <2>2. w \in Views /\ w.held = Held(s) \ {id} /\ w.playing = Playing(s) \ {id}
    BY <2>1 DEF Views, Held, Playing
  <2>3. w.gain = s.gain /\ w.actuators = s.actuators /\ w.paused = s.paused /\ w.stopped = s.stopped
    BY DEF View
  <2>4. /\ v.gain = s.gain /\ v.actuators = s.actuators /\ v.paused = s.paused
        /\ v.stopped = s.stopped /\ v.held = Held(s) \ {id} /\ v.playing = Playing(s) \ {id}
    BY <1>1, <1>2 DEF View
  <2> HIDE DEF v, w
  <2>5. v = w
    BY <2>1, <2>2, <2>3, <2>4, SameView
  <2>6. QED
    BY <2>5 DEF v, w
<1>4. View(s).held = Held(s) /\ View(s).playing = Playing(s)
  BY DEF View
<1>5. QED
  BY <1>1, <1>3, <1>4 DEF t

\* A held effect that is started plays, alone if that was asked; one that is not held
\* changes nothing.
LEMMA StartView ==
    ASSUME NEW s \in Session, NEW id \in EffectIds, NEW n \in Counts, NEW solo \in BOOLEAN
    PROVE  /\ Start(s, id, n, solo, 0) \in Session
           /\ View(Start(s, id, n, solo, 0)) =
                IF id \in Held(s) THEN Starts(View(s), id, solo) ELSE View(s)
<1>1. CASE s.effects[id] = NoEffect
  BY <1>1 DEF Start, Held
<1>2. CASE s.effects[id] # NoEffect
  <2> DEFINE r == Silence(s, IF solo THEN EffectIds ELSE {})
             e == [r.effects[id] EXCEPT !.playing = TRUE, !.iterations = AtLeastOnce(n), !.startedAt = 0]
             t == [r EXCEPT !.effects[id] = e, !.stopped = FALSE]
             silent == Playing(s) \ (IF solo THEN EffectIds ELSE {})
  <2>1. r \in Session /\ View(r) = [View(s) EXCEPT !.playing = silent]
    BY SilenceView DEF View
  <2>2. /\ r.gain = s.gain /\ r.actuators = s.actuators /\ r.paused = s.paused
        /\ Held(r) = Held(s) /\ Playing(r) = silent
    BY <2>1 DEF View
  <2>3. Start(s, id, n, solo, 0) = t
    BY <1>2 DEF Start
  <2> HIDE DEF r
  <2>4. r.effects[id] \in Effect
    <3>1. id \in Held(r)
      BY <1>2, <2>2 DEF Held
    <3>2. QED
      BY <2>1, <3>1 DEF Held, Session
  <2>5. e \in Effect /\ e.playing = TRUE /\ e # NoEffect
    <3>1. e \in Effect /\ e.playing = TRUE
      <4>1. AtLeastOnce(n) \in PlayCounts
        BY DEF PlayCounts
      <4>2. DEFINE x == r.effects[id]
                   k == AtLeastOnce(n)
      <4>3. x \in Effect /\ k \in PlayCounts /\ 0 \in Int
        BY <2>4, <4>1
      <4> HIDE DEF x, k
      <4>4. e = [x EXCEPT !.playing = TRUE, !.iterations = k, !.startedAt = 0]
        BY DEF x, k
      <4> HIDE DEF e
      <4>5. e \in Effect
        BY <4>3, <4>4 DEF Effect
      <4>6. e.playing = TRUE
        BY <4>3, <4>4 DEF Effect
      <4>7. QED
        BY <4>5, <4>6
    <3>2. QED
      BY <3>1, EffectPresent
  <2> HIDE DEF e
  <2>6. /\ t \in Session /\ t.stopped = FALSE
        /\ t.gain = s.gain /\ t.actuators = s.actuators /\ t.paused = s.paused
        /\ \A i \in EffectIds : t.effects[i] = IF i = id THEN e ELSE r.effects[i]
    BY <2>1, <2>2, <2>5 DEF Session
  <2> HIDE DEF t
  <2>7. Held(t) = Held(s)
    BY <1>2, <2>2, <2>5, <2>6 DEF Held
  <2>8. Playing(t) = silent \cup {id}
    BY <2>2, <2>5, <2>6 DEF Playing, Plays
  <2>9. silent = IF solo THEN {} ELSE Playing(s)
    BY DEF Playing
  <2>10. id \in Held(s)
    BY <1>2 DEF Held
  <2> HIDE DEF silent
  <2>11. QED
    BY <2>3, <2>6, <2>7, <2>8, <2>9, <2>10 DEF View, Starts
<1>3. QED
  BY <1>1, <1>2

\* A session whose effects are gone shows none.
LEMMA EmptyView ==
    ASSUME NEW t \in Session, t.effects = NoEffects
    PROVE  Held(t) = {} /\ Playing(t) = {}
BY DEF Held, Playing, Plays, NoEffects

\* A session with the effects of another shows the same ones.
LEMMA KeptView ==
    ASSUME NEW s \in Session, NEW t \in Session, t.effects = s.effects
    PROVE  Held(t) = Held(s) /\ Playing(t) = Playing(s)
BY DEF Held, Playing, Plays

\* Continuing keeps everything but the pause and the times the effects started at.
LEMMA ContinueKeeps ==
    ASSUME NEW s \in Session
    PROVE  LET t == Continue(s, 0)
           IN /\ t \in Session /\ Held(t) = Held(s) /\ Playing(t) = Playing(s)
              /\ t.gain = s.gain /\ t.actuators = s.actuators /\ t.stopped = s.stopped
              /\ t.paused = FALSE
<1>1. CASE ~s.paused
  BY <1>1 DEF Continue, Session
<1>2. CASE s.paused
  <2> DEFINE effects == [id \in EffectIds |->
                  IF Plays(s, id)
                  THEN [s.effects[id] EXCEPT !.startedAt = @ + (0 - s.pauseStarted)]
                  ELSE s.effects[id]]
             t == Continue(s, 0)
  <2>1. ASSUME NEW id \in EffectIds
        PROVE  /\ effects[id] \in Effect \cup {NoEffect}
               /\ effects[id] = NoEffect <=> s.effects[id] = NoEffect
               /\ (effects[id] # NoEffect /\ effects[id].playing) <=> Plays(s, id)
    <3>1. s.effects[id] \in Effect \cup {NoEffect} /\ s.pauseStarted \in Int
      BY DEF Session
    <3>2. CASE Plays(s, id)
      <4>1. effects[id] = [s.effects[id] EXCEPT !.startedAt = @ + (0 - s.pauseStarted)]
        BY <3>2
      <4>2. s.effects[id] \in Effect
        BY <3>1, <3>2 DEF Plays
      <4> HIDE DEF effects
      <4>3. effects[id] \in Effect /\ effects[id].playing = s.effects[id].playing
        BY <3>1, <4>1, <4>2 DEF Effect
      <4>4. QED
        BY <3>2, <4>2, <4>3, EffectPresent DEF Plays
    <3>3. CASE ~Plays(s, id)
      BY <3>1, <3>3 DEF Plays
    <3>4. QED
      BY <3>2, <3>3
  <2>2. t = [s EXCEPT !.paused = FALSE, !.effects = effects]
    BY <1>2 DEF Continue
  <2>3. effects \in [EffectIds -> Effect \cup {NoEffect}]
    BY <2>1
  <2>4. /\ t \in Session /\ t.effects = effects /\ t.paused = FALSE
        /\ t.gain = s.gain /\ t.actuators = s.actuators /\ t.stopped = s.stopped
    BY <2>2, <2>3 DEF Session
  <2> HIDE DEF effects, t
  <2>5. Held(t) = Held(s) /\ Playing(t) = Playing(s)
    BY <2>1, <2>4 DEF Held, Playing, Plays
  <2>6. QED
    BY <2>4, <2>5 DEF t
<1>3. QED
  BY <1>1, <1>2 DEF Session

\* What each device command does to a session.
LEMMA CommandView ==
    ASSUME NEW s \in Session, NEW name \in CommandNames
    PROVE  /\ Command(s, name, 0) \in Session
           /\ View(Command(s, name, 0)) = Commanding(View(s), name)
<1> DEFINE v == View(s)
<1>1. v \in Views /\ v.held = Held(s) /\ v.playing = Playing(s)
      /\ v.gain = s.gain /\ v.actuators = s.actuators /\ v.paused = s.paused /\ v.stopped = s.stopped
  BY ViewType DEF View
<1>2. CASE name = "reset"
  <2>1. /\ Reset(s) \in Session /\ Reset(s).effects = NoEffects /\ Reset(s).gain = s.gain
        /\ Reset(s).actuators = TRUE /\ Reset(s).paused = FALSE /\ Reset(s).stopped = TRUE
    BY DEF Reset, Session, NoEffects
  <2> DEFINE w == [v EXCEPT !.held = {}, !.playing = {}, !.actuators = TRUE, !.paused = FALSE,
                            !.stopped = TRUE]
  <2>2. w \in Views /\ w.gain = s.gain /\ w.held = {} /\ w.playing = {}
        /\ w.actuators = TRUE /\ w.paused = FALSE /\ w.stopped = TRUE
    BY <1>1 DEF Views
  <2>3. View(Reset(s)).held = {} /\ View(Reset(s)).playing = {}
    BY <2>1, EmptyView DEF View
  <2> HIDE DEF v, w
  <2>4. View(Reset(s)) = w
    BY <2>1, <2>2, <2>3, ViewType, SameView DEF View
  <2>5. Command(s, name, 0) = Reset(s) /\ Commanding(v, name) = w
    BY <1>2 DEF Command, Commanding, w
  <2>6. QED
    BY <2>1, <2>4, <2>5 DEF v
<1>3. CASE name = "stopall"
  <2> DEFINE r == Silence(s, EffectIds)
             t == StopAll(s)
             w == [v EXCEPT !.playing = {}, !.paused = FALSE, !.stopped = TRUE]
  <2>1. r \in Session /\ View(r) = [v EXCEPT !.playing = @ \ EffectIds]
    BY SilenceView
  <2>2. r.gain = s.gain /\ r.actuators = s.actuators /\ Held(r) = Held(s) /\ Playing(r) = {}
    BY <2>1 DEF View, Playing
  <2>3. t = [r EXCEPT !.stopped = TRUE, !.paused = FALSE]
    BY DEF StopAll
  <2> HIDE DEF r, t, v
  <2>4. t \in Session /\ t.effects = r.effects /\ t.gain = s.gain /\ t.actuators = s.actuators
        /\ t.stopped = TRUE /\ t.paused = FALSE
    BY <2>1, <2>2, <2>3 DEF Session
  <2>5. w \in Views /\ w.gain = s.gain /\ w.actuators = s.actuators /\ w.held = Held(s)
        /\ w.playing = {} /\ w.stopped = TRUE /\ w.paused = FALSE
    BY <1>1 DEF Views
  <2> HIDE DEF w
  <2>6. Held(t) = Held(s) /\ Playing(t) = {}
    BY <2>1, <2>2, <2>4, KeptView
  <2>7. View(t) = w
    BY <2>4, <2>5, <2>6, ViewType, SameView DEF View
  <2>8. Command(s, name, 0) = t /\ Commanding(v, name) = w
    BY <1>3 DEF Command, Commanding, t, w
  <2>9. QED
    BY <2>4, <2>7, <2>8 DEF v
<1>4. CASE name = "pause"
  <2> DEFINE t == Pause(s, 0)
             w == [v EXCEPT !.paused = TRUE]
  <2>1. t \in Session /\ t.effects = s.effects /\ t.gain = s.gain /\ t.actuators = s.actuators
        /\ t.stopped = s.stopped /\ t.paused = TRUE
    <3>1. CASE s.paused
      BY <3>1 DEF Pause, Session
    <3>2. CASE ~s.paused
      <4>1. t = [s EXCEPT !.paused = TRUE, !.pauseStarted = 0]
        BY <3>2 DEF Pause
      <4> HIDE DEF t
      <4>2. t \in Session
        <5>1. ASSUME NEW n \in Int
              PROVE  [s EXCEPT !.paused = TRUE, !.pauseStarted = n] \in Session
          BY DEF Session
        <5>2. 0 \in Int
          OBVIOUS
        <5>3. QED
          BY <4>1, <5>1, <5>2, Zenon
      <4>3. QED
        BY <4>1, <4>2 DEF Session
    <3>3. QED
      BY <3>1, <3>2
  <2>2. w \in Views /\ w.gain = s.gain /\ w.actuators = s.actuators /\ w.held = Held(s)
        /\ w.playing = Playing(s) /\ w.stopped = s.stopped /\ w.paused = TRUE
    BY <1>1 DEF Views
  <2> HIDE DEF t, v, w
  <2>3. View(t) = w
    BY <2>1, <2>2, KeptView, ViewType, SameView DEF View
  <2>4. Command(s, name, 0) = t /\ Commanding(v, name) = w
    BY <1>4 DEF Command, Commanding, t, w
  <2>5. QED
    BY <2>1, <2>3, <2>4 DEF v
<1>5. CASE name = "continue"
  <2> DEFINE t == Continue(s, 0)
             w == [v EXCEPT !.paused = FALSE]
  <2>1. t \in Session /\ Held(t) = Held(s) /\ Playing(t) = Playing(s)
        /\ t.gain = s.gain /\ t.actuators = s.actuators /\ t.stopped = s.stopped /\ t.paused = FALSE
    BY ContinueKeeps
  <2>2. w \in Views /\ w.gain = s.gain /\ w.actuators = s.actuators /\ w.held = Held(s)
        /\ w.playing = Playing(s) /\ w.stopped = s.stopped /\ w.paused = FALSE
    BY <1>1 DEF Views
  <2> HIDE DEF t, v, w
  <2>3. View(t) = w
    BY <2>1, <2>2, ViewType, SameView DEF View
  <2>4. Command(s, name, 0) = t /\ Commanding(v, name) = w
    BY <1>5 DEF Command, Commanding, t, w
  <2>5. QED
    BY <2>1, <2>3, <2>4 DEF v
<1>6. ASSUME NEW b \in BOOLEAN
      PROVE  /\ [s EXCEPT !.actuators = b] \in Session
             /\ View([s EXCEPT !.actuators = b]) = [v EXCEPT !.actuators = b]
  <2> DEFINE t == [s EXCEPT !.actuators = b]
             w == [v EXCEPT !.actuators = b]
  <2>1. t \in Session /\ t.effects = s.effects /\ t.gain = s.gain /\ t.actuators = b
        /\ t.stopped = s.stopped /\ t.paused = s.paused
    BY DEF Session
  <2>2. w \in Views /\ w.gain = s.gain /\ w.actuators = b /\ w.held = Held(s)
        /\ w.playing = Playing(s) /\ w.stopped = s.stopped /\ w.paused = s.paused
    BY <1>1 DEF Views
  <2> HIDE DEF t, v, w
  <2>3. View(t) = w
    BY <2>1, <2>2, KeptView, ViewType, SameView DEF View
  <2>4. QED
    BY <2>1, <2>3 DEF t, w
<1>7. CASE name = "actuators_on"
  BY <1>6, <1>7 DEF Command, Commanding
<1>8. CASE name = "actuators_off"
  BY <1>6, <1>8 DEF Command, Commanding
<1>9. CASE name = "other"
  BY <1>9 DEF Command, Commanding
<1>10. QED
  BY <1>2, <1>3, <1>4, <1>5, <1>7, <1>8, <1>9 DEF CommandNames

\* What each message does to a session that is there, if it leaves it there.
ViewAfter(v, m) ==
    CASE m.op = "device" -> NewView
      [] m.op = "gain" -> [v EXCEPT !.gain = Clamp(m.value, 0, DIMax)]
      [] m.op = "effect" -> IF m.start
                            THEN Starts([v EXCEPT !.held = @ \cup {m.id}], m.id, FALSE)
                            ELSE [v EXCEPT !.held = @ \cup {m.id}]
      [] m.op = "destroy" -> [v EXCEPT !.held = @ \ {m.id}, !.playing = @ \ {m.id}]
      [] m.op = "stop" -> [v EXCEPT !.playing = @ \ {m.id}]
      [] m.op = "start" -> IF m.id \in v.held THEN Starts(v, m.id, m.solo) ELSE v
      [] m.op = "command" -> Commanding(v, m.name)
      [] m.op = "unusable" -> v

\* The service's session changes like its view.
LEMMA HandleView ==
    ASSUME NEW s \in Session, NEW m \in Messages
    PROVE  IF m.op = "device" /\ ~m.begin
           THEN Handle(s, m, 0) = NoSession
           ELSE Handle(s, m, 0) \in Session /\ View(Handle(s, m, 0)) = ViewAfter(View(s), m)
<1> DEFINE t == Handle(s, m, 0)
<1>0. s # NoSession
  BY SessionPresent
<1>2. CASE m \in [op : {"device"}, begin : BOOLEAN]
  <2>1. /\ BeginDevice(s) \in Session /\ BeginDevice(s).effects = NoEffects
        /\ BeginDevice(s).gain = DIMax /\ BeginDevice(s).actuators = TRUE
        /\ BeginDevice(s).paused = FALSE /\ BeginDevice(s).stopped = TRUE
    BY NewSessionView DEF BeginDevice, Session, NewSession, NoEffects
  <2>2. View(BeginDevice(s)) = NewView
    BY <2>1, EmptyView DEF View, NewView
  <2>3. t = IF m.begin THEN BeginDevice(s) ELSE NoSession
    BY <1>0, <1>2 DEF Handle
  <2>4. ViewAfter(View(s), m) = NewView
    BY <1>2 DEF ViewAfter
  <2>5. QED
    BY <1>2, <2>1, <2>2, <2>3, <2>4
<1>3. CASE m \in [op : {"gain"}, value : Gains]
  <2> DEFINE g == Clamp(m.value, 0, DIMax)
             v == View(s)
             w == [v EXCEPT !.gain = g]
  <2>1. g \in 0 .. DIMax
    <3>1. m.value \in Int /\ DIMax \in Nat
      BY <1>3, GainAssumption
    <3>2. QED
      BY <3>1 DEF Clamp
  <2>2. t = SetGain(s, m.value) /\ ViewAfter(v, m) = w
    BY <1>0, <1>3 DEF Handle, ViewAfter
  <2>3. /\ v \in Views /\ v.held = Held(s) /\ v.playing = Playing(s) /\ v.actuators = s.actuators
        /\ v.paused = s.paused /\ v.stopped = s.stopped
    BY ViewType DEF View
  <2> HIDE DEF g, v
  <2>4. t = [s EXCEPT !.gain = g]
    BY <2>2 DEF SetGain, g
  <2>5. /\ t \in Session /\ t.effects = s.effects /\ t.gain = g /\ t.actuators = s.actuators
        /\ t.paused = s.paused /\ t.stopped = s.stopped
    BY <2>1, <2>4 DEF Session
  <2>6. /\ w \in Views /\ w.held = Held(s) /\ w.playing = Playing(s) /\ w.gain = g
        /\ w.actuators = s.actuators /\ w.paused = s.paused /\ w.stopped = s.stopped
    BY <2>1, <2>3 DEF Views
  <2> HIDE DEF t, w
  <2>7. View(t) = w
    BY <2>5, <2>6, KeptView, ViewType, SameView DEF View
  <2>8. QED
    BY <1>3, <2>2, <2>5, <2>7 DEF t, v
<1>4. CASE m \in [op : {"effect"}, id : EffectIds, shape : Shapes, start : BOOLEAN, count : Counts]
  <2> DEFINE loaded == Download(s, m.id, m.shape)
             w == [View(s) EXCEPT !.held = @ \cup {m.id}]
  <2>1. loaded \in Session /\ View(loaded) = w
    BY <1>4, DownloadView
  <2>2. m.id \in Held(loaded)
    <3>1. View(loaded).held = Held(s) \cup {m.id}
      BY <2>1 DEF View
    <3>2. QED
      BY <3>1 DEF View
  <2>3. /\ t = IF m.start THEN Start(loaded, m.id, m.count, FALSE, 0) ELSE loaded
        /\ ViewAfter(View(s), m) = IF m.start THEN Starts(w, m.id, FALSE) ELSE w
    BY <1>0, <1>4 DEF Handle, ViewAfter
  <2> HIDE DEF loaded, w
  <2>4. /\ Start(loaded, m.id, m.count, FALSE, 0) \in Session
        /\ View(Start(loaded, m.id, m.count, FALSE, 0)) = Starts(w, m.id, FALSE)
    BY <1>4, <2>1, <2>2, StartView
  <2>5. QED
    BY <1>4, <2>1, <2>3, <2>4
<1>5. CASE m \in [op : {"destroy", "stop"}, id : EffectIds]
  <2>1. CASE m.op = "destroy"
    <3>1. t = Destroy(s, m.id)
      BY <1>0, <2>1 DEF Handle
    <3>2. ViewAfter(View(s), m) = [View(s) EXCEPT !.held = @ \ {m.id}, !.playing = @ \ {m.id}]
      BY <2>1 DEF ViewAfter
    <3>3. m.id \in EffectIds
      BY <1>5
    <3>4. t \in Session /\ View(t) = ViewAfter(View(s), m)
      BY <3>1, <3>2, <3>3, DestroyView
    <3>5. QED
      BY <2>1, <3>4
  <2>2. CASE m.op = "stop"
    <3>1. t = Silence(s, {m.id})
      BY <1>0, <2>2 DEF Handle
    <3>2. ViewAfter(View(s), m) = [View(s) EXCEPT !.playing = @ \ {m.id}]
      BY <2>2 DEF ViewAfter
    <3>3. QED
      BY <1>5, <2>2, <3>1, <3>2, SilenceView
  <2>3. QED
    BY <1>5, <2>1, <2>2
<1>6. CASE m \in [op : {"start"}, id : EffectIds, count : Counts, solo : BOOLEAN]
  <2>1. t = Start(s, m.id, m.count, m.solo, 0)
    BY <1>0, <1>6 DEF Handle
  <2>2. ViewAfter(View(s), m) = IF m.id \in Held(s) THEN Starts(View(s), m.id, m.solo) ELSE View(s)
    BY <1>6 DEF ViewAfter, View
  <2>3. QED
    BY <1>6, <2>1, <2>2, StartView
<1>7. CASE m \in [op : {"command"}, name : CommandNames]
  <2>1. t = Command(s, m.name, 0) /\ ViewAfter(View(s), m) = Commanding(View(s), m.name)
    BY <1>0, <1>7 DEF Handle, ViewAfter
  <2>2. QED
    BY <1>7, <2>1, CommandView
<1>8. CASE m \in [op : {"unusable"}]
  <2>1. t = s /\ ViewAfter(View(s), m) = View(s)
    BY <1>0, <1>8 DEF Handle, ViewAfter
  <2>2. QED
    BY <1>8, <2>1
<1>9. QED
  BY <1>2, <1>3, <1>4, <1>5, <1>6, <1>7, <1>8 DEF Messages

\* A message to a client without a session meets a new one.
LEMMA HandleNew ==
    ASSUME NEW m \in Messages
    PROVE  Handle(NoSession, m, 0) = Handle(NewSession, m, 0)
<1>1. NewSession # NoSession
  BY NewSessionView, SessionPresent
<1>2. QED
  BY <1>1 DEF Handle

-----------------------------------------------------------------------------
(* Reading the same messages keeps two sessions alike that differ only in effects that   *)
(* have ended by themselves.                                                             *)

MaybeSession == Session \cup {NoSession}

Like(v, w) ==
    /\ v.gain = w.gain /\ v.actuators = w.actuators /\ v.paused = w.paused
    /\ v.stopped = w.stopped /\ v.held = w.held /\ v.playing \subseteq w.playing

Alike(a, b) ==
    /\ a = NoSession <=> b = NoSession
    /\ a # NoSession => Like(View(a), View(b))

\* A device command keeps two views alike.
LEMMA CommandingLike ==
    ASSUME NEW v \in Views, NEW w \in Views, Like(v, w), NEW name \in CommandNames
    PROVE  Like(Commanding(v, name), Commanding(w, name))
<1>1. CASE name = "reset"
  BY <1>1 DEF Commanding, Like, Views
<1>2. CASE name = "stopall"
  BY <1>2 DEF Commanding, Like, Views
<1>3. CASE name = "pause"
  BY <1>3 DEF Commanding, Like, Views
<1>4. CASE name = "continue"
  BY <1>4 DEF Commanding, Like, Views
<1>5. CASE name = "actuators_on"
  BY <1>5 DEF Commanding, Like, Views
<1>6. CASE name = "actuators_off"
  BY <1>6 DEF Commanding, Like, Views
<1>7. CASE name = "other"
  BY <1>7 DEF Commanding, Like, Views
<1>8. QED
  BY <1>1, <1>2, <1>3, <1>4, <1>5, <1>6, <1>7 DEF CommandNames

\* So does every message.
LEMMA AfterLike ==
    ASSUME NEW v \in Views, NEW w \in Views, Like(v, w), NEW m \in Messages
    PROVE  Like(ViewAfter(v, m), ViewAfter(w, m))
<1>1. CASE m.op = "device"
  BY <1>1 DEF ViewAfter, Like, NewView
<1>2. CASE m.op = "gain"
  <2>1. ViewAfter(v, m) = [v EXCEPT !.gain = Clamp(m.value, 0, DIMax)]
        /\ ViewAfter(w, m) = [w EXCEPT !.gain = Clamp(m.value, 0, DIMax)]
    BY <1>2 DEF ViewAfter
  <2>2. QED
    BY <2>1 DEF Like, Views
<1>3. CASE m.op = "effect"
  <2>1. CASE m.start
    BY <1>3, <2>1 DEF ViewAfter, Starts, Like, Views
  <2>2. CASE ~m.start
    BY <1>3, <2>2 DEF ViewAfter, Like, Views
  <2>3. QED
    BY <2>1, <2>2
<1>4. CASE m.op = "destroy"
  BY <1>4 DEF ViewAfter, Like, Views
<1>5. CASE m.op = "stop"
  BY <1>5 DEF ViewAfter, Like, Views
<1>6. CASE m.op = "start"
  <2>1. CASE m.id \in v.held
    BY <1>6, <2>1 DEF ViewAfter, Starts, Like, Views
  <2>2. CASE m.id \notin v.held
    BY <1>6, <2>2 DEF ViewAfter, Like
  <2>3. QED
    BY <2>1, <2>2
<1>7. CASE m.op = "command"
  <2>1. m.name \in CommandNames
    BY <1>7 DEF Messages
  <2>2. QED
    BY <1>7, <2>1, CommandingLike DEF ViewAfter
<1>8. CASE m.op = "unusable"
  BY <1>8 DEF ViewAfter
<1>9. QED
  BY <1>1, <1>2, <1>3, <1>4, <1>5, <1>6, <1>7, <1>8 DEF Messages

\* A message leaves a session or none.
LEMMA HandleType ==
    ASSUME NEW s \in MaybeSession, NEW m \in Messages
    PROVE  Handle(s, m, 0) \in MaybeSession
BY HandleView, HandleNew, NewSessionView DEF MaybeSession

\* The engine keeps two sessions alike.
LEMMA HandleAlike ==
    ASSUME NEW a \in MaybeSession, NEW b \in MaybeSession, Alike(a, b), NEW m \in Messages
    PROVE  Alike(Handle(a, m, 0), Handle(b, m, 0))
<1>1. CASE a = NoSession
  <2>1. a = b
    BY <1>1 DEF Alike
  <2>2. QED
    BY <2>1 DEF Alike, Like
<1>2. CASE a # NoSession
  <2>1. a \in Session /\ b \in Session /\ Like(View(a), View(b))
    BY <1>2 DEF Alike, MaybeSession
  <2>2. View(a) \in Views /\ View(b) \in Views
    BY <2>1, ViewType
  <2>3. CASE m.op = "device" /\ ~m.begin
    <3>1. Handle(a, m, 0) = NoSession /\ Handle(b, m, 0) = NoSession
      BY <2>1, <2>3, HandleView
    <3>2. QED
      BY <3>1 DEF Alike
  <2>4. CASE ~(m.op = "device" /\ ~m.begin)
    <3>1. /\ Handle(a, m, 0) \in Session /\ View(Handle(a, m, 0)) = ViewAfter(View(a), m)
          /\ Handle(b, m, 0) \in Session /\ View(Handle(b, m, 0)) = ViewAfter(View(b), m)
      BY <2>1, <2>4, HandleView
    <3>2. Like(ViewAfter(View(a), m), ViewAfter(View(b), m))
      BY <2>1, <2>2, AfterLike
    <3>3. QED
      BY <3>1, <3>2, SessionPresent DEF Alike
  <2>5. QED
    BY <2>3, <2>4
<1>3. QED
  BY <1>1, <1>2

\* So reading a queue leaves sessions, and keeps two of them alike.
LEMMA AfterAlike ==
    ASSUME NEW a \in MaybeSession, NEW b \in MaybeSession, Alike(a, b),
           NEW queue \in Seq(Messages)
    PROVE  /\ After(a, queue) \in MaybeSession /\ After(b, queue) \in MaybeSession
           /\ Alike(After(a, queue), After(b, queue))
<1> DEFINE n == Len(queue)
<1>1. n \in Nat /\ \A k \in 1 .. n : queue[k] \in Messages
  OBVIOUS
<1>2. PICK f : IsRun(f, a, queue, n) /\ After(a, queue) = f[n]
  BY <1>1, AfterRun
<1>3. PICK g : IsRun(g, b, queue, n) /\ After(b, queue) = g[n]
  BY <1>1, AfterRun
<1> HIDE DEF n
<1>4. \A k \in 0 .. n : f[k] = IF k = 0 THEN a ELSE Handle(f[k - 1], queue[k], 0)
  BY <1>2 DEF IsRun
<1>5. \A k \in 0 .. n : g[k] = IF k = 0 THEN b ELSE Handle(g[k - 1], queue[k], 0)
  BY <1>3 DEF IsRun
<1> DEFINE Good(k) == f[k] \in MaybeSession /\ g[k] \in MaybeSession /\ Alike(f[k], g[k])
           T == {k \in 0 .. n : ~Good(k)}
<1>6. Good(0)
  BY <1>1, <1>4, <1>5
<1>7. ASSUME NEW k \in 1 .. n, Good(k - 1) PROVE Good(k)
  <2>1. k \in 0 .. n /\ k # 0 /\ queue[k] \in Messages
    BY <1>1
  <2>2. f[k] = Handle(f[k - 1], queue[k], 0) /\ g[k] = Handle(g[k - 1], queue[k], 0)
    BY <1>4, <1>5, <2>1
  <2>3. QED
    BY <1>7, <2>1, <2>2, HandleType, HandleAlike
<1> HIDE DEF Good
<1>8. T = {}
  <2>1. SUFFICES ASSUME T # {} PROVE FALSE
    OBVIOUS
  <2>2. T \subseteq Nat
    OBVIOUS
  <2>3. PICK k \in T : \A j \in T : k <= j
    <3> HIDE DEF T
    <3>1. QED
      BY <2>1, <2>2, Least
  <2>4. k \in 0 .. n /\ ~Good(k)
    OBVIOUS
  <2>5. k # 0
    BY <1>6, <2>4
  <2>6. k - 1 \in 0 .. n /\ k - 1 \notin T /\ k \in 1 .. n
    BY <1>1, <2>3, <2>4, <2>5
  <2>7. Good(k - 1)
    BY <2>6
  <2>8. QED
    BY <1>7, <2>4, <2>6, <2>7
<1>9. n \in 0 .. n
  BY <1>1
<1>10. Good(n)
  BY <1>8, <1>9
<1>11. QED
  BY <1>2, <1>3, <1>10 DEF Good

-----------------------------------------------------------------------------
(* The inductive invariant. *)

ConnState == [peer : {"none", "backlog", "served", "gone"}, queue : Seq(Messages),
              ended : BOOLEAN]

\* Of the connections the service still has, only the driver's own is open.
LinkIsAlone == \A c \in Conns : Reached(c) /\ c # link => conn[c].ended

LinkIsOpen ==
    /\ link # NoConn => ~conn[link].ended
    /\ told => link # NoConn

\* A connection has a session only while it is served.
SessionsAreServed == \A c \in Conns : conn[c].peer # "served" => session[c] = NoSession

IInv ==
    /\ TypeOK
    /\ conn \in [Conns -> ConnState]
    /\ LinkIsAlone
    /\ LinkIsOpen
    /\ SessionsAreServed
    /\ NothingUnasked
    /\ MirrorIsTrue

-----------------------------------------------------------------------------
(* What is settled of each connection, before and after a message is sent. *)

\* A session the driver's mirror may be silent about nothing of: what it holds the driver
\* holds, and it plays only for a driver that said start.
Covered(s, driver) ==
    s # NoSession => Held(s) \subseteq driver.held /\ (~s.stopped => ~driver.stopped)

\* A session the driver's answers are true of.
Mirrors(s, driver) ==
    /\ s # NoSession
    /\ s.gain = driver.gain /\ s.actuators = driver.actuators
    /\ s.paused = driver.paused /\ s.stopped = driver.stopped
    /\ Held(s) = driver.held /\ Playing(s) \subseteq driver.playing

\* Only the driver's own connection can have a session once all is read.
LEMMA SettledOthers ==
    ASSUME LinkIsAlone, SessionsAreServed, NEW c \in Conns
    PROVE  c # link \/ ~Reached(c) \/ conn[c].ended => Settled(c) = NoSession
BY DEF LinkIsAlone, SessionsAreServed, Settled, Reached

\* What is settled is a session or none.
LEMMA SettledType ==
    ASSUME TypeOK, conn \in [Conns -> ConnState], NEW c \in Conns
    PROVE  Settled(c) \in MaybeSession
<1>1. session[c] \in MaybeSession /\ NewSession \in MaybeSession /\ NoSession \in MaybeSession
  BY NewSessionView DEF TypeOK, MaybeSession
<1>2. conn[c].queue \in Seq(Messages)
  BY DEF ConnState
<1>3. \A s \in MaybeSession : After(s, conn[c].queue) \in MaybeSession
  BY <1>2, AfterAlike DEF Alike, Like
<1>4. QED
  BY <1>1, <1>3 DEF Settled

\* NothingUnasked and MirrorIsTrue, in these words.
LEMMA InWords ==
    /\ NothingUnasked <=> \A c \in Conns : /\ c # link => Settled(c) = NoSession
                                           /\ c = link => Covered(Settled(c), mirror)
    /\ MirrorIsTrue <=> (told /\ mirror.active => Mirrors(Settled(link), mirror))
BY DEF NothingUnasked, MirrorIsTrue, Covered, Mirrors

\* A new connection is one that was not used before.
LEMMA UnusedIsThere ==
    ASSUME Unused # {}
    PROVE  Min(Unused) \in Conns /\ conn[Min(Unused)].peer = "none"
<1>1. Unused \subseteq Nat
  BY LinkAssumption DEF Unused, Conns
<1>2. \E n \in Unused : \A k \in Unused : n <= k
  BY <1>1, Least
<1>3. Min(Unused) \in Unused
  BY <1>2 DEF Min
<1>4. QED
  BY <1>3 DEF Unused

\* A message alone in a new connection meets a new session.
LEMMA AfterOne ==
    ASSUME NEW m \in Messages PROVE After(NewSession, <<m>>) = Handle(NewSession, m, 0)
<1>1. << >> \in Seq(Messages) /\ Append(<< >>, m) = <<m>>
  OBVIOUS
<1>2. After(NewSession, Append(<< >>, m)) = Handle(After(NewSession, << >>), m, 0)
  BY <1>1, AfterAppend
<1>3. QED
  BY <1>1, <1>2, AfterNothing

\* What a message finds and leaves: it arrives behind what was sent before, or first in a
\* new connection, or not at all, and then nothing is left of the driver's session.
Arrives(m, begins) ==
    /\ conn' \in [Conns -> ConnState]
    /\ \A c \in Conns : Len(conn'[c].queue) <= MaxQueue
    /\ link' \in Conns \cup {NoConn} /\ told' \in BOOLEAN /\ breaks' \in 0 .. MaxBreaks
    /\ LinkIsAlone' /\ LinkIsOpen' /\ SessionsAreServed'
    /\ link' # NoConn =>
          \/ Settled(link)' = NoSession /\ told' = FALSE
          \/ /\ link' = link /\ Settled(link)' = Handle(Settled(link), m, 0)
             /\ told' = (told \/ begins)
          \/ Settled(link)' = Handle(NewSession, m, 0) /\ told' = begins

\* A message behind others.
LEMMA SendBehind ==
    ASSUME IInv, NEW m \in Messages, NEW begins \in BOOLEAN, UNCHANGED session,
           link # NoConn, Reached(link), Len(conn[link].queue) < MaxQueue,
           conn' = [conn EXCEPT ![link].queue = Append(@, m)],
           told' = (told \/ begins), UNCHANGED <<link, breaks>>
    PROVE  Arrives(m, begins)
<1> USE DEF IInv
<1>1. link \in Conns /\ ~conn[link].ended
  BY DEF TypeOK, LinkIsOpen
<1>2. conn[link] \in ConnState /\ conn[link].queue \in Seq(Messages)
  BY <1>1 DEF ConnState
<1>3. /\ conn'[link].queue = Append(conn[link].queue, m)
      /\ conn'[link].peer = conn[link].peer /\ conn'[link].ended = conn[link].ended
      /\ conn'[link] \in ConnState
      /\ Len(conn'[link].queue) <= MaxQueue
  <2> DEFINE q == Append(conn[link].queue, m)
  <2>1. conn'[link] = [conn[link] EXCEPT !.queue = q]
    BY <1>1
  <2>2. q \in Seq(Messages) /\ Len(q) = Len(conn[link].queue) + 1 /\ Len(conn[link].queue) \in Nat
    BY <1>2
  <2>3. Len(q) <= MaxQueue
    BY <2>2, LinkAssumption
  <2> HIDE DEF q
  <2>4. /\ conn'[link].queue = q
        /\ conn'[link].peer = conn[link].peer /\ conn'[link].ended = conn[link].ended
        /\ conn'[link] \in ConnState
    BY <1>2, <2>1, <2>2 DEF ConnState
  <2>5. QED
    BY <2>3, <2>4 DEF q
<1>4. \A c \in Conns : c # link => conn'[c] = conn[c]
  OBVIOUS
<1>5. conn' \in [Conns -> ConnState] /\ \A c \in Conns : Len(conn'[c].queue) <= MaxQueue
  BY <1>3, <1>4 DEF TypeOK
<1>6. LinkIsAlone' /\ LinkIsOpen' /\ SessionsAreServed'
  BY <1>1, <1>3, <1>4 DEF LinkIsAlone, LinkIsOpen, SessionsAreServed, Reached
<1>7. Settled(link)' = Handle(Settled(link), m, 0)
  <2> DEFINE s == IF conn[link].peer = "backlog" THEN NewSession ELSE session[link]
  <2>1. Settled(link) = After(s, conn[link].queue)
    BY <1>1 DEF Settled
  <2>2. Settled(link)' = After(s, Append(conn[link].queue, m))
    BY <1>1, <1>3 DEF Settled, Reached
  <2> HIDE DEF s
  <2>3. QED
    BY <1>2, <2>1, <2>2, AfterAppend
<1>8. link' \in Conns \cup {NoConn} /\ told' \in BOOLEAN /\ breaks' \in 0 .. MaxBreaks
  BY DEF TypeOK
<1>9. QED
  BY <1>5, <1>6, <1>7, <1>8 DEF Arrives

\* A connection closed, and perhaps another opened.
LEMMA SendAgain ==
    ASSUME IInv, NEW m \in Messages, NEW begins \in BOOLEAN, UNCHANGED session,
           NEW left \in 0 .. MaxBreaks, Reconnect(link, m, begins, left)
    PROVE  Arrives(m, begins)
<1> USE DEF IInv
<1> DEFINE closed == [c \in Conns |-> IF c = link THEN [conn[c] EXCEPT !.ended = TRUE] ELSE conn[c]]
<1>1. ASSUME NEW c \in Conns
      PROVE  /\ closed[c] \in ConnState
             /\ closed[c].peer = conn[c].peer /\ closed[c].queue = conn[c].queue
             /\ Len(closed[c].queue) <= MaxQueue
             /\ closed[c].peer \in {"backlog", "served"} => closed[c].ended
  <2>1. conn[c] \in ConnState /\ Len(conn[c].queue) <= MaxQueue
    BY DEF TypeOK
  <2>2. CASE c = link
    BY <2>1, <2>2 DEF ConnState
  <2>3. CASE c # link
    BY <2>1, <2>3 DEF LinkIsAlone, Reached
  <2>4. QED
    BY <2>2, <2>3
<1>2. closed \in [Conns -> ConnState]
  BY <1>1
<1>3. CASE /\ up /\ Unused # {}
           /\ link' = Min(Unused)
           /\ conn' = [closed EXCEPT ![Min(Unused)] = [peer |-> "backlog", queue |-> <<m>>, ended |-> FALSE]]
           /\ told' = begins
           /\ breaks' = left
  <2> DEFINE u == Min(Unused)
  <2>1. u \in Conns /\ conn[u].peer = "none"
    BY <1>3, UnusedIsThere
  <2>2. <<m>> \in Seq(Messages) /\ Len(<<m>>) = 1 /\ 1 <= MaxQueue
    BY LinkAssumption
  <2>3. [peer |-> "backlog", queue |-> <<m>>, ended |-> FALSE] \in ConnState
    BY <2>2 DEF ConnState
  <2> HIDE DEF closed, u
  <2>4. /\ conn'[u] = [peer |-> "backlog", queue |-> <<m>>, ended |-> FALSE]
        /\ \A c \in Conns : c # u => conn'[c] = closed[c]
        /\ conn' \in [Conns -> ConnState] /\ link' = u
    BY <1>2, <1>3, <2>1, <2>3 DEF u
  <2>5. ASSUME NEW c \in Conns PROVE Len(conn'[c].queue) <= MaxQueue
    <3>1. c = u => conn'[c].queue = <<m>>
      BY <2>4
    <3>2. c # u => conn'[c].queue = closed[c].queue /\ Len(closed[c].queue) <= MaxQueue
      BY <1>1, <2>4
    <3>3. QED
      BY <2>2, <3>1, <3>2
  <2>6. LinkIsAlone' /\ LinkIsOpen'
    BY <1>1, <2>1, <2>4 DEF LinkIsAlone, LinkIsOpen, Reached, Conns, NoConn
  <2>7. SessionsAreServed'
    BY <1>1, <2>1, <2>4 DEF SessionsAreServed
  <2>8. Settled(link)' = Handle(NewSession, m, 0)
    BY <2>4, AfterOne DEF Settled, Reached
  <2>9. QED
    BY <1>3, <2>1, <2>4, <2>5, <2>6, <2>7, <2>8 DEF Arrives
<1>4. CASE /\ ~up \/ left > 0
           /\ link' = NoConn /\ conn' = closed
           /\ told' = FALSE
           /\ breaks' = IF up THEN left - 1 ELSE left
  <2> HIDE DEF closed
  <2>1. LinkIsAlone' /\ LinkIsOpen' /\ SessionsAreServed'
    BY <1>1, <1>4 DEF LinkIsAlone, LinkIsOpen, SessionsAreServed, Reached
  <2>2. breaks' \in 0 .. MaxBreaks
    BY <1>4, LinkAssumption
  <2>3. QED
    BY <1>1, <1>2, <1>4, <2>1, <2>2 DEF Arrives
<1>5. QED
  BY <1>3, <1>4 DEF Reconnect

\* Each way of sending.
LEMMA SendLineArrives ==
    ASSUME IInv, NEW m \in Messages, NEW begins \in BOOLEAN, UNCHANGED session,
           SendLine(m, begins)
    PROVE  Arrives(m, begins)
<1> USE DEF IInv
<1>1. CASE /\ link # NoConn /\ Reached(link) /\ Len(conn[link].queue) < MaxQueue
           /\ conn' = [conn EXCEPT ![link].queue = Append(@, m)]
           /\ told' = (told \/ begins)
           /\ UNCHANGED <<link, breaks>>
  BY <1>1, SendBehind
<1>2. CASE /\ link # NoConn /\ ~Reached(link)
           /\ told' = FALSE
           /\ UNCHANGED <<link, conn, breaks>>
  <2>1. link \in Conns /\ Settled(link)' = NoSession
    BY <1>2, SettledOthers DEF TypeOK, Settled, Reached
  <2>2. LinkIsAlone' /\ LinkIsOpen' /\ SessionsAreServed'
    BY <1>2 DEF LinkIsAlone, LinkIsOpen, SessionsAreServed, Reached
  <2>3. QED
    BY <1>2, <2>1, <2>2 DEF Arrives, TypeOK
<1>3. CASE Reconnect(link, m, begins, breaks)
  BY <1>3, SendAgain DEF TypeOK
<1>4. CASE breaks > 0 /\ Reconnect(link, m, begins, breaks - 1)
  <2>1. breaks - 1 \in 0 .. MaxBreaks
    BY <1>4, LinkAssumption DEF TypeOK
  <2>2. QED
    BY <1>4, <2>1, SendAgain
<1>5. QED
  BY <1>1, <1>2, <1>3, <1>4 DEF SendLine

-----------------------------------------------------------------------------
(* The calls of the game. *)

\* Covered and Mirrors, of a view.
ViewCovered(v, driver) == v.held \subseteq driver.held /\ (~v.stopped => ~driver.stopped)

ViewMirrors(v, driver) ==
    /\ v.gain = driver.gain /\ v.actuators = driver.actuators
    /\ v.paused = driver.paused /\ v.stopped = driver.stopped
    /\ v.held = driver.held /\ v.playing \subseteq driver.playing

\* The words mean the same of a session and of its view.
LEMMA ViewWords ==
    ASSUME NEW s \in Session, NEW driver
    PROVE  /\ Covered(s, driver) <=> ViewCovered(View(s), driver)
           /\ Mirrors(s, driver) <=> ViewMirrors(View(s), driver)
BY SessionPresent DEF Covered, Mirrors, ViewCovered, ViewMirrors, View

\* A call keeps the invariant if its message does to every view what the call does to
\* the mirror.
LEMMA CallKeeps ==
    ASSUME IInv, NEW m \in Messages, ~(m.op = "device" /\ ~m.begin), NEW begins \in BOOLEAN,
           SendLine(m, begins), UNCHANGED <<alive, session, up, kills>>,
           begins \/ mirror.active, mirror' \in Mirror,
           \A v \in Views : ViewCovered(v, mirror) => ViewCovered(ViewAfter(v, m), mirror'),
           \A v \in Views : begins \/ ViewMirrors(v, mirror) => ViewMirrors(ViewAfter(v, m), mirror')
    PROVE  IInv'
<1>1. Arrives(m, begins)
  BY SendLineArrives
<1>2. TypeOK' /\ (conn \in [Conns -> ConnState])' /\ LinkIsAlone' /\ LinkIsOpen' /\ SessionsAreServed'
  <2>1. \A c \in Conns : /\ conn'[c].peer \in {"none", "backlog", "served", "gone"}
                         /\ conn'[c].queue \in Seq(Messages) /\ conn'[c].ended \in BOOLEAN
    BY <1>1 DEF Arrives, ConnState
  <2>2. QED
    BY <1>1, <2>1 DEF Arrives, IInv, TypeOK
<1>3. ASSUME NEW s \in Session, Covered(s, mirror)
      PROVE  Covered(Handle(s, m, 0), mirror')
  BY <1>3, HandleView, ViewWords, ViewType
<1>4. ASSUME NEW s \in Session, begins \/ Mirrors(s, mirror)
      PROVE  Mirrors(Handle(s, m, 0), mirror')
  BY <1>4, HandleView, ViewWords, ViewType
<1>5. /\ Covered(Handle(NewSession, m, 0), mirror')
      /\ begins => Mirrors(Handle(NewSession, m, 0), mirror')
  <2>1. NewSession \in Session /\ Covered(NewSession, mirror)
    BY NewSessionView, ViewWords DEF ViewCovered, NewView
  <2>2. QED
    BY <1>3, <1>4, <2>1
<1>6. ASSUME NEW s \in MaybeSession, Covered(s, mirror)
      PROVE  Covered(Handle(s, m, 0), mirror')
  BY <1>3, <1>5, <1>6, HandleNew DEF MaybeSession
<1>7. ASSUME NEW s \in MaybeSession, begins \/ Mirrors(s, mirror)
      PROVE  Mirrors(Handle(s, m, 0), mirror')
  BY <1>4, <1>5, <1>7, HandleNew DEF MaybeSession, Mirrors
<1>8. ASSUME link' # NoConn
      PROVE  /\ Covered(Settled(link)', mirror')
             /\ told' => Mirrors(Settled(link)', mirror')
  <2>1. CASE Settled(link)' = NoSession /\ told' = FALSE
    BY <2>1 DEF Covered
  <2>2. CASE /\ link' = link /\ Settled(link)' = Handle(Settled(link), m, 0)
             /\ told' = (told \/ begins)
    <3>1. link \in Conns
      BY <1>1, <1>8, <2>2 DEF Arrives
    <3>2. Settled(link) \in MaybeSession
      BY <3>1, SettledType DEF IInv
    <3>3. Covered(Settled(link), mirror)
      BY <3>1, InWords DEF IInv
    <3>4. told' => begins \/ Mirrors(Settled(link), mirror)
      BY <2>2, InWords DEF IInv
    <3>5. QED
      BY <1>6, <1>7, <2>2, <3>2, <3>3, <3>4
  <2>3. CASE Settled(link)' = Handle(NewSession, m, 0) /\ told' = begins
    BY <1>5, <2>3
  <2>4. QED
    BY <1>1, <1>8, <2>1, <2>2, <2>3 DEF Arrives
<1>9. ASSUME NEW c \in Conns, c # link' PROVE Settled(c)' = NoSession
  BY <1>2, <1>9 DEF LinkIsAlone, SessionsAreServed, Settled, Reached
<1>10. NothingUnasked'
  <2>1. NothingUnasked' <=> \A c \in Conns : /\ c # link' => Settled(c)' = NoSession
                                             /\ c = link' => Covered(Settled(c)', mirror')
    BY DEF NothingUnasked, Covered
  <2>2. \A c \in Conns : c = link' => Settled(c)' = Settled(link)' /\ link' # NoConn
    BY DEF Settled, Reached, Conns, NoConn
  <2>3. QED
    BY <1>8, <1>9, <2>1, <2>2
<1>11. MirrorIsTrue'
  <2>1. MirrorIsTrue' <=> (told' /\ mirror'.active => Mirrors(Settled(link)', mirror'))
    BY DEF MirrorIsTrue, Mirrors
  <2>2. QED
    BY <1>2, <1>8, <2>1 DEF LinkIsOpen
<1>12. QED
  BY <1>2, <1>10, <1>11 DEF IInv

\* Opening the device.
LEMMA DeviceBeginKeeps == IInv /\ DeviceBegin => IInv'
<1> SUFFICES ASSUME IInv, DeviceBegin PROVE IInv'
  OBVIOUS
<1> DEFINE m == Device(TRUE)
<1>1. m \in Messages /\ m.op = "device" /\ m.begin = TRUE
  BY DEF Device, Messages
<1>2. mirror' \in Mirror /\ mirror'.held = {} /\ mirror'.playing = {} /\ mirror'.stopped = TRUE
      /\ mirror'.gain = DIMax /\ mirror'.actuators = TRUE /\ mirror'.paused = FALSE
  <2>1. DIMax \in 0 .. DIMax /\ 0 \in 0 .. Cardinality(EffectIds)
    BY GainAssumption, LinkAssumption, FS_CardinalityType
  <2>2. QED
    BY <2>1 DEF DeviceBegin, NewMirror, Mirror
<1>3. SendLine(m, TRUE) /\ UNCHANGED <<alive, session, up, kills>>
  BY DEF DeviceBegin
<1> HIDE DEF m
<1>4. \A v : ViewAfter(v, m) = NewView
  BY <1>1 DEF ViewAfter
<1>5. ViewCovered(NewView, mirror') /\ ViewMirrors(NewView, mirror')
  BY <1>2 DEF ViewCovered, ViewMirrors, NewView
<1>6. /\ \A v \in Views : ViewCovered(v, mirror) => ViewCovered(ViewAfter(v, m), mirror')
      /\ \A v \in Views : TRUE \/ ViewMirrors(v, mirror) => ViewMirrors(ViewAfter(v, m), mirror')
  BY <1>4, <1>5
<1>7. ~(m.op = "device" /\ ~m.begin) /\ TRUE \in BOOLEAN
  BY <1>1
<1>8. QED
  BY <1>1, <1>2, <1>3, <1>6, <1>7, CallKeeps, Zenon

\* A call on a device that has begun.
LEMMA BegunKeeps ==
    ASSUME IInv, NEW m \in Messages, m.op # "device", NEW new \in Mirror, Call(m, new),
           \A v \in Views : ViewCovered(v, mirror) => ViewCovered(ViewAfter(v, m), new),
           \A v \in Views : ViewMirrors(v, mirror) => ViewMirrors(ViewAfter(v, m), new)
    PROVE  IInv'
<1>1. mirror.active /\ mirror' = new /\ SendLine(m, FALSE) /\ UNCHANGED <<alive, session, up, kills>>
  BY DEF Call
<1>2. /\ \A v \in Views : ViewCovered(v, mirror) => ViewCovered(ViewAfter(v, m), mirror')
      /\ \A v \in Views : FALSE \/ ViewMirrors(v, mirror) => ViewMirrors(ViewAfter(v, m), mirror')
  BY <1>1
<1>3. ~(m.op = "device" /\ ~m.begin) /\ FALSE \in BOOLEAN /\ (FALSE \/ mirror.active) /\ mirror' \in Mirror
  BY <1>1
<1>4. QED
  BY <1>1, <1>2, <1>3, CallKeeps, Zenon

\* Closing the device: nothing is left of the service's session, and nothing to mirror.
LEMMA DeviceEndKeeps == IInv /\ DeviceEnd => IInv'
<1> SUFFICES ASSUME IInv, DeviceEnd PROVE IInv'
  OBVIOUS
<1> DEFINE m == Device(FALSE)
<1>1. m \in Messages /\ m.op = "device" /\ m.begin = FALSE
  BY DEF Device, Messages
<1>2. mirror' \in Mirror /\ mirror'.active = FALSE
  BY DEF DeviceEnd, Call, IInv, TypeOK, Mirror
<1>3. SendLine(m, FALSE) /\ UNCHANGED <<alive, session, up, kills>>
  BY DEF DeviceEnd, Call
<1> HIDE DEF m
<1>4. Arrives(m, FALSE)
  BY <1>1, <1>3, SendLineArrives
<1>5. TypeOK' /\ (conn \in [Conns -> ConnState])' /\ LinkIsAlone' /\ LinkIsOpen' /\ SessionsAreServed'
  <2>1. \A c \in Conns : /\ conn'[c].peer \in {"none", "backlog", "served", "gone"}
                         /\ conn'[c].queue \in Seq(Messages) /\ conn'[c].ended \in BOOLEAN
    BY <1>4 DEF Arrives, ConnState
  <2>2. QED
    BY <1>2, <1>3, <1>4, <2>1 DEF Arrives, IInv, TypeOK
<1>6. \A s \in MaybeSession : Handle(s, m, 0) = NoSession
  BY <1>1, HandleView, HandleNew, NewSessionView DEF MaybeSession
<1>7. link' # NoConn => Settled(link)' = NoSession
  <2>1. ASSUME link' # NoConn, link' = link PROVE Settled(link) \in MaybeSession
    BY <1>4, <2>1, SettledType DEF Arrives, IInv
  <2>2. NewSession \in MaybeSession
    BY NewSessionView DEF MaybeSession
  <2>3. QED
    BY <1>4, <1>6, <2>1, <2>2 DEF Arrives
<1>8. \A c \in Conns : Settled(c)' = NoSession
  <2>1. ASSUME NEW c \in Conns, c # link' PROVE Settled(c)' = NoSession
    BY <1>5, <2>1 DEF LinkIsAlone, SessionsAreServed, Settled, Reached
  <2>2. ASSUME NEW c \in Conns, c = link' PROVE Settled(c)' = NoSession
    BY <1>7, <2>2 DEF Settled, Reached, Conns, NoConn
  <2>3. QED
    BY <2>1, <2>2
<1>9. NothingUnasked' /\ MirrorIsTrue'
  BY <1>2, <1>8 DEF NothingUnasked, MirrorIsTrue
<1>10. QED
  BY <1>5, <1>9 DEF IInv

\* Setting the gain.
LEMMA SetDeviceGainKeeps ==
    ASSUME IInv, NEW gain \in Gains, SetDeviceGain(gain) PROVE IInv'
<1> DEFINE bounded == Clamp(gain, 0, DIMax)
           m == [op |-> "gain", value |-> bounded]
           new == [mirror EXCEPT !.gain = bounded]
<1>1. bounded \in Gains /\ bounded \in 0 .. DIMax /\ Clamp(bounded, 0, DIMax) = bounded
  BY LinkAssumption, GainAssumption DEF Clamp
<1>2. Call(m, new)
  BY DEF SetDeviceGain
<1> HIDE DEF bounded
<1>3. m \in Messages /\ m.op = "gain" /\ m.value = bounded
  BY <1>1 DEF Messages
<1>4. new \in Mirror
  BY <1>1 DEF IInv, TypeOK, Mirror
<1>5. /\ new.gain = bounded /\ new.actuators = mirror.actuators /\ new.paused = mirror.paused
      /\ new.stopped = mirror.stopped /\ new.held = mirror.held /\ new.playing = mirror.playing
  BY DEF IInv, TypeOK, Mirror
<1> HIDE DEF m, new
<1>6. \A v \in Views : ViewAfter(v, m) = [v EXCEPT !.gain = bounded]
  BY <1>1, <1>3 DEF ViewAfter
<1>7. ASSUME NEW v \in Views
      PROVE  /\ ViewCovered(v, mirror) => ViewCovered(ViewAfter(v, m), new)
             /\ ViewMirrors(v, mirror) => ViewMirrors(ViewAfter(v, m), new)
  <2>1. ViewAfter(v, m) = [v EXCEPT !.gain = bounded]
    BY <1>6
  <2>2. QED
    BY <1>5, <2>1 DEF ViewCovered, ViewMirrors, Views
<1>8. QED
  BY <1>2, <1>3, <1>4, <1>7, BegunKeeps

\* A device command.
LEMMA CommandKeeps ==
    ASSUME IInv, NEW name \in Commands, SendForceFeedbackCommand(name) PROVE IInv'
<1> DEFINE m == [op |-> "command", name |-> name]
           new == Commanded(name)
<1>1. name \in CommandNames \ {"other"}
  BY LinkAssumption
<1>2. Call(m, new)
  BY DEF SendForceFeedbackCommand
<1>3. m \in Messages /\ m.op = "command" /\ m.name = name
  BY <1>1 DEF Messages
<1> HIDE DEF m, new
<1>4. \A v : ViewAfter(v, m) = Commanding(v, name)
  BY <1>3 DEF ViewAfter
<1>5. mirror \in Mirror
  BY DEF IInv, TypeOK
<1>6. /\ new \in Mirror
      /\ \A v \in Views :
            /\ ViewCovered(v, mirror) => ViewCovered(Commanding(v, name), new)
            /\ ViewMirrors(v, mirror) => ViewMirrors(Commanding(v, name), new)
  <2>1. CASE name = "reset"
    <3>1. new = [mirror EXCEPT !.held = {}, !.playing = {}, !.actuators = TRUE, !.paused = FALSE,
                               !.stopped = TRUE]
      BY <2>1 DEF new, Commanded
    <3>2. \A v \in Views : Commanding(v, name) =
             [v EXCEPT !.held = {}, !.playing = {}, !.actuators = TRUE, !.paused = FALSE, !.stopped = TRUE]
      BY <2>1 DEF Commanding
    <3>3. QED
      BY <1>5, <3>1, <3>2 DEF Mirror, Views, ViewCovered, ViewMirrors
  <2>2. CASE name = "stopall"
    <3>1. new = [mirror EXCEPT !.playing = {}, !.paused = FALSE, !.stopped = TRUE]
      BY <2>2 DEF new, Commanded
    <3>2. \A v \in Views : Commanding(v, name) =
             [v EXCEPT !.playing = {}, !.paused = FALSE, !.stopped = TRUE]
      BY <2>2 DEF Commanding
    <3>3. QED
      BY <1>5, <3>1, <3>2 DEF Mirror, Views, ViewCovered, ViewMirrors
  <2>3. CASE name = "pause"
    <3>1. new = [mirror EXCEPT !.paused = TRUE]
      BY <2>3 DEF new, Commanded
    <3>2. \A v \in Views : Commanding(v, name) = [v EXCEPT !.paused = TRUE]
      BY <2>3 DEF Commanding
    <3>3. QED
      BY <1>5, <3>1, <3>2 DEF Mirror, Views, ViewCovered, ViewMirrors
  <2>4. CASE name = "continue"
    <3>1. new = [mirror EXCEPT !.paused = FALSE]
      BY <2>4 DEF new, Commanded
    <3>2. \A v \in Views : Commanding(v, name) = [v EXCEPT !.paused = FALSE]
      BY <2>4 DEF Commanding
    <3>3. QED
      BY <1>5, <3>1, <3>2 DEF Mirror, Views, ViewCovered, ViewMirrors
  <2>5. CASE name = "actuators_on"
    <3>1. new = [mirror EXCEPT !.actuators = TRUE]
      BY <2>5 DEF new, Commanded
    <3>2. \A v \in Views : Commanding(v, name) = [v EXCEPT !.actuators = TRUE]
      BY <2>5 DEF Commanding
    <3>3. QED
      BY <1>5, <3>1, <3>2 DEF Mirror, Views, ViewCovered, ViewMirrors
  <2>6. CASE name = "actuators_off"
    <3>1. new = [mirror EXCEPT !.actuators = FALSE]
      BY <2>6 DEF new, Commanded
    <3>2. \A v \in Views : Commanding(v, name) = [v EXCEPT !.actuators = FALSE]
      BY <2>6 DEF Commanding
    <3>3. QED
      BY <1>5, <3>1, <3>2 DEF Mirror, Views, ViewCovered, ViewMirrors
  <2>7. QED
    BY <1>1, <2>1, <2>2, <2>3, <2>4, <2>5, <2>6 DEF CommandNames
<1>7. QED
  BY <1>2, <1>3, <1>4, <1>6, BegunKeeps

\* A handle that can be downloaded is one, and the mirror that holds it is a mirror.
LEMMA AllocatedIs ==
    ASSUME IInv, NEW id \in Handles
    PROVE  /\ id \in EffectIds
           /\ Allocated(id) \in Mirror
           /\ Allocated(id).held = mirror.held \cup {id}
           /\ Allocated(id).gain = mirror.gain /\ Allocated(id).actuators = mirror.actuators
           /\ Allocated(id).paused = mirror.paused /\ Allocated(id).stopped = mirror.stopped
           /\ Allocated(id).playing = mirror.playing /\ Allocated(id).active = mirror.active
<1>1. mirror \in Mirror
  BY DEF IInv, TypeOK
<1>2. id \in EffectIds
  BY <1>1 DEF Handles, Mirror
<1> DEFINE n == IF id \in mirror.held THEN mirror.next ELSE id
<1>3. n \in 0 .. Cardinality(EffectIds)
  <2>1. Cardinality(EffectIds) \in Nat /\ id \in 1 .. Cardinality(EffectIds)
    BY <1>2, LinkAssumption, FS_CardinalityType
  <2>2. QED
    BY <1>1, <2>1 DEF Mirror
<1>4. Allocated(id) = [mirror EXCEPT !.held = @ \cup {id}, !.next = n]
  BY <1>1 DEF Allocated, Mirror
<1> HIDE DEF n
<1>5. PICK h \in SUBSET EffectIds : h = mirror.held \cup {id}
  BY <1>1, <1>2 DEF Mirror
<1>6. Allocated(id) = [mirror EXCEPT !.held = h, !.next = n]
  BY <1>4, <1>5
<1>7. [mirror EXCEPT !.held = h, !.next = n] \in Mirror
  BY <1>1, <1>3 DEF Mirror
<1>8. Allocated(id).held = h
  BY <1>1, <1>6 DEF Mirror
<1>9. QED
  BY <1>1, <1>2, <1>5, <1>6, <1>7, <1>8 DEF Mirror

\* Downloading an effect, and starting it with the download.
LEMMA DownloadEffectKeeps ==
    ASSUME IInv, NEW id \in Handles, NEW shape \in Shapes, NEW start \in BOOLEAN,
           DownloadEffect(id, shape, start)
    PROVE  IInv'
<1> DEFINE m == [op |-> "effect", id |-> id, shape |-> shape, start |-> start, count |-> 1]
           new == IF start
                  THEN [Allocated(id) EXCEPT !.playing = @ \cup {id}, !.stopped = FALSE]
                  ELSE Allocated(id)
<1>1. Call(m, new)
  BY DEF DownloadEffect
<1>2. id \in EffectIds
  BY AllocatedIs
<1>3. m \in Messages /\ m.op = "effect" /\ m.id = id /\ m.start = start
  <2>1. \A n \in Counts : [op |-> "effect", id |-> id, shape |-> shape, start |-> start, count |-> n]
            \in [op : {"effect"}, id : EffectIds, shape : Shapes, start : BOOLEAN, count : Counts]
    BY <1>2
  <2>2. 1 \in Counts
    BY LinkAssumption
  <2>3. m \in [op : {"effect"}, id : EffectIds, shape : Shapes, start : BOOLEAN, count : Counts]
    BY <2>1, <2>2, Zenon
  <2> HIDE DEF m
  <2>4. m \in Messages
    BY <2>3 DEF Messages
  <2>5. QED
    BY <2>4 DEF m
<1> HIDE DEF m
<1>4. /\ new \in Mirror /\ new.held = mirror.held \cup {id}
      /\ new.gain = mirror.gain /\ new.actuators = mirror.actuators /\ new.paused = mirror.paused
      /\ start => new.playing = mirror.playing \cup {id} /\ new.stopped = FALSE
      /\ ~start => new.playing = mirror.playing /\ new.stopped = mirror.stopped
  <2>1. CASE start
    <3> DEFINE a == Allocated(id)
    <3>1. new = [a EXCEPT !.playing = @ \cup {id}, !.stopped = FALSE]
      BY <2>1
    <3>2. /\ a \in Mirror /\ a.held = mirror.held \cup {id} /\ a.playing = mirror.playing
          /\ a.gain = mirror.gain /\ a.actuators = mirror.actuators /\ a.paused = mirror.paused
      BY AllocatedIs
    <3> HIDE DEF a, new
    <3>3. QED
      BY <1>2, <2>1, <3>1, <3>2 DEF Mirror
  <2>2. CASE ~start
    BY <2>2, AllocatedIs
  <2>3. QED
    BY <2>1, <2>2
<1> HIDE DEF new
<1>5. ASSUME NEW v \in Views
      PROVE  /\ ViewCovered(v, mirror) => ViewCovered(ViewAfter(v, m), new)
             /\ ViewMirrors(v, mirror) => ViewMirrors(ViewAfter(v, m), new)
  <2>1. CASE start
    <3>1. ViewAfter(v, m) = [[v EXCEPT !.held = @ \cup {id}] EXCEPT !.playing = @ \cup {id}, !.stopped = FALSE]
      BY <1>3, <2>1 DEF ViewAfter, Starts
    <3>2. QED
      BY <1>4, <2>1, <3>1 DEF ViewCovered, ViewMirrors, Views
  <2>2. CASE ~start
    <3>1. ViewAfter(v, m) = [v EXCEPT !.held = @ \cup {id}]
      BY <1>3, <2>2 DEF ViewAfter
    <3>2. QED
      BY <1>4, <2>2, <3>1 DEF ViewCovered, ViewMirrors, Views
  <2>3. QED
    BY <2>1, <2>2
<1>6. QED
  BY <1>1, <1>3, <1>4, <1>5, BegunKeeps

\* Destroying an effect.
LEMMA DestroyEffectKeeps ==
    ASSUME IInv, NEW id \in mirror.held, DestroyEffect(id) PROVE IInv'
<1> DEFINE m == [op |-> "destroy", id |-> id]
           new == [mirror EXCEPT !.held = @ \ {id}, !.playing = @ \ {id}]
<1>1. Call(m, new)
  BY DEF DestroyEffect
<1>2. mirror \in Mirror /\ id \in EffectIds
  BY DEF IInv, TypeOK, Mirror
<1>3. m \in Messages /\ m.op = "destroy" /\ m.id = id
  BY <1>2 DEF Messages
<1> HIDE DEF m
<1>4. ASSUME NEW v \in Views
      PROVE  /\ ViewCovered(v, mirror) => ViewCovered(ViewAfter(v, m), new)
             /\ ViewMirrors(v, mirror) => ViewMirrors(ViewAfter(v, m), new)
  <2>1. ViewAfter(v, m) = [v EXCEPT !.held = @ \ {id}, !.playing = @ \ {id}]
    BY <1>3 DEF ViewAfter
  <2>2. QED
    BY <1>2, <2>1 DEF ViewCovered, ViewMirrors, Views, Mirror
<1>5. new \in Mirror
  BY <1>2 DEF Mirror
<1> HIDE DEF new
<1>6. QED
  BY <1>1, <1>3, <1>4, <1>5, BegunKeeps

\* Stopping an effect.
LEMMA StopEffectKeeps ==
    ASSUME IInv, NEW id \in mirror.held, StopEffect(id) PROVE IInv'
<1> DEFINE m == [op |-> "stop", id |-> id]
           new == [mirror EXCEPT !.playing = @ \ {id}]
<1>1. Call(m, new)
  BY DEF StopEffect
<1>2. mirror \in Mirror /\ id \in EffectIds
  BY DEF IInv, TypeOK, Mirror
<1>3. m \in Messages /\ m.op = "stop" /\ m.id = id
  BY <1>2 DEF Messages
<1> HIDE DEF m
<1>4. ASSUME NEW v \in Views
      PROVE  /\ ViewCovered(v, mirror) => ViewCovered(ViewAfter(v, m), new)
             /\ ViewMirrors(v, mirror) => ViewMirrors(ViewAfter(v, m), new)
  <2>1. ViewAfter(v, m) = [v EXCEPT !.playing = @ \ {id}]
    BY <1>3 DEF ViewAfter
  <2>2. QED
    BY <1>2, <2>1 DEF ViewCovered, ViewMirrors, Views, Mirror
<1>5. new \in Mirror
  BY <1>2 DEF Mirror
<1> HIDE DEF new
<1>6. QED
  BY <1>1, <1>3, <1>4, <1>5, BegunKeeps

\* Starting an effect, alone or with the others.
LEMMA StartEffectKeeps ==
    ASSUME IInv, NEW id \in mirror.held, NEW solo \in BOOLEAN, StartEffect(id, solo) PROVE IInv'
<1> DEFINE m == [op |-> "start", id |-> id, count |-> 1, solo |-> solo]
           new == [mirror EXCEPT !.playing = (IF solo THEN {} ELSE @) \cup {id}, !.stopped = FALSE]
<1>1. Call(m, new)
  BY DEF StartEffect
<1>2. mirror \in Mirror /\ id \in EffectIds
  BY DEF IInv, TypeOK, Mirror
<1>3. m \in Messages /\ m.op = "start" /\ m.id = id /\ m.solo = solo
  <2>1. \A n \in Counts : [op |-> "start", id |-> id, count |-> n, solo |-> solo]
            \in [op : {"start"}, id : EffectIds, count : Counts, solo : BOOLEAN]
    BY <1>2
  <2>2. 1 \in Counts
    BY LinkAssumption
  <2>3. m \in [op : {"start"}, id : EffectIds, count : Counts, solo : BOOLEAN]
    BY <2>1, <2>2, Zenon
  <2> HIDE DEF m
  <2>4. m \in Messages
    BY <2>3 DEF Messages
  <2>5. QED
    BY <2>4 DEF m
<1> HIDE DEF m
<1> DEFINE Started(playing) == (IF solo THEN {} ELSE playing) \cup {id}
<1>4. /\ new \in Mirror /\ new.held = mirror.held /\ new.stopped = FALSE
      /\ new.gain = mirror.gain /\ new.actuators = mirror.actuators /\ new.paused = mirror.paused
      /\ new.playing = Started(mirror.playing)
  BY <1>2 DEF Mirror
<1> HIDE DEF new
<1>5. ASSUME NEW v \in Views
      PROVE  /\ ViewCovered(v, mirror) => ViewCovered(ViewAfter(v, m), new)
             /\ ViewMirrors(v, mirror) => ViewMirrors(ViewAfter(v, m), new)
  <2>1. CASE id \in v.held
    <3>1. ViewAfter(v, m) = [v EXCEPT !.playing = Started(v.playing), !.stopped = FALSE]
      BY <1>3, <2>1 DEF ViewAfter, Starts, Views
    <3>2. QED
      BY <1>4, <3>1 DEF ViewCovered, ViewMirrors, Views
  <2>2. CASE id \notin v.held
    <3>1. ViewAfter(v, m) = v
      BY <1>3, <2>2 DEF ViewAfter
    <3>2. QED
      BY <1>4, <2>2, <3>1 DEF ViewCovered, ViewMirrors
  <2>3. QED
    BY <2>1, <2>2
<1>6. QED
  BY <1>1, <1>3, <1>4, <1>5, BegunKeeps

\* A handle is taken and nothing is sent.
LEMMA DownloadNothingKeeps ==
    ASSUME IInv, NEW id \in Handles, DownloadNothing(id) PROVE IInv'
<1>1. /\ mirror' = Allocated(id) /\ told' = FALSE
      /\ UNCHANGED <<alive, link, conn, session, up, kills, breaks>>
  BY DEF DownloadNothing
<1>2. mirror' \in Mirror /\ mirror'.held = mirror.held \cup {id} /\ mirror'.stopped = mirror.stopped
  BY <1>1, AllocatedIs
<1>3. /\ TypeOK' /\ (conn \in [Conns -> ConnState])' /\ LinkIsAlone' /\ LinkIsOpen' /\ SessionsAreServed'
  BY <1>1, <1>2 DEF IInv, TypeOK, LinkIsAlone, LinkIsOpen, SessionsAreServed, Reached
<1>4. \A c \in Conns : Settled(c)' = Settled(c)
  BY <1>1 DEF Settled, Reached
<1>5. NothingUnasked'
  BY <1>1, <1>2, <1>4 DEF IInv, NothingUnasked
<1>6. MirrorIsTrue'
  BY <1>1 DEF MirrorIsTrue
<1>7. QED
  BY <1>3, <1>5, <1>6 DEF IInv

\* A step that leaves no connection anything that is settled keeps what is asked of it.
LEMMA NothingSettled ==
    ASSUME \A c \in Conns : Settled(c)' = NoSession, told' = FALSE
    PROVE  NothingUnasked' /\ MirrorIsTrue'
BY DEF NothingUnasked, MirrorIsTrue

\* The game ends and its driver with it.
LEMMA GameEndsKeeps == IInv /\ GameEnds => IInv'
<1> SUFFICES ASSUME IInv, GameEnds PROVE IInv'
  OBVIOUS
<1>1. /\ alive' = FALSE /\ mirror' = NewMirror /\ link' = NoConn /\ told' = FALSE
      /\ conn' = [c \in Conns |-> IF c = link THEN [conn[c] EXCEPT !.ended = TRUE] ELSE conn[c]]
      /\ UNCHANGED <<session, up, kills, breaks>>
  BY DEF GameEnds
<1>2. ASSUME NEW c \in Conns
      PROVE  /\ conn'[c] \in ConnState
             /\ conn'[c].peer = conn[c].peer /\ conn'[c].queue = conn[c].queue
             /\ Len(conn'[c].queue) <= MaxQueue
             /\ conn'[c].peer \in {"backlog", "served"} => conn'[c].ended
  <2>1. conn[c] \in ConnState /\ Len(conn[c].queue) <= MaxQueue
    BY DEF TypeOK, IInv
  <2>2. CASE c = link
    BY <1>1, <2>1, <2>2 DEF ConnState
  <2>3. CASE c # link
    BY <1>1, <2>1, <2>3 DEF IInv, LinkIsAlone, Reached
  <2>4. QED
    BY <2>2, <2>3
<1>3. NewMirror \in Mirror
  <2>1. DIMax \in 0 .. DIMax /\ 0 \in 0 .. Cardinality(EffectIds)
    BY GainAssumption, LinkAssumption, FS_CardinalityType
  <2>2. QED
    BY <2>1 DEF NewMirror, Mirror
<1>4. conn' \in [Conns -> ConnState]
  BY <1>1, <1>2
<1>5. TypeOK'
  BY <1>1, <1>2, <1>3 DEF IInv, TypeOK, ConnState
<1>6. LinkIsAlone' /\ LinkIsOpen' /\ SessionsAreServed'
  BY <1>1, <1>2 DEF IInv, LinkIsAlone, LinkIsOpen, SessionsAreServed, Reached
<1>7. \A c \in Conns : Settled(c)' = NoSession
  BY <1>1, <1>6 DEF LinkIsAlone, SessionsAreServed, Settled, Reached, Conns, NoConn
<1>8. QED
  BY <1>1, <1>4, <1>5, <1>6, <1>7, NothingSettled DEF IInv

-----------------------------------------------------------------------------
(* The steps of the service. *)

\* A step of the service keeps the invariant if what is settled stays as it is, but for
\* effects that are over.
LEMMA ServiceKeeps ==
    ASSUME IInv, UNCHANGED <<alive, mirror, link, told>>,
           TypeOK', (conn \in [Conns -> ConnState])', LinkIsAlone', SessionsAreServed',
           link # NoConn => conn'[link].ended = conn[link].ended,
           \A c \in Conns : Alike(Settled(c)', Settled(c))
    PROVE  IInv'
<1>1. \A c \in Conns : c # link => Settled(c)' = NoSession
  BY SettledOthers DEF IInv, Alike
<1>2. ASSUME NEW c \in Conns PROVE Settled(c)' \in MaybeSession /\ Settled(c) \in MaybeSession
  <2>1. Settled(c) \in MaybeSession
    BY SettledType DEF IInv
  <2>2. Settled(c)' \in MaybeSession
    <3>1. session'[c] \in MaybeSession /\ NewSession \in MaybeSession /\ NoSession \in MaybeSession
      BY NewSessionView DEF TypeOK, MaybeSession
    <3>2. conn'[c].queue \in Seq(Messages)
      BY DEF ConnState
    <3>3. \A s \in MaybeSession : After(s, conn'[c].queue) \in MaybeSession
      BY <3>2, AfterAlike DEF Alike, Like
    <3>4. QED
      BY <3>1, <3>3 DEF Settled
  <2>3. QED
    BY <2>1, <2>2
<1>3. ASSUME NEW a \in MaybeSession, NEW b \in MaybeSession, Alike(a, b)
      PROVE  /\ Covered(b, mirror) => Covered(a, mirror)
             /\ Mirrors(b, mirror) => Mirrors(a, mirror)
  BY <1>3 DEF Alike, Like, View, Covered, Mirrors
<1>4. NothingUnasked'
  <2>1. \A c \in Conns : c = link => Covered(Settled(c), mirror)
    BY InWords DEF IInv
  <2>2. \A c \in Conns : c = link => Covered(Settled(c)', mirror)
    BY <1>2, <1>3, <2>1
  <2>3. QED
    BY <1>1, <2>2 DEF NothingUnasked, Covered
<1>5. MirrorIsTrue'
  <2>1. SUFFICES ASSUME told, mirror.active PROVE Mirrors(Settled(link)', mirror)
    BY DEF MirrorIsTrue, Mirrors
  <2>2. link \in Conns
    BY <2>1 DEF IInv, TypeOK, LinkIsOpen
  <2>3. Mirrors(Settled(link), mirror)
    BY <2>1, InWords DEF IInv
  <2>4. PICK c \in Conns : c = link
    BY <2>2
  <2>5. Settled(c)' = Settled(link)' /\ Settled(c) = Settled(link)
    BY <2>4 DEF Settled, Reached
  <2>6. QED
    BY <1>2, <1>3, <2>3, <2>5
<1>6. LinkIsOpen'
  BY DEF IInv, LinkIsOpen
<1>7. QED
  BY <1>4, <1>5, <1>6 DEF IInv

\* A session that has not changed is like itself.
LEMMA AlikeSelf == ASSUME NEW s PROVE Alike(s, s)
BY DEF Alike, Like

\* A connection is accepted: its session begins.
LEMMA AcceptKeeps ==
    ASSUME IInv, NEW c \in Conns, Accept(c) PROVE IInv'
<1>1. /\ conn[c].peer = "backlog"
      /\ conn' = [conn EXCEPT ![c].peer = "served"] /\ session' = [session EXCEPT ![c] = NewSession]
      /\ UNCHANGED <<alive, mirror, link, up, kills, breaks, told>>
  BY DEF Accept
<1>2. conn[c] \in ConnState /\ conn \in [Conns -> ConnState] /\ session \in [Conns -> MaybeSession]
  BY DEF IInv, TypeOK, MaybeSession
<1>3. /\ conn'[c].peer = "served" /\ conn'[c].queue = conn[c].queue /\ conn'[c].ended = conn[c].ended
      /\ conn'[c] \in ConnState /\ session'[c] = NewSession
      /\ \A d \in Conns : d # c => conn'[d] = conn[d] /\ session'[d] = session[d]
  BY <1>1, <1>2 DEF ConnState
<1>4. conn' \in [Conns -> ConnState] /\ session' \in [Conns -> MaybeSession]
  BY <1>1, <1>2, <1>3, NewSessionView DEF MaybeSession
<1>5. \A d \in Conns : /\ conn'[d].peer \in {"none", "backlog", "served", "gone"}
                       /\ conn'[d].queue \in Seq(Messages) /\ conn'[d].ended \in BOOLEAN
  BY <1>4 DEF ConnState
<1>6. \A d \in Conns : Len(conn'[d].queue) <= MaxQueue
  BY <1>3 DEF IInv, TypeOK
<1>7. TypeOK'
  BY <1>1, <1>4, <1>5, <1>6 DEF IInv, TypeOK, MaybeSession
<1>8. LinkIsAlone' /\ SessionsAreServed'
  BY <1>1, <1>3 DEF IInv, LinkIsAlone, SessionsAreServed, Reached
<1>9. link # NoConn => conn'[link].ended = conn[link].ended
  BY <1>3 DEF IInv, TypeOK
<1>10. ASSUME NEW d \in Conns PROVE Alike(Settled(d)', Settled(d))
  <2>1. Settled(d)' = Settled(d)
    BY <1>1, <1>3 DEF Settled, Reached
  <2>2. QED
    BY <2>1, AlikeSelf
<1>11. QED
  BY <1>1, <1>4, <1>7, <1>8, <1>9, <1>10, ServiceKeeps

\* A message is read: what is settled has it already.
LEMMA ReadKeeps ==
    ASSUME IInv, NEW c \in Conns, Read(c) PROVE IInv'
<1> DEFINE q == conn[c].queue
           s == session[c]
<1>1. /\ conn[c].peer = "served" /\ q # << >>
      /\ conn' = [conn EXCEPT ![c].queue = Tail(@)]
      /\ session' = [session EXCEPT ![c] = Handle(@, Head(q), 0)]
      /\ UNCHANGED <<alive, mirror, link, up, kills, breaks, told>>
  BY DEF Read
<1>2. conn[c] \in ConnState /\ conn \in [Conns -> ConnState] /\ session \in [Conns -> MaybeSession]
      /\ q \in Seq(Messages) /\ s \in MaybeSession /\ Len(q) <= MaxQueue
  BY DEF IInv, TypeOK, MaybeSession, ConnState
<1>3. /\ Tail(q) \in Seq(Messages) /\ Len(Tail(q)) <= Len(q) /\ Head(q) \in Messages
      /\ Len(q) \in Nat /\ Len(Tail(q)) \in Nat
  BY <1>1, <1>2
<1>4. Handle(s, Head(q), 0) \in MaybeSession
  BY <1>2, <1>3, HandleType
<1> HIDE DEF q, s
<1>5. /\ conn'[c].peer = "served" /\ conn'[c].queue = Tail(q) /\ conn'[c].ended = conn[c].ended
      /\ conn'[c] \in ConnState /\ session'[c] = Handle(s, Head(q), 0)
      /\ \A d \in Conns : d # c => conn'[d] = conn[d] /\ session'[d] = session[d]
  <2>1. conn'[c] = [conn[c] EXCEPT !.queue = Tail(q)]
    BY <1>1, <1>2 DEF q
  <2>2. QED
    BY <1>1, <1>2, <1>3, <2>1 DEF ConnState, s
<1>6. conn' \in [Conns -> ConnState] /\ session' \in [Conns -> MaybeSession]
  BY <1>1, <1>2, <1>4, <1>5 DEF s
<1>7. \A d \in Conns : /\ conn'[d].peer \in {"none", "backlog", "served", "gone"}
                       /\ conn'[d].queue \in Seq(Messages) /\ conn'[d].ended \in BOOLEAN
  BY <1>6 DEF ConnState
<1>8. ASSUME NEW d \in Conns PROVE Len(conn'[d].queue) <= MaxQueue
  <2>1. d = c => Len(conn'[d].queue) <= MaxQueue
    BY <1>2, <1>3, <1>5, LinkAssumption
  <2>2. d # c => Len(conn'[d].queue) <= MaxQueue
    BY <1>5 DEF IInv, TypeOK
  <2>3. QED
    BY <2>1, <2>2
<1>9. TypeOK'
  BY <1>1, <1>6, <1>7, <1>8 DEF IInv, TypeOK, MaybeSession
<1>10. LinkIsAlone' /\ SessionsAreServed'
  BY <1>1, <1>5 DEF IInv, LinkIsAlone, SessionsAreServed, Reached
<1>11. link # NoConn => conn'[link].ended = conn[link].ended
  BY <1>5 DEF IInv, TypeOK
<1>12. ASSUME NEW d \in Conns PROVE Alike(Settled(d)', Settled(d))
  <2>1. CASE d = c
    <3>1. After(s, q) = After(Handle(s, Head(q), 0), Tail(q))
      BY <1>1, <1>2, AfterHead
    <3>2. Settled(c) = IF conn[c].ended THEN NoSession ELSE After(s, q)
      BY <1>1 DEF Settled, Reached, s, q
    <3>3. Settled(c)' = IF conn[c].ended THEN NoSession ELSE After(Handle(s, Head(q), 0), Tail(q))
      BY <1>5 DEF Settled, Reached
    <3>4. QED
      BY <2>1, <3>1, <3>2, <3>3, AlikeSelf
  <2>2. CASE d # c
    <3>1. Settled(d)' = Settled(d)
      BY <1>5, <2>2 DEF Settled, Reached
    <3>2. QED
      BY <3>1, AlikeSelf
  <2>3. QED
    BY <2>1, <2>2
<1>13. QED
  BY <1>1, <1>6, <1>9, <1>10, <1>11, <1>12, ServiceKeeps

\* The end of a connection is read: it is not the driver's own.
LEMMA ReadEndKeeps ==
    ASSUME IInv, NEW c \in Conns, ReadEnd(c) PROVE IInv'
<1>1. /\ conn[c].peer = "served" /\ conn[c].ended
      /\ conn' = [conn EXCEPT ![c].peer = "gone", ![c].queue = << >>]
      /\ session' = [session EXCEPT ![c] = NoSession]
      /\ UNCHANGED <<alive, mirror, link, up, kills, breaks, told>>
  BY DEF ReadEnd
<1>2. conn[c] \in ConnState /\ conn \in [Conns -> ConnState] /\ session \in [Conns -> MaybeSession]
  BY DEF IInv, TypeOK, MaybeSession
<1>3. << >> \in Seq(Messages) /\ Len(<< >>) = 0 /\ 0 <= MaxQueue
  BY LinkAssumption
<1>4. /\ conn'[c].peer = "gone" /\ conn'[c].queue = << >> /\ conn'[c].ended = conn[c].ended
      /\ conn'[c] \in ConnState /\ session'[c] = NoSession
      /\ \A d \in Conns : d # c => conn'[d] = conn[d] /\ session'[d] = session[d]
  <2>1. conn'[c] = [conn[c] EXCEPT !.peer = "gone", !.queue = << >>]
    BY <1>1, <1>2
  <2>2. QED
    BY <1>1, <1>2, <1>3, <2>1 DEF ConnState
<1>5. conn' \in [Conns -> ConnState] /\ session' \in [Conns -> MaybeSession]
  BY <1>1, <1>2, <1>4 DEF MaybeSession
<1>6. \A d \in Conns : /\ conn'[d].peer \in {"none", "backlog", "served", "gone"}
                       /\ conn'[d].queue \in Seq(Messages) /\ conn'[d].ended \in BOOLEAN
  BY <1>5 DEF ConnState
<1>7. ASSUME NEW d \in Conns PROVE Len(conn'[d].queue) <= MaxQueue
  <2>1. d = c => Len(conn'[d].queue) <= MaxQueue
    BY <1>3, <1>4
  <2>2. d # c => Len(conn'[d].queue) <= MaxQueue
    BY <1>4 DEF IInv, TypeOK
  <2>3. QED
    BY <2>1, <2>2
<1>8. TypeOK'
  BY <1>1, <1>5, <1>6, <1>7 DEF IInv, TypeOK, MaybeSession
<1>9. LinkIsAlone' /\ SessionsAreServed'
  BY <1>1, <1>4 DEF IInv, LinkIsAlone, SessionsAreServed, Reached
<1>10. link # NoConn => conn'[link].ended = conn[link].ended
  BY <1>4 DEF IInv, TypeOK
<1>11. ASSUME NEW d \in Conns PROVE Alike(Settled(d)', Settled(d))
  <2>1. CASE d = c
    BY <1>1, <1>4, <2>1, AlikeSelf DEF Settled, Reached
  <2>2. CASE d # c
    <3>1. Settled(d)' = Settled(d)
      BY <1>4, <2>2 DEF Settled, Reached
    <3>2. QED
      BY <3>1, AlikeSelf
  <2>3. QED
    BY <2>1, <2>2
<1>12. QED
  BY <1>1, <1>5, <1>8, <1>9, <1>10, <1>11, ServiceKeeps

\* A pass finds an effect over.
LEMMA EffectEndsKeeps ==
    ASSUME IInv, NEW c \in Conns, NEW id \in EffectIds, EffectEnds(c, id) PROVE IInv'
<1>1. /\ session[c] # NoSession /\ session' = [session EXCEPT ![c] = Silence(@, {id})]
      /\ UNCHANGED <<alive, mirror, link, conn, up, kills, breaks, told>>
  BY DEF EffectEnds, Audible
<1>2. session[c] \in Session
  BY <1>1 DEF IInv, TypeOK
<1>3. /\ session'[c] = Silence(session[c], {id})
      /\ \A d \in Conns : d # c => session'[d] = session[d]
  BY <1>1 DEF IInv, TypeOK
<1>4. session'[c] \in Session /\ Alike(session'[c], session[c])
  <2>1. /\ session'[c] \in Session
        /\ View(session'[c]) = [View(session[c]) EXCEPT !.playing = @ \ {id}]
    BY <1>2, <1>3, SilenceView
  <2>2. Like(View(session'[c]), View(session[c]))
    BY <2>1, <1>2, ViewType DEF Like, Views
  <2>3. QED
    BY <1>2, <2>1, <2>2, SessionPresent DEF Alike
<1>5. TypeOK' /\ (conn \in [Conns -> ConnState])'
  BY <1>1, <1>4 DEF IInv, TypeOK
<1>6. conn[c].peer = "served"
  BY <1>1 DEF IInv, SessionsAreServed
<1>7. LinkIsAlone' /\ SessionsAreServed'
  BY <1>1, <1>3, <1>6 DEF IInv, LinkIsAlone, SessionsAreServed, Reached
<1>8. ASSUME NEW d \in Conns PROVE Alike(Settled(d)', Settled(d))
  <2>1. CASE d = c
    <3>1. conn[c].queue \in Seq(Messages) /\ session[c] \in MaybeSession /\ session'[c] \in MaybeSession
      BY <1>2, <1>4 DEF IInv, ConnState, MaybeSession
    <3>2. Alike(After(session'[c], conn[c].queue), After(session[c], conn[c].queue))
      BY <1>4, <3>1, AfterAlike
    <3>3. Settled(c) = IF conn[c].ended THEN NoSession ELSE After(session[c], conn[c].queue)
      BY <1>6 DEF Settled, Reached
    <3>4. Settled(c)' = IF conn[c].ended THEN NoSession ELSE After(session'[c], conn[c].queue)
      BY <1>1, <1>6 DEF Settled, Reached
    <3>5. QED
      BY <2>1, <3>2, <3>3, <3>4, AlikeSelf
  <2>2. CASE d # c
    <3>1. Settled(d)' = Settled(d)
      BY <1>1, <1>3, <2>2 DEF Settled, Reached
    <3>2. QED
      BY <3>1, AlikeSelf
  <2>3. QED
    BY <2>1, <2>2
<1>9. QED
  BY <1>1, <1>5, <1>7, <1>8, ServiceKeeps

\* The service ends, and with it every session and every connection it had.
LEMMA ServiceEndsKeeps == IInv /\ ServiceEnds => IInv'
<1> SUFFICES ASSUME IInv, ServiceEnds PROVE IInv'
  OBVIOUS
<1>1. /\ kills > 0 /\ up' = FALSE /\ kills' = kills - 1 /\ told' = FALSE
      /\ conn' = [c \in Conns |-> IF Reached(c) THEN [conn[c] EXCEPT !.peer = "gone", !.queue = << >>] ELSE conn[c]]
      /\ session' = [c \in Conns |-> NoSession]
      /\ UNCHANGED <<alive, mirror, link, breaks>>
  BY DEF ServiceEnds
<1>2. << >> \in Seq(Messages) /\ Len(<< >>) = 0 /\ 0 <= MaxQueue
  BY LinkAssumption
<1>3. ASSUME NEW c \in Conns
      PROVE  /\ conn'[c] \in ConnState /\ Len(conn'[c].queue) <= MaxQueue
             /\ conn'[c].ended = conn[c].ended
             /\ conn'[c].peer \notin {"backlog", "served"}
  <2>1. conn[c] \in ConnState /\ Len(conn[c].queue) <= MaxQueue
    BY DEF TypeOK, IInv
  <2>2. CASE Reached(c)
    <3>1. conn'[c] = [conn[c] EXCEPT !.peer = "gone", !.queue = << >>]
      BY <1>1, <2>2
    <3>2. conn'[c] \in ConnState /\ conn'[c].queue = << >> /\ conn'[c].ended = conn[c].ended
          /\ conn'[c].peer = "gone"
      BY <1>2, <2>1, <3>1 DEF ConnState
    <3>3. QED
      BY <1>2, <3>2
  <2>3. CASE ~Reached(c)
    BY <1>1, <2>1, <2>3 DEF Reached
  <2>4. QED
    BY <2>2, <2>3
<1>4. conn' \in [Conns -> ConnState] /\ session' \in [Conns -> Session \cup {NoSession}]
  BY <1>1, <1>3
<1>5. kills' \in 0 .. MaxKills
  <2>1. kills \in 0 .. MaxKills
    BY DEF IInv, TypeOK
  <2>2. kills > 0 /\ kills' = kills - 1
    BY <1>1
  <2>3. MaxKills \in Nat
    BY LinkAssumption
  <2>4. QED
    BY <2>1, <2>2, <2>3
<1>6. \A c \in Conns : /\ conn'[c].peer \in {"none", "backlog", "served", "gone"}
                       /\ conn'[c].queue \in Seq(Messages) /\ conn'[c].ended \in BOOLEAN
  BY <1>4 DEF ConnState
<1>7. TypeOK'
  <2>1. up' \in BOOLEAN /\ told' \in BOOLEAN
    BY <1>1, Zenon
  <2>2. alive' \in BOOLEAN /\ mirror' \in Mirror /\ link' \in Conns \cup {NoConn}
    BY <1>1, Zenon DEF IInv, TypeOK
  <2>3. breaks' \in 0 .. MaxBreaks
    BY <1>1 DEF IInv, TypeOK
  <2>4. QED
    BY <2>1, <2>2, <2>3, <1>3, <1>4, <1>5, <1>6, Zenon DEF TypeOK
<1>8. LinkIsAlone' /\ SessionsAreServed'
  BY <1>1, <1>3 DEF LinkIsAlone, SessionsAreServed, Reached
<1>9. LinkIsOpen'
  BY <1>1, <1>3 DEF IInv, TypeOK, LinkIsOpen
<1>10. \A c \in Conns : Settled(c)' = NoSession
  BY <1>1, <1>3 DEF Settled, Reached
<1>11. QED
  BY <1>1, <1>4, <1>7, <1>8, <1>9, <1>10, NothingSettled DEF IInv

\* A step that changes none of what the invariant is about.
LEMMA StutterKeeps ==
    ASSUME IInv, alive' \in BOOLEAN, up' \in BOOLEAN,
           UNCHANGED <<mirror, link, conn, session, kills, breaks, told>>
    PROVE  IInv'
<1>1. TypeOK' /\ (conn \in [Conns -> ConnState])' /\ LinkIsAlone' /\ LinkIsOpen' /\ SessionsAreServed'
  BY DEF IInv, TypeOK, LinkIsAlone, LinkIsOpen, SessionsAreServed, Reached
<1>2. NothingUnasked'
  BY DEF IInv, NothingUnasked, Settled, Reached
<1>3. MirrorIsTrue'
  BY DEF IInv, MirrorIsTrue, Settled, Reached
<1>4. QED
  BY <1>1, <1>2, <1>3 DEF IInv

-----------------------------------------------------------------------------
(* The theorems. *)

\* The invariant holds at first.
LEMMA InitKeeps == Init => IInv
<1> SUFFICES ASSUME Init PROVE IInv
  OBVIOUS
<1>1. /\ alive = TRUE /\ up \in BOOLEAN /\ told = FALSE /\ mirror = NewMirror /\ link = NoConn
      /\ conn = [c \in Conns |-> [peer |-> "none", queue |-> << >>, ended |-> FALSE]]
      /\ session = [c \in Conns |-> NoSession]
      /\ kills = MaxKills /\ breaks = MaxBreaks
  BY DEF Init
<1>2. << >> \in Seq(Messages) /\ Len(<< >>) = 0 /\ 0 <= MaxQueue
  BY LinkAssumption
<1>3. [peer |-> "none", queue |-> << >>, ended |-> FALSE] \in ConnState
  BY <1>2 DEF ConnState
<1>4. conn \in [Conns -> ConnState]
  BY <1>1, <1>3
<1>5. NewMirror \in Mirror
  <2>1. DIMax \in 0 .. DIMax /\ 0 \in 0 .. Cardinality(EffectIds)
    BY GainAssumption, LinkAssumption, FS_CardinalityType
  <2>2. QED
    BY <2>1 DEF NewMirror, Mirror
<1>6. \A c \in Conns : conn[c].peer = "none" /\ Len(conn[c].queue) <= MaxQueue
  BY <1>1, <1>2
<1>7. kills \in 0 .. MaxKills /\ breaks \in 0 .. MaxBreaks /\ alive \in BOOLEAN /\ told \in BOOLEAN
  <2>1. kills \in 0 .. MaxKills /\ breaks \in 0 .. MaxBreaks
    <3>1. kills = MaxKills /\ breaks = MaxBreaks
      BY <1>1
    <3>2. MaxKills \in Nat /\ MaxBreaks \in Nat
      BY LinkAssumption
    <3>3. QED
      BY <3>1, <3>2
  <2>2. alive \in BOOLEAN /\ told \in BOOLEAN
    BY <1>1, Zenon
  <2>3. QED
    BY <2>1, <2>2
<1>8. TypeOK
  BY <1>1, <1>4, <1>5, <1>6, <1>7 DEF TypeOK, ConnState
<1>9. LinkIsAlone /\ LinkIsOpen /\ SessionsAreServed
  BY <1>1, <1>6 DEF LinkIsAlone, LinkIsOpen, SessionsAreServed, Reached
<1>10. NothingUnasked /\ MirrorIsTrue
  BY <1>1, <1>6 DEF NothingUnasked, MirrorIsTrue, Settled, Reached
<1>11. QED
  BY <1>4, <1>8, <1>9, <1>10 DEF IInv

\* Every step keeps it.
LEMMA NextKeeps == IInv /\ [Next]_vars => IInv'
<1> SUFFICES ASSUME IInv, [Next]_vars PROVE IInv'
  OBVIOUS
<1>1. CASE Game
  <2>1. CASE DeviceBegin \/ DeviceEnd \/ GameEnds
    BY <2>1, DeviceBeginKeeps, DeviceEndKeeps, GameEndsKeeps
  <2>2. CASE GameStarts
    BY <2>2, StutterKeeps DEF GameStarts, IInv, TypeOK
  <2>3. CASE \E gain \in Gains : SetDeviceGain(gain)
    BY <2>3, SetDeviceGainKeeps
  <2>4. CASE \E name \in Commands : SendForceFeedbackCommand(name)
    BY <2>4, CommandKeeps
  <2>5. CASE \E id \in Handles :
               \/ \E shape \in Shapes, start \in BOOLEAN : DownloadEffect(id, shape, start)
               \/ DownloadNothing(id)
    BY <2>5, DownloadEffectKeeps, DownloadNothingKeeps
  <2>6. CASE \E id \in mirror.held :
               DestroyEffect(id) \/ StopEffect(id) \/ \E solo \in BOOLEAN : StartEffect(id, solo)
    BY <2>6, DestroyEffectKeeps, StopEffectKeeps, StartEffectKeeps
  <2>7. QED
    BY <1>1, <2>1, <2>2, <2>3, <2>4, <2>5, <2>6 DEF Game
<1>2. CASE Serve
  BY <1>2, AcceptKeeps, ReadKeeps, ReadEndKeeps DEF Serve
<1>3. CASE ServiceEnds
  BY <1>3, ServiceEndsKeeps
<1>4. CASE ServiceStarts
  BY <1>4, StutterKeeps DEF ServiceStarts, IInv, TypeOK
<1>5. CASE \E c \in Conns, id \in EffectIds : EffectEnds(c, id)
  BY <1>5, EffectEndsKeeps
<1>6. CASE UNCHANGED vars
  BY <1>6, StutterKeeps DEF vars, IInv, TypeOK
<1>7. QED
  BY <1>1, <1>2, <1>3, <1>4, <1>5, <1>6 DEF Next

\* The invariant, of every behaviour.
THEOREM Invariance == Spec => []IInv
BY InitKeeps, NextKeeps, PTL DEF Spec

\* The driver, its connections and the service's sessions keep their types.
THEOREM TypeCorrect == Spec => []TypeOK
<1>1. IInv => TypeOK
  BY DEF IInv
<1>2. QED
  BY Invariance, <1>1, PTL

\* Once the messages on their way are read, the service holds and plays nothing for a game
\* that the game's driver does not, whatever was lost, refused or restarted.
THEOREM NothingIsUnasked == Spec => []NothingUnasked
<1>1. IInv => NothingUnasked
  BY DEF IInv
<1>2. QED
  BY Invariance, <1>1, PTL

\* A driver that has told the service everything answers its game truly.
THEOREM MirrorTellsTheTruth == Spec => []MirrorIsTrue
<1>1. IInv => MirrorIsTrue
  BY DEF IInv
<1>2. QED
  BY Invariance, <1>1, PTL
=============================================================================
