-------------------------- MODULE LegacyProxyProofs --------------------------
(***************************************************************************)
(* Proofs about LegacyProxy: that never two outputs of a game are in use,  *)
(* and that the watchdog of a receiver spares the force of a game that     *)
(* lives, for any number of outputs and effects and any clock.             *)
(***************************************************************************)
EXTENDS LegacyProxy, WellFoundedInduction, FiniteSetTheorems, TLAPS

-----------------------------------------------------------------------------
(* Sums over finite sets. *)

\* Every set of naturals that is not empty has a least element.
LEMMA Least ==
    ASSUME NEW T, T \subseteq Nat, T # {}
    PROVE  \E n \in T : \A m \in T : n <= m
<1> DEFINE R == OpToRel(<, Nat)
<1>1. IsWellFoundedOn(R, Nat)
  BY NatLessThanWellFounded
<1> HIDE DEF R
<1>2. PICK n \in T : \A m \in T : ~(<<m, n>> \in R)
  BY <1>1, WFMin
<1>3. ASSUME NEW m \in T PROVE n <= m
  <2>1. m < n => <<m, n>> \in R
    BY DEF R, OpToRel
  <2>2. QED
    BY <2>1, <1>2
<1>4. QED
  BY <1>3

First(T) == CHOOSE x \in T : TRUE

Small(S, n) == {T \in SUBSET S : Cardinality(T) <= n}

\* The partial sums of g over a family of sets.
IsSum(f, g, Sets) ==
    f = [T \in Sets |-> IF T = {} THEN 0 ELSE g[First(T)] + f[T \ {First(T)}]]

\* What is left of a finite set after its first element is taken has one element less.
LEMMA Rest ==
    ASSUME NEW S, IsFiniteSet(S), NEW T \in SUBSET S, T # {}
    PROVE  /\ First(T) \in T /\ T \ {First(T)} \in SUBSET S
           /\ Cardinality(T) \in Nat /\ Cardinality(T \ {First(T)}) = Cardinality(T) - 1
           /\ Cardinality(T) > 0
<1>1. First(T) \in T
  BY DEF First
<1>2. IsFiniteSet(T)
  BY FS_Subset
<1>3. Cardinality(T) \in Nat /\ Cardinality(T) # 0
  BY <1>2, FS_CardinalityType, FS_EmptySet
<1>4. Cardinality(T \ {First(T)}) = Cardinality(T) - 1
  BY <1>1, <1>2, FS_RemoveElement
<1>5. QED
  BY <1>1, <1>3, <1>4

\* There are partial sums over all small subsets of a finite set.
LEMMA SumExistsSmall ==
    ASSUME NEW S, IsFiniteSet(S), NEW g
    PROVE  \A n \in Nat : \E f : IsSum(f, g, Small(S, n))
<1> DEFINE Good(n) == \E f : IsSum(f, g, Small(S, n))
           Bad == {n \in Nat : ~Good(n)}
<1>1. Good(0)
  <2> DEFINE f == [T \in Small(S, 0) |-> 0]
  <2>1. ASSUME NEW T \in Small(S, 0), T # {} PROVE FALSE
    <3>1. T \in SUBSET S /\ Cardinality(T) <= 0
      BY DEF Small
    <3>2. Cardinality(T) \in Nat /\ Cardinality(T) > 0
      BY <2>1, <3>1, Rest
    <3>3. QED
      BY <3>1, <3>2
  <2>2. f = [T \in Small(S, 0) |-> IF T = {} THEN 0 ELSE g[First(T)] + f[T \ {First(T)}]]
    BY <2>1
  <2> HIDE DEF f
  <2>3. QED
    BY <2>2 DEF IsSum
<1>2. ASSUME NEW n \in Nat, n # 0, Good(n - 1) PROVE Good(n)
  <2>1. PICK h : IsSum(h, g, Small(S, n - 1))
    BY <1>2
  <2> DEFINE f == [T \in Small(S, n) |-> IF T = {} THEN 0 ELSE g[First(T)] + h[T \ {First(T)}]]
  <2>2. \A T \in Small(S, n) : T # {} => T \ {First(T)} \in Small(S, n - 1)
    BY Rest DEF Small
  <2>3. Small(S, n - 1) \subseteq Small(S, n)
    BY FS_CardinalityType, FS_Subset DEF Small
  <2>4. \A T \in Small(S, n - 1) : f[T] = h[T]
    BY <2>1, <2>3 DEF IsSum
  <2>5. \A T \in Small(S, n) :
            f[T] = IF T = {} THEN 0 ELSE g[First(T)] + f[T \ {First(T)}]
    BY <2>2, <2>4
  <2>6. f = [T \in Small(S, n) |-> f[T]]
    OBVIOUS
  <2> HIDE DEF f
  <2>7. f = [T \in Small(S, n) |-> IF T = {} THEN 0 ELSE g[First(T)] + f[T \ {First(T)}]]
    BY <2>5, <2>6
  <2>8. QED
    BY <2>7 DEF IsSum
<1>3. Bad \subseteq Nat
  OBVIOUS
<1>4. \A n \in Nat : n \in Bad <=> ~Good(n)
  OBVIOUS
<1> HIDE DEF Bad, Good
<1>5. ASSUME Bad # {} PROVE FALSE
  <2>1. PICK n \in Bad : \A m \in Bad : n <= m
    BY <1>3, <1>5, Least
  <2>2. n # 0 /\ n \in Nat
    BY <2>1, <1>1, <1>3, <1>4
  <2>3. Good(n - 1)
    BY <2>1, <2>2, <1>4
  <2>4. QED
    BY <2>1, <2>2, <2>3, <1>2, <1>4
<1>6. \A n \in Nat : Good(n)
  BY <1>4, <1>5
<1>7. QED
  BY <1>6 DEF Good

\* And over all of them.
LEMMA SumExists ==
    ASSUME NEW S, IsFiniteSet(S), NEW g
    PROVE  \E f : IsSum(f, g, SUBSET S)
<1>1. Cardinality(S) \in Nat
  BY FS_CardinalityType
<1>2. Small(S, Cardinality(S)) = SUBSET S
  BY FS_Subset DEF Small
<1>3. QED
  BY <1>1, <1>2, SumExistsSmall

\* Sums of integers are integers.
LEMMA SumIsInt ==
    ASSUME NEW S, IsFiniteSet(S), NEW g, \A x \in S : g[x] \in Int,
           NEW f, IsSum(f, g, SUBSET S)
    PROVE  f[S] \in Int
<1> DEFINE Bad == {n \in Nat : \E T \in SUBSET S : Cardinality(T) = n /\ f[T] \notin Int}
<1>1. \A T \in SUBSET S : f[T] = IF T = {} THEN 0 ELSE g[First(T)] + f[T \ {First(T)}]
  BY DEF IsSum
<1>2. ASSUME Bad # {} PROVE FALSE
  <2>1. Bad \subseteq Nat
    OBVIOUS
  <2>2. PICK n \in Bad : \A m \in Bad : n <= m
    <3> HIDE DEF Bad
    <3>1. QED
      BY <2>1, <1>2, Least
  <2>3. PICK T \in SUBSET S : Cardinality(T) = n /\ f[T] \notin Int
    BY <2>2
  <2>4. T # {}
    <3>1. T = {} => f[T] = 0
      BY <1>1
    <3>2. QED
      BY <2>3, <3>1
  <2>5. f[T] = g[First(T)] + f[T \ {First(T)}] /\ g[First(T)] \in Int
    BY <2>4, <1>1, Rest
  <2>6. f[T \ {First(T)}] \notin Int
    BY <2>3, <2>5
  <2>7. Cardinality(T \ {First(T)}) = n - 1 /\ n - 1 \in Nat /\ T \ {First(T)} \in SUBSET S
    <3>1. /\ T \ {First(T)} \in SUBSET S
          /\ Cardinality(T) \in Nat /\ Cardinality(T \ {First(T)}) = Cardinality(T) - 1
          /\ Cardinality(T) > 0
      BY <2>4, Rest
    <3>2. QED
      BY <2>3, <3>1
  <2>8. n - 1 \in Bad
    BY <2>6, <2>7
  <2>9. QED
    BY <2>2, <2>7, <2>8
<1>3. IsFiniteSet(S) /\ Cardinality(S) \in Nat
  BY FS_CardinalityType
<1>4. QED
  BY <1>2, <1>3

\* So the sum of a mix is an integer, and the mix a force.
LEMMA MixIsForce ==
    ASSUME NEW s \in Output
    PROVE  Mix(s) \in Forces
<1> DEFINE S == Playing(s)
           level(id) == Clamp(s.effects[id].level, -DIMax, DIMax)
           sum == MapThenSumSet(LAMBDA id : level(id), S)
           g == [id \in S |-> level(id)]
<1>1. IsFiniteSet(S)
  <2>1. S \in SUBSET EffectIds
    BY DEF Playing
  <2>2. QED
    BY <2>1, FS_Subset, ProxyAssumption
<1>2. \A id \in S : g[id] \in Int
  <2>1. ASSUME NEW id \in S PROVE s.effects[id].level \in Int
    <3>1. s.effects[id] \in Effect
      BY DEF Playing, Output
    <3>2. Levels \cup {0} \subseteq Int
      BY ProxyAssumption
    <3>3. QED
      BY <3>1, <3>2 DEF Effect
  <2>2. QED
    BY <2>1, ProxyAssumption DEF Clamp
<1>3. sum \in Int
  <2> DEFINE iter == CHOOSE iter : iter = [T \in SUBSET S |->
                        IF T = {} THEN 0 ELSE level(First(T)) + iter[T \ {First(T)}]]
  <2>1. sum = iter[S]
    BY DEF MapThenSumSet, MapThenFoldSet, First
  <2>2. PICK f : IsSum(f, g, SUBSET S)
    <3> HIDE DEF g
    <3>1. QED
      BY <1>1, SumExists
  <2>3. \A T \in SUBSET S : T # {} => g[First(T)] = level(First(T))
    <3>1. \A T \in SUBSET S : T # {} => First(T) \in S
      BY DEF First
    <3> HIDE DEF S, level
    <3>2. QED
      BY <3>1
  <2> HIDE DEF sum, g, S, level
  <2>4. f = [T \in SUBSET S |-> IF T = {} THEN 0 ELSE level(First(T)) + f[T \ {First(T)}]]
    BY <2>2, <2>3 DEF IsSum
  <2>5. iter = [T \in SUBSET S |-> IF T = {} THEN 0 ELSE level(First(T)) + iter[T \ {First(T)}]]
    BY <2>4
  <2> HIDE DEF iter
  <2>6. IsSum(iter, g, SUBSET S)
    BY <2>3, <2>5 DEF IsSum
  <2>7. QED
    BY <1>1, <1>2, <2>1, <2>6, SumIsInt
<1>4. Mix(s) = IF s.paused \/ ~s.actuators THEN 0
               ELSE Clamp(TowardsZero(sum * s.gain, DIMax), -DIMax, DIMax)
  BY DEF Mix
<1> HIDE DEF sum
<1>5. DIMax \in Nat \ {0} /\ s.gain \in Int
  BY ProxyAssumption DEF Output
<1>6. sum * s.gain \in Int
  BY <1>3, <1>5
<1>7. ASSUME NEW a \in Int PROVE TowardsZero(a, DIMax) \in Int
  BY <1>5 DEF TowardsZero
<1>8. ASSUME NEW x \in Int PROVE Clamp(x, -DIMax, DIMax) \in Forces /\ 0 \in Forces
  BY <1>5 DEF Clamp, Forces
<1>9. QED
  BY <1>4, <1>6, <1>7, <1>8, Zenon

-----------------------------------------------------------------------------
(* The inductive invariant. *)

Period == Heartbeat + Late

\* An output that is not there is not referred to.
GoneMeansGone == \A o \in Outputs : output[o].pc = "none" => output[o] = Gone /\ o \notin held

\* An output is destroyed only when nobody refers to it, and for good.
OnlyUnusedStop == \A o \in Outputs : output[o].stopping => ~Referred(o)

OnlyStoppedEnd == \A o \in Outputs : output[o].pc = "ended" => output[o].stopping

OneInUse == \A o, p \in Alive : o = p

GameInv ==
    /\ output \in [Outputs -> Output] /\ held \subseteq Outputs
    /\ GoneMeansGone /\ OnlyUnusedStop /\ OnlyStoppedEnd /\ OneInUse

SignalTypes ==
    /\ faults \in 0 .. MaxFaults
    /\ inbox \in Datagram \cup {None}
    /\ receiver \in [kind : {"service", "bridge"}, up : BOOLEAN, polled : BOOLEAN]
    /\ speaker \in BOOLEAN
    /\ force \in Forces
    /\ age \in 0 .. Watchdog + 1
    /\ wheel \in Forces

\* A force, on its way or at the wheel, that counts as sent by an output in use has one;
\* and while no datagram waits, the time since the last one is what its worker idles now,
\* and a period for everything that went wrong.
SpeakersLive ==
    /\ ~receiver.up => inbox = None /\ ~speaker
    /\ inbox # None => (inbox.alive => Alive # {})
    /\ speaker => wheel = force /\ Alive # {}
    /\ speaker /\ inbox = None => \A o \in Alive : age <= faults * Period + output[o].idle

IInv == GameInv /\ SignalTypes /\ SpeakersLive

\* A set any two of whose elements are the same has one at most.
LEMMA AtMostOne ==
    ASSUME NEW S, \A x, y \in S : x = y
    PROVE  Cardinality(S) <= 1
<1>1. CASE S = {}
  BY <1>1, FS_EmptySet
<1>2. CASE S # {}
  <2>1. PICK x \in S : TRUE
    BY <1>2
  <2>2. S = {x}
    BY <2>1
  <2>3. Cardinality({x}) = 1
    BY FS_Singleton
  <2>4. QED
    BY <2>2, <2>3
<1>3. QED
  BY <1>1, <1>2

\* The invariant has the types.
LEMMA InvariantTypes == IInv => TypeOK
<1> SUFFICES ASSUME IInv PROVE TypeOK
  OBVIOUS
<1>1. Cardinality(Alive) <= 1
  BY AtMostOne DEF IInv, GameInv, OneInUse
<1>2. QED
  BY <1>1 DEF IInv, GameInv, SignalTypes, TypeOK

\* What the watchdog waits is enough for every fault and one more period.
LEMMA Patience ==
    /\ Period \in Nat /\ Watchdog \in Nat /\ MaxFaults \in Nat
    /\ \A f \in Nat : f * Period \in Nat /\ (f + 1) * Period = f * Period + Period
    /\ \A f \in 0 .. MaxFaults : f * Period + Period <= Watchdog
<1>1. Period \in Nat /\ Watchdog \in Nat /\ MaxFaults \in Nat /\ (MaxFaults + 1) * Period <= Watchdog
  BY ProxyAssumption DEF Period
<1> HIDE DEF Period
<1>2. ASSUME NEW f \in Nat PROVE f * Period \in Nat /\ (f + 1) * Period = f * Period + Period
  BY <1>1
<1>3. ASSUME NEW f \in 0 .. MaxFaults PROVE f * Period + Period <= Watchdog
  <2>1. PICK d \in Nat : MaxFaults = f + d
    <3>1. MaxFaults - f \in Nat /\ MaxFaults = f + (MaxFaults - f)
      BY <1>1
    <3>2. QED
      BY <3>1
  <2>2. (f + d + 1) * Period = (f * Period + Period) + d * Period /\ f * Period \in Nat /\ d * Period \in Nat
    BY <1>1
  <2>3. QED
    BY <1>1, <2>1, <2>2
<1>4. QED
  BY <1>1, <1>2, <1>3

\* Whoever is in use works.
LEMMA AliveWork ==
    ASSUME GameInv, NEW o \in Alive
    PROVE  /\ o \in Outputs /\ output[o] \in Output /\ Working(o)
           /\ output[o].idle \in 0 .. Period /\ ~output[o].stopping
<1>1. o \in Outputs /\ output[o].pc # "none" /\ Referred(o)
  BY DEF Alive
<1>2. output[o] \in Output /\ ~output[o].stopping /\ output[o].pc # "ended"
  BY <1>1 DEF GameInv, OnlyUnusedStop, OnlyStoppedEnd
<1>3. QED
  BY <1>1, <1>2 DEF Working, Output, Period

-----------------------------------------------------------------------------
(* Steps, by what they do to the outputs in use. *)

\* A step of the game or a worker that keeps the outputs in use.
LEMMA GameStep ==
    ASSUME IInv, GameInv', UNCHANGED <<inbox, speaker, faults, receiverVars>>,
           Alive \subseteq Alive', \A o \in Alive : output'[o].idle = output[o].idle
    PROVE  IInv'
<1>1. /\ receiver' = receiver /\ force' = force /\ age' = age /\ wheel' = wheel
      /\ inbox' = inbox /\ speaker' = speaker /\ faults' = faults
  BY DEF receiverVars
<1>2. SignalTypes'
  BY <1>1 DEF IInv, SignalTypes
<1>3. Alive # {} => Alive' = Alive
  BY DEF GameInv, OneInUse
<1>4. ASSUME speaker, inbox = None, NEW o \in Alive'
      PROVE  age <= faults * Period + output'[o].idle
  BY <1>3, <1>4 DEF IInv, SpeakersLive
<1>5. SpeakersLive'
  BY <1>1, <1>3, <1>4 DEF IInv, SpeakersLive
<1>6. QED
  BY <1>2, <1>5 DEF IInv

\* A factor keeps an order.
LEMMA MoreOfIt ==
    ASSUME NEW a \in Nat, NEW b \in Nat, NEW c \in Nat, a <= b
    PROVE  a * c <= b * c
OBVIOUS

\* A step by which the game may lose an output, and says so.
LEMMA ForgetStep ==
    ASSUME IInv, GameInv', UNCHANGED receiverVars, Forget,
           faults' \in 0 .. MaxFaults, faults' >= faults,
           Alive' \subseteq Alive, \A o \in Alive' : output'[o].idle = output[o].idle
    PROVE  IInv'
<1>1. receiver' = receiver /\ force' = force /\ age' = age /\ wheel' = wheel
  BY DEF receiverVars
<1>2. CASE Alive \subseteq Alive'
  <2>1. inbox' = inbox /\ speaker' = speaker /\ Alive' = Alive
    BY <1>2 DEF Forget
  <2>2. SignalTypes'
    BY <1>1, <2>1 DEF IInv, SignalTypes
  <2>3. faults \in Nat /\ faults' \in Nat /\ age \in Nat
    <3>1. faults \in 0 .. MaxFaults /\ age \in 0 .. Watchdog + 1
      BY DEF IInv, SignalTypes
    <3>2. MaxFaults \in Nat /\ Watchdog \in Nat
      BY Patience
    <3>3. QED
      BY <3>1, <3>2
  <2>4. faults * Period <= faults' * Period
    <3>1. PICK a \in Nat : a = faults
      BY <2>3
    <3>2. PICK b \in Nat : b = faults'
      BY <2>3
    <3>3. PICK c \in Nat : c = Period
      BY Patience
    <3>4. a <= b
      BY <3>1, <3>2
    <3>5. a * c <= b * c
      BY <3>4, MoreOfIt
    <3>6. QED
      BY <3>1, <3>2, <3>3, <3>5
  <2>5. ASSUME speaker, inbox = None, NEW o \in Alive
        PROVE  age <= faults' * Period + output'[o].idle
    <3>1. age <= faults * Period + output[o].idle /\ output'[o].idle = output[o].idle
      BY <2>1, <2>5 DEF IInv, SpeakersLive
    <3>2. output[o].idle \in Nat
      BY AliveWork, Patience DEF IInv
    <3>3. faults * Period \in Nat /\ faults' * Period \in Nat /\ age \in Nat
      BY <2>3, Patience
    <3>4. QED
      BY <2>4, <3>1, <3>2, <3>3
  <2>6. SpeakersLive'
    BY <1>1, <2>1, <2>5 DEF IInv, SpeakersLive
  <2>7. QED
    BY <2>2, <2>6 DEF IInv
<1>3. CASE ~(Alive \subseteq Alive')
  <2>1. speaker' = FALSE /\ inbox' = IF inbox = None THEN None ELSE [inbox EXCEPT !.alive = FALSE]
    BY <1>3 DEF Forget
  <2>2. inbox' \in Datagram \cup {None} /\ (inbox = None => inbox' = None)
        /\ (inbox' # None => ~inbox'.alive)
    <3>1. CASE inbox = None
      BY <2>1, <3>1
    <3>2. CASE inbox # None
      BY <2>1, <3>2 DEF IInv, SignalTypes, Datagram
    <3>3. QED
      BY <3>1, <3>2
  <2>3. speaker' \in BOOLEAN
    BY <2>1, Zenon
  <2>4. SignalTypes'
    BY <1>1, <2>2, <2>3 DEF IInv, SignalTypes
  <2>5. SpeakersLive'
    BY <1>1, <2>1, <2>2 DEF IInv, SpeakersLive
  <2>6. QED
    BY <2>4, <2>5 DEF IInv
<1>4. QED
  BY <1>2, <1>3

\* A step that sends a datagram for an output.
LEMMA SendStep ==
    ASSUME IInv, GameInv', UNCHANGED <<speaker, receiverVars>>, Alive' = Alive,
           NEW o, NEW magnitude \in Forces, Send(o, magnitude),
           \A p \in Alive : output'[p].idle \in Nat
    PROVE  IInv'
<1>1. receiver' = receiver /\ force' = force /\ age' = age /\ wheel' = wheel /\ speaker' = speaker
  BY DEF receiverVars
<1>2. CASE /\ inbox' = IF ~receiver.up THEN None
                       ELSE [force |-> magnitude, alive |-> magnitude # 0 /\ o \in Alive]
           /\ UNCHANGED faults
  <2>1. CASE ~receiver.up
    <3>1. inbox' = None
      BY <1>2, <2>1
    <3>2. QED
      BY <1>1, <1>2, <2>1, <3>1 DEF IInv, SignalTypes, SpeakersLive
  <2>2. CASE receiver.up
    <3> DEFINE said == magnitude # 0 /\ o \in Alive
    <3>1. inbox' = [force |-> magnitude, alive |-> said]
      BY <1>2, <2>2
    <3>2. said \in BOOLEAN /\ (said => Alive # {})
      OBVIOUS
    <3> HIDE DEF said
    <3>3. inbox' \in Datagram /\ inbox'.alive = said
      BY <3>1, <3>2 DEF Datagram
    <3>4. inbox' # None
      BY <3>3, AbsenceAssumption
    <3>5. SignalTypes'
      BY <1>1, <1>2, <3>3 DEF IInv, SignalTypes
    <3>6. SpeakersLive'
      BY <1>1, <2>2, <3>2, <3>3, <3>4 DEF IInv, SpeakersLive
    <3>7. QED
      BY <3>5, <3>6 DEF IInv
  <2>3. QED
    BY <2>1, <2>2
<1>3. CASE faults < MaxFaults /\ faults' = faults + 1 /\ UNCHANGED inbox
  <2>1. SignalTypes'
    BY <1>1, <1>3, Patience DEF IInv, SignalTypes
  <2>2. ASSUME speaker, inbox = None, NEW p \in Alive
        PROVE  age <= faults' * Period + output'[p].idle
    <3>1. age <= faults * Period + output[p].idle
      BY <2>2 DEF IInv, SpeakersLive
    <3>2. output[p].idle \in 0 .. Period /\ output'[p].idle \in Nat
      BY AliveWork DEF IInv
    <3>3. faults \in Nat /\ age \in Nat
      BY Patience DEF IInv, SignalTypes
    <3>4. faults' * Period = faults * Period + Period /\ faults * Period \in Nat /\ Period \in Nat
      BY <1>3, <3>3, Patience
    <3>5. QED
      BY <3>1, <3>2, <3>3, <3>4
  <2>3. SpeakersLive'
    BY <1>1, <1>3, <2>2 DEF IInv, SpeakersLive
  <2>4. QED
    BY <2>1, <2>3 DEF IInv
<1>4. QED
  BY <1>2, <1>3 DEF Send

-----------------------------------------------------------------------------
(* The game and the workers. *)

\* An output that is replaced by one that is in use exactly when it was keeps the rest.
LEMMA OneOutput ==
    ASSUME GameInv, NEW o \in Outputs, NEW s \in Output,
           output' = [output EXCEPT ![o] = s], held' = held,
           s.pc # "none", output[o].pc # "none",
           o \in held \/ \A id \in EffectIds : s.effects[id] = None <=> output[o].effects[id] = None,
           s.stopping => output[o].stopping \/ ~Referred(o),
           s.pc = "ended" => s.stopping
    PROVE  GameInv' /\ Alive' = Alive
<1>1. output' \in [Outputs -> Output] /\ output'[o] = s
      /\ \A p \in Outputs : p # o => output'[p] = output[p]
  BY DEF GameInv
<1>2. \A p \in Outputs : Referred(p)' <=> Referred(p)
  <2>1. Referred(o)' <=> Referred(o)
    BY <1>1 DEF Referred
  <2>2. \A p \in Outputs : p # o => (Referred(p)' <=> Referred(p))
    BY <1>1 DEF Referred
  <2>3. QED
    BY <2>1, <2>2
<1>3. Alive' = Alive
  BY <1>1, <1>2 DEF Alive
<1>4. GoneMeansGone'
  BY <1>1 DEF GameInv, GoneMeansGone
<1>5. OnlyUnusedStop' /\ OnlyStoppedEnd'
  BY <1>1, <1>2 DEF GameInv, OnlyUnusedStop, OnlyStoppedEnd
<1>6. QED
  BY <1>1, <1>3, <1>4, <1>5 DEF GameInv, OneInUse

\* Waking a worker changes where it is, and nothing else.
LEMMA NotifyKeeps ==
    ASSUME NEW s \in Output
    PROVE  /\ Notify(s) \in Output
           /\ Notify(s).effects = s.effects /\ Notify(s).stopping = s.stopping
           /\ Notify(s).idle = s.idle
           /\ Notify(s).pc = "none" <=> s.pc = "none"
           /\ Notify(s).pc = "ended" <=> s.pc = "ended"
BY DEF Notify, Output

\* A method of an output that is not destroyed.
LEMMA CallKeeps ==
    ASSUME IInv, NEW o \in Outputs, output[o].pc # "none", NEW s \in Output, Call(o, s), held' = held,
           s.pc = output[o].pc, s.stopping = output[o].stopping, s.idle = output[o].idle,
           o \in held \/ \A id \in EffectIds : s.effects[id] = None <=> output[o].effects[id] = None
    PROVE  IInv'
<1>1. output' = [output EXCEPT ![o] = Notify(s)] /\ UNCHANGED <<inbox, speaker, faults, receiverVars>>
  BY DEF Call
<1>2. GameInv' /\ Alive' = Alive
  <2>1. s.pc = "ended" => s.stopping
    BY DEF IInv, GameInv, OnlyStoppedEnd
  <2> DEFINE n == Notify(s)
  <2>2. /\ n \in Output /\ n.pc # "none" /\ (n.stopping => output[o].stopping)
        /\ (n.pc = "ended" => n.stopping)
        /\ o \in held \/ \A id \in EffectIds : n.effects[id] = None <=> output[o].effects[id] = None
    BY <2>1, NotifyKeeps
  <2>3. output' = [output EXCEPT ![o] = n]
    BY <1>1
  <2> HIDE DEF n
  <2>4. QED
    BY <2>2, <2>3, OneOutput DEF IInv
<1>3. \A p \in Alive : output'[p].idle = output[p].idle
  BY <1>1, NotifyKeeps DEF IInv, GameInv, Alive
<1>4. QED
  BY <1>1, <1>2, <1>3, GameStep

\* An output a device or an effect refers to is there.
LEMMA ReferredIsThere ==
    ASSUME GameInv, NEW o \in Outputs, Referred(o)
    PROVE  output[o].pc # "none" /\ o \in Alive
<1>1. ASSUME output[o].pc = "none" PROVE FALSE
  <2>1. output[o] = Gone /\ o \notin held
    BY <1>1 DEF GameInv, GoneMeansGone
  <2>2. QED
    BY <2>1 DEF Referred, Gone
<1>2. QED
  BY <1>1 DEF Alive

\* An output that is not there is not referred to and is of its type.
LEMMA GoneIsOutput == Gone \in Output
<1>1. 0 \in Forces /\ 0 \in 0 .. Heartbeat + Late /\ DIMax \in 0 .. DIMax
  BY ProxyAssumption DEF Forces
<1>2. [id \in EffectIds |-> None] \in [EffectIds -> Effect \cup {None}]
  OBVIOUS
<1>3. TRUE \in BOOLEAN /\ FALSE \in BOOLEAN
  BY Zenon
<1>4. QED
  BY <1>1, <1>2, <1>3, Zenon DEF Gone, Output

\* A device object takes the output that is alive, or makes one.
LEMMA OpenDeviceKeeps == IInv /\ OpenDevice => IInv'
<1> SUFFICES ASSUME IInv, OpenDevice PROVE IInv'
  OBVIOUS
<1>1. PICK o \in Outputs :
        /\ IF Alive # {} THEN o \in Alive /\ UNCHANGED output
           ELSE LET free == {p \in Outputs : output[p] = Gone} IN
                /\ free # {} /\ o = CHOOSE p \in free : TRUE
                /\ output' = [output EXCEPT ![o].pc = "take"]
        /\ held' = held \cup {o}
        /\ UNCHANGED <<inbox, speaker, faults, receiverVars>>
  BY DEF OpenDevice
<1>2. CASE Alive # {}
  <2>1. o \in Alive /\ output' = output
    BY <1>1, <1>2
  <2>2. \A p \in Outputs : Referred(p)' <=> Referred(p)
    <3>1. ASSUME NEW p \in Outputs PROVE Referred(p)' <=> Referred(p)
      <4>1. CASE p = o
        <5>1. Referred(o) /\ Referred(o)'
          BY <1>1, <2>1 DEF Alive, Referred
        <5>2. QED
          BY <4>1, <5>1
      <4>2. CASE p # o
        BY <1>1, <2>1, <4>2 DEF Referred
      <4>3. QED
        BY <4>1, <4>2
    <3>2. QED
      BY <3>1
  <2>3. Alive' = Alive
    BY <2>1, <2>2 DEF Alive
  <2>4. o \in Outputs /\ output[o].pc # "none"
    BY <2>1 DEF Alive
  <2>5. GoneMeansGone' /\ OnlyUnusedStop' /\ OnlyStoppedEnd' /\ OneInUse'
    BY <1>1, <2>1, <2>2, <2>3, <2>4
    DEF IInv, GameInv, GoneMeansGone, OnlyUnusedStop, OnlyStoppedEnd, OneInUse
  <2>6. GameInv'
    BY <1>1, <2>1, <2>5 DEF IInv, GameInv
  <2>7. QED
    BY <1>1, <2>1, <2>3, <2>6, GameStep
<1>3. CASE Alive = {}
  <2>1. output[o] = Gone /\ output' = [output EXCEPT ![o].pc = "take"]
    BY <1>1, <1>3
  <2>2. ASSUME NEW p \in Outputs PROVE ~Referred(p)
    BY <1>3, <2>2, ReferredIsThere DEF IInv
  <2> DEFINE s == [Gone EXCEPT !.pc = "take"]
  <2>3. s \in Output /\ s.pc = "take" /\ s.stopping = FALSE
    BY GoneIsOutput DEF Output, Gone
  <2>4. output' = [output EXCEPT ![o] = s]
    BY <2>1
  <2> HIDE DEF s
  <2>5. output' \in [Outputs -> Output] /\ output'[o] = s /\ \A p \in Outputs : p # o => output'[p] = output[p]
    BY <2>3, <2>4 DEF IInv, GameInv
  <2>6. \A p \in Outputs : p # o => ~Referred(p)'
    BY <1>1, <2>2, <2>5 DEF Referred
  <2>7. GoneMeansGone' /\ OnlyUnusedStop' /\ OnlyStoppedEnd'
    BY <1>1, <2>3, <2>5, <2>6 DEF IInv, GameInv, GoneMeansGone, OnlyUnusedStop, OnlyStoppedEnd
  <2>8. OneInUse'
    BY <2>6 DEF OneInUse, Alive
  <2>9. GameInv'
    BY <1>1, <2>5, <2>7, <2>8 DEF IInv, GameInv
  <2>10. QED
    BY <1>1, <1>3, <2>9, GameStep
<1>4. QED
  BY <1>2, <1>3

\* What the game does to its effects and its device.
LEMMA MethodsKeep ==
    ASSUME IInv, NEW o \in Outputs,
           \/ \E id \in EffectIds :
                 \/ CreateEffect(o, id)
                 \/ \E level \in Levels : SetParameters(o, id, level)
                 \/ \E playing \in BOOLEAN : StartOrStop(o, id, playing)
           \/ \E gain \in Gains : SetDeviceGain(o, gain)
           \/ \E name \in Commands : SendCommand(o, name)
    PROVE  IInv'
<1>1. output[o] \in Output
  BY DEF IInv, GameInv
<1>2. \A id \in EffectIds : output[o].effects[id] # None => output[o].effects[id] \in Effect
  BY <1>1 DEF Output
<1>3. \A s : o \in held \/ (\E id \in EffectIds : output[o].effects[id] # None) => output[o].pc # "none"
  BY ReferredIsThere DEF IInv, Referred
<1>4. ASSUME NEW ids, NEW playing \in BOOLEAN
      PROVE  LET s == SetPlaying(output[o], ids, playing)
             IN  /\ s \in Output /\ s.pc = output[o].pc /\ s.stopping = output[o].stopping
                 /\ s.idle = output[o].idle
                 /\ \A id \in EffectIds : s.effects[id] = None <=> output[o].effects[id] = None
  <2> DEFINE e == [id \in EffectIds |->
                      IF id \in ids /\ output[o].effects[id] # None
                      THEN [output[o].effects[id] EXCEPT !.playing = playing]
                      ELSE output[o].effects[id]]
             s == [output[o] EXCEPT !.effects = e]
  <2>1. ASSUME NEW id \in EffectIds
        PROVE  e[id] \in Effect \cup {None} /\ (e[id] = None <=> output[o].effects[id] = None)
    <3>1. CASE id \in ids /\ output[o].effects[id] # None
      <4>1. e[id] = [output[o].effects[id] EXCEPT !.playing = playing]
        BY <3>1
      <4>2. e[id] \in Effect
        BY <1>2, <3>1, <4>1 DEF Effect
      <4>3. QED
        BY <3>1, <4>2, AbsenceAssumption
    <3>2. CASE ~(id \in ids /\ output[o].effects[id] # None)
      <4>1. e[id] = output[o].effects[id]
        BY <3>2
      <4>2. QED
        BY <1>1, <4>1 DEF Output
    <3>3. QED
      BY <3>1, <3>2
  <2>2. e \in [EffectIds -> Effect \cup {None}]
    BY <2>1
  <2>3. SetPlaying(output[o], ids, playing) = s
    BY DEF SetPlaying
  <2>4. /\ s \in Output /\ s.pc = output[o].pc /\ s.stopping = output[o].stopping
        /\ s.idle = output[o].idle /\ s.effects = e
    <3> HIDE DEF e
    <3>1. QED
      BY <1>1, <2>2 DEF Output
  <2> HIDE DEF s, e
  <2>5. QED
    BY <2>1, <2>3, <2>4
<1>5. CASE \E id \in EffectIds : CreateEffect(o, id)
  <2>1. PICK id \in EffectIds : CreateEffect(o, id)
    BY <1>5
  <2> DEFINE e == [level |-> 0, playing |-> FALSE]
             s == [output[o] EXCEPT !.effects[id] = e]
  <2>2. e \in Effect
    <3>1. 0 \in Levels \cup {0} /\ FALSE \in BOOLEAN
      BY Zenon
    <3>2. QED
      BY <3>1, Zenon DEF Effect
  <2>3. Call(o, s) /\ held' = held /\ o \in held /\ output[o].pc # "none"
    BY <1>3, <2>1 DEF CreateEffect
  <2> HIDE DEF e
  <2>4. /\ s \in Output /\ s.pc = output[o].pc /\ s.stopping = output[o].stopping
        /\ s.idle = output[o].idle
    BY <1>1, <2>2 DEF Output
  <2> HIDE DEF s
  <2>5. QED
    BY <2>3, <2>4, CallKeeps
<1>6. CASE \E id \in EffectIds, level \in Levels : SetParameters(o, id, level)
  <2>1. PICK id \in EffectIds, level \in Levels : SetParameters(o, id, level)
    BY <1>6
  <2> DEFINE e == [output[o].effects[id] EXCEPT !.level = level]
             s == [output[o] EXCEPT !.effects[id] = e]
  <2>2. Call(o, s) /\ held' = held /\ output[o].effects[id] # None /\ output[o].pc # "none"
    BY <1>3, <2>1 DEF SetParameters
  <2>3. e \in Effect /\ e # None
    <3>1. e \in Effect
      BY <1>2, <2>2 DEF Effect
    <3>2. QED
      BY <3>1, AbsenceAssumption
  <2> HIDE DEF e
  <2>4. /\ s \in Output /\ s.pc = output[o].pc /\ s.stopping = output[o].stopping
        /\ s.idle = output[o].idle
        /\ \A i \in EffectIds : s.effects[i] = None <=> output[o].effects[i] = None
    BY <1>1, <2>2, <2>3 DEF Output
  <2> HIDE DEF s
  <2>5. QED
    BY <2>2, <2>4, CallKeeps
<1>7. CASE \E id \in EffectIds, playing \in BOOLEAN : StartOrStop(o, id, playing)
  <2>1. PICK id \in EffectIds, playing \in BOOLEAN : StartOrStop(o, id, playing)
    BY <1>7
  <2> DEFINE s == SetPlaying(output[o], {id}, playing)
  <2>2. Call(o, s) /\ held' = held /\ output[o].pc # "none"
    BY <1>3, <2>1 DEF StartOrStop
  <2>3. /\ s \in Output /\ s.pc = output[o].pc /\ s.stopping = output[o].stopping
        /\ s.idle = output[o].idle
        /\ \A i \in EffectIds : s.effects[i] = None <=> output[o].effects[i] = None
    BY <1>4
  <2> HIDE DEF s
  <2>4. QED
    BY <2>2, <2>3, CallKeeps
<1>8. CASE \E gain \in Gains : SetDeviceGain(o, gain)
  <2>1. PICK gain \in Gains : SetDeviceGain(o, gain)
    BY <1>8
  <2> DEFINE g == IF gain > DIMax THEN DIMax ELSE gain
             s == [output[o] EXCEPT !.gain = g]
  <2>2. g \in 0 .. DIMax
    BY ProxyAssumption
  <2>3. Call(o, s) /\ held' = held /\ output[o].pc # "none"
    BY <1>3, <2>1 DEF SetDeviceGain
  <2> HIDE DEF g
  <2>4. /\ s \in Output /\ s.pc = output[o].pc /\ s.stopping = output[o].stopping
        /\ s.idle = output[o].idle /\ s.effects = output[o].effects
    BY <1>1, <2>2 DEF Output
  <2> HIDE DEF s
  <2>5. QED
    BY <2>3, <2>4, CallKeeps
<1>9. CASE \E name \in Commands : SendCommand(o, name)
  <2>1. PICK name \in Commands : SendCommand(o, name)
    BY <1>9
  <2> DEFINE s == Command(output[o], name)
  <2>2. Call(o, s) /\ held' = held /\ output[o].pc # "none"
    BY <1>3, <2>1 DEF SendCommand
  <2>3. /\ s \in Output /\ s.pc = output[o].pc /\ s.stopping = output[o].stopping
        /\ s.idle = output[o].idle
        /\ \A i \in EffectIds : s.effects[i] = None <=> output[o].effects[i] = None
    <3>1. CASE name \in {"stopall", "reset"}
      <4>1. s = SetPlaying(output[o], EffectIds, FALSE)
        BY <3>1 DEF Command
      <4>2. FALSE \in BOOLEAN
        BY Zenon
      <4> HIDE DEF s
      <4>3. QED
        BY <1>4, <4>1, <4>2
    <3>2. CASE name \in {"pause", "continue"}
      <4> DEFINE b == (name = "pause")
      <4>1. s = [output[o] EXCEPT !.paused = b]
        BY <3>2 DEF Command
      <4>2. b \in BOOLEAN
        OBVIOUS
      <4> HIDE DEF s, b
      <4>3. QED
        BY <1>1, <4>1, <4>2 DEF Output
    <3>3. CASE name \in {"actuators_on", "actuators_off"}
      <4> DEFINE b == (name = "actuators_on")
      <4>1. s = [output[o] EXCEPT !.actuators = b]
        BY <3>3 DEF Command
      <4>2. b \in BOOLEAN
        OBVIOUS
      <4> HIDE DEF s, b
      <4>3. QED
        BY <1>1, <4>1, <4>2 DEF Output
    <3>4. CASE name \notin {"stopall", "reset", "pause", "continue", "actuators_on", "actuators_off"}
      <4>1. s = output[o]
        BY <3>4 DEF Command
      <4> HIDE DEF s
      <4>2. QED
        BY <1>1, <4>1
    <3>5. QED
      BY <3>1, <3>2, <3>3, <3>4
  <2> HIDE DEF s
  <2>4. QED
    BY <2>2, <2>3, CallKeeps
<1>10. QED
  BY <1>5, <1>6, <1>7, <1>8, <1>9

\* An output that loses a reference.
LEMMA CloseDeviceKeeps ==
    ASSUME IInv, NEW o \in Outputs, CloseDevice(o)
    PROVE  IInv'
<1>1. o \in held /\ held' = held \ {o} /\ output' = output /\ faults' = faults
      /\ UNCHANGED receiverVars /\ Forget
  BY DEF CloseDevice
<1>2. \A p \in Outputs : Referred(p)' => Referred(p)
  BY <1>1 DEF Referred
<1>3. Alive' \subseteq Alive
  BY <1>1, <1>2 DEF Alive
<1>4. GameInv'
  <2>1. GoneMeansGone' /\ OnlyUnusedStop' /\ OnlyStoppedEnd' /\ OneInUse'
    BY <1>1, <1>2, <1>3 DEF IInv, GameInv, GoneMeansGone, OnlyUnusedStop, OnlyStoppedEnd, OneInUse
  <2>2. QED
    BY <1>1, <2>1 DEF IInv, GameInv
<1>5. faults' \in 0 .. MaxFaults /\ faults' >= faults
  BY <1>1, Patience DEF IInv, SignalTypes
<1>6. QED
  BY <1>1, <1>3, <1>4, <1>5, ForgetStep

\* One more: an effect that is released.
LEMMA ReleaseEffectKeeps ==
    ASSUME IInv, NEW o \in Outputs, NEW id \in EffectIds, ReleaseEffect(o, id)
    PROVE  IInv'
<1> DEFINE r == [output[o] EXCEPT !.effects[id] = None]
           s == Notify(r)
<1>1. output[o].effects[id] # None /\ output' = [output EXCEPT ![o] = s] /\ held' = held /\ faults' = faults
      /\ UNCHANGED receiverVars /\ Forget
  BY DEF ReleaseEffect
<1>2. output[o] \in Output /\ output[o].pc # "none"
  BY <1>1, ReferredIsThere DEF IInv, GameInv, Referred
<1>3. /\ r \in Output /\ r.pc = output[o].pc /\ r.stopping = output[o].stopping /\ r.idle = output[o].idle
      /\ \A i \in EffectIds : r.effects[i] # None => output[o].effects[i] # None
  BY <1>2 DEF Output
<1> HIDE DEF r
<1>4. /\ s \in Output /\ s.pc # "none" /\ (s.pc = "ended" => output[o].pc = "ended")
      /\ s.stopping = output[o].stopping /\ s.idle = output[o].idle
      /\ \A i \in EffectIds : s.effects[i] # None => output[o].effects[i] # None
  BY <1>2, <1>3, NotifyKeeps
<1> HIDE DEF s
<1>5. output' \in [Outputs -> Output] /\ output'[o] = s /\ \A p \in Outputs : p # o => output'[p] = output[p]
  BY <1>1, <1>4 DEF IInv, GameInv
<1>6. \A p \in Outputs : Referred(p)' => Referred(p)
  <2>1. Referred(o)' => Referred(o)
    BY <1>1, <1>4, <1>5 DEF Referred
  <2>2. \A p \in Outputs : p # o => (Referred(p)' => Referred(p))
    BY <1>1, <1>5 DEF Referred
  <2>3. QED
    BY <2>1, <2>2
<1>7. Alive' \subseteq Alive
  BY <1>2, <1>5, <1>6 DEF Alive
<1>8. GoneMeansGone' /\ OnlyUnusedStop' /\ OnlyStoppedEnd' /\ OneInUse'
  BY <1>1, <1>4, <1>5, <1>6, <1>7
  DEF IInv, GameInv, GoneMeansGone, OnlyUnusedStop, OnlyStoppedEnd, OneInUse
<1>9. GameInv'
  BY <1>1, <1>5, <1>8 DEF IInv, GameInv
<1>10. faults' \in 0 .. MaxFaults /\ faults' >= faults
  BY <1>1, Patience DEF IInv, SignalTypes
<1>11. \A p \in Alive' : output'[p].idle = output[p].idle
  BY <1>4, <1>5 DEF Alive
<1>12. QED
  BY <1>1, <1>7, <1>9, <1>10, <1>11, ForgetStep

\* The game dies: no output is in use.
LEMMA DieKeeps == IInv /\ Die => IInv'
<1> SUFFICES ASSUME IInv, Die PROVE IInv'
  OBVIOUS
<1>1. /\ faults < MaxFaults /\ faults' = faults + 1 /\ output' = [p \in Outputs |-> Gone] /\ held' = {}
      /\ UNCHANGED receiverVars /\ Forget
  BY DEF Die
<1>2. \A p \in Outputs : output'[p] = Gone /\ output'[p].pc = "none" /\ output'[p].stopping = FALSE
  BY <1>1 DEF Gone
<1>3. Alive' = {}
  BY <1>2 DEF Alive
<1>4. output' \in [Outputs -> Output] /\ held' \subseteq Outputs
  BY <1>1, GoneIsOutput
<1>5. GoneMeansGone' /\ OnlyUnusedStop' /\ OnlyStoppedEnd' /\ OneInUse'
  BY <1>1, <1>2, <1>3 DEF GoneMeansGone, OnlyUnusedStop, OnlyStoppedEnd, OneInUse
<1>6. GameInv'
  BY <1>4, <1>5 DEF GameInv
<1>7. faults' \in 0 .. MaxFaults /\ faults' >= faults
  BY <1>1, Patience DEF IInv, SignalTypes
<1>8. QED
  BY <1>1, <1>3, <1>6, <1>7, ForgetStep

\* An output begins to be destroyed when nobody refers to it.
LEMMA BeginDestroyKeeps ==
    ASSUME IInv, NEW o \in Outputs, BeginDestroy(o)
    PROVE  IInv'
<1> DEFINE r == [output[o] EXCEPT !.stopping = TRUE]
           s == Notify(r)
<1>1. /\ output[o].pc # "none" /\ ~Referred(o) /\ output' = [output EXCEPT ![o] = s] /\ held' = held
      /\ UNCHANGED <<inbox, speaker, faults, receiverVars>>
  BY DEF BeginDestroy
<1>2. output[o] \in Output
  BY DEF IInv, GameInv
<1>3. r \in Output /\ r.pc = output[o].pc /\ r.effects = output[o].effects /\ r.stopping
  BY <1>2 DEF Output
<1> HIDE DEF r
<1>4. s \in Output /\ s.pc # "none" /\ s.effects = output[o].effects /\ s.stopping
  BY <1>1, <1>3, NotifyKeeps
<1> HIDE DEF s
<1>5. GameInv' /\ Alive' = Alive
  BY <1>1, <1>4, OneOutput DEF IInv
<1>6. \A p \in Alive : output'[p].idle = output[p].idle
  BY <1>1 DEF Alive
<1>7. QED
  BY <1>1, <1>5, <1>6, GameStep

\* A worker takes the mix, or leaves its loop.
LEMMA TakeKeeps ==
    ASSUME IInv, NEW o \in Outputs, Take(o)
    PROVE  IInv'
<1> DEFINE m == Mix(output[o])
           p == IF output[o].stopping THEN "ended" ELSE "send"
           s == [output[o] EXCEPT !.pc = p, !.sending = m]
<1>1. output[o] \in Output
  BY DEF IInv, GameInv
<1>2. output[o].pc = "take" /\ output' = [output EXCEPT ![o] = s] /\ held' = held
      /\ UNCHANGED <<inbox, speaker, faults, receiverVars>>
  BY DEF Take, IInv, GameInv
<1>3. m \in Forces /\ p \in {"ended", "send"} /\ (p = "ended" => output[o].stopping)
  BY <1>1, MixIsForce
<1> HIDE DEF m, p
<1>4. /\ s \in Output /\ s.pc = p /\ s.stopping = output[o].stopping /\ s.effects = output[o].effects
      /\ s.idle = output[o].idle
  BY <1>1, <1>3 DEF Output
<1> HIDE DEF s
<1>5. GameInv' /\ Alive' = Alive
  BY <1>2, <1>3, <1>4, OneOutput DEF IInv
<1>6. \A q \in Alive : output'[q].idle = output[q].idle
  BY <1>2, <1>4 DEF Alive, IInv, GameInv
<1>7. QED
  BY <1>2, <1>5, <1>6, GameStep

\* A worker has waited long enough.
LEMMA TimeOutKeeps ==
    ASSUME IInv, NEW o \in Outputs, TimeOut(o)
    PROVE  IInv'
<1> DEFINE s == [output[o] EXCEPT !.pc = "take"]
<1>1. output[o] \in Output
  BY DEF IInv, GameInv
<1>2. output[o].pc = "wait" /\ output' = [output EXCEPT ![o] = s] /\ held' = held
      /\ UNCHANGED <<inbox, speaker, faults, receiverVars>>
  BY DEF TimeOut
<1>3. /\ s \in Output /\ s.pc = "take" /\ s.stopping = output[o].stopping /\ s.effects = output[o].effects
      /\ s.idle = output[o].idle
  BY <1>1 DEF Output
<1> HIDE DEF s
<1>4. GameInv' /\ Alive' = Alive
  BY <1>2, <1>3, OneOutput DEF IInv
<1>5. \A q \in Alive : output'[q].idle = output[q].idle
  BY <1>2, <1>3 DEF Alive, IInv, GameInv
<1>6. QED
  BY <1>2, <1>4, <1>5, GameStep

\* A worker sends what it took.
LEMMA SendForceKeeps ==
    ASSUME IInv, NEW o \in Outputs, SendForce(o)
    PROVE  IInv'
<1> DEFINE s == [output[o] EXCEPT !.pc = "wait", !.sending = 0, !.idle = 0]
<1>1. output[o] \in Output
  BY DEF IInv, GameInv
<1>2. output[o].pc = "send" /\ output' = [output EXCEPT ![o] = s] /\ held' = held
      /\ UNCHANGED <<speaker, receiverVars>> /\ Send(o, output[o].sending)
  BY DEF SendForce, IInv, GameInv
<1>3. ASSUME NEW i \in Forces, NEW j \in 0 .. Heartbeat + Late
      PROVE  LET t == [output[o] EXCEPT !.pc = "wait", !.sending = i, !.idle = j]
             IN  /\ t \in Output /\ t.pc = "wait" /\ t.stopping = output[o].stopping
                 /\ t.effects = output[o].effects /\ t.idle = j
  BY <1>1 DEF Output
<1>4. 0 \in Forces /\ 0 \in 0 .. Heartbeat + Late /\ 0 \in Nat
  BY ProxyAssumption DEF Forces
<1>5. /\ s \in Output /\ s.pc = "wait" /\ s.stopping = output[o].stopping /\ s.effects = output[o].effects
      /\ s.idle = 0
  BY <1>3, <1>4, Zenon
<1> HIDE DEF s
<1>6. GameInv' /\ Alive' = Alive
  BY <1>2, <1>5, OneOutput DEF IInv
<1>7. ASSUME NEW q \in Alive PROVE output'[q].idle \in Nat
  <2>1. CASE q = o
    BY <1>2, <1>4, <1>5, <2>1 DEF IInv, GameInv
  <2>2. CASE q # o
    <3>1. output'[q] = output[q]
      BY <1>2, <2>2 DEF IInv, GameInv, Alive
    <3>2. output[q].idle \in 0 .. Period
      BY AliveWork DEF IInv
    <3>3. QED
      BY <3>1, <3>2, Patience
  <2>3. QED
    BY <2>1, <2>2
<1>8. output[o].sending \in Forces
  BY <1>1 DEF Output
<1>9. QED
  BY <1>2, <1>6, <1>7, <1>8, SendStep

\* An output is gone, and has told the wheel to let go.
LEMMA EndDestroyKeeps ==
    ASSUME IInv, NEW o \in Outputs, EndDestroy(o)
    PROVE  IInv'
<1>1. output[o].pc = "ended" /\ output' = [output EXCEPT ![o] = Gone] /\ held' = held
      /\ UNCHANGED <<speaker, receiverVars>> /\ Send(o, 0)
  BY DEF EndDestroy
<1>2. ~Referred(o)
  BY <1>1 DEF IInv, GameInv, OnlyUnusedStop, OnlyStoppedEnd
<1>3. Gone.pc = "none" /\ Gone.stopping = FALSE /\ \A id \in EffectIds : Gone.effects[id] = None
  BY DEF Gone
<1>4. output' \in [Outputs -> Output] /\ output'[o] = Gone /\ \A p \in Outputs : p # o => output'[p] = output[p]
  BY <1>1, GoneIsOutput DEF IInv, GameInv
<1>5. o \notin held /\ \A p \in Outputs : Referred(p)' <=> Referred(p)
  <2>1. o \notin held /\ ~Referred(o)'
    BY <1>1, <1>2, <1>3, <1>4 DEF Referred
  <2>2. \A p \in Outputs : p # o => (Referred(p)' <=> Referred(p))
    BY <1>1, <1>4 DEF Referred
  <2>3. QED
    BY <1>2, <2>1, <2>2
<1>6. Alive' = Alive
  BY <1>2, <1>4, <1>5 DEF Alive
<1>7. GoneMeansGone' /\ OnlyUnusedStop' /\ OnlyStoppedEnd' /\ OneInUse'
  BY <1>1, <1>3, <1>4, <1>5, <1>6
  DEF IInv, GameInv, GoneMeansGone, OnlyUnusedStop, OnlyStoppedEnd, OneInUse
<1>8. GameInv'
  BY <1>1, <1>4, <1>7 DEF IInv, GameInv
<1>9. ASSUME NEW q \in Alive PROVE output'[q].idle \in Nat
  <2>1. q # o /\ q \in Outputs
    BY <1>2 DEF Alive
  <2>2. output'[q].idle = output[q].idle /\ output[q].idle \in 0 .. Period
    BY <1>4, <2>1, AliveWork DEF IInv
  <2>3. QED
    BY <2>2, Patience
<1>10. 0 \in Forces
  BY ProxyAssumption DEF Forces
<1>11. QED
  BY <1>1, <1>6, <1>8, <1>9, <1>10, SendStep

-----------------------------------------------------------------------------
(* The receiver and the clock. *)

\* The game's half is about the game's variables only.
LEMMA GameUnchanged ==
    ASSUME IInv, UNCHANGED gameVars
    PROVE  /\ GameInv' /\ Alive' = Alive /\ \A o \in Alive : output'[o].idle = output[o].idle
<1>1. output' = output /\ held' = held
  BY DEF gameVars
<1>2. \A o \in Outputs : Referred(o)' <=> Referred(o)
  BY <1>1 DEF Referred
<1>3. Alive' = Alive
  BY <1>1, <1>2 DEF Alive
<1>4. GoneMeansGone' /\ OnlyUnusedStop' /\ OnlyStoppedEnd' /\ OneInUse'
  BY <1>1, <1>2, <1>3
  DEF IInv, GameInv, GoneMeansGone, OnlyUnusedStop, OnlyStoppedEnd, OneInUse
<1>5. QED
  BY <1>1, <1>3, <1>4 DEF IInv, GameInv

\* While a force counts as that of an output in use, the watchdog has time left.
LEMMA TimeLeft ==
    ASSUME IInv, speaker, inbox = None
    PROVE  age <= Watchdog
<1>1. PICK o \in Alive : TRUE
  BY DEF IInv, SpeakersLive
<1>2. age <= faults * Period + output[o].idle
  BY DEF IInv, SpeakersLive
<1>3. output[o].idle \in 0 .. Period
  BY AliveWork DEF IInv
<1>4. faults \in 0 .. MaxFaults /\ age \in 0 .. Watchdog + 1
  BY DEF IInv, SignalTypes
<1>5. faults \in Nat
  BY <1>4, Patience
<1>6. faults * Period \in Nat /\ faults * Period + Period <= Watchdog
  BY <1>4, <1>5, Patience
<1>7. Period \in Nat /\ Watchdog \in Nat
  BY Patience
<1>8. QED
  BY <1>2, <1>3, <1>4, <1>6, <1>7

\* A poll that hears nothing new leaves the force of a game that lives alone.
LEMMA PollSpares ==
    ASSUME IInv, Poll, inbox = None, speaker
    PROVE  wheel' = wheel /\ force' = force
<1>1. age <= Watchdog /\ wheel = force
  BY TimeLeft DEF IInv, SpeakersLive
<1>2. CASE ServicePoll
  <2>1. age' = age
    BY <1>2 DEF ServicePoll, Hear, News
  <2>2. QED
    BY <1>1, <1>2, <2>1 DEF ServicePoll, Heard
<1>3. CASE BridgePoll
  <2>1. age' = age
    BY <1>3 DEF BridgePoll, Hear, News
  <2>2. ~(age' > Watchdog)
    <3>1. age \in 0 .. Watchdog + 1 /\ Watchdog \in Nat
      BY Patience DEF IInv, SignalTypes
    <3>2. QED
      BY <1>1, <2>1, <3>1
  <2>3. Heard = force
    BY DEF Heard
  <2>4. force' = force
    BY <1>3, <2>2, <2>3 DEF BridgePoll
  <2>5. QED
    BY <1>3, <2>3, <2>4 DEF BridgePoll
<1>4. QED
  BY <1>2, <1>3 DEF Poll

\* A poll that hears something asks the wheel for it.
LEMMA PollTells ==
    ASSUME IInv, Poll, inbox # None
    PROVE  wheel' = inbox.force /\ force' = inbox.force /\ age' = 0
<1>1. age' = 0 /\ 0 <= Watchdog
  BY ProxyAssumption DEF Poll, ServicePoll, BridgePoll, Hear, News
<1>2. CASE ServicePoll
  BY <1>1, <1>2 DEF ServicePoll, Heard
<1>3. CASE BridgePoll
  <2>1. ~(age' > Watchdog)
    BY <1>1, ProxyAssumption
  <2>2. force' = inbox.force
    BY <1>3, <2>1 DEF BridgePoll, Heard
  <2>3. QED
    BY <1>1, <1>3, <2>2 DEF BridgePoll, Heard
<1>4. QED
  BY <1>2, <1>3 DEF Poll

\* Whatever a poll asks for is a force.
LEMMA PollTypes ==
    ASSUME IInv, Poll
    PROVE  SignalTypes'
<1>1. /\ receiver.up /\ receiver' = [receiver EXCEPT !.polled = TRUE] /\ inbox' = None
      /\ age' = (IF News THEN 0 ELSE age) /\ faults' = faults
      /\ speaker' = IF inbox # None THEN inbox.alive ELSE speaker
  BY DEF Poll, ServicePoll, BridgePoll, Hear
<1>2. 0 \in Forces /\ 0 \in 0 .. Watchdog + 1
  BY ProxyAssumption DEF Forces
<1>3. Heard \in Forces
  BY DEF IInv, SignalTypes, Heard, Datagram
<1>4. force' \in Forces /\ wheel' \in Forces
  BY <1>2, <1>3 DEF Poll, ServicePoll, BridgePoll, IInv, SignalTypes
<1>5. age' \in 0 .. Watchdog + 1
  BY <1>1, <1>2 DEF IInv, SignalTypes
<1>6. speaker' \in BOOLEAN
  <2>1. inbox # None => inbox.alive \in BOOLEAN
    BY DEF IInv, SignalTypes, Datagram
  <2>2. speaker \in BOOLEAN
    BY DEF IInv, SignalTypes
  <2>3. QED
    BY <1>1, <2>1, <2>2, Zenon
<1>7. receiver' \in [kind : {"service", "bridge"}, up : BOOLEAN, polled : BOOLEAN]
  BY <1>1 DEF IInv, SignalTypes
<1>8. QED
  BY <1>1, <1>4, <1>5, <1>6, <1>7 DEF IInv, SignalTypes

\* A poll keeps the invariant.
LEMMA PollKeeps == IInv /\ Poll => IInv'
<1> SUFFICES ASSUME IInv, Poll PROVE IInv'
  OBVIOUS
<1>1. /\ receiver.up /\ receiver'.up /\ inbox' = None /\ faults' = faults
      /\ speaker' = (IF inbox # None THEN inbox.alive ELSE speaker)
      /\ UNCHANGED gameVars
  <2>1. /\ receiver.up /\ receiver' = [receiver EXCEPT !.polled = TRUE] /\ inbox' = None /\ faults' = faults
        /\ speaker' = (IF inbox # None THEN inbox.alive ELSE speaker)
        /\ UNCHANGED gameVars
    BY DEF Poll, ServicePoll, BridgePoll, Hear
  <2>2. receiver'.up
    BY <2>1 DEF IInv, SignalTypes
  <2>3. QED
    BY <2>1, <2>2
<1>2. GameInv' /\ Alive' = Alive /\ \A o \in Alive : output'[o].idle = output[o].idle
  BY <1>1, GameUnchanged
<1>3. CASE inbox = None
  <2>1. speaker' = speaker /\ (speaker => wheel' = wheel /\ force' = force)
    BY <1>1, <1>3, PollSpares
  <2>2. age' = age
    BY <1>3 DEF Poll, ServicePoll, BridgePoll, Hear, News
  <2>3. SpeakersLive'
    BY <1>1, <1>2, <1>3, <2>1, <2>2 DEF IInv, SpeakersLive
  <2>4. QED
    BY <1>2, <2>3, PollTypes DEF IInv
<1>4. CASE inbox # None
  <2>1. speaker' = inbox.alive /\ (speaker' => Alive # {}) /\ wheel' = force' /\ age' = 0
    BY <1>1, <1>4, PollTells DEF IInv, SpeakersLive
  <2>2. ASSUME NEW o \in Alive' PROVE age' <= faults' * Period + output'[o].idle
    <3>1. output'[o].idle \in Nat
      <4>1. o \in Alive /\ output'[o].idle = output[o].idle
        BY <1>2
      <4>2. output[o].idle \in 0 .. Period
        BY <4>1, AliveWork DEF IInv
      <4>3. QED
        BY <4>1, <4>2, Patience
    <3>2. faults' \in Nat
      BY <1>1, Patience DEF IInv, SignalTypes
    <3>3. faults' * Period \in Nat
      BY <3>2, Patience
    <3>4. QED
      BY <2>1, <3>1, <3>3
  <2>3. SpeakersLive'
    BY <1>1, <1>2, <2>1, <2>2 DEF SpeakersLive
  <2>4. QED
    BY <1>2, <2>3, PollTypes DEF IInv
<1>5. QED
  BY <1>3, <1>4

\* So does a stop of the receiver.
LEMMA StopReceiverKeeps == IInv /\ StopReceiver => IInv'
<1> SUFFICES ASSUME IInv, StopReceiver PROVE IInv'
  OBVIOUS
<1>1. /\ faults < MaxFaults /\ faults' = faults + 1
      /\ receiver' = [receiver EXCEPT !.up = FALSE, !.polled = TRUE]
      /\ inbox' = None /\ speaker' = FALSE /\ wheel' = 0
      /\ UNCHANGED gameVars /\ force' = force /\ age' = age
  BY DEF StopReceiver
<1>2. GameInv'
  BY <1>1, GameUnchanged
<1>3. receiver' \in [kind : {"service", "bridge"}, up : BOOLEAN, polled : BOOLEAN]
  BY <1>1 DEF IInv, SignalTypes
<1>4. faults' \in 0 .. MaxFaults
  BY <1>1, Patience DEF IInv, SignalTypes
<1>5. 0 \in Forces
  BY ProxyAssumption DEF Forces
<1>6. speaker' \in BOOLEAN
  BY <1>1, Zenon
<1>7. SignalTypes'
  BY <1>1, <1>3, <1>4, <1>5, <1>6 DEF IInv, SignalTypes
<1>8. SpeakersLive'
  BY <1>1 DEF SpeakersLive
<1>9. QED
  BY <1>2, <1>7, <1>8 DEF IInv

\* And a start: a receiver that is not there has heard nobody.
LEMMA StartReceiverKeeps == IInv /\ StartReceiver => IInv'
<1> SUFFICES ASSUME IInv, StartReceiver PROVE IInv'
  OBVIOUS
<1>1. /\ ~receiver.up /\ receiver' = [receiver EXCEPT !.up = TRUE]
      /\ force' = 0 /\ wheel' = 0
      /\ age' = (IF receiver.kind = "bridge" THEN 0 ELSE Watchdog + 1)
      /\ UNCHANGED gameVars /\ inbox' = inbox /\ speaker' = speaker /\ faults' = faults
  BY DEF StartReceiver
<1>2. GameInv'
  BY <1>1, GameUnchanged
<1>3. receiver' \in [kind : {"service", "bridge"}, up : BOOLEAN, polled : BOOLEAN]
  BY <1>1 DEF IInv, SignalTypes
<1>4. 0 \in Forces /\ 0 \in 0 .. Watchdog + 1 /\ Watchdog + 1 \in 0 .. Watchdog + 1
  BY ProxyAssumption DEF Forces
<1>5. age' \in 0 .. Watchdog + 1
  BY <1>1, <1>4
<1>6. SignalTypes'
  BY <1>1, <1>3, <1>4, <1>5 DEF IInv, SignalTypes
<1>7. inbox = None /\ ~speaker
  BY <1>1 DEF IInv, SpeakersLive
<1>8. SpeakersLive'
  BY <1>1, <1>7 DEF SpeakersLive
<1>9. QED
  BY <1>2, <1>6, <1>8 DEF IInv

\* A tick lets every worker that works idle one more, and the watchdog wait one more.
LEMMA TickKeeps == IInv /\ Tick => IInv'
<1> SUFFICES ASSUME IInv, Tick PROVE IInv'
  OBVIOUS
<1>1. /\ \A o \in Outputs : Working(o) => output[o].idle < Heartbeat + Late
      /\ output' = [o \in Outputs |-> IF Working(o) THEN [output[o] EXCEPT !.idle = @ + 1]
                                      ELSE output[o]]
      /\ receiver' = [receiver EXCEPT !.polled = ~receiver.up]
      /\ age' = (IF age <= Watchdog THEN age + 1 ELSE age)
      /\ held' = held /\ inbox' = inbox /\ speaker' = speaker /\ faults' = faults
      /\ force' = force /\ wheel' = wheel
  BY DEF Tick
<1>2. ASSUME NEW o \in Outputs
      PROVE  /\ output'[o] \in Output /\ output'[o].pc = output[o].pc
             /\ output'[o].stopping = output[o].stopping /\ output'[o].effects = output[o].effects
             /\ output[o].pc = "none" => output'[o] = output[o]
             /\ Working(o) => output'[o].idle = output[o].idle + 1
  <2>1. output[o] \in Output
    BY DEF IInv, GameInv
  <2>2. CASE Working(o)
    <3>1. output'[o] = [output[o] EXCEPT !.idle = output[o].idle + 1]
      BY <1>1, <2>2
    <3>2. output[o].idle + 1 \in 0 .. Heartbeat + Late
      BY <1>1, <2>1, <2>2, ProxyAssumption DEF Output
    <3>3. output[o].pc # "none"
      BY <2>2 DEF Working
    <3>4. QED
      BY <2>1, <3>1, <3>2, <3>3 DEF Output
  <2>3. CASE ~Working(o)
    BY <1>1, <2>1, <2>3
  <2>4. QED
    BY <2>2, <2>3
<1>3. \A o \in Outputs : Referred(o)' <=> Referred(o)
  BY <1>1, <1>2 DEF Referred
<1>4. Alive' = Alive
  BY <1>2, <1>3 DEF Alive
<1>5. output' \in [Outputs -> Output]
  BY <1>1, <1>2
<1>6. GoneMeansGone' /\ OnlyUnusedStop' /\ OnlyStoppedEnd' /\ OneInUse'
  BY <1>1, <1>2, <1>3, <1>4
  DEF IInv, GameInv, GoneMeansGone, OnlyUnusedStop, OnlyStoppedEnd, OneInUse
<1>7. GameInv'
  BY <1>1, <1>5, <1>6 DEF IInv, GameInv
<1>8. receiver' \in [kind : {"service", "bridge"}, up : BOOLEAN, polled : BOOLEAN] /\ receiver'.up = receiver.up
  BY <1>1 DEF IInv, SignalTypes
<1>9. age \in 0 .. Watchdog + 1 /\ Watchdog \in Nat
  BY Patience DEF IInv, SignalTypes
<1>10. age' \in 0 .. Watchdog + 1 /\ age' <= age + 1
  BY <1>1, <1>9
<1>11. SignalTypes'
  BY <1>1, <1>8, <1>10 DEF IInv, SignalTypes
<1>12. ASSUME speaker, inbox = None, NEW o \in Alive
       PROVE  age' <= faults * Period + output'[o].idle
  <2>1. age <= faults * Period + output[o].idle
    BY <1>12 DEF IInv, SpeakersLive
  <2>2. output[o].idle \in 0 .. Period /\ output'[o].idle = output[o].idle + 1
    BY <1>2, AliveWork DEF IInv
  <2>3. faults \in Nat
    BY Patience DEF IInv, SignalTypes
  <2>4. faults * Period \in Nat
    BY <2>3, Patience
  <2>5. QED
    BY <1>9, <1>10, <2>1, <2>2, <2>4
<1>13. SpeakersLive'
  BY <1>1, <1>4, <1>8, <1>12 DEF IInv, SpeakersLive
<1>14. QED
  BY <1>7, <1>11, <1>13 DEF IInv

-----------------------------------------------------------------------------
(* The theorems. *)

\* Nothing is there at first.
LEMMA InitKeeps == Init => IInv
<1> SUFFICES ASSUME Init PROVE IInv
  OBVIOUS
<1>1. /\ output = [o \in Outputs |-> Gone] /\ held = {} /\ faults = 0 /\ inbox = None /\ speaker = FALSE
      /\ receiver \in [kind : {"service", "bridge"}, up : {TRUE}, polled : {TRUE}]
      /\ force = 0 /\ age = Watchdog + 1 /\ wheel = 0
  BY DEF Init
<1>2. \A o \in Outputs : output[o] = Gone /\ output[o].pc = "none" /\ output[o].stopping = FALSE
  BY <1>1 DEF Gone
<1>3. output \in [Outputs -> Output]
  BY <1>1, GoneIsOutput
<1>4. Alive = {}
  BY <1>2 DEF Alive
<1>5. GameInv
  BY <1>1, <1>2, <1>3, <1>4 DEF GameInv, GoneMeansGone, OnlyUnusedStop, OnlyStoppedEnd, OneInUse
<1>6. 0 \in Forces /\ Watchdog + 1 \in 0 .. Watchdog + 1 /\ 0 \in 0 .. MaxFaults
  BY ProxyAssumption DEF Forces
<1>7. speaker \in BOOLEAN
  BY <1>1, Zenon
<1>8. receiver \in [kind : {"service", "bridge"}, up : BOOLEAN, polled : BOOLEAN]
  BY <1>1
<1>9. SignalTypes
  BY <1>1, <1>6, <1>7, <1>8 DEF SignalTypes
<1>10. SpeakersLive
  BY <1>1 DEF SpeakersLive
<1>11. QED
  BY <1>5, <1>9, <1>10 DEF IInv

\* Every step keeps it.
LEMMA NextKeeps == IInv /\ [Next]_vars => IInv'
<1> SUFFICES ASSUME IInv, [Next]_vars PROVE IInv'
  OBVIOUS
<1>1. CASE OpenDevice \/ Die
  BY <1>1, OpenDeviceKeeps, DieKeeps
<1>2. CASE \E o \in Outputs :
             \/ CloseDevice(o)
             \/ \E id \in EffectIds : ReleaseEffect(o, id)
             \/ Worker(o) \/ Destroy(o)
  BY <1>2, CloseDeviceKeeps, ReleaseEffectKeeps, TakeKeeps, SendForceKeeps, TimeOutKeeps,
     BeginDestroyKeeps, EndDestroyKeeps DEF Worker, Destroy
<1>3. CASE \E o \in Outputs :
             \/ \E id \in EffectIds :
                   \/ CreateEffect(o, id)
                   \/ \E level \in Levels : SetParameters(o, id, level)
                   \/ \E playing \in BOOLEAN : StartOrStop(o, id, playing)
             \/ \E gain \in Gains : SetDeviceGain(o, gain)
             \/ \E name \in Commands : SendCommand(o, name)
  BY <1>3, MethodsKeep
<1>4. CASE Poll \/ StopReceiver \/ StartReceiver \/ Tick
  BY <1>4, PollKeeps, StopReceiverKeeps, StartReceiverKeeps, TickKeeps
<1>5. CASE UNCHANGED vars
  <2>1. UNCHANGED gameVars /\ UNCHANGED <<inbox, speaker, faults, receiverVars>>
    BY <1>5 DEF vars
  <2>2. QED
    BY <2>1, GameUnchanged, GameStep
<1>6. QED
  BY <1>1, <1>2, <1>3, <1>4, <1>5 DEF Next

\* The invariant, of every behaviour.
THEOREM Invariance == Spec => []IInv
BY InitKeeps, NextKeeps, PTL DEF Spec

\* The outputs, the datagrams and the receiver keep their types, and whatever devices are
\* opened and closed, effects released and outputs destroyed, one output at most is in use.
THEOREM OneOutputAtMost == Spec => []TypeOK
BY Invariance, InvariantTypes, PTL

\* The watchdog of the service or the bridge never takes the force of a game that lives:
\* the time it waits is enough for every datagram that may be lost.
THEOREM TheLivingAreSpared == Spec => WatchdogSparesTheLiving
<1>1. IInv /\ [Next]_vars => [Poll /\ inbox = None /\ speaker => wheel' = wheel]_vars
  BY PollSpares
<1>2. QED
  BY <1>1, Invariance, PTL DEF Spec, WatchdogSparesTheLiving
=============================================================================
