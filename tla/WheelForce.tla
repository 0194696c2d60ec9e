------------------------------ MODULE WheelForce ------------------------------
(***************************************************************************)
(* What one playing effect pulls, and the wheel it pulls at                *)
(* (src/src/ffb_engine.py): WheelKinematics keeps the position of the      *)
(* wheel and its smoothed derivatives from the reports the main loop       *)
(* reads, and settles them once reports stop; _render_effect turns the     *)
(* position in the effect's cycle and these derivatives into a force.      *)
(* WHEN effects play is the business of EffectEngine: here one effect      *)
(* plays over and over.                                                    *)
(*                                                                         *)
(* Abstractions.  Time is counted in ticks.  Speeds and accelerations are  *)
(* integers, thousandths of the wheel's half travel per second (squared),  *)
(* and every product is rounded where the code keeps a float: derivatives  *)
(* towards zero, forces down.  The sine is a table of twelfths.            *)
(***************************************************************************)
EXTENDS Integers, Sequences

CONSTANTS
    Messages,       \* "effect" messages a game can send
    DIMax,          \* DI_MAX
    Infinite,       \* INFINITE
    Steps,          \* positions the wheel can take on either side of the centre
    TicksPerSecond,
    StaleAfter,     \* ticks without a report after which a movement is stale
    MaxGap,         \* bound: a longer gap between two reports counts as this one
    MaxReports,     \* bound: reports of the wheel in a behaviour
    Horizon         \* bound: ticks an endless effect is followed

ASSUME ScaleAssumption ==
    /\ {DIMax, Steps, TicksPerSecond, MaxGap, Horizon} \subseteq Nat \ {0}
    /\ {StaleAfter, MaxReports} \subseteq Nat
    /\ Infinite \notin Int

Kinds == {"constant", "ramp", "square", "sine", "triangle", "sawUp", "sawDown",
          "spring", "damper", "inertia", "friction", "custom"}

\* What int() makes of the fields of a message; an effect of duration zero never plays.
Message ==
    [kind : Kinds, duration : (Nat \ {0}) \cup {Infinite}, gain : Int, direction : Int,
     attackLevel : Int, attackTime : Int, fadeLevel : Int, fadeTime : Int,
     hasEnvelope : BOOLEAN, magnitude : Int, rampStart : Int, rampEnd : Int,
     offset : Int, phase : Int, period : Int, conditionOffset : Int,
     positiveCoefficient : Int, negativeCoefficient : Int,
     positiveSaturation : Int, negativeSaturation : Int, deadband : Int,
     samplePeriod : Int, samples : Seq(Int)]

ASSUME MessageAssumption == Messages \subseteq Message

VARIABLES
    effect,         \* the effect that plays
    inCycle,        \* its position in its cycle
    wheel,          \* where the wheel is
    pending,        \* a report of the wheel waits to be read
    reports,        \* reports sent
    kin             \* WheelKinematics; `since` is the age of _last_time

vars == <<effect, inCycle, wheel, pending, reports, kin>>

Abs(x) == IF x < 0 THEN -x ELSE x
Clamp(x, low, high) == IF x < low THEN low ELSE IF x > high THEN high ELSE x
TowardsZero(a, b) == IF a < 0 THEN -((-a) \div b) ELSE a \div b

-----------------------------------------------------------------------------
(* WheelKinematics. *)

NoReport == [position |-> 0, velocity |-> 0, acceleration |-> 0,
             known |-> FALSE, lastPosition |-> 0, lastVelocity |-> 0, since |-> 0]

\* Thousandths of the half travel per second of a wheel that moves one position a tick.
StepSpeed == (1000 * TicksPerSecond) \div Steps

\* Mutant: the weights of the old speed and of the new one are exchanged.
UpdateRawEager(k, position) ==
    IF ~k.known
    THEN [k EXCEPT !.position = position, !.known = TRUE, !.lastPosition = position, !.since = 0]
    ELSE IF k.since = 0
    THEN [k EXCEPT !.position = position]
    ELSE LET raw == TowardsZero((position - k.lastPosition) * StepSpeed, k.since)
             velocity == TowardsZero(35 * k.lastVelocity + 65 * raw, 100)
             rawAccel == TowardsZero((velocity - k.lastVelocity) * TicksPerSecond, k.since)
         IN [k EXCEPT !.position = position, !.lastPosition = position, !.since = 0,
                      !.velocity = velocity, !.lastVelocity = velocity,
                      !.acceleration = TowardsZero(75 * k.acceleration + 25 * rawAccel, 100)]

UpdateRaw(k, position) ==
    IF ~k.known
    THEN [k EXCEPT !.position = position, !.known = TRUE, !.lastPosition = position, !.since = 0]
    ELSE IF k.since = 0
    THEN [k EXCEPT !.position = position]
    ELSE LET raw == TowardsZero((position - k.lastPosition) * StepSpeed, k.since)
             velocity == TowardsZero(65 * k.lastVelocity + 35 * raw, 100)
             rawAccel == TowardsZero((velocity - k.lastVelocity) * TicksPerSecond, k.since)
         IN [k EXCEPT !.position = position, !.lastPosition = position, !.since = 0,
                      !.velocity = velocity, !.lastVelocity = velocity,
                      !.acceleration = TowardsZero(75 * k.acceleration + 25 * rawAccel, 100)]

Quiet(x, least) == IF Abs(x) < least THEN 0 ELSE x

\* Mutant: the first pass that finds the movement stale settles it, the others do not.
SettleOnce(k) ==
    IF ~k.known \/ k.since # StaleAfter + 1 THEN k
    ELSE [k EXCEPT !.velocity = Quiet(TowardsZero(6 * @, 10), 1),
                   !.acceleration = Quiet(TowardsZero(4 * @, 10), 10)]

SettleIfStale(k) ==
    IF ~k.known \/ k.since <= StaleAfter THEN k
    ELSE [k EXCEPT !.velocity = Quiet(TowardsZero(6 * @, 10), 1),
                   !.acceleration = Quiet(TowardsZero(4 * @, 10), 10)]

-----------------------------------------------------------------------------
(* The definition of an effect. *)

Signed(x) == Clamp(x, -DIMax, DIMax)
Unsigned(x) == Clamp(x, 0, DIMax)
AtLeast(x, low) == IF x < low THEN low ELSE x

\* Effect.from_message; what it does with the timing fields is in EngineOps.
FromMessage(m) ==
    [m EXCEPT
        !.gain = Unsigned(@), !.direction = IF @ < 0 THEN -1 ELSE 1,
        !.attackLevel = Unsigned(@), !.attackTime = AtLeast(@, 0),
        !.fadeLevel = Unsigned(@), !.fadeTime = AtLeast(@, 0),
        !.magnitude = Signed(@), !.rampStart = Signed(@), !.rampEnd = Signed(@),
        !.offset = Signed(@), !.phase = @ % 36000, !.period = AtLeast(@, 1),
        !.conditionOffset = Signed(@), !.deadband = Clamp(@, 0, 2 * DIMax),
        !.positiveCoefficient = Signed(@), !.negativeCoefficient = Signed(@),
        !.positiveSaturation = Unsigned(@), !.negativeSaturation = Unsigned(@),
        !.samplePeriod = AtLeast(@, 1), !.samples = [i \in DOMAIN @ |-> Signed(@[i])]]

Conditions == {"spring", "damper", "inertia", "friction"}
Waves == {"square", "sine", "triangle", "sawUp", "sawDown"}

-----------------------------------------------------------------------------
(* _render_effect. *)

Towards(from, to, part, whole) == from + ((to - from) * part) \div whole

\* Mutant: the fade is the attack of the fade level.
EnvelopeFadesBackwards(e, level, t) ==
    IF ~e.hasEnvelope \/ level = 0 THEN level
    ELSE LET attacked == IF t < e.attackTime
                         THEN Towards(e.attackLevel, Abs(level), t, e.attackTime)
                         ELSE Abs(level)
             fading == IF e.duration = Infinite THEN 0 ELSE t + e.fadeTime - e.duration
             faded == IF e.fadeTime > 0 /\ fading > 0
                      THEN Towards(e.fadeLevel, attacked, fading, e.fadeTime)
                      ELSE attacked
         IN IF level < 0 THEN -faded ELSE faded

Envelope(e, level, t) ==
    IF ~e.hasEnvelope \/ level = 0 THEN level
    ELSE LET attacked == IF t < e.attackTime
                         THEN Towards(e.attackLevel, Abs(level), t, e.attackTime)
                         ELSE Abs(level)
             fading == IF e.duration = Infinite THEN 0 ELSE t + e.fadeTime - e.duration
             faded == IF e.fadeTime > 0 /\ fading > 0
                      THEN Towards(attacked, e.fadeLevel, fading, e.fadeTime)
                      ELSE attacked
         IN IF level < 0 THEN -faded ELSE faded

\* In thousandths; a cycle has 36000 parts.
SineTable == <<0, 500, 866, 1000, 866, 500, 0, -500, -866, -1000, -866, -500>>

Wave(e, t) ==
    LET phase == ((36000 * t) \div e.period + e.phase) % 36000
    IN CASE e.kind = "sine" -> SineTable[(phase \div 3000) + 1]
         [] e.kind = "square" -> IF phase < 18000 THEN 1000 ELSE -1000
         [] e.kind = "triangle" -> 1000 - Abs(phase - 18000) \div 9
         [] e.kind = "sawUp" -> phase \div 18 - 1000
         [] e.kind = "sawDown" -> 1000 - phase \div 18

\* What a condition goes by.  The speed at which a damper is at full scale is 2 half
\* travels a second, the acceleration that of an inertia 12.5 a second squared.
Metric(kind, k) ==
    CASE kind = "spring" -> (k.position * DIMax) \div Steps
      [] kind = "damper" -> Signed((k.velocity * (DIMax \div 1000)) \div 2)
      [] kind = "inertia" -> Signed((k.acceleration * 2 * (DIMax \div 1000)) \div 25)
      [] kind = "friction" -> IF Abs(k.velocity) < 2 THEN 0
                              ELSE IF k.velocity > 0 THEN DIMax ELSE -DIMax

\* Mutant: what lies outside the deadband counts from the centre.
ConditionFromCentre(e, k) ==
    LET displaced == Metric(e.kind, k) - e.conditionOffset
        half == e.deadband \div 2
    IN IF (e.kind = "friction" /\ Abs(k.velocity) < 2) \/ Abs(displaced) <= half THEN 0
       ELSE IF displaced > 0
       THEN Clamp((e.positiveCoefficient * displaced) \div DIMax,
                  -e.positiveSaturation, e.positiveSaturation)
       ELSE Clamp((e.negativeCoefficient * displaced) \div DIMax,
                  -e.negativeSaturation, e.negativeSaturation)

Condition(e, k) ==
    LET displaced == Metric(e.kind, k) - e.conditionOffset
        half == e.deadband \div 2
    IN IF (e.kind = "friction" /\ Abs(k.velocity) < 2) \/ Abs(displaced) <= half THEN 0
       ELSE IF displaced > 0
       THEN Clamp((e.positiveCoefficient * (displaced - half)) \div DIMax,
                  -e.positiveSaturation, e.positiveSaturation)
       ELSE Clamp((e.negativeCoefficient * (displaced + half)) \div DIMax,
                  -e.negativeSaturation, e.negativeSaturation)

\* Before the gain and the direction of the effect.
Level(e, t, k) ==
    CASE e.kind = "constant" -> Envelope(e, e.magnitude, t)
      [] e.kind = "ramp" ->
            Envelope(e, IF e.duration = Infinite THEN e.rampStart
                        ELSE Towards(e.rampStart, e.rampEnd, t, e.duration), t)
      [] e.kind \in Waves -> e.offset + (Wave(e, t) * Envelope(e, e.magnitude, t)) \div 1000
      [] e.kind = "custom" ->
            IF e.samples = <<>> THEN 0
            ELSE Envelope(e, e.samples[((t \div e.samplePeriod) % Len(e.samples)) + 1], t)
      [] e.kind \in Conditions -> Condition(e, k)

RenderEffect(e, t, k) == Signed((Level(e, t, k) * e.gain * e.direction) \div DIMax)

-----------------------------------------------------------------------------
(* The wheel, the main loop and the clock. *)

Init ==
    /\ effect \in {FromMessage(m) : m \in Messages}
    /\ inCycle = 0
    /\ wheel = 0
    /\ pending = FALSE
    /\ reports = 0
    /\ kin = NoReport

\* The wheel is turned to p, or a pedal is pressed: it sends a report.  Bound: only while
\* an effect plays that looks at the wheel.
Report(p) ==
    /\ reports < MaxReports /\ effect.kind \in Conditions
    /\ wheel' = p
    /\ pending' = TRUE
    /\ reports' = reports + 1
    /\ UNCHANGED <<effect, inCycle, kin>>

\* A pass of the main loop: the latest report, if there is one, then the settling with
\* which render begins.
Pass ==
    /\ kin' = SettleIfStale(IF pending THEN UpdateRaw(kin, wheel) ELSE kin)
    /\ pending' = FALSE
    /\ UNCHANGED <<effect, inCycle, wheel, reports>>

Tick ==
    /\ kin' = [kin EXCEPT !.since = IF @ < MaxGap THEN @ + 1 ELSE @]
    /\ inCycle' = IF effect.duration # Infinite THEN (inCycle + 1) % effect.duration
                  ELSE IF inCycle < Horizon THEN inCycle + 1 ELSE inCycle
    /\ UNCHANGED <<effect, wheel, pending, reports>>

Next ==
    \/ \E p \in -Steps .. Steps : Report(p)
    \/ Pass
    \/ Tick

Spec == Init /\ [][Next]_vars

FairSpec == Spec /\ WF_vars(Pass) /\ WF_vars(Tick)

-----------------------------------------------------------------------------
(* Properties. *)

\* The wheel goes from stop to stop in one tick.
MaxSpeed == 2 * Steps * StepSpeed

\* A wheel thrown from stop to stop in a tick, taken back slowly and thrown again: the
\* smoothing lets through a part of 35 / (1 - .65 * .65) of the fastest movement at most,
\* and of the acceleration that it would be, and so do reports, late ones and settling in
\* any other order.
SmoothingAmplifiesNothing ==
    /\ kin.position \in -Steps .. Steps
    /\ 100 * Abs(kin.velocity) <= 61 * MaxSpeed /\ 100 * Abs(kin.lastVelocity) <= 61 * MaxSpeed
    /\ 100 * Abs(kin.acceleration) <= (57 * MaxSpeed + 100) * TicksPerSecond
    /\ kin.since \in 0 .. MaxGap

\* The level an effect with an envelope has once it is neither attacking nor fading.
Sustained(e) ==
    CASE e.kind = "ramp" -> {Abs(e.rampStart), Abs(e.rampEnd)}
      [] e.kind = "custom" -> {Abs(e.samples[i]) : i \in DOMAIN e.samples}
      [] OTHER -> {Abs(e.magnitude)}

Swing(e, t, k) == Abs(Level(e, t, k) - IF e.kind \in Waves THEN e.offset ELSE 0)

\* A force starts at its attack level and ends, but for the last tick of the fade, at its
\* fade level; and never, also where the attack and the fade overlap or the fade is
\* longer than the effect, is it louder than the loudest of its levels.
EnvelopeIsHonoured ==
    effect.kind \notin Conditions /\ effect.hasEnvelope =>
        LET swing == Swing(effect, inCycle, kin)
            levels == Sustained(effect) \cup {effect.attackLevel, effect.fadeLevel}
        IN /\ \E l \in levels : swing <= l + 1
           /\ effect.kind = "constant" /\ effect.magnitude # 0 /\ effect.duration # Infinite =>
                /\ inCycle = 0 /\ effect.attackTime > 0 /\ effect.fadeTime <= effect.duration
                     => swing = effect.attackLevel
                /\ inCycle = effect.duration - 1 /\ effect.fadeTime > 0
                     => \E l \in levels : Abs(swing - effect.fadeLevel) * effect.fadeTime
                                             <= Abs(l - effect.fadeLevel) + effect.fadeTime

Steepest(e) ==
    IF Abs(e.positiveCoefficient) > Abs(e.negativeCoefficient)
    THEN Abs(e.positiveCoefficient) ELSE Abs(e.negativeCoefficient)

\* From one pass to the next the force of a spring, a damper or an inertia changes by no
\* more than its coefficient times the change of what it goes by: at the edge of the
\* deadband, at the saturation and when the movement is settled it does not jump.
ConditionsNeverJump ==
    [][effect.kind \in Conditions \ {"friction"} =>
         Abs(RenderEffect(effect, inCycle, kin') - RenderEffect(effect, inCycle, kin))
            <= (Steepest(effect) * Abs(Metric(effect.kind, kin') - Metric(effect.kind, kin)))
                  \div DIMax + 1]_vars

\* A wheel that is left alone is at rest: after the last report the derivatives decay to
\* exactly zero, so that neither a damper nor friction pulls at a wheel nobody moves.
RestIsQuiet == <>[](kin.velocity = 0 /\ kin.acceleration = 0)
=============================================================================
