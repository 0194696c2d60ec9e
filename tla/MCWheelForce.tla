----------------------------- MODULE MCWheelForce -----------------------------
(* Instances of WheelForce for TLC. *)
EXTENDS WheelForce

\* What a message that gives nothing but its kind asks for.
Plain == [kind |-> "constant", duration |-> Infinite, gain |-> DIMax, direction |-> 1,
          attackLevel |-> 0, attackTime |-> 0, fadeLevel |-> 0, fadeTime |-> 0,
          hasEnvelope |-> FALSE, magnitude |-> 0, rampStart |-> 0, rampEnd |-> 0,
          offset |-> 0, phase |-> 0, period |-> 4,
          conditionOffset |-> 0, positiveCoefficient |-> 0, negativeCoefficient |-> 0,
          positiveSaturation |-> DIMax, negativeSaturation |-> DIMax, deadband |-> 0,
          samplePeriod |-> 1, samples |-> <<>>]

\* A fade that overlaps the attack, and one longer than the effect.
Enveloped(m, fade) ==
    [m EXCEPT !.hasEnvelope = TRUE, !.duration = 4, !.attackLevel = 12000, !.attackTime = 3,
              !.fadeLevel = 1000, !.fadeTime = fade]

MCMessages ==
    LET loud == [Plain EXCEPT !.magnitude = -8000]
        wave(kind) == [loud EXCEPT !.kind = kind, !.offset = 1000, !.phase = -9000]
        condition(kind) == [Plain EXCEPT !.kind = kind, !.duration = 1, !.deadband = 5000,
                              !.conditionOffset = 1000, !.positiveCoefficient = 12000,
                              !.negativeCoefficient = 8000, !.negativeSaturation = 3000,
                              !.direction = -3]
    IN {Enveloped(loud, fade) : fade \in {1, 3, 5}}
       \cup {[Enveloped(loud, 2) EXCEPT !.duration = Infinite, !.attackLevel = 0]}
       \cup {Enveloped([Plain EXCEPT !.kind = "ramp", !.rampStart = -9000, !.rampEnd = 3000], 3)}
       \cup {Enveloped([Plain EXCEPT !.kind = "custom", !.samples = <<20000, -5000>>], 3)}
       \cup {Enveloped(wave(kind), 3) : kind \in Waves}
       \cup {condition(kind) : kind \in Conditions}
=============================================================================
