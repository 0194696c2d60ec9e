--------------------------- MODULE G25ServiceProofs ---------------------------
(***************************************************************************)
(* Proofs about G25Service, for every set of ports and of forces, every    *)
(* length of the deadlines and any number of failures: the type of the     *)
(* state, what the wheel holds, when it is neutral, what the status says,  *)
(* how force comes up, and how far a stop is from the end.                 *)
(***************************************************************************)
EXTENDS G25Service, TLAPS

-----------------------------------------------------------------------------
(* Division. *)

\* What the quotient says of the dividend.
LEMMA DivBounds ==
    ASSUME NEW a \in Int, NEW b \in Nat \ {0}
    PROVE  a \div b \in Int /\ b * (a \div b) <= a /\ a < b * (a \div b) + b
<1> DEFINE q == a \div b
<1>1. q \in Int /\ a = b * q + (a % b) /\ a % b \in 0 .. b - 1
  OBVIOUS
<1>2. b * q \in Int  BY <1>1
<1> HIDE DEF q
<1>3. b * q <= a /\ a < b * q + b  BY <1>1, <1>2
<1>4. QED  BY <1>1, <1>3 DEF q

\* Multiples keep the order of their factors.
LEMMA TimesMonotone ==
    ASSUME NEW m \in Int, NEW n \in Int, m <= n, NEW b \in Nat
    PROVE  b * m \in Int /\ b * n \in Int /\ b * m <= b * n
<1>1. n - m \in Nat  OBVIOUS
<1>2. b * (n - m) >= 0  BY <1>1
<1>3. b * (n - m) = b * n - b * m  OBVIOUS
<1>4. b * m \in Int /\ b * n \in Int  OBVIOUS
<1>5. QED  BY <1>2, <1>3, <1>4

\* The quotient grows with the dividend.
LEMMA DivMonotone ==
    ASSUME NEW a \in Int, NEW c \in Int, a <= c, NEW b \in Nat \ {0}
    PROVE  a \div b <= c \div b
<1> DEFINE p == a \div b
           q == c \div b
<1>1. p \in Int /\ q \in Int /\ b * p <= a /\ c < b * q + b  BY DivBounds
<1> HIDE DEF p, q
<1>2. SUFFICES ASSUME q + 1 <= p PROVE FALSE
  BY <1>1 DEF p, q
<1>3. b * (q + 1) <= b * p  BY <1>1, <1>2, TimesMonotone
<1>4. b * (q + 1) = b * q + b  BY <1>1
<1>5. b * q \in Int /\ b * p \in Int  BY <1>1
<1>6. QED  BY <1>1, <1>3, <1>4, <1>5

-----------------------------------------------------------------------------
(* The wheel byte of a magnitude and the filter. *)

\* The byte is at most half a unit away from the wheel's share of the magnitude.
LEMMA ByteOfBounds ==
    ASSUME NEW m \in Int
    PROVE  /\ ByteOf(m) \in Int
           /\ 2 * DIMax * ByteOf(m) <= 2 * m * HalfRange + DIMax
           /\ 2 * m * HalfRange + DIMax <= 2 * DIMax * ByteOf(m) + 2 * DIMax
<1> DEFINE a == 2 * m * HalfRange + DIMax
           b == 2 * DIMax
           q == a \div b
<1>1. a \in Int /\ b \in Nat \ {0}  BY ForceAssumption
<1>2. ByteOf(m) = IF a = b * q /\ q % 2 = 1 THEN q - 1 ELSE q  BY DEF ByteOf
<1> HIDE DEF a, b
<1>3. q \in Int /\ b * q <= a /\ a < b * q + b  BY <1>1, DivBounds
<1> HIDE DEF q
<1>4. ByteOf(m) \in {q, q - 1} /\ (ByteOf(m) = q - 1 => ByteOf(m) = q \/ a = b * q)
  BY <1>2
<1>5. b * (q - 1) = b * q - b /\ b * q \in Int  BY <1>1, <1>3
<1>6. CASE ByteOf(m) = q
  <2>1. ByteOf(m) \in Int /\ b * ByteOf(m) <= a /\ a <= b * ByteOf(m) + b
    BY <1>1, <1>3, <1>5, <1>6
  <2>2. QED  BY <2>1 DEF a, b
<1>7. CASE ByteOf(m) # q
  <2>1. ByteOf(m) \in Int /\ b * ByteOf(m) <= a /\ a <= b * ByteOf(m) + b
    BY <1>1, <1>3, <1>4, <1>5, <1>7
  <2>2. QED  BY <2>1 DEF a, b
<1>8. QED  BY <1>6, <1>7

\* A magnitude whose share is at most i has a byte of at most i.
LEMMA ByteAtMost ==
    ASSUME NEW m \in Int, NEW i \in Int, m * HalfRange <= DIMax * i
    PROVE  ByteOf(m) <= i
<1> DEFINE y == ByteOf(m)
<1>1. DIMax \in Nat \ {0} /\ HalfRange \in Nat \ {0}  BY ForceAssumption
<1>2. y \in Int /\ 2 * DIMax * y <= 2 * m * HalfRange + DIMax  BY ByteOfBounds
<1> HIDE DEF y
<1>3. i + 1 <= y => DIMax * (i + 1) <= DIMax * y  BY <1>1, <1>2, TimesMonotone
<1>4. /\ DIMax * (i + 1) = DIMax * i + DIMax /\ 2 * DIMax * y = 2 * (DIMax * y)
      /\ 2 * m * HalfRange = 2 * (m * HalfRange)
      /\ DIMax * i \in Int /\ DIMax * y \in Int /\ m * HalfRange \in Int
  BY <1>1, <1>2
<1>5. y <= i  BY <1>1, <1>2, <1>3, <1>4
<1>6. QED  BY <1>5 DEF y

\* And one whose share is at least i has a byte of at least i.
LEMMA ByteAtLeast ==
    ASSUME NEW m \in Int, NEW i \in Int, DIMax * i <= m * HalfRange
    PROVE  i <= ByteOf(m)
<1> DEFINE y == ByteOf(m)
<1>1. DIMax \in Nat \ {0} /\ HalfRange \in Nat \ {0}  BY ForceAssumption
<1>2. y \in Int /\ 2 * m * HalfRange + DIMax <= 2 * DIMax * y + 2 * DIMax  BY ByteOfBounds
<1> HIDE DEF y
<1>3. y + 1 <= i => DIMax * (y + 1) <= DIMax * i  BY <1>1, <1>2, TimesMonotone
<1>4. /\ DIMax * (y + 1) = DIMax * y + DIMax /\ 2 * DIMax * y = 2 * (DIMax * y)
      /\ 2 * m * HalfRange = 2 * (m * HalfRange)
      /\ DIMax * i \in Int /\ DIMax * y \in Int /\ m * HalfRange \in Int
  BY <1>1, <1>2
<1>5. i <= y  BY <1>1, <1>2, <1>3, <1>4
<1>6. QED  BY <1>5 DEF y

\* A larger magnitude never gets a smaller byte.
LEMMA ByteOfMonotone ==
    ASSUME NEW m \in Int, NEW n \in Int, m <= n
    PROVE  ByteOf(m) <= ByteOf(n)
<1> DEFINE a == 2 * m * HalfRange + DIMax
           c == 2 * n * HalfRange + DIMax
           b == 2 * DIMax
           p == a \div b
           q == c \div b
<1>1. HalfRange * m <= HalfRange * n /\ HalfRange * m \in Int /\ HalfRange * n \in Int
  BY TimesMonotone, ForceAssumption
<1>2. 2 * m * HalfRange = 2 * (HalfRange * m) /\ 2 * n * HalfRange = 2 * (HalfRange * n)
  BY ForceAssumption
<1>3. a \in Int /\ c \in Int /\ a <= c /\ b \in Nat \ {0}  BY <1>1, <1>2, ForceAssumption
<1>4. ByteOf(m) = IF a = b * p /\ p % 2 = 1 THEN p - 1 ELSE p  BY DEF ByteOf
<1>5. ByteOf(n) = IF c = b * q /\ q % 2 = 1 THEN q - 1 ELSE q  BY DEF ByteOf
<1> HIDE DEF a, b, c
<1>6. p \in Int /\ q \in Int /\ p <= q /\ b * p <= a  BY <1>3, DivBounds, DivMonotone
<1> HIDE DEF p, q
<1>7. CASE p = q
  BY <1>3, <1>4, <1>5, <1>6, <1>7
<1>8. CASE p # q
  BY <1>4, <1>5, <1>6, <1>8
<1>9. QED  BY <1>7, <1>8

\* Neutral is neutral, and full force is the end of the wheel's range.
LEMMA ByteOfEnds ==
    ByteOf(0) = 0 /\ ByteOf(DIMax) <= HalfRange /\ ByteOf(-DIMax) >= -HalfRange
<1>1. DIMax \in Int /\ HalfRange \in Int /\ -DIMax \in Int /\ -HalfRange \in Int
  BY ForceAssumption
<1>2. 0 * HalfRange = 0 /\ DIMax * 0 = 0 /\ (-DIMax) * HalfRange = DIMax * (-HalfRange)
  BY <1>1
<1>3. ByteOf(0) <= 0 /\ 0 <= ByteOf(0)  BY <1>2, ByteAtMost, ByteAtLeast
<1>4. DIMax * HalfRange <= DIMax * HalfRange /\ DIMax * (-HalfRange) <= (-DIMax) * HalfRange
  BY <1>1, <1>2
<1>5. ByteOf(DIMax) <= HalfRange  BY <1>1, <1>4, ByteAtMost
<1>6. -HalfRange <= ByteOf(-DIMax)  BY <1>1, <1>4, ByteAtLeast
<1>7. ByteOf(0) \in Int /\ ByteOf(-DIMax) \in Int  BY <1>1, ByteOfBounds
<1>8. QED  BY <1>1, <1>3, <1>5, <1>6, <1>7

\* A magnitude has a byte of the wheel.
LEMMA ByteOfType ==
    ASSUME NEW m \in Magnitude
    PROVE  ByteOf(m) \in ForceByte
<1>1. m \in Int /\ -DIMax \in Int /\ DIMax \in Int /\ -DIMax <= m /\ m <= DIMax
  BY ForceAssumption DEF Magnitude
<1>2. ByteOf(-DIMax) <= ByteOf(m) /\ ByteOf(m) <= ByteOf(DIMax)  BY <1>1, ByteOfMonotone
<1>3. /\ ByteOf(m) \in Int /\ ByteOf(DIMax) \in Int /\ ByteOf(-DIMax) \in Int
  BY <1>1, ByteOfBounds
<1>4. QED  BY <1>2, <1>3, ByteOfEnds, ForceAssumption DEF ForceByte

\* A step of the filter does not overshoot.
LEMMA ShareBounds ==
    ASSUME NEW d \in Nat
    PROVE  Share(d) \in 0 .. d
BY DEF Share

\* So it stays between two magnitudes.
LEMMA SmoothType ==
    ASSUME NEW f \in Magnitude, NEW t \in Magnitude
    PROVE  Smooth(f, t) \in Magnitude
<1>1. f \in Int /\ t \in Int /\ f >= -DIMax /\ f <= DIMax /\ t >= -DIMax /\ t <= DIMax
  BY ForceAssumption DEF Magnitude
<1>2. CASE t >= f
  <2>1. Share(t - f) \in 0 .. t - f  BY <1>1, <1>2, ShareBounds
  <2>2. QED  BY <1>1, <1>2, <2>1, ForceAssumption DEF Smooth, Magnitude
<1>3. CASE ~ (t >= f)
  <2>1. Share(f - t) \in 0 .. f - t  BY <1>1, <1>3, ShareBounds
  <2>2. QED  BY <1>1, <1>3, <2>1, ForceAssumption DEF Smooth, Magnitude
<1>4. QED  BY <1>2, <1>3

-----------------------------------------------------------------------------
(* The inductive invariant.  The cache can match the wheel only because a      *)
(* handle is cut off when the wheel goes: a wheel that is plugged in again     *)
(* starts neutral, whatever the cache of the old handle says.                  *)

CutOff == wheel.mode = "absent" => ~handle.attached

ServiceInv == TypeOK /\ CacheMatchesWheel /\ NeutralWhenQuiet /\ StatusTellsTheTruth /\ CutOff

\* The service starts with no handle.
LEMMA InitInv == Init => ServiceInv
<1> SUFFICES ASSUME Init PROVE ServiceInv
  OBVIOUS
<1>1. TypeOK
  <2>1. wheel \in [mode : {"absent", "switching", "legacy", "native"}, path : Paths, force : ForceByte]
    BY ForceAssumption DEF Init, ForceByte
  <2>2. legacy \in [force : Forces, age : 0 .. Watchdog + 1] /\ driver \in Drivers
    BY ForceAssumption, TimeAssumption DEF Init, Drivers
  <2>3. handle \in [open : BOOLEAN, path : Paths \cup {NoPath}, attached : BOOLEAN]
    BY DEF Init, Closed
  <2>4. cache \in ForceByte /\ filtered \in Magnitude
    BY ForceAssumption DEF Init, ForceByte, Magnitude
  <2>5. pollIn \in 0 .. PollEvery /\ retryIn \in 0 .. RetryAfter /\ reenumIn \in 0 .. ReenumTimeout
    BY TimeAssumption DEF Init
  <2>6. faults \in FaultRecord  BY FaultAssumption DEF Init, FaultRecord
  <2>7. QED  BY <2>1, <2>2, <2>3, <2>4, <2>5, <2>6 DEF Init, TypeOK
<1>2. QED
  BY <1>1 DEF Init, ServiceInv, CacheMatchesWheel, NeutralWhenQuiet, StatusTellsTheTruth, CutOff, Closed

\* What a pass wants is a magnitude, and nothing if nothing is active.
LEMMA WantedOK ==
    ASSUME TypeOK
    PROVE  Wanted.force \in Magnitude /\ (~Wanted.active => Wanted.force = 0)
<1>1. driver.force \in Magnitude /\ (~driver.active => driver.force = 0)
  BY ForceAssumption DEF TypeOK, Drivers, Silent, Idle, Active, Magnitude
<1>2. legacy.force \in Magnitude /\ 0 \in Magnitude
  BY ForceAssumption DEF TypeOK, Magnitude
<1>3. QED  BY <1>1, <1>2 DEF Wanted

\* What set_force computes has its type.
LEMMA NextFilteredOK ==
    ASSUME TypeOK
    PROVE  /\ NextFiltered(Wanted.force, ~Wanted.active) \in Magnitude
           /\ ByteOf(NextFiltered(Wanted.force, ~Wanted.active)) \in ForceByte
           /\ ~Wanted.active => ByteOf(NextFiltered(Wanted.force, ~Wanted.active)) = 0
<1>1. filtered \in Magnitude  BY DEF TypeOK
<1>2. NextFiltered(Wanted.force, ~Wanted.active) \in Magnitude
  BY <1>1, WantedOK, SmoothType DEF NextFiltered
<1>3. ~Wanted.active => NextFiltered(Wanted.force, ~Wanted.active) = 0
  BY WantedOK DEF NextFiltered
<1>4. QED  BY <1>2, <1>3, ByteOfType, ByteOfEnds

\* Time keeps its type.
LEMMA ElapseOK ==
    ASSUME TypeOK, Elapse
    PROVE  /\ pollIn' \in 0 .. PollEvery /\ retryIn' \in 0 .. RetryAfter
           /\ reenumIn' \in 0 .. ReenumTimeout
           /\ legacy' \in [force : Forces, age : 0 .. Watchdog + 1]
<1>1. legacy' \in [force : Forces, age : 0 .. Watchdog + 1]
  BY TimeAssumption DEF TypeOK, Elapse
<1>2. QED  BY <1>1, TimeAssumption DEF TypeOK, Elapse, MinusOne

\* A write that fails leaves a wheel that differs in its force at most.
LEMMA FailedWriteOK ==
    ASSUME TypeOK, NEW byte \in ForceByte, FailedWrite(byte)
    PROVE  /\ wheel' \in [mode : {"absent", "switching", "legacy", "native"}, path : Paths, force : ForceByte]
           /\ wheel'.mode = wheel.mode
BY DEF TypeOK, FailedWrite

\* Every step of the loop and of its environment keeps the invariant.
LEMMA NextInv == ServiceInv /\ [Next]_vars => ServiceInv'
<1> SUFFICES ASSUME ServiceInv, [Next]_vars PROVE ServiceInv'
  OBVIOUS
<1> USE DEF ServiceInv
<1>0. /\ 0 \in ForceByte /\ 0 \in Magnitude /\ 0 \in Forces
      /\ Closed \in [open : BOOLEAN, path : Paths \cup {NoPath}, attached : BOOLEAN]
      /\ ~Closed.open /\ ~Closed.attached
      /\ MaxFaults \in Nat /\ Watchdog \in Nat /\ PollEvery \in Nat /\ RetryAfter \in Nat
      /\ ReenumTimeout \in Nat
  BY ForceAssumption, TimeAssumption, FaultAssumption DEF ForceByte, Magnitude, Closed
<1>01. ASSUME NEW kind, Fault(kind) PROVE faults' \in FaultRecord
  BY <1>0, <1>01, FaultAssumption DEF Fault, TypeOK, FaultRecord
\* A step that lets go of the wheel, or leaves it, its handle and the cache alone.
<1>02. ASSUME handle' = Closed PROVE CacheMatchesWheel' /\ NeutralWhenQuiet' /\ CutOff'
  BY <1>0, <1>02 DEF CacheMatchesWheel, NeutralWhenQuiet, CutOff
<1>03. ASSUME UNCHANGED <<handle, cache, filtered>>, wheel'.force = wheel.force,
              wheel'.mode = "absent" => wheel.mode = "absent"
       PROVE  CacheMatchesWheel' /\ CutOff'
  BY <1>03 DEF CacheMatchesWheel, CutOff
<1>04. ASSUME UNCHANGED <<pc, driver, legacy>>, wheel'.force = wheel.force,
              handle'.attached => handle.attached, handle'.open = handle.open
       PROVE  NeutralWhenQuiet'
  BY <1>04 DEF NeutralWhenQuiet, Wanted
<1>1. CASE Leave
  <2>1. TypeOK'  BY <1>1 DEF Leave, TypeOK, output, timers
  <2>2. QED
    BY <2>1, <1>1, <1>03 DEF Leave, output, timers, NeutralWhenQuiet, StatusTellsTheTruth
<1>2. CASE Poll
  <2>1. TypeOK'  BY <1>2, <1>0 DEF Poll, TypeOK, output, timers
  <2>2. QED
    BY <2>1, <1>2, <1>03 DEF Poll, output, timers, NeutralWhenQuiet, StatusTellsTheTruth
<1>3. CASE NoOutput
  <2>1. TypeOK'  BY <1>3 DEF NoOutput, TypeOK, output, timers
  <2>2. QED
    BY <2>1, <1>3, <1>03 DEF NoOutput, output, timers, NeutralWhenQuiet, StatusTellsTheTruth
<1>4. CASE SetForce
  <2>1. filtered' \in Magnitude /\ cache' \in ForceByte /\ (~Wanted.active => cache' = 0)
    BY <1>4, NextFilteredOK DEF SetForce
  <2>2. /\ wheel' \in [mode : {"absent", "switching", "legacy", "native"}, path : Paths, force : ForceByte]
        /\ wheel'.mode = wheel.mode /\ wheel'.force = cache'
    BY <1>4, <2>1 DEF SetForce, TypeOK, CacheMatchesWheel
  <2>3. TypeOK'  BY <1>4, <2>1, <2>2 DEF SetForce, TypeOK, timers
  <2>4. CacheMatchesWheel'  BY <1>4, <2>2 DEF SetForce, CacheMatchesWheel
  <2>5. NeutralWhenQuiet'
    BY <1>4, <2>1, <2>2 DEF SetForce, NeutralWhenQuiet, Wanted
  <2>6. QED  BY <1>4, <2>2, <2>3, <2>4, <2>5 DEF SetForce, StatusTellsTheTruth, CutOff
<1>5. CASE OutputFails
  <2>1. wheel' \in [mode : {"absent", "switching", "legacy", "native"}, path : Paths, force : ForceByte]
    BY <1>5, NextFilteredOK, FailedWriteOK DEF OutputFails, TypeOK
  <2>2. faults' \in FaultRecord  BY <1>5, <1>01 DEF OutputFails, TypeOK
  <2>3. TypeOK'  BY <1>5, <1>0, <2>1, <2>2 DEF OutputFails, CloseSilently, TypeOK
  <2>4. QED  BY <1>5, <1>0, <1>02, <2>3 DEF OutputFails, CloseSilently, StatusTellsTheTruth
<1>6. CASE Crash
  <2>1. faults' \in FaultRecord  BY <1>6, <1>01 DEF Crash
  <2>2. TypeOK'  BY <1>6, <1>0, <2>1 DEF Crash, TypeOK, output
  <2>3. QED
    BY <2>2, <1>6, <1>03 DEF Crash, output, NeutralWhenQuiet, StatusTellsTheTruth
<1>7. CASE NotYet
  <2>1. TypeOK'  BY <1>7 DEF NotYet, TypeOK, output, timers
  <2>2. QED
    BY <2>1, <1>7, <1>03 DEF NotYet, output, timers, NeutralWhenQuiet, StatusTellsTheTruth
<1>8. CASE DetectNothing
  <2>1. faults' \in FaultRecord  BY <1>8, <1>01 DEF DetectNothing, TypeOK
  <2>2. TypeOK'  BY <1>8, <1>0, <2>1 DEF DetectNothing, CloseSilently, TypeOK
  <2>3. QED  BY <1>8, <1>0, <1>02, <2>2 DEF DetectNothing, CloseSilently, StatusTellsTheTruth
<1>9. CASE DetectLegacy
  <2>1. TypeOK'  BY <1>9, <1>0 DEF DetectLegacy, CloseSilently, TypeOK
  <2>2. QED  BY <1>9, <1>0, <1>02, <2>1 DEF DetectLegacy, CloseSilently, StatusTellsTheTruth
<1>10. CASE DetectNative
  <2>1. TypeOK'  BY <1>10, <1>0 DEF DetectNative, TypeOK, output
  <2>2. QED
    BY <2>1, <1>10, <1>03 DEF DetectNative, output, NeutralWhenQuiet, StatusTellsTheTruth
<1>11. CASE Open
  <2>1. /\ wheel' \in [mode : {"absent", "switching", "legacy", "native"}, path : Paths, force : ForceByte]
        /\ wheel'.mode = wheel.mode /\ wheel'.force = 0
    BY <1>11, <1>0 DEF Open, TypeOK
  <2>2. TypeOK'  BY <1>11, <1>0, <2>1 DEF Open, TypeOK, timers
  <2>3. CacheMatchesWheel'  BY <1>11, <2>1, ByteOfEnds DEF Open, CacheMatchesWheel
  <2>4. QED
    BY <1>11, <2>1, <2>2, <2>3 DEF Open, NeutralWhenQuiet, StatusTellsTheTruth, CutOff
<1>12. CASE OpenFails
  <2>1. wheel' \in [mode : {"absent", "switching", "legacy", "native"}, path : Paths, force : ForceByte]
    BY <1>12, <1>0, FailedWriteOK DEF OpenFails, TypeOK
  <2>2. faults' \in FaultRecord  BY <1>12, <1>01 DEF OpenFails, TypeOK
  <2>3. TypeOK'  BY <1>12, <1>0, <2>1, <2>2 DEF OpenFails, CloseSilently, TypeOK
  <2>4. QED  BY <1>12, <1>0, <1>02, <2>3 DEF OpenFails, CloseSilently, StatusTellsTheTruth
<1>13. CASE OpenCrashes
  <2>1. faults' \in FaultRecord  BY <1>13, <1>01 DEF OpenCrashes
  <2>2. TypeOK'  BY <1>13, <1>0, <2>1 DEF OpenCrashes, CloseSilently, TypeOK, timers
  <2>3. QED  BY <1>13, <1>0, <1>02, <2>2 DEF OpenCrashes, CloseSilently, StatusTellsTheTruth
<1>14. CASE SendSwitch
  <2>1. /\ wheel' \in [mode : {"absent", "switching", "legacy", "native"}, path : Paths, force : ForceByte]
        /\ wheel'.force = wheel.force /\ (wheel'.mode = "absent" => wheel.mode = "absent")
    BY <1>14 DEF SendSwitch, TypeOK
  <2>2. TypeOK'  BY <1>14, <1>0, <2>1 DEF SendSwitch, TypeOK, output
  <2>3. QED
    BY <2>1, <2>2, <1>14, <1>03 DEF SendSwitch, output, NeutralWhenQuiet, StatusTellsTheTruth
<1>15. CASE SwitchRefused
  <2>1. faults' \in FaultRecord  BY <1>15, <1>01 DEF SwitchRefused
  <2>2. TypeOK'  BY <1>15, <1>0, <2>1 DEF SwitchRefused, TypeOK, output
  <2>3. QED
    BY <2>2, <1>15, <1>03 DEF SwitchRefused, output, NeutralWhenQuiet, StatusTellsTheTruth
<1>16. CASE Await
  <2>1. TypeOK'  BY <1>16, ElapseOK DEF Await, TypeOK, output
  <2>2. QED
    BY <2>1, <1>16, <1>03 DEF Await, output, NeutralWhenQuiet, StatusTellsTheTruth
<1>17. CASE AwaitFinds
  <2>1. TypeOK'  BY <1>17, <1>0 DEF AwaitFinds, TypeOK, output
  <2>2. QED
    BY <2>1, <1>17, <1>03 DEF AwaitFinds, output, NeutralWhenQuiet, StatusTellsTheTruth
<1>18. CASE AwaitGivesUp
  <2>1. TypeOK'  BY <1>18, <1>0 DEF AwaitGivesUp, TypeOK, output
  <2>2. QED
    BY <2>1, <1>18, <1>03 DEF AwaitGivesUp, output, NeutralWhenQuiet, StatusTellsTheTruth
<1>19. CASE Sleep
  <2>1. TypeOK'  BY <1>19, ElapseOK DEF Sleep, TypeOK, output
  <2>2. QED
    BY <2>1, <1>19, <1>03 DEF Sleep, output, NeutralWhenQuiet, StatusTellsTheTruth
<1>20. CASE Exit
  <2>1. wheel' \in [mode : {"absent", "switching", "legacy", "native"}, path : Paths, force : ForceByte]
    BY <1>20, <1>0, FailedWriteOK DEF Exit, TypeOK
  <2>2. faults' \in FaultRecord  BY <1>20, <1>01 DEF Exit, TypeOK
  <2>3. TypeOK'  BY <1>20, <1>0, <2>1, <2>2 DEF Exit, CloseSilently, TypeOK, timers
  <2>4. QED  BY <1>20, <1>0, <1>02, <2>3 DEF Exit, CloseSilently, StatusTellsTheTruth
<1>21. CASE RequestStop
  <2>1. TypeOK'  BY <1>21 DEF RequestStop, TypeOK, output, timers
  <2>2. QED
    BY <2>1, <1>21, <1>03, <1>04 DEF RequestStop, output, timers, StatusTellsTheTruth
<1>22. CASE Unplug
  <2>1. /\ wheel' \in [mode : {"absent", "switching", "legacy", "native"}, path : Paths, force : ForceByte]
        /\ handle' \in [open : BOOLEAN, path : Paths \cup {NoPath}, attached : BOOLEAN]
        /\ ~handle'.attached /\ handle'.open = handle.open
    BY <1>22, <1>0 DEF Unplug, TypeOK
  <2>2. TypeOK'  BY <1>22, <2>1 DEF Unplug, TypeOK, timers
  <2>3. QED
    BY <1>22, <2>1, <2>2
    DEF Unplug, CacheMatchesWheel, NeutralWhenQuiet, StatusTellsTheTruth, CutOff
<1>23. CASE Plug
  <2>1. /\ wheel' \in [mode : {"absent", "switching", "legacy", "native"}, path : Paths, force : ForceByte]
        /\ wheel'.mode # "absent" /\ ~handle.attached
    BY <1>23, <1>0 DEF Plug, TypeOK, CutOff
  <2>2. TypeOK'  BY <1>23, <2>1 DEF Plug, TypeOK, output, timers
  <2>3. QED
    BY <1>23, <2>1, <2>2
    DEF Plug, output, CacheMatchesWheel, NeutralWhenQuiet, StatusTellsTheTruth, CutOff
<1>24. CASE Reenumerate
  <2>1. /\ wheel' \in [mode : {"absent", "switching", "legacy", "native"}, path : Paths, force : ForceByte]
        /\ wheel'.force = wheel.force /\ wheel'.mode # "absent"
    BY <1>24 DEF Reenumerate, TypeOK
  <2>2. TypeOK'  BY <1>24, <2>1 DEF Reenumerate, TypeOK, output, timers
  <2>3. QED
    BY <1>24, <2>1, <2>2, <1>03, <1>04 DEF Reenumerate, output, StatusTellsTheTruth
<1>25. CASE UNCHANGED vars
  <2>1. TypeOK'  BY <1>25 DEF vars, TypeOK
  <2>2. QED
    BY <1>25, <2>1, <1>03, <1>04 DEF vars, StatusTellsTheTruth
<1>26. QED
  BY <1>1, <1>2, <1>3, <1>4, <1>5, <1>6, <1>7, <1>8, <1>9, <1>10, <1>11, <1>12, <1>13, <1>14,
     <1>15, <1>16, <1>17, <1>18, <1>19, <1>20, <1>21, <1>22, <1>23, <1>24, <1>25
  DEF Next, Loop, Environment, Stopped

\* The inductive invariant holds in every reachable state.
THEOREM ServiceInvariance == Spec => []ServiceInv
BY InitInv, NextInv, PTL DEF Spec

\* The state always has its type (G25Service!TypeOK).
THEOREM TypeCorrect == Spec => []TypeOK
BY ServiceInvariance, PTL DEF ServiceInv

\* The byte that set_force compares with is the one the wheel holds, through every
\* failure, replug, reopening and stop (G25Service!CacheMatchesWheel).
THEOREM CacheIsNeverStale == Spec => []CacheMatchesWheel
BY ServiceInvariance, PTL DEF ServiceInv

\* A pass in which nothing is active leaves a neutral wheel, whatever the filter held
\* (G25Service!NeutralWhenQuiet).
THEOREM QuietPassesNeutralise == Spec => []NeutralWhenQuiet
BY ServiceInvariance, PTL DEF ServiceInv

\* The status is "ready" only with an open wheel, and says nothing less of an open wheel
\* before the service is on its way out (G25Service!StatusTellsTheTruth).
THEOREM StatusIsTrue == Spec => []StatusTellsTheTruth
BY ServiceInvariance, PTL DEF ServiceInv

-----------------------------------------------------------------------------
(* Force comes up gently.                                                      *)

GentleBytes == ByteOf(-Share(DIMax)) - 1 .. ByteOf(Share(DIMax)) + 1

\* Half a byte's worth more is at most one byte more.
LEMMA NextByte ==
    ASSUME NEW m \in Int, NEW n \in Int, 2 * n * HalfRange <= 2 * m * HalfRange + DIMax
    PROVE  ByteOf(n) <= ByteOf(m) + 1
<1> DEFINE y == ByteOf(m)
<1>1. DIMax \in Nat \ {0} /\ HalfRange \in Nat \ {0}  BY ForceAssumption
<1>2. y \in Int /\ 2 * m * HalfRange + DIMax <= 2 * DIMax * y + 2 * DIMax  BY ByteOfBounds
<1> HIDE DEF y
<1>3. /\ DIMax * (y + 1) = DIMax * y + DIMax /\ 2 * DIMax * y = 2 * (DIMax * y)
      /\ 2 * m * HalfRange \in Int /\ 2 * n * HalfRange = 2 * (n * HalfRange)
      /\ n * HalfRange \in Int /\ DIMax * y \in Int
  BY <1>1, <1>2
<1>4. n * HalfRange <= DIMax * (y + 1)  BY <1>1, <1>2, <1>3
<1>5. ByteOf(n) <= y + 1  BY <1>2, <1>4, ByteAtMost
<1>6. QED  BY <1>5 DEF y

\* One step of the filter from a force whose byte is neutral, to whatever target: the
\* force may be anywhere in the range that rounds to neutral, which costs a byte.
LEMMA GentleStep ==
    ASSUME NEW f \in Magnitude, ByteOf(f) = 0, NEW t \in Magnitude
    PROVE  ByteOf(Smooth(f, t)) \in GentleBytes
<1> DEFINE v == Smooth(f, t)
           share == Share(DIMax)
           above == IF f >= 0 THEN f ELSE 0
           below == IF f >= 0 THEN 0 ELSE f
<1>1. /\ f \in Int /\ t \in Int /\ f >= -DIMax /\ f <= DIMax /\ t >= -DIMax /\ t <= DIMax
      /\ DIMax \in Nat \ {0} /\ HalfRange \in Nat \ {0}
  BY ForceAssumption DEF Magnitude
<1>2. share \in Int /\ share >= 0 /\ above \in Int /\ below \in Int
  BY <1>1, ShareBounds
<1>3. v \in Int /\ v <= share + above /\ v >= -share + below
  BY <1>1 DEF Smooth, Share
<1>4. -DIMax <= 2 * f * HalfRange /\ 2 * f * HalfRange <= DIMax /\ 2 * f * HalfRange \in Int
  BY <1>1, ByteOfBounds
<1>5. 2 * above * HalfRange <= DIMax /\ -DIMax <= 2 * below * HalfRange
  BY <1>1, <1>4
<1> HIDE DEF v, share, above, below
<1>6. ByteOf(v) <= ByteOf(share) + 1
  <2>1. HalfRange * v <= HalfRange * (share + above) /\ HalfRange * v \in Int
    BY <1>1, <1>2, <1>3, TimesMonotone
  <2>2. 2 * (HalfRange * (share + above)) = 2 * share * HalfRange + 2 * above * HalfRange
    BY <1>1, <1>2
  <2>3. /\ 2 * v * HalfRange = 2 * (HalfRange * v)
        /\ 2 * share * HalfRange \in Int /\ 2 * above * HalfRange \in Int
        /\ HalfRange * (share + above) \in Int
    BY <1>1, <1>2, <1>3
  <2>4. 2 * v * HalfRange <= 2 * share * HalfRange + DIMax
    BY <1>1, <1>5, <2>1, <2>2, <2>3
  <2>5. QED  BY <1>2, <1>3, <2>4, NextByte
<1>7. ByteOf(-share) <= ByteOf(v) + 1
  <2>1. HalfRange * (-share + below) <= HalfRange * v /\ HalfRange * v \in Int
    BY <1>1, <1>2, <1>3, TimesMonotone
  <2>2. 2 * (HalfRange * (-share + below)) = 2 * (-share) * HalfRange + 2 * below * HalfRange
    BY <1>1, <1>2
  <2>3. /\ 2 * v * HalfRange = 2 * (HalfRange * v)
        /\ 2 * (-share) * HalfRange \in Int /\ 2 * below * HalfRange \in Int
        /\ HalfRange * (-share + below) \in Int
    BY <1>1, <1>2, <1>3
  <2>4. 2 * (-share) * HalfRange <= 2 * v * HalfRange + DIMax
    BY <1>1, <1>5, <2>1, <2>2, <2>3
  <2>5. -share \in Int  BY <1>2
  <2>6. QED  BY <1>3, <2>4, <2>5, NextByte
<1>8. ByteOf(v) \in Int /\ ByteOf(share) \in Int /\ ByteOf(-share) \in Int
  BY <1>2, <1>3, ByteOfBounds
<1>9. QED  BY <1>6, <1>7, <1>8 DEF GentleBytes, v, share

\* Neutral is gentle.
LEMMA NeutralIsGentle == 0 \in GentleBytes
<1>1. /\ Share(DIMax) \in Int /\ -Share(DIMax) \in Int /\ 0 \in Int
      /\ 0 <= Share(DIMax) /\ -Share(DIMax) <= 0
  BY ForceAssumption, ShareBounds
<1>2. /\ ByteOf(0) <= ByteOf(Share(DIMax)) /\ ByteOf(-Share(DIMax)) <= ByteOf(0)
      /\ ByteOf(Share(DIMax)) \in Int /\ ByteOf(-Share(DIMax)) \in Int
  BY <1>1, ByteOfMonotone, ByteOfBounds
<1>3. QED  BY <1>2, ByteOfEnds DEF GentleBytes

\* No step takes a neutral wheel to more than a filter step.
LEMMA GentleNext ==
    ASSUME ServiceInv, [Next]_vars, wheel.force = 0
    PROVE  wheel'.force \in GentleBytes
<1>1. wheel \in [mode : {"absent", "switching", "legacy", "native"}, path : Paths, force : ForceByte]
  BY DEF ServiceInv, TypeOK
\* Steps that write nothing, or neutral.
<1>2. ASSUME wheel'.force \in {0, wheel.force} PROVE wheel'.force \in GentleBytes
  BY <1>2, NeutralIsGentle
<1>3. ASSUME FailedWrite(0) PROVE wheel'.force \in GentleBytes
  BY <1>1, <1>2, <1>3 DEF FailedWrite
<1>4. ASSUME handle.open, handle.attached
      PROVE  ByteOf(NextFiltered(Wanted.force, ~Wanted.active)) \in GentleBytes
  <2>1. filtered \in Magnitude /\ ByteOf(filtered) = 0
    BY <1>4 DEF ServiceInv, TypeOK, CacheMatchesWheel
  <2>2. Wanted.force \in Magnitude /\ (~Wanted.active => Wanted.force = 0)
    BY WantedOK DEF ServiceInv
  <2>3. CASE Wanted.active
    BY <2>1, <2>2, <2>3, GentleStep DEF NextFiltered
  <2>4. CASE ~Wanted.active
    BY <2>2, <2>4, ByteOfEnds, NeutralIsGentle DEF NextFiltered
  <2>5. QED  BY <2>3, <2>4
<1>5. CASE SetForce
  <2>1. cache' \in GentleBytes  BY <1>4, <1>5 DEF SetForce
  <2>2. QED  BY <1>1, <1>2, <1>5, <2>1 DEF SetForce
<1>6. CASE OutputFails
  BY <1>1, <1>2, <1>4, <1>6 DEF OutputFails, FailedWrite
<1>7. CASE Open
  BY <1>1, <1>2, <1>7 DEF Open
<1>8. CASE OpenFails
  BY <1>2, <1>3, <1>8 DEF OpenFails
<1>9. CASE Exit
  BY <1>1, <1>2, <1>3, <1>9 DEF Exit
<1>10. CASE SendSwitch
  BY <1>1, <1>2, <1>10 DEF SendSwitch
<1>11. CASE Unplug \/ Plug \/ Reenumerate
  BY <1>1, <1>2, <1>11 DEF Unplug, Plug, Reenumerate
<1>12. CASE UNCHANGED wheel
  BY <1>2, <1>12
<1>13. QED
  BY <1>5, <1>6, <1>7, <1>8, <1>9, <1>10, <1>11, <1>12
  DEF Next, Loop, Environment, Stopped, vars, Leave, Poll, NoOutput, Crash, NotYet, DetectNothing,
      DetectLegacy, DetectNative, OpenCrashes, SwitchRefused, Await, AwaitFinds, AwaitGivesUp,
      Sleep, RequestStop

\* Force never jumps up from neutral, whatever ended the force before: an inactive pass,
\* a failure, a reopened handle or another wheel (G25Service!RestartsGently).
THEOREM ForceRestartsGently == Spec => RestartsGently
<1>1. ServiceInv /\ [Next]_vars =>
        [wheel.force = 0 => wheel'.force \in ByteOf(-Share(DIMax)) - 1 .. ByteOf(Share(DIMax)) + 1]_vars
  BY GentleNext DEF GentleBytes
<1>2. QED  BY <1>1, ServiceInvariance, PTL DEF Spec, RestartsGently

-----------------------------------------------------------------------------
(* The wheel ends neutral.  Without failing writes and enumerations there is   *)
(* force only on a wheel that the service holds, and the service lets go of a  *)
(* wheel that is on the bus only in the `finally`, which neutralises it.       *)

Held == wheel.force # 0 => handle.open /\ handle.attached

FollowsWheel == handle.attached => handle.open /\ handle.path = wheel.path /\ wheel.mode = "native"

LetGo ==
    /\ pc = "open" => ~handle.attached
    /\ pc = "stopped" => ~handle.open

HeldInv == Unharmed => Held /\ FollowsWheel /\ LetGo

\* A step changes what is known of the failures only by one of them.
LEMMA FaultSteps ==
    ASSUME [Next]_vars
    PROVE  faults' = faults \/ \E kind \in FaultKinds : Fault(kind)
<1>1. ASSUME NEW kind \in {"write", "open", "enumerate", "fatal"}, Fault(kind)
      PROVE  \E k \in FaultKinds : Fault(k)
  BY <1>1 DEF FaultKinds
<1>2. CASE Next
  BY <1>1, <1>2
  DEF Next, Loop, Environment, Stopped, vars, output, timers,
      Leave, Poll, NoOutput, SetForce, OutputFails, Crash, NotYet, DetectNothing,
      DetectLegacy, DetectNative, Open, OpenFails, OpenCrashes, SendSwitch, SwitchRefused,
      Await, AwaitFinds, AwaitGivesUp, Sleep, Exit, RequestStop, Unplug, Plug, Reenumerate
<1>3. CASE UNCHANGED vars  BY <1>3 DEF vars
<1>4. QED  BY <1>2, <1>3

\* Every step keeps it.
LEMMA HeldNext ==
    ASSUME ServiceInv, HeldInv, [Next]_vars
    PROVE  HeldInv'
<1> SUFFICES ASSUME Unharmed' PROVE (Held /\ FollowsWheel /\ LetGo)'
  BY DEF HeldInv
<1>01. Unharmed
  <2>1. faults.seen \subseteq faults'.seen
    <3>1. CASE faults' = faults  BY <3>1
    <3>2. CASE \E kind \in FaultKinds : Fault(kind)  BY <3>2 DEF Fault
    <3>3. QED  BY <3>1, <3>2, FaultSteps
  <2>2. QED  BY <2>1 DEF Unharmed
<1>02. Held /\ FollowsWheel /\ LetGo  BY <1>01 DEF HeldInv
<1> USE <1>02
<1>0. ~Closed.open /\ ~Closed.attached  BY DEF Closed
<1>1. wheel \in [mode : {"absent", "switching", "legacy", "native"}, path : Paths, force : ForceByte]
      /\ handle \in [open : BOOLEAN, path : Paths \cup {NoPath}, attached : BOOLEAN]
  BY DEF ServiceInv, TypeOK
<1>2. ~Fault("write") /\ ~Fault("enumerate")  BY DEF Fault, Unharmed
<1>3. ~handle.attached => wheel.force = 0  BY DEF Held
\* Letting go of a wheel without force.
<1>4. ASSUME handle' = Closed, wheel'.force = 0 PROVE (Held /\ FollowsWheel /\ LetGo)'
  BY <1>0, <1>4 DEF Held, FollowsWheel, LetGo
\* Steps that leave the wheel and the handle alone.
<1>5. ASSUME UNCHANGED <<handle, wheel>>, pc' \notin {"open", "stopped"} PROVE (Held /\ FollowsWheel /\ LetGo)'
  BY <1>5 DEF Held, FollowsWheel, LetGo
<1>6. CASE Leave \/ Poll \/ NoOutput \/ Crash \/ NotYet \/ SwitchRefused \/ Await
           \/ AwaitFinds \/ AwaitGivesUp \/ Sleep
  BY <1>5, <1>6
  DEF Leave, Poll, NoOutput, Crash, NotYet, SwitchRefused, Await, AwaitFinds, AwaitGivesUp, Sleep, output
<1>7. CASE SetForce
  BY <1>1, <1>7 DEF SetForce, Held, FollowsWheel, LetGo
<1>8. CASE OutputFails
  BY <1>2, <1>3, <1>4, <1>8 DEF OutputFails, CloseSilently
<1>9. CASE DetectNothing
  <2>1. ~handle.attached  BY <1>2, <1>9 DEF DetectNothing, FollowsWheel
  <2>2. QED  BY <1>3, <1>4, <1>9, <2>1 DEF DetectNothing, CloseSilently
<1>10. CASE DetectLegacy
  <2>1. ~handle.attached  BY <1>10 DEF DetectLegacy, FollowsWheel
  <2>2. QED  BY <1>3, <1>4, <1>10, <2>1 DEF DetectLegacy, CloseSilently
<1>11. CASE DetectNative
  <2>1. NeedsOpen => ~handle.attached  BY DEF NeedsOpen, FollowsWheel
  <2>2. QED  BY <1>11, <2>1 DEF DetectNative, output, Held, FollowsWheel, LetGo
<1>12. CASE Open
  <2>1. wheel'.force = 0 /\ wheel'.mode = "native" /\ wheel'.path = found
    BY <1>1, <1>12 DEF Open
  <2>2. QED  BY <1>12, <2>1 DEF Open, Held, FollowsWheel, LetGo
<1>13. CASE OpenFails
  <2>1. wheel.force = 0  BY <1>3, <1>13 DEF OpenFails, LetGo
  <2>2. wheel'.force = 0  BY <1>1, <1>13, <2>1 DEF OpenFails, FailedWrite
  <2>3. QED  BY <1>4, <1>13, <2>2 DEF OpenFails, CloseSilently
<1>14. CASE OpenCrashes
  <2>1. wheel.force = 0  BY <1>3, <1>14 DEF OpenCrashes, LetGo
  <2>2. handle' = Closed /\ wheel' = wheel  BY <1>14 DEF OpenCrashes, CloseSilently
  <2>3. QED  BY <1>4, <2>1, <2>2
<1>15. CASE SendSwitch
  <2>1. /\ wheel'.force = wheel.force /\ wheel'.path = wheel.path
        /\ wheel' = wheel \/ wheel.mode = "legacy"
    BY <1>1, <1>15 DEF SendSwitch
  <2>2. QED  BY <1>15, <2>1 DEF SendSwitch, output, Held, FollowsWheel, LetGo
<1>16. CASE Exit
  <2>1. wheel'.force = 0
    <3>1. CASE handle.open /\ handle.attached
      BY <1>1, <1>2, <1>16, <3>1 DEF Exit
    <3>2. CASE ~(handle.open /\ handle.attached)
      BY <1>16, <3>2 DEF Exit, Held
    <3>3. QED  BY <3>1, <3>2
  <2>2. QED  BY <1>4, <1>16, <2>1 DEF Exit, CloseSilently
<1>17. CASE RequestStop
  BY <1>17 DEF RequestStop, output, Held, FollowsWheel, LetGo
<1>18. CASE Unplug
  <2>1. wheel'.force = 0 /\ ~handle'.attached /\ handle'.open = handle.open
    BY <1>1, <1>18 DEF Unplug
  <2>2. QED  BY <1>18, <2>1 DEF Unplug, Held, FollowsWheel, LetGo
<1>19. CASE Plug
  <2>1. wheel'.force = 0 /\ ~handle.attached
    BY <1>19 DEF Plug, ServiceInv, CutOff
  <2>2. QED  BY <1>19, <2>1 DEF Plug, output, Held, FollowsWheel, LetGo
<1>20. CASE Reenumerate
  <2>1. wheel'.force = wheel.force /\ ~handle.attached
    BY <1>1, <1>20 DEF Reenumerate, FollowsWheel
  <2>2. QED  BY <1>20, <2>1 DEF Reenumerate, output, Held, FollowsWheel, LetGo
<1>21. CASE UNCHANGED vars
  BY <1>21 DEF vars, Held, FollowsWheel, LetGo
<1>22. QED
  BY <1>6, <1>7, <1>8, <1>9, <1>10, <1>11, <1>12, <1>13, <1>14, <1>15, <1>16, <1>17, <1>18,
     <1>19, <1>20, <1>21
  DEF Next, Loop, Environment, Stopped

\* A stopped service leaves no force on a wheel, if no force was there before it and
\* neither a write to an open wheel nor an enumeration has failed
\* (G25Service!EveryExitNeutralises); the runs service_detection_error and service show
\* what an enumeration that fails does, and what becomes of it.
THEOREM ShutdownNeutralises == Spec => []EveryExitNeutralises
<1>1. Init => HeldInv
  BY DEF Init, Closed, HeldInv, Held, FollowsWheel, LetGo, Unharmed
<1>2. ServiceInv /\ HeldInv /\ [Next]_vars => HeldInv'
  BY HeldNext
<1>3. HeldInv => EveryExitNeutralises
  BY DEF HeldInv, Held, LetGo, ShutdownNeutral, EveryExitNeutralises
<1>4. QED  BY <1>1, <1>2, <1>3, ServiceInvariance, PTL DEF Spec

-----------------------------------------------------------------------------
(* The end. *)

\* The steps of the loop that are left once it has been asked to stop, at most.
StepsLeft ==
    CASE pc = "stopped" -> 0 [] pc = "exit" -> 1 [] pc = "top" -> 2 [] pc = "sleep" -> 3
      [] pc \in {"await", "open"} -> 4 [] pc = "switch" -> 5 [] pc = "detect" -> 6
      [] pc = "output" -> 7

\* g25_service.py:328 (`while not runtime.should_stop()`) and :162: once a stop is asked for
\* it stays asked for, every step of the loop, also one that fails and one of the mode switch,
\* brings the end nearer, and nothing around the loop takes it away again.  The loop is over when
\* no step is left, after seven at most.
EachStepNearsTheEnd ==
    [][stop => /\ stop'
               /\ StepsLeft \in 0 .. 7 /\ (StepsLeft = 0 <=> pc = "stopped")
               /\ IF Loop THEN StepsLeft' < StepsLeft ELSE StepsLeft' = StepsLeft]_vars

\* What is left at each place.
LEMMA StepsAt ==
    /\ pc = "stopped" => StepsLeft = 0
    /\ pc = "exit" => StepsLeft = 1
    /\ pc = "top" => StepsLeft = 2
    /\ pc = "sleep" => StepsLeft = 3
    /\ pc \in {"await", "open"} => StepsLeft = 4
    /\ pc = "switch" => StepsLeft = 5
    /\ pc = "detect" => StepsLeft = 6
    /\ pc = "output" => StepsLeft = 7
BY DEF StepsLeft

\* And after a step.
LEMMA StepsThen ==
    /\ pc' = "stopped" => StepsLeft' = 0
    /\ pc' = "exit" => StepsLeft' = 1
    /\ pc' = "top" => StepsLeft' = 2
    /\ pc' = "sleep" => StepsLeft' = 3
    /\ pc' \in {"await", "open"} => StepsLeft' = 4
    /\ pc' = "switch" => StepsLeft' = 5
    /\ pc' = "detect" => StepsLeft' = 6
    /\ pc' = "output" => StepsLeft' = 7
BY DEF StepsLeft

\* The places of the loop before and after a step once a stop is asked for.
LEMMA LoopMoves ==
    ASSUME stop, Loop
    PROVE  /\ stop'
           /\ \/ pc \in {"top", "output", "open", "switch", "await"} /\ pc' = "exit"
              \/ pc = "output" /\ pc' = "detect"
              \/ pc = "detect" /\ pc' \in {"sleep", "switch", "open"}
              \/ pc \in {"open", "switch", "await"} /\ pc' = "sleep"
              \/ pc = "switch" /\ pc' = "await"
              \/ pc = "sleep" /\ pc' = "top"
              \/ pc = "exit" /\ pc' = "stopped"
<1>1. stop'
  BY DEF Loop, Leave, Poll, NoOutput, SetForce, OutputFails, Crash, NotYet, DetectNothing,
         DetectLegacy, DetectNative, Open, OpenFails, OpenCrashes, SendSwitch, SwitchRefused,
         Await, AwaitFinds, AwaitGivesUp, Sleep, Exit
<1>2. CASE Leave \/ Poll \/ NoOutput \/ SetForce \/ OutputFails \/ Crash
  BY <1>1, <1>2 DEF Leave, Poll, NoOutput, SetForce, OutputFails, Crash
<1>3. CASE NotYet \/ DetectNothing \/ DetectLegacy \/ DetectNative
  BY <1>1, <1>3 DEF NotYet, DetectNothing, DetectLegacy, DetectNative
<1>4. CASE Open \/ OpenFails \/ OpenCrashes
  BY <1>1, <1>4 DEF Open, OpenFails, OpenCrashes
<1>5. CASE SendSwitch \/ SwitchRefused \/ Await \/ AwaitFinds \/ AwaitGivesUp
  BY <1>1, <1>5 DEF SendSwitch, SwitchRefused, Await, AwaitFinds, AwaitGivesUp
<1>6. CASE Sleep \/ Exit
  BY <1>1, <1>6 DEF Sleep, Exit
<1>7. QED  BY <1>2, <1>3, <1>4, <1>5, <1>6 DEF Loop

\* g25_service.py:328 (`while not runtime.should_stop()`): whatever fails, and whatever happens to
\* the wheel, a stop is at most seven steps of the loop away.
THEOREM StopIsNear == Spec => EachStepNearsTheEnd
<1>1. ASSUME ServiceInv, [Next]_vars, stop
      PROVE  /\ stop'
             /\ StepsLeft \in 0 .. 7 /\ (StepsLeft = 0 <=> pc = "stopped")
             /\ IF Loop THEN StepsLeft' < StepsLeft ELSE StepsLeft' = StepsLeft
  <2>1. pc \in {"top", "output", "detect", "open", "switch", "await", "sleep", "exit", "stopped"}
    BY <1>1 DEF ServiceInv, TypeOK
  <2>2. StepsLeft \in 0 .. 7 /\ (StepsLeft = 0 <=> pc = "stopped")  BY <2>1, StepsAt
  <2>3. CASE Loop
    <3>1. StepsLeft' < StepsLeft
      <4>1. CASE pc \in {"top", "output", "open", "switch", "await"} /\ pc' = "exit"
        BY <4>1, StepsAt, StepsThen
      <4>2. CASE pc = "output" /\ pc' = "detect"  BY <4>2, StepsAt, StepsThen
      <4>3. CASE pc = "detect" /\ pc' \in {"sleep", "switch", "open"}
        BY <4>3, StepsAt, StepsThen
      <4>4. CASE pc \in {"open", "switch", "await"} /\ pc' = "sleep"
        BY <4>4, StepsAt, StepsThen
      <4>5. CASE pc = "switch" /\ pc' = "await"  BY <4>5, StepsAt, StepsThen
      <4>6. CASE pc = "sleep" /\ pc' = "top"  BY <4>6, StepsAt, StepsThen
      <4>7. CASE pc = "exit" /\ pc' = "stopped"  BY <4>7, StepsAt, StepsThen
      <4>8. QED  BY <1>1, <2>3, <4>1, <4>2, <4>3, <4>4, <4>5, <4>6, <4>7, LoopMoves
    <3>2. QED  BY <1>1, <2>2, <2>3, <3>1, LoopMoves
  <2>4. CASE ~Loop
    <3>1. pc' = pc /\ stop'
      BY <1>1, <2>4 DEF Next, Environment, RequestStop, Unplug, Plug, Reenumerate, Stopped, vars
    <3>2. StepsLeft' = StepsLeft  BY <3>1 DEF StepsLeft
    <3>3. QED  BY <2>2, <2>4, <3>1, <3>2
  <2>5. QED  BY <2>3, <2>4
<1>2. QED  BY <1>1, ServiceInvariance, PTL DEF Spec, EachStepNearsTheEnd
=============================================================================
