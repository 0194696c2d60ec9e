--------------------------- MODULE WheelForceProofs ---------------------------
(***************************************************************************)
(* Proofs about WheelForce: the bounds on the smoothed speed and           *)
(* acceleration, conditions that never jump, envelopes that are honoured   *)
(* and rest without reports, for every size of the wheel, rate of the      *)
(* clock, number of reports and message of a game.                         *)
(*                                                                         *)
(* The bound on the speed alone is not inductive: a wheel at a stop cannot *)
(* be thrown further that way.  What holds is that the more speed the      *)
(* smoothing has gathered the nearer the wheel is to the stop it runs      *)
(* towards (Gathered).                                                     *)
(***************************************************************************)
EXTENDS WheelForce, TLAPS

\* The speed gathered by position p, in both directions; in 1000 * StepSpeed.
Gathered(p, v) ==
    /\ 1000 * v <= 1007 * (Steps * StepSpeed) + 213 * (p * StepSpeed)
    /\ -1000 * v <= 1007 * (Steps * StepSpeed) - 213 * (p * StepSpeed)

Places == -Steps .. Steps

Kinematics ==
    [position : Places, velocity : Int, acceleration : Int, known : BOOLEAN,
     lastPosition : Places, lastVelocity : Int, since : 0 .. MaxGap]

SpeedOK(v) == 100 * Abs(v) <= 61 * MaxSpeed
AccelOK(a) == 100 * Abs(a) <= (57 * MaxSpeed + 100) * TicksPerSecond

Bounded(k) ==
    /\ k \in Kinematics
    /\ SpeedOK(k.velocity) /\ AccelOK(k.acceleration)
    /\ Gathered(k.lastPosition, k.lastVelocity)
    /\ ~k.known => k.lastVelocity = 0

IInv == wheel \in Places /\ Bounded(kin)

-----------------------------------------------------------------------------
(* Arithmetic. *)

\* Rounding towards zero: the sign stays, the size does not grow.
LEMMA Rounding ==
    ASSUME NEW a \in Int, NEW b \in Nat \ {0}
    PROVE  /\ TowardsZero(a, b) \in Int
           /\ a >= 0 => TowardsZero(a, b) >= 0 /\ b * TowardsZero(a, b) <= a
           /\ a >= 0 => a < b * TowardsZero(a, b) + b
           /\ a <= 0 => TowardsZero(a, b) <= 0 /\ a <= b * TowardsZero(a, b)
           /\ a <= 0 => b * TowardsZero(a, b) - b < a
<1>1. ASSUME NEW c \in Nat
      PROVE  c \div b \in Nat /\ b * (c \div b) <= c /\ c < b * (c \div b) + b
  BY <1>1
<1>2. CASE a >= 0
  <2>1. a \in Nat /\ TowardsZero(a, b) = a \div b  BY <1>2 DEF TowardsZero
  <2>2. QED  BY <1>2, <2>1, <1>1
<1>3. CASE a < 0
  <2>1. -a \in Nat /\ TowardsZero(a, b) = -((-a) \div b)  BY <1>3 DEF TowardsZero
  <2>2. (-a) \div b \in Nat /\ b * ((-a) \div b) <= -a /\ -a < b * ((-a) \div b) + b
    BY <2>1, <1>1
  <2>3. PICK q \in Nat : q = (-a) \div b  BY <2>2
  <2>4. b * (-q) = -(b * q)  OBVIOUS
  <2>5. QED  BY <1>3, <2>1, <2>2, <2>3, <2>4
<1>4. QED  BY <1>2, <1>3

\* A product with a factor of at least one.
LEMMA Factor ==
    ASSUME NEW q \in Int, NEW b \in Nat \ {0}
    PROVE  b * q \in Int /\ (q >= 0 => q <= b * q) /\ (q <= 0 => b * q <= q)
OBVIOUS

\* A quotient is no larger than what was divided.
LEMMA Smaller ==
    ASSUME NEW a \in Int, NEW b \in Nat \ {0}
    PROVE  /\ TowardsZero(a, b) \in Int
           /\ a >= 0 => TowardsZero(a, b) \in 0 .. a
           /\ a <= 0 => TowardsZero(a, b) \in a .. 0
<1>1. PICK q \in Int : q = TowardsZero(a, b)  BY Rounding
<1>2. /\ a >= 0 => q >= 0 /\ b * q <= a
      /\ a <= 0 => q <= 0 /\ a <= b * q
  BY <1>1, Rounding
<1>3. b * q \in Int /\ (q >= 0 => q <= b * q) /\ (q <= 0 => b * q <= q)  BY Factor
<1>4. /\ a >= 0 => q \in 0 .. a
      /\ a <= 0 => q \in a .. 0
  BY <1>2, <1>3
<1>5. QED  BY <1>1, <1>4

\* Factors keep an order.
LEMMA Order ==
    ASSUME NEW a \in Int, NEW b \in Int, NEW c \in Nat, a <= b
    PROVE  a * c \in Int /\ b * c \in Int /\ a * c <= b * c
OBVIOUS

-----------------------------------------------------------------------------
(* The kinematics. *)

\* The speed of a step is a number, and places differ by no more than the travel.
LEMMA Scale ==
    /\ Steps \in Nat \ {0} /\ TicksPerSecond \in Nat \ {0} /\ MaxGap \in Nat \ {0}
    /\ StepSpeed \in Nat
    /\ MaxSpeed = 2 * (Steps * StepSpeed) /\ Steps * StepSpeed \in Nat
<1>1. Steps \in Nat \ {0} /\ TicksPerSecond \in Nat \ {0} /\ MaxGap \in Nat \ {0}
  BY ScaleAssumption
<1>2. StepSpeed \in Nat  BY <1>1 DEF StepSpeed
<1>3. PICK u \in Nat : u = StepSpeed  BY <1>2
<1>4. 2 * Steps * u = 2 * (Steps * u) /\ Steps * u \in Nat  BY <1>1
<1>5. QED  BY <1>1, <1>3, <1>4 DEF MaxSpeed

\* A place is no further away than a stop.
LEMMA Place ==
    ASSUME NEW p \in Places
    PROVE  /\ p * StepSpeed \in Int
           /\ p * StepSpeed <= Steps * StepSpeed
           /\ -(Steps * StepSpeed) <= p * StepSpeed
<1>1. p \in Int /\ Steps \in Int /\ -Steps \in Int /\ -Steps <= p /\ p <= Steps
  BY Scale DEF Places
<1>2. PICK u \in Nat : u = StepSpeed  BY Scale
<1>3. p * u \in Int /\ p * u <= Steps * u  BY <1>1, Order
<1>4. (-Steps) * u <= p * u  BY <1>1, Order
<1>5. (-Steps) * u = -(Steps * u)  BY <1>1
<1>6. QED  BY <1>2, <1>3, <1>4, <1>5

\* What has been gathered is within the bound.
LEMMA GatheredSpeed ==
    ASSUME NEW p \in Places, NEW v \in Int, Gathered(p, v)
    PROVE  SpeedOK(v)
<1>1. PICK A \in Nat : A = Steps * StepSpeed /\ MaxSpeed = 2 * A  BY Scale
<1>2. PICK P \in Int : P = p * StepSpeed /\ -A <= P /\ P <= A  BY <1>1, Place
<1>3. 1000 * v <= 1007 * A + 213 * P /\ -1000 * v <= 1007 * A - 213 * P
  BY <1>1, <1>2 DEF Gathered
<1>4. 100 * v <= 122 * A /\ -100 * v <= 122 * A  BY <1>2, <1>3
<1>5. QED  BY <1>1, <1>4 DEF SpeedOK, Abs

\* The speed after a report of the wheel at q, n ticks after one at p.
NewSpeed(p, q, n, last) ==
    TowardsZero(65 * last + 35 * TowardsZero((q - p) * StepSpeed, n), 100)

\* A report smooths the speed and keeps to what a place can gather; the speed changes by
\* the weight of the new one.
LEMMA Smoothed ==
    ASSUME NEW p \in Places, NEW q \in Places, NEW n \in Nat \ {0},
           NEW last \in Int, Gathered(p, last)
    PROVE  /\ NewSpeed(p, q, n, last) \in Int
           /\ Gathered(q, NewSpeed(p, q, n, last))
           /\ 100 * (NewSpeed(p, q, n, last) - last) <= 57 * MaxSpeed + 100
           /\ -(57 * MaxSpeed + 100) <= 100 * (NewSpeed(p, q, n, last) - last)
<1> DEFINE raw == TowardsZero((q - p) * StepSpeed, n)
           v == NewSpeed(p, q, n, last)
<1>0. v = TowardsZero(65 * last + 35 * raw, 100)  BY DEF NewSpeed
<1> HIDE DEF v
<1>1. PICK A \in Nat : A = Steps * StepSpeed /\ MaxSpeed = 2 * A  BY Scale
<1>2. PICK P \in Int : P = p * StepSpeed /\ -A <= P /\ P <= A  BY <1>1, Place
<1>3. PICK Q \in Int : Q = q * StepSpeed /\ -A <= Q /\ Q <= A  BY <1>1, Place
<1>4. (q - p) * StepSpeed = Q - P
  <2>1. p \in Int /\ q \in Int  BY Scale DEF Places
  <2>2. PICK u \in Nat : u = StepSpeed  BY Scale
  <2>3. (q - p) * u = q * u - p * u  BY <2>1
  <2>4. QED  BY <2>2, <2>3, <1>2, <1>3
<1>5. /\ raw \in Int
      /\ Q - P >= 0 => 0 <= raw /\ raw <= Q - P
      /\ Q - P <= 0 => Q - P <= raw /\ raw <= 0
  <2>1. PICK d \in Int : d = Q - P  OBVIOUS
  <2>2. raw = TowardsZero(d, n)  BY <1>4, <2>1
  <2>3. raw \in Int /\ (d >= 0 => raw \in 0 .. d) /\ (d <= 0 => raw \in d .. 0)
    BY <2>2, Smaller, Zenon
  <2>4. QED  BY <2>1, <2>3
<1>6. 1000 * last <= 1007 * A + 213 * P /\ -1000 * last <= 1007 * A - 213 * P
  BY <1>1, <1>2 DEF Gathered
<1> HIDE DEF raw
<1>7. PICK w \in Int : w = 65 * last + 35 * raw  BY <1>5
<1>8. /\ v \in Int
      /\ w >= 0 => v >= 0 /\ 100 * v <= w
      /\ w >= 0 => w < 100 * v + 100
      /\ w <= 0 => v <= 0 /\ w <= 100 * v
      /\ w <= 0 => 100 * v - 100 < w
  <2>1. v = TowardsZero(w, 100)  BY <1>0, <1>7
  <2>2. QED  BY <2>1 DEF TowardsZero
<1>9. /\ 10 * w <= 1007 * A + 213 * Q
      /\ -10 * w <= 1007 * A - 213 * Q
  <2>1. CASE Q >= P
    <3>1. 10 * w <= 650 * last + 350 * (Q - P) /\ 10 * w >= 650 * last
      BY <2>1, <1>5, <1>7
    <3>2. QED  BY <3>1, <2>1, <1>2, <1>3, <1>6, <1>7
  <2>2. CASE Q <= P
    <3>1. 10 * w >= 650 * last + 350 * (Q - P) /\ 10 * w <= 650 * last
      BY <2>2, <1>5, <1>7
    <3>2. QED  BY <3>1, <2>2, <1>2, <1>3, <1>6, <1>7
  <2>3. QED  BY <2>1, <2>2
<1>10. 1000 * v <= 1007 * A + 213 * Q /\ -1000 * v <= 1007 * A - 213 * Q
  BY <1>3, <1>8, <1>9
<1>11. /\ 100 * (v - last) <= 114 * A + 100
       /\ -(114 * A + 100) <= 100 * (v - last)
  <2>1. 100 * last <= 122 * A /\ -100 * last <= 122 * A  BY <1>2, <1>6
  <2>2. raw <= 2 * A /\ -raw <= 2 * A  BY <1>2, <1>3, <1>5
  <2>3. 100 * v <= w + 100 /\ w - 100 <= 100 * v  BY <1>7, <1>8
  <2>4. QED  BY <2>1, <2>2, <2>3, <1>5, <1>7, <1>8
<1>12. QED  BY <1>1, <1>3, <1>8, <1>10, <1>11 DEF Gathered, v

\* So does the acceleration, of which a report takes a quarter.
LEMMA SmoothedAcceleration ==
    ASSUME NEW d \in Int, NEW n \in Nat \ {0}, NEW a \in Int, AccelOK(a),
           100 * d <= 57 * MaxSpeed + 100, -(57 * MaxSpeed + 100) <= 100 * d,
           NEW raw, raw = TowardsZero(d * TicksPerSecond, n),
           NEW b, b = TowardsZero(75 * a + 25 * raw, 100)
    PROVE  b \in Int /\ AccelOK(b)
<1>1. PICK A \in Nat : MaxSpeed = 2 * A  BY Scale
<1>2. PICK B \in Nat : B = 57 * MaxSpeed + 100  BY <1>1
<1>3. PICK T \in Nat : T = TicksPerSecond  BY Scale
<1>4. PICK L \in Nat : L = B * T  BY <1>2
<1>5. PICK e \in Int : e = d * T  OBVIOUS
<1>6. 100 * e <= L /\ -L <= 100 * e
  <2>1. (100 * d) * T <= B * T  BY <1>2, Order
  <2>2. (-B) * T <= (100 * d) * T  BY <1>2, Order
  <2>3. (100 * d) * T = 100 * (d * T) /\ (-B) * T = -(B * T)  OBVIOUS
  <2>4. QED  BY <2>1, <2>2, <2>3, <1>4, <1>5
<1>7. raw \in Int /\ 100 * raw <= L /\ -L <= 100 * raw
  <2>1. raw = TowardsZero(e, n)  BY <1>3, <1>5
  <2>2. raw \in Int /\ (e >= 0 => raw \in 0 .. e) /\ (e <= 0 => raw \in e .. 0)
    BY <2>1, Smaller, Zenon
  <2>3. QED  BY <2>2, <1>6
<1>8. 100 * a <= L /\ -L <= 100 * a
  BY <1>2, <1>3, <1>4 DEF AccelOK, Abs
<1>9. PICK w \in Int : w = 75 * a + 25 * raw  BY <1>7
<1>10. w <= L /\ -L <= w  BY <1>7, <1>8, <1>9
<1>11. b \in Int /\ 100 * b <= L /\ -L <= 100 * b
  <2>1. b = TowardsZero(w, 100)  BY <1>9
  <2>2. QED  BY <2>1, <1>10 DEF TowardsZero
<1>12. QED  BY <1>2, <1>3, <1>4, <1>11 DEF AccelOK, Abs

\* A report keeps everything within its bounds.
LEMMA UpdateKeeps ==
    ASSUME NEW k, Bounded(k), NEW q \in Places
    PROVE  Bounded(UpdateRaw(k, q))
<1>0. k \in Kinematics  BY DEF Bounded
<1>1. CASE ~k.known
  <2> DEFINE r == [k EXCEPT !.position = q, !.known = TRUE, !.lastPosition = q, !.since = 0]
  <2>1. /\ r \in Kinematics
        /\ r.velocity = k.velocity /\ r.acceleration = k.acceleration
        /\ r.lastPosition = q /\ r.lastVelocity = k.lastVelocity /\ r.known
    <3>1. 0 \in 0 .. MaxGap  BY Scale
    <3>2. QED  BY <1>0, <3>1 DEF Kinematics
  <2>2. k.lastVelocity = 0  BY <1>1 DEF Bounded
  <2>3. Gathered(q, 0)
    <3>1. PICK A \in Nat : A = Steps * StepSpeed  BY Scale
    <3>2. PICK Q \in Int : Q = q * StepSpeed /\ -A <= Q /\ Q <= A  BY <3>1, Place
    <3>3. QED  BY <3>1, <3>2 DEF Gathered
  <2>4. Bounded(r)  BY <2>1, <2>2, <2>3 DEF Bounded
  <2>5. QED  BY <1>1, <2>4 DEF UpdateRaw
<1>2. CASE k.known /\ k.since = 0
  <2> DEFINE r == [k EXCEPT !.position = q]
  <2>1. /\ r \in Kinematics
        /\ r.velocity = k.velocity /\ r.acceleration = k.acceleration
        /\ r.lastPosition = k.lastPosition /\ r.lastVelocity = k.lastVelocity
        /\ r.known = k.known
    BY <1>0 DEF Kinematics
  <2>2. Bounded(r)  BY <2>1 DEF Bounded
  <2>3. QED  BY <1>2, <2>2 DEF UpdateRaw
<1>3. CASE k.known /\ k.since # 0
  <2> DEFINE raw == TowardsZero((q - k.lastPosition) * StepSpeed, k.since)
             v == TowardsZero(65 * k.lastVelocity + 35 * raw, 100)
             rawAccel == TowardsZero((v - k.lastVelocity) * TicksPerSecond, k.since)
             a == TowardsZero(75 * k.acceleration + 25 * rawAccel, 100)
             r == [k EXCEPT !.position = q, !.lastPosition = q, !.since = 0,
                            !.velocity = v, !.lastVelocity = v, !.acceleration = a]
  <2>1. /\ k.since \in Nat \ {0} /\ k.lastPosition \in Places
        /\ k.lastVelocity \in Int /\ k.acceleration \in Int
    BY <1>0, <1>3, Scale DEF Kinematics
  <2>2. /\ v \in Int /\ Gathered(q, v)
        /\ 100 * (v - k.lastVelocity) <= 57 * MaxSpeed + 100
        /\ -(57 * MaxSpeed + 100) <= 100 * (v - k.lastVelocity)
    <3>1. Gathered(k.lastPosition, k.lastVelocity)  BY DEF Bounded
    <3>2. v = NewSpeed(k.lastPosition, q, k.since, k.lastVelocity)  BY DEF NewSpeed
    <3> HIDE DEF v
    <3>3. QED  BY <2>1, <3>1, <3>2, Smoothed
  <2>3. SpeedOK(v)  BY <2>2, GatheredSpeed
  <2>4. a \in Int /\ AccelOK(a)
    <3>1. AccelOK(k.acceleration)  BY DEF Bounded
    <3>2. v - k.lastVelocity \in Int  BY <2>1, <2>2
    <3> HIDE DEF v
    <3>3. QED  BY <2>1, <2>2, <3>1, <3>2, SmoothedAcceleration, Zenon
  <2> HIDE DEF v, a
  <2>5. /\ r \in Kinematics
        /\ r.velocity = v /\ r.acceleration = a
        /\ r.lastPosition = q /\ r.lastVelocity = v /\ r.known = k.known
    <3>1. 0 \in 0 .. MaxGap  BY Scale
    <3>2. QED  BY <1>0, <2>2, <2>4, <3>1 DEF Kinematics
  <2>6. Bounded(r)  BY <2>2, <2>3, <2>4, <2>5, <1>3 DEF Bounded
  <2>7. UpdateRaw(k, q) = r  BY <1>3, Zenon DEF UpdateRaw, v, a
  <2>8. QED  BY <2>6, <2>7
<1>4. QED  BY <1>1, <1>2, <1>3

\* Settling only makes the speed and the acceleration smaller.
LEMMA SettleKeeps ==
    ASSUME NEW k, Bounded(k)
    PROVE  Bounded(SettleIfStale(k))
<1>0. k \in Kinematics  BY DEF Bounded
<1>1. ASSUME NEW x \in Int, NEW least \in Nat, NEW part \in 0 .. 10
      PROVE  /\ Quiet(TowardsZero(part * x, 10), least) \in Int
             /\ Abs(Quiet(TowardsZero(part * x, 10), least)) <= Abs(x)
  <2>1. PICK y \in Int : y = part * x /\ (x >= 0 => 0 <= y /\ y <= 10 * x)
                                     /\ (x <= 0 => 10 * x <= y /\ y <= 0)
    OBVIOUS
  <2>2. QED  BY <2>1 DEF Quiet, TowardsZero, Abs
<1>2. CASE ~(~k.known \/ k.since <= StaleAfter)
  <2> DEFINE v == Quiet(TowardsZero(6 * k.velocity, 10), 1)
             a == Quiet(TowardsZero(4 * k.acceleration, 10), 10)
             r == [k EXCEPT !.velocity = v, !.acceleration = a]
  <2>1. k.velocity \in Int /\ k.acceleration \in Int  BY <1>0 DEF Kinematics
  <2>2. v \in Int /\ Abs(v) <= Abs(k.velocity) /\ a \in Int /\ Abs(a) <= Abs(k.acceleration)
    <3>1. 6 \in 0 .. 10 /\ 4 \in 0 .. 10 /\ 1 \in Nat /\ 10 \in Nat  OBVIOUS
    <3>2. v \in Int /\ Abs(v) <= Abs(k.velocity)  BY <2>1, <3>1, <1>1, Zenon
    <3>3. a \in Int /\ Abs(a) <= Abs(k.acceleration)  BY <2>1, <3>1, <1>1, Zenon
    <3>4. QED  BY <3>2, <3>3
  <2> HIDE DEF v, a
  <2>3. SpeedOK(v)
    <3>1. PICK A \in Nat : MaxSpeed = 2 * A  BY Scale
    <3>2. QED  BY <3>1, <2>1, <2>2 DEF Bounded, SpeedOK, Abs
  <2>4. AccelOK(a)
    <3>1. PICK A \in Nat : MaxSpeed = 2 * A  BY Scale
    <3>2. PICK L \in Nat : L = (57 * MaxSpeed + 100) * TicksPerSecond  BY <3>1, Scale
    <3>3. QED  BY <3>2, <2>1, <2>2 DEF Bounded, AccelOK, Abs
  <2>5. /\ r \in Kinematics
        /\ r.velocity = v /\ r.acceleration = a /\ r.known = k.known
        /\ r.lastPosition = k.lastPosition /\ r.lastVelocity = k.lastVelocity
    BY <1>0, <2>2 DEF Kinematics
  <2>6. Bounded(r)  BY <2>3, <2>4, <2>5 DEF Bounded
  <2>7. SettleIfStale(k) = r  BY <1>2, Zenon DEF SettleIfStale, v, a
  <2>8. QED  BY <2>6, <2>7
<1>3. CASE ~k.known \/ k.since <= StaleAfter
  BY <1>3 DEF SettleIfStale
<1>4. QED  BY <1>2, <1>3

-----------------------------------------------------------------------------
(* The behaviours. *)

\* The invariant holds at the start.
LEMMA InitInv == Init => IInv
<1>1. SUFFICES ASSUME Init PROVE IInv
  OBVIOUS
<1>2. PICK A \in Nat : A = Steps * StepSpeed /\ MaxSpeed = 2 * A  BY Scale
<1>3. NoReport \in Kinematics /\ 0 \in Places  BY Scale DEF NoReport, Kinematics, Places
<1>4. SpeedOK(0)  BY <1>2 DEF SpeedOK, Abs
<1>5. AccelOK(0)
  <2>1. PICK L \in Nat : L = (57 * MaxSpeed + 100) * TicksPerSecond  BY <1>2, Scale
  <2>2. QED  BY <2>1 DEF AccelOK, Abs
<1>6. Gathered(0, 0)
  <2>1. 0 * StepSpeed = 0  BY Scale
  <2>2. QED  BY <2>1, <1>2 DEF Gathered
<1>7. Bounded(NoReport)  BY <1>3, <1>4, <1>5, <1>6 DEF Bounded, NoReport
<1>8. QED  BY <1>1, <1>3, <1>7 DEF Init, IInv

\* And every step keeps it.
LEMMA NextKeeps == IInv /\ [Next]_vars => IInv'
<1>1. SUFFICES ASSUME IInv, [Next]_vars PROVE IInv'
  OBVIOUS
<1>2. ASSUME NEW p \in -Steps .. Steps, Report(p) PROVE IInv'
  <2>1. kin' = kin /\ wheel' \in Places  BY <1>2 DEF Report, Places
  <2>2. QED  BY <1>1, <2>1 DEF IInv
<1>3. CASE Pass
  <2>1. wheel \in Places /\ Bounded(kin)  BY <1>1 DEF IInv
  <2> DEFINE k == IF pending THEN UpdateRaw(kin, wheel) ELSE kin
  <2>2. Bounded(k)  BY <2>1, UpdateKeeps
  <2>3. kin' = SettleIfStale(k) /\ wheel' = wheel  BY <1>3 DEF Pass
  <2> HIDE DEF k
  <2>4. Bounded(SettleIfStale(k))  BY <2>2, SettleKeeps
  <2>5. QED  BY <2>1, <2>3, <2>4 DEF IInv
<1>4. CASE Tick
  <2>1. kin \in Kinematics  BY <1>1 DEF IInv, Bounded
  <2> DEFINE t == IF kin.since < MaxGap THEN kin.since + 1 ELSE kin.since
             r == [kin EXCEPT !.since = t]
  <2>2. t \in 0 .. MaxGap  BY <2>1, Scale DEF Kinematics
  <2>3. kin' = r /\ wheel' = wheel  BY <1>4 DEF Tick
  <2> HIDE DEF t
  <2>4. /\ r \in Kinematics
        /\ r.velocity = kin.velocity /\ r.acceleration = kin.acceleration
        /\ r.lastPosition = kin.lastPosition /\ r.lastVelocity = kin.lastVelocity
        /\ r.known = kin.known
    BY <2>1, <2>2 DEF Kinematics
  <2>5. Bounded(r)  BY <1>1, <2>4 DEF IInv, Bounded
  <2>6. QED  BY <1>1, <2>3, <2>5 DEF IInv
<1>5. CASE UNCHANGED vars
  BY <1>1, <1>5 DEF IInv, vars
<1>6. QED  BY <1>1, <1>2, <1>3, <1>4, <1>5 DEF Next

\* The inductive invariant: types, bounds, and what a place can gather.
THEOREM Invariance == Spec => []IInv
<1>1. QED  BY InitInv, NextKeeps, PTL DEF Spec

\* ffb_engine.py:73 "a little smoothing prevents 1-count encoder noise becoming damper
\* buzz": whatever the reports, the smoothed speed and acceleration stay within their
\* share of the fastest movement.
THEOREM NothingAmplified == Spec => []SmoothingAmplifiesNothing
<1>1. IInv => SmoothingAmplifiesNothing
  <2>1. SUFFICES ASSUME IInv PROVE SmoothingAmplifiesNothing
    OBVIOUS
  <2>2. kin \in Kinematics /\ SpeedOK(kin.velocity) /\ AccelOK(kin.acceleration)
    BY <2>1 DEF IInv, Bounded
  <2>3. SpeedOK(kin.lastVelocity)
    <3>1. kin.lastPosition \in Places /\ kin.lastVelocity \in Int  BY <2>2 DEF Kinematics
    <3>2. QED  BY <2>1, <3>1, GatheredSpeed DEF IInv, Bounded
  <2>4. QED
    BY <2>2, <2>3 DEF Kinematics, Places, SpeedOK, AccelOK, SmoothingAmplifiesNothing
<1>2. QED  BY <1>1, Invariance, PTL

-----------------------------------------------------------------------------
(* Conditions: what they pull follows what they go by. *)

\* What a condition pulls where it is displaced by x: Condition, of its numbers.
Pull(c, d, s, t, half, x) ==
    IF Abs(x) <= half THEN 0
    ELSE IF x > 0 THEN Clamp((c * (x - half)) \div DIMax, -s, s)
    ELSE Clamp((d * (x + half)) \div DIMax, -t, t)

\* A distance is the same both ways.
LEMMA Distance ==
    ASSUME NEW x \in Int, NEW y \in Int
    PROVE  Abs(x - y) \in Nat /\ Abs(x - y) = Abs(y - x) /\ x - y <= Abs(x - y)
BY DEF Abs

\* A floor is less than one away.
LEMMA Floor ==
    ASSUME NEW a \in Int, NEW b \in Nat \ {0}
    PROVE  /\ a \div b \in Int
           /\ b * (a \div b) <= a /\ a < b * (a \div b) + b
OBVIOUS

\* Two floors are no further apart than what they are floors of, and one.
LEMMA Floors ==
    ASSUME NEW a \in Int, NEW b \in Int, NEW n \in Nat \ {0}
    PROVE  n * (a \div n - b \div n) < (a - b) + n
<1>1. PICK p \in Int : p = a \div n /\ n * p <= a /\ a < n * p + n  BY Floor
<1>2. PICK q \in Int : q = b \div n /\ n * q <= b /\ b < n * q + n  BY Floor
<1>3. n * (p - q) = n * p - n * q  OBVIOUS
<1>4. QED  BY <1>1, <1>2, <1>3

\* Saturation brings two forces of one side no further apart.
LEMMA Saturated ==
    ASSUME NEW u \in Int, NEW v \in Int, NEW s \in Nat
    PROVE  /\ Clamp(u, -s, s) \in Int /\ Clamp(v, -s, s) \in Int
           /\ Clamp(u, -s, s) - Clamp(v, -s, s) <= IF u > v THEN u - v ELSE 0
           /\ Clamp(u, -s, s) <= IF u > 0 THEN u ELSE 0
           /\ -Clamp(u, -s, s) <= IF u > 0 THEN 0 ELSE -u
BY DEF Clamp

\* A coefficient takes its share of a distance, on both sides of zero.
LEMMA Share ==
    ASSUME NEW k \in Nat, NEW c \in -k .. k, NEW x \in Int
    PROVE  /\ c * x \in Int /\ k * Abs(x) \in Nat
           /\ c * x <= k * Abs(x) /\ -(c * x) <= k * Abs(x)
<1>1. CASE x >= 0
  <2>1. PICK a \in Nat : a = x /\ Abs(x) = a  BY <1>1 DEF Abs
  <2>2. c * a <= k * a /\ (-k) * a <= c * a  BY Order
  <2>3. (-k) * a = -(k * a) /\ k * a \in Nat /\ c * a \in Int  OBVIOUS
  <2>4. QED  BY <2>1, <2>2, <2>3
<1>2. CASE x < 0
  <2>1. PICK a \in Nat : x = -a /\ Abs(x) = a  BY <1>2 DEF Abs
  <2>2. c * a <= k * a /\ (-k) * a <= c * a  BY Order
  <2>3. (-k) * a = -(k * a) /\ k * a \in Nat /\ c * (-a) = -(c * a) /\ c * a \in Int  OBVIOUS
  <2>4. QED  BY <2>1, <2>2, <2>3
<1>3. QED  BY <1>1, <1>2

\* On one side of the deadband.
LEMMA OneSide ==
    ASSUME NEW k \in Nat, NEW c \in -k .. k, NEW s \in Nat, NEW x \in Int, NEW y \in Int,
           NEW n \in Nat \ {0}
    PROVE  n * (Clamp((c * x) \div n, -s, s) - Clamp((c * y) \div n, -s, s))
              <= k * Abs(x - y) + n
<1>1. PICK a \in Int : a = c * x  OBVIOUS
<1>2. PICK b \in Int : b = c * y  OBVIOUS
<1>3. PICK u \in Int : u = a \div n  BY Floor
<1>4. PICK v \in Int : v = b \div n  BY Floor
<1>5. a - b <= k * Abs(x - y) /\ k * Abs(x - y) \in Nat
  <2>1. PICK d \in Int : d = x - y  OBVIOUS
  <2>2. c * (x - y) = c * x - c * y  OBVIOUS
  <2>3. c * d <= k * Abs(d) /\ k * Abs(d) \in Nat  BY Share, Zenon
  <2>4. QED  BY <1>1, <1>2, <2>1, <2>2, <2>3
<1>6. n * (u - v) <= (a - b) + n  BY <1>3, <1>4, Floors
<1>7. PICK e \in Int : /\ e = Clamp(u, -s, s) - Clamp(v, -s, s)
                       /\ e <= IF u > v THEN u - v ELSE 0
  <2>1. /\ Clamp(u, -s, s) \in Int /\ Clamp(v, -s, s) \in Int
        /\ Clamp(u, -s, s) - Clamp(v, -s, s) <= IF u > v THEN u - v ELSE 0
    BY Saturated, Zenon
  <2>2. QED  BY <2>1
<1>8. CASE u > v
  <2>0. e <= u - v /\ u - v \in Int  BY <1>7, <1>8
  <2>1. e * n <= (u - v) * n  BY <2>0, Order
  <2>2. e * n = n * e /\ (u - v) * n = n * (u - v)  OBVIOUS
  <2>3. QED  BY <1>1, <1>2, <1>3, <1>4, <1>5, <1>6, <1>7, <2>1, <2>2
<1>9. CASE u <= v
  <2>1. e * n <= 0 * n  BY <1>7, <1>9, Order
  <2>2. e * n = n * e  OBVIOUS
  <2>3. QED  BY <1>1, <1>2, <1>3, <1>4, <1>5, <1>7, <2>1, <2>2
<1>10. QED  BY <1>8, <1>9

\* The two sides of the deadband.
LEMMA TwoSides ==
    ASSUME NEW k \in Nat, NEW c \in -k .. k, NEW d \in -k .. k, NEW s \in Nat, NEW t \in Nat,
           NEW x \in Int, NEW y \in Int, NEW n \in Nat \ {0}
    PROVE  n * (Clamp((c * x) \div n, -s, s) - Clamp((d * y) \div n, -t, t))
              <= k * Abs(x) + k * Abs(y) + n
<1>1. PICK a \in Int : a = c * x /\ a <= k * Abs(x)  BY Share
<1>2. PICK b \in Int : b = d * y /\ -b <= k * Abs(y)  BY Share
<1>3. PICK u \in Int : u = a \div n /\ n * u <= a  BY Floor
<1>4. PICK v \in Int : v = b \div n /\ b < n * v + n  BY Floor
<1>5. PICK e \in Int : e = Clamp(u, -s, s) /\ e <= IF u > 0 THEN u ELSE 0
  <2>1. Clamp(u, -s, s) \in Int /\ Clamp(u, -s, s) <= IF u > 0 THEN u ELSE 0
    BY Saturated, Zenon
  <2>2. QED  BY <2>1
<1>6. PICK f \in Int : f = Clamp(v, -t, t) /\ -f <= IF v > 0 THEN 0 ELSE -v
  <2>1. Clamp(v, -t, t) \in Int /\ -Clamp(v, -t, t) <= IF v > 0 THEN 0 ELSE -v
    BY Saturated, Zenon
  <2>2. QED  BY <2>1
<1>7. k * Abs(x) \in Nat /\ k * Abs(y) \in Nat  BY Share
<1>8. n * e <= k * Abs(x)
  <2>1. CASE u > 0
    <3>1. e * n <= u * n  BY <2>1, <1>5, Order
    <3>2. e * n = n * e /\ u * n = n * u  OBVIOUS
    <3>3. QED  BY <3>1, <3>2, <1>1, <1>3, <1>7
  <2>2. CASE u <= 0
    <3>1. e * n <= 0 * n  BY <2>2, <1>5, Order
    <3>2. e * n = n * e  OBVIOUS
    <3>3. QED  BY <3>1, <3>2, <1>7
  <2>3. QED  BY <2>1, <2>2
<1>9. -(n * f) <= k * Abs(y) + n
  <2>1. CASE v > 0
    <3>1. (-f) * n <= 0 * n  BY <2>1, <1>6, Order
    <3>2. (-f) * n = -(n * f)  OBVIOUS
    <3>3. QED  BY <3>1, <3>2, <1>7
  <2>2. CASE v <= 0
    <3>1. (-f) * n <= (-v) * n  BY <2>2, <1>6, Order
    <3>2. (-f) * n = -(n * f) /\ (-v) * n = -(n * v)  OBVIOUS
    <3>3. QED  BY <3>1, <3>2, <1>2, <1>4, <1>7
  <2>3. QED  BY <2>1, <2>2
<1>10. n * (e - f) = n * e - n * f  OBVIOUS
<1>11. QED  BY <1>1, <1>2, <1>3, <1>4, <1>5, <1>6, <1>7, <1>8, <1>9, <1>10

\* A condition is continuous but for the rounding: one direction of the change.
LEMMA PullRises ==
    ASSUME DIMax \in Nat \ {0}, NEW k \in Nat, NEW c \in -k .. k, NEW d \in -k .. k,
           NEW s \in Nat, NEW t \in Nat, NEW half \in Nat, NEW x \in Int, NEW y \in Int
    PROVE  DIMax * (Pull(c, d, s, t, half, x) - Pull(c, d, s, t, half, y))
              <= k * Abs(x - y) + DIMax
<1> DEFINE Out(z) == IF Abs(z) <= half THEN 0 ELSE IF z > 0 THEN z - half ELSE z + half
           C(z) == Clamp((c * z) \div DIMax, -s, s)
           D(z) == Clamp((d * z) \div DIMax, -t, t)
<1>1. /\ Out(x) \in Int /\ Out(y) \in Int
      /\ Abs(Out(x) - Out(y)) <= Abs(x - y)
      /\ (x >= 0 /\ y <= 0) \/ (x <= 0 /\ y >= 0) => Abs(Out(x)) + Abs(Out(y)) <= Abs(x - y)
  BY DEF Abs
<1>2. C(0) = 0 /\ D(0) = 0
  <2>1. c * 0 = 0 /\ d * 0 = 0 /\ 0 \div DIMax = 0  OBVIOUS
  <2>2. QED  BY <2>1 DEF Clamp
<1>3. ASSUME NEW z \in Int
      PROVE  Pull(c, d, s, t, half, z) = IF z >= 0 THEN C(Out(z)) ELSE D(Out(z))
  <2>1. CASE Abs(z) <= half
    <3>1. Out(z) = 0  BY <2>1
    <3>2. Pull(c, d, s, t, half, z) = 0  BY <2>1, Zenon DEF Pull
    <3> HIDE DEF Out, C, D
    <3>3. QED  BY <3>1, <3>2, <1>2
  <2>2. CASE ~(Abs(z) <= half) /\ z > 0
    <3>1. Out(z) = z - half  BY <2>2
    <3>2. Pull(c, d, s, t, half, z) = C(z - half)  BY <2>2, Zenon DEF Pull
    <3> HIDE DEF Out, C, D
    <3>3. QED  BY <3>1, <3>2, <2>2
  <2>3. CASE ~(Abs(z) <= half) /\ ~(z > 0)
    <3>1. Out(z) = z + half /\ z < 0  BY <2>3 DEF Abs
    <3>2. Pull(c, d, s, t, half, z) = D(z + half)  BY <2>3, Zenon DEF Pull
    <3> HIDE DEF Out, C, D
    <3>3. QED  BY <3>1, <3>2
  <2>4. QED  BY <2>1, <2>2, <2>3
<1>4. ASSUME NEW a \in Nat, NEW b \in Nat, a <= b
      PROVE  k * a <= k * b /\ k * a \in Nat /\ k * b \in Nat
  <2>1. a * k <= b * k  BY <1>4, Order
  <2>2. a * k = k * a /\ b * k = k * b /\ k * a \in Nat /\ k * b \in Nat  OBVIOUS
  <2>3. QED  BY <2>1, <2>2
<1>5. /\ DIMax * (C(Out(x)) - C(Out(y))) <= k * Abs(Out(x) - Out(y)) + DIMax
      /\ DIMax * (D(Out(x)) - D(Out(y))) <= k * Abs(Out(x) - Out(y)) + DIMax
  <2> HIDE DEF Out
  <2>1. QED  BY <1>1, OneSide, Zenon
<1>6. /\ DIMax * (C(Out(x)) - D(Out(y))) <= k * Abs(Out(x)) + k * Abs(Out(y)) + DIMax
      /\ DIMax * (D(Out(x)) - C(Out(y))) <= k * Abs(Out(x)) + k * Abs(Out(y)) + DIMax
  <2> HIDE DEF Out
  <2>1. QED  BY <1>1, TwoSides, Zenon
<1>7. /\ Abs(x - y) \in Nat /\ Abs(Out(x)) \in Nat /\ Abs(Out(y)) \in Nat
      /\ Abs(Out(x) - Out(y)) \in Nat
  <2> HIDE DEF Out
  <2>1. QED  BY <1>1 DEF Abs
<1>8. k * Abs(Out(x) - Out(y)) <= k * Abs(x - y)
  <2> HIDE DEF Out
  <2>1. QED  BY <1>1, <1>4, <1>7, Zenon
<1>9. (x >= 0 /\ y <= 0) \/ (x <= 0 /\ y >= 0) =>
          k * Abs(Out(x)) + k * Abs(Out(y)) <= k * Abs(x - y)
  <2> HIDE DEF Out
  <2>1. SUFFICES ASSUME (x >= 0 /\ y <= 0) \/ (x <= 0 /\ y >= 0)
                 PROVE  k * Abs(Out(x)) + k * Abs(Out(y)) <= k * Abs(x - y)
    OBVIOUS
  <2>2. PICK a \in Nat : a = Abs(Out(x))  BY <1>7
  <2>3. PICK b \in Nat : b = Abs(Out(y))  BY <1>7
  <2>4. PICK w \in Nat : w = Abs(x - y)  BY <1>7
  <2>5. a + b <= w  BY <1>1, <2>1, <2>2, <2>3, <2>4
  <2>6. k * (a + b) <= k * w  BY <1>4, <2>5
  <2>7. k * (a + b) = k * a + k * b  OBVIOUS
  <2>8. QED  BY <2>2, <2>3, <2>4, <2>6, <2>7
<1>10. /\ k * Abs(x - y) \in Int /\ k * Abs(Out(x) - Out(y)) \in Int
       /\ k * Abs(Out(x)) \in Int /\ k * Abs(Out(y)) \in Int
  <2> HIDE DEF Out
  <2>1. QED  BY <1>7
<1>11. /\ C(Out(x)) \in Int /\ C(Out(y)) \in Int /\ D(Out(x)) \in Int /\ D(Out(y)) \in Int
  <2> HIDE DEF Out
  <2>1. ASSUME NEW z \in Int PROVE C(z) \in Int /\ D(z) \in Int
    <3>1. c * z \in Int /\ d * z \in Int  OBVIOUS
    <3>2. PICK u \in Int : u = (c * z) \div DIMax  BY <3>1, Floor
    <3>3. PICK v \in Int : v = (d * z) \div DIMax  BY <3>1, Floor
    <3>4. Clamp(u, -s, s) \in Int /\ Clamp(v, -t, t) \in Int  BY DEF Clamp
    <3>5. QED  BY <3>2, <3>3, <3>4
  <2>2. QED  BY <1>1, <2>1
<1>12. Pull(c, d, s, t, half, x) = IF x >= 0 THEN C(Out(x)) ELSE D(Out(x))  BY <1>3
<1>13. Pull(c, d, s, t, half, y) = IF y >= 0 THEN C(Out(y)) ELSE D(Out(y))  BY <1>3
<1> HIDE DEF Out, C, D
<1>14. CASE x >= 0 /\ y >= 0
  <2>1. Pull(c, d, s, t, half, x) = C(Out(x)) /\ Pull(c, d, s, t, half, y) = C(Out(y))
    BY <1>12, <1>13, <1>14, Zenon
  <2>2. DIMax * (C(Out(x)) - C(Out(y))) <= k * Abs(x - y) + DIMax
    BY <1>5, <1>8, <1>10, <1>11
  <2>3. QED  BY <2>1, <2>2, Zenon
<1>15. CASE x < 0 /\ y < 0
  <2>1. Pull(c, d, s, t, half, x) = D(Out(x)) /\ Pull(c, d, s, t, half, y) = D(Out(y))
    BY <1>12, <1>13, <1>15
  <2>2. DIMax * (D(Out(x)) - D(Out(y))) <= k * Abs(x - y) + DIMax
    BY <1>5, <1>8, <1>10, <1>11
  <2>3. QED  BY <2>1, <2>2, Zenon
<1>16. CASE x >= 0 /\ y < 0
  <2>1. Pull(c, d, s, t, half, x) = C(Out(x)) /\ Pull(c, d, s, t, half, y) = D(Out(y))
    BY <1>12, <1>13, <1>16
  <2>2. DIMax * (C(Out(x)) - D(Out(y))) <= k * Abs(x - y) + DIMax
    <3>1. k * Abs(Out(x)) + k * Abs(Out(y)) <= k * Abs(x - y)  BY <1>9, <1>16
    <3>2. PICK left \in Int : left = DIMax * (C(Out(x)) - D(Out(y)))  BY <1>11
    <3>3. left <= k * Abs(Out(x)) + k * Abs(Out(y)) + DIMax  BY <1>6, <3>2, Zenon
    <3>4. left <= k * Abs(x - y) + DIMax  BY <3>1, <3>3, <1>10
    <3>5. QED  BY <3>2, <3>4, Zenon
  <2>3. QED  BY <2>1, <2>2, Zenon
<1>17. CASE x < 0 /\ y >= 0
  <2>1. Pull(c, d, s, t, half, x) = D(Out(x)) /\ Pull(c, d, s, t, half, y) = C(Out(y))
    BY <1>12, <1>13, <1>17
  <2>2. DIMax * (D(Out(x)) - C(Out(y))) <= k * Abs(x - y) + DIMax
    <3>1. k * Abs(Out(x)) + k * Abs(Out(y)) <= k * Abs(x - y)  BY <1>9, <1>17
    <3>2. PICK left \in Int : left = DIMax * (D(Out(x)) - C(Out(y)))  BY <1>11
    <3>3. left <= k * Abs(Out(x)) + k * Abs(Out(y)) + DIMax  BY <1>6, <3>2, Zenon
    <3>4. left <= k * Abs(x - y) + DIMax  BY <3>1, <3>3, <1>10
    <3>5. QED  BY <3>2, <3>4, Zenon
  <2>3. QED  BY <2>1, <2>2, Zenon
<1>18. QED  BY <1>14, <1>15, <1>16, <1>17

\* It is a number.
LEMMA PullIsNumber ==
    ASSUME DIMax \in Nat \ {0}, NEW c \in Int, NEW d \in Int,
           NEW s \in Nat, NEW t \in Nat, NEW half \in Nat, NEW z \in Int
    PROVE  Pull(c, d, s, t, half, z) \in Int
<1>1. PICK u \in Int : u = (c * (z - half)) \div DIMax  BY Floor
<1>2. PICK v \in Int : v = (d * (z + half)) \div DIMax  BY Floor
<1>3. Clamp(u, -s, s) \in Int /\ Clamp(v, -t, t) \in Int  BY DEF Clamp
<1>4. QED  BY <1>1, <1>2, <1>3 DEF Pull

\* And so both.
LEMMA PullMoves ==
    ASSUME DIMax \in Nat \ {0}, NEW k \in Nat, NEW c \in -k .. k, NEW d \in -k .. k,
           NEW s \in Nat, NEW t \in Nat, NEW half \in Nat, NEW x \in Int, NEW y \in Int
    PROVE  Abs(Pull(c, d, s, t, half, x) - Pull(c, d, s, t, half, y))
              <= (k * Abs(x - y)) \div DIMax + 1
<1>1. PICK w \in Nat : w = Abs(x - y) /\ w = Abs(y - x)  BY Distance, Zenon
<1>2. c \in Int /\ d \in Int  OBVIOUS
<1>3. PICK f \in Int : f = Pull(c, d, s, t, half, x)  BY <1>2, PullIsNumber, Zenon
<1>4. PICK g \in Int : g = Pull(c, d, s, t, half, y)  BY <1>2, PullIsNumber, Zenon
<1>5. DIMax * (f - g) <= k * w + DIMax  BY <1>1, <1>3, <1>4, PullRises, Zenon
<1>6. DIMax * (g - f) <= k * w + DIMax  BY <1>1, <1>3, <1>4, PullRises, Zenon
<1>7. PICK a \in Nat : a = k * w  OBVIOUS
<1>8. PICK q \in Int : q = a \div DIMax /\ a < DIMax * q + DIMax  BY Floor
<1>9. ASSUME NEW e \in Int, DIMax * e <= a + DIMax PROVE e <= q + 1
  <2>1. SUFFICES ASSUME e >= q + 2 PROVE FALSE
    OBVIOUS
  <2>2. (q + 2) * DIMax <= e * DIMax  BY <2>1, Order
  <2>3. (q + 2) * DIMax = DIMax * q + 2 * DIMax /\ e * DIMax = DIMax * e  OBVIOUS
  <2>4. QED  BY <1>8, <1>9, <2>2, <2>3
<1>10. f - g <= q + 1 /\ g - f <= q + 1  BY <1>5, <1>6, <1>7, <1>9
<1>11. Abs(f - g) <= q + 1  BY <1>10 DEF Abs
<1>12. QED  BY <1>1, <1>3, <1>4, <1>7, <1>8, <1>11, Zenon

\* The gain and the direction of an effect and the last clamp only bring forces together.
LEMMA ForceRises ==
    ASSUME DIMax \in Nat \ {0}, NEW l \in Int, NEW m \in Int, NEW g \in 0 .. DIMax,
           NEW d \in {-1, 1}
    PROVE  /\ Signed((l * g * d) \div DIMax) \in Int
           /\ Signed((l * g * d) \div DIMax) - Signed((m * g * d) \div DIMax) <= Abs(l - m)
<1>1. PICK h \in -DIMax .. DIMax : /\ l * g * d = h * l /\ m * g * d = h * m
  <2>1. CASE d = 1
    <3>1. l * g * 1 = g * l /\ m * g * 1 = g * m  OBVIOUS
    <3>2. QED  BY <2>1, <3>1
  <2>2. CASE d = -1
    <3>1. l * g * (-1) = (-g) * l /\ m * g * (-1) = (-g) * m /\ -g \in -DIMax .. DIMax
      OBVIOUS
    <3>2. QED  BY <2>2, <3>1
  <2>3. QED  BY <2>1, <2>2
<1>2. PICK a \in Int : a = h * l  OBVIOUS
<1>3. PICK b \in Int : b = h * m  OBVIOUS
<1>4. PICK u \in Int : u = a \div DIMax  BY Floor
<1>5. PICK v \in Int : v = b \div DIMax  BY Floor
<1>6. DIMax * (u - v) < (a - b) + DIMax  BY <1>4, <1>5, Floors
<1>7. PICK w \in Nat : w = Abs(l - m)  BY Distance, Zenon
<1>8. a - b <= DIMax * w
  <2>1. PICK e \in Int : e = l - m  OBVIOUS
  <2>2. h * (l - m) = h * l - h * m  OBVIOUS
  <2>3. h * e <= DIMax * Abs(e)  BY Share, Zenon
  <2>4. QED  BY <1>2, <1>3, <1>7, <2>1, <2>2, <2>3
<1>9. u - v <= w
  <2>1. SUFFICES ASSUME u - v >= w + 1 PROVE FALSE
    OBVIOUS
  <2>2. (w + 1) * DIMax <= (u - v) * DIMax  BY <2>1, Order
  <2>3. (w + 1) * DIMax = DIMax * w + DIMax /\ (u - v) * DIMax = DIMax * (u - v)  OBVIOUS
  <2>4. QED  BY <1>6, <1>8, <2>2, <2>3
<1>10. /\ Signed(u) \in Int /\ Signed(v) \in Int
       /\ Signed(u) - Signed(v) <= IF u > v THEN u - v ELSE 0
  BY Saturated DEF Signed, Clamp
<1>11. l * g * d = a /\ m * g * d = b  BY <1>1, <1>2, <1>3
<1>12. Signed(u) - Signed(v) <= w  BY <1>9, <1>10
<1>13. QED  BY <1>4, <1>5, <1>7, <1>10, <1>11, <1>12, Zenon

\* In both directions.
LEMMA ForceMoves ==
    ASSUME DIMax \in Nat \ {0}, NEW l \in Int, NEW m \in Int, NEW g \in 0 .. DIMax,
           NEW d \in {-1, 1}
    PROVE  Abs(Signed((l * g * d) \div DIMax) - Signed((m * g * d) \div DIMax)) <= Abs(l - m)
<1>1. PICK f \in Int : f = Signed((l * g * d) \div DIMax)  BY ForceRises, Zenon
<1>2. PICK h \in Int : h = Signed((m * g * d) \div DIMax)  BY ForceRises, Zenon
<1>3. f - h <= Abs(l - m) /\ h - f <= Abs(m - l)  BY <1>1, <1>2, ForceRises, Zenon
<1>4. Abs(f - h) <= Abs(l - m)  BY <1>3 DEF Abs
<1>5. QED  BY <1>1, <1>2, <1>4, Zenon

\* What is left of a message's numbers.
Scaled(e) ==
    /\ e.gain \in 0 .. DIMax /\ e.direction \in {-1, 1}
    /\ e.positiveCoefficient \in -DIMax .. DIMax /\ e.negativeCoefficient \in -DIMax .. DIMax
    /\ e.positiveSaturation \in 0 .. DIMax /\ e.negativeSaturation \in 0 .. DIMax
    /\ e.deadband \in 0 .. 2 * DIMax /\ e.conditionOffset \in -DIMax .. DIMax

\* from_message leaves nothing out of range.
LEMMA MessageScaled ==
    ASSUME NEW m \in Messages
    PROVE  Scaled(FromMessage(m))
<1>1. DIMax \in Nat \ {0} /\ m \in Message  BY ScaleAssumption, MessageAssumption
<1>2. /\ m.gain \in Int /\ m.direction \in Int
      /\ m.positiveCoefficient \in Int /\ m.negativeCoefficient \in Int
      /\ m.positiveSaturation \in Int /\ m.negativeSaturation \in Int
      /\ m.deadband \in Int /\ m.conditionOffset \in Int
  BY <1>1 DEF Message
<1> DEFINE e == FromMessage(m)
<1>3. /\ e.gain = Unsigned(m.gain) /\ e.direction = IF m.direction < 0 THEN -1 ELSE 1
      /\ e.positiveCoefficient = Signed(m.positiveCoefficient)
      /\ e.negativeCoefficient = Signed(m.negativeCoefficient)
      /\ e.positiveSaturation = Unsigned(m.positiveSaturation)
      /\ e.negativeSaturation = Unsigned(m.negativeSaturation)
      /\ e.deadband = Clamp(m.deadband, 0, 2 * DIMax)
      /\ e.conditionOffset = Signed(m.conditionOffset)
  BY <1>1 DEF FromMessage, Message
<1> HIDE DEF e
<1>4. Scaled(e)  BY <1>1, <1>2, <1>3 DEF Scaled, Signed, Unsigned, Clamp
<1>5. QED  BY <1>4 DEF e

\* What conditions go by is a number.
LEMMA MetricIsNumber ==
    ASSUME NEW kind \in {"spring", "damper", "inertia"}, NEW k \in Kinematics
    PROVE  Metric(kind, k) \in Int
<1>1. DIMax \in Nat \ {0} /\ Steps \in Nat \ {0}  BY ScaleAssumption
<1>2. k.position \in Int /\ k.velocity \in Int /\ k.acceleration \in Int
  BY <1>1 DEF Kinematics, Places
<1>3. PICK p \in Int : p = (k.position * DIMax) \div Steps  BY <1>1, <1>2, Floor
<1>4. PICK n \in Int : n = DIMax \div 1000  BY <1>1
<1>5. PICK v \in Int : v = (k.velocity * n) \div 2  BY <1>2
<1>6. PICK a \in Int : a = (k.acceleration * 2 * n) \div 25  BY <1>2
<1>7. Signed(v) \in Int /\ Signed(a) \in Int  BY <1>1 DEF Signed, Clamp
<1>8. CASE kind = "spring"   BY <1>3, <1>8 DEF Metric
<1>9. CASE kind = "damper"   BY <1>4, <1>5, <1>7, <1>9 DEF Metric
<1>10. CASE kind = "inertia"  BY <1>4, <1>6, <1>7, <1>10 DEF Metric
<1>11. QED  BY <1>8, <1>9, <1>10

\* A condition on the numbers it is made of.
LEMMA ConditionPulls ==
    ASSUME NEW e, e.kind # "friction", NEW k
    PROVE  Condition(e, k)
             = Pull(e.positiveCoefficient, e.negativeCoefficient, e.positiveSaturation,
                    e.negativeSaturation, e.deadband \div 2,
                    Metric(e.kind, k) - e.conditionOffset)
BY Zenon DEF Condition, Pull

\* The force of a condition follows what it goes by.
LEMMA ConditionFollows ==
    ASSUME NEW e, Scaled(e), e.kind \in {"spring", "damper", "inertia"},
           NEW k \in Kinematics, NEW j \in Kinematics, NEW t
    PROVE  Abs(RenderEffect(e, t, j) - RenderEffect(e, t, k))
              <= (Steepest(e) * Abs(Metric(e.kind, j) - Metric(e.kind, k))) \div DIMax + 1
<1>1. DIMax \in Nat \ {0}  BY ScaleAssumption
<1>2. /\ Steepest(e) \in Nat
      /\ e.positiveCoefficient \in -Steepest(e) .. Steepest(e)
      /\ e.negativeCoefficient \in -Steepest(e) .. Steepest(e)
  BY <1>1 DEF Scaled, Steepest, Abs
<1>3. /\ e.positiveSaturation \in Nat /\ e.negativeSaturation \in Nat
      /\ e.deadband \div 2 \in Nat /\ e.conditionOffset \in Int
      /\ e.gain \in 0 .. DIMax /\ e.direction \in {-1, 1}
  BY <1>1 DEF Scaled
<1>4. PICK x \in Int : x = Metric(e.kind, j)  BY MetricIsNumber
<1>5. PICK y \in Int : y = Metric(e.kind, k)  BY MetricIsNumber
<1> DEFINE L(z) == Pull(e.positiveCoefficient, e.negativeCoefficient, e.positiveSaturation,
                        e.negativeSaturation, e.deadband \div 2, z - e.conditionOffset)
<1>6. L(x) \in Int /\ L(y) \in Int
  <2>1. ASSUME NEW z \in Int PROVE L(z) \in Int
    <3>1. PICK p \in Int : p = z - e.conditionOffset  BY <1>3
    <3>2. e.positiveCoefficient \in Int /\ e.negativeCoefficient \in Int  BY <1>2
    <3>3. QED  BY <1>1, <1>3, <3>1, <3>2, PullIsNumber, Zenon
  <2>2. QED  BY <2>1
<1>7. Abs(L(x) - L(y)) <= (Steepest(e) * Abs(x - y)) \div DIMax + 1
  <2>1. PICK p \in Int : p = x - e.conditionOffset  BY <1>3
  <2>2. PICK q \in Int : q = y - e.conditionOffset  BY <1>3
  <2>3. p - q = x - y  BY <2>1, <2>2, <1>3
  <2>4. Abs(L(x) - L(y)) <= (Steepest(e) * Abs(p - q)) \div DIMax + 1
    BY <1>1, <1>2, <1>3, <2>1, <2>2, PullMoves, Zenon
  <2>5. QED  BY <2>3, <2>4
<1>8. Level(e, t, j) = L(x) /\ Level(e, t, k) = L(y)
  <2>1. Condition(e, j) = L(x) /\ Condition(e, k) = L(y)
    BY <1>4, <1>5, ConditionPulls, Zenon
  <2>2. Level(e, t, j) = Condition(e, j) /\ Level(e, t, k) = Condition(e, k)
    BY DEF Level, Conditions, Waves
  <2>3. QED  BY <2>1, <2>2
<1> HIDE DEF L
<1>9. Abs(RenderEffect(e, t, j) - RenderEffect(e, t, k)) <= Abs(L(x) - L(y))
  BY <1>1, <1>3, <1>6, <1>8, ForceMoves, Zenon DEF RenderEffect
<1>10. PICK f \in Int : f = RenderEffect(e, t, j)
  BY <1>1, <1>3, <1>6, <1>8, ForceRises, Zenon DEF RenderEffect
<1>11. PICK g \in Int : g = RenderEffect(e, t, k)
  BY <1>1, <1>3, <1>6, <1>8, ForceRises, Zenon DEF RenderEffect
<1>12. PICK b \in Int : b = (Steepest(e) * Abs(x - y)) \div DIMax
  <2>1. PICK w \in Nat : w = Abs(x - y)  BY Distance, Zenon
  <2>2. Steepest(e) * w \in Int  BY <1>2
  <2>3. QED  BY <1>1, <2>1, <2>2, Floor
<1>13. Abs(f - g) <= b + 1
  <2>1. PICK w \in Nat : w = Abs(L(x) - L(y))  BY <1>6, Distance, Zenon
  <2>2. PICK h \in Nat : h = Abs(f - g)  BY Distance, Zenon
  <2>3. w <= b + 1  BY <1>7, <1>12, <2>1
  <2>4. h <= w  BY <1>9, <1>10, <1>11, <2>1, <2>2
  <2>5. QED  BY <2>2, <2>3, <2>4
<1>14. QED  BY <1>4, <1>5, <1>10, <1>11, <1>12, <1>13, Zenon

\* The effect that plays is one from_message made.
LEMMA EffectScaled == Spec => []Scaled(effect)
<1>1. Init => Scaled(effect)  BY MessageScaled DEF Init
<1>2. Scaled(effect) /\ [Next]_vars => Scaled(effect)'
  BY DEF Next, Report, Pass, Tick, vars
<1>3. QED  BY <1>1, <1>2, PTL DEF Spec

\* ffb_engine.py:411-440 (_condition): whatever a game's condition asks for, from one pass to the next
\* its force changes no more than its coefficient times the change of what it goes by.
THEOREM NoJump == Spec => ConditionsNeverJump
<1>1. ASSUME IInv, IInv', Scaled(effect), [Next]_vars
      PROVE  effect.kind \in Conditions \ {"friction"} =>
               Abs(RenderEffect(effect, inCycle, kin') - RenderEffect(effect, inCycle, kin))
                  <= (Steepest(effect) * Abs(Metric(effect.kind, kin') - Metric(effect.kind, kin)))
                        \div DIMax + 1
  <2>1. kin \in Kinematics /\ kin' \in Kinematics  BY <1>1 DEF IInv, Bounded, Kinematics, Places
  <2>2. SUFFICES ASSUME effect.kind \in Conditions \ {"friction"}
                 PROVE  Abs(RenderEffect(effect, inCycle, kin') - RenderEffect(effect, inCycle, kin))
                  <= (Steepest(effect) * Abs(Metric(effect.kind, kin') - Metric(effect.kind, kin)))
                        \div DIMax + 1
    OBVIOUS
  <2>3. effect.kind \in {"spring", "damper", "inertia"}  BY <2>2 DEF Conditions
  <2>4. QED  BY <1>1, <2>1, <2>3, ConditionFollows, Zenon
<1>2. QED  BY <1>1, Invariance, EffectScaled, PTL DEF Spec, ConditionsNeverJump

-----------------------------------------------------------------------------
(* The envelope. *)

\* What is left of a message's envelope, levels and times.
Shaped(e) ==
    /\ e.kind \in Kinds /\ e.duration \in (Nat \ {0}) \cup {Infinite}
    /\ e.attackLevel \in Nat /\ e.attackTime \in Nat
    /\ e.fadeLevel \in Nat /\ e.fadeTime \in Nat
    /\ e.magnitude \in Int /\ e.rampStart \in Int /\ e.rampEnd \in Int
    /\ e.offset \in Int /\ e.phase \in Int /\ e.period \in Nat \ {0}
    /\ e.samplePeriod \in Nat \ {0} /\ e.samples \in Seq(Int)

\* The position in a cycle is one of the cycle's.
InTime(e, t) == t \in Nat /\ (e.duration # Infinite => t < e.duration)

\* from_message leaves no negative level or time.
LEMMA MessageShaped ==
    ASSUME NEW m \in Messages
    PROVE  Shaped(FromMessage(m))
<1>1. DIMax \in Nat \ {0} /\ m \in Message  BY ScaleAssumption, MessageAssumption
<1>2. /\ m.kind \in Kinds /\ m.duration \in (Nat \ {0}) \cup {Infinite}
      /\ m.attackLevel \in Int /\ m.attackTime \in Int /\ m.fadeLevel \in Int /\ m.fadeTime \in Int
      /\ m.magnitude \in Int /\ m.rampStart \in Int /\ m.rampEnd \in Int
      /\ m.offset \in Int /\ m.phase \in Int /\ m.period \in Int
      /\ m.samplePeriod \in Int /\ m.samples \in Seq(Int)
  BY <1>1 DEF Message
<1> DEFINE e == FromMessage(m)
<1>3. /\ e.kind = m.kind /\ e.duration = m.duration
      /\ e.attackLevel = Unsigned(m.attackLevel) /\ e.attackTime = AtLeast(m.attackTime, 0)
      /\ e.fadeLevel = Unsigned(m.fadeLevel) /\ e.fadeTime = AtLeast(m.fadeTime, 0)
  BY <1>1 DEF FromMessage, Message
<1>4. /\ e.magnitude = Signed(m.magnitude) /\ e.rampStart = Signed(m.rampStart)
      /\ e.rampEnd = Signed(m.rampEnd) /\ e.offset = Signed(m.offset)
      /\ e.period = AtLeast(m.period, 1) /\ e.samplePeriod = AtLeast(m.samplePeriod, 1)
  BY <1>1 DEF FromMessage, Message
<1>5. e.samples = [i \in DOMAIN m.samples |-> Signed(m.samples[i])]
  BY <1>1 DEF FromMessage, Message
<1> HIDE DEF e
<1>6. \A x \in Int : Signed(x) \in Int /\ Unsigned(x) \in Nat
                     /\ AtLeast(x, 0) \in Nat /\ AtLeast(x, 1) \in Nat \ {0}
  BY <1>1 DEF Signed, Unsigned, Clamp, AtLeast
<1>7. e.samples \in Seq(Int)
  <2>1. DOMAIN m.samples = 1 .. Len(m.samples) /\ Len(m.samples) \in Nat
        /\ \A i \in DOMAIN m.samples : m.samples[i] \in Int
    BY <1>2
  <2>2. e.samples \in [1 .. Len(m.samples) -> Int]  BY <1>5, <1>6, <2>1
  <2>3. QED  BY <2>1, <2>2
<1>8. e.phase \in Int
  <2>1. e.phase = m.phase % 36000  BY <1>1 DEF e, FromMessage, Message
  <2>2. m.phase % 36000 \in Int  BY <1>2
  <2>3. QED  BY <2>1, <2>2
<1>9. Shaped(e)
  <2>1. e.kind \in Kinds /\ e.duration \in (Nat \ {0}) \cup {Infinite}  BY <1>2, <1>3, Zenon
  <2>2. /\ e.attackLevel \in Nat /\ e.attackTime \in Nat
        /\ e.fadeLevel \in Nat /\ e.fadeTime \in Nat
    BY <1>2, <1>3, <1>6, Zenon
  <2>3. /\ e.magnitude \in Int /\ e.rampStart \in Int /\ e.rampEnd \in Int /\ e.offset \in Int
        /\ e.phase \in Int /\ e.period \in Nat \ {0} /\ e.samplePeriod \in Nat \ {0}
    <3>1. e.magnitude \in Int  BY <1>2, <1>4, <1>6, Zenon
    <3>2. e.rampStart \in Int  BY <1>2, <1>4, <1>6, Zenon
    <3>3. e.rampEnd \in Int  BY <1>2, <1>4, <1>6, Zenon
    <3>4. e.offset \in Int  BY <1>2, <1>4, <1>6, Zenon
    <3>5. e.phase \in Int  BY <1>8
    <3>6. e.period \in Nat \ {0}  BY <1>2, <1>4, <1>6, Zenon
    <3>7. e.samplePeriod \in Nat \ {0}  BY <1>2, <1>4, <1>6, Zenon
    <3>8. QED  BY <3>1, <3>2, <3>3, <3>4, <3>5, <3>6, <3>7
  <2>4. QED  BY <1>7, <2>1, <2>2, <2>3, Zenon DEF Shaped
<1>10. QED  BY <1>9 DEF e

\* A level on its way from one to another is between them.
LEMMA Between ==
    ASSUME NEW from \in Int, NEW to \in Int, NEW whole \in Nat \ {0}, NEW part \in 0 .. whole
    PROVE  /\ Towards(from, to, part, whole) \in Int
           /\ from <= to => from <= Towards(from, to, part, whole) /\ Towards(from, to, part, whole) <= to
           /\ to <= from => to <= Towards(from, to, part, whole) /\ Towards(from, to, part, whole) <= from
<1>1. PICK d \in Int : d = to - from  OBVIOUS
<1>2. PICK a \in Int : a = d * part  OBVIOUS
<1>3. PICK q \in Int : q = a \div whole /\ whole * q <= a /\ a < whole * q + whole  BY Floor
<1>4. Towards(from, to, part, whole) = from + q  BY <1>1, <1>2, <1>3 DEF Towards
<1>5. whole * d \in Int /\ (d >= 0 => 0 <= a /\ a <= whole * d) /\ (d <= 0 => whole * d <= a /\ a <= 0)
  <2>1. CASE d >= 0
    <3>1. 0 * d <= part * d /\ part * d <= whole * d  BY <2>1, Order
    <3>2. QED  BY <1>2, <2>1, <3>1
  <2>2. CASE d < 0
    <3>1. PICK c \in Nat : c = -d  BY <2>2
    <3>2. 0 * c <= part * c /\ part * c <= whole * c  BY Order
    <3>3. part * c = -(part * d) /\ whole * c = -(whole * d)  BY <3>1
    <3>4. QED  BY <1>2, <2>2, <3>2, <3>3
  <2>3. QED  BY <2>1, <2>2
<1>6. ASSUME d >= 0 PROVE 0 <= q /\ q <= d
  <2>1. ASSUME q < 0 PROVE FALSE
    <3>1. whole * (-(q + 1)) \in Nat /\ whole * (-(q + 1)) = -(whole * q) - whole  BY <2>1
    <3>2. QED  BY <1>3, <1>5, <1>6, <3>1
  <2>2. ASSUME d < q PROVE FALSE
    <3>1. whole * (q - d - 1) \in Nat /\ whole * (q - d - 1) = whole * q - whole * d - whole  BY <2>2
    <3>2. QED  BY <1>3, <1>5, <1>6, <3>1
  <2>3. QED  BY <2>1, <2>2
<1>7. ASSUME d <= 0 PROVE d <= q /\ q <= 0
  <2>1. ASSUME q < d PROVE FALSE
    <3>1. whole * (d - q - 1) \in Nat /\ whole * (d - q - 1) = whole * d - whole * q - whole  BY <2>1
    <3>2. QED  BY <1>3, <1>5, <1>7, <3>1
  <2>2. ASSUME 0 < q PROVE FALSE
    <3>1. q <= whole * q  BY <2>2, Factor
    <3>2. QED  BY <1>3, <1>5, <1>7, <2>2, <3>1
  <2>3. QED  BY <2>1, <2>2
<1>8. QED  BY <1>1, <1>4, <1>6, <1>7

\* The steps of the envelope.
Attacked(e, level, t) ==
    IF t < e.attackTime THEN Towards(e.attackLevel, Abs(level), t, e.attackTime) ELSE Abs(level)

Fading(e, t) == IF e.duration = Infinite THEN 0 ELSE t + e.fadeTime - e.duration

Faded(e, level, t) ==
    IF e.fadeTime > 0 /\ Fading(e, t) > 0
    THEN Towards(Attacked(e, level, t), e.fadeLevel, Fading(e, t), e.fadeTime)
    ELSE Attacked(e, level, t)

\* The envelope keeps the sign of its level.
LEMMA EnvelopeIs ==
    ASSUME NEW e, e.hasEnvelope, NEW level, level # 0, NEW t
    PROVE  Envelope(e, level, t) = IF level < 0 THEN -Faded(e, level, t) ELSE Faded(e, level, t)
BY Zenon DEF Envelope, Attacked, Fading, Faded

\* An attack is between its level and the effect's.
LEMMA AttackedBetween ==
    ASSUME NEW e, Shaped(e), NEW level \in Int, NEW t \in Nat
    PROVE  /\ Attacked(e, level, t) \in Nat /\ Abs(level) \in Nat
           /\ e.attackLevel <= Abs(level) =>
                 e.attackLevel <= Attacked(e, level, t) /\ Attacked(e, level, t) <= Abs(level)
           /\ Abs(level) <= e.attackLevel =>
                 Abs(level) <= Attacked(e, level, t) /\ Attacked(e, level, t) <= e.attackLevel
<1>1. PICK l \in Nat : l = Abs(level)  BY DEF Abs
<1>2. e.attackLevel \in Nat /\ e.attackTime \in Nat  BY DEF Shaped
<1>3. CASE t < e.attackTime
  <2>1. e.attackTime \in Nat \ {0} /\ t \in 0 .. e.attackTime  BY <1>2, <1>3
  <2>2. Attacked(e, level, t) = Towards(e.attackLevel, l, t, e.attackTime)
    BY <1>1, <1>3 DEF Attacked
  <2>3. /\ Towards(e.attackLevel, l, t, e.attackTime) \in Int
        /\ e.attackLevel <= l => /\ e.attackLevel <= Towards(e.attackLevel, l, t, e.attackTime)
                                 /\ Towards(e.attackLevel, l, t, e.attackTime) <= l
        /\ l <= e.attackLevel => /\ l <= Towards(e.attackLevel, l, t, e.attackTime)
                                 /\ Towards(e.attackLevel, l, t, e.attackTime) <= e.attackLevel
    <3>1. e.attackLevel \in Int /\ l \in Int  BY <1>1, <1>2
    <3>2. QED  BY <2>1, <3>1, Between, Zenon
  <2>4. PICK a \in Int : a = Towards(e.attackLevel, l, t, e.attackTime)  BY <2>3
  <2>5. QED  BY <1>1, <1>2, <2>2, <2>3, <2>4
<1>4. CASE ~(t < e.attackTime)
  <2>1. Attacked(e, level, t) = l  BY <1>1, <1>4 DEF Attacked
  <2>2. QED  BY <1>1, <1>2, <2>1
<1>5. QED  BY <1>3, <1>4

\* A fade is between what the attack left and its own level.
LEMMA FadedBetween ==
    ASSUME NEW e, Shaped(e), NEW level \in Int, NEW t, InTime(e, t)
    PROVE  /\ Faded(e, level, t) \in Nat
           /\ Faded(e, level, t) <= Attacked(e, level, t) \/ Faded(e, level, t) <= e.fadeLevel
<1>1. t \in Nat /\ e.fadeLevel \in Nat /\ e.fadeTime \in Nat  BY DEF Shaped, InTime
<1>2. PICK a \in Nat : a = Attacked(e, level, t)  BY <1>1, AttackedBetween
<1>3. CASE e.fadeTime > 0 /\ Fading(e, t) > 0
  <2>1. e.duration # Infinite /\ Fading(e, t) = t + e.fadeTime - e.duration
    BY <1>3 DEF Fading
  <2>2. e.duration \in Nat /\ t < e.duration  BY <2>1 DEF Shaped, InTime
  <2>3. PICK f \in 0 .. e.fadeTime : f = Fading(e, t)  BY <1>1, <1>3, <2>1, <2>2
  <2>4. Faded(e, level, t) = Towards(a, e.fadeLevel, f, e.fadeTime)
    BY <1>2, <1>3, <2>3 DEF Faded
  <2>5. e.fadeTime \in Nat \ {0}  BY <1>1, <1>3
  <2>6. /\ Towards(a, e.fadeLevel, f, e.fadeTime) \in Int
        /\ a <= e.fadeLevel => /\ a <= Towards(a, e.fadeLevel, f, e.fadeTime)
                               /\ Towards(a, e.fadeLevel, f, e.fadeTime) <= e.fadeLevel
        /\ e.fadeLevel <= a => /\ e.fadeLevel <= Towards(a, e.fadeLevel, f, e.fadeTime)
                               /\ Towards(a, e.fadeLevel, f, e.fadeTime) <= a
    <3>1. e.fadeLevel \in Int /\ a \in Int  BY <1>1, <1>2
    <3>2. QED  BY <2>3, <2>5, <3>1, Between, Zenon
  <2>7. PICK x \in Int : x = Towards(a, e.fadeLevel, f, e.fadeTime)  BY <2>6
  <2>8. QED  BY <1>1, <1>2, <2>4, <2>6, <2>7
<1>4. CASE ~(e.fadeTime > 0 /\ Fading(e, t) > 0)
  <2>1. Faded(e, level, t) = a  BY <1>2, <1>4 DEF Faded
  <2>2. QED  BY <1>2, <2>1
<1>5. QED  BY <1>3, <1>4

\* The size of a signed number.
LEMMA Size ==
    ASSUME NEW x \in Nat
    PROVE  Abs(x) = x /\ Abs(-x) = x
BY DEF Abs

\* An envelope is never louder than the loudest of the levels it goes between.
LEMMA EnvelopeSize ==
    ASSUME NEW e, Shaped(e), e.hasEnvelope, NEW level \in Int, NEW t, InTime(e, t)
    PROVE  /\ Envelope(e, level, t) \in Int /\ Abs(level) \in Nat
           /\ level # 0 => Abs(Envelope(e, level, t)) = Faded(e, level, t)
           /\ \E l \in {Abs(level), e.attackLevel, e.fadeLevel} : Abs(Envelope(e, level, t)) <= l
<1>1. Abs(level) \in Nat  BY DEF Abs
<1>2. CASE level = 0
  <2>1. Envelope(e, level, t) = 0  BY <1>2 DEF Envelope
  <2>2. Abs(0) = 0  BY DEF Abs
  <2>3. QED  BY <1>1, <1>2, <2>1, <2>2
<1>3. CASE level # 0
  <2>1. PICK f \in Nat : f = Faded(e, level, t)  BY FadedBetween
  <2>2. Envelope(e, level, t) = IF level < 0 THEN -f ELSE f  BY <1>3, <2>1, EnvelopeIs
  <2>3. Abs(Envelope(e, level, t)) = f /\ Envelope(e, level, t) \in Int  BY <2>2, Size
  <2>4. t \in Nat /\ e.attackLevel \in Nat /\ e.fadeLevel \in Nat  BY DEF InTime, Shaped
  <2>5. PICK a \in Nat : a = Attacked(e, level, t)  BY <2>4, AttackedBetween
  <2>6. a <= Abs(level) \/ a <= e.attackLevel
    BY <1>1, <2>4, <2>5, AttackedBetween
  <2>7. f <= a \/ f <= e.fadeLevel  BY <2>1, <2>5, FadedBetween
  <2>8. \E l \in {Abs(level), e.attackLevel, e.fadeLevel} : f <= l
    BY <1>1, <2>4, <2>6, <2>7
  <2>9. QED  BY <1>1, <2>1, <2>3, <2>8
<1>4. QED  BY <1>2, <1>3

\* A wave is between minus one and one.
LEMMA WaveSize ==
    ASSUME NEW e, Shaped(e), e.kind \in Waves, NEW t \in Nat
    PROVE  Wave(e, t) \in Int /\ -1000 <= Wave(e, t) /\ Wave(e, t) <= 1000
<1>1. PICK p \in Nat : p < 36000 /\ p = ((36000 * t) \div e.period + e.phase) % 36000
  <2>1. PICK q \in Int : q = (36000 * t) \div e.period
    <3>1. 36000 * t \in Int /\ e.period \in Nat \ {0}  BY DEF Shaped
    <3>2. QED  BY <3>1, Floor
  <2>2. PICK r \in Int : r = q + e.phase  BY DEF Shaped
  <2>3. r % 36000 \in Nat /\ r % 36000 < 36000  OBVIOUS
  <2>4. QED  BY <2>1, <2>2, <2>3
<1>0. p < 36000  BY <1>1
<1>2. CASE e.kind = "sine"
  <2>1. PICK i \in 1 .. 12 : i = (p \div 3000) + 1  BY <1>0
  <2>2. Wave(e, t) = SineTable[i]  BY <1>1, <1>2, <2>1 DEF Wave
  <2>3. i \in {1, 2, 3, 4, 5, 6, 7, 8, 9, 10, 11, 12}  BY <2>1
  <2>4. SineTable[i] \in {0, 500, 866, 1000, -500, -866, -1000}  BY <2>3 DEF SineTable
  <2>5. QED  BY <2>2, <2>4
<1>3. CASE e.kind = "square"
  <2>1. Wave(e, t) = IF p < 18000 THEN 1000 ELSE -1000
    <3>1. e.kind # "sine"  BY <1>3
    <3>2. QED  BY <1>1, <1>3, <3>1 DEF Wave
  <2>2. QED  BY <2>1
<1>4. CASE e.kind = "triangle"
  <2>1. Wave(e, t) = 1000 - Abs(p - 18000) \div 9
    <3>1. e.kind # "sine" /\ e.kind # "square"  BY <1>4
    <3>2. QED  BY <1>1, <1>4, <3>1 DEF Wave
  <2>2. PICK h \in Nat : h <= 18000 /\ h = Abs(p - 18000)  BY <1>0 DEF Abs
  <2>3. h \div 9 \in Nat /\ h \div 9 <= 2000  BY <2>2
  <2>4. QED  BY <2>1, <2>2, <2>3
<1>5. CASE e.kind = "sawUp"
  <2>1. Wave(e, t) = p \div 18 - 1000
    <3>1. e.kind # "sine" /\ e.kind # "square" /\ e.kind # "triangle"  BY <1>5
    <3>2. QED  BY <1>1, <1>5, <3>1 DEF Wave
  <2>2. p \div 18 \in Nat /\ p \div 18 <= 2000  BY <1>0
  <2>3. QED  BY <2>1, <2>2
<1>6. CASE e.kind = "sawDown"
  <2>1. Wave(e, t) = 1000 - p \div 18
    <3>1. e.kind # "sine" /\ e.kind # "square" /\ e.kind # "triangle" /\ e.kind # "sawUp"
      BY <1>6
    <3>2. QED  BY <1>1, <1>6, <3>1 DEF Wave
  <2>2. p \div 18 \in Nat /\ p \div 18 <= 2000  BY <1>0
  <2>3. QED  BY <2>1, <2>2
<1>7. QED  BY <1>2, <1>3, <1>4, <1>5, <1>6 DEF Waves

\* A wave takes no more than the whole of its level.
LEMMA Thousandth ==
    ASSUME NEW w \in Int, -1000 <= w, w <= 1000, NEW v \in Int
    PROVE  (w * v) \div 1000 \in Int /\ Abs((w * v) \div 1000) <= Abs(v)
<1>1. PICK n \in Nat : n = Abs(v)  BY DEF Abs
<1>2. PICK a \in Int : a = w * v  OBVIOUS
<1>3. a <= 1000 * n /\ -(1000 * n) <= a
  <2>1. w * n \in Int /\ w * n <= 1000 * n  BY Order
  <2>2. (-1000) * n <= w * n  BY Order
  <2>3. a = w * n \/ a = -(w * n)
    <3>1. v = n \/ v = -n  BY <1>1 DEF Abs
    <3>2. w * (-n) = -(w * n)  OBVIOUS
    <3>3. QED  BY <1>2, <3>1, <3>2
  <2>4. PICK b \in Int : b = w * n  BY <2>1
  <2>5. QED  BY <2>1, <2>2, <2>3, <2>4
<1>4. PICK q \in Int : q = a \div 1000 /\ 1000 * q <= a /\ a < 1000 * q + 1000
  BY <1>2, Floor
<1>5. q <= n /\ -n <= q  BY <1>3, <1>4
<1>6. Abs(q) <= n  BY <1>5 DEF Abs
<1>7. QED  BY <1>1, <1>2, <1>4, <1>6

\* On its way a level is no louder than at one of the ends.
LEMMA TowardsSize ==
    ASSUME NEW from \in Int, NEW to \in Int, NEW whole \in Nat \ {0}, NEW part \in 0 .. whole
    PROVE  /\ Towards(from, to, part, whole) \in Int
           /\ \/ Abs(Towards(from, to, part, whole)) <= Abs(from)
              \/ Abs(Towards(from, to, part, whole)) <= Abs(to)
<1>1. PICK x \in Int : x = Towards(from, to, part, whole)  BY Between
<1>2. (from <= to => from <= x /\ x <= to) /\ (to <= from => to <= x /\ x <= from)
  BY <1>1, Between
<1>3. Abs(x) <= Abs(from) \/ Abs(x) <= Abs(to)  BY <1>2 DEF Abs
<1>4. QED  BY <1>1, <1>3

\* What an effect with an envelope pulls.
LEMMA LevelIs ==
    ASSUME NEW e, NEW t, NEW k
    PROVE  /\ e.kind = "constant" => Level(e, t, k) = Envelope(e, e.magnitude, t)
           /\ e.kind = "ramp" =>
                Level(e, t, k) = Envelope(e, IF e.duration = Infinite THEN e.rampStart
                                             ELSE Towards(e.rampStart, e.rampEnd, t, e.duration), t)
           /\ e.kind \in Waves =>
                Level(e, t, k) = e.offset + (Wave(e, t) * Envelope(e, e.magnitude, t)) \div 1000
           /\ e.kind = "custom" =>
                Level(e, t, k) =
                  IF e.samples = <<>> THEN 0
                  ELSE Envelope(e, e.samples[((t \div e.samplePeriod) % Len(e.samples)) + 1], t)
<1>1. e.kind = "constant" => Level(e, t, k) = Envelope(e, e.magnitude, t)
  <2>1. SUFFICES ASSUME e.kind = "constant" PROVE Level(e, t, k) = Envelope(e, e.magnitude, t)
    OBVIOUS
  <2>2. e.kind # "ramp" /\ e.kind # "custom" /\ e.kind \notin Waves /\ e.kind \notin Conditions
    BY <2>1 DEF Waves, Conditions
  <2>3. QED  BY <2>1, <2>2 DEF Level
<1>2. e.kind = "ramp" =>
        Level(e, t, k) = Envelope(e, IF e.duration = Infinite THEN e.rampStart
                                     ELSE Towards(e.rampStart, e.rampEnd, t, e.duration), t)
  <2>1. SUFFICES ASSUME e.kind = "ramp"
                 PROVE  Level(e, t, k) =
                          Envelope(e, IF e.duration = Infinite THEN e.rampStart
                                      ELSE Towards(e.rampStart, e.rampEnd, t, e.duration), t)
    OBVIOUS
  <2>2. /\ e.kind # "constant" /\ e.kind # "custom"
        /\ e.kind \notin Waves /\ e.kind \notin Conditions
    BY <2>1 DEF Waves, Conditions
  <2>3. QED  BY <2>1, <2>2 DEF Level
<1>3. e.kind \in Waves =>
        Level(e, t, k) = e.offset + (Wave(e, t) * Envelope(e, e.magnitude, t)) \div 1000
  <2>1. SUFFICES ASSUME e.kind \in Waves
                 PROVE  Level(e, t, k)
                          = e.offset + (Wave(e, t) * Envelope(e, e.magnitude, t)) \div 1000
    OBVIOUS
  <2>2. /\ e.kind # "constant" /\ e.kind # "ramp" /\ e.kind # "custom"
        /\ e.kind \notin Conditions
    BY <2>1 DEF Waves, Conditions
  <2>3. QED  BY <2>1, <2>2 DEF Level
<1>4. e.kind = "custom" =>
        Level(e, t, k) =
          IF e.samples = <<>> THEN 0
          ELSE Envelope(e, e.samples[((t \div e.samplePeriod) % Len(e.samples)) + 1], t)
  <2>1. SUFFICES ASSUME e.kind = "custom"
                 PROVE  Level(e, t, k) =
                          IF e.samples = <<>> THEN 0
                          ELSE Envelope(e, e.samples[((t \div e.samplePeriod) % Len(e.samples)) + 1], t)
    OBVIOUS
  <2>2. /\ e.kind # "constant" /\ e.kind # "ramp"
        /\ e.kind \notin Waves /\ e.kind \notin Conditions
    BY <2>1 DEF Waves, Conditions
  <2>3. QED  BY <2>1, <2>2 DEF Level
<1>5. QED  BY <1>1, <1>2, <1>3, <1>4, Zenon

\* A force between the levels of its envelope.
LEMMA LevelSize ==
    ASSUME NEW e, Shaped(e), e.hasEnvelope, e.kind \notin Conditions, NEW t, InTime(e, t), NEW k
    PROVE  \E l \in Sustained(e) \cup {e.attackLevel, e.fadeLevel} : Swing(e, t, k) <= l + 1
<1>1. /\ t \in Nat /\ e.attackLevel \in Nat /\ e.fadeLevel \in Nat
      /\ e.magnitude \in Int /\ e.offset \in Int /\ e.rampStart \in Int /\ e.rampEnd \in Int
  BY DEF InTime, Shaped
<1> DEFINE all == Sustained(e) \cup {e.attackLevel, e.fadeLevel}
<1>2. ASSUME NEW level \in Int, NEW s \in Sustained(e), s \in Int, Abs(level) <= s
      PROVE  /\ Envelope(e, level, t) \in Int
             /\ \E l \in all : l \in Int /\ Abs(Envelope(e, level, t)) <= l
  <2>1. PICK x \in Int : x = Envelope(e, level, t)  BY EnvelopeSize
  <2>2. PICK l \in {Abs(level), e.attackLevel, e.fadeLevel} : Abs(x) <= l
    BY <2>1, EnvelopeSize
  <2>3. Abs(level) \in Nat /\ Abs(x) \in Nat  BY DEF Abs
  <2>4. CASE l = Abs(level)
    <3>1. Abs(x) <= s  BY <1>2, <2>2, <2>3, <2>4
    <3>2. s \in all  OBVIOUS
    <3>3. QED  BY <1>2, <2>1, <3>1, <3>2
  <2>5. CASE l \in {e.attackLevel, e.fadeLevel}
    <3>1. l \in all /\ l \in Int  BY <1>1, <2>5
    <3>2. QED  BY <2>1, <2>2, <3>1
  <2>6. QED  BY <2>2, <2>4, <2>5
<1>3. ASSUME NEW x \in Int, NEW l \in all, l \in Int, Abs(x) <= l, Swing(e, t, k) = Abs(x)
      PROVE  \E m \in all : Swing(e, t, k) <= m + 1
  <2>1. Abs(x) \in Nat  BY DEF Abs
  <2>2. Abs(x) <= l + 1  BY <1>3, <2>1
  <2>3. QED  BY <1>3, <2>2
<1>4. ASSUME NEW level \in Int, NEW s \in Sustained(e), s \in Int, Abs(level) <= s,
             e.kind \notin Waves, Level(e, t, k) = Envelope(e, level, t)
      PROVE  \E l \in all : Swing(e, t, k) <= l + 1
  <2>1. PICK x \in Int : x = Envelope(e, level, t)  BY <1>2, <1>4
  <2>2. PICK l \in all : l \in Int /\ Abs(x) <= l  BY <1>2, <1>4, <2>1
  <2>3. Swing(e, t, k) = Abs(x)
    <3>1. Swing(e, t, k) = Abs(x - 0)  BY <1>4, <2>1, Zenon DEF Swing
    <3>2. x - 0 = x  OBVIOUS
    <3>3. QED  BY <3>1, <3>2
  <2>4. QED  BY <1>3, <2>2, <2>3
<1> HIDE DEF all
<1>5. CASE e.kind = "constant"
  <2>1. Abs(e.magnitude) \in Sustained(e) /\ Abs(e.magnitude) \in Int
    BY <1>1, <1>5 DEF Sustained, Abs
  <2>2. Abs(e.magnitude) <= Abs(e.magnitude)  BY <2>1
  <2>3. e.kind \notin Waves  BY <1>5 DEF Waves
  <2>4. Level(e, t, k) = Envelope(e, e.magnitude, t)  BY <1>5, LevelIs
  <2>5. QED  BY <1>1, <1>4, <2>1, <2>2, <2>3, <2>4, Zenon DEF all
<1>6. CASE e.kind = "ramp"
  <2>1. /\ Sustained(e) = {Abs(e.rampStart), Abs(e.rampEnd)}
        /\ Abs(e.rampStart) \in Int /\ Abs(e.rampEnd) \in Int
    BY <1>1, <1>6 DEF Sustained, Abs
  <2>2. e.kind \notin Waves  BY <1>6 DEF Waves
  <2>3. PICK level \in Int : /\ Abs(level) <= Abs(e.rampStart) \/ Abs(level) <= Abs(e.rampEnd)
                             /\ Level(e, t, k) = Envelope(e, level, t)
    <3>1. CASE e.duration = Infinite
      <4>1. Level(e, t, k) = Envelope(e, e.rampStart, t)  BY <1>6, <3>1, LevelIs
      <4>2. QED  BY <1>1, <2>1, <4>1
    <3>2. CASE e.duration # Infinite
      <4>1. e.duration \in Nat \ {0} /\ t \in 0 .. e.duration
        <5>1. e.duration \in Nat \ {0} /\ t < e.duration  BY <3>2 DEF Shaped, InTime
        <5>2. QED  BY <1>1, <5>1
      <4>2. Level(e, t, k) = Envelope(e, Towards(e.rampStart, e.rampEnd, t, e.duration), t)
        BY <1>6, <3>2, LevelIs
      <4>3. QED  BY <1>1, <4>1, <4>2, TowardsSize, Zenon
    <3>3. QED  BY <3>1, <3>2
  <2>4. QED  BY <1>4, <2>1, <2>2, <2>3 DEF all
<1>7. CASE e.kind = "custom"
  <2>1. e.kind \notin Waves  BY <1>7 DEF Waves
  <2>2. CASE e.samples = <<>>
    <3>1. Level(e, t, k) = 0  BY <1>7, <2>2, LevelIs
    <3>2. Swing(e, t, k) = 0  BY <2>1, <3>1 DEF Swing, Abs
    <3>3. e.attackLevel \in all  BY DEF all
    <3>4. Swing(e, t, k) <= e.attackLevel + 1  BY <1>1, <3>2
    <3>5. QED  BY <3>3, <3>4, Zenon DEF all
  <2>3. CASE e.samples # <<>>
    <3>1. Len(e.samples) \in Nat \ {0} /\ DOMAIN e.samples = 1 .. Len(e.samples)
      BY <2>3 DEF Shaped
    <3>2. PICK q \in Int : q = t \div e.samplePeriod  BY <1>1, Floor DEF Shaped
    <3>3. PICK n \in Nat \ {0} : n = Len(e.samples)  BY <3>1
    <3>4. q % n \in Nat /\ q % n < n  OBVIOUS
    <3>5. PICK i \in DOMAIN e.samples : i = (q % n) + 1
      <4>1. PICK r \in Nat : r = q % n /\ r < n  BY <3>4
      <4>2. r + 1 \in 1 .. n  BY <4>1
      <4>3. DOMAIN e.samples = 1 .. n  BY <3>1, <3>3, Zenon
      <4>4. QED  BY <4>1, <4>2, <4>3, Zenon
    <3>6. e.samples[i] \in Int  BY <3>5 DEF Shaped
    <3>7. Abs(e.samples[i]) \in Sustained(e)  BY <1>7, <3>5 DEF Sustained
    <3>8. Abs(e.samples[i]) \in Int /\ Abs(e.samples[i]) <= Abs(e.samples[i])  BY <3>6 DEF Abs
    <3>9. Level(e, t, k) = Envelope(e, e.samples[i], t)
      <4>1. Level(e, t, k)
              = Envelope(e, e.samples[((t \div e.samplePeriod) % Len(e.samples)) + 1], t)
        BY <1>7, <2>3, LevelIs
      <4>2. ((t \div e.samplePeriod) % Len(e.samples)) + 1 = i  BY <3>2, <3>3, <3>5, Zenon
      <4>3. QED  BY <4>1, <4>2, Zenon
    <3>10. QED  BY <1>4, <2>1, <3>6, <3>7, <3>8, <3>9, Zenon DEF all
  <2>4. QED  BY <2>2, <2>3
<1>8. CASE e.kind \in Waves
  <2>1. Abs(e.magnitude) \in Sustained(e)
    BY <1>8 DEF Sustained, Waves
  <2>2. Abs(e.magnitude) \in Int /\ Abs(e.magnitude) <= Abs(e.magnitude)  BY <1>1 DEF Abs
  <2>3. PICK x \in Int : x = Envelope(e, e.magnitude, t)  BY <1>1, <1>2, <2>1, <2>2, Zenon
  <2>4. PICK l \in all : l \in Int /\ Abs(x) <= l
    BY <1>1, <1>2, <2>1, <2>2, <2>3, Zenon DEF all
  <2>5. PICK w \in Int : w = Wave(e, t) /\ -1000 <= w /\ w <= 1000  BY <1>1, <1>8, WaveSize
  <2>6. PICK z \in Int : z = (w * x) \div 1000 /\ Abs(z) <= Abs(x)  BY <2>5, Thousandth
  <2>7. Abs(z) <= l
    <3>1. Abs(z) \in Nat /\ Abs(x) \in Nat  BY DEF Abs
    <3>2. QED  BY <2>4, <2>6, <3>1
  <2>8. Swing(e, t, k) = Abs(z)
    <3>1. Level(e, t, k) = e.offset + z  BY <1>8, <2>3, <2>5, <2>6, LevelIs
    <3>2. Swing(e, t, k) = Abs(Level(e, t, k) - e.offset)  BY <1>8, Zenon DEF Swing
    <3>3. Level(e, t, k) - e.offset = z  BY <1>1, <3>1
    <3>4. QED  BY <3>2, <3>3, Zenon
  <2>9. QED  BY <1>3, <2>4, <2>7, <2>8 DEF all
<1>9. e.kind \in Kinds  BY DEF Shaped
<1>10. QED  BY <1>5, <1>6, <1>7, <1>8, <1>9 DEF Kinds, Conditions, Waves, all

\* Where an attack begins.
LEMMA FirstTick ==
    ASSUME NEW e, Shaped(e), e.hasEnvelope, e.kind = "constant", e.magnitude # 0,
           e.duration # Infinite, e.attackTime > 0, e.fadeTime <= e.duration, NEW k
    PROVE  Swing(e, 0, k) = e.attackLevel
<1>1. /\ e.attackLevel \in Nat /\ e.attackTime \in Nat \ {0} /\ e.fadeTime \in Nat
      /\ e.duration \in Nat \ {0} /\ e.magnitude \in Int
  BY DEF Shaped
<1>2. PICK a \in Nat : a = e.attackLevel  BY <1>1
<1>3. PICK d \in Int : d = Abs(e.magnitude) - a  BY <1>1 DEF Abs
<1>4. Towards(a, Abs(e.magnitude), 0, e.attackTime) = a
  <2>1. d * 0 = 0 /\ 0 \div e.attackTime = 0  BY <1>1
  <2>2. Towards(a, Abs(e.magnitude), 0, e.attackTime) = a + 0
    BY <1>3, <2>1, Zenon DEF Towards
  <2>3. QED  BY <2>2
<1>5. Attacked(e, e.magnitude, 0) = a  BY <1>1, <1>2, <1>4 DEF Attacked
<1>6. ~(Fading(e, 0) > 0)  BY <1>1 DEF Fading
<1>7. Faded(e, e.magnitude, 0) = a  BY <1>5, <1>6 DEF Faded
<1>8. Level(e, 0, k) = IF e.magnitude < 0 THEN -a ELSE a  BY <1>7, LevelIs, EnvelopeIs
<1>9. e.kind \notin Waves  BY DEF Waves
<1>10. Swing(e, 0, k) = Abs(Level(e, 0, k) - 0)  BY <1>9, Zenon DEF Swing
<1>11. QED  BY <1>2, <1>8, <1>10 DEF Abs

\* Where a fade ends: the last of its steps is missing.
LEMMA LastTick ==
    ASSUME NEW e, Shaped(e), e.hasEnvelope, e.kind = "constant", e.magnitude # 0,
           e.duration # Infinite, e.fadeTime > 0, NEW t, t = e.duration - 1, NEW k
    PROVE  \E l \in Sustained(e) \cup {e.attackLevel, e.fadeLevel} :
              Abs(Swing(e, t, k) - e.fadeLevel) * e.fadeTime <= Abs(l - e.fadeLevel) + e.fadeTime
<1>1. /\ e.attackLevel \in Nat /\ e.fadeTime \in Nat \ {0} /\ e.fadeLevel \in Nat
      /\ e.duration \in Nat \ {0} /\ e.magnitude \in Int /\ t \in Nat
  BY DEF Shaped
<1>2. PICK a \in Nat : a = Attacked(e, e.magnitude, t)  BY <1>1, AttackedBetween
<1>3. PICK m \in Nat : m = Abs(e.magnitude)  BY <1>1 DEF Abs
<1>4. PICK f \in Nat \ {0} : f = e.fadeTime  BY <1>1
<1>5. PICK to \in Nat : to = e.fadeLevel  BY <1>1
<1>6. PICK at \in Nat : at = e.attackLevel  BY <1>1
<1>7. PICK x \in Int : /\ Faded(e, e.magnitude, t) = x
                       /\ Abs(x - to) * f <= Abs(a - to) + f
  <2>1. Fading(e, t) = f - 1  BY <1>1, <1>4 DEF Fading
  <2>2. CASE f = 1
    <3>1. Faded(e, e.magnitude, t) = a  BY <1>2, <2>1, <2>2 DEF Faded
    <3>2. Abs(a - to) * f <= Abs(a - to) + f
      <4>1. PICK n \in Nat : n = Abs(a - to)  BY Distance
      <4>2. n * 1 <= n + 1  OBVIOUS
      <4>3. QED  BY <2>2, <4>1, <4>2
    <3>3. QED  BY <3>1, <3>2
  <2>3. CASE f # 1
    <3>1. Faded(e, e.magnitude, t) = Towards(a, to, f - 1, f)
      BY <1>2, <1>4, <1>5, <2>1, <2>3 DEF Faded
    <3>2. PICK d \in Int : d = to - a  OBVIOUS
    <3>3. PICK c \in Int : c = d * (f - 1)  OBVIOUS
    <3>4. PICK q \in Int : q = c \div f /\ f * q <= c /\ c < f * q + f  BY Floor
    <3>5. Towards(a, to, f - 1, f) = a + q  BY <3>2, <3>3, <3>4 DEF Towards
    <3>6. PICK r \in Int : r = d - q  OBVIOUS
    <3>7. f * q = f * d - f * r /\ c = f * d - d  BY <3>3, <3>6
    <3>8. PICK u \in Int : u = f * r  OBVIOUS
    <3>9. PICK y \in Int : y = f * d  OBVIOUS
    <3>10. d <= u /\ u < d + f  BY <3>4, <3>7, <3>8, <3>9
    <3>11. a + q - to = -r /\ a - to = -d  BY <3>2, <3>6
    <3>12. Abs(-r) * f = IF u < 0 THEN -u ELSE u
      <4>1. CASE r >= 0
        <5>1. Abs(-r) = r /\ u >= 0  BY <3>8, <4>1 DEF Abs
        <5>2. r * f = u  BY <3>8
        <5>3. QED  BY <5>1, <5>2
      <4>2. CASE r < 0
        <5>1. Abs(-r) = -r  BY <4>2 DEF Abs
        <5>2. (-r) * f = -u /\ u < 0  BY <3>8, <4>2
        <5>3. QED  BY <5>1, <5>2
      <4>3. QED  BY <4>1, <4>2
    <3>13. (IF u < 0 THEN -u ELSE u) <= Abs(-d) + f  BY <3>10 DEF Abs
    <3>14. Abs(a + q - to) * f <= Abs(a - to) + f  BY <3>11, <3>12, <3>13
    <3>15. QED  BY <3>1, <3>5, <3>14
  <2>4. QED  BY <2>2, <2>3
<1>8. Swing(e, t, k) = x
  <2>1. x \in Nat
    <3>1. InTime(e, t)  BY <1>1 DEF InTime
    <3>2. QED  BY <1>1, <1>7, <3>1, FadedBetween
  <2>2. Level(e, t, k) = IF e.magnitude < 0 THEN -x ELSE x  BY <1>7, LevelIs, EnvelopeIs
  <2>3. e.kind \notin Waves  BY DEF Waves
  <2>4. Swing(e, t, k) = Abs(Level(e, t, k) - 0)  BY <2>3, Zenon DEF Swing
  <2>5. QED  BY <2>1, <2>2, <2>4 DEF Abs
<1>9. Abs(a - to) <= Abs(m - to) \/ Abs(a - to) <= Abs(at - to)
  <2>1. (at <= m => at <= a /\ a <= m) /\ (m <= at => m <= a /\ a <= at)
    BY <1>1, <1>2, <1>3, <1>6, AttackedBetween
  <2>2. QED  BY <2>1 DEF Abs
<1>10. m \in Sustained(e)  BY <1>3 DEF Sustained
<1>11. ASSUME NEW l \in {m, at}, Abs(a - to) <= Abs(l - to)
       PROVE  \E n \in Sustained(e) \cup {e.attackLevel, e.fadeLevel} :
              Abs(Swing(e, t, k) - e.fadeLevel) * e.fadeTime <= Abs(n - e.fadeLevel) + e.fadeTime
  <2>1. l \in Sustained(e) \cup {e.attackLevel, e.fadeLevel} /\ l \in Nat
    BY <1>6, <1>10
  <2>2. PICK b \in Int : b = Abs(x - to) * f
    <3>1. Abs(x - to) \in Int  BY DEF Abs
    <3>2. QED  BY <3>1
  <2>3. Abs(a - to) \in Int /\ Abs(l - to) \in Int  BY <2>1 DEF Abs
  <2>4. b <= Abs(l - to) + f  BY <1>7, <1>11, <2>2, <2>3
  <2>5. Abs(Swing(e, t, k) - e.fadeLevel) * e.fadeTime <= Abs(l - e.fadeLevel) + e.fadeTime
    BY <1>4, <1>5, <1>8, <2>2, <2>4, Zenon
  <2>6. QED  BY <2>1, <2>5
<1>12. QED  BY <1>9, <1>11

\* The effect that plays is one from_message made, somewhere in its cycle.
LEMMA EffectShaped == Spec => [](Shaped(effect) /\ InTime(effect, inCycle))
<1>1. Init => Shaped(effect) /\ InTime(effect, inCycle)
  <2>1. SUFFICES ASSUME Init PROVE Shaped(effect) /\ InTime(effect, inCycle)
    OBVIOUS
  <2>2. Shaped(effect)  BY <2>1, MessageShaped DEF Init
  <2>3. inCycle = 0  BY <2>1 DEF Init
  <2>4. QED  BY <2>2, <2>3 DEF Shaped, InTime
<1>2. Shaped(effect) /\ InTime(effect, inCycle) /\ [Next]_vars
        => (Shaped(effect) /\ InTime(effect, inCycle))'
  <2>1. SUFFICES ASSUME Shaped(effect), InTime(effect, inCycle), [Next]_vars
                 PROVE  (Shaped(effect) /\ InTime(effect, inCycle))'
    OBVIOUS
  <2>2. effect' = effect  BY <2>1 DEF Next, Report, Pass, Tick, vars
  <2>3. CASE Tick
    <3>1. CASE effect.duration # Infinite
      <4>1. PICK n \in Nat \ {0} : n = effect.duration  BY <2>1, <3>1 DEF Shaped
      <4>2. inCycle' = (inCycle + 1) % n  BY <2>3, <3>1, <4>1 DEF Tick
      <4>3. inCycle' \in Nat /\ inCycle' < n  BY <2>1, <4>2 DEF InTime
      <4>4. QED  BY <2>1, <2>2, <4>1, <4>3 DEF Shaped, InTime
    <3>2. CASE effect.duration = Infinite
      <4>1. inCycle' \in Nat  BY <2>1, <2>3, <3>2 DEF Tick, InTime
      <4>2. QED  BY <2>1, <2>2, <3>2, <4>1 DEF Shaped, InTime
    <3>3. QED  BY <3>1, <3>2
  <2>4. CASE ~Tick
    <3>1. inCycle' = inCycle  BY <2>1, <2>4 DEF Next, Report, Pass, vars
    <3>2. QED  BY <2>1, <2>2, <3>1 DEF Shaped, InTime
  <2>5. QED  BY <2>3, <2>4
<1>3. QED  BY <1>1, <1>2, PTL DEF Spec

\* ffb_engine.py:373-392 (_envelope): whatever levels and times a game gives an effect, and
\* however its attack and its fade overlap, its force begins at the attack level, ends a step away
\* from the fade level and is never louder than the loudest of its levels.
THEOREM EnvelopeHonoured == Spec => []EnvelopeIsHonoured
<1>1. ASSUME Shaped(effect), InTime(effect, inCycle) PROVE EnvelopeIsHonoured
  <2>1. SUFFICES ASSUME effect.kind \notin Conditions, effect.hasEnvelope
                 PROVE  EnvelopeIsHonoured
    BY Zenon DEF EnvelopeIsHonoured
  <2> DEFINE levels == Sustained(effect) \cup {effect.attackLevel, effect.fadeLevel}
  <2>2. \E l \in levels : Swing(effect, inCycle, kin) <= l + 1
    BY <1>1, <2>1, LevelSize, Zenon
  <2>3. ASSUME effect.kind = "constant", effect.magnitude # 0, effect.duration # Infinite,
               inCycle = 0, effect.attackTime > 0, effect.fadeTime <= effect.duration
        PROVE  Swing(effect, inCycle, kin) = effect.attackLevel
    BY <1>1, <2>1, <2>3, FirstTick, Zenon
  <2>4. ASSUME effect.kind = "constant", effect.magnitude # 0, effect.duration # Infinite,
               inCycle = effect.duration - 1, effect.fadeTime > 0
        PROVE  \E l \in levels :
                 Abs(Swing(effect, inCycle, kin) - effect.fadeLevel) * effect.fadeTime
                    <= Abs(l - effect.fadeLevel) + effect.fadeTime
    BY <1>1, <2>1, <2>4, LastTick, Zenon
  <2>5. QED  BY <2>1, <2>2, <2>3, <2>4, Zenon DEF EnvelopeIsHonoured
<1>2. QED  BY <1>1, EffectShaped, PTL

-----------------------------------------------------------------------------
(* Rest. *)

\* x has become smaller than it was, or is at rest.
Shrinks(x, before) == x = 0 \/ Abs(x) < Abs(before)

\* ffb_engine.py:91-97 (settle_if_stale): without a report to read no step makes the movement look
\* faster than it did, and a pass that finds it stale makes it slower until it is at rest.  With
\* passes and time that go on this is what RestIsQuiet promises.
OnlyReportsMove ==
    [][~pending =>
         /\ Abs(kin'.velocity) <= Abs(kin.velocity)
         /\ Abs(kin'.acceleration) <= Abs(kin.acceleration)
         /\ kin.known /\ kin.since > StaleAfter /\ Pass =>
              Shrinks(kin'.velocity, kin.velocity) /\ Shrinks(kin'.acceleration, kin.acceleration)]_vars

\* A share of a number that is not the whole is smaller, and a small one is taken for none.
LEMMA ShareShrinks ==
    ASSUME NEW x \in Int, NEW share \in 1 .. 9, NEW least \in Nat
    PROVE  /\ Quiet(TowardsZero(share * x, 10), least) \in Int
           /\ Shrinks(Quiet(TowardsZero(share * x, 10), least), x)
<1>1. PICK a \in Int : a = share * x  OBVIOUS
<1>2. PICK q \in Int : q = TowardsZero(a, 10)  BY <1>1, Rounding
<1>3. /\ a >= 0 => q >= 0 /\ 10 * q <= a
      /\ a <= 0 => q <= 0 /\ a <= 10 * q
  <2>1. PICK ten \in Nat \ {0} : ten = 10  OBVIOUS
  <2>2. /\ a >= 0 => q >= 0 /\ ten * q <= a
        /\ a <= 0 => q <= 0 /\ a <= ten * q
    <3>1. q = TowardsZero(a, ten)  BY <1>2, <2>1
    <3>2. QED  BY <3>1, Rounding
  <2>3. QED  BY <2>1, <2>2
<1>4. CASE x >= 0
  <2>1. share \in Nat /\ 1 <= share /\ share <= 9  OBVIOUS
  <2>2. 0 <= a /\ a <= 9 * x
    <3>1. 0 * x <= share * x /\ share * x <= 9 * x  BY <1>4, <2>1, Order
    <3>2. QED  BY <1>1, <1>4, <3>1
  <2>3. q = 0 \/ Abs(q) < Abs(x)  BY <1>3, <1>4, <2>2 DEF Abs
  <2>4. QED  BY <1>1, <1>2, <2>3 DEF Quiet, Shrinks
<1>5. CASE x < 0
  <2>1. share \in Nat /\ 1 <= share /\ share <= 9  OBVIOUS
  <2>2. 9 * x <= a /\ a <= 0
    <3>1. PICK y \in Nat : y = -x  BY <1>5
    <3>2. 0 * y <= share * y /\ share * y <= 9 * y  BY <2>1, Order
    <3>3. share * y = -(share * x)  BY <3>1
    <3>4. QED  BY <1>1, <1>5, <3>1, <3>2, <3>3
  <2>3. q = 0 \/ Abs(q) < Abs(x)  BY <1>3, <1>5, <2>2 DEF Abs
  <2>4. QED  BY <1>1, <1>2, <2>3 DEF Quiet, Shrinks
<1>6. QED  BY <1>4, <1>5

\* What shrinks does not grow.
LEMMA ShrunkIsSmaller ==
    ASSUME NEW x \in Int, NEW y \in Int, Shrinks(x, y)
    PROVE  Abs(x) <= Abs(y)
BY DEF Shrinks, Abs

\* ffb_engine.py:91-97 (settle_if_stale): a wheel that sends no reports comes to rest, for any rate,
\* gap and movement before.
THEOREM RestComes == Spec => OnlyReportsMove
<1>1. ASSUME IInv, [Next]_vars, ~pending
      PROVE  /\ Abs(kin'.velocity) <= Abs(kin.velocity)
             /\ Abs(kin'.acceleration) <= Abs(kin.acceleration)
             /\ kin.known /\ kin.since > StaleAfter /\ Pass =>
                  Shrinks(kin'.velocity, kin.velocity) /\ Shrinks(kin'.acceleration, kin.acceleration)
  <2>1. kin \in Kinematics  BY <1>1 DEF IInv, Bounded
  <2>2. kin.velocity \in Int /\ kin.acceleration \in Int  BY <2>1 DEF Kinematics
  <2>3. Abs(kin.velocity) \in Nat /\ Abs(kin.acceleration) \in Nat  BY <2>2 DEF Abs
  <2> DEFINE v == Quiet(TowardsZero(6 * kin.velocity, 10), 1)
             a == Quiet(TowardsZero(4 * kin.acceleration, 10), 10)
  <2>4. /\ v \in Int /\ Shrinks(v, kin.velocity)
        /\ a \in Int /\ Shrinks(a, kin.acceleration)
    <3>1. 6 \in 1 .. 9 /\ 4 \in 1 .. 9 /\ 1 \in Nat /\ 10 \in Nat  OBVIOUS
    <3>2. v \in Int /\ Shrinks(v, kin.velocity)  BY <2>2, <3>1, ShareShrinks, Zenon
    <3>3. a \in Int /\ Shrinks(a, kin.acceleration)  BY <2>2, <3>1, ShareShrinks, Zenon
    <3>4. QED  BY <3>2, <3>3
  <2>5. Abs(v) <= Abs(kin.velocity) /\ Abs(a) <= Abs(kin.acceleration)
    BY <2>2, <2>4, ShrunkIsSmaller, Zenon
  <2> HIDE DEF v, a
  <2>6. CASE Pass
    <3>1. kin' = SettleIfStale(kin)  BY <1>1, <2>6 DEF Pass
    <3>2. CASE ~kin.known \/ kin.since <= StaleAfter
      <4>1. kin' = kin  BY <3>1, <3>2 DEF SettleIfStale
      <4>2. StaleAfter \in Nat /\ kin.since \in Int
        BY <2>1, ScaleAssumption DEF Kinematics
      <4>3. ~(kin.known /\ kin.since > StaleAfter)  BY <3>2, <4>2
      <4>4. QED  BY <2>3, <4>1, <4>3
    <3>3. CASE ~(~kin.known \/ kin.since <= StaleAfter)
      <4>1. kin' = [kin EXCEPT !.velocity = v, !.acceleration = a]
        BY <3>1, <3>3, Zenon DEF SettleIfStale, v, a
      <4>2. kin'.velocity = v /\ kin'.acceleration = a  BY <2>1, <4>1 DEF Kinematics
      <4>3. QED  BY <2>4, <2>5, <4>2, Zenon
    <3>4. QED  BY <3>2, <3>3
  <2>7. CASE ~Pass
    <3>1. kin'.velocity = kin.velocity /\ kin'.acceleration = kin.acceleration
      <4>1. CASE Tick
        <5> DEFINE t == IF kin.since < MaxGap THEN kin.since + 1 ELSE kin.since
        <5>1. kin' = [kin EXCEPT !.since = t]  BY <4>1 DEF Tick
        <5> HIDE DEF t
        <5>2. QED  BY <2>1, <5>1 DEF Kinematics
      <4>2. CASE ~Tick
        <5>1. kin' = kin  BY <1>1, <2>7, <4>2 DEF Next, Report, vars
        <5>2. QED  BY <5>1
      <4>3. QED  BY <4>1, <4>2
    <3>2. QED  BY <2>3, <2>7, <3>1
  <2>8. QED  BY <2>6, <2>7
<1>2. QED  BY <1>1, Invariance, PTL DEF Spec, OnlyReportsMove
=============================================================================
