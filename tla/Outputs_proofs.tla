----------------------------- MODULE Outputs_proofs -----------------------------
(***************************************************************************)
(* Proofs about the outputs: the stepper motors keep their steps, the OLED *)
(* shows what its device was asked for, and what a page draws is what the  *)
(* panel shows, for every number of steps, every size of the panel and the *)
(* screen, and all data; and that, but for the exposures listed, no        *)
(* handler of a driver lacks what it touches while the driver loads,       *)
(* serves and unloads and after a load that failed, and that unloading     *)
(* gives back what it took.                                                *)
(***************************************************************************)
EXTENDS MCOutputs, SequenceTheorems, WellFoundedInduction, TLAPS

-------------------------------------------------------------------------------
\* The coils of the patterns.

\* The coils that a pattern drives are its bits.
LEMMA CoilsAre ==
    ASSUME NEW p \in 1 .. 15, NEW i \in 0 .. 3
    PROVE  i \in Motor!Coils(p) <=> \/ i = 0 /\ p % 2 = 1
                                    \/ i = 1 /\ (p \div 2) % 2 = 1
                                    \/ i = 2 /\ (p \div 4) % 2 = 1
                                    \/ i = 3 /\ (p \div 8) % 2 = 1
<1>1. 2^0 = 1 /\ 2^1 = 2 /\ 2^2 = 4 /\ 2^3 = 8
  OBVIOUS
<1>2. i \in Motor!Coils(p) <=> (p \div 2^i) % 2 = 1
  BY Zenon DEF Motor!Coils
<1>3. PICK q \in {1, 2, 4, 8} : /\ q = 2^i
                               /\ \/ i = 0 /\ q = 1
                                  \/ i = 1 /\ q = 2
                                  \/ i = 2 /\ q = 4
                                  \/ i = 3 /\ q = 8
  <2>1. i = 0 \/ i = 1 \/ i = 2 \/ i = 3
    OBVIOUS
  <2>2. QED
    BY <1>1, <2>1, Zenon
<1>4. i \in Motor!Coils(p) <=> (p \div q) % 2 = 1
  BY <1>2, <1>3, Zenon
<1>5. QED
  BY <1>3, <1>4

\* Where the patterns of the tables put the rotor.
LEMMA PatternsAround ==
    /\ Motor!Coils(4) = Motor!Around[1] /\ Motor!Coils(12) = Motor!Around[2]
    /\ Motor!Coils(8) = Motor!Around[3] /\ Motor!Coils(9) = Motor!Around[4]
    /\ Motor!Coils(1) = Motor!Around[5] /\ Motor!Coils(3) = Motor!Around[6]
    /\ Motor!Coils(2) = Motor!Around[7] /\ Motor!Coils(6) = Motor!Around[8]
<1>0. \A p \in 1 .. 15 : Motor!Coils(p) \subseteq 0 .. 3
  BY Zenon DEF Motor!Coils
<1>1. Motor!Coils(4) = {2} /\ Motor!Coils(12) = {2, 3}
  BY <1>0, CoilsAre
<1>2. Motor!Coils(8) = {3} /\ Motor!Coils(9) = {3, 0}
  BY <1>0, CoilsAre
<1>3. Motor!Coils(1) = {0} /\ Motor!Coils(3) = {0, 1}
  BY <1>0, CoilsAre
<1>4. Motor!Coils(2) = {1} /\ Motor!Coils(6) = {1, 2}
  BY <1>0, CoilsAre
<1>5. QED
  BY <1>1, <1>2, <1>3, <1>4 DEF Motor!Around

\* The eight patterns around the rotor are different, so an angle has one.
LEMMA AnglesDiffer == \A a, b \in 1 .. 8 : Motor!Around[a] = Motor!Around[b] => a = b
  BY DEF Motor!Around

\* Angle finds the angle of a pattern.
LEMMA AngleOf == ASSUME NEW a \in 1 .. 8 PROVE Motor!Angle(Motor!Around[a]) = a
<1>1. Motor!Angle(Motor!Around[a]) = CHOOSE b \in 1 .. 8 : Motor!Around[b] = Motor!Around[a]
  BY DEF Motor!Angle
<1>2. QED
  BY <1>1, AnglesDiffer, Zenon

-------------------------------------------------------------------------------
\* The motors.

\* Half steps that the index has made, in the direction of the rotor.
Sent == motor.asked - Motor!Sense * motor.dir * motor.todo

Motors == [drv : {"motor", "motor_t", "a4988"}, index : 0 .. 7, todo : Nat,
           dir : {-1, 0, 1}, high : BOOLEAN, rotor : SUBSET (0 .. 3),
           pos : Int, asked : Int, lost : {FALSE}]

MotorType ==
    /\ motor \in Motors
    /\ motor.todo > 0 => motor.dir # 0

\* The index runs with the steps sent.  The rotor stands at the pattern before or
\* after it, on the side that the last step came from, or at none yet.
CoilsInv == motor.drv # "a4988" =>
    /\ motor.index = (Motor!Sense * Sent) % 8
    /\ motor.rotor = {} => motor.pos = 0 /\ Sent = 0
    /\ motor.rotor # {} => /\ motor.rotor = Motor!Pattern((Motor!Sense * motor.pos) % 8)
                           /\ motor.pos - Sent \in {-1, 1}

\* A pulse counts as soon as it rises.
PulseInv == motor.drv = "a4988" =>
    /\ motor.high => motor.todo > 0
    /\ motor.pos = motor.asked - motor.dir * motor.todo
                     + (IF motor.high THEN motor.dir ELSE 0)

MotorInv == MotorType /\ CoilsInv /\ PulseInv

\* The angle of a pattern: the two tables run around the rotor in opposite ways.
LEMMA PatternAngle ==
    ASSUME MotorType, motor.drv # "a4988", NEW i \in 0 .. 7
    PROVE  LET a == IF motor.drv = "motor" THEN 1 + i ELSE IF i = 7 THEN 8 ELSE 7 - i
           IN  Motor!Pattern(i) = Motor!Around[a] /\ Motor!Angle(Motor!Pattern(i)) = a
<1> DEFINE a == IF motor.drv = "motor" THEN 1 + i ELSE IF i = 7 THEN 8 ELSE 7 - i
<1>1. a \in 1 .. 8
  OBVIOUS
<1>2. Motor!Pattern(i) = Motor!Around[a]
  <2>1. CASE motor.drv = "motor"
    <3>1. Motor!Pattern(i) = Motor!Coils(Motor!g_motor_pin_ctrl[i + 1]) /\ a = i + 1
      BY <2>1 DEF Motor!Pattern
    <3>2. i + 1 \in {1, 2, 3, 4, 5, 6, 7, 8}
      OBVIOUS
    <3>3. QED
      BY <3>1, <3>2, PatternsAround DEF Motor!g_motor_pin_ctrl
  <2>2. CASE motor.drv # "motor"
    <3>1. Motor!Pattern(i) = Motor!Coils(Motor!TemplatePinCtrl[i + 1])
      BY <2>2 DEF Motor!Pattern
    <3>2. i \in {0, 1, 2, 3, 4, 5, 6, 7}
      OBVIOUS
    <3>3. a = IF i = 7 THEN 8 ELSE 7 - i
      BY <2>2
    <3>4. QED
      BY <3>1, <3>2, <3>3, PatternsAround DEF Motor!TemplatePinCtrl
  <2>3. QED
    BY <2>1, <2>2
<1>3. QED
  BY <1>1, <1>2, AngleOf

\* From the pattern of one position to that of the next the rotor turns with it.
LEMMA NextPattern ==
    ASSUME MotorType, motor.drv # "a4988", NEW at \in Int, NEW to \in Int, to - at \in {-1, 1}
    PROVE  (Motor!Angle(Motor!Pattern((Motor!Sense * to) % 8))
              - Motor!Angle(Motor!Pattern((Motor!Sense * at) % 8))) % 8
             = IF to - at = 1 THEN 1 ELSE 7
<1> DEFINE i == (Motor!Sense * at) % 8
           j == (Motor!Sense * to) % 8
<1>1. Motor!Sense = IF motor.drv = "motor" THEN 1 ELSE -1
  BY DEF Motor!Sense
<1>2. i \in 0 .. 7 /\ j \in 0 .. 7
  BY <1>1
<1>3. CASE motor.drv = "motor"
  <2>1. i = at % 8 /\ j = to % 8
    BY <1>1, <1>3
  <2>2. Motor!Angle(Motor!Pattern(i)) = 1 + i /\ Motor!Angle(Motor!Pattern(j)) = 1 + j
    BY <1>2, <1>3, PatternAngle
  <2>3. (j - i) % 8 = IF to - at = 1 THEN 1 ELSE 7
    BY <2>1
  <2>4. QED
    BY <1>2, <2>2, <2>3
<1>4. CASE motor.drv # "motor"
  <2>1. i = (-at) % 8 /\ j = (-to) % 8
    BY <1>1, <1>4
  <2> DEFINE a == IF i = 7 THEN 8 ELSE 7 - i
             b == IF j = 7 THEN 8 ELSE 7 - j
  <2>2. Motor!Angle(Motor!Pattern(i)) = a /\ Motor!Angle(Motor!Pattern(j)) = b
    BY <1>2, <1>4, PatternAngle
  <2>3. IF to - at = 1 THEN i - j \in {1, -7} ELSE i - j \in {-1, 7}
    BY <2>1
  <2>4. (b - a) % 8 = IF to - at = 1 THEN 1 ELSE 7
    <3> HIDE DEF i, j
    <3>1. IF to - at = 1 THEN b - a \in {1, -7} ELSE b - a \in {-1, 7}
      BY <1>2, <2>3
    <3>2. a \in Int /\ b \in Int
      BY <1>2
    <3> HIDE DEF a, b
    <3>3. QED
      BY <3>1, <3>2
  <2>5. QED
    BY <2>2, <2>4
<1>5. QED
  BY <1>3, <1>4

\* A turn goes one way or the other.
LEMMA SenseIs == Motor!Sense \in {-1, 1}
  BY DEF Motor!Sense

\* A motor stays what it is.
LEMMA SameMotor ==
    ASSUME motor'.drv = motor.drv
    PROVE  Motor!Sense' = Motor!Sense /\ \A i \in 0 .. 7 : Motor!Pattern(i)' = Motor!Pattern(i)
  BY DEF Motor!Sense, Motor!Pattern

\* A write sends the rotor further, and has made no step yet.
LEMMA WriteKeeps ==
    ASSUME MotorInv, motor.drv # "a4988", NEW n \in Int, Motor!Write(n)
    PROVE  MotorInv'
<1> DEFINE dir == IF n > 0 THEN -1 ELSE 1
           new == motor.asked + dir * Motor!Sense * Motor!Abs(n)
<1>1. motor' = [motor EXCEPT !.todo = Motor!Abs(n), !.dir = dir, !.asked = new]
  BY DEF Motor!Write
<1>2. Motor!Abs(n) \in Nat /\ dir \in {-1, 1} /\ new \in Int /\ motor.todo = 0 /\ motor.dir = 0
  BY SenseIs DEF Motor!Abs, Motor!Write, MotorInv, MotorType, Motors
<1>3. /\ motor'.todo = Motor!Abs(n) /\ motor'.dir = dir /\ motor'.asked = new
      /\ motor'.drv = motor.drv /\ motor'.index = motor.index /\ motor'.pos = motor.pos
      /\ motor'.rotor = motor.rotor
  BY <1>1 DEF MotorInv, MotorType, Motors
<1>4. MotorType'
  <2> HIDE DEF dir, new
  <2>1. motor' \in Motors
    BY <1>1, <1>2, Zenon DEF MotorInv, MotorType, Motors
  <2>2. motor'.todo > 0 => motor'.dir # 0
    BY <1>2, <1>3
  <2>3. QED
    BY <2>1, <2>2 DEF MotorType
<1>5. Sent' = Sent
  <2>1. Motor!Sense' = Motor!Sense
    BY <1>3, SameMotor
  <2>2. Sent = motor.asked
    BY <1>2, SenseIs DEF Sent, MotorInv, MotorType, Motors
  <2>3. Sent' = new - Motor!Sense * dir * Motor!Abs(n)
    BY <1>3, <2>1 DEF Sent
  <2>4. CASE Motor!Sense = 1
    BY <1>2, <2>2, <2>3, <2>4 DEF MotorInv, MotorType, Motors
  <2>5. CASE Motor!Sense = -1
    BY <1>2, <2>2, <2>3, <2>5 DEF MotorInv, MotorType, Motors
  <2>6. QED
    BY <2>4, <2>5, SenseIs
<1>6. CoilsInv'
  <2>1. (Motor!Sense * motor.pos) % 8 \in 0 .. 7
    BY SenseIs DEF MotorInv, MotorType, Motors
  <2>2. QED
    BY <1>3, <1>5, <2>1, SameMotor, Zenon DEF MotorInv, CoilsInv
<1>7. PulseInv'
  BY <1>3 DEF PulseInv
<1>8. QED
  BY <1>4, <1>6, <1>7 DEF MotorInv

\* The rotor follows the pattern at the index, and the index moves on.
LEMMA FollowsPattern ==
    ASSUME MotorInv, motor.drv # "a4988"
    PROVE  Motor!Follows(Motor!Pattern(motor.index))
             = [motor EXCEPT !.rotor = Motor!Pattern(motor.index), !.pos = Sent]
<1> DEFINE new == Motor!Pattern(motor.index)
           by == (Motor!Angle(new) - Motor!Angle(motor.rotor)) % 8
<1>1. motor.index = (Motor!Sense * Sent) % 8 /\ Sent \in Int
  BY SenseIs DEF MotorInv, CoilsInv, Sent, MotorType, Motors
<1>2. CASE motor.rotor = {}
  <2>1. motor.pos = Sent
    BY <1>2 DEF MotorInv, CoilsInv
  <2>2. Motor!Follows(new) = [motor EXCEPT !.rotor = new]
    BY <1>2, Zenon DEF Motor!Follows, Motor!None
  <2>3. QED
    BY <2>1, <2>2 DEF MotorInv, MotorType, Motors
<1>3. CASE motor.rotor # {}
  <2>1. /\ motor.rotor = Motor!Pattern((Motor!Sense * motor.pos) % 8)
        /\ motor.pos - Sent \in {-1, 1} /\ motor.pos \in Int
    BY <1>3 DEF MotorInv, CoilsInv, MotorType, Motors
  <2>2. by = IF Sent - motor.pos = 1 THEN 1 ELSE 7
    <3>1. Sent - motor.pos \in {-1, 1}
      BY <1>1, <2>1
    <3>2. QED
      BY <1>1, <2>1, <3>1, NextPattern DEF MotorInv
  <2>3. motor.rotor # Motor!None
    BY <1>3 DEF Motor!None
  <2>4. CASE by = 1
    <3>1. Motor!Follows(new) = [motor EXCEPT !.rotor = new, !.pos = motor.pos + 1]
      BY <2>3, <2>4 DEF Motor!Follows
    <3>2. motor.pos + 1 = Sent
      BY <1>1, <2>1, <2>2, <2>4
    <3>3. QED
      BY <3>1, <3>2, Zenon
  <2>5. CASE by = 7
    <3>1. Motor!Follows(new) = [motor EXCEPT !.rotor = new, !.pos = motor.pos - 1]
      BY <2>3, <2>5 DEF Motor!Follows
    <3>2. motor.pos - 1 = Sent
      BY <1>1, <2>1, <2>2, <2>5
    <3>3. QED
      BY <3>1, <3>2, Zenon
  <2>6. QED
    BY <2>2, <2>4, <2>5
<1>4. QED
  BY <1>2, <1>3

\* A step drives the next pattern and moves the rotor to it.
LEMMA StepKeeps ==
    ASSUME MotorInv, motor.drv # "a4988", Motor!Step
    PROVE  MotorInv'
<1> DEFINE new == Motor!Pattern(motor.index)
           on == Motor!Turn(motor.index, motor.dir)
<1>1. Sent \in Int /\ on \in 0 .. 7 /\ motor.todo - 1 \in Nat /\ motor.dir \in {-1, 1}
  BY SenseIs DEF MotorInv, Sent, MotorType, Motors, Motor!Turn, Motor!Step
<1>2. motor' = [motor EXCEPT !.rotor = new, !.pos = Sent, !.index = on, !.todo = motor.todo - 1]
  BY FollowsPattern DEF Motor!Step, MotorInv, MotorType, Motors
<1>3. /\ motor'.todo = motor.todo - 1 /\ motor'.dir = motor.dir /\ motor'.asked = motor.asked
      /\ motor'.drv = motor.drv /\ motor'.index = on /\ motor'.pos = Sent /\ motor'.rotor = new
  BY <1>2 DEF MotorInv, MotorType, Motors
<1>4. new \in SUBSET (0 .. 3) /\ new # {}
  <2>1. \A a \in 1 .. 8 : Motor!Around[a] \in SUBSET (0 .. 3) /\ Motor!Around[a] # {}
    BY DEF Motor!Around
  <2>2. \E a \in 1 .. 8 : new = Motor!Around[a]
    <3> DEFINE a == IF motor.drv = "motor" THEN 1 + motor.index
                    ELSE IF motor.index = 7 THEN 8 ELSE 7 - motor.index
    <3>1. motor.index \in 0 .. 7
      BY DEF MotorInv, MotorType, Motors
    <3>2. new = Motor!Around[a]
      BY <3>1, PatternAngle DEF MotorInv
    <3>3. a \in 1 .. 8
      BY <3>1
    <3>4. QED
      BY <3>2, <3>3
  <2>3. QED
    BY <2>1, <2>2
<1>5. MotorType'
  <2> HIDE DEF new, on
  <2>1. motor' \in Motors
    BY <1>2, <1>1, <1>4, Zenon DEF MotorInv, MotorType, Motors
  <2>2. motor'.todo > 0 => motor'.dir # 0
    BY <1>1, <1>3
  <2>3. QED
    BY <2>1, <2>2 DEF MotorType
<1>6. Sent' = Sent + Motor!Sense * motor.dir
  <2>1. Sent' = motor.asked - Motor!Sense * motor.dir * (motor.todo - 1)
    BY <1>3, SameMotor DEF Sent
  <2>2. CASE motor.dir = 1
    BY <2>1, <2>2, SenseIs DEF Sent, MotorInv, MotorType, Motors
  <2>3. CASE motor.dir = -1
    BY <2>1, <2>3, SenseIs DEF Sent, MotorInv, MotorType, Motors
  <2>4. QED
    BY <1>1, <2>2, <2>3
<1>7. motor'.index = (Motor!Sense * Sent') % 8
  <2>1. motor.index = (Motor!Sense * Sent) % 8
    BY DEF MotorInv, CoilsInv
  <2>2. Motor!Sense * Sent' = Motor!Sense * Sent + motor.dir
    BY <1>1, <1>6, SenseIs
  <2> DEFINE x == Motor!Sense * Sent
  <2>3. x \in Int
    BY <1>1, SenseIs
  <2>4. motor.index = x % 8 /\ Motor!Sense * Sent' = x + motor.dir
    BY <2>1, <2>2
  <2> HIDE DEF x
  <2>5. on = (x + motor.dir) % 8
    BY <1>1, <2>3, <2>4 DEF Motor!Turn
  <2>6. QED
    BY <1>3, <2>4, <2>5
<1>8. CoilsInv'
  <2>1. motor'.pos - Sent' \in {-1, 1}
    BY <1>1, <1>3, <1>6, SenseIs
  <2>2. new = Motor!Pattern((Motor!Sense * Sent) % 8) /\ (Motor!Sense * Sent) % 8 \in 0 .. 7
    BY <1>1, SenseIs DEF MotorInv, CoilsInv
  <2>3. Motor!Pattern((Motor!Sense * motor.pos) % 8)' = new
    BY <1>3, <2>2, SameMotor
  <2>4. QED
    BY <1>3, <1>4, <1>7, <2>1, <2>3, SameMotor, Zenon DEF CoilsInv
<1>9. PulseInv'
  BY <1>3 DEF PulseInv
<1>10. QED
  BY <1>5, <1>8, <1>9 DEF MotorInv

\* write returns and drives no coil: the rotor stays where it is.
LEMMA ReturnKeeps ==
    ASSUME MotorInv, motor.drv # "a4988", Motor!Return
    PROVE  MotorInv'
<1>1. motor' = [motor EXCEPT !.dir = 0] /\ motor.todo = 0
  BY DEF Motor!Return
<1>2. /\ motor'.todo = 0 /\ motor'.dir = 0 /\ motor'.asked = motor.asked
      /\ motor'.drv = motor.drv /\ motor'.index = motor.index /\ motor'.pos = motor.pos
      /\ motor'.rotor = motor.rotor
  BY <1>1 DEF MotorInv, MotorType, Motors
<1>3. MotorType'
  <2>1. motor' \in Motors
    BY <1>1, Zenon DEF MotorInv, MotorType, Motors
  <2>2. QED
    BY <1>2, <2>1 DEF MotorType
<1>4. Sent' = Sent
  BY <1>1, <1>2, SameMotor, SenseIs DEF Sent, MotorInv, MotorType, Motors
<1>5. CoilsInv'
  <2>1. (Motor!Sense * motor.pos) % 8 \in 0 .. 7
    BY SenseIs DEF MotorInv, MotorType, Motors
  <2>2. QED
    BY <1>2, <1>4, <2>1, SameMotor, Zenon DEF MotorInv, CoilsInv
<1>6. PulseInv'
  BY <1>2 DEF PulseInv
<1>7. QED
  BY <1>3, <1>5, <1>6 DEF MotorInv

\* A count that is not positive changes nothing.
LEMMA Write4988Keeps ==
    ASSUME MotorInv, motor.drv = "a4988", NEW n \in Int, NEW dir \in {0, 1},
           Motor!Write4988(n, dir)
    PROVE  MotorInv'
<1>1. CASE n <= 0
  <2>1. motor' = motor
    BY <1>1 DEF Motor!Write4988
  <2>2. QED
    BY <2>1 DEF MotorInv, MotorType, CoilsInv, PulseInv, Sent, Motor!Sense, Motor!Pattern
<1>2. CASE n > 0
  <2> DEFINE way == IF dir = 0 THEN -1 ELSE 1
             new == motor.asked + (IF dir = 0 THEN -n ELSE n)
  <2>1. motor' = [motor EXCEPT !.todo = n, !.dir = way, !.asked = new]
    BY <1>2 DEF Motor!Write4988
  <2>2. way \in {-1, 1} /\ new \in Int /\ n \in Nat
    BY <1>2 DEF MotorInv, MotorType, Motors
  <2>3. /\ motor'.todo = n /\ motor'.dir = way /\ motor'.asked = new
        /\ motor'.drv = "a4988" /\ motor'.pos = motor.pos /\ motor'.high = motor.high
    BY <2>1 DEF MotorInv, MotorType, Motors
  <2>4. motor' \in Motors
    <3> HIDE DEF way, new
    <3>1. QED
      BY <2>1, <2>2, Zenon DEF MotorInv, MotorType, Motors
  <2>5. motor.high = FALSE /\ motor.pos = motor.asked
    <3>1. motor.todo = 0 /\ motor.high \in BOOLEAN
      BY DEF MotorInv, MotorType, Motors, Motor!Write4988
    <3>2. motor.high = FALSE
      BY <3>1 DEF MotorInv, PulseInv
    <3>3. QED
      BY <3>1, <3>2 DEF MotorInv, PulseInv, MotorType, Motors
  <2>6. PulseInv'
    <3>1. motor'.high = FALSE
      BY <2>3, <2>5, Zenon
    <3>2. motor'.pos = motor'.asked - motor'.dir * motor'.todo
      BY <2>2, <2>3, <2>5 DEF MotorInv, MotorType, Motors
    <3>3. motor'.pos = motor'.asked - motor'.dir * motor'.todo + 0
      BY <2>2, <2>3, <3>2 DEF MotorInv, MotorType, Motors
    <3>4. QED
      BY <3>1, <3>3, Zenon DEF PulseInv
  <2>7. QED
    BY <1>2, <2>2, <2>3, <2>4, <2>6 DEF MotorInv, MotorType, CoilsInv
<1>3. QED
  BY <1>1, <1>2

\* A rising edge moves the rotor.
LEMMA RiseKeeps ==
    ASSUME MotorInv, motor.drv = "a4988", Motor!Rise
    PROVE  MotorInv'
<1> DEFINE new == motor.pos + motor.dir
<1>1. motor' = [motor EXCEPT !.high = TRUE, !.pos = new] /\ motor.todo > 0 /\ motor.high = FALSE
  BY DEF Motor!Rise, MotorInv, MotorType, Motors
<1>2. new \in Int
  BY DEF MotorInv, MotorType, Motors
<1>3. /\ motor'.todo = motor.todo /\ motor'.dir = motor.dir /\ motor'.asked = motor.asked
      /\ motor'.drv = "a4988" /\ motor'.pos = new /\ motor'.high = TRUE
  BY <1>1 DEF MotorInv, MotorType, Motors
<1>4. motor' \in Motors
  <2> HIDE DEF new
  <2>1. QED
    BY <1>1, <1>2, Zenon DEF MotorInv, MotorType, Motors
<1>5. PulseInv'
  <2>1. motor.pos = motor.asked - motor.dir * motor.todo
    <3>1. motor.pos = motor.asked - motor.dir * motor.todo + 0
      BY <1>1, Zenon DEF MotorInv, PulseInv
    <3>2. QED
      BY <3>1 DEF MotorInv, MotorType, Motors
  <2>2. motor'.pos = motor'.asked - motor'.dir * motor'.todo + motor'.dir
    BY <1>3, <2>1
  <2>3. QED
    BY <1>1, <1>3, <2>2, Zenon DEF PulseInv
<1>6. QED
  BY <1>3, <1>4, <1>5 DEF MotorInv, MotorType, CoilsInv

\* A pulse ends.
LEMMA FallKeeps ==
    ASSUME MotorInv, motor.drv = "a4988", Motor!Fall
    PROVE  MotorInv'
<1> DEFINE left == motor.todo - 1
<1>1. motor' = [motor EXCEPT !.high = FALSE, !.todo = left] /\ motor.high = TRUE
  BY DEF Motor!Fall, MotorInv, MotorType, Motors
<1>2. left \in Nat /\ motor.todo > 0
  BY <1>1 DEF MotorInv, MotorType, Motors, PulseInv
<1>3. /\ motor'.todo = left /\ motor'.dir = motor.dir /\ motor'.asked = motor.asked
      /\ motor'.drv = "a4988" /\ motor'.pos = motor.pos /\ motor'.high = FALSE
  BY <1>1 DEF MotorInv, MotorType, Motors
<1>4. motor' \in Motors
  <2> HIDE DEF left
  <2>1. QED
    BY <1>1, <1>2, Zenon DEF MotorInv, MotorType, Motors
<1>5. PulseInv'
  <2>1. motor.pos = motor.asked - motor.dir * motor.todo + motor.dir
    BY <1>1, Zenon DEF MotorInv, PulseInv
  <2>2. motor'.pos = motor'.asked - motor'.dir * motor'.todo + 0
    BY <1>2, <1>3, <2>1 DEF MotorInv, MotorType, Motors
  <2>3. QED
    BY <1>1, <1>3, <2>2, Zenon DEF PulseInv
<1>6. QED
  BY <1>2, <1>3, <1>4, <1>5 DEF MotorInv, MotorType, CoilsInv

\* Each of the three motors starts at rest.
LEMMA MotorStart == ASSUME NEW d \in {"motor", "motor_t", "a4988"}, Motor!InitMotor(d)
                    PROVE  MotorInv
<1>1. /\ motor.drv = d /\ motor.index = 0 /\ motor.todo = 0 /\ motor.dir = 0
      /\ motor.high = FALSE /\ motor.rotor = {} /\ motor.pos = 0 /\ motor.asked = 0
  BY DEF Motor!InitMotor, Motor!None
<1>2. motor \in Motors
  BY DEF Motor!InitMotor, Motor!None, Motors
<1>3. Sent = 0
  BY <1>1, SenseIs DEF Sent
<1>4. QED
  BY <1>1, <1>2, <1>3, SenseIs DEF MotorInv, MotorType, CoilsInv, PulseInv

\* The invariant is about the motor alone.
LEMMA MotorStays == ASSUME MotorInv, UNCHANGED motor PROVE MotorInv'
  BY DEF MotorInv, MotorType, CoilsInv, PulseInv, Sent, Motor!Sense, Motor!Pattern

\* Every step of the composition keeps the motor's invariant.
LEMMA MotorSteps == ASSUME MotorInv, [Next]_allvars PROVE MotorInv'
<1>1. CASE Coils
  <2>1. Motor!MotorNext /\ motor.drv # "a4988"
    BY <1>1 DEF Coils
  <2>2. -MaxSteps .. MaxSteps \subseteq Int
    BY TurnAssumption
  <2>3. QED
    BY <2>1, <2>2, WriteKeeps, StepKeeps, ReturnKeeps DEF Motor!MotorNext
<1>2. CASE TemplateCoils
  <2>1. Motor!MotorNext /\ motor.drv # "a4988"
    BY <1>2 DEF TemplateCoils, Motor!TemplateMotorNext
  <2>2. -MaxSteps .. MaxSteps \subseteq Int
    BY TurnAssumption
  <2>3. QED
    BY <2>1, <2>2, WriteKeeps, StepKeeps, ReturnKeeps DEF Motor!MotorNext
<1>3. CASE Stepper4988
  <2>1. Motor!Next4988 /\ motor.drv = "a4988"
    BY <1>3 DEF Stepper4988
  <2>2. -1 .. MaxSteps \subseteq Int
    BY TurnAssumption
  <2>3. QED
    BY <2>1, <2>2, Write4988Keeps, RiseKeeps, FallKeeps DEF Motor!Next4988
<1>4. CASE UNCHANGED motor
  BY <1>4, MotorStays
<1>5. QED
  BY <1>1, <1>2, <1>3, <1>4, Zenon DEF Next, allvars

\* The inductive invariant of the motors.
THEOREM MotorInvariant == Spec => []MotorInv
<1>1. Init => MotorInv
  BY MotorStart DEF Init
<1>2. MotorInv /\ [Next]_allvars => MotorInv'
  BY MotorSteps
<1>3. QED
  BY <1>1, <1>2, PTL DEF Spec

\* The rotor never slips and ends where it was sent, for writes of every length.
THEOREM StepsAreKept == Spec => []StepsKept
<1>1. MotorInv => StepsKept
  <2> SUFFICES ASSUME MotorInv PROVE StepsKept
    OBVIOUS
  <2>1. motor.pos \in Int /\ motor.asked \in Int /\ motor.dir \in Int
    BY DEF MotorInv, MotorType, Motors
  <2>2. ASSUME motor.todo = 0, motor.drv = "a4988" PROVE motor.pos = motor.asked
    <3>1. motor.high = FALSE
      <4>1. motor.high \in BOOLEAN /\ ~(motor.todo > 0)
        BY <2>2 DEF MotorInv, MotorType, Motors
      <4>2. QED
        BY <2>2, <4>1, Zenon DEF MotorInv, PulseInv
    <3>2. motor.pos = motor.asked - motor.dir * motor.todo + 0
      BY <2>2, <3>1, Zenon DEF MotorInv, PulseInv
    <3>3. QED
      BY <2>1, <2>2, <3>2
  <2>3. ASSUME motor.todo = 0, motor.drv # "a4988" PROVE motor.pos - motor.asked \in {-1, 0, 1}
    <3>1. Sent = motor.asked
      BY <2>1, <2>3, SenseIs DEF Sent
    <3>2. QED
      BY <2>1, <2>3, <3>1 DEF MotorInv, CoilsInv
  <2>4. ~motor.lost
    BY Zenon DEF MotorInv, MotorType, Motors
  <2>5. motor.todo = 0 =>
           Motor!Abs(motor.pos - motor.asked) <= (IF motor.drv = "a4988" THEN 0 ELSE 1)
    BY <2>1, <2>2, <2>3 DEF Motor!Abs
  <2>6. QED
    BY <2>4, <2>5, Zenon DEF StepsKept, Motor!StepsKept
<1>2. QED
  BY <1>1, MotorInvariant, PTL

-------------------------------------------------------------------------------
\* Sequences of transfers to the panel.

\* Induction up to n, for the sets of numbers that a proof has at hand.
LEMMA UpTo == ASSUME NEW n \in Nat, NEW S \in SUBSET (0 .. n), 0 \in S,
                     \A i \in 1 .. n : i - 1 \in S => i \in S
              PROVE  S = 0 .. n
<1> DEFINE Below == {p \in Nat \X Nat : p[1] < p[2]}
           T == (0 .. n) \ S
<1>1. IsWellFoundedOn(Below, Nat)
  BY NatLessThanWellFounded DEF OpToRel
<1> HIDE DEF Below
<1>2. SUFFICES ASSUME T # {} PROVE FALSE
  OBVIOUS
<1>3. T \subseteq Nat
  OBVIOUS
<1>4. PICK m \in T : \A i \in T : ~(<<i, m>> \in Below)
  <2> HIDE DEF T
  <2>1. QED
    BY <1>1, <1>2, <1>3, WFMin
<1>5. m \in 1 .. n /\ m - 1 \in 0 .. n
  BY <1>4
<1>6. <<m - 1, m>> \in Below
  BY <1>5 DEF Below
<1>7. m - 1 \in S
  BY <1>4, <1>5, <1>6
<1>8. QED
  BY <1>4, <1>5, <1>7

\* Two functions that take the same steps from the same start.
LEMMA SameSteps == ASSUME NEW n \in Nat, NEW f, NEW g, f[0] = g[0],
                          \A i \in 1 .. n : f[i - 1] = g[i - 1] => f[i] = g[i]
                   PROVE  f[n] = g[n]
<1> DEFINE S == {i \in 0 .. n : f[i] = g[i]}
<1>1. S = 0 .. n
  <2>1. 0 \in S /\ S \in SUBSET (0 .. n) /\ \A i \in 1 .. n : i - 1 \in S => i \in S
    OBVIOUS
  <2> HIDE DEF S
  <2>2. QED
    BY <2>1, UpTo
<1>2. QED
  BY <1>1

\* The two drivers send a command alike.
LEMMA SameCommand == \A panel, byte : Chip!oled_write_cmd_data(panel, byte, FALSE)
                                         = oled_write_cmd_data(panel, byte, FALSE)
<1> SUFFICES ASSUME NEW panel, NEW byte
             PROVE  Chip!oled_write_cmd_data(panel, byte, FALSE) = oled_write_cmd_data(panel, byte, FALSE)
  OBVIOUS
<1>1. oled_write_cmd_data(panel, byte, FALSE) = Command(panel, byte)
  BY DEF oled_write_cmd_data
<1>2. Chip!oled_write_cmd_data(panel, byte, FALSE) = Chip!Command(panel, byte)
  BY DEF Chip!oled_write_cmd_data
<1>3. Chip!Command(panel, byte) = Command(panel, byte)
  BY DEF Chip!Command, Command, Chip!TwoByte, TwoByte
<1>4. QED
  BY <1>1, <1>2, <1>3

\* The panel after some commands of either driver, from the panels between them.
LEMMA CommandsGive ==
    ASSUME NEW panel, NEW bytes, Len(bytes) \in Nat, NEW w,
           w = [i \in 0 .. Len(bytes) |->
                    IF i = 0 THEN panel ELSE oled_write_cmd_data(w[i - 1], bytes[i], FALSE)]
    PROVE  Commands(panel, bytes) = w[Len(bytes)] /\ Chip!Commands(panel, bytes) = w[Len(bytes)]
<1> DEFINE Runs(f) == f = [i \in 0 .. Len(bytes) |->
                           IF i = 0 THEN panel
                           ELSE oled_write_cmd_data(f[i - 1], bytes[i], FALSE)]
           after == CHOOSE f : Runs(f)
<1>1. Commands(panel, bytes) = after[Len(bytes)]
  BY Zenon DEF Commands
<1>2. Runs(after)
  <2>1. Runs(w)
    OBVIOUS
  <2> HIDE DEF Runs
  <2>2. QED
    BY <2>1, Zenon
<1> HIDE DEF after
<1>3. after[0] = w[0] /\ \A i \in 1 .. Len(bytes) : after[i - 1] = w[i - 1] => after[i] = w[i]
  BY <1>2
<1>4. Commands(panel, bytes) = w[Len(bytes)]
  BY <1>1, <1>3, SameSteps
<1> DEFINE ChipRuns(f) == f = [i \in 0 .. Len(bytes) |->
                               IF i = 0 THEN panel
                               ELSE Chip!oled_write_cmd_data(f[i - 1], bytes[i], FALSE)]
           chip == CHOOSE f : ChipRuns(f)
<1>5. Chip!Commands(panel, bytes) = chip[Len(bytes)]
  BY Zenon DEF Chip!Commands
<1>6. ChipRuns(chip)
  <2>1. ChipRuns(w)
    BY SameCommand, Zenon
  <2> HIDE DEF ChipRuns
  <2>2. QED
    BY <2>1, Zenon
<1> HIDE DEF chip
<1>7. chip[0] = w[0] /\ \A i \in 1 .. Len(bytes) : chip[i - 1] = w[i - 1] => chip[i] = w[i]
  BY <1>6, SameCommand
<1>8. Chip!Commands(panel, bytes) = w[Len(bytes)]
  BY <1>5, <1>7, SameSteps
<1>9. QED
  BY <1>4, <1>8

-------------------------------------------------------------------------------
\* Commands to the panel.

\* A panel at the start of its first page, with or without an argument to come.
AtStart(ram, args, on) == [ram |-> ram, page |-> 0, col |-> 0, args |-> args, on |-> on]

\* Commands that set no position, in a panel whose page and column are 0.
LEMMA StartCommands ==
    ASSUME NEW ram, NEW on \in BOOLEAN
    PROVE  /\ \A b \in 0 .. 255 : Command(AtStart(ram, 1, on), b) = AtStart(ram, 0, on)
           /\ \A b \in TwoByte : Command(AtStart(ram, 0, on), b) = AtStart(ram, 1, on)
           /\ \A b \in {0, 16, 64, 161, 166, 176, 200} :
                  Command(AtStart(ram, 0, on), b) = AtStart(ram, 0, on)
           /\ Command(AtStart(ram, 0, on), 174) = AtStart(ram, 0, FALSE)
           /\ Command(AtStart(ram, 0, on), 175) = AtStart(ram, 0, TRUE)
<1>0. ASSUME NEW v PROVE [AtStart(ram, 0, on) EXCEPT !.on = v] = AtStart(ram, 0, v)
  BY DEF AtStart
<1>1. ASSUME NEW b \in 0 .. 255 PROVE Command(AtStart(ram, 1, on), b) = AtStart(ram, 0, on)
  <2>1. AtStart(ram, 1, on).args > 0
    BY DEF AtStart
  <2>2. Command(AtStart(ram, 1, on), b) = [AtStart(ram, 1, on) EXCEPT !.args = 0]
    BY <2>1 DEF Command
  <2>3. QED
    BY <2>2 DEF AtStart
<1>2. ASSUME NEW b \in TwoByte PROVE Command(AtStart(ram, 0, on), b) = AtStart(ram, 1, on)
  <2>1. Command(AtStart(ram, 0, on), b) = [AtStart(ram, 0, on) EXCEPT !.args = 1]
    BY DEF Command, AtStart, TwoByte
  <2>2. QED
    BY <2>1 DEF AtStart
<1>3. ASSUME NEW b \in {64, 161, 166, 200}
      PROVE  Command(AtStart(ram, 0, on), b) = AtStart(ram, 0, on)
  BY DEF Command, AtStart, TwoByte
<1>4. Command(AtStart(ram, 0, on), 0) = AtStart(ram, 0, on)
  <2>1. Command(AtStart(ram, 0, on), 0)
           = [AtStart(ram, 0, on) EXCEPT !.col = (16 * (0 \div 16)) + 0]
    BY DEF Command, AtStart, TwoByte
  <2>2. (16 * (0 \div 16)) + 0 = 0
    OBVIOUS
  <2>3. QED
    BY <2>1, <2>2 DEF AtStart
<1>5. Command(AtStart(ram, 0, on), 16) = AtStart(ram, 0, on)
  <2>1. Command(AtStart(ram, 0, on), 16)
           = [AtStart(ram, 0, on) EXCEPT !.col = (0 % 16) + (16 * (16 - 16))]
    BY DEF Command, AtStart, TwoByte
  <2>2. (0 % 16) + (16 * (16 - 16)) = 0
    OBVIOUS
  <2>3. QED
    BY <2>1, <2>2 DEF AtStart
<1>6. Command(AtStart(ram, 0, on), 176) = AtStart(ram, 0, on)
  <2>1. Command(AtStart(ram, 0, on), 176) = [AtStart(ram, 0, on) EXCEPT !.page = 176 - 176]
    BY DEF Command, AtStart, TwoByte
  <2>2. QED
    BY <2>1 DEF AtStart
<1>7. Command(AtStart(ram, 0, on), 174) = AtStart(ram, 0, FALSE)
  <2>1. Command(AtStart(ram, 0, on), 174) = [AtStart(ram, 0, on) EXCEPT !.on = (174 = 175)]
    BY DEF Command, AtStart, TwoByte
  <2>2. (174 = 175) = FALSE
    OBVIOUS
  <2>3. QED
    BY <2>1, <2>2, <1>0, Zenon
<1>8. Command(AtStart(ram, 0, on), 175) = AtStart(ram, 0, TRUE)
  <2>1. Command(AtStart(ram, 0, on), 175) = [AtStart(ram, 0, on) EXCEPT !.on = (175 = 175)]
    BY DEF Command, AtStart, TwoByte
  <2>2. (175 = 175) = TRUE
    OBVIOUS
  <2>3. QED
    BY <2>1, <2>2, <1>0, Zenon
<1>9. QED
  BY <1>1, <1>2, <1>3, <1>4, <1>5, <1>6, <1>7, <1>8

\* The panel after the driver's first commands, whatever was in its memory.
LEMMA HardwareInit ==
    ASSUME NEW ram
    PROVE  /\ oled_hardware_init(AtStart(ram, 0, FALSE)) = AtStart(ram, 0, TRUE)
           /\ Chip!oled_hardware_init(AtStart(ram, 0, FALSE)) = AtStart(ram, 0, TRUE)
<1> DEFINE bytes == <<174, 0, 16, 64, 176, 129, 102, 161, 166, 168, 63, 200, 211, 0,
                      213, 128, 217, 31, 218, 18, 219, 48, 141, 20, 175>>
           Expects == {6, 10, 13, 15, 17, 19, 21, 23}
           At(i) == IF i = 25 THEN AtStart(ram, 0, TRUE)
                    ELSE AtStart(ram, IF i \in Expects THEN 1 ELSE 0, FALSE)
           w == [i \in 0 .. 25 |-> At(i)]
<1>1. AtStart(ram, 0, FALSE) = At(0)
  OBVIOUS
<1>2. /\ \A i \in Expects : At(i) = AtStart(ram, 1, FALSE)
      /\ \A i \in (0 .. 24) \ Expects : At(i) = AtStart(ram, 0, FALSE)
      /\ At(25) = AtStart(ram, 0, TRUE)
  <2>1. \A i \in Expects : i # 25
    OBVIOUS
  <2>2. \A i \in (0 .. 24) \ Expects : i # 25 /\ i \notin Expects
    OBVIOUS
  <2> HIDE DEF Expects
  <2>3. QED
    BY <2>1, <2>2, Zenon
<1>3. /\ Len(bytes) = 25
      /\ \A i \in 1 .. 25 : bytes[i] \in 0 .. 255
      /\ \A i \in Expects : bytes[i] \in TwoByte
      /\ \A i \in {1, 2, 3, 4, 5, 8, 9, 12} : bytes[i] \in {0, 16, 64, 161, 166, 176, 200, 174}
      /\ bytes[25] = 175
  BY DEF TwoByte
<1>4. /\ \A i \in 1 .. 25 : \/ i - 1 \in Expects /\ i \in (1 .. 24) \ Expects
                            \/ i - 1 \in (0 .. 24) \ Expects /\ i \in Expects
                            \/ i - 1 \in (0 .. 24) \ Expects /\ i \in {1, 2, 3, 4, 5, 8, 9, 12}
                            \/ i - 1 \in (0 .. 24) \ Expects /\ i = 25
      /\ \A i \in {1, 2, 3, 4, 5, 8, 9, 12} : i \in (0 .. 24) \ Expects
      /\ \A i \in 1 .. 24 : i \in 0 .. 24
  OBVIOUS
<1> HIDE DEF At, bytes, Expects
<1>5. ASSUME NEW i \in 1 .. 25
      PROVE  At(i) = oled_write_cmd_data(At(i - 1), bytes[i], FALSE)
  <2>1. oled_write_cmd_data(At(i - 1), bytes[i], FALSE) = Command(At(i - 1), bytes[i])
    BY Zenon DEF oled_write_cmd_data
  <2>2. CASE i - 1 \in Expects /\ i \in (1 .. 24) \ Expects
    <3>1. At(i - 1) = AtStart(ram, 1, FALSE) /\ At(i) = AtStart(ram, 0, FALSE)
      BY <1>2, <1>4, <2>2, Zenon
    <3>2. QED
      BY <1>3, <2>1, <3>1, StartCommands, Zenon
  <2>3. CASE i - 1 \in (0 .. 24) \ Expects /\ i \in Expects
    <3>1. At(i - 1) = AtStart(ram, 0, FALSE) /\ At(i) = AtStart(ram, 1, FALSE)
      BY <1>2, <2>3, Zenon
    <3>2. Command(AtStart(ram, 0, FALSE), bytes[i]) = AtStart(ram, 1, FALSE)
      BY <1>3, <2>3, StartCommands
    <3>3. QED
      BY <2>1, <3>1, <3>2, Zenon
  <2>4. CASE i - 1 \in (0 .. 24) \ Expects /\ i \in {1, 2, 3, 4, 5, 8, 9, 12}
    <3>1. At(i - 1) = AtStart(ram, 0, FALSE) /\ At(i) = AtStart(ram, 0, FALSE)
      BY <1>2, <1>4, <2>4, Zenon
    <3>2. bytes[i] \in {0, 16, 64, 161, 166, 176, 200} \/ bytes[i] = 174
      BY <1>3, <2>4
    <3>3. Command(AtStart(ram, 0, FALSE), bytes[i]) = AtStart(ram, 0, FALSE)
      BY <3>2, StartCommands
    <3>4. QED
      BY <2>1, <3>1, <3>3, Zenon
  <2>5. CASE i - 1 \in (0 .. 24) \ Expects /\ i = 25
    <3>1. At(i - 1) = AtStart(ram, 0, FALSE) /\ At(i) = AtStart(ram, 0, TRUE)
      BY <1>2, <2>5, Zenon
    <3>2. QED
      BY <1>3, <2>1, <2>5, <3>1, StartCommands, Zenon
  <2>6. QED
    BY <1>4, <2>2, <2>3, <2>4, <2>5, Zenon
<1>6. w = [i \in 0 .. Len(bytes) |->
              IF i = 0 THEN AtStart(ram, 0, FALSE)
              ELSE oled_write_cmd_data(w[i - 1], bytes[i], FALSE)]
  <2>1. \A i \in 0 .. 25 : i # 0 => i \in 1 .. 25 /\ i - 1 \in 0 .. 25
    OBVIOUS
  <2>2. ASSUME NEW i \in 0 .. 25
        PROVE  At(i) = IF i = 0 THEN AtStart(ram, 0, FALSE)
                       ELSE oled_write_cmd_data(w[i - 1], bytes[i], FALSE)
    BY <1>1, <1>5, <2>1, Zenon
  <2>3. QED
    BY <1>3, <2>2, Zenon
<1>7. /\ Commands(AtStart(ram, 0, FALSE), bytes) = w[25]
      /\ Chip!Commands(AtStart(ram, 0, FALSE), bytes) = w[25]
  <2> HIDE DEF w
  <2>1. Len(bytes) \in Nat
    BY <1>3
  <2>2. /\ Commands(AtStart(ram, 0, FALSE), bytes) = w[Len(bytes)]
        /\ Chip!Commands(AtStart(ram, 0, FALSE), bytes) = w[Len(bytes)]
    BY <1>6, <2>1, CommandsGive
  <2>3. QED
    BY <1>3, <2>2, Zenon
<1>8. w[25] = AtStart(ram, 0, TRUE)
  <2>1. 25 \in 0 .. 25
    OBVIOUS
  <2>2. QED
    BY <1>2, <2>1, Zenon
<1>9. QED
  BY <1>7, <1>8 DEF oled_hardware_init, Chip!oled_hardware_init, bytes

\* A position reaches the panel as three commands.
LEMMA PosCommands ==
    ASSUME NEW panel, panel.args = 0, NEW x \in 0 .. 255, NEW y \in 0 .. 7
    PROVE  /\ Command(panel, 176 + y) = [panel EXCEPT !.page = y]
           /\ Command(panel, x % 16)
                = [panel EXCEPT !.col = (16 * (panel.col \div 16)) + (x % 16)]
           /\ Command(panel, 16 + ((x % 256) \div 16))
                = [panel EXCEPT !.col = (panel.col % 16) + (16 * (x \div 16))]
<1>2. ASSUME NEW b \in 176 .. 183
      PROVE  Command(panel, b) = [panel EXCEPT !.page = b - 176]
  BY DEF Command, TwoByte
<1>3. ASSUME NEW b \in 0 .. 15
      PROVE  Command(panel, b) = [panel EXCEPT !.col = (16 * (panel.col \div 16)) + b]
  BY DEF Command, TwoByte
<1>4. ASSUME NEW b \in 16 .. 31
      PROVE  Command(panel, b) = [panel EXCEPT !.col = (panel.col % 16) + (16 * (b - 16))]
  BY DEF Command, TwoByte
<1>5. Command(panel, 176 + y) = [panel EXCEPT !.page = y]
  <2>1. 176 + y \in 176 .. 183 /\ (176 + y) - 176 = y
    OBVIOUS
  <2>2. QED
    BY <1>2, <2>1, Zenon
<1>6. Command(panel, x % 16) = [panel EXCEPT !.col = (16 * (panel.col \div 16)) + (x % 16)]
  <2>1. x % 16 \in 0 .. 15
    OBVIOUS
  <2>2. QED
    BY <1>3, <2>1, Zenon
<1>7. Command(panel, 16 + ((x % 256) \div 16))
         = [panel EXCEPT !.col = (panel.col % 16) + (16 * (x \div 16))]
  <2> DEFINE b == 16 + ((x % 256) \div 16)
  <2>1. b \in 16 .. 31 /\ b - 16 = x \div 16
    OBVIOUS
  <2> HIDE DEF b
  <2>2. Command(panel, b) = [panel EXCEPT !.col = (panel.col % 16) + (16 * (b - 16))]
    BY <1>4, <2>1
  <2>3. Command(panel, b) = [panel EXCEPT !.col = (panel.col % 16) + (16 * (x \div 16))]
    BY <2>1, <2>2, Zenon
  <2>4. QED
    BY <2>3 DEF b
<1>8. QED
  BY <1>5, <1>6, <1>7

\* A panel at the start of a page.
AtPage(ram, page, on) == [ram |-> ram, page |-> page, col |-> 0, args |-> 0, on |-> on]

\* Setting a position at column 0 only chooses the page.
LEMMA SetPage ==
    ASSUME NEW ram, NEW on, NEW page, NEW y \in 0 .. 7
    PROVE  /\ OLED_DIsp_Set_Pos(AtPage(ram, page, on), 0, y) = AtPage(ram, y, on)
           /\ Chip!OLED_DIsp_Set_Pos(AtPage(ram, page, on), 0, y) = AtPage(ram, y, on)
<1> DEFINE bytes == SetPos(0, y)
           w == [i \in 0 .. 3 |-> AtPage(ram, IF i = 0 THEN page ELSE y, on)]
<1>1. Len(bytes) = 3 /\ bytes[1] = 176 + y /\ bytes[2] = 0 % 16 /\ bytes[3] = 16 + ((0 % 256) \div 16)
  BY DEF SetPos
<1>2. 0 \in 0 .. 255
  OBVIOUS
<1>3. ASSUME NEW p
      PROVE  /\ AtPage(ram, p, on).args = 0 /\ AtPage(ram, p, on).col = 0
             /\ [AtPage(ram, p, on) EXCEPT !.page = y] = AtPage(ram, y, on)
             /\ [AtPage(ram, p, on) EXCEPT !.col = 0] = AtPage(ram, p, on)
  <2>1. AtPage(ram, p, on).args = 0 /\ AtPage(ram, p, on).col = 0
    BY DEF AtPage
  <2>2. [AtPage(ram, p, on) EXCEPT !.page = y] = AtPage(ram, y, on)
    BY DEF AtPage
  <2>3. [AtPage(ram, p, on) EXCEPT !.col = 0] = AtPage(ram, p, on)
    BY DEF AtPage
  <2>4. QED
    BY <2>1, <2>2, <2>3
<1> HIDE DEF bytes
<1>0. ASSUME NEW p
      PROVE  /\ Command(AtPage(ram, p, on), 176 + y) = AtPage(ram, y, on)
             /\ Command(AtPage(ram, p, on), 0 % 16) = AtPage(ram, p, on)
             /\ Command(AtPage(ram, p, on), 16 + ((0 % 256) \div 16)) = AtPage(ram, p, on)
  <2> DEFINE panel == AtPage(ram, p, on)
  <2>1. panel.args = 0 /\ panel.col = 0
    BY <1>3, Zenon
  <2>2. /\ [panel EXCEPT !.page = y] = AtPage(ram, y, on)
        /\ [panel EXCEPT !.col = 0] = panel
    BY <1>3, Zenon
  <2> HIDE DEF panel
  <2>3. /\ Command(panel, 176 + y) = [panel EXCEPT !.page = y]
        /\ Command(panel, 0 % 16) = [panel EXCEPT !.col = (16 * (0 \div 16)) + (0 % 16)]
        /\ Command(panel, 16 + ((0 % 256) \div 16)) = [panel EXCEPT !.col = (0 % 16) + (16 * (0 \div 16))]
    <3>1. \A x \in 0 .. 255, z \in 0 .. 7 :
             /\ Command(panel, 176 + z) = [panel EXCEPT !.page = z]
             /\ Command(panel, x % 16)
                  = [panel EXCEPT !.col = (16 * (panel.col \div 16)) + (x % 16)]
             /\ Command(panel, 16 + ((x % 256) \div 16))
                  = [panel EXCEPT !.col = (panel.col % 16) + (16 * (x \div 16))]
      BY <2>1, PosCommands
    <3>2. QED
      BY <1>2, <2>1, <3>1, Zenon
  <2>4. (16 * (0 \div 16)) + (0 % 16) = 0 /\ (0 % 16) + (16 * (0 \div 16)) = 0
    OBVIOUS
  <2>5. QED
    BY <2>2, <2>3, <2>4, Zenon DEF panel
<1>4. Command(AtPage(ram, page, on), bytes[1]) = AtPage(ram, y, on)
  BY <1>0, <1>1, Zenon
<1>5. Command(AtPage(ram, y, on), bytes[2]) = AtPage(ram, y, on)
  BY <1>0, <1>1, Zenon
<1>6. Command(AtPage(ram, y, on), bytes[3]) = AtPage(ram, y, on)
  BY <1>0, <1>1, Zenon
<1>7. w[0] = AtPage(ram, page, on) /\ \A i \in 1 .. 3 : w[i] = AtPage(ram, y, on)
  OBVIOUS
<1>8. w = [i \in 0 .. Len(bytes) |->
              IF i = 0 THEN AtPage(ram, page, on)
              ELSE oled_write_cmd_data(w[i - 1], bytes[i], FALSE)]
  <2>1. w[1] = oled_write_cmd_data(w[0], bytes[1], FALSE)
    BY <1>4, <1>7 DEF oled_write_cmd_data
  <2>2. w[2] = oled_write_cmd_data(w[1], bytes[2], FALSE)
    BY <1>5, <1>7 DEF oled_write_cmd_data
  <2>3. w[3] = oled_write_cmd_data(w[2], bytes[3], FALSE)
    BY <1>6, <1>7 DEF oled_write_cmd_data
  <2>4. ASSUME NEW i \in 0 .. 3
        PROVE  w[i] = IF i = 0 THEN AtPage(ram, page, on)
                      ELSE oled_write_cmd_data(w[i - 1], bytes[i], FALSE)
    <3>1. i = 0 \/ (i = 1 /\ i - 1 = 0) \/ (i = 2 /\ i - 1 = 1) \/ (i = 3 /\ i - 1 = 2)
      OBVIOUS
    <3> HIDE DEF w
    <3>2. QED
      BY <1>7, <2>1, <2>2, <2>3, <3>1
  <2>5. 0 .. Len(bytes) = 0 .. 3
    BY <1>1
  <2>6. QED
    BY <2>4, <2>5, Zenon
<1>9. /\ Commands(AtPage(ram, page, on), bytes) = w[Len(bytes)]
      /\ Chip!Commands(AtPage(ram, page, on), bytes) = w[Len(bytes)]
  <2> HIDE DEF w
  <2>1. Len(bytes) \in Nat
    BY <1>1
  <2>2. QED
    BY <1>8, <2>1, CommandsGive
<1>10. QED
  <2>1. 3 \in 1 .. 3
    OBVIOUS
  <2>2. Chip!OLED_DIsp_Set_Pos(AtPage(ram, page, on), 0, y) = Chip!Commands(AtPage(ram, page, on), bytes)
    BY DEF Chip!OLED_DIsp_Set_Pos, Chip!SetPos, SetPos, bytes
  <2>3. OLED_DIsp_Set_Pos(AtPage(ram, page, on), 0, y) = Commands(AtPage(ram, page, on), bytes)
    BY DEF OLED_DIsp_Set_Pos, bytes
  <2>4. w[Len(bytes)] = AtPage(ram, y, on)
    BY <1>1, <1>7, <2>1, Zenon
  <2> HIDE DEF w
  <2>5. QED
    BY <1>9, <2>2, <2>3, <2>4, Zenon

\* Data to a panel of some width, as each driver writes them to its own.
Wrote(width, panel, bytes) ==
    [panel EXCEPT !.ram[panel.page] = [c \in 0 .. width - 1 |->
                      LET i == 1 + ((c - panel.col) % width)
                      IN  IF i <= Len(bytes) THEN bytes[i] ELSE @[c]],
                  !.col = (@ + Len(bytes)) % width]

\* Each driver's function writes to a panel of its width.
LEMMA WroteIs == \A panel, bytes : /\ oled_write_datas(panel, bytes) = Wrote(WIDTH, panel, bytes)
                                   /\ Chip!oled_write_datas(panel, bytes) = Wrote(XRES, panel, bytes)
  BY Zenon DEF oled_write_datas, Chip!oled_write_datas, Columns, Chip!Columns, Wrote

\* Bytes as a page; and equal bytes, as data and as a page.
Line(width, bytes) == [c \in 0 .. width - 1 |-> bytes[c + 1]]
SameBytes(width, v) == [c \in 1 .. width |-> v]
SameLine(width, v) == [c \in 0 .. width - 1 |-> v]

\* As many bytes as a page is wide fill it and bring the column back to 0.
LEMMA PageWritten ==
    ASSUME NEW width \in Nat \ {0}, NEW on, NEW y, NEW ram, NEW bytes, Len(bytes) = width
    PROVE  Wrote(width, AtPage(ram, y, on), bytes)
             = AtPage([ram EXCEPT ![y] = Line(width, bytes)], y, on)
<1> DEFINE panel == AtPage(ram, y, on)
           line == [c \in 0 .. width - 1 |->
                       LET i == 1 + ((c - panel.col) % width)
                       IN  IF i <= Len(bytes) THEN bytes[i] ELSE panel.ram[y][c]]
           col == (panel.col + Len(bytes)) % width
<1>1. panel.col = 0 /\ panel.page = y /\ panel.ram = ram
  BY DEF AtPage
<1>2. line = Line(width, bytes)
  <2> SUFFICES ASSUME NEW c \in 0 .. width - 1
               PROVE  (LET i == 1 + ((c - panel.col) % width)
                       IN  IF i <= Len(bytes) THEN bytes[i] ELSE panel.ram[y][c]) = bytes[c + 1]
    BY Zenon DEF Line
  <2>1. (c - panel.col) % width = c
    BY <1>1
  <2> DEFINE i == 1 + ((c - panel.col) % width)
  <2>2. i = c + 1 /\ i <= Len(bytes)
    BY <2>1
  <2> HIDE DEF panel, i
  <2>3. (IF i <= Len(bytes) THEN bytes[i] ELSE panel.ram[y][c]) = bytes[c + 1]
    BY <2>2, Zenon
  <2>4. QED
    BY <2>3 DEF i
<1>3. col = 0
  BY <1>1
<1>4. Wrote(width, panel, bytes) = [panel EXCEPT !.ram = [panel.ram EXCEPT ![y] = line], !.col = col]
  BY <1>1 DEF Wrote
<1> HIDE DEF line, col
<1>5. Wrote(width, panel, bytes) = [panel EXCEPT !.ram = [ram EXCEPT ![y] = Line(width, bytes)], !.col = 0]
  BY <1>1, <1>2, <1>3, <1>4, Zenon
<1>6. ASSUME NEW r PROVE [panel EXCEPT !.ram = r, !.col = 0] = AtPage(r, y, on)
  <2>1. [panel EXCEPT !.ram = r] = AtPage(r, y, on)
    BY DEF AtPage
  <2>2. [AtPage(r, y, on) EXCEPT !.col = 0] = AtPage(r, y, on)
    BY DEF AtPage
  <2>3. QED
    BY <2>1, <2>2, Zenon
<1>7. QED
  BY <1>5, <1>6, Zenon

\* The panel before page y of a filling, which is after page y - 1.
Filling(pages, width, ram, of, on) ==
    [y \in 0 .. pages |->
        AtPage([p \in 0 .. pages - 1 |-> IF p < y THEN SameLine(width, of[p]) ELSE ram[p]],
               IF y = 0 THEN 0 ELSE y - 1, on)]

\* Each page of a filling comes from the one before, with either driver's commands.
FillsPages(w, pages, width, ram, of, on) ==
    /\ w[0] = AtPage(ram, 0, on)
    /\ \A y \in 1 .. pages :
           /\ w[y] = Wrote(width, OLED_DIsp_Set_Pos(w[y - 1], 0, y - 1), SameBytes(width, of[y - 1]))
           /\ w[y] = Wrote(width, Chip!OLED_DIsp_Set_Pos(w[y - 1], 0, y - 1),
                           SameBytes(width, of[y - 1]))
    /\ w[pages] = AtPage([p \in 0 .. pages - 1 |-> SameLine(width, of[p])], pages - 1, on)

\* A filling goes page by page and leaves the panel on its last page.
LEMMA FillingSteps ==
    ASSUME NEW pages \in 1 .. 8, NEW width \in Nat \ {0}, NEW on, NEW ram, NEW of,
           ram = [p \in 0 .. pages - 1 |-> ram[p]]
    PROVE  FillsPages(Filling(pages, width, ram, of, on), pages, width, ram, of, on)
<1> DEFINE Rows(y) == [p \in 0 .. pages - 1 |-> IF p < y THEN SameLine(width, of[p]) ELSE ram[p]]
           Before(y) == IF y = 0 THEN 0 ELSE y - 1
           w == Filling(pages, width, ram, of, on)
<1>1. \A y \in 0 .. pages : w[y] = AtPage(Rows(y), Before(y), on)
  BY Zenon DEF Filling
<1> HIDE DEF w
<1>2. w[0] = AtPage(ram, 0, on)
  <2>1. Rows(0) = ram
    <3>1. \A p \in 0 .. pages - 1 : ~(p < 0)
      OBVIOUS
    <3>2. QED
      BY <3>1, Zenon
  <2>2. 0 \in 0 .. pages
    OBVIOUS
  <2>3. QED
    BY <1>1, <2>1, <2>2, Zenon
<1>3. ASSUME NEW y \in 1 .. pages
      PROVE  /\ w[y] = Wrote(width, OLED_DIsp_Set_Pos(w[y - 1], 0, y - 1), SameBytes(width, of[y - 1]))
             /\ w[y] = Wrote(width, Chip!OLED_DIsp_Set_Pos(w[y - 1], 0, y - 1), SameBytes(width, of[y - 1]))
  <2> DEFINE q == y - 1
             v == of[q]
             r == Rows(q)
  <2>1. q \in 0 .. 7 /\ q \in 0 .. pages - 1 /\ q \in 0 .. pages /\ y \in 0 .. pages /\ y # 0
    OBVIOUS
  <2>2. [r EXCEPT ![q] = SameLine(width, v)] = Rows(y)
    <3>1. ASSUME NEW p \in 0 .. pages - 1
          PROVE  [r EXCEPT ![q] = SameLine(width, v)][p] = Rows(y)[p]
      <4>1. CASE p = q
        <5>1. p < y
          BY <4>1
        <5>2. QED
          BY <2>1, <4>1, <5>1, Zenon
      <4>2. CASE p # q
        <5>1. p < q <=> p < y
          BY <4>2
        <5> HIDE DEF q
        <5>2. QED
          BY <4>2, <5>1, Zenon
      <4>3. QED
        BY <4>1, <4>2
    <3> HIDE DEF q
    <3>2. QED
      BY <3>1, Zenon
  <2>3. w[y] = AtPage(Rows(y), q, on)
    BY <1>1, <2>1, Zenon
  <2>4. w[q] = AtPage(r, Before(q), on)
    BY <1>1, <2>1, Zenon
  <2> HIDE DEF q, v, r, Before, Rows
  <2>5. /\ OLED_DIsp_Set_Pos(w[q], 0, q) = AtPage(r, q, on)
        /\ Chip!OLED_DIsp_Set_Pos(w[q], 0, q) = AtPage(r, q, on)
    BY <2>1, <2>4, SetPage
  <2>6. Wrote(width, AtPage(r, q, on), SameBytes(width, v)) = AtPage([r EXCEPT ![q] = SameLine(width, v)], q, on)
    <3>1. Len(SameBytes(width, v)) = width
      BY DEF SameBytes
    <3>2. Line(width, SameBytes(width, v)) = SameLine(width, v)
      BY DEF Line, SameBytes, SameLine
    <3>3. Wrote(width, AtPage(r, q, on), SameBytes(width, v))
            = AtPage([r EXCEPT ![q] = Line(width, SameBytes(width, v))], q, on)
      BY <3>1, PageWritten
    <3>4. QED
      BY <3>2, <3>3, Zenon
  <2>7. QED
    BY <2>2, <2>3, <2>5, <2>6, Zenon DEF q, v
<1>4. w[pages] = AtPage([p \in 0 .. pages - 1 |-> SameLine(width, of[p])], pages - 1, on)
  <2>1. pages \in 0 .. pages /\ pages # 0 /\ \A p \in 0 .. pages - 1 : p < pages
    OBVIOUS
  <2>2. Rows(pages) = [p \in 0 .. pages - 1 |-> SameLine(width, of[p])]
    BY <2>1, Zenon
  <2>3. QED
    BY <1>1, <2>1, <2>2, Zenon
<1>5. QED
  BY <1>2, <1>3, <1>4, Zenon DEF FillsPages, w

\* Filling the panel page by page leaves it on its last page.
LEMMA FilledIs ==
    ASSUME NEW on, NEW ram, NEW of, ram = [p \in Pages |-> ram[p]]
    PROVE  Filled(AtPage(ram, 0, on), of)
             = AtPage([p \in Pages |-> SameLine(WIDTH, of[p])], PAGES - 1, on)
<1> DEFINE w == Filling(PAGES, WIDTH, ram, of, on)
           Fill(before, y) == oled_write_datas(OLED_DIsp_Set_Pos(before, 0, y - 1),
                                               SameBytes(WIDTH, of[y - 1]))
           Runs(f) == f = [y \in 0 .. PAGES |->
                              IF y = 0 THEN AtPage(ram, 0, on) ELSE Fill(f[y - 1], y)]
           after == CHOOSE f : Runs(f)
<1>1. Filled(AtPage(ram, 0, on), of) = after[PAGES]
  BY Zenon DEF Filled, SameBytes
<1>2. /\ w[0] = AtPage(ram, 0, on)
      /\ \A y \in 1 .. PAGES : w[y] = Fill(w[y - 1], y)
      /\ w[PAGES] = AtPage([p \in Pages |-> SameLine(WIDTH, of[p])], PAGES - 1, on)
  <2>1. PAGES \in 1 .. 8 /\ WIDTH \in Nat \ {0} /\ Pages = 0 .. PAGES - 1
    BY PanelAssumption DEF Pages
  <2>2. /\ w[0] = AtPage(ram, 0, on)
        /\ \A y \in 1 .. PAGES : w[y] = Wrote(WIDTH, OLED_DIsp_Set_Pos(w[y - 1], 0, y - 1),
                                             SameBytes(WIDTH, of[y - 1]))
        /\ w[PAGES] = AtPage([p \in Pages |-> SameLine(WIDTH, of[p])], PAGES - 1, on)
    <3>1. ram = [p \in 0 .. PAGES - 1 |-> ram[p]]
      BY <2>1
    <3>2. FillsPages(Filling(PAGES, WIDTH, ram, of, on), PAGES, WIDTH, ram, of, on)
      BY <2>1, <3>1, FillingSteps
    <3>3. QED
      BY <2>1, <3>2, Zenon DEF FillsPages
  <2> HIDE DEF w
  <2>3. QED
    BY <2>2, WroteIs, Zenon
<1>3. \A y \in 0 .. PAGES : y # 0 => y \in 1 .. PAGES
  BY PanelAssumption
<1>4. 0 \in 0 .. PAGES /\ \A y \in 1 .. PAGES : y \in 0 .. PAGES /\ y # 0
  BY PanelAssumption
<1>5. w = [y \in 0 .. PAGES |-> w[y]]
  BY Zenon DEF Filling
<1> HIDE DEF w, Fill
<1>6. Runs(w)
  BY <1>2, <1>3, <1>5, Zenon
<1>7. Runs(after)
  <2> HIDE DEF Runs
  <2>1. QED
    BY <1>6, Zenon
<1> HIDE DEF after
<1>8. after[0] = w[0] /\ \A y \in 1 .. PAGES : after[y - 1] = w[y - 1] => after[y] = w[y]
  BY <1>2, <1>4, <1>7, Zenon
<1>9. PAGES \in Nat
  BY PanelAssumption
<1>10. after[PAGES] = w[PAGES]
  BY <1>8, <1>9, SameSteps
<1>11. QED
  BY <1>1, <1>2, <1>10, Zenon

-------------------------------------------------------------------------------
\* The OLED as a character device.

Lines == [Pages -> [Columns -> 0 .. 255]]

\* Between two commands the panel is on and waits for no argument.
Glass == [ram : Lines, page : Pages, col : 0 .. 255, args : {0}, on : {TRUE}]

OledType == oled \in [panel : Glass, todo : Seq(BOOLEAN \X (0 .. 255)), calls : Nat,
                      picture : Lines, x : Columns, y : Pages]

\* How far column c is after column s, around the page.
Ahead(c, s) == (c - s) % WIDTH

\* The bytes of data that the call still sends, after k commands.
BytesLeft(k) == Len(oled.todo) - k

\* The call still sends the last k commands of a position in column s, then data
\* that end where the next call goes on.
Queued(s, k) == /\ BytesLeft(k) \in 0 .. WIDTH
                /\ \A i \in 1 .. k : oled.todo[i] = <<FALSE, SetPos(s, oled.y)[(3 - k) + i]>>
                /\ \A i \in k + 1 .. Len(oled.todo) : oled.todo[i][1] = TRUE
                /\ oled.x = (s + BytesLeft(k)) % WIDTH

\* What the commands sent so far have told the panel.
Aimed(s, k) == /\ k < 3 => oled.panel.page = oled.y
               /\ k < 2 => oled.panel.col % 16 = s % 16
               /\ k = 0 => oled.panel.col = s

\* The picture is the panel's memory with the data to come.
Painted(s, k) == \A p \in Pages, c \in Columns :
    oled.picture[p][c] = IF p = oled.y /\ Ahead(c, s) < BytesLeft(k)
                         THEN oled.todo[(k + 1) + Ahead(c, s)][2]
                         ELSE oled.panel.ram[p][c]

OledInv == /\ OledType
           /\ \E s \in Columns, k \in 0 .. 3 : Queued(s, k) /\ Aimed(s, k) /\ Painted(s, k)

\* The panel's size.
LEMMA WidthType == WIDTH \in 1 .. 256 /\ PAGES \in 1 .. 8
  BY PanelAssumption, CallAssumption

\* Numbers of bytes that a page holds.
LEMMA BytesOfPage == \A n \in Nat \ {0} : n <= WIDTH =>
    /\ n \in 1 .. WIDTH /\ n - 1 \in 0 .. WIDTH
    /\ 0 < n /\ ~(WIDTH - 1 < n - 1)
  BY WidthType

\* A column is a byte.
LEMMA ColumnType == \A c \in Columns : c \in Nat /\ c < WIDTH /\ c \in 0 .. 255
  BY WidthType DEF Columns

\* Columns around the page, without the modulus.
LEMMA AheadIs == ASSUME NEW c \in Columns, NEW s \in Columns
                 PROVE  Ahead(c, s) = IF c < s THEN c - s + WIDTH ELSE c - s
<1>1. WIDTH \in Nat \ {0} /\ c \in 0 .. WIDTH - 1 /\ s \in 0 .. WIDTH - 1
  BY PanelAssumption DEF Columns
<1>2. CASE c < s
  <2>1. c - s \in Int /\ -WIDTH <= c - s /\ c - s < 0
    BY <1>1, <1>2
  <2>2. (c - s) % WIDTH = (c - s) + WIDTH
    <3> DEFINE d == c - s
    <3>1. d \in Int /\ -WIDTH <= d /\ d < 0
      BY <2>1
    <3> HIDE DEF d
    <3>2. d % WIDTH = d + WIDTH
      BY <1>1, <3>1
    <3>3. QED
      BY <3>2 DEF d
  <2>3. QED
    BY <1>1, <1>2, <2>2 DEF Ahead
<1>3. CASE ~(c < s)
  <2>1. (c - s) % WIDTH = c - s
    BY <1>1, <1>3
  <2>2. QED
    BY <1>3, <2>1 DEF Ahead
<1>4. QED
  BY <1>2, <1>3

\* Ahead is 0 at the column itself and counts up to WIDTH - 1.
LEMMA AheadType == ASSUME NEW c \in Columns, NEW s \in Columns
                   PROVE  Ahead(c, s) \in 0 .. WIDTH - 1 /\ (Ahead(c, s) = 0 <=> c = s)
<1>1. Ahead(c, s) = IF c < s THEN c - s + WIDTH ELSE c - s
  BY AheadIs
<1>2. QED
  BY <1>1, WidthType DEF Columns

\* The column after the last is column 0.
LEMMA NextColumn == ASSUME NEW s \in Columns
                    PROVE  /\ (s + 1) % WIDTH = IF s = WIDTH - 1 THEN 0 ELSE s + 1
                           /\ (s + 1) % WIDTH \in Columns
<1>1. WIDTH \in Nat \ {0} /\ s \in 0 .. WIDTH - 1
  BY PanelAssumption DEF Columns
<1>2. CASE s = WIDTH - 1
  BY <1>1, <1>2 DEF Columns
<1>3. CASE s # WIDTH - 1
  BY <1>1, <1>3 DEF Columns
<1>4. QED
  BY <1>2, <1>3

\* The column after s is one less behind every other.
LEMMA AheadOfNext == ASSUME NEW c \in Columns, NEW s \in Columns
                     PROVE  Ahead(c, (s + 1) % WIDTH)
                              = IF c = s THEN WIDTH - 1 ELSE Ahead(c, s) - 1
<1> DEFINE t == (s + 1) % WIDTH
<1>1. t \in Columns /\ t = IF s = WIDTH - 1 THEN 0 ELSE s + 1
  BY NextColumn
<1> HIDE DEF t
<1>2. Ahead(c, t) = IF c < t THEN c - t + WIDTH ELSE c - t
  BY <1>1, AheadIs
<1>3. Ahead(c, s) = IF c < s THEN c - s + WIDTH ELSE c - s
  BY AheadIs
<1>4. Ahead(c, t) = IF c = s THEN WIDTH - 1 ELSE Ahead(c, s) - 1
  BY <1>1, <1>2, <1>3, WidthType DEF Columns
<1>5. QED
  BY <1>4 DEF t

\* The data after one byte end at the same column.
LEMMA SameEnd == ASSUME NEW s \in Columns, NEW n \in 1 .. WIDTH
                 PROVE  (((s + 1) % WIDTH) + (n - 1)) % WIDTH = (s + n) % WIDTH
<1>1. WIDTH \in Nat \ {0} /\ s \in 0 .. WIDTH - 1 /\ n \in Nat
  BY PanelAssumption DEF Columns
<1>2. CASE s = WIDTH - 1
  <2>1. (s + 1) % WIDTH = 0
    BY <1>2, NextColumn
  <2>2. ((s + 1) % WIDTH) + (n - 1) = n - 1 /\ s + n = (n - 1) + WIDTH
    BY <1>1, <1>2, <2>1
  <2>3. (n - 1) % WIDTH = n - 1
    BY <1>1
  <2>4. ((n - 1) + WIDTH) % WIDTH = n - 1
    <3> DEFINE m == n - 1
    <3>1. m \in 0 .. WIDTH - 1
      BY <1>1
    <3> HIDE DEF m
    <3>2. (m + WIDTH) % WIDTH = m
      BY <1>1, <3>1
    <3>3. QED
      BY <3>2 DEF m
  <2>5. QED
    BY <2>2, <2>3, <2>4
<1>3. CASE s # WIDTH - 1
  <2>1. (s + 1) % WIDTH = s + 1
    BY <1>3, NextColumn
  <2>2. ((s + 1) % WIDTH) + (n - 1) = s + n
    BY <1>1, <2>1
  <2>3. QED
    BY <2>2
<1>4. QED
  BY <1>2, <1>3

\* The panel after probe, and nothing to send.
LEMMA OledStart == ASSUME InitOled(5) PROVE OledInv
<1> DEFINE noisy == PoweredOn(5).ram
           zero == [y \in Pages |-> 0]
           dark == [p \in Pages |-> SameLine(WIDTH, zero[p])]
<1>1. AtStart(noisy, 0, TRUE) = AtPage(noisy, 0, TRUE)
  BY DEF AtStart, AtPage
<1>2. noisy = [p \in Pages |-> noisy[p]]
  BY DEF PoweredOn
<1>3. OLED_DIsp_Clear(oled_hardware_init(PoweredOn(5))) = AtPage(dark, PAGES - 1, TRUE)
  <2>1. oled_hardware_init(PoweredOn(5)) = AtPage(noisy, 0, TRUE)
    <3>1. PoweredOn(5) = AtStart(noisy, 0, FALSE)
      BY DEF PoweredOn, AtStart
    <3> HIDE DEF noisy
    <3>2. QED
      BY <1>1, <3>1, HardwareInit
  <2> HIDE DEF noisy, zero
  <2>2. Filled(AtPage(noisy, 0, TRUE), zero) = AtPage(dark, PAGES - 1, TRUE)
    BY <1>2, FilledIs
  <2>3. QED
    BY <2>1, <2>2, Zenon DEF OLED_DIsp_Clear, zero
<1>4. dark = PoweredOn(0).ram /\ dark \in Lines
  <2>1. dark = [p \in Pages |-> [c \in Columns |-> 0]]
    BY Zenon DEF SameLine, Columns
  <2>2. PoweredOn(0).ram = [p \in Pages |-> [c \in Columns |-> 0]]
    BY DEF PoweredOn
  <2>3. QED
    BY <2>1, <2>2 DEF Lines
<1> HIDE DEF dark
<1>5. oled = [panel |-> AtPage(dark, PAGES - 1, TRUE), todo |-> <<>>, calls |-> 0,
              picture |-> dark, x |-> 0, y |-> PAGES - 1]
  BY <1>3, <1>4, Zenon DEF InitOled
<1>6. 0 \in Columns /\ PAGES - 1 \in Pages
  BY WidthType DEF Columns, Pages
<1>7. AtPage(dark, PAGES - 1, TRUE) \in Glass
  <2>1. 0 \in 0 .. 255
    OBVIOUS
  <2>2. QED
    BY <1>4, <1>6, <2>1, Zenon DEF AtPage, Glass
<1>8. OledType
  <2>1. <<>> \in Seq(BOOLEAN \X (0 .. 255)) /\ 0 \in Nat
    OBVIOUS
  <2>2. QED
    BY <1>4, <1>5, <1>6, <1>7, <2>1, Zenon DEF OledType
<1>9. /\ oled.todo = <<>> /\ oled.x = 0 /\ oled.y = PAGES - 1 /\ oled.picture = dark
      /\ oled.panel.ram = dark /\ oled.panel.page = PAGES - 1 /\ oled.panel.col = 0
  BY <1>5 DEF AtPage
<1>10. Queued(0, 0) /\ Aimed(0, 0)
  BY <1>9, WidthType DEF Queued, Aimed, BytesLeft
<1>11. Painted(0, 0)
  <2>1. BytesLeft(0) = 0
    BY <1>9 DEF BytesLeft
  <2>2. ASSUME NEW c \in Columns PROVE ~(Ahead(c, 0) < BytesLeft(0))
    BY <1>6, <2>1, AheadIs DEF Columns
  <2>3. QED
    BY <1>9, <2>2, Zenon DEF Painted
<1>12. QED
  <2>1. 0 \in 0 .. 3
    OBVIOUS
  <2>2. QED
    BY <1>6, <1>8, <1>10, <1>11, <2>1, Zenon DEF OledInv

\* What a transfer takes off the front.
LEMMA TailMoves == ASSUME NEW S, NEW q \in Seq(S), q # <<>>
                   PROVE  /\ Len(q) \in Nat \ {0} /\ Head(q) = q[1] /\ Head(q) \in S
                          /\ Tail(q) \in Seq(S) /\ Len(Tail(q)) = Len(q) - 1
                          /\ \A i \in 1 .. Len(q) - 1 : Tail(q)[i] = q[i + 1]
  BY HeadTailProperties, EmptySeq

\* A transfer that leaves the panel's memory alone leaves the picture to be painted.
LEMMA CommandSent ==
    ASSUME OledType, NEW s \in Columns, NEW k \in 1 .. 3, Queued(s, k), Painted(s, k),
           oled.todo # <<>>, NEW panel \in Glass, panel.ram = oled.panel.ram,
           oled' = [oled EXCEPT !.todo = Tail(oled.todo), !.panel = panel]
    PROVE  OledType' /\ Queued(s, k - 1)' /\ Painted(s, k - 1)'
<1> DEFINE todo == oled.todo
           next == Tail(todo)
<1>1. todo \in Seq(BOOLEAN \X (0 .. 255))
  BY DEF OledType
<1>2. /\ Len(todo) \in Nat \ {0} /\ next \in Seq(BOOLEAN \X (0 .. 255))
      /\ Len(next) = Len(todo) - 1 /\ \A i \in 1 .. Len(todo) - 1 : next[i] = todo[i + 1]
  <2> HIDE DEF todo
  <2>1. todo # <<>>
    BY DEF todo
  <2>2. QED
    BY <1>1, <2>1, TailMoves
<1> HIDE DEF next
<1>3. /\ oled'.todo = next /\ oled'.panel = panel /\ oled'.x = oled.x /\ oled'.y = oled.y
      /\ oled'.picture = oled.picture
  BY DEF OledType, next
<1>4. OledType'
  <2>1. oled' = [oled EXCEPT !.todo = next, !.panel = panel]
    BY DEF next
  <2>2. QED
    BY <1>2, <2>1, Zenon DEF OledType
<1>5. BytesLeft(k - 1)' = BytesLeft(k)
  BY <1>2, <1>3 DEF BytesLeft
<1>6. Queued(s, k - 1)'
  <2>1. BytesLeft(k)' \in Int /\ BytesLeft(k) \in 0 .. WIDTH
    BY <1>2, <1>3 DEF Queued, BytesLeft
  <2>2. ASSUME NEW i \in 1 .. k - 1
        PROVE  next[i] = <<FALSE, SetPos(s, oled.y)[(3 - (k - 1)) + i]>>
    <3>1. i + 1 \in 1 .. k /\ (3 - k) + (i + 1) = (3 - (k - 1)) + i
      OBVIOUS
    <3>2. todo[i + 1] = <<FALSE, SetPos(s, oled.y)[(3 - k) + (i + 1)]>>
      BY <3>1, Zenon DEF Queued
    <3>3. i \in 1 .. Len(todo) - 1
      BY <1>2, <2>1 DEF BytesLeft
    <3>4. QED
      BY <1>2, <3>1, <3>2, <3>3, Zenon
  <2>3. ASSUME NEW i \in (k - 1) + 1 .. Len(next) PROVE next[i][1] = TRUE
    <3>1. i + 1 \in k + 1 .. Len(todo) /\ i \in 1 .. Len(todo) - 1
      BY <1>2
    <3>2. QED
      BY <1>2, <3>1, Zenon DEF Queued
  <2>4. oled'.x = (s + BytesLeft(k)) % WIDTH
    BY <1>3 DEF Queued
  <2>5. QED
    BY <1>3, <1>5, <2>1, <2>2, <2>3, <2>4, Zenon DEF Queued
<1>7. Painted(s, k - 1)'
  <2>1. BytesLeft(k) \in 0 .. WIDTH
    BY DEF Queued
  <2>2. ASSUME NEW c \in Columns, Ahead(c, s) < BytesLeft(k)
        PROVE  next[((k - 1) + 1) + Ahead(c, s)] = todo[(k + 1) + Ahead(c, s)]
    <3>1. Ahead(c, s) \in 0 .. WIDTH - 1
      BY AheadType
    <3>2. /\ ((k - 1) + 1) + Ahead(c, s) \in 1 .. Len(todo) - 1
          /\ (((k - 1) + 1) + Ahead(c, s)) + 1 = (k + 1) + Ahead(c, s)
      BY <1>2, <2>2, <3>1 DEF BytesLeft
    <3>3. QED
      BY <1>2, <3>2, Zenon
  <2>3. ASSUME NEW p \in Pages, NEW c \in Columns
        PROVE  oled'.picture[p][c] = IF p = oled'.y /\ Ahead(c, s) < BytesLeft(k - 1)'
                                     THEN oled'.todo[((k - 1) + 1) + Ahead(c, s)][2]
                                     ELSE oled'.panel.ram[p][c]
    <3>1. oled.picture[p][c] = IF p = oled.y /\ Ahead(c, s) < BytesLeft(k)
                               THEN todo[(k + 1) + Ahead(c, s)][2] ELSE oled.panel.ram[p][c]
      BY DEF Painted
    <3>2. CASE p = oled.y /\ Ahead(c, s) < BytesLeft(k)
      BY <1>3, <1>5, <2>2, <3>1, <3>2, Zenon
    <3>3. CASE ~(p = oled.y /\ Ahead(c, s) < BytesLeft(k))
      BY <1>3, <1>5, <3>1, <3>3, Zenon
    <3>4. QED
      BY <3>2, <3>3
  <2>4. QED
    BY <2>3, Zenon DEF Painted, Ahead
<1>8. QED
  BY <1>4, <1>6, <1>7

\* A byte of data is painted where it belongs.
LEMMA DataSent ==
    ASSUME OledType, NEW s \in Columns, Queued(s, 0), Aimed(s, 0), Painted(s, 0),
           oled.todo # <<>>,
           oled' = [oled EXCEPT !.todo = Tail(oled.todo),
                                !.panel = Data(oled.panel, oled.todo[1][2])]
    PROVE  /\ OledType' /\ (s + 1) % WIDTH \in Columns
           /\ Queued((s + 1) % WIDTH, 0)' /\ Aimed((s + 1) % WIDTH, 0)'
           /\ Painted((s + 1) % WIDTH, 0)'
<1> DEFINE todo == oled.todo
           next == Tail(todo)
           byte == todo[1][2]
           y == oled.y
           t == (s + 1) % WIDTH
           panel == Data(oled.panel, byte)
           ram == [oled.panel.ram EXCEPT ![y] = [oled.panel.ram[y] EXCEPT ![s] = byte]]
<1>1. todo \in Seq(BOOLEAN \X (0 .. 255)) /\ y \in Pages /\ oled.panel \in Glass
  BY DEF OledType
<1>2. /\ Len(todo) \in Nat \ {0} /\ next \in Seq(BOOLEAN \X (0 .. 255))
      /\ Len(next) = Len(todo) - 1 /\ \A i \in 1 .. Len(todo) - 1 : next[i] = todo[i + 1]
      /\ byte \in 0 .. 255
  <2> HIDE DEF todo
  <2>1. todo # <<>>
    BY DEF todo
  <2>2. todo[1] \in BOOLEAN \X (0 .. 255)
    BY <1>1, <2>1, TailMoves
  <2>3. byte \in 0 .. 255
    BY <2>2
  <2>4. QED
    BY <1>1, <2>1, <2>3, TailMoves
<1>3. t \in Columns /\ t \in 0 .. 255
  <2>1. t \in Columns
    BY NextColumn
  <2> HIDE DEF t
  <2>2. t \in 0 .. 255
    BY <2>1, ColumnType
  <2>3. QED
    BY <2>1, <2>2
<1>4. oled.panel.page = y /\ oled.panel.col = s
  BY DEF Aimed
<1>5. ram \in Lines /\ \A p \in Pages, c \in Columns :
             ram[p][c] = IF p = y /\ c = s THEN byte ELSE oled.panel.ram[p][c]
  <2>1. oled.panel.ram \in Lines
    BY <1>1 DEF Glass
  <2> DEFINE old == oled.panel.ram
  <2> HIDE DEF old, byte
  <2>2. old \in Lines
    BY <2>1 DEF old
  <2>3. [old EXCEPT ![y] = [old[y] EXCEPT ![s] = byte]] \in Lines
    BY <1>1, <1>2, <2>2 DEF Lines
  <2>4. ASSUME NEW p \in Pages, NEW c \in Columns
        PROVE  [old EXCEPT ![y] = [old[y] EXCEPT ![s] = byte]][p][c]
                 = IF p = y /\ c = s THEN byte ELSE old[p][c]
    BY <1>1, <1>2, <2>2 DEF Lines
  <2>5. QED
    BY <2>3, <2>4, Zenon DEF old
<1>6. panel = [oled.panel EXCEPT !.ram = ram, !.col = t]
  BY <1>4 DEF Data
<1> HIDE DEF next, byte, t, ram, panel
<1>7. panel \in Glass /\ panel.ram = ram /\ panel.col = t /\ panel.page = y
  <2>1. panel \in Glass
    BY <1>1, <1>3, <1>5, <1>6, Zenon DEF Glass
  <2>2. panel.ram = ram
    BY <1>1, <1>6 DEF Glass
  <2>3. panel.col = t
    BY <1>1, <1>6 DEF Glass
  <2>4. panel.page = oled.panel.page
    BY <1>1, <1>6 DEF Glass
  <2>5. QED
    BY <1>4, <2>1, <2>2, <2>3, <2>4, Zenon
<1>8. /\ oled'.todo = next /\ oled'.panel = panel /\ oled'.x = oled.x /\ oled'.y = oled.y
      /\ oled'.picture = oled.picture
  BY DEF OledType, next, panel, byte
<1>9. OledType'
  <2>1. oled' = [oled EXCEPT !.todo = next, !.panel = panel]
    BY DEF next, panel, byte
  <2>2. QED
    BY <1>2, <1>7, <2>1, Zenon DEF OledType
<1>10. /\ BytesLeft(0) = Len(todo) /\ Len(todo) \in 1 .. WIDTH
       /\ BytesLeft(0)' = Len(todo) - 1 /\ BytesLeft(0)' \in 0 .. WIDTH
  <2>1. BytesLeft(0) = Len(todo) - 0 /\ BytesLeft(0) \in 0 .. WIDTH
    BY DEF Queued, BytesLeft
  <2>2. BytesLeft(0)' = Len(next) - 0
    BY <1>8, Zenon DEF BytesLeft
  <2> DEFINE n == Len(todo)
  <2>3. n \in Nat \ {0} /\ BytesLeft(0) = n - 0 /\ BytesLeft(0)' = (n - 1) - 0
    BY <1>2, <2>1, <2>2, Zenon
  <2> HIDE DEF n
  <2>4. BytesLeft(0) = n /\ BytesLeft(0)' = n - 1
    BY <2>3
  <2>5. n \in 1 .. WIDTH /\ n - 1 \in 0 .. WIDTH
    <3>1. n <= WIDTH
      BY <2>1, <2>3, <2>4
    <3>2. QED
      BY <2>3, <3>1, BytesOfPage, Zenon
  <2>6. QED
    BY <2>4, <2>5, Zenon DEF n
<1>11. Queued(t, 0)'
  <2>1. ASSUME NEW i \in 0 + 1 .. Len(next) PROVE next[i][1] = TRUE
    <3>1. i + 1 \in 0 + 1 .. Len(todo) /\ i \in 1 .. Len(todo) - 1
      BY <1>2
    <3>2. QED
      BY <1>2, <3>1, Zenon DEF Queued
  <2>2. oled.x = (t + (Len(todo) - 1)) % WIDTH
    <3>1. oled.x = (s + Len(todo)) % WIDTH
      BY <1>10 DEF Queued
    <3>2. QED
      BY <1>10, <3>1, SameEnd DEF t
  <2>3. 1 .. 0 = {}
    OBVIOUS
  <2>4. QED
    BY <1>8, <1>10, <2>1, <2>2, <2>3, Zenon DEF Queued
<1>12. Aimed(t, 0)'
  BY <1>7, <1>8 DEF Aimed
<1>13. Painted(t, 0)'
  <2> SUFFICES ASSUME NEW p \in Pages, NEW c \in Columns
               PROVE  oled.picture[p][c] = IF p = y /\ Ahead(c, t) < Len(todo) - 1
                                           THEN next[(0 + 1) + Ahead(c, t)][2] ELSE ram[p][c]
    <3>1. ASSUME NEW p \in Pages, NEW c \in Columns,
                 oled.picture[p][c] = IF p = y /\ Ahead(c, t) < Len(todo) - 1
                                      THEN next[(0 + 1) + Ahead(c, t)][2] ELSE ram[p][c]
          PROVE  oled'.picture[p][c] = IF p = oled'.y /\ Ahead(c, t) < BytesLeft(0)'
                                       THEN oled'.todo[(0 + 1) + Ahead(c, t)][2]
                                       ELSE oled'.panel.ram[p][c]
      <4>1. oled'.picture[p][c] = oled.picture[p][c] /\ oled'.y = y /\ oled'.todo = next
            /\ BytesLeft(0)' = Len(todo) - 1 /\ oled'.panel.ram = ram
        BY <1>7, <1>8, <1>10, Zenon
      <4>2. CASE p = y /\ Ahead(c, t) < Len(todo) - 1
        BY <3>1, <4>1, <4>2, Zenon
      <4>3. CASE ~(p = y /\ Ahead(c, t) < Len(todo) - 1)
        BY <3>1, <4>1, <4>3, Zenon
      <4>4. QED
        BY <4>2, <4>3
    <3>2. QED
      BY <3>1, Zenon DEF Painted, Ahead
  <2>1. oled.picture[p][c] = IF p = y /\ Ahead(c, s) < Len(todo)
                             THEN todo[(0 + 1) + Ahead(c, s)][2] ELSE oled.panel.ram[p][c]
    BY <1>10, Zenon DEF Painted
  <2>2. /\ Ahead(c, t) = IF c = s THEN WIDTH - 1 ELSE Ahead(c, s) - 1
        /\ Ahead(c, s) \in 0 .. WIDTH - 1 /\ (c = s <=> Ahead(c, s) = 0)
    BY AheadOfNext, AheadType, Zenon DEF t
  <2>3. CASE p = y /\ c = s
    <3>1. /\ Ahead(c, s) = 0 /\ Ahead(c, s) < Len(todo) /\ ~(Ahead(c, t) < Len(todo) - 1)
          /\ (0 + 1) + Ahead(c, s) = 1
      <4>1. Len(todo) \in 1 .. WIDTH /\ Ahead(c, s) = 0 /\ Ahead(c, t) = WIDTH - 1
        BY <1>10, <2>2, <2>3
      <4>2. 0 < Len(todo) /\ ~(WIDTH - 1 < Len(todo) - 1)
        <5>1. Len(todo) <= WIDTH
          BY <4>1
        <5>2. QED
          BY <1>2, <5>1, BytesOfPage, Zenon
      <4>3. (0 + 1) + 0 = 1
        OBVIOUS
      <4>4. QED
        BY <4>1, <4>2, <4>3, Zenon
    <3>2. oled.picture[p][c] = byte
      BY <2>1, <2>3, <3>1, Zenon DEF byte
    <3>3. ram[p][c] = byte
      BY <1>5, <2>3, Zenon
    <3>4. QED
      BY <3>1, <3>2, <3>3, Zenon
  <2>4. CASE p = y /\ c # s
    <3>1. Ahead(c, t) = Ahead(c, s) - 1 /\ Ahead(c, s) # 0
      BY <2>2, <2>4
    <3>2. CASE Ahead(c, s) < Len(todo)
      <4>1. /\ Ahead(c, t) < Len(todo) - 1
            /\ (0 + 1) + Ahead(c, t) \in 1 .. Len(todo) - 1
            /\ ((0 + 1) + Ahead(c, t)) + 1 = (0 + 1) + Ahead(c, s)
        BY <1>10, <2>2, <3>1, <3>2
      <4>2. next[(0 + 1) + Ahead(c, t)] = todo[(0 + 1) + Ahead(c, s)]
        BY <1>2, <4>1, Zenon
      <4>3. QED
        BY <2>1, <2>4, <3>2, <4>1, <4>2, Zenon
    <3>3. CASE ~(Ahead(c, s) < Len(todo))
      <4>1. ~(Ahead(c, t) < Len(todo) - 1)
        BY <1>10, <2>2, <3>1, <3>3
      <4>2. QED
        BY <1>5, <2>1, <2>4, <3>3, <4>1, Zenon
    <3>4. QED
      BY <3>2, <3>3
  <2>5. CASE p # y
    BY <1>5, <2>1, <2>5, Zenon
  <2>6. QED
    BY <2>3, <2>4, <2>5
<1>14. QED
  BY <1>3, <1>9, <1>11, <1>12, <1>13, Zenon DEF t

\* Sending the next byte keeps the invariant, be it a command or data.
LEMMA TransferKeeps == ASSUME OledInv, Transfer PROVE OledInv'
<1> DEFINE todo == oled.todo
<1>1. PICK s \in Columns, k \in 0 .. 3 : Queued(s, k) /\ Aimed(s, k) /\ Painted(s, k)
  BY DEF OledInv
<1>2. OledType /\ todo # <<>> /\ oled.panel \in Glass /\ oled.y \in Pages
  BY DEF OledInv, OledType, Transfer
<1>3. todo \in Seq(BOOLEAN \X (0 .. 255))
  BY DEF OledInv, OledType
<1>4. Head(todo) = todo[1] /\ Len(todo) \in Nat \ {0}
  <2> HIDE DEF todo
  <2>1. QED
    BY <1>2, <1>3, TailMoves
<1>5. oled' = [oled EXCEPT !.todo = Tail(todo),
                           !.panel = oled_write_cmd_data(oled.panel, todo[1][2], todo[1][1])]
  BY <1>4 DEF Transfer, OledInv, OledType
<1>6. CASE k = 0
  <2>1. todo[1][1] = TRUE
    <3>1. 1 \in k + 1 .. Len(todo)
      BY <1>4, <1>6
    <3>2. QED
      BY <1>1, <3>1, Zenon DEF Queued
  <2>2. oled' = [oled EXCEPT !.todo = Tail(todo), !.panel = Data(oled.panel, todo[1][2])]
    BY <1>5, <2>1, Zenon DEF oled_write_cmd_data
  <2>3. Queued(s, 0) /\ Aimed(s, 0) /\ Painted(s, 0)
    BY <1>1, <1>6, Zenon
  <2> DEFINE t == (s + 1) % WIDTH
  <2>4. OledType' /\ t \in Columns /\ Queued(t, 0)' /\ Aimed(t, 0)' /\ Painted(t, 0)'
    BY <1>2, <2>2, <2>3, DataSent
  <2>5. 0 \in 0 .. 3
    OBVIOUS
  <2>6. QED
    BY <2>4, <2>5, Zenon DEF OledInv
<1>7. CASE k \in 1 .. 3
  <2> DEFINE byte == SetPos(s, oled.y)[(3 - k) + 1]
             panel == Command(oled.panel, byte)
             col == oled.panel.col
  <2>1. todo[1] = <<FALSE, byte>>
    <3>1. 1 \in 1 .. k
      BY <1>7
    <3>2. QED
      BY <1>1, <3>1, Zenon DEF Queued
  <2>2. oled' = [oled EXCEPT !.todo = Tail(todo), !.panel = panel]
    <3>1. todo[1][1] = FALSE /\ todo[1][2] = byte
      BY <2>1
    <3>2. QED
      BY <1>5, <3>1, Zenon DEF oled_write_cmd_data
  <2>3. /\ SetPos(s, oled.y)[1] = 176 + oled.y /\ SetPos(s, oled.y)[2] = s % 16
        /\ SetPos(s, oled.y)[3] = 16 + ((s % 256) \div 16)
    BY DEF SetPos
  <2>4. /\ oled.panel.args = 0 /\ oled.panel.page \in Pages /\ col \in 0 .. 255
        /\ s \in 0 .. 255 /\ oled.y \in 0 .. 7
    <3>1. oled.panel.args = 0 /\ oled.panel.page \in Pages /\ col \in 0 .. 255
      BY <1>2 DEF Glass
    <3>2. s \in 0 .. 255
      BY ColumnType
    <3>3. oled.y \in 0 .. 7
      BY <1>2, WidthType DEF Pages
    <3>4. QED
      BY <3>1, <3>2, <3>3
  <2>5. /\ Command(oled.panel, 176 + oled.y) = [oled.panel EXCEPT !.page = oled.y]
        /\ Command(oled.panel, s % 16) = [oled.panel EXCEPT !.col = (16 * (col \div 16)) + (s % 16)]
        /\ Command(oled.panel, 16 + ((s % 256) \div 16))
             = [oled.panel EXCEPT !.col = (col % 16) + (16 * (s \div 16))]
    <3> DEFINE before == oled.panel
    <3>1. before.args = 0
      BY <2>4
    <3> HIDE DEF before, col
    <3>2. \A x \in 0 .. 255, y \in 0 .. 7 :
             /\ Command(before, 176 + y) = [before EXCEPT !.page = y]
             /\ Command(before, x % 16)
                  = [before EXCEPT !.col = (16 * (before.col \div 16)) + (x % 16)]
             /\ Command(before, 16 + ((x % 256) \div 16))
                  = [before EXCEPT !.col = (before.col % 16) + (16 * (x \div 16))]
      BY <3>1, PosCommands
    <3>3. QED
      BY <2>4, <3>2, Zenon DEF before, col
  <2> HIDE DEF panel, byte
  <2>6. panel \in Glass /\ panel.ram = oled.panel.ram
        /\ (k - 1 < 3 => panel.page = oled.y)
        /\ (k - 1 < 2 => panel.col % 16 = s % 16)
        /\ (k - 1 = 0 => panel.col = s)
    <3>1. CASE k = 3
      <4>1. panel = [oled.panel EXCEPT !.page = oled.y]
        <5>1. (3 - k) + 1 = 1
          BY <3>1
        <5>2. QED
          BY <2>3, <2>5, <5>1, Zenon DEF panel, byte
      <4>2. panel \in Glass
        BY <1>2, <4>1, Zenon DEF Glass
      <4>3. panel.ram = oled.panel.ram /\ panel.page = oled.y
        BY <1>2, <4>1 DEF Glass
      <4>4. QED
        BY <3>1, <4>2, <4>3
    <3>2. CASE k = 2
      <4> DEFINE new == (16 * (col \div 16)) + (s % 16)
      <4>1. panel = [oled.panel EXCEPT !.col = new]
        <5>1. (3 - k) + 1 = 2
          BY <3>2
        <5>2. QED
          BY <2>3, <2>5, <5>1, Zenon DEF panel, byte
      <4>2. new \in 0 .. 255 /\ new % 16 = s % 16
        <5> DEFINE high == col \div 16
                   low == s % 16
        <5>1. high \in 0 .. 15 /\ low \in 0 .. 15
          BY <2>4
        <5> HIDE DEF high, low
        <5>2. (16 * high) + low \in 0 .. 255 /\ ((16 * high) + low) % 16 = low
          BY <5>1
        <5>3. QED
          BY <5>2 DEF high, low
      <4> HIDE DEF new
      <4>3. panel \in Glass
        BY <1>2, <4>1, <4>2, Zenon DEF Glass
      <4>4. panel.ram = oled.panel.ram /\ panel.page = oled.panel.page /\ panel.col = new
        BY <1>2, <4>1 DEF Glass
      <4>5. oled.panel.page = oled.y
        BY <1>1, <3>2 DEF Aimed
      <4>6. QED
        BY <3>2, <4>2, <4>3, <4>4, <4>5
    <3>3. CASE k = 1
      <4> DEFINE new == (col % 16) + (16 * (s \div 16))
      <4>1. panel = [oled.panel EXCEPT !.col = new]
        <5>1. (3 - k) + 1 = 3
          BY <3>3
        <5>2. QED
          BY <2>3, <2>5, <5>1, Zenon DEF panel, byte
      <4>2. new = s
        <5>1. col % 16 = s % 16
          BY <1>1, <3>3 DEF Aimed
        <5>2. (s % 16) + (16 * (s \div 16)) = s
          BY <2>4
        <5>3. QED
          BY <5>1, <5>2, Zenon
      <4> HIDE DEF new
      <4>3. panel \in Glass
        BY <1>2, <2>4, <4>1, <4>2, Zenon DEF Glass
      <4>4. panel.ram = oled.panel.ram /\ panel.page = oled.panel.page /\ panel.col = s
        BY <1>2, <4>1, <4>2 DEF Glass
      <4>5. oled.panel.page = oled.y
        BY <1>1, <3>3 DEF Aimed
      <4>6. QED
        BY <3>3, <4>3, <4>4, <4>5
    <3>4. QED
      BY <1>7, <3>1, <3>2, <3>3
  <2>7. OledType' /\ Queued(s, k - 1)' /\ Painted(s, k - 1)'
    BY <1>1, <1>2, <1>7, <2>2, <2>6, CommandSent
  <2>8. Aimed(s, k - 1)'
    <3>1. oled'.panel = panel /\ oled'.y = oled.y
      BY <1>2, <2>2 DEF OledType
    <3>2. QED
      BY <2>6, <3>1 DEF Aimed
  <2>9. k - 1 \in 0 .. 3
    BY <1>7
  <2>10. QED
    BY <2>7, <2>8, <2>9, Zenon DEF OledInv
<1>8. QED
  BY <1>6, <1>7

\* Between two calls the panel shows the picture and is where the next call goes on.
LEMMA Idle == ASSUME OledInv, oled.todo = <<>>
              PROVE  /\ oled.panel.page = oled.y /\ oled.panel.col = oled.x
                     /\ oled.picture = oled.panel.ram
<1>1. PICK s \in Columns, k \in 0 .. 3 : Queued(s, k) /\ Aimed(s, k) /\ Painted(s, k)
  BY DEF OledInv
<1>2. k = 0 /\ BytesLeft(k) = 0
  <2>1. BytesLeft(k) = 0 - k /\ BytesLeft(k) \in 0 .. WIDTH
    BY <1>1 DEF Queued, BytesLeft
  <2>2. QED
    BY <2>1, WidthType
<1>3. oled.panel.page = oled.y /\ oled.panel.col = s
  BY <1>1, <1>2 DEF Aimed
<1>4. oled.x = s
  <2>1. oled.x = (s + 0) % WIDTH
    BY <1>1, <1>2, Zenon DEF Queued
  <2>2. s \in Nat /\ s < WIDTH
    BY ColumnType
  <2>3. (s + 0) % WIDTH = s
    BY <2>2, WidthType
  <2>4. QED
    BY <2>1, <2>3
<1>5. oled.picture = oled.panel.ram
  <2>1. oled.picture \in Lines /\ oled.panel.ram \in Lines
    BY DEF OledInv, OledType, Glass
  <2>2. ASSUME NEW p \in Pages, NEW c \in Columns
        PROVE  oled.picture[p][c] = oled.panel.ram[p][c]
    <3>1. ~(Ahead(c, s) < BytesLeft(k))
      BY <1>2, AheadType, WidthType
    <3>2. QED
      BY <1>1, <3>1, Zenon DEF Painted
  <2> DEFINE a == oled.picture
             b == oled.panel.ram
  <2>3. a \in Lines /\ b \in Lines /\ \A p \in Pages, c \in Columns : a[p][c] = b[p][c]
    BY <2>1, <2>2
  <2> HIDE DEF a, b
  <2>4. \A p \in Pages : a[p] = b[p]
    BY <2>3 DEF Lines
  <2>5. a = b
    BY <2>3, <2>4 DEF Lines
  <2>6. QED
    BY <2>5 DEF a, b
<1>6. QED
  BY <1>3, <1>4, <1>5

\* A call whose transfers are those of its data, after those of its position unless
\* it goes on where the last call ended.
LEMMA CallKeeps ==
    ASSUME OledInv, NEW x \in Columns, NEW y \in Pages,
           NEW datas \in Seq(0 .. 255), Len(datas) <= WIDTH,
           NEW transfers \in Seq(BOOLEAN \X (0 .. 255)), NEW k \in {0, 3},
           Len(transfers) = k + Len(datas),
           \A i \in 1 .. k : transfers[i] = <<FALSE, SetPos(x, y)[i]>>,
           \A i \in 1 .. Len(datas) : transfers[k + i] = <<TRUE, datas[i]>>,
           k = 0 => x = oled.x /\ y = oled.y,
           Calls(x, y, datas, transfers)
    PROVE  OledInv'
<1> DEFINE n == Len(datas)
           picture == [oled.picture EXCEPT ![y] = [c \in Columns |->
                          IF 1 + Ahead(c, x) <= n THEN datas[1 + Ahead(c, x)] ELSE oled.picture[y][c]]]
           end == (x + n) % WIDTH
<1>1. n \in Nat /\ n <= WIDTH /\ \A i \in 1 .. n : datas[i] \in 0 .. 255
  BY ElementOfSeq, LenProperties
<1>2. OledType /\ oled.todo = <<>>
  BY DEF OledInv, Calls
<1>3. /\ oled.panel.page = oled.y /\ oled.panel.col = oled.x
      /\ oled.picture = oled.panel.ram
  BY <1>2, Idle
<1>4. picture = Written(x, y, datas)
  BY DEF Written, Ahead
<1>5. oled' = [oled EXCEPT !.todo = transfers, !.calls = oled.calls + 1,
                           !.picture = picture, !.x = end, !.y = y]
  BY <1>2, <1>4 DEF Calls, OledType
<1>6. /\ picture \in Lines
      /\ \A p \in Pages, c \in Columns :
             picture[p][c] = IF p = y /\ Ahead(c, x) < n THEN datas[1 + Ahead(c, x)]
                             ELSE oled.picture[p][c]
  <2> DEFINE old == oled.picture
             line == [c \in Columns |->
                          IF 1 + Ahead(c, x) <= n THEN datas[1 + Ahead(c, x)] ELSE old[y][c]]
  <2>1. old \in Lines
    BY <1>2 DEF OledType
  <2>2. ASSUME NEW c \in Columns
        PROVE  (1 + Ahead(c, x) <= n <=> Ahead(c, x) < n)
               /\ (Ahead(c, x) < n => 1 + Ahead(c, x) \in 1 .. n)
    <3>1. Ahead(c, x) \in 0 .. WIDTH - 1
      BY AheadType
    <3> HIDE DEF n
    <3>2. QED
      BY <1>1, <3>1, WidthType
  <2> HIDE DEF old, n
  <2>3. line \in [Columns -> 0 .. 255]
    <3>1. ASSUME NEW c \in Columns
          PROVE  (IF 1 + Ahead(c, x) <= n THEN datas[1 + Ahead(c, x)] ELSE old[y][c]) \in 0 .. 255
      <4>1. old[y][c] \in 0 .. 255
        BY <2>1 DEF Lines
      <4>2. QED
        BY <1>1, <2>2, <4>1, Zenon
    <3>2. QED
      BY <3>1, Zenon
  <2>4. \A c \in Columns : line[c] = IF Ahead(c, x) < n THEN datas[1 + Ahead(c, x)] ELSE old[y][c]
    BY <2>2, Zenon
  <2> HIDE DEF line
  <2>5. [old EXCEPT ![y] = line] \in Lines
    BY <2>1, <2>3 DEF Lines
  <2>6. ASSUME NEW p \in Pages, NEW c \in Columns
        PROVE  [old EXCEPT ![y] = line][p][c] = IF p = y THEN line[c] ELSE old[p][c]
    BY <2>1 DEF Lines
  <2>7. picture = [old EXCEPT ![y] = line]
    BY Zenon DEF old, line
  <2> HIDE DEF picture
  <2>8. \A p \in Pages, c \in Columns :
             picture[p][c] = IF p = y /\ Ahead(c, x) < n THEN datas[1 + Ahead(c, x)] ELSE old[p][c]
    BY <2>4, <2>6, <2>7
  <2>9. QED
    BY <2>5, <2>7, <2>8 DEF old
<1>7. end \in Columns
  <2> HIDE DEF n
  <2>1. x \in Nat
    BY ColumnType
  <2>2. QED
    BY <1>1, <2>1, WidthType DEF Columns
<1> HIDE DEF n, picture, end
<1>8. /\ oled'.todo = transfers /\ oled'.panel = oled.panel /\ oled'.picture = picture
      /\ oled'.x = end /\ oled'.y = y
  BY <1>2, <1>5 DEF OledType
<1>9. OledType'
  <2>1. oled.calls + 1 \in Nat
    BY <1>2 DEF OledType
  <2>2. QED
    BY <1>2, <1>5, <1>6, <1>7, <2>1, Zenon DEF OledType
<1>10. BytesLeft(k)' = n
  <2>1. BytesLeft(k)' = (k + n) - k
    BY <1>8, Zenon DEF BytesLeft, n
  <2>2. QED
    BY <1>1, <2>1
<1>11. Queued(x, k)'
  <2>1. n \in 0 .. WIDTH
    BY <1>1, WidthType
  <2>2. ASSUME NEW i \in 1 .. k PROVE transfers[i] = <<FALSE, SetPos(x, y)[(3 - k) + i]>>
    <3>1. (3 - k) + i = i
      OBVIOUS
    <3>2. QED
      BY <3>1, Zenon
  <2>3. ASSUME NEW i \in k + 1 .. Len(transfers) PROVE transfers[i][1] = TRUE
    <3>1. i - k \in 1 .. n /\ k + (i - k) = i
      BY <1>1 DEF n
    <3>2. transfers[i] = <<TRUE, datas[i - k]>>
      BY <3>1 DEF n
    <3>3. QED
      BY <3>2
  <2>4. QED
    BY <1>8, <1>10, <2>1, <2>2, <2>3, Zenon DEF Queued, end
<1>12. Aimed(x, k)'
  BY <1>3, <1>8 DEF Aimed
<1>13. Painted(x, k)'
  <2>1. ASSUME NEW c \in Columns, Ahead(c, x) < n
        PROVE  transfers[(k + 1) + Ahead(c, x)][2] = datas[1 + Ahead(c, x)]
    <3>1. Ahead(c, x) \in 0 .. WIDTH - 1
      BY AheadType
    <3>2. 1 + Ahead(c, x) \in 1 .. n /\ k + (1 + Ahead(c, x)) = (k + 1) + Ahead(c, x)
      BY <1>1, <2>1, <3>1, WidthType
    <3>3. transfers[(k + 1) + Ahead(c, x)] = <<TRUE, datas[1 + Ahead(c, x)]>>
      BY <3>2, Zenon DEF n
    <3>4. QED
      BY <3>3
  <2>2. ASSUME NEW p \in Pages, NEW c \in Columns
        PROVE  oled'.picture[p][c] = IF p = oled'.y /\ Ahead(c, x) < BytesLeft(k)'
                                     THEN oled'.todo[(k + 1) + Ahead(c, x)][2]
                                     ELSE oled'.panel.ram[p][c]
    <3>1. CASE p = y /\ Ahead(c, x) < n
      <4>1. picture[p][c] = datas[1 + Ahead(c, x)]
        BY <1>6, <3>1, Zenon
      <4>2. QED
        BY <1>8, <1>10, <2>1, <3>1, <4>1, Zenon
    <3>2. CASE ~(p = y /\ Ahead(c, x) < n)
      <4>1. picture[p][c] = oled.panel.ram[p][c]
        BY <1>3, <1>6, <3>2, Zenon
      <4>2. QED
        BY <1>8, <1>10, <3>2, <4>1, Zenon
    <3>3. QED
      BY <3>1, <3>2
  <2>3. QED
    BY <2>2, Zenon DEF Painted, Ahead
<1>14. k \in 0 .. 3
  OBVIOUS
<1>15. QED
  BY <1>9, <1>11, <1>12, <1>13, <1>14, Zenon DEF OledInv

\* An interval from 1 has one end.
LEMMA SameInterval == ASSUME NEW m \in Nat, NEW n \in Nat, 1 .. m = 1 .. n PROVE m = n
<1>1. CASE m < n
  BY <1>1
<1>2. CASE n < m
  BY <1>2
<1>3. QED
  BY <1>1, <1>2

\* A function on 1 .. n is a sequence of n elements.
LEMMA FunctionIsSeq ==
    ASSUME NEW S, NEW n \in Nat, NEW t \in [1 .. n -> S]
    PROVE  t \in Seq(S) /\ Len(t) = n
<1>1. t \in Seq(S)
  BY SeqDef, Zenon
<1>2. Len(t) \in Nat /\ DOMAIN t = 1 .. Len(t)
  BY <1>1, LenProperties, Zenon
<1>3. 1 .. n = 1 .. Len(t)
  BY <1>2, Zenon
<1>4. Len(t) = n
  BY <1>2, <1>3, SameInterval
<1>5. QED
  BY <1>1, <1>4

\* Bytes are sent in their order, with one level of D/C.
LEMMA TransfersAre ==
    ASSUME NEW dc \in BOOLEAN, NEW bytes \in Seq(0 .. 255)
    PROVE  /\ Transfers(dc, bytes) \in Seq(BOOLEAN \X (0 .. 255))
           /\ Len(Transfers(dc, bytes)) = Len(bytes)
           /\ \A i \in 1 .. Len(bytes) : Transfers(dc, bytes)[i] = <<dc, bytes[i]>>
<1>1. Len(bytes) \in Nat /\ \A i \in 1 .. Len(bytes) : bytes[i] \in 0 .. 255
  BY ElementOfSeq, LenProperties
<1> DEFINE n == Len(bytes)
           t == [i \in 1 .. n |-> <<dc, bytes[i]>>]
<1>2. n \in Nat /\ \A i \in 1 .. n : <<dc, bytes[i]>> \in BOOLEAN \X (0 .. 255)
  BY <1>1
<1>3. t \in [1 .. n -> BOOLEAN \X (0 .. 255)]
  BY <1>2, Zenon
<1> HIDE DEF n, t
<1>4. t \in Seq(BOOLEAN \X (0 .. 255)) /\ Len(t) = n
  <2> DEFINE pairs == BOOLEAN \X (0 .. 255)
  <2>1. n \in Nat /\ t \in [1 .. n -> pairs]
    BY <1>2, <1>3
  <2> HIDE DEF pairs
  <2>2. t \in Seq(pairs) /\ Len(t) = n
    BY <2>1, FunctionIsSeq
  <2>3. QED
    BY <2>2, Zenon DEF pairs
<1>5. QED
  BY <1>4 DEF n, t, Transfers

\* A position is three commands.
LEMMA MovesAre ==
    ASSUME NEW x \in Columns, NEW y \in Pages
    PROVE  /\ MovesTo(x, y) \in Seq(BOOLEAN \X (0 .. 255)) /\ Len(MovesTo(x, y)) = 3
           /\ \A i \in 1 .. 3 : MovesTo(x, y)[i] = <<FALSE, SetPos(x, y)[i]>>
<1>1. x \in 0 .. 255 /\ y \in 0 .. 7
  BY ColumnType, WidthType DEF Pages
<1>2. SetPos(x, y) \in Seq(0 .. 255) /\ Len(SetPos(x, y)) = 3
  <2> DEFINE a == 176 + y
             b == x % 16
             c == 16 + ((x % 256) \div 16)
  <2>1. a \in 0 .. 255 /\ b \in 0 .. 255 /\ c \in 0 .. 255
    BY <1>1
  <2> HIDE DEF a, b, c
  <2>2. <<a, b, c>> \in Seq(0 .. 255) /\ Len(<<a, b, c>>) = 3
    BY <2>1
  <2>3. QED
    BY <2>2 DEF SetPos, a, b, c
<1>3. QED
  BY <1>2, TransfersAre DEF MovesTo

\* The transfers of a position and data.
LEMMA MovesThenData ==
    ASSUME NEW x \in Columns, NEW y \in Pages, NEW datas \in Seq(0 .. 255)
    PROVE  LET all == MovesTo(x, y) \o Transfers(TRUE, datas)
           IN  /\ all \in Seq(BOOLEAN \X (0 .. 255)) /\ Len(all) = 3 + Len(datas)
               /\ \A i \in 1 .. 3 : all[i] = <<FALSE, SetPos(x, y)[i]>>
               /\ \A i \in 1 .. Len(datas) : all[3 + i] = <<TRUE, datas[i]>>
<1> DEFINE s == MovesTo(x, y)
           t == Transfers(TRUE, datas)
<1>1. /\ s \in Seq(BOOLEAN \X (0 .. 255)) /\ Len(s) = 3
      /\ \A i \in 1 .. 3 : s[i] = <<FALSE, SetPos(x, y)[i]>>
  BY MovesAre
<1>2. /\ t \in Seq(BOOLEAN \X (0 .. 255)) /\ Len(t) = Len(datas) /\ Len(datas) \in Nat
      /\ \A i \in 1 .. Len(datas) : t[i] = <<TRUE, datas[i]>>
  BY TransfersAre, LenProperties
<1> HIDE DEF s, t
<1> DEFINE all == s \o t
<1>3. /\ all \in Seq(BOOLEAN \X (0 .. 255)) /\ Len(all) = Len(s) + Len(t)
      /\ \A i \in 1 .. Len(s) + Len(t) : all[i] = IF i <= Len(s) THEN s[i] ELSE t[i - Len(s)]
  <2> DEFINE pairs == BOOLEAN \X (0 .. 255)
  <2>1. s \in Seq(pairs) /\ t \in Seq(pairs)
    BY <1>1, <1>2
  <2> HIDE DEF pairs
  <2>2. all \in Seq(pairs)
    BY <2>1, ConcatProperties
  <2>3. Len(all) = Len(s) + Len(t)
    BY <2>1, ConcatProperties
  <2>4. \A i \in 1 .. Len(s) + Len(t) : all[i] = IF i <= Len(s) THEN s[i] ELSE t[i - Len(s)]
    BY <2>1, ConcatProperties
  <2>5. QED
    BY <2>2, <2>3, <2>4, Zenon DEF pairs
<1> HIDE DEF all
<1>4. ASSUME NEW i \in 1 .. 3 PROVE all[i] = <<FALSE, SetPos(x, y)[i]>>
  <2>1. i \in 1 .. Len(s) + Len(t) /\ i <= Len(s)
    BY <1>1, <1>2
  <2>2. QED
    BY <1>1, <1>3, <2>1, Zenon
<1>5. ASSUME NEW i \in 1 .. Len(datas) PROVE all[3 + i] = <<TRUE, datas[i]>>
  <2>1. 3 + i \in 1 .. Len(s) + Len(t) /\ ~(3 + i <= Len(s)) /\ (3 + i) - Len(s) = i
    BY <1>1, <1>2
  <2>2. QED
    BY <1>2, <1>3, <2>1, Zenon
<1>6. QED
  <2>1. Len(all) = 3 + Len(datas)
    BY <1>1, <1>2, <1>3
  <2>2. QED
    BY <1>3, <1>4, <1>5, <2>1, Zenon DEF all, s, t

\* Every call and every transfer keep the invariant.
LEMMA OledSteps == ASSUME OledInv, OledNext PROVE OledInv'
<1>1. ASSUME NEW datas \in Datas
      PROVE  /\ datas \in Seq(0 .. 255) /\ Len(datas) \in 1 .. WIDTH /\ Len(datas) <= WIDTH
             /\ <<datas[1]>> \in Seq(0 .. 255) /\ Len(<<datas[1]>>) = 1 /\ 1 <= WIDTH
  <2>1. datas \in Seq(0 .. 255) /\ Len(datas) \in 1 .. WIDTH
    BY CallAssumption
  <2>2. datas[1] \in 0 .. 255
    BY <2>1, ElementOfSeq, WidthType
  <2>3. QED
    BY <2>1, <2>2, WidthType
<1>2. ASSUME NEW x \in Xs, NEW y \in Pages, OLED_SET_XY(x, y) PROVE OledInv'
  <2>1. x \in Columns /\ <<>> \in Seq(0 .. 255) /\ Len(<<>>) = 0 /\ 0 <= WIDTH
    BY CallAssumption, WidthType
  <2>2. /\ MovesTo(x, y) \in Seq(BOOLEAN \X (0 .. 255)) /\ Len(MovesTo(x, y)) = 3 + Len(<<>>)
        /\ \A i \in 1 .. 3 : MovesTo(x, y)[i] = <<FALSE, SetPos(x, y)[i]>>
    <3>1. 3 = 3 + Len(<<>>)
      BY <2>1
    <3>2. QED
      BY <2>1, <3>1, MovesAre, Zenon
  <2>3. \A i \in 1 .. Len(<<>>) : MovesTo(x, y)[3 + i] = <<TRUE, <<>>[i]>>
    BY <2>1
  <2>4. Calls(x, y, <<>>, MovesTo(x, y))
    BY <1>2 DEF OLED_SET_XY
  <2>5. 3 \in {0, 3} /\ Len(<<>>) <= WIDTH /\ 3 # 0
    BY <2>1
  <2>6. QED
    BY <2>1, <2>2, <2>3, <2>4, <2>5, CallKeeps
<1>3. ASSUME NEW x \in Columns, NEW y \in Pages, NEW datas \in Seq(0 .. 255), Len(datas) <= WIDTH,
             Calls(x, y, datas, MovesTo(x, y) \o Transfers(TRUE, datas))
      PROVE  OledInv'
  <2> DEFINE all == MovesTo(x, y) \o Transfers(TRUE, datas)
  <2>1. /\ all \in Seq(BOOLEAN \X (0 .. 255)) /\ Len(all) = 3 + Len(datas)
        /\ \A i \in 1 .. 3 : all[i] = <<FALSE, SetPos(x, y)[i]>>
        /\ \A i \in 1 .. Len(datas) : all[3 + i] = <<TRUE, datas[i]>>
    BY MovesThenData
  <2>2. Calls(x, y, datas, all)
    BY <1>3
  <2>3. 3 \in {0, 3} /\ 3 # 0
    OBVIOUS
  <2> HIDE DEF all
  <2>4. QED
    BY <1>3, <2>1, <2>2, <2>3, CallKeeps
<1>4. ASSUME NEW datas \in Datas, OLED_SET_DATAS(datas) PROVE OledInv'
  <2> DEFINE all == Transfers(TRUE, datas)
  <2>1. /\ datas \in Seq(0 .. 255) /\ Len(datas) <= WIDTH /\ Len(datas) \in Nat
        /\ oled.x \in Columns /\ oled.y \in Pages
    BY <1>1 DEF OledInv, OledType
  <2>2. /\ all \in Seq(BOOLEAN \X (0 .. 255)) /\ Len(all) = 0 + Len(datas)
        /\ \A i \in 1 .. Len(datas) : all[0 + i] = <<TRUE, datas[i]>>
    <3>1. /\ all \in Seq(BOOLEAN \X (0 .. 255)) /\ Len(all) = Len(datas)
          /\ \A i \in 1 .. Len(datas) : all[i] = <<TRUE, datas[i]>>
      BY <2>1, TransfersAre
    <3> HIDE DEF all
    <3>2. Len(datas) = 0 + Len(datas) /\ \A i \in 1 .. Len(datas) : 0 + i = i
      BY <2>1
    <3>3. QED
      BY <3>1, <3>2
  <2>3. \A i \in 1 .. 0 : all[i] = <<FALSE, SetPos(oled.x, oled.y)[i]>>
    OBVIOUS
  <2>4. Calls(oled.x, oled.y, datas, all)
    BY <1>4 DEF OLED_SET_DATAS
  <2>5. 0 \in {0, 3}
    OBVIOUS
  <2> HIDE DEF all
  <2>6. QED
    BY <2>1, <2>2, <2>3, <2>4, <2>5, CallKeeps
<1>5. ASSUME NEW x \in Xs, NEW y \in Pages, NEW datas \in Datas,
             OLED_SET_XY_WRITE_DATAS(x, y, datas) \/ OLED_SET_XY_WRITE_DATA(x, y, datas[1])
      PROVE  OledInv'
  <2>1. x \in Columns
    BY CallAssumption
  <2>2. CASE OLED_SET_XY_WRITE_DATAS(x, y, datas)
    BY <1>1, <1>3, <2>1, <2>2 DEF OLED_SET_XY_WRITE_DATAS
  <2>3. CASE OLED_SET_XY_WRITE_DATA(x, y, datas[1])
    BY <1>1, <1>3, <2>1, <2>3 DEF OLED_SET_XY_WRITE_DATA
  <2>4. QED
    BY <1>5, <2>2, <2>3
<1>6. QED
  BY <1>2, <1>4, <1>5, TransferKeeps DEF OledNext

\* The invariant is about the OLED alone.
LEMMA OledStays == ASSUME OledInv, UNCHANGED oled PROVE OledInv'
<1>1. oled' = oled
  OBVIOUS
<1>2. \A s \in Columns, k \in 0 .. 3 :
         (Queued(s, k) <=> Queued(s, k)') /\ (Aimed(s, k) <=> Aimed(s, k)')
         /\ (Painted(s, k) <=> Painted(s, k)')
  BY <1>1 DEF Queued, Aimed, Painted, BytesLeft
<1>3. OledType'
  BY <1>1 DEF OledInv, OledType
<1>4. QED
  BY <1>2, <1>3, Zenon DEF OledInv

\* The inductive invariant of the OLED as a character device.
THEOREM OledInvariant == Spec => []OledInv
<1>1. Init => OledInv
  BY OledStart DEF Init
<1>2. OledInv /\ [Next]_allvars => OledInv'
  <2> SUFFICES ASSUME OledInv, [Next]_allvars PROVE OledInv'
    OBVIOUS
  <2>1. CASE OledNext
    BY <2>1, OledSteps
  <2>2. CASE UNCHANGED oled
    BY <2>2, OledStays
  <2>3. QED
    BY <2>1, <2>2, Zenon DEF Next, Char, allvars
<1>3. QED
  BY <1>1, <1>2, PTL DEF Spec

\* Between two calls the panel is on and shows what they have asked for, for panels of
\* every size, all data and all positions.
THEOREM CallsAreShown == Spec => []PanelShowsCalls
<1>1. OledInv => PanelShowsCalls
  <2> SUFFICES ASSUME OledInv, oled.todo = <<>>
               PROVE  oled.panel.on /\ oled.panel.ram = oled.picture
    BY DEF PanelShowsCalls
  <2>1. oled.panel.on = TRUE
    BY Zenon DEF OledInv, OledType, Glass
  <2>2. QED
    BY <2>1, Idle
<1>2. QED
  BY <1>1, OledInvariant, PTL

-------------------------------------------------------------------------------
\* Pixels, bytes and bits.

\* Bytes in a row of pixels.
RowBytes == XRES \div BITS

OnGlass == (0 .. XRES - 1) \X (0 .. YRES - 1)
Buffers == [Bytes -> [0 .. BITS - 1 -> {0, 1}]]

\* A byte of a buffer lights a pixel, as the application's put_pixel_buffer sees it.
Lit(buffer, x, y) == buffer[Base(x, y)][Bit(x)] = 1

\* Where a number lies between multiples of another.
LEMMA Quotient ==
    ASSUME NEW n \in Nat \ {0}, NEW k \in Nat, NEW j \in 0 .. n - 1
    PROVE  (k * n + j) \div n = k /\ (k * n + j) % n = j
OBVIOUS

\* A number below a multiple has its quotient below the factor.
LEMMA QuotientBelow ==
    ASSUME NEW n \in Nat \ {0}, NEW k \in Nat \ {0}, NEW x \in 0 .. (k * n) - 1
    PROVE  x \div n \in 0 .. k - 1 /\ x % n \in 0 .. n - 1 /\ x = (x \div n) * n + (x % n)
<1> DEFINE q == x \div n
           r == x % n
<1>1. q \in Nat /\ r \in 0 .. n - 1 /\ x = q * n + r
  OBVIOUS
<1>2. x < k * n
  OBVIOUS
<1> HIDE DEF q, r
<1>3. ASSUME q >= k PROVE FALSE
  <2>1. q * n >= k * n
    BY <1>1, <1>3
  <2>2. QED
    BY <1>1, <1>2, <2>1
<1>4. q \in 0 .. k - 1
  BY <1>1, <1>3
<1>5. QED
  BY <1>1, <1>4 DEF q, r

\* A row of pixels fills whole bytes.
LEMMA RowsFillBytes == RowBytes \in Nat \ {0} /\ XRES = RowBytes * BITS
<1>1. XRES \in Nat \ {0} /\ BITS \in Nat \ {0} /\ XRES % BITS = 0
  BY ResAssumption, ByteAssumption
<1>2. QED
  BY <1>1 DEF RowBytes

\* The screen fills its buffer.
LEMMA BytesAre == Bytes = 0 .. (YRES * RowBytes) - 1
<1> DEFINE k == YRES * RowBytes
<1>1. YRES \in Nat \ {0} /\ RowBytes \in Nat \ {0} /\ BITS \in Nat \ {0} /\ XRES = RowBytes * BITS
  BY ResAssumption, ByteAssumption, RowsFillBytes
<1>2. k \in Nat /\ XRES * YRES = k * BITS + 0
  BY <1>1
<1> HIDE DEF k
<1>3. (XRES * YRES) \div BITS = k
  BY <1>1, <1>2, Quotient
<1>4. QED
  BY <1>3 DEF Bytes, k

\* There is a last byte.
LEMMA LastByte == \E last \in Nat : Bytes = 0 .. last
<1> DEFINE last == (YRES * RowBytes) - 1
<1>1. last \in Nat
  BY ResAssumption, RowsFillBytes
<1>2. QED
  BY <1>1, BytesAre

\* The byte of a pixel: both the application and the driver of the panel find it
\* there, each with a formula of its own, and it is in the buffer.
LEMMA PixelPlace ==
    ASSUME NEW x \in 0 .. XRES - 1, NEW y \in 0 .. YRES - 1
    PROVE  /\ Base(x, y) = y * RowBytes + (x \div BITS) /\ Base(x, y) \in Bytes
           /\ x \div BITS \in 0 .. RowBytes - 1 /\ Bit(x) \in 0 .. BITS - 1
           /\ x % BITS \in 0 .. BITS - 1 /\ x = (x \div BITS) * BITS + (x % BITS)
<1>1. YRES \in Nat \ {0} /\ RowBytes \in Nat \ {0} /\ BITS \in Nat \ {0} /\ XRES = RowBytes * BITS
  BY ResAssumption, ByteAssumption, RowsFillBytes
<1>2. x \in 0 .. (RowBytes * BITS) - 1
  BY <1>1
<1>3. /\ x \div BITS \in 0 .. RowBytes - 1 /\ x % BITS \in 0 .. BITS - 1
      /\ x = (x \div BITS) * BITS + (x % BITS)
  BY <1>1, <1>2, QuotientBelow
<1> DEFINE k == y * RowBytes
           q == x \div BITS
<1>4. k \in Nat /\ y * XRES = k * BITS + 0
  BY <1>1
<1> HIDE DEF k
<1>5. (y * XRES) \div BITS = k
  BY <1>1, <1>4, Quotient
<1>6. Base(x, y) = k + q
  BY <1>5 DEF Base
<1>7. k <= (YRES * RowBytes) - RowBytes
  <2>1. y <= YRES - 1
    OBVIOUS
  <2>2. y * RowBytes <= (YRES - 1) * RowBytes
    BY <1>1, <2>1
  <2>3. (YRES - 1) * RowBytes = (YRES * RowBytes) - RowBytes
    BY <1>1
  <2>4. QED
    BY <2>2, <2>3 DEF k
<1>8. Bit(x) \in 0 .. BITS - 1
  BY <1>1, <1>3 DEF Bit
<1> DEFINE all == YRES * RowBytes
<1>9. all \in Nat
  BY <1>1
<1>10. Bytes = 0 .. all - 1
  BY BytesAre
<1>11. q \in 0 .. RowBytes - 1 /\ k <= all - RowBytes
  BY <1>3, <1>7
<1> HIDE DEF all, q
<1>12. k + q \in Bytes
  BY <1>1, <1>4, <1>9, <1>10, <1>11
<1>13. QED
  BY <1>3, <1>6, <1>8, <1>12 DEF k, q

\* Different pixels have different bits.
LEMMA PixelsApart ==
    ASSUME NEW x \in 0 .. XRES - 1, NEW y \in 0 .. YRES - 1,
           NEW u \in 0 .. XRES - 1, NEW v \in 0 .. YRES - 1,
           Base(x, y) = Base(u, v), Bit(x) = Bit(u)
    PROVE  x = u /\ y = v
<1> DEFINE q == x \div BITS
           s == u \div BITS
<1>1. /\ y * RowBytes + q = v * RowBytes + s
      /\ q \in 0 .. RowBytes - 1 /\ s \in 0 .. RowBytes - 1
  BY PixelPlace
<1>2. RowBytes \in Nat \ {0} /\ y \in Nat /\ v \in Nat
  BY RowsFillBytes, ResAssumption
<1>3. /\ x = q * BITS + (x % BITS) /\ u = s * BITS + (u % BITS)
      /\ x % BITS \in 0 .. BITS - 1 /\ u % BITS \in 0 .. BITS - 1
  BY PixelPlace
<1> HIDE DEF q, s
<1>4. /\ (y * RowBytes + q) \div RowBytes = y /\ (y * RowBytes + q) % RowBytes = q
      /\ (v * RowBytes + s) \div RowBytes = v /\ (v * RowBytes + s) % RowBytes = s
  <2>1. /\ (y * RowBytes + q) \div RowBytes = y /\ (y * RowBytes + q) % RowBytes = q
    BY <1>1, <1>2, Quotient, Zenon
  <2>2. (v * RowBytes + s) \div RowBytes = v /\ (v * RowBytes + s) % RowBytes = s
    BY <1>1, <1>2, Quotient, Zenon
  <2>3. QED
    BY <2>1, <2>2
<1>5. y = v /\ q = s
  BY <1>1, <1>4
<1>6. BITS \in Nat \ {0}
  BY ByteAssumption
<1>7. x % BITS = u % BITS
  BY <1>3, <1>6 DEF Bit
<1>8. QED
  BY <1>3, <1>5, <1>7

\* A drawing of pixels lights or darkens just them.
LEMMA PutPixelsIs ==
    ASSUME NEW buffer \in Buffers, NEW pixels \in SUBSET OnGlass, NEW color
    PROVE  LET after == PutPixels(buffer, pixels, color)
           IN  /\ after \in Buffers
               /\ \A x \in 0 .. XRES - 1, y \in 0 .. YRES - 1 :
                      Lit(after, x, y) <=> IF <<x, y>> \in pixels THEN color # 0 ELSE Lit(buffer, x, y)
<1> DEFINE after == PutPixels(buffer, pixels, color)
           Hit(i, b) == \E p \in pixels : Base(p[1], p[2]) = i /\ Bit(p[1]) = b
<1>1. after \in Buffers
  BY DEF PutPixels, Buffers
<1>2. ASSUME NEW x \in 0 .. XRES - 1, NEW y \in 0 .. YRES - 1
      PROVE  Lit(after, x, y) <=> IF <<x, y>> \in pixels THEN color # 0 ELSE Lit(buffer, x, y)
  <2>1. Base(x, y) \in Bytes /\ Bit(x) \in 0 .. BITS - 1
    BY PixelPlace
  <2>2. after[Base(x, y)][Bit(x)] = IF Hit(Base(x, y), Bit(x)) THEN IF color = 0 THEN 0 ELSE 1
                                    ELSE buffer[Base(x, y)][Bit(x)]
    BY <2>1 DEF PutPixels
  <2>3. Hit(Base(x, y), Bit(x)) <=> <<x, y>> \in pixels
    <3>1. ASSUME <<x, y>> \in pixels PROVE Hit(Base(x, y), Bit(x))
      <4>1. <<x, y>>[1] = x /\ <<x, y>>[2] = y
        OBVIOUS
      <4>2. QED
        BY <3>1, <4>1
    <3>2. ASSUME Hit(Base(x, y), Bit(x)) PROVE <<x, y>> \in pixels
      <4>1. PICK p \in pixels : Base(p[1], p[2]) = Base(x, y) /\ Bit(p[1]) = Bit(x)
        BY <3>2
      <4>2. p[1] \in 0 .. XRES - 1 /\ p[2] \in 0 .. YRES - 1 /\ p = <<p[1], p[2]>>
        BY DEF OnGlass
      <4>3. p[1] = x /\ p[2] = y
        BY <4>1, <4>2, PixelsApart
      <4>4. QED
        BY <4>2, <4>3
    <3>3. QED
      BY <3>1, <3>2
  <2> HIDE DEF after, Hit
  <2>4. QED
    BY <2>2, <2>3 DEF Lit
<1>3. QED
  BY <1>1, <1>2

\* Turning pixels turns just them.
LEMMA InversionIs ==
    ASSUME NEW buffer \in Buffers, NEW region, Inside(region) \subseteq OnGlass
    PROVE  LET after == inversion_buffer(buffer, region)
           IN  /\ after \in Buffers
               /\ \A x \in 0 .. XRES - 1, y \in 0 .. YRES - 1 :
                      Lit(after, x, y) <=> IF <<x, y>> \in Inside(region) THEN ~Lit(buffer, x, y)
                                           ELSE Lit(buffer, x, y)
<1> DEFINE after == inversion_buffer(buffer, region)
           pixels == Inside(region)
           Hit(i, b) == \E p \in pixels : Base(p[1], p[2]) = i /\ Bit(p[1]) = b
<1>1. \A i \in Bytes, b \in 0 .. BITS - 1 : buffer[i][b] \in {0, 1}
  BY DEF Buffers
<1>2. after = [i \in Bytes |-> [b \in 0 .. BITS - 1 |->
                  IF Hit(i, b) THEN 1 - buffer[i][b] ELSE buffer[i][b]]]
  BY DEF inversion_buffer
<1>3. pixels \subseteq OnGlass
  OBVIOUS
<1> HIDE DEF pixels, after
<1>4. after \in Buffers
  <2>1. \A i \in Bytes, b \in 0 .. BITS - 1 :
            (IF Hit(i, b) THEN 1 - buffer[i][b] ELSE buffer[i][b]) \in {0, 1}
    BY <1>1
  <2> HIDE DEF Hit
  <2>2. QED
    BY <1>2, <2>1 DEF Buffers
<1>5. ASSUME NEW x \in 0 .. XRES - 1, NEW y \in 0 .. YRES - 1
      PROVE  Lit(after, x, y) <=> IF <<x, y>> \in pixels THEN ~Lit(buffer, x, y) ELSE Lit(buffer, x, y)
  <2>1. Base(x, y) \in Bytes /\ Bit(x) \in 0 .. BITS - 1
    BY PixelPlace
  <2>2. Hit(Base(x, y), Bit(x)) <=> <<x, y>> \in pixels
    <3>1. ASSUME <<x, y>> \in pixels PROVE Hit(Base(x, y), Bit(x))
      <4>1. <<x, y>>[1] = x /\ <<x, y>>[2] = y
        OBVIOUS
      <4>2. QED
        BY <3>1, <4>1
    <3>2. ASSUME Hit(Base(x, y), Bit(x)) PROVE <<x, y>> \in pixels
      <4>1. PICK p \in pixels : Base(p[1], p[2]) = Base(x, y) /\ Bit(p[1]) = Bit(x)
        BY <3>2
      <4>2. p[1] \in 0 .. XRES - 1 /\ p[2] \in 0 .. YRES - 1 /\ p = <<p[1], p[2]>>
        BY <1>3 DEF OnGlass
      <4>3. p[1] = x /\ p[2] = y
        BY <4>1, <4>2, PixelsApart
      <4>4. QED
        BY <4>2, <4>3
    <3>3. QED
      BY <3>1, <3>2
  <2> HIDE DEF Hit
  <2>3. after[Base(x, y)][Bit(x)] = IF <<x, y>> \in pixels THEN 1 - buffer[Base(x, y)][Bit(x)]
                                    ELSE buffer[Base(x, y)][Bit(x)]
    BY <1>2, <2>1, <2>2
  <2>4. buffer[Base(x, y)][Bit(x)] \in {0, 1}
    BY <1>1, <2>1
  <2>5. QED
    BY <2>3, <2>4 DEF Lit
<1>6. QED
  BY <1>4, <1>5 DEF pixels, after

-------------------------------------------------------------------------------
\* From a page to the frame buffer.

AppFields == {"pc", "buffer", "n", "drawn", "picture"}

\* tiny_tv's places; show_ascii, which writes the frame buffer itself, has others.
TvPlaces == {"start", "fault", "drawn", "flush", "idle"}

\* The page's buffer lights the pixels of the picture that its drawings have made.
PictureInBuffer == \A x \in 0 .. XRES - 1, y \in 0 .. YRES - 1 :
                       Lit(app.buffer, x, y) <=> <<x, y>> \in app.picture

\* A flush has copied the bytes before n, and all of them when it ends.
FlushedSoFar ==
    /\ app.pc = "flush" => app.n \in Bytes /\ \A i \in Bytes : i < app.n => fb[i] = app.buffer[i]
    /\ app.pc = "idle" => \A i \in Bytes : fb[i] = app.buffer[i]

\* The rectangles that the pages draw are on the screen; the rest would be beside its
\* buffer, or on another line.
RegionsOnScreen == \A r \in Regions : Inside(r) \subseteq OnGlass

ScreenInv ==
    /\ DOMAIN app = AppFields
    /\ app.pc \in TvPlaces => /\ app.buffer \in Buffers /\ fb \in Buffers
                              /\ PictureInBuffer /\ FlushedSoFar

\* Between two drawings the driver of the panel finds the picture in the frame
\* buffer, pixel for pixel.
PictureInFrameBuffer ==
    app.pc = "idle" => \A x \in 0 .. XRES - 1, y \in 0 .. YRES - 1 :
                           get_pixel(x, y) = 1 <=> <<x, y>> \in app.picture

\* A drawing keeps the invariant if it does to the buffer what it does to the picture.
LEMMA DrawsKeep ==
    ASSUME ScreenInv, NEW buffer \in Buffers, NEW picture, Draws(buffer, picture),
           \A x \in 0 .. XRES - 1, y \in 0 .. YRES - 1 :
               Lit(buffer, x, y) <=> <<x, y>> \in picture
    PROVE  ScreenInv'
<1>1. app.pc \in {"idle", "drawn"} /\ UNCHANGED fb
  BY DEF Draws
<1>2. app' = [app EXCEPT !.pc = "drawn", !.drawn = @ + 1, !.buffer = buffer, !.picture = picture]
  BY DEF Draws
<1>3. DOMAIN app = AppFields /\ fb \in Buffers
  BY <1>1 DEF ScreenInv, TvPlaces
<1>4. DOMAIN app' = AppFields /\ app'.pc = "drawn" /\ app'.buffer = buffer /\ app'.picture = picture
  BY <1>2, <1>3 DEF AppFields
<1>5. PictureInBuffer'
  BY <1>4 DEF PictureInBuffer, Lit, Base, Bit
<1>6. FlushedSoFar'
  BY <1>4 DEF FlushedSoFar
<1>7. QED
  BY <1>1, <1>3, <1>4, <1>5, <1>6 DEF ScreenInv

\* Rectangles and texts keep the invariant.
LEMMA DrawingsKeep ==
    ASSUME RegionsOnScreen, ScreenInv,
           \/ \E r \in Regions : DrawRectangle(r) \/ EraseRectangle(r) \/ Invert(r)
           \/ \E text \in Texts : DrawText(text.str, text.region, text.size)
    PROVE  ScreenInv'
<1> DEFINE Shows(buffer, picture) == \A x \in 0 .. XRES - 1, y \in 0 .. YRES - 1 :
                                         Lit(buffer, x, y) <=> <<x, y>> \in picture
<1>1. app.pc \in TvPlaces
  BY DEF DrawRectangle, EraseRectangle, Invert, DrawText, Draws, TvPlaces
<1>2. app.buffer \in Buffers /\ Shows(app.buffer, app.picture)
  BY <1>1 DEF ScreenInv, PictureInBuffer
<1>3. \A r \in Regions : Inside(r) \subseteq OnGlass
  BY DEF RegionsOnScreen
<1> DEFINE screen_buffer == app.buffer
           picture == app.picture
<1>4. ASSUME NEW r \in Regions, DrawRectangle(r) PROVE ScreenInv'
  <2> DEFINE after == PutPixels(screen_buffer, Inside(r), 1)
  <2>1. after \in Buffers /\ Shows(after, picture \cup Inside(r))
    <3>1. /\ after \in Buffers
          /\ \A x \in 0 .. XRES - 1, y \in 0 .. YRES - 1 :
                 Lit(after, x, y) <=> IF <<x, y>> \in Inside(r) THEN 1 # 0 ELSE Lit(screen_buffer, x, y)
      BY <1>2, <1>3, PutPixelsIs
    <3> HIDE DEF after
    <3>2. QED
      BY <1>2, <3>1
  <2>2. Draws(after, picture \cup Inside(r))
    BY <1>4 DEF DrawRectangle, draw_rectangle
  <2> HIDE DEF after
  <2>3. QED
    BY <2>1, <2>2, DrawsKeep
<1>5. ASSUME NEW r \in Regions, EraseRectangle(r) PROVE ScreenInv'
  <2> DEFINE after == PutPixels(screen_buffer, Inside(r), 0)
  <2>1. after \in Buffers /\ Shows(after, picture \ Inside(r))
    <3>1. /\ after \in Buffers
          /\ \A x \in 0 .. XRES - 1, y \in 0 .. YRES - 1 :
                 Lit(after, x, y) <=> IF <<x, y>> \in Inside(r) THEN 0 # 0 ELSE Lit(screen_buffer, x, y)
      BY <1>2, <1>3, PutPixelsIs
    <3> HIDE DEF after
    <3>2. QED
      BY <1>2, <3>1
  <2>2. Draws(after, picture \ Inside(r))
    BY <1>5 DEF EraseRectangle, draw_rectangle
  <2> HIDE DEF after
  <2>3. QED
    BY <2>1, <2>2, DrawsKeep
<1>6. ASSUME NEW r \in Regions, Invert(r) PROVE ScreenInv'
  <2> DEFINE after == inversion_buffer(screen_buffer, r)
             turned == (picture \ Inside(r)) \cup (Inside(r) \ picture)
  <2>1. after \in Buffers /\ Shows(after, turned)
    <3>1. /\ after \in Buffers
          /\ \A x \in 0 .. XRES - 1, y \in 0 .. YRES - 1 :
                 Lit(after, x, y) <=> IF <<x, y>> \in Inside(r) THEN ~Lit(screen_buffer, x, y)
                                      ELSE Lit(screen_buffer, x, y)
      BY <1>2, <1>3, InversionIs
    <3> HIDE DEF after
    <3>2. QED
      BY <1>2, <3>1
  <2>2. Draws(after, turned)
    BY <1>6 DEF Invert
  <2> HIDE DEF after, turned
  <2>3. QED
    BY <2>1, <2>2, DrawsKeep
<1>7. ASSUME NEW text \in Texts, DrawText(text.str, text.region, text.size) PROVE ScreenInv'
  <2> DEFINE pixels == OnScreen(TextPixels(text.str, text.region, text.size))
             after == PutPixels(screen_buffer, pixels, 1)
  <2>1. Draws(after, picture \cup pixels)
    BY <1>7 DEF DrawText, draw_text_at_center, draw_font_bitmap
  <2>2. pixels \in SUBSET OnGlass
    BY DEF OnScreen, OnGlass
  <2> HIDE DEF pixels
  <2>3. after \in Buffers /\ Shows(after, picture \cup pixels)
    <3>1. /\ after \in Buffers
          /\ \A x \in 0 .. XRES - 1, y \in 0 .. YRES - 1 :
                 Lit(after, x, y) <=> IF <<x, y>> \in pixels THEN 1 # 0 ELSE Lit(screen_buffer, x, y)
      BY <1>2, <2>2, PutPixelsIs
    <3> HIDE DEF after
    <3>2. QED
      BY <1>2, <3>1
  <2> HIDE DEF after
  <2>4. QED
    BY <2>1, <2>3, DrawsKeep
<1>8. QED
  BY <1>4, <1>5, <1>6, <1>7

\* The copy of a byte keeps the invariant; after the last one nothing is missing.
LEMMA FlushKeeps ==
    ASSUME ScreenInv, FlushByte
    PROVE  ScreenInv'
<1>1. /\ app.pc = "flush"
      /\ fb' = IF StringsDiffer(app.n) THEN [fb EXCEPT ![app.n] = app.buffer[app.n]] ELSE fb
      /\ app' = [app EXCEPT !.n = app.n + 1, !.pc = IF app.n + 1 \in Bytes THEN "flush" ELSE "idle"]
  BY DEF FlushByte
<1>2. /\ DOMAIN app = AppFields /\ app.buffer \in Buffers /\ fb \in Buffers /\ PictureInBuffer
      /\ app.n \in Bytes /\ \A i \in Bytes : i < app.n => fb[i] = app.buffer[i]
  BY <1>1 DEF ScreenInv, FlushedSoFar, TvPlaces
<1> DEFINE pc == IF app.n + 1 \in Bytes THEN "flush" ELSE "idle"
           n == app.n + 1
<1>3. app' = [app EXCEPT !.n = n, !.pc = pc]
  BY <1>1
<1>4. pc \in {"flush", "idle"} /\ (pc = "flush" <=> n \in Bytes)
  OBVIOUS
<1> HIDE DEF pc
<1>5. /\ DOMAIN app' = AppFields /\ app'.pc = pc /\ app'.n = n
      /\ app'.buffer = app.buffer /\ app'.picture = app.picture
  BY <1>2, <1>3 DEF AppFields
<1>6. fb' \in Buffers
  <2>1. app.buffer[app.n] \in [0 .. BITS - 1 -> {0, 1}]
    BY <1>2 DEF Buffers
  <2>2. QED
    BY <1>1, <1>2, <2>1 DEF Buffers
<1>7. \A i \in Bytes : fb'[i] = IF i = app.n THEN app.buffer[app.n] ELSE fb[i]
  <2>1. CASE StringsDiffer(app.n)
    BY <1>1, <1>2, <2>1 DEF Buffers
  <2>2. CASE ~StringsDiffer(app.n)
    <3>1. app.n \in Nat /\ ~\E j : j \in app.n .. app.n - 1
      BY <1>2, LastByte
    <3>2. fb[app.n] = app.buffer[app.n]
      BY <1>2, <2>2, <3>1 DEF StringsDiffer
    <3>3. QED
      BY <1>1, <2>2, <3>2
  <2>3. QED
    BY <2>1, <2>2
<1>8. /\ \A i \in Bytes : i < n => i = app.n \/ i < app.n
      /\ n \notin Bytes => \A i \in Bytes : i < n
  <2>1. PICK last \in Nat : Bytes = 0 .. last
    BY LastByte
  <2>2. QED
    BY <1>2, <2>1
<1>9. \A i \in Bytes : i < n => fb'[i] = app.buffer[i]
  BY <1>2, <1>7, <1>8
<1>10. FlushedSoFar'
  BY <1>4, <1>5, <1>8, <1>9 DEF FlushedSoFar, Bytes
<1>11. PictureInBuffer'
  BY <1>2, <1>5 DEF PictureInBuffer, Lit, Base, Bit
<1>12. QED
  BY <1>2, <1>5, <1>6, <1>10, <1>11 DEF ScreenInv

\* Every step of the screen keeps the invariant.
LEMMA ScreenSteps ==
    ASSUME RegionsOnScreen, ScreenInv, ScreenNext
    PROVE  ScreenInv'
<1>1. CASE \E opened \in BOOLEAN : Start(opened)
  <2>1. PICK pc \in {"drawn", "fault"} : app' = [app EXCEPT !.pc = pc]
    BY <1>1 DEF Start
  <2>2. app.pc = "start" /\ UNCHANGED fb
    BY <1>1 DEF Start
  <2>3. DOMAIN app' = AppFields /\ app'.pc = pc /\ app'.buffer = app.buffer /\ app'.picture = app.picture
    BY <2>1 DEF ScreenInv, AppFields
  <2>4. QED
    BY <2>2, <2>3 DEF ScreenInv, TvPlaces, PictureInBuffer, FlushedSoFar, Lit, Base, Bit
<1>2. CASE FlushDisplayRegion
  <2>1. app.pc = "drawn" /\ app' = [app EXCEPT !.pc = "flush", !.n = 0] /\ UNCHANGED fb
    BY <1>2 DEF FlushDisplayRegion
  <2>2. /\ DOMAIN app' = AppFields /\ app'.pc = "flush" /\ app'.n = 0
        /\ app'.buffer = app.buffer /\ app'.picture = app.picture
    BY <2>1 DEF ScreenInv, AppFields
  <2>3. 0 \in Bytes /\ \A i \in Bytes : ~(i < 0)
    <3>1. PICK last \in Nat : Bytes = 0 .. last
      BY LastByte
    <3>2. QED
      BY <3>1
  <2>4. FlushedSoFar'
    BY <2>2, <2>3 DEF FlushedSoFar, Bytes
  <2>5. PictureInBuffer' <=> PictureInBuffer
    BY <2>2 DEF PictureInBuffer, Lit, Base, Bit
  <2>6. QED
    BY <2>1, <2>2, <2>4, <2>5 DEF ScreenInv, TvPlaces
<1>3. CASE AsciiSteps
  <2>1. \E pc \in {"put", "ended"} :
            \E n, picture : app' = [app EXCEPT !.pc = pc, !.n = n, !.picture = picture]
    <3>1. CASE Clear
      <4>1. app' = [app EXCEPT !.pc = "put", !.n = 0, !.picture = {}]
        BY <3>1 DEF Clear
      <4>2. QED
        BY <4>1
    <3>2. CASE PutRow
      <4> DEFINE pc == IF app.n + 1 < fontrows THEN "put" ELSE "ended"
                 picture == app.picture \cup
                     {<<Mirrored((XRES \div 2) + q[1]), (YRES \div 2) + app.n>> :
                          q \in {q \in fontdata_8x16 : q[2] = app.n}}
      <4>1. app' = [app EXCEPT !.n = app.n + 1, !.pc = pc, !.picture = picture]
        BY <3>2, Zenon DEF PutRow
      <4>2. pc \in {"put", "ended"}
        OBVIOUS
      <4> HIDE DEF pc, picture
      <4>3. app' = [app EXCEPT !.pc = pc, !.n = app.n + 1, !.picture = picture]
        BY <4>1
      <4>4. QED
        BY <4>2, <4>3
    <3>3. QED
      BY <1>3, <3>1, <3>2 DEF AsciiSteps
  <2>2. DOMAIN app' = AppFields /\ app'.pc \in {"put", "ended"}
    BY <2>1 DEF ScreenInv, AppFields
  <2>3. QED
    BY <2>2 DEF ScreenInv, TvPlaces
<1>4. CASE oled_thread
  <2>1. UNCHANGED <<app, fb>>
    BY <1>4 DEF oled_thread, Convert, SendPage, WakeUp
  <2>2. QED
    BY <2>1 DEF ScreenInv, PictureInBuffer, FlushedSoFar, Lit, Base, Bit
<1>5. CASE FlushByte
  BY <1>5, FlushKeeps
<1>6. QED
  BY <1>1, <1>2, <1>3, <1>4, <1>5, DrawingsKeep DEF ScreenNext, TvSteps

\* The invariant holds at first: a page begins dark.
LEMMA ScreenStart ==
    ASSUME NEW pc \in {"start", "ascii"}, NEW noise \in {0, 1}, InitScreen(pc, noise)
    PROVE  ScreenInv
<1>1. /\ app = [pc |-> pc, buffer |-> Blank, n |-> 0, drawn |-> 0, picture |-> {}]
      /\ fb = [i \in Bytes |-> [b \in 0 .. BITS - 1 |-> noise]]
  BY DEF InitScreen
<1>2. DOMAIN app = AppFields /\ app.buffer = Blank /\ app.picture = {} /\ app.pc = pc
  BY <1>1 DEF AppFields
<1>3. Blank \in Buffers /\ fb \in Buffers
  BY <1>1 DEF Blank, Buffers
<1>4. PictureInBuffer
  <2> SUFFICES ASSUME NEW x \in 0 .. XRES - 1, NEW y \in 0 .. YRES - 1
               PROVE  ~Lit(Blank, x, y)
    BY <1>2 DEF PictureInBuffer
  <2>1. Base(x, y) \in Bytes /\ Bit(x) \in 0 .. BITS - 1
    BY PixelPlace
  <2>2. QED
    BY <2>1 DEF Lit, Blank
<1>5. pc \in {"start", "ascii"} => ScreenInv
  BY <1>2, <1>3, <1>4 DEF ScreenInv, FlushedSoFar, TvPlaces
<1>6. QED
  BY <1>5

\* The invariant of the way from a page to the frame buffer.
THEOREM ScreenInvariant == ASSUME RegionsOnScreen PROVE Spec => []ScreenInv
<1>1. Init => ScreenInv
  BY ScreenStart DEF Init
<1>2. ScreenInv /\ [Next]_allvars => ScreenInv'
  <2> SUFFICES ASSUME ScreenInv, [Next]_allvars PROVE ScreenInv'
    OBVIOUS
  <2>1. CASE ScreenNext
    BY <2>1, ScreenSteps
  <2>2. CASE UNCHANGED screen
    BY <2>2 DEF ScreenInv, PictureInBuffer, FlushedSoFar, Lit, Base, Bit, screen
  <2>3. QED
    BY <2>1, <2>2 DEF Next, allvars, ScreenGoes, screen
<1>3. QED
  BY <1>1, <1>2, PTL DEF Spec

\* What the pages draw and flush is what the driver of the panel reads, although the
\* two find a pixel's byte and bit each in its own way.
THEOREM PicturesAreFlushed == ASSUME RegionsOnScreen PROVE Spec => []PictureInFrameBuffer
<1>1. ScreenInv => PictureInFrameBuffer
  <2> SUFFICES ASSUME ScreenInv, app.pc = "idle", NEW x \in 0 .. XRES - 1, NEW y \in 0 .. YRES - 1
               PROVE  get_pixel(x, y) = 1 <=> <<x, y>> \in app.picture
    BY DEF PictureInFrameBuffer
  <2>1. Base(x, y) \in Bytes /\ Base(x, y) = y * RowBytes + (x \div BITS)
    BY PixelPlace
  <2>2. fb[Base(x, y)] = app.buffer[Base(x, y)]
    BY <2>1 DEF ScreenInv, FlushedSoFar, TvPlaces
  <2>3. Lit(app.buffer, x, y) <=> <<x, y>> \in app.picture
    BY DEF ScreenInv, PictureInBuffer, TvPlaces
  <2>4. get_pixel(x, y) = fb[Base(x, y)][Bit(x)]
    BY <2>1 DEF get_pixel, RowBytes, Bit
  <2>5. QED
    BY <2>2, <2>3, <2>4 DEF Lit
<1>2. QED
  BY <1>1, ScreenInvariant, PTL

-------------------------------------------------------------------------------
\* show_ascii, in the frame buffer.

\* The column and the line of the character's upper left pixel.
MiddleX == XRES \div 2
MiddleY == YRES \div 2

\* The font's dots are in the columns of a byte, and the screen has room for them and
\* for the rows right of its middle and below; beside it, lcd_put_pixel writes the next
\* line.
CharacterFits == /\ fontdata_8x16 \subseteq (0 .. BITS - 1) \X Nat
                 /\ fontrows \in Nat
                 /\ MiddleX + BITS <= XRES /\ MiddleY + fontrows <= YRES

\* The driver finds the picture in the frame buffer.
FbShows(picture) == \A x \in 0 .. XRES - 1, y \in 0 .. YRES - 1 :
                        get_pixel(x, y) = 1 <=> <<x, y>> \in picture

\* The lines from the next one of the character on are dark.
DarkFromNext == LET next == MiddleY + app.n
                IN  /\ app.n \in Nat /\ next <= YRES - 1
                    /\ \A x \in 0 .. XRES - 1, y \in next .. YRES - 1 : <<x, y>> \notin app.picture

CharacterInv ==
    /\ DOMAIN app = AppFields
    /\ app.pc \in {"put", "ended"} => fb \in Buffers /\ FbShows(app.picture)
    /\ app.pc = "put" => DarkFromNext

\* A pixel and its mirror image are in the same byte, where the application's bit of
\* the one is the driver's bit of the other.
LEMMA MirrorPlace ==
    ASSUME NEW x \in 0 .. XRES - 1
    PROVE  /\ Mirrored(x) \in 0 .. XRES - 1 /\ Mirrored(Mirrored(x)) = x
           /\ Bit(Mirrored(x)) = x % BITS /\ \A y : Base(Mirrored(x), y) = Base(x, y)
<1> DEFINE q == x \div BITS
           r == x % BITS
           m == BITS - 1 - r
<1>1. BITS \in Nat \ {0} /\ RowBytes \in Nat \ {0} /\ XRES = RowBytes * BITS
  BY ByteAssumption, RowsFillBytes
<1>2. q \in 0 .. RowBytes - 1 /\ r \in 0 .. BITS - 1 /\ x = q * BITS + r
  <2>1. x \in 0 .. (RowBytes * BITS) - 1
    BY <1>1
  <2>2. QED
    BY <1>1, <2>1, QuotientBelow
<1>3. Mirrored(x) = x + (BITS - 1) - (2 * r)
  BY DEF Mirrored
<1> HIDE DEF q, r
<1> DEFINE k == q * BITS
<1>4. k \in Nat /\ k <= XRES - BITS
  <2>1. q \in Nat /\ q <= RowBytes - 1
    BY <1>1, <1>2
  <2>2. q * BITS <= (RowBytes - 1) * BITS
    BY <1>1, <2>1
  <2>3. (RowBytes - 1) * BITS = (RowBytes * BITS) - BITS
    BY <1>1
  <2>4. q * BITS \in Nat
    BY <1>1, <2>1
  <2>5. QED
    BY <1>1, <2>2, <2>3, <2>4
<1> HIDE DEF k
<1>5. m \in 0 .. BITS - 1 /\ x = k + r
  BY <1>1, <1>2 DEF k
<1>6. Mirrored(x) = k + m
  BY <1>1, <1>2, <1>3, <1>4, <1>5
<1>7. Mirrored(x) \in 0 .. XRES - 1
  BY <1>1, <1>4, <1>5, <1>6
<1>8. Mirrored(x) \div BITS = q /\ Mirrored(x) % BITS = m
  <2>1. q \in Nat
    BY <1>1, <1>2
  <2> HIDE DEF m
  <2>2. QED
    BY <1>1, <1>5, <1>6, <2>1, Quotient DEF k
<1>9. Mirrored(Mirrored(x)) = x
  <2>1. Mirrored(Mirrored(x)) = Mirrored(x) + (BITS - 1) - (2 * m)
    BY <1>8 DEF Mirrored
  <2>2. (k + m) + (BITS - 1) - (2 * m) = k + r
    BY <1>1, <1>2, <1>4
  <2>3. QED
    BY <1>5, <1>6, <2>1, <2>2, Zenon
<1>10. Bit(Mirrored(x)) = r
  BY <1>1, <1>2, <1>8 DEF Bit
<1>11. \A y : Base(Mirrored(x), y) = Base(x, y)
  BY <1>8 DEF Base, q
<1>12. QED
  BY <1>7, <1>9, <1>10, <1>11 DEF r

\* What the driver finds in the frame buffer is what put_pixel_buffer would light.
LEMMA DriverSees ==
    ASSUME NEW x \in 0 .. XRES - 1, NEW y \in 0 .. YRES - 1
    PROVE  get_pixel(x, y) = 1 <=> Lit(fb, x, y)
<1>1. Base(x, y) = (y * RowBytes) + (x \div BITS)
  BY PixelPlace
<1>2. QED
  BY <1>1 DEF get_pixel, Lit, RowBytes, Bit

\* A dot of show_ascii lights or darkens the mirror image of its place.
LEMMA DotIs ==
    ASSUME NEW frame \in Buffers, NEW x \in 0 .. XRES - 1, NEW y \in 0 .. YRES - 1, NEW color \in {0, 1}
    PROVE  LET after == lcd_put_pixel(frame, x, y, color)
           IN  /\ after \in Buffers
               /\ \A u \in 0 .. XRES - 1, v \in 0 .. YRES - 1 :
                      Lit(after, u, v) <=> IF u = Mirrored(x) /\ v = y THEN color = 1
                                           ELSE Lit(frame, u, v)
<1> DEFINE m == Mirrored(x)
           i == Base(x, y)
           j == x % BITS
           after == [frame EXCEPT ![i][j] = color]
<1>1. lcd_put_pixel(frame, x, y, color) = after
  BY DEF lcd_put_pixel
<1>2. m \in 0 .. XRES - 1 /\ Bit(m) = j /\ Base(m, y) = i
  BY MirrorPlace
<1>3. i \in Bytes /\ j \in 0 .. BITS - 1
  BY PixelPlace
<1> HIDE DEF m, i, j
<1>4. after \in Buffers
  BY <1>3 DEF Buffers
<1>5. \A k \in Bytes, b \in 0 .. BITS - 1 :
          after[k][b] = IF k = i /\ b = j THEN color ELSE frame[k][b]
  BY <1>3 DEF Buffers
<1> HIDE DEF after
<1>6. ASSUME NEW u \in 0 .. XRES - 1, NEW v \in 0 .. YRES - 1
      PROVE  Lit(after, u, v) <=> IF u = m /\ v = y THEN color = 1 ELSE Lit(frame, u, v)
  <2>1. Base(u, v) \in Bytes /\ Bit(u) \in 0 .. BITS - 1
    BY PixelPlace
  <2>2. Base(u, v) = i /\ Bit(u) = j <=> u = m /\ v = y
    BY <1>2, PixelsApart
  <2>3. QED
    BY <1>5, <2>1, <2>2 DEF Lit
<1>7. QED
  BY <1>1, <1>4, <1>6 DEF m

\* A row of a character that is put at x, y, after its first b dots.
RowHas(after, frame, x, y, row, b) ==
    /\ after \in Buffers
    /\ \A u \in 0 .. XRES - 1, v \in 0 .. YRES - 1 :
           Lit(after, u, v) <=> IF v = y + row /\ Mirrored(u) - x \in 0 .. b - 1
                                THEN <<Mirrored(u) - x, row>> \in fontdata_8x16
                                ELSE Lit(frame, u, v)

\* The dot after the first b of a row.
NextDot(frame, x, y, row, b) ==
    lcd_put_pixel(frame, x + b, y + row, IF <<b, row>> \in fontdata_8x16 THEN 1 ELSE 0)

\* One more dot.
LEMMA DotsGrow ==
    ASSUME NEW frame, NEW before, NEW x \in Nat, NEW y \in Nat, NEW row \in Nat,
           x + BITS <= XRES, y + row <= YRES - 1, NEW b \in 0 .. BITS - 1,
           RowHas(before, frame, x, y, row, b)
    PROVE  RowHas(NextDot(before, x, y, row, b), frame, x, y, row, b + 1)
<1> DEFINE color == IF <<b, row>> \in fontdata_8x16 THEN 1 ELSE 0
           after == NextDot(before, x, y, row, b)
<1>1. /\ BITS \in Nat /\ XRES \in Nat /\ YRES \in Nat
      /\ x + b \in 0 .. XRES - 1 /\ y + row \in 0 .. YRES - 1
  BY ByteAssumption, ResAssumption
<1>2. before \in Buffers /\ color \in {0, 1}
  BY DEF RowHas
<1>3. color = 1 <=> <<b, row>> \in fontdata_8x16
  OBVIOUS
<1>4. after = lcd_put_pixel(before, x + b, y + row, color)
  BY DEF NextDot
<1> HIDE DEF color, after
<1>5. /\ after \in Buffers
      /\ \A u \in 0 .. XRES - 1, v \in 0 .. YRES - 1 :
             Lit(after, u, v) <=> IF u = Mirrored(x + b) /\ v = y + row THEN color = 1
                                  ELSE Lit(before, u, v)
  BY <1>1, <1>2, <1>4, DotIs
<1>6. ASSUME NEW u \in 0 .. XRES - 1, NEW v \in 0 .. YRES - 1
      PROVE  Lit(after, u, v) <=> IF v = y + row /\ Mirrored(u) - x \in 0 .. (b + 1) - 1
                                  THEN <<Mirrored(u) - x, row>> \in fontdata_8x16
                                  ELSE Lit(frame, u, v)
  <2> DEFINE m == Mirrored(u)
  <2>1. m \in Nat
    BY <1>1, MirrorPlace
  <2>2. u = Mirrored(x + b) <=> m = x + b
    BY <1>1, MirrorPlace
  <2>3. Lit(after, u, v) <=> IF m = x + b /\ v = y + row THEN color = 1 ELSE Lit(before, u, v)
    BY <1>5, <2>2
  <2>4. Lit(before, u, v) <=> IF v = y + row /\ m - x \in 0 .. b - 1
                              THEN <<m - x, row>> \in fontdata_8x16 ELSE Lit(frame, u, v)
    BY DEF RowHas
  <2> HIDE DEF m
  <2>5. m - x \in 0 .. (b + 1) - 1 <=> m = x + b \/ m - x \in 0 .. b - 1
    BY <1>1, <2>1
  <2>6. m = x + b <=> m - x = b
    BY <1>1, <2>1
  <2>7. b \notin 0 .. b - 1
    OBVIOUS
  <2>8. QED
    BY <1>3, <2>3, <2>4, <2>5, <2>6, <2>7, Zenon DEF m
<1>7. QED
  BY <1>5, <1>6 DEF RowHas, after

\* The frames between the first b dots of a row.
RowRuns(f, frame, x, y, row, b) ==
    f = [k \in 0 .. b |-> IF k = 0 THEN frame ELSE NextDot(f[k - 1], x, y, row, k - 1)]

\* There are such frames.
LEMMA RowGoesOn ==
    ASSUME NEW frame, NEW x, NEW y, NEW row, NEW b \in Nat \ {0},
           \E f : RowRuns(f, frame, x, y, row, b - 1)
    PROVE  \E f : RowRuns(f, frame, x, y, row, b)
<1>1. PICK f : RowRuns(f, frame, x, y, row, b - 1)
  OBVIOUS
<1> DEFINE g == [k \in 0 .. b |-> IF k = b THEN NextDot(f[b - 1], x, y, row, b - 1) ELSE f[k]]
<1>2. b \in 0 .. b /\ b # 0
  OBVIOUS
<1>3. \A k \in 0 .. b - 1 : f[k] = IF k = 0 THEN frame ELSE NextDot(f[k - 1], x, y, row, k - 1)
  BY <1>1, Zenon DEF RowRuns
<1>4. ASSUME NEW k \in 0 .. b
      PROVE  g[k] = IF k = 0 THEN frame ELSE NextDot(g[k - 1], x, y, row, k - 1)
  <2>1. CASE k = 0
    <3>1. 0 \in 0 .. b - 1 /\ 0 # b
      OBVIOUS
    <3>2. QED
      BY <1>3, <2>1, <3>1, Zenon
  <2>2. CASE k # 0
    <3>1. k - 1 \in 0 .. b /\ k - 1 # b
      BY <2>2
    <3>2. g[k - 1] = f[k - 1]
      BY <3>1, Zenon
    <3>3. CASE k = b
      <4>1. g[k] = NextDot(f[b - 1], x, y, row, b - 1)
        BY <1>2, <3>3, Zenon
      <4>2. QED
        BY <2>2, <3>2, <3>3, <4>1, Zenon
    <3>4. CASE k # b
      <4>1. k \in 0 .. b - 1
        BY <3>4
      <4>2. g[k] = f[k]
        BY <3>4, Zenon
      <4>3. QED
        BY <1>3, <2>2, <3>2, <4>1, <4>2, Zenon
    <3>5. QED
      BY <3>3, <3>4
  <2>3. QED
    BY <2>1, <2>2
<1>5. g = [k \in 0 .. b |-> g[k]]
  BY Zenon
<1> HIDE DEF g
<1>6. RowRuns(g, frame, x, y, row, b)
  BY <1>4, <1>5, Zenon DEF RowRuns
<1>7. QED
  BY <1>6, Zenon

\* A row of a character puts its dots and leaves the other pixels alone.
LEMMA RowIs ==
    ASSUME NEW frame \in Buffers, NEW x \in Nat, NEW y \in Nat, NEW row \in Nat,
           x + BITS <= XRES, y + row <= YRES - 1
    PROVE  RowHas(lcd_put_ascii(frame, x, y, row), frame, x, y, row, BITS)
<1> DEFINE Runs(f) == RowRuns(f, frame, x, y, row, BITS)
           after == CHOOSE f : Runs(f)
<1>1. lcd_put_ascii(frame, x, y, row) = after[BITS]
  BY Zenon DEF lcd_put_ascii, RowRuns, NextDot
<1>2. BITS \in Nat
  BY ByteAssumption
<1>3. \E f : Runs(f)
  <2> DEFINE S == {b \in 0 .. BITS : \E f : RowRuns(f, frame, x, y, row, b)}
  <2>1. 0 \in S
    <3> DEFINE f == [k \in 0 .. 0 |-> frame]
    <3>1. 0 \in 0 .. BITS
      BY <1>2
    <3>2. \A k \in 0 .. 0 : k = 0
      OBVIOUS
    <3>3. RowRuns(f, frame, x, y, row, 0)
      BY <3>2, Zenon DEF RowRuns
    <3>4. QED
      BY <3>1, <3>3, Zenon
  <2>2. ASSUME NEW b \in 1 .. BITS, b - 1 \in S PROVE b \in S
    <3>1. b \in Nat \ {0} /\ b \in 0 .. BITS
      BY <1>2
    <3>2. \E f : RowRuns(f, frame, x, y, row, b - 1)
      BY <2>2, Zenon
    <3>3. QED
      BY <3>1, <3>2, RowGoesOn
  <2>3. S \in SUBSET (0 .. BITS) /\ BITS \in 0 .. BITS
    BY <1>2
  <2> HIDE DEF S
  <2>4. S = 0 .. BITS
    BY <1>2, <2>1, <2>2, <2>3, UpTo
  <2>5. BITS \in S
    BY <2>3, <2>4
  <2>6. QED
    BY <2>5, Zenon DEF S
<1>4. Runs(after)
  <2> HIDE DEF Runs
  <2>1. QED
    BY <1>3, Zenon
<1> HIDE DEF after
<1>5. after[0] = frame /\ \A b \in 1 .. BITS : after[b] = NextDot(after[b - 1], x, y, row, b - 1)
  <2>1. \A b \in 0 .. BITS :
            after[b] = IF b = 0 THEN frame ELSE NextDot(after[b - 1], x, y, row, b - 1)
    BY <1>4, Zenon DEF RowRuns
  <2>2. 0 \in 0 .. BITS /\ \A b \in 1 .. BITS : b \in 0 .. BITS /\ b # 0
    BY <1>2
  <2>3. QED
    BY <2>1, <2>2, Zenon
<1> DEFINE S == {b \in 0 .. BITS : RowHas(after[b], frame, x, y, row, b)}
<1>6. 0 \in S
  <2>1. \A d : d \notin 0 .. 0 - 1
    OBVIOUS
  <2>2. 0 \in 0 .. BITS
    BY <1>2
  <2>3. QED
    BY <1>5, <2>1, <2>2 DEF RowHas
<1>7. ASSUME NEW b \in 1 .. BITS, b - 1 \in S PROVE b \in S
  <2>1. b - 1 \in 0 .. BITS - 1 /\ (b - 1) + 1 = b /\ b \in 0 .. BITS
    BY <1>2
  <2>2. RowHas(after[b - 1], frame, x, y, row, b - 1)
    BY <1>7
  <2>3. RowHas(NextDot(after[b - 1], x, y, row, b - 1), frame, x, y, row, (b - 1) + 1)
    BY <2>1, <2>2, DotsGrow
  <2>4. QED
    BY <1>5, <2>1, <2>3, Zenon
<1>8. S \in SUBSET (0 .. BITS) /\ BITS \in 0 .. BITS
  BY <1>2
<1> HIDE DEF S
<1>9. S = 0 .. BITS
  BY <1>2, <1>6, <1>7, <1>8, UpTo
<1>10. BITS \in S
  BY <1>8, <1>9
<1>11. RowHas(after[BITS], frame, x, y, row, BITS)
  BY <1>10, Zenon DEF S
<1>12. QED
  BY <1>1, <1>11, Zenon

\* What the character's picture gains with a row.
LEMMA RowOfPicture ==
    ASSUME CharacterFits, NEW row \in Nat, NEW u \in 0 .. XRES - 1, NEW v
    PROVE  <<u, v>> \in {<<Mirrored(MiddleX + q[1]), MiddleY + row>> : q \in {q \in fontdata_8x16 : q[2] = row}}
             <=> v = MiddleY + row /\ <<Mirrored(u) - MiddleX, row>> \in fontdata_8x16
<1> DEFINE dots == {q \in fontdata_8x16 : q[2] = row}
           m == Mirrored(u)
<1>1. \A q \in fontdata_8x16 : q = <<q[1], q[2]>> /\ q[1] \in 0 .. BITS - 1
  BY DEF CharacterFits
<1>2. MiddleX \in Nat /\ BITS \in Nat /\ XRES \in Nat /\ MiddleX + BITS <= XRES
  BY ByteAssumption, ResAssumption DEF CharacterFits, MiddleX
<1>3. m \in 0 .. XRES - 1 /\ Mirrored(m) = u
  BY MirrorPlace
<1> HIDE DEF m
<1>4. ASSUME NEW q \in dots, u = Mirrored(MiddleX + q[1]) PROVE <<m - MiddleX, row>> \in fontdata_8x16
  <2>1. q[1] \in 0 .. BITS - 1 /\ q = <<q[1], row>>
    BY <1>1
  <2>2. MiddleX + q[1] \in 0 .. XRES - 1
    BY <1>2, <2>1
  <2>3. m = MiddleX + q[1]
    BY <1>4, <2>2, MirrorPlace DEF m
  <2>4. m - MiddleX = q[1]
    BY <1>2, <2>1, <2>3
  <2>5. QED
    BY <2>1, <2>4
<1>5. ASSUME <<m - MiddleX, row>> \in fontdata_8x16
      PROVE  \E q \in dots : u = Mirrored(MiddleX + q[1])
  <2> DEFINE q == <<m - MiddleX, row>>
  <2>1. q \in dots /\ q[1] = m - MiddleX
    BY <1>5
  <2>2. MiddleX + (m - MiddleX) = m
    BY <1>2, <1>3
  <2>3. QED
    BY <1>3, <2>1, <2>2
<1>6. <<u, v>> \in {<<Mirrored(MiddleX + q[1]), MiddleY + row>> : q \in dots}
        <=> v = MiddleY + row /\ \E q \in dots : u = Mirrored(MiddleX + q[1])
  <2> HIDE DEF dots
  <2>1. QED
    OBVIOUS
<1>7. QED
  BY <1>4, <1>5, <1>6 DEF m

\* Clearing the screen keeps the invariant.
LEMMA ClearKeeps == ASSUME CharacterInv, Clear PROVE CharacterInv'
<1>1. fb' = Blank /\ app' = [app EXCEPT !.pc = "put", !.n = 0, !.picture = {}]
  BY DEF Clear
<1>2. DOMAIN app' = AppFields /\ app'.pc = "put" /\ app'.n = 0 /\ app'.picture = {}
  BY <1>1 DEF CharacterInv, AppFields
<1>3. fb' \in Buffers
  BY <1>1 DEF Blank, Buffers
<1>4. FbShows(app.picture)'
  <2> SUFFICES ASSUME NEW x \in 0 .. XRES - 1, NEW y \in 0 .. YRES - 1
               PROVE  (get_pixel(x, y) # 1)'
    BY <1>2 DEF FbShows
  <2>1. Base(x, y) \in Bytes /\ Bit(x) \in 0 .. BITS - 1 /\ Base(x, y) = (y * RowBytes) + (x \div BITS)
    BY PixelPlace
  <2>2. get_pixel(x, y)' = Blank[Base(x, y)][Bit(x)]
    BY <1>1, <2>1 DEF get_pixel, RowBytes, Bit
  <2>3. QED
    BY <2>1, <2>2 DEF Blank
<1>5. MiddleY + 0 <= YRES - 1
  BY ResAssumption DEF MiddleY
<1>6. DarkFromNext'
  BY <1>2, <1>5 DEF DarkFromNext, MiddleY
<1>7. QED
  BY <1>2, <1>3, <1>4, <1>6 DEF CharacterInv

\* A row of the character keeps the invariant: its dots, and no others, are lit where
\* the driver looks for the character, and the lines after it stay dark.
LEMMA RowKeeps == ASSUME CharacterFits, CharacterInv, PutRow PROVE CharacterInv'
<1> DEFINE n == app.n
           gained == {<<Mirrored(MiddleX + q[1]), MiddleY + n>> : q \in {q \in fontdata_8x16 : q[2] = n}}
           picture == app.picture \cup gained
           after == lcd_put_ascii(fb, MiddleX, MiddleY, n)
           pc == IF n + 1 < fontrows THEN "put" ELSE "ended"
           m == n + 1
<1>1. app.pc = "put" /\ fb' = after /\ app' = [app EXCEPT !.n = m, !.pc = pc, !.picture = picture]
  BY Zenon DEF PutRow, MiddleX, MiddleY
<1>2. /\ DOMAIN app = AppFields /\ fb \in Buffers /\ FbShows(app.picture)
      /\ n \in Nat /\ MiddleY + n <= YRES - 1
      /\ \A x \in 0 .. XRES - 1, y \in MiddleY + n .. YRES - 1 : <<x, y>> \notin app.picture
  BY <1>1 DEF CharacterInv, DarkFromNext
<1>3. pc \in {"put", "ended"} /\ (pc = "put" => n + 1 < fontrows)
  OBVIOUS
<1> HIDE DEF picture, after, pc, m
<1>4. DOMAIN app' = AppFields /\ app'.pc = pc /\ app'.n = m /\ app'.picture = picture
  BY <1>1, <1>2 DEF AppFields
<1>5. /\ MiddleX \in Nat /\ MiddleY \in Nat /\ BITS \in Nat /\ XRES \in Nat /\ YRES \in Nat
      /\ MiddleX + BITS <= XRES /\ fontrows \in Nat /\ MiddleY + fontrows <= YRES
  BY ByteAssumption, ResAssumption DEF CharacterFits, MiddleX, MiddleY
<1>6. RowHas(after, fb, MiddleX, MiddleY, n, BITS)
  BY <1>2, <1>5, RowIs DEF after
<1>7. after \in Buffers
  BY <1>6 DEF RowHas
<1>8. ASSUME NEW u \in 0 .. XRES - 1, NEW v \in 0 .. YRES - 1
      PROVE  Lit(after, u, v) <=> <<u, v>> \in picture
  <2> DEFINE c == Mirrored(u) - MiddleX
             y == MiddleY + n
  <2>1. Lit(after, u, v) <=> IF v = y /\ c \in 0 .. BITS - 1 THEN <<c, n>> \in fontdata_8x16
                             ELSE Lit(fb, u, v)
    BY <1>6 DEF RowHas
  <2>2. <<u, v>> \in gained <=> v = y /\ <<c, n>> \in fontdata_8x16
    BY <1>2, RowOfPicture
  <2>3. Lit(fb, u, v) <=> <<u, v>> \in app.picture
    BY <1>2, DriverSees DEF FbShows
  <2>4. <<c, n>> \in fontdata_8x16 => c \in 0 .. BITS - 1
    BY DEF CharacterFits
  <2>5. v = y => <<u, v>> \notin app.picture
    <3>1. v = y => v \in y .. YRES - 1
      BY <1>2, <1>5
    <3>2. QED
      BY <1>2, <3>1
  <2>6. <<u, v>> \in picture <=> <<u, v>> \in app.picture \/ <<u, v>> \in gained
    BY DEF picture
  <2> HIDE DEF c, y, gained
  <2>7. QED
    BY <2>1, <2>2, <2>3, <2>4, <2>5, <2>6, Zenon
<1>9. FbShows(app.picture)'
  <2> SUFFICES ASSUME NEW x \in 0 .. XRES - 1, NEW y \in 0 .. YRES - 1
               PROVE  (get_pixel(x, y) = 1)' <=> <<x, y>> \in picture
    BY <1>4 DEF FbShows
  <2>1. Base(x, y) = (y * RowBytes) + (x \div BITS)
    BY PixelPlace
  <2>2. get_pixel(x, y)' = after[Base(x, y)][Bit(x)]
    BY <1>1, <2>1 DEF get_pixel, RowBytes, Bit
  <2>3. QED
    BY <1>8, <2>2 DEF Lit
<1>10. ASSUME pc = "put" PROVE DarkFromNext'
  <2>1. m \in Nat /\ MiddleY + m <= YRES - 1 /\ m = n + 1
    BY <1>2, <1>3, <1>5, <1>10 DEF m
  <2>2. ASSUME NEW x \in 0 .. XRES - 1, NEW y \in MiddleY + m .. YRES - 1 PROVE <<x, y>> \notin picture
    <3>1. y \in MiddleY + n .. YRES - 1 /\ y # MiddleY + n
      BY <1>2, <1>5, <2>1
    <3>2. <<x, y>> \notin app.picture
      BY <1>2, <3>1
    <3>3. <<x, y>> \notin gained
      BY <1>2, <3>1, RowOfPicture
    <3>4. QED
      BY <3>2, <3>3 DEF picture
  <2>3. QED
    BY <1>4, <2>1, <2>2 DEF DarkFromNext, MiddleY
<1>11. QED
  BY <1>1, <1>3, <1>4, <1>7, <1>9, <1>10 DEF CharacterInv

\* The invariant holds at first: nothing has been put.
LEMMA CharacterStart ==
    ASSUME NEW pc \in {"start", "ascii"}, NEW noise, InitScreen(pc, noise)
    PROVE  CharacterInv
<1>1. app = [pc |-> pc, buffer |-> Blank, n |-> 0, drawn |-> 0, picture |-> {}]
  BY DEF InitScreen
<1>2. DOMAIN app = AppFields /\ app.pc = pc
  BY <1>1 DEF AppFields
<1>3. QED
  BY <1>2 DEF CharacterInv

\* Every step of the screen keeps the invariant.
LEMMA CharacterSteps ==
    ASSUME CharacterFits, CharacterInv, ScreenNext \/ UNCHANGED screen
    PROVE  CharacterInv'
<1>1. CASE UNCHANGED <<app, fb>>
  BY <1>1 DEF CharacterInv, FbShows, get_pixel, DarkFromNext
<1>2. ASSUME NEW pc \in TvPlaces, app'.pc = pc, DOMAIN app' = AppFields PROVE CharacterInv'
  BY <1>2 DEF CharacterInv, TvPlaces
<1>3. DOMAIN app = AppFields
  BY DEF CharacterInv
<1>4. CASE \E opened \in BOOLEAN : Start(opened)
  <2>1. PICK pc \in {"drawn", "fault"} : app' = [app EXCEPT !.pc = pc]
    BY <1>4 DEF Start
  <2>2. QED
    BY <1>2, <1>3, <2>1 DEF AppFields, TvPlaces
<1>5. ASSUME NEW buffer, NEW picture, Draws(buffer, picture) PROVE CharacterInv'
  <2>1. app' = [app EXCEPT !.pc = "drawn", !.drawn = @ + 1, !.buffer = buffer, !.picture = picture]
    BY <1>5 DEF Draws
  <2>2. QED
    BY <1>2, <1>3, <2>1 DEF AppFields, TvPlaces
<1>6. CASE \/ \E r \in Regions : DrawRectangle(r) \/ EraseRectangle(r) \/ Invert(r)
           \/ \E text \in Texts : DrawText(text.str, text.region, text.size)
  BY <1>5, <1>6, Zenon DEF DrawRectangle, EraseRectangle, Invert, DrawText
<1>7. CASE FlushDisplayRegion
  <2>1. app' = [app EXCEPT !.pc = "flush", !.n = 0]
    BY <1>7 DEF FlushDisplayRegion
  <2>2. QED
    BY <1>2, <1>3, <2>1 DEF AppFields, TvPlaces
<1>8. CASE FlushByte
  <2> DEFINE pc == IF app.n + 1 \in Bytes THEN "flush" ELSE "idle"
  <2>1. app' = [app EXCEPT !.n = app.n + 1, !.pc = pc]
    BY <1>8 DEF FlushByte
  <2>2. pc \in TvPlaces
    BY DEF TvPlaces
  <2> HIDE DEF pc
  <2>3. QED
    BY <1>2, <1>3, <2>1, <2>2 DEF AppFields
<1>9. ASSUME oled_thread \/ UNCHANGED screen PROVE UNCHANGED <<app, fb>>
  BY <1>9 DEF oled_thread, Convert, SendPage, WakeUp, screen
<1>10. QED
  BY <1>1, <1>4, <1>6, <1>7, <1>8, <1>9, ClearKeeps, RowKeeps DEF ScreenNext, TvSteps, AsciiSteps

-------------------------------------------------------------------------------
\* From the frame buffer to the glass.

ThreadFields == {"pc", "n", "data", "panel"}
FbLines == 0 .. FbPages - 1

\* A column of a page, as the thread finds it in the frame buffer.
Column(i) == [bit \in 0 .. BITS - 1 |-> get_pixel(i % XRES, ((i \div XRES) * BITS) + bit)]

\* A page of the panel shows what the thread has converted.
PageHasData(y) == \A c \in 0 .. XRES - 1 : thread.panel.ram[y][c] = thread.data[y * XRES + c]

\* The panel is on, at the start of a page, and waits for no argument.
PanelAtPage == \E ram, page : /\ thread.panel = AtPage(ram, page, TRUE)
                              /\ ram = [y \in FbLines |-> ram[y]]

\* The pages before n have been sent, and all of them when the thread sleeps.
SentSoFar ==
    /\ thread.pc = "convert" => thread.n \in Bytes
    /\ thread.pc = "send" => thread.n \in FbLines /\ \A y \in FbLines : y < thread.n => PageHasData(y)
    /\ thread.pc = "sleep" => thread.n = 0 /\ \A y \in FbLines : PageHasData(y)

ThreadInv ==
    /\ DOMAIN thread = ThreadFields /\ thread.pc \in {"convert", "send", "sleep"}
    /\ thread.data = [i \in Bytes |-> thread.data[i]]
    /\ PanelAtPage /\ SentSoFar

\* What a round of the thread has converted is what the frame buffer holds.
RoundIsTrue == \A i \in Bytes : (thread.pc = "convert" => i < thread.n) => thread.data[i] = Column(i)

\* All that the panel shows is what the frame buffer holds.
GlassIsTrue == /\ \A i \in Bytes : thread.data[i] = Column(i)
               /\ \A y \in FbLines : PageHasData(y)

\* The panel is on and shows a picture, pixel for pixel.
PanelShows(picture) == thread.panel.on /\ \A x \in 0 .. XRES - 1, y \in 0 .. YRES - 1 :
                                              Shown(x, y) <=> <<x, y>> \in picture

\* At the end of a round during which the frame buffer kept a finished picture, the
\* panel shows that picture.
RoundShowsPicture ==
    app.pc = "idle" /\ thread.pc = "sleep" /\ RoundIsTrue => PanelShows(app.picture)

\* The same for the character of show_ascii.
RoundShowsCharacter ==
    app.pc = "ended" /\ thread.pc = "sleep" /\ RoundIsTrue => PanelShows(app.picture)

\* The lines of the screen fill the pages of the panel, and its columns the buffer.
LEMMA PagesFill == /\ FbPages \in Nat \ {0} /\ YRES = FbPages * BITS
                   /\ Bytes = 0 .. (FbPages * XRES) - 1
<1>1. /\ XRES \in Nat \ {0} /\ YRES \in Nat \ {0} /\ BITS \in Nat \ {0} /\ YRES % BITS = 0
      /\ FbPages \in Nat \ {0}
  BY ResAssumption, ByteAssumption, PagesAssumption
<1>2. YRES = FbPages * BITS
  BY <1>1 DEF FbPages
<1> DEFINE k == FbPages * XRES
<1>3. k \in Nat /\ XRES * YRES = k * BITS + 0
  BY <1>1, <1>2
<1> HIDE DEF k
<1>4. (XRES * YRES) \div BITS = k
  BY <1>1, <1>3, Quotient
<1>5. QED
  BY <1>1, <1>2, <1>4 DEF Bytes, k

\* Where the thread puts a pixel.
LEMMA ColumnPlace ==
    ASSUME NEW x \in 0 .. XRES - 1, NEW y \in 0 .. YRES - 1
    PROVE  LET i == (y \div BITS) * XRES + x
           IN  /\ y \div BITS \in FbLines /\ y % BITS \in 0 .. BITS - 1 /\ i \in Bytes
               /\ i % XRES = x /\ i \div XRES = y \div BITS
               /\ y = (y \div BITS) * BITS + (y % BITS)
<1>1. XRES \in Nat \ {0} /\ BITS \in Nat \ {0} /\ FbPages \in Nat \ {0} /\ YRES = FbPages * BITS
  BY ResAssumption, ByteAssumption, PagesFill
<1>2. y \in 0 .. (FbPages * BITS) - 1
  BY <1>1
<1>3. /\ y \div BITS \in 0 .. FbPages - 1 /\ y % BITS \in 0 .. BITS - 1
      /\ y = (y \div BITS) * BITS + (y % BITS)
  BY <1>1, <1>2, QuotientBelow
<1> DEFINE q == y \div BITS
<1>4. q \in 0 .. FbPages - 1
  BY <1>3
<1> HIDE DEF q
<1>5. q * XRES \in Nat /\ q * XRES <= (FbPages * XRES) - XRES
  <2>1. q \in Nat /\ q <= FbPages - 1
    BY <1>1, <1>4
  <2>2. q * XRES <= (FbPages - 1) * XRES
    BY <1>1, <2>1
  <2>3. (FbPages - 1) * XRES = (FbPages * XRES) - XRES
    BY <1>1
  <2>4. q * XRES \in Nat
    BY <1>1, <2>1
  <2>5. QED
    BY <2>2, <2>3, <2>4
<1>6. (q * XRES + x) % XRES = x /\ (q * XRES + x) \div XRES = q
  BY <1>1, <1>4, Quotient
<1>7. q * XRES + x \in Bytes
  <2> DEFINE a == q * XRES
             all == FbPages * XRES
  <2>1. a \in Nat /\ all \in Nat /\ a <= all - XRES /\ Bytes = 0 .. all - 1
    BY <1>1, <1>5, PagesFill
  <2> HIDE DEF a, all
  <2>2. a + x \in Bytes
    BY <1>1, <2>1
  <2>3. QED
    BY <2>2 DEF a
<1>8. QED
  BY <1>3, <1>6, <1>7 DEF q, FbLines

\* What the probe leaves of the panel's memory.
LEMMA ChipFilledIs ==
    ASSUME NEW on, NEW ram, NEW of, ram = [p \in FbLines |-> ram[p]]
    PROVE  Chip!Filled(AtPage(ram, 0, on), of)
             = AtPage([p \in FbLines |-> SameLine(XRES, of[p])], FbPages - 1, on)
<1> DEFINE w == Filling(FbPages, XRES, ram, of, on)
           Fill(before, y) == Chip!oled_write_datas(Chip!OLED_DIsp_Set_Pos(before, 0, y - 1),
                                                    SameBytes(XRES, of[y - 1]))
           Runs(f) == f = [y \in 0 .. FbPages |->
                              IF y = 0 THEN AtPage(ram, 0, on) ELSE Fill(f[y - 1], y)]
           after == CHOOSE f : Runs(f)
<1>1. Chip!Filled(AtPage(ram, 0, on), of) = after[FbPages]
  BY Zenon DEF Chip!Filled, SameBytes
<1>2. /\ w[0] = AtPage(ram, 0, on)
      /\ \A y \in 1 .. FbPages : w[y] = Fill(w[y - 1], y)
      /\ w[FbPages] = AtPage([p \in FbLines |-> SameLine(XRES, of[p])], FbPages - 1, on)
  <2>1. FbPages \in 1 .. 8 /\ XRES \in Nat \ {0} /\ FbLines = 0 .. FbPages - 1
    BY PagesAssumption, ResAssumption DEF FbLines
  <2>2. ram = [p \in 0 .. FbPages - 1 |-> ram[p]]
    BY <2>1
  <2>3. FillsPages(Filling(FbPages, XRES, ram, of, on), FbPages, XRES, ram, of, on)
    BY <2>1, <2>2, FillingSteps
  <2>4. /\ w[0] = AtPage(ram, 0, on)
        /\ \A y \in 1 .. FbPages : w[y] = Wrote(XRES, Chip!OLED_DIsp_Set_Pos(w[y - 1], 0, y - 1),
                                               SameBytes(XRES, of[y - 1]))
        /\ w[FbPages] = AtPage([p \in FbLines |-> SameLine(XRES, of[p])], FbPages - 1, on)
    BY <2>1, <2>3, Zenon DEF FillsPages
  <2> HIDE DEF w
  <2>5. QED
    BY <2>4, WroteIs, Zenon
<1>3. FbPages \in Nat /\ 0 \in 0 .. FbPages
  BY PagesAssumption
<1>4. /\ \A y \in 0 .. FbPages : y # 0 => y \in 1 .. FbPages
      /\ \A y \in 1 .. FbPages : y \in 0 .. FbPages /\ y # 0
  BY <1>3
<1>5. w = [y \in 0 .. FbPages |-> w[y]]
  BY Zenon DEF Filling
<1> HIDE DEF w, Fill
<1>6. Runs(w)
  BY <1>2, <1>4, <1>5, Zenon
<1>7. Runs(after)
  <2> HIDE DEF Runs
  <2>1. QED
    BY <1>6, Zenon
<1> HIDE DEF after
<1>8. after[0] = w[0] /\ \A y \in 1 .. FbPages : after[y - 1] = w[y - 1] => after[y] = w[y]
  BY <1>2, <1>3, <1>4, <1>7, Zenon
<1>9. after[FbPages] = w[FbPages]
  BY <1>3, <1>8, SameSteps
<1>10. QED
  BY <1>1, <1>2, <1>9, Zenon

\* The thread starts with its first column, in front of a panel that is on.
LEMMA ThreadStart ==
    ASSUME NEW pc, NEW noise, InitScreen(pc, noise)
    PROVE  ThreadInv
<1> DEFINE noisy == [p \in FbLines |-> [c \in 0 .. XRES - 1 |-> [b \in 0 .. BITS - 1 |-> noise]]]
           of == [y \in 0 .. FbPages - 1 |-> [b \in 0 .. BITS - 1 |-> IF y < 4 THEN 0 ELSE 1]]
           ram == [p \in FbLines |-> SameLine(XRES, of[p])]
           panel == ProbeClears(FbHardwareInit(Chip!PoweredOn([b \in 0 .. BITS - 1 |-> noise])))
<1>1. Chip!PoweredOn([b \in 0 .. BITS - 1 |-> noise]) = AtStart(noisy, 0, FALSE)
  BY Zenon DEF Chip!PoweredOn, Chip!Pages, Chip!Columns, AtStart, FbLines
<1>2. noisy = [p \in FbLines |-> noisy[p]]
  BY Zenon
<1> HIDE DEF noisy
<1>3. FbHardwareInit(AtStart(noisy, 0, FALSE)) = AtPage(noisy, 0, TRUE)
  BY HardwareInit, Zenon DEF FbHardwareInit, AtStart, AtPage
<1>4. ProbeClears(AtPage(noisy, 0, TRUE)) = AtPage(ram, FbPages - 1, TRUE)
  <2>1. ProbeClears(AtPage(noisy, 0, TRUE)) = Chip!Filled(AtPage(noisy, 0, TRUE), of)
    BY Zenon DEF ProbeClears
  <2> HIDE DEF of
  <2>2. QED
    BY <1>2, <2>1, ChipFilledIs
<1>5. panel = AtPage(ram, FbPages - 1, TRUE)
  BY <1>1, <1>3, <1>4, Zenon
<1>6. ram = [p \in FbLines |-> ram[p]]
  OBVIOUS
<1> HIDE DEF ram, of, panel
<1>7. thread = [pc |-> "convert", n |-> 0, data |-> Blank, panel |-> panel]
  BY Zenon DEF InitScreen, panel
<1>8. /\ DOMAIN thread = ThreadFields /\ thread.pc = "convert" /\ thread.n = 0
      /\ thread.data = Blank /\ thread.panel = panel
  BY <1>7 DEF ThreadFields
<1>9. PanelAtPage
  BY <1>5, <1>6, <1>8, Zenon DEF PanelAtPage
<1>10. 0 \in Bytes
  BY LastByte
<1>11. Blank = [i \in Bytes |-> Blank[i]]
  BY Zenon DEF Blank
<1>12. QED
  BY <1>8, <1>9, <1>10, <1>11 DEF ThreadInv, SentSoFar

\* What a converted column does to the thread.
LEMMA Converted ==
    ASSUME ThreadInv, Convert
    PROVE  /\ thread.pc = "convert" /\ thread.n \in Bytes /\ UNCHANGED fb
           /\ DOMAIN thread' = ThreadFields /\ thread'.panel = thread.panel
           /\ thread'.data = [thread.data EXCEPT ![thread.n] = Column(thread.n)]
           /\ IF thread.n + 1 \in Bytes THEN thread'.pc = "convert" /\ thread'.n = thread.n + 1
              ELSE thread'.pc = "send" /\ thread'.n = 0
<1>1. thread.pc = "convert" /\ UNCHANGED fb
  BY DEF Convert
<1>2. DOMAIN thread = ThreadFields /\ thread.n \in Bytes
  BY <1>1 DEF ThreadInv, SentSoFar
<1> DEFINE data == [thread.data EXCEPT ![thread.n] = Column(thread.n)]
           n == IF thread.n + 1 \notin Bytes THEN 0 ELSE thread.n + 1
           pc == IF thread.n + 1 \notin Bytes THEN "send" ELSE "convert"
<1>3. thread' = [thread EXCEPT !.data = data, !.n = n, !.pc = pc]
  BY DEF Convert, Column
<1> HIDE DEF data, n, pc
<1>4. /\ DOMAIN thread' = ThreadFields /\ thread'.panel = thread.panel
      /\ thread'.data = data /\ thread'.n = n /\ thread'.pc = pc
  BY <1>2, <1>3 DEF ThreadFields
<1>5. QED
  BY <1>1, <1>2, <1>4, Zenon DEF data, n, pc

\* What a page that is sent does to the thread.
LEMMA PageSent ==
    ASSUME ThreadInv, SendPage
    PROVE  /\ thread.pc = "send" /\ thread.n \in FbLines /\ UNCHANGED fb
           /\ DOMAIN thread' = ThreadFields /\ thread'.data = thread.data
           /\ PanelAtPage'
           /\ \A y \in FbLines : IF y = thread.n THEN PageHasData(y)'
                                 ELSE thread'.panel.ram[y] = thread.panel.ram[y]
           /\ IF thread.n = FbPages - 1 THEN thread'.pc = "sleep" /\ thread'.n = 0
              ELSE thread'.pc = "send" /\ thread'.n = thread.n + 1
<1> DEFINE y == thread.n
           columns == [c \in 1 .. XRES |-> thread.data[y * XRES + (c - 1)]]
           panel == FbWriteDatas(FbSetPos(thread.panel, 0, y), columns)
           n == IF y = FbPages - 1 THEN 0 ELSE y + 1
           pc == IF y = FbPages - 1 THEN "sleep" ELSE "send"
<1>1. thread.pc = "send" /\ UNCHANGED fb
  BY DEF SendPage
<1>2. DOMAIN thread = ThreadFields /\ y \in FbLines /\ PanelAtPage
  BY <1>1 DEF ThreadInv, SentSoFar
<1>3. thread' = [thread EXCEPT !.panel = panel, !.n = n, !.pc = pc]
  BY DEF SendPage
<1>4. PICK ram, page : thread.panel = AtPage(ram, page, TRUE) /\ ram = [z \in FbLines |-> ram[z]]
  BY <1>2 DEF PanelAtPage
<1>5. Len(columns) = XRES /\ XRES \in Nat \ {0} /\ y \in 0 .. 7
  BY <1>2, ResAssumption, PagesAssumption DEF FbLines
<1>6. \A c \in 0 .. XRES - 1 : Line(XRES, columns)[c] = thread.data[y * XRES + c]
  <2> SUFFICES ASSUME NEW c \in 0 .. XRES - 1
               PROVE  Line(XRES, columns)[c] = thread.data[y * XRES + c]
    OBVIOUS
  <2>1. c + 1 \in 1 .. XRES /\ (c + 1) - 1 = c
    BY <1>5
  <2>2. Line(XRES, columns)[c] = columns[c + 1]
    BY DEF Line
  <2>3. columns[c + 1] = thread.data[y * XRES + ((c + 1) - 1)]
    BY <2>1, Zenon
  <2>4. QED
    BY <2>1, <2>2, <2>3, Zenon
<1> HIDE DEF y, columns, n, pc
<1>7. panel = AtPage([ram EXCEPT ![y] = Line(XRES, columns)], y, TRUE)
  <2>1. Chip!OLED_DIsp_Set_Pos(AtPage(ram, page, TRUE), 0, y) = AtPage(ram, y, TRUE)
    BY <1>5, SetPage
  <2>2. panel = Wrote(XRES, AtPage(ram, y, TRUE), columns)
    BY <1>4, <2>1, WroteIs, Zenon DEF FbWriteDatas, FbSetPos
  <2>3. \A on : Wrote(XRES, AtPage(ram, y, on), columns)
                   = AtPage([ram EXCEPT ![y] = Line(XRES, columns)], y, on)
    BY <1>5, PageWritten
  <2>4. QED
    BY <2>2, <2>3, Zenon
<1> HIDE DEF panel
<1>8. /\ DOMAIN thread' = ThreadFields /\ thread'.data = thread.data
      /\ thread'.panel = panel /\ thread'.n = n /\ thread'.pc = pc
  BY <1>2, <1>3 DEF ThreadFields
<1> DEFINE after == [ram EXCEPT ![y] = Line(XRES, columns)]
<1>9. /\ after = [z \in FbLines |-> after[z]] /\ after[y] = Line(XRES, columns)
      /\ \A z \in FbLines : z # y => after[z] = ram[z]
  BY <1>2, <1>4
<1> HIDE DEF after
<1>10. panel = AtPage(after, y, TRUE)
  BY <1>7 DEF after
<1>11. panel.ram = after /\ thread.panel.ram = ram
  BY <1>4, <1>10 DEF AtPage
<1>12. PanelAtPage'
  BY <1>8, <1>9, <1>10, Zenon DEF PanelAtPage
<1>13. \A c \in 0 .. XRES - 1 : thread'.panel.ram[y][c] = thread'.data[y * XRES + c]
  BY <1>6, <1>8, <1>9, <1>11, Zenon
<1>14. ASSUME NEW z \in FbLines, z = y PROVE PageHasData(z)'
  BY <1>13, <1>14 DEF PageHasData
<1>15. ASSUME NEW z \in FbLines, z # y PROVE thread'.panel.ram[z] = thread.panel.ram[z]
  BY <1>8, <1>9, <1>11, <1>15, Zenon
<1>16. IF y = FbPages - 1 THEN thread'.pc = "sleep" /\ thread'.n = 0
       ELSE thread'.pc = "send" /\ thread'.n = y + 1
  BY <1>8, Zenon DEF n, pc
<1>17. QED
  BY <1>1, <1>2, <1>8, <1>12, <1>14, <1>15, <1>16, Zenon DEF y

\* What is before n, and what is not, when n has moved on or has run out.
LEMMA BeforeNext ==
    ASSUME NEW n \in Bytes
    PROVE  /\ \A i \in Bytes : i < n + 1 => i = n \/ i < n
           /\ n + 1 \notin Bytes => \A i \in Bytes : i = n \/ i < n
<1>1. PICK last \in Nat : Bytes = 0 .. last
  BY LastByte
<1>2. QED
  BY <1>1

\* A converted column keeps the invariant.
LEMMA ConvertKeeps == ASSUME ThreadInv, Convert PROVE ThreadInv'
<1> DEFINE n == thread.n
           data == [thread.data EXCEPT ![n] = Column(n)]
<1>1. /\ thread.pc = "convert" /\ n \in Bytes /\ DOMAIN thread' = ThreadFields
      /\ thread'.panel = thread.panel /\ thread'.data = data
      /\ IF n + 1 \in Bytes THEN thread'.pc = "convert" /\ thread'.n = n + 1
         ELSE thread'.pc = "send" /\ thread'.n = 0
  BY Converted
<1>2. PanelAtPage'
  BY <1>1 DEF ThreadInv, PanelAtPage
<1>3. data = [i \in Bytes |-> data[i]]
  <2>1. thread.data = [i \in Bytes |-> thread.data[i]]
    BY DEF ThreadInv
  <2>2. QED
    BY <2>1
<1> HIDE DEF n, data
<1>4. thread'.data = [i \in Bytes |-> thread'.data[i]]
  BY <1>1, <1>3, Zenon
<1>5. 0 \in FbLines /\ \A y \in FbLines : ~(y < 0)
  BY PagesAssumption DEF FbLines
<1>6. SentSoFar'
  BY <1>1, <1>5 DEF SentSoFar
<1>7. QED
  BY <1>1, <1>2, <1>4, <1>6 DEF ThreadInv

\* A page that is sent keeps the invariant.
LEMMA SendKeeps == ASSUME ThreadInv, SendPage PROVE ThreadInv'
<1> DEFINE n == thread.n
<1>1. /\ thread.pc = "send" /\ n \in FbLines /\ DOMAIN thread' = ThreadFields
      /\ thread'.data = thread.data /\ PanelAtPage'
      /\ \A y \in FbLines : IF y = n THEN PageHasData(y)'
                            ELSE thread'.panel.ram[y] = thread.panel.ram[y]
      /\ IF n = FbPages - 1 THEN thread'.pc = "sleep" /\ thread'.n = 0
         ELSE thread'.pc = "send" /\ thread'.n = n + 1
  BY PageSent
<1>2. \A y \in FbLines : y < n => PageHasData(y)
  BY <1>1 DEF ThreadInv, SentSoFar
<1> HIDE DEF n
<1>3. ASSUME NEW y \in FbLines, y = n \/ y < n PROVE PageHasData(y)'
  <2>1. CASE y = n
    BY <1>1, <2>1
  <2>2. CASE y # n
    <3>1. PageHasData(y) /\ thread'.panel.ram[y] = thread.panel.ram[y]
      BY <1>1, <1>2, <1>3, <2>2
    <3>2. QED
      BY <1>1, <3>1 DEF PageHasData
  <2>3. QED
    BY <2>1, <2>2
<1>4. FbPages \in Nat /\ n \in 0 .. FbPages - 1
  BY <1>1, PagesAssumption DEF FbLines
<1>5. SentSoFar'
  <2>1. CASE n = FbPages - 1
    <3>1. \A y \in FbLines : y = n \/ y < n
      BY <1>4, <2>1 DEF FbLines
    <3>2. \A y \in FbLines : PageHasData(y)'
      BY <1>3, <3>1
    <3>3. QED
      BY <1>1, <2>1, <3>2 DEF SentSoFar
  <2>2. CASE n # FbPages - 1
    <3>1. n + 1 \in FbLines /\ \A y \in FbLines : y < n + 1 => y = n \/ y < n
      BY <1>4, <2>2 DEF FbLines
    <3>2. \A y \in FbLines : y < n + 1 => PageHasData(y)'
      BY <1>3, <3>1
    <3>3. QED
      BY <1>1, <2>2, <3>1, <3>2 DEF SentSoFar
  <2>3. QED
    BY <2>1, <2>2
<1>6. QED
  BY <1>1, <1>5 DEF ThreadInv

\* A thread that wakes keeps the invariant; it begins a round.
LEMMA Woken ==
    ASSUME ThreadInv, WakeUp
    PROVE  /\ UNCHANGED fb /\ thread.pc = "sleep" /\ thread'.pc = "convert" /\ thread'.n = 0
           /\ thread'.data = thread.data /\ thread'.panel = thread.panel
           /\ DOMAIN thread' = ThreadFields
  BY DEF WakeUp, ThreadInv, SentSoFar, ThreadFields

\* Every step of the screen keeps the invariant of the thread.
LEMMA ThreadSteps == ASSUME ThreadInv, ScreenNext \/ UNCHANGED screen PROVE ThreadInv'
<1>1. CASE UNCHANGED thread
  BY <1>1 DEF ThreadInv, PanelAtPage, SentSoFar, PageHasData
<1>2. CASE WakeUp
  <2>1. 0 \in Bytes
    BY LastByte
  <2>2. PanelAtPage'
    BY <1>2, Woken DEF ThreadInv, PanelAtPage
  <2>3. QED
    BY <1>2, <2>1, <2>2, Woken DEF ThreadInv, SentSoFar
<1>3. ASSUME TvSteps \/ AsciiSteps \/ UNCHANGED screen PROVE UNCHANGED thread
  BY <1>3 DEF TvSteps, AsciiSteps, Start, DrawRectangle, EraseRectangle, Invert, DrawText, Draws,
              FlushDisplayRegion, FlushByte, Clear, PutRow, screen
<1>4. QED
  BY <1>1, <1>2, <1>3, ConvertKeeps, SendKeeps DEF ScreenNext, oled_thread

\* A round that has read the frame buffer as it is goes on to do so, while the frame
\* buffer is left alone; and a new one begins with nothing read.
LEMMA RoundGoesOn ==
    ASSUME ThreadInv, RoundIsTrue, ScreenNext \/ UNCHANGED screen, UNCHANGED fb
    PROVE  RoundIsTrue'
<1>1. \A i : Column(i)' = Column(i)
  BY DEF Column, get_pixel
<1>2. CASE UNCHANGED thread
  BY <1>1, <1>2 DEF RoundIsTrue
<1>3. CASE Convert
  <2> DEFINE n == thread.n
  <2>1. /\ thread.pc = "convert" /\ n \in Bytes
        /\ thread'.data = [thread.data EXCEPT ![n] = Column(n)]
        /\ IF n + 1 \in Bytes THEN thread'.pc = "convert" /\ thread'.n = n + 1
           ELSE thread'.pc = "send" /\ thread'.n = 0
    BY <1>3, Converted
  <2>2. DOMAIN thread.data = Bytes
    BY DEF ThreadInv
  <2>3. \A i \in Bytes : i < n => thread.data[i] = Column(i)
    BY <2>1 DEF RoundIsTrue
  <2> HIDE DEF n
  <2>4. \A i \in Bytes : i = n \/ i < n => thread'.data[i] = Column(i)
    BY <2>1, <2>2, <2>3
  <2>5. \A i \in Bytes : (thread'.pc = "convert" => i < thread'.n) => i = n \/ i < n
    BY <2>1, BeforeNext
  <2>6. QED
    BY <1>1, <2>4, <2>5 DEF RoundIsTrue
<1>4. CASE SendPage
  <2>1. thread.pc = "send" /\ thread'.pc # "convert" /\ thread'.data = thread.data
    BY <1>4, PageSent
  <2>2. QED
    BY <1>1, <2>1 DEF RoundIsTrue
<1>5. CASE WakeUp
  <2>1. \A i \in Bytes : ~(i < 0)
    BY LastByte
  <2>2. QED
    BY <1>5, <2>1, Woken DEF RoundIsTrue
<1>6. ASSUME TvSteps \/ AsciiSteps \/ UNCHANGED screen PROVE UNCHANGED thread
  BY <1>6 DEF TvSteps, AsciiSteps, Start, DrawRectangle, EraseRectangle, Invert, DrawText, Draws,
              FlushDisplayRegion, FlushByte, Clear, PutRow, screen
<1>7. QED
  BY <1>2, <1>3, <1>4, <1>5, <1>6 DEF ScreenNext, oled_thread

\* Once the panel shows the frame buffer, further rounds change nothing.
LEMMA GlassKeeps ==
    ASSUME ThreadInv, GlassIsTrue, ScreenNext \/ UNCHANGED screen, UNCHANGED fb
    PROVE  GlassIsTrue'
<1>1. \A i : Column(i)' = Column(i)
  BY DEF Column, get_pixel
<1>2. ASSUME thread'.data = thread.data, \A y \in FbLines : PageHasData(y)' PROVE GlassIsTrue'
  BY <1>1, <1>2 DEF GlassIsTrue
<1>3. ASSUME thread'.data = thread.data, thread'.panel = thread.panel PROVE GlassIsTrue'
  BY <1>1, <1>3 DEF GlassIsTrue, PageHasData
<1>4. CASE Convert
  <2>1. /\ thread.n \in Bytes /\ thread'.data = [thread.data EXCEPT ![thread.n] = Column(thread.n)]
        /\ thread'.panel = thread.panel
    BY <1>4, Converted
  <2>2. thread.data[thread.n] = Column(thread.n)
    BY <2>1 DEF GlassIsTrue
  <2>3. thread.data = [i \in Bytes |-> thread.data[i]]
    BY DEF ThreadInv
  <2>4. thread'.data = thread.data
    BY <2>1, <2>2, <2>3
  <2>5. QED
    BY <1>3, <2>1, <2>4
<1>5. CASE SendPage
  <2>1. thread'.data = thread.data
    BY <1>5, PageSent
  <2>2. ASSUME NEW y \in FbLines PROVE PageHasData(y)'
    <3>1. IF y = thread.n THEN PageHasData(y)' ELSE thread'.panel.ram[y] = thread.panel.ram[y]
      BY <1>5, PageSent
    <3>2. PageHasData(y)
      BY DEF GlassIsTrue
    <3>3. QED
      BY <2>1, <3>1, <3>2 DEF PageHasData
  <2>3. QED
    BY <1>2, <2>1, <2>2
<1>6. CASE WakeUp
  BY <1>3, <1>6, Woken
<1>7. ASSUME TvSteps \/ AsciiSteps \/ UNCHANGED screen PROVE UNCHANGED thread
  BY <1>7 DEF TvSteps, AsciiSteps, Start, DrawRectangle, EraseRectangle, Invert, DrawText, Draws,
              FlushDisplayRegion, FlushByte, Clear, PutRow, screen
<1>8. QED
  BY <1>3, <1>4, <1>5, <1>6, <1>7 DEF ScreenNext, oled_thread

\* A pixel on the glass is the pixel of the frame buffer, when its page shows what was
\* converted and that is what the frame buffer holds.
LEMMA ShownIs ==
    ASSUME NEW x \in 0 .. XRES - 1, NEW y \in 0 .. YRES - 1, GlassIsTrue
    PROVE  Shown(x, y) <=> get_pixel(x, y) = 1
<1> DEFINE p == y \div BITS
           b == y % BITS
           i == p * XRES + x
<1>1. /\ p \in FbLines /\ b \in 0 .. BITS - 1 /\ i \in Bytes
      /\ i % XRES = x /\ i \div XRES = p /\ y = (p * BITS) + b
  BY ColumnPlace
<1> HIDE DEF p, b
<1>2. thread.panel.ram[p][x] = thread.data[i] /\ thread.data[i] = Column(i)
  BY <1>1 DEF GlassIsTrue, PageHasData
<1> HIDE DEF i
<1>3. Column(i)[b] = get_pixel(i % XRES, ((i \div XRES) * BITS) + b)
  BY <1>1 DEF Column
<1>4. Column(i)[b] = get_pixel(x, y)
  BY <1>1, <1>3, Zenon
<1>5. Shown(x, y) <=> thread.panel.ram[p][x][b] = 1
  BY DEF Shown, p, b
<1>6. QED
  BY <1>2, <1>4, <1>5

\* At the end of a round that has read the frame buffer as it is, the panel shows what
\* the driver finds there.
LEMMA RoundEnds ==
    ASSUME ThreadInv, thread.pc = "sleep", RoundIsTrue, NEW picture, FbShows(picture)
    PROVE  PanelShows(picture)
<1>1. GlassIsTrue
  BY DEF GlassIsTrue, RoundIsTrue, ThreadInv, SentSoFar
<1>2. thread.panel.on
  <2>1. PICK ram, page : thread.panel = AtPage(ram, page, TRUE)
    BY DEF ThreadInv, PanelAtPage
  <2>2. QED
    BY <2>1 DEF AtPage
<1>3. ASSUME NEW x \in 0 .. XRES - 1, NEW y \in 0 .. YRES - 1
      PROVE  Shown(x, y) <=> <<x, y>> \in picture
  <2>1. Shown(x, y) <=> get_pixel(x, y) = 1
    BY <1>1, ShownIs
  <2>2. QED
    BY <2>1 DEF FbShows
<1>4. QED
  BY <1>2, <1>3 DEF PanelShows

-------------------------------------------------------------------------------
\* The theorems about the screen.

\* What a step of the whole does to the screen.
LEMMA ScreenMoves == [Next]_allvars => ScreenNext \/ UNCHANGED screen
  BY DEF Next, allvars, ScreenGoes, screen

\* The invariant of the driver's thread: before each page the panel is where the
\* driver, which never reads it, believes it to be, and a page that was sent shows
\* the columns that were converted.
THEOREM ThreadInvariant == Spec => []ThreadInv
<1>1. Init => ThreadInv
  BY ThreadStart DEF Init
<1>2. ThreadInv /\ [Next]_allvars => ThreadInv'
  BY ScreenMoves, ThreadSteps
<1>3. QED
  BY <1>1, <1>2, PTL DEF Spec

\* A round of the thread that has read the frame buffer as it is ends with the page's
\* picture on the glass, pixel for pixel, whatever the application did meanwhile that
\* left the frame buffer alone.
THEOREM RoundsShowPictures == ASSUME RegionsOnScreen PROVE Spec => []RoundShowsPicture
<1>1. ThreadInv /\ PictureInFrameBuffer => RoundShowsPicture
  BY RoundEnds DEF RoundShowsPicture, PictureInFrameBuffer, FbShows
<1>2. QED
  BY <1>1, ThreadInvariant, PicturesAreFlushed, PTL

\* The invariant of show_ascii: with the bits of every byte in its own order, it has
\* written the rows of its character so far where the driver finds their mirror images.
THEOREM CharacterInvariant == ASSUME CharacterFits PROVE Spec => []CharacterInv
<1>1. Init => CharacterInv
  BY CharacterStart DEF Init
<1>2. CharacterInv /\ [Next]_allvars => CharacterInv'
  BY ScreenMoves, CharacterSteps
<1>3. QED
  BY <1>1, <1>2, PTL DEF Spec

\* A round that has read the frame buffer as it is, once show_ascii has ended, ends with
\* the character on the glass, mirrored within its bytes, and nothing else.
THEOREM RoundsShowCharacters == ASSUME CharacterFits PROVE Spec => []RoundShowsCharacter
<1>1. ThreadInv /\ CharacterInv => RoundShowsCharacter
  BY RoundEnds DEF RoundShowsCharacter, CharacterInv
<1>2. QED
  BY <1>1, ThreadInvariant, CharacterInvariant, PTL

\* No step spoils a round while the frame buffer keeps its picture, and once the panel
\* shows the frame buffer no step changes that: with fairness, which TLC takes into
\* account, pictures reach the panel and stay.
THEOREM RoundsStayTrue ==
    Spec => [][UNCHANGED fb => (RoundIsTrue => RoundIsTrue') /\ (GlassIsTrue => GlassIsTrue')]_allvars
<1>1. ThreadInv /\ [Next]_allvars =>
          [UNCHANGED fb => (RoundIsTrue => RoundIsTrue') /\ (GlassIsTrue => GlassIsTrue')]_allvars
  BY ScreenMoves, RoundGoesOn, GlassKeeps
<1>2. QED
  BY <1>1, ThreadInvariant, PTL DEF Spec

-------------------------------------------------------------------------------
\* Loading the drivers: what a driver holds after so many steps.

\* The steps of the drivers are pairs of a kind and a thing.
Kinds == {"set", "arm", "get", "err", "must", "class", "put", "use", "start"}
Things == {"timer0", "timer1", "irq0", "irq1", "gpio0", "gpio1", "gpio2", "gpio3",
           "chrdev", "class", "node", "lock", "wq", "pin", "input", "dc", "info",
           "screen", "fb", "data", "thread"}
Steps == Kinds \X Things
Acquire == Kinds \ {"put", "use", "start"}

\* What the steps before step n of init, or of a call, have asked for and not given back.
Taken(seq, n) == {r \in Things : \E k \in 1 .. n - 1 :
                     /\ seq[k][2] = r /\ seq[k][1] \in Acquire
                     /\ \A j \in k + 1 .. n - 1 : seq[j] # <<"put", r>>}

\* What the steps of exit before step n give back, and what they leave.
Returned(d, n) == {d.exit[k][2] : k \in 1 .. n - 1}
Left(d, n) == Taken(d.init, Len(d.init) + 1) \ Returned(d, n)

\* What a handler touches, and what the list of exposures lets it lack.
Sources == {"irq0", "irq1", "thread"}
Touches(d, h) == IF h \in DOMAIN d.uses THEN d.uses[h] ELSE {}
Code(phase) == IF phase \in {"failed", "gone"} THEN {"code"} ELSE {}
Lacks(m, phase, h) == {r \in Things \cup {"code"} : <<m, phase, h, r>> \in DriverLoad!Exposed}

\* The timers that init, a handler or a call may arm.
Timers(d) == {t \in {"timer0", "timer1"} :
                  \/ \E k \in 1 .. Len(d.init) : d.init[k] = <<"arm", t>>
                  \/ \E p \in d.arms : p[2] = t
                  \/ \E k \in 1 .. Len(d.call) : d.call[k] = <<"start", t>>}

\* Init may fail at its end, if it keeps an error, or where it looks at what it is told.
KeepsError(d) == \E k \in 1 .. Len(d.init) : d.init[k][1] = "err"
FailsAt(d, n) == \/ n = Len(d.init) + 1 /\ KeepsError(d)
                 \/ n \in 1 .. Len(d.init) /\ d.init[n][1] \in {"must", "class"}

\* A call in order uses and starts what init or itself has asked for, lets a handler in
\* for which that is enough, and gives back nothing that init has taken.
CallInOrder(m, d, phase, all) ==
    \A k \in 1 .. Len(d.call) :
        /\ d.call[k][1] \in {"use", "start"} =>
               d.call[k][2] \in all \cup Taken(d.call, k) \cup Lacks(m, phase, "file")
        /\ d.call[k][1] = "put" => d.call[k][2] \notin all
        /\ \A h \in Taken(d.call, k) \cap Sources :
               (Touches(d, h) \ all) \cup Code(phase) \subseteq Lacks(m, phase, h)

\* With all that init has asked for, every handler that may run has what it touches,
\* but for the exposures listed.
StageInOrder(m, d, phase, all) ==
    /\ \A h \in all \cap Sources :
           (Touches(d, h) \ all) \cup Code(phase) \subseteq Lacks(m, phase, h)
    /\ d.door \subseteq all =>
           /\ (Touches(d, "file") \ all) \cup Code(phase) \subseteq Lacks(m, phase, "file")
           /\ CallInOrder(m, d, phase, all)

\* A driver is in order if that is so at every step of init, when it is up and when it
\* fails, and at every step of exit and after it, if exit stops what arms a timer before
\* it deletes the timer, and if exit and the calls give back what is not leaked.
InitInOrder(m, d) ==
    \A n \in 1 .. Len(d.init) + 1 : StageInOrder(m, d, "init", Taken(d.init, n))

UpInOrder(m, d) == StageInOrder(m, d, "up", Taken(d.init, Len(d.init) + 1))

FailedInOrder(m, d) ==
    \A n \in 1 .. Len(d.init) + 1 :
        FailsAt(d, n) => StageInOrder(m, d, "failed", Taken(d.init, n))

ExitInOrder(m, d) ==
    \A n \in 1 .. Len(d.exit) + 1 : \A h \in Left(d, n) \cap Sources :
        Touches(d, h) \ Left(d, n) \subseteq Lacks(m, "exit", h)

GoneInOrder(m, d) ==
    LET rest == Left(d, Len(d.exit) + 1)
    IN  /\ \A h \in rest \cap Sources :
               (Touches(d, h) \ rest) \cup {"code"} \subseteq Lacks(m, "gone", h)
        /\ rest \ {"timer0", "timer1", "lock", "wq"}
               \subseteq (IF m \in DOMAIN DriverLoad!Leaked THEN DriverLoad!Leaked[m] ELSE {})

TimersInOrder(m, d) ==
    /\ \A p \in d.arms : /\ p \in {"irq0", "irq1"} \X {"timer0", "timer1"}
                         /\ \A j \in 1 .. Len(d.exit) : d.exit[j][2] = p[2] =>
                                \E i \in 1 .. j - 1 : d.exit[i][2] = p[1]
    /\ \A t \in Timers(d) : /\ t \notin DOMAIN d.uses
                            /\ \/ t \in Returned(d, Len(d.exit) + 1)
                               \/ "code" \in Lacks(m, "gone", t)
                            /\ "code" \in Lacks(m, "failed", t)

CallType(d) ==
    /\ \A k \in 1 .. Len(d.call) :
           /\ d.call[k][1] \in {"get", "put", "use", "start"} /\ d.call[k][2] # "chrdev"
           /\ d.call[k][1] = "start" => d.call[k][2] \in {"timer0", "timer1"}
    /\ Taken(d.call, Len(d.call) + 1) = {}

DriverType(d) ==
    /\ d.init \in Seq(Steps) /\ d.exit \in Seq(Steps) /\ d.call \in Seq(Steps)
    /\ \A k \in 1 .. Len(d.init) : /\ d.init[k][1] \notin {"use", "start"}
                                   /\ d.init[k][1] = "arm" => d.init[k][2] \in {"timer0", "timer1"}
    /\ \A n \in 1 .. Len(d.init) : d.door \subseteq Taken(d.init, n) => d.init[n][1] # "put"
    /\ CallType(d)
    /\ \A h \in DOMAIN d.uses : "chrdev" \notin d.uses[h]

InOrder(m, d) == /\ DriverType(d) /\ InitInOrder(m, d) /\ UpInOrder(m, d) /\ FailedInOrder(m, d)
                 /\ ExitInOrder(m, d) /\ GoneInOrder(m, d) /\ TimersInOrder(m, d)

\* All drivers are.
AllInOrder == \A m \in DOMAIN DriverLoad!Drivers : InOrder(m, DriverLoad!Drivers[m])

-------------------------------------------------------------------------------
\* The inductive invariant of a load.

ModFields == {"name", "drv", "phase", "n", "err", "held", "refused", "armed", "open", "at"}

Loading == mod.phase \in {"init", "up", "failed"}
Loaded == IF Loading THEN Taken(mod.drv.init, mod.n) ELSE Left(mod.drv, mod.n)
Borrowed == Taken(mod.drv.call, mod.at)

LoadType ==
    /\ DOMAIN mod = ModFields
    /\ mod.name \in DOMAIN DriverLoad!Drivers /\ mod.drv = DriverLoad!Drivers[mod.name]
    /\ mod.phase \in {"init", "failed", "up", "exit", "gone"}
    /\ mod.open \in BOOLEAN
    /\ mod.n \in Nat \ {0} /\ mod.at \in Nat /\ mod.at <= Len(mod.drv.call)

\* Where init and exit are, and who may be in the driver.
Progress ==
    /\ mod.phase = "init" => mod.n <= Len(mod.drv.init) + 1
    /\ mod.phase = "up" => mod.n = Len(mod.drv.init) + 1
    /\ mod.phase = "failed" => mod.n <= Len(mod.drv.init) + 1 /\ FailsAt(mod.drv, mod.n)
    /\ mod.phase = "exit" => mod.n <= Len(mod.drv.exit) + 1
    /\ mod.phase = "gone" => mod.n = Len(mod.drv.exit) + 1
    /\ mod.err = TRUE => KeepsError(mod.drv)
    /\ mod.at # 0 => mod.open = TRUE
    /\ mod.open = TRUE => Loading /\ mod.drv.door \subseteq Loaded

\* What is held has been asked for, and what has been asked for is held or was refused,
\* but for the number, which a driver without a class gives back.
Holdings ==
    /\ mod.held \subseteq Loaded \cup Borrowed
    /\ (Loaded \cup Borrowed) \ {"chrdev"} \subseteq mod.held \cup mod.refused

Running == /\ mod.armed \subseteq Timers(mod.drv)
           /\ ~Loading => mod.armed \cap Returned(mod.drv, mod.n) = {}

LoadInv == LoadType /\ Progress /\ Holdings /\ Running

-------------------------------------------------------------------------------
\* The steps of a load keep it.

\* A step asks for one thing or gives one back, and before the first nothing is taken.
LEMMA TakenNext ==
    ASSUME NEW seq \in Seq(Steps)
    PROVE  /\ Taken(seq, 0) = {} /\ Taken(seq, 1) = {}
           /\ \A n \in 1 .. Len(seq) : Taken(seq, n + 1) =
                  (Taken(seq, n) \ (IF seq[n][1] = "put" THEN {seq[n][2]} ELSE {}))
                      \cup (IF seq[n][1] \in Acquire THEN {seq[n][2]} ELSE {})
<1>1. Taken(seq, 0) = {} /\ Taken(seq, 1) = {}
  BY DEF Taken
<1>2. ASSUME NEW n \in 1 .. Len(seq)
      PROVE  Taken(seq, n + 1) =
                 (Taken(seq, n) \ (IF seq[n][1] = "put" THEN {seq[n][2]} ELSE {}))
                     \cup (IF seq[n][1] \in Acquire THEN {seq[n][2]} ELSE {})
  <2> DEFINE kind == seq[n][1]
             thing == seq[n][2]
  <2>1. n \in Nat /\ (n + 1) - 1 = n
    OBVIOUS
  <2>2. /\ 1 .. (n + 1) - 1 = (1 .. n - 1) \cup {n}
        /\ \A k \in 1 .. n - 1 : k + 1 .. (n + 1) - 1 = (k + 1 .. n - 1) \cup {n}
        /\ n + 1 .. (n + 1) - 1 = {}
    BY <2>1
  <2>3. seq[n] \in Steps
    BY ElementOfSeq
  <2>4. thing \in Things /\ \A r : seq[n] = <<"put", r>> <=> kind = "put" /\ thing = r
    BY <2>3 DEF Steps
  <2>5. ASSUME NEW r \in Things
        PROVE  r \in Taken(seq, n + 1) <=> \/ r \in Taken(seq, n) /\ ~(kind = "put" /\ r = thing)
                                           \/ r = thing /\ kind \in Acquire
    <3> HIDE DEF kind, thing
    <3> DEFINE has(m) == \E k \in 1 .. m - 1 :
                             /\ seq[k][2] = r /\ seq[k][1] \in Acquire
                             /\ \A j \in k + 1 .. m - 1 : seq[j] # <<"put", r>>
    <3>1. \A m : r \in Taken(seq, m) <=> has(m)
      BY DEF Taken
    <3>2. has(n + 1) <=> \/ has(n) /\ seq[n] # <<"put", r>>
                         \/ seq[n][2] = r /\ seq[n][1] \in Acquire
      BY <2>2
    <3>3. r \in Taken(seq, n + 1) <=> \/ r \in Taken(seq, n) /\ seq[n] # <<"put", r>>
                                      \/ seq[n][2] = r /\ seq[n][1] \in Acquire
      BY <3>1, <3>2, Zenon
    <3>4. seq[n] # <<"put", r>> <=> ~(kind = "put" /\ thing = r)
      BY <2>4
    <3>5. (seq[n][2] = r /\ seq[n][1] \in Acquire) <=> (thing = r /\ kind \in Acquire)
      BY DEF kind, thing
    <3>6. QED
      BY <3>3, <3>4, <3>5
  <2>6. \A i : Taken(seq, i) \subseteq Things
    BY DEF Taken
  <2>7. kind = "put" => kind \notin Acquire
    BY DEF Acquire
  <2>8. QED
    BY <2>4, <2>5, <2>6, <2>7
<1>3. QED
  BY <1>1, <1>2

\* A step of exit gives back one thing.
LEMMA ReturnedNext ==
    ASSUME NEW d, d.exit \in Seq(Steps)
    PROVE  /\ Returned(d, 1) = {}
           /\ \A n \in 1 .. Len(d.exit) : Returned(d, n + 1) = Returned(d, n) \cup {d.exit[n][2]}
<1>1. \A n \in 1 .. Len(d.exit) : 1 .. (n + 1) - 1 = (1 .. n - 1) \cup {n}
  OBVIOUS
<1>2. QED
  BY <1>1 DEF Returned

\* The driver that is loaded is in order.
LEMMA LoadedInOrder == ASSUME AllInOrder, LoadType PROVE InOrder(mod.name, mod.drv)
  BY DEF AllInOrder, LoadType

\* The three sequences of a driver have lengths.
LEMMA StepsHere == ASSUME AllInOrder, LoadType
                   PROVE  /\ Len(mod.drv.init) \in Nat /\ Len(mod.drv.exit) \in Nat
                          /\ Len(mod.drv.call) \in Nat
  BY LoadedInOrder, LenProperties DEF InOrder, DriverType

\* A load starts with nothing held.
LEMMA LoadStarts == ASSUME AllInOrder, NEW m \in DOMAIN DriverLoad!Drivers, DriverLoad!InitMod(m)
                    PROVE  LoadInv
<1> DEFINE d == DriverLoad!Drivers[m]
<1>1. /\ DOMAIN mod = ModFields /\ mod.name = m /\ mod.drv = d /\ mod.phase = "init" /\ mod.n = 1
      /\ mod.err = FALSE /\ mod.held = {} /\ mod.refused = {} /\ mod.armed = {}
      /\ mod.open = FALSE /\ mod.at = 0
  BY DEF DriverLoad!InitMod, ModFields
<1> HIDE DEF d
<1>2. DriverType(d)
  BY DEF AllInOrder, InOrder, d
<1>3. Taken(d.init, 1) = {} /\ Taken(d.call, 0) = {}
  BY <1>2, TakenNext DEF DriverType, CallType
<1>4. Len(d.init) \in Nat /\ Len(d.call) \in Nat
  BY <1>2, LenProperties DEF DriverType, CallType
<1>5. LoadType
  <2>1. mod.drv = DriverLoad!Drivers[mod.name] /\ mod.name \in DOMAIN DriverLoad!Drivers
    BY <1>1 DEF d
  <2>2. mod.n \in Nat \ {0} /\ mod.at \in Nat /\ mod.at <= Len(d.call)
    BY <1>1, <1>4
  <2>3. mod.open \in BOOLEAN
    BY <1>1, Zenon
  <2>4. QED
    BY <1>1, <2>1, <2>2, <2>3 DEF LoadType
<1>6. Progress
  BY <1>1, <1>4 DEF Progress
<1>7. Holdings /\ Running
  BY <1>1, <1>3 DEF Holdings, Running, Loading, Loaded, Borrowed
<1>8. QED
  BY <1>5, <1>6, <1>7 DEF LoadInv

\* The kernel grants or refuses what a step of init asks for, and init goes on.
LEMMA InitGoesOn ==
    ASSUME AllInOrder, LoadInv, mod.phase = "init", mod.n \in 1 .. Len(mod.drv.init),
           DOMAIN mod' = ModFields, mod'.name = mod.name, mod'.drv = mod.drv,
           mod'.phase = "init", mod'.n = mod.n + 1, mod'.open = mod.open, mod'.at = mod.at,
           mod'.err = TRUE => mod.err = TRUE \/ mod.drv.init[mod.n][1] = "err",
           NEW kind, kind = mod.drv.init[mod.n][1],
           NEW thing, thing = mod.drv.init[mod.n][2],
           \/ /\ mod'.held = IF kind = "put" THEN mod.held \ {thing} ELSE mod.held \cup {thing}
              /\ mod'.armed = IF kind = "arm" THEN mod.armed \cup {thing} ELSE mod.armed
              /\ mod'.refused = mod.refused
           \/ /\ kind # "put" /\ mod'.held = mod.held /\ mod'.armed = mod.armed
              /\ mod'.refused = mod.refused \cup {thing}
    PROVE  LoadInv'
<1> DEFINE d == mod.drv
           n == mod.n
<1>1. DriverType(d) /\ Len(d.init) \in Nat /\ Len(d.call) \in Nat /\ n \in 1 .. Len(d.init)
  BY LoadedInOrder, StepsHere DEF LoadInv, InOrder
<1>2. d.init[n] \in Steps
  BY <1>1, ElementOfSeq DEF DriverType, CallType
<1>3. kind = "put" \/ kind \in Acquire
  BY <1>1, <1>2 DEF DriverType, CallType, Steps, Kinds, Acquire
<1>4. Taken(d.init, n + 1) = IF kind = "put" THEN Taken(d.init, n) \ {thing}
                             ELSE Taken(d.init, n) \cup {thing}
  <2>1. Taken(d.init, n + 1) =
            (Taken(d.init, n) \ (IF kind = "put" THEN {thing} ELSE {}))
                \cup (IF kind \in Acquire THEN {thing} ELSE {})
    <3>1. d.init \in Seq(Steps)
      BY <1>1 DEF DriverType, CallType
    <3>2. Taken(d.init, n + 1) =
              (Taken(d.init, n) \ (IF d.init[n][1] = "put" THEN {d.init[n][2]} ELSE {}))
                  \cup (IF d.init[n][1] \in Acquire THEN {d.init[n][2]} ELSE {})
      BY <1>1, <3>1, TakenNext, Zenon
    <3>3. d.init[n][1] = kind /\ d.init[n][2] = thing
      OBVIOUS
    <3>4. QED
      BY <3>2, <3>3, Zenon
  <2> HIDE DEF d, n
  <2>2. CASE kind = "put"
    BY <2>1, <2>2 DEF Acquire
  <2>3. CASE kind # "put" /\ kind \in Acquire
    BY <2>1, <2>3
  <2>4. QED
    BY <1>3, <2>2, <2>3
<1>5. d.door \subseteq Taken(d.init, n) => kind # "put"
  BY <1>1 DEF DriverType, CallType
<1>6. kind = "arm" => thing \in Timers(d)
  <2>1. d.init[n][1] = kind /\ d.init[n][2] = thing
    OBVIOUS
  <2>2. kind = "arm" => d.init[n] = <<"arm", thing>> /\ thing \in {"timer0", "timer1"}
    <3> HIDE DEF d, n
    <3>1. QED
      BY <1>1, <1>2, <2>1 DEF DriverType, CallType, Steps
  <2>3. QED
    BY <1>1, <2>2 DEF Timers
<1>7. Borrowed # {} => mod.open = TRUE
  <2>1. Taken(d.call, 0) = {}
    BY <1>1, TakenNext DEF DriverType, CallType
  <2>2. QED
    BY <2>1 DEF LoadInv, Progress, Borrowed
<1>8. Loading /\ Loading' /\ Loaded = Taken(d.init, n) /\ Loaded' = Taken(d.init, n + 1)
      /\ Borrowed' = Borrowed
  BY DEF Loading, Loaded, Borrowed
<1>9. LoadType'
  BY <1>1 DEF LoadInv, LoadType
<1>10. Progress'
  <2>1. mod'.err = TRUE => KeepsError(d)
    BY <1>1 DEF LoadInv, Progress, KeepsError
  <2>2. mod'.open = TRUE => d.door \subseteq Loaded'
    BY <1>4, <1>5, <1>8 DEF LoadInv, Progress
  <2>3. mod'.at # 0 => mod'.open = TRUE
    BY DEF LoadInv, Progress
  <2>4. mod'.n <= Len(d.init) + 1
    BY <1>1
  <2>5. QED
    BY <1>8, <2>1, <2>2, <2>3, <2>4 DEF Progress
<1>11. Holdings'
  <2>1. /\ mod.held \subseteq Loaded \cup Borrowed
        /\ (Loaded \cup Borrowed) \ {"chrdev"} \subseteq mod.held \cup mod.refused
    BY DEF LoadInv, Holdings
  <2>2. mod.open = TRUE => kind # "put"
    BY <1>5, <1>8 DEF LoadInv, Progress
  <2> HIDE DEF d, n
  <2>3. CASE kind = "put"
    <3>1. Borrowed = {}
      BY <1>7, <2>2, <2>3
    <3>2. Loaded' = Loaded \ {thing} /\ mod'.held = mod.held \ {thing} /\ mod'.refused = mod.refused
      BY <1>4, <1>8, <2>3
    <3>3. QED
      BY <1>8, <2>1, <3>1, <3>2 DEF Holdings
  <2>4. CASE kind # "put"
    <3>1. Loaded' = Loaded \cup {thing}
      BY <1>4, <1>8, <2>4
    <3>2. \/ mod'.held = mod.held \cup {thing} /\ mod'.refused = mod.refused
          \/ mod'.held = mod.held /\ mod'.refused = mod.refused \cup {thing}
      BY <2>4
    <3>3. QED
      BY <1>8, <2>1, <3>1, <3>2 DEF Holdings
  <2>5. QED
    BY <2>3, <2>4
<1>12. Running'
  <2>1. mod'.armed \subseteq Timers(d)
    BY <1>6 DEF LoadInv, Running
  <2>2. QED
    BY <1>8, <2>1 DEF Running
<1>13. QED
  BY <1>9, <1>10, <1>11, <1>12 DEF LoadInv

\* A call of init succeeds.
LEMMA InitStepKeeps == ASSUME AllInOrder, LoadInv, DriverLoad!InitStep PROVE LoadInv'
<1> DEFINE d == mod.drv
           kind == d.init[mod.n][1]
           thing == d.init[mod.n][2]
<1>1. /\ DOMAIN mod' = ModFields /\ mod'.name = mod.name /\ mod'.drv = d
      /\ mod'.phase = mod.phase /\ mod'.n = mod.n + 1 /\ mod'.refused = mod.refused
      /\ mod'.open = mod.open /\ mod'.at = mod.at
  BY DEF DriverLoad!InitStep, LoadInv, LoadType, ModFields
<1>2. /\ mod'.err = IF kind = "err" THEN FALSE ELSE mod.err
      /\ mod'.held = IF kind = "put" THEN mod.held \ {thing} ELSE mod.held \cup {thing}
      /\ mod'.armed = IF kind = "arm" THEN mod.armed \cup {thing} ELSE mod.armed
  BY DEF DriverLoad!InitStep, DriverLoad!Kind, DriverLoad!Wanted, LoadInv, LoadType, ModFields
<1>3. mod.phase = "init" /\ mod.n \in 1 .. Len(d.init)
  BY StepsHere DEF DriverLoad!InitStep, DriverLoad!Ended, LoadInv, LoadType
<1> HIDE DEF kind, thing
<1>4. QED
  BY <1>1, <1>2, <1>3, InitGoesOn DEF kind, thing

\* A call of init fails.
LEMMA FailStepKeeps == ASSUME AllInOrder, LoadInv, DriverLoad!FailStep PROVE LoadInv'
<1> DEFINE d == mod.drv
           kind == d.init[mod.n][1]
           thing == d.init[mod.n][2]
<1>1. /\ DOMAIN mod' = ModFields /\ mod'.name = mod.name /\ mod'.drv = d
      /\ mod'.open = mod.open /\ mod'.at = mod.at /\ mod'.armed = mod.armed
  BY DEF DriverLoad!FailStep, LoadInv, LoadType, ModFields
<1>2. mod.phase = "init" /\ mod.n \in 1 .. Len(d.init) /\ Len(d.init) \in Nat
  BY StepsHere DEF DriverLoad!FailStep, DriverLoad!Ended, LoadInv, LoadType
<1>3. \/ /\ kind \in {"get", "err"} /\ mod'.phase = "init" /\ mod'.n = mod.n + 1
         /\ mod'.held = mod.held /\ mod'.refused = mod.refused \cup {thing}
         /\ mod'.err = TRUE => mod.err = TRUE \/ kind = "err"
      \/ /\ kind \in {"must", "class"} /\ mod'.phase = "failed" /\ mod'.n = mod.n
         /\ mod'.refused = mod.refused /\ mod'.err = mod.err
         /\ mod'.held \in {mod.held, mod.held \ {"chrdev"}}
  BY <1>2 DEF DriverLoad!FailStep, DriverLoad!Kind, DriverLoad!Wanted, LoadInv, LoadType, ModFields
<1>4. CASE mod'.phase = "init"
  <2>1. /\ kind \in {"get", "err"} /\ mod'.n = mod.n + 1 /\ mod'.held = mod.held
        /\ mod'.refused = mod.refused \cup {thing}
        /\ mod'.err = TRUE => mod.err = TRUE \/ kind = "err"
    BY <1>3, <1>4
  <2> HIDE DEF kind, thing
  <2>2. QED
    BY <1>1, <1>2, <1>4, <2>1, InitGoesOn DEF kind, thing
<1>5. CASE mod'.phase = "failed"
  <2>1. /\ FailsAt(d, mod.n) /\ mod'.n = mod.n /\ mod'.refused = mod.refused
        /\ mod'.err = mod.err /\ mod'.held \in {mod.held, mod.held \ {"chrdev"}}
    BY <1>2, <1>3, <1>5 DEF FailsAt
  <2>2. Loading /\ Loading' /\ Loaded' = Loaded /\ Borrowed' = Borrowed
    BY <1>1, <1>2, <1>5, <2>1 DEF Loading, Loaded, Borrowed
  <2>3. LoadType'
    BY <1>1, <1>5, <2>1 DEF LoadInv, LoadType
  <2>4. Progress'
    BY <1>1, <1>2, <1>5, <2>1, <2>2 DEF LoadInv, Progress
  <2>5. Holdings'
    BY <2>1, <2>2 DEF LoadInv, Holdings
  <2>6. Running'
    BY <1>1, <2>2 DEF LoadInv, Running
  <2>7. QED
    BY <2>3, <2>4, <2>5, <2>6 DEF LoadInv
<1>6. QED
  BY <1>3, <1>4, <1>5

\* Init ends, exit starts, exit ends.
LEMMA PhaseKeeps ==
    ASSUME AllInOrder, LoadInv,
           DriverLoad!InitEnds \/ DriverLoad!Unload \/ DriverLoad!ExitEnds
    PROVE  LoadInv'
<1> DEFINE d == mod.drv
<1>1. /\ DOMAIN mod' = ModFields /\ mod'.name = mod.name /\ mod'.drv = d
      /\ mod'.open = mod.open /\ mod'.held = mod.held /\ mod'.refused = mod.refused
      /\ mod'.armed = mod.armed /\ mod'.err = mod.err /\ mod'.at = mod.at
      /\ \/ /\ mod.phase = "init" /\ mod.n > Len(d.init) /\ mod'.n = mod.n
            /\ mod'.phase = IF mod.err THEN "failed" ELSE "up"
         \/ mod.phase = "up" /\ mod.open = FALSE /\ mod'.phase = "exit" /\ mod'.n = 1
         \/ mod.phase = "exit" /\ mod.n > Len(d.exit) /\ mod'.phase = "gone" /\ mod'.n = mod.n
  BY DEF DriverLoad!InitEnds, DriverLoad!Unload, DriverLoad!ExitEnds, DriverLoad!Ended,
         LoadInv, LoadType, ModFields
<1>2. DriverType(d) /\ Len(d.init) \in Nat /\ Len(d.exit) \in Nat /\ mod.n \in Nat
  BY LoadedInOrder, StepsHere DEF LoadInv, LoadType, InOrder
<1>3. LoadType'
  BY <1>1 DEF LoadInv, LoadType
<1>4. Returned(d, 1) = {}
  BY <1>2, ReturnedNext DEF DriverType, CallType
<1>5. Borrowed' = Borrowed
  BY <1>1 DEF Borrowed
<1>6. CASE mod.phase = "init"
  <2>1. mod.n = Len(d.init) + 1 /\ mod'.n = mod.n
    BY <1>1, <1>2, <1>6 DEF LoadInv, Progress
  <2>2. mod'.phase \in {"up", "failed"} /\ (mod'.phase = "failed" => mod.err = TRUE)
    BY <1>1, <1>6
  <2>3. Loading /\ Loading' /\ Loaded' = Loaded
    BY <1>1, <1>6, <2>1, <2>2 DEF Loading, Loaded
  <2>4. mod'.phase = "failed" => FailsAt(d, mod.n)
    BY <2>1, <2>2 DEF LoadInv, Progress, FailsAt
  <2>5. Progress'
    BY <1>1, <1>2, <2>1, <2>2, <2>3, <2>4 DEF LoadInv, Progress
  <2>6. Holdings' /\ Running'
    BY <1>1, <1>5, <2>3 DEF LoadInv, Holdings, Running
  <2>7. QED
    BY <1>3, <2>5, <2>6 DEF LoadInv
<1>7. CASE mod.phase \in {"up", "exit"}
  <2>1. mod'.phase \in {"exit", "gone"} /\ mod'.open = FALSE
    BY <1>1, <1>7 DEF LoadInv, LoadType, Progress, Loading
  <2>2. ~Loading' /\ Loaded' = Left(d, mod'.n)
    BY <1>1, <2>1 DEF Loading, Loaded
  <2>3. Loaded' = Loaded
    <3>1. CASE mod.phase = "up"
      BY <1>1, <1>4, <2>2, <3>1 DEF LoadInv, Progress, Left, Loaded, Loading
    <3>2. CASE mod.phase = "exit"
      BY <1>1, <2>2, <3>2 DEF Loaded, Loading
    <3>3. QED
      BY <1>7, <3>1, <3>2
  <2>4. mod'.armed \cap Returned(d, mod'.n) = {}
    <3>1. CASE mod.phase = "up"
      BY <1>1, <1>4, <3>1
    <3>2. CASE mod.phase = "exit"
      BY <1>1, <3>2 DEF LoadInv, Running, Loading
    <3>3. QED
      BY <1>7, <3>1, <3>2
  <2>5. Progress'
    <3>1. mod'.phase = "exit" => mod'.n <= Len(d.exit) + 1
      BY <1>1, <1>2, <1>7
    <3>2. mod'.phase = "gone" => mod'.n = Len(d.exit) + 1
      BY <1>1, <1>2, <1>7 DEF LoadInv, Progress
    <3>3. QED
      BY <1>1, <2>1, <3>1, <3>2 DEF LoadInv, Progress
  <2>6. Holdings' /\ Running'
    BY <1>1, <1>5, <2>3, <2>4 DEF LoadInv, Holdings, Running
  <2>7. QED
    BY <1>3, <2>5, <2>6 DEF LoadInv
<1>8. QED
  BY <1>1, <1>6, <1>7

\* A call of exit gives one thing back.
LEMMA ExitStepKeeps == ASSUME AllInOrder, LoadInv, DriverLoad!ExitStep PROVE LoadInv'
<1> DEFINE d == mod.drv
           thing == d.exit[mod.n][2]
<1>1. /\ DOMAIN mod' = ModFields /\ mod'.name = mod.name /\ mod'.drv = d
      /\ mod'.phase = mod.phase /\ mod'.n = mod.n + 1 /\ mod'.refused = mod.refused
      /\ mod'.open = mod.open /\ mod'.err = mod.err /\ mod'.at = mod.at
      /\ mod'.held = mod.held \ {thing} /\ mod'.armed = mod.armed \ {thing}
  BY DEF DriverLoad!ExitStep, LoadInv, LoadType, ModFields
<1>2. mod.phase = "exit" /\ mod.n \in 1 .. Len(d.exit) /\ Len(d.exit) \in Nat
  BY StepsHere DEF DriverLoad!ExitStep, DriverLoad!Ended, LoadInv, LoadType
<1>3. DriverType(d)
  BY LoadedInOrder DEF LoadInv, InOrder
<1>4. Returned(d, mod.n + 1) = Returned(d, mod.n) \cup {thing}
  BY <1>2, <1>3, ReturnedNext DEF DriverType, CallType
<1>5. mod.open = FALSE /\ mod.at = 0 /\ ~Loading /\ ~Loading'
  BY <1>1, <1>2 DEF LoadInv, LoadType, Progress, Loading
<1>6. Borrowed = {} /\ Borrowed' = {}
  BY <1>1, <1>3, <1>5, TakenNext DEF DriverType, CallType, Borrowed
<1>7. Loaded = Left(d, mod.n) /\ Loaded' = Left(d, mod.n + 1)
  BY <1>1, <1>5 DEF Loaded
<1> HIDE DEF thing
<1>8. Loaded' = Loaded \ {thing}
  BY <1>4, <1>7 DEF Left
<1>9. LoadType'
  BY <1>1, <1>2 DEF LoadInv, LoadType
<1>10. Progress'
  BY <1>1, <1>2, <1>5 DEF LoadInv, Progress
<1>11. Holdings'
  BY <1>1, <1>6, <1>8 DEF LoadInv, Holdings
<1>12. Running'
  BY <1>1, <1>4, <1>5 DEF LoadInv, Running
<1>13. QED
  BY <1>9, <1>10, <1>11, <1>12 DEF LoadInv

\* A process opens, closes and starts a call.
LEMMA FileKeeps ==
    ASSUME AllInOrder, LoadInv,
           DriverLoad!Open \/ DriverLoad!Close \/ DriverLoad!CallStarts
    PROVE  LoadInv'
<1> DEFINE d == mod.drv
<1>1. /\ DOMAIN mod' = ModFields /\ mod'.name = mod.name /\ mod'.drv = d
      /\ mod'.phase = mod.phase /\ mod'.n = mod.n /\ mod'.held = mod.held
      /\ mod'.refused = mod.refused /\ mod'.armed = mod.armed /\ mod'.err = mod.err
  BY DEF DriverLoad!Open, DriverLoad!Close, DriverLoad!CallStarts, LoadInv, LoadType, ModFields
<1>2. \/ /\ Loading /\ mod.open = FALSE /\ d.door \subseteq mod.held
         /\ mod'.open = TRUE /\ mod'.at = mod.at
      \/ mod.open = TRUE /\ mod.at = 0 /\ mod'.open = FALSE /\ mod'.at = mod.at
      \/ mod.open = TRUE /\ mod.at = 0 /\ d.call # <<>> /\ mod'.open = TRUE /\ mod'.at = 1
  BY DEF DriverLoad!Open, DriverLoad!Close, DriverLoad!CallStarts, LoadInv, LoadType, ModFields,
         Loading
<1>3. DriverType(d) /\ Len(d.call) \in Nat
  BY LoadedInOrder, StepsHere DEF LoadInv, InOrder
<1>4. Taken(d.call, 0) = {} /\ Taken(d.call, 1) = {}
  BY <1>3, TakenNext DEF DriverType, CallType
<1>5. Borrowed' = Borrowed
  BY <1>1, <1>2, <1>4 DEF Borrowed
<1>6. Loaded' = Loaded /\ Loading' = Loading
  BY <1>1 DEF Loaded, Loading
<1>7. d.call # <<>> => Len(d.call) >= 1
  BY <1>3, EmptySeq DEF DriverType, CallType
<1>8. LoadType'
  <2>1. mod'.at \in Nat /\ mod'.at <= Len(d.call)
    BY <1>2, <1>3, <1>7 DEF LoadInv, LoadType
  <2>2. mod'.open \in BOOLEAN
    BY <1>2
  <2>3. QED
    BY <1>1, <2>1, <2>2 DEF LoadInv, LoadType
<1>9. mod.open = FALSE /\ d.door \subseteq mod.held => d.door \subseteq Loaded
  BY <1>4 DEF LoadInv, Progress, Holdings, Borrowed
<1>10. Progress'
  <2>1. mod'.at # 0 => mod'.open = TRUE
    BY <1>2 DEF LoadInv, Progress
  <2>2. mod'.open = TRUE => Loading' /\ d.door \subseteq Loaded'
    BY <1>2, <1>6, <1>9 DEF LoadInv, Progress
  <2>3. QED
    BY <1>1, <2>1, <2>2 DEF LoadInv, Progress
<1>11. Holdings' /\ Running'
  BY <1>1, <1>5, <1>6 DEF LoadInv, Holdings, Running
<1>12. QED
  BY <1>8, <1>10, <1>11 DEF LoadInv

\* A call goes on, whether it is given what it asks for or not.
LEMMA CallStepsKeep ==
    ASSUME AllInOrder, LoadInv, DriverLoad!CallStep \/ DriverLoad!CallFails
    PROVE  LoadInv'
<1> DEFINE d == mod.drv
           k == mod.at
           kind == d.call[k][1]
           thing == d.call[k][2]
<1>1. /\ DOMAIN mod' = ModFields /\ mod'.name = mod.name /\ mod'.drv = d
      /\ mod'.phase = mod.phase /\ mod'.n = mod.n /\ mod'.open = mod.open
      /\ mod'.err = mod.err /\ mod'.at = IF k = Len(d.call) THEN 0 ELSE k + 1
  BY DEF DriverLoad!CallStep, DriverLoad!CallFails, DriverLoad!After, LoadInv, LoadType, ModFields
<1>2. DriverType(d) /\ Len(d.call) \in Nat /\ k \in 1 .. Len(d.call)
  BY LoadedInOrder, StepsHere DEF DriverLoad!CallStep, DriverLoad!CallFails, LoadInv, LoadType, InOrder
<1>3. kind \in {"get", "put", "use", "start"} /\ thing # "chrdev"
  BY <1>2 DEF DriverType, CallType
<1>4. \/ /\ kind = "get" /\ mod'.held = mod.held \cup {thing}
         /\ mod'.refused = mod.refused \ {thing} /\ mod'.armed = mod.armed
      \/ /\ kind = "get" /\ mod'.held = mod.held
         /\ mod'.refused = mod.refused \cup {thing} /\ mod'.armed = mod.armed
      \/ /\ kind = "put" /\ mod'.held = mod.held \ {thing}
         /\ mod'.refused = mod.refused /\ mod'.armed = mod.armed
      \/ /\ kind = "use" /\ mod'.held = mod.held
         /\ mod'.refused = mod.refused /\ mod'.armed = mod.armed
      \/ /\ kind = "start" /\ mod'.held = mod.held
         /\ mod'.refused = mod.refused /\ mod'.armed = mod.armed \cup {thing}
  <2>1. CASE DriverLoad!CallStep
    <3>1. /\ mod'.held = CASE kind = "get" -> mod.held \cup {thing}
                            [] kind = "put" -> mod.held \ {thing}
                            [] OTHER -> mod.held
          /\ mod'.refused = IF kind = "get" THEN mod.refused \ {thing} ELSE mod.refused
          /\ mod'.armed = IF kind = "start" THEN mod.armed \cup {thing} ELSE mod.armed
      BY <2>1 DEF DriverLoad!CallStep, DriverLoad!Does, DriverLoad!Its, LoadInv, LoadType, ModFields
    <3> HIDE DEF kind, thing
    <3>2. QED
      BY <1>3, <3>1
  <2>2. CASE DriverLoad!CallFails
    <3>1. /\ kind = "get" /\ mod'.held = mod.held
          /\ mod'.refused = mod.refused \cup {thing} /\ mod'.armed = mod.armed
      BY <2>2 DEF DriverLoad!CallFails, DriverLoad!Does, DriverLoad!Its, LoadInv, LoadType, ModFields
    <3>2. QED
      BY <3>1
  <2>3. QED
    BY <2>1, <2>2
<1>5. mod.open = TRUE /\ Loading /\ d.door \subseteq Loaded /\ Loading' /\ Loaded' = Loaded
  BY <1>1, <1>2 DEF LoadInv, Progress, Loading, Loaded
<1>6. kind = "put" => thing \notin Loaded
  <2>1. InitInOrder(mod.name, d) /\ UpInOrder(mod.name, d) /\ FailedInOrder(mod.name, d)
    BY LoadedInOrder DEF LoadInv, InOrder
  <2>2. mod.n \in 1 .. Len(d.init) + 1 /\ Loaded = Taken(d.init, mod.n)
    BY <1>5, StepsHere DEF LoadInv, LoadType, Progress, Loading, Loaded
  <2>3. StageInOrder(mod.name, d, mod.phase, Loaded)
    BY <1>5, <2>1, <2>2 DEF LoadInv, Progress, Loading, InitInOrder, UpInOrder, FailedInOrder
  <2>4. QED
    BY <1>2, <1>5, <2>3 DEF StageInOrder, CallInOrder
<1>7. Borrowed' = (Borrowed \ (IF kind = "put" THEN {thing} ELSE {}))
                      \cup (IF kind = "get" THEN {thing} ELSE {})
  <2>1. Taken(d.call, k + 1) = (Borrowed \ (IF kind = "put" THEN {thing} ELSE {}))
                                   \cup (IF kind \in Acquire THEN {thing} ELSE {})
    BY <1>2, TakenNext DEF DriverType, CallType, Borrowed
  <2>2. kind \in Acquire <=> kind = "get"
    BY <1>3 DEF Acquire, Kinds
  <2>3. Borrowed' = Taken(d.call, k + 1)
    BY <1>1, <1>2, TakenNext DEF DriverType, CallType, Borrowed
  <2>4. QED
    BY <2>1, <2>2, <2>3
<1>8. kind = "start" => thing \in Timers(d)
  <2>1. d.call[k] \in Steps
    BY <1>2, ElementOfSeq DEF DriverType, CallType
  <2>2. kind = "start" => d.call[k] = <<"start", thing>> /\ thing \in {"timer0", "timer1"}
    BY <1>2, <2>1 DEF DriverType, CallType, Steps
  <2>3. QED
    BY <1>2, <2>2 DEF Timers
<1>9. LoadType'
  BY <1>1, <1>2 DEF LoadInv, LoadType
<1>10. Progress'
  BY <1>1, <1>5 DEF LoadInv, Progress
<1> HIDE DEF d, k, kind, thing
<1>11. Holdings'
  <2>1. /\ mod.held \subseteq Loaded \cup Borrowed
        /\ (Loaded \cup Borrowed) \ {"chrdev"} \subseteq mod.held \cup mod.refused
    BY DEF LoadInv, Holdings
  <2>2. CASE kind = "get"
    <3>1. Borrowed' = Borrowed \cup {thing}
      BY <1>7, <2>2
    <3>2. QED
      BY <1>4, <1>5, <2>1, <2>2, <3>1 DEF Holdings
  <2>3. CASE kind = "put"
    <3>1. Borrowed' = Borrowed \ {thing}
      BY <1>7, <2>3
    <3>2. QED
      BY <1>4, <1>5, <1>6, <2>1, <2>3, <3>1 DEF Holdings
  <2>4. CASE kind \in {"use", "start"}
    <3>1. Borrowed' = Borrowed
      BY <1>7, <2>4
    <3>2. QED
      BY <1>4, <1>5, <2>1, <2>4, <3>1 DEF Holdings
  <2>5. QED
    BY <1>3, <2>2, <2>3, <2>4
<1>12. Running'
  <2>1. mod'.armed \subseteq Timers(d)
    BY <1>4, <1>8 DEF LoadInv, Running, d
  <2>2. QED
    BY <1>1, <1>5, <2>1 DEF Running, d
<1>13. QED
  BY <1>9, <1>10, <1>11, <1>12 DEF LoadInv

\* An interrupt arms timers before exit deletes them, and a timer expires.
LEMMA HandlerKeeps ==
    ASSUME AllInOrder, LoadInv,
           \/ \E irq \in {"irq0", "irq1"} : DriverLoad!Isr(irq)
           \/ \E timer \in {"timer0", "timer1"} : DriverLoad!Expire(timer)
    PROVE  LoadInv'
<1> DEFINE d == mod.drv
<1>1. /\ DOMAIN mod' = ModFields /\ mod'.name = mod.name /\ mod'.drv = d
      /\ mod'.phase = mod.phase /\ mod'.n = mod.n /\ mod'.refused = mod.refused
      /\ mod'.err = mod.err /\ mod'.open = mod.open /\ mod'.held = mod.held
      /\ mod'.at = mod.at
      /\ \/ mod'.armed \subseteq mod.armed
         \/ \E irq \in mod.held : \A t \in mod'.armed :
                t \in mod.armed \/ \E p \in d.arms : p[1] = irq /\ p[2] = t
  BY DEF DriverLoad!Isr, DriverLoad!Expire, LoadInv, LoadType, ModFields
<1>2. DriverType(d) /\ TimersInOrder(mod.name, d)
  BY LoadedInOrder DEF LoadInv, InOrder
<1>3. Loading' = Loading /\ Loaded' = Loaded /\ Borrowed' = Borrowed
  BY <1>1 DEF Loading, Loaded, Borrowed
<1>4. mod'.armed \subseteq Timers(d)
  <2>1. \A p \in d.arms : p[2] \in Timers(d)
    BY <1>2 DEF TimersInOrder, Timers
  <2>2. QED
    BY <1>1, <2>1 DEF LoadInv, Running
<1>5. ASSUME ~Loading, NEW t \in mod'.armed, t \in Returned(d, mod.n)
      PROVE  FALSE
  <2>1. t \notin mod.armed
    BY <1>5 DEF LoadInv, Running
  <2>2. PICK p \in d.arms : p[1] \in mod.held /\ p[2] = t
    BY <1>1, <1>5, <2>1
  <2>3. PICK j \in 1 .. mod.n - 1 : d.exit[j][2] = t
    BY <1>5 DEF Returned
  <2>4. mod.n \in Nat /\ Len(d.exit) \in Nat /\ mod.n <= Len(d.exit) + 1
    BY <1>5, StepsHere DEF LoadInv, LoadType, Progress, Loading
  <2>5. PICK i \in 1 .. j - 1 : d.exit[i][2] = p[1]
    <3>1. j \in 1 .. Len(d.exit)
      BY <2>3, <2>4
    <3>2. QED
      BY <1>2, <2>2, <2>3, <3>1 DEF TimersInOrder
  <2>6. p[1] \in Returned(d, mod.n)
    BY <2>3, <2>4, <2>5 DEF Returned
  <2>7. p[1] \notin Loaded
    BY <1>5, <2>6 DEF Left, Loaded
  <2>8. mod.at = 0
    BY <1>5 DEF LoadInv, Progress
  <2>9. Borrowed = {}
    BY <1>2, <2>8, TakenNext DEF DriverType, CallType, Borrowed
  <2>10. QED
    BY <2>2, <2>7, <2>9 DEF LoadInv, Holdings
<1>6. LoadType' /\ Progress'
  BY <1>1, <1>3 DEF LoadInv, LoadType, Progress
<1>7. Holdings' /\ Running'
  BY <1>1, <1>3, <1>4, <1>5 DEF LoadInv, Holdings, Running
<1>8. QED
  BY <1>6, <1>7 DEF LoadInv

\* Every step keeps it.
LEMMA LoadSteps == ASSUME AllInOrder, LoadInv, [Next]_allvars PROVE LoadInv'
<1>1. CASE UNCHANGED mod
  BY <1>1 DEF LoadInv, LoadType, Progress, Holdings, Running, Loading, Loaded, Borrowed
<1>2. CASE DriverLoad!Next
  BY <1>2, InitStepKeeps, FailStepKeeps, PhaseKeeps, ExitStepKeeps, FileKeeps, CallStepsKeep,
     HandlerKeeps DEF DriverLoad!Next
<1>3. DriverLoad!Next \/ UNCHANGED mod
  BY DEF Next, Load, allvars
<1>4. QED
  BY <1>1, <1>2, <1>3

\* What the invariant says of the handlers.
LEMMA EquippedIs == ASSUME AllInOrder, LoadInv PROVE Equipped
<1> DEFINE d == mod.drv
           m == mod.name
<1>1. InOrder(m, d) /\ Len(d.init) \in Nat /\ Len(d.exit) \in Nat /\ Len(d.call) \in Nat
  BY LoadedInOrder, StepsHere DEF LoadInv
<1>2. SUFFICES ASSUME NEW h \in DriverLoad!Running, NEW r \in DriverLoad!Missing(h)
               PROVE  r \in Lacks(m, mod.phase, h)
  BY DEF Equipped, DriverLoad!Equipped, Lacks
<1>3. mod.phase \in {"init", "up", "failed", "exit", "gone"}
  BY DEF LoadInv, LoadType
<1>4. \/ h \in Sources /\ h \in Loaded \cup Borrowed
      \/ h \in Timers(d) /\ h \in mod.armed
      \/ h = "file" /\ mod.open = TRUE
  BY <1>2 DEF DriverLoad!Running, Sources, LoadInv, LoadType, Holdings, Running
<1>5. r \notin Code(mod.phase) =>
          /\ r \notin Loaded \cup Borrowed
          /\ \/ r \in Touches(d, h)
             \/ /\ h = "file" /\ mod.at # 0 /\ r = d.call[mod.at][2]
                /\ d.call[mod.at][1] \in {"use", "start"}
  <2> SUFFICES ASSUME r \notin Code(mod.phase)
               PROVE  /\ r \notin Loaded \cup Borrowed
                      /\ \/ r \in Touches(d, h)
                         \/ /\ h = "file" /\ mod.at # 0 /\ r = d.call[mod.at][2]
                            /\ d.call[mod.at][1] \in {"use", "start"}
    OBVIOUS
  <2>1. r \in DriverLoad!Touched(h) /\ r \notin mod.held /\ r \notin mod.refused
    BY <1>2, <1>3 DEF DriverLoad!Missing, Code
  <2>2. \/ r \in Touches(d, h)
        \/ /\ h = "file" /\ mod.at # 0 /\ r = d.call[mod.at][2]
           /\ d.call[mod.at][1] \in {"use", "start"}
    BY <2>1 DEF DriverLoad!Touched, DriverLoad!Uses, DriverLoad!Does, DriverLoad!Its, Touches
  <2>3. mod.at # 0 => mod.at \in 1 .. Len(d.call)
    BY <1>1 DEF LoadInv, LoadType
  <2>4. r # "chrdev"
    BY <1>1, <2>2, <2>3 DEF InOrder, DriverType, CallType, Touches
  <2>5. QED
    BY <2>1, <2>2, <2>4 DEF LoadInv, Holdings
<1>6. CASE h \in Timers(d) /\ h \in mod.armed
  <2>1. Touches(d, h) = {} /\ h # "file"
    BY <1>1, <1>6 DEF InOrder, TimersInOrder, Touches, Timers
  <2>2. r \in Code(mod.phase)
    BY <1>5, <2>1
  <2>3. r = "code" /\ mod.phase \in {"failed", "gone"}
    BY <2>2 DEF Code
  <2>4. mod.phase = "gone" => h \notin Returned(d, Len(d.exit) + 1)
    BY <1>6 DEF LoadInv, Progress, Running, Loading
  <2>5. QED
    BY <1>1, <1>6, <2>3, <2>4 DEF InOrder, TimersInOrder
<1>7. CASE Loading /\ (h \in Sources \/ h = "file")
  <2>1. mod.n \in 1 .. Len(d.init) + 1 /\ Loaded = Taken(d.init, mod.n)
    BY <1>1, <1>7 DEF LoadInv, LoadType, Progress, Loading, Loaded
  <2>2. StageInOrder(m, d, mod.phase, Loaded)
    BY <1>1, <1>7, <2>1 DEF LoadInv, Progress, Loading, InOrder, InitInOrder, UpInOrder,
       FailedInOrder
  <2>3. mod.open = TRUE => d.door \subseteq Loaded
    BY DEF LoadInv, Progress
  <2>4. mod.at # 0 => mod.at \in 1 .. Len(d.call) /\ mod.open = TRUE
    BY <1>1 DEF LoadInv, LoadType, Progress
  <2>5. mod.at = 0 => Borrowed = {}
    BY <1>1, TakenNext DEF InOrder, DriverType, Borrowed
  <2>6. CASE h \in Sources
    <3>1. r \in (Touches(d, h) \ Loaded) \cup Code(mod.phase)
      BY <1>5, <2>6 DEF Sources
    <3>2. CASE h \in Loaded
      BY <2>2, <2>6, <3>1, <3>2 DEF StageInOrder
    <3>3. CASE h \in Borrowed
      BY <2>2, <2>3, <2>4, <2>5, <2>6, <3>1, <3>3 DEF StageInOrder, CallInOrder, Borrowed
    <3>4. h \in Loaded \cup Borrowed
      BY <1>4, <2>6 DEF Sources, Timers
    <3>5. QED
      BY <3>2, <3>3, <3>4
  <2>7. CASE h = "file"
    <3>1. mod.open = TRUE /\ d.door \subseteq Loaded
      BY <1>4, <2>3, <2>7 DEF Sources, Timers
    <3>2. CASE r \in (Touches(d, h) \ Loaded) \cup Code(mod.phase)
      BY <2>2, <2>7, <3>1, <3>2 DEF StageInOrder
    <3>3. CASE /\ mod.at # 0 /\ r = d.call[mod.at][2] /\ r \notin Loaded \cup Borrowed
               /\ d.call[mod.at][1] \in {"use", "start"}
      BY <2>2, <2>4, <2>7, <3>1, <3>3 DEF StageInOrder, CallInOrder, Borrowed
    <3>4. QED
      BY <1>5, <3>2, <3>3
  <2>8. QED
    BY <1>7, <2>6, <2>7
<1>8. CASE ~Loading /\ (h \in Sources \/ h = "file")
  <2>1. mod.at = 0 /\ mod.open = FALSE /\ mod.phase \in {"exit", "gone"}
    BY <1>3, <1>8 DEF LoadInv, LoadType, Progress, Loading
  <2>2. Borrowed = {}
    BY <1>1, <2>1, TakenNext DEF InOrder, DriverType, Borrowed
  <2>3. h \in Sources \cap Left(d, mod.n) /\ Loaded = Left(d, mod.n)
    BY <1>4, <1>8, <2>1, <2>2 DEF Loaded, Sources, Timers
  <2>4. r \in (Touches(d, h) \ Left(d, mod.n)) \cup Code(mod.phase)
    BY <1>5, <2>1, <2>3
  <2>5. CASE mod.phase = "exit"
    <3>1. mod.n \in 1 .. Len(d.exit) + 1
      BY <1>1, <2>5 DEF LoadInv, LoadType, Progress
    <3>2. Code(mod.phase) = {}
      BY <2>5 DEF Code
    <3>3. QED
      BY <1>1, <2>3, <2>4, <2>5, <3>1, <3>2 DEF InOrder, ExitInOrder
  <2>6. CASE mod.phase = "gone"
    <3>1. mod.n = Len(d.exit) + 1 /\ Code(mod.phase) = {"code"}
      BY <2>6 DEF LoadInv, Progress, Code
    <3>2. QED
      BY <1>1, <2>3, <2>4, <2>6, <3>1 DEF InOrder, GoneInOrder
  <2>7. QED
    BY <2>1, <2>5, <2>6
<1>9. QED
  BY <1>4, <1>6, <1>7, <1>8

\* And of what is left.
LEMMA GoneIs == ASSUME AllInOrder, LoadInv PROVE UnloadedIsGone
<1> SUFFICES ASSUME mod.phase = "gone"
             PROVE  mod.held \ {"timer0", "timer1", "lock", "wq"}
                        \subseteq (IF mod.name \in DOMAIN DriverLoad!Leaked
                                   THEN DriverLoad!Leaked[mod.name] ELSE {})
  BY DEF UnloadedIsGone, DriverLoad!UnloadedIsGone
<1>1. InOrder(mod.name, mod.drv)
  BY LoadedInOrder DEF LoadInv
<1>2. mod.at = 0 /\ ~Loading /\ mod.n = Len(mod.drv.exit) + 1
  BY DEF LoadInv, Progress, Loading
<1>3. Borrowed = {} /\ Loaded = Left(mod.drv, Len(mod.drv.exit) + 1)
  BY <1>1, <1>2, TakenNext DEF InOrder, DriverType, Borrowed, Loaded
<1>4. mod.held \subseteq Left(mod.drv, Len(mod.drv.exit) + 1)
  BY <1>3 DEF LoadInv, Holdings
<1>5. QED
  BY <1>1, <1>4 DEF InOrder, GoneInOrder

-------------------------------------------------------------------------------
\* The drivers are in order.

\* Two sequences put together are a third if its entries are theirs.
LEMMA Joined ==
    ASSUME NEW S, NEW s \in Seq(S), NEW t \in Seq(S), NEW u \in Seq(S),
           Len(u) = Len(s) + Len(t),
           \A i \in 1 .. Len(u) : u[i] = IF i <= Len(s) THEN s[i] ELSE t[i - Len(s)]
    PROVE  s \o t = u
<1>1. /\ s \o t \in Seq(S) /\ Len(s \o t) = Len(u)
      /\ \A i \in 1 .. Len(u) : (s \o t)[i] = u[i]
  OBVIOUS
<1>2. QED
  BY <1>1, SeqEqual

\* Two and three put together are five.
LEMMA TwoThree == \A a, b, x, y, z : <<a, b>> \o <<x, y, z>> = <<a, b, x, y, z>>
<1> TAKE a, b, x, y, z
<1> DEFINE S == {a, b, x, y, z}
<1>1. a \in S /\ b \in S /\ x \in S /\ y \in S /\ z \in S
  OBVIOUS
<1> HIDE DEF S
<1>2. <<a, b>> \in Seq(S) /\ <<x, y, z>> \in Seq(S) /\ <<a, b, x, y, z>> \in Seq(S)
  BY <1>1
<1>3. /\ Len(<<a, b, x, y, z>>) = Len(<<a, b>>) + Len(<<x, y, z>>)
      /\ \A i \in 1 .. Len(<<a, b, x, y, z>>) : <<a, b, x, y, z>>[i] =
             IF i <= Len(<<a, b>>) THEN <<a, b>>[i] ELSE <<x, y, z>>[i - Len(<<a, b>>)]
  OBVIOUS
<1>4. QED
  BY <1>2, <1>3, Joined, Zenon

\* Three and three put together are six.
LEMMA ThreeThree == \A a, b, c, x, y, z : <<a, b, c>> \o <<x, y, z>> = <<a, b, c, x, y, z>>
<1> TAKE a, b, c, x, y, z
<1> DEFINE S == {a, b, c, x, y, z}
<1>1. a \in S /\ b \in S /\ c \in S /\ x \in S /\ y \in S /\ z \in S
  OBVIOUS
<1> HIDE DEF S
<1>2. <<a, b, c>> \in Seq(S) /\ <<x, y, z>> \in Seq(S) /\ <<a, b, c, x, y, z>> \in Seq(S)
  BY <1>1
<1>3. /\ Len(<<a, b, c, x, y, z>>) = Len(<<a, b, c>>) + Len(<<x, y, z>>)
      /\ \A i \in 1 .. Len(<<a, b, c, x, y, z>>) : <<a, b, c, x, y, z>>[i] =
             IF i <= Len(<<a, b, c>>) THEN <<a, b, c>>[i] ELSE <<x, y, z>>[i - Len(<<a, b, c>>)]
  OBVIOUS
<1>4. QED
  BY <1>2, <1>3, Joined, Zenon

\* Four and three put together are seven.
LEMMA FourThree == \A a, b, c, e, x, y, z : <<a, b, c, e>> \o <<x, y, z>> = <<a, b, c, e, x, y, z>>
<1> TAKE a, b, c, e, x, y, z
<1> DEFINE S == {a, b, c, e, x, y, z}
<1>1. a \in S /\ b \in S /\ c \in S /\ e \in S /\ x \in S /\ y \in S /\ z \in S
  OBVIOUS
<1> HIDE DEF S
<1>2. <<a, b, c, e>> \in Seq(S) /\ <<x, y, z>> \in Seq(S) /\ <<a, b, c, e, x, y, z>> \in Seq(S)
  BY <1>1
<1>3. /\ Len(<<a, b, c, e, x, y, z>>) = Len(<<a, b, c, e>>) + Len(<<x, y, z>>)
      /\ \A i \in 1 .. Len(<<a, b, c, e, x, y, z>>) : <<a, b, c, e, x, y, z>>[i] =
             IF i <= Len(<<a, b, c, e>>) THEN <<a, b, c, e>>[i]
             ELSE <<x, y, z>>[i - Len(<<a, b, c, e>>)]
  OBVIOUS
<1>4. QED
  BY <1>2, <1>3, Joined, Zenon

\* Three and one put together are four.
LEMMA ThreeOne == \A a, x, y, z : <<x, y, z>> \o <<a>> = <<x, y, z, a>>
<1> TAKE a, x, y, z
<1> DEFINE S == {a, x, y, z}
<1>1. a \in S /\ x \in S /\ y \in S /\ z \in S
  OBVIOUS
<1> HIDE DEF S
<1>2. <<x, y, z>> \in Seq(S) /\ <<a>> \in Seq(S) /\ <<x, y, z, a>> \in Seq(S)
  BY <1>1
<1>3. /\ Len(<<x, y, z, a>>) = Len(<<x, y, z>>) + Len(<<a>>)
      /\ \A i \in 1 .. Len(<<x, y, z, a>>) : <<x, y, z, a>>[i] =
             IF i <= Len(<<x, y, z>>) THEN <<x, y, z>>[i] ELSE <<a>>[i - Len(<<x, y, z>>)]
  OBVIOUS
<1>4. QED
  BY <1>2, <1>3, Joined, Zenon

\* Three and two put together are five.
LEMMA ThreeTwo == \A a, b, x, y, z : <<x, y, z>> \o <<a, b>> = <<x, y, z, a, b>>
<1> TAKE a, b, x, y, z
<1> DEFINE S == {a, b, x, y, z}
<1>1. a \in S /\ b \in S /\ x \in S /\ y \in S /\ z \in S
  OBVIOUS
<1> HIDE DEF S
<1>2. <<x, y, z>> \in Seq(S) /\ <<a, b>> \in Seq(S) /\ <<x, y, z, a, b>> \in Seq(S)
  BY <1>1
<1>3. /\ Len(<<x, y, z, a, b>>) = Len(<<x, y, z>>) + Len(<<a, b>>)
      /\ \A i \in 1 .. Len(<<x, y, z, a, b>>) : <<x, y, z, a, b>>[i] =
             IF i <= Len(<<x, y, z>>) THEN <<x, y, z>>[i] ELSE <<a, b>>[i - Len(<<x, y, z>>)]
  OBVIOUS
<1>4. QED
  BY <1>2, <1>3, Joined, Zenon

\* Three and four put together are seven.
LEMMA ThreeFour == \A a, b, c, e, x, y, z : <<x, y, z>> \o <<a, b, c, e>> = <<x, y, z, a, b, c, e>>
<1> TAKE a, b, c, e, x, y, z
<1> DEFINE S == {a, b, c, e, x, y, z}
<1>1. a \in S /\ b \in S /\ c \in S /\ e \in S /\ x \in S /\ y \in S /\ z \in S
  OBVIOUS
<1> HIDE DEF S
<1>2. <<x, y, z>> \in Seq(S) /\ <<a, b, c, e>> \in Seq(S) /\ <<x, y, z, a, b, c, e>> \in Seq(S)
  BY <1>1
<1>3. /\ Len(<<x, y, z, a, b, c, e>>) = Len(<<x, y, z>>) + Len(<<a, b, c, e>>)
      /\ \A i \in 1 .. Len(<<x, y, z, a, b, c, e>>) : <<x, y, z, a, b, c, e>>[i] =
             IF i <= Len(<<x, y, z>>) THEN <<x, y, z>>[i] ELSE <<a, b, c, e>>[i - Len(<<x, y, z>>)]
  OBVIOUS
<1>4. QED
  BY <1>2, <1>3, Joined, Zenon

\* Six and one put together are seven.
LEMMA SixOne == \A a, b, c, e, x, y, z : <<x, y, z, a, b, c>> \o <<e>> = <<x, y, z, a, b, c, e>>
<1> TAKE a, b, c, e, x, y, z
<1> DEFINE S == {a, b, c, e, x, y, z}
<1>1. a \in S /\ b \in S /\ c \in S /\ e \in S /\ x \in S /\ y \in S /\ z \in S
  OBVIOUS
<1> HIDE DEF S
<1>2. <<x, y, z, a, b, c>> \in Seq(S) /\ <<e>> \in Seq(S) /\ <<x, y, z, a, b, c, e>> \in Seq(S)
  BY <1>1
<1>3. /\ Len(<<x, y, z, a, b, c, e>>) = Len(<<x, y, z, a, b, c>>) + Len(<<e>>)
      /\ \A i \in 1 .. Len(<<x, y, z, a, b, c, e>>) : <<x, y, z, a, b, c, e>>[i] =
             IF i <= Len(<<x, y, z, a, b, c>>) THEN <<x, y, z, a, b, c>>[i]
             ELSE <<e>>[i - Len(<<x, y, z, a, b, c>>)]
  OBVIOUS
<1>4. QED
  BY <1>2, <1>3, Joined, Zenon

\* One and five put together are six.
LEMMA OneFive == \A a, b, e, x, y, z : <<e>> \o <<x, y, z, a, b>> = <<e, x, y, z, a, b>>
<1> TAKE a, b, e, x, y, z
<1> DEFINE S == {a, b, e, x, y, z}
<1>1. a \in S /\ b \in S /\ e \in S /\ x \in S /\ y \in S /\ z \in S
  OBVIOUS
<1> HIDE DEF S
<1>2. <<e>> \in Seq(S) /\ <<x, y, z, a, b>> \in Seq(S) /\ <<e, x, y, z, a, b>> \in Seq(S)
  BY <1>1
<1>3. /\ Len(<<e, x, y, z, a, b>>) = Len(<<e>>) + Len(<<x, y, z, a, b>>)
      /\ \A i \in 1 .. Len(<<e, x, y, z, a, b>>) : <<e, x, y, z, a, b>>[i] =
             IF i <= Len(<<e>>) THEN <<e>>[i] ELSE <<x, y, z, a, b>>[i - Len(<<e>>)]
  OBVIOUS
<1>4. QED
  BY <1>2, <1>3, Joined, Zenon

\* The character device comes after two steps of init.
LEMMA TwoThenDevice == \A a, b : <<a, b>> \o DriverLoad!CharDevice =
            <<a, b, <<"get", "chrdev">>, <<"class", "class">>, <<"get", "node">>>>
<1> TAKE a, b
<1>1. \A x, y, z : <<a, b>> \o <<x, y, z>> = <<a, b, x, y, z>>
  BY TwoThree, Zenon
<1>2. DriverLoad!CharDevice = <<<<"get", "chrdev">>, <<"class", "class">>, <<"get", "node">>>>
  BY DEF DriverLoad!CharDevice, DriverLoad!Get
<1>3. QED
  BY <1>1, <1>2, Zenon

\* The character device comes after three steps of init.
LEMMA ThreeThenDevice == \A a, b, c : <<a, b, c>> \o DriverLoad!CharDevice =
            <<a, b, c, <<"get", "chrdev">>, <<"class", "class">>, <<"get", "node">>>>
<1> TAKE a, b, c
<1>1. \A x, y, z : <<a, b, c>> \o <<x, y, z>> = <<a, b, c, x, y, z>>
  BY ThreeThree, Zenon
<1>2. DriverLoad!CharDevice = <<<<"get", "chrdev">>, <<"class", "class">>, <<"get", "node">>>>
  BY DEF DriverLoad!CharDevice, DriverLoad!Get
<1>3. QED
  BY <1>1, <1>2, Zenon

\* The character device comes after four steps of init.
LEMMA FourThenDevice == \A a, b, c, e : <<a, b, c, e>> \o DriverLoad!CharDevice =
            <<a, b, c, e, <<"get", "chrdev">>, <<"class", "class">>, <<"get", "node">>>>
<1> TAKE a, b, c, e
<1>1. \A x, y, z : <<a, b, c, e>> \o <<x, y, z>> = <<a, b, c, e, x, y, z>>
  BY FourThree, Zenon
<1>2. DriverLoad!CharDevice = <<<<"get", "chrdev">>, <<"class", "class">>, <<"get", "node">>>>
  BY DEF DriverLoad!CharDevice, DriverLoad!Get
<1>3. QED
  BY <1>1, <1>2, Zenon

\* And goes before one of exit.
LEMMA UnregisterThenOne == \A a : DriverLoad!Unregister \o <<a>> =
            <<<<"put", "node">>, <<"put", "class">>, <<"put", "chrdev">>, a>>
  BY ThreeOne DEF DriverLoad!Unregister, DriverLoad!PutBack

\* And goes before two of exit.
LEMMA UnregisterThenTwo == \A a, b : DriverLoad!Unregister \o <<a, b>> =
            <<<<"put", "node">>, <<"put", "class">>, <<"put", "chrdev">>, a, b>>
  BY ThreeTwo DEF DriverLoad!Unregister, DriverLoad!PutBack

\* And goes before three of exit.
LEMMA UnregisterThenThree == \A a, b, c : DriverLoad!Unregister \o <<a, b, c>> =
            <<<<"put", "node">>, <<"put", "class">>, <<"put", "chrdev">>, a, b, c>>
  BY ThreeThree DEF DriverLoad!Unregister, DriverLoad!PutBack

\* And goes before four of exit.
LEMMA UnregisterThenFour == \A a, b, c, e : DriverLoad!Unregister \o <<a, b, c, e>> =
            <<<<"put", "node">>, <<"put", "class">>, <<"put", "chrdev">>, a, b, c, e>>
  BY ThreeFour DEF DriverLoad!Unregister, DriverLoad!PutBack


\* The pins of the motors and the LEDs.
LEMMA PinsAre ==
    /\ DriverLoad!Requests(4) =
           <<<<"err", "gpio0">>, <<"err", "gpio1">>, <<"err", "gpio2">>, <<"err", "gpio3">>>>
    /\ DriverLoad!Frees(4) =
           <<<<"put", "gpio0">>, <<"put", "gpio1">>, <<"put", "gpio2">>, <<"put", "gpio3">>>>
    /\ DriverLoad!Pins(4) = {"gpio0", "gpio1", "gpio2", "gpio3"}
    /\ DriverLoad!Requests(2) = <<<<"err", "gpio0">>, <<"err", "gpio1">>>>
    /\ DriverLoad!Frees(2) = <<<<"put", "gpio0">>, <<"put", "gpio1">>>>
    /\ DriverLoad!Pins(2) = {"gpio0", "gpio1"}
    /\ [i \in 1 .. 2 |-> DriverLoad!Must(DriverLoad!Pin[i])] =
           <<<<"must", "gpio0">>, <<"must", "gpio1">>>>
<1>1. 1 .. 4 = {1, 2, 3, 4} /\ 1 .. 2 = {1, 2}
  OBVIOUS
<1>2. DriverLoad!Pins(4) = {"gpio0", "gpio1", "gpio2", "gpio3"}
  BY <1>1 DEF DriverLoad!Pins, DriverLoad!Pin
<1>3. DriverLoad!Pins(2) = {"gpio0", "gpio1"}
  BY <1>1 DEF DriverLoad!Pins, DriverLoad!Pin
<1>4. DriverLoad!Requests(2) = <<<<"err", "gpio0">>, <<"err", "gpio1">>>>
  BY <1>1 DEF DriverLoad!Requests, DriverLoad!Pin, DriverLoad!Keep
<1>5. DriverLoad!Frees(2) = <<<<"put", "gpio0">>, <<"put", "gpio1">>>>
  BY <1>1 DEF DriverLoad!Frees, DriverLoad!Pin, DriverLoad!PutBack
<1>6. DriverLoad!Requests(4) =
           <<<<"err", "gpio0">>, <<"err", "gpio1">>, <<"err", "gpio2">>, <<"err", "gpio3">>>>
  BY <1>1 DEF DriverLoad!Requests, DriverLoad!Pin, DriverLoad!Keep
<1>7. DriverLoad!Frees(4) =
           <<<<"put", "gpio0">>, <<"put", "gpio1">>, <<"put", "gpio2">>, <<"put", "gpio3">>>>
  BY <1>1 DEF DriverLoad!Frees, DriverLoad!Pin, DriverLoad!PutBack
<1>8. [i \in 1 .. 2 |-> DriverLoad!Must(DriverLoad!Pin[i])] =
           <<<<"must", "gpio0">>, <<"must", "gpio1">>>>
  BY <1>1 DEF DriverLoad!Pin, DriverLoad!Must
<1>9. QED
  BY <1>2, <1>3, <1>4, <1>5, <1>6, <1>7, <1>8

\* What the lists of exposures let a handler lack.
LEMMA LacksAre ==
    /\ \A m, phase, h : \A r \in Things \cup {"code"} :
           <<m, phase, h, r>> \in DriverLoad!OutOfOrder => r \in Lacks(m, phase, h)
    /\ \A m \in DOMAIN DriverLoad!Stranded : \A h \in DriverLoad!Stranded[m] :
           "code" \in Lacks(m, "failed", h)
    /\ \A m \in DOMAIN DriverLoad!Unrequested : \A r \in DriverLoad!Unrequested[m] :
           r \in Things =>
               \A phase \in {"init", "up", "failed"} : r \in Lacks(m, phase, "file")
<1> DEFINE files(e) == {e} \X {"init", "up", "failed"} \X {"file"} \X DriverLoad!Unrequested[e]
           codes(e) == {e} \X {"failed"} \X DriverLoad!Stranded[e] \X {"code"}
<1> HIDE DEF files, codes
<1>1. \A x : /\ x \in DriverLoad!OutOfOrder => x \in DriverLoad!Exposed
             /\ \A e \in DOMAIN DriverLoad!Unrequested : x \in files(e) => x \in DriverLoad!Exposed
             /\ \A e \in DOMAIN DriverLoad!Stranded : x \in codes(e) => x \in DriverLoad!Exposed
  <2> DEFINE allFiles == {files(e) : e \in DOMAIN DriverLoad!Unrequested}
             allCodes == {codes(e) : e \in DOMAIN DriverLoad!Stranded}
  <2>1. /\ \A e \in DOMAIN DriverLoad!Unrequested : files(e) \in allFiles
        /\ \A e \in DOMAIN DriverLoad!Stranded : codes(e) \in allCodes
    OBVIOUS
  <2>2. DriverLoad!Driven = UNION allFiles /\ DriverLoad!Freed = UNION allCodes
    BY DEF DriverLoad!Driven, DriverLoad!Freed, files, codes
  <2> HIDE DEF allFiles, allCodes
  <2>3. \A x : \A e \in DOMAIN DriverLoad!Unrequested : x \in files(e) => x \in UNION allFiles
    BY <2>1, Zenon
  <2>4. \A x : \A e \in DOMAIN DriverLoad!Stranded : x \in codes(e) => x \in UNION allCodes
    BY <2>1, Zenon
  <2>5. QED
    BY <2>2, <2>3, <2>4 DEF DriverLoad!Exposed
<1> USE DEF files, codes
<1>2. \A m \in DOMAIN DriverLoad!Stranded : \A h \in DriverLoad!Stranded[m] :
          <<m, "failed", h, "code">> \in codes(m)
  OBVIOUS
<1>3. \A m \in DOMAIN DriverLoad!Unrequested : \A r \in DriverLoad!Unrequested[m] :
          \A phase \in {"init", "up", "failed"} : <<m, phase, "file", r>> \in files(m)
  OBVIOUS
<1> HIDE DEF files, codes
<1>4. \A m, phase, h : \A r \in Things \cup {"code"} :
          <<m, phase, h, r>> \in DriverLoad!Exposed => r \in Lacks(m, phase, h)
  BY DEF Lacks
<1>5. "code" \in Things \cup {"code"} /\ Things \subseteq Things \cup {"code"}
  OBVIOUS
<1>6. QED
  BY <1>1, <1>2, <1>3, <1>4, <1>5, Zenon

\* A driver without such a call.
LEMMA NoCall ==
    ASSUME NEW d, d.call = <<>>
    PROVE  /\ d.call \in Seq(Steps) /\ Len(d.call) = 0 /\ CallType(d)
           /\ \A m, phase, all : CallInOrder(m, d, phase, all)
<1>1. d.call \in Seq(Steps) /\ Len(d.call) = 0
  OBVIOUS
<1>2. CallType(d)
  <2>1. Taken(d.call, Len(d.call) + 1) = {}
    BY <1>1 DEF Taken
  <2>2. QED
    BY <1>1, <2>1 DEF CallType
<1>3. \A m, phase, all : CallInOrder(m, d, phase, all)
  BY <1>1 DEF CallInOrder
<1>4. QED
  BY <1>1, <1>2, <1>3

\* The receiver with its input device, and without.
LEMMA ReceiverIs ==
    /\ DriverLoad!InputHs0038.init =
           <<<<"get", "chrdev">>, <<"class", "class">>, <<"set", "wq">>, <<"get", "pin">>,
             <<"get", "irq0">>, <<"get", "node">>, <<"get", "input">>>>
    /\ DriverLoad!InputHs0038.exit =
           <<<<"put", "input">>, <<"put", "node">>, <<"put", "irq0">>, <<"put", "pin">>,
             <<"put", "class">>, <<"put", "chrdev">>>>
    /\ DriverLoad!InputHs0038.uses = [irq0 |-> {"wq", "input"}, file |-> {"wq"}]
    /\ DriverLoad!CharHs0038.init =
           <<<<"get", "chrdev">>, <<"class", "class">>, <<"set", "wq">>, <<"get", "pin">>,
             <<"get", "irq0">>, <<"get", "node">>>>
    /\ DriverLoad!CharHs0038.exit =
           <<<<"put", "node">>, <<"put", "irq0">>, <<"put", "pin">>, <<"put", "class">>,
             <<"put", "chrdev">>>>
    /\ DriverLoad!CharHs0038.uses = [file |-> {}]
<1> DEFINE first == <<<<"get", "chrdev">>, <<"class", "class">>, <<"set", "wq">>>>
           then == <<<<"get", "pin">>, <<"get", "irq0">>, <<"get", "node">>>>
           six == <<<<"get", "chrdev">>, <<"class", "class">>, <<"set", "wq">>, <<"get", "pin">>,
                    <<"get", "irq0">>, <<"get", "node">>>>
           five == <<<<"put", "node">>, <<"put", "irq0">>, <<"put", "pin">>, <<"put", "class">>,
                     <<"put", "chrdev">>>>
           none == <<>>
           one == <<<<"get", "input">>>>
           wakes == [irq0 |-> {"wq", "input"}, file |-> {"wq"}]
           keeps == [file |-> {}]
<1>1. \A in, uses : /\ DriverLoad!Hs0038(in, uses).init = first \o then \o in
                    /\ DriverLoad!Hs0038(in, uses).exit =
                           [i \in 1 .. Len(in) |-> DriverLoad!PutBack(in[i][2])] \o five
                    /\ DriverLoad!Hs0038(in, uses).uses = uses
  BY DEF DriverLoad!Hs0038, DriverLoad!Driver, DriverLoad!Get, DriverLoad!Set, DriverLoad!PutBack
<1>2. /\ DriverLoad!InputHs0038 = DriverLoad!Hs0038(one, wakes)
      /\ DriverLoad!CharHs0038 = DriverLoad!Hs0038(none, keeps)
  BY DEF DriverLoad!InputHs0038, DriverLoad!CharHs0038, DriverLoad!Get
<1>3. /\ Len(one) = 1
      /\ [i \in 1 .. Len(one) |-> DriverLoad!PutBack(one[i][2])] = <<<<"put", "input">>>>
  BY DEF DriverLoad!PutBack
<1>4. /\ Len(none) = 0
      /\ [i \in 1 .. Len(none) |-> DriverLoad!PutBack(none[i][2])] = <<>>
  BY DEF DriverLoad!PutBack
<1>5. first \o then = six
  <2>1. first \in Seq(Steps) /\ then \in Seq(Steps) /\ six \in Seq(Steps)
    BY DEF Steps, Kinds, Things
  <2>2. /\ Len(six) = Len(first) + Len(then)
        /\ \A i \in 1 .. Len(six) : six[i] = IF i <= Len(first) THEN first[i]
                                      ELSE then[i - Len(first)]
    OBVIOUS
  <2> HIDE DEF first, then, six
  <2>3. QED
    BY <2>1, <2>2, Joined, Zenon
<1>6. six \o one = <<<<"get", "chrdev">>, <<"class", "class">>, <<"set", "wq">>, <<"get", "pin">>,
                     <<"get", "irq0">>, <<"get", "node">>, <<"get", "input">>>>
  BY SixOne, Zenon
<1>7. <<<<"put", "input">>>> \o five =
          <<<<"put", "input">>, <<"put", "node">>, <<"put", "irq0">>, <<"put", "pin">>,
            <<"put", "class">>, <<"put", "chrdev">>>>
  BY OneFive, Zenon
<1>8. six \in Seq(Steps) /\ five \in Seq(Steps)
  BY DEF Steps, Kinds, Things
<1> HIDE DEF first, then, six, five, none, one, wakes, keeps
<1>9. six \o <<>> = six /\ <<>> \o five = five
  BY <1>8, ConcatEmptySeq, Zenon
<1>10. /\ DriverLoad!InputHs0038.init = six \o one
       /\ DriverLoad!InputHs0038.exit = <<<<"put", "input">>>> \o five
       /\ DriverLoad!InputHs0038.uses = wakes
  <2>1. DriverLoad!InputHs0038.init = six \o one
    BY <1>1, <1>2, <1>5, Zenon
  <2>2. DriverLoad!InputHs0038.exit = <<<<"put", "input">>>> \o five
    BY <1>1, <1>2, <1>3, Zenon
  <2>3. DriverLoad!InputHs0038.uses = wakes
    BY <1>1, <1>2, Zenon
  <2>4. QED
    BY <2>1, <2>2, <2>3
<1>11. /\ DriverLoad!CharHs0038.init = six /\ DriverLoad!CharHs0038.exit = five
       /\ DriverLoad!CharHs0038.uses = keeps
  <2>1. DriverLoad!CharHs0038.init = six
    BY <1>1, <1>2, <1>5, <1>9, Zenon DEF none
  <2>2. DriverLoad!CharHs0038.exit = five
    <3>1. DriverLoad!Hs0038(none, keeps).exit =
              [i \in 1 .. Len(none) |-> DriverLoad!PutBack(none[i][2])] \o five
      BY <1>1, Zenon
    <3>2. QED
      BY <3>1, <1>2, <1>4, <1>9
  <2>3. DriverLoad!CharHs0038.uses = keeps
    BY <1>1, <1>2, Zenon
  <2>4. QED
    BY <2>1, <2>2, <2>3
<1>12. QED
  BY <1>6, <1>7, <1>10, <1>11, Zenon DEF six, five, wakes, keeps

\* The interrupts of the template go before the timers they arm; its writes drive pins
\* that nobody has requested.
LEMMA TemplateInOrder ==
    InOrder("template", DriverLoad!Template)
<1> DEFINE d == DriverLoad!Template
<1>1. /\ d.uses = [irq0 |-> {"timer0"}, irq1 |-> {"timer1"}, file |-> {"gpio0", "gpio1"}]
      /\ d.arms = {<<"irq0", "timer0">>, <<"irq1", "timer1">>} /\ d.door = {"chrdev", "node"}
      /\ d.call = <<>>
  BY DEF DriverLoad!Template, DriverLoad!Driver, DriverLoad!Door
<1>2. d.init =
          <<<<"arm", "timer0">>, <<"err", "irq0">>, <<"arm", "timer1">>, <<"err", "irq1">>>> \o DriverLoad!CharDevice
  BY DEF DriverLoad!Template, DriverLoad!Driver,
         DriverLoad!Arm, DriverLoad!Keep
<1>3. d.exit =
          DriverLoad!Unregister \o <<<<"put", "irq0">>, <<"put", "timer0">>,
                                    <<"put", "irq1">>, <<"put", "timer1">>>>
  BY DEF DriverLoad!Template, DriverLoad!Driver,
         DriverLoad!PutBack
<1> HIDE DEF d
<1>4. d.init = <<<<"arm", "timer0">>, <<"err", "irq0">>, <<"arm", "timer1">>,
                 <<"err", "irq1">>, <<"get", "chrdev">>, <<"class", "class">>,
                 <<"get", "node">>>>
  BY <1>2, FourThenDevice, Zenon
<1>5. d.exit = <<<<"put", "node">>, <<"put", "class">>, <<"put", "chrdev">>,
                 <<"put", "irq0">>, <<"put", "timer0">>, <<"put", "irq1">>,
                 <<"put", "timer1">>>>
  BY <1>3, UnregisterThenFour, Zenon
<1>6. Len(d.init) = 7 /\ Len(d.exit) = 7
  BY <1>4, <1>5
<1>7. Taken(d.init, 8) = {"timer0", "irq0", "timer1", "irq1", "chrdev", "class", "node"}
  BY <1>4 DEF Taken, Things, Acquire, Kinds
<1>8. Taken(d.init, 6) = {"timer0", "irq0", "timer1", "irq1", "chrdev"}
  BY <1>4 DEF Taken, Things, Acquire, Kinds
<1>9. \A h \in {"irq0", "irq1", "timer0", "timer1", "file"} : "code" \in Lacks("template", "failed", h)
  BY LacksAre DEF DriverLoad!Stranded
<1>10. \A phase \in {"init", "up", "failed"} : {"gpio0", "gpio1"} \subseteq Lacks("template", phase, "file")
  BY LacksAre DEF DriverLoad!Unrequested, Things
<1>11. /\ d.call \in Seq(Steps) /\ Len(d.call) = 0 /\ CallType(d)
      /\ \A phase, all : CallInOrder("template", d, phase, all)
  BY <1>1, NoCall
<1>12. d.init \in Seq(Steps) /\ d.exit \in Seq(Steps)
  BY <1>4, <1>5 DEF Steps, Kinds, Things
<1>13. \A n \in 1 .. Len(d.init) : d.init[n][1] # "put"
  BY <1>4
<1>14. \A k \in 1 .. Len(d.init) :
          /\ d.init[k][1] \notin {"use", "start"}
          /\ d.init[k][1] = "arm" => d.init[k][2] \in {"timer0", "timer1"}
  BY <1>4
<1>15. \A h \in DOMAIN d.uses : "chrdev" \notin d.uses[h]
  BY <1>1
<1>16. DriverType(d)
  BY <1>11, <1>12, <1>13, <1>14, <1>15, Zenon DEF DriverType
<1>17. InitInOrder("template", d)
  BY <1>1, <1>4, <1>6, <1>11, <1>9, <1>10
  DEF InitInOrder, StageInOrder, Touches, Code, Sources, Taken, Things, Acquire, Kinds
<1>18. UpInOrder("template", d)
  BY <1>1, <1>6, <1>7, <1>11, <1>9, <1>10 DEF UpInOrder, StageInOrder, Touches, Code, Sources
<1>19. FailedInOrder("template", d)
  <2>1. \A n \in 1 .. 8 : FailsAt(d, n) => n \in {6, 8}
    BY <1>4, <1>6 DEF FailsAt, KeepsError
  <2>2. StageInOrder("template", d, "failed", Taken(d.init, 6))
    BY <1>1, <1>8, <1>9, <1>10 DEF StageInOrder, Touches, Code, Sources
  <2>3. StageInOrder("template", d, "failed", Taken(d.init, 8))
    BY <1>1, <1>7, <1>11, <1>9, <1>10 DEF StageInOrder, Touches, Code, Sources
  <2>4. QED
    BY <1>6, <2>1, <2>2, <2>3 DEF FailedInOrder
<1>20. ExitInOrder("template", d)
  BY <1>1, <1>4, <1>5, <1>6, <1>7, <1>9, <1>10
  DEF ExitInOrder, Left, Returned, Touches, Sources
<1>21. GoneInOrder("template", d)
  BY <1>1, <1>4, <1>5, <1>6, <1>7, <1>9, <1>10
  DEF GoneInOrder, Left, Returned, Touches, Sources
<1>22. TimersInOrder("template", d)
  BY <1>1, <1>4, <1>5, <1>9, <1>10, <1>6, <1>11 DEF TimersInOrder, Timers, Returned
<1>23. QED
  BY <1>16, <1>17, <1>18, <1>19, <1>20, <1>21, <1>22, Zenon DEF InOrder, d

\* The motion sensor has two interrupts.
LEMMA Sr501InOrder ==
    \A m \in {"sr501", "sr501_t"} : InOrder(m, DriverLoad!Sr501)
<1> DEFINE d == DriverLoad!Sr501
<1> TAKE m \in {"sr501", "sr501_t"}
<1>1. /\ d.uses = [file |-> {}]
      /\ d.arms = {} /\ d.door = {"chrdev", "node"}
      /\ d.call = <<>>
  BY DEF DriverLoad!Sr501, DriverLoad!Driver, DriverLoad!Door
<1>2. d.init =
          <<<<"err", "irq0">>, <<"err", "irq1">>>> \o DriverLoad!CharDevice
  BY DEF DriverLoad!Sr501, DriverLoad!Driver,
         DriverLoad!Keep
<1>3. d.exit =
          DriverLoad!Unregister \o <<<<"put", "irq0">>, <<"put", "irq1">>>>
  BY DEF DriverLoad!Sr501, DriverLoad!Driver,
         DriverLoad!PutBack
<1> HIDE DEF d
<1>4. d.init = <<<<"err", "irq0">>, <<"err", "irq1">>, <<"get", "chrdev">>,
                 <<"class", "class">>, <<"get", "node">>>>
  BY <1>2, TwoThenDevice, Zenon
<1>5. d.exit = <<<<"put", "node">>, <<"put", "class">>, <<"put", "chrdev">>,
                 <<"put", "irq0">>, <<"put", "irq1">>>>
  BY <1>3, UnregisterThenTwo, Zenon
<1>6. Len(d.init) = 5 /\ Len(d.exit) = 5
  BY <1>4, <1>5
<1>7. Taken(d.init, 6) = {"irq0", "irq1", "chrdev", "class", "node"}
  BY <1>4 DEF Taken, Things, Acquire, Kinds
<1>8. Taken(d.init, 4) = {"irq0", "irq1", "chrdev"}
  BY <1>4 DEF Taken, Things, Acquire, Kinds
<1>9. \A h \in {"irq0", "irq1", "file"} : "code" \in Lacks(m, "failed", h)
  BY LacksAre DEF DriverLoad!Stranded
<1>10. /\ d.call \in Seq(Steps) /\ Len(d.call) = 0 /\ CallType(d)
      /\ \A phase, all : CallInOrder(m, d, phase, all)
  BY <1>1, NoCall
<1>11. d.init \in Seq(Steps) /\ d.exit \in Seq(Steps)
  BY <1>4, <1>5 DEF Steps, Kinds, Things
<1>12. \A n \in 1 .. Len(d.init) : d.init[n][1] # "put"
  BY <1>4
<1>13. \A k \in 1 .. Len(d.init) :
          /\ d.init[k][1] \notin {"use", "start"}
          /\ d.init[k][1] = "arm" => d.init[k][2] \in {"timer0", "timer1"}
  BY <1>4
<1>14. \A h \in DOMAIN d.uses : "chrdev" \notin d.uses[h]
  BY <1>1
<1>15. DriverType(d)
  BY <1>10, <1>11, <1>12, <1>13, <1>14, Zenon DEF DriverType
<1>16. InitInOrder(m, d)
  BY <1>1, <1>4, <1>6, <1>10, <1>9
  DEF InitInOrder, StageInOrder, Touches, Code, Sources, Taken, Things, Acquire, Kinds
<1>17. UpInOrder(m, d)
  BY <1>1, <1>6, <1>7, <1>10, <1>9 DEF UpInOrder, StageInOrder, Touches, Code, Sources
<1>18. FailedInOrder(m, d)
  <2>1. \A n \in 1 .. 6 : FailsAt(d, n) => n \in {4, 6}
    BY <1>4, <1>6 DEF FailsAt, KeepsError
  <2>2. StageInOrder(m, d, "failed", Taken(d.init, 4))
    BY <1>1, <1>8, <1>9 DEF StageInOrder, Touches, Code, Sources
  <2>3. StageInOrder(m, d, "failed", Taken(d.init, 6))
    BY <1>1, <1>7, <1>10, <1>9 DEF StageInOrder, Touches, Code, Sources
  <2>4. QED
    BY <1>6, <2>1, <2>2, <2>3 DEF FailedInOrder
<1>19. ExitInOrder(m, d)
  BY <1>1, <1>4, <1>5, <1>6, <1>7, <1>9
  DEF ExitInOrder, Left, Returned, Touches, Sources
<1>20. GoneInOrder(m, d)
  BY <1>1, <1>4, <1>5, <1>6, <1>7, <1>9
  DEF GoneInOrder, Left, Returned, Touches, Sources
<1>21. TimersInOrder(m, d)
  BY <1>1, <1>4, <1>5, <1>9, <1>6, <1>10 DEF TimersInOrder, Timers, Returned
<1>22. QED
  BY <1>15, <1>16, <1>17, <1>18, <1>19, <1>20, <1>21, Zenon DEF InOrder, d

\* The interrupt of the range sensor is requested before its timer is set up.
LEMMA Sr04InOrder ==
    \A m \in {"sr04", "sr04_i"} : InOrder(m, DriverLoad!Sr04)
<1> DEFINE d == DriverLoad!Sr04
<1> TAKE m \in {"sr04", "sr04_i"}
<1>1. /\ d.uses = [irq1 |-> {"timer1"}, file |-> {"gpio0"}]
      /\ d.arms = {} /\ d.door = {"chrdev", "node"}
  BY DEF DriverLoad!Sr04, DriverLoad!Driver, DriverLoad!Door
<1>2. d.call = <<<<"start", "timer1">>>>
  BY DEF DriverLoad!Sr04, DriverLoad!Driver, DriverLoad!Start
<1>3. d.init =
          <<<<"err", "gpio0">>, <<"err", "irq1">>, <<"set", "timer1">>>> \o DriverLoad!CharDevice
  BY DEF DriverLoad!Sr04, DriverLoad!Driver,
         DriverLoad!Keep, DriverLoad!Set
<1>4. d.exit =
          DriverLoad!Unregister \o <<<<"put", "gpio0">>, <<"put", "irq1">>,
                                    <<"put", "timer1">>>>
  BY DEF DriverLoad!Sr04, DriverLoad!Driver,
         DriverLoad!PutBack
<1> HIDE DEF d
<1>5. d.init = <<<<"err", "gpio0">>, <<"err", "irq1">>, <<"set", "timer1">>,
                 <<"get", "chrdev">>, <<"class", "class">>, <<"get", "node">>>>
  BY <1>3, ThreeThenDevice, Zenon
<1>6. d.exit = <<<<"put", "node">>, <<"put", "class">>, <<"put", "chrdev">>,
                 <<"put", "gpio0">>, <<"put", "irq1">>, <<"put", "timer1">>>>
  BY <1>4, UnregisterThenThree, Zenon
<1>7. Len(d.init) = 6 /\ Len(d.exit) = 6
  BY <1>5, <1>6
<1>8. Taken(d.init, 7) = {"gpio0", "irq1", "timer1", "chrdev", "class", "node"}
  BY <1>5 DEF Taken, Things, Acquire, Kinds
<1>9. Taken(d.init, 5) = {"gpio0", "irq1", "timer1", "chrdev"}
  BY <1>5 DEF Taken, Things, Acquire, Kinds
<1>10. "timer1" \in Lacks(m, "init", "irq1")
  BY LacksAre DEF Things, DriverLoad!OutOfOrder
<1>11. \A h \in {"irq1", "timer1", "file"} : "code" \in Lacks(m, "failed", h)
  BY LacksAre DEF DriverLoad!Stranded
<1>12. d.call \in Seq(Steps) /\ Len(d.call) = 1
  BY <1>2 DEF Steps, Kinds, Things
<1>13. /\ Taken(d.call, 1) = {}
      /\ Taken(d.call, 2) = {}
  BY <1>2 DEF Taken, Things, Acquire, Kinds
<1>14. \A n \in 1 .. 7 : d.door \subseteq Taken(d.init, n) => n = 7
  BY <1>1, <1>5 DEF Taken
<1>15. \A phase \in {"init", "up", "failed"} : CallInOrder(m, d, phase, Taken(d.init, 7))
  BY <1>1, <1>2, <1>12, <1>13, <1>8, <1>10, <1>11 DEF CallInOrder, Touches, Code, Sources
<1>16. d.init \in Seq(Steps) /\ d.exit \in Seq(Steps)
  BY <1>5, <1>6 DEF Steps, Kinds, Things
<1>17. \A n \in 1 .. Len(d.init) : d.init[n][1] # "put"
  BY <1>5
<1>18. \A k \in 1 .. Len(d.init) :
          /\ d.init[k][1] \notin {"use", "start"}
          /\ d.init[k][1] = "arm" => d.init[k][2] \in {"timer0", "timer1"}
  BY <1>5
<1>19. \A h \in DOMAIN d.uses : "chrdev" \notin d.uses[h]
  BY <1>1
<1>20. CallType(d)
  <2>1. \A k \in 1 .. Len(d.call) :
            /\ d.call[k][1] \in {"get", "put", "use", "start"} /\ d.call[k][2] # "chrdev"
            /\ d.call[k][1] = "start" => d.call[k][2] \in {"timer0", "timer1"}
    BY <1>2
  <2>2. Taken(d.call, Len(d.call) + 1) = {}
    BY <1>12, <1>13
  <2>3. QED
    BY <2>1, <2>2 DEF CallType
<1>21. DriverType(d)
  BY <1>20, <1>12, <1>16, <1>17, <1>18, <1>19, Zenon DEF DriverType
<1>22. InitInOrder(m, d)
  <2>1. StageInOrder(m, d, "init", Taken(d.init, 7))
    BY <1>1, <1>8, <1>15, <1>10, <1>11 DEF StageInOrder, Touches, Code, Sources
  <2>2. ASSUME NEW n \in 1 .. 6
        PROVE  StageInOrder(m, d, "init", Taken(d.init, n))
    <3>1. \A h \in Taken(d.init, n) \cap Sources :
              Touches(d, h) \ Taken(d.init, n) \subseteq Lacks(m, "init", h)
      BY <1>1, <1>5, <1>10, <1>11 DEF Taken, Things, Acquire, Kinds, Touches, Sources
    <3>2. ~(d.door \subseteq Taken(d.init, n))
      BY <1>14
    <3>3. QED
      BY <3>1, <3>2 DEF StageInOrder, Code
  <2>3. QED
    BY <2>1, <2>2, <1>7 DEF InitInOrder
<1>23. UpInOrder(m, d)
  BY <1>1, <1>7, <1>8, <1>15, <1>10, <1>11 DEF UpInOrder, StageInOrder, Touches, Code, Sources
<1>24. FailedInOrder(m, d)
  <2>1. \A n \in 1 .. 7 : FailsAt(d, n) => n \in {5, 7}
    BY <1>5, <1>7 DEF FailsAt, KeepsError
  <2>2. StageInOrder(m, d, "failed", Taken(d.init, 5))
    BY <1>1, <1>9, <1>10, <1>11 DEF StageInOrder, Touches, Code, Sources
  <2>3. StageInOrder(m, d, "failed", Taken(d.init, 7))
    BY <1>1, <1>8, <1>15, <1>10, <1>11 DEF StageInOrder, Touches, Code, Sources
  <2>4. QED
    BY <1>7, <2>1, <2>2, <2>3 DEF FailedInOrder
<1>25. ExitInOrder(m, d)
  BY <1>1, <1>5, <1>6, <1>7, <1>8, <1>10, <1>11
  DEF ExitInOrder, Left, Returned, Touches, Sources
<1>26. GoneInOrder(m, d)
  BY <1>1, <1>5, <1>6, <1>7, <1>8, <1>10, <1>11
  DEF GoneInOrder, Left, Returned, Touches, Sources
<1>27. TimersInOrder(m, d)
  BY <1>1, <1>5, <1>6, <1>10, <1>11, <1>7, <1>12, <1>2 DEF TimersInOrder, Timers, Returned
<1>28. QED
  BY <1>21, <1>22, <1>23, <1>24, <1>25, <1>26, <1>27, Zenon DEF InOrder, d

\* Without a timer.
LEMMA UntimedSr04InOrder ==
    InOrder("sr04_u", DriverLoad!UntimedSr04)
<1> DEFINE d == DriverLoad!UntimedSr04
<1>1. /\ d.uses = [file |-> {"gpio0"}]
      /\ d.arms = {} /\ d.door = {"chrdev", "node"}
      /\ d.call = <<>>
  BY DEF DriverLoad!UntimedSr04, DriverLoad!Driver, DriverLoad!Door
<1>2. d.init =
          <<<<"err", "gpio0">>, <<"err", "irq1">>>> \o DriverLoad!CharDevice
  BY DEF DriverLoad!UntimedSr04, DriverLoad!Driver,
         DriverLoad!Keep
<1>3. d.exit =
          DriverLoad!Unregister \o <<<<"put", "gpio0">>, <<"put", "irq1">>>>
  BY DEF DriverLoad!UntimedSr04, DriverLoad!Driver,
         DriverLoad!PutBack
<1> HIDE DEF d
<1>4. d.init = <<<<"err", "gpio0">>, <<"err", "irq1">>, <<"get", "chrdev">>,
                 <<"class", "class">>, <<"get", "node">>>>
  BY <1>2, TwoThenDevice, Zenon
<1>5. d.exit = <<<<"put", "node">>, <<"put", "class">>, <<"put", "chrdev">>,
                 <<"put", "gpio0">>, <<"put", "irq1">>>>
  BY <1>3, UnregisterThenTwo, Zenon
<1>6. Len(d.init) = 5 /\ Len(d.exit) = 5
  BY <1>4, <1>5
<1>7. Taken(d.init, 6) = {"gpio0", "irq1", "chrdev", "class", "node"}
  BY <1>4 DEF Taken, Things, Acquire, Kinds
<1>8. Taken(d.init, 4) = {"gpio0", "irq1", "chrdev"}
  BY <1>4 DEF Taken, Things, Acquire, Kinds
<1>9. \A h \in {"irq1", "file"} : "code" \in Lacks("sr04_u", "failed", h)
  BY LacksAre DEF DriverLoad!Stranded
<1>10. /\ d.call \in Seq(Steps) /\ Len(d.call) = 0 /\ CallType(d)
      /\ \A phase, all : CallInOrder("sr04_u", d, phase, all)
  BY <1>1, NoCall
<1>11. d.init \in Seq(Steps) /\ d.exit \in Seq(Steps)
  BY <1>4, <1>5 DEF Steps, Kinds, Things
<1>12. \A n \in 1 .. Len(d.init) : d.init[n][1] # "put"
  BY <1>4
<1>13. \A k \in 1 .. Len(d.init) :
          /\ d.init[k][1] \notin {"use", "start"}
          /\ d.init[k][1] = "arm" => d.init[k][2] \in {"timer0", "timer1"}
  BY <1>4
<1>14. \A h \in DOMAIN d.uses : "chrdev" \notin d.uses[h]
  BY <1>1
<1>15. DriverType(d)
  BY <1>10, <1>11, <1>12, <1>13, <1>14, Zenon DEF DriverType
<1>16. InitInOrder("sr04_u", d)
  BY <1>1, <1>4, <1>6, <1>10, <1>9
  DEF InitInOrder, StageInOrder, Touches, Code, Sources, Taken, Things, Acquire, Kinds
<1>17. UpInOrder("sr04_u", d)
  BY <1>1, <1>6, <1>7, <1>10, <1>9 DEF UpInOrder, StageInOrder, Touches, Code, Sources
<1>18. FailedInOrder("sr04_u", d)
  <2>1. \A n \in 1 .. 6 : FailsAt(d, n) => n \in {4, 6}
    BY <1>4, <1>6 DEF FailsAt, KeepsError
  <2>2. StageInOrder("sr04_u", d, "failed", Taken(d.init, 4))
    BY <1>1, <1>8, <1>9 DEF StageInOrder, Touches, Code, Sources
  <2>3. StageInOrder("sr04_u", d, "failed", Taken(d.init, 6))
    BY <1>1, <1>7, <1>10, <1>9 DEF StageInOrder, Touches, Code, Sources
  <2>4. QED
    BY <1>6, <2>1, <2>2, <2>3 DEF FailedInOrder
<1>19. ExitInOrder("sr04_u", d)
  BY <1>1, <1>4, <1>5, <1>6, <1>7, <1>9
  DEF ExitInOrder, Left, Returned, Touches, Sources
<1>20. GoneInOrder("sr04_u", d)
  BY <1>1, <1>4, <1>5, <1>6, <1>7, <1>9
  DEF GoneInOrder, Left, Returned, Touches, Sources
<1>21. TimersInOrder("sr04_u", d)
  BY <1>1, <1>4, <1>5, <1>9, <1>6, <1>10 DEF TimersInOrder, Timers, Returned
<1>22. QED
  BY <1>15, <1>16, <1>17, <1>18, <1>19, <1>20, <1>21, Zenon DEF InOrder, d

\* The test driver frees an interrupt that it does not have, and drives such a pin.
LEMMA BenchSr04InOrder ==
    InOrder("sr04_b", DriverLoad!BenchSr04)
<1> DEFINE d == DriverLoad!BenchSr04
<1>1. /\ d.uses = [file |-> {"gpio1"}]
      /\ d.arms = {} /\ d.door = {"chrdev", "node"}
      /\ d.call = <<>>
  BY DEF DriverLoad!BenchSr04, DriverLoad!Driver, DriverLoad!Door
<1>2. d.init =
          <<<<"err", "gpio0">>, <<"err", "irq0">>, <<"set", "timer1">>>> \o DriverLoad!CharDevice
  BY DEF DriverLoad!BenchSr04, DriverLoad!Driver,
         DriverLoad!Keep, DriverLoad!Set
<1>3. d.exit =
          DriverLoad!Unregister \o <<<<"put", "gpio0">>, <<"put", "irq1">>,
                                    <<"put", "timer1">>>>
  BY DEF DriverLoad!BenchSr04, DriverLoad!Driver,
         DriverLoad!PutBack
<1> HIDE DEF d
<1>4. d.init = <<<<"err", "gpio0">>, <<"err", "irq0">>, <<"set", "timer1">>,
                 <<"get", "chrdev">>, <<"class", "class">>, <<"get", "node">>>>
  BY <1>2, ThreeThenDevice, Zenon
<1>5. d.exit = <<<<"put", "node">>, <<"put", "class">>, <<"put", "chrdev">>,
                 <<"put", "gpio0">>, <<"put", "irq1">>, <<"put", "timer1">>>>
  BY <1>3, UnregisterThenThree, Zenon
<1>6. Len(d.init) = 6 /\ Len(d.exit) = 6
  BY <1>4, <1>5
<1>7. Taken(d.init, 7) = {"gpio0", "irq0", "timer1", "chrdev", "class", "node"}
  BY <1>4 DEF Taken, Things, Acquire, Kinds
<1>8. Taken(d.init, 5) = {"gpio0", "irq0", "timer1", "chrdev"}
  BY <1>4 DEF Taken, Things, Acquire, Kinds
<1>9. "code" \in Lacks("sr04_b", "gone", "irq0")
  BY LacksAre DEF Things, DriverLoad!OutOfOrder
<1>10. \A h \in {"irq0", "file"} : "code" \in Lacks("sr04_b", "failed", h)
  BY LacksAre DEF DriverLoad!Stranded
<1>11. \A phase \in {"init", "up", "failed"} : {"gpio1"} \subseteq Lacks("sr04_b", phase, "file")
  BY LacksAre DEF DriverLoad!Unrequested, Things
<1>12. /\ d.call \in Seq(Steps) /\ Len(d.call) = 0 /\ CallType(d)
      /\ \A phase, all : CallInOrder("sr04_b", d, phase, all)
  BY <1>1, NoCall
<1>13. d.init \in Seq(Steps) /\ d.exit \in Seq(Steps)
  BY <1>4, <1>5 DEF Steps, Kinds, Things
<1>14. \A n \in 1 .. Len(d.init) : d.init[n][1] # "put"
  BY <1>4
<1>15. \A k \in 1 .. Len(d.init) :
          /\ d.init[k][1] \notin {"use", "start"}
          /\ d.init[k][1] = "arm" => d.init[k][2] \in {"timer0", "timer1"}
  BY <1>4
<1>16. \A h \in DOMAIN d.uses : "chrdev" \notin d.uses[h]
  BY <1>1
<1>17. DriverType(d)
  BY <1>12, <1>13, <1>14, <1>15, <1>16, Zenon DEF DriverType
<1>18. InitInOrder("sr04_b", d)
  BY <1>1, <1>4, <1>6, <1>12, <1>9, <1>10, <1>11
  DEF InitInOrder, StageInOrder, Touches, Code, Sources, Taken, Things, Acquire, Kinds
<1>19. UpInOrder("sr04_b", d)
  BY <1>1, <1>6, <1>7, <1>12, <1>9, <1>10, <1>11 DEF UpInOrder, StageInOrder, Touches, Code, Sources
<1>20. FailedInOrder("sr04_b", d)
  <2>1. \A n \in 1 .. 7 : FailsAt(d, n) => n \in {5, 7}
    BY <1>4, <1>6 DEF FailsAt, KeepsError
  <2>2. StageInOrder("sr04_b", d, "failed", Taken(d.init, 5))
    BY <1>1, <1>8, <1>9, <1>10, <1>11 DEF StageInOrder, Touches, Code, Sources
  <2>3. StageInOrder("sr04_b", d, "failed", Taken(d.init, 7))
    BY <1>1, <1>7, <1>12, <1>9, <1>10, <1>11 DEF StageInOrder, Touches, Code, Sources
  <2>4. QED
    BY <1>6, <2>1, <2>2, <2>3 DEF FailedInOrder
<1>21. ExitInOrder("sr04_b", d)
  BY <1>1, <1>4, <1>5, <1>6, <1>7, <1>9, <1>10, <1>11
  DEF ExitInOrder, Left, Returned, Touches, Sources
<1>22. GoneInOrder("sr04_b", d)
  BY <1>1, <1>4, <1>5, <1>6, <1>7, <1>9, <1>10, <1>11
  DEF GoneInOrder, Left, Returned, Touches, Sources, DriverLoad!Leaked
<1>23. TimersInOrder("sr04_b", d)
  BY <1>1, <1>4, <1>5, <1>9, <1>10, <1>11, <1>6, <1>12 DEF TimersInOrder, Timers, Returned
<1>24. QED
  BY <1>17, <1>18, <1>19, <1>20, <1>21, <1>22, <1>23, Zenon DEF InOrder, d

\* The receiver sets its timer up first.
LEMMA IrdaInOrder ==
    InOrder("irda", DriverLoad!Irda)
<1> DEFINE d == DriverLoad!Irda
<1>1. /\ d.uses = [irq0 |-> {"timer0"}]
      /\ d.arms = {<<"irq0", "timer0">>} /\ d.door = {"chrdev", "node"}
      /\ d.call = <<>>
  BY DEF DriverLoad!Irda, DriverLoad!Driver, DriverLoad!Door
<1>2. d.init =
          <<<<"set", "timer0">>, <<"err", "irq0">>>> \o DriverLoad!CharDevice
  BY DEF DriverLoad!Irda, DriverLoad!Driver,
         DriverLoad!Set, DriverLoad!Keep
<1>3. d.exit =
          DriverLoad!Unregister \o <<<<"put", "irq0">>, <<"put", "timer0">>>>
  BY DEF DriverLoad!Irda, DriverLoad!Driver,
         DriverLoad!PutBack
<1> HIDE DEF d
<1>4. d.init = <<<<"set", "timer0">>, <<"err", "irq0">>, <<"get", "chrdev">>,
                 <<"class", "class">>, <<"get", "node">>>>
  BY <1>2, TwoThenDevice, Zenon
<1>5. d.exit = <<<<"put", "node">>, <<"put", "class">>, <<"put", "chrdev">>,
                 <<"put", "irq0">>, <<"put", "timer0">>>>
  BY <1>3, UnregisterThenTwo, Zenon
<1>6. Len(d.init) = 5 /\ Len(d.exit) = 5
  BY <1>4, <1>5
<1>7. Taken(d.init, 6) = {"timer0", "irq0", "chrdev", "class", "node"}
  BY <1>4 DEF Taken, Things, Acquire, Kinds
<1>8. Taken(d.init, 4) = {"timer0", "irq0", "chrdev"}
  BY <1>4 DEF Taken, Things, Acquire, Kinds
<1>9. \A h \in {"irq0", "timer0", "file"} : "code" \in Lacks("irda", "failed", h)
  BY LacksAre DEF DriverLoad!Stranded
<1>10. /\ d.call \in Seq(Steps) /\ Len(d.call) = 0 /\ CallType(d)
      /\ \A phase, all : CallInOrder("irda", d, phase, all)
  BY <1>1, NoCall
<1>11. d.init \in Seq(Steps) /\ d.exit \in Seq(Steps)
  BY <1>4, <1>5 DEF Steps, Kinds, Things
<1>12. \A n \in 1 .. Len(d.init) : d.init[n][1] # "put"
  BY <1>4
<1>13. \A k \in 1 .. Len(d.init) :
          /\ d.init[k][1] \notin {"use", "start"}
          /\ d.init[k][1] = "arm" => d.init[k][2] \in {"timer0", "timer1"}
  BY <1>4
<1>14. \A h \in DOMAIN d.uses : "chrdev" \notin d.uses[h]
  BY <1>1
<1>15. DriverType(d)
  BY <1>10, <1>11, <1>12, <1>13, <1>14, Zenon DEF DriverType
<1>16. InitInOrder("irda", d)
  BY <1>1, <1>4, <1>6, <1>10, <1>9
  DEF InitInOrder, StageInOrder, Touches, Code, Sources, Taken, Things, Acquire, Kinds
<1>17. UpInOrder("irda", d)
  BY <1>1, <1>6, <1>7, <1>10, <1>9 DEF UpInOrder, StageInOrder, Touches, Code, Sources
<1>18. FailedInOrder("irda", d)
  <2>1. \A n \in 1 .. 6 : FailsAt(d, n) => n \in {4, 6}
    BY <1>4, <1>6 DEF FailsAt, KeepsError
  <2>2. StageInOrder("irda", d, "failed", Taken(d.init, 4))
    BY <1>1, <1>8, <1>9 DEF StageInOrder, Touches, Code, Sources
  <2>3. StageInOrder("irda", d, "failed", Taken(d.init, 6))
    BY <1>1, <1>7, <1>10, <1>9 DEF StageInOrder, Touches, Code, Sources
  <2>4. QED
    BY <1>6, <2>1, <2>2, <2>3 DEF FailedInOrder
<1>19. ExitInOrder("irda", d)
  BY <1>1, <1>4, <1>5, <1>6, <1>7, <1>9
  DEF ExitInOrder, Left, Returned, Touches, Sources
<1>20. GoneInOrder("irda", d)
  BY <1>1, <1>4, <1>5, <1>6, <1>7, <1>9
  DEF GoneInOrder, Left, Returned, Touches, Sources
<1>21. TimersInOrder("irda", d)
  BY <1>1, <1>4, <1>5, <1>9, <1>6, <1>10 DEF TimersInOrder, Timers, Returned
<1>22. QED
  BY <1>15, <1>16, <1>17, <1>18, <1>19, <1>20, <1>21, Zenon DEF InOrder, d

\* A read has its pin and its interrupt, but drives the pin once without; its timer is
\* left to whoever unloads.
LEMMA RingDht11InOrder ==
    InOrder("dht11_t", DriverLoad!RingDht11)
<1> DEFINE d == DriverLoad!RingDht11
<1>1. /\ d.uses = [irq0 |-> {"timer0"}]
      /\ d.arms = {} /\ d.door = {"chrdev", "node"}
  BY DEF DriverLoad!RingDht11, DriverLoad!Driver, DriverLoad!Door
<1>2. d.call = <<<<"get", "gpio0">>, <<"use", "gpio0">>, <<"put", "gpio0">>,
                 <<"use", "gpio0">>, <<"get", "irq0">>, <<"start", "timer0">>,
                 <<"put", "irq0">>, <<"get", "gpio0">>, <<"use", "gpio0">>,
                 <<"put", "gpio0">>>>
  BY DEF DriverLoad!RingDht11, DriverLoad!Driver, DriverLoad!Get, DriverLoad!Use, DriverLoad!PutBack, DriverLoad!Start
<1>3. d.init =
          <<<<"err", "gpio0">>, <<"put", "gpio0">>, <<"set", "timer0">>>> \o DriverLoad!CharDevice
  BY DEF DriverLoad!RingDht11, DriverLoad!Driver,
         DriverLoad!Keep, DriverLoad!PutBack, DriverLoad!Set
<1>4. d.exit = <<<<"put", "node">>, <<"put", "class">>, <<"put", "chrdev">>>>
  BY DEF DriverLoad!RingDht11, DriverLoad!Driver,
         DriverLoad!Unregister, DriverLoad!PutBack
<1> HIDE DEF d
<1>5. d.init = <<<<"err", "gpio0">>, <<"put", "gpio0">>, <<"set", "timer0">>,
                 <<"get", "chrdev">>, <<"class", "class">>, <<"get", "node">>>>
  BY <1>3, ThreeThenDevice, Zenon
<1>6. Len(d.init) = 6 /\ Len(d.exit) = 3
  BY <1>5, <1>4
<1>7. Taken(d.init, 7) = {"timer0", "chrdev", "class", "node"}
  BY <1>5 DEF Taken, Things, Acquire, Kinds
<1>8. Taken(d.init, 5) = {"timer0", "chrdev"}
  BY <1>5 DEF Taken, Things, Acquire, Kinds
<1>9. "code" \in Lacks("dht11_t", "gone", "timer0")
  BY LacksAre DEF Things, DriverLoad!OutOfOrder
<1>10. \A h \in {"irq0", "timer0", "file"} : "code" \in Lacks("dht11_t", "failed", h)
  BY LacksAre DEF DriverLoad!Stranded
<1>11. \A phase \in {"init", "up", "failed"} : {"gpio0"} \subseteq Lacks("dht11_t", phase, "file")
  BY LacksAre DEF DriverLoad!Unrequested, Things
<1>12. d.call \in Seq(Steps) /\ Len(d.call) = 10
  BY <1>2 DEF Steps, Kinds, Things
<1>13. /\ Taken(d.call, 1) = {}
      /\ Taken(d.call, 2) = {"gpio0"}
      /\ Taken(d.call, 3) = {"gpio0"}
      /\ Taken(d.call, 4) = {}
      /\ Taken(d.call, 5) = {}
      /\ Taken(d.call, 6) = {"irq0"}
      /\ Taken(d.call, 7) = {"irq0"}
      /\ Taken(d.call, 8) = {}
      /\ Taken(d.call, 9) = {"gpio0"}
      /\ Taken(d.call, 10) = {"gpio0"}
      /\ Taken(d.call, 11) = {}
  BY <1>2 DEF Taken, Things, Acquire, Kinds
<1>14. \A n \in 1 .. 7 : d.door \subseteq Taken(d.init, n) => n = 7
  BY <1>1, <1>5 DEF Taken
<1>15. \A phase \in {"init", "up", "failed"} : CallInOrder("dht11_t", d, phase, Taken(d.init, 7))
  BY <1>1, <1>2, <1>12, <1>13, <1>7, <1>9, <1>10, <1>11 DEF CallInOrder, Touches, Code, Sources
<1>16. d.init \in Seq(Steps) /\ d.exit \in Seq(Steps)
  BY <1>5, <1>4 DEF Steps, Kinds, Things
<1>17. \A n \in 1 .. Len(d.init) : d.door \subseteq Taken(d.init, n) => d.init[n][1] # "put"
  BY <1>14, <1>6, <1>5
<1>18. \A k \in 1 .. Len(d.init) :
          /\ d.init[k][1] \notin {"use", "start"}
          /\ d.init[k][1] = "arm" => d.init[k][2] \in {"timer0", "timer1"}
  BY <1>5
<1>19. \A h \in DOMAIN d.uses : "chrdev" \notin d.uses[h]
  BY <1>1
<1>20. CallType(d)
  <2>1. \A k \in 1 .. Len(d.call) :
            /\ d.call[k][1] \in {"get", "put", "use", "start"} /\ d.call[k][2] # "chrdev"
            /\ d.call[k][1] = "start" => d.call[k][2] \in {"timer0", "timer1"}
    BY <1>2
  <2>2. Taken(d.call, Len(d.call) + 1) = {}
    BY <1>12, <1>13
  <2>3. QED
    BY <2>1, <2>2 DEF CallType
<1>21. DriverType(d)
  BY <1>20, <1>12, <1>16, <1>17, <1>18, <1>19, Zenon DEF DriverType
<1>22. InitInOrder("dht11_t", d)
  <2>1. StageInOrder("dht11_t", d, "init", Taken(d.init, 7))
    BY <1>1, <1>7, <1>15, <1>9, <1>10, <1>11 DEF StageInOrder, Touches, Code, Sources
  <2>2. ASSUME NEW n \in 1 .. 6
        PROVE  StageInOrder("dht11_t", d, "init", Taken(d.init, n))
    <3>1. \A h \in Taken(d.init, n) \cap Sources :
              Touches(d, h) \ Taken(d.init, n) \subseteq Lacks("dht11_t", "init", h)
      BY <1>1, <1>5, <1>9, <1>10, <1>11 DEF Taken, Things, Acquire, Kinds, Touches, Sources
    <3>2. ~(d.door \subseteq Taken(d.init, n))
      BY <1>14
    <3>3. QED
      BY <3>1, <3>2 DEF StageInOrder, Code
  <2>3. QED
    BY <2>1, <2>2, <1>6 DEF InitInOrder
<1>23. UpInOrder("dht11_t", d)
  BY <1>1, <1>6, <1>7, <1>15, <1>9, <1>10, <1>11 DEF UpInOrder, StageInOrder, Touches, Code, Sources
<1>24. FailedInOrder("dht11_t", d)
  <2>1. \A n \in 1 .. 7 : FailsAt(d, n) => n \in {5, 7}
    BY <1>5, <1>6 DEF FailsAt, KeepsError
  <2>2. StageInOrder("dht11_t", d, "failed", Taken(d.init, 5))
    BY <1>1, <1>8, <1>9, <1>10, <1>11 DEF StageInOrder, Touches, Code, Sources
  <2>3. StageInOrder("dht11_t", d, "failed", Taken(d.init, 7))
    BY <1>1, <1>7, <1>15, <1>9, <1>10, <1>11 DEF StageInOrder, Touches, Code, Sources
  <2>4. QED
    BY <1>6, <2>1, <2>2, <2>3 DEF FailedInOrder
<1>25. ExitInOrder("dht11_t", d)
  BY <1>1, <1>5, <1>4, <1>6, <1>7, <1>9, <1>10, <1>11
  DEF ExitInOrder, Left, Returned, Touches, Sources
<1>26. GoneInOrder("dht11_t", d)
  BY <1>1, <1>5, <1>4, <1>6, <1>7, <1>9, <1>10, <1>11
  DEF GoneInOrder, Left, Returned, Touches, Sources
<1>27. TimersInOrder("dht11_t", d)
  BY <1>1, <1>5, <1>4, <1>9, <1>10, <1>11, <1>6, <1>12, <1>2 DEF TimersInOrder, Timers, Returned
<1>28. QED
  BY <1>21, <1>22, <1>23, <1>24, <1>25, <1>26, <1>27, Zenon DEF InOrder, d

\* Here a read keeps its pin while it waits.
LEMMA FlagsDht11InOrder ==
    InOrder("dht11", DriverLoad!FlagsDht11)
<1> DEFINE d == DriverLoad!FlagsDht11
<1>1. /\ d.uses = [irq0 |-> {"timer0"}]
      /\ d.arms = {} /\ d.door = {"chrdev", "node"}
  BY DEF DriverLoad!FlagsDht11, DriverLoad!RingDht11, DriverLoad!Driver, DriverLoad!Door
<1>2. d.call = <<<<"get", "gpio0">>, <<"use", "gpio0">>, <<"get", "irq0">>,
                 <<"start", "timer0">>, <<"put", "irq0">>, <<"use", "gpio0">>,
                 <<"put", "gpio0">>>>
  BY DEF DriverLoad!FlagsDht11, DriverLoad!RingDht11, DriverLoad!Driver, DriverLoad!Get, DriverLoad!Use, DriverLoad!Start, DriverLoad!PutBack
<1>3. d.init =
          <<<<"err", "gpio0">>, <<"put", "gpio0">>, <<"set", "timer0">>>> \o DriverLoad!CharDevice
  BY DEF DriverLoad!FlagsDht11, DriverLoad!RingDht11, DriverLoad!Driver,
         DriverLoad!Keep, DriverLoad!PutBack, DriverLoad!Set
<1>4. d.exit = <<<<"put", "node">>, <<"put", "class">>, <<"put", "chrdev">>>>
  BY DEF DriverLoad!FlagsDht11, DriverLoad!RingDht11, DriverLoad!Driver,
         DriverLoad!Unregister, DriverLoad!PutBack
<1> HIDE DEF d
<1>5. d.init = <<<<"err", "gpio0">>, <<"put", "gpio0">>, <<"set", "timer0">>,
                 <<"get", "chrdev">>, <<"class", "class">>, <<"get", "node">>>>
  BY <1>3, ThreeThenDevice, Zenon
<1>6. Len(d.init) = 6 /\ Len(d.exit) = 3
  BY <1>5, <1>4
<1>7. Taken(d.init, 7) = {"timer0", "chrdev", "class", "node"}
  BY <1>5 DEF Taken, Things, Acquire, Kinds
<1>8. Taken(d.init, 5) = {"timer0", "chrdev"}
  BY <1>5 DEF Taken, Things, Acquire, Kinds
<1>9. "code" \in Lacks("dht11", "gone", "timer0")
  BY LacksAre DEF Things, DriverLoad!OutOfOrder
<1>10. \A h \in {"irq0", "timer0", "file"} : "code" \in Lacks("dht11", "failed", h)
  BY LacksAre DEF DriverLoad!Stranded
<1>11. d.call \in Seq(Steps) /\ Len(d.call) = 7
  BY <1>2 DEF Steps, Kinds, Things
<1>12. /\ Taken(d.call, 1) = {}
      /\ Taken(d.call, 2) = {"gpio0"}
      /\ Taken(d.call, 3) = {"gpio0"}
      /\ Taken(d.call, 4) = {"gpio0", "irq0"}
      /\ Taken(d.call, 5) = {"gpio0", "irq0"}
      /\ Taken(d.call, 6) = {"gpio0"}
      /\ Taken(d.call, 7) = {"gpio0"}
      /\ Taken(d.call, 8) = {}
  BY <1>2 DEF Taken, Things, Acquire, Kinds
<1>13. \A n \in 1 .. 7 : d.door \subseteq Taken(d.init, n) => n = 7
  BY <1>1, <1>5 DEF Taken
<1>14. \A phase \in {"init", "up", "failed"} : CallInOrder("dht11", d, phase, Taken(d.init, 7))
  BY <1>1, <1>2, <1>11, <1>12, <1>7, <1>9, <1>10 DEF CallInOrder, Touches, Code, Sources
<1>15. d.init \in Seq(Steps) /\ d.exit \in Seq(Steps)
  BY <1>5, <1>4 DEF Steps, Kinds, Things
<1>16. \A n \in 1 .. Len(d.init) : d.door \subseteq Taken(d.init, n) => d.init[n][1] # "put"
  BY <1>13, <1>6, <1>5
<1>17. \A k \in 1 .. Len(d.init) :
          /\ d.init[k][1] \notin {"use", "start"}
          /\ d.init[k][1] = "arm" => d.init[k][2] \in {"timer0", "timer1"}
  BY <1>5
<1>18. \A h \in DOMAIN d.uses : "chrdev" \notin d.uses[h]
  BY <1>1
<1>19. CallType(d)
  <2>1. \A k \in 1 .. Len(d.call) :
            /\ d.call[k][1] \in {"get", "put", "use", "start"} /\ d.call[k][2] # "chrdev"
            /\ d.call[k][1] = "start" => d.call[k][2] \in {"timer0", "timer1"}
    BY <1>2
  <2>2. Taken(d.call, Len(d.call) + 1) = {}
    BY <1>11, <1>12
  <2>3. QED
    BY <2>1, <2>2 DEF CallType
<1>20. DriverType(d)
  BY <1>19, <1>11, <1>15, <1>16, <1>17, <1>18, Zenon DEF DriverType
<1>21. InitInOrder("dht11", d)
  <2>1. StageInOrder("dht11", d, "init", Taken(d.init, 7))
    BY <1>1, <1>7, <1>14, <1>9, <1>10 DEF StageInOrder, Touches, Code, Sources
  <2>2. ASSUME NEW n \in 1 .. 6
        PROVE  StageInOrder("dht11", d, "init", Taken(d.init, n))
    <3>1. \A h \in Taken(d.init, n) \cap Sources :
              Touches(d, h) \ Taken(d.init, n) \subseteq Lacks("dht11", "init", h)
      BY <1>1, <1>5, <1>9, <1>10 DEF Taken, Things, Acquire, Kinds, Touches, Sources
    <3>2. ~(d.door \subseteq Taken(d.init, n))
      BY <1>13
    <3>3. QED
      BY <3>1, <3>2 DEF StageInOrder, Code
  <2>3. QED
    BY <2>1, <2>2, <1>6 DEF InitInOrder
<1>22. UpInOrder("dht11", d)
  BY <1>1, <1>6, <1>7, <1>14, <1>9, <1>10 DEF UpInOrder, StageInOrder, Touches, Code, Sources
<1>23. FailedInOrder("dht11", d)
  <2>1. \A n \in 1 .. 7 : FailsAt(d, n) => n \in {5, 7}
    BY <1>5, <1>6 DEF FailsAt, KeepsError
  <2>2. StageInOrder("dht11", d, "failed", Taken(d.init, 5))
    BY <1>1, <1>8, <1>9, <1>10 DEF StageInOrder, Touches, Code, Sources
  <2>3. StageInOrder("dht11", d, "failed", Taken(d.init, 7))
    BY <1>1, <1>7, <1>14, <1>9, <1>10 DEF StageInOrder, Touches, Code, Sources
  <2>4. QED
    BY <1>6, <2>1, <2>2, <2>3 DEF FailedInOrder
<1>24. ExitInOrder("dht11", d)
  BY <1>1, <1>5, <1>4, <1>6, <1>7, <1>9, <1>10
  DEF ExitInOrder, Left, Returned, Touches, Sources
<1>25. GoneInOrder("dht11", d)
  BY <1>1, <1>5, <1>4, <1>6, <1>7, <1>9, <1>10
  DEF GoneInOrder, Left, Returned, Touches, Sources
<1>26. TimersInOrder("dht11", d)
  BY <1>1, <1>5, <1>4, <1>9, <1>10, <1>6, <1>11, <1>2 DEF TimersInOrder, Timers, Returned
<1>27. QED
  BY <1>20, <1>21, <1>22, <1>23, <1>24, <1>25, <1>26, Zenon DEF InOrder, d

\* The thermometer has a lock and a pin.
LEMMA Ds18b20InOrder ==
    \A m \in {"ds18b20", "ds18b20_t"} : InOrder(m, DriverLoad!Ds18b20)
<1> DEFINE d == DriverLoad!Ds18b20
<1> TAKE m \in {"ds18b20", "ds18b20_t"}
<1>1. /\ d.uses = [file |-> {"lock", "gpio0"}]
      /\ d.arms = {} /\ d.door = {"chrdev", "node"}
      /\ d.call = <<>>
  BY DEF DriverLoad!Ds18b20, DriverLoad!Driver, DriverLoad!Door
<1>2. d.init =
          <<<<"set", "lock">>, <<"err", "gpio0">>>> \o DriverLoad!CharDevice
  BY DEF DriverLoad!Ds18b20, DriverLoad!Driver,
         DriverLoad!Set, DriverLoad!Keep
<1>3. d.exit =
          DriverLoad!Unregister \o <<<<"put", "gpio0">>>>
  BY DEF DriverLoad!Ds18b20, DriverLoad!Driver,
         DriverLoad!PutBack
<1> HIDE DEF d
<1>4. d.init = <<<<"set", "lock">>, <<"err", "gpio0">>, <<"get", "chrdev">>,
                 <<"class", "class">>, <<"get", "node">>>>
  BY <1>2, TwoThenDevice, Zenon
<1>5. d.exit = <<<<"put", "node">>, <<"put", "class">>, <<"put", "chrdev">>,
                 <<"put", "gpio0">>>>
  BY <1>3, UnregisterThenOne, Zenon
<1>6. Len(d.init) = 5 /\ Len(d.exit) = 4
  BY <1>4, <1>5
<1>7. Taken(d.init, 6) = {"lock", "gpio0", "chrdev", "class", "node"}
  BY <1>4 DEF Taken, Things, Acquire, Kinds
<1>8. Taken(d.init, 4) = {"lock", "gpio0", "chrdev"}
  BY <1>4 DEF Taken, Things, Acquire, Kinds
<1>9. \A h \in {"file"} : "code" \in Lacks(m, "failed", h)
  BY LacksAre DEF DriverLoad!Stranded
<1>10. /\ d.call \in Seq(Steps) /\ Len(d.call) = 0 /\ CallType(d)
      /\ \A phase, all : CallInOrder(m, d, phase, all)
  BY <1>1, NoCall
<1>11. d.init \in Seq(Steps) /\ d.exit \in Seq(Steps)
  BY <1>4, <1>5 DEF Steps, Kinds, Things
<1>12. \A n \in 1 .. Len(d.init) : d.init[n][1] # "put"
  BY <1>4
<1>13. \A k \in 1 .. Len(d.init) :
          /\ d.init[k][1] \notin {"use", "start"}
          /\ d.init[k][1] = "arm" => d.init[k][2] \in {"timer0", "timer1"}
  BY <1>4
<1>14. \A h \in DOMAIN d.uses : "chrdev" \notin d.uses[h]
  BY <1>1
<1>15. DriverType(d)
  BY <1>10, <1>11, <1>12, <1>13, <1>14, Zenon DEF DriverType
<1>16. InitInOrder(m, d)
  BY <1>1, <1>4, <1>6, <1>10, <1>9
  DEF InitInOrder, StageInOrder, Touches, Code, Sources, Taken, Things, Acquire, Kinds
<1>17. UpInOrder(m, d)
  BY <1>1, <1>6, <1>7, <1>10, <1>9 DEF UpInOrder, StageInOrder, Touches, Code, Sources
<1>18. FailedInOrder(m, d)
  <2>1. \A n \in 1 .. 6 : FailsAt(d, n) => n \in {4, 6}
    BY <1>4, <1>6 DEF FailsAt, KeepsError
  <2>2. StageInOrder(m, d, "failed", Taken(d.init, 4))
    BY <1>1, <1>8, <1>9 DEF StageInOrder, Touches, Code, Sources
  <2>3. StageInOrder(m, d, "failed", Taken(d.init, 6))
    BY <1>1, <1>7, <1>10, <1>9 DEF StageInOrder, Touches, Code, Sources
  <2>4. QED
    BY <1>6, <2>1, <2>2, <2>3 DEF FailedInOrder
<1>19. ExitInOrder(m, d)
  BY <1>1, <1>4, <1>5, <1>6, <1>7, <1>9
  DEF ExitInOrder, Left, Returned, Touches, Sources
<1>20. GoneInOrder(m, d)
  BY <1>1, <1>4, <1>5, <1>6, <1>7, <1>9
  DEF GoneInOrder, Left, Returned, Touches, Sources
<1>21. TimersInOrder(m, d)
  BY <1>1, <1>4, <1>5, <1>9, <1>6, <1>10 DEF TimersInOrder, Timers, Returned
<1>22. QED
  BY <1>15, <1>16, <1>17, <1>18, <1>19, <1>20, <1>21, Zenon DEF InOrder, d

\* The interrupt is there before the input device, and after it.
LEMMA InputHs0038InOrder ==
    InOrder("hs0038", DriverLoad!InputHs0038)
<1> DEFINE d == DriverLoad!InputHs0038
<1>1. d.uses = [irq0 |-> {"wq", "input"}, file |-> {"wq"}]
  BY ReceiverIs
<1>2. d.arms = {} /\ d.door = {"chrdev", "node"} /\ d.call = <<>>
  BY DEF DriverLoad!InputHs0038, DriverLoad!Hs0038, DriverLoad!Driver, DriverLoad!Door
<1>3. d.init = <<<<"get", "chrdev">>, <<"class", "class">>, <<"set", "wq">>,
                 <<"get", "pin">>, <<"get", "irq0">>, <<"get", "node">>,
                 <<"get", "input">>>>
  BY ReceiverIs
<1>4. d.exit = <<<<"put", "input">>, <<"put", "node">>, <<"put", "irq0">>,
                 <<"put", "pin">>, <<"put", "class">>, <<"put", "chrdev">>>>
  BY ReceiverIs
<1> HIDE DEF d
<1>5. Len(d.init) = 7 /\ Len(d.exit) = 6
  BY <1>3, <1>4
<1>6. Taken(d.init, 8) = {"chrdev", "class", "wq", "pin", "irq0", "node", "input"}
  BY <1>3 DEF Taken, Things, Acquire, Kinds
<1>7. Taken(d.init, 2) = {"chrdev"}
  BY <1>3 DEF Taken, Things, Acquire, Kinds
<1>8. /\ "input" \in Lacks("hs0038", "init", "irq0")
      /\ "input" \in Lacks("hs0038", "exit", "irq0")
  BY LacksAre DEF Things, DriverLoad!OutOfOrder
<1>9. /\ d.call \in Seq(Steps) /\ Len(d.call) = 0 /\ CallType(d)
      /\ \A phase, all : CallInOrder("hs0038", d, phase, all)
  BY <1>1, <1>2, NoCall
<1>10. d.init \in Seq(Steps) /\ d.exit \in Seq(Steps)
  BY <1>3, <1>4 DEF Steps, Kinds, Things
<1>11. \A n \in 1 .. Len(d.init) : d.init[n][1] # "put"
  BY <1>3
<1>12. \A k \in 1 .. Len(d.init) :
          /\ d.init[k][1] \notin {"use", "start"}
          /\ d.init[k][1] = "arm" => d.init[k][2] \in {"timer0", "timer1"}
  BY <1>3
<1>13. \A h \in DOMAIN d.uses : "chrdev" \notin d.uses[h]
  BY <1>1, <1>2
<1>14. DriverType(d)
  BY <1>9, <1>10, <1>11, <1>12, <1>13, Zenon DEF DriverType
<1>15. InitInOrder("hs0038", d)
  <2>1. \A n \in 1 .. 8 : \A h \in Taken(d.init, n) \cap Sources :
            Touches(d, h) \ Taken(d.init, n) \subseteq Lacks("hs0038", "init", h)
    BY <1>1, <1>2, <1>3, <1>8 DEF Taken, Things, Acquire, Kinds, Touches, Sources
  <2>2. \A n \in 1 .. 8 : d.door \subseteq Taken(d.init, n) =>
            Touches(d, "file") \subseteq Taken(d.init, n)
    <3>1. \A n \in 1 .. 8 : d.door \subseteq Taken(d.init, n) => n \in {7, 8}
      BY <1>1, <1>2, <1>3 DEF Taken
    <3>2. Taken(d.init, 7) = {"chrdev", "class", "wq", "pin", "irq0", "node"}
      BY <1>3 DEF Taken, Things, Acquire, Kinds
    <3>3. QED
      BY <3>1, <3>2, <1>1, <1>2, <1>6 DEF Touches
  <2>3. QED
    BY <2>1, <2>2, <1>5, <1>9 DEF InitInOrder, StageInOrder, Code
<1>16. UpInOrder("hs0038", d)
  BY <1>1, <1>2, <1>5, <1>6, <1>9, <1>8 DEF UpInOrder, StageInOrder, Touches, Code, Sources
<1>17. FailedInOrder("hs0038", d)
  <2>1. \A n \in 1 .. 8 : FailsAt(d, n) => n \in {2}
    BY <1>3, <1>5 DEF FailsAt, KeepsError
  <2>2. StageInOrder("hs0038", d, "failed", Taken(d.init, 2))
    BY <1>1, <1>2, <1>7, <1>8 DEF StageInOrder, Touches, Code, Sources
  <2>3. QED
    BY <1>5, <2>1, <2>2 DEF FailedInOrder
<1>18. ExitInOrder("hs0038", d)
  BY <1>1, <1>2, <1>3, <1>4, <1>5, <1>6, <1>8
  DEF ExitInOrder, Left, Returned, Touches, Sources
<1>19. GoneInOrder("hs0038", d)
  BY <1>1, <1>2, <1>3, <1>4, <1>5, <1>6, <1>8
  DEF GoneInOrder, Left, Returned, Touches, Sources
<1>20. TimersInOrder("hs0038", d)
  BY <1>1, <1>2, <1>3, <1>4, <1>8, <1>5, <1>9 DEF TimersInOrder, Timers, Returned
<1>21. QED
  BY <1>14, <1>15, <1>16, <1>17, <1>18, <1>19, <1>20, Zenon DEF InOrder, d

\* The same without an input device.
LEMMA CharHs0038InOrder ==
    InOrder("hs0038_c", DriverLoad!CharHs0038)
<1> DEFINE d == DriverLoad!CharHs0038
<1>1. d.uses = [file |-> {}]
  BY ReceiverIs
<1>2. d.arms = {} /\ d.door = {"chrdev", "node"} /\ d.call = <<>>
  BY DEF DriverLoad!CharHs0038, DriverLoad!Hs0038, DriverLoad!Driver, DriverLoad!Door
<1>3. d.init = <<<<"get", "chrdev">>, <<"class", "class">>, <<"set", "wq">>,
                 <<"get", "pin">>, <<"get", "irq0">>, <<"get", "node">>>>
  BY ReceiverIs
<1>4. d.exit = <<<<"put", "node">>, <<"put", "irq0">>, <<"put", "pin">>,
                 <<"put", "class">>, <<"put", "chrdev">>>>
  BY ReceiverIs
<1> HIDE DEF d
<1>5. Len(d.init) = 6 /\ Len(d.exit) = 5
  BY <1>3, <1>4
<1>6. Taken(d.init, 7) = {"chrdev", "class", "wq", "pin", "irq0", "node"}
  BY <1>3 DEF Taken, Things, Acquire, Kinds
<1>7. Taken(d.init, 2) = {"chrdev"}
  BY <1>3 DEF Taken, Things, Acquire, Kinds
<1>8. /\ d.call \in Seq(Steps) /\ Len(d.call) = 0 /\ CallType(d)
      /\ \A phase, all : CallInOrder("hs0038_c", d, phase, all)
  BY <1>1, <1>2, NoCall
<1>9. d.init \in Seq(Steps) /\ d.exit \in Seq(Steps)
  BY <1>3, <1>4 DEF Steps, Kinds, Things
<1>10. \A n \in 1 .. Len(d.init) : d.init[n][1] # "put"
  BY <1>3
<1>11. \A k \in 1 .. Len(d.init) :
          /\ d.init[k][1] \notin {"use", "start"}
          /\ d.init[k][1] = "arm" => d.init[k][2] \in {"timer0", "timer1"}
  BY <1>3
<1>12. \A h \in DOMAIN d.uses : "chrdev" \notin d.uses[h]
  BY <1>1, <1>2
<1>13. DriverType(d)
  BY <1>8, <1>9, <1>10, <1>11, <1>12, Zenon DEF DriverType
<1>14. InitInOrder("hs0038_c", d)
  <2>1. \A n \in 1 .. 7 : \A h \in Taken(d.init, n) \cap Sources :
            Touches(d, h) \ Taken(d.init, n) \subseteq Lacks("hs0038_c", "init", h)
    BY <1>1, <1>2, <1>3 DEF Taken, Things, Acquire, Kinds, Touches, Sources
  <2>2. \A n \in 1 .. 7 : d.door \subseteq Taken(d.init, n) =>
            Touches(d, "file") \subseteq Taken(d.init, n)
    <3>1. \A n \in 1 .. 7 : d.door \subseteq Taken(d.init, n) => n \in {7}
      BY <1>1, <1>2, <1>3 DEF Taken
    <3>2. QED
      BY <3>1, <1>1, <1>2, <1>6 DEF Touches
  <2>3. QED
    BY <2>1, <2>2, <1>5, <1>8 DEF InitInOrder, StageInOrder, Code
<1>15. UpInOrder("hs0038_c", d)
  BY <1>1, <1>2, <1>5, <1>6, <1>8 DEF UpInOrder, StageInOrder, Touches, Code, Sources
<1>16. FailedInOrder("hs0038_c", d)
  <2>1. \A n \in 1 .. 7 : FailsAt(d, n) => n \in {2}
    BY <1>3, <1>5 DEF FailsAt, KeepsError
  <2>2. StageInOrder("hs0038_c", d, "failed", Taken(d.init, 2))
    BY <1>1, <1>2, <1>7 DEF StageInOrder, Touches, Code, Sources
  <2>3. QED
    BY <1>5, <2>1, <2>2 DEF FailedInOrder
<1>17. ExitInOrder("hs0038_c", d)
  BY <1>1, <1>2, <1>3, <1>4, <1>5, <1>6
  DEF ExitInOrder, Left, Returned, Touches, Sources
<1>18. GoneInOrder("hs0038_c", d)
  BY <1>1, <1>2, <1>3, <1>4, <1>5, <1>6
  DEF GoneInOrder, Left, Returned, Touches, Sources
<1>19. TimersInOrder("hs0038_c", d)
  BY <1>1, <1>2, <1>3, <1>4, <1>5, <1>8 DEF TimersInOrder, Timers, Returned
<1>20. QED
  BY <1>13, <1>14, <1>15, <1>16, <1>17, <1>18, <1>19, Zenon DEF InOrder, d

\* The four pins of the motor.
LEMMA MotorInOrder ==
    \A m \in {"motor", "motor_t"} : InOrder(m, DriverLoad!Motor)
<1> DEFINE d == DriverLoad!Motor
<1> TAKE m \in {"motor", "motor_t"}
<1>1. /\ d.uses = [file |-> {"gpio0", "gpio1", "gpio2", "gpio3"}]
      /\ d.arms = {} /\ d.door = {"chrdev", "node"}
      /\ d.call = <<>>
  BY PinsAre DEF DriverLoad!Motor, DriverLoad!Driver, DriverLoad!Door
<1>2. d.init =
          <<<<"err", "gpio0">>, <<"err", "gpio1">>, <<"err", "gpio2">>, <<"err", "gpio3">>>> \o DriverLoad!CharDevice
  BY PinsAre DEF DriverLoad!Motor, DriverLoad!Driver,
         DriverLoad!Keep
<1>3. d.exit =
          DriverLoad!Unregister \o <<<<"put", "gpio0">>, <<"put", "gpio1">>,
                                    <<"put", "gpio2">>, <<"put", "gpio3">>>>
  BY PinsAre DEF DriverLoad!Motor, DriverLoad!Driver,
         DriverLoad!PutBack
<1> HIDE DEF d
<1>4. d.init = <<<<"err", "gpio0">>, <<"err", "gpio1">>, <<"err", "gpio2">>,
                 <<"err", "gpio3">>, <<"get", "chrdev">>, <<"class", "class">>,
                 <<"get", "node">>>>
  BY <1>2, FourThenDevice, Zenon
<1>5. d.exit = <<<<"put", "node">>, <<"put", "class">>, <<"put", "chrdev">>,
                 <<"put", "gpio0">>, <<"put", "gpio1">>, <<"put", "gpio2">>,
                 <<"put", "gpio3">>>>
  BY <1>3, UnregisterThenFour, Zenon
<1>6. Len(d.init) = 7 /\ Len(d.exit) = 7
  BY <1>4, <1>5
<1>7. Taken(d.init, 8) = {"gpio0", "gpio1", "gpio2", "gpio3", "chrdev", "class", "node"}
  BY <1>4 DEF Taken, Things, Acquire, Kinds
<1>8. Taken(d.init, 6) = {"gpio0", "gpio1", "gpio2", "gpio3", "chrdev"}
  BY <1>4 DEF Taken, Things, Acquire, Kinds
<1>9. \A h \in {"file"} : "code" \in Lacks(m, "failed", h)
  BY LacksAre DEF DriverLoad!Stranded
<1>10. /\ d.call \in Seq(Steps) /\ Len(d.call) = 0 /\ CallType(d)
      /\ \A phase, all : CallInOrder(m, d, phase, all)
  BY <1>1, NoCall
<1>11. d.init \in Seq(Steps) /\ d.exit \in Seq(Steps)
  BY <1>4, <1>5 DEF Steps, Kinds, Things
<1>12. \A n \in 1 .. Len(d.init) : d.init[n][1] # "put"
  BY <1>4
<1>13. \A k \in 1 .. Len(d.init) :
          /\ d.init[k][1] \notin {"use", "start"}
          /\ d.init[k][1] = "arm" => d.init[k][2] \in {"timer0", "timer1"}
  BY <1>4
<1>14. \A h \in DOMAIN d.uses : "chrdev" \notin d.uses[h]
  BY <1>1
<1>15. DriverType(d)
  BY <1>10, <1>11, <1>12, <1>13, <1>14, Zenon DEF DriverType
<1>16. InitInOrder(m, d)
  <2>1. \A n \in 1 .. 8 : \A h \in Taken(d.init, n) \cap Sources :
            Touches(d, h) \ Taken(d.init, n) \subseteq Lacks(m, "init", h)
    BY <1>1, <1>4, <1>9 DEF Taken, Things, Acquire, Kinds, Touches, Sources
  <2>2. \A n \in 1 .. 8 : d.door \subseteq Taken(d.init, n) =>
            Touches(d, "file") \subseteq Taken(d.init, n)
    <3>1. \A n \in 1 .. 8 : d.door \subseteq Taken(d.init, n) => n \in {8}
      BY <1>1, <1>4 DEF Taken
    <3>2. QED
      BY <3>1, <1>1, <1>7 DEF Touches
  <2>3. QED
    BY <2>1, <2>2, <1>6, <1>10 DEF InitInOrder, StageInOrder, Code
<1>17. UpInOrder(m, d)
  BY <1>1, <1>6, <1>7, <1>10, <1>9 DEF UpInOrder, StageInOrder, Touches, Code, Sources
<1>18. FailedInOrder(m, d)
  <2>1. \A n \in 1 .. 8 : FailsAt(d, n) => n \in {6, 8}
    BY <1>4, <1>6 DEF FailsAt, KeepsError
  <2>2. StageInOrder(m, d, "failed", Taken(d.init, 6))
    BY <1>1, <1>8, <1>9 DEF StageInOrder, Touches, Code, Sources
  <2>3. StageInOrder(m, d, "failed", Taken(d.init, 8))
    BY <1>1, <1>7, <1>10, <1>9 DEF StageInOrder, Touches, Code, Sources
  <2>4. QED
    BY <1>6, <2>1, <2>2, <2>3 DEF FailedInOrder
<1>19. ExitInOrder(m, d)
  BY <1>1, <1>4, <1>5, <1>6, <1>7, <1>9
  DEF ExitInOrder, Left, Returned, Touches, Sources
<1>20. GoneInOrder(m, d)
  BY <1>1, <1>4, <1>5, <1>6, <1>7, <1>9
  DEF GoneInOrder, Left, Returned, Touches, Sources
<1>21. TimersInOrder(m, d)
  BY <1>1, <1>4, <1>5, <1>9, <1>6, <1>10 DEF TimersInOrder, Timers, Returned
<1>22. QED
  BY <1>15, <1>16, <1>17, <1>18, <1>19, <1>20, <1>21, Zenon DEF InOrder, d

\* The two pins of the stepper.
LEMMA Stepper4988InOrder ==
    InOrder("a4988", DriverLoad!Stepper4988)
<1> DEFINE d == DriverLoad!Stepper4988
<1>1. /\ d.uses = [file |-> {"gpio0", "gpio1"}]
      /\ d.arms = {} /\ d.door = {"chrdev", "node"}
      /\ d.call = <<>>
  BY PinsAre DEF DriverLoad!Stepper4988, DriverLoad!Driver, DriverLoad!Door
<1>2. d.init =
          <<<<"err", "gpio0">>, <<"err", "gpio1">>>> \o DriverLoad!CharDevice
  BY PinsAre DEF DriverLoad!Stepper4988, DriverLoad!Driver,
         DriverLoad!Keep
<1>3. d.exit =
          DriverLoad!Unregister \o <<<<"put", "gpio0">>, <<"put", "gpio1">>>>
  BY PinsAre DEF DriverLoad!Stepper4988, DriverLoad!Driver,
         DriverLoad!PutBack
<1> HIDE DEF d
<1>4. d.init = <<<<"err", "gpio0">>, <<"err", "gpio1">>, <<"get", "chrdev">>,
                 <<"class", "class">>, <<"get", "node">>>>
  BY <1>2, TwoThenDevice, Zenon
<1>5. d.exit = <<<<"put", "node">>, <<"put", "class">>, <<"put", "chrdev">>,
                 <<"put", "gpio0">>, <<"put", "gpio1">>>>
  BY <1>3, UnregisterThenTwo, Zenon
<1>6. Len(d.init) = 5 /\ Len(d.exit) = 5
  BY <1>4, <1>5
<1>7. Taken(d.init, 6) = {"gpio0", "gpio1", "chrdev", "class", "node"}
  BY <1>4 DEF Taken, Things, Acquire, Kinds
<1>8. Taken(d.init, 4) = {"gpio0", "gpio1", "chrdev"}
  BY <1>4 DEF Taken, Things, Acquire, Kinds
<1>9. \A h \in {"file"} : "code" \in Lacks("a4988", "failed", h)
  BY LacksAre DEF DriverLoad!Stranded
<1>10. /\ d.call \in Seq(Steps) /\ Len(d.call) = 0 /\ CallType(d)
      /\ \A phase, all : CallInOrder("a4988", d, phase, all)
  BY <1>1, NoCall
<1>11. d.init \in Seq(Steps) /\ d.exit \in Seq(Steps)
  BY <1>4, <1>5 DEF Steps, Kinds, Things
<1>12. \A n \in 1 .. Len(d.init) : d.init[n][1] # "put"
  BY <1>4
<1>13. \A k \in 1 .. Len(d.init) :
          /\ d.init[k][1] \notin {"use", "start"}
          /\ d.init[k][1] = "arm" => d.init[k][2] \in {"timer0", "timer1"}
  BY <1>4
<1>14. \A h \in DOMAIN d.uses : "chrdev" \notin d.uses[h]
  BY <1>1
<1>15. DriverType(d)
  BY <1>10, <1>11, <1>12, <1>13, <1>14, Zenon DEF DriverType
<1>16. InitInOrder("a4988", d)
  BY <1>1, <1>4, <1>6, <1>10, <1>9
  DEF InitInOrder, StageInOrder, Touches, Code, Sources, Taken, Things, Acquire, Kinds
<1>17. UpInOrder("a4988", d)
  BY <1>1, <1>6, <1>7, <1>10, <1>9 DEF UpInOrder, StageInOrder, Touches, Code, Sources
<1>18. FailedInOrder("a4988", d)
  <2>1. \A n \in 1 .. 6 : FailsAt(d, n) => n \in {4, 6}
    BY <1>4, <1>6 DEF FailsAt, KeepsError
  <2>2. StageInOrder("a4988", d, "failed", Taken(d.init, 4))
    BY <1>1, <1>8, <1>9 DEF StageInOrder, Touches, Code, Sources
  <2>3. StageInOrder("a4988", d, "failed", Taken(d.init, 6))
    BY <1>1, <1>7, <1>10, <1>9 DEF StageInOrder, Touches, Code, Sources
  <2>4. QED
    BY <1>6, <2>1, <2>2, <2>3 DEF FailedInOrder
<1>19. ExitInOrder("a4988", d)
  BY <1>1, <1>4, <1>5, <1>6, <1>7, <1>9
  DEF ExitInOrder, Left, Returned, Touches, Sources
<1>20. GoneInOrder("a4988", d)
  BY <1>1, <1>4, <1>5, <1>6, <1>7, <1>9
  DEF GoneInOrder, Left, Returned, Touches, Sources
<1>21. TimersInOrder("a4988", d)
  BY <1>1, <1>4, <1>5, <1>9, <1>6, <1>10 DEF TimersInOrder, Timers, Returned
<1>22. QED
  BY <1>15, <1>16, <1>17, <1>18, <1>19, <1>20, <1>21, Zenon DEF InOrder, d

\* The two pins of the LEDs.
LEMMA LedInOrder ==
    InOrder("led", DriverLoad!Led)
<1> DEFINE d == DriverLoad!Led
<1>1. /\ d.uses = [file |-> {"gpio0", "gpio1"}]
      /\ d.arms = {} /\ d.door = {"chrdev", "node"}
      /\ d.call = <<>>
  BY PinsAre DEF DriverLoad!Led, DriverLoad!Driver, DriverLoad!Door
<1>2. d.init =
          <<<<"must", "gpio0">>, <<"must", "gpio1">>>> \o DriverLoad!CharDevice
  BY PinsAre DEF DriverLoad!Led, DriverLoad!Driver,
         DriverLoad!Must
<1>3. d.exit =
          DriverLoad!Unregister \o <<<<"put", "gpio0">>, <<"put", "gpio1">>>>
  BY PinsAre DEF DriverLoad!Led, DriverLoad!Driver,
         DriverLoad!PutBack
<1> HIDE DEF d
<1>4. d.init = <<<<"must", "gpio0">>, <<"must", "gpio1">>, <<"get", "chrdev">>,
                 <<"class", "class">>, <<"get", "node">>>>
  BY <1>2, TwoThenDevice, Zenon
<1>5. d.exit = <<<<"put", "node">>, <<"put", "class">>, <<"put", "chrdev">>,
                 <<"put", "gpio0">>, <<"put", "gpio1">>>>
  BY <1>3, UnregisterThenTwo, Zenon
<1>6. Len(d.init) = 5 /\ Len(d.exit) = 5
  BY <1>4, <1>5
<1>7. Taken(d.init, 6) = {"gpio0", "gpio1", "chrdev", "class", "node"}
  BY <1>4 DEF Taken, Things, Acquire, Kinds
<1>8. Taken(d.init, 1) = {}
  BY <1>4 DEF Taken, Things, Acquire, Kinds
<1>9. Taken(d.init, 2) = {"gpio0"}
  BY <1>4 DEF Taken, Things, Acquire, Kinds
<1>10. Taken(d.init, 4) = {"gpio0", "gpio1", "chrdev"}
  BY <1>4 DEF Taken, Things, Acquire, Kinds
<1>11. /\ d.call \in Seq(Steps) /\ Len(d.call) = 0 /\ CallType(d)
      /\ \A phase, all : CallInOrder("led", d, phase, all)
  BY <1>1, NoCall
<1>12. d.init \in Seq(Steps) /\ d.exit \in Seq(Steps)
  BY <1>4, <1>5 DEF Steps, Kinds, Things
<1>13. \A n \in 1 .. Len(d.init) : d.init[n][1] # "put"
  BY <1>4
<1>14. \A k \in 1 .. Len(d.init) :
          /\ d.init[k][1] \notin {"use", "start"}
          /\ d.init[k][1] = "arm" => d.init[k][2] \in {"timer0", "timer1"}
  BY <1>4
<1>15. \A h \in DOMAIN d.uses : "chrdev" \notin d.uses[h]
  BY <1>1
<1>16. DriverType(d)
  BY <1>11, <1>12, <1>13, <1>14, <1>15, Zenon DEF DriverType
<1>17. InitInOrder("led", d)
  BY <1>1, <1>4, <1>6, <1>11
  DEF InitInOrder, StageInOrder, Touches, Code, Sources, Taken, Things, Acquire, Kinds
<1>18. UpInOrder("led", d)
  BY <1>1, <1>6, <1>7, <1>11 DEF UpInOrder, StageInOrder, Touches, Code, Sources
<1>19. FailedInOrder("led", d)
  <2>1. \A n \in 1 .. 6 : FailsAt(d, n) => n \in {1, 2, 4}
    BY <1>4, <1>6 DEF FailsAt, KeepsError
  <2>2. StageInOrder("led", d, "failed", Taken(d.init, 1))
    BY <1>1, <1>8 DEF StageInOrder, Touches, Code, Sources
  <2>3. StageInOrder("led", d, "failed", Taken(d.init, 2))
    BY <1>1, <1>9 DEF StageInOrder, Touches, Code, Sources
  <2>4. StageInOrder("led", d, "failed", Taken(d.init, 4))
    BY <1>1, <1>10 DEF StageInOrder, Touches, Code, Sources
  <2>5. QED
    BY <1>6, <2>1, <2>2, <2>3, <2>4 DEF FailedInOrder
<1>20. ExitInOrder("led", d)
  BY <1>1, <1>4, <1>5, <1>6, <1>7
  DEF ExitInOrder, Left, Returned, Touches, Sources
<1>21. GoneInOrder("led", d)
  BY <1>1, <1>4, <1>5, <1>6, <1>7
  DEF GoneInOrder, Left, Returned, Touches, Sources
<1>22. TimersInOrder("led", d)
  BY <1>1, <1>4, <1>5, <1>6, <1>11 DEF TimersInOrder, Timers, Returned
<1>23. QED
  BY <1>16, <1>17, <1>18, <1>19, <1>20, <1>21, <1>22, Zenon DEF InOrder, d

\* The node of the OLED is there before its pin.
LEMMA OledInOrder ==
    InOrder("oled", DriverLoad!Oled)
<1> DEFINE d == DriverLoad!Oled
<1>1. /\ d.uses = [file |-> {"dc"}]
      /\ d.arms = {} /\ d.door = {"chrdev", "node"}
      /\ d.call = <<>>
  BY DEF DriverLoad!Oled, DriverLoad!Driver, DriverLoad!Door
<1>2. d.init = <<<<"get", "chrdev">>, <<"get", "class">>, <<"get", "node">>,
                 <<"get", "dc">>>>
  BY DEF DriverLoad!Oled, DriverLoad!Driver, DriverLoad!Get
<1>3. d.exit =
          DriverLoad!Unregister \o <<<<"put", "dc">>>>
  BY DEF DriverLoad!Oled, DriverLoad!Driver,
         DriverLoad!PutBack
<1> HIDE DEF d
<1>4. d.exit = <<<<"put", "node">>, <<"put", "class">>, <<"put", "chrdev">>,
                 <<"put", "dc">>>>
  BY <1>3, UnregisterThenOne, Zenon
<1>5. Len(d.init) = 4 /\ Len(d.exit) = 4
  BY <1>2, <1>4
<1>6. Taken(d.init, 5) = {"chrdev", "class", "node", "dc"}
  BY <1>2 DEF Taken, Things, Acquire, Kinds
<1>7. "dc" \in Lacks("oled", "init", "file")
  BY LacksAre DEF Things, DriverLoad!OutOfOrder
<1>8. /\ d.call \in Seq(Steps) /\ Len(d.call) = 0 /\ CallType(d)
      /\ \A phase, all : CallInOrder("oled", d, phase, all)
  BY <1>1, NoCall
<1>9. d.init \in Seq(Steps) /\ d.exit \in Seq(Steps)
  BY <1>2, <1>4 DEF Steps, Kinds, Things
<1>10. \A n \in 1 .. Len(d.init) : d.init[n][1] # "put"
  BY <1>2
<1>11. \A k \in 1 .. Len(d.init) :
          /\ d.init[k][1] \notin {"use", "start"}
          /\ d.init[k][1] = "arm" => d.init[k][2] \in {"timer0", "timer1"}
  BY <1>2
<1>12. \A h \in DOMAIN d.uses : "chrdev" \notin d.uses[h]
  BY <1>1
<1>13. DriverType(d)
  BY <1>8, <1>9, <1>10, <1>11, <1>12, Zenon DEF DriverType
<1>14. InitInOrder("oled", d)
  BY <1>1, <1>2, <1>5, <1>8, <1>7
  DEF InitInOrder, StageInOrder, Touches, Code, Sources, Taken, Things, Acquire, Kinds
<1>15. UpInOrder("oled", d)
  BY <1>1, <1>5, <1>6, <1>8, <1>7 DEF UpInOrder, StageInOrder, Touches, Code, Sources
<1>16. FailedInOrder("oled", d)
  BY <1>2, <1>5 DEF FailedInOrder, FailsAt, KeepsError
<1>17. ExitInOrder("oled", d)
  BY <1>1, <1>2, <1>4, <1>5, <1>6, <1>7
  DEF ExitInOrder, Left, Returned, Touches, Sources
<1>18. GoneInOrder("oled", d)
  BY <1>1, <1>2, <1>4, <1>5, <1>6, <1>7
  DEF GoneInOrder, Left, Returned, Touches, Sources
<1>19. TimersInOrder("oled", d)
  BY <1>1, <1>2, <1>4, <1>7, <1>5, <1>8 DEF TimersInOrder, Timers, Returned
<1>20. QED
  BY <1>13, <1>14, <1>15, <1>16, <1>17, <1>18, <1>19, Zenon DEF InOrder, d

\* The thread of the frame buffer is not stopped.
LEMMA OledFramebufferInOrder ==
    InOrder("oled_fb", DriverLoad!OledFramebuffer)
<1> DEFINE d == DriverLoad!OledFramebuffer
<1>1. /\ d.uses = [thread |-> {"info", "screen", "dc", "data"}, file |-> {"screen"}]
      /\ d.arms = {} /\ d.door = {"fb"}
      /\ d.call = <<>>
  BY DEF DriverLoad!OledFramebuffer, DriverLoad!Driver, DriverLoad!Door
<1>2. d.init = <<<<"get", "info">>, <<"get", "screen">>, <<"get", "fb">>, <<"get", "dc">>,
                 <<"get", "data">>, <<"set", "thread">>>>
  BY DEF DriverLoad!OledFramebuffer, DriverLoad!Driver, DriverLoad!Get, DriverLoad!Set
<1>3. d.exit = <<<<"put", "fb">>, <<"put", "dc">>>>
  BY DEF DriverLoad!OledFramebuffer, DriverLoad!Driver,
         DriverLoad!Unregister, DriverLoad!PutBack
<1> HIDE DEF d
<1>4. Len(d.init) = 6 /\ Len(d.exit) = 2
  BY <1>2, <1>3
<1>5. Taken(d.init, 7) = {"info", "screen", "fb", "dc", "data", "thread"}
  BY <1>2 DEF Taken, Things, Acquire, Kinds
<1>6. /\ "dc" \in Lacks("oled_fb", "exit", "thread")
      /\ "dc" \in Lacks("oled_fb", "gone", "thread")
      /\ "code" \in Lacks("oled_fb", "gone", "thread")
  BY LacksAre DEF Things, DriverLoad!OutOfOrder
<1>7. /\ d.call \in Seq(Steps) /\ Len(d.call) = 0 /\ CallType(d)
      /\ \A phase, all : CallInOrder("oled_fb", d, phase, all)
  BY <1>1, NoCall
<1>8. d.init \in Seq(Steps) /\ d.exit \in Seq(Steps)
  BY <1>2, <1>3 DEF Steps, Kinds, Things
<1>9. \A n \in 1 .. Len(d.init) : d.init[n][1] # "put"
  BY <1>2
<1>10. \A k \in 1 .. Len(d.init) :
          /\ d.init[k][1] \notin {"use", "start"}
          /\ d.init[k][1] = "arm" => d.init[k][2] \in {"timer0", "timer1"}
  BY <1>2
<1>11. \A h \in DOMAIN d.uses : "chrdev" \notin d.uses[h]
  BY <1>1
<1>12. DriverType(d)
  BY <1>7, <1>8, <1>9, <1>10, <1>11, Zenon DEF DriverType
<1>13. InitInOrder("oled_fb", d)
  <2>1. \A n \in 1 .. 7 : \A h \in Taken(d.init, n) \cap Sources :
            Touches(d, h) \ Taken(d.init, n) \subseteq Lacks("oled_fb", "init", h)
    BY <1>1, <1>2, <1>6 DEF Taken, Things, Acquire, Kinds, Touches, Sources
  <2>2. \A n \in 1 .. 7 : d.door \subseteq Taken(d.init, n) =>
            Touches(d, "file") \subseteq Taken(d.init, n)
    BY <1>1, <1>2 DEF Taken, Things, Acquire, Kinds, Touches
  <2>3. QED
    BY <2>1, <2>2, <1>4, <1>7 DEF InitInOrder, StageInOrder, Code
<1>14. UpInOrder("oled_fb", d)
  BY <1>1, <1>4, <1>5, <1>7, <1>6 DEF UpInOrder, StageInOrder, Touches, Code, Sources
<1>15. FailedInOrder("oled_fb", d)
  BY <1>2, <1>4 DEF FailedInOrder, FailsAt, KeepsError
<1>16. ExitInOrder("oled_fb", d)
  BY <1>1, <1>2, <1>3, <1>4, <1>5, <1>6
  DEF ExitInOrder, Left, Returned, Touches, Sources
<1>17. GoneInOrder("oled_fb", d)
  <2>1. Returned(d, 3) = {"fb", "dc"}
    BY <1>3 DEF Returned
  <2>2. Left(d, 3) = {"info", "screen", "data", "thread"}
    BY <2>1, <1>4, <1>5 DEF Left
  <2>3. QED
    BY <2>2, <1>1, <1>4, <1>6 DEF GoneInOrder, Touches, Sources, DriverLoad!Leaked
<1>18. TimersInOrder("oled_fb", d)
  BY <1>1, <1>2, <1>3, <1>6, <1>4, <1>7 DEF TimersInOrder, Timers, Returned
<1>19. QED
  BY <1>12, <1>13, <1>14, <1>15, <1>16, <1>17, <1>18, Zenon DEF InOrder, d

\* So is every driver.
LEMMA DriversInOrder == AllInOrder
<1> SUFFICES ASSUME NEW m \in DOMAIN DriverLoad!Drivers
             PROVE  InOrder(m, DriverLoad!Drivers[m])
  BY DEF AllInOrder
<1>1. m \in {"template", "sr501", "sr501_t", "sr04", "sr04_i", "sr04_u", "sr04_b", "irda",
             "dht11_t", "dht11", "ds18b20", "ds18b20_t", "hs0038", "hs0038_c", "motor",
             "motor_t", "a4988", "led", "oled", "oled_fb"}
  BY DEF DriverLoad!Drivers
<1>2. CASE m = "template"
  BY <1>2, TemplateInOrder DEF DriverLoad!Drivers
<1>3. CASE m \in {"sr501", "sr501_t"}
  BY <1>3, Sr501InOrder DEF DriverLoad!Drivers, DriverLoad!TemplateSr501
<1>4. CASE m \in {"sr04", "sr04_i"}
  BY <1>4, Sr04InOrder DEF DriverLoad!Drivers, DriverLoad!ImprovedSr04
<1>5. CASE m = "sr04_u"
  BY <1>5, UntimedSr04InOrder DEF DriverLoad!Drivers
<1>6. CASE m = "sr04_b"
  BY <1>6, BenchSr04InOrder DEF DriverLoad!Drivers
<1>7. CASE m = "irda"
  BY <1>7, IrdaInOrder DEF DriverLoad!Drivers
<1>8. CASE m \in {"dht11_t", "dht11"}
  BY <1>8, RingDht11InOrder, FlagsDht11InOrder DEF DriverLoad!Drivers
<1>9. CASE m \in {"ds18b20", "ds18b20_t"}
  BY <1>9, Ds18b20InOrder DEF DriverLoad!Drivers, DriverLoad!TemplateDs18b20
<1>10. CASE m = "hs0038"
  BY <1>10, InputHs0038InOrder DEF DriverLoad!Drivers
<1>11. CASE m = "hs0038_c"
  BY <1>11, CharHs0038InOrder DEF DriverLoad!Drivers
<1>12. CASE m \in {"motor", "motor_t"}
  BY <1>12, MotorInOrder DEF DriverLoad!Drivers, DriverLoad!TemplateMotor
<1>13. CASE m = "a4988"
  BY <1>13, Stepper4988InOrder DEF DriverLoad!Drivers
<1>14. CASE m = "led"
  BY <1>14, LedInOrder DEF DriverLoad!Drivers
<1>15. CASE m = "oled"
  BY <1>15, OledInOrder DEF DriverLoad!Drivers
<1>16. CASE m = "oled_fb"
  BY <1>16, OledFramebufferInOrder DEF DriverLoad!Drivers
<1>17. QED
  BY <1>1, <1>2, <1>3, <1>4, <1>5, <1>6, <1>7, <1>8, <1>9, <1>10, <1>11, <1>12, <1>13,
     <1>14, <1>15, <1>16

\* What a driver holds follows from the steps it made, whatever fails, whoever opens
\* it and whichever handler runs meanwhile.
THEOREM LoadInvariant == Spec => []LoadInv
<1>1. Init => LoadInv
  BY DriversInOrder, LoadStarts DEF Init, DriverLoad!Drivers
<1>2. LoadInv /\ [Next]_allvars => LoadInv'
  BY DriversInOrder, LoadSteps
<1>3. QED
  BY <1>1, <1>2, PTL DEF Spec

\* No handler of a driver runs without what it touches, whatever calls of init and of
\* processes the kernel refuses, but for that and for the exposures listed.
THEOREM HandlersAreEquipped == Spec => []Equipped
<1>1. LoadInv => Equipped
  BY DriversInOrder, EquippedIs
<1>2. QED
  BY <1>1, LoadInvariant, PTL

\* A module that is unloaded has given back what its init and the calls of processes took,
\* whatever was refused, but for the two that leak.
THEOREM UnloadedIsReturned == Spec => []UnloadedIsGone
<1>1. LoadInv => UnloadedIsGone
  BY DriversInOrder, GoneIs
<1>2. QED
  BY <1>1, LoadInvariant, PTL

===============================================================================
