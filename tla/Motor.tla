-------------------------------- MODULE Motor ---------------------------------
(***************************************************************************)
(* The stepper motors: drivers/motor/motor_drv.c and its copy with another *)
(* table, drivers/05_drivers_from_template1/05_motor/motor_drv.c, which    *)
(* switch four coils themselves, and drivers/4988/4988_drv.c, which sends  *)
(* pulses to a driver chip.  One process writes.  The delays between the   *)
(* steps are long enough for the rotor, and a write of another size than   *)
(* the driver's changes nothing.                                           *)
(***************************************************************************)
EXTENDS Integers, Sequences

CONSTANTS MaxSteps, \* steps of one write, at most
          MaxTurn   \* the rotor is not sent further than this

VARIABLE motor  \* drv; index: g_motor_index; todo and dir: what the write has left to do;
                \* high: the step pin of the 4988; rotor: the coils it stands at;
                \* pos: the steps it made; asked: those it was sent; lost: it slipped

None == {}

\* The coils of a pattern are its bits.
Coils(pattern) == {i \in 0 .. 3 : (pattern \div 2^i) % 2 = 1}

g_motor_pin_ctrl == <<4, 12, 8, 9, 1, 3, 2, 6>>
TemplatePinCtrl == <<2, 3, 1, 9, 8, 12, 4, 6>>

Pattern(index) == Coils(IF motor.drv = "motor" THEN g_motor_pin_ctrl[index + 1]
                        ELSE TemplatePinCtrl[index + 1])

\* The rotor: around it the coils follow one another as 2, 3, 0, 1, and it can
\* stand at one or between two.
Around == <<{2}, {2, 3}, {3}, {3, 0}, {0}, {0, 1}, {1}, {1, 2}>>
Angle(coils) == CHOOSE a \in 1 .. 8 : Around[a] = coils

\* New coils turn it by a half step; from further away it may go either way.
Follows(coils) ==
    LET by == (Angle(coils) - Angle(motor.rotor)) % 8
    IN  IF motor.rotor = None THEN [motor EXCEPT !.rotor = coils]
        ELSE CASE by = 0 -> motor
               [] by = 1 -> [motor EXCEPT !.rotor = coils, !.pos = @ + 1]
               [] by = 7 -> [motor EXCEPT !.rotor = coils, !.pos = @ - 1]
               [] OTHER -> [motor EXCEPT !.rotor = coils, !.lost = TRUE]

InitMotor(drv) == motor = [drv |-> drv, index |-> 0, todo |-> 0, dir |-> 0, high |-> FALSE,
                           rotor |-> None, pos |-> 0, asked |-> 0, lost |-> FALSE]

Abs(n) == IF n < 0 THEN -n ELSE n

-------------------------------------------------------------------------------
\* The coils.  A positive count lowers the index; the two tables run around the
\* rotor in opposite ways.

Sense == IF motor.drv = "motor" THEN 1 ELSE -1

Write(n) == /\ motor.todo = 0 /\ motor.dir = 0
            /\ LET dir == IF n > 0 THEN -1 ELSE 1
               IN  motor' = [motor EXCEPT !.todo = Abs(n), !.dir = dir,
                                          !.asked = @ + dir * Sense * Abs(n)]

\* Mutant: the index wraps one pattern too soon.
TurnShort(index, dir) == IF index + dir = -1 THEN 7 ELSE IF index + dir > 6 THEN 0 ELSE index + dir

Turn(index, dir) == IF index + dir = -1 THEN 7 ELSE IF index + dir = 8 THEN 0 ELSE index + dir

\* The pattern at the index, and then the index moves on: after a change of
\* direction the first pattern is still one further in the old one.
Step == /\ motor.todo > 0
        /\ motor' = [Follows(Pattern(motor.index)) EXCEPT
                         !.index = Turn(@, motor.dir), !.todo = @ - 1]

\* disable_motor: no coil holds the rotor, which stays where it is.
Return == /\ motor.todo = 0 /\ motor.dir # 0
          /\ motor' = [motor EXCEPT !.dir = 0]

MotorNext == \/ \E n \in -MaxSteps .. MaxSteps : Abs(motor.asked) + Abs(n) <= MaxTurn /\ Write(n)
             \/ Step \/ Return

TemplateMotorNext == MotorNext

-------------------------------------------------------------------------------
\* The 4988 makes one step at each rising edge, in the direction of its pin.

\* A count that is not positive does nothing.
Write4988(n, dir) == /\ motor.todo = 0
                     /\ motor' = IF n <= 0 THEN motor
                                 ELSE [motor EXCEPT !.todo = n, !.dir = IF dir = 0 THEN -1 ELSE 1,
                                                    !.asked = @ + (IF dir = 0 THEN -n ELSE n)]

Rise == /\ motor.todo > 0 /\ ~motor.high
        /\ motor' = [motor EXCEPT !.high = TRUE, !.pos = @ + motor.dir]

Fall == /\ motor.high
        /\ motor' = [motor EXCEPT !.high = FALSE, !.todo = @ - 1]

Next4988 == \/ \E n \in -1 .. MaxSteps, dir \in {0, 1} :
                   Abs(motor.asked) + n <= MaxTurn /\ Write4988(n, dir)
            \/ Rise \/ Fall

-------------------------------------------------------------------------------
\* The rotor never slips: every pattern a write sets, the first after another
\* write and across the ends of the table included, is next to the coils where the
\* rotor stands.  So between writes it is at most one half step from where the
\* writes so far have sent it, and at that place exactly behind the 4988.
StepsKept ==
    /\ ~motor.lost
    /\ motor.todo = 0 =>
           Abs(motor.pos - motor.asked) <= (IF motor.drv = "a4988" THEN 0 ELSE 1)

===============================================================================
