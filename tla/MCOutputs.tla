------------------------------- MODULE MCOutputs -------------------------------
(***************************************************************************)
(* Loading the drivers, the motors, the OLED as a character device, and    *)
(* the way from a page of tiny_tv to the OLED's glass, on small instances: *)
(* a behaviour is one of the four, the others stay as they start.          *)
(***************************************************************************)
EXTENDS Screen, OledChar

CONSTANTS MaxSteps, MaxTurn

ASSUME TurnAssumption == MaxSteps \in Nat /\ MaxTurn \in Nat

VARIABLES part, mod, motor

DriverLoad == INSTANCE DriverLoad
Motor == INSTANCE Motor

allvars == <<part, mod, motor, oled, app, fb, thread>>

Glyph(width, rows) == [left |-> 0, top |-> rows, width |-> width, rows |-> rows,
                       advance |-> width + 1,
                       ink |-> {<<0, 0>>, <<0, rows - 1>>, <<width - 1, rows - 1>>}]

\* Two sizes of two characters.
MCFace == <<[A |-> Glyph(2, 2), B |-> Glyph(1, 2)], [A |-> Glyph(2, 3), B |-> Glyph(2, 2)]>>
MCTexts == {[str |-> <<"A", "B">>, region |-> <<0, 0, 4, 2>>, size |-> 0]}

\* A rectangle that crosses a byte, and ends with the last pixel of the screen.
MCRegions == {<<1, 2, 3, 2>>}

MCDatas == {<<7>>, <<1, 2, 3>>}

Init == /\ part \in {"load", "motor", "char", "screen"}
        /\ IF part = "load" THEN \E d \in DOMAIN DriverLoad!Drivers : DriverLoad!InitMod(d)
           ELSE DriverLoad!InitMod("led")
        /\ IF part = "motor" THEN \E d \in {"motor", "motor_t", "a4988"} : Motor!InitMotor(d)
           ELSE Motor!InitMotor("motor")
        /\ InitOled(5)
        /\ InitScreen("start", 0) \/ (part = "screen" /\ InitScreen("ascii", 1))

Load == part = "load" /\ DriverLoad!Next
Coils == part = "motor" /\ motor.drv = "motor" /\ Motor!MotorNext
TemplateCoils == part = "motor" /\ motor.drv = "motor_t" /\ Motor!TemplateMotorNext
Stepper4988 == part = "motor" /\ motor.drv = "a4988" /\ Motor!Next4988
Char == part = "char" /\ OledNext
ScreenGoes == part = "screen" /\ ScreenNext

Next == /\ UNCHANGED part
        /\ \/ Load /\ UNCHANGED <<motor, oled, screen>>
           \/ Coils /\ UNCHANGED <<mod, oled, screen>>
           \/ TemplateCoils /\ UNCHANGED <<mod, oled, screen>>
           \/ Stepper4988 /\ UNCHANGED <<mod, oled, screen>>
           \/ Char /\ UNCHANGED <<mod, motor, screen>>
           \/ ScreenGoes /\ UNCHANGED <<mod, motor, oled>>

Others == <<part, mod, motor, oled>>

\* A process in the middle of its work goes on, and so does the driver's thread.
Fairness == /\ WF_allvars(part = "screen" /\ AppGoesOn /\ UNCHANGED Others)
            /\ WF_allvars(part = "screen" /\ oled_thread /\ UNCHANGED Others)

Spec == Init /\ [][Next]_allvars /\ Fairness

Equipped == DriverLoad!Equipped
UnloadedIsGone == DriverLoad!UnloadedIsGone
StepsKept == Motor!StepsKept

===============================================================================
