------------------------------- MODULE GpioKeys -------------------------------
(***************************************************************************)
(* The template driver, drivers/04_template1_gpio_drv/gpio_drv.c, with a   *)
(* button behind a debounce timer, and the motion sensor made from it,     *)
(* drivers/SR501/sr501_drv.c and 05_drivers_from_template1/02_sr501, whose *)
(* interrupt handler reports at once.  A report is the level of the pin in *)
(* bit 8; the field key that should name the button is never set.          *)
(***************************************************************************)
EXTENDS KeyDriver

CONSTANT Delay  \* the debounce time, HZ/5, in ticks

Report(level) == 256 * level

\* The pin, an interrupt that is raised and not yet handled, the ticks since
\* the last edge, and what the last report said; stale once a report was
\* dropped by a full ring.
InitButton == dev = [kind |-> "gpio", pin |-> 0, raised |-> FALSE, quiet |-> Delay,
                     said |-> 0, stale |-> FALSE]

\* The level changes; a second edge before the handler runs raises nothing more.
Edge == /\ dev' = [dev EXCEPT !.pin = 1 - @, !.raised = TRUE, !.quiet = 0]
        /\ UNCHANGED <<ring, timer, reader>>

ReportPin(raised) ==
    /\ Put(Report(dev.pin))
    /\ dev' = [dev EXCEPT !.said = dev.pin, !.raised = raised, !.stale = @ \/ IsFull]
    /\ UNCHANGED reader

-------------------------------------------------------------------------------
\* Template: the timer is added at load with an expiry long past.
InitTemplate == InitRing /\ InitReader /\ InitButton /\ timer = 0

\* Mutant: an edge does not restart a timer that is running.
IsrArmsOnce == /\ dev.raised
               /\ dev' = [dev EXCEPT !.raised = FALSE]
               /\ timer' = IF timer = Off THEN Delay ELSE timer
               /\ UNCHANGED <<ring, reader>>

\* The interrupt handler (re)starts the timer.
Isr == /\ dev.raised
       /\ dev' = [dev EXCEPT !.raised = FALSE]
       /\ timer' = Delay
       /\ UNCHANGED <<ring, reader>>

Tick == /\ timer > 0 /\ ~dev.raised
        /\ timer' = timer - 1
        /\ dev' = [dev EXCEPT !.quiet = IF @ < Delay THEN @ + 1 ELSE @]
        /\ UNCHANGED <<ring, reader>>

\* The timer's handler reads the pin when it runs, not when the edge came; an
\* edge just before it is reported now and starts the timer again.
Expire == timer = 0 /\ timer' = Off /\ ReportPin(dev.raised)

TemplateNext == Edge \/ Isr \/ Tick \/ Expire \/ Read(1)

-------------------------------------------------------------------------------
\* Motion sensor: the same without a timer.
InitMotion == InitRing /\ InitReader /\ InitButton /\ timer = Off

MotionIsr == dev.raised /\ ReportPin(FALSE) /\ UNCHANGED timer

Sr501Next == Edge \/ MotionIsr \/ Read(1)
TemplateSr501Next == Sr501Next

-------------------------------------------------------------------------------
\* Once nothing is pending, what was reported last is the level of the pin, so
\* a program that follows the reports ends with the true state, whatever bounced;
\* and the debounced button reports only after Delay ticks without an edge
\* (except for the report its timer makes when the driver is loaded).
SettledReport ==
    /\ []( dev.kind = "gpio" /\ timer = Off /\ ~dev.raised /\ ~dev.stale => dev.said = dev.pin )
    /\ [][ dev.kind = "gpio" /\ timer = 0 /\ timer' = Off /\ ~dev.raised => dev.quiet >= Delay ]_vars

===============================================================================
