--------------------------------- MODULE Sr04 ---------------------------------
(***************************************************************************)
(* The ultrasonic range drivers: drivers/SR04/sr04_drv.c and its copy      *)
(* 05_drivers_from_template1/04_sr04_improve, where a timer answers for an *)
(* echo that does not come; 03_sr04, which has no timer; and               *)
(* drivers/test_drv/sr04_drv.c, whose interrupt handler only prints.       *)
(*                                                                         *)
(* ioctl triggers a ping; the sensor raises the echo pin and lowers it     *)
(* again when the echo is back.  Either edge may be lost.  The clock moves *)
(* from PING to the next PING with each ping, and an echo takes ECHO.      *)
(***************************************************************************)
EXTENDS KeyDriver

CONSTANTS MaxPing,  \* bound of the model: pings of the sensor
          MaxLost   \* bound of the model: edges lost

PING == 10
ECHO == 3
Timeout == -1

\* The sensor: pings so far, waiting for a ping, pinging or hearing nothing
\* yet ("sent"), or the echo pin is up.  The driver: rising_time.
InitSensor == dev = [kind |-> "sr04", ping |-> 0, phase |-> "idle", rising |-> 0,
                           lost |-> 0]

InitSr04 == InitRing /\ InitReader /\ InitSensor /\ timer = Off

\* The sensor gets its pulse; one that is still busy does not notice.
Ping == IF dev.phase = "idle" /\ dev.ping < MaxPing
        THEN [dev EXCEPT !.ping = @ + 1, !.phase = "sent"] ELSE dev

\* Losing an edge: the level changes and no interrupt handler runs.
Lose(phase) == /\ dev.lost < MaxLost
               /\ dev' = [dev EXCEPT !.phase = phase, !.lost = @ + 1]
               /\ UNCHANGED <<ring, timer, reader>>

-------------------------------------------------------------------------------
\* ioctl(CMD_TRIG) pulses the trigger pin, and then, as the process may be
\* interrupted in between, starts the timer for 50 ms.
Pulse == /\ At("user")
         /\ reader' = [reader EXCEPT !.pc = "arm"]
         /\ dev' = Ping
         /\ UNCHANGED <<ring, timer>>

Arm == /\ At("arm")
       /\ timer' = 0
       /\ reader' = [reader EXCEPT !.pc = "user"]
       /\ UNCHANGED <<ring, dev>>

\* The rising edge: its time is noted.
EchoRises == /\ dev.phase = "sent"
             /\ \/ /\ dev' = [dev EXCEPT !.phase = "high", !.rising = PING * dev.ping]
                   /\ UNCHANGED <<ring, timer, reader>>
                \/ Lose("high")

\* Nothing comes back and the sensor gives up.
NoEcho == /\ dev.phase = "sent"
          /\ dev' = [dev EXCEPT !.phase = "idle"]
          /\ UNCHANGED <<ring, timer, reader>>

\* Mutant: the timer is stopped even when the rising edge is missing.
MissedRiseStops == /\ dev.rising = 0
                   /\ dev' = [dev EXCEPT !.phase = "idle"]
                   /\ timer' = Off
                   /\ UNCHANGED <<ring, reader>>

\* The falling edge without a rising one is ignored.
MissedRise == /\ dev.rising = 0
              /\ dev' = [dev EXCEPT !.phase = "idle"]
              /\ UNCHANGED <<ring, timer, reader>>

\* Mutant: rising_time keeps its value.
MeasureKeepsRise == /\ dev.rising # 0
                    /\ Put(PING * dev.ping + ECHO - dev.rising)
                    /\ dev' = [dev EXCEPT !.phase = "idle"]
                    /\ UNCHANGED reader

\* The falling edge: the time since the rising one is put.
Measure == /\ dev.rising # 0
           /\ Put(PING * dev.ping + ECHO - dev.rising)
           /\ dev' = [dev EXCEPT !.phase = "idle", !.rising = 0]
           /\ UNCHANGED reader

\* del_timer has no effect on a handler that has already been started.
EchoFalls == /\ dev.phase = "high"
             /\ MissedRise \/ (Measure /\ timer' = Off) \/ Lose("idle")

\* The timer's handler puts -1.  It has found room and has not written yet
\* when the echo's interrupt comes.
Expire == /\ timer = 0 /\ ring.at = None
          /\ timer' = Off
          /\ ring' = IF IsFull THEN ring ELSE [ring EXCEPT !.at = ring.w]
          /\ UNCHANGED <<reader, dev>>

PutTimeout == /\ ring.at # None
              /\ ring' = [Stored(Timeout, ring.at) EXCEPT !.at = None]
              /\ UNCHANGED <<timer, reader, dev>>

SensorSteps == EchoRises \/ NoEcho \/ EchoFalls

Sr04Next == Pulse \/ Arm \/ SensorSteps \/ Expire \/ PutTimeout \/ Read(1)
ImproveNext == Sr04Next

-------------------------------------------------------------------------------
\* 03_sr04: ioctl only pulses the pin.
PulseOnly == /\ At("user") /\ dev' = Ping
             /\ UNCHANGED <<ring, timer, reader>>

Sr04UntimedNext == PulseOnly \/ SensorSteps \/ Read(1)

\* test_drv: ioctl drives the echo pin, and the interrupt handler, on the
\* other pin, puts nothing.
BenchNext == Read(1)

-------------------------------------------------------------------------------
\* Every time in the ring, or got by a read, is the time of one echo: with at
\* most one edge lost, the two edges it was computed from are of the same ping.
TrueEcho ==
    dev.kind = "sr04" /\ dev.lost < 2
        => \A key \in {Content[i] : i \in DOMAIN Content} \cup {reader.got} :
               key \in {ECHO, Timeout, 0}

===============================================================================
