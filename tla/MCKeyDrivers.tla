------------------------------ MODULE MCKeyDrivers ------------------------------
(***************************************************************************)
(* The drivers made from the template, on small instances: a behaviour     *)
(* loads one of them and runs it with its sensor and one reading process.  *)
(* The modules share the variables of KeyDriver, so that one run checks    *)
(* them all without the product of their states.                           *)
(***************************************************************************)
EXTENDS KeyDriver

CONSTANTS Delay, MaxPing, MaxLost, FRAME, MaxBursts, MaxMissed, MaxReading

ASSUME FrameAssumption == FRAME \in Nat /\ FRAME > 4

VARIABLE drv    \* the driver that is loaded

GpioKeys == INSTANCE GpioKeys
Sr04 == INSTANCE Sr04
Irda == INSTANCE Irda
Dht11 == INSTANCE Dht11

\* What the handlers put: a level, a time or its timeout, a byte, a measurement.
Reported == {GpioKeys!Report(0), GpioKeys!Report(1), Sr04!Timeout}
                \cup {Sr04!PING * n + Sr04!ECHO : n \in 0 .. MaxPing - 1}
                \cup {1, 2, 255} \cup 1 .. MaxReading

ASSUME KeyAssumption == Reported \subseteq Key

ASSUME BoundAssumption == {Delay, MaxPing, MaxLost, MaxBursts, MaxMissed, MaxReading} \subseteq Nat

MCKey == {-1, 0, 1, 2, 3, 13, 23, 255, 256}

Init == \/ drv = "template" /\ GpioKeys!InitTemplate
        \/ drv = "sr501" /\ GpioKeys!InitMotion
        \/ drv \in {"sr04", "sr04untimed", "bench"} /\ Sr04!InitSr04
        \/ drv = "irda" /\ Irda!InitIrda
        \/ drv \in {"dht11", "dht11ring"} /\ Dht11!InitDht11(drv)

\* Each file's driver is one disjunct of its family's.
Template == drv = "template" /\ GpioKeys!TemplateNext
Sr501 == drv = "sr501" /\ GpioKeys!Sr501Next
Sr04Timed == drv = "sr04" /\ Sr04!Sr04Next
Sr04Untimed == drv = "sr04untimed" /\ Sr04!Sr04UntimedNext
Bench == drv = "bench" /\ Sr04!BenchNext
IrdaLoaded == drv = "irda" /\ Irda!IrdaNext
Dht11Ring == drv = "dht11ring" /\ Dht11!RingDht11Next
Dht11Flags == drv = "dht11" /\ Dht11!FlagsDht11Next

Next == /\ \/ Template \/ Sr501 \/ Sr04Timed \/ Sr04Untimed \/ Bench
           \/ IrdaLoaded \/ Dht11Ring \/ Dht11Flags
        /\ UNCHANGED drv

allvars == <<vars, drv>>

\* A started handler and an expired timer run, and so does a process that can.
Sr04Goes == /\ drv = "sr04" /\ UNCHANGED drv
            /\ Sr04!Expire \/ Sr04!PutTimeout
Sr04Reads == drv = "sr04" /\ UNCHANGED drv /\ ReadGoesOn(1)
Dht11Goes == drv \in {"dht11", "dht11ring"} /\ UNCHANGED drv /\ Dht11!Expire
Dht11Reads == UNCHANGED drv /\ \/ drv = "dht11" /\ Dht11!FlagsReturn
                               \/ drv = "dht11ring" /\ Dht11!RingReturns
Dht11Sends == /\ drv \in {"dht11", "dht11ring"} /\ UNCHANGED drv
              /\ Dht11!Answer \/ Dht11!Missed

Fairness == /\ WF_allvars(Sr04Goes) /\ WF_allvars(Sr04Reads)
            /\ WF_allvars(Dht11Goes) /\ WF_allvars(Dht11Reads) /\ WF_allvars(Dht11Sends)

Spec == Init /\ [][Next]_allvars /\ Fairness

SettledReport == GpioKeys!SettledReport
TrueEcho == Sr04!TrueEcho
PairsWhole == Irda!PairsWhole
PressHeard == Irda!PressHeard
FreshAnswer == Dht11!FreshAnswer

\* With the drivers that have a timeout, a read that waits while the timer is
\* armed or the answer is there returns: the handler that stops the timer always
\* leaves an answer, and no answer is lost on the way to the sleeping process.
ReadReturns ==
    drv \in {"sr04", "dht11", "dht11ring"} /\ reader.pc = "wait"
        /\ (timer # Off \/ ring.at # None \/ ~IsEmpty)
    ~> reader.pc = "user"

===============================================================================
