--------------------------------- MODULE Dht11 ---------------------------------
(***************************************************************************)
(* The temperature and humidity drivers: drivers/DHT11/DHT11_drv.c, which  *)
(* answers through global variables, and 05_drivers_from_template1/        *)
(* 06_dht11/gpio_drv.c, which answers through the template's ring.  A read *)
(* pulls the pin low to start the sensor, requests the interrupt, starts   *)
(* the timer and waits; the answer is parsed at the 84th edge, or when the *)
(* timer expires from the edges there are.                                 *)
(*                                                                         *)
(* A measurement is a number that grows with every one.  The ring's driver *)
(* puts two bytes of it, here the same number twice.                       *)
(***************************************************************************)
EXTENDS KeyDriver

CONSTANT MaxReading  \* bound of the model: measurements of the sensor

EDGES == 84     \* edges after which the handler parses
ENOUGH == 81    \* edges that hold all data
Error == -1

Garbled == -2   \* bytes whose sum does not match

\* Edges counted, whether the interrupt is requested, the sensor's measurement
\* and whether it is about to send it, what the driver's edge times say; for
\* DHT11_drv.c also val, g_flag and g_isr_flag.  good is what the read that is
\* running should return.
InitDht11(kind) ==
    /\ InitRing /\ InitReader /\ timer = Off
    /\ dev = [kind |-> kind, cnt |-> 0, irq |-> FALSE, reading |-> 0, sends |-> FALSE,
              times |-> Garbled, val |-> 0, flag |-> 0, done |-> FALSE, good |-> Error]

\* The pulse that starts the sensor, if there is one and it notices.
Pulse(cnt) ==
    /\ At("user")
    /\ reader' = [reader EXCEPT !.pc = "listen", !.keys = <<>>]
    /\ \E answers \in BOOLEAN :
           /\ answers => dev.reading < MaxReading
           /\ dev' = [dev EXCEPT !.cnt = cnt, !.sends = answers, !.good = Error,
                                 !.reading = IF answers THEN @ + 1 ELSE @]
    /\ UNCHANGED <<ring, timer>>

Listen == /\ At("listen")
          /\ reader' = [reader EXCEPT !.pc = "wait"]
          /\ dev' = [dev EXCEPT !.irq = TRUE]
          /\ timer' = 0
          /\ UNCHANGED ring

\* The driver once n edges of the sensor's answer are counted; with enough of
\* them the bits are right, or garbled if the lost edges are in the middle.
Told(n, times) ==
    [dev EXCEPT !.cnt = @ + n, !.sends = FALSE, !.times = times,
                !.good = IF n < ENOUGH \/ times = Garbled THEN Error ELSE times]

\* 06_dht11: parse_dht11_datas puts the measurement, or an error, into the ring.
ParseToRing(d) == /\ IF d.cnt < ENOUGH \/ d.times = Garbled THEN PutPair(Error, Error)
                     ELSE PutPair(d.times, d.times)
                  /\ dev' = [d EXCEPT !.cnt = 0]

\* DHT11_drv.c: DHT11_anasys_data fills val, sets g_flag on too few edges, and
\* g_isr_flag to wake the reader.
ParseToFlags(d) == /\ dev' = [d EXCEPT !.done = TRUE,
                                       !.flag = IF d.cnt < ENOUGH THEN -1 ELSE @,
                                       !.val = IF d.cnt < ENOUGH THEN @ ELSE d.times]
                   /\ UNCHANGED ring

Parse(d) == IF d.kind = "dht11ring" THEN ParseToRing(d) ELSE ParseToFlags(d)

\* The sensor sends its answer, a matter of a few milliseconds.
Answer ==
    /\ dev.sends /\ dev.irq /\ UNCHANGED reader
    /\ \E n \in {ENOUGH - 1, ENOUGH, EDGES}, times \in {dev.reading, Garbled} :
           IF n = EDGES THEN Parse(Told(n, times)) /\ timer' = Off
           ELSE dev' = Told(n, times) /\ UNCHANGED <<ring, timer>>

\* Nobody listens, before request_irq or after free_irq.
Missed == /\ dev.sends /\ ~dev.irq
          /\ dev' = [dev EXCEPT !.sends = FALSE]
          /\ UNCHANGED <<ring, timer, reader>>

\* 100 ms after Listen the answer is over; a timer that an earlier read has left
\* behind can only expire before Listen starts it again.
Expire == /\ timer = 0 /\ (dev.sends => At("listen"))
          /\ timer' = Off
          /\ Parse(dev)
          /\ UNCHANGED reader

-------------------------------------------------------------------------------
\* 06_dht11.

\* The wait is over: the interrupt is given back before the keys are got.
FreeIrq == /\ At("fetch") /\ dev.irq
           /\ dev' = [dev EXCEPT !.irq = FALSE]
           /\ UNCHANGED <<ring, timer, reader>>

RingReturns == Wake \/ FreeIrq \/ (~dev.irq /\ GetKeys(2))
RingDht11Next == Pulse(0) \/ Listen \/ Answer \/ Missed \/ Expire \/ Signal \/ RingReturns

-------------------------------------------------------------------------------
\* DHT11_drv.c: g_isr_flag wakes the reader.
FlagsWake == /\ At("wait") /\ dev.done
             /\ reader' = [reader EXCEPT !.pc = "end"]
             /\ UNCHANGED <<ring, timer, dev>>

FlagsSignal == /\ At("wait") /\ ~dev.done
               /\ reader' = [reader EXCEPT !.pc = "end", !.cut = TRUE]
               /\ UNCHANGED <<ring, timer, dev>>

\* Mutant: the flag that wakes the reader is not reset.
EndKeepsDone == /\ At("end")
                /\ reader' = [reader EXCEPT !.pc = "copy"]
                /\ dev' = [dev EXCEPT !.irq = FALSE, !.cnt = 0]
                /\ UNCHANGED <<ring, timer>>

\* DHT11_end
End == /\ At("end")
       /\ reader' = [reader EXCEPT !.pc = "copy"]
       /\ dev' = [dev EXCEPT !.irq = FALSE, !.done = FALSE, !.cnt = 0]
       /\ UNCHANGED <<ring, timer>>

\* val is returned unless g_flag is set or its sum is wrong.
Copy == /\ At("copy")
        /\ LET key == IF dev.flag # 0 \/ dev.val = Garbled THEN Error ELSE dev.val
           IN  reader' = [reader EXCEPT !.pc = "user", !.keys = <<key, key>>]
        /\ dev' = [dev EXCEPT !.flag = 0]
        /\ UNCHANGED <<ring, timer>>

FlagsReturn == FlagsWake \/ End \/ Copy
FlagsDht11Next == \/ Pulse(dev.cnt) \/ Listen \/ Answer \/ Missed \/ Expire
                  \/ FlagsSignal \/ FlagsReturn

-------------------------------------------------------------------------------
\* As long as no read was cut short by a signal, a read returns the measurement
\* the sensor sent during this very read, and an error if it did not arrive
\* whole: never what an earlier read left in the ring, in val or in the flags.
FreshAnswer == dev.kind \in {"dht11", "dht11ring"} /\ reader.pc = "user" /\ ~reader.cut
               /\ reader.keys # <<>>
                   => reader.keys = <<dev.good, dev.good>>

===============================================================================
