--------------------------------- MODULE Irda ---------------------------------
(***************************************************************************)
(* drivers/05_drivers_from_template1/08_irda/gpio_drv.c: the infrared      *)
(* receiver made from the template.  The handler stores the time of every  *)
(* edge; when it has as many as a frame it parses them, and 100 ms after   *)
(* the last edge a timer starts anew.  A result is a pair: the bytes of    *)
(* the remote and of the key, or twice -1.                                 *)
(*                                                                         *)
(* A burst of light is a frame, the repeat code that follows while the key *)
(* is held, or noise.  The bits of a frame are abstracted: the parse       *)
(* succeeds if the stored edges are those of one frame, in order from its  *)
(* first, but for the last, which it does not look at; a shifted one fails *)
(* the test of its leader or its complements.                              *)
(***************************************************************************)
EXTENDS KeyDriver

CONSTANTS FRAME,        \* edges of a frame, 68 (more than the 4 of a repeat code)
          MaxBursts,    \* bound of the model: bursts of light
          MaxMissed     \* bound of the model: edges lost

Error == <<255, 255>>   \* (unsigned char)-1
Code == <<1, 2>>

EdgesOf == [frame |-> FRAME, repeat |-> 4, noise |-> 1]

\* g_irda_irq_cnt, and whether the stored edges are the first ones of a frame;
\* the burst that arrives and how many of its edges have; whether it is a frame
\* that started after a silence and lost no edge, and was then reported; whether
\* the timer's handler has been started and is yet to reset the count; whether the
\* ring has dropped one byte of a pair.
InitIrda == /\ InitRing /\ InitReader /\ timer = Off
            /\ dev = [kind |-> "irda", cnt |-> 0, fits |-> TRUE, burst |-> "noise", edge |-> 1,
                      clean |-> FALSE, heard |-> FALSE, fired |-> FALSE,
                      lost |-> 0, bursts |-> 0, broken |-> FALSE]

Between == dev.edge = EdgesOf[dev.burst]

\* A burst starts; timer = Off says that the light has been out for 100 ms.
BurstStarts == /\ Between /\ dev.bursts < MaxBursts
               /\ \E burst \in DOMAIN EdgesOf :
                      dev' = [dev EXCEPT !.burst = burst, !.edge = 0, !.bursts = @ + 1,
                                         !.heard = FALSE, !.clean = burst = "frame" /\ timer = Off]
               /\ UNCHANGED <<ring, timer, reader>>

Lose == /\ ~Between /\ dev.lost < MaxMissed
        /\ dev' = [dev EXCEPT !.edge = @ + 1, !.clean = FALSE, !.lost = @ + 1]
        /\ UNCHANGED <<ring, timer, reader>>

\* The edges stored so far are those of one frame, and so is this one.
Fits == (dev.cnt = 0 \/ dev.fits) /\ dev.burst = "frame" /\ dev.edge = dev.cnt

\* Mutant: a frame that is not understood is reported by one byte.
ParseShortError(good) == IF good THEN PutPair(Code[1], Code[2]) ELSE Put(Error[1])

\* parse_irda_datas
Parse(good) == IF good THEN PutPair(Code[1], Code[2]) ELSE PutPair(Error[1], Error[2])

\* A pair of which only the first byte finds a place.
Splits == NoRoomFor(2) /\ ~NoRoomFor(1)

\* gpio_key_isr, for the last edge of a frame and for any other.
LastEdge == /\ dev.cnt + 1 = FRAME
            /\ Parse(dev.fits)
            /\ dev' = [dev EXCEPT !.cnt = 0, !.edge = @ + 1, !.fits = TRUE,
                                  !.clean = @ /\ ~dev.fired, !.heard = dev.fits,
                                  !.broken = @ \/ Splits]

OtherEdge == /\ dev.cnt + 1 < FRAME
             /\ dev' = [dev EXCEPT !.cnt = @ + 1, !.edge = @ + 1, !.fits = Fits,
                                   !.clean = @ /\ ~dev.fired]
             /\ UNCHANGED ring

\* Either way the timer is started again.  The interrupt also comes while the timer's
\* handler is about to reset the count, and then the edge is lost.
Edge == ~Between /\ timer' = 0 /\ (LastEdge \/ OtherEdge) /\ UNCHANGED reader

\* No edge for 100 ms, which no burst has within it: the softirq is started.
Expire == /\ timer = 0 /\ Between /\ ~dev.fired
          /\ timer' = Off
          /\ dev' = [dev EXCEPT !.fired = TRUE]
          /\ UNCHANGED <<ring, reader>>

\* Mutant: the timer's handler keeps the edges.
HandlerKeeps == /\ dev.fired
                /\ PutPair(Error[1], Error[2])
                /\ dev' = [dev EXCEPT !.fired = FALSE, !.broken = @ \/ Splits]
                /\ UNCHANGED <<timer, reader>>

\* key_timer_expire.  Once it has reset the count it is as good as atomic: it would
\* take the edges of a whole frame before the interrupt's handler used the ring.
HandleTimeout == /\ dev.fired
                 /\ PutPair(Error[1], Error[2])
                 /\ dev' = [dev EXCEPT !.fired = FALSE, !.cnt = 0, !.fits = TRUE,
                                       !.broken = @ \/ Splits]
                 /\ UNCHANGED <<timer, reader>>

\* The process does not run before the softirq is done.
IrdaRead == ~dev.fired /\ Read(2)

IrdaNext == BurstStarts \/ Edge \/ Lose \/ Expire \/ HandleTimeout \/ IrdaRead

-------------------------------------------------------------------------------
Whole(bytes) == /\ Len(bytes) % 2 = 0
                /\ \A i \in 1 .. Len(bytes) \div 2 :
                       <<bytes[2 * i - 1], bytes[2 * i]>> \in {Code, Error}

\* The bytes got and the bytes in the ring always make whole pairs, so no read
\* takes the key of one press for the remote of another; a full ring drops a pair
\* whole.  It ends when the ring has one place left for a pair, which happens as
\* the number of its places is odd, or when a signal sends a read on while the ring
\* is empty.
PairsWhole ==
    dev.kind = "irda" /\ ~dev.broken /\ ~reader.cut
        => Whole((IF reader.pc = "bump" THEN SubSeq(reader.keys, 1, Len(reader.keys) - 1)
                  ELSE reader.keys) \o Content)

\* A key pressed after the timer has ended a silence is reported, whatever was lost
\* or added to the light before: nothing of that is left in the count.  But for a
\* frame whose first edge comes between the timer's expiry and the reset of the
\* count: it is stored and wiped, and clean is no longer true.
PressHeard == dev.kind = "irda" /\ Between /\ dev.clean => dev.heard

===============================================================================
