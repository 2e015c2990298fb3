-------------------------------- MODULE Hs0038 --------------------------------
(***************************************************************************)
(* drivers/hs0038_input/hs0038_drv.c and its predecessor in                *)
(* hs0038_parse_data_ok: the infrared receiver.  The interrupt handler     *)
(* notes the time of every edge, starts anew after a gap of 30 ms, and     *)
(* tries to understand what it has after each edge: the four edges of a    *)
(* repeat code, or the 68 of a frame.                                      *)
(*                                                                         *)
(* Times are in units of 100 us.  What is stored is, for each edge, the    *)
(* time since the one before it.  A frame is a silence, the leader, the    *)
(* bits of four bytes of which two are the complements of the others, and  *)
(* a stop bit.  The light may lose edges on its way and noise may add one. *)
(***************************************************************************)
EXTENDS Integers, Sequences

CONSTANTS BITS,         \* bits of a byte, 8
          SLOTS,        \* slots of the ring of codes, 8
          Codes,        \* what the keys send: pairs of bytes, each [0 .. BITS-1 -> {0, 1}]
          MaxBursts, MaxDamage     \* bounds of the model: bursts, edges lost or added

VARIABLES
    wire,       \* the light: the burst on its way, its code and how much of it has come
    dev,        \* the driver: the edges stored, hs0038_data, the ring, codes understood
    user        \* the process that reads: where it is and the codes it got

hsvars == <<wire, dev, user>>

Silence == 420
Zero == [i \in 0 .. BITS - 1 |-> 0]
NoCode == <<Zero, Zero>>    \* hs0038_data before any frame
Frame == 4 + 8 * BITS       \* edges of a frame, 68

\* The four bytes of a code, and the time before edge i of the frame and of the
\* repeat code.
ByteOf(code, k) == IF k % 2 = 0 THEN code[k \div 2 + 1]
                   ELSE [j \in 0 .. BITS - 1 |-> 1 - code[k \div 2 + 1][j]]

FrameGap(code, i) ==
    CASE i = 1 -> Silence
      [] i = 2 -> 90
      [] i = 3 -> 45
      [] i > 3 /\ i % 2 = 0 -> 6
      [] OTHER -> LET n == (i - 5) \div 2
                  IN  IF ByteOf(code, n \div BITS)[n % BITS] = 1 THEN 17 ELSE 6

RepeatGap == <<980, 90, 22, 6>>

Edges == IF wire.frame THEN Frame ELSE 4
NextGap == IF wire.frame THEN FrameGap(wire.code, wire.pos + 1) ELSE RepeatGap[wire.pos + 1]

-------------------------------------------------------------------------------
\* The driver.

\* put_data, in a record of the driver.
PutData(d, code) == IF d.r = (d.w + 1) % SLOTS THEN d
                    ELSE [d EXCEPT !.slot[d.w] = code, !.w = (@ + 1) % SLOTS]

\* Byte k of 68 edges, the bit that comes first is bit 0; a long pause is a 1.
Byte(gaps, k) == [j \in 0 .. BITS - 1 |-> IF gaps[5 + 2 * (k * BITS + j)] > 10 THEN 1 ELSE 0]
Opposite(a, b) == \A j \in 0 .. BITS - 1 : a[j] # b[j]

\* Mutant: only the first byte is compared with its complement.
IntactHalf(gaps) == Opposite(Byte(gaps, 0), Byte(gaps, 1))

Intact(gaps) == Opposite(Byte(gaps, 0), Byte(gaps, 1)) /\ Opposite(Byte(gaps, 2), Byte(gaps, 3))

IsRepeat(gaps) == Len(gaps) = 4 /\ gaps[2] > 80 /\ gaps[2] < 100 /\ gaps[3] < 30

Forget(d) == [d EXCEPT !.gaps = <<>>]
Reported(d) == [Forget(d) EXCEPT !.heard = @ + 1]

\* hs0038_input: a code goes to the ring.  hs0038_parse_data_ok prints it.
Out(d, code) == IF d.rings THEN PutData(d, code) ELSE d

\* hs0038_parse_data and what the handler does with its result: put the code
\* (and report it to the input system), drop the edges, or wait for more.
Parse(d) ==
    IF IsRepeat(d.gaps) THEN Reported(Out(d, d.data))
    ELSE IF Len(d.gaps) < Frame THEN d
    ELSE IF ~Intact(d.gaps) THEN Forget(d)
    ELSE LET code == <<Byte(d.gaps, 0), Byte(d.gaps, 2)>>
         IN  Reported(Out([d EXCEPT !.data = code], code))

\* Mutant: a gap does not start anew.
NoTimeout(gap) == FALSE

\* The edge comes too late to belong to the ones before it.
TimedOut(gap) == dev.gaps # <<>> /\ gap > 300

\* hs0038_isr for an edge that comes gap after the last one it saw.
Isr(gap) ==
    dev' = IF TimedOut(gap) THEN [dev EXCEPT !.gaps = <<0>>]
           ELSE Parse([dev EXCEPT !.gaps = Append(@, IF @ = <<>> THEN 0 ELSE gap)])

-------------------------------------------------------------------------------
\* The light.

Init(rings) ==
        /\ wire = [frame |-> FALSE, code |-> NoCode, pos |-> 4, since |-> 0, clean |-> FALSE,
                   sent |-> {NoCode}, before |-> 0, bursts |-> 0, lost |-> 0, noise |-> 0]
        /\ dev = [gaps |-> <<>>, data |-> NoCode, r |-> 0, w |-> 0, heard |-> 0, rings |-> rings,
                  slot |-> [i \in 0 .. SLOTS - 1 |-> NoCode]]
        /\ user = [pc |-> "user", cut |-> FALSE, code |-> NoCode]

\* A key is pressed, or held so that a repeat code follows a frame.
BurstStarts(frame, code) ==
    /\ wire.pos = Edges /\ wire.bursts < MaxBursts
    /\ frame \/ (wire.bursts > 0 /\ code = wire.code)
    /\ wire' = [wire EXCEPT !.frame = frame, !.code = code, !.pos = 0, !.clean = frame, !.before = dev.heard,
                            !.bursts = @ + 1, !.sent = IF frame THEN @ \cup {code} ELSE @]
    /\ UNCHANGED <<dev, user>>

Edge ==
    /\ wire.pos < Edges
    /\ wire' = [wire EXCEPT !.pos = @ + 1, !.since = 0]
    /\ Isr(wire.since + NextGap)
    /\ UNCHANGED user

\* An edge is lost: the next one comes that much later after the last.
Missed == /\ wire.pos < Edges /\ wire.lost + wire.noise < MaxDamage
          /\ wire' = [wire EXCEPT !.pos = @ + 1, !.since = @ + NextGap, !.lost = @ + 1,
                                  !.clean = FALSE]
          /\ UNCHANGED <<dev, user>>

\* An edge that is none, early or late in the gap.
Noise ==
    /\ wire.pos < Edges /\ wire.lost + wire.noise < MaxDamage /\ wire.since >= 0
    /\ \E a \in {3, NextGap - 3} :
           /\ Isr(wire.since + a)
           /\ wire' = [wire EXCEPT !.since = -a, !.noise = @ + 1, !.clean = FALSE]
    /\ UNCHANGED user

Light == \/ \E frame \in BOOLEAN, code \in Codes : BurstStarts(frame, code)
         \/ Edge \/ Missed \/ Noise

-------------------------------------------------------------------------------
\* The process in read: it waits for a code or a signal, and copies val whether
\* get_data has filled it or not.
Call == user.pc = "user" /\ user' = [user EXCEPT !.pc = "wait"] /\ UNCHANGED <<wire, dev>>

Signal == /\ user.pc = "wait" /\ dev.r = dev.w
          /\ user' = [user EXCEPT !.pc = "user", !.cut = TRUE]
          /\ UNCHANGED <<wire, dev>>

Return == /\ user.pc = "wait" /\ dev.r # dev.w
          /\ user' = [user EXCEPT !.pc = "user", !.code = dev.slot[dev.r]]
          /\ dev' = [dev EXCEPT !.r = (@ + 1) % SLOTS]
          /\ UNCHANGED wire

\* The read of hs0038_parse_data_ok returns 0 at once.
InputNext == dev.rings /\ (Light \/ Call \/ Signal \/ Return)
ParseOnlyNext == ~dev.rings /\ Light

-------------------------------------------------------------------------------
\* The codes in the ring and the codes a read gets are codes some key has sent
\* (or the zero of a repeat code that comes before any frame was understood):
\* lost edges never make up a key, and neither does a single added one.  Two
\* added edges can, or one added and one lost, when they are just a byte apart.
\* The times of a frame fit their array of 100 in any case.
CodesWereSent ==
    /\ wire.noise = 0 \/ wire.noise + wire.lost = 1
          => {dev.data, user.code} \cup {dev.slot[i] : i \in 0 .. SLOTS - 1} \subseteq wire.sent
    /\ Len(dev.gaps) < Frame

\* A frame without loss or noise is understood, once and with its code, whatever
\* edges were left over from the light before it.
FrameHeard == wire.pos = Edges /\ wire.clean
                  => dev.heard = wire.before + 1 /\ dev.data = wire.code

===============================================================================
