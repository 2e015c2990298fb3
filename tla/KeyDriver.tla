------------------------------- MODULE KeyDriver -------------------------------
(***************************************************************************)
(* What the drivers made from drivers/04_template1_gpio_drv/gpio_drv.c     *)
(* share: a ring of keys without a lock, a timer, and a read that waits    *)
(* until the ring holds something.  Three kinds of code run on the one     *)
(* processor of the board: a process in read or ioctl, which the timer's   *)
(* softirq may interrupt, which the interrupt handler may interrupt.       *)
(*                                                                         *)
(* A driver's module adds the sensor and the handlers, with a record of    *)
(* its own in dev, and maps this template's definitions to its file.       *)
(***************************************************************************)
EXTENDS Ring, Sequences

CONSTANTS BUF_LEN,  \* slots of the ring, 128 in the drivers
          Key       \* the values put into the ring, and 0

ASSUME RingAssumption == BUF_LEN \in Nat /\ BUF_LEN > 1 /\ 0 \in Key

VARIABLES
    ring,       \* g_keys, r and w; at is the slot a put that was interrupted will write
    timer,      \* Off, or the time until key_timer expires
    reader,     \* the process: where it is, the keys its read got, whether a signal
                \* has ever ended a wait, and the last key it took out of the ring
    dev         \* the rest of the driver and its sensor

vars == <<ring, timer, reader, dev>>

Off == -1
None == -1
Index == 0 .. BUF_LEN - 1

InitRing == ring = [slot |-> [i \in Index |-> 0], r |-> 0, w |-> 0, at |-> None]
InitReader == reader = [pc |-> "user", keys |-> <<>>, cut |-> FALSE, got |-> 0]

-------------------------------------------------------------------------------
\* The ring.

Succ(i) == (i + 1) % BUF_LEN
IsEmpty == ring.r = ring.w

\* Mutant: the ring may fill its last slot.
IsFullNever == FALSE

IsFull == ring.r = Succ(ring.w)

Stored(key, i) == [ring EXCEPT !.slot[i] = key, !.w = Succ(i)]

\* put_key by a handler that nothing interrupts.
Put(key) == ring' = IF IsFull THEN ring ELSE Stored(key, ring.w)

\* Two put_key in a row.
PutPair(a, b) == LET once == IF IsFull THEN ring ELSE Stored(a, ring.w)
                 IN  ring' = IF once.r = Succ(once.w) THEN once
                             ELSE [once EXCEPT !.slot[once.w] = b, !.w = Succ(once.w)]

\* Fewer than n free slots.
NoRoomFor(n) == (ring.r - ring.w - 1) % BUF_LEN < n

\* The keys in the ring, oldest first.
Content == ContentsOf(BUF_LEN, ring.r, ring.w, ring.slot)

-------------------------------------------------------------------------------
\* The process.  Nothing of it runs while the timer's handler is in a put.

At(pc) == reader.pc = pc /\ ring.at = None

\* poll finds the ring not empty and says POLLIN, as SIGIO does.
Poll == /\ At("user") /\ ~IsEmpty
        /\ reader' = [reader EXCEPT !.pc = "polled"]
        /\ UNCHANGED <<ring, timer, dev>>

\* read on a non-blocking file: -EAGAIN, or on as below.
CallNonblock == /\ At("user") \/ At("polled")
                /\ reader' = [reader EXCEPT !.pc = IF IsEmpty THEN "user" ELSE "wait",
                                            !.keys = <<>>]
                /\ UNCHANGED <<ring, timer, dev>>

Call == /\ At("user") \/ At("polled")
        /\ reader' = [reader EXCEPT !.pc = "wait", !.keys = <<>>]
        /\ UNCHANGED <<ring, timer, dev>>

\* wait_event_interruptible: there is a key, or a signal arrives; the result
\* that tells them apart is ignored.
Wake == /\ At("wait") /\ ~IsEmpty
        /\ reader' = [reader EXCEPT !.pc = "fetch"]
        /\ UNCHANGED <<ring, timer, dev>>

Signal == /\ At("wait") /\ IsEmpty
          /\ reader' = [reader EXCEPT !.pc = "fetch", !.cut = TRUE]
          /\ UNCHANGED <<ring, timer, dev>>

\* Where a read of n keys goes once it has got one more.
After(keys, n) == IF Len(keys) < n THEN "fetch" ELSE "user"

\* get_key on an empty ring gives 0.
FetchNothing(n) == /\ At("fetch") /\ IsEmpty
                   /\ LET keys == Append(reader.keys, 0)
                      IN  reader' = [reader EXCEPT !.keys = keys, !.pc = After(keys, n)]
                   /\ UNCHANGED <<ring, timer, dev>>

\* get_key reads the slot, and then moves r: a handler may put in between.
Fetch == /\ At("fetch") /\ ~IsEmpty
         /\ reader' = [reader EXCEPT !.keys = Append(@, ring.slot[ring.r]), !.pc = "bump"]
         /\ UNCHANGED <<ring, timer, dev>>

Bump(n) == /\ At("bump")
           /\ ring' = [ring EXCEPT !.r = Succ(@)]
           /\ reader' = [reader EXCEPT !.pc = After(reader.keys, n),
                                       !.got = reader.keys[Len(reader.keys)]]
           /\ UNCHANGED <<timer, dev>>

GetKeys(n) == Fetch \/ FetchNothing(n) \/ Bump(n)

\* A read of n keys; the read itself, once called and woken, needs no one else.
Read(n) == Poll \/ Call \/ CallNonblock \/ Wake \/ Signal \/ GetKeys(n)
ReadGoesOn(n) == Wake \/ GetKeys(n)

-------------------------------------------------------------------------------
Queue == INSTANCE LossyQueue WITH queue <- Content, got <- reader.got

\* The ring, filled by interrupt and timer handlers and emptied by one process
\* without any lock, is a first-in-first-out queue for that process.
RingIsQueue == Queue!Spec

===============================================================================
