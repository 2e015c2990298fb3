------------------------------- MODULE LossyQueue -------------------------------
(***************************************************************************)
(* What the ring of keys of the GPIO drivers promises the program that     *)
(* reads it: what comes out went in, in the order it went in and once.     *)
(* A key may be lost while it is put, because the ring is full (a          *)
(* stuttering step) or because the put is interrupted by another one and   *)
(* writes over its key; a key that is in the queue and has others behind   *)
(* it cannot.                                                              *)
(***************************************************************************)
EXTENDS Naturals, Sequences

CONSTANT Key

VARIABLES queue,    \* the keys put and not yet got, oldest first
          got       \* the key that came out last

Init == queue = <<>> /\ got \in Key

Put(key) == queue' = Append(queue, key) /\ UNCHANGED got

\* A handler puts two keys before anyone gets one.
PutTwo(key, next) == queue' = queue \o <<key, next>> /\ UNCHANGED got

PutOver(key) == /\ queue # <<>>
                /\ queue' = [queue EXCEPT ![Len(queue)] = key]
                /\ UNCHANGED got

Get == /\ queue # <<>>
       /\ got' = Head(queue)
       /\ queue' = Tail(queue)

Next == \/ Get
        \/ \E key \in Key : Put(key) \/ PutOver(key) \/ \E next \in Key : PutTwo(key, next)

Spec == Init /\ [][Next]_<<queue, got>>

===============================================================================
