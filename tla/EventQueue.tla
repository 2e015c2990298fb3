------------------------------ MODULE EventQueue ------------------------------
(***************************************************************************)
(* What tiny_tv's input manager promises its pages: a bounded FIFO between *)
(* the device threads and the one thread that runs the pages.  An event    *)
(* that finds the queue full is dropped, which is a stuttering step here.  *)
(***************************************************************************)
EXTENDS Naturals, Sequences

CONSTANTS InputEvent,   \* the values an inputevent can take
          Capacity      \* how many events the queue holds

VARIABLES queue,        \* the events put and not yet got, oldest first
          event         \* the page's inputevent, where Get leaves its result

Init == queue = <<>> /\ event \in InputEvent

Put(e) == /\ Len(queue) < Capacity
          /\ queue' = Append(queue, e)
          /\ UNCHANGED event

Get == /\ queue # <<>>
       /\ event' = Head(queue)
       /\ queue' = Tail(queue)

Next == Get \/ \E e \in InputEvent : Put(e)

Spec == Init /\ [][Next]_<<queue, event>>

===============================================================================
