--------------------------------- MODULE Ring ---------------------------------
(***************************************************************************)
(* A ring of n slots with an index r of the next value to get and an index *)
(* w of the next slot to fill, as the input manager and the GPIO drivers   *)
(* keep one: what it holds.  One slot stays free, so r = w is empty.       *)
(***************************************************************************)
EXTENDS Integers

\* The values in the ring, oldest first.
CountOf(n, r, w) == (w + n - r) % n
ContentsOf(n, r, w, slots) == [i \in 1 .. CountOf(n, r, w) |-> slots[(r + i - 1) % n]]

===============================================================================
