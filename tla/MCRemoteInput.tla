----------------------------- MODULE MCRemoteInput -----------------------------
(***************************************************************************)
(* The remote's debounce with a tick of 32 us: the interval of 100 ms is   *)
(* 3125 ticks, a second 31250, and 2^32 us are 2^27 ticks, so that every   *)
(* comparison comes out as in the program.                                 *)
(***************************************************************************)
EXTENDS RemoteInput

Second == 31250
MCWidth == 134217728

\* A bounce, the two sides of the interval, half a minute, both sides of the
\* largest signed long (2147 s) and a pause that wraps to a bounce.
MCPauses == {0, 3124, 3125, 30 * Second, MCWidth \div 2 - 1, MCWidth \div 2, MCWidth + 1000}

\* What matters of the wall clock at the start is where it lies in the range of
\* a signed long: at 0, in the lower half, in the upper half.
MCFirstTimes == {0, 20 * Second, 2200 * Second}

===============================================================================
