------------------------------ MODULE RemoteInput ------------------------------
(***************************************************************************)
(* projects/tiny_tv/input/remote.c: the debounce of the remote control.    *)
(* The device thread reads one kernel input event after the other and      *)
(* reports a press unless the time since last_time is too short.  That     *)
(* time is a difference of two struct timeval computed in a signed long,   *)
(* 32 bits wide on the board, and so modulo WIDTH.                         *)
(*                                                                         *)
(* Time is counted in ticks; nothing depends on their length, so a model   *)
(* can take one that divides the debounce interval and keeps 2^32          *)
(* microseconds within TLC's integers.                                     *)
(***************************************************************************)
EXTENDS Integers

CONSTANTS
    INTERVAL,   \* the debounce interval, 100000 us, in ticks
    WIDTH,      \* 2^32 us in ticks
    Pauses,     \* the times that may pass between two inputs
    FirstTimes, \* what the wall clock may show when the program starts
    MaxStale    \* bound of the model: inputs in a row that leave last_time alone

ASSUME TimeAssumption == /\ INTERVAL \in Nat /\ WIDTH \in Nat
                         /\ 0 < INTERVAL /\ 2 * INTERVAL < WIDTH
                         /\ Pauses \subseteq Nat /\ FirstTimes \subseteq Nat
                         /\ MaxStale \in Nat

VARIABLES
    gap,        \* the age of last_time once the last input is handled
    value,      \* remote_data.value of the last input
    pause,      \* the time between the last input and the one before it
    reported,   \* remote_getinputevent returned 0 for the last input
    since,      \* the time since the last report, up to INTERVAL
    stale       \* inputs in a row that have left last_time alone

vars == <<gap, value, pause, reported, since, stale>>

\* input_event.value of a key: released, pressed, repeated.  A read of an
\* EV_SYN event shows a 0 as well.
Value == 0 .. 2

\* x modulo WIDTH, as the signed long that holds it.
ToLong(x) == LET m == x % WIDTH IN IF 2 * m < WIDTH THEN m ELSE m - WIDTH

\* The two effects on last_time: this_time is stored there, or it stays.
\* KeepReversed is a mutant: the age is taken the wrong way round.
Refresh == gap' = 0 /\ stale' = 0
KeepReversed(age) == gap' = -age /\ stale' = stale + 1
Keep(age) == gap' = age /\ stale' = stale + 1

\* Mutant: last_time is not refreshed by an input that comes too early.
TooEarlyKeeps(age) == ToLong(age) < INTERVAL /\ reported' = FALSE /\ Keep(age)

\* An input too close to last_time is ignored and restarts the interval.
TooEarly(age) == ToLong(age) < INTERVAL /\ reported' = FALSE /\ Refresh

\* Mutant: last_time is not refreshed by a press that is reported.
PressKeeps(age) == ToLong(age) >= INTERVAL /\ value' = 1 /\ reported' = TRUE /\ Keep(age)

\* A press is reported and restarts the interval.
Press(age) == ToLong(age) >= INTERVAL /\ value' = 1 /\ reported' = TRUE /\ Refresh

\* Any other value leaves last_time alone.
NoPress(age) == ToLong(age) >= INTERVAL /\ value' # 1 /\ reported' = FALSE /\ Keep(age)

\* last_time is zero at start: its age is the wall clock.
Init == /\ gap \in FirstTimes
        /\ value = 0 /\ pause = 0 /\ reported = FALSE /\ since = INTERVAL /\ stale = 0

Read == \E dt \in Pauses, v \in Value :
            /\ pause' = dt /\ value' = v
            /\ TooEarly(gap + dt) \/ Press(gap + dt) \/ NoPress(gap + dt)
            /\ since' = IF reported' THEN 0
                        ELSE IF since + dt > INTERVAL THEN INTERVAL ELSE since + dt
            /\ stale' <= MaxStale

Spec == Init /\ [][Read]_vars

-------------------------------------------------------------------------------
TypeOK == /\ gap \in Nat /\ stale \in 0 .. MaxStale /\ value \in Value /\ pause \in Pauses \cup {0}
          /\ reported \in BOOLEAN /\ since \in 0 .. INTERVAL

\* Two reports are never closer than the interval, whatever bounces, releases
\* and overflows come between them.
Debounced == [][reported' => since + pause' >= INTERVAL]_vars

\* The age of last_time overflows after 35 minutes without a key and a press
\* may then be ignored, but the next press is not: the ignored one has
\* refreshed last_time.
DroppedOnce ==
    [][ value = 1 /\ ~reported /\ value' = 1 /\ pause' >= INTERVAL /\ 2 * pause' < WIDTH
        => reported' ]_vars

\* What the comment in remote_getinputevent says: when more than 100 ms have
\* passed and the value is 1, report.
PressReported == [][value' = 1 /\ gap + pause' >= INTERVAL => reported']_vars

===============================================================================
