--------------------------- MODULE RemoteInput_proofs ---------------------------
(***************************************************************************)
(* Proofs about RemoteInput, for every debounce interval, every width of   *)
(* the clock's difference and all times that may pass between two inputs.  *)
(***************************************************************************)
EXTENDS RemoteInput, TLAPS

\* What the conversion does to a time that has passed: it never makes it longer,
\* and leaves those below half the width alone.
LEMMA ToLongShortens ==
    ASSUME NEW x \in Nat
    PROVE  ToLong(x) \in Int /\ ToLong(x) <= x /\ (2 * x < WIDTH => ToLong(x) = x)
<1>1. WIDTH \in Nat /\ WIDTH > 0
  BY TimeAssumption
<1>2. x % WIDTH \in 0 .. WIDTH - 1 /\ x % WIDTH <= x
  BY <1>1, SMTT(30)
<1>3. 2 * x < WIDTH => x % WIDTH = x
  BY <1>1, SMTT(30)
<1>4. QED
  BY <1>1, <1>2, <1>3 DEF ToLong

\* last_time is at least as young as the last report, as long as that is within
\* the interval.
GapInv == since < INTERVAL => gap <= since

\* A press that was not reported has refreshed last_time.
DropInv == value = 1 /\ ~reported => gap = 0

IInv == TypeOK /\ GapInv /\ DropInv

\* The invariant holds at the start.
LEMMA RemoteInit == Init => IInv
<1> SUFFICES ASSUME Init PROVE IInv
  OBVIOUS
<1> USE TimeAssumption DEF Init
<1>1. gap \in Nat /\ stale \in 0 .. MaxStale /\ since \in 0 .. INTERVAL /\ value \in Value
  BY DEF Value
<1>2. pause \in Pauses \cup {0} /\ reported \in BOOLEAN
  OBVIOUS
<1>3. GapInv /\ DropInv
  BY DEF GapInv, DropInv
<1>4. QED
  BY <1>1, <1>2, <1>3 DEF IInv, TypeOK

\* Every input leaves last_time refreshed or older by the pause, and a press
\* leaves it refreshed.
LEMMA RemoteStep == IInv /\ [Read]_vars => IInv'
<1> SUFFICES ASSUME IInv, [Read]_vars PROVE IInv'
  OBVIOUS
<1>1. CASE UNCHANGED vars
  BY <1>1 DEF vars, IInv, TypeOK, GapInv, DropInv, Value
<1>2. CASE Read
  <2>1. PICK dt \in Pauses, v \in Value :
            /\ pause' = dt /\ value' = v
            /\ TooEarly(gap + dt) \/ Press(gap + dt) \/ NoPress(gap + dt)
            /\ since' = IF reported' THEN 0
                        ELSE IF since + dt > INTERVAL THEN INTERVAL ELSE since + dt
            /\ stale' <= MaxStale
    BY <1>2 DEF Read
  <2>2. /\ dt \in Nat /\ gap \in Nat /\ stale \in Nat /\ since \in 0 .. INTERVAL
        /\ INTERVAL \in Nat /\ MaxStale \in Nat
    BY TimeAssumption DEF IInv, TypeOK
  <2>3. \/ reported' = FALSE /\ gap' = 0 /\ stale' = 0
        \/ reported' = TRUE /\ gap' = 0 /\ stale' = 0
        \/ reported' = FALSE /\ gap' = gap + dt /\ stale' = stale + 1 /\ value' # 1
    BY <2>1 DEF TooEarly, Press, NoPress, Refresh, Keep
  <2>4. gap' \in Nat /\ stale' \in 0 .. MaxStale
    BY <2>1, <2>2, <2>3
  <2>5. since' \in 0 .. INTERVAL
    BY <2>1, <2>2
  <2>6. GapInv'
    <3>1. CASE gap' = 0
      BY <2>5, <2>2, <3>1 DEF GapInv
    <3>2. CASE reported' = FALSE /\ gap' = gap + dt
      <4>1. since' = IF since + dt > INTERVAL THEN INTERVAL ELSE since + dt
        BY <2>1, <3>2
      <4>2. since < INTERVAL => gap <= since
        BY DEF IInv, GapInv
      <4>3. QED
        BY <2>2, <3>2, <4>1, <4>2 DEF GapInv
    <3>3. QED
      BY <2>3, <3>1, <3>2
  <2>7. DropInv'
    BY <2>3 DEF DropInv
  <2>8. pause' \in Pauses \cup {0} /\ value' \in Value /\ reported' \in BOOLEAN
    BY <2>1, <2>3
  <2>9. QED
    BY <2>4, <2>5, <2>6, <2>7, <2>8 DEF IInv, TypeOK
<1>3. QED
  BY <1>1, <1>2

\* The invariant holds always.
LEMMA RemoteInvariant == Spec => []IInv
  BY RemoteInit, RemoteStep, PTL DEF Spec

\* Types hold: the age of last_time never gets negative.
THEOREM RemoteTypes == Spec => []TypeOK
<1>1. IInv => TypeOK
  BY DEF IInv
<1>2. QED
  BY <1>1, RemoteInvariant, PTL

\* Two reports are never closer than the debounce interval, across overflows of the
\* difference of times too.
THEOREM ReportsKeepDistance == Spec => Debounced
<1> DEFINE A == reported' => since + pause' >= INTERVAL
<1>1. IInv /\ [Read]_vars => [A]_vars
  <2> SUFFICES ASSUME IInv, Read PROVE A
    OBVIOUS
  <2> USE TimeAssumption DEF IInv, TypeOK, GapInv, Value
  <2>1. PICK dt \in Pauses :
            /\ pause' = dt
            /\ TooEarly(gap + dt) \/ Press(gap + dt) \/ NoPress(gap + dt)
    BY DEF Read
  <2>2. dt \in Nat /\ gap + dt \in Nat
    OBVIOUS
  <2>3. ToLong(gap + dt) \in Int /\ ToLong(gap + dt) <= gap + dt
    BY <2>2, ToLongShortens
  <2>4. reported' => gap + dt >= INTERVAL
    BY <2>1, <2>2, <2>3 DEF TooEarly, Press, NoPress
  <2>5. QED
    BY <2>1, <2>2, <2>4
<1>2. QED
  BY <1>1, RemoteInvariant, PTL DEF Spec, Debounced

\* After a press that was not reported, the next one that comes after the interval
\* and before the difference overflows is.
THEOREM NextPressCounts == Spec => DroppedOnce
<1> DEFINE A == value = 1 /\ ~reported /\ value' = 1 /\ pause' >= INTERVAL /\ 2 * pause' < WIDTH
                    => reported'
<1>1. IInv /\ [Read]_vars => [A]_vars
  <2> SUFFICES ASSUME IInv, Read,
                      value = 1 /\ ~reported,
                      value' = 1 /\ pause' >= INTERVAL /\ 2 * pause' < WIDTH
               PROVE  reported'
    OBVIOUS
  <2> USE TimeAssumption DEF IInv, TypeOK, DropInv
  <2>1. PICK dt \in Pauses :
            /\ pause' = dt
            /\ TooEarly(gap + dt) \/ Press(gap + dt) \/ NoPress(gap + dt)
    BY DEF Read
  <2>2. gap = 0 /\ dt \in Nat /\ gap + dt = dt
    OBVIOUS
  <2>3. ToLong(dt) = dt
    BY <2>1, <2>2, ToLongShortens
  <2>4. QED
    BY <2>1, <2>2, <2>3 DEF TooEarly, Press, NoPress
<1>2. QED
  BY <1>1, RemoteInvariant, PTL DEF Spec, DroppedOnce

===============================================================================
