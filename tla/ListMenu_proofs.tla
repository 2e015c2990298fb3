---------------------------- MODULE ListMenu_proofs ----------------------------
(***************************************************************************)
(* The list menu for every length of the list from one screen up: the      *)
(* selection stays on the screen, and the screen is copied and the box     *)
(* drawn inside their buffers, in every frame of every animation; the      *)
(* scroll bar is on the screen for just the lists that leave it a margin.  *)
(***************************************************************************)
EXTENDS ListMenu, TLAPS

USE DEF LIST_Height, LIST_NUM, Screen

\* The scroll bar is on some line.
LEMMA BarType == ASSUME NEW l \in [list_pos : Int, top_list : Int], NEW s \in Int
                 PROVE BarTop(l, list_num, s) \in Int
<1>1. BarHeight(list_num) \in Int /\ TopMargin(list_num) \in Int
  BY ListAssumption, SMT DEF BarHeight, TopMargin
<1>2. ASSUME NEW a \in Int PROVE Truncated(a, 16) \in Int
  BY <1>2, SMT DEF Truncated
<1>3. s * BarHeight(list_num) \in Int /\ BarHeight(list_num) * l.list_pos \in Int
  BY <1>1, SMT
<1>4. Truncated(s * BarHeight(list_num), 16) \in Int
  BY <1>2, <1>3
<1> QED
  BY <1>1, <1>3, <1>4, SMT DEF BarTop

\* Rolling where the list goes on keeps the selection on the screen.
LEMMA RollKeepsVisible ==
  ASSUME NEW l \in [list_pos : Int, top_list : Int], NEW d \in {-1, 1},
         0 <= l.top_list, l.top_list + LIST_NUM <= list_num,
         l.list_pos \in l.top_list .. l.top_list + LIST_NUM - 1,
         CanRoll(l, list_num, d)
  PROVE  LET m == Rolled(l, d)
         IN  /\ m \in [list_pos : Int, top_list : Int]
             /\ 0 <= m.top_list /\ m.top_list + LIST_NUM <= list_num
             /\ m.list_pos \in m.top_list .. m.top_list + LIST_NUM - 1
  BY ListAssumption, SMT DEF CanRoll, Rolled, PageRoll

\* The list starts with its first entries on the screen.
LEMMA MenuInit == Init => IInv
<1> SUFFICES ASSUME Init PROVE IInv
  OBVIOUS
<1>1. ListInit \in [list_pos : Int, top_list : Int]
  BY DEF ListInit
<1>2. BarTop(ListInit, list_num, 0) \in Int
  BY <1>1, BarType
<1>3. TypeOK
  BY <1>1, <1>2, SMT DEF Init, TypeOK, Redrawn, ListInit
<1>4. SelectionVisible
  BY ListAssumption, SMT DEF Init, SelectionVisible, ListInit
<1> QED
  BY <1>3, <1>4 DEF Init, IInv, RollInv, ShownInv

\* No key and no frame breaks the invariant.
LEMMA MenuStep == IInv /\ [Next]_vars => IInv'
<1> SUFFICES ASSUME IInv, [Next]_vars PROVE IInv'
  OBVIOUS
<1> USE DEF IInv, TypeOK, SelectionVisible, RollInv, ShownInv
<1>1. ASSUME NEW d \in {-1, 1}, Roll(d) PROVE IInv'
  BY <1>1, SMT DEF Roll
<1>2. CASE Refresh
  BY <1>2 DEF Refresh
<1>3. CASE DrawFrame
  <2>1. BarTop(list, list_num, direction * (frame - 1 + 1)) \in Int
    BY BarType, SMT
  <2>2. shown' \in [from : Int, box : Int, bar : Int]
    BY <1>3, <2>1, SMT DEF DrawFrame, FrameAt, PageRoll
  <2>3. frame' = frame + 1 /\ frame' \in 2 .. LIST_Height + 1 /\ frame' - 2 = frame - 1
    BY <1>3, SMT DEF DrawFrame
  <2>4. shown' = FrameAt(list', direction', frame' - 2)
    BY <1>3, <2>3 DEF DrawFrame
  <2> QED
    BY <1>3, <2>2, <2>3, <2>4, SMT DEF DrawFrame
<1>4. CASE Finish
  <2>1. /\ list' \in [list_pos : Int, top_list : Int]
        /\ 0 <= list'.top_list /\ list'.top_list + LIST_NUM <= list_num
        /\ list'.list_pos \in list'.top_list .. list'.top_list + LIST_NUM - 1
    BY <1>4, RollKeepsVisible DEF Finish
  <2>2. BarTop(list', list_num, 0) \in Int
    BY <2>1, BarType
  <2>3. Redrawn(list') \in [from : Int, box : Int, bar : Int]
    BY <2>1, <2>2, SMT DEF Redrawn
  <2> QED
    BY <1>4, <2>1, <2>3 DEF Finish
<1>5. CASE UNCHANGED vars
  BY <1>5 DEF vars
<1> QED
  BY <1>1, <1>2, <1>3, <1>4, <1>5 DEF Next

\* The invariant is inductive.
THEOREM MenuInvariant == Spec => []IInv
  BY MenuInit, MenuStep, PTL DEF Spec

\* The selected entry exists and is on the screen, for every list.
THEOREM SelectionStays == Spec => []SelectionVisible
  BY MenuInvariant, PTL DEF IInv

-------------------------------------------------------------------------------
\* Where a drawn screen takes its lines from, and where its box is.
LEMMA DrawnInRange == IInv => DrawnInBounds
<1> SUFFICES ASSUME IInv PROVE DrawnInBounds
  OBVIOUS
<1> USE ListAssumption DEF IInv, TypeOK, SelectionVisible, RollInv, ShownInv, DrawnInBounds
<1>1. CASE frame <= 1
  BY <1>1, SMT DEF Redrawn
<1>2. CASE frame > 1
  <2>1. shown = FrameAt(list, direction, frame - 2) /\ CanRoll(list, list_num, direction)
    BY <1>2, SMT
  <2>2. CASE PageRoll(list, direction) = 0
    BY <1>2, <2>1, <2>2, SMT DEF FrameAt, CanRoll, PageRoll
  <2>3. CASE PageRoll(list, direction) # 0
    BY <1>2, <2>1, <2>3, SMT DEF FrameAt, CanRoll, PageRoll
  <2> QED
    BY <2>2, <2>3
<1> QED
  BY <1>1, <1>2, SMT

\* No frame of any animation reads outside the page's buffer or draws its box
\* outside the screen's, for every length of the list.
THEOREM DrawingInBounds == Spec => []DrawnInBounds
  BY MenuInvariant, DrawnInRange, PTL

\* The animation moves by lines and ends where the page is drawn again.
THEOREM MovesByLines == Spec => PageMovesByLines
<1>1. IInv /\ [Next]_vars
      => [Near(shown'.from, shown.from) /\ Near(shown'.box, shown.box)]_vars
  <2> SUFFICES ASSUME IInv, Next
               PROVE Near(shown'.from, shown.from) /\ Near(shown'.box, shown.box)
    OBVIOUS
  <2> USE DEF IInv, TypeOK, SelectionVisible, RollInv, ShownInv, Near
  <2>1. ASSUME NEW d \in {-1, 1}, Roll(d)
        PROVE Near(shown'.from, shown.from) /\ Near(shown'.box, shown.box)
    BY <2>1, SMT DEF Roll
  <2>2. CASE Refresh
    BY <2>2, SMT DEF Refresh
  <2>3. CASE DrawFrame
    <3>1. shown' = FrameAt(list, direction, frame - 1)
      BY <2>3 DEF DrawFrame
    <3>2. CASE frame = 1
      BY <2>3, <3>1, <3>2, SMT DEF DrawFrame, FrameAt, Redrawn, PageRoll
    <3>3. CASE frame # 1
      BY <2>3, <3>1, <3>3, SMT DEF DrawFrame, FrameAt, PageRoll
    <3> QED
      BY <3>2, <3>3
  <2>4. CASE Finish
    <3>1. shown = FrameAt(list, direction, 15) /\ shown' = Redrawn(Rolled(list, direction))
      BY <2>4, SMT DEF Finish
    <3>2. PageRoll(list, direction) \in -1 .. 1
      BY SMT DEF PageRoll
    <3>3. Near(shown'.from, shown.from)
      BY <3>1, <3>2, SMT DEF FrameAt, Redrawn, Rolled
    <3>4. Near(shown'.box, shown.box)
      BY <3>1, SMT DEF FrameAt, Redrawn, Rolled, PageRoll
    <3> QED
      BY <3>3, <3>4
  <2> QED
    BY <2>1, <2>2, <2>3, <2>4 DEF Next
<1> QED
  BY <1>1, MenuInvariant, PTL DEF Spec, PageMovesByLines

-------------------------------------------------------------------------------
\* A block of the bar is at most 16 lines high, because a list fills the screen.
LEMMA BlockHeight == BarHeight(list_num) \in 0 .. 16
  BY ListAssumption, SMT DEF BarHeight, Screen, LIST_Height, LIST_NUM

\* A sixteenth of a block is a line or less, rounded either way.
LEMMA SixteenthOfBlock ==
    ASSUME NEW h \in 0 .. 16, NEW i \in Nat, i <= 16, NEW d \in {-1, 1}
    PROVE  /\ Near(Truncated(d * (i + 1) * h, 16), Truncated(d * i * h, 16))
           /\ Truncated(d * i * h, 16) \in Int
           /\ Truncated(d * 0 * h, 16) = 0 /\ Truncated(d * 16 * h, 16) = d * h
<1> DEFINE x == i * h
<1>1. x \in Nat /\ (i + 1) * h = x + h
  BY SMT
<1>2. (x + h) \div 16 - x \div 16 \in {0, 1} /\ x \div 16 \in Nat /\ (x + h) \div 16 \in Nat
  <2> HIDE DEF x
  <2> QED
    BY <1>1, SMT
<1>3. CASE d = 1
  <2>1. d * (i + 1) * h = x + h /\ d * i * h = x /\ d * 0 * h = 0 /\ d * 16 * h = 16 * h
    BY <1>1, <1>3, SMT
  <2> HIDE DEF x
  <2> QED
    BY <1>1, <1>2, <1>3, <2>1, SMT DEF Truncated, Near
<1>4. CASE d = -1
  <2>1. d * (i + 1) * h = -(x + h) /\ d * i * h = -x /\ d * 0 * h = 0 /\ d * 16 * h = -(16 * h)
    BY <1>1, <1>4, SMT
  <2> HIDE DEF x
  <2> QED
    BY <1>1, <1>2, <1>4, <2>1, SMT DEF Truncated, Near
<1> QED
  BY <1>3, <1>4

\* The scroll bar moves by a line at most and ends a block further, where the
\* page is drawn again, for every length of the list.
THEOREM BarMoves == Spec => BarMovesByLines
<1>1. IInv /\ [Next]_vars => [Near(shown'.bar, shown.bar)]_vars
  <2> SUFFICES ASSUME IInv, Next PROVE Near(shown'.bar, shown.bar)
    OBVIOUS
  <2> DEFINE h == BarHeight(list_num)
             top == TopMargin(list_num)
             base == top + h * list.list_pos
             Moved(k) == Truncated(direction * k * h, 16)
  <2>1. h \in 0 .. 16 /\ direction \in {-1, 1} /\ list.list_pos \in Int /\ shown.bar \in Int
    BY BlockHeight DEF IInv, TypeOK
  <2>2. top \in Int /\ base \in Int
    <3>1. top \in Int
      BY ListAssumption, SMT DEF TopMargin, Screen, LIST_Height, LIST_NUM
    <3> HIDE DEF top, h
    <3>2. h * list.list_pos \in Int
      BY <2>1, SMT
    <3> QED
      BY <3>1, <3>2, SMT
  <2>3. \A k \in 0 .. 15 : Near(Moved(k + 1), Moved(k)) /\ Moved(k) \in Int /\ Moved(k + 1) \in Int
    <3> SUFFICES ASSUME NEW k \in 0 .. 15
                 PROVE  Near(Moved(k + 1), Moved(k)) /\ Moved(k) \in Int /\ Moved(k + 1) \in Int
      OBVIOUS
    <3> HIDE DEF h
    <3>1. k \in Nat /\ k <= 16 /\ k + 1 \in Nat /\ k + 1 <= 16
      OBVIOUS
    <3> QED
      BY <2>1, <3>1, SixteenthOfBlock, Zenon
  <2>4. Redrawn(list).bar = base
    <3>1. Truncated(0 * h, 16) = 0
      <4> HIDE DEF h
      <4> QED BY <2>1, SMT DEF Truncated
    <3> QED
      BY <2>2, <3>1, SMT DEF Redrawn, BarTop
  <2>5. ASSUME NEW i \in Int PROVE FrameAt(list, direction, i).bar = base + Moved(i + 1)
    BY DEF FrameAt, BarTop
  <2>6. ASSUME NEW d \in {-1, 1}, Roll(d) PROVE Near(shown'.bar, shown.bar)
    BY <2>1, <2>6, SMT DEF Roll, Near
  <2>7. CASE Refresh
    BY <2>1, <2>7, SMT DEF Refresh, IInv, ShownInv, Near
  <2>8. CASE DrawFrame
    <3>1. frame \in 1 .. 16 /\ frame - 1 \in 0 .. 15
      BY <2>8, SMT DEF DrawFrame, LIST_Height
    <3>2. shown'.bar = base + Moved((frame - 1) + 1)
      BY <2>5, <2>8, <3>1 DEF DrawFrame
    <3>3. shown.bar = base + Moved(frame - 1)
      <4>1. CASE frame = 1
        <5>1. Moved(0) = 0
          <6> HIDE DEF h
          <6> QED BY <2>1, SMT DEF Truncated
        <5> QED
          BY <2>2, <2>4, <4>1, <5>1 DEF IInv, ShownInv
      <4>2. CASE frame # 1
        <5>1. shown = FrameAt(list, direction, frame - 2) /\ (frame - 2) + 1 = frame - 1
          BY <3>1, <4>2, SMT DEF IInv, ShownInv
        <5> QED
          BY <2>5, <3>1, <5>1
      <4> QED
        BY <4>1, <4>2
    <3> HIDE DEF Moved, base
    <3> QED
      BY <2>2, <2>3, <3>1, <3>2, <3>3, SMT DEF Near
  <2>9. CASE Finish
    <3>1. /\ shown = FrameAt(list, direction, 15) /\ shown' = Redrawn(Rolled(list, direction))
      BY <2>9, SMT DEF Finish, IInv, ShownInv, LIST_Height
    <3>2. shown.bar = base + direction * h
      <4>1. Moved(16) = direction * h
        <5>1. 0 \in Nat /\ 0 <= 16
          OBVIOUS
        <5> HIDE DEF h
        <5> QED BY <2>1, <5>1, SixteenthOfBlock, Zenon
      <4> QED
        BY <2>5, <3>1, <4>1
    <3>3. shown'.bar = top + h * (list.list_pos + direction)
      <4>1. Truncated(0 * h, 16) = 0
        <5> HIDE DEF h
        <5> QED BY <2>1, SMT DEF Truncated
      <4>2. shown'.bar = top + h * (list.list_pos + direction) + Truncated(0 * h, 16)
        BY <3>1 DEF Redrawn, Rolled, BarTop
      <4> HIDE DEF top, h
      <4>3. top + h * (list.list_pos + direction) \in Int
        <5>1. h \in Int /\ list.list_pos + direction \in Int
          BY <2>1
        <5>2. h * (list.list_pos + direction) \in Int
          BY <5>1
        <5>3. top \in Int
          BY <2>2
        <5> QED
          BY <5>2, <5>3
      <4> QED
        BY <4>1, <4>2, <4>3
    <3> HIDE DEF top, h
    <3>4. shown'.bar = shown.bar
      BY <2>1, <2>2, <3>2, <3>3, SMT
    <3> QED
      BY <2>1, <3>4, SMT DEF Near
  <2> QED
    BY <2>6, <2>7, <2>8, <2>9 DEF Next
<1> QED
  BY <1>1, MenuInvariant, PTL DEF Spec, BarMovesByLines

-------------------------------------------------------------------------------
\* The blocks of the bar and the remainder fill the screen; half of the remainder is
\* above them.
LEMMA BlocksFill ==
    /\ TopMargin(list_num) \in 0 .. 32 /\ Screen % list_num \in 0 .. 64
    /\ BarHeight(list_num) * list_num + (Screen % list_num) = 64
    /\ (Screen % list_num) - 2 * TopMargin(list_num) \in {0, 1}
<1> DEFINE h == BarHeight(list_num)
           r == Screen % list_num
           full == h * list_num
<1>1. h \in Nat /\ r \in Nat /\ full + r = 64 /\ full \in Nat
  <2>1. h \in Nat
    BY BlockHeight
  <2>2. r \in Nat /\ full + r = 64
    BY ListAssumption, SMT DEF BarHeight
  <2>3. full \in Nat
    <3> HIDE DEF h
    <3> QED
      BY <2>1, ListAssumption
  <2> QED
    BY <2>1, <2>2, <2>3
<1>2. TopMargin(list_num) = r \div 2
  BY DEF TopMargin
<1> HIDE DEF h, r, full
<1>3. r \in 0 .. 64
  BY <1>1
<1>4. TopMargin(list_num) \in 0 .. 32 /\ r - 2 * TopMargin(list_num) \in {0, 1}
  BY <1>2, <1>3
<1> QED
  BY <1>1, <1>3, <1>4, Zenon DEF full, h, r

\* The block of an entry is one of list_num.
LEMMA BlockOfEntry ==
    ASSUME NEW h \in 0 .. 16, NEW p \in 0 .. list_num - 1
    PROVE  h * p \in Nat /\ h * p + h <= h * list_num /\ h * list_num \in Nat
<1> DEFINE q == list_num - 1 - p
<1>1. q \in Nat /\ p \in Nat /\ list_num = p + q + 1
  BY ListAssumption
<1> HIDE DEF q
<1>2. h * p \in Nat /\ h * q \in Nat
  BY <1>1
<1>3. h * list_num = h * p + h * q + h
  BY <1>1
<1> QED
  BY <1>2, <1>3

\* In an animation the bar is between the block that it leaves and the next.
LEMMA SixteenthsInBlock ==
    ASSUME NEW h \in 0 .. 16, NEW k \in 0 .. 16, NEW d \in {-1, 1}
    PROVE  Truncated(d * k * h, 16) \in IF d = 1 THEN 0 .. h ELSE -h .. 0
<1> DEFINE x == k * h
<1>1. x \in 0 .. 16 * h
  BY SMT
<1>2. CASE d = 1
  <2>1. d * k * h = x
    BY <1>2
  <2> HIDE DEF x
  <2>2. x \div 16 \in 0 .. h
    BY <1>1
  <2> QED
    BY <1>1, <1>2, <2>1, <2>2 DEF Truncated
<1>3. CASE d = -1
  <2>1. d * k * h = -x
    BY <1>3
  <2> HIDE DEF x
  <2>2. x \div 16 \in 0 .. h /\ -(x \div 16) \in -h .. 0
    BY <1>1
  <2> QED
    BY <1>1, <1>3, <2>1, <2>2 DEF Truncated
<1> QED
  BY <1>2, <1>3

\* The bar that is drawn is inside the blocks, in every frame.
LEMMA BarInBlocks ==
    ASSUME IInv
    PROVE  shown.bar \in 0 .. Screen - BarHeight(list_num)
<1> DEFINE h == BarHeight(list_num)
           top == TopMargin(list_num)
           full == h * list_num
           p == list.list_pos
<1>1. h \in 0 .. 16 /\ top \in 0 .. 32 /\ full + top <= 64 /\ full \in Nat
  <2>1. h \in 0 .. 16
    BY BlockHeight
  <2>2. full \in Nat
    <3> HIDE DEF h
    <3> QED
      BY <2>1, ListAssumption
  <2>3. top \in 0 .. 32 /\ full + top <= 64
    <3> DEFINE r == Screen % list_num
    <3>1. top \in 0 .. 32 /\ r \in 0 .. 64 /\ full + r = 64 /\ r - 2 * top \in {0, 1}
      BY BlocksFill, Zenon
    <3> HIDE DEF r, top, full
    <3> QED
      BY <2>2, <3>1
  <2> QED
    BY <2>1, <2>2, <2>3
<1>2. p \in 0 .. list_num - 1 /\ direction \in {-1, 1}
  BY ListAssumption DEF IInv, TypeOK, SelectionVisible
<1>3. CASE frame <= 1
  <2>1. shown.bar = top + h * p + Truncated(0 * h, 16)
    BY <1>3 DEF IInv, ShownInv, Redrawn, BarTop
  <2> HIDE DEF h, top, full, p
  <2>2. Truncated(0 * h, 16) = 0
    BY <1>1 DEF Truncated
  <2>3. h * p \in Nat /\ h * p + h <= full
    BY <1>1, <1>2, BlockOfEntry DEF full
  <2>4. shown.bar \in 0 .. Screen - h
    BY <1>1, <2>1, <2>2, <2>3
  <2> QED
    BY <2>4 DEF h
<1>4. CASE frame > 1
  <2> DEFINE k == frame - 1
             moved == Truncated(direction * k * h, 16)
  <2>1. /\ k \in 0 .. 16 /\ (frame - 2) + 1 = k
        /\ shown = FrameAt(list, direction, frame - 2) /\ p + direction \in 0 .. list_num - 1
    BY <1>4 DEF IInv, TypeOK, ShownInv, RollInv, CanRoll
  <2>2. shown.bar = top + h * p + moved
    BY <2>1 DEF FrameAt, BarTop
  <2> HIDE DEF h, top, full, p, k
  <2>3. moved \in IF direction = 1 THEN 0 .. h ELSE -h .. 0
    BY <1>1, <1>2, <2>1, SixteenthsInBlock
  <2>4. h * p \in Nat /\ h * p + h <= full
    BY <1>1, <1>2, BlockOfEntry DEF full
  <2>5. h * (p + direction) \in Nat /\ h * (p + direction) + h <= full
    BY <1>1, <2>1, BlockOfEntry DEF full
  <2>6. h * (p + direction) = h * p + (IF direction = 1 THEN h ELSE -h)
    BY <1>1, <1>2
  <2> HIDE DEF moved
  <2> DEFINE a == h * p
  <2>7. a \in Nat /\ a + h <= full
    BY <2>4
  <2>8. a + (IF direction = 1 THEN h ELSE -h) \in Nat
        /\ a + (IF direction = 1 THEN h ELSE -h) + h <= full
    BY <2>5, <2>6
  <2>9. shown.bar = top + a + moved
    BY <2>2
  <2> HIDE DEF a
  <2>10. shown.bar \in 0 .. Screen - h
    BY <1>1, <1>2, <2>3, <2>7, <2>8, <2>9
  <2> QED
    BY <2>10 DEF h
<1> QED
  BY <1>3, <1>4 DEF IInv, TypeOK

\* The separators are on the screen just when there is a margin above the bar.
LEMMA SeparatorsOnScreen ==
    (\A y \in Separators(list_num) : y \in 0 .. Screen - 2) <=> Screen % list_num >= 2
<1> DEFINE h == BarHeight(list_num)
           top == TopMargin(list_num)
           full == h * list_num
           r == Screen % list_num
<1>1. h \in 0 .. 16 /\ top \in 0 .. 32 /\ r \in 0 .. 64 /\ full + r = 64 /\ r - 2 * top \in {0, 1}
  BY BlockHeight, BlocksFill, Zenon
<1>2. Separators(list_num) = {top + i * h - 1 : i \in 0 .. list_num - 1}
  BY DEF Separators
<1>3. ASSUME r >= 2, NEW i \in 0 .. list_num - 1
      PROVE  top + i * h - 1 \in 0 .. Screen - 2
  <2>1. h * i \in Nat /\ h * i + h <= full /\ full \in Nat
    BY <1>1, BlockOfEntry
  <2>2. i * h = h * i
    <3> HIDE DEF h
    <3> QED
      BY <1>1
  <2> DEFINE a == h * i
  <2>3. a \in Nat /\ a + h <= full /\ i * h = a
    BY <2>1, <2>2
  <2> HIDE DEF h, top, full, r, a
  <2> QED
    BY <1>1, <1>3, <2>1, <2>3
<1>4. ASSUME ~(r >= 2) PROVE \E i \in 0 .. list_num - 1 : top + i * h - 1 \notin 0 .. Screen - 2
  <2>1. 0 \in 0 .. list_num - 1
    BY ListAssumption
  <2> HIDE DEF h, top, full, r
  <2>2. top + 0 * h - 1 = -1
    BY <1>1, <1>4
  <2> QED
    BY <2>1, <2>2
<1> HIDE DEF h, top, full
<1> QED
  BY <1>2, <1>3, <1>4

\* The scroll bar, its margins and the separators are drawn inside the screen, in every
\* frame, for just the lists that leave a margin of a line: a list whose length divides
\* the screen, or leaves one line, draws its first separator above the screen.
THEOREM BarFits == Spec => [](BarOnScreen <=> Screen % list_num >= 2)
<1>1. IInv => (BarOnScreen <=> Screen % list_num >= 2)
  <2> SUFFICES ASSUME IInv PROVE BarOnScreen <=> Screen % list_num >= 2
    OBVIOUS
  <2>1. Screen - BelowMargin(list_num) - 2 >= 0 /\ BelowMargin(list_num) >= 0
    <3> DEFINE top == TopMargin(list_num)
               full == BarHeight(list_num) * list_num
               r == Screen % list_num
    <3>1. top \in 0 .. 32 /\ r \in 0 .. 64 /\ full + r = 64 /\ r - 2 * top \in {0, 1}
      BY BlocksFill, Zenon
    <3>2. full \in Int
      <4>1. BarHeight(list_num) \in Int
        BY BlockHeight
      <4> QED
        BY <4>1, ListAssumption
    <3>3. BelowMargin(list_num) = 64 - top - full
      BY DEF BelowMargin
    <3> HIDE DEF top, full, r
    <3> QED
      BY <3>1, <3>2, <3>3
  <2> QED
    BY <2>1, BarInBlocks, SeparatorsOnScreen, Zenon DEF BarOnScreen
<1> QED
  BY <1>1, MenuInvariant, PTL

\* The lists of tiny_tv, of five entries, and every other that leaves a margin.
THEOREM BarStaysOnScreen == ASSUME Screen % list_num >= 2 PROVE Spec => []BarOnScreen
<1>1. Screen % list_num >= 2
  OBVIOUS
<1>2. (BarOnScreen <=> Screen % list_num >= 2) => BarOnScreen
  BY <1>1
<1> QED
  BY <1>2, BarFits, PTL

===============================================================================
