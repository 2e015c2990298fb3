------------------------------- MODULE ListMenu -------------------------------
(***************************************************************************)
(* projects/tiny_tv/list/list_manager.c at work: the main thread draws a   *)
(* page of list_num entries and, for each up or down key, an animation of  *)
(* LIST_Height frames that copies the screen out of the page's buffer one  *)
(* line further each time.  Nothing in the code checks a coordinate.       *)
(***************************************************************************)
EXTENDS ListGeometry

CONSTANT list_num   \* entries of the list

ASSUME ListAssumption == list_num \in Nat /\ list_num >= LIST_NUM

VARIABLES
    list,       \* the page_list's list_pos and top_list
    direction,  \* of the animation that runs, or ran last
    frame,      \* the frame to draw next, 1 .. LIST_Height; 0 outside roll_animation
    shown       \* the screen: first line copied from the page, box and bar

vars == <<list, direction, frame, shown>>

\* generate_list_screen_buffer.
Redrawn(l) == [from |-> LIST_Height * l.top_list,
               box  |-> LIST_Height * (l.list_pos - l.top_list),
               bar  |-> BarTop(l, list_num, 0)]

\* Mutant: the box moves by an entry although the page scrolls under it.
FrameAtRunaway(l, d, i) ==
    [from |-> LIST_Height * l.top_list + PageRoll(l, d) * i,
     box  |-> LIST_Height * (l.list_pos - l.top_list) + d * (i + 1),
     bar  |-> BarTop(l, list_num, d * (i + 1))]

\* Frame i of the animation: either the page moves, or the box does.
FrameAt(l, d, i) ==
    [from |-> LIST_Height * l.top_list + PageRoll(l, d) * i,
     box  |-> LIST_Height * (l.list_pos - l.top_list)
                + IF PageRoll(l, d) = 0 THEN d * (i + 1) ELSE 0,
     bar  |-> BarTop(l, list_num, d * (i + 1))]

Init == /\ list = ListInit /\ direction = 1 /\ frame = 0
        /\ shown = Redrawn(ListInit)

\* Mutant: the end of the list is not tested.
RollAlways(d) == /\ frame = 0
                 /\ direction' = d /\ frame' = 1
                 /\ UNCHANGED <<list, shown>>

Roll(d) == /\ frame = 0 /\ CanRoll(list, list_num, d)
           /\ direction' = d /\ frame' = 1
           /\ UNCHANGED <<list, shown>>

\* At the end of the list, and for every other key: the page is drawn again.
Refresh == /\ frame = 0
           /\ shown' = Redrawn(list)
           /\ UNCHANGED <<list, direction, frame>>

DrawFrame == /\ frame \in 1 .. LIST_Height
             /\ shown' = FrameAt(list, direction, frame - 1)
             /\ frame' = frame + 1
             /\ UNCHANGED <<list, direction>>

\* After the last frame the list is updated and the page drawn again.
Finish == /\ frame = LIST_Height + 1
          /\ list' = Rolled(list, direction)
          /\ shown' = Redrawn(list')
          /\ frame' = 0
          /\ UNCHANGED direction

Next == (\E d \in {-1, 1} : Roll(d)) \/ Refresh \/ DrawFrame \/ Finish

Spec == Init /\ [][Next]_vars

-------------------------------------------------------------------------------
TypeOK == /\ list \in [list_pos : Int, top_list : Int]
          /\ direction \in {-1, 1} /\ frame \in 0 .. LIST_Height + 1
          /\ shown \in [from : Int, box : Int, bar : Int]

\* The selected entry is one of the list's, and one of those on the screen.
SelectionVisible == /\ 0 <= list.top_list /\ list.top_list + LIST_NUM <= list_num
                    /\ list.list_pos \in list.top_list .. list.top_list + LIST_NUM - 1

\* The screen is copied from lines that the page's buffer has, and the
\* selection box is drawn on lines that the screen's buffer has, in every frame.
DrawnInBounds == /\ shown.from \in 0 .. LIST_Height * list_num - Screen
                 /\ shown.box \in 0 .. Screen - LIST_Height

\* So are the scroll bar, its margins and the separators, two lines each.
BarOnScreen ==
    /\ shown.bar \in 0 .. Screen - BarHeight(list_num)
    /\ \A y \in Separators(list_num) : y \in 0 .. Screen - 2
    /\ Screen - BelowMargin(list_num) - 2 >= 0 /\ BelowMargin(list_num) >= 0

Near(a, b) == a - b \in -1 .. 1

\* The animation runs smoothly into the page drawn after it: from one screen to
\* the next the page and the box move by a line at most.
PageMovesByLines == [][Near(shown'.from, shown.from) /\ Near(shown'.box, shown.box)]_vars

\* And so does the scroll bar.
BarMovesByLines == [][Near(shown'.bar, shown.bar)]_vars

\* Why: during an animation the screen shows the frame drawn last.
ShownInv ==
    shown = IF frame <= 1 THEN Redrawn(list) ELSE FrameAt(list, direction, frame - 2)

\* And an animation runs only where the list goes on.
RollInv == frame # 0 => CanRoll(list, list_num, direction)

IInv == TypeOK /\ SelectionVisible /\ RollInv /\ ShownInv

===============================================================================
