----------------------------- MODULE ListGeometry -----------------------------
(***************************************************************************)
(* The arithmetic of projects/tiny_tv/list/list_manager.c: which entries   *)
(* of a list are on the screen, and where their lines, the selection box   *)
(* and the scroll bar go.  All y coordinates are screen lines.             *)
(***************************************************************************)
EXTENDS Integers

LIST_Height == 16       \* lines of an entry
LIST_NUM == 4           \* entries on the screen
Screen == LIST_Height * LIST_NUM

\* A list: list_num entries, the selected one and the topmost on the screen.
\* list_page_init selects the first.
ListInit == [list_pos |-> 0, top_list |-> 0]

\* Mutant: the end of the list is missed by one.
CanRollPast(list, list_num, direction) == list.list_pos + direction \in 0 .. list_num

\* roll_animation gives up when the selection would leave the list.
CanRoll(list, list_num, direction) == list.list_pos + direction \in 0 .. list_num - 1

\* Mutant: the page scrolls one entry too late.
PageRollLate(list, direction) ==
    IF list.list_pos + direction < list.top_list THEN -1
    ELSE IF list.list_pos + direction - list.top_list > LIST_NUM THEN 1 ELSE 0

\* Whether the page must scroll to keep the selection on the screen.
PageRoll(list, direction) ==
    IF list.list_pos + direction < list.top_list THEN -1
    ELSE IF list.list_pos + direction - list.top_list >= LIST_NUM THEN 1 ELSE 0

\* Mutant: the page does not stay where the animation left it.
RolledKeepsTop(list, direction) ==
    [list_pos |-> list.list_pos + direction, top_list |-> list.top_list]

\* The list after the animation.
Rolled(list, direction) ==
    [list_pos |-> list.list_pos + direction,
     top_list |-> list.top_list + PageRoll(list, direction)]

\* A quotient as C rounds it.
Truncated(a, b) == IF a < 0 THEN -((-a) \div b) ELSE a \div b

\* draw_rollbar: the bar of list_num cells between two margins.
BarHeight(list_num) == Screen \div list_num
\* Mutant: the whole remainder goes above the bar.
TopMarginWhole(list_num) == Screen % list_num

TopMargin(list_num) == (Screen % list_num) \div 2
BelowMargin(list_num) == Screen - TopMargin(list_num) - BarHeight(list_num) * list_num

\* Mutant: the offset of the animation is left out.
BarTopStill(list, list_num, sixteenths) ==
    TopMargin(list_num) + BarHeight(list_num) * list.list_pos

\* The lines it draws for a list whose bar has moved sixteenths / 16 of a cell.
BarTop(list, list_num, sixteenths) ==
    TopMargin(list_num) + BarHeight(list_num) * list.list_pos
        + Truncated(sixteenths * BarHeight(list_num), 16)
Separators(list_num) == {TopMargin(list_num) + i * BarHeight(list_num) - 1 : i \in 0 .. list_num - 1}

===============================================================================
