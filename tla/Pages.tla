--------------------------------- MODULE Pages ---------------------------------
(***************************************************************************)
(* projects/tiny_tv/page: the pages of the menu.  A page runs until its    *)
(* back key; entering another page is a call of its Run, so the pages in   *)
(* use form the main thread's call stack.  Each page owns static data: the *)
(* list it shows and the buffers it allocates when it starts and frees     *)
(* when it ends.  The film is shown by video_play, called by the video     *)
(* page (VideoPlayer).                                                     *)
(*                                                                         *)
(* A step handles one input event.  GetInputEvent may deliver any event at *)
(* any time; its failures and the events of the network change nothing in  *)
(* a page, and roll_animation, whose frames ListMenu draws, is one step.   *)
(***************************************************************************)
EXTENDS ListGeometry, VideoPlayer, Sequences, SequencesExt

VARIABLES
    stack,  \* the pages whose Run has been called, the running one last
    lists,  \* the page_list of each page that has one
    heap,   \* the buffers that are allocated
    screen  \* what FlushDisplayRegion showed last

vars == <<stack, lists, heap, screen, playerVars>>

ListPage == {"main_list", "video"}
Page == {"main"} \cup ListPage
list_num == 5       \* lists_regist registers five entries for each

\* Key codes of the remote control; "other" is one no page knows.
Code == {"0x47", "0x45", "0x15", "0x19", "0x40", "0x43", "0x9", "other"}

\* What a page allocates when it starts and frees when it ends.
Buffers(p) == IF p = "main" THEN {<<p, "screen">>} ELSE {<<p, "page">>, <<p, "screen">>}
Film == <<"film", "frames">>

\* What a page flushes: the main page never changes, a list page shows its list.
Picture(p, ls) == IF p = "main" THEN <<p>> ELSE <<p, ls[p]>>

Init == /\ stack = <<"main">>
        /\ lists = [p \in ListPage |-> ListInit]
        /\ heap = Buffers("main")
        /\ screen = Picture("main", lists)
        /\ InitPlayer

Running(p) == stack # <<>> /\ Last(stack) = p /\ at = "off"

-------------------------------------------------------------------------------
\* The three ways a handler ends.

Redraw(p) == /\ screen' = Picture(p, lists)
             /\ UNCHANGED <<stack, lists, heap, playerVars>>

\* Mutant: the list pages share one page_list.
RunShared(p) == /\ stack' = Append(stack, p)
                /\ lists' = [q \in ListPage |-> ListInit]
                /\ heap' = heap \cup Buffers(p)
                /\ screen' = Picture(p, lists')
                /\ UNCHANGED playerVars

\* Page(p)->Run: a list page starts with its first entry selected.
Run(p) == /\ stack' = Append(stack, p)
          /\ lists' = [q \in ListPage |-> IF q = p THEN ListInit ELSE lists[q]]
          /\ heap' = heap \cup Buffers(p)
          /\ screen' = Picture(p, lists')
          /\ UNCHANGED playerVars

\* Mutant: the caller waits for its next key without drawing its page again.
ReturnBlind(p) == /\ stack' = Front(stack)
                  /\ heap' = heap \ Buffers(p)
                  /\ UNCHANGED <<lists, screen, playerVars>>

\* Mutant: only one of a list page's two buffers is freed.
ReturnLeaks(p) == /\ stack' = Front(stack)
                  /\ heap' = heap \ {<<p, "screen">>}
                  /\ screen' = IF Len(stack) > 1 THEN Picture(Last(stack'), lists) ELSE screen
                  /\ UNCHANGED <<lists, playerVars>>

\* Run returns: its buffers are freed and the caller, if there is one, shows
\* its own picture again before it waits for the next key.
Return(p) == /\ stack' = Front(stack)
             /\ heap' = heap \ Buffers(p)
             /\ screen' = IF Len(stack) > 1 THEN Picture(Last(stack'), lists) ELSE screen
             /\ UNCHANGED <<lists, playerVars>>

-------------------------------------------------------------------------------
\* Main_page_run: one key enters the main list, one ends the program.
MainKey(c) == /\ Running("main")
              /\ \/ c = "0x47" /\ Run("main_list")
                 \/ c = "0x45" /\ Return("main")
                 \/ c \notin {"0x47", "0x45"} /\ Redraw("main")

\* roll_animation, and the redraw after it.
RollList(p, direction) ==
    /\ lists' = IF CanRoll(lists[p], list_num, direction)
                THEN [lists EXCEPT ![p] = Rolled(@, direction)] ELSE lists
    /\ screen' = Picture(p, lists')
    /\ UNCHANGED <<stack, heap, playerVars>>

\* list_press of the selected entry.  Only the main list's "video" and the
\* video list's "ikun" do something.
StartFilm == /\ Start
             /\ heap' = heap \cup {Film}
             /\ UNCHANGED <<stack, lists, screen>>

\* Mutant: video_on_pressed looks up the page it is on.
PressAgain(p) == IF p = "main_list" THEN Run("main_list") ELSE StartFilm

Press(p) == \/ p = "main_list" /\ lists[p].list_pos = 2 /\ Run("video")
            \/ p = "video" /\ lists[p].list_pos = 0 /\ StartFilm
            \/ /\ lists[p].list_pos # IF p = "main_list" THEN 2 ELSE 0
               /\ Redraw(p)

\* Main_list_page_run and video_page_run handle their keys alike.
ListKey(p, c) == /\ Running(p) /\ p \in ListPage
                 /\ \/ c = "0x15" /\ Press(p)
                    \/ c = "0x19" /\ RollList(p, 1)
                    \/ c = "0x40" /\ RollList(p, -1)
                    \/ c = "0x43" /\ Return(p)
                    \/ c \notin {"0x15", "0x19", "0x40", "0x43"} /\ Redraw(p)

\* What video_play makes of a key code.
Meaning(c) == CASE c = "0x15" -> "pause" [] c = "0x9" -> "forward"
                [] c = "0x45" -> "back"  [] c = "0x43" -> "quit" [] OTHER -> "other"

FilmPoll(k) == NoKey(k) \/ RemoteKey(k) \/ Quit(k)
FilmStep == Turn \/ \E k \in {"none", "net"} \cup {Meaning(c) : c \in Code} : FilmPoll(k)

\* A step of the film; when it ends its buffer is freed and the video page,
\* still in the handler of the key that started it, draws itself.
FilmRuns == /\ FilmStep
            /\ IF at' = "off"
               THEN heap' = heap \ {Film} /\ screen' = Picture("video", lists)
               ELSE /\ heap' = heap
                    /\ screen' = IF shown' >= 0 THEN <<"film", shown'>> ELSE screen
            /\ UNCHANGED <<stack, lists>>

Next == \/ \E c \in Code : MainKey(c) \/ \E p \in ListPage : ListKey(p, c)
        \/ FilmRuns

Spec == Init /\ [][Next]_vars

-------------------------------------------------------------------------------
OnStack(p) == \E i \in 1 .. Len(stack) : stack[i] = p

\* A page that waits for a key has its own current picture on the screen,
\* whatever pages and films were shown and left since it was entered.
ScreenShowsPage == stack # <<>> /\ at = "off" => screen = Picture(Last(stack), lists)

\* The buffers allocated are those of the pages in use: nothing is used after
\* it is freed, freed twice, or left behind when the program ends.
HeapMatchesStack ==
    heap = (UNION {Buffers(p) : p \in {q \in Page : OnStack(q)}})
               \cup IF at = "off" THEN {} ELSE {Film}

\* A page's static data has one user: no page is entered while it is in use,
\* and the film belongs to the video page.
NoReentry == /\ \A i, j \in 1 .. Len(stack) : stack[i] = stack[j] => i = j
             /\ at # "off" => stack # <<>> /\ Last(stack) = "video"

\* Coming back to a list finds it as it was left: a list in use changes only
\* while its page handles its keys.
PlaceKept ==
    [][ \A p \in ListPage :
            OnStack(p) /\ ~(Running(p) /\ Running(p)') => lists'[p] = lists[p] ]_vars

===============================================================================
