------------------------------ MODULE Pages_proofs ------------------------------
(***************************************************************************)
(* Proofs about VideoPlayer and Pages, for films and jumps of every length. *)
(***************************************************************************)
EXTENDS Pages, SequenceTheorems, TLAPS

-------------------------------------------------------------------------------
\* The film by itself.

\* Before a film there is none on the screen.
LEMMA FilmBegins == InitPlayer => PlayerInv
  BY FilmAssumption DEF InitPlayer, PlayerInv, TypeOK, PausedFrame, OnlyForwardOverruns, FrameInv, Key

\* Every turn of the loop and every key keeps the counter and the screen
\* together.
LEMMA FilmGoesOn == PlayerInv /\ [PlayerNext]_playerVars => PlayerInv'
<1> SUFFICES ASSUME PlayerInv, [PlayerNext]_playerVars PROVE PlayerInv'
  OBVIOUS
<1> USE FilmAssumption DEF PlayerInv, TypeOK, PausedFrame, OnlyForwardOverruns, FrameInv, Key
<1>1. CASE UNCHANGED playerVars
  BY <1>1 DEF playerVars
<1>2. CASE Start
  BY <1>2 DEF Start
<1>3. CASE Play
  BY <1>3 DEF Play, More, Flush
<1>4. CASE Rest
  BY <1>4 DEF Rest, More
<1>5. CASE Over
  BY <1>5 DEF Over
<1>6. ASSUME NEW k \in Key, NoKey(k) PROVE PlayerInv'
  BY <1>6 DEF NoKey
<1>7. ASSUME NEW k \in Key, RemoteKey(k) PROVE PlayerInv'
  <2>1. Moved(k) \in Nat /\ (Moved(k) >= frame_num => k = "forward")
    BY <1>7 DEF RemoteKey, Moved
  <2>2. QED
    BY <1>7, <2>1 DEF RemoteKey, Flush
<1>8. ASSUME NEW k \in Key, Quit(k) PROVE PlayerInv'
  BY <1>8 DEF Quit
<1>9. QED
  BY <1>1, <1>2, <1>3, <1>4, <1>5, <1>6, <1>7, <1>8 DEF PlayerNext, Turn, Poll

\* The inductive invariant of the player.
THEOREM PlayerInvariant == PlayerSpec => []PlayerInv
  BY FilmBegins, FilmGoesOn, PTL DEF PlayerSpec

\* While a film is paused the screen shows the frame playing resumes with.
THEOREM PauseShowsNext == PlayerSpec => []PausedFrame
<1>1. PlayerInv => PausedFrame
  BY DEF PlayerInv
<1>2. QED
  BY <1>1, PlayerInvariant, PTL

\* No key but fast forward makes the player show what lies behind the film,
\* whatever its length and that of the jumps.
THEOREM OverrunsByForward == PlayerSpec => []OnlyForwardOverruns
<1>1. PlayerInv => OnlyForwardOverruns
  BY DEF PlayerInv
<1>2. QED
  BY <1>1, PlayerInvariant, PTL

\* Playing skips no frame: after a pause, a resume or any other key the next
\* frame is the one on the screen or the one that follows it.
THEOREM EveryFrameShown == PlayerSpec => ShowsEveryFrame
<1> DEFINE A == shown' # shown => shown' = shown + 1 \/ key' \in {"forward", "back"} \/ at = "off"
<1>1. PlayerInv /\ [PlayerNext]_playerVars => [A]_playerVars
  <2> SUFFICES ASSUME PlayerInv, PlayerNext PROVE A
    OBVIOUS
  <2> USE FilmAssumption DEF PlayerInv, TypeOK, FrameInv, Key
  <2>1. CASE Start
    BY <2>1 DEF Start
  <2>2. CASE Turn
    BY <2>2 DEF Turn, Play, Rest, Over, Flush
  <2>3. CASE Poll
    BY <2>3 DEF Poll, NoKey, RemoteKey, Quit, Moved, Flush
  <2>4. QED
    BY <2>1, <2>2, <2>3 DEF PlayerNext
<1>2. QED
  BY <1>1, PlayerInvariant, PTL DEF PlayerSpec, ShowsEveryFrame

-------------------------------------------------------------------------------
\* The pages' call stacks.

\* The call stacks there are: the pages call each other in one order only.
Outside == <<>>
Top == <<"main">>
Middle == <<"main", "main_list">>
Bottom == <<"main", "main_list", "video">>

\* How many pages the four stacks hold.
LEMMA Lengths == Len(Outside) = 0 /\ Len(Top) = 1 /\ Len(Middle) = 2 /\ Len(Bottom) = 3
  BY DEF Outside, Top, Middle, Bottom

\* The four stacks are stacks of pages.
LEMMA Stacks == Outside \in Seq(Page) /\ Top \in Seq(Page) /\ Middle \in Seq(Page) /\ Bottom \in Seq(Page)
  BY DEF Outside, Top, Middle, Bottom, Page, ListPage

\* The page that runs in each of them.
LEMMA LastPages == Last(Top) = "main" /\ Last(Middle) = "main_list" /\ Last(Bottom) = "video"
  BY Lengths DEF Last, Outside, Top, Middle, Bottom

\* Leaving a page undoes the call that entered it.
LEMMA CallThenReturn ==
    ASSUME NEW s \in Seq(Page), NEW p \in Page
    PROVE  Front(Append(s, p)) = s
<1>1. /\ Append(s, p) \in Seq(Page)
      /\ Len(Append(s, p)) = Len(s) + 1
      /\ \A i \in 1 .. Len(s) : Append(s, p)[i] = s[i]
  BY AppendProperties
<1>2. Front(Append(s, p)) = SubSeq(Append(s, p), 1, Len(s))
  BY <1>1, LenProperties DEF Front
<1>3. /\ Len(SubSeq(Append(s, p), 1, Len(s))) = Len(s)
      /\ SubSeq(Append(s, p), 1, Len(s)) \in Seq(Page)
      /\ \A i \in 1 .. Len(s) : SubSeq(Append(s, p), 1, Len(s))[i] = Append(s, p)[i]
  BY <1>1, LenProperties, SubSeqProperties
<1>4. QED
  BY <1>1, <1>2, <1>3, SeqEqual

\* Entering a page takes one stack to the next.
LEMMA Calls == Append(Top, "main_list") = Middle /\ Append(Middle, "video") = Bottom
<1>1. Append(Top, "main_list") = Middle
  <2>1. /\ Append(Top, "main_list") \in Seq(Page)
        /\ Len(Append(Top, "main_list")) = 2
        /\ Append(Top, "main_list")[1] = "main"
        /\ Append(Top, "main_list")[2] = "main_list"
    BY AppendProperties, Stacks, Lengths DEF Top, Page, ListPage
  <2>2. \A i \in 1 .. 2 : Append(Top, "main_list")[i] = Middle[i]
    BY <2>1 DEF Middle
  <2>3. QED
    BY <2>1, <2>2, Stacks, Lengths, SeqEqual
<1>2. Append(Middle, "video") = Bottom
  <2>1. /\ Append(Middle, "video") \in Seq(Page)
        /\ Len(Append(Middle, "video")) = 3
        /\ Append(Middle, "video")[1] = "main"
        /\ Append(Middle, "video")[2] = "main_list"
        /\ Append(Middle, "video")[3] = "video"
    BY AppendProperties, Stacks, Lengths DEF Middle, Page, ListPage
  <2>2. \A i \in 1 .. 3 : Append(Middle, "video")[i] = Bottom[i]
    BY <2>1 DEF Bottom
  <2>3. QED
    BY <2>1, <2>2, Stacks, Lengths, SeqEqual
<1>3. QED
  BY <1>1, <1>2

\* Leaving a page takes a stack to the one before.
LEMMA Returns == Front(Top) = Outside /\ Front(Middle) = Top /\ Front(Bottom) = Middle
<1>1. Front(Top) = Outside
  BY Lengths, SubSeqEmpty DEF Front, Outside
<1>2. Front(Middle) = Top /\ Front(Bottom) = Middle
  BY Calls, CallThenReturn, Stacks DEF Page, ListPage
<1>3. QED
  BY <1>1, <1>2

\* They are four.
LEMMA Different == /\ Top # Outside /\ Middle # Outside /\ Bottom # Outside
                   /\ Top # Middle /\ Top # Bottom /\ Middle # Bottom
  BY Lengths

-------------------------------------------------------------------------------
\* The buffers of the pages on a stack.
Held(st) == UNION {Buffers(p) : p \in {q \in Page : \E i \in 1 .. Len(st) : st[i] = q}}

\* The buffers that each stack holds.
LEMMA HeldBuffers ==
    /\ Held(Outside) = {}
    /\ Held(Top) = Buffers("main")
    /\ Held(Middle) = Buffers("main") \cup Buffers("main_list")
    /\ Held(Bottom) = Buffers("main") \cup Buffers("main_list") \cup Buffers("video")
<1>1. {q \in Page : \E i \in 1 .. Len(Outside) : Outside[i] = q} = {}
  BY Lengths
<1>2. {q \in Page : \E i \in 1 .. Len(Top) : Top[i] = q} = {"main"}
  BY Lengths DEF Top, Page, ListPage
<1>3. {q \in Page : \E i \in 1 .. Len(Middle) : Middle[i] = q} = {"main", "main_list"}
  BY Lengths DEF Middle, Page, ListPage
<1>4. {q \in Page : \E i \in 1 .. Len(Bottom) : Bottom[i] = q} = {"main", "main_list", "video"}
  BY Lengths DEF Bottom, Page, ListPage
<1>5. Held(Outside) = {} /\ Held(Top) = Buffers("main")
  BY <1>1, <1>2 DEF Held
<1>6. Held(Middle) = Buffers("main") \cup Buffers("main_list")
  BY <1>3 DEF Held
<1>7. Held(Bottom) = Buffers("main") \cup Buffers("main_list") \cup Buffers("video")
  BY <1>4 DEF Held
<1>8. QED
  BY <1>5, <1>6, <1>7

\* No page frees another's buffers, nor the film's.
LEMMA OwnBuffers ==
    /\ \A p, q \in Page : p # q => Buffers(p) \cap Buffers(q) = {}
    /\ \A p \in Page : Film \notin Buffers(p)
  BY DEF Page, ListPage, Buffers, Film

\* The pages in use form one of the four stacks, and a film runs under the last
\* one only.
StackInv == stack \in {Outside, Top, Middle, Bottom} /\ (at # "off" => stack = Bottom)

ListsInv == lists \in [ListPage -> [list_pos : Int, top_list : Int]]

IInv == StackInv /\ ListsInv /\ ScreenShowsPage /\ HeapMatchesStack

\* HeapMatchesStack in terms of what the stack holds.
LEMMA HeapIsHeld ==
    /\ HeapMatchesStack <=> heap = Held(stack) \cup IF at = "off" THEN {} ELSE {Film}
    /\ HeapMatchesStack' <=> heap' = Held(stack') \cup IF at' = "off" THEN {} ELSE {Film}
<1>1. HeapMatchesStack <=> heap = Held(stack) \cup IF at = "off" THEN {} ELSE {Film}
  BY DEF HeapMatchesStack, Held, OnStack
<1>2. HeapMatchesStack' <=> heap' = Held(stack') \cup IF at' = "off" THEN {} ELSE {Film}
  BY DEF HeapMatchesStack, Held, OnStack
<1>3. QED
  BY <1>1, <1>2

\* The program starts with no page.
LEMMA PagesInit == Init => IInv
<1> SUFFICES ASSUME Init PROVE IInv
  OBVIOUS
<1>1. stack = Top /\ at = "off"
  BY DEF Init, Top, InitPlayer
<1>2. StackInv
  BY <1>1 DEF StackInv
<1>3. ListsInv
  BY DEF Init, ListsInv, ListInit
<1>4. ScreenShowsPage
  BY <1>1, LastPages DEF Init, ScreenShowsPage, Picture
<1>5. HeapMatchesStack
  BY <1>1, HeldBuffers, HeapIsHeld DEF Init
<1>6. QED
  BY <1>2, <1>3, <1>4, <1>5 DEF IInv

\* The three ways a handler ends, for a page that is in use and whose film is
\* over.
LEMMA RedrawKeeps ==
    ASSUME IInv, NEW p, Running(p), Redraw(p)
    PROVE  IInv'
<1>1. stack' = stack /\ at' = "off" /\ at = "off" /\ lists' = lists /\ heap' = heap
  BY DEF Redraw, playerVars, Running
<1>2. StackInv' /\ ListsInv'
  BY <1>1 DEF IInv, StackInv, ListsInv
<1>3. ScreenShowsPage'
  BY <1>1 DEF Running, Redraw, ScreenShowsPage
<1>4. HeapMatchesStack'
  BY <1>1 DEF IInv, HeapMatchesStack, OnStack
<1>5. QED
  BY <1>2, <1>3, <1>4 DEF IInv

\* Entering a page keeps the invariant.
LEMMA RunKeeps ==
    ASSUME IInv, at = "off", NEW p \in ListPage, Run(p),
           (stack = Top /\ p = "main_list") \/ (stack = Middle /\ p = "video")
    PROVE  IInv'
<1>1. /\ at' = "off" /\ stack' \in {Middle, Bottom} /\ Last(stack') = p
      /\ Held(stack') = Held(stack) \cup Buffers(p)
  BY Calls, LastPages, HeldBuffers DEF Run, playerVars
<1>2. StackInv'
  BY <1>1 DEF StackInv
<1>3. ListsInv'
  BY DEF IInv, ListsInv, Run, ListInit
<1>4. ScreenShowsPage'
  BY <1>1 DEF ScreenShowsPage, Run
<1>5. HeapMatchesStack'
  BY <1>1, HeapIsHeld DEF IInv, Run
<1>6. QED
  BY <1>2, <1>3, <1>4, <1>5 DEF IInv

\* Leaving a page keeps the invariant.
LEMMA ReturnKeeps ==
    ASSUME IInv, NEW p \in Page, Running(p), Return(p)
    PROVE  IInv'
<1>1. at = "off" /\ at' = "off" /\ stack # Outside /\ Last(stack) = p
  BY DEF Running, Return, playerVars, Outside
<1>2. \/ stack = Top /\ p = "main" /\ stack' = Outside
      \/ stack = Middle /\ p = "main_list" /\ stack' = Top
      \/ stack = Bottom /\ p = "video" /\ stack' = Middle
  BY <1>1, LastPages, Returns DEF IInv, StackInv, Return
<1>3. Held(stack') = Held(stack) \ Buffers(p)
  <2>1. Buffers("main") \cap Buffers("main_list") = {}
    BY OwnBuffers DEF Page, ListPage
  <2>2. Buffers("main") \cap Buffers("video") = {} /\ Buffers("main_list") \cap Buffers("video") = {}
    BY OwnBuffers DEF Page, ListPage
  <2>3. CASE stack = Top /\ p = "main" /\ stack' = Outside
    BY <2>3, HeldBuffers
  <2>4. CASE stack = Middle /\ p = "main_list" /\ stack' = Top
    BY <2>4, <2>1, HeldBuffers
  <2>5. CASE stack = Bottom /\ p = "video" /\ stack' = Middle
    BY <2>5, <2>2, HeldBuffers
  <2>6. QED
    BY <1>2, <2>3, <2>4, <2>5
<1>4. StackInv' /\ ListsInv'
  BY <1>1, <1>2 DEF IInv, StackInv, ListsInv, Return
<1>5. ScreenShowsPage'
  <2>1. stack' # <<>> => Len(stack) > 1
    BY <1>2, Lengths DEF Outside
  <2>2. stack' # <<>> => screen' = Picture(Last(stack'), lists) /\ lists' = lists
    BY <2>1 DEF Return
  <2>3. QED
    BY <2>2 DEF ScreenShowsPage
<1>6. HeapMatchesStack'
  BY <1>1, <1>3, HeapIsHeld DEF IInv, Return
<1>7. QED
  BY <1>4, <1>5, <1>6 DEF IInv

\* The animation and the redraw after it.
LEMMA RollKeeps ==
    ASSUME IInv, NEW p \in ListPage, NEW direction \in {1, -1}, Running(p), RollList(p, direction)
    PROVE  IInv'
<1>1. stack' = stack /\ at' = "off" /\ at = "off" /\ heap' = heap /\ Last(stack) = p
  BY DEF RollList, playerVars, Running
<1>2. ListsInv'
  <2>1. lists[p].list_pos \in Int /\ lists[p].top_list \in Int
    BY DEF IInv, ListsInv
  <2>2. Rolled(lists[p], direction) \in [list_pos : Int, top_list : Int]
    BY <2>1 DEF Rolled, PageRoll, LIST_NUM
  <2>3. QED
    BY <2>2 DEF IInv, ListsInv, RollList
<1>3. StackInv'
  BY <1>1 DEF IInv, StackInv
<1>4. ScreenShowsPage'
  BY <1>1 DEF RollList, ScreenShowsPage
<1>5. HeapMatchesStack'
  BY <1>1, HeapIsHeld DEF IInv
<1>6. QED
  BY <1>2, <1>3, <1>4, <1>5 DEF IInv

\* A film starts on the video page and takes a buffer of its own.
LEMMA StartKeeps ==
    ASSUME IInv, Running("video"), StartFilm
    PROVE  IInv'
<1>1. at = "off" /\ at' = "loop" /\ stack' = stack /\ lists' = lists /\ heap' = heap \cup {Film}
  BY DEF StartFilm, Start
<1>2. stack = Bottom
  BY LastPages DEF IInv, StackInv, Running, Outside
<1>3. StackInv' /\ ListsInv' /\ ScreenShowsPage'
  BY <1>1, <1>2 DEF IInv, StackInv, ListsInv, ScreenShowsPage
<1>4. HeapMatchesStack'
  BY <1>1, HeapIsHeld DEF IInv
<1>5. QED
  BY <1>3, <1>4 DEF IInv

\* A film that ends gives the screen and the key handler back to the video
\* page.
LEMMA FilmKeeps ==
    ASSUME IInv, FilmRuns
    PROVE  IInv'
<1>1. at # "off"
  BY DEF FilmRuns, FilmStep, FilmPoll, Turn, Play, Rest, Over,
         NoKey, RemoteKey, Quit
<1>2. stack = Bottom /\ stack' = stack /\ lists' = lists
  BY <1>1 DEF IInv, StackInv, FilmRuns
<1>3. StackInv' /\ ListsInv'
  BY <1>2 DEF IInv, StackInv, ListsInv
<1>4. ScreenShowsPage'
  BY <1>2, LastPages DEF ScreenShowsPage, FilmRuns
<1>5. HeapMatchesStack'
  <2>1. Film \notin Held(Bottom)
    BY HeldBuffers, OwnBuffers DEF Page, ListPage
  <2>2. heap = Held(Bottom) \cup {Film}
    BY <1>1, <1>2, HeapIsHeld DEF IInv
  <2>3. heap' = IF at' = "off" THEN heap \ {Film} ELSE heap
    BY DEF FilmRuns
  <2>4. QED
    BY <1>2, <2>1, <2>2, <2>3, HeapIsHeld
<1>6. QED
  BY <1>3, <1>4, <1>5 DEF IInv

\* Which page's handler runs is told by the stack.
LEMMA RunningStack ==
    ASSUME IInv, NEW p \in Page, Running(p)
    PROVE  /\ at = "off"
           /\ p = "main" => stack = Top
           /\ p = "main_list" => stack = Middle
           /\ p = "video" => stack = Bottom
  BY LastPages DEF IInv, StackInv, Running, Outside

\* Every handler keeps the invariant.
LEMMA PagesStep == IInv /\ [Next]_vars => IInv'
<1> SUFFICES ASSUME IInv, [Next]_vars PROVE IInv'
  OBVIOUS
<1>1. CASE UNCHANGED vars
  <2>1. stack' = stack /\ lists' = lists /\ heap' = heap /\ screen' = screen /\ at' = at
    BY <1>1 DEF vars, playerVars
  <2>2. StackInv' /\ ListsInv' /\ ScreenShowsPage'
    BY <2>1 DEF IInv, StackInv, ListsInv, ScreenShowsPage
  <2>3. HeapMatchesStack'
    BY <2>1, HeapIsHeld DEF IInv
  <2>4. QED
    BY <2>2, <2>3 DEF IInv
<1>2. ASSUME NEW c \in Code, MainKey(c) PROVE IInv'
  <2>1. Running("main") /\ stack = Top /\ at = "off"
    BY <1>2, RunningStack DEF MainKey, Page
  <2>2. CASE Run("main_list")
    BY <2>1, <2>2, RunKeeps DEF ListPage
  <2>3. CASE Return("main")
    BY <2>1, <2>3, ReturnKeeps DEF Page
  <2>4. CASE Redraw("main")
    BY <2>1, <2>4, RedrawKeeps
  <2>5. QED
    BY <1>2, <2>2, <2>3, <2>4 DEF MainKey
<1>3. ASSUME NEW p \in ListPage, NEW c \in Code, ListKey(p, c) PROVE IInv'
  <2>1. Running(p) /\ p \in Page
    BY <1>3 DEF ListKey, Page
  <2>2. CASE Press(p)
    <3>1. CASE p = "main_list" /\ Run("video")
      BY <2>1, <3>1, RunningStack, RunKeeps DEF ListPage
    <3>2. CASE p = "video" /\ StartFilm
      BY <2>1, <3>2, StartKeeps
    <3>3. CASE Redraw(p)
      BY <2>1, <3>3, RedrawKeeps
    <3>4. QED
      BY <2>2, <3>1, <3>2, <3>3 DEF Press
  <2>3. ASSUME NEW direction \in {1, -1}, RollList(p, direction) PROVE IInv'
    BY <2>1, <2>3, RollKeeps
  <2>4. CASE Return(p)
    BY <2>1, <2>4, ReturnKeeps
  <2>5. CASE Redraw(p)
    BY <2>1, <2>5, RedrawKeeps
  <2>6. QED
    BY <1>3, <2>2, <2>3, <2>4, <2>5 DEF ListKey
<1>4. CASE FilmRuns
  BY <1>4, FilmKeeps
<1>5. QED
  BY <1>1, <1>2, <1>3, <1>4 DEF Next

\* The inductive invariant of the pages.
THEOREM PagesInvariant == Spec => []IInv
  BY PagesInit, PagesStep, PTL DEF Spec

\* A page that waits for a key has its own current picture on the screen,
\* whatever pages and films were entered and left since, for films of every
\* length.
THEOREM PageIsShown == Spec => []ScreenShowsPage
<1>1. IInv => ScreenShowsPage
  BY DEF IInv
<1>2. QED
  BY <1>1, PagesInvariant, PTL

\* Every Run frees what it took, and so does every film: nothing is left behind
\* and nothing is freed while it is in use.
THEOREM HeapBalanced == Spec => []HeapMatchesStack
<1>1. IInv => HeapMatchesStack
  BY DEF IInv
<1>2. QED
  BY <1>1, PagesInvariant, PTL

\* No page is entered while it is in use, so its static list has one user.
THEOREM PagesNotReentered == Spec => []NoReentry
<1>1. IInv => NoReentry
  <2> SUFFICES ASSUME IInv PROVE NoReentry
    OBVIOUS
  <2>1. at # "off" => stack # <<>> /\ Last(stack) = "video"
    BY LastPages, Different DEF IInv, StackInv, Outside
  <2>2. \A i, j \in 1 .. Len(stack) : stack[i] = stack[j] => i = j
    <3>1. CASE stack = Outside
      BY <3>1, Lengths
    <3>2. CASE stack = Top
      BY <3>2, Lengths
    <3>3. CASE stack = Middle
      BY <3>3, Lengths DEF Middle
    <3>4. CASE stack = Bottom
      BY <3>4, Lengths DEF Bottom
    <3>5. QED
      BY <3>1, <3>2, <3>3, <3>4 DEF IInv, StackInv
  <2>3. QED
    BY <2>1, <2>2 DEF NoReentry
<1>2. QED
  BY <1>1, PagesInvariant, PTL

\* Coming back to a list finds it where it was left: only the page on top of
\* the stack moves its list, and entering a page starts that page's list alone.
THEOREM ListsKeepTheirPlace == Spec => PlaceKept
<1> DEFINE A == \A p \in ListPage :
                    OnStack(p) /\ ~(Running(p) /\ Running(p)') => lists'[p] = lists[p]
<1>1. IInv /\ [Next]_vars => [A]_vars
  <2> SUFFICES ASSUME IInv, Next,
                      NEW p \in ListPage, OnStack(p), ~(Running(p) /\ Running(p)')
               PROVE  lists'[p] = lists[p]
    OBVIOUS
  <2>1. ASSUME NEW c \in Code, MainKey(c) PROVE lists'[p] = lists[p]
    <3>1. stack = Top
      BY <2>1, RunningStack DEF MainKey, Page
    <3>2. FALSE
      BY <3>1, Lengths DEF OnStack, Top, ListPage
    <3>3. QED
      BY <3>2
  <2>2. ASSUME NEW q \in ListPage, NEW c \in Code, ListKey(q, c) PROVE lists'[p] = lists[p]
    <3>1. Running(q) /\ q \in Page
      BY <2>2 DEF ListKey, Page
    <3>2. CASE q = "main_list" /\ Run("video")
      <4>1. stack = Middle
        BY <3>1, <3>2, RunningStack
      <4>2. p # "video"
        BY <4>1, Lengths DEF OnStack, Middle
      <4>3. QED
        BY <3>2, <4>2 DEF Run
    <3>3. ASSUME NEW direction \in {1, -1}, RollList(q, direction) PROVE lists'[p] = lists[p]
      <4>1. Running(q)'
        BY <3>1, <3>3 DEF Running, RollList, playerVars
      <4>2. p # q
        BY <3>1, <4>1
      <4>3. QED
        BY <3>3, <4>2 DEF RollList, IInv, ListsInv
    <3>4. CASE StartFilm \/ Return(q) \/ Redraw(q)
      BY <3>4 DEF StartFilm, Return, Redraw
    <3>5. QED
      BY <2>2, <3>2, <3>3, <3>4 DEF ListKey, Press
  <2>3. CASE FilmRuns
    BY <2>3 DEF FilmRuns
  <2>4. QED
    BY <2>1, <2>2, <2>3 DEF Next
<1>2. QED
  BY <1>1, PagesInvariant, PTL DEF Spec, PlaceKept

\* The film that the video page shows is played as VideoPlayer says, whatever the
\* pages do before and after it: each handler of a page is a step of the player or
\* leaves the film alone.
THEOREM FilmsArePlayed == Spec => PlayerSpec
<1>1. Init => InitPlayer
  BY DEF Init
<1>2. [Next]_vars => [PlayerNext]_playerVars
  <2> SUFFICES ASSUME [Next]_vars PROVE [PlayerNext]_playerVars
    OBVIOUS
  <2>1. ASSUME NEW c \in Code, MainKey(c) PROVE UNCHANGED playerVars
    BY <2>1 DEF MainKey, Run, Return, Redraw
  <2>2. ASSUME NEW p \in ListPage, NEW c \in Code, ListKey(p, c)
        PROVE  UNCHANGED playerVars \/ Start
    BY <2>2 DEF ListKey, Press, StartFilm, RollList, Run, Return, Redraw
  <2>3. CASE FilmRuns
    <3>1. \A c \in Code : Meaning(c) \in Key
      BY DEF Meaning, Key
    <3>2. {"none", "net"} \subseteq Key
      BY DEF Key
    <3>3. Turn \/ \E k \in Key : FilmPoll(k)
      BY <2>3, <3>1, <3>2 DEF FilmRuns, FilmStep
    <3>4. QED
      BY <3>3 DEF FilmPoll, Poll, PlayerNext
  <2>4. CASE UNCHANGED vars
    BY <2>4 DEF vars
  <2>5. QED
    BY <2>1, <2>2, <2>3, <2>4 DEF Next, PlayerNext
<1>3. QED
  BY <1>1, <1>2, PTL DEF Spec, PlayerSpec

\* So a film under the video page keeps the player's promise about a pause.
COROLLARY PauseUnderPages == Spec => []PausedFrame
  BY FilmsArePlayed, PauseShowsNext, PTL

===============================================================================
