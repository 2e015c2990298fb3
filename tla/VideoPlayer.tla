------------------------------ MODULE VideoPlayer ------------------------------
(***************************************************************************)
(* projects/tiny_tv/page/video_list.c, video_play: the loop that shows the *)
(* frames of a film, one GetInputEvent_unblock per turn.  The film lies in *)
(* a buffer of frame_num frames.                                           *)
(***************************************************************************)
EXTENDS Integers

CONSTANTS
    frame_num,  \* frames of the film, and of the buffer
    JUMP        \* frames skipped by fast forward and rewind

ASSUME FilmAssumption == frame_num \in Nat /\ JUMP \in Nat \ {0} /\ frame_num > 3

VARIABLES
    v,          \* the next frame to show
    state,      \* 1 playing, 0 paused
    shown,      \* the frame of this film flushed last, -1 before the first
    at,         \* "off", "loop" at the top of the loop, or "input" at the poll
    key         \* what the last poll delivered

playerVars == <<v, state, shown, at, key>>

\* 0x15, 0x9, 0x45, 0x43, any other remote key, an event of the network, and
\* nothing.
Key == {"pause", "forward", "back", "quit", "other", "net", "none"}

InitPlayer == v = 0 /\ state = 1 /\ shown = -1 /\ at = "off" /\ key = "none"

\* ikun_on_pressed: the film from its first frame.
Start == /\ at = "off"
         /\ v' = 0 /\ state' = 1 /\ shown' = -1 /\ at' = "loop" /\ key' = "none"

Flush(frame) == shown' = frame

\* Mutant: the loop runs to the end of the buffer, and past it.
MorePast == v <= frame_num

\* The loop's test, and its only one.
More == v < frame_num - 3

\* Mutant: the frame counter stands still.
PlayStuck == /\ at = "loop" /\ More /\ state = 1
             /\ Flush(v)
             /\ at' = "input"
             /\ UNCHANGED <<v, state, key>>

\* Mutant: the frame counter is advanced twice in a turn.
PlaySkips == /\ at = "loop" /\ More /\ state = 1
             /\ Flush(v) /\ v' = v + 2
             /\ at' = "input"
             /\ UNCHANGED <<state, key>>

\* One turn of the loop up to the poll: a frame when playing, a rest if not.
Play == /\ at = "loop" /\ More /\ state = 1
        /\ Flush(v) /\ v' = v + 1
        /\ at' = "input"
        /\ UNCHANGED <<state, key>>

Rest == /\ at = "loop" /\ More /\ state = 0
        /\ at' = "input"
        /\ UNCHANGED <<v, state, shown, key>>

Over == /\ at = "loop" /\ ~More
        /\ at' = "off"
        /\ UNCHANGED <<v, state, shown, key>>

\* No event, or one that is not the remote's: the next turn.
NoKey(k) == /\ at = "input" /\ k \in {"none", "net"}
            /\ at' = "loop" /\ key' = k
            /\ UNCHANGED <<v, state, shown>>

\* Where a key leaves the frame counter: only rewind is kept in the film.
Moved(k) == CASE k = "forward" -> v + JUMP
              [] k = "back" -> IF v < JUMP THEN 0 ELSE v - JUMP
              [] OTHER -> v

\* Mutant: a key changes v without showing the frame it leads to.
RemoteKeyBlind(k) == /\ at = "input" /\ k \in {"pause", "forward", "back", "other"}
                     /\ state' = IF k = "pause" THEN 1 - state ELSE state
                     /\ v' = Moved(k) /\ UNCHANGED shown
                     /\ at' = "loop" /\ key' = k

\* Every key of the remote but quit ends in a flush of the current frame.
RemoteKey(k) == /\ at = "input" /\ k \in {"pause", "forward", "back", "other"}
                /\ state' = IF k = "pause" THEN 1 - state ELSE state
                /\ v' = Moved(k) /\ Flush(v')
                /\ at' = "loop" /\ key' = k

Quit(k) == /\ at = "input" /\ k = "quit"
           /\ at' = "off" /\ key' = k
           /\ UNCHANGED <<v, state, shown>>

Turn == Play \/ Rest \/ Over
Poll == \E k \in Key : NoKey(k) \/ RemoteKey(k) \/ Quit(k)

PlayerNext == Start \/ Turn \/ Poll

PlayerSpec == InitPlayer /\ [][PlayerNext]_playerVars

\* The player's thread runs.
FairSpec == PlayerSpec /\ WF_playerVars(Turn) /\ WF_playerVars(Poll)

-------------------------------------------------------------------------------
TypeOK == /\ v \in Nat /\ state \in {0, 1} /\ shown \in Nat \cup {-1}
          /\ at \in {"off", "loop", "input"} /\ key \in Key

\* While the film is paused the screen shows the frame playing resumes with,
\* however it was reached.
PausedFrame == state = 0 /\ at # "off" => shown = v

\* Playing never skips a frame: the screen moves on by one frame at a time
\* unless a jump moved it or a new film starts.
ShowsEveryFrame ==
    [][ shown' # shown => shown' = shown + 1 \/ key' \in {"forward", "back"} \/ at = "off" ]_playerVars

\* The frames shown are in the buffer, except for one shown by fast forward.
OnlyForwardOverruns == shown >= frame_num => key = "forward"

\* A film left playing ends.
FilmEnds == <>[](state = 1 /\ key = "none") => []<>(at = "off")

\* What the comment at video_play says: its input is the film and the number of
\* its frames.  The frames shown are among them.
ShownInFilm == shown < frame_num

\* Why: the screen is at most a frame behind the counter, a key is polled for
\* only inside the film, and after a frame that overran the film is over.
FrameInv == /\ at # "off" => v - shown \in {0, 1}
            /\ at = "input" => v <= frame_num - 3
            /\ shown >= frame_num => at # "input" /\ (at = "loop" => v = shown)

PlayerInv == TypeOK /\ PausedFrame /\ OnlyForwardOverruns /\ FrameInv

===============================================================================
