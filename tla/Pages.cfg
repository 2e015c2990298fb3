\* All pages with their real lists, and a film short enough to end.
SPECIFICATION Spec
CONSTANTS
    frame_num = 8
    JUMP = 3
INVARIANTS
    ScreenShowsPage
    HeapMatchesStack
    NoReentry
PROPERTY PlaceKept
\* The main page's exit key ends the program.
CHECK_DEADLOCK FALSE
