\* The film of the video page, all of its frames.
SPECIFICATION FairSpec
CONSTANTS
    frame_num = 1867
    JUMP = 90
INVARIANTS
    PausedFrame
    OnlyForwardOverruns
PROPERTIES
    ShowsEveryFrame
    FilmEnds
