\* Fast forward near the end of the film.
SPECIFICATION PlayerSpec
CONSTANTS
    frame_num = 1867
    JUMP = 90
INVARIANT ShownInFilm
