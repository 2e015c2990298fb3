\* Loading the drivers, the motors, the OLED as a device, and from a page to the glass.
SPECIFICATION Spec
CONSTANTS
    MaxSteps = 3
    MaxTurn = 10
    WIDTH = 18
    PAGES = 2
    Xs = {15, 17}
    Datas <- MCDatas
    MaxCalls = 3
    XRES = 4
    YRES = 4
    BITS = 2
    Face <- MCFace
    Regions <- MCRegions
    Texts <- MCTexts
    MaxDraw = 2
INVARIANTS
    Equipped
    UnloadedIsGone
    StepsKept
    PanelShowsCalls
PROPERTIES
    PictureReachesPanel
\* A module that is gone, and motors and panels that nobody calls, do nothing more.
CHECK_DEADLOCK FALSE
