\* The two lists of tiny_tv have five entries each.
SPECIFICATION Spec
CONSTANT list_num = 5
INVARIANTS
    SelectionVisible
    DrawnInBounds
    BarOnScreen
PROPERTIES
    PageMovesByLines
    BarMovesByLines
