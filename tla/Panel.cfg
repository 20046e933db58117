SPECIFICATION Spec
CONSTANTS
    Sizes = {0, 1, 2, 3, 5, 8}
    Heights = {0, 1, 2, 3, 4, 6}
INVARIANTS
    TypeOK
    CursorVisible
    NoBlankRows
PROPERTIES
    ScrollsLeast
