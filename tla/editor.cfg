\* Lines of up to three bytes, a history of two lines.
SPECIFICATION Spec
CONSTANTS
    letter = letter
    wide = wide
    Space = Space
    Char = {letter, wide, Space}
    WideLen = 2
    Width <- Widths
    HISTORY_LIMIT = 2
    MaxLen = 3
    MaxKept = 2
INVARIANTS
    TypeOK
    CursorOnBoundary
    HistoryTidy
PROPERTY ImplementsLine
CHECK_DEADLOCK FALSE
