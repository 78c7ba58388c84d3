SPECIFICATION Spec
CONSTANTS
    MaxChars = 3
    MaxText = 6
CHECK_DEADLOCK FALSE
INVARIANTS
    NothingIsLost
    OnePieceKeepsFences
    ChunksLeaveNoTrace
    SegmentsAreBounded
