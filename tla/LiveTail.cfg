SPECIFICATION StreamSpec
CONSTANTS
    Unset = Unset
    STREAM_QUEUE_LIMIT = 1
    Wire = 1
    MaxLines = 3
    Rotations = 1
    Breaks = 1
PROPERTIES
    ResumesExactly
    TailCatchesUp
CHECK_DEADLOCK FALSE
