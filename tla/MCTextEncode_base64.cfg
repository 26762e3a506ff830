CONSTANTS
    Jobs <- LongJobs
    Rooms <- LongRooms
    B64Size <- LongB64Size
SPECIFICATION Spec
CHECK_DEADLOCK FALSE
INVARIANT BinaryFits
