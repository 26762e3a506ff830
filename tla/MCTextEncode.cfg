CONSTANTS
    Jobs <- MCJobs
    Rooms <- MCRooms
    B64Size <- MCB64Size
SPECIFICATION Spec
CHECK_DEADLOCK FALSE
INVARIANTS
    WithinBuffer
    Terminated
    SoFar
    Complete
    FailsOnlyIfTooLong
