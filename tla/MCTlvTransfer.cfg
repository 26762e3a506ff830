CONSTANTS
    Digit = 4
    Field = 10
    ValueMax = 120
    Instances <- MCInstances
    Rooms <- MCRooms
SPECIFICATION Spec
CHECK_DEADLOCK FALSE
INVARIANTS
    RoundTrip
    WithinBuffer
    RejectedOnlyIfTooLong
    CutIsRefused
