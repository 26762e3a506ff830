CONSTANTS
    t1 = t1
    t2 = t2
    Timers = {t1, t2}
    NoTimer = NoTimer
SPECIFICATION Spec
SYMMETRY Symmetry
INVARIANTS
    IInv
    HeldHasLocation
    IdleMeansStopped
    TimerIsOwned
    TimerMisusedOnlyTogether
    AwaitedIsAsked
CHECK_DEADLOCK FALSE
