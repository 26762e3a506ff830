CONSTANTS
    c1 = c1
    c2 = c2
    none = none
    q1 = q1
    q2 = q2
    q3 = q3
    locEp = locEp
    locA = locA
    locB = locB
    empty = empty
    device = device
    shadow = shadow
    Sessions = {c1, c2}
    NoSession = none
    Slots = {q1, q2}
    Locations = {locEp, locA}
    NoLoc = empty
    EpLoc = locEp
    OmitsLocation = {locEp}
    QueueSurvives = FALSE
    Objects <- MCObjects
    ObjId <- MCObjId
    Notifiable <- MCNotifiable
    LinkSize <- MCLinkSize
    LinkBufSize = 3
    MaxObjects = 2
    TimerCanFail = FALSE
SPECIFICATION Spec
INVARIANT DestroyFreesAll
