CONSTANTS
    p1 = p1
    p2 = p2
    r1 = r1
    r2 = r2
    s1 = s1
    s2 = s2
    c1 = c1
    c2 = c2
    NoOcc = NoOcc
    Free = Free
    NoPermit = NoPermit
    Person = {p1}
    Occ = {}
    Kernel = "daily_inout"
    DayTicks = 1
    LateTick = 0
    CloseTick = 0
    TrackLate = FALSE
    TrackEarly = FALSE
    AllowCheckout = FALSE
    Req = {r1, r2}
    Permit = {c1}
    RequireLiveness = TRUE
    AllowPin = TRUE
    NotifyLate = FALSE
    AutoAbsent = TRUE
    Workdays = {0}
    HrDecisions = {"present"}
    HrFlags = {"unset"}
    MaxDay = 1
    MaxRows = 2
    OpenAt <- MCOpenAt
    LateAt <- MCLateAt
    Rank <- MCRank
    Roster <- MCRoster
SPECIFICATION Spec
INVARIANTS OneRowPerPermit DuplicatesOverlap KioskNeverSecond AbsentUnlessMarked
SYMMETRY Symmetric
CHECK_DEADLOCK FALSE
