CONSTANTS
    p1 = p1
    p2 = p2
    r1 = r1
    r2 = r2
    s1 = s1
    s2 = s2
    c1 = c1
    c2 = c2
    NoOcc = NoOcc
    Free = Free
    NoPermit = NoPermit
    Person = {p1}
    Occ = {s1, s2}
    Kernel = "shift"
    DayTicks = 2
    LateTick = 0
    CloseTick = 1
    TrackLate = TRUE
    TrackEarly = TRUE
    AllowCheckout = TRUE
    Req = {r1}
    Permit = {}
    RequireLiveness = FALSE
    AllowPin = TRUE
    NotifyLate = FALSE
    AutoAbsent = FALSE
    Workdays = {}
    HrDecisions = {"present"}
    HrFlags = {"unset"}
    MaxDay = 1
    MaxRows = 2
    OpenAt <- MCOpenAt
    LateAt <- MCLateAt
    Rank <- MCRank
    Roster <- MCRoster
SPECIFICATION Spec
INVARIANTS OneMark
CHECK_DEADLOCK FALSE
