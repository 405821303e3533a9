CONSTANTS
  t1 = t1
  t2 = t2
  s1 = s1
  s2 = s2
  Thread <- Threads
  Word = {"hq"}
  Place = {"yard"}
  Types = {"school", "workplace"}
  MaxOrgs = 2
  MaxSites = 3
  MaxCalls = 2
  Clerk <- Threads
  Username = {"ann", "bob"}
  EmployeeId = {"E1"}
  NoId = "none"
  MaxPeople = 2
  MaxUsers = 3
  MaxForms = 4
  Caller <- Threads
  MaxHits = 2
  Window = 2
  MaxTime = 4
  MaxLet = 6
  Student <- Students
  Course = {"math"}
  NoCourse = "none"
  Kernels = {"daily_inout", "session"}
  Slots = 3
  LastDay = 2
  Span <- Spans
  MaxMade = 2
  MaxMarks = 2
  Person <- Students
  Site = {"hq", "abroad"}
  Meeting = {"am", "pm"}
  OffSite = "none"
  Shot <- Shots
  Ticks = 2
  TickMinutes = 240
  Apart = 9000000
  Limit = 2
  MaxDay = 1
  MaxRows = 3
  Tenant = {"org_1", "org_2"}
  FoundAt = {0, 1, 2, 3, 4, 5, 6, 7, 8, 9, 10}
  Scores = {1, 2, 3, 4}
  MaxPairs = 4
  FarTargets <- Targets
  Openness = {20, 22, 27, 30}
  MaxFrames = 3
  Camera <- Cameras
  Ladder <- Requests
  Responses = {10, 30}
  Suspect <- Students
  Nobody = "nobody"
  AlertLimit = 1
  MaxDays = 2
  MaxEvents = 3
  MaxAlerts = 2
  StartCall = {c1, c2, c3}
  NoStream = "none"
  MaxGen = 3
SPECIFICATION OfficeSpec
INVARIANTS OneDefaultUnlessRaced AdminRemains RegisteredHasLogin WindowBound OpenMeetingsAreFound MarksKeepTheirMeeting SharesAddUp BoardIsRight NewcomersAreNotAccused OperatingPointIsExactButForTies BlinkIsADip OnlyClaimsAreSuspected ListsAreComplete CameraIsReleased ServedTablesAreComplete
PROPERTIES BootHeals BootKeepsTheFence
SYMMETRY Symmetric
CHECK_DEADLOCK FALSE
