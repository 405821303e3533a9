CONSTANTS
    c1 = c1
    c2 = c2
    u1 = u1
    u2 = u2
    r1 = r1
    r2 = r2
    Id = {c1, c2}
    User = {u1, u2}
    Req = {r1, r2}
    Free = Free
    TTL = 1
    MaxNow = 2
SPECIFICATION FairSpec
INVARIANTS TypeOK OneShot ScoreSeesTheGrant
PROPERTIES RecordStaysUntilExpiry GrantedInTime ImplementsPermits CallsReturn
CHECK_DEADLOCK FALSE
