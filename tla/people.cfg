CONSTANTS
    p1 = p1
    p2 = p2
    n1 = n1
    n2 = n2
    i1 = i1
    i2 = i2
    r1 = r1
    r2 = r2
    Person = {p1, p2}
    Name = {n1, n2}
    Image = {i1, i2}
    Req = {r1, r2}
    Nobody = Nobody
SPECIFICATION Spec
INVARIANTS QuietIsFaithful InactiveKeepNothing
SYMMETRY Symmetric
CHECK_DEADLOCK FALSE
