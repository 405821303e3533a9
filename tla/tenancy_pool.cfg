CONSTANTS
    o1 = o1
    o2 = o2
    c1 = c1
    c2 = c2
    r1 = r1
    r2 = r2
    Org = {o1, o2}
    Public = Public
    Conn = {c1, c2}
    Req = {r1, r2}
    Null = Null
SPECIFICATION Spec
INVARIANTS RowsAtHome
SYMMETRY Symmetric
