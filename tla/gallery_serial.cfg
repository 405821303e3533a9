CONSTANTS
    o1 = o1
    o2 = o2
    a = a
    b = b
    v1 = v1
    v2 = v2
    n1 = n1
    n2 = n2
    t1 = t1
    t2 = t2
    Org = {o1, o2}
    Pid = {a, b}
    Version = {v1, v2}
    Name = {n1, n2}
    Slot = {t1}
    TopK = 3
SYMMETRY Symmetric
SPECIFICATION Spec
INVARIANTS QuietIsFaithful ReadersGetTheirFace CallsNeverRaise SearchIsComplete
CHECK_DEADLOCK FALSE
