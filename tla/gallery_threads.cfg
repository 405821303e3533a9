CONSTANTS
    o1 = o1
    o2 = o2
    a = a
    b = b
    v1 = v1
    v2 = v2
    n1 = n1
    n2 = n2
    t1 = t1
    t2 = t2
    Org = {o1, o2}
    Pid = {a}
    Version = {v1}
    Name = {n1}
    Slot = {t1, t2}
    TopK = 1
SYMMETRY Symmetric
SPECIFICATION Spec
INVARIANTS ReadersGetTheirFace
CHECK_DEADLOCK FALSE
