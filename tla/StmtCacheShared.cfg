SPECIFICATION Spec
CONSTANTS
    Clients = {c1, c2}
    SQLs = {q1, q2}
    Backends = {b1, b2}
    Capacity = 2
    MaxSeq = 3
SYMMETRY Symmetry
INVARIANT RunsOwnSQL
