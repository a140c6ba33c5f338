SPECIFICATION Spec
CONSTANTS
    Clients = {c1}
    SQLs = {q1, q2, q3}
    Backends = {b1, b2}
    Capacity = 2
    MaxSeq = 5
SYMMETRY Symmetry
INVARIANTS
    RunsOwnSQL
    NamesAccounted
