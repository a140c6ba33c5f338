SPECIFICATION Spec
CONSTANT MaxOpens = 2
INVARIANTS
    HandoverIsClean
    TLSPolicyHolds
    MutualAuth
PROPERTY OpenReturns
CHECK_DEADLOCK FALSE
