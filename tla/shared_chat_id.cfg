SPECIFICATION Spec
CONSTANTS
    ann = ann
    bob = bob
    BOB = BOB
    m1 = m1
    m2 = m2
    Names <- MCNames
    Lower <- MCLower
    Messages <- MCMessages
    Calls <- OpeningCalls
    Requests = {r1, r2}
    Registered <- ThreeRegistered
    MaxTime = 0
    MaxFaults = 0
SYMMETRY RequestSymmetry
INVARIANTS
    ChatIdNamesPair
CHECK_DEADLOCK FALSE
