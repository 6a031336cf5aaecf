SPECIFICATION SequentialSpec
CONSTANTS
    ann = ann
    bob = bob
    BOB = BOB
    m1 = m1
    m2 = m2
    Names <- MCNames
    Lower <- MCLower
    Messages <- MCMessages
    Calls <- SequentialCalls
    Requests = {r1, r2, r3}
    Registered <- MCRegistered
    MaxTime = 1
    MaxFaults = 0
SYMMETRY RequestSymmetry
INVARIANTS
    PreviewIsLatest
    ChatsAreListed
    ErrorMeansNotStored
CHECK_DEADLOCK FALSE
