SPECIFICATION SequentialSpec
CONSTANTS
    ann = ann
    bob = bob
    BOB = BOB
    m1 = m1
    m2 = m2
    Names <- MCNames
    Lower <- MCLower
    Messages <- MCMessages
    Calls <- AllCalls
    Requests = {r1}
    Registered <- MCRegistered
    MaxTime = 0
    MaxFaults = 0
SYMMETRY RequestSymmetry
INVARIANTS
    RecipientExists
CHECK_DEADLOCK FALSE
