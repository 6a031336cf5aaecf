SPECIFICATION OpenedPatientSpec
CONSTANTS
    ann = ann
    bob = bob
    bob_ = bob_
    m1 = m1
    m2 = m2
    d1 = d1
    d2 = d2
    Empty = Empty
    Undefined = Undefined
    Names <- MCNames
    Lower <- MCLower
    Trim <- MCTrim
    Messages = {m1, m2}
    Calls <- MCCalls
    Requests = {r1, r2}
    Registered <- MCRegistered
    Devices <- MCDevices
    Logins <- AnnBob
    Contacts = {ann, bob_}
    Typed = {m2}
    MaxTime = 0
    MaxFaults = 1
    MaxLost = 1
CHECK_DEADLOCK FALSE
SYMMETRY RequestSymmetry
INVARIANTS ShownIsStored ListedIsFound
PROPERTIES NothingDisappears
