SPECIFICATION OpenedSpec
CONSTANTS
    ann = ann
    ANN = ANN
    m = m
    e1 = e1
    e2 = e2
    Forms <- Retyped
    Names <- MCNames
    Lower <- MCLower
    Messages <- MCMessages
    Calls <- MCCalls
    Registered <- MCNobody
    Requests = {r1, r2, r3, r4}
    Devices = {d1, d2}
    Emails = {e1}
    None = None
    MaxTime = 0
    MaxFaults = 1
    MaxMishaps = 1
    MaxLogins = 1
CHECK_DEADLOCK FALSE
CONSTRAINT OneFailure
SYMMETRY AccountSymmetry
INVARIANTS AccountsTypeOK OneUserPerAccount
PROPERTIES DisplayNameStays
