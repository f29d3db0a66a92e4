SPECIFICATION Spec
CONSTANTS
    k1 = k1  k2 = k2  k3 = k3
    member = member  admin1 = admin1  admin2 = admin2
    Key <- Keys
    User <- Everybody
    Admins <- BothAdmins
    Log <- AllCases
    Faults <- DedupFault
    MaxFaults = 1
INVARIANT
    AtLeastOnce
CHECK_DEADLOCK FALSE
