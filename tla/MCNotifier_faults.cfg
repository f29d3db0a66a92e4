SPECIFICATION Spec
CONSTANTS
    k1 = k1  k2 = k2  k3 = k3
    member = member  admin1 = admin1  admin2 = admin2
    Key <- Keys
    User <- Everybody
    Admins <- BothAdmins
    Log <- AllCases
    Faults <- EveryFault
    MaxFaults = 3
INVARIANTS
    TypeOK NothingVanishes
PROPERTIES
    QuietOnceProcessed AllSettled
CHECK_DEADLOCK FALSE
