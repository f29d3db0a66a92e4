SPECIFICATION Spec
CONSTANTS
    r1 = r1  u1 = u1  u2 = u2  b1 = b1  b2 = b2  b3 = b3  e1 = e1  e2 = e2  e3 = e3
    Rooms <- OneRoom
    Users <- TwoUsers
    BookingId <- ThreeBookings
    WaitlistId <- ThreeEntries
    Slots <- OneSlot
    ApprovalTimeout = 0
    Horizon = 1
    MaxPosition = 3
SYMMETRY Symmetry
INVARIANTS
    PositionsDistinct NoOvertaking NoStrandedWaiter
PROPERTIES
    LedgerSpec
CHECK_DEADLOCK FALSE
