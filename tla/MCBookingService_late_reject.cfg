SPECIFICATION ServiceSpec
CONSTANTS
    small = small  large = large  member = member  admin = admin
    b1 = b1  b2 = b2  e1 = e1  e2 = e2  q1 = q1  q2 = q2
    Rooms <- OneLarge
    LargeRooms <- OneLarge
    InService <- OneLarge
    Users <- MemberAndAdmin
    Admins <- OneAdmin
    Manages <- NoManager
    BookingId <- TwoBookings
    WaitlistId <- OneEntry
    Requests <- TwoRequests
    Slots <- LastHour
    ApprovalTimeout = 0
    OfferTTL = 0
    CancelDeadline = 2
    Horizon = 1
    MaxPosition = 2
    MaxLost = 1
SYMMETRY Symmetry
PROPERTY
    RejectedInTime
CHECK_DEADLOCK FALSE
