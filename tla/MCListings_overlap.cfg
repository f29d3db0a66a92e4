SPECIFICATION MCSpec
CONSTANTS
    r1 = r1  r2 = r2  user = user  b1 = b1  b2 = b2  e1 = e1  e2 = e2  screen = screen
    Rooms <- TwoRooms
    Users <- OneUser
    BookingId <- TwoBookings
    WaitlistId <- TwoEntries
    Slots <- OverlappingSlots
    Equipment <- Screen
    Day = 2
    FirstMonday = 1
    Month = 2
    Intervals <- None
    Instants <- AskedInstants
    RoomFilters <- None
    PageLimits <- None
    ApprovalTimeout = 0
    Horizon = 1
    MaxPosition = 3
SYMMETRY Symmetry
INVARIANTS
    TypeOK NoDoubleBooking ReportsAreTrue NothingFallsBetween WeeksTile
PROPERTIES
    OffersArePaidFor LifecycleForward
CHECK_DEADLOCK FALSE
