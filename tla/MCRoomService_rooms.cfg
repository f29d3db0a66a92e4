SPECIFICATION RoomsSpec
CONSTANTS
    r1 = r1  r2 = r2  user = user  b1 = b1  b2 = b2  e1 = e1  q1 = q1  q2 = q2  screen = screen
    Rooms <- TwoRooms
    Users <- OneUser
    BookingId <- TwoBookings
    WaitlistId <- OneEntry
    Requests <- TwoRequests
    Equipment <- Screen
    Slots <- OneSlot
    Day = 2
    FirstMonday = 0
    Month = 1
    Intervals <- AskedIntervals
    Instants <- None
    RoomFilters <- AskedFilters
    PageLimits <- OneOrTwoPerPage
    NewRooms <- AskedRooms
    RoomChanges <- AskedChanges
    MaxChanges = 3
    ApprovalTimeout = 0
    Horizon = 1
    MaxPosition = 1
SYMMETRY Symmetry
INVARIANTS
    RoomsTypeOK NoOrphans AsLastAsked QueriesAgree PagesTile
PROPERTIES
    DeletedStaysDeleted BookedByTheRules
CHECK_DEADLOCK FALSE
