SPECIFICATION MCSpec
CONSTANTS
    room = room  user1 = user1  user2 = user2
    b1 = b1  b2 = b2  b3 = b3  b4 = b4  e1 = e1  e2 = e2  e3 = e3  s1 = s1  s2 = s2
    Rooms <- OneRoom
    Users <- TwoUsers
    BookingId <- Bookings
    WaitlistId <- Entries
    Sessions <- TwoSessions
    Slots <- TwoSlots
    MaxAttempts = 2
    MaxCalls = 3
    ApprovalTimeout = 0
    Horizon = 2
    MaxPosition = 3
SYMMETRY Symmetry
INVARIANT FirstIsServed
CHECK_DEADLOCK FALSE
