------------------------------- MODULE Listings -------------------------------
(***************************************************************************)
(* What the booking engine answers when it is asked: which rooms exist,    *)
(* which are free, what a room is booked for on a date, in a week, in the  *)
(* last month (the queries of internal/repository/room.go and booking.go,  *)
(* and the services that shape their results).                             *)
(*                                                                         *)
(* Nothing here changes a table.  Time is counted in units of which Day    *)
(* make a day; instant 0 is the midnight, in UTC, that begins date 0, and  *)
(* the first Monday after it is date FirstMonday.                          *)
(*                                                                         *)
(* An optional parameter is a set with one member, or with none when the   *)
(* client leaves it out.                                                   *)
(***************************************************************************)
EXTENDS Reservations

CONSTANTS
    Equipment,      \* what a room may be equipped with
    Day,            \* the length of a day
    FirstMonday,    \* the date of a Monday
    Month,          \* the length of the month that statistics look back
    Intervals,      \* the intervals, and
    Instants,       \* the instants that clients ask about
    RoomFilters,    \* the filters of a search for rooms
    PageLimits      \* the page sizes of a list of rooms

ASSUME ListingsAssumption ==
    /\ Day \in Nat \ {0} /\ FirstMonday \in 0 .. 6 /\ Month \in Nat
    /\ Intervals \subseteq [start : Nat, end : Nat]
    /\ Instants \subseteq Int
    /\ RoomFilters \subseteq [floor : SUBSET Int, minCapacity : SUBSET Nat,
                              equipment : SUBSET Equipment]
    /\ PageLimits \subseteq Nat \ {0}

VARIABLE rooms      \* the rows of table rooms, by id

DaysPerWeek == 7

-------------------------------------------------------------------------------
(* Rooms. *)

RoomStatus == {"active", "out_of_service"}

\* Names are numbered in their alphabetical order; 0 is the empty one, which no room has.
RoomRow == [name : Nat \ {0}, capacity : Nat \ {0}, floor : Int,
            equipment : SUBSET Equipment, status : RoomStatus]

InUse(r) == rooms[r].status = "active"

\* The rooms that a list of rooms is made of (Room.List).
Listed(filter) ==
    {r \in DOMAIN rooms :
        /\ InUse(r)
        /\ filter.floor \subseteq {rooms[r].floor}
        /\ \A c \in filter.minCapacity : rooms[r].capacity >= c}

\* Fault: ORDER BY floor, which many rooms share.
SortedBy_Floor(order) ==
    \A i, j \in DOMAIN order : i < j => rooms[order[i]].floor <= rooms[order[j]].floor

\* ORDER BY name; rooms of one name come in any order, and in another the next time.
SortedBy(order) ==
    \A i, j \in DOMAIN order : i < j => rooms[order[i]].name <= rooms[order[j]].name

Orders(rs) ==
    {order \in [1 .. Cardinality(rs) -> rs] :
        /\ \A i, j \in DOMAIN order : order[i] = order[j] => i = j
        /\ SortedBy(order)}

\* The pages that LIMIT and OFFSET may cut, as sets of rooms.
Pages(filter, limit, offset) ==
    {{order[i] : i \in {j \in DOMAIN order : offset < j /\ j <= offset + limit}} :
        order \in Orders(Listed(filter))}

-------------------------------------------------------------------------------
(* Free rooms.  Each query has a predicate of its own. *)

\* Fault: intervals that touch are taken to overlap.
Conflicting_Closed(r, w) ==
    {b \in DOMAIN bookings : /\ bookings[b].room = r
                             /\ Active(b)
                             /\ bookings[b].slot.start <= w.end
                             /\ bookings[b].slot.end >= w.start}

\* ListConflicting
Conflicting(r, w) ==
    {b \in DOMAIN bookings : /\ bookings[b].room = r
                             /\ Active(b)
                             /\ bookings[b].slot.start < w.end
                             /\ bookings[b].slot.end > w.start}

\* Room.CheckAvailability: a room out of service is not available, whoever booked it.
CheckAvailability(r, w) ==
    [available |-> InUse(r) /\ Conflicting(r, w) = {}, conflicts |-> Conflicting(r, w)]

\* Room.Available
FreeRooms(w, filter) ==
    {r \in DOMAIN rooms :
        /\ InUse(r)
        /\ ~ \E b \in DOMAIN bookings : /\ bookings[b].room = r
                                        /\ Active(b)
                                        /\ Overlaps(bookings[b].slot, w)
        /\ \A c \in filter.minCapacity : rooms[r].capacity >= c
        /\ filter.floor \subseteq {rooms[r].floor}
        /\ filter.equipment \subseteq rooms[r].equipment}

\* Fault: only a booking that has yet to begin keeps its room.
HasActiveForRoom_Upcoming(r, after) ==
    \E b \in DOMAIN bookings : /\ bookings[b].room = r
                               /\ Active(b)
                               /\ bookings[b].slot.start > after

HasActiveForRoom(r, after) ==
    \E b \in DOMAIN bookings : /\ bookings[b].room = r
                               /\ Active(b)
                               /\ bookings[b].slot.end > after

-------------------------------------------------------------------------------
(* Bookings by date, week and month.  A booking of any status counts. *)

\* ListByRoomOnDate: the bookings of the room that overlap the date.
OnDate(r, date) ==
    {b \in DOMAIN bookings : /\ bookings[b].room = r
                             /\ bookings[b].slot.start < (date + 1) * Day
                             /\ bookings[b].slot.end > date * Day}

\* ListByRoomInPeriod, GetBookingsByDateRange: those that start in [from, to).
InPeriod(r, from, to) ==
    {b \in DOMAIN bookings : /\ bookings[b].room = r
                             /\ bookings[b].slot.start >= from
                             /\ bookings[b].slot.start < to}

LastMonth(r, at) == InPeriod(r, at - Month, at)

\* Room.Stats over CountByRoomInPeriod, asked at an instant.
BookingCount(r, at) == Cardinality(LastMonth(r, at))

DateOf(t) == t \div Day

Monday(date) == date % DaysPerWeek = FirstMonday

\* weekBounds: the week begins at the midnight before the instant asked for.
WeekStart(t) == DateOf(t) * Day

\* Fault: a week of six days.
WeekEnd_Saturday(t) == WeekStart(t) + (DaysPerWeek - 1) * Day

WeekEnd(t) == WeekStart(t) + DaysPerWeek * Day

\* Division in Go rounds toward zero.
GoDiv(a, b) == IF a >= 0 THEN a \div b ELSE -((-a) \div b)

\* Fault: whole days counted from the instant asked for.
DayIndex_FromEnd(start, dayStart) == GoDiv(start + Day - 1 - dayStart, Day)

DayIndex(start, dayStart) == GoDiv(start - dayStart, Day)

\* The bookings of a set by the day of the week, 0 to 6, on which they start.
ByDay(bs, dayStart) ==
    [d \in 0 .. DaysPerWeek - 1 |-> {b \in bs : DayIndex(bookings[b].slot.start, dayStart) = d}]

WeeklyReport(r, t) == ByDay(InPeriod(r, WeekStart(t), WeekEnd(t)), WeekStart(t))

\* matchesBookingFilters
Matches(b, filter) == /\ filter.status \subseteq {bookings[b].status}
                      /\ filter.user \subseteq {bookings[b].user}

\* GetBookingsByWeek refuses a week that does not begin on a Monday.
BookingsByWeek(r, t, filter) ==
    IF Monday(DateOf(t))
    THEN ByDay({b \in InPeriod(r, WeekStart(t), WeekEnd(t)) : Matches(b, filter)}, WeekStart(t))
    ELSE [d \in {} |-> {}]

\* ListByUser: those that start in [from, to], both ends included.
BookingsOf(filter) ==
    {b \in DOMAIN bookings : /\ bookings[b].user = filter.user
                             /\ filter.status \subseteq {bookings[b].status}
                             /\ \A t \in filter.from : bookings[b].slot.start >= t
                             /\ \A t \in filter.to : bookings[b].slot.start <= t}

-------------------------------------------------------------------------------
(* Properties. *)

NoFilter == [floor |-> {}, minCapacity |-> {}, equipment |-> {}]

\* The predicates of occupancy, written out in one query after the other, agree: a room that a search
\* shows free is one whose availability check says so, and one whose interval the
\* transaction of a booking accepts; filters only take rooms away; and a room that no
\* active booking keeps from being deleted has no conflict in any interval to come.
QueriesAgree ==
    /\ \A r \in DOMAIN rooms, w \in Intervals :
        /\ r \in FreeRooms(w, NoFilter) <=> CheckAvailability(r, w).available
        /\ CheckAvailability(r, w).available <=> InUse(r) /\ ~Busy(r, w)
        /\ w.start >= now /\ ~HasActiveForRoom(r, now) => ~Busy(r, w)
    /\ \A w \in Intervals, f \in RoomFilters :
        FreeRooms(w, f) = {r \in FreeRooms(w, NoFilter) \cap Listed(f) :
                                f.equipment \subseteq rooms[r].equipment}

\* A weekly report puts each booking on its day: the days are those of seven consecutive
\* dates, a booking stands on the date on which it starts, and the list of that date has
\* it too, with those that started the day before and last into it.  What a user is shown
\* of the week in the list of his bookings is what the reports of all rooms show of him,
\* and whatever begins with the next week.
ReportsAreTrue ==
    \A t \in Instants :
        LET report == [r \in DOMAIN rooms |-> WeeklyReport(r, t)]
        IN  /\ \A r \in DOMAIN rooms, d \in 0 .. DaysPerWeek - 1 :
                LET date == DateOf(t) + d
                    listed == OnDate(r, date)
                IN  /\ report[r][d] = {b \in DOMAIN bookings :
                                        /\ bookings[b].room = r
                                        /\ DateOf(bookings[b].slot.start) = date}
                    /\ report[r][d] \subseteq listed
                    /\ \A b \in listed \ report[r][d] : DateOf(bookings[b].slot.start) < date
            /\ \A user \in Users :
                BookingsOf([user |-> user, status |-> {},
                            from |-> {WeekStart(t)}, to |-> {WeekEnd(t)}])
                = {b \in DOMAIN bookings :
                    /\ bookings[b].user = user
                    /\ \/ bookings[b].slot.start = WeekEnd(t)
                       \/ \E d \in 0 .. DaysPerWeek - 1 : b \in report[bookings[b].room][d]}

\* No booking falls between the queries that look ahead and the one that looks back: what
\* does not keep a room from being deleted is counted in the statistics of that instant,
\* until a month has passed since it began.
NothingFallsBetween ==
    \A r \in DOMAIN rooms, at \in Instants :
        LET recent == {b \in DOMAIN bookings : /\ bookings[b].room = r
                                               /\ Active(b)
                                               /\ bookings[b].slot.start >= at - Month}
        IN  ~HasActiveForRoom(r, at) => BookingCount(r, at) >= Cardinality(recent)

\* Weeks tile the calendar: of the reports for consecutive Mondays each booking stands in
\* exactly one, on one day, and a filter loses none that it matches.
WeeksTile ==
    \A b \in DOMAIN bookings :
        LET date == DateOf(bookings[b].slot.start)
            monday == date - ((date - FirstMonday) % DaysPerWeek)
            mine == [status |-> {bookings[b].status}, user |-> {bookings[b].user}]
            Days(m) == LET report == BookingsByWeek(bookings[b].room, m * Day, mine)
                       IN  {d \in 0 .. DaysPerWeek - 1 : b \in report[d]}
        IN  /\ Days(monday) = {date - monday}
            /\ Days(monday + DaysPerWeek) = {}
            /\ Days(monday - DaysPerWeek) = {}

\* Paging through a list shows every room of it on one page, the same whenever it is asked
\* for, as long as that page has all the rooms of its name.  Nothing but the name orders
\* the rows of one page against the next, and names are not unique: where rooms of one
\* name lie across the end of a page, each may be on any of the pages that they lie on, on
\* several or on none as the pages are asked for, but on no other.
PagesTile ==
    \A f \in RoomFilters, limit \in PageLimits :
        \A r \in Listed(f) :
            LET before == {s \in Listed(f) : rooms[s].name < rooms[r].name}
                upTo == {s \in Listed(f) : rooms[s].name <= rooms[r].name}
                first == Cardinality(before) \div limit
                last == (Cardinality(upTo) - 1) \div limit
            IN  \A n \in 0 .. Cardinality(Listed(f)) :
                    LET pages == Pages(f, limit, n * limit)
                    IN  /\ (\E page \in pages : r \in page) => first <= n /\ n <= last
                        /\ n = first /\ n = last => pages # {} /\ \A page \in pages : r \in page
===============================================================================
