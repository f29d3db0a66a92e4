---------------------------- MODULE Listings_proofs ----------------------------
(***************************************************************************)
(* Theorems about what the booking engine answers: that its queries agree  *)
(* with one another, on rooms, on dates and on pages, in every table that  *)
(* requests can bring about.                                               *)
(***************************************************************************)
EXTENDS RoomService_proofs

-------------------------------------------------------------------------------
(* Queries. *)

\* Wherever rows are well formed, the queries that tell whether a room is taken agree.
LEMMA QueriesAgreeOnRows ==
    ASSUME TypeOK
    PROVE  QueriesAgree
    <1> USE ListingsAssumption
    <1>1. ASSUME NEW b \in DOMAIN bookings
          PROVE  bookings[b].slot.start \in Nat /\ bookings[b].slot.end \in Nat
        BY SlotsAssumption DEF TypeOK, BookingRow
    <1>2. ASSUME NEW w \in Intervals
          PROVE  w.start \in Nat /\ w.end \in Nat
        OBVIOUS
    <1>3. ASSUME NEW r \in DOMAIN rooms, NEW w \in Intervals
          PROVE  Conflicting(r, w) = {} <=> ~Busy(r, w)
        BY <1>1, <1>2 DEF Conflicting, Busy, Overlaps
    <1>4. ASSUME NEW r \in DOMAIN rooms, NEW w \in Intervals
          PROVE  CheckAvailability(r, w).available <=> InUse(r) /\ ~Busy(r, w)
        BY <1>3 DEF CheckAvailability
    <1>5. ASSUME NEW r \in DOMAIN rooms, NEW w \in Intervals
          PROVE  r \in FreeRooms(w, NoFilter) <=> InUse(r) /\ ~Busy(r, w)
        BY DEF FreeRooms, NoFilter, Busy
    <1>6. ASSUME NEW r \in DOMAIN rooms, NEW w \in Intervals,
                 w.start >= now, ~HasActiveForRoom(r, now)
          PROVE  ~Busy(r, w)
        BY <1>1, <1>2, <1>6 DEF HasActiveForRoom, Busy, Overlaps, TypeOK
    <1>7. ASSUME NEW w \in Intervals, NEW f \in RoomFilters
          PROVE  FreeRooms(w, f) = {r \in FreeRooms(w, NoFilter) \cap Listed(f) :
                                        f.equipment \subseteq rooms[r].equipment}
        BY DEF FreeRooms, Listed, NoFilter
    <1> QED BY <1>4, <1>5, <1>6, <1>7 DEF QueriesAgree

\* The queries of free rooms agree in every reachable state, whatever becomes of rooms.
THEOREM QueriesAlwaysAgree == RoomsSpec => []QueriesAgree
    <1>1. RoomsIInv => QueriesAgree
        BY QueriesAgreeOnRows DEF RoomsIInv
    <1> QED BY <1>1, InitRoomsIInv, NextRoomsIInv, PTL DEF RoomsSpec

-------------------------------------------------------------------------------
(* Queries that count. *)

\* What does not keep a room from being deleted has begun, and is counted.
LEMMA NothingFallsBetweenRows ==
    ASSUME TypeOK, FiniteTables
    PROVE  NothingFallsBetween
    <1> SUFFICES ASSUME NEW r \in DOMAIN rooms, NEW at \in Instants, ~HasActiveForRoom(r, at)
                 PROVE  BookingCount(r, at) >=
                            Cardinality({b \in DOMAIN bookings :
                                            /\ bookings[b].room = r
                                            /\ Active(b)
                                            /\ bookings[b].slot.start >= at - Month})
        BY DEF NothingFallsBetween
    <1> DEFINE recent == {b \in DOMAIN bookings : /\ bookings[b].room = r
                                                  /\ Active(b)
                                                  /\ bookings[b].slot.start >= at - Month}
    <1>1. ASSUME NEW b \in DOMAIN bookings
          PROVE  /\ bookings[b].slot.start \in Nat /\ bookings[b].slot.end \in Nat
                 /\ bookings[b].slot.start < bookings[b].slot.end
        BY SlotsAssumption DEF TypeOK, BookingRow
    <1>2. at \in Int /\ Month \in Nat
        BY ListingsAssumption
    <1>3. recent \subseteq LastMonth(r, at)
        BY <1>1, <1>2 DEF HasActiveForRoom, LastMonth, InPeriod
    <1>4. IsFiniteSet(LastMonth(r, at))
        BY FS_Subset DEF LastMonth, InPeriod, FiniteTables
    <1> HIDE DEF recent
    <1>5. Cardinality(recent) <= Cardinality(LastMonth(r, at))
        BY <1>3, <1>4, FS_Subset
    <1>6. Cardinality(recent) \in Nat /\ Cardinality(LastMonth(r, at)) \in Nat
        BY <1>3, <1>4, FS_Subset, FS_CardinalityType
    <1>7. BookingCount(r, at) >= Cardinality(recent)
        BY <1>5, <1>6 DEF BookingCount
    <1> QED BY <1>7 DEF recent

\* No booking escapes both the query that guards a deletion and the one that counts.
THEOREM NothingEverFallsBetween == RoomsSpec => []NothingFallsBetween
    <1>1. RoomsIInv /\ FiniteTables => NothingFallsBetween
        BY NothingFallsBetweenRows DEF RoomsIInv
    <1>2. RoomsIInv /\ FiniteTables /\ [RoomsNext]_roomVars => FiniteTables'
        BY NextRoomsIInv, NextFiniteTables DEF RoomsIInv
    <1>3. RoomsInit => FiniteTables
        BY InitFiniteTables DEF RoomsInit
    <1> QED BY <1>1, <1>2, <1>3, InitRoomsIInv, NextRoomsIInv, PTL DEF RoomsSpec

-------------------------------------------------------------------------------
(* Dates. *)

\* Dates are the days of the calendar: an instant is on the one that it falls into.
LEMMA DateOfInstant ==
    ASSUME NEW t \in Int
    PROVE  /\ DateOf(t) \in Int
           /\ \A date \in Int : DateOf(t) = date <=> date * Day <= t /\ t < (date + 1) * Day
    <1> DEFINE q == t \div Day
    <1>1. q \in Int /\ q * Day <= t /\ t < (q + 1) * Day
        <2>1. /\ t \div Day \in Int /\ t % Day \in 0 .. Day - 1
              /\ t = (Day * (t \div Day)) + (t % Day)
            BY ListingsAssumption
        <2> QED BY <2>1, ListingsAssumption
    <1> HIDE DEF q
    <1>2. ASSUME NEW date \in Int, date * Day <= t, t < (date + 1) * Day
          PROVE  q = date
        <2>1. ~(q < date) /\ ~(date < q)
            BY <1>1, <1>2, ListingsAssumption
        <2> QED BY <1>1, <2>1
    <1> QED BY <1>1, <1>2 DEF q, DateOf

\* Later instants are on later dates, or on the same.
LEMMA DatesAscend ==
    ASSUME NEW t \in Int, NEW date \in Int
    PROVE  /\ t < date * Day <=> DateOf(t) < date
           /\ t >= date * Day <=> DateOf(t) >= date
    <1> DEFINE q == DateOf(t)
    <1>1. q \in Int /\ q * Day <= t /\ t < (q + 1) * Day
        BY DateOfInstant
    <1> HIDE DEF q
    <1>2. q < date => t < date * Day
        BY <1>1, ListingsAssumption
    <1>3. q >= date => t >= date * Day
        BY <1>1, ListingsAssumption
    <1>4. t \in Int /\ date * Day \in Int
        BY ListingsAssumption
    <1> QED BY <1>1, <1>2, <1>3, <1>4 DEF q

\* The day of the week that a report gives an instant: its date, counted from the first one.
LEMMA DayIndexIsDate ==
    ASSUME NEW start \in Int, NEW date \in Int, start >= date * Day
    PROVE  DayIndex(start, date * Day) = DateOf(start) - date
    <1> DEFINE q == DateOf(start)
               a == start - (date * Day)
    <1>1. q \in Int /\ q * Day <= start /\ start < (q + 1) * Day
        BY DateOfInstant
    <1>2. a \in Int /\ a >= 0 /\ date * Day \in Int
        BY ListingsAssumption
    <1>3. (q - date) * Day <= a /\ a < ((q - date) + 1) * Day
        <2> HIDE DEF q
        <2>1. /\ (q - date) * Day = (q * Day) - (date * Day)
              /\ ((q - date) + 1) * Day = ((q + 1) * Day) - (date * Day)
              /\ q * Day \in Int /\ (q + 1) * Day \in Int
            BY <1>1, ListingsAssumption
        <2> QED BY <1>1, <1>2, <2>1
    <1>4. DateOf(a) = q - date
        BY <1>1, <1>2, <1>3, DateOfInstant
    <1> QED BY <1>2, <1>4 DEF DayIndex, GoDiv, DateOf

\* A period of whole days holds the bookings that start on one of its dates.
LEMMA PeriodOfDates ==
    ASSUME TypeOK, NEW r, NEW from \in Int, NEW to \in Int
    PROVE  InPeriod(r, from * Day, to * Day) =
                {b \in DOMAIN bookings : /\ bookings[b].room = r
                                         /\ from <= DateOf(bookings[b].slot.start)
                                         /\ DateOf(bookings[b].slot.start) < to}
    <1>1. ASSUME NEW b \in DOMAIN bookings
          PROVE  /\ bookings[b].slot.start >= from * Day <=>
                        DateOf(bookings[b].slot.start) >= from
                 /\ bookings[b].slot.start < to * Day <=>
                        DateOf(bookings[b].slot.start) < to
                 /\ DateOf(bookings[b].slot.start) \in Int
        <2>1. bookings[b].slot.start \in Int
            BY SlotsAssumption DEF TypeOK, BookingRow
        <2> QED BY <2>1, DatesAscend, DateOfInstant
    <1> QED BY <1>1 DEF InPeriod

\* A report by days puts the bookings of seven dates on the days on which they start.
LEMMA WeekByDay ==
    ASSUME TypeOK, NEW r, NEW first \in Int, NEW bs,
           bs \subseteq InPeriod(r, first * Day, (first + DaysPerWeek) * Day),
           NEW d \in 0 .. DaysPerWeek - 1
    PROVE  ByDay(bs, first * Day)[d] =
                {b \in bs : DateOf(bookings[b].slot.start) = first + d}
    <1>1. ASSUME NEW b \in bs
          PROVE  DayIndex(bookings[b].slot.start, first * Day) = d <=>
                    DateOf(bookings[b].slot.start) = first + d
        <2>1. /\ b \in DOMAIN bookings /\ bookings[b].slot.start >= first * Day
              /\ bookings[b].slot.start \in Int
            BY SlotsAssumption DEF TypeOK, BookingRow, InPeriod
        <2>2. /\ DayIndex(bookings[b].slot.start, first * Day) =
                    DateOf(bookings[b].slot.start) - first
              /\ DateOf(bookings[b].slot.start) \in Int
            BY <2>1, DayIndexIsDate, DateOfInstant
        <2> QED BY <2>2
    <1> QED BY <1>1 DEF ByDay

\* The week that begins with a date.
LEMMA WeekOfDate ==
    ASSUME NEW t \in Int
    PROVE  /\ DateOf(t) \in Int
           /\ WeekStart(t) = DateOf(t) * Day
           /\ WeekEnd(t) = (DateOf(t) + DaysPerWeek) * Day
           /\ WeekStart(t) \in Int /\ WeekEnd(t) \in Int
    <1>1. DateOf(t) \in Int
        BY DateOfInstant
    <1>2. (DateOf(t) + 7) * Day = (DateOf(t) * Day) + (7 * Day)
        BY <1>1, ListingsAssumption
    <1>3. DateOf(t) * Day \in Int /\ 7 * Day \in Int
        BY <1>1, ListingsAssumption
    <1> QED BY <1>1, <1>2, <1>3 DEF WeekStart, WeekEnd, DaysPerWeek

\* A weekly report shows on a day what starts on its date.
LEMMA ReportOfDay ==
    ASSUME TypeOK, NEW r, NEW t \in Int, NEW d \in 0 .. DaysPerWeek - 1
    PROVE  WeeklyReport(r, t)[d] = {b \in DOMAIN bookings :
                                        /\ bookings[b].room = r
                                        /\ DateOf(bookings[b].slot.start) = DateOf(t) + d}
    <1> DEFINE first == DateOf(t)
               bs == InPeriod(r, first * Day, (first + DaysPerWeek) * Day)
    <1>1. first \in Int /\ WeeklyReport(r, t) = ByDay(bs, first * Day)
        BY WeekOfDate DEF WeeklyReport
    <1>2. first + DaysPerWeek \in Int
        BY <1>1 DEF DaysPerWeek
    <1>3. ByDay(bs, first * Day)[d] = {b \in bs : DateOf(bookings[b].slot.start) = first + d}
        BY <1>1, WeekByDay
    <1>4. bs = {b \in DOMAIN bookings : /\ bookings[b].room = r
                                        /\ first <= DateOf(bookings[b].slot.start)
                                        /\ DateOf(bookings[b].slot.start) < first + DaysPerWeek}
        BY <1>1, <1>2, PeriodOfDates
    <1> HIDE DEF first, bs
    <1>5. first <= first + d /\ first + d < first + DaysPerWeek
        BY <1>1 DEF DaysPerWeek
    <1>6. WeeklyReport(r, t)[d] = {b \in DOMAIN bookings :
                                        /\ bookings[b].room = r
                                        /\ DateOf(bookings[b].slot.start) = first + d}
        BY <1>1, <1>3, <1>4, <1>5
    <1> QED BY <1>6 DEF first

\* A report and the list of a date agree.
LEMMA ReportAgreesWithDate ==
    ASSUME TypeOK, NEW r, NEW t \in Int, NEW d \in 0 .. DaysPerWeek - 1
    PROVE  LET date == DateOf(t) + d
               listed == OnDate(r, date)
               shown == WeeklyReport(r, t)[d]
           IN  /\ shown = {b \in DOMAIN bookings :
                            /\ bookings[b].room = r
                            /\ DateOf(bookings[b].slot.start) = date}
               /\ shown \subseteq listed
               /\ \A b \in listed \ shown : DateOf(bookings[b].slot.start) < date
    <1> DEFINE date == DateOf(t) + d
               shown == WeeklyReport(r, t)[d]
    <1>1. date \in Int
        BY WeekOfDate
    <1>2. shown = {b \in DOMAIN bookings : /\ bookings[b].room = r
                                           /\ DateOf(bookings[b].slot.start) = date}
        BY ReportOfDay
    <1> HIDE DEF date, shown
    <1>3. ASSUME NEW b \in DOMAIN bookings
          PROVE  /\ bookings[b].slot.start < (date + 1) * Day <=>
                        DateOf(bookings[b].slot.start) < date + 1
                 /\ DateOf(bookings[b].slot.start) >= date => bookings[b].slot.end > date * Day
                 /\ DateOf(bookings[b].slot.start) \in Int
        <2>1. /\ bookings[b].slot.start \in Int /\ bookings[b].slot.end \in Int
              /\ bookings[b].slot.start < bookings[b].slot.end
            BY SlotsAssumption DEF TypeOK, BookingRow
        <2>2. date + 1 \in Int /\ date * Day \in Int
            BY <1>1, ListingsAssumption
        <2>3. /\ bookings[b].slot.start < (date + 1) * Day <=>
                        DateOf(bookings[b].slot.start) < date + 1
              /\ bookings[b].slot.start >= date * Day <=>
                        DateOf(bookings[b].slot.start) >= date
            BY <1>1, <2>1, <2>2, DatesAscend
        <2> QED BY <2>1, <2>2, <2>3, DateOfInstant
    <1>4. shown \subseteq OnDate(r, date)
        BY <1>1, <1>2, <1>3 DEF OnDate
    <1>5. \A b \in OnDate(r, date) \ shown : DateOf(bookings[b].slot.start) < date
        BY <1>1, <1>2, <1>3 DEF OnDate
    <1> QED BY <1>2, <1>4, <1>5 DEF date, shown

\* What a user is shown of a week is what the reports of all rooms show of him, and what
\* begins with the next week.
LEMMA UserSeesReports ==
    ASSUME TypeOK, NoOrphans, NEW user, NEW t \in Int
    PROVE  BookingsOf([user |-> user, status |-> {},
                       from |-> {WeekStart(t)}, to |-> {WeekEnd(t)}])
           = {b \in DOMAIN bookings :
                /\ bookings[b].user = user
                /\ \/ bookings[b].slot.start = WeekEnd(t)
                   \/ \E d \in 0 .. DaysPerWeek - 1 : b \in WeeklyReport(bookings[b].room, t)[d]}
    <1> DEFINE first == DateOf(t)
    <1>1. /\ first \in Int
          /\ WeekStart(t) = first * Day
          /\ WeekEnd(t) = (first + DaysPerWeek) * Day
          /\ WeekStart(t) \in Int /\ WeekEnd(t) \in Int
        BY WeekOfDate
    <1>2. ASSUME NEW b \in DOMAIN bookings
          PROVE  (\E d \in 0 .. DaysPerWeek - 1 : b \in WeeklyReport(bookings[b].room, t)[d])
                 <=> WeekStart(t) <= bookings[b].slot.start /\ bookings[b].slot.start < WeekEnd(t)
        <2> DEFINE date == DateOf(bookings[b].slot.start)
        <2>1. bookings[b].slot.start \in Int
            BY SlotsAssumption DEF TypeOK, BookingRow
        <2>2. date \in Int
            BY <2>1, DateOfInstant
        <2>3. \A d \in 0 .. DaysPerWeek - 1 :
                    b \in WeeklyReport(bookings[b].room, t)[d] <=> date = first + d
            BY ReportOfDay
        <2>4. first + DaysPerWeek \in Int
            BY <1>1 DEF DaysPerWeek
        <2>5. /\ bookings[b].slot.start >= first * Day <=> date >= first
              /\ bookings[b].slot.start < (first + DaysPerWeek) * Day <=>
                    date < first + DaysPerWeek
            BY <1>1, <2>1, <2>4, DatesAscend
        <2> HIDE DEF first, date
        <2>6. (\E d \in 0 .. DaysPerWeek - 1 : date = first + d)
              <=> first <= date /\ date < first + DaysPerWeek
            <3>1. ASSUME first <= date, date < first + DaysPerWeek
                  PROVE  date - first \in 0 .. DaysPerWeek - 1 /\ date = first + (date - first)
                BY <1>1, <2>2, <3>1 DEF DaysPerWeek
            <3>2. ASSUME NEW d \in 0 .. DaysPerWeek - 1, date = first + d
                  PROVE  first <= date /\ date < first + DaysPerWeek
                BY <1>1, <2>2, <3>2 DEF DaysPerWeek
            <3> QED BY <3>1, <3>2
        <2>7. /\ first <= date <=> date >= first
              /\ WeekStart(t) <= bookings[b].slot.start <=> bookings[b].slot.start >= first * Day
            BY <1>1, <2>1, <2>2
        <2> QED BY <1>1, <2>3, <2>5, <2>6, <2>7
    <1>3. ASSUME NEW b \in DOMAIN bookings
          PROVE  /\ WeekStart(t) <= bookings[b].slot.start
                 /\ bookings[b].slot.start <= WeekEnd(t)
                 <=> \/ bookings[b].slot.start = WeekEnd(t)
                     \/ /\ WeekStart(t) <= bookings[b].slot.start
                        /\ bookings[b].slot.start < WeekEnd(t)
        <2>1. bookings[b].slot.start \in Int
            BY SlotsAssumption DEF TypeOK, BookingRow
        <2>2. WeekStart(t) <= WeekEnd(t)
            BY <1>1, ListingsAssumption DEF DaysPerWeek
        <2> QED BY <1>1, <2>1, <2>2
    <1>4. ASSUME NEW b \in DOMAIN bookings
          PROVE  bookings[b].slot.start >= WeekStart(t) <=> WeekStart(t) <= bookings[b].slot.start
        BY <1>1, SlotsAssumption DEF TypeOK, BookingRow
    <1> QED BY <1>2, <1>3, <1>4 DEF BookingsOf

\* Reports tell the truth about every table whose bookings have their rooms.
LEMMA ReportsOnRows ==
    ASSUME TypeOK, NoOrphans
    PROVE  ReportsAreTrue
    <1> SUFFICES ASSUME NEW t \in Instants
                 PROVE  LET report == [r \in DOMAIN rooms |-> WeeklyReport(r, t)]
                        IN  /\ \A r \in DOMAIN rooms, d \in 0 .. DaysPerWeek - 1 :
                                LET date == DateOf(t) + d
                                    listed == OnDate(r, date)
                                IN  /\ report[r][d] = {b \in DOMAIN bookings :
                                        /\ bookings[b].room = r
                                        /\ DateOf(bookings[b].slot.start) = date}
                                    /\ report[r][d] \subseteq listed
                                    /\ \A b \in listed \ report[r][d] :
                                            DateOf(bookings[b].slot.start) < date
                            /\ \A user \in Users :
                                BookingsOf([user |-> user, status |-> {},
                                            from |-> {WeekStart(t)}, to |-> {WeekEnd(t)}])
                                = {b \in DOMAIN bookings :
                                    /\ bookings[b].user = user
                                    /\ \/ bookings[b].slot.start = WeekEnd(t)
                                       \/ \E d \in 0 .. DaysPerWeek - 1 :
                                                b \in report[bookings[b].room][d]}
        BY DEF ReportsAreTrue
    <1> DEFINE report == [r \in DOMAIN rooms |-> WeeklyReport(r, t)]
    <1>1. t \in Int
        BY ListingsAssumption
    <1>2. \A r \in DOMAIN rooms : report[r] = WeeklyReport(r, t)
        OBVIOUS
    <1>3. \A b \in DOMAIN bookings : report[bookings[b].room] = WeeklyReport(bookings[b].room, t)
        BY <1>2 DEF NoOrphans
    <1> HIDE DEF report
    <1>4. ASSUME NEW r \in DOMAIN rooms, NEW d \in 0 .. DaysPerWeek - 1
          PROVE  LET date == DateOf(t) + d
                     listed == OnDate(r, date)
                 IN  /\ report[r][d] = {b \in DOMAIN bookings :
                            /\ bookings[b].room = r
                            /\ DateOf(bookings[b].slot.start) = date}
                     /\ report[r][d] \subseteq listed
                     /\ \A b \in listed \ report[r][d] : DateOf(bookings[b].slot.start) < date
        BY <1>1, <1>2, ReportAgreesWithDate
    <1>5. ASSUME NEW user \in Users
          PROVE  BookingsOf([user |-> user, status |-> {},
                             from |-> {WeekStart(t)}, to |-> {WeekEnd(t)}])
                 = {b \in DOMAIN bookings :
                     /\ bookings[b].user = user
                     /\ \/ bookings[b].slot.start = WeekEnd(t)
                        \/ \E d \in 0 .. DaysPerWeek - 1 : b \in report[bookings[b].room][d]}
        BY <1>1, <1>3, UserSeesReports
    <1> QED BY <1>4, <1>5 DEF report

\* Whatever is asked of a week, of a date or of a user, whenever it is asked, the answers
\* agree, in every table that requests can bring about.
THEOREM ReportsAreAlwaysTrue == RoomsSpec => []ReportsAreTrue
    <1>1. RoomsIInv => ReportsAreTrue
        BY ReportsOnRows DEF RoomsIInv
    <1> QED BY <1>1, InitRoomsIInv, NextRoomsIInv, PTL DEF RoomsSpec

\* The report by days for a Monday shows what starts on one of the seven dates from it.
LEMMA MondaysReport ==
    ASSUME TypeOK, NEW r, NEW m \in Int, Monday(m), NEW filter, NEW d \in 0 .. DaysPerWeek - 1
    PROVE  BookingsByWeek(r, m * Day, filter)[d] =
                {b \in DOMAIN bookings : /\ bookings[b].room = r
                                         /\ Matches(b, filter)
                                         /\ DateOf(bookings[b].slot.start) = m + d}
    <1> DEFINE all == InPeriod(r, m * Day, (m + DaysPerWeek) * Day)
               bs == {b \in all : Matches(b, filter)}
    <1>1. m * Day \in Int /\ m + DaysPerWeek \in Int
        BY ListingsAssumption DEF DaysPerWeek
    <1>2. DateOf(m * Day) = m
        <2>1. m * Day <= m * Day /\ m * Day < (m + 1) * Day
            BY ListingsAssumption
        <2> QED BY <1>1, <2>1, DateOfInstant
    <1>3. BookingsByWeek(r, m * Day, filter) = ByDay(bs, m * Day)
        BY <1>1, <1>2, WeekOfDate DEF BookingsByWeek
    <1>4. bs \subseteq all
        OBVIOUS
    <1>5. ByDay(bs, m * Day)[d] = {b \in bs : DateOf(bookings[b].slot.start) = m + d}
        BY <1>4, WeekByDay
    <1>6. all = {b \in DOMAIN bookings : /\ bookings[b].room = r
                                         /\ m <= DateOf(bookings[b].slot.start)
                                         /\ DateOf(bookings[b].slot.start) < m + DaysPerWeek}
        BY <1>1, PeriodOfDates
    <1>7. m <= m + d /\ m + d < m + DaysPerWeek
        BY DEF DaysPerWeek
    <1> HIDE DEF all
    <1> QED BY <1>3, <1>5, <1>6, <1>7

\* Every date lies in the week of one Monday.
LEMMA MondayOfDate ==
    ASSUME NEW date \in Int
    PROVE  LET monday == date - ((date - FirstMonday) % DaysPerWeek)
           IN  /\ monday \in Int
               /\ date - monday \in 0 .. DaysPerWeek - 1
               /\ Monday(monday)
               /\ Monday(monday + DaysPerWeek)
               /\ Monday(monday - DaysPerWeek)
    <1> DEFINE k == (date - FirstMonday) % 7
               q == (date - FirstMonday) \div 7
    <1>1. FirstMonday \in 0 .. 6
        BY ListingsAssumption
    <1>2. k \in 0 .. 6 /\ q \in Int /\ date - FirstMonday = (7 * q) + k
        BY <1>1
    <1> HIDE DEF k, q
    <1>3. date - k = (7 * q) + FirstMonday
        BY <1>1, <1>2
    <1>4. \A p \in Int : ((7 * p) + FirstMonday) % 7 = FirstMonday
        BY <1>1
    <1>5. (date - k) % 7 = FirstMonday
        BY <1>2, <1>3, <1>4
    <1>6. ((date - k) + 7) % 7 = FirstMonday
        <2>1. (date - k) + 7 = (7 * (q + 1)) + FirstMonday
            BY <1>1, <1>2, <1>3
        <2>2. q + 1 \in Int
            BY <1>2
        <2>3. ((7 * (q + 1)) + FirstMonday) % 7 = FirstMonday
            BY <1>4, <2>2
        <2> QED BY <2>1, <2>3, Zenon
    <1>7. ((date - k) - 7) % 7 = FirstMonday
        <2>1. (date - k) - 7 = (7 * (q - 1)) + FirstMonday
            BY <1>1, <1>2, <1>3
        <2>2. q - 1 \in Int
            BY <1>2
        <2>3. ((7 * (q - 1)) + FirstMonday) % 7 = FirstMonday
            BY <1>4, <2>2
        <2> QED BY <2>1, <2>3, Zenon
    <1>8. date - k \in Int /\ date - (date - k) = k
        BY <1>2
    <1> QED BY <1>2, <1>5, <1>6, <1>7, <1>8 DEF k, Monday, DaysPerWeek

\* Weeks tile the calendar in every table.
LEMMA WeeksTileRows ==
    ASSUME TypeOK
    PROVE  WeeksTile
    <1> SUFFICES ASSUME NEW b \in DOMAIN bookings
                 PROVE  LET date == DateOf(bookings[b].slot.start)
                            monday == date - ((date - FirstMonday) % DaysPerWeek)
                            mine == [status |-> {bookings[b].status}, user |-> {bookings[b].user}]
                            Days(m) == LET report == BookingsByWeek(bookings[b].room, m * Day, mine)
                                       IN  {d \in 0 .. DaysPerWeek - 1 : b \in report[d]}
                        IN  /\ Days(monday) = {date - monday}
                            /\ Days(monday + DaysPerWeek) = {}
                            /\ Days(monday - DaysPerWeek) = {}
        BY DEF WeeksTile
    <1> DEFINE date == DateOf(bookings[b].slot.start)
               monday == date - ((date - FirstMonday) % DaysPerWeek)
               mine == [status |-> {bookings[b].status}, user |-> {bookings[b].user}]
               Days(m) == {d \in 0 .. DaysPerWeek - 1 :
                                b \in BookingsByWeek(bookings[b].room, m * Day, mine)[d]}
    <1>1. date \in Int
        <2>1. bookings[b].slot.start \in Int
            BY SlotsAssumption DEF TypeOK, BookingRow
        <2> QED BY <2>1, DateOfInstant
    <1>2. /\ monday \in Int
          /\ date - monday \in 0 .. DaysPerWeek - 1
          /\ Monday(monday) /\ Monday(monday + DaysPerWeek) /\ Monday(monday - DaysPerWeek)
        BY <1>1, MondayOfDate
    <1>3. Matches(b, mine)
        BY DEF Matches
    <1>4. ASSUME NEW m \in Int, Monday(m)
          PROVE  Days(m) = {d \in 0 .. DaysPerWeek - 1 : date = m + d}
        <2>1. ASSUME NEW d \in 0 .. DaysPerWeek - 1
              PROVE  b \in BookingsByWeek(bookings[b].room, m * Day, mine)[d] <=> date = m + d
            BY <1>3, <1>4, MondaysReport
        <2> HIDE DEF date, mine
        <2> QED BY <2>1
    <1> HIDE DEF date, monday, mine, Days
    <1>5. Days(monday) = {date - monday}
        <2>1. Days(monday) = {d \in 0 .. DaysPerWeek - 1 : date = monday + d}
            BY <1>2, <1>4
        <2> QED BY <1>1, <1>2, <2>1 DEF DaysPerWeek
    <1>6. Days(monday + DaysPerWeek) = {}
        <2>1. Days(monday + DaysPerWeek) =
                    {d \in 0 .. DaysPerWeek - 1 : date = (monday + DaysPerWeek) + d}
            BY <1>2, <1>4 DEF DaysPerWeek
        <2> QED BY <1>1, <1>2, <2>1 DEF DaysPerWeek
    <1>7. Days(monday - DaysPerWeek) = {}
        <2>1. Days(monday - DaysPerWeek) =
                    {d \in 0 .. DaysPerWeek - 1 : date = (monday - DaysPerWeek) + d}
            BY <1>2, <1>4 DEF DaysPerWeek
        <2> QED BY <1>1, <1>2, <2>1 DEF DaysPerWeek
    <1> QED BY <1>5, <1>6, <1>7 DEF date, monday, mine, Days

\* No booking is lost, or shown twice, between the reports for one week and the next.
THEOREM WeeksAlwaysTile == RoomsSpec => []WeeksTile
    <1>1. RoomsIInv => WeeksTile
        BY WeeksTileRows DEF RoomsIInv
    <1> QED BY <1>1, InitRoomsIInv, NextRoomsIInv, PTL DEF RoomsSpec
-------------------------------------------------------------------------------
(* Pages. *)

\* The rooms that stand before a room by name, and those that do not stand after it.
Before(rs, r) == {s \in rs : rooms[s].name < rooms[r].name}
UpTo(rs, r) == {s \in rs : rooms[s].name <= rooms[r].name}

NamesOK(rs) == IsFiniteSet(rs) /\ \A r \in rs : rooms[r].name \in Nat

\* In every order of some rooms, each stands after those before it by name, and among
\* those up to it.
LEMMA PositionByName ==
    ASSUME NEW rs, NamesOK(rs), NEW order \in Orders(rs), NEW i \in 1 .. Cardinality(rs)
    PROVE  /\ Cardinality(Before(rs, order[i])) \in Nat
           /\ Cardinality(UpTo(rs, order[i])) \in Nat
           /\ Cardinality(Before(rs, order[i])) < i
           /\ i <= Cardinality(UpTo(rs, order[i]))
    <1> DEFINE N == Cardinality(rs)
               r == order[i]
    <1>1. N \in Nat
        BY FS_CardinalityType DEF NamesOK
    <1>2. /\ order \in [1 .. N -> rs]
          /\ \A j, k \in 1 .. N : order[j] = order[k] => j = k
          /\ \A j, k \in 1 .. N : j < k => rooms[order[j]].name <= rooms[order[k]].name
        BY DEF Orders, SortedBy
    <1>3. \A s \in rs : rooms[s].name \in Nat
        BY DEF NamesOK
    <1>4. \A s \in rs : \E j \in 1 .. N : order[j] = s
        <2>1. order \in Injection(1 .. N, rs)
            BY <1>2 DEF Injection, IsInjective
        <2>2. IsFiniteSet(1 .. N) /\ Cardinality(1 .. N) = N
            BY <1>1, FS_Interval
        <2>3. order \in Surjection(1 .. N, rs)
            BY <2>1, <2>2, FS_Injection DEF NamesOK
        <2> QED BY <2>3 DEF Surjection
    <1>5. /\ IsFiniteSet(Before(rs, r)) /\ Cardinality(Before(rs, r)) \in Nat
          /\ IsFiniteSet(UpTo(rs, r)) /\ Cardinality(UpTo(rs, r)) \in Nat
        <2>1. Before(rs, r) \in SUBSET rs /\ UpTo(rs, r) \in SUBSET rs
            BY DEF Before, UpTo
        <2> QED BY <2>1, FS_Subset, FS_CardinalityType DEF NamesOK
    <1>6. i <= Cardinality(UpTo(rs, r))
        <2> DEFINE first == [j \in 1 .. i |-> order[j]]
        <2>1. \A j \in 1 .. i : j \in 1 .. N
            BY <1>1
        <2>2. first \in [1 .. i -> UpTo(rs, r)]
            <3>1. ASSUME NEW j \in 1 .. i
                  PROVE  order[j] \in UpTo(rs, r)
                <4>1. j = i \/ j < i
                    BY <1>1
                <4>2. order[j] \in rs /\ order[i] \in rs
                    BY <1>2, <2>1
                <4>3. rooms[order[j]].name <= rooms[order[i]].name
                    BY <1>2, <1>3, <2>1, <4>1, <4>2
                <4> QED BY <4>2, <4>3 DEF UpTo
            <3> QED BY <3>1
        <2>3. first \in Injection(1 .. i, UpTo(rs, r))
            BY <1>2, <2>1, <2>2 DEF Injection, IsInjective
        <2>4. Cardinality(1 .. i) = i
            BY <1>1, FS_Interval
        <2> QED BY <1>5, <2>3, <2>4, FS_Injection
    <1>7. Cardinality(Before(rs, r)) <= i - 1
        <2> DEFINE B == Before(rs, r)
                   at == [s \in B |-> CHOOSE j \in 1 .. N : order[j] = s]
        <2>1. ASSUME NEW s \in B
              PROVE  at[s] \in 1 .. i - 1 /\ order[at[s]] = s
            <3>1. s \in rs /\ rooms[s].name < rooms[r].name
                BY DEF Before
            <3>2. at[s] \in 1 .. N /\ order[at[s]] = s
                BY <1>4, <3>1
            <3> HIDE DEF at
            <3>3. ~(i <= at[s])
                <4>1. r \in rs /\ rooms[r].name \in Nat /\ rooms[s].name \in Nat
                    BY <1>2, <1>3, <3>1
                <4>2. at[s] = i => s = r
                    BY <3>2
                <4>3. i < at[s] => rooms[r].name <= rooms[s].name
                    BY <1>2, <3>2
                <4> QED BY <1>1, <3>1, <3>2, <4>1, <4>2, <4>3
            <3> QED BY <1>1, <3>2, <3>3
        <2> HIDE DEF at
        <2>2. at \in [B -> 1 .. i - 1]
            BY <2>1 DEF at
        <2>3. at \in Injection(B, 1 .. i - 1)
            BY <2>1, <2>2 DEF Injection, IsInjective
        <2>4. IsFiniteSet(1 .. i - 1) /\ Cardinality(1 .. i - 1) = i - 1
            <3>1. i \in Nat /\ i >= 1 /\ 1 \in Int /\ i - 1 \in Int
                BY <1>1
            <3>2. /\ IsFiniteSet(1 .. i - 1)
                  /\ Cardinality(1 .. i - 1) = IF 1 > i - 1 THEN 0 ELSE (i - 1) - 1 + 1
                BY <3>1, FS_Interval
            <3> QED BY <3>1, <3>2
        <2> QED BY <2>3, <2>4, FS_Injection
    <1> QED BY <1>1, <1>5, <1>6, <1>7

\* A way to break ties between rooms of one name, and the rooms that it lets a room follow.
Ties(rs) == Injection(rs, Nat)

Follows(tie, r, s) == \/ rooms[s].name < rooms[r].name
                      \/ rooms[s].name = rooms[r].name /\ tie[s] <= tie[r]

Rank(rs, tie, r) == Cardinality({s \in rs : Follows(tie, r, s)})

\* With ties broken each room has a rank of its own, which follows the names.
LEMMA RankByName ==
    ASSUME NEW rs, NamesOK(rs), NEW tie \in Ties(rs)
    PROVE  /\ \A r \in rs : Rank(rs, tie, r) \in 1 .. Cardinality(rs)
           /\ \A r, s \in rs : ~Follows(tie, r, s) => Rank(rs, tie, r) < Rank(rs, tie, s)
    <1> DEFINE Up(r) == {s \in rs : Follows(tie, r, s)}
    <1>1. Cardinality(rs) \in Nat
        BY FS_CardinalityType DEF NamesOK
    <1>2. \A r \in rs : rooms[r].name \in Nat /\ tie[r] \in Nat
        BY DEF NamesOK, Ties, Injection
    <1>3. ASSUME NEW r \in rs
          PROVE  /\ IsFiniteSet(Up(r)) /\ Cardinality(Up(r)) \in 1 .. Cardinality(rs)
                 /\ r \in Up(r)
        <2>1. Up(r) \in SUBSET rs
            OBVIOUS
        <2>2. r \in Up(r)
            BY <1>2 DEF Follows
        <2> HIDE DEF Up
        <2>3. IsFiniteSet(Up(r)) /\ Cardinality(Up(r)) <= Cardinality(rs)
            BY <2>1, FS_Subset DEF NamesOK
        <2>4. Cardinality(Up(r)) \in Nat /\ Cardinality(Up(r)) # 0
            BY <2>2, <2>3, FS_EmptySet, FS_CardinalityType
        <2> QED BY <1>1, <2>2, <2>3, <2>4
    <1>4. ASSUME NEW r \in rs, NEW s \in rs, ~Follows(tie, r, s)
          PROVE  Cardinality(Up(r)) < Cardinality(Up(s))
        <2>1. \A x \in rs : Follows(tie, r, x) => Follows(tie, s, x)
            BY <1>2, <1>4 DEF Follows
        <2>2. Up(r) \in SUBSET Up(s)
            BY <2>1
        <2>3. s \in Up(s) /\ s \notin Up(r)
            BY <1>3, <1>4
        <2> HIDE DEF Up
        <2>4. /\ Cardinality(Up(r)) <= Cardinality(Up(s))
              /\ Cardinality(Up(r)) # Cardinality(Up(s))
            BY <1>3, <2>2, <2>3, FS_Subset
        <2> QED BY <1>1, <1>3, <2>4
    <1> QED BY <1>3, <1>4 DEF Rank

\* Hence finitely many rooms can be put in order.
LEMMA SomeOrder ==
    ASSUME NEW rs, NamesOK(rs)
    PROVE  Orders(rs) # {}
    <1> DEFINE N == Cardinality(rs)
    <1>1. N \in Nat /\ ExistsBijection(1 .. N, rs)
        BY FS_CardinalityType DEF NamesOK
    <1>2. PICK tie : tie \in Ties(rs)
        <2>1. PICK g : g \in Bijection(1 .. N, rs)
            BY <1>1 DEF ExistsBijection
        <2>2. \A r \in rs : \E j \in 1 .. N : g[j] = r
            BY <2>1 DEF Bijection, Surjection
        <2> DEFINE t == [r \in rs |-> CHOOSE j \in 1 .. N : g[j] = r]
        <2>3. \A r \in rs : t[r] \in 1 .. N /\ g[t[r]] = r
            BY <2>2
        <2>4. t \in [rs -> Nat]
            BY <1>1, <2>3
        <2> HIDE DEF t
        <2>5. t \in Ties(rs)
            BY <2>3, <2>4 DEF Ties, Injection, IsInjective
        <2> QED BY <2>5
    <1> DEFINE f == [r \in rs |-> Rank(rs, tie, r)]
    <1>3. f \in [rs -> 1 .. N]
        BY <1>2, RankByName
    <1>4. \A r \in rs : rooms[r].name \in Nat /\ tie[r] \in Nat
        BY <1>2 DEF NamesOK, Ties, Injection
    <1>5. \A r, s \in rs : ~Follows(tie, r, s) => f[r] < f[s]
        BY <1>2, RankByName
    <1> HIDE DEF f
    <1>6. ASSUME NEW r \in rs, NEW s \in rs, f[r] = f[s]
          PROVE  r = s
        <2>1. f[r] \in Nat
            BY <1>1, <1>3
        <2>2. Follows(tie, r, s) /\ Follows(tie, s, r)
            BY <1>5, <1>6, <2>1
        <2>3. tie[r] = tie[s]
            BY <1>4, <2>2 DEF Follows
        <2> QED BY <1>2, <2>3 DEF Ties, Injection, IsInjective
    <1>7. \A i \in 1 .. N : \E r \in rs : f[r] = i
        <2>1. f \in Injection(rs, 1 .. N)
            BY <1>3, <1>6 DEF Injection, IsInjective
        <2>2. IsFiniteSet(1 .. N) /\ Cardinality(1 .. N) = N
            BY <1>1, FS_Interval
        <2>3. f \in Surjection(rs, 1 .. N)
            BY <2>1, <2>2, FS_Injection DEF NamesOK
        <2> QED BY <2>3 DEF Surjection
    <1> DEFINE order == [i \in 1 .. N |-> CHOOSE r \in rs : f[r] = i]
    <1>8. order \in [1 .. N -> rs] /\ \A i \in 1 .. N : f[order[i]] = i
        BY <1>7
    <1> HIDE DEF order
    <1>9. \A i, j \in DOMAIN order : order[i] = order[j] => i = j
        BY <1>8
    <1>10. ASSUME NEW i \in DOMAIN order, NEW j \in DOMAIN order, i < j
           PROVE  rooms[order[i]].name <= rooms[order[j]].name
        <2>1. order[i] \in rs /\ order[j] \in rs /\ i \in 1 .. N /\ j \in 1 .. N
            BY <1>8
        <2>2. Follows(tie, order[j], order[i])
            <3>1. ~(f[order[j]] < f[order[i]])
                BY <1>1, <1>8, <1>10, <2>1
            <3> QED BY <1>5, <2>1, <3>1
        <2> QED BY <1>4, <2>1, <2>2 DEF Follows
    <1>11. order \in Orders(rs)
        BY <1>8, <1>9, <1>10 DEF Orders, SortedBy
    <1> QED BY <1>11

\* The page that a position is on.
LEMMA PageOf ==
    ASSUME NEW a \in Nat, NEW limit \in Nat \ {0}
    PROVE  /\ a \div limit \in Nat
           /\ (a \div limit) * limit <= a
           /\ a < (a \div limit) * limit + limit
    <1> DEFINE m == a \div limit
    <1>1. /\ m \in Int /\ a % limit \in 0 .. limit - 1
          /\ a = (limit * m) + (a % limit)
        OBVIOUS
    <1>2. m * limit <= a /\ a < (m * limit) + limit /\ m * limit \in Int
        BY <1>1
    <1> HIDE DEF m
    <1>3. m >= 0
        <2>1. ASSUME m <= -1
              PROVE  FALSE
            <3>1. (m * limit) + limit <= 0
                BY <1>1, <2>1
            <3> QED BY <1>2, <3>1
        <2> QED BY <1>1, <2>1
    <1> QED BY <1>1, <1>2, <1>3 DEF m

\* A page on which a position is does not come before that of a lower position.
LEMMA PagesAscend ==
    ASSUME NEW a \in Nat, NEW b \in Nat, a <= b, NEW limit \in Nat \ {0}, NEW n \in Nat
    PROVE  /\ b < (n * limit) + limit => a \div limit <= n
           /\ n * limit <= a => n <= b \div limit
    <1> DEFINE m == a \div limit
               k == b \div limit
    <1>1. /\ m \in Nat /\ m * limit <= a /\ m * limit \in Nat
          /\ k \in Nat /\ b < (k * limit) + limit /\ k * limit \in Nat
        BY PageOf
    <1> HIDE DEF m, k
    <1>2. n * limit \in Nat
        OBVIOUS
    <1>3. ASSUME b < (n * limit) + limit, n + 1 <= m
          PROVE  FALSE
        <2>1. (n * limit) + limit <= m * limit
            BY <1>1, <1>3
        <2> QED BY <1>1, <1>2, <1>3, <2>1
    <1>4. ASSUME n * limit <= a, k + 1 <= n
          PROVE  FALSE
        <2>1. (k * limit) + limit <= n * limit
            BY <1>1, <1>4
        <2> QED BY <1>1, <1>2, <1>4, <2>1
    <1> QED BY <1>1, <1>3, <1>4 DEF m, k

\* There are finitely many rooms, whatever the set of their ids.
FiniteRooms == IsFiniteSet(DOMAIN rooms)

\* Rooms of one name share the pages they lie on, and with no others.
LEMMA PagesTileRows ==
    ASSUME RowsOK, FiniteRooms
    PROVE  PagesTile
    <1> SUFFICES ASSUME NEW f \in RoomFilters, NEW limit \in PageLimits, NEW r \in Listed(f),
                        NEW n \in 0 .. Cardinality(Listed(f))
                 PROVE  LET first == Cardinality(Before(Listed(f), r)) \div limit
                            last == (Cardinality(UpTo(Listed(f), r)) - 1) \div limit
                            pages == Pages(f, limit, n * limit)
                        IN  /\ (\E page \in pages : r \in page) => first <= n /\ n <= last
                            /\ n = first /\ n = last =>
                                    pages # {} /\ \A page \in pages : r \in page
        BY DEF PagesTile, Before, UpTo
    <1> DEFINE rs == Listed(f)
               N == Cardinality(rs)
               a == Cardinality(Before(rs, r))
               z == Cardinality(UpTo(rs, r)) - 1
               Cut(order) == {order[i] : i \in {j \in DOMAIN order :
                                    n * limit < j /\ j <= n * limit + limit}}
    <1> HIDE DEF rs
    <1>1. NamesOK(rs) /\ r \in rs
        <2>1. IsFiniteSet(rs)
            BY FS_Subset DEF Listed, FiniteRooms, rs
        <2>2. \A s \in rs : s \in DOMAIN rooms /\ rooms[s].name \in Nat
            BY DEF Listed, RowsOK, RoomRow, rs
        <2> QED BY <2>1, <2>2 DEF NamesOK, rs
    <1>2. limit \in Nat \ {0}
        BY ListingsAssumption
    <1>3. N \in Nat
        BY <1>1, FS_CardinalityType DEF NamesOK
    <1>4. n \in Nat /\ n * limit \in Nat
        BY <1>2, <1>3 DEF rs
    <1>5. Pages(f, limit, n * limit) = {Cut(order) : order \in Orders(rs)}
        BY DEF Pages, rs
    <1>6. ASSUME NEW order \in Orders(rs)
          PROVE  /\ DOMAIN order = 1 .. N
                 /\ \E i \in 1 .. N : order[i] = r
                 /\ \A i \in 1 .. N : order[i] = r =>
                        /\ a \in Nat /\ z \in Nat /\ i - 1 \in Nat
                        /\ a <= i - 1 /\ i - 1 <= z
        <2>1. order \in [1 .. N -> rs] /\ \A i, j \in 1 .. N : order[i] = order[j] => i = j
            BY DEF Orders
        <2>2. order \in Injection(1 .. N, rs)
            BY <2>1 DEF Injection, IsInjective
        <2>3. IsFiniteSet(1 .. N) /\ Cardinality(1 .. N) = N
            BY <1>3, FS_Interval
        <2>4. order \in Surjection(1 .. N, rs)
            BY <2>2, <2>3, FS_Injection, <1>1 DEF NamesOK
        <2>5. \E i \in 1 .. N : order[i] = r
            BY <1>1, <2>4 DEF Surjection
        <2>6. ASSUME NEW i \in 1 .. N, order[i] = r
              PROVE  /\ a \in Nat /\ z \in Nat /\ i - 1 \in Nat
                     /\ a <= i - 1 /\ i - 1 <= z
            <3>1. /\ a \in Nat /\ Cardinality(UpTo(rs, r)) \in Nat
                  /\ a < i /\ i <= Cardinality(UpTo(rs, r))
                BY <1>1, <2>6, PositionByName
            <3> QED BY <1>3, <3>1
        <2> QED BY <2>1, <2>5, <2>6
    <1> HIDE DEF a, z, N, Cut
    <1>7. ASSUME NEW page \in Pages(f, limit, n * limit), r \in page
          PROVE  a \div limit <= n /\ n <= z \div limit
        <2>1. PICK order \in Orders(rs) : page = Cut(order)
            BY <1>5
        <2>2. PICK i \in DOMAIN order : /\ n * limit < i /\ i <= n * limit + limit
                                        /\ order[i] = r
            BY <1>7, <2>1 DEF Cut
        <2>3. /\ a \in Nat /\ z \in Nat /\ i - 1 \in Nat
              /\ a <= i - 1 /\ i - 1 <= z
            BY <1>6, <2>2
        <2>4. n * limit <= i - 1 /\ i - 1 < (n * limit) + limit
            <3>1. i \in 1 .. N
                BY <1>6
            <3>2. i \in Int
                BY <1>3, <3>1
            <3> QED BY <1>2, <1>4, <2>2, <3>2
        <2> QED BY <1>2, <1>4, <2>3, <2>4, PagesAscend
    <1>8. ASSUME n = a \div limit, n = z \div limit, NEW order \in Orders(rs)
          PROVE  r \in Cut(order)
        <2>1. PICK i \in 1 .. N : order[i] = r
            BY <1>6
        <2>2. /\ a \in Nat /\ z \in Nat /\ i - 1 \in Nat
              /\ a <= i - 1 /\ i - 1 <= z
            BY <1>6, <2>1
        <2>3. n * limit <= a /\ z < (n * limit) + limit
            BY <1>2, <1>8, <2>2, PageOf
        <2>4. n * limit < i /\ i <= n * limit + limit
            BY <1>2, <1>3, <1>4, <2>2, <2>3
        <2> QED BY <1>6, <2>1, <2>4 DEF Cut
    <1>9. Orders(rs) # {}
        BY <1>1, SomeOrder
    <1>10. n = a \div limit /\ n = z \div limit =>
                /\ Pages(f, limit, n * limit) # {}
                /\ \A page \in Pages(f, limit, n * limit) : r \in page
        BY <1>5, <1>8, <1>9
    <1> QED BY <1>7, <1>10 DEF a, z, rs

\* A step adds one room at most.
LEMMA FiniteRoomsStep ==
    ASSUME RoomsIInv, FiniteRooms, [RoomsNext]_roomVars
    PROVE  FiniteRooms'
    <1> USE DEF RoomsIInv, FiniteRooms
    <1>1. CASE RoomsKept
        BY <1>1 DEF RoomsKept
    <1>2. ASSUME NEW q \in Requests, NEW r \in Rooms, NEW in \in NewRooms, RoomCreate(q, r, in)
          PROVE  FiniteRooms'
        <2>1. DOMAIN rooms' = DOMAIN rooms \cup {r}
            BY <1>2, CreateStep
        <2> QED BY <2>1, FS_AddElement
    <1>3. ASSUME NEW q \in Requests, UpdateCommit(q) \/ DeleteCommit(q),
                 request[q].room \in DOMAIN rooms
          PROVE  FiniteRooms'
        <2>1. DOMAIN rooms' \subseteq DOMAIN rooms
            BY <1>3, UpdateStep, DeleteStep
        <2> QED BY <2>1, FS_Subset
    <1>4. ASSUME NEW r \in Rooms, NEW status \in RoomStatus, OperatorSets(r, status)
          PROVE  FiniteRooms'
        <2>1. DOMAIN rooms' = DOMAIN rooms
            BY <1>4, OperatorStep
        <2> QED BY <2>1
    <1> QED BY <1>1, <1>2, <1>3, <1>4, RoomsChange

\* However many rooms there are, and whatever the size of a page, a room is on no page but
\* those that the rooms of its name lie on, and always on that page if it is only one.
THEOREM PagesAlwaysTile == RoomsSpec => []PagesTile
    <1>1. RoomsIInv /\ FiniteRooms => PagesTile
        BY PagesTileRows DEF RoomsIInv, RoomsInv
    <1>2. RoomsIInv /\ FiniteRooms /\ [RoomsNext]_roomVars => FiniteRooms'
        BY FiniteRoomsStep
    <1>3. RoomsInit => FiniteRooms
        BY FS_EmptySet DEF RoomsInit, Empty, FiniteRooms
    <1> QED BY <1>1, <1>2, <1>3, InitRoomsIInv, NextRoomsIInv, PTL DEF RoomsSpec
===============================================================================
