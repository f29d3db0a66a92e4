--------------------------- MODULE RoomService_proofs ---------------------------
(***************************************************************************)
(* Theorems about rooms and the reservations made in them, for every set   *)
(* of rooms, users, ids, intervals and requests and every bound.           *)
(***************************************************************************)
EXTENDS RoomService, Reservations_proofs

-------------------------------------------------------------------------------
(* Requests. *)

\* What each request carries.
LEMMA CallShape ==
    ASSUME RequestOK, NEW q \in Requests
    PROVE  LET c == request[q]
           IN  /\ c.op = "update" =>
                    c.room \in Rooms /\ c.read \in RoomRow /\ c.change \in RoomChanges
               /\ c.op = "create" => /\ c.room \in Rooms /\ c.read \in RoomRow
                                     /\ c.user \in Users /\ c.slot \in Slots
               /\ c.op = "confirm" =>
                    c.room \in Rooms /\ c.read \in RoomRow /\ c.entry \in WaitlistId
               /\ c.op = "delete" => c.room \in Rooms
    BY DEF RequestOK, Call, Idle

\* A request that begins is a call; one that ends is idle.
LEMMA BecomesOK ==
    ASSUME RequestOK, NEW q \in Requests, NEW what \in {Idle} \cup Call, Becomes(q, what)
    PROVE  RequestOK'
    BY DEF RequestOK, Becomes

\* Whatever becomes of rooms, the tables of the store change by its own transactions.
LEMMA StoreStep ==
    ASSUME RequestOK, DOMAIN rooms \subseteq Rooms, [RoomsNext]_roomVars
    PROVE  [Next]_vars
    <1>1. ASSUME NEW q \in Requests, Start(q)
          PROVE  UNCHANGED vars
        BY <1>1 DEF Start, RoomCreate, UpdateStart, DeleteStart, CreateStart, ConfirmStart,
                    Accept, vars
    <1>2. ASSUME NEW q \in Requests, Finish(q)
          PROVE  [Next]_vars
        <2>1. CASE UpdateCommit(q) \/ DeleteCommit(q) \/ (request[q] # Idle /\ GiveUp(q))
            BY <2>1 DEF UpdateCommit, DeleteCommit, GiveUp, vars
        <2>2. CASE CreateCommit(q)
            <3> DEFINE c == request[q]
            <3>1. c.room \in Rooms /\ c.user \in Users /\ c.slot \in Slots
                BY <2>2, CallShape DEF CreateCommit
            <3>2. StatusFor(c.read) \in {"confirmed", "pending_approval"}
                BY DEF StatusFor
            <3>3. \/ UNCHANGED vars
                  \/ \E id \in BookingId :
                        CreateChecked(id, c.room, c.user, c.slot, StatusFor(c.read))
                BY <2>2 DEF CreateCommit, GiveUp, vars
            <3> QED BY <3>1, <3>2, <3>3 DEF Next
        <2>3. CASE ConfirmCommit(q)
            <3> DEFINE e == request[q].entry
            <3>1. e \in WaitlistId
                BY <2>3, CallShape DEF ConfirmCommit
            <3>2. UNCHANGED vars \/ \E id \in BookingId : ConfirmAndBook(e, id)
                BY <2>3 DEF ConfirmCommit, GiveUp, vars
            <3> QED BY <3>1, <3>2 DEF Next
        <2> QED BY <1>2, <2>1, <2>2, <2>3 DEF Finish
    <1>3. ASSUME NEW r, NEW status, OperatorSets(r, status)
          PROVE  UNCHANGED vars
        BY <1>3 DEF OperatorSets, vars
    <1>4. CASE OtherTransactions
        BY <1>4 DEF OtherTransactions, Next
    <1>5. CASE RoomsTick
        BY <1>5 DEF RoomsTick, Next
    <1>6. CASE UNCHANGED roomVars
        BY <1>6 DEF roomVars, vars
    <1> QED BY <1>1, <1>2, <1>3, <1>4, <1>5, <1>6 DEF RoomsNext

-------------------------------------------------------------------------------
(* Rows of rooms. *)

\* What is given takes the place of what is there.
LEMMA GivenValue ==
    ASSUME NEW opt, NEW current, NEW S, opt \subseteq S, current \in S
    PROVE  Given(opt, current) \in S
    BY DEF Given

\* A room that has been changed, and found valid, is a room.
LEMMA MergeRow ==
    ASSUME NEW row \in RoomRow, NEW c \in RoomChanges, Valid(Merge(row, c))
    PROVE  Merge(row, c) \in RoomRow
    <1> DEFINE n == Given(c.name, row.name)
               k == Given(c.capacity, row.capacity)
               fl == Given(c.floor, row.floor)
               eq == Given(c.equipment, row.equipment)
    <1>1. /\ c.name \subseteq Nat /\ c.capacity \subseteq Int /\ c.floor \subseteq Int
          /\ c.equipment \subseteq SUBSET Equipment
        BY RoomsAssumption
    <1>2. /\ row.name \in Nat /\ row.capacity \in Int /\ row.floor \in Int
          /\ row.equipment \in SUBSET Equipment /\ row.status \in RoomStatus
        BY DEF RoomRow
    <1>3. /\ n \in Nat
          /\ k \in Int
          /\ fl \in Int
          /\ eq \in SUBSET Equipment
        <2>1. n \in Nat
            BY <1>1, <1>2, GivenValue
        <2>2. k \in Int
            BY <1>1, <1>2, GivenValue
        <2>3. fl \in Int
            BY <1>1, <1>2, GivenValue
        <2>4. eq \in SUBSET Equipment
            <3> HIDE DEF eq
            <3>1. \A S : c.equipment \subseteq S /\ row.equipment \in S => eq \in S
                BY GivenValue, Zenon DEF eq
            <3> QED BY <1>1, <1>2, <3>1
        <2> QED BY <2>1, <2>2, <2>3, <2>4
    <1>4. Merge(row, c) = [row EXCEPT !.name = n, !.capacity = k, !.floor = fl, !.equipment = eq]
        BY DEF Merge
    <1> HIDE DEF n, k, fl, eq
    <1>5. n # 0 /\ k >= 1
        BY <1>4 DEF Valid, RoomRow
    <1>6. n \in Nat \ {0} /\ k \in Nat \ {0}
        BY <1>3, <1>5
    <1>7. [row EXCEPT !.name = n, !.capacity = k, !.floor = fl, !.equipment = eq] \in RoomRow
        BY <1>3, <1>6 DEF RoomRow
    <1> QED BY <1>4, <1>7

\* The fields of a room.
LEMMA RowFields ==
    ASSUME NEW row \in RoomRow
    PROVE  DOMAIN row = Fields
    BY DEF RoomRow, Fields

\* The fields that are given are as asked; the others are as they were read.
LEMMA MergeFields ==
    ASSUME NEW row \in RoomRow, NEW c \in RoomChanges, NEW f \in Fields
    PROVE  /\ f \in GivenFields(c) => \A v : Merge(row, c)[f] = Given(c[f], v)
           /\ f \notin GivenFields(c) => Merge(row, c)[f] = row[f]
    <1>1. DOMAIN c = {"name", "capacity", "floor", "equipment"}
        BY RoomsAssumption
    <1>2. /\ Merge(row, c)["name"] = Given(c["name"], row["name"])
          /\ Merge(row, c)["capacity"] = Given(c["capacity"], row["capacity"])
          /\ Merge(row, c)["floor"] = Given(c["floor"], row["floor"])
          /\ Merge(row, c)["equipment"] = Given(c["equipment"], row["equipment"])
          /\ Merge(row, c)["status"] = row["status"]
        BY DEF Merge, RoomRow
    <1>3. \A opt, u, v : opt # {} => Given(opt, u) = Given(opt, v)
        BY DEF Given
    <1>4. \A u : Given({}, u) = u
        BY DEF Given
    <1> QED BY <1>1, <1>2, <1>3, <1>4 DEF GivenFields, Fields

-------------------------------------------------------------------------------
(* What requests in flight know. *)

\* An update was found valid, and a room that is to be booked in service, when the request
\* read the room.
TrueCall(c) ==
    /\ c.op = "update" => Valid(Merge(c.read, c.change))
    /\ c.op \in {"create", "confirm"} => c.read.status = "active"

RowsOK == DOMAIN rooms \subseteq Rooms /\ rooms \in [DOMAIN rooms -> RoomRow]

CallsOK == RequestOK /\ \A q \in Requests : TrueCall(request[q])

\* A request that begins with a call that is true leaves all requests in form.
LEMMA AcceptOK ==
    ASSUME CallsOK, NEW q \in Requests, NEW call \in Call, TrueCall(call), Becomes(q, call)
    PROVE  CallsOK'
    <1>1. RequestOK'
        BY BecomesOK DEF CallsOK
    <1>2. \A p \in Requests : request'[p] = IF p = q THEN call ELSE request[p]
        BY DEF Becomes, CallsOK, RequestOK
    <1>3. ASSUME NEW p \in Requests
          PROVE  TrueCall(request'[p])
        BY <1>2 DEF CallsOK
    <1>4. \A p \in Requests : TrueCall(request[p])'
        BY <1>3 DEF TrueCall
    <1> QED BY <1>1, <1>4 DEF CallsOK

\* A request that ends leaves the others as they are.
LEMMA EndOK ==
    ASSUME CallsOK, NEW q \in Requests, Becomes(q, Idle)
    PROVE  CallsOK'
    <1>1. RequestOK'
        BY BecomesOK DEF CallsOK
    <1>2. \A p \in Requests : request'[p] = IF p = q THEN Idle ELSE request[p]
        BY DEF Becomes, CallsOK, RequestOK
    <1>3. TrueCall(Idle)
        BY DEF TrueCall, Idle
    <1>4. ASSUME NEW p \in Requests
          PROVE  TrueCall(request'[p])
        BY <1>2, <1>3 DEF CallsOK
    <1>5. \A p \in Requests : TrueCall(request[p])'
        BY <1>4 DEF TrueCall
    <1> QED BY <1>1, <1>5 DEF CallsOK

\* No request forgets or invents what it read.
LEMMA CallsStep ==
    ASSUME TypeOK, RowsOK, CallsOK, [RoomsNext]_roomVars
    PROVE  CallsOK'
    <1>1. ASSUME UNCHANGED request
          PROVE  CallsOK'
        <2>1. RequestOK'
            BY <1>1 DEF CallsOK, RequestOK
        <2>2. \A p \in Requests : TrueCall(request[p])'
            BY <1>1 DEF CallsOK, TrueCall
        <2> QED BY <2>1, <2>2 DEF CallsOK
    <1>2. \A r \in DOMAIN rooms : r \in Rooms /\ rooms[r] \in RoomRow
        BY DEF RowsOK
    <1>3. ASSUME NEW q \in Requests, NEW r \in Rooms, NEW c \in RoomChanges,
                 UpdateStart(q, r, c)
          PROVE  CallsOK'
        <2> DEFINE call == [op |-> "update", room |-> r, read |-> rooms[r], change |-> c]
        <2>1. call \in Call
            BY <1>2, <1>3 DEF UpdateStart, Call
        <2>2. TrueCall(call)
            BY <1>3 DEF UpdateStart, TrueCall
        <2>3. Becomes(q, call)
            BY <1>3 DEF UpdateStart, Accept
        <2> QED BY <2>1, <2>2, <2>3, AcceptOK
    <1>4. ASSUME NEW q \in Requests, NEW r \in Rooms, DeleteStart(q, r)
          PROVE  CallsOK'
        <2> DEFINE call == [op |-> "delete", room |-> r]
        <2>1. call \in Call
            BY DEF Call
        <2>2. TrueCall(call)
            BY DEF TrueCall
        <2>3. Becomes(q, call)
            BY <1>4 DEF DeleteStart, Accept
        <2> QED BY <2>1, <2>2, <2>3, AcceptOK
    <1>5. ASSUME NEW q \in Requests, NEW r \in Rooms, NEW user \in Users, NEW slot \in Slots,
                 CreateStart(q, r, user, slot)
          PROVE  CallsOK'
        <2> DEFINE call == [op |-> "create", room |-> r, read |-> rooms[r], user |-> user,
                            slot |-> slot]
        <2>1. call \in Call
            BY <1>2, <1>5 DEF CreateStart, Call
        <2>2. TrueCall(call)
            BY <1>5 DEF CreateStart, InUse, TrueCall
        <2>3. Becomes(q, call)
            BY <1>5 DEF CreateStart, Accept
        <2> QED BY <2>1, <2>2, <2>3, AcceptOK
    <1>6. ASSUME NEW q \in Requests, NEW e \in WaitlistId, ConfirmStart(q, e)
          PROVE  CallsOK'
        <2> DEFINE r == waitlist[e].room
                   call == [op |-> "confirm", room |-> r, read |-> rooms[r], entry |-> e]
        <2>1. call \in Call
            BY <1>2, <1>6 DEF ConfirmStart, Call
        <2>2. TrueCall(call)
            BY <1>6 DEF ConfirmStart, InUse, TrueCall
        <2>3. Becomes(q, call)
            BY <1>6 DEF ConfirmStart, Accept
        <2> QED BY <2>1, <2>2, <2>3, AcceptOK
    <1>7. ASSUME NEW q \in Requests, Finish(q)
          PROVE  CallsOK'
        <2>1. Becomes(q, Idle)
            BY <1>7 DEF Finish, UpdateCommit, DeleteCommit, CreateCommit, ConfirmCommit, GiveUp
        <2> QED BY <2>1, EndOK
    <1>8. ASSUME NEW q \in Requests, Start(q)
          PROVE  CallsOK'
        <2>1. ASSUME NEW r \in Rooms, NEW in \in NewRooms, RoomCreate(q, r, in)
              PROVE  CallsOK'
            BY <1>1, <2>1 DEF RoomCreate
        <2> QED BY <1>3, <1>4, <1>5, <1>6, <1>8, <2>1 DEF Start
    <1>9. ASSUME NEW r \in Rooms, NEW status \in RoomStatus, OperatorSets(r, status)
          PROVE  CallsOK'
        BY <1>1, <1>9 DEF OperatorSets
    <1>10. CASE OtherTransactions \/ RoomsTick \/ UNCHANGED roomVars
        BY <1>1, <1>10 DEF OtherTransactions, RoomsTick, roomVars
    <1> QED BY <1>7, <1>8, <1>9, <1>10 DEF RoomsNext

-------------------------------------------------------------------------------
(* What a step does to rooms. *)

RoomsKept == UNCHANGED <<rooms, asked, torn, gone, changes>>

\* The account that is kept of rooms.
RecordsOK ==
    /\ DOMAIN asked = DOMAIN rooms
    /\ \A r \in DOMAIN asked : DOMAIN asked[r] = Fields
    /\ torn \subseteq (DOMAIN rooms) \X Fields
    /\ gone \subseteq Rooms \ DOMAIN rooms
    /\ changes \in 0 .. MaxChanges

RoomsInv == RowsOK /\ RecordsOK /\ AsLastAsked

\* A change of a room is one of four; other steps leave rooms alone.
LEMMA RoomsChange ==
    ASSUME [RoomsNext]_roomVars
    PROVE  \/ RoomsKept
           \/ \E q \in Requests, r \in Rooms, in \in NewRooms : RoomCreate(q, r, in)
           \/ \E q \in Requests : /\ UpdateCommit(q) \/ DeleteCommit(q)
                                  /\ request[q].room \in DOMAIN rooms
           \/ \E r \in Rooms, status \in RoomStatus : OperatorSets(r, status)
    <1>1. ASSUME NEW q \in Requests, Start(q), ~RoomsKept
          PROVE  \E r \in Rooms, in \in NewRooms : RoomCreate(q, r, in)
        BY <1>1 DEF Start, UpdateStart, DeleteStart, CreateStart, ConfirmStart, Accept, RoomsKept
    <1>2. ASSUME NEW q \in Requests, Finish(q), ~RoomsKept
          PROVE  /\ UpdateCommit(q) \/ DeleteCommit(q)
                 /\ request[q].room \in DOMAIN rooms
        BY <1>2 DEF Finish, UpdateCommit, DeleteCommit, CreateCommit, ConfirmCommit, GiveUp,
                    RoomsUnchanged, RoomsKept
    <1>3. CASE OtherTransactions \/ RoomsTick \/ UNCHANGED roomVars
        BY <1>3 DEF OtherTransactions, RoomsTick, RoomsUnchanged, roomVars, RoomsKept
    <1> QED BY <1>1, <1>2, <1>3 DEF RoomsNext

\* A new room is as it was asked for.
LEMMA CreateStep ==
    ASSUME RoomsInv, NEW q \in Requests, NEW r \in Rooms, NEW in \in NewRooms,
           RoomCreate(q, r, in)
    PROVE  RoomsInv' /\ r \notin gone /\ DOMAIN rooms' = DOMAIN rooms \cup {r}
    <1> DEFINE row == [name |-> in.name, capacity |-> in.capacity, floor |-> in.floor,
                       equipment |-> in.equipment, status |-> "active"]
    <1>1. /\ r \notin DOMAIN rooms /\ r \notin gone
          /\ rooms' = Put(rooms, r, row)
          /\ asked' = Put(asked, r, row)
          /\ torn' = torn /\ gone' = gone
          /\ changes < MaxChanges /\ changes' = changes + 1
        BY DEF RoomCreate, CountChange
    <1>2. in \in [name : Nat, capacity : Int, floor : Int, equipment : SUBSET Equipment]
        BY RoomsAssumption
    <1>3. row \in RoomRow /\ DOMAIN row = Fields
        <2>1. in.name \in Nat \ {0} /\ in.capacity \in Nat \ {0}
            BY <1>2 DEF RoomCreate, Valid
        <2>2. row \in RoomRow
            BY <1>2, <2>1 DEF RoomRow, RoomStatus
        <2> QED BY <2>2, RowFields
    <1> HIDE DEF row
    <1>4. /\ DOMAIN rooms' = DOMAIN rooms \cup {r}
          /\ DOMAIN asked' = DOMAIN asked \cup {r}
          /\ rooms' \in [DOMAIN rooms' -> RoomRow]
          /\ rooms'[r] = row /\ asked'[r] = row
          /\ \A x \in DOMAIN rooms : rooms'[x] = rooms[x]
          /\ \A x \in DOMAIN asked : asked'[x] = asked[x]
        BY <1>1, <1>3 DEF Put, RoomsInv, RowsOK, RecordsOK
    <1>5. RowsOK'
        BY <1>4 DEF RoomsInv, RowsOK
    <1>6. RecordsOK'
        BY <1>1, <1>3, <1>4, RoomsAssumption DEF RoomsInv, RecordsOK
    <1>7. AsLastAsked'
        BY <1>1, <1>4 DEF RoomsInv, AsLastAsked, RecordsOK
    <1> QED BY <1>1, <1>4, <1>5, <1>6, <1>7 DEF RoomsInv

\* An update leaves what was asked for, but in the fields that it did not ask for and had
\* read before somebody else changed them.
LEMMA UpdateStep ==
    ASSUME RoomsInv, CallsOK, NEW q \in Requests, UpdateCommit(q),
           request[q].room \in DOMAIN rooms
    PROVE  RoomsInv' /\ DOMAIN rooms' = DOMAIN rooms
    <1> DEFINE r == request[q].room
               c == request[q].change
               read == request[q].read
               new == Merge(read, c)
               given == GivenFields(c)
    <1>1. /\ r \in Rooms /\ read \in RoomRow /\ c \in RoomChanges
          /\ Valid(new)
        BY CallShape DEF CallsOK, TrueCall, UpdateCommit
    <1>2. /\ r \in DOMAIN rooms
          /\ rooms' = Put(rooms, r, new)
          /\ asked' = Put(asked, r, AskedNow(asked[r], c))
          /\ torn' = (torn \cup {r} \X {f \in Fields : read[f] # rooms[r][f]})
                     \ ({r} \X given)
          /\ gone' = gone
          /\ changes < MaxChanges /\ changes' = changes + 1
        BY DEF UpdateCommit, CountChange
    <1>3. new \in RoomRow
        BY <1>1, MergeRow
    <1>4. \A f \in Fields :
            /\ f \in given => new[f] = AskedNow(asked[r], c)[f]
            /\ f \notin given => /\ new[f] = read[f]
                                /\ AskedNow(asked[r], c)[f] = asked[r][f]
        <2> SUFFICES ASSUME NEW f \in Fields
                     PROVE  /\ f \in given => new[f] = AskedNow(asked[r], c)[f]
                            /\ f \notin given => /\ new[f] = read[f]
                                                /\ AskedNow(asked[r], c)[f] = asked[r][f]
            OBVIOUS
        <2>1. AskedNow(asked[r], c)[f] = IF f \in given THEN Given(c[f], asked[r][f])
                                                       ELSE asked[r][f]
            BY DEF AskedNow
        <2> HIDE DEF r, c, read, new, given
        <2>2. /\ f \in given => \A v : new[f] = Given(c[f], v)
              /\ f \notin given => new[f] = read[f]
            BY <1>1, MergeFields DEF new, given
        <2> QED BY <2>1, <2>2
    <1>5. DOMAIN AskedNow(asked[r], c) = Fields
        BY DEF AskedNow
    <1> HIDE DEF r, c, read, new, given
    <1>6. /\ DOMAIN rooms' = DOMAIN rooms
          /\ DOMAIN asked' = DOMAIN asked
          /\ rooms' \in [DOMAIN rooms' -> RoomRow]
          /\ rooms'[r] = new /\ asked'[r] = AskedNow(asked[r], c)
          /\ \A x \in DOMAIN rooms \ {r} : rooms'[x] = rooms[x]
          /\ \A x \in DOMAIN asked \ {r} : asked'[x] = asked[x]
        BY <1>2, <1>3 DEF Put, RoomsInv, RowsOK, RecordsOK
    <1>7. RowsOK'
        BY <1>6 DEF RoomsInv, RowsOK
    <1>8. RecordsOK'
        <2>1. torn' \subseteq (DOMAIN rooms) \X Fields
            BY <1>2 DEF RoomsInv, RecordsOK
        <2>2. \A x \in DOMAIN asked' : DOMAIN asked'[x] = Fields
            BY <1>5, <1>6 DEF RoomsInv, RecordsOK
        <2>3. changes' \in 0 .. MaxChanges
            BY <1>2, RoomsAssumption DEF RoomsInv, RecordsOK
        <2> QED BY <1>2, <1>6, <2>1, <2>2, <2>3 DEF RoomsInv, RecordsOK
    <1>9. AsLastAsked'
        <2> SUFFICES ASSUME NEW x \in DOMAIN rooms', NEW f \in Fields,
                            rooms'[x][f] # asked'[x][f]
                     PROVE  <<x, f>> \in torn'
            BY DEF AsLastAsked
        <2>1. CASE x = r
            <3>1. f \notin given
                BY <1>4, <1>6, <2>1
            <3>2. read[f] # asked[r][f]
                BY <1>4, <1>6, <2>1, <3>1
            <3>3. CASE read[f] = rooms[r][f]
                BY <1>2, <2>1, <3>1, <3>2, <3>3 DEF RoomsInv, AsLastAsked
            <3>4. CASE read[f] # rooms[r][f]
                BY <1>2, <2>1, <3>1, <3>4
            <3> QED BY <3>3, <3>4
        <2>2. CASE x # r
            <3>1. <<x, f>> \in torn
                BY <1>6, <2>2 DEF RoomsInv, AsLastAsked, RecordsOK
            <3> QED BY <1>2, <2>2, <3>1
        <2> QED BY <2>1, <2>2
    <1> QED BY <1>6, <1>7, <1>8, <1>9 DEF RoomsInv

\* An operator changes the status of one room.
LEMMA OperatorStep ==
    ASSUME RoomsInv, NEW r \in Rooms, NEW status \in RoomStatus, OperatorSets(r, status)
    PROVE  RoomsInv' /\ DOMAIN rooms' = DOMAIN rooms
    <1>1. /\ r \in DOMAIN rooms
          /\ rooms' = [rooms EXCEPT ![r].status = status]
          /\ asked' = [asked EXCEPT ![r].status = status]
          /\ torn' = torn \ {<<r, "status">>}
          /\ gone' = gone
          /\ changes < MaxChanges /\ changes' = changes + 1
        BY DEF OperatorSets, SetStatus, CountChange
    <1>2. /\ rooms[r] \in RoomRow
          /\ DOMAIN asked = DOMAIN rooms
          /\ DOMAIN asked[r] = Fields
        BY <1>1 DEF RoomsInv, RowsOK, RecordsOK
    <1>3. /\ DOMAIN rooms' = DOMAIN rooms
          /\ DOMAIN asked' = DOMAIN asked
          /\ rooms'[r] = [rooms[r] EXCEPT !.status = status]
          /\ asked'[r] = [asked[r] EXCEPT !.status = status]
          /\ \A x \in DOMAIN rooms \ {r} : rooms'[x] = rooms[x] /\ asked'[x] = asked[x]
        BY <1>1, <1>2
    <1>4. rooms'[r] \in RoomRow /\ DOMAIN asked'[r] = Fields
        BY <1>2, <1>3 DEF RoomRow
    <1>5. \A f \in Fields \ {"status"} :
            rooms'[r][f] = rooms[r][f] /\ asked'[r][f] = asked[r][f]
        BY <1>2, <1>3, RowFields
    <1>6. rooms'[r]["status"] = status /\ asked'[r]["status"] = status
        BY <1>2, <1>3, RowFields DEF Fields
    <1>7. RowsOK'
        BY <1>1, <1>3, <1>4 DEF RoomsInv, RowsOK
    <1>8. RecordsOK'
        <2>1. changes' \in 0 .. MaxChanges
            BY <1>1, RoomsAssumption DEF RoomsInv, RecordsOK
        <2>2. \A x \in DOMAIN asked' : DOMAIN asked'[x] = Fields
            BY <1>2, <1>3, <1>4 DEF RoomsInv, RecordsOK
        <2> QED BY <1>1, <1>3, <2>1, <2>2 DEF RoomsInv, RecordsOK
    <1>9. AsLastAsked'
        <2> SUFFICES ASSUME NEW x \in DOMAIN rooms', NEW f \in Fields,
                            rooms'[x][f] # asked'[x][f]
                     PROVE  <<x, f>> \in torn'
            BY DEF AsLastAsked
        <2>1. CASE x = r
            BY <1>1, <1>5, <1>6, <2>1 DEF RoomsInv, AsLastAsked
        <2>2. CASE x # r
            BY <1>1, <1>3, <2>2 DEF RoomsInv, AsLastAsked
        <2> QED BY <2>1, <2>2
    <1> QED BY <1>3, <1>7, <1>8, <1>9 DEF RoomsInv

\* A room that is deleted leaves nothing but its name among those gone.
LEMMA DeleteStep ==
    ASSUME RoomsInv, NEW q \in Requests, DeleteCommit(q), request[q].room \in DOMAIN rooms
    PROVE  RoomsInv' /\ DOMAIN rooms' \subseteq DOMAIN rooms
    <1> DEFINE r == request[q].room
    <1>1. CASE RoomsKept
        <2>1. RowsOK' /\ RecordsOK'
            BY <1>1 DEF RoomsKept, RoomsInv, RowsOK, RecordsOK
        <2>2. AsLastAsked'
            BY <1>1 DEF RoomsKept, RoomsInv, AsLastAsked
        <2> QED BY <1>1, <2>1, <2>2 DEF RoomsKept, RoomsInv
    <1>2. CASE ~RoomsKept
        <2>1. /\ rooms' = Remove(rooms, r)
              /\ asked' = Remove(asked, r)
              /\ torn' = {t \in torn : t[1] # r}
              /\ gone' = gone \cup {r}
              /\ changes < MaxChanges /\ changes' = changes + 1
            BY <1>2 DEF DeleteCommit, GiveUp, RoomsKept, CountChange
        <2>2. r \in Rooms
            BY DEF RoomsInv, RowsOK
        <2> HIDE DEF r
        <2>3. /\ DOMAIN rooms' = DOMAIN rooms \ {r}
              /\ DOMAIN asked' = DOMAIN asked \ {r}
              /\ \A x \in DOMAIN rooms' : rooms'[x] = rooms[x]
              /\ \A x \in DOMAIN asked' : asked'[x] = asked[x]
              /\ rooms' \in [DOMAIN rooms' -> RoomRow]
            BY <2>1 DEF Remove, RoomsInv, RowsOK
        <2>4. RowsOK'
            BY <2>3 DEF RoomsInv, RowsOK
        <2>5. RecordsOK'
            <3>1. torn' \subseteq (DOMAIN rooms') \X Fields
                BY <2>1, <2>3 DEF RoomsInv, RecordsOK
            <3>2. changes' \in 0 .. MaxChanges
                BY <2>1, RoomsAssumption DEF RoomsInv, RecordsOK
            <3> QED BY <2>1, <2>2, <2>3, <3>1, <3>2 DEF RoomsInv, RecordsOK
        <2>6. AsLastAsked'
            BY <2>1, <2>3 DEF RoomsInv, RecordsOK, AsLastAsked
        <2> QED BY <2>3, <2>4, <2>5, <2>6 DEF RoomsInv
    <1> QED BY <1>1, <1>2

\* Every step keeps the account of rooms, and none takes the name of one that is gone.
LEMMA RoomsInvStep ==
    ASSUME RoomsInv, CallsOK, [RoomsNext]_roomVars
    PROVE  RoomsInv' /\ gone \cap DOMAIN rooms' = {}
    <1> gone \cap DOMAIN rooms = {}
        BY DEF RoomsInv, RecordsOK
    <1>1. CASE RoomsKept
        <2>1. RowsOK' /\ RecordsOK'
            BY <1>1 DEF RoomsKept, RoomsInv, RowsOK, RecordsOK
        <2>2. AsLastAsked'
            BY <1>1 DEF RoomsKept, RoomsInv, AsLastAsked
        <2> QED BY <1>1, <2>1, <2>2 DEF RoomsKept, RoomsInv
    <1>2. ASSUME NEW q \in Requests, NEW r \in Rooms, NEW in \in NewRooms, RoomCreate(q, r, in)
          PROVE  RoomsInv' /\ gone \cap DOMAIN rooms' = {}
        BY <1>2, CreateStep
    <1>3. ASSUME NEW q \in Requests, UpdateCommit(q) \/ DeleteCommit(q),
                 request[q].room \in DOMAIN rooms
          PROVE  RoomsInv' /\ gone \cap DOMAIN rooms' = {}
        BY <1>3, UpdateStep, DeleteStep
    <1>4. ASSUME NEW r \in Rooms, NEW status \in RoomStatus, OperatorSets(r, status)
          PROVE  RoomsInv' /\ gone \cap DOMAIN rooms' = {}
        BY <1>4, OperatorStep
    <1> QED BY <1>1, <1>2, <1>3, <1>4, RoomsChange

-------------------------------------------------------------------------------
(* Which rooms bookings and entries are of. *)

\* One new entry, of a room there is, with an id that no request in flight names.
JoinsRoom(e, row) ==
    /\ e \notin DOMAIN waitlist
    /\ ~Named(e)
    /\ row.room \in DOMAIN rooms
    /\ waitlist' = Put(waitlist, e, row)

\* A transaction that asks nothing of a room makes no booking, and an entry only in a room
\* that exists.
LEMMA OtherStep ==
    ASSUME TypeOK, RowsOK, RequestOK, OtherTransactions
    PROVE  Releases /\ (Serves \/ \E e \in WaitlistId, row \in WaitlistRow : JoinsRoom(e, row))
    <1>1. [Next]_vars
        BY StoreStep DEF RowsOK, RoomsNext
    <1>2. DOMAIN bookings' = DOMAIN bookings
        BY DEF OtherTransactions, CancelAndOfferWaitlist, Approve, RejectAndOfferWaitlist,
               SetStatus, Rejected, ListPendingApprovals, ExpireAndOfferNext,
               DeleteAndOfferNext, WaitlistCreate
    <1>3. Releases
        BY <1>1, <1>2, BookingStep DEF Books, Put
    <1>4. ASSUME NEW e \in WaitlistId, ~Named(e), NEW r \in DOMAIN rooms, NEW user \in Users,
                 NEW slot \in Slots, WaitlistCreate(e, r, user, slot)
          PROVE  \E row \in WaitlistRow : JoinsRoom(e, row)
        <2>1. PICK p \in NextPosition(r) : waitlist' = Put(waitlist, e,
                   [room |-> r, user |-> user, slot |-> slot, status |-> "waiting",
                    position |-> p, offeredAt |-> Never])
            BY <1>4 DEF WaitlistCreate
        <2> DEFINE row == [room |-> r, user |-> user, slot |-> slot, status |-> "waiting",
                           position |-> p, offeredAt |-> Never]
        <2>2. p \in Nat \ {0}
            BY NextPositionIsLast
        <2>3. row \in WaitlistRow
            BY <2>2 DEF RowsOK, WaitlistRow, WaitlistStatus, QueuedStatuses
        <2>4. row.room = r
            OBVIOUS
        <2> QED BY <1>4, <2>1, <2>3, <2>4 DEF WaitlistCreate, JoinsRoom
    <1>5. \/ DOMAIN waitlist' \subseteq DOMAIN waitlist
          \/ \E e \in WaitlistId, row \in WaitlistRow : JoinsRoom(e, row)
        BY <1>4 DEF OtherTransactions, CancelAndOfferWaitlist, Approve, RejectAndOfferWaitlist,
                    ListPendingApprovals, ExpireAndOfferNext, DeleteAndOfferNext,
                    OfferNextSlot, Offer, SetStatus, Remove
    <1>6. DOMAIN waitlist' \subseteq DOMAIN waitlist => Serves
        BY <1>1, WaitlistStep DEF Joins, Enqueues, Put
    <1> QED BY <1>3, <1>5, <1>6

\* What a booking request adds is a booking of its room.
LEMMA CreateCommitStep ==
    ASSUME CallsOK, RowsOK, NEW q \in Requests, CreateCommit(q), ~UNCHANGED bookings
    PROVE  /\ request[q].room \in DOMAIN rooms
           /\ \E id \in BookingId :
                /\ id \notin DOMAIN bookings
                /\ bookings' = Put(bookings, id, NewBooking(request[q].room, request[q].user,
                                        request[q].slot, StatusFor(request[q].read)))
           /\ UNCHANGED <<waitlist, rooms, gone>>
    BY DEF CreateCommit, CreateChecked, GiveUp, RoomsUnchanged

\* What a confirmation adds is a booking of the room of its entry.
LEMMA ConfirmCommitStep ==
    ASSUME TypeOK, NEW q \in Requests, ConfirmCommit(q), ~UNCHANGED bookings
    PROVE  LET e == request[q].entry
           IN  /\ e \in DOMAIN waitlist
               /\ waitlist[e].status = "offered"
               /\ waitlist' = SetStatus(waitlist, e, "converted")
               /\ \E id \in BookingId :
                    /\ id \notin DOMAIN bookings
                    /\ bookings' = Put(bookings, id, NewBooking(waitlist[e].room,
                                            waitlist[e].user, waitlist[e].slot, "confirmed"))
               /\ UNCHANGED <<rooms, gone>>
    BY DEF ConfirmCommit, ConfirmAndBook, Offered, GiveUp, RoomsUnchanged

\* Other steps leave the tables of the store alone, or are transactions that make no booking.
LEMMA BookingsOrNot ==
    ASSUME [RoomsNext]_roomVars
    PROVE  \/ OtherTransactions
           \/ UNCHANGED <<bookings, waitlist>>
           \/ \E q \in Requests : CreateCommit(q) /\ ~UNCHANGED bookings
           \/ \E q \in Requests : ConfirmCommit(q) /\ ~UNCHANGED bookings
    <1>1. ASSUME NEW q \in Requests, Start(q)
          PROVE  UNCHANGED <<bookings, waitlist>>
        BY <1>1 DEF Start, RoomCreate, UpdateStart, DeleteStart, CreateStart, ConfirmStart, Accept
    <1>2. ASSUME NEW q \in Requests, Finish(q)
          PROVE  \/ UNCHANGED <<bookings, waitlist>>
                 \/ CreateCommit(q) /\ ~UNCHANGED bookings
                 \/ ConfirmCommit(q) /\ ~UNCHANGED bookings
        <2>1. ASSUME CreateCommit(q), UNCHANGED bookings
              PROVE  UNCHANGED waitlist
            BY <2>1 DEF CreateCommit, CreateChecked, GiveUp
        <2>2. ASSUME ConfirmCommit(q), UNCHANGED bookings
              PROVE  UNCHANGED waitlist
            <3>1. \A id, row : bookings = Put(bookings, id, row) => id \in DOMAIN bookings
                BY DEF Put
            <3> QED BY <2>2, <3>1 DEF ConfirmCommit, ConfirmAndBook, GiveUp
        <2> QED BY <1>2, <2>1, <2>2 DEF Finish, UpdateCommit, DeleteCommit, GiveUp
    <1>3. CASE RoomsTick \/ UNCHANGED roomVars
        BY <1>3 DEF RoomsTick, Tick, roomVars
    <1>4. ASSUME NEW r, NEW status, OperatorSets(r, status)
          PROVE  UNCHANGED <<bookings, waitlist>>
        BY <1>4 DEF OperatorSets
    <1> QED BY <1>1, <1>2, <1>3, <1>4 DEF RoomsNext

\* A room that is referred to stays.
LEMMA ReferredStays ==
    ASSUME RoomsInv, CallsOK, [RoomsNext]_roomVars, NEW r \in DOMAIN rooms, r \notin DOMAIN rooms'
    PROVE  ~Referenced(r) /\ UNCHANGED <<bookings, waitlist>>
    <1>1. PICK q \in Requests : DeleteCommit(q) /\ request[q].room \in DOMAIN rooms
        BY RoomsChange, CreateStep, UpdateStep, OperatorStep DEF RoomsKept
    <1> QED BY <1>1 DEF DeleteCommit, GiveUp, Remove

\* No step leaves a booking or an entry without its room.
LEMMA NoOrphansStep ==
    ASSUME TypeOK, RoomsInv, CallsOK, NoOrphans, [RoomsNext]_roomVars
    PROVE  NoOrphans'
    <1> DEFINE InRooms == /\ \A b \in DOMAIN bookings' : bookings'[b].room \in DOMAIN rooms
                          /\ \A e \in DOMAIN waitlist' : waitlist'[e].room \in DOMAIN rooms
    <1>1. ASSUME OtherTransactions
          PROVE  InRooms
        <2>1. Releases
            BY <1>1, OtherStep DEF RoomsInv, CallsOK
        <2>2. ASSUME Serves
              PROVE  InRooms
            BY <2>1, <2>2 DEF Releases, Serves, NoOrphans
        <2>3. ASSUME NEW e \in WaitlistId, NEW row \in WaitlistRow, JoinsRoom(e, row)
              PROVE  InRooms
            BY <2>1, <2>3 DEF Releases, JoinsRoom, Put, NoOrphans
        <2> QED BY <1>1, <2>2, <2>3, OtherStep DEF RoomsInv, CallsOK
    <1>2. ASSUME UNCHANGED <<bookings, waitlist>>
          PROVE  InRooms
        BY <1>2 DEF NoOrphans
    <1>3. ASSUME NEW q \in Requests, CreateCommit(q), ~UNCHANGED bookings
          PROVE  InRooms
        <2> DEFINE c == request[q]
        <2>1. c.room \in DOMAIN rooms /\ UNCHANGED waitlist
            BY <1>3, CreateCommitStep DEF RoomsInv
        <2>2. PICK id : bookings' = Put(bookings, id,
                            NewBooking(c.room, c.user, c.slot, StatusFor(c.read)))
            BY <1>3, CreateCommitStep DEF RoomsInv
        <2>3. \A b \in DOMAIN bookings' :
                \/ b \in DOMAIN bookings /\ bookings'[b] = bookings[b]
                \/ bookings'[b].room = c.room
            BY <2>2 DEF Put, NewBooking
        <2> QED BY <2>1, <2>3 DEF NoOrphans
    <1>4. ASSUME NEW q \in Requests, ConfirmCommit(q), ~UNCHANGED bookings
          PROVE  InRooms
        <2> DEFINE e == request[q].entry
        <2>1. e \in DOMAIN waitlist /\ waitlist' = SetStatus(waitlist, e, "converted")
            BY <1>4, ConfirmCommitStep
        <2>2. PICK id : bookings' = Put(bookings, id, NewBooking(waitlist[e].room,
                                            waitlist[e].user, waitlist[e].slot, "confirmed"))
            BY <1>4, ConfirmCommitStep
        <2>3. \A f \in DOMAIN waitlist' : f \in DOMAIN waitlist /\ waitlist'[f].room = waitlist[f].room
            BY <2>1 DEF SetStatus, TypeOK, WaitlistRow
        <2>4. \A b \in DOMAIN bookings' :
                \/ b \in DOMAIN bookings /\ bookings'[b] = bookings[b]
                \/ bookings'[b].room = waitlist[e].room
            BY <2>2 DEF Put, NewBooking
        <2> QED BY <2>1, <2>3, <2>4 DEF NoOrphans
    <1>5. InRooms
        BY <1>1, <1>2, <1>3, <1>4, BookingsOrNot
    <1>6. ASSUME NEW r \in DOMAIN rooms, r \notin DOMAIN rooms'
          PROVE  /\ \A b \in DOMAIN bookings' : bookings'[b].room # r
                 /\ \A e \in DOMAIN waitlist' : waitlist'[e].room # r
        BY <1>6, ReferredStays DEF Referenced
    <1> QED BY <1>5, <1>6 DEF NoOrphans

\* A confirmation in flight is of the room its entry waits for.
EntriesNamed ==
    \A q \in Requests :
        request[q].op = "confirm" /\ request[q].entry \in DOMAIN waitlist =>
            waitlist[request[q].entry].room = request[q].room

\* No step changes the room of an entry, nor what a request knows of it.
LEMMA EntriesNamedStep ==
    ASSUME TypeOK, RoomsInv, CallsOK, EntriesNamed, [RoomsNext]_roomVars
    PROVE  EntriesNamed'
    <1>1. ASSUME NEW q \in Requests, Start(q)
          PROVE  EntriesNamed'
        <2>1. waitlist' = waitlist
            BY <1>1 DEF Start, RoomCreate, UpdateStart, DeleteStart, CreateStart, ConfirmStart,
                        Accept
        <2>2. \A p \in Requests \ {q} : request'[p] = request[p]
            BY <1>1 DEF Start, RoomCreate, UpdateStart, DeleteStart, CreateStart, ConfirmStart,
                        Accept, Becomes, CallsOK, RequestOK
        <2>3. request'[q].op = "confirm" => waitlist[request'[q].entry].room = request'[q].room
            <3>1. ASSUME NEW r, NEW in, RoomCreate(q, r, in)
                  PROVE  request'[q].op = "idle"
                BY <3>1 DEF RoomCreate, Idle
            <3>2. ASSUME NEW call, Accept(q, call)
                  PROVE  request'[q] = call
                BY <3>2 DEF Accept, Becomes, CallsOK, RequestOK
            <3>3. ASSUME NEW r, NEW c, UpdateStart(q, r, c)
                  PROVE  request'[q].op = "update"
                BY <3>2, <3>3 DEF UpdateStart
            <3>4. ASSUME NEW r, DeleteStart(q, r)
                  PROVE  request'[q].op = "delete"
                BY <3>2, <3>4 DEF DeleteStart
            <3>5. ASSUME NEW r, NEW user, NEW slot, CreateStart(q, r, user, slot)
                  PROVE  request'[q].op = "create"
                BY <3>2, <3>5 DEF CreateStart
            <3>6. ASSUME NEW e, ConfirmStart(q, e)
                  PROVE  waitlist[request'[q].entry].room = request'[q].room
                <4>1. request'[q] = [op |-> "confirm", room |-> waitlist[e].room,
                                     read |-> rooms[waitlist[e].room], entry |-> e]
                    BY <3>2, <3>6 DEF ConfirmStart
                <4> QED BY <4>1
            <3> QED BY <1>1, <3>1, <3>3, <3>4, <3>5, <3>6 DEF Start
        <2> QED BY <2>1, <2>2, <2>3 DEF EntriesNamed
    <1>2. ASSUME NEW q \in Requests, Finish(q)
          PROVE  EntriesNamed'
        <2>1. \A e \in DOMAIN waitlist' : e \in DOMAIN waitlist /\ waitlist'[e].room = waitlist[e].room
            BY <1>2 DEF Finish, UpdateCommit, DeleteCommit, CreateCommit, ConfirmCommit, GiveUp,
                        CreateChecked, ConfirmAndBook, SetStatus, TypeOK, WaitlistRow
        <2>2. Becomes(q, Idle)
            BY <1>2 DEF Finish, UpdateCommit, DeleteCommit, CreateCommit, ConfirmCommit, GiveUp
        <2>3. \A p \in Requests : request'[p] = IF p = q THEN Idle ELSE request[p]
            BY <2>2 DEF Becomes, CallsOK, RequestOK
        <2> QED BY <2>1, <2>3 DEF EntriesNamed, Idle
    <1>3. CASE OtherTransactions
        <2>1. UNCHANGED request
            BY <1>3 DEF OtherTransactions
        <2>2. CASE Serves
            BY <2>1, <2>2 DEF Serves, EntriesNamed
        <2>3. ASSUME NEW e \in WaitlistId, NEW row \in WaitlistRow, JoinsRoom(e, row)
              PROVE  EntriesNamed'
            <3>1. \A q \in Requests : request[q].op = "confirm" => request[q].entry # e
                BY <2>3 DEF JoinsRoom, Named
            <3>2. \A f \in DOMAIN waitlist' \ {e} : f \in DOMAIN waitlist /\ waitlist'[f] = waitlist[f]
                BY <2>3 DEF JoinsRoom, Put
            <3> QED BY <2>1, <3>1, <3>2 DEF EntriesNamed
        <2> QED BY <1>3, <2>2, <2>3, OtherStep DEF RoomsInv, CallsOK
    <1>4. ASSUME NEW r, NEW status, OperatorSets(r, status)
          PROVE  EntriesNamed'
        BY <1>4 DEF OperatorSets, EntriesNamed
    <1>5. CASE RoomsTick \/ UNCHANGED roomVars
        BY <1>5 DEF RoomsTick, Tick, roomVars, EntriesNamed
    <1> QED BY <1>1, <1>2, <1>3, <1>4, <1>5 DEF RoomsNext

-------------------------------------------------------------------------------
(* Theorems. *)

\* The inductive invariant.
RoomsIInv == TypeOK /\ RoomsInv /\ CallsOK /\ NoOrphans /\ EntriesNamed

\* Nothing is wrong before anything happens.
LEMMA InitRoomsIInv == RoomsInit => RoomsIInv
    <1> SUFFICES ASSUME RoomsInit
                 PROVE  RoomsIInv
        OBVIOUS
    <1>1. TypeOK
        BY InitTypeOK DEF RoomsInit
    <1>2. RoomsInv
        BY RoomsAssumption DEF RoomsInit, RoomsInv, RowsOK, RecordsOK, AsLastAsked, Empty
    <1>3. \A q \in Requests : request[q] = Idle
        BY DEF RoomsInit
    <1>4. CallsOK
        BY <1>3 DEF RoomsInit, CallsOK, RequestOK, TrueCall, Idle
    <1>5. NoOrphans
        BY DEF RoomsInit, Init, Empty, NoOrphans
    <1>6. EntriesNamed
        BY <1>3 DEF EntriesNamed, Idle
    <1> QED BY <1>1, <1>2, <1>4, <1>5, <1>6 DEF RoomsIInv

\* And every step keeps it so.
LEMMA NextRoomsIInv == RoomsIInv /\ [RoomsNext]_roomVars => RoomsIInv' /\ [Next]_vars
    <1> SUFFICES ASSUME RoomsIInv, [RoomsNext]_roomVars
                 PROVE  RoomsIInv' /\ [Next]_vars
        OBVIOUS
    <1> USE DEF RoomsIInv
    <1>1. [Next]_vars
        BY StoreStep DEF RoomsInv, RowsOK, CallsOK
    <1>2. TypeOK'
        BY <1>1, NextTypeOK
    <1>3. RoomsInv' /\ CallsOK' /\ NoOrphans' /\ EntriesNamed'
        BY RoomsInvStep, CallsStep, NoOrphansStep, EntriesNamedStep DEF RoomsInv
    <1> QED BY <1>1, <1>2, <1>3

\* Tables of rooms, requests in flight and the account of changes are well formed.
THEOREM RoomsTypeCorrect == RoomsSpec => []RoomsTypeOK
    <1>1. RoomsIInv => RoomsTypeOK
        BY DEF RoomsIInv, RoomsInv, RowsOK, RecordsOK, CallsOK, RoomsTypeOK
    <1> QED BY <1>1, InitRoomsIInv, NextRoomsIInv, PTL DEF RoomsSpec

\* However deletions race with bookings, with confirmations and with one another, no
\* booking and no entry is left without its room.
THEOREM NothingIsOrphaned == RoomsSpec => []NoOrphans
    <1>1. RoomsIInv => NoOrphans
        BY DEF RoomsIInv
    <1> QED BY <1>1, InitRoomsIInv, NextRoomsIInv, PTL DEF RoomsSpec

\* However updates interleave, only a field that an update had read before another change
\* and did not mean to write can differ from what was last asked for.
THEOREM OnlyStaleFieldsDiffer == RoomsSpec => []AsLastAsked
    <1>1. RoomsIInv => AsLastAsked
        BY DEF RoomsIInv, RoomsInv
    <1> QED BY <1>1, InitRoomsIInv, NextRoomsIInv, PTL DEF RoomsSpec

\* No update that was in flight when a room was deleted revives it.
THEOREM NoRoomComesBack == RoomsSpec => DeletedStaysDeleted
    <1>1. RoomsIInv /\ [RoomsNext]_roomVars => [gone \cap DOMAIN rooms' = {}]_roomVars
        BY RoomsInvStep DEF RoomsIInv
    <1> QED BY <1>1, InitRoomsIInv, NextRoomsIInv, PTL DEF RoomsSpec, DeletedStaysDeleted

\* Rooms may come, change and go: bookings and entries still change by the transactions of
\* the store alone.
THEOREM RoomsImplementStore == RoomsSpec => StoreSpec
    <1>1. RoomsInit => Init
        BY DEF RoomsInit
    <1> QED BY <1>1, InitRoomsIInv, NextRoomsIInv, PTL DEF RoomsSpec, StoreSpec, Spec

\* Hence no room is booked twice while it is changed.
THEOREM RoomsNeverDoubleBooked == RoomsSpec => []NoDoubleBooking
    BY RoomsImplementStore, NeverDoubleBooked, PTL DEF StoreSpec

\* What a booking request adds is made for that request,
LEMMA CreateMadeFor ==
    ASSUME RoomsIInv, NEW q \in Requests, CreateCommit(q), ~UNCHANGED bookings,
           NEW b \in DOMAIN bookings' \ DOMAIN bookings
    PROVE  MadeFor(q, b)
    <1> USE DEF RoomsIInv
    <1> DEFINE c == request[q]
    <1>1. c.room \in DOMAIN rooms
        BY CreateCommitStep DEF RoomsInv
    <1>2. PICK id : bookings' = Put(bookings, id,
                        NewBooking(c.room, c.user, c.slot, StatusFor(c.read)))
        BY CreateCommitStep DEF RoomsInv
    <1>3. bookings'[b] = NewBooking(c.room, c.user, c.slot, StatusFor(c.read))
        BY <1>2 DEF Put
    <1>4. c.op = "create" /\ c.read.status = "active" /\ c.read \in RoomRow
        BY CallShape DEF CreateCommit, CallsOK, TrueCall
    <1>5. /\ StatusFor(c.read) = "confirmed" <=> c.read.capacity <= 12
          /\ StatusFor(c.read) = "pending_approval" <=> c.read.capacity > 12
        BY <1>4 DEF StatusFor, Threshold, RoomRow
    <1>6. request'[q] = Idle
        BY DEF CreateCommit, GiveUp, Becomes, CallsOK, RequestOK
    <1>7. /\ bookings'[b].room = c.room
          /\ bookings'[b].user = c.user
          /\ bookings'[b].slot = c.slot
          /\ bookings'[b].status = StatusFor(c.read)
        BY <1>3 DEF NewBooking
    <1> QED BY <1>1, <1>4, <1>5, <1>6, <1>7 DEF MadeFor

\* and what a confirmation adds is made for it and its entry.
LEMMA ConfirmMadeFor ==
    ASSUME RoomsIInv, NEW q \in Requests, ConfirmCommit(q), ~UNCHANGED bookings,
           NEW b \in DOMAIN bookings' \ DOMAIN bookings
    PROVE  MadeFor(q, b)
    <1> USE DEF RoomsIInv
    <1> DEFINE c == request[q]
               e == c.entry
    <1>1. /\ e \in DOMAIN waitlist
          /\ waitlist[e].status = "offered"
          /\ waitlist' = SetStatus(waitlist, e, "converted")
        BY ConfirmCommitStep
    <1>2. PICK id : bookings' = Put(bookings, id, NewBooking(waitlist[e].room,
                                        waitlist[e].user, waitlist[e].slot, "confirmed"))
        BY ConfirmCommitStep
    <1>3. bookings'[b] = NewBooking(waitlist[e].room, waitlist[e].user, waitlist[e].slot,
                                    "confirmed")
        BY <1>2 DEF Put
    <1>4. /\ bookings'[b].room = waitlist[e].room
          /\ bookings'[b].user = waitlist[e].user
          /\ bookings'[b].slot = waitlist[e].slot
          /\ bookings'[b].status = "confirmed"
        BY <1>3 DEF NewBooking
    <1>5. c.op = "confirm" /\ c.read.status = "active"
        BY DEF ConfirmCommit, CallsOK, TrueCall
    <1>6. waitlist[e].room = c.room /\ c.room \in DOMAIN rooms
        BY <1>1, <1>5 DEF EntriesNamed, NoOrphans
    <1>7. waitlist'[e].status = "converted"
        BY <1>1 DEF SetStatus, TypeOK, WaitlistRow
    <1>8. request'[q] = Idle
        BY DEF ConfirmCommit, GiveUp, Becomes, CallsOK, RequestOK
    <1> QED BY <1>1, <1>4, <1>5, <1>6, <1>7, <1>8 DEF MadeFor

\* A request that comes to book, or to take an offer, has just read the room.
LEMMA ReadsTheRoom ==
    ASSUME RoomsIInv, [RoomsNext]_roomVars, NEW q \in Requests,
           request[q] = Idle, request'[q].op \in {"create", "confirm"}
    PROVE  request'[q].read = rooms[request'[q].room]
    <1> USE DEF RoomsIInv
    <1>1. request'[q] # request[q] /\ request' # request
        BY DEF Idle
    <1>2. PICK p \in Requests : Start(p) \/ Finish(p)
        BY <1>1 DEF RoomsNext, OperatorSets, OtherTransactions, RoomsTick, roomVars
    <1>3. ASSUME NEW what, Becomes(p, what)
          PROVE  p = q /\ what = request'[q]
        BY <1>1, <1>3 DEF Becomes, CallsOK, RequestOK
    <1>4. ASSUME NEW call, Accept(p, call)
          PROVE  call = request'[q]
        BY <1>3, <1>4 DEF Accept
    <1>5. ~Finish(p)
        <2>1. ~Becomes(p, Idle)
            BY <1>1, <1>3
        <2> QED BY <2>1 DEF Finish, UpdateCommit, DeleteCommit, CreateCommit, ConfirmCommit, GiveUp
    <1>6. ASSUME NEW r, NEW in, RoomCreate(p, r, in)
          PROVE  FALSE
        BY <1>1, <1>6 DEF RoomCreate
    <1>7. ASSUME NEW r, NEW c, UpdateStart(p, r, c)
          PROVE  FALSE
        BY <1>4, <1>7 DEF UpdateStart
    <1>8. ASSUME NEW r, DeleteStart(p, r)
          PROVE  FALSE
        BY <1>4, <1>8 DEF DeleteStart
    <1>9. ASSUME NEW r, NEW user, NEW slot, CreateStart(p, r, user, slot)
          PROVE  request'[q].read = rooms[request'[q].room]
        <2>1. request'[q] = [op |-> "create", room |-> r, read |-> rooms[r], user |-> user,
                             slot |-> slot]
            BY <1>4, <1>9 DEF CreateStart
        <2> QED BY <2>1
    <1>10. ASSUME NEW e, ConfirmStart(p, e)
           PROVE  request'[q].read = rooms[request'[q].room]
        <2>1. request'[q] = [op |-> "confirm", room |-> waitlist[e].room,
                             read |-> rooms[waitlist[e].room], entry |-> e]
            BY <1>4, <1>10 DEF ConfirmStart
        <2> QED BY <2>1
    <1> QED BY <1>2, <1>5, <1>6, <1>7, <1>8, <1>9, <1>10 DEF Start

\* No other step makes a booking.
LEMMA RulesStep ==
    ASSUME RoomsIInv, [RoomsNext]_roomVars, NEW b \in DOMAIN bookings' \ DOMAIN bookings
    PROVE  \E q \in Requests : MadeFor(q, b)
    <1> USE DEF RoomsIInv
    <1>1. CASE OtherTransactions
        BY <1>1, OtherStep DEF Releases, RoomsInv, CallsOK
    <1> QED BY <1>1, CreateMadeFor, ConfirmMadeFor, BookingsOrNot

\* However changes of a room race with bookings of it, every booking is made for a request
\* that read the room in service, by the rules that this row has.
THEOREM RoomsAreBookedByTheRules == RoomsSpec => BookedByTheRules
    <1>1. RoomsIInv /\ [RoomsNext]_roomVars =>
            [ /\ \A q \in Requests :
                    request[q] = Idle /\ request'[q].op \in {"create", "confirm"} =>
                        request'[q].read = rooms[request'[q].room]
              /\ \A b \in DOMAIN bookings' \ DOMAIN bookings : \E q \in Requests : MadeFor(q, b)
            ]_roomVars
        BY RulesStep, ReadsTheRoom
    <1> QED BY <1>1, InitRoomsIInv, NextRoomsIInv, PTL DEF RoomsSpec, BookedByTheRules
=================================================================================
