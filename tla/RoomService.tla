------------------------------ MODULE RoomService ------------------------------
(***************************************************************************)
(* Meeting rooms (internal/service/room.go over internal/repository/       *)
(* room.go), together with the reservations made in them.                  *)
(*                                                                         *)
(* Every statement on table rooms stands alone: a request that changes or  *)
(* deletes a room reads first and writes later, outside any transaction,   *)
(* and so do the checks of a room before a booking.  Requests are cut at   *)
(* these points; what a request has read of a room it keeps, and another   *)
(* request, or an operator, may change the room meanwhile.                 *)
(*                                                                         *)
(* The transactions on bookings and entries are those of Reservations.     *)
(***************************************************************************)
EXTENDS Listings

CONSTANTS
    Requests,       \* requests in flight at one time
    NewRooms,       \* what administrators ask for when they create a room
    RoomChanges,    \* and when they change one: optional values
    MaxChanges      \* bound: no more changes of rooms than this

Fields == {"name", "capacity", "floor", "equipment", "status"}

ASSUME RoomsAssumption ==
    /\ NewRooms \subseteq [name : Nat, capacity : Int, floor : Int,
                           equipment : SUBSET Equipment]
    /\ RoomChanges \subseteq [name : SUBSET Nat, capacity : SUBSET Int, floor : SUBSET Int,
                              equipment : SUBSET (SUBSET Equipment)]
    /\ \A c \in RoomChanges :
        \A opt \in {c.name, c.capacity, c.floor, c.equipment} : \A x, y \in opt : x = y
    /\ MaxChanges \in Nat

VARIABLES
    request,        \* what each request in flight is about to do
    asked,          \* the last value that was asked for, by room and field
    torn,           \* fields that an update wrote back as it had read them before a change
    gone,           \* rooms that were deleted: uuids are not reused
    changes         \* how many changes of rooms there were

roomVars == <<bookings, waitlist, now, rooms, request, asked, torn, gone, changes>>

\* LargeRoomCapacityThreshold
Threshold == 12

-------------------------------------------------------------------------------
(* Requests. *)

Idle == [op |-> "idle"]

\* A request that has read a room, with the row it read.
Call == [op : {"update"}, room : Rooms, read : RoomRow, change : RoomChanges]
   \cup [op : {"create"}, room : Rooms, read : RoomRow, user : Users, slot : Slots]
   \cup [op : {"confirm"}, room : Rooms, read : RoomRow, entry : WaitlistId]
   \cup [op : {"delete"}, room : Rooms]

Becomes(q, what) == request' = [request EXCEPT ![q] = what]

Accept(q, call) ==
    /\ request[q] = Idle
    /\ Becomes(q, call)
    /\ UNCHANGED <<bookings, waitlist, now, rooms, asked, torn, gone, changes>>

\* The request ends and has changed nothing: it was refused, or it died.
GiveUp(q) ==
    /\ Becomes(q, Idle)
    /\ UNCHANGED <<bookings, waitlist, now, rooms, asked, torn, gone, changes>>

-------------------------------------------------------------------------------
(* Creating, changing and deleting rooms. *)

CountChange == changes < MaxChanges /\ changes' = changes + 1

\* Fault: a room may have no seats.
Valid_NoSeats(row) == row.name # 0 /\ row.capacity >= 0

\* validateRoom; unknown equipment is not in Equipment.
Valid(row) == row.name # 0 /\ row.capacity >= 1

RoomCreate(q, r, in) ==
    /\ request[q] = Idle
    /\ r \notin DOMAIN rooms \cup gone
    /\ Valid(in)
    /\ LET row == [name |-> in.name, capacity |-> in.capacity, floor |-> in.floor,
                   equipment |-> in.equipment, status |-> "active"]
       IN  rooms' = Put(rooms, r, row) /\ asked' = Put(asked, r, row)
    /\ CountChange
    /\ UNCHANGED <<bookings, waitlist, now, request, torn, gone>>

Given(opt, current) == IF opt = {} THEN current ELSE CHOOSE x \in opt : TRUE

\* Fault: a floor that is left out becomes 0.
Merge_ZeroFloor(row, c) ==
    [row EXCEPT !.name = Given(c.name, @), !.capacity = Given(c.capacity, @),
                !.floor = Given(c.floor, 0), !.equipment = Given(c.equipment, @)]

\* The row once the fields that were given have been set.
Merge(row, c) ==
    [row EXCEPT !.name = Given(c.name, @), !.capacity = Given(c.capacity, @),
                !.floor = Given(c.floor, @), !.equipment = Given(c.equipment, @)]

GivenFields(c) == {f \in DOMAIN c : c[f] # {}}

AskedNow(row, c) == [f \in Fields |-> IF f \in GivenFields(c) THEN Given(c[f], row[f]) ELSE row[f]]

UpdateStart(q, r, c) ==
    /\ r \in DOMAIN rooms
    /\ Valid(Merge(rooms[r], c))
    /\ Accept(q, [op |-> "update", room |-> r, read |-> rooms[r], change |-> c])

\* Fault: INSERT ... ON CONFLICT DO UPDATE in place of UPDATE.
UpdateCommit_Upsert(q) ==
    /\ request[q].op = "update"
    /\ LET r == request[q].room
           row == Merge(request[q].read, request[q].change)
       IN  /\ rooms' = Put(rooms, r, row)
           /\ asked' = Put(asked, r, row)
           /\ Becomes(q, Idle)
           /\ CountChange
           /\ UNCHANGED <<bookings, waitlist, now, torn, gone>>

\* Every column is written, those that were read and not given included.
UpdateCommit(q) ==
    /\ request[q].op = "update"
    /\ LET r == request[q].room
           c == request[q].change
           written == {r} \X GivenFields(c)
       IN  \/ /\ r \in DOMAIN rooms
              /\ rooms' = Put(rooms, r, Merge(request[q].read, c))
              /\ asked' = Put(asked, r, AskedNow(asked[r], c))
              /\ torn' = (torn \cup {r} \X {f \in Fields : request[q].read[f] # rooms[r][f]})
                         \ written
              /\ Becomes(q, Idle)
              /\ CountChange
              /\ UNCHANGED <<bookings, waitlist, now, gone>>
           \/ r \notin DOMAIN rooms /\ GiveUp(q)

\* An operator puts a room out of service, or back: no request can.
OperatorSets(r, status) ==
    /\ r \in DOMAIN rooms
    /\ rooms' = SetStatus(rooms, r, status)
    /\ asked' = SetStatus(asked, r, status)
    /\ torn' = torn \ {<<r, "status">>}
    /\ CountChange
    /\ UNCHANGED <<bookings, waitlist, now, request, gone>>

DeleteStart(q, r) ==
    /\ r \in DOMAIN rooms
    /\ ~HasActiveForRoom(r, now)
    /\ Accept(q, [op |-> "delete", room |-> r])

\* Some row refers to the room, whatever its status: FOREIGN KEY of both tables.
Referenced(r) == \/ \E b \in DOMAIN bookings : bookings[b].room = r
                 \/ \E e \in DOMAIN waitlist : waitlist[e].room = r

\* Fault: the check that was made before is relied upon.
DeleteCommit_Checked(q) ==
    /\ request[q].op = "delete"
    /\ LET r == request[q].room
       IN  \/ /\ r \in DOMAIN rooms
              /\ rooms' = Remove(rooms, r)
              /\ asked' = Remove(asked, r)
              /\ torn' = {t \in torn : t[1] # r}
              /\ gone' = gone \cup {r}
              /\ Becomes(q, Idle)
              /\ CountChange
              /\ UNCHANGED <<bookings, waitlist, now>>
           \/ r \notin DOMAIN rooms /\ GiveUp(q)

\* A room that is gone, or referred to, is not deleted.
DeleteCommit(q) ==
    /\ request[q].op = "delete"
    /\ LET r == request[q].room
       IN  \/ /\ r \in DOMAIN rooms
              /\ ~Referenced(r)
              /\ rooms' = Remove(rooms, r)
              /\ asked' = Remove(asked, r)
              /\ torn' = {t \in torn : t[1] # r}
              /\ gone' = gone \cup {r}
              /\ Becomes(q, Idle)
              /\ CountChange
              /\ UNCHANGED <<bookings, waitlist, now>>
           \/ (r \notin DOMAIN rooms \/ Referenced(r)) /\ GiveUp(q)

-------------------------------------------------------------------------------
(* Bookings of rooms that may change. *)

RoomsUnchanged == UNCHANGED <<rooms, asked, torn, gone, changes>>

\* The interval lies ahead and the room is in service.
CreateStart(q, r, user, slot) ==
    /\ slot.start > now
    /\ r \in DOMAIN rooms
    /\ InUse(r)
    /\ Accept(q, [op |-> "create", room |-> r, read |-> rooms[r], user |-> user, slot |-> slot])

\* A large room needs an approval.
StatusFor(row) == IF row.capacity > Threshold THEN "pending_approval" ELSE "confirmed"

\* The foreign key refuses a booking of a room that is gone.
CreateCommit(q) ==
    /\ request[q].op = "create"
    /\ LET c == request[q]
       IN  \/ /\ c.room \in DOMAIN rooms
              /\ \E id \in BookingId : CreateChecked(id, c.room, c.user, c.slot, StatusFor(c.read))
              /\ Becomes(q, Idle)
              /\ RoomsUnchanged
           \/ (c.room \notin DOMAIN rooms \/ Busy(c.room, c.slot)) /\ GiveUp(q)

\* Fault: nothing is asked of the room.
ConfirmStart_AnyRoom(q, e) ==
    /\ Offered(e)
    /\ waitlist[e].slot.start > now
    /\ LET r == waitlist[e].room
       IN  /\ r \in DOMAIN rooms
           /\ Accept(q, [op |-> "confirm", room |-> r, read |-> rooms[r], entry |-> e])

\* The offer is taken to be fresh; stale ones are expired by the action below.
ConfirmStart(q, e) ==
    /\ Offered(e)
    /\ waitlist[e].slot.start > now
    /\ LET r == waitlist[e].room
       IN  /\ r \in DOMAIN rooms
           /\ InUse(r)
           /\ Accept(q, [op |-> "confirm", room |-> r, read |-> rooms[r], entry |-> e])

ConfirmCommit(q) ==
    /\ request[q].op = "confirm"
    /\ LET e == request[q].entry
       IN  \/ /\ \E id \in BookingId : ConfirmAndBook(e, id)
              /\ Becomes(q, Idle)
              /\ RoomsUnchanged
           \/ (Offered(e) => Busy(waitlist[e].room, waitlist[e].slot)) /\ GiveUp(q)

\* A request in flight names the entry, which may be gone: no other gets its uuid.
Named(e) == \E q \in Requests : request[q].op = "confirm" /\ request[q].entry = e

\* Transactions that ask nothing of a room but that it exists.
OtherTransactions ==
    /\ \/ \E b \in BookingId : \/ CancelAndOfferWaitlist(b)
                               \/ Approve(b)
                               \/ \E reason \in Reasons : RejectAndOfferWaitlist(b, reason)
       \/ ListPendingApprovals
       \/ \E e \in WaitlistId : \/ ExpireAndOfferNext(e)
                                \/ DeleteAndOfferNext(e)
                                \/ /\ ~Named(e)
                                   /\ \E r \in DOMAIN rooms, user \in Users, slot \in Slots :
                                            WaitlistCreate(e, r, user, slot)
    /\ UNCHANGED request
    /\ RoomsUnchanged

RoomsTick == Tick /\ UNCHANGED request /\ RoomsUnchanged

RoomsInit == /\ Init
             /\ rooms = Empty
             /\ request = [q \in Requests |-> Idle]
             /\ asked = Empty
             /\ torn = {}
             /\ gone = {}
             /\ changes = 0

Start(q) ==
    \/ \E r \in Rooms : \/ \E in \in NewRooms : RoomCreate(q, r, in)
                        \/ \E c \in RoomChanges : UpdateStart(q, r, c)
                        \/ DeleteStart(q, r)
                        \/ \E user \in Users, slot \in Slots : CreateStart(q, r, user, slot)
    \/ \E e \in WaitlistId : ConfirmStart(q, e)

Finish(q) ==
    \/ UpdateCommit(q)
    \/ DeleteCommit(q)
    \/ CreateCommit(q)
    \/ ConfirmCommit(q)
    \/ request[q] # Idle /\ GiveUp(q)

RoomsNext ==
    \/ \E q \in Requests : Start(q) \/ Finish(q)
    \/ \E r \in Rooms, status \in RoomStatus : OperatorSets(r, status)
    \/ OtherTransactions
    \/ RoomsTick

RoomsSpec == RoomsInit /\ [][RoomsNext]_roomVars

-------------------------------------------------------------------------------
(* Properties. *)

RequestOK == request \in [Requests -> {Idle} \cup Call]

\* Rooms, requests and the records about them are well formed.
RoomsTypeOK ==
    /\ TypeOK
    /\ DOMAIN rooms \subseteq Rooms
    /\ rooms \in [DOMAIN rooms -> RoomRow]
    /\ RequestOK
    /\ DOMAIN asked = DOMAIN rooms
    /\ torn \subseteq (DOMAIN rooms) \X Fields
    /\ gone \subseteq Rooms \ DOMAIN rooms
    /\ changes \in 0 .. MaxChanges

\* A deletion that checked for bookings and then raced with one, or that looked past the
\* old ones, leaves no booking and no entry without its room.
NoOrphans ==
    /\ \A b \in DOMAIN bookings : bookings[b].room \in DOMAIN rooms
    /\ \A e \in DOMAIN waitlist : waitlist[e].room \in DOMAIN rooms

\* An update that read a room before it was deleted does not bring it back.
DeletedStaysDeleted == [][gone \cap DOMAIN rooms' = {}]_roomVars

\* Administrators who change different fields of one room at one time may undo each
\* other's change, but never one in force when they read the room: a field is as whoever
\* asked last left it, unless an update that asked for other fields found it changed since
\* it had read the room, and wrote the old value back.
AsLastAsked ==
    \A r \in DOMAIN rooms : \A f \in Fields :
        rooms[r][f] # asked[r][f] => <<r, f>> \in torn

\* A booking is made for a request, in a room that still exists, and by the rules of that
\* room as this request read it when it began: the room was in service; if the request
\* came to book, it gets the slot it asked for, confirmed up to the threshold and pending
\* above it; if it came to take an offer, the booking is confirmed whatever the capacity,
\* for the user and the slot of the entry, which is used up.
MadeFor(q, b) ==
    LET call == request[q]
        booking == bookings'[b]
    IN  /\ call.op \in {"create", "confirm"}
        /\ booking.room = call.room
        /\ call.room \in DOMAIN rooms
        /\ call.read.status = "active"
        /\ request'[q] = Idle
        /\ \/ /\ call.op = "create"
              /\ booking.user = call.user /\ booking.slot = call.slot
              /\ booking.status = "confirmed" <=> call.read.capacity <= 12
              /\ booking.status = "pending_approval" <=> call.read.capacity > 12
           \/ /\ call.op = "confirm"
              /\ booking.status = "confirmed"
              /\ waitlist[call.entry].status = "offered"
              /\ waitlist'[call.entry].status = "converted"
              /\ booking.user = waitlist[call.entry].user
              /\ booking.slot = waitlist[call.entry].slot

BookedByTheRules ==
    [][ /\ \A q \in Requests :
            request[q] = Idle /\ request'[q].op \in {"create", "confirm"} =>
                request'[q].read = rooms[request'[q].room]
        /\ \A b \in DOMAIN bookings' \ DOMAIN bookings : \E q \in Requests : MadeFor(q, b)
      ]_roomVars

\* Whatever happens to rooms, bookings and entries change by the transactions of the store.
StoreSpec == Spec
===============================================================================
