---------------------------- MODULE BookingService ----------------------------
(***************************************************************************)
(* The booking and waitlist services (internal/service/booking.go and      *)
(* waitlist.go) at work on the reservation store, many requests at a time. *)
(*                                                                         *)
(* A request reads a row, checks it against the rules and the clock, and   *)
(* only then runs its transaction; afterwards it publishes an event.       *)
(* Between these three moments other requests commit and time passes, so   *)
(* the row it read may be stale.  A request that a check refuses changes   *)
(* nothing and is no step here, with the exception of the one answer a     *)
(* property is about.                                                      *)
(***************************************************************************)
EXTENDS Reservations

CONSTANTS
    Requests,           \* requests in flight at one time
    Admins,             \* users with the role admin
    Manages,            \* Manages[u]: the rooms on the floor that u manages
    LargeRooms,         \* capacity > LargeRoomCapacityThreshold
    InService,          \* rooms whose status is not out_of_service
    CancelDeadline,     \* a booking is not cancelled later than this before its start
    OfferTTL,           \* how long an offer may be confirmed
    MaxLost             \* bound: so many events die with the request that owed them

ASSUME ServiceAssumption ==
    /\ Admins \subseteq Users
    /\ Manages \in [Users -> SUBSET Rooms]
    /\ LargeRooms \subseteq Rooms
    /\ InService \subseteq Rooms
    /\ CancelDeadline \in Nat /\ OfferTTL \in Nat /\ MaxLost \in Nat

VARIABLES
    request,            \* what each request in flight is about to do
    spent,              \* the ids that waitlist entries ever had: uuids are not reused
    published,          \* the events that were handed to the publisher
    lost                \* the events of requests that died before they could

serviceVars == <<bookings, waitlist, now, request, spent, published, lost>>

-------------------------------------------------------------------------------
(* Requests and events. *)

EventType == {"created", "pending_approval", "approved", "rejected", "cancelled"}

Event == [type : EventType, booking : BookingId]

\* Fault: the arguments are swapped.
Told_Swapped(type, id) == [type |-> id, booking |-> type]

Told(type, id) == [type |-> type, booking |-> id]

Idle == [op |-> "idle"]

\* A request that passed its checks, with the arguments of its transaction.
Call == [op : {"create"}, room : Rooms, user : Users, slot : Slots,
         status : {"confirmed", "pending_approval"}]
   \cup [op : {"cancel", "approve"}, booking : BookingId]
   \cup [op : {"reject"}, booking : BookingId, reason : Reasons]
   \cup [op : {"join"}, room : Rooms, user : Users, slot : Slots]
   \cup [op : {"confirm", "expire", "leave"}, entry : WaitlistId]

\* A request whose transaction committed and that has events left to publish.
Publishing == [op : {"publish"}, events : SUBSET Event]

\* A request that was answered ErrAlreadyCancelled.
Refused == [op : {"already_cancelled"}, booking : BookingId]

IsIdle(q) == request[q].op = "idle"

\* The events that the request has yet to publish.
InFlight(q) == IF request[q].op = "publish" THEN request[q].events ELSE {}

Becomes(q, what) == request' = [request EXCEPT ![q] = what]

\* The request does what follows its checks.
Accept(q, call) ==
    /\ IsIdle(q)
    /\ Becomes(q, call)
    /\ UNCHANGED <<bookings, waitlist, now, spent, published, lost>>

\* The transaction of the request rolls back, or changes nothing: it is answered.
GiveUp(q, answer) ==
    /\ Becomes(q, answer)
    /\ UNCHANGED <<bookings, waitlist, now, spent, published, lost>>

\* What a request that has these events to publish does next.
Remaining(events) == IF events = {} THEN Idle ELSE [op |-> "publish", events |-> events]

ThenPublish(q, events) ==
    /\ Becomes(q, Remaining(events))
    /\ UNCHANGED <<published, lost>>

-------------------------------------------------------------------------------
(* Reads and checks. *)

\* The interval still lies ahead (validateInterval; Slots has only intervals of a
\* permitted duration).
Ahead(slot) == slot.start > now

CreateStart(q, user, room, slot) ==
    /\ Ahead(slot)
    /\ room \in InService
    /\ Accept(q, [op |-> "create", room |-> room, user |-> user, slot |-> slot,
                  status |-> IF room \in LargeRooms THEN "pending_approval"
                                                    ELSE "confirmed"])

\* checkCancelPermission
MayCancel(user, b) ==
    \/ user \in Admins
    \/ bookings[b].user = user
    \/ bookings[b].room \in Manages[user]

CancelStart(q, user, b) ==
    /\ b \in DOMAIN bookings
    /\ bookings[b].status # "cancelled"
    /\ MayCancel(user, b)
    /\ bookings[b].slot.start - now >= CancelDeadline
    /\ Accept(q, [op |-> "cancel", booking |-> b])

\* No deadline for an administrator.
ForceCancelStart(q, user, b) ==
    /\ user \in Admins
    /\ b \in DOMAIN bookings
    /\ bookings[b].status # "cancelled"
    /\ Accept(q, [op |-> "cancel", booking |-> b])

\* Fault: the boundary belongs to the overdue ones.
TooOld_Inclusive(b) == now - bookings[b].createdAt >= ApprovalTimeout

\* Fault: the time is up an hour too late.
TooOld_Late(b) == now - bookings[b].createdAt > ApprovalTimeout + 1

\* The approval of a booking is overdue: it has been pending for too long.
TooOld(b) == now - bookings[b].createdAt > ApprovalTimeout

\* An overdue booking is rejected instead.
ApproveStart(q, user, b) ==
    /\ user \in Admins
    /\ Pending(b)
    /\ Accept(q, IF TooOld(b)
                 THEN [op |-> "reject", booking |-> b, reason |-> "timeout"]
                 ELSE [op |-> "approve", booking |-> b])

RejectStart(q, user, b) ==
    /\ user \in Admins
    /\ Pending(b)
    /\ Accept(q, [op |-> "reject", booking |-> b, reason |-> "admin"])

\* IsRoomBusy is a first check, outside the transaction.
JoinStart(q, user, room, slot) ==
    /\ Ahead(slot)
    /\ room \in InService
    /\ Busy(room, slot)
    /\ Accept(q, [op |-> "join", room |-> room, user |-> user, slot |-> slot])

\* Fault: the boundary belongs to the stale ones.
Stale_Inclusive(e) == now - waitlist[e].offeredAt >= OfferTTL

\* The offer ran out of time: offered_at + OfferTTL < now.
Stale(e) == now - waitlist[e].offeredAt > OfferTTL

\* A stale offer is expired instead.
ConfirmStart(q, user, e) ==
    /\ Offered(e)
    /\ waitlist[e].user = user
    /\ \/ /\ Stale(e)
          /\ Accept(q, [op |-> "expire", entry |-> e])
       \/ /\ ~Stale(e)
          /\ Ahead(waitlist[e].slot)
          /\ waitlist[e].room \in InService
          /\ Accept(q, [op |-> "confirm", entry |-> e])

LeaveStart(q, user, e) ==
    /\ e \in DOMAIN waitlist
    /\ waitlist[e].user = user \/ user \in Admins
    /\ Accept(q, [op |-> "leave", entry |-> e])

-------------------------------------------------------------------------------
(* Transactions. *)

Create(q) ==
    /\ request[q].op = "create"
    /\ LET c == request[q]
       IN  \/ \E id \in BookingId :
                /\ CreateChecked(id, c.room, c.user, c.slot, c.status)
                /\ ThenPublish(q, {Told(IF c.status = "confirmed"
                                        THEN "created" ELSE c.status, id)})
                /\ UNCHANGED spent
           \/ Busy(c.room, c.slot) /\ GiveUp(q, Idle)

\* Fault: the repository's plain Cancel, which offers the slot to nobody.
Cancel_NoOffer(q) ==
    /\ request[q].op = "cancel"
    /\ LET b == request[q].booking
       IN  \/ /\ Active(b)
              /\ bookings' = SetStatus(bookings, b, "cancelled")
              /\ ThenPublish(q, {Told("cancelled", b)})
              /\ UNCHANGED <<waitlist, now, spent>>
           \/ ~Active(b) /\ GiveUp(q, Idle)

\* Fault: the UPDATE asks for confirmed bookings.
Cancel_ConfirmedOnly(q) ==
    /\ request[q].op = "cancel"
    /\ LET b == request[q].booking
       IN  \/ /\ bookings[b].status = "confirmed"
              /\ CancelAndOfferWaitlist(b)
              /\ ThenPublish(q, {Told("cancelled", b)})
              /\ UNCHANGED spent
           \/ /\ bookings[b].status # "confirmed"
              /\ GiveUp(q, [op |-> "already_cancelled", booking |-> b])

\* Cancel and ForceCancel: no row updated is answered ErrAlreadyCancelled.
Cancel(q) ==
    /\ request[q].op = "cancel"
    /\ LET b == request[q].booking
       IN  \/ /\ CancelAndOfferWaitlist(b)
              /\ ThenPublish(q, {Told("cancelled", b)})
              /\ UNCHANGED spent
           \/ /\ ~Active(b)
              /\ GiveUp(q, [op |-> "already_cancelled", booking |-> b])

ApproveCommit(q) ==
    /\ request[q].op = "approve"
    /\ LET b == request[q].booking
       IN  \/ /\ Approve(b)
              /\ ThenPublish(q, {Told("approved", b)})
              /\ UNCHANGED spent
           \/ ~Pending(b) /\ GiveUp(q, Idle)

Reject(q) ==
    /\ request[q].op = "reject"
    /\ LET b == request[q].booking
       IN  \/ /\ RejectAndOfferWaitlist(b, request[q].reason)
              /\ ThenPublish(q, {Told("rejected", b)})
              /\ UNCHANGED spent
           \/ ~Pending(b) /\ GiveUp(q, Idle)

\* Fault: the bookings that the sweep rejects are not reported.
List_Silent(q, user) ==
    /\ IsIdle(q)
    /\ user \in Admins
    /\ ListPendingApprovals
    /\ ThenPublish(q, {})
    /\ UNCHANGED spent

\* The list of pending approvals reads nothing before its transaction.
List(q, user) ==
    /\ IsIdle(q)
    /\ user \in Admins
    /\ ListPendingApprovals
    /\ ThenPublish(q, {Told("rejected", b) : b \in Overdue})
    /\ UNCHANGED spent

Join(q) ==
    /\ request[q].op = "join"
    /\ LET c == request[q]
           twice == \E e \in Queued(c.room) :
                        waitlist[e].user = c.user /\ waitlist[e].slot = c.slot
       IN  \/ \E e \in WaitlistId \ spent :
                /\ WaitlistCreate(e, c.room, c.user, c.slot)
                /\ spent' = spent \cup {e}
                /\ ThenPublish(q, {})
           \/ (~Busy(c.room, c.slot) \/ twice) /\ GiveUp(q, Idle)

\* Fault: a booking made from the waitlist is not reported.
Confirm_Silent(q) ==
    /\ request[q].op = "confirm"
    /\ LET e == request[q].entry
       IN  \E id \in BookingId :
            /\ ConfirmAndBook(e, id)
            /\ ThenPublish(q, {})
            /\ UNCHANGED spent

\* A conflict leaves the entry offered.
Confirm(q) ==
    /\ request[q].op = "confirm"
    /\ LET e == request[q].entry
       IN  \/ \E id \in BookingId :
                /\ ConfirmAndBook(e, id)
                /\ ThenPublish(q, {Told("created", id)})
                /\ UNCHANGED spent
           \/ /\ Offered(e) => Busy(waitlist[e].room, waitlist[e].slot)
              /\ GiveUp(q, Idle)

Expire(q) ==
    /\ request[q].op = "expire"
    /\ LET e == request[q].entry
       IN  \/ ExpireAndOfferNext(e) /\ ThenPublish(q, {}) /\ UNCHANGED spent
           \/ ~Offered(e) /\ GiveUp(q, Idle)

Leave(q) ==
    /\ request[q].op = "leave"
    /\ LET e == request[q].entry
       IN  \/ DeleteAndOfferNext(e) /\ ThenPublish(q, {}) /\ UNCHANGED spent
           \/ e \notin DOMAIN waitlist /\ GiveUp(q, Idle)

-------------------------------------------------------------------------------
(* After the transaction. *)

\* publishBookingEvent: a write to the topic that fails is only logged, so that the
\* request cannot tell; the events of a sweep go one by one.
Publish(q) ==
    /\ request[q].op = "publish"
    /\ \E ev \in request[q].events :
        /\ Becomes(q, Remaining(request[q].events \ {ev}))
        /\ published' = published \cup {ev}
    /\ UNCHANGED <<bookings, waitlist, now, spent, lost>>

\* The request ends where it is: its process stops, the 30 seconds of the router's
\* Timeout pass, or its transaction fails for good.
Abandon(q) ==
    /\ ~IsIdle(q)
    /\ Cardinality(InFlight(q)) + Cardinality(lost) <= MaxLost
    /\ Becomes(q, Idle)
    /\ lost' = lost \cup InFlight(q)
    /\ UNCHANGED <<bookings, waitlist, now, spent, published>>

ServiceTick == Tick /\ UNCHANGED <<request, spent, published, lost>>

ServiceInit == /\ Init
               /\ request = [q \in Requests |-> Idle]
               /\ spent = {}
               /\ published = {}
               /\ lost = {}

Start(q) ==
    \E user \in Users :
        \/ \E room \in Rooms, slot \in Slots : \/ CreateStart(q, user, room, slot)
                                               \/ JoinStart(q, user, room, slot)
        \/ \E b \in BookingId : \/ CancelStart(q, user, b)
                                \/ ForceCancelStart(q, user, b)
                                \/ ApproveStart(q, user, b)
                                \/ RejectStart(q, user, b)
        \/ \E e \in WaitlistId : ConfirmStart(q, user, e) \/ LeaveStart(q, user, e)

Commit(q) ==
    \/ Create(q)
    \/ Cancel(q)
    \/ ApproveCommit(q)
    \/ Reject(q)
    \/ \E user \in Users : List(q, user)
    \/ Join(q)
    \/ Confirm(q)
    \/ Expire(q)
    \/ Leave(q)

ServiceNext ==
    \/ \E q \in Requests : Start(q) \/ Commit(q) \/ Publish(q) \/ Abandon(q)
    \/ ServiceTick

ServiceSpec == ServiceInit /\ [][ServiceNext]_serviceVars

-------------------------------------------------------------------------------
(* Properties. *)

RequestOK == request \in [Requests -> {Idle} \cup Call \cup Publishing \cup Refused]

\* The requests in flight and the records of events are well formed.
ServiceTypeOK ==
    /\ TypeOK
    /\ RequestOK
    /\ DOMAIN waitlist \subseteq spent
    /\ published \subseteq Event
    /\ lost \subseteq Event

Reported == published \cup lost \cup UNION {InFlight(q) : q \in Requests}

\* Of all the requests that race for one transition of a booking (two cancellations, an
\* approval and the sweep, two confirmations of an offer) one wins and reports it: no
\* event is published, about to be published or lost twice.
ReportedOnce ==
    \A q \in Requests :
        /\ InFlight(q) \cap (published \cup lost) = {}
        /\ \A p \in Requests : InFlight(p) \cap InFlight(q) # {} => p = q

\* Whoever is answered that the booking is already cancelled need not try again: it holds
\* no slot any more, though it may be that it was rejected, even before this one read it.
RefusedTruly ==
    \A q \in Requests : request[q].op = "already_cancelled" => ~Active(request[q].booking)

\* Every transition of a booking is reported by the request that made it, however stale
\* the row that request had read: an event is published, on its way or lost for every
\* booking made, approved, rejected or cancelled, and for none that was not.
ReportedTruly ==
    /\ \A b \in DOMAIN bookings :
        /\ Told("created", b) \in Reported \/ Told("pending_approval", b) \in Reported
        /\ bookings[b].status \in {"approved", "rejected", "cancelled"} =>
                Told(bookings[b].status, b) \in Reported
    /\ \A ev \in Reported :
        /\ ev.booking \in DOMAIN bookings
        /\ ev.type \in {"rejected", "cancelled"} => bookings[ev.booking].status = ev.type
        /\ ev.type = "approved" => bookings[ev.booking].status \in {"approved", "cancelled"}

\* A clock that only moves forward makes the stale check safe: a booking is rejected for
\* its age, by the sweep or in place of an approval, only when it is that old.
TimeoutIsTrue ==
    [][ \A b \in DOMAIN bookings :
            bookings[b].reason # "timeout" /\ bookings'[b].reason = "timeout" =>
                bookings[b].createdAt + ApprovalTimeout < now ]_serviceVars

\* The service and the sweep agree on what is overdue, at the boundary too: an approval is
\* let through only for a booking that a sweep at that moment would have spared.  (Its
\* transaction, which looks at the status alone, may still run after the time is up.)
ApprovedInTime ==
    [][ \A q \in Requests :
            request[q] = Idle /\ request'[q].op = "approve" =>
                request'[q].booking \notin Overdue ]_serviceVars

\* The same for offers: whoever is offered a slot keeps the offer for OfferTTL.
OfferIsKept ==
    [][ \A e \in DOMAIN waitlist :
            /\ e \in DOMAIN waitlist'
            /\ waitlist[e].status = "offered"
            /\ waitlist'[e].status = "expired"
            => waitlist[e].offeredAt + OfferTTL < now ]_serviceVars

\* The services use the store through its transactions only: every step of theirs is a
\* step of the store, or leaves it alone.
StoreSpec == Spec

-------------------------------------------------------------------------------
(* Claims of the repository that the code does not keep. *)

\* large-room-approval/spec.md:166: rejecting a booking whose time is up is an error.  The
\* code does not look at the time when it accepts the administrator's rejection.
RejectedInTime ==
    [][ \A q \in Requests :
            request[q] = Idle /\ request'[q].op = "reject" /\ request'[q].reason = "admin" =>
                ~TooOld(request'[q].booking) ]_serviceVars

\* kafka.go:38: of one booking, created comes before cancelled.
CreatedBeforeCancelled ==
    [][ \A b \in BookingId :
            Told("created", b) \in published' \ published => Told("cancelled", b) \notin published ]_serviceVars
===============================================================================
