----------------------------- MODULE Reservations -----------------------------
(***************************************************************************)
(* The reservation store of the booking engine: the tables bookings and    *)
(* waitlist_entries and the repository methods that change them            *)
(* (internal/repository/booking.go and waitlist.go).                       *)
(*                                                                         *)
(* Each method is one serializable transaction, so it is one action: what  *)
(* it reads, what it updates and the offer of the freed slot that it makes *)
(* to the waitlist take effect together.  A method that returns an error   *)
(* or a conflict has rolled back and changes nothing; its guard is then    *)
(* false here, and the module BookingService models the answer.            *)
(*                                                                         *)
(* Who may call a method, and when, is decided by the services above the   *)
(* store; here every call that the services can make may happen at any     *)
(* time.                                                                   *)
(*                                                                         *)
(* An operator whose name has a fault after an underscore is a variant of  *)
(* the one below it with a mistake the code could have; no action uses it. *)
(* Put in the place of the right one it makes TLC refute a property, which *)
(* shows that the property can fail.                                       *)
(***************************************************************************)
EXTENDS Integers, FiniteSets

CONSTANTS
    Rooms,              \* meeting rooms
    Users,              \* employees
    BookingId,          \* ids a booking may get
    WaitlistId,         \* ids a waitlist entry may get
    Slots,              \* the intervals clients ask for
    ApprovalTimeout,    \* how long a booking may wait for an approval
    Horizon,            \* bound: the clock stops here
    MaxPosition         \* bound: no entry joins a queue behind this position

\* validateInterval lets through no interval that ends before it starts.
ASSUME SlotsAssumption ==
    /\ Slots \subseteq [start : Nat, end : Nat]
    /\ \A s \in Slots : s.start < s.end

ASSUME BoundsAssumption ==
    ApprovalTimeout \in Nat /\ Horizon \in Nat /\ MaxPosition \in Nat

VARIABLES
    bookings,           \* the rows of table bookings, by id
    waitlist,           \* the rows of table waitlist_entries, by id
    now                 \* the clock that stamps rows and ages them

vars == <<bookings, waitlist, now>>

-------------------------------------------------------------------------------
(* Rows. *)

\* Statuses of a booking that holds its slot (activeStatuses).
ActiveStatuses == {"confirmed", "pending_approval", "approved"}

BookingStatus == ActiveStatuses \cup {"cancelled", "rejected"}

\* Entries that stand in the queue: the others are history.
QueuedStatuses == {"waiting", "offered"}

WaitlistStatus == QueuedStatuses \cup {"expired", "converted"}

Never == -1             \* offered_at IS NULL

NoReason == "none"      \* rejection_reason of a booking nobody rejected

Reasons == {"admin", "timeout"}

BookingRow == [room : Rooms, user : Users, slot : Slots, status : BookingStatus,
               createdAt : Nat, reason : Reasons \cup {NoReason}]

WaitlistRow == [room : Rooms, user : Users, slot : Slots, status : WaitlistStatus,
                position : Nat \ {0}, offeredAt : Nat \cup {Never}]

Empty == [x \in {} |-> {}]

Put(table, id, row) ==
    [x \in DOMAIN table \cup {id} |-> IF x = id THEN row ELSE table[x]]

Remove(table, id) == [x \in DOMAIN table \ {id} |-> table[x]]

SetStatus(table, id, status) == [table EXCEPT ![id].status = status]

\* Half-open intervals: [10, 11) and [11, 12) touch and do not overlap.
Overlaps(s, t) == s.start < t.end /\ t.start < s.end

Active(id) == bookings[id].status \in ActiveStatuses

\* Fault: bookings that await an approval, or have it, do not count.
Busy_ConfirmedOnly(room, slot) ==
    \E id \in DOMAIN bookings : /\ bookings[id].room = room
                                /\ bookings[id].status = "confirmed"
                                /\ Overlaps(bookings[id].slot, slot)

\* Some active booking of the room overlaps the slot.
Busy(room, slot) ==
    \E id \in DOMAIN bookings :
        /\ bookings[id].room = room
        /\ Active(id)
        /\ Overlaps(bookings[id].slot, slot)

Queued(room) == {e \in DOMAIN waitlist : /\ waitlist[e].room = room
                                         /\ waitlist[e].status \in QueuedStatuses}

-------------------------------------------------------------------------------
(* Offering a freed slot to the queue (offerNextSlot). *)

\* The waiting entries that a freed slot of the room could serve.
Candidates(room, slot) ==
    {e \in Queued(room) : /\ waitlist[e].status = "waiting"
                          /\ Overlaps(waitlist[e].slot, slot)}

\* Fault: ORDER BY position DESC.
HeadOf_Last(candidates) ==
    IF candidates = {}
    THEN {{}}
    ELSE {{e} : e \in {h \in candidates : \A c \in candidates :
                            waitlist[h].position >= waitlist[c].position}}

\* The candidate at the head of the queue, as a singleton; {} without candidates.
HeadOf(candidates) ==
    IF candidates = {}
    THEN {{}}
    ELSE {{e} : e \in {h \in candidates : \A c \in candidates :
                            waitlist[h].position <= waitlist[c].position}}

\* The table once the entries of a set have been offered a slot.
Offer(table, entries) ==
    [e \in DOMAIN table |->
        IF e \in entries
        THEN [table[e] EXCEPT !.status = "offered", !.offeredAt = now]
        ELSE table[e]]

\* offerNextSlot in a transaction that has already changed the waitlist to table; the
\* row it changed was not waiting, so the candidates are those of the waitlist.
OfferNextSlot(table, room, slot) ==
    \E head \in HeadOf(Candidates(room, slot)) : waitlist' = Offer(table, head)

-------------------------------------------------------------------------------
(* The transactions on bookings. *)

NewBooking(room, user, slot, status) ==
    [room |-> room, user |-> user, slot |-> slot, status |-> status,
     createdAt |-> now, reason |-> NoReason]

CreateChecked(id, room, user, slot, status) ==
    /\ id \notin DOMAIN bookings
    /\ ~Busy(room, slot)
    /\ bookings' = Put(bookings, id, NewBooking(room, user, slot, status))
    /\ UNCHANGED <<waitlist, now>>

\* Fault: the UPDATE does not ask for an active status.
CancelAndOfferWaitlist_Always(id) ==
    /\ id \in DOMAIN bookings
    /\ bookings' = SetStatus(bookings, id, "cancelled")
    /\ OfferNextSlot(waitlist, bookings[id].room, bookings[id].slot)
    /\ UNCHANGED now

CancelAndOfferWaitlist(id) ==
    /\ id \in DOMAIN bookings
    /\ Active(id)
    /\ bookings' = SetStatus(bookings, id, "cancelled")
    /\ OfferNextSlot(waitlist, bookings[id].room, bookings[id].slot)
    /\ UNCHANGED now

\* Fault: any booking that holds its slot can be approved and rejected.
Pending_AnyActive(id) == id \in DOMAIN bookings /\ Active(id)

Pending(id) == id \in DOMAIN bookings /\ bookings[id].status = "pending_approval"

\* Fault: the UPDATE does not ask for pending_approval.
Approve_Always(id) ==
    /\ id \in DOMAIN bookings
    /\ bookings' = SetStatus(bookings, id, "approved")
    /\ UNCHANGED <<waitlist, now>>

Approve(id) ==
    /\ Pending(id)
    /\ bookings' = SetStatus(bookings, id, "approved")
    /\ UNCHANGED <<waitlist, now>>

\* The bookings table once some of its bookings have been rejected.
Rejected(ids, reason) ==
    [id \in DOMAIN bookings |->
        IF id \in ids
        THEN [bookings[id] EXCEPT !.status = "rejected", !.reason = reason]
        ELSE bookings[id]]

RejectAndOfferWaitlist(id, reason) ==
    /\ Pending(id)
    /\ bookings' = Rejected({id}, reason)
    /\ OfferNextSlot(waitlist, bookings[id].room, bookings[id].slot)
    /\ UNCHANGED now

\* Bookings whose approval is overdue: created_at < now - timeout.
Overdue == {id \in DOMAIN bookings : /\ bookings[id].status = "pending_approval"
                                     /\ bookings[id].createdAt + ApprovalTimeout < now}

\* The orders in which the sweep may visit bookings: by age, ties in any order.
SweepOrders(ids) ==
    {rank \in [ids -> 1 .. Cardinality(ids)] : \A b, c \in ids :
        /\ b # c => rank[b] # rank[c]
        /\ bookings[b].createdAt < bookings[c].createdAt => rank[b] < rank[c]}

\* The entries the sweep offers: heads[b] is the one that booking b's slot goes to,
\* the head of those that no booking visited before b has taken.
SweepOffers(ids, rank, heads) ==
    \A b \in ids :
        LET taken == UNION {heads[c] : c \in {d \in ids : rank[d] < rank[b]}}
        IN  heads[b] \in HeadOf(Candidates(bookings[b].room, bookings[b].slot) \ taken)

\* One transaction rejects every overdue booking and offers the slot of each; the
\* list of those left is a query.
ListPendingApprovals ==
    /\ bookings' = Rejected(Overdue, "timeout")
    /\ \E rank \in SweepOrders(Overdue),
          heads \in [Overdue -> {{}} \cup {{e} : e \in DOMAIN waitlist}] :
            /\ SweepOffers(Overdue, rank, heads)
            /\ waitlist' = Offer(waitlist, UNION {heads[b] : b \in Overdue})
    /\ UNCHANGED now

-------------------------------------------------------------------------------
(* The transactions on waitlist entries. *)

\* Fault: the first position is 0.
NextPosition_FromZero(room) ==
    LET used == {waitlist[e].position : e \in Queued(room)}
    IN  {p \in {0} \cup {q + 1 : q \in used} : \A q \in used : q < p}

\* Fault: the entries that hold an offer are not counted.
NextPosition_WaitingOnly(room) ==
    LET used == {waitlist[e].position :
                    e \in {w \in Queued(room) : waitlist[w].status = "waiting"}}
    IN  {p \in {1} \cup {q + 1 : q \in used} : \A q \in used : q < p}

\* COALESCE(MAX(position), 0) + 1 over the queue of the room, as a singleton.
NextPosition(room) ==
    LET used == {waitlist[e].position : e \in Queued(room)}
    IN  {p \in {1} \cup {q + 1 : q \in used} : \A q \in used : q < p}

WaitlistCreate(id, room, user, slot) ==
    /\ id \notin DOMAIN waitlist
    /\ Busy(room, slot)
    \* uq_waitlist_active: one queued entry per user, room and interval
    /\ \A e \in Queued(room) : waitlist[e].user = user => waitlist[e].slot # slot
    /\ \E p \in NextPosition(room) :
            /\ p <= MaxPosition
            /\ waitlist' = Put(waitlist, id,
                   [room |-> room, user |-> user, slot |-> slot, status |-> "waiting",
                    position |-> p, offeredAt |-> Never])
    /\ UNCHANGED <<bookings, now>>

Offered(e) == e \in DOMAIN waitlist /\ waitlist[e].status = "offered"

\* Fault: an offer is taken to reserve the slot, and no conflict is looked for.
ConfirmAndBook_Unchecked(e, id) ==
    /\ Offered(e)
    /\ id \notin DOMAIN bookings
    /\ waitlist' = SetStatus(waitlist, e, "converted")
    /\ bookings' = Put(bookings, id, NewBooking(waitlist[e].room, waitlist[e].user,
                                                waitlist[e].slot, "confirmed"))
    /\ UNCHANGED now

\* The booking takes room, user and interval from the entry, and is confirmed
\* whatever the room (Waitlist.Confirm).
ConfirmAndBook(e, id) ==
    /\ Offered(e)
    /\ id \notin DOMAIN bookings
    /\ ~Busy(waitlist[e].room, waitlist[e].slot)
    /\ waitlist' = SetStatus(waitlist, e, "converted")
    /\ bookings' = Put(bookings, id, NewBooking(waitlist[e].room, waitlist[e].user,
                                                waitlist[e].slot, "confirmed"))
    /\ UNCHANGED now

ExpireAndOfferNext(e) ==
    /\ Offered(e)
    /\ OfferNextSlot(SetStatus(waitlist, e, "expired"), waitlist[e].room, waitlist[e].slot)
    /\ UNCHANGED <<bookings, now>>

\* Fault: an entry leaves without a word to the next.
DeleteAndOfferNext_Silent(e) ==
    /\ e \in DOMAIN waitlist
    /\ waitlist' = Remove(waitlist, e)
    /\ UNCHANGED <<bookings, now>>

\* Only an offered entry gives its slot to the next in the queue.
DeleteAndOfferNext(e) ==
    /\ e \in DOMAIN waitlist
    /\ IF waitlist[e].status = "offered"
       THEN OfferNextSlot(Remove(waitlist, e), waitlist[e].room, waitlist[e].slot)
       ELSE waitlist' = Remove(waitlist, e)
    /\ UNCHANGED <<bookings, now>>

-------------------------------------------------------------------------------
Tick == /\ now < Horizon
        /\ now' = now + 1
        /\ UNCHANGED <<bookings, waitlist>>

Init == /\ bookings = Empty
        /\ waitlist = Empty
        /\ now = 0

Next ==
    \/ \E id \in BookingId, room \in Rooms, user \in Users, slot \in Slots,
          status \in {"confirmed", "pending_approval"} :
            CreateChecked(id, room, user, slot, status)
    \/ \E id \in BookingId : CancelAndOfferWaitlist(id)
    \/ \E id \in BookingId : Approve(id)
    \/ \E id \in BookingId, reason \in Reasons : RejectAndOfferWaitlist(id, reason)
    \/ ListPendingApprovals
    \/ \E e \in WaitlistId, room \in Rooms, user \in Users, slot \in Slots :
            WaitlistCreate(e, room, user, slot)
    \/ \E e \in WaitlistId, id \in BookingId : ConfirmAndBook(e, id)
    \/ \E e \in WaitlistId : ExpireAndOfferNext(e)
    \/ \E e \in WaitlistId : DeleteAndOfferNext(e)
    \/ Tick

Spec == Init /\ [][Next]_vars

-------------------------------------------------------------------------------
(* Properties. *)

\* The tables hold well-formed rows.
TypeOK == /\ DOMAIN bookings \subseteq BookingId
          /\ bookings \in [DOMAIN bookings -> BookingRow]
          /\ DOMAIN waitlist \subseteq WaitlistId
          /\ waitlist \in [DOMAIN waitlist -> WaitlistRow]
          /\ now \in Nat

\* Two bookings that hold a slot of one room never overlap, whichever of the three
\* ways a booking comes to hold one: a direct booking, one that awaits its approval,
\* or the conversion of a waitlist offer.
NoDoubleBooking ==
    \A b, c \in DOMAIN bookings :
        /\ b # c
        /\ Active(b) /\ Active(c)
        /\ bookings[b].room = bookings[c].room
        => ~Overlaps(bookings[b].slot, bookings[c].slot)

\* The entries that stand in the queue of a room have different positions, although
\* positions are reused once the entries that had them leave the queue.
PositionsDistinct ==
    \A room \in Rooms : \A e, f \in Queued(room) :
        waitlist[e].position = waitlist[f].position => e = f

\* The queue is fair among equals: while an entry waits, no entry behind it that waits
\* for the same interval of the room holds an offer.
NoOvertaking ==
    \A room \in Rooms : \A e, f \in Queued(room) :
        /\ waitlist[e].slot = waitlist[f].slot
        /\ waitlist[e].status = "waiting"
        /\ waitlist[f].status = "offered"
        => waitlist[f].position < waitlist[e].position

DisjointSlots == \A s, t \in Slots : Overlaps(s, t) => s = t

\* Nobody waits for a slot that stands idle: as long as clients ask for intervals that
\* are equal or do not overlap, a waiting entry's slot is booked, or is on offer to an
\* entry ahead in the queue that has yet to answer.
NoStrandedWaiter ==
    DisjointSlots =>
        \A room \in Rooms : \A e \in Queued(room) :
            waitlist[e].status = "waiting" =>
                \/ Busy(room, waitlist[e].slot)
                \/ \E f \in Queued(room) : /\ waitlist[f].status = "offered"
                                           /\ waitlist[f].slot = waitlist[e].slot

Freed == {b \in DOMAIN bookings : Active(b) /\ bookings'[b].status \notin ActiveStatuses}

\* The entries that a step offers a slot: they hold an offer they did not hold before.
NewlyOffered == {e \in DOMAIN waitlist \cap DOMAIN waitlist' :
                    waitlist[e].status # "offered" /\ waitlist'[e].status = "offered"}

\* An offer that lapses: its entry expired or left the queue without a booking.
Lapsed == {e \in DOMAIN waitlist :
            Offered(e) /\ (e \notin DOMAIN waitlist' \/ waitlist'[e].status = "expired")}

\* A step makes no more offers than it frees slots: every new offer is for a booking
\* that stopped holding its slot, or an offer that lapsed, in the same transaction, and
\* a booking that is cancelled or rejected twice makes no second offer.
OffersArePaidFor ==
    [][ /\ Cardinality(NewlyOffered) <= Cardinality(Freed) + Cardinality(Lapsed)
        /\ \A e \in NewlyOffered :
            \/ \E b \in Freed : /\ bookings[b].room = waitlist[e].room
                                /\ Overlaps(bookings[b].slot, waitlist[e].slot)
            \/ \E f \in Lapsed : /\ waitlist[f].room = waitlist[e].room
                                 /\ Overlaps(waitlist[f].slot, waitlist[e].slot) ]_vars

\* A booking and an entry only move forward: a booking that gave up its slot never holds
\* it again, an approval answers a pending booking once, an offer answers a waiting
\* entry once and is itself answered once; what the client asked for never changes.
LifecycleForward ==
    [][ /\ \A b \in DOMAIN bookings :
            LET old == bookings[b]
                new == bookings'[b]
            IN  /\ <<old.status, new.status>> \in
                     {<<s, s>> : s \in BookingStatus}
                     \cup (ActiveStatuses \X {"cancelled"})
                     \cup ({"pending_approval"} \X {"approved", "rejected"})
                /\ <<new.room, new.user, new.slot>> = <<old.room, old.user, old.slot>>
        /\ \A e \in DOMAIN waitlist \cap DOMAIN waitlist' :
            LET old == waitlist[e]
                new == waitlist'[e]
            IN  /\ <<old.status, new.status>> \in
                     {<<s, s>> : s \in WaitlistStatus}
                     \cup {<<"waiting", "offered">>}
                     \cup ({"offered"} \X {"converted", "expired"})
                /\ <<new.slot, new.position>> = <<old.slot, old.position>> ]_vars

\* The store implements the ledger of reservations: the bookings that hold a slot are
\* its reservations, every transaction reserves one, releases some, or changes nothing.
Ledger == INSTANCE SlotLedger WITH
    held <- [b \in {i \in DOMAIN bookings : Active(i)} |->
                [room |-> bookings[b].room, slot |-> bookings[b].slot]],
    released <- {i \in DOMAIN bookings : ~Active(i)}

LedgerSpec == Ledger!Spec
===============================================================================
