-------------------------- MODULE Reservations_proofs --------------------------
(***************************************************************************)
(* Theorems about the reservation store, for every set of rooms, users,    *)
(* ids and intervals and every bound.                                      *)
(***************************************************************************)
EXTENDS Reservations, FiniteSetTheorems, TLAPS

-------------------------------------------------------------------------------
(* Lemmas on the operators. *)

\* The head of a set of candidates is none of them when there is none, and otherwise
\* one of them with no candidate ahead of it.
LEMMA HeadOfCandidates ==
    ASSUME NEW C, NEW head \in HeadOf(C)
    PROVE  \/ C = {} /\ head = {}
           \/ \E e \in C : /\ head = {e}
                           /\ \A c \in C : waitlist[e].position <= waitlist[c].position
    BY DEF HeadOf

\* Offering keeps the table's rows in form, and changes nothing but the status and the
\* time of the rows it offers.
LEMMA OfferEffect ==
    ASSUME NEW table, table \in [DOMAIN table -> WaitlistRow], now \in Nat,
           NEW E
    PROVE  /\ Offer(table, E) \in [DOMAIN table -> WaitlistRow]
           /\ DOMAIN Offer(table, E) = DOMAIN table
           /\ \A e \in DOMAIN table :
                /\ Offer(table, E)[e].room = table[e].room
                /\ Offer(table, E)[e].user = table[e].user
                /\ Offer(table, E)[e].slot = table[e].slot
                /\ Offer(table, E)[e].position = table[e].position
                /\ Offer(table, E)[e].status =
                        IF e \in E THEN "offered" ELSE table[e].status
    <1>1. \A e \in DOMAIN table :
            [table[e] EXCEPT !.status = "offered", !.offeredAt = now] \in WaitlistRow
        BY DEF WaitlistRow, WaitlistStatus, QueuedStatuses
    <1>2. \A e \in DOMAIN table : table[e] \in WaitlistRow
        OBVIOUS
    <1> QED BY <1>1, <1>2 DEF Offer, WaitlistRow

\* A new position is a positive number behind every position in the queue.
LEMMA NextPositionIsLast ==
    ASSUME TypeOK, NEW room, NEW p \in NextPosition(room)
    PROVE  /\ p \in Nat \ {0}
           /\ \A e \in Queued(room) : waitlist[e].position < p
    BY DEF NextPosition, TypeOK, Queued, WaitlistRow

-------------------------------------------------------------------------------
(* What a step does to the tables. *)

\* Bookings that stay keep room and slot, and hold no slot they did not hold.
Releases ==
    /\ DOMAIN bookings' = DOMAIN bookings
    /\ bookings' \in [DOMAIN bookings -> BookingRow]
    /\ \A b \in DOMAIN bookings :
        /\ bookings'[b].room = bookings[b].room
        /\ bookings'[b].slot = bookings[b].slot
        /\ bookings'[b].status \in ActiveStatuses => bookings[b].status \in ActiveStatuses

\* One new booking, which holds a slot that was free.
Books(id, row) ==
    /\ id \in BookingId \ DOMAIN bookings
    /\ row \in BookingRow
    /\ row.status \in ActiveStatuses
    /\ ~Busy(row.room, row.slot)
    /\ bookings' = Put(bookings, id, row)

\* Entries that stay keep room, interval and position; none starts to wait or joins.
Serves ==
    /\ DOMAIN waitlist' \subseteq DOMAIN waitlist
    /\ waitlist' \in [DOMAIN waitlist' -> WaitlistRow]
    /\ \A e \in DOMAIN waitlist' :
        /\ waitlist'[e].room = waitlist[e].room
        /\ waitlist'[e].slot = waitlist[e].slot
        /\ waitlist'[e].position = waitlist[e].position
        /\ waitlist'[e].status \in QueuedStatuses => waitlist[e].status \in QueuedStatuses
        /\ waitlist'[e].status = "waiting" => waitlist[e].status = "waiting"

\* One new entry, waiting behind the queue of its room,
Enqueues(e, row) ==
    /\ e \in WaitlistId \ DOMAIN waitlist
    /\ row \in WaitlistRow
    /\ row.status = "waiting"
    /\ \A f \in Queued(row.room) : waitlist[f].position < row.position
    /\ waitlist' = Put(waitlist, e, row)

\* for an interval that is busy.
Joins(e, row) == Enqueues(e, row) /\ Busy(row.room, row.slot)

\* What may become of the bookings, and of the queues.
BookingsChange == Releases \/ \E id \in BookingId, row \in BookingRow : Books(id, row)

QueuesChange == Serves \/ \E e \in WaitlistId, row \in WaitlistRow : Enqueues(e, row)

\* An offer goes to an entry with nobody ahead who waits on for the same interval.
OffersInOrder ==
    \A f \in DOMAIN waitlist' :
        /\ waitlist'[f].status = "offered"
        /\ waitlist[f].status = "waiting"
        => \A e \in DOMAIN waitlist' :
            /\ waitlist'[e].status = "waiting"
            /\ waitlist'[e].room = waitlist'[f].room
            /\ waitlist'[e].slot = waitlist'[f].slot
            => waitlist'[f].position <= waitlist'[e].position

\* A freed slot of a room passes to the queue: if somebody still waits for an interval
\* that overlaps it, then somebody holds an offer of one that overlaps it.
PassesOn(room, slot) ==
    \A e \in DOMAIN waitlist' :
        /\ waitlist'[e].status = "waiting"
        /\ waitlist'[e].room = room
        /\ Overlaps(waitlist'[e].slot, slot)
        => \E f \in DOMAIN waitlist' : /\ waitlist'[f].status = "offered"
                                       /\ waitlist'[f].room = room
                                       /\ Overlaps(waitlist'[f].slot, slot)

\* Every slot that a booking gives up passes to the queue.
FreedPassOn ==
    \A b \in DOMAIN bookings :
        Active(b) /\ bookings'[b].status \notin ActiveStatuses =>
            PassesOn(bookings[b].room, bookings[b].slot)

\* Every offer that is not there any more became a booking or passed to the queue.
LapsedPassOn ==
    \A e \in DOMAIN waitlist :
        /\ waitlist[e].status = "offered"
        /\ ~(e \in DOMAIN waitlist' /\ waitlist'[e].status = "offered")
        => \/ \E b \in DOMAIN bookings' : /\ bookings'[b].room = waitlist[e].room
                                          /\ bookings'[b].status \in ActiveStatuses
                                          /\ Overlaps(bookings'[b].slot, waitlist[e].slot)
           \/ PassesOn(waitlist[e].room, waitlist[e].slot)

\* offerNextSlot offers the slot to the head of the candidates and touches no other row.
LEMMA OfferNextSlotServes ==
    ASSUME TypeOK, NEW table, NEW room, NEW slot, OfferNextSlot(table, room, slot),
           DOMAIN table \subseteq DOMAIN waitlist,
           \A e \in DOMAIN waitlist : waitlist[e].status = "waiting" => e \in DOMAIN table,
           table \in [DOMAIN table -> WaitlistRow],
           \A e \in DOMAIN table :
            /\ table[e].room = waitlist[e].room
            /\ table[e].slot = waitlist[e].slot
            /\ table[e].position = waitlist[e].position
            /\ table[e].status # waitlist[e].status =>
                    waitlist[e].status = "offered" /\ table[e].status \notin QueuedStatuses
    PROVE  Serves /\ OffersInOrder /\ PassesOn(room, slot)
    <1>1. PICK head \in HeadOf(Candidates(room, slot)) : waitlist' = Offer(table, head)
        BY DEF OfferNextSlot
    <1>2. /\ waitlist' \in [DOMAIN table -> WaitlistRow]
          /\ DOMAIN waitlist' = DOMAIN table
          /\ \A e \in DOMAIN table :
                /\ waitlist'[e].room = table[e].room
                /\ waitlist'[e].slot = table[e].slot
                /\ waitlist'[e].position = table[e].position
                /\ waitlist'[e].status = IF e \in head THEN "offered" ELSE table[e].status
        BY <1>1, OfferEffect DEF TypeOK
    <1>3. \/ head = {}
          \/ \E h \in Candidates(room, slot) : /\ head = {h}
                /\ \A c \in Candidates(room, slot) :
                        waitlist[h].position <= waitlist[c].position
        BY HeadOfCandidates
    <1>4. \A h \in head : waitlist[h].status = "waiting"
        BY <1>3 DEF Candidates
    <1>5. Serves
        BY <1>2, <1>4 DEF Serves, QueuedStatuses
    <1>6. OffersInOrder
        BY <1>2, <1>3, <1>4 DEF OffersInOrder, Candidates, Queued, QueuedStatuses
    <1>7. ASSUME NEW e \in DOMAIN waitlist', waitlist'[e].status = "waiting",
                 waitlist'[e].room = room, Overlaps(waitlist'[e].slot, slot)
          PROVE  \E f \in DOMAIN waitlist' : /\ waitlist'[f].status = "offered"
                                             /\ waitlist'[f].room = room
                                             /\ Overlaps(waitlist'[f].slot, slot)
        <2>1. e \in Candidates(room, slot)
            BY <1>2, <1>7 DEF Candidates, Queued, QueuedStatuses
        <2>2. PICK h \in Candidates(room, slot) : head = {h}
            BY <2>1, HeadOfCandidates
        <2>3. /\ h \in DOMAIN waitlist
              /\ waitlist[h].status = "waiting"
              /\ waitlist[h].room = room
              /\ Overlaps(waitlist[h].slot, slot)
            BY DEF Candidates, Queued
        <2> QED BY <1>2, <2>2, <2>3
    <1>8. PassesOn(room, slot)
        BY <1>7 DEF PassesOn
    <1> QED BY <1>5, <1>6, <1>8

\* The sweep of overdue approvals, which rejects several bookings and makes an offer
\* for each in one transaction, does what so many single rejections do.
LEMMA SweepServes ==
    ASSUME TypeOK, ListPendingApprovals
    PROVE  Serves /\ OffersInOrder /\ FreedPassOn
    <1>1. PICK rank \in SweepOrders(Overdue),
               heads \in [Overdue -> {{}} \cup {{e} : e \in DOMAIN waitlist}] :
                    /\ SweepOffers(Overdue, rank, heads)
                    /\ waitlist' = Offer(waitlist, UNION {heads[b] : b \in Overdue})
        BY DEF ListPendingApprovals
    <1> DEFINE all == UNION {heads[b] : b \in Overdue}
               taken(b) == UNION {heads[c] : c \in {d \in Overdue : rank[d] < rank[b]}}
               cands(b) == Candidates(bookings[b].room, bookings[b].slot)
    <1>2. /\ waitlist' \in [DOMAIN waitlist -> WaitlistRow]
          /\ DOMAIN waitlist' = DOMAIN waitlist
          /\ \A e \in DOMAIN waitlist :
                /\ waitlist'[e].room = waitlist[e].room
                /\ waitlist'[e].slot = waitlist[e].slot
                /\ waitlist'[e].position = waitlist[e].position
                /\ waitlist'[e].status = IF e \in all THEN "offered" ELSE waitlist[e].status
        BY <1>1, OfferEffect DEF TypeOK
    <1>3. ASSUME NEW b \in Overdue
          PROVE  \/ cands(b) \ taken(b) = {} /\ heads[b] = {}
                 \/ \E h \in cands(b) \ taken(b) : /\ heads[b] = {h}
                        /\ \A c \in cands(b) \ taken(b) :
                                waitlist[h].position <= waitlist[c].position
        <2>1. heads[b] \in HeadOf(cands(b) \ taken(b))
            BY <1>1 DEF SweepOffers
        <2> HIDE DEF cands, taken
        <2> QED BY <2>1, HeadOfCandidates
    <1>4. \A h \in all : h \in DOMAIN waitlist /\ waitlist[h].status = "waiting"
        BY <1>3 DEF Candidates, Queued
    <1>5. \A b \in Overdue : taken(b) \subseteq all
        OBVIOUS
    <1>6. Serves
        BY <1>2, <1>4 DEF Serves, QueuedStatuses
    <1>7. ASSUME NEW b \in Overdue, NEW e \in DOMAIN waitlist',
                 waitlist'[e].status = "waiting",
                 waitlist'[e].room = bookings[b].room,
                 Overlaps(waitlist'[e].slot, bookings[b].slot)
          PROVE  e \in cands(b) \ taken(b)
        <2>1. e \notin all
            BY <1>2, <1>7
        <2>2. e \in cands(b)
            BY <1>2, <1>7, <2>1 DEF Candidates, Queued, QueuedStatuses
        <2> QED BY <1>5, <2>1, <2>2
    <1>8. OffersInOrder
        <2> SUFFICES ASSUME NEW f \in DOMAIN waitlist', waitlist'[f].status = "offered",
                            waitlist[f].status = "waiting",
                            NEW e \in DOMAIN waitlist', waitlist'[e].status = "waiting",
                            waitlist'[e].room = waitlist'[f].room,
                            waitlist'[e].slot = waitlist'[f].slot
                     PROVE  waitlist'[f].position <= waitlist'[e].position
            BY DEF OffersInOrder
        <2>1. PICK b \in Overdue : f \in heads[b]
            BY <1>2
        <2>2. f \in cands(b)
            BY <1>3, <2>1
        <2>3. e \in cands(b) \ taken(b)
            BY <1>2, <1>7, <2>2 DEF Candidates, Queued
        <2>4. waitlist[f].position <= waitlist[e].position
            BY <1>3, <2>1, <2>3
        <2> QED BY <1>2, <2>4
    <1>9. FreedPassOn
        <2>1. \A b \in DOMAIN bookings :
                Active(b) /\ bookings'[b].status \notin ActiveStatuses => b \in Overdue
            BY DEF ListPendingApprovals, Rejected, Active, ActiveStatuses
        <2>2. ASSUME NEW b \in Overdue
              PROVE  PassesOn(bookings[b].room, bookings[b].slot)
            <3> SUFFICES ASSUME NEW e \in DOMAIN waitlist', waitlist'[e].status = "waiting",
                                waitlist'[e].room = bookings[b].room,
                                Overlaps(waitlist'[e].slot, bookings[b].slot)
                         PROVE  \E f \in DOMAIN waitlist' :
                                    /\ waitlist'[f].status = "offered"
                                    /\ waitlist'[f].room = bookings[b].room
                                    /\ Overlaps(waitlist'[f].slot, bookings[b].slot)
                BY DEF PassesOn
            <3>1. PICK h \in cands(b) : heads[b] = {h}
                BY <1>3, <1>7
            <3>2. h \in all
                BY <3>1
            <3> QED BY <1>2, <3>1, <3>2 DEF Candidates, Queued
        <2> QED BY <2>1, <2>2 DEF FreedPassOn
    <1> QED BY <1>6, <1>8, <1>9

\* Every transaction books one free slot or releases some slots.
LEMMA BookingStep ==
    ASSUME TypeOK, [Next]_vars
    PROVE  Releases \/ \E id \in BookingId, row \in BookingRow : Books(id, row)
    <1> USE DEF ActiveStatuses, BookingStatus
    <1>1. ASSUME NEW id \in BookingId, NEW room \in Rooms, NEW user \in Users,
                 NEW slot \in Slots, NEW status \in {"confirmed", "pending_approval"},
                 CreateChecked(id, room, user, slot, status)
          PROVE  \E row \in BookingRow : Books(id, row)
        <2> DEFINE row == NewBooking(room, user, slot, status)
        <2>1. row \in BookingRow
            BY DEF NewBooking, BookingRow, TypeOK
        <2>2. row.status = status /\ row.room = room /\ row.slot = slot
            BY DEF NewBooking
        <2> QED BY <1>1, <2>1, <2>2 DEF CreateChecked, Books
    <1>2. ASSUME NEW e \in WaitlistId, NEW id \in BookingId, ConfirmAndBook(e, id)
          PROVE  \E row \in BookingRow : Books(id, row)
        <2> DEFINE row == NewBooking(waitlist[e].room, waitlist[e].user,
                                     waitlist[e].slot, "confirmed")
        <2>1. waitlist[e] \in WaitlistRow
            BY <1>2 DEF ConfirmAndBook, Offered, TypeOK
        <2>2. row \in BookingRow
            BY <2>1 DEF NewBooking, BookingRow, WaitlistRow, TypeOK
        <2>3. /\ row.status = "confirmed"
              /\ row.room = waitlist[e].room
              /\ row.slot = waitlist[e].slot
            BY DEF NewBooking
        <2> QED BY <1>2, <2>2, <2>3 DEF ConfirmAndBook, Books
    <1>3. ASSUME NEW id \in BookingId, CancelAndOfferWaitlist(id)
          PROVE  Releases
        BY <1>3 DEF CancelAndOfferWaitlist, SetStatus, Releases, TypeOK, BookingRow, Active
    <1>4. ASSUME NEW id \in BookingId, Approve(id)
          PROVE  Releases
        BY <1>4 DEF Approve, Pending, SetStatus, Releases, TypeOK, BookingRow
    <1>5. ASSUME NEW ids, NEW reason \in Reasons, bookings' = Rejected(ids, reason)
          PROVE  Releases
        BY <1>5 DEF Rejected, Releases, TypeOK, BookingRow
    <1>6. ASSUME NEW id \in BookingId, NEW reason \in Reasons,
                 RejectAndOfferWaitlist(id, reason)
          PROVE  Releases
        BY <1>5, <1>6 DEF RejectAndOfferWaitlist
    <1>7. CASE ListPendingApprovals
        BY <1>5, <1>7 DEF ListPendingApprovals, Reasons
    <1>8. CASE UNCHANGED bookings
        BY <1>8 DEF Releases, TypeOK
    <1> QED BY <1>1, <1>2, <1>3, <1>4, <1>6, <1>7, <1>8
            DEF Next, vars, WaitlistCreate, ExpireAndOfferNext, DeleteAndOfferNext, Tick

\* Every transaction either adds one entry at the end of its queue, or serves the
\* queue in order; what it frees it passes on.
LEMMA WaitlistStep ==
    ASSUME TypeOK, [Next]_vars
    PROVE  \/ Serves /\ OffersInOrder /\ FreedPassOn /\ LapsedPassOn
           \/ UNCHANGED bookings /\ \E e \in WaitlistId, row \in WaitlistRow : Joins(e, row)
    <1> DEFINE Passes == Serves /\ OffersInOrder /\ FreedPassOn /\ LapsedPassOn
    <1>1. ASSUME UNCHANGED waitlist,
                 \A b \in DOMAIN bookings :
                    Active(b) => bookings'[b].status \in ActiveStatuses
          PROVE  Passes
        BY <1>1 DEF Serves, OffersInOrder, FreedPassOn, LapsedPassOn, TypeOK
    <1>2. ASSUME NEW id \in BookingId, NEW room \in Rooms, NEW user \in Users,
                 NEW slot \in Slots, NEW status \in {"confirmed", "pending_approval"},
                 CreateChecked(id, room, user, slot, status)
          PROVE  Passes
        BY <1>1, <1>2 DEF CreateChecked, Put, Active
    <1>3. ASSUME NEW id \in BookingId, CancelAndOfferWaitlist(id)
          PROVE  Passes
        <2>1. /\ Serves /\ OffersInOrder
              /\ PassesOn(bookings[id].room, bookings[id].slot)
            BY <1>3, OfferNextSlotServes DEF CancelAndOfferWaitlist, TypeOK
        <2>2. FreedPassOn
            BY <1>3, <2>1 DEF CancelAndOfferWaitlist, SetStatus, FreedPassOn, Active, TypeOK
        <2>3. LapsedPassOn
            BY <1>3, OfferEffect DEF CancelAndOfferWaitlist, OfferNextSlot, LapsedPassOn, TypeOK
        <2> QED BY <2>1, <2>2, <2>3
    <1>4. ASSUME NEW id \in BookingId, Approve(id)
          PROVE  Passes
        BY <1>1, <1>4 DEF Approve, Pending, SetStatus, TypeOK, Active, ActiveStatuses
    <1>5. ASSUME NEW id \in BookingId, NEW reason \in Reasons,
                 RejectAndOfferWaitlist(id, reason)
          PROVE  Passes
        <2>1. /\ Serves /\ OffersInOrder
              /\ PassesOn(bookings[id].room, bookings[id].slot)
            BY <1>5, OfferNextSlotServes DEF RejectAndOfferWaitlist, TypeOK
        <2>2. FreedPassOn
            BY <1>5, <2>1 DEF RejectAndOfferWaitlist, Rejected, FreedPassOn, Active
        <2>3. LapsedPassOn
            BY <1>5, OfferEffect DEF RejectAndOfferWaitlist, OfferNextSlot, LapsedPassOn, TypeOK
        <2> QED BY <2>1, <2>2, <2>3
    <1>6. CASE ListPendingApprovals
        <2>1. Serves /\ OffersInOrder /\ FreedPassOn
            BY <1>6, SweepServes
        <2>2. LapsedPassOn
            BY <1>6, OfferEffect DEF ListPendingApprovals, LapsedPassOn, TypeOK
        <2> QED BY <2>1, <2>2
    <1>7. ASSUME NEW e \in WaitlistId, NEW room \in Rooms, NEW user \in Users,
                 NEW slot \in Slots, WaitlistCreate(e, room, user, slot)
          PROVE  UNCHANGED bookings /\ \E row \in WaitlistRow : Joins(e, row)
        <2>1. PICK p \in NextPosition(room) : waitlist' = Put(waitlist, e,
                   [room |-> room, user |-> user, slot |-> slot, status |-> "waiting",
                    position |-> p, offeredAt |-> Never])
            BY <1>7 DEF WaitlistCreate
        <2> DEFINE row == [room |-> room, user |-> user, slot |-> slot,
                           status |-> "waiting", position |-> p, offeredAt |-> Never]
        <2>2. /\ p \in Nat \ {0}
              /\ \A f \in Queued(room) : waitlist[f].position < p
            BY NextPositionIsLast
        <2>3. row \in WaitlistRow
            BY <2>2 DEF WaitlistRow, WaitlistStatus, QueuedStatuses
        <2> QED BY <1>7, <2>1, <2>2, <2>3 DEF WaitlistCreate, Joins, Enqueues
    <1>8. ASSUME NEW e \in WaitlistId, NEW id \in BookingId, ConfirmAndBook(e, id)
          PROVE  Passes
        <2>1. /\ e \in DOMAIN waitlist
              /\ waitlist[e].status = "offered"
              /\ waitlist' = [waitlist EXCEPT ![e].status = "converted"]
            BY <1>8 DEF ConfirmAndBook, SetStatus, Offered
        <2>2. Serves /\ OffersInOrder
            BY <2>1 DEF Serves, OffersInOrder, TypeOK, WaitlistRow, WaitlistStatus,
                        QueuedStatuses
        <2>3. FreedPassOn
            BY <1>8 DEF ConfirmAndBook, Put, FreedPassOn, Active
        <2>4. \E b \in DOMAIN bookings' : /\ bookings'[b].room = waitlist[e].room
                                          /\ bookings'[b].status \in ActiveStatuses
                                          /\ Overlaps(bookings'[b].slot, waitlist[e].slot)
            <3>1. waitlist[e] \in WaitlistRow /\ waitlist[e].slot \in Slots
                BY <2>1 DEF TypeOK, WaitlistRow
            <3>2. Overlaps(waitlist[e].slot, waitlist[e].slot)
                BY <3>1, SlotsAssumption DEF Overlaps
            <3>3. /\ id \in DOMAIN bookings'
                  /\ bookings'[id].room = waitlist[e].room
                  /\ bookings'[id].slot = waitlist[e].slot
                  /\ bookings'[id].status = "confirmed"
                BY <1>8 DEF ConfirmAndBook, NewBooking, Put
            <3> QED BY <3>2, <3>3 DEF ActiveStatuses
        <2>5. LapsedPassOn
            BY <2>1, <2>4 DEF LapsedPassOn, TypeOK
        <2> QED BY <2>2, <2>3, <2>5
    <1>9. ASSUME NEW e \in WaitlistId, ExpireAndOfferNext(e)
          PROVE  Passes
        <2> DEFINE table == SetStatus(waitlist, e, "expired")
        <2>1. /\ e \in DOMAIN waitlist
              /\ waitlist[e].status = "offered"
            BY <1>9 DEF ExpireAndOfferNext, Offered
        <2>2. /\ DOMAIN table = DOMAIN waitlist
              /\ table \in [DOMAIN table -> WaitlistRow]
              /\ \A f \in DOMAIN table :
                    /\ table[f].room = waitlist[f].room
                    /\ table[f].slot = waitlist[f].slot
                    /\ table[f].position = waitlist[f].position
                    /\ table[f].status = IF f = e THEN "expired" ELSE waitlist[f].status
            BY <2>1 DEF SetStatus, TypeOK, WaitlistRow, WaitlistStatus
        <2>3. OfferNextSlot(table, waitlist[e].room, waitlist[e].slot)
            BY <1>9 DEF ExpireAndOfferNext
        <2>4. /\ Serves /\ OffersInOrder
              /\ PassesOn(waitlist[e].room, waitlist[e].slot)
            <3> HIDE DEF table
            <3> QED BY <2>1, <2>2, <2>3, OfferNextSlotServes DEF QueuedStatuses
        <2>5. FreedPassOn
            BY <1>9 DEF ExpireAndOfferNext, FreedPassOn, Active
        <2>6. LapsedPassOn
            <3> HIDE DEF table
            <3> QED BY <2>2, <2>3, <2>4, OfferEffect DEF OfferNextSlot, LapsedPassOn, TypeOK
        <2> QED BY <2>4, <2>5, <2>6
    <1>10. ASSUME NEW e \in WaitlistId, DeleteAndOfferNext(e), waitlist[e].status = "offered"
           PROVE  Passes
        <2> DEFINE table == Remove(waitlist, e)
        <2>2. /\ DOMAIN table = DOMAIN waitlist \ {e}
              /\ table \in [DOMAIN table -> WaitlistRow]
              /\ \A f \in DOMAIN table : table[f] = waitlist[f]
            BY DEF Remove, TypeOK
        <2>3. OfferNextSlot(table, waitlist[e].room, waitlist[e].slot)
            BY <1>10 DEF DeleteAndOfferNext
        <2>4. /\ Serves /\ OffersInOrder
              /\ PassesOn(waitlist[e].room, waitlist[e].slot)
            <3> HIDE DEF table
            <3> QED BY <1>10, <2>2, <2>3, OfferNextSlotServes DEF QueuedStatuses
        <2>5. FreedPassOn
            BY <1>10 DEF DeleteAndOfferNext, FreedPassOn, Active
        <2>6. LapsedPassOn
            <3> HIDE DEF table
            <3> QED BY <2>2, <2>3, <2>4, OfferEffect DEF OfferNextSlot, LapsedPassOn, TypeOK
        <2> QED BY <2>4, <2>5, <2>6
    <1>11. ASSUME NEW e \in WaitlistId, DeleteAndOfferNext(e), waitlist[e].status # "offered"
           PROVE  Passes
        <2>1. waitlist' = Remove(waitlist, e) /\ UNCHANGED bookings
            BY <1>11 DEF DeleteAndOfferNext
        <2>2. Serves /\ OffersInOrder
            BY <2>1 DEF Remove, Serves, OffersInOrder, TypeOK
        <2>3. FreedPassOn /\ LapsedPassOn
            BY <1>11, <2>1 DEF Remove, FreedPassOn, LapsedPassOn, Active
        <2> QED BY <2>2, <2>3
    <1>12. CASE Tick \/ UNCHANGED vars
        BY <1>1, <1>12 DEF Tick, vars, Active
    <1> QED BY <1>2, <1>3, <1>4, <1>5, <1>6, <1>7, <1>8, <1>9, <1>10, <1>11, <1>12 DEF Next

-------------------------------------------------------------------------------
(* Theorems. *)

\* Empty tables are well formed.
LEMMA InitTypeOK == Init => TypeOK
    BY DEF Init, TypeOK, Empty

\* So are tables that change as they may.
LEMMA StaysWellFormed ==
    ASSUME TypeOK
    PROVE  /\ BookingsChange => /\ DOMAIN bookings' \subseteq BookingId
                                /\ bookings' \in [DOMAIN bookings' -> BookingRow]
           /\ QueuesChange => /\ DOMAIN waitlist' \subseteq WaitlistId
                              /\ waitlist' \in [DOMAIN waitlist' -> WaitlistRow]
    <1> DEFINE B == /\ DOMAIN bookings' \subseteq BookingId
                    /\ bookings' \in [DOMAIN bookings' -> BookingRow]
               W == /\ DOMAIN waitlist' \subseteq WaitlistId
                    /\ waitlist' \in [DOMAIN waitlist' -> WaitlistRow]
    <1>1. Releases => B
        BY DEF Releases, TypeOK
    <1>2. ASSUME NEW id \in BookingId, NEW row \in BookingRow, Books(id, row)
          PROVE  B
        BY <1>2 DEF Books, Put, TypeOK
    <1>3. Serves => W
        BY DEF Serves, TypeOK
    <1>4. ASSUME NEW e \in WaitlistId, NEW row \in WaitlistRow, Enqueues(e, row)
          PROVE  W
        BY <1>4 DEF Enqueues, Put, TypeOK
    <1> QED BY <1>1, <1>2, <1>3, <1>4 DEF BookingsChange, QueuesChange

\* Every transaction leaves the tables well formed.
LEMMA NextTypeOK == TypeOK /\ [Next]_vars => TypeOK'
    <1> SUFFICES ASSUME TypeOK, [Next]_vars
                 PROVE  TypeOK'
        OBVIOUS
    <1>1. /\ DOMAIN bookings' \subseteq BookingId
          /\ bookings' \in [DOMAIN bookings' -> BookingRow]
        BY BookingStep, StaysWellFormed DEF BookingsChange
    <1>2. /\ DOMAIN waitlist' \subseteq WaitlistId
          /\ waitlist' \in [DOMAIN waitlist' -> WaitlistRow]
        BY WaitlistStep, StaysWellFormed DEF QueuesChange, Joins
    <1>3. now' \in Nat
        <2>1. now' = now \/ now' = now + 1
            <3>1. ASSUME NEW id \in BookingId, NEW room \in Rooms, NEW user \in Users,
                         NEW slot \in Slots, NEW status \in {"confirmed", "pending_approval"},
                         CreateChecked(id, room, user, slot, status)
                  PROVE  now' = now
                BY <3>1 DEF CreateChecked
            <3>2. ASSUME NEW e \in WaitlistId, NEW room \in Rooms, NEW user \in Users,
                         NEW slot \in Slots, WaitlistCreate(e, room, user, slot)
                  PROVE  now' = now
                BY <3>2 DEF WaitlistCreate
            <3>3. ASSUME NEW id \in BookingId, NEW reason \in Reasons,
                         CancelAndOfferWaitlist(id) \/ Approve(id)
                            \/ RejectAndOfferWaitlist(id, reason)
                  PROVE  now' = now
                BY <3>3 DEF CancelAndOfferWaitlist, Approve, RejectAndOfferWaitlist
            <3>4. ASSUME NEW e \in WaitlistId, NEW id \in BookingId, ConfirmAndBook(e, id)
                  PROVE  now' = now
                BY <3>4 DEF ConfirmAndBook
            <3>5. ASSUME NEW e \in WaitlistId, ExpireAndOfferNext(e) \/ DeleteAndOfferNext(e)
                  PROVE  now' = now
                BY <3>5 DEF ExpireAndOfferNext, DeleteAndOfferNext
            <3>6. CASE ListPendingApprovals \/ Tick \/ UNCHANGED vars
                BY <3>6 DEF ListPendingApprovals, Tick, vars
            <3>7. \A id \in BookingId : CancelAndOfferWaitlist(id) \/ Approve(id) => now' = now
                BY <3>3 DEF Reasons
            <3> QED BY <3>1, <3>2, <3>3, <3>4, <3>5, <3>6, <3>7 DEF Next
        <2> QED BY <2>1 DEF TypeOK
    <1> QED BY <1>1, <1>2, <1>3 DEF TypeOK

\* The tables are well formed in every reachable state.
THEOREM TypeCorrect == Spec => []TypeOK
    BY InitTypeOK, NextTypeOK, PTL DEF Spec

\* Who only releases slots and books free ones never books over another.
LEMMA StaysSingle ==
    ASSUME TypeOK, NoDoubleBooking, BookingsChange
    PROVE  NoDoubleBooking'
    <1>1. CASE Releases
        BY <1>1 DEF Releases, NoDoubleBooking, Active
    <1>2. ASSUME NEW id \in BookingId, NEW row \in BookingRow, Books(id, row)
          PROVE  NoDoubleBooking'
        <2>1. /\ DOMAIN bookings' = DOMAIN bookings \cup {id}
              /\ bookings'[id] = row
              /\ \A b \in DOMAIN bookings : bookings'[b] = bookings[b]
            BY <1>2 DEF Books, Put
        <2>2. \A b \in DOMAIN bookings :
                Active(b) /\ bookings[b].room = row.room => ~Overlaps(bookings[b].slot, row.slot)
            BY <1>2 DEF Books, Busy
        <2>3. \A b \in DOMAIN bookings :
                Active(b) /\ bookings[b].room = row.room => ~Overlaps(row.slot, bookings[b].slot)
            BY <2>2 DEF Overlaps
        <2> QED BY <2>1, <2>2, <2>3 DEF NoDoubleBooking, Active
    <1> QED BY <1>1, <1>2 DEF BookingsChange

\* No transaction books over a booking that holds its slot.
LEMMA NextNoDoubleBooking ==
    TypeOK /\ NoDoubleBooking /\ [Next]_vars => NoDoubleBooking'
    BY BookingStep, StaysSingle DEF BookingsChange

\* No two bookings ever hold overlapping slots of one room: the promise of the engine.
THEOREM NeverDoubleBooked == Spec => []NoDoubleBooking
    <1>1. Init => NoDoubleBooking
        BY DEF Init, NoDoubleBooking, Empty
    <1> QED BY <1>1, InitTypeOK, NextTypeOK, NextNoDoubleBooking, PTL DEF Spec

\* Who only serves queues and joins them at the end never takes a position twice.
LEMMA StaysOrdered ==
    ASSUME TypeOK, PositionsDistinct, QueuesChange
    PROVE  PositionsDistinct'
    <1>1. CASE Serves
        BY <1>1 DEF Serves, PositionsDistinct, Queued
    <1>2. ASSUME NEW e \in WaitlistId, NEW row \in WaitlistRow, Enqueues(e, row)
          PROVE  PositionsDistinct'
        <2>1. /\ DOMAIN waitlist' = DOMAIN waitlist \cup {e}
              /\ waitlist'[e] = row
              /\ \A f \in DOMAIN waitlist : waitlist'[f] = waitlist[f]
            BY <1>2 DEF Enqueues, Put
        <2>2. /\ row.position \in Nat
              /\ \A f \in Queued(row.room) :
                    waitlist[f].position \in Nat /\ waitlist[f].position < row.position
            BY <1>2 DEF Enqueues, TypeOK, WaitlistRow, Queued
        <2>3. \A room \in Rooms : Queued(room)' \subseteq Queued(room) \cup {e}
            BY <2>1 DEF Queued
        <2>4. \A room \in Rooms : e \in Queued(room)' => row.room = room
            BY <2>1 DEF Queued
        <2> SUFFICES ASSUME NEW room \in Rooms, NEW f \in Queued(room)', NEW g \in Queued(room)',
                            waitlist'[f].position = waitlist'[g].position
                     PROVE  f = g
            BY DEF PositionsDistinct
        <2>5. CASE f \in Queued(room) /\ g \in Queued(room)
            BY <2>1, <2>5 DEF PositionsDistinct, Queued
        <2>6. CASE f = e /\ g \in Queued(room)
            BY <2>1, <2>2, <2>4, <2>6 DEF Queued
        <2>7. CASE g = e /\ f \in Queued(room)
            BY <2>1, <2>2, <2>4, <2>7 DEF Queued
        <2> QED BY <2>3, <2>5, <2>6, <2>7
    <1> QED BY <1>1, <1>2 DEF QueuesChange

\* No transaction gives a position that is taken.
LEMMA NextPositionsDistinct ==
    TypeOK /\ PositionsDistinct /\ [Next]_vars => PositionsDistinct'
    BY WaitlistStep, StaysOrdered DEF QueuesChange, Joins

\* The order of a queue is total, and stays so while its members come and go.
THEOREM QueueIsOrdered == Spec => []PositionsDistinct
    <1>1. Init => PositionsDistinct
        BY DEF Init, PositionsDistinct, Queued, Empty
    <1> QED BY <1>1, InitTypeOK, NextTypeOK, NextPositionsDistinct, PTL DEF Spec

\* No transaction offers a slot past an entry that waits for the same one.
LEMMA NextNoOvertaking ==
    TypeOK /\ PositionsDistinct /\ NoOvertaking /\ [Next]_vars => NoOvertaking'
    <1> SUFFICES ASSUME TypeOK, PositionsDistinct, NoOvertaking, [Next]_vars
                 PROVE  NoOvertaking'
        OBVIOUS
    <1> SUFFICES ASSUME NEW room \in Rooms, NEW e \in Queued(room)', NEW f \in Queued(room)',
                        waitlist'[e].slot = waitlist'[f].slot,
                        waitlist'[e].status = "waiting",
                        waitlist'[f].status = "offered"
                 PROVE  waitlist'[f].position < waitlist'[e].position
        BY DEF NoOvertaking
    <1>1. CASE Serves /\ OffersInOrder
        <2>1. /\ e \in Queued(room) /\ f \in Queued(room)
              /\ waitlist[e].status = "waiting"
              /\ waitlist[e].slot = waitlist[f].slot
              /\ waitlist'[e].position = waitlist[e].position
              /\ waitlist'[f].position = waitlist[f].position
            BY <1>1 DEF Serves, Queued
        <2>2. CASE waitlist[f].status = "offered"
            BY <2>1, <2>2 DEF NoOvertaking
        <2>3. CASE waitlist[f].status = "waiting"
            <3>1. waitlist[f].position <= waitlist[e].position
                BY <1>1, <2>1, <2>3 DEF OffersInOrder, Queued
            <3>2. waitlist[f].position # waitlist[e].position
                BY <2>1 DEF PositionsDistinct
            <3>3. waitlist[f].position \in Nat /\ waitlist[e].position \in Nat
                BY <2>1 DEF TypeOK, WaitlistRow, Queued
            <3> QED BY <2>1, <3>1, <3>2, <3>3
        <2> QED BY <2>1, <2>2, <2>3 DEF Queued, QueuedStatuses
    <1>2. ASSUME NEW g \in WaitlistId, NEW row \in WaitlistRow, Joins(g, row)
          PROVE  waitlist'[f].position < waitlist'[e].position
        <2>1. /\ DOMAIN waitlist' = DOMAIN waitlist \cup {g}
              /\ g \notin DOMAIN waitlist
              /\ waitlist'[g] = row
              /\ row.status = "waiting"
              /\ \A h \in DOMAIN waitlist : waitlist'[h] = waitlist[h]
            BY <1>2 DEF Joins, Enqueues, Put
        <2>2. f \in Queued(room)
            BY <2>1 DEF Queued
        <2>3. CASE e = g
            BY <1>2, <2>1, <2>2, <2>3 DEF Joins, Enqueues, Queued
        <2>4. CASE e # g
            <3>1. e \in Queued(room)
                BY <2>1, <2>4 DEF Queued
            <3> QED BY <2>1, <2>2, <3>1 DEF NoOvertaking, Queued
        <2> QED BY <2>3, <2>4
    <1> QED BY <1>1, <1>2, WaitlistStep

\* Nobody overtakes: of two entries for the same interval of a room, the one behind
\* never holds an offer while the one ahead waits.
THEOREM QueueIsFair == Spec => []NoOvertaking
    <1>1. Init => PositionsDistinct /\ NoOvertaking
        BY DEF Init, PositionsDistinct, NoOvertaking, Queued, Empty
    <1> QED BY <1>1, InitTypeOK, NextTypeOK, NextPositionsDistinct, NextNoOvertaking, PTL
            DEF Spec

\* No transaction frees a slot that somebody waits for without offering it.
LEMMA NextNoStrandedWaiter ==
    TypeOK /\ NoStrandedWaiter /\ [Next]_vars => NoStrandedWaiter'
    <1> SUFFICES ASSUME TypeOK, NoStrandedWaiter, [Next]_vars, DisjointSlots,
                        NEW room \in Rooms, NEW e \in Queued(room)',
                        waitlist'[e].status = "waiting"
                 PROVE  \/ Busy(room, waitlist[e].slot)'
                        \/ \E f \in Queued(room)' : /\ waitlist'[f].status = "offered"
                                                    /\ waitlist'[f].slot = waitlist'[e].slot
        BY DEF NoStrandedWaiter, DisjointSlots
    <1> DEFINE slot == waitlist'[e].slot
               Booked == \E b \in DOMAIN bookings' : /\ bookings'[b].room = room
                                                     /\ bookings'[b].status \in ActiveStatuses
                                                     /\ Overlaps(bookings'[b].slot, slot)
               OnOffer == \E f \in DOMAIN waitlist' : /\ waitlist'[f].room = room
                                                      /\ waitlist'[f].status = "offered"
                                                      /\ waitlist'[f].slot = slot
    <1> SUFFICES Booked \/ OnOffer
        BY DEF Busy, Active, Queued, QueuedStatuses
    <1>0. TypeOK'
        BY NextTypeOK
    <1>1. slot \in Slots /\ Overlaps(slot, slot)
        BY <1>0, SlotsAssumption DEF TypeOK, WaitlistRow, Queued, Overlaps
    <1>2. ASSUME NEW s \in Slots, Overlaps(s, slot) \/ Overlaps(slot, s)
          PROVE  s = slot
        BY <1>1, <1>2 DEF DisjointSlots
    <1>3. ASSUME PassesOn(room, slot)
          PROVE  OnOffer
        <2>1. PICK f \in DOMAIN waitlist' : /\ waitlist'[f].status = "offered"
                                            /\ waitlist'[f].room = room
                                            /\ Overlaps(waitlist'[f].slot, slot)
            BY <1>1, <1>3 DEF PassesOn, Queued
        <2>2. waitlist'[f].slot \in Slots
            BY <1>0 DEF TypeOK, WaitlistRow
        <2> QED BY <1>2, <2>1, <2>2
    <1>4. CASE UNCHANGED bookings /\ \E g \in WaitlistId, row \in WaitlistRow : Joins(g, row)
        <2>1. PICK g \in WaitlistId, row \in WaitlistRow : Joins(g, row)
            BY <1>4
        <2>2. /\ DOMAIN waitlist' = DOMAIN waitlist \cup {g}
              /\ waitlist'[g] = row
              /\ \A h \in DOMAIN waitlist : waitlist'[h] = waitlist[h]
              /\ g \notin DOMAIN waitlist
              /\ Busy(row.room, row.slot)
            BY <2>1 DEF Joins, Enqueues, Put
        <2>3. CASE e = g
            BY <1>4, <2>2, <2>3 DEF Busy, Active, Queued
        <2>4. CASE e # g
            <3>1. e \in Queued(room) /\ waitlist[e].status = "waiting" /\ waitlist[e].slot = slot
                BY <2>2, <2>4 DEF Queued
            <3>2. \/ Busy(room, slot)
                  \/ \E f \in Queued(room) : /\ waitlist[f].status = "offered"
                                             /\ waitlist[f].slot = slot
                BY <3>1 DEF NoStrandedWaiter
            <3> QED BY <1>4, <2>2, <3>2 DEF Busy, Active, Queued
        <2> QED BY <2>3, <2>4
    <1>5. CASE Serves /\ FreedPassOn /\ LapsedPassOn
        <2>1. e \in Queued(room) /\ waitlist[e].status = "waiting" /\ waitlist[e].slot = slot
            BY <1>5 DEF Serves, Queued
        <2>2. CASE Busy(room, slot)
            <3>1. PICK b \in DOMAIN bookings : /\ bookings[b].room = room
                                               /\ Active(b)
                                               /\ Overlaps(bookings[b].slot, slot)
                BY <2>2 DEF Busy
            <3>2. bookings[b].slot = slot
                BY <1>2, <3>1 DEF TypeOK, BookingRow
            <3>3. /\ b \in DOMAIN bookings'
                  /\ bookings'[b].room = room
                  /\ bookings'[b].slot = slot
                <4>1. CASE Releases
                    BY <3>1, <3>2, <4>1 DEF Releases
                <4>2. ASSUME NEW id \in BookingId, NEW row \in BookingRow, Books(id, row)
                      PROVE  <3>3!:
                    BY <3>1, <3>2, <4>2 DEF Books, Put
                <4> QED BY <4>1, <4>2, BookingStep
            <3>4. CASE bookings'[b].status \in ActiveStatuses
                BY <1>1, <3>3, <3>4
            <3>5. CASE bookings'[b].status \notin ActiveStatuses
                BY <1>3, <1>5, <3>1, <3>2, <3>5 DEF FreedPassOn
            <3> QED BY <3>4, <3>5
        <2>3. ASSUME NEW f \in Queued(room), waitlist[f].status = "offered",
                     waitlist[f].slot = slot
              PROVE  Booked \/ OnOffer
            <3>1. CASE f \in DOMAIN waitlist' /\ waitlist'[f].status = "offered"
                BY <1>5, <2>3, <3>1 DEF Serves, Queued
            <3>2. CASE ~(f \in DOMAIN waitlist' /\ waitlist'[f].status = "offered")
                BY <1>3, <1>5, <2>3, <3>2 DEF LapsedPassOn, Queued
            <3> QED BY <3>1, <3>2
        <2> QED BY <2>1, <2>2, <2>3 DEF NoStrandedWaiter
    <1> QED BY <1>4, <1>5, WaitlistStep

\* When intervals never overlap in part, nobody waits for a slot that is neither booked
\* nor on offer: every transaction that frees one offers it in the same commit.
THEOREM NobodyIsStranded == Spec => []NoStrandedWaiter
    <1>1. Init => NoStrandedWaiter
        BY DEF Init, NoStrandedWaiter, Queued, Empty
    <1> QED BY <1>1, InitTypeOK, NextTypeOK, NextNoStrandedWaiter, PTL DEF Spec

-------------------------------------------------------------------------------
(* Rows only move forward. *)

\* What a step may do to a booking: what the client asked for stays, and so does the
\* reason unless a pending booking is rejected.
BookingForward(b) ==
    /\ bookings'[b].room = bookings[b].room
    /\ bookings'[b].user = bookings[b].user
    /\ bookings'[b].slot = bookings[b].slot
    /\ bookings'[b].createdAt = bookings[b].createdAt
    /\ \/ /\ bookings'[b].status = bookings[b].status
          /\ bookings'[b].reason = bookings[b].reason
       \/ /\ bookings[b].status \in ActiveStatuses
          /\ bookings'[b].status = "cancelled"
          /\ bookings'[b].reason = bookings[b].reason
       \/ /\ bookings[b].status = "pending_approval"
          /\ bookings'[b].status = "approved"
          /\ bookings'[b].reason = bookings[b].reason
       \/ /\ bookings[b].status = "pending_approval"
          /\ bookings'[b].status = "rejected"

\* What a step may do to an entry: an offer has the time of its own transaction.
EntryForward(e) ==
    /\ waitlist'[e].slot = waitlist[e].slot
    /\ waitlist'[e].position = waitlist[e].position
    /\ \/ /\ waitlist'[e].status = waitlist[e].status
          /\ waitlist'[e].offeredAt = waitlist[e].offeredAt
       \/ waitlist[e].status = "waiting" /\ waitlist'[e].status = "offered"
       \/ /\ waitlist[e].status = "offered"
          /\ waitlist'[e].status \in {"converted", "expired"}
          /\ waitlist'[e].offeredAt = waitlist[e].offeredAt

\* Bookings are never deleted.
LEMMA BookingsForward ==
    ASSUME TypeOK, [Next]_vars, NEW b \in DOMAIN bookings
    PROVE  b \in DOMAIN bookings' /\ BookingForward(b)
    <1> USE DEF BookingForward
    <1>1. bookings[b] \in BookingRow
        BY DEF TypeOK
    <1>2. ASSUME NEW id \in BookingId \ DOMAIN bookings, NEW row, bookings' = Put(bookings, id, row)
          PROVE  b \in DOMAIN bookings' /\ BookingForward(b)
        BY <1>2 DEF Put
    <1>3. ASSUME NEW id \in BookingId, CancelAndOfferWaitlist(id) \/ Approve(id)
          PROVE  b \in DOMAIN bookings' /\ BookingForward(b)
        <2>1. \/ bookings' = SetStatus(bookings, id, "cancelled") /\ Active(id)
              \/ bookings' = SetStatus(bookings, id, "approved") /\ Pending(id)
            BY <1>3 DEF CancelAndOfferWaitlist, Approve
        <2>2. DOMAIN bookings' = DOMAIN bookings
            BY <2>1 DEF SetStatus, TypeOK
        <2>3. CASE id = b
            BY <1>1, <2>1, <2>2, <2>3 DEF SetStatus, Active, Pending, BookingRow, TypeOK
        <2>4. CASE id # b
            BY <1>1, <2>1, <2>2, <2>4 DEF SetStatus, TypeOK
        <2> QED BY <2>3, <2>4
    <1>4. ASSUME NEW ids, NEW reason, bookings' = Rejected(ids, reason),
                 b \in ids => bookings[b].status = "pending_approval"
          PROVE  b \in DOMAIN bookings' /\ BookingForward(b)
        BY <1>1, <1>4 DEF Rejected, BookingRow
    <1>5. ASSUME NEW id \in BookingId, NEW reason \in Reasons, RejectAndOfferWaitlist(id, reason)
          PROVE  b \in DOMAIN bookings' /\ BookingForward(b)
        BY <1>4, <1>5 DEF RejectAndOfferWaitlist, Pending
    <1>6. CASE ListPendingApprovals
        BY <1>4, <1>6 DEF ListPendingApprovals, Overdue
    <1>7. CASE UNCHANGED bookings
        BY <1>7
    <1> QED BY <1>2, <1>3, <1>5, <1>6, <1>7
            DEF Next, vars, CreateChecked, ConfirmAndBook, WaitlistCreate, ExpireAndOfferNext,
                DeleteAndOfferNext, Tick

\* An offer goes to an entry that waits.
LEMMA OffersToWaiting ==
    ASSUME NEW table, NEW room, NEW slot, OfferNextSlot(table, room, slot)
    PROVE  \E E : /\ waitlist' = Offer(table, E)
                  /\ \A e \in E : e \in DOMAIN waitlist /\ waitlist[e].status = "waiting"
    <1>1. PICK head \in HeadOf(Candidates(room, slot)) : waitlist' = Offer(table, head)
        BY DEF OfferNextSlot
    <1>2. \A e \in head : e \in Candidates(room, slot)
        BY HeadOfCandidates
    <1> QED BY <1>1, <1>2 DEF Candidates, Queued

\* So do all the offers of a sweep.
LEMMA SweepToWaiting ==
    ASSUME ListPendingApprovals
    PROVE  \E E : /\ waitlist' = Offer(waitlist, E)
                  /\ \A e \in E : e \in DOMAIN waitlist /\ waitlist[e].status = "waiting"
    <1>1. PICK rank \in SweepOrders(Overdue),
               heads \in [Overdue -> {{}} \cup {{e} : e \in DOMAIN waitlist}] :
                    /\ SweepOffers(Overdue, rank, heads)
                    /\ waitlist' = Offer(waitlist, UNION {heads[b] : b \in Overdue})
        BY DEF ListPendingApprovals
    <1>2. ASSUME NEW b \in Overdue, NEW e \in heads[b]
          PROVE  e \in DOMAIN waitlist /\ waitlist[e].status = "waiting"
        <2> DEFINE cands == Candidates(bookings[b].room, bookings[b].slot)
                   taken == UNION {heads[c] : c \in {d \in Overdue : rank[d] < rank[b]}}
        <2>1. heads[b] \in HeadOf(cands \ taken)
            BY <1>1 DEF SweepOffers
        <2>2. e \in cands
            <3> HIDE DEF cands, taken
            <3> QED BY <1>2, <2>1, HeadOfCandidates
        <2> QED BY <2>2 DEF Candidates, Queued
    <1>3. \A e \in UNION {heads[b] : b \in Overdue} :
            e \in DOMAIN waitlist /\ waitlist[e].status = "waiting"
        BY <1>2
    <1> QED BY <1>1, <1>3

\* Offering takes an entry forward.
LEMMA OfferForward ==
    ASSUME TypeOK, NEW E, NEW table, NEW e \in DOMAIN table,
           waitlist' = Offer(table, E),
           \A f \in E : f \in DOMAIN waitlist /\ waitlist[f].status = "waiting",
           e \in DOMAIN waitlist, table[e] = waitlist[e]
    PROVE  EntryForward(e)
    <1>1. waitlist[e] \in WaitlistRow
        BY DEF TypeOK
    <1> QED BY <1>1 DEF Offer, EntryForward, WaitlistRow

\* An entry moves forward as long as it stays in the table.
LEMMA EntriesForward ==
    ASSUME TypeOK, [Next]_vars, NEW e \in DOMAIN waitlist, e \in DOMAIN waitlist'
    PROVE  EntryForward(e)
    <1>1. waitlist[e] \in WaitlistRow
        BY DEF TypeOK
    <1>2. CASE UNCHANGED waitlist
        BY <1>2 DEF EntryForward
    <1>3. ASSUME NEW room, NEW slot, OfferNextSlot(waitlist, room, slot)
          PROVE  EntryForward(e)
        BY <1>3, OffersToWaiting, OfferForward
    <1>4. CASE ListPendingApprovals
        BY <1>4, SweepToWaiting, OfferForward
    <1>5. ASSUME NEW f \in WaitlistId, NEW room \in Rooms, NEW user \in Users,
                 NEW slot \in Slots, WaitlistCreate(f, room, user, slot)
          PROVE  EntryForward(e)
        BY <1>5 DEF WaitlistCreate, Put, EntryForward
    <1>6. ASSUME NEW f \in WaitlistId, NEW id \in BookingId, ConfirmAndBook(f, id)
          PROVE  EntryForward(e)
        <2>1. f \in DOMAIN waitlist /\ waitlist[f].status = "offered"
              /\ waitlist' = [waitlist EXCEPT ![f].status = "converted"]
            BY <1>6 DEF ConfirmAndBook, Offered, SetStatus
        <2> QED BY <1>1, <2>1 DEF EntryForward, TypeOK, WaitlistRow
    <1>7. ASSUME NEW f \in WaitlistId, ExpireAndOfferNext(f)
          PROVE  EntryForward(e)
        <2> DEFINE table == SetStatus(waitlist, f, "expired")
        <2>1. Offered(f)
            BY <1>7 DEF ExpireAndOfferNext
        <2>2. PICK E : /\ waitlist' = Offer(table, E)
                       /\ \A g \in E : g \in DOMAIN waitlist /\ waitlist[g].status = "waiting"
            BY <1>7, OffersToWaiting DEF ExpireAndOfferNext
        <2>3. e \in DOMAIN table
            BY DEF SetStatus, TypeOK
        <2>4. CASE e # f
            <3>1. table[e] = waitlist[e]
                BY <2>4 DEF SetStatus, TypeOK
            <3> QED BY <2>2, <2>3, <3>1, OfferForward
        <2>5. CASE e = f
            <3>1. e \notin E
                BY <2>1, <2>2, <2>5 DEF Offered
            <3>2. waitlist'[e] = table[e]
                BY <2>2, <2>3, <3>1 DEF Offer
            <3>3. table[e] = [waitlist[e] EXCEPT !.status = "expired"]
                BY <2>5 DEF SetStatus, TypeOK
            <3> QED BY <1>1, <2>1, <2>5, <3>2, <3>3 DEF EntryForward, Offered, WaitlistRow
        <2> QED BY <2>4, <2>5
    <1>8. ASSUME NEW f \in WaitlistId, DeleteAndOfferNext(f)
          PROVE  EntryForward(e)
        <2> DEFINE table == Remove(waitlist, f)
        <2>1. CASE waitlist' = table
            BY <2>1 DEF Remove, EntryForward
        <2>2. CASE OfferNextSlot(table, waitlist[f].room, waitlist[f].slot)
            <3>1. PICK E : /\ waitlist' = Offer(table, E)
                           /\ \A g \in E : g \in DOMAIN waitlist /\ waitlist[g].status = "waiting"
                BY <2>2, OffersToWaiting
            <3>2. e \in DOMAIN table /\ table[e] = waitlist[e]
                BY <3>1 DEF Offer, Remove
            <3> QED BY <3>1, <3>2, OfferForward
        <2> QED BY <1>8, <2>1, <2>2 DEF DeleteAndOfferNext
    <1> QED BY <1>2, <1>3, <1>4, <1>5, <1>6, <1>7, <1>8
            DEF Next, vars, CreateChecked, Approve, CancelAndOfferWaitlist,
                RejectAndOfferWaitlist, Tick

\* What LifecycleForward says of a step.
MovesForward ==
    /\ \A b \in DOMAIN bookings :
        LET old == bookings[b]
            new == bookings'[b]
        IN  /\ <<old.status, new.status>> \in
                 {<<s, s>> : s \in BookingStatus}
                 \cup (ActiveStatuses \X {"cancelled"})
                 \cup ({"pending_approval"} \X {"approved", "rejected"})
            /\ <<new.room, new.user, new.slot>> = <<old.room, old.user, old.slot>>
    /\ \A e \in DOMAIN waitlist \cap DOMAIN waitlist' :
        LET old == waitlist[e]
            new == waitlist'[e]
        IN  /\ <<old.status, new.status>> \in
                 {<<s, s>> : s \in WaitlistStatus}
                 \cup {<<"waiting", "offered">>}
                 \cup ({"offered"} \X {"converted", "expired"})
            /\ <<new.slot, new.position>> = <<old.slot, old.position>>

\* It is what the rows say one by one.
LEMMA RowsMoveForward ==
    ASSUME TypeOK, \A b \in DOMAIN bookings : BookingForward(b),
           \A e \in DOMAIN waitlist \cap DOMAIN waitlist' : EntryForward(e)
    PROVE  MovesForward
    <1>1. \A b \in DOMAIN bookings : bookings[b].status \in BookingStatus
        BY DEF TypeOK, BookingRow
    <1>2. \A e \in DOMAIN waitlist : waitlist[e].status \in WaitlistStatus
        BY DEF TypeOK, WaitlistRow
    <1> QED BY <1>1, <1>2 DEF BookingForward, EntryForward, MovesForward

\* Whatever sequence of calls a client finds, no booking that gave up its slot holds it
\* again, and nothing is approved, offered or answered twice.
THEOREM NothingComesBack == Spec => LifecycleForward
    <1>1. TypeOK /\ [Next]_vars => [MovesForward]_vars
        BY BookingsForward, EntriesForward, RowsMoveForward
    <1> QED BY <1>1, InitTypeOK, NextTypeOK, PTL DEF Spec, LifecycleForward, MovesForward

-------------------------------------------------------------------------------
(* The refinement of the ledger. *)

\* Releasing slots and booking free ones are steps of the ledger.
LEMMA LedgerChange ==
    ASSUME TypeOK, BookingsChange
    PROVE  Ledger!Next
    <1> DEFINE Held == [b \in {i \in DOMAIN bookings : Active(i)} |->
                            [room |-> bookings[b].room, slot |-> bookings[b].slot]]
               Gone == {i \in DOMAIN bookings : ~Active(i)}
    <1>1. CASE Releases
        <2> DEFINE ids == {b \in DOMAIN bookings :
                            Active(b) /\ bookings'[b].status \notin ActiveStatuses}
        <2>1. Gone' = Gone \cup ids
            BY <1>1 DEF Releases, Active
        <2>2. {i \in DOMAIN bookings : Active(i)}' = {i \in DOMAIN bookings : Active(i)} \ ids
            BY <1>1 DEF Releases, Active
        <2>3. Held' = [b \in DOMAIN Held \ ids |-> Held[b]]
            BY <1>1, <2>2 DEF Releases
        <2>4. ids \in SUBSET DOMAIN Held
            OBVIOUS
        <2>5. \E given \in SUBSET DOMAIN Held :
                /\ Held' = [b \in DOMAIN Held \ given |-> Held[b]]
                /\ Gone' = Gone \cup given
            <3> HIDE DEF Held, Gone, ids
            <3> QED BY <2>1, <2>3, <2>4
        <2> QED BY <2>5, Zenon DEF Ledger!Next, Ledger!Release
    <1>2. ASSUME NEW id \in BookingId, NEW row \in BookingRow, Books(id, row)
          PROVE  Ledger!Next
        <2>1. /\ DOMAIN bookings' = DOMAIN bookings \cup {id}
              /\ id \notin DOMAIN bookings
              /\ bookings'[id] = row
              /\ \A b \in DOMAIN bookings : bookings'[b] = bookings[b]
              /\ row.status \in ActiveStatuses
            BY <1>2 DEF Books, Put
        <2>2. Gone' = Gone
            BY <2>1 DEF Active
        <2>3. {i \in DOMAIN bookings : Active(i)}' = {i \in DOMAIN bookings : Active(i)} \cup {id}
            BY <2>1 DEF Active
        <2>4. Held' = [b \in DOMAIN Held \cup {id} |->
                        IF b = id THEN [room |-> row.room, slot |-> row.slot] ELSE Held[b]]
            BY <2>1, <2>3
        <2>5. \A b \in DOMAIN Held :
                Held[b].room = row.room => ~Ledger!Overlaps(Held[b].slot, row.slot)
            BY <1>2 DEF Books, Busy, Overlaps, Ledger!Overlaps
        <2>6. Ledger!Reserve(id, row.room, row.slot)
            BY <2>1, <2>2, <2>4, <2>5 DEF Ledger!Reserve, Ledger!Free
        <2>7. row.room \in Rooms /\ row.slot \in Slots
            BY DEF BookingRow
        <2> QED BY <2>6, <2>7 DEF Ledger!Next
    <1> QED BY <1>1, <1>2 DEF BookingsChange

\* Every transaction is a step of the ledger, or changes nothing there.
LEMMA LedgerStep == TypeOK /\ [Next]_vars => Ledger!Next
    BY BookingStep, LedgerChange DEF BookingsChange

\* The reservation store implements the ledger: whatever the store does about approvals,
\* cancellations and the waitlist, at the level of slots it only reserves what is free,
\* releases what is held, and never revives what was released.
THEOREM ImplementsLedger == Spec => LedgerSpec
    <1>1. Init => Ledger!Init
        BY DEF Init, Ledger!Init, Empty
    <1> QED BY <1>1, InitTypeOK, NextTypeOK, LedgerStep, PTL DEF Spec, LedgerSpec, Ledger!Spec

-------------------------------------------------------------------------------
(* Tables are finite, whatever the sets of ids. *)

\* Tables have finitely many rows.
FiniteTables == IsFiniteSet(DOMAIN bookings) /\ IsFiniteSet(DOMAIN waitlist)

\* Empty tables do.
LEMMA InitFiniteTables == Init => FiniteTables
    BY FS_EmptySet DEF Init, Empty, FiniteTables

\* A transaction adds one row at most.
LEMMA NextFiniteTables ==
    ASSUME TypeOK, FiniteTables, [Next]_vars
    PROVE  FiniteTables'
    <1>1. IsFiniteSet(DOMAIN bookings')
        <2>1. CASE Releases
            BY <2>1 DEF Releases, FiniteTables
        <2>2. ASSUME NEW id \in BookingId, NEW row \in BookingRow, Books(id, row)
              PROVE  IsFiniteSet(DOMAIN bookings')
            <3>1. DOMAIN bookings' = DOMAIN bookings \cup {id}
                BY <2>2 DEF Books, Put
            <3> QED BY <3>1, FS_AddElement DEF FiniteTables
        <2> QED BY <2>1, <2>2, BookingStep
    <1>2. IsFiniteSet(DOMAIN waitlist')
        <2>1. CASE Serves
            <3>1. DOMAIN waitlist' \subseteq DOMAIN waitlist
                BY <2>1 DEF Serves
            <3> QED BY <3>1, FS_Subset DEF FiniteTables
        <2>2. ASSUME NEW e \in WaitlistId, NEW row \in WaitlistRow, Joins(e, row)
              PROVE  IsFiniteSet(DOMAIN waitlist')
            <3>1. DOMAIN waitlist' = DOMAIN waitlist \cup {e}
                BY <2>2 DEF Joins, Enqueues, Put
            <3> QED BY <3>1, FS_AddElement DEF FiniteTables
        <2> QED BY <2>1, <2>2, WaitlistStep
    <1> QED BY <1>1, <1>2 DEF FiniteTables

-------------------------------------------------------------------------------
(* Offers and freed slots. *)

\* A set that maps to a finite one without two elements meeting is no larger.
LEMMA CountByMap ==
    ASSUME NEW S, NEW T, IsFiniteSet(T), NEW f \in [S -> T],
           \A x, y \in S : f[x] = f[y] => x = y
    PROVE  Cardinality(S) \in Nat /\ Cardinality(S) <= Cardinality(T)
    <1>1. f \in Injection(S, T)
        BY DEF Injection, IsInjective
    <1> QED BY <1>1, FS_Injection, FS_CardinalityType

\* Each new offer has a booking of its own that gave up a slot which would serve it,
PaidByBookings ==
    \E f \in [NewlyOffered -> Freed] : \A e \in NewlyOffered :
        /\ bookings[f[e]].room = waitlist[e].room
        /\ Overlaps(bookings[f[e]].slot, waitlist[e].slot)
        /\ \A d \in NewlyOffered : f[d] = f[e] => d = e

\* or an offer of its own that lapsed.
PaidByOffers ==
    \E f \in [NewlyOffered -> Lapsed] : \A e \in NewlyOffered :
        /\ waitlist[f[e]].room = waitlist[e].room
        /\ Overlaps(waitlist[f[e]].slot, waitlist[e].slot)
        /\ \A d \in NewlyOffered : f[d] = f[e] => d = e

\* No offers are paid for by no bookings.
LEMMA NoOffers ==
    ASSUME NewlyOffered = {}
    PROVE  PaidByBookings
    <1> DEFINE f == [e \in NewlyOffered |-> e]
    <1>1. f \in [NewlyOffered -> Freed]
        OBVIOUS
    <1> QED BY <1>1 DEF PaidByBookings

\* A freed slot is offered to one entry at most, which it serves.
LEMMA OneOffer ==
    ASSUME NEW table, NEW room, NEW slot, OfferNextSlot(table, room, slot),
           \A e \in DOMAIN table :
                table[e].status = "offered" /\ e \in DOMAIN waitlist =>
                    waitlist[e].status = "offered"
    PROVE  \A e \in NewlyOffered :
                /\ waitlist[e].room = room
                /\ Overlaps(slot, waitlist[e].slot)
                /\ \A d \in NewlyOffered : d = e
    <1>1. PICK head \in HeadOf(Candidates(room, slot)) : waitlist' = Offer(table, head)
        BY DEF OfferNextSlot
    <1>2. NewlyOffered \subseteq head
        BY <1>1 DEF NewlyOffered, Offer
    <1>3. head = {} \/ \E e \in Candidates(room, slot) : head = {e}
        BY HeadOfCandidates
    <1> QED BY <1>2, <1>3 DEF Candidates, Queued, Overlaps

\* The slot of one booking pays for one offer.
LEMMA PaidByOneBooking ==
    ASSUME NEW id \in Freed, OfferNextSlot(waitlist, bookings[id].room, bookings[id].slot)
    PROVE  PaidByBookings
    <1> DEFINE f == [e \in NewlyOffered |-> id]
    <1>1. f \in [NewlyOffered -> Freed]
        OBVIOUS
    <1>2. \A e \in NewlyOffered : /\ waitlist[e].room = bookings[id].room
                                  /\ Overlaps(bookings[id].slot, waitlist[e].slot)
                                  /\ \A d \in NewlyOffered : d = e
        BY OneOffer
    <1>3. \A e \in NewlyOffered : f[e] = id
        OBVIOUS
    <1> HIDE DEF f
    <1> QED BY <1>1, <1>2, <1>3 DEF PaidByBookings

\* So does the slot of one offer.
LEMMA PaidByOneOffer ==
    ASSUME NEW g \in Lapsed, NEW table,
           OfferNextSlot(table, waitlist[g].room, waitlist[g].slot),
           \A e \in DOMAIN table :
                table[e].status = "offered" /\ e \in DOMAIN waitlist =>
                    waitlist[e].status = "offered"
    PROVE  PaidByOffers
    <1> DEFINE f == [e \in NewlyOffered |-> g]
    <1>1. f \in [NewlyOffered -> Lapsed]
        OBVIOUS
    <1>2. \A e \in NewlyOffered : /\ waitlist[e].room = waitlist[g].room
                                  /\ Overlaps(waitlist[g].slot, waitlist[e].slot)
                                  /\ \A d \in NewlyOffered : d = e
        BY OneOffer
    <1>3. \A e \in NewlyOffered : f[e] = g
        OBVIOUS
    <1> HIDE DEF f
    <1> QED BY <1>1, <1>2, <1>3 DEF PaidByOffers

\* Of the bookings that a sweep rejects each pays for the offer of its slot.
LEMMA PaidBySweep ==
    ASSUME TypeOK, ListPendingApprovals
    PROVE  PaidByBookings
    <1>1. PICK rank \in SweepOrders(Overdue),
               heads \in [Overdue -> {{}} \cup {{e} : e \in DOMAIN waitlist}] :
                    /\ SweepOffers(Overdue, rank, heads)
                    /\ waitlist' = Offer(waitlist, UNION {heads[b] : b \in Overdue})
        BY DEF ListPendingApprovals
    <1>2. Overdue \subseteq Freed
        <2> SUFFICES ASSUME NEW b \in Overdue
                     PROVE  b \in Freed
            OBVIOUS
        <2>1. b \in DOMAIN bookings /\ bookings[b].status = "pending_approval"
            BY DEF Overdue
        <2>2. bookings'[b] = [bookings[b] EXCEPT !.status = "rejected", !.reason = "timeout"]
            BY <2>1 DEF ListPendingApprovals, Rejected
        <2>3. bookings'[b].status = "rejected"
            BY <2>1, <2>2 DEF TypeOK, BookingRow
        <2> QED BY <2>1, <2>3 DEF Freed, Active, ActiveStatuses
    <1>3. ASSUME NEW b \in Overdue, NEW e \in heads[b]
          PROVE  /\ heads[b] = {e}
                 /\ waitlist[e].room = bookings[b].room
                 /\ Overlaps(bookings[b].slot, waitlist[e].slot)
        <2> DEFINE cands == Candidates(bookings[b].room, bookings[b].slot)
                   taken == UNION {heads[c] : c \in {d \in Overdue : rank[d] < rank[b]}}
        <2>1. heads[b] \in HeadOf(cands \ taken)
            BY <1>1 DEF SweepOffers
        <2>2. heads[b] = {e} /\ e \in cands
            <3> HIDE DEF cands, taken
            <3> QED BY <1>3, <2>1, HeadOfCandidates
        <2> QED BY <2>2 DEF Candidates, Queued, Overlaps
    <1>4. NewlyOffered \subseteq UNION {heads[b] : b \in Overdue}
        BY <1>1 DEF NewlyOffered, Offer
    <1> DEFINE f == [e \in NewlyOffered |-> CHOOSE b \in Overdue : e \in heads[b]]
    <1>5. \A e \in NewlyOffered : f[e] \in Overdue /\ e \in heads[f[e]]
        BY <1>4
    <1>6. f \in [NewlyOffered -> Freed]
        BY <1>2, <1>5
    <1> HIDE DEF f
    <1>7. ASSUME NEW e \in NewlyOffered
          PROVE  /\ bookings[f[e]].room = waitlist[e].room
                 /\ Overlaps(bookings[f[e]].slot, waitlist[e].slot)
                 /\ \A d \in NewlyOffered : f[d] = f[e] => d = e
        <2>1. heads[f[e]] = {e}
            BY <1>3, <1>5
        <2> QED BY <1>3, <1>5, <2>1
    <1> QED BY <1>6, <1>7 DEF PaidByBookings

\* Whatever a transaction does, its offers are paid for.
LEMMA OffersArePaid ==
    ASSUME TypeOK, [Next]_vars
    PROVE  PaidByBookings \/ PaidByOffers
    <1>1. CASE UNCHANGED waitlist
        BY <1>1, NoOffers DEF NewlyOffered
    <1>2. ASSUME NEW id \in BookingId, CancelAndOfferWaitlist(id)
          PROVE  PaidByBookings
        <2>1. id \in DOMAIN bookings /\ bookings' = [bookings EXCEPT ![id].status = "cancelled"]
            BY <1>2 DEF CancelAndOfferWaitlist, SetStatus
        <2>2. bookings'[id].status = "cancelled"
            BY <2>1 DEF TypeOK, BookingRow
        <2>3. id \in Freed
            BY <1>2, <2>1, <2>2 DEF CancelAndOfferWaitlist, Freed, ActiveStatuses
        <2> QED BY <1>2, <2>3, PaidByOneBooking DEF CancelAndOfferWaitlist
    <1>3. ASSUME NEW id \in BookingId, NEW reason \in Reasons,
                 RejectAndOfferWaitlist(id, reason)
          PROVE  PaidByBookings
        <2>1. id \in DOMAIN bookings /\ bookings[id].status = "pending_approval"
            BY <1>3 DEF RejectAndOfferWaitlist, Pending
        <2>2. bookings'[id] = [bookings[id] EXCEPT !.status = "rejected", !.reason = reason]
            BY <1>3, <2>1 DEF RejectAndOfferWaitlist, Rejected
        <2>3. bookings'[id].status = "rejected"
            BY <2>1, <2>2 DEF TypeOK, BookingRow
        <2>4. id \in Freed
            BY <2>1, <2>3 DEF Freed, Active, ActiveStatuses
        <2> QED BY <1>3, <2>4, PaidByOneBooking DEF RejectAndOfferWaitlist
    <1>4. CASE ListPendingApprovals
        BY <1>4, PaidBySweep
    <1>5. ASSUME NEW e \in WaitlistId, NEW room \in Rooms, NEW user \in Users,
                 NEW slot \in Slots, WaitlistCreate(e, room, user, slot)
          PROVE  PaidByBookings
        <2>1. e \notin DOMAIN waitlist /\ \E row : waitlist' = Put(waitlist, e, row)
            BY <1>5 DEF WaitlistCreate
        <2> QED BY <2>1, NoOffers DEF Put, NewlyOffered
    <1>6. ASSUME NEW e \in WaitlistId, NEW id \in BookingId, ConfirmAndBook(e, id)
          PROVE  PaidByBookings
        <2>1. e \in DOMAIN waitlist /\ waitlist' = [waitlist EXCEPT ![e].status = "converted"]
            BY <1>6 DEF ConfirmAndBook, SetStatus, Offered
        <2>2. \A g \in DOMAIN waitlist' :
                waitlist'[g].status = "offered" => waitlist[g].status = "offered"
            BY <2>1 DEF TypeOK, WaitlistRow
        <2> QED BY <2>2, NoOffers DEF NewlyOffered
    <1>7. ASSUME NEW e \in WaitlistId, ExpireAndOfferNext(e)
          PROVE  PaidByOffers
        <2> DEFINE table == SetStatus(waitlist, e, "expired")
        <2>1. Offered(e) /\ OfferNextSlot(table, waitlist[e].room, waitlist[e].slot)
            BY <1>7 DEF ExpireAndOfferNext
        <2>2. /\ DOMAIN table = DOMAIN waitlist
              /\ \A g \in DOMAIN table :
                    table[g].status = IF g = e THEN "expired" ELSE waitlist[g].status
            BY <2>1 DEF SetStatus, Offered, TypeOK, WaitlistRow
        <2> HIDE DEF table
        <2>3. PICK E : /\ waitlist' = Offer(table, E)
                       /\ \A g \in E : g \in DOMAIN waitlist /\ waitlist[g].status = "waiting"
            BY <2>1, OffersToWaiting
        <2>4. e \in Lapsed
            <3>1. e \notin E
                BY <2>1, <2>3 DEF Offered
            <3>2. waitlist'[e] = table[e]
                BY <2>1, <2>2, <2>3, <3>1 DEF Offer, Offered
            <3> QED BY <2>1, <2>2, <3>2 DEF Lapsed, Offered
        <2> QED BY <2>1, <2>2, <2>4, PaidByOneOffer
    <1>8. ASSUME NEW e \in WaitlistId, DeleteAndOfferNext(e), waitlist[e].status = "offered"
          PROVE  PaidByOffers
        <2> DEFINE table == Remove(waitlist, e)
        <2>1. OfferNextSlot(table, waitlist[e].room, waitlist[e].slot)
            BY <1>8 DEF DeleteAndOfferNext
        <2>2. /\ DOMAIN table = DOMAIN waitlist \ {e}
              /\ \A g \in DOMAIN table : table[g] = waitlist[g]
            BY DEF Remove
        <2> HIDE DEF table
        <2>3. e \notin DOMAIN waitlist'
            BY <2>1, <2>2 DEF OfferNextSlot, Offer
        <2>4. e \in Lapsed
            BY <1>8, <2>3 DEF DeleteAndOfferNext, Lapsed, Offered
        <2> QED BY <2>1, <2>2, <2>4, PaidByOneOffer
    <1>9. ASSUME NEW e \in WaitlistId, DeleteAndOfferNext(e), waitlist[e].status # "offered"
          PROVE  PaidByBookings
        <2>1. waitlist' = Remove(waitlist, e)
            BY <1>9 DEF DeleteAndOfferNext
        <2> QED BY <2>1, NoOffers DEF Remove, NewlyOffered
    <1> QED BY <1>1, <1>2, <1>3, <1>4, <1>5, <1>6, <1>7, <1>8, <1>9
            DEF Next, vars, CreateChecked, Approve, Tick

\* No transaction, however many bookings it rejects at once, makes more offers than it
\* frees slots, and each offer goes to an entry that a freed slot would serve.
THEOREM NoOfferForNothing == Spec => OffersArePaidFor
    <1> DEFINE Paid ==
        /\ Cardinality(NewlyOffered) <= Cardinality(Freed) + Cardinality(Lapsed)
        /\ \A e \in NewlyOffered :
            \/ \E b \in Freed : /\ bookings[b].room = waitlist[e].room
                                /\ Overlaps(bookings[b].slot, waitlist[e].slot)
            \/ \E f \in Lapsed : /\ waitlist[f].room = waitlist[e].room
                                 /\ Overlaps(waitlist[f].slot, waitlist[e].slot)
    <1>1. ASSUME TypeOK, FiniteTables, [Next]_vars
          PROVE  [Paid]_vars
        <2>1. IsFiniteSet(Freed) /\ Cardinality(Freed) \in Nat
            BY <1>1, FS_Subset, FS_CardinalityType DEF Freed, FiniteTables
        <2>2. IsFiniteSet(Lapsed) /\ Cardinality(Lapsed) \in Nat
            BY <1>1, FS_Subset, FS_CardinalityType DEF Lapsed, FiniteTables
        <2>3. CASE PaidByBookings
            <3>1. PICK f \in [NewlyOffered -> Freed] : \A e \in NewlyOffered :
                    /\ bookings[f[e]].room = waitlist[e].room
                    /\ Overlaps(bookings[f[e]].slot, waitlist[e].slot)
                    /\ \A d \in NewlyOffered : f[d] = f[e] => d = e
                BY <2>3 DEF PaidByBookings
            <3>2. /\ Cardinality(NewlyOffered) \in Nat
                  /\ Cardinality(NewlyOffered) <= Cardinality(Freed)
                BY <2>1, <3>1, CountByMap
            <3>3. Cardinality(NewlyOffered) <= Cardinality(Freed) + Cardinality(Lapsed)
                BY <2>1, <2>2, <3>2
            <3> QED BY <3>1, <3>3
        <2>4. CASE PaidByOffers
            <3>1. PICK f \in [NewlyOffered -> Lapsed] : \A e \in NewlyOffered :
                    /\ waitlist[f[e]].room = waitlist[e].room
                    /\ Overlaps(waitlist[f[e]].slot, waitlist[e].slot)
                    /\ \A d \in NewlyOffered : f[d] = f[e] => d = e
                BY <2>4 DEF PaidByOffers
            <3>2. /\ Cardinality(NewlyOffered) \in Nat
                  /\ Cardinality(NewlyOffered) <= Cardinality(Lapsed)
                BY <2>2, <3>1, CountByMap
            <3>3. Cardinality(NewlyOffered) <= Cardinality(Freed) + Cardinality(Lapsed)
                BY <2>1, <2>2, <3>2
            <3> QED BY <3>1, <3>3
        <2> QED BY <1>1, <2>3, <2>4, OffersArePaid
    <1> QED BY <1>1, InitTypeOK, NextTypeOK, InitFiniteTables, NextFiniteTables, PTL
            DEF Spec, OffersArePaidFor
================================================================================
