------------------------- MODULE BookingService_proofs -------------------------
(***************************************************************************)
(* Theorems about the services: whatever requests interleave, they only    *)
(* take steps of the store, so that its theorems hold of them too; what a  *)
(* request found too old is too old when it acts on it; and every change   *)
(* of a booking is reported once.                                          *)
(***************************************************************************)
EXTENDS BookingService, Reservations_proofs

-------------------------------------------------------------------------------
(* The requests in flight are well formed. *)

\* The arguments of a call are of the kinds its operation needs.
LEMMA CallArguments ==
    ASSUME RequestOK, NEW q \in Requests
    PROVE  /\ request[q].op = "create" =>
                request[q] \in [op : {"create"}, room : Rooms, user : Users, slot : Slots,
                                status : {"confirmed", "pending_approval"}]
           /\ request[q].op \in {"cancel", "approve"} => request[q].booking \in BookingId
           /\ request[q].op = "reject" =>
                request[q].booking \in BookingId /\ request[q].reason \in Reasons
           /\ request[q].op = "join" =>
                request[q] \in [op : {"join"}, room : Rooms, user : Users, slot : Slots]
           /\ request[q].op \in {"confirm", "expire", "leave"} =>
                request[q].entry \in WaitlistId
           /\ request[q].op = "publish" => request[q].events \subseteq Event
    <1> DEFINE r == request[q]
    <1>1. r \in {Idle} \cup Call \cup Publishing \cup Refused
        BY DEF RequestOK
    <1> HIDE DEF r
    <1>2. CASE r \in {Idle} \cup Publishing \cup Refused
        BY <1>2 DEF Idle, Publishing, Refused, r
    <1>3. CASE r \in Call
        BY <1>3 DEF Call, r
    <1> QED BY <1>1, <1>2, <1>3

\* A request whose next step is well formed leaves the requests well formed.
LEMMA BecomesOK ==
    ASSUME RequestOK, NEW q \in Requests, NEW what, Becomes(q, what),
           what \in {Idle} \cup Call \cup Publishing \cup Refused
    PROVE  RequestOK'
    BY DEF RequestOK, Becomes

\* So does one that goes on to publish events,
LEMMA ThenPublishOK ==
    ASSUME RequestOK, NEW q \in Requests, NEW events \in SUBSET Event, ThenPublish(q, events)
    PROVE  RequestOK'
    <1>1. Remaining(events) \in {Idle} \cup Publishing
        BY DEF Remaining, Publishing
    <1> QED BY <1>1, BecomesOK DEF ThenPublish

\* and one that gives up.
LEMMA GiveUpOK ==
    ASSUME RequestOK, NEW q \in Requests, NEW what \in {Idle} \cup Refused, GiveUp(q, what)
    PROVE  RequestOK'
    BY BecomesOK DEF GiveUp

\* What a request tells of a booking is an event.
LEMMA ToldIsEvent ==
    ASSUME NEW type \in EventType, NEW b \in BookingId
    PROVE  Told(type, b) \in Event
    BY DEF Told, Event

\* The checks of a request lead to a call of a transaction.
LEMMA StartAccepts ==
    ASSUME NEW q \in Requests, Start(q)
    PROVE  \E call \in Call : Accept(q, call)
    <1>1. PICK user \in Users :
            \/ \E room \in Rooms, slot \in Slots : \/ CreateStart(q, user, room, slot)
                                                   \/ JoinStart(q, user, room, slot)
            \/ \E b \in BookingId : \/ CancelStart(q, user, b)
                                    \/ ForceCancelStart(q, user, b)
                                    \/ ApproveStart(q, user, b)
                                    \/ RejectStart(q, user, b)
            \/ \E e \in WaitlistId : ConfirmStart(q, user, e) \/ LeaveStart(q, user, e)
        BY DEF Start
    <1> DEFINE Accepts == \E call \in Call : Accept(q, call)
    <1>2. ASSUME NEW room \in Rooms, NEW slot \in Slots,
                 CreateStart(q, user, room, slot) \/ JoinStart(q, user, room, slot)
          PROVE  Accepts
        BY <1>2 DEF CreateStart, JoinStart, Call
    <1>3. ASSUME NEW b \in BookingId, CancelStart(q, user, b) \/ ForceCancelStart(q, user, b)
          PROVE  Accepts
        BY <1>3 DEF CancelStart, ForceCancelStart, Call
    <1>4. ASSUME NEW b \in BookingId, ApproveStart(q, user, b) \/ RejectStart(q, user, b)
          PROVE  Accepts
        BY <1>4 DEF ApproveStart, RejectStart, Call, Reasons
    <1>5. ASSUME NEW e \in WaitlistId, ConfirmStart(q, user, e) \/ LeaveStart(q, user, e)
          PROVE  Accepts
        BY <1>5 DEF ConfirmStart, LeaveStart, Call
    <1> QED BY <1>1, <1>2, <1>3, <1>4, <1>5

\* The checks before a transaction leave the tables alone.
LEMMA StartStep ==
    ASSUME RequestOK, NEW q \in Requests, Start(q)
    PROVE  RequestOK' /\ UNCHANGED vars
    BY StartAccepts, BecomesOK DEF Accept, vars

\* The transaction of a request is one of the store, or leaves the tables alone.
LEMMA CommitStep ==
    ASSUME RequestOK, TypeOK, NEW q \in Requests, Commit(q)
    PROVE  RequestOK' /\ [Next]_vars
    <1> USE CallArguments
    <1> DEFINE Good == RequestOK' /\ [Next]_vars
    <1>1. ASSUME NEW what \in {Idle} \cup Refused, GiveUp(q, what)
          PROVE  Good
        BY <1>1, GiveUpOK DEF GiveUp, vars
    <1>2. ASSUME NEW type \in EventType, NEW b \in BookingId, ThenPublish(q, {Told(type, b)})
          PROVE  RequestOK'
        <2>1. {Told(type, b)} \in SUBSET Event
            BY ToldIsEvent
        <2> QED BY <1>2, <2>1, ThenPublishOK
    <1>3. ASSUME ThenPublish(q, {})
          PROVE  RequestOK'
        BY <1>3, ThenPublishOK
    <1>4. CASE Create(q)
        <2> DEFINE c == request[q]
        <2>1. c \in [op : {"create"}, room : Rooms, user : Users, slot : Slots,
                     status : {"confirmed", "pending_approval"}]
            BY <1>4 DEF Create
        <2>2. ASSUME NEW id \in BookingId,
                     CreateChecked(id, c.room, c.user, c.slot, c.status),
                     ThenPublish(q, {Told(IF c.status = "confirmed"
                                          THEN "created" ELSE c.status, id)})
              PROVE  Good
            <3>1. RequestOK'
                BY <1>2, <2>1, <2>2 DEF EventType
            <3>2. Next
                BY <2>1, <2>2 DEF Next
            <3> QED BY <3>1, <3>2
        <2> QED BY <1>1, <1>4, <2>2 DEF Create
    <1>5. CASE Cancel(q)
        <2> DEFINE b == request[q].booking
        <2>1. b \in BookingId
            BY <1>5 DEF Cancel
        <2>2. CASE CancelAndOfferWaitlist(b) /\ ThenPublish(q, {Told("cancelled", b)})
            BY <1>2, <2>1, <2>2 DEF Next, EventType
        <2>3. [op |-> "already_cancelled", booking |-> b] \in Refused
            BY <2>1 DEF Refused
        <2> QED BY <1>1, <1>5, <2>2, <2>3 DEF Cancel
    <1>6. CASE ApproveCommit(q)
        <2> DEFINE b == request[q].booking
        <2>1. b \in BookingId
            BY <1>6 DEF ApproveCommit
        <2>2. CASE Approve(b) /\ ThenPublish(q, {Told("approved", b)})
            BY <1>2, <2>1, <2>2 DEF Next, EventType
        <2> QED BY <1>1, <1>6, <2>2 DEF ApproveCommit
    <1>7. CASE Reject(q)
        <2> DEFINE b == request[q].booking
        <2>1. b \in BookingId /\ request[q].reason \in Reasons
            BY <1>7 DEF Reject
        <2>2. CASE /\ RejectAndOfferWaitlist(b, request[q].reason)
                   /\ ThenPublish(q, {Told("rejected", b)})
            BY <1>2, <2>1, <2>2 DEF Next, EventType
        <2> QED BY <1>1, <1>7, <2>2 DEF Reject
    <1>8. ASSUME NEW user \in Users, List(q, user)
          PROVE  Good
        <2>1. {Told("rejected", b) : b \in Overdue} \in SUBSET Event
            BY ToldIsEvent DEF Overdue, TypeOK, EventType
        <2> QED BY <1>8, <2>1, ThenPublishOK DEF List, Next
    <1>9. CASE Join(q)
        <2> DEFINE c == request[q]
        <2>1. c \in [op : {"join"}, room : Rooms, user : Users, slot : Slots]
            BY <1>9 DEF Join
        <2>2. ASSUME NEW e \in WaitlistId, WaitlistCreate(e, c.room, c.user, c.slot),
                     ThenPublish(q, {})
              PROVE  Good
            BY <1>3, <2>1, <2>2 DEF Next
        <2> QED BY <1>1, <1>9, <2>2 DEF Join
    <1>10. CASE Confirm(q)
        <2> DEFINE e == request[q].entry
        <2>1. e \in WaitlistId
            BY <1>10 DEF Confirm
        <2>2. ASSUME NEW id \in BookingId, ConfirmAndBook(e, id),
                     ThenPublish(q, {Told("created", id)})
              PROVE  Good
            BY <1>2, <2>1, <2>2 DEF Next, EventType
        <2> QED BY <1>1, <1>10, <2>2 DEF Confirm
    <1>11. CASE Expire(q) \/ Leave(q)
        <2> DEFINE e == request[q].entry
        <2>1. e \in WaitlistId
            BY <1>11 DEF Expire, Leave
        <2>2. CASE (ExpireAndOfferNext(e) \/ DeleteAndOfferNext(e)) /\ ThenPublish(q, {})
            BY <1>3, <2>1, <2>2 DEF Next
        <2> QED BY <1>1, <1>11, <2>2 DEF Expire, Leave
    <1> QED BY <1>4, <1>5, <1>6, <1>7, <1>8, <1>9, <1>10, <1>11 DEF Commit

\* Publishing an event, and dying before, leave the tables alone.
LEMMA PublishStep ==
    ASSUME RequestOK, NEW q \in Requests, Publish(q) \/ Abandon(q)
    PROVE  RequestOK' /\ UNCHANGED vars
    <1>1. CASE Publish(q)
        <2>1. PICK ev \in request[q].events : Becomes(q, Remaining(request[q].events \ {ev}))
            BY <1>1 DEF Publish
        <2>2. Remaining(request[q].events \ {ev}) \in {Idle} \cup Publishing
            BY <1>1, CallArguments DEF Publish, Remaining, Publishing
        <2> QED BY <1>1, <2>1, <2>2, BecomesOK DEF Publish, vars
    <1>2. CASE Abandon(q)
        BY <1>2, BecomesOK DEF Abandon, vars
    <1> QED BY <1>1, <1>2

\* Hence every step of the services is a step of the store.
LEMMA ServiceStep ==
    TypeOK /\ RequestOK /\ [ServiceNext]_serviceVars => RequestOK' /\ [Next]_vars
    <1> SUFFICES ASSUME TypeOK, RequestOK, [ServiceNext]_serviceVars
                 PROVE  RequestOK' /\ [Next]_vars
        OBVIOUS
    <1>1. ASSUME NEW q \in Requests, Start(q) \/ Commit(q) \/ Publish(q) \/ Abandon(q)
          PROVE  RequestOK' /\ [Next]_vars
        BY <1>1, StartStep, CommitStep, PublishStep
    <1>2. CASE ServiceTick
        BY <1>2 DEF ServiceTick, Next, RequestOK
    <1>3. CASE UNCHANGED serviceVars
        BY <1>3 DEF serviceVars, vars, RequestOK
    <1> QED BY <1>1, <1>2, <1>3 DEF ServiceNext

\* At first every request is idle and the tables are empty.
LEMMA InitRequestOK == ServiceInit => TypeOK /\ RequestOK
    BY InitTypeOK DEF ServiceInit, RequestOK, Idle

-------------------------------------------------------------------------------
(* Theorems. *)

\* The services implement the store: however the steps of the requests interleave, and
\* however stale what they read, the tables change by the store's transactions only.
THEOREM ServiceImplementsStore == ServiceSpec => StoreSpec
    <1>1. ServiceInit => Init
        BY DEF ServiceInit
    <1> QED BY <1>1, InitRequestOK, ServiceStep, NextTypeOK, PTL
            DEF ServiceSpec, StoreSpec, Spec

\* Hence no interleaving of requests books a room twice.
THEOREM ServiceNeverDoubleBooks == ServiceSpec => []NoDoubleBooking
    BY ServiceImplementsStore, NeverDoubleBooked, PTL DEF StoreSpec

-------------------------------------------------------------------------------
(* What was too old stays too old. *)

\* The approval of the booking has timed out.
TimedOut(b) == b \in DOMAIN bookings /\ bookings[b].createdAt + ApprovalTimeout < now

\* An entry that is to be expired was offered its slot too long ago.  It may be gone, or
\* have been answered, by the time this happens; it is not offered the slot again.
TooLate(e) ==
    /\ e \in spent
    /\ e \in DOMAIN waitlist => /\ waitlist[e].status # "waiting"
                                /\ waitlist[e].offeredAt + OfferTTL < now

\* The booking gave up its slot.
GaveUp(b) == b \in DOMAIN bookings /\ bookings[b].status \in {"cancelled", "rejected"}

\* A call that rejects for age, or expires an offer, is right about the age; one that
\* cancels has seen its booking, and one that was refused was refused rightly.
TrueCall(call) ==
    /\ call.op = "reject" /\ call.reason = "timeout" => TimedOut(call.booking)
    /\ call.op = "expire" => TooLate(call.entry)
    /\ call.op = "cancel" => call.booking \in DOMAIN bookings
    /\ call.op = "already_cancelled" => GaveUp(call.booking)

\* The clock does not go back.
LEMMA ClockForward ==
    ASSUME TypeOK, [Next]_vars
    PROVE  now' \in {now, now + 1}
    BY DEF Next, vars, CreateChecked, CancelAndOfferWaitlist, Approve, RejectAndOfferWaitlist,
           ListPendingApprovals, WaitlistCreate, ConfirmAndBook, ExpireAndOfferNext,
           DeleteAndOfferNext, Tick

\* A timed out booking stays one.
LEMMA TimedOutStays ==
    ASSUME TypeOK, [Next]_vars, NEW b, TimedOut(b)
    PROVE  TimedOut(b)'
    <1>1. b \in DOMAIN bookings' /\ bookings'[b].createdAt = bookings[b].createdAt
        BY BookingsForward DEF TimedOut, BookingForward
    <1>2. bookings[b].createdAt \in Nat /\ now \in Nat
        BY DEF TimedOut, TypeOK, BookingRow
    <1> QED BY <1>1, <1>2, ClockForward, BoundsAssumption DEF TimedOut

\* A booking that gave up its slot does not get it back, and none is deleted.
LEMMA GaveUpStays ==
    ASSUME TypeOK, [Next]_vars
    PROVE  /\ DOMAIN bookings \subseteq DOMAIN bookings'
           /\ \A b : GaveUp(b) => GaveUp(b)'
    BY BookingsForward DEF GaveUp, BookingForward, ActiveStatuses

\* The ids of entries are remembered, and a new entry has one that was never used.
LEMMA SpentStep ==
    ASSUME TypeOK, RequestOK, DOMAIN waitlist \subseteq spent, [ServiceNext]_serviceVars
    PROVE  /\ spent \subseteq spent'
           /\ DOMAIN waitlist' \subseteq spent'
           /\ DOMAIN waitlist' \cap spent \subseteq DOMAIN waitlist
    <1> DEFINE Good == /\ spent \subseteq spent'
                       /\ DOMAIN waitlist' \subseteq spent'
                       /\ DOMAIN waitlist' \cap spent \subseteq DOMAIN waitlist
    <1>1. ASSUME DOMAIN waitlist' \subseteq DOMAIN waitlist, UNCHANGED spent
          PROVE  Good
        BY <1>1
    <1>2. CASE UNCHANGED <<waitlist, spent>>
        BY <1>2
    <1>3. ASSUME NEW q \in Requests, Join(q)
          PROVE  Good
        <2>1. CASE UNCHANGED <<waitlist, spent>>
            BY <2>1
        <2>2. ASSUME NEW e \in WaitlistId \ spent, NEW row, waitlist' = Put(waitlist, e, row),
                     spent' = spent \cup {e}
              PROVE  Good
            BY <2>2 DEF Put
        <2> QED BY <1>3, <2>1, <2>2 DEF Join, WaitlistCreate, GiveUp
    <1>4. ASSUME NEW table, NEW room, NEW slot, OfferNextSlot(table, room, slot),
                 DOMAIN table \subseteq DOMAIN waitlist
          PROVE  DOMAIN waitlist' \subseteq DOMAIN waitlist
        BY <1>4 DEF OfferNextSlot, Offer
    <1>5. ASSUME NEW q \in Requests, Cancel(q) \/ Reject(q)
          PROVE  Good
        BY <1>4, <1>5, <1>1, <1>2
           DEF Cancel, Reject, CancelAndOfferWaitlist, RejectAndOfferWaitlist, GiveUp
    <1>6. ASSUME NEW q \in Requests, NEW user \in Users, List(q, user)
          PROVE  Good
        BY <1>1, <1>6 DEF List, ListPendingApprovals, Offer
    <1>7. ASSUME NEW q \in Requests, Confirm(q)
          PROVE  Good
        BY <1>1, <1>2, <1>7 DEF Confirm, ConfirmAndBook, SetStatus, GiveUp
    <1>8. ASSUME NEW q \in Requests, Expire(q)
          PROVE  Good
        <2> DEFINE e == request[q].entry
        <2>1. CASE ExpireAndOfferNext(e) /\ UNCHANGED spent
            <3>1. DOMAIN SetStatus(waitlist, e, "expired") = DOMAIN waitlist
                BY DEF SetStatus
            <3> QED BY <1>1, <1>4, <2>1, <3>1 DEF ExpireAndOfferNext
        <2> QED BY <1>2, <1>8, <2>1 DEF Expire, GiveUp
    <1>9. ASSUME NEW q \in Requests, Leave(q)
          PROVE  Good
        <2> DEFINE e == request[q].entry
        <2>1. CASE DeleteAndOfferNext(e) /\ UNCHANGED spent
            <3>1. DOMAIN Remove(waitlist, e) \subseteq DOMAIN waitlist
                BY DEF Remove
            <3> QED BY <1>1, <1>4, <2>1, <3>1 DEF DeleteAndOfferNext
        <2> QED BY <1>2, <1>9, <2>1 DEF Leave, GiveUp
    <1>10. ASSUME NEW q \in Requests, Create(q) \/ ApproveCommit(q)
           PROVE  Good
        BY <1>2, <1>10 DEF Create, CreateChecked, ApproveCommit, Approve, GiveUp
    <1>11. ASSUME NEW q \in Requests, Start(q)
           PROVE  Good
        BY <1>2, <1>11 DEF Start, CreateStart, JoinStart, CancelStart, ForceCancelStart,
                           ApproveStart, RejectStart, ConfirmStart, LeaveStart, Accept
    <1>12. ASSUME NEW q \in Requests, Publish(q) \/ Abandon(q)
           PROVE  Good
        BY <1>2, <1>12 DEF Publish, Abandon
    <1>13. CASE ServiceTick \/ UNCHANGED serviceVars
        BY <1>2, <1>13 DEF ServiceTick, Tick, serviceVars
    <1> QED BY <1>3, <1>5, <1>6, <1>7, <1>8, <1>9, <1>10, <1>11, <1>12, <1>13
            DEF ServiceNext, Commit

\* An entry whose offer is too old is not offered again.
LEMMA TooLateStays ==
    ASSUME TypeOK, RequestOK, DOMAIN waitlist \subseteq spent, [ServiceNext]_serviceVars,
           NEW e, TooLate(e)
    PROVE  TooLate(e)'
    <1>1. e \in spent' /\ (e \in DOMAIN waitlist' => e \in DOMAIN waitlist)
        BY SpentStep DEF TooLate
    <1>2. CASE e \notin DOMAIN waitlist'
        BY <1>1, <1>2 DEF TooLate
    <1>3. CASE e \in DOMAIN waitlist'
        <2>1. [Next]_vars
            BY ServiceStep
        <2>2. EntryForward(e) /\ now' \in {now, now + 1}
            BY <1>1, <1>3, <2>1, EntriesForward, ClockForward
        <2>3. /\ waitlist[e].status # "waiting"
              /\ waitlist[e].offeredAt + OfferTTL < now
              /\ waitlist[e].offeredAt \in Int /\ now \in Nat /\ OfferTTL \in Nat
            BY <1>1, <1>3, ServiceAssumption DEF TooLate, TypeOK, WaitlistRow, Never
        <2>4. waitlist'[e].status # "waiting" /\ waitlist'[e].offeredAt = waitlist[e].offeredAt
            BY <2>2, <2>3 DEF EntryForward
        <2> QED BY <1>1, <2>2, <2>3, <2>4 DEF TooLate
    <1> QED BY <1>2, <1>3

\* What is true of a call when it is made is true when it is carried out.
LEMMA TrueCallStays ==
    ASSUME TypeOK, RequestOK, DOMAIN waitlist \subseteq spent, [ServiceNext]_serviceVars,
           NEW call, TrueCall(call)
    PROVE  TrueCall(call)'
    <1>1. [Next]_vars
        BY ServiceStep
    <1> QED BY <1>1, TimedOutStays, TooLateStays, GaveUpStays DEF TrueCall

\* The checks of a request start a rejection for age, or an expiry, only when it is due,
\* and a cancellation only of a booking they have read.
LEMMA StartsAreTrue ==
    ASSUME TypeOK, RequestOK, DOMAIN waitlist \subseteq spent, NEW q \in Requests, Start(q)
    PROVE  \E call : Becomes(q, call) /\ TrueCall(call)
    <1> DEFINE Good == \E call : Becomes(q, call) /\ TrueCall(call)
    <1>1. ASSUME NEW call, Accept(q, call), TrueCall(call)
          PROVE  Good
        BY <1>1 DEF Accept
    <1>2. PICK user \in Users :
            \/ \E room \in Rooms, slot \in Slots : \/ CreateStart(q, user, room, slot)
                                                   \/ JoinStart(q, user, room, slot)
            \/ \E b \in BookingId : \/ CancelStart(q, user, b)
                                    \/ ForceCancelStart(q, user, b)
                                    \/ ApproveStart(q, user, b)
                                    \/ RejectStart(q, user, b)
            \/ \E e \in WaitlistId : ConfirmStart(q, user, e) \/ LeaveStart(q, user, e)
        BY DEF Start
    <1>3. ASSUME NEW room \in Rooms, NEW slot \in Slots,
                 CreateStart(q, user, room, slot) \/ JoinStart(q, user, room, slot)
          PROVE  Good
        BY <1>1, <1>3 DEF CreateStart, JoinStart, TrueCall
    <1>4. ASSUME NEW b \in BookingId,
                 CancelStart(q, user, b) \/ ForceCancelStart(q, user, b) \/ RejectStart(q, user, b)
          PROVE  Good
        BY <1>1, <1>4 DEF CancelStart, ForceCancelStart, RejectStart, TrueCall
    <1>5. ASSUME NEW b \in BookingId, ApproveStart(q, user, b)
          PROVE  Good
        <2>1. CASE TooOld(b)
            <3>1. TimedOut(b)
                BY <1>5, <2>1, BoundsAssumption
                   DEF ApproveStart, Pending, TooOld, TimedOut, TypeOK, BookingRow
            <3> QED BY <1>1, <1>5, <2>1, <3>1 DEF ApproveStart, TrueCall
        <2>2. CASE ~TooOld(b)
            BY <1>1, <1>5, <2>2 DEF ApproveStart, TrueCall
        <2> QED BY <2>1, <2>2
    <1>6. ASSUME NEW e \in WaitlistId, ConfirmStart(q, user, e)
          PROVE  Good
        <2>1. CASE Stale(e) /\ Accept(q, [op |-> "expire", entry |-> e])
            <3>1. TooLate(e)
                BY <1>6, <2>1, ServiceAssumption
                   DEF ConfirmStart, Offered, Stale, TooLate, TypeOK, WaitlistRow, Never
            <3> QED BY <1>1, <2>1, <3>1 DEF TrueCall
        <2>2. CASE Accept(q, [op |-> "confirm", entry |-> e])
            BY <1>1, <2>2 DEF TrueCall
        <2> QED BY <1>6, <2>1, <2>2 DEF ConfirmStart
    <1>7. ASSUME NEW e \in WaitlistId, LeaveStart(q, user, e)
          PROVE  Good
        BY <1>1, <1>7 DEF LeaveStart, TrueCall
    <1> QED BY <1>2, <1>3, <1>4, <1>5, <1>6, <1>7

\* The calls in flight are right, and the ids of entries are remembered.
CallsAreTrue == /\ DOMAIN waitlist \subseteq spent
                /\ \A q \in Requests : TrueCall(request[q])

\* A request that is past its checks makes no new call, and is refused rightly.
LEMMA NothingStarts ==
    ASSUME TypeOK, RequestOK, CallsAreTrue, NEW q \in Requests, Commit(q) \/ Publish(q) \/ Abandon(q)
    PROVE  \E call : Becomes(q, call) /\ TrueCall(call)
    <1> DEFINE Good == \E call : Becomes(q, call) /\ TrueCall(call)
    <1>1. ASSUME NEW call, Becomes(q, call), call.op \in {"idle", "publish"}
          PROVE  Good
        BY <1>1 DEF TrueCall
    <1>2. ASSUME NEW events, ThenPublish(q, events)
          PROVE  Good
        BY <1>1, <1>2 DEF ThenPublish, Remaining, Idle
    <1>3. ASSUME GiveUp(q, Idle)
          PROVE  Good
        BY <1>1, <1>3 DEF GiveUp, Idle
    <1>4. CASE Create(q) \/ ApproveCommit(q) \/ Reject(q) \/ (\E user \in Users : List(q, user))
        BY <1>2, <1>3, <1>4 DEF Create, ApproveCommit, Reject, List
    <1>5. CASE Cancel(q)
        <2> DEFINE b == request[q].booking
                   refusal == [op |-> "already_cancelled", booking |-> b]
        <2>1. CASE GiveUp(q, refusal) /\ ~Active(b)
            <3>1. b \in DOMAIN bookings
                BY <1>5 DEF Cancel, CallsAreTrue, TrueCall
            <3>2. bookings[b].status \in BookingStatus
                BY <3>1 DEF TypeOK, BookingRow
            <3>3. GaveUp(b)
                BY <2>1, <3>1, <3>2 DEF Active, BookingStatus, GaveUp
            <3>4. TrueCall(refusal)
                BY <3>3 DEF TrueCall
            <3> QED BY <2>1, <3>4 DEF GiveUp
        <2>2. CASE ThenPublish(q, {Told("cancelled", b)})
            BY <1>2, <2>2
        <2> QED BY <1>5, <2>1, <2>2 DEF Cancel
    <1>6. CASE Join(q) \/ Confirm(q) \/ Expire(q) \/ Leave(q)
        BY <1>2, <1>3, <1>6 DEF Join, Confirm, Expire, Leave
    <1>7. CASE Publish(q)
        BY <1>1, <1>7 DEF Publish, Remaining, Idle
    <1>8. CASE Abandon(q)
        BY <1>1, <1>8 DEF Abandon, Idle
    <1> QED BY <1>4, <1>5, <1>6, <1>7, <1>8 DEF Commit

\* No step of another request, and no tick, makes a call in flight wrong.
LEMMA NextCallsAreTrue ==
    ASSUME TypeOK, RequestOK, CallsAreTrue, [ServiceNext]_serviceVars
    PROVE  CallsAreTrue'
    <1>1. DOMAIN waitlist' \subseteq spent'
        BY SpentStep DEF CallsAreTrue
    <1>2. ASSUME NEW p \in Requests, NEW call, TrueCall(call), request'[p] = call
          PROVE  TrueCall(request[p])'
        <2>1. TrueCall(call)'
            BY <1>2, TrueCallStays DEF CallsAreTrue
        <2> QED BY <1>2, <2>1 DEF TrueCall, TimedOut, TooLate, GaveUp
    <1>3. \/ UNCHANGED request
          \/ \E q \in Requests : \E call : Becomes(q, call) /\ TrueCall(call)
        BY StartsAreTrue, NothingStarts
           DEF ServiceNext, ServiceTick, serviceVars, CallsAreTrue
    <1>4. ASSUME NEW p \in Requests
          PROVE  TrueCall(request[p])'
        <2>1. CASE request'[p] = request[p]
            BY <1>2, <2>1 DEF CallsAreTrue
        <2>2. CASE request'[p] # request[p]
            BY <1>2, <1>3, <2>2 DEF Becomes, RequestOK
        <2> QED BY <2>1, <2>2
    <1> QED BY <1>1, <1>4 DEF CallsAreTrue

\* At first no request is in flight.
LEMMA InitCallsAreTrue == ServiceInit => CallsAreTrue
    BY DEF ServiceInit, Init, Empty, CallsAreTrue, TrueCall, Idle

\* Only a rejection for age, single or in a sweep, gives a booking that reason.
LEMMA TimeoutStep ==
    ASSUME TypeOK, RequestOK, CallsAreTrue, [ServiceNext]_serviceVars, NEW b \in DOMAIN bookings,
           bookings[b].reason # "timeout", bookings'[b].reason = "timeout"
    PROVE  bookings[b].createdAt + ApprovalTimeout < now
    <1>1. bookings[b] \in BookingRow
        BY DEF TypeOK
    <1>2. ASSUME NEW id, id \notin DOMAIN bookings, NEW row, bookings' = Put(bookings, id, row)
          PROVE  FALSE
        BY <1>2 DEF Put
    <1>3. ASSUME NEW id, NEW status, bookings' = SetStatus(bookings, id, status)
          PROVE  FALSE
        BY <1>1, <1>3 DEF SetStatus, TypeOK, BookingRow
    <1>4. ASSUME UNCHANGED bookings
          PROVE  FALSE
        BY <1>4
    <1>5. ASSUME NEW q \in Requests, Reject(q), bookings' # bookings
          PROVE  bookings[b].createdAt + ApprovalTimeout < now
        <2> DEFINE r == request[q]
        <2>1. bookings' = Rejected({r.booking}, r.reason) /\ r.op = "reject"
            BY <1>5 DEF Reject, RejectAndOfferWaitlist, GiveUp
        <2>2. b = r.booking /\ r.reason = "timeout"
            BY <1>1, <2>1 DEF Rejected, BookingRow
        <2> QED BY <2>1, <2>2 DEF CallsAreTrue, TrueCall, TimedOut
    <1>6. ASSUME NEW q \in Requests, NEW user \in Users, List(q, user)
          PROVE  bookings[b].createdAt + ApprovalTimeout < now
        <2>1. bookings' = Rejected(Overdue, "timeout")
            BY <1>6 DEF List, ListPendingApprovals
        <2>2. b \in Overdue
            BY <2>1 DEF Rejected
        <2> QED BY <2>2 DEF Overdue
    <1>7. ASSUME NEW q \in Requests, Create(q) \/ Confirm(q)
          PROVE  FALSE
        BY <1>2, <1>4, <1>7 DEF Create, CreateChecked, Confirm, ConfirmAndBook, GiveUp
    <1>8. ASSUME NEW q \in Requests, Cancel(q) \/ ApproveCommit(q)
          PROVE  FALSE
        BY <1>3, <1>4, <1>8 DEF Cancel, CancelAndOfferWaitlist, ApproveCommit, Approve, GiveUp
    <1>9. ASSUME NEW q \in Requests, Join(q) \/ Expire(q) \/ Leave(q)
          PROVE  FALSE
        BY <1>4, <1>9 DEF Join, WaitlistCreate, Expire, ExpireAndOfferNext, Leave,
                          DeleteAndOfferNext, GiveUp
    <1>10. ASSUME NEW q \in Requests, Start(q) \/ Publish(q) \/ Abandon(q)
           PROVE  FALSE
        BY <1>4, <1>10, StartStep, PublishStep DEF vars
    <1>11. CASE ServiceTick \/ UNCHANGED serviceVars
        BY <1>4, <1>11 DEF ServiceTick, Tick, serviceVars
    <1> QED BY <1>4, <1>5, <1>6, <1>7, <1>8, <1>9, <1>10, <1>11 DEF ServiceNext, Commit

\* Only the expiry of an offer that is too old makes an entry expire.
LEMMA ExpiryStep ==
    ASSUME TypeOK, RequestOK, CallsAreTrue, [ServiceNext]_serviceVars,
           NEW e \in DOMAIN waitlist, e \in DOMAIN waitlist',
           waitlist[e].status = "offered", waitlist'[e].status = "expired"
    PROVE  waitlist[e].offeredAt + OfferTTL < now
    <1>1. waitlist[e] \in WaitlistRow
        BY DEF TypeOK
    <1>2. ASSUME NEW table, NEW room, NEW slot, OfferNextSlot(table, room, slot),
                 e \in DOMAIN table
          PROVE  table[e].status = "expired"
        <2>1. PICK E : /\ waitlist' = Offer(table, E)
                       /\ \A g \in E : waitlist[g].status = "waiting"
            BY <1>2, OffersToWaiting
        <2>2. e \notin E
            BY <2>1
        <2> QED BY <1>2, <2>1, <2>2 DEF Offer
    <1>3. ASSUME UNCHANGED waitlist
          PROVE  FALSE
        BY <1>3
    <1>4. ASSUME NEW q \in Requests, Expire(q)
          PROVE  waitlist[e].offeredAt + OfferTTL < now
        <2> DEFINE r == request[q]
        <2>1. r.op = "expire" /\ ExpireAndOfferNext(r.entry)
            BY <1>3, <1>4 DEF Expire, GiveUp
        <2>2. CASE e = r.entry
            BY <2>1, <2>2 DEF CallsAreTrue, TrueCall, TooLate
        <2>3. CASE e # r.entry
            <3> DEFINE table == SetStatus(waitlist, r.entry, "expired")
            <3>1. e \in DOMAIN table /\ table[e] = waitlist[e]
                BY <2>3 DEF SetStatus, TypeOK
            <3>2. OfferNextSlot(table, waitlist[r.entry].room, waitlist[r.entry].slot)
                BY <2>1 DEF ExpireAndOfferNext
            <3> QED BY <1>2, <3>1, <3>2
        <2> QED BY <2>2, <2>3
    <1>5. ASSUME NEW q \in Requests, Leave(q)
          PROVE  FALSE
        <2> DEFINE f == request[q].entry
                   table == Remove(waitlist, f)
        <2>1. DeleteAndOfferNext(f)
            BY <1>3, <1>5 DEF Leave, GiveUp
        <2>2. CASE waitlist' = table
            BY <2>2 DEF Remove
        <2>3. CASE OfferNextSlot(table, waitlist[f].room, waitlist[f].slot)
            <3>1. e \in DOMAIN table /\ table[e] = waitlist[e]
                BY <2>3 DEF OfferNextSlot, Offer, Remove
            <3> QED BY <1>2, <2>3, <3>1
        <2> QED BY <2>1, <2>2, <2>3 DEF DeleteAndOfferNext
    <1>6. ASSUME NEW q \in Requests, Cancel(q) \/ Reject(q)
          PROVE  FALSE
        BY <1>2, <1>3, <1>6
           DEF Cancel, CancelAndOfferWaitlist, Reject, RejectAndOfferWaitlist, GiveUp
    <1>7. ASSUME NEW q \in Requests, NEW user \in Users, List(q, user)
          PROVE  FALSE
        <2>1. PICK E : /\ waitlist' = Offer(waitlist, E)
                       /\ \A g \in E : waitlist[g].status = "waiting"
            BY <1>7, SweepToWaiting DEF List
        <2>2. e \notin E
            BY <2>1
        <2> QED BY <2>1, <2>2 DEF Offer
    <1>8. ASSUME NEW q \in Requests, Join(q)
          PROVE  FALSE
        BY <1>3, <1>8 DEF Join, WaitlistCreate, Put, GiveUp
    <1>9. ASSUME NEW q \in Requests, Confirm(q)
          PROVE  FALSE
        BY <1>1, <1>3, <1>9 DEF Confirm, ConfirmAndBook, SetStatus, GiveUp, TypeOK, WaitlistRow
    <1>10. ASSUME NEW q \in Requests, Create(q) \/ ApproveCommit(q)
           PROVE  FALSE
        BY <1>3, <1>10 DEF Create, CreateChecked, ApproveCommit, Approve, GiveUp
    <1>11. ASSUME NEW q \in Requests, Start(q) \/ Publish(q) \/ Abandon(q)
           PROVE  FALSE
        BY <1>3, <1>11, StartStep, PublishStep DEF vars
    <1>12. CASE ServiceTick \/ UNCHANGED serviceVars
        BY <1>3, <1>12 DEF ServiceTick, Tick, serviceVars
    <1> QED BY <1>4, <1>5, <1>6, <1>7, <1>8, <1>9, <1>10, <1>11, <1>12 DEF ServiceNext, Commit

\* However long a request sleeps between its checks and its transaction, a booking is
\* rejected for its age only when its approval timed out.
THEOREM NobodyTimesOutEarly == ServiceSpec => TimeoutIsTrue
    <1>1. TypeOK /\ RequestOK /\ CallsAreTrue /\ [ServiceNext]_serviceVars =>
            [\A b \in DOMAIN bookings :
                bookings[b].reason # "timeout" /\ bookings'[b].reason = "timeout" =>
                    bookings[b].createdAt + ApprovalTimeout < now]_serviceVars
        BY TimeoutStep
    <1>2. TypeOK /\ RequestOK /\ CallsAreTrue /\ [ServiceNext]_serviceVars =>
            TypeOK' /\ RequestOK' /\ CallsAreTrue'
        BY ServiceStep, NextTypeOK, NextCallsAreTrue
    <1> QED BY <1>1, <1>2, InitRequestOK, InitCallsAreTrue, PTL DEF ServiceSpec, TimeoutIsTrue

\* Only ApproveStart makes a call that approves.
LEMMA ApprovalStep ==
    ASSUME TypeOK, RequestOK, [ServiceNext]_serviceVars, NEW q \in Requests,
           request[q] = Idle, request'[q].op = "approve"
    PROVE  request'[q].booking \notin Overdue
    <1> DEFINE Good == request'[q].booking \notin Overdue
    <1>1. request'[q] # request[q] /\ request' # request
        BY DEF Idle
    <1>2. PICK p \in Requests : Start(p) \/ Commit(p) \/ Publish(p) \/ Abandon(p)
        BY <1>1 DEF ServiceNext, ServiceTick, serviceVars
    <1>3. ASSUME NEW what, Becomes(p, what)
          PROVE  p = q /\ what = request'[q]
        BY <1>1, <1>3 DEF Becomes, RequestOK
    <1>4. ASSUME NEW call, Accept(p, call)
          PROVE  p = q /\ call = request'[q]
        BY <1>3, <1>4 DEF Accept
    <1>5. ASSUME NEW events, ThenPublish(p, events)
          PROVE  FALSE
        BY <1>3, <1>5 DEF ThenPublish, Remaining, Idle
    <1>6. ASSUME NEW answer, GiveUp(p, answer), answer.op \in {"idle", "already_cancelled"}
          PROVE  FALSE
        BY <1>3, <1>6 DEF GiveUp
    <1>7. CASE Commit(p)
        BY <1>5, <1>6, <1>7 DEF Commit, Create, Cancel, ApproveCommit, Reject, List, Join,
                                Confirm, Expire, Leave, Idle
    <1>8. CASE Publish(p) \/ Abandon(p)
        <2>1. ASSUME NEW events, Becomes(p, Remaining(events))
              PROVE  FALSE
            BY <1>3, <2>1 DEF Remaining, Idle
        <2>2. ASSUME Becomes(p, Idle)
              PROVE  FALSE
            BY <1>3, <2>2 DEF Idle
        <2> QED BY <1>8, <2>1, <2>2 DEF Publish, Abandon
    <1>9. CASE Start(p)
        <2>1. ASSUME NEW user \in Users, NEW b \in BookingId, ApproveStart(p, user, b)
              PROVE  Good
            <3>1. ~TooOld(b) /\ b = request'[q].booking
                BY <1>4, <2>1 DEF ApproveStart
            <3>2. b \in DOMAIN bookings /\ bookings[b] \in BookingRow
                BY <2>1 DEF ApproveStart, Pending, TypeOK
            <3> QED BY <3>1, <3>2, BoundsAssumption DEF TooOld, Overdue, TypeOK, BookingRow
        <2>2. ASSUME NEW user \in Users, NEW b \in BookingId,
                     CancelStart(p, user, b) \/ ForceCancelStart(p, user, b)
                        \/ RejectStart(p, user, b)
              PROVE  FALSE
            BY <1>4, <2>2 DEF CancelStart, ForceCancelStart, RejectStart
        <2>3. ASSUME NEW user \in Users, NEW room \in Rooms, NEW slot \in Slots,
                     CreateStart(p, user, room, slot) \/ JoinStart(p, user, room, slot)
              PROVE  FALSE
            BY <1>4, <2>3 DEF CreateStart, JoinStart
        <2>4. ASSUME NEW user \in Users, NEW e \in WaitlistId,
                     ConfirmStart(p, user, e) \/ LeaveStart(p, user, e)
              PROVE  FALSE
            BY <1>4, <2>4 DEF ConfirmStart, LeaveStart
        <2> QED BY <1>9, <2>1, <2>2, <2>3, <2>4 DEF Start
    <1> QED BY <1>2, <1>7, <1>8, <1>9

\* The check of the service lets no approval through that the sweep would overrule.
THEOREM NobodyApprovesTooLate == ServiceSpec => ApprovedInTime
    <1>1. TypeOK /\ RequestOK /\ [ServiceNext]_serviceVars =>
            [\A q \in Requests :
                request[q] = Idle /\ request'[q].op = "approve" =>
                    request'[q].booking \notin Overdue]_serviceVars
        BY ApprovalStep
    <1>2. TypeOK /\ RequestOK /\ [ServiceNext]_serviceVars => TypeOK' /\ RequestOK'
        BY ServiceStep, NextTypeOK
    <1> QED BY <1>1, <1>2, InitRequestOK, PTL DEF ServiceSpec, ApprovedInTime

\* However expiries race with confirmations and departures, nobody loses an offer before
\* its time is up.
THEOREM NobodyLosesAnOfferEarly == ServiceSpec => OfferIsKept
    <1>1. TypeOK /\ RequestOK /\ CallsAreTrue /\ [ServiceNext]_serviceVars =>
            [\A e \in DOMAIN waitlist :
                /\ e \in DOMAIN waitlist'
                /\ waitlist[e].status = "offered"
                /\ waitlist'[e].status = "expired"
                => waitlist[e].offeredAt + OfferTTL < now]_serviceVars
        BY ExpiryStep
    <1>2. TypeOK /\ RequestOK /\ CallsAreTrue /\ [ServiceNext]_serviceVars =>
            TypeOK' /\ RequestOK' /\ CallsAreTrue'
        BY ServiceStep, NextTypeOK, NextCallsAreTrue
    <1> QED BY <1>1, <1>2, InitRequestOK, InitCallsAreTrue, PTL DEF ServiceSpec, OfferIsKept

\* Whoever is told that his booking is already cancelled has no slot to cancel.
THEOREM NobodyIsRefusedInError == ServiceSpec => []RefusedTruly
    <1>1. TypeOK /\ RequestOK /\ CallsAreTrue /\ [ServiceNext]_serviceVars =>
            TypeOK' /\ RequestOK' /\ CallsAreTrue'
        BY ServiceStep, NextTypeOK, NextCallsAreTrue
    <1>2. CallsAreTrue => RefusedTruly
        BY DEF CallsAreTrue, TrueCall, GaveUp, RefusedTruly, Active, ActiveStatuses
    <1> QED BY <1>1, <1>2, InitRequestOK, InitCallsAreTrue, PTL DEF ServiceSpec

\* The events on record are events.
EventsOK == published \subseteq Event /\ lost \subseteq Event

\* Only publishing and dying add to them.
LEMMA NextEventsOK ==
    ASSUME TypeOK, RequestOK, EventsOK, [ServiceNext]_serviceVars
    PROVE  EventsOK'
    <1> USE DEF EventsOK
    <1>1. CASE UNCHANGED <<published, lost>>
        BY <1>1
    <1>2. ASSUME NEW q \in Requests, Publish(q)
          PROVE  EventsOK'
        BY <1>2, CallArguments DEF Publish
    <1>3. ASSUME NEW q \in Requests, Abandon(q)
          PROVE  EventsOK'
        BY <1>3, CallArguments DEF Abandon, InFlight
    <1>4. ASSUME NEW q \in Requests, Start(q)
          PROVE  EventsOK'
        BY <1>1, <1>4 DEF Start, CreateStart, JoinStart, CancelStart, ForceCancelStart,
                          ApproveStart, RejectStart, ConfirmStart, LeaveStart, Accept
    <1>5. ASSUME NEW q \in Requests, Commit(q)
          PROVE  EventsOK'
        BY <1>1, <1>5 DEF Commit, Create, Cancel, ApproveCommit, Reject, List, Join, Confirm,
                          Expire, Leave, ThenPublish, GiveUp
    <1>6. CASE ServiceTick \/ UNCHANGED serviceVars
        BY <1>1, <1>6 DEF ServiceTick, serviceVars
    <1> QED BY <1>2, <1>3, <1>4, <1>5, <1>6 DEF ServiceNext

\* The requests in flight and the records are well formed in every reachable state.
THEOREM ServiceTypeCorrect == ServiceSpec => []ServiceTypeOK
    <1> DEFINE Good == TypeOK /\ RequestOK /\ CallsAreTrue /\ EventsOK
    <1>1. ServiceInit => Good
        BY InitRequestOK, InitCallsAreTrue DEF ServiceInit, EventsOK
    <1>2. Good /\ [ServiceNext]_serviceVars => Good'
        BY ServiceStep, NextTypeOK, NextCallsAreTrue, NextEventsOK
    <1>3. Good => ServiceTypeOK
        BY DEF ServiceTypeOK, CallsAreTrue, EventsOK
    <1> QED BY <1>1, <1>2, <1>3, PTL DEF ServiceSpec

-------------------------------------------------------------------------------
(* Every transition of a booking is reported once. *)

\* What an event says is so: its booking exists, and has the status it tells of, or the
\* one that came after it.
TrueEvent(ev) ==
    /\ ev.booking \in DOMAIN bookings
    /\ ev.type \in {"rejected", "cancelled"} => bookings[ev.booking].status = ev.type
    /\ ev.type = "approved" => bookings[ev.booking].status \in {"approved", "cancelled"}

\* The event is news: nobody can have told it truly before.
News(ev) == ~TrueEvent(ev)

\* A transaction that changes bookings reports its changes, all of them and truly.
Reports(events) ==
    /\ \A ev \in events : News(ev) /\ TrueEvent(ev)'
    /\ \A b \in DOMAIN bookings' :
        /\ b \notin DOMAIN bookings =>
                /\ bookings'[b].status \in {"confirmed", "pending_approval"}
                /\ Told("created", b) \in events \/ Told("pending_approval", b) \in events
        /\ b \in DOMAIN bookings /\ bookings'[b].status # bookings[b].status =>
                Told(bookings'[b].status, b) \in events

\* The fields of an event.
LEMMA ToldFields ==
    ASSUME NEW type, NEW b
    PROVE  Told(type, b).type = type /\ Told(type, b).booking = b
    BY DEF Told

\* A true event stays true.
LEMMA TrueEventStays ==
    ASSUME TypeOK, [Next]_vars, NEW ev, TrueEvent(ev)
    PROVE  TrueEvent(ev)'
    BY BookingsForward DEF TrueEvent, BookingForward, ActiveStatuses

\* A new booking is news.
LEMMA NewBookingReports ==
    ASSUME NEW id, id \notin DOMAIN bookings, NEW room, NEW user, NEW slot,
           NEW status \in {"confirmed", "pending_approval"},
           bookings' = Put(bookings, id, NewBooking(room, user, slot, status)),
           NEW type \in {"created", "pending_approval"}
    PROVE  Reports({Told(type, id)})
    <1>1. /\ DOMAIN bookings' = DOMAIN bookings \cup {id}
          /\ bookings'[id].status = status
          /\ \A b \in DOMAIN bookings : bookings'[b] = bookings[b]
        BY DEF Put, NewBooking
    <1> QED BY <1>1, ToldFields DEF Reports, News, TrueEvent

\* So is a change of status that the booking had not gone through.
LEMMA ChangeReports ==
    ASSUME TypeOK, NEW ids \in SUBSET DOMAIN bookings,
           NEW status \in {"approved", "rejected", "cancelled"},
           DOMAIN bookings' = DOMAIN bookings,
           \A b \in ids : bookings'[b].status = status,
           \A b \in DOMAIN bookings \ ids : bookings'[b].status = bookings[b].status,
           \A b \in ids : \/ bookings[b].status = "pending_approval"
                          \/ status = "cancelled" /\ bookings[b].status # "cancelled"
    PROVE  Reports({Told(status, b) : b \in ids})
    <1>1. ASSUME NEW b \in ids
          PROVE  News(Told(status, b)) /\ TrueEvent(Told(status, b))'
        BY ToldFields DEF News, TrueEvent
    <1> QED BY <1>1 DEF Reports

\* No change, no news.
LEMMA NoChangeReports ==
    ASSUME UNCHANGED bookings
    PROVE  Reports({})
    BY DEF Reports

\* A request commits, reports what it changed, and has nothing else to report.
LEMMA CommitReports ==
    ASSUME TypeOK, RequestOK, NEW q \in Requests, Commit(q)
    PROVE  /\ InFlight(q) = {}
           /\ UNCHANGED <<published, lost>>
           /\ \E events, what : /\ Reports(events)
                                /\ Becomes(q, what)
                                /\ events = IF what.op = "publish" THEN what.events ELSE {}
    <1> DEFINE Good == /\ InFlight(q) = {}
                       /\ UNCHANGED <<published, lost>>
                       /\ \E events, what :
                            /\ Reports(events)
                            /\ Becomes(q, what)
                            /\ events = IF what.op = "publish" THEN what.events ELSE {}
    <1>1. ASSUME NEW events, request[q].op # "publish", Reports(events), ThenPublish(q, events)
          PROVE  Good
        BY <1>1 DEF ThenPublish, Remaining, Idle, InFlight
    <1>2. ASSUME NEW what, request[q].op # "publish", GiveUp(q, what), what.op # "publish"
          PROVE  Good
        <2>1. Reports({})
            BY <1>2, NoChangeReports DEF GiveUp
        <2> QED BY <1>2, <2>1 DEF GiveUp, InFlight
    <1>3. ASSUME request[q].op # "publish", GiveUp(q, Idle)
          PROVE  Good
        BY <1>2, <1>3 DEF Idle
    <1>4. CASE Create(q)
        <2> DEFINE c == request[q]
        <2>1. c.status \in {"confirmed", "pending_approval"}
            BY <1>4, CallArguments DEF Create
        <2>2. ASSUME NEW id \in BookingId,
                     CreateChecked(id, c.room, c.user, c.slot, c.status),
                     ThenPublish(q, {Told(IF c.status = "confirmed"
                                          THEN "created" ELSE c.status, id)})
              PROVE  Good
            <3> DEFINE type == IF c.status = "confirmed" THEN "created" ELSE c.status
            <3>1. type \in {"created", "pending_approval"}
                BY <2>1
            <3>2. Reports({Told(type, id)})
                <4> HIDE DEF type
                <4> QED BY <2>1, <2>2, <3>1, NewBookingReports DEF CreateChecked
            <3> QED BY <1>1, <1>4, <2>2, <3>2 DEF Create
        <2> QED BY <1>3, <1>4, <2>2 DEF Create
    <1>5. CASE Confirm(q)
        <2> DEFINE e == request[q].entry
        <2>1. ASSUME NEW id \in BookingId, ConfirmAndBook(e, id),
                     ThenPublish(q, {Told("created", id)})
              PROVE  Good
            <3>1. Reports({Told("created", id)})
                BY <2>1, NewBookingReports DEF ConfirmAndBook
            <3> QED BY <1>1, <1>5, <2>1, <3>1 DEF Confirm
        <2> QED BY <1>3, <1>5, <2>1 DEF Confirm
    <1>6. ASSUME NEW b \in DOMAIN bookings, NEW status \in {"approved", "rejected", "cancelled"},
                 \/ bookings' = SetStatus(bookings, b, status)
                 \/ status = "rejected" /\ \E reason : bookings' = Rejected({b}, reason),
                 \/ bookings[b].status = "pending_approval"
                 \/ status = "cancelled" /\ bookings[b].status # "cancelled"
          PROVE  Reports({Told(status, b)})
        <2>1. /\ DOMAIN bookings' = DOMAIN bookings
              /\ bookings'[b].status = status
              /\ \A c \in DOMAIN bookings \ {b} : bookings'[c].status = bookings[c].status
            BY <1>6 DEF SetStatus, Rejected, TypeOK, BookingRow
        <2>2. Reports({Told(status, c) : c \in {b}})
            BY <1>6, <2>1, ChangeReports
        <2> QED BY <2>2
    <1>7. CASE Cancel(q)
        <2> DEFINE b == request[q].booking
        <2>1. CASE CancelAndOfferWaitlist(b) /\ ThenPublish(q, {Told("cancelled", b)})
            <3>1. Reports({Told("cancelled", b)})
                BY <1>6, <2>1 DEF CancelAndOfferWaitlist, Active, ActiveStatuses
            <3> QED BY <1>1, <1>7, <2>1, <3>1 DEF Cancel
        <2>2. CASE GiveUp(q, [op |-> "already_cancelled", booking |-> b])
            BY <1>2, <1>7, <2>2 DEF Cancel
        <2> QED BY <1>7, <2>1, <2>2 DEF Cancel
    <1>8. CASE ApproveCommit(q)
        <2> DEFINE b == request[q].booking
        <2>1. CASE Approve(b) /\ ThenPublish(q, {Told("approved", b)})
            <3>1. Reports({Told("approved", b)})
                BY <1>6, <2>1 DEF Approve, Pending
            <3> QED BY <1>1, <1>8, <2>1, <3>1 DEF ApproveCommit
        <2> QED BY <1>3, <1>8, <2>1 DEF ApproveCommit
    <1>9. CASE Reject(q)
        <2> DEFINE b == request[q].booking
        <2>1. CASE /\ RejectAndOfferWaitlist(b, request[q].reason)
                   /\ ThenPublish(q, {Told("rejected", b)})
            <3>1. Reports({Told("rejected", b)})
                BY <1>6, <2>1 DEF RejectAndOfferWaitlist, Pending
            <3> QED BY <1>1, <1>9, <2>1, <3>1 DEF Reject
        <2> QED BY <1>3, <1>9, <2>1 DEF Reject
    <1>10. ASSUME NEW user \in Users, List(q, user)
           PROVE  Good
        <2>1. bookings' = Rejected(Overdue, "timeout")
            BY <1>10 DEF List, ListPendingApprovals
        <2>2. /\ DOMAIN bookings' = DOMAIN bookings
              /\ \A b \in Overdue : bookings'[b].status = "rejected"
              /\ \A b \in DOMAIN bookings \ Overdue : bookings'[b].status = bookings[b].status
            BY <2>1 DEF Rejected, Overdue, TypeOK, BookingRow
        <2>3. Overdue \in SUBSET DOMAIN bookings
              /\ \A b \in Overdue : bookings[b].status = "pending_approval"
            BY DEF Overdue
        <2>4. Reports({Told("rejected", b) : b \in Overdue})
            BY <2>2, <2>3, ChangeReports
        <2> QED BY <1>1, <1>10, <2>4 DEF List, IsIdle
    <1>11. CASE Join(q) \/ Expire(q) \/ Leave(q)
        <2>1. CASE UNCHANGED bookings /\ ThenPublish(q, {})
            BY <1>1, <1>11, <2>1, NoChangeReports DEF Join, Expire, Leave
        <2> QED BY <1>3, <1>11, <2>1
                DEF Join, WaitlistCreate, Expire, ExpireAndOfferNext, Leave, DeleteAndOfferNext
    <1> QED BY <1>4, <1>5, <1>7, <1>8, <1>9, <1>10, <1>11 DEF Commit

\* The records of events, and the requests that report, are in order.
Account == /\ ReportedOnce
           /\ ReportedTruly

\* Only a request that is about to publish has events in flight.
LEMMA InFlightAfter ==
    ASSUME RequestOK, NEW q \in Requests, NEW what, Becomes(q, what)
    PROVE  /\ InFlight(q)' = IF what.op = "publish" THEN what.events ELSE {}
           /\ \A p \in Requests \ {q} : InFlight(p)' = InFlight(p)
    BY DEF Becomes, InFlight, RequestOK

\* The events of a transaction are told by nobody else.
LEMMA CommitAccount ==
    ASSUME TypeOK, RequestOK, Account, [Next]_vars, NEW q \in Requests, Commit(q)
    PROVE  Account'
    <1>1. PICK events, what : /\ Reports(events)
                              /\ Becomes(q, what)
                              /\ events = IF what.op = "publish" THEN what.events ELSE {}
        BY CommitReports
    <1>2. /\ InFlight(q) = {}
          /\ UNCHANGED <<published, lost>>
        BY CommitReports
    <1>3. /\ InFlight(q)' = events
          /\ \A p \in Requests \ {q} : InFlight(p)' = InFlight(p)
        BY <1>1, InFlightAfter
    <1>4. Reported' = Reported \cup events
        BY <1>2, <1>3 DEF Reported
    <1>5. \A ev \in Reported : TrueEvent(ev) /\ TrueEvent(ev)'
        BY TrueEventStays DEF Account, ReportedTruly, TrueEvent
    <1>6. \A ev \in events : ev \notin Reported /\ TrueEvent(ev)'
        BY <1>1, <1>5 DEF Reports, News
    <1>7. ReportedOnce'
        BY <1>2, <1>3, <1>6 DEF Account, ReportedOnce, Reported
    <1>8. ASSUME NEW b \in DOMAIN bookings'
          PROVE  /\ Told("created", b) \in Reported' \/ Told("pending_approval", b) \in Reported'
                 /\ bookings'[b].status \in {"approved", "rejected", "cancelled"} =>
                        Told(bookings'[b].status, b) \in Reported'
        BY <1>1, <1>4, <1>8 DEF Account, ReportedTruly, Reports
    <1>9. ReportedTruly'
        BY <1>4, <1>5, <1>6, <1>8 DEF ReportedTruly, TrueEvent
    <1> QED BY <1>7, <1>9 DEF Account

\* Publishing an event, and dying before, moves events from one record to another.
LEMMA PublishAccount ==
    ASSUME RequestOK, Account, NEW q \in Requests, Publish(q) \/ Abandon(q)
    PROVE  Account'
    <1>1. UNCHANGED bookings
        BY PublishStep DEF vars
    <1>2. /\ Reported' = Reported
          /\ ReportedOnce'
        <2>1. CASE Publish(q)
            <3>1. PICK ev \in InFlight(q) :
                    /\ Becomes(q, Remaining(InFlight(q) \ {ev}))
                    /\ published' = published \cup {ev}
                    /\ lost' = lost
                BY <2>1 DEF Publish, InFlight
            <3>2. /\ InFlight(q)' = InFlight(q) \ {ev}
                  /\ \A p \in Requests \ {q} : InFlight(p)' = InFlight(p)
                BY <3>1, InFlightAfter DEF Remaining, Idle
            <3>3. Reported' = Reported
                BY <3>1, <3>2 DEF Reported
            <3> QED BY <3>1, <3>2, <3>3 DEF Account, ReportedOnce
        <2>2. CASE Abandon(q)
            <3>1. /\ InFlight(q)' = {}
                  /\ \A p \in Requests \ {q} : InFlight(p)' = InFlight(p)
                BY <2>2, InFlightAfter DEF Abandon, Idle
            <3>2. lost' = lost \cup InFlight(q) /\ published' = published
                BY <2>2 DEF Abandon
            <3>3. Reported' = Reported
                BY <3>1, <3>2 DEF Reported
            <3> QED BY <3>1, <3>2, <3>3 DEF Account, ReportedOnce
        <2> QED BY <2>1, <2>2
    <1>3. ReportedTruly'
        BY <1>1, <1>2 DEF Account, ReportedTruly
    <1> QED BY <1>2, <1>3 DEF Account

\* The checks of a request report nothing.
LEMMA StartAccount ==
    ASSUME RequestOK, Account, NEW q \in Requests, Start(q)
    PROVE  Account'
    <1>1. UNCHANGED bookings
        BY StartStep DEF vars
    <1>2. ASSUME NEW call \in Call, Accept(q, call)
          PROVE  Account'
        <2>1. call.op # "publish"
            BY DEF Call
        <2>2. \A p \in Requests : InFlight(p)' = InFlight(p)
            BY <1>2, <2>1, InFlightAfter DEF Accept, IsIdle, InFlight
        <2>3. UNCHANGED <<published, lost>> /\ Reported' = Reported
            BY <1>2, <2>2 DEF Accept, Reported
        <2> QED BY <1>1, <2>2, <2>3 DEF Account, ReportedOnce, ReportedTruly
    <1> QED BY <1>2, StartAccepts

\* Every step leaves the records in order.
LEMMA NextAccount ==
    ASSUME TypeOK, RequestOK, Account, [ServiceNext]_serviceVars
    PROVE  Account'
    <1>1. [Next]_vars
        BY ServiceStep
    <1>2. ASSUME UNCHANGED <<bookings, request, published, lost>>
          PROVE  Account'
        BY <1>2 DEF Account, ReportedOnce, ReportedTruly, Reported, InFlight
    <1>3. ASSUME NEW q \in Requests, Start(q) \/ Commit(q) \/ Publish(q) \/ Abandon(q)
          PROVE  Account'
        BY <1>1, <1>3, StartAccount, CommitAccount, PublishAccount
    <1>4. CASE ServiceTick \/ UNCHANGED serviceVars
        BY <1>2, <1>4 DEF ServiceTick, Tick, serviceVars
    <1> QED BY <1>3, <1>4 DEF ServiceNext

\* At first there is nothing to report and nothing is reported.
LEMMA InitAccount == ServiceInit => Account
    BY DEF ServiceInit, Init, Empty, Idle, Account, ReportedOnce, ReportedTruly, Reported,
           InFlight

\* Of the requests that race for a transition one reports it, once.
THEOREM NobodyReportsTwice == ServiceSpec => []ReportedOnce
    <1>1. TypeOK /\ RequestOK /\ Account /\ [ServiceNext]_serviceVars =>
            TypeOK' /\ RequestOK' /\ Account'
        BY ServiceStep, NextTypeOK, NextAccount
    <1>2. Account => ReportedOnce
        BY DEF Account
    <1> QED BY <1>1, <1>2, InitRequestOK, InitAccount, PTL DEF ServiceSpec

\* Every transition is reported by the request that made it, or dies with it, and nothing
\* is reported that did not happen.
THEOREM ReportsAreTrue == ServiceSpec => []ReportedTruly
    <1>1. TypeOK /\ RequestOK /\ Account /\ [ServiceNext]_serviceVars =>
            TypeOK' /\ RequestOK' /\ Account'
        BY ServiceStep, NextTypeOK, NextAccount
    <1>2. Account => ReportedTruly
        BY DEF Account
    <1> QED BY <1>1, <1>2, InitRequestOK, InitAccount, PTL DEF ServiceSpec
===============================================================================
