------------------------------ MODULE Transactions ------------------------------
(***************************************************************************)
(* The transactions of the reservation store, statement by statement:      *)
(* what Reservations takes for one step is here a transaction that takes   *)
(* a snapshot, locks rows, passes over rows that others have locked, and   *)
(* commits, fails or dies; runSerializable repeats those that fail         *)
(* (internal/repository/repository.go, booking.go, waitlist.go).           *)
(*                                                                         *)
(* Of PostgreSQL, which the code relies on, this much is modelled.  A      *)
(* transaction sees the tables as they were at its first statement.  A row *)
(* that another transaction has written cannot be written until that one   *)
(* ends, and not at all if it committed.  A transaction that would be the  *)
(* pivot of a dangerous structure of read-write conflicts, or complete     *)
(* one, does not commit.  Any transaction may fail without a reason that   *)
(* the code could know.                                                    *)
(***************************************************************************)
EXTENDS Reservations, Sequences

CONSTANTS
    Sessions,       \* connections to the database: transactions at one time
    MaxAttempts,    \* serializationMaxAttempts
    MaxCalls        \* bound: no more calls than this

ASSUME SessionsAssumption == MaxAttempts \in Nat \ {0} /\ MaxCalls \in Nat

\* Ids have a prefix that tells what they are ids of.
ASSUME IdsAssumption ==
    /\ BookingId \cap WaitlistId = {}
    /\ {"bookings", "waitlist"} \cap (BookingId \cup WaitlistId) = {}

VARIABLES
    tx,             \* what each session is doing
    passed,         \* entries that wait although a committed offer passed over them
    calls           \* how many calls there were

txVars == <<bookings, waitlist, now, tx, passed, calls>>

Idle == [phase |-> "idle"]

\* The operators of the store on the tables and the clock of a transaction.
At(b, w, n) == INSTANCE Reservations WITH bookings <- b, waitlist <- w, now <- n

-------------------------------------------------------------------------------
(* What is asked of the store. *)

Call == [op : {"create"}, id : BookingId, room : Rooms, user : Users, slot : Slots,
         status : {"confirmed", "pending_approval"}]
   \cup [op : {"cancel", "approve", "reject"}, id : BookingId]
   \cup [op : {"sweep"}]
   \cup [op : {"join"}, id : WaitlistId, room : Rooms, user : Users, slot : Slots]
   \cup [op : {"confirm"}, id : WaitlistId, booking : BookingId]
   \cup [op : {"expire", "leave"}, id : WaitlistId]

\* Ids are uuids that nobody else has: a call brings its own.
Fresh(c) ==
    /\ c.op = "create" => c.id \notin DOMAIN bookings
    /\ c.op = "join" => c.id \notin DOMAIN waitlist
    /\ c.op = "confirm" => c.booking \notin DOMAIN bookings
    /\ \A s \in Sessions : tx[s] # Idle =>
        LET d == tx[s].call
        IN  /\ c.op \in {"create", "join"} /\ d.op = c.op => d.id # c.id
            /\ c.op = "create" /\ d.op = "confirm" => d.booking # c.id
            /\ c.op = "confirm" /\ d.op = "create" => d.id # c.booking
            /\ c.op = "confirm" /\ d.op = "confirm" => d.booking # c.booking
            /\ c.op = "join" => ~(d.op \in {"confirm", "expire", "leave"} /\ d.id = c.id)

\* The rows that the first statement finds, of those that it asks for; a call that finds
\* none is refused.
Finds(c) ==
    CASE c.op = "create" -> ~Busy(c.room, c.slot)
      [] c.op = "join" -> /\ Busy(c.room, c.slot)
                          /\ \A e \in Queued(c.room) :
                                waitlist[e].user = c.user => waitlist[e].slot # c.slot
                          /\ \A p \in NextPosition(c.room) : p <= MaxPosition
      [] c.op = "cancel" -> c.id \in DOMAIN bookings /\ Active(c.id)
      [] c.op \in {"approve", "reject"} -> Pending(c.id)
      [] c.op \in {"confirm", "expire"} -> Offered(c.id)
      [] c.op = "leave" -> c.id \in DOMAIN waitlist
      [] c.op = "sweep" -> TRUE

\* The bookings that a sweep finds overdue which was asked for at a time.
OverdueAt(time) == At(bookings, waitlist, time)!Overdue

\* Fault: the sweep locks what it finds in any order.
LockOrders_Any(c, time) ==
    IF c.op = "sweep"
    THEN {o \in [1 .. Cardinality(OverdueAt(time)) -> OverdueAt(time)] :
            \A i, j \in DOMAIN o : o[i] = o[j] => i = j}
    ELSE IF c.op \in {"create", "join"} THEN {<<>>} ELSE {<<c.id>>}

\* The orders in which a call may lock the rows it found.
LockOrders(c, time) ==
    IF c.op = "sweep"
    THEN {o \in [1 .. Cardinality(OverdueAt(time)) -> OverdueAt(time)] :
            \A i, j \in DOMAIN o :
                /\ o[i] = o[j] => i = j
                /\ i < j => bookings[o[i]].createdAt <= bookings[o[j]].createdAt}
    ELSE IF c.op \in {"create", "join"} THEN {<<>>} ELSE {<<c.id>>}

\* The rows whose slots the call gives to the queue, one after the other.
Frees(c, order) ==
    IF \/ c.op \in {"cancel", "reject", "sweep", "expire"}
       \/ c.op = "leave" /\ Offered(c.id)
    THEN order ELSE <<>>

\* What a call reads but the rows it locks: rows, and the name of a table in which it
\* looked for rows and would have seen a new one.
ReadsOf(c) ==
    CASE c.op \in {"create", "confirm"} -> {"bookings"}
      [] c.op = "join" ->
            {"waitlist"} \cup Queued(c.room)
            \cup {b \in DOMAIN bookings : /\ bookings[b].room = c.room
                                          /\ Active(b)
                                          /\ Overlaps(bookings[b].slot, c.slot)}
      [] c.op = "sweep" -> {"bookings"} \cup {b \in DOMAIN bookings : Pending(b)}
      [] OTHER -> {}

\* What an attempt returns, before it has done anything.
Nothing == [offered |-> {}, rejected |-> <<>>]

\* Fault: variables that are captured keep what the last attempt left in them.
Reset_Never(result) == result

\* Every attempt begins by setting the variables it returns results in.
Reset(result) == Nothing

-------------------------------------------------------------------------------
(* The steps of a transaction. *)

\* An attempt at call c begins, with the snapshot of its first statement.
Begin(s, c, attempt, time, result) ==
    \E order \in LockOrders(c, time) :
        tx' = [tx EXCEPT ![s] =
                [phase |-> "open", call |-> c, attempt |-> attempt, time |-> time,
                 result |-> Reset(result), snapB |-> bookings, snapW |-> waitlist,
                 locks |-> order, frees |-> Frees(c, order), held |-> {}, heads |-> {},
                 skipped |-> {}, reads |-> ReadsOf(c), since |-> <<>>]]

Request(s, c) ==
    /\ tx[s] = Idle
    /\ Fresh(c)
    /\ Finds(c)
    /\ calls < MaxCalls
    /\ calls' = calls + 1
    /\ Begin(s, c, 1, now, Nothing)
    /\ UNCHANGED <<bookings, waitlist, now, passed>>

Retry(s) ==
    /\ tx[s].phase = "retry"
    /\ IF Finds(tx[s].call)
       THEN Begin(s, tx[s].call, tx[s].attempt, tx[s].time, tx[s].result)
       ELSE tx' = [tx EXCEPT ![s] = Idle]
    /\ UNCHANGED <<bookings, waitlist, now, passed, calls>>

Open(s) == tx[s].phase = "open"

\* What others have committed since the snapshot.
Dirty(s) == UNION {tx[s].since[i].writes : i \in DOMAIN tx[s].since}

\* The session that has written a row; nobody else can.
LockedBy(r, row) == Open(r) /\ row \in tx[r].held

LockedByOther(s, row) == \E r \in Sessions \ {s} : LockedBy(r, row)

\* UPDATE, DELETE or SELECT ... FOR UPDATE of the next row: waits while it is locked, and
\* fails if it was changed since the snapshot.
LockRow(s) ==
    /\ Open(s)
    /\ tx[s].locks # <<>>
    /\ LET row == Head(tx[s].locks)
       IN  /\ ~LockedByOther(s, row)
           /\ row \notin Dirty(s)
           /\ tx' = [tx EXCEPT ![s].locks = Tail(@), ![s].held = @ \cup {row},
                               ![s].reads = @ \cup {row}]
    /\ UNCHANGED <<bookings, waitlist, now, passed, calls>>

\* The row whose slot is free next, in the snapshot.
FreedRow(s) ==
    LET row == Head(tx[s].frees)
    IN  IF row \in DOMAIN tx[s].snapB THEN tx[s].snapB[row] ELSE tx[s].snapW[row]

\* The entries that wait for the slot in the snapshot, without those offered already.
Waiting(s) ==
    At(tx[s].snapB, tx[s].snapW, tx[s].time)!Candidates(FreedRow(s).room, FreedRow(s).slot)
        \ tx[s].heads

\* What the call returns once it has freed the slot of a row and offered it to an entry.
Returns(s, head) ==
    IF tx[s].call.op = "sweep"
    THEN [tx[s].result EXCEPT !.rejected = Append(@, Head(tx[s].frees))]
    ELSE [tx[s].result EXCEPT !.offered = head]

\* Fault: the first that is found, without ORDER BY.
FirstOf_Any(s, entries) == entries

\* ORDER BY position LIMIT 1
FirstOf(s, entries) ==
    {e \in entries : \A f \in entries : tx[s].snapW[e].position <= tx[s].snapW[f].position}

\* offerNextSlot: FOR UPDATE SKIP LOCKED passes over entries that others have locked; an
\* entry that was changed since the snapshot makes the transaction fail.
OfferNext(s) ==
    /\ Open(s)
    /\ tx[s].locks = <<>>
    /\ tx[s].frees # <<>>
    /\ LET free == {e \in Waiting(s) : ~LockedByOther(s, e)}
       IN  \/ /\ free = {}
              /\ tx' = [tx EXCEPT ![s].frees = Tail(@), ![s].result = Returns(s, {}),
                                  ![s].skipped = @ \cup Waiting(s),
                                  ![s].reads = @ \cup Waiting(s) \cup {"waitlist"}]
           \/ \E e \in FirstOf(s, free) :
                LET before == {f \in Waiting(s) \ free :
                                    tx[s].snapW[f].position < tx[s].snapW[e].position}
                IN  /\ e \notin Dirty(s)
                    /\ tx' = [tx EXCEPT ![s].frees = Tail(@), ![s].result = Returns(s, {e}),
                                        ![s].held = @ \cup {e}, ![s].heads = @ \cup {e},
                                        ![s].skipped = @ \cup before,
                                        ![s].reads = @ \cup before \cup {e}]
    /\ UNCHANGED <<bookings, waitlist, now, passed, calls>>

\* All statements are done.
Done(s) == Open(s) /\ tx[s].locks = <<>> /\ tx[s].frees = <<>>

\* ConfirmAndBook finds the slot taken, and undoes what it did to the entry.
Conflict(s) ==
    /\ Done(s)
    /\ tx[s].call.op = "confirm"
    /\ LET entry == tx[s].snapW[tx[s].call.id]
       IN  At(tx[s].snapB, tx[s].snapW, tx[s].time)!Busy(entry.room, entry.slot)

GiveUp(s) ==
    /\ tx' = [tx EXCEPT ![s] = Idle]
    /\ UNCHANGED <<bookings, waitlist, now, passed, calls>>

-------------------------------------------------------------------------------
(* Commit. *)

\* What a transaction writes: rows, and the name of a table to which it adds one.
Writes(s) ==
    LET c == tx[s].call
    IN  tx[s].held \cup CASE c.op = "create" -> {c.id, "bookings"}
                         [] c.op = "confirm" -> {c.booking, "bookings"}
                         [] c.op = "join" -> {c.id, "waitlist"}
                         [] OTHER -> {}

Overwritten(s, other) == tx[s].reads \cap other.writes # {}

\* It read what a transaction wrote that committed after its snapshot: it comes before that
\* one in every serial order.
Behind(s) == \E i \in DOMAIN tx[s].since : Overwritten(s, tx[s].since[i])

\* Fault: IsoLevel is RepeatableRead.
Serializable_RepeatableRead(s) == TRUE

\* No dangerous structure is completed: three transactions of which the first read what
\* the second wrote, and the second what the third wrote, which committed first of all.
Serializable(s) ==
    LET past == tx[s].since
    IN  /\ ~\E i, j \in DOMAIN past : /\ i <= j
                                      /\ Overwritten(s, past[i])
                                      /\ Writes(s) \cap past[j].reads # {}
        /\ ~\E i \in DOMAIN past : past[i].behind /\ Overwritten(s, past[i])

\* What the call does to the bookings, and to the waitlist but for the offers.
NewBookings(s) ==
    LET c == tx[s].call
        new(room, user, slot, status) ==
            At(tx[s].snapB, tx[s].snapW, tx[s].time)!NewBooking(room, user, slot, status)
    IN  CASE c.op = "create" -> Put(bookings, c.id, new(c.room, c.user, c.slot, c.status))
          [] c.op = "cancel" -> SetStatus(bookings, c.id, "cancelled")
          [] c.op = "approve" -> SetStatus(bookings, c.id, "approved")
          [] c.op = "reject" -> Rejected({c.id}, "admin")
          [] c.op = "sweep" -> Rejected(tx[s].held \cap BookingId, "timeout")
          [] c.op = "confirm" ->
                LET e == waitlist[c.id]
                IN  Put(bookings, c.booking, new(e.room, e.user, e.slot, "confirmed"))
          [] OTHER -> bookings

NewWaitlist(s) ==
    LET c == tx[s].call
    IN  CASE c.op = "join" ->
                Put(waitlist, c.id,
                    [room |-> c.room, user |-> c.user, slot |-> c.slot, status |-> "waiting",
                     position |-> CHOOSE p \in
                        At(tx[s].snapB, tx[s].snapW, tx[s].time)!NextPosition(c.room) : TRUE,
                     offeredAt |-> Never])
          [] c.op = "confirm" -> SetStatus(waitlist, c.id, "converted")
          [] c.op = "expire" -> SetStatus(waitlist, c.id, "expired")
          [] c.op = "leave" -> Remove(waitlist, c.id)
          [] OTHER -> waitlist

\* Rows that the transaction has written are as it found them, so its changes can be made
\* to the tables as they are now.
Commit(s) ==
    /\ Done(s)
    /\ ~Conflict(s)
    /\ Serializable(s)
    /\ bookings' = NewBookings(s)
    /\ waitlist' = At(tx[s].snapB, tx[s].snapW, tx[s].time)!Offer(NewWaitlist(s), tx[s].heads)
    /\ LET this == [reads |-> tx[s].reads, writes |-> Writes(s), behind |-> Behind(s)]
       IN  tx' = [r \in Sessions |->
                    IF r = s THEN Idle
                    ELSE IF Open(r) THEN [tx[r] EXCEPT !.since = Append(@, this)]
                    ELSE tx[r]]
    /\ passed' = {e \in passed \cup tx[s].skipped :
                    e \in DOMAIN waitlist' /\ waitlist'[e].status = "waiting"}
    /\ UNCHANGED <<now, calls>>

-------------------------------------------------------------------------------
(* Failures. *)

\* The number of the next attempt: CreateChecked makes no second one.
Attempts(c, attempt) ==
    IF c.op = "create" \/ attempt = MaxAttempts THEN {} ELSE {attempt + 1}

\* serialization_failure or deadlock_detected: the transaction is rolled back and, when an
\* attempt is left, repeated with the variables as this one left them.
Fail(s) ==
    /\ Open(s)
    /\ LET c == tx[s].call
           more == Attempts(c, tx[s].attempt)
       IN  tx' = [tx EXCEPT ![s] =
                    IF more = {} THEN Idle
                    ELSE [phase |-> "retry", call |-> c, attempt |-> CHOOSE n \in more : TRUE,
                          time |-> tx[s].time, result |-> tx[s].result]]
    /\ UNCHANGED <<bookings, waitlist, now, passed, calls>>

\* The client went away, or the connection: no attempt is left.
Die(s) == tx[s] # Idle /\ GiveUp(s)

\* It waits for a row that another has written.
WaitsFor(s, r) ==
    /\ Open(s)
    /\ tx[s].locks # <<>>
    /\ r # s
    /\ LockedBy(r, Head(tx[s].locks))

Deadlocked(s) == \E D \in SUBSET Sessions :
                    s \in D /\ \A r \in D : \E q \in D : WaitsFor(r, q)

-------------------------------------------------------------------------------
TxInit == /\ Init
          /\ tx = [s \in Sessions |-> Idle]
          /\ passed = {}
          /\ calls = 0

Proceed(s) ==
    \/ Retry(s)
    \/ LockRow(s)
    \/ OfferNext(s)
    \/ Commit(s)
    \/ Conflict(s) /\ GiveUp(s)
    \/ Fail(s)
    \/ Die(s)

TxTick == Tick /\ UNCHANGED <<tx, passed, calls>>

TxNext ==
    \/ \E s \in Sessions : \/ \E c \in Call : Request(s, c)
                          \/ Proceed(s)
    \/ TxTick

TxSpec == TxInit /\ [][TxNext]_txVars

-------------------------------------------------------------------------------
(* Properties. *)

\* What a call returns is what it committed: the entry it says was offered the slot was
\* offered it by the attempt that succeeded, and the bookings it says were rejected were
\* rejected by it, each named once; nothing is left of attempts that failed.
ReturnsWhatCommitted ==
    [][ \A s \in Sessions :
            Done(s) /\ tx'[s] = Idle /\ <<bookings, waitlist>>' # <<bookings, waitlist>> =>
                LET result == tx[s].result
                    rejected == {result.rejected[i] : i \in DOMAIN result.rejected}
                IN  IF tx[s].call.op = "sweep"
                    THEN rejected = Freed /\ Len(result.rejected) = Cardinality(rejected)
                    ELSE result.offered = NewlyOffered ]_txVars

\* Although transactions read snapshots, pass over rows and repeat themselves, the queue is
\* served in order, and nobody waits for a slot that stands idle, with one exception: an
\* entry that a committed offer passed over because another transaction held its row.
FairButForLocks ==
    \A room \in Rooms : \A e \in Queued(room) \ passed :
        waitlist[e].status = "waiting" =>
            /\ \A f \in Queued(room) :
                waitlist[f].status = "offered" /\ waitlist[f].slot = waitlist[e].slot =>
                    waitlist[f].position < waitlist[e].position
            /\ DisjointSlots =>
                \/ Busy(room, waitlist[e].slot)
                \/ \E f \in Queued(room) : /\ waitlist[f].status = "offered"
                                           /\ waitlist[f].slot = waitlist[e].slot

Quiet == \A s \in Sessions : tx[s] = Idle

\* A freed slot goes to the first entry that waits for it (openspec/specs/booking-waitlist/
\* spec.md:91): once all transactions are over, nobody is offered a slot for which an entry
\* ahead of him still waits.
FirstIsServed == Quiet => NoOvertaking

\* Sweeps lock the bookings they find by age, every other call one row before it offers:
\* calls never wait for one another in a circle, unless two bookings are of one age.
NoDeadlock ==
    (\A b, c \in DOMAIN bookings :
        Pending(b) /\ Pending(c) /\ bookings[b].createdAt = bookings[c].createdAt => b = c)
    => \A s \in Sessions : ~Deadlocked(s)
===============================================================================
