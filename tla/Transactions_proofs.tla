-------------------------- MODULE Transactions_proofs --------------------------
(***************************************************************************)
(* Theorems about Transactions: although transactions work on snapshots,   *)
(* pass over rows and repeat themselves, the tables keep what Reservations *)
(* promises.                                                               *)
(*                                                                         *)
(* The inductive invariant TxInv says of each open transaction what its    *)
(* snapshot still tells of the tables, given the rows and tables that      *)
(* others have written since (Dirty), and how far its program has come.    *)
(* What a transaction knows when it commits follows from it: the rows that *)
(* it holds are as its snapshot has them, and a table in which it looked   *)
(* for rows and to which it adds one has got no other row since, because   *)
(* whoever adds one has looked there too and the two would not be          *)
(* serializable.                                                           *)
(***************************************************************************)
EXTENDS Transactions, Reservations_proofs

Ids == BookingId \cup WaitlistId

-------------------------------------------------------------------------------
(* What the invariant says of each session. *)

OpenFields == {"phase", "call", "attempt", "time", "result", "snapB", "snapW", "locks",
               "frees", "held", "heads", "skipped", "reads", "since"}

RetryFields == {"phase", "call", "attempt", "time", "result"}

\* A session is idle, in a transaction, or about to repeat one.
TxShape ==
    /\ DOMAIN tx = Sessions
    /\ \A s \in Sessions : \/ tx[s] = Idle
                           \/ tx[s].phase = "retry" /\ DOMAIN tx[s] = RetryFields
                           \/ Open(s) /\ DOMAIN tx[s] = OpenFields

\* The ids of the rows that a call adds.
Adds(c) == {id \in Ids : \/ c.op \in {"create", "join"} /\ id = c.id
                         \/ c.op = "confirm" /\ id = c.booking}

\* Calls in flight are well formed, and bring ids that no row has and no other call brings.
RequestsOK ==
    \A s \in Sessions : tx[s] # Idle =>
        /\ tx[s].call \in Call
        /\ tx[s].time \in Nat /\ tx[s].time <= now
        /\ Adds(tx[s].call) \cap (DOMAIN bookings \cup DOMAIN waitlist) = {}
        /\ \A r \in Sessions \ {s} :
                tx[r] # Idle => Adds(tx[s].call) \cap Adds(tx[r].call) = {}

\* Rows are of the past, positions within the bound.
Bounded == /\ \A b \in DOMAIN bookings : bookings[b].createdAt <= now
           /\ \A e \in DOMAIN waitlist : waitlist[e].position <= MaxPosition

\* A snapshot is a well-formed state of the tables.
SnapshotOK(s) ==
    /\ DOMAIN tx[s].snapB \subseteq BookingId
    /\ tx[s].snapB \in [DOMAIN tx[s].snapB -> BookingRow]
    /\ DOMAIN tx[s].snapW \subseteq WaitlistId
    /\ tx[s].snapW \in [DOMAIN tx[s].snapW -> WaitlistRow]
    /\ \A e \in DOMAIN tx[s].snapW : tx[s].snapW[e].position <= MaxPosition
    /\ \A e, f \in DOMAIN tx[s].snapW :
        /\ tx[s].snapW[e].status \in QueuedStatuses /\ tx[s].snapW[f].status \in QueuedStatuses
        /\ tx[s].snapW[e].room = tx[s].snapW[f].room
        /\ tx[s].snapW[e].position = tx[s].snapW[f].position
        => e = f

\* An entry is the one that the snapshot has, and has only moved forward since.
Same(s, e) ==
    /\ e \in DOMAIN tx[s].snapW
    /\ waitlist[e].room = tx[s].snapW[e].room
    /\ waitlist[e].slot = tx[s].snapW[e].slot
    /\ waitlist[e].position = tx[s].snapW[e].position
    /\ waitlist[e].status \in QueuedStatuses => tx[s].snapW[e].status \in QueuedStatuses
    /\ waitlist[e].status = "waiting" => tx[s].snapW[e].status = "waiting"

\* What a snapshot still tells of the tables: rows that nobody has written since are as
\* they were, others have moved forward, and there are no new ones unless somebody wrote
\* to the table.
SinceOK(s) ==
    /\ \A b \in DOMAIN tx[s].snapB :
        /\ b \in DOMAIN bookings
        /\ bookings[b].room = tx[s].snapB[b].room
        /\ bookings[b].slot = tx[s].snapB[b].slot
        /\ bookings[b].createdAt = tx[s].snapB[b].createdAt
        /\ Active(b) => tx[s].snapB[b].status \in ActiveStatuses
        /\ b \notin Dirty(s) => bookings[b] = tx[s].snapB[b]
    /\ "bookings" \notin Dirty(s) => DOMAIN bookings \subseteq DOMAIN tx[s].snapB
    /\ \A e \in DOMAIN tx[s].snapW \ Dirty(s) :
        e \in DOMAIN waitlist /\ waitlist[e] = tx[s].snapW[e]
    /\ "waitlist" \notin Dirty(s) => \A e \in DOMAIN waitlist : Same(s, e)

Past == [reads : SUBSET (Ids \cup {"bookings", "waitlist"}),
         writes : SUBSET (Ids \cup {"bookings", "waitlist"}), behind : BOOLEAN]

\* Who adds a row to a table has looked for rows in it.
PastOK(s) ==
    /\ tx[s].since \in Seq(Past)
    /\ \A i \in DOMAIN tx[s].since :
        {"bookings", "waitlist"} \cap tx[s].since[i].writes \subseteq tx[s].since[i].reads

\* The rows that a call locks before all others, those of them whose slots it frees,
OwnRows(s) ==
    {x \in Ids :
        LET c == tx[s].call
        IN  \/ c.op \notin {"create", "join", "sweep"} /\ x = c.id
            \/ /\ c.op = "sweep" /\ x \in DOMAIN tx[s].snapB
               /\ tx[s].snapB[x].status = "pending_approval"
               /\ tx[s].snapB[x].createdAt + ApprovalTimeout < tx[s].time}

FreesRows(s) ==
    {x \in OwnRows(s) :
        \/ tx[s].call.op \in {"cancel", "reject", "sweep", "expire"}
        \/ tx[s].call.op = "leave" /\ tx[s].snapW[x].status = "offered"}

\* and those whose slots it has already given to the queue.
Given(s) == FreesRows(s) \ Range(tx[s].frees)

\* A call found the rows that it asks for.
FoundOK(s) ==
    LET c == tx[s].call
        b == tx[s].snapB
        w == tx[s].snapW
    IN  /\ c.op = "create" => \A x \in DOMAIN b : /\ b[x].room = c.room
                                                  /\ b[x].status \in ActiveStatuses
                                                  => ~Overlaps(b[x].slot, c.slot)
        /\ c.op = "join" =>
            /\ \E x \in DOMAIN b : /\ b[x].room = c.room
                                   /\ b[x].status \in ActiveStatuses
                                   /\ Overlaps(b[x].slot, c.slot)
            /\ \A p \in At(b, w, tx[s].time)!NextPosition(c.room) : p <= MaxPosition
        /\ c.op = "cancel" => c.id \in DOMAIN b /\ b[c.id].status \in ActiveStatuses
        /\ c.op \in {"approve", "reject"} =>
                c.id \in DOMAIN b /\ b[c.id].status = "pending_approval"
        /\ c.op \in {"confirm", "expire"} => c.id \in DOMAIN w /\ w[c.id].status = "offered"
        /\ c.op = "leave" => c.id \in DOMAIN w

\* It has read what it works on.
ReadsOK(s) ==
    LET c == tx[s].call
        b == tx[s].snapB
        w == tx[s].snapW
    IN  /\ tx[s].reads \subseteq Ids \cup {"bookings", "waitlist"}
        /\ c.op \in {"create", "confirm"} => "bookings" \in tx[s].reads
        /\ c.op = "join" =>
            /\ "waitlist" \in tx[s].reads
            /\ \A e \in DOMAIN w : /\ w[e].room = c.room
                                   /\ w[e].status \in QueuedStatuses
                                   => e \in tx[s].reads
            /\ \A x \in DOMAIN b : /\ b[x].room = c.room
                                   /\ b[x].status \in ActiveStatuses
                                   /\ Overlaps(b[x].slot, c.slot)
                                   => x \in tx[s].reads

\* Rows are locked first, then the slots are given away, one after the other.
ProgressOK(s) ==
    /\ tx[s].locks \in Seq(Ids) /\ tx[s].frees \in Seq(Ids)
    /\ \A i, j \in DOMAIN tx[s].frees : tx[s].frees[i] = tx[s].frees[j] => i = j
    /\ Range(tx[s].frees) \subseteq FreesRows(s)
    /\ OwnRows(s) = Range(tx[s].locks) \cup (tx[s].held \ tx[s].heads)
    /\ tx[s].locks # <<>> => Given(s) = {}
    /\ tx[s].call.op # "sweep" => Len(tx[s].locks) <= 1
    /\ tx[s].locks # <<>> /\ tx[s].call.op # "sweep" => tx[s].held = {}
    /\ tx[s].heads \subseteq tx[s].held
    /\ \A h \in tx[s].heads : h \in DOMAIN tx[s].snapW /\ tx[s].snapW[h].status = "waiting"
    /\ Given(s) = {} => tx[s].heads = {} /\ tx[s].skipped = {}

\* Rows that a transaction has written nobody else has written, and nobody else can.
HeldOK ==
    \A s \in Sessions : Open(s) =>
        /\ tx[s].held \cap Dirty(s) = {}
        /\ \A r \in Sessions \ {s} : Open(r) => tx[s].held \cap tx[r].held = {}

SessionOK(s) == /\ SnapshotOK(s) /\ SinceOK(s) /\ PastOK(s)
                /\ FoundOK(s) /\ ReadsOK(s) /\ ProgressOK(s)

TxInv == /\ TypeOK /\ FiniteTables /\ Bounded /\ NoDoubleBooking /\ PositionsDistinct
         /\ TxShape /\ RequestsOK /\ HeldOK
         /\ \A s \in Sessions : Open(s) => SessionOK(s)

-------------------------------------------------------------------------------
(* What each step does to the sessions. *)

\* An open session has all fields.
LEMMA OpenShape ==
    ASSUME TxShape, NEW s \in Sessions, Open(s)
    PROVE  DOMAIN tx = Sessions /\ DOMAIN tx[s] = OpenFields /\ tx[s] # Idle
    BY DEF TxShape, Open, Idle, RetryFields, OpenFields

\* The other sessions, and the tables, are as they were.
OnlySession(s) ==
    /\ DOMAIN tx' = Sessions
    /\ \A r \in Sessions \ {s} : tx'[r] = tx[r]
    /\ UNCHANGED <<bookings, waitlist, now>>

\* A session that begins has the snapshot, the rows to lock, and nothing else yet.
LEMMA BeginEffect ==
    ASSUME TxShape, NEW s \in Sessions, NEW c, NEW n, NEW time, NEW result,
           Begin(s, c, n, time, result)
    PROVE  /\ DOMAIN tx' = Sessions
           /\ \A r \in Sessions \ {s} : tx'[r] = tx[r]
           /\ DOMAIN tx'[s] = OpenFields
           /\ tx'[s].phase = "open" /\ tx'[s].call = c /\ tx'[s].time = time
           /\ tx'[s].result = Nothing
           /\ tx'[s].snapB = bookings /\ tx'[s].snapW = waitlist
           /\ tx'[s].locks \in LockOrders(c, time)
           /\ tx'[s].frees = Frees(c, tx'[s].locks)
           /\ tx'[s].held = {} /\ tx'[s].heads = {} /\ tx'[s].skipped = {}
           /\ tx'[s].reads = ReadsOf(c) /\ tx'[s].since = <<>>
    BY DEF Begin, TxShape, OpenFields, Reset

\* The next row is locked.
LEMMA LockRowEffect ==
    ASSUME TxShape, NEW s \in Sessions, LockRow(s)
    PROVE  /\ OnlySession(s)
           /\ Open(s) /\ tx[s].locks # <<>>
           /\ ~LockedByOther(s, Head(tx[s].locks)) /\ Head(tx[s].locks) \notin Dirty(s)
           /\ DOMAIN tx'[s] = OpenFields
           /\ tx'[s].phase = "open" /\ tx'[s].call = tx[s].call /\ tx'[s].time = tx[s].time
           /\ tx'[s].result = tx[s].result
           /\ tx'[s].snapB = tx[s].snapB /\ tx'[s].snapW = tx[s].snapW
           /\ tx'[s].locks = Tail(tx[s].locks) /\ tx'[s].frees = tx[s].frees
           /\ tx'[s].held = tx[s].held \cup {Head(tx[s].locks)}
           /\ tx'[s].heads = tx[s].heads /\ tx'[s].skipped = tx[s].skipped
           /\ tx'[s].reads = tx[s].reads \cup {Head(tx[s].locks)}
           /\ tx'[s].since = tx[s].since
  <1>1. DOMAIN tx = Sessions /\ Open(s) /\ DOMAIN tx[s] = OpenFields
    BY OpenShape DEF LockRow
  <1> QED
    BY <1>1 DEF LockRow, OpenFields, OnlySession, Open

\* The rows that an offer passes over before it takes entry e.
Before(s, e) ==
    {f \in Waiting(s) : LockedByOther(s, f) /\ tx[s].snapW[f].position < tx[s].snapW[e].position}

\* A slot is given to nobody, who passes over all that wait,
GivesToNobody(s) ==
    /\ \A e \in Waiting(s) : LockedByOther(s, e)
    /\ tx'[s].result = Returns(s, {})
    /\ tx'[s].held = tx[s].held /\ tx'[s].heads = tx[s].heads
    /\ tx'[s].skipped = tx[s].skipped \cup Waiting(s)
    /\ tx'[s].reads = tx[s].reads \cup Waiting(s) \cup {"waitlist"}

\* or to an entry that no one else holds, which passes over those before it.
GivesTo(s, e) ==
    /\ e \in Waiting(s) /\ ~LockedByOther(s, e) /\ e \notin Dirty(s)
    /\ \A f \in Waiting(s) : tx[s].snapW[f].position < tx[s].snapW[e].position => f \in Before(s, e)
    /\ tx'[s].result = Returns(s, {e})
    /\ tx'[s].held = tx[s].held \cup {e} /\ tx'[s].heads = tx[s].heads \cup {e}
    /\ tx'[s].skipped = tx[s].skipped \cup Before(s, e)
    /\ tx'[s].reads = tx[s].reads \cup Before(s, e) \cup {e}

\* The next slot is given away.
LEMMA OfferNextEffect ==
    ASSUME TxShape, NEW s \in Sessions, OfferNext(s), SnapshotOK(s)
    PROVE  /\ OnlySession(s)
           /\ Open(s) /\ tx[s].locks = <<>> /\ tx[s].frees # <<>>
           /\ DOMAIN tx'[s] = OpenFields
           /\ tx'[s].phase = "open" /\ tx'[s].call = tx[s].call /\ tx'[s].time = tx[s].time
           /\ tx'[s].snapB = tx[s].snapB /\ tx'[s].snapW = tx[s].snapW
           /\ tx'[s].locks = tx[s].locks /\ tx'[s].frees = Tail(tx[s].frees)
           /\ tx'[s].since = tx[s].since
           /\ GivesToNobody(s) \/ \E e \in Waiting(s) : GivesTo(s, e)
  <1> DEFINE free == {e \in Waiting(s) : ~LockedByOther(s, e)}
             before(e) == {f \in Waiting(s) \ free :
                                tx[s].snapW[f].position < tx[s].snapW[e].position}
  <1>1. DOMAIN tx = Sessions /\ Open(s) /\ DOMAIN tx[s] = OpenFields
    <2>1. Open(s)
      BY DEF OfferNext
    <2> QED
      BY <2>1, OpenShape
  <1>2. tx[s].locks = <<>> /\ tx[s].frees # <<>> /\ UNCHANGED <<bookings, waitlist, now>>
    BY DEF OfferNext
  <1>3. CASE /\ free = {}
             /\ tx' = [tx EXCEPT ![s].frees = Tail(@), ![s].result = Returns(s, {}),
                                 ![s].skipped = @ \cup Waiting(s),
                                 ![s].reads = @ \cup Waiting(s) \cup {"waitlist"}]
    <2> HIDE DEF free
    <2>1. \A e \in Waiting(s) : LockedByOther(s, e)
      BY <1>3 DEF free
    <2> QED
      BY <1>1, <1>2, <1>3, <2>1 DEF OpenFields, OnlySession, Open, GivesToNobody
  <1>4. CASE \E e \in FirstOf(s, free) :
                /\ e \notin Dirty(s)
                /\ tx' = [tx EXCEPT ![s].frees = Tail(@), ![s].result = Returns(s, {e}),
                                    ![s].held = @ \cup {e}, ![s].heads = @ \cup {e},
                                    ![s].skipped = @ \cup before(e),
                                    ![s].reads = @ \cup before(e) \cup {e}]
    <2>1. PICK e \in FirstOf(s, free) :
                /\ e \notin Dirty(s)
                /\ tx' = [tx EXCEPT ![s].frees = Tail(@), ![s].result = Returns(s, {e}),
                                    ![s].held = @ \cup {e}, ![s].heads = @ \cup {e},
                                    ![s].skipped = @ \cup before(e),
                                    ![s].reads = @ \cup before(e) \cup {e}]
      BY <1>4
    <2>2. e \in Waiting(s) /\ ~LockedByOther(s, e)
      BY DEF FirstOf
    <2>3. before(e) = Before(s, e)
      BY DEF Before
    <2>4. ASSUME NEW f \in Waiting(s), tx[s].snapW[f].position < tx[s].snapW[e].position
          PROVE  f \in Before(s, e)
      <3>1. e \in DOMAIN tx[s].snapW /\ f \in DOMAIN tx[s].snapW
        BY <2>2 DEF Waiting, At!Candidates, At!Queued
      <3>2. tx[s].snapW[e].position \in Nat /\ tx[s].snapW[f].position \in Nat
        BY <3>1 DEF SnapshotOK, WaitlistRow
      <3>3. ~(tx[s].snapW[e].position <= tx[s].snapW[f].position)
        BY <3>2, <2>4
      <3>4. f \notin free
        BY <3>3 DEF FirstOf
      <3> QED
        BY <3>4, <2>4 DEF Before
    <2> HIDE DEF before, free
    <2> QED
      BY <1>1, <1>2, <2>1, <2>2, <2>3, <2>4 DEF OpenFields, OnlySession, Open, GivesTo
  <1> QED
    BY <1>3, <1>4 DEF OfferNext

\* A commit is told to the sessions that are open.
LEMMA CommitEffect ==
    ASSUME TxShape, NEW s \in Sessions, Commit(s)
    PROVE  /\ DOMAIN tx' = Sessions /\ tx'[s] = Idle
           /\ \A r \in Sessions \ {s} : ~Open(r) => tx'[r] = tx[r]
           /\ \A r \in Sessions \ {s} : Open(r) =>
                /\ DOMAIN tx'[r] = OpenFields
                /\ \A f \in OpenFields \ {"since"} : tx'[r][f] = tx[r][f]
                /\ tx'[r].since = Append(tx[r].since, [reads |-> tx[s].reads,
                                    writes |-> Writes(s), behind |-> Behind(s)])
  <1> DEFINE this == [reads |-> tx[s].reads, writes |-> Writes(s), behind |-> Behind(s)]
  <1>1. tx' = [r \in Sessions |->
                    IF r = s THEN Idle
                    ELSE IF Open(r) THEN [tx[r] EXCEPT !.since = Append(@, this)]
                    ELSE tx[r]]
    BY DEF Commit
  <1> HIDE DEF this
  <1>2. ASSUME NEW r \in Sessions \ {s}, Open(r)
        PROVE  /\ DOMAIN tx'[r] = OpenFields
               /\ \A f \in OpenFields \ {"since"} : tx'[r][f] = tx[r][f]
               /\ tx'[r].since = Append(tx[r].since, this)
    <2>1. DOMAIN tx[r] = OpenFields
      BY <1>2, OpenShape
    <2>2. tx'[r] = [tx[r] EXCEPT !.since = Append(tx[r].since, this)]
      BY <1>1, <1>2
    <2> QED
      BY <2>1, <2>2 DEF OpenFields
  <1> QED
    BY <1>1, <1>2 DEF this

\* A session ends, or waits for its next attempt.
LEMMA CloseEffect ==
    ASSUME TxShape, NEW s \in Sessions, GiveUp(s) \/ Fail(s)
    PROVE  /\ OnlySession(s)
           /\ \/ tx'[s] = Idle
              \/ /\ Open(s)
                 /\ tx'[s].phase = "retry" /\ DOMAIN tx'[s] = RetryFields
                 /\ tx'[s].call = tx[s].call /\ tx'[s].time = tx[s].time
  <1>1. DOMAIN tx = Sessions
    BY DEF TxShape
  <1>2. CASE GiveUp(s)
    BY <1>1, <1>2 DEF GiveUp, OnlySession
  <1>3. CASE Fail(s)
    BY <1>1, <1>3 DEF Fail, OnlySession, RetryFields
  <1> QED
    BY <1>2, <1>3

-------------------------------------------------------------------------------
(* Steps that leave the tables alone. *)

\* What is known of a session does not depend on what others do on their way.
LEMMA OthersKeep ==
    ASSUME NEW r, tx'[r] = tx[r], UNCHANGED <<bookings, waitlist>>, SessionOK(r)
    PROVE  SessionOK(r)'
  <1>1. SnapshotOK(r)'
    BY DEF SessionOK, SnapshotOK
  <1>2. SinceOK(r)'
    BY DEF SessionOK, SinceOK, Dirty, Same, Active
  <1>3. PastOK(r)'
    BY DEF SessionOK, PastOK
  <1>4. FoundOK(r)'
    BY DEF SessionOK, FoundOK
  <1>5. ReadsOK(r)'
    BY DEF SessionOK, ReadsOK
  <1>6. ProgressOK(r)'
    BY DEF SessionOK, ProgressOK, OwnRows, FreesRows, Given
  <1> QED
    BY <1>1, <1>2, <1>3, <1>4, <1>5, <1>6 DEF SessionOK

\* The tables stay in form while they stay the same and time does not run back.
LEMMA TablesKeep ==
    ASSUME TxInv, UNCHANGED <<bookings, waitlist>>, now' \in Nat, now <= now'
    PROVE  (TypeOK /\ FiniteTables /\ Bounded /\ NoDoubleBooking /\ PositionsDistinct)'
  <1>1. TypeOK'
    BY DEF TxInv, TypeOK
  <1>2. Bounded'
    BY DEF TxInv, Bounded, TypeOK, BookingRow
  <1>3. FiniteTables' /\ NoDoubleBooking' /\ PositionsDistinct'
    BY DEF TxInv, FiniteTables, NoDoubleBooking, PositionsDistinct, Active, Queued
  <1> QED
    BY <1>1, <1>2, <1>3

\* The snapshot is a state of the tables.
LEMMA BeginSnapshot ==
    ASSUME TxInv, NEW s, tx'[s].snapB = bookings, tx'[s].snapW = waitlist
    PROVE  SnapshotOK(s)'
  <1>1. \A e, f \in DOMAIN waitlist :
            /\ waitlist[e].status \in QueuedStatuses /\ waitlist[f].status \in QueuedStatuses
            /\ waitlist[e].room = waitlist[f].room
            /\ waitlist[e].position = waitlist[f].position
            => e = f
    BY DEF TxInv, TypeOK, PositionsDistinct, Queued, WaitlistRow
  <1> QED
    BY <1>1 DEF SnapshotOK, TxInv, TypeOK, Bounded

\* Nobody has written yet.
LEMMA BeginSince ==
    ASSUME TxInv, NEW s, tx'[s].snapB = bookings, tx'[s].snapW = waitlist,
           tx'[s].since = <<>>, UNCHANGED <<bookings, waitlist>>
    PROVE  SinceOK(s)' /\ PastOK(s)' /\ Dirty(s)' = {}
  <1>1. Dirty(s)' = {}
    BY DEF Dirty
  <1>2. PastOK(s)'
    BY DEF PastOK
  <1>3. \A e \in DOMAIN waitlist' : Same(s, e)'
    BY DEF Same
  <1>4. \A b \in DOMAIN bookings : Active(b)' => bookings[b].status \in ActiveStatuses
    BY DEF Active
  <1> QED
    BY <1>1, <1>2, <1>3, <1>4 DEF SinceOK

\* A call begins when it finds what it asks for.
LEMMA BeginFound ==
    ASSUME NEW s, NEW c \in Call, Finds(c), tx'[s].call = c,
           tx'[s].snapB = bookings, tx'[s].snapW = waitlist
    PROVE  FoundOK(s)'
  <1> DEFINE P == At(tx[s].snapB, tx[s].snapW, tx[s].time)!NextPosition(c.room)
  <1>1. P' = NextPosition(c.room)
    BY DEF At!NextPosition, NextPosition, At!Queued, Queued, At!QueuedStatuses, QueuedStatuses
  <1>2. CASE c.op = "create"
    BY <1>2 DEF FoundOK, Finds, Busy, Active
  <1>3. CASE c.op = "join"
    <2>1. \E x \in DOMAIN bookings : /\ bookings[x].room = c.room
                                     /\ bookings[x].status \in ActiveStatuses
                                     /\ Overlaps(bookings[x].slot, c.slot)
      BY <1>3 DEF Finds, Busy, Active
    <2>2. \A p \in P' : p <= MaxPosition
      BY <1>1, <1>3 DEF Finds
    <2> HIDE DEF P
    <2>3. FoundOK(s)' <=> /\ \E x \in DOMAIN bookings : /\ bookings[x].room = c.room
                                     /\ bookings[x].status \in ActiveStatuses
                                     /\ Overlaps(bookings[x].slot, c.slot)
                          /\ \A p \in P' : p <= MaxPosition
      BY <1>3 DEF FoundOK, P
    <2> QED
      BY <2>1, <2>2, <2>3
  <1>4. CASE c.op = "cancel"
    BY <1>4 DEF FoundOK, Finds, Active
  <1>5. CASE c.op \in {"approve", "reject"}
    BY <1>5 DEF FoundOK, Finds, Pending
  <1>6. CASE c.op \in {"confirm", "expire"}
    BY <1>6 DEF FoundOK, Finds, Offered
  <1>7. CASE c.op = "leave"
    BY <1>7 DEF FoundOK, Finds
  <1>8. CASE c.op = "sweep"
    BY <1>8 DEF FoundOK
  <1> QED
    BY <1>2, <1>3, <1>4, <1>5, <1>6, <1>7, <1>8 DEF Call

\* It reads what it asks for.
LEMMA BeginReads ==
    ASSUME TxInv, NEW s, NEW c \in Call, tx'[s].call = c, tx'[s].reads = ReadsOf(c),
           tx'[s].snapB = bookings, tx'[s].snapW = waitlist
    PROVE  ReadsOK(s)'
  <1> USE DEF TxInv, TypeOK, Ids
  <1>1. CASE c.op \in {"create", "confirm"}
    BY <1>1 DEF ReadsOK, ReadsOf
  <1>2. CASE c.op = "join"
    BY <1>2 DEF ReadsOK, ReadsOf, Queued, Active
  <1>3. CASE c.op = "sweep"
    BY <1>3 DEF ReadsOK, ReadsOf
  <1>4. CASE c.op \in {"cancel", "approve", "reject", "expire", "leave"}
    BY <1>4 DEF ReadsOK, ReadsOf
  <1> QED
    BY <1>1, <1>2, <1>3, <1>4 DEF Call

\* A sequence that lists as many different elements of a finite set as it has lists it all.
LEMMA ListsAll ==
    ASSUME NEW S, IsFiniteSet(S), NEW f \in [1 .. Cardinality(S) -> S],
           \A i, j \in DOMAIN f : f[i] = f[j] => i = j
    PROVE  f \in Seq(S) /\ Range(f) = S
  <1>1. Cardinality(S) \in Nat
    BY FS_CardinalityType
  <1>2. f \in Injection(1 .. Cardinality(S), S)
    BY DEF Injection, IsInjective
  <1>3. Cardinality(1 .. Cardinality(S)) = Cardinality(S)
    BY <1>1, FS_Interval
  <1>4. f \in Surjection(1 .. Cardinality(S), S)
    BY <1>2, <1>3, FS_Injection
  <1> QED
    BY <1>1, <1>4 DEF Surjection, Range

\* The rows that a call locks, in the order in which it does.
LEMMA LocksOwnRows ==
    ASSUME TxInv, NEW s, NEW c \in Call, NEW time, tx'[s].call = c, tx'[s].time = time,
           tx'[s].snapB = bookings, NEW order \in LockOrders(c, time)
    PROVE  /\ order \in Seq(Ids) /\ Range(order) = OwnRows(s)'
           /\ \A i, j \in DOMAIN order : order[i] = order[j] => i = j
           /\ c.op # "sweep" => Len(order) <= 1
  <1>1. CASE c.op = "sweep"
    <2> DEFINE S == OverdueAt(time)
    <2>1. S \subseteq DOMAIN bookings
      BY DEF OverdueAt, At!Overdue
    <2>2. IsFiniteSet(S)
      BY <2>1, FS_Subset DEF TxInv, FiniteTables
    <2>3. order \in [1 .. Cardinality(S) -> S] /\ \A i, j \in DOMAIN order : order[i] = order[j] => i = j
      BY <1>1 DEF LockOrders
    <2>4. OwnRows(s)' = S
      BY <1>1 DEF OwnRows, OverdueAt, At!Overdue, TxInv, TypeOK, Ids
    <2>5. S \subseteq Ids
      BY <2>1 DEF TxInv, TypeOK, Ids
    <2> HIDE DEF S
    <2>6. order \in Seq(S) /\ Range(order) = S
      BY <2>2, <2>3, ListsAll
    <2> QED
      BY <2>3, <2>4, <2>5, <2>6, <1>1
  <1>2. CASE c.op \in {"create", "join"}
    <2>1. order = <<>>
      BY <1>2 DEF LockOrders
    <2>2. OwnRows(s)' = {}
      BY <1>2 DEF OwnRows
    <2> QED
      BY <2>1, <2>2 DEF Range
  <1>3. CASE c.op \notin {"create", "join", "sweep"}
    <2>1. order = <<c.id>>
      BY <1>3 DEF LockOrders
    <2>2. c.id \in Ids
      BY <1>3 DEF Call, Ids
    <2>3. OwnRows(s)' = {c.id}
      BY <1>3, <2>2 DEF OwnRows
    <2> QED
      BY <2>1, <2>2, <2>3 DEF Range
  <1> QED
    BY <1>1, <1>2, <1>3

\* Nothing is done yet.
LEMMA BeginProgress ==
    ASSUME TxInv, NEW s, NEW c \in Call, NEW time, Finds(c), tx'[s].call = c, tx'[s].time = time,
           tx'[s].snapB = bookings, tx'[s].snapW = waitlist,
           tx'[s].locks \in LockOrders(c, time), tx'[s].frees = Frees(c, tx'[s].locks),
           tx'[s].held = {}, tx'[s].heads = {}, tx'[s].skipped = {}
    PROVE  ProgressOK(s)'
  <1> DEFINE order == tx'[s].locks
  <1>1. /\ order \in Seq(Ids) /\ Range(order) = OwnRows(s)'
        /\ \A i, j \in DOMAIN order : order[i] = order[j] => i = j
        /\ c.op # "sweep" => Len(order) <= 1
    BY LocksOwnRows
  <1>2. /\ tx'[s].frees \in Seq(Ids)
        /\ \A i, j \in DOMAIN tx'[s].frees : tx'[s].frees[i] = tx'[s].frees[j] => i = j
        /\ Range(tx'[s].frees) = FreesRows(s)'
    <2>1. CASE c.op \in {"cancel", "reject", "sweep", "expire"}
      <3>1. tx'[s].frees = order
        BY <2>1 DEF Frees
      <3>2. FreesRows(s)' = OwnRows(s)'
        BY <2>1 DEF FreesRows
      <3> QED
        BY <1>1, <3>1, <3>2
    <2>2. CASE c.op = "leave"
      <3>1. OwnRows(s)' = {c.id}
        BY <2>2 DEF OwnRows, Call, Ids
      <3>2. CASE Offered(c.id)
        <4>1. tx'[s].frees = order
          BY <2>2, <3>2 DEF Frees
        <4>2. FreesRows(s)' = OwnRows(s)'
          BY <2>2, <3>1, <3>2 DEF FreesRows, Offered
        <4> QED
          BY <1>1, <4>1, <4>2
      <3>3. CASE ~Offered(c.id)
        <4>1. tx'[s].frees = <<>>
          BY <2>2, <3>3 DEF Frees
        <4>2. FreesRows(s)' = {}
          BY <2>2, <3>1, <3>3 DEF FreesRows, Offered, Finds
        <4> QED
          BY <4>1, <4>2 DEF Range
      <3> QED
        BY <3>2, <3>3
    <2>3. CASE c.op \notin {"cancel", "reject", "sweep", "expire", "leave"}
      <3>1. tx'[s].frees = <<>> /\ FreesRows(s)' = {}
        BY <2>3 DEF Frees, FreesRows
      <3> QED
        BY <3>1 DEF Range
    <2> QED
      BY <2>1, <2>2, <2>3
  <1>3. Given(s)' = {}
    BY <1>2 DEF Given
  <1> QED
    BY <1>1, <1>2, <1>3 DEF ProgressOK

-------------------------------------------------------------------------------
(* Steps of one session. *)

\* A call in flight is well formed, and brings ids of its own.
RequestOK(s) ==
    /\ tx[s].call \in Call
    /\ tx[s].time \in Nat /\ tx[s].time <= now
    /\ Adds(tx[s].call) \cap (DOMAIN bookings \cup DOMAIN waitlist) = {}
    /\ \A r \in Sessions \ {s} : tx[r] # Idle => Adds(tx[s].call) \cap Adds(tx[r].call) = {}

\* What nobody else has written.
HeldAlone(s) ==
    /\ tx[s].held \cap Dirty(s) = {}
    /\ \A r \in Sessions \ {s} : Open(r) => tx[s].held \cap tx[r].held = {}

\* The invariant is kept by a step that only touches a session, if that one stays in order.
LEMMA OneSession ==
    ASSUME TxInv, NEW s \in Sessions, OnlySession(s),
           \/ tx'[s] = Idle
           \/ tx'[s].phase = "retry" /\ DOMAIN tx'[s] = RetryFields
           \/ Open(s)' /\ DOMAIN tx'[s] = OpenFields,
           tx'[s] # Idle => RequestOK(s)',
           Open(s)' => SessionOK(s)' /\ HeldAlone(s)'
    PROVE  TxInv'
  <1> USE DEF OnlySession
  <1>1. (TypeOK /\ FiniteTables /\ Bounded /\ NoDoubleBooking /\ PositionsDistinct)'
    BY TablesKeep DEF TxInv, TypeOK
  <1>2. TxShape'
    BY DEF TxInv, TxShape, Open
  <1>3. RequestsOK'
    <2> SUFFICES ASSUME NEW r \in Sessions, tx'[r] # Idle
                 PROVE  RequestOK(r)'
      BY DEF RequestsOK, RequestOK
    <2>1. CASE r # s
      <3>1. /\ tx[r] # Idle /\ tx'[r] = tx[r]
            /\ \A q \in Sessions \ {s} : tx'[q] = tx[q]
        BY <2>1
      <3>2. tx'[s] # Idle => Adds(tx'[s].call) \cap Adds(tx[r].call) = {}
        BY <2>1, <3>1 DEF RequestOK
      <3> QED
        BY <2>1, <3>1, <3>2 DEF TxInv, RequestsOK, RequestOK
    <2> QED
      BY <2>1
  <1>4. ASSUME NEW r \in Sessions, Open(r)', r # s
        PROVE  SessionOK(r)' /\ HeldAlone(r)'
    <2>1. tx'[r] = tx[r] /\ Open(r) /\ UNCHANGED <<bookings, waitlist>>
      BY <1>4 DEF Open
    <2>2. SessionOK(r)'
      BY <2>1, OthersKeep DEF TxInv
    <2>3. tx'[r].held \cap Dirty(r)' = {}
      BY <2>1 DEF TxInv, HeldOK, Dirty
    <2>4. ASSUME NEW q \in Sessions \ {r}, Open(q)'
          PROVE  tx'[r].held \cap tx'[q].held = {}
      <3>1. CASE q = s
        BY <3>1, <2>4, <1>4, <2>1 DEF HeldAlone
      <3>2. CASE q # s
        BY <3>2, <2>4, <2>1 DEF TxInv, HeldOK, Open
      <3> QED
        BY <3>1, <3>2
    <2> QED
      BY <2>2, <2>3, <2>4 DEF HeldAlone
  <1>5. \A r \in Sessions : Open(r)' => SessionOK(r)' /\ HeldAlone(r)'
    BY <1>4
  <1>6. HeldOK'
    BY <1>5 DEF HeldOK, HeldAlone
  <1> QED
    BY <1>1, <1>2, <1>3, <1>5, <1>6 DEF TxInv

\* An attempt begins in order.
LEMMA BeginInv ==
    ASSUME TxInv, NEW s \in Sessions, NEW c \in Call, NEW n, NEW time \in Nat, NEW result,
           time <= now, Finds(c), Begin(s, c, n, time, result),
           UNCHANGED <<bookings, waitlist, now>>,
           Adds(c) \cap (DOMAIN bookings \cup DOMAIN waitlist) = {},
           \A r \in Sessions \ {s} : tx[r] # Idle => Adds(c) \cap Adds(tx[r].call) = {}
    PROVE  TxInv'
  <1>1. /\ DOMAIN tx' = Sessions
        /\ \A r \in Sessions \ {s} : tx'[r] = tx[r]
        /\ DOMAIN tx'[s] = OpenFields
        /\ tx'[s].phase = "open" /\ tx'[s].call = c /\ tx'[s].time = time
        /\ tx'[s].result = Nothing
        /\ tx'[s].snapB = bookings /\ tx'[s].snapW = waitlist
        /\ tx'[s].locks \in LockOrders(c, time)
        /\ tx'[s].frees = Frees(c, tx'[s].locks)
        /\ tx'[s].held = {} /\ tx'[s].heads = {} /\ tx'[s].skipped = {}
        /\ tx'[s].reads = ReadsOf(c) /\ tx'[s].since = <<>>
    BY BeginEffect DEF TxInv
  <1>2. OnlySession(s)
    BY <1>1 DEF OnlySession
  <1>3. SessionOK(s)'
    <2>1. SnapshotOK(s)'
      BY <1>1, BeginSnapshot
    <2>2. SinceOK(s)' /\ PastOK(s)'
      BY <1>1, BeginSince
    <2>3. FoundOK(s)'
      BY <1>1, BeginFound
    <2>4. ReadsOK(s)'
      BY <1>1, BeginReads
    <2>5. ProgressOK(s)'
      BY <1>1, BeginProgress
    <2> QED
      BY <2>1, <2>2, <2>3, <2>4, <2>5 DEF SessionOK
  <1>4. RequestOK(s)'
    BY <1>1, <1>2 DEF RequestOK, OnlySession
  <1>5. HeldAlone(s)'
    BY <1>1 DEF HeldAlone
  <1>6. Open(s)' /\ DOMAIN tx'[s] = OpenFields
    BY <1>1 DEF Open
  <1> QED
    BY <1>2, <1>3, <1>4, <1>5, <1>6, OneSession

\* A call that begins brings ids of its own.
LEMMA RequestInv ==
    ASSUME TxInv, NEW s \in Sessions, NEW c \in Call, Request(s, c)
    PROVE  TxInv'
  <1>1. Finds(c) /\ Fresh(c) /\ Begin(s, c, 1, now, Nothing) /\ UNCHANGED <<bookings, waitlist, now>>
    BY DEF Request
  <1>2. now \in Nat /\ now <= now
    BY DEF TxInv, TypeOK
  <1>3. Adds(c) \cap (DOMAIN bookings \cup DOMAIN waitlist) = {}
    BY <1>1, IdsAssumption DEF Fresh, Adds, Call, TxInv, TypeOK
  <1>4. ASSUME NEW r \in Sessions \ {s}, tx[r] # Idle
        PROVE  Adds(c) \cap Adds(tx[r].call) = {}
    <2>1. tx[r].call \in Call
      BY <1>4 DEF TxInv, RequestsOK
    <2> DEFINE d == tx[r].call
    <2>2. /\ c.op \in {"create", "join"} /\ d.op = c.op => d.id # c.id
          /\ c.op = "create" /\ d.op = "confirm" => d.booking # c.id
          /\ c.op = "confirm" /\ d.op = "create" => d.id # c.booking
          /\ c.op = "confirm" /\ d.op = "confirm" => d.booking # c.booking
      BY <1>1, <1>4 DEF Fresh
    <2> HIDE DEF d
    <2>3. ASSUME NEW e \in Call
          PROVE  /\ e.op = "create" => Adds(e) = {e.id} /\ e.id \in BookingId
                 /\ e.op = "join" => Adds(e) = {e.id} /\ e.id \in WaitlistId
                 /\ e.op = "confirm" => Adds(e) = {e.booking} /\ e.booking \in BookingId
                 /\ e.op \notin {"create", "join", "confirm"} => Adds(e) = {}
      BY DEF Adds, Call, Ids
    <2>4. d \in Call
      BY <2>1 DEF d
    <2>5. Adds(c) \cap Adds(d) = {}
      BY <2>2, <2>3, <2>4, IdsAssumption
    <2> QED
      BY <2>5 DEF d
  <1> QED
    BY <1>1, <1>2, <1>3, <1>4, BeginInv

\* So does one that begins again.
LEMMA RetryInv ==
    ASSUME TxInv, NEW s \in Sessions, Retry(s)
    PROVE  TxInv'
  <1> DEFINE c == tx[s].call
  <1>1. UNCHANGED <<bookings, waitlist, now>> /\ tx[s] # Idle
    BY DEF Retry, Idle
  <1>2. RequestOK(s)
    BY <1>1 DEF TxInv, RequestsOK, RequestOK
  <1>3. CASE Finds(c)
    <2>1. Begin(s, c, tx[s].attempt, tx[s].time, tx[s].result)
      BY <1>3 DEF Retry
    <2> QED
      BY <1>1, <1>2, <1>3, <2>1, BeginInv DEF RequestOK
  <1>4. CASE ~Finds(c)
    <2>1. tx' = [tx EXCEPT ![s] = Idle]
      BY <1>4 DEF Retry
    <2>2. OnlySession(s) /\ tx'[s] = Idle
      BY <1>1, <2>1 DEF OnlySession, TxInv, TxShape
    <2> QED
      BY <2>2, OneSession DEF Open, Idle
  <1> QED
    BY <1>3, <1>4

\* A transaction that is rolled back leaves nothing.
LEMMA CloseInv ==
    ASSUME TxInv, NEW s \in Sessions, GiveUp(s) \/ Fail(s)
    PROVE  TxInv'
  <1>1. OnlySession(s)
    BY CloseEffect DEF TxInv
  <1>2. CASE tx'[s] = Idle
    BY <1>1, <1>2, OneSession DEF Open, Idle
  <1>3. CASE /\ Open(s)
             /\ tx'[s].phase = "retry" /\ DOMAIN tx'[s] = RetryFields
             /\ tx'[s].call = tx[s].call /\ tx'[s].time = tx[s].time
    <2>1. RequestOK(s)
      BY <1>3 DEF TxInv, RequestsOK, RequestOK, Open, Idle
    <2>2. RequestOK(s)'
      BY <1>1, <1>3, <2>1 DEF RequestOK, OnlySession
    <2>3. ~Open(s)'
      BY <1>3 DEF Open
    <2> QED
      BY <1>1, <1>3, <2>2, <2>3, OneSession
  <1> QED
    BY <1>2, <1>3, CloseEffect DEF TxInv

\* Time passes.
LEMMA TickInv ==
    ASSUME TxInv, TxTick
    PROVE  TxInv'
  <1>1. UNCHANGED <<bookings, waitlist, tx>> /\ now' \in Nat /\ now <= now'
    BY DEF TxTick, Tick, TxInv, TypeOK
  <1>2. (TypeOK /\ FiniteTables /\ Bounded /\ NoDoubleBooking /\ PositionsDistinct)'
    BY <1>1, TablesKeep
  <1>3. TxShape' /\ HeldOK'
    BY <1>1 DEF TxInv, TxShape, HeldOK, Open, Dirty
  <1>4. RequestsOK'
    BY <1>1 DEF TxInv, RequestsOK, TypeOK
  <1>5. \A s \in Sessions : Open(s)' => SessionOK(s)'
    BY <1>1, OthersKeep DEF TxInv, Open
  <1> QED
    BY <1>2, <1>3, <1>4, <1>5 DEF TxInv

\* What is known of the snapshot stays as the transaction goes on.
LEMMA SameSnapshot ==
    ASSUME NEW s, UNCHANGED <<bookings, waitlist>>, SessionOK(s),
           tx'[s].call = tx[s].call, tx'[s].time = tx[s].time,
           tx'[s].snapB = tx[s].snapB, tx'[s].snapW = tx[s].snapW, tx'[s].since = tx[s].since
    PROVE  /\ SnapshotOK(s)' /\ SinceOK(s)' /\ PastOK(s)' /\ FoundOK(s)'
           /\ Dirty(s)' = Dirty(s)
           /\ OwnRows(s)' = OwnRows(s) /\ FreesRows(s)' = FreesRows(s)
  <1>1. SnapshotOK(s)'
    BY DEF SessionOK, SnapshotOK
  <1>2. Dirty(s)' = Dirty(s)
    BY DEF Dirty
  <1>3. SinceOK(s)'
    BY <1>2 DEF SessionOK, SinceOK, Same, Active
  <1>4. PastOK(s)'
    BY DEF SessionOK, PastOK
  <1>5. FoundOK(s)'
    BY DEF SessionOK, FoundOK
  <1>6. OwnRows(s)' = OwnRows(s)
    BY DEF OwnRows
  <1>7. FreesRows(s)' = FreesRows(s)
    BY <1>6 DEF FreesRows
  <1> QED
    BY <1>1, <1>2, <1>3, <1>4, <1>5, <1>6, <1>7

\* More reads do no harm.
LEMMA MoreReads ==
    ASSUME NEW s, ReadsOK(s), tx'[s].call = tx[s].call,
           tx'[s].snapB = tx[s].snapB, tx'[s].snapW = tx[s].snapW,
           tx[s].reads \subseteq tx'[s].reads,
           tx'[s].reads \subseteq Ids \cup {"bookings", "waitlist"}
    PROVE  ReadsOK(s)'
    BY DEF ReadsOK

\* The first element of a sequence and those after it.
LEMMA HeadAndTail ==
    ASSUME NEW S, NEW q \in Seq(S), q # <<>>
    PROVE  /\ Tail(q) \in Seq(S) /\ Head(q) \in S
           /\ Len(Tail(q)) = Len(q) - 1
           /\ Head(q) = q[1] /\ 1 \in DOMAIN q
           /\ \A i \in DOMAIN Tail(q) : i + 1 \in DOMAIN q /\ Tail(q)[i] = q[i + 1]
           /\ Range(q) = {Head(q)} \cup Range(Tail(q))
  <1>1. /\ Tail(q) \in Seq(S) /\ Head(q) \in S
        /\ Len(Tail(q)) = Len(q) - 1
        /\ Head(q) = q[1] /\ 1 \in DOMAIN q
        /\ \A i \in DOMAIN Tail(q) : i + 1 \in DOMAIN q /\ Tail(q)[i] = q[i + 1]
    OBVIOUS
  <1>2. ASSUME NEW i \in DOMAIN q
        PROVE  q[i] \in {Head(q)} \cup Range(Tail(q))
    <2>1. CASE i = 1
      BY <1>1, <2>1
    <2>2. CASE i # 1
      <3>1. i - 1 \in DOMAIN Tail(q) /\ Tail(q)[i - 1] = q[i]
        BY <1>1, <2>2
      <3> QED
        BY <3>1 DEF Range
    <2> QED
      BY <2>1, <2>2
  <1> QED
    BY <1>1, <1>2 DEF Range

\* In a sequence without repetitions nor does the first element come again.
LEMMA HeadIsOnce ==
    ASSUME NEW S, NEW q \in Seq(S), q # <<>>, \A i, j \in DOMAIN q : q[i] = q[j] => i = j
    PROVE  /\ \A i, j \in DOMAIN Tail(q) : Tail(q)[i] = Tail(q)[j] => i = j
           /\ Head(q) \notin Range(Tail(q))
  <1>1. /\ Tail(q) \in Seq(S) /\ Head(q) = q[1] /\ 1 \in DOMAIN q
        /\ \A i \in DOMAIN Tail(q) : i + 1 \in DOMAIN q /\ Tail(q)[i] = q[i + 1]
    BY HeadAndTail
  <1>2. \A i \in DOMAIN Tail(q) : i \in Nat \ {0}
    BY <1>1
  <1>3. ASSUME NEW i \in DOMAIN Tail(q), NEW j \in DOMAIN Tail(q), Tail(q)[i] = Tail(q)[j]
        PROVE  i = j
    <2>1. i + 1 = j + 1
      BY <1>1, <1>3
    <2> QED
      BY <1>2, <2>1
  <1>4. ASSUME NEW i \in DOMAIN Tail(q), Head(q) = Tail(q)[i]
        PROVE  FALSE
    <2>1. 1 = i + 1
      BY <1>1, <1>4
    <2> QED
      BY <1>2, <2>1
  <1> QED
    BY <1>3, <1>4 DEF Range

\* Who holds a row that was not locked is the only one to hold it.
LEMMA LocksAlone ==
    ASSUME TxInv, NEW s \in Sessions, OnlySession(s), HeldAlone(s),
           NEW row, ~LockedByOther(s, row), row \notin Dirty(s),
           Dirty(s)' = Dirty(s), tx'[s].held = tx[s].held \cup {row}
    PROVE  HeldAlone(s)'
    BY DEF HeldAlone, OnlySession, LockedByOther, LockedBy, Open

\* A row is locked as the call said.
LEMMA LockRowInv ==
    ASSUME TxInv, NEW s \in Sessions, LockRow(s)
    PROVE  TxInv'
  <1> DEFINE row == Head(tx[s].locks)
  <1>1. /\ OnlySession(s)
        /\ Open(s) /\ tx[s].locks # <<>>
        /\ ~LockedByOther(s, row) /\ row \notin Dirty(s)
        /\ DOMAIN tx'[s] = OpenFields
        /\ tx'[s].phase = "open" /\ tx'[s].call = tx[s].call /\ tx'[s].time = tx[s].time
        /\ tx'[s].snapB = tx[s].snapB /\ tx'[s].snapW = tx[s].snapW
        /\ tx'[s].locks = Tail(tx[s].locks) /\ tx'[s].frees = tx[s].frees
        /\ tx'[s].held = tx[s].held \cup {row}
        /\ tx'[s].heads = tx[s].heads /\ tx'[s].skipped = tx[s].skipped
        /\ tx'[s].reads = tx[s].reads \cup {row}
        /\ tx'[s].since = tx[s].since
    BY LockRowEffect DEF TxInv
  <1>2. SessionOK(s) /\ HeldAlone(s) /\ RequestOK(s)
    BY <1>1, OpenShape DEF TxInv, HeldOK, HeldAlone, RequestsOK, RequestOK
  <1>3. /\ SnapshotOK(s)' /\ SinceOK(s)' /\ PastOK(s)' /\ FoundOK(s)'
        /\ Dirty(s)' = Dirty(s)
        /\ OwnRows(s)' = OwnRows(s) /\ FreesRows(s)' = FreesRows(s)
    BY <1>1, <1>2, SameSnapshot DEF OnlySession
  <1>4. /\ Tail(tx[s].locks) \in Seq(Ids) /\ row \in Ids
        /\ Len(Tail(tx[s].locks)) = Len(tx[s].locks) - 1
        /\ Range(tx[s].locks) = {row} \cup Range(Tail(tx[s].locks))
    BY <1>1, <1>2, HeadAndTail DEF SessionOK, ProgressOK
  <1>5. ReadsOK(s)'
    BY <1>1, <1>2, <1>4, MoreReads DEF SessionOK, ReadsOK
  <1>6. ProgressOK(s)'
    <2>1. Given(s) = {} /\ tx[s].heads = {} /\ tx[s].skipped = {} /\ Given(s)' = {}
      BY <1>1, <1>2, <1>3 DEF SessionOK, ProgressOK, Given
    <2>2. tx[s].call.op # "sweep" => tx'[s].locks = <<>>
      BY <1>1, <1>2, <1>4 DEF SessionOK, ProgressOK
    <2>3. OwnRows(s) = Range(tx'[s].locks) \cup (tx'[s].held \ tx'[s].heads)
      BY <1>1, <1>2, <1>4, <2>1 DEF SessionOK, ProgressOK
    <2>4. tx[s].call.op # "sweep" => Len(tx'[s].locks) <= 1
      BY <2>2
    <2> QED
      BY <1>1, <1>2, <1>3, <1>4, <2>1, <2>2, <2>3, <2>4 DEF SessionOK, ProgressOK
  <1>7. SessionOK(s)'
    BY <1>3, <1>5, <1>6 DEF SessionOK
  <1>8. HeldAlone(s)'
    BY <1>1, <1>2, <1>3, LocksAlone
  <1>9. RequestOK(s)'
    BY <1>1, <1>2 DEF RequestOK, OnlySession
  <1> QED
    BY <1>1, <1>7, <1>8, <1>9, OneSession DEF Open

\* The entries that may be offered a slot wait for it in the snapshot.
LEMMA WaitingAre ==
    ASSUME NEW s, NEW e \in Waiting(s)
    PROVE  /\ e \in DOMAIN tx[s].snapW /\ tx[s].snapW[e].status = "waiting"
           /\ tx[s].snapW[e].room = FreedRow(s).room
           /\ Overlaps(tx[s].snapW[e].slot, FreedRow(s).slot)
           /\ e \notin tx[s].heads
    BY DEF Waiting, At!Candidates, At!Queued, At!Overlaps, Overlaps

\* A row whose slot is freed does not wait in the queue.
LEMMA OwnRowsDoNotWait ==
    ASSUME NEW s, SessionOK(s), tx[s].call \in Call, FreesRows(s) # {},
           NEW e \in DOMAIN tx[s].snapW, tx[s].snapW[e].status = "waiting"
    PROVE  e \notin OwnRows(s)
  <1> DEFINE c == tx[s].call
  <1>1. e \notin BookingId
    BY IdsAssumption DEF SessionOK, SnapshotOK
  <1>2. CASE c.op \in {"cancel", "approve", "reject"}
    BY <1>1, <1>2 DEF OwnRows, Call
  <1>3. CASE c.op = "sweep"
    BY <1>1, <1>3 DEF OwnRows, SessionOK, SnapshotOK
  <1>4. CASE c.op \in {"confirm", "expire"}
    BY <1>4 DEF OwnRows, SessionOK, FoundOK
  <1>5. CASE c.op = "leave"
    BY <1>5 DEF FreesRows, OwnRows
  <1>6. CASE c.op \in {"create", "join"}
    BY <1>6 DEF OwnRows
  <1> QED
    BY <1>2, <1>3, <1>4, <1>5, <1>6 DEF Call

\* A slot is given away as the snapshot says.
LEMMA OfferNextInv ==
    ASSUME TxInv, NEW s \in Sessions, OfferNext(s)
    PROVE  TxInv'
  <1> DEFINE row == Head(tx[s].frees)
  <1>0. SnapshotOK(s) /\ SessionOK(s) /\ HeldAlone(s) /\ RequestOK(s)
    <2>1. Open(s)
      BY DEF OfferNext
    <2> QED
      BY <2>1, OpenShape DEF TxInv, SessionOK, HeldOK, HeldAlone, RequestsOK, RequestOK
  <1>1. /\ OnlySession(s)
        /\ Open(s) /\ tx[s].locks = <<>> /\ tx[s].frees # <<>>
        /\ DOMAIN tx'[s] = OpenFields
        /\ tx'[s].phase = "open" /\ tx'[s].call = tx[s].call /\ tx'[s].time = tx[s].time
        /\ tx'[s].snapB = tx[s].snapB /\ tx'[s].snapW = tx[s].snapW
        /\ tx'[s].locks = tx[s].locks /\ tx'[s].frees = Tail(tx[s].frees)
        /\ tx'[s].since = tx[s].since
        /\ GivesToNobody(s) \/ \E e \in Waiting(s) : GivesTo(s, e)
    BY <1>0, OfferNextEffect DEF TxInv
  <1>3. /\ SnapshotOK(s)' /\ SinceOK(s)' /\ PastOK(s)' /\ FoundOK(s)'
        /\ Dirty(s)' = Dirty(s)
        /\ OwnRows(s)' = OwnRows(s) /\ FreesRows(s)' = FreesRows(s)
    BY <1>0, <1>1, SameSnapshot DEF OnlySession
  <1>4. /\ Tail(tx[s].frees) \in Seq(Ids) /\ row \in Range(tx[s].frees)
        /\ Range(tx[s].frees) = {row} \cup Range(Tail(tx[s].frees))
        /\ \A i, j \in DOMAIN Tail(tx[s].frees) :
                Tail(tx[s].frees)[i] = Tail(tx[s].frees)[j] => i = j
        /\ row \notin Range(Tail(tx[s].frees))
    <2>1. tx[s].frees \in Seq(Ids) /\ tx[s].frees # <<>>
          /\ \A i, j \in DOMAIN tx[s].frees : tx[s].frees[i] = tx[s].frees[j] => i = j
      BY <1>0, <1>1 DEF SessionOK, ProgressOK
    <2>2. row \in Range(tx[s].frees)
      BY <2>1, HeadAndTail
    <2> QED
      BY <2>1, <2>2, HeadAndTail, HeadIsOnce
  <1>5. row \in FreesRows(s) /\ Given(s)' = Given(s) \cup {row}
    BY <1>0, <1>1, <1>3, <1>4 DEF SessionOK, ProgressOK, Given
  <1>6. Waiting(s) \subseteq Ids /\ \A e \in Waiting(s) : e \notin OwnRows(s)
    BY <1>0, <1>5, WaitingAre, OwnRowsDoNotWait DEF RequestOK, SnapshotOK, Ids
  <1>7. ReadsOK(s)'
    <2>1. /\ tx[s].reads \subseteq tx'[s].reads
          /\ tx'[s].reads \subseteq Ids \cup {"bookings", "waitlist"}
      BY <1>0, <1>1, <1>6 DEF SessionOK, ReadsOK, GivesToNobody, GivesTo, Before
    <2> QED
      BY <1>0, <1>1, <2>1, MoreReads DEF SessionOK
  <1>8. CASE GivesToNobody(s)
    <2>1. tx'[s].held = tx[s].held /\ tx'[s].heads = tx[s].heads
      BY <1>8 DEF GivesToNobody
    <2>2. ProgressOK(s)'
      BY <1>0, <1>1, <1>3, <1>4, <1>5, <2>1 DEF SessionOK, ProgressOK
    <2>3. HeldAlone(s)'
      BY <1>0, <1>1, <1>3, <2>1 DEF HeldAlone, OnlySession, Open
    <2> QED
      BY <2>2, <2>3, <1>0, <1>1, <1>3, <1>7, OneSession DEF SessionOK, RequestOK, OnlySession, Open
  <1>9. ASSUME NEW e \in Waiting(s), GivesTo(s, e)
        PROVE  TxInv'
    <2>1. /\ tx'[s].held = tx[s].held \cup {e} /\ tx'[s].heads = tx[s].heads \cup {e}
          /\ ~LockedByOther(s, e) /\ e \notin Dirty(s)
      BY <1>9 DEF GivesTo
    <2>2. tx'[s].held \ tx'[s].heads = tx[s].held \ tx[s].heads
      BY <1>0, <1>6, <2>1 DEF SessionOK, ProgressOK
    <2>3. e \in DOMAIN tx[s].snapW /\ tx[s].snapW[e].status = "waiting"
      BY WaitingAre
    <2>4. ProgressOK(s)'
      BY <1>0, <1>1, <1>3, <1>4, <1>5, <2>1, <2>2, <2>3 DEF SessionOK, ProgressOK
    <2>5. HeldAlone(s)'
      BY <1>0, <1>1, <1>3, <2>1, LocksAlone
    <2> QED
      BY <2>4, <2>5, <1>0, <1>1, <1>3, <1>7, OneSession DEF SessionOK, RequestOK, OnlySession, Open
  <1> QED
    BY <1>1, <1>8, <1>9

-------------------------------------------------------------------------------
(* What a transaction knows when it commits. *)

\* A table in which it looked for rows, and to which it adds one, has got no other row.
LEMMA NoNewRows ==
    ASSUME NEW s, SessionOK(s), Serializable(s), NEW table \in {"bookings", "waitlist"},
           table \in tx[s].reads, table \in Writes(s)
    PROVE  table \notin Dirty(s)
  <1> SUFFICES ASSUME NEW i \in DOMAIN tx[s].since, table \in tx[s].since[i].writes
               PROVE  FALSE
    BY DEF Dirty
  <1>1. table \in tx[s].since[i].reads
    BY DEF SessionOK, PastOK
  <1>2. Overwritten(s, tx[s].since[i]) /\ Writes(s) \cap tx[s].since[i].reads # {}
    BY <1>1 DEF Overwritten
  <1>3. i <= i
    BY DEF SessionOK, PastOK
  <1> QED
    BY <1>2, <1>3 DEF Serializable

\* All rows are locked and all slots given away, and what it holds nobody else has written.
LEMMA AtCommit ==
    ASSUME TxInv, NEW s \in Sessions, Commit(s)
    PROVE  /\ Open(s) /\ SessionOK(s) /\ HeldAlone(s) /\ RequestOK(s)
           /\ Serializable(s) /\ ~Conflict(s) /\ Done(s)
           /\ Given(s) = FreesRows(s)
           /\ tx[s].held = OwnRows(s) \cup tx[s].heads
           /\ FreesRows(s) = {} => tx[s].heads = {}
           /\ \A b \in OwnRows(s) : b \in DOMAIN tx[s].snapB =>
                b \in DOMAIN bookings /\ bookings[b] = tx[s].snapB[b]
           /\ \A e \in OwnRows(s) : e \in DOMAIN tx[s].snapW =>
                e \in DOMAIN waitlist /\ waitlist[e] = tx[s].snapW[e]
           /\ \A h \in tx[s].heads :
                /\ h \in DOMAIN waitlist /\ waitlist[h] = tx[s].snapW[h]
                /\ h \in DOMAIN tx[s].snapW /\ waitlist[h].status = "waiting"
                /\ h \notin OwnRows(s)
  <1>1. Done(s) /\ Open(s) /\ tx[s].locks = <<>> /\ tx[s].frees = <<>>
    BY DEF Commit, Done
  <1>2. SessionOK(s) /\ HeldAlone(s) /\ RequestOK(s)
    BY <1>1, OpenShape DEF TxInv, HeldOK, HeldAlone, RequestsOK, RequestOK
  <1>3. Range(tx[s].locks) = {} /\ Range(tx[s].frees) = {}
    BY <1>1 DEF Range
  <1>4. /\ Given(s) = FreesRows(s)
        /\ OwnRows(s) = tx[s].held \ tx[s].heads /\ tx[s].heads \subseteq tx[s].held
        /\ Given(s) = {} => tx[s].heads = {}
        /\ \A h \in tx[s].heads : h \in DOMAIN tx[s].snapW /\ tx[s].snapW[h].status = "waiting"
    BY <1>2, <1>3 DEF SessionOK, ProgressOK, Given
  <1>5. \A x \in tx[s].held : x \notin Dirty(s)
    BY <1>2 DEF HeldAlone
  <1>6. Serializable(s) /\ ~Conflict(s)
    BY DEF Commit
  <1> QED
    BY <1>1, <1>2, <1>4, <1>5, <1>6 DEF SessionOK, SinceOK

\* What is written.
LEMMA WritesAre ==
    ASSUME NEW s, tx[s].call \in Call
    PROVE  LET c == tx[s].call
           IN  /\ c.op = "create" => Writes(s) = tx[s].held \cup {c.id, "bookings"}
               /\ c.op = "confirm" => Writes(s) = tx[s].held \cup {c.booking, "bookings"}
               /\ c.op = "join" => Writes(s) = tx[s].held \cup {c.id, "waitlist"}
               /\ c.op \notin {"create", "confirm", "join"} => Writes(s) = tx[s].held
    BY DEF Writes

\* What is added.
LEMMA AddsAre ==
    ASSUME NEW c \in Call
    PROVE  /\ c.op = "create" => Adds(c) = {c.id} /\ c.id \in BookingId
           /\ c.op = "join" => Adds(c) = {c.id} /\ c.id \in WaitlistId
           /\ c.op = "confirm" => Adds(c) = {c.booking} /\ c.booking \in BookingId
           /\ c.op \notin {"create", "join", "confirm"} => Adds(c) = {}
    BY DEF Adds, Call, Ids

\* A slot that is free in the snapshot is free if there are no new bookings.
LEMMA StillFree ==
    ASSUME NEW s, SinceOK(s), "bookings" \notin Dirty(s), NEW room, NEW slot,
           \A x \in DOMAIN tx[s].snapB : /\ tx[s].snapB[x].room = room
                                         /\ tx[s].snapB[x].status \in ActiveStatuses
                                         => ~Overlaps(tx[s].snapB[x].slot, slot)
    PROVE  ~Busy(room, slot)
    BY DEF SinceOK, Busy, Active

\* What a commit does to the bookings: some move forward that it has locked, or there is a
\* new one, which holds a slot that was free.
BookingsCommit(s) ==
    \/ /\ Releases /\ "bookings" \notin Writes(s)
       /\ \A b \in DOMAIN bookings :
            BookingForward(b) /\ (b \notin tx[s].held => bookings'[b] = bookings[b])
    \/ \E id \in Adds(tx[s].call), row \in BookingRow :
            /\ Books(id, row) /\ row.createdAt <= now
            /\ {id, "bookings"} \subseteq Writes(s)

\* Calls that are not about bookings leave them alone, others that make none change the
\* status of those that they have locked.
LEMMA StatusCommit ==
    ASSUME TypeOK, NEW s, NEW ids \in SUBSET DOMAIN bookings, "bookings" \notin Writes(s),
           ids \subseteq tx[s].held,
           bookings' \in [DOMAIN bookings -> BookingRow],
           \A b \in DOMAIN bookings \ ids : bookings'[b] = bookings[b],
           \A b \in ids : BookingForward(b)
    PROVE  BookingsCommit(s)
  <1>1. \A b \in DOMAIN bookings : BookingForward(b)
    BY DEF BookingForward
  <1>2. Releases
    BY <1>1 DEF Releases, BookingForward, ActiveStatuses
  <1> QED
    BY <1>1, <1>2 DEF BookingsCommit

\* Rejections are such changes.
LEMMA RejectCommit ==
    ASSUME TypeOK, NEW s, NEW ids \in SUBSET DOMAIN bookings, "bookings" \notin Writes(s),
           ids \subseteq tx[s].held, \A b \in ids : bookings[b].status = "pending_approval",
           NEW reason \in Reasons, bookings' = Rejected(ids, reason)
    PROVE  BookingsCommit(s)
  <1>1. \A b \in DOMAIN bookings : bookings[b] \in BookingRow
    BY DEF TypeOK
  <1>2. \A b \in DOMAIN bookings :
            [bookings[b] EXCEPT !.status = "rejected", !.reason = reason] \in BookingRow
    BY <1>1 DEF BookingRow, BookingStatus
  <1>3. \A b \in ids :
            bookings'[b] = [bookings[b] EXCEPT !.status = "rejected", !.reason = reason]
    BY DEF Rejected
  <1>4. \A b \in ids : BookingForward(b)
    BY <1>1, <1>3 DEF BookingForward, BookingRow
  <1>5. \A b \in DOMAIN bookings \ ids : bookings'[b] = bookings[b]
    BY DEF Rejected
  <1>6. bookings' \in [DOMAIN bookings -> BookingRow]
    BY <1>1, <1>2 DEF Rejected
  <1> QED
    BY <1>4, <1>5, <1>6, StatusCommit

\* CreateChecked and ConfirmAndBook add a booking of a slot that is free,
LEMMA BookCommit ==
    ASSUME TxInv, NEW s \in Sessions, Commit(s), tx[s].call.op \in {"create", "confirm"}
    PROVE  \E id \in Adds(tx[s].call), row \in BookingRow :
                /\ Books(id, row) /\ row.createdAt <= now
                /\ {id, "bookings"} \subseteq Writes(s)
  <1> DEFINE c == tx[s].call
             t == tx[s].time
  <1>1. /\ SessionOK(s) /\ Serializable(s) /\ ~Conflict(s) /\ Done(s)
        /\ c \in Call /\ t \in Nat /\ t <= now
        /\ Adds(c) \cap (DOMAIN bookings \cup DOMAIN waitlist) = {}
    BY AtCommit DEF RequestOK
  <1>2. "bookings" \notin Dirty(s)
    BY <1>1, WritesAre, NoNewRows DEF SessionOK, ReadsOK
  <1>3. CASE c.op = "create"
    <2> DEFINE row == [room |-> c.room, user |-> c.user, slot |-> c.slot, status |-> c.status,
                       createdAt |-> t, reason |-> NoReason]
    <2>1. bookings' = Put(bookings, c.id, row)
      BY <1>3 DEF Commit, NewBookings, At!NewBooking, NoReason, At!NoReason
    <2>2. row \in BookingRow /\ row.status \in ActiveStatuses
      BY <1>1, <1>3 DEF Call, BookingRow, BookingStatus, ActiveStatuses
    <2>3. ~Busy(c.room, c.slot)
      BY <1>1, <1>2, <1>3, StillFree DEF SessionOK, FoundOK
    <2>4. c.id \in Adds(c) /\ c.id \in BookingId /\ {c.id, "bookings"} \subseteq Writes(s)
      BY <1>1, <1>3, AddsAre, WritesAre
    <2>5. Books(c.id, row)
      BY <1>1, <2>1, <2>2, <2>3, <2>4 DEF Books
    <2> QED
      BY <1>1, <2>2, <2>4, <2>5
  <1>4. CASE c.op = "confirm"
    <2> DEFINE e == tx[s].snapW[c.id]
               row == [room |-> e.room, user |-> e.user, slot |-> e.slot, status |-> "confirmed",
                       createdAt |-> t, reason |-> NoReason]
    <2>1. c.id \in OwnRows(s)
      BY <1>1, <1>4 DEF OwnRows, Call, Ids
    <2>2. c.id \in DOMAIN waitlist /\ waitlist[c.id] = e /\ e \in WaitlistRow
      BY <1>1, <1>4, <2>1, AtCommit DEF SessionOK, FoundOK, SnapshotOK
    <2>3. bookings' = Put(bookings, c.booking, row)
      BY <1>4, <2>2 DEF Commit, NewBookings, At!NewBooking, NoReason, At!NoReason
    <2>4. row \in BookingRow /\ row.status \in ActiveStatuses
      BY <1>1, <2>2 DEF WaitlistRow, BookingRow, BookingStatus, ActiveStatuses
    <2>5. ~At(tx[s].snapB, tx[s].snapW, tx[s].time)!Busy(e.room, e.slot)
      BY <1>1, <1>4 DEF Conflict
    <2>6. ~Busy(e.room, e.slot)
      BY <1>1, <1>2, <2>5, StillFree
         DEF SessionOK, At!Busy, At!Active, At!ActiveStatuses, ActiveStatuses, At!Overlaps, Overlaps
    <2>7. c.booking \in Adds(c) /\ c.booking \in BookingId
          /\ {c.booking, "bookings"} \subseteq Writes(s)
      BY <1>1, <1>4, AddsAre, WritesAre
    <2>8. Books(c.booking, row)
      BY <1>1, <2>3, <2>4, <2>6, <2>7 DEF Books
    <2> QED
      BY <1>1, <2>4, <2>7, <2>8
  <1> QED
    BY <1>3, <1>4

\* cancel, approve and reject change the booking they name,
LEMMA AnswerCommit ==
    ASSUME TxInv, NEW s \in Sessions, Commit(s),
           tx[s].call.op \in {"cancel", "approve", "reject"}
    PROVE  BookingsCommit(s)
  <1> DEFINE c == tx[s].call
  <1>1. SessionOK(s) /\ c \in Call /\ TypeOK
    BY AtCommit DEF RequestOK, TxInv
  <1>2. c.id \in OwnRows(s) /\ c.id \in tx[s].held
    BY <1>1, AtCommit DEF OwnRows, Call, Ids
  <1>3. /\ c.id \in DOMAIN bookings
        /\ c.op = "cancel" => bookings[c.id].status \in ActiveStatuses
        /\ c.op \in {"approve", "reject"} => bookings[c.id].status = "pending_approval"
    BY <1>1, <1>2, AtCommit DEF SessionOK, FoundOK
  <1>4. "bookings" \notin Writes(s)
    <2>1. Writes(s) = tx[s].held
      BY <1>1, WritesAre
    <2>2. tx[s].held \subseteq Ids
      BY AtCommit DEF OwnRows, TxInv, TypeOK, Ids
    <2> QED
      BY <2>1, <2>2, IdsAssumption DEF Ids
  <1>5. bookings \in [DOMAIN bookings -> BookingRow] /\ bookings[c.id] \in BookingRow
    BY <1>1, <1>3 DEF TypeOK
  <1> DEFINE ids == {c.id}
  <1>6. ids \in SUBSET DOMAIN bookings /\ ids \subseteq tx[s].held
    BY <1>2, <1>3
  <1>7. CASE c.op \in {"cancel", "approve"}
    <2> DEFINE new == IF c.op = "cancel" THEN "cancelled" ELSE "approved"
    <2>1. bookings' = [bookings EXCEPT ![c.id].status = new]
      BY <1>7 DEF Commit, NewBookings, SetStatus
    <2>2. new \in BookingStatus
      BY DEF BookingStatus, ActiveStatuses
    <2>3. [bookings[c.id] EXCEPT !.status = new] \in BookingRow
      BY <1>5, <2>2 DEF BookingRow
    <2>4. bookings' \in [DOMAIN bookings -> BookingRow]
      BY <1>3, <1>5, <2>1, <2>3
    <2>5. bookings'[c.id] = [bookings[c.id] EXCEPT !.status = new]
      BY <1>3, <1>5, <2>1
    <2>6. BookingForward(c.id)
      BY <1>3, <1>5, <1>7, <2>5 DEF BookingForward, BookingRow
    <2>7. /\ \A b \in DOMAIN bookings \ ids : bookings'[b] = bookings[b]
          /\ \A b \in ids : BookingForward(b)
      BY <2>1, <2>6
    <2> HIDE DEF ids, new
    <2> QED
      BY <1>1, <1>4, <1>6, <2>4, <2>7, StatusCommit
  <1>8. CASE c.op = "reject"
    <2>1. bookings' = Rejected(ids, "admin")
      BY <1>8 DEF Commit, NewBookings
    <2>2. \A b \in ids : bookings[b].status = "pending_approval"
      BY <1>3, <1>8
    <2>3. "admin" \in Reasons
      BY DEF Reasons
    <2> HIDE DEF ids
    <2> QED
      BY <1>1, <1>4, <1>6, <2>1, <2>2, <2>3, RejectCommit
  <1> QED
    BY <1>7, <1>8

\* the sweep rejects those that it found overdue,
LEMMA SweepCommit ==
    ASSUME TxInv, NEW s \in Sessions, Commit(s), tx[s].call.op = "sweep"
    PROVE  /\ BookingsCommit(s)
           /\ bookings' = Rejected(OwnRows(s), "timeout")
           /\ OwnRows(s) \subseteq DOMAIN bookings
           /\ \A b \in OwnRows(s) : bookings[b].status = "pending_approval"
  <1> DEFINE ids == OwnRows(s)
  <1>1. SessionOK(s) /\ TypeOK /\ tx[s].call \in Call
    BY AtCommit DEF RequestOK, TxInv
  <1>2. \A x \in ids : x \in DOMAIN tx[s].snapB /\ tx[s].snapB[x].status = "pending_approval"
    BY DEF OwnRows
  <1>3. ids \in SUBSET DOMAIN bookings /\ \A b \in ids : bookings[b].status = "pending_approval"
    BY <1>2, AtCommit
  <1>4. ids \subseteq tx[s].held
    BY AtCommit
  <1>5. tx[s].held \cap BookingId = ids
    <2>1. ids \subseteq BookingId
      BY <1>1, <1>3 DEF TypeOK
    <2>2. tx[s].heads \subseteq WaitlistId
      BY <1>1, AtCommit DEF TypeOK
    <2>3. tx[s].held = ids \cup tx[s].heads
      BY AtCommit
    <2> HIDE DEF ids
    <2> QED
      BY <2>1, <2>2, <2>3, IdsAssumption
  <1>6. bookings' = Rejected(ids, "timeout")
    <2>1. bookings' = Rejected(tx[s].held \cap BookingId, "timeout")
      BY DEF Commit, NewBookings
    <2> HIDE DEF ids
    <2> QED
      BY <1>5, <2>1
  <1>7. "bookings" \notin Writes(s)
    <2>1. Writes(s) = tx[s].held
      BY <1>1, WritesAre
    <2>2. tx[s].held \subseteq Ids
      BY AtCommit DEF OwnRows, TxInv, TypeOK, Ids
    <2> QED
      BY <2>1, <2>2, IdsAssumption DEF Ids
  <1>8. "timeout" \in Reasons
    BY DEF Reasons
  <1> HIDE DEF ids
  <1>9. BookingsCommit(s)
    BY <1>1, <1>3, <1>4, <1>6, <1>7, <1>8, RejectCommit
  <1> QED
    BY <1>3, <1>6, <1>9 DEF ids

\* and the calls about the waitlist change none.
LEMMA CommitBookings ==
    ASSUME TxInv, NEW s \in Sessions, Commit(s)
    PROVE  BookingsCommit(s)
  <1> DEFINE c == tx[s].call
  <1>1. SessionOK(s) /\ c \in Call /\ TypeOK
    BY AtCommit DEF RequestOK, TxInv
  <1>2. CASE c.op \in {"join", "expire", "leave"}
    <2>1. bookings' = bookings
      BY <1>2 DEF Commit, NewBookings
    <2>2. tx[s].held \subseteq Ids
      BY AtCommit DEF OwnRows, TxInv, TypeOK, Ids
    <2>3. "bookings" \notin Writes(s)
      BY <1>1, <1>2, <2>2, WritesAre, IdsAssumption DEF Ids, Call
    <2>4. bookings' \in [DOMAIN bookings -> BookingRow]
      BY <1>1, <2>1 DEF TypeOK
    <2> DEFINE none == {}
    <2>5. \A b \in DOMAIN bookings \ none : bookings'[b] = bookings[b]
      BY <2>1
    <2>6. \A b \in none : BookingForward(b)
      OBVIOUS
    <2>7. none \in SUBSET DOMAIN bookings /\ none \subseteq tx[s].held
      OBVIOUS
    <2> HIDE DEF none
    <2> QED
      BY <1>1, <2>3, <2>4, <2>5, <2>6, <2>7, StatusCommit
  <1>3. CASE c.op \in {"create", "confirm"}
    BY <1>3, BookCommit DEF BookingsCommit
  <1>4. CASE c.op \in {"cancel", "approve", "reject"}
    BY <1>4, AnswerCommit
  <1>5. CASE c.op = "sweep"
    BY <1>5, SweepCommit
  <1> QED
    BY <1>1, <1>2, <1>3, <1>4, <1>5 DEF Call

\* The offers of a transaction, with the time of its call.
LEMMA AtOffer ==
    ASSUME NEW b, NEW w, NEW n \in Nat, NEW table, table \in [DOMAIN table -> WaitlistRow], NEW E
    PROVE  LET new == At(b, w, n)!Offer(table, E)
           IN  /\ new \in [DOMAIN table -> WaitlistRow]
               /\ \A e \in DOMAIN table \ E : new[e] = table[e]
               /\ \A e \in DOMAIN table \cap E :
                    /\ new[e].room = table[e].room /\ new[e].slot = table[e].slot
                    /\ new[e].position = table[e].position /\ new[e].status = "offered"
  <1>1. \A e \in DOMAIN table :
            [table[e] EXCEPT !.status = "offered", !.offeredAt = n] \in WaitlistRow
    BY DEF WaitlistRow, WaitlistStatus, QueuedStatuses
  <1> QED
    BY <1>1 DEF At!Offer, WaitlistRow

\* The entries that hold an offer afterwards held one before, or are those it is made to.
OffersTo(s) ==
    /\ \A e \in DOMAIN waitlist' :
        waitlist'[e].status = "offered" => waitlist[e].status = "offered" \/ e \in tx[s].heads
    /\ \A h \in tx[s].heads : h \in DOMAIN waitlist' /\ waitlist'[h].status = "offered"

\* What a commit does to the waitlist: entries that it has locked move forward or leave, or
\* there is a new one, at the end of its queue.
WaitlistCommit(s) ==
    \/ /\ Serves /\ OffersTo(s) /\ "waitlist" \notin Writes(s)
       /\ \A e \in DOMAIN waitlist \ tx[s].held :
            e \in DOMAIN waitlist' /\ waitlist'[e] = waitlist[e]
       /\ \A e \in DOMAIN waitlist' : EntryForward(e)
    \/ \E id \in Adds(tx[s].call), row \in WaitlistRow :
            /\ Enqueues(id, row) /\ row.position <= MaxPosition
            /\ row.room = tx[s].call.room /\ row.slot = tx[s].call.slot
            /\ tx[s].call.op = "join"
            /\ {id, "waitlist"} \subseteq Writes(s)

\* Changes of rows that are locked, followed by offers to rows that are locked.
LEMMA ServeCommit ==
    ASSUME TxInv, NEW s \in Sessions, Commit(s), tx[s].call.op # "join",
           NEW table, table \in [DOMAIN table -> WaitlistRow],
           DOMAIN table \subseteq DOMAIN waitlist,
           \A e \in DOMAIN waitlist \ OwnRows(s) : e \in DOMAIN table /\ table[e] = waitlist[e],
           \A e \in DOMAIN table :
            \/ table[e] = waitlist[e]
            \/ /\ table[e].room = waitlist[e].room /\ table[e].slot = waitlist[e].slot
               /\ table[e].position = waitlist[e].position
               /\ table[e].offeredAt = waitlist[e].offeredAt
               /\ waitlist[e].status = "offered"
               /\ table[e].status \in {"converted", "expired"},
           waitlist' = At(tx[s].snapB, tx[s].snapW, tx[s].time)!Offer(table, tx[s].heads)
    PROVE  WaitlistCommit(s)
  <1> DEFINE heads == tx[s].heads
  <1>1. /\ tx[s].call \in Call /\ tx[s].time \in Nat /\ TypeOK
        /\ tx[s].held = OwnRows(s) \cup heads
        /\ \A h \in heads : /\ h \in DOMAIN waitlist /\ waitlist[h].status = "waiting"
                            /\ h \notin OwnRows(s)
    BY AtCommit DEF RequestOK, TxInv
  <1>2. /\ waitlist' \in [DOMAIN table -> WaitlistRow]
        /\ \A e \in DOMAIN table \ heads : waitlist'[e] = table[e]
        /\ \A e \in DOMAIN table \cap heads :
            /\ waitlist'[e].room = table[e].room /\ waitlist'[e].slot = table[e].slot
            /\ waitlist'[e].position = table[e].position /\ waitlist'[e].status = "offered"
    BY <1>1, AtOffer
  <1>3. \A h \in heads : h \in DOMAIN table /\ table[h] = waitlist[h]
    BY <1>1
  <1>4. Serves
    <2>1. ASSUME NEW e \in DOMAIN waitlist'
          PROVE  /\ e \in DOMAIN table
                 /\ waitlist'[e].room = waitlist[e].room
                 /\ waitlist'[e].slot = waitlist[e].slot
                 /\ waitlist'[e].position = waitlist[e].position
                 /\ waitlist'[e].status \in QueuedStatuses => waitlist[e].status \in QueuedStatuses
                 /\ waitlist'[e].status = "waiting" => waitlist[e].status = "waiting"
      <3>1. CASE e \in heads
        BY <1>1, <1>2, <1>3, <3>1 DEF QueuedStatuses
      <3>2. CASE e \notin heads
        BY <1>2, <3>2 DEF QueuedStatuses
      <3> QED
        BY <3>1, <3>2
    <2> QED
      BY <1>2, <2>1 DEF Serves
  <1>5. \A e \in DOMAIN waitlist' : EntryForward(e)
    <2> SUFFICES ASSUME NEW e \in DOMAIN waitlist'
                 PROVE  EntryForward(e)
      OBVIOUS
    <2>1. CASE e \in heads
      BY <1>1, <1>2, <1>3, <2>1 DEF EntryForward
    <2>2. CASE e \notin heads
      BY <1>2, <2>2 DEF EntryForward
    <2> QED
      BY <2>1, <2>2
  <1>6. \A e \in DOMAIN waitlist \ tx[s].held :
            e \in DOMAIN waitlist' /\ waitlist'[e] = waitlist[e]
    BY <1>1, <1>2
  <1>7. "waitlist" \notin Writes(s)
    <2>1. tx[s].held \subseteq Ids
      BY AtCommit DEF OwnRows, TxInv, TypeOK, Ids
    <2> QED
      BY <1>1, <2>1, WritesAre, IdsAssumption DEF Ids, Call
  <1>8. OffersTo(s)
    <2>1. ASSUME NEW e \in DOMAIN waitlist', waitlist'[e].status = "offered", e \notin heads
          PROVE  waitlist[e].status = "offered"
      BY <1>2, <2>1
    <2>2. \A h \in heads : h \in DOMAIN waitlist' /\ waitlist'[h].status = "offered"
      BY <1>2, <1>3
    <2> QED
      BY <2>1, <2>2 DEF OffersTo
  <1> QED
    BY <1>4, <1>5, <1>6, <1>7, <1>8 DEF WaitlistCommit

\* A set of naturals that is not empty has a smallest member.
LEMMA Smallest ==
    ASSUME NEW S \in SUBSET Nat, S # {}
    PROVE  \E m \in S : \A n \in S : m <= n
  <1> DEFINE R == {ss \in Nat \X Nat : ss[1] < ss[2]}
  <1>1. IsWellFoundedOn(R, Nat)
    BY NatLessThanWellFounded DEF OpToRel
  <1>2. PICK m \in S : \A n \in S : ~(<<n, m>> \in R)
    BY <1>1, WFMin
  <1>3. ASSUME NEW n \in S
        PROVE  m <= n
    <2>1. <<n, m>> \in Nat \X Nat /\ <<n, m>>[1] = n /\ <<n, m>>[2] = m
      OBVIOUS
    <2>2. <<n, m>>[1] < <<n, m>>[2] => <<n, m>> \in R
      BY <2>1
    <2> QED
      BY <1>2, <2>1, <2>2
  <1> QED
    BY <1>3

\* As the positions of a snapshot are bounded, there is one behind them all.
LEMMA SomeNextPosition ==
    ASSUME NEW s, SnapshotOK(s), NEW room
    PROVE  /\ At(tx[s].snapB, tx[s].snapW, tx[s].time)!NextPosition(room) # {}
           /\ \A p \in At(tx[s].snapB, tx[s].snapW, tx[s].time)!NextPosition(room) :
                /\ p \in Nat \ {0}
                /\ \A e \in DOMAIN tx[s].snapW :
                    /\ tx[s].snapW[e].room = room /\ tx[s].snapW[e].status \in QueuedStatuses
                    => tx[s].snapW[e].position < p
  <1> DEFINE w == tx[s].snapW
             Q == {e \in DOMAIN w : w[e].room = room /\ w[e].status \in QueuedStatuses}
             used == {w[e].position : e \in Q}
             P == {p \in {1} \cup {q + 1 : q \in used} : \A q \in used : q < p}
             bounds == {n \in Nat : \A q \in used : q <= n}
  <1>1. At(tx[s].snapB, tx[s].snapW, tx[s].time)!NextPosition(room) = P
    BY DEF At!NextPosition, At!Queued, At!QueuedStatuses, QueuedStatuses
  <1>2. used \subseteq Nat \ {0} /\ \A q \in used : q <= MaxPosition
    BY DEF SnapshotOK, WaitlistRow
  <1>3. \A e \in Q : w[e].position \in used
    OBVIOUS
  <1> HIDE DEF used
  <1>4. PICK m \in bounds : \A n \in bounds : m <= n
    <2>1. MaxPosition \in bounds
      BY <1>2, BoundsAssumption
    <2> QED
      BY <2>1, Smallest
  <1>5. P # {}
    <2>1. CASE m \in used
      <3>1. m + 1 \in P
        BY <1>2, <2>1
      <3> QED
        BY <3>1
    <2>2. CASE m \notin used
      <3>1. m = 0
        <4> SUFFICES ASSUME m # 0
                     PROVE  FALSE
          OBVIOUS
        <4>1. m - 1 \in Nat /\ \A q \in used : q <= m - 1
          BY <1>2, <2>2
        <4> QED
          BY <1>4, <4>1
      <3>2. 1 \in P
        BY <1>2, <3>1
      <3> QED
        BY <3>2
    <2> QED
      BY <2>1, <2>2
  <1>6. ASSUME NEW p \in P
        PROVE  p \in Nat \ {0} /\ \A e \in Q : w[e].position < p
    <2>1. p = 1 \/ \E q \in used : p = q + 1
      OBVIOUS
    <2>2. \A q \in used : q < p
      OBVIOUS
    <2> HIDE DEF P, Q
    <2>3. p \in Nat \ {0}
      BY <1>2, <2>1
    <2> QED
      BY <1>3, <2>2, <2>3
  <1> HIDE DEF P
  <1> QED
    BY <1>1, <1>5, <1>6

\* Waitlist.Create adds an entry behind all that stand in the queue now.
LEMMA JoinCommit ==
    ASSUME TxInv, NEW s \in Sessions, Commit(s), tx[s].call.op = "join"
    PROVE  \E id \in Adds(tx[s].call), row \in WaitlistRow :
            /\ Enqueues(id, row) /\ row.position <= MaxPosition
            /\ row.room = tx[s].call.room /\ row.slot = tx[s].call.slot
            /\ tx[s].call.op = "join"
            /\ {id, "waitlist"} \subseteq Writes(s)
  <1> DEFINE c == tx[s].call
             P == At(tx[s].snapB, tx[s].snapW, tx[s].time)!NextPosition(c.room)
             p == CHOOSE q \in P : TRUE
             row == [room |-> c.room, user |-> c.user, slot |-> c.slot, status |-> "waiting",
                     position |-> p, offeredAt |-> Never]
             table == Put(waitlist, c.id, row)
  <1>1. /\ SessionOK(s) /\ Serializable(s) /\ c \in Call /\ TypeOK /\ tx[s].time \in Nat
        /\ Adds(c) \cap (DOMAIN bookings \cup DOMAIN waitlist) = {}
    BY AtCommit DEF RequestOK, TxInv
  <1>2. "waitlist" \notin Dirty(s)
    BY <1>1, WritesAre, NoNewRows DEF SessionOK, ReadsOK
  <1>3. \A e \in DOMAIN waitlist : Same(s, e)
    BY <1>1, <1>2 DEF SessionOK, SinceOK
  <1>4. P # {} /\ SnapshotOK(s)
    BY <1>1, SomeNextPosition DEF SessionOK
  <1> HIDE DEF P
  <1>5. p \in P
    BY <1>4
  <1>6. /\ p \in Nat \ {0}
        /\ \A e \in DOMAIN tx[s].snapW :
            tx[s].snapW[e].room = c.room /\ tx[s].snapW[e].status \in QueuedStatuses
            => tx[s].snapW[e].position < p
    BY <1>4, <1>5, SomeNextPosition DEF P
  <1>7. p <= MaxPosition
    BY <1>1, <1>5 DEF SessionOK, FoundOK, P
  <1>8. waitlist' = table
    <2>1. tx[s].heads = {}
      BY AtCommit DEF FreesRows
    <2>2. NewWaitlist(s) = table
      BY DEF NewWaitlist, P
    <2>3. waitlist' = At(tx[s].snapB, tx[s].snapW, tx[s].time)!Offer(table, {})
      BY <2>1, <2>2 DEF Commit
    <2> QED
      BY <2>3 DEF At!Offer, Put
  <1> HIDE DEF p
  <1>9. row \in WaitlistRow
    BY <1>1, <1>6 DEF Call, WaitlistRow, WaitlistStatus, QueuedStatuses
  <1>10. c.id \in Adds(c) /\ c.id \in WaitlistId /\ {c.id, "waitlist"} \subseteq Writes(s)
    BY <1>1, AddsAre, WritesAre
  <1>11. \A f \in Queued(c.room) : waitlist[f].position < p
    BY <1>3, <1>6 DEF Queued, Same
  <1>12. Enqueues(c.id, row)
    BY <1>1, <1>8, <1>9, <1>10, <1>11 DEF Enqueues
  <1> QED
    BY <1>7, <1>9, <1>10, <1>12

\* The other calls change the entries that they have locked.
LEMMA CommitWaitlist ==
    ASSUME TxInv, NEW s \in Sessions, Commit(s)
    PROVE  WaitlistCommit(s)
  <1> DEFINE c == tx[s].call
             Offers(table) == At(tx[s].snapB, tx[s].snapW, tx[s].time)!Offer(table, tx[s].heads)
  <1>1. SessionOK(s) /\ c \in Call /\ TypeOK
    BY AtCommit DEF RequestOK, TxInv
  <1>2. waitlist \in [DOMAIN waitlist -> WaitlistRow]
    BY <1>1 DEF TypeOK
  <1>3. waitlist' = Offers(NewWaitlist(s))
    BY DEF Commit
  <1> HIDE DEF Offers
  <1>4. CASE c.op = "join"
    BY <1>4, JoinCommit DEF WaitlistCommit
  <1>5. CASE c.op \in {"create", "cancel", "approve", "reject", "sweep"}
    <2>1. NewWaitlist(s) = waitlist
      BY <1>5 DEF NewWaitlist
    <2> QED
      BY <1>2, <1>3, <1>5, <2>1, ServeCommit DEF Offers
  <1>6. CASE c.op \in {"confirm", "expire"}
    <2> DEFINE new == IF c.op = "confirm" THEN "converted" ELSE "expired"
               table == [waitlist EXCEPT ![c.id].status = new]
    <2>1. c.id \in OwnRows(s)
      BY <1>1, <1>6 DEF OwnRows, Call, Ids
    <2>2. c.id \in DOMAIN waitlist /\ waitlist[c.id].status = "offered"
      BY <1>1, <1>6, <2>1, AtCommit DEF SessionOK, FoundOK
    <2>3. NewWaitlist(s) = table
      BY <1>6 DEF NewWaitlist, SetStatus
    <2>4. waitlist[c.id] \in WaitlistRow
      BY <1>2, <2>2
    <2>5. [waitlist[c.id] EXCEPT !.status = new] \in WaitlistRow
      BY <2>4 DEF WaitlistRow, WaitlistStatus
    <2>6. DOMAIN table = DOMAIN waitlist /\ table[c.id] = [waitlist[c.id] EXCEPT !.status = new]
          /\ \A e \in DOMAIN waitlist \ {c.id} : table[e] = waitlist[e]
      BY <1>2, <2>2
    <2>7. table \in [DOMAIN table -> WaitlistRow]
      BY <1>2, <2>5, <2>6
    <2>8. /\ table[c.id].room = waitlist[c.id].room /\ table[c.id].slot = waitlist[c.id].slot
          /\ table[c.id].position = waitlist[c.id].position
          /\ table[c.id].offeredAt = waitlist[c.id].offeredAt
          /\ table[c.id].status \in {"converted", "expired"}
      BY <2>4, <2>6 DEF WaitlistRow
    <2> HIDE DEF table, new
    <2>9. /\ waitlist' = Offers(table) /\ c.op # "join" /\ DOMAIN table \subseteq DOMAIN waitlist
          /\ \A e \in DOMAIN waitlist \ OwnRows(s) : e \in DOMAIN table /\ table[e] = waitlist[e]
          /\ \A e \in DOMAIN table :
                \/ table[e] = waitlist[e]
                \/ /\ table[e].room = waitlist[e].room /\ table[e].slot = waitlist[e].slot
                   /\ table[e].position = waitlist[e].position
                   /\ table[e].offeredAt = waitlist[e].offeredAt
                   /\ waitlist[e].status = "offered"
                   /\ table[e].status \in {"converted", "expired"}
      BY <1>3, <1>6, <2>1, <2>2, <2>3, <2>6, <2>8
    <2> QED
      BY <2>7, <2>9, ServeCommit DEF Offers
  <1>7. CASE c.op = "leave"
    <2>1. c.id \in OwnRows(s)
      BY <1>1, <1>7 DEF OwnRows, Call, Ids
    <2> DEFINE table == Remove(waitlist, c.id)
    <2>2. NewWaitlist(s) = table
      BY <1>7 DEF NewWaitlist
    <2>3. /\ table \in [DOMAIN table -> WaitlistRow] /\ DOMAIN table = DOMAIN waitlist \ {c.id}
          /\ \A e \in DOMAIN table : table[e] = waitlist[e]
      BY <1>2 DEF Remove
    <2> HIDE DEF table
    <2> QED
      BY <1>3, <1>7, <2>1, <2>2, <2>3, ServeCommit DEF Offers
  <1> QED
    BY <1>1, <1>4, <1>5, <1>6, <1>7 DEF Call

-------------------------------------------------------------------------------
(* What a commit does. *)

\* Bookings move forward, those that are not written stay as they are, and there are no
\* new ones unless it says so.
LEMMA BookingsAfter ==
    ASSUME TxInv, NEW s \in Sessions, Commit(s)
    PROVE  /\ BookingsChange
           /\ \A b \in DOMAIN bookings :
                /\ b \in DOMAIN bookings' /\ BookingForward(b)
                /\ b \notin Writes(s) => bookings'[b] = bookings[b]
           /\ DOMAIN bookings' \subseteq DOMAIN bookings \cup Adds(tx[s].call)
           /\ "bookings" \notin Writes(s) => DOMAIN bookings' = DOMAIN bookings
           /\ IsFiniteSet(DOMAIN bookings')
           /\ \A b \in DOMAIN bookings' : bookings'[b].createdAt <= now
  <1>1. tx[s].call \in Call /\ tx[s].held \subseteq Writes(s) /\ IsFiniteSet(DOMAIN bookings)
        /\ \A b \in DOMAIN bookings : bookings[b].createdAt <= now
    BY AtCommit DEF RequestOK, Writes, TxInv, FiniteTables, Bounded
  <1>2. CASE /\ Releases /\ "bookings" \notin Writes(s)
             /\ \A b \in DOMAIN bookings :
                  BookingForward(b) /\ (b \notin tx[s].held => bookings'[b] = bookings[b])
    BY <1>1, <1>2 DEF BookingsChange, Releases, BookingForward
  <1>3. ASSUME NEW id \in Adds(tx[s].call), NEW row \in BookingRow, Books(id, row),
               row.createdAt <= now, {id, "bookings"} \subseteq Writes(s)
        PROVE  /\ BookingsChange
               /\ \A b \in DOMAIN bookings :
                    /\ b \in DOMAIN bookings' /\ BookingForward(b)
                    /\ bookings'[b] = bookings[b]
               /\ DOMAIN bookings' \subseteq DOMAIN bookings \cup Adds(tx[s].call)
               /\ "bookings" \in Writes(s)
               /\ IsFiniteSet(DOMAIN bookings')
               /\ \A b \in DOMAIN bookings' : bookings'[b].createdAt <= now
    <2>1. /\ DOMAIN bookings' = DOMAIN bookings \cup {id} /\ bookings'[id] = row
          /\ \A b \in DOMAIN bookings : bookings'[b] = bookings[b]
      BY <1>3 DEF Books, Put
    <2>2. IsFiniteSet(DOMAIN bookings \cup {id})
      BY <1>1, FS_AddElement
    <2>3. BookingsChange
      BY <1>3 DEF BookingsChange, Books
    <2> QED
      BY <1>1, <1>3, <2>1, <2>2, <2>3 DEF BookingForward
  <1> QED
    BY <1>2, <1>3, CommitBookings DEF BookingsCommit

\* The same of entries, which may also leave.
LEMMA WaitlistAfter ==
    ASSUME TxInv, NEW s \in Sessions, Commit(s)
    PROVE  /\ QueuesChange
           /\ \A e \in DOMAIN waitlist \ Writes(s) :
                e \in DOMAIN waitlist' /\ waitlist'[e] = waitlist[e]
           /\ \A e \in DOMAIN waitlist \cap DOMAIN waitlist' :
                EntryForward(e) /\ waitlist'[e].room = waitlist[e].room
           /\ DOMAIN waitlist' \subseteq DOMAIN waitlist \cup Adds(tx[s].call)
           /\ "waitlist" \notin Writes(s) => DOMAIN waitlist' \subseteq DOMAIN waitlist
           /\ IsFiniteSet(DOMAIN waitlist')
           /\ \A e \in DOMAIN waitlist' : waitlist'[e].position <= MaxPosition
  <1>1. tx[s].call \in Call /\ tx[s].held \subseteq Writes(s) /\ IsFiniteSet(DOMAIN waitlist)
        /\ \A e \in DOMAIN waitlist : waitlist[e].position <= MaxPosition
    BY AtCommit DEF RequestOK, Writes, TxInv, FiniteTables, Bounded
  <1>2. CASE /\ Serves /\ OffersTo(s) /\ "waitlist" \notin Writes(s)
             /\ \A e \in DOMAIN waitlist \ tx[s].held :
                  e \in DOMAIN waitlist' /\ waitlist'[e] = waitlist[e]
             /\ \A e \in DOMAIN waitlist' : EntryForward(e)
    <2>1. IsFiniteSet(DOMAIN waitlist')
      BY <1>1, <1>2, FS_Subset DEF Serves
    <2> QED
      BY <1>1, <1>2, <2>1 DEF QueuesChange, Serves
  <1>3. ASSUME NEW id \in Adds(tx[s].call), NEW row \in WaitlistRow, Enqueues(id, row),
               row.position <= MaxPosition, {id, "waitlist"} \subseteq Writes(s)
        PROVE  /\ QueuesChange
               /\ \A e \in DOMAIN waitlist :
                    e \in DOMAIN waitlist' /\ waitlist'[e] = waitlist[e]
               /\ \A e \in DOMAIN waitlist \cap DOMAIN waitlist' :
                    EntryForward(e) /\ waitlist'[e].room = waitlist[e].room
               /\ DOMAIN waitlist' \subseteq DOMAIN waitlist \cup Adds(tx[s].call)
               /\ "waitlist" \in Writes(s)
               /\ IsFiniteSet(DOMAIN waitlist')
               /\ \A e \in DOMAIN waitlist' : waitlist'[e].position <= MaxPosition
    <2>1. /\ DOMAIN waitlist' = DOMAIN waitlist \cup {id} /\ waitlist'[id] = row
          /\ \A e \in DOMAIN waitlist : waitlist'[e] = waitlist[e]
      BY <1>3 DEF Enqueues, Put
    <2>2. IsFiniteSet(DOMAIN waitlist \cup {id})
      BY <1>1, FS_AddElement
    <2>3. QueuesChange
      BY <1>3 DEF QueuesChange, Enqueues
    <2>4. \A e \in DOMAIN waitlist : EntryForward(e)
      BY <2>1 DEF EntryForward
    <2> QED
      BY <1>1, <1>3, <2>1, <2>2, <2>3, <2>4
  <1> QED
    BY <1>2, <1>3, CommitWaitlist DEF WaitlistCommit

\* What others remember of the commit.
LEMMA RememberedWell ==
    ASSUME TxInv, NEW s \in Sessions, Commit(s)
    PROVE  /\ [reads |-> tx[s].reads, writes |-> Writes(s), behind |-> Behind(s)] \in Past
           /\ {"bookings", "waitlist"} \cap Writes(s) \subseteq tx[s].reads
           /\ tx[s].held \subseteq Ids
           /\ Writes(s) \ (tx[s].held \cup {"bookings", "waitlist"}) \subseteq Adds(tx[s].call)
  <1>1. SessionOK(s) /\ tx[s].call \in Call
    BY AtCommit DEF RequestOK
  <1>2. tx[s].held \subseteq Ids
    BY AtCommit DEF OwnRows, TxInv, TypeOK, Ids
  <1>3. {"bookings", "waitlist"} \cap tx[s].held = {}
    BY <1>2, IdsAssumption DEF Ids
  <1>4. /\ Writes(s) \subseteq Ids \cup {"bookings", "waitlist"}
        /\ {"bookings", "waitlist"} \cap Writes(s) \subseteq tx[s].reads
        /\ Writes(s) \ (tx[s].held \cup {"bookings", "waitlist"}) \subseteq Adds(tx[s].call)
    <2> DEFINE c == tx[s].call
    <2>1. CASE c.op \in {"create", "confirm", "join"}
      BY <1>1, <1>2, <1>3, <2>1, WritesAre, AddsAre, IdsAssumption DEF SessionOK, ReadsOK, Ids
    <2>2. CASE c.op \notin {"create", "confirm", "join"}
      BY <1>1, <1>2, <1>3, <2>2, WritesAre
    <2> QED
      BY <2>1, <2>2
  <1>5. Behind(s) \in BOOLEAN
    BY DEF Behind
  <1>6. tx[s].reads \subseteq Ids \cup {"bookings", "waitlist"}
    BY <1>1 DEF SessionOK, ReadsOK
  <1> QED
    BY <1>2, <1>4, <1>5, <1>6 DEF Past

\* The rows that a transaction has written are still there.
LEMMA HeldExist ==
    ASSUME NEW r, SessionOK(r), tx[r].call \in Call, tx[r].held \cap Dirty(r) = {}
    PROVE  tx[r].held \subseteq DOMAIN bookings \cup DOMAIN waitlist
  <1> SUFFICES ASSUME NEW x \in tx[r].held
               PROVE  x \in DOMAIN bookings \cup DOMAIN waitlist
    OBVIOUS
  <1> DEFINE c == tx[r].call
  <1>1. x \in tx[r].heads \/ x \in OwnRows(r)
    BY DEF SessionOK, ProgressOK
  <1>2. CASE x \in tx[r].heads
    BY <1>2 DEF SessionOK, ProgressOK, SinceOK
  <1>3. CASE x \in OwnRows(r)
    <2>1. CASE c.op \in {"cancel", "approve", "reject", "sweep"}
      BY <1>3, <2>1 DEF OwnRows, SessionOK, FoundOK, SinceOK
    <2>2. CASE c.op \in {"confirm", "expire", "leave"}
      BY <1>3, <2>2 DEF OwnRows, SessionOK, FoundOK, SinceOK
    <2>3. CASE c.op \in {"create", "join"}
      BY <1>3, <2>3 DEF OwnRows
    <2> QED
      BY <2>1, <2>2, <2>3 DEF Call
  <1> QED
    BY <1>1, <1>2, <1>3

\* A transaction that goes on while another commits has more rows written behind its back.
LEMMA CommitBehind ==
    ASSUME TxInv, NEW s \in Sessions, Commit(s), NEW r \in Sessions \ {s}, Open(r)
    PROVE  /\ Open(r)' /\ DOMAIN tx'[r] = OpenFields /\ SessionOK(r)
           /\ tx'[r].phase = "open" /\ tx'[r].call = tx[r].call /\ tx'[r].time = tx[r].time
           /\ tx'[r].result = tx[r].result
           /\ tx'[r].snapB = tx[r].snapB /\ tx'[r].snapW = tx[r].snapW
           /\ tx'[r].locks = tx[r].locks /\ tx'[r].frees = tx[r].frees
           /\ tx'[r].held = tx[r].held /\ tx'[r].heads = tx[r].heads
           /\ tx'[r].skipped = tx[r].skipped /\ tx'[r].reads = tx[r].reads
           /\ PastOK(r)'
           /\ Dirty(r)' = Dirty(r) \cup Writes(s)
           /\ DOMAIN tx'[r].since = DOMAIN tx[r].since \cup {Len(tx[r].since) + 1}
           /\ \A i \in DOMAIN tx[r].since :
                tx'[r].since[i] = tx[r].since[i] /\ i <= Len(tx[r].since)
           /\ Len(tx[r].since) \in Nat
           /\ tx'[r].since[Len(tx[r].since) + 1] =
                [reads |-> tx[s].reads, writes |-> Writes(s), behind |-> Behind(s)]
  <1> DEFINE this == [reads |-> tx[s].reads, writes |-> Writes(s), behind |-> Behind(s)]
             past == tx[r].since
  <1>1. /\ DOMAIN tx'[r] = OpenFields
        /\ \A f \in OpenFields \ {"since"} : tx'[r][f] = tx[r][f]
        /\ tx'[r].since = Append(past, this)
    BY CommitEffect DEF TxInv
  <1>2. SessionOK(r) /\ past \in Seq(Past) /\ tx[r].phase = "open"
    BY DEF TxInv, SessionOK, PastOK, Open
  <1>3. this \in Past /\ {"bookings", "waitlist"} \cap Writes(s) \subseteq tx[s].reads
    BY RememberedWell
  <1>4. /\ this.reads = tx[s].reads /\ this.writes = Writes(s)
    OBVIOUS
  <1> HIDE DEF this
  <1>5. /\ tx'[r].since \in Seq(Past)
        /\ DOMAIN tx'[r].since = DOMAIN past \cup {Len(past) + 1}
        /\ \A i \in DOMAIN past : tx'[r].since[i] = past[i] /\ i <= Len(past)
        /\ Len(past) \in Nat
        /\ tx'[r].since[Len(past) + 1] = this
    BY <1>1, <1>2, <1>3
  <1>6. PastOK(r)'
    BY <1>2, <1>3, <1>4, <1>5 DEF PastOK, SessionOK
  <1>7. Dirty(r)' = Dirty(r) \cup Writes(s)
    <2>1. Dirty(r)' = UNION {tx'[r].since[i].writes : i \in DOMAIN tx'[r].since}
      BY DEF Dirty
    <2> QED
      BY <1>4, <1>5, <2>1 DEF Dirty
  <1>8. /\ tx'[r].phase = "open" /\ tx'[r].call = tx[r].call /\ tx'[r].time = tx[r].time
        /\ tx'[r].result = tx[r].result
        /\ tx'[r].snapB = tx[r].snapB /\ tx'[r].snapW = tx[r].snapW
        /\ tx'[r].locks = tx[r].locks /\ tx'[r].frees = tx[r].frees
        /\ tx'[r].held = tx[r].held /\ tx'[r].heads = tx[r].heads
        /\ tx'[r].skipped = tx[r].skipped /\ tx'[r].reads = tx[r].reads
    BY <1>1, <1>2 DEF OpenFields
  <1> QED
    BY <1>1, <1>2, <1>5, <1>6, <1>7, <1>8 DEF Open, this

\* Its snapshot still tells what it told of the rows that are left.
LEMMA CommitSince ==
    ASSUME TxInv, NEW s \in Sessions, Commit(s), NEW r \in Sessions \ {s}, Open(r)
    PROVE  SinceOK(r)'
  <1>1. /\ tx'[r].snapB = tx[r].snapB /\ tx'[r].snapW = tx[r].snapW
        /\ Dirty(r)' = Dirty(r) \cup Writes(s) /\ SinceOK(r)
    BY CommitBehind DEF SessionOK
  <1>2. ASSUME NEW b \in DOMAIN tx[r].snapB
        PROVE  /\ b \in DOMAIN bookings'
               /\ bookings'[b].room = tx[r].snapB[b].room
               /\ bookings'[b].slot = tx[r].snapB[b].slot
               /\ bookings'[b].createdAt = tx[r].snapB[b].createdAt
               /\ Active(b)' => tx[r].snapB[b].status \in ActiveStatuses
               /\ b \notin Dirty(r)' => bookings'[b] = tx[r].snapB[b]
    <2>1. /\ b \in DOMAIN bookings' /\ BookingForward(b) /\ b \in DOMAIN bookings
          /\ b \notin Writes(s) => bookings'[b] = bookings[b]
      BY <1>1, BookingsAfter DEF SinceOK
    <2>2. Active(b)' => Active(b)
      BY <2>1 DEF BookingForward, Active, ActiveStatuses
    <2> QED
      BY <1>1, <2>1, <2>2 DEF SinceOK, BookingForward
  <1>3. "bookings" \notin Dirty(r)' => DOMAIN bookings' \subseteq DOMAIN tx[r].snapB
    BY <1>1, BookingsAfter DEF SinceOK
  <1>4. ASSUME NEW e \in DOMAIN tx[r].snapW \ Dirty(r)'
        PROVE  e \in DOMAIN waitlist' /\ waitlist'[e] = tx[r].snapW[e]
    BY <1>1, WaitlistAfter DEF SinceOK
  <1>5. ASSUME "waitlist" \notin Dirty(r)', NEW e \in DOMAIN waitlist'
        PROVE  Same(r, e)'
    <2>1. e \in DOMAIN waitlist /\ Same(r, e)
      BY <1>1, <1>5, WaitlistAfter DEF SinceOK
    <2>2. EntryForward(e) /\ waitlist'[e].room = waitlist[e].room
      BY <2>1, WaitlistAfter
    <2> QED
      BY <1>1, <2>1, <2>2 DEF Same, EntryForward, QueuedStatuses
  <1> QED
    BY <1>1, <1>2, <1>3, <1>4, <1>5 DEF SinceOK

\* A commit keeps all in order.
LEMMA CommitInv ==
    ASSUME TxInv, NEW s \in Sessions, Commit(s)
    PROVE  TxInv'
  <1>1. (TypeOK /\ FiniteTables /\ Bounded /\ NoDoubleBooking /\ PositionsDistinct)'
    <2>1. now' = now
      BY DEF Commit
    <2>2. BookingsChange /\ QueuesChange
      BY BookingsAfter, WaitlistAfter
    <2>3. TypeOK'
      BY <2>1, <2>2, StaysWellFormed DEF TxInv, TypeOK
    <2>4. NoDoubleBooking' /\ PositionsDistinct'
      BY <2>2, StaysSingle, StaysOrdered DEF TxInv
    <2>5. FiniteTables' /\ Bounded'
      BY <2>1, BookingsAfter, WaitlistAfter DEF FiniteTables, Bounded
    <2> QED
      BY <2>3, <2>4, <2>5
  <1>2. DOMAIN tx' = Sessions /\ tx'[s] = Idle
        /\ \A r \in Sessions \ {s} : ~Open(r) => tx'[r] = tx[r]
    BY CommitEffect DEF TxInv
  <1>3. TxShape'
    <2>1. ASSUME NEW r \in Sessions
          PROVE  \/ tx'[r] = Idle
                 \/ tx'[r].phase = "retry" /\ DOMAIN tx'[r] = RetryFields
                 \/ Open(r)' /\ DOMAIN tx'[r] = OpenFields
      <3>1. CASE r = s
        BY <1>2, <3>1
      <3>2. CASE r # s /\ Open(r)
        BY <3>2, CommitBehind
      <3>3. CASE r # s /\ ~Open(r)
        BY <1>2, <3>3 DEF TxInv, TxShape
      <3> QED
        BY <3>1, <3>2, <3>3
    <2> QED
      BY <1>2, <2>1 DEF TxShape
  <1>4. ASSUME NEW r \in Sessions, tx'[r] # Idle
        PROVE  r # s /\ tx[r] # Idle /\ tx'[r].call = tx[r].call /\ tx'[r].time = tx[r].time
    <2>1. r # s
      BY <1>2, <1>4
    <2>2. CASE Open(r)
      <3>1. tx[r] # Idle
        BY <2>2 DEF Open, Idle
      <3> QED
        BY <2>1, <2>2, <3>1, CommitBehind
    <2>3. CASE ~Open(r)
      BY <1>2, <1>4, <2>1, <2>3
    <2> QED
      BY <2>1, <2>2, <2>3
  <1>5. RequestsOK'
    <2>1. now' = now
      BY DEF Commit
    <2>2. ASSUME NEW r \in Sessions, tx'[r] # Idle
          PROVE  Adds(tx'[r].call) \cap (DOMAIN bookings' \cup DOMAIN waitlist') = {}
      <3>1. tx[s] # Idle /\ r # s /\ tx[r] # Idle /\ tx'[r].call = tx[r].call
        BY <1>4, <2>2, AtCommit DEF Open, Idle
      <3>2. Adds(tx[r].call) \cap (DOMAIN bookings \cup DOMAIN waitlist) = {}
            /\ Adds(tx[r].call) \cap Adds(tx[s].call) = {}
        BY <3>1 DEF TxInv, RequestsOK
      <3> QED
        BY <3>1, <3>2, BookingsAfter, WaitlistAfter
    <2>3. ASSUME NEW r \in Sessions, tx'[r] # Idle, NEW q \in Sessions \ {r}, tx'[q] # Idle
          PROVE  Adds(tx'[r].call) \cap Adds(tx'[q].call) = {}
      BY <1>4, <2>3 DEF TxInv, RequestsOK
    <2> QED
      BY <1>4, <2>1, <2>2, <2>3 DEF TxInv, RequestsOK
  <1>6. ASSUME NEW r \in Sessions, Open(r)'
        PROVE  Open(r) /\ r # s
    BY <1>2, <1>6 DEF Open, Idle
  <1>7. HeldOK'
    <2>1. ASSUME NEW r \in Sessions, Open(r)'
          PROVE  tx'[r].held \cap Dirty(r)' = {}
      <3>1. Open(r) /\ r # s /\ Open(s) /\ tx[r] # Idle /\ tx[s] # Idle
        BY <1>6, <2>1, AtCommit DEF Open, Idle
      <3>2. tx'[r].held = tx[r].held /\ Dirty(r)' = Dirty(r) \cup Writes(s)
        BY <3>1, CommitBehind
      <3>3. tx[r].held \cap Dirty(r) = {} /\ tx[r].held \cap tx[s].held = {}
        BY <3>1 DEF TxInv, HeldOK
      <3>4. tx[r].held \subseteq DOMAIN bookings \cup DOMAIN waitlist
        BY <3>1, <3>3, HeldExist DEF TxInv, RequestsOK
      <3>5. tx[r].held \cap {"bookings", "waitlist"} = {}
        BY <3>4, IdsAssumption DEF TxInv, TypeOK
      <3>6. tx[r].held \cap Adds(tx[s].call) = {}
        BY <3>1, <3>4 DEF TxInv, RequestsOK
      <3> QED
        BY <3>2, <3>3, <3>5, <3>6, RememberedWell
    <2>2. ASSUME NEW r \in Sessions, Open(r)', NEW q \in Sessions \ {r}, Open(q)'
          PROVE  tx'[r].held \cap tx'[q].held = {}
      <3>1. Open(r) /\ r # s /\ Open(q) /\ q # s
        BY <1>6, <2>2
      <3>2. \A t \in Sessions \ {s} : Open(t) => tx'[t].held = tx[t].held
        BY CommitBehind
      <3> QED
        BY <3>1, <3>2 DEF TxInv, HeldOK
    <2> QED
      BY <2>1, <2>2 DEF HeldOK
  <1>8. ASSUME NEW r \in Sessions, Open(r)'
        PROVE  SessionOK(r)'
    <2>1. Open(r) /\ r \in Sessions \ {s} /\ SessionOK(r)
      BY <1>6, <1>8 DEF TxInv
    <2>2. /\ tx'[r].call = tx[r].call /\ tx'[r].time = tx[r].time
          /\ tx'[r].snapB = tx[r].snapB /\ tx'[r].snapW = tx[r].snapW
          /\ tx'[r].locks = tx[r].locks /\ tx'[r].frees = tx[r].frees
          /\ tx'[r].held = tx[r].held /\ tx'[r].heads = tx[r].heads
          /\ tx'[r].skipped = tx[r].skipped /\ tx'[r].reads = tx[r].reads
          /\ PastOK(r)'
      BY <2>1, CommitBehind
    <2>3. SinceOK(r)'
      BY <2>1, CommitSince
    <2>4. SnapshotOK(r)'
      BY <2>1, <2>2 DEF SessionOK, SnapshotOK
    <2>5. FoundOK(r)'
      BY <2>1, <2>2 DEF SessionOK, FoundOK
    <2>6. ReadsOK(r)'
      BY <2>1, <2>2 DEF SessionOK, ReadsOK
    <2>7. ProgressOK(r)'
      BY <2>1, <2>2 DEF SessionOK, ProgressOK, OwnRows, FreesRows, Given
    <2> QED
      BY <2>2, <2>3, <2>4, <2>5, <2>6, <2>7 DEF SessionOK
  <1> QED
    BY <1>1, <1>3, <1>5, <1>7, <1>8 DEF TxInv

-------------------------------------------------------------------------------
(* Theorems: the tables are as safe under transactions as under single steps. *)

\* All is in order when nothing is in progress.
LEMMA InitTxInv == TxInit => TxInv
  <1> SUFFICES ASSUME TxInit
               PROVE  TxInv
    OBVIOUS
  <1>1. bookings = Empty /\ waitlist = Empty /\ now = 0 /\ tx = [s \in Sessions |-> Idle]
    BY DEF TxInit, Init
  <1>2. TypeOK /\ FiniteTables
    BY InitTypeOK, InitFiniteTables DEF TxInit
  <1>3. Bounded /\ NoDoubleBooking /\ PositionsDistinct
    BY <1>1 DEF Bounded, NoDoubleBooking, PositionsDistinct, Queued, Empty
  <1>4. \A s \in Sessions : tx[s] = Idle /\ ~Open(s)
    BY <1>1 DEF Open, Idle
  <1>5. TxShape /\ RequestsOK /\ HeldOK
    BY <1>1, <1>4 DEF TxShape, RequestsOK, HeldOK
  <1> QED
    BY <1>2, <1>3, <1>4, <1>5 DEF TxInv

\* And stays so whatever happens.
LEMMA NextTxInv == TxInv /\ [TxNext]_txVars => TxInv'
  <1> SUFFICES ASSUME TxInv, [TxNext]_txVars
               PROVE  TxInv'
    OBVIOUS
  <1>1. ASSUME NEW s \in Sessions, NEW c \in Call, Request(s, c)
        PROVE  TxInv'
    BY <1>1, RequestInv
  <1>2. ASSUME NEW s \in Sessions, Proceed(s)
        PROVE  TxInv'
    <2>1. CASE Retry(s)
      BY <2>1, RetryInv
    <2>2. CASE LockRow(s)
      BY <2>2, LockRowInv
    <2>3. CASE OfferNext(s)
      BY <2>3, OfferNextInv
    <2>4. CASE Commit(s)
      BY <2>4, CommitInv
    <2>5. CASE Conflict(s) /\ GiveUp(s)
      BY <2>5, CloseInv
    <2>6. CASE Fail(s)
      BY <2>6, CloseInv
    <2>7. CASE Die(s)
      BY <2>7, CloseInv DEF Die
    <2> QED
      BY <1>2, <2>1, <2>2, <2>3, <2>4, <2>5, <2>6, <2>7 DEF Proceed
  <1>3. CASE TxTick
    BY <1>3, TickInv
  <1>4. CASE UNCHANGED txVars
    <2>1. UNCHANGED <<bookings, waitlist, now, tx>>
      BY <1>4 DEF txVars
    <2>2. (TypeOK /\ FiniteTables /\ Bounded /\ NoDoubleBooking /\ PositionsDistinct)'
      BY <2>1, TablesKeep DEF TxInv, TypeOK
    <2>3. TxShape' /\ HeldOK' /\ RequestsOK'
      BY <2>1 DEF TxInv, TxShape, HeldOK, RequestsOK, Open, Dirty
    <2>4. \A s \in Sessions : Open(s)' => SessionOK(s)'
      BY <2>1, OthersKeep DEF TxInv, Open
    <2> QED
      BY <2>2, <2>3, <2>4 DEF TxInv
  <1> QED
    BY <1>1, <1>2, <1>3, <1>4 DEF TxNext

\* The inductive invariant holds in every reachable state: what transactions know of the
\* tables from their snapshots and from the rows that they have locked is true.
THEOREM SnapshotsTellTheTruth == TxSpec => []TxInv
  BY InitTxInv, NextTxInv, PTL DEF TxSpec

\* Transactions leave the tables well formed.
THEOREM TransactionsTypeCorrect == TxSpec => []TypeOK
  <1>1. TxInv => TypeOK
    BY DEF TxInv
  <1> QED
    BY <1>1, SnapshotsTellTheTruth, PTL

\* No two transactions book overlapping slots of a room, although each looks for conflicts
\* in a snapshot: the check and the insert of CreateChecked and ConfirmAndBook are safe
\* because the two would read what the other writes, and one of them does not commit.
THEOREM TransactionsNeverDoubleBook == TxSpec => []NoDoubleBooking
  <1>1. TxInv => NoDoubleBooking
    BY DEF TxInv
  <1> QED
    BY <1>1, SnapshotsTellTheTruth, PTL

\* No two transactions take one position, although each computes MAX(position) + 1 from a
\* snapshot.
THEOREM TransactionsKeepOrder == TxSpec => []PositionsDistinct
  <1>1. TxInv => PositionsDistinct
    BY DEF TxInv
  <1> QED
    BY <1>1, SnapshotsTellTheTruth, PTL

\* What a step does to the tables: a commit changes them as its call may, no other step does.
LEMMA TxTables ==
  ASSUME TxInv, [TxNext]_txVars
  PROVE  UNCHANGED <<bookings, waitlist>> \/ \E s \in Sessions : Commit(s)
  <1>1. ASSUME NEW s \in Sessions, NEW c \in Call, Request(s, c)
        PROVE  UNCHANGED <<bookings, waitlist>>
    BY <1>1 DEF Request
  <1>2. ASSUME NEW s \in Sessions, Proceed(s), ~Commit(s)
        PROVE  UNCHANGED <<bookings, waitlist>>
    BY <1>2 DEF Proceed, Retry, LockRow, OfferNext, GiveUp, Fail, Die
  <1>3. CASE TxTick \/ UNCHANGED txVars
    BY <1>3 DEF TxTick, Tick, txVars
  <1> QED
    BY <1>1, <1>2, <1>3 DEF TxNext

\* Under transactions, too, rows only move forward: a transaction that acts on what its
\* snapshot says of a row holds that row, and it is still as the snapshot says.
THEOREM TransactionsMoveForward == TxSpec => LifecycleForward
  <1>1. ASSUME TxInv, [TxNext]_txVars
        PROVE  [MovesForward]_vars
    <2>1. TypeOK
      BY <1>1 DEF TxInv
    <2>2. CASE UNCHANGED <<bookings, waitlist>>
      <3>1. \A b \in DOMAIN bookings : BookingForward(b)
        BY <2>2 DEF BookingForward
      <3>2. \A e \in DOMAIN waitlist \cap DOMAIN waitlist' : EntryForward(e)
        BY <2>2 DEF EntryForward
      <3> QED
        BY <2>1, <3>1, <3>2, RowsMoveForward
    <2>3. ASSUME NEW s \in Sessions, Commit(s)
          PROVE  MovesForward
      BY <1>1, <2>1, <2>3, BookingsAfter, WaitlistAfter, RowsMoveForward
    <2> QED
      BY <1>1, <2>2, <2>3, TxTables
  <1> QED
    BY <1>1, SnapshotsTellTheTruth, PTL DEF TxSpec, LifecycleForward, MovesForward

\* Transactions, with their snapshots, locks, failures and retries, implement the ledger of
\* reservations: a commit reserves a free slot, releases some, or changes nothing there.
THEOREM TransactionsImplementLedger == TxSpec => LedgerSpec
  <1>1. TxInit => Ledger!Init
    BY DEF TxInit, Init, Ledger!Init, Empty
  <1>2. ASSUME TxInv, [TxNext]_txVars
        PROVE  [Ledger!Next]_Ledger!vars
    <2>1. CASE UNCHANGED <<bookings, waitlist>>
      BY <2>1 DEF Ledger!vars, Active
    <2>2. ASSUME NEW s \in Sessions, Commit(s)
          PROVE  Ledger!Next
      BY <1>2, <2>2, BookingsAfter, LedgerChange DEF TxInv
    <2> QED
      BY <1>2, <2>1, <2>2, TxTables
  <1> QED
    BY <1>1, <1>2, SnapshotsTellTheTruth, PTL DEF TxSpec, LedgerSpec, Ledger!Spec

-------------------------------------------------------------------------------
(* No circle of waiting. *)

\* A sweep locks bookings by age, and the ones it has locked are older than the rest.
AgeOrder(s) ==
    tx[s].call.op = "sweep" =>
        /\ \A i, j \in DOMAIN tx[s].locks :
            i < j => tx[s].snapB[tx[s].locks[i]].createdAt <= tx[s].snapB[tx[s].locks[j]].createdAt
        /\ \A x \in tx[s].held \ tx[s].heads, i \in DOMAIN tx[s].locks :
            tx[s].snapB[x].createdAt <= tx[s].snapB[tx[s].locks[i]].createdAt

SweepsByAge == \A s \in Sessions : Open(s) => AgeOrder(s)

\* A session goes on as it was, but others may have written since.
Unmoved(r) ==
    /\ Open(r)
    /\ \A f \in OpenFields \ {"since"} : tx'[r][f] = tx[r][f]

\* Or not even that.
Still(r) == Unmoved(r) /\ tx'[r].since = tx[r].since

\* Each open session begins, goes on, sees another commit, or nothing.
LEMMA OpenAfter ==
    ASSUME TxInv, [TxNext]_txVars, NEW r \in Sessions, Open(r)'
    PROVE  \/ Still(r) /\ UNCHANGED <<bookings, waitlist>>
           \/ LockRow(r)
           \/ OfferNext(r)
           \/ \E c \in Call : \E n, time, result :
                /\ Begin(r, c, n, time, result) /\ Finds(c)
                /\ UNCHANGED <<bookings, waitlist, now>>
           \/ \E s \in Sessions \ {r} : Commit(s) /\ Open(r) /\ Unmoved(r)
  <1>1. ASSUME NEW s \in Sessions, NEW c \in Call, Request(s, c)
        PROVE  \/ Still(r) /\ UNCHANGED <<bookings, waitlist>>
               \/ /\ Begin(r, c, 1, now, Nothing) /\ Finds(c)
                  /\ UNCHANGED <<bookings, waitlist, now>>
    <2>1. Begin(s, c, 1, now, Nothing) /\ Finds(c) /\ UNCHANGED <<bookings, waitlist, now>>
      BY <1>1 DEF Request
    <2>2. CASE r # s
      <3>1. tx'[r] = tx[r]
        BY <2>1, <2>2, BeginEffect DEF TxInv
      <3> QED
        BY <2>1, <3>1 DEF Still, Unmoved, Open
    <2> QED
      BY <2>1, <2>2
  <1>2. ASSUME NEW s \in Sessions, Retry(s)
        PROVE  \/ Still(r) /\ UNCHANGED <<bookings, waitlist>>
               \/ /\ Begin(r, tx[r].call, tx[r].attempt, tx[r].time, tx[r].result)
                  /\ Finds(tx[r].call) /\ tx[r].call \in Call
                  /\ UNCHANGED <<bookings, waitlist, now>>
    <2>1. UNCHANGED <<bookings, waitlist, now>> /\ tx[s] # Idle
      BY <1>2 DEF Retry, Idle
    <2>2. CASE Finds(tx[s].call)
      <3>1. Begin(s, tx[s].call, tx[s].attempt, tx[s].time, tx[s].result)
        BY <1>2, <2>2 DEF Retry
      <3>2. CASE r # s
        <4>1. tx'[r] = tx[r]
          BY <3>1, <3>2, BeginEffect DEF TxInv
        <4> QED
          BY <2>1, <4>1 DEF Still, Unmoved, Open
      <3>3. tx[s].call \in Call
        BY <2>1 DEF TxInv, RequestsOK
      <3> QED
        BY <2>1, <2>2, <3>1, <3>2, <3>3
    <2>3. CASE ~Finds(tx[s].call)
      <3>1. tx' = [tx EXCEPT ![s] = Idle]
        BY <1>2, <2>3 DEF Retry
      <3>2. r # s /\ tx'[r] = tx[r]
        BY <3>1 DEF TxInv, TxShape, Open, Idle
      <3> QED
        BY <2>1, <3>2 DEF Still, Unmoved, Open
    <2> QED
      BY <2>2, <2>3
  <1>3. ASSUME NEW s \in Sessions, LockRow(s) \/ OfferNext(s) \/ GiveUp(s) \/ Fail(s)
        PROVE  \/ Still(r) /\ UNCHANGED <<bookings, waitlist>>
               \/ LockRow(r) \/ OfferNext(r)
    <2>1. OnlySession(s)
      <3>1. CASE LockRow(s)
        BY <3>1, LockRowEffect DEF TxInv
      <3>2. CASE OfferNext(s)
        <4>1. SnapshotOK(s)
          BY <3>2 DEF TxInv, SessionOK, OfferNext
        <4> QED
          BY <3>2, <4>1, OfferNextEffect DEF TxInv
      <3>3. CASE GiveUp(s) \/ Fail(s)
        BY <3>3, CloseEffect DEF TxInv
      <3> QED
        BY <1>3, <3>1, <3>2, <3>3
    <2>2. CASE r # s
      BY <2>1, <2>2 DEF OnlySession, Still, Unmoved, Open
    <2>3. CASE r = s /\ (GiveUp(s) \/ Fail(s))
      <3>1. tx'[s] = Idle \/ tx'[s].phase = "retry"
        BY <2>3, CloseEffect DEF TxInv
      <3> QED
        BY <2>3, <3>1 DEF Open, Idle
    <2> QED
      BY <1>3, <2>2, <2>3
  <1>4. ASSUME NEW s \in Sessions, Commit(s)
        PROVE  s \in Sessions \ {r} /\ Open(r) /\ Unmoved(r)
    <2>1. /\ tx'[s] = Idle
          /\ \A q \in Sessions \ {s} : ~Open(q) => tx'[q] = tx[q]
          /\ \A q \in Sessions \ {s} : Open(q) =>
                \A f \in OpenFields \ {"since"} : tx'[q][f] = tx[q][f]
      BY <1>4, CommitEffect DEF TxInv
    <2> QED
      BY <2>1 DEF Open, Idle, Unmoved
  <1>5. CASE TxTick \/ UNCHANGED txVars
    <2>1. UNCHANGED <<bookings, waitlist, tx>>
      BY <1>5 DEF TxTick, Tick, txVars
    <2> QED
      BY <2>1 DEF Still, Unmoved, Open
  <1> QED
    BY <1>1, <1>2, <1>3, <1>4, <1>5 DEF TxNext, Proceed, Die

\* Each session keeps the order by age.
LEMMA AgeOrderStep ==
    ASSUME TxInv, SweepsByAge, [TxNext]_txVars
    PROVE  SweepsByAge'
  <1> SUFFICES ASSUME NEW r \in Sessions, Open(r)', tx'[r].call.op = "sweep"
               PROVE  /\ \A i, j \in DOMAIN tx'[r].locks :
                            i < j => tx'[r].snapB[tx'[r].locks[i]].createdAt
                                        <= tx'[r].snapB[tx'[r].locks[j]].createdAt
                      /\ \A x \in tx'[r].held \ tx'[r].heads, i \in DOMAIN tx'[r].locks :
                            tx'[r].snapB[x].createdAt <= tx'[r].snapB[tx'[r].locks[i]].createdAt
    BY DEF SweepsByAge, AgeOrder
  <1>1. CASE Unmoved(r)
    <2>1. /\ tx'[r].call = tx[r].call /\ tx'[r].snapB = tx[r].snapB
          /\ tx'[r].locks = tx[r].locks /\ tx'[r].held = tx[r].held /\ tx'[r].heads = tx[r].heads
      BY <1>1 DEF Unmoved, OpenFields
    <2> QED
      BY <1>1, <2>1 DEF SweepsByAge, AgeOrder, Unmoved
  <1>2. CASE LockRow(r)
    <2> DEFINE row == Head(tx[r].locks)
    <2>1. /\ Open(r) /\ tx[r].locks # <<>> /\ tx'[r].call = tx[r].call
          /\ tx'[r].snapB = tx[r].snapB /\ tx'[r].locks = Tail(tx[r].locks)
          /\ tx'[r].held = tx[r].held \cup {row} /\ tx'[r].heads = tx[r].heads
      BY <1>2, LockRowEffect DEF TxInv
    <2>2. tx[r].locks \in Seq(Ids)
      BY <2>1 DEF TxInv, SessionOK, ProgressOK
    <2>3. /\ row = tx[r].locks[1] /\ 1 \in DOMAIN tx[r].locks
          /\ \A i \in DOMAIN Tail(tx[r].locks) : /\ i + 1 \in DOMAIN tx[r].locks
                                                 /\ Tail(tx[r].locks)[i] = tx[r].locks[i + 1]
      BY <2>1, <2>2, HeadAndTail
    <2>4. DOMAIN Tail(tx[r].locks) \subseteq Nat \ {0}
      BY <2>1, <2>2, HeadAndTail
    <2>5. AgeOrder(r) /\ tx[r].call.op = "sweep"
      BY <2>1 DEF SweepsByAge
    <2> DEFINE q == tx[r].locks
               t == Tail(tx[r].locks)
               age(x) == tx[r].snapB[x].createdAt
    <2>6. ASSUME NEW i \in DOMAIN t
          PROVE  /\ i + 1 \in DOMAIN q /\ t[i] = q[i + 1] /\ i \in Nat \ {0}
                 /\ 1 < i + 1 /\ age(row) <= age(t[i])
                 /\ \A x \in tx[r].held \ tx[r].heads : age(x) <= age(t[i])
      <3>1. i + 1 \in DOMAIN q /\ t[i] = q[i + 1] /\ i \in Nat \ {0}
        BY <2>3, <2>4
      <3>2. 1 < i + 1
        BY <3>1
      <3>3. age(q[1]) <= age(q[i + 1])
        BY <2>3, <2>5, <3>1, <3>2 DEF AgeOrder
      <3> QED
        BY <2>3, <2>5, <3>1, <3>2, <3>3 DEF AgeOrder
    <2>7. ASSUME NEW i \in DOMAIN t, NEW j \in DOMAIN t, i < j
          PROVE  age(t[i]) <= age(t[j])
      <3>1. i + 1 < j + 1
        BY <2>6, <2>7
      <3> QED
        BY <2>5, <2>6, <3>1 DEF AgeOrder
    <2> HIDE DEF row
    <2> QED
      BY <2>1, <2>6, <2>7
  <1>3. CASE OfferNext(r)
    <2>1. tx'[r].locks = <<>>
      <3>1. SnapshotOK(r)
        BY <1>3 DEF TxInv, SessionOK, OfferNext
      <3> QED
        BY <1>3, <3>1, OfferNextEffect DEF TxInv
    <2> QED
      BY <2>1
  <1>4. ASSUME NEW c \in Call, NEW n, NEW time, NEW result, Begin(r, c, n, time, result)
        PROVE  /\ \A i, j \in DOMAIN tx'[r].locks :
                    i < j => tx'[r].snapB[tx'[r].locks[i]].createdAt
                                <= tx'[r].snapB[tx'[r].locks[j]].createdAt
               /\ tx'[r].held = {}
    <2>1. /\ tx'[r].call = c /\ tx'[r].snapB = bookings /\ tx'[r].held = {}
          /\ tx'[r].locks \in LockOrders(c, time)
      BY <1>4, BeginEffect DEF TxInv
    <2> QED
      BY <2>1 DEF LockOrders
  <1> QED
    BY <1>1, <1>2, <1>3, <1>4, OpenAfter DEF Still

\* What a sweep has locked is pending, and it is as old as the sweep believes.
LEMMA SweepHolds ==
    ASSUME TxInv, NEW q \in Sessions, Open(q), tx[q].locks # <<>>, NEW x \in tx[q].held
    PROVE  /\ tx[q].call.op = "sweep" /\ x \notin tx[q].heads
           /\ Pending(x) /\ x \in DOMAIN tx[q].snapB
           /\ bookings[x].createdAt = tx[q].snapB[x].createdAt
  <1>1. SessionOK(q) /\ x \notin Dirty(q)
    BY DEF TxInv, HeldOK
  <1>2. tx[q].call.op = "sweep" /\ tx[q].heads = {} /\ x \in OwnRows(q)
    BY <1>1 DEF SessionOK, ProgressOK
  <1>3. x \in DOMAIN tx[q].snapB /\ tx[q].snapB[x].status = "pending_approval"
    BY <1>2 DEF OwnRows
  <1> QED
    BY <1>1, <1>2, <1>3 DEF SessionOK, SinceOK, Pending

\* No circle of sessions wait for one another: along a circle the bookings that are waited
\* for would get older and older.
LEMMA AgeForbidsCircles == TxInv /\ SweepsByAge => NoDeadlock
  <1> SUFFICES ASSUME TxInv, SweepsByAge,
                      \A b, c \in DOMAIN bookings :
                        /\ Pending(b) /\ Pending(c)
                        /\ bookings[b].createdAt = bookings[c].createdAt
                        => b = c,
                      NEW D \in SUBSET Sessions, NEW r \in D,
                      \A p \in D : \E q \in D : WaitsFor(p, q)
               PROVE  FALSE
    BY DEF NoDeadlock, Deadlocked
  <1> DEFINE next(p) == Head(tx[p].locks)
  <1>1. \A p \in D : Open(p) /\ tx[p].locks # <<>>
    BY DEF WaitsFor
  <1>2. \A p \in D : \E q \in D \ {p} : next(p) \in tx[q].held
    BY DEF WaitsFor, LockedBy
  <1>3. ASSUME NEW p \in D
        PROVE  Pending(next(p)) /\ bookings[next(p)].createdAt \in Nat
               /\ bookings[next(p)].createdAt <= now
    <2>1. PICK q \in D \ {p} : next(p) \in tx[q].held
      BY <1>2
    <2>2. Pending(next(p))
      BY <1>1, <2>1, SweepHolds
    <2> HIDE DEF next
    <2> QED
      BY <2>2 DEF TxInv, TypeOK, Bounded, Pending, BookingRow
  <1>4. ASSUME NEW p \in D
        PROVE  \E q \in D : bookings[next(p)].createdAt < bookings[next(q)].createdAt
    <2>1. PICK q \in D \ {p} : next(p) \in tx[q].held
      BY <1>2
    <2>2. PICK t \in D \ {q} : next(q) \in tx[t].held
      BY <1>2
    <2>3. next(p) # next(q)
      <3>1. tx[q].held \cap tx[t].held = {}
        BY <1>1 DEF TxInv, HeldOK
      <3> QED
        BY <2>1, <2>2, <3>1
    <2>4. /\ tx[q].call.op = "sweep" /\ next(p) \notin tx[q].heads
          /\ bookings[next(p)].createdAt = tx[q].snapB[next(p)].createdAt
      BY <1>1, <2>1, SweepHolds
    <2>5. 1 \in DOMAIN tx[q].locks /\ next(q) = tx[q].locks[1] /\ next(q) \in OwnRows(q)
      <3>1. tx[q].locks \in Seq(Ids) /\ tx[q].locks # <<>>
            /\ Range(tx[q].locks) \subseteq OwnRows(q)
        BY <1>1 DEF TxInv, SessionOK, ProgressOK
      <3> QED
        BY <3>1, HeadAndTail
    <2>6. bookings[next(q)].createdAt = tx[q].snapB[next(q)].createdAt
      <3>1. next(q) \in DOMAIN tx[q].snapB
        BY <2>4, <2>5 DEF OwnRows
      <3> QED
        BY <1>1, <3>1 DEF TxInv, SessionOK, SinceOK
    <2>7. bookings[next(p)].createdAt <= bookings[next(q)].createdAt
      <3>1. AgeOrder(q)
        BY <1>1 DEF SweepsByAge
      <3> HIDE DEF next
      <3> QED
        BY <2>1, <2>4, <2>5, <2>6, <3>1 DEF AgeOrder
    <2>8. bookings[next(p)].createdAt # bookings[next(q)].createdAt
      BY <1>3, <2>3 DEF Pending
    <2> HIDE DEF next
    <2> QED
      BY <1>3, <2>7, <2>8
  <1> HIDE DEF next
  <1> DEFINE S == {n \in Nat : \E p \in D : n = now - bookings[next(p)].createdAt}
  <1>5. now \in Nat
    BY DEF TxInv, TypeOK
  <1>6. \A p \in D : now - bookings[next(p)].createdAt \in S
    BY <1>3, <1>5
  <1>7. PICK m \in S : \A n \in S : m <= n
    BY <1>6, Smallest
  <1>8. PICK p \in D : m = now - bookings[next(p)].createdAt
    BY <1>7
  <1>9. PICK q \in D : bookings[next(p)].createdAt < bookings[next(q)].createdAt
    BY <1>4
  <1>10. m <= now - bookings[next(q)].createdAt
    BY <1>6, <1>7
  <1> HIDE DEF S
  <1> QED
    BY <1>3, <1>5, <1>8, <1>9, <1>10

\* Calls never wait for one another in a circle, whatever their number, unless two bookings
\* that await approval are of one age: sweeps lock by age, every other call locks one row
\* before it makes offers, and offers wait for nobody.
THEOREM NeverDeadlocked == TxSpec => []NoDeadlock
  <1>1. TxInit => SweepsByAge
    BY DEF TxInit, SweepsByAge, Open, Idle
  <1>2. TxInv /\ SweepsByAge /\ [TxNext]_txVars => SweepsByAge'
    BY AgeOrderStep
  <1> QED
    BY <1>1, <1>2, AgeForbidsCircles, SnapshotsTellTheTruth, PTL DEF TxSpec

-------------------------------------------------------------------------------
(* Results. *)

\* What a transaction would return is what it has done so far: the bookings whose slots it
\* gave away, each once, or the entry to which it gave the one slot it frees.
ResultOK(s) ==
    LET result == tx[s].result
    IN  /\ DOMAIN result = {"offered", "rejected"}
        /\ tx[s].call.op = "sweep" =>
            /\ result.rejected \in Seq(Ids)
            /\ Range(result.rejected) = Given(s)
            /\ \A i, j \in DOMAIN result.rejected :
                    result.rejected[i] = result.rejected[j] => i = j
        /\ tx[s].call.op # "sweep" => result.offered = tx[s].heads

ResultsTrue == \A s \in Sessions : Open(s) => ResultOK(s)

\* A call about one row frees one slot at most.
LEMMA OneSlot ==
    ASSUME NEW s, tx[s].call.op # "sweep", NEW x \in FreesRows(s), NEW y \in FreesRows(s)
    PROVE  x = y
    BY DEF FreesRows, OwnRows

\* The slot that is given away is one that was not.
LEMMA GivesNext ==
    ASSUME TxInv, NEW s \in Sessions, OfferNext(s)
    PROVE  /\ Head(tx[s].frees) \in FreesRows(s) \ Given(s)
           /\ Given(s)' = Given(s) \cup {Head(tx[s].frees)}
           /\ tx'[s].call = tx[s].call /\ tx'[s].time = tx[s].time
           /\ tx'[s].snapB = tx[s].snapB /\ tx'[s].snapW = tx[s].snapW
           /\ tx'[s].since = tx[s].since /\ UNCHANGED <<bookings, waitlist>>
           /\ GivesToNobody(s) \/ \E e \in Waiting(s) : GivesTo(s, e)
           /\ Open(s) /\ SessionOK(s) /\ tx[s].call \in Call
           /\ Head(tx[s].frees) \in Ids
  <1> DEFINE row == Head(tx[s].frees)
  <1>1. Open(s) /\ SessionOK(s) /\ SnapshotOK(s) /\ tx[s].call \in Call
    <2>1. Open(s)
      BY DEF OfferNext
    <2> QED
      BY <2>1, OpenShape DEF TxInv, SessionOK, RequestsOK
  <1>2. /\ OnlySession(s)
        /\ tx[s].frees # <<>> /\ tx'[s].frees = Tail(tx[s].frees)
        /\ tx'[s].call = tx[s].call /\ tx'[s].time = tx[s].time
        /\ tx'[s].snapB = tx[s].snapB /\ tx'[s].snapW = tx[s].snapW
        /\ tx'[s].since = tx[s].since
        /\ GivesToNobody(s) \/ \E e \in Waiting(s) : GivesTo(s, e)
    BY <1>1, OfferNextEffect DEF TxInv
  <1>3. /\ tx[s].frees \in Seq(Ids) /\ Range(tx[s].frees) \subseteq FreesRows(s)
        /\ \A i, j \in DOMAIN tx[s].frees : tx[s].frees[i] = tx[s].frees[j] => i = j
    BY <1>1 DEF SessionOK, ProgressOK
  <1>4. /\ Range(tx[s].frees) = {row} \cup Range(Tail(tx[s].frees))
        /\ row \notin Range(Tail(tx[s].frees)) /\ row \in Ids
    BY <1>2, <1>3, HeadAndTail, HeadIsOnce
  <1>5. FreesRows(s)' = FreesRows(s) /\ UNCHANGED <<bookings, waitlist>>
    BY <1>1, <1>2, SameSnapshot DEF OnlySession
  <1>6. row \in FreesRows(s) \ Given(s)
    BY <1>3, <1>4 DEF Given
  <1>7. Given(s)' = FreesRows(s) \ Range(Tail(tx[s].frees))
    BY <1>2, <1>5 DEF Given
  <1>8. Given(s)' = Given(s) \cup {row}
    BY <1>3, <1>4, <1>7 DEF Given
  <1> QED
    BY <1>1, <1>2, <1>4, <1>5, <1>6, <1>8

\* One more element in a sequence without repetitions.
LEMMA OneMore ==
    ASSUME NEW S, NEW q \in Seq(S), NEW x \in S,
           \A i, j \in DOMAIN q : q[i] = q[j] => i = j
    PROVE  /\ Append(q, x) \in Seq(S)
           /\ Range(Append(q, x)) = Range(q) \cup {x}
           /\ x \notin Range(q) =>
                \A i, j \in DOMAIN Append(q, x) : Append(q, x)[i] = Append(q, x)[j] => i = j
  <1>1. /\ Append(q, x) \in Seq(S) /\ Len(q) \in Nat
        /\ DOMAIN Append(q, x) = DOMAIN q \cup {Len(q) + 1}
        /\ \A i \in DOMAIN q : Append(q, x)[i] = q[i]
        /\ Append(q, x)[Len(q) + 1] = x
    OBVIOUS
  <1>2. Range(Append(q, x)) = Range(q) \cup {x}
    BY <1>1 DEF Range
  <1>3. ASSUME x \notin Range(q)
        PROVE  \A i, j \in DOMAIN Append(q, x) : Append(q, x)[i] = Append(q, x)[j] => i = j
    BY <1>1, <1>3 DEF Range
  <1> QED
    BY <1>1, <1>2, <1>3

\* Whatever happens, results stay true.
LEMMA ResultsStep ==
    ASSUME TxInv, ResultsTrue, [TxNext]_txVars
    PROVE  ResultsTrue'
  <1> SUFFICES ASSUME NEW r \in Sessions, Open(r)'
               PROVE  ResultOK(r)'
    BY DEF ResultsTrue
  <1>1. CASE Unmoved(r)
    <2>1. /\ tx'[r].call = tx[r].call /\ tx'[r].time = tx[r].time
          /\ tx'[r].snapB = tx[r].snapB /\ tx'[r].snapW = tx[r].snapW
          /\ tx'[r].frees = tx[r].frees /\ tx'[r].heads = tx[r].heads
          /\ tx'[r].result = tx[r].result
      BY <1>1 DEF Unmoved, OpenFields
    <2>2. Given(r)' = Given(r)
      BY <2>1 DEF Given, FreesRows, OwnRows
    <2> QED
      BY <1>1, <2>1, <2>2 DEF ResultsTrue, ResultOK, Unmoved
  <1>2. CASE LockRow(r)
    <2>1. /\ Open(r) /\ tx'[r].call = tx[r].call /\ tx'[r].time = tx[r].time
          /\ tx'[r].snapB = tx[r].snapB /\ tx'[r].snapW = tx[r].snapW
          /\ tx'[r].frees = tx[r].frees /\ tx'[r].heads = tx[r].heads
          /\ tx'[r].result = tx[r].result
      BY <1>2, LockRowEffect DEF TxInv
    <2>2. Given(r)' = Given(r)
      BY <2>1 DEF Given, FreesRows, OwnRows
    <2> QED
      BY <2>1, <2>2 DEF ResultsTrue, ResultOK
  <1>3. CASE OfferNext(r)
    <2> DEFINE row == Head(tx[r].frees)
               old == tx[r].result
    <2>1. /\ row \in FreesRows(r) \ Given(r) /\ row \in Ids
          /\ Given(r)' = Given(r) \cup {row} /\ tx'[r].call = tx[r].call
          /\ Open(r) /\ SessionOK(r)
          /\ GivesToNobody(r) \/ \E e \in Waiting(r) : GivesTo(r, e)
      BY <1>3, GivesNext
    <2>2. PICK head : /\ tx'[r].result = Returns(r, head)
                      /\ tx'[r].heads = tx[r].heads \cup head
      <3>1. CASE GivesToNobody(r)
        <4>1. tx'[r].result = Returns(r, {}) /\ tx'[r].heads = tx[r].heads \cup {}
          BY <3>1 DEF GivesToNobody
        <4> QED
          BY <4>1
      <3>2. ASSUME NEW e \in Waiting(r), GivesTo(r, e)
            PROVE  \E h : /\ tx'[r].result = Returns(r, h)
                          /\ tx'[r].heads = tx[r].heads \cup h
        BY <3>2 DEF GivesTo
      <3> QED
        BY <2>1, <3>1, <3>2
    <2>3. ResultOK(r)
      BY <2>1 DEF ResultsTrue
    <2>4. CASE tx[r].call.op = "sweep"
      <3>1. tx'[r].result = [old EXCEPT !.rejected = Append(old.rejected, row)]
        BY <2>2, <2>4 DEF Returns
      <3>2. /\ DOMAIN old = {"offered", "rejected"} /\ old.rejected \in Seq(Ids)
            /\ Range(old.rejected) = Given(r)
            /\ \A i, j \in DOMAIN old.rejected : old.rejected[i] = old.rejected[j] => i = j
        BY <2>3, <2>4 DEF ResultOK
      <3>3. tx'[r].result.rejected = Append(old.rejected, row)
            /\ DOMAIN tx'[r].result = {"offered", "rejected"}
        BY <3>1, <3>2
      <3> HIDE DEF old, row
      <3>4. /\ Append(old.rejected, row) \in Seq(Ids)
            /\ Range(Append(old.rejected, row)) = Range(old.rejected) \cup {row}
            /\ row \notin Range(old.rejected) =>
                \A i, j \in DOMAIN Append(old.rejected, row) :
                    Append(old.rejected, row)[i] = Append(old.rejected, row)[j] => i = j
        BY <2>1, <3>2, OneMore
      <3>5. row \notin Range(old.rejected)
        BY <2>1, <3>2
      <3> QED
        BY <2>1, <2>4, <3>2, <3>3, <3>4, <3>5 DEF ResultOK
    <2>5. CASE tx[r].call.op # "sweep"
      <3>1. tx'[r].result = [old EXCEPT !.offered = head]
        BY <2>2, <2>5 DEF Returns
      <3>2. DOMAIN tx'[r].result = {"offered", "rejected"} /\ tx'[r].result.offered = head
        BY <2>3, <3>1 DEF ResultOK
      <3>3. Given(r) = {}
        BY <2>1, <2>5, OneSlot DEF Given
      <3>4. tx[r].heads = {}
        BY <2>1, <3>3 DEF SessionOK, ProgressOK
      <3> QED
        BY <2>1, <2>2, <2>5, <3>2, <3>4 DEF ResultOK
    <2> QED
      BY <2>4, <2>5
  <1>4. ASSUME NEW c \in Call, NEW n, NEW time, NEW result, Begin(r, c, n, time, result),
               UNCHANGED <<bookings, waitlist, now>>
        PROVE  ResultOK(r)'
    <2>1. /\ tx'[r].result = Nothing /\ tx'[r].heads = {} /\ tx'[r].call = c
          /\ tx'[r].snapB = bookings /\ tx'[r].snapW = waitlist /\ tx'[r].time = time
          /\ tx'[r].locks \in LockOrders(c, time) /\ tx'[r].frees = Frees(c, tx'[r].locks)
      BY <1>4, BeginEffect DEF TxInv
    <2>2. c.op = "sweep" => Given(r)' = {}
      <3>1. Range(tx'[r].locks) = OwnRows(r)'
        BY <2>1, LocksOwnRows
      <3>2. c.op = "sweep" => tx'[r].frees = tx'[r].locks
        BY <2>1 DEF Frees
      <3> QED
        BY <3>1, <3>2 DEF Given, FreesRows
    <2>3. Nothing.rejected = <<>> /\ Nothing.offered = {} /\ DOMAIN Nothing = {"offered", "rejected"}
      BY DEF Nothing
    <2>4. Range(<<>>) = {} /\ <<>> \in Seq(Ids) /\ DOMAIN <<>> = {}
      BY DEF Range
    <2> DEFINE rejected == tx'[r].result.rejected
               offered == tx'[r].result.offered
    <2>5. rejected = <<>> /\ offered = {} /\ DOMAIN tx'[r].result = {"offered", "rejected"}
      BY <2>1, <2>3
    <2> HIDE DEF rejected, offered
    <2>6. /\ rejected \in Seq(Ids) /\ Range(rejected) = {}
          /\ \A i, j \in DOMAIN rejected : rejected[i] = rejected[j] => i = j
      BY <2>4, <2>5
    <2> USE DEF rejected, offered
    <2> QED
      BY <2>1, <2>2, <2>5, <2>6 DEF ResultOK
  <1>5. \/ Unmoved(r) \/ LockRow(r) \/ OfferNext(r)
        \/ \E c \in Call : \E n, time, result :
                Begin(r, c, n, time, result) /\ UNCHANGED <<bookings, waitlist, now>>
    BY OpenAfter DEF Still
  <1> QED
    BY <1>1, <1>2, <1>3, <1>4, <1>5

\* A sequence without repetitions is as long as the set of its elements is large.
LEMMA LengthCounts ==
    ASSUME NEW S, NEW q \in Seq(S), \A i, j \in DOMAIN q : q[i] = q[j] => i = j
    PROVE  Len(q) = Cardinality(Range(q))
  <1>1. Len(q) \in Nat /\ DOMAIN q = 1 .. Len(q) /\ q \in [1 .. Len(q) -> Range(q)]
    BY DEF Range
  <1>2. q \in Bijection(1 .. Len(q), Range(q))
    BY <1>1 DEF Bijection, Injection, Surjection, IsInjective, Range
  <1>3. ExistsBijection(1 .. Len(q), Range(q))
    BY <1>2 DEF ExistsBijection
  <1> QED
    BY <1>1, <1>3, FS_CountingElements

\* A sweep ends the bookings whose slots it gave away, and no other,
LEMMA SweepFrees ==
    ASSUME TxInv, NEW s \in Sessions, Commit(s), tx[s].call.op = "sweep"
    PROVE  Freed = Given(s)
  <1>1. /\ bookings' = Rejected(OwnRows(s), "timeout")
        /\ OwnRows(s) \subseteq DOMAIN bookings
        /\ \A b \in OwnRows(s) : bookings[b].status = "pending_approval"
    BY SweepCommit
  <1>2. Given(s) = OwnRows(s)
    <2>1. FreesRows(s) = OwnRows(s)
      BY DEF FreesRows
    <2> QED
      BY <2>1, AtCommit
  <1>3. ASSUME NEW b \in DOMAIN bookings
        PROVE  b \in OwnRows(s) <=> Active(b) /\ bookings'[b].status \notin ActiveStatuses
    <2>1. bookings[b] \in BookingRow
      BY DEF TxInv, TypeOK
    <2>2. b \in OwnRows(s) => bookings'[b].status = "rejected"
      BY <1>1, <2>1 DEF Rejected, BookingRow
    <2>3. b \notin OwnRows(s) => bookings'[b] = bookings[b]
      BY <1>1 DEF Rejected
    <2> QED
      BY <1>1, <2>2, <2>3 DEF Active, ActiveStatuses
  <1> QED
    BY <1>1, <1>2, <1>3 DEF Freed

\* and a transaction makes the offers that it decided on, and no other.
LEMMA OffersMade ==
    ASSUME TxInv, NEW s \in Sessions, Commit(s)
    PROVE  NewlyOffered = tx[s].heads
  <1>1. \A h \in tx[s].heads : h \in DOMAIN waitlist /\ waitlist[h].status = "waiting"
    BY AtCommit DEF SessionOK, ProgressOK
  <1>2. CASE Serves /\ OffersTo(s)
    BY <1>1, <1>2 DEF NewlyOffered, OffersTo
  <1>3. ASSUME NEW id, NEW row, Enqueues(id, row), tx[s].call.op = "join"
        PROVE  NewlyOffered = tx[s].heads
    <2>1. FreesRows(s) = {}
      BY <1>3 DEF FreesRows
    <2>2. tx[s].heads = {}
      BY <2>1, AtCommit
    <2>3. \A e \in DOMAIN waitlist : waitlist'[e] = waitlist[e]
      BY <1>3 DEF Enqueues, Put
    <2> QED
      BY <2>2, <2>3 DEF NewlyOffered
  <1> QED
    BY <1>2, <1>3, CommitWaitlist DEF WaitlistCommit

\* So when the tables change, the one whose transaction ends returns what it did.
LEMMA ReturnsTrue ==
    ASSUME TxInv, ResultsTrue, [TxNext]_txVars,
           NEW s \in Sessions, Done(s), tx'[s] = Idle,
           <<bookings, waitlist>>' # <<bookings, waitlist>>
    PROVE  LET result == tx[s].result
               rejected == {result.rejected[i] : i \in DOMAIN result.rejected}
           IN  IF tx[s].call.op = "sweep"
               THEN rejected = Freed /\ Len(result.rejected) = Cardinality(rejected)
               ELSE result.offered = NewlyOffered
  <1>1. Commit(s)
    <2>1. PICK r \in Sessions : Commit(r)
      BY TxTables
    <2>2. ASSUME r # s
          PROVE  FALSE
      <3>1. Open(s)'
        BY <2>1, <2>2, CommitBehind DEF Done
      <3> QED
        BY <3>1 DEF Open, Idle
    <2> QED
      BY <2>1, <2>2
  <1>2. ResultOK(s)
    BY DEF ResultsTrue, Done
  <1> DEFINE list == tx[s].result.rejected
  <1>3. CASE tx[s].call.op = "sweep"
    <2>1. /\ list \in Seq(Ids) /\ Range(list) = Given(s)
          /\ \A i, j \in DOMAIN list : list[i] = list[j] => i = j
      BY <1>2, <1>3 DEF ResultOK
    <2>2. Range(list) = {list[i] : i \in DOMAIN list}
      BY DEF Range
    <2>3. Freed = Given(s)
      BY <1>1, <1>3, SweepFrees
    <2> HIDE DEF list
    <2>4. Len(list) = Cardinality(Range(list))
      BY <2>1, LengthCounts
    <2> QED
      BY <1>3, <2>1, <2>2, <2>3, <2>4 DEF list
  <1>4. CASE tx[s].call.op # "sweep"
    BY <1>1, <1>2, <1>4, OffersMade DEF ResultOK
  <1> QED
    BY <1>3, <1>4

\* A call returns what the attempt that succeeded committed, and nothing of those that
\* failed: the variables that runSerializable's callbacks capture are set anew each time.
THEOREM ReturnsAreTrue == TxSpec => ReturnsWhatCommitted
  <1> DEFINE True ==
        \A s \in Sessions :
            Done(s) /\ tx'[s] = Idle /\ <<bookings, waitlist>>' # <<bookings, waitlist>> =>
                LET result == tx[s].result
                    rejected == {result.rejected[i] : i \in DOMAIN result.rejected}
                IN  IF tx[s].call.op = "sweep"
                    THEN rejected = Freed /\ Len(result.rejected) = Cardinality(rejected)
                    ELSE result.offered = NewlyOffered
  <1>1. TxInit => ResultsTrue
    BY DEF TxInit, ResultsTrue, Open, Idle
  <1>2. TxInv /\ ResultsTrue /\ [TxNext]_txVars => ResultsTrue'
    BY ResultsStep
  <1>3. TxInv /\ ResultsTrue /\ [TxNext]_txVars => [True]_txVars
    BY ReturnsTrue
  <1> QED
    BY <1>1, <1>2, <1>3, InitTxInv, NextTxInv, PTL DEF TxSpec, ReturnsWhatCommitted

-------------------------------------------------------------------------------
(* Fairness of the queue: the second inductive invariant. *)

\* The row of the snapshot whose slot a transaction gives away.
RowOf(s, x) == IF x \in DOMAIN tx[s].snapB THEN tx[s].snapB[x] ELSE tx[s].snapW[x]

\* Nobody was left to give a slot of a room to: all who waited were passed over or served.
Exhausted(s, room, slot) ==
    /\ "waitlist" \in tx[s].reads
    /\ \A e \in DOMAIN tx[s].snapW :
        /\ tx[s].snapW[e].status = "waiting"
        /\ tx[s].snapW[e].room = room
        /\ Overlaps(tx[s].snapW[e].slot, slot)
        => e \in tx[s].skipped \cup tx[s].heads

\* Who was offered a slot, of those that the snapshot has: a slot that was given away went
\* to somebody who asked for it, or nobody was left; and nobody was offered a slot but
\* those before him were passed over or served.
OffersOK(s) ==
    LET w == tx[s].snapW
    IN  /\ \A x \in Given(s) :
            \/ \E h \in tx[s].heads : /\ w[h].room = RowOf(s, x).room
                                      /\ Overlaps(w[h].slot, RowOf(s, x).slot)
            \/ Exhausted(s, RowOf(s, x).room, RowOf(s, x).slot)
        /\ \A h \in tx[s].heads, e \in DOMAIN w :
            /\ w[e].status = "waiting"
            /\ w[e].room = w[h].room /\ w[e].slot = w[h].slot
            /\ w[e].position < w[h].position
            => e \in tx[s].skipped \cup tx[s].heads

\* When another slot is given away, what was true of those before stays true.
LEMMA OffersStay ==
    ASSUME NEW s, OffersOK(s), tx'[s].snapB = tx[s].snapB, tx'[s].snapW = tx[s].snapW,
           tx[s].heads \subseteq tx'[s].heads, tx[s].skipped \subseteq tx'[s].skipped,
           tx[s].reads \subseteq tx'[s].reads
    PROVE  LET w == tx'[s].snapW
           IN  /\ \A x \in Given(s) :
                    \/ \E h \in tx'[s].heads : /\ w[h].room = RowOf(s, x)'.room
                                               /\ Overlaps(w[h].slot, RowOf(s, x)'.slot)
                    \/ Exhausted(s, RowOf(s, x).room, RowOf(s, x).slot)'
               /\ \A h \in tx[s].heads, e \in DOMAIN w :
                    /\ w[e].status = "waiting"
                    /\ w[e].room = w[h].room /\ w[e].slot = w[h].slot
                    /\ w[e].position < w[h].position
                    => e \in tx'[s].skipped \cup tx'[s].heads
  <1>1. \A x : RowOf(s, x)' = RowOf(s, x)
    BY DEF RowOf
  <1>2. ASSUME NEW x, Exhausted(s, RowOf(s, x).room, RowOf(s, x).slot)
        PROVE  Exhausted(s, RowOf(s, x).room, RowOf(s, x).slot)'
    BY <1>1, <1>2 DEF Exhausted
  <1>3. ASSUME NEW x \in Given(s)
        PROVE  \/ \E h \in tx'[s].heads : /\ tx'[s].snapW[h].room = RowOf(s, x)'.room
                                          /\ Overlaps(tx'[s].snapW[h].slot, RowOf(s, x)'.slot)
               \/ Exhausted(s, RowOf(s, x).room, RowOf(s, x).slot)'
    <2>1. CASE \E h \in tx[s].heads : /\ tx[s].snapW[h].room = RowOf(s, x).room
                                      /\ Overlaps(tx[s].snapW[h].slot, RowOf(s, x).slot)
      BY <1>1, <2>1
    <2> QED
      BY <1>2, <2>1 DEF OffersOK
  <1> QED
    BY <1>3 DEF OffersOK

\* Giving away a slot keeps this in order.
LEMMA OffersGiven ==
    ASSUME TxInv, NEW s \in Sessions, OfferNext(s), OffersOK(s)
    PROVE  OffersOK(s)'
  <1> DEFINE w == tx[s].snapW
  <1>0. PICK row : row = Head(tx[s].frees)
    OBVIOUS
  <1>1. /\ Given(s)' = Given(s) \cup {row}
        /\ tx'[s].snapB = tx[s].snapB /\ tx'[s].snapW = tx[s].snapW
        /\ GivesToNobody(s) \/ \E e \in Waiting(s) : GivesTo(s, e)
    BY <1>0, GivesNext
  <1>2. FreedRow(s) = RowOf(s, row) /\ RowOf(s, row)' = RowOf(s, row)
    BY <1>0, <1>1 DEF FreedRow, RowOf
  <1>3. ASSUME NEW e \in DOMAIN w, w[e].status = "waiting", w[e].room = FreedRow(s).room,
               Overlaps(w[e].slot, FreedRow(s).slot)
        PROVE  e \in Waiting(s) \cup tx[s].heads
    BY <1>3 DEF Waiting, At!Candidates, At!Queued, At!Overlaps, Overlaps, At!QueuedStatuses
  <1>4. CASE GivesToNobody(s)
    <2>1. /\ tx'[s].heads = tx[s].heads /\ tx'[s].skipped = tx[s].skipped \cup Waiting(s)
          /\ tx'[s].reads = tx[s].reads \cup Waiting(s) \cup {"waitlist"}
      BY <1>4 DEF GivesToNobody
    <2>2. Exhausted(s, RowOf(s, row).room, RowOf(s, row).slot)'
      BY <1>1, <1>2, <1>3, <2>1 DEF Exhausted
    <2> QED
      BY <1>1, <2>1, <2>2, OffersStay DEF OffersOK
  <1>5. ASSUME NEW e \in Waiting(s), GivesTo(s, e)
        PROVE  OffersOK(s)'
    <2>1. /\ tx'[s].heads = tx[s].heads \cup {e}
          /\ tx'[s].skipped = tx[s].skipped \cup Before(s, e)
          /\ tx'[s].reads = tx[s].reads \cup Before(s, e) \cup {e}
          /\ \A f \in Waiting(s) : w[f].position < w[e].position => f \in Before(s, e)
      BY <1>5 DEF GivesTo
    <2>2. /\ e \in DOMAIN w /\ w[e].room = FreedRow(s).room
          /\ Overlaps(w[e].slot, FreedRow(s).slot)
      BY WaitingAre
    <2>3. ASSUME NEW f \in DOMAIN w, w[f].status = "waiting", w[f].room = w[e].room,
                 w[f].slot = w[e].slot, w[f].position < w[e].position
          PROVE  f \in tx'[s].skipped \cup tx'[s].heads
      BY <1>3, <2>1, <2>2, <2>3
    <2> QED
      BY <1>1, <1>2, <2>1, <2>2, <2>3, OffersStay DEF OffersOK
  <1> QED
    BY <1>1, <1>4, <1>5

\* Whatever happens, each session keeps this.
LEMMA OffersStep ==
    ASSUME TxInv, [TxNext]_txVars, NEW r \in Sessions, Open(r)', Open(r) => OffersOK(r)
    PROVE  OffersOK(r)'
  <1>1. CASE Unmoved(r) \/ LockRow(r)
    <2>1. /\ Open(r) /\ tx'[r].call = tx[r].call /\ tx'[r].time = tx[r].time
          /\ tx'[r].snapB = tx[r].snapB /\ tx'[r].snapW = tx[r].snapW
          /\ tx'[r].frees = tx[r].frees /\ tx'[r].heads = tx[r].heads
          /\ tx'[r].skipped = tx[r].skipped /\ tx[r].reads \subseteq tx'[r].reads
      <3>1. CASE Unmoved(r)
        BY <3>1 DEF Unmoved, OpenFields
      <3>2. CASE LockRow(r)
        BY <3>2, LockRowEffect DEF TxInv
      <3> QED
        BY <1>1, <3>1, <3>2
    <2>2. Given(r)' = Given(r)
      BY <2>1 DEF Given, FreesRows, OwnRows
    <2> QED
      BY <2>1, <2>2, OffersStay DEF OffersOK
  <1>2. CASE OfferNext(r)
    BY <1>2, OffersGiven DEF OfferNext
  <1>3. ASSUME NEW c \in Call, NEW n, NEW time, NEW result, Begin(r, c, n, time, result)
        PROVE  OffersOK(r)'
    <2>1. /\ tx'[r].held = {} /\ tx'[r].heads = {}
      BY <1>3, BeginEffect DEF TxInv
    <2>2. ProgressOK(r)'
      BY NextTxInv DEF TxInv, SessionOK
    <2>3. Given(r)' = {}
      <3>1. CASE tx'[r].locks = <<>>
        <4>1. Range(tx'[r].locks) = {}
          BY <3>1 DEF Range
        <4>2. OwnRows(r)' = {}
          BY <2>1, <2>2, <4>1 DEF ProgressOK
        <4> QED
          BY <4>2 DEF Given, FreesRows
      <3>2. CASE tx'[r].locks # <<>>
        BY <2>2, <3>2 DEF ProgressOK
      <3> QED
        BY <3>1, <3>2
    <2> QED
      BY <2>1, <2>3 DEF OffersOK
  <1>4. \/ Unmoved(r) \/ LockRow(r) \/ OfferNext(r)
        \/ \E c \in Call : \E n, time, result : Begin(r, c, n, time, result)
    BY OpenAfter DEF Still
  <1> QED
    BY <1>1, <1>2, <1>3, <1>4

-------------------------------------------------------------------------------
(* What a commit does to a slot that is in use. *)

\* A row that a transaction writes, of those there were, is one that it has locked.
LEMMA WritesHeld ==
    ASSUME TxInv, NEW s \in Sessions, Commit(s), NEW x \in DOMAIN bookings \cup DOMAIN waitlist,
           x \in Writes(s)
    PROVE  x \in tx[s].held /\ x \notin Dirty(s) /\ (x \in OwnRows(s) \/ x \in tx[s].heads)
  <1>1. Adds(tx[s].call) \cap (DOMAIN bookings \cup DOMAIN waitlist) = {} /\ HeldAlone(s)
        /\ tx[s].held = OwnRows(s) \cup tx[s].heads
    BY AtCommit DEF RequestOK
  <1>2. x \in Ids
    BY DEF TxInv, TypeOK, Ids
  <1>3. x \notin {"bookings", "waitlist"}
    BY <1>2, IdsAssumption DEF Ids
  <1>4. x \in tx[s].held
    BY <1>1, <1>3, RememberedWell
  <1> QED
    BY <1>1, <1>4 DEF HeldAlone

\* A booking that gives up its slot gives it to the queue.
LEMMA FreedAre ==
    ASSUME TxInv, NEW s \in Sessions, Commit(s), NEW b \in Freed
    PROVE  /\ b \in Given(s) /\ b \in Writes(s) \ Dirty(s)
           /\ b \in DOMAIN tx[s].snapB /\ bookings[b] = tx[s].snapB[b]
  <1> DEFINE c == tx[s].call
  <1>1. b \in DOMAIN bookings /\ Active(b) /\ bookings'[b].status \notin ActiveStatuses
    BY DEF Freed
  <1>2. SessionOK(s) /\ c \in Call /\ TypeOK /\ b \in BookingId
    BY <1>1, AtCommit DEF RequestOK, TxInv, TypeOK
  <1>3. b \in Writes(s)
    BY <1>1, BookingsAfter DEF Active
  <1>4. b \notin Dirty(s) /\ (b \in OwnRows(s) \/ b \in tx[s].heads)
    BY <1>1, <1>3, WritesHeld
  <1>5. b \in OwnRows(s)
    <2>1. tx[s].heads \subseteq WaitlistId
      BY <1>2, AtCommit DEF TypeOK
    <2> QED
      BY <1>2, <1>4, <2>1, IdsAssumption
  <1>6. c.op \notin {"create", "join", "confirm", "expire", "leave"}
    BY <1>2, <1>5, IdsAssumption DEF OwnRows, Call
  <1>7. c.op # "approve"
    <2>1. ASSUME c.op = "approve"
          PROVE  FALSE
      <3>1. b = c.id
        BY <1>5, <2>1 DEF OwnRows
      <3>2. bookings' = [bookings EXCEPT ![b].status = "approved"]
        BY <2>1, <3>1 DEF Commit, NewBookings, SetStatus
      <3>3. bookings[b] \in BookingRow
        BY <1>1, <1>2 DEF TypeOK
      <3>4. bookings'[b].status = "approved"
        BY <1>1, <3>2, <3>3 DEF BookingRow
      <3> QED
        BY <1>1, <3>4 DEF ActiveStatuses
    <2> QED
      BY <2>1
  <1>8. c.op \in {"cancel", "reject", "sweep"}
    BY <1>2, <1>6, <1>7 DEF Call
  <1>9. b \in FreesRows(s)
    BY <1>5, <1>8 DEF FreesRows
  <1>10. b \in Given(s)
    BY <1>9, AtCommit
  <1>11. b \in DOMAIN tx[s].snapB
    BY <1>2, <1>5, <1>8 DEF OwnRows, SessionOK, FoundOK
  <1> QED
    BY <1>3, <1>4, <1>5, <1>10, <1>11, AtCommit

\* A confirmation books what the entry asked for.
LEMMA ConfirmBooks ==
    ASSUME TxInv, NEW s \in Sessions, Commit(s), tx[s].call.op = "confirm",
           NEW room, room = tx[s].snapW[tx[s].call.id].room,
           NEW slot, slot = tx[s].snapW[tx[s].call.id].slot
    PROVE  slot \in Slots /\ Busy(room, slot)'
  <1> DEFINE c == tx[s].call
             e == waitlist[c.id]
             row == [room |-> e.room, user |-> e.user, slot |-> e.slot, status |-> "confirmed",
                     createdAt |-> tx[s].time, reason |-> NoReason]
  <1>1. SessionOK(s) /\ c \in Call
    BY AtCommit DEF RequestOK
  <1>2. c.id \in OwnRows(s) /\ c.id \in DOMAIN tx[s].snapW
    BY <1>1 DEF OwnRows, Call, Ids, SessionOK, FoundOK
  <1>3. e = tx[s].snapW[c.id] /\ e \in WaitlistRow
    BY <1>1, <1>2, AtCommit DEF SessionOK, SnapshotOK
  <1>4. bookings' = Put(bookings, c.booking, row)
    BY DEF Commit, NewBookings, At!NewBooking, NoReason, At!NoReason
  <1>5. c.booking \in DOMAIN bookings' /\ bookings'[c.booking] = row
    BY <1>4 DEF Put
  <1>6. slot \in Slots /\ Overlaps(slot, slot)
    BY <1>3, SlotsAssumption DEF WaitlistRow, Overlaps
  <1>7. \E x \in DOMAIN bookings' : /\ bookings'[x].room = room
                                    /\ bookings'[x].status \in ActiveStatuses
                                    /\ Overlaps(bookings'[x].slot, slot)
    <2>1. row.room = room /\ row.slot = slot /\ row.status \in ActiveStatuses
      BY <1>3 DEF ActiveStatuses
    <2> HIDE DEF row
    <2> QED
      BY <1>5, <1>6, <2>1
  <1> QED
    BY <1>6, <1>7 DEF Busy, Active

\* An offer that is not there any more became a booking, or gives its slot to the queue.
LEMMA LapsedAre ==
    ASSUME TxInv, NEW s \in Sessions, Commit(s),
           NEW e \in DOMAIN waitlist, waitlist[e].status = "offered",
           ~(e \in DOMAIN waitlist' /\ waitlist'[e].status = "offered"),
           NEW room, room = waitlist[e].room, NEW slot, slot = waitlist[e].slot
    PROVE  \/ Busy(room, slot)'
           \/ /\ e \in Given(s) /\ e \in Writes(s) \ Dirty(s)
              /\ e \in DOMAIN tx[s].snapW /\ e \notin DOMAIN tx[s].snapB
              /\ waitlist[e] = tx[s].snapW[e]
  <1> DEFINE c == tx[s].call
  <1>1. SessionOK(s) /\ c \in Call /\ TypeOK /\ e \in WaitlistId
    BY AtCommit DEF RequestOK, TxInv, TypeOK
  <1>2. e \in Writes(s)
    BY WaitlistAfter
  <1>3. e \notin Dirty(s) /\ (e \in OwnRows(s) \/ e \in tx[s].heads)
    BY <1>2, WritesHeld
  <1>4. e \in OwnRows(s)
    BY <1>3, AtCommit
  <1>5. e \notin DOMAIN tx[s].snapB
    BY <1>1, IdsAssumption DEF SessionOK, SnapshotOK
  <1>6. c.op \in {"confirm", "expire", "leave"} /\ e = c.id
    BY <1>1, <1>4, <1>5, IdsAssumption DEF OwnRows, Call
  <1>7. e \in DOMAIN tx[s].snapW
    BY <1>1, <1>6 DEF SessionOK, FoundOK
  <1>8. waitlist[e] = tx[s].snapW[e]
    BY <1>4, <1>7, AtCommit
  <1>9. CASE c.op = "confirm"
    BY <1>6, <1>8, <1>9, ConfirmBooks
  <1>10. CASE c.op \in {"expire", "leave"}
    <2>1. e \in FreesRows(s)
      BY <1>4, <1>8, <1>10 DEF FreesRows
    <2>2. e \in Given(s)
      BY <2>1, AtCommit
    <2> QED
      BY <1>2, <1>3, <1>5, <1>7, <1>8, <2>2
  <1> QED
    BY <1>6, <1>9, <1>10

\* Who is made an offer asks for what he asked for, and holds the offer.
LEMMA HeadsAre ==
    ASSUME TxInv, NEW s \in Sessions, Commit(s), NEW h \in tx[s].heads
    PROVE  /\ h \in DOMAIN waitlist /\ h \in DOMAIN tx[s].snapW /\ h \notin Dirty(s)
           /\ waitlist[h] = tx[s].snapW[h] /\ waitlist[h].status = "waiting"
           /\ h \in DOMAIN waitlist' /\ waitlist'[h].status = "offered"
           /\ waitlist'[h].room = waitlist[h].room /\ waitlist'[h].slot = waitlist[h].slot
           /\ waitlist'[h].position = waitlist[h].position
  <1>1. /\ h \in DOMAIN waitlist /\ h \in DOMAIN tx[s].snapW
        /\ waitlist[h] = tx[s].snapW[h] /\ waitlist[h].status = "waiting"
        /\ tx[s].held = OwnRows(s) \cup tx[s].heads /\ HeldAlone(s)
    BY AtCommit
  <1>2. h \notin Dirty(s)
    BY <1>1 DEF HeldAlone
  <1>3. h \in DOMAIN waitlist' /\ waitlist'[h].status = "offered"
    BY OffersMade DEF NewlyOffered
  <1> QED
    BY <1>1, <1>2, <1>3, WaitlistAfter DEF EntryForward

\* A slot of a room does not stand idle.
Covered(room, slot) ==
    \/ Busy(room, slot)
    \/ \E f \in Queued(room) : waitlist[f].status = "offered" /\ waitlist[f].slot = slot

\* A booking or an offer by which a slot is in use, and of which a transaction knows.
UsedBy(s, x, room, slot) ==
    \/ /\ x \in DOMAIN bookings /\ x \in DOMAIN tx[s].snapB
       /\ bookings[x] = tx[s].snapB[x]
       /\ Active(x) /\ bookings[x].room = room /\ bookings[x].slot = slot
    \/ /\ x \in DOMAIN waitlist /\ x \in DOMAIN tx[s].snapW
       /\ waitlist[x] = tx[s].snapW[x]
       /\ waitlist[x].status = "offered"
       /\ waitlist[x].room = room /\ waitlist[x].slot = slot

\* A commit that gives a slot away passes it on to somebody, or nobody was left.
LEMMA GivenPassesOn ==
    ASSUME TxInv, NEW s \in Sessions, Commit(s), OffersOK(s), DisjointSlots,
           NEW room, NEW slot \in Slots, NEW x \in Given(s),
           RowOf(s, x).room = room, RowOf(s, x).slot = slot
    PROVE  Exhausted(s, room, slot)
           \/ \E f \in DOMAIN waitlist' : /\ waitlist'[f].room = room
                                          /\ waitlist'[f].status = "offered"
                                          /\ waitlist'[f].slot = slot
  <1> SUFFICES ASSUME NEW h \in tx[s].heads,
                      tx[s].snapW[h].room = room, Overlaps(tx[s].snapW[h].slot, slot)
               PROVE  /\ h \in DOMAIN waitlist' /\ waitlist'[h].status = "offered"
                      /\ waitlist'[h].room = room /\ waitlist'[h].slot = slot
    BY DEF OffersOK
  <1>1. /\ h \in DOMAIN waitlist /\ waitlist[h] = tx[s].snapW[h]
        /\ h \in DOMAIN waitlist' /\ waitlist'[h].status = "offered"
        /\ waitlist'[h].room = waitlist[h].room /\ waitlist'[h].slot = waitlist[h].slot
    BY HeadsAre
  <1>2. waitlist[h].slot \in Slots
    BY <1>1 DEF TxInv, TypeOK, WaitlistRow
  <1> QED
    BY <1>1, <1>2 DEF DisjointSlots

\* After a commit a slot that was in use is, or the transaction gave it away and nobody was
\* left to take it.
LEMMA CoverAfter ==
    ASSUME TxInv, NEW s \in Sessions, Commit(s), OffersOK(s), DisjointSlots,
           NEW room, NEW slot \in Slots, Covered(room, slot)
    PROVE  \/ Covered(room, slot)'
           \/ /\ Exhausted(s, room, slot)
              /\ \E x \in Writes(s) \ Dirty(s) : UsedBy(s, x, room, slot)
  <1>1. ASSUME NEW f \in DOMAIN waitlist', waitlist'[f].room = room,
               waitlist'[f].status = "offered", waitlist'[f].slot = slot
        PROVE  Covered(room, slot)'
    BY <1>1 DEF Covered, Queued, QueuedStatuses
  <1>2. ASSUME NEW b \in DOMAIN bookings, bookings[b].room = room, Active(b),
               Overlaps(bookings[b].slot, slot)
        PROVE  \/ Covered(room, slot)'
               \/ /\ Exhausted(s, room, slot)
                  /\ \E x \in Writes(s) \ Dirty(s) : UsedBy(s, x, room, slot)
    <2>1. b \in DOMAIN bookings' /\ bookings'[b].room = room
          /\ bookings'[b].slot = bookings[b].slot
      BY <1>2, BookingsAfter DEF BookingForward
    <2>2. bookings[b].slot = slot
      BY <1>2 DEF DisjointSlots, TxInv, TypeOK, BookingRow
    <2>3. CASE bookings'[b].status \in ActiveStatuses
      BY <1>2, <2>1, <2>3 DEF Covered, Busy, Active
    <2>4. CASE bookings'[b].status \notin ActiveStatuses
      <3>1. b \in Freed
        BY <1>2, <2>4 DEF Freed
      <3>2. /\ b \in Given(s) /\ b \in Writes(s) \ Dirty(s)
            /\ b \in DOMAIN tx[s].snapB /\ bookings[b] = tx[s].snapB[b]
        BY <3>1, FreedAre
      <3>3. RowOf(s, b).room = room /\ RowOf(s, b).slot = slot
        BY <1>2, <2>2, <3>2 DEF RowOf
      <3>4. UsedBy(s, b, room, slot)
        BY <1>2, <2>2, <3>2 DEF UsedBy
      <3> QED
        BY <1>1, <3>2, <3>3, <3>4, GivenPassesOn
    <2> QED
      BY <2>3, <2>4
  <1>3. ASSUME NEW f \in Queued(room), waitlist[f].status = "offered", waitlist[f].slot = slot
        PROVE  \/ Covered(room, slot)'
               \/ /\ Exhausted(s, room, slot)
                  /\ \E x \in Writes(s) \ Dirty(s) : UsedBy(s, x, room, slot)
    <2>1. f \in DOMAIN waitlist /\ waitlist[f].room = room
      BY DEF Queued
    <2>2. CASE f \in DOMAIN waitlist' /\ waitlist'[f].status = "offered"
      <3>1. waitlist'[f].room = room /\ waitlist'[f].slot = slot
        BY <1>3, <2>1, <2>2, WaitlistAfter DEF EntryForward
      <3> QED
        BY <1>1, <2>2, <3>1
    <2>3. CASE ~(f \in DOMAIN waitlist' /\ waitlist'[f].status = "offered")
      <3>1. CASE Busy(room, slot)'
        BY <3>1 DEF Covered
      <3>2. CASE /\ f \in Given(s) /\ f \in Writes(s) \ Dirty(s)
                 /\ f \in DOMAIN tx[s].snapW /\ f \notin DOMAIN tx[s].snapB
                 /\ waitlist[f] = tx[s].snapW[f]
        <4>1. RowOf(s, f).room = room /\ RowOf(s, f).slot = slot
          BY <1>3, <2>1, <3>2 DEF RowOf
        <4>2. UsedBy(s, f, room, slot)
          BY <1>3, <2>1, <3>2 DEF UsedBy
        <4> QED
          BY <1>1, <3>2, <4>1, <4>2, GivenPassesOn
      <3> QED
        BY <1>3, <2>1, <2>3, <3>1, <3>2, LapsedAre
    <2> QED
      BY <2>2, <2>3
  <1> QED
    BY <1>2, <1>3 DEF Covered, Busy

-------------------------------------------------------------------------------
(* Newcomers. *)

\* An entry that joined the queue of a room since the snapshot stands behind all that the
\* snapshot has in that queue; and who added it had read all those, and the bookings by
\* which its slot was taken, or else had been overtaken itself.
JoinedSince(s, e) ==
    /\ \A f \in DOMAIN tx[s].snapW \ Dirty(s) :
        /\ tx[s].snapW[f].status \in QueuedStatuses
        /\ tx[s].snapW[f].room = waitlist[e].room
        => tx[s].snapW[f].position < waitlist[e].position
    /\ \E i \in DOMAIN tx[s].since :
        /\ "waitlist" \in tx[s].since[i].writes
        /\ DisjointSlots => \A b \in DOMAIN tx[s].snapB \ Dirty(s) :
            /\ tx[s].snapB[b].status \in ActiveStatuses
            /\ tx[s].snapB[b].room = waitlist[e].room
            /\ Overlaps(tx[s].snapB[b].slot, waitlist[e].slot)
            => b \in tx[s].since[i].reads \/ tx[s].since[i].behind
        /\ \A f \in DOMAIN tx[s].snapW \ Dirty(s) :
            /\ tx[s].snapW[f].status \in QueuedStatuses
            /\ tx[s].snapW[f].room = waitlist[e].room
            => f \in tx[s].since[i].reads

NewcomersOK(s) ==
    \A e \in DOMAIN waitlist :
        waitlist[e].status \in QueuedStatuses => Same(s, e) \/ JoinedSince(s, e)

\* Who joins has read the bookings by which the slot is taken, or has been overtaken: they
\* are not those that it found, so one of those was given up since.
LEMMA JoinReadsBookings ==
    ASSUME TxInv, NEW t \in Sessions, Open(t), tx[t].call.op = "join", DisjointSlots,
           NEW b \in DOMAIN bookings, Active(b), bookings[b].room = tx[t].call.room,
           Overlaps(bookings[b].slot, tx[t].call.slot), b \notin tx[t].reads
    PROVE  Behind(t)
  <1> DEFINE c == tx[t].call
             w == tx[t].snapB
  <1>1. SessionOK(t) /\ c \in Call
    BY OpenShape DEF TxInv, RequestsOK
  <1>2. PICK x \in DOMAIN w : /\ w[x].room = c.room /\ w[x].status \in ActiveStatuses
                              /\ Overlaps(w[x].slot, c.slot)
    BY <1>1 DEF SessionOK, FoundOK
  <1>3. x \in tx[t].reads
    BY <1>1, <1>2 DEF SessionOK, ReadsOK
  <1>4. x # b
    BY <1>3
  <1>5. x \in DOMAIN bookings /\ bookings[x].room = w[x].room /\ bookings[x].slot = w[x].slot
    BY <1>1 DEF SessionOK, SinceOK
  <1>6. bookings[b].slot = bookings[x].slot /\ bookings[b].slot \in Slots
    <2>1. bookings[b].slot \in Slots /\ bookings[x].slot \in Slots
      BY <1>5 DEF TxInv, TypeOK, BookingRow
    <2>2. c.slot \in Slots
      BY <1>1 DEF Call
    <2> QED
      BY <1>2, <1>5, <2>1, <2>2 DEF DisjointSlots
  <1>7. Overlaps(bookings[b].slot, bookings[x].slot)
    BY <1>6, SlotsAssumption DEF Overlaps
  <1>8. ~Active(x)
    BY <1>2, <1>4, <1>5, <1>7 DEF TxInv, NoDoubleBooking
  <1>9. x \in Dirty(t)
    BY <1>1, <1>2, <1>8 DEF SessionOK, SinceOK, Active
  <1> QED
    BY <1>3, <1>9 DEF Dirty, Behind, Overwritten

\* Who joins has read the queue that he joins.
LEMMA JoinReadsQueue ==
    ASSUME TxInv, NEW t \in Sessions, Commit(t), tx[t].call.op = "join",
           NEW f \in Queued(tx[t].call.room)
    PROVE  f \in tx[t].reads
  <1>1. SessionOK(t) /\ Serializable(t) /\ tx[t].call \in Call
    BY AtCommit DEF RequestOK
  <1>2. "waitlist" \in tx[t].reads /\ "waitlist" \in Writes(t)
    BY <1>1, WritesAre DEF SessionOK, ReadsOK
  <1>3. "waitlist" \notin Dirty(t)
    BY <1>1, <1>2, NoNewRows
  <1>4. Same(t, f)
    BY <1>1, <1>3 DEF SessionOK, SinceOK, Queued
  <1> QED
    BY <1>1, <1>4 DEF SessionOK, ReadsOK, Queued, Same

\* So an entry that joins while another transaction goes on is as that one will find it.
LEMMA JoinsBehind ==
    ASSUME TxInv, NEW t \in Sessions, Commit(t), NEW r \in Sessions \ {t}, Open(r),
           NEW id, NEW row \in WaitlistRow, Enqueues(id, row), tx[t].call.op = "join",
           row.room = tx[t].call.room, row.slot = tx[t].call.slot, "waitlist" \in Writes(t)
    PROVE  JoinedSince(r, id)'
  <1> DEFINE last == Len(tx[r].since) + 1
  <1>1. /\ tx'[r].snapB = tx[r].snapB /\ tx'[r].snapW = tx[r].snapW
        /\ Dirty(r) \subseteq Dirty(r)' /\ SinceOK(r)
        /\ last \in DOMAIN tx'[r].since
        /\ tx'[r].since[last] = [reads |-> tx[t].reads, writes |-> Writes(t), behind |-> Behind(t)]
    BY CommitBehind DEF SessionOK
  <1>2. waitlist'[id] = row
    BY DEF Enqueues, Put
  <1>3. ASSUME NEW f \in DOMAIN tx[r].snapW \ Dirty(r)',
               tx[r].snapW[f].status \in QueuedStatuses, tx[r].snapW[f].room = row.room
        PROVE  tx[r].snapW[f].position < row.position /\ f \in tx[t].reads
    <2>1. f \in DOMAIN waitlist /\ waitlist[f] = tx[r].snapW[f]
      BY <1>1 DEF SinceOK
    <2>2. f \in Queued(row.room)
      BY <1>3, <2>1 DEF Queued
    <2> QED
      BY <2>1, <2>2, JoinReadsQueue DEF Enqueues
  <1>4. ASSUME DisjointSlots, NEW b \in DOMAIN tx[r].snapB \ Dirty(r)',
               tx[r].snapB[b].status \in ActiveStatuses, tx[r].snapB[b].room = row.room,
               Overlaps(tx[r].snapB[b].slot, row.slot)
        PROVE  b \in tx[t].reads \/ Behind(t)
    <2>1. b \in DOMAIN bookings /\ bookings[b] = tx[r].snapB[b]
      BY <1>1 DEF SinceOK
    <2>2. Open(t)
      BY AtCommit
    <2> QED
      BY <1>4, <2>1, <2>2, JoinReadsBookings DEF Active
  <1> DEFINE this == tx'[r].since[last]
  <1>5. this.reads = tx[t].reads /\ this.writes = Writes(t) /\ this.behind = Behind(t)
    BY <1>1
  <1> HIDE DEF last, this
  <1>6. \A f \in DOMAIN tx'[r].snapW \ Dirty(r)' :
            /\ tx'[r].snapW[f].status \in QueuedStatuses
            /\ tx'[r].snapW[f].room = waitlist'[id].room
            => tx'[r].snapW[f].position < waitlist'[id].position /\ f \in this.reads
    BY <1>1, <1>2, <1>3, <1>5
  <1>7. DisjointSlots => \A b \in DOMAIN tx'[r].snapB \ Dirty(r)' :
            /\ tx'[r].snapB[b].status \in ActiveStatuses
            /\ tx'[r].snapB[b].room = waitlist'[id].room
            /\ Overlaps(tx'[r].snapB[b].slot, waitlist'[id].slot)
            => b \in this.reads \/ this.behind
    BY <1>1, <1>2, <1>4, <1>5
  <1> QED
    BY <1>1, <1>5, <1>6, <1>7 DEF JoinedSince, this

\* Entries that were there stay as the transaction would find them.
LEMMA StaysBehind ==
    ASSUME TxInv, NEW t \in Sessions, Commit(t), NEW r \in Sessions \ {t}, Open(r),
           NEW e \in DOMAIN waitlist, e \in DOMAIN waitlist', waitlist'[e].status \in QueuedStatuses,
           NewcomersOK(r)
    PROVE  Same(r, e)' \/ JoinedSince(r, e)'
  <1>1. /\ tx'[r].snapB = tx[r].snapB /\ tx'[r].snapW = tx[r].snapW
        /\ Dirty(r) \subseteq Dirty(r)'
        /\ DOMAIN tx[r].since \subseteq DOMAIN tx'[r].since
        /\ \A i \in DOMAIN tx[r].since : tx'[r].since[i] = tx[r].since[i]
    <2>1. /\ tx'[r].snapB = tx[r].snapB /\ tx'[r].snapW = tx[r].snapW
          /\ Dirty(r)' = Dirty(r) \cup Writes(t)
          /\ DOMAIN tx'[r].since = DOMAIN tx[r].since \cup {Len(tx[r].since) + 1}
      BY CommitBehind
    <2>2. \A i \in DOMAIN tx[r].since : tx'[r].since[i] = tx[r].since[i]
      BY CommitBehind
    <2> QED
      BY <2>1, <2>2
  <1>2. EntryForward(e) /\ waitlist'[e].room = waitlist[e].room
    BY WaitlistAfter
  <1>3. waitlist[e].status \in QueuedStatuses
        /\ (waitlist'[e].status = "waiting" => waitlist[e].status = "waiting")
    BY <1>2 DEF EntryForward, QueuedStatuses
  <1>4. CASE Same(r, e)
    BY <1>1, <1>2, <1>3, <1>4 DEF Same, EntryForward
  <1>5. CASE JoinedSince(r, e)
    <2>1. waitlist'[e].slot = waitlist[e].slot /\ waitlist'[e].position = waitlist[e].position
      BY <1>2 DEF EntryForward
    <2>2. PICK i \in DOMAIN tx[r].since :
            /\ "waitlist" \in tx[r].since[i].writes
            /\ DisjointSlots => \A b \in DOMAIN tx[r].snapB \ Dirty(r) :
                /\ tx[r].snapB[b].status \in ActiveStatuses
                /\ tx[r].snapB[b].room = waitlist[e].room
                /\ Overlaps(tx[r].snapB[b].slot, waitlist[e].slot)
                => b \in tx[r].since[i].reads \/ tx[r].since[i].behind
            /\ \A f \in DOMAIN tx[r].snapW \ Dirty(r) :
                /\ tx[r].snapW[f].status \in QueuedStatuses
                /\ tx[r].snapW[f].room = waitlist[e].room
                => f \in tx[r].since[i].reads
      BY <1>5 DEF JoinedSince
    <2>3. \A f \in DOMAIN tx[r].snapW \ Dirty(r) :
            /\ tx[r].snapW[f].status \in QueuedStatuses
            /\ tx[r].snapW[f].room = waitlist[e].room
            => tx[r].snapW[f].position < waitlist[e].position
      BY <1>5 DEF JoinedSince
    <2> QED
      BY <1>1, <1>2, <2>1, <2>2, <2>3 DEF JoinedSince
  <1> QED
    BY <1>3, <1>4, <1>5 DEF NewcomersOK

\* Whatever happens, each session keeps this.
LEMMA NewcomersStep ==
    ASSUME TxInv, [TxNext]_txVars, NEW r \in Sessions, Open(r)', Open(r) => NewcomersOK(r)
    PROVE  NewcomersOK(r)'
  <1>1. CASE (Still(r) /\ UNCHANGED <<bookings, waitlist>>) \/ LockRow(r) \/ OfferNext(r)
    <2>1. /\ Open(r) /\ UNCHANGED waitlist
          /\ tx'[r].snapB = tx[r].snapB /\ tx'[r].snapW = tx[r].snapW
          /\ tx'[r].since = tx[r].since
      <3>1. CASE Still(r) /\ UNCHANGED <<bookings, waitlist>>
        BY <3>1 DEF Still, Unmoved, OpenFields
      <3>2. CASE LockRow(r)
        BY <3>2, LockRowEffect DEF TxInv, OnlySession
      <3>3. CASE OfferNext(r)
        BY <3>3, GivesNext
      <3> QED
        BY <1>1, <3>1, <3>2, <3>3
    <2>2. Dirty(r)' = Dirty(r)
      BY <2>1 DEF Dirty
    <2> QED
      BY <2>1, <2>2 DEF NewcomersOK, Same, JoinedSince
  <1>2. ASSUME NEW c \in Call, NEW n, NEW time, NEW result, Begin(r, c, n, time, result),
               UNCHANGED <<bookings, waitlist, now>>
        PROVE  NewcomersOK(r)'
    <2>1. tx'[r].snapW = waitlist
      BY <1>2, BeginEffect DEF TxInv
    <2> QED
      BY <1>2, <2>1 DEF NewcomersOK, Same
  <1>3. ASSUME NEW t \in Sessions \ {r}, Commit(t), Open(r)
        PROVE  NewcomersOK(r)'
    <2> SUFFICES ASSUME NEW e \in DOMAIN waitlist', waitlist'[e].status \in QueuedStatuses
                 PROVE  Same(r, e)' \/ JoinedSince(r, e)'
      BY DEF NewcomersOK
    <2>1. CASE e \in DOMAIN waitlist
      BY <1>3, <2>1, StaysBehind
    <2>2. CASE e \notin DOMAIN waitlist
      <3>1. PICK id \in Adds(tx[t].call), row \in WaitlistRow :
                /\ Enqueues(id, row)
                /\ row.room = tx[t].call.room /\ row.slot = tx[t].call.slot
                /\ tx[t].call.op = "join"
                /\ {id, "waitlist"} \subseteq Writes(t)
        BY <1>3, <2>2, CommitWaitlist DEF WaitlistCommit, Serves
      <3>2. e = id
        BY <2>2, <3>1 DEF Enqueues, Put
      <3> QED
        BY <1>3, <3>1, <3>2, JoinsBehind
    <2> QED
      BY <2>1, <2>2
  <1>4. \/ Still(r) /\ UNCHANGED <<bookings, waitlist>>
        \/ LockRow(r) \/ OfferNext(r)
        \/ \E c \in Call : \E n, time, result :
                Begin(r, c, n, time, result) /\ UNCHANGED <<bookings, waitlist, now>>
        \/ \E t \in Sessions \ {r} : Commit(t) /\ Open(r)
    BY OpenAfter
  <1> QED
    BY <1>1, <1>2, <1>3, <1>4

-------------------------------------------------------------------------------
(* Who joins does not wait for an idle slot. *)

\* The slot for which a transaction joins the queue is in use, or it was given up since by
\* transactions that end its hopes to commit: one overwrote what it read, and that one or
\* a later one has looked for entries.
CoverOK(s) ==
    DisjointSlots /\ tx[s].call.op = "join" =>
        \/ Covered(tx[s].call.room, tx[s].call.slot)
        \/ \E i, j \in DOMAIN tx[s].since : /\ i <= j
                                            /\ Overwritten(s, tx[s].since[i])
                                            /\ "waitlist" \in tx[s].since[j].reads

\* Who joins has read the booking or the offer by which the slot is in use, or has been
\* overtaken.
LEMMA UserIsRead ==
    ASSUME TxInv, NEW r \in Sessions, Open(r), tx[r].call.op = "join", DisjointSlots,
           NewcomersOK(r), NEW s, NEW x, UsedBy(s, x, tx[r].call.room, tx[r].call.slot),
           x \notin tx[r].reads
    PROVE  Behind(r)
  <1>1. SessionOK(r) /\ tx[r].call \in Call
    BY OpenShape DEF TxInv, RequestsOK
  <1>2. CASE x \in DOMAIN bookings /\ Active(x) /\ bookings[x].room = tx[r].call.room
             /\ bookings[x].slot = tx[r].call.slot
    <2>1. Overlaps(bookings[x].slot, tx[r].call.slot)
      BY <1>1, <1>2, SlotsAssumption DEF Call, Overlaps
    <2> QED
      BY <1>2, <2>1, JoinReadsBookings
  <1>3. CASE x \in DOMAIN waitlist /\ waitlist[x].status = "offered"
             /\ waitlist[x].room = tx[r].call.room
    <2>1. waitlist[x].status \in QueuedStatuses /\ "waitlist" \in tx[r].reads
      BY <1>1, <1>3 DEF QueuedStatuses, SessionOK, ReadsOK
    <2>2. ~Same(r, x)
      BY <1>1, <1>3, <2>1 DEF Same, SessionOK, ReadsOK
    <2>3. JoinedSince(r, x)
      BY <1>3, <2>1, <2>2 DEF NewcomersOK
    <2> QED
      BY <2>1, <2>3 DEF JoinedSince, Behind, Overwritten
  <1> QED
    BY <1>2, <1>3 DEF UsedBy

\* Another commit leaves the slot in use, or ends the transaction's hopes.
LEMMA CoverBehind ==
    ASSUME TxInv, NEW s \in Sessions, Commit(s), NEW r \in Sessions \ {s}, Open(r),
           OffersOK(s), NewcomersOK(r), CoverOK(r)
    PROVE  CoverOK(r)'
  <1> DEFINE c == tx[r].call
             last == Len(tx[r].since) + 1
             new == tx'[r].since
  <1>1. tx'[r].call = c /\ tx'[r].reads = tx[r].reads /\ SessionOK(r)
    BY CommitBehind
  <1>2. DOMAIN new = DOMAIN tx[r].since \cup {last} /\ Len(tx[r].since) \in Nat
        /\ new[last] = [reads |-> tx[s].reads, writes |-> Writes(s), behind |-> Behind(s)]
    BY CommitBehind
  <1>3. \A i \in DOMAIN tx[r].since : new[i] = tx[r].since[i] /\ i <= Len(tx[r].since)
    BY CommitBehind
  <1>4. DOMAIN tx[r].since \subseteq Nat
    BY <1>1 DEF SessionOK, PastOK
  <1>5. new[last].reads = tx[s].reads /\ new[last].writes = Writes(s)
    BY <1>2
  <1>6. last \in DOMAIN new /\ last <= last /\ \A i \in DOMAIN tx[r].since : i <= last
    BY <1>2, <1>3, <1>4
  <1> HIDE DEF new, last
  <1> SUFFICES ASSUME DisjointSlots, c.op = "join"
               PROVE  \/ Covered(c.room, c.slot)'
                      \/ \E i, j \in DOMAIN new : /\ i <= j
                                                  /\ tx[r].reads \cap new[i].writes # {}
                                                  /\ "waitlist" \in new[j].reads
    BY <1>1 DEF CoverOK, Overwritten, new
  <1>7. c \in Call /\ c.slot \in Slots
    <2>1. c \in Call
      BY OpenShape DEF TxInv, RequestsOK
    <2> QED
      BY <2>1 DEF Call
  <1>8. ASSUME NEW i \in DOMAIN tx[r].since, NEW j \in DOMAIN tx[r].since,
               i <= j, Overwritten(r, tx[r].since[i]), "waitlist" \in tx[r].since[j].reads
        PROVE  \E k, m \in DOMAIN new : /\ k <= m
                                        /\ tx[r].reads \cap new[k].writes # {}
                                        /\ "waitlist" \in new[m].reads
    BY <1>2, <1>3, <1>8 DEF Overwritten
  <1>9. ASSUME Exhausted(s, c.room, c.slot), NEW x \in Writes(s) \ Dirty(s),
               UsedBy(s, x, c.room, c.slot)
        PROVE  \E k, m \in DOMAIN new : /\ k <= m
                                        /\ tx[r].reads \cap new[k].writes # {}
                                        /\ "waitlist" \in new[m].reads
    <2>1. "waitlist" \in new[last].reads
      BY <1>5, <1>9 DEF Exhausted
    <2>2. CASE x \in tx[r].reads
      BY <1>5, <1>6, <2>1, <2>2
    <2>3. CASE x \notin tx[r].reads
      <3>1. Behind(r)
        BY <1>9, <2>3, UserIsRead
      <3>2. PICK i \in DOMAIN tx[r].since : tx[r].reads \cap tx[r].since[i].writes # {}
        BY <3>1 DEF Behind, Overwritten
      <3> QED
        BY <1>2, <1>3, <1>6, <2>1, <3>2
    <2> QED
      BY <2>2, <2>3
  <1>10. CASE Covered(c.room, c.slot)
    <2>1. PICK room, slot : room = c.room /\ slot = c.slot
      OBVIOUS
    <2>2. \/ Covered(room, slot)'
          \/ /\ Exhausted(s, room, slot)
             /\ \E x \in Writes(s) \ Dirty(s) : UsedBy(s, x, room, slot)
      BY <1>7, <1>10, <2>1, CoverAfter
    <2>3. Covered(room, slot)' => Covered(c.room, c.slot)'
      BY <1>1, <2>1
    <2> QED
      BY <1>9, <2>1, <2>2, <2>3
  <1> QED
    BY <1>8, <1>10 DEF CoverOK

\* Whatever happens, each session keeps this.
LEMMA CoverStep ==
    ASSUME TxInv, [TxNext]_txVars, NEW r \in Sessions, Open(r)', Open(r) => CoverOK(r),
           \A s \in Sessions : Open(s) => OffersOK(s) /\ NewcomersOK(s)
    PROVE  CoverOK(r)'
  <1>1. CASE (Still(r) /\ UNCHANGED <<bookings, waitlist>>) \/ LockRow(r) \/ OfferNext(r)
    <2>1. /\ Open(r) /\ UNCHANGED <<bookings, waitlist>> /\ tx'[r].call = tx[r].call
          /\ tx[r].reads \subseteq tx'[r].reads /\ tx'[r].since = tx[r].since
      <3>1. CASE Still(r) /\ UNCHANGED <<bookings, waitlist>>
        BY <3>1 DEF Still, Unmoved, OpenFields
      <3>2. CASE LockRow(r)
        BY <3>2, LockRowEffect DEF TxInv, OnlySession
      <3>3. CASE OfferNext(r)
        BY <3>3, GivesNext DEF GivesToNobody, GivesTo
      <3> QED
        BY <1>1, <3>1, <3>2, <3>3
    <2>2. Covered(tx[r].call.room, tx[r].call.slot)' <=> Covered(tx[r].call.room, tx[r].call.slot)
      BY <2>1 DEF Covered, Busy, Active, Queued
    <2>3. \A past : Overwritten(r, past) => tx'[r].reads \cap past.writes # {}
      BY <2>1 DEF Overwritten
    <2> QED
      BY <2>1, <2>2, <2>3 DEF CoverOK, Overwritten
  <1>2. ASSUME NEW c \in Call, NEW n, NEW time, NEW result, Begin(r, c, n, time, result),
               Finds(c), UNCHANGED <<bookings, waitlist, now>>
        PROVE  CoverOK(r)'
    <2>1. tx'[r].call = c
      BY <1>2, BeginEffect DEF TxInv
    <2>2. c.op = "join" => Busy(c.room, c.slot)
      BY <1>2 DEF Finds
    <2>3. Busy(c.room, c.slot)' <=> Busy(c.room, c.slot)
      BY <1>2 DEF Busy, Active
    <2> QED
      BY <2>1, <2>2, <2>3 DEF CoverOK, Covered
  <1>3. ASSUME NEW t \in Sessions \ {r}, Commit(t), Open(r)
        PROVE  CoverOK(r)'
    <2>1. Open(t)
      BY <1>3, AtCommit
    <2> QED
      BY <1>3, <2>1, CoverBehind
  <1>4. \/ Still(r) /\ UNCHANGED <<bookings, waitlist>>
        \/ LockRow(r) \/ OfferNext(r)
        \/ \E c \in Call : \E n, time, result :
                Begin(r, c, n, time, result) /\ Finds(c) /\ UNCHANGED <<bookings, waitlist, now>>
        \/ \E t \in Sessions \ {r} : Commit(t) /\ Open(r)
    BY OpenAfter
  <1> QED
    BY <1>1, <1>2, <1>3, <1>4

-------------------------------------------------------------------------------
(* Fairness. *)

\* An entry that waits on after a commit, and that no committed offer has passed over, waited
\* before, was not passed over before, and not by this transaction.
LEMMA WaitsOn ==
    ASSUME TxInv, NEW s \in Sessions, Commit(s), NEW e \in DOMAIN waitlist,
           e \in DOMAIN waitlist', waitlist'[e].status = "waiting", e \notin passed'
    PROVE  /\ waitlist[e].status = "waiting"
           /\ e \notin passed /\ e \notin tx[s].skipped \cup tx[s].heads
           /\ waitlist'[e].room = waitlist[e].room /\ waitlist'[e].slot = waitlist[e].slot
           /\ waitlist'[e].position = waitlist[e].position
  <1>1. passed' = {x \in passed \cup tx[s].skipped :
                        x \in DOMAIN waitlist' /\ waitlist'[x].status = "waiting"}
    BY DEF Commit
  <1>2. e \notin tx[s].heads
    BY HeadsAre
  <1> QED
    BY <1>1, <1>2, WaitlistAfter DEF EntryForward

\* A transaction that offers a slot to an entry offers it to nobody behind one who waits on:
\* it has seen that one, or that one joined later.
LEMMA OffersAhead ==
    ASSUME TxInv, NEW s \in Sessions, Commit(s), OffersOK(s), NewcomersOK(s),
           NEW e \in DOMAIN waitlist, waitlist[e].status = "waiting",
           e \notin tx[s].skipped \cup tx[s].heads,
           NEW h \in tx[s].heads,
           waitlist[h].room = waitlist[e].room, waitlist[h].slot = waitlist[e].slot
    PROVE  waitlist[h].position < waitlist[e].position
  <1> DEFINE w == tx[s].snapW
  <1>1. /\ h \in DOMAIN waitlist /\ h \in DOMAIN w /\ h \notin Dirty(s)
        /\ waitlist[h] = w[h] /\ waitlist[h].status = "waiting"
    BY HeadsAre
  <1>2. waitlist[e].position \in Nat /\ waitlist[h].position \in Nat /\ waitlist[e].room \in Rooms
    BY <1>1 DEF TxInv, TypeOK, WaitlistRow
  <1>3. waitlist[h].position # waitlist[e].position
    BY <1>1, <1>2 DEF TxInv, PositionsDistinct, Queued, QueuedStatuses
  <1>4. CASE Same(s, e)
    BY <1>1, <1>2, <1>3, <1>4 DEF Same, OffersOK
  <1>5. CASE JoinedSince(s, e)
    BY <1>1, <1>5 DEF JoinedSince, QueuedStatuses
  <1> QED
    BY <1>4, <1>5 DEF NewcomersOK, QueuedStatuses

\* A transaction does not end the use of a slot for which an entry waits on that has not been
\* passed over: it has seen that one, or whoever added that one had read what it gives up,
\* and the two, or that one and another, are not serializable.
LEMMA GivesUpNothing ==
    ASSUME TxInv, NEW s \in Sessions, Commit(s), NewcomersOK(s), DisjointSlots,
           NEW e \in DOMAIN waitlist, waitlist[e].status = "waiting",
           e \notin tx[s].skipped \cup tx[s].heads,
           Exhausted(s, waitlist[e].room, waitlist[e].slot),
           NEW x \in Writes(s) \ Dirty(s), UsedBy(s, x, waitlist[e].room, waitlist[e].slot)
    PROVE  FALSE
  <1>1. waitlist[e].slot \in Slots
    BY DEF TxInv, TypeOK, WaitlistRow
  <1>2. Overlaps(waitlist[e].slot, waitlist[e].slot)
    BY <1>1, SlotsAssumption DEF Overlaps
  <1>3. CASE Same(s, e)
    BY <1>2, <1>3 DEF Same, Exhausted
  <1>4. CASE JoinedSince(s, e)
    <2>1. PICK i \in DOMAIN tx[s].since :
            /\ "waitlist" \in tx[s].since[i].writes
            /\ \A b \in DOMAIN tx[s].snapB \ Dirty(s) :
                /\ tx[s].snapB[b].status \in ActiveStatuses
                /\ tx[s].snapB[b].room = waitlist[e].room
                /\ Overlaps(tx[s].snapB[b].slot, waitlist[e].slot)
                => b \in tx[s].since[i].reads \/ tx[s].since[i].behind
            /\ \A f \in DOMAIN tx[s].snapW \ Dirty(s) :
                /\ tx[s].snapW[f].status \in QueuedStatuses
                /\ tx[s].snapW[f].room = waitlist[e].room
                => f \in tx[s].since[i].reads
      BY <1>4 DEF JoinedSince
    <2>2. Overwritten(s, tx[s].since[i])
      BY <2>1 DEF Exhausted, Overwritten
    <2>3. x \in tx[s].since[i].reads \/ tx[s].since[i].behind
      BY <1>2, <2>1 DEF UsedBy, Active, QueuedStatuses
    <2>4. Serializable(s) /\ DOMAIN tx[s].since \subseteq Nat
      BY AtCommit DEF SessionOK, PastOK
    <2>5. i <= i
      BY <2>4
    <2> QED
      BY <2>1, <2>2, <2>3, <2>4, <2>5 DEF Serializable
  <1> QED
    BY <1>3, <1>4 DEF NewcomersOK, QueuedStatuses

\* Who joins joins for a slot that is in use when the transaction commits.
LEMMA JoinsCovered ==
    ASSUME TxInv, NEW s \in Sessions, Commit(s), CoverOK(s), DisjointSlots,
           tx[s].call.op = "join"
    PROVE  Covered(tx[s].call.room, tx[s].call.slot)
  <1>1. Serializable(s) /\ tx[s].call \in Call
    BY AtCommit DEF RequestOK
  <1>2. "waitlist" \in Writes(s)
    BY <1>1, WritesAre
  <1> QED
    BY <1>1, <1>2 DEF CoverOK, Serializable

\* What FairButForLocks says of an entry.
FairTo(room, e) ==
    /\ \A f \in Queued(room) :
        waitlist[f].status = "offered" /\ waitlist[f].slot = waitlist[e].slot =>
            waitlist[f].position < waitlist[e].position
    /\ DisjointSlots => Covered(room, waitlist[e].slot)

\* An entry that waits on is treated as fairly as before,
LEMMA FairToOld ==
    ASSUME TxInv, FairButForLocks, NEW s \in Sessions, Commit(s),
           OffersOK(s), NewcomersOK(s),
           NEW room \in Rooms, NEW e \in DOMAIN waitlist, e \in DOMAIN waitlist',
           waitlist'[e].room = room, waitlist'[e].status = "waiting", e \notin passed'
    PROVE  FairTo(room, e)'
  <1>1. /\ waitlist[e].status = "waiting" /\ waitlist[e].room = room
        /\ e \notin passed /\ e \notin tx[s].skipped \cup tx[s].heads
        /\ waitlist'[e].slot = waitlist[e].slot /\ waitlist'[e].position = waitlist[e].position
    BY WaitsOn
  <1>2. FairTo(room, e)
    BY <1>1 DEF FairButForLocks, FairTo, Covered, Queued, QueuedStatuses
  <1>3. ASSUME NEW f \in DOMAIN waitlist', waitlist'[f].room = room,
               waitlist'[f].status = "offered", waitlist'[f].slot = waitlist'[e].slot
        PROVE  waitlist'[f].position < waitlist'[e].position
    <2>1. f \in DOMAIN waitlist
      <3>1. CASE Serves
        BY <3>1 DEF Serves
      <3>2. ASSUME NEW id, NEW row, Enqueues(id, row)
            PROVE  f \in DOMAIN waitlist
        BY <1>3, <3>2 DEF Enqueues, Put
      <3> QED
        BY <3>1, <3>2, CommitWaitlist DEF WaitlistCommit
    <2>2. /\ waitlist[f].room = room /\ waitlist[f].slot = waitlist[e].slot
          /\ waitlist'[f].position = waitlist[f].position
      BY <1>1, <1>3, <2>1, WaitlistAfter DEF EntryForward
    <2>3. CASE waitlist[f].status = "offered"
      BY <1>1, <1>2, <2>1, <2>2, <2>3 DEF FairTo, Queued, QueuedStatuses
    <2>4. CASE waitlist[f].status # "offered"
      <3>1. f \in tx[s].heads
        BY <1>3, <2>1, <2>4, OffersMade DEF NewlyOffered
      <3> QED
        BY <1>1, <2>2, <3>1, OffersAhead
    <2> QED
      BY <2>3, <2>4
  <1>4. ASSUME DisjointSlots, NEW slot, slot = waitlist[e].slot
        PROVE  Covered(room, slot)'
    <2>1. Covered(room, slot) /\ slot \in Slots
      BY <1>2, <1>4 DEF FairTo, TxInv, TypeOK, WaitlistRow
    <2>2. ASSUME Exhausted(s, room, slot), NEW x \in Writes(s) \ Dirty(s),
                 UsedBy(s, x, room, slot)
          PROVE  FALSE
      BY <1>1, <1>4, <2>2, GivesUpNothing
    <2> QED
      BY <1>4, <2>1, <2>2, CoverAfter
  <1>5. DisjointSlots => Covered(room, waitlist[e].slot)'
    <2>1. PICK slot : slot = waitlist[e].slot
      OBVIOUS
    <2>2. waitlist'[e].slot = slot
      BY <1>1, <2>1
    <2> QED
      BY <1>4, <2>1, <2>2
  <1> QED
    BY <1>3, <1>5 DEF FairTo, Queued

\* and one that joins is treated fairly.
LEMMA FairToNew ==
    ASSUME TxInv, NEW s \in Sessions, Commit(s), CoverOK(s),
           NEW room, NEW e \in DOMAIN waitlist' \ DOMAIN waitlist,
           waitlist'[e].room = room, waitlist'[e].status = "waiting"
    PROVE  FairTo(room, e)'
  <1>1. PICK row \in WaitlistRow :
            /\ Enqueues(e, row) /\ tx[s].call.op = "join"
            /\ row.room = tx[s].call.room /\ row.slot = tx[s].call.slot
    <2>1. PICK id \in Adds(tx[s].call), row \in WaitlistRow :
            /\ Enqueues(id, row) /\ tx[s].call.op = "join"
            /\ row.room = tx[s].call.room /\ row.slot = tx[s].call.slot
      BY CommitWaitlist DEF WaitlistCommit, Serves
    <2>2. id = e
      BY <2>1 DEF Enqueues, Put
    <2> QED
      BY <2>1, <2>2
  <1>2. /\ DOMAIN waitlist' = DOMAIN waitlist \cup {e} /\ waitlist'[e] = row
        /\ \A f \in DOMAIN waitlist : waitlist'[f] = waitlist[f]
        /\ \A f \in Queued(room) : waitlist[f].position < row.position
    BY <1>1 DEF Enqueues, Put
  <1>3. ASSUME NEW f \in DOMAIN waitlist', waitlist'[f].room = room,
               waitlist'[f].status = "offered"
        PROVE  waitlist'[f].position < waitlist'[e].position
    BY <1>2, <1>3 DEF Queued, QueuedStatuses
  <1>4. bookings' = bookings
    BY <1>1 DEF Commit, NewBookings
  <1>5. ASSUME DisjointSlots
        PROVE  Covered(room, row.slot)'
    <2>1. Covered(room, row.slot)
      BY <1>1, <1>2, <1>5, JoinsCovered
    <2> QED
      BY <1>2, <1>4, <2>1 DEF Covered, Busy, Active, Queued
  <1> QED
    BY <1>2, <1>3, <1>5 DEF FairTo, Queued

\* What is counted as passed over changes with commits only.
LEMMA PassedChanges ==
    ASSUME TxInv, [TxNext]_txVars
    PROVE  UNCHANGED <<bookings, waitlist, passed>> \/ \E s \in Sessions : Commit(s)
  <1>1. ASSUME UNCHANGED <<bookings, waitlist>>
        PROVE  UNCHANGED <<bookings, waitlist, passed>> \/ \E s \in Sessions : Commit(s)
    BY <1>1 DEF TxNext, Request, Proceed, Retry, LockRow, OfferNext, GiveUp, Fail, Die,
                TxTick, txVars
  <1> QED
    BY <1>1, TxTables

\* The second inductive invariant.
FairInv == /\ FairButForLocks
           /\ \A s \in Sessions : Open(s) => OffersOK(s) /\ NewcomersOK(s) /\ CoverOK(s)

LEMMA FairStep ==
    ASSUME TxInv, FairInv, [TxNext]_txVars
    PROVE  FairInv'
  <1>1. ASSUME NEW r \in Sessions, Open(r)'
        PROVE  OffersOK(r)' /\ NewcomersOK(r)' /\ CoverOK(r)'
    BY <1>1, OffersStep, NewcomersStep, CoverStep DEF FairInv
  <1>2. CASE UNCHANGED <<bookings, waitlist, passed>>
    <2>1. FairButForLocks'
      BY <1>2 DEF FairInv, FairButForLocks, Queued, Busy, Active
    <2> QED
      BY <1>1, <2>1 DEF FairInv
  <1>3. ASSUME NEW s \in Sessions, Commit(s)
        PROVE  FairButForLocks'
    <2>1. OffersOK(s) /\ NewcomersOK(s) /\ CoverOK(s)
      BY <1>3, AtCommit DEF FairInv
    <2>2. ASSUME NEW room \in Rooms, NEW e \in DOMAIN waitlist', waitlist'[e].room = room,
                 waitlist'[e].status = "waiting", e \notin passed'
          PROVE  FairTo(room, e)'
      BY <1>3, <2>1, <2>2, FairToOld, FairToNew DEF FairInv
    <2> QED
      BY <2>2 DEF FairButForLocks, FairTo, Covered, Queued
  <1> QED
    BY <1>1, <1>2, <1>3, PassedChanges DEF FairInv

\* Under transactions the queue is served in order and nobody waits for an idle slot, but for
\* the entries that a committed offer passed over while somebody else held their rows.
THEOREM UnfairOnlyForLocks == TxSpec => []FairButForLocks
  <1>1. TxInit => FairInv
    BY DEF TxInit, Init, Empty, FairInv, FairButForLocks, Queued, Open, Idle
  <1>2. TxInv /\ FairInv /\ [TxNext]_txVars => FairInv'
    BY FairStep
  <1>3. FairInv => FairButForLocks
    BY DEF FairInv
  <1> QED
    BY <1>1, <1>2, <1>3, SnapshotsTellTheTruth, PTL DEF TxSpec
===============================================================================
