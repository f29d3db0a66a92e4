----------------------------- MODULE MCTransactions -----------------------------
(***************************************************************************)
(* A small instance of Transactions for TLC: three calls on tables in      *)
(* which two bookings of a room hold two slots and a queue waits.          *)
(***************************************************************************)
EXTENDS Transactions, TLC

CONSTANTS room, user1, user2, b1, b2, b3, b4, e1, e2, e3, s1, s2

OneRoom == {room}
TwoUsers == {user1, user2}
Bookings == {b1, b2, b3, b4}
Entries == {e1, e2, e3}
TwoSessions == {s1, s2}

First == [start |-> 1, end |-> 2]
Second == [start |-> 2, end |-> 3]
TwoSlots == {First, Second}

Booking(slot, status, created) ==
    [room |-> room, user |-> user1, slot |-> slot, status |-> status, createdAt |-> created,
     reason |-> NoReason]

Entry(user, slot, status, position) ==
    [room |-> room, user |-> user, slot |-> slot, status |-> status, position |-> position,
     offeredAt |-> IF status = "offered" THEN 0 ELSE Never]

\* Both bookings wait for an approval, one is overdue, one soon will be, and two entries
\* wait for the first slot; or it was freed and is on offer to the first of them.
MCInit ==
    /\ \E free \in BOOLEAN :
        /\ bookings =
               b1 :> Booking(First, IF free THEN "cancelled" ELSE "pending_approval", 0)
               @@ b2 :> Booking(Second, "pending_approval", 1)
        /\ waitlist = e1 :> Entry(user1, First, IF free THEN "offered" ELSE "waiting", 1)
                      @@ e2 :> Entry(user2, First, "waiting", 2)
    /\ now = 1
    /\ tx = [s \in Sessions |-> Idle]
    /\ passed = {}
    /\ calls = 0

MCSpec == MCInit /\ [][TxNext]_txVars

Symmetry == Permutations(TwoSessions) \cup Permutations({b3, b4})
=================================================================================
