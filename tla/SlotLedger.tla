------------------------------ MODULE SlotLedger ------------------------------
(***************************************************************************)
(* What the booking engine promises about the rooms it manages, with       *)
(* nothing of how it keeps the promise: a ledger of the reservations that  *)
(* hold a slot of a room.  A reservation enters the ledger only when its   *)
(* slot is free, leaves it once, and never comes back.  Bookings, their    *)
(* approval, the waitlist and time are all below this level.               *)
(***************************************************************************)
EXTENDS Integers

CONSTANTS Rooms,        \* the meeting rooms
          Slots,        \* the half-open intervals [start, end) that are asked for
          BookingId     \* the identities of reservations

VARIABLES held,         \* the reservations that hold a slot: id -> room and slot
          released      \* the reservations that once held one

vars == <<held, released>>

\* Two half-open intervals share an instant; touching ends do not count.
Overlaps(s, t) == s.start < t.end /\ t.start < s.end

Free(room, slot) ==
    \A id \in DOMAIN held : held[id].room = room => ~Overlaps(held[id].slot, slot)

Init == /\ held = [id \in {} |-> {}]
        /\ released = {}

Reserve(id, room, slot) ==
    /\ id \notin DOMAIN held \cup released
    /\ Free(room, slot)
    /\ held' = [i \in DOMAIN held \cup {id} |->
                    IF i = id THEN [room |-> room, slot |-> slot] ELSE held[i]]
    /\ UNCHANGED released

\* Several reservations may be released by one step: the sweep of expired
\* approvals rejects all of them in one transaction.
Release(ids) ==
    /\ held' = [i \in DOMAIN held \ ids |-> held[i]]
    /\ released' = released \cup ids

Next == \/ \E id \in BookingId, room \in Rooms, slot \in Slots : Reserve(id, room, slot)
        \/ \E ids \in SUBSET DOMAIN held : Release(ids)

Spec == Init /\ [][Next]_vars
================================================================================
