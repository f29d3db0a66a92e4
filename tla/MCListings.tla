------------------------------ MODULE MCListings ------------------------------
(***************************************************************************)
(* A small instance of Reservations and Listings for TLC: two equal rooms  *)
(* that stand still.                                                       *)
(***************************************************************************)
EXTENDS Listings, TLC

CONSTANTS r1, r2, user, b1, b2, e1, e2, screen

TwoRooms == {r1, r2}
OneUser == {user}
TwoBookings == {b1, b2}
TwoEntries == {e1, e2}
Screen == {screen}

Table == [r \in TwoRooms |->
            [name |-> 1, capacity |-> 12, floor |-> 1, equipment |-> {screen},
             status |-> "active"]]

\* Sunday's last half, Monday's first, and both.
OverlappingSlots == {[start |-> 1, end |-> 2], [start |-> 2, end |-> 3],
                     [start |-> 1, end |-> 3]}

\* The Monday before, Sunday's noon, Monday's noon.
AskedInstants == {-12, 1, 3}

None == {}

MCInit == Init /\ rooms = Table

MCNext == Next /\ UNCHANGED rooms

MCSpec == MCInit /\ [][MCNext]_<<vars, rooms>>

\* Ids and rooms are interchangeable.
Symmetry == Permutations(TwoRooms) \cup Permutations(TwoBookings) \cup Permutations(TwoEntries)
===============================================================================
