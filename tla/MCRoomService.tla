----------------------------- MODULE MCRoomService -----------------------------
(***************************************************************************)
(* A small instance of RoomService for TLC.                                *)
(***************************************************************************)
EXTENDS RoomService, TLC

CONSTANTS r1, r2, user, b1, b2, e1, q1, q2, screen

TwoRooms == {r1, r2}
OneUser == {user}
TwoBookings == {b1, b2}
OneEntry == {e1}
TwoRequests == {q1, q2}
Screen == {screen}

OneSlot == {[start |-> 1, end |-> 2]}

\* They lie apart from it, touch it and overlap it.
AskedIntervals == {[start |-> 0, end |-> 1], [start |-> 0, end |-> 2], [start |-> 1, end |-> 2],
                   [start |-> 2, end |-> 3]}

None == {}

Anything == [floor |-> {}, minCapacity |-> {}, equipment |-> {}]

AskedFilters == {Anything, [Anything EXCEPT !.minCapacity = {13}],
                 [Anything EXCEPT !.floor = {1}, !.equipment = {screen}]}

OneOrTwoPerPage == {1, 2}

\* A room at the threshold; the other is refused.
AskedRooms == {[name |-> 1, capacity |-> 12, floor |-> 1, equipment |-> {screen}],
               [name |-> 0, capacity |-> 12, floor |-> 1, equipment |-> {}]}

NoChange == [name |-> {}, capacity |-> {}, floor |-> {}, equipment |-> {}]

\* A seat more; another name, on the ground floor; a change that is refused.
AskedChanges == {[NoChange EXCEPT !.capacity = {13}],
                 [NoChange EXCEPT !.name = {2}, !.floor = {0}],
                 [NoChange EXCEPT !.capacity = {0}]}

Symmetry == Permutations(TwoRooms) \cup Permutations(TwoRequests) \cup Permutations(TwoBookings)
===============================================================================
