--------------------------- MODULE MCBookingService ---------------------------
(***************************************************************************)
(* Small instances of BookingService for TLC.                              *)
(***************************************************************************)
EXTENDS BookingService, TLC

CONSTANTS small, large, member, admin, b1, b2, e1, e2, q1, q2

OneLarge == {large}
OneSmall == {small}
None == {}
MemberAndAdmin == {member, admin}
OneAdmin == {admin}
\* The member manages no floor.
NoManager == [u \in MemberAndAdmin |-> {}]
OneBooking == {b1}
TwoBookings == {b1, b2}
OneEntry == {e1}
TwoEntries == {e1, e2}
OneRequest == {q1}
TwoRequests == {q1, q2}

\* The last hour of the modelled day.
LastHour == {[start |-> 2, end |-> 3]}

Symmetry == Permutations(TwoBookings) \cup Permutations(TwoEntries)
            \cup Permutations(TwoRequests)
===============================================================================
