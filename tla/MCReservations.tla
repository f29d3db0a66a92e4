---------------------------- MODULE MCReservations ----------------------------
(***************************************************************************)
(* Small instances of Reservations for TLC.                                *)
(***************************************************************************)
EXTENDS Reservations, TLC

CONSTANTS r1, u1, u2, b1, b2, b3, e1, e2, e3

OneRoom == {r1}
TwoUsers == {u1, u2}
ThreeBookings == {b1, b2, b3}
ThreeEntries == {e1, e2, e3}

\* One hour that everybody wants.
OneSlot == {[start |-> 1, end |-> 2]}

\* Ids and users are interchangeable.
Symmetry == Permutations(TwoUsers) \cup Permutations(ThreeBookings)
            \cup Permutations(ThreeEntries)
===============================================================================
