------------------------------ MODULE MCRoomCache ------------------------------
(***************************************************************************)
(* Small instances of RoomCache for TLC.                                   *)
(***************************************************************************)
EXTENDS RoomCache, TLC

CONSTANTS r1, r2, old, new, w1, w2, s1, s2, c1, c2

TwoRooms == {r1, r2}
OneRoom == {r1}
TwoContents == {old, new}
TwoWindows == {w1, w2}
OneSearch == {s1}
TwoSearches == {s1, s2}
TwoChanges == {c1, c2}

Symmetry == Permutations(TwoContents) \cup Permutations(TwoWindows)
            \cup Permutations(TwoSearches) \cup Permutations(TwoChanges)
===============================================================================
