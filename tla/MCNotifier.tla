------------------------------ MODULE MCNotifier ------------------------------
(***************************************************************************)
(* Small instances of Notifier for TLC.                                    *)
(***************************************************************************)
EXTENDS Notifier

CONSTANTS k1, k2, k3, member, admin1, admin2

Keys == {k1, k2, k3}
Everybody == {member, admin1, admin2}
BothAdmins == {admin1, admin2}

\* A message for each case of the dispatcher, and one event that was written twice.
AllCases == << [key |-> k1, kind |-> "to_owner", owner |-> member],
               [key |-> k3, kind |-> "poison", owner |-> member],
               [key |-> k2, kind |-> "pending_approval", owner |-> member],
               [key |-> k3, kind |-> "unknown", owner |-> member],
               [key |-> k1, kind |-> "to_owner", owner |-> member] >>

EveryFault == FaultKind
DedupFault == {"dedup"}
===============================================================================
