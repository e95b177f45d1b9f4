------------------------ MODULE MCLeaderLeaseHistory ------------------------
(* Small instances of LeaderLeaseHistory for TLC. *)
EXTENDS LeaderLeaseHistory, TLC

Symmetry == Permutations(Process)
=============================================================================
