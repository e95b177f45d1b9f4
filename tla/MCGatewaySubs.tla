--------------------------- MODULE MCGatewaySubs ---------------------------
(* Small instances of GatewaySubs for TLC. *)
EXTENDS GatewaySubs, TLC

Symmetry == Permutations(Conn) \cup Permutations(Topic) \cup Permutations(Loop)
=============================================================================
