---------------------------- MODULE MCFeedHolds ----------------------------
(* Small instances of FeedHolds for TLC. *)
EXTENDS FeedHolds, TLC

Symmetry == Permutations(Gateway) \cup Permutations(Topic)
=============================================================================
