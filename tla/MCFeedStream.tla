---------------------------- MODULE MCFeedStream ----------------------------
(* Small instances of FeedStream for TLC. *)
EXTENDS FeedStream, TLC

Symmetry == Permutations(Gateway) \cup Permutations(Browser)
=============================================================================
