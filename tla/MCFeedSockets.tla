---------------------------- MODULE MCFeedSockets ----------------------------
(* Small instances of FeedSockets for TLC. *)
EXTENDS FeedSockets
=============================================================================
