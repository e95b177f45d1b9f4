----------------------------- MODULE FeedTopics -----------------------------
(* What clients subscribe to: the topics of packages/schema/src/gateway.ts. *)

CONSTANT Topic
=============================================================================
