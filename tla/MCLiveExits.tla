---------------------------- MODULE MCLiveExits ----------------------------
(* Small instances of LiveExits for TLC. *)
EXTENDS LiveExits, TLC
=============================================================================
