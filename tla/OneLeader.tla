------------------------------ MODULE OneLeader ------------------------------
(***************************************************************************)
(* What runAsLeader promises its callers (the interface LeadershipOptions  *)
(* of apps/gateway/src/leader.ts), without a lock, a clock or a call: the  *)
(* work between onAcquire and onLose is done by one process at a time, and *)
(* a process told to stop, or dead, never starts it.  LeaderLease is shown *)
(* to implement this under its condition Prompt.                           *)
(***************************************************************************)
CONSTANT Process

VARIABLES acting,   \* who does the leader's work: onAcquire called, onLose not yet
          retired   \* who was told to stop or died

Init == acting = {} /\ retired = {}

\* onAcquire is called: the work was laid down by everybody, and p goes on running.
TakeUp(p) ==
    /\ acting = {} /\ p \notin retired
    /\ acting' = {p}
    /\ UNCHANGED retired

\* onLose is called, or onAcquire failed.
LayDown(p) ==
    /\ p \in acting
    /\ acting' = acting \ {p}
    /\ UNCHANGED retired

\* stop() is called, or p dies; either may end the work in the same step.
Retire(p) ==
    /\ p \notin retired
    /\ retired' = retired \cup {p}
    /\ acting' \in {acting, acting \ {p}}

Next == \E p \in Process : TakeUp(p) \/ LayDown(p) \/ Retire(p)

Spec == Init /\ [][Next]_<<acting, retired>>
=============================================================================
