----------------------------- MODULE LeaderLease -----------------------------
(***************************************************************************)
(* Leader election by a Redis lock: runAsLeader over RedisLeaderLock, the  *)
(* module apps/gateway/src/leader.ts and its copy apps/api/src/leader.ts.  *)
(*                                                                         *)
(* Every process loops: acquire (or, while it leads, renew) the lease,     *)
(* wait for the answer at most Timeout, change role, sleep Renew.  Time is *)
(* counted down: the key's time to live and each process' running timer    *)
(* lose one unit per Tick, and Tick waits for whatever is due now.  So no  *)
(* clock grows and no bound is needed.                                     *)
(*                                                                         *)
(* An element of Process is one owner id, that is one life of one process: *)
(* leaderOwnerId() is random, so a restarted process is another element.   *)
(***************************************************************************)
EXTENDS Integers

CONSTANTS Process,   \* owner ids
          NoOwner,   \* the key is absent
          Ttl,       \* ttlMs
          Renew,     \* renewMs
          Timeout,   \* timeoutMs
          Answer,    \* longest time from Redis running a call to its answer being seen
          Take       \* longest time onAcquire takes

ASSUME OwnerAssumption == NoOwner \notin Process
ASSUME TimeAssumption ==
    /\ Ttl \in Nat /\ Renew \in Nat /\ Timeout \in Nat
    /\ Answer \in Nat /\ Take \in Nat

VARIABLES owner,      \* value of the Redis key
          ttl,        \* time left to the key
          phase,      \* where each process' loop stands
          timer,      \* time left to the timer the phase runs
          call,       \* the awaited acquire or renew: "none", "sent", or its answer
          due,        \* time left until the answer is seen
          abandoned,  \* calls that timed out but still sit in the ioredis queue
          leader,     \* the closure's leader flag
          stopped     \* the closure's stopped flag

vars == <<owner, ttl, phase, timer, call, due, abandoned, leader, stopped>>
loop == <<phase, timer, leader>>

(***************************************************************************)
(* "calling"   awaits the bounded acquire or renew                         *)
(* "taking"    awaits onAcquire                                            *)
(* "losing"    awaits onLose inside the step                               *)
(* "returning" awaits the release of a lease that is not used              *)
(* "armed"     sleeps until the next step                                  *)
(* "resigning" awaits onLose inside stop(), "leaving" its release          *)
(* "down" before runAsLeader, "gone" after stop() resolved or a crash      *)
(***************************************************************************)
Phase == {"down", "armed", "calling", "taking", "losing", "returning",
          "resigning", "leaving", "gone"}

TypeOK ==
    /\ owner \in Process \cup {NoOwner}
    /\ ttl \in 0..Ttl
    /\ phase \in [Process -> Phase]
    /\ timer \in [Process -> Nat]
    /\ call \in [Process -> {"none", "sent", "yes", "no"}]
    /\ due \in [Process -> 0..Answer]
    /\ abandoned \in [Process -> SUBSET {"acquire", "renew"}]
    /\ leader \in [Process -> BOOLEAN]
    /\ stopped \in [Process -> BOOLEAN]

Init ==
    /\ owner = NoOwner
    /\ ttl = 0
    /\ phase = [p \in Process |-> "down"]
    /\ timer = [p \in Process |-> 0]
    /\ call = [p \in Process |-> "none"]
    /\ due = [p \in Process |-> 0]
    /\ abandoned = [p \in Process |-> {}]
    /\ leader = [p \in Process |-> FALSE]
    /\ stopped = [p \in Process |-> FALSE]

-----------------------------------------------------------------------------
(* The lock in Redis.                                                      *)

\* Mutant: SET without NX.
GrantsWithoutNx(p, command) == owner = p \/ command = "acquire"

\* Does the script or SET NX give p the lease now?
Grants(p, command) ==
    \/ owner = p
    \/ command = "acquire" /\ owner = NoOwner

\* SET key p PX ttl NX, then the renew script; or the renew script alone.
RunLockCall(p, command) ==
    IF Grants(p, command)
      THEN owner' = p /\ ttl' = Ttl
      ELSE UNCHANGED <<owner, ttl>>

\* Mutant: a plain DEL.
RunReleaseAnyOwner(p) == owner' = NoOwner /\ ttl' = 0

\* The release script: only the owner's value is deleted.
RunRelease(p) ==
    IF owner = p
      THEN owner' = NoOwner /\ ttl' = 0
      ELSE UNCHANGED <<owner, ttl>>

\* The command the step sent: renew while it leads, acquire otherwise.
Command(p) == IF leader[p] THEN "renew" ELSE "acquire"

\* Redis runs the awaited call; commands of one connection run in order.
RedisRuns(p) ==
    /\ phase[p] = "calling" /\ call[p] = "sent"
    /\ abandoned[p] = {}
    /\ RunLockCall(p, Command(p))
    /\ call' = [call EXCEPT ![p] = IF Grants(p, Command(p)) THEN "yes" ELSE "no"]
    /\ due' = [due EXCEPT ![p] = Answer]
    /\ UNCHANGED <<loop, abandoned, stopped>>

\* Redis runs a call nobody waits for any more; last says no equal one is left.
RedisRunsLate(p, command, last) ==
    /\ command \in abandoned[p]
    /\ RunLockCall(p, command)
    /\ abandoned' = [abandoned EXCEPT ![p] = IF last THEN @ \ {command} ELSE @]
    /\ UNCHANGED <<loop, call, due, stopped>>

-----------------------------------------------------------------------------
(* The loop.                                                               *)

\* Control reaches `phase` to, with its timer running for `wait`.
Goto(p, to, wait) ==
    /\ phase' = [phase EXCEPT ![p] = to]
    /\ timer' = [timer EXCEPT ![p] = wait]

SendCall(p) ==
    /\ Goto(p, "calling", Timeout)
    /\ call' = [call EXCEPT ![p] = "sent"]
    /\ UNCHANGED <<owner, ttl, due, abandoned, leader, stopped>>

\* stop() past its await of the step: lose the role and go on to the release if
\* it is still held, else be done.
GoOnStopping(p, leads) ==
    /\ \/ leads /\ Goto(p, "resigning", 0)
       \/ ~leads /\ Goto(p, "gone", 0)
    /\ leader' = [leader EXCEPT ![p] = FALSE]

\* Mutant: renews once per ttl.
EndStepSleepsTtl(p, leads) ==
    \/ /\ ~stopped[p]
       /\ Goto(p, "armed", Ttl)
       /\ leader' = [leader EXCEPT ![p] = leads]
    \/ stopped[p] /\ GoOnStopping(p, leads)

\* The end of step(): arm the timer again, or let the waiting stop() go on.
EndStep(p, leads) ==
    \/ /\ ~stopped[p]
       /\ Goto(p, "armed", Renew)
       /\ leader' = [leader EXCEPT ![p] = leads]
    \/ /\ stopped[p]
       /\ GoOnStopping(p, leads)

\* lose() inside the step.
Lose(p) ==
    /\ Goto(p, "losing", 0)
    /\ leader' = [leader EXCEPT ![p] = FALSE]

\* The awaited call is settled: its answer, if any, is dropped.
Settled(p) ==
    /\ call' = [call EXCEPT ![p] = "none"]
    /\ due' = [due EXCEPT ![p] = 0]

Start(p) ==
    /\ phase[p] = "down"
    /\ SendCall(p)

\* The timer fires run().
Step(p) ==
    /\ phase[p] = "armed" /\ timer[p] = 0
    /\ SendCall(p)

\* Mutant: stopped is not looked at after the await.
AnsweredIgnoringStop(p) ==
    /\ phase[p] = "calling" /\ call[p] \in {"yes", "no"}
    /\ Settled(p)
    /\ \/ call[p] = "yes" /\ ~leader[p] /\ Goto(p, "taking", Take) /\ UNCHANGED leader
       \/ call[p] = "no" /\ leader[p] /\ Lose(p)
       \/ /\ (call[p] = "yes" /\ leader[p]) \/ (call[p] = "no" /\ ~leader[p])
          /\ EndStep(p, leader[p])
    /\ UNCHANGED <<owner, ttl, abandoned, stopped>>

\* The lock call answered in time.
Answered(p) ==
    /\ phase[p] = "calling" /\ call[p] \in {"yes", "no"}
    /\ Settled(p)
    /\ \/ /\ call[p] = "yes" /\ ~leader[p] /\ stopped[p]
          /\ Goto(p, "returning", 0)
          /\ UNCHANGED leader
       \/ /\ call[p] = "yes" /\ ~leader[p] /\ ~stopped[p]
          /\ Goto(p, "taking", Take)
          /\ UNCHANGED leader
       \/ /\ call[p] = "no" /\ leader[p] /\ ~stopped[p]
          /\ Lose(p)
       \/ /\ \/ call[p] = "yes" /\ leader[p]
             \/ call[p] = "no" /\ (~leader[p] \/ stopped[p])
          /\ EndStep(p, leader[p])
    /\ UNCHANGED <<owner, ttl, abandoned, stopped>>

\* Mutant: a failed call does not give the role up.
StepCatchesAsLeader(p) ==
    /\ Settled(p)
    /\ EndStep(p, leader[p])
    /\ UNCHANGED <<owner, ttl, stopped>>

\* The catch of step(): the call was rejected or timed out.
StepCatches(p) ==
    /\ Settled(p)
    /\ \/ leader[p] /\ Lose(p)
       \/ ~leader[p] /\ EndStep(p, FALSE)
    /\ UNCHANGED <<owner, ttl, stopped>>

\* The connection fails the call, run by Redis or not.
CallFails(p) ==
    /\ phase[p] = "calling"
    /\ StepCatches(p)
    /\ UNCHANGED abandoned

\* bounded() gives up; a call still queued is run later all the same.
CallTimesOut(p) ==
    /\ phase[p] = "calling" /\ timer[p] = 0
    /\ StepCatches(p)
    /\ abandoned' = [abandoned EXCEPT
         ![p] = IF call[p] = "sent" THEN @ \cup {Command(p)} ELSE @]

\* onAcquire resolves.
Taken(p) ==
    /\ phase[p] = "taking"
    /\ EndStep(p, TRUE)
    /\ UNCHANGED <<owner, ttl, call, due, abandoned, stopped>>

\* onAcquire throws: the lease is given back.
TakeFails(p) ==
    /\ phase[p] = "taking"
    /\ Goto(p, "returning", 0)
    /\ UNCHANGED <<owner, ttl, call, due, abandoned, leader, stopped>>

\* Mutant: step() returns after lose() without arming the timer.
LostForGood(p) ==
    /\ phase[p] = "resigning"
    /\ Goto(p, "leaving", 0)
    /\ UNCHANGED <<owner, ttl, call, due, abandoned, leader, stopped>>

\* onLose settles; an error of it is only reported.
Lost(p) ==
    /\ phase[p] \in {"losing", "resigning"}
    /\ \/ phase[p] = "losing" /\ EndStep(p, FALSE)
       \/ phase[p] = "resigning" /\ Goto(p, "leaving", 0) /\ UNCHANGED leader
    /\ UNCHANGED <<owner, ttl, call, due, abandoned, stopped>>

\* The release settles: Redis ran it, or the connection failed it.
Released(p) ==
    /\ phase[p] \in {"returning", "leaving"}
    /\ \/ abandoned[p] = {} /\ RunRelease(p)
       \/ UNCHANGED <<owner, ttl>>
    /\ \/ phase[p] = "returning" /\ EndStep(p, FALSE)
       \/ phase[p] = "leaving" /\ Goto(p, "gone", 0) /\ UNCHANGED leader
    /\ UNCHANGED <<call, due, abandoned, stopped>>

\* stop(): while the loop sleeps it goes on at once, else it awaits the step.
Stop(p) ==
    /\ phase[p] \notin {"down", "gone"} /\ ~stopped[p]
    /\ stopped' = [stopped EXCEPT ![p] = TRUE]
    /\ \/ /\ phase[p] = "armed"
          /\ GoOnStopping(p, leader[p])
       \/ /\ phase[p] # "armed"
          /\ UNCHANGED loop
    /\ UNCHANGED <<owner, ttl, call, due, abandoned>>

\* The process dies; what it had handed to the socket may still reach Redis.
Crash(p) ==
    /\ phase[p] \notin {"down", "gone"}
    /\ Goto(p, "gone", 0)
    /\ leader' = [leader EXCEPT ![p] = FALSE]
    /\ Settled(p)
    /\ abandoned' \in
         {[abandoned EXCEPT ![p] = s] :
            s \in {{}, IF call[p] = "sent" THEN abandoned[p] \cup {Command(p)}
                                           ELSE abandoned[p]}}
    /\ UNCHANGED <<owner, ttl, stopped>>

-----------------------------------------------------------------------------
(* Time.                                                                   *)

\* A timer that fires, an answer that arrives or an onAcquire that ends now.
Urgent(p) ==
    \/ phase[p] \in {"armed", "calling", "taking"} /\ timer[p] = 0
    \/ call[p] \in {"yes", "no"} /\ due[p] = 0

Dec(n) == IF n = 0 THEN 0 ELSE n - 1

\* One unit of time; Redis drops the key once its time has passed.
Tick ==
    /\ \A p \in Process : ~Urgent(p)
    /\ timer' = [p \in Process |-> Dec(timer[p])]
    /\ due' = [p \in Process |-> Dec(due[p])]
    /\ ttl' = Dec(ttl)
    /\ owner' = IF ttl = 0 THEN NoOwner ELSE owner
    /\ UNCHANGED <<phase, call, abandoned, leader, stopped>>

-----------------------------------------------------------------------------
\* What p's loop, its stop() and Redis do for it when nothing goes wrong.
Runs(p) ==
    \/ Start(p) \/ Step(p) \/ Answered(p)
    \/ Taken(p) \/ Lost(p) \/ Released(p)
    \/ RedisRuns(p)
    \/ \E command \in {"acquire", "renew"}, last \in BOOLEAN :
         RedisRunsLate(p, command, last)

Next ==
    \/ Tick
    \/ \E p \in Process :
         \/ Runs(p)
         \/ Stop(p) \/ Crash(p)
         \/ CallFails(p) \/ CallTimesOut(p) \/ TakeFails(p)

Spec == Init /\ [][Next]_vars

(***************************************************************************)
(* Fairness.  The clock runs, timers fire and callbacks settle (Node's     *)
(* event loop); Redis sooner or later runs what it was sent.               *)
(***************************************************************************)
ClockFairness ==
    /\ WF_vars(Tick)
    /\ \A p \in Process :
         /\ WF_vars(Step(p)) /\ WF_vars(Answered(p)) /\ WF_vars(CallTimesOut(p))
         /\ WF_vars(Taken(p)) /\ WF_vars(Lost(p)) /\ WF_vars(Released(p))

RedisFairness ==
    \A p \in Process :
      /\ WF_vars(RedisRuns(p))
      /\ \A command \in {"acquire", "renew"} :
           WF_vars(RedisRunsLate(p, command, TRUE))

\* A step of a period without faults.
Healthy == Tick \/ \E p \in Process : Runs(p) \/ Stop(p)

ClockSpec == Spec /\ ClockFairness
LiveSpec == Spec /\ ClockFairness /\ RedisFairness /\ <>[][Healthy]_vars

-----------------------------------------------------------------------------
(* Properties.                                                             *)

\* onAcquire has been called and onLose has not: the process runs the feed or
\* the jobs.
Acting(p) == leader[p] \/ phase[p] = "taking"

\* "At most one" and "not after stop()" as one abstract machine: under Prompt every step of
\* the loops, the timers and Redis is a step of OneLeader, or none of its business.  So the
\* work is laid down before anybody else takes it, and never taken by a stopped process.
Role == INSTANCE OneLeader WITH
          acting  <- {p \in Process : Acting(p)},
          retired <- {p \in Process : stopped[p] \/ phase[p] = "gone"}

PlaysRole == Role!Spec

\* At most one process at a time does the leader's work.  Needs the answers
\* and onAcquire to be quick (Prompt below); the code does not enforce that.
AtMostOneActing ==
    \A p, q \in Process : Acting(p) /\ Acting(q) => p = q

\* A process whose isLeader() is true holds the lease in Redis.
LeaderHoldsLease == \A p \in Process : leader[p] => owner = p

\* The condition on the deployment under which the lease outlives its leader's
\* belief in it.
Prompt == Answer + Take + Renew + Timeout <= Ttl

(***************************************************************************)
(* Why AtMostOneActing holds under Prompt: whoever acts, or is about to    *)
(* see that it may, owns the key, and the key lives at least as long as    *)
(* the process can go on without hearing from Redis again.                 *)
(***************************************************************************)
Granted(p) == phase[p] = "calling" /\ call[p] = "yes"

\* The longest time p can still act on what Redis last told it.
Claim(p) ==
    CASE phase[p] = "taking"          -> timer[p] + Renew + Timeout
      [] Granted(p) /\ ~leader[p]     -> due[p] + Take + Renew + Timeout
      [] Granted(p) /\ leader[p]      -> due[p] + Renew + Timeout
      [] phase[p] = "armed"           -> timer[p] + Timeout
      [] OTHER                        -> timer[p]

\* Who leads sleeps or awaits a renewal; a call is awaited in "calling" only.
LoopInv ==
    \A p \in Process :
      /\ leader[p] => phase[p] \in {"armed", "calling"}
      /\ call[p] # "none" <=> phase[p] = "calling"

\* The lease covers the claim of everyone who acts or has been granted it, so no
\* leader's renewal is refused.
Covered(p) ==
    /\ Acting(p) \/ Granted(p) => owner = p /\ Claim(p) <= ttl
    /\ leader[p] => call[p] # "no"

LeaseInv == \A p \in Process : Covered(p)

\* Only the owner drops its lease, by its own release; otherwise it lapses.
\* Nobody overwrites a lease that is still running.
OnlyOwnerFrees ==
    [][owner # NoOwner /\ owner' # owner
         => /\ owner' = NoOwner
            /\ ttl = 0 \/ phase[owner] \in {"returning", "leaving"}]_vars

\* A leader whose lease is gone does not stay leader: it gets the lease back
\* or steps down, even when Redis never answers again.
StaleLeaderStepsDown ==
    \A p \in Process : leader[p] /\ owner # p ~> ~leader[p] \/ owner = p

\* Runs the loop and was not asked to stop.
Willing(p) == phase[p] \notin {"down", "gone"} /\ ~stopped[p]

\* When faults cease and some process keeps running, and answers are prompt, one
\* process ends up leading for good: the lease of a dead leader is taken over.
LeadershipSettles ==
    <>[](\E p \in Process : Willing(p)) =>
      \E p \in Process : <>[](leader[p])
=============================================================================
