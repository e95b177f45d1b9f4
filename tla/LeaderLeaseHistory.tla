------------------------- MODULE LeaderLeaseHistory -------------------------
(***************************************************************************)
(* LeaderLease with a history variable, for what the loop achieves over    *)
(* time: how long the role stays vacant while somebody is ready for it.    *)
(***************************************************************************)
EXTENDS LeaderLease

VARIABLE wait  \* of each process that runs: how long nobody has led

\* What may keep a standby waiting beyond its own timers: its call (other than a refusal)
\* or its onAcquire fails, it awaits its onLose or its release, which nothing bounds in
\* time, or another process is given the lease or has it extended, by a late call too.
Disturbed(p) ==
    \/ call[p] # "no" /\ (CallFails(p) \/ CallTimesOut(p))
    \/ phase'[p] \in {"losing", "returning"}
    \/ \E q \in Process \ {p} : owner' = q /\ (owner # q \/ ttl' > ttl)

\* Counts from 1; starts again when the process is disturbed.
Wait(p) ==
    IF ~Willing(p)' \/ \E q \in Process : leader'[q] THEN 0
    ELSE IF wait[p] = 0 \/ Disturbed(p) THEN 1
    ELSE IF Tick THEN wait[p] + 1
    ELSE wait[p]

HistoryInit == Init /\ wait = [p \in Process |-> 0]

HistoryNext == Next /\ wait' = [p \in Process |-> Wait(p)]

HistorySpec == HistoryInit /\ [][HistoryNext]_<<vars, wait>> /\ ClockFairness

-----------------------------------------------------------------------------
\* The count, which starts at 1, in the last unit of the key's life.
Lapse == Ttl + 1

(* "A dead leader is replaced within this time", the ttl, says the comment *)
(* on ttlMs (leader.ts).  The loop does not keep to that: the key may      *)
(* lapse just after it refused a process, whose refusal arrives, which     *)
(* sleeps, calls again and takes the role.  While a process that nothing   *)
(* disturbs is ready to lead, the role is not vacant for longer than the   *)
(* ttl and that round; with a unit less this is violated.                  *)
VacancyBounded ==
    \A p \in Process : wait[p] <= Lapse + Answer + Renew + Timeout + Take
=============================================================================
