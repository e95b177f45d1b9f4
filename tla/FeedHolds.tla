----------------------------- MODULE FeedHolds -----------------------------
(***************************************************************************)
(* Who holds which topic, and what the leading gateway therefore watches   *)
(* on the venue: the reference counts of apps/gateway/src/feed/feed.ts,    *)
(* the roles of feed/role.ts and the registry of coordination/registry.ts. *)
(*                                                                         *)
(* The registry is a Redis hash of (topic, instance) leases.  hold and     *)
(* drop are sent and forgotten, so either may be lost; heartbeat repeats   *)
(* the holds.  A sync of the registry is several commands, and the role    *)
(* may change between them.  Which gateways lead is the lease's business   *)
(* (LeaderLease); a gateway that ended comes back under another id.        *)
(***************************************************************************)
EXTENDS FeedTopics, Integers

CONSTANTS Gateway,
          MaxHolders,    \* bound: subscriptions of one topic on one gateway
          Overlap,       \* may a gateway take the role while another still has it?
          SlowBeats,     \* may a gateway's heartbeats be late for its leases?
          MayEnd         \* may a gateway stop or crash?

ASSUME HoldersAssumption == MaxHolders \in Nat

VARIABLES alive,     \* gateways that run
          leaders,   \* gateways whose RoleFeed.mode is leader
          upstream,  \* MarketFeed.upstream: the venue session runs
          holders,   \* RoleFeed.holds and MarketFeed.refs: connections per topic
          graced,    \* entries of refs kept for graceMs after the last holder
          remote,    \* MarketFeed.remote
          watched,   \* topics subscribed on the venue session
          lease,     \* the registry's fields: "none", "fresh" or "lapsed"
          phase,     \* of RoleFeed.sync
          live,      \* what its liveTopics read
          stale      \* the lapsed fields it is about to delete

feed == <<upstream, holders, graced, remote, watched>>
sync == <<phase, live, stale>>
holdsVars == <<alive, leaders, feed, lease, sync>>

Held(g) == {t \in Topic : holders[g][t] > 0}
Refs(g) == Held(g) \cup graced[g]
Kept(g) == Refs(g) \cup remote[g]

HoldsTypeOK ==
    /\ alive \in SUBSET Gateway
    /\ leaders \in SUBSET Gateway
    /\ upstream \in [Gateway -> BOOLEAN]
    /\ holders \in [Gateway -> [Topic -> 0..MaxHolders]]
    /\ graced \in [Gateway -> SUBSET Topic]
    /\ remote \in [Gateway -> SUBSET Topic]
    /\ watched \in [Gateway -> SUBSET Topic]
    /\ lease \in [Gateway -> [Topic -> {"none", "fresh", "lapsed"}]]
    /\ phase \in [Gateway -> {"idle", "beaten", "read", "pruning"}]
    /\ live \in [Gateway -> SUBSET Topic]
    /\ stale \in [Gateway -> SUBSET (Gateway \X Topic)]

HoldsInit ==
    /\ alive = Gateway
    /\ leaders = {}
    /\ upstream = [g \in Gateway |-> FALSE]
    /\ holders = [g \in Gateway |-> [t \in Topic |-> 0]]
    /\ graced = [g \in Gateway |-> {}]
    /\ remote = [g \in Gateway |-> {}]
    /\ watched = [g \in Gateway |-> {}]
    /\ lease = [g \in Gateway |-> [t \in Topic |-> "none"]]
    /\ phase = [g \in Gateway |-> "idle"]
    /\ live = [g \in Gateway |-> {}]
    /\ stale = [g \in Gateway |-> {}]

-----------------------------------------------------------------------------
(* Connections come and go.                                                *)

\* watch does nothing unless this gateway is the feed, and neither does unwatch.
Watch(g, topics) ==
    watched' = [watched EXCEPT ![g] = IF upstream[g] THEN @ \cup topics ELSE @]
Unwatch(g, topics) ==
    watched' = [watched EXCEPT ![g] = IF upstream[g] THEN @ \ topics ELSE @]

\* A command to the registry that may be lost: it takes effect or changes nothing.
Sent(g, t, field) ==
    \/ lease' = [lease EXCEPT ![g][t] = field]
    \/ UNCHANGED lease

\* Mutant: acquire does not clear the grace timer.
AcquireKeepsTimer(g, t) ==
    /\ g \in alive /\ holders[g][t] < MaxHolders
    /\ holders' = [holders EXCEPT ![g][t] = @ + 1]
    /\ IF t \in Kept(g) THEN UNCHANGED watched ELSE Watch(g, {t})
    /\ IF holders[g][t] = 0 THEN Sent(g, t, "fresh") ELSE UNCHANGED lease
    /\ UNCHANGED <<alive, leaders, upstream, graced, remote, sync>>

\* RoleFeed.acquire and MarketFeed.acquire.
Acquire(g, t) ==
    /\ g \in alive /\ holders[g][t] < MaxHolders
    /\ holders' = [holders EXCEPT ![g][t] = @ + 1]
    /\ graced' = [graced EXCEPT ![g] = @ \ {t}]
    /\ IF t \in Kept(g) THEN UNCHANGED watched ELSE Watch(g, {t})
    /\ IF holders[g][t] = 0 THEN Sent(g, t, "fresh") ELSE UNCHANGED lease
    /\ UNCHANGED <<alive, leaders, upstream, remote, sync>>

\* RoleFeed.release and MarketFeed.release: the last one starts the grace timer.
Release(g, t) ==
    /\ g \in alive /\ holders[g][t] > 0
    /\ holders' = [holders EXCEPT ![g][t] = @ - 1]
    /\ IF holders[g][t] = 1
         THEN graced' = [graced EXCEPT ![g] = @ \cup {t}] /\ Sent(g, t, "none")
         ELSE UNCHANGED <<graced, lease>>
    /\ UNCHANGED <<alive, leaders, upstream, remote, watched, sync>>

\* The timer of release.
GraceEnds(g, t) ==
    /\ g \in alive /\ t \in graced[g]
    /\ graced' = [graced EXCEPT ![g] = @ \ {t}]
    /\ IF t \in remote[g] THEN UNCHANGED watched ELSE Unwatch(g, {t})
    /\ UNCHANGED <<alive, leaders, upstream, holders, remote, lease, sync>>

-----------------------------------------------------------------------------
(* Roles.                                                                  *)

\* becomeLeader up to its sync: promote, then the mode.
BecomeLeader(g) ==
    /\ g \in alive \ leaders
    /\ Overlap \/ leaders = {}
    /\ leaders' = leaders \cup {g}
    /\ upstream' = [upstream EXCEPT ![g] = TRUE]
    /\ watched' = [watched EXCEPT ![g] = @ \cup Kept(g)]
    /\ UNCHANGED <<alive, holders, graced, remote, lease, sync>>

\* becomeFollower: demote unwatches every topic and forgets the graced and the remote ones.
BecomeFollower(g) ==
    /\ g \in leaders
    /\ leaders' = leaders \ {g}
    /\ upstream' = [upstream EXCEPT ![g] = FALSE]
    /\ watched' = [watched EXCEPT ![g] = @ \ Kept(g)]
    /\ graced' = [graced EXCEPT ![g] = {}]
    /\ remote' = [remote EXCEPT ![g] = {}]
    /\ UNCHANGED <<alive, holders, lease, sync>>

Gone(g) ==
    /\ alive' = alive \ {g}
    /\ leaders' = leaders \ {g}
    /\ upstream' = [upstream EXCEPT ![g] = FALSE]
    /\ holders' = [holders EXCEPT ![g] = [t \in Topic |-> 0]]
    /\ graced' = [graced EXCEPT ![g] = {}]
    /\ remote' = [remote EXCEPT ![g] = {}]
    /\ watched' = [watched EXCEPT ![g] = {}]
    /\ phase' = [phase EXCEPT ![g] = "idle"]
    /\ live' = [live EXCEPT ![g] = {}]
    /\ stale' = [stale EXCEPT ![g] = {}]

\* stop: every connection is closed, and clear forgets the leases.
Stop(g) ==
    /\ MayEnd /\ g \in alive
    /\ Gone(g)
    /\ lease' = [lease EXCEPT ![g] = [t \in Topic |-> IF t \in Held(g) THEN "none" ELSE @[t]]]

\* A process dies: its leases stay.
Crash(g) ==
    /\ MayEnd /\ g \in alive
    /\ Gone(g)
    /\ UNCHANGED lease

-----------------------------------------------------------------------------
(* RoleFeed.sync.                                                          *)

\* A lease runs out unless heartbeats keep it.
Lapse(g, t) ==
    /\ lease[g][t] = "fresh"
    /\ SlowBeats \/ g \notin alive \/ t \notin Held(g)
    /\ lease' = [lease EXCEPT ![g][t] = "lapsed"]
    /\ UNCHANGED <<alive, leaders, feed, sync>>

\* heartbeat.  A sync whose heartbeat fails leaves everything as it was.
Beat(g) ==
    /\ g \in alive /\ phase[g] = "idle"
    /\ lease' = [lease EXCEPT ![g] = [t \in Topic |-> IF t \in Held(g) THEN "fresh" ELSE @[t]]]
    /\ phase' = [phase EXCEPT ![g] = "beaten"]
    /\ UNCHANGED <<alive, leaders, feed, live, stale>>

\* The hgetall of liveTopics: a leader's, or the one in ten a follower makes to prune.
ReadLive(g) ==
    /\ g \in alive /\ phase[g] = "beaten"
    /\ live' = [live EXCEPT ![g] = {t \in Topic : \E h \in Gateway : lease[h][t] = "fresh"}]
    /\ stale' = [stale EXCEPT ![g] = {f \in Gateway \X Topic : lease[f[1]][f[2]] = "lapsed"}]
    /\ phase' = [phase EXCEPT ![g] = IF g \in leaders THEN "read" ELSE "pruning"]
    /\ UNCHANGED <<alive, leaders, feed, lease>>

\* The other nine: a follower's sync ends with the heartbeat.
EndBeat(g) ==
    /\ g \in alive /\ phase[g] = "beaten" /\ g \notin leaders
    /\ phase' = [phase EXCEPT ![g] = "idle"]
    /\ UNCHANGED <<alive, leaders, feed, lease, live, stale>>

\* The hdel of liveTopics, whatever the fields hold by now.
Prune(g) ==
    /\ g \in alive /\ phase[g] \in {"read", "pruning"} /\ stale[g] # {}
    /\ lease' = [h \in Gateway |-> [t \in Topic |->
         IF <<h, t>> \in stale[g] THEN "none" ELSE lease[h][t]]]
    /\ stale' = [stale EXCEPT ![g] = {}]
    /\ UNCHANGED <<alive, leaders, feed, phase, live>>

\* Mutant: setRemoteTopics adds what is new and drops nothing.
SetRemoteTopicsAdds(g) ==
    /\ g \in alive /\ phase[g] = "read" /\ stale[g] = {}
    /\ remote' = [remote EXCEPT ![g] = @ \cup (live[g] \ Held(g))]
    /\ Watch(g, remote'[g] \ Kept(g))
    /\ live' = [live EXCEPT ![g] = {}]
    /\ phase' = [phase EXCEPT ![g] = "idle"]
    /\ UNCHANGED <<alive, leaders, upstream, holders, graced, lease, stale>>

\* Mutant: setRemoteTopics keeps only what is new since the last call.
SetRemoteTopicsNew(g) ==
    /\ g \in alive /\ phase[g] = "read" /\ stale[g] = {}
    /\ remote' = [remote EXCEPT ![g] = (live[g] \ Held(g)) \ @]
    /\ watched' = [watched EXCEPT ![g] =
         IF upstream[g] THEN (@ \cup remote'[g]) \ (remote[g] \ Refs(g)) ELSE @]
    /\ live' = [live EXCEPT ![g] = {}]
    /\ phase' = [phase EXCEPT ![g] = "idle"]
    /\ UNCHANGED <<alive, leaders, upstream, holders, graced, lease, stale>>

\* setRemoteTopics with what others hold.  The mode is not looked at again.
SetRemoteTopics(g) ==
    /\ g \in alive /\ phase[g] = "read" /\ stale[g] = {}
    /\ remote' = [remote EXCEPT ![g] = live[g] \ Held(g)]
    /\ watched' = [watched EXCEPT ![g] =
         IF ~upstream[g] THEN @
         ELSE (@ \cup (remote'[g] \ Kept(g))) \ (remote[g] \ (remote'[g] \cup Refs(g)))]
    /\ live' = [live EXCEPT ![g] = {}]
    /\ phase' = [phase EXCEPT ![g] = "idle"]
    /\ UNCHANGED <<alive, leaders, upstream, holders, graced, lease, stale>>

EndPrune(g) ==
    /\ g \in alive /\ phase[g] = "pruning" /\ stale[g] = {}
    /\ live' = [live EXCEPT ![g] = {}]
    /\ phase' = [phase EXCEPT ![g] = "idle"]
    /\ UNCHANGED <<alive, leaders, feed, lease, stale>>

-----------------------------------------------------------------------------
Sync(g) ==
    Beat(g) \/ ReadLive(g) \/ EndBeat(g) \/ Prune(g) \/ SetRemoteTopics(g) \/ EndPrune(g)
Connect(g) == \E t \in Topic : Acquire(g, t) \/ Release(g, t)
Expire(g) == \E t \in Topic : GraceEnds(g, t) \/ Lapse(g, t)

SettledNext == \E g \in Gateway : Sync(g) \/ Connect(g) \/ Expire(g) \/ BecomeLeader(g)
HoldsNext == SettledNext \/ \E g \in Gateway : BecomeFollower(g) \/ Stop(g) \/ Crash(g)

HoldsSpec == HoldsInit /\ [][HoldsNext]_holdsVars

\* Timers fire, syncs go on, a free lease is taken, and in the end no role changes hands.
HoldsLiveSpec ==
    /\ HoldsSpec
    /\ \A g \in Gateway :
         /\ WF_holdsVars(Sync(g)) /\ WF_holdsVars(BecomeLeader(g))
         /\ \A t \in Topic : WF_holdsVars(GraceEnds(g, t)) /\ WF_holdsVars(Lapse(g, t))
    /\ <>[][SettledNext]_holdsVars

-----------------------------------------------------------------------------
(* Properties.                                                             *)

\* No grace timer runs for a topic that is held again: its end would drop the holder.
GracedUnheld == \A g \in Gateway : graced[g] \cap Held(g) = {}

\* The venue subscriptions of a gateway whose session runs are exactly the topics its own
\* connections hold or held a grace ago and those it believes others hold; a gateway
\* whose session is closed has none.  No order of counts, grace timers, syncs and role
\* changes leaks or loses one.
WatchedIsKept ==
    \A g \in Gateway : watched[g] = IF upstream[g] THEN Kept(g) ELSE {}

WatchedByLeader(t) == \E g \in leaders : t \in watched[g]
Quiet == <>[][UNCHANGED holders]_holders

\* Once connections no longer come and go, it is watched without pause.
HeldStaysWatched ==
    \A g \in Gateway, t \in Topic :
        Quiet /\ <>[](g \in alive /\ t \in Held(g)) => <>[]WatchedByLeader(t)

HeldSomewhere(t) == \E g \in alive : t \in Held(g)

\* A topic nobody holds any more is in the end watched by nobody, also when its holder
\* crashed or the command that dropped it was lost.
UnheldIsDropped ==
    \A t \in Topic : <>[]~HeldSomewhere(t) => <>[](\A g \in Gateway : t \notin watched[g])
=============================================================================
