----------------------------- MODULE FeedStream -----------------------------
(***************************************************************************)
(* The frames of one chain topic from the venue to the browser:            *)
(* apps/gateway/src/feed/feed.ts and coalescer.ts on the leading gateway,  *)
(* pubsub/redis.ts between gateways, feed/role.ts and server.ts on every   *)
(* gateway, apps/web/src/lib/gateway/{client,reducer}.ts in the browser.   *)
(*                                                                         *)
(* The rows of a chain are a version number: the number of price changes   *)
(* of the venue they include.  A snap frame carries rows, a q frame the    *)
(* changes after version `from` up to version `ver`.  Rows that miss a     *)
(* change between two they have are not whole.  No code has the field term *)
(* of a frame: the number of the takeover that made its sender the leader. *)
(*                                                                         *)
(* Redis is three connections of each gateway: one publishes, one is       *)
(* subscribed, one writes and reads the store.  Neither PUBLISH nor        *)
(* SUBSCRIBE nor SET is awaited.  A frame may miss a gateway at any time,  *)
(* and come before or after a write sent with it takes effect.  One        *)
(* sender's frames keep their order, and no frame comes twice.             *)
(*                                                                         *)
(* One gateway leads at a time (LeaderLease), the topic is held all along, *)
(* and a frame sent to a browser is read at once: the socket keeps order.  *)
(***************************************************************************)
EXTENDS Integers, Sequences

CONSTANTS Gateway,
          Browser,       \* each has the topic open in one tab
          Nothing,
          MaxChanges,    \* bound: price changes of the venue and leases taken after the
                         \* first, together
          MaxFaults,     \* bound: buffers filled up, sockets dropped and frames lost
          MaxWire        \* bound: frames on their way from one gateway

ASSUME BoundAssumption == {MaxChanges, MaxFaults, MaxWire} \subseteq Nat

VARIABLES venue,       \* the venue's version of the chain
          leader,      \* the gateway whose RoleFeed.mode is leader
          takeovers,
          cache,       \* MarketFeed.lastQuote of each gateway
          batch,       \* Coalescer.pendingQuotes: the version it starts from
          seq,         \* Coalescer.seqs
          put,         \* each gateway's last write to the store, if it is on its way
          store,       \* the SnapshotStore's entry
          wire,        \* frames each gateway published, on their way
          faults,      \* buffers filled up, sockets dropped, frames lost
          tab          \* each browser and its subscription on its gateway

feed == <<venue, leader, takeovers, cache, batch, seq>>
streamVars == <<feed, put, store, wire, faults, tab>>

Version == 0..MaxChanges
Term == 0..MaxChanges
Snap == [t : {"snap"}, seq : Nat, ver : Version, term : Term \cup {Nothing}]
Q == [t : {"q"}, seq : Nat, from : Version, ver : Version, term : Term]
ASSUME NothingAssumption == Nothing \notin Gateway \cup Nat \cup Snap

Tab == [home : Gateway, sub : {"waiting", "live"}, queue : Seq(Snap \cup Q),
        answer : Snap \cup {Nothing}, full : BOOLEAN, stalled : BOOLEAN,
        resyncing : BOOLEAN, resync : Snap \cup {Nothing},
        seq : Nat \cup {-1}, ver : Version, term : Term \cup {Nothing}, whole : BOOLEAN,
        lost : BOOLEAN, aged : BOOLEAN]

StreamTypeOK ==
    /\ venue \in Version
    /\ leader \in Gateway \cup {Nothing}
    /\ takeovers \in Term
    /\ cache \in [Gateway -> Version]
    /\ batch \in [Gateway -> Version \cup {Nothing}]
    /\ seq \in [Gateway -> Nat]
    /\ put \in [Gateway -> Snap \cup {Nothing}]
    /\ store \in Snap \cup {Nothing}
    /\ wire \in [Gateway -> Seq(Snap \cup Q)]
    /\ faults \in 0..MaxFaults
    /\ tab \in [Browser -> Tab]

\* MarketFeed.snapshot: the rows as they are, under the number flushed last.
SnapOf(g) == [t |-> "snap", seq |-> seq[g], ver |-> cache[g], term |-> takeovers]

NewTab(g) == [home |-> g, sub |-> "waiting", queue |-> <<>>, answer |-> Nothing,
              full |-> FALSE, stalled |-> FALSE, resyncing |-> FALSE, resync |-> Nothing,
              seq |-> -1, ver |-> 0, term |-> Nothing, whole |-> TRUE,
              lost |-> FALSE, aged |-> FALSE]

\* A leader has announced the topic; the browsers have just subscribed.
StreamInit ==
    /\ venue = 0 /\ takeovers = 0 /\ faults = 0
    /\ leader \in Gateway
    /\ cache = [g \in Gateway |-> 0]
    /\ batch = [g \in Gateway |-> Nothing]
    /\ seq = [g \in Gateway |-> 0]
    /\ put = [g \in Gateway |-> Nothing]
    /\ store = SnapOf(leader)
    /\ wire = [g \in Gateway |-> <<>>]
    /\ tab \in [Browser -> {NewTab(g) : g \in Gateway \ {leader}}
                           \cup {[NewTab(leader) EXCEPT !.sub = "live", !.seq = 0, !.term = 0]}]

-----------------------------------------------------------------------------
(* The leader's feed.                                                      *)

\* PUBLISH is sent and not awaited.
Publish(l, frame) ==
    /\ Len(wire[l]) < MaxWire
    /\ wire' = [wire EXCEPT ![l] = Append(@, frame)]

\* So is the SET of writeSnapshot, and a failure is logged: a SET that fails never takes
\* effect.  Bound: nor does one that another follows first.
WriteSnapshot(l, snap) == put' = [put EXCEPT ![l] = snap]

VenueMoves ==
    /\ venue + takeovers < MaxChanges
    /\ venue' = venue + 1
    /\ UNCHANGED <<leader, takeovers, cache, batch, seq, put, store, wire, faults, tab>>

\* What quoteDelta finds new joins the batch, if this gateway leads.
Learn(g) ==
    /\ cache' = [cache EXCEPT ![g] = venue]
    /\ batch' = IF g = leader /\ cache[g] # venue /\ batch[g] = Nothing
                  THEN [batch EXCEPT ![g] = cache[g]] ELSE batch

\* onTicker, from the venue's socket.
Tick(g) ==
    /\ g = leader /\ cache[g] # venue
    /\ Learn(g)
    /\ UNCHANGED <<venue, leader, takeovers, seq, put, store, wire, faults, tab>>

\* load: REST quotes; a leader then re-announces the chain.  Bound: a load that brings
\* nothing new, and so announces rows the leader has ticked already, is left out.
Load(g) ==
    /\ cache[g] # venue
    /\ Learn(g)
    /\ IF g = leader
         THEN LET snap == [SnapOf(g) EXCEPT !.ver = venue]
              IN  Publish(g, snap) /\ WriteSnapshot(g, snap)
         ELSE UNCHANGED <<wire, put>>
    /\ UNCHANGED <<venue, leader, takeovers, seq, store, faults, tab>>

\* Coalescer.flush.
Flush(g) ==
    /\ g = leader /\ batch[g] # Nothing
    /\ seq' = [seq EXCEPT ![g] = @ + 1]
    /\ Publish(g, [t |-> "q", seq |-> seq[g] + 1, from |-> batch[g], ver |-> cache[g],
                   term |-> takeovers])
    /\ batch' = [batch EXCEPT ![g] = Nothing]
    /\ UNCHANGED <<venue, leader, takeovers, cache, put, store, faults, tab>>

\* writeDirty, at most snapshotWriteMs after a flush, and keepalive.  Bound: a write that
\* changes nothing is left out.
Rewrite(g) ==
    /\ g = leader /\ SnapOf(g) \notin {put[g], store}
    /\ WriteSnapshot(g, SnapOf(g))
    /\ UNCHANGED <<feed, store, wire, faults, tab>>

\* becomeFollower, or the end of the leading process.
Lose(g) ==
    /\ g = leader /\ venue + takeovers < MaxChanges
    /\ leader' = Nothing
    /\ batch' = [batch EXCEPT ![g] = Nothing]
    /\ UNCHANGED <<venue, takeovers, cache, seq, put, store, wire, faults, tab>>

\* Mutant: a new leader does not announce what is held.
TakeSilently(g) ==
    /\ leader = Nothing
    /\ leader' = g
    /\ takeovers' = takeovers + 1
    /\ WriteSnapshot(g, [SnapOf(g) EXCEPT !.term = takeovers + 1])
    /\ UNCHANGED <<venue, cache, batch, seq, store, wire, faults, tab>>

\* becomeLeader: watches the held topic and announces it.
Take(g) ==
    /\ leader = Nothing
    /\ leader' = g
    /\ takeovers' = takeovers + 1
    /\ LET snap == [SnapOf(g) EXCEPT !.term = takeovers + 1]
       IN  Publish(g, snap) /\ WriteSnapshot(g, snap)
    /\ UNCHANGED <<venue, cache, batch, seq, store, faults, tab>>

-----------------------------------------------------------------------------
(* The store.                                                              *)

\* Redis runs the SET.
PutArrives(g) ==
    /\ put[g] # Nothing
    /\ store' = put[g]
    /\ put' = [put EXCEPT ![g] = Nothing]
    /\ UNCHANGED <<feed, wire, faults, tab>>

\* snapshotTtlMs, when no write has come for so long.
StoreExpires ==
    /\ store # Nothing
    /\ store' = Nothing
    /\ UNCHANGED <<feed, put, wire, faults, tab>>

-----------------------------------------------------------------------------
(* A browser's view and its subscription, as functions on its tab.  Two    *)
(* fields keep history: a frame was lost since what the view was last      *)
(* given (lost), and that was of an earlier leader, or of none, when       *)
(* another led already (aged).                                             *)

\* applySnapshot.
ShowSnap(r, f) ==
    [r EXCEPT !.seq = f.seq, !.ver = f.ver, !.term = f.term, !.whole = TRUE,
              !.lost = FALSE, !.aged = f.term # takeovers]

\* A snapshot that a follower read a while ago; what was lost since is still lost.
ShowStored(r, f) == [ShowSnap(r, f) EXCEPT !.lost = r.lost]

\* subscribe: a leader sends its rows at once, a follower asks the store.
Subscribe(r, g) ==
    LET new == [r EXCEPT !.home = g, !.sub = "waiting", !.queue = <<>>, !.answer = Nothing,
                         !.full = FALSE, !.stalled = FALSE, !.resyncing = FALSE, !.resync = Nothing,
                         !.lost = FALSE]
    IN  IF g = leader THEN ShowSnap([new EXCEPT !.sub = "live"], SnapOf(g)) ELSE new

\* Changes on top of the rows.
AddRows(r, f) ==
    [r EXCEPT !.seq = f.seq, !.term = IF @ = f.term THEN @ ELSE Nothing,
              !.whole = @ /\ r.ver >= f.from, !.ver = IF @ < f.ver THEN f.ver ELSE @,
              !.lost = @ /\ r.term # f.term, !.aged = @ \/ f.term # takeovers]

\* Mutant: any higher number will do.
ShowQGap(r, f) ==
    IF r.seq = -1 \/ f.seq <= r.seq THEN r ELSE AddRows(r, f)

\* applyDeltas: a gap makes the rows stale.
ShowQ(r, f) ==
    IF r.seq = -1 \/ f.seq <= r.seq THEN r
    ELSE IF f.seq # r.seq + 1 THEN [r EXCEPT !.sub = "stale"]
    ELSE AddRows(r, f)

Show(r, f) == IF f.t = "snap" THEN ShowSnap(r, f) ELSE ShowQ(r, f)

\* refresh: the client with stale rows subscribes again.
Refresh(r) == IF r.sub = "stale" THEN Subscribe(r, r.home) ELSE r

\* Mutant: a drained connection just goes on.
ResyncNothing(r) == [r EXCEPT !.stalled = FALSE]

\* resync: the leader's rows at once, a follower's when the store has answered.
Resync(r) ==
    IF r.home = leader THEN ShowSnap([r EXCEPT !.stalled = FALSE], SnapOf(leader))
                       ELSE [r EXCEPT !.stalled = FALSE, !.resyncing = TRUE, !.lost = FALSE]

\* deliver.
Receive(t, f) ==
    IF t.sub = "waiting" THEN [t EXCEPT !.queue = Append(@, f)]
    ELSE IF t.full       THEN [t EXCEPT !.stalled = TRUE]
    ELSE IF t.stalled    THEN Resync(t)
    ELSE Show(t, f)

\* flushPending: what the snapshot does not supersede is delivered.  It runs through
\* before a refresh gets to the gateway: rows that a gap made stale are stale at the end.
Replayed(r, f, after) ==
    IF r.sub = "live" /\ f.t = "q" /\ f.seq > after THEN Receive(r, f) ELSE r

Replay(r, frames, after) ==
    LET shown[i \in 0..Len(frames)] ==
            IF i = 0 THEN r ELSE Replayed(shown[i - 1], frames[i], after)
    IN  shown[Len(frames)]

\* The first frame, then what came in while it was awaited.
FirstFrame(r, snap) ==
    LET first == ShowStored([r EXCEPT !.sub = "live", !.queue = <<>>, !.answer = Nothing], snap)
    IN  Refresh(Replay(first, r.queue, snap.seq))

-----------------------------------------------------------------------------
(* Every gateway.                                                          *)

\* Redis hands the next frame of l to every subscribed gateway, and each to its connections.
\* Those in `missed` never get it: the PUBLISH failed, the SUBSCRIBE sent with the gateway's
\* first subscription has not taken effect yet, or the subscribed connection is down.
Deliver(l, missed) ==
    /\ wire[l] # <<>>
    /\ wire' = [wire EXCEPT ![l] = Tail(@)]
    /\ \/ missed = {} /\ UNCHANGED faults
       \/ missed # {} /\ faults < MaxFaults /\ faults' = faults + 1
    /\ tab' = [b \in Browser |->
         IF tab[b].home \in missed THEN [tab[b] EXCEPT !.lost = TRUE]
                                   ELSE Refresh(Receive(tab[b], Head(wire[l])))]
    /\ UNCHANGED <<feed, put, store>>

\* Mutant: the local rows have no number.
UnnumberedRows(g) == [SnapOf(g) EXCEPT !.seq = -1, !.term = Nothing]

\* A follower's own REST rows, at seq 0.
LocalRows(g) == [SnapOf(g) EXCEPT !.seq = 0, !.term = Nothing]

\* followerSnapshot: the stored rows; if there are none, or no read succeeds until the
\* deadline, the feed's own once this gateway leads, or else the local ones.
Answers(g) ==
    ({store} \ {Nothing}) \cup {IF leader = g THEN SnapOf(g) ELSE LocalRows(g)}

ReadStore(b) ==
    /\ tab[b].sub = "waiting" /\ tab[b].answer = Nothing
    /\ \E answer \in Answers(tab[b].home) : tab' = [tab EXCEPT ![b].answer = answer]
    /\ UNCHANGED <<feed, put, store, wire, faults>>

SendFirst(b) ==
    /\ tab[b].answer # Nothing
    /\ tab' = [tab EXCEPT ![b] = FirstFrame(tab[b], tab[b].answer)]
    /\ UNCHANGED <<feed, put, store, wire, faults>>

\* bufferedAmount goes over the limit, and under it again.
Fill(b) ==
    /\ faults < MaxFaults /\ tab[b].sub = "live" /\ ~tab[b].full /\ ~tab[b].resyncing
    /\ faults' = faults + 1
    /\ tab' = [tab EXCEPT ![b].full = TRUE]
    /\ UNCHANGED <<feed, put, store, wire>>

Drain(b) ==
    /\ tab[b].full
    /\ tab' = [tab EXCEPT ![b].full = FALSE]
    /\ UNCHANGED <<feed, put, store, wire, faults>>

\* recoverStalled.
Sweep(b) ==
    /\ tab[b].stalled /\ ~tab[b].full
    /\ tab' = [tab EXCEPT ![b] = Resync(@)]
    /\ UNCHANGED <<feed, put, store, wire, faults>>

ResyncRead(b) ==
    /\ tab[b].resyncing /\ tab[b].resync = Nothing
    /\ \E answer \in Answers(tab[b].home) : tab' = [tab EXCEPT ![b].resync = answer]
    /\ UNCHANGED <<feed, put, store, wire, faults>>

ResyncSend(b) ==
    /\ tab[b].resync # Nothing
    /\ tab' = [tab EXCEPT ![b] =
         ShowStored([@ EXCEPT !.resyncing = FALSE, !.resync = Nothing], tab[b].resync)]
    /\ UNCHANGED <<feed, put, store, wire, faults>>

\* The socket drops; the client connects again, to whichever gateway, and resubscribes.
Reconnect(b, g) ==
    /\ faults < MaxFaults
    /\ faults' = faults + 1
    /\ tab' = [tab EXCEPT ![b] = Subscribe(@, g)]
    /\ UNCHANGED <<feed, put, store, wire>>

-----------------------------------------------------------------------------
Lead(g) == Tick(g) \/ Flush(g) \/ Rewrite(g)
Serve(b) ==
    ReadStore(b) \/ SendFirst(b) \/ Drain(b) \/ Sweep(b) \/ ResyncRead(b) \/ ResyncSend(b)

StreamNext ==
    \/ VenueMoves \/ StoreExpires
    \/ \E g \in Gateway : Lead(g) \/ Load(g) \/ Lose(g) \/ Take(g) \/ PutArrives(g)
    \/ \E l \in Gateway, missed \in SUBSET {tab[b].home : b \in Browser} : Deliver(l, missed)
    \/ \E b \in Browser : Serve(b) \/ Fill(b)
    \/ \E b \in Browser, g \in Gateway : Reconnect(b, g)

StreamSpec == StreamInit /\ [][StreamNext]_streamVars

-----------------------------------------------------------------------------
(* Properties.                                                             *)

\* "so clients can detect gaps" (coalescer.ts): rows built on a leader's snapshot and his
\* changes only never miss one of them in the middle, whatever was lost, dropped at a full
\* buffer, read late from the store, or published by another leader in between.
NeverMixed == \A b \in Browser : tab[b].term # Nothing => tab[b].whole

\* Everything sent to the browser has arrived or was lost, and nothing dropped is left to
\* replace.
Settled(b) ==
    /\ tab[b].sub = "live" /\ \A l \in Gateway : wire[l] = <<>>
    /\ ~tab[b].stalled /\ ~tab[b].full /\ ~tab[b].resyncing

\* The rows the leader's clients have been sent.
Flushed == IF batch[leader] = Nothing THEN cache[leader] ELSE batch[leader]

\* "After a stall, replace whatever was dropped with the current state of the topic"
\* (server.ts, resync) and "snapshots report the last flushed seq" (coalescer.ts): until the
\* role changes hands, a browser on the leading gateway ends up with every row the leader
\* has sent, unless the very last frames to it were lost: any frame that arrives makes up
\* for those lost before it.  And rows that all come from the leader include what he has
\* sent, at the latest, when they are at his number.
CaughtUp ==
    leader # Nothing => \A b \in Browser :
        \/ takeovers = 0 /\ tab[b].home = leader /\ Settled(b) /\ ~tab[b].lost
        \/ tab[b].term = takeovers /\ tab[b].seq = seq[leader]
        => tab[b].ver >= Flushed

\* "the snapshot resets every subscriber on every gateway" (feed.ts, announce).  It does:
\* once everything has arrived, every browser shows the leader's rows and is not ahead of
\* his numbers, deaf to his frames.  Redis and the order of its connections allow two
\* exceptions: a frame was lost on the way to the browser, or what it was last given was
\* older than the takeover: a stored snapshot read or sent late (flushPending skips
\* the announcement as superseded), a gateway's own rows, or a former leader's late frame.
ResetByLeader ==
    leader # Nothing => \A b \in Browser :
        Settled(b) /\ ~tab[b].lost /\ ~tab[b].aged =>
            tab[b].term = takeovers /\ tab[b].seq <= seq[leader]
=============================================================================
