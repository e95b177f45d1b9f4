# hapiecoin in TLA+

hapiecoin is a trading platform for crypto options: live option chains, a
strategy builder, paper and live trading, subscriptions. It is a TypeScript
monorepo of four programs (`apps/api`, `apps/gateway`, `apps/ingest`,
`apps/web`) over Postgres and Redis, and five packages (`packages/venues`,
`pricing`, `schema`, `ui`, `config`).

This directory holds TLA+ models of the parts of it where several actors work
on shared state, the TLC configurations that check them, and TLAPS proofs about
all but one of them. `PROJECT.json` is the index: which definition stands for which
lines, what each run checks, the hazard each property is for, and the mutated
definitions that show that a property can fail.

    tlc -workers 2 -config LeaderLease_lease.cfg MCLeaderLease
    tlapm LeaderLeaseProofs.tla

## 1. Inventory

The components, with the state each keeps, what is done to it, what is hard
about it and what makes it right. ✔ marks what is modelled, wholly or in part.

**Leader election** ✔ (`apps/gateway/src/leader.ts`, with a copy in the API).
State: one Redis key with a time to live; per process a loop with a leader
flag, a stopped flag and timers. Operations: acquire, renew, release, and the
callbacks onAcquire, onLose. Hard: the flag is only what the last answer said;
a call that timed out still sits in the client's queue and is executed later;
`stop()` arrives in the middle of a step; processes die. Right: two processes
do not do the leader's work at once; a stopped or dead process loses the key;
the role is soon taken again.

**Market feed: frames** ✔ (`feed/feed.ts`, `feed/coalescer.ts`,
`feed/role.ts`, `pubsub/redis.ts`, `server.ts` of the gateway, and
`lib/gateway/{client,reducer}.ts` of the web). State: the leader's rows, its
batch of changes and its sequence numbers; a stored snapshot in Redis; frames
on their way; per browser a send buffer, a queue before the first frame, and
the rows shown. Hard: a gateway publishes, subscribes and uses the store on three
connections, awaits none of it and swallows failures, so frames get lost and
overtake the snapshot stored with them; numbers belong to one leader and start again
with the next; full buffers drop frames. Right: the rows shown never miss a change in
the middle, catch up, and are the new leader's after a takeover.

**Held topics and the registry** ✔ (`feed/feed.ts`, `feed/role.ts`,
`coordination/registry.ts`). State: reference counts with grace timers; a Redis
hash of (topic, gateway) leases; which topics the leader's venue session
watches. Hard: commands are sent and forgotten; a sync of the registry is four
commands with awaits between them; roles change meanwhile; gateways die with
leases. Right: what is held anywhere is watched, what nobody holds is dropped.

**Gateway connections and subscriptions** ✔ (`server.ts`). State: per
connection its subscribed topics and their fan-out listeners; the per-address
connection count. Hard: on a follower `subscribe()` awaits the snapshot store
once per topic, while other messages and the close are served. Right: a closed
connection holds nothing, and every subscription gets its first frame.

**The browser's gateway client** ✔ (`lib/gateway/client.ts`). State: one
socket, a reconnect timer, what the views want. Hard: closing takes a while, and
the close event does not say whose it is; the feed is paused and resumed. Right:
one socket at a time, subscribed again to all that is wanted after every drop.

**Venue clients** ✔ (`packages/venues`: `ws/reconnecting.ts`, `delta/ws.ts`).
State: a socket, a reconnect timer, a watchdog, what is wanted. Hard: a socket may
go silent without closing, or hang while it closes. Right: as above. The REST calls
hold no state; what the exchange does with an order is part of the next three.

**Live entries, retries, cancels, re-pricing** ✔ (`routes/live.ts`,
`live-exec.ts`, `routes/strategies.ts`, `live-reconcile.ts`). State: order rows
under a client order id and an idempotency key, the legs' entry premiums, what the
exchange really has. Hard: look and write are apart, so two requests under one key,
or two of one strategy, may both send; a cancel or an edit races a fill; answers
are lost; the sync writes rows it read earlier. Right: a leg is entered once, no
order is forgotten, and the books say filled or cancelled only of one that is.

**Exits of a live strategy** ✔ (`rules-engine.ts`, `routes/strategies.ts`,
`routes/live-exec.ts`, `live-reconcile.ts`). State: legs, rules, the rows of
the orders, what the exchange really has. Hard: the rules engine, the trader
and the order sync exit the same legs; the answer to an order may be lost; a
write after an accepted order may fail. Right: a leg is closed only by a fill,
no good order is lost, no second exit is sent.

**Strategies, adjustments, running total; settlement of expiries** ✔
(`routes/strategies.ts`, `settlement.ts`, the booking half of
`rules-engine.ts`). State: the lots of a strategy's legs, its status, its rules,
and a running realised total that several writers read, add to and write back.
Hard: every handler is a sequence of reads and writes without a transaction, and
the trader, the engine, the sync and the settler run them at once. Right: no lot is
closed twice, the total is what was closed, what is archived is over, what has
expired is settled.

**Verified fills** ✔ (`verified.ts`, `routes/verified.ts`). State: the fills held of
a connected key and a watermark with a cursor. Hard: the walk over the exchange's
pages has caps, its reads fail, fills come in meanwhile, and job and button
overlap. Right: no fill is ever passed over.

**Checkout** ✔ (`checkout.ts`, `coupons.ts`, `referrals.ts`,
`entitlements.ts`, `routes/checkout.ts`, `routes/billing.ts`,
`admin-users.ts`). State: payments, subscriptions, the coupon's counter,
referral credits; Razorpay's view of the payment. Hard: handlers are sequences
of statements without a transaction; the browser's confirmation, the
at-least-once webhook, a cancellation and an admin's `setPlan` interleave;
processes die half way. Right: no plan without money, money always ends in a
plan, the buyer is never left without one.

**Not modelled.** Most of the repository's lines are here, and most of them keep no
state that two actors share:

- the web client's views and stores (rendering and forms), `packages/ui`,
  `packages/config`, and `packages/schema` (validation and labels): no protocol;
- `packages/pricing`: stateless floating-point models, out of TLC's reach;
- parsing, signing and rate budgets of the venue clients, and how a rule comes to
  be crossed: numbers and formats;
- `apps/ingest`: independent pull jobs that write rows with a time to live;
- background jobs other than the above (snapshots, alerts, Telegram): each pass is
  one loop of the leading replica over rows. An alert is fired by a write guarded
  on its state alone (`alerts-fire.ts:63`), so that an edit made since it was
  judged does not stop it;
- administration, mail and public content: single-request CRUD;
- identity and secrets: a library's sessions, stateless guards and headers, one
  counter per rate limit. Re-sealing (`credentials-reseal.ts:27`) writes over a key
  that was saved meanwhile;
- the Mindful pause, stamped in the memory of one replica (`day-pnl.ts:91`);
- observability, wiring, and migrations (the uniqueness that matters is in the
  actions that rely on it).

### How the parts interact

Redis carries three things between gateways: the lease, the topic leases of the
registry, and frames (publish/subscribe, which loses some, plus the stored snapshot).
The lease decides which gateway leads; its callbacks promote and demote `RoleFeed`. The
leader reads from the registry what is held anywhere, watches it on the venue
and publishes the frames; every gateway fans them out to its connections. In the
API the same lease decides which replica runs the jobs: among them the rules
engine, the order sync, the settler and the reading of fills, which meet the
trader's own requests in Postgres and at the exchange. Checkout meets Razorpay,
and shares subscriptions with the admin's routes.

So LeaderLease is modelled first and shown to implement OneLeader, the promise the
others rely on; they take a change of role as an action that may happen at any
time: at most one leader in FeedStream; in FeedHolds optionally two at once
(constant `Overlap`), because the exclusion holds only under a timing assumption
that the code does not enforce. LiveExits and StrategyBook have any number of
engine passes at a time for the same reason. FeedSockets composes the two socket
clients at either end of a gateway. LiveOrders, LiveExits and StrategyBook are
three views of one strategy: its entry orders, its exit orders, its lots and total.

## 2. The modules

| module | models | lines it keeps and what it abstracts |
|---|---|---|
| `OneLeader` | the promise of `leader.ts` | Abstract: who does the leader's work, and who was told to stop or died. |
| `LeaderLease` | `leader.ts` | The whole loop. Time is counted down, so no clock grows. Implements `OneLeader`. |
| `LeaderLeaseHistory` | – | LeaderLease with, for each process, how long nobody has led while it could have (`wait`). |
| `Checkout` | `checkout.ts` and those it shares rows with | Every statement is a step. One buyer, one coupon; prices are left out. |
| `FeedStream` | the way of one chain topic's frames | A chain's rows are a version number: how many of the venue's changes they include. |
| `FeedHolds` | counts, roles, registry | Connections are counts. |
| `GatewaySubs` | `server.ts` | The topics of a message are a set; frames are reduced to "answered". |
| `TabSocket`, `VenueSocket` | `client.ts`, `reconnecting.ts` | Sockets and their events; delays and what is sent are left out. |
| `FeedSockets` | both, with a gateway between | The gateway watches at the venue what it serves the tab. |
| `LiveOrders` | entries | An order is its state and price; amounts are left out. |
| `LiveExits` | exits | Exits are of whole legs; amounts are left out. |
| `StrategyBook` | lots, total, status | A lot that is closed realises one unit; which orders are sent is left out. |
| `VerifiedFills` | `verified.ts` | A fill is its number in time, a cursor the number of a fill. |

`LeaderLeaseProofs`, `CheckoutProofs`, `LiveOrdersProofs`, `LiveExitsProofs`,
`StrategyBookProofs` and `VerifiedFillsProofs` hold the theorems about the module of
their name, `GatewayProofs` those about GatewaySubs and FeedStream, `FeedProofs` those
about FeedSockets and FeedHolds, which share the topics (`FeedTopics`);
`LeaderLeaseProofs` also has the one about `LeaderLeaseHistory`. A module whose proofs
stand beside another's has its names prefixed (`StreamSpec`, `HoldsSpec`).
The `MC...` modules only add the symmetry sets and
the tuples TLC's configurations need. Symmetry is used in runs of safety properties
only.

**State and actions against the code.** Variables carry the names of the fields
they stand for, or name them in a comment; actions are named after the method or
after the event that resumes it. Variables "for the properties only" are history:
no guard reads them.

- *LeaderLease.* `phase` is the await at which the loop of a process stands.
  `Step` sends acquire or renew through `bounded()`; `RedisRuns` executes it at
  Redis; `Answered`, `CallFails`, `CallTimesOut` are the three ends of the await,
  the last one leaves the command in `abandoned`, from where `RedisRunsLate`
  may execute it at any later time. `Taken`, `TakeFails`, `Lost`, `Released` end
  the callbacks and the release; `Stop` is `stop()`, which waits for the step
  under way. An element of `Process` is one owner id, that is one life of a
  process. `Tick` waits for whatever is due. `PlaysRole` maps it to OneLeader:
  `acting` are the processes between onAcquire and onLose, `retired` those stopped
  or dead.
- *Checkout.* `Arrive` takes a request in; `job` is where its handler stands
  and what it had read. `StartCheckout`, `Capture`, `Refuse` belong to the buyer
  and Razorpay; `Crash` kills a request between two statements. Unique keys are
  guards of the statements that meet them.
- *FeedStream.* `Tick` and `Load` take the venue's changes into the feed, from its
  socket and by REST; `Flush` publishes a batch, `Rewrite` stores the snapshot again;
  `Lose` and `Take` are a takeover. PUBLISH and SET are commands of their own, on
  connections of their own: `wire` holds the frames a gateway published, `put` its last
  SET, and either may take effect first. `Deliver` hands a frame from Redis to all
  gateways and on to their connections, but for those that miss it: the PUBLISH failed,
  the SUBSCRIBE had not taken effect, the connection was down. A SET may arrive at any
  time (`PutArrives`) or never, and the entry may expire (`StoreExpires`).
  `Serve` is what `server.ts` does for one connection (first frame, replay of the queue,
  resync after a stall), and what `Answers` gives it on a follower is the stored rows or,
  since any read may fail until the deadline, the gateway's own. `Fill` and `Reconnect`
  are the other faults. A gap in the numbers makes the rows stale and the client
  subscribe again (`Refresh`), after the rest of the replay if it was found there
  (`Replay`, `flushPending`); the round trip this takes, in which the client shows rows it
  has marked stale, is left out. `tab` holds both ends of one socket. `lost` and `aged`
  are history (a frame was lost since the browser was last given rows; what it was given
  was of an earlier leader, or of none, when another led already), and so is `term` of a
  frame and of rows: the number of the takeover that made the sender the leader, none for
  a follower's local rows and for rows built from frames of two terms.
- *FeedHolds.* `Acquire`, `Release`, `GraceEnds` are reference counting;
  `Beat`, `ReadLive`, `EndBeat`, `Prune`, `SetRemoteTopics`, `EndPrune` the
  commands of one sync; `Lapse` a lease running out; `BecomeLeader` and
  `BecomeFollower` the roles.
- *GatewaySubs.* `Sub` runs `subscribe()` up to its first await, `Resume` from
  one await to the next, on the `ConnState` the loop was given, also when the
  connection is gone. `Unsub`, `Open`, `Close`, `ChangeRole`.
- *TabSocket, VenueSocket.* `client` is the object, `net` its sockets. `Opens`,
  `Closed`, `TimerFires` (and the watchdog's `Stale`) are its event handlers; the
  close event of a socket may come long after `Close`, and its handler acts on the
  client whichever socket it was. `Drops` and `GoesSilent` are the network. `hasty`
  is history: a tab's socket was opened while another was closing. In *FeedSockets*
  a step of the tab that changes what it is served is followed, in the same event,
  by the venue client's `Watch`.
- *LiveOrders.* `Place`, `Batch`, `Add`, `Retry`, `Cancel`, `Reprice` are requests
  up to the point where they have read what they go by; `Flip` and `Checked` their
  next writes. `NextOrder`, `Send`, `Record`, `Enter` are one entry; `SendCancel`,
  `SendEdit`, `Read`, `Answer` a cancel or an edit, with its read-back. `SyncStart`,
  `SyncAsk`, `SyncWrite` are the reconciler and the Sync button. `Send`,
  `SendCancel`, `SendEdit` include what the exchange does, `VenueMoves` what it does
  of its own. `excused` is history: legs that two entered at once, or of whose order
  the books lost sight.
- *LiveExits.* `Fire` is a rule judged true, its batch claimed; `Ask` a click;
  `NextLeg`, `Number`, `Place`, `Record`, `Book`, `End` are the statements of an
  exit, shared by the engine and the routes as the code shares them; the five
  `Sync...` actions are the reconciler; `VenueMoves` and `Place` are the exchange.
  `excused` as above, of exits.
- *StrategyBook.* A worker runs one handler at a time: it reads the strategy and the
  legs it is to close (`Begin`), closes them one by one (`Look`, `Close`, `Copy` for
  the part of a partial exit), then goes through the steps `After(kind)` of that
  handler's code in their order: read the total, look whether a leg is open, disarm the
  rules, write total and status, add a leg; `step` is where it is, and an adjustment
  writes after each leg. `Reopen` and `Set` are the writes of requests that change status
  or rules. `excused` names what a race or a
  failure spoilt: "lots" (a leg was trimmed since it was read), "total" (written over
  another's), "status".
- *VerifiedFills.* `Begin` reads the watermark, `ReadKnown` what is held, `List` a
  page, `Store` writes it and decides what comes next (`Walked`), `Write` writes the
  watermark, `Fail` breaks the pass off. `spoilt` is history: a walk broke off between
  two pages, or a pass wrote its cursor over one that had changed.

## 3. What the runs check

| run | bounds | checks |
|---|---|---|
| `lease` | 2 processes, Ttl 6, Renew 2, Timeout 2, Answer 1, Take 1 | **PlaysRole** (refinement of OneLeader), LeaderHoldsLease, **LeadershipSettles** |
| `lease_slow` | 2 processes, Ttl 4, Renew 1, Timeout 2, Answer 2, Take 3: `Prompt` fails | what holds though two may lead: OnlyOwnerFrees, StaleLeaderStepsDown, VacancyBounded |
| `orders` | a bought, an activated and an admin's plan, 2 requests at a time, all kinds | types; BookedForMoney, NeverLeftWithoutPlan |
| `crash` | the same orders, one request at a time that may die anywhere | AckedIsPaid, **CapturedIsSettled** |
| `takeover` | 2 gateways, 1 browser, 2 changes and takeovers together, 1 fault (a lost frame, a full buffer, a dropped socket), 1 frame on its way from each gateway | types; NeverMixed, CaughtUp, ResetByLeader |
| `holds` | 2 gateways, 1 topic, 1 holder each | WatchedIsKept, **HeldStaysWatched**, **UnheldIsDropped** |
| `subs` | 3 connections of an address that may have 2, 2 topics, limit 1, 2 loops, messages of 2 topics | types; HoldsBalance, NoSilentTopic |
| `sockets` | 3 sockets at either end, 1 topic, 2 faults | types; OneSocketEach, SubscribedAnew, **StreamComesBack** |
| `entries` | 1 leg, 2 requests, 1 sync, 1 key, 2 prices, 2 numbers, 2 orders an id, 1 fault | types; NotForgotten, BooksTellTruth, EnteredOnce, **SyncPutsRight** |
| `exits` | 2 legs (one sold), 1 rule of either scope, 1 request, 1 engine pass at a time, 2 tries, 2 numbers a leg, 1 fault | types; ClosedIsFilled, Accounted, EngineSendsNoSecond |
| `book` | 2 legs of 2 and 1 lots, a worker and the settler, 2 handlers, deaths and legs left out together, 6 rows | types; BookedOnce, ArchivedIsOver, **ExpiredAreSettled** |
| `fills` | job and button, pages of 1, caps of 1 and 2 pages, 5 fills, 1 failure | NothingSkipped, **HistoryIsRead** |

Bold ones are temporal. Every property has a mutant in `PROJECT.json`: a plausible
bug in one definition under which TLC finds it violated in the same run.

### Why the bounds are enough

- *LeaderLease.* Exclusion is a matter of pairs, so two processes show every
  violation of it. In `lease` the constants meet
  `Prompt == Answer + Take + Renew + Timeout =< Ttl` with equality; one unit
  less is one too few. In `lease_slow` an answer takes as long as the timeout,
  and onAcquire with its renewal outlives the lease. No counter needs a bound.
- *Checkout.* The hazards are of pairs of requests on one order, or of one
  request and what an earlier one left behind. With `Cap` 2 a row can be written
  twice, as a double settlement does; counters stop there.
- *FeedStream.* Two changes under one leader, so that one can be in the rows and one in
  a frame lost; or a change and a takeover, so that the leaders' rows differ; or two
  takeovers. One frame on its way from each gateway still lets a change follow an
  announcement, and an old leader's frame meet the new one's. SETs, reads of the store
  and its expiry are not bounded. The theorems have any number of each.
- *FeedHolds.* Leader and follower, each with its own holders and leases, one
  topic; topics do not interact. `Overlap` and `SlowBeats` are FALSE in the run:
  its liveness needs it. The theorems cover both.
- *GatewaySubs.* Three connections under a limit of two, so that one is turned
  away; two loops of one connection over two topics; a limit of one topic, so
  that `Room` refuses.
- *FeedSockets.* Three sockets, so that one may be open while two are still
  closing; two faults, so that a socket drops or goes silent after one failed.
- *LiveOrders.* Every hazard is of two actors on one leg: two requests, or one and
  the sync; the second number and the second order under an id show a retry. Two
  prices show an edit. Selling legs go last, which one leg cannot show.
- *LiveExits.* A short and a long leg show the order of a batch; two numbers a
  leg and two tries show a retry; one fault (a lost answer, a failed write, a
  dead process) falls at any place. Two engine passes at a time are not in the
  run: they overlap as the pass and the request do.
- *StrategyBook.* A leg of two lots is trimmed and then closed; the second leg keeps the
  strategy open. Two handlers begun, beside the settler's passes, make three actors on
  the total. Six rows are enough for every part and leg these can add.
- *VerifiedFills.* The caps are reached by the second and third fill, five leave a
  second gap above the first.

Deadlock is checked except in `holds` (all gateways may have ended), `exits` and
`entries` (a request is made once, and a strategy that is archived or was never taken
live is not synced), `book` (nothing is open and the bound on work is used up) and
`sockets` (the feed is paused or the gateway stopped, and the faults are used up):
there the system may really stop.

### Fairness

Safety properties need none. For the others:

- *LeaderLease.* `ClockFairness`: timers fire and promises settle – Node's event
  loop. StaleLeaderStepsDown needs no more, Redis may hang for
  ever. `LeadershipSettles` also uses `RedisFairness` (what was sent is executed) and
  that faults cease, `<>[][Healthy]_vars`. No strong fairness is needed, though two
  candidates may keep refusing each other for a while.
- *Checkout.* A request that is served goes on (weak); Razorpay delivers a
  captured event again until it is acknowledged (strong on its arrival, since
  all requests may be busy again and again): its documented retries.
  Crashes cease in the end.
- *FeedHolds.* Weak fairness of the sync timer, of leases and grace timers
  running out, and of the candidate's BecomeLeader (that is LeadershipSettles);
  roles settle and crashes cease in the end.
- *FeedSockets.* Weak fairness of each timer, of the delivery of open and close events
  and of the watchdog. That an attempt to connect ends is the platform's promise, not
  the code's: the watchdog is armed only on an open socket (`reconnecting.ts:164`).
- *LiveOrders.* Weak fairness of every process's next step (every call has a timeout)
  and of the reconciler's timer.
- *StrategyBook.* Weak fairness of the settler: its timer goes on, its calls end. None of
  the others. That `MaxWork` bounds the legs left out is an assumption too: a credential
  or a spot price missing for good leaves a leg out of every pass
  (`settlement.ts:215` says so), and it then stays open.
- *VerifiedFills.* Weak fairness of the job's start and of every pass's next step; trading
  pauses because the fills are bounded, and failures are.
- *FeedStream, GatewaySubs, LiveExits.* None: only safety is claimed. In LiveExits
  nothing of the kind holds: section 5 has the ways in which a leg may stay open for
  ever.

## 4. What is proved

TLAPS proves these for every set of processes, gateways, topics, sockets, orders or
legs and all values of the times and bounds, from the named assumptions of the
modules on their constants. Each rests on an inductive invariant, with one lemma per
action.

**LeaderLeaseProofs.** `TypeCorrect` and `OwnersRelease` (no step overwrites a
running lease or frees another's) need only the modules' assumptions on the
constants. `LoopCorrect` says where in its loop a leader may stand.
`LeaseCorrect`, `LeadersExclude`, `LeadersHoldTheLease` and `LeasePlaysRole` (every
behaviour of LeaderLease is one of OneLeader) also assume `Prompt`. That one process
acts is not inductive: that nobody else can acquire depends on how much of the ttl
is left. So `LeaseInv` says that whoever leads, takes the role or has a "yes" on its
way to it owns the key, and that `Claim(p)` – the longest time it can still act on
what Redis last told it: the answer under way, onAcquire, the sleep, and the next
call until it times out – is covered by `ttl`; and that no leader is ever refused.
Each action either lowers both by one (Tick), moves from one summand of the claim to
the next, or sets ttl to Ttl, where Prompt covers the whole sum. Exclusion follows
because the key has one owner. Abandoned commands are harmless: an abandoned renew
only extends its owner's lease, an abandoned acquire only takes a free key, which no
claim covers. `Prompt` is an assumption about the deployment, not something the code
enforces: Node may pause, and onAcquire has no timeout. `lease_slow` is about what is
left without it.

`VacancyCorrect` (VacancyBounded, of LeaderLeaseHistory) does without `Prompt`: while
nobody leads, no call fails and nothing of its own holds a process up, it waits at most
a full lapse of the old lease and one round of its own loop. The bound is tight: with
one unit less TLC finds it violated, in the instances of both runs, and with it the
promise of `leader.ts:83` (section 5). A count of the time without any leader would not do: of three processes
one can take a lease that it dies with while the others sleep. So `wait` is counted for
each process. The invariant (`WaitInv`) says that what p has waited and the longest it
can still wait – what is left of the ttl, and of its own call, sleep and callback – is
within the bound; each tick moves one unit from the second to the first.

**FeedProofs.** Of the holds, for any number of holders: `HoldsTypeCorrect`, and `WatchedCorrect` (WatchedIsKept): the venue subscriptions of
a gateway are exactly the topics it keeps while its session runs, and none
otherwise, whatever commands are lost and however many lead. It is not
inductive either: the end of a grace timer unwatches its topic without looking
at the count, so `GracedCorrect` (no grace timer runs for a held topic) is proved
first. `Overlap`, `SlowBeats` and `MayEnd` are free here.

Of the sockets: `EndsCorrect`: the invariants of both clients, and that the
gateway wants of the venue what it serves the tab. From it `TypeCorrect`,
`SocketsExclude` (OneSocketEach) and `SubscriptionsReturn` (SubscribedAnew). One live
socket is not inductive: a close event is taken for the client's own socket's, so the
invariant has to say that while the tab was never resumed hastily no other socket of
it is closing when it owns one, and that a client that may open a socket owns none.

**CheckoutProofs.** `TypeCorrect`; without crashes `BookedCorrect` (BookedForMoney)
and `PlanCorrect` (NeverLeftWithoutPlan), for any number of concurrent requests; for
requests served one at a time, with crashes, `AckCorrect` (AckedIsPaid). The
invariant (`Requests`) says of each request what it has written by where it stands;
that the coupon's counter is not below the orders booked (`Balanced`) needs the set of
orders somebody has counted. The assumptions are needed: a request cut off between two
statements has granted what it did not mark, and with two requests a failure that read
the row before a settlement writes after it.

**GatewayProofs.** Of GatewaySubs: `TypeCorrect`, `HoldsCorrect` (HoldsBalance) and
`TopicsAnswered` (NoSilentTopic). The invariant adds `Owned` (a loop that awaits a first
frame owns the subscription of its topic, or that subscription is gone, and no two own
the same) and `GoneIsBare` (a closed connection has no topic left in its own map).

Of FeedStream, for any gateways, browsers, losses and takeovers: `StreamTypeCorrect`,
`RowsNeverMixed` (NeverMixed), `NumbersTellTheRows` (CaughtUp) and `LeaderResetsAll`
(ResetByLeader). None is inductive: whether rows are whole depends on every frame that
may still reach them. The heart of the invariant (`StreamInv`) is `Honest`: rows, frames,
stored snapshots and SETs under way with a number s include every change frame of their
own term numbered s or less, and all that the frame s + 1 builds on; at the number of
the leader of their term they include all he has sent. So a frame that is the next by
its number misses nothing, and each of the many ways to a snapshot (announced, stored,
asked for in a resync) has to be shown honest but once. `Honest` speaks of numbers and
versions only, not of the order in which frames and writes arrive or of what is
delivered at all, so that losing a frame keeps it. It is about terms because the numbers
of two leaders may meet. `Reset` is about the order that is left: a browser that was not
told of the leader (`Told`) has his announcement before it (`Announced`), or the rows it
shows are about to be replaced. Of the time before the first takeover, `Alone` says that
only the leader has frames under way, `WireInv` that each is followed by all above it,
and `Nearby` that a browser on his gateway has, or has under way, every frame since its
number. The replay of a queue is a recursive function of its length; that it exists, and
that it keeps what each single frame keeps, is `ReplayExists` and `ReplayKeeps`: the
shortest replay for which it fails has a last step.

**LiveOrdersProofs.** `TypeCorrect`, `NotForgottenCorrect`, `TruthCorrect`
(BooksTellTruth) and `OnceCorrect` (EnteredOnce), for any number of requests and syncs at
a time. None of the three is inductive, and they need each other. `Common` holds of every
leg: who has an order in hand and what it is (`Stands`), that a fill or a cancel somebody
heard of is one (`HeardTrue`), and that nothing was sent for a strategy that is not live.
`LegOK` holds of a leg that was not excused. One request at a time has it to send, always
under its first number; its row is then none, failed or cancelled; nothing of it trades,
unless the answer is about to be recorded; no sync holds it (`OneSends`). What is about
to be recorded is all there is (`Recorded`). A sync that holds the leg has the order the
row still names, or one whose id nobody knows (`Synced`), and whoever found that one by
its client id found the same (`FoundOne`). So a row may be written without a guard: a
sync and a sender are never at work on one leg, and of a cancel's answer and a sync's
write each says what the exchange has. Most steps leave a leg alone, which is
proved once (`LegStays`): the exchange only ends orders, the process takes up nothing of
the leg (`Quiet`), and drops nothing that is still to be written (`Holds`).

**LiveExitsProofs.** `TypeCorrect` and `ClosedCorrect` (ClosedIsFilled): whoever closes a
leg in the books, an exit of it had filled. The invariant adds `HeardIsFilled`: whoever
heard of a fill and is to record or book it heard the truth, and `InHand`: who sends,
records or books has a leg, and a number in its bound. `AccountedCorrect` and
`SecondsCorrect` (EngineSendsNoSecond) rest on a second one, `Books`: of a leg that
was not excused at most one process is at work (`OneAtWork`); every good order is in
sight of the books (`InSight`, `AccountedFor`); a number given out is new, so
that a refusal means that nothing was taken (`NewNumber`, `RefusedIsNone`); and the
engine found no order in sight when it set out (`FirstOfLeg`).

**StrategyBookProofs.** `TypeCorrect`, `BookedCorrect` (BookedOnce) and `OverCorrect`
(ArchivedIsOver), for any lots, number of handlers at a time and bounds. Neither is
inductive: what a handler writes at the end goes by what it did and read on the way.
So the invariant (`Inv`) says of each handler where in its list of steps it may stand
(`Shape`), and that what it closed is booked by a write that is still to come (`ToBook`);
therefore no handler ends with an amount in hand unless it is excused. The sums over
legs and handlers are sets of pairs, and `SumChange` is their one law: they change by
what one entry changes. For the archive, who found no open leg is right until it writes,
who closes all has every open leg on its list (`LegsSeen`), and who disarms before it
archives has done it by then (`Disarmed`), since a leg or a rule that comes meanwhile
excuses the strategy. What a reopened strategy starts from (its legs all open, nobody at
work) needs `Anew`. `Table` reads the order of the steps off `After`, once for all kinds.

**VerifiedFillsProofs.** `TypeCorrect` and `SkipsNothing` (NothingSkipped), for pages and
caps of any size and any number of overlapping passes. The invariant says that a cursor
stands at a fill that is held; that a page is all that lies between its cursor and its
oldest fill, but for fills traded since (`Whole`); that a walk for newer fills knows
the fill of the cursor it read and has not come down to it, so that a cap's cursor stands
for the older gap too; that what the cursor read stood for, the older walk and the
cursor to be written still stand for (`OlderKept`); and then that every fill missing is
above all that are held, below the watermark's cursor, or ahead of a walk past its first
page (`NoneLost`) – not of any other, since those may break off without `spoilt`.

**Only model-checked.** All liveness, which is beyond the prover: LeadershipSettles and
StaleLeaderStepsDown, HeldStaysWatched and UnheldIsDropped, StreamComesBack,
SyncPutsRight, CapturedIsSettled, ExpiredAreSettled, HistoryIsRead. Every
invariant and action property of the runs, and the refinement of OneLeader, has a
theorem. What a recursive function returns for every sequence takes an induction, for
which the library's theorems cannot be used here. That a set of numbers has a least or a
largest element can be proved, from the well-foundedness of the order on Nat, and takes
its place: `Smallest` in GatewayProofs, `SmallestOf` and `LargestOf` in LiveExitsProofs.

**Assumptions.** Those named in the modules, all on constants: that the sets of
processes, and None (FeedStream's Nothing), are apart, and that times and bounds are numbers (LiveExits'
`ProcAssumption`: a pass of the engine is not a click). Only the theorems said above to
assume more do.

## 5. What was found

What the code does though the repository says otherwise. Each is visible in a model;
the properties of the runs name the case as an exception and say that nothing else goes
wrong.

Checkout:

- The next invoice number is the count of numbered payments plus one
  (`checkout.ts:55`). Confirmation and webhook may both settle one payment, with
  another settled between: it moves from its number to a higher one, the count
  then points at a number in use, and every later settlement fails on the
  unique key. `DECISIONS.md:234` has the webhook repair a closed tab. (It takes two
  bought plans; the runs have one.)
- A payment settled by two handlers at once is granted twice
  (`checkout.ts:63`); a late `payment.failed` undoes a settlement
  (`checkout.ts:87`), so AckedIsPaid is claimed of requests one at a time; a crash and
  a retry count a coupon twice (`coupons.ts:133`), so the counter is only bounded from
  below.

Election:

- `leader.ts:83` says of the ttl that "a dead leader is replaced within this time". A
  standby is refused just before the lease runs out, hears of it, sleeps, makes a call
  that may be answered at the last moment, and runs onAcquire: all this comes on top of
  the ttl (`VacancyBounded`, whose count starts at 1 in the last unit of the lease). TLC
  reaches the whole sum, under the constants of both runs: with a unit less, and so with
  the ttl alone, it finds a counterexample.

Feed:

- `server.ts:385` has it that of what is published while a first frame is read nothing
  is lost. SUBSCRIBE is sent and not awaited (`pubsub/redis.ts:62`), on another connection
  than the read, and a PUBLISH that fails is only logged (`pubsub/redis.ts:56`). The
  next change frame shows the gap; until then, on a quiet chain, the rows are old. `lost`
  in CaughtUp and ResetByLeader.
- `feed.ts:435` has the announcement reset every subscriber on every gateway. It may be
  lost, as any frame. It may be queued while a follower's browser awaits its first
  frame, which is an older leader's from the store, and is then dropped as superseded
  (`server.ts:433`), and the new frames are ignored while their numbers are lower. And
  it may arrive before the SET sent with it has taken effect, or that SET may fail
  (`feed.ts:457`): a resync then sends the old rows after it. `lost` and `aged` in
  ResetByLeader.
- `feed.ts:445` says that a follower must never fall back to stale REST rows. It does
  whenever the store cannot be read until the deadline (`role.ts:153`), under a live
  leader too; the rows go under number 0, so that the leader's frame 1 is taken as their
  continuation. `aged` again; NeverMixed speaks only of rows of one leader.
- The numbers of a chain go on from where each gateway's own coalescer stands, and frames
  do not say who sent them. So a frame of one leader may be the next by its number
  for rows that came from another, and a change between them goes missing
  unnoticed; `coalescer.ts` has the numbers detect gaps. It lasts until the browser is
  next given a snapshot. NeverMixed makes no claim of rows of two leaders (`term` none).
- A connection that closes while a `sub` of several topics is awaited
  goes on to acquire the others (`server.ts:398`), and nothing releases them.
  `feed.ts:8` has a topic dropped after the last one leaves. `cut` in HoldsBalance.
- A follower's resync may send a stored snapshot older than what the browser
  shows (`server.ts:478`); a topic only another gateway held is dropped without
  grace (`feed.ts:371`).
- The feed paused and quickly resumed opens a socket while the old one is closing; the
  old one's close event then makes the client forget the new one and open another
  (`client.ts:144`; `client.ts:1` says one WebSocket per tab). `hasty` in
  OneSocketEach.
- With the default proportions of ttl, renewal and timeout a leader may believe
  it leads past its lease (`leader.ts:99`); ADR-062 accepts the window.
  onAcquire may be called twice in a row when it throws.

Live orders:

- A placement looks whether its idempotency key was used and later writes status and
  orders (`routes/live.ts:172`); two requests with one key both send, which
  `DECISIONS.md:178` rules out. The order sync and `recordOrder` write rows without a
  guard, where `DECISIONS.md:513` has every booking refused rather than overwritten.
- A doubled pass can send two exits of one leg: the refusal of the duplicate
  client order id is retried under the next number (`DECISIONS.md:389` says a
  query at most). A batch goes on to the long legs when the exit of a short failed
  or rests (`rules-engine.ts:242`; line 200 says it never leaves a naked side). A market
  order whose answer was lost and that filled at once is not among the open
  orders, and its row is marked failed. A crash between the order's row and the
  booking of its leg leaves the leg open for ever, as does a throw at a later
  row of the sync. Archiving a strategy ends the sync of its pending orders.

Strategies:

- A partial close that lands between another closer's read and its whole close, or
  beside another partial close, sells lots twice: the guard of `closeLegRow` is the status
  alone (`strategies.ts:254`; its comment says the P&L must not be booked twice).
- The total is read and written apart; two writers lose one amount, and an adjustment
  goes by the total it read at its start (`strategies.ts:606`). When one expired leg was
  closed meanwhile the settler's pass ends with what it had closed unbooked
  (`settlement.ts:164`).
- Close-all of a live strategy archives it without looking again for open legs
  (`strategies.ts:713`). A paper trade stopped into a draft keeps its rules armed
  (`strategies.ts:887`).

Verified fills:

- A read that fails between two pages leaves a gap that the next pass stops above, and
  two passes that overlap may write one cursor over the other's, though
  `verified.ts:99` has the cursor kept "so nothing is ever skipped". `spoilt` in
  NothingSkipped.

## 6. Limits and the plan

Assumed: Redis and Postgres execute single commands atomically; opening the
venue session never throws; a request to the exchange arrives before its
timeout or never; positions are netted, so that a reduce-only exit is not refused for
lack of its own leg; a client order id is refused while an order under it rests or has
filled. In FeedStream the frames of one sender keep their order and none comes twice
(ioredis may resend a PUBLISH after a reconnect); Redis hands a frame to all gateways
in one step, and each gateway to its connections; the three connections of a gateway
(`app.ts:84`) are otherwise independent. In LiveExits such a refusal may be retried, "failed" also stands for a cancelled
row, and `Fire` reads the legs and claims its rule in one step. Partial fills are left
out of LiveOrders and LiveExits, partial exits are in StrategyBook. The in-memory
variants of lock and registry for a single process are left out, as are rate limits,
ping and binary frames of the gateway.

The modules map a small part of the repository's lines because most of it is what
section 1 lists as not modelled.

What is left of the plan, in order:

1. Two legs in `entries`, once the order of a placement is a property.
2. Alerts and re-sealing, one guard each.
