----------------------------- MODULE FeedSockets -----------------------------
(***************************************************************************)
(* A topic from the venue to a tab: the venue's socket and the tab's, with *)
(* one gateway between them that watches at the venue what its connections *)
(* are subscribed to (apps/gateway/src/server.ts, feed/feed.ts).           *)
(*                                                                         *)
(* Which gateway leads, how long a topic is held on after its last         *)
(* subscriber and what the frames carry is in LeaderLease, FeedHolds and   *)
(* FeedStream.                                                             *)
(***************************************************************************)
EXTENDS FeedTopics, Naturals, FiniteSets

CONSTANTS Socket, None, MaxFaults

ASSUME SocketAssumption == None \notin Socket
ASSUME BoundAssumption == MaxFaults \in Nat

VARIABLES tab, tabNet, venue, venueNet, faults

tabVars == <<tab, tabNet>>
venueVars == <<venue, venueNet>>
vars == <<tab, tabNet, venue, venueNet, faults>>

T == INSTANCE TabSocket WITH client <- tab, net <- tabNet
V == INSTANCE VenueSocket WITH client <- venue, net <- venueNet

TypeOK == T!TypeOK /\ V!TypeOK

Init == T!Init /\ V!Init

\* A step of the tab, after which the gateway watches what the tab is served.
TabStep(A) ==
    /\ A
    /\ IF T!Served' = venue.wanted THEN UNCHANGED venueVars ELSE V!Watch(T!Served')

VenueStep(A) == A /\ UNCHANGED tabVars

Next == TabStep(T!Next) \/ VenueStep(V!Next)

Spec == Init /\ [][Next]_vars

\* Events are delivered, timers fire, and an attempt to connect ends.
LiveSpec ==
    /\ Spec
    /\ WF_vars(TabStep(T!TimerFires))
    /\ WF_vars(VenueStep(V!TimerFires))
    /\ WF_vars(VenueStep(V!Stale))
    /\ \A s \in Socket :
         /\ WF_vars(TabStep(T!Opens(s))) /\ WF_vars(TabStep(T!Closed(s)))
         /\ WF_vars(VenueStep(V!Opens(s))) /\ WF_vars(VenueStep(V!Closed(s)))

-----------------------------------------------------------------------------
(* At either end at most one socket is connecting or open, the others are  *)
(* closing; unless the trader resumed the feed before the socket he paused *)
(* had closed, whose close event then makes the client forget the new one  *)
(* (client.ts: "One WebSocket per tab to apps/gateway").                   *)
OneSocketEach ==
    /\ Cardinality(V!Live) <= 1 /\ V!Live \subseteq {venue.ws}
    /\ ~tab.hasty => Cardinality(T!Live) <= 1 /\ T!Live \subseteq {tab.socket}

(* What the tab's socket and the venue's are subscribed to, when they are  *)
(* open, is what the views want and what the gateway serves: nothing is    *)
(* lost with a socket that dropped, went silent or was not open yet        *)
(* (client.ts, resubscribe; ws.ts, onSocketOpen).                          *)
SubscribedAnew ==
    /\ tab.socket \in T!In("open") => tabNet[tab.socket].subs = tab.refs
    /\ venue.ws \in V!In("open") => venueNet[venue.ws].subs = T!Served

(* A topic a view wants comes through, whatever dropped or went silent and *)
(* however often the feed was paused, once it is not paused and the        *)
(* gateway not stopped (client.ts, scheduleReconnect; reconnecting.ts,     *)
(* onStale, scheduleReconnect).                                            *)
Wanted(t) == t \in tab.refs /\ ~tab.manuallyClosed /\ ~V!Stopped
Streams(t) ==
    \E s \in T!In("open"), v \in V!In("open") :
      t \in tabNet[s].subs /\ t \in venueNet[v].subs
StreamComesBack == \A t \in Topic : Wanted(t) ~> (Streams(t) \/ ~Wanted(t))
=============================================================================
