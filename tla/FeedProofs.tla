----------------------------- MODULE FeedProofs -----------------------------
(***************************************************************************)
(* The feed, for any sockets, topics and number of faults: the sockets at  *)
(* either end of FeedSockets keep their types, at most one of them lives,  *)
(* and an open one is subscribed to what is wanted.  And for any gateways  *)
(* and number of holders of FeedHolds: what a gateway has subscribed on    *)
(* the venue is what it keeps.                                             *)
(*                                                                         *)
(* Each end of the sockets has an invariant of its own.  They meet in one  *)
(* fact: what the gateway wants of the venue is what it serves the tab.    *)
(***************************************************************************)
EXTENDS FeedSockets, FeedHolds, FiniteSetTheorems, TLAPS

(* The tab's client.  Unless it was hasty a live socket is its own, and of *)
(* a socket that is closing it is rid or about to be, so that the close    *)
(* event makes it forget no other (client.ts, onclose); its own, when      *)
(* open, is subscribed to what the views want.                             *)
OwnsLive ==
    ~tab.hasty => \A s \in Socket :
      /\ tabNet[s].state \in {"connecting", "open"} => tab.socket = s
      /\ tabNet[s].state = "closing" => tab.socket \in {None, s}
TabSubscribed ==
    \A s \in Socket : tab.socket = s /\ tabNet[s].state = "open" => tabNet[s].subs = tab.refs
TabInv == T!TypeOK /\ OwnsLive /\ TabSubscribed

(* The venue's client.  One that may open a socket has none, and its timer *)
(* runs only while it waits to reconnect (reconnecting.ts, connect,        *)
(* scheduleReconnect).                                                     *)
MayOpenAnew ==
    /\ venue.state \in {"idle", "reconnecting", "closed"} => venue.ws = None
    /\ venue.timer => venue.state = "reconnecting"
VenueLive ==
    \A s \in Socket : venueNet[s].state \in {"connecting", "open", "silent"} => venue.ws = s
VenueSubscribed ==
    \A s \in Socket : venue.ws = s /\ venueNet[s].state = "open" =>
      venueNet[s].subs = venue.wanted
VenueInv == V!TypeOK /\ MayOpenAnew /\ VenueLive /\ VenueSubscribed

Inv == TabInv /\ VenueInv /\ venue.wanted = T!Served

-----------------------------------------------------------------------------
(* Every step of the tab's client keeps its invariant.                     *)
LEMMA TabKeeps == TabInv /\ T!Next => TabInv'
<1> SUFFICES ASSUME TabInv, T!Next PROVE TabInv'
  OBVIOUS
<1> USE SocketAssumption, BoundAssumption
<1>1. ASSUME NEW c, c \in {[tab EXCEPT !.manuallyClosed = FALSE], [tab EXCEPT !.timer = FALSE]},
             T!Connect(c)
      PROVE  TabInv'
  <2>1. /\ c \in [socket : Socket \cup {None}, manuallyClosed : BOOLEAN, timer : BOOLEAN,
                  refs : SUBSET Topic, hasty : BOOLEAN]
        /\ c.socket = tab.socket /\ c.refs = tab.refs /\ c.hasty = tab.hasty
    BY <1>1 DEF TabInv, T!TypeOK
  <2>2. CASE T!MayConnect(c) /\ tab' = T!Scheduled(c) /\ T!Fault /\ UNCHANGED tabNet
    <3>1. T!TypeOK'
      <4>1. faults' \in 0..MaxFaults
        BY <2>2 DEF T!Fault, TabInv, T!TypeOK
      <4>2. tab' \in [socket : Socket \cup {None}, manuallyClosed : BOOLEAN, timer : BOOLEAN,
                     refs : SUBSET Topic, hasty : BOOLEAN]
        BY <2>1, <2>2 DEF T!Scheduled
      <4> QED
        BY <2>2, <4>1, <4>2 DEF TabInv, T!TypeOK
    <3>2. tab'.socket = tab.socket /\ tab'.refs = tab.refs /\ tab'.hasty = tab.hasty
      BY <2>1, <2>2 DEF T!Scheduled
    <3> QED
      BY <2>2, <3>1, <3>2 DEF TabInv, OwnsLive, TabSubscribed
  <2>3. CASE ~T!MayConnect(c) /\ tab' = c /\ UNCHANGED <<tabNet, faults>>
    BY <2>1, <2>3 DEF TabInv, T!TypeOK, OwnsLive, TabSubscribed
  <2>4. ASSUME NEW s \in T!In("free"), T!MayConnect(c),
               tab' = [c EXCEPT !.socket = s, !.hasty = @ \/ T!In("closing") # {}],
               tabNet' = [tabNet EXCEPT ![s].state = "connecting"], UNCHANGED faults
        PROVE  TabInv'
    <3>1. T!TypeOK'
      <4>1. PICK h \in BOOLEAN : tab' = [c EXCEPT !.socket = s, !.hasty = h]
        BY <2>1, <2>4
      <4>2. tab' \in [socket : Socket \cup {None}, manuallyClosed : BOOLEAN, timer : BOOLEAN,
                     refs : SUBSET Topic, hasty : BOOLEAN]
        BY <2>1, <2>4, <4>1 DEF T!In
      <4>3. /\ tabNet' \in [Socket -> [state : {"free", "connecting", "open", "closing"},
                                    subs : SUBSET Topic]]
            /\ faults' \in 0..MaxFaults
        BY <2>4 DEF TabInv, T!TypeOK, T!In
      <4> QED
        BY <4>2, <4>3 DEF T!TypeOK
    <3>2. /\ tab'.socket = s /\ tab'.refs = tab.refs
          /\ tab'.hasty = (tab.hasty \/ T!In("closing") # {})
      BY <2>1, <2>4
    <3>3. \A x \in Socket :
            tabNet'[x].state = IF x = s THEN "connecting" ELSE tabNet[x].state
      BY <2>4 DEF TabInv, T!TypeOK, T!In
    <3>4. tab.socket = None
      BY <2>1, <2>4 DEF T!MayConnect
    <3>5. OwnsLive'
      <4> SUFFICES ASSUME ~tab'.hasty, NEW x \in Socket
                   PROVE  /\ tabNet'[x].state \in {"connecting", "open"} => tab'.socket = x
                          /\ tabNet'[x].state = "closing" => tab'.socket \in {None, x}
        BY DEF OwnsLive
      <4>1. ~tab.hasty /\ T!In("closing") = {}
        BY <3>2
      <4>2. tabNet[x].state # "closing"
        BY <4>1 DEF T!In
      <4>3. tabNet[x].state \notin {"connecting", "open"}
        BY <3>4, <4>1 DEF TabInv, OwnsLive
      <4> QED
        BY <3>2, <3>3, <4>2, <4>3
    <3> QED
      BY <3>1, <3>2, <3>3, <3>5 DEF TabInv, TabSubscribed
  <2> QED
    BY <1>1, <2>2, <2>3, <2>4 DEF T!Connect
<1>2. CASE T!Reopen
  BY <1>1, <1>2 DEF T!Reopen
<1>3. CASE T!TimerFires
  BY <1>1, <1>3 DEF T!TimerFires
<1>4. CASE T!Close
  <2>1. T!TypeOK'
    BY <1>4 DEF T!Close, TabInv, T!TypeOK, T!Free
  <2>2. tab'.socket = None /\ tab'.refs = tab.refs /\ tab'.hasty = tab.hasty
    BY <1>4 DEF T!Close, TabInv, T!TypeOK
  <2>3. \A x \in Socket : tabNet'[x].state = IF x = tab.socket THEN "closing" ELSE tabNet[x].state
    BY <1>4 DEF T!Close, TabInv, T!TypeOK, T!Free
  <2> QED
    BY <2>1, <2>2, <2>3 DEF TabInv, OwnsLive, TabSubscribed
<1>5. ASSUME NEW n, NEW refs \in SUBSET Topic, tabNet' = T!Sends(n, refs), tab'.refs = refs,
             tab'.socket = tab.socket, tab'.hasty = tab.hasty, T!TypeOK',
             n \in [Socket -> [state : {"free", "connecting", "open", "closing"},
                              subs : SUBSET Topic]],
             \A x \in Socket : \/ n[x].state = tabNet[x].state
                               \/ tabNet[x].state = "connecting" /\ n[x].state = "open"
      PROVE  TabInv'
  <2>1. tab.socket \in Socket \cup {None}
    BY DEF TabInv, T!TypeOK
  <2>2. \A x \in Socket :
          /\ tabNet'[x].state = n[x].state
          /\ x = tab.socket /\ n[x].state = "open" => tabNet'[x].subs = refs
    BY <1>5, <2>1 DEF T!Sends
  <2>3. OwnsLive'
    BY <1>5, <2>2 DEF TabInv, OwnsLive
  <2> QED
    BY <1>5, <2>2, <2>3 DEF TabInv, TabSubscribed
<1>6. ASSUME NEW s \in Socket, T!Opens(s) PROVE TabInv'
  <2> DEFINE n == [tabNet EXCEPT ![s].state = "open"]
  <2>1. /\ n \in [Socket -> [state : {"free", "connecting", "open", "closing"},
                            subs : SUBSET Topic]]
        /\ \A x \in Socket : \/ n[x].state = tabNet[x].state
                             \/ tabNet[x].state = "connecting" /\ n[x].state = "open"
    BY <1>6 DEF T!Opens, TabInv, T!TypeOK
  <2>2. tabNet' = T!Sends(n, tab.refs) /\ UNCHANGED <<tab, faults>>
    BY <1>6 DEF T!Opens, T!Resubscribes
  <2>3. tab.refs \in SUBSET Topic
    BY DEF TabInv, T!TypeOK
  <2> HIDE DEF n
  <2>4. T!TypeOK'
    BY <2>1, <2>2, <2>3 DEF T!Sends, TabInv, T!TypeOK
  <2> QED
    BY <1>5, <2>1, <2>2, <2>3, <2>4
<1>7. ASSUME NEW s \in Socket, T!Drops(s) PROVE TabInv'
  <2>1. T!TypeOK'
    BY <1>7 DEF T!Drops, T!Fault, TabInv, T!TypeOK, T!Free
  <2>2. \A x \in Socket : x # s => tabNet'[x] = tabNet[x]
    BY <1>7 DEF T!Drops, TabInv, T!TypeOK
  <2>3. tabNet'[s].state = "closing" /\ tabNet[s].state \in {"connecting", "open"} /\ tab' = tab
    BY <1>7 DEF T!Drops, TabInv, T!TypeOK, T!Free
  <2> QED
    BY <2>1, <2>2, <2>3 DEF TabInv, OwnsLive, TabSubscribed
<1>8. ASSUME NEW s \in Socket, T!Closed(s) PROVE TabInv'
  <2>1. T!TypeOK'
    BY <1>8 DEF T!Closed, T!Scheduled, TabInv, T!TypeOK, T!Free
  <2>2. tab'.socket = None /\ tab'.refs = tab.refs /\ tab'.hasty = tab.hasty
    BY <1>8 DEF T!Closed, T!Scheduled, TabInv, T!TypeOK
  <2>3. /\ \A x \in Socket : x # s => tabNet'[x] = tabNet[x]
        /\ tabNet'[s].state = "free" /\ tabNet[s].state = "closing"
    BY <1>8 DEF T!Closed, TabInv, T!TypeOK, T!Free
  <2> QED
    BY <2>1, <2>2, <2>3 DEF TabInv, OwnsLive, TabSubscribed
<1>9. ASSUME NEW t \in Topic, T!Subscribe(t) \/ T!Unsubscribe(t) PROVE TabInv'
  <2>1. PICK refs \in SUBSET Topic :
          tab' = [tab EXCEPT !.refs = refs] /\ tabNet' = T!Sends(tabNet, refs) /\ UNCHANGED faults
    <3>1. tab.refs \cup {t} \in SUBSET Topic /\ tab.refs \ {t} \in SUBSET Topic
      BY DEF TabInv, T!TypeOK
    <3> QED
      BY <1>9, <3>1 DEF T!Subscribe, T!Unsubscribe
  <2>2. tab'.refs = refs /\ tab'.socket = tab.socket /\ tab'.hasty = tab.hasty
    BY <2>1 DEF TabInv, T!TypeOK
  <2>3. T!TypeOK'
    BY <2>1 DEF T!Sends, TabInv, T!TypeOK
  <2>4. tabNet \in [Socket -> [state : {"free", "connecting", "open", "closing"},
                              subs : SUBSET Topic]]
    BY DEF TabInv, T!TypeOK
  <2> QED
    BY <1>5, <2>1, <2>2, <2>3, <2>4
<1> QED
  BY <1>2, <1>3, <1>4, <1>6, <1>7, <1>8, <1>9 DEF T!Next

(* Every step of the venue's client keeps its invariant and what it wants. *)
LEMMA VenueKeeps == VenueInv /\ V!Next => VenueInv' /\ venue'.wanted = venue.wanted
<1> DEFINE Preserved == VenueInv' /\ venue'.wanted = venue.wanted
<1> SUFFICES ASSUME VenueInv, V!Next PROVE Preserved
  OBVIOUS
<1> USE SocketAssumption, BoundAssumption
<1>1. ASSUME V!OpenSocket([venue EXCEPT !.timer = FALSE]), venue.ws = None PROVE Preserved
  <2>1. CASE V!Fault /\ venue' = V!Scheduled([venue EXCEPT !.timer = FALSE]) /\ UNCHANGED venueNet
    <3>1. V!TypeOK'
      <4>1. faults' \in 0..MaxFaults
        BY <2>1 DEF V!Fault, VenueInv, V!TypeOK
      <4>2. venue' = [venue EXCEPT !.timer = TRUE, !.state = "reconnecting"]
        BY <2>1 DEF V!Scheduled, VenueInv, V!TypeOK
      <4>3. venue' \in [state : {"idle", "connecting", "open", "reconnecting", "closed"},
                       ws : Socket \cup {None}, timer : BOOLEAN, watchdog : BOOLEAN,
                       wanted : SUBSET Topic]
        BY <4>2 DEF VenueInv, V!TypeOK
      <4> QED
        BY <2>1, <4>1, <4>3 DEF VenueInv, V!TypeOK
    <3>2. /\ venue'.state = "reconnecting" /\ venue'.ws = None
          /\ venue'.wanted = venue.wanted
      BY <1>1, <2>1 DEF V!Scheduled, VenueInv, V!TypeOK
    <3> QED
      BY <1>1, <2>1, <3>1, <3>2 DEF VenueInv, MayOpenAnew, VenueLive, VenueSubscribed
  <2>2. ASSUME NEW s \in V!In("free"), UNCHANGED faults,
               venue' = [[venue EXCEPT !.timer = FALSE] EXCEPT !.state = "connecting", !.ws = s],
               venueNet' = [venueNet EXCEPT ![s].state = "connecting"]
        PROVE  Preserved
    <3>1. V!TypeOK'
      BY <2>2 DEF VenueInv, V!TypeOK, V!In
    <3>2. /\ venue'.state = "connecting" /\ venue'.ws = s /\ ~venue'.timer
          /\ venue'.wanted = venue.wanted
      BY <2>2 DEF VenueInv, V!TypeOK
    <3>3. \A x \in Socket :
            venueNet'[x].state = IF x = s THEN "connecting" ELSE venueNet[x].state
      BY <2>2 DEF VenueInv, V!TypeOK, V!In
    <3> QED
      BY <1>1, <3>1, <3>2, <3>3 DEF VenueInv, MayOpenAnew, VenueLive, VenueSubscribed
  <2> QED
    BY <1>1, <2>1, <2>2 DEF V!OpenSocket
<1>2. CASE V!Connect
  BY <1>1, <1>2 DEF V!Connect, VenueInv, MayOpenAnew, V!TypeOK
<1>3. CASE V!TimerFires
  BY <1>1, <1>3 DEF V!TimerFires, VenueInv, MayOpenAnew, V!TypeOK
<1>4. ASSUME venueNet' = V!Hangs(venueNet, venue.ws), venue'.ws = None, V!TypeOK',
             venue'.wanted = venue.wanted, MayOpenAnew'
      PROVE  Preserved
  <2>1. \A x \in Socket :
          venueNet'[x].state = IF x = venue.ws THEN "closing" ELSE venueNet[x].state
    BY <1>4 DEF V!Hangs, V!Free, VenueInv, V!TypeOK
  <2> QED
    BY <1>4, <2>1 DEF VenueInv, VenueLive, VenueSubscribed
<1>5. CASE V!Close
  <2>1. V!TypeOK'
    BY <1>5 DEF V!Close, V!Hangs, V!Free, VenueInv, V!TypeOK
  <2>2. venue'.ws = None /\ venue'.wanted = venue.wanted /\ MayOpenAnew'
    BY <1>5 DEF V!Close, VenueInv, V!TypeOK, MayOpenAnew
  <2> QED
    BY <1>4, <1>5, <2>1, <2>2 DEF V!Close
<1>6. CASE V!Stale
  <2>1. V!TypeOK'
    BY <1>6 DEF V!Stale, V!Hangs, V!Free, V!Scheduled, VenueInv, V!TypeOK
  <2>2. venue'.ws = None /\ venue'.wanted = venue.wanted /\ MayOpenAnew'
    BY <1>6 DEF V!Stale, V!Scheduled, VenueInv, V!TypeOK, MayOpenAnew
  <2> QED
    BY <1>4, <1>6, <2>1, <2>2 DEF V!Stale
<1>7. ASSUME NEW s \in Socket, V!Opens(s) PROVE Preserved
  <2>1. venue.ws = s /\ venueNet[s].state = "connecting"
    BY <1>7 DEF V!Opens, VenueInv, VenueLive
  <2>2. V!TypeOK'
    <3>1. venue' \in [state : {"idle", "connecting", "open", "reconnecting", "closed"},
                     ws : Socket \cup {None}, timer : BOOLEAN, watchdog : BOOLEAN,
                     wanted : SUBSET Topic]
      BY <1>7, <2>1 DEF V!Opens, V!Arms, VenueInv, V!TypeOK
    <3>2. venueNet' \in [Socket -> [state : {"free", "connecting", "open", "silent", "closing"},
                                  subs : SUBSET Topic]]
      BY <1>7, <2>1 DEF V!Opens, VenueInv, V!TypeOK
    <3> QED
      BY <1>7, <3>1, <3>2 DEF V!Opens, VenueInv, V!TypeOK
  <2>3. /\ venue'.ws = s /\ venue'.wanted = venue.wanted /\ venue'.state = "open"
        /\ venue'.timer = venue.timer
    BY <1>7, <2>1 DEF V!Opens, V!Arms, VenueInv, V!TypeOK
  <2>4. /\ \A x \in Socket : x # s => venueNet'[x] = venueNet[x]
        /\ venueNet'[s] = [state |-> "open", subs |-> venue.wanted]
    BY <1>7, <2>1 DEF V!Opens, VenueInv, V!TypeOK
  <2>5. ~venue.timer
    BY <2>1 DEF VenueInv, MayOpenAnew
  <2> QED
    BY <2>1, <2>2, <2>3, <2>4, <2>5 DEF VenueInv, MayOpenAnew, VenueLive, VenueSubscribed
<1>8. ASSUME NEW s \in Socket, V!Drops(s) \/ V!GoesSilent(s) PROVE Preserved
  <2>1. V!TypeOK'
    BY <1>8 DEF V!Drops, V!GoesSilent, V!Fault, V!Free, VenueInv, V!TypeOK
  <2>2. /\ \A x \in Socket : x # s => venueNet'[x] = venueNet[x]
        /\ venueNet'[s].state \in {"closing", "silent"}
        /\ venueNet[s].state \in {"connecting", "open", "silent"}
        /\ venue' = venue
    BY <1>8 DEF V!Drops, V!GoesSilent, V!Free, VenueInv, V!TypeOK
  <2> QED
    BY <2>1, <2>2 DEF VenueInv, MayOpenAnew, VenueLive, VenueSubscribed
<1>9. ASSUME NEW s \in Socket, V!Closed(s) PROVE Preserved
  <2>1. V!TypeOK'
    BY <1>9 DEF V!Closed, V!Scheduled, V!Free, VenueInv, V!TypeOK
  <2>2. /\ \A x \in Socket : x # s => venueNet'[x] = venueNet[x]
        /\ venueNet'[s].state = "free" /\ venueNet[s].state = "closing"
    BY <1>9 DEF V!Closed, V!Free, VenueInv, V!TypeOK
  <2>3. CASE venue.ws = s
    <3>1. venue'.ws = None /\ venue'.wanted = venue.wanted /\ venue'.state = "reconnecting"
      BY <1>9, <2>3 DEF V!Closed, V!Scheduled, VenueInv, V!TypeOK
    <3> QED
      BY <2>1, <2>2, <2>3, <3>1 DEF VenueInv, MayOpenAnew, VenueLive, VenueSubscribed
  <2>4. CASE venue.ws # s
    BY <1>9, <2>1, <2>2, <2>4 DEF V!Closed, VenueInv, MayOpenAnew, VenueLive, VenueSubscribed
  <2> QED
    BY <2>3, <2>4
<1> QED
  BY <1>2, <1>3, <1>5, <1>6, <1>7, <1>8, <1>9 DEF V!Next

(* Watching other topics keeps the venue's invariant.                      *)
LEMMA WatchKeeps ==
  ASSUME VenueInv, NEW topics \in SUBSET Topic, V!Watch(topics), faults' \in 0..MaxFaults
  PROVE  VenueInv' /\ venue'.wanted = topics
<1> USE SocketAssumption
<1>1. venue'.wanted = topics /\ venue'.ws = venue.ws /\ venue'.state = venue.state
      /\ venue'.timer = venue.timer
  BY DEF V!Watch, VenueInv, V!TypeOK
<1>2. V!TypeOK'
  BY DEF V!Watch, V!In, VenueInv, V!TypeOK
<1>3. \A x \in Socket :
        /\ venueNet'[x].state = venueNet[x].state
        /\ x = venue.ws /\ venueNet[x].state = "open" => venueNet'[x].subs = topics
  BY DEF V!Watch, V!In, VenueInv, V!TypeOK
<1> QED
  BY <1>1, <1>2, <1>3 DEF VenueInv, MayOpenAnew, VenueLive, VenueSubscribed

-----------------------------------------------------------------------------
(* The two invariants, and that what the gateway wants of the venue is     *)
(* what it serves, hold initially and are kept by every step.              *)
THEOREM EndsCorrect == Spec => []Inv
<1>1. Init => Inv
  <2> SUFFICES ASSUME Init PROVE Inv
    OBVIOUS
  <2>1. TabInv /\ T!Served = {}
    BY SocketAssumption, BoundAssumption
       DEF Init, TabInv, OwnsLive, TabSubscribed, T!Init, T!TypeOK, T!Free, T!In, T!Served
  <2>2. VenueInv /\ venue.wanted = {}
    BY SocketAssumption, BoundAssumption
       DEF Init, VenueInv, MayOpenAnew, VenueLive, VenueSubscribed, V!Init, V!TypeOK, V!Free
  <2> QED
    BY <2>1, <2>2 DEF Inv
<1>2. Inv /\ [Next]_vars => Inv'
  <2> SUFFICES ASSUME Inv, [Next]_vars PROVE Inv'
    OBVIOUS
  <2>1. CASE TabStep(T!Next)
    <3>1. TabInv'
      BY <2>1, TabKeeps DEF TabStep, Inv
    <3>2. faults' \in 0..MaxFaults /\ T!Served' \in SUBSET Topic
      BY <3>1 DEF TabInv, T!TypeOK, T!Served, T!In
    <3>3. CASE T!Served' = venue.wanted /\ UNCHANGED venueVars
      BY <3>1, <3>2, <3>3
         DEF Inv, VenueInv, MayOpenAnew, VenueLive, VenueSubscribed, venueVars, V!TypeOK
    <3>4. CASE V!Watch(T!Served')
      BY <3>1, <3>2, <3>4, WatchKeeps DEF Inv
    <3> QED
      BY <2>1, <3>3, <3>4 DEF TabStep
  <2>2. CASE VenueStep(V!Next)
    <3>1. VenueInv' /\ venue'.wanted = venue.wanted
      BY <2>2, VenueKeeps DEF VenueStep, Inv
    <3>2. TabInv' /\ T!Served' = T!Served
      BY <2>2, <3>1
         DEF VenueStep, tabVars, Inv, VenueInv, V!TypeOK, TabInv, OwnsLive, TabSubscribed, T!TypeOK,
             T!In, T!Served
    <3> QED
      BY <3>1, <3>2 DEF Inv
  <2>3. CASE UNCHANGED vars
    <3>1. TabInv' /\ T!Served' = T!Served
      BY <2>3 DEF vars, Inv, TabInv, OwnsLive, TabSubscribed, T!TypeOK, T!In, T!Served
    <3>2. VenueInv' /\ venue'.wanted = venue.wanted
      BY <2>3 DEF vars, Inv, VenueInv, MayOpenAnew, VenueLive, VenueSubscribed, V!TypeOK
    <3> QED
      BY <3>1, <3>2 DEF Inv
  <2> QED
    BY <2>1, <2>2, <2>3 DEF Next
<1> QED
  BY <1>1, <1>2, PTL DEF Spec

(* Both clients and all sockets keep their types.                          *)
THEOREM TypeCorrect == Spec => []TypeOK
<1>1. Inv => TypeOK
  BY DEF Inv, TabInv, VenueInv, TypeOK
<1> QED
  BY <1>1, EndsCorrect, PTL

(* A set within a singleton has at most one element.                       *)
LEMMA AtMostOne == ASSUME NEW S, NEW x, S \subseteq {x} PROVE Cardinality(S) <= 1
<1>1. IsFiniteSet({x}) /\ Cardinality({x}) = 1
  BY FS_Singleton
<1>2. IsFiniteSet(S) /\ Cardinality(S) <= Cardinality({x})
  BY <1>1, FS_Subset
<1> QED
  BY <1>1, <1>2

(* At either end at most one socket lives: the client's own; at the tab    *)
(* unless it was resumed before the socket it paused had closed.           *)
THEOREM SocketsExclude == Spec => []OneSocketEach
<1>1. Inv => OneSocketEach
  <2> SUFFICES ASSUME Inv PROVE OneSocketEach
    OBVIOUS
  <2>1. V!Live \subseteq {venue.ws}
    BY DEF Inv, VenueInv, VenueLive, V!Live, V!In
  <2>2. ~tab.hasty => T!Live \subseteq {tab.socket}
    BY DEF Inv, TabInv, OwnsLive, T!Live, T!In
  <2> QED
    BY <2>1, <2>2, AtMostOne DEF OneSocketEach
<1> QED
  BY <1>1, EndsCorrect, PTL

(* Open sockets are subscribed to what is wanted, whatever was lost.       *)
THEOREM SubscriptionsReturn == Spec => []SubscribedAnew
<1>1. Inv => SubscribedAnew
  BY DEF Inv, TabInv, TabSubscribed, VenueInv, VenueSubscribed, SubscribedAnew, T!In, V!In
<1> QED
  BY <1>1, EndsCorrect, PTL

-----------------------------------------------------------------------------
\* Replacing one entry of a table by a value of its range leaves the table in its type.
LEMMA TableType ==
    ASSUME NEW S, NEW U, NEW W, NEW f \in [S -> [U -> W]], NEW s \in S, NEW t \in U, NEW v \in W
    PROVE  [f EXCEPT ![s][t] = v] \in [S -> [U -> W]]
<1>1. [f[s] EXCEPT ![t] = v] \in [U -> W]
  OBVIOUS
<1>2. [f EXCEPT ![s] = [f[s] EXCEPT ![t] = v]] \in [S -> [U -> W]]
  BY <1>1
<1> QED
  BY <1>2

\* Counting a holder up or down leaves every entry of the table where it is or replaces one.
LEMMA HoldersType ==
    ASSUME HoldsTypeOK, NEW g \in Gateway, NEW t \in Topic, NEW n \in 0..MaxHolders,
           holders' = [holders EXCEPT ![g][t] = n]
    PROVE  holders' \in [Gateway -> [Topic -> 0..MaxHolders]]
  BY TableType DEF HoldsTypeOK

\* A command sent to the registry leaves every field a field.
LEMMA SentType ==
    ASSUME HoldsTypeOK, NEW g \in Gateway, NEW t \in Topic, NEW f \in {"none", "fresh", "lapsed"},
           Sent(g, t, f)
    PROVE  lease' \in [Gateway -> [Topic -> {"none", "fresh", "lapsed"}]]
<1>1. [lease EXCEPT ![g][t] = f] \in [Gateway -> [Topic -> {"none", "fresh", "lapsed"}]]
  BY TableType DEF HoldsTypeOK
<1>2. lease \in [Gateway -> [Topic -> {"none", "fresh", "lapsed"}]]
  BY DEF HoldsTypeOK
<1> QED
  BY <1>1, <1>2 DEF Sent

\* Subscribing and unsubscribing topics leaves sets of topics.
LEMMA WatchType ==
    ASSUME HoldsTypeOK, NEW g \in Gateway, NEW U \in SUBSET Topic, Watch(g, U) \/ Unwatch(g, U)
    PROVE  watched' \in [Gateway -> SUBSET Topic]
<1>1. watched[g] \in SUBSET Topic /\ watched \in [Gateway -> SUBSET Topic]
  BY DEF HoldsTypeOK
<1>2. CASE Watch(g, U)
  BY <1>1, <1>2 DEF Watch
<1>3. CASE Unwatch(g, U)
  BY <1>1, <1>3 DEF Unwatch
<1> QED
  BY <1>2, <1>3

\* Every step keeps every variable in its type.
LEMMA StepType ==
    ASSUME HoldsTypeOK, [HoldsNext]_holdsVars
    PROVE  HoldsTypeOK'
<1>1. ASSUME NEW g \in Gateway, Sync(g) PROVE HoldsTypeOK'
  <2>1. CASE Beat(g)
    BY <2>1 DEF HoldsTypeOK, Beat, feed, Held
  <2>2. CASE ReadLive(g)
    BY <2>2 DEF HoldsTypeOK, ReadLive, feed
  <2>3. CASE EndBeat(g)
    BY <2>3 DEF HoldsTypeOK, EndBeat, feed
  <2>4. CASE Prune(g)
    BY <2>4 DEF HoldsTypeOK, Prune, feed
  <2>5. CASE SetRemoteTopics(g)
    BY <2>5 DEF HoldsTypeOK, SetRemoteTopics, Held, Refs, Kept
  <2>6. CASE EndPrune(g)
    BY <2>6 DEF HoldsTypeOK, EndPrune, feed
  <2> QED
    BY <1>1, <2>1, <2>2, <2>3, <2>4, <2>5, <2>6 DEF Sync
<1>2. ASSUME NEW g \in Gateway, NEW t \in Topic, Acquire(g, t) PROVE HoldsTypeOK'
  <2>1. lease' \in [Gateway -> [Topic -> {"none", "fresh", "lapsed"}]]
    BY <1>2, SentType DEF Acquire, HoldsTypeOK
  <2>2. holders[g][t] + 1 \in 0..MaxHolders
    BY <1>2, HoldersAssumption DEF HoldsTypeOK, Acquire
  <2>3. holders' \in [Gateway -> [Topic -> 0..MaxHolders]]
    BY <1>2, <2>2, HoldersType DEF Acquire
  <2>4. watched' \in [Gateway -> SUBSET Topic]
    BY <1>2, WatchType DEF Acquire, HoldsTypeOK
  <2>5. graced' \in [Gateway -> SUBSET Topic]
    BY <1>2 DEF Acquire, HoldsTypeOK
  <2> QED
    BY <1>2, <2>1, <2>3, <2>4, <2>5 DEF HoldsTypeOK, Acquire, sync
<1>3. ASSUME NEW g \in Gateway, NEW t \in Topic, Release(g, t) PROVE HoldsTypeOK'
  <2>1. lease' \in [Gateway -> [Topic -> {"none", "fresh", "lapsed"}]]
    BY <1>3, SentType DEF Release, HoldsTypeOK
  <2>2. holders[g][t] - 1 \in 0..MaxHolders
    BY <1>3, HoldersAssumption DEF HoldsTypeOK, Release
  <2>3. holders' \in [Gateway -> [Topic -> 0..MaxHolders]]
    BY <1>3, <2>2, HoldersType DEF Release
  <2>4. graced' \in [Gateway -> SUBSET Topic]
    <3>1. graced \in [Gateway -> SUBSET Topic]
      BY DEF HoldsTypeOK
    <3>2. graced' = [graced EXCEPT ![g] = @ \cup {t}] \/ graced' = graced
      BY <1>3 DEF Release
    <3> QED
      BY <3>1, <3>2
  <2> QED
    BY <1>3, <2>1, <2>3, <2>4 DEF HoldsTypeOK, Release, sync
<1>4. ASSUME NEW g \in Gateway, NEW t \in Topic, GraceEnds(g, t) PROVE HoldsTypeOK'
  <2>1. watched' \in [Gateway -> SUBSET Topic]
    BY <1>4, WatchType DEF GraceEnds, HoldsTypeOK
  <2>2. graced' \in [Gateway -> SUBSET Topic]
    BY <1>4 DEF GraceEnds, HoldsTypeOK
  <2> QED
    BY <1>4, <2>1, <2>2 DEF HoldsTypeOK, GraceEnds, sync
<1>5. ASSUME NEW g \in Gateway, NEW t \in Topic, Lapse(g, t) PROVE HoldsTypeOK'
  <2>1. lease' \in [Gateway -> [Topic -> {"none", "fresh", "lapsed"}]]
    BY <1>5, TableType DEF HoldsTypeOK, Lapse
  <2> QED
    BY <1>5, <2>1 DEF HoldsTypeOK, Lapse, feed, sync
<1>6. ASSUME NEW g \in Gateway, BecomeLeader(g) \/ BecomeFollower(g) PROVE HoldsTypeOK'
  <2>1. Kept(g) \subseteq Topic
    BY DEF HoldsTypeOK, Kept, Refs, Held
  <2>2. CASE BecomeLeader(g)
    BY <2>1, <2>2 DEF HoldsTypeOK, BecomeLeader, sync
  <2>3. CASE BecomeFollower(g)
    BY <2>1, <2>3 DEF HoldsTypeOK, BecomeFollower, sync
  <2> QED
    BY <1>6, <2>2, <2>3
<1>7. ASSUME NEW g \in Gateway, Stop(g) \/ Crash(g) PROVE HoldsTypeOK'
  <2>1. holders' \in [Gateway -> [Topic -> 0..MaxHolders]]
    BY <1>7, HoldersAssumption DEF HoldsTypeOK, Stop, Crash, Gone
  <2>2. CASE Crash(g)
    BY <2>1, <2>2 DEF HoldsTypeOK, Crash, Gone
  <2>3. CASE Stop(g)
    <3> DEFINE fields == [t \in Topic |-> IF t \in Held(g) THEN "none" ELSE lease[g][t]]
    <3>1. fields \in [Topic -> {"none", "fresh", "lapsed"}]
      BY DEF HoldsTypeOK
    <3>2. lease' \in [Gateway -> [Topic -> {"none", "fresh", "lapsed"}]]
      BY <2>3, <3>1 DEF HoldsTypeOK, Stop
    <3> QED
      BY <2>1, <2>3, <3>2 DEF HoldsTypeOK, Stop, Gone
  <2> QED
    BY <1>7, <2>2, <2>3
<1>8. CASE UNCHANGED holdsVars
  BY <1>8 DEF HoldsTypeOK, holdsVars, feed, sync
<1> QED
  BY <1>1, <1>2, <1>3, <1>4, <1>5, <1>6, <1>7, <1>8
     DEF HoldsNext, SettledNext, Connect, Expire

\* Type correctness of the model of the holds.
THEOREM HoldsTypeCorrect == HoldsSpec => []HoldsTypeOK
<1>1. HoldsInit => HoldsTypeOK
  BY HoldersAssumption DEF HoldsInit, HoldsTypeOK
<1>2. HoldsTypeOK /\ [HoldsNext]_holdsVars => HoldsTypeOK'
  BY StepType
<1> QED
  BY <1>1, <1>2, PTL DEF HoldsSpec

-----------------------------------------------------------------------------

\* What a gateway keeps depends only on its own counts, timers and remote topics.
LEMMA KeptUnchanged ==
    ASSUME NEW g, holders'[g] = holders[g], graced'[g] = graced[g], remote'[g] = remote[g]
    PROVE  Kept(g)' = Kept(g)
  BY DEF Kept, Refs, Held

\* A step that touches at most one gateway's feed preserves the invariant if it does there.
LEMMA OneGateway ==
    ASSUME WatchedIsKept, NEW g \in Gateway,
           \A h \in Gateway \ {g} :
               /\ watched'[h] = watched[h] /\ upstream'[h] = upstream[h]
               /\ holders'[h] = holders[h] /\ graced'[h] = graced[h] /\ remote'[h] = remote[h],
           watched'[g] = IF upstream'[g] THEN Kept(g)' ELSE {}
    PROVE  WatchedIsKept'
<1> SUFFICES ASSUME NEW h \in Gateway
             PROVE  watched'[h] = IF upstream'[h] THEN Kept(h)' ELSE {}
  BY DEF WatchedIsKept
<1>1. CASE h = g
  BY <1>1
<1>2. CASE h # g
  BY <1>2, KeptUnchanged DEF WatchedIsKept
<1> QED
  BY <1>1, <1>2

\* Every step leaves no grace timer running for a held topic.
LEMMA StepGraced ==
    ASSUME HoldsTypeOK, GracedUnheld, [HoldsNext]_holdsVars
    PROVE  GracedUnheld'
<1>1. ASSUME UNCHANGED <<holders, graced>> PROVE GracedUnheld'
  BY <1>1 DEF GracedUnheld, Held
<1>2. ASSUME NEW g \in Gateway, NEW t \in Topic, Acquire(g, t) PROVE GracedUnheld'
  BY <1>2 DEF HoldsTypeOK, GracedUnheld, Acquire, Held
<1>3. ASSUME NEW g \in Gateway, NEW t \in Topic, Release(g, t) PROVE GracedUnheld'
  BY <1>3 DEF HoldsTypeOK, GracedUnheld, Release, Held
<1>4. ASSUME NEW g \in Gateway, NEW t \in Topic, GraceEnds(g, t) PROVE GracedUnheld'
  BY <1>4 DEF HoldsTypeOK, GracedUnheld, GraceEnds, Held
<1>5. ASSUME NEW g \in Gateway, BecomeFollower(g) \/ Gone(g) PROVE GracedUnheld'
  BY <1>5 DEF HoldsTypeOK, GracedUnheld, BecomeFollower, Gone, Held
<1>6. CASE \E g \in Gateway : Sync(g) \/ BecomeLeader(g)
  BY <1>6, <1>1
     DEF Sync, Beat, ReadLive, EndBeat, Prune, SetRemoteTopics, EndPrune, BecomeLeader, feed
<1>7. CASE \E g \in Gateway : Connect(g) \/ Expire(g)
  BY <1>7, <1>1, <1>2, <1>3, <1>4 DEF Connect, Expire, Lapse, feed
<1>8. CASE \E g \in Gateway : BecomeFollower(g) \/ Stop(g) \/ Crash(g)
  BY <1>8, <1>5 DEF Stop, Crash
<1>9. CASE UNCHANGED holdsVars
  BY <1>9, <1>1 DEF holdsVars, feed
<1> QED
  BY <1>6, <1>7, <1>8, <1>9 DEF HoldsNext, SettledNext

\* No grace timer ever runs for a held topic.
THEOREM GracedCorrect == HoldsSpec => []GracedUnheld
<1>1. HoldsInit => GracedUnheld
  BY DEF HoldsInit, GracedUnheld
<1>2. HoldsTypeOK /\ GracedUnheld /\ [HoldsNext]_holdsVars => GracedUnheld'
  BY StepGraced
<1> QED
  BY <1>1, <1>2, HoldsTypeCorrect, PTL DEF HoldsSpec

\* Every step keeps the venue subscriptions and what the gateways keep equal.
LEMMA StepWatched ==
    ASSUME HoldsTypeOK, GracedUnheld, WatchedIsKept, [HoldsNext]_holdsVars
    PROVE  WatchedIsKept'
<1>1. ASSUME UNCHANGED feed PROVE WatchedIsKept'
  BY <1>1 DEF WatchedIsKept, feed, Kept, Refs, Held
<1>2. ASSUME NEW g \in Gateway, SetRemoteTopics(g) PROVE WatchedIsKept'
  <2>1. Refs(g)' = Refs(g) /\ upstream'[g] = upstream[g]
    BY <1>2 DEF SetRemoteTopics, Refs, Held
  <2>2. watched[g] = IF upstream[g] THEN Refs(g) \cup remote[g] ELSE {}
    BY DEF WatchedIsKept, Kept
  <2>3. watched'[g] =
          IF ~upstream[g] THEN watched[g]
          ELSE (watched[g] \cup (remote'[g] \ (Refs(g) \cup remote[g])))
                 \ (remote[g] \ (remote'[g] \cup Refs(g)))
    BY <1>2 DEF HoldsTypeOK, SetRemoteTopics, Kept
  <2>4. watched'[g] = IF upstream'[g] THEN Kept(g)' ELSE {}
    BY <2>1, <2>2, <2>3 DEF Kept
  <2> QED
    BY <1>2, <2>4, OneGateway DEF HoldsTypeOK, SetRemoteTopics
<1>3. ASSUME NEW g \in Gateway, NEW t \in Topic, Acquire(g, t) PROVE WatchedIsKept'
  <2>1. Kept(g)' = Kept(g) \cup {t}
    BY <1>3 DEF HoldsTypeOK, Acquire, Kept, Refs, Held
  <2>2. watched'[g] = IF upstream'[g] THEN Kept(g)' ELSE {}
    BY <1>3, <2>1 DEF HoldsTypeOK, WatchedIsKept, Acquire, Watch
  <2> QED
    BY <1>3, <2>2, OneGateway DEF HoldsTypeOK, Acquire, Watch
<1>4. ASSUME NEW g \in Gateway, NEW t \in Topic, Release(g, t) PROVE WatchedIsKept'
  <2>1. Kept(g)' = Kept(g)
    BY <1>4 DEF HoldsTypeOK, Release, Kept, Refs, Held
  <2>2. watched'[g] = IF upstream'[g] THEN Kept(g)' ELSE {}
    BY <1>4, <2>1 DEF HoldsTypeOK, WatchedIsKept, Release
  <2> QED
    BY <1>4, <2>2, OneGateway DEF HoldsTypeOK, Release
<1>5. ASSUME NEW g \in Gateway, NEW t \in Topic, GraceEnds(g, t) PROVE WatchedIsKept'
  <2>1. t \notin Held(g) /\ Held(g)' = Held(g)
    BY <1>5 DEF GracedUnheld, GraceEnds, Held
  <2>2. graced'[g] = graced[g] \ {t} /\ remote'[g] = remote[g] /\ upstream'[g] = upstream[g]
    BY <1>5 DEF HoldsTypeOK, GraceEnds
  <2>3. watched'[g] = IF t \in remote[g] \/ ~upstream[g] THEN watched[g] ELSE watched[g] \ {t}
    BY <1>5 DEF HoldsTypeOK, GraceEnds, Unwatch
  <2>4. watched[g] = IF upstream[g] THEN Held(g) \cup graced[g] \cup remote[g] ELSE {}
    BY DEF WatchedIsKept, Kept, Refs
  <2>5. watched'[g] = IF upstream'[g] THEN Kept(g)' ELSE {}
    BY <2>1, <2>2, <2>3, <2>4 DEF Kept, Refs
  <2> QED
    BY <1>5, <2>5, OneGateway DEF HoldsTypeOK, GraceEnds, Unwatch
<1>6. ASSUME NEW g \in Gateway, BecomeLeader(g) PROVE WatchedIsKept'
  <2>1. watched'[g] = IF upstream'[g] THEN Kept(g)' ELSE {}
    BY <1>6 DEF HoldsTypeOK, WatchedIsKept, BecomeLeader, Kept, Refs, Held
  <2> QED
    BY <1>6, <2>1, OneGateway DEF HoldsTypeOK, BecomeLeader
<1>7. ASSUME NEW g \in Gateway, BecomeFollower(g) PROVE WatchedIsKept'
  <2>1. watched'[g] = IF upstream'[g] THEN Kept(g)' ELSE {}
    BY <1>7 DEF HoldsTypeOK, WatchedIsKept, BecomeFollower
  <2> QED
    BY <1>7, <2>1, OneGateway DEF HoldsTypeOK, BecomeFollower
<1>8. ASSUME NEW g \in Gateway, Gone(g) PROVE WatchedIsKept'
  <2>1. watched'[g] = IF upstream'[g] THEN Kept(g)' ELSE {}
    BY <1>8 DEF HoldsTypeOK, Gone
  <2> QED
    BY <1>8, <2>1, OneGateway DEF HoldsTypeOK, Gone
<1>9. CASE \E g \in Gateway : Sync(g)
  BY <1>9, <1>1, <1>2 DEF Sync, Beat, ReadLive, EndBeat, Prune, EndPrune
<1>10. CASE \E g \in Gateway : Connect(g) \/ Expire(g)
  BY <1>10, <1>1, <1>3, <1>4, <1>5 DEF Connect, Expire, Lapse
<1>11. CASE \E g \in Gateway : Stop(g) \/ Crash(g)
  BY <1>11, <1>8 DEF Stop, Crash
<1>12. CASE UNCHANGED holdsVars
  BY <1>12, <1>1 DEF holdsVars
<1> QED
  BY <1>6, <1>7, <1>9, <1>10, <1>11, <1>12 DEF HoldsNext, SettledNext

\* The venue subscriptions are always exactly what is kept: see WatchedIsKept.
THEOREM WatchedCorrect == HoldsSpec => []WatchedIsKept
<1>1. HoldsInit => WatchedIsKept
  BY DEF HoldsInit, WatchedIsKept
<1>2. HoldsTypeOK /\ GracedUnheld /\ WatchedIsKept /\ [HoldsNext]_holdsVars => WatchedIsKept'
  BY StepWatched
<1> QED
  BY <1>1, <1>2, HoldsTypeCorrect, GracedCorrect, PTL DEF HoldsSpec
=============================================================================
