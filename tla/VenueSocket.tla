----------------------------- MODULE VenueSocket -----------------------------
(***************************************************************************)
(* The socket of the gateway to a venue: ReconnectingSocket of             *)
(* packages/venues/src/ws/reconnecting.ts, with the symbols DeltaWsClient  *)
(* wants (packages/venues/src/delta/ws.ts).                                *)
(*                                                                         *)
(* A socket may go silent without closing; the watchdog finds out.  It is  *)
(* armed by the open event, so an attempt to connect that never ends is    *)
(* never given up: that the attempt ends is left to the platform.          *)
(***************************************************************************)
EXTENDS Naturals, FiniteSets

CONSTANTS Socket,     \* bound: sockets there are at a time
          Topic,      \* whose symbols are subscribed
          None,
          MaxFaults   \* bound: sockets dropped, gone silent or not created

VARIABLES client,  \* DeltaWsClient
          net,     \* each socket and the topics the venue has for it
          faults   \* how many there were

vars == <<client, net, faults>>

Free == [state |-> "free", subs |-> {}]

TypeOK ==
    /\ client \in [state : {"idle", "connecting", "open", "reconnecting", "closed"},
                   ws : Socket \cup {None}, timer : BOOLEAN, watchdog : BOOLEAN,
                   wanted : SUBSET Topic]
    /\ net \in [Socket -> [state : {"free", "connecting", "open", "silent", "closing"},
                           subs : SUBSET Topic]]
    /\ faults \in 0..MaxFaults

Init ==
    /\ client = [state |-> "idle", ws |-> None, timer |-> FALSE, watchdog |-> FALSE,
                 wanted |-> {}]
    /\ net = [s \in Socket |-> Free]
    /\ faults = 0

In(state) == {s \in Socket : net[s].state = state}
Fault == faults < MaxFaults /\ faults' = faults + 1

-----------------------------------------------------------------------------
Scheduled(c) == [c EXCEPT !.state = "reconnecting", !.timer = TRUE]

\* openSocket, by the client as c.
OpenSocket(c) ==
    \/ /\ \E s \in In("free") :
            /\ client' = [c EXCEPT !.state = "connecting", !.ws = s]
            /\ net' = [net EXCEPT ![s].state = "connecting"]
       /\ UNCHANGED faults
    \/ Fault /\ client' = Scheduled(c) /\ UNCHANGED net

\* connect; a client that was closed can be reopened.
Connect ==
    /\ client.state \notin {"connecting", "open"}
    /\ OpenSocket([client EXCEPT !.timer = FALSE])

TimerFires ==
    /\ client.timer
    /\ OpenSocket([client EXCEPT !.timer = FALSE])

\* Mutant: closed at once, with no close event to come.
HangsAtOnce(n, s) == IF s = None THEN n ELSE [n EXCEPT ![s] = [Free EXCEPT !.state = "closed"]]

\* ws.close(), if there is one.
Hangs(n, s) == IF s = None THEN n ELSE [n EXCEPT ![s] = [Free EXCEPT !.state = "closing"]]

Close ==
    /\ client' = [client EXCEPT !.timer = FALSE, !.watchdog = FALSE, !.ws = None,
                                !.state = "closed"]
    /\ net' = Hangs(net, client.ws)
    /\ UNCHANGED faults

\* Mutant: the watchdog is armed by the frames alone.
ArmsLater(c) == c

Arms(c) == [c EXCEPT !.watchdog = TRUE]

\* The open event.
Opens(s) ==
    /\ net[s].state = "connecting"
    /\ IF client.ws = s
         THEN /\ client' = Arms([client EXCEPT !.state = "open"])
              /\ net' = [net EXCEPT ![s] = [state |-> "open", subs |-> client.wanted]]
         ELSE net' = [net EXCEPT ![s].state = "open"] /\ UNCHANGED client
    /\ UNCHANGED faults

Drops(s) ==
    /\ net[s].state \in {"connecting", "open", "silent"} /\ Fault
    /\ net' = [net EXCEPT ![s] = [Free EXCEPT !.state = "closing"]]
    /\ UNCHANGED client

GoesSilent(s) ==
    /\ net[s].state = "open" /\ Fault
    /\ net' = [net EXCEPT ![s] = [Free EXCEPT !.state = "silent"]]
    /\ UNCHANGED client

\* onStale: no frame within the heartbeat.
Stale ==
    /\ client.watchdog /\ client.ws \in In("silent")
    /\ client' = Scheduled([client EXCEPT !.watchdog = FALSE, !.ws = None])
    /\ net' = Hangs(net, client.ws)
    /\ UNCHANGED faults

\* The close event; of a socket the client has given up it is ignored.
Closed(s) ==
    /\ net[s].state = "closing"
    /\ net' = [net EXCEPT ![s] = Free]
    /\ client' = IF client.ws = s
                   THEN Scheduled([client EXCEPT !.watchdog = FALSE, !.ws = None]) ELSE client
    /\ UNCHANGED faults

\* subscribe and unsubscribe, from what is wanted to topics.
Watch(topics) ==
    /\ client' = [client EXCEPT !.wanted = topics]
    /\ net' = IF client.ws \in In("open") THEN [net EXCEPT ![client.ws].subs = topics] ELSE net

-----------------------------------------------------------------------------
Next ==
    \/ Connect \/ TimerFires \/ Close \/ Stale
    \/ \E s \in Socket : Opens(s) \/ Drops(s) \/ GoesSilent(s) \/ Closed(s)

Stopped == client.state \in {"idle", "closed"}
Live == In("connecting") \cup In("open") \cup In("silent")
=============================================================================
