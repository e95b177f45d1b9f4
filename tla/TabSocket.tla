------------------------------ MODULE TabSocket ------------------------------
(***************************************************************************)
(* The socket of a browser tab to its gateway: GatewayClient of            *)
(* apps/web/src/lib/gateway/client.ts, paused and resumed by the header's  *)
(* feed button.                                                            *)
(*                                                                         *)
(* Closing a socket takes a while: its close event comes later, and the    *)
(* handler of that event does not ask whose it is.  The status shown, the  *)
(* growing delay of a reconnect and the ping are left out; the frames are  *)
(* in FeedStream.                                                          *)
(***************************************************************************)
EXTENDS Naturals, FiniteSets

CONSTANTS Socket,     \* bound: sockets there are at a time
          Topic,
          None,
          MaxFaults   \* bound: sockets dropped or not created

VARIABLES client,  \* GatewayClient
          net,     \* each socket and the topics the gateway has for it
          faults   \* how many there were

vars == <<client, net, faults>>

Free == [state |-> "free", subs |-> {}]

\* hasty is for the properties only: a socket was opened while another was closing.
TypeOK ==
    /\ client \in [socket : Socket \cup {None}, manuallyClosed : BOOLEAN, timer : BOOLEAN,
                   refs : SUBSET Topic, hasty : BOOLEAN]
    /\ net \in [Socket -> [state : {"free", "connecting", "open", "closing"},
                           subs : SUBSET Topic]]
    /\ faults \in 0..MaxFaults

Init ==
    /\ client = [socket |-> None, manuallyClosed |-> TRUE, timer |-> FALSE, refs |-> {},
                 hasty |-> FALSE]
    /\ net = [s \in Socket |-> Free]
    /\ faults = 0

In(state) == {s \in Socket : net[s].state = state}
Fault == faults < MaxFaults /\ faults' = faults + 1

-----------------------------------------------------------------------------
\* scheduleReconnect: one timer at a time.
Scheduled(c) == [c EXCEPT !.timer = TRUE]

\* Mutant: a socket the client has is opened beside.
EvenWithOne(c) == ~c.manuallyClosed

MayConnect(c) == c.socket = None /\ ~c.manuallyClosed

\* connect, by the client as c.
Connect(c) ==
    \/ /\ MayConnect(c)
       /\ \E s \in In("free") :
            /\ client' = [c EXCEPT !.socket = s, !.hasty = @ \/ In("closing") # {}]
            /\ net' = [net EXCEPT ![s].state = "connecting"]
       /\ UNCHANGED faults
    \/ MayConnect(c) /\ Fault /\ client' = Scheduled(c) /\ UNCHANGED net
    \/ ~MayConnect(c) /\ client' = c /\ UNCHANGED <<net, faults>>

\* Resuming the feed.  Bound: the trader is hasty once.
Reopen ==
    /\ In("closing") = {} \/ ~client.hasty
    /\ Connect([client EXCEPT !.manuallyClosed = FALSE])

TimerFires ==
    /\ client.timer
    /\ Connect([client EXCEPT !.timer = FALSE])

\* Pausing it, or leaving the page.
Close ==
    /\ client' = [client EXCEPT !.manuallyClosed = TRUE, !.timer = FALSE, !.socket = None]
    /\ net' = IF client.socket = None THEN net
              ELSE [net EXCEPT ![client.socket] = [Free EXCEPT !.state = "closing"]]
    /\ UNCHANGED faults

\* What the gateway has for the client's socket, when it is open.
Sends(n, topics) ==
    IF client.socket # None /\ n[client.socket].state = "open"
      THEN [n EXCEPT ![client.socket].subs = topics] ELSE n

\* Mutant: a socket opens and nothing is subscribed again.
ResubscribesNothing(topics) == topics \ client.refs

Resubscribes(topics) == topics

\* onopen: the topics go out on the socket the client has.
Opens(s) ==
    /\ net[s].state = "connecting"
    /\ net' = Sends([net EXCEPT ![s].state = "open"], Resubscribes(client.refs))
    /\ UNCHANGED <<client, faults>>

Drops(s) ==
    /\ net[s].state \in {"connecting", "open"} /\ Fault
    /\ net' = [net EXCEPT ![s] = [Free EXCEPT !.state = "closing"]]
    /\ UNCHANGED client

\* onclose, whichever socket closed.
Closed(s) ==
    /\ net[s].state = "closing"
    /\ net' = [net EXCEPT ![s] = Free]
    /\ LET c == [client EXCEPT !.socket = None]
       IN  client' = IF client.manuallyClosed THEN c ELSE Scheduled(c)
    /\ UNCHANGED faults

\* The first view of a topic comes, or the last one goes.
Subscribe(t) ==
    /\ t \notin client.refs
    /\ client' = [client EXCEPT !.refs = @ \cup {t}]
    /\ net' = Sends(net, client.refs \cup {t})
    /\ UNCHANGED faults

Unsubscribe(t) ==
    /\ t \in client.refs
    /\ client' = [client EXCEPT !.refs = @ \ {t}]
    /\ net' = Sends(net, client.refs \ {t})
    /\ UNCHANGED faults

-----------------------------------------------------------------------------
Next ==
    \/ Reopen \/ TimerFires \/ Close
    \/ \E s \in Socket : Opens(s) \/ Drops(s) \/ Closed(s)
    \/ \E t \in Topic : Subscribe(t) \/ Unsubscribe(t)

\* The topics the gateway serves this tab.
Served == UNION {net[s].subs : s \in In("open")}
Live == In("connecting") \cup In("open")
=============================================================================
