----------------------------- MODULE GatewaySubs -----------------------------
(***************************************************************************)
(* The connections of one gateway and what they subscribe to:              *)
(* apps/gateway/src/server.ts over the holds of feed/role.ts.              *)
(*                                                                         *)
(* A sub message is a loop over its topics.  On the leading gateway every  *)
(* first frame is at hand and the loop runs through; on a follower it      *)
(* awaits the snapshot store once per topic, and anything may happen to    *)
(* the connection meanwhile.  The loop keeps the ConnState it was given,   *)
(* also when the connection is gone.  The order of the topics in a message *)
(* is not fixed: rest is the set of those still to come.                   *)
(***************************************************************************)
EXTENDS Integers, FiniteSets

CONSTANTS Conn,        \* connections: each opens once
          Topic,       \* supported topics
          None,
          Loop,        \* bound: sub messages served at a time, per connection
          MaxMessage,  \* bound: topics of one message
          MaxTopics,   \* MAX_TOPICS_PER_CONN
          MaxOpen      \* MAX_CONNECTIONS_PER_IP: all come from one address

ASSUME NoneAssumption == None \notin Topic
ASSUME ConnAssumption == IsFiniteSet(Conn)

VARIABLES follower,   \* RoleFeed.mode
          socket,     \* of each connection: "new", "open" or "closed"
          conns,      \* GatewayServer.conns
          topics,     \* ConnState.topics, by key
          listening,  \* Subscription objects on the fan-out
          answered,   \* subscriptions in topics whose first frame was sent
          refs,       \* RoleFeed.holds
          loop,       \* what each running subscribe() awaits
          cut         \* connections that closed before a loop of theirs was through

vars == <<follower, socket, conns, topics, listening, answered, refs, loop, cut>>

Idle == [awaits |-> None, rest |-> {}, current |-> FALSE]

TypeOK ==
    /\ follower \in BOOLEAN
    /\ socket \in [Conn -> {"new", "open", "closed"}]
    /\ conns \in SUBSET Conn
    /\ topics \in [Conn -> SUBSET Topic]
    /\ listening \in [Conn -> [Topic -> Nat]]
    /\ answered \in [Conn -> SUBSET Topic]
    /\ refs \in [Topic -> Nat]
    \* current: the object the loop made is still the one in topics
    /\ loop \in [Conn -> [Loop -> [awaits : Topic \cup {None}, rest : SUBSET Topic,
                                   current : BOOLEAN]]]
    /\ cut \in SUBSET Conn

Init ==
    /\ follower \in BOOLEAN
    /\ socket = [c \in Conn |-> "new"]
    /\ conns = {}
    /\ topics = [c \in Conn |-> {}]
    /\ listening = [c \in Conn |-> [t \in Topic |-> 0]]
    /\ answered = [c \in Conn |-> {}]
    /\ refs = [t \in Topic |-> 0]
    /\ loop = [c \in Conn |-> [l \in Loop |-> Idle]]
    /\ cut = {}

-----------------------------------------------------------------------------
\* The lease is taken or lost; connections do not notice.
ChangeRole ==
    /\ follower' = ~follower
    /\ UNCHANGED <<socket, conns, topics, listening, answered, refs, loop, cut>>

\* onOpen: over the cap the connection is closed and never known.
Open(c) ==
    /\ socket[c] = "new"
    /\ \/ /\ Cardinality(conns) < MaxOpen
          /\ socket' = [socket EXCEPT ![c] = "open"]
          /\ conns' = conns \cup {c}
       \/ /\ Cardinality(conns) >= MaxOpen
          /\ socket' = [socket EXCEPT ![c] = "closed"]
          /\ UNCHANGED conns
    /\ UNCHANGED <<follower, topics, listening, answered, refs, loop, cut>>

Bit(b) == IF b THEN 1 ELSE 0

\* c releases the topics `left` and then acquires `joined`, each with its subscription to
\* the fan-out.
Holds(c, left, joined) ==
    LET change(t) == Bit(t \in joined) - Bit(t \in left)
    IN  /\ topics' = [topics EXCEPT ![c] = (@ \ left) \cup joined]
        /\ refs' = [t \in Topic |-> refs[t] + change(t)]
        /\ listening' = [listening EXCEPT ![c] = [t \in Topic |-> @[t] + change(t)]]

Room(held) == Cardinality(held) < MaxTopics

\* The loop l of c releases `left`, has then answered for `got`, and goes on to `rest`.  A
\* topic held already is passed over when it is its turn, the limit ends the loop.  A
\* follower stops at the next topic and awaits its frame; a leader takes all that are left
\* at once, but keeps only those it has a frame for.
GoesOn(c, l, left, got, rest) ==
    LET held == topics[c] \ left
    IN  \/ /\ rest \subseteq held \/ ~Room(held)
           /\ Holds(c, left, {})
           /\ answered' = [answered EXCEPT ![c] = got]
           /\ loop' = [loop EXCEPT ![c][l] = Idle]
        \/ /\ follower /\ Room(held)
           /\ \E t \in rest \ held, passed \in SUBSET (rest \cap held) :
                /\ Holds(c, left, {t})
                /\ loop' = [loop EXCEPT ![c][l] =
                     [awaits |-> t, rest |-> rest \ (passed \cup {t}), current |-> TRUE]]
           /\ answered' = [answered EXCEPT ![c] = got]
        \/ /\ ~follower /\ Room(held) /\ ~(rest \subseteq held)
           /\ \E taken \in SUBSET (rest \ held) :
                /\ Cardinality(held \cup taken) <= MaxTopics
                /\ Holds(c, left, taken)
                /\ answered' = [answered EXCEPT ![c] = got \cup taken]
           /\ loop' = [loop EXCEPT ![c][l] = Idle]

\* onMessage, "sub": one more loop starts, beside those that still await.
Sub(c, l, message) ==
    /\ c \in conns
    /\ loop[c][l] = Idle
    /\ GoesOn(c, l, {}, answered[c], message)
    /\ UNCHANGED <<follower, socket, conns, cut>>

\* Mutant: the subscription is not looked up again after the await.
NotLookedUp(c, l) == TRUE

\* The subscription the loop made is still the one under its key.
StillOurs(c, l) == loop[c][l].current

\* Mutant: a first frame that cannot be read is only logged.
OnlyLogged(c, l) == {}

Dropped(c, l) == {loop[c][l].awaits}

\* The await is over.  The first frame is sent; or there is none, or reading it failed,
\* and the topic is dropped.  If the subscription is gone, the loop just goes on.
Resume(c, l) ==
    LET go(left, got) == GoesOn(c, l, left, got, loop[c][l].rest)
    IN  /\ loop[c][l] # Idle
        /\ \/ /\ StillOurs(c, l)
              /\ go({}, answered[c] \cup {loop[c][l].awaits})
           \/ /\ StillOurs(c, l)
              /\ go(Dropped(c, l), answered[c])
           \/ /\ ~StillOurs(c, l)
              /\ go({}, answered[c])
        /\ UNCHANGED <<follower, socket, conns, cut>>

\* Mutant: a topic without a subscription is released as well.
EvenIfNotHeld(c, gone) == gone

IfHeld(c, gone) == gone \cap topics[c]

\* The subscriptions of c under the keys `gone` are removed: a loop that awaits for one of
\* them will find another, or none, in its place.
Forget(c, gone) ==
    /\ Holds(c, IfHeld(c, gone), {})
    /\ answered' = [answered EXCEPT ![c] = @ \ gone]
    /\ loop' = [loop EXCEPT ![c] = [l \in Loop |-> [loop[c][l] EXCEPT
         !.current = loop[c][l].current /\ loop[c][l].awaits \notin gone]]]

Unsub(c, message) ==
    /\ c \in conns
    /\ Forget(c, message)
    /\ UNCHANGED <<follower, socket, conns, cut>>

\* Mutant: teardown leaves the topics that a loop awaits for to that loop.
CloseLeavesAwaited(c) ==
    /\ c \in conns
    /\ socket' = [socket EXCEPT ![c] = "closed"]
    /\ conns' = conns \ {c}
    /\ Forget(c, answered[c])
    /\ UNCHANGED <<follower, cut>>

\* onClose: the peer went away, or misbehaved three times and was closed.  A loop of the
\* connection that awaits goes on all the same.
Close(c) ==
    /\ c \in conns
    /\ socket' = [socket EXCEPT ![c] = "closed"]
    /\ conns' = conns \ {c}
    /\ Forget(c, topics[c])
    /\ cut' = IF \E l \in Loop : loop[c][l].rest # {} THEN cut \cup {c} ELSE cut
    /\ UNCHANGED follower

Messages == {m \in SUBSET Topic : Cardinality(m) \in 1..MaxMessage}

Next ==
    \/ ChangeRole
    \/ \E c \in Conn : Open(c) \/ Close(c)
    \/ \E c \in Conn, m \in Messages : Unsub(c, m)
    \/ \E c \in Conn, l \in Loop, m \in Messages : Sub(c, l, m)
    \/ \E c \in Conn, l \in Loop : Resume(c, l)

Spec == Init /\ [][Next]_vars

-----------------------------------------------------------------------------
(* Properties.                                                             *)

\* No topic is left behind a first frame that never comes: each one a connection holds
\* was answered, or the loop that made this very subscription still awaits for it.
NoSilentTopic == \A c \in Conn : \A t \in topics[c] :
    \/ t \in answered[c]
    \/ \E l \in Loop : loop[c][l].awaits = t /\ loop[c][l].current

AllThrough(c) == socket[c] = "closed" /\ loop[c] = [l \in Loop |-> Idle]

\* A topic is held upstream once per connection that has it, and each such connection
\* listens to it once: no frame is sent twice, none is missed, and the last one to leave
\* ends it, whatever overlapping loops, unsubs and closes do (server.ts, subscribe,
\* unsubscribe and teardown).  A connection that is gone holds nothing, unless it closed
\* while a message of several topics was being served: then its loop goes on without it.
HoldsBalance ==
    /\ \A t \in Topic :
         /\ refs[t] = Cardinality({c \in Conn : t \in topics[c]})
         /\ \A c \in Conn : listening[c][t] = IF t \in topics[c] THEN 1 ELSE 0
    /\ \A c \in Conn : AllThrough(c) /\ c \notin cut => topics[c] = {}
=============================================================================
