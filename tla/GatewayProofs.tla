---------------------------- MODULE GatewayProofs ----------------------------
(***************************************************************************)
(* Proofs about a gateway.  First about the topics of its connections      *)
(* (GatewaySubs), for any connections, topics, limits and number of        *)
(* messages served at a time; then about the frames of a topic from the    *)
(* venue to the browsers (FeedStream), for any gateways and browsers and   *)
(* however many price changes, takeovers, faults and frames on their way.  *)
(***************************************************************************)
EXTENDS GatewaySubs, FeedStream, FiniteSetTheorems, WellFoundedInduction, TLAPS

LoopState == [awaits : Topic \cup {None}, rest : SUBSET Topic, current : BOOLEAN]

With(t) == {c \in Conn : t \in topics[c]}

(* A topic is held upstream, and listened to, once per connection that has *)
(* it: the first part of HoldsBalance.                                     *)
Balance ==
    /\ \A t \in Topic : refs[t] = Cardinality(With(t))
    /\ \A c \in Conn, t \in Topic : listening[c][t] = IF t \in topics[c] THEN 1 ELSE 0

(* The subscription a loop made and still owns is in topics, and no two    *)
(* loops own the same one (server.ts, subscribe: the look-up after the     *)
(* await).  Without this a loop might drop what it no longer has.          *)
Owned ==
    \A c \in Conn : \A l \in Loop :
      loop[c][l].current =>
        /\ loop[c][l].awaits \in topics[c]
        /\ \A m \in Loop : loop[c][m].current /\ loop[c][m].awaits = loop[c][l].awaits => m = l

(* A connection that is not known has nothing and its loops have nothing   *)
(* left to take, unless it closed before one of them was through.          *)
GoneIsBare ==
    /\ \A c \in conns : socket[c] = "open"
    /\ \A c \in Conn : c \notin conns /\ c \notin cut =>
         topics[c] = {} /\ \A l \in Loop : loop[c][l].rest = {} /\ ~loop[c][l].current

Inv == TypeOK /\ Balance /\ Owned /\ GoneIsBare /\ NoSilentTopic

-----------------------------------------------------------------------------
\* One connection changing its topics changes how many have each of them by one at most.
LEMMA CountsChange ==
  ASSUME TypeOK, NEW c \in Conn, NEW T \in SUBSET Topic, topics' = [topics EXCEPT ![c] = T],
         NEW t \in Topic
  PROVE  /\ Cardinality(With(t)) \in Nat
         /\ Cardinality(With(t)') = Cardinality(With(t)) + Bit(t \in T) - Bit(t \in topics[c])
<1>1. IsFiniteSet(With(t)) /\ Cardinality(With(t)) \in Nat
  <2>1. With(t) \in SUBSET Conn
    BY DEF With
  <2> QED
    BY <2>1, ConnAssumption, FS_Subset, FS_CardinalityType
<1>2. \A x \in Conn : topics'[x] = IF x = c THEN T ELSE topics[x]
  BY DEF TypeOK
<1>3. CASE t \in T
  <2>1. With(t)' = With(t) \cup {c}
    BY <1>2, <1>3 DEF With
  <2>2. Cardinality(With(t)') = IF c \in With(t) THEN Cardinality(With(t))
                                ELSE Cardinality(With(t)) + 1
    BY <1>1, <2>1, FS_AddElement
  <2>3. c \in With(t) <=> t \in topics[c]
    BY DEF With
  <2> QED
    BY <1>1, <1>3, <2>2, <2>3 DEF Bit
<1>4. CASE t \notin T
  <2>1. With(t)' = With(t) \ {c}
    BY <1>2, <1>4 DEF With
  <2>2. Cardinality(With(t)') = IF c \in With(t) THEN Cardinality(With(t)) - 1
                                ELSE Cardinality(With(t))
    BY <1>1, <2>1, FS_RemoveElement
  <2>3. c \in With(t) <=> t \in topics[c]
    BY DEF With
  <2> QED
    BY <1>1, <1>4, <2>2, <2>3 DEF Bit
<1> QED
  BY <1>1, <1>3, <1>4

\* Releasing what is held and acquiring what is not keeps the balance.
LEMMA HoldsKeeps ==
  ASSUME TypeOK, Balance, NEW c \in Conn, NEW left \in SUBSET topics[c],
         NEW joined \in SUBSET Topic, joined \cap (topics[c] \ left) = {}, Holds(c, left, joined)
  PROVE  /\ Balance'
         /\ topics' \in [Conn -> SUBSET Topic]
         /\ listening' \in [Conn -> [Topic -> Nat]]
         /\ refs' \in [Topic -> Nat]
         /\ \A x \in Conn :
              topics'[x] = IF x = c THEN (topics[c] \ left) \cup joined ELSE topics[x]
<1> DEFINE T == (topics[c] \ left) \cup joined
           change(t) == Bit(t \in joined) - Bit(t \in left)
<1>1. T \in SUBSET Topic /\ topics' = [topics EXCEPT ![c] = T]
  BY DEF Holds, TypeOK
<1>2. \A t \in Topic : change(t) = Bit(t \in T) - Bit(t \in topics[c])
  BY DEF Bit
<1>3. \A t \in Topic : refs'[t] = refs[t] + change(t)
  BY DEF Holds
<1>4. refs' = [t \in Topic |-> refs[t] + change(t)]
  BY DEF Holds
<1>5. listening' = [listening EXCEPT ![c] = [t \in Topic |-> listening[c][t] + change(t)]]
  BY DEF Holds
<1>6. /\ topics' \in [Conn -> SUBSET Topic]
      /\ \A x \in Conn : topics'[x] = IF x = c THEN T ELSE topics[x]
  <2> HIDE DEF T
  <2> QED
    BY <1>1 DEF TypeOK
<1> HIDE DEF T, change
<1>7. \A t \in Topic : refs'[t] = Cardinality(With(t)') /\ refs'[t] \in Nat
  <2> SUFFICES ASSUME NEW t \in Topic
               PROVE  refs'[t] = Cardinality(With(t)') /\ refs'[t] \in Nat
    OBVIOUS
  <2>1. /\ Cardinality(With(t)) \in Nat
        /\ Cardinality(With(t)') = Cardinality(With(t)) + Bit(t \in T) - Bit(t \in topics[c])
    BY <1>1, CountsChange
  <2>2. refs'[t] = Cardinality(With(t)')
    BY <1>2, <1>3, <2>1 DEF Balance, Bit
  <2>3. Cardinality(With(t)') \in Nat
    <3>1. With(t)' \in SUBSET Conn
      BY DEF With
    <3> QED
      BY <3>1, ConnAssumption, FS_Subset, FS_CardinalityType
  <2> QED
    BY <2>2, <2>3
<1>8. \A x \in Conn, t \in Topic : listening'[x][t] = IF t \in topics'[x] THEN 1 ELSE 0
  <2>1. \A t \in Topic : listening[c][t] + change(t) = IF t \in T THEN 1 ELSE 0
    BY <1>2 DEF Balance, Bit
  <2>2. \A x \in Conn : listening'[x] = IF x = c THEN [t \in Topic |-> listening[c][t] + change(t)]
                                        ELSE listening[x]
    BY <1>5 DEF TypeOK
  <2>3. ASSUME NEW x \in Conn, NEW t \in Topic
        PROVE  listening'[x][t] = IF t \in topics'[x] THEN 1 ELSE 0
    <3>1. CASE x = c
      <4>1. listening'[x][t] = listening[c][t] + change(t)
        BY <2>2, <3>1
      <4> QED
        BY <1>6, <2>1, <3>1, <4>1
    <3>2. CASE x # c
      <4>1. listening'[x][t] = listening[x][t] /\ topics'[x] = topics[x]
        BY <1>6, <2>2, <3>2
      <4> QED
        BY <4>1 DEF Balance
    <3> QED
      BY <3>1, <3>2
  <2> QED
    BY <2>3
<1>9. listening' \in [Conn -> [Topic -> Nat]]
  <2>1. \A t \in Topic : listening[c][t] + change(t) \in Nat
    BY <1>2 DEF Balance, Bit
  <2>2. [t \in Topic |-> listening[c][t] + change(t)] \in [Topic -> Nat]
    BY <2>1
  <2> QED
    BY <1>5, <2>2 DEF TypeOK
<1>10. refs' \in [Topic -> Nat]
  BY <1>4, <1>7
<1>11. Balance'
  BY <1>7, <1>8 DEF Balance
<1> QED
  BY <1>6, <1>9, <1>10, <1>11 DEF T

-----------------------------------------------------------------------------
\* A loop that goes on, or ends, keeps the invariant.
LEMMA GoesOnKeeps ==
  ASSUME Inv, NEW c \in Conn, NEW l \in Loop, NEW left \in SUBSET topics[c],
         NEW got \in SUBSET Topic, NEW rest \in SUBSET Topic, GoesOn(c, l, left, got, rest),
         UNCHANGED <<follower, socket, conns, cut>>,
         \A m \in Loop : m # l /\ loop[c][m].current => loop[c][m].awaits \notin left,
         \A t \in topics[c] \ left :
           t \in got \/ \E m \in Loop : m # l /\ loop[c][m].awaits = t /\ loop[c][m].current,
         c \notin conns /\ c \notin cut => rest = {}
  PROVE  Inv'
<1> DEFINE held == topics[c] \ left
<1>0. TypeOK /\ loop \in [Conn -> [Loop -> LoopState]] /\ held \in SUBSET Topic
  BY DEF Inv, TypeOK, LoopState
<1>1. ASSUME NEW joined \in SUBSET Topic, joined \cap held = {}, Holds(c, left, joined),
             NEW r \in LoopState, loop' = [loop EXCEPT ![c][l] = r],
             NEW answers \in SUBSET Topic, answered' = [answered EXCEPT ![c] = answers],
             got \subseteq answers,
             r.current => r.awaits \in joined,
             \A t \in joined : t \in answers \/ (r.current /\ r.awaits = t),
             c \notin conns /\ c \notin cut => joined = {} /\ r.rest = {} /\ ~r.current
      PROVE  Inv'
  <2>1. /\ Balance'
        /\ topics' \in [Conn -> SUBSET Topic]
        /\ listening' \in [Conn -> [Topic -> Nat]]
        /\ refs' \in [Topic -> Nat]
        /\ \A x \in Conn : topics'[x] = IF x = c THEN held \cup joined ELSE topics[x]
    <3>1. Balance /\ joined \cap (topics[c] \ left) = {}
      BY <1>1 DEF Inv
    <3>2. TypeOK /\ Holds(c, left, joined) /\ left \in SUBSET topics[c] /\ joined \in SUBSET Topic
      BY <1>0, <1>1
    <3> HIDE DEF held
    <3>3. /\ Balance'
          /\ topics' \in [Conn -> SUBSET Topic]
          /\ listening' \in [Conn -> [Topic -> Nat]]
          /\ refs' \in [Topic -> Nat]
          /\ \A x \in Conn :
               topics'[x] = IF x = c THEN (topics[c] \ left) \cup joined ELSE topics[x]
      BY <3>1, <3>2, HoldsKeeps
    <3> QED
      BY <3>3 DEF held
  <2>2. /\ loop' \in [Conn -> [Loop -> LoopState]]
        /\ \A x \in Conn, m \in Loop : loop'[x][m] = IF x = c /\ m = l THEN r ELSE loop[x][m]
    <3> DEFINE f == [loop[c] EXCEPT ![l] = r]
    <3>1. f \in [Loop -> LoopState] /\ \A m \in Loop : f[m] = IF m = l THEN r ELSE loop[c][m]
      BY <1>0, <1>1
    <3>2. loop' = [loop EXCEPT ![c] = f]
      BY <1>1
    <3> HIDE DEF f
    <3> QED
      BY <1>0, <3>1, <3>2
  <2>3. /\ answered' \in [Conn -> SUBSET Topic]
        /\ \A x \in Conn : answered'[x] = IF x = c THEN answers ELSE answered[x]
    BY <1>0, <1>1 DEF TypeOK
  <2>4. TypeOK'
    BY <1>0, <2>1, <2>2, <2>3 DEF TypeOK, LoopState
  <2> HIDE DEF held
  <2>5. Owned'
    <3> SUFFICES ASSUME NEW x \in Conn, NEW k \in Loop, loop'[x][k].current
                 PROVE  /\ loop'[x][k].awaits \in topics'[x]
                        /\ \A m \in Loop : loop'[x][m].current /\ loop'[x][m].awaits = loop'[x][k].awaits
                             => m = k
      BY DEF Owned
    <3>1. CASE x # c
      <4>1. topics'[x] = topics[x] /\ \A m \in Loop : loop'[x][m] = loop[x][m]
        BY <2>1, <2>2, <3>1
      <4> QED
        BY <4>1 DEF Inv, Owned
    <3>2. CASE x = c
      <4>1. \A m \in Loop : m # l /\ loop[c][m].current => loop[c][m].awaits \in held
        BY DEF Inv, Owned, held
      <4>2. r.current => r.awaits \notin held
        BY <1>1
      <4> QED
        BY <1>1, <2>1, <2>2, <3>2, <4>1, <4>2 DEF Inv, Owned
    <3> QED
      BY <3>1, <3>2
  <2>6. GoneIsBare'
    <3>1. \A x \in conns' : socket'[x] = "open"
      BY DEF Inv, GoneIsBare
    <3>2. ASSUME NEW x \in Conn, x \notin conns, x \notin cut
          PROVE  topics'[x] = {} /\ \A m \in Loop : loop'[x][m].rest = {} /\ ~loop'[x][m].current
      <4>1. topics[x] = {} /\ \A m \in Loop : loop[x][m].rest = {} /\ ~loop[x][m].current
        BY <3>2 DEF Inv, GoneIsBare
      <4>2. CASE x = c
        BY <1>1, <2>1, <2>2, <3>2, <4>1, <4>2 DEF held
      <4>3. CASE x # c
        <5>1. topics'[x] = topics[x]
          BY <2>1, <4>3
        <5>2. \A m \in Loop : loop'[x][m] = loop[x][m]
          BY <2>2, <4>3
        <5> QED
          BY <4>1, <5>1, <5>2
      <4> QED
        BY <4>2, <4>3
    <3> QED
      BY <3>1, <3>2 DEF GoneIsBare
  <2>7. NoSilentTopic'
    <3> SUFFICES ASSUME NEW x \in Conn, NEW t \in topics'[x]
                 PROVE  \/ t \in answered'[x]
                        \/ \E m \in Loop : loop'[x][m].awaits = t /\ loop'[x][m].current
      BY DEF NoSilentTopic
    <3>1. CASE x # c
      <4>1. /\ t \in topics[x] /\ answered'[x] = answered[x]
            /\ \A m \in Loop : loop'[x][m] = loop[x][m]
        BY <2>1, <2>2, <2>3, <3>1
      <4> QED
        BY <4>1 DEF Inv, NoSilentTopic
    <3>2. CASE x = c /\ t \in joined
      BY <1>1, <2>2, <2>3, <3>2
    <3>3. CASE x = c /\ t \in held
      BY <1>1, <2>2, <2>3, <3>3 DEF held
    <3> QED
      BY <2>1, <3>1, <3>2, <3>3
  <2> QED
    BY <2>1, <2>4, <2>5, <2>6, <2>7 DEF Inv
<1>2. Idle \in LoopState /\ Idle.rest = {} /\ ~Idle.current
  BY DEF Idle, LoopState
<1>3. CASE /\ Holds(c, left, {}) /\ answered' = [answered EXCEPT ![c] = got]
           /\ loop' = [loop EXCEPT ![c][l] = Idle]
  <2>1. {} \in SUBSET Topic /\ {} \cap held = {}
    OBVIOUS
  <2> HIDE DEF held
  <2> QED
    BY <1>1, <1>2, <1>3, <2>1
<1>4. ASSUME NEW t \in rest \ held, NEW passed \in SUBSET (rest \cap held), Holds(c, left, {t}),
             answered' = [answered EXCEPT ![c] = got],
             loop' = [loop EXCEPT ![c][l] =
               [awaits |-> t, rest |-> rest \ (passed \cup {t}), current |-> TRUE]]
      PROVE  Inv'
  <2> DEFINE r == [awaits |-> t, rest |-> rest \ (passed \cup {t}), current |-> TRUE]
  <2>1. r \in LoopState /\ r.current /\ r.awaits = t
    BY <1>4 DEF LoopState
  <2>2. loop' = [loop EXCEPT ![c][l] = r]
    BY <1>4
  <2>3. ~(c \notin conns /\ c \notin cut)
    BY <1>4
  <2>4. {t} \in SUBSET Topic /\ {t} \cap held = {}
    BY <1>4
  <2> HIDE DEF r, held
  <2> QED
    BY <1>1, <1>4, <2>1, <2>2, <2>3, <2>4
<1>5. ASSUME NEW taken \in SUBSET (rest \ held), ~(rest \subseteq held), Holds(c, left, taken),
             answered' = [answered EXCEPT ![c] = got \cup taken],
             loop' = [loop EXCEPT ![c][l] = Idle]
      PROVE  Inv'
  <2>1. ~(c \notin conns /\ c \notin cut)
    BY <1>5
  <2>2. taken \in SUBSET Topic /\ taken \cap held = {} /\ got \cup taken \in SUBSET Topic
    BY <1>5
  <2>3. got \subseteq got \cup taken /\ \A t \in taken : t \in got \cup taken
    OBVIOUS
  <2> DEFINE answers == got \cup taken
  <2> HIDE DEF held, answers
  <2>4. /\ taken \cap held = {} /\ answers \in SUBSET Topic /\ got \subseteq answers
        /\ \A t \in taken : t \in answers
    BY <2>2, <2>3 DEF answers
  <2>5. answered' = [answered EXCEPT ![c] = answers]
    BY <1>5 DEF answers
  <2> QED
    BY <1>1, <1>2, <1>5, <2>1, <2>2, <2>4, <2>5
<1> QED
  BY <1>3, <1>4, <1>5 DEF GoesOn

\* The end of an await keeps the invariant.
LEMMA ResumeKeeps == ASSUME Inv, NEW c \in Conn, NEW l \in Loop, Resume(c, l) PROVE Inv'
<1>1. /\ loop[c][l].rest \in SUBSET Topic /\ answered[c] \in SUBSET Topic
      /\ topics[c] \in SUBSET Topic
      /\ UNCHANGED <<follower, socket, conns, cut>>
  BY DEF Inv, TypeOK, Resume
<1>2. c \notin conns /\ c \notin cut => loop[c][l].rest = {}
  BY DEF Inv, GoneIsBare
<1>3. \A t \in topics[c] :
        t \in answered[c] \/ \E m \in Loop : loop[c][m].awaits = t /\ loop[c][m].current
  BY DEF Inv, NoSilentTopic
<1>4. loop[c][l].current =>
        /\ loop[c][l].awaits \in topics[c]
        /\ \A m \in Loop : m # l /\ loop[c][m].current => loop[c][m].awaits # loop[c][l].awaits
  BY DEF Inv, Owned
<1>5. CASE loop[c][l].current
           /\ GoesOn(c, l, {}, answered[c] \cup {loop[c][l].awaits}, loop[c][l].rest)
  <2> DEFINE got == answered[c] \cup {loop[c][l].awaits}
  <2>1. /\ got \in SUBSET Topic /\ {} \in SUBSET topics[c]
        /\ \A t \in topics[c] \ {} :
             t \in got \/ \E m \in Loop : m # l /\ loop[c][m].awaits = t /\ loop[c][m].current
    BY <1>1, <1>3, <1>4, <1>5
  <2> HIDE DEF got
  <2>2. GoesOn(c, l, {}, got, loop[c][l].rest)
    BY <1>5 DEF got
  <2> QED
    BY <1>1, <1>2, <2>1, <2>2, GoesOnKeeps
<1>6. CASE loop[c][l].current
           /\ GoesOn(c, l, {loop[c][l].awaits}, answered[c], loop[c][l].rest)
  <2> DEFINE left == {loop[c][l].awaits}
  <2>1. /\ left \in SUBSET topics[c]
        /\ \A m \in Loop : m # l /\ loop[c][m].current => loop[c][m].awaits \notin left
        /\ \A t \in topics[c] \ left :
             t \in answered[c]
               \/ \E m \in Loop : m # l /\ loop[c][m].awaits = t /\ loop[c][m].current
    BY <1>3, <1>4, <1>6
  <2>2. GoesOn(c, l, left, answered[c], loop[c][l].rest)
    BY <1>6
  <2> HIDE DEF left
  <2> QED
    BY <1>1, <1>2, <2>1, <2>2, GoesOnKeeps
<1>7. CASE ~loop[c][l].current /\ GoesOn(c, l, {}, answered[c], loop[c][l].rest)
  <2>1. /\ {} \in SUBSET topics[c]
        /\ \A t \in topics[c] \ {} :
             t \in answered[c]
               \/ \E m \in Loop : m # l /\ loop[c][m].awaits = t /\ loop[c][m].current
    BY <1>3, <1>7
  <2> QED
    BY <1>1, <1>2, <1>7, <2>1, GoesOnKeeps
<1> QED
  BY <1>5, <1>6, <1>7 DEF Resume, StillOurs, Dropped

\* So does the start of a loop.
LEMMA SubKeeps ==
  ASSUME Inv, NEW c \in Conn, NEW l \in Loop, NEW message \in SUBSET Topic, Sub(c, l, message)
  PROVE  Inv'
<1>1. /\ answered[c] \in SUBSET Topic /\ {} \in SUBSET topics[c] /\ c \in conns
      /\ GoesOn(c, l, {}, answered[c], message)
      /\ UNCHANGED <<follower, socket, conns, cut>> /\ ~loop[c][l].current
  BY DEF Sub, Inv, TypeOK, Idle
<1>2. \A t \in topics[c] \ {} :
        t \in answered[c]
          \/ \E m \in Loop : m # l /\ loop[c][m].awaits = t /\ loop[c][m].current
  BY <1>1 DEF Inv, NoSilentTopic
<1> QED
  BY <1>1, <1>2, GoesOnKeeps

\* Loops whose subscription is among those c forgets own it no more.
LoopsForget(c, gone) ==
    \A x \in Conn, m \in Loop :
      /\ loop'[x][m].awaits = loop[x][m].awaits /\ loop'[x][m].rest = loop[x][m].rest
      /\ loop'[x][m].current <=>
           (loop[x][m].current /\ (x = c => loop[x][m].awaits \notin gone))

\* What is left of a connection that forgets some of its topics.
LEMMA Forgotten ==
  ASSUME Inv, NEW c \in Conn, NEW gone \in SUBSET Topic, Forget(c, gone)
  PROVE  /\ Balance' /\ Owned' /\ NoSilentTopic'
         /\ topics' \in [Conn -> SUBSET Topic] /\ listening' \in [Conn -> [Topic -> Nat]]
         /\ refs' \in [Topic -> Nat] /\ answered' \in [Conn -> SUBSET Topic]
         /\ loop' \in [Conn -> [Loop -> LoopState]]
         /\ \A x \in Conn : topics'[x] = IF x = c THEN topics[c] \ gone ELSE topics[x]
         /\ LoopsForget(c, gone)
<1> DEFINE left == gone \cap topics[c]
           f == [m \in Loop |-> [loop[c][m] EXCEPT
                  !.current = loop[c][m].current /\ loop[c][m].awaits \notin gone]]
<1>1. /\ Balance'
      /\ topics' \in [Conn -> SUBSET Topic]
      /\ listening' \in [Conn -> [Topic -> Nat]]
      /\ refs' \in [Topic -> Nat]
      /\ \A x \in Conn : topics'[x] = IF x = c THEN (topics[c] \ left) \cup {} ELSE topics[x]
  <2>1. /\ TypeOK /\ Balance /\ left \in SUBSET topics[c] /\ Holds(c, left, {})
        /\ {} \in SUBSET Topic /\ {} \cap (topics[c] \ left) = {}
    BY DEF Inv, Forget, IfHeld
  <2> HIDE DEF left
  <2> QED
    BY <2>1, HoldsKeeps
<1>2. \A x \in Conn : topics'[x] = IF x = c THEN topics[c] \ gone ELSE topics[x]
  BY <1>1
<1>3. /\ answered' \in [Conn -> SUBSET Topic]
      /\ \A x \in Conn : answered'[x] = IF x = c THEN answered[c] \ gone ELSE answered[x]
  BY DEF Forget, Inv, TypeOK
<1>4. loop \in [Conn -> [Loop -> LoopState]] /\ loop' = [loop EXCEPT ![c] = f]
  BY DEF Forget, Inv, TypeOK, LoopState
<1>5. \A m \in Loop :
        /\ f[m] \in LoopState
        /\ f[m].awaits = loop[c][m].awaits /\ f[m].rest = loop[c][m].rest
        /\ f[m].current <=> (loop[c][m].current /\ loop[c][m].awaits \notin gone)
  <2> SUFFICES ASSUME NEW m \in Loop
               PROVE  /\ f[m] \in LoopState
                      /\ f[m].awaits = loop[c][m].awaits /\ f[m].rest = loop[c][m].rest
                      /\ f[m].current <=> (loop[c][m].current /\ loop[c][m].awaits \notin gone)
    OBVIOUS
  <2>1. loop[c][m] \in LoopState
    BY <1>4
  <2>2. f[m] = [loop[c][m] EXCEPT
                  !.current = loop[c][m].current /\ loop[c][m].awaits \notin gone]
    OBVIOUS
  <2> QED
    BY <2>1, <2>2 DEF LoopState
<1>6. f \in [Loop -> LoopState]
  BY <1>5
<1> HIDE DEF f
<1>7. /\ loop' \in [Conn -> [Loop -> LoopState]]
      /\ \A x \in Conn : loop'[x] = IF x = c THEN f ELSE loop[x]
  BY <1>4, <1>6
<1>8. LoopsForget(c, gone)
  <2>1. \A m \in Loop : loop[c][m].current \in BOOLEAN
    BY <1>4 DEF LoopState
  <2>2. ASSUME NEW x \in Conn, NEW m \in Loop
        PROVE  /\ loop'[x][m].awaits = loop[x][m].awaits /\ loop'[x][m].rest = loop[x][m].rest
               /\ loop'[x][m].current
                    <=> (loop[x][m].current /\ (x = c => loop[x][m].awaits \notin gone))
    <3>1. CASE x = c
      <4>1. loop'[x][m] = f[m]
        BY <1>7, <3>1
      <4> QED
        BY <1>5, <2>1, <3>1, <4>1
    <3>2. CASE x # c
      <4>1. loop'[x][m] = loop[x][m] /\ loop[x][m].current \in BOOLEAN
        BY <1>4, <1>7, <3>2 DEF LoopState
      <4> QED
        BY <3>2, <4>1
    <3> QED
      BY <3>1, <3>2
  <2> QED
    BY <2>2 DEF LoopsForget
<1>9. Owned'
  <2> SUFFICES ASSUME NEW x \in Conn, NEW k \in Loop, loop'[x][k].current
               PROVE  /\ loop'[x][k].awaits \in topics'[x]
                      /\ \A m \in Loop : loop'[x][m].current /\ loop'[x][m].awaits = loop'[x][k].awaits
                           => m = k
    BY DEF Owned
  <2>1. /\ loop[x][k].current /\ (x = c => loop[x][k].awaits \notin gone)
        /\ loop'[x][k].awaits = loop[x][k].awaits
    BY <1>8 DEF LoopsForget
  <2>2. loop[x][k].awaits \in topics[x]
    BY <2>1 DEF Inv, Owned
  <2>3. ASSUME NEW m \in Loop, loop'[x][m].current, loop'[x][m].awaits = loop'[x][k].awaits
        PROVE  m = k
    <3>1. loop[x][m].current /\ loop[x][m].awaits = loop[x][k].awaits
      BY <1>8, <2>1, <2>3 DEF LoopsForget
    <3> QED
      BY <2>1, <3>1 DEF Inv, Owned
  <2> QED
    BY <1>2, <2>1, <2>2, <2>3
<1>10. NoSilentTopic'
  <2> SUFFICES ASSUME NEW x \in Conn, NEW t \in topics'[x]
               PROVE  \/ t \in answered'[x]
                      \/ \E m \in Loop : loop'[x][m].awaits = t /\ loop'[x][m].current
    BY DEF NoSilentTopic
  <2>1. t \in topics[x] /\ (x = c => t \notin gone)
    BY <1>2
  <2>2. t \in answered[x] \/ \E m \in Loop : loop[x][m].awaits = t /\ loop[x][m].current
    BY <2>1 DEF Inv, NoSilentTopic
  <2>3. CASE t \in answered[x]
    BY <1>3, <2>1, <2>3
  <2>4. ASSUME NEW m \in Loop, loop[x][m].awaits = t, loop[x][m].current
        PROVE  loop'[x][m].awaits = t /\ loop'[x][m].current
    BY <1>8, <2>1, <2>4 DEF LoopsForget
  <2> QED
    BY <2>2, <2>3, <2>4
<1> QED
  BY <1>1, <1>2, <1>3, <1>7, <1>8, <1>9, <1>10

-----------------------------------------------------------------------------
\* Every step keeps the invariant.
LEMMA StepKeeps == Inv /\ [Next]_vars => Inv'
<1> SUFFICES ASSUME Inv, [Next]_vars PROVE Inv'
  OBVIOUS
<1>1. CASE ChangeRole
  BY <1>1 DEF ChangeRole, Inv, TypeOK, Balance, With, Owned, GoneIsBare, NoSilentTopic
<1>2. ASSUME NEW c \in Conn, Open(c) PROVE Inv'
  <2>1. TypeOK' /\ Balance' /\ Owned' /\ NoSilentTopic'
    BY <1>2 DEF Open, Inv, TypeOK, Balance, With, Owned, NoSilentTopic
  <2>2. GoneIsBare'
    BY <1>2 DEF Open, Inv, TypeOK, GoneIsBare
  <2> QED
    BY <2>1, <2>2 DEF Inv
<1>3. ASSUME NEW c \in Conn, Close(c) PROVE Inv'
  <2>1. topics[c] \in SUBSET Topic /\ Forget(c, topics[c])
    BY <1>3 DEF Close, Inv, TypeOK
  <2>2. TypeOK'
    <3>1. /\ topics' \in [Conn -> SUBSET Topic] /\ listening' \in [Conn -> [Topic -> Nat]]
          /\ refs' \in [Topic -> Nat] /\ answered' \in [Conn -> SUBSET Topic]
          /\ loop' \in [Conn -> [Loop -> LoopState]]
      BY <2>1, Forgotten
    <3>2. /\ follower' \in BOOLEAN /\ socket' \in [Conn -> {"new", "open", "closed"}]
          /\ conns' \in SUBSET Conn /\ cut' \in SUBSET Conn
      BY <1>3 DEF Close, Inv, TypeOK
    <3> QED
      BY <3>1, <3>2 DEF TypeOK, LoopState
  <2>3. GoneIsBare'
    <3>1. \A x \in conns' : socket'[x] = "open"
      BY <1>3 DEF Close, Inv, TypeOK, GoneIsBare
    <3>2. ASSUME NEW x \in Conn, x \notin conns', x \notin cut'
          PROVE  topics'[x] = {} /\ \A m \in Loop : loop'[x][m].rest = {} /\ ~loop'[x][m].current
      <4>1. CASE x = c
        <5>1. \A m \in Loop : loop[c][m].rest = {}
          BY <1>3, <3>2, <4>1 DEF Close
        <5>2. \A m \in Loop : loop[c][m].current => loop[c][m].awaits \in topics[c]
          BY DEF Inv, Owned
        <5> QED
          <6>1. topics'[c] = topics[c] \ topics[c]
            BY <2>1, Forgotten
          <6>2. ASSUME NEW m \in Loop PROVE loop'[c][m].rest = {} /\ ~loop'[c][m].current
            <7>1. \A d \in Conn, k \in Loop :
                    /\ loop'[d][k].rest = loop[d][k].rest
                    /\ loop'[d][k].current =>
                         loop[d][k].current /\ (d = c => loop[d][k].awaits \notin topics[c])
              <8>1. LoopsForget(c, topics[c])
                BY <2>1, Forgotten
              <8> QED
                BY <8>1 DEF LoopsForget
            <7> QED
              BY <5>1, <5>2, <7>1
          <6> QED
            BY <4>1, <6>1, <6>2
      <4>2. CASE x # c
        <5>1. x \notin conns /\ x \notin cut
          BY <1>3, <3>2, <4>2 DEF Close
        <5>2. topics[x] = {} /\ \A m \in Loop : loop[x][m].rest = {} /\ ~loop[x][m].current
          BY <5>1 DEF Inv, GoneIsBare
        <5>3. LoopsForget(c, topics[c]) /\ topics'[x] = topics[x]
          BY <2>1, <4>2, Forgotten
        <5>4. ASSUME NEW m \in Loop PROVE loop'[x][m].rest = {} /\ ~loop'[x][m].current
          <6>1. loop[x][m].rest = {} /\ ~loop[x][m].current
            BY <5>2
          <6>2. loop'[x][m].rest = loop[x][m].rest /\ (loop'[x][m].current => loop[x][m].current)
            BY <5>3 DEF LoopsForget
          <6> QED
            BY <6>1, <6>2
        <5> QED
          BY <5>2, <5>3, <5>4
      <4> QED
        BY <4>1, <4>2
    <3> QED
      BY <3>1, <3>2 DEF GoneIsBare
  <2> QED
    BY <2>1, <2>2, <2>3, Forgotten DEF Inv
<1>4. ASSUME NEW c \in Conn, NEW m \in Messages, Unsub(c, m) PROVE Inv'
  <2>1. m \in SUBSET Topic /\ Forget(c, m) /\ c \in conns
    BY <1>4 DEF Unsub, Messages
  <2>2. TypeOK'
    BY <1>4, <2>1, Forgotten DEF Unsub, Inv, TypeOK, LoopState
  <2>3. GoneIsBare'
    <3>1. ASSUME NEW x \in Conn, x \notin conns, x \notin cut
          PROVE  topics'[x] = {} /\ \A k \in Loop : loop'[x][k].rest = {} /\ ~loop'[x][k].current
      <4>1. x # c /\ topics[x] = {} /\ \A k \in Loop : loop[x][k].rest = {} /\ ~loop[x][k].current
        BY <2>1, <3>1 DEF Inv, GoneIsBare
      <4>2. LoopsForget(c, m) /\ topics'[x] = topics[x]
        BY <2>1, <4>1, Forgotten
      <4>3. ASSUME NEW k \in Loop PROVE loop'[x][k].rest = {} /\ ~loop'[x][k].current
        <5>1. loop[x][k].rest = {} /\ ~loop[x][k].current
          BY <4>1
        <5>2. loop'[x][k].rest = loop[x][k].rest /\ (loop'[x][k].current => loop[x][k].current)
          BY <4>2 DEF LoopsForget
        <5> QED
          BY <5>1, <5>2
      <4> QED
        BY <4>1, <4>2, <4>3
    <3> QED
      BY <1>4, <3>1 DEF Unsub, Inv, GoneIsBare
  <2> QED
    BY <2>1, <2>2, <2>3, Forgotten DEF Inv
<1>5. ASSUME NEW c \in Conn, NEW l \in Loop, NEW m \in Messages, Sub(c, l, m) PROVE Inv'
  BY <1>5, SubKeeps DEF Messages
<1>6. ASSUME NEW c \in Conn, NEW l \in Loop, Resume(c, l) PROVE Inv'
  BY <1>6, ResumeKeeps
<1>7. CASE UNCHANGED vars
  BY <1>7 DEF vars, Inv, TypeOK, Balance, With, Owned, GoneIsBare, NoSilentTopic
<1> QED
  BY <1>1, <1>2, <1>3, <1>4, <1>5, <1>6, <1>7 DEF Next

\* And it holds at first.
LEMMA InitOK == Init => Inv
<1> SUFFICES ASSUME Init PROVE Inv
  OBVIOUS
<1>1. Balance
  <2>1. \A t \in Topic : With(t) = {}
    BY DEF Init, With
  <2> QED
    BY <2>1, FS_EmptySet DEF Init, Balance
<1>2. TypeOK
  BY DEF Init, TypeOK, Idle
<1> QED
  BY <1>1, <1>2 DEF Init, Inv, Owned, GoneIsBare, NoSilentTopic, Idle

(* Connections, their topics, counts and loops keep their types.           *)
THEOREM TypeCorrect == Spec => []TypeOK
<1>1. Inv => TypeOK
  BY DEF Inv
<1> QED
  BY <1>1, InitOK, StepKeeps, PTL DEF Spec

(* Holds are balanced, and a connection that is gone holds nothing unless  *)
(* it closed while a message was being served (server.ts, subscribe,       *)
(* unsubscribe, teardown).                                                 *)
THEOREM HoldsCorrect == Spec => []HoldsBalance
<1>1. Inv => HoldsBalance
  BY DEF Inv, Balance, With, GoneIsBare, HoldsBalance, AllThrough
<1> QED
  BY <1>1, InitOK, StepKeeps, PTL DEF Spec

(* Every topic a connection holds was answered with a first frame or is    *)
(* awaiting it (server.ts, subscribe).                                     *)
THEOREM TopicsAnswered == Spec => []NoSilentTopic
<1>1. Inv => NoSilentTopic
  BY DEF Inv
<1> QED
  BY <1>1, InitOK, StepKeeps, PTL DEF Spec

-----------------------------------------------------------------------------
Frame == Snap \cup Q

(* What the numbers of frames are measured by: the number of takeovers, the *)
(* leader with the number and the rows it has sent, and the q frames that   *)
(* are under way or queued.                                                 *)
Content(w) == {w[i] : i \in 1..Len(w)}
Flying == (UNION {Content(wire[g]) : g \in Gateway}) \cup (UNION {Content(tab[b].queue) : b \in Browser})
Now == [term |-> takeovers, lead |-> leader,
        number |-> IF leader = Nothing THEN 0 ELSE seq[leader],
        flushed |-> IF leader = Nothing THEN 0 ELSE Flushed,
        deltas |-> {f \in Flying : f.t = "q"}]
Out == IF leader = Nothing THEN <<>> ELSE wire[leader]

(* Rows x include the q frame f if their number says so, and all that f     *)
(* builds on if f may be the next.                                          *)
Covers(x, f) ==
    /\ f.seq <= x.seq => f.ver <= x.ver
    /\ f.seq <= x.seq + 1 => f.from <= x.ver

(* The number of rows or of a frame tells the truth: about the q frames of  *)
(* its own term, and about the leader if they are his.  Nothing here        *)
(* depends on the order of frames and writes.                               *)
Honest(c, x) ==
    /\ x.seq \in Nat \cup {-1} /\ x.ver \in Version /\ x.term \in Term \cup {Nothing}
    /\ x.term # Nothing => x.term <= c.term
    /\ \A f \in c.deltas : x.term = f.term => Covers(x, f)
    /\ c.lead # Nothing /\ x.term = c.term =>
         x.seq <= c.number /\ (x.seq = c.number => x.ver >= c.flushed)

(* A q frame goes forward and is not ahead of the leader.                   *)
Forward(c, f) ==
    /\ f.from <= f.ver
    /\ c.lead # Nothing /\ f.term = c.term => f.ver <= c.flushed

GoodFrame(c, f) == f \in Frame /\ f.term # Nothing /\ Honest(c, f) /\ (f.t = "q" => Forward(c, f))

DeltaOn(w, n) == \E f \in Content(w) : f.t = "q" /\ f.seq = n
Announced(c, w) == \E f \in Content(w) : f.t = "snap" /\ f.term = c.term

(* Before the first takeover every frame that the leader has under way is   *)
(* followed by all q frames above it, and nothing else is under way.        *)
WireInv(c, w) ==
    c.term = 0 /\ c.lead # Nothing =>
      \A i \in 1..Len(w) : \A n \in 1..c.number : n > w[i].seq =>
        \E j \in (i + 1)..Len(w) : w[j].t = "q" /\ w[j].seq = n
Alone(c) ==
    c.term = 0 /\ c.lead # Nothing => \A g \in Gateway : g # c.lead => wire[g] = <<>>

(* The stored entry and the writes to it that are under way are honest;     *)
(* only the leader has changes to flush.                                    *)
Stored(c, x) == x # Nothing => x \in Snap /\ Honest(c, x)
FeedInv(c) ==
    /\ Stored(c, store) /\ \A g \in Gateway : Stored(c, put[g])
    /\ leader = Nothing => takeovers < MaxChanges
    /\ \A g \in Gateway : g # leader => batch[g] = Nothing
    /\ \A g \in Gateway : cache[g] <= venue /\ (batch[g] # Nothing => batch[g] <= cache[g])

(* What a tab waits for, and which of the fields of its subscription are    *)
(* then in use.                                                             *)
Shape(t) ==
    /\ t.sub = "waiting" => ~t.full /\ ~t.stalled /\ ~t.resyncing
    /\ t.resyncing => ~t.full /\ ~t.stalled
    /\ t.answer # Nothing => t.sub = "waiting"
    /\ t.resync # Nothing => t.resyncing
    /\ t.queue # <<>> => t.sub = "waiting"
    /\ t.sub = "live" => t.seq # -1

(* Rows of one leader are whole.                                            *)
Unmixed(t) == t.term # Nothing => t.whole

(* What a browser shows is the leader's unless it was told before, or has   *)
(* not heard, that he leads; else his announcement is under way, or the     *)
(* rows are about to be replaced.                                           *)
Told(c, t) == t.lost \/ t.aged \/ t.term = c.term
Reset(c, t, w) ==
    c.lead # Nothing =>
      Announced(c, w) \/ Told(c, t) \/ t.sub = "waiting" \/ t.stalled \/ t.resyncing

(* Before the first takeover, a browser on the leading gateway is always    *)
(* live and has, or has on its way, every frame sent since its number, if   *)
(* none was lost.                                                           *)
Nearby(c, t, w) ==
    c.term = 0 /\ c.lead # Nothing /\ t.home = c.lead =>
      /\ t.sub = "live" /\ ~t.resyncing /\ t.term = 0
      /\ ~t.stalled /\ ~t.lost => \A n \in 1..c.number : n > t.seq => DeltaOn(w, n)

TabInv(c, t, w) ==
    /\ t \in Tab /\ Shape(t)
    /\ Honest(c, t) /\ Unmixed(t)
    /\ Stored(c, t.answer) /\ Stored(c, t.resync)
    /\ Reset(c, t, w) /\ Nearby(c, t, w)

StreamInv ==
    /\ StreamTypeOK
    /\ FeedInv(Now)
    /\ \A f \in Flying : GoodFrame(Now, f)
    /\ WireInv(Now, Out) /\ Alone(Now)
    /\ \A b \in Browser : TabInv(Now, tab[b], Out)

(* From one state to a later one with the same terms and numbers, unless    *)
(* the leader has gone.                                                     *)
Calm(c, d) ==
    /\ d.term = c.term /\ d.deltas \subseteq c.deltas
    /\ d.lead # Nothing => d.lead = c.lead /\ d.number = c.number /\ d.flushed = c.flushed

Context == [term : Term, lead : Gateway \cup {Nothing}, number : Nat, flushed : Version,
            deltas : SUBSET Q]

-----------------------------------------------------------------------------
(* The parts of the invariant.                                             *)

\* What is measured has its types.
LEMMA NowType == StreamTypeOK => Now \in Context
<1> SUFFICES ASSUME StreamTypeOK PROVE Now \in Context
  OBVIOUS
<1>1. ASSUME NEW w \in Seq(Frame), NEW f \in Content(w) PROVE f \in Frame
  BY <1>1 DEF Content
<1>2. Flying \subseteq Frame
  <2>1. \A g \in Gateway : wire[g] \in Seq(Frame)
    BY DEF StreamTypeOK, Frame
  <2>2. \A b \in Browser : tab[b].queue \in Seq(Frame)
    BY DEF StreamTypeOK, Frame, Tab
  <2> QED
    BY <1>1, <2>1, <2>2 DEF Flying
<1>3. {f \in Flying : f.t = "q"} \in SUBSET Q
  BY <1>2 DEF Frame, Snap
<1>4. leader # Nothing => seq[leader] \in Nat /\ Flushed \in Version
  BY DEF StreamTypeOK, Flushed
<1>5. PICK n \in Nat : n = IF leader = Nothing THEN 0 ELSE seq[leader]
  BY <1>4
<1>6. 0 \in Version
  BY BoundAssumption DEF Version
<1>7. PICK v \in Version : v = IF leader = Nothing THEN 0 ELSE Flushed
  BY <1>4, <1>6
<1>8. takeovers \in Term /\ leader \in Gateway \cup {Nothing}
  BY DEF StreamTypeOK
<1> QED
  <2> DEFINE D == {f \in Flying : f.t = "q"}
  <2> HIDE DEF D
  <2>1. D \in SUBSET Q
    BY <1>3 DEF D
  <2>2. Now = [term |-> takeovers, lead |-> leader, number |-> n, flushed |-> v, deltas |-> D]
    BY <1>5, <1>7 DEF Now, D
  <2> QED
    BY <2>1, <2>2, <1>8 DEF Context

\* Rows stay honest while the numbers stand still.
LEMMA HonestCalm ==
  ASSUME NEW c, NEW d, Calm(c, d), NEW x, Honest(c, x)
  PROVE  Honest(d, x)
BY DEF Honest, Calm

\* And when a gateway takes the lead: they are of an earlier term.
LEMMA HonestTake ==
  ASSUME NEW c \in Context, NEW d, d.term = c.term + 1, d.deltas \subseteq c.deltas,
         NEW x, Honest(c, x)
  PROVE  Honest(d, x) /\ x.term # d.term
<1>1. c.term \in Nat
  BY BoundAssumption DEF Context, Term
<1>2. x.term # Nothing => x.term \in Nat /\ x.term < d.term
  BY <1>1 DEF Honest, Term
<1>3. x.term # d.term
  BY <1>1, <1>2, NothingAssumption
<1> QED
  BY <1>1, <1>2, <1>3 DEF Honest

\* Rows with the same number, version and term are as honest.
LEMMA HonestSame ==
  ASSUME NEW c, NEW x, Honest(c, x), NEW y,
         y.seq = x.seq, y.ver = x.ver, y.term = x.term
  PROVE  Honest(c, y)
BY DEF Honest, Covers

\* A frame on a sequence and the rest of it.
LEMMA Apart ==
  ASSUME NEW w \in Seq(Frame), w # <<>>
  PROVE  /\ Head(w) \in Frame /\ Tail(w) \in Seq(Frame)
         /\ Head(w) = w[1] /\ Len(w) \in Nat /\ Len(w) >= 1 /\ Len(Tail(w)) = Len(w) - 1
         /\ \A i \in 1..Len(Tail(w)) : Tail(w)[i] = w[i + 1]
BY DEF Frame

\* The same for a sequence with one more frame.
LEMMA Longer ==
  ASSUME NEW w \in Seq(Frame), NEW f \in Frame
  PROVE  /\ Append(w, f) \in Seq(Frame) /\ Len(w) \in Nat /\ Len(Append(w, f)) = Len(w) + 1
         /\ Append(w, f)[Len(w) + 1] = f
         /\ \A i \in 1..Len(w) : Append(w, f)[i] = w[i]
BY DEF Frame

\* What is on a sequence is the first frame and what is on the rest.
LEMMA HeadContent ==
  ASSUME NEW w \in Seq(Frame), w # <<>>
  PROVE  Head(w) \in Content(w) /\ Content(w) = {Head(w)} \cup Content(Tail(w))
<1>1. 1 \in 1..Len(w) /\ Head(w) = w[1]
  BY Apart
<1>2. \A i \in 1..Len(w) : i = 1 \/ (i - 1 \in 1..Len(Tail(w)) /\ w[i] = Tail(w)[i - 1])
  BY Apart
<1>3. \A i \in 1..Len(Tail(w)) : i + 1 \in 1..Len(w) /\ Tail(w)[i] = w[i + 1]
  BY Apart
<1>4. \A i \in 1..Len(w) : w[i] \in {Head(w)} \cup Content(Tail(w))
  BY <1>1, <1>2 DEF Content
<1>5. \A i \in 1..Len(Tail(w)) : Tail(w)[i] \in Content(w)
  BY <1>3 DEF Content
<1>6. Head(w) \in Content(w)
  BY <1>1 DEF Content
<1> QED
  BY <1>4, <1>5, <1>6 DEF Content

\* The same for a sequence with one more frame.
LEMMA MoreContent ==
  ASSUME NEW w \in Seq(Frame), NEW f \in Frame
  PROVE  Content(Append(w, f)) = Content(w) \cup {f}
<1>1. Len(w) + 1 \in 1..Len(Append(w, f)) /\ Append(w, f)[Len(w) + 1] = f
  BY Longer
<1>2. \A i \in 1..Len(Append(w, f)) : i = Len(w) + 1 \/ i \in 1..Len(w)
  BY Longer
<1>3. \A i \in 1..Len(w) : i \in 1..Len(Append(w, f)) /\ Append(w, f)[i] = w[i]
  BY Longer
<1> QED
  BY <1>1, <1>2, <1>3 DEF Content

\* A stored snapshot outlasts calm steps.
LEMMA StoredCalm ==
  ASSUME NEW c, NEW d, Calm(c, d), NEW x, Stored(c, x)
  PROVE  Stored(d, x)
BY HonestCalm DEF Stored

\* So does a tab's part of the invariant, if the leader's frames under way are the same.
LEMMA TabCalm ==
  ASSUME NEW c, NEW d, Calm(c, d), NEW t, NEW w, NEW v, d.lead # Nothing => v = w,
         TabInv(c, t, w)
  PROVE  TabInv(d, t, v)
<1>1. Honest(d, t) /\ Stored(d, t.answer) /\ Stored(d, t.resync)
  BY HonestCalm, StoredCalm DEF TabInv
<1>2. Reset(d, t, v)
  BY DEF TabInv, Reset, Told, Announced, Calm
<1>3. Nearby(d, t, v)
  BY DEF TabInv, Nearby, Calm
<1> QED
  BY <1>1, <1>2, <1>3 DEF TabInv

\* A frame more on the wire.
LEMMA TabLonger ==
  ASSUME NEW c, NEW t, NEW w \in Seq(Frame), NEW f \in Frame, TabInv(c, t, w)
  PROVE  TabInv(c, t, Append(w, f))
<1>1. Announced(c, w) => Announced(c, Append(w, f))
  BY MoreContent DEF Announced
<1>2. \A n : DeltaOn(w, n) => DeltaOn(Append(w, f), n)
  BY MoreContent DEF DeltaOn
<1>3. Reset(c, t, Append(w, f))
  BY <1>1 DEF TabInv, Reset
<1>4. Nearby(c, t, Append(w, f))
  BY <1>2 DEF TabInv, Nearby
<1> QED
  BY <1>3, <1>4 DEF TabInv

\* A wire's part outlasts calm steps.
LEMMA WireCalm ==
  ASSUME NEW c, NEW d, Calm(c, d), NEW w, NEW v, d.lead # Nothing => v = w, WireInv(c, w)
  PROVE  WireInv(d, v)
BY DEF WireInv, Calm

\* And the delivery of its first frame, which all q frames above it follow.
LEMMA WireTail ==
  ASSUME NEW c, NEW w \in Seq(Frame), w # <<>>, WireInv(c, w)
  PROVE  /\ WireInv(c, Tail(w))
         /\ c.term = 0 /\ c.lead # Nothing =>
              \A n \in 1..c.number : n > Head(w).seq => DeltaOn(Tail(w), n)
<1> SUFFICES ASSUME c.term = 0, c.lead # Nothing
             PROVE  /\ WireInv(c, Tail(w))
                    /\ \A n \in 1..c.number : n > Head(w).seq => DeltaOn(Tail(w), n)
  BY DEF WireInv
<1>1. ASSUME NEW i \in 0..Len(Tail(w)), NEW j \in (i + 2)..Len(w)
      PROVE  j - 1 \in (i + 1)..Len(Tail(w)) /\ Tail(w)[j - 1] = w[j]
  BY <1>1, Apart
<1>2. \A i \in 1..Len(Tail(w)) : Tail(w)[i] = w[i + 1] /\ i + 1 \in 1..Len(w)
  BY Apart
<1>3. ASSUME NEW i \in 1..Len(Tail(w)), NEW n \in 1..c.number, n > Tail(w)[i].seq
      PROVE  \E j \in (i + 1)..Len(Tail(w)) : Tail(w)[j].t = "q" /\ Tail(w)[j].seq = n
  <2>1. PICK j \in ((i + 1) + 1)..Len(w) : w[j].t = "q" /\ w[j].seq = n
    BY <1>2, <1>3 DEF WireInv
  <2>2. j \in (i + 2)..Len(w)
    BY <2>1
  <2> QED
    BY <1>1, <2>1, <2>2
<1>4. ASSUME NEW n \in 1..c.number, n > Head(w).seq
      PROVE  DeltaOn(Tail(w), n)
  <2>1. PICK j \in (1 + 1)..Len(w) : w[j].t = "q" /\ w[j].seq = n
    <3>1. 1 \in 1..Len(w) /\ Head(w) = w[1]
      BY Apart
    <3> QED
      BY <1>4, <3>1 DEF WireInv
  <2>2. j \in (0 + 2)..Len(w) /\ 0 \in 0..Len(Tail(w))
    BY <2>1, Apart
  <2>3. j - 1 \in (0 + 1)..Len(Tail(w)) /\ Tail(w)[j - 1] = w[j]
    BY <1>1, <2>2
  <2>4. j - 1 \in 1..Len(Tail(w))
    BY <2>3
  <2> QED
    BY <2>1, <2>3, <2>4 DEF DeltaOn, Content
<1> QED
  BY <1>3, <1>4 DEF WireInv

\* A frame more from the leader: a snapshot under his number, or the next q frame.
LEMMA WireLonger ==
  ASSUME NEW c, NEW d, c.number \in Nat, d.number \in Nat, NEW w \in Seq(Frame), NEW f \in Frame,
         WireInv(c, w), d.term = 0 => c.term = 0 /\ c.lead # Nothing,
         d.number # c.number => d.number = c.number + 1 /\ f.t = "q",
         f.seq = d.number
  PROVE  WireInv(d, Append(w, f))
<1> DEFINE v == Append(w, f)
<1>0. /\ Len(w) \in Nat /\ Len(v) = Len(w) + 1 /\ v[Len(v)] = f /\ Len(v) \in Nat
      /\ \A i \in 1..Len(w) : v[i] = w[i]
  BY Longer
<1> HIDE DEF v
<1>2. ASSUME d.term = 0, d.lead # Nothing, NEW i \in 1..Len(v),
             NEW n \in 1..d.number, n > v[i].seq
      PROVE  \E j \in (i + 1)..Len(v) : v[j].t = "q" /\ v[j].seq = n
  <2>0. d.number \in Nat /\ c.number \in Nat
    OBVIOUS
  <2>1. i \in 1..Len(w) /\ f.seq \in Nat
    <3>1. i = Len(v) => v[i].seq >= d.number /\ v[i].seq \in Nat
      BY <1>0, <1>2 DEF Frame, Snap, Q
    <3>2. f.seq \in Nat
      BY DEF Frame, Snap, Q
    <3> QED
      BY <1>0, <1>2, <2>0, <3>1, <3>2
  <2>2. CASE n \in 1..c.number
    <3>1. PICK j \in (i + 1)..Len(w) : w[j].t = "q" /\ w[j].seq = n
      BY <1>0, <1>2, <2>1, <2>2 DEF WireInv
    <3>2. j \in (i + 1)..Len(v) /\ j \in 1..Len(w)
      BY <1>0, <2>1, <3>1
    <3> QED
      BY <1>0, <3>1, <3>2
  <2>3. CASE n \notin 1..c.number
    <3>1. d.number # c.number
      BY <1>2, <2>3
    <3>2. f.t = "q" /\ d.number = c.number + 1
      BY <1>2, <3>1
    <3>3. n = d.number
      BY <2>0, <2>3, <3>2
    <3>4. Len(v) \in (i + 1)..Len(v)
      BY <1>0, <2>1
    <3>5. f.seq = d.number
      OBVIOUS
    <3> QED
      BY <1>0, <3>2, <3>3, <3>4, <3>5
  <2> QED
    BY <2>2, <2>3
<1> QED
  BY <1>2 DEF WireInv, v

-----------------------------------------------------------------------------
(* What the functions on a tab make of it.                                 *)

Mid == [home : Gateway, sub : {"waiting", "live", "stale"}, queue : Seq(Frame),
        answer : Snap \cup {Nothing}, full : BOOLEAN, stalled : BOOLEAN,
        resyncing : BOOLEAN, resync : Snap \cup {Nothing},
        seq : Nat \cup {-1}, ver : Version, term : Term \cup {Nothing}, whole : BOOLEAN,
        lost : BOOLEAN, aged : BOOLEAN]

(* Nothing but the rows differs, and the rows are the same.                 *)
SameWait(n, r) ==
    /\ n.home = r.home /\ n.queue = r.queue /\ n.answer = r.answer
    /\ n.full = r.full /\ n.stalled = r.stalled
    /\ n.resyncing = r.resyncing /\ n.resync = r.resync
SameLink(n, r) == SameWait(n, r) /\ n.sub = r.sub
SameRows(n, x) == n.seq = x.seq /\ n.ver = x.ver /\ n.term = x.term
SameView(n, r) == SameRows(n, r) /\ n.whole = r.whole /\ n.aged = r.aged

Bare(t) ==
    t.queue = <<>> /\ t.answer = Nothing /\ ~t.full /\ ~t.stalled /\ ~t.resyncing /\ t.resync = Nothing

\* A tab is what a function makes of a tab with rows that are not stale.
LEMMA MidTab == \A t : t \in Tab <=> t \in Mid /\ t.sub # "stale"
BY DEF Tab, Mid, Frame

\* A snapshot replaces the rows and nothing else.
LEMMA SnapShown ==
  ASSUME NEW r \in Mid, NEW f \in Snap, NEW n, n = ShowSnap(r, f)
  PROVE  /\ n \in Mid /\ SameLink(n, r) /\ SameRows(n, f) /\ n.whole /\ ~n.lost
         /\ n.aged = (f.term # takeovers)
<1>1. PICK a \in BOOLEAN : a = (f.term # takeovers)
  OBVIOUS
<1>2. n = [r EXCEPT !.seq = f.seq, !.ver = f.ver, !.term = f.term, !.whole = TRUE,
                    !.lost = FALSE, !.aged = a]
  BY <1>1 DEF ShowSnap
<1> QED
  BY <1>1, <1>2 DEF Mid, Snap, SameLink, SameWait, SameRows

\* So does a stored one, but what was lost meanwhile is still lost.
LEMMA StoredShown ==
  ASSUME NEW r \in Mid, NEW f \in Snap, NEW n, n = ShowStored(r, f)
  PROVE  /\ n \in Mid /\ SameLink(n, r) /\ SameRows(n, f) /\ n.whole
         /\ n.aged = (f.term # takeovers)
<1>1. PICK m : m = ShowSnap(r, f)
  OBVIOUS
<1>2. /\ m \in Mid /\ SameLink(m, r) /\ SameRows(m, f) /\ m.whole
      /\ m.aged = (f.term # takeovers)
  BY <1>1, SnapShown
<1>3. PICK b \in BOOLEAN : b = r.lost
  BY DEF Mid
<1>4. n = [m EXCEPT !.lost = b]
  BY <1>1, <1>3 DEF ShowStored
<1>5. n \in Mid
  BY <1>2, <1>4 DEF Mid
<1>6. SameLink(n, m) /\ SameRows(n, m) /\ n.whole = m.whole /\ n.aged = m.aged
  BY <1>2, <1>4 DEF Mid, SameLink, SameWait, SameRows
<1> QED
  BY <1>2, <1>5, <1>6 DEF SameLink, SameWait, SameRows

\* The rows of the leader are a snapshot.
LEMMA SnapOfType ==
  ASSUME StreamTypeOK, NEW g \in Gateway
  PROVE  /\ SnapOf(g) \in Snap
         /\ SnapOf(g).seq = seq[g] /\ SnapOf(g).ver = cache[g] /\ SnapOf(g).term = takeovers
BY DEF SnapOf, Snap, StreamTypeOK

\* A subscription starts afresh, with rows of the leader or with those there were.
LEMMA Subscribed ==
  ASSUME StreamTypeOK, NEW r \in Mid, NEW g \in Gateway, NEW n, n = Subscribe(r, g)
  PROVE  /\ n \in Tab /\ n.home = g /\ Bare(n)
         /\ g = leader => n.sub = "live" /\ SameRows(n, SnapOf(g)) /\ n.whole
         /\ g # leader => n.sub = "waiting" /\ SameRows(n, r) /\ n.whole = r.whole
<1>1. PICK m : m = [r EXCEPT !.home = g, !.sub = "waiting", !.queue = <<>>, !.answer = Nothing,
                         !.full = FALSE, !.stalled = FALSE, !.resyncing = FALSE,
                         !.resync = Nothing, !.lost = FALSE]
  OBVIOUS
<1>2. m \in Mid
  <2>1. PICK e : e = <<>>
    OBVIOUS
  <2>2. e \in Seq(Frame)
    BY <2>1
  <2>3. m = [r EXCEPT !.home = g, !.sub = "waiting", !.queue = e, !.answer = Nothing,
                      !.full = FALSE, !.stalled = FALSE, !.resyncing = FALSE,
                      !.resync = Nothing, !.lost = FALSE]
    BY <1>1, <2>1
  <2> QED
    BY <2>2, <2>3 DEF Mid
<1>3. m.home = g /\ m.sub = "waiting" /\ Bare(m) /\ SameRows(m, r) /\ m.whole = r.whole
  BY <1>1 DEF Mid, Bare, SameRows
<1>4. CASE g = leader
  <2>1. PICK l : l = [m EXCEPT !.sub = "live"]
    OBVIOUS
  <2>2. l \in Mid /\ l.sub = "live" /\ l.home = g /\ Bare(l)
    BY <1>2, <1>3, <2>1 DEF Mid, Bare
  <2>3. n = ShowSnap(l, SnapOf(g))
    BY <1>1, <1>4, <2>1 DEF Subscribe
  <2>4. n \in Mid /\ SameLink(n, l) /\ SameRows(n, SnapOf(g)) /\ n.whole
    BY <2>2, <2>3, SnapOfType, SnapShown
  <2>5. n.sub = "live" /\ n.home = g /\ Bare(n)
    BY <2>2, <2>4 DEF SameLink, SameWait, Bare
  <2> QED
    BY <1>4, <2>4, <2>5, MidTab
<1>5. CASE g # leader
  <2>1. n = m
    BY <1>1, <1>5 DEF Subscribe
  <2> QED
    BY <1>2, <1>3, <1>5, <2>1, MidTab
<1> QED
  BY <1>4, <1>5

\* What is measured, field by field.
LEMMA NowFields ==
  /\ Now.term = takeovers /\ Now.lead = leader
  /\ leader # Nothing => Now.number = seq[leader] /\ Now.flushed = Flushed
  /\ Now.deltas = {f \in Flying : f.t = "q"}
BY DEF Now

\* Rows under the leader's number are honest if they have all that its gateway knows.
LEMMA RowsHonest ==
  ASSUME StreamInv, leader # Nothing, NEW x \in Snap,
         x.seq = seq[leader], x.ver >= cache[leader], x.term = takeovers
  PROVE  Honest(Now, x)
<1>1. StreamTypeOK /\ leader \in Gateway /\ Now \in Context
  BY NowType DEF StreamInv, StreamTypeOK
<1>2. Now.flushed <= x.ver /\ Now.flushed \in Nat /\ x.ver \in Nat
  <2>1. cache[leader] \in Nat /\ x.ver \in Nat
    BY <1>1 DEF StreamTypeOK, Version, Snap
  <2>2. Now.flushed = IF batch[leader] = Nothing THEN cache[leader] ELSE batch[leader]
    BY NowFields DEF Flushed
  <2>3. batch[leader] # Nothing => batch[leader] <= cache[leader]
    BY <1>1 DEF StreamInv, FeedInv
  <2>4. Now.flushed \in Nat
    BY <1>1 DEF Context, Version
  <2> QED
    BY <2>1, <2>2, <2>3, <2>4
<1>3. ASSUME NEW f \in Now.deltas, x.term = f.term
      PROVE  Covers(x, f)
  <2>1. f \in Flying /\ f.t = "q" /\ f \in Q
    BY <1>1, <1>3, NowFields DEF Context
  <2>2. Forward(Now, f)
    BY <2>1 DEF StreamInv, GoodFrame
  <2>3. f.ver <= Now.flushed /\ f.from <= f.ver
    BY <1>3, <2>2, NowFields DEF Forward
  <2>4. f.ver \in Nat /\ f.from \in Nat
    BY <2>1 DEF Q, Version
  <2> QED
    BY <1>2, <2>3, <2>4 DEF Covers
<1>4. x.seq = Now.number /\ x.term = Now.term /\ x.seq \in Nat
  BY <1>1, NowFields DEF StreamTypeOK
<1>5. x.seq \in Nat \cup {-1} /\ x.ver \in Version /\ x.term \in Term \cup {Nothing}
  BY DEF Snap
<1>6. Now.term \in Nat
  BY <1>1, BoundAssumption DEF Context, Term
<1> QED
  BY <1>2, <1>3, <1>4, <1>5, <1>6 DEF Honest

\* What the leader answers is honest.
LEMMA LeaderHonest ==
  ASSUME StreamInv, leader # Nothing
  PROVE  Honest(Now, SnapOf(leader))
<1>1. StreamTypeOK /\ leader \in Gateway /\ cache[leader] \in Nat
  BY DEF StreamInv, StreamTypeOK, Version
<1>2. PICK x : x = SnapOf(leader)
  OBVIOUS
<1>3. x \in Snap /\ x.seq = seq[leader] /\ x.ver = cache[leader] /\ x.term = takeovers
  BY <1>1, <1>2, SnapOfType
<1>4. x.ver >= cache[leader]
  BY <1>1, <1>3
<1> QED
  BY <1>2, <1>3, <1>4, RowsHonest

\* Rows just got from the leader need nothing more.
LEMMA LeaderShown ==
  ASSUME StreamInv, leader # Nothing, NEW n \in Tab, n.home = leader, n.sub = "live", Bare(n),
         SameRows(n, SnapOf(leader)), n.whole, NEW w
  PROVE  TabInv(Now, n, w)
<1>1. Honest(Now, n)
  BY LeaderHonest, HonestSame DEF SameRows
<1>2. n.seq = Now.number /\ n.term = Now.term /\ n.seq \in Nat
  BY SnapOfType, NowFields DEF SameRows, StreamInv, StreamTypeOK
<1>3. Shape(n)
  BY <1>2 DEF Shape, Bare
<1>4. Reset(Now, n, w) /\ Nearby(Now, n, w)
  BY <1>2 DEF Reset, Told, Nearby, Bare
<1> QED
  BY <1>1, <1>3, <1>4 DEF TabInv, Unmixed, Stored, Bare

\* A subscription keeps the invariant, whatever is on the wire.
LEMMA SubscribeInv ==
  ASSUME StreamInv, NEW r \in Mid, Honest(Now, r), Unmixed(r), NEW g \in Gateway, NEW w,
         NEW n, n = Subscribe(r, g)
  PROVE  TabInv(Now, n, w) /\ n.queue = <<>> /\ n.home = g
<1>1. /\ n \in Tab /\ n.home = g /\ Bare(n)
      /\ g = leader => n.sub = "live" /\ SameRows(n, SnapOf(g)) /\ n.whole
      /\ g # leader => n.sub = "waiting" /\ SameRows(n, r) /\ n.whole = r.whole
  BY Subscribed DEF StreamInv
<1>2. n.queue = <<>>
  BY <1>1 DEF Bare
<1>3. CASE g = leader
  <2>1. leader # Nothing
    BY <1>3, NothingAssumption
  <2> QED
    BY <1>1, <1>2, <1>3, <2>1, LeaderShown
<1>4. CASE g # leader
  <2>1. Honest(Now, n)
    BY <1>1, <1>4, HonestSame DEF SameRows
  <2>2. Reset(Now, n, w)
    BY <1>1, <1>4 DEF Reset
  <2>3. Nearby(Now, n, w)
    BY <1>1, <1>4, NowFields DEF Nearby
  <2>4. Shape(n)
    BY <1>1, <1>4 DEF Shape, Bare
  <2>5. Unmixed(n)
    BY <1>1, <1>4 DEF Unmixed, SameRows
  <2> QED
    BY <1>1, <1>2, <2>1, <2>2, <2>3, <2>4, <2>5 DEF TabInv, Stored, Bare
<1> QED
  BY <1>3, <1>4

\* So does a resync of a connection that has drained.
LEMMA ResyncInv ==
  ASSUME StreamInv, NEW r \in Tab, r.sub = "live", ~r.full, ~r.resyncing, r.resync = Nothing,
         r.answer = Nothing, r.queue = <<>>, r.seq # -1,
         Honest(Now, r), Unmixed(r), NEW w, NEW n, n = Resync(r)
  PROVE  TabInv(Now, n, w) /\ n.queue = <<>> /\ n.home = r.home
<1>1. CASE r.home = leader
  <2>1. PICK m : m = [r EXCEPT !.stalled = FALSE]
    OBVIOUS
  <2>2. m \in Mid /\ Bare(m) /\ m.home = leader /\ m.sub = "live"
    <3>1. r \in Mid
      BY MidTab
    <3> QED
      BY <1>1, <2>1, <3>1 DEF Mid, Bare
  <2>3. leader \in Gateway /\ leader # Nothing
    BY <1>1, NothingAssumption DEF Tab
  <2>4. n = ShowSnap(m, SnapOf(leader))
    BY <1>1, <2>1 DEF Resync
  <2>5. n \in Mid /\ SameLink(n, m) /\ SameRows(n, SnapOf(leader)) /\ n.whole
    BY <2>2, <2>3, <2>4, SnapShown, SnapOfType DEF StreamInv
  <2>6. n \in Tab /\ Bare(n) /\ n.home = leader /\ n.sub = "live" /\ n.queue = <<>>
    BY <2>2, <2>5, MidTab DEF SameLink, SameWait, Bare
  <2> QED
    BY <1>1, <2>3, <2>5, <2>6, LeaderShown
<1>2. CASE r.home # leader
  <2>1. n = [r EXCEPT !.stalled = FALSE, !.resyncing = TRUE, !.lost = FALSE]
    BY <1>2 DEF Resync
  <2>2. n \in Tab /\ SameRows(n, r) /\ n.whole = r.whole /\ n.home = r.home /\ n.sub = "live"
    BY <2>1 DEF Tab, SameRows
  <2>3. n.queue = <<>> /\ n.answer = Nothing /\ ~n.full /\ ~n.stalled /\ n.resyncing /\ n.resync = Nothing
    BY <2>1 DEF Tab
  <2>4. Honest(Now, n)
    BY <2>2, HonestSame DEF SameRows
  <2>5. Reset(Now, n, w)
    BY <2>3 DEF Reset
  <2>6. Nearby(Now, n, w)
    BY <1>2, <2>2, NowFields DEF Nearby
  <2>7. Shape(n)
    BY <2>2, <2>3 DEF Shape, SameRows
  <2>8. Unmixed(n)
    BY <2>2 DEF Unmixed, SameRows
  <2> QED
    BY <2>2, <2>3, <2>4, <2>5, <2>6, <2>7, <2>8 DEF TabInv, Stored
<1> QED
  BY <1>1, <1>2

\* A q frame is skipped, shows a gap, or is added: then the rows are as honest as before and
\* no more mixed, and whoever was told about the leader still is.
LEMMA DeltaShown ==
  ASSUME StreamInv, NEW r \in Mid, r.sub = "live", r.seq # -1, Honest(Now, r), Unmixed(r),
         NEW f \in Flying, f.t = "q", NEW n, n = ShowQ(r, f)
  PROVE  /\ n \in Mid /\ SameWait(n, r) /\ Honest(Now, n) /\ Unmixed(n) /\ n.seq \in Nat
         /\ Told(Now, r) => Told(Now, n)
         /\ \/ n = r /\ f.seq <= r.seq
            \/ n.sub = "stale"
            \/ n.sub = "live" /\ n.seq = f.seq /\ (r.term = f.term => n.term = f.term /\ ~n.lost)
<1>0. r.seq \in Nat /\ r.ver \in Nat /\ Now \in Context /\ Now.term = takeovers
  BY NowType, NowFields DEF Mid, Version, StreamInv
<1>1. f \in Q /\ f \in Now.deltas /\ f.term # Nothing /\ Honest(Now, f) /\ f.seq \in Nat
  BY NowFields, <1>0 DEF StreamInv, GoodFrame, Context, Q
<1>2. CASE f.seq <= r.seq
  <2>1. n = r
    BY <1>2 DEF ShowQ
  <2> QED
    BY <1>0, <1>2, <2>1 DEF SameWait
<1>3. CASE ~(f.seq <= r.seq) /\ f.seq # r.seq + 1
  <2>1. n = [r EXCEPT !.sub = "stale"]
    BY <1>3 DEF ShowQ
  <2>2. n \in Mid /\ SameWait(n, r) /\ n.sub = "stale" /\ SameView(n, r) /\ n.lost = r.lost
    BY <2>1 DEF Mid, SameRows, SameWait, SameView
  <2>3. Honest(Now, n) /\ Unmixed(n) /\ (Told(Now, r) => Told(Now, n))
    BY <2>2, HonestSame DEF SameRows, SameView, Unmixed, Told
  <2> QED
    BY <1>0, <2>2, <2>3 DEF SameView, SameRows
<1>4. CASE ~(f.seq <= r.seq) /\ f.seq = r.seq + 1
  <2>1. PICK v : v = IF r.ver < f.ver THEN f.ver ELSE r.ver
    OBVIOUS
  <2>2. PICK m : m = IF r.term = f.term THEN r.term ELSE Nothing
    OBVIOUS
  <2>3. PICK h \in BOOLEAN : h = (r.whole /\ r.ver >= f.from)
    OBVIOUS
  <2>4. PICK k \in BOOLEAN : k = (r.lost /\ r.term # f.term)
    OBVIOUS
  <2>5. PICK a \in BOOLEAN : a = (r.aged \/ f.term # takeovers)
    OBVIOUS
  <2>6. n = [r EXCEPT !.seq = f.seq, !.term = m, !.whole = h, !.ver = v, !.lost = k, !.aged = a]
    BY <1>0, <1>4, <2>1, <2>2, <2>3, <2>4, <2>5 DEF ShowQ, AddRows
  <2>7. v \in Version /\ v >= f.ver /\ v \in Nat /\ f.ver \in Nat
    BY <1>0, <1>1, <2>1 DEF Mid, Q, Version
  <2>8. m \in Term \cup {Nothing} /\ f.seq \in Nat \cup {-1}
    BY <1>1, <2>2 DEF Mid
  <2>9. n \in Mid
    BY <2>3, <2>4, <2>5, <2>6, <2>7, <2>8 DEF Mid
  <2>10. SameWait(n, r) /\ n.sub = "live"
    BY <2>6 DEF Mid, SameWait
  <2>11. n.seq = f.seq /\ n.term = m /\ n.whole = h /\ n.ver = v /\ n.lost = k /\ n.aged = a
    BY <2>6 DEF Mid
  <2>12. n.term # Nothing => n.term = f.term /\ r.term = f.term
    BY <2>2, <2>11
  <2>13. ASSUME NEW x \in Now.deltas, n.term = x.term
         PROVE  Covers(n, x)
    <3>1. x \in Q /\ x.term # Nothing
      BY <1>0, NothingAssumption, BoundAssumption DEF Context, Q, Term
    <3>2. f.term = x.term
      BY <2>12, <2>13, <3>1
    <3>3. Covers(f, x)
      BY <1>1, <3>2 DEF Honest
    <3>4. x.ver \in Nat /\ x.from \in Nat
      BY <3>1 DEF Q, Version
    <3> QED
      BY <2>7, <2>11, <3>3, <3>4 DEF Covers
  <2>14. Now.term \in Nat /\ Now.term # Nothing /\ Now.flushed \in Nat
    BY <1>0, NothingAssumption, BoundAssumption DEF Context, Term, Version
  <2>15. Honest(Now, n)
    <3>1. n.seq \in Nat \cup {-1} /\ n.ver \in Version /\ n.term \in Term \cup {Nothing}
      BY <2>9 DEF Mid
    <3>2. n.term # Nothing => n.term <= Now.term
      BY <1>1, <2>12 DEF Honest
    <3>3. Now.lead # Nothing /\ n.term = Now.term =>
            n.seq <= Now.number /\ (n.seq = Now.number => n.ver >= Now.flushed)
      BY <1>1, <2>7, <2>11, <2>12, <2>14 DEF Honest
    <3> QED
      BY <2>13, <3>1, <3>2, <3>3 DEF Honest
  <2>16. Unmixed(n)
    <3>1. r.term = f.term => r.whole /\ Covers(r, f)
      BY <1>1 DEF Honest, Unmixed
    <3>2. f.from \in Nat
      BY <1>1 DEF Q, Version
    <3>3. Covers(r, f) => r.ver >= f.from
      BY <1>0, <1>1, <1>4, <3>2 DEF Covers
    <3> QED
      BY <2>3, <2>11, <2>12, <3>1, <3>3 DEF Unmixed
  <2>17. r.term = f.term => n.term = f.term /\ ~n.lost
    BY <2>2, <2>4, <2>11
  <2>18. Told(Now, r) => Told(Now, n)
    <3>1. CASE f.term # takeovers
      BY <2>5, <2>11, <3>1 DEF Told
    <3>2. CASE f.term = takeovers
      BY <1>0, <2>4, <2>5, <2>11, <2>17, <3>2 DEF Told
    <3> QED
      BY <3>1, <3>2
  <2> QED
    BY <1>1, <2>9, <2>10, <2>11, <2>15, <2>16, <2>17, <2>18
<1> QED
  BY <1>2, <1>3, <1>4

\* What is under way from the leader after the next frame f came in: w before, v after.
Ahead(c, f, w, v) ==
    /\ Announced(c, w) => Announced(c, v) \/ (f.t = "snap" /\ f.term = c.term)
    /\ c.term = 0 /\ c.lead # Nothing =>
         /\ \A n : DeltaOn(w, n) => (f.t = "q" /\ f.seq = n) \/ DeltaOn(v, n)
         /\ \A n \in 1..c.number : n > f.seq => DeltaOn(v, n)

\* A frame handed to a connection keeps its tab's part of the invariant.
LEMMA ReceiveInv ==
  ASSUME StreamInv, NEW t, NEW w, TabInv(Now, t, w), NEW f \in Flying, NEW v, Ahead(Now, f, w, v),
         NEW n, n = Refresh(Receive(t, f))
  PROVE  /\ TabInv(Now, n, v) /\ n.home = t.home
         /\ n.queue \in {<<>>, t.queue, Append(t.queue, f)}
<1>1. /\ Now \in Context /\ t \in Tab /\ t \in Mid /\ Shape(t) /\ Honest(Now, t) /\ Unmixed(t)
      /\ Stored(Now, t.answer) /\ Stored(Now, t.resync) /\ Reset(Now, t, w) /\ Nearby(Now, t, w)
  BY NowType, MidTab DEF StreamInv, TabInv
<1>2. GoodFrame(Now, f) /\ Honest(Now, f) /\ f.term # Nothing /\ f \in Frame
  BY DEF StreamInv, GoodFrame
<1>3. Now.term = 0 => f.term = 0
  <2>1. f.term \in Nat /\ f.term <= Now.term
    BY <1>2, BoundAssumption DEF Honest, Frame, Snap, Q, Term
  <2> QED
    BY <2>1
<1>4. CASE t.sub = "waiting"
  <2>1. t.queue \in Seq(Frame) /\ Append(t.queue, f) \in Seq(Frame)
    BY <1>1, <1>2 DEF Mid
  <2>2. PICK q \in Seq(Frame) : q = Append(t.queue, f)
    BY <2>1
  <2>3. PICK m : m = [t EXCEPT !.queue = q]
    OBVIOUS
  <2>4. /\ m \in Mid /\ m.home = t.home /\ m.sub = "waiting" /\ m.queue = q /\ m.answer = t.answer
        /\ m.full = t.full /\ m.stalled = t.stalled /\ m.resyncing = t.resyncing
        /\ m.resync = t.resync /\ SameView(m, t)
    BY <1>1, <1>4, <2>2, <2>3 DEF Mid, SameView, SameRows
  <2>5. n = m
    BY <1>4, <2>2, <2>3, <2>4 DEF Receive, Refresh
  <2>6. n \in Tab
    BY <2>4, <2>5, MidTab
  <2>7. Honest(Now, n) /\ Unmixed(n) /\ Shape(n)
    BY <1>1, <1>4, <2>4, <2>5, HonestSame DEF SameView, SameRows, Unmixed, Shape
  <2>8. Reset(Now, n, v) /\ Nearby(Now, n, v)
    BY <1>1, <1>4, <2>4, <2>5 DEF Reset, Nearby
  <2> QED
    BY <1>1, <2>2, <2>4, <2>5, <2>6, <2>7, <2>8 DEF TabInv
<1>5. t.sub # "waiting" => t.sub = "live" /\ t.queue = <<>> /\ t.answer = Nothing /\ t.seq # -1
  BY <1>1 DEF Tab, Shape
<1>6. CASE t.sub # "waiting" /\ t.full
  <2>1. PICK m : m = [t EXCEPT !.stalled = TRUE]
    OBVIOUS
  <2>2. /\ m \in Mid /\ m.home = t.home /\ m.sub = t.sub /\ m.queue = t.queue /\ m.answer = t.answer
        /\ m.full = t.full /\ m.stalled /\ m.resyncing = t.resyncing
        /\ m.resync = t.resync /\ SameView(m, t)
    BY <1>1, <2>1 DEF Mid, SameView, SameRows
  <2>3. n = m
    <3>1. Receive(t, f) = m
      BY <1>6, <2>1 DEF Receive
    <3>2. Refresh(m) = m
      BY <1>5, <1>6, <2>2 DEF Refresh
    <3> QED
      BY <3>1, <3>2
  <2>4. n \in Tab
    BY <1>5, <1>6, <2>2, <2>3, MidTab
  <2>5. Honest(Now, n) /\ Unmixed(n)
    BY <1>1, <2>2, <2>3, HonestSame DEF SameView, SameRows, Unmixed
  <2>6. Shape(n)
    BY <1>1, <1>5, <1>6, <2>2, <2>3 DEF Shape, SameView, SameRows
  <2>7. Reset(Now, n, v)
    BY <2>2, <2>3 DEF Reset
  <2>8. Nearby(Now, n, v)
    BY <1>1, <2>2, <2>3 DEF Nearby, SameView, SameRows
  <2> QED
    BY <1>1, <2>2, <2>3, <2>4, <2>5, <2>6, <2>7, <2>8 DEF TabInv
<1>7. CASE t.sub # "waiting" /\ ~t.full /\ t.stalled
  <2>1. ~t.resyncing /\ t.resync = Nothing
    BY <1>1, <1>7 DEF Shape
  <2>2. PICK m : m = Resync(t)
    OBVIOUS
  <2>3. TabInv(Now, m, v) /\ m.queue = <<>> /\ m.home = t.home
    BY <1>1, <1>5, <1>7, <2>1, <2>2, ResyncInv
  <2>4. m.sub # "stale"
    BY <2>3 DEF TabInv, Tab
  <2>5. n = m
    BY <1>7, <2>2, <2>4 DEF Receive, Refresh
  <2> QED
    BY <2>3, <2>5
<1>8. CASE t.sub # "waiting" /\ ~t.full /\ ~t.stalled /\ f.t = "snap"
  <2>1. f \in Snap
    BY <1>2, <1>8 DEF Frame, Q
  <2>2. PICK m : m = ShowSnap(t, f)
    OBVIOUS
  <2>3. /\ m \in Mid /\ SameLink(m, t) /\ SameRows(m, f) /\ m.whole /\ ~m.lost
        /\ m.aged = (f.term # takeovers)
    BY <1>1, <2>1, <2>2, SnapShown
  <2>4. m.sub = "live" /\ m \in Tab
    BY <1>5, <1>8, <2>3, MidTab DEF SameLink
  <2>5. n = m
    BY <1>8, <2>2, <2>4 DEF Receive, Refresh, Show
  <2>6. Honest(Now, n) /\ Unmixed(n)
    BY <1>2, <2>3, <2>5, HonestSame DEF SameRows, Unmixed
  <2>7. f.seq # -1
    BY <2>1 DEF Snap
  <2>8. Shape(n)
    BY <1>1, <1>5, <1>8, <2>3, <2>5, <2>7 DEF Shape, SameLink, SameWait, SameRows
  <2>9. Reset(Now, n, v)
    BY <2>3, <2>5, NowFields DEF Reset, Told, SameRows
  <2>10. Nearby(Now, n, v)
    BY <1>1, <1>3, <1>8, <2>3, <2>4, <2>5 DEF Ahead, Nearby, SameLink, SameWait, SameRows
  <2>11. Stored(Now, n.answer) /\ Stored(Now, n.resync) /\ n.home = t.home /\ n.queue = t.queue
    BY <1>1, <2>3, <2>5 DEF SameLink, SameWait
  <2> QED
    BY <2>4, <2>5, <2>6, <2>8, <2>9, <2>10, <2>11 DEF TabInv
<1>9. CASE t.sub # "waiting" /\ ~t.full /\ ~t.stalled /\ f.t # "snap"
  <2>1. f.t = "q"
    BY <1>2, <1>9 DEF Frame, Snap, Q
  <2>2. PICK m : m = ShowQ(t, f)
    OBVIOUS
  <2>3. /\ m \in Mid /\ SameWait(m, t) /\ Honest(Now, m) /\ Unmixed(m) /\ m.seq \in Nat
        /\ Told(Now, t) => Told(Now, m)
        /\ \/ m = t /\ f.seq <= t.seq
           \/ m.sub = "stale"
           \/ m.sub = "live" /\ m.seq = f.seq /\ (t.term = f.term => m.term = f.term /\ ~m.lost)
    BY <1>1, <1>5, <1>9, <2>1, <2>2, DeltaShown
  <2>4. n = Refresh(m)
    BY <1>9, <2>1, <2>2 DEF Receive, Show
  <2>5. CASE m.sub = "stale"
    <3>1. n = Subscribe(m, m.home) /\ m.home \in Gateway
      BY <2>3, <2>4, <2>5 DEF Refresh, Mid
    <3>2. TabInv(Now, n, v) /\ n.queue = <<>> /\ n.home = m.home
      BY <2>3, <3>1, SubscribeInv
    <3> QED
      BY <2>3, <3>2 DEF SameWait
  <2>6. CASE m.sub # "stale"
    <3>1. n = m /\ m.sub = "live"
      BY <1>5, <1>9, <2>3, <2>4, <2>6 DEF Refresh
    <3>2. n \in Tab
      BY <2>3, <2>6, <3>1, MidTab
    <3>3. Shape(n)
      BY <1>1, <1>5, <1>9, <2>3, <3>1 DEF Shape, SameWait
    <3>4. Reset(Now, n, v)
      <4>1. Now.lead # Nothing => Announced(Now, v) \/ Told(Now, t) \/ t.resyncing
        BY <1>1, <1>9, <2>1 DEF Reset, Ahead
      <4> QED
        BY <2>3, <3>1, <4>1 DEF Reset, SameWait
    <3>5. Nearby(Now, n, v)
      <4>1. SUFFICES ASSUME Now.term = 0, Now.lead # Nothing, n.home = Now.lead
                     PROVE  /\ ~n.resyncing /\ n.term = 0
                            /\ ~n.lost => \A k \in 1..Now.number : k > n.seq => DeltaOn(v, k)
        BY <3>1 DEF Nearby
      <4>2. /\ ~n.resyncing /\ t.term = 0 /\ f.term = 0
            /\ ~t.lost => \A k \in 1..Now.number : k > t.seq => DeltaOn(w, k)
        BY <1>1, <1>3, <1>9, <2>3, <3>1, <4>1 DEF Nearby, SameWait
      <4>3. CASE n = t /\ f.seq <= t.seq
        <5>1. t.seq \in Nat /\ f.seq \in Nat
          BY <1>2, <1>5, <1>9, <1>1 DEF Tab, Frame, Snap, Q
        <5>2. ASSUME ~n.lost, NEW k \in 1..Now.number, k > n.seq PROVE DeltaOn(v, k)
          <6>1. k # f.seq /\ DeltaOn(w, k)
            BY <4>2, <4>3, <5>1, <5>2
          <6> QED
            BY <4>1, <6>1 DEF Ahead
        <5> QED
          BY <4>2, <4>3, <5>2
      <4>4. CASE n.seq = f.seq /\ n.term = f.term
        BY <4>1, <4>2, <4>4 DEF Ahead
      <4> QED
        BY <2>3, <2>6, <3>1, <4>2, <4>3, <4>4
    <3> QED
      BY <1>1, <2>3, <3>1, <3>2, <3>3, <3>4, <3>5 DEF TabInv, SameWait
  <2> QED
    BY <2>5, <2>6
<1> QED
  BY <1>4, <1>6, <1>7, <1>8, <1>9

-----------------------------------------------------------------------------
(* The replay of queued frames: a recursion over their number.             *)

\* A set of numbers has a smallest one.
LEMMA Smallest ==
  ASSUME NEW S \in SUBSET Nat, S # {}
  PROVE  \E x \in S : \A y \in S : x <= y
<1>1. IsWellFoundedOn(OpToRel(<, Nat), Nat)
  BY NatLessThanWellFounded
<1>2. PICK x \in S : \A y \in S : <<y, x>> \notin OpToRel(<, Nat)
  BY <1>1, WFMin
<1>3. \A y \in S : ~(y < x)
  BY <1>2 DEF OpToRel
<1> QED
  BY <1>3

\* h is the sequence of rows that the replay of the first n frames shows.
ReplayOf(h, r, frames, after, n) ==
    h = [i \in 0..n |-> IF i = 0 THEN r ELSE Replayed(h[i - 1], frames[i], after)]

\* There is one for every n.
LEMMA ReplayExists ==
  ASSUME NEW r, NEW frames, NEW after, NEW n \in Nat
  PROVE  \E h : ReplayOf(h, r, frames, after, n)
<1> DEFINE Bad == {m \in Nat : ~\E h : ReplayOf(h, r, frames, after, m)}
<1>1. SUFFICES ASSUME Bad # {} PROVE FALSE
  OBVIOUS
<1>2. PICK m \in Bad : \A k \in Bad : m <= k
  BY <1>1, Smallest
<1>3. CASE m = 0
  <2>1. PICK h : h = [i \in 0..0 |-> r]
    OBVIOUS
  <2>2. [i \in 0..0 |-> IF i = 0 THEN r ELSE Replayed(h[i - 1], frames[i], after)] = h
    BY <2>1
  <2> QED
    BY <1>2, <1>3, <2>2 DEF ReplayOf
<1>4. CASE m # 0
  <2>1. m - 1 \in Nat /\ m - 1 \notin Bad /\ m \in Nat
    BY <1>2, <1>4
  <2>2. PICK h : ReplayOf(h, r, frames, after, m - 1)
    BY <2>1
  <2>3. PICK g : g = [i \in 0..m |-> IF i = m THEN Replayed(h[m - 1], frames[m], after) ELSE h[i]]
    OBVIOUS
  <2>4. \A i \in 0..m : i # m => i \in 0..(m - 1) /\ g[i] = h[i]
    BY <2>1, <2>3
  <2>5. ASSUME NEW i \in 0..m
        PROVE  g[i] = IF i = 0 THEN r ELSE Replayed(g[i - 1], frames[i], after)
    <3>1. CASE i = m
      <4>1. i # 0 /\ i - 1 \in 0..m /\ i - 1 # m
        BY <1>4, <2>1, <3>1
      <4>2. g[i - 1] = h[i - 1]
        BY <2>4, <4>1
      <4> QED
        BY <2>3, <3>1, <4>1, <4>2
    <3>2. CASE i # m
      <4>1. g[i] = h[i] /\ i \in 0..(m - 1)
        BY <2>4, <3>2
      <4>2. h[i] = IF i = 0 THEN r ELSE Replayed(h[i - 1], frames[i], after)
        BY <2>2, <4>1 DEF ReplayOf
      <4>3. i # 0 => i - 1 \in 0..m /\ i - 1 # m
        BY <2>1, <2>5, <3>2
      <4>4. i # 0 => g[i - 1] = h[i - 1]
        BY <2>4, <4>3
      <4> QED
        BY <4>1, <4>2, <4>4
    <3> QED
      BY <3>1, <3>2
  <2>6. ReplayOf(g, r, frames, after, m)
    BY <2>3, <2>5 DEF ReplayOf
  <2> QED
    BY <1>2, <2>6
<1> QED
  BY <1>3, <1>4

\* What holds of the rows at first and is kept by every frame holds at the end.
LEMMA ReplayKeeps ==
  ASSUME NEW r, NEW frames, NEW after, Len(frames) \in Nat, NEW S, r \in S,
         \A s \in S : \A i \in 1..Len(frames) : Replayed(s, frames[i], after) \in S
  PROVE  Replay(r, frames, after) \in S
<1> DEFINE n == Len(frames)
<1>1. PICK h : ReplayOf(h, r, frames, after, n) /\ Replay(r, frames, after) = h[n]
  <2> DEFINE shown == CHOOSE shown :
               shown = [i \in 0..Len(frames) |->
                          IF i = 0 THEN r ELSE Replayed(shown[i - 1], frames[i], after)]
  <2>1. \E h : h = [i \in 0..Len(frames) |->
                          IF i = 0 THEN r ELSE Replayed(h[i - 1], frames[i], after)]
    <3>1. PICK h : ReplayOf(h, r, frames, after, Len(frames))
      BY ReplayExists
    <3>2. h = [i \in 0..Len(frames) |-> IF i = 0 THEN r ELSE Replayed(h[i - 1], frames[i], after)]
      BY <3>1 DEF ReplayOf
    <3> QED
      BY <3>2
  <2>2. shown = [i \in 0..Len(frames) |->
                          IF i = 0 THEN r ELSE Replayed(shown[i - 1], frames[i], after)]
    BY <2>1
  <2>3. Replay(r, frames, after) = shown[Len(frames)]
    BY DEF Replay
  <2>4. ReplayOf(shown, r, frames, after, n)
    BY <2>2 DEF ReplayOf
  <2> QED
    BY <2>3, <2>4
<1>2. \A i \in 0..n : h[i] = IF i = 0 THEN r ELSE Replayed(h[i - 1], frames[i], after)
  BY <1>1 DEF ReplayOf
<1> DEFINE Bad == {i \in 0..n : h[i] \notin S}
<1>3. Bad = {}
  <2>1. SUFFICES ASSUME Bad # {} PROVE FALSE
    OBVIOUS
  <2>2. PICK m \in Bad : \A k \in Bad : m <= k
    <3>1. Bad \in SUBSET Nat
      OBVIOUS
    <3> QED
      BY <2>1, <3>1, Smallest
  <2>3. m # 0 /\ m \in 1..n
    BY <1>2, <2>2
  <2>4. m - 1 \in 0..n /\ ~(m <= m - 1)
    BY <2>3
  <2>5. h[m - 1] \in S
    BY <2>2, <2>4
  <2>6. h[m] \in S
    BY <1>2, <2>3, <2>5
  <2> QED
    BY <2>2, <2>6
<1>4. n \in 0..n
  OBVIOUS
<1> QED
  BY <1>1, <1>3, <1>4

\* The stored snapshot and the replay of what came in meanwhile keep a tab's part.
LEMMA FirstFrameInv ==
  ASSUME StreamInv, NEW b \in Browser, NEW t, t = tab[b], NEW w, TabInv(Now, t, w),
         t.answer # Nothing, NEW n, n = FirstFrame(t, t.answer)
  PROVE  TabInv(Now, n, w) /\ n.home = t.home /\ n.queue = <<>>
<1>0. /\ Now \in Context /\ t.home \in Gateway /\ t \in Tab /\ t \in Mid /\ Shape(t)
      /\ Stored(Now, t.answer) /\ Nearby(Now, t, w) /\ Now.term = takeovers
  BY NowType, MidTab, NowFields DEF StreamInv, TabInv, Tab
<1>1. /\ t.sub = "waiting" /\ ~t.full /\ ~t.stalled /\ ~t.resyncing /\ t.resync = Nothing
      /\ Honest(Now, t.answer) /\ t.answer \in Snap
  BY <1>0 DEF Stored, Shape
<1>2. PICK m : m = [t EXCEPT !.sub = "live", !.queue = <<>>, !.answer = Nothing]
  OBVIOUS
<1>3. m \in Mid /\ m.sub = "live" /\ Bare(m) /\ m.home = t.home
  <2>1. PICK e : e = <<>>
    OBVIOUS
  <2>2. e \in Seq(Frame)
    BY <2>1
  <2>3. m = [t EXCEPT !.sub = "live", !.queue = e, !.answer = Nothing]
    BY <1>2, <2>1
  <2>4. /\ m \in Mid /\ m.sub = "live" /\ m.queue = e /\ m.answer = Nothing /\ m.home = t.home
        /\ m.full = t.full /\ m.stalled = t.stalled
        /\ m.resyncing = t.resyncing /\ m.resync = t.resync
    BY <1>0, <2>2, <2>3 DEF Mid
  <2> QED
    BY <1>1, <2>1, <2>4 DEF Bare
<1>4. PICK first : first = ShowStored(m, t.answer)
  OBVIOUS
<1>5. /\ first \in Mid /\ SameLink(first, m) /\ SameRows(first, t.answer) /\ first.whole
      /\ first.aged = (t.answer.term # takeovers)
  BY <1>1, <1>3, <1>4, StoredShown
<1>6. n = Refresh(Replay(first, t.queue, t.answer.seq))
  BY <1>2, <1>4 DEF FirstFrame
<1> DEFINE S == {s \in Mid :
              /\ s.home = t.home /\ s.sub \in {"live", "stale"} /\ Bare(s) /\ s.seq # -1
              /\ Honest(Now, s) /\ Unmixed(s) /\ Told(Now, s)}
<1>7. first \in S
  <2>1. first.home = t.home /\ first.sub = "live" /\ Bare(first)
    BY <1>3, <1>5 DEF SameLink, SameWait, Bare
  <2>2. first.seq # -1
    BY <1>1, <1>5 DEF Snap, SameRows
  <2>3. Honest(Now, first) /\ Unmixed(first)
    BY <1>1, <1>5, HonestSame DEF SameRows, Unmixed
  <2>4. Told(Now, first)
    BY <1>0, <1>5 DEF Told, SameRows
  <2> QED
    BY <1>5, <2>1, <2>2, <2>3, <2>4
<1>8. ASSUME NEW s \in S, NEW i \in 1..Len(t.queue)
      PROVE  Replayed(s, t.queue[i], t.answer.seq) \in S
  <2>1. PICK f : f = t.queue[i]
    OBVIOUS
  <2>2. f \in Flying
    BY <2>1 DEF Flying, Content
  <2>3. CASE ~(s.sub = "live" /\ f.t = "q" /\ f.seq > t.answer.seq)
    BY <2>1, <2>3 DEF Replayed
  <2>4. CASE s.sub = "live" /\ f.t = "q" /\ f.seq > t.answer.seq
    <3>1. PICK x : x = ShowQ(s, f)
      OBVIOUS
    <3>2. Replayed(s, f, t.answer.seq) = x
      BY <2>4, <3>1 DEF Replayed, Bare, Receive, Show
    <3>3. /\ x \in Mid /\ SameWait(x, s) /\ Honest(Now, x) /\ Unmixed(x) /\ x.seq \in Nat
          /\ Told(Now, s) => Told(Now, x)
          /\ \/ x = s /\ f.seq <= s.seq
             \/ x.sub = "stale"
             \/ x.sub = "live" /\ x.seq = f.seq /\ (s.term = f.term => x.term = f.term /\ ~x.lost)
      BY <2>2, <2>4, <3>1, DeltaShown
    <3>4. x.home = t.home /\ x.sub \in {"live", "stale"} /\ Bare(x) /\ x.seq # -1
      BY <3>3 DEF Bare, SameWait
    <3> QED
      BY <2>1, <3>2, <3>3, <3>4
  <2> QED
    BY <2>3, <2>4
<1>9. Len(t.queue) \in Nat
  BY <1>0 DEF Mid
<1>10. PICK s : s = Replay(first, t.queue, t.answer.seq)
  OBVIOUS
<1>11. s \in S
  <2> HIDE DEF S
  <2> QED
    BY <1>7, <1>8, <1>9, <1>10, ReplayKeeps
<1>12. CASE s.sub = "stale"
  <2>1. n = Subscribe(s, s.home)
    BY <1>6, <1>10, <1>12 DEF Refresh
  <2> QED
    BY <1>0, <1>11, <2>1, SubscribeInv
<1>13. CASE s.sub = "live"
  <2>1. n = s
    BY <1>6, <1>10, <1>13 DEF Refresh
  <2>2. n \in Tab
    BY <1>11, <1>13, <2>1, MidTab
  <2>3. n.queue = <<>> /\ n.answer = Nothing /\ n.resync = Nothing
    BY <1>11, <2>1 DEF Bare
  <2>4. Reset(Now, n, w)
    BY <1>11, <2>1 DEF Reset
  <2>5. Shape(n)
    BY <1>11, <1>13, <2>1 DEF Shape, Bare
  <2>6. Nearby(Now, n, w)
    BY <1>0, <1>1, <1>11, <2>1 DEF Nearby
  <2> QED
    BY <1>11, <2>1, <2>2, <2>3, <2>4, <2>5, <2>6 DEF TabInv, Stored
<1> QED
  BY <1>11, <1>12, <1>13

-----------------------------------------------------------------------------
(* Steps.                                                                  *)

\* Frames stay good while the numbers stand still.
LEMMA FrameCalm ==
  ASSUME NEW c, NEW d, Calm(c, d), NEW f, GoodFrame(c, f)
  PROVE  GoodFrame(d, f)
<1>1. Honest(d, f)
  BY HonestCalm DEF GoodFrame
<1>2. f.t = "q" => Forward(d, f)
  BY DEF GoodFrame, Forward, Calm
<1> QED
  BY <1>1, <1>2 DEF GoodFrame

\* A step calms if the leader keeps its number and what it has sent, or goes.
LEMMA NowCalm ==
  ASSUME takeovers' = takeovers, \A f \in Flying' : f.t = "q" => f \in Flying,
         \/ leader' = Nothing
         \/ leader' = leader /\ (leader # Nothing => seq'[leader] = seq[leader] /\ Flushed' = Flushed)
  PROVE  Calm(Now, Now')
<1>1. /\ Now'.term = takeovers' /\ Now'.lead = leader'
      /\ leader' # Nothing => Now'.number = seq'[leader'] /\ Now'.flushed = Flushed'
      /\ Now'.deltas = {f \in Flying' : f.t = "q"}
  BY DEF Now
<1>2. Now'.deltas \subseteq Now.deltas
  BY <1>1, NowFields
<1>3. leader' # Nothing => Now'.number = Now.number /\ Now'.flushed = Now.flushed
  BY <1>1, NowFields
<1> QED
  BY <1>1, <1>2, <1>3, NowFields DEF Calm

\* The leader's frames under way are frames, and fly.
LEMMA OutFlies == StreamTypeOK => Out \in Seq(Frame) /\ Content(Out) \subseteq Flying
<1> SUFFICES ASSUME StreamTypeOK PROVE Out \in Seq(Frame) /\ Content(Out) \subseteq Flying
  OBVIOUS
<1>1. CASE leader = Nothing
  BY <1>1 DEF Out, Content
<1>2. CASE leader # Nothing
  BY <1>2 DEF Out, Flying, StreamTypeOK, Frame
<1> QED
  BY <1>1, <1>2

\* A step from which the numbers stand still keeps the invariant if it keeps the tabs' parts
\* and the wire's.
LEMMA CalmStep ==
  ASSUME StreamInv, Calm(Now, Now'), Flying' \subseteq Flying, StreamTypeOK', FeedInv(Now)',
         NEW w, leader' # Nothing => Out' = w, WireInv(Now, w),
         \A g \in Gateway : wire[g] = <<>> => wire'[g] = <<>>,
         \A b \in Browser : TabInv(Now, tab'[b], w)
  PROVE  StreamInv'
<1>1. Now'.lead = leader' /\ Now.lead = leader
  BY DEF Now
<1>2. \A f \in Flying' : GoodFrame(Now', f)
  BY FrameCalm DEF StreamInv
<1>3. WireInv(Now', Out')
  BY <1>1, WireCalm
<1>4. Alone(Now)'
  BY <1>1 DEF StreamInv, Alone, Calm
<1>5. \A b \in Browser : TabInv(Now', tab'[b], Out')
  BY <1>1, TabCalm
<1> QED
  BY <1>2, <1>3, <1>4, <1>5 DEF StreamInv

\* A step that leaves the feeds and the store alone.
LEMMA FeedSame ==
  ASSUME StreamInv, Calm(Now, Now'), UNCHANGED <<feed, put, store>>
  PROVE  FeedInv(Now)'
<1>1. UNCHANGED <<venue, leader, takeovers, cache, batch, seq, put, store>>
  BY DEF feed
<1>2. Stored(Now', store') /\ \A g \in Gateway : Stored(Now', put'[g])
  BY <1>1, StoredCalm DEF StreamInv, FeedInv
<1> QED
  BY <1>1, <1>2 DEF StreamInv, FeedInv

\* A step of one tab keeps the invariant if it keeps that tab's part.
LEMMA TabStep ==
  ASSUME StreamInv, NEW b \in Browser, NEW n, tab' = [tab EXCEPT ![b] = n],
         TabInv(Now, n, Out), Content(n.queue) \subseteq Flying,
         UNCHANGED <<feed, put, store, wire>>, faults' \in 0..MaxFaults
  PROVE  StreamInv'
<1>1. UNCHANGED <<venue, leader, takeovers, cache, batch, seq, put, store, wire>>
  BY DEF feed
<1>2. \A x \in Browser : tab'[x] = IF x = b THEN n ELSE tab[x]
  BY DEF StreamInv, StreamTypeOK
<1>3. Flying' \subseteq Flying
  <2>1. ASSUME NEW x \in Browser, NEW f \in Content(tab'[x].queue) PROVE f \in Flying
    <3>1. CASE x = b
      BY <1>2, <2>1, <3>1
    <3>2. CASE x # b
      BY <1>2, <2>1, <3>2 DEF Flying
    <3> QED
      BY <3>1, <3>2
  <2>2. ASSUME NEW g \in Gateway, NEW f \in Content(wire'[g]) PROVE f \in Flying
    BY <1>1, <2>2 DEF Flying
  <2> QED
    BY <2>1, <2>2 DEF Flying
<1>4. Calm(Now, Now')
  BY <1>1, <1>3, NowCalm DEF Flushed
<1>5. StreamTypeOK'
  <2>1. n \in Tab
    BY DEF TabInv
  <2>2. tab' \in [Browser -> Tab]
    BY <2>1 DEF StreamInv, StreamTypeOK
  <2> QED
    BY <1>1, <2>2 DEF StreamInv, StreamTypeOK
<1>6. FeedInv(Now)'
  BY <1>4, FeedSame
<1>7. \A x \in Browser : TabInv(Now, tab'[x], Out)
  BY <1>2 DEF StreamInv
<1>8. Out' = Out
  BY <1>1 DEF Out
<1> QED
  BY <1>1, <1>3, <1>4, <1>5, <1>6, <1>7, <1>8, CalmStep DEF StreamInv

\* Whatever a follower answers is honest: what is stored, however old, its own rows, which
\* are of no leader, or the leader's once it leads.
LEMMA AnswersHonest ==
  ASSUME StreamInv, NEW g \in Gateway, NEW a \in Answers(g)
  PROVE  a \in Snap /\ Honest(Now, a) /\ Stored(Now, a)
<1>0. StreamTypeOK /\ Now \in Context
  BY NowType DEF StreamInv
<1>1. CASE a = store /\ store # Nothing
  BY <1>1 DEF StreamInv, FeedInv, Stored
<1>2. CASE leader = g /\ a = SnapOf(g)
  <2>1. leader # Nothing
    BY <1>2, NothingAssumption
  <2> QED
    BY <1>0, <1>2, <2>1, SnapOfType, LeaderHonest DEF Stored
<1>3. CASE a = LocalRows(g)
  <2>1. PICK x : x = [SnapOf(g) EXCEPT !.seq = 0, !.term = Nothing]
    OBVIOUS
  <2>2. a = x
    BY <1>3, <2>1 DEF LocalRows
  <2>3. x \in Snap /\ x.seq = 0 /\ x.term = Nothing /\ x.ver \in Version
    BY <1>0, <2>1, SnapOfType DEF Snap
  <2>4. \A f \in Now.deltas : f.term # Nothing
    BY <1>0, BoundAssumption, NothingAssumption DEF Context, Q, Term
  <2>5. Now.term # Nothing
    BY <1>0, BoundAssumption, NothingAssumption DEF Context, Term
  <2>6. Honest(Now, x)
    BY <2>3, <2>4, <2>5 DEF Honest
  <2> QED
    BY <2>2, <2>3, <2>6 DEF Stored
<1> QED
  BY <1>1, <1>2, <1>3 DEF Answers

\* A step that changes what a connection waits for, not what the browser shows.
LEMMA LinkInv ==
  ASSUME NEW c, NEW t, NEW w, TabInv(c, t, w), NEW n \in Tab, n.home = t.home, n.sub = t.sub,
         n.stalled = t.stalled, n.resyncing = t.resyncing, SameView(n, t), n.lost = t.lost,
         Shape(n), Stored(c, n.answer), Stored(c, n.resync)
  PROVE  TabInv(c, n, w)
<1>1. Honest(c, n) /\ Unmixed(n)
  BY HonestSame DEF TabInv, SameView, SameRows, Unmixed
<1>2. Reset(c, n, w)
  BY DEF TabInv, Reset, Told, SameView, SameRows
<1>3. Nearby(c, n, w)
  BY DEF TabInv, Nearby, SameView, SameRows
<1> QED
  BY <1>1, <1>2, <1>3 DEF TabInv

\* Every step of a browser or its connection keeps the invariant.
LEMMA BrowserKeeps ==
  ASSUME StreamInv, NEW b \in Browser,
         Serve(b) \/ Fill(b) \/ \E g \in Gateway : Reconnect(b, g)
  PROVE  StreamInv'
<1>1. PICK t : t = tab[b]
  OBVIOUS
<1>2. PICK w : w = Out
  OBVIOUS
<1>3. /\ Now \in Context /\ TabInv(Now, t, w) /\ t.home \in Gateway /\ t \in Tab /\ t \in Mid
      /\ Honest(Now, t) /\ Unmixed(t) /\ Shape(t) /\ Nearby(Now, t, w)
      /\ Stored(Now, t.answer) /\ Stored(Now, t.resync) /\ Stored(Now, Nothing)
  BY <1>1, <1>2, NowType, MidTab DEF StreamInv, TabInv, Tab, Stored
<1>4. Content(t.queue) \subseteq Flying
  BY <1>1 DEF Flying
<1>5. Content(<<>>) \subseteq Flying
  BY DEF Content
<1>6. faults < MaxFaults => faults + 1 \in 0..MaxFaults
  BY BoundAssumption DEF StreamInv, StreamTypeOK
<1>7. faults \in 0..MaxFaults
  BY DEF StreamInv, StreamTypeOK
<1>8. CASE ReadStore(b)
  <2>1. PICK a \in Answers(t.home) : tab' = [tab EXCEPT ![b].answer = a]
    BY <1>1, <1>8 DEF ReadStore
  <2>2. a \in Snap /\ Stored(Now, a)
    BY <1>3, <2>1, AnswersHonest
  <2>3. PICK n : n = [t EXCEPT !.answer = a]
    OBVIOUS
  <2>4. tab' = [tab EXCEPT ![b] = n]
    BY <1>1, <2>1, <2>3
  <2>5. t.sub = "waiting" /\ t.answer = Nothing /\ UNCHANGED <<feed, put, store, wire, faults>>
    BY <1>1, <1>8 DEF ReadStore
  <2>6. /\ n \in Tab /\ n.home = t.home /\ n.sub = t.sub /\ n.queue = t.queue /\ n.answer = a
        /\ n.full = t.full /\ n.stalled = t.stalled /\ n.resyncing = t.resyncing
        /\ n.resync = t.resync /\ n.lost = t.lost /\ SameView(n, t)
    BY <1>3, <2>2, <2>3 DEF Tab, SameView, SameRows
  <2>7. Shape(n)
    BY <1>3, <2>5, <2>6 DEF Shape
  <2>8. TabInv(Now, n, w)
    BY <1>3, <2>2, <2>6, <2>7, LinkInv
  <2> QED
    BY <1>2, <1>4, <1>7, <2>4, <2>5, <2>6, <2>8, TabStep
<1>9. CASE SendFirst(b)
  <2>1. PICK n : n = FirstFrame(t, t.answer)
    OBVIOUS
  <2>2. /\ t.answer # Nothing /\ tab' = [tab EXCEPT ![b] = n]
        /\ UNCHANGED <<feed, put, store, wire, faults>>
    BY <1>1, <1>9, <2>1 DEF SendFirst
  <2>3. TabInv(Now, n, w) /\ n.home = t.home /\ n.queue = <<>>
    BY <1>1, <1>3, <2>1, <2>2, FirstFrameInv
  <2> QED
    BY <1>2, <1>5, <1>7, <2>2, <2>3, TabStep
<1>10. CASE Drain(b)
  <2>1. PICK n : n = [t EXCEPT !.full = FALSE]
    OBVIOUS
  <2>2. t.full /\ tab' = [tab EXCEPT ![b] = n] /\ UNCHANGED <<feed, put, store, wire, faults>>
    BY <1>1, <1>10, <2>1 DEF Drain
  <2>3. /\ n \in Tab /\ n.home = t.home /\ n.sub = t.sub /\ n.queue = t.queue /\ n.answer = t.answer
        /\ ~n.full /\ n.stalled = t.stalled /\ n.resyncing = t.resyncing
        /\ n.resync = t.resync /\ n.lost = t.lost /\ SameView(n, t)
    BY <1>3, <2>1 DEF Tab, SameView, SameRows
  <2>4. Shape(n)
    BY <1>3, <2>2, <2>3 DEF Shape, SameView, SameRows
  <2>5. TabInv(Now, n, w)
    BY <1>3, <2>3, <2>4, LinkInv
  <2> QED
    BY <1>2, <1>4, <1>7, <2>2, <2>3, <2>5, TabStep
<1>11. CASE Fill(b)
  <2>1. PICK n : n = [t EXCEPT !.full = TRUE]
    OBVIOUS
  <2>2. /\ t.sub = "live" /\ ~t.full /\ ~t.resyncing /\ tab' = [tab EXCEPT ![b] = n]
        /\ UNCHANGED <<feed, put, store, wire>> /\ faults < MaxFaults /\ faults' = faults + 1
    BY <1>1, <1>11, <2>1 DEF Fill
  <2>3. /\ n \in Tab /\ n.home = t.home /\ n.sub = t.sub /\ n.queue = t.queue /\ n.answer = t.answer
        /\ n.full /\ n.stalled = t.stalled /\ n.resyncing = t.resyncing
        /\ n.resync = t.resync /\ n.lost = t.lost /\ SameView(n, t)
    BY <1>3, <2>1 DEF Tab, SameView, SameRows
  <2>4. Shape(n)
    BY <1>3, <2>2, <2>3 DEF Shape, SameView, SameRows
  <2>5. TabInv(Now, n, w)
    BY <1>3, <2>3, <2>4, LinkInv
  <2>6. faults' \in 0..MaxFaults
    BY <1>6, <2>2
  <2> QED
    BY <1>2, <1>4, <2>2, <2>3, <2>5, <2>6, TabStep
<1>12. CASE Sweep(b)
  <2>1. PICK n : n = Resync(t)
    OBVIOUS
  <2>2. /\ t.stalled /\ ~t.full /\ tab' = [tab EXCEPT ![b] = n]
        /\ UNCHANGED <<feed, put, store, wire, faults>>
    BY <1>1, <1>12, <2>1 DEF Sweep
  <2>3. t.sub = "live"
    BY <1>3, <2>2 DEF Shape, Tab
  <2>4. ~t.resyncing /\ t.resync = Nothing /\ t.answer = Nothing /\ t.queue = <<>> /\ t.seq # -1
    BY <1>3, <2>2, <2>3 DEF Shape
  <2>5. TabInv(Now, n, w) /\ n.queue = <<>> /\ n.home = t.home
    BY <1>3, <2>1, <2>2, <2>3, <2>4, ResyncInv
  <2> QED
    BY <1>2, <1>5, <1>7, <2>2, <2>5, TabStep
<1>13. CASE ResyncRead(b)
  <2>1. PICK a \in Answers(t.home) : tab' = [tab EXCEPT ![b].resync = a]
    BY <1>1, <1>13 DEF ResyncRead
  <2>2. a \in Snap /\ Stored(Now, a)
    BY <1>3, <2>1, AnswersHonest
  <2>3. PICK n : n = [t EXCEPT !.resync = a]
    OBVIOUS
  <2>4. tab' = [tab EXCEPT ![b] = n] /\ UNCHANGED <<feed, put, store, wire, faults>>
    BY <1>1, <1>13, <2>1, <2>3 DEF ResyncRead
  <2>5. t.resyncing
    BY <1>1, <1>13 DEF ResyncRead
  <2>6. /\ n \in Tab /\ n.home = t.home /\ n.sub = t.sub /\ n.queue = t.queue /\ n.answer = t.answer
        /\ n.full = t.full /\ n.stalled = t.stalled /\ n.resyncing = t.resyncing
        /\ n.resync = a /\ n.lost = t.lost /\ SameView(n, t)
    BY <1>3, <2>2, <2>3 DEF Tab, SameView, SameRows
  <2>7. Shape(n)
    BY <1>3, <2>5, <2>6 DEF Shape, SameView, SameRows
  <2>8. TabInv(Now, n, w)
    BY <1>3, <2>2, <2>6, <2>7, LinkInv
  <2> QED
    BY <1>2, <1>4, <1>7, <2>4, <2>6, <2>8, TabStep
<1>14. CASE ResyncSend(b)
  <2>1. PICK m : m = [t EXCEPT !.resyncing = FALSE, !.resync = Nothing]
    OBVIOUS
  <2>2. PICK n : n = ShowStored(m, t.resync)
    OBVIOUS
  <2>3. /\ t.resync # Nothing /\ tab' = [tab EXCEPT ![b] = n]
        /\ UNCHANGED <<feed, put, store, wire, faults>>
    BY <1>1, <1>14, <2>1, <2>2 DEF ResyncSend
  <2>4. /\ t.resyncing /\ ~t.full /\ ~t.stalled /\ t.sub # "waiting" /\ t.answer = Nothing
        /\ t.queue = <<>> /\ t.resync \in Snap /\ Honest(Now, t.resync)
    BY <1>3, <2>3 DEF Shape, Stored
  <2>5. t.sub = "live"
    BY <1>3, <2>4 DEF Tab
  <2>6. m \in Mid /\ Bare(m) /\ m.home = t.home /\ m.sub = "live"
    BY <1>3, <2>1, <2>4, <2>5 DEF Mid, Bare
  <2>7. /\ n \in Mid /\ SameLink(n, m) /\ SameRows(n, t.resync) /\ n.whole
        /\ n.aged = (t.resync.term # takeovers)
    BY <2>2, <2>4, <2>6, StoredShown
  <2>8. n.home = t.home /\ n.sub = "live" /\ Bare(n)
    BY <2>6, <2>7 DEF SameLink, SameWait, Bare
  <2>9. n \in Tab /\ n.queue = <<>> /\ n.answer = Nothing /\ n.resync = Nothing
    BY <2>7, <2>8, MidTab DEF Bare
  <2>10. Honest(Now, n) /\ Unmixed(n)
    BY <2>4, <2>7, HonestSame DEF SameRows, Unmixed
  <2>11. t.resync.seq # -1
    BY <2>4 DEF Snap
  <2>12. Shape(n)
    BY <2>7, <2>8, <2>11 DEF Shape, SameRows, Bare
  <2>13. Reset(Now, n, w)
    BY <2>7, NowFields DEF Reset, Told, SameRows
  <2>14. Nearby(Now, n, w)
    BY <1>3, <2>4, <2>8 DEF Nearby
  <2>15. TabInv(Now, n, w)
    BY <1>3, <2>9, <2>10, <2>12, <2>13, <2>14 DEF TabInv
  <2> QED
    BY <1>2, <1>5, <1>7, <2>3, <2>9, <2>15, TabStep
<1>15. CASE \E g \in Gateway : Reconnect(b, g)
  <2>1. PICK g \in Gateway : Reconnect(b, g)
    BY <1>15
  <2>2. PICK n : n = Subscribe(t, g)
    OBVIOUS
  <2>3. /\ faults < MaxFaults /\ faults' = faults + 1 /\ tab' = [tab EXCEPT ![b] = n]
        /\ UNCHANGED <<feed, put, store, wire>>
    BY <1>1, <2>1, <2>2 DEF Reconnect
  <2>4. TabInv(Now, n, w) /\ n.queue = <<>> /\ n.home = g
    BY <1>3, <2>2, SubscribeInv
  <2>5. faults' \in 0..MaxFaults
    BY <1>6, <2>3
  <2> QED
    BY <1>2, <1>5, <2>3, <2>4, <2>5, TabStep
<1> QED
  BY <1>8, <1>9, <1>10, <1>11, <1>12, <1>13, <1>14, <1>15 DEF Serve

\* The next frame of a sender on all connections, or missed by some.
LEMMA DeliverKeeps ==
  ASSUME StreamInv, NEW l \in Gateway, NEW missed, Deliver(l, missed)
  PROVE  StreamInv'
<1>0. StreamTypeOK /\ Now \in Context /\ leader \in Gateway \cup {Nothing}
  BY NowType DEF StreamInv, StreamTypeOK
<1>1. PICK f : f = Head(wire[l])
  OBVIOUS
<1>2. /\ wire[l] # <<>> /\ wire[l] \in Seq(Frame) /\ wire \in [Gateway -> Seq(Frame)]
      /\ wire' = [wire EXCEPT ![l] = Tail(wire[l])]
      /\ tab' = [b \in Browser |-> IF tab[b].home \in missed THEN [tab[b] EXCEPT !.lost = TRUE]
                                                             ELSE Refresh(Receive(tab[b], f))]
      /\ UNCHANGED <<venue, leader, takeovers, cache, batch, seq, put, store>>
      /\ UNCHANGED <<feed, put, store>>
      /\ faults' \in 0..MaxFaults
  <2>1. faults' \in 0..MaxFaults
    BY <1>0, BoundAssumption DEF Deliver, StreamTypeOK
  <2> QED
    BY <1>0, <1>1, <2>1 DEF Deliver, feed, StreamTypeOK, Frame
<1>3. /\ f \in Content(wire[l]) /\ Content(wire[l]) = {f} \cup Content(Tail(wire[l]))
      /\ Tail(wire[l]) \in Seq(Frame) /\ f \in Frame
  BY <1>1, <1>2, HeadContent, Apart
<1>4. f \in Flying
  BY <1>3 DEF Flying
<1>5. PICK w : w = Out
  OBVIOUS
<1>6. PICK v : v = IF l = leader THEN Tail(wire[l]) ELSE Out
  OBVIOUS
<1>7. leader # Nothing => Out' = v
  BY <1>0, <1>2, <1>6 DEF Out
<1>8. WireInv(Now, v) /\ Ahead(Now, f, w, v)
  <2>1. CASE l = leader
    <3>1. Out = wire[l] /\ v = Tail(wire[l])
      BY <1>6, <2>1, NothingAssumption DEF Out
    <3>2. /\ WireInv(Now, v)
          /\ Now.term = 0 /\ Now.lead # Nothing =>
               \A n \in 1..Now.number : n > f.seq => DeltaOn(v, n)
      BY <1>1, <1>2, <3>1, WireTail DEF StreamInv
    <3>3. Announced(Now, w) => Announced(Now, v) \/ (f.t = "snap" /\ f.term = Now.term)
      BY <1>3, <1>5, <3>1 DEF Announced
    <3>4. \A n : DeltaOn(w, n) => (f.t = "q" /\ f.seq = n) \/ DeltaOn(v, n)
      BY <1>3, <1>5, <3>1 DEF DeltaOn
    <3> QED
      BY <3>2, <3>3, <3>4 DEF Ahead
  <2>2. CASE l # leader
    <3>1. v = w /\ WireInv(Now, v)
      BY <1>5, <1>6, <2>2 DEF StreamInv
    <3>2. ~(Now.term = 0 /\ Now.lead # Nothing)
      BY <1>2, <2>2, NowFields DEF StreamInv, Alone
    <3> QED
      BY <3>1, <3>2 DEF Ahead
  <2> QED
    BY <2>1, <2>2
<1>9. ASSUME NEW b \in Browser
      PROVE  TabInv(Now, tab'[b], v) /\ Content(tab'[b].queue) \subseteq Flying
  <2>1. PICK t : t = tab[b]
    OBVIOUS
  <2>2. TabInv(Now, t, w) /\ t.queue \in Seq(Frame) /\ t \in Tab /\ Content(t.queue) \subseteq Flying
    BY <1>5, <2>1 DEF StreamInv, TabInv, Tab, Frame, Flying
  <2>3. CASE tab[b].home \in missed
    <3>1. PICK n : n = [t EXCEPT !.lost = TRUE]
      OBVIOUS
    <3>2. /\ n \in Tab /\ n.home = t.home /\ n.sub = t.sub /\ n.queue = t.queue
          /\ n.answer = t.answer /\ n.full = t.full /\ n.stalled = t.stalled
          /\ n.resyncing = t.resyncing /\ n.resync = t.resync /\ n.lost /\ SameView(n, t)
      BY <2>2, <3>1 DEF Tab, SameView, SameRows
    <3>3. Honest(Now, n) /\ Unmixed(n)
      BY <2>2, <3>2, HonestSame DEF TabInv, SameView, SameRows, Unmixed
    <3>4. Shape(n)
      BY <2>2, <3>2 DEF TabInv, Shape, SameView, SameRows
    <3>5. Reset(Now, n, v)
      BY <3>2 DEF Reset, Told
    <3>6. Nearby(Now, n, v)
      BY <2>2, <3>2 DEF TabInv, Nearby, SameView, SameRows
    <3>7. tab'[b] = n
      BY <1>2, <2>1, <2>3, <3>1
    <3> QED
      BY <2>2, <3>2, <3>3, <3>4, <3>5, <3>6, <3>7 DEF TabInv
  <2>4. CASE tab[b].home \notin missed
    <3>1. PICK n : n = Refresh(Receive(t, f))
      OBVIOUS
    <3>2. tab'[b] = n
      BY <1>2, <2>1, <2>4, <3>1
    <3>3. TabInv(Now, n, v) /\ n.queue \in {<<>>, t.queue, Append(t.queue, f)}
      BY <1>4, <1>8, <2>2, <3>1, ReceiveInv
    <3>4. Content(<<>>) = {}
      BY DEF Content
    <3>5. Content(Append(t.queue, f)) = Content(t.queue) \cup {f}
      BY <1>3, <2>2, MoreContent
    <3> QED
      BY <1>4, <2>2, <3>2, <3>3, <3>4, <3>5
  <2> QED
    BY <2>3, <2>4
<1>10. Flying' \subseteq Flying
  <2>1. ASSUME NEW g \in Gateway PROVE Content(wire'[g]) \subseteq Flying
    <3>1. wire'[g] = IF g = l THEN Tail(wire[l]) ELSE wire[g]
      BY <1>2
    <3>2. Content(wire[g]) \subseteq Flying
      BY DEF Flying
    <3> QED
      BY <1>3, <3>1, <3>2
  <2> QED
    BY <1>9, <2>1 DEF Flying
<1>11. Calm(Now, Now')
  <2>1. leader # Nothing => Flushed' = Flushed /\ seq'[leader] = seq[leader]
    BY <1>2 DEF Flushed
  <2> QED
    BY <1>2, <1>10, <2>1, NowCalm
<1>12. StreamTypeOK'
  <2>1. \A b \in Browser : tab'[b] \in Tab
    BY <1>9 DEF TabInv
  <2>2. tab' \in [Browser -> Tab]
    <3> DEFINE F(b) == IF tab[b].home \in missed THEN [tab[b] EXCEPT !.lost = TRUE]
                                                ELSE Refresh(Receive(tab[b], f))
    <3> HIDE DEF F
    <3>1. tab' = [b \in Browser |-> F(b)]
      BY <1>2 DEF F
    <3> QED
      BY <2>1, <3>1
  <2>3. wire' \in [Gateway -> Seq(Snap \cup Q)]
    BY <1>2, <1>3 DEF Frame
  <2> QED
    BY <1>0, <1>2, <2>2, <2>3 DEF StreamTypeOK
<1>13. FeedInv(Now)'
  BY <1>2, <1>11, FeedSame
<1>14. \A g \in Gateway : wire[g] = <<>> => wire'[g] = <<>>
  BY <1>2
<1>15. leader' # Nothing => Out' = v
  BY <1>2, <1>7
<1> QED
  BY <1>8, <1>9, <1>10, <1>11, <1>12, <1>13, <1>14, <1>15, CalmStep

\* A step that moves no frame and no tab.
LEMMA QuietStep ==
  ASSUME StreamInv, UNCHANGED <<wire, tab>>, Calm(Now, Now'), StreamTypeOK', FeedInv(Now)'
  PROVE  StreamInv'
<1>1. Flying' = Flying
  BY DEF Flying, Content
<1>2. PICK w : w = Out
  OBVIOUS
<1>3. leader' # Nothing => Out' = w
  <2>1. Now'.lead = leader' /\ Now.lead = leader
    BY DEF Now
  <2> QED
    BY <1>2, <2>1 DEF Out, Calm
<1>4. WireInv(Now, w) /\ \A b \in Browser : TabInv(Now, tab'[b], w)
  BY <1>2 DEF StreamInv
<1> QED
  BY <1>1, <1>3, <1>4, CalmStep

\* Learning prices changes nothing of what was sent.
LEMMA Learned ==
  ASSUME StreamInv, NEW g \in Gateway, cache[g] # venue, Learn(g), leader' = leader, venue' = venue
  PROVE  /\ cache' \in [Gateway -> Version] /\ batch' \in [Gateway -> Version \cup {Nothing}]
         /\ leader # Nothing => Flushed' = Flushed
         /\ \A h \in Gateway : h # leader => batch'[h] = Nothing
         /\ \A h \in Gateway : cache'[h] <= venue /\ (batch'[h] # Nothing => batch'[h] <= cache'[h])
         /\ cache'[g] = venue
<1>1. /\ venue \in Version /\ cache \in [Gateway -> Version] /\ Nothing \notin Version
      /\ batch \in [Gateway -> Version \cup {Nothing}] /\ leader \in Gateway \cup {Nothing}
  BY NothingAssumption DEF StreamInv, StreamTypeOK, Version
<1>2. /\ cache' = [cache EXCEPT ![g] = venue]
      /\ batch' = IF g = leader /\ cache[g] # venue /\ batch[g] = Nothing
                    THEN [batch EXCEPT ![g] = cache[g]] ELSE batch
  BY DEF Learn
<1>3. \A h \in Gateway : /\ cache[h] <= venue /\ cache[h] \in Nat
                         /\ batch[h] # Nothing => batch[h] <= cache[h] /\ batch[h] \in Nat
                         /\ h # leader => batch[h] = Nothing
  BY <1>1 DEF StreamInv, FeedInv, Version
<1>4. venue \in Nat
  BY <1>1 DEF Version
<1>5. cache' \in [Gateway -> Version] /\ batch' \in [Gateway -> Version \cup {Nothing}]
  BY <1>1, <1>2
<1>6. \A h \in Gateway :
        /\ cache'[h] = IF h = g THEN venue ELSE cache[h]
        /\ batch'[h] = IF h = g /\ g = leader /\ batch[g] = Nothing THEN cache[g] ELSE batch[h]
  BY <1>1, <1>2
<1>7. \A h \in Gateway : cache'[h] <= venue /\ (batch'[h] # Nothing => batch'[h] <= cache'[h])
  BY <1>3, <1>4, <1>6
<1>8. leader # Nothing => Flushed' = Flushed
  <2>1. SUFFICES ASSUME leader # Nothing PROVE Flushed' = Flushed
    OBVIOUS
  <2>2. leader \in Gateway /\ cache[leader] # Nothing
    BY <1>1, <2>1
  <2>3. Flushed' = IF batch'[leader] = Nothing THEN cache'[leader] ELSE batch'[leader]
    BY DEF Flushed
  <2> QED
    BY <1>6, <2>2, <2>3 DEF Flushed
<1> QED
  BY <1>3, <1>5, <1>6, <1>7, <1>8

\* What is stored or about to be outlasts calm steps.
LEMMA StoreCalm ==
  ASSUME StreamInv, Calm(Now, Now')
  PROVE  Stored(Now', store) /\ \A g \in Gateway : Stored(Now', put[g])
<1>1. Stored(Now, store) /\ \A g \in Gateway : Stored(Now, put[g])
  BY DEF StreamInv, FeedInv
<1>2. \A x : Stored(Now, x) => Stored(Now', x)
  BY StoredCalm
<1> QED
  BY <1>1, <1>2

\* The venue, the store, and what a gateway does without sending a frame.
LEMMA QuietKeeps ==
  ASSUME StreamInv,
         \/ VenueMoves \/ StoreExpires
         \/ \E g \in Gateway :
              Tick(g) \/ Rewrite(g) \/ PutArrives(g) \/ Lose(g) \/ (Load(g) /\ g # leader)
  PROVE  StreamInv'
<1>0. /\ StreamTypeOK /\ FeedInv(Now) /\ Now \in Context /\ Nothing \notin Version
      /\ leader \in Gateway \cup {Nothing} /\ MaxChanges \in Nat
      /\ \A g \in Gateway : put[g] \in Snap \cup {Nothing}
  <2>1. StreamTypeOK /\ FeedInv(Now) /\ Now \in Context /\ MaxChanges \in Nat
    BY NowType, BoundAssumption DEF StreamInv
  <2>2. Nothing \notin Version
    BY NothingAssumption DEF Version
  <2> QED
    BY <2>1, <2>2 DEF StreamTypeOK
<1>1. UNCHANGED <<wire, tab>> => Flying' = Flying
  BY DEF Flying, Content
<1>2. Calm(Now, Now') => Stored(Now', store) /\ \A g \in Gateway : Stored(Now', put[g])
  BY StoreCalm
<1>3. CASE VenueMoves
  <2>1. /\ venue + takeovers < MaxChanges /\ venue' = venue + 1
        /\ UNCHANGED <<leader, takeovers, cache, batch, seq, put, store, wire, faults, tab>>
    BY <1>3 DEF VenueMoves
  <2>2. Calm(Now, Now')
    BY <1>1, <2>1, NowCalm DEF Flushed
  <2>3. venue' \in Version /\ venue \in Nat
    BY <1>0, <2>1 DEF StreamTypeOK, Version, Term
  <2>4. StreamTypeOK'
    BY <1>0, <2>1, <2>3 DEF StreamTypeOK
  <2>5. \A g \in Gateway : cache[g] <= venue' /\ (batch[g] # Nothing => batch[g] <= cache[g])
    <3>1. \A g \in Gateway : cache[g] \in Version
      BY <1>0 DEF StreamTypeOK
    <3>2. \A g \in Gateway : cache[g] <= venue /\ (batch[g] # Nothing => batch[g] <= cache[g])
      BY <1>0 DEF FeedInv
    <3>3. \A n \in Version : n <= venue => n <= venue + 1
      BY <2>3 DEF Version
    <3> QED
      BY <2>1, <3>1, <3>2, <3>3
  <2>6. FeedInv(Now)'
    BY <1>0, <1>2, <2>1, <2>2, <2>5 DEF FeedInv
  <2> QED
    BY <2>1, <2>2, <2>4, <2>6, QuietStep
<1>4. CASE StoreExpires
  <2>1. store' = Nothing /\ UNCHANGED <<venue, leader, takeovers, cache, batch, seq, put, wire, faults, tab>>
    BY <1>4 DEF StoreExpires, feed
  <2>2. Calm(Now, Now')
    BY <1>1, <2>1, NowCalm DEF Flushed
  <2>3. StreamTypeOK'
    BY <1>0, <2>1 DEF StreamTypeOK
  <2>4. FeedInv(Now)'
    BY <1>0, <1>2, <2>1, <2>2 DEF FeedInv, Stored
  <2> QED
    BY <2>1, <2>2, <2>3, <2>4, QuietStep
<1>5. ASSUME NEW g \in Gateway, Tick(g) \/ (Load(g) /\ g # leader) PROVE StreamInv'
  <2>1. /\ cache[g] # venue /\ Learn(g)
        /\ UNCHANGED <<venue, leader, takeovers, seq, put, store, wire, faults, tab>>
    BY <1>5 DEF Tick, Load
  <2>2. /\ cache' \in [Gateway -> Version] /\ batch' \in [Gateway -> Version \cup {Nothing}]
        /\ leader # Nothing => Flushed' = Flushed
        /\ \A h \in Gateway : h # leader => batch'[h] = Nothing
        /\ \A h \in Gateway : cache'[h] <= venue /\ (batch'[h] # Nothing => batch'[h] <= cache'[h])
    BY <2>1, Learned
  <2>3. Calm(Now, Now')
    BY <1>1, <2>1, <2>2, NowCalm
  <2>4. StreamTypeOK'
    BY <1>0, <2>1, <2>2 DEF StreamTypeOK
  <2>5. FeedInv(Now)'
    BY <1>0, <1>2, <2>1, <2>2, <2>3 DEF FeedInv
  <2> QED
    BY <2>1, <2>3, <2>4, <2>5, QuietStep
<1>6. ASSUME NEW g \in Gateway, Rewrite(g) PROVE StreamInv'
  <2>1. PICK x : x = SnapOf(g)
    OBVIOUS
  <2>2. /\ g = leader /\ put' = [put EXCEPT ![g] = x]
        /\ UNCHANGED <<venue, leader, takeovers, cache, batch, seq, store, wire, faults, tab>>
    BY <1>6, <2>1 DEF Rewrite, WriteSnapshot, feed
  <2>3. leader # Nothing
    BY <2>2, NothingAssumption
  <2>4. Calm(Now, Now')
    BY <1>1, <2>2, NowCalm DEF Flushed
  <2>5. x \in Snap /\ Honest(Now, x)
    BY <1>0, <2>1, <2>2, <2>3, SnapOfType, LeaderHonest
  <2>6. Stored(Now', x)
    BY <2>4, <2>5, HonestCalm DEF Stored
  <2>7. StreamTypeOK'
    BY <1>0, <2>2, <2>5 DEF StreamTypeOK
  <2>8. FeedInv(Now)'
    <3>1. \A h \in Gateway : put'[h] = IF h = g THEN x ELSE put[h]
      BY <1>0, <2>2 DEF StreamTypeOK
    <3> QED
      BY <1>0, <1>2, <2>2, <2>4, <2>6, <3>1 DEF FeedInv
  <2> QED
    BY <2>2, <2>4, <2>7, <2>8, QuietStep
<1>7. ASSUME NEW g \in Gateway, PutArrives(g) PROVE StreamInv'
  <2>1. /\ store' = put[g] /\ put' = [put EXCEPT ![g] = Nothing]
        /\ UNCHANGED <<venue, leader, takeovers, cache, batch, seq, wire, faults, tab>>
    BY <1>7 DEF PutArrives, feed
  <2>2. Calm(Now, Now')
    BY <1>1, <2>1, NowCalm DEF Flushed
  <2>3. StreamTypeOK'
    BY <1>0, <2>1 DEF StreamTypeOK
  <2>4. FeedInv(Now)'
    <3>1. \A h \in Gateway : put'[h] = IF h = g THEN Nothing ELSE put[h]
      BY <1>0, <2>1 DEF StreamTypeOK
    <3>2. Stored(Now', Nothing)
      BY DEF Stored
    <3> QED
      BY <1>0, <1>2, <2>1, <2>2, <3>1, <3>2 DEF FeedInv
  <2> QED
    BY <2>1, <2>2, <2>3, <2>4, QuietStep
<1>8. ASSUME NEW g \in Gateway, Lose(g) PROVE StreamInv'
  <2>1. /\ g = leader /\ venue + takeovers < MaxChanges /\ leader' = Nothing
        /\ batch' = [batch EXCEPT ![g] = Nothing]
        /\ UNCHANGED <<venue, takeovers, cache, seq, put, store, wire, faults, tab>>
    BY <1>8 DEF Lose
  <2>2. Calm(Now, Now')
    BY <1>1, <2>1, NowCalm
  <2>3. StreamTypeOK'
    BY <1>0, <2>1 DEF StreamTypeOK
  <2>4. \A h \in Gateway : batch'[h] = Nothing
    <3>1. \A h \in Gateway : batch'[h] = IF h = g THEN Nothing ELSE batch[h]
      BY <1>0, <2>1 DEF StreamTypeOK
    <3> QED
      BY <1>0, <2>1, <3>1 DEF FeedInv
  <2>5. takeovers' < MaxChanges
    BY <1>0, <2>1 DEF StreamTypeOK, Version, Term
  <2>6. FeedInv(Now)'
    BY <1>0, <1>2, <2>1, <2>2, <2>4, <2>5 DEF FeedInv
  <2> QED
    BY <2>1, <2>2, <2>3, <2>6, QuietStep
<1> QED
  BY <1>3, <1>4, <1>5, <1>6, <1>7, <1>8

\* A frame sent by l.
Sends(l, f) == wire' = [wire EXCEPT ![l] = Append(@, f)]

\* Such a step puts no other frame on its way.
LEMMA SentFlies ==
  ASSUME StreamTypeOK, NEW l \in Gateway, NEW f \in Frame, Sends(l, f), tab' = tab
  PROVE  Flying' \subseteq Flying \cup {f}
<1>1. ASSUME NEW g \in Gateway PROVE Content(wire'[g]) \subseteq Flying \cup {f}
  <2>1. wire[g] \in Seq(Frame) /\ wire'[g] = IF g = l THEN Append(wire[g], f) ELSE wire[g]
    BY DEF StreamTypeOK, Frame, Sends
  <2>2. Content(wire[g]) \subseteq Flying
    BY DEF Flying
  <2> QED
    BY <2>1, <2>2, MoreContent
<1>2. \A b \in Browser : Content(tab'[b].queue) \subseteq Flying
  BY DEF Flying
<1> QED
  BY <1>1, <1>2 DEF Flying

\* A step in which l sends a frame as the leader keeps the invariant if it keeps each part.
LEMMA SendingStep ==
  ASSUME StreamInv, NEW l \in Gateway, NEW f \in Frame, Sends(l, f), tab' = tab, leader' = l,
         leader = l \/ takeovers' # 0, takeovers' = 0 => takeovers = 0,
         StreamTypeOK', FeedInv(Now)', GoodFrame(Now', f),
         \A x : GoodFrame(Now, x) => GoodFrame(Now', x),
         leader = l => WireInv(Now', Append(wire[l], f)),
         \A b \in Browser : TabInv(Now', tab[b], Append(wire[l], f))
  PROVE  StreamInv'
<1>1. \A x \in Flying' : GoodFrame(Now', x)
  <2>1. Flying' \subseteq Flying \cup {f}
    BY SentFlies DEF StreamInv
  <2> QED
    BY <2>1 DEF StreamInv
<1>2. /\ Now'.term = takeovers' /\ Now'.lead = l /\ l # Nothing
      /\ Now.term = takeovers /\ Now.lead = leader
  BY NothingAssumption DEF Now
<1>3. Out' = Append(wire[l], f)
  BY <1>2 DEF Out, Sends, StreamInv, StreamTypeOK
<1>4. WireInv(Now', Out')
  BY <1>2, <1>3 DEF WireInv
<1>5. Alone(Now)'
  <2>1. \A g \in Gateway : g # l => wire'[g] = wire[g]
    BY DEF Sends, StreamInv, StreamTypeOK
  <2> QED
    BY <1>2, <2>1 DEF StreamInv, Alone
<1> QED
  BY <1>1, <1>3, <1>4, <1>5 DEF StreamInv

\* A load of the leader sends rows with everything its gateway knows.
LEMMA LoadKeeps ==
  ASSUME StreamInv, NEW g \in Gateway, Load(g), g = leader
  PROVE  StreamInv'
<1>1. /\ StreamTypeOK /\ FeedInv(Now) /\ Now \in Context /\ leader # Nothing /\ leader \in Gateway
      /\ venue \in Version /\ seq[g] \in Nat /\ wire[g] \in Seq(Frame) /\ Out = wire[g]
      /\ WireInv(Now, wire[g])
  <2>1. Out = wire[g] /\ leader # Nothing
    BY NothingAssumption DEF Out
  <2> QED
    BY <2>1, NowType DEF StreamInv, StreamTypeOK, Frame
<1>2. PICK f : f = [SnapOf(g) EXCEPT !.ver = venue]
  OBVIOUS
<1>3. /\ cache[g] # venue /\ Learn(g) /\ Sends(g, f) /\ put' = [put EXCEPT ![g] = f]
      /\ UNCHANGED <<venue, leader, takeovers, seq, store, faults, tab>>
  BY <1>2 DEF Load, Publish, WriteSnapshot, Sends
<1>4. f \in Snap /\ f.t = "snap" /\ f.seq = seq[g] /\ f.ver = venue /\ f.term = takeovers
  BY <1>1, <1>2 DEF SnapOf, Snap, StreamTypeOK
<1>5. f \in Frame /\ f.term # Nothing
  <2>1. takeovers \in Nat
    BY <1>1, BoundAssumption DEF StreamTypeOK, Term
  <2> QED
    BY <1>4, <2>1, NothingAssumption DEF Frame
<1>6. Honest(Now, f)
  <2>1. f.ver >= cache[leader]
    <3>1. cache[leader] <= venue /\ cache[leader] \in Version
      BY <1>1 DEF FeedInv, StreamTypeOK
    <3> QED
      BY <1>1, <1>4, <3>1 DEF Version
  <2> QED
    BY <1>1, <1>4, <2>1, RowsHonest
<1>7. /\ cache' \in [Gateway -> Version] /\ batch' \in [Gateway -> Version \cup {Nothing}]
      /\ leader # Nothing => Flushed' = Flushed
      /\ \A h \in Gateway : h # leader => batch'[h] = Nothing
      /\ \A h \in Gateway : cache'[h] <= venue /\ (batch'[h] # Nothing => batch'[h] <= cache'[h])
  BY <1>3, Learned
<1>8. Calm(Now, Now')
  <2>1. Flying' \subseteq Flying \cup {f}
    BY <1>1, <1>3, <1>5, SentFlies
  <2>2. \A x \in Flying' : x.t = "q" => x \in Flying
    BY <1>4, <2>1
  <2> QED
    BY <1>3, <1>7, <2>2, NowCalm
<1>9. Honest(Now', f) /\ Stored(Now', f) /\ GoodFrame(Now', f)
  BY <1>4, <1>5, <1>6, <1>8, HonestCalm DEF Stored, GoodFrame
<1>10. StreamTypeOK'
  <2>1. wire' \in [Gateway -> Seq(Snap \cup Q)]
    BY <1>1, <1>3, <1>5 DEF StreamTypeOK, Sends, Frame
  <2>2. put' \in [Gateway -> Snap \cup {Nothing}]
    BY <1>1, <1>3, <1>4 DEF StreamTypeOK
  <2> QED
    BY <1>1, <1>3, <1>7, <2>1, <2>2 DEF StreamTypeOK
<1>11. FeedInv(Now)'
  <2>1. \A h \in Gateway : put'[h] = IF h = g THEN f ELSE put[h]
    BY <1>1, <1>3 DEF StreamTypeOK
  <2>2. Stored(Now', store) /\ \A h \in Gateway : Stored(Now', put[h])
    BY <1>8, StoreCalm
  <2>3. Stored(Now', store') /\ \A h \in Gateway : Stored(Now', put'[h])
    BY <1>3, <1>9, <2>1, <2>2
  <2> QED
    BY <1>1, <1>3, <1>7, <2>3 DEF FeedInv
<1>12. \A x : GoodFrame(Now, x) => GoodFrame(Now', x)
  BY <1>8, FrameCalm
<1>13. WireInv(Now', Append(wire[g], f))
  <2>1. /\ Now.number = seq[g] /\ Now'.number = seq[g] /\ Now'.term = takeovers
        /\ Now.term = takeovers /\ Now.lead # Nothing
    BY <1>1, <1>3 DEF Now
  <2> QED
    BY <1>1, <1>4, <1>5, <2>1, WireLonger
<1>14. ASSUME NEW b \in Browser
       PROVE  TabInv(Now', tab[b], Append(wire[g], f))
  <2>1. TabInv(Now, tab[b], wire[g])
    BY <1>1 DEF StreamInv
  <2>2. TabInv(Now, tab[b], Append(wire[g], f))
    BY <1>1, <1>5, <2>1, TabLonger
  <2> QED
    BY <1>8, <2>2, TabCalm
<1> QED
  BY <1>3, <1>5, <1>9, <1>10, <1>11, <1>12, <1>13, <1>14, SendingStep

\* A gateway that takes the lead announces its rows under a new term.
LEMMA TakeKeeps ==
  ASSUME StreamInv, NEW g \in Gateway, Take(g)
  PROVE  StreamInv'
<1>1. /\ StreamTypeOK /\ FeedInv(Now) /\ Now \in Context /\ leader = Nothing
      /\ takeovers \in Nat /\ seq[g] \in Nat /\ wire[g] \in Seq(Frame)
      /\ cache[g] \in Version /\ batch[g] = Nothing /\ g # Nothing
  <2>1. StreamTypeOK /\ FeedInv(Now) /\ Now \in Context /\ leader = Nothing /\ g # Nothing
    BY NowType, NothingAssumption DEF StreamInv, Take
  <2>2. takeovers \in Nat
    BY <2>1, BoundAssumption DEF StreamTypeOK, Term
  <2> QED
    BY <2>1, <2>2 DEF StreamTypeOK, FeedInv, Frame
<1>2. PICK f : f = [SnapOf(g) EXCEPT !.term = takeovers + 1]
  OBVIOUS
<1>3. /\ leader' = g /\ takeovers' = takeovers + 1 /\ Sends(g, f) /\ put' = [put EXCEPT ![g] = f]
      /\ UNCHANGED <<venue, cache, batch, seq, store, faults, tab>>
  BY <1>2 DEF Take, Publish, WriteSnapshot, Sends
<1>4. takeovers' \in Term /\ takeovers' \in Nat /\ takeovers' # 0 /\ takeovers' # Nothing
  <2>1. takeovers < MaxChanges /\ MaxChanges \in Nat
    BY <1>1, BoundAssumption DEF FeedInv
  <2>2. takeovers' \in Term /\ takeovers' \in Nat /\ takeovers' # 0
    BY <1>1, <1>3, <2>1 DEF Term
  <2> QED
    BY <2>2, NothingAssumption
<1>5. f \in Snap /\ f.t = "snap" /\ f.seq = seq[g] /\ f.ver = cache[g] /\ f.term = takeovers'
  BY <1>1, <1>2, <1>3, <1>4 DEF SnapOf, Snap, StreamTypeOK
<1>6. f \in Frame
  BY <1>5 DEF Frame
<1>7. /\ Now'.term = Now.term + 1 /\ Now'.term = takeovers' /\ Now'.lead = g
      /\ Now'.number = seq[g] /\ Now'.flushed = cache[g]
  <2>1. Flushed' = cache[g]
    BY <1>1, <1>3 DEF Flushed
  <2> QED
    BY <1>1, <1>3, <2>1 DEF Now
<1>8. Now'.deltas \subseteq Now.deltas
  <2>1. Flying' \subseteq Flying \cup {f}
    BY <1>1, <1>3, <1>6, SentFlies
  <2> QED
    BY <1>5, <2>1 DEF Now
<1>9. \A x : Honest(Now, x) => Honest(Now', x) /\ x.term # Now'.term
  BY <1>1, <1>7, <1>8, HonestTake
<1>10. Honest(Now', f)
  <2>1. \A y \in Now'.deltas : y.term # f.term
    <3>1. \A y \in Now.deltas : y \in Flying
      BY NowFields
    <3>2. \A y \in Now.deltas : Honest(Now, y)
      BY <3>1 DEF StreamInv, GoodFrame
    <3> QED
      BY <1>5, <1>7, <1>8, <1>9, <3>2
  <2>2. f.seq \in Nat \cup {-1} /\ f.ver \in Version /\ f.term \in Term \cup {Nothing}
    BY <1>5 DEF Snap
  <2>3. f.seq <= Now'.number /\ f.ver >= Now'.flushed /\ f.term <= Now'.term
    BY <1>1, <1>4, <1>5, <1>7 DEF Version
  <2> QED
    BY <2>1, <2>2, <2>3 DEF Honest
<1>11. StreamTypeOK'
  <2>1. wire' \in [Gateway -> Seq(Snap \cup Q)]
    BY <1>1, <1>3, <1>6 DEF StreamTypeOK, Sends, Frame
  <2>2. put' \in [Gateway -> Snap \cup {Nothing}]
    BY <1>1, <1>3, <1>5 DEF StreamTypeOK
  <2> QED
    BY <1>1, <1>3, <1>4, <2>1, <2>2 DEF StreamTypeOK
<1>12. FeedInv(Now)'
  <2>1. \A h \in Gateway : put'[h] = IF h = g THEN f ELSE put[h]
    BY <1>1, <1>3 DEF StreamTypeOK
  <2>2. Stored(Now', f) /\ Stored(Now', store) /\ \A h \in Gateway : Stored(Now', put[h])
    BY <1>1, <1>5, <1>9, <1>10 DEF FeedInv, Stored
  <2>3. Stored(Now', store') /\ \A h \in Gateway : Stored(Now', put'[h])
    BY <1>3, <2>1, <2>2
  <2>4. \A h \in Gateway : batch'[h] = Nothing /\ cache'[h] <= venue'
    BY <1>1, <1>3, NothingAssumption DEF FeedInv
  <2> QED
    BY <1>1, <1>3, <2>3, <2>4 DEF FeedInv
<1>13. GoodFrame(Now', f)
  BY <1>4, <1>5, <1>6, <1>10 DEF GoodFrame
<1>14. ASSUME NEW x, GoodFrame(Now, x) PROVE GoodFrame(Now', x)
  BY <1>9, <1>14 DEF GoodFrame, Forward
<1>15. ASSUME NEW b \in Browser
       PROVE  TabInv(Now', tab[b], Append(wire[g], f))
  <2>1. PICK t : t = tab[b]
    OBVIOUS
  <2>2. TabInv(Now, t, Out)
    BY <2>1 DEF StreamInv
  <2>3. Announced(Now', Append(wire[g], f))
    BY <1>1, <1>5, <1>6, <1>7, MoreContent DEF Announced
  <2>4. Reset(Now', t, Append(wire[g], f))
    BY <2>3 DEF Reset
  <2>5. Nearby(Now', t, Append(wire[g], f))
    BY <1>4, <1>7 DEF Nearby
  <2>6. Honest(Now', t) /\ Stored(Now', t.answer) /\ Stored(Now', t.resync)
    BY <1>9, <2>2 DEF TabInv, Stored
  <2> QED
    BY <2>1, <2>2, <2>4, <2>5, <2>6 DEF TabInv
<1> QED
  <2>1. leader # g
    BY <1>1
  <2> QED
    BY <1>3, <1>4, <1>6, <1>11, <1>12, <1>13, <1>14, <1>15, <2>1, SendingStep

\* A flush sends what was learned since the last one, under the next number.
LEMMA FlushKeeps ==
  ASSUME StreamInv, NEW g \in Gateway, Flush(g)
  PROVE  StreamInv'
<1>1. /\ StreamTypeOK /\ FeedInv(Now) /\ Now \in Context /\ g = leader /\ leader # Nothing
      /\ batch[g] # Nothing /\ batch[g] \in Version /\ cache[g] \in Version /\ seq[g] \in Nat
      /\ takeovers \in Term /\ wire[g] \in Seq(Frame) /\ Out = wire[g]
  <2>1. g = leader /\ leader # Nothing /\ batch[g] # Nothing
    BY NothingAssumption DEF Flush
  <2> QED
    BY <2>1, NowType DEF StreamInv, StreamTypeOK, Frame, Out
<1>2. PICK n \in Nat : n = seq[g]
  BY <1>1
<1>3. PICK f : f = [t |-> "q", seq |-> n + 1, from |-> batch[g], ver |-> cache[g], term |-> takeovers]
  OBVIOUS
<1>4. /\ seq' = [seq EXCEPT ![g] = n + 1] /\ Sends(g, f) /\ batch' = [batch EXCEPT ![g] = Nothing]
      /\ UNCHANGED <<venue, leader, takeovers, cache, put, store, faults, tab>>
  BY <1>2, <1>3 DEF Flush, Publish, Sends
<1>5. f.seq = n + 1 /\ f.from = batch[g] /\ f.ver = cache[g] /\ f.term = takeovers /\ f.t = "q"
  BY <1>3
<1>6. f \in Q /\ f \in Frame
  BY <1>1, <1>3 DEF Q, Frame
<1>7. f.term \in Nat /\ f.term # Nothing
  BY <1>1, <1>5, BoundAssumption, NothingAssumption DEF Term
<1>8. PICK c : c = Now
  OBVIOUS
<1>9. PICK d : d = Now'
  OBVIOUS
<1>10. /\ c.term = takeovers /\ c.lead = g /\ c.number = n /\ c.flushed = f.from
       /\ d.term = takeovers /\ d.lead = g /\ d.number = n + 1 /\ d.flushed = f.ver
  <2>1. Flushed = batch[g] /\ Flushed' = cache[g] /\ seq'[g] = n + 1
    BY <1>1, <1>4 DEF Flushed, StreamTypeOK
  <2> QED
    BY <1>1, <1>2, <1>4, <1>5, <1>8, <1>9, <2>1 DEF Now
<1>11. d.deltas \subseteq c.deltas \cup {f}
  <2>1. Flying' \subseteq Flying \cup {f}
    BY <1>1, <1>4, <1>6, SentFlies
  <2> QED
    BY <1>8, <1>9, <2>1 DEF Now
<1>12. f.from \in Nat /\ f.ver \in Nat /\ f.from <= f.ver
  <2>1. batch[g] <= cache[g]
    BY <1>1 DEF FeedInv
  <2> QED
    BY <1>1, <1>5, <2>1 DEF Version
<1>13. ASSUME NEW x, Honest(c, x)
       PROVE  Honest(d, x)
  <2>1. x.seq \in Nat \cup {-1} /\ x.ver \in Nat
    BY <1>13 DEF Honest, Version
  <2>2. x.term = takeovers => x.seq <= n /\ (x.seq = n => x.ver >= f.from)
    BY <1>1, <1>10, <1>13 DEF Honest
  <2>3. x.term = f.term => Covers(x, f)
    BY <1>5, <1>12, <2>1, <2>2 DEF Covers
  <2>4. \A y \in d.deltas : x.term = y.term => Covers(x, y)
    BY <1>11, <1>13, <2>3 DEF Honest
  <2>5. d.lead # Nothing /\ x.term = d.term =>
          x.seq <= d.number /\ (x.seq = d.number => x.ver >= d.flushed)
    BY <1>10, <2>1, <2>2
  <2> QED
    BY <1>10, <1>13, <2>4, <2>5 DEF Honest
<1>14. ASSUME NEW y \in c.deltas, y.term = takeovers
       PROVE  y.ver \in Nat /\ y.from \in Nat /\ y.ver <= f.ver /\ y.from <= f.ver
  <2>1. y \in Flying /\ y.t = "q" /\ y \in Q
    BY <1>1, <1>8, <1>14 DEF Now, Context
  <2>2. Forward(c, y)
    BY <1>8, <2>1 DEF StreamInv, GoodFrame
  <2>3. y.ver \in Nat /\ y.from \in Nat /\ y.from <= y.ver
    BY <2>1, <2>2 DEF Q, Version, Forward
  <2>4. y.ver <= f.from
    BY <1>1, <1>10, <1>14, <2>2 DEF Forward
  <2> QED
    BY <1>12, <2>3, <2>4
<1>15. GoodFrame(d, f)
  <2>1. \A y \in d.deltas : f.term = y.term => Covers(f, y)
    <3>1. Covers(f, f)
      BY <1>12 DEF Covers
    <3>2. ASSUME NEW y \in c.deltas, y.term = takeovers PROVE Covers(f, y)
      BY <1>14, <3>2 DEF Covers
    <3> QED
      BY <1>5, <1>11, <3>1, <3>2
  <2>2. Honest(d, f)
    <3>1. f.seq \in Nat /\ f.ver \in Version /\ f.term \in Term
      BY <1>1, <1>5, <1>2
    <3>2. f.term <= d.term /\ f.seq <= d.number /\ f.ver >= d.flushed
      BY <1>2, <1>5, <1>7, <1>10, <1>12
    <3> QED
      BY <2>1, <3>1, <3>2 DEF Honest
  <2>3. Forward(d, f)
    BY <1>10, <1>12 DEF Forward
  <2> QED
    BY <1>6, <1>7, <2>2, <2>3 DEF GoodFrame
<1>16. ASSUME NEW x, GoodFrame(c, x) PROVE GoodFrame(d, x)
  <2>1. x.t = "q" => Forward(d, x)
    <3>1. x.t = "q" => x \in Q
      BY <1>16 DEF GoodFrame, Frame, Snap
    <3>2. SUFFICES ASSUME x \in Q, Forward(c, x) PROVE Forward(d, x)
      BY <1>16, <3>1 DEF GoodFrame
    <3>3. x.ver \in Nat
      BY <3>2 DEF Q, Version
    <3>4. x.term = takeovers => x.ver <= f.ver
      BY <1>1, <1>10, <1>12, <3>2, <3>3 DEF Forward
    <3> QED
      BY <1>10, <3>2, <3>4 DEF Forward
  <2> QED
    BY <1>13, <1>16, <2>1 DEF GoodFrame
<1>17. StreamTypeOK'
  <2>1. wire' \in [Gateway -> Seq(Snap \cup Q)]
    BY <1>1, <1>4, <1>6 DEF StreamTypeOK, Sends, Frame
  <2>2. seq' \in [Gateway -> Nat] /\ batch' \in [Gateway -> Version \cup {Nothing}]
    BY <1>1, <1>2, <1>4 DEF StreamTypeOK
  <2> QED
    BY <1>1, <1>4, <2>1, <2>2 DEF StreamTypeOK
<1>18. FeedInv(Now)'
  <2>1. \A h \in Gateway : batch'[h] = IF h = g THEN Nothing ELSE batch[h]
    BY <1>1, <1>4 DEF StreamTypeOK
  <2>2. \A h \in Gateway : /\ h # leader' => batch'[h] = Nothing
                           /\ cache'[h] <= venue' /\ (batch'[h] # Nothing => batch'[h] <= cache'[h])
    BY <1>1, <1>4, <2>1 DEF FeedInv
  <2>3. \A x : Stored(c, x) => Stored(d, x)
    BY <1>13 DEF Stored
  <2>4. Stored(d, store) /\ \A h \in Gateway : Stored(d, put[h])
    BY <1>1, <1>8, <2>3 DEF FeedInv
  <2>5. Stored(Now', store') /\ \A h \in Gateway : Stored(Now', put'[h])
    BY <1>4, <1>9, <2>4
  <2> QED
    BY <1>1, <1>4, <2>2, <2>5 DEF FeedInv
<1>19. WireInv(d, Append(wire[g], f))
  <2>1. c.number \in Nat /\ d.number \in Nat
    BY <1>2, <1>10
  <2>2. WireInv(c, wire[g])
    BY <1>1, <1>8 DEF StreamInv
  <2> QED
    BY <1>1, <1>5, <1>6, <1>10, <2>1, <2>2, WireLonger
<1>20. ASSUME NEW b \in Browser PROVE TabInv(d, tab[b], Append(wire[g], f))
  <2>1. PICK t : t = tab[b]
    OBVIOUS
  <2>2. PICK v : v = Append(wire[g], f)
    OBVIOUS
  <2>3. TabInv(c, t, v)
    <3>1. TabInv(c, t, wire[g])
      BY <1>1, <1>8, <2>1 DEF StreamInv
    <3> QED
      BY <1>1, <1>6, <2>2, <3>1, TabLonger
  <2>4. Reset(d, t, v)
    BY <1>1, <1>10, <2>3 DEF TabInv, Reset, Told, Announced
  <2>5. DeltaOn(v, n + 1)
    BY <1>1, <1>5, <1>6, <2>2, MoreContent DEF DeltaOn
  <2>6. \A i \in 1..(n + 1) : i \in 1..n \/ i = n + 1
    BY <1>2
  <2>7. Nearby(d, t, v)
    BY <1>1, <1>10, <2>3, <2>5, <2>6 DEF TabInv, Nearby
  <2>8. Honest(d, t) /\ Stored(d, t.answer) /\ Stored(d, t.resync)
    BY <1>13, <2>3 DEF TabInv, Stored
  <2> QED
    BY <2>1, <2>2, <2>3, <2>4, <2>7, <2>8 DEF TabInv
<1> QED
  <2>1. /\ GoodFrame(Now', f) /\ WireInv(Now', Append(wire[g], f))
        /\ \A x : GoodFrame(Now, x) => GoodFrame(Now', x)
        /\ \A b \in Browser : TabInv(Now', tab[b], Append(wire[g], f))
    BY <1>8, <1>9, <1>15, <1>16, <1>19, <1>20
  <2> QED
    BY <1>1, <1>4, <1>6, <1>17, <1>18, <2>1, SendingStep

\* Nothing was sent yet, and the rows there are have no change.
LEMMA StreamStarts == StreamInit => StreamInv
<1> SUFFICES ASSUME StreamInit PROVE StreamInv
  OBVIOUS
<1>1. /\ venue = 0 /\ takeovers = 0 /\ faults = 0 /\ leader \in Gateway /\ leader # Nothing
      /\ cache = [g \in Gateway |-> 0] /\ batch = [g \in Gateway |-> Nothing]
      /\ seq = [g \in Gateway |-> 0] /\ store = SnapOf(leader) /\ wire = [g \in Gateway |-> <<>>]
      /\ put = [g \in Gateway |-> Nothing]
  BY NothingAssumption DEF StreamInit
<1>2. 0 \in Version /\ 0 \in Term /\ 0 \in 0..MaxFaults /\ Nothing # 0
  BY BoundAssumption, NothingAssumption DEF Version, Term
<1>3. /\ store = [t |-> "snap", seq |-> 0, ver |-> 0, term |-> 0]
      /\ store \in Snap /\ store # Nothing /\ store.seq = 0 /\ store.ver = 0 /\ store.term = 0
  <2>1. store = [t |-> "snap", seq |-> 0, ver |-> 0, term |-> 0]
    BY <1>1 DEF SnapOf
  <2>2. store \in Snap
    BY <1>2, <2>1 DEF Snap
  <2> QED
    BY <2>1, <2>2, NothingAssumption
<1>4. ASSUME NEW b \in Browser, NEW r, r = tab[b]
      PROVE  /\ r \in Tab /\ Shape(r) /\ r.queue = <<>> /\ r.answer = Nothing /\ r.resync = Nothing
             /\ r.ver = 0 /\ r.whole /\ ~r.resyncing /\ r.home \in Gateway
             /\ \/ r.sub = "waiting" /\ r.seq = -1 /\ r.term = Nothing /\ r.home # leader
                \/ r.sub = "live" /\ r.seq = 0 /\ r.term = 0
  <2>1. PICK e : e = <<>>
    OBVIOUS
  <2>2. e \in Seq(Snap \cup Q)
    BY <2>1
  <2>3. \A g \in Gateway : NewTab(g) =
          [home |-> g, sub |-> "waiting", queue |-> e, answer |-> Nothing,
           full |-> FALSE, stalled |-> FALSE, resyncing |-> FALSE, resync |-> Nothing,
           seq |-> -1, ver |-> 0, term |-> Nothing, whole |-> TRUE,
           lost |-> FALSE, aged |-> FALSE]
    BY <2>1 DEF NewTab
  <2>4. \/ \E g \in Gateway \ {leader} : r = NewTab(g)
        \/ r = [NewTab(leader) EXCEPT !.sub = "live", !.seq = 0, !.term = 0]
    BY <1>4 DEF StreamInit
  <2>5. ASSUME NEW g \in Gateway \ {leader}, r = NewTab(g)
        PROVE  /\ r \in Tab /\ Shape(r) /\ r.queue = e /\ r.answer = Nothing /\ r.resync = Nothing
               /\ r.ver = 0 /\ r.whole /\ ~r.resyncing /\ r.home = g
               /\ r.sub = "waiting" /\ r.seq = -1 /\ r.term = Nothing
    <3>1. r = [home |-> g, sub |-> "waiting", queue |-> e, answer |-> Nothing,
               full |-> FALSE, stalled |-> FALSE, resyncing |-> FALSE, resync |-> Nothing,
               seq |-> -1, ver |-> 0, term |-> Nothing, whole |-> TRUE,
               lost |-> FALSE, aged |-> FALSE]
      BY <2>3, <2>5
    <3>2. /\ r.home = g /\ r.sub = "waiting" /\ r.queue = e /\ r.answer = Nothing
          /\ ~r.full /\ ~r.stalled /\ ~r.resyncing /\ r.resync = Nothing
          /\ r.seq = -1 /\ r.ver = 0 /\ r.term = Nothing /\ r.whole
      BY <3>1
    <3>3. r \in Tab
      <4>1. \A s \in {-1} : s \in Nat \cup {-1}
        OBVIOUS
      <4> QED
        BY <1>2, <2>2, <3>1, <4>1 DEF Tab
    <3>4. Shape(r)
      BY <2>1, <3>2 DEF Shape
    <3> QED
      BY <3>2, <3>3, <3>4
  <2>6. ASSUME r = [NewTab(leader) EXCEPT !.sub = "live", !.seq = 0, !.term = 0]
        PROVE  /\ r \in Tab /\ r.queue = e /\ r.answer = Nothing /\ r.resync = Nothing
               /\ r.ver = 0 /\ r.whole /\ ~r.resyncing /\ r.home = leader
               /\ r.sub = "live" /\ r.seq = 0 /\ r.term = 0 /\ ~r.full /\ ~r.stalled
    <3>1. r = [home |-> leader, sub |-> "live", queue |-> e, answer |-> Nothing,
               full |-> FALSE, stalled |-> FALSE, resyncing |-> FALSE, resync |-> Nothing,
               seq |-> 0, ver |-> 0, term |-> 0, whole |-> TRUE,
               lost |-> FALSE, aged |-> FALSE]
      <4>1. PICK m : m = NewTab(leader)
        OBVIOUS
      <4>2. m = [home |-> leader, sub |-> "waiting", queue |-> e, answer |-> Nothing,
                 full |-> FALSE, stalled |-> FALSE, resyncing |-> FALSE, resync |-> Nothing,
                 seq |-> -1, ver |-> 0, term |-> Nothing, whole |-> TRUE,
                 lost |-> FALSE, aged |-> FALSE]
        BY <1>1, <2>3, <4>1
      <4>3. r = [m EXCEPT !.sub = "live", !.seq = 0, !.term = 0]
        BY <2>6, <4>1
      <4> QED
        BY <4>2, <4>3
    <3>2. /\ r.home = leader /\ r.sub = "live" /\ r.queue = e /\ r.answer = Nothing
          /\ ~r.full /\ ~r.stalled /\ ~r.resyncing /\ r.resync = Nothing
          /\ r.seq = 0 /\ r.ver = 0 /\ r.term = 0 /\ r.whole
      BY <3>1
    <3>3. r \in Tab
      BY <1>1, <1>2, <2>2, <3>1 DEF Tab
    <3> QED
      BY <3>2, <3>3
  <2>7. CASE \E g \in Gateway \ {leader} : r = NewTab(g)
    BY <2>1, <2>5, <2>7
  <2>8. CASE r = [NewTab(leader) EXCEPT !.sub = "live", !.seq = 0, !.term = 0]
    <3>1. Shape(r)
      BY <2>1, <2>6, <2>8 DEF Shape
    <3> QED
      BY <1>1, <2>1, <2>6, <2>8, <3>1
  <2> QED
    BY <2>4, <2>7, <2>8
<1>5. PICK c : c = Now
  OBVIOUS
<1>6. Flying = {}
  <2>0. Content(<<>>) = {}
    BY DEF Content
  <2>1. \A g \in Gateway : Content(wire[g]) = {}
    BY <1>1, <2>0
  <2>2. \A b \in Browser : Content(tab[b].queue) = {}
    <3>1. \A b \in Browser : tab[b].queue = <<>>
      BY <1>4
    <3> QED
      BY <2>0, <3>1
  <2> QED
    BY <2>1, <2>2 DEF Flying
<1>7. c.term = 0 /\ c.lead = leader /\ c.number = 0 /\ c.flushed = 0 /\ c.deltas = {}
  <2>1. Flushed = 0
    BY <1>1 DEF Flushed
  <2> QED
    BY <1>1, <1>5, <1>6, <2>1 DEF Now
<1>8. ASSUME NEW x, x.ver = 0, (x.seq = -1 /\ x.term = Nothing) \/ (x.seq = 0 /\ x.term = 0)
      PROVE  Honest(c, x)
  BY <1>2, <1>7, <1>8 DEF Honest
<1>9. StreamTypeOK
  <2>1. \A b \in Browser : tab[b] \in Tab
    BY <1>4
  <2>2. tab \in [Browser -> Tab]
    <3>1. \E S : tab \in [Browser -> S]
      BY DEF StreamInit
    <3> QED
      BY <2>1, <3>1
  <2>3. wire \in [Gateway -> Seq(Snap \cup Q)]
    BY <1>1
  <2> QED
    BY <1>1, <1>2, <1>3, <2>2, <2>3 DEF StreamTypeOK
<1>10. FeedInv(c)
  <2>1. Stored(c, store) /\ Stored(c, Nothing)
    BY <1>3, <1>8 DEF Stored
  <2> QED
    BY <1>1, <1>2, <2>1 DEF FeedInv
<1>11. WireInv(c, Out) /\ Alone(c) /\ Out = <<>>
  <2>1. Out = <<>>
    BY <1>1 DEF Out
  <2>2. WireInv(c, <<>>)
    BY DEF WireInv
  <2> QED
    BY <1>1, <2>1, <2>2 DEF Alone
<1>12. ASSUME NEW b \in Browser PROVE TabInv(c, tab[b], Out)
  <2>1. PICK r : r = tab[b]
    OBVIOUS
  <2>2. /\ r \in Tab /\ Shape(r) /\ r.queue = <<>> /\ r.answer = Nothing /\ r.resync = Nothing
        /\ r.ver = 0 /\ r.whole /\ ~r.resyncing /\ r.home \in Gateway
        /\ \/ r.sub = "waiting" /\ r.seq = -1 /\ r.term = Nothing /\ r.home # leader
           \/ r.sub = "live" /\ r.seq = 0 /\ r.term = 0
    BY <1>4, <2>1
  <2>3. Honest(c, r)
    <3>1. r.ver = 0 /\ ((r.seq = -1 /\ r.term = Nothing) \/ (r.seq = 0 /\ r.term = 0))
      BY <2>2
    <3> QED
      BY <1>8, <3>1
  <2>4. Reset(c, r, Out)
    BY <1>7, <2>2 DEF Reset, Told
  <2>5. Unmixed(r) /\ Stored(c, r.answer) /\ Stored(c, r.resync)
    BY <2>2 DEF Unmixed, Stored
  <2>6. Nearby(c, r, Out)
    BY <1>7, <2>2 DEF Nearby
  <2> QED
    BY <2>1, <2>2, <2>3, <2>4, <2>5, <2>6 DEF TabInv
<1> QED
  BY <1>5, <1>6, <1>9, <1>10, <1>11, <1>12 DEF StreamInv

\* Every step keeps the invariant.
LEMMA StreamKeeps == StreamInv /\ [StreamNext]_streamVars => StreamInv'
<1> SUFFICES ASSUME StreamInv, [StreamNext]_streamVars PROVE StreamInv'
  OBVIOUS
<1>1. CASE UNCHANGED streamVars
  <2>1. /\ UNCHANGED <<venue, leader, takeovers, cache, batch, seq, put, store, wire, faults, tab>>
        /\ UNCHANGED <<feed, put, store>>
    BY <1>1 DEF streamVars, feed
  <2>2. Flying' = Flying /\ Flushed' = Flushed
    BY <2>1 DEF Flying, Content, Flushed
  <2>3. Calm(Now, Now')
    BY <2>1, <2>2, NowCalm
  <2>4. StreamTypeOK'
    BY <2>1 DEF StreamInv, StreamTypeOK
  <2>5. FeedInv(Now)'
    BY <2>1, <2>3, FeedSame
  <2> QED
    BY <2>1, <2>3, <2>4, <2>5, QuietStep
<1>2. ASSUME NEW g \in Gateway, Lead(g) \/ Load(g) \/ Lose(g) \/ Take(g) \/ PutArrives(g)
      PROVE  StreamInv'
  BY <1>2, QuietKeeps, LoadKeeps, FlushKeeps, TakeKeeps DEF Lead
<1>3. ASSUME NEW b \in Browser, Serve(b) \/ Fill(b) \/ \E g \in Gateway : Reconnect(b, g)
      PROVE  StreamInv'
  BY <1>3, BrowserKeeps
<1>4. ASSUME NEW l \in Gateway, NEW missed, Deliver(l, missed) PROVE StreamInv'
  BY <1>4, DeliverKeeps
<1>5. CASE VenueMoves \/ StoreExpires
  BY <1>5, QuietKeeps
<1> QED
  BY <1>1, <1>2, <1>3, <1>4, <1>5 DEF StreamNext

\* The invariant holds throughout.
LEMMA StreamInvariant == StreamSpec => []StreamInv
<1> QED
  BY StreamStarts, StreamKeeps, PTL DEF StreamSpec

\* Every variable of the stream stays within its type: no frame, stored snapshot or answer
\* ever lacks its number.
THEOREM StreamTypeCorrect == StreamSpec => []StreamTypeOK
<1>1. StreamInv => StreamTypeOK
  BY DEF StreamInv
<1> QED
  BY <1>1, StreamInvariant, PTL

\* Rows that a browser built from one leader's frames only (applyDeltas) never miss a change
\* in the middle, whichever frames were lost, dropped or overtaken.
THEOREM RowsNeverMixed == StreamSpec => []NeverMixed
<1>1. StreamInv => NeverMixed
  BY DEF StreamInv, TabInv, Unmixed, NeverMixed
<1> QED
  BY <1>1, StreamInvariant, PTL

\* Until the role changes hands a browser on the leading gateway ends up with every row the
\* leader has sent, whatever was dropped (resync) and unless the last frames to it were lost;
\* and rows at the leader's number that are all his are never older than what he has sent.
THEOREM NumbersTellTheRows == StreamSpec => []CaughtUp
<1>1. StreamInv => CaughtUp
  <2> SUFFICES ASSUME StreamInv, leader # Nothing, NEW b \in Browser,
                      \/ takeovers = 0 /\ tab[b].home = leader /\ Settled(b) /\ ~tab[b].lost
                      \/ tab[b].term = takeovers /\ tab[b].seq = seq[leader]
               PROVE  tab[b].ver >= Flushed
    BY DEF CaughtUp
  <2>1. PICK r : r = tab[b]
    OBVIOUS
  <2>2. PICK w : w = Out
    OBVIOUS
  <2>3. /\ TabInv(Now, r, w) /\ Honest(Now, r) /\ seq[leader] \in Nat /\ leader \in Gateway
        /\ Now.term = takeovers /\ Now.lead = leader /\ Now.number = seq[leader] /\ Now.flushed = Flushed
    BY <2>1, <2>2, NowFields DEF StreamInv, TabInv, StreamTypeOK
  <2>4. r.term = takeovers /\ r.seq = seq[leader] => r.ver >= Flushed
    BY <2>3 DEF Honest
  <2>5. CASE takeovers = 0 /\ r.home = leader /\ Settled(b) /\ ~r.lost
    <3>1. r.sub = "live" /\ ~r.stalled /\ w = <<>>
      BY <2>1, <2>2, <2>3, <2>5 DEF Settled, Out
    <3>2. r.term = takeovers /\ \A n \in 1..seq[leader] : ~(n > r.seq)
      BY <2>3, <2>5, <3>1 DEF TabInv, Nearby, DeltaOn, Content
    <3>3. r.seq # -1 /\ r.seq \in Nat
      BY <2>3, <3>1 DEF TabInv, Shape, Honest
    <3>4. r.seq <= seq[leader]
      BY <2>3, <3>2 DEF Honest
    <3>5. r.seq >= seq[leader]
      BY <2>3, <3>2, <3>3
    <3> QED
      BY <2>1, <2>3, <2>4, <3>2, <3>3, <3>4, <3>5
  <2> QED
    BY <2>1, <2>4, <2>5
<1> QED
  BY <1>1, StreamInvariant, PTL

\* The announcement of a new leader resets every browser on every gateway (announce): once
\* everything has arrived it shows his rows and hears his frames, unless a frame to it was
\* lost or its rows were of before the takeover when they came.
THEOREM LeaderResetsAll == StreamSpec => []ResetByLeader
<1>1. StreamInv => ResetByLeader
  <2> SUFFICES ASSUME StreamInv, leader # Nothing, NEW b \in Browser, Settled(b),
                      ~tab[b].lost, ~tab[b].aged
               PROVE  tab[b].term = takeovers /\ tab[b].seq <= seq[leader]
    BY DEF ResetByLeader
  <2>1. PICK r : r = tab[b]
    OBVIOUS
  <2>2. /\ TabInv(Now, r, Out) /\ Honest(Now, r) /\ Out = <<>>
        /\ Now.term = takeovers /\ Now.lead = leader /\ Now.number = seq[leader]
    BY <2>1, NowFields DEF StreamInv, TabInv, StreamTypeOK, Settled, Out
  <2>3. r.sub = "live" /\ ~r.stalled /\ ~r.resyncing /\ ~r.lost /\ ~r.aged
    BY <2>1 DEF Settled
  <2>4. ~Announced(Now, Out)
    BY <2>2 DEF Announced, Content
  <2>5. r.term = takeovers
    BY <2>2, <2>3, <2>4 DEF TabInv, Reset, Told
  <2> QED
    BY <2>1, <2>2, <2>5 DEF Honest
<1> QED
  BY <1>1, StreamInvariant, PTL
=============================================================================
