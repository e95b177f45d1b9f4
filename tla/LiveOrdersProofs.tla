--------------------------- MODULE LiveOrdersProofs ---------------------------
(***************************************************************************)
(* Proofs about LiveOrders, for any legs, requests and syncs at a time,    *)
(* and any number of numbers, orders and faults.                           *)
(*                                                                         *)
(* The invariant has facts that hold of every leg: types, where each       *)
(* process may stand, and what it heard; and facts of the legs that were   *)
(* not excused.                                                            *)
(***************************************************************************)
EXTENDS LiveOrders, FiniteSetTheorems, TLAPS

Stage == {"idle", "done", "flip", "claim", "added", "next", "send", "record",
          "enter", "cancel", "edit", "read", "answer", "sync", "write"}
Heard == {"none", "resting", "filled", "cancelled", "unknown", "refused"}
Limits == {0} \cup Price

ProcState == [at : Stage, todo : SUBSET Item, has : Item \cup {NoItem}, batch : Key \cup {None},
              took : BOOLEAN, got : Heard, vid : 0..MaxOrder, price : Limits]
RowState == [state : {"none", "pending", "filled", "failed", "cancelled"},
             vid : 0..MaxOrder, price : Limits, batch : Key \cup {None}]
OrderState == [state : {"none", "resting", "filled", "cancelled"}, price : Limits]

Types ==
    /\ status \in {"draft", "paper", "live"}
    /\ there \in SUBSET Leg
    /\ entered \in SUBSET Leg
    /\ row \in [Leg -> [Attempt -> RowState]]
    /\ venue \in [Leg -> [Attempt -> [Order -> OrderState]]]
    /\ proc \in [Proc -> ProcState]
    /\ faults \in 0..MaxFaults
    /\ excused \in SUBSET Leg

SyncStages == {"idle", "sync", "write", "enter"}

(* Who has an order in hand, and what it is; only a strategy that is live  *)
(* has orders (live.ts; live-exec.ts; live-reconcile.ts).                  *)
Stands(p) ==
    /\ p \in Syncer => proc[p].at \in SyncStages
    /\ p \in Request => proc[p].at \notin {"sync", "write"}
    /\ proc[p].at \in {"idle", "done", "cancel", "edit", "read", "answer"} => proc[p].todo = {}
    /\ proc[p].at \in {"flip", "claim", "added"} => \A o \in proc[p].todo : o.n = 0
    /\ proc[p].at \in {"send", "record", "enter", "write", "cancel", "edit", "read", "answer"}
         => proc[p].has \in Item /\ proc[p].has.n # 0
    /\ proc[p].at \in {"idle", "done", "flip", "claim", "added", "next", "sync"}
         => proc[p].has = NoItem
    /\ proc[p].at \in {"cancel", "edit", "read", "answer"} => proc[p].has.vid # 0
    /\ p \in Syncer => \A o \in proc[p].todo : o.n # 0
    /\ proc[p].at \notin {"idle", "done", "flip", "claim"} => status = "live"

NothingYet ==
    status # "live" =>
      \A l \in Leg, n \in Attempt :
        row[l][n].state = "none" /\ \A v \in Order : venue[l][n][v].state = "none"

\* The state of the order p heard of, or has the id of.
Standing(p, v) == venue[proc[p].has.leg][proc[p].has.n][v].state

(* Whoever heard of a fill or of a cancel heard the truth.                 *)
HeardTrue(p) ==
    /\ proc[p].at = "record" /\ proc[p].got = "filled" =>
         proc[p].vid # 0 /\ Standing(p, proc[p].vid) = "filled"
    /\ proc[p].at = "write" /\ proc[p].got \in {"filled", "cancelled"} =>
         /\ proc[p].vid # 0 /\ proc[p].vid = proc[p].has.vid
         /\ Standing(p, proc[p].vid) = proc[p].got
    /\ proc[p].at = "answer" /\ proc[p].got \in {"filled", "cancelled"} =>
         Standing(p, proc[p].has.vid) = proc[p].got
    /\ proc[p].at = "read" /\ proc[p].took => Standing(p, proc[p].has.vid) = "cancelled"
    /\ proc[p].at = "answer" /\ proc[p].took /\ proc[p].got = "none" =>
         Standing(p, proc[p].has.vid) = "cancelled"
    /\ proc[p].at = "enter" => \E v \in Order : Standing(p, v) = "filled"

Common == Types /\ NothingYet /\ \A p \in Proc : Stands(p) /\ HeardTrue(p)

-----------------------------------------------------------------------------
(* Facts of a leg that was not excused: it is entered by one request at a  *)
(* time, always under its first number, and never while a sync holds it.   *)

\* The orders p has yet to send or record, and those s has yet to ask for or write.
ToSend(p) ==
    IF p \in Syncer \/ ~Enters(p) THEN {}
    ELSE IF proc[p].at \in {"send", "record"} THEN proc[p].todo \cup {proc[p].has}
    ELSE proc[p].todo
ToWrite(s) ==
    IF s \notin Syncer THEN {}
    ELSE IF proc[s].at = "write" THEN proc[s].todo \cup {proc[s].has}
    ELSE proc[s].todo

Records(p, l) == proc[p].at = "record" /\ proc[p].has.leg = l

OnlyFirst(l) ==
    /\ \A n \in Attempt : n # 1 => row[l][n].state = "none"
    /\ \A a \in Alive(l) : a[1] = 1
    /\ \A a, b \in Alive(l) : a = b

InHand(p, l) == proc[p].at \in {"send", "record"} /\ proc[p].has.leg = l

OneSends(l) ==
    \A p \in Proc :
      /\ InHand(p, l) => \A x \in proc[p].todo : x.leg # l
      /\ \A o \in ToSend(p) : o.leg = l =>
           /\ l \in there /\ o.n \in {0, 1}
           /\ \A q \in Proc : \A x \in ToSend(q) : x.leg = l => q = p /\ x = o
           /\ \A s \in Proc : \A x \in ToWrite(s) : x.leg # l
           /\ o.n = 0 => row[l][1].state = "none"
           /\ row[l][1].state \in {"none", "failed", "cancelled"}
           /\ Records(p, l) \/ Alive(l) = {}

\* What is about to be recorded is what there is.
Recorded(l) ==
    \A p \in Proc : Records(p, l) =>
      /\ proc[p].got \in {"resting", "filled"} =>
           proc[p].vid # 0 /\ Alive(l) \subseteq {<<1, proc[p].vid>>}
      /\ proc[p].got = "unknown" => proc[p].vid = 0
      /\ proc[p].got \notin {"resting", "filled", "unknown"} => Alive(l) = {}

Known(l) ==
    \A a \in Alive(l) :
      \/ row[l][1].state \in {"pending", "filled"} /\ row[l][1].vid \in {0, a[2]}
      \/ \E p \in Proc : Records(p, l)

Truth(l) ==
    /\ row[l][1].state \in {"filled", "cancelled"} =>
         row[l][1].vid # 0 /\ venue[l][1][row[l][1].vid].state = row[l][1].state
    /\ row[l][1].state = "filled" =>
         l \in entered \/ \E p \in Proc : proc[p].at = "enter" /\ proc[p].has.leg = l

\* A sync that holds the leg has its order, or one whose id was not known.
Synced(l) ==
    \A s \in Proc : \A o \in ToWrite(s) : o.leg = l =>
      /\ o.n = 1 /\ row[l][1].state # "none"
      /\ o.vid # 0 => row[l][1].vid = o.vid /\ Alive(l) \subseteq {<<1, o.vid>>}

\* A resting order of that sort, found, is the one the books will know.
FoundIs(l, s) ==
    /\ s \in Syncer /\ proc[s].at = "write" /\ proc[s].has.leg = l
    /\ proc[s].got = "resting" /\ proc[s].has.vid = 0
FoundOne(l) ==
    \A s \in Proc : FoundIs(l, s) =>
      /\ proc[s].vid # 0 /\ Alive(l) \subseteq {<<1, proc[s].vid>>}
      /\ row[l][1].vid \in {0, proc[s].vid}
      /\ \A t \in Proc : FoundIs(l, t) => proc[t].vid = proc[s].vid

NotYetThere(l) == l \notin there => row[l][1].state = "none" /\ Alive(l) = {}

LegOK(l) ==
    /\ OnlyFirst(l) /\ OneSends(l) /\ Recorded(l) /\ Known(l)
    /\ Truth(l) /\ Synced(l) /\ FoundOne(l) /\ NotYetThere(l)

Inv == Common /\ \A l \in Leg \ excused : LegOK(l)

-----------------------------------------------------------------------------
(* What a step may do without touching a leg that is in order.             *)

Entering(p, l) == proc[p].at = "enter" /\ proc[p].has.leg = l

\* The exchange never undoes a fill or a cancel.
Steady ==
    \A l \in Leg, n \in Attempt, v \in Order :
      venue[l][n][v].state \in {"filled", "cancelled"} =>
        venue'[l][n][v].state = venue[l][n][v].state

\* The process takes up nothing of the leg,
TakesNone(q, l) ==
    /\ \A x \in ToSend(q)' : x.leg = l => x \in ToSend(q)
    /\ \A x \in ToWrite(q)' : x.leg = l => x \in ToWrite(q)
    /\ InHand(q, l)' => InHand(q, l) /\ proc'[q].todo = proc[q].todo
    /\ Records(q, l)' => /\ Records(q, l)
                         /\ proc'[q].got = proc[q].got /\ proc'[q].vid = proc[q].vid

\* finds nothing of it at the exchange,
Quiet(q, l) ==
    /\ TakesNone(q, l)
    /\ FoundIs(l, q)' => FoundIs(l, q) /\ proc'[q].vid = proc[q].vid

\* and drops nothing of it that has still to be written.
Holds(q, l) ==
    /\ Records(q, l) => Records(q, l)' \/ Alive(l)' = {}
    /\ Entering(q, l) => Entering(q, l)' \/ l \in entered' \/ Alive(l)' = {}

-----------------------------------------------------------------------------
\* The numbers of attempts and orders, 0 for none.
LEMMA Bounds ==
  /\ 1 \in Attempt /\ 1 \in Order /\ Attempt \subseteq Nat /\ Order \subseteq Nat
  /\ 0 \notin Attempt /\ 0 \notin Order
  /\ 0 \in 0..MaxAttempt /\ 0 \in 0..MaxOrder /\ 1 \in 0..MaxOrder
  /\ Attempt = (0..MaxAttempt) \ {0} /\ Order = (0..MaxOrder) \ {0}
BY BoundAssumption DEF Attempt, Order

\* A process that comes to stand as r.
LEMMA Moves ==
  ASSUME Types, NEW p \in Proc, NEW r \in ProcState, proc' = [proc EXCEPT ![p] = r]
  PROVE  /\ proc' \in [Proc -> ProcState]
         /\ proc'[p] = r
         /\ \A q \in Proc : q # p => proc'[q] = proc[q]
BY DEF Types

\* A process that does not move keeps its facts.
LEMMA StandsStill ==
  ASSUME Types, NEW q \in Proc, Stands(q), HeardTrue(q), proc'[q] = proc[q],
         Steady, status = "live" => status' = "live"
  PROVE  Stands(q)' /\ HeardTrue(q)'
<1>1. Stands(q)'
  BY DEF Stands
<1>2. proc[q] \in ProcState
  BY DEF Types
<1>3. ASSUME NEW v \in Order, proc[q].has \in Item, proc[q].has.n # 0,
             Standing(q, v) \in {"filled", "cancelled"}
      PROVE  Standing(q, v)' = Standing(q, v)
  <2>1. proc[q].has.leg \in Leg /\ proc[q].has.n \in Attempt
    BY <1>3, Bounds DEF Item
  <2> QED
    BY <1>3, <2>1 DEF Standing, Steady
<1>4. /\ proc[q].vid # 0 => proc[q].vid \in Order
      /\ proc[q].has \in Item /\ proc[q].has.vid # 0 => proc[q].has.vid \in Order
  BY <1>2, Bounds DEF ProcState, Item
<1> QED
  BY <1>1, <1>3, <1>4 DEF Stands, HeardTrue

\* What holds of every process holds on when one moves and the exchange only ends orders.
LEMMA CommonMoves ==
  ASSUME Common, NEW p \in Proc, NEW r \in ProcState, proc' = [proc EXCEPT ![p] = r],
         Steady, status = "live" => status' = "live",
         Stands(p)', HeardTrue(p)'
  PROVE  /\ proc' \in [Proc -> ProcState]
         /\ \A q \in Proc : Stands(q)' /\ HeardTrue(q)'
BY Moves, StandsStill DEF Common

\* What does not move is quiet and holds on.
LEMMA StillIsQuiet ==
  ASSUME NEW q \in Proc, proc'[q] = proc[q], NEW l \in Leg
  PROVE  Quiet(q, l) /\ Holds(q, l)
BY DEF Quiet, TakesNone, Holds, ToSend, ToWrite, InHand, Records, FoundIs, Entering, Enters

\* The leg stays in order while the books leave its rows alone and the exchange only ends orders.
LEMMA LegStaysOr ==
  ASSUME Types, NEW l \in Leg, LegOK(l),
         row'[l] = row[l], Alive(l)' \subseteq Alive(l), Steady,
         l \in entered => l \in entered', l \in there => l \in there',
         \A q \in Proc : TakesNone(q, l) /\ Holds(q, l),
         FoundOne(l)'
  PROVE  LegOK(l)'
<1>1. OnlyFirst(l)'
  BY DEF LegOK, OnlyFirst
<1>2. OneSends(l)'
  <2>1. ASSUME NEW p \in Proc, InHand(p, l)'
        PROVE  \A x \in proc'[p].todo : x.leg # l
    BY <2>1 DEF TakesNone, LegOK, OneSends
  <2>2. ASSUME NEW p \in Proc, NEW o \in ToSend(p)', o.leg = l
        PROVE  /\ l \in there' /\ o.n \in {0, 1}
               /\ \A q \in Proc : \A x \in ToSend(q)' : x.leg = l => q = p /\ x = o
               /\ \A s \in Proc : \A x \in ToWrite(s)' : x.leg # l
               /\ o.n = 0 => row'[l][1].state = "none"
               /\ row'[l][1].state \in {"none", "failed", "cancelled"}
               /\ Records(p, l)' \/ Alive(l)' = {}
    BY <2>2 DEF TakesNone, Holds, LegOK, OneSends
  <2> QED
    BY <2>1, <2>2 DEF OneSends
<1>3. Recorded(l)'
  BY DEF LegOK, Recorded, TakesNone
<1>4. Known(l)'
  BY DEF LegOK, Known, Holds
<1>5. Truth(l)'
  <2>1. row[l][1].vid # 0 => row[l][1].vid \in Order
    BY Bounds DEF Types, RowState
  <2>2. ASSUME row[l][1].state = "filled" PROVE Alive(l)' # {}
    <3>1. row[l][1].vid \in Order /\ venue'[l][1][row[l][1].vid].state = "filled"
      BY <2>1, <2>2, Bounds DEF LegOK, Truth, Steady
    <3>2. <<1, row[l][1].vid>> \in Alive(l)'
      BY <3>1, Bounds DEF Alive
    <3> QED
      BY <3>2
  <2>3. row[l][1].state = "filled" =>
          l \in entered' \/ \E p \in Proc : Entering(p, l)'
    BY <2>2 DEF LegOK, Truth, Holds, Entering
  <2> QED
    BY <2>1, <2>3, Bounds DEF LegOK, Truth, Steady, Entering
<1>6. Synced(l)'
  BY DEF LegOK, Synced, TakesNone
<1>7. NotYetThere(l)'
  BY DEF LegOK, NotYetThere
<1> QED
  BY <1>1, <1>2, <1>3, <1>4, <1>5, <1>6, <1>7 DEF LegOK

\* A leg in order stays so when its row is left alone, no order of it comes to life, and no
\* process takes it up or drops what is still to be written.
LEMMA LegStays ==
  ASSUME Types, NEW l \in Leg, LegOK(l),
         row'[l] = row[l], Alive(l)' \subseteq Alive(l), Steady,
         l \in entered => l \in entered', l \in there => l \in there',
         \A q \in Proc : Quiet(q, l) /\ Holds(q, l)
  PROVE  LegOK(l)'
<1>1. FoundOne(l)'
  BY DEF LegOK, FoundOne, Quiet
<1>2. \A q \in Proc : TakesNone(q, l) /\ Holds(q, l)
  BY DEF Quiet
<1> QED
  BY <1>1, <1>2, LegStaysOr

\* The same when one process moves.
LEMMA LegStaysAside ==
  ASSUME Types, NEW l \in Leg, LegOK(l), NEW p \in Proc, NEW r \in ProcState,
         proc' = [proc EXCEPT ![p] = r],
         row'[l] = row[l], Alive(l)' \subseteq Alive(l), Steady,
         l \in entered => l \in entered', l \in there => l \in there',
         Quiet(p, l), Holds(p, l)
  PROVE  LegOK(l)'
<1>1. \A q \in Proc : Quiet(q, l) /\ Holds(q, l)
  BY Moves, StillIsQuiet
<1> QED
  BY <1>1, LegStays

\* Nothing is new at the exchange.
LEMMA SameVenue ==
  ASSUME UNCHANGED venue
  PROVE  Steady /\ \A l \in Leg : Alive(l)' = Alive(l)
BY DEF Steady, Alive

-----------------------------------------------------------------------------
(* The initial states.                                                     *)

\* What nobody does: the idle, and those that are done.
LEMMA Nothing ==
  /\ Idle \in ProcState /\ Idle.at = "idle" /\ Idle.todo = {} /\ Idle.has = NoItem
  /\ \A p \in Proc : /\ Over(p) \in ProcState /\ Over(p).at \in {"idle", "done"}
                     /\ Over(p).todo = {} /\ Over(p).has = NoItem
                     /\ p \in Syncer => Over(p).at = "idle"
  /\ NoItem.leg = None
<1>1. Idle \in ProcState
  BY Bounds DEF Idle, ProcState, Stage, Heard, Limits
<1> QED
  BY <1>1 DEF Idle, Over, ProcState, Stage, NoItem

\* Nothing is asked for yet.
LEMMA InitInv == ASSUME Init PROVE Inv
<1>1. PICK price \in Price :
        LET rests == status = "live" /\ there = Leg
        IN  /\ row = [l \in Leg |-> [n \in Attempt |-> IF rests /\ n = 1 THEN
                 [state |-> "pending", vid |-> 1, price |-> price, batch |-> None] ELSE NoRow]]
            /\ venue = [l \in Leg |-> [n \in Attempt |-> [v \in Order |->
                 IF rests /\ n = 1 /\ v = 1 THEN [state |-> "resting", price |-> price]
                 ELSE NoOrder]]]
  BY DEF Init
<1>2. \A p \in Proc : proc[p] = Idle
  BY DEF Init
<1>3. Types
  <2>1. row \in [Leg -> [Attempt -> RowState]]
    BY <1>1, Bounds DEF RowState, NoRow, Limits
  <2>2. venue \in [Leg -> [Attempt -> [Order -> OrderState]]]
    BY <1>1, Bounds DEF OrderState, NoOrder, Limits
  <2>3. proc \in [Proc -> ProcState]
    BY Nothing DEF Init
  <2> QED
    BY <2>1, <2>2, <2>3, BoundAssumption DEF Types, Init
<1>4. NothingYet
  BY <1>1 DEF NothingYet, NoRow, NoOrder
<1>5. ASSUME NEW p \in Proc PROVE Stands(p) /\ HeardTrue(p)
  BY <1>2, Nothing DEF Stands, HeardTrue, SyncStages
<1>6. ASSUME NEW l \in Leg PROVE LegOK(l)
  <2>1. /\ \A n \in Attempt : n # 1 => row[l][n].state = "none"
        /\ Alive(l) \subseteq {<<1, 1>>}
        /\ \/ row[l][1].state = "pending" /\ row[l][1].vid = 1 /\ l \in there
           \/ row[l][1].state = "none" /\ Alive(l) = {}
    BY <1>1, Bounds DEF Alive, NoRow, NoOrder
  <2>2. \A p \in Proc : /\ ToSend(p) = {} /\ ToWrite(p) = {} /\ ~InHand(p, l)
                        /\ ~Records(p, l) /\ ~FoundIs(l, p)
    BY <1>2, Nothing DEF ToSend, ToWrite, InHand, Records, FoundIs
  <2>3. OnlyFirst(l) /\ NotYetThere(l) /\ Truth(l) /\ Known(l)
    BY <2>1 DEF OnlyFirst, NotYetThere, Truth, Known
  <2>4. OneSends(l) /\ Recorded(l) /\ Synced(l) /\ FoundOne(l)
    BY <2>2 DEF OneSends, Recorded, Synced, FoundOne
  <2> QED
    BY <2>3, <2>4 DEF LegOK
<1> QED
  BY <1>3, <1>4, <1>5, <1>6 DEF Inv, Common

-----------------------------------------------------------------------------
(* Steps of one process that write neither books nor exchange.             *)

\* Such a step takes up nothing of a leg in order, or the leg is in order after it.
LEMMA Walks ==
  ASSUME Inv, NEW p \in Proc, NEW r \in ProcState, proc' = [proc EXCEPT ![p] = r],
         UNCHANGED <<entered, row, venue>>,
         status' \in {"draft", "paper", "live"}, status = "live" => status' = "live",
         there' \in SUBSET Leg, faults' \in 0..MaxFaults,
         excused \subseteq excused', excused' \in SUBSET Leg,
         Stands(p)', HeardTrue(p)',
         \A l \in Leg \ excused' :
           \/ Quiet(p, l) /\ Holds(p, l) /\ (l \in there => l \in there')
           \/ LegOK(l)'
  PROVE  Inv'
<1>1. Common'
  <2>1. proc' \in [Proc -> ProcState] /\ \A q \in Proc : Stands(q)' /\ HeardTrue(q)'
    BY SameVenue, CommonMoves DEF Inv
  <2>2. Types'
    BY <2>1 DEF Inv, Common, Types
  <2>3. NothingYet'
    BY DEF Inv, Common, NothingYet
  <2> QED
    BY <2>1, <2>2, <2>3 DEF Common
<1>2. ASSUME NEW l \in Leg \ excused' PROVE LegOK(l)'
  <2>1. LegOK(l) /\ Types
    BY DEF Inv, Common
  <2>2. Steady /\ Alive(l)' = Alive(l)
    BY SameVenue
  <2>3. ASSUME Quiet(p, l), Holds(p, l), l \in there => l \in there' PROVE LegOK(l)'
    BY <2>1, <2>2, <2>3, LegStaysAside
  <2> QED
    BY <2>3
<1> QED
  BY <1>1, <1>2 DEF Inv

\* Nobody has anything of a leg that is in no hands.
LEMMA NoHands ==
  ASSUME Common, NEW l \in Leg, Hands(l) = {}, NEW q \in Proc
  PROVE  /\ \A x \in ToSend(q) : x.leg # l
         /\ \A x \in ToWrite(q) : x.leg # l
         /\ ~InHand(q, l) /\ ~Records(q, l) /\ ~FoundIs(l, q)
<1>1. /\ Enters(q) \/ q \in Syncer => proc[q].has.leg # l /\ \A x \in proc[q].todo : x.leg # l
      /\ proc[q].at \in {"send", "record"} => Enters(q)
  BY DEF Hands, Enters
<1> QED
  BY <1>1 DEF ToSend, ToWrite, InHand, Records, FoundIs

\* A request sets out with orders of legs that nobody has in hand.
LEMMA SetsOut ==
  ASSUME Inv, NEW p \in Request, NEW at \in {"flip", "claim", "added", "next"},
         NEW todo \in SUBSET Item, NEW batch \in Key \cup {None},
         SetOut(p, at, todo, batch), UNCHANGED <<status, entered, row, venue, faults>>,
         there \subseteq there', there' \in SUBSET Leg,
         at # "next" => \A o \in todo : o.n = 0,
         at \in {"added", "next"} => status = "live",
         \A l \in Leg \ excused : \A o \in todo :
           o.leg = l /\ Hands(l) = {} =>
             /\ l \in there' /\ o.n \in {0, 1} /\ \A x \in todo : x.leg = l => x = o
             /\ o.n = 0 => row[l][1].state = "none"
             /\ row[l][1].state \in {"none", "failed", "cancelled"}
             /\ Alive(l) = {}
  PROVE  Inv'
<1> DEFINE r == [Idle EXCEPT !.at = at, !.todo = todo, !.batch = batch]
<1>1. p \in Proc /\ p \notin Syncer /\ proc[p] = Idle
  BY ProcAssumption DEF Proc, SetOut
<1>2. /\ r \in ProcState /\ r.at = at /\ r.todo = todo /\ r.has = NoItem
  BY Nothing DEF ProcState, Stage
<1>3. proc' = [proc EXCEPT ![p] = r]
  BY <1>1 DEF SetOut, Inv, Common, Types
<1> HIDE DEF r
<1>4. proc'[p] = r /\ \A q \in Proc : q # p => proc'[q] = proc[q]
  BY <1>1, <1>2, <1>3, Moves DEF Inv, Common
<1>5. excused \subseteq excused' /\ excused' \in SUBSET Leg
  BY DEF SetOut, Overlaps, Inv, Common, Types, Item
<1>6. Stands(p)' /\ HeardTrue(p)'
  BY <1>1, <1>2, <1>4 DEF Stands, HeardTrue
<1>7. /\ ToSend(p)' = todo /\ ToWrite(p)' = {}
      /\ \A l \in Leg : ~InHand(p, l)' /\ ~Records(p, l)' /\ ~FoundIs(l, p)'
  BY <1>1, <1>2, <1>4 DEF ToSend, ToWrite, InHand, Records, FoundIs, Enters
<1>8. ASSUME NEW l \in Leg \ excused'
      PROVE  \/ Quiet(p, l) /\ Holds(p, l) /\ (l \in there => l \in there')
             \/ LegOK(l)'
  <2>1. CASE \A o \in todo : o.leg # l
    <3>1. ~Records(p, l) /\ ~Entering(p, l)
      BY <1>1, Nothing DEF Records, Entering
    <3> QED
      BY <2>1, <3>1, <1>7 DEF Quiet, TakesNone, Holds
  <2>2. CASE \E o \in todo : o.leg = l
    <3>1. Hands(l) = {}
      BY <2>2, <1>1 DEF SetOut, Overlaps
    <3>2. PICK o \in todo : o.leg = l
      BY <2>2
    <3>3. /\ l \in there' /\ o.n \in {0, 1} /\ \A x \in todo : x.leg = l => x = o
          /\ o.n = 0 => row[l][1].state = "none"
          /\ row[l][1].state \in {"none", "failed", "cancelled"}
          /\ Alive(l) = {}
      BY <1>5, <3>1, <3>2
    <3>4. ASSUME NEW q \in Proc
          PROVE  /\ \A x \in ToSend(q)' : x.leg = l => q = p /\ x = o
                 /\ \A x \in ToWrite(q)' : x.leg # l
                 /\ ~InHand(q, l)' /\ ~Records(q, l)' /\ ~FoundIs(l, q)'
      <4>1. CASE q = p
        BY <4>1, <1>7, <3>3
      <4>2. CASE q # p
        <5>1. proc'[q] = proc[q] /\ Common
          BY <4>2, <1>4 DEF Inv
        <5>2. ToSend(q)' = ToSend(q) /\ ToWrite(q)' = ToWrite(q)
          BY <5>1 DEF ToSend, ToWrite, Enters
        <5>3. /\ InHand(q, l)' <=> InHand(q, l)
              /\ Records(q, l)' <=> Records(q, l)
              /\ FoundIs(l, q)' <=> FoundIs(l, q)
          BY <5>1 DEF InHand, Records, FoundIs
        <5> QED
          BY <5>1, <5>2, <5>3, <3>1, NoHands
      <4> QED
        BY <4>1, <4>2
    <3>5. Alive(l)' = {} /\ row'[l] = row[l] /\ LegOK(l)
      BY <3>3, <1>5, SameVenue DEF Inv
    <3>6. OneSends(l)'
      BY <3>3, <3>4, <3>5 DEF OneSends
    <3>7. OnlyFirst(l)' /\ Recorded(l)' /\ Known(l)' /\ Synced(l)' /\ FoundOne(l)'
      BY <3>4, <3>5 DEF LegOK, OnlyFirst, Recorded, Known, Synced, FoundOne
    <3>8. NotYetThere(l)' /\ Truth(l)'
      BY <3>3, <3>5 DEF LegOK, NotYetThere, Truth
    <3> QED
      BY <3>6, <3>7, <3>8 DEF LegOK
  <2> QED
    BY <2>1, <2>2
<1> QED
  <2>1. status' \in {"draft", "paper", "live"} /\ faults' \in 0..MaxFaults
    BY DEF Inv, Common, Types
  <2> QED
    BY <1>1, <1>2, <1>3, <1>5, <1>6, <1>8, <2>1, Walks

\* The orders of all legs of a strategy that is not live: nothing was sent of any.
LEMMA AllAreNew ==
  ASSUME Inv, status # "live"
  PROVE  /\ AllLegs \in SUBSET Item
         /\ \A l \in Leg, o \in AllLegs : o.leg = l =>
              /\ l \in there /\ o.n = 0 /\ \A x \in AllLegs : x.leg = l => x = o
              /\ row[l][1].state = "none" /\ Alive(l) = {}
<1>1. there \in SUBSET Leg
  BY DEF Inv, Common, Types
<1>2. AllLegs \in SUBSET Item
  BY <1>1, Bounds DEF AllLegs, Item
<1>3. ASSUME NEW l \in Leg, NEW o \in AllLegs, o.leg = l
      PROVE  l \in there /\ o.n = 0 /\ \A x \in AllLegs : x.leg = l => x = o
  BY <1>3 DEF AllLegs
<1>4. \A l \in Leg : row[l][1].state = "none" /\ Alive(l) = {}
  BY Bounds DEF Inv, Common, NothingYet, Alive
<1> QED
  BY <1>2, <1>3, <1>4

\* A placement looks up its key and reads the strategy (POST orders).
LEMMA PlaceKeeps == ASSUME Inv, NEW p \in Request, NEW k \in Key, Place(p, k) PROVE Inv'
<1>1. /\ status # "live" /\ SetOut(p, "flip", AllLegs, k)
      /\ UNCHANGED <<status, there, entered, row, venue, faults>>
  BY DEF Place, MayGoLive
<1>2. there' \in SUBSET Leg /\ there \subseteq there'
  BY <1>1 DEF Inv, Common, Types
<1>3. AllLegs \in SUBSET Item /\ \A o \in AllLegs : o.n = 0
  BY <1>1, AllAreNew DEF AllLegs
<1>4. ASSUME NEW l \in Leg \ excused, NEW o \in AllLegs, o.leg = l
      PROVE  /\ l \in there' /\ o.n \in {0, 1} /\ \A x \in AllLegs : x.leg = l => x = o
             /\ o.n = 0 => row[l][1].state = "none"
             /\ row[l][1].state \in {"none", "failed", "cancelled"} /\ Alive(l) = {}
  BY <1>1, <1>2, <1>4, AllAreNew
<1> QED
  BY <1>1, <1>2, <1>3, <1>4, SetsOut

\* So does a batch, of each of its strategies.
LEMMA BatchKeeps == ASSUME Inv, NEW p \in Request, NEW k \in Key, Batch(p, k) PROVE Inv'
<1>1. /\ status # "live" /\ SetOut(p, "claim", AllLegs, k)
      /\ UNCHANGED <<status, there, entered, row, venue, faults>>
  BY DEF Batch
<1>2. there' \in SUBSET Leg /\ there \subseteq there'
  BY <1>1 DEF Inv, Common, Types
<1>3. AllLegs \in SUBSET Item /\ \A o \in AllLegs : o.n = 0
  BY <1>1, AllAreNew DEF AllLegs
<1>4. ASSUME NEW l \in Leg \ excused, NEW o \in AllLegs, o.leg = l
      PROVE  /\ l \in there' /\ o.n \in {0, 1} /\ \A x \in AllLegs : x.leg = l => x = o
             /\ o.n = 0 => row[l][1].state = "none"
             /\ row[l][1].state \in {"none", "failed", "cancelled"} /\ Alive(l) = {}
  BY <1>1, <1>2, <1>4, AllAreNew
<1> QED
  BY <1>1, <1>2, <1>3, <1>4, SetsOut

\* A leg is added to a strategy that is live.
LEMMA AddKeeps == ASSUME Inv, NEW p \in Request, Add(p) PROVE Inv'
<1>1. PICK l \in Leg \ there, price \in Limits :
        /\ there' = there \cup {l}
        /\ SetOut(p, "added", {[leg |-> l, n |-> 0, vid |-> 0, price |-> price]}, None)
  BY DEF Add, Limits
<1> DEFINE o == [leg |-> l, n |-> 0, vid |-> 0, price |-> price]
<1>2. o \in Item /\ o.leg = l /\ o.n = 0
  BY Bounds DEF Item, Limits
<1>3. l \notin excused => row[l][1].state = "none" /\ Alive(l) = {}
  BY <1>1 DEF Inv, LegOK, NotYetThere
<1>4. there \subseteq there' /\ there' \in SUBSET Leg /\ l \in there'
  BY <1>1 DEF Inv, Common, Types
<1> HIDE DEF o
<1>5. SetOut(p, "added", {o}, None) /\ {o} \in SUBSET Item /\ None \in Key \cup {None}
  BY <1>1, <1>2 DEF o
<1>6. /\ status = "live" /\ UNCHANGED <<status, entered, row, venue, faults>>
      /\ \A x \in {o} : x.n = 0
  BY <1>2 DEF Add
<1>7. ASSUME NEW m \in Leg \ excused, NEW y \in {o}, y.leg = m
      PROVE  /\ m \in there' /\ y.n \in {0, 1} /\ \A x \in {o} : x.leg = m => x = y
             /\ y.n = 0 => row[m][1].state = "none"
             /\ row[m][1].state \in {"none", "failed", "cancelled"} /\ Alive(m) = {}
  BY <1>2, <1>3, <1>4, <1>7
<1> QED
  BY <1>4, <1>5, <1>6, <1>7, SetsOut

\* The rows as they are read.
LEMMA ReadRows ==
  ASSUME Types, NEW states
  PROVE  /\ AsRead(Rows(states)) \in SUBSET Item
         /\ \A o \in AsRead(Rows(states)) :
              /\ o.leg \in Leg /\ o.n \in Attempt /\ row[o.leg][o.n].state \in states
              /\ o.vid = row[o.leg][o.n].vid /\ o.price = row[o.leg][o.n].price
         /\ \A x, y \in AsRead(Rows(states)) : x.leg = y.leg /\ x.n = y.n => x = y
<1>1. ASSUME NEW o \in AsRead(Rows(states))
      PROVE  /\ o \in Item /\ o.leg \in Leg /\ o.n \in Attempt
             /\ row[o.leg][o.n].state \in states
             /\ o = [leg |-> o.leg, n |-> o.n, vid |-> row[o.leg][o.n].vid,
                     price |-> row[o.leg][o.n].price]
  <2>1. PICK x \in Leg \X Attempt :
          /\ row[x[1]][x[2]].state \in states
          /\ o = [leg |-> x[1], n |-> x[2], vid |-> row[x[1]][x[2]].vid,
                  price |-> row[x[1]][x[2]].price]
    BY DEF AsRead, Rows
  <2>2. x[1] \in Leg /\ x[2] \in Attempt /\ row[x[1]][x[2]] \in RowState
    BY DEF Types
  <2> QED
    BY <2>1, <2>2, Bounds DEF Item, RowState, Limits
<1> QED
  BY <1>1

\* A retry takes up legs whose order failed or was cancelled.
LEMMA RetryKeeps == ASSUME Inv, NEW p \in Request, Retry(p) PROVE Inv'
<1> DEFINE todo == AsRead(Rows(Retried))
<1>1. todo \in SUBSET Item /\ Types
  BY ReadRows DEF Inv, Common
<1>2. ASSUME NEW l \in Leg \ excused, NEW o \in todo, o.leg = l, Hands(l) = {}
      PROVE  /\ l \in there /\ o.n = 1 /\ \A x \in todo : x.leg = l => x = o
             /\ row[l][1].state \in {"failed", "cancelled"} /\ Alive(l) = {}
  <2>1. \A x \in todo : x.leg = l => x.n = 1 /\ row[l][1].state \in {"failed", "cancelled"}
    BY <1>1, ReadRows DEF Inv, LegOK, OnlyFirst, Retried
  <2>2. l \in there
    BY <1>2, <2>1 DEF Inv, LegOK, NotYetThere
  <2>3. \A q \in Proc : ~Records(q, l)
    BY <1>2, NoHands DEF Inv
  <2>4. Alive(l) = {}
    BY <1>2, <2>1, <2>3 DEF Inv, LegOK, Known
  <2> QED
    BY <1>1, <1>2, <2>1, <2>2, <2>4, ReadRows
<1> HIDE DEF todo
<1>3. /\ SetOut(p, "next", todo, None) /\ status = "live"
      /\ UNCHANGED <<status, there, entered, row, venue, faults>>
  BY DEF Retry, todo
<1>4. there' \in SUBSET Leg /\ there \subseteq there'
  BY <1>1, <1>3 DEF Types
<1>5. ASSUME NEW l \in Leg \ excused, NEW o \in todo, o.leg = l, Hands(l) = {}
      PROVE  /\ l \in there' /\ o.n \in {0, 1} /\ \A x \in todo : x.leg = l => x = o
             /\ o.n = 0 => row[l][1].state = "none"
             /\ row[l][1].state \in {"none", "failed", "cancelled"} /\ Alive(l) = {}
  BY <1>2, <1>4, <1>5
<1>6. None \in Key \cup {None} /\ todo \in SUBSET Item
  BY <1>1
<1> QED
  BY <1>3, <1>4, <1>5, <1>6, SetsOut

\* A process that stops has nothing any more.
LEMMA Stopped ==
  ASSUME Types, NEW p \in Proc, proc' = [proc EXCEPT ![p] = Over(p)]
  PROVE  /\ Over(p) \in ProcState /\ Stands(p)' /\ HeardTrue(p)'
         /\ \A l \in Leg : Quiet(p, l)
<1>1. proc'[p] = Over(p) /\ Over(p) \in ProcState
  BY Nothing, Moves
<1>2. Stands(p)' /\ HeardTrue(p)'
  BY <1>1, Nothing, ProcAssumption DEF Stands, HeardTrue, SyncStages
<1>3. ToSend(p)' = {} /\ ToWrite(p)' = {}
  BY <1>1, Nothing DEF ToSend, ToWrite, Enters
<1>4. \A l \in Leg : ~InHand(p, l)' /\ ~Records(p, l)' /\ ~FoundIs(l, p)'
  BY <1>1, Nothing DEF InHand, Records, FoundIs
<1> QED
  BY <1>1, <1>2, <1>3, <1>4 DEF Quiet, TakesNone

\* Only requests enter a leg, and only they have one added.
LEMMA WhoStands ==
  ASSUME Common, NEW p \in Proc
  PROVE  /\ proc[p] \in ProcState /\ Stands(p) /\ HeardTrue(p)
         /\ proc[p].at \notin SyncStages => p \in Request /\ p \notin Syncer
         /\ proc[p].at \in {"sync", "write"} => p \in Syncer /\ p \notin Request
BY ProcAssumption DEF Common, Types, Stands, Proc

\* A placement writes that the strategy is live; a batch, if it is still on paper.
LEMMA FlipKeeps == ASSUME Inv, NEW p \in Proc, Flip(p) PROVE Inv'
<1>1. /\ Types /\ Common /\ proc[p].at \in {"flip", "claim"}
      /\ p \in Request /\ p \notin Syncer
      /\ UNCHANGED <<there, entered, row, venue, faults, excused>>
  BY WhoStands DEF Inv, Common, Flip, SyncStages
<1>2. \A l \in Leg : ~Records(p, l) /\ ~Entering(p, l)
  BY <1>1 DEF Records, Entering
<1>3. there' \in SUBSET Leg /\ faults' \in 0..MaxFaults /\ excused' \in SUBSET Leg
  BY <1>1 DEF Types
<1>4. CASE status' = "live" /\ proc' = [proc EXCEPT ![p].at = "next"]
  <2> DEFINE r == [proc[p] EXCEPT !.at = "next"]
  <2>1. proc' = [proc EXCEPT ![p] = r]
    BY <1>4
  <2>2. r \in ProcState /\ r.at = "next" /\ r.todo = proc[p].todo /\ r.has = NoItem
    BY <1>1, WhoStands DEF ProcState, Stage, Stands
  <2> HIDE DEF r
  <2>3. proc'[p] = r
    BY <1>1, <2>1, <2>2, Moves
  <2>4. Stands(p)' /\ HeardTrue(p)'
    BY <1>1, <1>4, <2>2, <2>3 DEF Stands, HeardTrue
  <2>5. \A l \in Leg : Quiet(p, l) /\ Holds(p, l)
    BY <1>1, <1>2, <2>2, <2>3
       DEF Quiet, TakesNone, Holds, ToSend, ToWrite, InHand, Records, FoundIs, Enters
  <2> QED
    BY <1>1, <1>3, <1>4, <2>1, <2>2, <2>4, <2>5, Walks
<1>5. CASE status' = status /\ proc' = [proc EXCEPT ![p] = Over(p)]
  <2>1. status' \in {"draft", "paper", "live"}
    BY <1>1, <1>5 DEF Types
  <2>2. \A l \in Leg : Holds(p, l)
    BY <1>2 DEF Holds
  <2> QED
    BY <1>1, <1>3, <1>5, <2>1, <2>2, Stopped, Walks
<1> QED
  BY <1>4, <1>5 DEF Flip

\* An added leg is checked once more, and goes again when it is refused.
LEMMA CheckedKeeps == ASSUME Inv, NEW p \in Proc, Checked(p) PROVE Inv'
<1>1. /\ Types /\ Common /\ proc[p].at = "added"
      /\ p \in Request /\ p \notin Syncer
      /\ UNCHANGED <<status, entered, row, venue, faults, excused>>
  BY WhoStands DEF Inv, Common, Checked, SyncStages
<1>2. \A l \in Leg : ~Records(p, l) /\ ~Entering(p, l)
  BY <1>1 DEF Records, Entering
<1>3. /\ there' \in SUBSET Leg /\ faults' \in 0..MaxFaults /\ excused' \in SUBSET Leg
      /\ status' \in {"draft", "paper", "live"}
  BY <1>1 DEF Types, Checked
<1>4. CASE proc' = [proc EXCEPT ![p].at = "next"] /\ there' = there
  <2> DEFINE r == [proc[p] EXCEPT !.at = "next"]
  <2>1. proc' = [proc EXCEPT ![p] = r]
    BY <1>4
  <2>2. r \in ProcState /\ r.at = "next" /\ r.todo = proc[p].todo /\ r.has = NoItem
    BY <1>1, WhoStands DEF ProcState, Stage, Stands
  <2> HIDE DEF r
  <2>3. proc'[p] = r
    BY <1>1, <2>1, <2>2, Moves
  <2>4. Stands(p)' /\ HeardTrue(p)'
    BY <1>1, <1>4, <2>2, <2>3, WhoStands DEF Stands, HeardTrue
  <2>5. \A l \in Leg : Quiet(p, l) /\ Holds(p, l)
    BY <1>1, <1>2, <2>2, <2>3
       DEF Quiet, TakesNone, Holds, ToSend, ToWrite, InHand, Records, FoundIs, Enters
  <2> QED
    BY <1>1, <1>3, <1>4, <2>1, <2>2, <2>4, <2>5, Walks
<1>5. CASE /\ proc' = [proc EXCEPT ![p] = Over(p)]
           /\ there' = there \ {o.leg : o \in proc[p].todo}
  <2>1. ASSUME NEW l \in Leg \ excused', NEW o \in proc[p].todo, o.leg = l
        PROVE  LegOK(l)'
    <3>1. LegOK(l) /\ o.n = 0 /\ o \in ToSend(p)
      BY <1>1, <2>1, WhoStands DEF Inv, ToSend, Enters, Stands
    <3>2. /\ row[l][1].state = "none" /\ Alive(l) = {}
          /\ \A q \in Proc : \A x \in ToSend(q) : x.leg = l => q = p
          /\ \A s \in Proc : \A x \in ToWrite(s) : x.leg # l
      BY <1>2, <2>1, <3>1 DEF LegOK, OneSends
    <3>3. Alive(l)' = {} /\ row'[l] = row[l]
      BY <1>1, <3>2, SameVenue
    <3>4. \A q \in Proc : Quiet(q, l)
      BY <1>1, <1>5, Stopped, StillIsQuiet, Nothing, Moves
    <3>5. ASSUME NEW q \in Proc
          PROVE  /\ \A x \in ToSend(q)' : x.leg # l
                 /\ \A x \in ToWrite(q)' : x.leg # l
                 /\ ~InHand(q, l)' /\ ~Records(q, l)' /\ ~FoundIs(l, q)'
      <4>1. proc'[p].at = Over(p).at /\ p \notin Syncer
        BY <1>1, <1>5, Moves, Nothing
      <4>2. proc'[p].at \in {"idle", "done"}
        BY <4>1, Nothing
      <4>3. \A x \in ToSend(q)' : x.leg # l
        BY <3>2, <3>4, <4>2 DEF Quiet, TakesNone, ToSend, Enters
      <4>4. \A x \in ToWrite(q)' : x.leg # l
        BY <3>2, <3>4 DEF Quiet, TakesNone
      <4>5. ~InHand(q, l)' /\ ~Records(q, l)'
        <5>1. proc'[q] \in ProcState /\ (q # p => proc'[q] = proc[q])
          BY <1>1, <1>5, Moves, Nothing
        <5>2. q # p /\ q \in Syncer => proc[q].at \in SyncStages
          BY <1>1, WhoStands DEF Stands
        <5> QED
          BY <4>2, <4>3, <5>1, <5>2 DEF ToSend, InHand, Records, Enters, SyncStages
      <4>6. ~FoundIs(l, q)'
        BY <4>4 DEF FoundIs, ToWrite
      <4> QED
        BY <4>3, <4>4, <4>5, <4>6
    <3>6. OnlyFirst(l)' /\ NotYetThere(l)' /\ Known(l)' /\ Truth(l)'
      BY <1>1, <3>1, <3>2, <3>3 DEF LegOK, OnlyFirst, NotYetThere, Known, Truth
    <3>7. OneSends(l)' /\ Recorded(l)' /\ Synced(l)' /\ FoundOne(l)'
      BY <3>5 DEF OneSends, Recorded, Synced, FoundOne
    <3> QED
      BY <3>6, <3>7 DEF LegOK
  <2>2. ASSUME NEW l \in Leg \ excused', \A o \in proc[p].todo : o.leg # l
        PROVE  Quiet(p, l) /\ Holds(p, l) /\ (l \in there => l \in there')
    BY <1>1, <1>2, <1>5, <2>2, Stopped DEF Holds
  <2> QED
    BY <1>1, <1>3, <1>5, <2>1, <2>2, Stopped, Walks
<1> QED
  BY <1>4, <1>5 DEF Checked

\* A leg of which nothing was sent is entered under the first number.
LEMMA FirstNumber ==
  ASSUME NEW l \in Leg, OnlyFirst(l), row[l][1].state = "none"
  PROVE  NextAttempt(l) = 1
<1>1. Numbers(l) = {}
  BY DEF OnlyFirst, Numbers
<1> QED
  BY <1>1, BoundAssumption DEF NextAttempt

\* The next leg of the list comes to its turn.
LEMMA NextOrderKeeps == ASSUME Inv, NEW p \in Proc, NextOrder(p) PROVE Inv'
<1>1. /\ Types /\ Common /\ proc[p].at = "next" /\ proc[p] \in ProcState
      /\ p \in Request /\ p \notin Syncer
      /\ UNCHANGED <<status, there, entered, row, venue, faults, excused>>
  BY WhoStands DEF Inv, Common, NextOrder, SyncStages
<1>2. \A l \in Leg : ~Records(p, l) /\ ~Entering(p, l)
  BY <1>1 DEF Records, Entering
<1>3. /\ there' \in SUBSET Leg /\ faults' \in 0..MaxFaults /\ excused' \in SUBSET Leg
      /\ status' \in {"draft", "paper", "live"}
  BY <1>1 DEF Types
<1>4. CASE proc' = [proc EXCEPT ![p] = Over(p)]
  <2>1. \A l \in Leg : Holds(p, l)
    BY <1>2 DEF Holds
  <2> QED
    BY <1>1, <1>3, <1>4, <2>1, Stopped, Walks
<1>5. CASE \E o \in BuysFirst(proc[p].todo) :
             LET n == IF o.n = 0 THEN NextAttempt(o.leg) ELSE o.n
             IN  /\ n \in Attempt
                 /\ proc' = [proc EXCEPT ![p].at = "send", ![p].todo = @ \ {o},
                                         ![p].has = [o EXCEPT !.n = n]]
  <2>1. PICK o \in proc[p].todo, n \in Attempt :
          /\ n = IF o.n = 0 THEN NextAttempt(o.leg) ELSE o.n
          /\ proc' = [proc EXCEPT ![p].at = "send", ![p].todo = @ \ {o},
                                  ![p].has = [o EXCEPT !.n = n]]
    BY <1>5 DEF BuysFirst
  <2> DEFINE h == [o EXCEPT !.n = n]
             r == [proc[p] EXCEPT !.at = "send", !.todo = proc[p].todo \ {o}, !.has = h]
  <2>2. proc' = [proc EXCEPT ![p] = r]
    BY <1>1, <2>1 DEF Types
  <2>3. o \in Item /\ proc[p].todo \subseteq Item
    BY <1>1 DEF ProcState
  <2>4. h \in Item /\ h.leg = o.leg /\ h.n = n /\ n # 0 /\ o.leg \in Leg
    BY <2>3, Bounds DEF Item
  <2> HIDE DEF h
  <2>5. r \in ProcState /\ r.at = "send" /\ r.todo = proc[p].todo \ {o} /\ r.has = h
    BY <1>1, <2>3, <2>4 DEF ProcState, Stage
  <2> HIDE DEF r
  <2>6. proc'[p] = r /\ \A q \in Proc : q # p => proc'[q] = proc[q]
    BY <1>1, <2>2, <2>5, Moves
  <2>7. Stands(p)' /\ HeardTrue(p)'
    BY <1>1, <2>4, <2>5, <2>6, WhoStands DEF Stands, HeardTrue
  <2>8. /\ ToSend(p) = proc[p].todo /\ ToSend(p)' = (proc[p].todo \ {o}) \cup {h}
        /\ ToWrite(p)' = {} /\ \A l \in Leg : ~Records(p, l)' /\ ~FoundIs(l, p)'
    BY <1>1, <2>5, <2>6 DEF ToSend, ToWrite, Records, FoundIs, Enters
  <2>9. ASSUME NEW l \in Leg \ excused', l # o.leg PROVE Quiet(p, l) /\ Holds(p, l)
    <3>1. ~InHand(p, l)'
      BY <2>4, <2>5, <2>6, <2>9 DEF InHand
    <3> QED
      BY <1>2, <2>4, <2>8, <2>9, <3>1 DEF Quiet, TakesNone, Holds
  <2>10. ASSUME o.leg \in Leg \ excused' PROVE LegOK(o.leg)'
    <3>1. PICK l \in Leg \ excused : l = o.leg
      BY <1>1, <2>10
    <3>2. LegOK(l) /\ o \in ToSend(p)
      BY <2>8 DEF Inv
    <3>3. /\ l \in there /\ o.n \in {0, 1}
          /\ \A q \in Proc : \A x \in ToSend(q) : x.leg = l => q = p /\ x = o
          /\ \A s \in Proc : \A x \in ToWrite(s) : x.leg # l
          /\ o.n = 0 => row[l][1].state = "none"
          /\ row[l][1].state \in {"none", "failed", "cancelled"}
          /\ Alive(l) = {}
      BY <1>2, <3>1, <3>2 DEF LegOK, OneSends
    <3>4. n = 1
      BY <2>1, <3>1, <3>2, <3>3, FirstNumber DEF LegOK
    <3>5. row'[l] = row[l] /\ Alive(l)' = {} /\ l \in there' /\ entered' = entered
      BY <1>1, <3>3, SameVenue
    <3>6. ASSUME NEW q \in Proc
          PROVE  /\ \A x \in ToSend(q)' : x.leg = l => q = p /\ x = h
                 /\ \A x \in ToWrite(q)' : x.leg # l
                 /\ InHand(q, l)' => \A x \in proc'[q].todo : x.leg # l
                 /\ ~Records(q, l)' /\ ~FoundIs(l, q)'
      <4>1. CASE q = p
        BY <2>5, <2>6, <2>8, <3>1, <3>3, <4>1
      <4>2. CASE q # p
        <5>1. proc'[q] = proc[q] /\ Stands(q)
          BY <1>1, <2>6, <4>2, WhoStands
        <5>2. ToSend(q)' = ToSend(q) /\ ToWrite(q)' = ToWrite(q)
          BY <5>1 DEF ToSend, ToWrite, Enters
        <5>3. \A x \in ToSend(q) \cup ToWrite(q) : x.leg # l
          BY <3>3, <4>2
        <5>4. ~Records(q, l)' /\ ~InHand(q, l)' /\ ~FoundIs(l, q)'
          BY <5>1, <5>3
             DEF Records, InHand, FoundIs, ToSend, ToWrite, Enters, Stands, SyncStages
        <5> QED
          BY <5>2, <5>3, <5>4
      <4> QED
        BY <4>1, <4>2
    <3>7. OneSends(l)'
      <4>1. h.leg = l /\ h.n = 1
        BY <2>4, <3>1, <3>4
      <4> QED
        BY <3>3, <3>5, <3>6, <4>1 DEF OneSends
    <3>8. OnlyFirst(l)' /\ Recorded(l)' /\ Known(l)' /\ Synced(l)' /\ FoundOne(l)'
      BY <3>2, <3>5, <3>6 DEF LegOK, OnlyFirst, Recorded, Known, Synced, FoundOne
    <3>9. NotYetThere(l)' /\ Truth(l)'
      BY <1>1, <3>2, <3>3, <3>5 DEF LegOK, NotYetThere, Truth
    <3> QED
      BY <3>1, <3>7, <3>8, <3>9 DEF LegOK
  <2> QED
    BY <1>1, <1>3, <2>2, <2>5, <2>7, <2>9, <2>10, Walks
<1> QED
  BY <1>4, <1>5 DEF NextOrder

\* A request that takes a resting order in hand holds no leg to send.
LEMMA TakeKeeps ==
  ASSUME Inv, NEW p \in Request, NEW at \in {"cancel", "edit"}, NEW price \in Limits,
         Take(p, at, price)
  PROVE  Inv'
<1>1. PICK o \in AsRead(Resting) :
        proc' = [proc EXCEPT ![p].at = at, ![p].has = o, ![p].price = price]
  BY DEF Take
<1>2. /\ p \in Proc /\ p \notin Syncer /\ proc[p] = Idle /\ status = "live" /\ Types
      /\ UNCHANGED <<status, there, entered, row, venue, faults, excused>>
  BY ProcAssumption DEF Take, Proc, Inv, Common
<1>3. o \in AsRead(Rows({"pending"})) /\ o.vid # 0
  BY <1>1 DEF AsRead, Resting
<1>4. o \in Item /\ o.n # 0 /\ o.vid # 0
  BY <1>2, <1>3, ReadRows, Bounds
<1> DEFINE r == [Idle EXCEPT !.at = at, !.has = o, !.price = price]
<1>5. proc' = [proc EXCEPT ![p] = r]
  BY <1>1, <1>2 DEF Types
<1>6. r \in ProcState /\ r.at = at /\ r.todo = {} /\ r.has = o
  BY <1>4, Nothing DEF ProcState, Stage
<1> HIDE DEF r
<1>7. proc'[p] = r
  BY <1>2, <1>5, <1>6, Moves
<1>8. Stands(p)' /\ HeardTrue(p)'
  BY <1>2, <1>4, <1>6, <1>7 DEF Stands, HeardTrue
<1>9. \A l \in Leg : Quiet(p, l) /\ Holds(p, l)
  BY <1>2, <1>6, <1>7, Nothing
     DEF Quiet, TakesNone, Holds, ToSend, ToWrite, InHand, Records, FoundIs, Enters, Entering
<1>10. /\ there' \in SUBSET Leg /\ faults' \in 0..MaxFaults /\ excused' \in SUBSET Leg
       /\ status' \in {"draft", "paper", "live"}
  BY <1>2 DEF Types
<1> QED
  BY <1>2, <1>5, <1>6, <1>8, <1>9, <1>10, Walks

\* A cancel takes up the order its row names.
LEMMA CancelKeeps == ASSUME Inv, NEW p \in Request, Cancel(p) PROVE Inv'
BY TakeKeeps DEF Cancel, Limits

\* So does an edit of its price.
LEMMA RepriceKeeps ==
  ASSUME Inv, NEW p \in Request, NEW price \in Price, Reprice(p, price)
  PROVE  Inv'
BY TakeKeeps DEF Reprice, Limits

\* The order is read back after the answer was lost.
LEMMA ReadKeeps == ASSUME Inv, NEW p \in Proc, Read(p) PROVE Inv'
<1>1. /\ Types /\ Common /\ proc[p].at = "read" /\ proc[p] \in ProcState
      /\ p \in Request /\ p \notin Syncer
      /\ UNCHANGED <<status, there, entered, row, venue, excused>>
  BY WhoStands DEF Inv, Common, Read, SyncStages
<1>2. /\ proc[p].has \in Item /\ proc[p].has.vid # 0 /\ proc[p].has.n # 0
      /\ proc[p].took => Standing(p, proc[p].has.vid) = "cancelled"
  BY <1>1, WhoStands DEF Stands, HeardTrue
<1>3. Theirs(p) \in OrderState /\ Theirs(p).state = Standing(p, proc[p].has.vid)
  <2>1. /\ proc[p].has.leg \in Leg /\ proc[p].has.n \in Attempt
        /\ proc[p].has.vid \in Order
    BY <1>2, Bounds DEF Item
  <2> QED
    BY <1>1, <2>1 DEF Types, Theirs, Standing
<1>4. PICK got \in {"none", "resting", "filled", "cancelled"}, price \in Limits :
        /\ proc' = [proc EXCEPT ![p].at = "answer", ![p].got = got, ![p].price = price]
        /\ got \in {"none", Standing(p, proc[p].has.vid)}
  <2>1. CASE proc' = [proc EXCEPT ![p].at = "answer", ![p].got = Theirs(p).state,
                                  ![p].price = Theirs(p).price]
    BY <1>3, <2>1 DEF OrderState
  <2>2. CASE proc' = [proc EXCEPT ![p].at = "answer", ![p].got = "none"]
    <3>1. /\ proc' = [proc EXCEPT ![p].at = "answer", ![p].got = "none",
                                  ![p].price = proc[p].price]
          /\ proc[p].price \in Limits
      BY <1>1, <2>2 DEF Types, ProcState
    <3> QED
      BY <3>1
  <2> QED
    BY <2>1, <2>2 DEF Read
<1> DEFINE r == [proc[p] EXCEPT !.at = "answer", !.got = got, !.price = price]
<1>5. proc' = [proc EXCEPT ![p] = r]
  BY <1>1, <1>4 DEF Types
<1>6. /\ r \in ProcState /\ r.at = "answer" /\ r.todo = proc[p].todo /\ r.has = proc[p].has
      /\ r.got = got /\ r.took = proc[p].took
  BY <1>1 DEF ProcState, Stage, Heard
<1> HIDE DEF r
<1>7. proc'[p] = r
  BY <1>1, <1>5, <1>6, Moves
<1>8. Stands(p)' /\ HeardTrue(p)'
  <2>1. Standing(p, proc[p].has.vid)' = Standing(p, proc[p].has.vid)
    BY <1>1, <1>6, <1>7 DEF Standing
  <2>2. status = "live" /\ proc[p].todo = {}
    BY <1>1, WhoStands DEF Stands
  <2>3. Stands(p)'
    BY <1>1, <1>2, <1>6, <1>7, <2>2 DEF Stands
  <2>4. proc'[p].at = "answer" /\ proc'[p].got = got /\ proc'[p].has = proc[p].has
    BY <1>6, <1>7
  <2>5. proc'[p].took = proc[p].took
    BY <1>6, <1>7
  <2> QED
    BY <1>2, <1>4, <2>1, <2>3, <2>4, <2>5 DEF HeardTrue
<1>9. \A l \in Leg : Quiet(p, l) /\ Holds(p, l)
  BY <1>1, <1>6, <1>7
     DEF Quiet, TakesNone, Holds, ToSend, ToWrite, InHand, Records, FoundIs, Enters, Entering
<1>10. /\ there' \in SUBSET Leg /\ faults' \in 0..MaxFaults /\ excused' \in SUBSET Leg
       /\ status' \in {"draft", "paper", "live"}
  BY <1>1, BoundAssumption DEF Types, Read, Fault
<1> QED
  BY <1>1, <1>5, <1>6, <1>8, <1>9, <1>10, Walks

-----------------------------------------------------------------------------
(* The order sync.                                                         *)

\* A sync takes up the rows it reads as pending.
LEMMA SyncStartKeeps == ASSUME Inv, NEW s \in Syncer, SyncStart(s) PROVE Inv'
<1> DEFINE todo == AsRead(Rows({"pending"}))
           r == [Idle EXCEPT !.at = "sync", !.todo = todo]
<1>1. /\ s \in Proc /\ s \notin Request /\ proc[s] = Idle /\ status = "live"
      /\ Types /\ Common
      /\ UNCHANGED <<status, there, entered, row, venue, faults, excused>>
  BY ProcAssumption DEF SyncStart, Proc, Inv, Common
<1>2. todo \in SUBSET Item /\ \A o \in todo : o.n # 0
  BY <1>1, ReadRows, Bounds
<1>3. proc' = [proc EXCEPT ![s] = r]
  BY <1>1 DEF SyncStart, Types
<1>4. r \in ProcState /\ r.at = "sync" /\ r.todo = todo /\ r.has = NoItem
  BY <1>2, Nothing DEF ProcState, Stage
<1> HIDE DEF r, todo
<1>5. proc'[s] = r /\ \A q \in Proc : q # s => proc'[q] = proc[q]
  BY <1>1, <1>3, <1>4, Moves
<1>6. Stands(s)' /\ HeardTrue(s)'
  BY <1>1, <1>2, <1>4, <1>5 DEF Stands, HeardTrue, SyncStages
<1>7. ASSUME NEW l \in Leg \ excused' PROVE LegOK(l)'
  <2>1. /\ LegOK(l) /\ row'[l] = row[l] /\ entered' = entered /\ there' = there
        /\ Alive(l)' = Alive(l) /\ venue' = venue
    BY <1>1, SameVenue DEF Inv
  <2>2. \A o \in todo : o.leg = l =>
          o.n = 1 /\ row[l][1].state = "pending" /\ o.vid = row[l][1].vid
    BY <1>1, <2>1, ReadRows DEF LegOK, OnlyFirst, todo
  <2>3. /\ ToSend(s)' = {} /\ ToWrite(s)' = todo
        /\ ~Records(s, l) /\ ~Entering(s, l)
        /\ ~Records(s, l)' /\ ~InHand(s, l)' /\ ~FoundIs(l, s)'
    BY <1>1, <1>4, <1>5, Nothing
       DEF ToSend, ToWrite, Records, InHand, FoundIs, Enters, Entering
  <2>4. ASSUME NEW q \in Proc, q # s
        PROVE  /\ ToSend(q)' = ToSend(q) /\ ToWrite(q)' = ToWrite(q)
               /\ proc'[q] = proc[q]
               /\ Records(q, l)' <=> Records(q, l)
               /\ InHand(q, l)' <=> InHand(q, l)
               /\ FoundIs(l, q)' <=> FoundIs(l, q)
    BY <1>5, <2>4 DEF ToSend, ToWrite, Records, InHand, FoundIs, Enters
  <2>5. \A q \in Proc : Records(q, l)' <=> Records(q, l)
    BY <2>3, <2>4
  <2>6. ASSUME row[l][1].state = "pending"
        PROVE  /\ \A q \in Proc : ~Records(q, l) /\ \A x \in ToSend(q) : x.leg # l
               /\ \A a \in Alive(l) : a[1] = 1 /\ row[l][1].vid \in {0, a[2]}
    <3>1. \A q \in Proc : \A x \in ToSend(q) : x.leg # l
      BY <2>1, <2>6 DEF LegOK, OneSends
    <3>2. ASSUME NEW q \in Proc, Records(q, l) PROVE FALSE
      <4>1. q \notin Syncer
        BY <1>1, <3>2, WhoStands DEF Records, SyncStages
      <4>2. proc[q].has \in ToSend(q) /\ proc[q].has.leg = l
        BY <3>2, <4>1 DEF ToSend, Records, Enters
      <4> QED
        BY <3>1, <4>2
    <3> QED
      BY <2>1, <3>1, <3>2 DEF LegOK, OnlyFirst, Known
  <2>7. OneSends(l)'
    <3>1. ASSUME NEW q \in Proc
          PROVE  /\ ToSend(q)' \subseteq ToSend(q)
                 /\ InHand(q, l)' => InHand(q, l) /\ proc'[q] = proc[q]
      BY <2>3, <2>4
    <3>2. ASSUME NEW q \in Proc, NEW x \in ToSend(q), x.leg = l
          PROVE  \A t \in Proc : \A y \in ToWrite(t)' : y.leg # l
      <4>1. row[l][1].state # "pending"
        BY <2>6, <3>2
      <4> QED
        BY <2>1, <2>2, <2>3, <2>4, <3>2, <4>1 DEF LegOK, OneSends
    <3> QED
      BY <2>1, <2>5, <3>1, <3>2 DEF LegOK, OneSends
  <2>8. Recorded(l)' /\ Known(l)'
    BY <2>1, <2>3, <2>4, <2>5 DEF LegOK, Recorded, Known
  <2>9. Synced(l)'
    <3>1. ASSUME NEW o \in todo, o.leg = l
          PROVE  /\ o.n = 1 /\ row[l][1].state # "none"
                 /\ o.vid # 0 => row[l][1].vid = o.vid /\ Alive(l) \subseteq {<<1, o.vid>>}
      <4>1. \A a \in Alive(l) : a = <<a[1], a[2]>>
        BY DEF Alive
      <4> QED
        BY <2>2, <2>6, <3>1, <4>1
    <3> QED
      BY <2>1, <2>3, <2>4, <3>1 DEF LegOK, Synced
  <2>10. FoundOne(l)'
    BY <2>1, <2>3, <2>4 DEF LegOK, FoundOne
  <2>11. Truth(l)'
    <3>1. \A q \in Proc : Entering(q, l) => Entering(q, l)'
      BY <2>3, <2>4 DEF Entering
    <3> QED
      BY <2>1, <3>1 DEF LegOK, Truth, Entering
  <2>12. OnlyFirst(l)' /\ NotYetThere(l)'
    BY <2>1 DEF LegOK, OnlyFirst, NotYetThere
  <2> QED
    BY <2>7, <2>8, <2>9, <2>10, <2>11, <2>12 DEF LegOK
<1>8. /\ there' \in SUBSET Leg /\ faults' \in 0..MaxFaults /\ excused' \in SUBSET Leg
      /\ status' \in {"draft", "paper", "live"}
  BY <1>1 DEF Types
<1> QED
  BY <1>1, <1>3, <1>4, <1>6, <1>7, <1>8, Walks

\* An order that is sent or recorded is one to send, and nobody sends one that a sync holds
\* or that is pending.
LEMMA InHandSends ==
  ASSUME Common, NEW l \in Leg, NEW q \in Proc, InHand(q, l)
  PROVE  /\ proc[q].has \in ToSend(q) /\ proc[q].has.leg = l /\ proc[q].has \in Item
         /\ proc[q].has.n # 0 /\ q \in Request /\ q \notin Syncer
<1>1. q \in Request /\ q \notin Syncer
  BY WhoStands DEF InHand, SyncStages
<1>2. proc[q].has \in Item /\ proc[q].has.n # 0
  BY WhoStands DEF InHand, Stands
<1> QED
  BY <1>1, <1>2 DEF InHand, ToSend, Enters

\* A leg whose row stands for an order, or that a sync holds, nobody has to send.
LEMMA NobodySends ==
  ASSUME Common, NEW l \in Leg, LegOK(l),
         \/ row[l][1].state \in {"pending", "filled"}
         \/ \E s \in Proc : \E x \in ToWrite(s) : x.leg = l,
         NEW q \in Proc
  PROVE  /\ \A x \in ToSend(q) : x.leg # l
         /\ ~InHand(q, l) /\ ~Records(q, l)
<1>1. \A x \in ToSend(q) : x.leg # l
  BY DEF LegOK, OneSends
<1>2. ~InHand(q, l)
  BY <1>1, InHandSends
<1> QED
  BY <1>1, <1>2 DEF InHand, Records

\* A sync asks what became of the order, by its id or its client id.
LEMMA SyncAskKeeps == ASSUME Inv, NEW s \in Proc, SyncAsk(s) PROVE Inv'
<1>1. /\ Types /\ Common /\ proc[s].at = "sync" /\ proc[s] \in ProcState
      /\ s \in Syncer /\ s \notin Request
      /\ UNCHANGED <<status, there, entered, row, venue, excused>>
  BY WhoStands DEF Inv, Common, SyncAsk
<1>2. /\ there' \in SUBSET Leg /\ faults' \in 0..MaxFaults /\ excused' \in SUBSET Leg
      /\ status' \in {"draft", "paper", "live"}
  <2>1. faults' = faults \/ Fault
    BY DEF SyncAsk
  <2> QED
    BY <1>1, <2>1, BoundAssumption DEF Types, Fault
<1>3. \A l \in Leg : Holds(s, l)
  BY <1>1 DEF Holds, Records, Entering
<1>4. CASE proc' = [proc EXCEPT ![s] = Idle]
  <2>1. Over(s) = Idle
    BY <1>1 DEF Over
  <2> QED
    BY <1>1, <1>2, <1>3, <1>4, <2>1, Stopped, Walks
<1>5. CASE \E o \in proc[s].todo :
             LET hears(got, v, price) ==
                   proc' = [proc EXCEPT ![s].at = "write", ![s].todo = @ \ {o}, ![s].has = o,
                                        ![s].got = got, ![s].vid = v, ![s].price = price]
             IN  \/ /\ \E v \in Found(o) :
                         hears(venue[o.leg][o.n][v].state, v, venue[o.leg][o.n][v].price)
                    /\ UNCHANGED faults
                 \/ Found(o) = {} /\ hears("none", 0, 0) /\ UNCHANGED faults
                 \/ Found(o) # {} /\ hears("none", 0, 0) /\ Fault
  <2>1. PICK o \in proc[s].todo :
          LET hears(got, v, price) ==
                proc' = [proc EXCEPT ![s].at = "write", ![s].todo = @ \ {o}, ![s].has = o,
                                     ![s].got = got, ![s].vid = v, ![s].price = price]
          IN  \/ \E v \in Found(o) :
                   hears(venue[o.leg][o.n][v].state, v, venue[o.leg][o.n][v].price)
              \/ hears("none", 0, 0)
    BY <1>5
  <2>2. /\ o \in Item /\ o.n # 0 /\ o.leg \in Leg /\ o.n \in Attempt
        /\ proc[s].todo \subseteq Item /\ \A x \in proc[s].todo : x.n # 0
    BY <1>1, WhoStands, Bounds DEF ProcState, Stands, Item
  <2>3. PICK got \in {"none", "resting", "filled", "cancelled"}, v \in 0..MaxOrder,
             price \in Limits :
          /\ proc' = [proc EXCEPT ![s].at = "write", ![s].todo = @ \ {o}, ![s].has = o,
                                  ![s].got = got, ![s].vid = v, ![s].price = price]
          /\ got # "none" => v \in Found(o) /\ venue[o.leg][o.n][v].state = got
    <3>1. \A v \in Found(o) : /\ v \in 0..MaxOrder
                              /\ venue[o.leg][o.n][v] \in OrderState
      <4>1. ASSUME NEW v \in Found(o) PROVE v \in Order /\ v \in 0..MaxOrder
        BY <4>1, Bounds DEF Found
      <4> QED
        BY <1>1, <2>2, <4>1 DEF Types
    <3>2. \A v \in Found(o) : /\ venue[o.leg][o.n][v].state
                                   \in {"none", "resting", "filled", "cancelled"}
                              /\ venue[o.leg][o.n][v].price \in Limits
      BY <3>1 DEF OrderState
    <3> QED
      BY <2>1, <3>1, <3>2, Bounds DEF Limits
  <2> DEFINE r == [proc[s] EXCEPT !.at = "write", !.todo = proc[s].todo \ {o}, !.has = o,
                                  !.got = got, !.vid = v, !.price = price]
  <2>4. proc' = [proc EXCEPT ![s] = r]
    BY <1>1, <2>3 DEF Types
  <2>5. /\ r \in ProcState /\ r.at = "write" /\ r.todo = proc[s].todo \ {o} /\ r.has = o
        /\ r.got = got /\ r.vid = v
    BY <1>1, <2>2 DEF ProcState, Stage, Heard
  <2> HIDE DEF r
  <2>6. proc'[s] = r /\ \A q \in Proc : q # s => proc'[q] = proc[q]
    BY <1>1, <2>4, <2>5, Moves
  <2>7. /\ ToSend(s)' = {} /\ ToWrite(s) = proc[s].todo /\ ToWrite(s)' = proc[s].todo
        /\ \A l \in Leg : ~InHand(s, l)' /\ ~Records(s, l)'
    BY <1>1, <2>5, <2>6 DEF ToSend, ToWrite, InHand, Records
  <2>8. Stands(s)' /\ HeardTrue(s)'
    <3>1. Stands(s)'
      BY <1>1, <2>2, <2>5, <2>6, WhoStands DEF Stands, SyncStages
    <3>2. ASSUME got \in {"filled", "cancelled"}
          PROVE  v # 0 /\ v = o.vid /\ venue[o.leg][o.n][v].state = got
      BY <2>3, <3>2, Bounds DEF Found
    <3> QED
      BY <1>1, <2>5, <2>6, <3>1, <3>2 DEF HeardTrue, Standing
  <2>9. ASSUME NEW l \in Leg \ excused'
        PROVE  (Quiet(s, l) /\ Holds(s, l)) \/ LegOK(l)'
    <3>1. CASE ~FoundIs(l, s)'
      BY <1>3, <2>7, <3>1 DEF Quiet, TakesNone
    <3>2. CASE FoundIs(l, s)'
      <4>1. o.leg = l /\ got = "resting" /\ o.vid = 0
        BY <2>5, <2>6, <3>2 DEF FoundIs
      <4>2. v \in Order /\ venue[l][o.n][v].state = "resting"
        BY <2>3, <4>1 DEF Found
      <4>3. LegOK(l) /\ o \in ToWrite(s)
        BY <1>1, <2>7 DEF Inv
      <4>4. o.n = 1 /\ \A q \in Proc : ~Records(q, l)
        BY <1>1, <4>1, <4>3, NobodySends DEF LegOK, Synced
      <4>5. Alive(l) = {<<1, v>>}
        <5>1. <<1, v>> \in Alive(l)
          BY <2>2, <4>2, <4>4 DEF Alive
        <5> QED
          BY <4>3, <5>1 DEF LegOK, OnlyFirst
      <4>6. row[l][1].vid \in {0, v}
        BY <4>3, <4>4, <4>5 DEF LegOK, Known
      <4>7. Alive(l)' = Alive(l) /\ row'[l] = row[l] /\ Steady
        BY <1>1, SameVenue
      <4>8. FoundOne(l)'
        <5>1. ASSUME NEW t \in Proc, FoundIs(l, t)'
              PROVE  proc'[t].vid = v
          <6>1. CASE t = s
            BY <2>5, <2>6, <6>1
          <6>2. CASE t # s
            <7>1. FoundIs(l, t) /\ proc'[t] = proc[t]
              BY <2>6, <5>1, <6>2 DEF FoundIs
            <7>2. <<1, v>> \in {<<1, proc[t].vid>>}
              BY <4>3, <4>5, <7>1 DEF LegOK, FoundOne
            <7> QED
              BY <7>1, <7>2
          <6> QED
            BY <6>1, <6>2
        <5>2. v # 0
          BY <4>2, Bounds
        <5> QED
          BY <4>5, <4>6, <4>7, <5>1, <5>2 DEF FoundOne
      <4>9. \A q \in Proc : TakesNone(q, l) /\ Holds(q, l)
        <5>1. TakesNone(s, l)
          BY <2>7 DEF TakesNone
        <5> QED
          BY <1>3, <2>6, <5>1, StillIsQuiet DEF Quiet
      <4>10. (l \in entered => l \in entered') /\ (l \in there => l \in there')
        BY <1>1
      <4> QED
        BY <1>1, <4>3, <4>7, <4>8, <4>9, <4>10, LegStaysOr
    <3> QED
      BY <3>1, <3>2
  <2> QED
    BY <1>1, <1>2, <2>4, <2>5, <2>8, <2>9, Walks
<1> QED
  BY <1>4, <1>5 DEF SyncAsk

-----------------------------------------------------------------------------
(* Steps at the exchange, and steps in the books.                          *)

\* What such a step of a process has to show.
LEMMA Acts ==
  ASSUME Inv, NEW p \in Proc, NEW r \in ProcState, proc' = [proc EXCEPT ![p] = r],
         row' \in [Leg -> [Attempt -> RowState]],
         venue' \in [Leg -> [Attempt -> [Order -> OrderState]]], Steady,
         status = "live", UNCHANGED <<status, there>>,
         entered' \in SUBSET Leg, faults' \in 0..MaxFaults,
         excused \subseteq excused', excused' \in SUBSET Leg,
         Stands(p)', HeardTrue(p)',
         \A l \in Leg \ excused' : LegOK(l)'
  PROVE  Inv'
<1>1. proc' \in [Proc -> ProcState] /\ \A q \in Proc : Stands(q)' /\ HeardTrue(q)'
  BY CommonMoves DEF Inv
<1>2. Types'
  BY <1>1 DEF Inv, Common, Types
<1>3. NothingYet'
  BY DEF NothingYet
<1> QED
  BY <1>1, <1>2, <1>3 DEF Inv, Common

\* One order of the exchange that was not over becomes another.
LEMMA OrderBecomes ==
  ASSUME Types, NEW l \in Leg, NEW n \in Attempt, NEW v \in Order, NEW order \in OrderState,
         venue[l][n][v].state \in {"none", "resting"},
         venue' = [venue EXCEPT ![l][n][v] = order]
  PROVE  /\ venue' \in [Leg -> [Attempt -> [Order -> OrderState]]] /\ Steady
         /\ venue'[l][n][v] = order
         /\ \A m \in Leg : m # l => Alive(m)' = Alive(m)
         /\ Alive(l)' \subseteq Alive(l) \cup {<<n, v>>}
         /\ venue[l][n][v].state = "resting" => Alive(l)' \subseteq Alive(l)
<1>1. venue' \in [Leg -> [Attempt -> [Order -> OrderState]]]
  BY DEF Types
<1>2. \A m \in Leg, k \in Attempt, w \in Order :
        venue'[m][k][w] = IF m = l /\ k = n /\ w = v THEN order ELSE venue[m][k][w]
  BY DEF Types
<1>3. Steady
  BY <1>2 DEF Steady
<1>4. venue'[l][n][v] = order
  BY <1>2
<1>5. \A m \in Leg : m # l => Alive(m)' = Alive(m)
  BY <1>2 DEF Alive
<1>6. Alive(l)' \subseteq Alive(l) \cup {<<n, v>>}
  BY <1>2 DEF Alive
<1>7. venue[l][n][v].state = "resting" => <<n, v>> \in Alive(l)
  BY DEF Alive
<1> QED
  BY <1>1, <1>3, <1>4, <1>5, <1>6, <1>7

\* The exchange fills or cancels a resting order: every leg in order stays so.
LEMMA VenueMovesKeeps == ASSUME Inv, VenueMoves PROVE Inv'
<1>1. PICK l \in Leg, n \in Attempt, v \in Order, to \in {"filled", "cancelled"} :
        /\ venue[l][n][v].state = "resting"
        /\ venue' = [venue EXCEPT ![l][n][v].state = to]
  BY DEF VenueMoves
<1>2. UNCHANGED <<status, there, entered, row, proc, faults, excused>> /\ Types
  BY DEF VenueMoves, Inv, Common
<1> DEFINE order == [venue[l][n][v] EXCEPT !.state = to]
<1>3. order \in OrderState /\ venue' = [venue EXCEPT ![l][n][v] = order]
  <2>1. venue[l][n][v] \in OrderState
    BY <1>2 DEF Types
  <2>2. order \in OrderState
    BY <2>1 DEF OrderState
  <2> QED
    BY <1>1, <1>2, <2>2 DEF Types
<1> HIDE DEF order
<1>4. /\ venue' \in [Leg -> [Attempt -> [Order -> OrderState]]] /\ Steady
      /\ \A m \in Leg : Alive(m)' \subseteq Alive(m)
  <2>1. /\ venue' \in [Leg -> [Attempt -> [Order -> OrderState]]] /\ Steady
        /\ \A m \in Leg : m # l => Alive(m)' = Alive(m)
        /\ venue[l][n][v].state = "resting" => Alive(l)' \subseteq Alive(l)
    <3>1. venue[l][n][v].state \in {"none", "resting"} /\ Types
      BY <1>1, <1>2
    <3> QED
      BY <1>3, <3>1, OrderBecomes
  <2> QED
    BY <1>1, <2>1
<1>5. \A q \in Proc : Stands(q)' /\ HeardTrue(q)'
  BY <1>2, <1>4, StandsStill DEF Inv, Common
<1>6. Types'
  BY <1>2, <1>4 DEF Types
<1>7. NothingYet'
  BY <1>1, <1>2 DEF Inv, Common, NothingYet
<1>8. ASSUME NEW m \in Leg \ excused' PROVE LegOK(m)'
  <2>1. LegOK(m) /\ row'[m] = row[m] /\ entered' = entered /\ there' = there
    BY <1>2 DEF Inv
  <2>2. \A q \in Proc : Quiet(q, m) /\ Holds(q, m)
    BY <1>2, StillIsQuiet
  <2> QED
    BY <1>2, <1>4, <2>1, <2>2, LegStays
<1> QED
  BY <1>5, <1>6, <1>7, <1>8 DEF Inv, Common

\* A resting order of which a request has the id is cancelled or edited, or nothing happens.
LEMMA TheirsMoves ==
  ASSUME Inv, NEW p \in Request, NEW r \in ProcState, proc' = [proc EXCEPT ![p] = r],
         proc[p].at \in {"cancel", "edit"}, r.at \in {"read", "answer"},
         r.todo = {}, r.has = proc[p].has,
         \/ UNCHANGED venue
         \/ \E order \in OrderState : Theirs(p).state = "resting" /\ TheirsIs(p, order),
         r.at = "answer" /\ r.got \in {"filled", "cancelled"} => Theirs(p)'.state = r.got,
         r.at = "answer" => r.got # "none",
         r.took /\ r.at = "read" => Theirs(p)'.state = "cancelled",
         faults' \in 0..MaxFaults, UNCHANGED <<status, there, entered, row, excused>>
  PROVE  Inv'
<1>1. /\ Types /\ Common /\ p \in Proc /\ p \notin Syncer /\ status = "live"
      /\ proc[p] \in ProcState /\ proc[p].todo = {}
      /\ proc[p].has \in Item /\ proc[p].has.n # 0 /\ proc[p].has.vid # 0
  BY ProcAssumption, WhoStands DEF Inv, Common, Proc, Stands
<1>2. proc[p].has.leg \in Leg /\ proc[p].has.n \in Attempt /\ proc[p].has.vid \in Order
  BY <1>1, Bounds DEF Item
<1>3. /\ venue' \in [Leg -> [Attempt -> [Order -> OrderState]]] /\ Steady
      /\ \A l \in Leg : Alive(l)' \subseteq Alive(l)
  <2>1. CASE UNCHANGED venue
    BY <1>1, <2>1, SameVenue DEF Types
  <2>2. CASE \E order \in OrderState : Theirs(p).state = "resting" /\ TheirsIs(p, order)
    <3>1. PICK l \in Leg, n \in Attempt, v \in Order :
            l = proc[p].has.leg /\ n = proc[p].has.n /\ v = proc[p].has.vid
      BY <1>2
    <3>2. PICK order \in OrderState :
            /\ venue[l][n][v].state = "resting"
            /\ venue' = [venue EXCEPT ![l][n][v] = order]
      BY <2>2, <3>1 DEF Theirs, TheirsIs
    <3>3. /\ venue' \in [Leg -> [Attempt -> [Order -> OrderState]]] /\ Steady
          /\ \A m \in Leg : m # l => Alive(m)' = Alive(m)
          /\ venue[l][n][v].state = "resting" => Alive(l)' \subseteq Alive(l)
      <4>1. venue[l][n][v].state \in {"none", "resting"}
        BY <3>2
      <4> QED
        BY <1>1, <3>2, <4>1, OrderBecomes
    <3> QED
      BY <3>2, <3>3
  <2> QED
    BY <2>1, <2>2
<1>4. proc'[p] = r
  BY <1>1, Moves
<1>5. Stands(p)' /\ HeardTrue(p)'
  BY <1>1, <1>4 DEF Stands, HeardTrue, Standing, Theirs
<1>6. \A l \in Leg : Quiet(p, l) /\ Holds(p, l)
  BY <1>1, <1>4 DEF Quiet, TakesNone, Holds, ToSend, ToWrite, InHand, Records, FoundIs, Enters,
                   Entering
<1>7. ASSUME NEW l \in Leg \ excused' PROVE LegOK(l)'
  <2>1. LegOK(l) /\ row'[l] = row[l] /\ entered' = entered /\ there' = there
    BY DEF Inv
  <2> QED
    BY <1>1, <1>3, <1>6, <2>1, LegStaysAside
<1>8. /\ row' \in [Leg -> [Attempt -> RowState]]
      /\ entered' \in SUBSET Leg /\ excused' \in SUBSET Leg
  BY <1>1 DEF Types
<1> QED
  BY <1>1, <1>3, <1>5, <1>7, <1>8, Acts

\* What the exchange made of it is what it is then.
LEMMA TheirsIsThen ==
  ASSUME Inv, NEW p \in Request, proc[p].at \in {"cancel", "edit"}, NEW order \in OrderState,
         NEW r \in ProcState, proc' = [proc EXCEPT ![p] = r], r.has = proc[p].has,
         TheirsIs(p, order)
  PROVE  Theirs(p)' = order
<1>1. /\ Types /\ p \in Proc /\ proc[p].has \in Item
      /\ proc[p].has.n # 0 /\ proc[p].has.vid # 0
  BY WhoStands DEF Inv, Common, Proc, Stands
<1>2. PICK l \in Leg, n \in Attempt, v \in Order :
        l = proc[p].has.leg /\ n = proc[p].has.n /\ v = proc[p].has.vid
  BY <1>1, Bounds DEF Item
<1>3. venue' = [venue EXCEPT ![l][n][v] = order]
  BY <1>2 DEF TheirsIs
<1>4. venue'[l][n][v] = order
  BY <1>1, <1>3 DEF Types
<1>5. proc'[p].has = proc[p].has
  BY <1>1 DEF Types
<1> QED
  BY <1>2, <1>4, <1>5 DEF Theirs

\* The exchange cancels what still rests.
LEMMA SendCancelKeeps == ASSUME Inv, NEW p \in Proc, SendCancel(p) PROVE Inv'
<1>1. /\ Types /\ proc[p].at = "cancel" /\ proc[p] \in ProcState
      /\ p \in Request /\ proc[p].todo = {}
      /\ UNCHANGED <<status, there, entered, row, excused>>
  BY WhoStands DEF Inv, Common, SendCancel, SyncStages, Stands
<1>2. faults' \in 0..MaxFaults
  <2>1. faults' = faults \/ Fault
    BY DEF SendCancel
  <2> QED
    BY <1>1, <2>1, BoundAssumption DEF Types, Fault
<1> DEFINE order == [Theirs(p) EXCEPT !.state = "cancelled"]
<1>3. order \in OrderState /\ order.state = "cancelled"
  <2>1. /\ proc[p].has.leg \in Leg /\ proc[p].has.n \in Attempt
        /\ proc[p].has.vid \in Order
    BY <1>1, WhoStands, Bounds DEF Inv, Stands, Item
  <2>2. Theirs(p) \in OrderState
    BY <1>1, <2>1 DEF Types, Theirs
  <2> QED
    BY <2>2 DEF OrderState
<1>4. PICK took \in BOOLEAN :
        /\ proc' = [proc EXCEPT ![p].at = "read", ![p].took = took]
        /\ \/ Theirs(p).state = "resting" /\ TheirsIs(p, order)
           \/ ~took /\ UNCHANGED venue
  BY DEF SendCancel
<1> DEFINE r == [proc[p] EXCEPT !.at = "read", !.took = took]
<1>5. proc' = [proc EXCEPT ![p] = r]
  BY <1>1, <1>4 DEF Types
<1>6. /\ r \in ProcState /\ r.at = "read" /\ r.todo = {} /\ r.has = proc[p].has
      /\ r.took = took
  BY <1>1 DEF ProcState, Stage
<1> HIDE DEF r, order
<1>7. took => Theirs(p)'.state = "cancelled"
  BY <1>1, <1>3, <1>4, <1>5, <1>6, TheirsIsThen
<1>8. \/ UNCHANGED venue
      \/ \E o \in OrderState : Theirs(p).state = "resting" /\ TheirsIs(p, o)
  BY <1>3, <1>4
<1> QED
  BY <1>1, <1>2, <1>5, <1>6, <1>7, <1>8, TheirsMoves

\* The exchange replaces what still rests by an order at the new price.
LEMMA SendEditKeeps == ASSUME Inv, NEW p \in Proc, SendEdit(p) PROVE Inv'
<1>1. /\ Types /\ proc[p].at = "edit" /\ proc[p] \in ProcState
      /\ p \in Request /\ proc[p].todo = {}
      /\ UNCHANGED <<status, there, entered, row, excused>>
  BY WhoStands DEF Inv, Common, SendEdit, SyncStages, Stands
<1>2. faults' \in 0..MaxFaults
  <2>1. faults' = faults \/ Fault
    BY DEF SendEdit
  <2> QED
    BY <1>1, <2>1, BoundAssumption DEF Types, Fault
<1>3. PICK at \in {"read", "answer"}, took \in BOOLEAN, got \in {"none", "resting", "filled"} :
        /\ proc' = [proc EXCEPT ![p].at = at, ![p].took = took, ![p].got = got]
        /\ at = "read" => ~took
        /\ \/ \E state \in {"resting", "filled"} :
                /\ Theirs(p).state = "resting"
                /\ TheirsIs(p, [state |-> state, price |-> proc[p].price])
                /\ at = "answer" => got = state
           \/ at = "read" /\ UNCHANGED venue
  BY DEF SendEdit
<1> DEFINE r == [proc[p] EXCEPT !.at = at, !.took = took, !.got = got]
<1>4. proc' = [proc EXCEPT ![p] = r]
  BY <1>1, <1>3 DEF Types
<1>5. /\ r \in ProcState /\ r.at = at /\ r.todo = {} /\ r.has = proc[p].has
      /\ r.took = took /\ r.got = got
  BY <1>1 DEF ProcState, Stage, Heard
<1> HIDE DEF r
<1>6. \A state \in {"resting", "filled"} :
        /\ [state |-> state, price |-> proc[p].price] \in OrderState
        /\ [state |-> state, price |-> proc[p].price].state = state
  BY <1>1 DEF OrderState, ProcState
<1>7. at = "answer" => got # "none" /\ Theirs(p)'.state = got
  BY <1>1, <1>3, <1>4, <1>5, <1>6, TheirsIsThen
<1>8. \/ UNCHANGED venue
      \/ \E o \in OrderState : Theirs(p).state = "resting" /\ TheirsIs(p, o)
  BY <1>3, <1>6
<1> QED
  BY <1>1, <1>2, <1>3, <1>4, <1>5, <1>7, <1>8, TheirsMoves

\* The exchange takes an order, or refuses it; the answer may be lost.
LEMMA SendKeeps == ASSUME Inv, NEW p \in Proc, Send(p) PROVE Inv'
<1>1. /\ Types /\ Common /\ proc[p].at = "send" /\ proc[p] \in ProcState
      /\ p \in Request /\ p \notin Syncer /\ status = "live"
      /\ proc[p].has \in Item /\ proc[p].has.n # 0
      /\ UNCHANGED <<status, there, entered, row, excused>>
  BY WhoStands DEF Inv, Common, Send, SyncStages, Stands
<1>2. faults' \in 0..MaxFaults
  <2>1. faults' = faults \/ Fault
    BY DEF Send
  <2> QED
    BY <1>1, <2>1, BoundAssumption DEF Types, Fault
<1>3. PICK l \in Leg, n \in Attempt : l = proc[p].has.leg /\ n = proc[p].has.n
  BY <1>1, Bounds DEF Item
<1> DEFINE made(state) == [state |-> state, price |-> proc[p].has.price]
           hears(got, v) == proc' = [proc EXCEPT ![p].at = "record", ![p].got = got,
                                                 ![p].vid = v]
           takes(state, v) == /\ venue[l][n][v].state = "none"
                              /\ venue' = [venue EXCEPT ![l][n][v] = made(state)]
<1>4. \A state \in {"resting", "filled"} :
        made(state) \in OrderState /\ made(state).state = state
  BY <1>1 DEF OrderState, Item, Limits
<1>5. \/ \E state \in {"resting", "filled"}, v \in Order : takes(state, v) /\ hears(state, v)
      \/ hears("refused", 0) /\ UNCHANGED venue
      \/ hears("unknown", 0) /\ UNCHANGED venue
      \/ hears("unknown", 0) /\ \E state \in {"resting", "filled"}, v \in Order : takes(state, v)
  BY <1>3 DEF Send
<1> HIDE DEF made, takes, hears
<1>6. PICK got \in {"resting", "filled", "refused", "unknown"}, vid \in 0..MaxOrder :
        /\ hears(got, vid)
        /\ \/ UNCHANGED venue /\ got \in {"refused", "unknown"} /\ vid = 0
           \/ \E state \in {"resting", "filled"}, v \in Order :
                /\ takes(state, v)
                /\ (got = state /\ vid = v) \/ (got = "unknown" /\ vid = 0)
  BY <1>5, Bounds
<1> DEFINE r == [proc[p] EXCEPT !.at = "record", !.got = got, !.vid = vid]
<1>7. proc' = [proc EXCEPT ![p] = r]
  BY <1>1, <1>6 DEF Types, hears
<1>8. /\ r \in ProcState /\ r.at = "record" /\ r.todo = proc[p].todo /\ r.has = proc[p].has
      /\ r.got = got /\ r.vid = vid
  BY <1>1 DEF ProcState, Stage, Heard
<1> HIDE DEF r
<1>9. proc'[p] = r /\ \A q \in Proc : q # p => proc'[q] = proc[q]
  BY <1>1, <1>7, <1>8, Moves
\* What the exchange has then.
<1>10. /\ venue' \in [Leg -> [Attempt -> [Order -> OrderState]]] /\ Steady
       /\ \A m \in Leg : m # l => Alive(m)' = Alive(m)
       /\ got \in {"resting", "filled"} =>
            /\ vid \in Order /\ venue'[l][n][vid].state = got
            /\ Alive(l)' \subseteq Alive(l) \cup {<<n, vid>>}
       /\ got = "refused" => Alive(l)' = Alive(l)
       /\ got = "unknown" =>
            vid = 0 /\ \E v \in Order : Alive(l)' \subseteq Alive(l) \cup {<<n, v>>}
  <2>1. CASE UNCHANGED venue /\ got \in {"refused", "unknown"} /\ vid = 0
    <3>1. Steady /\ \A m \in Leg : Alive(m)' = Alive(m)
      BY <2>1, SameVenue
    <3>2. venue' \in [Leg -> [Attempt -> [Order -> OrderState]]] /\ 1 \in Order
      BY <1>1, <2>1, Bounds DEF Types
    <3> QED
      BY <2>1, <3>1, <3>2
  <2>2. CASE \E state \in {"resting", "filled"}, v \in Order :
               /\ takes(state, v)
               /\ (got = state /\ vid = v) \/ (got = "unknown" /\ vid = 0)
    <3>1. PICK state \in {"resting", "filled"}, v \in Order, order \in OrderState :
            /\ venue[l][n][v].state = "none" /\ order.state = state
            /\ venue' = [venue EXCEPT ![l][n][v] = order]
            /\ (got = state /\ vid = v) \/ (got = "unknown" /\ vid = 0)
      BY <1>4, <2>2 DEF takes
    <3>2. venue[l][n][v].state \in {"none", "resting"}
      BY <3>1
    <3>3. /\ venue' \in [Leg -> [Attempt -> [Order -> OrderState]]] /\ Steady
          /\ venue'[l][n][v] = order
          /\ \A m \in Leg : m # l => Alive(m)' = Alive(m)
          /\ Alive(l)' \subseteq Alive(l) \cup {<<n, v>>}
      BY <1>1, <3>1, <3>2, OrderBecomes
    <3> QED
      BY <3>1, <3>3
  <2> QED
    BY <1>6, <2>1, <2>2
<1>11. Stands(p)' /\ HeardTrue(p)'
  <2>1. Stands(p)'
    BY <1>1, <1>8, <1>9, WhoStands DEF Stands
  <2> QED
    BY <1>3, <1>8, <1>9, <1>10, <2>1, Bounds DEF HeardTrue, Standing
<1>12. /\ ToSend(p)' = ToSend(p) /\ ToWrite(p)' = ToWrite(p)
       /\ \A m \in Leg : /\ ~Records(p, m) /\ ~Entering(p, m) /\ ~FoundIs(m, p)'
                         /\ InHand(p, m)' <=> InHand(p, m)
                         /\ Records(p, m)' <=> m = l
  BY <1>1, <1>3, <1>8, <1>9
     DEF ToSend, ToWrite, InHand, Records, FoundIs, Entering, Enters
<1>13. ASSUME NEW m \in Leg \ excused', m # l PROVE LegOK(m)'
  <2>1. LegOK(m) /\ row'[m] = row[m] /\ entered' = entered /\ there' = there
    BY <1>1 DEF Inv
  <2>2. Quiet(p, m) /\ Holds(p, m)
    BY <1>8, <1>9, <1>12, <1>13 DEF Quiet, TakesNone, Holds
  <2> QED
    BY <1>1, <1>7, <1>8, <1>10, <1>13, <2>1, <2>2, LegStaysAside
<1>14. ASSUME l \notin excused PROVE LegOK(l)'
  <2>1. LegOK(l) /\ InHand(p, l)
    BY <1>1, <1>3, <1>14 DEF Inv, InHand
  <2>2. /\ l \in there /\ n = 1 /\ Alive(l) = {}
        /\ \A q \in Proc : \A x \in ToSend(q) : x.leg = l => q = p
        /\ \A s \in Proc : \A x \in ToWrite(s) : x.leg # l
        /\ row[l][1].state \in {"none", "failed", "cancelled"}
    BY <1>1, <1>3, <1>12, <2>1, InHandSends DEF LegOK, OneSends
  <2>3. /\ row'[l] = row[l] /\ there' = there /\ entered' = entered
        /\ \A a \in Alive(l)' : a[1] = 1 /\ \A b \in Alive(l)' : a = b
    BY <1>1, <1>10, <2>2
  <2>4. ASSUME NEW q \in Proc
        PROVE  /\ ToSend(q)' = ToSend(q) /\ ToWrite(q)' = ToWrite(q)
               /\ InHand(q, l)' <=> InHand(q, l)
               /\ proc'[q].todo = proc[q].todo
               /\ Records(q, l)' <=> q = p
               /\ ~FoundIs(l, q)'
               /\ Entering(q, l) => Entering(q, l)'
    <3>1. CASE q = p
      BY <1>8, <1>9, <1>12, <3>1
    <3>2. CASE q # p
      <4>1. proc'[q] = proc[q]
        BY <1>9, <3>2
      <4>2. ~InHand(q, l)
        BY <1>1, <2>2, <3>2, InHandSends
      <4>3. ~FoundIs(l, q)
        BY <2>2 DEF FoundIs, ToWrite
      <4> QED
        BY <3>2, <4>1, <4>2, <4>3
           DEF ToSend, ToWrite, InHand, Records, FoundIs, Entering, Enters
    <3> QED
      BY <3>1, <3>2
  <2>5. OnlyFirst(l)' /\ NotYetThere(l)'
    BY <2>1, <2>2, <2>3 DEF LegOK, OnlyFirst, NotYetThere
  <2>6. OneSends(l)'
    BY <2>1, <2>2, <2>3, <2>4 DEF LegOK, OneSends
  <2>7. Recorded(l)'
    <3>1. /\ got \in {"resting", "filled"} => vid # 0 /\ Alive(l)' \subseteq {<<1, vid>>}
          /\ got = "unknown" => vid = 0
          /\ got = "refused" => Alive(l)' = {}
      BY <1>10, <2>2, Bounds
    <3> QED
      BY <1>8, <1>9, <2>4, <3>1 DEF Recorded
  <2>8. Known(l)' /\ Synced(l)' /\ FoundOne(l)'
    BY <2>2, <2>4 DEF Known, Synced, FoundOne
  <2>9. Truth(l)'
    <3>1. row[l][1].vid # 0 => row[l][1].vid \in Order
      BY <1>1, Bounds DEF Types, RowState
    <3> QED
      BY <1>10, <2>1, <2>2, <2>3, <3>1, Bounds DEF LegOK, Truth, Steady
  <2> QED
    BY <2>5, <2>6, <2>7, <2>8, <2>9 DEF LegOK
<1>15. /\ row' \in [Leg -> [Attempt -> RowState]]
       /\ entered' \in SUBSET Leg /\ excused' \in SUBSET Leg
  BY <1>1 DEF Types
<1> QED
  BY <1>1, <1>2, <1>7, <1>8, <1>10, <1>11, <1>13, <1>14, <1>15, Acts

\* One row becomes another.
LEMMA RowBecomes ==
  ASSUME Types, NEW l \in Leg, NEW n \in Attempt, NEW r \in RowState,
         row' = [row EXCEPT ![l][n] = r]
  PROVE  /\ row' \in [Leg -> [Attempt -> RowState]]
         /\ row'[l][n] = r
         /\ \A m \in Leg, k \in Attempt : m # l \/ k # n => row'[m][k] = row[m][k]
         /\ \A m \in Leg : m # l => row'[m] = row[m]
BY DEF Types

\* A process that is done with an order goes on to the next.
LEMMA GoesOn ==
  ASSUME Common, NEW p \in Proc, Enters(p) \/ p \in Syncer,
         proc[p].at \in {"record", "enter", "write"}
  PROVE  \E r \in ProcState :
           /\ GoOn(p) = [proc EXCEPT ![p] = r]
           /\ r.todo = proc[p].todo /\ r.has = NoItem
           /\ r.at = IF p \in Syncer THEN "sync" ELSE "next"
<1> DEFINE r == [Idle EXCEPT !.at = IF p \in Syncer THEN "sync" ELSE "next",
                             !.todo = proc[p].todo, !.batch = proc[p].batch]
<1>1. proc[p] \in ProcState
  BY WhoStands
<1>2. /\ r \in ProcState /\ r.todo = proc[p].todo /\ r.has = NoItem
      /\ r.at = IF p \in Syncer THEN "sync" ELSE "next"
  <2>1. /\ (IF p \in Syncer THEN "sync" ELSE "next") \in Stage
        /\ proc[p].todo \in SUBSET Item /\ proc[p].batch \in Key \cup {None}
    BY <1>1 DEF ProcState, Stage
  <2> QED
    BY <2>1, Nothing DEF ProcState
<1>3. GoOn(p) = [proc EXCEPT ![p] = r]
  BY DEF GoOn
<1> QED
  BY <1>2, <1>3

\* Whoever goes on takes up nothing.
LEMMA WentOn ==
  ASSUME Common, NEW p \in Proc, NEW r \in ProcState, proc' = [proc EXCEPT ![p] = r],
         proc[p].at \in {"record", "enter", "write"},
         r.todo = proc[p].todo, r.has = NoItem, r.at = IF p \in Syncer THEN "sync" ELSE "next",
         status' = "live"
  PROVE  /\ Stands(p)' /\ HeardTrue(p)'
         /\ ToSend(p)' \subseteq proc[p].todo /\ ToWrite(p)' \subseteq proc[p].todo
         /\ \A l \in Leg : /\ Quiet(p, l) /\ ~InHand(p, l)' /\ ~Records(p, l)'
                           /\ ~FoundIs(l, p)' /\ ~Entering(p, l)'
<1>1. proc'[p] = r
  BY Moves DEF Common
<1>2. Stands(p)' /\ HeardTrue(p)'
  BY <1>1, WhoStands, ProcAssumption DEF Stands, HeardTrue, SyncStages
<1>3. /\ ToSend(p)' = (IF p \in Syncer THEN {} ELSE proc[p].todo)
      /\ ToWrite(p)' = (IF p \in Syncer THEN proc[p].todo ELSE {})
  BY <1>1 DEF ToSend, ToWrite, Enters
<1>4. \A l \in Leg : /\ ~InHand(p, l)' /\ ~Records(p, l)'
                     /\ ~FoundIs(l, p)' /\ ~Entering(p, l)'
  BY <1>1 DEF InHand, Records, FoundIs, Entering
<1>5. /\ p \notin Syncer => proc[p].todo \subseteq ToSend(p)
      /\ p \in Syncer => proc[p].todo \subseteq ToWrite(p)
  BY WhoStands DEF ToSend, ToWrite, Enters
<1> QED
  BY <1>2, <1>3, <1>4, <1>5 DEF Quiet, TakesNone

\* A leg's entry premium is written once its order filled.
LEMMA EnterKeeps == ASSUME Inv, NEW p \in Proc, Enter(p) PROVE Inv'
<1>1. /\ Types /\ Common /\ proc[p].at = "enter" /\ Enters(p)
      /\ status = "live" /\ proc[p].has.leg \in Leg
      /\ entered' = entered \cup {proc[p].has.leg} /\ proc' = GoOn(p)
      /\ UNCHANGED <<status, there, row, venue, faults, excused>>
  BY WhoStands DEF Inv, Common, Enter, Enters, Stands, Item
<1>2. PICK r \in ProcState :
        /\ proc' = [proc EXCEPT ![p] = r]
        /\ r.todo = proc[p].todo /\ r.has = NoItem
        /\ r.at = IF p \in Syncer THEN "sync" ELSE "next"
  BY <1>1, GoesOn
<1>3. /\ Stands(p)' /\ HeardTrue(p)' /\ \A l \in Leg : Quiet(p, l)
  BY <1>1, <1>2, WentOn
<1>4. \A l \in Leg : Holds(p, l)
  BY <1>1 DEF Holds, Records, Entering
<1>5. ASSUME NEW l \in Leg \ excused' PROVE LegOK(l)'
  <2>1. /\ LegOK(l) /\ row'[l] = row[l] /\ there' = there
        /\ (l \in entered => l \in entered')
    BY <1>1 DEF Inv
  <2> QED
    BY <1>1, <1>2, <1>3, <1>4, <2>1, SameVenue, LegStaysAside
<1>6. /\ row' \in [Leg -> [Attempt -> RowState]]
      /\ venue' \in [Leg -> [Attempt -> [Order -> OrderState]]] /\ Steady
      /\ entered' \in SUBSET Leg /\ excused' \in SUBSET Leg /\ faults' \in 0..MaxFaults
  BY <1>1, SameVenue DEF Types
<1> QED
  BY <1>1, <1>2, <1>3, <1>5, <1>6, Acts

\* A process dies: what it had to record the books have lost sight of.
LEMMA DieKeeps == ASSUME Inv, NEW p \in Proc, Die(p) PROVE Inv'
<1>1. /\ Types /\ Common /\ proc' = [proc EXCEPT ![p] = Over(p)]
      /\ UNCHANGED <<status, there, entered, row, venue>>
  BY DEF Inv, Common, Die
<1>2. /\ there' \in SUBSET Leg /\ faults' \in 0..MaxFaults
      /\ status' \in {"draft", "paper", "live"}
  BY <1>1, BoundAssumption DEF Types, Die, Fault
<1>3. /\ excused' \in SUBSET Leg /\ excused \subseteq excused'
      /\ \A l \in Leg \ excused' : Records(p, l) \/ Entering(p, l) => Alive(l) = {}
  <2>1. CASE proc[p].at \in {"record", "enter"} /\ Alive(proc[p].has.leg) # {}
    <3>1. excused' = excused \cup {proc[p].has.leg} /\ proc[p].has.leg \in Leg
      BY <1>1, <2>1, WhoStands DEF Die, Stands, Item
    <3> QED
      BY <1>1, <3>1 DEF Records, Entering, Types
  <2>2. CASE ~(proc[p].at \in {"record", "enter"} /\ Alive(proc[p].has.leg) # {})
    <3>1. excused' = excused
      BY <2>2 DEF Die
    <3> QED
      BY <1>1, <2>2, <3>1 DEF Records, Entering, Types
  <2> QED
    BY <2>1, <2>2
<1>4. ASSUME NEW l \in Leg \ excused'
      PROVE  Quiet(p, l) /\ Holds(p, l) /\ (l \in there => l \in there')
  BY <1>1, <1>3, SameVenue, Stopped DEF Holds
<1> QED
  BY <1>1, <1>2, <1>3, <1>4, Stopped, Walks

\* recordOrder writes the row as the answer had it.
LEMMA RecordKeeps == ASSUME Inv, NEW p \in Proc, Record(p) PROVE Inv'
<1>1. /\ Types /\ Common /\ proc[p].at = "record" /\ proc[p] \in ProcState
      /\ p \in Request /\ p \notin Syncer /\ status = "live" /\ Enters(p)
      /\ proc[p].has \in Item /\ proc[p].has.n # 0
      /\ UNCHANGED <<status, there, entered, venue, faults, excused>>
  BY WhoStands DEF Inv, Common, Record, SyncStages, Stands, Enters
<1>2. PICK l \in Leg, n \in Attempt : l = proc[p].has.leg /\ n = proc[p].has.n
  BY <1>1, Bounds DEF Item
<1> DEFINE new == [state |-> StateOf(proc[p].got), vid |-> proc[p].vid,
                   price |-> proc[p].has.price,
                   batch |-> IF n \in Numbers(l) THEN row[l][n].batch ELSE proc[p].batch]
<1>3. row' = [row EXCEPT ![l][n] = new]
  BY <1>1, <1>2 DEF Record, Types
<1>4. /\ new \in RowState /\ new.state = StateOf(proc[p].got) /\ new.vid = proc[p].vid
  <2>1. row[l][n].batch \in Key \cup {None}
    BY <1>1 DEF Types, RowState
  <2>2. StateOf(proc[p].got) \in {"filled", "pending", "failed"}
    BY DEF StateOf
  <2> QED
    BY <1>1, <2>1, <2>2 DEF RowState, ProcState, Item, Limits
<1> HIDE DEF new
<1>5. /\ row' \in [Leg -> [Attempt -> RowState]]
      /\ row'[l][n] = new
      /\ \A m \in Leg, k \in Attempt : m # l \/ k # n => row'[m][k] = row[m][k]
      /\ \A m \in Leg : m # l => row'[m] = row[m]
  BY <1>1, <1>3, <1>4, RowBecomes
<1>6. PICK r \in ProcState :
        /\ proc' = [proc EXCEPT ![p] = r]
        /\ r.todo = proc[p].todo
        /\ IF proc[p].got = "filled" THEN r.at = "enter" /\ r.has = proc[p].has
                                     ELSE r.at = "next" /\ r.has = NoItem
  <2>1. CASE proc[p].got = "filled"
    <3> DEFINE r == [proc[p] EXCEPT !.at = "enter"]
    <3>1. proc' = [proc EXCEPT ![p] = r]
      BY <1>1, <2>1 DEF Record
    <3>2. r \in ProcState /\ r.todo = proc[p].todo /\ r.at = "enter" /\ r.has = proc[p].has
      BY <1>1 DEF ProcState, Stage
    <3> QED
      BY <2>1, <3>1, <3>2
  <2>2. CASE proc[p].got # "filled"
    <3>1. proc' = GoOn(p)
      BY <2>2 DEF Record
    <3> QED
      BY <1>1, <2>2, <3>1, GoesOn
  <2> QED
    BY <2>1, <2>2
<1>7. proc'[p] = r /\ \A q \in Proc : q # p => proc'[q] = proc[q]
  BY <1>1, <1>6, Moves
<1>8. proc[p].got = "filled" =>
        proc[p].vid \in Order /\ venue[l][n][proc[p].vid].state = "filled"
  BY <1>1, <1>2, WhoStands, Bounds DEF HeardTrue, Standing, ProcState
<1>9. Stands(p)' /\ HeardTrue(p)'
  <2>1. Stands(p)'
    BY <1>1, <1>6, <1>7 DEF Stands
  <2>2. r.at = "enter" => \E v \in Order : Standing(p, v)'  = "filled"
    BY <1>1, <1>2, <1>6, <1>7, <1>8 DEF Standing
  <2> QED
    BY <1>6, <1>7, <2>1, <2>2 DEF HeardTrue
<1>10. /\ ToSend(p)' = proc[p].todo /\ proc[p].todo \subseteq ToSend(p) /\ ToWrite(p)' = {}
       /\ \A m \in Leg : /\ ~InHand(p, m)' /\ ~Records(p, m)' /\ ~FoundIs(m, p)'
                         /\ m # l => ~Records(p, m)
                         /\ ~Entering(p, m)
  BY <1>1, <1>2, <1>6, <1>7 DEF ToSend, ToWrite, InHand, Records, FoundIs, Entering, Enters
<1>11. Steady /\ \A m \in Leg : Alive(m)' = Alive(m)
  BY <1>1, SameVenue
<1>12. ASSUME NEW m \in Leg \ excused', m # l PROVE LegOK(m)'
  <2>1. LegOK(m) /\ row'[m] = row[m] /\ entered' = entered /\ there' = there
    BY <1>1, <1>5, <1>12 DEF Inv
  <2>2. Quiet(p, m) /\ Holds(p, m)
    BY <1>10, <1>12 DEF Quiet, TakesNone, Holds
  <2> QED
    BY <1>1, <1>6, <1>11, <2>1, <2>2, LegStaysAside
<1>13. ASSUME l \notin excused PROVE LegOK(l)'
  <2>1. LegOK(l) /\ InHand(p, l) /\ Records(p, l)
    BY <1>1, <1>2, <1>13 DEF Inv, InHand, Records
  <2>2. /\ l \in there /\ n = 1
        /\ \A q \in Proc : \A x \in ToSend(q) : x.leg = l => q = p
        /\ \A s \in Proc : \A x \in ToWrite(s) : x.leg # l
        /\ \A x \in proc[p].todo : x.leg # l
    BY <1>1, <1>2, <2>1, InHandSends DEF LegOK, OneSends
  <2>3. ASSUME NEW q \in Proc
        PROVE  /\ \A x \in ToSend(q)' : x.leg # l
               /\ \A x \in ToWrite(q)' : x.leg # l
               /\ ~InHand(q, l)' /\ ~Records(q, l)' /\ ~FoundIs(l, q)'
    <3>1. CASE q = p
      BY <1>10, <2>2, <3>1
    <3>2. CASE q # p
      <4>1. proc'[q] = proc[q]
        BY <1>7, <3>2
      <4>2. ~InHand(q, l) /\ ~FoundIs(l, q)
        BY <1>1, <2>2, <3>2, InHandSends DEF FoundIs, ToWrite
      <4> QED
        BY <2>2, <3>2, <4>1, <4>2
           DEF ToSend, ToWrite, InHand, Records, FoundIs, Enters
    <3> QED
      BY <3>1, <3>2
  <2>4. OnlyFirst(l)' /\ NotYetThere(l)'
    BY <1>1, <1>5, <1>11, <2>1, <2>2 DEF LegOK, OnlyFirst, NotYetThere
  <2>5. OneSends(l)' /\ Recorded(l)' /\ Synced(l)' /\ FoundOne(l)'
    BY <2>3 DEF OneSends, Recorded, Synced, FoundOne
  <2>6. Known(l)'
    <3>1. ASSUME NEW a \in Alive(l)
          PROVE  new.state \in {"pending", "filled"} /\ new.vid \in {0, a[2]}
      BY <1>4, <2>1 DEF LegOK, Recorded, StateOf
    <3> QED
      BY <1>5, <1>11, <2>2, <3>1 DEF Known
  <2>7. Truth(l)'
    <3>1. new.state = "filled" => proc[p].got = "filled"
      BY <1>4 DEF StateOf
    <3>2. new.state # "cancelled"
      BY <1>4 DEF StateOf
    <3>3. proc[p].got = "filled" => Entering(p, l)'
      BY <1>2, <1>6, <1>7 DEF Entering
    <3> QED
      BY <1>1, <1>4, <1>5, <1>8, <2>2, <3>1, <3>2, <3>3, Bounds DEF Truth, Entering
  <2> QED
    BY <2>4, <2>5, <2>6, <2>7 DEF LegOK
<1>14. /\ venue' \in [Leg -> [Attempt -> [Order -> OrderState]]]
       /\ entered' \in SUBSET Leg /\ excused' \in SUBSET Leg /\ faults' \in 0..MaxFaults
  BY <1>1 DEF Types
<1> QED
  BY <1>1, <1>5, <1>6, <1>9, <1>11, <1>12, <1>13, <1>14, Acts

\* A row of a leg that nobody sends any more becomes another.
LEMMA RowMoves ==
  ASSUME Common, NEW l \in Leg, LegOK(l), UNCHANGED <<venue, there>>,
         l \in entered => l \in entered',
         NEW p \in Proc, NEW r \in ProcState, proc' = [proc EXCEPT ![p] = r], Quiet(p, l),
         \A q \in Proc : /\ \A x \in ToSend(q) : x.leg # l
                         /\ ~InHand(q, l) /\ ~Records(q, l),
         \A n \in Attempt : n # 1 => row'[l][n] = row[l][n],
         row[l][1].state # "none", row'[l][1].state # "none",
         \/ row'[l][1].vid = row[l][1].vid
         \/ FoundIs(l, p) /\ row'[l][1].vid = proc[p].vid,
         \A a \in Alive(l) :
           row'[l][1].state \in {"pending", "filled"} /\ row'[l][1].vid \in {0, a[2]},
         row'[l][1].state \in {"filled", "cancelled"} =>
           /\ row'[l][1].vid # 0
           /\ venue[l][1][row'[l][1].vid].state = row'[l][1].state,
         row'[l][1].state = "filled" =>
           l \in entered \/ \E q \in Proc : Entering(q, l)'
  PROVE  LegOK(l)'
<1>1. \A q \in Proc : Quiet(q, l)
  BY Moves, StillIsQuiet DEF Common
<1>2. Alive(l)' = Alive(l)
  BY SameVenue
<1>3. ASSUME NEW q \in Proc
      PROVE  /\ \A x \in ToSend(q)' : x.leg # l
             /\ ~InHand(q, l)' /\ ~Records(q, l)'
             /\ \A x \in ToWrite(q)' : x.leg = l => x \in ToWrite(q)
             /\ FoundIs(l, q)' => FoundIs(l, q) /\ proc'[q].vid = proc[q].vid
  BY <1>1 DEF Quiet, TakesNone
<1>4. OnlyFirst(l)' /\ Known(l)'
  BY <1>2 DEF LegOK, OnlyFirst, Known
<1>5. OneSends(l)' /\ Recorded(l)'
  BY <1>3 DEF OneSends, Recorded
<1>6. Truth(l)'
  BY DEF Truth, Entering
<1>7. NotYetThere(l)'
  BY DEF LegOK, NotYetThere
<1>8. Synced(l)'
  <2>1. ASSUME NEW s \in Proc, NEW o \in ToWrite(s)', o.leg = l
        PROVE  /\ o.n = 1
               /\ o.vid # 0 => row'[l][1].vid = o.vid /\ Alive(l) \subseteq {<<1, o.vid>>}
    <3>1. /\ o.n = 1
          /\ o.vid # 0 => row[l][1].vid = o.vid /\ Alive(l) \subseteq {<<1, o.vid>>}
      BY <1>3, <2>1 DEF LegOK, Synced
    <3>2. FoundIs(l, p) => row[l][1].vid \in {0, proc[p].vid}
      BY DEF LegOK, FoundOne
    <3> QED
      BY <3>1, <3>2
  <2> QED
    BY <1>2, <2>1 DEF Synced
<1>9. FoundOne(l)'
  <2>1. ASSUME NEW s \in Proc, FoundIs(l, s)'
        PROVE  /\ proc'[s].vid # 0 /\ Alive(l) \subseteq {<<1, proc'[s].vid>>}
               /\ row'[l][1].vid \in {0, proc'[s].vid}
               /\ \A t \in Proc : FoundIs(l, t)' => proc'[t].vid = proc'[s].vid
    BY <1>3, <2>1 DEF LegOK, FoundOne
  <2> QED
    BY <1>2, <2>1 DEF FoundOne
<1> QED
  BY <1>4, <1>5, <1>6, <1>7, <1>8, <1>9 DEF LegOK

\* The end of a cancel or an edit is written to its row.
LEMMA AnswerKeeps == ASSUME Inv, NEW p \in Proc, Answer(p) PROVE Inv'
<1>1. /\ Types /\ Common /\ proc[p].at = "answer" /\ proc[p] \in ProcState
      /\ p \in Request /\ p \notin Syncer /\ status = "live" /\ proc[p].todo = {}
      /\ proc[p].has \in Item /\ proc[p].has.n # 0 /\ proc[p].has.vid # 0
      /\ UNCHANGED <<status, there, entered, venue, faults, excused>>
  BY WhoStands DEF Inv, Common, Answer, SyncStages, Stands
<1>2. PICK l \in Leg, n \in Attempt, v \in Order :
        l = proc[p].has.leg /\ n = proc[p].has.n /\ v = proc[p].has.vid
  BY <1>1, Bounds DEF Item
<1>3. /\ proc[p].got = "filled" => venue[l][n][v].state = "filled"
      /\ IsCancelled(p) => venue[l][n][v].state = "cancelled"
  BY <1>1, <1>2, WhoStands DEF HeardTrue, Standing, IsCancelled
<1>4. row[l][n] \in RowState
  BY <1>1 DEF Types
<1>5. PICK new \in RowState :
        /\ row' = [row EXCEPT ![l][n] = new]
        /\ StillThatOrder(p) =>
             /\ row[l][n].state = "pending" /\ row[l][n].vid = v /\ new.vid = v
             /\ \/ new.state = "filled" /\ proc[p].got = "filled"
                \/ new.state = "cancelled" /\ IsCancelled(p)
                \/ new.state = "pending"
        /\ ~StillThatOrder(p) => new = row[l][n]
  <2> DEFINE now(w) == IF StillThatOrder(p) THEN w ELSE row[l][n]
             filled == [row[l][n] EXCEPT !.state = "filled",
                          !.price = IF proc[p].took THEN proc[p].price ELSE @]
             cancelled == [row[l][n] EXCEPT !.state = "cancelled"]
             moved == [row[l][n] EXCEPT !.price = proc[p].price]
  <2>1. StillThatOrder(p) => row[l][n].state = "pending" /\ row[l][n].vid = v
    BY <1>2 DEF StillThatOrder
  <2>2. /\ filled \in RowState /\ cancelled \in RowState /\ moved \in RowState
        /\ filled.state = "filled" /\ cancelled.state = "cancelled"
        /\ moved.state = row[l][n].state
        /\ filled.vid = row[l][n].vid /\ cancelled.vid = row[l][n].vid
        /\ moved.vid = row[l][n].vid
    BY <1>1, <1>4 DEF RowState, ProcState
  <2>3. CASE proc[p].got = "filled"
    <3>1. row' = [row EXCEPT ![l][n] = now(filled)]
      BY <1>1, <1>2, <2>3 DEF Answer, IsCancelled
    <3> HIDE DEF filled
    <3> QED
      BY <1>4, <2>1, <2>2, <2>3, <3>1
  <2>4. CASE proc[p].got # "filled" /\ IsCancelled(p)
    <3>1. row' = [row EXCEPT ![l][n] = now(cancelled)]
      BY <1>1, <1>2, <2>4 DEF Answer, IsCancelled
    <3> HIDE DEF cancelled
    <3> QED
      BY <1>4, <2>1, <2>2, <2>4, <3>1
  <2>5. CASE proc[p].got = "resting"
    <3>1. ~IsCancelled(p) /\ proc[p].got # "filled"
      BY <2>5 DEF IsCancelled
    <3>2. row' = [row EXCEPT ![l][n] = now(moved)]
      BY <1>1, <1>2, <2>5, <3>1 DEF Answer
    <3> HIDE DEF moved
    <3> QED
      BY <1>4, <2>1, <2>2, <2>5, <3>2
  <2>6. CASE proc[p].got \notin {"filled", "resting"} /\ ~IsCancelled(p)
    <3>1. row' = [row EXCEPT ![l][n] = row[l][n]]
      BY <1>1, <2>6 DEF Answer, Types
    <3> QED
      BY <1>4, <2>1, <3>1
  <2> QED
    BY <2>3, <2>4, <2>5, <2>6
<1>6. /\ row' \in [Leg -> [Attempt -> RowState]]
      /\ row'[l][n] = new
      /\ \A m \in Leg, k \in Attempt : m # l \/ k # n => row'[m][k] = row[m][k]
      /\ \A m \in Leg : m # l => row'[m] = row[m]
  BY <1>1, <1>5, RowBecomes
<1>7. PICK r \in ProcState :
        /\ proc' = [proc EXCEPT ![p] = r]
        /\ r.todo = {}
        /\ \/ r.at = "enter" /\ r.has = proc[p].has /\ proc[p].got = "filled"
           \/ r.at \in {"idle", "done"} /\ r.has = NoItem /\ proc[p].got # "filled"
  <2>1. CASE proc[p].got = "filled"
    <3> DEFINE r == [proc[p] EXCEPT !.at = "enter"]
    <3>1. proc' = [proc EXCEPT ![p] = r]
      BY <1>1, <2>1 DEF Answer, Types
    <3>2. r \in ProcState /\ r.todo = {} /\ r.at = "enter" /\ r.has = proc[p].has
      BY <1>1 DEF ProcState, Stage
    <3> QED
      BY <2>1, <3>1, <3>2
  <2>2. CASE proc[p].got # "filled"
    <3>1. proc' = [proc EXCEPT ![p] = Over(p)]
      BY <2>2 DEF Answer
    <3> QED
      BY <1>1, <2>2, <3>1, Nothing
  <2> QED
    BY <2>1, <2>2
<1>8. proc'[p] = r
  BY <1>1, <1>7, Moves
<1>9. Stands(p)' /\ HeardTrue(p)'
  BY <1>1, <1>2, <1>3, <1>7, <1>8 DEF Stands, HeardTrue, Standing
<1>10. \A m \in Leg : Quiet(p, m) /\ ~Records(p, m) /\ ~Entering(p, m) /\ Holds(p, m)
  BY <1>1, <1>7, <1>8
     DEF Quiet, TakesNone, Holds, ToSend, ToWrite, InHand, Records, FoundIs, Enters, Entering
<1>11. Steady /\ \A m \in Leg : Alive(m)' = Alive(m)
  BY <1>1, SameVenue
<1>12. ASSUME NEW m \in Leg \ excused', row'[m] = row[m] PROVE LegOK(m)'
  <2>1. LegOK(m) /\ entered' = entered /\ there' = there
    BY <1>1 DEF Inv
  <2> QED
    BY <1>1, <1>7, <1>10, <1>11, <1>12, <2>1, LegStaysAside
<1>13. ASSUME l \notin excused, row'[l] # row[l] PROVE LegOK(l)'
  <2>1. StillThatOrder(p)
    BY <1>1, <1>5, <1>13 DEF Types
  <2>2. LegOK(l) /\ n = 1
    BY <1>1, <1>5, <1>13, <2>1 DEF Inv, LegOK, OnlyFirst
  <2>3. /\ row[l][1].state = "pending" /\ row[l][1].vid = v /\ row'[l][1] = new
        /\ new.vid = v /\ v # 0
        /\ \A k \in Attempt : k # 1 => row'[l][k] = row[l][k]
    BY <1>1, <1>2, <1>5, <1>6, <2>1, <2>2
  <2>4. \A q \in Proc : /\ \A x \in ToSend(q) : x.leg # l
                        /\ ~InHand(q, l) /\ ~Records(q, l)
    BY <1>1, <2>2, <2>3, NobodySends
  <2>5. ASSUME NEW a \in Alive(l)
        PROVE  new.state \in {"pending", "filled"} /\ new.vid \in {0, a[2]}
    <3>1. a[1] = 1 /\ v = a[2]
      BY <2>2, <2>3, <2>4 DEF LegOK, OnlyFirst, Known
    <3>2. venue[l][n][v].state # "cancelled"
      BY <2>2, <3>1 DEF Alive
    <3> QED
      BY <1>3, <1>5, <2>1, <2>3, <3>1, <3>2
  <2>6. /\ new.state # "none"
        /\ new.state \in {"filled", "cancelled"} => venue[l][1][new.vid].state = new.state
        /\ new.state = "filled" => Entering(p, l)'
    <3>1. new.state = "filled" => proc[p].got = "filled"
      BY <1>5, <2>1
    <3> QED
      BY <1>2, <1>3, <1>5, <1>7, <1>8, <2>1, <2>2, <3>1 DEF Entering
  <2> QED
    BY <1>1, <1>7, <1>10, <2>2, <2>3, <2>4, <2>5, <2>6, RowMoves
<1>14. /\ venue' \in [Leg -> [Attempt -> [Order -> OrderState]]]
       /\ entered' \in SUBSET Leg /\ excused' \in SUBSET Leg /\ faults' \in 0..MaxFaults
  BY <1>1 DEF Types
<1>15. \A m \in Leg \ excused' : LegOK(m)'
  BY <1>1, <1>6, <1>12, <1>13
<1> QED
  BY <1>1, <1>6, <1>7, <1>9, <1>11, <1>14, <1>15, Acts

\* A sync writes the row as the exchange had answered, without a guard.
LEMMA SyncWriteKeeps == ASSUME Inv, NEW s \in Proc, SyncWrite(s) PROVE Inv'
<1>1. /\ Types /\ Common /\ proc[s].at = "write" /\ proc[s] \in ProcState
      /\ s \in Syncer /\ s \notin Request /\ status = "live"
      /\ proc[s].has \in Item /\ proc[s].has.n # 0
      /\ UNCHANGED <<status, there, entered, venue, faults>>
  BY WhoStands DEF Inv, Common, SyncWrite, Stands
<1>2. PICK l \in Leg, n \in Attempt : l = proc[s].has.leg /\ n = proc[s].has.n
  BY <1>1, Bounds DEF Item
<1> DEFINE writtenOff == proc[s].got = "none" /\ proc[s].has.vid = 0
           found == proc[s].got = "resting" /\ proc[s].has.vid = 0
<1>3. proc[s].got \in {"filled", "cancelled"} =>
        /\ proc[s].vid \in Order /\ proc[s].vid = proc[s].has.vid
        /\ venue[l][n][proc[s].vid].state = proc[s].got
  BY <1>1, <1>2, WhoStands, Bounds DEF HeardTrue, Standing, ProcState
<1>4. row[l][n] \in RowState
  BY <1>1 DEF Types
\* What the row becomes.
<1>5. PICK new \in RowState :
        /\ row' = [row EXCEPT ![l][n] = new]
        /\ \/ writtenOff /\ new.state = "failed" /\ new.vid = row[l][n].vid
           \/ /\ proc[s].got \in {"filled", "cancelled"}
              /\ new.state = proc[s].got /\ new.vid = proc[s].vid
           \/ found /\ new.state = row[l][n].state /\ new.vid = proc[s].vid
           \/ /\ ~writtenOff /\ proc[s].got # "filled"
              /\ new.state = row[l][n].state /\ new.vid = row[l][n].vid
  <2> DEFINE failed == [row[l][n] EXCEPT !.state = "failed"]
             over == [row[l][n] EXCEPT !.state = proc[s].got, !.vid = proc[s].vid]
             known == [row[l][n] EXCEPT !.vid = proc[s].vid]
             moved == [row[l][n] EXCEPT !.price = proc[s].price]
  <2>1. /\ failed \in RowState /\ failed.state = "failed" /\ failed.vid = row[l][n].vid
        /\ known \in RowState /\ known.state = row[l][n].state /\ known.vid = proc[s].vid
        /\ moved \in RowState /\ moved.state = row[l][n].state
        /\ moved.vid = row[l][n].vid
        /\ proc[s].got \in {"filled", "cancelled"} => over \in RowState
        /\ over.state = proc[s].got /\ over.vid = proc[s].vid
    BY <1>1, <1>4 DEF RowState, ProcState
  <2>2. CASE writtenOff
    <3>1. row' = [row EXCEPT ![l][n] = failed]
      BY <1>2, <2>2 DEF SyncWrite, PriceMoved
    <3> HIDE DEF failed
    <3> QED
      BY <2>1, <2>2, <3>1
  <2>3. CASE proc[s].got \in {"filled", "cancelled"}
    <3>1. row' = [row EXCEPT ![l][n] = over]
      BY <1>2, <2>3 DEF SyncWrite, PriceMoved
    <3> HIDE DEF over
    <3> QED
      BY <2>1, <2>3, <3>1
  <2>4. CASE found
    <3>1. row' = [row EXCEPT ![l][n] = known]
      BY <1>2, <2>4 DEF SyncWrite, PriceMoved
    <3> HIDE DEF known
    <3> QED
      BY <2>1, <2>4, <3>1
  <2>5. CASE PriceMoved(s)
    <3>1. row' = [row EXCEPT ![l][n] = moved]
      BY <1>2, <2>5 DEF SyncWrite, PriceMoved
    <3>2. ~writtenOff /\ proc[s].got # "filled"
      BY <2>5 DEF PriceMoved
    <3> HIDE DEF moved
    <3> QED
      BY <2>1, <3>1, <3>2
  <2>6. CASE /\ ~writtenOff /\ proc[s].got \notin {"filled", "cancelled"} /\ ~found
             /\ ~PriceMoved(s)
    <3>1. row' = [row EXCEPT ![l][n] = row[l][n]]
      BY <1>1, <2>6 DEF SyncWrite, Types
    <3> QED
      BY <1>4, <2>6, <3>1
  <2> QED
    BY <2>2, <2>3, <2>4, <2>5, <2>6
<1> HIDE DEF writtenOff, found
<1>6. /\ row' \in [Leg -> [Attempt -> RowState]]
      /\ row'[l][n] = new
      /\ \A m \in Leg, k \in Attempt : m # l \/ k # n => row'[m][k] = row[m][k]
      /\ \A m \in Leg : m # l => row'[m] = row[m]
  BY <1>1, <1>5, RowBecomes
<1>7. PICK r \in ProcState :
        /\ proc' = [proc EXCEPT ![s] = r]
        /\ r.todo = proc[s].todo
        /\ IF proc[s].got = "filled" THEN r.at = "enter" /\ r.has = proc[s].has
                                     ELSE r.at = "sync" /\ r.has = NoItem
  <2>1. CASE proc[s].got = "filled"
    <3> DEFINE r == [proc[s] EXCEPT !.at = "enter"]
    <3>1. proc' = [proc EXCEPT ![s] = r]
      BY <1>1, <2>1 DEF SyncWrite, Types
    <3>2. r \in ProcState /\ r.todo = proc[s].todo /\ r.at = "enter" /\ r.has = proc[s].has
      BY <1>1 DEF ProcState, Stage
    <3> QED
      BY <2>1, <3>1, <3>2
  <2>2. CASE proc[s].got # "filled"
    <3>1. proc' = GoOn(s)
      BY <2>2 DEF SyncWrite
    <3> QED
      BY <1>1, <2>2, <3>1, GoesOn
  <2> QED
    BY <2>1, <2>2
<1>8. proc'[s] = r
  BY <1>1, <1>7, Moves
<1>9. Stands(s)' /\ HeardTrue(s)'
  <2>1. Stands(s)'
    BY <1>1, <1>7, <1>8, WhoStands DEF Stands, SyncStages
  <2>2. r.at = "enter" => \E v \in Order : Standing(s, v)' = "filled"
    BY <1>1, <1>2, <1>3, <1>7, <1>8 DEF Standing
  <2> QED
    BY <1>7, <1>8, <2>1, <2>2 DEF HeardTrue
<1>10. \A m \in Leg : Quiet(s, m) /\ ~Records(s, m) /\ ~Entering(s, m) /\ Holds(s, m)
  BY <1>1, <1>7, <1>8
     DEF Quiet, TakesNone, Holds, ToSend, ToWrite, InHand, Records, FoundIs, Enters, Entering
<1>11. Steady /\ \A m \in Leg : Alive(m)' = Alive(m)
  BY <1>1, SameVenue
<1>12. /\ excused \subseteq excused' /\ excused' \in SUBSET Leg
       /\ writtenOff /\ l \notin excused' => \A a \in Alive(l) : a[1] # n
  <2>1. CASE writtenOff /\ \E a \in Alive(l) : a[1] = n
    <3>1. excused' = excused \cup {l}
      BY <1>2, <2>1 DEF SyncWrite, writtenOff
    <3> QED
      BY <1>1, <3>1 DEF Types
  <2>2. CASE ~(writtenOff /\ \E a \in Alive(l) : a[1] = n)
    <3>1. excused' = excused
      BY <1>2, <2>2 DEF SyncWrite, writtenOff
    <3> QED
      BY <1>1, <2>2, <3>1 DEF Types
  <2> QED
    BY <2>1, <2>2
<1>13. ASSUME NEW m \in Leg \ excused', m # l PROVE LegOK(m)'
  <2>1. LegOK(m) /\ row'[m] = row[m] /\ entered' = entered /\ there' = there
    BY <1>1, <1>6, <1>12, <1>13 DEF Inv
  <2> QED
    BY <1>1, <1>7, <1>10, <1>11, <1>13, <2>1, LegStaysAside
<1>14. ASSUME l \notin excused' PROVE LegOK(l)'
  <2>1. LegOK(l)
    BY <1>12, <1>14 DEF Inv
  <2>2. proc[s].has \in ToWrite(s) /\ proc[s].has.leg = l
    BY <1>1, <1>2 DEF ToWrite
  <2>3. /\ n = 1 /\ row[l][1].state # "none"
        /\ proc[s].has.vid # 0 =>
             row[l][1].vid = proc[s].has.vid /\ Alive(l) \subseteq {<<1, proc[s].has.vid>>}
    BY <1>2, <2>1, <2>2 DEF LegOK, Synced
  <2>4. \A q \in Proc : /\ \A x \in ToSend(q) : x.leg # l
                        /\ ~InHand(q, l) /\ ~Records(q, l)
    BY <1>1, <2>1, <2>2, NobodySends
  <2>5. /\ row'[l][1] = new
        /\ \A k \in Attempt : k # 1 => row'[l][k] = row[l][k]
    BY <1>6, <2>3
  <2>6. found => /\ FoundIs(l, s) /\ proc[s].vid # 0 /\ row[l][1].vid \in {0, proc[s].vid}
                 /\ Alive(l) \subseteq {<<1, proc[s].vid>>}
    BY <1>1, <1>2, <2>1 DEF LegOK, FoundOne, FoundIs, found
  <2>7. \A a \in Alive(l) : /\ a[1] = 1 /\ row[l][1].state \in {"pending", "filled"}
                            /\ row[l][1].vid \in {0, a[2]}
    BY <2>1, <2>4 DEF LegOK, OnlyFirst, Known
  <2>8. new.vid = row[l][1].vid \/ (FoundIs(l, s) /\ new.vid = proc[s].vid)
    BY <1>3, <1>5, <2>3, <2>6, Bounds
  <2>9. ASSUME NEW a \in Alive(l)
        PROVE  new.state \in {"pending", "filled"} /\ new.vid \in {0, a[2]}
    <3>1. ~writtenOff
      BY <1>12, <1>14, <2>3, <2>7
    <3>2. CASE proc[s].got \in {"filled", "cancelled"} /\ new.state = proc[s].got
               /\ new.vid = proc[s].vid
      <4>1. a = <<1, proc[s].vid>>
        BY <1>3, <2>3, <3>2, Bounds
      <4>2. venue[l][1][proc[s].vid].state # "cancelled"
        BY <4>1 DEF Alive
      <4> QED
        BY <1>3, <2>3, <3>2, <4>1, <4>2
    <3>3. CASE found /\ new.state = row[l][n].state /\ new.vid = proc[s].vid
      BY <2>3, <2>6, <2>7, <3>3
    <3>4. CASE new.state = row[l][n].state /\ new.vid = row[l][n].vid
      BY <2>3, <2>7, <3>4
    <3> QED
      BY <1>5, <3>1, <3>2, <3>3, <3>4
  <2>10. /\ new.state # "none"
         /\ new.state \in {"filled", "cancelled"} =>
              new.vid # 0 /\ venue[l][1][new.vid].state = new.state
         /\ new.state = "filled" => l \in entered \/ \E q \in Proc : Entering(q, l)'
    <3>1. \A q \in Proc : Entering(q, l) => Entering(q, l)'
      BY <1>1, <1>7, <1>10, Moves DEF Entering
    <3>2. proc[s].got = "filled" => Entering(s, l)'
      BY <1>2, <1>7, <1>8 DEF Entering
    <3>3. /\ row[l][1].state \in {"filled", "cancelled"} =>
               /\ row[l][1].vid # 0
               /\ venue[l][1][row[l][1].vid].state = row[l][1].state
          /\ row[l][1].state = "filled" =>
               l \in entered \/ \E q \in Proc : Entering(q, l)
      BY <2>1 DEF LegOK, Truth, Entering
    <3> QED
      BY <1>3, <1>5, <2>3, <2>6, <3>1, <3>2, <3>3, Bounds
  <2> QED
    BY <1>1, <1>7, <1>10, <2>1, <2>3, <2>4, <2>5, <2>8, <2>9, <2>10, RowMoves
<1>15. /\ venue' \in [Leg -> [Attempt -> [Order -> OrderState]]]
       /\ entered' \in SUBSET Leg /\ faults' \in 0..MaxFaults
  BY <1>1 DEF Types
<1>16. \A m \in Leg \ excused' : LegOK(m)'
  BY <1>13, <1>14
<1> QED
  BY <1>1, <1>6, <1>7, <1>9, <1>11, <1>12, <1>15, <1>16, Acts

-----------------------------------------------------------------------------
\* Every step keeps the invariant.
LEMMA NextKeeps == Inv /\ [Next]_vars => Inv'
<1> SUFFICES ASSUME Inv, [Next]_vars PROVE Inv'
  OBVIOUS
<1>1. Request \subseteq Proc /\ Syncer \subseteq Proc
  BY DEF Proc
<1>2. ASSUME NEW p \in Request, NEW k \in Key, Place(p, k) PROVE Inv'
  BY <1>2, PlaceKeeps
<1>3. ASSUME NEW p \in Request, NEW k \in Key, Batch(p, k) PROVE Inv'
  BY <1>3, BatchKeeps
<1>4. ASSUME NEW p \in Request, NEW price \in Price, Reprice(p, price) PROVE Inv'
  BY <1>4, RepriceKeeps
<1>5. ASSUME NEW p \in Request, Add(p) \/ Retry(p) \/ Cancel(p) PROVE Inv'
  BY <1>5, AddKeeps, RetryKeeps, CancelKeeps
<1>6. ASSUME NEW s \in Syncer, SyncStart(s) PROVE Inv'
  BY <1>6, SyncStartKeeps
<1>7. ASSUME NEW p \in Proc, Flip(p) \/ Checked(p) \/ NextOrder(p) \/ Send(p) PROVE Inv'
  BY <1>7, FlipKeeps, CheckedKeeps, NextOrderKeeps, SendKeeps
<1>8. ASSUME NEW p \in Proc, Record(p) \/ Enter(p) \/ SendCancel(p) \/ SendEdit(p)
      PROVE  Inv'
  BY <1>8, RecordKeeps, EnterKeeps, SendCancelKeeps, SendEditKeeps
<1>9. ASSUME NEW p \in Proc, Read(p) \/ Answer(p) \/ SyncAsk(p) \/ SyncWrite(p) PROVE Inv'
  BY <1>9, ReadKeeps, AnswerKeeps, SyncAskKeeps, SyncWriteKeeps
<1>10. ASSUME NEW p \in Proc, Die(p) PROVE Inv'
  BY <1>10, DieKeeps
<1>11. CASE VenueMoves
  BY <1>11, VenueMovesKeeps
<1>12. CASE UNCHANGED vars
  <2>1. /\ UNCHANGED <<status, there, entered, row, venue, proc, faults, excused>>
        /\ Types /\ Common
    BY <1>12 DEF vars, Inv, Common
  <2>2. Types' /\ NothingYet'
    BY <2>1 DEF Types, Common, NothingYet
  <2>3. Steady /\ \A l \in Leg : Alive(l)' = Alive(l)
    BY <2>1, SameVenue
  <2>4. \A q \in Proc : Stands(q)' /\ HeardTrue(q)'
    BY <2>1, <2>3, StandsStill DEF Common
  <2>5. ASSUME NEW l \in Leg \ excused' PROVE LegOK(l)'
    <3>1. \A q \in Proc : Quiet(q, l) /\ Holds(q, l)
      BY <2>1, StillIsQuiet
    <3>2. LegOK(l) /\ row'[l] = row[l] /\ entered' = entered /\ there' = there
      BY <2>1 DEF Inv
    <3> QED
      BY <2>1, <2>3, <3>1, <3>2, LegStays
  <2> QED
    BY <2>2, <2>4, <2>5 DEF Inv, Common
<1> QED
  BY <1>2, <1>3, <1>4, <1>5, <1>6, <1>7, <1>8, <1>9, <1>10, <1>11, <1>12 DEF Next, Step

\* The invariant holds in every state that can be reached.
THEOREM InvCorrect == Spec => []Inv
<1>1. Init => Inv
  BY InitInv
<1> QED
  BY <1>1, NextKeeps, PTL DEF Spec

\* Every variable keeps its type.
THEOREM TypeCorrect == Spec => []TypeOK
<1>1. Inv => TypeOK
  BY DEF Inv, Common, Types, ProcState, RowState, OrderState, Stage, Heard, Limits, TypeOK
<1> QED
  BY <1>1, InvCorrect, PTL

(* No order that trades at the exchange is lost from the books: it is      *)
(* pending or filled there, or its answer is about to be recorded          *)
(* (live-exec.ts, recordOrder, stillThatOrder; live-reconcile.ts,          *)
(* syncOrders).                                                            *)
THEOREM NotForgottenCorrect == Spec => []NotForgotten
<1>1. ASSUME Inv PROVE NotForgotten
  <2>1. Common /\ there \subseteq Leg
    BY <1>1 DEF Inv, Common, Types
  <2>2. ASSUME NEW l \in there \ excused, NEW o \in Alive(l)
        PROVE  \/ /\ row[l][o[1]].state \in {"pending", "filled"}
                  /\ row[l][o[1]].vid \in {0, o[2]}
               \/ \E p \in Proc : /\ proc[p].at = "record" /\ proc[p].has.leg = l
                                  /\ proc[p].has.n = o[1]
    <3>1. LegOK(l) /\ l \in Leg
      BY <1>1, <2>1 DEF Inv
    <3>2. o[1] = 1
      BY <3>1 DEF LegOK, OnlyFirst
    <3>3. ASSUME NEW p \in Proc, Records(p, l) PROVE proc[p].has.n = 1
      <4>1. /\ proc[p].has \in ToSend(p) /\ proc[p].has.leg = l /\ proc[p].has.n # 0
        BY <2>1, <3>1, <3>3, InHandSends DEF Records, InHand
      <4> QED
        BY <3>1, <4>1 DEF LegOK, OneSends
    <3> QED
      BY <3>1, <3>2, <3>3 DEF LegOK, Known, Records
  <2> QED
    BY <2>2 DEF NotForgotten
<1> QED
  BY <1>1, InvCorrect, PTL

(* What the books say of an order that is over is what became of it at     *)
(* the exchange, and a leg that filled is entered, or about to be          *)
(* (live-exec.ts, bookVenueAnswer).                                        *)
THEOREM TruthCorrect == Spec => []BooksTellTruth
<1>1. ASSUME Inv PROVE BooksTellTruth
  <2>1. there \subseteq Leg
    BY <1>1 DEF Inv, Common, Types
  <2>2. ASSUME NEW l \in there \ excused PROVE OnlyFirst(l) /\ Truth(l)
    BY <1>1, <2>1 DEF Inv, LegOK
  <2> QED
    BY <2>2 DEF BooksTellTruth, OnlyFirst, Truth
<1> QED
  BY <1>1, InvCorrect, PTL

(* A leg is entered once, whatever is retried, cancelled, re-priced or     *)
(* lost (trading.ts; live.ts, retry).                                      *)
THEOREM OnceCorrect == Spec => []EnteredOnce
<1>1. ASSUME Inv PROVE EnteredOnce
  <2>1. there \subseteq Leg
    BY <1>1 DEF Inv, Common, Types
  <2>2. ASSUME NEW l \in there \ excused PROVE Cardinality(Alive(l)) <= 1
    <3>1. \A a, b \in Alive(l) : a = b
      BY <1>1, <2>1 DEF Inv, LegOK, OnlyFirst
    <3>2. CASE Alive(l) = {}
      BY <3>2, FS_EmptySet
    <3>3. CASE Alive(l) # {}
      <4>1. PICK a \in Alive(l) : TRUE
        BY <3>3
      <4>2. Alive(l) = {a}
        BY <3>1, <4>1
      <4> QED
        BY <4>2, FS_Singleton
    <3> QED
      BY <3>2, <3>3
  <2> QED
    BY <2>2 DEF EnteredOnce
<1> QED
  BY <1>1, InvCorrect, PTL
=============================================================================
