------------------------------ MODULE LiveOrders ------------------------------
(***************************************************************************)
(* How a strategy is entered at the exchange: placing it, alone or in a    *)
(* batch, adding a leg, retrying what failed, cancelling and re-pricing a  *)
(* resting limit (routes/live.ts, routes/strategies.ts,                    *)
(* routes/live-exec.ts), and the order sync (live-reconcile.ts), over one  *)
(* database and one exchange.                                              *)
(*                                                                         *)
(* An entry is sent under a client order id made of the leg and a number.  *)
(* The exchange refuses an id under which an order of its rests or has     *)
(* filled, and takes one whose order was cancelled: a retry sends the same *)
(* id.  A request reaches it before its timeout or never.                  *)
(*                                                                         *)
(* What a request checks before it writes (plan, kill switch, wallet,      *)
(* mark band, Mindful pause) can only refuse it.  Exits and the closing of *)
(* legs are in LiveExits.                                                  *)
(***************************************************************************)
EXTENDS Naturals, FiniteSets

CONSTANTS Leg, Short,    \* the legs, and those of them that are sold
          None,
          Request,       \* requests of the trader, each made once
          Syncer,        \* the reconciler and the Sync button
          Key,           \* idempotency keys
          Price,         \* limit prices; 0 is a market order
          MaxAttempt,    \* bound: numbers per leg
          MaxOrder,      \* bound: orders the exchange takes under one id
          MaxFaults      \* bound: answers lost and processes dead

Proc == Request \cup Syncer
Attempt == 1..MaxAttempt
Order == 1..MaxOrder

ASSUME LegAssumption == Short \subseteq Leg /\ None \notin Leg \cup Key
ASSUME ProcAssumption == Request \cap Syncer = {}
ASSUME BoundAssumption == {MaxAttempt, MaxOrder} \subseteq Nat \ {0} /\ MaxFaults \in Nat
ASSUME PriceAssumption == Price \subseteq Nat \ {0}

VARIABLES status,   \* of the strategy
          there,    \* its legs
          entered,  \* legs whose entry premium is a fill of the exchange
          row,      \* strategy_orders, by leg and number; vid 0 is no venue order id
          venue,    \* the orders the exchange took under each client order id
          proc,     \* what each request and sync is doing
          faults,   \* how many there were
          excused   \* for the properties only: legs that were entered twice at once, or
                    \* entered during a sync, or an order of which the books lost sight of

vars == <<status, there, entered, row, venue, proc, faults, excused>>

Item == [leg : Leg, n : 0..MaxAttempt, vid : 0..MaxOrder, price : {0} \cup Price]
NoItem == [leg |-> None, n |-> 0, vid |-> 0, price |-> 0]
NoOrder == [state |-> "none", price |-> 0]
NoRow == [state |-> "none", vid |-> 0, price |-> 0, batch |-> None]

\* has: the order in hand, as it was read.  took, got, vid and price: whether the exchange
\* took the request, and the order it answered with; price is what is asked for at first.
Idle == [at |-> "idle", todo |-> {}, has |-> NoItem, batch |-> None,
         took |-> FALSE, got |-> "none", vid |-> 0, price |-> 0]
Over(p) == IF p \in Syncer THEN Idle ELSE [Idle EXCEPT !.at = "done"]

TypeOK ==
    /\ status \in {"draft", "paper", "live"}
    /\ there \in SUBSET Leg
    /\ entered \in SUBSET Leg
    /\ row \in [Leg -> [Attempt ->
         [state : {"none", "pending", "filled", "failed", "cancelled"},
          vid : 0..MaxOrder, price : {0} \cup Price, batch : Key \cup {None}]]]
    /\ venue \in [Leg -> [Attempt -> [Order ->
         [state : {"none", "resting", "filled", "cancelled"}, price : {0} \cup Price]]]]
    /\ \A p \in Proc :
         /\ proc[p].at \in {"idle", "done", "flip", "claim", "added", "next", "send", "record",
                            "enter", "cancel", "edit", "read", "answer", "sync", "write"}
         /\ proc[p].todo \in SUBSET Item
         /\ proc[p].has \in Item \cup {NoItem}
         /\ proc[p].batch \in Key \cup {None}
         /\ proc[p].took \in BOOLEAN
         /\ proc[p].got \in {"none", "resting", "filled", "cancelled", "unknown", "refused"}
         /\ proc[p].vid \in 0..MaxOrder
         /\ proc[p].price \in {0} \cup Price
    /\ faults \in 0..MaxFaults
    /\ excused \in SUBSET Leg

\* Not live yet; live and done with its first legs; or live and every leg resting at a limit.
Init ==
    /\ \/ status \in {"draft", "paper"} /\ there = Leg
       \/ status = "live" /\ there \in {{}, Leg}
    /\ entered = {}
    /\ LET rests == status = "live" /\ there = Leg
       IN  \E price \in Price :
             /\ row = [l \in Leg |-> [n \in Attempt |-> IF rests /\ n = 1 THEN
                  [state |-> "pending", vid |-> 1, price |-> price, batch |-> None] ELSE NoRow]]
             /\ venue = [l \in Leg |-> [n \in Attempt |-> [v \in Order |->
                  IF rests /\ n = 1 /\ v = 1 THEN [state |-> "resting", price |-> price]
                  ELSE NoOrder]]]
    /\ proc = [p \in Proc |-> Idle]
    /\ faults = 0
    /\ excused = {}

Fault == faults < MaxFaults /\ faults' = faults + 1

\* Orders of a leg that trade or have traded.
Alive(l) == {o \in Attempt \X Order : venue[l][o[1]][o[2]].state \in {"resting", "filled"}}

Rows(states) == {o \in Leg \X Attempt : row[o[1]][o[2]].state \in states}
AsRead(rows) ==
    {[leg |-> o[1], n |-> o[2], vid |-> row[o[1]][o[2]].vid, price |-> row[o[1]][o[2]].price] :
       o \in rows}

\* Who may still send or overwrite an order of leg l.
Enters(p) == proc[p].at \in {"flip", "claim", "added", "next", "send", "record", "enter"}
Hands(l) ==
    {p \in Proc : /\ Enters(p) \/ p \in Syncer
                  /\ proc[p].has.leg = l \/ \E o \in proc[p].todo : o.leg = l}
Overlaps(todo) == {o.leg : o \in {x \in todo : Hands(x.leg) # {}}}

-----------------------------------------------------------------------------
(* Setting out.                                                            *)

SetOut(p, at, todo, batch) ==
    /\ proc[p] = Idle
    /\ proc' = [proc EXCEPT ![p].at = at, ![p].todo = todo, ![p].batch = batch]
    /\ excused' = excused \cup Overlaps(todo)

\* A strategy of no legs is refused.
AllLegs == [leg : there, n : {0}, vid : {0}, price : {0}]

\* Mutant: a live strategy may be placed again.
NotArchived == status \in {"draft", "paper", "live"}

MayGoLive == status \in {"draft", "paper"}

\* A placement looks for its key in the books and at the status, and writes neither yet.
Place(p, k) ==
    /\ \A o \in Rows({"pending", "filled", "failed", "cancelled"}) : row[o[1]][o[2]].batch # k
    /\ MayGoLive /\ there # {}
    /\ SetOut(p, "flip", AllLegs, k)
    /\ UNCHANGED <<status, there, entered, row, venue, faults>>

\* A strategy of a batch, previewed with the others.
Batch(p, k) ==
    /\ status = "paper" /\ there # {}
    /\ SetOut(p, "claim", AllLegs, k)
    /\ UNCHANGED <<status, there, entered, row, venue, faults>>

\* The placement's write has no guard; the batch's is on the strategy still being paper.
Flip(p) ==
    /\ \/ /\ proc[p].at = "flip" \/ (proc[p].at = "claim" /\ status = "paper")
          /\ status' = "live"
          /\ proc' = [proc EXCEPT ![p].at = "next"]
       \/ /\ proc[p].at = "claim" /\ status # "paper"
          /\ proc' = [proc EXCEPT ![p] = Over(p)]
          /\ UNCHANGED status
    /\ UNCHANGED <<there, entered, row, venue, faults, excused>>

\* An adjustment adds a leg, to be bought or sold at the market or at a limit.
Add(p) ==
    /\ status = "live"
    /\ \E l \in Leg \ there, price \in {0} \cup Price :
         /\ there' = there \cup {l}
         /\ SetOut(p, "added", {[leg |-> l, n |-> 0, vid |-> 0, price |-> price]}, None)
    /\ UNCHANGED <<status, entered, row, venue, faults>>

\* The leg is there while it is checked once more, and goes again when it is refused.
Checked(p) ==
    /\ proc[p].at = "added"
    /\ \/ /\ proc' = [proc EXCEPT ![p].at = "next"]
          /\ UNCHANGED there
       \/ /\ proc' = [proc EXCEPT ![p] = Over(p)]
          /\ there' = there \ {o.leg : o \in proc[p].todo}
    /\ UNCHANGED <<status, entered, row, venue, faults, excused>>

Retried == {"failed", "cancelled"}

Retry(p) ==
    /\ status = "live"
    /\ Rows(Retried) # {}
    /\ SetOut(p, "next", AsRead(Rows(Retried)), None)
    /\ UNCHANGED <<status, there, entered, row, venue, faults>>

-----------------------------------------------------------------------------
(* One entry.                                                              *)

BuysFirst(todo) ==
    IF \A o \in todo : o.leg \in Short THEN todo ELSE {o \in todo : o.leg \notin Short}

Numbers(l) == {n \in Attempt : row[l][n].state # "none"}
NextAttempt(l) == CHOOSE n \in 1..(MaxAttempt + 1) :
    (n = 1 \/ n - 1 \in Numbers(l)) /\ \A m \in Numbers(l) : m < n

\* The next order: its number, or the one it failed under.
NextOrder(p) ==
    /\ proc[p].at = "next"
    /\ \/ \E o \in BuysFirst(proc[p].todo) :
            LET n == IF o.n = 0 THEN NextAttempt(o.leg) ELSE o.n
            IN  /\ n \in Attempt
                /\ proc' = [proc EXCEPT ![p].at = "send", ![p].todo = @ \ {o},
                                        ![p].has = [o EXCEPT !.n = n]]
       \/ proc[p].todo = {} /\ proc' = [proc EXCEPT ![p] = Over(p)]
    /\ UNCHANGED <<status, there, entered, row, venue, faults, excused>>

\* The leg in hand is done with.
GoOn(p) == [proc EXCEPT ![p] = IF Enters(p) \/ p \in Syncer
              THEN [Idle EXCEPT !.at = IF p \in Syncer THEN "sync" ELSE "next",
                                !.todo = proc[p].todo, !.batch = proc[p].batch]
              ELSE Over(p)]

\* placeOrder: what the exchange does, and what is heard of it.
Send(p) ==
    LET l == proc[p].has.leg
        n == proc[p].has.n
        free == {v \in Order : venue[l][n][v].state = "none"}
        taken == \E v \in Order : venue[l][n][v].state \in {"resting", "filled"}
        hears(got, v) == proc' = [proc EXCEPT ![p].at = "record", ![p].got = got, ![p].vid = v]
        takes(state, v) ==
            /\ ~taken /\ v \in free /\ \A w \in free : v <= w
            /\ venue' = [venue EXCEPT ![l][n][v] = [state |-> state, price |-> proc[p].has.price]]
    IN  /\ proc[p].at = "send"
        /\ \/ \E state \in {"resting", "filled"}, v \in free : takes(state, v) /\ hears(state, v)
              /\ UNCHANGED faults
           \/ hears("refused", 0) /\ UNCHANGED <<venue, faults>>
           \/ /\ Fault
              /\ hears("unknown", 0)
              /\ UNCHANGED venue \/ \E state \in {"resting", "filled"}, v \in free : takes(state, v)
        /\ UNCHANGED <<status, there, entered, row, excused>>

\* Mutant: the row takes the exchange's own word.
TheirWord(got) == got

StateOf(got) ==
    CASE got = "filled" -> "filled" [] got \in {"resting", "unknown"} -> "pending"
      [] OTHER -> "failed"

\* The row of this number is written or overwritten, whoever wrote it.
Record(p) ==
    LET l == proc[p].has.leg
        n == proc[p].has.n
    IN  /\ proc[p].at = "record"
        /\ row' = [row EXCEPT ![l][n] =
             [state |-> StateOf(proc[p].got), vid |-> proc[p].vid, price |-> proc[p].has.price,
              batch |-> IF n \in Numbers(l) THEN @.batch ELSE proc[p].batch]]
        /\ proc' = IF proc[p].got = "filled" THEN [proc EXCEPT ![p].at = "enter"]
                   ELSE GoOn(p)
        /\ UNCHANGED <<status, there, entered, venue, faults, excused>>

\* The leg after the row: its entry premium is the fill.
Enter(p) ==
    /\ proc[p].at = "enter"
    /\ entered' = entered \cup {proc[p].has.leg}
    /\ proc' = GoOn(p)
    /\ UNCHANGED <<status, there, row, venue, faults, excused>>

-----------------------------------------------------------------------------
(* Cancelling and re-pricing a resting limit.                              *)

Resting == {o \in Rows({"pending"}) : row[o[1]][o[2]].vid # 0 /\ row[o[1]][o[2]].price # 0}

Take(p, at, price) ==
    /\ status = "live"
    /\ proc[p] = Idle
    /\ \E o \in AsRead(Resting) :
         proc' = [proc EXCEPT ![p].at = at, ![p].has = o, ![p].price = price]
    /\ UNCHANGED <<status, there, entered, row, venue, faults, excused>>

Cancel(p) == Take(p, "cancel", 0)
Reprice(p, price) == Take(p, "edit", price)

\* The exchange's order of which p read the id, and what becomes of it.
Theirs(p) == venue[proc[p].has.leg][proc[p].has.n][proc[p].has.vid]
TheirsIs(p, order) ==
    venue' = [venue EXCEPT ![proc[p].has.leg][proc[p].has.n][proc[p].has.vid] = order]

\* The answer may be lost, whether or not the request got through.
SendCancel(p) ==
    LET answered(took) == proc' = [proc EXCEPT ![p].at = "read", ![p].took = took]
        cancelled == /\ Theirs(p).state = "resting"
                     /\ TheirsIs(p, [Theirs(p) EXCEPT !.state = "cancelled"])
    IN  /\ proc[p].at = "cancel"
        /\ \/ cancelled /\ answered(TRUE) /\ UNCHANGED faults
           \/ Theirs(p).state # "resting" /\ answered(FALSE) /\ UNCHANGED <<venue, faults>>
           \/ answered(FALSE) /\ (cancelled \/ UNCHANGED venue) /\ Fault
        /\ UNCHANGED <<status, there, entered, row, excused>>

\* An edit that was taken is booked as answered; any other is read back.
SendEdit(p) ==
    LET moved(state) == /\ Theirs(p).state = "resting"
                        /\ TheirsIs(p, [state |-> state, price |-> proc[p].price])
        ends(at, took, got) ==
            proc' = [proc EXCEPT ![p].at = at, ![p].took = took, ![p].got = got]
    IN  /\ proc[p].at = "edit"
        /\ \/ /\ \E state \in {"resting", "filled"} : moved(state) /\ ends("answer", TRUE, state)
              /\ UNCHANGED faults
           \/ ends("read", FALSE, "none") /\ UNCHANGED <<venue, faults>>
           \/ /\ \E state \in {"resting", "filled"} : moved(state)
              /\ ends("read", FALSE, "none") /\ Fault
        /\ UNCHANGED <<status, there, entered, row, excused>>

Read(p) ==
    /\ proc[p].at = "read"
    /\ \/ /\ proc' = [proc EXCEPT ![p].at = "answer", ![p].got = Theirs(p).state,
                                  ![p].price = Theirs(p).price]
          /\ UNCHANGED faults
       \/ proc' = [proc EXCEPT ![p].at = "answer", ![p].got = "none"] /\ Fault
    /\ UNCHANGED <<status, there, entered, row, venue, excused>>

\* Mutant: the answer is booked on the row whatever it has become.
WhateverItIs(p) == TRUE

StillThatOrder(p) ==
    LET r == row[proc[p].has.leg][proc[p].has.n]
    IN  r.state = "pending" /\ r.vid = proc[p].has.vid

\* Mutant: a cancel that was not taken is booked as one.
NoAnswerIsCancel(p) == proc[p].got \in {"none", "cancelled"}

\* The read-back says so, or there was none and the exchange had taken the cancel.
IsCancelled(p) == proc[p].got = "cancelled" \/ (proc[p].got = "none" /\ proc[p].took)

\* The row is written if it is still that order; the leg of a filled one in any case.
Answer(p) ==
    LET becomes(r) == row' = [row EXCEPT ![proc[p].has.leg][proc[p].has.n] =
                                IF StillThatOrder(p) THEN r ELSE @]
        was == row[proc[p].has.leg][proc[p].has.n]
    IN  /\ proc[p].at = "answer"
        /\ CASE proc[p].got = "filled" ->
                  becomes([was EXCEPT !.state = "filled",
                                      !.price = IF proc[p].took THEN proc[p].price ELSE @])
             [] IsCancelled(p) -> becomes([was EXCEPT !.state = "cancelled"])
             [] proc[p].got = "resting" -> becomes([was EXCEPT !.price = proc[p].price])
             [] OTHER -> UNCHANGED row
        /\ proc' = [proc EXCEPT ![p] =
             IF proc[p].got = "filled" THEN [@ EXCEPT !.at = "enter"] ELSE Over(p)]
        /\ UNCHANGED <<status, there, entered, venue, faults, excused>>

-----------------------------------------------------------------------------
(* The order sync.                                                         *)

SyncStart(s) ==
    /\ proc[s] = Idle
    /\ status = "live"
    /\ Rows({"pending"}) # {}
    /\ proc' = [proc EXCEPT ![s].at = "sync", ![s].todo = AsRead(Rows({"pending"}))]
    /\ UNCHANGED <<status, there, entered, row, venue, faults, excused>>

\* What is found of a pending order: by its id, else among the open orders.
Found(o) ==
    {v \in Order : IF o.vid # 0 THEN v = o.vid ELSE venue[o.leg][o.n][v].state = "resting"}

SyncAsk(s) ==
    /\ proc[s].at = "sync"
    /\ \/ \E o \in proc[s].todo :
            LET hears(got, v, price) ==
                  proc' = [proc EXCEPT ![s].at = "write", ![s].todo = @ \ {o}, ![s].has = o,
                                       ![s].got = got, ![s].vid = v, ![s].price = price]
            IN  \/ /\ \E v \in Found(o) :
                        hears(venue[o.leg][o.n][v].state, v, venue[o.leg][o.n][v].price)
                   /\ UNCHANGED faults
                \/ Found(o) = {} /\ hears("none", 0, 0) /\ UNCHANGED faults
                \/ Found(o) # {} /\ hears("none", 0, 0) /\ Fault
       \/ proc[s].todo = {} /\ proc' = [proc EXCEPT ![s] = Idle] /\ UNCHANGED faults
    /\ UNCHANGED <<status, there, entered, row, venue, excused>>

\* Mutant: the price in the books is the one the trader set.
PriceIsOurs(s) == FALSE

\* The price of a resting limit is another than in the row as it was read.
PriceMoved(s) ==
    /\ proc[s].got = "resting"
    /\ proc[s].has.vid # 0 /\ proc[s].has.price \notin {0, proc[s].price}

\* The row is written whatever it has become since it was read.  An order without an id
\* that is not found is written off, whether or not it filled.
SyncWrite(s) ==
    LET o == proc[s].has
        got == proc[s].got
        becomes(r) == row' = [row EXCEPT ![o.leg][o.n] = r]
        was == row[o.leg][o.n]
        writtenOff == got = "none" /\ o.vid = 0
    IN  /\ proc[s].at = "write"
        /\ CASE writtenOff -> becomes([was EXCEPT !.state = "failed"])
             [] got \in {"filled", "cancelled"} ->
                  becomes([was EXCEPT !.state = got, !.vid = proc[s].vid])
             [] got = "resting" /\ o.vid = 0 -> becomes([was EXCEPT !.vid = proc[s].vid])
             [] PriceMoved(s) -> becomes([was EXCEPT !.price = proc[s].price])
             [] OTHER -> UNCHANGED row
        /\ excused' = IF writtenOff /\ \E a \in Alive(o.leg) : a[1] = o.n
                      THEN excused \cup {o.leg} ELSE excused
        /\ proc' = IF got = "filled" THEN [proc EXCEPT ![s].at = "enter"] ELSE GoOn(s)
        /\ UNCHANGED <<status, there, entered, venue, faults>>

-----------------------------------------------------------------------------

\* The exchange fills a resting order or cancels it.
VenueMoves ==
    /\ \E l \in Leg, n \in Attempt, v \in Order, to \in {"filled", "cancelled"} :
         /\ venue[l][n][v].state = "resting"
         /\ venue' = [venue EXCEPT ![l][n][v].state = to]
    /\ UNCHANGED <<status, there, entered, row, proc, faults, excused>>

\* The process dies, or a read or write throws.
Die(p) ==
    LET l == proc[p].has.leg
    IN  /\ proc[p].at \notin {"idle", "done"} /\ Fault
        /\ proc' = [proc EXCEPT ![p] = Over(p)]
        /\ excused' = IF proc[p].at \in {"record", "enter"} /\ Alive(l) # {}
                      THEN excused \cup {l} ELSE excused
        /\ UNCHANGED <<status, there, entered, row, venue>>

Step(p) ==
    \/ Flip(p) \/ Checked(p) \/ NextOrder(p) \/ Send(p) \/ Record(p) \/ Enter(p)
    \/ SendCancel(p) \/ SendEdit(p) \/ Read(p) \/ Answer(p)
    \/ SyncAsk(p) \/ SyncWrite(p)

Next ==
    \/ \E p \in Request : \/ \E k \in Key : Place(p, k) \/ Batch(p, k)
                          \/ \E price \in Price : Reprice(p, price)
                          \/ Add(p) \/ Retry(p) \/ Cancel(p)
    \/ \E s \in Syncer : SyncStart(s)
    \/ \E p \in Proc : Step(p) \/ Die(p)
    \/ VenueMoves

Spec == Init /\ [][Next]_vars

\* Every call has a timeout; the reconciler's timer goes on.
LiveSpec ==
    Spec /\ \A p \in Proc : WF_vars(Step(p)) /\ \A s \in Syncer : WF_vars(SyncStart(s))

-----------------------------------------------------------------------------
(* Every order that rests or has filled at the exchange is pending or      *)
(* filled in the books, or its answer is about to be recorded; unless the  *)
(* leg was entered twice at once or the books lost sight of an order       *)
(* (live-exec.ts, recordOrder, stillThatOrder, syncOrders).                *)
NotForgotten ==
    \A l \in there \ excused : \A o \in Alive(l) :
      \/ /\ row[l][o[1]].state \in {"pending", "filled"}
         /\ row[l][o[1]].vid \in {0, o[2]}
      \/ \E p \in Proc : proc[p].at = "record" /\ proc[p].has.leg = l /\ proc[p].has.n = o[1]

(* The books say filled or cancelled only of an order that is, and a leg   *)
(* of which an order filled has its entry premium, or is about to          *)
(* (live-exec.ts, bookVenueAnswer: "the exchange as the source of truth"). *)
BooksTellTruth ==
    \A l \in there \ excused : \A n \in Attempt :
      LET r == row[l][n]
      IN  /\ r.state \in {"filled", "cancelled"} /\ r.vid # 0 => venue[l][n][r.vid].state = r.state
          /\ r.state = "filled" =>
               l \in entered \/ \E p \in Proc : proc[p].at = "enter" /\ proc[p].has.leg = l

(* A leg is entered once: at most one of its orders rests or has filled,   *)
(* unless two placed it at once or the books lost sight of an order        *)
(* (trading.ts: "a retry cannot double-place").                            *)
EnteredOnce == \A l \in there \ excused : Cardinality(Alive(l)) <= 1

(* A pending order that the books do not know as the exchange holds it,    *)
(* over, at another price (an edit whose answer was lost) or under an      *)
(* unknown id, is put right or is no longer pending (live-reconcile.ts).   *)
Agrees(l, n) ==
    row[l][n].state = "pending" =>
      /\ row[l][n].vid # 0
      /\ venue[l][n][row[l][n].vid] = [state |-> "resting", price |-> row[l][n].price]
SyncPutsRight == \A l \in Leg, n \in Attempt : ~Agrees(l, n) ~> Agrees(l, n)
=============================================================================
