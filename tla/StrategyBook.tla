----------------------------- MODULE StrategyBook -----------------------------
(***************************************************************************)
(* The books of one strategy: the lots of its legs and the realised total, *)
(* which the trader's requests (routes/strategies.ts), the rules engine,   *)
(* the order sync and the settler of expiries (settlement.ts) read and     *)
(* write in turns, each read and write a step of its own.                  *)
(*                                                                         *)
(* A lot that is closed realises one unit.  Every leg was filled and is    *)
(* past its expiry.  Which orders an exit sends is in LiveExits; here it   *)
(* was sent and answered before the leg is closed.  Left out are editing   *)
(* the legs of a draft, deletion, going live from paper (which starts the  *)
(* total anew, routes/live.ts:184), squaring off from the list of          *)
(* positions (routes/live.ts:450), the history of adjustments and the      *)
(* day's points.                                                           *)
(***************************************************************************)
EXTENDS Integers, Sequences, FiniteSets

CONSTANTS Lots,       \* the lots of the first legs
          Worker,     \* handlers at a time
          Settler,    \* those of them that run the settler when they are free
          MaxWork,    \* bound: handlers begun (the settler's passes aside), legs left
                      \* out and processes dead, together
          MaxRow      \* bound: rows of strategy_legs

Row == 1..MaxRow

ASSUME LotsAssumption == Lots \in Seq(Nat \ {0}) /\ Len(Lots) < MaxRow
ASSUME WorkerAssumption == IsFiniteSet(Worker) /\ Settler \subseteq Worker
ASSUME BoundAssumption == {MaxWork, MaxRow} \subseteq Nat

VARIABLES leg,      \* rows of strategy_legs; a partial exit puts its lots in a row of its own
          status,   \* of the strategy
          mode,     \* tradingMode
          total,    \* realizedPnl
          armed,    \* there are rules with state "armed"
          proc,     \* what each worker is doing
          work,     \* how many of them there were
          given,    \* for the properties only: the lots the strategy was given
          excused   \* for the properties only: what a race or a failure spoilt

vars == <<leg, status, mode, total, armed, proc, work, given, excused>>

NoLeg == [state |-> "none", lots |-> 0]

\* A leg to close: seen are its lots as read, lots those to exit; 0 is all of them.
Item == [row : Row, seen : Nat, lots : Nat]
NoItem == [row |-> 1, seen |-> 0, lots |-> 0]

\* What a handler does after its legs, in its order; an adjustment writes after each.
After(kind) ==
    CASE kind = "close leg"              -> <<"total", "write">>
      [] kind \in {"close all", "stop"}  -> <<"total", "write", "disarm">>
      [] kind = "reconcile"              -> <<"disarm", "left", "total", "write">>
      [] kind = "strategy rule"          -> <<"total", "left", "disarm", "write">>
      [] kind = "leg rule"               -> <<"total", "left", "disarmIfOver", "write">>
      [] kind \in {"sync", "settle"}     -> <<"left", "total", "write", "disarmIfOver">>
      [] kind = "adjust"                 -> <<"write">>
      [] kind = "adjust and add"         -> <<"write", "add">>
      [] OTHER                           -> <<>>

Adjusts == {"adjust", "adjust and add"}
Rules == {"strategy rule", "leg rule"}
Books == {"close leg", "close all", "stop", "reconcile", "sync", "settle"} \cup Adjusts \cup Rules
Moves == {"start", "stop to draft", "archive", "restore", "arm"}

\* step: where it is in After.  saw, total and left: the status, the total and whether no
\* leg was open, as read.
Idle == [kind |-> "none", at |-> "idle", todo |-> {}, has |-> NoItem, sum |-> 0,
         step |-> 1, saw |-> "draft", total |-> 0, left |-> FALSE]

Status == {"draft", "paper", "live", "archived"}

Leg == [state : {"none", "open", "closed"}, lots : Nat]
Proc == [kind : Books \cup Moves \cup {"none"},
         at : {"idle", "legs", "close", "copy", "rest", "reopen", "set"},
         todo : SUBSET Item, has : Item, sum : Nat, step : 1..4,
         saw : Status, total : Nat, left : BOOLEAN]

TypeOK ==
    /\ leg \in [Row -> Leg]
    /\ status \in Status
    /\ mode \in {"none", "paper", "live"}
    /\ total \in Nat /\ given \in Nat
    /\ armed \in BOOLEAN
    /\ proc \in [Worker -> Proc]
    /\ work \in 0..MaxWork
    /\ excused \in SUBSET {"lots", "total", "status"}

\* The sum of the values of f.
Sum(f) == Cardinality(UNION {{x} \X (1..f[x]) : x \in DOMAIN f})

LotsOf(states) == Sum([i \in Row |-> IF leg[i].state \in states THEN leg[i].lots ELSE 0])

Init ==
    /\ leg = [i \in Row |-> IF i <= Len(Lots) THEN [state |-> "open", lots |-> Lots[i]]
                            ELSE NoLeg]
    /\ status \in {"draft", "paper", "live"}
    /\ mode = IF status = "draft" THEN "none" ELSE status
    /\ total = 0
    /\ armed \in IF status = "draft" THEN {FALSE} ELSE BOOLEAN
    /\ proc = [p \in Worker |-> Idle]
    /\ work = 0
    /\ given = LotsOf({"open"})
    /\ excused = {}

Active == status \in {"paper", "live"}
Open == {i \in Row : leg[i].state = "open"}
Fresh(i) == leg[i].state = "none" /\ \A j \in Row : j < i => leg[j].state # "none"
Work == work < MaxWork /\ work' = work + 1

\* Others that are at work on the books.
Others(p) == {q \in Worker \ {p} : proc[q].kind # "none"}

Spoils(what, if) == excused' = IF if THEN excused \cup what ELSE excused

-----------------------------------------------------------------------------
(* Setting out: the strategy and its legs are read.                        *)

\* All but the adjustments read the total once more before they write it; one that
\* changes no leg writes none.
Begin(p, kind, at, todo) ==
    /\ proc[p] = Idle
    /\ proc' = [proc EXCEPT ![p] = [Idle EXCEPT !.kind = kind, !.at = at, !.todo = todo,
                  !.step = IF kind \in Adjusts /\ todo = {} THEN 2 ELSE 1, !.saw = status,
                  !.total = IF kind \in Adjusts THEN total ELSE 0]]
    /\ IF kind = "settle" THEN UNCHANGED work ELSE Work
    /\ UNCHANGED <<leg, status, mode, total, given, excused>>

BeginBook(p, kind, todo) == Begin(p, kind, IF todo = {} THEN "rest" ELSE "legs", todo)

\* All of a leg, or a part of it.
Exits(i) == {[row |-> i, seen |-> leg[i].lots, lots |-> n] : n \in 0..leg[i].lots - 1}
Whole(rows) == {[row |-> i, seen |-> leg[i].lots, lots |-> 0] : i \in rows}

\* Changes to some of the open legs, each listed once.
Changes == {todo \in SUBSET UNION {Exits(i) : i \in Open} :
              \A x, y \in todo : x.row = y.row => x = y}

CloseLeg(p) == \E i \in Open : \E x \in Exits(i) : Active /\ BeginBook(p, "close leg", {x})
CloseAll(p) == Active /\ Open # {} /\ BeginBook(p, "close all", Whole(Open))
Stop(p) == status = "paper" /\ BeginBook(p, "stop", Whole(Open))
Reconcile(p) == Active /\ \E todo \in Changes \ {{}} : BeginBook(p, "reconcile", todo)

Adjust(p) ==
    /\ Active
    /\ \E todo \in Changes, kind \in Adjusts :
         /\ kind = "adjust" => todo # {}
         /\ BeginBook(p, kind, todo)

\* Fills of exits that rested, read from the exchange.
Sync(p) == status = "live" /\ \E todo \in Changes \ {{}} : BeginBook(p, "sync", todo)

\* A rule is claimed; others may stay armed.
Fire(p) ==
    /\ armed /\ Active /\ Open # {}
    /\ \/ BeginBook(p, "strategy rule", Whole(Open))
       \/ \E i \in Open : BeginBook(p, "leg rule", Whole({i}))
    /\ armed' \in BOOLEAN

\* Mutant: paper legs only, as before live strategies were settled.
PaperIsDue == status = "paper"

IsDue == Active

Settle(p) == IsDue /\ Open # {} /\ BeginBook(p, "settle", Whole(Open))

Start(p) == status = "draft" /\ Begin(p, "start", "reopen", {})
StopToDraft(p) == status = "paper" /\ Begin(p, "stop to draft", "set", {})
Archive(p) == status = "draft" /\ Begin(p, "archive", "set", {})
Restore(p) == status = "archived" /\ Begin(p, "restore", "set", {})
SetRules(p) == Active /\ Begin(p, "arm", "set", {})

ClearRules(p) ==
    /\ proc[p] = Idle
    /\ Work
    /\ armed' = FALSE
    /\ UNCHANGED <<leg, status, mode, total, proc, given, excused>>

-----------------------------------------------------------------------------
(* Closing the legs.                                                       *)

Rereads(kind) == kind \in Rules \cup {"sync", "settle"}

\* The sync and the settler that closed nothing book nothing.
Done(r) == r.kind \in {"sync", "settle"} /\ r.todo = {} /\ r.sum = 0

\* After a leg: an adjustment books it before the next.
GoOn(r) ==
    IF Done(r) THEN Idle
    ELSE [r EXCEPT !.at = IF r.kind \in Adjusts \/ r.todo = {} THEN "rest" ELSE "legs",
                   !.has = NoItem]

Without(p, x) == [proc[p] EXCEPT !.todo = @ \ {x}]

\* The jobs read a leg again before they close it.  The settler leaves one of which it has
\* no spot or which the exchange still holds, the engine one whose exit failed or rests.
Look(p) ==
    /\ proc[p].at = "legs" /\ Rereads(proc[p].kind)
    /\ \E x \in proc[p].todo :
         \/ /\ x.row \in Open
            /\ proc' = [proc EXCEPT ![p] = [Without(p, x) EXCEPT !.at = "close",
                                               !.has = [x EXCEPT !.seen = leg[x.row].lots]]]
            /\ UNCHANGED work
         \/ x.row \notin Open /\ proc' = [proc EXCEPT ![p] = GoOn(Without(p, x))] /\ UNCHANGED work
         \/ proc[p].kind \in Rules \cup {"settle"} /\ Work /\ proc' = [proc EXCEPT ![p] = GoOn(Without(p, x))]
    /\ UNCHANGED <<leg, status, mode, total, armed, given, excused>>

\* Mutant: the write is not guarded on the status of the leg.
AnyState(i) == leg[i].state # "none"

StillOpen(i) == leg[i].state = "open"

\* A request that met a leg closed meanwhile throws, and so does the settler's pass; the
\* engine and the sync go on.
Throws(kind) == kind \notin Rules \cup {"sync"}

Fails(p) ==
    /\ proc' = [proc EXCEPT ![p] = Idle]
    /\ excused' = excused \cup (IF proc[p].sum # 0 THEN {"total"} ELSE {})
                          \cup (IF proc[p].at = "copy" THEN {"lots", "total"} ELSE {})
                          \cup (IF proc[p].at \in {"rest", "reopen"} THEN {"status"} ELSE {})

\* Mutant: the lots to exit less those the leg has.
Overdrawn(x) == x.lots - x.seen

Rest(x) == x.seen - x.lots

\* closeLegRow: the write goes by the lots that were read.
CloseRow(p, x) ==
    LET part == x.lots # 0 /\ x.lots < x.seen
        r == [Without(p, x) EXCEPT !.sum = @ + IF part THEN x.lots ELSE x.seen]
    IN  \/ /\ StillOpen(x.row)
           /\ leg' = [leg EXCEPT ![x.row] = IF part THEN [@ EXCEPT !.lots = Rest(x)]
                                            ELSE [@ EXCEPT !.state = "closed"]]
           /\ proc' = [proc EXCEPT ![p] =
                IF part THEN [r EXCEPT !.at = "copy", !.has = x] ELSE GoOn(r)]
           /\ Spoils({"lots", "total"}, leg[x.row].lots # x.seen)
        \/ /\ ~StillOpen(x.row)
           /\ IF Throws(proc[p].kind) THEN Fails(p)
              ELSE proc' = [proc EXCEPT ![p] = GoOn(@)] /\ UNCHANGED excused
           /\ UNCHANGED leg

\* A trader's request goes by what it read at first.
Close(p) ==
    /\ \/ proc[p].at = "close" /\ CloseRow(p, proc[p].has)
       \/ /\ proc[p].at = "legs" /\ ~Rereads(proc[p].kind)
          /\ \E x \in proc[p].todo : CloseRow(p, x)
    /\ UNCHANGED <<status, mode, total, armed, work, given>>

\* The part that was exited gets a row of its own, closed.
Copy(p) ==
    /\ proc[p].at = "copy"
    /\ \E i \in Row :
         Fresh(i) /\ leg' = [leg EXCEPT ![i] = [state |-> "closed", lots |-> proc[p].has.lots]]
    /\ proc' = [proc EXCEPT ![p] = GoOn(@)]
    /\ UNCHANGED <<status, mode, total, armed, work, given, excused>>

-----------------------------------------------------------------------------
(* Booking them.                                                           *)

\* Mutant: the strategy is archived whatever stayed open.
Always(p) == proc[p].kind # "adjust"

Archives(p) ==
    CASE proc[p].kind \in Rules \cup {"reconcile", "sync", "settle"} -> proc[p].left
      [] proc[p].kind = "close all" -> proc[p].saw = "live"
      [] OTHER -> proc[p].kind = "stop"

Does(p, step) == proc[p].at = "rest" /\ After(proc[p].kind)[proc[p].step] = step

\* One step further; an adjustment goes back to its legs.
Advance(r) ==
    IF r.todo # {} THEN [r EXCEPT !.at = "legs"]
    ELSE IF r.step < Len(After(r.kind)) THEN [r EXCEPT !.step = @ + 1]
    ELSE Idle

ReadTotal(p) ==
    /\ Does(p, "total")
    /\ proc' = [proc EXCEPT ![p] = Advance([@ EXCEPT !.total = total])]
    /\ UNCHANGED <<leg, status, mode, total, armed, work, given, excused>>

ReadLeft(p) ==
    /\ Does(p, "left")
    /\ proc' = [proc EXCEPT ![p] = Advance([@ EXCEPT !.left = Open = {}])]
    /\ UNCHANGED <<leg, status, mode, total, armed, work, given, excused>>

Disarm(p) ==
    /\ \/ Does(p, "disarm") /\ armed' = FALSE
       \/ Does(p, "disarmIfOver") /\ armed' = (armed /\ ~Archives(p))
    /\ proc' = [proc EXCEPT ![p] = Advance(@)]
    /\ UNCHANGED <<leg, status, mode, total, work, given, excused>>

\* The total goes by what was read; the status by nothing but the handler.
Write(p) ==
    /\ Does(p, "write")
    /\ total' = proc[p].total + proc[p].sum
    /\ status' = IF Archives(p) THEN "archived" ELSE status
    /\ proc' = [proc EXCEPT ![p] = Advance([@ EXCEPT !.total = total', !.sum = 0])]
    /\ excused' = excused
         \cup (IF total # proc[p].total THEN {"total"} ELSE {})
         \cup (IF Archives(p) /\ status # proc[p].saw THEN {"status"} ELSE {})
    /\ UNCHANGED <<leg, mode, armed, work, given>>

\* A leg of one lot is added to the strategy as it was.
AddLeg(p) ==
    /\ Does(p, "add")
    /\ \E i \in Row : Fresh(i) /\ leg' = [leg EXCEPT ![i] = [state |-> "open", lots |-> 1]]
    /\ given' = given + 1
    /\ proc' = [proc EXCEPT ![p] = Advance(@)]
    /\ Spoils({"status"}, Others(p) # {} \/ status # proc[p].saw)
    /\ UNCHANGED <<status, mode, total, armed, work>>

-----------------------------------------------------------------------------
(* Requests that change the status or the rules.                           *)

\* Every leg is open again, those squared off and the parts exited too.
Reopen(p) ==
    /\ proc[p].at = "reopen"
    /\ leg' = [i \in Row |-> IF leg[i].state = "none" THEN leg[i]
                             ELSE [leg[i] EXCEPT !.state = "open"]]
    /\ proc' = [proc EXCEPT ![p].at = "set"]
    /\ Spoils({"lots", "total", "status"}, Others(p) # {} \/ status # proc[p].saw)
    /\ UNCHANGED <<status, mode, total, armed, work, given>>

\* Written whatever the strategy has become since it was read.
Set(p) ==
    /\ proc[p].at = "set"
    /\ CASE proc[p].kind = "start" ->
              status' = "paper" /\ mode' = "paper" /\ total' = 0 /\ UNCHANGED armed
         [] proc[p].kind \in {"stop to draft", "restore"} ->
              status' = "draft" /\ mode' = "none" /\ UNCHANGED <<total, armed>>
         [] proc[p].kind = "archive" -> status' = "archived" /\ UNCHANGED <<mode, total, armed>>
         [] proc[p].kind = "arm" -> armed' = TRUE /\ UNCHANGED <<status, mode, total>>
    /\ proc' = [proc EXCEPT ![p] = Idle]
    /\ Spoils({"lots", "total", "status"}, Others(p) # {} \/ status # proc[p].saw)
    /\ UNCHANGED <<leg, work, given>>

-----------------------------------------------------------------------------

\* The process dies, or a read or write throws.
Die(p) ==
    /\ proc[p].kind # "none" /\ Work
    /\ Fails(p)
    /\ UNCHANGED <<leg, status, mode, total, armed, given>>

Step(p) ==
    \/ Look(p) \/ Close(p) \/ Copy(p)
    \/ ReadTotal(p) \/ ReadLeft(p) \/ Disarm(p) \/ Write(p) \/ AddLeg(p)
    \/ Reopen(p) \/ Set(p)

Asks(p) ==
    \/ /\ CloseLeg(p) \/ CloseAll(p) \/ Stop(p) \/ Reconcile(p) \/ Adjust(p) \/ Sync(p)
          \/ Start(p) \/ StopToDraft(p) \/ Archive(p) \/ Restore(p) \/ SetRules(p)
       /\ UNCHANGED armed
    \/ Fire(p) \/ ClearRules(p)

Next ==
    \/ \E p \in Worker : Asks(p)
    \/ \E s \in Settler : Settle(s) /\ UNCHANGED armed
    \/ \E p \in Worker : Step(p) \/ Die(p)

Spec == Init /\ [][Next]_vars

\* Every call has a timeout; the settler's timer goes on.
LiveSpec ==
    /\ Spec
    /\ \A s \in Settler : WF_vars(Step(s) \/ (Settle(s) /\ UNCHANGED armed))

-----------------------------------------------------------------------------
Copied == Sum([p \in Worker |-> IF proc[p].at = "copy" THEN proc[p].has.lots ELSE 0])
Unbooked == Sum([p \in Worker |-> proc[p].sum])

(* No lot of a strategy is lost or closed twice, and the realised total is *)
(* what its closed lots realised, up to what a process has closed and not  *)
(* booked yet; unless a process closed a leg that was trimmed since it was *)
(* read, wrote the total over another, or failed with lots unbooked        *)
(* (strategies.ts, closeLegRow: "must not be overwritten, and its P&L must *)
(* not be booked twice").                                                  *)
BookedOnce ==
    /\ "lots" \notin excused => LotsOf({"open", "closed"}) + Copied = given
    /\ Active /\ "total" \notin excused =>
         total + Unbooked = LotsOf({"closed"}) + Copied

AboutToDisarm(p) == Does(p, "disarm") \/ (Does(p, "disarmIfOver") /\ Archives(p))

(* A strategy archived by trading has no open leg and no armed rule, or    *)
(* who archived it is about to disarm them; unless somebody else wrote its *)
(* status, its rules or a new leg in the meantime, or the process failed   *)
(* (strategies.ts, settlement.ts, rules-engine.ts).                        *)
ArchivedIsOver ==
    status = "archived" /\ mode # "none" /\ "status" \notin excused =>
      /\ Open = {}
      /\ ~armed \/ \E p \in Worker : AboutToDisarm(p)

(* The legs of an expired strategy are closed or it is traded no more,     *)
(* whatever else is at work on them and although a leg closed meanwhile    *)
(* ends the pass (settlement.ts, settleExpired).                           *)
ExpiredAreSettled == (Active /\ Open # {}) ~> (~Active \/ Open = {})
=============================================================================
