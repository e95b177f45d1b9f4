------------------------------ MODULE LiveExits ------------------------------
(***************************************************************************)
(* How the legs of one live strategy are exited: the rules engine          *)
(* (apps/api/src/rules-engine.ts), the trader's clicks                     *)
(* (routes/strategies.ts) and the order sync (live-reconcile.ts,           *)
(* routes/live-exec.ts) over one database and one exchange.                *)
(*                                                                         *)
(* An exit is sent under a client order id made of the leg and a number,   *)
(* one above the numbers in the books when it is looked up.  The exchange  *)
(* refuses a client order id it knows.  It nets the positions of all       *)
(* strategies, so a reduce-only order is not refused because the lots of   *)
(* one leg are gone.  A request reaches it before its timeout or never.    *)
(* Exits are of whole legs.                                                *)
(*                                                                         *)
(* Amounts, the entries and the other ways to close a leg (settlement,     *)
(* adjustments, Reconcile) are left out.                                   *)
(***************************************************************************)
EXTENDS Naturals, FiniteSetsExt

CONSTANTS Leg, Short,     \* the legs, and those of them that were sold
          Rule,           \* its exit rules, of either scope
          None,
          Pass,           \* passes of the engine at a time
          Click,          \* requests of the trader, each made once
          Tries,          \* RulesOptions.attempts
          MaxAttempt,     \* bound: exits numbered per leg
          MaxFaults       \* bound: answers lost, writes failed and processes dead

Proc == Pass \cup Click
Attempt == 1..MaxAttempt

ASSUME LegAssumption == Short \subseteq Leg /\ None \notin Leg
ASSUME ProcAssumption == Pass \cap Click = {}
ASSUME TriesAssumption == Tries \in Nat \ {0}
ASSUME BoundAssumption == {MaxAttempt, MaxFaults} \subseteq Nat

VARIABLES open,    \* legs with status "open"
          status,  \* of the strategy
          armed,   \* rules with state "armed"
          row,     \* strategy_orders; "unseen" is pending without a venue order id
          venue,   \* the orders the exchange knows
          proc,    \* what each pass and click is doing
          sync,    \* what the reconciler is doing
          faults,  \* how many there were
          excused  \* for the properties only: legs that somebody set out to exit while
                   \* another was at it, or an order of which the books lost sight of

vars == <<open, status, armed, row, venue, proc, sync, faults, excused>>

Idle == [at |-> "idle", todo |-> {}, leg |-> None, n |-> 0, got |-> "refused",
         tries |-> 0, wide |-> FALSE]
Over(p) == IF p \in Pass THEN Idle ELSE [Idle EXCEPT !.at = "done"]
Asleep == [on |-> FALSE, rows |-> {}, fills |-> {}, booked |-> FALSE]

TypeOK ==
    /\ open \in SUBSET Leg
    /\ status \in {"live", "archived"}
    /\ armed \in SUBSET Rule
    /\ row \in [Leg -> [Attempt -> {"none", "pending", "unseen", "closed", "failed"}]]
    /\ venue \in [Leg -> [Attempt -> {"none", "resting", "filled", "cancelled"}]]
    /\ proc \in [Proc -> [at : {"idle", "done", "next", "send", "place", "record", "book"},
                          todo : SUBSET Leg, leg : Leg \cup {None}, n : 0..MaxAttempt,
                          got : {"filled", "pending", "unknown", "refused", "final"},
                          tries : 0..(Tries - 1), wide : BOOLEAN]]
    \* rows: what was pending, with whether the exchange's id was known
    /\ sync \in [on : BOOLEAN, rows : SUBSET (Leg \X Attempt \X BOOLEAN),
                 fills : SUBSET Leg, booked : BOOLEAN]
    /\ faults \in 0..MaxFaults
    /\ excused \in SUBSET Leg

Init ==
    /\ open = Leg
    /\ status = "live"
    /\ armed = Rule
    /\ row = [l \in Leg |-> [n \in Attempt |-> "none"]]
    /\ venue = [l \in Leg |-> [n \in Attempt |-> "none"]]
    /\ proc = [p \in Proc |-> Idle]
    /\ sync = Asleep
    /\ faults = 0
    /\ excused = {}

\* Orders of a leg that trade or have traded, and numbers its rows use.
Alive(l) == {n \in Attempt : venue[l][n] \in {"resting", "filled"}}
Numbers(l) == {n \in Attempt : row[l][n] # "none"}

Fault == faults < MaxFaults /\ faults' = faults + 1

\* Whose hands leg l is in, from the decision to send until it is booked.
AtWork(l) == {p \in Proc : proc[p].leg = l}

-----------------------------------------------------------------------------
(* Setting out.                                                            *)

\* A crossed rule is claimed, armed -> fired, and the legs to exit are those open.
Fire(p, r) ==
    /\ proc[p] = Idle
    /\ status = "live" /\ r \in armed
    /\ armed' = armed \ {r}
    /\ open # {}
    /\ \/ \E l \in open : proc' = [proc EXCEPT ![p] = [Idle EXCEPT !.at = "next", !.todo = {l}]]
       \/ proc' = [proc EXCEPT ![p] =
            [Idle EXCEPT !.at = "next", !.todo = open, !.wide = TRUE]]
    /\ UNCHANGED <<open, status, row, venue, sync, faults, excused>>

\* One leg, whose status is not looked at, or every open leg.
Ask(p) ==
    /\ proc[p] = Idle
    /\ status = "live"
    /\ \/ \E l \in Leg : proc' = [proc EXCEPT ![p] = [Idle EXCEPT !.at = "next", !.todo = {l}]]
       \/ /\ open # {}
          /\ proc' = [proc EXCEPT ![p] =
               [Idle EXCEPT !.at = "next", !.todo = open, !.wide = TRUE]]
    /\ UNCHANGED <<open, status, armed, row, venue, sync, faults, excused>>

Skip(p, l) == proc' = [proc EXCEPT ![p].todo = @ \ {l}]

SetOut(p, l) ==
    /\ proc' = [proc EXCEPT ![p].at = "send", ![p].leg = l, ![p].todo = @ \ {l}]
    /\ excused' =
         IF AtWork(l) # {} \/ l \in sync.fills THEN excused \cup {l} ELSE excused

\* Mutant: an exit that rests is not looked for.
OnlyOpen(l) == l \in open

\* Read right before the order: the leg is open and no exit of it is pending.
Wanted(l) == l \in open /\ \A n \in Attempt : row[l][n] \notin {"pending", "unseen"}

ShortsFirst(legs) == IF legs \cap Short = {} THEN legs ELSE legs \cap Short

NextLeg(p) ==
    /\ proc[p].at = "next"
    /\ \/ /\ p \in Pass
          /\ \E l \in ShortsFirst(proc[p].todo) :
               \/ Wanted(l) /\ SetOut(p, l)
               \/ ~Wanted(l) /\ Skip(p, l) /\ UNCHANGED excused
       \/ /\ p \in Click
          /\ \E l \in proc[p].todo : SetOut(p, l)
    /\ UNCHANGED <<open, status, armed, row, venue, sync, faults>>

-----------------------------------------------------------------------------
(* One exit.                                                               *)

GoOn(p) == [Idle EXCEPT !.at = "next", !.todo = proc[p].todo, !.wide = proc[p].wide]

\* The leg was not exited: the engine goes on to the next one, a request ends.
GivenUp(p) == IF p \in Pass THEN GoOn(p) ELSE Over(p)

NextAttempt(l) == Max(Numbers(l) \cup {0}) + 1

\* tryExit before the order: the product, the size and the number.
Number(p) ==
    /\ proc[p].at = "send"
    /\ \/ /\ NextAttempt(proc[p].leg) \in Attempt
          /\ proc' = [proc EXCEPT ![p].at = "place", ![p].n = NextAttempt(proc[p].leg)]
       \/ proc' = [proc EXCEPT ![p] = GivenUp(p)]  \* the product is not found
    /\ UNCHANGED <<open, status, armed, row, venue, sync, faults, excused>>

\* placeOrder: what the exchange does, and what is heard of it.
Place(p) ==
    LET l == proc[p].leg
        n == proc[p].n
        ends(order, got) ==
            /\ venue' = [venue EXCEPT ![l][n] = order]
            /\ proc' = [proc EXCEPT ![p].at = "record", ![p].got = got]
    IN  /\ proc[p].at = "place"
        /\ \/ /\ venue[l][n] = "none"
              /\ \/ ends("filled", "filled")
                 \/ ends("resting", "pending")
                 \/ \E got \in {"refused", "final"} : ends("none", got)
              /\ UNCHANGED faults
           \/ /\ venue[l][n] # "none"
              /\ ends(venue[l][n], "refused")
              /\ UNCHANGED faults
           \/ /\ Fault
              /\ \E order \in IF venue[l][n] = "none" THEN {"none", "resting", "filled"}
                              ELSE {venue[l][n]} : ends(order, "unknown")
        /\ UNCHANGED <<open, status, armed, row, sync, excused>>

\* Mutant: an order that may have reached the exchange is written off.
WrittenOff(got) ==
    CASE got = "filled" -> "closed" [] got = "pending" -> "pending" [] OTHER -> "failed"

RowOf(got) ==
    CASE got = "filled" -> "closed" [] got = "pending" -> "pending"
      [] got = "unknown" -> "unseen" [] OTHER -> "failed"

\* Mutant: one attempt too many.
TriedOnce(p) == proc[p].tries < Tries

TriesLeft(p) == proc[p].tries + 1 < Tries

\* Mutant: an exit that was accepted is booked at once.
AcceptedIsDone(got) == got \in {"filled", "pending"}

Done(got) == got = "filled"

\* What follows an attempt that ended with `got`.
After(p, got) ==
    CASE Done(got) -> [proc[p] EXCEPT !.at = "book"]
      [] got = "refused" /\ p \in Pass /\ TriesLeft(p) ->
           [proc[p] EXCEPT !.at = "send", !.tries = @ + 1, !.n = 0]
      [] OTHER -> GivenUp(p)

\* The row of this number is written or overwritten, whoever wrote it.  An order that
\* cannot be recorded counts as unknown.
Record(p) ==
    LET l == proc[p].leg
        n == proc[p].n
        got == proc[p].got
        unwritten == IF got \in {"filled", "pending"} THEN "unknown" ELSE got
    IN  /\ proc[p].at = "record"
        /\ \/ /\ row' = [row EXCEPT ![l][n] = RowOf(got)]
              /\ proc' = [proc EXCEPT ![p] = After(p, got)]
              /\ UNCHANGED <<faults, excused>>
           \/ /\ Fault
              /\ proc' = [proc EXCEPT ![p] = After(p, unwritten)]
              /\ excused' = IF n \in Alive(l) THEN excused \cup {l} ELSE excused
              /\ UNCHANGED row
        /\ UNCHANGED <<open, status, armed, venue, sync>>

\* closeLegRow writes only a leg that is still open; the write may fail.
Book(p) ==
    LET l == proc[p].leg
    IN  /\ proc[p].at = "book"
        /\ \/ /\ l \in open
              /\ open' = open \ {l}
              /\ proc' = [proc EXCEPT ![p] =
                   IF p \in Click /\ ~proc[p].wide THEN Over(p) ELSE GoOn(p)]
              /\ UNCHANGED <<faults, excused>>
           \/ /\ l \notin open
              /\ proc' = [proc EXCEPT ![p] = GivenUp(p)]
              /\ UNCHANGED <<open, faults, excused>>
           \/ /\ l \in open /\ Fault
              /\ proc' = [proc EXCEPT ![p] = GivenUp(p)]
              /\ excused' = excused \cup {l}
              /\ UNCHANGED open
        /\ UNCHANGED <<status, armed, row, venue, sync>>

\* The engine archives a strategy with no leg open; a request that exited every leg it
\* found open does not look again.
Archives(p) == open = {} \/ p \in Click

\* A rule of the whole strategy, and one that closed the last leg, disarms the others.
End(p) ==
    /\ proc[p].at = "next" /\ proc[p].todo = {}
    /\ status' = IF Archives(p) THEN "archived" ELSE status
    /\ armed' = IF proc[p].wide \/ Archives(p) THEN {} ELSE armed
    /\ proc' = [proc EXCEPT ![p] = Over(p)]
    /\ UNCHANGED <<open, row, venue, sync, faults, excused>>

\* The process dies, or a read or write throws.
Die(p) ==
    LET l == proc[p].leg
    IN  /\ proc[p].at \notin {"idle", "done"} /\ Fault
        /\ proc' = [proc EXCEPT ![p] = Over(p)]
        /\ excused' = IF proc[p].at \in {"record", "book"} /\ proc[p].n \in Alive(l)
                      THEN excused \cup {l} ELSE excused
        /\ UNCHANGED <<open, status, armed, row, venue, sync>>

-----------------------------------------------------------------------------
(* The exchange and the order sync.                                        *)

VenueMoves ==
    /\ \E l \in Leg, n \in Attempt, to \in {"filled", "cancelled"} :
         venue[l][n] = "resting" /\ venue' = [venue EXCEPT ![l][n] = to]
    /\ UNCHANGED <<open, status, armed, row, proc, sync, faults, excused>>

SyncStart ==
    /\ sync = Asleep
    /\ status = "live"
    /\ \E l \in Leg, n \in Attempt : row[l][n] \in {"pending", "unseen"}
    /\ sync' = [Asleep EXCEPT !.on = TRUE, !.rows =
         {<<o[1], o[2], row[o[1]][o[2]] = "pending">> : o \in
            {ln \in Leg \X Attempt : row[ln[1]][ln[2]] \in {"pending", "unseen"}}}]
    /\ UNCHANGED <<open, status, armed, row, venue, proc, faults, excused>>

\* An order with an id is asked for; it is left alone when there is no answer.  One
\* without is looked for among the open orders and written off when it is not there.
SyncRow ==
    /\ \E o \in sync.rows :
         LET l == o[1]
             n == o[2]
             known == o[3]
             order == venue[l][n]
             becomes(state, fills) ==
                 /\ row' = [row EXCEPT ![l][n] = state]
                 /\ sync' = [sync EXCEPT !.rows = @ \ {o}, !.fills = @ \cup fills]
                 /\ excused' = IF state = "failed" /\ n \in Alive(l)
                               THEN excused \cup {l} ELSE excused
         IN  \/ /\ \/ known /\ order = "filled" /\ becomes("closed", {l})
                   \/ known /\ order = "cancelled" /\ becomes("failed", {})
                   \/ known /\ order = "resting" /\ becomes(row[l][n], {})
                   \/ ~known /\ order = "resting" /\ becomes("pending", {})
                   \/ ~known /\ order # "resting" /\ becomes("failed", {})
                /\ UNCHANGED faults
             \/ /\ Fault
                /\ becomes(IF known THEN row[l][n] ELSE "failed", {})
    /\ UNCHANGED <<open, status, armed, venue, proc>>

\* A fill is booked if the leg is still open and the product is known.
SyncBook ==
    /\ sync.rows = {}
    /\ \E l \in sync.fills :
         LET through(how) == sync' = [sync EXCEPT !.fills = @ \ {l}, !.booked = @ \/ how]
         IN  \/ /\ l \in open
                /\ open' = open \ {l}
                /\ through(TRUE)
                /\ UNCHANGED <<faults, excused>>
             \/ /\ l \notin open
                /\ through(FALSE)
                /\ UNCHANGED <<open, faults, excused>>
             \/ /\ l \in open /\ Fault
                /\ through(FALSE)
                /\ excused' = excused \cup {l}
                /\ UNCHANGED open
    /\ UNCHANGED <<status, armed, row, venue, proc>>

SyncEnd ==
    /\ sync.on /\ sync.rows = {} /\ sync.fills = {}
    /\ sync' = Asleep
    /\ status' = IF sync.booked /\ open = {} THEN "archived" ELSE status
    /\ armed' = IF sync.booked /\ open = {} THEN {} ELSE armed
    /\ UNCHANGED <<open, row, venue, proc, faults, excused>>

SyncDies ==
    /\ sync # Asleep /\ Fault
    /\ sync' = Asleep
    /\ excused' = excused \cup (sync.fills \cap open)
    /\ UNCHANGED <<open, status, armed, row, venue, proc>>

Sync == SyncStart \/ SyncRow \/ SyncBook \/ SyncEnd \/ SyncDies

Next ==
    \/ \E p \in Pass, r \in Rule : Fire(p, r)
    \/ \E p \in Click : Ask(p)
    \/ \E p \in Proc : NextLeg(p) \/ Number(p) \/ Place(p) \/ Record(p) \/ Book(p) \/ End(p)
                       \/ Die(p)
    \/ VenueMoves
    \/ Sync

Spec == Init /\ [][Next]_vars

-----------------------------------------------------------------------------
(* The engine sends an exit beside one that is still good only where two   *)
(* were exiting the same leg at once, or the books had lost sight of an    *)
(* order (rules-engine.ts, "never a second one").                          *)
EngineSendsNoSecond ==
    [][\A p \in Pass :
         LET l == proc[p].leg
         IN  proc[p].at = "place" /\ proc'[p].at = "record" /\ Alive(l) # {}
               => Alive(l)' = Alive(l) \/ l \in excused]_vars

(* A leg is squared off only after an exit of it filled at the exchange.   *)
ClosedIsFilled == \A l \in Leg \ open : \E n \in Attempt : venue[l][n] = "filled"

(* Every good order of an open leg is pending in the books, so that the    *)
(* sync will find it, or somebody is about to record or book it; unless    *)
(* two overlapped on the leg or the books lost sight of it.                *)
Accounted ==
    \A l \in open \ excused : \A n \in Alive(l) :
      \/ row[l][n] \in {"pending", "unseen"}
      \/ \E p \in AtWork(l) : proc[p].n = n /\ proc[p].at \in {"record", "book"}
      \/ l \in sync.fills
=============================================================================
