---------------------------- MODULE LiveExitsProofs ----------------------------
(***************************************************************************)
(* Proofs about LiveExits, for any legs, rules, passes and clicks at a     *)
(* time, and any number of tries, exits and faults.                        *)
(***************************************************************************)
EXTENDS LiveExits, WellFoundedInduction, TLAPS

ProcState == [at : {"idle", "done", "next", "send", "place", "record", "book"},
              todo : SUBSET Leg, leg : Leg \cup {None}, n : 0..MaxAttempt,
              got : {"filled", "pending", "unknown", "refused", "final"},
              tries : 0..(Tries - 1), wide : BOOLEAN]

(* Who sends, records or books has a leg in hand, and who sends or records *)
(* one has a number (rules-engine.ts, tryExit; strategies.ts, closeLeg).   *)
InHand ==
    \A p \in Proc :
      /\ proc[p].at \in {"send", "place", "record", "book"} => proc[p].leg \in Leg
      /\ proc[p].at \in {"place", "record"} => proc[p].n \in Attempt

Filled == {l \in Leg : \E n \in Attempt : venue[l][n] = "filled"}

(* Whoever heard of a fill, and is to record or book it, heard the truth:  *)
(* what makes ClosedIsFilled inductive.                                    *)
HeardIsFilled ==
    /\ \A p \in Proc :
         /\ proc[p].at = "record" /\ proc[p].got = "filled" => proc[p].leg \in Filled
         /\ proc[p].at = "book" => proc[p].leg \in Filled
    /\ sync.fills \subseteq Filled

Inv == TypeOK /\ InHand /\ HeardIsFilled /\ ClosedIsFilled

-----------------------------------------------------------------------------
\* A process that has nothing in hand is in its type, and so is one that goes on.
LEMMA Resting ==
  ASSUME TypeOK, NEW p \in Proc
  PROVE  /\ Idle \in ProcState /\ Idle.at = "idle"
         /\ Over(p) \in ProcState /\ Over(p).at \in {"idle", "done"}
         /\ GoOn(p) \in ProcState /\ GoOn(p).at = "next"
         /\ GivenUp(p) \in ProcState /\ GivenUp(p).at \in {"idle", "done", "next"}
<1>1. Idle \in ProcState /\ Idle.at = "idle"
  BY TriesAssumption, BoundAssumption DEF Idle, ProcState
<1>2. proc[p].todo \in SUBSET Leg /\ proc[p].wide \in BOOLEAN
  BY DEF TypeOK
<1>3. Over(p) \in ProcState /\ Over(p).at \in {"idle", "done"}
  BY <1>1 DEF Over, Idle, ProcState
<1>4. GoOn(p) \in ProcState /\ GoOn(p).at = "next"
  BY <1>1, <1>2 DEF GoOn, Idle, ProcState
<1> QED
  BY <1>1, <1>3, <1>4 DEF GivenUp

\* A step in which one process comes to stand as r, and no fill of the exchange is undone.
LEMMA MovesKeep ==
  ASSUME Inv, NEW p \in Proc, NEW r \in ProcState, proc' = [proc EXCEPT ![p] = r],
         Filled \subseteq Filled',
         r.at \in {"send", "place", "record", "book"} => r.leg \in Leg,
         r.at \in {"place", "record"} => r.n \in Attempt,
         r.at = "record" /\ r.got = "filled" => r.leg \in Filled',
         r.at = "book" => r.leg \in Filled',
         UNCHANGED sync
  PROVE  /\ proc' \in [Proc -> ProcState]
         /\ InHand' /\ HeardIsFilled'
<1>1. proc \in [Proc -> ProcState]
  BY DEF Inv, TypeOK, ProcState
<1>2. proc' \in [Proc -> ProcState] /\ \A q \in Proc : proc'[q] = IF q = p THEN r ELSE proc[q]
  BY <1>1
<1>3. InHand'
  BY <1>2 DEF Inv, InHand
<1>4. HeardIsFilled'
  <2>1. ASSUME NEW q \in Proc
        PROVE  /\ proc'[q].at = "record" /\ proc'[q].got = "filled" => proc'[q].leg \in Filled'
               /\ proc'[q].at = "book" => proc'[q].leg \in Filled'
    <3>1. CASE q = p
      BY <1>2, <3>1
    <3>2. CASE q # p
      <4>1. proc'[q] = proc[q]
        BY <1>2, <3>2
      <4> QED
        BY <4>1 DEF Inv, InHand, HeardIsFilled
    <3> QED
      BY <3>1, <3>2
  <2>2. sync'.fills \subseteq Filled'
    <3>1. sync.fills \in SUBSET Leg
      BY DEF Inv, TypeOK
    <3> QED
      BY <3>1 DEF Inv, HeardIsFilled
  <2> QED
    BY <2>1, <2>2 DEF HeardIsFilled
<1> QED
  BY <1>2, <1>3, <1>4

\* ClosedIsFilled in terms of sets of legs.
LEMMA ClosedMeans == ClosedIsFilled <=> Leg \ open \subseteq Filled
BY DEF ClosedIsFilled, Filled

\* An order that filled stays filled, whatever else the exchange does.
LEMMA FillsStay ==
  ASSUME TypeOK, NEW l \in Leg, NEW n \in Attempt,
         NEW order \in {"none", "resting", "filled", "cancelled"},
         venue[l][n] = "filled" => order = "filled",
         venue' = [venue EXCEPT ![l][n] = order]
  PROVE  /\ venue' \in [Leg -> [Attempt -> {"none", "resting", "filled", "cancelled"}]]
         /\ Filled \subseteq Filled'
         /\ order = "filled" => l \in Filled'
<1>1. venue \in [Leg -> [Attempt -> {"none", "resting", "filled", "cancelled"}]]
  BY DEF TypeOK
<1>2. venue' \in [Leg -> [Attempt -> {"none", "resting", "filled", "cancelled"}]]
  BY <1>1
<1>3. \A k \in Leg, m \in Attempt :
        venue'[k][m] = IF k = l /\ m = n THEN order ELSE venue[k][m]
  BY <1>1
<1> QED
  BY <1>2, <1>3 DEF Filled

\* A step that leaves the exchange, the reconciler and the legs in the books alone.
LEMMA QuietKeeps ==
  ASSUME Inv, NEW p \in Proc, NEW r \in ProcState, proc' = [proc EXCEPT ![p] = r],
         r.at \in {"send", "place", "record", "book"} => r.leg \in Leg,
         r.at \in {"place", "record"} => r.n \in Attempt,
         r.at = "record" => r.got # "filled",
         r.at = "book" => r.leg \in Filled,
         UNCHANGED <<open, venue, sync>>
  PROVE  /\ proc' \in [Proc -> ProcState]
         /\ InHand' /\ HeardIsFilled' /\ ClosedIsFilled'
<1>1. Filled' = Filled
  BY DEF Filled
<1>2. proc' \in [Proc -> ProcState] /\ InHand' /\ HeardIsFilled'
  BY <1>1, MovesKeep
<1>3. ClosedIsFilled'
  BY DEF Inv, ClosedIsFilled
<1> QED
  BY <1>2, <1>3

-----------------------------------------------------------------------------
(* Each action preserves the invariant: one lemma per action.              *)

\* A claimed rule and a request set out with a list of legs and nothing in hand.
LEMMA FireKeeps == ASSUME Inv, NEW p \in Pass, NEW k \in Rule, Fire(p, k) PROVE Inv'
<1>1. p \in Proc /\ open \subseteq Leg /\ Idle \in ProcState
  BY Resting DEF Inv, TypeOK, Proc
<1>2. \A legs \in SUBSET Leg :
        /\ [Idle EXCEPT !.at = "next", !.todo = legs] \in ProcState
        /\ [Idle EXCEPT !.at = "next", !.todo = legs, !.wide = TRUE] \in ProcState
  BY <1>1 DEF ProcState
<1>3. PICK r \in ProcState : r.at = "next" /\ proc' = [proc EXCEPT ![p] = r]
  <2>1. CASE \E l \in open : proc' = [proc EXCEPT ![p] = [Idle EXCEPT !.at = "next", !.todo = {l}]]
    <3>1. PICK l \in open : proc' = [proc EXCEPT ![p] = [Idle EXCEPT !.at = "next", !.todo = {l}]]
      BY <2>1
    <3> DEFINE r == [Idle EXCEPT !.at = "next", !.todo = {l}]
    <3>2. r \in ProcState
      BY <1>1, <1>2
    <3>3. r.at = "next"
      BY <1>1 DEF ProcState
    <3> QED
      BY <3>1, <3>2, <3>3
  <2>2. CASE proc' = [proc EXCEPT ![p] =
                       [Idle EXCEPT !.at = "next", !.todo = open, !.wide = TRUE]]
    <3> DEFINE r == [Idle EXCEPT !.at = "next", !.todo = open, !.wide = TRUE]
    <3>1. r \in ProcState
      BY <1>1, <1>2
    <3>2. r.at = "next"
      BY <1>1 DEF ProcState
    <3> QED
      BY <2>2, <3>1, <3>2
  <2> QED
    BY <2>1, <2>2 DEF Fire
<1>4. UNCHANGED <<open, status, row, venue, sync, faults, excused>> /\ armed' \in SUBSET Rule
  BY DEF Fire, Inv, TypeOK
<1>5. proc' \in [Proc -> ProcState] /\ InHand' /\ HeardIsFilled' /\ ClosedIsFilled'
  BY <1>1, <1>3, <1>4, QuietKeeps
<1>6. TypeOK'
  BY <1>4, <1>5 DEF Inv, TypeOK, ProcState
<1> QED
  BY <1>5, <1>6 DEF Inv

\* A click takes up its legs (POST close).
LEMMA AskKeeps == ASSUME Inv, NEW p \in Click, Ask(p) PROVE Inv'
<1>1. p \in Proc /\ open \subseteq Leg /\ Idle \in ProcState
  BY Resting DEF Inv, TypeOK, Proc
<1>2. \A legs \in SUBSET Leg :
        /\ [Idle EXCEPT !.at = "next", !.todo = legs] \in ProcState
        /\ [Idle EXCEPT !.at = "next", !.todo = legs, !.wide = TRUE] \in ProcState
  BY <1>1 DEF ProcState
<1>3. PICK r \in ProcState : r.at = "next" /\ proc' = [proc EXCEPT ![p] = r]
  <2>1. CASE \E l \in Leg : proc' = [proc EXCEPT ![p] = [Idle EXCEPT !.at = "next", !.todo = {l}]]
    <3>1. PICK l \in Leg : proc' = [proc EXCEPT ![p] = [Idle EXCEPT !.at = "next", !.todo = {l}]]
      BY <2>1
    <3> DEFINE r == [Idle EXCEPT !.at = "next", !.todo = {l}]
    <3>2. r \in ProcState
      BY <1>1, <1>2
    <3>3. r.at = "next"
      BY <1>1 DEF ProcState
    <3> QED
      BY <3>1, <3>2, <3>3
  <2>2. CASE proc' = [proc EXCEPT ![p] =
                       [Idle EXCEPT !.at = "next", !.todo = open, !.wide = TRUE]]
    <3> DEFINE r == [Idle EXCEPT !.at = "next", !.todo = open, !.wide = TRUE]
    <3>1. r \in ProcState
      BY <1>1, <1>2
    <3>2. r.at = "next"
      BY <1>1 DEF ProcState
    <3> QED
      BY <2>2, <3>1, <3>2
  <2> QED
    BY <2>1, <2>2 DEF Ask
<1>4. UNCHANGED <<open, status, armed, row, venue, sync, faults, excused>>
  BY DEF Ask
<1>5. proc' \in [Proc -> ProcState] /\ InHand' /\ HeardIsFilled' /\ ClosedIsFilled'
  BY <1>1, <1>3, <1>4, QuietKeeps
<1>6. TypeOK'
  BY <1>4, <1>5 DEF Inv, TypeOK, ProcState
<1> QED
  BY <1>5, <1>6 DEF Inv

\* A leg is passed over, or taken in hand.
LEMMA NextLegKeeps == ASSUME Inv, NEW p \in Proc, NextLeg(p) PROVE Inv'
<1>1. proc \in [Proc -> ProcState] /\ proc[p] \in ProcState
  BY DEF Inv, TypeOK, ProcState
<1>2. PICK l \in Leg : (Skip(p, l) /\ UNCHANGED excused) \/ SetOut(p, l)
  <2>1. proc[p].todo \subseteq Leg
    BY <1>1 DEF ProcState
  <2>2. ShortsFirst(proc[p].todo) \subseteq Leg
    BY <2>1 DEF ShortsFirst
  <2> QED
    BY <2>1, <2>2 DEF NextLeg
<1>3. UNCHANGED <<open, status, armed, row, venue, sync, faults>> /\ proc[p].at = "next"
  BY DEF NextLeg
<1>4. excused' \in SUBSET Leg
  BY <1>2 DEF Skip, SetOut, Inv, TypeOK
<1>5. proc' \in [Proc -> ProcState] /\ InHand' /\ HeardIsFilled' /\ ClosedIsFilled'
  <2>1. CASE Skip(p, l)
    <3> DEFINE r == [proc[p] EXCEPT !.todo = @ \ {l}]
    <3>1. proc' = [proc EXCEPT ![p] = r]
      BY <2>1, <1>1 DEF Skip
    <3>2. r \in ProcState /\ r.at = "next"
      BY <1>1, <1>3 DEF ProcState
    <3> HIDE DEF r
    <3> QED
      BY <1>3, <3>1, <3>2, QuietKeeps
  <2>2. CASE SetOut(p, l)
    <3> DEFINE r == [proc[p] EXCEPT !.at = "send", !.leg = l, !.todo = @ \ {l}]
    <3>1. proc' = [proc EXCEPT ![p] = r]
      BY <2>2, <1>1 DEF SetOut
    <3>2. r \in ProcState /\ r.at = "send" /\ r.leg = l
      BY <1>1, <1>3 DEF ProcState
    <3> HIDE DEF r
    <3> QED
      BY <1>3, <3>1, <3>2, QuietKeeps
  <2> QED
    BY <1>2, <2>1, <2>2
<1>6. TypeOK'
  BY <1>3, <1>4, <1>5 DEF Inv, TypeOK, ProcState
<1> QED
  BY <1>5, <1>6 DEF Inv

\* An exit gets its number, within the bound.
LEMMA NumberKeeps == ASSUME Inv, NEW p \in Proc, Number(p) PROVE Inv'
<1>1. proc \in [Proc -> ProcState] /\ proc[p] \in ProcState
  BY DEF Inv, TypeOK, ProcState
<1>2. UNCHANGED <<open, status, armed, row, venue, sync, faults, excused>> /\ proc[p].at = "send"
  BY DEF Number
<1>3. proc' \in [Proc -> ProcState] /\ InHand' /\ HeardIsFilled' /\ ClosedIsFilled'
  <2>1. CASE /\ NextAttempt(proc[p].leg) \in Attempt
             /\ proc' = [proc EXCEPT ![p].at = "place", ![p].n = NextAttempt(proc[p].leg)]
    <3> DEFINE n == NextAttempt(proc[p].leg)
               r == [proc[p] EXCEPT !.at = "place", !.n = n]
    <3>1. n \in Attempt /\ n \in 0..MaxAttempt
      BY <2>1 DEF Attempt
    <3>2. proc' = [proc EXCEPT ![p] = r]
      BY <2>1, <1>1
    <3> HIDE DEF n
    <3>3. r \in ProcState /\ r.at = "place" /\ r.n = n /\ r.leg \in Leg
      BY <1>1, <1>2, <3>1 DEF ProcState, Inv, InHand
    <3> HIDE DEF r
    <3> QED
      BY <1>2, <3>1, <3>2, <3>3, QuietKeeps
  <2>2. CASE proc' = [proc EXCEPT ![p] = GivenUp(p)]
    <3>1. GivenUp(p) \in ProcState /\ GivenUp(p).at \in {"idle", "done", "next"}
      BY Resting DEF Inv
    <3> QED
      BY <1>2, <2>2, <3>1, QuietKeeps
  <2> QED
    BY <2>1, <2>2 DEF Number
<1>4. TypeOK'
  BY <1>2, <1>3 DEF Inv, TypeOK, ProcState
<1> QED
  BY <1>3, <1>4 DEF Inv

\* Ends and deaths leave nothing in hand.
LEMMA EndKeeps == ASSUME Inv, NEW p \in Proc, End(p) PROVE Inv'
<1>1. Over(p) \in ProcState /\ Over(p).at \in {"idle", "done"}
  BY Resting DEF Inv
<1>2. UNCHANGED <<open, row, venue, sync, faults, excused>>
      /\ proc' = [proc EXCEPT ![p] = Over(p)]
  BY DEF End
<1>3. status' \in {"live", "archived"} /\ armed' \in SUBSET Rule
  BY DEF End, Inv, TypeOK
<1>4. proc' \in [Proc -> ProcState] /\ InHand' /\ HeardIsFilled' /\ ClosedIsFilled'
  BY <1>1, <1>2, QuietKeeps
<1>5. TypeOK'
  BY <1>2, <1>3, <1>4 DEF Inv, TypeOK, ProcState
<1> QED
  BY <1>4, <1>5 DEF Inv

\* Faults are counted up to their bound.
LEMMA FaultCounts == ASSUME TypeOK, Fault PROVE faults' \in 0..MaxFaults
BY BoundAssumption DEF TypeOK, Fault

\* A process that dies forgets what it had in hand.
LEMMA DieKeeps == ASSUME Inv, NEW p \in Proc, Die(p) PROVE Inv'
<1>1. Over(p) \in ProcState /\ Over(p).at \in {"idle", "done"}
  BY Resting DEF Inv
<1>2. UNCHANGED <<open, status, armed, row, venue, sync>>
      /\ proc' = [proc EXCEPT ![p] = Over(p)]
  BY DEF Die
<1>3. excused' \in SUBSET Leg
  BY DEF Die, Inv, TypeOK, InHand
<1>4. proc' \in [Proc -> ProcState] /\ InHand' /\ HeardIsFilled' /\ ClosedIsFilled'
  BY <1>1, <1>2, QuietKeeps
<1>5. faults' \in 0..MaxFaults
  BY FaultCounts DEF Die, Inv
<1>6. TypeOK'
  BY <1>2, <1>3, <1>4, <1>5 DEF Inv, TypeOK, ProcState
<1> QED
  BY <1>4, <1>6 DEF Inv

\* What the exchange says to an order is what it did, or that nothing was heard.
LEMMA PlaceSays ==
  ASSUME Inv, NEW p \in Proc, Place(p)
  PROVE  \E order \in {"none", "resting", "filled", "cancelled"},
            got \in {"filled", "pending", "unknown", "refused", "final"} :
           /\ venue[proc[p].leg][proc[p].n] = "filled" => order = "filled"
           /\ got = "filled" => order = "filled"
           /\ venue' = [venue EXCEPT ![proc[p].leg][proc[p].n] = order]
           /\ proc' = [proc EXCEPT ![p].at = "record", ![p].got = got]
<1>1. proc[p].leg \in Leg /\ proc[p].n \in Attempt
  BY DEF Inv, InHand, Place
<1>2. venue[proc[p].leg][proc[p].n] \in {"none", "resting", "filled", "cancelled"}
  BY <1>1 DEF Inv, TypeOK
<1> QED
  BY <1>2 DEF Place

\* The exchange's answer is the truth, or none.
LEMMA PlaceKeeps == ASSUME Inv, NEW p \in Proc, Place(p) PROVE Inv'
<1>1. proc \in [Proc -> ProcState] /\ proc[p] \in ProcState /\ proc[p].at = "place"
  BY DEF Inv, TypeOK, ProcState, Place
<1>2. UNCHANGED <<open, status, armed, row, sync, excused>> /\ faults' \in 0..MaxFaults
  BY FaultCounts DEF Place, Inv, TypeOK
<1> DEFINE l == proc[p].leg
           n == proc[p].n
<1>3. l \in Leg /\ n \in Attempt
  BY <1>1 DEF Inv, InHand
<1>4. PICK order \in {"none", "resting", "filled", "cancelled"},
           got \in {"filled", "pending", "unknown", "refused", "final"} :
           /\ venue[l][n] = "filled" => order = "filled"
           /\ got = "filled" => order = "filled"
           /\ venue' = [venue EXCEPT ![l][n] = order]
           /\ proc' = [proc EXCEPT ![p].at = "record", ![p].got = got]
  BY PlaceSays
<1> DEFINE r == [proc[p] EXCEPT !.at = "record", !.got = got]
<1>5. r \in ProcState /\ r.at = "record" /\ r.got = got /\ r.leg = l /\ r.n = n
  BY <1>1 DEF ProcState
<1>6. proc' = [proc EXCEPT ![p] = r]
  BY <1>1, <1>4
<1> HIDE DEF r, l, n
<1>7. /\ venue' \in [Leg -> [Attempt -> {"none", "resting", "filled", "cancelled"}]]
      /\ Filled \subseteq Filled'
      /\ order = "filled" => l \in Filled'
  BY <1>3, <1>4, FillsStay DEF Inv
<1>8. proc' \in [Proc -> ProcState] /\ InHand' /\ HeardIsFilled'
  BY <1>2, <1>3, <1>4, <1>5, <1>6, <1>7, MovesKeep
<1>9. ClosedIsFilled'
  BY <1>2, <1>7, ClosedMeans DEF Inv, ClosedIsFilled, Filled
<1>10. TypeOK'
  BY <1>2, <1>7, <1>8 DEF Inv, TypeOK, ProcState
<1> QED
  BY <1>8, <1>9, <1>10 DEF Inv

\* After an attempt a process keeps what it has in hand, and books only a fill.
LEMMA AfterIs ==
  ASSUME Inv, NEW p \in Proc, proc[p].at = "record",
         NEW got \in {"filled", "pending", "unknown", "refused", "final"},
         got = "filled" => proc[p].got = "filled"
  PROVE  /\ After(p, got) \in ProcState
         /\ After(p, got).at \in {"send", "place", "record", "book"}
              => After(p, got).leg \in Leg
         /\ After(p, got).at \notin {"place", "record"}
         /\ After(p, got).at = "book" => After(p, got).leg \in Filled
<1>1. proc[p] \in ProcState /\ proc[p].leg \in Leg
  BY DEF Inv, TypeOK, ProcState, InHand
<1>2. GivenUp(p) \in ProcState /\ GivenUp(p).at \in {"idle", "done", "next"}
  BY Resting DEF Inv
<1>3. CASE got = "filled"
  <2>1. After(p, got) = [proc[p] EXCEPT !.at = "book"]
    BY <1>3 DEF After, Done
  <2>2. After(p, got) \in ProcState /\ After(p, got).at = "book"
        /\ After(p, got).leg = proc[p].leg
    BY <1>1, <2>1 DEF ProcState
  <2>3. proc[p].leg \in Filled
    BY <1>3 DEF Inv, HeardIsFilled
  <2> QED
    BY <1>1, <2>2, <2>3
<1>4. CASE got = "refused" /\ p \in Pass /\ TriesLeft(p)
  <2>1. After(p, got) = [proc[p] EXCEPT !.at = "send", !.tries = @ + 1, !.n = 0]
    BY <1>4 DEF After, Done
  <2>2. proc[p].tries + 1 \in 0..(Tries - 1)
    BY <1>1, <1>4, TriesAssumption DEF TriesLeft, ProcState
  <2>3. 0 \in 0..MaxAttempt
    BY BoundAssumption
  <2>4. After(p, got) \in ProcState /\ After(p, got).at = "send"
        /\ After(p, got).leg = proc[p].leg
    BY <1>1, <2>1, <2>2, <2>3 DEF ProcState
  <2> QED
    BY <1>1, <2>4
<1>5. CASE got # "filled" /\ ~(got = "refused" /\ p \in Pass /\ TriesLeft(p))
  <2>1. After(p, got) = GivenUp(p)
    BY <1>5 DEF After, Done
  <2> QED
    BY <1>2, <2>1
<1> QED
  BY <1>3, <1>4, <1>5

\* Only who heard of a fill goes on to book it.
LEMMA RecordKeeps == ASSUME Inv, NEW p \in Proc, Record(p) PROVE Inv'
<1> DEFINE l == proc[p].leg
           n == proc[p].n
           heard == proc[p].got
<1>1. proc[p].at = "record" /\ l \in Leg /\ n \in Attempt
      /\ heard \in {"filled", "pending", "unknown", "refused", "final"}
  BY DEF Inv, TypeOK, InHand, Record
<1>2. UNCHANGED <<open, status, armed, venue, sync>> /\ faults' \in 0..MaxFaults
      /\ excused' \in SUBSET Leg
  BY <1>1, FaultCounts DEF Record, Inv, TypeOK
<1>3. row' \in [Leg -> [Attempt -> {"none", "pending", "unseen", "closed", "failed"}]]
  <2>1. RowOf(heard) \in {"none", "pending", "unseen", "closed", "failed"}
    BY DEF RowOf
  <2> DEFINE state == RowOf(heard)
  <2>2. row' = row \/ row' = [row EXCEPT ![l][n] = state]
    BY DEF Record
  <2>3. row \in [Leg -> [Attempt -> {"none", "pending", "unseen", "closed", "failed"}]]
    BY DEF Inv, TypeOK
  <2> HIDE DEF l, n, heard, state
  <2>4. CASE row' = [row EXCEPT ![l][n] = state]
    BY <1>1, <2>1, <2>3, <2>4 DEF state
  <2> QED
    BY <2>2, <2>3, <2>4
<1>4. PICK got \in {"filled", "pending", "unknown", "refused", "final"} :
        (got = "filled" => heard = "filled") /\ proc' = [proc EXCEPT ![p] = After(p, got)]
  <2>1. CASE proc' = [proc EXCEPT ![p] = After(p, heard)]
    BY <1>1, <2>1
  <2>2. CASE proc' = [proc EXCEPT ![p] =
               After(p, IF heard \in {"filled", "pending"} THEN "unknown" ELSE heard)]
    BY <1>1, <2>2
  <2> QED
    BY <2>1, <2>2 DEF Record
<1>5. /\ After(p, got) \in ProcState
      /\ After(p, got).at \in {"send", "place", "record", "book"} => After(p, got).leg \in Leg
      /\ After(p, got).at \notin {"place", "record"}
      /\ After(p, got).at = "book" => After(p, got).leg \in Filled
  BY <1>1, <1>4, AfterIs
<1>6. proc' \in [Proc -> ProcState] /\ InHand' /\ HeardIsFilled' /\ ClosedIsFilled'
  BY <1>2, <1>4, <1>5, QuietKeeps
<1>7. TypeOK'
  BY <1>2, <1>3, <1>6 DEF Inv, TypeOK, ProcState
<1> QED
  BY <1>6, <1>7 DEF Inv

\* A leg is closed by somebody who heard of its fill.
LEMMA BookKeeps == ASSUME Inv, NEW p \in Proc, Book(p) PROVE Inv'
<1>1. proc[p].at = "book" /\ proc[p].leg \in Leg /\ proc[p].leg \in Filled
  BY DEF Inv, InHand, HeardIsFilled, Book
<1>2. /\ UNCHANGED <<status, armed, row, venue, sync>>
      /\ faults' \in 0..MaxFaults
      /\ excused' \in SUBSET Leg
      /\ open' \in SUBSET Leg
      /\ open \ open' \subseteq {proc[p].leg}
  BY <1>1, FaultCounts DEF Book, Inv, TypeOK
<1>3. PICK r \in ProcState : r.at \in {"idle", "done", "next"} /\ proc' = [proc EXCEPT ![p] = r]
  <2>1. /\ Over(p) \in ProcState /\ Over(p).at \in {"idle", "done"}
        /\ GoOn(p) \in ProcState /\ GoOn(p).at = "next"
        /\ GivenUp(p) \in ProcState /\ GivenUp(p).at \in {"idle", "done", "next"}
    BY Resting DEF Inv
  <2>2. \/ proc' = [proc EXCEPT ![p] = Over(p)]
        \/ proc' = [proc EXCEPT ![p] = GoOn(p)]
        \/ proc' = [proc EXCEPT ![p] = GivenUp(p)]
    BY DEF Book
  <2> QED
    BY <2>1, <2>2
<1>4. Filled' = Filled
  BY <1>2 DEF Filled
<1>5. proc' \in [Proc -> ProcState] /\ InHand' /\ HeardIsFilled'
  BY <1>2, <1>3, <1>4, MovesKeep
<1>6. ClosedIsFilled'
  BY <1>1, <1>2 DEF Inv, ClosedIsFilled, Filled
<1>7. TypeOK'
  BY <1>2, <1>5 DEF Inv, TypeOK, ProcState
<1> QED
  BY <1>5, <1>6, <1>7 DEF Inv

\* No fill is undone.
LEMMA VenueKeeps == ASSUME Inv, VenueMoves PROVE Inv'
<1>1. UNCHANGED <<open, status, armed, row, proc, sync, faults, excused>>
  BY DEF VenueMoves
<1>2. PICK l \in Leg, n \in Attempt, to \in {"filled", "cancelled"} :
        venue[l][n] = "resting" /\ venue' = [venue EXCEPT ![l][n] = to]
  BY DEF VenueMoves
<1>3. /\ venue' \in [Leg -> [Attempt -> {"none", "resting", "filled", "cancelled"}]]
      /\ Filled \subseteq Filled'
  BY <1>2, FillsStay DEF Inv
<1>4. InHand' /\ HeardIsFilled' /\ ClosedIsFilled'
  <2>1. InHand'
    BY <1>1 DEF Inv, InHand
  <2>2. HeardIsFilled'
    BY <1>1, <1>3 DEF Inv, HeardIsFilled
  <2>3. ClosedIsFilled'
    BY <1>1, <1>3 DEF Inv, ClosedIsFilled, Filled
  <2> QED
    BY <2>1, <2>2, <2>3
<1>5. TypeOK'
  BY <1>1, <1>3 DEF Inv, TypeOK
<1> QED
  BY <1>4, <1>5 DEF Inv

-----------------------------------------------------------------------------
SyncState == [on : BOOLEAN, rows : SUBSET (Leg \X Attempt \X BOOLEAN),
              fills : SUBSET Leg, booked : BOOLEAN]

\* A step of the reconciler that brings no fill but of an order that filled.
LEMMA SyncMoves ==
  ASSUME Inv, sync' \in SyncState, sync'.fills \subseteq Filled, UNCHANGED <<venue, proc>>
  PROVE  InHand' /\ HeardIsFilled'
<1>1. Filled' = Filled
  BY DEF Filled
<1> QED
  BY <1>1 DEF Inv, InHand, HeardIsFilled

\* The steps of the reconciler, who notes a fill only of an order that filled.
LEMMA AsleepFits == Asleep \in SyncState /\ Asleep.fills = {}
BY DEF Asleep, SyncState

\* The sync reads which rows are pending.
LEMMA SyncStartKeeps == ASSUME Inv, SyncStart PROVE Inv'
<1> DEFINE rows == {<<o[1], o[2], row[o[1]][o[2]] = "pending">> : o \in
              {ln \in Leg \X Attempt : row[ln[1]][ln[2]] \in {"pending", "unseen"}}}
<1>1. UNCHANGED <<open, status, armed, row, venue, proc, faults, excused>>
      /\ sync' = [Asleep EXCEPT !.on = TRUE, !.rows = rows]
  BY DEF SyncStart
<1>2. rows \subseteq Leg \X Attempt \X BOOLEAN
  <2>1. ASSUME NEW o \in Leg \X Attempt
        PROVE  <<o[1], o[2], row[o[1]][o[2]] = "pending">> \in Leg \X Attempt \X BOOLEAN
    <3>1. o[1] \in Leg /\ o[2] \in Attempt /\ (row[o[1]][o[2]] = "pending") \in BOOLEAN
      OBVIOUS
    <3> QED
      BY <3>1
  <2> QED
    BY <2>1
<1> HIDE DEF rows
<1>3. sync' \in SyncState /\ sync'.fills = {}
  BY <1>1, <1>2 DEF Asleep, SyncState
<1>4. InHand' /\ HeardIsFilled'
  BY <1>1, <1>3, SyncMoves
<1>5. ClosedIsFilled' /\ TypeOK'
  BY <1>1, <1>3 DEF Inv, ClosedIsFilled, TypeOK, SyncState
<1> QED
  BY <1>4, <1>5 DEF Inv

\* A row of the reconciler's becomes something; a fill is noted only of an order that filled.
LEMMA SyncRowIs ==
  ASSUME Inv, SyncRow
  PROVE  \E o \in sync.rows, state \in {"none", "pending", "unseen", "closed", "failed"},
            fills \in SUBSET Leg :
           /\ o[1] \in Leg /\ o[2] \in Attempt
           /\ fills \subseteq Filled
           /\ row' = [row EXCEPT ![o[1]][o[2]] = state]
           /\ sync' = [sync EXCEPT !.rows = @ \ {o}, !.fills = @ \cup fills]
           /\ excused' \in SUBSET Leg
<1>1. PICK o \in sync.rows :
        LET l == o[1]
            n == o[2]
            known == o[3]
            order == venue[l][n]
            becomes(state, fills) ==
                /\ row' = [row EXCEPT ![l][n] = state]
                /\ sync' = [sync EXCEPT !.rows = @ \ {o}, !.fills = @ \cup fills]
                /\ excused' = IF state = "failed" /\ n \in Alive(l)
                              THEN excused \cup {l} ELSE excused
        IN  \/ known /\ order = "filled" /\ becomes("closed", {l})
            \/ known /\ order = "cancelled" /\ becomes("failed", {})
            \/ known /\ order = "resting" /\ becomes(row[l][n], {})
            \/ ~known /\ order = "resting" /\ becomes("pending", {})
            \/ ~known /\ order # "resting" /\ becomes("failed", {})
            \/ becomes(IF known THEN row[l][n] ELSE "failed", {})
  BY DEF SyncRow
<1>2. o \in Leg \X Attempt \X BOOLEAN
  BY DEF Inv, TypeOK
<1>3. o[1] \in Leg /\ o[2] \in Attempt
  BY <1>2
<1>4. row[o[1]][o[2]] \in {"none", "pending", "unseen", "closed", "failed"}
  BY <1>3 DEF Inv, TypeOK
<1>5. excused' \in SUBSET Leg
  BY <1>1, <1>3 DEF Inv, TypeOK
<1>6. venue[o[1]][o[2]] = "filled" => {o[1]} \subseteq Filled
  BY <1>3 DEF Filled
<1>7. \E state \in {"none", "pending", "unseen", "closed", "failed"}, fills \in SUBSET Leg :
           /\ fills \subseteq Filled
           /\ row' = [row EXCEPT ![o[1]][o[2]] = state]
           /\ sync' = [sync EXCEPT !.rows = @ \ {o}, !.fills = @ \cup fills]
  BY <1>1, <1>3, <1>4, <1>6
<1> QED
  BY <1>3, <1>5, <1>7

\* The sync writes a row as the exchange answered: it heard the truth.
LEMMA SyncRowKeeps == ASSUME Inv, SyncRow PROVE Inv'
<1>1. PICK o \in sync.rows, state \in {"none", "pending", "unseen", "closed", "failed"},
           fills \in SUBSET Leg :
        /\ o[1] \in Leg /\ o[2] \in Attempt
        /\ fills \subseteq Filled
        /\ row' = [row EXCEPT ![o[1]][o[2]] = state]
        /\ sync' = [sync EXCEPT !.rows = @ \ {o}, !.fills = @ \cup fills]
        /\ excused' \in SUBSET Leg
  BY SyncRowIs
<1>2. UNCHANGED <<open, status, armed, venue, proc>> /\ faults' \in 0..MaxFaults
  BY FaultCounts DEF SyncRow, Inv, TypeOK
<1>3. sync' \in SyncState /\ sync'.fills = sync.fills \cup fills
  BY <1>1 DEF Inv, TypeOK, SyncState
<1>4. row' \in [Leg -> [Attempt -> {"none", "pending", "unseen", "closed", "failed"}]]
  <2> DEFINE l == o[1]
             n == o[2]
  <2>1. l \in Leg /\ n \in Attempt /\ row' = [row EXCEPT ![l][n] = state]
    BY <1>1
  <2> HIDE DEF l, n
  <2> QED
    BY <2>1 DEF Inv, TypeOK
<1>5. InHand' /\ HeardIsFilled'
  BY <1>1, <1>2, <1>3, SyncMoves DEF Inv, HeardIsFilled
<1>6. ClosedIsFilled'
  BY <1>2 DEF Inv, ClosedIsFilled
<1>7. TypeOK'
  BY <1>1, <1>2, <1>3, <1>4 DEF Inv, TypeOK, SyncState
<1> QED
  BY <1>5, <1>6, <1>7 DEF Inv

\* The sync books the leg of a row it found filled.
LEMMA SyncBookKeeps == ASSUME Inv, SyncBook PROVE Inv'
<1>1. PICK l \in sync.fills, how \in BOOLEAN :
        /\ sync' = [sync EXCEPT !.fills = @ \ {l}, !.booked = @ \/ how]
        /\ open' = open \/ open' = open \ {l}
        /\ excused' \in {excused, excused \cup {l}}
  BY DEF SyncBook
<1>2. l \in Leg /\ l \in Filled
  BY DEF Inv, TypeOK, HeardIsFilled
<1>3. UNCHANGED <<status, armed, row, venue, proc>> /\ faults' \in 0..MaxFaults
  BY FaultCounts DEF SyncBook, Inv, TypeOK
<1>4. sync' \in SyncState /\ sync'.fills \subseteq sync.fills
  <2>1. (sync.booked \/ how) \in BOOLEAN
    OBVIOUS
  <2> QED
    BY <1>1, <2>1 DEF Inv, TypeOK, SyncState
<1>5. InHand' /\ HeardIsFilled'
  BY <1>3, <1>4, SyncMoves DEF Inv, HeardIsFilled
<1>6. ClosedIsFilled'
  BY <1>1, <1>2, <1>3 DEF Inv, ClosedIsFilled, Filled
<1>7. TypeOK'
  BY <1>1, <1>2, <1>3, <1>4 DEF Inv, TypeOK, SyncState
<1> QED
  BY <1>5, <1>6, <1>7 DEF Inv

\* The sync ends its pass or dies.
LEMMA SyncStopsKeep == ASSUME Inv, SyncEnd \/ SyncDies PROVE Inv'
<1>1. UNCHANGED <<open, row, venue, proc>> /\ sync' = Asleep
  BY DEF SyncEnd, SyncDies
<1>2. /\ status' \in {"live", "archived"} /\ armed' \in SUBSET Rule
      /\ faults' \in 0..MaxFaults /\ excused' \in SUBSET Leg
  BY FaultCounts DEF SyncEnd, SyncDies, Inv, TypeOK
<1>3. InHand' /\ HeardIsFilled'
  BY <1>1, AsleepFits, SyncMoves
<1>4. ClosedIsFilled' /\ TypeOK'
  BY <1>1, <1>2, AsleepFits DEF Inv, ClosedIsFilled, TypeOK, SyncState
<1> QED
  BY <1>3, <1>4 DEF Inv

-----------------------------------------------------------------------------
\* The invariant holds at first, is kept by every step, and so holds.
LEMMA InitOK == Init => Inv
<1> SUFFICES ASSUME Init PROVE Inv
  OBVIOUS
<1>1. Idle \in ProcState /\ Idle.at = "idle"
  BY TriesAssumption, BoundAssumption DEF Idle, ProcState
<1>2. proc = [p \in Proc |-> Idle] /\ sync = Asleep
  BY DEF Init
<1>3. TypeOK
  BY <1>1, <1>2, AsleepFits, BoundAssumption DEF Init, TypeOK, ProcState, SyncState
<1>4. InHand /\ HeardIsFilled /\ ClosedIsFilled
  BY <1>1, <1>2, AsleepFits DEF Init, InHand, HeardIsFilled, ClosedIsFilled
<1> QED
  BY <1>3, <1>4 DEF Inv

\* Every step keeps the invariant.
LEMMA NextOK == Inv /\ [Next]_vars => Inv'
<1> SUFFICES ASSUME Inv, [Next]_vars PROVE Inv'
  OBVIOUS
<1>1. CASE UNCHANGED vars
  <2>1. TypeOK'
    BY <1>1 DEF vars, Inv, TypeOK
  <2>2. InHand' /\ HeardIsFilled' /\ ClosedIsFilled'
    BY <1>1 DEF vars, Inv, InHand, HeardIsFilled, ClosedIsFilled, Filled
  <2> QED
    BY <2>1, <2>2 DEF Inv
<1>2. CASE \E p \in Pass, r \in Rule : Fire(p, r)
  BY <1>2, FireKeeps
<1>3. CASE \E p \in Click : Ask(p)
  BY <1>3, AskKeeps
<1>4. CASE \E p \in Proc : NextLeg(p) \/ Number(p) \/ Place(p) \/ Record(p) \/ Book(p)
                           \/ End(p) \/ Die(p)
  BY <1>4, NextLegKeeps, NumberKeeps, PlaceKeeps, RecordKeeps, BookKeeps, EndKeeps, DieKeeps
<1>5. CASE VenueMoves
  BY <1>5, VenueKeeps
<1>6. CASE Sync
  BY <1>6, SyncStartKeeps, SyncRowKeeps, SyncBookKeeps, SyncStopsKeep DEF Sync
<1> QED
  BY <1>1, <1>2, <1>3, <1>4, <1>5, <1>6 DEF Next

\* The invariant holds at all times.
LEMMA InvHolds == Spec => []Inv
BY InitOK, NextOK, PTL DEF Spec

(* Legs, rules, orders, processes and the reconciler keep their types, for *)
(* any number of legs, of passes and of clicks at a time                   *)
(* (rules-engine.ts, strategies.ts, live-reconcile.ts).                    *)
THEOREM TypeCorrect == Spec => []TypeOK
<1>1. Inv => TypeOK
  BY DEF Inv
<1> QED
  BY <1>1, InvHolds, PTL

(* Whoever closes a leg in the books (the engine, a click, the order       *)
(* sync), whatever was lost, retried or died before: an exit of that leg   *)
(* had filled at the exchange.                                             *)
THEOREM ClosedCorrect == Spec => []ClosedIsFilled
<1>1. Inv => ClosedIsFilled
  BY DEF Inv
<1> QED
  BY <1>1, InvHolds, PTL

-----------------------------------------------------------------------------
(* What the books know of the orders of a leg that was not excused: what   *)
(* makes Accounted inductive, and with it EngineSendsNoSecond.             *)

\* One process at a time has the leg in hand.
OneAtWork(l) == \A p, q \in AtWork(l) : p = q

\* A good order has a row, or is about to be recorded.
InSight(l) ==
    \A n \in Alive(l) :
      row[l][n] # "none" \/ \E p \in AtWork(l) : proc[p].at = "record" /\ proc[p].n = n

\* A number that is sent is new to the books.
NewNumber(l) == \A p \in AtWork(l) : proc[p].at = "place" => row[l][proc[p].n] = "none"

\* An order that was refused is none.
RefusedIsNone(l) ==
    \A p \in AtWork(l) :
      proc[p].at = "record" /\ proc[p].got \in {"refused", "final"} => proc[p].n \notin Alive(l)

\* The engine sends where there is no good order.
FirstOfLeg(l) ==
    \A p \in AtWork(l) \cap Pass :
      /\ proc[p].at \in {"send", "place"} => Alive(l) = {}
      /\ proc[p].at = "record" => Alive(l) \subseteq {proc[p].n}

AccountedFor(l) ==
    l \in open => \A n \in Alive(l) :
      \/ row[l][n] \in {"pending", "unseen"}
      \/ \E p \in AtWork(l) : proc[p].n = n /\ proc[p].at \in {"record", "book"}
      \/ l \in sync.fills

Sound(l) ==
    /\ OneAtWork(l) /\ InSight(l) /\ NewNumber(l)
    /\ RefusedIsNone(l) /\ FirstOfLeg(l) /\ AccountedFor(l)

\* What the reconciler asks for has a row, and who has not set out has no leg in hand.
RowsAreThere == \A o \in sync.rows : row[o[1]][o[2]] # "none"
EmptyHanded == \A p \in Proc : proc[p].at \in {"idle", "done", "next"} => proc[p].leg = None

Books == RowsAreThere /\ EmptyHanded /\ \A l \in Leg \ excused : Sound(l)

-----------------------------------------------------------------------------
\* A set of naturals that is not empty has a least element.
LEMMA SmallestOf ==
  ASSUME NEW S \in SUBSET Nat, S # {}
  PROVE  \E x \in S : \A y \in S : x <= y
<1>1. IsWellFoundedOn(OpToRel(<, Nat), Nat)
  BY NatLessThanWellFounded
<1>2. PICK x \in S : \A y \in S : <<y, x>> \notin OpToRel(<, Nat)
  BY <1>1, WFMin
<1>3. \A y \in S : ~(y < x)
  BY <1>2 DEF OpToRel
<1> QED
  BY <1>3

\* A bounded one has a greatest: Max is it.
LEMMA LargestOf ==
  ASSUME NEW b \in Nat, NEW S \in SUBSET (0..b), S # {}
  PROVE  Max(S) \in S /\ \A y \in S : y <= Max(S)
<1> DEFINE T == {n \in Nat : \A s \in S : s <= n}
<1>1. PICK m \in T : \A n \in T : m <= n
  <2>1. T \in SUBSET Nat /\ b \in T
    OBVIOUS
  <2> HIDE DEF T
  <2> QED
    BY <2>1, SmallestOf
<1>2. m \in S
  <2> SUFFICES ASSUME m \notin S PROVE FALSE
    OBVIOUS
  <2>1. \A s \in S : s \in Nat /\ s <= m - 1
    OBVIOUS
  <2>2. PICK s \in S : TRUE
    OBVIOUS
  <2>3. m - 1 \in Nat
    BY <2>1, <2>2
  <2> QED
    BY <1>1, <2>1, <2>3
<1>3. Max(S) \in S /\ \A y \in S : Max(S) >= y
  BY <1>2 DEF Max
<1> QED
  BY <1>3

\* The next number of a leg is none of its rows'.
LEMMA NextIsNew ==
  ASSUME NEW l \in Leg, NextAttempt(l) \in Attempt
  PROVE  row[l][NextAttempt(l)] = "none"
<1> DEFINE S == Numbers(l) \cup {0}
           m == Max(S)
<1>1. S \in SUBSET (0..MaxAttempt) /\ S # {} /\ MaxAttempt \in Nat
  BY BoundAssumption DEF Numbers, Attempt
<1>2. NextAttempt(l) = m + 1
  BY DEF NextAttempt
<1>3. m \in S /\ \A n \in S : n <= m
  <2> HIDE DEF S
  <2> QED
    BY <1>1, LargestOf
<1>4. m \in Nat /\ S \subseteq Nat
  BY <1>1, <1>3
<1> HIDE DEF m
<1>5. m + 1 \notin S
  <2> HIDE DEF S
  <2> QED
    BY <1>3, <1>4
<1> QED
  BY <1>2, <1>5 DEF Numbers

-----------------------------------------------------------------------------
(* Each action keeps the books: lemmas on what becomes of one leg first.   *)

\* In a step of one process the others keep what they have in hand.
LEMMA HandsAre ==
  ASSUME TypeOK, NEW p \in Proc, NEW r, proc' = [proc EXCEPT ![p] = r]
  PROVE  /\ proc'[p] = r
         /\ \A q \in Proc : q # p => proc'[q] = proc[q]
         /\ \A l \in Leg : r.leg = l => AtWork(l)' = AtWork(l) \cup {p}
         /\ \A l \in Leg : r.leg # l => AtWork(l)' = AtWork(l) \ {p}
<1>1. proc'[p] = r /\ \A q \in Proc : q # p => proc'[q] = proc[q]
  BY DEF TypeOK
<1> QED
  BY <1>1 DEF AtWork

\* A leg whose hands, rows and fills stay, and whose good orders become no more.
LEMMA Untouched ==
  ASSUME NEW l \in Leg, Sound(l),
         AtWork(l)' = AtWork(l), \A p \in AtWork(l) : proc'[p] = proc[p],
         Alive(l)' \subseteq Alive(l), row'[l] = row[l],
         l \in open' => l \in open,
         l \in sync.fills => l \in sync'.fills \/ l \notin open'
  PROVE  Sound(l)'
<1>1. OneAtWork(l)'
  BY DEF Sound, OneAtWork
<1>2. InSight(l)'
  BY DEF Sound, InSight
<1>3. NewNumber(l)' /\ RefusedIsNone(l)' /\ FirstOfLeg(l)'
  BY DEF Sound, NewNumber, RefusedIsNone, FirstOfLeg
<1>4. AccountedFor(l)'
  BY DEF Sound, AccountedFor
<1> QED
  BY <1>1, <1>2, <1>3, <1>4 DEF Sound

\* A leg that the process in question neither had nor takes in hand.
LEMMA Elsewhere ==
  ASSUME TypeOK, NEW l \in Leg, Sound(l),
         NEW p \in Proc, NEW r, proc' = [proc EXCEPT ![p] = r], proc[p].leg # l, r.leg # l,
         Alive(l)' \subseteq Alive(l), row'[l] = row[l],
         open' \subseteq open, UNCHANGED sync
  PROVE  Sound(l)'
<1>1. AtWork(l)' = AtWork(l) /\ \A q \in AtWork(l) : proc'[q] = proc[q]
  BY HandsAre DEF AtWork
<1> QED
  BY <1>1, Untouched

\* A leg that is let go of, with no good order that only its holder knew.
LEMMA Leaves ==
  ASSUME TypeOK, NEW l \in Leg, Sound(l),
         NEW p \in Proc, NEW r, proc' = [proc EXCEPT ![p] = r], proc[p].leg = l, r.leg # l,
         proc[p].at = "record" \/ (proc[p].at = "book" /\ l \in open') => proc[p].n \notin Alive(l),
         open' \subseteq open, UNCHANGED <<row, venue, sync>>
  PROVE  Sound(l)'
<1>1. AtWork(l) = {p} /\ AtWork(l)' = {}
  <2>1. p \in AtWork(l)
    BY DEF AtWork
  <2>2. AtWork(l)' = AtWork(l) \ {p}
    BY HandsAre
  <2> QED
    BY <2>1, <2>2 DEF Sound, OneAtWork
<1>2. Alive(l)' = Alive(l)
  BY DEF Alive
<1>3. InSight(l)'
  BY <1>1, <1>2 DEF Sound, InSight
<1>4. AccountedFor(l)'
  BY <1>1, <1>2 DEF Sound, AccountedFor
<1> QED
  BY <1>1, <1>3, <1>4 DEF Sound, OneAtWork, NewNumber, RefusedIsNone, FirstOfLeg

\* Who has nothing in hand has none of the legs; so has one that goes on or is over.
LEMMA Emptied ==
  ASSUME Inv, NEW p \in Proc
  PROVE  /\ Over(p).leg = None /\ Over(p).at \in {"idle", "done"}
         /\ GoOn(p).leg = None /\ GoOn(p).at = "next"
         /\ GivenUp(p).leg = None /\ GivenUp(p).at \in {"idle", "done", "next"}
<1>1. Over(p).leg = None
  BY DEF Over, Idle
<1>2. GoOn(p).leg = None
  BY DEF GoOn, Idle
<1> QED
  BY <1>1, <1>2, Resting DEF Inv, GivenUp

\* A process that holds no leg, before or after, leaves them all as they were.
LEMMA QuietBooks ==
  ASSUME Inv, Books, NEW p \in Proc, NEW r, proc' = [proc EXCEPT ![p] = r],
         proc[p].leg = None, r.leg = None,
         UNCHANGED <<row, venue, sync, open, excused>>
  PROVE  Books'
<1>1. RowsAreThere'
  BY DEF Books, RowsAreThere
<1>2. EmptyHanded'
  BY HandsAre DEF Books, EmptyHanded, Inv
<1>3. ASSUME NEW l \in Leg \ excused PROVE Sound(l)'
  <2>1. Alive(l)' = Alive(l)
    BY DEF Alive
  <2> QED
    BY <2>1, Elsewhere, LegAssumption DEF Books, Inv
<1> QED
  BY <1>1, <1>2, <1>3 DEF Books

\* The engine sets out for legs of which no order is in sight.
LEMMA FireBooks == ASSUME Inv, Books, NEW p \in Pass, NEW k \in Rule, Fire(p, k) PROVE Books'
<1>1. p \in Proc /\ proc[p].leg = None
  <2>1. p \in Proc /\ proc[p] = Idle
    BY DEF Fire, Proc
  <2>2. Idle.leg = None
    BY DEF Idle
  <2> QED
    BY <2>1, <2>2
<1>2. \E r : r.leg = None /\ proc' = [proc EXCEPT ![p] = r]
  BY DEF Fire, Idle
<1>3. UNCHANGED <<row, venue, sync, open, excused>>
  BY DEF Fire
<1> QED
  BY <1>1, <1>2, <1>3, QuietBooks

\* A click sets out; a leg another works on is excused from then on.
LEMMA AskBooks == ASSUME Inv, Books, NEW p \in Click, Ask(p) PROVE Books'
<1>1. p \in Proc /\ proc[p].leg = None
  <2>1. p \in Proc /\ proc[p] = Idle
    BY DEF Ask, Proc
  <2>2. Idle.leg = None
    BY DEF Idle
  <2> QED
    BY <2>1, <2>2
<1>2. \E r : r.leg = None /\ proc' = [proc EXCEPT ![p] = r]
  BY DEF Ask, Idle
<1>3. UNCHANGED <<row, venue, sync, open, excused>>
  BY DEF Ask
<1> QED
  BY <1>1, <1>2, <1>3, QuietBooks

\* Who has no leg left ends his pass.
LEMMA EndBooks == ASSUME Inv, Books, NEW p \in Proc, End(p) PROVE Books'
<1>1. proc[p].leg = None /\ Over(p).leg = None
  BY Emptied DEF End, Books, EmptyHanded
<1>2. proc' = [proc EXCEPT ![p] = Over(p)] /\ UNCHANGED <<row, venue, sync, open, excused>>
  BY DEF End
<1> QED
  BY <1>1, <1>2, QuietBooks

\* Setting out for a leg nobody has in hand; the engine finds no good order of it.
LEMMA NextLegBooks == ASSUME Inv, Books, NEW p \in Proc, NextLeg(p) PROVE Books'
<1>1. proc[p].leg = None /\ proc[p].at = "next" /\ UNCHANGED <<open, row, venue, sync>>
  BY DEF NextLeg, Books, EmptyHanded
<1>2. proc[p] \in ProcState /\ proc[p].todo \subseteq Leg
  BY DEF Inv, TypeOK, ProcState
<1>3. PICK l \in Leg :
        \/ Skip(p, l) /\ UNCHANGED excused
        \/ SetOut(p, l) /\ (p \in Pass => Wanted(l))
  <2>1. ShortsFirst(proc[p].todo) \subseteq Leg
    BY <1>2 DEF ShortsFirst
  <2> QED
    BY <1>2, <2>1, ProcAssumption DEF NextLeg
<1>4. CASE Skip(p, l) /\ UNCHANGED excused
  <2>1. \E r : r.leg = None /\ proc' = [proc EXCEPT ![p] = r]
    BY <1>1, <1>2, <1>4 DEF Skip, ProcState
  <2> QED
    BY <1>1, <1>4, <2>1, QuietBooks
<1>5. CASE SetOut(p, l) /\ (p \in Pass => Wanted(l))
  <2> DEFINE r == [proc[p] EXCEPT !.at = "send", !.leg = l, !.todo = @ \ {l}]
  <2>1. proc' = [proc EXCEPT ![p] = r] /\ r.at = "send" /\ r.leg = l
    BY <1>2, <1>5 DEF SetOut, ProcState
  <2> HIDE DEF r
  <2>2. RowsAreThere' /\ EmptyHanded'
    BY <1>1, <2>1, HandsAre DEF Books, RowsAreThere, EmptyHanded, Inv
  <2>3. ASSUME NEW k \in Leg \ excused' PROVE Sound(k)'
    <3>1. Alive(k)' = Alive(k) /\ k \notin excused
      BY <1>1, <1>5 DEF Alive, SetOut
    <3>2. Sound(k)
      BY <3>1 DEF Books
    <3>3. CASE k # l
      BY <1>1, <2>1, <3>1, <3>2, <3>3, Elsewhere, LegAssumption DEF Inv
    <3>4. CASE k = l
      <4>1. AtWork(l) = {} /\ l \notin sync.fills
        BY <1>5, <3>4 DEF SetOut
      <4>2. AtWork(l)' = {p} /\ proc'[p] = r
        <5>1. AtWork(l)' = AtWork(l) \cup {p} /\ proc'[p] = r
          BY <2>1, HandsAre DEF Inv
        <5> QED
          BY <4>1, <5>1
      <4>3. p \in Pass => Alive(l) = {}
        BY <1>5, <3>2, <3>4, <4>1 DEF Wanted, Alive, Sound, AccountedFor
      <4>4. InSight(k)' /\ AccountedFor(k)'
        BY <1>1, <3>1, <3>2, <3>4, <4>1 DEF Sound, InSight, AccountedFor
      <4>5. OneAtWork(k)' /\ NewNumber(k)' /\ RefusedIsNone(k)' /\ FirstOfLeg(k)'
        BY <2>1, <3>1, <3>4, <4>2, <4>3 DEF OneAtWork, NewNumber, RefusedIsNone, FirstOfLeg
      <4> QED
        BY <4>4, <4>5 DEF Sound
    <3> QED
      BY <3>3, <3>4
  <2> QED
    BY <2>2, <2>3 DEF Books
<1> QED
  BY <1>3, <1>4, <1>5

\* A process that goes on with its leg or lets go of it: what to show of that leg.
LEMMA StaysWith ==
  ASSUME Inv, Books, NEW p \in Proc, NEW r, proc' = [proc EXCEPT ![p] = r],
         NEW l \in Leg, proc[p].leg = l, r.leg \in {l, None},
         r.at \in {"idle", "done", "next"} => r.leg = None,
         \A k \in Leg : k # l => venue'[k] = venue[k] /\ row'[k] = row[k],
         \A k \in Leg, n \in Attempt : row[k][n] # "none" => row'[k][n] # "none",
         UNCHANGED <<open, sync>>, excused \subseteq excused',
         Sound(l) /\ l \notin excused' => Sound(l)'
  PROVE  Books'
<1>1. RowsAreThere'
  <2>1. \A o \in sync.rows : o[1] \in Leg /\ o[2] \in Attempt
    BY DEF Inv, TypeOK
  <2> QED
    BY <2>1 DEF Books, RowsAreThere
<1>2. EmptyHanded'
  BY HandsAre DEF Books, EmptyHanded, Inv
<1>3. ASSUME NEW k \in Leg \ excused' PROVE Sound(k)'
  <2>1. Sound(k)
    BY DEF Books
  <2>2. CASE k # l
    <3>1. Alive(k)' = Alive(k)
      BY <2>2 DEF Alive
    <3> QED
      BY <2>1, <2>2, <3>1, Elsewhere, LegAssumption DEF Inv
  <2> QED
    BY <2>1, <2>2
<1> QED
  BY <1>1, <1>2, <1>3 DEF Books

\* A process that lets go of its leg.
LEMMA LetsGo ==
  ASSUME Inv, Books, NEW p \in Proc, NEW r, proc' = [proc EXCEPT ![p] = r], r.leg = None,
         excused \subseteq excused',
         proc[p].leg \notin excused' /\
           (proc[p].at = "record" \/ (proc[p].at = "book" /\ proc[p].leg \in open'))
             => proc[p].n \notin Alive(proc[p].leg),
         open' \subseteq open, UNCHANGED <<row, venue, sync>>
  PROVE  Books'
<1>1. RowsAreThere'
  BY DEF Books, RowsAreThere
<1>2. EmptyHanded'
  BY HandsAre DEF Books, EmptyHanded, Inv
<1>3. ASSUME NEW l \in Leg \ excused' PROVE Sound(l)'
  <2>1. Sound(l) /\ r.leg # l /\ Alive(l)' = Alive(l)
    BY LegAssumption DEF Books, Alive
  <2>2. CASE proc[p].leg # l
    BY <2>1, <2>2, Elsewhere DEF Inv
  <2>3. CASE proc[p].leg = l
    BY <2>1, <2>3, Leaves DEF Inv
  <2> QED
    BY <2>2, <2>3
<1> QED
  BY <1>1, <1>2, <1>3 DEF Books

\* A number that is new to the books.
LEMMA NumberBooks == ASSUME Inv, Books, NEW p \in Proc, Number(p) PROVE Books'
<1>1. PICK l \in Leg : l = proc[p].leg /\ proc[p].at = "send" /\ proc[p] \in ProcState
  BY DEF Number, Inv, TypeOK, InHand, ProcState
<1>2. UNCHANGED <<open, row, venue, sync, excused>>
  BY DEF Number
<1>3. CASE proc' = [proc EXCEPT ![p] = GivenUp(p)]
  BY <1>1, <1>2, <1>3, Emptied, LetsGo
<1>4. CASE /\ NextAttempt(l) \in Attempt
           /\ proc' = [proc EXCEPT ![p].at = "place", ![p].n = NextAttempt(l)]
  <2> DEFINE r == [proc[p] EXCEPT !.at = "place", !.n = NextAttempt(l)]
  <2>1. proc' = [proc EXCEPT ![p] = r] /\ r.at = "place" /\ r.leg = l /\ r.n = NextAttempt(l)
    BY <1>1, <1>4 DEF ProcState
  <2> HIDE DEF r
  <2>2. row[l][r.n] = "none"
    BY <1>1, <1>4, <2>1, NextIsNew
  <2>3. proc'[p] = r /\ (\A q \in Proc : q # p => proc'[q] = proc[q]) /\ AtWork(l)' = AtWork(l)
    <3>1. p \in AtWork(l)
      BY <1>1 DEF AtWork
    <3>2. /\ proc'[p] = r /\ \A q \in Proc : q # p => proc'[q] = proc[q]
          /\ AtWork(l)' = AtWork(l) \cup {p}
      BY <2>1, HandsAre DEF Inv
    <3> QED
      BY <3>1, <3>2
  <2>4. ASSUME Sound(l) PROVE Sound(l)'
    <3>1. AtWork(l) = {p}
      BY <1>1, <2>4 DEF Sound, OneAtWork, AtWork
    <3>2. Alive(l)' = Alive(l)
      BY <1>2, <2>1, <2>3 DEF Alive
    <3>3. InSight(l)' /\ AccountedFor(l)'
      BY <1>1, <1>2, <2>1, <2>3, <2>4, <3>1, <3>2 DEF Sound, InSight, AccountedFor
    <3>4. OneAtWork(l)' /\ NewNumber(l)' /\ RefusedIsNone(l)' /\ FirstOfLeg(l)'
      BY <1>1, <1>2, <2>1, <2>2, <2>3, <2>4, <3>1, <3>2
      DEF Sound, OneAtWork, NewNumber, RefusedIsNone, FirstOfLeg
    <3> QED
      BY <3>3, <3>4 DEF Sound
  <2> QED
    BY <1>1, <1>2, <2>1, <2>4, StaysWith
<1> QED
  BY <1>1, <1>3, <1>4 DEF Number

\* A process that keeps its leg is the only one to have it.
LEMMA Holder ==
  ASSUME TypeOK, NEW l \in Leg, Sound(l),
         NEW p \in Proc, NEW r, proc' = [proc EXCEPT ![p] = r], proc[p].leg = l, r.leg = l
  PROVE  AtWork(l) = {p} /\ AtWork(l)' = {p} /\ proc'[p] = r
<1>1. p \in AtWork(l)
  BY DEF AtWork
<1>2. AtWork(l)' = AtWork(l) \cup {p} /\ proc'[p] = r
  BY HandsAre
<1>3. AtWork(l) = {p}
  BY <1>1 DEF Sound, OneAtWork
<1> QED
  BY <1>2, <1>3

\* What the exchange does with an order, and what is heard of it.
LEMMA PlaceIs ==
  ASSUME TypeOK, NEW p \in Proc, Place(p), proc[p].leg \in Leg, proc[p].n \in Attempt
  PROVE  \E order \in {"none", "resting", "filled", "cancelled"},
            got \in {"filled", "pending", "unknown", "refused", "final"} :
           /\ venue[proc[p].leg][proc[p].n] # "none" => order = venue[proc[p].leg][proc[p].n]
           /\ got \in {"refused", "final"} => order = venue[proc[p].leg][proc[p].n]
           /\ venue' = [venue EXCEPT ![proc[p].leg][proc[p].n] = order]
           /\ proc' = [proc EXCEPT ![p].at = "record", ![p].got = got]
<1> DEFINE l == proc[p].leg
           n == proc[p].n
           is(order, got) ==
             /\ order \in {"none", "resting", "filled", "cancelled"}
             /\ venue[l][n] # "none" => order = venue[l][n]
             /\ got \in {"refused", "final"} => order = venue[l][n]
             /\ venue' = [venue EXCEPT ![l][n] = order]
             /\ proc' = [proc EXCEPT ![p].at = "record", ![p].got = got]
<1>1. venue[l][n] \in {"none", "resting", "filled", "cancelled"}
  BY DEF TypeOK
<1>2. \/ is("filled", "filled") \/ is("resting", "pending")
      \/ is("none", "refused") \/ is("none", "final")
      \/ is(venue[l][n], "refused")
      \/ \E order \in {"none", "resting", "filled"} : is(order, "unknown")
      \/ is(venue[l][n], "unknown")
  BY <1>1 DEF Place
<1> QED
  BY <1>2

\* What is sent under a new number is, from now on, about to be recorded.
LEMMA PlaceBooks == ASSUME Inv, Books, NEW p \in Proc, Place(p) PROVE Books'
<1>1. PICK l \in Leg, n \in Attempt : /\ l = proc[p].leg /\ n = proc[p].n
                                      /\ proc[p].at = "place" /\ proc[p] \in ProcState
  BY DEF Place, Inv, TypeOK, InHand, ProcState
<1>2. UNCHANGED <<open, row, sync, excused>>
  BY DEF Place
<1>3. PICK order \in {"none", "resting", "filled", "cancelled"},
           got \in {"filled", "pending", "unknown", "refused", "final"} :
        /\ venue[l][n] # "none" => order = venue[l][n]
        /\ got \in {"refused", "final"} => order = venue[l][n]
        /\ venue' = [venue EXCEPT ![l][n] = order]
        /\ proc' = [proc EXCEPT ![p].at = "record", ![p].got = got]
  BY <1>1, PlaceIs DEF Inv
<1> DEFINE r == [proc[p] EXCEPT !.at = "record", !.got = got]
<1>4. /\ proc' = [proc EXCEPT ![p] = r]
      /\ r.at = "record" /\ r.got = got /\ r.leg = l /\ r.n = n
  BY <1>1, <1>3 DEF ProcState
<1> HIDE DEF r
<1>5. ASSUME NEW k \in Leg, k # l PROVE venue'[k] = venue[k]
  BY <1>3, <1>5 DEF Inv, TypeOK
<1>6. ASSUME Sound(l) PROVE Sound(l)'
  <2>1. AtWork(l) = {p} /\ AtWork(l)' = {p} /\ proc'[p] = r
    BY <1>1, <1>4, <1>6, Holder DEF Inv
  <2>2. n \notin Alive(l)
    BY <1>1, <1>6, <2>1 DEF Sound, InSight, NewNumber
  <2>3. Alive(l)' \subseteq Alive(l) \cup {n}
    BY <1>3 DEF Alive, Inv, TypeOK
  <2>4. got \in {"refused", "final"} => n \notin Alive(l)'
    BY <1>3, <2>2 DEF Alive, Inv, TypeOK
  <2>5. InSight(l)' /\ AccountedFor(l)'
    BY <1>1, <1>2, <1>4, <1>6, <2>1, <2>3 DEF Sound, InSight, AccountedFor
  <2>6. OneAtWork(l)' /\ NewNumber(l)' /\ RefusedIsNone(l)'
    BY <1>4, <2>1, <2>4 DEF OneAtWork, NewNumber, RefusedIsNone
  <2>7. FirstOfLeg(l)'
    BY <1>1, <1>4, <1>6, <2>1, <2>3 DEF Sound, FirstOfLeg
  <2> QED
    BY <2>5, <2>6, <2>7 DEF Sound
<1> QED
  BY <1>1, <1>2, <1>4, <1>5, <1>6, StaysWith

\* What follows an attempt: the fill is booked, a refused order sent anew, the leg let go of.
LEMMA AfterStands ==
  ASSUME Inv, NEW p \in Proc, proc[p].at = "record",
         NEW got \in {"filled", "pending", "unknown", "refused", "final"}
  PROVE  \/ /\ got = "filled" /\ After(p, got).at = "book"
            /\ After(p, got).leg = proc[p].leg /\ After(p, got).n = proc[p].n
         \/ got = "refused" /\ After(p, got).at = "send" /\ After(p, got).leg = proc[p].leg
         \/ got # "filled" /\ After(p, got).leg = None
<1>1. proc[p] \in ProcState
  BY DEF Inv, TypeOK, ProcState
<1>2. CASE got = "filled"
  BY <1>1, <1>2 DEF After, Done, ProcState
<1>3. CASE got = "refused" /\ p \in Pass /\ TriesLeft(p)
  BY <1>1, <1>3 DEF After, Done, ProcState
<1>4. CASE got # "filled" /\ ~(got = "refused" /\ p \in Pass /\ TriesLeft(p))
  <2>1. After(p, got) = GivenUp(p)
    BY <1>4 DEF After, Done
  <2> QED
    BY <1>4, <2>1, Emptied
<1> QED
  BY <1>2, <1>3, <1>4

\* An attempt is recorded, or the record is lost; only a good order needs one.
LEMMA RecordBooks == ASSUME Inv, Books, NEW p \in Proc, Record(p) PROVE Books'
<1>1. PICK l \in Leg, n \in Attempt : /\ l = proc[p].leg /\ n = proc[p].n
                                      /\ proc[p].at = "record" /\ proc[p] \in ProcState
  BY DEF Record, Inv, TypeOK, InHand, ProcState
<1>2. UNCHANGED <<open, venue, sync>> /\ excused \subseteq excused'
  BY DEF Record
<1> DEFINE got == proc[p].got
<1>3. got \in {"filled", "pending", "unknown", "refused", "final"}
  BY <1>1 DEF ProcState
<1>4. PICK heard \in {"filled", "pending", "unknown", "refused", "final"} :
        /\ proc' = [proc EXCEPT ![p] = After(p, heard)]
        /\ \/ heard = got /\ row' = [row EXCEPT ![l][n] = RowOf(got)]
           \/ /\ heard \notin {"filled", "pending"} /\ row' = row
              /\ heard \in {"refused", "final"} => got = heard
              /\ l \notin excused' => n \notin Alive(l)
  <2> DEFINE unwritten == IF got \in {"filled", "pending"} THEN "unknown" ELSE got
  <2>1. CASE /\ row' = [row EXCEPT ![l][n] = RowOf(got)]
             /\ proc' = [proc EXCEPT ![p] = After(p, got)]
    BY <1>3, <2>1
  <2>2. CASE /\ proc' = [proc EXCEPT ![p] = After(p, unwritten)] /\ row' = row
             /\ excused' = IF n \in Alive(l) THEN excused \cup {l} ELSE excused
    <3>1. /\ unwritten \in {"unknown", "refused", "final"}
          /\ unwritten \in {"refused", "final"} => got = unwritten
      BY <1>3
    <3> HIDE DEF unwritten
    <3>2. l \notin excused' => n \notin Alive(l)
      BY <2>2
    <3> QED
      BY <2>2, <3>1, <3>2
  <2> QED
    BY <1>1, <2>1, <2>2 DEF Record
<1>5. PICK r : r = After(p, heard)
  OBVIOUS
<1>6. proc' = [proc EXCEPT ![p] = r] /\ TypeOK
  BY <1>4, <1>5 DEF Inv
<1>7. \/ heard = "filled" /\ r.at = "book" /\ r.leg = l /\ r.n = n
      \/ heard = "refused" /\ r.at = "send" /\ r.leg = l
      \/ heard # "filled" /\ r.leg = None
  BY <1>1, <1>5, AfterStands
<1>8. /\ \A k \in Leg : k # l => row'[k] = row[k]
      /\ \A m \in Attempt : m # n => row'[l][m] = row[l][m]
      /\ row' # row => heard = got /\ row'[l][n] = RowOf(got)
  BY <1>4 DEF Inv, TypeOK
<1>9. RowOf(got) # "none"
  BY DEF RowOf
<1>10. ASSUME Sound(l), l \notin excused' PROVE Sound(l)'
  <2>1. AtWork(l) = {p} /\ Alive(l)' = Alive(l)
    BY <1>1, <1>2, <1>10 DEF Sound, OneAtWork, AtWork, Alive
  <2>2. heard \in {"refused", "final"} => n \notin Alive(l)
    BY <1>1, <1>4, <1>10, <2>1 DEF Sound, RefusedIsNone
  <2>3. n \in Alive(l) => heard = got /\ row'[l][n] = RowOf(got)
    BY <1>4, <1>10 DEF Inv, TypeOK
  <2>4. \A m \in Alive(l) : row'[l][m] # "none"
    BY <1>1, <1>8, <1>9, <1>10, <2>1, <2>3 DEF Sound, InSight, Alive
  <2>5. \A m \in Alive(l) \ {n} :
          l \in open => row'[l][m] \in {"pending", "unseen"} \/ l \in sync.fills
    BY <1>1, <1>8, <1>10, <2>1 DEF Sound, AccountedFor, Alive
  <2>6. InSight(l)'
    BY <2>1, <2>4 DEF InSight
  <2>7. CASE heard = "filled" /\ r.at = "book" /\ r.leg = l /\ r.n = n
    <3>1. AtWork(l)' = {p} /\ proc'[p] = r
      BY <1>1, <1>6, <1>10, <2>7, Holder
    <3>2. AccountedFor(l)'
      BY <1>2, <2>1, <2>5, <2>7, <3>1 DEF AccountedFor
    <3>3. OneAtWork(l)' /\ NewNumber(l)' /\ RefusedIsNone(l)' /\ FirstOfLeg(l)'
      BY <2>7, <3>1 DEF OneAtWork, NewNumber, RefusedIsNone, FirstOfLeg
    <3> QED
      BY <2>6, <3>2, <3>3 DEF Sound
  <2>8. CASE heard = "refused" /\ r.at = "send" /\ r.leg = l
    <3>1. AtWork(l)' = {p} /\ proc'[p] = r
      BY <1>1, <1>6, <1>10, <2>8, Holder
    <3>2. AccountedFor(l)'
      BY <1>2, <2>1, <2>2, <2>5, <2>8 DEF AccountedFor
    <3>3. p \in Pass => Alive(l)' = {}
      BY <1>1, <1>10, <2>1, <2>2, <2>8 DEF Sound, FirstOfLeg
    <3>4. OneAtWork(l)' /\ NewNumber(l)' /\ RefusedIsNone(l)' /\ FirstOfLeg(l)'
      BY <2>8, <3>1, <3>3 DEF OneAtWork, NewNumber, RefusedIsNone, FirstOfLeg
    <3> QED
      BY <2>6, <3>2, <3>4 DEF Sound
  <2>9. CASE heard # "filled" /\ r.leg = None
    <3>1. AtWork(l)' = {}
      <4>1. r.leg # l
        BY <2>9, LegAssumption
      <4>2. AtWork(l)' = AtWork(l) \ {p}
        BY <1>6, <4>1, HandsAre
      <4> QED
        BY <2>1, <4>2
    <3>2. n \in Alive(l) => row'[l][n] \in {"pending", "unseen"}
      BY <2>2, <2>3, <2>9 DEF RowOf
    <3>3. AccountedFor(l)'
      BY <1>2, <2>1, <2>5, <3>2 DEF AccountedFor
    <3>4. OneAtWork(l)' /\ NewNumber(l)' /\ RefusedIsNone(l)' /\ FirstOfLeg(l)'
      BY <3>1 DEF OneAtWork, NewNumber, RefusedIsNone, FirstOfLeg
    <3> QED
      BY <2>6, <3>3, <3>4 DEF Sound
  <2> QED
    BY <1>7, <2>7, <2>8, <2>9
<1>11. \A k \in Leg, m \in Attempt : row[k][m] # "none" => row'[k][m] # "none"
  BY <1>8, <1>9
<1>12. r.leg \in {l, None} /\ (r.at \in {"idle", "done", "next"} => r.leg = None)
  BY <1>7
<1>13. \A k \in Leg : k # l => venue'[k] = venue[k] /\ row'[k] = row[k]
  BY <1>2, <1>8
<1>14. proc[p].leg = l /\ UNCHANGED <<open, sync>>
  BY <1>1, <1>2
<1> HIDE DEF got
<1> QED
  BY <1>2, <1>6, <1>10, <1>11, <1>12, <1>13, <1>14, StaysWith

\* A leg is let go of once it is closed, or excused.
LEMMA BookBooks == ASSUME Inv, Books, NEW p \in Proc, Book(p) PROVE Books'
<1> DEFINE l == proc[p].leg
<1>1. proc[p].at = "book" /\ UNCHANGED <<row, venue, sync>>
  BY DEF Book
<1>2. PICK r : proc' = [proc EXCEPT ![p] = r] /\ r.leg = None
  BY Emptied DEF Book
<1>3. excused \subseteq excused' /\ open' \subseteq open /\ (l \in open' => l \in excused')
  BY DEF Book
<1> QED
  BY <1>1, <1>2, <1>3, LetsGo

\* Who dies with a good order nobody else knows leaves the leg excused.
LEMMA DieBooks == ASSUME Inv, Books, NEW p \in Proc, Die(p) PROVE Books'
<1> DEFINE l == proc[p].leg
<1>1. UNCHANGED <<open, row, venue, sync>> /\ proc' = [proc EXCEPT ![p] = Over(p)]
  BY DEF Die
<1>2. excused' = IF proc[p].at \in {"record", "book"} /\ proc[p].n \in Alive(l)
                 THEN excused \cup {l} ELSE excused
  BY DEF Die
<1>3. Over(p).leg = None /\ excused \subseteq excused'
  BY <1>2, Emptied
<1>4. l \notin excused' /\ proc[p].at \in {"record", "book"} => proc[p].n \notin Alive(l)
  BY <1>2
<1> QED
  BY <1>1, <1>3, <1>4, LetsGo

\* An order that rested fills or is cancelled: there are no more good ones.
LEMMA VenueBooks == ASSUME Inv, Books, VenueMoves PROVE Books'
<1>1. UNCHANGED <<open, row, proc, sync, excused>>
  BY DEF VenueMoves
<1>2. RowsAreThere' /\ EmptyHanded'
  BY <1>1 DEF Books, RowsAreThere, EmptyHanded
<1>3. ASSUME NEW l \in Leg \ excused PROVE Sound(l)'
  <2>1. AtWork(l)' = AtWork(l)
    BY <1>1 DEF AtWork
  <2>2. Alive(l)' \subseteq Alive(l)
    BY DEF VenueMoves, Alive, Inv, TypeOK
  <2> QED
    BY <1>1, <2>1, <2>2, Untouched DEF Books
<1> QED
  BY <1>1, <1>2, <1>3 DEF Books

\* A step of the reconciler that leaves rows and exchange alone.
LEMMA SyncKeepsBooks ==
  ASSUME Inv, Books, UNCHANGED <<row, venue, proc>>, RowsAreThere',
         excused \subseteq excused', open' \subseteq open,
         \A l \in sync.fills \ excused' : l \in sync'.fills \/ l \notin open'
  PROVE  Books'
<1>1. EmptyHanded'
  BY DEF Books, EmptyHanded
<1>2. ASSUME NEW l \in Leg \ excused' PROVE Sound(l)'
  <2>1. AtWork(l)' = AtWork(l) /\ Alive(l)' = Alive(l)
    BY DEF AtWork, Alive
  <2> QED
    BY <2>1, Untouched DEF Books
<1> QED
  BY <1>1, <1>2 DEF Books

\* The sync sets out with the pending rows.
LEMMA SyncStartBooks == ASSUME Inv, Books, SyncStart PROVE Books'
<1>1. /\ sync.fills = {}
      /\ sync'.rows = {<<o[1], o[2], row[o[1]][o[2]] = "pending">> : o \in
           {ln \in Leg \X Attempt : row[ln[1]][ln[2]] \in {"pending", "unseen"}}}
      /\ UNCHANGED <<open, row, venue, proc, excused>>
  BY DEF SyncStart, Asleep
<1>2. \A o \in sync'.rows : row[o[1]][o[2]] # "none"
  BY <1>1
<1>3. RowsAreThere'
  BY <1>1, <1>2 DEF RowsAreThere
<1> QED
  BY <1>1, <1>3, SyncKeepsBooks

\* The sync closes a leg of which an exit filled.
LEMMA SyncBookBooks == ASSUME Inv, Books, SyncBook PROVE Books'
<1>1. sync.rows = {} /\ UNCHANGED <<row, venue, proc>>
  BY DEF SyncBook
<1>2. PICK l \in sync.fills, how \in BOOLEAN :
        /\ sync' = [sync EXCEPT !.fills = @ \ {l}, !.booked = @ \/ how]
        /\ open' \subseteq open /\ excused \subseteq excused'
        /\ l \in open' => l \in excused'
  BY DEF SyncBook
<1>3. sync'.rows = {} /\ sync'.fills = sync.fills \ {l}
  BY <1>1, <1>2 DEF Inv, TypeOK
<1>4. RowsAreThere'
  BY <1>3 DEF RowsAreThere
<1> QED
  BY <1>1, <1>2, <1>3, <1>4, SyncKeepsBooks

\* The sync ends its pass or dies.
LEMMA SyncStopsBooks == ASSUME Inv, Books, SyncEnd \/ SyncDies PROVE Books'
<1>1. UNCHANGED <<open, row, venue, proc>> /\ sync' = Asleep
  BY DEF SyncEnd, SyncDies
<1>2. excused \subseteq excused' /\ (sync.fills = {} \/ sync.fills \cap open \subseteq excused')
  BY DEF SyncEnd, SyncDies
<1>3. RowsAreThere'
  BY <1>1 DEF RowsAreThere, Asleep
<1> QED
  BY <1>1, <1>2, <1>3, SyncKeepsBooks

\* A row is written: a fill goes to be booked, and only an order that is none is written off.
LEMMA SyncRowWrites ==
  ASSUME Inv, SyncRow
  PROVE  \E l \in Leg, n \in Attempt, o \in sync.rows :
         \E fills \in SUBSET Leg, state \in {"none", "pending", "unseen", "closed", "failed"} :
           /\ o[1] = l /\ o[2] = n
           /\ row' = [row EXCEPT ![l][n] = state]
           /\ sync' = [sync EXCEPT !.rows = @ \ {o}, !.fills = @ \cup fills]
           /\ excused \subseteq excused'
           /\ \/ state = "closed" /\ fills = {l}
              \/ state = "failed" /\ (l \notin excused' => n \notin Alive(l))
              \/ state \in {"pending", row[l][n]}
<1>1. PICK o \in sync.rows :
        LET l == o[1]
            n == o[2]
            becomes(state, fills) ==
                /\ row' = [row EXCEPT ![l][n] = state]
                /\ sync' = [sync EXCEPT !.rows = @ \ {o}, !.fills = @ \cup fills]
                /\ excused' = IF state = "failed" /\ n \in Alive(l)
                              THEN excused \cup {l} ELSE excused
        IN  becomes("closed", {l}) \/ becomes("failed", {})
            \/ becomes(row[l][n], {}) \/ becomes("pending", {})
  BY DEF SyncRow
<1>2. PICK l \in Leg, n \in Attempt : o[1] = l /\ o[2] = n
  BY DEF Inv, TypeOK
<1>3. row[l][n] \in {"none", "pending", "unseen", "closed", "failed"}
  BY DEF Inv, TypeOK
<1> DEFINE becomes(state, fills) ==
             /\ row' = [row EXCEPT ![l][n] = state]
             /\ sync' = [sync EXCEPT !.rows = @ \ {o}, !.fills = @ \cup fills]
             /\ excused' = IF state = "failed" /\ n \in Alive(l)
                           THEN excused \cup {l} ELSE excused
<1>4. \/ becomes("closed", {l}) \/ becomes("failed", {})
      \/ becomes(row[l][n], {}) \/ becomes("pending", {})
  BY <1>1, <1>2
<1>5. \E fills \in SUBSET Leg, state \in {"none", "pending", "unseen", "closed", "failed"} :
           /\ row' = [row EXCEPT ![l][n] = state]
           /\ sync' = [sync EXCEPT !.rows = @ \ {o}, !.fills = @ \cup fills]
           /\ excused \subseteq excused'
           /\ \/ state = "closed" /\ fills = {l}
              \/ state = "failed" /\ (l \notin excused' => n \notin Alive(l))
              \/ state \in {"pending", row[l][n]}
  <2>1. CASE becomes("closed", {l})
    BY <2>1
  <2>2. CASE becomes("failed", {})
    <3>1. l \notin excused' => n \notin Alive(l)
      BY <2>2
    <3> QED
      BY <2>2, <3>1
  <2>3. CASE becomes(row[l][n], {})
    BY <1>3, <2>3
  <2>4. CASE becomes("pending", {})
    BY <2>4
  <2> QED
    BY <1>4, <2>1, <2>2, <2>3, <2>4
<1> WITNESS l \in Leg, n \in Attempt, o \in sync.rows
<1> QED
  BY <1>2, <1>5

\* The row the sync writes stays in sight or its order is not good.
LEMMA SyncRowBooks == ASSUME Inv, Books, SyncRow PROVE Books'
<1>1. UNCHANGED <<open, venue, proc>>
  BY DEF SyncRow
<1>2. PICK l \in Leg, n \in Attempt, o \in sync.rows, fills \in SUBSET Leg,
           state \in {"none", "pending", "unseen", "closed", "failed"} :
        /\ o[1] = l /\ o[2] = n
        /\ row' = [row EXCEPT ![l][n] = state]
        /\ sync' = [sync EXCEPT !.rows = @ \ {o}, !.fills = @ \cup fills]
        /\ excused \subseteq excused'
        /\ \/ state = "closed" /\ fills = {l}
           \/ state = "failed" /\ (l \notin excused' => n \notin Alive(l))
           \/ state \in {"pending", row[l][n]}
  BY SyncRowWrites
<1>3. row[l][n] # "none" /\ state # "none"
  BY <1>2 DEF Books, RowsAreThere
<1>4. /\ \A k \in Leg : k # l => row'[k] = row[k]
      /\ \A m \in Attempt : row'[l][m] = IF m = n THEN state ELSE row[l][m]
  BY <1>2 DEF Inv, TypeOK
<1>5. sync'.rows \subseteq sync.rows /\ sync'.fills = sync.fills \cup fills
  BY <1>2 DEF Inv, TypeOK
<1>6. RowsAreThere'
  <2>1. \A k \in Leg, m \in Attempt : row[k][m] # "none" => row'[k][m] # "none"
    BY <1>3, <1>4
  <2>2. \A x \in sync.rows : x[1] \in Leg /\ x[2] \in Attempt
    BY DEF Inv, TypeOK
  <2> QED
    BY <1>5, <2>1, <2>2 DEF Books, RowsAreThere
<1>7. EmptyHanded'
  BY <1>1 DEF Books, EmptyHanded
<1>8. ASSUME NEW k \in Leg \ excused' PROVE Sound(k)'
  <2>1. AtWork(k)' = AtWork(k) /\ Alive(k)' = Alive(k) /\ Sound(k)
    BY <1>1, <1>2 DEF AtWork, Alive, Books
  <2>2. CASE k # l
    BY <1>1, <1>4, <1>5, <2>1, <2>2, Untouched
  <2>3. CASE k = l
    <3>1. OneAtWork(k)' /\ RefusedIsNone(k)' /\ FirstOfLeg(k)'
      BY <1>1, <2>1 DEF Sound, OneAtWork, RefusedIsNone, FirstOfLeg
    <3>2. InSight(k)'
      BY <1>1, <1>3, <1>4, <2>1, <2>3 DEF Sound, InSight, Alive
    <3>3. NewNumber(k)'
      <4> SUFFICES ASSUME NEW p \in AtWork(k), proc[p].at = "place"
                   PROVE  row'[k][proc[p].n] = "none"
        BY <1>1, <2>1 DEF NewNumber
      <4>1. row[k][proc[p].n] = "none" /\ proc[p].n \in Attempt
        BY <2>1 DEF Sound, NewNumber, Inv, InHand, AtWork
      <4> QED
        BY <1>3, <1>4, <2>3, <4>1
    <3>4. AccountedFor(k)'
      <4> SUFFICES ASSUME k \in open, NEW m \in Alive(k)
                   PROVE  \/ row'[k][m] \in {"pending", "unseen"}
                          \/ \E p \in AtWork(k) : proc[p].n = m /\ proc[p].at \in {"record", "book"}
                          \/ k \in sync'.fills
        BY <1>1, <2>1 DEF AccountedFor
      <4>1. \/ row[k][m] \in {"pending", "unseen"}
            \/ \E p \in AtWork(k) : proc[p].n = m /\ proc[p].at \in {"record", "book"}
            \/ k \in sync.fills
        BY <2>1 DEF Sound, AccountedFor
      <4>2. CASE m # n
        BY <1>4, <1>5, <2>3, <4>1, <4>2 DEF Alive
      <4>3. CASE m = n
        BY <1>2, <1>4, <1>5, <2>3, <4>1, <4>3 DEF Alive
      <4> QED
        BY <4>2, <4>3
    <3> QED
      BY <3>1, <3>2, <3>3, <3>4 DEF Sound
  <2> QED
    BY <2>2, <2>3
<1> QED
  BY <1>6, <1>7, <1>8 DEF Books

-----------------------------------------------------------------------------
\* The books are right at first, kept right by every step, and so right.
LEMMA InitBooks == Init => Books
<1> SUFFICES ASSUME Init PROVE Books
  OBVIOUS
<1>1. \A p \in Proc : proc[p].leg = None
  BY DEF Init, Idle
<1>2. \A l \in Leg : AtWork(l) = {} /\ Alive(l) = {}
  BY <1>1, LegAssumption DEF Init, AtWork, Alive
<1>3. RowsAreThere /\ EmptyHanded
  BY <1>1 DEF Init, Asleep, RowsAreThere, EmptyHanded
<1>4. \A l \in Leg : Sound(l)
  BY <1>2 DEF Sound, OneAtWork, InSight, NewNumber, RefusedIsNone, FirstOfLeg, AccountedFor
<1> QED
  BY <1>3, <1>4 DEF Books

\* Every step keeps the facts of the books.
LEMMA NextBooks == Inv /\ Books /\ [Next]_vars => Books'
<1> SUFFICES ASSUME Inv, Books, [Next]_vars PROVE Books'
  OBVIOUS
<1>1. CASE UNCHANGED vars
  <2>1. RowsAreThere'
    BY <1>1 DEF vars, Books, RowsAreThere
  <2> QED
    BY <1>1, <2>1, SyncKeepsBooks DEF vars
<1>2. CASE \E p \in Pass, r \in Rule : Fire(p, r)
  BY <1>2, FireBooks
<1>3. CASE \E p \in Click : Ask(p)
  BY <1>3, AskBooks
<1>4. CASE \E p \in Proc : NextLeg(p) \/ Number(p) \/ Place(p) \/ Record(p) \/ Book(p)
                           \/ End(p) \/ Die(p)
  BY <1>4, NextLegBooks, NumberBooks, PlaceBooks, RecordBooks, BookBooks, EndBooks, DieBooks
<1>5. CASE VenueMoves
  BY <1>5, VenueBooks
<1>6. CASE Sync
  BY <1>6, SyncStartBooks, SyncRowBooks, SyncBookBooks, SyncStopsBooks DEF Sync
<1> QED
  BY <1>1, <1>2, <1>3, <1>4, <1>5, <1>6 DEF Next

\* Both invariants hold at all times.
LEMMA BooksHold == Spec => [](Inv /\ Books)
<1>1. Init => Inv /\ Books
  BY InitOK, InitBooks
<1>2. Inv /\ Books /\ [Next]_vars => (Inv /\ Books)'
  BY NextOK, NextBooks
<1> QED
  BY <1>1, <1>2, PTL DEF Spec

(* Every good order of a leg that is open in the books is one they will    *)
(* find, or one somebody is about to write down or book, unless two set    *)
(* out to exit the leg at once or a write of that leg was lost: whatever   *)
(* is retried, refused, answered late or dies (rules-engine.ts, tryExit;   *)
(* live-reconcile.ts, reconcile).                                          *)
THEOREM AccountedCorrect == Spec => []Accounted
<1>1. ASSUME Inv, Books PROVE Accounted
  <2>1. \A l \in open \ excused : l \in Leg /\ Sound(l)
    BY <1>1 DEF Inv, TypeOK, Books
  <2> QED
    BY <2>1 DEF Accounted, Sound, AccountedFor
<1> QED
  BY <1>1, BooksHold, PTL

(* The rules engine never sends an exit of a leg beside one that is still  *)
(* good, unless two set out to exit it at once or the books lost sight of  *)
(* the first (rules-engine.ts, "never a second one").                      *)
THEOREM SecondsCorrect == Spec => EngineSendsNoSecond
<1>1. ASSUME Inv, Books, NEW p \in Pass,
             proc[p].at = "place", Alive(proc[p].leg) # {}
      PROVE  proc[p].leg \in excused
  <2>1. p \in Proc
    BY DEF Proc
  <2>2. PICK l \in Leg : l = proc[p].leg
    BY <1>1, <2>1 DEF Inv, InHand
  <2>3. p \in AtWork(l) \cap Pass
    BY <2>1, <2>2 DEF AtWork
  <2>4. ~Sound(l)
    BY <1>1, <2>2, <2>3 DEF Sound, FirstOfLeg
  <2> QED
    BY <1>1, <2>2, <2>4 DEF Books
<1>2. Inv /\ Books =>
        [\A p \in Pass :
           LET l == proc[p].leg
           IN  proc[p].at = "place" /\ proc'[p].at = "record" /\ Alive(l) # {}
                 => Alive(l)' = Alive(l) \/ l \in excused]_vars
  BY <1>1
<1> QED
  BY <1>2, BooksHold, PTL DEF EngineSendsNoSecond
=============================================================================
