---------------------------- MODULE VerifiedFills ----------------------------
(***************************************************************************)
(* How the fills of one connected key are read from its exchange and kept  *)
(* in venue_fills (ingestFills of apps/api/src/verified.ts): newest first, *)
(* page by page, by the job of the leading replica and by the Journal's    *)
(* Refresh button.                                                         *)
(*                                                                         *)
(* A pass walks from the newest fill down to one that is held.  A walk     *)
(* stopped by its cap leaves a cursor on the watermark; later passes go on *)
(* from there.  Fills are numbered as they happen; a cursor n stands for   *)
(* the fills below n, and 0 for none.  What a fill carries, the positions  *)
(* compared at the end and the disconnecting of a key are left out.        *)
(***************************************************************************)
EXTENDS Naturals, FiniteSets

CONSTANTS Pass,       \* the job and the button
          Job,        \* the job
          Page,       \* fills on a page
          MaxPages,   \* pages of a first read and of a backfill
          NewerCap,   \* pages of a later read
          MaxFill,    \* bound: fills there are
          MaxFaults   \* bound: reads that fail and processes that die

ASSUME PassAssumption == Job \in Pass
ASSUME PageAssumption == {Page, MaxPages, NewerCap} \subseteq Nat \ {0}
ASSUME BoundAssumption == {MaxFill, MaxFaults} \subseteq Nat

VARIABLES there,    \* fills at the exchange
          held,     \* venue_fills
          resumeAfter,   \* of the watermark
          proc,     \* what each pass is doing
          faults,   \* how many there were
          spoilt    \* for the properties only: a walk broke off between two pages, or a
                    \* pass overwrote a cursor that had changed since it read it

vars == <<there, held, resumeAfter, proc, faults, spoilt>>

Fill == 1..MaxFill
Cursor == 0..MaxFill
Newest == MaxFill + 1

\* after is the cursor of the next page; prev and resumeAfter are the watermark's as it was
\* read and as it will be written.
Idle == [at |-> "idle", walk |-> "newer", prev |-> 0, resumeAfter |-> 0, known |-> {},
         first |-> FALSE, after |-> Newest, pages |-> 0, page |-> {}]

TypeOK ==
    /\ there \in Cursor
    /\ held \in SUBSET Fill
    /\ resumeAfter \in Cursor
    /\ proc \in [Pass -> [at : {"idle", "known", "list", "store", "write"},
                          walk : {"newer", "older"}, prev : Cursor, resumeAfter : Cursor,
                          known : SUBSET Fill, first : BOOLEAN, after : 0..Newest,
                          pages : Nat, page : SUBSET Fill]]
    /\ faults \in 0..MaxFaults
    /\ spoilt \in BOOLEAN

Init ==
    /\ there \in Cursor
    /\ held = {}
    /\ resumeAfter = 0
    /\ proc = [p \in Pass |-> Idle]
    /\ faults = 0
    /\ spoilt = FALSE

Trade ==
    /\ there < MaxFill
    /\ there' = there + 1
    /\ UNCHANGED <<held, resumeAfter, proc, faults, spoilt>>

-----------------------------------------------------------------------------
Sets(p, r) == proc' = [proc EXCEPT ![p] = r]

\* The watermark is read, and the credential opened.
Begin(p) ==
    /\ proc[p].at = "idle"
    /\ Sets(p, [Idle EXCEPT !.at = "known", !.prev = resumeAfter, !.resumeAfter = resumeAfter])
    /\ UNCHANGED <<there, held, resumeAfter, faults, spoilt>>

ReadKnown(p) ==
    /\ proc[p].at = "known"
    /\ Sets(p, [proc[p] EXCEPT !.at = "list", !.known = held,
                               !.first = held = {} /\ proc[p].prev = 0])
    /\ UNCHANGED <<there, held, resumeAfter, faults, spoilt>>

\* The newest fills below a cursor.
PageBelow(after) ==
    {f \in 1..there : f < after /\ Cardinality({g \in 1..there : f < g /\ g < after}) < Page}

List(p) ==
    /\ proc[p].at = "list"
    /\ Sets(p, [proc[p] EXCEPT !.at = "store", !.page = PageBelow(proc[p].after)])
    /\ UNCHANGED <<there, held, resumeAfter, faults, spoilt>>

\* The exchange's cursor: the page's oldest fill, if there are older ones.
After(page) ==
    IF page = {} \/ 1 \in page THEN 0 ELSE CHOOSE f \in page : \A g \in page : f <= g

\* Mutant: a walk that was capped leaves the older cursor standing.
KeepsOlder(r, after) == IF r.prev # 0 THEN r.prev ELSE after

StopsAt(r, after) == after

\* Mutant: what an earlier walk left out is not taken up.
TakesUpNothing(r) == [r EXCEPT !.walk = "older", !.at = "write"]

\* The backfill, if an earlier walk stopped on its cap.
TakesUp(r) ==
    [r EXCEPT !.walk = "older", !.pages = 0, !.after = r.resumeAfter,
              !.known = {}, !.first = FALSE,
              !.at = IF r.resumeAfter = 0 THEN "write" ELSE "list"]

\* A page shared with what was held, or the last one.
Meets(r, after) == after = 0 \/ r.page \cap r.known # {}

IsCapped(r) == (r.first /\ r.pages >= MaxPages) \/ r.pages >= NewerCap

\* The next page, or what comes after the walk.
Walked(r) ==
    LET after == After(r.page)
        next == [r EXCEPT !.at = "list", !.after = after, !.page = {}]
        ends == [r EXCEPT !.at = "write", !.resumeAfter = after, !.page = {}, !.known = {}]
    IN  CASE r.walk = "newer" /\ Meets(r, after) -> TakesUp([r EXCEPT !.page = {}])
          [] r.walk = "newer" /\ ~Meets(r, after) /\ IsCapped(r) ->
               [ends EXCEPT !.resumeAfter = StopsAt(r, after)]
          [] r.walk = "older" /\ (after = 0 \/ r.pages >= MaxPages) -> ends
          [] OTHER -> next

Store(p) ==
    /\ proc[p].at = "store"
    /\ held' = held \cup proc[p].page
    /\ Sets(p, Walked([proc[p] EXCEPT !.pages = @ + 1]))
    /\ UNCHANGED <<there, resumeAfter, faults, spoilt>>

Write(p) ==
    /\ proc[p].at = "write"
    /\ resumeAfter' = proc[p].resumeAfter
    /\ spoilt' = (spoilt \/ resumeAfter # proc[p].prev)
    /\ Sets(p, Idle)
    /\ UNCHANGED <<there, held, faults>>

\* A read fails or the process dies: the watermark keeps its cursor.
Fail(p) ==
    /\ proc[p].at # "idle"
    /\ faults < MaxFaults /\ faults' = faults + 1
    /\ spoilt' = (spoilt \/ (proc[p].walk = "newer" /\ proc[p].pages > 0))
    /\ Sets(p, Idle)
    /\ UNCHANGED <<there, held, resumeAfter>>

-----------------------------------------------------------------------------
Step(p) == ReadKnown(p) \/ List(p) \/ Store(p) \/ Write(p)

Next == Trade \/ \E p \in Pass : Begin(p) \/ Step(p) \/ Fail(p)

Spec == Init /\ [][Next]_vars

\* The job's timer goes on, and every read has a timeout.
LiveSpec == Spec /\ WF_vars(Begin(Job)) /\ \A p \in Pass : WF_vars(Step(p))

-----------------------------------------------------------------------------
Above(f, fills) == \A g \in fills : g < f

\* What a pass is still going to read.
Ahead(p) ==
    LET r == proc[p]
    IN  CASE r.at \in {"list", "store"} /\ r.walk = "newer" ->
               {f \in Fill : f < r.after /\ Above(f, {g \in r.known : g < r.after})}
          [] r.at \in {"list", "store"} /\ r.walk = "older" -> {f \in Fill : f < r.after}
          [] OTHER -> {f \in Fill : f < r.resumeAfter}

(* Every fill that is not held is newer than all that are, below the       *)
(* watermark's cursor or ahead of a pass, so that a walk will come by it;  *)
(* unless a walk broke off between two pages or two passes overlapped      *)
(* (verified.ts: "the cursor kept when the bound is hit, so nothing is     *)
(* ever skipped").                                                         *)
NothingSkipped ==
    spoilt \/ \A f \in (1..there) \ held :
      Above(f, held) \/ f < resumeAfter \/ \E p \in Pass : f \in Ahead(p)

(* Every fill is held in the end, with the same exceptions, however old it *)
(* was when the key was connected and however many came between two        *)
(* passes: the bound on fills makes trading pause, and then nothing is     *)
(* missing (verified.ts: "until the venue's history ends").                *)
HistoryIsRead == []<>(spoilt \/ 1..there \subseteq held)
=============================================================================
