-------------------------- MODULE VerifiedFillsProofs --------------------------
(***************************************************************************)
(* Proofs about VerifiedFills, for any number of passes at a time, pages   *)
(* of any size, any caps, and any number of fills and faults.              *)
(***************************************************************************)
EXTENDS VerifiedFills, TLAPS, FiniteSetTheorems, WellFoundedInduction

PassState == [at : {"idle", "known", "list", "store", "write"},
              walk : {"newer", "older"}, prev : Cursor, resumeAfter : Cursor,
              known : SUBSET Fill, first : BOOLEAN, after : 0..Newest,
              pages : Nat, page : SUBSET Fill]

IsHeld(n) == n = 0 \/ n \in held

Walking(r) == r.at \in {"list", "store"}

\* The cursors in hand stand at fills that are held, and what is known is held.
Stands(r) == IsHeld(r.prev) /\ IsHeld(r.resumeAfter) /\ r.known \subseteq held

\* How far a pass is: on the newer walk it keeps the cursor it read, which it knows and is
\* still above.
OnItsWay(r) ==
    /\ r.at = "known" => r.walk = "newer" /\ r.pages = 0 /\ r.after = Newest
    /\ r.at = "known" \/ (Walking(r) /\ r.walk = "newer") => r.resumeAfter = r.prev
    /\ Walking(r) /\ r.walk = "newer" =>
         /\ r.prev = 0 \/ (r.prev \in r.known /\ r.prev < r.after)
         /\ r.pages = 0 => r.after = Newest
         /\ r.pages > 0 => r.after \in held
    /\ Walking(r) /\ r.walk = "older" => r.after \in held /\ r.known = {}

\* A page is all that lies below its cursor down to its oldest fill, but for what was
\* traded since it was read, above all of it.
Whole(r) ==
    /\ \A g \in r.page : g <= there /\ g < r.after
    /\ \A f \in 1..there : f < r.after /\ f \notin r.page =>
         \/ r.page # {} /\ \A g \in r.page : f < g
         \/ /\ r.walk = "newer" /\ r.pages = 0 /\ f \notin r.known
            /\ \A g \in r.page : g < f

\* What the cursor that a pass read stood for, its older walk or the cursor it is to write
\* still stands for.
OlderKept(r) ==
    \A f \in (1..there) \ held : f < r.prev =>
      /\ Walking(r) /\ r.walk = "older" => f < r.after
      /\ r.at = "write" => f < r.resumeAfter

Good(r) == /\ Stands(r)
           /\ OnItsWay(r)
           /\ r.at = "store" => Whole(r)
           /\ OlderKept(r)

\* A walk for newer fills, past its first page, that is to come by f.
Takes(r, f) ==
    /\ r.walk = "newer" /\ r.pages > 0
    /\ \/ Walking(r) /\ f < r.after /\ Above(f, {g \in r.known : g < r.after})
       \/ r.at = "write" /\ f < r.resumeAfter

(* NothingSkipped without the walks whose end would be no loss (an older   *)
(* walk, a first page): what makes it inductive.                           *)
Covered(f) == Above(f, held) \/ f < resumeAfter \/ \E p \in Pass : Takes(proc[p], f)

NoneLost == spoilt \/ \A f \in (1..there) \ held : Covered(f)

Inv == /\ TypeOK
       /\ held \subseteq 1..there /\ IsHeld(resumeAfter)
       /\ \A p \in Pass : Good(proc[p])
       /\ NoneLost

-----------------------------------------------------------------------------
\* A set of fills that is not empty has an oldest one.
LEMMA Oldest ==
  ASSUME NEW S \in SUBSET Fill, S # {}
  PROVE  \E f \in S : \A g \in S : f <= g
<1>1. S \subseteq Nat
  BY BoundAssumption DEF Fill
<1>2. PICK f \in S : \A g \in S : ~ (<<g, f>> \in OpToRel(<, Nat))
  BY <1>1, NatLessThanWellFounded, WFMin
<1>3. \A g \in S : ~ (g < f)
  BY <1>1, <1>2 DEF OpToRel
<1> QED
  BY <1>1, <1>3

\* ... and a newest one, as all of them are below the bound.
LEMMA Latest ==
  ASSUME NEW S \in SUBSET Fill, S # {}
  PROVE  \E f \in S : \A g \in S : g <= f
<1> DEFINE T == {Newest - f : f \in S}
<1>1. \A f \in S : f \in Nat /\ f < Newest /\ Newest - f \in Fill
  BY BoundAssumption DEF Fill, Newest
<1>2. T \in SUBSET Fill /\ T # {}
  BY <1>1
<1>3. PICK t \in T : \A u \in T : t <= u
  BY <1>2, Oldest
<1>4. PICK f \in S : t = Newest - f
  BY <1>3
<1>5. \A g \in S : Newest - f <= Newest - g
  BY <1>3, <1>4
<1>6. Newest \in Nat
  BY BoundAssumption DEF Newest
<1> QED
  BY <1>1, <1>5, <1>6

\* The cursor of the next page stands at the page's oldest fill.
LEMMA AfterIs ==
  ASSUME NEW page \in SUBSET Fill, page # {}, 1 \notin page
  PROVE  After(page) \in page /\ \A g \in page : After(page) <= g
BY Oldest DEF After

\* A page misses nothing between its fills and its cursor, nor all there is below it.
LEMMA PageIs ==
  ASSUME TypeOK, NEW after \in 0..Newest
  PROVE  /\ PageBelow(after) \subseteq 1..there
         /\ \A g \in PageBelow(after) : g < after
         /\ \A f \in 1..there : f < after /\ f \notin PageBelow(after) =>
              PageBelow(after) # {} /\ \A g \in PageBelow(after) : f < g
<1> DEFINE between(f) == {g \in 1..there : f < g /\ g < after}
<1>1. there \in Nat /\ 1..there \subseteq Fill /\ after \in Nat
  BY BoundAssumption DEF TypeOK, Cursor, Fill, Newest
<1>2. \A f \in 1..there : IsFiniteSet(between(f)) /\ Cardinality(between(f)) \in Nat
  <2>1. IsFiniteSet(1..there)
    BY <1>1, FS_Interval
  <2>2. \A f \in 1..there : between(f) \subseteq 1..there
    OBVIOUS
  <2> HIDE DEF between
  <2> QED
    BY <2>1, <2>2, FS_Subset, FS_CardinalityType
<1>3. PageBelow(after) = {f \in 1..there : f < after /\ Cardinality(between(f)) < Page}
  BY DEF PageBelow
<1>4. ASSUME NEW f \in 1..there, NEW g \in PageBelow(after), f < after, f \notin PageBelow(after)
      PROVE  f < g
  <2> SUFFICES ASSUME g <= f PROVE FALSE
    BY <1>1, <1>3
  <2>1. between(f) \subseteq between(g)
    BY <1>1, <1>3
  <2>2. Cardinality(between(f)) <= Cardinality(between(g))
    <3>1. g \in 1..there
      BY <1>3
    <3> HIDE DEF between
    <3> QED
      BY <1>2, <2>1, <3>1, FS_Subset
  <2>3. g \in 1..there /\ Cardinality(between(g)) < Page /\ ~ (Cardinality(between(f)) < Page)
    BY <1>3, <1>4
  <2> HIDE DEF between
  <2> QED
    BY <1>2, <2>2, <2>3, PageAssumption
<1>5. ASSUME NEW f \in 1..there, f < after
      PROVE  PageBelow(after) # {}
  <2> DEFINE S == {g \in 1..there : g < after}
  <2>1. S \in SUBSET Fill /\ S # {}
    BY <1>1, <1>5
  <2>2. PICK g \in S : \A k \in S : k <= g
    BY <2>1, Latest
  <2>3. g \in 1..there /\ g < after /\ between(g) = {}
    BY <1>1, <2>2
  <2>4. Cardinality(between(g)) < Page
    BY <2>3, FS_EmptySet, PageAssumption
  <2> QED
    BY <1>3, <2>3, <2>4
<1> QED
  BY <1>3, <1>4, <1>5

-----------------------------------------------------------------------------
\* What is known of a pass stays true while more is stored.
LEMMA GoodStays ==
  ASSUME TypeOK, NEW r \in PassState, Good(r), held \subseteq held', there' = there
  PROVE  Good(r)'
<1>1. Stands(r)'
  BY DEF Good, Stands, IsHeld
<1>2. OnItsWay(r)'
  BY DEF Good, OnItsWay, Walking
<1>3. r.at = "store" => Whole(r)'
  BY DEF Good, Whole
<1>4. OlderKept(r)'
  BY DEF Good, OlderKept, Walking
<1> QED
  BY <1>1, <1>2, <1>3, <1>4 DEF Good

\* A step in which one pass comes to stand as r, and nothing is thrown away.
LEMMA MovesKeep ==
  ASSUME Inv, NEW p \in Pass, NEW r \in PassState, Sets(p, r),
         held \subseteq held', there' = there, Good(r)'
  PROVE  /\ proc' \in [Pass -> PassState]
         /\ \A q \in Pass : proc'[q] = IF q = p THEN r ELSE proc[q]
         /\ \A q \in Pass : Good(proc[q])'
<1>1. proc \in [Pass -> PassState]
  BY DEF Inv, TypeOK, PassState
<1>2. proc' \in [Pass -> PassState] /\ \A q \in Pass : proc'[q] = IF q = p THEN r ELSE proc[q]
  BY <1>1 DEF Sets
<1>3. ASSUME NEW q \in Pass, q # p
      PROVE  Good(proc[q])'
  <2>1. proc'[q] = proc[q] /\ proc[q] \in PassState /\ Good(proc[q])
    BY <1>1, <1>2, <1>3 DEF Inv
  <2> DEFINE s == proc[q]
  <2>2. PICK t \in PassState : t = s /\ Good(t)
    BY <2>1
  <2>3. Good(t)'
    BY <2>2, GoodStays DEF Inv
  <2> QED
    BY <2>1, <2>2, <2>3
<1>4. Good(proc[p])'
  BY <1>2
<1> QED
  BY <1>2, <1>3, <1>4

\* A step of a pass that changes neither what is held nor the cursor, and after which the
\* pass takes all it was to take, loses nothing.
LEMMA NoneLostStays ==
  ASSUME Inv, NEW p \in Pass, proc' \in [Pass -> PassState],
         \A q \in Pass \ {p} : proc'[q] = proc[q],
         \A f \in Fill : Takes(proc[p], f) => Takes(proc'[p], f),
         UNCHANGED <<there, held, resumeAfter, spoilt>>
  PROVE  NoneLost'
<1> SUFFICES ASSUME ~ spoilt, NEW f \in (1..there) \ held
             PROVE  Covered(f)'
  BY DEF NoneLost
<1>1. Covered(f)
  BY DEF Inv, NoneLost
<1>2. f \in Fill
  BY BoundAssumption DEF Inv, TypeOK, Fill, Cursor
<1>3. \A q \in Pass : Takes(proc[q], f) => Takes(proc'[q], f)
  BY <1>2
<1> QED
  BY <1>1, <1>3 DEF Covered, Above

-----------------------------------------------------------------------------
(* Each action preserves the invariant: one lemma per action.              *)

\* A new fill is above all that is held, and on no page read before.
LEMMA TradeKeeps == ASSUME Inv, Trade PROVE Inv'
<1>1. UNCHANGED <<held, resumeAfter, proc, faults, spoilt>> /\ there < MaxFill /\ there' = there + 1
  BY DEF Trade
<1>2. there \in Nat /\ there' \in Cursor /\ held \subseteq 1..there
  BY <1>1, BoundAssumption DEF Inv, TypeOK, Cursor
<1>3. TypeOK'
  BY <1>1, <1>2 DEF Inv, TypeOK
<1>4. held' \subseteq 1..there' /\ IsHeld(resumeAfter)'
  BY <1>1, <1>2 DEF Inv, IsHeld
<1>5. ASSUME NEW p \in Pass
      PROVE  Good(proc[p])'
  <2>1. PICK r \in PassState : r = proc[p] /\ r = proc'[p] /\ Good(r)
    BY <1>1 DEF Inv, TypeOK, PassState
  <2>2. r.page \subseteq Nat /\ r.prev \in Nat /\ r.after \in Nat /\ r.resumeAfter \in Nat
    BY <2>1, BoundAssumption DEF PassState, Cursor, Newest, Fill
  <2>3. Stands(r)' /\ OnItsWay(r)'
    BY <1>1, <2>1 DEF Good, Stands, OnItsWay, IsHeld, Walking
  <2>4. ASSUME r.at = "store"
        PROVE  Whole(r)'
    <3>1. \A g \in r.page : g <= there /\ g < r.after
      BY <2>1, <2>4 DEF Good, Whole
    <3>2. \A g \in r.page : g <= there' /\ g < r.after /\ g < there'
      BY <1>1, <1>2, <2>2, <3>1
    <3>3. there' \notin held
      BY <1>1, <1>2
    <3>4. there' < r.after => r.walk = "newer" /\ r.pages = 0 /\ there' \notin r.known
      <4>1. \A k \in held : ~ (there' < k)
        BY <1>1, <1>2
      <4> QED
        BY <2>1, <2>4, <3>3, <4>1 DEF Good, OnItsWay, Stands, Walking, PassState
    <3>5. \A f \in 1..there' : f \in 1..there \/ f = there'
      BY <1>1, <1>2
    <3> QED
      BY <1>1, <2>1, <2>4, <3>2, <3>4, <3>5 DEF Good, Whole
  <2>5. OlderKept(r)'
    <3>1. ASSUME NEW f \in (1..there') \ held', f < r.prev
          PROVE  f \in (1..there) \ held
      <4>1. r.prev = 0 \/ r.prev \in held
        BY <2>1 DEF Good, Stands, IsHeld
      <4>2. r.prev <= there
        <5>1. 0 <= there /\ \A k \in held : k <= there
          BY <1>2
        <5> QED
          BY <4>1, <5>1
      <4> QED
        BY <1>1, <1>2, <2>2, <3>1, <4>2
    <3> QED
      BY <1>1, <2>1, <3>1 DEF Good, OlderKept, Walking
  <2>6. Good(r)'
    BY <2>3, <2>4, <2>5 DEF Good
  <2> QED
    BY <2>1, <2>6
<1>6. NoneLost'
  <2> SUFFICES ASSUME ~ spoilt, NEW f \in (1..there') \ held'
               PROVE  Covered(f)'
    BY <1>1 DEF NoneLost
  <2>1. CASE f = there'
    BY <1>1, <1>2, <2>1 DEF Covered, Above
  <2>2. CASE f # there'
    <3>1. f \in (1..there) \ held
      BY <1>1, <1>2, <2>2
    <3>2. Covered(f)
      BY <3>1 DEF Inv, NoneLost
    <3> QED
      BY <1>1, <3>2 DEF Covered, Above, Takes, Walking
  <2> QED
    BY <2>1, <2>2
<1> QED
  BY <1>3, <1>4, <1>5, <1>6 DEF Inv

\* An idle pass has nothing in hand.
LEMMA IdleIs == Idle \in PassState /\ Idle.at = "idle" /\ Idle.prev = 0 /\ Idle.resumeAfter = 0
                /\ Idle.known = {} /\ Idle.walk = "newer" /\ Idle.pages = 0
                /\ Idle.after = Newest
BY BoundAssumption DEF Idle, PassState, Cursor, Newest

\* The cursor in hand is the watermark's.
LEMMA BeginKeeps == ASSUME Inv, NEW p \in Pass, Begin(p) PROVE Inv'
<1>1. UNCHANGED <<there, held, resumeAfter, faults, spoilt>> /\ proc[p].at = "idle"
  BY DEF Begin
<1>2. resumeAfter \in Cursor /\ IsHeld(resumeAfter)
  BY DEF Inv, TypeOK
<1>3. PICK r \in PassState :
        /\ Sets(p, r)
        /\ r.at = "known" /\ r.prev = resumeAfter /\ r.resumeAfter = resumeAfter
        /\ r.known = {} /\ r.walk = "newer" /\ r.pages = 0 /\ r.after = Newest
  <2> DEFINE r == [Idle EXCEPT !.at = "known", !.prev = resumeAfter, !.resumeAfter = resumeAfter]
  <2>1. /\ r \in PassState /\ r.at = "known" /\ r.prev = resumeAfter
        /\ r.resumeAfter = resumeAfter /\ r.known = {} /\ r.walk = "newer" /\ r.pages = 0
        /\ r.after = Newest
    BY <1>2, IdleIs DEF PassState
  <2>2. Sets(p, r)
    BY DEF Begin
  <2> QED
    BY <2>1, <2>2
<1>4. Good(r)'
  BY <1>1, <1>2, <1>3 DEF Good, Stands, OnItsWay, OlderKept, IsHeld, Walking
<1>5. /\ proc' \in [Pass -> PassState]
      /\ \A q \in Pass : proc'[q] = IF q = p THEN r ELSE proc[q]
      /\ \A q \in Pass : Good(proc[q])'
  BY <1>1, <1>3, <1>4, MovesKeep
<1>6. NoneLost'
  BY <1>1, <1>5, NoneLostStays DEF Takes, Walking
<1>7. TypeOK'
  BY <1>1, <1>5 DEF Inv, TypeOK, PassState
<1> QED
  BY <1>1, <1>5, <1>6, <1>7 DEF Inv, IsHeld

\* The cursor's fill is among the known ones.
LEMMA ReadKnownKeeps == ASSUME Inv, NEW p \in Pass, ReadKnown(p) PROVE Inv'
<1>1. UNCHANGED <<there, held, resumeAfter, faults, spoilt>> /\ proc[p].at = "known"
  BY DEF ReadKnown
<1>2. proc[p] \in PassState /\ Good(proc[p]) /\ held \in SUBSET Fill
  BY DEF Inv, TypeOK, PassState
<1>3. PICK r \in PassState :
        /\ Sets(p, r)
        /\ r.at = "list" /\ r.known = held /\ r.walk = proc[p].walk /\ r.prev = proc[p].prev
        /\ r.resumeAfter = proc[p].resumeAfter /\ r.pages = proc[p].pages
        /\ r.after = proc[p].after
  <2> DEFINE first == held = {} /\ proc[p].prev = 0
             r == [proc[p] EXCEPT !.at = "list", !.known = held, !.first = first]
  <2>1. Sets(p, r)
    BY DEF ReadKnown
  <2>2. first \in BOOLEAN
    OBVIOUS
  <2> HIDE DEF first
  <2>3. /\ r \in PassState
        /\ r.at = "list" /\ r.known = held /\ r.walk = proc[p].walk /\ r.prev = proc[p].prev
        /\ r.resumeAfter = proc[p].resumeAfter /\ r.pages = proc[p].pages
        /\ r.after = proc[p].after
    BY <1>2, <2>2 DEF PassState
  <2> QED
    BY <2>1, <2>3
<1>4. r.prev < Newest
  BY <1>3, BoundAssumption DEF PassState, Cursor, Newest
<1>5. Good(r)'
  BY <1>1, <1>2, <1>3, <1>4 DEF Good, Stands, OnItsWay, OlderKept, IsHeld, Walking
<1>6. /\ proc' \in [Pass -> PassState]
      /\ \A q \in Pass : proc'[q] = IF q = p THEN r ELSE proc[q]
      /\ \A q \in Pass : Good(proc[q])'
  BY <1>1, <1>3, <1>5, MovesKeep
<1>7. NoneLost'
  BY <1>1, <1>6, NoneLostStays DEF Takes, Walking
<1>8. TypeOK'
  BY <1>1, <1>6 DEF Inv, TypeOK, PassState
<1> QED
  BY <1>1, <1>6, <1>7, <1>8 DEF Inv, IsHeld

\* A page is whole when it is read.
LEMMA ListKeeps == ASSUME Inv, NEW p \in Pass, List(p) PROVE Inv'
<1>1. UNCHANGED <<there, held, resumeAfter, faults, spoilt>> /\ proc[p].at = "list"
  BY DEF List
<1>2. proc[p] \in PassState /\ Good(proc[p]) /\ there \in Cursor
  BY DEF Inv, TypeOK, PassState
<1> DEFINE page == PageBelow(proc[p].after)
<1>3. /\ page \subseteq 1..there
      /\ \A g \in page : g < proc[p].after
      /\ \A f \in 1..there : f < proc[p].after /\ f \notin page =>
           page # {} /\ \A g \in page : f < g
  BY <1>2, PageIs DEF Inv, PassState
<1>4. 1..there \subseteq Fill /\ there \in Nat
  BY <1>2, BoundAssumption DEF Cursor, Fill
<1> HIDE DEF page
<1>5. PICK r \in PassState :
        /\ Sets(p, r)
        /\ r.at = "store" /\ r.page = page /\ r.known = proc[p].known /\ r.walk = proc[p].walk
        /\ r.prev = proc[p].prev /\ r.resumeAfter = proc[p].resumeAfter
        /\ r.pages = proc[p].pages /\ r.after = proc[p].after
  <2> DEFINE r == [proc[p] EXCEPT !.at = "store", !.page = page]
  <2>1. Sets(p, r)
    BY DEF List, page
  <2>2. /\ r \in PassState
        /\ r.at = "store" /\ r.page = page /\ r.known = proc[p].known /\ r.walk = proc[p].walk
        /\ r.prev = proc[p].prev /\ r.resumeAfter = proc[p].resumeAfter
        /\ r.pages = proc[p].pages /\ r.after = proc[p].after
    BY <1>2, <1>3, <1>4 DEF PassState
  <2> QED
    BY <2>1, <2>2
<1>6. Good(r)'
  <2>1. Stands(r)' /\ OnItsWay(r)' /\ OlderKept(r)'
    BY <1>1, <1>2, <1>5 DEF Good, Stands, OnItsWay, OlderKept, IsHeld, Walking
  <2>2. Whole(r)'
    <3>1. \A g \in r.page : g <= there /\ g < r.after
      <4>1. \A g \in 1..there : g <= there
        BY <1>4
      <4> QED
        BY <1>3, <1>5, <4>1
    <3>2. \A f \in 1..there : f < r.after /\ f \notin r.page =>
            r.page # {} /\ \A g \in r.page : f < g
      BY <1>3, <1>5
    <3> QED
      BY <1>1, <3>1, <3>2 DEF Whole
  <2> QED
    BY <2>1, <2>2 DEF Good
<1>7. /\ proc' \in [Pass -> PassState]
      /\ \A q \in Pass : proc'[q] = IF q = p THEN r ELSE proc[q]
      /\ \A q \in Pass : Good(proc[q])'
  BY <1>1, <1>5, <1>6, MovesKeep
<1>8. NoneLost'
  <2>1. \A f \in Fill : Takes(proc[p], f) => Takes(r, f)
    BY <1>1, <1>5 DEF Takes, Walking
  <2> QED
    BY <1>1, <1>7, <2>1, NoneLostStays
<1>9. TypeOK'
  BY <1>1, <1>7 DEF Inv, TypeOK, PassState
<1> QED
  BY <1>1, <1>7, <1>8, <1>9 DEF Inv, IsHeld

\* What a pass does when it has stored a page: it takes up the older walk, stops on its cap
\* or goes on to the next page.
LEMMA WalkedIs ==
  ASSUME NEW s \in PassState
  PROVE  LET r == Walked(s)
             after == After(s.page)
         IN  /\ r \in PassState
             /\ r.at \in {"list", "write"} /\ r.prev = s.prev
             /\ \/ /\ s.walk = "newer" /\ Meets(s, after)
                   /\ r.walk = "older" /\ r.resumeAfter = s.resumeAfter
                   /\ r.after = s.resumeAfter /\ r.known = {}
                   /\ r.at = IF s.resumeAfter = 0 THEN "write" ELSE "list"
                \/ /\ s.walk = "newer" /\ ~ Meets(s, after)
                   /\ r.walk = "newer" /\ r.pages = s.pages
                   /\ \/ r.at = "write" /\ r.resumeAfter = after /\ r.known = {}
                      \/ /\ r.at = "list" /\ r.after = after /\ r.known = s.known
                         /\ r.resumeAfter = s.resumeAfter
                \/ /\ s.walk = "older" /\ r.walk = "older"
                   /\ \/ r.at = "write" /\ r.resumeAfter = after /\ r.known = {}
                      \/ /\ r.at = "list" /\ r.after = after /\ after # 0 /\ r.known = s.known
                         /\ r.resumeAfter = s.resumeAfter
<1> DEFINE after == After(s.page)
           next == [s EXCEPT !.at = "list", !.after = after, !.page = {}]
           ends == [s EXCEPT !.at = "write", !.resumeAfter = after, !.page = {}, !.known = {}]
           stops == [ends EXCEPT !.resumeAfter = after]
           rests == [s EXCEPT !.page = {}]
           at == IF s.resumeAfter = 0 THEN "write" ELSE "list"
           takes == [rests EXCEPT !.walk = "older", !.pages = 0, !.after = rests.resumeAfter,
                                  !.known = {}, !.first = FALSE, !.at = at]
<1>1. after \in Cursor /\ after \in 0..Newest
  <2>1. after = 0 \/ after \in Fill
    BY AfterIs DEF After, PassState
  <2> QED
    BY <2>1, BoundAssumption DEF Cursor, Fill, Newest
<1>2. s.resumeAfter \in 0..Newest
  BY BoundAssumption DEF PassState, Cursor, Newest
<1>3. /\ rests \in PassState /\ rests.resumeAfter = s.resumeAfter /\ rests.prev = s.prev
  BY DEF PassState
<1>4. /\ takes \in PassState /\ takes.at = at /\ takes.prev = s.prev /\ takes.walk = "older"
      /\ takes.resumeAfter = s.resumeAfter /\ takes.after = s.resumeAfter /\ takes.known = {}
  <2> HIDE DEF rests
  <2> QED
    BY <1>2, <1>3 DEF PassState
<1>5. TakesUp(rests) = takes
  BY <1>3 DEF TakesUp
<1>6. /\ next \in PassState /\ next.at = "list" /\ next.prev = s.prev /\ next.walk = s.walk
      /\ next.pages = s.pages /\ next.after = after /\ next.known = s.known
      /\ next.resumeAfter = s.resumeAfter
  <2> HIDE DEF after
  <2> QED
    BY <1>1 DEF PassState
<1>7. /\ ends \in PassState /\ ends.at = "write" /\ ends.prev = s.prev /\ ends.walk = s.walk
      /\ ends.pages = s.pages /\ ends.resumeAfter = after /\ ends.known = {}
  <2> HIDE DEF after
  <2> QED
    BY <1>1 DEF PassState
<1>8. /\ stops \in PassState /\ stops.at = "write" /\ stops.prev = s.prev
      /\ stops.walk = s.walk /\ stops.pages = s.pages /\ stops.resumeAfter = after
      /\ stops.known = {}
  <2> HIDE DEF after, ends
  <2> QED
    BY <1>1, <1>7 DEF PassState
<1>9. s.walk \in {"newer", "older"}
  BY DEF PassState
<1>10. /\ s.walk = "newer" /\ Meets(s, after) => Walked(s) = takes
       /\ s.walk = "newer" /\ ~ Meets(s, after) /\ IsCapped(s) => Walked(s) = stops
       /\ s.walk = "newer" /\ ~ Meets(s, after) /\ ~ IsCapped(s) => Walked(s) = next
       /\ s.walk = "older" /\ (after = 0 \/ s.pages >= MaxPages) => Walked(s) = ends
       /\ s.walk = "older" /\ ~ (after = 0 \/ s.pages >= MaxPages) => Walked(s) = next
  <2>1. Walked(s) = CASE s.walk = "newer" /\ Meets(s, after) -> TakesUp(rests)
                      [] s.walk = "newer" /\ ~ Meets(s, after) /\ IsCapped(s) -> stops
                      [] s.walk = "older" /\ (after = 0 \/ s.pages >= MaxPages) -> ends
                      [] OTHER -> next
    BY DEF Walked, StopsAt
  <2> HIDE DEF after, next, ends, stops, rests, takes
  <2> QED
    BY <1>5, <2>1
<1> HIDE DEF after, next, ends, stops, rests, takes, at
<1>11. at = IF s.resumeAfter = 0 THEN "write" ELSE "list"
  BY DEF at
<1>12. CASE s.walk = "newer" /\ Meets(s, after)
  BY <1>4, <1>10, <1>11, <1>12 DEF after
<1>13. CASE s.walk = "newer" /\ ~ Meets(s, after)
  BY <1>6, <1>8, <1>10, <1>13 DEF after
<1>14. CASE s.walk = "older"
  BY <1>6, <1>7, <1>10, <1>14 DEF after
<1> QED
  BY <1>9, <1>12, <1>13, <1>14

\* A fill below a pass's cursor that is not on the page it stores is below the next cursor
\* as well, or was traded since.
LEMMA BelowIs ==
  ASSUME TypeOK, NEW s \in PassState, Whole(s), NEW f \in 1..there, f < s.after, f \notin s.page
  PROVE  \/ After(s.page) \in s.page /\ f < After(s.page) /\ \A g \in s.page : f < g
         \/ s.walk = "newer" /\ s.pages = 0 /\ f \notin s.known /\ \A g \in s.page : g < f
<1>1. f \in Nat /\ f >= 1 /\ s.page \in SUBSET Fill
  BY BoundAssumption DEF TypeOK, Cursor, PassState
<1>2. CASE s.page # {} /\ \A g \in s.page : f < g
  <2>1. 1 \notin s.page
    BY <1>1, <1>2
  <2> QED
    BY <1>1, <1>2, <2>1, AfterIs
<1> QED
  BY <1>2 DEF Whole

\* Storing a page, as the record the walk goes on from.
LEMMA StoreIs ==
  ASSUME Inv, NEW p \in Pass, Store(p)
  PROVE  \E s \in PassState :
           /\ s.at = "store" /\ s.walk = proc[p].walk /\ s.prev = proc[p].prev
           /\ s.resumeAfter = proc[p].resumeAfter /\ s.known = proc[p].known
           /\ s.after = proc[p].after /\ s.page = proc[p].page
           /\ s.pages = proc[p].pages + 1
           /\ Sets(p, Walked(s)) /\ held' = held \cup s.page
<1>1. proc[p] \in PassState
  BY DEF Inv, TypeOK, PassState
<1> DEFINE s == [proc[p] EXCEPT !.pages = @ + 1]
<1>2. /\ s \in PassState /\ s.at = proc[p].at /\ s.walk = proc[p].walk /\ s.prev = proc[p].prev
      /\ s.resumeAfter = proc[p].resumeAfter /\ s.known = proc[p].known
      /\ s.after = proc[p].after /\ s.page = proc[p].page
      /\ s.pages = proc[p].pages + 1
  BY <1>1 DEF PassState
<1>3. Sets(p, Walked(s)) /\ held' = held \cup proc[p].page /\ proc[p].at = "store"
  BY DEF Store
<1> HIDE DEF s
<1> QED
  BY <1>2, <1>3

\* What a stored page leaves below it is below the next cursor; the walk stops at a page
\* it knows only when nothing is missing below it.
LEMMA StoreKeeps == ASSUME Inv, NEW p \in Pass, Store(p) PROVE Inv'
<1>1. UNCHANGED <<there, resumeAfter, faults, spoilt>>
  BY DEF Store
<1>2. PICK q \in PassState : q = proc[p] /\ Good(q) /\ q.at = "store"
  BY DEF Inv, TypeOK, PassState, Store
<1>3. PICK s \in PassState :
        /\ s.at = "store" /\ s.walk = q.walk /\ s.prev = q.prev
        /\ s.resumeAfter = q.resumeAfter /\ s.known = q.known
        /\ s.after = q.after /\ s.page = q.page /\ s.pages = q.pages + 1
        /\ Sets(p, Walked(s)) /\ held' = held \cup s.page
  BY <1>2, StoreIs
<1>4. PICK after \in Nat : after = After(s.page) /\ after = After(q.page)
  <2>1. After(s.page) = 0 \/ After(s.page) \in Fill
    BY AfterIs DEF After, PassState
  <2> QED
    BY <1>3, <2>1, BoundAssumption DEF Fill
<1>5. PICK r \in PassState :
        /\ Sets(p, r)
        /\ r.at \in {"list", "write"} /\ r.prev = s.prev
        /\ \/ /\ s.walk = "newer" /\ Meets(s, after)
              /\ r.walk = "older" /\ r.resumeAfter = s.resumeAfter
              /\ r.after = s.resumeAfter /\ r.known = {}
              /\ r.at = IF s.resumeAfter = 0 THEN "write" ELSE "list"
           \/ /\ s.walk = "newer" /\ ~ Meets(s, after)
              /\ r.walk = "newer" /\ r.pages = s.pages
              /\ \/ r.at = "write" /\ r.resumeAfter = after /\ r.known = {}
                 \/ /\ r.at = "list" /\ r.after = after /\ r.known = s.known
                    /\ r.resumeAfter = s.resumeAfter
           \/ /\ s.walk = "older" /\ r.walk = "older"
              /\ \/ r.at = "write" /\ r.resumeAfter = after /\ r.known = {}
                 \/ /\ r.at = "list" /\ r.after = after /\ after # 0 /\ r.known = s.known
                    /\ r.resumeAfter = s.resumeAfter
  BY <1>3, <1>4, WalkedIs
<1>6. /\ there \in Nat /\ held \subseteq 1..there /\ held \subseteq held'
      /\ s.page \subseteq 1..there /\ held' \subseteq 1..there
      /\ \A g \in held : g \in Nat /\ g <= there
      /\ \A g \in s.page : g \in Nat /\ g <= there
      /\ \A g \in s.known : g \in Nat
  <2>1. there \in Nat /\ held \subseteq 1..there
    BY BoundAssumption DEF Inv, TypeOK, Cursor
  <2>2. \A g \in Fill : g \in Nat /\ g >= 1
    BY BoundAssumption DEF Fill
  <2>3. \A g \in s.page : g <= there
    BY <1>2, <1>3 DEF Good, Whole
  <2>4. s.page \subseteq Fill /\ s.known \subseteq Fill
    BY DEF PassState
  <2>5. s.page \subseteq 1..there
    BY <2>1, <2>2, <2>3, <2>4
  <2>6. \A g \in held : g \in Nat /\ g <= there
    BY <2>1
  <2> QED
    BY <1>3, <2>1, <2>2, <2>3, <2>4, <2>5, <2>6
<1>7. after = 0 \/ (after \in held' /\ after \in s.page)
  BY <1>3, <1>4, AfterIs DEF After, PassState
\* What is not stored stays below the cursor, or was traded since the first page.
<1>8. ASSUME NEW f \in 1..there, f < s.after, f \notin s.page
      PROVE  \/ after # 0 /\ after \in s.page /\ f < after /\ \A g \in s.page : f < g
             \/ /\ s.walk = "newer" /\ q.pages = 0 /\ f \notin s.known
                /\ \A g \in s.page : g < f
  <2>1. \/ after \in s.page /\ f < after /\ \A g \in s.page : f < g
        \/ s.walk = "newer" /\ q.pages = 0 /\ f \notin s.known /\ \A g \in s.page : g < f
    BY <1>2, <1>3, <1>4, <1>8, BelowIs DEF Good, Inv
  <2>2. f < after => after # 0
    BY <1>6
  <2> QED
    BY <2>1, <2>2
<1>9. s.prev \in Nat /\ (s.prev = 0 \/ s.prev \in held) /\ s.prev <= there
  <2>1. s.prev = 0 \/ s.prev \in held
    BY <1>2, <1>3 DEF Good, Stands, IsHeld
  <2>2. 0 \in Nat /\ 0 <= there
    BY <1>6
  <2> QED
    BY <1>6, <2>1, <2>2
<1>10. s.walk = "newer" /\ ~ Meets(s, after) => s.prev < after
  <2> SUFFICES ASSUME s.walk = "newer", ~ Meets(s, after), s.prev # 0
               PROVE  s.prev < after
    BY <1>4 DEF Meets
  <2>1. s.prev \in s.known /\ s.prev < s.after /\ s.prev \in 1..there
    BY <1>2, <1>3, <1>6, <1>9 DEF Good, OnItsWay, Walking
  <2>2. s.prev \notin s.page
    BY <2>1 DEF Meets
  <2> QED
    BY <1>8, <2>1, <2>2
<1>11. Good(r)'
  <2>1. Stands(r)'
    <3>1. r.resumeAfter = s.resumeAfter \/ r.resumeAfter = after
      BY <1>5
    <3>2. r.known \subseteq held'
      BY <1>2, <1>3, <1>5, <1>6 DEF Good, Stands
    <3> QED
      BY <1>2, <1>3, <1>5, <1>6, <1>7, <3>1, <3>2 DEF Good, Stands, IsHeld
  <2>2. OnItsWay(r)'
    <3>1. CASE r.walk = "newer"
      <4>1. r.at = "write" \/ (r.at = "list" /\ r.after = after /\ r.known = s.known
                                /\ r.resumeAfter = s.resumeAfter /\ after # 0)
        BY <1>5, <3>1 DEF Meets
      <4>2. r.at = "list" => s.walk = "newer" /\ ~ Meets(s, after) /\ r.pages = q.pages + 1
        BY <1>3, <1>5, <3>1
      <4>3. r.pages # 0 \/ r.at = "write"
        BY <1>2, <4>1, <4>2 DEF PassState
      <4> QED
        BY <1>2, <1>3, <1>5, <1>7, <1>10, <3>1, <4>1, <4>2, <4>3
           DEF Good, OnItsWay, Walking
    <3>2. CASE r.walk = "older"
      <4>1. r.at = "list" => r.after \in held' /\ r.known = {}
        <5>1. CASE s.walk = "newer"
          BY <1>2, <1>3, <1>5, <1>6, <3>2, <5>1 DEF Good, Stands, IsHeld
        <5>2. CASE s.walk = "older"
          BY <1>2, <1>3, <1>5, <1>7, <3>2, <5>2 DEF Good, OnItsWay, Walking
        <5> QED
          BY <5>1, <5>2 DEF PassState
      <4> QED
        BY <1>5, <3>2, <4>1 DEF OnItsWay, Walking
    <3> QED
      BY <3>1, <3>2 DEF PassState
  <2>3. OlderKept(r)'
    <3> SUFFICES ASSUME NEW f \in (1..there') \ held', f < r.prev
                 PROVE  /\ r.at = "list" /\ r.walk = "older" => f < r.after
                        /\ r.at = "write" => f < r.resumeAfter
      BY <1>5 DEF OlderKept, Walking
    <3>1. f \in (1..there) \ held /\ f \notin s.page /\ f < s.prev /\ f \in Nat
      BY <1>1, <1>3, <1>5, <1>6
    <3>2. CASE s.walk = "newer" /\ Meets(s, after)
      <4>1. s.resumeAfter = s.prev
        BY <1>2, <1>3, <3>2 DEF Good, OnItsWay, Walking
      <4> QED
        BY <1>5, <3>1, <3>2, <4>1
    <3>3. CASE s.walk = "newer" /\ ~ Meets(s, after)
      <4>1. f < after
        BY <1>9, <1>10, <3>1, <3>3
      <4> QED
        BY <1>5, <3>3, <4>1
    <3>4. CASE s.walk = "older"
      <4>1. f < s.after
        BY <1>2, <1>3, <3>1, <3>4 DEF Good, OlderKept, Walking
      <4>2. f < after
        BY <1>8, <3>1, <3>4, <4>1
      <4> QED
        BY <1>5, <3>4, <4>2
    <3> QED
      BY <3>2, <3>3, <3>4 DEF PassState
  <2> QED
    BY <1>5, <2>1, <2>2, <2>3 DEF Good
<1>12. /\ proc' \in [Pass -> PassState]
       /\ \A o \in Pass : proc'[o] = IF o = p THEN r ELSE proc[o]
       /\ \A o \in Pass : Good(proc[o])'
  BY <1>1, <1>5, <1>6, <1>11, MovesKeep
<1>13. TypeOK'
  <2>1. held' \in SUBSET Fill
    BY <1>3 DEF Inv, TypeOK, PassState
  <2> QED
    BY <1>1, <1>12, <2>1 DEF Inv, TypeOK, PassState
<1>14. NoneLost'
  <2> SUFFICES ASSUME ~ spoilt, NEW f \in (1..there) \ held'
               PROVE  Covered(f)'
    BY <1>1 DEF NoneLost
  <2>1. f \in (1..there) \ held /\ f \notin s.page /\ f \in Nat /\ Covered(f)
    BY <1>3, <1>6 DEF Inv, NoneLost
  <2>2. ASSUME s.walk = "newer", ~ Meets(s, after), f < after, \A g \in s.known : g < s.after => g < f
        PROVE  Covered(f)'
    <3>1. r.walk = "newer" /\ r.pages > 0
      BY <1>2, <1>3, <1>5, <2>2 DEF PassState
    <3>2. after <= s.after
      BY <1>2, <1>3, <1>6, <1>7, <2>1, <2>2 DEF Good, Whole, PassState, Newest
    <3>3. r.at = "list" => Above(f, {g \in r.known : g < r.after})
      <4>1. ASSUME r.at = "list"
            PROVE  \A g \in r.known : g < r.after => g < f
        <5>1. r.known = s.known /\ r.after = after
          BY <1>5, <2>2, <4>1
        <5>2. \A g \in s.known : g < after => g < s.after
          <6>1. s.after \in Nat
            BY BoundAssumption DEF PassState, Newest
          <6> QED
            BY <1>6, <3>2, <6>1
        <5> QED
          BY <2>2, <5>1, <5>2
      <4> QED
        BY <4>1 DEF Above
    <3>4. Takes(r, f)
      BY <1>5, <2>2, <3>1, <3>3 DEF Takes, Walking
    <3>5. Takes(proc'[p], f)
      BY <1>12, <3>4
    <3> QED
      BY <3>5 DEF Covered
  <2>3. CASE Above(f, held)
    <3>1. CASE \A g \in s.page : g < f
      BY <1>3, <2>3, <3>1 DEF Covered, Above
    <3>2. CASE ~ \A g \in s.page : g < f
      <4>1. ~ (s.after \in held) \/ f < s.after
        <5>1. \A g \in s.page : g < s.after /\ g \in Nat
          BY <1>2, <1>3, <1>6 DEF Good, Whole
        <5>2. s.after \in held => s.after < f /\ s.after \in Nat
          BY <1>6, <2>3 DEF Above
        <5>3. s.after \in held => \A g \in s.page : g < f
          BY <2>1, <5>1, <5>2
        <5> QED
          BY <3>2, <5>3
      <4>2. s.walk = "newer" /\ f < s.after
        <5>1. CASE s.after \in held
          <6>1. \A g \in s.page : g < s.after /\ g \in Nat
            BY <1>2, <1>3, <1>6 DEF Good, Whole
          <6>2. s.after < f /\ s.after \in Nat
            BY <1>6, <2>3, <5>1 DEF Above
          <6> QED
            BY <2>1, <3>2, <6>1, <6>2
        <5>2. CASE s.after \notin held
          <6>1. s.walk = "newer" /\ q.pages = 0 /\ s.after = Newest
            BY <1>2, <1>3, <5>2 DEF Good, OnItsWay, Walking, PassState
          <6>2. f < Newest
            BY <1>6, <2>1, BoundAssumption DEF Inv, TypeOK, Cursor, Newest
          <6> QED
            BY <6>1, <6>2
        <5> QED
          BY <5>1, <5>2
      <4>3. after # 0 /\ after \in s.page /\ f < after /\ \A g \in s.page : f < g
        BY <1>8, <2>1, <3>2, <4>2
      <4>4. s.known \subseteq held
        BY <1>2, <1>3 DEF Good, Stands
      <4>5. \A g \in s.known : g < f /\ g \in Nat
        BY <1>6, <2>3, <4>4 DEF Above
      <4>6. ~ Meets(s, after)
        BY <2>1, <4>3, <4>5 DEF Meets
      <4> QED
        BY <2>2, <4>2, <4>3, <4>5, <4>6
    <3> QED
      BY <3>1, <3>2
  <2>4. CASE f < resumeAfter
    BY <1>1, <2>4 DEF Covered
  <2>5. CASE Takes(q, f)
    <3>1. q.walk = "newer" /\ q.pages > 0 /\ f < q.after
          /\ \A g \in q.known : g < q.after => g < f
      BY <1>2, <2>5 DEF Takes, Above
    <3>2. after # 0 /\ after \in s.page /\ f < after /\ \A g \in s.page : f < g
      BY <1>3, <1>8, <2>1, <3>1
    <3>3. \A g \in s.page : g < s.after /\ g \in Nat
      BY <1>2, <1>3, <1>6 DEF Good, Whole
    <3>4. ~ Meets(s, after)
      BY <1>3, <2>1, <3>1, <3>2, <3>3 DEF Meets
    <3> QED
      BY <1>3, <2>2, <3>1, <3>2, <3>4
  <2>6. CASE \E o \in Pass \ {p} : Takes(proc[o], f)
    BY <1>12, <2>6 DEF Covered, Takes, Walking, Above
  <2> QED
    BY <1>2, <2>1, <2>3, <2>4, <2>5, <2>6 DEF Covered
<1> QED
  BY <1>1, <1>6, <1>12, <1>13, <1>14 DEF Inv, IsHeld

\* ... whatever was stored meanwhile.
LEMMA IdleIsGood == ASSUME Inv PROVE Good(Idle)'
BY IdleIs DEF Good, Stands, OnItsWay, OlderKept, IsHeld, Walking, Inv, TypeOK, Fill, Cursor

\* The cursor written stands for all that the old one stood for.
LEMMA WriteKeeps == ASSUME Inv, NEW p \in Pass, Write(p) PROVE Inv'
<1>1. /\ UNCHANGED <<there, held, faults>> /\ proc[p].at = "write" /\ Sets(p, Idle)
      /\ resumeAfter' = proc[p].resumeAfter
      /\ spoilt' = (spoilt \/ resumeAfter # proc[p].prev)
  BY DEF Write
<1>2. PICK r \in PassState : r = proc[p] /\ Good(r)
  BY DEF Inv, TypeOK, PassState
<1>3. /\ proc' \in [Pass -> PassState]
      /\ \A o \in Pass : proc'[o] = IF o = p THEN Idle ELSE proc[o]
      /\ \A o \in Pass : Good(proc[o])'
  <2>1. PICK i \in PassState : i = Idle
    BY IdleIs
  <2>2. Good(i)'
    BY <2>1, IdleIsGood
  <2> QED
    BY <1>1, <2>1, <2>2, MovesKeep
<1>4. resumeAfter' \in Cursor /\ IsHeld(resumeAfter)'
  BY <1>1, <1>2 DEF Good, Stands, IsHeld, PassState
<1>5. TypeOK'
  <2>1. spoilt' \in BOOLEAN
    BY <1>1
  <2> QED
    BY <1>1, <1>3, <1>4, <2>1 DEF Inv, TypeOK, PassState
<1>6. NoneLost'
  <2> SUFFICES ASSUME ~ spoilt', NEW f \in (1..there) \ held
               PROVE  Covered(f)'
    BY <1>1 DEF NoneLost
  <2>1. ~ spoilt /\ resumeAfter = r.prev /\ Covered(f)
    BY <1>1, <1>2 DEF Inv, NoneLost
  <2>2. CASE Above(f, held)
    BY <1>1, <2>2 DEF Covered, Above
  <2>3. CASE f < resumeAfter
    BY <1>1, <1>2, <2>1, <2>3 DEF Covered, Good, OlderKept
  <2>4. CASE Takes(r, f)
    BY <1>1, <1>2, <2>4 DEF Covered, Takes, Walking
  <2>5. CASE \E o \in Pass \ {p} : Takes(proc[o], f)
    BY <1>3, <2>5 DEF Covered, Takes, Walking, Above
  <2> QED
    BY <1>2, <2>1, <2>2, <2>3, <2>4, <2>5 DEF Covered
<1> QED
  BY <1>1, <1>3, <1>4, <1>5, <1>6 DEF Inv

\* A walk that had not passed its first page takes nothing along.
LEMMA FailKeeps == ASSUME Inv, NEW p \in Pass, Fail(p) PROVE Inv'
<1>1. /\ UNCHANGED <<there, held, resumeAfter>> /\ Sets(p, Idle)
      /\ faults < MaxFaults /\ faults' = faults + 1
      /\ spoilt' = (spoilt \/ (proc[p].walk = "newer" /\ proc[p].pages > 0))
  BY DEF Fail
<1>2. /\ proc' \in [Pass -> PassState]
      /\ \A o \in Pass : proc'[o] = IF o = p THEN Idle ELSE proc[o]
      /\ \A o \in Pass : Good(proc[o])'
  <2>1. PICK i \in PassState : i = Idle
    BY IdleIs
  <2>2. Good(i)'
    BY <2>1, IdleIsGood
  <2> QED
    BY <1>1, <2>1, <2>2, MovesKeep
<1>3. TypeOK'
  <2>1. spoilt' \in BOOLEAN
    BY <1>1 DEF Inv, TypeOK
  <2>2. faults' \in 0..MaxFaults
    BY <1>1, BoundAssumption DEF Inv, TypeOK
  <2> QED
    BY <1>1, <1>2, <2>1, <2>2 DEF Inv, TypeOK, PassState
<1>4. NoneLost'
  <2> SUFFICES ASSUME ~ spoilt', NEW f \in (1..there) \ held
               PROVE  Covered(f)'
    BY <1>1 DEF NoneLost
  <2>1. Covered(f) /\ ~ Takes(proc[p], f)
    BY <1>1 DEF Inv, NoneLost, Takes
  <2>2. \A o \in Pass \ {p} : proc'[o] = proc[o]
    BY <1>2
  <2> QED
    BY <1>1, <2>1, <2>2 DEF Covered, Takes, Walking, Above
<1> QED
  BY <1>1, <1>2, <1>3, <1>4 DEF Inv, IsHeld

-----------------------------------------------------------------------------
\* The invariant holds at first, is kept by every step, and so holds.
LEMMA InitOK == Init => Inv
<1> SUFFICES ASSUME Init PROVE Inv
  OBVIOUS
<1>1. proc = [p \in Pass |-> Idle] /\ held = {} /\ resumeAfter = 0 /\ there \in Cursor
  BY DEF Init
<1>2. TypeOK
  <2>1. proc \in [Pass -> PassState]
    BY <1>1, IdleIs
  <2>2. resumeAfter \in Cursor /\ faults \in 0..MaxFaults /\ spoilt \in BOOLEAN
    <3>1. MaxFill \in Nat /\ MaxFaults \in Nat
      BY BoundAssumption
    <3>2. spoilt = FALSE /\ faults = 0
      BY DEF Init
    <3>3. spoilt \in BOOLEAN
      BY <3>2
    <3> QED
      BY <1>1, <3>1, <3>2, <3>3 DEF Cursor
  <2> QED
    BY <1>1, <2>1, <2>2 DEF TypeOK, PassState
<1>3. \A p \in Pass : Good(proc[p])
  BY <1>1, IdleIs, <1>2 DEF Good, Stands, OnItsWay, OlderKept, IsHeld, Walking,
     TypeOK, Fill, Cursor
<1>4. NoneLost
  BY <1>1 DEF NoneLost, Covered, Above
<1> QED
  BY <1>1, <1>2, <1>3, <1>4 DEF Inv, IsHeld

\* Every step keeps the invariant.
LEMMA NextOK == Inv /\ [Next]_vars => Inv'
<1> SUFFICES ASSUME Inv, [Next]_vars PROVE Inv'
  OBVIOUS
<1>1. CASE UNCHANGED vars
  <2>1. TypeOK' /\ NoneLost' /\ held' \subseteq 1..there' /\ IsHeld(resumeAfter)'
    BY <1>1 DEF vars, Inv, TypeOK, NoneLost, Covered, Above, Takes, Walking, IsHeld
  <2>2. \A p \in Pass : Good(proc[p])'
    BY <1>1 DEF vars, Inv, Good, Stands, OnItsWay, OlderKept, Whole, IsHeld, Walking
  <2> QED
    BY <2>1, <2>2 DEF Inv
<1>2. CASE Trade
  BY <1>2, TradeKeeps
<1>3. CASE \E p \in Pass : Begin(p) \/ Step(p) \/ Fail(p)
  BY <1>3, BeginKeeps, ReadKnownKeeps, ListKeeps, StoreKeeps, WriteKeeps, FailKeeps DEF Step
<1> QED
  BY <1>1, <1>2, <1>3 DEF Next

\* The invariant holds at all times.
LEMMA InvHolds == Spec => []Inv
BY InitOK, NextOK, PTL DEF Spec

(* The watermark and the passes keep their types (verified.ts).            *)
THEOREM TypeCorrect == Spec => []TypeOK
<1>1. Inv => TypeOK
  BY DEF Inv
<1> QED
  BY <1>1, InvHolds, PTL

(* No fill is passed over, whatever the size of a page, the caps, and the  *)
(* number of passes and of fills that come in between, as long as no walk  *)
(* breaks off between two pages and no pass writes its cursor over         *)
(* another's (verified.ts, ingestFills).                                   *)
THEOREM SkipsNothing == Spec => []NothingSkipped
<1>1. Inv => NothingSkipped
  <2> SUFFICES ASSUME Inv, ~ spoilt, NEW f \in (1..there) \ held
               PROVE  \/ Above(f, held)
                      \/ f < resumeAfter
                      \/ \E p \in Pass : f \in Ahead(p)
    BY DEF NothingSkipped
  <2>1. Covered(f)
    BY DEF Inv, NoneLost
  <2>2. f \in Fill
    BY BoundAssumption DEF Inv, TypeOK, Cursor, Fill
  <2>3. \A p \in Pass : Takes(proc[p], f) => f \in Ahead(p)
    BY <2>2 DEF Takes, Walking, Ahead
  <2> QED
    BY <2>1, <2>3 DEF Covered
<1> QED
  BY <1>1, InvHolds, PTL
=============================================================================
