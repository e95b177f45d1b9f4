-------------------------- MODULE StrategyBookProofs --------------------------
(***************************************************************************)
(* For any lots, handlers and bounds: the books of StrategyBook keep their *)
(* types, no lot is lost or closed twice and the realised total is what    *)
(* was closed (BookedOnce), and an archived strategy is over               *)
(* (ArchivedIsOver), each but for the races and failures that are named.   *)
(*                                                                         *)
(* Both go by where each handler is in its list of steps: it ends only     *)
(* with its lots booked, and what it found out about the legs and the      *)
(* rules stays true until it acts on it, or is excused.                    *)
(***************************************************************************)
EXTENDS StrategyBook, FiniteSetTheorems, TLAPS

\* Kinds that archive a strategy of which they saw no open leg.
Sees == Rules \cup {"reconcile", "sync", "settle"}

\* What a handler that books lots knows.
Knows(r) ==
    /\ r.kind \in Books
    /\ r.saw \in {"paper", "live"}
    /\ r.left => r.kind \in Sees
    /\ r.step <= Len(After(r.kind))

\* A handler that books lots.
Booking(r) ==
    /\ Knows(r)
    /\ \/ r.at = "legs" /\ r.step = 1 /\ r.todo # {}
       \/ r.at = "close" /\ r.step = 1 /\ Rereads(r.kind)
       \/ r.at = "copy" /\ r.step = 1
       \/ r.at = "rest" /\ (r.todo # {} => r.kind \in Adjusts /\ r.step = 1)

\* One that moves the strategy or its rules.
Moving(r) ==
    /\ r.kind \in Moves
    /\ r.at \in IF r.kind = "start" THEN {"reopen", "set"} ELSE {"set"}
    /\ r.kind \in {"start", "archive"} => r.saw = "draft"
    /\ r.kind = "arm" => r.saw \in {"paper", "live"}
    /\ ~r.left

\* What was closed is booked by a step that is still to come.
ToBook(r) ==
    r.sum # 0 =>
      \/ r.at \in {"legs", "close", "copy"}
      \/ r.at = "rest" /\ \E i \in r.step..Len(After(r.kind)) : After(r.kind)[i] = "write"

Shape(r) == (r = Idle \/ Booking(r) \/ Moving(r)) /\ ToBook(r)

\* The legs are all open again and nobody trades them.
Anew ==
    \A p \in Worker : proc[p].kind = "start" /\ proc[p].at = "set" /\ "total" \notin excused =>
      /\ status = "draft"
      /\ \A i \in Row : leg[i].state # "closed"
      /\ \A q \in Worker : proc[q].kind \notin Books

DraftHasNoMode == status = "draft" => mode = "none"

\* Who saw no open leg, or lists all that are open.
LegsSeen(r) ==
    /\ r.left => Open = {}
    /\ r.kind \in {"close all", "stop"} =>
         /\ \A i \in Open : \E x \in r.todo : x.row = i
         /\ \A x \in r.todo : x.lots = 0

\* Who disarms the rules before he archives has done it by then.
Disarmed(r) ==
    /\ r.at = "rest"
    /\ \/ r.kind = "reconcile" /\ r.step > 1
       \/ r.kind = "strategy rule" /\ r.step = 4
       \/ r.kind = "leg rule" /\ r.step = 4 /\ r.left

Watchful ==
    "status" \notin excused =>
      \A p \in Worker : LegsSeen(proc[p]) /\ (Disarmed(proc[p]) => ~armed)

Inv ==
    /\ TypeOK
    /\ \A p \in Worker : Shape(proc[p])
    /\ Anew
    /\ DraftHasNoMode
    /\ Watchful
    /\ ArchivedIsOver
    /\ BookedOnce

-----------------------------------------------------------------------------
(* Sums of lots.                                                           *)

\* The sum of a table is a number, and changes by what one entry changes.
LEMMA SumChange ==
    ASSUME NEW S, IsFiniteSet(S), NEW f \in [S -> Nat], NEW g \in [S -> Nat], NEW x \in S,
           \A y \in S \ {x} : f[y] = g[y]
    PROVE  Sum(f) \in Nat /\ Sum(g) \in Nat /\ Sum(g) + f[x] = Sum(f) + g[x]
<1> DEFINE rest == UNION {{y} \X (1..f[y]) : y \in S \ {x}}
<1>1. ASSUME NEW h \in [S -> Nat], \A y \in S \ {x} : f[y] = h[y]
      PROVE  IsFiniteSet(rest) /\ Sum(h) = Cardinality(rest) + h[x]
  <2> DEFINE own == {x} \X (1..h[x])
             sets == {{y} \X (1..f[y]) : y \in S \ {x}}
  <2>1. IsFiniteSet({x}) /\ Cardinality({x}) = 1
    BY FS_Singleton
  <2>2. IsFiniteSet(1..h[x]) /\ Cardinality(1..h[x]) = h[x]
    BY FS_Interval, h[x] \in Nat
  <2>3. IsFiniteSet(own) /\ Cardinality(own) = h[x]
    <3>1. IsFiniteSet(own) /\ Cardinality(own) = Cardinality({x}) * Cardinality(1..h[x])
      BY <2>1, <2>2, FS_Product
    <3> QED
      BY <2>1, <2>2, <3>1
  <2>4. IsFiniteSet(sets)
    <3>1. IsFiniteSet(S \ {x})
      BY FS_Subset
    <3> DEFINE box == [y \in S \ {x} |-> {y} \X (1..f[y])]
    <3>2. box \in Surjection(S \ {x}, sets)
      BY DEF Surjection
    <3> QED
      BY <3>1, <3>2, FS_Surjection
  <2>5. \A s \in sets : IsFiniteSet(s)
    <3> SUFFICES ASSUME NEW y \in S \ {x} PROVE IsFiniteSet({y} \X (1..f[y]))
      OBVIOUS
    <3>1. f[y] \in Int /\ 1 \in Int
      OBVIOUS
    <3>2. IsFiniteSet({y}) /\ IsFiniteSet(1..f[y])
      BY <3>1, FS_Singleton, FS_Interval
    <3> QED
      BY <3>2, FS_Product
  <2>6. IsFiniteSet(rest)
    BY <2>4, <2>5, FS_UNION
  <2>7. rest \cap own = {}
    OBVIOUS
  <2>8. UNION {{y} \X (1..h[y]) : y \in DOMAIN h} = rest \cup own
    <3>1. DOMAIN h = S /\ \A y \in S \ {x} : h[y] = f[y]
      BY <1>1
    <3>2. {{y} \X (1..h[y]) : y \in S} = {{y} \X (1..h[y]) : y \in S \ {x}} \cup {own}
      OBVIOUS
    <3>3. {{y} \X (1..h[y]) : y \in S \ {x}} = sets
      BY <3>1
    <3>4. UNION (sets \cup {own}) = rest \cup own
      OBVIOUS
    <3> QED
      BY <3>1, <3>2, <3>3, <3>4
  <2>9. Cardinality(rest \cup own)
          = Cardinality(rest) + Cardinality(own) - Cardinality(rest \cap own)
    BY <2>3, <2>6, FS_Union
  <2>10. Cardinality(rest \cap own) = 0
    BY <2>7, FS_EmptySet
  <2>11. Cardinality(rest) \in Nat
    BY <2>6, FS_CardinalityType
  <2>12. Cardinality(rest \cup own) = Cardinality(rest) + h[x]
    BY <2>3, <2>9, <2>10, <2>11, h[x] \in Nat
  <2> QED
    BY <2>6, <2>8, <2>12 DEF Sum
<1> HIDE DEF rest
<1>2. Sum(f) = Cardinality(rest) + f[x] /\ Sum(g) = Cardinality(rest) + g[x]
  BY <1>1
<1>3. Cardinality(rest) \in Nat
  BY <1>1, FS_CardinalityType
<1> QED
  BY <1>2, <1>3, f[x] \in Nat, g[x] \in Nat

\* A table of zeros sums to nothing.
LEMMA SumZero ==
    ASSUME NEW S, NEW f, DOMAIN f = S, \A x \in S : f[x] = 0
    PROVE  Sum(f) = 0
<1>1. UNION {{x} \X (1..f[x]) : x \in DOMAIN f} = {}
  OBVIOUS
<1> QED
  BY <1>1, FS_EmptySet DEF Sum

\* There are finitely many rows, and they are numbers.
LEMMA RowsFinite == IsFiniteSet(Row) /\ Row \subseteq Nat
  BY FS_Interval, BoundAssumption DEF Row

\* What a row counts for among legs of some states.
Counts(l, states) == IF l.state \in states THEN l.lots ELSE 0

\* The lots of the legs are a number, and change by what one row changes.
LEMMA LotsChange ==
    ASSUME NEW states, leg \in [Row -> Leg], leg' \in [Row -> Leg], NEW i \in Row,
           \A j \in Row \ {i} : leg'[j] = leg[j]
    PROVE  /\ LotsOf(states) \in Nat /\ LotsOf(states)' \in Nat
           /\ LotsOf(states)' + Counts(leg[i], states) = LotsOf(states) + Counts(leg'[i], states)
<1> DEFINE f == [j \in Row |-> Counts(leg[j], states)]
           g == [j \in Row |-> Counts(leg'[j], states)]
<1>1. f \in [Row -> Nat] /\ g \in [Row -> Nat] /\ \A j \in Row \ {i} : f[j] = g[j]
  BY DEF Counts, Leg
<1>2. LotsOf(states) = Sum(f) /\ LotsOf(states)' = Sum(g)
  BY DEF LotsOf, Counts
<1>3. f[i] = Counts(leg[i], states) /\ g[i] = Counts(leg'[i], states)
  OBVIOUS
<1> HIDE DEF f, g
<1>4. IsFiniteSet(Row)
  BY RowsFinite
<1>5. Sum(f) \in Nat /\ Sum(g) \in Nat /\ Sum(g) + f[i] = Sum(f) + g[i]
  BY <1>1, <1>4, SumChange
<1> QED
  BY <1>2, <1>3, <1>5

\* What a handler has taken off a leg and not given a row yet.
Carries(r) == IF r.at = "copy" THEN r.has.lots ELSE 0

\* What the handlers carry and have to book changes by what one of them does.
LEMMA ProcChange ==
    ASSUME proc \in [Worker -> Proc], proc' \in [Worker -> Proc], NEW p \in Worker,
           \A q \in Worker \ {p} : proc'[q] = proc[q]
    PROVE  /\ Copied \in Nat /\ Copied' \in Nat /\ Unbooked \in Nat /\ Unbooked' \in Nat
           /\ Copied' + Carries(proc[p]) = Copied + Carries(proc'[p])
           /\ Unbooked' + proc[p].sum = Unbooked + proc'[p].sum
<1> USE WorkerAssumption
<1> DEFINE f == [q \in Worker |-> Carries(proc[q])]
           g == [q \in Worker |-> Carries(proc'[q])]
           s == [q \in Worker |-> proc[q].sum]
           t == [q \in Worker |-> proc'[q].sum]
<1>1. \A r \in Proc : Carries(r) \in Nat /\ r.sum \in Nat
  BY DEF Carries, Proc, Item
<1>2. /\ f \in [Worker -> Nat] /\ g \in [Worker -> Nat]
      /\ \A q \in Worker \ {p} : f[q] = g[q]
      /\ f[p] = Carries(proc[p]) /\ g[p] = Carries(proc'[p])
  BY <1>1
<1>3. /\ s \in [Worker -> Nat] /\ t \in [Worker -> Nat]
      /\ \A q \in Worker \ {p} : s[q] = t[q]
      /\ s[p] = proc[p].sum /\ t[p] = proc'[p].sum
  BY <1>1
<1>4. Copied = Sum(f) /\ Copied' = Sum(g)
  BY DEF Copied, Carries
<1>5. Unbooked = Sum(s) /\ Unbooked' = Sum(t)
  BY DEF Unbooked
<1> HIDE DEF f, g, s, t
<1>6. Copied \in Nat /\ Copied' \in Nat /\ Copied' + Carries(proc[p]) = Copied + Carries(proc'[p])
  BY <1>2, <1>4, SumChange
<1>7. Unbooked \in Nat /\ Unbooked' \in Nat /\ Unbooked' + proc[p].sum = Unbooked + proc'[p].sum
  BY <1>3, <1>5, SumChange
<1> QED
  BY <1>6, <1>7

\* As for one that carries the same before and after, and books what it had to.
LEMMA ProcBooks ==
    ASSUME proc \in [Worker -> Proc], proc' \in [Worker -> Proc], NEW p \in Worker,
           \A q \in Worker \ {p} : proc'[q] = proc[q], Carries(proc'[p]) = Carries(proc[p])
    PROVE  /\ Copied \in Nat /\ Copied' = Copied /\ Unbooked \in Nat /\ Unbooked' \in Nat
           /\ proc'[p].sum = 0 => Unbooked' + proc[p].sum = Unbooked
           /\ proc'[p].sum = proc[p].sum => Unbooked' = Unbooked
<1>1. /\ Copied \in Nat /\ Copied' \in Nat /\ Unbooked \in Nat /\ Unbooked' \in Nat
      /\ Copied' + Carries(proc[p]) = Copied + Carries(proc'[p])
      /\ Unbooked' + proc[p].sum = Unbooked + proc'[p].sum
  BY ProcChange
<1>2. PICK c \in Nat, s \in Nat, t \in Nat : c = Carries(proc[p]) /\ s = proc[p].sum /\ t = proc'[p].sum
  BY DEF Carries, Proc, Item
<1>3. PICK u \in Nat, v \in Nat, d \in Nat, e \in Nat :
         u = Unbooked /\ v = Unbooked' /\ d = Copied /\ e = Copied'
  BY <1>1
<1>4. d = e
  <2>1. e + c = d + c
    BY <1>1, <1>2, <1>3
  <2> QED
    BY <2>1
<1>5. v + s = u + t
  BY <1>1, <1>2, <1>3
<1>6. (t = 0 => v + s = u) /\ (t = s => v = u)
  BY <1>5
<1> QED
  BY <1>1, <1>2, <1>3, <1>4, <1>6

-----------------------------------------------------------------------------
(* The steps of a handler.                                                 *)

\* How many there are, and the place of each.
Places(s, n, total_, left_, disarm_, over_, write_, add_) ==
    /\ Len(s) = n
    /\ \A i \in 1..n :
         /\ s[i] = "total" <=> i = total_
         /\ s[i] = "left" <=> i = left_
         /\ s[i] = "disarm" <=> i = disarm_
         /\ s[i] = "disarmIfOver" <=> i = over_
         /\ s[i] = "write" <=> i = write_
         /\ s[i] = "add" <=> i = add_

\* Where each handler has its steps.
LEMMA Table ==
    /\ Places(After("close leg"), 2, 1, 0, 0, 0, 2, 0)
    /\ Places(After("close all"), 3, 1, 0, 3, 0, 2, 0)
    /\ Places(After("stop"), 3, 1, 0, 3, 0, 2, 0)
    /\ Places(After("reconcile"), 4, 3, 2, 1, 0, 4, 0)
    /\ Places(After("strategy rule"), 4, 1, 2, 3, 0, 4, 0)
    /\ Places(After("leg rule"), 4, 1, 2, 0, 3, 4, 0)
    /\ Places(After("sync"), 4, 2, 1, 0, 4, 3, 0)
    /\ Places(After("settle"), 4, 2, 1, 0, 4, 3, 0)
    /\ Places(After("adjust"), 1, 0, 0, 0, 0, 1, 0)
    /\ Places(After("adjust and add"), 2, 0, 0, 0, 0, 1, 2)
<1>1. ASSUME NEW s, s = <<"total", "write">> PROVE Places(s, 2, 1, 0, 0, 0, 2, 0)
  <2>1. Len(s) = 2 /\ s[1] = "total" /\ s[2] = "write"
    BY <1>1
  <2>2. ASSUME NEW i \in 1..2 PROVE i = 1 \/ i = 2
    OBVIOUS
  <2> QED
    BY <2>1, <2>2 DEF Places
<1>2. Places(After("close leg"), 2, 1, 0, 0, 0, 2, 0)
  BY <1>1 DEF After
<1>3. ASSUME NEW s, s = <<"total", "write", "disarm">> PROVE Places(s, 3, 1, 0, 3, 0, 2, 0)
  <2>1. Len(s) = 3 /\ s[1] = "total" /\ s[2] = "write" /\ s[3] = "disarm"
    BY <1>3
  <2>2. ASSUME NEW i \in 1..3 PROVE i = 1 \/ i = 2 \/ i = 3
    OBVIOUS
  <2> QED
    BY <2>1, <2>2 DEF Places
<1>4. Places(After("close all"), 3, 1, 0, 3, 0, 2, 0)
  BY <1>3 DEF After
<1>5. Places(After("stop"), 3, 1, 0, 3, 0, 2, 0)
  BY <1>3 DEF After
<1>6. ASSUME NEW s, s = <<"disarm", "left", "total", "write">> PROVE Places(s, 4, 3, 2, 1, 0, 4, 0)
  <2>1. Len(s) = 4 /\ s[1] = "disarm" /\ s[2] = "left" /\ s[3] = "total" /\ s[4] = "write"
    BY <1>6
  <2>2. ASSUME NEW i \in 1..4 PROVE i = 1 \/ i = 2 \/ i = 3 \/ i = 4
    OBVIOUS
  <2> QED
    BY <2>1, <2>2 DEF Places
<1>7. Places(After("reconcile"), 4, 3, 2, 1, 0, 4, 0)
  BY <1>6 DEF After
<1>8. ASSUME NEW s, s = <<"total", "left", "disarm", "write">> PROVE Places(s, 4, 1, 2, 3, 0, 4, 0)
  <2>1. Len(s) = 4 /\ s[1] = "total" /\ s[2] = "left" /\ s[3] = "disarm" /\ s[4] = "write"
    BY <1>8
  <2>2. ASSUME NEW i \in 1..4 PROVE i = 1 \/ i = 2 \/ i = 3 \/ i = 4
    OBVIOUS
  <2> QED
    BY <2>1, <2>2 DEF Places
<1>9. Places(After("strategy rule"), 4, 1, 2, 3, 0, 4, 0)
  BY <1>8 DEF After
<1>10. ASSUME NEW s, s = <<"total", "left", "disarmIfOver", "write">> PROVE Places(s, 4, 1, 2, 0, 3, 4, 0)
  <2>1. Len(s) = 4 /\ s[1] = "total" /\ s[2] = "left" /\ s[3] = "disarmIfOver" /\ s[4] = "write"
    BY <1>10
  <2>2. ASSUME NEW i \in 1..4 PROVE i = 1 \/ i = 2 \/ i = 3 \/ i = 4
    OBVIOUS
  <2> QED
    BY <2>1, <2>2 DEF Places
<1>11. Places(After("leg rule"), 4, 1, 2, 0, 3, 4, 0)
  BY <1>10 DEF After
<1>12. ASSUME NEW s, s = <<"left", "total", "write", "disarmIfOver">> PROVE Places(s, 4, 2, 1, 0, 4, 3, 0)
  <2>1. Len(s) = 4 /\ s[1] = "left" /\ s[2] = "total" /\ s[3] = "write" /\ s[4] = "disarmIfOver"
    BY <1>12
  <2>2. ASSUME NEW i \in 1..4 PROVE i = 1 \/ i = 2 \/ i = 3 \/ i = 4
    OBVIOUS
  <2> QED
    BY <2>1, <2>2 DEF Places
<1>13. Places(After("sync"), 4, 2, 1, 0, 4, 3, 0)
  BY <1>12 DEF After
<1>14. Places(After("settle"), 4, 2, 1, 0, 4, 3, 0)
  BY <1>12 DEF After
<1>15. ASSUME NEW s, s = <<"write">> PROVE Places(s, 1, 0, 0, 0, 0, 1, 0)
  <2>1. Len(s) = 1 /\ s[1] = "write"
    BY <1>15
  <2>2. ASSUME NEW i \in 1..1 PROVE i = 1
    OBVIOUS
  <2> QED
    BY <2>1, <2>2 DEF Places
<1>16. Places(After("adjust"), 1, 0, 0, 0, 0, 1, 0)
  BY <1>15 DEF After
<1>17. ASSUME NEW s, s = <<"write", "add">> PROVE Places(s, 2, 0, 0, 0, 0, 1, 2)
  <2>1. Len(s) = 2 /\ s[1] = "write" /\ s[2] = "add"
    BY <1>17
  <2>2. ASSUME NEW i \in 1..2 PROVE i = 1 \/ i = 2
    OBVIOUS
  <2> QED
    BY <2>1, <2>2 DEF Places
<1>18. Places(After("adjust and add"), 2, 0, 0, 0, 0, 1, 2)
  BY <1>17 DEF After
<1> QED
  BY <1>2, <1>4, <1>5, <1>7, <1>9, <1>11, <1>13, <1>14, <1>16, <1>18

\* What the order of its steps says of a handler at one of them.
Order(kind, i) ==
    LET is(step) == After(kind)[i] = step IN
    /\ is("left") => kind \in Sees
    /\ is("add") => kind \in Adjusts /\ i = 2
    /\ kind \in {"close all", "stop"} => (is("write") <=> i = 2) /\ (is("disarm") <=> i = 3)
    /\ kind = "reconcile" => (is("write") <=> i = 4) /\ (is("disarm") <=> i = 1)
    /\ kind = "strategy rule" => (is("write") <=> i = 4) /\ (is("disarm") <=> i = 3)
    /\ kind = "leg rule" => (is("write") <=> i = 4) /\ (is("disarmIfOver") <=> i = 3)
    /\ kind \in {"sync", "settle"} => (is("write") <=> i = 3) /\ (is("disarmIfOver") <=> i = 4)

\* What is used of the steps of a handler.
Steps(kind) ==
    /\ Len(After(kind)) \in 1..4
    /\ \E i \in 1..Len(After(kind)) : After(kind)[i] = "write"
    /\ \A i \in 1..Len(After(kind)) : Order(kind, i)
    /\ kind = "adjust and add" => Len(After(kind)) = 2
    /\ kind \in {"close all", "stop"} => Len(After(kind)) = 3
    /\ kind \in {"sync", "settle"} => Len(After(kind)) = 4

\* The places are among the steps, 0 for a step the handler does not have.
Within(n, l, d, o, w, a) ==
    n \in 1..4 /\ w \in 1..n /\ l \in 0..n /\ d \in 0..n /\ o \in 0..n /\ a \in 0..n

\* What is used of the steps of a handler, said of their places.
Fits(kind, n, left_, disarm_, over_, write_, add_) ==
    /\ left_ = 0 \/ kind \in Sees
    /\ add_ = 0 \/ (kind \in Adjusts /\ add_ = 2)
    /\ kind \in {"close all", "stop"} => n = 3 /\ write_ = 2 /\ disarm_ = 3
    /\ kind = "reconcile" => write_ = 4 /\ disarm_ = 1
    /\ kind = "strategy rule" => write_ = 4 /\ disarm_ = 3
    /\ kind = "leg rule" => write_ = 4 /\ over_ = 3
    /\ kind \in {"sync", "settle"} => n = 4 /\ write_ = 3 /\ over_ = 4
    /\ kind = "adjust and add" => n = 2

\* From the places of its steps what is used of a handler.
LEMMA PlacesOrder ==
    ASSUME NEW kind, NEW n, NEW t, NEW l, NEW d, NEW o, NEW w, NEW a,
           Places(After(kind), n, t, l, d, o, w, a),
           Within(n, l, d, o, w, a), Fits(kind, n, l, d, o, w, a)
    PROVE  Steps(kind)
<1>1. n \in 1..4 /\ w \in 1..n /\ l \in 0..n /\ d \in 0..n /\ o \in 0..n /\ a \in 0..n
  BY DEF Within
<1>2. Len(After(kind)) = n /\ After(kind)[w] = "write"
  BY <1>1 DEF Places
<1>3. ASSUME NEW i \in 1..n PROVE Order(kind, i)
  <2>1. /\ After(kind)[i] = "left" <=> i = l
        /\ After(kind)[i] = "disarm" <=> i = d
        /\ After(kind)[i] = "disarmIfOver" <=> i = o
        /\ After(kind)[i] = "write" <=> i = w
        /\ After(kind)[i] = "add" <=> i = a
    BY <1>1 DEF Places
  <2>2. i # 0
    BY <1>1
  <2> QED
    BY <2>1, <2>2 DEF Fits, Order
<1>4. /\ kind = "adjust and add" => n = 2
      /\ kind \in {"close all", "stop"} => n = 3
      /\ kind \in {"sync", "settle"} => n = 4
  BY DEF Fits
<1> QED
  BY <1>1, <1>2, <1>3, <1>4 DEF Steps

\* Every handler has steps, among them a write.
LEMMA Ordered ==
    ASSUME NEW kind \in Books
    PROVE  Steps(kind)
<1>1. CASE kind = "close leg"
  <2>0. Within(2, 0, 0, 0, 2, 0)
    BY DEF Within
  <2>1. Fits(kind, 2, 0, 0, 0, 2, 0)
    BY <1>1 DEF Fits, Sees, Rules, Adjusts
  <2>2. Places(After(kind), 2, 1, 0, 0, 0, 2, 0)
    BY <1>1, Table
  <2> QED
    BY <2>0, <2>1, <2>2, PlacesOrder, Zenon
<1>2. CASE kind = "close all"
  <2>0. Within(3, 0, 3, 0, 2, 0)
    BY DEF Within
  <2>1. Fits(kind, 3, 0, 3, 0, 2, 0)
    BY <1>2 DEF Fits, Sees, Rules, Adjusts
  <2>2. Places(After(kind), 3, 1, 0, 3, 0, 2, 0)
    BY <1>2, Table
  <2> QED
    BY <2>0, <2>1, <2>2, PlacesOrder, Zenon
<1>3. CASE kind = "stop"
  <2>0. Within(3, 0, 3, 0, 2, 0)
    BY DEF Within
  <2>1. Fits(kind, 3, 0, 3, 0, 2, 0)
    BY <1>3 DEF Fits, Sees, Rules, Adjusts
  <2>2. Places(After(kind), 3, 1, 0, 3, 0, 2, 0)
    BY <1>3, Table
  <2> QED
    BY <2>0, <2>1, <2>2, PlacesOrder, Zenon
<1>4. CASE kind = "reconcile"
  <2>0. Within(4, 2, 1, 0, 4, 0)
    BY DEF Within
  <2>1. Fits(kind, 4, 2, 1, 0, 4, 0)
    BY <1>4 DEF Fits, Sees, Rules, Adjusts
  <2>2. Places(After(kind), 4, 3, 2, 1, 0, 4, 0)
    BY <1>4, Table
  <2> QED
    BY <2>0, <2>1, <2>2, PlacesOrder, Zenon
<1>5. CASE kind = "strategy rule"
  <2>0. Within(4, 2, 3, 0, 4, 0)
    BY DEF Within
  <2>1. Fits(kind, 4, 2, 3, 0, 4, 0)
    BY <1>5 DEF Fits, Sees, Rules, Adjusts
  <2>2. Places(After(kind), 4, 1, 2, 3, 0, 4, 0)
    BY <1>5, Table
  <2> QED
    BY <2>0, <2>1, <2>2, PlacesOrder, Zenon
<1>6. CASE kind = "leg rule"
  <2>0. Within(4, 2, 0, 3, 4, 0)
    BY DEF Within
  <2>1. Fits(kind, 4, 2, 0, 3, 4, 0)
    BY <1>6 DEF Fits, Sees, Rules, Adjusts
  <2>2. Places(After(kind), 4, 1, 2, 0, 3, 4, 0)
    BY <1>6, Table
  <2> QED
    BY <2>0, <2>1, <2>2, PlacesOrder, Zenon
<1>7. CASE kind = "sync"
  <2>0. Within(4, 1, 0, 4, 3, 0)
    BY DEF Within
  <2>1. Fits(kind, 4, 1, 0, 4, 3, 0)
    BY <1>7 DEF Fits, Sees, Rules, Adjusts
  <2>2. Places(After(kind), 4, 2, 1, 0, 4, 3, 0)
    BY <1>7, Table
  <2> QED
    BY <2>0, <2>1, <2>2, PlacesOrder, Zenon
<1>8. CASE kind = "settle"
  <2>0. Within(4, 1, 0, 4, 3, 0)
    BY DEF Within
  <2>1. Fits(kind, 4, 1, 0, 4, 3, 0)
    BY <1>8 DEF Fits, Sees, Rules, Adjusts
  <2>2. Places(After(kind), 4, 2, 1, 0, 4, 3, 0)
    BY <1>8, Table
  <2> QED
    BY <2>0, <2>1, <2>2, PlacesOrder, Zenon
<1>9. CASE kind = "adjust"
  <2>0. Within(1, 0, 0, 0, 1, 0)
    BY DEF Within
  <2>1. Fits(kind, 1, 0, 0, 0, 1, 0)
    BY <1>9 DEF Fits, Sees, Rules, Adjusts
  <2>2. Places(After(kind), 1, 0, 0, 0, 0, 1, 0)
    BY <1>9, Table
  <2> QED
    BY <2>0, <2>1, <2>2, PlacesOrder, Zenon
<1>10. CASE kind = "adjust and add"
  <2>0. Within(2, 0, 0, 0, 1, 2)
    BY DEF Within
  <2>1. Fits(kind, 2, 0, 0, 0, 1, 2)
    BY <1>10 DEF Fits, Sees, Rules, Adjusts
  <2>2. Places(After(kind), 2, 0, 0, 0, 0, 1, 2)
    BY <1>10, Table
  <2> QED
    BY <2>0, <2>1, <2>2, PlacesOrder, Zenon
<1> QED
  BY <1>1, <1>2, <1>3, <1>4, <1>5, <1>6, <1>7, <1>8, <1>9, <1>10 DEF Books, Adjusts, Rules

\* Who has nothing to do has nothing to book, and saw nothing.
LEMMA IdleShape ==
    /\ Idle \in Proc /\ Shape(Idle)
    /\ Idle.sum = 0 /\ Idle.at = "idle" /\ Idle.kind = "none" /\ ~Idle.left
<1>1. NoItem \in Item
  BY LotsAssumption, BoundAssumption DEF NoItem, Item, Row
<1> QED
  BY <1>1 DEF Idle, Proc, Shape, ToBook, Status

\* Going on after a leg keeps what there is to book.
LEMMA GoesOn ==
    ASSUME NEW r \in Proc, Knows(r), r.step = 1
    PROVE  /\ GoOn(r) \in Proc /\ Shape(GoOn(r))
           /\ GoOn(r).sum = r.sum /\ GoOn(r).at # "copy" /\ ~Disarmed(GoOn(r))
           /\ \/ GoOn(r) = Idle
              \/ /\ GoOn(r).kind = r.kind /\ GoOn(r).saw = r.saw /\ GoOn(r).left = r.left
                 /\ GoOn(r).todo = r.todo /\ GoOn(r).step = 1 /\ GoOn(r).at \in {"rest", "legs"}
<1> DEFINE t == [r EXCEPT !.at = IF r.kind \in Adjusts \/ r.todo = {} THEN "rest" ELSE "legs",
                         !.has = NoItem]
<1>1. NoItem \in Item
  BY RowsFinite, LotsAssumption, BoundAssumption DEF NoItem, Item, Row
<1>2. /\ t \in Proc /\ t.kind = r.kind /\ t.saw = r.saw /\ t.left = r.left /\ t.todo = r.todo
      /\ t.step = 1 /\ t.sum = r.sum /\ t.has = NoItem
      /\ t.at = IF r.kind \in Adjusts \/ r.todo = {} THEN "rest" ELSE "legs"
  BY <1>1 DEF Proc
<1>3. Idle \in Proc /\ Shape(Idle) /\ Idle.sum = 0 /\ Idle.at = "idle"
  BY IdleShape
<1>4. CASE Done(r)
  <2>1. GoOn(r) = Idle /\ r.sum = 0
    BY <1>4 DEF GoOn, Done
  <2> QED
    BY <1>3, <2>1 DEF Disarmed
<1>5. CASE ~Done(r)
  <2>1. GoOn(r) = t
    BY <1>5 DEF GoOn
  <2>2. Booking(t)
    BY <1>2 DEF Booking, Knows
  <2>3. ToBook(t)
    <3>1. \E i \in 1..Len(After(t.kind)) : After(t.kind)[i] = "write"
      BY <1>2, Ordered DEF Steps, Knows
    <3>2. t.at \in {"legs", "rest"}
      BY <1>2
    <3> HIDE DEF t
    <3> QED
      BY <1>2, <3>1, <3>2 DEF ToBook
  <2>4. ~Disarmed(t)
    <3> HIDE DEF t
    <3> QED
      BY <1>2 DEF Disarmed
  <2> HIDE DEF t
  <2> QED
    BY <1>2, <2>1, <2>2, <2>3, <2>4 DEF Shape
<1> QED
  BY <1>4, <1>5

\* A step further, what is not booked yet still has its write to come.
LEMMA Advances ==
    ASSUME NEW r \in Proc, Booking(r), r.at = "rest", ToBook(r),
           After(r.kind)[r.step] = "write" => r.sum = 0
    PROVE  /\ Advance(r) \in Proc /\ Shape(Advance(r))
           /\ Advance(r).sum = r.sum /\ Advance(r).at # "copy"
           /\ \/ Advance(r) = Idle
              \/ /\ Advance(r).kind = r.kind /\ Advance(r).saw = r.saw
                 /\ Advance(r).left = r.left /\ Advance(r).todo = r.todo
                 /\ \/ Advance(r).at = "legs" /\ r.todo # {}
                    \/ Advance(r).at = "rest" /\ Advance(r).step = r.step + 1
<1> DEFINE t == [r EXCEPT !.step = @ + 1]
           u == [r EXCEPT !.at = "legs"]
           n == Len(After(r.kind))
<1>1. r.kind \in Books /\ r.step \in 1..4 /\ n \in 1..4 /\ r.step <= n
  BY Ordered DEF Steps, Booking, Knows, Proc
<1>2. CASE r.todo # {}
  <2>1. /\ u \in Proc /\ u.kind = r.kind /\ u.saw = r.saw /\ u.left = r.left /\ u.todo = r.todo
        /\ u.step = 1 /\ u.sum = r.sum /\ u.at = "legs"
    BY <1>2 DEF Proc, Booking, Knows
  <2>2. Booking(u) /\ ToBook(u)
    BY <1>2, <2>1 DEF Booking, Knows, ToBook
  <2>3. Advance(r) = u
    BY <1>2 DEF Advance
  <2> HIDE DEF u
  <2> QED
    BY <1>2, <2>1, <2>2, <2>3 DEF Shape
<1>3. CASE r.todo = {} /\ r.step < n
  <2>1. /\ t \in Proc /\ t.kind = r.kind /\ t.saw = r.saw /\ t.left = r.left /\ t.todo = r.todo
        /\ t.step = r.step + 1 /\ t.sum = r.sum /\ t.at = "rest"
    <3>1. r.step + 1 \in 1..4
      <4> HIDE DEF n
      <4> QED
        BY <1>1, <1>3
    <3> QED
      BY <1>3, <3>1 DEF Proc
  <2>2. Booking(t)
    BY <1>1, <1>3, <2>1 DEF Booking, Knows
  <2>3. ToBook(t)
    <3>1. SUFFICES ASSUME t.sum # 0
                   PROVE  \E i \in t.step..n : After(r.kind)[i] = "write"
      BY <2>1 DEF ToBook
    <3>2. PICK i \in r.step..n : After(r.kind)[i] = "write"
      BY <2>1, <3>1 DEF ToBook
    <3>3. i # r.step
      BY <2>1, <3>1, <3>2
    <3>4. i \in t.step..n
      BY <1>1, <2>1, <3>2, <3>3
    <3> QED
      BY <3>2, <3>4
  <2>4. Advance(r) = t
    BY <1>3 DEF Advance
  <2> HIDE DEF t
  <2> QED
    BY <2>1, <2>2, <2>3, <2>4 DEF Shape
<1>4. CASE r.todo = {} /\ ~(r.step < n)
  <2>1. r.step = n
    BY <1>1, <1>4
  <2>2. r.sum = 0
    <3> SUFFICES ASSUME r.sum # 0 PROVE FALSE
      OBVIOUS
    <3>1. PICK i \in r.step..n : After(r.kind)[i] = "write"
      BY DEF ToBook
    <3>2. i = r.step
      BY <1>1, <2>1, <3>1
    <3> QED
      BY <3>1, <3>2
  <2>3. Advance(r) = Idle
    BY <1>4 DEF Advance
  <2> QED
    BY <2>2, <2>3, IdleShape
<1> QED
  BY <1>2, <1>3, <1>4

-----------------------------------------------------------------------------
(* What a step of one handler leaves as it is.                             *)

\* The step of one handler.
Turns(p, t) ==
    /\ p \in Worker /\ t \in Proc /\ Shape(t)
    /\ proc' = [proc EXCEPT ![p] = t]

\* The other handlers stay where they are.
LEMMA OthersStay ==
    ASSUME TypeOK, NEW p, NEW t, Turns(p, t)
    PROVE  /\ proc' \in [Worker -> Proc] /\ proc'[p] = t
           /\ \A q \in Worker \ {p} : proc'[q] = proc[q]
  BY DEF TypeOK, Turns

\* Every handler is at a place of its list if the one that moved is.
LEMMA ShapesKeep ==
    ASSUME TypeOK, \A q \in Worker : Shape(proc[q]), NEW p, NEW t, Turns(p, t)
    PROVE  (\A q \in Worker : Shape(proc[q]))'
  BY OthersStay DEF Turns

\* A start that found all legs open and nobody at work still does: nobody sets out to
\* trade a draft, and only who trades closes a leg.
LEMMA AnewKeeps ==
    ASSUME TypeOK, Anew, NEW p, NEW t, Turns(p, t), excused \subseteq excused', status' = status,
           t.kind \in Books => proc[p].kind \in Books \/ Active,
           t.kind = "start" /\ t.at = "set" => proc[p].kind = "start" /\ proc[p].at = "set",
           \/ \A i \in Row : leg'[i].state = "closed" => leg[i].state = "closed"
           \/ proc[p].kind \in Books
    PROVE  Anew'
<1> SUFFICES ASSUME NEW q \in Worker, proc'[q].kind = "start", proc'[q].at = "set",
                    "total" \notin excused'
             PROVE  /\ status' = "draft"
                    /\ \A i \in Row : leg'[i].state # "closed"
                    /\ \A w \in Worker : proc'[w].kind \notin Books
  BY DEF Anew
<1>1. proc[q].kind = "start" /\ proc[q].at = "set"
  BY OthersStay
<1>2. /\ status = "draft"
      /\ \A i \in Row : leg[i].state # "closed"
      /\ \A w \in Worker : proc[w].kind \notin Books
  BY <1>1 DEF Anew
<1>3. p \in Worker
  BY DEF Turns
<1> QED
  BY <1>2, <1>3, OthersStay DEF Active

\* What the handlers saw of the legs and did to the rules stays true while no leg opens
\* and no rule is armed.
LEMMA WatchKeeps ==
    ASSUME TypeOK, Watchful, NEW p, NEW t, Turns(p, t), excused \subseteq excused',
           Open' \subseteq Open, armed' => armed,
           "status" \notin excused' => LegsSeen(t)' /\ (Disarmed(t) => ~armed')
    PROVE  Watchful'
<1> SUFFICES ASSUME "status" \notin excused', NEW q \in Worker
             PROVE  LegsSeen(proc[q])' /\ (Disarmed(proc'[q]) => ~armed')
  BY DEF Watchful
<1>1. CASE q = p
  <2>1. proc'[q] = t
    BY <1>1, OthersStay
  <2> QED
    BY <2>1 DEF LegsSeen
<1>2. CASE q # p
  <2>1. proc'[q] = proc[q]
    BY <1>2, OthersStay
  <2>2. LegsSeen(proc[q]) /\ (Disarmed(proc[q]) => ~armed)
    BY DEF Watchful
  <2> QED
    BY <2>1, <2>2 DEF LegsSeen
<1> QED
  BY <1>1, <1>2

\* A strategy that is over stays so while no leg opens and no rule is armed, and whoever is
\* about to disarm the rules does.
LEMMA OverKeeps ==
    ASSUME TypeOK, ArchivedIsOver, NEW p, NEW t, Turns(p, t), excused \subseteq excused',
           status' = status, mode' = mode, Open' \subseteq Open, armed' => armed,
           "status" \notin excused' /\ AboutToDisarm(p) => ~armed'
    PROVE  ArchivedIsOver'
<1> SUFFICES ASSUME status = "archived", mode # "none", "status" \notin excused', armed'
             PROVE  Open' = {} /\ \E q \in Worker : AboutToDisarm(q)'
  BY DEF ArchivedIsOver
<1>1. Open = {} /\ \E q \in Worker : AboutToDisarm(q)
  BY DEF ArchivedIsOver
<1>2. PICK q \in Worker : AboutToDisarm(q)
  BY <1>1
<1>3. q # p
  BY <1>2
<1>4. proc'[q] = proc[q]
  BY <1>3, OthersStay
<1>5. AboutToDisarm(q)'
  BY <1>2, <1>4 DEF AboutToDisarm, Does, Archives
<1> QED
  BY <1>1, <1>5

\* A handler that books and carries what it did, or is excused for it, keeps the sums.
LEMMA BooksKeep ==
    ASSUME TypeOK, TypeOK', BookedOnce, NEW p, NEW t, Turns(p, t), excused \subseteq excused',
           UNCHANGED <<leg, status, total, given>>,
           "lots" \notin excused' => Carries(t) = Carries(proc[p]),
           "total" \notin excused' => t.sum = proc[p].sum /\ Carries(t) = Carries(proc[p])
    PROVE  BookedOnce'
<1>1. /\ Copied \in Nat /\ Copied' \in Nat /\ Unbooked \in Nat /\ Unbooked' \in Nat
      /\ Copied' + Carries(proc[p]) = Copied + Carries(t)
      /\ Unbooked' + proc[p].sum = Unbooked + t.sum
  BY OthersStay, ProcChange DEF Turns, TypeOK
<1>2. /\ Carries(proc[p]) \in Nat /\ proc[p].sum \in Nat
      /\ Carries(t) \in Nat /\ t.sum \in Nat
  BY DEF Turns, TypeOK, Carries, Proc, Item
<1>3. \A states : LotsOf(states)' = LotsOf(states)
  BY DEF LotsOf
<1>4. "lots" \notin excused' => LotsOf({"open", "closed"})' + Copied' = given'
  BY <1>1, <1>2, <1>3 DEF BookedOnce
<1>5. Active' = Active
  BY DEF Active
<1>6. Active' /\ "total" \notin excused' => total' + Unbooked' = LotsOf({"closed"})' + Copied'
  BY <1>1, <1>2, <1>3, <1>5 DEF BookedOnce
<1> QED
  BY <1>4, <1>6 DEF BookedOnce

\* A step that changes only what the handler knows, and may turn rules off.
LEMMA Quiet ==
    ASSUME Inv, NEW p, NEW t, Turns(p, t), UNCHANGED <<leg, status, mode, total, given, excused>>,
           armed' \in BOOLEAN, armed' => armed, work' \in 0..MaxWork,
           t.sum = proc[p].sum, Carries(t) = Carries(proc[p]),
           t.kind \in Books => proc[p].kind \in Books \/ Active,
           ~(t.kind = "start" /\ t.at = "set"),
           "status" \notin excused => LegsSeen(t) /\ (Disarmed(t) => ~armed'),
           "status" \notin excused /\ AboutToDisarm(p) => ~armed'
    PROVE  Inv'
<1> USE DEF Inv
<1>1. TypeOK'
  BY OthersStay DEF TypeOK
<1>2. Open' = Open
  BY DEF Open
<1>3. LegsSeen(t)' <=> LegsSeen(t)
  BY <1>2 DEF LegsSeen
<1>4. Anew' /\ Watchful' /\ ArchivedIsOver'
  BY <1>2, <1>3, AnewKeeps, WatchKeeps, OverKeeps
<1>5. BookedOnce'
  BY <1>1, BooksKeep
<1>6. DraftHasNoMode'
  BY DEF DraftHasNoMode
<1> QED
  BY <1>1, <1>4, <1>5, <1>6, ShapesKeep

-----------------------------------------------------------------------------
(* Setting out.                                                            *)

\* The lists of legs to close that a request may make are lists of legs.
LEMMA ListsAreItems ==
    ASSUME TypeOK
    PROVE  /\ \A i \in Row : Exits(i) \subseteq Item
           /\ \A rows \in SUBSET Row : Whole(rows) \subseteq Item
           /\ Changes \subseteq SUBSET Item
           /\ Open \subseteq Row
<1>1. \A i \in Row : leg[i].lots \in Nat
  BY DEF TypeOK, Leg
<1>2. \A i \in Row : Exits(i) \subseteq Item
  BY <1>1 DEF Exits, Item
<1>3. \A rows \in SUBSET Row : Whole(rows) \subseteq Item
  BY <1>1 DEF Whole, Item
<1>4. Open \subseteq Row
  BY DEF Open
<1> QED
  BY <1>2, <1>3, <1>4 DEF Changes

\* Closing whole legs names each of them, and no part of one.
LEMMA WholeLists ==
    ASSUME NEW rows
    PROVE  /\ \A i \in rows : \E x \in Whole(rows) : x.row = i
           /\ \A x \in Whole(rows) : x.lots = 0
           /\ rows # {} => Whole(rows) # {}
<1>1. ASSUME NEW i \in rows PROVE \E x \in Whole(rows) : x.row = i
  <2>1. [row |-> i, seen |-> leg[i].lots, lots |-> 0] \in Whole(rows)
    BY DEF Whole
  <2> QED
    BY <2>1
<1>2. \A x \in Whole(rows) : x.lots = 0
  BY DEF Whole
<1> QED
  BY <1>1, <1>2

\* The bound on the work.
LEMMA WorkKeeps ==
    ASSUME TypeOK, Work \/ UNCHANGED work PROVE work' \in 0..MaxWork
<1>1. work \in 0..MaxWork /\ MaxWork \in Nat
  BY BoundAssumption DEF TypeOK
<1>2. CASE Work
  BY <1>1, <1>2 DEF Work
<1> QED
  BY <1>1, <1>2

\* What a handler knows when it sets out.
FirstStep(kind, todo) == IF kind \in Adjusts /\ todo = {} THEN 2 ELSE 1
FirstTotal(kind) == IF kind \in Adjusts THEN total ELSE 0
Begun(kind, at, todo) ==
    [Idle EXCEPT !.kind = kind, !.at = at, !.todo = todo,
       !.step = FirstStep(kind, todo), !.saw = status, !.total = FirstTotal(kind)]

\* What a handler knows after its first reads (loadOwned, legsOf).
LEMMA BeginType ==
    ASSUME TypeOK, NEW kind \in Books \cup Moves, NEW at \in {"legs", "rest", "reopen", "set"},
           NEW todo \in SUBSET Item, NEW t, t = Begun(kind, at, todo)
    PROVE  /\ t \in Proc /\ t.kind = kind /\ t.at = at /\ t.todo = todo
           /\ t.step = FirstStep(kind, todo) /\ t.saw = status /\ t.sum = 0 /\ ~t.left
<1>1. /\ status \in Status /\ FirstTotal(kind) \in Nat /\ FirstStep(kind, todo) \in 1..4
      /\ Idle \in Proc /\ Idle.sum = 0 /\ ~Idle.left
  BY IdleShape DEF TypeOK, FirstTotal, FirstStep
<1>2. t \in Proc
  BY <1>1 DEF Proc, Begun
<1>3. /\ t.kind = kind /\ t.at = at /\ t.todo = todo /\ t.step = FirstStep(kind, todo)
      /\ t.saw = status /\ t.sum = 0 /\ ~t.left
  BY <1>1 DEF Proc, Begun
<1> QED
  BY <1>2, <1>3

\* Who has no leg to close has another reason to set out.
HasWork(kind, todo) == todo = {} => kind \in {"stop", "adjust and add"}

\* The first step of a handler is one of its steps.
LEMMA FirstFits ==
    ASSUME NEW kind \in Books, NEW todo, HasWork(kind, todo)
    PROVE  /\ FirstStep(kind, todo) \in 1..4 /\ FirstStep(kind, todo) <= Len(After(kind))
           /\ todo # {} => FirstStep(kind, todo) = 1
<1>1. Len(After(kind)) \in 1..4
  BY Ordered DEF Steps
<1>2. CASE kind \in Adjusts /\ todo = {}
  <2>1. kind = "adjust and add"
    BY <1>2 DEF Adjusts, HasWork
  <2>2. Len(After(kind)) = 2
    BY <2>1, Ordered DEF Steps
  <2>3. FirstStep(kind, todo) = 2
    BY <1>2 DEF FirstStep
  <2> QED
    BY <1>2, <2>2, <2>3
<1>3. CASE ~(kind \in Adjusts /\ todo = {})
  <2>1. FirstStep(kind, todo) = 1
    BY <1>3 DEF FirstStep
  <2> QED
    BY <1>1, <2>1
<1> QED
  BY <1>2, <1>3

\* A handler that sets out to book has its write to come.
LEMMA BookBegun ==
    ASSUME TypeOK, Active, NEW kind \in Books, NEW todo \in SUBSET Item, HasWork(kind, todo),
           NEW at, at = IF todo = {} THEN "rest" ELSE "legs", NEW t, t = Begun(kind, at, todo)
    PROVE  /\ t \in Proc /\ Booking(t) /\ ToBook(t) /\ ~Disarmed(t)
           /\ t.kind = kind /\ t.todo = todo /\ t.sum = 0 /\ ~t.left
           /\ t.at \in {"rest", "legs"}
<1>1. kind \in Books \cup Moves /\ at \in {"legs", "rest", "reopen", "set"}
  OBVIOUS
<1>2. /\ t \in Proc /\ t.kind = kind /\ t.at = at /\ t.todo = todo
      /\ t.step = FirstStep(kind, todo) /\ t.saw = status /\ t.sum = 0 /\ ~t.left
  BY <1>1, BeginType
<1>3. t.step <= Len(After(kind)) /\ (todo # {} => t.step = 1)
  BY <1>2, FirstFits
<1>4. (t.at = "legs" /\ t.todo # {}) \/ (t.at = "rest" /\ t.todo = {})
  BY <1>2
<1>5. Booking(t)
  BY <1>2, <1>3, <1>4 DEF Booking, Knows, Active
<1>6. ToBook(t)
  BY <1>2 DEF ToBook
<1>7. t.at = "rest" => kind \in {"stop", "adjust and add"}
  BY <1>2, <1>4 DEF HasWork
<1>8. ~Disarmed(t)
  BY <1>2, <1>7 DEF Disarmed
<1> QED
  BY <1>2, <1>4, <1>5, <1>6, <1>8

\* Who is to close all the legs lists all that are open.
ListsAll(kind, todo) == kind \in {"close all", "stop"} => todo = Whole(Open)

\* Setting out to book keeps the invariant.
LEMMA BeginsBook ==
    ASSUME Inv, NEW p \in Worker, NEW kind \in Books, NEW todo \in SUBSET Item,
           BeginBook(p, kind, todo), Active, armed' \in BOOLEAN, armed' => armed,
           HasWork(kind, todo), ListsAll(kind, todo)
    PROVE  Inv'
<1>0. PICK at : at = IF todo = {} THEN "rest" ELSE "legs"
  OBVIOUS
<1>1. PICK t : t = Begun(kind, at, todo)
  OBVIOUS
<1>2. proc[p] = Idle /\ proc' = [proc EXCEPT ![p] = t]
      /\ UNCHANGED <<leg, status, mode, total, given, excused>>
  BY <1>0, <1>1 DEF BeginBook, Begin, Begun, FirstStep, FirstTotal
<1>3. work' \in 0..MaxWork
  BY WorkKeeps DEF BeginBook, Begin, Inv
<1>4. /\ t \in Proc /\ Booking(t) /\ ToBook(t) /\ ~Disarmed(t)
      /\ t.kind = kind /\ t.todo = todo /\ t.sum = 0 /\ ~t.left
      /\ t.at \in {"rest", "legs"}
  BY <1>0, <1>1, BookBegun DEF Inv
<1>5. Turns(p, t)
  BY <1>2, <1>4 DEF Turns, Shape
<1>6. LegsSeen(t)
  <2>1. ASSUME kind \in {"close all", "stop"}
        PROVE  /\ \A i \in Open : \E x \in todo : x.row = i
               /\ \A x \in todo : x.lots = 0
    BY <2>1, WholeLists DEF ListsAll
  <2> QED
    BY <1>4, <2>1 DEF LegsSeen
<1>7. proc[p].at = "idle" /\ proc[p].sum = 0
  BY <1>2, IdleShape
<1>8. Carries(t) = Carries(proc[p]) /\ ~AboutToDisarm(p)
  BY <1>4, <1>7 DEF Carries, AboutToDisarm, Does
<1>9. ~(t.kind = "start" /\ t.at = "set")
  BY <1>4
<1> QED
  BY <1>2, <1>3, <1>4, <1>5, <1>6, <1>7, <1>8, <1>9, Quiet

\* So does setting out to change the status or the rules.
LEMMA BeginsMove ==
    ASSUME Inv, NEW p \in Worker, NEW kind \in Moves, NEW at,
           Begin(p, kind, at, {}), UNCHANGED armed,
           at = IF kind = "start" THEN "reopen" ELSE "set",
           kind \in {"start", "archive"} => status = "draft",
           kind = "arm" => Active
    PROVE  Inv'
<1> DEFINE t == Begun(kind, at, {})
<1> USE DEF Inv
<1>1. proc[p] = Idle /\ proc' = [proc EXCEPT ![p] = t]
      /\ UNCHANGED <<leg, status, mode, total, given, excused>>
  BY DEF Begin, Begun, FirstStep, FirstTotal
<1>2. work' \in 0..MaxWork /\ armed' \in BOOLEAN
  <2>1. kind # "settle"
    BY DEF Moves
  <2> QED
    BY <2>1, WorkKeeps DEF Begin, TypeOK
<1>3. /\ t.kind = kind /\ t.at = at /\ t.todo = {} /\ t.saw = status /\ t.sum = 0 /\ ~t.left
      /\ t \in Proc /\ kind \notin Books
  <2>1. at \in {"legs", "rest", "reopen", "set"} /\ kind \notin Books
    BY DEF Moves, Books, Adjusts, Rules
  <2> QED
    BY <2>1, BeginType
<1> HIDE DEF t
<1>5. Moving(t)
  BY <1>3 DEF Moving, Active
<1>6. Turns(p, t)
  BY <1>1, <1>3, <1>5 DEF Turns, Shape, ToBook
<1>7. ~Disarmed(t)
  BY <1>3 DEF Disarmed
<1>8. LegsSeen(t)
  BY <1>3 DEF LegsSeen, Moves
<1>9. proc[p].at = "idle" /\ proc[p].sum = 0
  BY <1>1, IdleShape
<1>10. Carries(t) = Carries(proc[p]) /\ ~AboutToDisarm(p)
  BY <1>3, <1>9 DEF Carries, AboutToDisarm, Does
<1>11. ~(t.kind = "start" /\ t.at = "set")
  BY <1>3
<1> QED
  BY <1>1, <1>2, <1>3, <1>6, <1>7, <1>8, <1>9, <1>10, <1>11, Quiet

\* DELETE rules turns the rules off, which no handler minds.
LEMMA ClearRulesKeeps ==
    ASSUME Inv, NEW p \in Worker, ClearRules(p)
    PROVE  Inv'
<1> USE DEF Inv
<1>1. /\ UNCHANGED <<leg, status, mode, total, given, excused, proc>>
      /\ proc[p] = Idle /\ ~armed' /\ armed' \in BOOLEAN /\ work' \in 0..MaxWork
  BY WorkKeeps DEF ClearRules
<1>2. TypeOK'
  BY <1>1 DEF TypeOK
<1>3. Turns(p, Idle)
  BY <1>1, IdleShape DEF Turns, TypeOK
<1>4. LegsSeen(Idle) /\ ~Disarmed(Idle) /\ Idle.kind \notin Books
  BY IdleShape DEF LegsSeen, Disarmed, Books, Adjusts, Rules
<1>5. ~(Idle.kind = "start" /\ Idle.at = "set") /\ ~AboutToDisarm(p)
  BY <1>1, IdleShape DEF AboutToDisarm, Does
<1> QED
  BY <1>1, <1>3, <1>4, <1>5, Quiet

\* Whatever a handler sets out to do.
LEMMA AsksKeeps ==
    ASSUME Inv, NEW p \in Worker, Asks(p) PROVE Inv'
<1> USE ListsAreItems DEF Inv
<1>0. armed \in BOOLEAN
  BY DEF TypeOK
<1>1. ASSUME CloseLeg(p), UNCHANGED armed PROVE Inv'
  <2>1. PICK i \in Open : \E x \in Exits(i) : Active /\ BeginBook(p, "close leg", {x})
    BY <1>1 DEF CloseLeg
  <2>2. PICK x \in Exits(i) : Active /\ BeginBook(p, "close leg", {x})
    BY <2>1
  <2>3. {x} \in SUBSET Item /\ "close leg" \in Books /\ {x} # {}
    BY <2>1, <2>2 DEF Books
  <2> QED
    BY <1>0, <1>1, <2>2, <2>3, BeginsBook DEF HasWork, ListsAll
<1>2. ASSUME CloseAll(p), UNCHANGED armed PROVE Inv'
  <2>1. Whole(Open) \in SUBSET Item /\ Whole(Open) # {} /\ "close all" \in Books
    BY <1>2, WholeLists DEF CloseAll, Books
  <2> QED
    BY <1>0, <1>2, <2>1, BeginsBook DEF HasWork, ListsAll, CloseAll
<1>3. ASSUME Stop(p), UNCHANGED armed PROVE Inv'
  <2>1. Whole(Open) \in SUBSET Item /\ "stop" \in Books /\ Active
    BY <1>3 DEF Stop, Books, Active
  <2> QED
    BY <1>0, <1>3, <2>1, BeginsBook DEF HasWork, ListsAll, Stop
<1>4. ASSUME Reconcile(p), UNCHANGED armed PROVE Inv'
  <2>1. PICK todo \in Changes \ {{}} : BeginBook(p, "reconcile", todo)
    BY <1>4 DEF Reconcile
  <2>2. todo \in SUBSET Item /\ "reconcile" \in Books /\ Active /\ todo # {}
    BY <1>4 DEF Reconcile, Books
  <2> QED
    BY <1>0, <1>4, <2>1, <2>2, BeginsBook DEF HasWork, ListsAll
<1>5. ASSUME Adjust(p), UNCHANGED armed PROVE Inv'
  <2>1. PICK todo \in Changes, kind \in Adjusts :
          (kind = "adjust" => todo # {}) /\ BeginBook(p, kind, todo)
    BY <1>5 DEF Adjust
  <2>2. todo \in SUBSET Item /\ kind \in Books /\ Active
        /\ kind \in {"adjust", "adjust and add"}
    BY <1>5 DEF Adjust, Books, Adjusts
  <2> QED
    BY <1>0, <1>5, <2>1, <2>2, BeginsBook DEF HasWork, ListsAll
<1>6. ASSUME Sync(p), UNCHANGED armed PROVE Inv'
  <2>1. PICK todo \in Changes \ {{}} : BeginBook(p, "sync", todo)
    BY <1>6 DEF Sync
  <2>2. todo \in SUBSET Item /\ "sync" \in Books /\ Active /\ todo # {}
    BY <1>6 DEF Sync, Books, Active
  <2> QED
    BY <1>0, <1>6, <2>1, <2>2, BeginsBook DEF HasWork, ListsAll
<1>7. ASSUME Fire(p) PROVE Inv'
  <2>1. armed' \in BOOLEAN /\ armed /\ Active
    BY <1>7 DEF Fire
  <2>2. CASE BeginBook(p, "strategy rule", Whole(Open))
    <3>1. Whole(Open) \in SUBSET Item /\ Whole(Open) # {} /\ "strategy rule" \in Books
      BY <1>7, WholeLists DEF Fire, Books, Rules
    <3> QED
      BY <2>1, <2>2, <3>1, BeginsBook DEF HasWork, ListsAll
  <2>3. CASE \E i \in Open : BeginBook(p, "leg rule", Whole({i}))
    <3>1. PICK i \in Open : BeginBook(p, "leg rule", Whole({i}))
      BY <2>3
    <3>2. Whole({i}) \in SUBSET Item /\ Whole({i}) # {} /\ "leg rule" \in Books
      BY WholeLists DEF Books, Rules
    <3> QED
      BY <2>1, <3>1, <3>2, BeginsBook DEF HasWork, ListsAll
  <2> QED
    BY <1>7, <2>2, <2>3 DEF Fire
<1>8. ASSUME Start(p) \/ StopToDraft(p) \/ Archive(p) \/ Restore(p) \/ SetRules(p), UNCHANGED armed
      PROVE  Inv'
  BY <1>8, BeginsMove DEF Start, StopToDraft, Archive, Restore, SetRules, Moves
<1> QED
  BY <1>1, <1>2, <1>3, <1>4, <1>5, <1>6, <1>7, <1>8, ClearRulesKeeps DEF Asks

\* The settler sets out with the expired legs it found.
LEMMA SettleKeeps ==
    ASSUME Inv, NEW p \in Worker, Settle(p), UNCHANGED armed PROVE Inv'
<1>1. Whole(Open) \in SUBSET Item /\ Whole(Open) # {} /\ "settle" \in Books /\ Active
      /\ armed' \in BOOLEAN
  BY ListsAreItems, WholeLists DEF Inv, TypeOK, Settle, IsDue, Books
<1> QED
  BY <1>1, BeginsBook DEF HasWork, ListsAll, Settle

-----------------------------------------------------------------------------
(* Closing the legs.                                                       *)

\* What the place of a handler says of it.
LEMMA AtWork ==
    ASSUME Inv, NEW p \in Worker
    PROVE  /\ proc[p] \in Proc /\ Shape(proc[p]) /\ ToBook(proc[p])
           /\ proc[p].at \in {"legs", "close", "copy", "rest"} => Booking(proc[p])
           /\ proc[p].at \in {"reopen", "set"} => Moving(proc[p])
           /\ proc[p].kind = "none" => proc[p] = Idle
           /\ "status" \notin excused =>
                LegsSeen(proc[p]) /\ (Disarmed(proc[p]) => ~armed)
<1>1. proc[p] \in Proc /\ Shape(proc[p])
  BY DEF Inv, TypeOK
<1>2. Booking(proc[p]) => proc[p].kind \in Books /\ proc[p].at \in {"legs", "close", "copy", "rest"}
  BY DEF Booking, Knows
<1>3. Moving(proc[p]) => proc[p].kind \in Moves /\ proc[p].at \in {"reopen", "set"}
  BY DEF Moving
<1>4. "none" \notin Books /\ "none" \notin Moves
  BY DEF Books, Moves, Adjusts, Rules
<1>5. proc[p] = Idle => proc[p].at = "idle"
  BY IdleShape
<1> QED
  BY <1>1, <1>2, <1>3, <1>4, <1>5 DEF Shape, Inv, Watchful

\* Taking one leg from the list changes nothing else of what a handler knows.
LEMMA TakesOne ==
    ASSUME NEW p, proc[p] \in Proc, NEW x, NEW w, w = Without(p, x)
    PROVE  /\ w \in Proc /\ w.kind = proc[p].kind /\ w.at = proc[p].at /\ w.sum = proc[p].sum
           /\ w.step = proc[p].step /\ w.saw = proc[p].saw /\ w.left = proc[p].left
           /\ w.todo = proc[p].todo \ {x}
  BY DEF Without, Proc

\* A handler goes on after a leg.
LEMMA GoesOnQuietly ==
    ASSUME Inv, NEW p \in Worker, proc[p].at \in {"legs", "close"}, NEW r \in Proc,
           r.kind = proc[p].kind, r.sum = proc[p].sum, r.step = proc[p].step,
           r.saw = proc[p].saw, r.left = proc[p].left,
           r.kind \in {"close all", "stop"} => r.todo = proc[p].todo,
           proc' = [proc EXCEPT ![p] = GoOn(r)], work' \in 0..MaxWork,
           UNCHANGED <<leg, status, mode, total, armed, given, excused>>
    PROVE  Inv'
<1>0. PICK t : t = GoOn(r)
  OBVIOUS
<1>1. Booking(proc[p]) /\ proc[p].step = 1
  BY AtWork DEF Booking
<1>2. Knows(r) /\ r.step = 1
  BY <1>1 DEF Booking, Knows
<1>3. /\ t \in Proc /\ Shape(t) /\ t.sum = r.sum /\ t.at # "copy" /\ ~Disarmed(t)
      /\ \/ t = Idle
         \/ /\ t.kind = r.kind /\ t.saw = r.saw /\ t.left = r.left
            /\ t.todo = r.todo /\ t.step = 1 /\ t.at \in {"rest", "legs"}
  BY <1>0, <1>2, GoesOn
<1>4. Turns(p, t)
  BY <1>0, <1>3 DEF Turns
<1>5. Carries(t) = Carries(proc[p]) /\ ~AboutToDisarm(p)
  BY <1>3 DEF Carries, AboutToDisarm, Does
<1>6. armed \in BOOLEAN /\ ~(t.kind = "start" /\ t.at = "set")
  BY <1>3, IdleShape DEF Inv, TypeOK
<1>7. ASSUME "status" \notin excused PROVE LegsSeen(t)
  <2>1. LegsSeen(proc[p])
    BY <1>7, AtWork
  <2>2. CASE t = Idle
    BY <2>2, IdleShape DEF LegsSeen
  <2>3. CASE t.kind = r.kind /\ t.left = r.left /\ t.todo = r.todo
    <3>1. t.kind = proc[p].kind /\ t.left = proc[p].left
      BY <2>3
    <3>2. t.kind \in {"close all", "stop"} => t.todo = proc[p].todo
      BY <2>3
    <3> QED
      BY <2>1, <3>1, <3>2 DEF LegsSeen
  <2> QED
    BY <1>3, <2>2, <2>3
<1>8. proc[p].kind \in Books
  BY <1>1 DEF Booking, Knows
<1> QED
  BY <1>3, <1>4, <1>5, <1>6, <1>7, <1>8, Quiet

\* The handler takes up its next leg, reads it again if it is one that does, and passes
\* over a leg that is closed.
LEMMA LookKeeps ==
    ASSUME Inv, NEW p \in Worker, Look(p) PROVE Inv'
<1>1. /\ proc[p].at = "legs" /\ Rereads(proc[p].kind) /\ Booking(proc[p])
      /\ UNCHANGED <<leg, status, mode, total, armed, given, excused>>
  BY AtWork DEF Look
<1>2. proc[p].kind \notin {"close all", "stop"}
  BY <1>1 DEF Rereads, Rules
<1>3. TypeOK /\ proc[p] \in Proc /\ armed \in BOOLEAN
  BY DEF Inv, TypeOK
<1>4. PICK x \in proc[p].todo :
         \/ /\ x.row \in Open
            /\ proc' = [proc EXCEPT ![p] = [Without(p, x) EXCEPT !.at = "close",
                                               !.has = [x EXCEPT !.seen = leg[x.row].lots]]]
            /\ UNCHANGED work
         \/ (Work \/ UNCHANGED work) /\ proc' = [proc EXCEPT ![p] = GoOn(Without(p, x))]
  BY DEF Look
<1>5. work' \in 0..MaxWork
  BY <1>3, <1>4, WorkKeeps
<1>6. PICK w : w = Without(p, x)
  OBVIOUS
<1>7. /\ w \in Proc /\ w.kind = proc[p].kind /\ w.at = proc[p].at /\ w.sum = proc[p].sum
       /\ w.step = proc[p].step /\ w.saw = proc[p].saw /\ w.left = proc[p].left
       /\ x \in Item
  BY <1>3, <1>6, TakesOne DEF Proc
<1>8. CASE proc' = [proc EXCEPT ![p] = GoOn(Without(p, x))]
  BY <1>1, <1>2, <1>3, <1>5, <1>6, <1>7, <1>8, GoesOnQuietly
<1>9. CASE /\ x.row \in Open
           /\ proc' = [proc EXCEPT ![p] = [Without(p, x) EXCEPT !.at = "close",
                                               !.has = [x EXCEPT !.seen = leg[x.row].lots]]]
  <2> DEFINE h == [x EXCEPT !.seen = leg[x.row].lots]
             t == [Without(p, x) EXCEPT !.at = "close", !.has = h]
  <2>1. leg[x.row].lots \in Nat
    BY <1>3, <1>9 DEF Open, TypeOK, Leg
  <2>2. h \in Item
    BY <1>7, <2>1 DEF Item
  <2>3. /\ t \in Proc /\ t.at = "close" /\ t.kind = proc[p].kind /\ t.sum = proc[p].sum
        /\ t.step = proc[p].step /\ t.saw = proc[p].saw /\ t.left = proc[p].left
    <3>1. t = [w EXCEPT !.at = "close", !.has = h]
      BY <1>6
    <3> HIDE DEF h, t
    <3> QED
      BY <1>7, <2>2, <3>1 DEF Proc
  <2>4. proc' = [proc EXCEPT ![p] = t]
    BY <1>9
  <2> HIDE DEF t
  <2>5. Booking(t) /\ ToBook(t)
    BY <1>1, <2>3 DEF Booking, Knows, ToBook
  <2>6. Turns(p, t)
    BY <2>3, <2>4, <2>5 DEF Turns, Shape
  <2>7. Carries(t) = Carries(proc[p]) /\ ~AboutToDisarm(p)
    BY <1>1, <2>3 DEF Carries, AboutToDisarm, Does
  <2>8. ~Disarmed(t) /\ ~(t.kind = "start" /\ t.at = "set")
    BY <2>3 DEF Disarmed
  <2>9. "status" \notin excused => LegsSeen(t)
    BY <1>2, <2>3, AtWork DEF LegsSeen
  <2>10. proc[p].kind \in Books
    BY <1>1 DEF Booking, Knows
  <2> QED
    BY <1>1, <1>3, <1>5, <2>3, <2>6, <2>7, <2>8, <2>9, <2>10, Quiet
<1> QED
  BY <1>4, <1>8, <1>9

\* Who fails is excused for what he leaves undone.
LEMMA FailsKeeps ==
    ASSUME Inv, NEW p \in Worker, Fails(p), work' \in 0..MaxWork,
           UNCHANGED <<leg, status, mode, total, armed, given>>
    PROVE  Inv'
<1> USE DEF Inv
<1>1. Turns(p, Idle)
  BY IdleShape DEF Fails, Turns
<1>2. /\ excused \subseteq excused' /\ excused' \in SUBSET {"lots", "total", "status"}
      /\ proc[p].sum # 0 => "total" \in excused'
      /\ proc[p].at = "copy" => "lots" \in excused' /\ "total" \in excused'
      /\ proc[p].at = "rest" => "status" \in excused'
  BY DEF Fails, TypeOK
<1>3. TypeOK'
  BY <1>1, <1>2, OthersStay DEF TypeOK
<1>4. Open' = Open
  BY DEF Open
<1>5. /\ LegsSeen(Idle)' /\ ~Disarmed(Idle) /\ Idle.kind = "none" /\ Idle.sum = 0
      /\ Carries(Idle) = 0 /\ "none" \notin Books
  BY IdleShape DEF LegsSeen, Disarmed, Carries, Books, Adjusts, Rules
<1>6. AboutToDisarm(p) => proc[p].at = "rest"
  BY DEF AboutToDisarm, Does
<1>7. Anew' /\ Watchful' /\ ArchivedIsOver'
  BY <1>1, <1>2, <1>4, <1>5, <1>6, AnewKeeps, WatchKeeps, OverKeeps
<1>8. proc[p].at # "copy" => Carries(proc[p]) = 0
  BY DEF Carries
<1>9. BookedOnce'
  BY <1>1, <1>2, <1>3, <1>5, <1>8, BooksKeep
<1>10. DraftHasNoMode'
  BY DEF DraftHasNoMode
<1> QED
  BY <1>1, <1>3, <1>7, <1>9, <1>10, ShapesKeep

\* A handler that dies leaves its amount unbooked, and is excused for it.
LEMMA DieKeeps ==
    ASSUME Inv, NEW p \in Worker, Die(p) PROVE Inv'
<1>1. work' \in 0..MaxWork
  BY WorkKeeps DEF Die, Inv
<1> QED
  BY <1>1, FailsKeeps DEF Die

\* A part of the leg leaves, or all of it.
IsPart(x) == x.lots # 0 /\ x.lots < x.seen
Exited(x) == IF IsPart(x) THEN x.lots ELSE x.seen

\* What a handler is at.
IsToClose(p, x) ==
    /\ x \in Item
    /\ proc[p].at \in {"legs", "close"}
    /\ proc[p].at = "legs" => x \in proc[p].todo
    /\ proc[p].at = "close" => proc[p].kind \notin {"close all", "stop"}

\* A leg closes, in whole or in IsPart(x), only for a handler that books.
LEMMA ClosesKeep ==
    ASSUME Inv, NEW p \in Worker, NEW x, IsToClose(p, x), CloseRow(p, x), x.row \in Open,
           UNCHANGED <<status, mode, total, armed, work, given>>
    PROVE  Inv'
<1>0. PICK i, n, r : i = x.row /\ n = Exited(x) /\ r = [Without(p, x) EXCEPT !.sum = @ + n]
  OBVIOUS
<1>1. /\ i \in Row /\ x.lots \in Nat /\ x.seen \in Nat /\ n \in Nat
      /\ n = IF IsPart(x) THEN x.lots ELSE x.seen
      /\ IsPart(x) => x.lots <= x.seen
      /\ x \in Item
  <2>1. i \in Row /\ x.lots \in Nat /\ x.seen \in Nat /\ x \in Item
    BY <1>0 DEF Item, IsToClose
  <2>2. IsPart(x) => x.lots < x.seen
    BY DEF IsPart
  <2>3. n = IF IsPart(x) THEN x.lots ELSE x.seen
    BY <1>0 DEF Exited
  <2> QED
    BY <2>1, <2>2, <2>3
<1>2. leg[i] \in Leg /\ leg[i].state = "open" /\ leg[i].lots \in Nat
  BY <1>0, <1>1 DEF Open, TypeOK, Leg, Inv
<1>3. Booking(proc[p]) /\ proc[p] \in Proc /\ proc[p].step = 1
  BY AtWork DEF Booking, IsToClose
<1>4. /\ r \in Proc /\ Knows(r) /\ r.step = 1 /\ r.sum = proc[p].sum + n
      /\ r.kind = proc[p].kind /\ r.todo = proc[p].todo \ {x} /\ r.left = proc[p].left
  <2>1. PICK w : w = Without(p, x)
    OBVIOUS
  <2>2. /\ w \in Proc /\ w.kind = proc[p].kind /\ w.sum = proc[p].sum /\ w.step = proc[p].step
        /\ w.saw = proc[p].saw /\ w.left = proc[p].left /\ w.todo = proc[p].todo \ {x}
    BY <1>3, <2>1, TakesOne
  <2>3. PICK m : m = w.sum + n
    OBVIOUS
  <2>4. r = [w EXCEPT !.sum = m] /\ m \in Nat
    <3>1. w.sum \in Nat
      BY <2>2 DEF Proc
    <3> QED
      BY <1>0, <1>1, <2>1, <2>3, <3>1
  <2>5. r \in Proc /\ r.sum = m
    BY <2>2, <2>4 DEF Proc
  <2>6. /\ r.kind = w.kind /\ r.step = w.step /\ r.saw = w.saw /\ r.left = w.left
        /\ r.todo = w.todo
    BY <2>2, <2>4 DEF Proc
  <2> QED
    BY <1>3, <2>2, <2>3, <2>5, <2>6 DEF Booking, Knows
<1>5. PICK t : t = IF IsPart(x) THEN [r EXCEPT !.at = "copy", !.has = x] ELSE GoOn(r)
  OBVIOUS
<1>6. PICK l : l = IF IsPart(x) THEN [leg[i] EXCEPT !.lots = Rest(x)]
                   ELSE [leg[i] EXCEPT !.state = "closed"]
  OBVIOUS
<1>7. /\ leg' = [leg EXCEPT ![i] = l] /\ proc' = [proc EXCEPT ![p] = t]
      /\ excused' = IF leg[i].lots # x.seen THEN excused \cup {"lots", "total"} ELSE excused
  BY <1>0, <1>2, <1>5, <1>6 DEF CloseRow, StillOpen, Spoils, IsPart, Exited
<1>8. /\ l \in Leg
      /\ IsPart(x) => l.state = "open" /\ l.lots = x.seen - x.lots
      /\ ~IsPart(x) => l.state = "closed" /\ l.lots = leg[i].lots
  BY <1>1, <1>2, <1>6 DEF Leg, Rest, IsPart
<1>9. /\ t \in Proc /\ Shape(t) /\ ~Disarmed(t) /\ t.sum = proc[p].sum + n
      /\ IsPart(x) => t.at = "copy" /\ t.has = x
      /\ ~IsPart(x) => t.at # "copy"
      /\ t = Idle \/ (t.kind = r.kind /\ t.left = r.left /\ t.todo = r.todo)
  <2>1. CASE IsPart(x)
    <3>1. t = [r EXCEPT !.at = "copy", !.has = x]
      BY <1>5, <2>1
    <3>2. /\ t \in Proc /\ t.at = "copy" /\ t.has = x /\ t.sum = r.sum /\ t.kind = r.kind
          /\ t.left = r.left /\ t.todo = r.todo /\ t.saw = r.saw /\ t.step = r.step
      BY <1>1, <1>4, <3>1 DEF Proc
    <3>3. Booking(t) /\ ToBook(t)
      BY <1>4, <3>2 DEF Booking, Knows, ToBook
    <3> QED
      BY <1>4, <2>1, <3>2, <3>3 DEF Shape, Disarmed
  <2>2. CASE ~IsPart(x)
    <3>1. t = GoOn(r)
      BY <1>5, <2>2
    <3> QED
      BY <1>4, <2>2, <3>1, GoesOn
  <2> QED
    BY <2>1, <2>2
<1>10. Turns(p, t) /\ proc[p].kind \in Books
  BY <1>3, <1>7, <1>9 DEF Turns, Booking, Knows
<1>11. leg' \in [Row -> Leg] /\ \A j \in Row \ {i} : leg'[j] = leg[j]
  BY <1>7, <1>8 DEF TypeOK, Inv
<1>12. leg'[i] = l
  BY <1>1, <1>7 DEF TypeOK, Inv
<1>13. excused \subseteq excused' /\ excused' \in SUBSET {"lots", "total", "status"}
       /\ ("lots" \notin excused' \/ "total" \notin excused' => leg[i].lots = x.seen)
  BY <1>7 DEF TypeOK, Inv
<1>14. TypeOK'
  BY <1>10, <1>11, <1>13, OthersStay DEF TypeOK, Inv
<1>15. Open' \subseteq Open
  BY <1>2, <1>11, <1>12 DEF Open
<1>16. ASSUME "status" \notin excused' PROVE LegsSeen(t)'
  <2>1. LegsSeen(proc[p])
    BY <1>13, <1>16, AtWork
  <2>2. CASE t = Idle
    BY <2>2, IdleShape DEF LegsSeen
  <2>3. CASE t.kind = r.kind /\ t.left = r.left /\ t.todo = r.todo
    <3>1. t.left => Open' = {}
      BY <1>4, <1>15, <2>1, <2>3 DEF LegsSeen
    <3>2. ASSUME t.kind \in {"close all", "stop"}
          PROVE  /\ \A j \in Open' : \E y \in t.todo : y.row = j
                 /\ \A y \in t.todo : y.lots = 0
      <4>1. /\ \A j \in Open : \E y \in proc[p].todo : y.row = j
            /\ \A y \in proc[p].todo : y.lots = 0
        BY <1>4, <2>1, <2>3, <3>2 DEF LegsSeen
      <4>2. x.lots = 0
        <5>1. proc[p].at = "legs"
          BY <1>4, <2>3, <3>2 DEF IsToClose
        <5> QED
          BY <4>1, <5>1 DEF IsToClose
      <4>3. i \notin Open'
        BY <1>8, <1>12, <4>2 DEF Open, IsPart
      <4> QED
        BY <1>0, <1>4, <1>15, <2>3, <4>1, <4>3
    <3> QED
      BY <3>1, <3>2 DEF LegsSeen
  <2> QED
    BY <1>9, <2>2, <2>3
<1>17. ~AboutToDisarm(p) /\ Carries(proc[p]) = 0
  BY DEF AboutToDisarm, Does, Carries, IsToClose
<1>18. /\ t.kind = "start" => FALSE
       /\ Carries(t) = IF IsPart(x) THEN x.lots ELSE 0
  BY <1>4, <1>9, <1>10, IdleShape DEF Carries, Books, Adjusts, Rules
<1>19. Anew' /\ Watchful' /\ ArchivedIsOver'
  BY <1>9, <1>10, <1>13, <1>15, <1>16, <1>17, <1>18, AnewKeeps, WatchKeeps, OverKeeps DEF Inv
<1>20. BookedOnce'
  <2>1. ASSUME NEW s
        PROVE  /\ LotsOf(s) \in Nat /\ LotsOf(s)' \in Nat
               /\ LotsOf(s)' + Counts(leg[i], s) = LotsOf(s) + Counts(l, s)
    BY <1>1, <1>11, <1>12, LotsChange DEF TypeOK, Inv
  <2>2. /\ Copied \in Nat /\ Copied' \in Nat /\ Unbooked \in Nat /\ Unbooked' \in Nat
        /\ Copied' + Carries(proc[p]) = Copied + Carries(t)
        /\ Unbooked' + proc[p].sum = Unbooked + t.sum
    BY <1>10, OthersStay, ProcChange DEF TypeOK, Turns, Inv
  <2>3. proc[p].sum \in Nat /\ total \in Nat /\ given \in Nat
    BY <1>3 DEF Proc, TypeOK, Inv
  <2>4. /\ Unbooked' = Unbooked + n
        /\ Copied' = Copied + IF IsPart(x) THEN x.lots ELSE 0
    BY <1>1, <1>9, <1>17, <1>18, <2>2, <2>3
  <2>5. ASSUME "lots" \notin excused'
        PROVE  LotsOf({"open", "closed"})' + Copied' = given
    <3>0. PICK s : s = {"open", "closed"}
      OBVIOUS
    <3>1. LotsOf(s) + Copied = given
      BY <1>13, <2>5, <3>0 DEF BookedOnce, Inv
    <3>2. Counts(leg[i], s) = x.seen
      BY <1>2, <1>13, <2>5, <3>0 DEF Counts
    <3>3. Counts(l, s) = IF IsPart(x) THEN x.seen - x.lots ELSE x.seen
      BY <1>8, <1>13, <2>5, <3>0 DEF Counts
    <3>5. LotsOf(s) \in Nat /\ LotsOf(s)' \in Nat /\ LotsOf(s)' + x.seen = LotsOf(s) + Counts(l, s)
      BY <2>1, <3>2
    <3>6. PICK m \in Nat, v \in Nat, c \in Nat, d \in Nat, e \in Nat, f \in Nat :
             /\ m = x.lots /\ v = x.seen /\ c = Copied /\ d = Copied'
             /\ e = LotsOf(s) /\ f = LotsOf(s)'
      BY <1>1, <2>2, <3>5
    <3>7. f + d = e + c
      <4>1. CASE IsPart(x)
        <5>1. d = c + m /\ f + v = e + (v - m)
          BY <2>4, <3>3, <3>5, <3>6, <4>1
        <5> QED
          BY <5>1
      <4>2. CASE ~IsPart(x)
        <5>1. d = c + 0 /\ f + v = e + v
          BY <2>4, <3>3, <3>5, <3>6, <4>2
        <5> QED
          BY <5>1
      <4> QED
        BY <4>1, <4>2
    <3> QED
      BY <3>0, <3>1, <3>6, <3>7
  <2>6. ASSUME Active, "total" \notin excused'
        PROVE  total + Unbooked' = LotsOf({"closed"})' + Copied'
    <3>0. PICK s : s = {"closed"}
      OBVIOUS
    <3>1. total + Unbooked = LotsOf(s) + Copied
      BY <1>13, <2>6, <3>0 DEF BookedOnce, Inv
    <3>2. Counts(leg[i], s) = 0
      BY <1>2, <3>0 DEF Counts
    <3>3. Counts(l, s) = IF IsPart(x) THEN 0 ELSE x.seen
      BY <1>8, <1>13, <2>6, <3>0 DEF Counts
    <3>4. LotsOf(s) \in Nat /\ LotsOf(s)' \in Nat /\ LotsOf(s)' + 0 = LotsOf(s) + Counts(l, s)
      BY <2>1, <3>2
    <3> QED
      BY <1>1, <2>2, <2>3, <2>4, <3>0, <3>1, <3>3, <3>4
  <2>7. Active' = Active
    BY DEF Active
  <2> QED
    BY <2>5, <2>6, <2>7 DEF BookedOnce
<1>21. DraftHasNoMode'
  BY DEF DraftHasNoMode, Inv
<1> QED
  BY <1>10, <1>14, <1>19, <1>20, <1>21, ShapesKeep DEF Inv

\* The row of a leg is closed, or trimmed by a part (closeLegRow).
LEMMA CloseKeeps ==
    ASSUME Inv, NEW p \in Worker, Close(p) PROVE Inv'
<1>1. PICK x \in Item :
         /\ CloseRow(p, x) /\ proc[p].at \in {"legs", "close"}
         /\ proc[p].at = "close" => Rereads(proc[p].kind)
         /\ proc[p].at = "legs" => x \in proc[p].todo
  <2>1. proc[p].has \in Item /\ proc[p].todo \in SUBSET Item
    BY AtWork DEF Proc
  <2>2. proc[p].at = "close" => Rereads(proc[p].kind)
    BY AtWork DEF Booking
  <2> QED
    BY <2>1, <2>2 DEF Close
<1>2. UNCHANGED <<status, mode, total, armed, work, given>> /\ work' \in 0..MaxWork
  BY DEF Close, Inv, TypeOK
<1>3. Rereads(proc[p].kind) => proc[p].kind \notin {"close all", "stop"}
  BY DEF Rereads, Rules
<1>4. CASE x.row \in Open
  BY <1>1, <1>2, <1>3, <1>4, ClosesKeep DEF IsToClose
<1>5. CASE x.row \notin Open
  <2>1. ~StillOpen(x.row)
    BY <1>1, <1>5 DEF StillOpen, Open, Item
  <2>2. UNCHANGED leg
    BY <1>1, <2>1 DEF CloseRow
  <2>3. CASE Throws(proc[p].kind)
    BY <1>1, <1>2, <2>1, <2>2, <2>3, FailsKeeps DEF CloseRow
  <2>4. CASE ~Throws(proc[p].kind)
    <3>1. proc' = [proc EXCEPT ![p] = GoOn(proc[p])] /\ UNCHANGED excused
      BY <1>1, <2>1, <2>4 DEF CloseRow
    <3>2. proc[p] \in Proc
      BY AtWork
    <3> QED
      BY <1>1, <1>2, <2>2, <3>1, <3>2, GoesOnQuietly
  <2> QED
    BY <2>3, <2>4
<1> QED
  BY <1>4, <1>5

\* The closed part gets a row of its own (closeLegRow, the copy).
LEMMA CopyKeeps ==
    ASSUME Inv, NEW p \in Worker, Copy(p) PROVE Inv'
<1> USE DEF Inv
<1>1. /\ proc[p].at = "copy" /\ proc' = [proc EXCEPT ![p] = GoOn(proc[p])]
      /\ UNCHANGED <<status, mode, total, armed, work, given, excused>>
      /\ proc[p] \in Proc /\ Booking(proc[p])
  BY AtWork DEF Copy
<1>2. PICK i \in Row : Fresh(i) /\ leg' = [leg EXCEPT ![i] = [state |-> "closed", lots |-> proc[p].has.lots]]
  BY DEF Copy
<1>3. PICK t : t = GoOn(proc[p])
  OBVIOUS
<1>4. Knows(proc[p]) /\ proc[p].step = 1
  BY <1>1 DEF Booking
<1>5. /\ t \in Proc /\ Shape(t) /\ t.sum = proc[p].sum /\ t.at # "copy" /\ ~Disarmed(t)
      /\ t = Idle \/ (t.kind = proc[p].kind /\ t.left = proc[p].left /\ t.todo = proc[p].todo)
  BY <1>1, <1>3, <1>4, GoesOn
<1>6. Turns(p, t) /\ proc[p].kind \in Books
  BY <1>1, <1>3, <1>4, <1>5 DEF Turns, Knows
<1>7. proc[p].has.lots \in Nat
  BY <1>1 DEF Proc, Item
<1>8. /\ leg' \in [Row -> Leg] /\ \A j \in Row \ {i} : leg'[j] = leg[j]
      /\ leg'[i] = [state |-> "closed", lots |-> proc[p].has.lots]
  BY <1>2, <1>7 DEF TypeOK, Leg
<1>9. leg[i].state = "none"
  BY <1>2 DEF Fresh
<1>10. TypeOK'
  BY <1>1, <1>6, <1>8, OthersStay DEF TypeOK
<1>11. Open' = Open
  BY <1>8, <1>9 DEF Open
<1>12. ASSUME "status" \notin excused' PROVE LegsSeen(t)'
  <2>1. LegsSeen(proc[p])
    BY <1>1, <1>12, AtWork
  <2>2. CASE t = Idle
    BY <2>2, IdleShape DEF LegsSeen
  <2>3. CASE t.kind = proc[p].kind /\ t.left = proc[p].left /\ t.todo = proc[p].todo
    BY <1>11, <2>1, <2>3 DEF LegsSeen
  <2> QED
    BY <1>5, <2>2, <2>3
<1>13. /\ ~AboutToDisarm(p) /\ Carries(proc[p]) = proc[p].has.lots /\ Carries(t) = 0
       /\ t.kind # "start"
  BY <1>1, <1>5, <1>6, IdleShape DEF AboutToDisarm, Does, Carries, Books, Adjusts, Rules
<1>14. Anew' /\ Watchful' /\ ArchivedIsOver'
  BY <1>1, <1>5, <1>6, <1>11, <1>12, <1>13, AnewKeeps, WatchKeeps, OverKeeps
<1>15. BookedOnce'
  <2>1. ASSUME NEW s, "closed" \in s, "none" \notin s
        PROVE  /\ LotsOf(s) \in Nat /\ LotsOf(s)' \in Nat
               /\ LotsOf(s)' = LotsOf(s) + proc[p].has.lots
    <3>1. Counts(leg[i], s) = 0 /\ Counts(leg'[i], s) = proc[p].has.lots
      BY <1>8, <1>9, <2>1 DEF Counts
    <3>2. /\ LotsOf(s) \in Nat /\ LotsOf(s)' \in Nat
          /\ LotsOf(s)' + Counts(leg[i], s) = LotsOf(s) + Counts(leg'[i], s)
      BY <1>8, LotsChange DEF TypeOK
    <3> QED
      BY <3>1, <3>2
  <2>2. /\ Copied \in Nat /\ Copied' \in Nat /\ Unbooked \in Nat /\ Unbooked' \in Nat
        /\ Copied' + proc[p].has.lots = Copied
        /\ Unbooked' + proc[p].sum = Unbooked + proc[p].sum
    BY <1>5, <1>6, <1>10, <1>13, OthersStay, ProcChange DEF TypeOK, Turns, Proc
  <2>3. proc[p].sum \in Nat /\ total \in Nat /\ given \in Nat
    BY <1>1 DEF Proc, TypeOK
  <2>4. Unbooked' = Unbooked
    BY <2>2, <2>3
  <2>5. ASSUME NEW s, "closed" \in s, "none" \notin s
        PROVE  LotsOf(s)' + Copied' = LotsOf(s) + Copied
    <3>1. /\ LotsOf(s) \in Nat /\ LotsOf(s)' \in Nat
          /\ LotsOf(s)' = LotsOf(s) + proc[p].has.lots
      BY <2>1, <2>5
    <3> QED
      BY <1>7, <2>2, <3>1
  <2>6. /\ LotsOf({"open", "closed"})' + Copied' = LotsOf({"open", "closed"}) + Copied
        /\ LotsOf({"closed"})' + Copied' = LotsOf({"closed"}) + Copied
    BY <2>5
  <2>7. Active' = Active
    BY <1>1 DEF Active
  <2> QED
    BY <1>1, <2>4, <2>6, <2>7 DEF BookedOnce
<1>16. DraftHasNoMode'
  BY <1>1 DEF DraftHasNoMode
<1> QED
  BY <1>6, <1>10, <1>14, <1>15, <1>16, ShapesKeep

-----------------------------------------------------------------------------
(* Booking them.                                                           *)

\* A step of the list: what it does for a handler at rest.
LEMMA AtStep ==
    ASSUME Inv, NEW p \in Worker, NEW step, Does(p, step)
    PROVE  /\ proc[p].at = "rest" /\ proc[p] \in Proc /\ Booking(proc[p]) /\ Knows(proc[p])
           /\ ToBook(proc[p]) /\ proc[p].kind \in Books
           /\ Order(proc[p].kind, proc[p].step)
           /\ After(proc[p].kind)[proc[p].step] = step
<1>1. proc[p].at = "rest" /\ After(proc[p].kind)[proc[p].step] = step
  BY DEF Does
<1>2. Booking(proc[p]) /\ ToBook(proc[p]) /\ proc[p] \in Proc
  BY <1>1, AtWork
<1>3. Knows(proc[p])
  BY <1>2 DEF Booking
<1>4. proc[p].kind \in Books /\ proc[p].step <= Len(After(proc[p].kind))
  BY <1>3 DEF Knows
<1>5. proc[p].step \in 1..Len(After(proc[p].kind))
  <2>1. proc[p].step \in 1..4
    BY <1>2 DEF Proc
  <2>2. Len(After(proc[p].kind)) \in 1..4
    BY <1>4, Ordered DEF Steps
  <2> QED
    BY <1>4, <2>1, <2>2
<1> QED
  BY <1>1, <1>2, <1>3, <1>4, <1>5, Ordered DEF Steps

\* What comes of a handler that goes a step further.
Follows(r, t) ==
    \/ t = Idle
    \/ /\ t.kind = r.kind /\ t.left = r.left
       /\ t.at = "legs" \/ (t.at = "rest" /\ t.step = r.step + 1)

\* The rules are off once the step that turns them off is done.
LEMMA DisarmedAfter ==
    ASSUME NEW r, NEW t, r.at = "rest", Order(r.kind, r.step), r.step \in 1..4,
           Disarmed(t), Follows(r, t)
    PROVE  \/ Disarmed(r)
           \/ After(r.kind)[r.step] = "disarm"
           \/ After(r.kind)[r.step] = "disarmIfOver" /\ r.kind = "leg rule" /\ r.left
<1>1. t.at = "rest"
  BY DEF Disarmed
<1>2. t # Idle /\ t.at # "legs"
  BY <1>1, IdleShape
<1>3. t.kind = r.kind /\ t.left = r.left /\ t.step = r.step + 1
  BY <1>2 DEF Follows
<1>4. CASE r.kind = "reconcile"
  <2>1. CASE r.step = 1
    <3>1. After(r.kind)[r.step] = "disarm"
      BY <1>4, <2>1 DEF Order
    <3> QED
      BY <3>1
  <2>2. CASE r.step # 1
    <3>1. r.step > 1
      BY <2>2
    <3> QED
      BY <1>4, <3>1 DEF Disarmed
  <2> QED
    BY <2>1, <2>2
<1>5. CASE r.kind = "strategy rule"
  <2>1. t.step = 4
    BY <1>3, <1>5 DEF Disarmed
  <2>2. r.step = 3
    BY <1>3, <2>1
  <2>3. After(r.kind)[r.step] = "disarm"
    BY <1>5, <2>2 DEF Order
  <2> QED
    BY <2>3
<1>6. CASE r.kind = "leg rule"
  <2>1. t.step = 4 /\ r.left
    BY <1>3, <1>6 DEF Disarmed
  <2>2. r.step = 3
    BY <1>3, <2>1
  <2>3. After(r.kind)[r.step] = "disarmIfOver"
    BY <1>6, <2>2 DEF Order
  <2> QED
    BY <1>6, <2>1, <2>3
<1>7. r.kind \in {"reconcile", "strategy rule", "leg rule"}
  BY <1>3 DEF Disarmed
<1> QED
  BY <1>4, <1>5, <1>6, <1>7

\* A handler that may know more than before, and the rules it may turn off.
Learns(p, r) ==
    /\ r.kind = proc[p].kind /\ r.at = proc[p].at /\ r.step = proc[p].step
    /\ r.todo = proc[p].todo /\ r.saw = proc[p].saw /\ r.sum = proc[p].sum
    /\ r.left => r.kind \in Sees
    /\ Disarmed(r) => Disarmed(proc[p])
    /\ "status" \notin excused => LegsSeen(r)

TurnsOff(p, step, left) ==
    /\ armed' \in BOOLEAN
    /\ armed' => armed
    /\ step = "disarm" => ~armed'
    /\ step = "disarmIfOver" /\ left => ~armed'
    /\ AboutToDisarm(p) => ~armed'

\* It goes a step further; rules that were off stay so.
LEMMA AdvancesQuietly ==
    ASSUME Inv, NEW p \in Worker, NEW step, Does(p, step), step # "write",
           NEW r \in Proc, Learns(p, r), TurnsOff(p, step, r.left),
           proc' = [proc EXCEPT ![p] = Advance(r)],
           UNCHANGED <<leg, status, mode, total, work, given, excused>>
    PROVE  Inv'
<1>0. PICK t : t = Advance(r)
  OBVIOUS
<1>1. /\ proc[p].at = "rest" /\ proc[p] \in Proc /\ Booking(proc[p]) /\ Knows(proc[p])
      /\ ToBook(proc[p]) /\ proc[p].kind \in Books
      /\ Order(proc[p].kind, proc[p].step)
      /\ After(proc[p].kind)[proc[p].step] = step
  BY AtStep
<1>2. Knows(r)
  BY <1>1 DEF Knows, Learns
<1>3. Booking(r)
  BY <1>1, <1>2 DEF Booking, Learns
<1>4. ToBook(r)
  BY <1>1 DEF ToBook, Learns
<1>5. /\ t \in Proc /\ Shape(t) /\ t.sum = r.sum /\ t.at # "copy"
      /\ \/ t = Idle
         \/ /\ t.kind = r.kind /\ t.saw = r.saw /\ t.left = r.left /\ t.todo = r.todo
            /\ \/ t.at = "legs" /\ r.todo # {}
               \/ t.at = "rest" /\ t.step = r.step + 1
  <2>1. After(r.kind)[r.step] # "write" /\ r.at = "rest"
    BY <1>1 DEF Learns
  <2> QED
    BY <1>0, <1>3, <1>4, <2>1, Advances
<1>6. Turns(p, t)
  BY <1>0, <1>5 DEF Turns
<1>7. Carries(t) = Carries(proc[p]) /\ t.kind # "start"
  BY <1>1, <1>5, IdleShape DEF Carries, Books, Adjusts, Rules, Learns
<1>8. ASSUME "status" \notin excused PROVE LegsSeen(t)
  <2>1. CASE t = Idle
    BY <2>1, IdleShape DEF LegsSeen
  <2>2. CASE t.kind = r.kind /\ t.left = r.left /\ t.todo = r.todo
    BY <1>8, <2>2 DEF LegsSeen, Learns
  <2> QED
    BY <1>5, <2>1, <2>2
<1>9. ASSUME "status" \notin excused, Disarmed(t) PROVE ~armed'
  <2>1. \/ Disarmed(r)
        \/ After(r.kind)[r.step] = "disarm"
        \/ After(r.kind)[r.step] = "disarmIfOver" /\ r.kind = "leg rule" /\ r.left
    <3>1. r.step \in 1..4 /\ Order(r.kind, r.step) /\ r.at = "rest"
      BY <1>1 DEF Proc, Learns
    <3>2. Follows(r, t)
      BY <1>5 DEF Follows
    <3> QED
      BY <1>9, <3>1, <3>2, DisarmedAfter
  <2>2. CASE Disarmed(r)
    BY <1>9, <2>2, AtWork DEF Learns, TurnsOff
  <2>3. CASE After(r.kind)[r.step] = "disarm"
    BY <1>1, <2>3 DEF Learns, TurnsOff
  <2>4. CASE After(r.kind)[r.step] = "disarmIfOver" /\ r.kind = "leg rule" /\ r.left
    <3>1. step = "disarmIfOver"
      BY <1>1, <2>4 DEF Learns
    <3> QED
      BY <2>4, <3>1 DEF TurnsOff
  <2> QED
    BY <2>1, <2>2, <2>3, <2>4
<1>10. work' \in 0..MaxWork
  BY DEF Inv, TypeOK
<1>11. /\ t.sum = proc[p].sum
       /\ armed' \in BOOLEAN /\ (armed' => armed) /\ (AboutToDisarm(p) => ~armed')
  BY <1>5 DEF Learns, TurnsOff
<1> QED
  BY <1>1, <1>6, <1>7, <1>8, <1>9, <1>10, <1>11, Quiet

\* The total is read; a handler reads it again before its write (freshTotal).
LEMMA ReadTotalKeeps ==
    ASSUME Inv, NEW p \in Worker, ReadTotal(p) PROVE Inv'
<1>1. Does(p, "total") /\ UNCHANGED <<leg, status, mode, total, armed, work, given, excused>>
  BY DEF ReadTotal
<1>2. total \in Nat /\ armed \in BOOLEAN /\ proc[p] \in Proc /\ Knows(proc[p])
  BY <1>1, AtStep DEF Inv, TypeOK
<1>3. PICK r : r = [proc[p] EXCEPT !.total = total]
  OBVIOUS
<1>4. /\ r \in Proc /\ r.kind = proc[p].kind /\ r.at = proc[p].at /\ r.step = proc[p].step
      /\ r.todo = proc[p].todo /\ r.saw = proc[p].saw /\ r.sum = proc[p].sum
      /\ r.left = proc[p].left
  BY <1>2, <1>3 DEF Proc
<1>5. proc' = [proc EXCEPT ![p] = Advance(r)]
  BY <1>3 DEF ReadTotal
<1>6. (Disarmed(r) => Disarmed(proc[p])) /\ (r.left => r.kind \in Sees)
  BY <1>2, <1>4 DEF Disarmed, Knows
<1>7. "status" \notin excused => LegsSeen(r)
  BY <1>4, AtWork DEF LegsSeen
<1>8. Learns(p, r)
  BY <1>4, <1>6, <1>7 DEF Learns
<1>9. TurnsOff(p, "total", r.left)
  BY <1>1, <1>2 DEF TurnsOff, AboutToDisarm, Does
<1> QED
  BY <1>1, <1>4, <1>5, <1>8, <1>9, AdvancesQuietly

\* Who looks for an open leg and finds none is right.
LEMMA ReadLeftKeeps ==
    ASSUME Inv, NEW p \in Worker, ReadLeft(p) PROVE Inv'
<1>1. Does(p, "left") /\ UNCHANGED <<leg, status, mode, total, armed, work, given, excused>>
  BY DEF ReadLeft
<1>2. /\ armed \in BOOLEAN /\ proc[p] \in Proc
      /\ Order(proc[p].kind, proc[p].step) /\ After(proc[p].kind)[proc[p].step] = "left"
  BY <1>1, AtStep DEF Inv, TypeOK
<1>3. PICK r : r = [proc[p] EXCEPT !.left = Open = {}]
  OBVIOUS
<1>4. /\ r \in Proc /\ r.kind = proc[p].kind /\ r.at = proc[p].at /\ r.step = proc[p].step
      /\ r.todo = proc[p].todo /\ r.saw = proc[p].saw /\ r.sum = proc[p].sum
      /\ r.left = (Open = {})
  BY <1>2, <1>3 DEF Proc
<1>5. proc' = [proc EXCEPT ![p] = Advance(r)]
  BY <1>3 DEF ReadLeft
<1>6. proc[p].kind \in Sees
  BY <1>2 DEF Order
<1>7. proc[p].kind = "leg rule" => proc[p].step # 4
  BY <1>2 DEF Order
<1>8. Disarmed(r) => Disarmed(proc[p])
  BY <1>4, <1>7 DEF Disarmed
<1>9. "status" \notin excused => LegsSeen(r)
  BY <1>4, AtWork DEF LegsSeen
<1>10. Learns(p, r)
  BY <1>4, <1>6, <1>8, <1>9 DEF Learns
<1>11. TurnsOff(p, "left", r.left)
  BY <1>1, <1>2 DEF TurnsOff, AboutToDisarm, Does
<1> QED
  BY <1>1, <1>4, <1>5, <1>10, <1>11, AdvancesQuietly

\* Of the handlers that look for an open leg those archive that saw none; of the others
\* only close-all and stop do.
LEMMA WhoArchives ==
    ASSUME NEW p, proc[p] \in Proc
    PROVE  /\ proc[p].kind \in Sees => (Archives(p) <=> proc[p].left)
           /\ Archives(p) => proc[p].kind \in Sees \cup {"close all", "stop"}
<1>1. proc[p].left \in BOOLEAN
  BY DEF Proc
<1>2. ASSUME proc[p].kind \in Sees PROVE Archives(p) = proc[p].left
  <2>1. proc[p].kind \in Rules \cup {"reconcile", "sync", "settle"}
    BY <1>2 DEF Sees
  <2>2. proc[p].kind # "close all"
    BY <2>1 DEF Rules
  <2>3. CASE proc[p].left
    BY <2>1, <2>2, <2>3 DEF Archives
  <2>4. CASE ~proc[p].left
    BY <2>1, <2>2, <2>4 DEF Archives
  <2> QED
    BY <1>1, <2>3, <2>4
<1>3. ASSUME proc[p].kind \notin Sees \cup {"close all", "stop"} PROVE ~Archives(p)
  <2>1. proc[p].kind \notin Rules \cup {"reconcile", "sync", "settle"}
    BY <1>3 DEF Sees
  <2> QED
    BY <1>3, <2>1 DEF Archives
<1> QED
  BY <1>1, <1>2, <1>3

\* The rules are turned off, at once or if the strategy is over (disarmRules).
LEMMA DisarmKeeps ==
    ASSUME Inv, NEW p \in Worker, Disarm(p) PROVE Inv'
<1>1. PICK step \in {"disarm", "disarmIfOver"} :
         /\ Does(p, step)
         /\ armed' = IF step = "disarm" THEN FALSE ELSE armed /\ ~Archives(p)
  BY DEF Disarm
<1>2. UNCHANGED <<leg, status, mode, total, work, given, excused>> /\ armed \in BOOLEAN
      /\ proc' = [proc EXCEPT ![p] = Advance(proc[p])]
  BY DEF Disarm, Inv, TypeOK
<1>3. /\ proc[p] \in Proc /\ Knows(proc[p])
      /\ After(proc[p].kind)[proc[p].step] = step
  BY <1>1, AtStep
<1>4. Learns(p, proc[p])
  BY <1>3, AtWork DEF Learns, Knows
<1>5. proc[p].left => Archives(p)
  BY <1>3, WhoArchives DEF Knows
<1>6. AboutToDisarm(p) /\ step # "disarm" => Archives(p)
  BY <1>3 DEF AboutToDisarm, Does
<1>7. TurnsOff(p, step, proc[p].left)
  BY <1>1, <1>2, <1>5, <1>6 DEF TurnsOff
<1> QED
  BY <1>1, <1>2, <1>3, <1>4, <1>7, AdvancesQuietly

\* A handler that books keeps a start from finding all open and nobody at work.
LEMMA AnewIsOff ==
    ASSUME TypeOK, Anew, NEW p, NEW t, Turns(p, t), proc[p].kind \in Books, t.kind # "start",
           excused \subseteq excused'
    PROVE  Anew'
<1>1. ASSUME NEW q \in Worker, proc'[q].kind = "start", proc'[q].at = "set", "total" \notin excused'
      PROVE  FALSE
  <2>1. proc[q].kind = "start" /\ proc[q].at = "set" /\ p \in Worker
    BY <1>1, OthersStay DEF Turns
  <2> QED
    BY <1>1, <2>1 DEF Anew
<1> QED
  BY <1>1 DEF Anew

\* Who archives the strategy, unspoilt, saw all its legs closed.
LEMMA ArchivesTheClosed ==
    ASSUME Inv, NEW p \in Worker, Does(p, "write"), Archives(p), "status" \notin excused
    PROVE  Open = {}
<1>1. /\ proc[p].at = "rest" /\ proc[p] \in Proc /\ Booking(proc[p]) /\ LegsSeen(proc[p])
  BY AtStep, AtWork
<1>2. CASE proc[p].kind \in Sees
  BY <1>1, <1>2, WhoArchives DEF LegsSeen
<1>3. CASE proc[p].kind \in {"close all", "stop"}
  <2>1. proc[p].todo = {}
    BY <1>1, <1>3 DEF Booking, Adjusts
  <2> QED
    BY <1>1, <1>3, <2>1 DEF LegsSeen
<1> QED
  BY <1>1, <1>2, <1>3, WhoArchives

\* The step that a handler does next.
IsNext(p, step) ==
    proc[p].step < Len(After(proc[p].kind)) /\ After(proc[p].kind)[proc[p].step + 1] = step

\* Its rules are off, or the handler is about to turn them off.
LEMMA ArchivesTheDisarmed ==
    ASSUME Inv, NEW p \in Worker, Does(p, "write"), Archives(p), "status" \notin excused
    PROVE  \/ ~armed
           \/ /\ proc[p].kind \in {"close all", "stop"}
              /\ IsNext(p, "disarm")
           \/ /\ proc[p].kind \in {"sync", "settle"} /\ proc[p].left
              /\ IsNext(p, "disarmIfOver")
<1>1. /\ proc[p].at = "rest" /\ proc[p] \in Proc /\ proc[p].kind \in Books
      /\ Order(proc[p].kind, proc[p].step) /\ After(proc[p].kind)[proc[p].step] = "write"
  BY AtStep
<1>2. proc[p].kind \in Sees => proc[p].left
  BY <1>1, WhoArchives
<1>3. Disarmed(proc[p]) => ~armed
  BY AtWork
<1>4. CASE proc[p].kind \in {"close all", "stop"}
  <2>1. proc[p].step = 2
    BY <1>1, <1>4 DEF Order
  <2>2. Len(After(proc[p].kind)) = 3 /\ \A i \in 1..Len(After(proc[p].kind)) : Order(proc[p].kind, i)
    BY <1>1, <1>4, Ordered DEF Steps
  <2>3. Order(proc[p].kind, 3)
    BY <2>2
  <2>4. After(proc[p].kind)[3] = "disarm"
    BY <1>4, <2>3 DEF Order
  <2>5. proc[p].step < Len(After(proc[p].kind)) /\ proc[p].step + 1 = 3
    BY <2>1, <2>2
  <2> QED
    BY <1>4, <2>4, <2>5 DEF IsNext
<1>5. CASE proc[p].kind \in {"sync", "settle"}
  <2>1. proc[p].step = 3
    BY <1>1, <1>5 DEF Order
  <2>2. Len(After(proc[p].kind)) = 4 /\ \A i \in 1..Len(After(proc[p].kind)) : Order(proc[p].kind, i)
    BY <1>1, <1>5, Ordered DEF Steps
  <2>3. Order(proc[p].kind, 4)
    BY <2>2
  <2>4. proc[p].left
    BY <1>2, <1>5 DEF Sees
  <2>5. After(proc[p].kind)[4] = "disarmIfOver"
    BY <1>5, <2>3 DEF Order
  <2>6. proc[p].step < Len(After(proc[p].kind)) /\ proc[p].step + 1 = 4
    BY <2>1, <2>2
  <2> QED
    BY <1>5, <2>4, <2>5, <2>6 DEF IsNext
<1>6. CASE proc[p].kind = "reconcile"
  <2>1. proc[p].step = 4
    BY <1>1, <1>6 DEF Order
  <2> QED
    BY <1>1, <1>3, <1>6, <2>1 DEF Disarmed
<1>7. CASE proc[p].kind \in Rules
  <2>1. proc[p].step = 4
    BY <1>1, <1>7 DEF Order, Rules
  <2>2. proc[p].left
    BY <1>2, <1>7 DEF Sees
  <2> QED
    BY <1>1, <1>3, <1>7, <2>1, <2>2 DEF Disarmed, Rules
<1> QED
  BY <1>1, <1>4, <1>5, <1>6, <1>7, WhoArchives DEF Sees

\* The total and the status are written: what the handler closed is booked, unless it
\* writes over the amount of another, and what it archives is over.
LEMMA WriteKeeps ==
    ASSUME Inv, NEW p \in Worker, Write(p) PROVE Inv'
<1>1. /\ Does(p, "write") /\ total' = proc[p].total + proc[p].sum
      /\ status' = IF Archives(p) THEN "archived" ELSE status
      /\ UNCHANGED <<leg, mode, armed, work, given>>
  BY DEF Write
<1>2. /\ proc[p].at = "rest" /\ proc[p] \in Proc /\ Booking(proc[p]) /\ Knows(proc[p])
      /\ proc[p].kind \in Books /\ After(proc[p].kind)[proc[p].step] = "write"
      /\ Order(proc[p].kind, proc[p].step)
  BY <1>1, AtStep
<1>3. total' \in Nat /\ proc[p].total \in Nat /\ proc[p].sum \in Nat
  BY <1>1, <1>2 DEF Proc
<1>4. /\ excused \subseteq excused' /\ excused' \in SUBSET {"lots", "total", "status"}
      /\ "total" \notin excused' => total = proc[p].total
      /\ "status" \notin excused' /\ Archives(p) => status = proc[p].saw
  BY DEF Write, Inv, TypeOK
<1>5. PICK r : r = [proc[p] EXCEPT !.total = total', !.sum = 0]
  OBVIOUS
<1>6. /\ r \in Proc /\ r.kind = proc[p].kind /\ r.at = proc[p].at /\ r.step = proc[p].step
      /\ r.todo = proc[p].todo /\ r.saw = proc[p].saw /\ r.sum = 0 /\ r.left = proc[p].left
  BY <1>2, <1>3, <1>5 DEF Proc
<1>7. PICK t : t = Advance(r)
  OBVIOUS
<1>8. Booking(r) /\ ToBook(r)
  BY <1>2, <1>6 DEF Booking, Knows, ToBook
<1>9. /\ t \in Proc /\ Shape(t) /\ t.sum = 0 /\ t.at # "copy"
      /\ \/ t = Idle
         \/ /\ t.kind = r.kind /\ t.saw = r.saw /\ t.left = r.left /\ t.todo = r.todo
            /\ \/ t.at = "legs" /\ r.todo # {}
               \/ t.at = "rest" /\ t.step = r.step + 1
  <2>1. r.at = "rest"
    BY <1>2, <1>6
  <2> QED
    BY <1>6, <1>7, <1>8, <2>1, Advances
<1>10. Turns(p, t)
  BY <1>5, <1>7, <1>9 DEF Turns, Write
<1>11. TypeOK'
  BY <1>1, <1>3, <1>4, <1>10, OthersStay DEF TypeOK, Inv, Status
<1>12. Open' = Open
  BY <1>1 DEF Open
<1>13. t.kind # "start" /\ Carries(t) = 0 /\ Carries(proc[p]) = 0
  BY <1>2, <1>6, <1>9, IdleShape DEF Carries, Books, Adjusts, Rules
<1>14. Anew'
  BY <1>2, <1>4, <1>10, <1>13, AnewIsOff DEF Inv
<1>15. ASSUME "status" \notin excused' PROVE LegsSeen(t)' /\ (Disarmed(t) => ~armed')
  <2>1. LegsSeen(proc[p]) /\ (Disarmed(proc[p]) => ~armed)
    BY <1>4, <1>15, AtWork
  <2>2. LegsSeen(t)'
    <3>1. CASE t = Idle
      BY <3>1, IdleShape DEF LegsSeen
    <3>2. CASE t.kind = r.kind /\ t.left = r.left /\ t.todo = r.todo
      BY <1>6, <1>12, <2>1, <3>2 DEF LegsSeen
    <3> QED
      BY <1>9, <3>1, <3>2
  <2>3. ASSUME Disarmed(t) PROVE ~armed
    <3>1. r.step \in 1..4 /\ Order(r.kind, r.step) /\ r.at = "rest"
      BY <1>2, <1>6 DEF Proc
    <3>2. Follows(r, t)
      BY <1>9 DEF Follows
    <3>3. After(r.kind)[r.step] = "write"
      BY <1>2, <1>6
    <3>4. Disarmed(r)
      BY <2>3, <3>1, <3>2, <3>3, DisarmedAfter
    <3>5. Disarmed(proc[p])
      BY <1>6, <3>4 DEF Disarmed
    <3> QED
      BY <2>1, <3>5
  <2> QED
    BY <1>1, <2>2, <2>3
<1>16. Watchful'
  BY <1>1, <1>4, <1>10, <1>12, <1>15, WatchKeeps DEF Inv
<1>17. ArchivedIsOver'
  <2>1. CASE ~Archives(p)
    <3>1. ~AboutToDisarm(p) /\ status' = status
      BY <1>1, <1>2, <2>1 DEF AboutToDisarm, Does
    <3> QED
      BY <1>1, <1>4, <1>10, <1>12, <3>1, OverKeeps DEF Inv
  <2>2. ASSUME Archives(p), "status" \notin excused', armed PROVE Open = {} /\ AboutToDisarm(p)'
    <3>1. Open = {}
      BY <1>1, <1>4, <2>2, ArchivesTheClosed
    <3>2. PICK step \in {"disarm", "disarmIfOver"} :
             /\ IsNext(p, step)
             /\ step = "disarm" => proc[p].kind \in {"close all", "stop"}
             /\ step = "disarmIfOver" => proc[p].kind \in {"sync", "settle"} /\ proc[p].left
      BY <1>1, <1>4, <2>2, ArchivesTheDisarmed
    <3>3. r.todo = {}
      BY <1>2, <1>6, <3>2 DEF Booking, Adjusts
    <3>4. r.step < Len(After(r.kind)) /\ After(r.kind)[r.step + 1] = step
      BY <1>6, <3>2 DEF IsNext
    <3>5. t = [r EXCEPT !.step = @ + 1]
      BY <1>7, <3>3, <3>4 DEF Advance
    <3>6. /\ t.at = "rest" /\ t.kind = r.kind /\ t.left = r.left /\ t.step = r.step + 1
      BY <1>2, <1>6, <3>5 DEF Proc
    <3>7. proc'[p] = t
      BY <1>10, OthersStay DEF Inv
    <3>8. Does(p, step)'
      BY <3>4, <3>6, <3>7 DEF Does
    <3>9. ASSUME step = "disarmIfOver" PROVE Archives(p)'
      <4>1. proc'[p].kind \in {"sync", "settle"} /\ proc'[p].left
        BY <1>6, <3>2, <3>6, <3>7, <3>9
      <4>2. /\ proc'[p].kind \in Rules \cup {"reconcile", "sync", "settle"}
            /\ proc'[p].kind # "close all"
        BY <4>1
      <4> QED
        BY <4>1, <4>2 DEF Archives
    <3> QED
      BY <3>1, <3>8, <3>9 DEF AboutToDisarm
  <2>3. ASSUME Archives(p), "status" \notin excused' PROVE Open = {}
    BY <1>1, <1>4, <2>3, ArchivesTheClosed
  <2> QED
    BY <1>1, <1>12, <2>1, <2>2, <2>3 DEF ArchivedIsOver
<1>18. BookedOnce'
  <2>1. \A s : LotsOf(s)' = LotsOf(s)
    BY <1>1 DEF LotsOf
  <2>2. Carries(proc'[p]) = Carries(proc[p]) /\ proc'[p].sum = 0
    BY <1>9, <1>10, <1>13, OthersStay DEF Inv
  <2>3. Unbooked \in Nat /\ Unbooked' \in Nat /\ Copied' = Copied /\ Unbooked' + proc[p].sum = Unbooked
    BY <1>10, <2>2, OthersStay, ProcBooks DEF TypeOK, Turns, Inv
  <2>4. "lots" \notin excused' => LotsOf({"open", "closed"})' + Copied' = given'
    BY <1>1, <1>4, <2>1, <2>3 DEF BookedOnce, Inv
  <2>5. ASSUME Active', "total" \notin excused'
        PROVE  total' + Unbooked' = LotsOf({"closed"})' + Copied'
    <3>1. status' = status
      BY <1>1, <2>5 DEF Active
    <3>2. total + Unbooked = LotsOf({"closed"}) + Copied /\ total = proc[p].total
      BY <1>4, <2>5, <3>1 DEF Active, BookedOnce, Inv
    <3>3. total' + Unbooked' = total + Unbooked
      BY <1>1, <1>3, <2>2, <2>3, <3>2
    <3> QED
      BY <2>1, <2>3, <3>2, <3>3
  <2> QED
    BY <2>4, <2>5 DEF BookedOnce
<1>19. DraftHasNoMode'
  BY <1>1 DEF DraftHasNoMode, Inv
<1> QED
  BY <1>10, <1>11, <1>14, <1>16, <1>17, <1>18, <1>19, ShapesKeep DEF Inv

\* A new lot, open.
LEMMA AddLegKeeps ==
    ASSUME Inv, NEW p \in Worker, AddLeg(p) PROVE Inv'
<1>1. /\ Does(p, "add") /\ given' = given + 1 /\ proc' = [proc EXCEPT ![p] = Advance(proc[p])]
      /\ excused' = IF Others(p) # {} \/ status # proc[p].saw THEN excused \cup {"status"} ELSE excused
      /\ UNCHANGED <<status, mode, total, armed, work>>
  BY DEF AddLeg, Spoils
<1>2. PICK i \in Row : Fresh(i) /\ leg' = [leg EXCEPT ![i] = [state |-> "open", lots |-> 1]]
  BY DEF AddLeg
<1>3. /\ proc[p].at = "rest" /\ proc[p] \in Proc /\ Booking(proc[p]) /\ Knows(proc[p])
      /\ ToBook(proc[p]) /\ proc[p].kind \in Books
      /\ Order(proc[p].kind, proc[p].step) /\ After(proc[p].kind)[proc[p].step] = "add"
  BY <1>1, AtStep
<1>4. proc[p].kind \in Adjusts
  BY <1>3 DEF Order
<1>5. PICK t : t = Advance(proc[p])
  OBVIOUS
<1>6. /\ t \in Proc /\ Shape(t) /\ t.sum = proc[p].sum /\ t.at # "copy"
      /\ t = Idle \/ (t.kind = proc[p].kind /\ t.left = proc[p].left)
  BY <1>3, <1>5, Advances
<1>7. Turns(p, t)
  BY <1>1, <1>5, <1>6 DEF Turns
<1>8. /\ leg' \in [Row -> Leg] /\ \A j \in Row \ {i} : leg'[j] = leg[j]
      /\ leg'[i] = [state |-> "open", lots |-> 1] /\ leg[i].state = "none"
  BY <1>2 DEF TypeOK, Leg, Fresh, Inv
<1>9. excused \subseteq excused' /\ excused' \in SUBSET {"lots", "total", "status"}
      /\ ("lots" \in excused' <=> "lots" \in excused)
      /\ ("total" \in excused' <=> "total" \in excused)
  BY <1>1 DEF TypeOK, Inv
<1>10. TypeOK'
  BY <1>1, <1>7, <1>8, <1>9, OthersStay DEF TypeOK, Inv
<1>11. Carries(t) = 0 /\ Carries(proc[p]) = 0 /\ t.kind # "start"
  BY <1>3, <1>6, IdleShape DEF Carries, Books, Adjusts, Rules
<1>12. Anew'
  BY <1>3, <1>7, <1>9, <1>11, AnewIsOff DEF Inv
<1>13. ~t.left /\ t.kind \notin {"close all", "stop", "reconcile", "strategy rule", "leg rule"}
  BY <1>3, <1>4, <1>6, IdleShape DEF Knows, Sees, Adjusts, Rules
<1>14. Watchful'
  <2>1. ASSUME "status" \notin excused', NEW q \in Worker
        PROVE  LegsSeen(proc[q])' /\ (Disarmed(proc'[q]) => ~armed')
    <3>1. Others(p) = {}
      BY <1>1, <2>1
    <3>2. CASE q = p
      <4>1. proc'[q] = t
        BY <1>7, <3>2, OthersStay DEF Inv
      <4> QED
        BY <1>13, <4>1 DEF LegsSeen, Disarmed
    <3>3. CASE q # p
      <4>1. proc[q] = Idle
        BY <3>1, <3>3, AtWork DEF Others
      <4>2. proc'[q] = Idle
        BY <1>7, <3>3, <4>1, OthersStay DEF Inv
      <4> QED
        BY <4>2, IdleShape DEF LegsSeen, Disarmed
    <3> QED
      BY <3>2, <3>3
  <2> QED
    BY <2>1 DEF Watchful
<1>15. ArchivedIsOver'
  BY <1>1, <1>3 DEF ArchivedIsOver, Knows
<1>16. BookedOnce'
  <2>1. ASSUME NEW s
        PROVE  /\ LotsOf(s) \in Nat /\ LotsOf(s)' \in Nat
               /\ LotsOf(s)' + Counts(leg[i], s) = LotsOf(s) + Counts(leg'[i], s)
    BY <1>8, LotsChange DEF TypeOK, Inv
  <2>2. LotsOf({"open", "closed"})' = LotsOf({"open", "closed"}) + 1
    <3>1. /\ Counts(leg[i], {"open", "closed"}) = 0
          /\ Counts(leg'[i], {"open", "closed"}) = 1
      BY <1>8 DEF Counts
    <3> QED
      BY <2>1, <3>1
  <2>3. LotsOf({"closed"})' = LotsOf({"closed"})
    <3>1. Counts(leg[i], {"closed"}) = 0 /\ Counts(leg'[i], {"closed"}) = 0
      BY <1>8 DEF Counts
    <3> QED
      BY <2>1, <3>1
  <2>4. Carries(proc'[p]) = Carries(proc[p]) /\ proc'[p].sum = proc[p].sum
    BY <1>6, <1>7, <1>11, OthersStay DEF Inv
  <2>5. Copied \in Nat /\ Copied' = Copied /\ Unbooked' = Unbooked
    BY <1>7, <2>4, OthersStay, ProcBooks DEF TypeOK, Turns, Inv
  <2>6. "lots" \notin excused' => LotsOf({"open", "closed"})' + Copied' = given'
    <3>1. "lots" \notin excused' => LotsOf({"open", "closed"}) + Copied = given
      BY <1>9 DEF BookedOnce, Inv
    <3>2. LotsOf({"open", "closed"}) \in Nat
      BY <2>1
    <3>3. PICK n \in Nat, c \in Nat : n = LotsOf({"open", "closed"}) /\ c = Copied
      BY <2>5, <3>2
    <3>4. (n + 1) + c = (n + c) + 1
      OBVIOUS
    <3> QED
      BY <1>1, <2>2, <2>5, <3>1, <3>3, <3>4
  <2>7. Active' /\ "total" \notin excused' => total' + Unbooked' = LotsOf({"closed"})' + Copied'
    BY <1>1, <1>9, <2>3, <2>5 DEF BookedOnce, Active, Inv
  <2> QED
    BY <2>6, <2>7 DEF BookedOnce
<1>17. DraftHasNoMode'
  BY <1>1 DEF DraftHasNoMode, Inv
<1> QED
  BY <1>7, <1>10, <1>12, <1>14, <1>15, <1>16, <1>17, ShapesKeep DEF Inv

-----------------------------------------------------------------------------
(* Requests that change the status or the rules.                           *)

\* Unspoilt, it met nobody at work and the strategy as it was read.
LEMMA Alone ==
    ASSUME Inv, NEW p \in Worker, NEW t, Turns(p, t), NEW e, e \notin excused',
           NEW what, e \in what, Spoils(what, Others(p) # {} \/ status # proc[p].saw)
    PROVE  /\ status = proc[p].saw /\ excused' = excused
           /\ \A q \in Worker \ {p} : proc[q] = Idle /\ proc'[q] = Idle
<1>1. Others(p) = {} /\ status = proc[p].saw /\ excused' = excused
  BY DEF Spoils
<1>2. \A q \in Worker \ {p} : proc[q] = Idle
  BY <1>1, AtWork DEF Others
<1> QED
  BY <1>1, <1>2, OthersStay DEF Inv

\* Who works alone and saw nothing has nothing to be right about.
LEMMA AloneWatches ==
    ASSUME NEW p, proc'[p].kind \notin {"close all", "stop"}, ~proc'[p].left, proc'[p].at # "rest",
           \A q \in Worker \ {p} : proc'[q] = Idle
    PROVE  Watchful'
<1>1. ASSUME NEW q \in Worker PROVE LegsSeen(proc[q])' /\ ~Disarmed(proc'[q])
  <2>1. CASE q = p
    BY <2>1 DEF LegsSeen, Disarmed
  <2>2. CASE q # p
    <3>1. proc'[q] = Idle
      BY <2>2
    <3> QED
      BY <3>1, IdleShape DEF LegsSeen, Disarmed
  <2> QED
    BY <2>1, <2>2
<1> QED
  BY <1>1 DEF Watchful

\* Start opens all legs of a draft anew (POST start).
LEMMA ReopenKeeps ==
    ASSUME Inv, NEW p \in Worker, Reopen(p) PROVE Inv'
<1>1. /\ Spoils({"lots", "total", "status"}, Others(p) # {} \/ status # proc[p].saw)
      /\ UNCHANGED <<status, mode, total, armed, work, given>>
      /\ proc[p].at = "reopen" /\ Moving(proc[p]) /\ proc[p] \in Proc /\ ToBook(proc[p])
      /\ proc' = [proc EXCEPT ![p].at = "set"]
  BY AtWork DEF Reopen
<1>2. proc[p].kind = "start" /\ proc[p].saw = "draft" /\ ~proc[p].left /\ proc[p].sum = 0
  BY <1>1 DEF Moving, ToBook
<1>3. PICK t : t = [proc[p] EXCEPT !.at = "set"]
  OBVIOUS
<1>4. /\ t \in Proc /\ t.at = "set" /\ t.kind = "start" /\ t.saw = "draft" /\ ~t.left /\ t.sum = 0
  BY <1>1, <1>2, <1>3 DEF Proc
<1>5. Shape(t)
  BY <1>4 DEF Shape, Moving, Moves, ToBook
<1>6. Turns(p, t)
  BY <1>1, <1>3, <1>4, <1>5 DEF Turns
<1>7. /\ leg' \in [Row -> Leg]
      /\ \A i \in Row : leg'[i].state # "closed" /\ leg'[i].lots = leg[i].lots
                        /\ (leg'[i].state = "open" <=> leg[i].state \in {"open", "closed"})
  BY DEF Reopen, Inv, TypeOK, Leg
<1>8. excused \subseteq excused' /\ excused' \in SUBSET {"lots", "total", "status"}
  BY <1>1 DEF Spoils, TypeOK, Inv
<1>9. TypeOK'
  BY <1>1, <1>6, <1>7, <1>8, OthersStay DEF TypeOK, Inv
<1>10. ASSUME NEW e \in {"lots", "total", "status"}, e \notin excused'
       PROVE  /\ status = "draft" /\ excused' = excused
              /\ \A q \in Worker \ {p} : proc'[q] = Idle
  BY <1>1, <1>2, <1>6, <1>10, Alone
<1>11. proc'[p] = t
  BY <1>6, OthersStay DEF Inv
<1>12. Anew'
  <2>1. ASSUME "total" \notin excused'
        PROVE  /\ status' = "draft" /\ \A i \in Row : leg'[i].state # "closed"
               /\ \A q \in Worker : proc'[q].kind \notin Books
    <3>1. \A q \in Worker : proc'[q] = t \/ proc'[q] = Idle
      BY <1>10, <1>11, <2>1
    <3>2. t.kind \notin Books /\ Idle.kind \notin Books
      BY <1>4, IdleShape DEF Books, Adjusts, Rules
    <3> QED
      BY <1>1, <1>7, <1>10, <2>1, <3>1, <3>2
  <2> QED
    BY <2>1 DEF Anew
<1>13. Watchful'
  <2>1. ASSUME "status" \notin excused' PROVE Watchful'
    BY <1>4, <1>10, <1>11, <2>1, AloneWatches
  <2> QED
    BY <2>1 DEF Watchful
<1>14. ArchivedIsOver'
  BY <1>1, <1>10 DEF ArchivedIsOver
<1>15. BookedOnce'
  <2>1. ASSUME "lots" \notin excused'
        PROVE  LotsOf({"open", "closed"})' + Copied' = given'
    <3>1. LotsOf({"open", "closed"})' = LotsOf({"open", "closed"})
      <4>1. \A i \in Row :
              (IF leg'[i].state \in {"open", "closed"} THEN leg'[i].lots ELSE 0)
                = IF leg[i].state \in {"open", "closed"} THEN leg[i].lots ELSE 0
        BY <1>7
      <4> QED
        BY <4>1 DEF LotsOf
    <3>2. Copied' = Copied
      <4>1. Carries(proc'[p]) = Carries(proc[p])
        BY <1>1, <1>4, <1>11 DEF Carries
      <4> QED
        BY <1>6, <4>1, OthersStay, ProcBooks DEF TypeOK, Turns, Inv
    <3> QED
      BY <1>1, <1>8, <2>1, <3>1, <3>2 DEF BookedOnce, Inv
  <2>2. "total" \notin excused' => ~Active'
    BY <1>1, <1>10 DEF Active
  <2> QED
    BY <2>1, <2>2 DEF BookedOnce
<1>16. DraftHasNoMode'
  BY <1>1 DEF DraftHasNoMode, Inv
<1> QED
  BY <1>6, <1>9, <1>12, <1>13, <1>14, <1>15, <1>16, ShapesKeep DEF Inv

\* The status or the rules are written by who read them earlier (POST start, archive,
\* PUT rules); another who worked meanwhile is excused.
LEMMA SetKeeps ==
    ASSUME Inv, NEW p \in Worker, Set(p) PROVE Inv'
<1>1. /\ Spoils({"lots", "total", "status"}, Others(p) # {} \/ status # proc[p].saw)
      /\ proc' = [proc EXCEPT ![p] = Idle] /\ UNCHANGED <<leg, work, given>>
      /\ proc[p].at = "set" /\ Moving(proc[p]) /\ ToBook(proc[p]) /\ proc[p] \in Proc
  BY AtWork DEF Set
<1>2. /\ proc[p].kind \in Moves /\ proc[p].sum = 0
      /\ proc[p].kind \in {"start", "archive"} => proc[p].saw = "draft"
      /\ proc[p].kind = "arm" => proc[p].saw \in {"paper", "live"}
  BY <1>1 DEF Moving, ToBook
<1>3. \/ /\ proc[p].kind = "start"
         /\ status' = "paper" /\ mode' = "paper" /\ total' = 0 /\ armed' = armed
      \/ /\ proc[p].kind \in {"stop to draft", "restore"}
         /\ status' = "draft" /\ mode' = "none" /\ total' = total /\ armed' = armed
      \/ /\ proc[p].kind = "archive"
         /\ status' = "archived" /\ mode' = mode /\ total' = total /\ armed' = armed
      \/ /\ proc[p].kind = "arm"
         /\ armed' = TRUE /\ status' = status /\ mode' = mode /\ total' = total
  BY <1>2 DEF Set, Moves
<1>4. Turns(p, Idle)
  BY <1>1, IdleShape DEF Turns
<1>5. excused \subseteq excused' /\ excused' \in SUBSET {"lots", "total", "status"}
  BY <1>1 DEF Spoils, TypeOK, Inv
<1>6. ASSUME NEW e \in {"lots", "total", "status"}, e \notin excused'
      PROVE  /\ status = proc[p].saw /\ excused' = excused
             /\ \A q \in Worker : proc'[q] = Idle
             /\ \A q \in Worker \ {p} : proc[q] = Idle
  <2>1. /\ status = proc[p].saw /\ excused' = excused
        /\ \A q \in Worker \ {p} : proc[q] = Idle /\ proc'[q] = Idle
    BY <1>1, <1>4, <1>6, Alone
  <2>2. proc'[p] = Idle
    BY <1>4, OthersStay DEF Inv
  <2> QED
    BY <2>1, <2>2
<1>7. TypeOK'
  <2>1. /\ status' \in Status /\ mode' \in {"none", "paper", "live"} /\ total' \in Nat
        /\ armed' \in BOOLEAN
    <3>1. /\ status \in Status /\ mode \in {"none", "paper", "live"} /\ total \in Nat
          /\ armed \in BOOLEAN
      BY DEF TypeOK, Inv
    <3>2. total' = 0 \/ total' = total
      BY <1>3
    <3>3. status' \in Status
      BY <1>3, <3>1 DEF Status
    <3>4. mode' \in {"none", "paper", "live"}
      BY <1>3, <3>1
    <3>5. armed' \in BOOLEAN
      BY <1>3, <3>1
    <3> QED
      BY <3>1, <3>2, <3>3, <3>4, <3>5
  <2> QED
    BY <1>1, <1>4, <1>5, <2>1, OthersStay DEF TypeOK, Inv
<1>8. Anew'
  <2>1. ASSUME "total" \notin excused', NEW q \in Worker PROVE proc'[q].kind # "start"
    BY <1>6, <2>1, IdleShape
  <2> QED
    BY <2>1 DEF Anew
<1>9. Watchful'
  <2>1. ASSUME "status" \notin excused' PROVE Watchful'
    <3>1. proc'[p] = Idle /\ \A q \in Worker \ {p} : proc'[q] = Idle
      BY <1>6, <2>1
    <3> QED
      BY <3>1, AloneWatches, IdleShape
  <2> QED
    BY <2>1 DEF Watchful
<1>10. DraftHasNoMode'
  BY <1>3 DEF DraftHasNoMode, Inv
<1>11. ArchivedIsOver'
  <2>1. SUFFICES ASSUME status' = "archived", mode' # "none", "status" \notin excused'
                 PROVE  FALSE
    BY DEF ArchivedIsOver
  <2>2. status = proc[p].saw
    BY <1>6, <2>1
  <2>3. CASE proc[p].kind = "archive"
    BY <1>2, <1>3, <2>1, <2>2, <2>3 DEF DraftHasNoMode, Inv
  <2>4. CASE proc[p].kind = "arm"
    BY <1>2, <1>3, <2>1, <2>2, <2>4
  <2> QED
    BY <1>3, <2>1, <2>3, <2>4
<1>12. BookedOnce'
  <2>1. \A s : LotsOf(s)' = LotsOf(s)
    BY <1>1 DEF LotsOf
  <2>2. Copied' = Copied /\ Unbooked' = Unbooked
    <3>1. Carries(proc'[p]) = Carries(proc[p]) /\ proc'[p].sum = proc[p].sum
      BY <1>1, <1>2, <1>4, OthersStay, IdleShape DEF Carries, Inv
    <3> QED
      BY <1>4, <3>1, OthersStay, ProcBooks DEF TypeOK, Turns, Inv
  <2>3. "lots" \notin excused' => LotsOf({"open", "closed"})' + Copied' = given'
    BY <1>1, <1>5, <2>1, <2>2 DEF BookedOnce, Inv
  <2>4. ASSUME Active', "total" \notin excused'
        PROVE  total' + Unbooked' = LotsOf({"closed"})' + Copied'
    <3>1. CASE proc[p].kind = "arm"
      <4>1. Active /\ total' = total
        BY <1>3, <2>4, <3>1 DEF Active
      <4> QED
        BY <1>5, <2>1, <2>2, <2>4, <4>1 DEF BookedOnce, Inv
    <3>2. CASE proc[p].kind = "start"
      <4>1. total' = 0
        BY <1>3, <3>2
      <4>2. \A i \in Row : leg'[i].state # "closed"
        BY <1>1, <1>5, <2>4, <3>2 DEF Anew, Inv
      <4>3. LotsOf({"closed"})' = 0
        <5> DEFINE f == [i \in Row |-> IF leg'[i].state \in {"closed"} THEN leg'[i].lots ELSE 0]
        <5>1. \A i \in Row : f[i] = 0
          BY <4>2
        <5>2. DOMAIN f = Row
          OBVIOUS
        <5>3. LotsOf({"closed"})' = Sum(f)
          BY DEF LotsOf
        <5> HIDE DEF f
        <5> QED
          BY <5>1, <5>2, <5>3, SumZero
      <4>4. \A q \in Worker : proc'[q] = Idle
        BY <1>6, <2>4
      <4>5. Copied' = 0
        <5> DEFINE f == [q \in Worker |-> IF proc'[q].at = "copy" THEN proc'[q].has.lots ELSE 0]
        <5>1. \A q \in Worker : f[q] = 0
          BY <4>4, IdleShape
        <5>2. DOMAIN f = Worker
          OBVIOUS
        <5>3. Copied' = Sum(f)
          BY DEF Copied
        <5> HIDE DEF f
        <5> QED
          BY <5>1, <5>2, <5>3, SumZero
      <4>6. Unbooked' = 0
        <5> DEFINE f == [q \in Worker |-> proc'[q].sum]
        <5>1. \A q \in Worker : f[q] = 0
          BY <4>4, IdleShape
        <5>2. DOMAIN f = Worker
          OBVIOUS
        <5>3. Unbooked' = Sum(f)
          BY DEF Unbooked
        <5> HIDE DEF f
        <5> QED
          BY <5>1, <5>2, <5>3, SumZero
      <4> QED
        BY <4>1, <4>3, <4>5, <4>6
    <3> QED
      BY <1>3, <2>4, <3>1, <3>2 DEF Active
  <2> QED
    BY <2>3, <2>4 DEF BookedOnce
<1> QED
  BY <1>4, <1>7, <1>8, <1>9, <1>10, <1>11, <1>12, ShapesKeep DEF Inv

-----------------------------------------------------------------------------
(* The invariant, and what it says.                                        *)

\* A strategy as it is first seen: no handler at work, its legs open.
LEMMA InitInv == Init => Inv
<1> SUFFICES ASSUME Init PROVE Inv
  OBVIOUS
<1>1. \A p \in Worker : proc[p] = Idle
  BY DEF Init
<1>2. /\ leg \in [Row -> Leg] /\ \A i \in Row : leg[i].state # "closed"
  <2>1. ASSUME NEW i \in Row
        PROVE  leg[i] \in Leg /\ leg[i].state # "closed"
    <3>1. CASE i <= Len(Lots)
      <4>1. i \in 1..Len(Lots)
        BY <3>1 DEF Row
      <4>2. Lots[i] \in Nat
        BY <4>1, LotsAssumption
      <4>3. leg[i] = [state |-> "open", lots |-> Lots[i]]
        BY <3>1 DEF Init
      <4> QED
        BY <4>2, <4>3 DEF Leg
    <3>2. CASE ~(i <= Len(Lots))
      BY <3>2 DEF Init, NoLeg, Leg
    <3> QED
      BY <3>1, <3>2
  <2>2. leg = [i \in Row |-> leg[i]]
    BY DEF Init
  <2> QED
    BY <2>1, <2>2
<1>3. \A s : LotsOf(s) \in Nat
  <2>1. ASSUME NEW s PROVE LotsOf(s) \in Nat
    <3> DEFINE f == [i \in Row |-> IF leg[i].state \in s THEN leg[i].lots ELSE 0]
    <3>1. f \in [Row -> Nat]
      BY <1>2 DEF Leg
    <3>2. 1 \in Row
      BY LotsAssumption, BoundAssumption DEF Row
    <3>3. LotsOf(s) = Sum(f)
      BY DEF LotsOf
    <3> HIDE DEF f
    <3> QED
      BY <3>1, <3>2, <3>3, RowsFinite, SumChange
  <2> QED
    BY <2>1
<1>4. LotsOf({"open", "closed"}) = LotsOf({"open"})
  <2>1. \A i \in Row : (IF leg[i].state \in {"open", "closed"} THEN leg[i].lots ELSE 0)
                         = IF leg[i].state \in {"open"} THEN leg[i].lots ELSE 0
    BY <1>2
  <2> QED
    BY <2>1 DEF LotsOf
<1>5. LotsOf({"closed"}) = 0
  <2> DEFINE f == [i \in Row |-> IF leg[i].state \in {"closed"} THEN leg[i].lots ELSE 0]
  <2>1. \A i \in Row : f[i] = 0
    BY <1>2
  <2>2. DOMAIN f = Row
    OBVIOUS
  <2>3. LotsOf({"closed"}) = Sum(f)
    BY DEF LotsOf
  <2> HIDE DEF f
  <2> QED
    BY <2>1, <2>2, <2>3, SumZero
<1>6. Copied = 0
  <2> DEFINE f == [q \in Worker |-> IF proc[q].at = "copy" THEN proc[q].has.lots ELSE 0]
  <2>1. \A q \in Worker : f[q] = 0
    BY <1>1, IdleShape
  <2>2. DOMAIN f = Worker
    OBVIOUS
  <2>3. Copied = Sum(f)
    BY DEF Copied
  <2> HIDE DEF f
  <2> QED
    BY <2>1, <2>2, <2>3, SumZero
<1>7. Unbooked = 0
  <2> DEFINE f == [q \in Worker |-> proc[q].sum]
  <2>1. \A q \in Worker : f[q] = 0
    BY <1>1, IdleShape
  <2>2. DOMAIN f = Worker
    OBVIOUS
  <2>3. Unbooked = Sum(f)
    BY DEF Unbooked
  <2> HIDE DEF f
  <2> QED
    BY <2>1, <2>2, <2>3, SumZero
<1>8. TypeOK
  <2>1. proc \in [Worker -> Proc]
    BY IdleShape DEF Init
  <2>2. given \in Nat
    BY <1>3 DEF Init
  <2>3. work \in 0..MaxWork
    BY BoundAssumption DEF Init
  <2>4. status \in Status /\ mode \in {"none", "paper", "live"} /\ armed \in BOOLEAN
        /\ total \in Nat /\ excused \in SUBSET {"lots", "total", "status"}
    BY DEF Init, Status
  <2> QED
    BY <1>2, <2>1, <2>2, <2>3, <2>4 DEF TypeOK
<1>9. \A p \in Worker : Shape(proc[p])
  BY <1>1, IdleShape
<1>10. Anew
  BY <1>1, IdleShape DEF Anew
<1>11. DraftHasNoMode
  BY DEF Init, DraftHasNoMode
<1>12. Watchful
  <2>1. LegsSeen(Idle) /\ ~Disarmed(Idle)
    BY IdleShape DEF LegsSeen, Disarmed
  <2> QED
    BY <1>1, <2>1 DEF Watchful
<1>13. ArchivedIsOver
  BY DEF Init, ArchivedIsOver
<1>14. BookedOnce
  <2>1. LotsOf({"open", "closed"}) + Copied = given
    BY <1>3, <1>4, <1>6 DEF Init
  <2>2. total + Unbooked = LotsOf({"closed"}) + Copied
    BY <1>5, <1>6, <1>7 DEF Init
  <2> QED
    BY <2>1, <2>2 DEF BookedOnce
<1> QED
  BY <1>8, <1>9, <1>10, <1>11, <1>12, <1>13, <1>14 DEF Inv

\* What goes on elsewhere does not change it.
LEMMA StutterInv == ASSUME Inv, UNCHANGED vars PROVE Inv'
<1> USE DEF vars
<1>1. TypeOK' /\ (\A p \in Worker : Shape(proc[p]))'
  BY DEF Inv, TypeOK
<1>2. Anew' /\ DraftHasNoMode'
  BY DEF Inv, Anew, DraftHasNoMode
<1>3. Open' = Open
  BY DEF Open
<1>4. Watchful'
  BY <1>3 DEF Inv, Watchful, LegsSeen
<1>5. ArchivedIsOver'
  BY <1>3 DEF Inv, ArchivedIsOver, AboutToDisarm, Does, Archives
<1>6. BookedOnce'
  BY DEF Inv, BookedOnce, LotsOf, Copied, Unbooked, Active
<1> QED
  BY <1>1, <1>2, <1>4, <1>5, <1>6 DEF Inv

\* The places of the handlers in their lists of steps, and what they know there, hold at
\* every step, and with them the properties.
THEOREM InvCorrect == Spec => []Inv
<1>1. Inv /\ [Next]_vars => Inv'
  <2> SUFFICES ASSUME Inv, [Next]_vars PROVE Inv'
    OBVIOUS
  <2>1. ASSUME NEW p \in Worker, Asks(p) PROVE Inv'
    BY <2>1, AsksKeeps
  <2>2. ASSUME NEW s \in Settler, Settle(s), UNCHANGED armed PROVE Inv'
    BY <2>2, SettleKeeps, WorkerAssumption
  <2>3. ASSUME NEW p \in Worker, Step(p) PROVE Inv'
    BY <2>3, LookKeeps, CloseKeeps, CopyKeeps, ReadTotalKeeps, ReadLeftKeeps, DisarmKeeps,
       WriteKeeps, AddLegKeeps, ReopenKeeps, SetKeeps DEF Step
  <2>4. ASSUME NEW p \in Worker, Die(p) PROVE Inv'
    BY <2>4, DieKeeps
  <2> QED
    BY <2>1, <2>2, <2>3, <2>4, StutterInv DEF Next
<1> QED
  BY InitInv, <1>1, PTL DEF Spec

\* The legs, the total, the rules and what every handler knows of them keep their types
\* (StrategyBook.TypeOK).
THEOREM TypeCorrect == Spec => []TypeOK
<1>1. Inv => TypeOK
  BY DEF Inv
<1> QED
  BY <1>1, InvCorrect, PTL

\* No lot is lost or closed twice and the realised total is what was closed, but for the
\* races and failures that are named (StrategyBook.BookedOnce).
THEOREM BookedCorrect == Spec => []BookedOnce
<1>1. Inv => BookedOnce
  BY DEF Inv
<1> QED
  BY <1>1, InvCorrect, PTL

\* A strategy archived by trading has no open leg and no armed rule, or who archived it is
\* about to disarm them (StrategyBook.ArchivedIsOver).
THEOREM OverCorrect == Spec => []ArchivedIsOver
<1>1. Inv => ArchivedIsOver
  BY DEF Inv
<1> QED
  BY <1>1, InvCorrect, PTL

=============================================================================
