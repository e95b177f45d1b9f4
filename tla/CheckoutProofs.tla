---------------------------- MODULE CheckoutProofs ----------------------------
(***************************************************************************)
(* Proofs about Checkout, for any orders, requests at a time, kinds of     *)
(* them and bound of the counters.                                         *)
(***************************************************************************)
EXTENDS Checkout, FiniteSetTheorems, TLAPS

\* Requests that end in marking an order paid.
Books(h) == job[h].kind \in {"confirm", "webhook", "activate"}

(* What a request is about, and what it has written by where it stands     *)
(* (checkout.ts, settlePaid, failPayment, recordFreePayment): it marks an  *)
(* order paid after it has granted and credited it.                        *)
Requests ==
    \A h \in Handler : job[h] # Idle =>
      LET o == job[h].order
          at == job[h].at
      IN  /\ Settling(h) => o \in captured
          /\ job[h].kind \in {"failed", "cancel"} => o \in Paid /\ at \in {"read", "write"}
          /\ job[h].kind = "activate" => o \in Free
          /\ job[h].kind = "setPlan" => o \in Gift /\ at \in {"read", "cancel", "grant", "commission"}
          /\ Books(h) /\ at \in {"redeem", "commission", "number", "write"} => granted[o] > 0
          /\ Books(h) /\ (at \in {"number", "write"} \/ (at = "redeem" /\ ~Settling(h)))
               => o \in credited

(* The first two parts of BookedForMoney.                                  *)
Booked ==
    /\ \A o \in Paid : granted[o] > 0 => o \in captured
    /\ \A o \in Order : status[o] = "paid" => granted[o] > 0 /\ o \in credited

Inv == TypeOK /\ Requests /\ Booked

-----------------------------------------------------------------------------
\* Sizes and products the types speak of are numbers.
LEMMA Numbers ==
  /\ Cardinality(Order) \in Nat
  /\ Cap * Cardinality(Order) \in Nat
  /\ Cap * Cardinality(Order) >= Cardinality(Order)
<1>1. Cardinality(Order) \in Nat
  BY OrderAssumption, FS_CardinalityType
<1>2. \A n \in Nat : Cap * n \in Nat /\ Cap * n >= n
  BY CapAssumption
<1> QED
  BY <1>1, <1>2

\* A request that goes on, and one that ends, leave every job a job.
LEMMA JobType ==
  ASSUME TypeOK, NEW h \in Handler, job[h] # Idle
  PROVE  /\ \A stage \in Stage : Goto(h, stage) => job' \in [Handler -> Job]
         /\ Answer(h) \/ Die(h) => job' \in [Handler -> Job]
<1>1. job \in [Handler -> Job] /\ Idle \in Job
  BY DEF TypeOK, Job
<1>2. job[h] \in [kind : Kind, order : Source, at : Stage, current : Source \cup {None},
                  number : 0..Cardinality(Order) + 1]
  BY <1>1 DEF Job
<1>3. ASSUME NEW stage \in Stage, Goto(h, stage) PROVE job' \in [Handler -> Job]
  <2>1. [job[h] EXCEPT !.at = stage] \in Job
    BY <1>2 DEF Job
  <2>2. job' = [job EXCEPT ![h] = [job[h] EXCEPT !.at = stage]]
    BY <1>3 DEF Goto
  <2> QED
    BY <1>1, <2>1, <2>2
<1>4. Answer(h) \/ Die(h) => job' \in [Handler -> Job]
  BY <1>1 DEF Answer, Die
<1> QED
  BY <1>3, <1>4

\* The job of a request under way, field by field.
LEMMA JobFields ==
  ASSUME TypeOK, NEW h \in Handler, job[h] # Idle
  PROVE  /\ job[h].kind \in {"confirm", "webhook", "failed", "cancel", "activate", "setPlan"}
         /\ job[h].order \in Source /\ job[h].at \in Stage
         /\ job[h].number \in 0..Cardinality(Order) + 1
  BY KindAssumption DEF TypeOK, Job


\* What goes on and what ends, seen from the requests.
LEMMA JobMoves ==
  ASSUME TypeOK, NEW h \in Handler, job[h] # Idle
  PROVE  /\ \A stage \in Stage : Goto(h, stage) =>
              /\ \A g \in Handler : g # h => job'[g] = job[g]
              /\ job'[h].kind = job[h].kind /\ job'[h].order = job[h].order
              /\ job'[h].at = stage
         /\ Answer(h) \/ Die(h) => \A g \in Handler : job'[g] = IF g = h THEN Idle ELSE job[g]
<1>1. job \in [Handler -> Job]
  BY DEF TypeOK
<1>2. job[h] \in [kind : Kind, order : Source, at : Stage, current : Source \cup {None},
                  number : 0..Cardinality(Order) + 1]
  BY <1>1 DEF Job
<1>3. ASSUME NEW stage \in Stage, Goto(h, stage)
      PROVE  /\ \A g \in Handler : g # h => job'[g] = job[g]
             /\ job'[h].kind = job[h].kind /\ job'[h].order = job[h].order
             /\ job'[h].at = stage
  <2> DEFINE r == [job[h] EXCEPT !.at = stage]
  <2>1. r.kind = job[h].kind /\ r.order = job[h].order /\ r.at = stage
    BY <1>2
  <2>2. job' = [job EXCEPT ![h] = r]
    BY <1>3 DEF Goto
  <2> HIDE DEF r
  <2> QED
    BY <1>1, <2>1, <2>2
<1>4. Answer(h) \/ Die(h) => \A g \in Handler : job'[g] = IF g = h THEN Idle ELSE job[g]
  BY <1>1 DEF Answer, Die
<1> QED
  BY <1>3, <1>4

\* A request that goes on keeps what the requests are about, if it may stand where it goes.
LEMMA MovedKeeps ==
  ASSUME Inv, NEW h \in Handler, job[h] # Idle, NEW stage \in Stage,
         \A g \in Handler : g # h => job'[g] = job[g],
         job'[h].kind = job[h].kind, job'[h].order = job[h].order, job'[h].at = stage,
         captured' = captured,
         \A s \in Source : granted[s] > 0 => granted'[s] > 0, credited \subseteq credited',
         job[h].kind \in {"failed", "cancel"} => stage \in {"read", "write"},
         job[h].kind = "setPlan" => stage \in {"read", "cancel", "grant", "commission"},
         Books(h) /\ stage \in {"redeem", "commission", "number", "write"}
           => granted'[job[h].order] > 0,
         Books(h) /\ (stage \in {"number", "write"} \/ (stage = "redeem" /\ ~Settling(h)))
           => job[h].order \in credited'
  PROVE  Requests'
<1> SUFFICES ASSUME NEW g \in Handler, job'[g] # Idle
             PROVE  LET o == job'[g].order
                        at == job'[g].at
                    IN  /\ Settling(g)' => o \in captured'
                        /\ job'[g].kind \in {"failed", "cancel"}
                             => o \in Paid /\ at \in {"read", "write"}
                        /\ job'[g].kind = "activate" => o \in Free
                        /\ job'[g].kind = "setPlan"
                             => o \in Gift /\ at \in {"read", "cancel", "grant", "commission"}
                        /\ Books(g)' /\ at \in {"redeem", "commission", "number", "write"}
                             => granted'[o] > 0
                        /\ Books(g)' /\ (at \in {"number", "write"} \/ (at = "redeem" /\ ~Settling(g)'))
                             => o \in credited'
  BY DEF Requests
<1>1. TypeOK
  BY DEF Inv
<1>2. CASE g = h
  BY <1>1, <1>2 DEF Inv, Requests, Books, Settling
<1>3. CASE g # h
  <2>1. job'[g] = job[g] /\ job[g] # Idle
    BY <1>3
  <2>2. job[g].order \in Source
    BY <1>1, <2>1, JobFields
  <2> QED
    BY <2>1, <2>2 DEF Inv, Requests, Books, Settling
<1> QED
  BY <1>2, <1>3

\* In particular after one statement.
LEMMA GoesOnKeeps ==
  ASSUME Inv, NEW h \in Handler, job[h] # Idle, NEW stage \in Stage, Goto(h, stage),
         captured' = captured,
         \A s \in Source : granted[s] > 0 => granted'[s] > 0, credited \subseteq credited',
         job[h].kind \in {"failed", "cancel"} => stage \in {"read", "write"},
         job[h].kind = "setPlan" => stage \in {"read", "cancel", "grant", "commission"},
         Books(h) /\ stage \in {"redeem", "commission", "number", "write"}
           => granted'[job[h].order] > 0,
         Books(h) /\ (stage \in {"number", "write"} \/ (stage = "redeem" /\ ~Settling(h)))
           => job[h].order \in credited'
  PROVE  Requests'
  BY MovedKeeps, JobMoves DEF Inv

\* A request that ends, or any step that leaves the jobs alone, keeps it as well.
LEMMA EndKeeps ==
  ASSUME Inv, \A g \in Handler : job'[g] \in {Idle, job[g]},
         captured \subseteq captured',
         \A s \in Source : granted[s] > 0 => granted'[s] > 0, credited \subseteq credited'
  PROVE  Requests'
<1> SUFFICES ASSUME NEW g \in Handler, job'[g] # Idle
             PROVE  LET o == job'[g].order
                        at == job'[g].at
                    IN  /\ Settling(g)' => o \in captured'
                        /\ job'[g].kind \in {"failed", "cancel"}
                             => o \in Paid /\ at \in {"read", "write"}
                        /\ job'[g].kind = "activate" => o \in Free
                        /\ job'[g].kind = "setPlan"
                             => o \in Gift /\ at \in {"read", "cancel", "grant", "commission"}
                        /\ Books(g)' /\ at \in {"redeem", "commission", "number", "write"}
                             => granted'[o] > 0
                        /\ Books(g)' /\ (at \in {"number", "write"} \/ (at = "redeem" /\ ~Settling(g)'))
                             => o \in credited'
  BY DEF Requests
<1>1. job'[g] = job[g] /\ job[g] # Idle
  OBVIOUS
<1>2. job[g].order \in Source
  BY <1>1, JobFields DEF Inv
<1> QED
  BY <1>1, <1>2 DEF Inv, Requests, Books, Settling

\* An entry counted up is more than nothing and within its bound.
LEMMA IncIsCounted == \A n \in 0..Cap : Inc(n) \in 0..Cap /\ Inc(n) > 0
  BY CapAssumption DEF Inc

-----------------------------------------------------------------------------
\* Every statement of a request keeps the invariant.
LEMMA WorkKeeps == ASSUME Inv, NEW h \in Handler, Work(h) PROVE Inv'
<1> USE DEF rows, razorpay
<1>1. TypeOK /\ job[h] # Idle
  BY DEF Inv, Work, ReadPayment, ReadCurrent, CancelOld, Grant, Redeem, Commission, Number,
         MarkPaid, MarkFailed, At
<1>2. CASE ReadPayment(h)
  <2>1. CASE Proceeds(h) /\ Goto(h, IF Settling(h) THEN "cancel" ELSE "write") /\ UNCHANGED razorpay
    <3>1. Requests'
      BY <1>1, <1>2, <2>1, GoesOnKeeps, JobFields DEF ReadPayment, Proceeds, Settling, Books, Stage
    <3>2. job' \in [Handler -> Job]
      BY <1>1, <2>1, JobType DEF Stage
    <3> QED
      BY <1>2, <2>1, <3>1, <3>2 DEF ReadPayment, Inv, TypeOK, Booked
  <2>2. CASE ~Proceeds(h) /\ Answer(h)
    <3>1. Requests'
      BY <1>1, <1>2, <2>2, EndKeeps, JobMoves DEF ReadPayment, Answer
    <3>2. job' \in [Handler -> Job]
      BY <1>1, <2>2, JobType
    <3>3. acked' \subseteq Paid
      BY <1>1, <1>2, <2>2 DEF ReadPayment, Answer, TypeOK
    <3> QED
      BY <1>2, <2>2, <3>1, <3>2, <3>3 DEF ReadPayment, Answer, Inv, TypeOK, Booked
  <2> QED
    BY <1>2, <2>1, <2>2 DEF ReadPayment
<1>3. CASE ReadCurrent(h)
  <2>1. CASE Die(h)
    <3>1. Requests'
      BY <1>1, <1>3, <2>1, EndKeeps, JobMoves DEF ReadCurrent, Die
    <3>2. job' \in [Handler -> Job]
      BY <1>1, <2>1, JobType
    <3> QED
      BY <1>3, <2>1, <3>1, <3>2 DEF ReadCurrent, Die, Inv, TypeOK, Booked
  <2>2. ASSUME NEW current \in Source \cup {None}, UNCHANGED razorpay,
               job' = [job EXCEPT ![h].at = "cancel", ![h].current = current]
        PROVE  Inv'
    <3> DEFINE r == [job[h] EXCEPT !.at = "cancel", !.current = current]
    <3>1. job[h] \in [kind : Kind, order : Source, at : Stage, current : Source \cup {None},
                      number : 0..Cardinality(Order) + 1]
      BY <1>1 DEF TypeOK, Job
    <3>2. r \in Job /\ r.kind = job[h].kind /\ r.order = job[h].order /\ r.at = "cancel"
      BY <3>1 DEF Job, Stage
    <3>3. job' = [job EXCEPT ![h] = r]
      BY <2>2
    <3> HIDE DEF r
    <3>4. job' \in [Handler -> Job]
      BY <1>1, <3>2, <3>3 DEF TypeOK
    <3>5. \A g \in Handler : job'[g] = IF g = h THEN r ELSE job[g]
      BY <1>1, <3>3 DEF TypeOK
    <3>6. job[h].kind \notin {"failed", "cancel"}
      BY <1>1, <1>3 DEF ReadCurrent, Inv, Requests
    <3>7. Requests'
      <4> DEFINE stage == "cancel"
      <4>1. stage \in Stage /\ stage \notin {"redeem", "commission", "number", "write"}
        BY DEF Stage
      <4>2. stage \in {"read", "cancel", "grant", "commission"}
        OBVIOUS
      <4>3. /\ \A g \in Handler : g # h => job'[g] = job[g]
            /\ job'[h].kind = job[h].kind /\ job'[h].order = job[h].order /\ job'[h].at = stage
        BY <3>2, <3>5
      <4>4. UNCHANGED <<captured, granted, credited>>
        BY <1>3, <2>2 DEF ReadCurrent
      <4> HIDE DEF stage
      <4> QED
        BY <1>1, <3>6, <4>1, <4>2, <4>3, <4>4, MovedKeeps
    <3> QED
      BY <1>3, <2>2, <3>4, <3>7 DEF ReadCurrent, Inv, TypeOK, Booked
  <2>3. ActiveSubscription \subseteq Source \cup {None}
    BY DEF ActiveSubscription
  <2> QED
    BY <1>3, <2>1, <2>2, <2>3 DEF ReadCurrent
<1>4. CASE CancelOld(h)
  <2>1. Requests'
    BY <1>1, <1>4, GoesOnKeeps DEF CancelOld, At, Inv, Requests, Stage
  <2>2. job' \in [Handler -> Job]
    BY <1>1, <1>4, JobType DEF CancelOld, Stage
  <2>3. active' \in [Source -> 0..Cap]
    BY <1>1, <1>4, CapAssumption DEF CancelOld, TypeOK
  <2> QED
    BY <1>4, <2>1, <2>2, <2>3 DEF CancelOld, Inv, TypeOK, Booked
<1>5. CASE Grant(h)
  <2>1. /\ active' \in [Source -> 0..Cap] /\ granted' \in [Source -> 0..Cap]
        /\ \A s \in Source : granted'[s] = IF s = job[h].order THEN Inc(granted[s]) ELSE granted[s]
    BY <1>1, <1>5, IncIsCounted, JobFields DEF Grant, TypeOK
  <2>2. \A s \in Source : granted[s] > 0 => granted'[s] > 0
    BY <1>1, <2>1, IncIsCounted DEF TypeOK
  <2>3. job[h].order \in Source /\ granted'[job[h].order] > 0
    BY <1>1, <2>1, IncIsCounted, JobFields DEF TypeOK
  <2>4. Requests'
    BY <1>1, <1>5, <2>2, <2>3, GoesOnKeeps DEF Grant, At, Inv, Requests, Stage, Settling, Books
  <2>5. job' \in [Handler -> Job]
    BY <1>1, <1>5, JobType DEF Grant, Stage
  <2>6. Booked'
    <3>1. job[h].order \in Paid => job[h].order \in captured
      BY <1>1, <1>5, JobFields, OrderAssumption
         DEF Grant, At, Inv, Requests, Settling, Order, Source
    <3> QED
      BY <1>1, <1>5, <2>1, <2>2, <3>1 DEF Grant, Inv, Booked, Order, Source
  <2> QED
    BY <1>5, <2>1, <2>4, <2>5, <2>6 DEF Grant, Inv, TypeOK
<1>6. CASE Redeem(h)
  <2>1. used' \in 0..Cap * Cardinality(Order)
    BY <1>1, <1>6, Numbers DEF Redeem, TypeOK
  <2>2. CASE Settling(h) /\ Goto(h, "commission") /\ UNCHANGED razorpay
    <3>1. Requests'
      BY <1>1, <1>6, <2>2, GoesOnKeeps DEF Redeem, At, Inv, Requests, Stage, Settling, Books
    <3>2. job' \in [Handler -> Job]
      BY <1>1, <2>2, JobType DEF Stage
    <3> QED
      BY <1>6, <2>1, <2>2, <3>1, <3>2 DEF Redeem, Inv, TypeOK, Booked
  <2>3. CASE ~Settling(h) /\ Answer(h)
    <3>1. Requests'
      BY <1>1, <1>6, <2>3, EndKeeps, JobMoves DEF Redeem, Answer
    <3>2. job' \in [Handler -> Job]
      BY <1>1, <2>3, JobType
    <3> QED
      BY <1>6, <2>1, <2>3, <3>1, <3>2 DEF Redeem, Answer, Settling, Inv, TypeOK, Booked
  <2> QED
    BY <1>6, <2>2, <2>3 DEF Redeem
<1>7. CASE Commission(h)
  <2>1. credited' = credited \cup {job[h].order} /\ job[h].order \in Source
    BY <1>1, <1>7, JobFields DEF Commission
  <2>2. CASE job[h].kind = "setPlan" /\ Answer(h)
    <3>1. Requests'
      BY <1>1, <1>7, <2>1, <2>2, EndKeeps, JobMoves DEF Commission, Answer
    <3>2. job' \in [Handler -> Job]
      BY <1>1, <2>2, JobType
    <3> QED
      BY <1>7, <2>1, <2>2, <3>1, <3>2 DEF Commission, Answer, Inv, TypeOK, Booked
  <2>3. CASE job[h].kind # "setPlan" /\ Goto(h, "number") /\ UNCHANGED razorpay
    <3>1. Requests'
      BY <1>1, <1>7, <2>1, <2>3, GoesOnKeeps DEF Commission, At, Inv, Requests, Stage, Settling, Books
    <3>2. job' \in [Handler -> Job]
      BY <1>1, <2>3, JobType DEF Stage
    <3> QED
      BY <1>7, <2>1, <2>3, <3>1, <3>2 DEF Commission, Inv, TypeOK, Booked
  <2> QED
    BY <1>7, <2>2, <2>3 DEF Commission
<1>8. CASE Number(h)
  <2> DEFINE n == Cardinality(Numbered) + 1
             r == [job[h] EXCEPT !.at = "write", !.number = n]
  <2>1. n \in 0..Cardinality(Order) + 1
    <3>1. Numbered \in SUBSET Order
      BY DEF Numbered
    <3>2. IsFiniteSet(Numbered) /\ Cardinality(Numbered) <= Cardinality(Order)
      BY <3>1, OrderAssumption, FS_Subset
    <3> QED
      BY <3>2, FS_CardinalityType, Numbers
  <2>2. job[h] \in [kind : Kind, order : Source, at : Stage, current : Source \cup {None},
                    number : 0..Cardinality(Order) + 1]
    BY <1>1 DEF TypeOK, Job
  <2>3. r \in Job /\ r.kind = job[h].kind /\ r.order = job[h].order /\ r.at = "write"
    <3> HIDE DEF n
    <3> QED
      BY <2>1, <2>2 DEF Job, Stage
  <2>4. job' = [job EXCEPT ![h] = r]
    BY <1>8 DEF Number
  <2> HIDE DEF n, r
  <2>5. job' \in [Handler -> Job]
    BY <1>1, <2>3, <2>4 DEF TypeOK
  <2>6. \A g \in Handler : job'[g] = IF g = h THEN r ELSE job[g]
    BY <1>1, <2>4 DEF TypeOK
  <2>7. job[h].at = "number"
    BY <1>8 DEF Number, At
  <2>8. Requests'
    <3>1. job[h].kind \notin {"failed", "cancel", "setPlan"}
      BY <1>1, <2>7 DEF Inv, Requests
    <3>2. Books(h) => granted[job[h].order] > 0 /\ job[h].order \in credited
      BY <1>1, <2>7 DEF Inv, Requests
    <3> QED
      BY <1>1, <1>8, <2>3, <2>6, <3>1, <3>2, MovedKeeps DEF Number, Stage
  <2> QED
    BY <1>8, <2>5, <2>8 DEF Number, Inv, TypeOK, Booked
<1>9. CASE MarkPaid(h)
  <2>1. /\ job[h].order \in Order /\ job[h].number \in 0..Cardinality(Order) + 1
        /\ granted[job[h].order] > 0 /\ job[h].order \in credited /\ Books(h)
    BY <1>1, <1>9, JobFields DEF MarkPaid, At, Inv, TypeOK, Requests, Settling, Books, Order
  <2>2. /\ status' \in [Order -> {"none", "pending", "paid", "failed"}]
        /\ invoice' \in [Order -> 0..Cardinality(Order) + 1]
    BY <1>1, <1>9, <2>1 DEF MarkPaid, TypeOK
  <2>3. Booked'
    BY <1>1, <1>9, <2>1 DEF MarkPaid, Answer, Die, Inv, TypeOK, Booked
  <2>4. Requests' /\ job' \in [Handler -> Job]
    <3>1. CASE Answer(h) \/ Die(h)
      BY <1>1, <1>9, <3>1, EndKeeps, JobMoves, JobType DEF MarkPaid, Answer, Die
    <3>2. CASE ~Settling(h) /\ Goto(h, "redeem") /\ UNCHANGED razorpay
      BY <1>1, <1>9, <2>1, <3>2, GoesOnKeeps, JobType DEF MarkPaid, Stage, Books
    <3> QED
      BY <1>9, <3>1, <3>2 DEF MarkPaid
  <2>5. acked' \subseteq Paid
    BY <1>1, <1>9 DEF MarkPaid, Answer, Die, Inv, TypeOK, Requests, Settling
  <2>6. UNCHANGED <<captured, refused>>
    BY <1>9 DEF MarkPaid, Answer, Die
  <2> QED
    BY <1>1, <1>9, <2>2, <2>3, <2>4, <2>5, <2>6 DEF MarkPaid, Inv, TypeOK
<1>10. CASE MarkFailed(h)
  <2>1. job[h].order \in Paid /\ job[h].kind # "webhook"
    BY <1>1, <1>10 DEF MarkFailed, Inv, Requests
  <2>2. status' \in [Order -> {"none", "pending", "paid", "failed"}]
    BY <1>1, <1>10, <2>1 DEF MarkFailed, TypeOK, Order
  <2>3. Requests' /\ job' \in [Handler -> Job]
    BY <1>1, <1>10, EndKeeps, JobMoves, JobType DEF MarkFailed, Answer
  <2>4. UNCHANGED <<captured, refused, acked>>
    BY <1>10, <2>1 DEF MarkFailed, Answer
  <2> QED
    BY <1>1, <1>10, <2>2, <2>3, <2>4 DEF MarkFailed, Inv, TypeOK, Booked
<1> QED
  BY <1>2, <1>3, <1>4, <1>5, <1>6, <1>7, <1>8, <1>9, <1>10 DEF Work

\* So does every other step.
LEMMA StepKeeps == Inv /\ [Next]_vars => Inv'
<1> SUFFICES ASSUME Inv, [Next]_vars PROVE Inv'
  OBVIOUS
<1> USE DEF rows, razorpay
<1>1. ASSUME NEW o \in Paid, Capture(o) \/ Refuse(o) PROVE Inv'
  <2>1. Requests'
    BY <1>1, EndKeeps DEF Capture, Refuse, Inv, TypeOK
  <2> QED
    BY <1>1, <2>1 DEF Capture, Refuse, Inv, TypeOK, Booked
<1>2. ASSUME NEW o \in Paid, StartCheckout(o) PROVE Inv'
  <2>1. Requests'
    BY <1>2, EndKeeps DEF StartCheckout
  <2>2. status' \in [Order -> {"none", "pending", "paid", "failed"}]
    BY <1>2 DEF StartCheckout, Inv, TypeOK, Order
  <2> QED
    BY <1>2, <2>1, <2>2 DEF StartCheckout, Inv, TypeOK, Booked, Order
<1>3. ASSUME NEW h \in Handler, Work(h) PROVE Inv'
  BY <1>3, WorkKeeps
<1>4. ASSUME NEW h \in Handler, NEW kind \in Kind, NEW s \in Source, Arrive(h, kind, s) PROVE Inv'
  <2> DEFINE r == [kind |-> kind, order |-> s, at |-> "read", current |-> None, number |-> 0]
  <2>1. r \in Job
    BY Numbers DEF Job, Stage
  <2>2. job' = [job EXCEPT ![h] = r]
    BY <1>4 DEF Arrive
  <2>3. r.kind = kind /\ r.order = s /\ r.at = "read"
    OBVIOUS
  <2> HIDE DEF r
  <2>4. job' \in [Handler -> Job] /\ \A g \in Handler : job'[g] = IF g = h THEN r ELSE job[g]
    BY <2>1, <2>2 DEF Inv, TypeOK
  <2>5. /\ kind \in {"confirm", "webhook"} => s \in captured
        /\ kind \in {"failed", "cancel"} => s \in Paid
        /\ kind = "activate" => s \in Free
        /\ kind = "setPlan" => s \in Gift
    BY <1>4 DEF Arrive, MayArrive, Inv, TypeOK
  <2>6. Requests'
    BY <1>4, <2>3, <2>4, <2>5 DEF Arrive, Inv, Requests, Settling, Books
  <2> QED
    BY <1>4, <2>4, <2>6 DEF Arrive, Inv, TypeOK, Booked
<1>5. ASSUME NEW h \in Handler, Crash(h) PROVE Inv'
  <2>1. Requests' /\ job' \in [Handler -> Job]
    BY <1>5, EndKeeps, JobMoves, JobType DEF Crash, Die, Inv
  <2> QED
    BY <1>5, <2>1 DEF Crash, Die, Inv, TypeOK, Booked
<1>6. CASE UNCHANGED vars
  <2>1. Requests'
    BY <1>6, EndKeeps DEF vars
  <2> QED
    BY <1>6, <2>1 DEF vars, Inv, TypeOK, Booked
<1> QED
  BY <1>1, <1>2, <1>3, <1>4, <1>5, <1>6 DEF Next, HealthyNext

\* And it holds at first.
LEMMA InitOK == Init => Inv
<1> SUFFICES ASSUME Init PROVE Inv
  OBVIOUS
<1>1. TypeOK
  BY Numbers, CapAssumption DEF Init, TypeOK, Job
<1>2. Requests
  BY DEF Init, Requests
<1>3. Booked
  BY DEF Init, Booked, Source, Order
<1> QED
  BY <1>1, <1>2, <1>3 DEF Inv

(* Payments, subscriptions and requests keep their types.                  *)
THEOREM TypeCorrect == Spec => []TypeOK
<1>1. Inv => TypeOK
  BY DEF Inv
<1> QED
  BY <1>1, InitOK, StepKeeps, PTL DEF Spec

-----------------------------------------------------------------------------
(* The rest of BookedForMoney, which holds unless a request dies between   *)
(* marking a free order paid and redeeming its coupon.  Orders on the      *)
(* coupon's counter: those that are paid, but for the free ones still to   *)
(* be redeemed, and those redeemed that are still to be marked paid.       *)
ToRedeem(h, o) ==
    job[h] # Idle /\ job[h].kind = "activate" /\ job[h].at = "redeem" /\ job[h].order = o
Redeemed(h, o) ==
    /\ job[h] # Idle /\ Settling(h) /\ job[h].at \in {"commission", "number", "write"}
    /\ job[h].order = o
Counted ==
    {o \in Order : \/ status[o] = "paid" /\ \A h \in Handler : ~ToRedeem(h, o)
                   \/ \E h \in Handler : Redeemed(h, o)}
Balanced == Cardinality(Counted) <= used

\* A step of one request that redeems nothing adds no order to them.
LEMMA NoneCounted ==
  ASSUME NEW h \in Handler, \A g \in Handler : g # h => job'[g] = job[g],
         \A o \in Order :
           /\ Redeemed(h, o)' => Redeemed(h, o)
           /\ ToRedeem(h, o) => ToRedeem(h, o)'
           /\ status'[o] = "paid" => status[o] = "paid" \/ Redeemed(h, o) \/ ToRedeem(h, o)'
  PROVE  Counted' \subseteq Counted
<1> SUFFICES ASSUME NEW o \in Order, o \in Counted' PROVE o \in Counted
  BY DEF Counted
<1>1. \A g \in Handler : g # h =>
        (ToRedeem(g, o)' <=> ToRedeem(g, o)) /\ (Redeemed(g, o)' <=> Redeemed(g, o))
  BY DEF ToRedeem, Redeemed, Settling
<1>2. CASE \E g \in Handler : Redeemed(g, o)'
  BY <1>1, <1>2 DEF Counted
<1>3. CASE status'[o] = "paid" /\ \A g \in Handler : ~ToRedeem(g, o)'
  BY <1>1, <1>3 DEF Counted
<1> QED
  BY <1>2, <1>3 DEF Counted

\* One that redeems adds its own at most.
LEMMA OneCounted ==
  ASSUME NEW h \in Handler, \A g \in Handler : g # h => job'[g] = job[g],
         job'[h] = Idle \/ job'[h].order = job[h].order, UNCHANGED status
  PROVE  Counted' \subseteq Counted \cup {job[h].order}
<1> SUFFICES ASSUME NEW o \in Order, o \in Counted', o # job[h].order PROVE o \in Counted
  BY DEF Counted
<1>1. \A g \in Handler :
        (ToRedeem(g, o) => ToRedeem(g, o)') /\ (Redeemed(g, o)' => Redeemed(g, o))
  BY DEF ToRedeem, Redeemed, Settling
<1> QED
  BY <1>1 DEF Counted

\* The counter keeps up with a set that does not grow, or grows by one while it counts up.
LEMMA CounterKeepsUp ==
  ASSUME TypeOK, Balanced, TypeOK',
         \/ Counted' \subseteq Counted /\ used' = used
         \/ \E o \in Order : Counted' \subseteq Counted \cup {o} /\ used' = used + 1
         \/ used' = Cap * Cardinality(Order)
  PROVE  Balanced'
<1>1. /\ IsFiniteSet(Counted) /\ Cardinality(Counted) \in Nat
      /\ IsFiniteSet(Counted') /\ Cardinality(Counted') <= Cardinality(Order)
      /\ Cardinality(Counted') \in Nat
  <2>1. Counted \in SUBSET Order /\ Counted' \in SUBSET Order
    BY DEF Counted
  <2> QED
    BY <2>1, OrderAssumption, FS_Subset, FS_CardinalityType
<1>2. CASE Counted' \subseteq Counted /\ used' = used
  <2>1. Cardinality(Counted') <= Cardinality(Counted)
    BY <1>1, <1>2, FS_Subset
  <2> QED
    BY <1>1, <1>2, <2>1 DEF Balanced, TypeOK
<1>3. ASSUME NEW o \in Order, Counted' \subseteq Counted \cup {o}, used' = used + 1
      PROVE  Balanced'
  <2>1. IsFiniteSet(Counted \cup {o}) /\ Cardinality(Counted \cup {o}) <= Cardinality(Counted) + 1
    BY <1>1, FS_AddElement
  <2>2. Cardinality(Counted') <= Cardinality(Counted \cup {o})
        /\ Cardinality(Counted \cup {o}) \in Nat
    BY <1>3, <2>1, FS_Subset, FS_CardinalityType
  <2>3. used \in Nat
    BY Numbers DEF TypeOK
  <2> QED
    BY <1>1, <1>3, <2>1, <2>2, <2>3 DEF Balanced
<1>4. CASE used' = Cap * Cardinality(Order)
  BY <1>1, <1>4, Numbers DEF Balanced
<1> QED
  BY <1>2, <1>3, <1>4

\* Every statement keeps the balance.
LEMMA WorkBalances ==
  ASSUME Inv, Inv', Balanced, NEW h \in Handler, Work(h)
  PROVE  Balanced'
<1> USE DEF rows, razorpay
<1>1. TypeOK /\ TypeOK' /\ job[h] # Idle
  BY DEF Inv, Work, ReadPayment, ReadCurrent, CancelOld, Grant, Redeem, Commission, Number,
         MarkPaid, MarkFailed, At
<1>2. CASE Redeem(h)
  <2>1. Counted' \subseteq Counted \cup {job[h].order}
    <3>1. CASE Goto(h, "commission")
      BY <1>1, <1>2, <3>1, JobMoves, OneCounted DEF Redeem, Stage
    <3>2. CASE Answer(h)
      BY <1>1, <1>2, <3>2, JobMoves, OneCounted DEF Redeem
    <3> QED
      BY <1>2, <3>1, <3>2 DEF Redeem
  <2>2. used' = used + 1 \/ used' = Cap * Cardinality(Order)
    BY <1>1, <1>2, Numbers DEF Redeem, TypeOK
  <2>3. job[h].order \in Order
    BY <1>1, <1>2, JobFields DEF Redeem, At, Inv, TypeOK, Requests, Settling, Order
  <2> QED
    BY <1>1, <2>1, <2>2, <2>3, CounterKeepsUp
<1>3. CASE ~Redeem(h)
  <2>1. used' = used /\ \A g \in Handler : g # h => job'[g] = job[g]
    <3>1. used' = used
      BY <1>3 DEF Work, ReadPayment, ReadCurrent, CancelOld, Grant, Commission, Number,
                  MarkPaid, MarkFailed
    <3>2. \E r : job' = [job EXCEPT ![h] = r]
      BY <1>3 DEF Work, ReadPayment, ReadCurrent, CancelOld, Grant, Commission, Number,
                  MarkPaid, MarkFailed, Goto, Answer, Die
    <3> QED
      BY <1>1, <3>1, <3>2 DEF TypeOK
  <2>2. ASSUME NEW o \in Order
        PROVE  /\ Redeemed(h, o)' => Redeemed(h, o)
               /\ ToRedeem(h, o) => ToRedeem(h, o)'
               /\ status'[o] = "paid" => status[o] = "paid" \/ Redeemed(h, o) \/ ToRedeem(h, o)'
    <3>1. CASE ReadPayment(h)
      BY <1>1, <3>1, JobMoves, JobFields
         DEF ReadPayment, At, Redeemed, ToRedeem, Settling, Proceeds, Stage
    <3>2. CASE ReadCurrent(h)
      <4>1. \A g \in Handler : job'[g] = job[g] \/ job'[g] = Idle \/ job'[g].at = "cancel"
        <5>1. ASSUME NEW c \in Source \cup {None},
                     job' = [job EXCEPT ![h].at = "cancel", ![h].current = c]
              PROVE  job'[h].at = "cancel" /\ \A g \in Handler : g # h => job'[g] = job[g]
          BY <1>1, <5>1 DEF TypeOK, Job
        <5>2. ActiveSubscription \subseteq Source \cup {None}
          BY DEF ActiveSubscription
        <5> QED
          BY <1>1, <3>2, <5>1, <5>2, JobMoves DEF ReadCurrent
      <4> QED
        BY <3>2, <4>1 DEF ReadCurrent, At, Redeemed, ToRedeem
    <3>3. CASE CancelOld(h)
      BY <1>1, <3>3, JobMoves, JobFields DEF CancelOld, At, Redeemed, ToRedeem, Settling, Stage
    <3>4. CASE Grant(h)
      BY <1>1, <3>4, JobMoves, JobFields DEF Grant, At, Redeemed, ToRedeem, Settling, Stage
    <3>5. CASE Commission(h)
      BY <1>1, <3>5, JobMoves, JobFields DEF Commission, At, Redeemed, ToRedeem, Settling, Stage
    <3>6. CASE Number(h)
      <4>1. job'[h].kind = job[h].kind /\ job'[h].order = job[h].order
        <5>1. job[h] \in [kind : Kind, order : Source, at : Stage, current : Source \cup {None},
                          number : 0..Cardinality(Order) + 1]
          BY <1>1 DEF TypeOK, Job
        <5> QED
          BY <1>1, <3>6, <5>1 DEF Number, TypeOK
      <4> QED
        BY <1>1, <3>6, <4>1 DEF Number, At, Redeemed, ToRedeem, Settling
    <3>7. CASE MarkPaid(h)
      <4>1. status'[o] = status[o] \/ job[h].order = o
        BY <1>1, <3>7 DEF MarkPaid, TypeOK
      <4>2. CASE Goto(h, "redeem") /\ ~Settling(h)
        BY <1>1, <3>7, <4>1, <4>2, JobMoves
           DEF MarkPaid, At, Redeemed, ToRedeem, Settling, Stage, Idle
      <4>3. CASE Answer(h) /\ Settling(h)
        BY <1>1, <3>7, <4>1, <4>3, JobMoves DEF MarkPaid, At, Redeemed, ToRedeem
      <4>4. CASE Die(h) /\ UNCHANGED status
        BY <1>1, <3>7, <4>4, JobMoves DEF MarkPaid, At, Redeemed, ToRedeem
      <4> QED
        BY <3>7, <4>2, <4>3, <4>4 DEF MarkPaid
    <3>8. CASE MarkFailed(h)
      BY <1>1, <3>8, JobMoves, JobFields DEF MarkFailed, At, Redeemed, ToRedeem, Settling
    <3> QED
      BY <1>3, <3>1, <3>2, <3>3, <3>4, <3>5, <3>6, <3>7, <3>8 DEF Work
  <2>3. Counted' \subseteq Counted
    BY <2>1, <2>2, NoneCounted
  <2> QED
    BY <1>1, <2>1, <2>3, CounterKeepsUp
<1> QED
  BY <1>2, <1>3

\* When no request dies every step keeps the balance.
LEMMA StepBalances ==
  ASSUME ~Crashes, Inv, Inv', Balanced, [Next]_vars PROVE Balanced'
<1> USE DEF rows, razorpay
<1>1. ASSUME UNCHANGED used, Counted' \subseteq Counted PROVE Balanced'
  BY <1>1, CounterKeepsUp DEF Inv
<1>2. ASSUME NEW o \in Paid, Capture(o) \/ Refuse(o) \/ StartCheckout(o) PROVE Balanced'
  <2>1. UNCHANGED <<used, job>> /\ \A x \in Order : status'[x] = "paid" => status[x] = "paid"
    BY <1>2 DEF Capture, Refuse, StartCheckout, Inv, TypeOK
  <2>2. Counted' \subseteq Counted
    BY <2>1 DEF Counted, ToRedeem, Redeemed, Settling
  <2> QED
    BY <1>1, <2>1, <2>2
<1>3. ASSUME NEW h \in Handler, Work(h) PROVE Balanced'
  BY <1>3, WorkBalances
<1>4. ASSUME NEW h \in Handler, NEW kind \in Kind, NEW s \in Source, Arrive(h, kind, s)
      PROVE  Balanced'
  <2>1. /\ UNCHANGED <<used, status>> /\ job[h] = Idle /\ job'[h].at = "read"
        /\ \A g \in Handler : g # h => job'[g] = job[g]
    BY <1>4 DEF Arrive, Inv, TypeOK
  <2>2. Counted' \subseteq Counted
    BY <2>1, NoneCounted DEF ToRedeem, Redeemed
  <2> QED
    BY <1>1, <2>1, <2>2
<1>5. CASE UNCHANGED vars
  <2>1. Counted' = Counted
    BY <1>5 DEF vars, Counted, ToRedeem, Redeemed, Settling
  <2> QED
    BY <1>1, <1>5, <2>1 DEF vars
<1> QED
  BY <1>2, <1>3, <1>4, <1>5 DEF Next, HealthyNext, Crash

(* No plan without money, nothing marked paid before it was granted and    *)
(* credited, and the coupon counted for every paid order (checkout.ts,     *)
(* settlePaid, recordFreePayment), as long as no request dies half way.    *)
THEOREM BookedCorrect == ASSUME ~Crashes PROVE Spec => []BookedForMoney
<1>1. Init => Balanced
  <2> SUFFICES ASSUME Init PROVE Balanced
    OBVIOUS
  <2>1. Counted = {}
    BY DEF Init, Counted, Redeemed
  <2> QED
    BY <2>1, FS_EmptySet DEF Init, Balanced
<1>2. Inv /\ Balanced /\ [Next]_vars => (Inv /\ Balanced)'
  BY StepKeeps, StepBalances
<1>3. Inv /\ Balanced => BookedForMoney
  <2> SUFFICES ASSUME Inv, Balanced, Quiet
               PROVE  used >= Cardinality({o \in Order : status[o] = "paid"})
    BY DEF BookedForMoney, Inv, Booked
  <2>1. Counted = {o \in Order : status[o] = "paid"}
    BY DEF Quiet, Counted, ToRedeem, Redeemed
  <2>2. Cardinality(Counted) \in Nat
    <3>1. Counted \in SUBSET Order
      BY DEF Counted
    <3> QED
      BY <3>1, OrderAssumption, FS_Subset, FS_CardinalityType
  <2>3. used \in Nat
    BY Numbers DEF Inv, TypeOK
  <2> QED
    BY <2>1, <2>2, <2>3 DEF Balanced
<1> QED
  BY <1>1, <1>2, <1>3, InitOK, PTL DEF Spec

-----------------------------------------------------------------------------
\* A buyer who was ever granted a plan has one or is about to be granted one.
OnAPlan ==
    (\E s \in Source : granted[s] > 0) =>
      (\E s \in Source : active[s] > 0) \/ \E h \in Handler : At(h, "grant")

\* Every statement keeps it: only CancelOld takes a plan away, and Grant gives one.
LEMMA WorkKeepsPlan ==
  ASSUME Inv, OnAPlan, NEW h \in Handler, Work(h) PROVE OnAPlan'
<1> USE DEF rows, razorpay
<1>1. TypeOK /\ job[h] # Idle
  BY DEF Inv, Work, ReadPayment, ReadCurrent, CancelOld, Grant, Redeem, Commission, Number,
         MarkPaid, MarkFailed, At
<1>2. CASE CancelOld(h)
  <2>1. job'[h].kind = job[h].kind /\ job'[h].at = "grant"
    BY <1>1, <1>2, JobMoves DEF CancelOld, Stage
  <2>2. job'[h] # Idle
    BY <1>1, <2>1, JobFields DEF Idle
  <2> QED
    BY <2>1, <2>2 DEF OnAPlan, At
<1>3. CASE Grant(h)
  <2>1. job[h].order \in Source /\ active'[job[h].order] = Inc(active[job[h].order])
    BY <1>1, <1>3, JobFields DEF Grant, TypeOK
  <2>2. Inc(active[job[h].order]) > 0
    BY <1>1, <2>1, IncIsCounted DEF TypeOK
  <2> QED
    BY <2>1, <2>2 DEF OnAPlan
<1>4. CASE ~CancelOld(h) /\ ~Grant(h)
  <2>1. UNCHANGED <<granted, active>> /\ job[h].at # "grant"
    BY <1>4 DEF Work, ReadPayment, ReadCurrent, Redeem, Commission, Number, MarkPaid, MarkFailed, At
  <2>2. \E r : job' = [job EXCEPT ![h] = r]
    BY <1>4 DEF Work, ReadPayment, ReadCurrent, Redeem, Commission, Number,
                MarkPaid, MarkFailed, Goto, Answer, Die
  <2>3. \A g \in Handler : At(g, "grant") => At(g, "grant")'
    BY <1>1, <2>1, <2>2 DEF At, TypeOK
  <2> QED
    BY <2>1, <2>3 DEF OnAPlan
<1> QED
  BY <1>2, <1>3, <1>4

(* A buyer is never left without a plan, whatever requests are served at   *)
(* the same time, as long as none dies between cancelling the old          *)
(* subscription and inserting the new one (checkout.ts, settlePaid).       *)
THEOREM PlanCorrect == ASSUME ~Crashes PROVE Spec => []NeverLeftWithoutPlan
<1> USE DEF rows, razorpay
<1>1. Init => OnAPlan
  BY DEF Init, OnAPlan
<1>2. Inv /\ OnAPlan /\ [Next]_vars => (Inv /\ OnAPlan)'
  <2> SUFFICES ASSUME Inv, OnAPlan, [Next]_vars PROVE OnAPlan'
    BY StepKeeps
  <2>1. ASSUME NEW o \in Paid, Capture(o) \/ Refuse(o) \/ StartCheckout(o) PROVE OnAPlan'
    BY <2>1 DEF Capture, Refuse, StartCheckout, OnAPlan, At
  <2>2. ASSUME NEW h \in Handler, Work(h) PROVE OnAPlan'
    BY <2>2, WorkKeepsPlan
  <2>3. ASSUME NEW h \in Handler, NEW kind \in Kind, NEW s \in Source, Arrive(h, kind, s)
        PROVE  OnAPlan'
    <3>1. \A g \in Handler : At(g, "grant") => At(g, "grant")'
      BY <2>3 DEF Arrive, At, Inv, TypeOK
    <3> QED
      BY <2>3, <3>1 DEF Arrive, OnAPlan
  <2>4. CASE UNCHANGED vars
    BY <2>4 DEF vars, OnAPlan, At
  <2> QED
    BY <2>1, <2>2, <2>3, <2>4 DEF Next, HealthyNext, Crash
<1>3. OnAPlan => NeverLeftWithoutPlan
  BY DEF OnAPlan, NeverLeftWithoutPlan, Quiet, At
<1> QED
  BY <1>1, <1>2, <1>3, InitOK, PTL DEF Spec

-----------------------------------------------------------------------------
\* Requests are served one at a time.
OneAtATime == \A g, h \in Handler : g = h

\* A request about to mark an order failed has found it unpaid, and it still is.
FailsUnpaid ==
    \A h \in Handler :
      job[h] # Idle /\ job[h].kind \in {"failed", "cancel"} /\ job[h].at = "write"
        => status[job[h].order] # "paid"

\* Every statement keeps an acknowledged order paid.
LEMMA WorkAcks ==
  ASSUME OneAtATime, Inv, FailsUnpaid, AckedIsPaid, NEW h \in Handler, Work(h)
  PROVE  FailsUnpaid' /\ AckedIsPaid'
<1> USE DEF rows, razorpay
<1>1. TypeOK /\ job[h] # Idle /\ \A g \in Handler : g = h
  BY DEF Inv, Work, ReadPayment, ReadCurrent, CancelOld, Grant, Redeem, Commission, Number,
         MarkPaid, MarkFailed, At, OneAtATime
<1>2. CASE ReadPayment(h)
  <2>1. CASE Proceeds(h) /\ Goto(h, IF Settling(h) THEN "cancel" ELSE "write") /\ UNCHANGED acked
    BY <1>1, <1>2, <2>1, JobMoves
       DEF ReadPayment, Proceeds, Settling, Stage, FailsUnpaid, AckedIsPaid
  <2>2. CASE ~Proceeds(h) /\ Answer(h)
    <3>1. FailsUnpaid'
      BY <1>1, <2>2, JobMoves DEF FailsUnpaid
    <3>2. AckedIsPaid'
      BY <1>2, <2>2 DEF ReadPayment, Proceeds, Settling, Answer, AckedIsPaid
    <3> QED
      BY <3>1, <3>2
  <2> QED
    BY <1>2, <2>1, <2>2 DEF ReadPayment
<1>3. CASE ReadCurrent(h) \/ CancelOld(h) \/ Grant(h) \/ Commission(h) \/ Number(h) \/ Redeem(h)
  <2>1. job[h].kind \notin {"failed", "cancel"}
    BY <1>1, <1>3
       DEF ReadCurrent, CancelOld, Grant, Commission, Number, Redeem, At, Inv, Requests
  <2>2. UNCHANGED <<status, acked>>
    BY <1>3
       DEF ReadCurrent, CancelOld, Grant, Commission, Number, Redeem, Settling, Answer, Die
  <2>3. job'[h] = Idle \/ job'[h].kind = job[h].kind
    <3>1. CASE CancelOld(h) \/ Grant(h) \/ Commission(h) \/ Redeem(h)
      BY <1>1, <3>1, JobMoves DEF CancelOld, Grant, Commission, Redeem, Stage
    <3>2. CASE ReadCurrent(h) \/ Number(h)
      <4>1. job[h] \in [kind : Kind, order : Source, at : Stage, current : Source \cup {None},
                        number : 0..Cardinality(Order) + 1]
        BY <1>1 DEF TypeOK, Job
      <4>2. ASSUME NEW c, job' = [job EXCEPT ![h].at = "cancel", ![h].current = c]
            PROVE  job'[h].kind = job[h].kind
        BY <1>1, <4>1, <4>2 DEF TypeOK
      <4>3. ASSUME NEW n, job' = [job EXCEPT ![h].at = "write", ![h].number = n]
            PROVE  job'[h].kind = job[h].kind
        BY <1>1, <4>1, <4>3 DEF TypeOK
      <4>4. Die(h) => job'[h] = Idle
        BY <1>1, JobMoves
      <4> QED
        BY <3>2, <4>2, <4>3, <4>4 DEF ReadCurrent, Number
    <3> QED
      BY <1>3, <3>1, <3>2
  <2> QED
    BY <1>1, <2>1, <2>2, <2>3 DEF FailsUnpaid, AckedIsPaid
<1>4. CASE MarkPaid(h)
  <2>1. job[h].order \in Order
    BY <1>1, <1>4, JobFields DEF MarkPaid, At, Inv, TypeOK, Requests, Settling, Order
  <2>2. CASE /\ status' = [status EXCEPT ![job[h].order] = "paid"]
             /\ Answer(h) \/ (Goto(h, "redeem") /\ UNCHANGED razorpay)
    <3>1. AckedIsPaid'
      BY <1>1, <2>1, <2>2 DEF AckedIsPaid, Answer, Inv, TypeOK, Order
    <3>2. FailsUnpaid'
      BY <1>1, <1>4, <2>2, JobMoves DEF MarkPaid, FailsUnpaid, Stage
    <3> QED
      BY <3>1, <3>2
  <2>3. CASE Die(h) /\ UNCHANGED status
    BY <1>1, <2>3, JobMoves DEF Die, FailsUnpaid, AckedIsPaid
  <2>4. \/ /\ status' = [status EXCEPT ![job[h].order] = "paid"]
           /\ Answer(h) \/ (Goto(h, "redeem") /\ UNCHANGED razorpay)
        \/ Die(h) /\ UNCHANGED status
    BY <1>4 DEF MarkPaid
  <2> QED
    BY <2>2, <2>3, <2>4
<1>5. CASE MarkFailed(h)
  <2>1. status[job[h].order] # "paid" /\ job[h].kind # "webhook"
    BY <1>1, <1>5 DEF MarkFailed, At, FailsUnpaid
  <2>2. AckedIsPaid' /\ FailsUnpaid'
    BY <1>1, <1>5, <2>1, JobMoves DEF MarkFailed, Answer, AckedIsPaid, FailsUnpaid, TypeOK, Order
  <2> QED
    BY <2>2
<1> QED
  BY <1>2, <1>3, <1>4, <1>5 DEF Work

(* An event Razorpay was answered 200 for has left a paid order behind,    *)
(* when requests are served one at a time, also if they may die anywhere   *)
(* (checkout.ts, handleWebhook).                                           *)
THEOREM AckCorrect == ASSUME OneAtATime PROVE Spec => []AckedIsPaid
<1> USE DEF rows, razorpay
<1> DEFINE AckInv == Inv /\ FailsUnpaid /\ AckedIsPaid
<1>1. Init => AckInv
  BY InitOK DEF Init, FailsUnpaid, AckedIsPaid
<1>2. AckInv /\ [Next]_vars => AckInv'
  <2> SUFFICES ASSUME AckInv, [Next]_vars PROVE FailsUnpaid' /\ AckedIsPaid'
    BY StepKeeps
  <2>1. ASSUME NEW o \in Paid, Capture(o) \/ Refuse(o) PROVE FailsUnpaid' /\ AckedIsPaid'
    BY <2>1 DEF Capture, Refuse, FailsUnpaid, AckedIsPaid
  <2>2. ASSUME NEW o \in Paid, StartCheckout(o) PROVE FailsUnpaid' /\ AckedIsPaid'
    BY <2>2 DEF StartCheckout, Inv, TypeOK, FailsUnpaid, AckedIsPaid, Order
  <2>3. ASSUME NEW h \in Handler, Work(h) PROVE FailsUnpaid' /\ AckedIsPaid'
    BY <2>3, WorkAcks
  <2>4. ASSUME NEW h \in Handler, NEW kind \in Kind, NEW s \in Source, Arrive(h, kind, s)
        PROVE  FailsUnpaid' /\ AckedIsPaid'
    <3>1. /\ UNCHANGED <<status, acked>> /\ job'[h].at = "read"
          /\ \A g \in Handler : g # h => job'[g] = job[g]
      BY <2>4 DEF Arrive, Inv, TypeOK
    <3> QED
      BY <3>1 DEF FailsUnpaid, AckedIsPaid
  <2>5. ASSUME NEW h \in Handler, Crash(h) PROVE FailsUnpaid' /\ AckedIsPaid'
    BY <2>5, JobMoves DEF Crash, Die, Inv, FailsUnpaid, AckedIsPaid
  <2>6. CASE UNCHANGED vars
    BY <2>6 DEF vars, FailsUnpaid, AckedIsPaid
  <2> QED
    BY <2>1, <2>2, <2>3, <2>4, <2>5, <2>6 DEF Next, HealthyNext
<1>3. AckInv => AckedIsPaid
  OBVIOUS
<1> QED
  BY <1>1, <1>2, <1>3, PTL DEF Spec
=============================================================================
