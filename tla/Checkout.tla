------------------------------ MODULE Checkout ------------------------------
(***************************************************************************)
(* Payments and the subscription they buy: apps/api/src/checkout.ts, the   *)
(* zero-total activation of routes/billing.ts and setPlan of               *)
(* admin-users.ts, for one buyer and one coupon.                           *)
(*                                                                         *)
(* Every handler is a sequence of database statements with awaits between  *)
(* them and no transaction around them; a request (Handler) runs one       *)
(* handler at a time and is interleaved with the others at every await.    *)
(* The row a request read at its start is what it decides on.  Every order *)
(* here uses the coupon and has an owner who was referred; the Free plan,  *)
(* which has neither coupon nor invoice number, does less.                 *)
(*                                                                         *)
(* Razorpay is external: it captures or fails an attempt to pay, and       *)
(* delivers each event at least once, late and in any order.               *)
(***************************************************************************)
EXTENDS Naturals, FiniteSets

CONSTANTS Handler,   \* requests served at the same time
          Paid,      \* orders that cost money: one payments row each
          Free,      \* zero-total orders, activated directly
          Gift,      \* plans an admin sets
          None,      \* no subscription
          Kind,      \* the requests that arrive
          Cap,       \* counters stop here
          Crashes    \* may a request die half way?

ASSUME CapAssumption == Cap \in Nat \ {0}

Order == Paid \cup Free
Source == Order \cup Gift

ASSUME KindAssumption ==
    Kind \subseteq {"confirm", "webhook", "failed", "cancel", "activate", "setPlan"}
ASSUME NoneAssumption == None \notin Source
ASSUME OrderAssumption == IsFiniteSet(Order) /\ Paid \cap Free = {} /\ Order \cap Gift = {}

VARIABLES status,       \* payments.status, "none" before the row exists
          invoice,      \* payments.invoiceNo, 0 when null
          active,       \* active subscriptions by what they were bought with
          granted,      \* subscriptions ever inserted, likewise
          credited,     \* those whose commission the referrer got
          used,         \* coupons.usedCount
          captured,     \* Razorpay holds the money
          refused,      \* Razorpay failed an attempt to pay
          acked,        \* Razorpay got a 200 for the captured event
          job           \* the request each handler is serving

rows == <<status, invoice, active, granted, credited, used>>
razorpay == <<captured, refused, acked>>
vars == <<rows, razorpay, job>>

Idle == [kind |-> "idle"]

Stage == {"read", "cancel", "grant", "redeem", "commission", "number", "write"}
Job == {Idle} \cup [kind : Kind, order : Source, at : Stage,
                    current : Source \cup {None}, number : 0..Cardinality(Order) + 1]

TypeOK ==
    /\ status \in [Order -> {"none", "pending", "paid", "failed"}]
    /\ invoice \in [Order -> 0..Cardinality(Order) + 1]
    /\ active \in [Source -> 0..Cap]
    /\ granted \in [Source -> 0..Cap]
    /\ credited \in SUBSET Source
    /\ used \in 0..Cap * Cardinality(Order)
    /\ captured \in SUBSET Paid /\ refused \in SUBSET Paid /\ acked \in SUBSET Paid
    /\ job \in [Handler -> Job]

Init ==
    /\ status = [o \in Order |-> "none"]
    /\ invoice = [o \in Order |-> 0]
    /\ active = [s \in Source |-> 0]
    /\ granted = [s \in Source |-> 0]
    /\ credited = {}
    /\ used = 0
    /\ captured = {} /\ refused = {} /\ acked = {}
    /\ job = [h \in Handler |-> Idle]

-----------------------------------------------------------------------------
(* Razorpay and the buyer.                                                 *)

Capture(o) ==
    /\ status[o] # "none" /\ o \notin captured
    /\ captured' = captured \cup {o}
    /\ UNCHANGED <<rows, refused, acked, job>>

\* One attempt fails; the buyer may try again on the same order.
Refuse(o) ==
    /\ status[o] # "none" /\ o \notin captured /\ o \notin refused
    /\ refused' = refused \cup {o}
    /\ UNCHANGED <<rows, captured, acked, job>>

-----------------------------------------------------------------------------
(* Requests.                                                               *)

\* activeSubscription: the active row that started last, or none. A row starts when
\* its request arrived, not when it was inserted, so any active row can be the last.
ActiveSubscription == IF \A s \in Source : active[s] = 0 THEN {None}
                      ELSE {s \in Source : active[s] > 0}

\* startCheckout: refused on the plan the buyer is already on.
StartCheckout(o) ==
    /\ status[o] = "none"
    /\ \E current \in ActiveSubscription : current # o
    /\ status' = [status EXCEPT ![o] = "pending"]
    /\ UNCHANGED <<invoice, active, granted, credited, used, razorpay, job>>

\* Mutant: nobody checks the signature of a checkout that says it was paid.
MayArriveUnsigned(kind, s) ==
    \/ kind \in {"confirm", "webhook"} /\ s \in Paid /\ status[s] # "none"
    \/ kind = "failed" /\ s \in refused
    \/ kind = "cancel" /\ s \in Paid /\ status[s] # "none"
    \/ kind = "activate" /\ s \in Free /\ status[s] = "none"
    \/ kind = "setPlan" /\ s \in Gift

\* A request arrives when Razorpay's signature lets it through.
MayArrive(kind, s) ==
    \/ kind \in {"confirm", "webhook"} /\ s \in captured
    \/ kind = "failed" /\ s \in refused
    \/ kind = "cancel" /\ s \in Paid /\ status[s] # "none"
    \/ kind = "activate" /\ s \in Free /\ status[s] = "none"
    \/ kind = "setPlan" /\ s \in Gift

Arrive(h, kind, s) ==
    /\ job[h] = Idle /\ MayArrive(kind, s)
    /\ job' = [job EXCEPT ![h] =
         [kind |-> kind, order |-> s, at |-> "read", current |-> None, number |-> 0]]
    /\ UNCHANGED <<rows, razorpay>>

Goto(h, stage) == job' = [job EXCEPT ![h].at = stage]

\* The request answers 200; for Razorpay's captured event that ends the retries.
Answer(h) ==
    /\ job' = [job EXCEPT ![h] = Idle]
    /\ acked' = IF job[h].kind = "webhook" THEN acked \cup {job[h].order} ELSE acked
    /\ UNCHANGED <<captured, refused>>

\* Mutant: a request that fails answers 200 all the same.
DieAnswering(h) ==
    /\ job' = [job EXCEPT ![h] = Idle]
    /\ acked' = IF job[h].kind = "webhook" THEN acked \cup {job[h].order} ELSE acked
    /\ UNCHANGED <<captured, refused>>

\* The request answers an error or dies; what it wrote stays.
Die(h) ==
    /\ job' = [job EXCEPT ![h] = Idle]
    /\ UNCHANGED razorpay

At(h, stage) == job[h] # Idle /\ job[h].at = stage

Settling(h) == job[h].kind \in {"confirm", "webhook"}

\* Mutant: only a pending payment is settled.
ProceedsOnPending(h) ==
    LET o == job[h].order
    IN  \/ Settling(h) /\ status[o] = "pending"
        \/ job[h].kind = "failed" /\ status[o] # "paid"
        \/ job[h].kind = "cancel" /\ status[o] = "pending"

\* What the first SELECT must find for the request to go on.
Proceeds(h) ==
    LET o == job[h].order
    IN  \/ Settling(h) /\ status[o] # "paid"
        \/ job[h].kind = "failed" /\ status[o] # "paid"
        \/ job[h].kind = "cancel" /\ status[o] = "pending"

\* The first SELECT of the payments row, and the early returns on it.
ReadPayment(h) ==
    /\ At(h, "read") /\ job[h].order \in Paid
    /\ IF Proceeds(h)
         THEN /\ Goto(h, IF Settling(h) THEN "cancel" ELSE "write")
              /\ UNCHANGED razorpay
         ELSE Answer(h)
    /\ UNCHANGED rows

\* The first SELECT of activate and setPlan; activate refuses the plan held already.
ReadCurrent(h) ==
    /\ At(h, "read") /\ job[h].order \notin Paid
    /\ \E current \in ActiveSubscription :
         IF current = job[h].order /\ job[h].kind = "activate"
           THEN Die(h)
           ELSE /\ job' = [job EXCEPT ![h].at = "cancel", ![h].current = current]
                /\ UNCHANGED razorpay
    /\ UNCHANGED rows

\* UPDATE subscriptions SET status = 'cancelled': all the active ones, or for setPlan
\* the one it read.
CancelOld(h) ==
    /\ At(h, "cancel")
    /\ active' = [s \in Source |->
         IF job[h].kind = "setPlan" /\ s # job[h].current THEN active[s]
         ELSE IF job[h].kind = "setPlan" /\ active[s] > 0 THEN active[s] - 1
         ELSE 0]
    /\ Goto(h, "grant")
    /\ UNCHANGED <<status, invoice, granted, credited, used, razorpay>>

Inc(n) == IF n < Cap THEN n + 1 ELSE n

\* Mutant: the insert does nothing when the order was granted before.
GrantOnce(h) ==
    /\ At(h, "grant")
    /\ active' = [active EXCEPT ![job[h].order] =
         IF granted[job[h].order] > 0 THEN @ ELSE Inc(@)]
    /\ granted' = [granted EXCEPT ![job[h].order] = Inc(@)]
    /\ Goto(h, IF Settling(h) THEN "redeem" ELSE "commission")
    /\ UNCHANGED <<status, invoice, credited, used, razorpay>>

\* Mutant: settlement forgets the coupon.
GrantUnredeemed(h) ==
    /\ At(h, "grant")
    /\ active' = [active EXCEPT ![job[h].order] = Inc(@)]
    /\ granted' = [granted EXCEPT ![job[h].order] = Inc(@)]
    /\ Goto(h, "commission")
    /\ UNCHANGED <<status, invoice, credited, used, razorpay>>

\* INSERT INTO subscriptions.
Grant(h) ==
    /\ At(h, "grant")
    /\ active' = [active EXCEPT ![job[h].order] = Inc(@)]
    /\ granted' = [granted EXCEPT ![job[h].order] = Inc(@)]
    /\ Goto(h, IF Settling(h) THEN "redeem" ELSE "commission")
    /\ UNCHANGED <<status, invoice, credited, used, razorpay>>

\* redeemCoupon: UPDATE coupons SET used_count = used_count + 1.
Redeem(h) ==
    /\ At(h, "redeem")
    /\ used' = IF used < Cap * Cardinality(Order) THEN used + 1 ELSE used
    /\ IF Settling(h)
         THEN Goto(h, "commission") /\ UNCHANGED razorpay
         ELSE Answer(h)
    /\ UNCHANGED <<status, invoice, active, granted, credited>>

\* recordReferralCommission: one row for the new subscription.
Commission(h) ==
    /\ At(h, "commission")
    /\ credited' = credited \cup {job[h].order}
    /\ IF job[h].kind = "setPlan"
         THEN Answer(h)
         ELSE Goto(h, "number") /\ UNCHANGED razorpay
    /\ UNCHANGED <<status, invoice, active, granted, used>>

Numbered == {o \in Order : invoice[o] # 0}

\* nextInvoiceNo: one more than there are.
Number(h) ==
    /\ At(h, "number")
    /\ job' = [job EXCEPT ![h].at = "write", ![h].number = Cardinality(Numbered) + 1]
    /\ UNCHANGED <<rows, razorpay>>

\* payments_invoice_no_uq.
Taken(o, n) == \E other \in Order \ {o} : invoice[other] = n

\* The last UPDATE of settlePaid, or the INSERT of recordFreePayment.
MarkPaid(h) ==
    /\ At(h, "write") /\ job[h].kind \in {"confirm", "webhook", "activate"}
    /\ LET o == job[h].order
           n == job[h].number
       IN  \/ /\ ~Taken(o, n)
              /\ status' = [status EXCEPT ![o] = "paid"]
              /\ invoice' = [invoice EXCEPT ![o] = n]
              /\ IF Settling(h) THEN Answer(h) ELSE Goto(h, "redeem") /\ UNCHANGED razorpay
           \/ /\ Taken(o, n)
              /\ Die(h)
              /\ UNCHANGED <<status, invoice>>
    /\ UNCHANGED <<active, granted, credited, used>>

\* Mutant: a cancelled checkout gets a status of its own.
MarkCancelled(h) ==
    /\ At(h, "write") /\ job[h].kind \in {"failed", "cancel"}
    /\ status' = [status EXCEPT ![job[h].order] =
         IF job[h].kind = "cancel" THEN "cancelled" ELSE "failed"]
    /\ Answer(h)
    /\ UNCHANGED <<invoice, active, granted, credited, used>>

\* The UPDATE of failPayment.
MarkFailed(h) ==
    /\ At(h, "write") /\ job[h].kind \in {"failed", "cancel"}
    /\ status' = [status EXCEPT ![job[h].order] = "failed"]
    /\ Answer(h)
    /\ UNCHANGED <<invoice, active, granted, credited, used>>

\* A statement fails or the process is killed between two statements.
Crash(h) ==
    /\ Crashes /\ job[h] # Idle
    /\ Die(h)
    /\ UNCHANGED rows

-----------------------------------------------------------------------------
Work(h) ==
    \/ ReadPayment(h) \/ ReadCurrent(h) \/ CancelOld(h) \/ Grant(h) \/ Redeem(h)
    \/ Commission(h) \/ Number(h) \/ MarkPaid(h) \/ MarkFailed(h)

HealthyNext ==
    \/ \E o \in Paid : Capture(o) \/ Refuse(o) \/ StartCheckout(o)
    \/ \E h \in Handler :
         Work(h) \/ \E kind \in Kind, s \in Source : Arrive(h, kind, s)

Next == HealthyNext \/ \E h \in Handler : Crash(h)

Spec == Init /\ [][Next]_vars

\* Every request is worked on, and Razorpay delivers a captured event again until
\* it is acknowledged.
Fairness ==
    /\ \A h \in Handler : WF_vars(Work(h))
    /\ \A o \in Paid :
         SF_vars(o \notin acked /\ \E h \in Handler : Arrive(h, "webhook", o))

LiveSpec == Spec /\ Fairness /\ <>[][HealthyNext]_vars

-----------------------------------------------------------------------------
(* Properties.                                                             *)

Quiet == \A h \in Handler : job[h] = Idle

\* While nobody is between cancelling the old plan and inserting the new one, a
\* buyer who has ever been granted a plan has one.
NeverLeftWithoutPlan ==
    Quiet /\ (\E s \in Source : granted[s] > 0) => \E s \in Source : active[s] > 0

\* A plan that costs money is only ever granted for money Razorpay holds.  Whatever is
\* marked paid was granted and its referrer credited before, and the coupon counter, once
\* nobody is under way, does not run behind the paid orders that used it.
BookedForMoney ==
    LET paid == {o \in Order : status[o] = "paid"}
    IN  /\ \A o \in Paid : granted[o] > 0 => o \in captured
        /\ \A o \in paid : granted[o] > 0 /\ o \in credited
        /\ Quiet => used >= Cardinality(paid)

\* A captured event answered with 200, which Razorpay will not send again, has left a
\* paid order behind.
AckedIsPaid == \A o \in acked : status[o] = "paid"

\* "a closed tab is repaired by the webhook" (ADR-034): money that was captured
\* ends up as a paid order.
CapturedIsSettled == \A o \in Paid : o \in captured ~> status[o] = "paid"
=============================================================================
