-------------------------- MODULE LeaderLeaseProofs --------------------------
(***************************************************************************)
(* Proofs about LeaderLease and its history: types, the exclusion of two   *)
(* leaders under Prompt, and the longest time without one, for any set of  *)
(* processes and any timing constants.                                     *)
(***************************************************************************)
EXTENDS LeaderLeaseHistory, TLAPS

-----------------------------------------------------------------------------
(* Types.                                                                  *)

\* Where the loop goes at the end of a step is a phase with a running timer.
LEMMA EndStepType ==
  ASSUME TypeOK, NEW p \in Process, NEW leads \in BOOLEAN,
         EndStep(p, leads) \/ GoOnStopping(p, leads)
  PROVE  /\ phase' \in [Process -> Phase]
         /\ timer' \in [Process -> Nat]
         /\ leader' \in [Process -> BOOLEAN]
<1>1. phase' \in [Process -> Phase]
  BY DEF TypeOK, EndStep, GoOnStopping, Goto, Phase
<1>2. timer' \in [Process -> Nat]
  BY TimeAssumption DEF TypeOK, EndStep, GoOnStopping, Goto
<1>3. leader' \in [Process -> BOOLEAN]
  BY DEF TypeOK, EndStep, GoOnStopping
<1> QED
  BY <1>1, <1>2, <1>3

\* A settled call leaves no answer and no deadline.
LEMMA SettledType ==
  ASSUME TypeOK, NEW p \in Process, Settled(p)
  PROVE  /\ call' \in [Process -> {"none", "sent", "yes", "no"}]
         /\ due' \in [Process -> 0..Answer]
  BY TimeAssumption DEF TypeOK, Settled

\* A call handed to the queue is an acquire or a renew.
LEMMA CommandType ==
  ASSUME NEW p \in Process
  PROVE  Command(p) \in {"acquire", "renew"}
  BY DEF Command

\* The type invariant is inductive.
LEMMA TypeStep == TypeOK /\ [Next]_vars => TypeOK'
<1> SUFFICES ASSUME TypeOK, [Next]_vars PROVE TypeOK'
  OBVIOUS
<1> USE OwnerAssumption, TimeAssumption
<1> USE DEF TypeOK, Goto, loop
<1>1. CASE Tick
  BY <1>1, SMTT(30) DEF Tick, Dec
<1>2. ASSUME NEW p \in Process, Start(p) \/ Step(p) PROVE TypeOK'
  BY <1>2 DEF Start, Step, SendCall, Phase
<1>3. ASSUME NEW p \in Process, Answered(p) PROVE TypeOK'
  <2>1. CASE EndStep(p, leader[p])
    BY <1>3, <2>1, EndStepType, SettledType DEF Answered
  <2>2. CASE Lose(p)
    BY <1>3, <2>2, SettledType DEF Answered, Lose, Phase
  <2>3. CASE Goto(p, "returning", 0) /\ UNCHANGED leader
    BY <1>3, <2>3, SettledType DEF Answered, Phase
  <2>4. CASE Goto(p, "taking", Take) /\ UNCHANGED leader
    BY <1>3, <2>4, SettledType DEF Answered, Phase
  <2> QED
    BY <1>3, <2>1, <2>2, <2>3, <2>4 DEF Answered
<1>4. ASSUME NEW p \in Process, CallFails(p) \/ CallTimesOut(p) PROVE TypeOK'
  <2>1. /\ phase' \in [Process -> Phase]
        /\ timer' \in [Process -> Nat]
        /\ leader' \in [Process -> BOOLEAN]
    <3>1. CASE EndStep(p, FALSE)
      BY <3>1, EndStepType
    <3>2. CASE Lose(p)
      BY <3>2 DEF Lose, Phase
    <3> QED
      BY <1>4, <3>1, <3>2 DEF CallFails, CallTimesOut, StepCatches
  <2>2. abandoned' \in [Process -> SUBSET {"acquire", "renew"}]
    <3>1. CASE CallFails(p)
      BY <3>1 DEF CallFails
    <3>2. CASE CallTimesOut(p)
      BY <3>2, CommandType DEF CallTimesOut
    <3> QED
      BY <1>4, <3>1, <3>2
  <2> QED
    BY <1>4, <2>1, <2>2, SettledType
       DEF CallFails, CallTimesOut, StepCatches
<1>5. ASSUME NEW p \in Process, Taken(p) \/ TakeFails(p) PROVE TypeOK'
  <2>1. CASE Taken(p)
    BY <2>1, EndStepType DEF Taken
  <2>2. CASE TakeFails(p)
    BY <2>2 DEF TakeFails, Phase
  <2> QED
    BY <1>5, <2>1, <2>2
<1>6. ASSUME NEW p \in Process, Lost(p) \/ Released(p) PROVE TypeOK'
  <2>1. owner' \in Process \cup {NoOwner} /\ ttl' \in 0..Ttl
    <3>1. UNCHANGED <<owner, ttl>> \/ RunRelease(p)
      BY <1>6 DEF Lost, Released
    <3> QED
      BY <3>1 DEF RunRelease
  <2>2. CASE EndStep(p, FALSE)
    BY <1>6, <2>1, <2>2, EndStepType DEF Lost, Released
  <2>3. UNCHANGED <<call, due, abandoned, stopped>>
    BY <1>6 DEF Lost, Released
  <2>4. CASE UNCHANGED leader /\ (Goto(p, "leaving", 0) \/ Goto(p, "gone", 0))
    BY <2>1, <2>3, <2>4 DEF Phase
  <2> QED
    BY <1>6, <2>2, <2>4 DEF Lost, Released
<1>7. ASSUME NEW p \in Process, Stop(p) PROVE TypeOK'
  <2>1. CASE GoOnStopping(p, leader[p])
    BY <1>7, <2>1, EndStepType DEF Stop
  <2>2. CASE ~GoOnStopping(p, leader[p])
    BY <1>7, <2>2 DEF Stop
  <2> QED
    BY <2>1, <2>2
<1>8. ASSUME NEW p \in Process, Crash(p) PROVE TypeOK'
  BY <1>8, SettledType, CommandType DEF Crash, Phase
<1>9. ASSUME NEW p \in Process, RedisRuns(p) PROVE TypeOK'
  BY <1>9 DEF RedisRuns, RunLockCall
<1>10. ASSUME NEW p \in Process, NEW command \in {"acquire", "renew"},
              NEW last \in BOOLEAN, RedisRunsLate(p, command, last)
       PROVE TypeOK'
  BY <1>10 DEF RedisRunsLate, RunLockCall
<1>11. CASE UNCHANGED vars
  BY <1>11 DEF vars
<1> QED
  BY <1>1, <1>2, <1>3, <1>4, <1>5, <1>6, <1>7, <1>8, <1>9, <1>10, <1>11
     DEF Next, Runs

\* Every variable keeps its type, whatever the timing.
THEOREM TypeCorrect == Spec => []TypeOK
<1>1. Init => TypeOK
  BY TimeAssumption DEF Init, TypeOK, Phase
<1> QED
  BY <1>1, TypeStep, PTL DEF Spec
-----------------------------------------------------------------------------
(* The loop invariant.                                                     *)

\* What an action of p leaves alone at every other process.
Elsewhere(p) ==
    \A q \in Process \ {p} :
      UNCHANGED <<phase[q], timer[q], call[q], due[q], leader[q]>>

\* A process that goes on leaves the others where they are.
LEMMA GotoElsewhere ==
  ASSUME TypeOK, NEW p \in Process, NEW to, NEW limit, Goto(p, to, limit)
  PROVE  /\ \A q \in Process \ {p} : phase'[q] = phase[q] /\ timer'[q] = timer[q]
         /\ phase'[p] = to /\ timer'[p] = limit
  BY DEF TypeOK, Goto

\* The end of a step leads to sleep, or out of the loop without the role.
LEMMA EndStepLands ==
  ASSUME TypeOK, NEW p \in Process, NEW leads \in BOOLEAN,
         EndStep(p, leads) \/ GoOnStopping(p, leads)
  PROVE  /\ \A q \in Process \ {p} : UNCHANGED <<phase[q], timer[q], leader[q]>>
         /\ \/ phase'[p] = "armed" /\ timer'[p] = Renew /\ leader'[p] = leads
            \/ phase'[p] \in {"resigning", "gone"} /\ leader'[p] = FALSE
  BY GotoElsewhere DEF TypeOK, EndStep, GoOnStopping

\* The loop invariant is inductive, whatever the timing.
LEMMA LoopStep == TypeOK /\ LoopInv /\ [Next]_vars => LoopInv'
<1> SUFFICES ASSUME TypeOK, LoopInv, [Next]_vars PROVE LoopInv'
  OBVIOUS
<1> USE DEF LoopInv, TypeOK, loop
<1>1. CASE Tick
  BY <1>1 DEF Tick
<1>2. ASSUME NEW p \in Process, Start(p) \/ Step(p) PROVE LoopInv'
  BY <1>2, GotoElsewhere DEF Start, Step, SendCall
<1>3. ASSUME NEW p \in Process, Answered(p) PROVE LoopInv'
  <2>0. Settled(p) /\ leader[p] \in BOOLEAN
    BY <1>3 DEF Answered
  <2>1. CASE EndStep(p, leader[p])
    <3>1. /\ \A q \in Process \ {p} : UNCHANGED <<phase[q], timer[q], leader[q]>>
          /\ \/ phase'[p] = "armed" /\ timer'[p] = Renew /\ leader'[p] = leader[p]
             \/ phase'[p] \in {"resigning", "gone"} /\ leader'[p] = FALSE
      BY <2>0, <2>1, EndStepLands
    <3> QED
      BY <2>0, <3>1 DEF Settled
  <2>2. CASE Lose(p)
    BY <1>3, <2>2, GotoElsewhere DEF Answered, Settled, Lose
  <2>3. CASE Goto(p, "returning", 0) /\ UNCHANGED leader /\ ~leader[p]
    BY <1>3, <2>3, GotoElsewhere DEF Answered, Settled
  <2>4. CASE Goto(p, "taking", Take) /\ UNCHANGED leader /\ ~leader[p]
    BY <1>3, <2>4, GotoElsewhere DEF Answered, Settled
  <2> QED
    BY <1>3, <2>1, <2>2, <2>3, <2>4 DEF Answered
<1>4. ASSUME NEW p \in Process, CallFails(p) \/ CallTimesOut(p) PROVE LoopInv'
  <2>1. Settled(p) /\ (EndStep(p, FALSE) \/ Lose(p))
    BY <1>4 DEF CallFails, CallTimesOut, StepCatches
  <2>2. CASE EndStep(p, FALSE)
    BY <2>1, <2>2, EndStepLands DEF Settled
  <2>3. CASE Lose(p)
    BY <2>1, <2>3, GotoElsewhere DEF Settled, Lose
  <2> QED
    BY <2>1, <2>2, <2>3
<1>5. ASSUME NEW p \in Process, Taken(p) \/ TakeFails(p) PROVE LoopInv'
  <2>1. CASE Taken(p)
    BY <2>1, EndStepLands DEF Taken
  <2>2. CASE TakeFails(p)
    BY <2>2, GotoElsewhere DEF TakeFails
  <2> QED
    BY <1>5, <2>1, <2>2
<1>6. ASSUME NEW p \in Process, Lost(p) \/ Released(p) PROVE LoopInv'
  <2>1. UNCHANGED <<call, due, abandoned, stopped>> /\ phase[p] \notin {"armed", "calling"}
    BY <1>6 DEF Lost, Released
  <2>2. CASE EndStep(p, FALSE)
    BY <2>1, <2>2, EndStepLands
  <2>3. CASE UNCHANGED leader /\ (Goto(p, "leaving", 0) \/ Goto(p, "gone", 0))
    BY <2>1, <2>3, GotoElsewhere
  <2> QED
    BY <1>6, <2>2, <2>3 DEF Lost, Released
<1>7. ASSUME NEW p \in Process, Stop(p) PROVE LoopInv'
  <2>1. CASE phase[p] = "armed" /\ GoOnStopping(p, leader[p])
    BY <1>7, <2>1, EndStepLands DEF Stop
  <2>2. CASE UNCHANGED loop
    BY <1>7, <2>2 DEF Stop
  <2> QED
    BY <1>7, <2>1, <2>2 DEF Stop
<1>8. ASSUME NEW p \in Process, Crash(p) PROVE LoopInv'
  BY <1>8, GotoElsewhere DEF Crash, Settled
<1>9. ASSUME NEW p \in Process, RedisRuns(p) PROVE LoopInv'
  BY <1>9 DEF RedisRuns
<1>10. ASSUME NEW p \in Process, NEW command \in {"acquire", "renew"},
              NEW last \in BOOLEAN, RedisRunsLate(p, command, last)
       PROVE LoopInv'
  BY <1>10 DEF RedisRunsLate
<1>11. CASE UNCHANGED vars
  BY <1>11 DEF vars
<1> QED
  BY <1>1, <1>2, <1>3, <1>4, <1>5, <1>6, <1>7, <1>8, <1>9, <1>10, <1>11
     DEF Next, Runs

\* The loop is consistent in every reachable state.
THEOREM LoopCorrect == Spec => []LoopInv
<1>1. Init => LoopInv
  BY DEF Init, LoopInv
<1> QED
  BY <1>1, TypeCorrect, LoopStep, PTL DEF Spec

-----------------------------------------------------------------------------
(* The lease.                                                              *)

\* A step of p that leaves the others alone and touches the key only by a lock
\* call or a release of its own takes nobody else's lease.
LEMMA OthersCovered ==
  ASSUME TypeOK, LeaseInv, NEW p \in Process, Elsewhere(p),
         \/ UNCHANGED <<owner, ttl>>
         \/ \E command \in {"acquire", "renew"} : RunLockCall(p, command)
         \/ RunRelease(p)
  PROVE  \A q \in Process \ {p} : Covered(q)'
<1> SUFFICES ASSUME NEW q \in Process, q # p PROVE Covered(q)'
  OBVIOUS
<1>1. Covered(q) /\ UNCHANGED <<phase[q], timer[q], call[q], due[q], leader[q]>>
  BY DEF LeaseInv, Elsewhere
<1>2. (Acting(q) <=> Acting(q)') /\ (Granted(q) <=> Granted(q)') /\ Claim(q)' = Claim(q)
  BY <1>1 DEF Acting, Granted, Claim
<1>3. owner = q => UNCHANGED <<owner, ttl>>
  BY OwnerAssumption DEF RunLockCall, RunRelease, Grants
<1> QED
  BY <1>1, <1>2, <1>3 DEF Covered

\* A process that neither acts nor has been granted the lease claims nothing.
LEMMA IdleCovered ==
  ASSUME NEW p \in Process, ~leader[p]', phase[p]' # "taking", call[p]' # "yes"
  PROVE  Covered(p)'
  BY DEF Covered, Acting, Granted

\* Under Prompt the lease invariant is inductive.
LEMMA LeaseStep ==
  Prompt /\ TypeOK /\ LoopInv /\ LeaseInv /\ [Next]_vars => LeaseInv'
<1> SUFFICES ASSUME Prompt, TypeOK, LoopInv, LeaseInv, [Next]_vars PROVE LeaseInv'
  OBVIOUS
<1> USE TimeAssumption
<1>a. \A p \in Process : Covered(p)
  BY DEF LeaseInv
<1>b. ASSUME NEW p \in Process, Elsewhere(p), Covered(p)',
             \/ UNCHANGED <<owner, ttl>>
             \/ \E command \in {"acquire", "renew"} : RunLockCall(p, command)
             \/ RunRelease(p)
      PROVE  LeaseInv'
  BY <1>b, OthersCovered DEF LeaseInv
<1>1. CASE Tick
  <2> SUFFICES ASSUME NEW p \in Process PROVE Covered(p)'
    BY DEF LeaseInv
  <2>1. Covered(p) /\ ~Urgent(p) /\ UNCHANGED <<phase[p], call[p], leader[p]>>
    BY <1>a, <1>1 DEF Tick
  <2>2. (Acting(p) <=> Acting(p)') /\ (Granted(p) <=> Granted(p)')
    BY <2>1 DEF Acting, Granted
  <2>3. timer[p] \in Nat /\ due[p] \in Nat /\ ttl \in Nat
    BY DEF TypeOK
  <2>4. timer[p]' = Dec(timer[p]) /\ due[p]' = Dec(due[p]) /\ ttl' = Dec(ttl)
    BY <1>1 DEF Tick
  <2>5. leader[p] => phase[p] \in {"armed", "calling"}
    BY DEF LoopInv
  <2>6. ASSUME Acting(p) \/ Granted(p) PROVE Claim(p) > 0 /\ Claim(p)' = Claim(p) - 1
    <3>1. CASE Granted(p)
      BY <3>1, <2>1, <2>3, <2>4 DEF Granted, Claim, Urgent, Dec
    <3>2. CASE ~Granted(p)
      BY <3>2, <2>1, <2>3, <2>4, <2>5, <2>6 DEF Granted, Acting, Claim, Urgent, Dec
    <3> QED
      BY <3>1, <3>2
  <2>7. ASSUME Acting(p) \/ Granted(p) PROVE owner' = p /\ Claim(p)' <= ttl'
    <3>1. owner = p /\ Claim(p) <= ttl /\ Claim(p) \in Int
      BY <2>1, <2>3, <2>7 DEF Covered, Claim
    <3>2. ttl > 0
      BY <2>3, <2>6, <2>7, <3>1
    <3> QED
      BY <1>1, <2>3, <2>4, <2>6, <2>7, <3>1, <3>2 DEF Tick, Dec
  <2> QED
    BY <2>1, <2>2, <2>7 DEF Covered
<1>2. ASSUME NEW p \in Process, Start(p) \/ Step(p) PROVE LeaseInv'
  <2>1. Elsewhere(p) /\ UNCHANGED <<owner, ttl, leader>>
    BY <1>2, GotoElsewhere DEF Start, Step, SendCall, Elsewhere, TypeOK
  <2>2. phase'[p] = "calling" /\ timer'[p] = Timeout /\ call'[p] = "sent"
    BY <1>2, GotoElsewhere DEF Start, Step, SendCall, TypeOK
  <2>3. leader[p] => owner = p /\ Timeout <= ttl
    BY <1>2, <1>a DEF Start, Step, Covered, Acting, Granted, Claim, LoopInv, TypeOK
  <2>4. Covered(p)'
    BY <2>1, <2>2, <2>3 DEF Covered, Acting, Granted, Claim
  <2> QED
    BY <1>b, <2>1, <2>4
<1>3. ASSUME NEW p \in Process, Answered(p) PROVE LeaseInv'
  <2>1. UNCHANGED <<owner, ttl>> /\ Settled(p) /\ leader[p] \in BOOLEAN
    BY <1>3 DEF Answered, TypeOK
  <2>2. call'[p] = "none" /\ \A q \in Process \ {p} : UNCHANGED <<call[q], due[q]>>
    BY <2>1 DEF Settled, TypeOK
  <2>3. CASE call[p] = "yes" /\ ~leader[p]
    <3>1. owner = p /\ Take + Renew + Timeout <= ttl
      BY <1>3, <1>a, <2>3 DEF Answered, Covered, Granted, Claim, TypeOK
    <3>2. \/ Goto(p, "returning", 0)
          \/ Goto(p, "taking", Take)
      BY <1>3, <2>3 DEF Answered
    <3>3. UNCHANGED leader
      BY <1>3, <2>3 DEF Answered
    <3>4. Elsewhere(p) /\ (phase'[p] = "taking" => timer'[p] = Take)
      BY <2>2, <3>2, <3>3, GotoElsewhere DEF Elsewhere
    <3>5. Covered(p)'
      BY <2>1, <2>2, <2>3, <3>1, <3>3, <3>4 DEF Covered, Acting, Granted, Claim
    <3> QED
      BY <1>b, <2>1, <3>4, <3>5
  <2>4. CASE call[p] = "yes" /\ leader[p]
    <3>1. owner = p /\ Renew + Timeout <= ttl
      BY <1>3, <1>a, <2>4 DEF Answered, Covered, Granted, Claim, TypeOK, LoopInv
    <3>2. EndStep(p, leader[p])
      BY <1>3, <2>4 DEF Answered
    <3>3. Elsewhere(p)
      BY <2>1, <2>2, <3>2, EndStepLands DEF Elsewhere
    <3>4. \/ phase'[p] = "armed" /\ timer'[p] = Renew
          \/ phase'[p] \in {"resigning", "gone"} /\ leader'[p] = FALSE
      BY <2>1, <3>2, EndStepLands
    <3>5. Covered(p)'
      BY <2>1, <2>2, <3>1, <3>4 DEF Covered, Acting, Granted, Claim
    <3> QED
      BY <1>b, <2>1, <3>3, <3>5
  <2>5. CASE call[p] = "no"
    <3>1. ~leader[p] /\ EndStep(p, leader[p])
      BY <1>3, <1>a, <2>5 DEF Answered, Covered
    <3>2. EndStep(p, FALSE)
      BY <2>1, <3>1
    <3>3. Elsewhere(p) /\ leader'[p] = FALSE /\ phase'[p] # "taking"
      BY <2>2, <3>2, EndStepLands DEF Elsewhere
    <3>4. Covered(p)'
      BY <2>2, <3>3, IdleCovered
    <3> QED
      BY <1>b, <2>1, <3>3, <3>4
  <2> QED
    BY <1>3, <2>3, <2>4, <2>5 DEF Answered
<1>4. ASSUME NEW p \in Process, CallFails(p) \/ CallTimesOut(p) PROVE LeaseInv'
  <2>1. UNCHANGED <<owner, ttl>> /\ Settled(p) /\ (Lose(p) \/ EndStep(p, FALSE))
    BY <1>4 DEF CallFails, CallTimesOut, StepCatches
  <2>2. call'[p] = "none" /\ \A q \in Process \ {p} : UNCHANGED <<call[q], due[q]>>
    BY <2>1 DEF Settled, TypeOK
  <2>3. /\ \A q \in Process \ {p} : UNCHANGED <<phase[q], timer[q], leader[q]>>
        /\ leader'[p] = FALSE /\ phase'[p] # "taking"
    <3>1. CASE Lose(p)
      BY <3>1, GotoElsewhere DEF Lose, TypeOK
    <3>2. CASE EndStep(p, FALSE)
      BY <3>2, EndStepLands
    <3> QED
      BY <2>1, <3>1, <3>2
  <2>4. Elsewhere(p) /\ Covered(p)'
    BY <2>2, <2>3, IdleCovered DEF Elsewhere
  <2> QED
    BY <1>b, <2>1, <2>4
<1>5. ASSUME NEW p \in Process, Taken(p) PROVE LeaseInv'
  <2>1. owner = p /\ Renew + Timeout <= ttl
    BY <1>5, <1>a DEF Taken, Covered, Acting, Claim, TypeOK
  <2>2. UNCHANGED <<owner, ttl, call, due>> /\ EndStep(p, TRUE) /\ call[p] = "none"
    BY <1>5 DEF Taken, LoopInv, TypeOK
  <2>3. Elsewhere(p)
    BY <2>2, EndStepLands DEF Elsewhere
  <2>4. \/ phase'[p] = "armed" /\ timer'[p] = Renew
        \/ phase'[p] \in {"resigning", "gone"} /\ leader'[p] = FALSE
    BY <2>2, EndStepLands
  <2>5. Covered(p)'
    BY <2>1, <2>2, <2>4 DEF Covered, Acting, Granted, Claim
  <2> QED
    BY <1>b, <2>2, <2>3, <2>5
<1>6. ASSUME NEW p \in Process, TakeFails(p) PROVE LeaseInv'
  <2>1. UNCHANGED <<owner, ttl, call, due, leader>> /\ ~leader[p] /\ call[p] = "none"
    BY <1>6 DEF TakeFails, LoopInv, TypeOK
  <2>2. Elsewhere(p) /\ phase'[p] = "returning"
    BY <1>6, <2>1, GotoElsewhere DEF TakeFails, Elsewhere
  <2>3. Covered(p)'
    BY <2>1, <2>2, IdleCovered
  <2> QED
    BY <1>b, <2>1, <2>2, <2>3
<1>7. ASSUME NEW p \in Process, Lost(p) \/ Released(p) PROVE LeaseInv'
  <2>1. /\ UNCHANGED <<call, due>> /\ ~leader[p] /\ call[p] = "none"
        /\ UNCHANGED <<owner, ttl>> \/ RunRelease(p)
    BY <1>7 DEF Lost, Released, LoopInv, TypeOK
  <2>2. /\ \A q \in Process \ {p} : UNCHANGED <<phase[q], timer[q], leader[q]>>
        /\ leader'[p] = FALSE /\ phase'[p] # "taking"
    <3>1. CASE EndStep(p, FALSE)
      BY <3>1, EndStepLands
    <3>2. CASE UNCHANGED leader /\ (Goto(p, "leaving", 0) \/ Goto(p, "gone", 0))
      BY <2>1, <3>2, GotoElsewhere DEF TypeOK
    <3> QED
      BY <1>7, <3>1, <3>2 DEF Lost, Released
  <2>3. Elsewhere(p) /\ Covered(p)'
    BY <2>1, <2>2, IdleCovered DEF Elsewhere
  <2> QED
    BY <1>b, <2>1, <2>3
<1>8. ASSUME NEW p \in Process, Stop(p) PROVE LeaseInv'
  <2>1. CASE phase[p] = "armed" /\ GoOnStopping(p, leader[p])
    <3>1. UNCHANGED <<owner, ttl, call, due>> /\ call[p] = "none" /\ leader[p] \in BOOLEAN
      BY <1>8, <2>1 DEF Stop, LoopInv, TypeOK
    <3>2. /\ \A q \in Process \ {p} : UNCHANGED <<phase[q], timer[q], leader[q]>>
          /\ leader'[p] = FALSE /\ phase'[p] # "taking"
      BY <2>1, <3>1, GotoElsewhere DEF GoOnStopping, TypeOK
    <3>3. Elsewhere(p) /\ Covered(p)'
      BY <3>1, <3>2, IdleCovered DEF Elsewhere
    <3> QED
      BY <1>b, <3>1, <3>3
  <2>2. CASE UNCHANGED loop
    <3>1. UNCHANGED <<owner, ttl, call, due, phase, timer, leader>>
      BY <1>8, <2>2 DEF Stop, loop
    <3> QED
      BY <3>1 DEF LeaseInv, Covered, Acting, Granted, Claim
  <2> QED
    BY <1>8, <2>1, <2>2 DEF Stop
<1>9. ASSUME NEW p \in Process, Crash(p) PROVE LeaseInv'
  <2>1. UNCHANGED <<owner, ttl>> /\ Settled(p) /\ Goto(p, "gone", 0)
        /\ leader' = [leader EXCEPT ![p] = FALSE]
    BY <1>9 DEF Crash
  <2>2. Elsewhere(p)
    BY <2>1, GotoElsewhere DEF Settled, Elsewhere, TypeOK
  <2>3. Covered(p)'
    BY <2>1, GotoElsewhere, IdleCovered DEF Settled, TypeOK
  <2> QED
    BY <1>b, <2>1, <2>2, <2>3
<1>10. ASSUME NEW p \in Process, RedisRuns(p) PROVE LeaseInv'
  <2>1. /\ UNCHANGED <<phase, timer, leader>> /\ RunLockCall(p, Command(p))
        /\ Command(p) \in {"acquire", "renew"}
        /\ phase[p] = "calling"
    BY <1>10 DEF RedisRuns, loop, Command
  <2>2. Elsewhere(p)
    BY <1>10, <2>1 DEF RedisRuns, Elsewhere, TypeOK
  <2>3. CASE Grants(p, Command(p))
    <3>1. owner' = p /\ ttl' = Ttl /\ call'[p] = "yes" /\ due'[p] = Answer
      BY <1>10, <2>1, <2>3 DEF RedisRuns, RunLockCall, TypeOK
    <3>2. Granted(p)' /\ call'[p] # "no"
      BY <2>1, <3>1 DEF Granted
    <3>3. Claim(p)' <= Ttl
      BY <2>1, <3>1, <3>2 DEF Claim, Prompt, TypeOK
    <3>4. Covered(p)'
      BY <3>1, <3>2, <3>3 DEF Covered
    <3> QED
      BY <1>b, <2>1, <2>2, <3>4
  <2>4. CASE ~Grants(p, Command(p))
    <3>1. ~leader[p]
      BY <2>4, <1>a DEF Grants, Covered, Acting
    <3>2. call'[p] = "no"
      BY <1>10, <2>4 DEF RedisRuns, TypeOK
    <3>3. Covered(p)'
      BY <2>1, <3>1, <3>2, IdleCovered
    <3> QED
      BY <1>b, <2>1, <2>2, <3>3
  <2> QED
    BY <2>3, <2>4
<1>11. ASSUME NEW p \in Process, NEW command \in {"acquire", "renew"},
              NEW last \in BOOLEAN, RedisRunsLate(p, command, last)
       PROVE  LeaseInv'
  <2>1. UNCHANGED <<phase, timer, leader, call, due>> /\ RunLockCall(p, command)
    BY <1>11 DEF RedisRunsLate, loop
  <2>2. (Acting(p) <=> Acting(p)') /\ (Granted(p) <=> Granted(p)') /\ Claim(p)' = Claim(p)
    BY <2>1 DEF Acting, Granted, Claim
  <2>3. owner = p => owner' = p /\ ttl' = Ttl
    BY <2>1 DEF RunLockCall, Grants
  <2>4. ASSUME Acting(p) \/ Granted(p) PROVE Claim(p) <= Ttl
    <3>1. Claim(p) <= ttl /\ ttl \in Nat /\ ttl <= Ttl
      BY <1>a, <2>4 DEF Covered, TypeOK
    <3>2. Claim(p) \in Int
      BY DEF Claim, TypeOK
    <3> QED
      BY <3>1, <3>2
  <2>5. Covered(p)'
    BY <1>a, <2>1, <2>2, <2>3, <2>4 DEF Covered
  <2>6. Elsewhere(p)
    BY <2>1 DEF Elsewhere
  <2> QED
    BY <1>b, <2>1, <2>5, <2>6
<1>12. CASE UNCHANGED vars
  BY <1>12 DEF vars, LeaseInv, Covered, Acting, Granted, Claim
<1> QED
  BY <1>1, <1>2, <1>3, <1>4, <1>5, <1>6, <1>7, <1>8, <1>9, <1>10, <1>11, <1>12
     DEF Next, Runs

\* Under Prompt the lease covers every claim to it, in every reachable state.
THEOREM LeaseCorrect == Prompt /\ Spec => []LeaseInv
<1> SUFFICES ASSUME Prompt PROVE Spec => []LeaseInv
  OBVIOUS
<1>1. Init => LeaseInv
  BY DEF Init, LeaseInv, Covered, Acting, Granted
<1>2. TypeOK /\ LoopInv /\ LeaseInv /\ [Next]_vars => LeaseInv'
  BY LeaseStep
<1> QED
  BY <1>1, <1>2, TypeCorrect, LoopCorrect, PTL DEF Spec

\* Under Prompt no two processes do the leader's work at the same time.
THEOREM LeadersExclude == Prompt /\ Spec => []AtMostOneActing
<1>1. LeaseInv => AtMostOneActing
  BY DEF LeaseInv, Covered, AtMostOneActing
<1> QED
  BY <1>1, LeaseCorrect, PTL

\* Under Prompt isLeader() is true only while the process holds the lease.
THEOREM LeadersHoldTheLease == Prompt /\ Spec => []LeaderHoldsLease
<1>1. LeaseInv => LeaderHoldsLease
  BY DEF LeaseInv, Covered, Acting, LeaderHoldsLease
<1> QED
  BY <1>1, LeaseCorrect, PTL

\* Whatever the timing, only the owner's own release or the end of its time to
\* live takes the key from it: no process overwrites or deletes another's lease.
THEOREM OwnersRelease == Spec => OnlyOwnerFrees
<1>1. TypeOK /\ [Next]_vars =>
        [owner # NoOwner /\ owner' # owner
           => /\ owner' = NoOwner
              /\ ttl = 0 \/ phase[owner] \in {"returning", "leaving"}]_vars
  <2> SUFFICES ASSUME TypeOK, [Next]_vars, owner # NoOwner, owner' # owner
               PROVE  /\ owner' = NoOwner
                      /\ ttl = 0 \/ phase[owner] \in {"returning", "leaving"}
    OBVIOUS
  <2>1. CASE Tick
    BY <2>1 DEF Tick
  <2>2. ASSUME NEW p \in Process, Released(p)
        PROVE  owner' = NoOwner /\ phase[owner] \in {"returning", "leaving"}
    BY <2>2 DEF Released, RunRelease
  <2>3. ASSUME NEW p \in Process, NEW command, RunLockCall(p, command) PROVE FALSE
    BY <2>3 DEF RunLockCall, Grants
  <2>4. owner' # owner =>
          Tick \/ \E p \in Process : Released(p) \/ \E command : RunLockCall(p, command)
    BY DEF Next, Runs, vars, Start, Step, SendCall, Answered, CallFails, CallTimesOut,
           StepCatches, Taken, TakeFails, Lost, Stop, Crash, RedisRuns, RedisRunsLate
  <2> QED
    BY <2>1, <2>2, <2>3, <2>4
<1> QED
  BY <1>1, TypeCorrect, PTL DEF Spec, OnlyOwnerFrees

-----------------------------------------------------------------------------
(* The abstract role.                                                      *)

Actors == {p \in Process : Acting(p)}
Retired(p) == stopped[p] \/ phase[p] = "gone"

\* A step of one process p that brings no retired process back, and in which p starts to
\* act only on a lease it was granted and while nobody asked it to stop, is one of the role.
LEMMA OneProcessSteps ==
  ASSUME LeaseInv, LoopInv, NEW p \in Process,
         \A q \in Process \ {p} : UNCHANGED <<phase[q], leader[q], stopped[q]>>,
         Retired(p) => Retired(p)',
         Acting(p)' /\ ~Acting(p) => Granted(p) /\ ~Retired(p)'
  PROVE  [Role!Next]_<<Actors, {q \in Process : Retired(q)}>>
<1>1. \A q \in Process \ {p} : (Acting(q) <=> Acting(q)') /\ (Retired(q) <=> Retired(q)')
  BY DEF Acting, Retired
<1>2. CASE ~Retired(p) /\ Retired(p)'
  <2>1. Actors' \in {Actors, Actors \ {p}}
    <3>1. CASE Acting(p) <=> Acting(p)'
      BY <1>1, <3>1 DEF Actors
    <3>2. CASE Acting(p) /\ ~Acting(p)'
      BY <1>1, <3>2 DEF Actors
    <3> QED
      BY <1>2, <3>1, <3>2
  <2>2. {q \in Process : Retired(q)}' = {q \in Process : Retired(q)} \cup {p}
    BY <1>1, <1>2
  <2> QED
    BY <1>2, <2>1, <2>2 DEF Role!Next, Role!Retire, Actors, Retired
<1>3. CASE Retired(p) <=> Retired(p)'
  <2>1. {q \in Process : Retired(q)}' = {q \in Process : Retired(q)}
    BY <1>1, <1>3
  <2>2. CASE Acting(p) <=> Acting(p)'
    BY <1>1, <2>1, <2>2 DEF Actors
  <2>3. CASE Acting(p) /\ ~Acting(p)'
    <3>1. Actors' = Actors \ {p} /\ p \in Actors
      BY <1>1, <2>3 DEF Actors
    <3> QED
      BY <2>1, <3>1 DEF Role!Next, Role!LayDown, Actors, Retired
  <2>4. CASE ~Acting(p) /\ Acting(p)'
    <3>1. Granted(p) /\ ~Retired(p)
      BY <1>3, <2>4
    <3>2. Actors = {}
      BY <2>4, <3>1 DEF LeaseInv, Covered, Actors
    <3>3. Actors' = {p}
      BY <1>1, <2>4, <3>2 DEF Actors
    <3> QED
      BY <2>1, <3>1, <3>2, <3>3 DEF Role!Next, Role!TakeUp, Actors, Retired
  <2> QED
    BY <2>2, <2>3, <2>4
<1> QED
  BY <1>2, <1>3

\* A step that touches no loop and no stop() is none of the role's business.
LEMMA RoleUntouched ==
  ASSUME UNCHANGED <<phase, leader, stopped>>
  PROVE  UNCHANGED <<Actors, {q \in Process : Retired(q)}>>
BY DEF Actors, Acting, Retired

\* Every step of the lease is a step of the role, or leaves it alone.
LEMMA RoleStep ==
  TypeOK /\ LoopInv /\ LeaseInv /\ [Next]_vars
    => [Role!Next]_<<Actors, {q \in Process : Retired(q)}>>
<1> SUFFICES ASSUME TypeOK, LoopInv, LeaseInv, [Next]_vars
             PROVE  [Role!Next]_<<Actors, {q \in Process : Retired(q)}>>
  OBVIOUS
<1> DEFINE Plays == [Role!Next]_<<Actors, {q \in Process : Retired(q)}>>
<1> DEFINE Alone(p) == \A q \in Process \ {p} : UNCHANGED <<phase[q], leader[q], stopped[q]>>
<1>a. ASSUME NEW p \in Process, Alone(p), ~Acting(p)' \/ Acting(p), Retired(p) => Retired(p)'
      PROVE  Plays
  BY <1>a, OneProcessSteps
<1>b. ASSUME UNCHANGED <<phase, leader, stopped>> PROVE Plays
  BY <1>b, RoleUntouched
<1> HIDE DEF Plays
<1>1. ASSUME Tick PROVE Plays
  BY <1>1, <1>b DEF Tick
<1>2. ASSUME NEW p \in Process, Start(p) \/ Step(p) PROVE Plays
  <2>1. Goto(p, "calling", Timeout) /\ UNCHANGED <<leader, stopped>> /\ phase[p] \in {"down", "armed"}
    BY <1>2 DEF Start, Step, SendCall
  <2>2. Alone(p) /\ phase'[p] = "calling"
    BY <2>1, GotoElsewhere
  <2> QED
    BY <2>1, <2>2, <1>a DEF Acting, Retired
<1>3. ASSUME NEW p \in Process, Answered(p) PROVE Plays
  <2>1. phase[p] = "calling" /\ UNCHANGED stopped /\ leader[p] \in BOOLEAN
    BY <1>3 DEF Answered, TypeOK
  <2>2. CASE EndStep(p, leader[p])
    <3>1. /\ \A q \in Process \ {p} : UNCHANGED <<phase[q], leader[q]>>
          /\ phase'[p] # "taking" /\ (leader'[p] => leader[p])
      BY <2>1, <2>2, EndStepLands
    <3> QED
      BY <2>1, <3>1, <1>a DEF Acting, Retired
  <2>3. CASE Lose(p)
    <3>1. Alone(p) /\ phase'[p] = "losing" /\ leader'[p] = FALSE
      BY <2>1, <2>3, GotoElsewhere DEF Lose, TypeOK
    <3> QED
      BY <2>1, <3>1, <1>a DEF Acting, Retired
  <2>4. CASE Goto(p, "returning", 0) /\ UNCHANGED leader
    <3>1. Alone(p) /\ phase'[p] = "returning"
      BY <2>1, <2>4, GotoElsewhere
    <3> QED
      BY <2>1, <2>4, <3>1, <1>a DEF Acting, Retired
  <2>5. CASE /\ call[p] = "yes" /\ ~stopped[p]
             /\ Goto(p, "taking", Take) /\ UNCHANGED leader
    <3>1. Alone(p) /\ phase'[p] = "taking" /\ ~Retired(p)'
      BY <2>1, <2>5, GotoElsewhere DEF Retired
    <3> QED
      BY <2>1, <2>5, <3>1, OneProcessSteps DEF Granted, Retired, Plays
  <2> QED
    BY <1>3, <2>2, <2>3, <2>4, <2>5 DEF Answered
<1>4. ASSUME NEW p \in Process, CallFails(p) \/ CallTimesOut(p) PROVE Plays
  <2>1. phase[p] = "calling" /\ UNCHANGED stopped /\ (EndStep(p, FALSE) \/ Lose(p))
    BY <1>4 DEF CallFails, CallTimesOut, StepCatches
  <2>2. /\ \A q \in Process \ {p} : UNCHANGED <<phase[q], leader[q]>>
        /\ phase'[p] # "taking" /\ leader'[p] = FALSE
    <3>1. CASE EndStep(p, FALSE)
      BY <3>1, EndStepLands
    <3>2. CASE Lose(p)
      BY <3>2, GotoElsewhere DEF Lose, TypeOK
    <3> QED
      BY <2>1, <3>1, <3>2
  <2> QED
    BY <2>1, <2>2, <1>a DEF Acting, Retired
<1>5. ASSUME NEW p \in Process, Taken(p) \/ TakeFails(p) PROVE Plays
  <2>1. phase[p] = "taking" /\ UNCHANGED stopped
    BY <1>5 DEF Taken, TakeFails
  <2>2. \A q \in Process \ {p} : UNCHANGED <<phase[q], leader[q]>>
    <3>1. CASE Taken(p)
      BY <3>1, EndStepLands DEF Taken
    <3>2. CASE TakeFails(p)
      BY <3>2, GotoElsewhere DEF TakeFails
    <3> QED
      BY <1>5, <3>1, <3>2
  <2>3. ~Retired(p) \/ Retired(p)'
    BY <2>1 DEF Retired
  <2> QED
    BY <2>1, <2>2, <2>3, <1>a DEF Acting
<1>6. ASSUME NEW p \in Process, Lost(p) \/ Released(p) PROVE Plays
  <2>1. UNCHANGED stopped /\ phase[p] # "gone" /\ ~leader[p]
    BY <1>6 DEF Lost, Released, LoopInv
  <2>2. /\ \A q \in Process \ {p} : UNCHANGED <<phase[q], leader[q]>>
        /\ phase'[p] # "taking" /\ leader'[p] = FALSE
    <3>1. CASE EndStep(p, FALSE)
      BY <3>1, EndStepLands
    <3>2. CASE UNCHANGED leader /\ (Goto(p, "leaving", 0) \/ Goto(p, "gone", 0))
      BY <2>1, <3>2, GotoElsewhere DEF TypeOK
    <3> QED
      BY <1>6, <3>1, <3>2 DEF Lost, Released
  <2> QED
    BY <2>1, <2>2, <1>a DEF Acting, Retired
<1>7. ASSUME NEW p \in Process, Stop(p) PROVE Plays
  <2>1. stopped' = [stopped EXCEPT ![p] = TRUE]
    BY <1>7 DEF Stop
  <2>2. /\ \A q \in Process \ {p} : UNCHANGED <<phase[q], leader[q]>>
        /\ \/ phase'[p] # "taking" /\ leader'[p] = FALSE
           \/ UNCHANGED <<phase, leader>>
    <3>1. CASE GoOnStopping(p, leader[p])
      BY <3>1, GotoElsewhere DEF GoOnStopping, TypeOK
    <3>2. CASE UNCHANGED loop
      BY <3>2 DEF loop
    <3> QED
      BY <1>7, <3>1, <3>2 DEF Stop
  <2>3. Alone(p) /\ stopped'[p]
    BY <2>1, <2>2 DEF TypeOK
  <2> QED
    BY <2>2, <2>3, <1>a DEF Acting, Retired
<1>8. ASSUME NEW p \in Process, Crash(p) PROVE Plays
  <2>1. Alone(p) /\ phase'[p] = "gone" /\ leader'[p] = FALSE
    BY <1>8, GotoElsewhere DEF Crash, TypeOK
  <2> QED
    BY <2>1, <1>a DEF Acting, Retired
<1>9. ASSUME NEW p \in Process, RedisRuns(p) PROVE Plays
  BY <1>9, <1>b DEF RedisRuns, loop
<1>10. ASSUME NEW p \in Process, NEW command, NEW last, RedisRunsLate(p, command, last)
       PROVE  Plays
  BY <1>10, <1>b DEF RedisRunsLate, loop
<1>11. ASSUME UNCHANGED vars PROVE Plays
  BY <1>11, <1>b DEF vars
<1> QED
  BY <1>1, <1>2, <1>3, <1>4, <1>5, <1>6, <1>7, <1>8, <1>9, <1>10, <1>11
     DEF Next, Runs, Plays

\* Under Prompt the lease implements the role: one process at a time does the leader's work,
\* it is laid down before another takes it, and no stopped or dead process ever takes it.
THEOREM LeasePlaysRole == Prompt /\ Spec => PlaysRole
<1> SUFFICES ASSUME Prompt PROVE Spec => PlaysRole
  OBVIOUS
<1>1. Init => Role!Init
  BY DEF Init, Role!Init, Acting
<1>2. TypeOK /\ LoopInv /\ LeaseInv /\ [Next]_vars
        => [Role!Next]_<<{p \in Process : Acting(p)},
                         {p \in Process : stopped[p] \/ phase[p] = "gone"}>>
  BY RoleStep DEF Actors, Retired
<1>3. Spec => []LeaseInv
  BY LeaseCorrect
<1> QED
  BY <1>1, <1>2, <1>3, TypeCorrect, LoopCorrect, PTL DEF Spec, PlaysRole, Role!Spec

-----------------------------------------------------------------------------
(* The time without a leader.                                              *)

\* Timers run no longer than they were set for, and only stop() leads out of the loop.
TimersInv ==
    \A p \in Process :
      /\ phase[p] = "calling" => timer[p] <= Timeout
      /\ phase[p] = "armed" => timer[p] <= Renew
      /\ phase[p] = "taking" => timer[p] <= Take
      /\ phase[p] \in {"resigning", "leaving"} => stopped[p]

\* What Redis has granted p, or p is taking up.
Has(p) == phase[p] = "taking" \/ Granted(p)

\* The longest time until p leads if the key is free or its own.
Rest(p) ==
    CASE phase[p] = "taking"                      -> timer[p]
      [] phase[p] = "calling" /\ call[p] = "no"   -> due[p] + Renew + Timeout + Take
      [] phase[p] = "calling" /\ call[p] # "no"   -> timer[p] + Take
      [] phase[p] = "armed"                       -> timer[p] + Timeout + Take
      [] OTHER                                    -> Renew + Timeout + Take

Longest == Answer + Renew + Timeout + Take

\* Who waits will lead in time unless disturbed: within Rest if the key is its to have,
\* and no longer than the key lives otherwise.
InTime(p) ==
    wait[p] > 0 =>
      /\ phase[p] \in {"losing", "returning"} => wait[p] = 1
      /\ Has(p) \/ owner \in {NoOwner, p} => wait[p] + Rest(p) <= Lapse + Longest
      /\ owner \notin {NoOwner, p} => wait[p] + ttl <= Lapse

\* Who waits is ready to lead and sees no leader.
Ready(p) == wait[p] > 0 => Willing(p) /\ \A q \in Process : ~leader[q]

WaitInv ==
    /\ wait \in [Process -> Nat]
    /\ \A p \in Process : Ready(p) /\ InTime(p)

\* The end of a step keeps within the timer's bounds.
LEMMA EndStepTimed ==
  ASSUME TypeOK, TimersInv, NEW p \in Process, NEW leads \in BOOLEAN,
         EndStep(p, leads) \/ (stopped[p]' /\ GoOnStopping(p, leads)), stopped[p] => stopped[p]',
         \A q \in Process \ {p} : stopped[q]' = stopped[q]
  PROVE  TimersInv'
<1>1. /\ \A q \in Process \ {p} : UNCHANGED <<phase[q], timer[q], leader[q]>>
      /\ \/ phase'[p] = "armed" /\ timer'[p] = Renew
         \/ phase'[p] \in {"resigning", "gone"} /\ stopped[p]'
  BY GotoElsewhere DEF TypeOK, EndStep, GoOnStopping
<1> QED
  BY <1>1, TimeAssumption DEF TimersInv, TypeOK

\* Whoever goes to a place that takes time sets its timer to the limit of that place.
LEMMA GotoTimed ==
  ASSUME TypeOK, TimersInv, NEW p \in Process, NEW to, NEW limit \in Nat, Goto(p, to, limit),
         to = "calling" => limit = Timeout, to = "armed" => limit = Renew,
         to = "taking" => limit = Take, to \in {"resigning", "leaving"} => stopped[p],
         UNCHANGED stopped
  PROVE  TimersInv'
<1>1. /\ \A q \in Process \ {p} : UNCHANGED <<phase[q], timer[q]>>
      /\ phase'[p] = to /\ timer'[p] = limit
  BY GotoElsewhere
<1> QED
  BY <1>1, TimeAssumption DEF TimersInv, TypeOK

\* Timers are inductive.
LEMMA TimersStep == TypeOK /\ LoopInv /\ TimersInv /\ [Next]_vars => TimersInv'
<1> SUFFICES ASSUME TypeOK, LoopInv, TimersInv, [Next]_vars PROVE TimersInv'
  OBVIOUS
<1> USE TimeAssumption
<1>1. CASE Tick
  BY <1>1 DEF Tick, Dec, TimersInv, TypeOK
<1>2. ASSUME NEW p \in Process, Start(p) \/ Step(p) PROVE TimersInv'
  BY <1>2, GotoTimed DEF Start, Step, SendCall
<1>3. ASSUME NEW p \in Process, Answered(p) PROVE TimersInv'
  <2>1. UNCHANGED stopped /\ leader[p] \in BOOLEAN
    BY <1>3 DEF Answered, TypeOK
  <2>2. CASE EndStep(p, leader[p])
    BY <2>1, <2>2, EndStepTimed
  <2>3. CASE Lose(p)
    BY <2>1, <2>3, GotoTimed DEF Lose
  <2>4. CASE Goto(p, "returning", 0)
    BY <2>1, <2>4, GotoTimed
  <2>5. CASE Goto(p, "taking", Take)
    BY <2>1, <2>5, GotoTimed
  <2> QED
    BY <1>3, <2>2, <2>3, <2>4, <2>5 DEF Answered
<1>4. ASSUME NEW p \in Process, CallFails(p) \/ CallTimesOut(p) PROVE TimersInv'
  <2>1. UNCHANGED stopped /\ (Lose(p) \/ EndStep(p, FALSE))
    BY <1>4 DEF CallFails, CallTimesOut, StepCatches
  <2>2. CASE EndStep(p, FALSE)
    BY <2>1, <2>2, EndStepTimed
  <2>3. CASE Lose(p)
    BY <2>1, <2>3, GotoTimed DEF Lose
  <2> QED
    BY <2>1, <2>2, <2>3
<1>5. ASSUME NEW p \in Process, Taken(p) \/ TakeFails(p) PROVE TimersInv'
  <2>1. CASE Taken(p)
    BY <2>1, EndStepTimed DEF Taken
  <2>2. CASE TakeFails(p)
    BY <2>2, GotoTimed DEF TakeFails
  <2> QED
    BY <1>5, <2>1, <2>2
<1>6. ASSUME NEW p \in Process, Lost(p) \/ Released(p) PROVE TimersInv'
  <2>1. UNCHANGED stopped /\ (phase[p] \in {"resigning", "leaving"} => stopped[p])
    BY <1>6 DEF Lost, Released, TimersInv
  <2>2. CASE EndStep(p, FALSE)
    BY <2>1, <2>2, EndStepTimed
  <2>3. CASE phase[p] \in {"resigning", "leaving"} /\ (Goto(p, "leaving", 0) \/ Goto(p, "gone", 0))
    BY <2>1, <2>3, GotoTimed
  <2> QED
    BY <1>6, <2>2, <2>3 DEF Lost, Released
<1>7. ASSUME NEW p \in Process, Stop(p) PROVE TimersInv'
  <2>1. stopped'[p] /\ leader[p] \in BOOLEAN /\ \A q \in Process \ {p} : stopped'[q] = stopped[q]
    BY <1>7 DEF Stop, TypeOK
  <2>2. CASE GoOnStopping(p, leader[p])
    BY <2>1, <2>2, EndStepTimed
  <2>3. CASE UNCHANGED loop
    BY <2>1, <2>3 DEF loop, TimersInv
  <2> QED
    BY <1>7, <2>2, <2>3 DEF Stop
<1>8. ASSUME NEW p \in Process, Crash(p) PROVE TimersInv'
  BY <1>8, GotoTimed DEF Crash
<1>9. CASE UNCHANGED <<phase, timer, stopped>>
  BY <1>9 DEF TimersInv
<1> QED
  BY <1>1, <1>2, <1>3, <1>4, <1>5, <1>6, <1>7, <1>8, <1>9
     DEF Next, Runs, RedisRuns, RedisRunsLate, loop, vars

\* What any action of one process, or of Redis for it, leaves alone.
LEMMA StepsAlone ==
  ASSUME TypeOK, NEW p \in Process,
         \/ Runs(p) \/ Stop(p) \/ Crash(p) \/ CallFails(p) \/ CallTimesOut(p) \/ TakeFails(p)
  PROVE  Elsewhere(p)
<1>1. CASE Start(p) \/ Step(p)
  BY <1>1, GotoElsewhere DEF Start, Step, SendCall, Elsewhere, TypeOK
<1>2. CASE Answered(p) \/ CallFails(p) \/ CallTimesOut(p) \/ Crash(p)
  <2>1. \A q \in Process \ {p} : UNCHANGED <<call[q], due[q]>>
    BY <1>2 DEF Answered, CallFails, CallTimesOut, StepCatches, Crash, Settled, TypeOK
  <2>2. \A q \in Process \ {p} : UNCHANGED <<phase[q], timer[q], leader[q]>>
    <3>1. leader[p] \in BOOLEAN
      BY DEF TypeOK
    <3>2. CASE EndStep(p, leader[p]) \/ EndStep(p, FALSE)
      BY <3>1, <3>2, EndStepLands
    <3>3. CASE Lose(p)
      BY <3>3, GotoElsewhere DEF Lose, TypeOK
    <3>4. CASE UNCHANGED leader /\ (Goto(p, "returning", 0) \/ Goto(p, "taking", Take))
      BY <3>4, GotoElsewhere
    <3>5. CASE Crash(p)
      BY <3>5, GotoElsewhere DEF Crash, TypeOK
    <3> QED
      BY <1>2, <3>2, <3>3, <3>4, <3>5 DEF Answered, CallFails, CallTimesOut, StepCatches
  <2> QED
    BY <2>1, <2>2 DEF Elsewhere
<1>3. CASE Taken(p) \/ TakeFails(p) \/ Lost(p) \/ Released(p)
  <2>1. UNCHANGED <<call, due>>
    BY <1>3 DEF Taken, TakeFails, Lost, Released
  <2>2. CASE EndStep(p, TRUE) \/ EndStep(p, FALSE)
    BY <2>1, <2>2, EndStepLands DEF Elsewhere
  <2>3. CASE UNCHANGED leader /\ \E to : Goto(p, to, 0)
    BY <2>1, <2>3, GotoElsewhere DEF Elsewhere
  <2> QED
    BY <1>3, <2>2, <2>3 DEF Taken, TakeFails, Lost, Released
<1>4. CASE Stop(p)
  <2>1. leader[p] \in BOOLEAN /\ UNCHANGED <<call, due>>
    BY <1>4 DEF Stop, TypeOK
  <2>2. CASE GoOnStopping(p, leader[p])
    BY <2>1, <2>2, EndStepLands DEF Elsewhere
  <2>3. CASE UNCHANGED loop
    BY <2>1, <2>3 DEF Elsewhere, loop
  <2> QED
    BY <1>4, <2>2, <2>3 DEF Stop
<1>5. CASE \/ RedisRuns(p)
           \/ \E command \in {"acquire", "renew"}, last \in BOOLEAN : RedisRunsLate(p, command, last)
  BY <1>5 DEF RedisRuns, RedisRunsLate, loop, Elsewhere, TypeOK
<1> QED
  BY <1>1, <1>2, <1>3, <1>4, <1>5 DEF Runs

\* Nobody's rest is longer than the longest, whatever the loop does.
LEMMA RestBound ==
  ASSUME TypeOK, TimersInv, NEW p \in Process
  PROVE  Rest(p) \in Nat /\ Rest(p) <= Longest
BY TimeAssumption DEF Rest, Longest, TypeOK, TimersInv

\* The same after a step: what primes need is stated with primes.
LEMMA RestBoundNext ==
  ASSUME TypeOK', TimersInv', NEW p \in Process
  PROVE  Rest(p)' \in Nat /\ Rest(p)' <= Longest
BY TimeAssumption DEF Rest, Longest, TypeOK, TimersInv

\* A count that starts is in time.
LEMMA StartsInTime ==
  ASSUME TypeOK', TimersInv', NEW p \in Process, wait'[p] \in {0, 1}
  PROVE  InTime(p)'
<1>1. Rest(p)' \in Nat /\ Rest(p)' <= Longest /\ ttl' \in 0..Ttl
  BY RestBoundNext DEF TypeOK
<1>2. Longest \in Nat
  BY TimeAssumption DEF Longest
<1> QED
  BY <1>1, <1>2, TimeAssumption DEF InTime, Lapse

\* Who is ready and undisturbed, and has the key or finds it free, comes no further from it.
LEMMA RestShrinks ==
  ASSUME TypeOK, LoopInv, TimersInv, NEW p \in Process,
         [Next]_vars, ~Tick, Willing(p), Willing(p)',
         \A q \in Process : ~leader[q], \A q \in Process : ~leader'[q],
         ~Disturbed(p), phase[p] \notin {"losing", "returning"},
         Has(p) \/ owner \in {NoOwner, p}
  PROVE  Rest(p)' <= Rest(p)
<1>1. Rest(p) \in Nat /\ timer[p] \in Nat /\ due[p] \in Nat
  BY RestBound DEF TypeOK
<1>2. phase[p] \in {"calling", "taking", "armed"} /\ ~stopped[p]
  BY DEF Willing, TimersInv, TypeOK, Phase
<1>3. /\ ~stopped'[p] /\ phase'[p] \notin {"down", "gone", "losing", "returning"}
      /\ call[p] # "no" => ~CallFails(p) /\ ~CallTimesOut(p)
  BY DEF Willing, Disturbed
<1>4. CASE UNCHANGED <<phase[p], timer[p], call[p], due[p]>>
  BY <1>1, <1>4 DEF Rest
<1>5. ASSUME NEW q \in Process \ {p},
             \/ Runs(q) \/ Stop(q) \/ Crash(q)
             \/ CallFails(q) \/ CallTimesOut(q) \/ TakeFails(q)
      PROVE  Rest(p)' <= Rest(p)
  BY <1>4, <1>5, StepsAlone DEF Elsewhere
<1>6. CASE Start(p) \/ Step(p)
  <2>1. phase[p] = "armed" /\ timer[p] = 0 /\ SendCall(p)
    BY <1>2, <1>6 DEF Start, Step
  <2>2. phase'[p] = "calling" /\ timer'[p] = Timeout /\ call'[p] = "sent"
    BY <2>1, GotoElsewhere DEF SendCall, TypeOK
  <2> QED
    BY <2>1, <2>2, TimeAssumption DEF Rest
<1>7. ASSUME phase[p] = "calling", call[p] = "no", EndStep(p, FALSE) PROVE Rest(p)' <= Rest(p)
  <2>1. phase'[p] = "armed" /\ timer'[p] = Renew
    BY <1>2, <1>7, GotoElsewhere DEF EndStep
  <2> QED
    BY <1>1, <1>7, <2>1, TimeAssumption DEF Rest
<1>8. CASE Answered(p)
  <2>1. phase[p] = "calling" /\ call[p] \in {"yes", "no"} /\ leader[p] = FALSE
    BY <1>8 DEF Answered, TypeOK
  <2>2. CASE call[p] = "no"
    <3>1. EndStep(p, FALSE)
      BY <1>8, <2>1, <2>2 DEF Answered
    <3> QED
      BY <1>7, <2>1, <2>2, <3>1
  <2>3. CASE call[p] = "yes"
    <3>1. Goto(p, "taking", Take)
      BY <1>2, <1>8, <2>1, <2>3 DEF Answered
    <3>2. phase'[p] = "taking" /\ timer'[p] = Take
      BY <3>1, GotoElsewhere
    <3> QED
      BY <1>1, <2>1, <2>3, <3>2, TimeAssumption DEF Rest
  <2> QED
    BY <2>1, <2>2, <2>3
<1>9. CASE CallFails(p) \/ CallTimesOut(p)
  <2>1. phase[p] = "calling" /\ call[p] = "no"
    BY <1>3, <1>9 DEF CallFails, CallTimesOut
  <2>2. EndStep(p, FALSE)
    BY <1>9 DEF CallFails, CallTimesOut, StepCatches
  <2> QED
    BY <1>7, <2>1, <2>2
<1>10. CASE Taken(p) \/ TakeFails(p)
  <2>1. ~TakeFails(p)
    BY <1>3, GotoElsewhere DEF TakeFails
  <2>2. EndStep(p, TRUE) /\ ~stopped[p]
    BY <1>2, <1>10, <2>1 DEF Taken
  <2> QED
    BY <2>2 DEF EndStep, TypeOK
<1>11. CASE Lost(p) \/ Released(p)
  BY <1>2, <1>11 DEF Lost, Released
<1>12. CASE Stop(p)
  BY <1>3, <1>12 DEF Stop, TypeOK
<1>13. CASE Crash(p)
  BY <1>3, <1>13, GotoElsewhere DEF Crash
<1>14. CASE RedisRuns(p)
  <2>1. /\ phase[p] = "calling" /\ call[p] = "sent" /\ Command(p) = "acquire"
        /\ UNCHANGED <<phase, timer>>
    BY <1>14 DEF RedisRuns, Command, loop
  <2>2. owner \in {NoOwner, p}
    BY <2>1 DEF Has, Granted
  <2>3. call'[p] = "yes"
    BY <1>14, <2>1, <2>2 DEF RedisRuns, Grants, TypeOK
  <2> QED
    BY <1>1, <2>1, <2>3, TimeAssumption DEF Rest
<1>15. CASE \E command \in {"acquire", "renew"}, last \in BOOLEAN : RedisRunsLate(p, command, last)
  BY <1>4, <1>15 DEF RedisRunsLate, loop
<1>16. CASE UNCHANGED vars
  BY <1>4, <1>16 DEF vars
<1> QED
  BY <1>5, <1>6, <1>8, <1>9, <1>10, <1>11, <1>12, <1>13, <1>14, <1>15, <1>16 DEF Next, Runs

\* Time passes: who is ready and undisturbed has one unit less to go.
LEMMA RestPasses ==
  ASSUME TypeOK, LoopInv, TimersInv, NEW p \in Process,
         Tick, Willing(p), ~Disturbed(p)
  PROVE  Rest(p)' = Rest(p) - 1
<1>1. /\ ~Urgent(p) /\ UNCHANGED <<phase[p], call[p]>>
      /\ timer'[p] = Dec(timer[p]) /\ due'[p] = Dec(due[p])
  BY DEF Tick
<1>2. phase[p] \in {"calling", "taking", "armed"}
  BY <1>1 DEF Willing, TimersInv, TypeOK, Phase, Disturbed
<1>3. timer[p] \in Nat /\ due[p] \in Nat /\ call[p] \in {"none", "sent", "yes", "no"}
  BY DEF TypeOK
<1> QED
  BY <1>1, <1>2, <1>3, TimeAssumption DEF Rest, Urgent, Dec

\* The count starts, goes on or passes a unit in time.
LEMMA WaitStep ==
  TypeOK /\ LoopInv /\ TimersInv /\ WaitInv /\ [HistoryNext]_<<vars, wait>>
    /\ TypeOK' /\ TimersInv' => WaitInv'
<1> SUFFICES ASSUME TypeOK, LoopInv, TimersInv, WaitInv, [HistoryNext]_<<vars, wait>>,
                    TypeOK', TimersInv'
             PROVE  WaitInv'
  OBVIOUS
<1>1. CASE UNCHANGED <<vars, wait>>
  BY <1>1 DEF WaitInv, Ready, InTime, Rest, Has, Granted, Willing, vars
<1>2. CASE HistoryNext
  <2>1. [Next]_vars /\ wait' = [p \in Process |-> Wait(p)] /\ wait \in [Process -> Nat]
    BY <1>2 DEF HistoryNext, WaitInv
  <2>2. ASSUME NEW p \in Process
        PROVE  /\ wait'[p] \in Nat
               /\ wait'[p] > 0 => Willing(p)' /\ \A q \in Process : ~leader'[q]
               /\ \/ wait'[p] \in {0, 1}
                  \/ /\ wait[p] > 0 /\ ~Disturbed(p)
                     /\ wait'[p] = IF Tick THEN wait[p] + 1 ELSE wait[p]
    <3>1. wait'[p] = Wait(p) /\ wait[p] \in Nat
      BY <2>1
    <3> QED
      BY <3>1 DEF Wait
  <2>3. ASSUME NEW p \in Process PROVE InTime(p)'
    <3>1. CASE wait'[p] \in {0, 1}
      BY <3>1, StartsInTime
    <3>2. CASE /\ wait[p] > 0 /\ ~Disturbed(p) /\ wait'[p] \notin {0, 1}
               /\ wait'[p] = IF Tick THEN wait[p] + 1 ELSE wait[p]
      <4>1. /\ Willing(p) /\ Willing(p)' /\ InTime(p)
            /\ \A q \in Process : ~leader[q] /\ ~leader'[q]
        BY <2>2, <3>2 DEF WaitInv, Ready
      <4>2. phase'[p] \notin {"losing", "returning"}
        BY <3>2 DEF Disturbed
      <4>3. owner' \notin {NoOwner, p} => owner' = owner /\ ~(ttl' > ttl)
        BY <3>2 DEF Disturbed, TypeOK
      <4>4. /\ Rest(p) \in Nat /\ Rest(p) <= Longest
            /\ Rest(p)' \in Nat /\ Rest(p)' <= Longest
            /\ Longest \in Nat /\ Lapse \in Nat
            /\ ttl \in Nat /\ ttl' \in Nat /\ wait[p] \in Nat
        BY <2>1, RestBound, RestBoundNext, TimeAssumption DEF Longest, Lapse, TypeOK
      <4>5. CASE Tick
        <5>1. wait'[p] = wait[p] + 1 /\ Rest(p)' = Rest(p) - 1
          BY <3>2, <4>1, <4>5, RestPasses
        <5>2. Has(p)' <=> Has(p)
          BY <4>5 DEF Tick, Has, Granted
        <5>3. owner' # owner => owner' = NoOwner /\ ttl = 0
          BY <4>5 DEF Tick
        <5>4. owner' = owner /\ ttl > 0 => ttl' = ttl - 1
          BY <4>4, <4>5 DEF Tick, Dec
        <5>5. owner \notin {NoOwner, p} /\ ttl = 0 => owner' = NoOwner
          BY <4>5 DEF Tick
        <5>6. ASSUME Has(p)' \/ owner' \in {NoOwner, p}
              PROVE  wait'[p] + Rest(p)' <= Lapse + Longest
          <6>1. CASE Has(p) \/ owner \in {NoOwner, p}
            <7>1. wait[p] + Rest(p) <= Lapse + Longest
              BY <3>2, <4>1, <6>1 DEF InTime
            <7> QED
              BY <4>4, <5>1, <7>1
          <6>2. CASE ~Has(p) /\ owner \notin {NoOwner, p}
            <7>1. wait[p] + ttl <= Lapse
              BY <3>2, <4>1, <6>2 DEF InTime
            <7> QED
              BY <4>4, <5>1, <7>1
          <6> QED
            BY <6>1, <6>2
        <5>7. ASSUME owner' \notin {NoOwner, p} PROVE wait'[p] + ttl' <= Lapse
          <6>1. owner' = owner /\ ttl > 0
            BY <4>3, <4>4, <5>5, <5>7
          <6>2. wait[p] + ttl <= Lapse
            BY <3>2, <4>1, <5>7, <6>1 DEF InTime
          <6> QED
            BY <4>4, <5>1, <5>4, <6>1, <6>2
        <5> QED
          BY <4>2, <5>6, <5>7 DEF InTime
      <4>6. CASE ~Tick
        <5>1. wait'[p] = wait[p] /\ phase[p] \notin {"losing", "returning"}
          BY <3>2, <4>1, <4>6 DEF InTime
        <5>2. ASSUME Has(p)' \/ owner' \in {NoOwner, p}
              PROVE  wait'[p] + Rest(p)' <= Lapse + Longest
          <6>1. CASE Has(p) \/ owner \in {NoOwner, p}
            <7>1. wait[p] + Rest(p) <= Lapse + Longest
              BY <3>2, <4>1, <6>1 DEF InTime
            <7>2. Rest(p)' <= Rest(p)
              BY <2>1, <3>2, <4>1, <4>6, <5>1, <6>1, RestShrinks
            <7> QED
              BY <4>4, <5>1, <7>1, <7>2
          <6>2. CASE ~Has(p) /\ owner \notin {NoOwner, p}
            <7>1. wait[p] + ttl <= Lapse
              BY <3>2, <4>1, <6>2 DEF InTime
            <7> QED
              BY <4>4, <5>1, <7>1
          <6> QED
            BY <6>1, <6>2
        <5>3. ASSUME owner' \notin {NoOwner, p} PROVE wait'[p] + ttl' <= Lapse
          <6>1. wait[p] + ttl <= Lapse
            BY <3>2, <4>1, <4>3, <5>3 DEF InTime
          <6> QED
            BY <4>3, <4>4, <5>1, <5>3, <6>1
        <5> QED
          BY <4>2, <5>2, <5>3 DEF InTime
      <4> QED
        BY <4>5, <4>6
    <3> QED
      BY <2>2, <3>1, <3>2
  <2>4. wait' \in [Process -> Nat]
    BY <2>1, <2>2
  <2> QED
    BY <2>2, <2>3, <2>4 DEF WaitInv, Ready
<1> QED
  BY <1>1, <1>2

\* The history adds a variable to Spec and takes no behaviour away.
LEMMA HistoryIsSpec == HistorySpec => Spec
<1>1. HistoryInit => Init
  BY DEF HistoryInit
<1>2. [HistoryNext]_<<vars, wait>> => [Next]_vars
  BY DEF HistoryNext, vars
<1> QED
  BY <1>1, <1>2, PTL DEF HistorySpec, Spec

(* A process that is ready to lead and that nothing disturbs sees a leader *)
(* (itself, perhaps) within the key's life, one answer, one sleep, one     *)
(* call and one onAcquire, whoever led, died or stopped before and however *)
(* slow Redis is (leader.ts, step and bounded).  The ttl alone, which      *)
(* leader.ts:83 gives, is not enough: section 5 of the README.             *)
THEOREM VacancyCorrect == HistorySpec => []VacancyBounded
<1>1. Init => TimersInv
  BY DEF Init, TimersInv
<1>2. HistoryInit => WaitInv
  BY DEF HistoryInit, WaitInv, Ready, InTime
<1>3. [HistoryNext]_<<vars, wait>> => [Next]_vars
  BY DEF HistoryNext, vars
<1>4. TypeOK /\ TimersInv /\ WaitInv => VacancyBounded
  <2> SUFFICES ASSUME TypeOK, TimersInv, WaitInv, NEW p \in Process
               PROVE  wait[p] <= Lapse + Answer + Renew + Timeout + Take
    BY DEF VacancyBounded
  <2>1. InTime(p) /\ wait[p] \in Nat /\ ttl \in Nat
    BY DEF WaitInv, TypeOK
  <2>2. Rest(p) \in Nat /\ Longest \in Nat /\ Lapse \in Nat
    BY RestBound, TimeAssumption DEF Longest, Lapse
  <2>3. wait[p] <= Lapse + Longest
    BY <2>1, <2>2 DEF InTime
  <2> QED
    BY <2>1, <2>2, <2>3, TimeAssumption DEF Longest
<1>5. Spec => []TimersInv
  BY <1>1, TimersStep, TypeCorrect, LoopCorrect, PTL DEF Spec
<1>6. HistorySpec => []WaitInv
  <2>1. HistorySpec => HistoryInit /\ [][HistoryNext]_<<vars, wait>>
    BY DEF HistorySpec
  <2> QED
    BY <1>2, <1>5, <2>1, WaitStep, HistoryIsSpec, TypeCorrect, LoopCorrect, PTL
<1> QED
  BY <1>4, <1>5, <1>6, HistoryIsSpec, TypeCorrect, PTL
=============================================================================
