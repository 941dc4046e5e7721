------------------------- MODULE LocalTriggersProofs -------------------------
(***************************************************************************)
(* For any number of deliveries, triggers, faults and any batch size and    *)
(* attempt limit: no accepted delivery is lost, and none is held twice.     *)
(***************************************************************************)
EXTENDS LocalTriggers, TLAPS

(* A delivery is known from the moment it is enqueued, and not before.       *)
FreshInv == \A d \in Deliveries :
    /\ d > enqueued <=> fate[d] = "none"
    /\ d > enqueued =>
           d \notin inbox \union processing \union failedDir \union batch \union ran

(* The runner's memory against the directories: while it runs, processing/   *)
(* holds nothing it has not claimed.                                         *)
BatchInv ==
    /\ runner \in {"down", "recovering", "polling"} => batch = {}
    /\ runner \notin {"down", "recovering"} => processing \subseteq batch
    /\ \A d \in batch : fate[d] = "open" => d \in processing

(* Two copies of one delivery are left only by a retry below the limit.      *)
CopiesInv == \A d \in inbox \intersect processing : ~Exhausted(d)

(* Attempts are paid for by faults, those of a leftover by one still to come. *)
AttemptsInv ==
    /\ OneAttemptPerFault
    /\ \A d \in inbox : inboxTries[d] <= faults
    /\ \A d \in processing \union batch :
           procTries[d] + (IF runner \in {"down", "recovering"} THEN 1 ELSE 0) <= faults

(* Without faults the only leftovers of a gateway are its finished turns.    *)
FaultFreeInv ==
    faults = 0 => /\ RerunsNeedFault
                  /\ runner \in {"down", "recovering"} => processing = {}

IInv == /\ TypeOK /\ FreshInv /\ BatchInv /\ CopiesInv /\ FaultFreeInv
        /\ NoDeliveryLost /\ HeldOnce /\ AttemptsInv

-----------------------------------------------------------------------------
(* A fresh queue satisfies IInv.                                              *)
LEMMA InitIInv == Init => IInv
BY TriggersAssumption DEF Init, IInv, TypeOK, FreshInv, BatchInv, CopiesInv,
    FaultFreeInv, RerunsNeedFault, NoDeliveryLost, HeldOnce, AttemptsInv, OneAttemptPerFault,
    RunnerStates, Fates, Deliveries

(* Every step of the runner, its users and its faults preserves IInv.        *)
LEMMA NextIInv == IInv /\ [Next]_vars => IInv'
<1> SUFFICES ASSUME IInv, [Next]_vars PROVE IInv'
    OBVIOUS
<1> USE TriggersAssumption
        DEF IInv, TypeOK, FreshInv, BatchInv, CopiesInv, FaultFreeInv, RerunsNeedFault,
            NoDeliveryLost, HeldOnce, AttemptsInv, OneAttemptPerFault, RunnerStates, Fates, Exhausted, files
<1>1. ASSUME NEW d \in Deliveries, Enqueue(d) PROVE IInv'
    <2> USE <1>1 DEF Enqueue, StoreFree
    <2>1. /\ d \in Nat /\ d > enqueued
          /\ enqueued' \in 0 .. NDeliveries
          /\ \A e \in Deliveries : e > enqueued' <=> e > enqueued /\ e # d
        BY DEF Deliveries
    <2>2. /\ d \notin inbox \union processing \union failedDir \union batch \union ran
          /\ fate[d] = "none"
        BY <2>1
    <2>3. TypeOK' /\ FreshInv' /\ BatchInv'
        BY <2>1, <2>2
    <2>4. CopiesInv' /\ FaultFreeInv'
        BY <2>2
    <2>5. NoDeliveryLost' /\ HeldOnce' /\ AttemptsInv'
        BY <2>2
    <2> QED
        BY <2>3, <2>4, <2>5
<1>2. ASSUME NEW t \in Triggers, NEW b \in BOOLEAN, Enable(t, b) PROVE IInv'
    BY <1>2 DEF Enable, StoreFree, Exists
<1>3. ASSUME NEW t \in Triggers, Delete(t) PROVE IInv'
    BY <1>3 DEF Delete, StoreFree, Exists, Marked
<1>4. CASE Start
    BY <1>4 DEF Start
<1>5. ASSUME NEW d \in Deliveries, RecoverOne(d) PROVE IInv'
    BY <1>5 DEF RecoverOne, IsFirst, Retry, WriteRetryCopy, Settle
<1>6. CASE RecoverDone
    BY <1>6 DEF RecoverDone
<1>7. CASE Claim
    BY <1>7 DEF Claim, FirstOf, Prefixes, Move
<1>8. ASSUME NEW d \in Deliveries, SubmitTurn(d) PROVE IInv'
    BY <1>8 DEF SubmitTurn
<1>9. ASSUME NEW d \in Deliveries, DropTerminal(d) PROVE IInv'
    BY <1>9 DEF DropTerminal, IsFirst, Complete, Settle, AfterHandling
<1>10. ASSUME NEW d \in Deliveries, TurnEnded(d) PROVE IInv'
    BY <1>10 DEF TurnEnded, IsFirst, Complete, Settle, AfterHandling
<1>11. ASSUME NEW d \in Deliveries, DeliveryFailed(d) PROVE IInv'
    <2> USE <1>11 DEF DeliveryFailed, Fault, IsFirst, Retry, WriteRetryCopy, Settle, AfterHandling
    <2>1. /\ faults \in Nat /\ faults' = faults + 1
          /\ procTries[d] \in Nat /\ procTries[d] + 1 <= faults'
        BY SMTT(30)
    <2>2. TypeOK'
        BY <2>1
    <2>3. FreshInv' /\ BatchInv' /\ CopiesInv'
        BY <2>1
    <2>4. FaultFreeInv' /\ NoDeliveryLost' /\ HeldOnce'
        BY <2>1
    <2>5. AttemptsInv'
        BY <2>1
    <2> QED
        BY <2>2, <2>3, <2>4, <2>5
<1>12. ASSUME NEW d \in Deliveries, Interrupt(d) PROVE IInv'
    <2> USE <1>12 DEF Interrupt, Fault, IsFirst, Retry, WriteRetryCopy, Settle, GatewayDown
    <2>1. /\ faults \in Nat /\ faults' = faults + 1
          /\ procTries[d] \in Nat /\ procTries[d] + 1 <= faults'
        BY SMTT(30)
    <2>2. TypeOK'
        BY <2>1
    <2>3. FreshInv' /\ BatchInv' /\ CopiesInv'
        BY <2>1
    <2>4. FaultFreeInv' /\ NoDeliveryLost' /\ HeldOnce'
        BY <2>1
    <2>5. AttemptsInv'
        BY <2>1
    <2> QED
        BY <2>2, <2>3, <2>4, <2>5
<1>13. CASE Crash
    BY <1>13 DEF Crash, Fault, GatewayDown, IsFirst
<1>14. CASE CrashInClaim
    BY <1>14 DEF CrashInClaim, Fault, GatewayDown, Prefixes, Move
<1>15. ASSUME NEW t \in Triggers, CrashInDelete(t) PROVE IInv'
    BY <1>15 DEF CrashInDelete, Exists, Fault, GatewayDown, Marked
<1>16. ASSUME NEW d \in Deliveries, CrashInRetry(d) PROVE IInv'
    <2> USE <1>16 DEF CrashInRetry, Fault, GatewayDown, IsFirst, WriteRetryCopy
    <2>1. /\ faults \in Nat /\ faults' = faults + 1
          /\ procTries[d] \in Nat /\ procTries[d] + 1 <= faults'
        BY SMTT(30)
    <2>2. TypeOK'
        BY <2>1
    <2>3. FreshInv' /\ BatchInv' /\ CopiesInv'
        BY <2>1
    <2>4. FaultFreeInv' /\ NoDeliveryLost' /\ HeldOnce'
        BY <2>1
    <2>5. AttemptsInv'
        BY <2>1
    <2> QED
        BY <2>2, <2>3, <2>4, <2>5
<1>17. ASSUME NEW t \in Triggers, Create(t) PROVE IInv'
    BY <1>17 DEF Create
<1>18. CASE UNCHANGED vars
    BY <1>18 DEF vars
<1>19. QED
    BY <1>1, <1>2, <1>3, <1>4, <1>5, <1>6, <1>7, <1>8, <1>9, <1>10, <1>11, <1>12,
       <1>13, <1>14, <1>15, <1>16, <1>17, <1>18 DEF Next, Users, Runner, Faults

-----------------------------------------------------------------------------
(* IInv holds throughout every behaviour of the queue.                       *)
THEOREM Invariance == Spec => []IInv
BY InitIInv, NextIInv, PTL DEF Spec

(* At-least-once delivery: an accepted delivery stays in inbox/ or processing/ *)
(* until it is settled, and an abandoned one in failed/, whatever crashes.   *)
THEOREM DeliveriesSurvive == Spec => []NoDeliveryLost
<1>1. IInv => NoDeliveryLost
    BY DEF IInv
<1>2. QED
    BY Invariance, <1>1, PTL

(* No delivery is claimed and waiting at once, and none outlives its end.    *)
THEOREM DeliveriesHeldOnce == Spec => []HeldOnce
<1>1. IInv => HeldOnce
    BY DEF IInv
<1>2. QED
    BY Invariance, <1>1, PTL

(* The types of the variables.                                               *)
THEOREM TypeCorrect == Spec => []TypeOK
<1>1. IInv => TypeOK
    BY DEF IInv
<1>2. QED
    BY Invariance, <1>1, PTL

(* A delivery is given up only after MaxAttempts faults.                     *)
THEOREM AttemptLimit == Spec => []OneAttemptPerFault
<1>1. IInv => OneAttemptPerFault
    BY DEF IInv, AttemptsInv
<1>2. QED
    BY Invariance, <1>1, PTL

(* Without a fault no turn is run twice for one delivery.                    *)
THEOREM ExactlyOnceWithoutFaults == Spec => []RerunsNeedFault
<1>1. IInv => RerunsNeedFault
    BY DEF IInv, FaultFreeInv, RerunsNeedFault
<1>2. QED
    BY Invariance, <1>1, PTL

-----------------------------------------------------------------------------
(* A step of the files is a step of the at-least-once queue or leaves what   *)
(* the queue promises about as it is.                                        *)
LEMMA StepRefines == IInv /\ [Next]_vars => [Queue!Next]_Queue!vars
<1> SUFFICES ASSUME IInv, [Next]_vars PROVE [Queue!Next]_Queue!vars
    OBVIOUS
<1> USE DEF IInv, Queue!vars, Queue!Next
<1>1. ASSUME NEW d \in Deliveries, Enqueue(d) PROVE Queue!Accept(d)
    BY <1>1 DEF Enqueue, Queue!Accept, FreshInv, TypeOK, Deliveries
<1>2. ASSUME NEW t \in Triggers, Delete(t) \/ CrashInDelete(t)
      PROVE  \E D \in SUBSET Deliveries : Queue!Delete(D)
    <2> WITNESS {d \in Deliveries : TriggerOf[d] = t /\ fate[d] \in {"open", "failed"}} \in SUBSET Deliveries
    <2> QED
        BY <1>2 DEF Delete, CrashInDelete, Marked, Queue!Delete
<1>3. ASSUME NEW d \in Deliveries, RecoverOne(d) \/ DropTerminal(d) \/ Interrupt(d)
      PROVE  [Queue!GiveUp(d)]_<<fate, ran>>
    BY <1>3 DEF RecoverOne, DropTerminal, Interrupt, Retry, Complete, Settle,
        Queue!GiveUp, TypeOK
<1>4. \A d \in batch : fate[d] \in {"open", "deleted"}
    BY DEF TypeOK, Fates, FreshInv, HeldOnce
<1>5. ASSUME NEW d \in Deliveries, TurnEnded(d) PROVE Queue!Run(d)
    BY <1>4, <1>5 DEF TurnEnded, IsFirst, Complete, Settle, Queue!Run, TypeOK
<1>6. ASSUME NEW d \in Deliveries, DeliveryFailed(d)
      PROVE  [Queue!Run(d) \/ Queue!GiveUp(d)]_<<fate, ran>>
    BY <1>4, <1>6 DEF DeliveryFailed, IsFirst, Retry, Settle, Queue!Run, Queue!GiveUp, TypeOK
<1>7. ASSUME NEW d \in Deliveries, CrashInRetry(d) PROVE [Queue!Run(d)]_<<fate, ran>>
    BY <1>4, <1>7 DEF CrashInRetry, IsFirst, Queue!Run
<1>8. CASE Crash
    BY <1>4, <1>8 DEF Crash, IsFirst, Queue!Run, TypeOK
<1>9. CASE \/ Start \/ RecoverDone \/ Claim \/ CrashInClaim \/ UNCHANGED vars
           \/ \E t \in Triggers, b \in BOOLEAN : Enable(t, b)
           \/ \E d \in Deliveries : SubmitTurn(d)
           \/ \E t \in Triggers : Create(t)
    BY <1>9 DEF Start, RecoverDone, Claim, CrashInClaim, Enable, SubmitTurn, Create, vars
<1> QED
    BY <1>1, <1>2, <1>3, <1>5, <1>6, <1>7, <1>8, <1>9 DEF Next, Users, Runner, Faults

(* The queue of files implements the at-least-once queue: a delivery is      *)
(* settled only by the end of a turn for it, by a refusal of its target, by  *)
(* the attempt limit or by the deletion of its trigger.                      *)
THEOREM Refinement == Spec => ImplementsQueue
<1>1. Init => Queue!Init
    BY DEF Init, Queue!Init
<1>2. QED
    BY <1>1, Invariance, StepRefines, PTL DEF Spec, ImplementsQueue, Queue!Spec
=============================================================================
