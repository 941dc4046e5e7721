---------------------------- MODULE LocalTriggers ----------------------------
(***************************************************************************)
(* The durable queue of local trigger deliveries (triggers/local_store.py)  *)
(* and its single gateway consumer (triggers/local_runner.py).               *)
(*                                                                           *)
(* A delivery is a file named after its creation time, in inbox/, processing/ *)
(* or failed/; each copy carries its own attempt count.  Every operation of   *)
(* the store holds the workspace file lock, so operations are atomic to each  *)
(* other, but the gateway can die between two file operations of one of them. *)
(* Deliveries are numbered in the order of their file names.                  *)
(***************************************************************************)
EXTENDS Naturals, FiniteSets

CONSTANTS
    NDeliveries,   \* bound on the deliveries ever enqueued
    Triggers,      \* trigger ids
    TriggerOf,     \* [Deliveries -> Triggers]
    DownChannels,  \* triggers whose target channel is not enabled
    BatchSize,     \* batch_size of run_local_trigger_queue, 20
    MaxAttempts,   \* _MAX_DELIVERY_ATTEMPTS, 10
    MaxFaults      \* bound on crashes, cancellations and failed store writes

Deliveries == 1 .. NDeliveries

ASSUME TriggersAssumption ==
    /\ NDeliveries \in Nat
    /\ TriggerOf \in [Deliveries -> Triggers]
    /\ DownChannels \subseteq Triggers
    /\ BatchSize \in Nat \ {0}
    /\ MaxAttempts \in Nat \ {0}
    /\ MaxFaults \in Nat

VARIABLES
    trigger,     \* triggers.json: not created yet, enabled, disabled, deleted
    inbox,       \* deliveries with a file in inbox/
    processing,  \* deliveries with a file in processing/
    failedDir,   \* deliveries with a file in failed/
    inboxTries,  \* attempts in the inbox copy
    procTries,   \* attempts in the processing copy and in the claimed object
    enqueued,    \* number of deliveries enqueued so far
    runner,      \* where run_local_trigger_queue is
    batch,       \* claimed deliveries not handled yet, in memory
    faults,      \* faults so far
    fate,        \* history: how a delivery left the queue
    ran          \* history: deliveries for which an agent turn has ended

files == <<inbox, processing, failedDir, inboxTries, procTries>>
vars == <<trigger, files, enqueued, runner, batch, faults, fate, ran>>

RunnerStates == {"down", "recovering", "polling", "delivering", "awaiting"}
Fates == {"none", "open", "ok", "error", "dropped", "failed", "deleted"}

TypeOK ==
    /\ trigger \in [Triggers -> {"uncreated", "enabled", "disabled", "absent"}]
    /\ inbox \subseteq Deliveries
    /\ processing \subseteq Deliveries
    /\ failedDir \subseteq Deliveries
    /\ inboxTries \in [Deliveries -> 0 .. MaxAttempts - 1]
    /\ procTries \in [Deliveries -> 0 .. MaxAttempts - 1]
    /\ enqueued \in 0 .. NDeliveries
    /\ runner \in RunnerStates
    /\ batch \subseteq Deliveries
    /\ faults \in 0 .. MaxFaults
    /\ fate \in [Deliveries -> Fates]
    /\ ran \subseteq Deliveries

Init ==
    /\ trigger = [t \in Triggers |-> "uncreated"]
    /\ inbox = {} /\ processing = {} /\ failedDir = {}
    /\ inboxTries = [d \in Deliveries |-> 0]
    /\ procTries = [d \in Deliveries |-> 0]
    /\ enqueued = 0
    /\ runner = "down"
    /\ batch = {}
    /\ faults = 0
    /\ fate = [d \in Deliveries |-> "none"]
    /\ ran = {}

-----------------------------------------------------------------------------
(* Helpers                                                                   *)

IsFirst(d, D) == d \in D /\ \A e \in D : d <= e

(* What sorted(glob)[:limit] can have moved after some of its iterations     *)
Prefixes(D) == {S \in SUBSET D : /\ Cardinality(S) <= BatchSize
                                 /\ \A d \in S, e \in D \ S : d < e}
FirstOf(D) == {S \in Prefixes(D) : S = D \/ Cardinality(S) = BatchSize}

Settle(d, f) == [fate EXCEPT ![d] = IF @ = "open" THEN f ELSE @]

AfterHandling(d) == /\ batch' = batch \ {d}
                    /\ runner' = IF batch = {d} THEN "polling" ELSE "delivering"

Fault == faults < MaxFaults /\ faults' = faults + 1

(* The gateway process is gone, and with it the runner's memory and the turn *)
GatewayDown == runner' = "down" /\ batch' = {}

OneMoreTry(d) == procTries[d] + 1 > MaxAttempts
OneTryLess(d) == procTries[d] + 2 >= MaxAttempts
Exhausted(d) == procTries[d] + 1 >= MaxAttempts

(* _retry_delivery_unlocked, first half: write the copy with one more attempt *)
WriteRetryCopy(d) ==
    IF Exhausted(d)
    THEN failedDir' = failedDir \union {d} /\ UNCHANGED <<inbox, inboxTries>>
    ELSE /\ inbox' = inbox \union {d}
         /\ inboxTries' = [inboxTries EXCEPT ![d] = procTries[d] + 1]
         /\ UNCHANGED failedDir

(* _retry_delivery_unlocked, both halves: then unlink the processing file     *)
Retry(d) ==
    /\ WriteRetryCopy(d)
    /\ processing' = processing \ {d}
    /\ fate' = IF Exhausted(d) THEN Settle(d, "failed") ELSE fate
    /\ UNCHANGED procTries

(* complete_delivery                                                         *)
CompleteKeepsFile(d, f) ==
    /\ fate' = Settle(d, f)
    /\ UNCHANGED files
Complete(d, f) ==
    /\ processing' = processing \ {d}
    /\ fate' = Settle(d, f)
    /\ UNCHANGED <<inbox, failedDir, inboxTries, procTries>>

-----------------------------------------------------------------------------
(* The command line and the WebUI                                            *)

StoreFree == runner # "recovering"

Exists(t) == trigger[t] \in {"enabled", "disabled"}

(* create: a fresh id, never that of a deleted trigger.                      *)
Create(t) ==
    /\ StoreFree /\ trigger[t] = "uncreated"
    /\ trigger' = [trigger EXCEPT ![t] = "enabled"]
    /\ UNCHANGED <<files, enqueued, runner, batch, faults, fate, ran>>

(* enqueue: the message is durable once its inbox file is written.           *)
Enqueue(d) ==
    /\ StoreFree /\ d = enqueued + 1 /\ trigger[TriggerOf[d]] = "enabled"
    /\ inbox' = inbox \union {d}
    /\ inboxTries' = [inboxTries EXCEPT ![d] = 0]
    /\ enqueued' = d
    /\ fate' = [fate EXCEPT ![d] = "open"]
    /\ UNCHANGED <<trigger, processing, failedDir, procTries>>
    /\ UNCHANGED <<runner, batch, faults, ran>>

Enable(t, b) ==
    /\ StoreFree /\ Exists(t)
    /\ trigger' = [trigger EXCEPT ![t] = IF b THEN "enabled" ELSE "disabled"]
    /\ UNCHANGED <<files, enqueued, runner, batch, faults, fate, ran>>

Marked(t) == [d \in Deliveries |->
    IF TriggerOf[d] = t /\ fate[d] \in {"open", "failed"} THEN "deleted" ELSE fate[d]]

(* delete: drop the trigger, then unlink its files in all three directories  *)
Delete(t) ==
    /\ StoreFree /\ Exists(t)
    /\ LET mine == {d \in Deliveries : TriggerOf[d] = t} IN
        /\ inbox' = inbox \ mine
        /\ processing' = processing \ mine
        /\ failedDir' = failedDir \ mine
    /\ trigger' = [trigger EXCEPT ![t] = "absent"]
    /\ fate' = Marked(t)
    /\ UNCHANGED <<inboxTries, procTries, enqueued, runner, batch, faults, ran>>

(* ... and the gateway serving the WebUI dies on the way, some files kept.   *)
CrashInDelete(t) ==
    /\ Fault /\ runner \notin {"down", "recovering"} /\ Exists(t)
    /\ \E mine \in SUBSET {d \in Deliveries : TriggerOf[d] = t} :
        /\ inbox' = inbox \ mine
        /\ processing' = processing \ mine
        /\ failedDir' = failedDir \ mine
    /\ trigger' = [trigger EXCEPT ![t] = "absent"]
    /\ fate' = Marked(t)
    /\ GatewayDown
    /\ UNCHANGED <<inboxTries, procTries, enqueued, ran>>

-----------------------------------------------------------------------------
(* run_local_trigger_queue                                                   *)

StartWithoutRecovery ==
    /\ runner = "down"
    /\ runner' = "polling"
    /\ UNCHANGED <<trigger, files, enqueued, batch, faults, fate, ran>>

Start ==
    /\ runner = "down"
    /\ runner' = "recovering"
    /\ UNCHANGED <<trigger, files, enqueued, batch, faults, fate, ran>>

(* recover_processing_deliveries, one file at a time in name order           *)
RecoverOne(d) ==
    /\ runner = "recovering" /\ IsFirst(d, processing)
    /\ Retry(d)
    /\ UNCHANGED <<trigger, enqueued, runner, batch, faults, ran>>

RecoverDone ==
    /\ runner = "recovering" /\ processing = {}
    /\ runner' = "polling"
    /\ UNCHANGED <<trigger, files, enqueued, batch, faults, fate, ran>>

Move(S) ==
    /\ inbox' = inbox \ S
    /\ processing' = processing \union S
    /\ procTries' = [d \in Deliveries |-> IF d \in S THEN inboxTries[d] ELSE procTries[d]]
    /\ UNCHANGED <<failedDir, inboxTries>>

Claim ==
    /\ runner = "polling" /\ inbox # {}
    /\ \E S \in FirstOf(inbox) : Move(S) /\ batch' = S
    /\ runner' = "delivering"
    /\ UNCHANGED <<trigger, enqueued, faults, fate, ran>>

Deliverable(d) == /\ trigger[TriggerOf[d]] = "enabled"
                  /\ TriggerOf[d] \notin DownChannels

(* The checks of _deliver_delivery pass and the turn is submitted.           *)
CompleteOnSubmit(d) ==
    /\ runner = "delivering" /\ IsFirst(d, batch) /\ Deliverable(d)
    /\ Complete(d, "ok")
    /\ runner' = "awaiting"
    /\ UNCHANGED <<trigger, enqueued, batch, faults, ran>>

SubmitTurn(d) ==
    /\ runner = "delivering" /\ IsFirst(d, batch) /\ Deliverable(d)
    /\ runner' = "awaiting"
    /\ UNCHANGED <<trigger, files, enqueued, batch, faults, fate, ran>>

(* _TerminalDeliveryError: the trigger is gone or disabled, or has no channel *)
DropTerminal(d) ==
    /\ runner = "delivering" /\ IsFirst(d, batch) /\ ~Deliverable(d)
    /\ Complete(d, "dropped")
    /\ AfterHandling(d)
    /\ UNCHANGED <<trigger, enqueued, faults, ran>>

(* The turn ended, well or with an AutomationTurnError: record and complete. *)
TurnEnded(d) ==
    /\ runner = "awaiting" /\ IsFirst(d, batch)
    /\ ran' = ran \union {d}
    /\ \E f \in {"ok", "error"} : Complete(d, f)
    /\ AfterHandling(d)
    /\ UNCHANGED <<trigger, enqueued, faults>>

(* Any other exception: submitting failed, or recording a turn that had      *)
(* ended well did.  The delivery goes back to the inbox.                     *)
DeliveryFailed(d) ==
    /\ Fault /\ IsFirst(d, batch)
    /\ \/ runner = "delivering" /\ UNCHANGED ran
       \/ runner = "awaiting" /\ ran' = ran \union {d}
    /\ Retry(d)
    /\ AfterHandling(d)
    /\ UNCHANGED <<trigger, enqueued>>

(* The gateway is shut down while a turn is awaited: the current delivery is *)
(* requeued, the rest of the batch stays in processing.                      *)
Interrupt(d) ==
    /\ Fault /\ runner = "awaiting" /\ IsFirst(d, batch)
    /\ Retry(d)
    /\ GatewayDown
    /\ UNCHANGED <<trigger, enqueued, ran>>

-----------------------------------------------------------------------------
(* The gateway dies                                                          *)

Crash ==
    /\ Fault /\ runner # "down"
    /\ \/ UNCHANGED ran
       \/ runner = "awaiting" /\ \E d \in batch : IsFirst(d, batch) /\ ran' = ran \union {d}
    /\ GatewayDown
    /\ UNCHANGED <<trigger, files, enqueued, fate>>

CrashInClaim ==
    /\ Fault /\ runner = "polling"
    /\ \E S \in Prefixes(inbox) : Move(S)
    /\ GatewayDown
    /\ UNCHANGED <<trigger, enqueued, fate, ran>>

(* Between the two file operations of a retry: both copies exist.            *)
CrashAfterUnlink(d) ==
    /\ Fault
    /\ \/ runner = "recovering" /\ IsFirst(d, processing)
       \/ runner \in {"delivering", "awaiting"} /\ IsFirst(d, batch)
    /\ processing' = processing \ {d}
    /\ GatewayDown
    /\ UNCHANGED <<trigger, inbox, failedDir, inboxTries, procTries, enqueued, fate, ran>>

CrashInRetry(d) ==
    /\ Fault
    /\ \/ runner = "recovering" /\ IsFirst(d, processing) /\ UNCHANGED ran
       \/ runner \in {"delivering", "awaiting"} /\ IsFirst(d, batch)
          /\ ran' \in {ran} \union (IF runner = "awaiting" THEN {ran \union {d}} ELSE {})
    /\ WriteRetryCopy(d)
    /\ GatewayDown
    /\ UNCHANGED <<trigger, processing, procTries, enqueued, fate>>

-----------------------------------------------------------------------------
Users == \/ \E d \in Deliveries : Enqueue(d)
         \/ \E t \in Triggers : Create(t) \/ Delete(t) \/ \E b \in BOOLEAN : Enable(t, b)

Runner == \/ Start \/ RecoverDone \/ Claim
          \/ \E d \in Deliveries : RecoverOne(d) \/ SubmitTurn(d)
                                   \/ DropTerminal(d) \/ TurnEnded(d)

Faults == \/ Crash \/ CrashInClaim
          \/ \E t \in Triggers : CrashInDelete(t)
          \/ \E d \in Deliveries : DeliveryFailed(d) \/ Interrupt(d) \/ CrashInRetry(d)

Next == Users \/ Runner \/ Faults

(* The gateway is restarted, the runner's task runs and an awaited turn ends. *)
Spec == Init /\ [][Next]_vars
FairSpec == Spec /\ WF_vars(Runner)

-----------------------------------------------------------------------------
(* Properties                                                                *)

(* At least once: whatever crashes between the file operations, a delivery   *)
(* that was accepted and not settled is in inbox/ or processing/, and one    *)
(* given up after MaxAttempts is kept in failed/.                            *)
NoDeliveryLost ==
    \A d \in Deliveries :
        /\ fate[d] = "open" => d \in inbox \union processing
        /\ fate[d] = "failed" => d \in failedDir

(* A delivery the runner holds is not also waiting in the inbox, and a       *)
(* settled one is in neither: without a crash nothing is handled twice.      *)
HeldOnce ==
    \A d \in Deliveries :
        /\ d \in batch => d \notin inbox
        /\ fate[d] \in {"ok", "error", "dropped", "failed"} =>
               d \notin inbox \union processing \union batch

(* A turn that has ended is repeated only after a fault.                     *)
RerunsNeedFault ==
    faults = 0 => \A d \in ran : d \notin inbox \union processing \union batch

(* A delivery is given up only after as many faults as it has attempts: a    *)
(* fault costs a delivery one attempt, also when it left two copies with     *)
(* different counts or hit the recovery of an earlier one.                   *)
OneAttemptPerFault ==
    \A d \in Deliveries : fate[d] = "failed" => faults >= MaxAttempts

(* Every accepted delivery is eventually settled.                            *)
EveryDeliverySettled ==
    \A d \in Deliveries : fate[d] = "open" ~> fate[d] # "open"

Queue == INSTANCE AtLeastOnceQueue

(* The queue of files implements the at-least-once queue.                    *)
ImplementsQueue == Queue!Spec
=============================================================================
