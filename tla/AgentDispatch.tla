---------------------------- MODULE AgentDispatch ----------------------------
(***************************************************************************)
(* AgentLoop's message routing (agent/loop.py) together with the automation *)
(* turn coordinators (agent/automation_turns.py), the /stop command          *)
(* (command/builtin.py) and goal continuations (session/turn_continuation.py)*)
(*                                                                           *)
(* One asyncio process consumes the bus (run); each message it does not      *)
(* handle itself gets a task (_dispatch).  Between two suspension points a   *)
(* task runs alone, so an action is the code from one suspension to the      *)
(* next.  The model call, its tools and the wording of replies are left out: *)
(* a turn is an interval during which follow-ups are injected.               *)
(***************************************************************************)
EXTENDS Naturals, Sequences, SequencesExt, FiniteSets

CONSTANTS
    Msgs,           \* messages that are ever sent
    Sessions,       \* session keys
    SessionOf,      \* [Msgs -> Sessions], _effective_session_key
    KindOf,         \* [Msgs -> Kinds]
    TextOf,         \* [Msgs -> Texts], what the content is to the command router
    Temporary,      \* messages with require_existing_session
    GoalSessions,   \* sessions with an active sustained goal
    QueueCap,       \* capacity of a pending queue, 20 in the code
    MaxConcurrent,  \* RUICLAW_MAX_CONCURRENT_REQUESTS, 0 is unlimited
    MaxPerDrain,    \* _MAX_INJECTIONS_PER_TURN
    MaxCycles,      \* _MAX_INJECTION_CYCLES
    MaxRounds,      \* _MAX_GOAL_CONTINUATION_ROUNDS
    WaitForSuspends,\* asyncio.wait_for suspends run() even when the bus has a
                    \* message: TRUE on Python 3.11, FALSE from 3.12 on
    NoMsg           \* absence of a message

(* user: typed by a person; auto: a cron or local trigger turn with a waiter; *)
(* system: channel "system", such as a subagent result; direct: process_direct *)
Kinds == {"user", "auto", "system", "direct"}
(* status stands for every priority command other than /stop, command for    *)
(* the commands run() may dispatch inline beside an active turn               *)
Texts == {"chat", "stop", "status", "command"}

ASSUME DispatchAssumption ==
    /\ SessionOf \in [Msgs -> Sessions]
    /\ KindOf \in [Msgs -> Kinds]
    /\ TextOf \in [Msgs -> Texts]
    /\ Temporary \subseteq Msgs
    /\ GoalSessions \subseteq Sessions
    /\ QueueCap \in Nat \ {0}
    /\ MaxConcurrent \in Nat
    /\ MaxPerDrain \in Nat \ {0}
    /\ MaxCycles \in Nat
    /\ MaxRounds \in Nat
    /\ WaitForSuspends \in BOOLEAN
    /\ NoMsg \notin Msgs

VARIABLES
    bus,       \* MessageBus.inbound
    ready,     \* tasks created and not started, in the event loop's FIFO order
    yielded,   \* run() has suspended since it last consumed a message
    phase,     \* phase of the _dispatch task of a message
    lockQ,     \* tasks at the session lock, FIFO; the first holds it
    gateQ,     \* tasks at the concurrency gate, FIFO; the first MaxConcurrent hold it
    owner,     \* the task whose queue is _pending_queues[s], or NoMsg
    pending,   \* contents of _pending_queues[s]
    deferred,  \* _deferred_automation_turns
    cycles,    \* injection cycles of the turn in progress
    rounds,    \* goal continuation rounds already spent
    stopping,  \* the /stop run() is executing, or NoMsg
    cancelled, \* tasks with a pending cancellation
    waiter,    \* the coordinator's future for an automation turn
    status     \* what has become of a message

vars == <<bus, ready, yielded, phase, lockQ, gateQ, owner, pending, deferred, cycles, rounds,
          stopping, cancelled, waiter, status>>

(* created: create_task was called, the coroutine has not run yet.           *)
(* boundary: the tool budget is spent and the turn is about to continue.     *)
(* continuing: the turn has put its own continuation into its pending queue. *)
(* wedged: the turn is suspended in put() on its own full pending queue.     *)
Working == {"running", "boundary", "continuing", "wedged"}
Phases == {"none", "created", "lock", "gate"} \union Working
Futures == {"none", "waiting", "ok", "error"}
Handled == {"answered", "failed", "cancelled", "command", "dropped"}
Statuses == {"unsent", "open", "injected"} \union Handled

TypeOK ==
    /\ bus \in Seq(Msgs)
    /\ ready \in Seq(Msgs)
    /\ yielded \in BOOLEAN
    /\ phase \in [Msgs -> Phases]
    /\ lockQ \in [Sessions -> Seq(Msgs)]
    /\ gateQ \in Seq(Msgs)
    /\ owner \in [Sessions -> Msgs \union {NoMsg}]
    /\ pending \in [Sessions -> Seq(Msgs)]
    /\ deferred \in [Sessions -> Seq(Msgs)]
    /\ cycles \in [Sessions -> 0 .. MaxCycles]
    /\ rounds \in [Sessions -> 0 .. MaxRounds]
    /\ stopping \in Msgs \union {NoMsg}
    /\ cancelled \subseteq Msgs
    /\ waiter \in [Msgs -> Futures]
    /\ status \in [Msgs -> Statuses]

Init ==
    /\ bus = <<>>
    /\ ready = <<>>
    /\ yielded = TRUE
    /\ phase = [m \in Msgs |-> "none"]
    /\ lockQ = [s \in Sessions |-> <<>>]
    /\ gateQ = <<>>
    /\ owner = [s \in Sessions |-> NoMsg]
    /\ pending = [s \in Sessions |-> <<>>]
    /\ deferred = [s \in Sessions |-> <<>>]
    /\ cycles = [s \in Sessions |-> 0]
    /\ rounds = [s \in Sessions |-> 0]
    /\ stopping = NoMsg
    /\ cancelled = {}
    /\ waiter = [m \in Msgs |-> "none"]
    /\ status = [m \in Msgs |-> "unsent"]

-----------------------------------------------------------------------------
(* Plausible bugs, used by the mutants: each replaces the definition named.  *)
DefersNothing(m) == FALSE                              \* of DefersTurn
LeftoversLost(s) == <<>>                               \* of Leftovers
CompleteOnlyOnSuccess(m, r) ==                         \* of Complete
    [waiter EXCEPT ![m] = IF waiter[m] = "waiting" /\ r = "answered" THEN "ok" ELSE @]
DrainSameQueue(s) == pending[s]                        \* of AfterDrain
KeepDeferred(s) == UNCHANGED <<bus, deferred, owner, pending>>
                                                       \* of PublishNextDeferred

-----------------------------------------------------------------------------
(* Helpers                                                                   *)
IsPriority(m) == TextOf[m] \in {"stop", "status"} /\ KindOf[m] # "system"
IsCommand(m) == TextOf[m] = "command" /\ KindOf[m] # "system"

DefersTurn(m) == KindOf[m] = "auto" /\ owner[SessionOf[m]] # NoMsg

(* _cancel_active_tasks sees the tasks run() tracks; process_direct is not one *)
ActiveTasks(s) ==
    {m \in Msgs : SessionOf[m] = s /\ phase[m] # "none" /\ KindOf[m] # "direct"}

HoldsLock(m) == phase[m] = "lock" /\ lockQ[SessionOf[m]][1] = m

HoldsGate(m) == \E i \in DOMAIN gateQ : i <= MaxConcurrent /\ gateQ[i] = m

Without(q, m) == {RemoveAt(q, i) : i \in {j \in DOMAIN q : q[j] = m}}

(* AutomationTurnCoordinator.complete: only a future that is still waiting   *)
Complete(m, r) ==
    [waiter EXCEPT ![m] = IF waiter[m] # "waiting" THEN @
                          ELSE IF r = "answered" THEN "ok" ELSE "error"]

Leftovers(s) == pending[s]
AfterDrain(s) == SubSeq(pending[s], MaxPerDrain + 1, Len(pending[s]))
Drained(s) == {pending[s][i] : i \in {j \in DOMAIN pending[s] : j <= MaxPerDrain}}

(* publish_next_deferred_turn takes at most one turn from the front          *)
NextDeferred(s) == IF deferred[s] = <<>> THEN <<>> ELSE <<Head(deferred[s])>>

(* A plausible bug: the queue stays published after its turn.  Of            *)
(* ReleaseSession.                                                           *)
ReleaseKeepsQueue(s) ==
    /\ bus' = bus \o Leftovers(s) \o NextDeferred(s)
    /\ pending' = [pending EXCEPT ![s] = <<>>]
    /\ deferred' = [deferred EXCEPT ![s] = SubSeq(@, Len(NextDeferred(s)) + 1, Len(@))]
    /\ UNCHANGED owner

(* What the innermost finally of _dispatch does: give up the pending queue,  *)
(* return its leftovers to the bus, then publish one deferred turn.  Without *)
(* a published queue (the task never began its turn) only the last part.     *)
ReleaseSession(s) ==
    /\ bus' = bus \o Leftovers(s) \o NextDeferred(s)
    /\ pending' = [pending EXCEPT ![s] = <<>>]
    /\ owner' = [owner EXCEPT ![s] = NoMsg]
    /\ deferred' = [deferred EXCEPT ![s] = SubSeq(@, Len(NextDeferred(s)) + 1, Len(@))]

PublishNextDeferred(s) ==
    /\ bus' = bus \o NextDeferred(s)
    /\ deferred' = [deferred EXCEPT ![s] = SubSeq(@, Len(NextDeferred(s)) + 1, Len(@))]
    /\ UNCHANGED <<owner, pending>>

LeaveGate(m) == IF \E i \in DOMAIN gateQ : gateQ[i] = m
                THEN gateQ' \in Without(gateQ, m)
                ELSE gateQ' = gateQ
LeaveLock(m) == \E q \in Without(lockQ[SessionOf[m]], m) :
                    lockQ' = [lockQ EXCEPT ![SessionOf[m]] = q]

-----------------------------------------------------------------------------
(* Senders                                                                   *)

(* A channel or a subagent publishes an inbound message.                     *)
Publish(m) ==
    /\ status[m] = "unsent" /\ KindOf[m] \in {"user", "system"}
    /\ status' = [status EXCEPT ![m] = "open"]
    /\ bus' = Append(bus, m)
    /\ UNCHANGED <<ready, yielded, phase, lockQ, gateQ, owner, pending, deferred, cycles, rounds,
                   stopping, cancelled, waiter>>

(* AutomationTurnCoordinator.submit while the loop is running.               *)
Submit(m) ==
    /\ status[m] = "unsent" /\ KindOf[m] = "auto"
    /\ status' = [status EXCEPT ![m] = "open"]
    /\ waiter' = [waiter EXCEPT ![m] = "waiting"]
    /\ bus' = Append(bus, m)
    /\ UNCHANGED <<ready, yielded, phase, lockQ, gateQ, owner, pending, deferred, cycles, rounds,
                   stopping, cancelled>>

(* process_direct queues at the session lock without going through the bus.  *)
CallDirect(m) ==
    /\ status[m] = "unsent" /\ KindOf[m] = "direct"
    /\ status' = [status EXCEPT ![m] = "open"]
    /\ phase' = [phase EXCEPT ![m] = "lock"]
    /\ lockQ' = [lockQ EXCEPT ![SessionOf[m]] = Append(@, m)]
    /\ UNCHANGED <<ready, yielded, bus, gateQ, owner, pending, deferred, cycles, rounds,
                   stopping, cancelled, waiter>>

-----------------------------------------------------------------------------
(* run(): the branches, in the order the code tests them                     *)

(* Once run() has suspended, the tasks it created have run before it goes on; *)
(* while it has not, it may consume a message that arrived behind theirs.    *)
Consume(m) == /\ stopping = NoMsg
              /\ bus # <<>> /\ Head(bus) = m
              /\ yielded => ready = <<>>
              /\ bus' = Tail(bus)
              /\ yielded' = (WaitForSuspends \/ Tail(bus) = <<>>)

(* A temporary session that is no longer cached: the message is dropped.     *)
DropOrphan(m) ==
    /\ Consume(m) /\ m \in Temporary
    /\ status' = [status EXCEPT ![m] = "dropped"]
    /\ UNCHANGED <<ready, phase, lockQ, gateQ, owner, pending, deferred, cycles, rounds,
                   stopping, cancelled, waiter>>

(* /stop: cancel every active task of the session; run() then awaits them.   *)
BeginStop(m) ==
    /\ Consume(m) /\ IsPriority(m) /\ TextOf[m] = "stop"
    /\ stopping' = m
    /\ cancelled' = ActiveTasks(SessionOf[m])
    /\ UNCHANGED <<ready, phase, lockQ, gateQ, owner, pending, deferred, cycles, rounds,
                   waiter, status>>

(* /stop, second half: all tasks awaited, drain whatever queue is published. *)
FinishStop ==
    /\ stopping # NoMsg /\ cancelled = {}
    /\ LET s == SessionOf[stopping] IN
        /\ status' = [m \in Msgs |->
               IF m = stopping THEN "command"
               ELSE IF m \in ToSet(pending[s]) THEN "cancelled" ELSE status[m]]
        /\ pending' = [pending EXCEPT ![s] = <<>>]
        /\ owner' = [owner EXCEPT ![s] = NoMsg]
    /\ stopping' = NoMsg
    /\ UNCHANGED <<ready, yielded, bus, phase, lockQ, gateQ, deferred, cycles, rounds, cancelled, waiter>>

(* Commands answered by run() itself: priority ones always, other commands   *)
(* only beside an active turn.                                               *)
AnswerInline(m) ==
    /\ Consume(m)
    /\ \/ IsPriority(m) /\ TextOf[m] = "status"
       \/ IsCommand(m) /\ ~DefersTurn(m) /\ owner[SessionOf[m]] # NoMsg
    /\ status' = [status EXCEPT ![m] = "command"]
    /\ UNCHANGED <<ready, phase, lockQ, gateQ, owner, pending, deferred, cycles, rounds,
                   stopping, cancelled, waiter>>

(* defer_if_active                                                           *)
Defer(m) ==
    /\ Consume(m) /\ ~IsPriority(m) /\ DefersTurn(m)
    /\ deferred' = [deferred EXCEPT ![SessionOf[m]] = Append(@, m)]
    /\ UNCHANGED <<ready, phase, lockQ, gateQ, owner, pending, cycles, rounds,
                   stopping, cancelled, waiter, status>>

(* Mid-turn routing into the pending queue, while it has room.               *)
RouteToPending(m) ==
    LET s == SessionOf[m] IN
    /\ Consume(m) /\ ~IsPriority(m) /\ ~DefersTurn(m)
    /\ owner[s] # NoMsg /\ ~IsCommand(m)
    /\ Len(pending[s]) < QueueCap
    /\ pending' = [pending EXCEPT ![s] = Append(@, m)]
    /\ UNCHANGED <<ready, phase, lockQ, gateQ, owner, deferred, cycles, rounds,
                   stopping, cancelled, waiter, status>>

(* A task of its own: no active queue, or (QueueFull) no room in it.         *)
SpawnTask(m) ==
    LET s == SessionOf[m] IN
    /\ Consume(m) /\ ~IsPriority(m) /\ ~DefersTurn(m)
    /\ \/ owner[s] = NoMsg
       \/ ~IsCommand(m) /\ Len(pending[s]) >= QueueCap
    /\ phase' = [phase EXCEPT ![m] = "created"]
    /\ ready' = Append(ready, m)
    /\ UNCHANGED <<lockQ, gateQ, owner, pending, deferred, cycles, rounds,
                   stopping, cancelled, waiter, status>>

-----------------------------------------------------------------------------
(* _dispatch and process_direct, in their own tasks                          *)

(* The coroutine starts and queues at the session lock.                      *)
StartTask(m) ==
    /\ ready # <<>> /\ Head(ready) = m /\ m \notin cancelled
    /\ ready' = Tail(ready)
    /\ phase' = [phase EXCEPT ![m] = "lock"]
    /\ lockQ' = [lockQ EXCEPT ![SessionOf[m]] = Append(@, m)]
    /\ UNCHANGED <<yielded, bus, gateQ, owner, pending, deferred, cycles, rounds,
                   stopping, cancelled, waiter, status>>

(* With a limit configured, the lock holder queues at the gate.              *)
QueueAtGate(m) ==
    /\ HoldsLock(m) /\ m \notin cancelled
    /\ KindOf[m] # "direct" /\ MaxConcurrent > 0
    /\ phase' = [phase EXCEPT ![m] = "gate"]
    /\ gateQ' = Append(gateQ, m)
    /\ UNCHANGED <<ready, yielded, bus, lockQ, owner, pending, deferred, cycles, rounds,
                   stopping, cancelled, waiter, status>>

(* Lock and gate held: publish a fresh pending queue and start the turn.     *)
BeginTurn(m) ==
    LET s == SessionOf[m] IN
    /\ m \notin cancelled /\ KindOf[m] # "direct"
    /\ \/ HoldsLock(m) /\ MaxConcurrent = 0
       \/ phase[m] = "gate" /\ HoldsGate(m)
    /\ phase' = [phase EXCEPT ![m] = "running"]
    /\ owner' = [owner EXCEPT ![s] = m]
    /\ pending' = [pending EXCEPT ![s] = <<>>]
    /\ cycles' = [cycles EXCEPT ![s] = 0]
    /\ UNCHANGED <<ready, yielded, bus, lockQ, gateQ, deferred, rounds, stopping, cancelled,
                   waiter, status>>

(* process_direct passes no pending queue and ignores the gate.              *)
BeginDirect(m) ==
    /\ KindOf[m] = "direct" /\ HoldsLock(m)
    /\ phase' = [phase EXCEPT ![m] = "running"]
    /\ UNCHANGED <<ready, yielded, bus, lockQ, gateQ, owner, pending, deferred, cycles, rounds,
                   stopping, cancelled, waiter, status>>

(* _try_drain_injections: a batch of follow-ups joins the turn in progress,  *)
(* while the turn has injection cycles left.                                 *)
InjectBatch(s) ==
    /\ pending[s] # <<>> /\ cycles[s] < MaxCycles
    /\ status' = [x \in Msgs |-> IF x \in Drained(s) THEN "injected" ELSE status[x]]
    /\ pending' = [pending EXCEPT ![s] = AfterDrain(s)]
    /\ cycles' = [cycles EXCEPT ![s] = @ + 1]

(* The turn is in the runner; a command turn never reaches it.               *)
InRunner(m) == /\ phase[m] = "running" /\ owner[SessionOf[m]] = m
               /\ m \notin cancelled /\ ~IsCommand(m)

Drain(m) ==
    /\ InRunner(m) /\ InjectBatch(SessionOf[m])
    /\ UNCHANGED <<ready, yielded, bus, phase, lockQ, gateQ, owner, deferred, rounds, stopping,
                   cancelled, waiter>>

(* A plausible bug: the round limit is not looked at.  Of ReachBudget.       *)
BudgetUnbounded(m) ==
    LET s == SessionOf[m] IN
    /\ InRunner(m) /\ KindOf[m] # "system" /\ s \in GoalSessions
    /\ phase' = [phase EXCEPT ![m] = "boundary"]
    /\ UNCHANGED <<ready, yielded, bus, lockQ, gateQ, owner, pending, deferred, cycles, rounds,
                   stopping, cancelled, waiter, status>>

(* max_iterations with an active goal: one last batch is injected and the    *)
(* turn will continue in a slice of its own.                                 *)
ReachBudget(m) ==
    LET s == SessionOf[m] IN
    /\ InRunner(m) /\ KindOf[m] # "system"
    /\ s \in GoalSessions /\ rounds[s] < MaxRounds
    /\ phase' = [phase EXCEPT ![m] = "boundary"]
    /\ \/ InjectBatch(s)
       \/ /\ pending[s] = <<>> \/ cycles[s] >= MaxCycles
          /\ UNCHANGED <<status, pending, cycles>>
    /\ UNCHANGED <<ready, yielded, bus, lockQ, gateQ, owner, deferred, rounds, stopping,
                   cancelled, waiter>>

(* maybe_continue_turn awaits put() of the turn's own continuation on its    *)
(* own pending queue.  The continuation keeps the message's metadata and     *)
(* stands for it.  A full queue suspends the turn for good, since nobody     *)
(* else takes from that queue.                                               *)
ContinueGoal(m) ==
    LET s == SessionOf[m] IN
    /\ phase[m] = "boundary" /\ owner[s] = m /\ m \notin cancelled
    /\ rounds' = [rounds EXCEPT ![s] = @ + 1]
    /\ \/ /\ Len(pending[s]) < QueueCap
          /\ pending' = [pending EXCEPT ![s] = Append(@, m)]
          /\ phase' = [phase EXCEPT ![m] = "continuing"]
       \/ /\ Len(pending[s]) >= QueueCap
          /\ phase' = [phase EXCEPT ![m] = "wedged"]
          /\ UNCHANGED pending
    /\ UNCHANGED <<ready, yielded, bus, lockQ, gateQ, owner, deferred, cycles, stopping,
                   cancelled, waiter, status>>

(* The turn returns or raises: complete the waiter, then the finally blocks. *)
(* A continuing message is back on the bus and stays open.                   *)
EndTurn(m, r) ==
    LET s == SessionOf[m] IN
    /\ phase[m] \in {"running", "continuing"} /\ owner[s] = m /\ m \notin cancelled
    /\ waiter' = Complete(m, r)
    /\ status' = [status EXCEPT ![m] = IF phase[m] = "continuing" THEN @ ELSE r]
    /\ ReleaseSession(s)
    /\ phase' = [phase EXCEPT ![m] = "none"]
    /\ LeaveLock(m) /\ LeaveGate(m)
    /\ UNCHANGED <<ready, yielded, cycles, rounds, stopping, cancelled>>

EndDirect(m) ==
    /\ KindOf[m] = "direct" /\ phase[m] = "running"
    /\ status' = [status EXCEPT ![m] = "answered"]
    /\ phase' = [phase EXCEPT ![m] = "none"]
    /\ LeaveLock(m)
    /\ UNCHANGED <<ready, yielded, bus, gateQ, owner, pending, deferred, cycles, rounds, stopping,
                   cancelled, waiter>>

(* CancelledError in a task that has begun its turn.                         *)
UnwindTurn(m) ==
    LET s == SessionOf[m] IN
    /\ m \in cancelled /\ phase[m] \in Working
    /\ waiter' = Complete(m, "cancelled")
    /\ status' = [status EXCEPT ![m] = IF phase[m] = "continuing" THEN @ ELSE "cancelled"]
    /\ ReleaseSession(s)
    /\ phase' = [phase EXCEPT ![m] = "none"]
    /\ cancelled' = cancelled \ {m}
    /\ LeaveLock(m) /\ LeaveGate(m)
    /\ UNCHANGED <<ready, yielded, cycles, rounds, stopping>>

(* CancelledError while waiting for the lock or the gate (pending is None):  *)
(* no coordinator is told, only the next deferred turn is published.         *)
UnwindWaiting(m) ==
    /\ m \in cancelled /\ phase[m] \in {"lock", "gate"}
    /\ status' = [status EXCEPT ![m] = "cancelled"]
    /\ PublishNextDeferred(SessionOf[m])
    /\ phase' = [phase EXCEPT ![m] = "none"]
    /\ cancelled' = cancelled \ {m}
    /\ LeaveLock(m) /\ LeaveGate(m)
    /\ UNCHANGED <<ready, yielded, cycles, rounds, stopping, waiter>>

(* A task cancelled before its first step never runs a line of _dispatch.    *)
UnwindCreated(m) ==
    /\ ready # <<>> /\ Head(ready) = m /\ m \in cancelled
    /\ ready' = Tail(ready)
    /\ status' = [status EXCEPT ![m] = "cancelled"]
    /\ phase' = [phase EXCEPT ![m] = "none"]
    /\ cancelled' = cancelled \ {m}
    /\ UNCHANGED <<yielded, bus, lockQ, gateQ, owner, pending, deferred, cycles, rounds,
                   stopping, waiter>>

-----------------------------------------------------------------------------
Send(m) == Publish(m) \/ Submit(m) \/ CallDirect(m)

RunLoop ==
    \/ FinishStop
    \/ \E m \in Msgs : \/ DropOrphan(m) \/ BeginStop(m) \/ AnswerInline(m)
                       \/ Defer(m) \/ RouteToPending(m) \/ SpawnTask(m)

TaskStep(m) ==
    \/ StartTask(m) \/ QueueAtGate(m) \/ BeginTurn(m) \/ BeginDirect(m)
    \/ Drain(m) \/ ReachBudget(m) \/ ContinueGoal(m)
    \/ \E r \in {"answered", "failed"} : EndTurn(m, r)
    \/ EndDirect(m)
    \/ UnwindTurn(m) \/ UnwindWaiting(m) \/ UnwindCreated(m)

Next == RunLoop \/ \E m \in Msgs : Send(m) \/ TaskStep(m)

(* The event loop runs every ready task and the consumer of the bus; a turn  *)
(* ends, its model calls being bounded by timeouts and iterations.  Nothing  *)
(* obliges anyone to send.                                                   *)
Fairness == WF_vars(RunLoop) /\ \A m \in Msgs : WF_vars(TaskStep(m))

Spec == Init /\ [][Next]_vars
FairSpec == Spec /\ Fairness

-----------------------------------------------------------------------------
(* Safety                                                                    *)

(* Turns of a session never overlap, and _pending_queues[s] is published     *)
(* exactly while the bus-driven turn that owns it is running: _dispatch's     *)
(* "only the task that owns the session lock may publish the active mid-turn  *)
(* injection queue", and its owner-only cleanup in the finally block.         *)
TurnsExclusive ==
    \A s \in Sessions :
        /\ \A m, n \in {x \in Msgs : SessionOf[x] = s /\ phase[x] \in Working} : m = n
        /\ owner[s] # NoMsg => SessionOf[owner[s]] = s /\ phase[owner[s]] \in Working
        /\ owner[s] = NoMsg => pending[s] = <<>>

(* An automation turn is never injected into a turn in progress, not even    *)
(* when it continues a goal and its continuation sits in the pending queue.   *)
AutomationNeverInjected ==
    \A m \in Msgs : KindOf[m] = "auto" => status[m] # "injected"

(* Where a message is kept until it is dealt with.                           *)
Holders(m) ==
    LET s == SessionOf[m] IN
    (IF m \in ToSet(bus) THEN {"bus"} ELSE {})
    \union (IF m \in ToSet(pending[s]) THEN {"pending"} ELSE {})
    \union (IF m \in ToSet(deferred[s]) THEN {"deferred"} ELSE {})
    \union (IF phase[m] \notin {"none", "continuing"} THEN {"task"} ELSE {})
    \union (IF stopping = m THEN {"run"} ELSE {})

(* Wherever messages are handed from one holder to the next (bus, pending     *)
(* queue, deferred list, task), an open message has exactly one holder and a  *)
(* message that was dealt with has none: none is lost, none is run twice.     *)
OneHolderPerMessage ==
    /\ IsInjective(bus)
    /\ \A s \in Sessions : IsInjective(pending[s]) /\ IsInjective(deferred[s])
    /\ \A m \in Msgs : Cardinality(Holders(m)) = IF status[m] = "open" THEN 1 ELSE 0

(* A session's deferred turns always have someone who will publish the next  *)
(* one: the turn in progress, or an automation turn already on its way.       *)
DeferredHasPublisher ==
    \A s \in Sessions : deferred[s] # <<>> =>
        \/ owner[s] # NoMsg
        \/ \E m \in Msgs : /\ SessionOf[m] = s /\ KindOf[m] = "auto"
                           /\ m \in ToSet(bus) \/ phase[m] # "none"

-----------------------------------------------------------------------------
(* Action properties                                                         *)

(* A /stop unwinds tasks of its own session only, and no task is cancelled   *)
(* without a /stop.                                                           *)
StopStaysInSession ==
    [][\A m \in Msgs : status'[m] = "cancelled" /\ status[m] # "cancelled" =>
           stopping # NoMsg /\ SessionOf[m] = SessionOf[stopping]]_vars

-----------------------------------------------------------------------------
(* Liveness                                                                  *)

(* Whoever submitted an automation turn eventually learns how it ended.      *)
AutomationTurnReported ==
    \A m \in Msgs : waiter[m] = "waiting" ~> waiter[m] # "waiting"

(* Every accepted message is eventually answered, injected or rejected.      *)
EveryMessageHandled ==
    \A m \in Msgs : status[m] = "open" ~> status[m] # "open"

-----------------------------------------------------------------------------
(* The mailbox this implements: the turn in progress is the working task.    *)
Serving == [s \in Sessions |->
    IF \E m \in Msgs : SessionOf[m] = s /\ phase[m] \in Working
    THEN CHOOSE m \in Msgs : SessionOf[m] = s /\ phase[m] \in Working
    ELSE NoMsg]

Mailbox == INSTANCE SessionMailbox
    WITH serving <- Serving, Absorbable <- {m \in Msgs : KindOf[m] \in {"user", "system"}}

(* Every behaviour of the dispatcher is one of the mailbox: messages are     *)
(* served one at a time per session, by a turn that began and ended once,     *)
(* and only user and system messages are absorbed by another turn.            *)
ImplementsMailbox == Mailbox!Spec
=============================================================================
