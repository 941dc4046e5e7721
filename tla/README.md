# Ruiclaw: TLA+ models, checks and proofs

Ruiclaw is a personal agent. A gateway process receives messages from chat channels, runs one agent
turn per message, and starts turns by itself: on a schedule (cron), when a local command fires a
trigger, when a goal needs another round. Almost everything runs as tasks of one asyncio event loop,
and the state that must outlive the process is a set of files. This directory models the parts whose
correctness depends on the order in which those tasks, files and failures meet.

Paths below are relative to the repository; `ruiclaw/` is the Python package.

1. [What is here](#what-is-here)
2. [Inventory of the system](#inventory-of-the-system)
3. [AgentDispatch](#agentdispatch-messages-sessions-turns)
4. [LocalTriggers](#localtriggers-the-durable-delivery-queue)
5. [CronService](#cronservice-the-scheduler)
6. [TurnRecovery](#turnrecovery-interrupted-turns)
7. [OutboundDispatch](#outbounddispatch-replies-on-their-way-out)
8. [Where the code and its documents part](#where-the-code-and-its-documents-part)
9. [Proofs](#proofs)
10. [Not modelled](#not-modelled)
11. [Plan](#plan)

## What is here

| module | role |
|---|---|
| `SessionMailbox` | abstract: messages are served one at a time per session, or absorbed by the turn in progress |
| `AgentDispatch` | detailed: `AgentLoop.run`, `_dispatch`, locks, gate, queues, `/stop`, goal continuations, automation turns |
| `MCAgentDispatch` + 4 cfg | instances for TLC |
| `AgentDispatchProofs` | TLAPS proofs about `AgentDispatch`; at its end, that it implements `SessionMailbox` |
| `QueueLemmas` | what the operators on sequences return (used by the proofs) |
| `AtLeastOnceQueue` | abstract: a queue that repeats a delivery only after a fault |
| `LocalTriggers` | detailed: the trigger store's three directories and the runner that empties them |
| `MCLocalTriggers` + 1 cfg, `LocalTriggersProofs` | instances and proofs |
| `CronService` | the job store, its file and journal, the timer, ticks, manual runs, edits |
| `MCCronService` + 3 cfg, `CronProofs` | instances and proofs |
| `TurnRecovery` | one session: its file, the checkpoint of the running turn, the journal of follow-ups, the offer to continue after a restart |
| `MCTurnRecovery` + 3 cfg | instances for TLC |
| `TurnRecoveryProofs`, `RecoveryHistoryProofs`, `RecoveryRowsProofs` | proofs about `TurnRecovery`: the user's requests; types and the latest step; the rows of the history |
| `ChatFeed` | abstract: a chat receives its messages in the order they were published |
| `OutboundDispatch` | detailed: coalescing, slots, per-chat tasks, retries, channels stopped and replaced |
| `MCOutboundDispatch` + 1 cfg, `OutboundProofs` | instance and proofs |

`tlc -config MCX_y.cfg MCX.tla` checks a run, `tlapm M.tla` the proofs of a module.
`PROJECT.json` maps every definition to the lines it was translated from, and lists the runs, the
mutated definitions each property has been seen to reject, the hazards and the findings.

## Inventory of the system

| component | state | operations | talks to | what is hard |
|---|---|---|---|---|
| Agent loop dispatch (`agent/loop.py`, `bus/queue.py`) | inbound bus, session locks, concurrency gate, pending queues, active tasks | consume, route, dispatch, inject, stop, direct call | every sender through the bus; coordinators, runner | interleaving of the consumer, one task per message and cancellations; a message changes hands up to five times |
| Automation turn coordinators (`agent/automation_turns.py`) | futures by turn id, deferred turns by session | submit, defer, complete, release | loop (shared deferred lists); cron and trigger runners wait on it | a future that nobody resolves; a deferred turn that nobody releases |
| Turn runner and goal continuation (`agent/runner.py`, `session/turn_continuation.py`) | iteration, injection cycles, continuation rounds | drain injections, end at the budget, continue | the pending queue of its own session | bounded counters; a task that waits on its own queue |
| Local trigger store and runner (`triggers/`) | triggers.json, inbox/, processing/, failed/, batch in memory | enqueue, claim, deliver, complete, retry, recover, delete | CLI and WebUI write, gateway consumes | crashes between two renames; retries; deletion under way |
| Cron service (`cron/service.py`) | job store in memory, jobs.json, action journal, timer task | tick, run, add, remove, enable, update, start, stop | chat tool, WebUI, other processes, coordinators | edits while a tick awaits a job; failed saves; stale reloads; crashes |
| Cron bound runner (`cron/bound_runner.py`) | run records | turn a due job into a turn | cron, coordinator | outcome of a cancelled or failed turn |
| Turn recovery (`session/recovery.py`) | checkpoints on disk, admission state | record, offer, continue, discard | loop, session manager | crash at any step; a newer request |
| Session manager (`session/manager.py`) | cache, session files, sidecar metadata, follow-up journal | load, save, fork, delete | loop, WebUI, recovery | crash between two files; stale cache |
| WebUI turn coordinator (`session/webui_turns.py`) | status and latency of turns | publish events | runtime events | events out of order |
| Subagents (`agent/subagent.py`) | running background tasks per session | spawn, finish, cancel | bus (system messages) | results after the parent ended |
| Memory, consolidation (`agent/memory.py`, `agent/autocompact.py`) | history files, cursors | append, compact, dream | providers, sessions | cursor against file after a failure |
| Evolution (`agent/evolution.py`) | proposals and their states | propose, approve, apply, roll back | skills, WebUI | protocol sequence, partial application |
| Model providers (`providers/`) | fallback chain, breaker, conversation state | call, retry, fall back | loop | retries, breaker thresholds and time |
| Channels (`channels/manager.py`) | per-channel outbound workers | send, retry, coalesce streams | bus outbound | ordering of stream pieces and retries |
| Runtime events (`bus/runtime_events.py`) | subscribers | publish, await subscribers | loop, WebUI | a subscriber that raises |
| Gateway (`cli/gateway_runtime.py`, `gateway/`) | pid file, tasks | start, stop, restart | everything | order of shutdown |
| Tools (`agent/tools/`) | exec sessions, MCP connections | execute, poll, terminate | loop | process lifetime and time-outs |
| Pairing, run ledger (`pairing/store.py`, `observability/run_ledger.py`) | a JSON or JSONL file each | approve, append | channels, WebUI | expiry; torn lines |
| API, SDK, WebUI, TUI, configuration, CLI | none of their own that matters here | | process_direct, gateway | presentation and conversion |

What makes the modelled components correct:

- *dispatch*: one turn per session at a time; every accepted message is answered, injected, rejected
  or cancelled exactly once; automation turns are kept apart from chat turns and are eventually
  reported to whoever submitted them; `/stop` affects one session.
- *trigger queue*: nothing accepted is lost; nothing settled comes back; repetition needs a fault and
  is bounded.
- *scheduler*: there is always a timer; a due job runs; an occurrence is not run twice; an
  acknowledged edit survives failures and is not undone by a reload.
- *recovery*: what was acknowledged or completed is in the history once, however the turn ended; an
  interrupted turn goes on only when the user says so and never over a newer request.
- *outbound*: each chat is served in order; nothing is dropped for lack of room; no slot leaks; no
  send uses a channel that was stopped.

`PROJECT.json` lists the hazards line by line, with the properties that watch each of them.

## AgentDispatch: messages, sessions, turns

**State.** `bus` is `MessageBus.inbound`. `phase[m]` is where the task `_dispatch(m)` stands:
created and not started, waiting for the session lock, for the gate, in its turn. `lockQ` and
`gateQ` are the FIFO waiters of `asyncio.Lock` and `asyncio.Semaphore`; the head of `lockQ[s]` and
the first `MaxConcurrent` of `gateQ` hold them. `owner[s]`/`pending[s]` are the entry of
`_pending_queues` and its contents, `deferred[s]` the deferred automation turns, `waiter[m]` the
coordinator's future, `cancelled` the tasks with a CancelledError on its way, `stopping` the `/stop`
run() is executing.

**Actions.** Each is the code between two suspension points: the branches of `run()` in the order
the code tests them (`DropOrphan`, `BeginStop`/`FinishStop`, `AnswerInline`, `Defer`,
`RouteToPending`, `SpawnTask`), then the life of a task (`StartTask`, `QueueAtGate`, `BeginTurn`,
`Drain`, `ReachBudget`, `ContinueGoal`, `EndTurn`, the three `Unwind...`) and of `process_direct`
(`CallDirect`, `BeginDirect`, `EndDirect`).

**Decisions.**

- The `finally` block of `_dispatch` is one action: the handlers it awaits (`delivery.idle`,
  `complete`) do not suspend, so no other task sees it half done.
- `WaitForSuspends` is whether `asyncio.wait_for` yields when the bus already has a message: it does
  on Python 3.11 and does not from 3.12 on. pyproject.toml allows 3.11 and later, the Dockerfile
  uses 3.12. It decides whether run() can consume a `/stop` before the task it created one message
  earlier has run its first line; both values are checked.
- A goal's continuation carries the metadata of the message it continues, so it keeps the id of that
  message, which stays open until a slice ends without continuing.
- `/stop` finishes by draining a queue. All cancelled tasks have released theirs by then, so the
  queue it finds is empty or absent; `FinishStop` still does what the code does.
- The model, its tools and the text of replies are an interval in which the turn may inject.

**Runs.**

| run | instance | shows | size |
|---|---|---|---|
| `stop` | 2 sessions, 3 chat messages, `/stop`, an automation turn, a goal, gate of 1, queue of 1 | the five safety properties and the refinement of `SessionMailbox` under every order of stop, cancellation and release | 212k states |
| `kinds` | all four kinds of message, priority and inline commands, a temporary session, `/stop`, a gate of 1, Python 3.11's wait_for | a deferred turn always has a publisher, `/stop`, direct calls and system messages included | 506k |
| `live` | 2 sessions, 2 automation turns, goal, gate of 1, queue of 4 | every message handled, every automation turn reported and released | 45k |
| `stopwait` | see [below](#where-the-code-and-its-documents-part) | a violation | |

*Bounds.* Two sessions are enough to show that sessions do not interfere except through the gate;
a gate of one makes them compete. `QueueCap` 1 (20 in the code) makes the full-queue branch
frequent; one injection per drain and one cycle make both limits bite. Messages never repeat, so
each run is finite without a state constraint.

*Fairness.* `WF` on `RunLoop` and on each `TaskStep(m)`: the event loop runs every ready task, locks
and semaphores are FIFO (modelled), and a turn ends because model calls and iterations are bounded.
Nothing obliges a sender to send or a user to stop. `live` has room in the pending queue and no
`/stop`: with a `/stop` its first property is false, as the violation run shows, and with a full queue both
are (a goal turn waits on its own queue, [below](#where-the-code-and-its-documents-part)).

## LocalTriggers: the durable delivery queue

**State.** The three directories are sets of deliveries (`inbox`, `processing`, `failedDir`) with
the attempts recorded in each file (`inboxTries`, `procTries`); deliveries are numbered in the order
of their file names, which is the order they are claimed in. `runner` and `batch` are the memory of
`run_local_trigger_queue`; `trigger[t]` is the entry of triggers.json. `fate` and `ran` are history.

**Actions.** The store's operations, each under its file lock, and the runner's loop branch by
branch. A crash is possible between any two file operations: `CrashInClaim` after some of the renames
of a batch, `CrashInRetry` between writing the new copy and unlinking the old, `CrashInDelete` between
two unlinks, `Crash` anywhere else, `Interrupt` for a shutdown that cancels an awaited turn.

**Run.** `queue` (3 deliveries over 2 triggers, one of them on a channel that is down, batches of 2,
3 attempts, 3 faults: enough to exhaust one delivery's attempts while others are claimed and waiting;
107k states) checks the safety properties, that the files implement `AtLeastOnceQueue`, and, under
`WF_vars(Runner)`, that every accepted delivery is settled: the gateway is restarted and an awaited
turn ends. Faults are finite, since a gateway that crashes for ever settles nothing.

**Left out.** Renaming a trigger, `.bad` files, a corrupted triggers.json, the command-line process
dying in the middle of a delete, and the death of the runner task by an exception raised while it
handles another.

## CronService: the scheduler

**State.** `mem`, `dirty`, `running`, `timer` are the fields of `CronService`; `file` and `journal`
are jobs.json and action.jsonl. `task[t]` is a timer task: asleep, or awaiting `on_job` for one
occurrence with the rest of its due list, possibly with a cancellation on its way. `manual[r]` is a
`run_job` call. `_active_executions` is not a variable: it is the number of tasks and calls in flight.
A job is reduced to `enabled`, its schedule (one time, or an interval), `drop` (delete_after_run) and
its next run. `hung` are the ticks whose `on_job` waits for a turn nobody will report. `known`, `removed`,
`volatile`, `lost`, `fired` and `excused` are history: `volatile` the jobs with journal lines that only memory has, because the
save of the merge that took them over raised; `lost` those whose acknowledged edit was in no file when a process ended.

**Actions.** A tick is cut at its awaits: `TickStarts` is everything from waking up to the first
await of the first due job, `NextJob` from the end of one job to the start of the next, `TickEnds` the final
save and the `finally`, `TickCancelled` the delivery of a CancelledError. `TickFlushes`, `TickIdles`
and `TickMergeFails` are the ticks that run nothing. The edits (`AddJob`, `RemoveJob`, `EnableJob`,
`DisableJob`, `UpdateJob`, which may store another schedule of another kind) are single actions with the load they begin with, the save that may raise and the re-arming
of the timer; an instance that does not own the store appends to the journal instead, and so does
another process (`ExternalAdd`, `ExternalRemove`).

**Decisions.**

- Time is a small clock. A timer may wake at any time, not only when a job is due: `max_sleep_ms`
  makes it wake in between, and a late wake-up is always possible.
- Jobs due in one tick run in any order (the code's order is that of the file).
- A CancelledError reaches a session-bound job before the new timer wakes: `submit` awaits the future
  itself and nothing after it suspends. A system job (`process_direct`) awaits while it unwinds;
  such jobs are in `SlowUnwind`, and the tick that replaces theirs may begin to run.
- `Offers[j]` are the schedules a job may have. The chat tool adds any of them, a past time too; the WebUI sends
  the one the job has, or another whose time is ahead, and with it delete_after_run. `update_job` recomputes the
  next run either way. A cron expression counts as an interval.
- `Hang`: the future in `submit` is resolved by `complete` alone, and there is no time-out around it. A `/stop` that meets
  the turn at the lock or the gate resolves nothing (the violation `stopwait`), nor does a turn whose text is a
  priority command or whose session is stuck, so a tick may wait for ever. A cancellation by an edit still ends the wait.
- An edit whose save raised enters neither `known` nor `removed`: its caller got the exception. The lines of a journal
  were acknowledged when they were written, so what a merge takes over without saving counts.

**Runs.**

| run | instance | shows | size |
|---|---|---|---|
| `edits` | a recurring job of one or two instants and one that is one-shot or recurs, 4 edits or manual runs, rescheduling, a failed save, a process end between or inside steps, ticks that hang, 2 instants, no slow job | acknowledged edits survive but for the `lost` ones, only a new schedule takes a next run back, an occurrence repeats only after a cancelled tick, a due job runs, is edited away, the service stops, or a tick hangs | 624k |
| `slow` | the recurring job is slow to unwind, a kept one-shot job with two times and an interval, manual runs, failed saves, `stop`, a crash in a merge | exactly one live timer while the service runs; a removed or paused recurring job is not started by a tick | 1.14M |
| `twice` | see below | a violation | |

*Bounds.* Four edits are enough to have one in flight with a manual run, an external one and a
second edit; two or three task slots leave one or two interrupted ticks behind the live one. One
failed save and one restart reach every use of the dirty flag and of the journal.

*Fairness.* `WF` on each timer task: its sleep is finite, a turn that begins ends, since its iterations are bounded, and
then the event loop resumes the tick. Nothing else is owed: a tick may hang (`Hang`, which `DueJobsRun` excepts while it
lasts), a manual run may wait for ever, a process that went down may stay down, and nobody is obliged to edit.

*What these runs assume.*

- `slow`: `StartsOnlyEnabled` is about recurring jobs. A manual run of a one-shot job does not take it
  out of a due list, which may run it once more; and a removal whose save raises was not
  acknowledged, so a job it names may run.
- `edits`: a cancelled job unwinds at once. With a job in `SlowUnwind`, TLC finds a cycle against
  `DueJobsRun`: the cancelled tick re-arms the timer when it is done, which cancels the tick that
  replaced it, which does the same to its successor. Each unwinding must outlast the start of the next
  run for that.
- `edits`: `EditsSurvive` excepts `lost`. `_merge_action` empties the journal before it saves the store that holds its
  actions. If the process dies between the two, or the save raises and the process ends before any other save
  succeeds, the edits of another process are gone although each was acknowledged. The property says that
  nothing else is lost: no edit of this process whose save succeeded, no line still in the journal, no line whose merge
  was saved, and no line a later save made good.
- `edits`: nobody calls `stop`. A tick that stop() or a slow predecessor cancels has not saved the jobs it finished,
  and a stopped instance whose last save failed journals a whole record for an edit: there `EditsSurvive` is false.
- `edits`: `DueJobsRun` excepts the time a tick hangs. All other due jobs wait behind that tick, as they do in the code.

## TurnRecovery: interrupted turns

One WebUI session. `session/recovery.py` works on the session that `session/manager.py` caches and
writes, while `agent/loop.py` and `agent/runner.py` advance a turn of it; the model takes from each
what recovery depends on.

**State.** `mem` is the cached `Session`: its rows, the `pending_user_turn` flag, the runtime checkpoint, the
recovery state and the follow-up journal of its metadata. `disk` is the JSONL file and `side` the checkpoint
sidecar, which a load lays over it (`Loaded`) unless the file is newer. `bus`, `fresh`, `waiting` and
`turn` are the places of a message from publication to its turn; `queue` is the pending queue of the turn;
`tail` is whether the display transcript ends in a `turn_end`. Rows are reduced to what they are: a
message of the user, the k-th step of turn n (calls, results, made-up results, an answer), a closing note.
`consent`, `journaled`, `dropped` and `latest` are history.

**Actions.** `Send` and the branches of run() (`Spawn`, `FollowUp`, `Overtake`, `Refuse`) with `admit`
inside them; `StartTask`, which admits again; a turn cut at its awaits, each with the checkpoint the runner
saves there (`BeginTurn`, `CallTools`, `FinishTools`, `Answer`, `Commit`, `EndTurn`, `TurnRaises`); `Stop`;
the two answers of the user (`Continue`, `Dismiss`); `Crash` and `Shutdown` at any point and `Start`, which is the scan
branch by branch (`Recovered`). `WriteHandle` is the metadata rewrite of a session's first turn and
`WriteTurnEnd` the outbound side catching up.

**Decisions.**

- A save is atomic (the code writes a temporary file and renames it), so a crash leaves the file before or
  after it, and the file and its sidecar are two writes.
- The cancellation of a running continuation by a newer message unwinds within the action that causes it:
  admit awaits the cancelled task before it goes on.
- `AnyDismiss`: the API accepts a dismissal of any recovery with the right id; the page offers it only
  while the recovery awaits the user. The main run keeps to the page.

**Runs.**

| run | instance | shows | size |
|---|---|---|---|
| `recovery` | 3 messages, one tool round per turn, a queue of 1, one confirmed continuation, any 2 of crash, shutdown, `/stop`, failure, metadata rewrite | nothing acknowledged is lost, nothing is twice in the history, calls have results, unanswered requests are marked, the last completed step survives, newer requests win, a continuation needs a consent; follow-ups and recoveries settle | 423k |
| `rounds`, `dismiss` | see below | violations | |

*Bounds.* Three messages are a turn, a follow-up in the queue and one that finds it full, or a turn, its
interruption and a newer request. Two faults are a crash during the recovery from a crash. With two tool rounds
the invariants were also checked (1.9M states); the run keeps one, so that the liveness properties fit.

*Fairness.* The event loop runs every ready task, a turn ends because its rounds are bounded, and
a gateway that went down is started again. The user sends, continues and dismisses at will.

**What the model shows beside its properties.**

- The scan puts journaled follow-ups on the bus right behind the offer it makes; when one is admitted it
  supersedes the offer, and the model runs before the user has decided anything.
- A metadata rewrite makes the session file newer than the sidecar: a crash before the next checkpoint
  loses the live one. `LatestStepSurvives` excepts exactly this.
- `/stop` before the first checkpoint leaves the pending flag set, so a turn the user stopped is offered
  for continuation after a restart.
- A follow-up that a turn took before it was stopped or raised stays in the journal until the next
  restart: it is durable and not answered (`dropped` in `FollowupsHandled`).
- A continuation that was admitted and waits for the lock runs although it is dismissed meanwhile, which
  takes `AnyDismiss`; after a `/stop` of a continuation the status stays "resuming" until the next message.

## OutboundDispatch: replies on their way out

**State.** `bus` is `MessageBus.outbound`, `held` the message the coalescer read beyond the end of a
stream, `hand` the one that waits for a slot. `tasks` are the scheduled sends, each with its number, the task of the
same chat it waits for (`prev`), and where it stands; `tails`, `slots`, `sends`, `prints` are the fields of the
manager. `chan`, `live`, `born` are the registered, running and created instances of each channel,
`stopping` and `ops` the feature actions under way. `got`, `sent`, `lost`, `fault` are history.

**Actions.** `Take` is one turn of the dispatcher's loop up to its next await: coalescing, suppression of
a repeated reply, lookup of the channel, a slot or the wait for one (`Grant`). A task runs `Begin`,
`SendOk`, `SendFails` (the channel raised, whether or not the message arrived), `Retry`, or `Unwind`
when cancelled, at any await. `FeatureAction`, `StopRuntime`, `FinishAction` are a channel being enabled or disabled from the
settings page, cut at the wait for its sends and at `channel.stop()`; `StopDispatcher` and `StopChannels` are `stop_all`.

**Run.** `outbound` (a stream of three pieces in one chat and a reply that is published twice in another, on
two of three channels, two slots, two permits, two tries, one failing send, one feature action or
shutdown at any point; 256k states) checks the
invariants, that every chat's view implements `ChatFeed`, and that every message settles while the dispatcher runs.

**What it implements.** In `ChatFeed` a chat has the numbers of the messages published for it, the set of those still to come
and what it has received; pending messages that are next to each other may be lost, and the first ones are served together, perhaps
twice. The mapping takes for the pending numbers those in tasks, in the dispatcher's hands and on the bus (`OnTheWay`).
A retry after a send that did arrive is the second service of the same numbers; a message that is refused, given up or cancelled is a loss; joining,
waiting for a slot and every feature action are stutters.

*Bounds.* Two slots make the dispatcher wait with a message in hand while an action replaces its channel.
The limits 256 and 32 are constants of the model. With two chats two permits never bind; the
run with one permit (237k states) passes as well and only differs there. Two failing
sends, and two actions one after the other, were checked for safety outside the run (1.5M states).

*Fairness.* The dispatcher, the tasks and the feature actions; a send, a delay and `channel.stop()` end.
Nobody is obliged to publish.

**What the model shows beside its properties.**

- Nothing serialises feature actions. With `Overlap = TRUE` and two of them on one channel, the second removes
  the instance the first has just installed and stops the old one again: a started instance is left running and unregistered. The
  order of sends is proved for `Overlap = FALSE` only; a third overlapping action could break it.
- The fingerprint of a reply is remembered when it is queued. If the send is then given up, a second
  publication of the same reply is suppressed although the first never arrived.
- A message in the hand of the dispatcher when `stop_all` cancels it is lost; those on the bus stay there.

## Where the code and its documents part

Each is a run that must find a violation; `PROJECT.json` quotes the document's line.

| run | what happens |
|---|---|
| `stopwait` | `/stop` cancels a task at the lock or the gate; nobody tells the coordinator, whose submitter waits for ever |
| `twice` | any edit re-arms the timer, which cancels the tick awaiting a job; the job's turn is on the bus already, its schedule not advanced, and the next tick runs it again |
| `rounds` | a checkpoint holds one tool round and replaces the one before it; `/stop` in the second round of a turn materializes the checkpoint, and the results of the first are in no history |
| `dismiss` | a dismissal compares the recovery id and not the status: it materializes the checkpoint of a continuation that is running, whose own commit writes the same rows again |

Other behaviours of the code that the models contain and no run asserts, since no document clearly promises
otherwise:

- run() answers a message whose text is a priority command before it asks the coordinators, so an
  automation turn with such a text never completes its future (`AnswerInline`);
- a task cancelled before its first step runs no `finally`; the deferred turn it should have released
  stays in an idle session (`SpawnTask` and `BeginStop` with `WaitForSuspends = FALSE`: Python 3.12
  and later; `DeferredHasPublisher` holds on 3.11 only);
- a goal turn puts its continuation on its own pending queue; when that is full it waits for itself
  (`ContinueGoal` has no successor there), and so does whoever waits for its session;
- recovery counts as an attempt: a delivery interrupted in its last one goes to failed/, not back to
  the inbox (`RecoverOne`);
- a one-shot job whose time passed while the gateway was down is neither run nor deleted (`Start`);
- the action journal is emptied before the merged store is saved, so acknowledged edits of another process are lost when the
  process ends before that save or after it raised (`ExitInMerge`, `Exit`);
- a tick waits for the turn of its job without a time-out: if nobody reports the turn, no other due job runs until an edit
  happens to cancel the tick (`Hang`).

## Proofs

All statements below hold for every value of the constants that satisfies the modules' assumptions
(finite or not, unless said), and are checked by TLAPS to the last leaf.

**AgentDispatch.** `IInv` in `AgentDispatchProofs` is inductive. Its parts: `TaskInv`, `LockInv`,
`GateInv` tie a task's phase to its place in the queues of the lock and the gate, which is what makes
two working tasks of one session impossible; `OwnerInv` ties a published pending queue to
the working task at the head of the lock; `HolderInv` states for each message which of bus, pending
queue, deferred list, task and run() holds it, in a form that each hand-over preserves; `QueuesInv`
says that no queue holds a message twice or one of another session; `StopInv`, `RoundInv`, `AutoInv`
cover `/stop`, goal rounds and automation turns. `TurnsExclusive` alone is not
inductive: it says nothing about who is next at the lock. From `IInv` follow `TypeCorrect`, `OneTurnPerSession`,
`AutomationKeptApart`, `NoMessageLost` and `StopIsLocal`, and in the last part of the module that every
step of the dispatcher is a step of `SessionMailbox` or a stutter (`Refinement`).

`DeferredArePublished` proves `DeferredHasPublisher` where `wait_for` suspends `run()` at every message (Python 3.11, which
`pyproject.toml` admits; on 3.12 it is false, see above) and automations send plain prompts: neither a priority command,
which run() answers before it asks the coordinators, nor a turn of a temporary chat, which no automation
is (only the WebUI and recovery set `require_existing_session`). `PublisherInv` adds to `IInv` that a `/stop` is executed with no task
waiting for its first step, so no task ends without the `finally` that publishes the next turn, and that what
is deferred is of automations.

**LocalTriggers.** `IInv` in `LocalTriggersProofs` adds to the type invariant where a delivery that
was never enqueued is (nowhere), what a batch is (the claimed files), that two copies of one delivery
mean an attempt is left, that attempts never exceed faults, and what cannot be before the first fault.
It gives `DeliveriesSurvive`, `DeliveriesHeldOnce`, `AttemptLimit`, `ExactlyOnceWithoutFaults` and `Refinement` to
`AtLeastOnceQueue`.

**CronService.** `CronProofs` proves every safety property of the runs `edits` and `slow`, for any number of jobs, task
slots, edits, failed writes and restarts.

- *Timer.* `OneTimer` and `TimerAlwaysArmed`, for slow jobs and crashes too: `ArmTimer` is the only step that creates a
  timer task and it disposes of the previous one first; `TimerInv` adds that a stopped service has no
  timer and a dead process no task, without which neither the first timer after a restart nor a tick
  that outlives stop() could be accounted for.
- *Types.* `SchedulerTypes`, by `DataInv`, with no further assumption. It adds what the records in the
  journal are, that only a tick that runs has an occurrence and a due list, and that the executions
  in flight are finitely many: `_active_executions` is a cardinality.
- *Edits.* `AcknowledgedEditsSurvive`, by `JournalInv`, `EditsInv` and `FileInv`. `EditsSurvive` speaks
  of what the next load takes over: memory if it is dirty, else the file, with the journal over it. `EditsInv` adds the same
  of memory while anything executes, because loads then keep the live store and the end of the execution saves
  it over the file; and that a dead process is neither dirty nor executing. `JournalInv`
  keeps the lines of other processes apart from the live store: they add only jobs that memory lacks, and
  each line was acknowledged. `FileInv` says the same of the file alone, with the journal over it, for every job but the
  `volatile` ones: it bounds what the end of a process can lose, and is why only `volatile` and, in a merge, the lines of the
  journal enter `lost`. The theorem assumes that nobody calls `stop`: a stopped instance with a
  dirty store journals a whole record for an edit, which revives a job that another process has removed meanwhile (TLC finds it).
- *Starts.* `RemovedJobsStayQuiet`, with no further assumption: `DueEnabled` says that before the first failed save
  the recurring jobs in the due list of the live tick are enabled in memory. An edit that takes one away cancels
  that tick, and loads keep the live store as long as anything executes.
- *Next runs and repetitions.* `NextRunsGoForward`, about steps that leave a recurring job its schedule (a shorter interval does take
  the next run back), and `RepeatsAreExcused`, about rescheduled jobs too. `Calm` says that no live tick
  is at a job while a cancelled one is still unwinding;
  `Synced`, that memory is the file while it is clean and no live tick is at a job; `ClockInv`,
  that a recurring job is planned at most one interval of its schedule ahead in memory, file and journal. For repetitions `PastInv`
  and `AheadInv` say that what has been started or taken into a due list is past, and that a line
  for its job plans a later run; `OnceInv`, that an occurrence started and not excused is planned only
  while its own tick is at it. Both theorems assume `SlowUnwind = {}` and need it: with a slow job, TLC finds that a
  cancelled tick which unwinds late re-arms the timer, cancels the tick that replaced it, and leaves in memory
  results that are not in the file and not marked dirty, which the next load rolls back.

`_merge_action` is written as its effect (`Replay`: for each job the last line that names it decides) and not as a fold, so that the provers
can reason about it; TLC found both forms equal for the file, the memory and the journal of every reachable state of these instances.

**TurnRecovery.** `IInv` in `TurnRecoveryProofs` is `Shape /\ DurableInv /\ RequestInv`. `DurableInv`
says of memory and file alike that a follow-up that was journaled is in the journal or in the rows, and that nothing in the
journal is dropped by materializing, closing or committing; what makes it inductive is that an
entry leaves the journal only in the step that writes its row, and that the sidecar carries a checkpoint and never a
journal. It gives `FollowupsSurvive`. `RequestInv` follows a message of the user from its admission
to its turn: once admitted and waiting, no status brings an older turn back before it runs, because only a
restart makes an offer and a restart empties the waiting list. It gives `NewerRequest`.

The second part of the module builds on `IInv`. `MarkInv` gives `NoSilentRequest`: a message of the user that ends the
rows of memory or file has the flag or a checkpoint beside it. It is inductive because each operation
that clears the flag or the checkpoint writes a row behind the message: materializing appends the rows of a
checkpoint, which never end in a message of the user, or the row of the interruption; a turn commits
once its rows end in the answer (`AnsweredInv`). `ConsentInv` gives `ConsentNeeded`: at most one continuation is in
flight over bus, lock and turn, it belongs to the current recovery and to a confirmation; there is none
while that recovery is on offer or after it began, and an admitted one finds its recovery "resuming". The theorem
assumes `~AnyDismiss`: a dismissal while the admitted continuation waits for the lock
compares the recovery id only and leaves the continuation to run.

`RecoveryHistoryProofs` adds `TypeInv`, from which `TypeOK` follows, and `LatestInv`, which gives
`LatestStepSurvives`: the model or tool step completed last is in memory and in what a restart would load, among the rows
or in the checkpoint. Its point is the moment between the answer and the commit, when the checkpoint is all that
holds the steps of the turn and the turn's own rows must end in the answer; every operation on a session is
shown to keep its content (rows and checkpoint rows together), be it materializing, restoring or closing.

`RecoveryRowsProofs` proves `RowsOnce` and `CallsHaveResults` by `HistInv`. `SessInv` says of the file, of
what a restart loads and of memory that no row but that of an interruption is there twice, that each call is followed by its
result, real or synthesized, that none of the rows is of the checkpoint's turn, and that none is
of a turn not yet begun. `OutInv` says that the steps of the turn in progress are not in the file's
history before it commits and that each is there once, with calls paired up to the result that is awaited. `UserInv` says that
a message of the user is in exactly one place: the bus, one task, the pending queue, the rows of the turn or the
history; without it an append of a follow-up could repeat a row. Both theorems assume
`~AnyDismiss`, as `ConsentNeeded` does, and need it: a page that dismisses a recovery while its continuation runs
materializes the checkpoint of that turn, and the commit of the turn appends the same rows again (TLC finds
`RowsOnce` violated in the instance of `recovery` with `AnyDismiss = TRUE`).

**OutboundDispatch.** `OutboundProofs` proves `NoSlotLeaks` for all constants from `CountInv` and the finiteness of the
set of tasks, by the cardinality of each task set before and after a step. `ChatInOrder` and
`LiveInstance` assume `~Overlap`. Their argument: tasks are known by their number; a task that has an
earlier one of its chat is waiting and, unless cancelled, it waits for the latest of them (`OrderInv`); the tasks of a chat are cancelled
together, and a channel with cancelled tasks takes no new ones, so a cancelled gap in the chain is never overtaken; a runtime is stopped only when the tasks its action waits for are
gone (`ChannelInv`). With overlapping actions the last two parts fail, since an action that ends
takes its channel off `stopping` while another still waits for its tasks.

The second part follows the messages themselves. `LineInv` says that what is set aside by the coalescer and what is on the bus
form, for each chat, the last numbers published, in order and without a gap; it is what makes the
"first message that does not belong" harmless. With `PieceInv`, that everything in hand, in a task or received is made of
consecutive parts of one stream, it gives `JoinedPartsFollow`, and with the types of tasks, channels and the message in hand
`OutboundTypes`. `NothingElseDropped` comes from `CalmInv`: until the first fault no action is under way, no task is cancelled, the instance
resolved for the message in hand is still registered, and a channel without instance is one that is not enabled;
and from `PrintInv`: each fingerprint was left by a text published before anything still in line, so a suppressed reply is a
repetition. These hold with overlapping actions as well.

`ServesInOrder` proves the refinement of `ChatFeed`. `AheadInv` orders what is under way: a task's parts come before those of any later task of its chat, these
before the message in hand, and that before the line. With `OrderInv` a task that sends is
the first of its chat, so its parts are the first pending ones and serving or giving it up is a step of the feed;
`WayInv` says that no number is in two places, so removing one task removes exactly its numbers. It assumes `~Overlap`, as the order of sends does.

**Only model-checked.** Everything under fairness (liveness cannot be proved with these tools) and the
violations. Each invariant and each action property the runs check is stated by a theorem.

## Not modelled

Within the modelled components:

- *dispatch*: `/new`, `discard_session`, `/compact`, the user shell, `aclose` and exceptions that end
  `run()`; `submit` on a stopped loop. Recovery admission is in `TurnRecovery`, for one session.
- *scheduler*: cron run records, legacy payload migration, corrupt stores, unbound jobs, system-job
  registration at start-up, and edits by a second process other than add and remove (the command line
  offers no others).
- *recovery*: peer, system and automation turns in the same session, the status "failed", unknown or
  damaged checkpoints, the workspace snapshot and provider state, eviction from the session cache,
  the limit of injections per drain and inline commands.
- *outbound*: discovery and construction of channels, a channel that fails to start (start is
  immediate), the restart notice (it bypasses the queue), the size of the fingerprint cache. On Python 3.11 `asyncio.wait_for` can swallow a
  cancellation that arrives together with a message; `stop_all` would then wait for a dispatcher that goes on (from 3.12 on it
  cannot), and so would an enclosing shutdown: `StopDispatcher` takes the cancellation as delivered. The
  end of a task and its callback `finished` are one step.

The remaining components and
the reason each is left out are in `PROJECT.json`. Most of the repository's lines are network
channels, wire formats of model providers, prompts, settings forms, installers and
presentation: I/O and conversion without concurrent state, which stay out for good. So the share of lines the models
cover is small, and what they cover is the part where order and failure decide.

## Plan

In order of what matters most to a user:

1. Done: `AgentDispatch`, `SessionMailbox`, `LocalTriggers`, `AtLeastOnceQueue`, `CronService`,
   `TurnRecovery`, `OutboundDispatch`, `ChatFeed`, their runs and proofs.
2. `AgentDispatch` completed: `/new`, `discard_session`, `aclose` and the end of run().
3. `CronDispatch`: the scheduler's `on_job` composed with the coordinator and an abstract loop, to relate
   `twice` to turns on the bus and cancelled submitters to run records.
4. `CronService`: system jobs, an abstract specification of the job book and its refinement.
5. `SessionStore`: cache, session file and eviction under crashes, forks and deletion.
6. `FallbackBreaker`: thresholds and half-open probing with a clock; `Subagents`: results after the
   parent; `ExecSessions`.
7. `Evolution`, `Consolidator`, `PairingStore`, `RunLedger` as small sequential models.
