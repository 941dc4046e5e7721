---------------------------- MODULE TurnRecovery ----------------------------
(***************************************************************************)
(* Crash recovery of the turns of one WebUI session                        *)
(* (src/ruiclaw/session/recovery.py, with the parts of agent/loop.py,      *)
(* agent/runner.py and session/manager.py it relies on): the session in    *)
(* memory, its file and the checkpoint sidecar beside it, the turn that    *)
(* runs, the journal of the follow-ups sent while it runs, and the offer   *)
(* to continue an interrupted turn that a restarted gateway makes.         *)
(*                                                                         *)
(* All of it shares one event loop; an action is the code between two      *)
(* awaits that let another task run.                                       *)
(***************************************************************************)
EXTENDS Naturals, FiniteSets, SequencesExt

CONSTANTS
  QueueCap,     \* asyncio.Queue(maxsize=20) of a running turn
  AnyDismiss,   \* may a page dismiss a recovery that is not waiting any more?
  MaxUsers,     \* bound: messages the user sends
  MaxSteps,     \* bound: tool rounds and answers of one turn
  MaxContinues, \* bound: clicks on Continue
  MaxFaults     \* bound: /stop commands, turns that raise, rewrites of the
                \* file's first line, crashes and shutdowns, taken together

ASSUME RecoveryAssumption ==
  /\ {QueueCap, MaxUsers, MaxSteps, MaxContinues, MaxFaults} \subseteq Nat
  /\ AnyDismiss \in BOOLEAN

VARIABLES
  up,       \* the gateway runs
  mem,      \* the cached Session
  disk,     \* its JSONL file
  side,     \* the checkpoint sidecar, while it counts
  bus,      \* MessageBus.inbound
  fresh,    \* tasks created and not started
  waiting,  \* tasks admitted that wait for the session lock and the gate
  turn,     \* the turn that holds them
  queue,    \* its pending queue
  tail,     \* end of the display transcript: "closed", "open", or "ending"
            \* when its turn_end is not written yet
  sent,     \* messages sent so far
  turns,    \* turns begun so far
  offers,   \* recovery ids handed out so far
  consent,  \* history: the confirmed continuations that have not begun
  journaled,\* history: the follow-ups that were acknowledged to the sender
  dropped,  \* history: what a /stop, a failure or a newer message cancelled
  latest,   \* history: the last completed step of the last turn
  budget    \* actions used of each bounded kind

vars == <<up, mem, disk, side, bus, fresh, waiting, turn, queue, tail,
          sent, turns, offers, consent, journaled, dropped, latest, budget>>
files   == <<disk, side>>
tasks   == <<bus, fresh, waiting>>
counts  == <<sent, turns, offers>>
history == <<consent, journaled, dropped, latest>>

User(i) == [kind |-> "user", id |-> i]
Cont(k) == [kind |-> "cont", id |-> k]  \* RECOVERY_INBOUND_METADATA_KEY: k
Msg     == [kind : {"user", "cont"}, id : Nat]

\* Rows of the conversation: a user message, the k-th step of turn n (an
\* assistant row with tool calls, their results, results made up for calls
\* that did not finish, an answer), and the note that closes a turn.
Closed == <<"closed">>
Row == {Closed} \cup ({"user"} \X Msg)
         \cup ({"call", "result", "broken", "answer"} \X Nat \X Nat)

\* runtime_checkpoint: the phase and the one step it describes.
NoChk == <<>>
Chk   == {NoChk} \cup ({"awaiting_tools", "tools_completed", "final_response"}
                         \X Nat \X Nat)

NoOffer == [status |-> "none", id |-> 0, can |-> FALSE, count |-> 0]
Offer   == [status : {"none", "resuming", "awaiting_user", "recovered"},
            id : Nat, can : BOOLEAN, count : Nat]

\* Session: messages, pending_user_turn, runtime_checkpoint, webui recovery
\* state and pending_followups of its metadata.
NewSession == [rows |-> <<>>, pend |-> FALSE, chk |-> NoChk,
               rec |-> NoOffer, jnl |-> {}]

Idle == [msg |-> User(0), n |-> 0, k |-> 0, at |-> "idle", out |-> <<>>]
Active == turn.at # "idle"

Spend(field) == budget' = [budget EXCEPT ![field] = @ + 1]
Fault(field) ==
  /\ budget.stops + budget.fails + budget.handles + budget.downs < MaxFaults
  /\ Spend(field)

----------------------------------------------------------------------------
(* Operations on a session                                                 *)

\* Mutant: calls that did not finish are restored without a result.
CallsOnly(c) ==
  IF c = NoChk THEN <<>> ELSE
  CASE c[1] = "awaiting_tools"  -> <<<<"call", c[2], c[3]>>>>
    [] c[1] = "tools_completed" -> <<<<"call", c[2], c[3]>>, <<"result", c[2], c[3]>>>>
    [] OTHER                    -> <<<<"answer", c[2], c[3]>>>>

\* The rows restore_runtime_checkpoint makes of a checkpoint: calls that did
\* not finish get an error as their result and are never executed.
ChkRows(c) ==
  IF c = NoChk THEN <<>> ELSE
  CASE c[1] = "awaiting_tools"  -> <<<<"call", c[2], c[3]>>, <<"broken", c[2], c[3]>>>>
    [] c[1] = "tools_completed" -> <<<<"call", c[2], c[3]>>, <<"result", c[2], c[3]>>>>
    [] OTHER                    -> <<<<"answer", c[2], c[3]>>>>

\* How many of the restored rows the history ends with already.
Overlap(rows, more) ==
  Max({0} \cup {s \in 1 .. Len(more) :
                  s <= Len(rows) /\ IsSuffix(SubSeq(more, 1, s), rows)})

\* Mutant: the checkpoint is kept after it was materialized.
KeepCheckpoint(s) == [s EXCEPT !.rows = @ \o ChkRows(s.chk), !.pend = FALSE]

\* restore_runtime_checkpoint
RestoreChk(s) ==
  IF s.chk = NoChk THEN s
  ELSE [s EXCEPT !.rows = @ \o SubSeq(ChkRows(s.chk), Overlap(@, ChkRows(s.chk)) + 1,
                                      Len(ChkRows(s.chk))),
                 !.pend = FALSE, !.chk = NoChk]

EndsWith(s, kinds) == s.rows # <<>> /\ Last(s.rows)[1] \in kinds

\* Mutant: the flag is cleared, the row of the user stays without an answer.
ForgetPending(s) == [s EXCEPT !.pend = FALSE]

\* restore_pending_interruption: close a turn of which only the input is known.
RestorePending(s) ==
  IF ~s.pend THEN s
  ELSE [s EXCEPT !.rows = IF EndsWith(s, {"user"}) THEN Append(@, Closed) ELSE @,
                 !.pend = FALSE]

\* append_recovery_interruption
AppendInterruption(s) ==
  IF EndsWith(s, {"closed", "broken"}) THEN s
  ELSE [s EXCEPT !.rows = Append(@, Closed)]

SetStatus(s, status) == [s EXCEPT !.rec.status = status]

\* admit for a message of the user: it closes the turn on offer.
Supersede(s) ==
  LET r == RestoreChk(s) IN
  SetStatus(IF r.pend THEN RestorePending(r) ELSE AppendInterruption(r), "recovered")

\* The elements of q at the places in the set places, in order.
Picked(q, places) ==
  [j \in 1 .. Cardinality(places) |->
     q[CHOOSE i \in places : Cardinality({h \in places : h <= i}) = j]]

\* _save_turn skips a result whose call has one in the history already.
Saved(rows, out) ==
  LET had == {<<r[2], r[3]>> : r \in {x \in ToSet(rows) : x[1] \in {"result", "broken"}}} IN
  Picked(out, {i \in DOMAIN out : out[i][1] = "result" => <<out[i][2], out[i][3]>> \notin had})

\* acknowledge_pending_followups: entries whose user row is being committed.
Unacked(s, rows) == {x \in s.jnl : <<"user", x>> \notin ToSet(rows)}

\* _persist_turn
CommitTurn(s, out) ==
  LET rows == Saved(s.rows, out) IN
  [s EXCEPT !.rows = @ \o rows, !.jnl = Unacked(s, rows), !.pend = FALSE, !.chk = NoChk]

\* Mutant: the recovery stays in progress.
ResolveNothing(s) == s

\* turn_completed: whatever turn completes resolves a recovery in progress.
Resolve(s) == IF s.rec.status = "resuming" THEN SetStatus(s, "recovered") ELSE s

----------------------------------------------------------------------------
(* The files                                                               *)

\* SessionManager.save: the whole record, and the sidecar is removed.
Save(s) == mem' = s /\ disk' = s /\ side' = NoChk

\* Mutant: the checkpoint is kept in the cached session only.
CheckpointInMemory(c) == mem' = [mem EXCEPT !.chk = c] /\ UNCHANGED files

\* save_runtime_checkpoint
SaveCheckpoint(c) ==
  /\ mem' = [mem EXCEPT !.chk = c]
  /\ side' = c
  /\ UNCHANGED disk

\* _overlay_runtime_checkpoint_unlocked: what a load sees.
Loaded == IF side = NoChk THEN disk ELSE [disk EXCEPT !.chk = side]

----------------------------------------------------------------------------
(* Messages                                                                *)

\* A message of the user reaches the gateway.
Send ==
  /\ up /\ sent < MaxUsers
  /\ sent' = sent + 1
  /\ bus' = Append(bus, User(sent'))
  /\ tail' = "closed"
  /\ UNCHANGED <<up, mem, files, fresh, waiting, turn, queue, turns, offers, history, budget>>

\* admit: a continuation is valid while its recovery is resuming; a message
\* of the user supersedes a recovery that is on offer or in progress.
Refused(x, s) ==
  x.kind = "cont" /\ ~(s.rec.status = "resuming" /\ s.rec.id = x.id)
\* Mutant: only a recovery on offer is superseded.
SupersedesOffer(x, s) == x.kind = "user" /\ s.rec.status = "awaiting_user"

Supersedes(x, s) ==
  x.kind = "user" /\ s.rec.status \in {"resuming", "awaiting_user"}

\* Mutant: a waiting continuation outlives the message that supersedes it.
KeepWaiting == waiting

\* _cancel_active_recovery: a continuation that waits for the lock is gone at
\* once; one that runs unwinds as for /stop before the message goes on.
OtherWaiting == Picked(waiting, {i \in DOMAIN waiting : waiting[i].kind # "cont"})
CancelsTurn(x) == Supersedes(x, mem) /\ Active /\ turn.msg.kind = "cont"

\* What admitting x makes of the session.
Admitted(x) ==
  IF ~Supersedes(x, mem) THEN mem
  ELSE Supersede(IF CancelsTurn(x) THEN RestoreChk(mem) ELSE mem)

\* Mutant: the pending queue outlives its turn.
ReleaseTurnOnly == turn' = Idle /\ queue' = queue

\* The end of _dispatch: what the turn did not take goes back to the bus.
Release == turn' = Idle /\ queue' = <<>>

Injected == {r[2] : r \in {x \in ToSet(turn.out) : x[1] = "user"}}

\* Mutant: the follow-up is queued and not journaled.
QueueOnly(x) == Save(Admitted(x)) /\ journaled' = journaled \cup {x}

\* record_pending_followup and the save after it: the follow-up is journaled
\* before it is queued.
Journal(x) ==
  /\ Save([Admitted(x) EXCEPT !.jnl = @ \cup {x}])
  /\ journaled' = journaled \cup {x}

\* run() takes a message while no turn owns the session: a task of its own.
Spawn ==
  /\ up /\ bus # <<>> /\ ~Active
  /\ fresh' = Append(fresh, Head(bus))
  /\ bus' = Tail(bus)
  /\ UNCHANGED <<up, mem, files, waiting, turn, queue, tail, counts, history, budget>>

\* run() takes a message while a turn runs: admit it, journal it, put it into
\* the queue, or, when that is full, give it a task of its own.
FollowUp ==
  /\ up /\ bus # <<>> /\ Active
  /\ ~Refused(Head(bus), mem) /\ ~CancelsTurn(Head(bus))
  /\ Journal(Head(bus))
  /\ IF Len(queue) < QueueCap
     THEN queue' = Append(queue, Head(bus)) /\ UNCHANGED fresh
     ELSE fresh' = Append(fresh, Head(bus)) /\ UNCHANGED queue
  /\ bus' = Tail(bus)
  /\ waiting' = IF Supersedes(Head(bus), mem) THEN OtherWaiting ELSE waiting
  /\ UNCHANGED <<up, turn, tail, counts, consent, dropped, latest, budget>>

\* run() takes a message of the user while the turn it supersedes runs.
Overtake ==
  /\ up /\ bus # <<>> /\ CancelsTurn(Head(bus))
  /\ Save(Admitted(Head(bus)))
  /\ Release
  /\ bus' = Tail(bus) \o queue
  /\ fresh' = Append(fresh, Head(bus))
  /\ waiting' = OtherWaiting
  /\ dropped' = dropped \cup {turn.msg} \cup Injected
  /\ UNCHANGED <<up, tail, counts, consent, journaled, latest, budget>>

\* run() takes a stale continuation while a turn runs.
Refuse ==
  /\ up /\ bus # <<>> /\ Active /\ Refused(Head(bus), mem)
  /\ bus' = Tail(bus)
  /\ dropped' = dropped \cup {Head(bus)}
  /\ UNCHANGED <<up, mem, files, fresh, waiting, turn, queue, tail, counts,
                 consent, journaled, latest, budget>>

\* _dispatch up to the session lock: it admits again.
StartTask ==
  /\ fresh # <<>>
  /\ LET x == Head(fresh) IN
     IF Refused(x, mem)
     THEN /\ dropped' = dropped \cup {x}
          /\ UNCHANGED <<mem, files, bus, waiting, turn, queue>>
     ELSE /\ IF Supersedes(x, mem) THEN Save(Admitted(x)) ELSE UNCHANGED <<mem, files>>
          /\ waiting' = Append(IF Supersedes(x, mem) THEN OtherWaiting ELSE waiting, x)
          /\ IF CancelsTurn(x)
             THEN /\ Release /\ bus' = bus \o queue
                  /\ dropped' = dropped \cup {turn.msg} \cup Injected
             ELSE UNCHANGED <<bus, turn, queue, dropped>>
  /\ fresh' = Tail(fresh)
  /\ UNCHANGED <<up, tail, counts, consent, journaled, latest, budget>>

----------------------------------------------------------------------------
(* A turn                                                                  *)

\* _restore_turn and _persist_user_message_early: materialize what an earlier
\* turn left behind, then write the row of the user before the model sees it.
BeginTurn ==
  /\ waiting # <<>> /\ ~Active
  /\ LET x == Head(waiting)
         s == RestoreChk(mem)
         r == RestorePending(s) IN
     /\ IF x.kind = "user"
        THEN Save([r EXCEPT !.rows = Append(@, <<"user", x>>), !.pend = TRUE,
                            !.jnl = @ \ {x}])
        ELSE IF s # mem THEN Save(s) ELSE UNCHANGED <<mem, files>>
     /\ turn' = [msg |-> x, n |-> turns + 1, k |-> 0, at |-> "model", out |-> <<>>]
     /\ consent' = consent \ {x}
  /\ turns' = turns + 1
  /\ waiting' = Tail(waiting)
  /\ UNCHANGED <<up, bus, fresh, queue, tail, sent, offers, journaled, dropped, latest, budget>>

\* The model asks for tools: checkpoint before they are executed.
CallTools ==
  /\ turn.at = "model" /\ turn.k < MaxSteps
  /\ turn' = [turn EXCEPT !.at = "tools", !.k = @ + 1,
                          !.out = Append(@, <<"call", turn.n, turn.k + 1>>)]
  /\ SaveCheckpoint(<<"awaiting_tools", turn.n, turn.k + 1>>)
  /\ tail' = "open"
  /\ latest' = <<>>
  /\ UNCHANGED <<up, tasks, queue, counts, consent, journaled, dropped, budget>>

Inject == [i \in DOMAIN queue |-> <<"user", queue[i]>>]

\* The tools are done: checkpoint their results, take what is in the queue.
FinishTools ==
  /\ turn.at = "tools"
  /\ turn' = [turn EXCEPT !.at = "model",
                          !.out = Append(@, <<"result", turn.n, turn.k>>) \o Inject]
  /\ queue' = <<>>
  /\ SaveCheckpoint(<<"tools_completed", turn.n, turn.k>>)
  /\ latest' = <<"result", turn.n, turn.k>>
  /\ UNCHANGED <<up, tasks, tail, counts, consent, journaled, dropped, budget>>

\* The model answers: checkpoint the answer; a follow-up in the queue makes
\* the turn go on.
Answer ==
  /\ turn.at = "model" /\ turn.k < MaxSteps + 1
  /\ turn' = [turn EXCEPT !.k = @ + 1,
                          !.at = IF queue # <<>> /\ turn.k < MaxSteps THEN "model"
                                 ELSE "answered",
                          !.out = Append(@, <<"answer", turn.n, turn.k + 1>>) \o
                                    (IF turn.k < MaxSteps THEN Inject ELSE <<>>)]
  /\ queue' = IF turn.k < MaxSteps THEN <<>> ELSE queue
  /\ SaveCheckpoint(<<"final_response", turn.n, turn.k + 1>>)
  /\ latest' = <<"answer", turn.n, turn.k + 1>>
  /\ UNCHANGED <<up, tasks, tail, counts, consent, journaled, dropped, budget>>

Commit ==
  /\ turn.at = "answered"
  /\ Save(CommitTurn(mem, turn.out))
  /\ turn' = [turn EXCEPT !.at = "committed"]
  /\ UNCHANGED <<up, tasks, queue, tail, counts, history, budget>>

\* delivery.complete, then the finally block of _dispatch.
EndTurn ==
  /\ turn.at = "committed"
  /\ IF Resolve(mem) # mem THEN Save(Resolve(mem)) ELSE UNCHANGED <<mem, files>>
  /\ Release
  /\ bus' = bus \o queue
  /\ tail' = "ending"
  /\ UNCHANGED <<up, fresh, waiting, counts, history, budget>>

\* _dispatch's except Exception: the flag and the checkpoint stay where they
\* are for the next turn to materialize.
TurnRaises ==
  /\ turn.at \in {"model", "tools"}
  /\ Fault("fails")
  /\ IF Resolve(mem) # mem THEN Save(Resolve(mem)) ELSE UNCHANGED <<mem, files>>
  /\ Release
  /\ bus' = bus \o queue
  /\ tail' = "ending"
  /\ dropped' = dropped \cup {turn.msg} \cup Injected
  /\ UNCHANGED <<up, fresh, waiting, counts, consent, journaled, latest>>

\* /stop: every task of the session is cancelled; a turn that runs leaves what
\* its checkpoint holds in the history.
Stop ==
  /\ up /\ (Active \/ waiting # <<>> \/ fresh # <<>>)
  /\ Fault("stops")
  /\ IF Active /\ mem.chk # NoChk THEN Save(RestoreChk(mem)) ELSE UNCHANGED <<mem, files>>
  /\ Release
  /\ bus' = bus \o queue
  /\ fresh' = <<>> /\ waiting' = <<>>
  /\ tail' = "closed"
  /\ dropped' = dropped \cup ToSet(fresh) \cup ToSet(waiting) \cup Injected
                  \cup (IF Active THEN {turn.msg} ELSE {})
  /\ UNCHANGED <<up, counts, consent, journaled, latest>>

\* The outbound dispatcher writes the turn_end of a finished turn.
WriteTurnEnd ==
  /\ up /\ tail = "ending"
  /\ tail' = "closed"
  /\ UNCHANGED <<up, mem, files, tasks, turn, queue, counts, history, budget>>

\* update_session_metadata: allocating the session's handle, once, replaces the
\* first line of the file, which is then newer than the sidecar.
WriteHandle ==
  /\ up /\ Active /\ budget.handles = 0 /\ Fault("handles")
  /\ side' = NoChk
  /\ latest' = <<>>
  /\ UNCHANGED <<up, mem, disk, tasks, turn, queue, tail, counts,
                 consent, journaled, dropped>>

----------------------------------------------------------------------------
(* The user's choice                                                       *)

\* handle_action("continue")
Continue ==
  /\ up /\ mem.rec.status = "awaiting_user" /\ mem.rec.can
  /\ budget.continues < MaxContinues /\ Spend("continues")
  /\ Save([mem EXCEPT !.rec.status = "resuming", !.rec.count = Len(mem.rows)])
  /\ bus' = Append(bus, Cont(mem.rec.id))
  /\ consent' = consent \cup {Cont(mem.rec.id)}
  /\ UNCHANGED <<up, fresh, waiting, turn, queue, tail, counts, journaled, dropped, latest>>

\* handle_action("dismiss"): the id must be the current one, the status may be
\* any; a page that shows the current status offers it while one is awaited.
Dismiss ==
  /\ up
  /\ mem.rec.status \in (IF AnyDismiss THEN {"awaiting_user", "resuming"}
                                       ELSE {"awaiting_user"})
  /\ Save(SetStatus(RestorePending(RestoreChk(mem)), "recovered"))
  /\ UNCHANGED <<up, tasks, turn, queue, tail, counts, history, budget>>

----------------------------------------------------------------------------
(* The gateway goes down and comes back                                    *)

Down ==
  /\ up' = FALSE
  /\ mem' = NewSession
  /\ bus' = <<>> /\ fresh' = <<>> /\ waiting' = <<>>
  /\ Release
  /\ consent' = {}

\* Killed: what was not on disk is gone, an unwritten turn_end with it.
Crash ==
  /\ up /\ Fault("downs")
  /\ Down
  /\ tail' = IF tail = "ending" THEN "open" ELSE tail
  /\ UNCHANGED <<files, counts, journaled, dropped, latest>>

\* Shut down: turns are cancelled without materializing anything, the bus is
\* drained and every cached session saved.
Shutdown ==
  /\ up /\ Fault("downs")
  /\ Down
  /\ disk' = mem /\ side' = NoChk
  /\ tail' = IF tail = "ending" THEN "closed" ELSE tail
  /\ UNCHANGED <<counts, journaled, dropped, latest>>

\* _needs_recovery reads the file without the sidecar.
NeedsRecovery ==
  \/ disk.pend \/ disk.chk # NoChk \/ disk.jnl # {}
  \/ disk.rec.status \in {"resuming", "awaiting_user"}
  \/ tail = "open"

\* _has_saved_continuation_context: what follows the last message of the user
\* ends in a result, or holds tool calls or an interruption.
HasContext(rows) ==
  LET users == {i \in DOMAIN rows : rows[i][1] = "user"} IN
  /\ users # {}
  /\ \E i \in DOMAIN rows : i > Max(users) /\ rows[i][1] \in {"call", "broken", "closed"}

Offered(s, id, can) ==
  [s EXCEPT !.rec.status = "awaiting_user", !.rec.id = id, !.rec.can = can]

\* _recover_session, branch by branch.
Recovered(s) ==
  CASE ~s.pend /\ s.chk = NoChk ->
         IF s.rec.status = "resuming"
         THEN IF Len(s.rows) > s.rec.count THEN SetStatus(s, "recovered")
              ELSE SetStatus(s, "awaiting_user")
         ELSE IF tail = "open"
         THEN Offered(s, offers + 1, HasContext(s.rows))
         ELSE s
    [] (s.pend \/ s.chk # NoChk) /\ s.rec.status = "awaiting_user" -> s
    [] (s.pend \/ s.chk # NoChk) /\ s.rec.status = "resuming" ->
         SetStatus(RestorePending(RestoreChk(s)), "awaiting_user")
    [] OTHER ->
         IF s.chk # NoChk /\ s.chk[1] = "final_response"
         THEN SetStatus(Offered(RestoreChk(s), offers + 1, TRUE), "recovered")
         ELSE Offered(RestoreChk(s), offers + 1, TRUE)

\* Mutant: the journal is not published.
NothingRequeued(jnl) == {<<>>}

\* _requeue_pending_followups publishes the journal in its order, that of
\* arrival.
Requeued(jnl) ==
  {q \in [1 .. Cardinality(jnl) -> jnl] : \A i, j \in DOMAIN q : i < j => q[i].id < q[j].id}

\* Start-up, up to the end of scan, before any channel accepts input.
Start ==
  /\ ~up
  /\ up' = TRUE
  /\ IF NeedsRecovery
     THEN /\ IF Recovered(Loaded) # Loaded THEN Save(Recovered(Loaded))
             ELSE mem' = Loaded /\ UNCHANGED files
          /\ offers' = IF Recovered(Loaded).rec.id > offers THEN offers + 1 ELSE offers
          /\ bus' \in Requeued(Loaded.jnl)
     ELSE mem' = Loaded /\ UNCHANGED <<files, offers, bus>>
  /\ UNCHANGED <<fresh, waiting, turn, queue, tail, sent, turns, history, budget>>

----------------------------------------------------------------------------
(* Specification                                                           *)

Init ==
  /\ up = TRUE
  /\ mem = NewSession /\ disk = NewSession /\ side = NoChk
  /\ bus = <<>> /\ fresh = <<>> /\ waiting = <<>>
  /\ turn = Idle /\ queue = <<>> /\ tail = "closed"
  /\ sent = 0 /\ turns = 0 /\ offers = 0
  /\ consent = {} /\ journaled = {} /\ dropped = {} /\ latest = <<>>
  /\ budget = [stops |-> 0, fails |-> 0, handles |-> 0, continues |-> 0, downs |-> 0]

Run == Spawn \/ FollowUp \/ Overtake \/ Refuse
TurnStep == CallTools \/ FinishTools \/ Answer \/ Commit \/ EndTurn

Next == \/ Send \/ Run \/ StartTask \/ BeginTurn \/ TurnStep \/ TurnRaises
        \/ Stop \/ WriteTurnEnd \/ WriteHandle \/ Continue \/ Dismiss
        \/ Crash \/ Shutdown \/ Start

Spec == Init /\ [][Next]_vars

\* The event loop runs every ready task, a turn ends because its rounds are
\* bounded, and a gateway that went down is started again.
FairSpec == /\ Spec
            /\ WF_vars(Run) /\ WF_vars(StartTask) /\ WF_vars(BeginTurn)
            /\ WF_vars(TurnStep) /\ WF_vars(Start)

----------------------------------------------------------------------------
(* Properties                                                              *)

\* Every variable stays in its type; a pending queue belongs to a turn and has
\* room for QueueCap follow-ups (loop.py:1500, 1572-1584).
TypeOK ==
  /\ up \in BOOLEAN
  /\ \A s \in {mem, disk} :
       /\ ToSet(s.rows) \subseteq Row /\ s.pend \in BOOLEAN /\ s.chk \in Chk
       /\ s.rec \in Offer /\ s.jnl \subseteq Msg
  /\ side \in Chk
  /\ \A q \in {bus, fresh, waiting, queue} : ToSet(q) \subseteq Msg
  /\ Len(queue) <= QueueCap /\ (~Active => queue = <<>>)
  /\ turn.msg \in Msg /\ turn.n \in 0 .. turns /\ turn.k \in 0 .. MaxSteps + 1
  /\ turn.at \in {"idle", "model", "tools", "answered", "committed"}
  /\ tail \in {"closed", "open", "ending"}
  /\ sent \in 0 .. MaxUsers /\ turns \in Nat /\ offers \in Nat
  /\ consent \cup journaled \cup dropped \subseteq Msg

\* A follow-up sent while a turn runs is on disk from then on, as an entry of
\* the journal or as a row of the history, whatever crashes, is stopped, fails,
\* is superseded or dismissed ("dropping older journal entries would make those
\* acknowledged user messages unrecoverable", recovery.py:190-194).
FollowupDurable ==
  \A x \in journaled : x \in disk.jnl \/ <<"user", x>> \in ToSet(disk.rows)

\* No step of a turn and no message of the user is twice in the history:
\* a checkpoint that was materialized is never materialized or committed again
\* ("exactly once", recovery.py:361), and a follow-up that the journal returns
\* to the bus was not committed before.
RowsOnce ==
  \A s \in {mem, disk} : \A i, j \in DOMAIN s.rows :
    i # j /\ s.rows[i] # Closed => s.rows[i] # s.rows[j]

\* Every tool call in the history has its result, real or made up, right behind
\* it, and every result its call: what a provider accepts, whether the turn
\* ended, was stopped or was cut off between a call and its result.
CallsHaveResults ==
  \A i \in DOMAIN mem.rows :
    LET r == mem.rows[i] IN
    /\ r[1] = "call" =>
         /\ i < Len(mem.rows)
         /\ mem.rows[i + 1] \in {<<"result", r[2], r[3]>>, <<"broken", r[2], r[3]>>}
    /\ r[1] \in {"result", "broken"} =>
         i > 1 /\ mem.rows[i - 1] = <<"call", r[2], r[3]>>

\* A message of the user that nothing follows in the saved history is marked, so
\* that the next turn closes it or the next start offers to continue it: no
\* request ends in silence.
UnansweredMarked ==
  EndsWith(disk, {"user"}) => disk.pend \/ disk.chk # NoChk

\* The step a turn completed last survives whatever ends the turn: it is in the
\* saved history or in the checkpoint a restart materializes (unless the file's
\* first line was rewritten after it, WriteHandle).
LatestStepSurvives ==
  latest # <<>> => latest \in ToSet(RestoreChk(Loaded).rows)

\* While a newer request of the user runs, no older turn is on offer or in
\* progress (docstring of admit, recovery.py:637).
NewerRequestWins ==
  Active /\ turn.msg.kind = "user" => mem.rec.status \notin {"resuming", "awaiting_user"}

\* A continuation begins only while its recovery is in progress and once per
\* confirmation: after a restart, a /stop or a newer message it does not
\* ("never enqueue model work implicitly", recovery.py:912).
ContinueNeedsConsent ==
  [][turns' > turns /\ turn'.msg.kind = "cont" =>
       /\ turn'.msg \in consent
       /\ mem.rec.status = "resuming" /\ mem.rec.id = turn'.msg.id]_vars

Committed(x) == <<"user", x>> \in ToSet(mem.rows)

\* A journaled follow-up gets its row in the history in the end, restarts
\* included, unless it was cancelled with the turn that had taken it: again and
\* again there is none left over.
FollowupsHandled ==
  []<>(\A x \in journaled : Committed(x) \/ x \in dropped)

\* A confirmed recovery does not stay in progress, unless it was stopped.
RecoveriesSettle ==
  []<>(mem.rec.status = "resuming" => Cont(mem.rec.id) \in dropped)

\* "When /stop cancels an active task, the runtime checkpoint (tool results,
\* assistant messages accumulated so far) should be materialized into session
\* history rather than silently discarded"
\* (tests/agent/test_stop_preserves_context.py:3-5).
StopKeepsResults ==
  [][budget'.stops > budget.stops =>
       \A r \in ToSet(turn.out) : r[1] \in {"result", "answer"} => r \in ToSet(mem'.rows)]_vars
=============================================================================
