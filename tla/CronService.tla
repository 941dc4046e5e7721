----------------------------- MODULE CronService -----------------------------
(***************************************************************************)
(* The scheduler of user automations (src/ruiclaw/cron/service.py): the    *)
(* in-memory job store, jobs.json, the action journal through which an     *)
(* instance that does not own the store (another process, or this one      *)
(* while stopped) hands its edits over, the timer task, ticks, manual runs *)
(* and the edits that interrupt them.                                      *)
(*                                                                         *)
(* Everything in the process shares one event loop, so a handler runs      *)
(* without interruption up to its next await.  The only awaits are the     *)
(* sleep of the timer and on_job, the run of one job; each action below is *)
(* the stretch of code between two of them.                                *)
(***************************************************************************)
EXTENDS Naturals, FiniteSets, SequencesExt

CONSTANTS
  Jobs,         \* job ids
  Offers,       \* for each job, the schedules it may be given
  KeptAfterRun, \* the jobs added with delete_after_run = False
  Tasks,        \* slots for timer tasks that have not ended yet
  Runs,         \* slots for concurrent run_job calls
  SlowUnwind,   \* the jobs whose on_job awaits while it is being cancelled
  NoTask, NoJob,
  Ops,          \* the edits made in this run, by name
  MaxPeriod,    \* bound: the longest interval of a recurring schedule
  Horizon,      \* bound: the clock stops here
  MaxOps,       \* bound: edits, reads and manual runs
  MaxFails,     \* bound: writes of jobs.json that raise OSError
  MaxDowns      \* bound: exits and crashes of the process

\* A schedule: one time, or an interval (a cron expression counts as one).
Once(n)  == [kind |-> "at", n |-> n]
Every(n) == [kind |-> "every", n |-> n]
Schedules == {Once(n) : n \in 1 .. Horizon} \cup {Every(n) : n \in 1 .. MaxPeriod}

ASSUME CronAssumption ==
  /\ Offers \in [Jobs -> SUBSET Schedules]
  /\ KeptAfterRun \subseteq Jobs
  /\ SlowUnwind \subseteq Jobs
  /\ Tasks # {} /\ NoTask \notin Tasks /\ NoJob \notin Jobs
  /\ MaxPeriod \in Nat \ {0} /\ Horizon \in Nat /\ MaxOps \in Nat /\ MaxFails \in Nat /\ MaxDowns \in Nat

VARIABLES
  now,      \* the clock, in units of the shortest schedule
  up,       \* the process is alive
  running,  \* CronService._running
  mem,      \* CronService._store.jobs: a function from the ids it holds
  dirty,    \* CronService._store_dirty
  volatile, \* history: the jobs with journal lines that only memory has, since
            \* the save of the merge that took them over raised
  file,     \* jobs.json
  journal,  \* action.jsonl
  task,     \* timer tasks: what each is doing
  timer,    \* CronService._timer_task
  manual,   \* the job each run_job call is executing
  hung,     \* timer tasks whose on_job waits for a turn nobody will report
  fired,    \* history: the occurrences ticks have started
  excused,  \* history: the occurrences whose tick was cancelled under them
  known,    \* history: jobs whose add was acknowledged, not yet gone
  removed,  \* history: jobs whose removal was acknowledged
  lost,     \* history: jobs whose acknowledged edit ended with a process
  budget    \* edits, failed writes and process ends so far

vars == <<now, up, running, mem, dirty, volatile, file, journal, task, timer,
          manual, hung, fired, excused, known, removed, lost, budget>>
stores  == <<mem, dirty, volatile, file, journal>>
history == <<fired, excused>>
ledger  == <<known, removed, lost>>

\* A due run of a job: the job and the time it was due at.
Occurrences == Jobs \X (1 .. Horizon)
NoOcc == <<>>

\* What a timer task is doing: nothing (ended), sleeping until it is due,
\* or awaiting on_job for occ with the rest of its due list still to run.
Off    == [pc |-> "off",   occ |-> NoOcc, due |-> {}, cancelled |-> FALSE]
Asleep == [pc |-> "sleep", occ |-> NoOcc, due |-> {}, cancelled |-> FALSE]
Running(occ, due) ==
          [pc |-> "run",   occ |-> occ,   due |-> due, cancelled |-> FALSE]

\* The jobs that are, or may be made, one-time; the others always recur.
OneShot == {j \in Jobs : \E sched \in Offers[j] : sched.kind = "at"}

\* A job without its text: next = 0 stands for next_run_at_ms = None, drop is
\* delete_after_run.
JobRec == [enabled : BOOLEAN, sched : Schedules, drop : BOOLEAN, next : 0 .. Horizon + MaxPeriod]
Stores == {f \in UNION {[S -> JobRec] : S \in SUBSET Jobs} :
             \A j \in DOMAIN f : f[j].sched \in Offers[j]}
Empty  == [j \in {} |-> {}]

Put(jobs, j, rec) == [k \in DOMAIN jobs \cup {j} |-> IF k = j THEN rec ELSE jobs[k]]
Drop(jobs, j)     == [k \in DOMAIN jobs \ {j} |-> jobs[k]]

\* Mutant: an interval too many.
NextRunSkips(sched, t) == t + 2 * sched.n

\* _compute_next_run: a one-time schedule's time while it is ahead, the next
\* interval otherwise.
NextRun(sched, t) ==
  IF sched.kind = "every" THEN t + sched.n
  ELSE IF sched.n > t THEN sched.n ELSE 0

\* Journal entries, and _merge_action's replay of them over the file: line after
\* line an update stores its record and a del drops the job, so that for each
\* job named in the journal the last line about it decides.
Update(j, rec) == [action |-> "update", job |-> j, rec |-> rec]
Del(j)         == [action |-> "del", job |-> j]

LastLines(entries) ==
  {entries[i] : i \in {k \in DOMAIN entries :
                   \A m \in DOMAIN entries : entries[m].job = entries[k].job => m <= k}}
Told(entries)    == {e.job : e \in LastLines(entries)}
Updates(entries) == {e \in LastLines(entries) : e.action = "update"}

Replay(jobs, entries) ==
  [j \in (DOMAIN jobs \ Told(entries)) \cup {e.job : e \in Updates(entries)} |->
     IF j \in Told(entries) THEN (CHOOSE e \in Updates(entries) : e.job = j).rec
                            ELSE jobs[j]]

\* _active_executions: ticks and manual runs that have not left yet.
Active == Cardinality({t \in Tasks : task[t].pc = "run"})
            + Cardinality({r \in Runs : manual[r] # NoJob})

\* _should_persist_store
OwnsStore == running \/ Active > 0

----------------------------------------------------------------------------
(* Loading and saving                                                      *)

\* Mutants: a load that forgets the failed save, one that ignores executions.
ReloadDirty(reload) == Active > 0 /\ ~reload
ReloadInRun(reload) == dirty

\* _load_store keeps the live store when its last save failed, or while jobs
\* execute and the caller did not just take ownership.
KeepsLive(reload) == dirty \/ (Active > 0 /\ ~reload)

Store(reload) == IF KeepsLive(reload) THEN mem ELSE Replay(file, journal)

\* _merge_action truncates the journal and saves when this instance owns the
\* store; owns is passed because a tick or a manual run counts itself first.
MergeWrites(reload, owns) == ~KeepsLive(reload) /\ owns /\ journal # <<>>

Merged(reload, owns) == IF MergeWrites(reload, owns) THEN <<>> ELSE journal

CanFail == budget.fails < MaxFails
Spend(field) == budget' = [budget EXCEPT ![field] = @ + 1]

\* A write of jobs.json that succeeds, and one that raises: _save_store sets
\* the dirty flag before it writes.
Saved(jobs) == mem' = jobs /\ file' = jobs /\ dirty' = FALSE /\ volatile' = {}
Unsaved(jobs) == mem' = jobs /\ dirty' = TRUE /\ UNCHANGED volatile

\* The load's own save raises: the journal is truncated already, memory alone
\* has its lines, and the caller gets the exception.
MergeFails(reload, owns) ==
  /\ MergeWrites(reload, owns)
  /\ CanFail
  /\ mem' = Store(reload) /\ dirty' = TRUE
  /\ volatile' = Told(journal)
  /\ journal' = <<>>
  /\ UNCHANGED file

----------------------------------------------------------------------------
(* The timer                                                               *)

\* Mutants: arming leaves the previous timer alone, or leaves it alone when it
\* is executing jobs.
KeepOldTimer(ts) == ts
SpareRunning(ts) ==
  [t \in Tasks |-> IF t = timer /\ ts[t].pc = "sleep" THEN Off ELSE ts[t]]

\* Task.cancel on the timer: a sleeping task ends, one that awaits on_job
\* stays until the CancelledError reaches it.
CancelTimer(ts) ==
  [t \in Tasks |-> IF t # timer THEN ts[t]
                   ELSE IF ts[t].pc = "run" THEN [ts[t] EXCEPT !.cancelled = TRUE]
                   ELSE Off]

Free(ts) == {t \in Tasks : ts[t].pc = "off"}

\* _arm_timer, with ts the tasks at the call.  A slot must be free for the new
\* task (Tasks bounds how many interrupted ticks may linger).
ArmTimer(ts) ==
  LET left == CancelTimer(ts) IN
  IF running
  THEN /\ Free(left) # {}
       /\ timer' = CHOOSE t \in Free(left) : TRUE
       /\ task' = [left EXCEPT ![timer'] = Asleep]
  ELSE /\ timer' = timer
       /\ task' = left

\* The occurrence an edit interrupts when it re-arms the timer.
Interrupted == IF timer # NoTask /\ task[timer].pc = "run"
               THEN {task[timer].occ} ELSE {}

----------------------------------------------------------------------------
(* Ticks                                                                   *)

\* A CancelledError is delivered before the new timer wakes, unless the job
\* under it awaits while it unwinds: the turn of a session-bound job does not,
\* a system job (process_direct) may.
Delivered == \A t \in Tasks : task[t].cancelled => task[t].occ[1] \in SlowUnwind

\* The timer t wakes.
Wakes(t) == timer = t /\ task[t].pc = "sleep" /\ Delivered

\* The due list _on_timer computes once, before it runs the first of them.
DueIn(jobs) == {<<j, jobs[j].next>> : j \in
                  {k \in DOMAIN jobs : /\ jobs[k].enabled
                                       /\ jobs[k].next # 0
                                       /\ now >= jobs[k].next}}

\* _on_timer after a failed save: write the live store, run nothing.
TickFlushes(t) ==
  /\ Wakes(t)
  /\ dirty
  /\ Saved(mem)
  /\ ArmTimer(task)
  /\ UNCHANGED <<now, up, running, journal, manual, hung, history, ledger, budget>>

\* _on_timer with nothing due: load, save, re-arm.
TickIdles(t) ==
  /\ Wakes(t)
  /\ ~dirty
  /\ LET jobs == Store(Active = 0) IN
     /\ DueIn(jobs) = {}
     /\ \/ Saved(jobs) /\ UNCHANGED budget
        \/ /\ CanFail /\ Spend("fails")
           /\ Unsaved(jobs)
           /\ file' = IF MergeWrites(Active = 0, TRUE) THEN jobs ELSE file
  /\ journal' = Merged(Active = 0, TRUE)
  /\ ArmTimer(task)
  /\ UNCHANGED <<now, up, running, manual, hung, history, ledger>>

\* Mutant: a tick whose load raises ends without re-arming the timer.
NoRearm(t) ==
  /\ Wakes(t)
  /\ ~dirty
  /\ MergeFails(Active = 0, TRUE)
  /\ Spend("fails")
  /\ task' = [task EXCEPT ![t] = Off]
  /\ UNCHANGED <<now, up, running, timer, manual, hung, history, ledger>>

\* _on_timer whose load could not save the journal it merged: the tick is
\* over, the timer re-armed.
TickMergeFails(t) ==
  /\ Wakes(t)
  /\ ~dirty
  /\ MergeFails(Active = 0, TRUE)
  /\ Spend("fails")
  /\ ArmTimer(task)
  /\ UNCHANGED <<now, up, running, manual, hung, history, ledger>>

\* _on_timer with jobs due: load, take the due list, start its first job.
TickStarts(t) ==
  /\ Wakes(t)
  /\ ~dirty
  /\ LET jobs == Store(Active = 0) IN
     /\ mem' = jobs
     /\ file' = IF MergeWrites(Active = 0, TRUE) THEN jobs ELSE file
     /\ \E occ \in DueIn(jobs) :
          /\ task' = [task EXCEPT ![t] = Running(occ, DueIn(jobs) \ {occ})]
          /\ fired' = fired \cup {occ}
  /\ journal' = Merged(Active = 0, TRUE)
  /\ UNCHANGED <<now, up, running, dirty, volatile, timer, manual, hung, excused, ledger, budget>>

\* The end of _execute_job, whatever the outcome of on_job: a job that is
\* one-time by then is deleted or disabled, the others get their next run.
Finish(jobs, j) ==
  IF j \notin DOMAIN jobs THEN jobs
  ELSE IF jobs[j].sched.kind = "every"
       THEN Put(jobs, j, [jobs[j] EXCEPT !.next = NextRun(jobs[j].sched, now)])
  ELSE IF jobs[j].drop
       THEN Drop(jobs, j)
  ELSE Put(jobs, j, [jobs[j] EXCEPT !.enabled = FALSE, !.next = 0])

Forget(jobs) == known' = known \ (DOMAIN mem \ DOMAIN jobs) /\ UNCHANGED <<removed, lost>>

\* on_job of the running job ends and the tick goes on with its due list, as
\* it was when the tick began.
NextJob(t) ==
  /\ task[t].pc = "run" /\ ~task[t].cancelled /\ t \notin hung
  /\ mem' = Finish(mem, task[t].occ[1])
  /\ Forget(Finish(mem, task[t].occ[1]))
  /\ \E occ \in task[t].due :
       /\ task' = [task EXCEPT ![t] = Running(occ, task[t].due \ {occ})]
       /\ fired' = fired \cup {occ}
  /\ UNCHANGED <<now, up, running, dirty, volatile, file, journal, timer, manual, hung, excused, budget>>

\* on_job of the last due job ends: save, and in the finally clause leave and
\* re-arm the timer whether or not the save succeeded.
TickEnds(t) ==
  /\ task[t].pc = "run" /\ ~task[t].cancelled /\ t \notin hung
  /\ task[t].due = {}
  /\ LET jobs == Finish(mem, task[t].occ[1]) IN
     /\ Forget(jobs)
     /\ \/ Saved(jobs) /\ UNCHANGED budget
        \/ CanFail /\ Spend("fails") /\ Unsaved(jobs) /\ UNCHANGED file
  /\ ArmTimer([task EXCEPT ![t] = Off])
  /\ UNCHANGED <<now, up, running, journal, manual, hung, history>>

\* Nothing will resolve the future submit waits for: the turn was cancelled by a
\* /stop while it waited for the lock or the gate (loop.py:1592-1605), or never
\* begins because its text is a priority command or its session is stuck.  on_job
\* has no time-out, and only a cancellation ends the wait.
Hang(t) ==
  /\ "hang" \in Ops
  /\ task[t].pc = "run" /\ ~task[t].cancelled /\ t \notin hung
  /\ hung' = hung \cup {t}
  /\ UNCHANGED <<now, up, running, stores, task, timer, manual, history, ledger, budget>>

\* The CancelledError reaches a tick: _execute_job re-raises it, nothing is
\* recorded or saved, and the finally clause re-arms the timer, which cancels
\* the tick that replaced this one if that has begun to run jobs.
TickCancelled(t) ==
  /\ task[t].pc = "run" /\ task[t].cancelled
  /\ ArmTimer([task EXCEPT ![t] = Off])
  /\ excused' = IF running THEN excused \cup Interrupted ELSE excused
  /\ hung' = hung \ {t}
  /\ UNCHANGED <<now, up, running, stores, manual, fired, ledger, budget>>

----------------------------------------------------------------------------
(* Manual runs                                                             *)

\* run_job up to on_job: flush a store whose save failed, load, find the job,
\* refuse a disabled one (the callers pass force=False).
RunJob(r, j) ==
  /\ up /\ "run" \in Ops /\ budget.ops < MaxOps
  /\ manual[r] = NoJob
  /\ LET onDisk == IF dirty THEN mem ELSE file
         jobs   == IF Active > 0 THEN mem ELSE Replay(onDisk, journal)
         merges == Active = 0 /\ journal # <<>>
     IN /\ mem' = jobs
        /\ journal' = IF merges THEN <<>> ELSE journal
        /\ \/ /\ file' = IF merges THEN jobs ELSE onDisk
              /\ dirty' = FALSE /\ volatile' = {}
              /\ Spend("ops")
              /\ manual' = IF j \in DOMAIN jobs /\ jobs[j].enabled
                           THEN [manual EXCEPT ![r] = j] ELSE manual
           \/ /\ merges /\ CanFail
              /\ file' = onDisk
              /\ dirty' = TRUE /\ volatile' = Told(journal)
              /\ Spend("fails")
              /\ UNCHANGED manual
  /\ UNCHANGED <<now, up, running, task, timer, hung, history, ledger>>

\* on_job of a manual run ends: record, save, leave; the timer is re-armed
\* only when nothing else executes, so as not to cancel a tick.
RunEnds(r) ==
  /\ manual[r] # NoJob
  /\ LET jobs == Finish(mem, manual[r]) IN
     /\ Forget(jobs)
     /\ \/ Saved(jobs) /\ UNCHANGED budget
        \/ CanFail /\ Spend("fails") /\ Unsaved(jobs) /\ UNCHANGED file
  /\ manual' = [manual EXCEPT ![r] = NoJob]
  /\ IF running /\ Active = 1 THEN ArmTimer(task) ELSE UNCHANGED <<task, timer>>
  /\ UNCHANGED <<now, up, running, journal, hung, history>>

----------------------------------------------------------------------------
(* Edits from the chat tool and the WebUI                                  *)

\* The owner of the store applies an edit to it, saves and re-arms the timer;
\* entry is what an instance that does not own it appends instead.
Edit(jobs, entry) ==
  IF OwnsStore
  THEN \/ /\ Saved(jobs) /\ Spend("ops")
          /\ ArmTimer(task)
          /\ excused' = IF running THEN excused \cup Interrupted ELSE excused
          /\ journal' = Merged(FALSE, TRUE)
       \/ /\ CanFail /\ budget' = [budget EXCEPT !.ops = @ + 1, !.fails = @ + 1]
          /\ Unsaved(jobs)
          /\ file' = IF MergeWrites(FALSE, TRUE) THEN Store(FALSE) ELSE file
          /\ journal' = Merged(FALSE, TRUE)
          /\ UNCHANGED <<task, timer, excused>>
  ELSE /\ Spend("ops")
       /\ mem' = IF entry.job \in DOMAIN Store(FALSE) THEN jobs ELSE mem
       /\ journal' = Append(journal, entry)
       /\ volatile' = volatile \ {entry.job}
       /\ UNCHANGED <<dirty, file, task, timer, excused>>

\* The edit was acknowledged: its save did not raise.
Acknowledged == budget'.fails = budget.fails

EditGuard(op) == up /\ op \in Ops /\ budget.ops < MaxOps

NewRec(sched, drop) ==
  [enabled |-> TRUE, sched |-> sched, drop |-> drop, next |-> NextRun(sched, now)]

\* The chat tool deletes one-time jobs after their run, other callers of add_job
\* may keep them; a time that has passed is accepted.
AddedRecs(j) ==
  {NewRec(sched, sched.kind = "at" /\ j \notin KeptAfterRun) : sched \in Offers[j]}

\* What the WebUI may send: the schedule the job has, which changes nothing of
\* it, or another one, whose time must be ahead if it is a one-time schedule.
NewSchedules(j) == {s \in Offers[j] : s.kind = "at" => s.n > now}

Rescheduled(rec, sched) ==
  [enabled |-> rec.enabled, sched |-> sched,
   drop |-> IF sched = rec.sched THEN rec.drop ELSE sched.kind = "at",
   next |-> IF rec.enabled THEN NextRun(sched, now) ELSE 0]

Fresh(j) == /\ j \notin known \cup removed \cup lost \cup DOMAIN mem \cup DOMAIN Replay(file, journal)
            /\ \A occ \in fired : occ[1] # j

AddJob(j) ==
  /\ EditGuard("add")
  /\ Fresh(j)
  /\ \E rec \in AddedRecs(j) : Edit(Put(Store(FALSE), j, rec), Update(j, rec))
  /\ known' = IF Acknowledged THEN known \cup {j} ELSE known
  /\ UNCHANGED <<now, up, running, manual, hung, fired, removed, lost>>

RemoveJob(j) ==
  /\ EditGuard("remove")
  /\ j \in DOMAIN Store(FALSE)
  /\ Edit(Drop(Store(FALSE), j), Del(j))
  /\ known' = known \ {j}
  /\ removed' = IF Acknowledged THEN removed \cup {j} ELSE removed
  /\ lost' = IF Acknowledged THEN lost \ {j} ELSE lost
  /\ UNCHANGED <<now, up, running, manual, hung, fired>>

\* enable_job and update_job: store rec for a job that is there.
Change(j, rec) ==
  /\ Edit(Put(Store(FALSE), j, rec), Update(j, rec))
  /\ UNCHANGED <<now, up, running, manual, hung, fired, ledger>>

EnableJob(j) ==
  /\ EditGuard("enable")
  /\ j \in DOMAIN Store(FALSE)
  /\ Change(j, [Store(FALSE)[j] EXCEPT !.enabled = TRUE,
                                     !.next = NextRun(Store(FALSE)[j].sched, now)])

DisableJob(j) ==
  /\ EditGuard("disable")
  /\ j \in DOMAIN Store(FALSE)
  /\ Change(j, [Store(FALSE)[j] EXCEPT !.enabled = FALSE, !.next = 0])

UpdateJob(j) ==
  /\ EditGuard("update")
  /\ j \in DOMAIN Store(FALSE)
  /\ \E sched \in NewSchedules(j) \cup {Store(FALSE)[j].sched} :
       Change(j, Rescheduled(Store(FALSE)[j], sched))

\* The save inside the load of one of these edits, or of a plain read
\* (list_jobs, get_job, status), raises: the caller sees the error.
LoadFails ==
  /\ up
  /\ MergeFails(FALSE, OwnsStore)
  /\ Spend("fails")
  /\ UNCHANGED <<now, up, running, task, timer, manual, hung, history, ledger>>

\* list_jobs, get_job, status
ReadJobs ==
  /\ up /\ "read" \in Ops
  /\ mem' = Store(FALSE)
  /\ journal' = Merged(FALSE, OwnsStore)
  /\ file' = IF MergeWrites(FALSE, OwnsStore) THEN Store(FALSE) ELSE file
  /\ UNCHANGED <<now, up, running, dirty, volatile, task, timer, manual, hung, history, ledger, budget>>

\* Another process (the CLI agent) adds or removes: a line of the journal.
ExternalAdd(j) ==
  /\ "extadd" \in Ops /\ budget.ops < MaxOps
  /\ Fresh(j)
  /\ \E rec \in AddedRecs(j) : journal' = Append(journal, Update(j, rec))
  /\ known' = known \cup {j}
  /\ volatile' = volatile \ {j}
  /\ Spend("ops")
  /\ UNCHANGED <<now, up, running, mem, dirty, file, task, timer, manual, hung, history,
                 removed, lost>>

ExternalRemove(j) ==
  /\ "extremove" \in Ops /\ budget.ops < MaxOps
  /\ j \in DOMAIN Replay(file, journal)
  /\ journal' = Append(journal, Del(j))
  /\ known' = known \ {j}
  /\ removed' = removed \cup {j}
  /\ lost' = lost \ {j} /\ volatile' = volatile \ {j}
  /\ Spend("ops")
  /\ UNCHANGED <<now, up, running, mem, dirty, file, task, timer, manual, hung, history>>

----------------------------------------------------------------------------
(* The process                                                             *)

Down ==
  /\ up' = FALSE /\ running' = FALSE
  /\ mem' = Empty /\ dirty' = FALSE /\ volatile' = {}
  /\ task' = [t \in Tasks |-> Off] /\ timer' = NoTask /\ hung' = {}
  /\ manual' = [r \in Runs |-> NoJob]

\* _recompute_next_runs
Recomputed(jobs) ==
  [j \in DOMAIN jobs |-> IF jobs[j].enabled
                         THEN [jobs[j] EXCEPT !.next = NextRun(jobs[j].sched, now)]
                         ELSE jobs[j]]

\* start: load and merge, recompute every next run, save, arm the timer.
Start ==
  /\ ~up
  /\ LET jobs == Recomputed(Replay(file, journal)) IN
     /\ Saved(jobs)
     /\ journal' = <<>>
  /\ up' = TRUE /\ running' = TRUE
  /\ timer' = CHOOSE t \in Tasks : TRUE
  /\ task' = [task EXCEPT ![timer'] = Asleep]
  /\ UNCHANGED <<now, manual, hung, history, ledger, budget>>

\* stop: the timer task is cancelled and dropped; an executing tick will not
\* save what it has done.
Stop ==
  /\ EditGuard("stop") /\ running
  /\ running' = FALSE
  /\ task' = CancelTimer(task)
  /\ timer' = NoTask
  /\ excused' = excused \cup Interrupted
  /\ Spend("ops")
  /\ UNCHANGED <<now, up, stores, manual, hung, fired, ledger>>

\* The process exits or is killed.  What only memory had goes with it: edits
\* whose save raised, as their callers were told, but also the lines of a
\* journal whose merge could not be saved, and those were acknowledged when they
\* were written.
Exit ==
  /\ up /\ budget.downs < MaxDowns
  /\ Down
  /\ Spend("downs")
  /\ lost' = lost \cup volatile
  /\ UNCHANGED <<now, file, journal, history, known, removed>>

\* Killed between the two writes of _merge_action, or, in start, ended by the
\* exception of the second: the journal is empty, the file lacks its actions.
ExitInMerge ==
  /\ budget.downs < MaxDowns
  /\ journal # <<>>
  /\ up => running /\ ~dirty /\ Active = 0
  /\ Down
  /\ journal' = <<>>
  /\ Spend("downs")
  /\ lost' = lost \cup Told(journal)
  /\ UNCHANGED <<now, file, history, known, removed>>

ClockTicks ==
  /\ now < Horizon
  /\ now' = now + 1
  /\ UNCHANGED <<up, running, stores, task, timer, manual, hung, history, ledger, budget>>

----------------------------------------------------------------------------
(* Specification                                                           *)

Init ==
  /\ now = 0
  /\ up = FALSE /\ running = FALSE
  /\ mem = Empty /\ dirty = FALSE /\ volatile = {}
  /\ file = Empty /\ journal = <<>>
  /\ task = [t \in Tasks |-> Off] /\ timer = NoTask
  /\ manual = [r \in Runs |-> NoJob] /\ hung = {}
  /\ fired = {} /\ excused = {}
  /\ known = {} /\ removed = {} /\ lost = {}
  /\ budget = [ops |-> 0, fails |-> 0, downs |-> 0]

TaskStep(t) == \/ TickFlushes(t) \/ TickIdles(t) \/ TickMergeFails(t)
               \/ TickStarts(t) \/ NextJob(t) \/ TickEnds(t) \/ TickCancelled(t)

JobEdit(j) == \/ AddJob(j) \/ RemoveJob(j) \/ EnableJob(j) \/ DisableJob(j)
              \/ UpdateJob(j) \/ ExternalAdd(j) \/ ExternalRemove(j)

Next == \/ \E t \in Tasks : TaskStep(t) \/ Hang(t)
        \/ \E r \in Runs : RunEnds(r) \/ \E j \in Jobs : RunJob(r, j)
        \/ \E j \in Jobs : JobEdit(j)
        \/ ReadJobs \/ LoadFails
        \/ Start \/ Stop \/ Exit \/ ExitInMerge
        \/ ClockTicks

Spec == Init /\ [][Next]_vars

\* The event loop resumes every timer task whose await is over: the timer's sleep
\* is finite, and a turn that begins ends, so that on_job returns unless its turn
\* is one that is never reported (Hang).  Nothing else is owed: manual runs may
\* wait for ever, and a process that went down may stay down.
FairSpec == Spec /\ \A t \in Tasks : WF_vars(TaskStep(t))

----------------------------------------------------------------------------
(* Properties                                                              *)

\* Every variable stays in its type (the fields of CronService, 176-192, and
\* the records of its store).
TypeOK ==
  /\ now \in 0 .. Horizon
  /\ {up, running, dirty} \subseteq BOOLEAN
  /\ mem \in Stores /\ file \in Stores
  /\ \A i \in DOMAIN journal : journal[i].job \in Jobs
  /\ task \in [Tasks -> [pc : {"off", "sleep", "run"},
                        occ : Occurrences \cup {NoOcc},
                        due : SUBSET Occurrences,
                        cancelled : BOOLEAN]]
  /\ timer \in Tasks \cup {NoTask}
  /\ manual \in [Runs -> Jobs \cup {NoJob}]
  /\ fired \subseteq Occurrences /\ excused \subseteq fired
  /\ known \subseteq Jobs /\ removed \subseteq Jobs
  /\ volatile \subseteq Jobs /\ lost \subseteq Jobs /\ hung \subseteq Tasks

\* Whatever edits, cancellations and manual runs do to the timer task, at most
\* one tick is alive and not being cancelled, and it is the one _timer_task
\* names: no two ticks take the same due jobs (_arm_timer, 517-538).
OneLiveTick ==
  \A t \in Tasks : task[t].pc # "off" /\ ~task[t].cancelled => t = timer

\* "Always re-arm the timer, even on unexpected failures, so a single bad tick
\* cannot silently stop all future jobs" (service.py:581-582): while the
\* service runs, its timer sleeps or executes and will be armed again.
TimerNeverLost ==
  running => timer # NoTask /\ task[timer].pc # "off" /\ ~task[timer].cancelled

\* A tick starts an occurrence a second time only when the first tick was
\* cancelled under it: failed saves, reloads, manual runs, edits of other
\* processes and restarts never replay one (the dirty guards, 327-331, 549-551).
RepeatNeedsCancel ==
  [][\A t \in Tasks :
       task'[t].occ \in fired /\ task'[t].occ # task[t].occ
         => task'[t].occ \in excused]_vars

\* The jobs as the next load of this process, or of the next one, sees them.
View == IF dirty THEN Replay(mem, journal) ELSE Replay(file, journal)

\* An acknowledged job is in that view until it is removed or done, and an
\* acknowledged removal is not undone, whichever process made them and whatever
\* reloads, failed saves, executions and restarts come between.  The exception
\* is what `lost` holds: lines of the journal that a process took over without
\* their being in jobs.json when it ended, since the save of the merge raised and
\* no later save came, or since it died in the merge (service.py:311-312).  It is
\* stated of a service that nobody stops: a stopped instance whose last save failed
\* journals a record out of that store, which may revive a removed job.
EditsSurvive ==
  /\ known \ lost \subseteq DOMAIN View
  /\ (removed \ lost) \cap DOMAIN View = {}

\* While the scheduler runs, no step takes the next run of a recurring job back
\* to an earlier time, unless it gives the job another schedule: a reload during
\* or after an execution never rolls its result back (the regressions of
\* tests/cron/test_cron_service.py:1116, 1306).
NextRunNeverGoesBack ==
  [][\A j \in DOMAIN mem \cap DOMAIN mem' :
       running /\ running' /\ mem[j].sched.kind = "every" /\ mem'[j].sched = mem[j].sched
         => mem'[j].next = 0 \/ mem'[j].next >= mem[j].next]_vars

\* A tick starts no job that always recurs and has been removed or paused, unless
\* a save failed: the due list is taken once per tick (560-566), and it is the edit's
\* cancellation of the tick that keeps a job edited meanwhile from being started
\* out of it.
StartsOnlyEnabled ==
  [][\A t \in Tasks :
       task'[t].occ # NoOcc /\ task'[t].occ # task[t].occ =>
         LET j == task'[t].occ[1] IN
         \/ j \in DOMAIN mem' /\ mem'[j].enabled
         \/ j \in OneShot \/ budget.fails > 0]_vars

Overdue(j) == /\ running /\ j \in DOMAIN mem /\ mem[j].enabled
              /\ mem[j].next # 0 /\ mem[j].next <= now

\* A job that is due is run, or edited so that it is not, or the service stops,
\* or a tick comes to wait for a turn that is never reported: interruptions,
\* failed saves, busy ticks and manual runs that never end delay it but do not
\* lose it, as long as a cancelled job unwinds at once (SlowUnwind = {}).
DueJobsRun == \A j \in Jobs : []<>(~Overdue(j) \/ hung # {})

\* "One-time - runs once at a specific time, then auto-deletes"
\* (ruiclaw/skills/cron/SKILL.md:16): no tick starts the same one-shot
\* occurrence twice.
OneTimeRunsOnce ==
  [][\A t \in Tasks :
       task'[t].occ # task[t].occ /\ task'[t].occ # NoOcc
         => \/ task'[t].occ \notin fired
            \/ LET j == task'[t].occ[1] IN
               j \in DOMAIN mem' => mem'[j].sched.kind = "every"]_vars
=============================================================================
