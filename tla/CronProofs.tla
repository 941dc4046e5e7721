----------------------------- MODULE CronProofs -----------------------------
(***************************************************************************)
(* For any number of jobs, timer tasks, edits, failed writes and restarts: *)
(* while the scheduler runs it has exactly one live timer task, its data   *)
(* keep their types, and no tick starts a job that was removed or paused.  *)
(* In a service that nobody stops, acknowledged edits survive, except the  *)
(* lines of a journal merge that was not saved when the process ended.     *)
(* Where a cancelled job unwinds at once, only a new schedule takes a next *)
(* run back and only a cancelled tick has an occurrence repeated.          *)
(***************************************************************************)
EXTENDS CronService, QueueLemmas, FiniteSetTheorems

\* A timer task, whatever data it holds.
TaskShape(x) ==
  /\ x = [pc |-> x.pc, occ |-> x.occ, due |-> x.due, cancelled |-> x.cancelled]
  /\ x.pc \in {"off", "sleep", "run"}
  /\ x.cancelled \in BOOLEAN

\* Timer tasks ts are records.
Shaped(ts) ==
  /\ ts = [t \in Tasks |-> ts[t]]
  /\ \A t \in Tasks : TaskShape(ts[t])

\* OneLiveTick of the tasks ts and the timer tm.
OneLive(ts, tm) ==
  \A t \in Tasks : ts[t].pc # "off" /\ ~ts[t].cancelled => t = tm

\* The timer properties, and what a stopped service or a dead process lacks.
TimerInv ==
  /\ Shaped(task)
  /\ timer \in Tasks \cup {NoTask}
  /\ {up, running} \subseteq BOOLEAN
  /\ running => up
  /\ ~running => timer = NoTask
  /\ ~up => \A t \in Tasks : task[t].pc = "off"
  /\ OneLiveTick
  /\ TimerNeverLost

----------------------------------------------------------------------------

\* The tasks the code creates and ends have the shape of tasks.
LEMMA OffAndAsleep ==
  /\ TaskShape(Off) /\ Off.pc = "off"
  /\ TaskShape(Asleep) /\ Asleep.pc = "sleep" /\ ~Asleep.cancelled
<1>1. Off.pc = "off" /\ Off.occ = NoOcc /\ Off.due = {} /\ Off.cancelled = FALSE
  BY DEF Off
<1>2. Asleep.pc = "sleep" /\ Asleep.occ = NoOcc /\ Asleep.due = {} /\ Asleep.cancelled = FALSE
  BY DEF Asleep
<1> QED BY <1>1, <1>2 DEF TaskShape, Off, Asleep

\* Cancelling the timer leaves no live task.
LEMMA CancelKillsTimer ==
  ASSUME NEW ts, Shaped(ts), OneLive(ts, timer)
  PROVE  /\ Shaped(CancelTimer(ts))
         /\ \A t \in Tasks : \/ CancelTimer(ts)[t].pc = "off"
                             \/ CancelTimer(ts)[t].cancelled
<1> DEFINE left == CancelTimer(ts)
<1>1. \A t \in Tasks : left[t] = IF t # timer THEN ts[t]
                                 ELSE IF ts[t].pc = "run"
                                      THEN [ts[t] EXCEPT !.cancelled = TRUE]
                                      ELSE Off
  BY DEF CancelTimer
<1>2. ASSUME NEW t \in Tasks
      PROVE  /\ TaskShape(left[t])
             /\ left[t].pc = "off" \/ left[t].cancelled
  <2> HIDE DEF left
  <2>1. CASE t # timer
    BY <1>1, <2>1 DEF Shaped, OneLive
  <2>2. CASE t = timer /\ ts[t].pc = "run"
    BY <1>1, <2>2 DEF Shaped, TaskShape
  <2>3. CASE t = timer /\ ts[t].pc # "run"
    BY <1>1, <2>3, OffAndAsleep DEF Shaped, TaskShape
  <2> QED BY <2>1, <2>2, <2>3
<1>3. left = [t \in Tasks |-> left[t]]
  BY DEF CancelTimer
<1> QED BY <1>2, <1>3 DEF Shaped

\* _arm_timer: of a running service, the new timer is the one live task; of a
\* stopped one, none is left.
LEMMA ArmGivesOneTimer ==
  ASSUME NEW ts, Shaped(ts), OneLive(ts, timer),
         timer \in Tasks \cup {NoTask}, ArmTimer(ts)
  PROVE  /\ Shaped(task') /\ OneLive(task', timer')
         /\ timer' \in Tasks \cup {NoTask}
         /\ running => timer' \in Tasks /\ task'[timer'] = Asleep
         /\ ~running => timer' = timer
<1> DEFINE left == CancelTimer(ts)
<1>1. /\ Shaped(left)
      /\ \A t \in Tasks : left[t].pc = "off" \/ left[t].cancelled
  BY CancelKillsTimer
<1>2. CASE running
  <2>1. /\ Free(left) # {} /\ timer' \in Free(left)
        /\ task' = [left EXCEPT ![timer'] = Asleep]
    BY <1>2 DEF ArmTimer
  <2> HIDE DEF left
  <2>2. timer' \in Tasks
    BY <2>1 DEF Free
  <2>3. \A t \in Tasks : task'[t] = IF t = timer' THEN Asleep ELSE left[t]
    BY <2>1, <1>1 DEF Shaped
  <2>4. task' = [t \in Tasks |-> task'[t]]
    BY <2>1, <1>1 DEF Shaped
  <2>5. Shaped(task')
    <3>1. ASSUME NEW t \in Tasks
          PROVE  /\ TaskShape(task'[t])
      BY <2>3, <1>1, OffAndAsleep DEF Shaped
    <3> QED BY <3>1, <2>4 DEF Shaped
  <2>6. OneLive(task', timer')
    BY <2>3, <1>1 DEF OneLive
  <2> QED BY <1>2, <2>2, <2>3, <2>5, <2>6
<1>3. CASE ~running
  <2>1. timer' = timer /\ task' = left
    BY <1>3 DEF ArmTimer
  <2> HIDE DEF left
  <2> QED BY <1>1, <1>3, <2>1 DEF OneLive
<1> QED BY <1>2, <1>3

\* A tick that goes on to a job stays what it is.
LEMMA RunningKeepsShape ==
  ASSUME NEW t \in Tasks, NEW occ, NEW due, Shaped(task),
         task' = [task EXCEPT ![t] = Running(occ, due)]
  PROVE  /\ Shaped(task')
         /\ task'[t] = Running(occ, due)
         /\ \A s \in Tasks \ {t} : task'[s] = task[s]
<1>1. \A s \in Tasks : task'[s] = IF s = t THEN Running(occ, due) ELSE task[s]
  BY DEF Shaped
<1>2. task' = [s \in Tasks |-> task'[s]]
  BY DEF Shaped
<1>3. ASSUME NEW s \in Tasks
      PROVE  /\ TaskShape(task'[s])
  BY <1>1 DEF Shaped, TaskShape, Running
<1> QED BY <1>1, <1>2, <1>3 DEF Shaped

\* A tick that is over leaves its slot.
LEMMA OffKeepsShape ==
  ASSUME NEW t \in Tasks, Shaped(task), OneLive(task, timer)
  PROVE  /\ Shaped([task EXCEPT ![t] = Off])
         /\ OneLive([task EXCEPT ![t] = Off], timer)
<1> DEFINE ts == [task EXCEPT ![t] = Off]
<1>1. \A s \in Tasks : ts[s] = IF s = t THEN Off ELSE task[s]
  BY DEF Shaped
<1>2. ts = [s \in Tasks |-> ts[s]]
  BY DEF Shaped
<1> HIDE DEF ts
<1>3. ASSUME NEW s \in Tasks
      PROVE  /\ TaskShape(ts[s])
  BY <1>1, OffAndAsleep DEF Shaped
<1>4. OneLive(ts, timer)
  BY <1>1, OffAndAsleep DEF OneLive
<1> QED BY <1>2, <1>3, <1>4 DEF Shaped, ts

\* A step that re-arms the timer of a live process and changes neither up nor
\* running preserves TimerInv.
LEMMA ArmKeepsTimerInv ==
  ASSUME TimerInv, up, NEW ts, Shaped(ts), OneLive(ts, timer), ArmTimer(ts),
         UNCHANGED <<up, running>>
  PROVE  TimerInv'
<1>1. /\ Shaped(task') /\ OneLive(task', timer')
      /\ timer' \in Tasks \cup {NoTask}
      /\ running => timer' \in Tasks /\ task'[timer'] = Asleep
      /\ ~running => timer' = timer
  BY ArmGivesOneTimer DEF TimerInv
<1>2. OneLiveTick'
  BY <1>1 DEF OneLive, OneLiveTick
<1>3. TimerNeverLost'
  BY <1>1, CronAssumption DEF TimerNeverLost, Asleep
<1>4. Shaped(task)'
  BY <1>1 DEF Shaped
<1> QED BY <1>1, <1>2, <1>3, <1>4 DEF TimerInv

\* So does a step that leaves the tasks and the process alone.
LEMMA QuietStep ==
  ASSUME TimerInv, UNCHANGED <<up, running, task, timer>>
  PROVE  TimerInv'
BY DEF TimerInv, Shaped, OneLiveTick, TimerNeverLost

\* TimerInv' of an edit.
LEMMA EditKeepsTimerInv ==
  ASSUME TimerInv, up, NEW jobs, NEW entry, Edit(jobs, entry), UNCHANGED <<up, running>>
  PROVE  TimerInv'
<1>1. Shaped(task) /\ OneLive(task, timer)
  BY DEF TimerInv, OneLiveTick, OneLive
<1>2. ArmTimer(task) \/ UNCHANGED <<task, timer>>
  BY DEF Edit
<1> QED BY <1>1, <1>2, ArmKeepsTimerInv, QuietStep

LEMMA InitTimerInv == Init => TimerInv
BY CronAssumption, OffAndAsleep DEF Init, TimerInv, Shaped, OneLiveTick, TimerNeverLost

\* Every tick preserves TimerInv.
LEMMA TickKeepsTimerInv ==
  ASSUME TimerInv, NEW t \in Tasks, TaskStep(t)
  PROVE  TimerInv'
<1>1. /\ Shaped(task) /\ OneLive(task, timer)
      /\ Shaped([task EXCEPT ![t] = Off]) /\ OneLive([task EXCEPT ![t] = Off], timer)
  BY OffKeepsShape DEF TimerInv, OneLiveTick, OneLive
<1>2. task[t].pc # "off"
  BY <1>1 DEF TaskStep, Wakes, TickFlushes, TickIdles, TickMergeFails, TickStarts,
              NextJob, TickEnds, TickCancelled, Shaped, TaskShape
<1>3. up
  BY <1>2 DEF TimerInv
<1>4. CASE TickFlushes(t)
  BY <1>1, <1>3, <1>4, ArmKeepsTimerInv DEF TickFlushes
<1>5. CASE TickIdles(t)
  BY <1>1, <1>3, <1>5, ArmKeepsTimerInv DEF TickIdles
<1>6. CASE TickMergeFails(t)
  BY <1>1, <1>3, <1>6, ArmKeepsTimerInv DEF TickMergeFails
<1>7. CASE TickEnds(t)
  BY <1>1, <1>3, <1>7, ArmKeepsTimerInv DEF TickEnds
<1>8. CASE TickCancelled(t)
  BY <1>1, <1>3, <1>8, ArmKeepsTimerInv DEF TickCancelled
<1>9. CASE TickStarts(t) \/ NextJob(t)
  <2>1. /\ UNCHANGED <<up, running, timer>>
        /\ \E occ, due : task' = [task EXCEPT ![t] = Running(occ, due)]
        /\ ~task[t].cancelled
    <3>1. CASE TickStarts(t)
      <4>1. timer = t /\ task[t].pc = "sleep"
        BY <3>1 DEF TickStarts, Wakes
      <4>2. running
        BY <4>1, CronAssumption DEF TimerInv
      <4> QED BY <3>1, <4>1, <4>2 DEF TickStarts, TimerInv, TimerNeverLost
    <3>2. CASE NextJob(t)
      BY <3>2 DEF NextJob
    <3> QED BY <1>9, <3>1, <3>2
  <2>2. PICK occ, due : task' = [task EXCEPT ![t] = Running(occ, due)]
    BY <2>1
  <2>3. /\ Shaped(task') /\ task'[t] = Running(occ, due)
        /\ \A s \in Tasks \ {t} : task'[s] = task[s]
    BY <1>1, <2>2, RunningKeepsShape
  <2>4. task'[t].pc = "run" /\ ~task'[t].cancelled
    BY <2>3 DEF Running
  <2>5. timer = t
    BY <1>1, <1>2, <2>1 DEF OneLive
  <2>6. OneLiveTick' /\ TimerNeverLost'
    BY <2>1, <2>3, <2>4, <2>5, CronAssumption DEF TimerInv, OneLiveTick, TimerNeverLost
  <2>7. Shaped(task)'
    BY <2>3 DEF Shaped
  <2> QED BY <1>3, <2>1, <2>6, <2>7 DEF TimerInv
<1> QED BY <1>4, <1>5, <1>6, <1>7, <1>8, <1>9 DEF TaskStep

\* Starting arms a first timer in a process that has none.
LEMMA StartKeepsTimerInv == TimerInv /\ Start => TimerInv'
<1> SUFFICES ASSUME TimerInv, Start PROVE TimerInv'
  OBVIOUS
<1>1. /\ ~up /\ up' = TRUE /\ running' = TRUE
      /\ timer' \in Tasks /\ task' = [task EXCEPT ![timer'] = Asleep]
  BY CronAssumption DEF Start
<1>2. \A t \in Tasks : task'[t] = IF t = timer' THEN Asleep ELSE task[t]
  BY <1>1 DEF TimerInv, Shaped
<1>3. task' = [t \in Tasks |-> task'[t]]
  BY <1>1 DEF TimerInv, Shaped
<1>4. Shaped(task)'
  BY <1>2, <1>3, OffAndAsleep DEF TimerInv, Shaped
<1>5. OneLiveTick' /\ TimerNeverLost'
  BY <1>1, <1>2, OffAndAsleep, CronAssumption DEF TimerInv, OneLiveTick, TimerNeverLost
<1> QED BY <1>1, <1>4, <1>5 DEF TimerInv

\* Stopping leaves no live task and no timer.
LEMMA StopKeepsTimerInv == TimerInv /\ Stop => TimerInv'
<1> SUFFICES ASSUME TimerInv, Stop PROVE TimerInv'
  OBVIOUS
<1>1. /\ up /\ up' = up /\ running' = FALSE /\ timer' = NoTask
      /\ task' = CancelTimer(task)
  BY DEF Stop, EditGuard
<1>2. Shaped(task) /\ OneLive(task, timer)
  BY DEF TimerInv, OneLiveTick, OneLive
<1>3. /\ Shaped(task')
      /\ \A t \in Tasks : task'[t].pc = "off" \/ task'[t].cancelled
  BY <1>1, <1>2, CancelKillsTimer
<1>4. Shaped(task)'
  BY <1>3 DEF Shaped
<1>5. OneLiveTick' /\ TimerNeverLost'
  BY <1>1, <1>3 DEF OneLiveTick, TimerNeverLost
<1> QED BY <1>1, <1>4, <1>5 DEF TimerInv

\* A dead process has no tasks.
LEMMA DownKeepsTimerInv == Down => TimerInv'
<1> SUFFICES ASSUME Down PROVE TimerInv'
  OBVIOUS
<1>1. /\ up' = FALSE /\ running' = FALSE /\ timer' = NoTask
      /\ task' = [t \in Tasks |-> Off]
  BY DEF Down
<1>2. Shaped(task)' /\ \A t \in Tasks : task'[t].pc = "off"
  BY <1>1, OffAndAsleep DEF Shaped
<1> QED BY <1>1, <1>2 DEF TimerInv, OneLiveTick, TimerNeverLost

\* A manual run re-arms the timer, or leaves it to the tick beside it.
LEMMA RunEndKeepsTimerInv ==
  ASSUME TimerInv, NEW r \in Runs, RunEnds(r)
  PROVE  TimerInv'
<1>1. /\ UNCHANGED <<up, running>>
      /\ (running /\ ArmTimer(task)) \/ UNCHANGED <<task, timer>>
  BY DEF RunEnds
<1>2. Shaped(task) /\ OneLive(task, timer)
  BY DEF TimerInv, OneLiveTick, OneLive
<1>3. CASE running /\ ArmTimer(task)
  BY <1>1, <1>2, <1>3, ArmKeepsTimerInv DEF TimerInv
<1>4. CASE UNCHANGED <<task, timer>>
  BY <1>1, <1>4, QuietStep
<1> QED BY <1>1, <1>3, <1>4

\* Every edit, from inside and outside the process, preserves TimerInv.
LEMMA JobEditKeepsTimerInv ==
  ASSUME TimerInv, NEW j \in Jobs, JobEdit(j)
  PROVE  TimerInv'
<1>1. CASE ExternalAdd(j) \/ ExternalRemove(j)
  BY <1>1, QuietStep DEF ExternalAdd, ExternalRemove
<1>2. CASE ~(ExternalAdd(j) \/ ExternalRemove(j))
  <2>1. up /\ UNCHANGED <<up, running>>
    BY <1>2 DEF JobEdit, AddJob, RemoveJob, EnableJob, DisableJob, UpdateJob, EditGuard, Change
  <2>2. \E jobs, entry : Edit(jobs, entry)
    BY <1>2 DEF JobEdit, AddJob, RemoveJob, EnableJob, DisableJob, UpdateJob, Change
  <2> QED BY <2>1, <2>2, EditKeepsTimerInv
<1> QED BY <1>1, <1>2

\* Some on_job comes to wait for ever.
Pauses == \E t \in Tasks : Hang(t)

LEMMA PauseEffect ==
  ASSUME Pauses \/ UNCHANGED vars
  PROVE  UNCHANGED <<now, up, running, mem, dirty, volatile, file, journal, task, timer,
                     manual, fired, excused, known, removed, lost, budget>>
BY DEF Pauses, Hang, vars, stores, history, ledger

\* TimerInv is inductive.
LEMMA NextTimerInv == TimerInv /\ [Next]_vars => TimerInv'
<1> SUFFICES ASSUME TimerInv, [Next]_vars PROVE TimerInv'
  OBVIOUS
<1>1. CASE \E t \in Tasks : TaskStep(t)
  BY <1>1, TickKeepsTimerInv
<1>2. CASE \E r \in Runs : RunEnds(r)
  BY <1>2, RunEndKeepsTimerInv
<1>3. CASE \E r \in Runs, j \in Jobs : RunJob(r, j)
  BY <1>3, QuietStep DEF RunJob
<1>4. CASE \E j \in Jobs : JobEdit(j)
  BY <1>4, JobEditKeepsTimerInv
<1>5. CASE ReadJobs \/ LoadFails \/ ClockTicks
  BY <1>5, QuietStep DEF ReadJobs, LoadFails, ClockTicks
<1>6. CASE Start
  BY <1>6, StartKeepsTimerInv
<1>7. CASE Stop
  BY <1>7, StopKeepsTimerInv
<1>8. CASE Exit \/ ExitInMerge
  BY <1>8, DownKeepsTimerInv DEF Exit, ExitInMerge
<1>9. CASE Pauses \/ UNCHANGED vars
  BY <1>9, PauseEffect, QuietStep
<1> QED BY <1>1, <1>2, <1>3, <1>4, <1>5, <1>6, <1>7, <1>8, <1>9 DEF Next, Pauses

LEMMA TimerInvAlways == Spec => []TimerInv
BY InitTimerInv, NextTimerInv, PTL DEF Spec

----------------------------------------------------------------------------

\* Edits, cancellations, manual runs and restarts never leave two ticks alive:
\* whatever _arm_timer is called from, the task it names is the only one that
\* takes due jobs (service.py:518-538).
THEOREM OneTimer == Spec => []OneLiveTick
<1>1. TimerInv => OneLiveTick
  BY DEF TimerInv
<1> QED BY <1>1, TimerInvAlways, PTL

\* No failed load or save, no cancelled tick and no edit leaves a running
\* scheduler without a timer that will be armed again (service.py:579-583).
THEOREM TimerAlwaysArmed == Spec => []TimerNeverLost
<1>1. TimerInv => TimerNeverLost
  BY DEF TimerInv
<1> QED BY <1>1, TimerInvAlways, PTL

----------------------------------------------------------------------------
(* Stores                                                                  *)

\* The records a job may have.
RecOf(j) == {rec \in JobRec : rec.sched \in Offers[j]}

LEMMA RecFields ==
  ASSUME NEW j \in Jobs, NEW rec
  PROVE  rec \in RecOf(j) <=>
           /\ rec = [enabled |-> rec.enabled, sched |-> rec.sched, drop |-> rec.drop, next |-> rec.next]
           /\ rec.enabled \in BOOLEAN /\ rec.drop \in BOOLEAN
           /\ rec.sched \in Offers[j] /\ rec.next \in 0 .. Horizon + MaxPeriod
<1>1. Offers[j] \subseteq Schedules
  BY CronAssumption
<1>2. rec \in JobRec <=>
           /\ rec = [enabled |-> rec.enabled, sched |-> rec.sched, drop |-> rec.drop, next |-> rec.next]
           /\ rec.enabled \in BOOLEAN /\ rec.drop \in BOOLEAN
           /\ rec.sched \in Schedules /\ rec.next \in 0 .. Horizon + MaxPeriod
  BY DEF JobRec
<1> QED BY <1>1, <1>2 DEF RecOf

\* What schedules are; only the jobs of OneShot may have a one-time schedule.
LEMMA OfferFields ==
  ASSUME NEW j \in Jobs, NEW sched, sched \in Offers[j]
  PROVE  /\ sched.kind \in {"at", "every"} /\ sched.n \in Nat \ {0}
         /\ sched.kind = "at" => sched.n <= Horizon /\ j \in OneShot
         /\ sched.kind = "every" => sched.n <= MaxPeriod
<1>1. sched \in Schedules
  BY CronAssumption
<1>2. CASE sched \in {Once(n) : n \in 1 .. Horizon}
  <2>1. PICK n \in 1 .. Horizon : sched = Once(n)
    BY <1>2
  <2>2. sched.kind = "at" /\ sched.n = n
    BY <2>1 DEF Once
  <2> QED BY <2>1, <2>2, CronAssumption DEF OneShot
<1>3. CASE sched \in {Every(n) : n \in 1 .. MaxPeriod}
  <2>1. PICK n \in 1 .. MaxPeriod : sched = Every(n)
    BY <1>3
  <2>2. sched.kind = "every" /\ sched.n = n
    BY <2>1 DEF Every
  <2> QED BY <2>1, <2>2, CronAssumption
<1> QED BY <1>1, <1>2, <1>3 DEF Schedules

LEMMA InStores ==
  ASSUME NEW f
  PROVE  f \in Stores <=> /\ DOMAIN f \subseteq Jobs /\ f = [j \in DOMAIN f |-> f[j]]
                          /\ \A j \in DOMAIN f : f[j] \in RecOf(j)
<1>1. ASSUME f \in Stores
      PROVE  /\ DOMAIN f \subseteq Jobs /\ f = [j \in DOMAIN f |-> f[j]]
             /\ \A j \in DOMAIN f : f[j] \in RecOf(j)
  <2>1. PICK S \in SUBSET Jobs : f \in [S -> JobRec]
    BY <1>1 DEF Stores
  <2>2. \A j \in DOMAIN f : f[j].sched \in Offers[j]
    BY <1>1 DEF Stores
  <2> QED BY <2>1, <2>2 DEF RecOf
<1>2. ASSUME /\ DOMAIN f \subseteq Jobs /\ f = [j \in DOMAIN f |-> f[j]]
             /\ \A j \in DOMAIN f : f[j] \in RecOf(j)
      PROVE  f \in Stores
  <2>1. f \in [DOMAIN f -> JobRec] /\ \A j \in DOMAIN f : f[j].sched \in Offers[j]
    BY <1>2 DEF RecOf
  <2> QED BY <1>2, <2>1 DEF Stores
<1> QED BY <1>1, <1>2

LEMMA EmptyStore == Empty \in Stores /\ DOMAIN Empty = {}
BY InStores DEF Empty

\* Storing a record changes nothing else.
LEMMA PutStore ==
  ASSUME NEW f \in Stores, NEW j \in Jobs, NEW rec, rec \in RecOf(j)
  PROVE  /\ Put(f, j, rec) \in Stores /\ DOMAIN Put(f, j, rec) = DOMAIN f \cup {j}
         /\ Put(f, j, rec)[j] = rec
         /\ \A k \in DOMAIN f \ {j} : Put(f, j, rec)[k] = f[k]
<1> DEFINE g == Put(f, j, rec)
<1>1. /\ DOMAIN f \subseteq Jobs /\ \A k \in DOMAIN f : f[k] \in RecOf(k)
  BY InStores
<1>2. /\ DOMAIN g = DOMAIN f \cup {j} /\ g = [k \in DOMAIN g |-> g[k]]
      /\ \A k \in DOMAIN g : g[k] = IF k = j THEN rec ELSE f[k]
  BY DEF Put
<1> HIDE DEF g
<1>3. \A k \in DOMAIN g : g[k] \in RecOf(k)
  BY <1>1, <1>2
<1>4. g \in Stores
  BY <1>1, <1>2, <1>3, InStores
<1> QED BY <1>2, <1>4 DEF g

\* Nor does dropping one.
LEMMA DropStore ==
  ASSUME NEW f \in Stores, NEW j
  PROVE  /\ Drop(f, j) \in Stores /\ DOMAIN Drop(f, j) = DOMAIN f \ {j}
         /\ \A k \in DOMAIN f \ {j} : Drop(f, j)[k] = f[k]
<1> DEFINE g == Drop(f, j)
<1>1. /\ DOMAIN f \subseteq Jobs /\ \A k \in DOMAIN f : f[k] \in RecOf(k)
  BY InStores
<1>2. /\ DOMAIN g = DOMAIN f \ {j} /\ g = [k \in DOMAIN g |-> g[k]]
      /\ \A k \in DOMAIN g : g[k] = f[k]
  BY DEF Drop
<1> HIDE DEF g
<1>3. \A k \in DOMAIN g : g[k] \in RecOf(k)
  BY <1>1, <1>2
<1>4. g \in Stores
  BY <1>1, <1>2, <1>3, InStores
<1> QED BY <1>2, <1>4 DEF g

\* A next run is ahead of the clock, or none.
LEMMA NextRunRange ==
  ASSUME now \in 0 .. Horizon, NEW j \in Jobs, NEW sched, sched \in Offers[j]
  PROVE  /\ NextRun(sched, now) \in 0 .. Horizon + MaxPeriod
         /\ NextRun(sched, now) = 0 \/ NextRun(sched, now) > now
         /\ sched.kind = "every" => NextRun(sched, now) = now + sched.n
BY OfferFields, CronAssumption DEF NextRun

\* Records with another next run.
Planning(rec, n)    == [rec EXCEPT !.next = n]
Setting(rec, en, n) == [rec EXCEPT !.enabled = en, !.next = n]

LEMMA ReplannedRec ==
  ASSUME NEW rec \in JobRec, NEW n \in 0 .. Horizon + MaxPeriod
  PROVE  /\ Planning(rec, n) \in JobRec /\ Planning(rec, n).enabled = rec.enabled
         /\ Planning(rec, n).next = n /\ Planning(rec, n).sched = rec.sched
BY DEF Planning, JobRec

LEMMA SetOff ==
  ASSUME NEW rec \in JobRec, NEW n \in 0 .. Horizon + MaxPeriod
  PROVE  /\ Setting(rec, FALSE, n) \in JobRec /\ Setting(rec, FALSE, n).enabled = FALSE
         /\ Setting(rec, FALSE, n).next = n /\ Setting(rec, FALSE, n).sched = rec.sched
BY DEF Setting, JobRec

LEMMA SetOn ==
  ASSUME NEW rec \in JobRec, NEW n \in 0 .. Horizon + MaxPeriod
  PROVE  /\ Setting(rec, TRUE, n) \in JobRec /\ Setting(rec, TRUE, n).enabled = TRUE
         /\ Setting(rec, TRUE, n).next = n /\ Setting(rec, TRUE, n).sched = rec.sched
BY DEF Setting, JobRec

\* The end of an execution touches its job only, and leaves it with a run
\* ahead or disabled.
LEMMA FinishStore ==
  ASSUME now \in 0 .. Horizon, NEW f \in Stores, NEW j \in Jobs
  PROVE  /\ Finish(f, j) \in Stores
         /\ DOMAIN Finish(f, j) \subseteq DOMAIN f
         /\ DOMAIN f \ OneShot \subseteq DOMAIN Finish(f, j)
         /\ DOMAIN f \ {j} \subseteq DOMAIN Finish(f, j)
         /\ \A k \in DOMAIN Finish(f, j) \ {j} : Finish(f, j)[k] = f[k]
         /\ j \in DOMAIN Finish(f, j) =>
              \/ /\ Finish(f, j)[j].sched.kind = "at" /\ j \in OneShot
                 /\ ~Finish(f, j)[j].enabled
              \/ /\ Finish(f, j)[j].sched.kind = "every" /\ Finish(f, j)[j].sched = f[j].sched
                 /\ Finish(f, j)[j].enabled = f[j].enabled
                 /\ Finish(f, j)[j].next = now + f[j].sched.n
<1>1. CASE j \notin DOMAIN f
  BY <1>1 DEF Finish
<1>2. ASSUME j \in DOMAIN f
      PROVE  /\ f[j] \in RecOf(j) /\ f[j].sched \in Offers[j]
             /\ f[j].sched.kind \in {"at", "every"}
             /\ f[j].sched.kind = "at" => j \in OneShot
  <2>1. f[j] \in RecOf(j)
    BY <1>2, InStores
  <2>2. f[j].sched \in Offers[j]
    BY <2>1 DEF RecOf
  <2> QED BY <2>1, <2>2, OfferFields
<1>3. CASE j \in DOMAIN f /\ f[j].sched.kind = "every"
  <2> DEFINE n == NextRun(f[j].sched, now)
             new == Planning(f[j], n)
  <2>1. n \in 0 .. Horizon + MaxPeriod /\ n = now + f[j].sched.n
    BY <1>2, <1>3, NextRunRange
  <2>2. Finish(f, j) = Put(f, j, new)
    BY <1>3 DEF Finish, Planning
  <2> HIDE DEF n
  <2>a. f[j] \in JobRec
    BY <1>2, <1>3 DEF RecOf
  <2>b. new \in JobRec /\ new.enabled = f[j].enabled /\ new.next = n /\ new.sched = f[j].sched
    BY <2>1, <2>a, ReplannedRec
  <2>3. new \in RecOf(j) /\ new.enabled = f[j].enabled /\ new.next = n /\ new.sched = f[j].sched
    BY <1>2, <1>3, <2>b DEF RecOf
  <2> HIDE DEF new
  <2>4. DOMAIN f \cup {j} = DOMAIN f
    BY <1>3
  <2>c. Put(f, j, new) \in Stores
    BY <2>3, PutStore
  <2>d. /\ DOMAIN Put(f, j, new) = DOMAIN f \cup {j} /\ Put(f, j, new)[j] = new
        /\ \A k \in DOMAIN f \ {j} : Put(f, j, new)[k] = f[k]
    BY DEF Put
  <2>5. /\ Finish(f, j) \in Stores /\ DOMAIN Finish(f, j) = DOMAIN f /\ Finish(f, j)[j] = new
        /\ \A k \in DOMAIN f \ {j} : Finish(f, j)[k] = f[k]
    BY <2>2, <2>4, <2>c, <2>d
  <2> QED BY <1>3, <2>1, <2>3, <2>5
<1>4. CASE j \in DOMAIN f /\ f[j].sched.kind # "every" /\ ~f[j].drop
  <2> DEFINE new == Setting(f[j], FALSE, 0)
  <2>1. 0 \in 0 .. Horizon + MaxPeriod
    BY CronAssumption
  <2>a. f[j] \in JobRec
    BY <1>2, <1>4 DEF RecOf
  <2>b. new \in JobRec /\ new.enabled = FALSE /\ new.sched = f[j].sched
    BY <2>1, <2>a, SetOff
  <2>2. new \in RecOf(j) /\ new.enabled = FALSE /\ new.sched = f[j].sched
    BY <1>2, <1>4, <2>b DEF RecOf
  <2>3. Finish(f, j) = Put(f, j, new)
    BY <1>4 DEF Finish, Setting
  <2> HIDE DEF new
  <2>4. DOMAIN f \cup {j} = DOMAIN f
    BY <1>4
  <2>c. Put(f, j, new) \in Stores
    BY <2>2, PutStore
  <2>d. /\ DOMAIN Put(f, j, new) = DOMAIN f \cup {j} /\ Put(f, j, new)[j] = new
        /\ \A k \in DOMAIN f \ {j} : Put(f, j, new)[k] = f[k]
    BY DEF Put
  <2>5. /\ Finish(f, j) \in Stores /\ DOMAIN Finish(f, j) = DOMAIN f /\ Finish(f, j)[j] = new
        /\ \A k \in DOMAIN f \ {j} : Finish(f, j)[k] = f[k]
    BY <2>3, <2>4, <2>c, <2>d
  <2> QED BY <1>2, <1>4, <2>2, <2>5
<1>5. CASE j \in DOMAIN f /\ f[j].sched.kind # "every" /\ f[j].drop
  <2>1. Finish(f, j) = Drop(f, j)
    BY <1>5 DEF Finish
  <2>2. /\ Finish(f, j) \in Stores /\ DOMAIN Finish(f, j) = DOMAIN f \ {j}
        /\ \A k \in DOMAIN f \ {j} : Finish(f, j)[k] = f[k]
    BY <2>1, DropStore
  <2> QED BY <1>2, <1>5, <2>2
<1> QED BY <1>1, <1>3, <1>4, <1>5

LEMMA RecomputedStore ==
  ASSUME now \in 0 .. Horizon, NEW f \in Stores
  PROVE  /\ Recomputed(f) \in Stores /\ DOMAIN Recomputed(f) = DOMAIN f
         /\ \A j \in DOMAIN f :
              LET r == Recomputed(f)[j] IN
              IF f[j].enabled
              THEN /\ r.next = 0 \/ r.next > now
                   /\ r.sched = f[j].sched
                   /\ r.sched.kind = "every" => r.next = now + r.sched.n
              ELSE r = f[j]
<1> DEFINE g == Recomputed(f)
<1>1. /\ DOMAIN f \subseteq Jobs /\ \A k \in DOMAIN f : f[k] \in RecOf(k)
  BY InStores
<1>2. /\ DOMAIN g = DOMAIN f /\ g = [k \in DOMAIN g |-> g[k]]
      /\ \A k \in DOMAIN g :
           g[k] = IF f[k].enabled THEN Planning(f[k], NextRun(f[k].sched, now)) ELSE f[k]
  BY DEF Recomputed, Planning
<1> HIDE DEF g
<1>3. ASSUME NEW k \in DOMAIN g
      PROVE  /\ g[k] \in RecOf(k)
             /\ IF f[k].enabled
                THEN /\ g[k].next = 0 \/ g[k].next > now
                     /\ g[k].sched = f[k].sched
                     /\ g[k].sched.kind = "every" => g[k].next = now + g[k].sched.n
                ELSE g[k] = f[k]
  <2> DEFINE n == NextRun(f[k].sched, now)
  <2>1. k \in Jobs /\ f[k] \in RecOf(k) /\ f[k].sched \in Offers[k]
    BY <1>1, <1>2 DEF RecOf
  <2>2. /\ n \in 0 .. Horizon + MaxPeriod /\ (n = 0 \/ n > now)
        /\ f[k].sched.kind = "every" => n = now + f[k].sched.n
    BY <2>1, NextRunRange
  <2>3. g[k] = IF f[k].enabled THEN Planning(f[k], n) ELSE f[k]
    BY <1>2
  <2> HIDE DEF n
  <2>4. /\ Planning(f[k], n) \in RecOf(k) /\ Planning(f[k], n).next = n
        /\ Planning(f[k], n).sched = f[k].sched
    <3>1. f[k] \in JobRec
      BY <2>1 DEF RecOf
    <3>2. /\ Planning(f[k], n) \in JobRec /\ Planning(f[k], n).next = n
          /\ Planning(f[k], n).sched = f[k].sched
      BY <2>2, <3>1, ReplannedRec
    <3> QED BY <2>1, <3>2 DEF RecOf
  <2> QED BY <2>1, <2>2, <2>3, <2>4
<1>4. g \in Stores
  BY <1>1, <1>2, <1>3, InStores
<1> QED BY <1>2, <1>3, <1>4 DEF g

----------------------------------------------------------------------------
(* The journal                                                             *)

IsLine(e) ==
  /\ e.job \in Jobs
  /\ \/ e = Del(e.job)
     \/ e = Update(e.job, e.rec) /\ e.rec \in RecOf(e.job)
JournalOK(jr) == IsSeq(jr) /\ \A e \in ToSet(jr) : IsLine(e)

\* The jobs with a line of each kind, and those whose last line is an update.
Updated(jr) == {e.job : e \in {x \in ToSet(jr) : x.action = "update"}}
Deleted(jr) == {e.job : e \in {x \in ToSet(jr) : x.action = "del"}}
Kept(jr)    == {e.job : e \in Updates(jr)}

LEMMA LinesOK ==
  ASSUME NEW jr, JournalOK(jr)
  PROVE  /\ LastLines(jr) \subseteq ToSet(jr)
         /\ \A e \in ToSet(jr) : IsLine(e) /\ e.action \in {"update", "del"}
         /\ Kept(jr) \subseteq Told(jr) /\ Kept(jr) \subseteq Updated(jr)
         /\ Told(jr) \subseteq Kept(jr) \cup Deleted(jr)
         /\ Updated(jr) \subseteq Jobs
<1>1. LastLines(jr) \subseteq ToSet(jr)
  BY DEF LastLines, ToSet
<1>2. \A e \in ToSet(jr) : IsLine(e) /\ e.action \in {"update", "del"}
  BY DEF JournalOK, IsLine, Update, Del
<1> QED BY <1>1, <1>2 DEF Kept, Told, Updated, Deleted, Updates, IsLine

\* Only the jobs the journal tells of are other than in the store it is
\* replayed over.
LEMMA ReplayedJob ==
  ASSUME NEW b \in Stores, NEW jr, JournalOK(jr), NEW j
  PROVE  /\ j \in DOMAIN Replay(b, jr) <=> (j \in DOMAIN b /\ j \notin Told(jr)) \/ j \in Kept(jr)
         /\ j \in DOMAIN b /\ j \notin Told(jr) => Replay(b, jr)[j] = b[j]
         /\ j \in Kept(jr) => \E e \in ToSet(jr) :
              /\ e.action = "update" /\ e.job = j /\ e.rec \in RecOf(j)
              /\ Replay(b, jr)[j] = e.rec
<1> DEFINE g == Replay(b, jr)
<1>1. /\ DOMAIN g = (DOMAIN b \ Told(jr)) \cup Kept(jr)
      /\ \A k \in DOMAIN g : g[k] = IF k \in Told(jr)
                                    THEN (CHOOSE e \in Updates(jr) : e.job = k).rec ELSE b[k]
  BY DEF Replay, Kept
<1> HIDE DEF g
<1>2. ASSUME j \in Kept(jr)
      PROVE  \E e \in ToSet(jr) :
               /\ e.action = "update" /\ e.job = j /\ e.rec \in RecOf(j)
               /\ g[j] = e.rec
  <2> DEFINE e == CHOOSE x \in Updates(jr) : x.job = j
  <2>1. e \in Updates(jr) /\ e.job = j
    BY <1>2 DEF Kept
  <2>2. g[j] = e.rec
    BY <1>1, <1>2, LinesOK
  <2> HIDE DEF e
  <2>3. e \in ToSet(jr) /\ e.action = "update"
    BY <2>1, LinesOK DEF Updates
  <2>4. e.rec \in RecOf(j)
    BY <2>1, <2>3, LinesOK DEF IsLine, Del
  <2> QED BY <2>1, <2>2, <2>3, <2>4
<1>3. j \in DOMAIN b /\ j \notin Told(jr) => g[j] = b[j]
  BY <1>1
<1>4. j \in DOMAIN g <=> (j \in DOMAIN b /\ j \notin Told(jr)) \/ j \in Kept(jr)
  BY <1>1
<1> QED BY <1>2, <1>3, <1>4 DEF g

LEMMA ReplayStore ==
  ASSUME NEW b \in Stores, NEW jr, JournalOK(jr)
  PROVE  /\ Replay(b, jr) \in Stores
         /\ DOMAIN Replay(b, jr) = (DOMAIN b \ Told(jr)) \cup Kept(jr)
<1> DEFINE g == Replay(b, jr)
<1>1. DOMAIN b \subseteq Jobs /\ \A k \in DOMAIN b : b[k] \in RecOf(k)
  BY InStores
<1>2. DOMAIN g = (DOMAIN b \ Told(jr)) \cup Kept(jr) /\ g = [k \in DOMAIN g |-> g[k]]
  BY DEF Replay, Kept
<1>3. \A j \in DOMAIN g : g[j] \in RecOf(j)
  BY <1>1, ReplayedJob
<1> HIDE DEF g
<1>4. DOMAIN g \subseteq Jobs
  BY <1>1, <1>2, LinesOK
<1>5. g \in Stores
  BY <1>2, <1>3, <1>4, InStores
<1> QED BY <1>2, <1>5 DEF g

LEMMA NoJournal ==
  /\ JournalOK(<<>>) /\ Told(<<>>) = {} /\ Kept(<<>>) = {}
  /\ Updated(<<>>) = {} /\ Deleted(<<>>) = {}
  /\ \A b \in Stores : Replay(b, <<>>) = b
<1>1. JournalOK(<<>>) /\ ToSet(<<>>) = {}
  BY EmptyIsSeq DEF JournalOK
<1>2. LastLines(<<>>) = {}
  BY <1>1, LinesOK
<1>3. Told(<<>>) = {} /\ Kept(<<>>) = {} /\ Updates(<<>>) = {}
  BY <1>2 DEF Told, Kept, Updates
<1>4. Updated(<<>>) = {} /\ Deleted(<<>>) = {}
  BY <1>1 DEF Updated, Deleted
<1>5. ASSUME NEW b \in Stores PROVE Replay(b, <<>>) = b
  <2>1. Replay(b, <<>>) \in Stores /\ DOMAIN Replay(b, <<>>) = DOMAIN b
        /\ \A j \in DOMAIN b : Replay(b, <<>>)[j] = b[j]
    BY <1>1, <1>3, ReplayStore, ReplayedJob
  <2>2. /\ b = [j \in DOMAIN b |-> b[j]]
        /\ Replay(b, <<>>) = [j \in DOMAIN Replay(b, <<>>) |-> Replay(b, <<>>)[j]]
    BY <2>1, InStores
  <2> QED BY <2>1, <2>2
<1> QED BY <1>1, <1>3, <1>4, <1>5

\* A line at the end decides about its job.
LEMMA AppendLine ==
  ASSUME NEW jr, JournalOK(jr), NEW e, IsLine(e)
  PROVE  /\ JournalOK(Append(jr, e)) /\ ToSet(Append(jr, e)) = ToSet(jr) \cup {e}
         /\ Told(Append(jr, e)) = Told(jr) \cup {e.job}
         /\ Kept(Append(jr, e)) = IF e.action = "update" THEN Kept(jr) \cup {e.job}
                                                        ELSE Kept(jr) \ {e.job}
<1> DEFINE q == Append(jr, e)
           n == Len(jr)
<1>1. IsSeq(q) /\ ToSet(q) = ToSet(jr) \cup {e}
  BY AppendIsSeq DEF JournalOK
<1>2. JournalOK(q)
  BY <1>1 DEF JournalOK
<1>3. /\ n \in Nat /\ DOMAIN jr = 1 .. n /\ DOMAIN q = 1 .. n + 1
      /\ \A i \in 1 .. n : q[i] = jr[i]
      /\ q[n + 1] = e
  <2>1. jr \in Seq(ToSet(jr) \cup {e})
    BY DEF JournalOK, IsSeq
  <2> QED BY <2>1
<1> HIDE DEF q, n
<1>4. LastLines(q) = {x \in LastLines(jr) : x.job # e.job} \cup {e}
  <2> DEFINE LastIn(s, k) == \A m \in DOMAIN s : s[m].job = s[k].job => m <= k
  <2>1. LastIn(q, n + 1)
    BY <1>3
  <2>2. ASSUME NEW i \in 1 .. n
        PROVE  LastIn(q, i) <=> LastIn(jr, i) /\ jr[i].job # e.job
    <3>1. i \in DOMAIN jr /\ i \in DOMAIN q /\ q[i] = jr[i] /\ ~(n + 1 <= i)
      BY <1>3
    <3> QED BY <1>3, <3>1
  <2>3. LastLines(q) = {q[i] : i \in {k \in DOMAIN q : LastIn(q, k)}}
    BY DEF LastLines
  <2>4. LastLines(jr) = {jr[i] : i \in {k \in DOMAIN jr : LastIn(jr, k)}}
    BY DEF LastLines
  <2> HIDE DEF LastIn
  <2>5. DOMAIN q = DOMAIN jr \cup {n + 1}
    BY <1>3
  <2>6. ASSUME NEW x PROVE x \in LastLines(q) <=> (x \in LastLines(jr) /\ x.job # e.job) \/ x = e
    <3>1. ASSUME x \in LastLines(q) PROVE (x \in LastLines(jr) /\ x.job # e.job) \/ x = e
      <4>1. PICK i \in DOMAIN q : LastIn(q, i) /\ x = q[i]
        BY <2>3, <3>1
      <4> QED BY <1>3, <2>2, <2>4, <2>5, <4>1
    <3>2. ASSUME x \in LastLines(jr), x.job # e.job PROVE x \in LastLines(q)
      <4>1. PICK i \in DOMAIN jr : LastIn(jr, i) /\ x = jr[i]
        BY <2>4, <3>2
      <4>2. LastIn(q, i) /\ q[i] = x /\ i \in DOMAIN q
        BY <1>3, <2>2, <2>5, <3>2, <4>1
      <4> QED BY <2>3, <4>2
    <3>3. e \in LastLines(q)
      BY <1>3, <2>1, <2>3, <2>5
    <3> QED BY <3>1, <3>2, <3>3
  <2> QED BY <2>6
<1>5. Told(q) = Told(jr) \cup {e.job}
  BY <1>4 DEF Told
<1>6. Kept(q) = IF e.action = "update" THEN Kept(jr) \cup {e.job} ELSE Kept(jr) \ {e.job}
  BY <1>4 DEF Kept, Updates
<1> QED BY <1>1, <1>2, <1>5, <1>6 DEF q

----------------------------------------------------------------------------
(* The data of the scheduler                                               *)

Ticking   == {t \in Tasks : task[t].pc = "run"}
Manual    == {r \in Runs : manual[r] # NoJob}
Executing == Ticking # {} \/ Manual # {}
Live(x)   == x.pc = "run" /\ ~x.cancelled

\* The occurrence a tick runs has been recorded; nothing else has one.
TaskData(x, started) ==
  /\ x.due \subseteq Occurrences
  /\ IF x.pc = "run" THEN x.occ \in started ELSE x.occ = NoOcc /\ x.due = {}

StoreData == mem \in Stores /\ file \in Stores /\ JournalOK(journal) /\ dirty \in BOOLEAN

TaskStates ==
  /\ \A t \in Tasks : TaskData(task[t], fired)
  /\ IsFiniteSet(Ticking)

ManualData == manual \in [Runs -> Jobs \cup {NoJob}] /\ IsFiniteSet(Manual)

LedgerData ==
  /\ now \in 0 .. Horizon
  /\ fired \subseteq Occurrences /\ excused \subseteq fired
  /\ known \subseteq Jobs /\ removed \subseteq Jobs
  /\ budget \in [ops : Nat, fails : Nat, downs : Nat]

DataInv == StoreData /\ TaskStates /\ ManualData /\ LedgerData

\* The jobs a load of the running scheduler sees, and whether it empties the
\* journal for them.
Loaded == IF dirty \/ Executing THEN mem ELSE Replay(file, journal)
Merges == ~(dirty \/ Executing) /\ journal # <<>>

\* Active counts the executions: every load keeps the live store while there
\* is one.
LEMMA LoadRule ==
  ASSUME DataInv
  PROVE  /\ Active \in Nat /\ (Active > 0 <=> Executing)
         /\ Manual # {} /\ Active = 1 => Ticking = {}
         /\ (KeepsLive(FALSE) <=> dirty \/ Executing)
         /\ (KeepsLive(Active = 0) <=> dirty \/ Executing)
         /\ Store(FALSE) = Loaded /\ Store(Active = 0) = Loaded
         /\ (MergeWrites(FALSE, TRUE) <=> Merges)
         /\ (MergeWrites(Active = 0, TRUE) <=> Merges)
         /\ Merged(FALSE, TRUE) = IF Merges THEN <<>> ELSE journal
         /\ Merged(Active = 0, TRUE) = IF Merges THEN <<>> ELSE journal
         /\ Loaded \in Stores /\ Replay(mem, journal) \in Stores /\ Replay(file, journal) \in Stores
<1>1. /\ IsFiniteSet(Ticking) /\ IsFiniteSet(Manual)
      /\ Active = Cardinality(Ticking) + Cardinality(Manual)
  BY DEF DataInv, TaskStates, ManualData, Active, Ticking, Manual
<1>2. /\ Cardinality(Ticking) \in Nat /\ Cardinality(Manual) \in Nat
      /\ (Cardinality(Ticking) = 0 <=> Ticking = {})
      /\ (Cardinality(Manual) = 0 <=> Manual = {})
  BY <1>1, FS_CardinalityType, FS_EmptySet
<1>3. Active \in Nat /\ (Active > 0 <=> Executing) /\ (Manual # {} /\ Active = 1 => Ticking = {})
  BY <1>1, <1>2 DEF Executing
<1>4. Active = 0 <=> ~Executing
  BY <1>3
<1>5. /\ KeepsLive(FALSE) <=> dirty \/ Executing
      /\ KeepsLive(Active = 0) <=> dirty \/ Executing
  BY <1>3, <1>4 DEF KeepsLive
<1>6. Store(FALSE) = Loaded /\ Store(Active = 0) = Loaded
  BY <1>5 DEF Store, Loaded
<1>7. /\ MergeWrites(FALSE, TRUE) <=> Merges
      /\ MergeWrites(Active = 0, TRUE) <=> Merges
  BY <1>5 DEF MergeWrites, Merges
<1>8. /\ Merged(FALSE, TRUE) = IF Merges THEN <<>> ELSE journal
      /\ Merged(Active = 0, TRUE) = IF Merges THEN <<>> ELSE journal
  BY <1>7 DEF Merged
<1>9. Loaded \in Stores /\ Replay(mem, journal) \in Stores /\ Replay(file, journal) \in Stores
  BY ReplayStore DEF DataInv, StoreData, Loaded
<1> QED BY <1>3, <1>5, <1>6, <1>7, <1>8, <1>9

\* What a due list is.
LEMMA DueOcc ==
  ASSUME now \in 0 .. Horizon, NEW f \in Stores, NEW o \in DueIn(f)
  PROVE  /\ o \in Occurrences /\ o[1] \in DOMAIN f /\ f[o[1]].enabled
         /\ f[o[1]].next = o[2] /\ o[2] # 0 /\ o[2] <= now
<1>1. PICK j \in DOMAIN f : o = <<j, f[j].next>> /\ f[j].enabled /\ f[j].next # 0 /\ now >= f[j].next
  BY DEF DueIn
<1>2. j \in Jobs /\ f[j].next \in 0 .. Horizon + MaxPeriod
  BY InStores, RecFields
<1>3. f[j].next \in 1 .. Horizon
  BY <1>1, <1>2, CronAssumption
<1> QED BY <1>1, <1>2, <1>3 DEF Occurrences

----------------------------------------------------------------------------
(* What a step does to the timer tasks                                     *)

\* A task x has become y without starting anything.
Follows(x, y) ==
  \/ y.pc # "run" /\ y.occ = NoOcc /\ y.due = {} /\ ~y.cancelled
  \/ /\ y.pc = x.pc /\ y.occ = x.occ /\ y.due = x.due
     /\ y.cancelled = x.cancelled \/ (y.pc = "run" /\ y.cancelled)

NothingStarts == \A t \in Tasks : Follows(task[t], task'[t])
\* ... and nothing goes on.
AllQuiet == NothingStarts /\ \A t \in Tasks : ~Live(task'[t])
Starts(t, occ, due) == t \in Tasks /\ task' = [task EXCEPT ![t] = Running(occ, due)]

LEMMA FollowsItself == UNCHANGED task => NothingStarts
BY DEF NothingStarts, Follows

LEMMA CancelFollows ==
  ASSUME NEW ts, Shaped(ts)
  PROVE  \A t \in Tasks : Follows(ts[t], CancelTimer(ts)[t])
<1>1. \A t \in Tasks : CancelTimer(ts)[t] = IF t # timer THEN ts[t]
                                 ELSE IF ts[t].pc = "run"
                                      THEN [ts[t] EXCEPT !.cancelled = TRUE]
                                      ELSE Off
  BY DEF CancelTimer
<1> SUFFICES ASSUME NEW t \in Tasks PROVE Follows(ts[t], CancelTimer(ts)[t])
  OBVIOUS
<1>2. CASE t # timer
  BY <1>1, <1>2 DEF Follows
<1>3. CASE t = timer /\ ts[t].pc = "run"
  BY <1>1, <1>3 DEF Follows, Shaped, TaskShape
<1>4. CASE t = timer /\ ts[t].pc # "run"
  <2>1. CancelTimer(ts)[t] = Off
    BY <1>1, <1>4
  <2>2. Off.pc = "off" /\ Off.occ = NoOcc /\ Off.due = {} /\ Off.cancelled = FALSE
    BY DEF Off
  <2> HIDE DEF Off
  <2> QED BY <2>1, <2>2 DEF Follows
<1> QED BY <1>2, <1>3, <1>4

\* Arming the timer.
LEMMA ArmQuiets ==
  ASSUME TimerInv, NEW ts, ArmTimer(ts),
         \/ ts = task
         \/ \E t \in Tasks : ts = [task EXCEPT ![t] = Off]
  PROVE  AllQuiet
<1>1. Shaped(ts) /\ OneLive(ts, timer)
  BY OffKeepsShape DEF TimerInv, OneLiveTick, OneLive
<1>2. \A s \in Tasks : Follows(task[s], ts[s])
  BY DEF Follows, Off, TimerInv, Shaped
<1> DEFINE left == CancelTimer(ts)
<1>3. /\ Shaped(left)
      /\ \A t \in Tasks : left[t].pc = "off" \/ left[t].cancelled
  BY <1>1, CancelKillsTimer
<1>4. \A t \in Tasks : Follows(ts[t], left[t])
  BY <1>1, CancelFollows
<1>5. \A t \in Tasks : Follows(task[t], left[t])
  <2> SUFFICES ASSUME NEW t \in Tasks PROVE Follows(task[t], left[t])
    OBVIOUS
  <2>1. Follows(task[t], ts[t]) /\ Follows(ts[t], left[t])
    BY <1>2, <1>4
  <2> HIDE DEF left
  <2> QED BY <2>1 DEF Follows
<1>6. \A t \in Tasks : task'[t] = left[t] \/ task'[t] = Asleep
  BY <1>3 DEF ArmTimer, Shaped, Free
<1> HIDE DEF left
<1>7. ASSUME NEW t \in Tasks PROVE Follows(task[t], task'[t]) /\ ~Live(task'[t])
  <2>1. CASE task'[t] = left[t]
    BY <2>1, <1>3, <1>5 DEF Live
  <2>2. CASE task'[t] = Asleep
    BY <2>2 DEF Live, Follows, Asleep
  <2> QED BY <2>1, <2>2, <1>6
<1> QED BY <1>7 DEF AllQuiet, NothingStarts

LEMMA QuietTasks ==
  ASSUME TaskStates, NothingStarts, fired' = fired
  PROVE  TaskStates' /\ Ticking' \subseteq Ticking
<1>1. \A t \in Tasks : TaskData(task'[t], fired)
  BY DEF TaskStates, NothingStarts, Follows, TaskData
<1>2. Ticking' \subseteq Ticking
  BY DEF NothingStarts, Follows, Ticking
<1>3. IsFiniteSet(Ticking')
  BY <1>2, FS_Subset DEF TaskStates
<1> QED BY <1>1, <1>2, <1>3 DEF TaskStates

LEMMA StartTasks ==
  ASSUME TaskStates, TimerInv, NEW t, NEW occ, NEW due \in SUBSET Occurrences, Starts(t, occ, due),
         fired' = fired \cup {occ}
  PROVE  TaskStates'
<1>1. \A s \in Tasks : task'[s] = IF s = t THEN Running(occ, due) ELSE task[s]
  BY DEF Starts, TimerInv, Shaped
<1>2. \A s \in Tasks : TaskData(task'[s], fired')
  BY <1>1 DEF TaskStates, TaskData, Running
<1>3. Ticking' = Ticking \cup {t}
  BY <1>1 DEF Ticking, Running, Starts
<1>4. IsFiniteSet(Ticking')
  BY <1>3, FS_AddElement DEF TaskStates
<1> QED BY <1>2, <1>4 DEF TaskStates

----------------------------------------------------------------------------
(* What a step does to the stores                                          *)

\* The file catches up with memory, or that write fails.
Written == (file' = mem' /\ dirty' = FALSE) \/ (file' = file /\ dirty' = TRUE)

\* A load that keeps the live store.
Stays == /\ mem' = mem /\ journal' = journal /\ (dirty \/ Executing)
         /\ Written \/ UNCHANGED <<file, dirty>>

\* A load that takes over file and journal.
Base  == IF dirty THEN mem ELSE file
Loads == /\ ~Executing
         /\ mem' = Replay(Base, journal) /\ journal' = <<>>
         /\ \/ file' = mem' /\ dirty' = FALSE
            \/ file' \in {file, mem, mem'} /\ dirty' = TRUE

LEMMA LoadData ==
  ASSUME StoreData, Stays \/ Loads
  PROVE  StoreData'
<1>1. CASE Stays
  BY <1>1 DEF StoreData, Stays, Written
<1>2. CASE Loads
  <2>1. Base \in Stores
    BY DEF Base, StoreData
  <2>2. mem' \in Stores
    BY <1>2, <2>1, ReplayStore DEF Loads, StoreData
  <2> QED BY <1>2, <2>2, NoJournal DEF Loads, StoreData
<1> QED BY <1>1, <1>2

\* A load followed by a save that succeeds or fails.
LEMMA LoadSaves ==
  ASSUME DataInv, ~dirty, mem' = Loaded, journal' = IF Merges THEN <<>> ELSE journal,
         \/ file' = mem' /\ dirty' = FALSE
         \/ file' \in {file, mem, mem'} /\ dirty' = TRUE /\ (Executing => file' = file)
         \/ file' = (IF Merges THEN mem' ELSE file) /\ dirty' = dirty
  PROVE  Stays \/ Loads
<1>1. CASE Executing
  BY <1>1 DEF Loaded, Merges, Stays, Written
<1>2. CASE ~Executing
  <2>1. mem' = Replay(Base, journal) /\ journal' = <<>>
    BY <1>2 DEF Loaded, Base, Merges
  <2>2. ~Merges => mem' = file
    BY <1>2, NoJournal DEF Merges, Loaded, DataInv, StoreData
  <2> QED BY <1>2, <2>1, <2>2 DEF Loads
<1> QED BY <1>1, <1>2

----------------------------------------------------------------------------
(* The actions, by what they do to stores and tasks                        *)

SameHistory == UNCHANGED <<now, fired, excused, known, removed, lost>>
BudgetOK == /\ budget' \in [ops : Nat, fails : Nat, downs : Nat]
            /\ budget'.fails = budget.fails \/ budget'.fails = budget.fails + 1

LEMMA SpendOK ==
  ASSUME DataInv
  PROVE  /\ \A f \in {"ops", "fails", "downs"} : Spend(f) => BudgetOK
         /\ Spend("ops") \/ Spend("downs") => budget'.fails = budget.fails
         /\ UNCHANGED budget => BudgetOK
<1>1. budget \in [ops : Nat, fails : Nat, downs : Nat]
  BY DEF DataInv, LedgerData
<1> QED BY <1>1 DEF Spend, BudgetOK

\* A timer that wakes belongs to the running scheduler, and nothing is live
\* beside it.
LEMMA WakesAlone ==
  ASSUME TimerInv, NEW t \in Tasks, Wakes(t)
  PROVE  /\ running /\ up /\ t = timer /\ \A s \in Tasks : ~Live(task[s])
<1>1. timer = t /\ task[t].pc = "sleep"
  BY DEF Wakes
<1>2. timer # NoTask
  BY <1>1, CronAssumption
<1>3. \A s \in Tasks : Live(task[s]) => s = timer
  BY DEF TimerInv, OneLiveTick, Live
<1> QED BY <1>1, <1>2, <1>3 DEF TimerInv, Live

\* A tick that runs no job.
LEMMA TickLoads ==
  ASSUME TimerInv, DataInv, NEW t \in Tasks, TickFlushes(t) \/ TickIdles(t) \/ TickMergeFails(t)
  PROVE  /\ Stays \/ Loads
         /\ AllQuiet /\ SameHistory /\ BudgetOK /\ UNCHANGED <<up, running, manual>>
         /\ Wakes(t)
<1>1. CASE TickFlushes(t)
  <2>1. Stays
    BY <1>1 DEF TickFlushes, Saved, Stays, Written
  <2>2. AllQuiet
    BY <1>1, ArmQuiets DEF TickFlushes
  <2> QED BY <1>1, <2>1, <2>2, SpendOK DEF TickFlushes, SameHistory, history, ledger
<1>2. CASE TickIdles(t)
  <2>1. ~dirty /\ mem' = Loaded /\ journal' = IF Merges THEN <<>> ELSE journal
    BY <1>2, LoadRule DEF TickIdles, Saved, Unsaved
  <2>2. \/ file' = mem' /\ dirty' = FALSE
        \/ file' \in {file, mem, mem'} /\ dirty' = TRUE /\ (Executing => file' = file)
    <3>1. Executing => ~Merges
      BY DEF Merges
    <3>2. \/ Saved(Loaded)
          \/ Unsaved(Loaded) /\ file' = IF Merges THEN Loaded ELSE file
      BY <1>2, LoadRule DEF TickIdles
    <3> QED BY <3>1, <3>2 DEF Saved, Unsaved
  <2>3. Stays \/ Loads
    BY <2>1, <2>2, LoadSaves
  <2>4. AllQuiet /\ BudgetOK
    BY <1>2, ArmQuiets, SpendOK DEF TickIdles
  <2> QED BY <1>2, <2>3, <2>4 DEF TickIdles, SameHistory, history, ledger
<1>3. CASE TickMergeFails(t)
  <2>1. /\ ~dirty /\ Merges /\ mem' = Loaded /\ journal' = <<>>
        /\ file' = file /\ dirty' = TRUE
    BY <1>3, LoadRule DEF TickMergeFails, MergeFails, Unsaved
  <2>2. Stays \/ Loads
    BY <2>1, LoadSaves
  <2>3. AllQuiet /\ BudgetOK
    BY <1>3, ArmQuiets, SpendOK DEF TickMergeFails
  <2> QED BY <1>3, <2>2, <2>3 DEF TickMergeFails, SameHistory, history, ledger
<1> QED BY <1>1, <1>2, <1>3 DEF TickFlushes, TickIdles, TickMergeFails

\* A tick that runs the first of the due jobs.
LEMMA TickStartEffect ==
  ASSUME DataInv, NEW t \in Tasks, TickStarts(t)
  PROVE  /\ Stays \/ Loads
         /\ \E occ \in DueIn(mem') : /\ Starts(t, occ, DueIn(mem') \ {occ})
                                     /\ fired' = fired \cup {occ}
         /\ Wakes(t)
         /\ UNCHANGED <<now, up, running, manual, excused, known, removed, lost, budget>>
<1>1. ~dirty /\ mem' = Loaded /\ journal' = IF Merges THEN <<>> ELSE journal
  BY LoadRule DEF TickStarts
<1>2. file' = (IF Merges THEN mem' ELSE file) /\ dirty' = dirty
  BY LoadRule DEF TickStarts
<1>3. Stays \/ Loads
  BY <1>1, <1>2, LoadSaves
<1>4. \E occ \in DueIn(mem') : /\ Starts(t, occ, DueIn(mem') \ {occ})
                               /\ fired' = fired \cup {occ}
  BY DEF TickStarts, Starts
<1> QED BY <1>3, <1>4 DEF TickStarts, ledger

\* The end of a job.
Finishes(j) ==
  /\ Executing /\ j \in Jobs
  /\ mem' = Finish(mem, j) /\ journal' = journal
  /\ known' = known \ (DOMAIN mem \ DOMAIN mem') /\ UNCHANGED <<removed, lost>>

LEMMA NextJobEffect ==
  ASSUME DataInv, NEW t \in Tasks, NextJob(t)
  PROVE  /\ Finishes(task[t].occ[1]) /\ Live(task[t]) /\ task[t].occ \in fired
         /\ \E occ \in task[t].due : /\ Starts(t, occ, task[t].due \ {occ})
                                     /\ fired' = fired \cup {occ}
         /\ UNCHANGED <<now, up, running, dirty, file, timer, manual, excused, budget>>
<1>1. task[t].pc = "run" /\ task[t].occ \in fired /\ task[t].occ \in Occurrences
  BY DEF NextJob, DataInv, TaskStates, TaskData, LedgerData
<1>2. task[t].occ[1] \in Jobs /\ Executing
  BY <1>1 DEF Occurrences, Executing, Ticking
<1>3. Finishes(task[t].occ[1])
  BY <1>2 DEF NextJob, Finishes, Forget
<1> QED BY <1>1, <1>3 DEF NextJob, Starts, Live

LEMMA TickEndsEffect ==
  ASSUME TimerInv, DataInv, NEW t \in Tasks, TickEnds(t)
  PROVE  /\ Finishes(task[t].occ[1]) /\ Live(task[t]) /\ task[t].occ \in fired
         /\ Written /\ AllQuiet /\ BudgetOK
         /\ UNCHANGED <<now, up, running, manual, fired, excused>>
<1>1. task[t].pc = "run" /\ task[t].occ \in fired /\ task[t].occ \in Occurrences
  BY DEF TickEnds, DataInv, TaskStates, TaskData, LedgerData
<1>2. task[t].occ[1] \in Jobs /\ Executing
  BY <1>1 DEF Occurrences, Executing, Ticking
<1>3. Finishes(task[t].occ[1]) /\ Written
  BY <1>2 DEF TickEnds, Finishes, Forget, Saved, Unsaved, Written
<1>4. AllQuiet
  BY ArmQuiets DEF TickEnds
<1> QED BY <1>1, <1>3, <1>4, SpendOK DEF TickEnds, Live, history

LEMMA RunEndsEffect ==
  ASSUME TimerInv, DataInv, NEW r \in Runs, RunEnds(r)
  PROVE  /\ Finishes(manual[r]) /\ Written /\ BudgetOK
         /\ manual' = [manual EXCEPT ![r] = NoJob]
         /\ \/ UNCHANGED <<task, timer>>
            \/ AllQuiet /\ Ticking = {}
         /\ UNCHANGED <<now, up, running, fired, excused>>
<1>1. manual[r] \in Jobs /\ Manual # {} /\ Executing
  BY DEF RunEnds, DataInv, ManualData, Manual, Executing
<1>2. Finishes(manual[r]) /\ Written
  BY <1>1 DEF RunEnds, Finishes, Forget, Saved, Unsaved, Written
<1>3. UNCHANGED <<task, timer>> \/ (AllQuiet /\ Ticking = {})
  <2>1. UNCHANGED <<task, timer>> \/ (Active = 1 /\ ArmTimer(task))
    BY DEF RunEnds
  <2> QED BY <1>1, <2>1, ArmQuiets, LoadRule
<1> QED BY <1>2, <1>3, SpendOK DEF RunEnds, history

LEMMA RunJobEffect ==
  ASSUME DataInv, NEW r \in Runs, NEW j \in Jobs, RunJob(r, j)
  PROVE  /\ Stays \/ Loads
         /\ manual' = manual \/ manual' = [manual EXCEPT ![r] = j]
         /\ SameHistory /\ BudgetOK /\ UNCHANGED <<up, running, task, timer>>
<1> DEFINE onDisk == IF dirty THEN mem ELSE file
           jobs   == IF Active > 0 THEN mem ELSE Replay(onDisk, journal)
           merges == Active = 0 /\ journal # <<>>
<1>1. /\ mem' = jobs /\ journal' = IF merges THEN <<>> ELSE journal
      /\ \/ file' = (IF merges THEN jobs ELSE onDisk) /\ dirty' = FALSE
         \/ merges /\ file' = onDisk /\ dirty' = TRUE
      /\ Spend("ops") \/ Spend("fails")
      /\ manual' = manual \/ manual' = [manual EXCEPT ![r] = j]
  BY DEF RunJob
<1>2. Active \in Nat /\ (Active > 0 <=> Executing) /\ (Active = 0 <=> ~Executing)
  BY LoadRule
<1>3. onDisk = Base
  BY DEF Base
<1>4. CASE Executing
  <2>1. mem' = mem /\ journal' = journal /\ file' = onDisk /\ dirty' = FALSE
    BY <1>1, <1>2, <1>4
  <2>2. dirty \in BOOLEAN
    BY DEF DataInv, StoreData
  <2>3. Stays
    <3>1. CASE dirty
      BY <1>4, <2>1, <3>1 DEF Stays, Written
    <3>2. CASE ~dirty
      BY <1>4, <2>1, <2>2, <3>2 DEF Stays
    <3> QED BY <3>1, <3>2
  <2> QED BY <1>1, <2>3, SpendOK DEF RunJob, SameHistory, history, ledger
<1>5. CASE ~Executing
  <2>1. mem' = Replay(Base, journal) /\ journal' = <<>>
    BY <1>1, <1>2, <1>3, <1>5
  <2>2. journal = <<>> => jobs = onDisk
    <3>1. onDisk \in Stores
      BY DEF DataInv, StoreData
    <3> QED BY <1>2, <1>5, <3>1, NoJournal
  <2>3. Loads
    BY <1>1, <1>2, <1>5, <2>1, <2>2 DEF Loads
  <2> QED BY <1>1, <2>3, SpendOK DEF RunJob, SameHistory, history, ledger
<1> QED BY <1>4, <1>5

\* Reading, in a scheduler that runs.
LEMMA ReadEffect ==
  ASSUME DataInv, ReadJobs \/ LoadFails
  PROVE  /\ StoreData'
         /\ mem' = Loaded /\ file' \in {file, mem'} /\ journal' \in {journal, <<>>}
         /\ running => Stays \/ Loads
         /\ SameHistory /\ BudgetOK /\ UNCHANGED <<up, running, task, timer, manual>>
<1>1. CASE ReadJobs
  <2>1. mem' = Loaded /\ dirty' = dirty
    BY <1>1, LoadRule DEF ReadJobs
  <2>2. MergeWrites(FALSE, OwnsStore) <=> Merges /\ OwnsStore
    BY LoadRule DEF MergeWrites
  <2>3. /\ journal' = IF Merges /\ OwnsStore THEN <<>> ELSE journal
        /\ file' = IF Merges /\ OwnsStore THEN mem' ELSE file
    BY <1>1, <2>1, <2>2, LoadRule DEF ReadJobs, Merged
  <2>4. StoreData'
    BY <2>1, <2>3, LoadRule, NoJournal DEF StoreData, DataInv
  <2>5. ASSUME running PROVE Stays \/ Loads
    <3>1. OwnsStore
      BY <2>5 DEF OwnsStore
    <3>2. journal' = (IF Merges THEN <<>> ELSE journal) /\ file' = (IF Merges THEN mem' ELSE file)
      BY <2>3, <3>1
    <3>3. CASE ~dirty
      BY <2>1, <3>2, <3>3, LoadSaves
    <3>4. CASE dirty
      BY <2>1, <3>2, <3>4 DEF Stays, Merges, Loaded
    <3> QED BY <3>3, <3>4
  <2> QED BY <1>1, <2>1, <2>3, <2>4, <2>5, SpendOK DEF ReadJobs, SameHistory, history, ledger
<1>2. CASE LoadFails
  <2>1. /\ ~dirty /\ Merges /\ mem' = Loaded /\ journal' = <<>>
        /\ file' = file /\ dirty' = TRUE
    BY <1>2, LoadRule DEF LoadFails, MergeFails, Unsaved, MergeWrites, Merges
  <2>2. Stays \/ Loads
    BY <2>1, LoadSaves
  <2>3. StoreData'
    BY <2>2, LoadData DEF DataInv
  <2> QED BY <1>2, <2>1, <2>2, <2>3, SpendOK DEF LoadFails, SameHistory, history, ledger
<1> QED BY <1>1, <1>2

----------------------------------------------------------------------------
(* Edits                                                                   *)

\* A record as an edit leaves it: its next run is ahead of the clock, by its
\* whole interval if it recurs.
AheadRec(j, rec) ==
  /\ rec \in RecOf(j) /\ (rec.next = 0 \/ rec.next > now)
  /\ rec.sched.kind = "every" => rec.next \in {0, now + rec.sched.n}

Puts(j, jobs, entry) ==
  \E rec : AheadRec(j, rec) /\ jobs = Put(Loaded, j, rec) /\ entry = Update(j, rec)
Drops(j, jobs, entry) == jobs = Drop(Loaded, j) /\ entry = Del(j)

LEMMA PlannedAhead ==
  ASSUME now \in 0 .. Horizon, NEW j \in Jobs, NEW rec,
         rec = [enabled |-> rec.enabled, sched |-> rec.sched, drop |-> rec.drop, next |-> rec.next],
         rec.enabled \in BOOLEAN, rec.drop \in BOOLEAN, rec.sched \in Offers[j],
         rec.next = 0 \/ rec.next = NextRun(rec.sched, now)
  PROVE  AheadRec(j, rec)
<1> DEFINE n == NextRun(rec.sched, now)
<1>1. /\ n \in 0 .. Horizon + MaxPeriod /\ (n = 0 \/ n > now)
      /\ rec.sched.kind = "every" => n = now + rec.sched.n
  BY NextRunRange
<1>2. rec.next = 0 \/ rec.next = n
  OBVIOUS
<1> HIDE DEF n
<1>3. 0 \in 0 .. Horizon + MaxPeriod
  BY CronAssumption
<1>4. rec.next \in 0 .. Horizon + MaxPeriod
  BY <1>1, <1>2, <1>3
<1>5. rec \in RecOf(j)
  BY <1>4, RecFields
<1> QED BY <1>1, <1>2, <1>5 DEF AheadRec

\* The record of an added job.
LEMMA AddedAhead ==
  ASSUME now \in 0 .. Horizon, NEW j \in Jobs, NEW rec, rec \in AddedRecs(j)
  PROVE  AheadRec(j, rec)
<1>1. PICK sched \in Offers[j] : rec = NewRec(sched, sched.kind = "at" /\ j \notin KeptAfterRun)
  BY DEF AddedRecs
<1> DEFINE drop == sched.kind = "at" /\ j \notin KeptAfterRun
           n == NextRun(sched, now)
<1>2. drop \in BOOLEAN /\ rec = [enabled |-> TRUE, sched |-> sched, drop |-> drop, next |-> n]
  BY <1>1 DEF NewRec
<1> HIDE DEF drop, n
<1>3. rec.enabled = TRUE /\ rec.sched = sched /\ rec.drop = drop /\ rec.next = n
  BY <1>2
<1>4. rec = [enabled |-> rec.enabled, sched |-> rec.sched, drop |-> rec.drop, next |-> rec.next]
  BY <1>2, <1>3
<1>5. rec.next = NextRun(rec.sched, now)
  BY <1>3 DEF n
<1> QED BY <1>1, <1>2, <1>3, <1>4, <1>5, PlannedAhead

\* The record of a job that is enabled, disabled or updated.
LEMMA ChangedAhead ==
  ASSUME now \in 0 .. Horizon, NEW j \in Jobs, NEW old, old \in RecOf(j)
  PROVE  /\ AheadRec(j, Setting(old, TRUE, NextRun(old.sched, now)))
         /\ AheadRec(j, Setting(old, FALSE, 0))
         /\ \A sched \in Offers[j] : AheadRec(j, Rescheduled(old, sched))
<1>1. old \in JobRec /\ old.sched \in Offers[j]
  BY DEF RecOf
<1>2. old.enabled \in BOOLEAN /\ old.drop \in BOOLEAN
  BY RecFields
<1>3. AheadRec(j, Setting(old, TRUE, NextRun(old.sched, now)))
  <2> DEFINE n == NextRun(old.sched, now)
             rec == Setting(old, TRUE, n)
  <2>1. n \in 0 .. Horizon + MaxPeriod
    BY <1>1, NextRunRange
  <2> HIDE DEF n
  <2>2. rec \in JobRec /\ rec.next = n /\ rec.sched = old.sched
    BY <1>1, <2>1, SetOn
  <2>3. rec.next = NextRun(rec.sched, now)
    BY <2>2 DEF n
  <2> HIDE DEF rec
  <2>4. rec \in RecOf(j)
    BY <1>1, <2>2 DEF RecOf
  <2>5. AheadRec(j, rec)
    BY <2>3, <2>4, RecFields, PlannedAhead
  <2> QED BY <2>5 DEF rec, n
<1>4. AheadRec(j, Setting(old, FALSE, 0))
  <2> DEFINE rec == Setting(old, FALSE, 0)
  <2>1. 0 \in 0 .. Horizon + MaxPeriod
    BY CronAssumption
  <2>2. rec \in JobRec /\ rec.next = 0 /\ rec.sched = old.sched
    BY <1>1, <2>1, SetOff
  <2> HIDE DEF rec
  <2>3. rec \in RecOf(j)
    BY <1>1, <2>2 DEF RecOf
  <2>4. AheadRec(j, rec)
    BY <2>2, <2>3, RecFields, PlannedAhead
  <2> QED BY <2>4 DEF rec
<1>5. ASSUME NEW sched, sched \in Offers[j] PROVE AheadRec(j, Rescheduled(old, sched))
  <2> DEFINE rec == Rescheduled(old, sched)
             drop == IF sched = old.sched THEN old.drop ELSE sched.kind = "at"
             n == IF old.enabled THEN NextRun(sched, now) ELSE 0
  <2>1. rec = [enabled |-> old.enabled, sched |-> sched, drop |-> drop, next |-> n]
    BY DEF Rescheduled
  <2>2. drop \in BOOLEAN /\ (n = 0 \/ n = NextRun(sched, now))
    BY <1>2
  <2> HIDE DEF rec, drop, n
  <2>3. rec.enabled = old.enabled /\ rec.sched = sched /\ rec.drop = drop /\ rec.next = n
    BY <2>1
  <2>4. rec = [enabled |-> rec.enabled, sched |-> rec.sched, drop |-> rec.drop, next |-> rec.next]
    BY <2>1, <2>3
  <2>5. rec.next = 0 \/ rec.next = NextRun(rec.sched, now)
    BY <2>2, <2>3
  <2>6. AheadRec(j, rec)
    BY <1>2, <1>5, <2>2, <2>3, <2>4, <2>5, PlannedAhead
  <2> QED BY <2>6 DEF rec
<1> QED BY <1>3, <1>4, <1>5

\* The five edits of a live process.
LEMMA EditCases ==
  ASSUME DataInv, NEW j \in Jobs,
         AddJob(j) \/ RemoveJob(j) \/ EnableJob(j) \/ DisableJob(j) \/ UpdateJob(j)
  PROVE  /\ \E jobs, entry :
              /\ Edit(jobs, entry)
              /\ \/ /\ Puts(j, jobs, entry)
                    /\ \/ Fresh(j) /\ known' \in {known, known \cup {j}} /\ UNCHANGED <<removed, lost>>
                       \/ j \in DOMAIN Loaded /\ UNCHANGED <<known, removed, lost>>
                 \/ /\ Drops(j, jobs, entry) /\ j \in DOMAIN Loaded
                    /\ known' = known \ {j} /\ removed' \in {removed, removed \cup {j}}
                    /\ lost' \in {lost, lost \ {j}}
         /\ up /\ UNCHANGED <<now, up, running, manual, fired>>
<1>1. now \in 0 .. Horizon /\ Store(FALSE) = Loaded /\ Loaded \in Stores
  BY LoadRule DEF DataInv, LedgerData
<1>2. CASE AddJob(j)
  <2>1. PICK rec \in AddedRecs(j) : Edit(Put(Loaded, j, rec), Update(j, rec))
    BY <1>1, <1>2 DEF AddJob
  <2>2. Puts(j, Put(Loaded, j, rec), Update(j, rec))
    BY <1>1, <2>1, AddedAhead DEF Puts
  <2>3. /\ Fresh(j) /\ known' \in {known, known \cup {j}} /\ UNCHANGED <<removed, lost>>
        /\ up /\ UNCHANGED <<now, up, running, manual, fired>>
    BY <1>2 DEF AddJob, EditGuard
  <2> QED BY <2>1, <2>2, <2>3
<1>3. CASE RemoveJob(j)
  <2>1. Edit(Drop(Loaded, j), Del(j)) /\ j \in DOMAIN Loaded
    BY <1>1, <1>3 DEF RemoveJob
  <2>2. Drops(j, Drop(Loaded, j), Del(j))
    BY DEF Drops
  <2>3. /\ known' = known \ {j} /\ removed' \in {removed, removed \cup {j}}
        /\ lost' \in {lost, lost \ {j}}
        /\ up /\ UNCHANGED <<now, up, running, manual, fired>>
    BY <1>3 DEF RemoveJob, EditGuard
  <2> QED BY <2>1, <2>2, <2>3
<1>4. CASE EnableJob(j) \/ DisableJob(j) \/ UpdateJob(j)
  <2>1. /\ j \in DOMAIN Loaded /\ up
        /\ UNCHANGED <<now, up, running, manual, fired, known, removed, lost>>
    BY <1>1, <1>4 DEF EnableJob, DisableJob, UpdateJob, EditGuard, Change, ledger
  <2>2. Loaded[j] \in RecOf(j)
    BY <1>1, <2>1, InStores
  <2>3. \E rec : AheadRec(j, rec) /\ Change(j, rec)
    <3>1. CASE EnableJob(j)
      <4>1. Change(j, Setting(Loaded[j], TRUE, NextRun(Loaded[j].sched, now)))
        BY <1>1, <3>1 DEF EnableJob, Setting
      <4> QED BY <1>1, <2>2, <4>1, ChangedAhead
    <3>2. CASE DisableJob(j)
      <4>1. Change(j, Setting(Loaded[j], FALSE, 0))
        BY <1>1, <3>2 DEF DisableJob, Setting
      <4> QED BY <1>1, <2>2, <4>1, ChangedAhead
    <3>3. CASE UpdateJob(j)
      <4>1. PICK sched \in NewSchedules(j) \cup {Loaded[j].sched} :
              Change(j, Rescheduled(Loaded[j], sched))
        BY <1>1, <3>3 DEF UpdateJob
      <4>2. sched \in Offers[j]
        BY <2>2 DEF NewSchedules, RecOf
      <4>3. AheadRec(j, Rescheduled(Loaded[j], sched))
        BY <1>1, <2>2, <4>2, ChangedAhead
      <4> QED BY <4>1, <4>3
    <3> QED BY <1>4, <3>1, <3>2, <3>3
  <2>4. PICK rec : AheadRec(j, rec) /\ Change(j, rec)
    BY <2>3
  <2>5. Edit(Put(Loaded, j, rec), Update(j, rec)) /\ Puts(j, Put(Loaded, j, rec), Update(j, rec))
    BY <1>1, <2>4 DEF Change, Puts
  <2> QED BY <2>1, <2>5
<1> QED BY <1>2, <1>3, <1>4

LEMMA EditData ==
  ASSUME DataInv, NEW j \in Jobs, NEW jobs, NEW entry,
         Puts(j, jobs, entry) \/ Drops(j, jobs, entry)
  PROVE  jobs \in Stores /\ IsLine(entry) /\ entry.job = j
<1>0. Loaded \in Stores
  BY LoadRule
<1>1. CASE Puts(j, jobs, entry)
  <2>1. PICK rec : rec \in RecOf(j) /\ jobs = Put(Loaded, j, rec) /\ entry = Update(j, rec)
    BY <1>1 DEF Puts, AheadRec
  <2>2. entry.job = j /\ entry.rec = rec
    BY <2>1 DEF Update
  <2> QED BY <1>0, <2>1, <2>2, PutStore DEF IsLine
<1>2. CASE Drops(j, jobs, entry)
  <2>1. entry.job = j
    BY <1>2 DEF Drops, Del
  <2> QED BY <1>0, <1>2, <2>1, DropStore DEF IsLine, Drops
<1> QED BY <1>1, <1>2

\* An edit of the owner: with a failed save nothing is cancelled.
Owned(jobs) ==
  /\ mem' = jobs /\ journal' = IF Merges THEN <<>> ELSE journal
  /\ \/ /\ file' = mem' /\ dirty' = FALSE
        /\ AllQuiet /\ budget'.fails = budget.fails
        /\ excused' = IF running THEN excused \cup Interrupted ELSE excused
     \/ /\ dirty' = TRUE /\ UNCHANGED <<task, timer, excused>>
        /\ budget'.fails > 0 /\ file' \in {file, Loaded}

\* An edit that goes to the journal.
Journaled(jobs, entry) ==
  /\ mem' \in {mem, jobs} /\ journal' = Append(journal, entry)
  /\ UNCHANGED <<dirty, file, task, timer, excused>>

LEMMA EditEffect ==
  ASSUME TimerInv, DataInv, NEW jobs \in Stores, NEW entry, IsLine(entry), Edit(jobs, entry)
  PROVE  /\ StoreData' /\ BudgetOK
         /\ \/ Owned(jobs)
            \/ ~running /\ Journaled(jobs, entry)
<1>0. budget \in [ops : Nat, fails : Nat, downs : Nat] /\ StoreData
  BY DEF DataInv, LedgerData
<1>1. CASE OwnsStore /\ Saved(jobs)
  <2>1. /\ Spend("ops") /\ ArmTimer(task) /\ journal' = Merged(FALSE, TRUE)
        /\ excused' = IF running THEN excused \cup Interrupted ELSE excused
    BY <1>1 DEF Edit, Saved, Unsaved
  <2>2. BudgetOK /\ budget'.fails = budget.fails /\ AllQuiet
    BY <2>1, SpendOK, ArmQuiets
  <2>3. Owned(jobs)
    BY <1>1, <2>1, <2>2, LoadRule DEF Owned, Saved
  <2>4. StoreData'
    BY <1>0, <1>1, <2>3, NoJournal DEF Owned, StoreData, Saved
  <2> QED BY <2>2, <2>3, <2>4
<1>2. CASE OwnsStore /\ ~Saved(jobs)
  <2>1. /\ budget' = [budget EXCEPT !.ops = @ + 1, !.fails = @ + 1]
        /\ Unsaved(jobs)
        /\ file' = IF MergeWrites(FALSE, TRUE) THEN Store(FALSE) ELSE file
        /\ journal' = Merged(FALSE, TRUE)
        /\ UNCHANGED <<task, timer, excused>>
    BY <1>2 DEF Edit
  <2>2. BudgetOK /\ budget'.fails > 0
    <3>1. /\ budget.ops \in Nat /\ budget.fails \in Nat /\ budget.downs \in Nat
          /\ budget' = [ops |-> budget.ops + 1, fails |-> budget.fails + 1, downs |-> budget.downs]
      BY <1>0, <2>1
    <3> QED BY <3>1 DEF BudgetOK
  <2>3. Owned(jobs)
    BY <2>1, <2>2, LoadRule DEF Owned, Unsaved
  <2>4. file' \in Stores
    BY <1>0, <2>1, LoadRule DEF StoreData
  <2>5. StoreData'
    BY <1>0, <2>1, <2>3, <2>4, NoJournal DEF Owned, StoreData, Unsaved
  <2> QED BY <2>2, <2>3, <2>5
<1>3. CASE ~OwnsStore
  <2>1. /\ Spend("ops")
        /\ mem' \in {mem, jobs}
        /\ journal' = Append(journal, entry)
        /\ UNCHANGED <<dirty, file, task, timer, excused>>
    BY <1>3 DEF Edit
  <2>2. StoreData'
    BY <1>0, <2>1, AppendLine DEF StoreData
  <2> QED BY <1>3, <2>1, <2>2, SpendOK DEF Journaled, OwnsStore
<1> QED BY <1>1, <1>2, <1>3

\* Another process appends a line.
LEMMA ExternalEffect ==
  ASSUME DataInv, NEW j \in Jobs, ExternalAdd(j) \/ ExternalRemove(j)
  PROVE  /\ \E entry :
              /\ IsLine(entry) /\ entry.job = j /\ journal' = Append(journal, entry)
              /\ \/ /\ \E rec : AheadRec(j, rec) /\ entry = Update(j, rec)
                    /\ Fresh(j) /\ known' = known \cup {j} /\ UNCHANGED <<removed, lost>>
                 \/ /\ entry = Del(j)
                    /\ known' = known \ {j} /\ removed' = removed \cup {j} /\ lost' = lost \ {j}
         /\ volatile' = volatile \ {j}
         /\ BudgetOK /\ UNCHANGED <<now, up, running, mem, dirty, file, task, timer, manual, fired, excused>>
<1>1. now \in 0 .. Horizon
  BY DEF DataInv, LedgerData
<1>2. CASE ExternalAdd(j)
  <2>1. PICK rec \in AddedRecs(j) : journal' = Append(journal, Update(j, rec))
    BY <1>2 DEF ExternalAdd
  <2> DEFINE entry == Update(j, rec)
  <2>2. AheadRec(j, rec)
    BY <1>1, <2>1, AddedAhead
  <2>3. IsLine(entry) /\ entry.job = j
    BY <2>2 DEF IsLine, Update, AheadRec
  <2>4. /\ Fresh(j) /\ known' = known \cup {j} /\ UNCHANGED <<removed, lost>> /\ Spend("ops")
        /\ volatile' = volatile \ {j}
        /\ UNCHANGED <<now, up, running, mem, dirty, file, task, timer, manual, fired, excused>>
    BY <1>2 DEF ExternalAdd, history
  <2> QED BY <2>1, <2>2, <2>3, <2>4, SpendOK
<1>3. CASE ExternalRemove(j)
  <2>1. IsLine(Del(j)) /\ Del(j).job = j
    BY DEF IsLine, Del
  <2> QED BY <1>3, <2>1, SpendOK DEF ExternalRemove, history
<1> QED BY <1>2, <1>3

----------------------------------------------------------------------------
(* Type correctness                                                        *)

\* What an interruption cancels has been started.
LEMMA InterruptedFired ==
  ASSUME TimerInv, TaskStates
  PROVE  Interrupted \subseteq fired
BY DEF TimerInv, TaskStates, TaskData, Interrupted

LEMMA SameManual ==
  ASSUME ManualData, manual' = manual \/ \E r \in Runs, j \in Jobs \cup {NoJob} : manual' = [manual EXCEPT ![r] = j]
  PROVE  ManualData'
<1>1. CASE manual' = manual
  BY <1>1 DEF ManualData, Manual
<1>2. CASE \E r \in Runs, j \in Jobs \cup {NoJob} : manual' = [manual EXCEPT ![r] = j]
  <2>1. PICK r \in Runs, j \in Jobs \cup {NoJob} : manual' = [manual EXCEPT ![r] = j]
    BY <1>2
  <2>2. manual' \in [Runs -> Jobs \cup {NoJob}] /\ \A s \in Runs \ {r} : manual'[s] = manual[s]
    BY <2>1 DEF ManualData
  <2>3. Manual' \subseteq Manual \cup {r}
    BY <2>2 DEF Manual
  <2>4. IsFiniteSet(Manual \cup {r})
    BY FS_AddElement DEF ManualData
  <2> QED BY <2>2, <2>3, <2>4, FS_Subset DEF ManualData
<1> QED BY <1>1, <1>2

LEMMA SameLedger ==
  ASSUME LedgerData, SameHistory, BudgetOK
  PROVE  LedgerData'
BY DEF LedgerData, SameHistory, BudgetOK

LEMMA FinishedData ==
  ASSUME StoreData, LedgerData, NEW j, Finishes(j), Written
  PROVE  StoreData'
<1>1. j \in Jobs /\ now \in 0 .. Horizon /\ mem' = Finish(mem, j)
  BY DEF Finishes, LedgerData
<1>2. mem' \in Stores
  BY <1>1, FinishStore DEF StoreData
<1> QED BY <1>2 DEF StoreData, Finishes, Written

LEMMA TickData ==
  ASSUME TimerInv, DataInv, NEW t \in Tasks, TaskStep(t)
  PROVE  DataInv'
<1>0. StoreData /\ TaskStates /\ ManualData /\ LedgerData
  BY DEF DataInv
<1>1. CASE TickFlushes(t) \/ TickIdles(t) \/ TickMergeFails(t)
  <2>1. /\ Stays \/ Loads
        /\ NothingStarts /\ SameHistory /\ BudgetOK /\ UNCHANGED manual
    BY <1>1, TickLoads DEF AllQuiet
  <2>2. TaskStates'
    BY <1>0, <2>1, QuietTasks DEF SameHistory
  <2> QED BY <1>0, <2>1, <2>2, LoadData, SameManual, SameLedger DEF DataInv
<1>2. CASE TickStarts(t)
  <2>1. /\ Stays \/ Loads
        /\ UNCHANGED <<now, up, running, manual, excused, known, removed, lost, budget>>
    BY <1>2, TickStartEffect
  <2>2. PICK occ \in DueIn(mem') : /\ Starts(t, occ, DueIn(mem') \ {occ})
                                   /\ fired' = fired \cup {occ}
    BY <1>2, TickStartEffect
  <2>3. StoreData' /\ mem' \in Stores /\ now \in 0 .. Horizon
    BY <1>0, <2>1, LoadData DEF StoreData, LedgerData
  <2>4. DueIn(mem') \subseteq Occurrences
    BY <2>3, DueOcc
  <2>5. TaskStates'
    <3>1. DueIn(mem') \ {occ} \in SUBSET Occurrences
      BY <2>4
    <3> QED BY <1>0, <2>2, <3>1, StartTasks
  <2>6. LedgerData'
    BY <1>0, <2>1, <2>2, <2>4 DEF LedgerData
  <2> QED BY <1>0, <2>1, <2>3, <2>5, <2>6, SameManual DEF DataInv
<1>3. CASE NextJob(t)
  <2>1. /\ Finishes(task[t].occ[1])
        /\ UNCHANGED <<now, up, running, dirty, file, timer, manual, excused, budget>>
    BY <1>3, NextJobEffect
  <2>2. PICK occ \in task[t].due : /\ Starts(t, occ, task[t].due \ {occ})
                                   /\ fired' = fired \cup {occ}
    BY <1>3, NextJobEffect
  <2>3. StoreData'
    BY <1>0, <2>1, FinishStore DEF Finishes, StoreData, LedgerData
  <2>4. task[t].due \subseteq Occurrences
    BY <1>0 DEF TaskStates, TaskData
  <2>5. TaskStates'
    <3>1. task[t].due \ {occ} \in SUBSET Occurrences
      BY <2>4
    <3> QED BY <1>0, <2>2, <3>1, StartTasks
  <2>6. LedgerData'
    BY <1>0, <2>1, <2>2, <2>4 DEF LedgerData, Finishes
  <2> QED BY <1>0, <2>1, <2>3, <2>5, <2>6, SameManual DEF DataInv
<1>4. CASE TickEnds(t)
  <2>1. /\ Finishes(task[t].occ[1]) /\ Written /\ NothingStarts /\ BudgetOK
        /\ UNCHANGED <<now, up, running, manual, fired, excused>>
    BY <1>4, TickEndsEffect DEF AllQuiet
  <2>2. StoreData'
    BY <1>0, <2>1, FinishedData
  <2>3. TaskStates'
    BY <1>0, <2>1, QuietTasks
  <2>4. LedgerData'
    BY <1>0, <2>1 DEF LedgerData, Finishes, BudgetOK
  <2> QED BY <1>0, <2>1, <2>2, <2>3, <2>4, SameManual DEF DataInv
<1>5. CASE TickCancelled(t)
  <2>1. /\ AllQuiet /\ UNCHANGED <<now, up, running, stores, manual, fired, ledger, budget>>
        /\ excused' \in {excused, excused \cup Interrupted}
    BY <1>5, ArmQuiets DEF TickCancelled
  <2>2. StoreData'
    BY <1>0, <2>1 DEF StoreData, stores
  <2>3. TaskStates'
    BY <1>0, <2>1, QuietTasks DEF AllQuiet
  <2>4. LedgerData'
    BY <1>0, <2>1, InterruptedFired DEF LedgerData, ledger
  <2> QED BY <1>0, <2>1, <2>2, <2>3, <2>4, SameManual DEF DataInv
<1> QED BY <1>1, <1>2, <1>3, <1>4, <1>5 DEF TaskStep

LEMMA RunData ==
  ASSUME TimerInv, DataInv, NEW r \in Runs, RunEnds(r) \/ \E j \in Jobs : RunJob(r, j)
  PROVE  DataInv'
<1>0. StoreData /\ TaskStates /\ ManualData /\ LedgerData
  BY DEF DataInv
<1>1. CASE RunEnds(r)
  <2>1. /\ Finishes(manual[r]) /\ Written /\ BudgetOK
        /\ manual' = [manual EXCEPT ![r] = NoJob]
        /\ UNCHANGED <<task, timer>> \/ AllQuiet
        /\ UNCHANGED <<now, up, running, fired, excused>>
    BY <1>1, RunEndsEffect
  <2>2. StoreData'
    BY <1>0, <2>1, FinishedData
  <2>3. NothingStarts
    BY <2>1, FollowsItself DEF AllQuiet
  <2>4. TaskStates'
    BY <1>0, <2>1, <2>3, QuietTasks
  <2>5. LedgerData'
    BY <1>0, <2>1 DEF LedgerData, Finishes, BudgetOK
  <2> QED BY <1>0, <2>1, <2>2, <2>4, <2>5, SameManual DEF DataInv
<1>2. CASE \E j \in Jobs : RunJob(r, j)
  <2>1. PICK j \in Jobs : RunJob(r, j)
    BY <1>2
  <2>2. /\ Stays \/ Loads
        /\ manual' = manual \/ manual' = [manual EXCEPT ![r] = j]
        /\ SameHistory /\ BudgetOK /\ UNCHANGED <<up, running, task, timer>>
    BY <2>1, RunJobEffect
  <2>3. TaskStates'
    BY <1>0, <2>2, FollowsItself, QuietTasks DEF SameHistory
  <2> QED BY <1>0, <2>2, <2>3, LoadData, SameManual, SameLedger DEF DataInv
<1> QED BY <1>1, <1>2

LEMMA JobEditData ==
  ASSUME TimerInv, DataInv, NEW j \in Jobs, JobEdit(j)
  PROVE  DataInv'
<1>0. StoreData /\ TaskStates /\ ManualData /\ LedgerData
  BY DEF DataInv
<1>1. CASE ExternalAdd(j) \/ ExternalRemove(j)
  <2>1. PICK entry :
              /\ IsLine(entry) /\ entry.job = j /\ journal' = Append(journal, entry)
              /\ known' \in {known \cup {j}, known \ {j}} /\ removed' \in {removed, removed \cup {j}}
    BY <1>1, ExternalEffect
  <2>2. BudgetOK /\ UNCHANGED <<now, up, running, mem, dirty, file, task, timer, manual, fired, excused>>
    BY <1>1, ExternalEffect
  <2>3. StoreData'
    BY <1>0, <2>1, <2>2, AppendLine DEF StoreData
  <2>4. LedgerData'
    BY <1>0, <2>1, <2>2 DEF LedgerData, BudgetOK
  <2>5. TaskStates'
    BY <1>0, <2>2, FollowsItself, QuietTasks
  <2> QED BY <1>0, <2>2, <2>3, <2>4, <2>5, SameManual DEF DataInv
<1>2. CASE ~(ExternalAdd(j) \/ ExternalRemove(j))
  <2>0. AddJob(j) \/ RemoveJob(j) \/ EnableJob(j) \/ DisableJob(j) \/ UpdateJob(j)
    BY <1>2 DEF JobEdit
  <2>1. UNCHANGED <<now, up, running, manual, fired>>
    BY <2>0, EditCases
  <2>2. PICK jobs, entry : /\ Edit(jobs, entry)
                           /\ Puts(j, jobs, entry) \/ Drops(j, jobs, entry)
                           /\ known' \in {known, known \cup {j}, known \ {j}}
                           /\ removed' \in {removed, removed \cup {j}}
    BY <2>0, EditCases
  <2>3. jobs \in Stores /\ IsLine(entry)
    BY <2>2, EditData
  <2>4. StoreData' /\ BudgetOK /\ (Owned(jobs) \/ Journaled(jobs, entry))
    BY <2>2, <2>3, EditEffect
  <2>5. NothingStarts /\ excused' \in {excused, excused \cup Interrupted}
    BY <2>4, FollowsItself DEF Owned, Journaled, AllQuiet
  <2>6. TaskStates'
    BY <1>0, <2>1, <2>5, QuietTasks
  <2>7. LedgerData'
    BY <1>0, <2>1, <2>2, <2>4, <2>5, InterruptedFired DEF LedgerData, BudgetOK
  <2> QED BY <1>0, <2>1, <2>4, <2>6, <2>7, SameManual DEF DataInv
<1> QED BY <1>1, <1>2

\* What the process ends and starts with.
LEMMA NoTasks ==
  ASSUME Down
  PROVE  /\ TaskStates' /\ Ticking' = {}
         /\ ManualData' /\ Manual' = {}
<1>1. \A t \in Tasks : task'[t] = Off
  BY DEF Down
<1>2. \A t \in Tasks : TaskData(task'[t], fired') /\ task'[t].pc # "run"
  BY <1>1 DEF TaskData, Off
<1>3. manual' = [r \in Runs |-> NoJob]
  BY DEF Down
<1>4. Ticking' = {} /\ Manual' = {}
  BY <1>2, <1>3 DEF Ticking, Manual
<1> QED BY <1>2, <1>3, <1>4, FS_EmptySet DEF TaskStates, ManualData

LEMMA ProcessData ==
  ASSUME TimerInv, DataInv, Start \/ Stop \/ Exit \/ ExitInMerge \/ ClockTicks
  PROVE  DataInv'
<1>0. StoreData /\ TaskStates /\ ManualData /\ LedgerData
  BY DEF DataInv
<1>1. CASE Start
  <2>1. /\ mem' = Recomputed(Replay(file, journal)) /\ file' = mem' /\ dirty' = FALSE
        /\ journal' = <<>> /\ timer' \in Tasks /\ task' = [task EXCEPT ![timer'] = Asleep]
        /\ UNCHANGED <<now, manual, history, ledger, budget>>
    BY <1>1, CronAssumption DEF Start, Saved
  <2>2. StoreData'
    BY <1>0, <2>1, LoadRule, RecomputedStore, NoJournal DEF StoreData, LedgerData
  <2>3. NothingStarts
    <3>1. \A t \in Tasks : task'[t] = IF t = timer' THEN Asleep ELSE task[t]
      BY <2>1 DEF TimerInv, Shaped
    <3> QED BY <3>1 DEF NothingStarts, Follows, Asleep
  <2>4. TaskStates'
    BY <1>0, <2>1, <2>3, QuietTasks DEF history
  <2>5. LedgerData'
    BY <1>0, <2>1 DEF LedgerData, history, ledger
  <2> QED BY <1>0, <2>1, <2>2, <2>4, <2>5, SameManual DEF DataInv
<1>2. CASE Stop
  <2>1. /\ task' = CancelTimer(task) /\ Spend("ops") /\ excused' = excused \cup Interrupted
        /\ UNCHANGED <<now, up, stores, manual, fired, ledger>>
    BY <1>2 DEF Stop
  <2>2. StoreData'
    BY <1>0, <2>1 DEF StoreData, stores
  <2>3. NothingStarts
    BY <2>1, CancelFollows DEF NothingStarts, TimerInv
  <2>4. TaskStates'
    BY <1>0, <2>1, <2>3, QuietTasks
  <2>5. BudgetOK
    BY <2>1, SpendOK
  <2>6. LedgerData'
    BY <1>0, <2>1, <2>5, InterruptedFired DEF LedgerData, ledger, BudgetOK
  <2> QED BY <1>0, <2>1, <2>2, <2>4, <2>6, SameManual DEF DataInv
<1>3. CASE Exit \/ ExitInMerge
  <2>1. /\ Down /\ journal' \in {journal, <<>>} /\ Spend("downs")
        /\ UNCHANGED <<now, file, history, known, removed>>
    BY <1>3 DEF Exit, ExitInMerge
  <2>2. StoreData'
    BY <1>0, <2>1, EmptyStore, NoJournal DEF StoreData, Down
  <2>3. BudgetOK
    BY <2>1, SpendOK
  <2>4. LedgerData'
    BY <1>0, <2>1, <2>3 DEF LedgerData, BudgetOK, history
  <2> QED BY <2>1, <2>2, <2>4, NoTasks DEF DataInv
<1>4. CASE ClockTicks
  <2>1. /\ now < Horizon /\ now' = now + 1
        /\ UNCHANGED <<up, running, stores, task, timer, manual, history, ledger, budget>>
    BY <1>4 DEF ClockTicks
  <2>2. StoreData'
    BY <1>0, <2>1 DEF StoreData, stores
  <2>3. TaskStates'
    BY <1>0, <2>1, FollowsItself, QuietTasks DEF history
  <2>4. LedgerData'
    <3>1. now' \in 0 .. Horizon
      BY <1>0, <2>1, CronAssumption DEF LedgerData
    <3> QED BY <1>0, <2>1, <3>1 DEF LedgerData, history, ledger
  <2> QED BY <1>0, <2>1, <2>2, <2>3, <2>4, SameManual DEF DataInv
<1> QED BY <1>1, <1>2, <1>3, <1>4

LEMMA InitData == Init => DataInv
<1> SUFFICES ASSUME Init PROVE DataInv
  OBVIOUS
<1>1. StoreData
  BY EmptyStore, NoJournal DEF Init, StoreData
<1>2. \A t \in Tasks : task[t].pc # "run" /\ TaskData(task[t], fired)
  BY DEF Init, Off, TaskData
<1>3. Ticking = {} /\ Manual = {}
  BY <1>2 DEF Init, Ticking, Manual
<1>4. TaskStates
  BY <1>2, <1>3, FS_EmptySet DEF TaskStates
<1>5. ManualData
  BY <1>3, FS_EmptySet DEF Init, ManualData
<1>6. LedgerData
  BY CronAssumption DEF Init, LedgerData
<1> QED BY <1>1, <1>4, <1>5, <1>6 DEF DataInv

LEMMA NextData == TimerInv /\ DataInv /\ [Next]_vars => DataInv'
<1> SUFFICES ASSUME TimerInv, DataInv, [Next]_vars PROVE DataInv'
  OBVIOUS
<1>1. CASE \E t \in Tasks : TaskStep(t)
  BY <1>1, TickData
<1>2. CASE \E r \in Runs : RunEnds(r) \/ \E j \in Jobs : RunJob(r, j)
  BY <1>2, RunData
<1>3. CASE \E j \in Jobs : JobEdit(j)
  BY <1>3, JobEditData
<1>4. CASE ReadJobs \/ LoadFails
  <2>1. StoreData' /\ SameHistory /\ BudgetOK /\ UNCHANGED <<up, running, task, timer, manual>>
    BY <1>4, ReadEffect
  <2>2. TaskStates' /\ ManualData' /\ LedgerData'
    BY <2>1, FollowsItself, QuietTasks, SameManual, SameLedger DEF DataInv, SameHistory
  <2> QED BY <2>1, <2>2 DEF DataInv
<1>5. CASE Start \/ Stop \/ Exit \/ ExitInMerge \/ ClockTicks
  BY <1>5, ProcessData
<1>6. CASE Pauses \/ UNCHANGED vars
  <2>1. StoreData' /\ LedgerData'
    BY <1>6, PauseEffect DEF DataInv, StoreData, LedgerData
  <2>2. TaskStates' /\ ManualData'
    BY <1>6, PauseEffect, FollowsItself, QuietTasks, SameManual DEF DataInv
  <2> QED BY <2>1, <2>2 DEF DataInv
<1> QED BY <1>1, <1>2, <1>3, <1>4, <1>5, <1>6 DEF Next, Pauses

\* The other history variables.
LossData == volatile \subseteq Jobs /\ lost \subseteq Jobs /\ hung \subseteq Tasks

LEMMA EditLoss ==
  ASSUME LossData, NEW j \in Jobs, JobEdit(j)
  PROVE  LossData'
<1>1. lost' \in {lost, lost \ {j}} /\ hung' = hung
  BY DEF JobEdit, AddJob, RemoveJob, EnableJob, DisableJob, UpdateJob, Change,
         ExternalAdd, ExternalRemove, ledger
<1>2. volatile' \subseteq volatile
  <2>1. CASE ExternalAdd(j) \/ ExternalRemove(j)
    BY <2>1 DEF ExternalAdd, ExternalRemove
  <2>2. CASE \E jobs, entry : Edit(jobs, entry)
    BY <2>2 DEF Edit, Saved, Unsaved
  <2>3. (ExternalAdd(j) \/ ExternalRemove(j)) \/ \E jobs, entry : Edit(jobs, entry)
    BY DEF JobEdit, AddJob, RemoveJob, EnableJob, DisableJob, UpdateJob, Change
  <2> QED BY <2>1, <2>2, <2>3
<1> QED BY <1>1, <1>2 DEF LossData

LEMMA NextLoss == DataInv /\ LossData /\ [Next]_vars => LossData'
<1> SUFFICES ASSUME DataInv, LossData, [Next]_vars PROVE LossData'
  OBVIOUS
<1>1. Told(journal) \subseteq Jobs
  BY LinesOK DEF DataInv, StoreData, Told, IsLine
<1>2. CASE \E t \in Tasks : TaskStep(t)
  BY <1>1, <1>2 DEF TaskStep, TickFlushes, TickIdles, TickMergeFails, TickStarts, NextJob, TickEnds,
                    TickCancelled, Forget, Saved, Unsaved, MergeFails, stores, ledger, LossData
<1>3. CASE \E r \in Runs : RunEnds(r) \/ \E j \in Jobs : RunJob(r, j)
  BY <1>1, <1>3 DEF RunEnds, RunJob, Forget, Saved, Unsaved, ledger, LossData
<1>4. CASE \E j \in Jobs : JobEdit(j)
  BY <1>4, EditLoss
<1>5. CASE ReadJobs \/ LoadFails \/ Start \/ Stop \/ ClockTicks
  BY <1>1, <1>5 DEF ReadJobs, LoadFails, MergeFails, Start, Saved, Stop, ClockTicks, stores, ledger, LossData
<1>6. CASE Exit \/ ExitInMerge
  BY <1>1, <1>6 DEF Exit, ExitInMerge, Down, LossData
<1>7. CASE Pauses
  BY <1>7 DEF Pauses, Hang, stores, ledger, LossData
<1>8. CASE UNCHANGED vars
  BY <1>8 DEF vars, stores, ledger, LossData
<1> QED BY <1>2, <1>3, <1>4, <1>5, <1>6, <1>7, <1>8 DEF Next, Pauses

LEMMA DataAlways == Spec => [](TimerInv /\ DataInv /\ LossData)
<1>1. Init => TimerInv /\ DataInv /\ LossData
  BY InitTimerInv, InitData DEF Init, LossData
<1>2. TimerInv /\ DataInv /\ LossData /\ [Next]_vars => (TimerInv /\ DataInv /\ LossData)'
  BY NextTimerInv, NextData, NextLoss
<1> QED BY <1>1, <1>2, PTL DEF Spec

\* Every field of the scheduler, every record of its store, file and journal
\* stays in its type; what a cancellation excuses has been started.
THEOREM SchedulerTypes == Spec => []TypeOK
<1>1. TimerInv /\ DataInv /\ LossData => TypeOK
  <2> SUFFICES ASSUME TimerInv, DataInv, LossData PROVE TypeOK
    OBVIOUS
  <2>0. StoreData /\ TaskStates /\ ManualData /\ LedgerData
    BY DEF DataInv
  <2>1. /\ now \in 0 .. Horizon /\ {up, running, dirty} \subseteq BOOLEAN
        /\ mem \in Stores /\ file \in Stores /\ manual \in [Runs -> Jobs \cup {NoJob}]
        /\ timer \in Tasks \cup {NoTask}
        /\ fired \subseteq Occurrences /\ excused \subseteq fired
        /\ known \subseteq Jobs /\ removed \subseteq Jobs
    BY <2>0 DEF StoreData, ManualData, LedgerData, TimerInv
  <2>2. \A i \in DOMAIN journal : journal[i].job \in Jobs
    BY <2>0 DEF StoreData, JournalOK, IsLine, ToSet
  <2>3. task \in [Tasks -> [pc : {"off", "sleep", "run"},
                            occ : Occurrences \cup {NoOcc},
                            due : SUBSET Occurrences,
                            cancelled : BOOLEAN]]
    <3>1. ASSUME NEW t \in Tasks
          PROVE  /\ task[t].occ \in Occurrences \cup {NoOcc} /\ task[t].due \in SUBSET Occurrences
                 /\ TaskShape(task[t])
      BY <2>0, <2>1 DEF TaskStates, TaskData, TimerInv, Shaped
    <3>2. \A t \in Tasks : task[t] \in [pc : {"off", "sleep", "run"},
                            occ : Occurrences \cup {NoOcc},
                            due : SUBSET Occurrences,
                            cancelled : BOOLEAN]
      <4> SUFFICES ASSUME NEW t \in Tasks
                   PROVE  task[t] \in [pc : {"off", "sleep", "run"},
                            occ : Occurrences \cup {NoOcc},
                            due : SUBSET Occurrences,
                            cancelled : BOOLEAN]
        OBVIOUS
      <4>1. PICK x : x = task[t]
        OBVIOUS
      <4>2. /\ x.pc \in {"off", "sleep", "run"} /\ x.cancelled \in BOOLEAN
            /\ x.occ \in Occurrences \cup {NoOcc} /\ x.due \in SUBSET Occurrences
            /\ x = [pc |-> x.pc, occ |-> x.occ, due |-> x.due, cancelled |-> x.cancelled]
        BY <3>1, <4>1 DEF TaskShape
      <4>3. x \in [pc : {"off", "sleep", "run"}, occ : Occurrences \cup {NoOcc},
                   due : SUBSET Occurrences, cancelled : BOOLEAN]
        BY <4>2
      <4> QED BY <4>1, <4>3
    <3>3. task = [t \in Tasks |-> task[t]]
      BY DEF TimerInv, Shaped
    <3> QED BY <3>2, <3>3
  <2> QED BY <2>1, <2>2, <2>3 DEF TypeOK, LossData
<1> QED BY <1>1, DataAlways, PTL

----------------------------------------------------------------------------
(* Acknowledged edits                                                      *)

\* While the scheduler runs, the journal adds only jobs that memory does not
\* have yet, and what it says has been acknowledged.
JournalInv ==
  running => /\ Updated(journal) \cap DOMAIN mem = {}
             /\ Updated(journal) \subseteq known \cup removed
             /\ Deleted(journal) \subseteq removed

LEMMA AppendJobs ==
  ASSUME NEW jr, JournalOK(jr), NEW e, IsLine(e)
  PROVE  /\ Updated(Append(jr, e)) = Updated(jr) \cup (IF e.action = "update" THEN {e.job} ELSE {})
         /\ Deleted(Append(jr, e)) = Deleted(jr) \cup (IF e.action = "del" THEN {e.job} ELSE {})
BY AppendLine DEF Updated, Deleted

LEMMA JournalLoads ==
  ASSUME JournalInv, Stays \/ Loads, UNCHANGED <<running, known, removed>>
  PROVE  JournalInv'
BY NoJournal DEF JournalInv, Stays, Loads

LEMMA JournalFinishes ==
  ASSUME DataInv, JournalInv, NEW j, Finishes(j), UNCHANGED running
  PROVE  JournalInv'
<1>1. DOMAIN mem' \subseteq DOMAIN mem
  BY FinishStore DEF Finishes, DataInv, StoreData, LedgerData
<1> QED BY <1>1 DEF JournalInv, Finishes

\* The five edits, in the scheduler that runs.
Edited(j, jobs) ==
  /\ Owned(jobs)
  /\ \/ /\ DOMAIN jobs = DOMAIN Loaded \cup {j}
        /\ j \notin known \cup removed /\ known' \in {known, known \cup {j}}
        /\ UNCHANGED <<removed, lost>>
     \/ DOMAIN jobs = DOMAIN Loaded /\ UNCHANGED <<known, removed, lost>>
     \/ /\ DOMAIN jobs = DOMAIN Loaded \ {j} /\ j \in DOMAIN Loaded
        /\ known' = known \ {j} /\ removed' \in {removed, removed \cup {j}}
        /\ lost' \in {lost, lost \ {j}}

LEMMA EditedEffect ==
  ASSUME TimerInv, DataInv, running, NEW j \in Jobs,
         AddJob(j) \/ RemoveJob(j) \/ EnableJob(j) \/ DisableJob(j) \/ UpdateJob(j)
  PROVE  /\ \E jobs : Edited(j, jobs)
         /\ up /\ UNCHANGED <<now, up, running, manual, fired>>
<1>1. up /\ UNCHANGED <<now, up, running, manual, fired>>
  BY EditCases
<1>2. PICK jobs, entry :
              /\ Edit(jobs, entry)
              /\ \/ /\ Puts(j, jobs, entry)
                    /\ \/ Fresh(j) /\ known' \in {known, known \cup {j}} /\ UNCHANGED <<removed, lost>>
                       \/ j \in DOMAIN Loaded /\ UNCHANGED <<known, removed, lost>>
                 \/ /\ Drops(j, jobs, entry) /\ j \in DOMAIN Loaded
                    /\ known' = known \ {j} /\ removed' \in {removed, removed \cup {j}}
                    /\ lost' \in {lost, lost \ {j}}
  BY EditCases
<1>3. jobs \in Stores /\ IsLine(entry)
  BY <1>2, EditData
<1>4. Owned(jobs)
  BY <1>2, <1>3, EditEffect
<1>5. Loaded \in Stores
  BY LoadRule
<1>6. CASE Puts(j, jobs, entry)
  <2>1. DOMAIN jobs = DOMAIN Loaded \cup {j}
    <3>1. PICK rec : rec \in RecOf(j) /\ jobs = Put(Loaded, j, rec)
      BY <1>6 DEF Puts, AheadRec
    <3> QED BY <1>5, <3>1, PutStore
  <2>2. CASE Fresh(j) /\ known' \in {known, known \cup {j}} /\ UNCHANGED <<removed, lost>>
    BY <1>1, <1>4, <2>1, <2>2 DEF Edited, Fresh
  <2>3. CASE j \in DOMAIN Loaded /\ UNCHANGED <<known, removed, lost>>
    <3>1. DOMAIN jobs = DOMAIN Loaded
      BY <2>1, <2>3
    <3> QED BY <1>1, <1>4, <2>3, <3>1 DEF Edited
  <2>4. Drops(j, jobs, entry) => FALSE
    BY <1>6 DEF Puts, Drops, Update, Del
  <2> QED BY <1>2, <2>2, <2>3, <2>4
<1>7. CASE Drops(j, jobs, entry)
  <2>1. DOMAIN jobs = DOMAIN Loaded \ {j}
    BY <1>5, <1>7, DropStore DEF Drops
  <2>2. ~Puts(j, jobs, entry)
    BY <1>7 DEF Puts, Drops, Update, Del
  <2> QED BY <1>1, <1>2, <1>4, <2>1, <2>2 DEF Edited
<1> QED BY <1>2, <1>6, <1>7

\* With a store that stays the journal does; otherwise it is empty.
LEMMA LoadedJournal ==
  ASSUME DataInv, NEW jobs, Owned(jobs)
  PROVE  \/ Loaded = mem /\ journal' = journal /\ (dirty \/ Executing)
         \/ Loaded = Replay(file, journal) /\ journal' = <<>> /\ ~dirty
BY DEF Loaded, Merges, Owned

LEMMA JournalEdited ==
  ASSUME DataInv, JournalInv, running, NEW j, NEW jobs, Edited(j, jobs)
  PROVE  JournalInv'
<1>1. Owned(jobs) /\ mem' = jobs
  BY DEF Edited, Owned
<1>2. CASE journal' = <<>>
  BY <1>2, NoJournal DEF JournalInv
<1>3. CASE Loaded = mem /\ journal' = journal
  BY <1>1, <1>3 DEF JournalInv, Edited
<1> QED BY <1>1, <1>2, <1>3, LoadedJournal

LEMMA NextJournal == TimerInv /\ DataInv /\ JournalInv /\ [Next]_vars => JournalInv'
<1> SUFFICES ASSUME TimerInv, DataInv, JournalInv, [Next]_vars PROVE JournalInv'
  OBVIOUS
<1>1. CASE \E t \in Tasks : TaskStep(t)
  <2>1. PICK t \in Tasks : TaskStep(t)
    BY <1>1
  <2>2. CASE TickFlushes(t) \/ TickIdles(t) \/ TickMergeFails(t)
    BY <2>2, TickLoads, JournalLoads DEF SameHistory
  <2>3. CASE TickStarts(t)
    BY <2>3, TickStartEffect, JournalLoads
  <2>4. CASE NextJob(t)
    <3>1. Finishes(task[t].occ[1]) /\ UNCHANGED running
      BY <2>4, NextJobEffect
    <3> QED BY <3>1, JournalFinishes
  <2>5. CASE TickEnds(t)
    <3>1. Finishes(task[t].occ[1]) /\ UNCHANGED running
      BY <2>5, TickEndsEffect
    <3> QED BY <3>1, JournalFinishes
  <2>6. CASE TickCancelled(t)
    BY <2>6 DEF TickCancelled, stores, ledger, JournalInv
  <2> QED BY <2>1, <2>2, <2>3, <2>4, <2>5, <2>6 DEF TaskStep
<1>2. CASE \E r \in Runs : RunEnds(r) \/ \E j \in Jobs : RunJob(r, j)
  <2>1. PICK r \in Runs : RunEnds(r) \/ \E j \in Jobs : RunJob(r, j)
    BY <1>2
  <2>2. CASE RunEnds(r)
    <3>1. Finishes(manual[r]) /\ UNCHANGED running
      BY <2>2, RunEndsEffect
    <3> QED BY <3>1, JournalFinishes
  <2>3. CASE \E j \in Jobs : RunJob(r, j)
    BY <2>3, RunJobEffect, JournalLoads DEF SameHistory
  <2> QED BY <2>1, <2>2, <2>3
<1>3. CASE \E j \in Jobs : JobEdit(j)
  <2>1. PICK j \in Jobs : JobEdit(j)
    BY <1>3
  <2>2. CASE ~running
    <3>1. running' = running
      BY <2>1 DEF JobEdit, AddJob, RemoveJob, EnableJob, DisableJob, UpdateJob, Change,
                  ExternalAdd, ExternalRemove
    <3> QED BY <2>2, <3>1 DEF JournalInv
  <2>3. CASE running /\ (ExternalAdd(j) \/ ExternalRemove(j))
    <3>0. PICK entry :
              /\ IsLine(entry) /\ entry.job = j /\ journal' = Append(journal, entry)
              /\ \/ /\ \E rec : AheadRec(j, rec) /\ entry = Update(j, rec)
                    /\ Fresh(j) /\ known' = known \cup {j} /\ UNCHANGED <<removed, lost>>
                 \/ /\ entry = Del(j)
                    /\ known' = known \ {j} /\ removed' = removed \cup {j} /\ lost' = lost \ {j}
      BY <2>3, ExternalEffect
    <3>1. /\ IsLine(entry) /\ entry.job = j /\ journal' = Append(journal, entry)
          /\ \/ /\ entry.action = "update"
                /\ Fresh(j) /\ known' = known \cup {j} /\ removed' = removed
             \/ /\ entry.action = "del"
                /\ known' = known \ {j} /\ removed' = removed \cup {j}
      BY <3>0 DEF Update, Del
    <3>2. UNCHANGED <<running, mem>>
      BY <2>3, ExternalEffect
    <3>3. JournalOK(journal)
      BY DEF DataInv, StoreData
    <3>4. /\ Updated(journal') = Updated(journal) \cup (IF entry.action = "update" THEN {j} ELSE {})
          /\ Deleted(journal') = Deleted(journal) \cup (IF entry.action = "del" THEN {j} ELSE {})
      BY <3>1, <3>3, AppendJobs
    <3> QED BY <3>1, <3>2, <3>4 DEF JournalInv, Fresh
  <2>4. CASE running /\ ~(ExternalAdd(j) \/ ExternalRemove(j))
    <3>1. \E jobs : Edited(j, jobs)
      BY <2>1, <2>4, EditedEffect DEF JobEdit
    <3> QED BY <2>4, <3>1, JournalEdited
  <2> QED BY <2>2, <2>3, <2>4
<1>4. CASE ReadJobs \/ LoadFails
  <2>1. UNCHANGED <<running, known, removed>> /\ (running => Stays \/ Loads)
    BY <1>4, ReadEffect DEF SameHistory
  <2> QED BY <2>1, JournalLoads DEF JournalInv
<1>5. CASE Start
  BY <1>5, NoJournal DEF Start, JournalInv
<1>6. CASE Stop \/ Exit \/ ExitInMerge
  BY <1>6 DEF Stop, Exit, ExitInMerge, Down, JournalInv
<1>7. CASE ClockTicks
  BY <1>7 DEF ClockTicks, stores, ledger, JournalInv
<1>8. CASE Pauses \/ UNCHANGED vars
  BY <1>8, PauseEffect DEF JournalInv
<1> QED BY <1>1, <1>2, <1>3, <1>4, <1>5, <1>6, <1>7, <1>8 DEF Next, Pauses

\* Store f, with what the journal adds to it, honours the acknowledgements of
\* all jobs but those of except; every one that is not lost.
HonoursBut(f, except) ==
  LET view == DOMAIN Replay(f, journal) IN
  known \ except \subseteq view /\ (removed \ except) \cap view = {}

Honours(f) == HonoursBut(f, lost)

\* What the next load takes over honours them, and so does the live store
\* while executions protect it from loads.
EditsInv ==
  /\ up => running
  /\ ~up => ~dirty /\ ~Executing
  /\ Honours(Base)
  /\ Executing => Honours(mem)

LEMMA ViewDomain ==
  ASSUME DataInv
  PROVE  /\ \A f \in Stores : DOMAIN Replay(f, journal) = (DOMAIN f \ Told(journal)) \cup Kept(journal)
         /\ mem \in Stores /\ file \in Stores /\ Base \in Stores
         /\ Kept(journal) \subseteq Told(journal) /\ Kept(journal) \subseteq Updated(journal)
         /\ Told(journal) \subseteq Kept(journal) \cup Deleted(journal)
<1>1. mem \in Stores /\ file \in Stores /\ Base \in Stores /\ JournalOK(journal)
  BY DEF DataInv, StoreData, Base
<1>2. \A f \in Stores : DOMAIN Replay(f, journal) = (DOMAIN f \ Told(journal)) \cup Kept(journal)
  BY <1>1, ReplayStore
<1> QED BY <1>1, <1>2, LinesOK

\* A step after which memory honours them and the file has caught up or is not
\* looked at.
LEMMA HonoursBoth ==
  ASSUME Honours(mem)', (file' = mem' /\ dirty' = FALSE) \/ dirty' = TRUE, up' => running', up'
  PROVE  EditsInv'
BY DEF EditsInv, Base, Honours, HonoursBut

LEMMA EditsLoads ==
  ASSUME DataInv, DataInv', EditsInv, Stays \/ Loads, up, UNCHANGED <<up, running, known, removed, lost>>,
         Stays /\ ~Executing => UNCHANGED <<task, manual>> \/ dirty
  PROVE  EditsInv'
<1>1. CASE Stays
  <2>1. Honours(mem)
    BY <1>1 DEF Stays, EditsInv, Base
  <2>2. Honours(mem)'
    BY <1>1, <2>1 DEF Stays, Honours, HonoursBut
  <2>3. CASE Written
    BY <2>2, <2>3, HonoursBoth DEF Written, EditsInv
  <2>4. CASE UNCHANGED <<file, dirty>>
    BY <1>1, <2>2, <2>4 DEF Stays, EditsInv, Base, Honours, HonoursBut
  <2> QED BY <1>1, <2>3, <2>4 DEF Stays
<1>2. CASE Loads
  <2>1. /\ mem' = Replay(Base, journal) /\ journal' = <<>>
        /\ (file' = mem' /\ dirty' = FALSE) \/ dirty' = TRUE
    BY <1>2 DEF Loads
  <2>2. mem' \in Stores
    BY DEF DataInv, StoreData
  <2>3. Replay(mem', journal') = Replay(Base, journal)
    BY <2>1, <2>2, NoJournal
  <2>4. Honours(mem)'
    BY <2>3 DEF EditsInv, Honours, HonoursBut
  <2> QED BY <2>1, <2>4, HonoursBoth DEF EditsInv
<1> QED BY <1>1, <1>2

LEMMA EditsFinishes ==
  ASSUME DataInv, DataInv', JournalInv, EditsInv, NEW j, Finishes(j), up, UNCHANGED <<up, running>>,
         Written \/ UNCHANGED <<file, dirty>>
  PROVE  EditsInv'
<1>1. /\ mem' = Finish(mem, j) /\ journal' = journal /\ j \in Jobs /\ Honours(mem)
      /\ known' = known \ (DOMAIN mem \ DOMAIN mem') /\ UNCHANGED <<removed, lost>>
  BY DEF Finishes, EditsInv
<1>2. DOMAIN mem' \subseteq DOMAIN mem
  BY <1>1, FinishStore DEF DataInv, StoreData, LedgerData
<1>3. /\ DOMAIN Replay(mem, journal) = (DOMAIN mem \ Told(journal)) \cup Kept(journal)
      /\ DOMAIN Replay(mem', journal) = (DOMAIN mem' \ Told(journal)) \cup Kept(journal)
  <2>1. mem' \in Stores
    BY DEF DataInv, StoreData
  <2> QED BY <2>1, ViewDomain
<1>4. Honours(mem)'
  BY <1>1, <1>2, <1>3 DEF Honours, HonoursBut
<1>5. CASE Written
  BY <1>4, <1>5, HonoursBoth DEF Written, EditsInv
<1>6. CASE UNCHANGED <<file, dirty>>
  <2>1. Honours(file) => Honours(file)'
    BY <1>1, <1>6 DEF Honours, HonoursBut
  <2>2. Honours(Base)'
    BY <1>4, <1>6, <2>1 DEF EditsInv, Base, Honours, HonoursBut
  <2> QED BY <1>4, <1>6, <2>2 DEF EditsInv
<1> QED BY <1>5, <1>6

LEMMA EditsEdited ==
  ASSUME DataInv, DataInv', JournalInv, EditsInv, up, running, NEW j, NEW jobs, Edited(j, jobs),
         UNCHANGED <<up, running>>
  PROVE  EditsInv'
<1>1. /\ Owned(jobs) /\ mem' = jobs
      /\ (file' = mem' /\ dirty' = FALSE) \/ dirty' = TRUE
  BY DEF Edited, Owned
<1>2. mem' \in Stores /\ JournalOK(journal')
  BY DEF DataInv, StoreData
<1>3. DOMAIN Replay(mem', journal') = (DOMAIN mem' \ Told(journal')) \cup Kept(journal')
  BY <1>2, ReplayStore
<1>4. Honours(mem)'
  <2>1. CASE Loaded = mem /\ journal' = journal /\ (dirty \/ Executing)
    <3>1. Honours(mem)
      BY <2>1 DEF EditsInv, Base
    <3>2. DOMAIN Replay(mem, journal) = (DOMAIN mem \ Told(journal)) \cup Kept(journal)
      BY ViewDomain
    <3>3. /\ Kept(journal) \subseteq Updated(journal) /\ Kept(journal) \subseteq Told(journal)
          /\ Told(journal) \subseteq known \cup removed
      BY ViewDomain DEF JournalInv
    <3>4. Updated(journal) \cap DOMAIN mem = {}
      BY DEF JournalInv
    <3>5. CASE /\ DOMAIN jobs = DOMAIN Loaded \cup {j}
               /\ j \notin known \cup removed /\ known' \in {known, known \cup {j}}
               /\ UNCHANGED <<removed, lost>>
      BY <1>1, <1>3, <2>1, <3>1, <3>2, <3>3, <3>5 DEF Honours, HonoursBut
    <3>6. CASE DOMAIN jobs = DOMAIN Loaded /\ UNCHANGED <<known, removed, lost>>
      BY <1>1, <1>3, <2>1, <3>1, <3>2, <3>6 DEF Honours, HonoursBut
    <3>7. CASE /\ DOMAIN jobs = DOMAIN Loaded \ {j} /\ j \in DOMAIN Loaded
               /\ known' = known \ {j} /\ removed' \in {removed, removed \cup {j}}
               /\ lost' \in {lost, lost \ {j}}
      BY <1>1, <1>3, <2>1, <3>1, <3>2, <3>3, <3>4, <3>7 DEF Honours, HonoursBut
    <3> QED BY <3>5, <3>6, <3>7 DEF Edited
  <2>2. CASE Loaded = Replay(file, journal) /\ journal' = <<>> /\ ~dirty
    <3>1. DOMAIN Replay(mem', journal') = DOMAIN mem'
      BY <1>2, <2>2, NoJournal
    <3>2. known \ lost \subseteq DOMAIN Loaded /\ (removed \ lost) \cap DOMAIN Loaded = {}
      BY <2>2 DEF EditsInv, Base, Honours, HonoursBut
    <3> QED BY <1>1, <3>1, <3>2 DEF Honours, HonoursBut, Edited
  <2> QED BY <1>1, <2>1, <2>2, LoadedJournal
<1> QED BY <1>1, <1>4, HonoursBoth

\* Lines of other processes.
LEMMA ExternalHonours ==
  ASSUME DataInv, NEW j \in Jobs, ExternalAdd(j) \/ ExternalRemove(j),
         NEW f \in Stores, NEW x, NEW y, HonoursBut(f, x), x \subseteq y \cup {j}
  PROVE  /\ known' \ y \subseteq DOMAIN Replay(f, journal')
         /\ (removed' \ y) \cap DOMAIN Replay(f, journal') = {}
<1>0. PICK entry :
          /\ IsLine(entry) /\ entry.job = j /\ journal' = Append(journal, entry)
          /\ \/ /\ \E rec : AheadRec(j, rec) /\ entry = Update(j, rec)
                /\ Fresh(j) /\ known' = known \cup {j} /\ UNCHANGED <<removed, lost>>
             \/ /\ entry = Del(j)
                /\ known' = known \ {j} /\ removed' = removed \cup {j} /\ lost' = lost \ {j}
  BY ExternalEffect
<1>1. /\ IsLine(entry) /\ entry.job = j /\ journal' = Append(journal, entry)
      /\ \/ /\ entry.action = "update"
            /\ Fresh(j) /\ known' = known \cup {j} /\ removed' = removed
         \/ /\ entry.action = "del"
            /\ known' = known \ {j} /\ removed' = removed \cup {j}
  BY <1>0 DEF Update, Del
<1>2. /\ Told(journal') = Told(journal) \cup {j} /\ JournalOK(journal')
      /\ Kept(journal') = IF entry.action = "update" THEN Kept(journal) \cup {j}
                                                     ELSE Kept(journal) \ {j}
  BY <1>1, AppendLine DEF DataInv, StoreData
<1>3. /\ DOMAIN Replay(f, journal) = (DOMAIN f \ Told(journal)) \cup Kept(journal)
      /\ DOMAIN Replay(f, journal') = (DOMAIN f \ Told(journal')) \cup Kept(journal')
  BY <1>2, ReplayStore, ViewDomain
<1> QED BY <1>1, <1>2, <1>3 DEF HonoursBut, Fresh

LEMMA EditsExternal ==
  ASSUME DataInv, EditsInv, NEW j \in Jobs, ExternalAdd(j) \/ ExternalRemove(j)
  PROVE  EditsInv'
<1>1. UNCHANGED <<up, running, mem, dirty, file, task, manual>> /\ lost \subseteq lost' \cup {j}
  BY ExternalEffect
<1>2. mem \in Stores /\ Base \in Stores /\ Base' = Base
  BY <1>1, ViewDomain DEF Base
<1>3. Honours(Base)'
  BY <1>1, <1>2, ExternalHonours DEF EditsInv, Honours, HonoursBut
<1>4. ASSUME Executing PROVE Honours(mem)'
  BY <1>1, <1>2, <1>4, ExternalHonours DEF EditsInv, Honours, HonoursBut
<1>5. Executing' <=> Executing
  BY <1>1 DEF Executing, Ticking, Manual
<1> QED BY <1>1, <1>3, <1>4, <1>5 DEF EditsInv

\* What is on disk honours every acknowledgement but those of the lines that a
\* merge took from the journal without saving them: all that an exit loses.
FileInv == HonoursBut(file, lost \cup volatile)

\* The process ends, between two steps or inside a merge.
LEMMA EditsExit ==
  ASSUME DataInv, EditsInv, FileInv, Exit \/ ExitInMerge
  PROVE  EditsInv' /\ FileInv'
<1>1. Down /\ UNCHANGED <<file, known, removed>>
  BY DEF Exit, ExitInMerge
<1>2. up' = FALSE /\ dirty' = FALSE /\ ~Executing' /\ running' = FALSE /\ volatile' = {}
  BY <1>1, NoTasks DEF Down, Executing
<1>3. HonoursBut(file, lost)'
  <2>1. CASE Exit
    <3>1. journal' = journal /\ lost' = lost \cup volatile
      BY <2>1 DEF Exit
    <3> QED BY <1>1, <3>1 DEF FileInv, HonoursBut
  <2>2. CASE ExitInMerge
    <3>1. journal' = <<>> /\ lost' = lost \cup Told(journal) /\ ~dirty
      BY <2>2 DEF ExitInMerge, EditsInv
    <3>2. HonoursBut(file, lost) /\ file \in Stores
      BY <3>1, ViewDomain DEF EditsInv, Base, Honours
    <3>3. DOMAIN Replay(file, journal) = (DOMAIN file \ Told(journal)) \cup Kept(journal)
      BY <3>2, ViewDomain
    <3>4. Kept(journal) \subseteq Told(journal) /\ Replay(file, <<>>) = file
      BY <3>2, ViewDomain, NoJournal
    <3>5. known \ lost' \subseteq DOMAIN file /\ (removed \ lost') \cap DOMAIN file = {}
      BY <3>1, <3>2, <3>3, <3>4 DEF HonoursBut
    <3> QED BY <1>1, <3>1, <3>4, <3>5 DEF HonoursBut
  <2> QED BY <2>1, <2>2
<1>4. EditsInv'
  BY <1>2, <1>3 DEF EditsInv, Base, Honours
<1> QED BY <1>2, <1>3, <1>4 DEF FileInv, HonoursBut

LEMMA EditsStart ==
  ASSUME TimerInv, DataInv, DataInv', EditsInv, Start
  PROVE  EditsInv'
<1>1. /\ ~up /\ up' = TRUE /\ running' = TRUE
      /\ mem' = Recomputed(Replay(file, journal)) /\ file' = mem' /\ dirty' = FALSE
      /\ journal' = <<>> /\ UNCHANGED <<known, removed, lost>>
  BY DEF Start, Saved, ledger
<1>2. DOMAIN mem' = DOMAIN Replay(file, journal) /\ mem' \in Stores
  BY <1>1, LoadRule, RecomputedStore DEF DataInv, LedgerData
<1>3. Replay(mem', journal') = mem'
  BY <1>1, <1>2, NoJournal
<1>4. Honours(mem)'
  BY <1>1, <1>2, <1>3 DEF EditsInv, Base, Honours, HonoursBut
<1> QED BY <1>1, <1>4, HonoursBoth

LEMMA NextEdits ==
  /\ "stop" \notin Ops /\ TimerInv /\ DataInv /\ DataInv' /\ JournalInv /\ EditsInv /\ FileInv
  /\ [Next]_vars
  => EditsInv'
<1> SUFFICES ASSUME "stop" \notin Ops, TimerInv, DataInv, DataInv', JournalInv, EditsInv, FileInv,
                    [Next]_vars
             PROVE EditsInv'
  OBVIOUS
<1>1. CASE \E t \in Tasks : TaskStep(t)
  <2>1. PICK t \in Tasks : TaskStep(t)
    BY <1>1
  <2>0. up
    BY <2>1 DEF TaskStep, TimerInv, Wakes, TickFlushes, TickIdles, TickMergeFails, TickStarts,
                NextJob, TickEnds, TickCancelled
  <2>2. CASE TickFlushes(t) \/ TickIdles(t) \/ TickMergeFails(t)
    <3>1. /\ Stays \/ Loads
          /\ UNCHANGED <<up, running, known, removed, lost>> /\ Wakes(t)
      BY <2>2, TickLoads DEF SameHistory
    <3> QED BY <2>0, <3>1, EditsLoads DEF Stays
  <2>3. CASE TickStarts(t)
    <3>1. /\ Stays \/ Loads
          /\ UNCHANGED <<up, running, known, removed, lost>>
      BY <2>3, TickStartEffect
    <3> QED BY <2>0, <3>1, EditsLoads DEF Stays
  <2>4. CASE NextJob(t)
    <3>1. Finishes(task[t].occ[1]) /\ UNCHANGED <<up, running, file, dirty>>
      BY <2>4, NextJobEffect
    <3> QED BY <2>0, <3>1, EditsFinishes
  <2>5. CASE TickEnds(t)
    <3>1. Finishes(task[t].occ[1]) /\ Written /\ UNCHANGED <<up, running>>
      BY <2>5, TickEndsEffect
    <3> QED BY <2>0, <3>1, EditsFinishes
  <2>6. CASE TickCancelled(t)
    <3>1. UNCHANGED <<up, running, stores, manual, ledger>> /\ Executing
      BY <2>6 DEF TickCancelled, Executing, Ticking
    <3> QED BY <3>1 DEF stores, ledger, EditsInv, Base, Honours, HonoursBut
  <2> QED BY <2>1, <2>2, <2>3, <2>4, <2>5, <2>6 DEF TaskStep
<1>2. CASE \E r \in Runs : RunEnds(r) \/ \E j \in Jobs : RunJob(r, j)
  <2>1. PICK r \in Runs : RunEnds(r) \/ \E j \in Jobs : RunJob(r, j)
    BY <1>2
  <2>2. CASE RunEnds(r)
    <3>1. Finishes(manual[r]) /\ Written /\ UNCHANGED <<up, running>>
      BY <2>2, RunEndsEffect
    <3>2. CASE up
      BY <3>1, <3>2, EditsFinishes
    <3>3. CASE ~up
      BY <3>1, <3>3 DEF EditsInv, Finishes
    <3> QED BY <3>2, <3>3
  <2>3. CASE \E j \in Jobs : RunJob(r, j)
    <3>1. up
      BY <2>3 DEF RunJob
    <3>2. (Stays \/ Loads) /\ UNCHANGED <<up, running, known, removed, lost>>
      BY <2>3, RunJobEffect DEF SameHistory
    <3> QED BY <3>1, <3>2, EditsLoads DEF Stays
  <2> QED BY <2>1, <2>2, <2>3
<1>3. CASE \E j \in Jobs : JobEdit(j)
  <2>1. PICK j \in Jobs : JobEdit(j)
    BY <1>3
  <2>2. CASE ExternalAdd(j) \/ ExternalRemove(j)
    BY <2>2, EditsExternal
  <2>3. CASE ~(ExternalAdd(j) \/ ExternalRemove(j))
    <3>1. AddJob(j) \/ RemoveJob(j) \/ EnableJob(j) \/ DisableJob(j) \/ UpdateJob(j)
      BY <2>1, <2>3 DEF JobEdit
    <3>2. running
      BY <3>1, EditCases DEF EditsInv
    <3>3. (\E jobs : Edited(j, jobs)) /\ up /\ UNCHANGED <<up, running>>
      BY <3>1, <3>2, EditedEffect
    <3> QED BY <3>2, <3>3, EditsEdited
  <2> QED BY <2>2, <2>3
<1>4. CASE ReadJobs \/ LoadFails
  <2>1. up
    BY <1>4 DEF ReadJobs, LoadFails
  <2>2. running
    BY <2>1 DEF EditsInv
  <2>3. (Stays \/ Loads) /\ UNCHANGED <<up, running, known, removed, lost>>
    BY <1>4, <2>2, ReadEffect DEF SameHistory
  <2> QED BY <2>1, <2>3, EditsLoads DEF Stays
<1>5. CASE Start
  BY <1>5, EditsStart
<1>6. CASE Stop
  BY <1>6 DEF Stop, EditGuard
<1>7. CASE Exit \/ ExitInMerge
  BY <1>7, EditsExit
<1>8. CASE ClockTicks \/ Pauses \/ UNCHANGED vars
  <2>1. UNCHANGED <<up, running, dirty, mem, file, journal, task, manual, known, removed, lost>>
    BY <1>8, PauseEffect DEF ClockTicks, stores, ledger
  <2> QED BY <2>1 DEF EditsInv, Base, Honours, HonoursBut, Executing, Ticking, Manual
<1> QED BY <1>1, <1>2, <1>3, <1>4, <1>5, <1>6, <1>7, <1>8 DEF Next, Pauses

\* A step that leaves memory ahead of jobs.json: it writes nothing, or only the
\* merge, or it is the merge that could not be written.
DirtyStep ==
  /\ known' \subseteq known /\ UNCHANGED <<removed, lost>>
  /\ \/ UNCHANGED <<file, journal, volatile>>
     \/ ~dirty /\ file' = Replay(file, journal) /\ journal' = <<>>
     \/ file' = Base /\ journal' = <<>> /\ volatile' = Told(journal)

LEMMA DirtyKeepsFile ==
  ASSUME DataInv, DataInv', EditsInv, FileInv, DirtyStep
  PROVE  FileInv'
<1>1. /\ mem \in Stores /\ file \in Stores /\ Base \in Stores /\ file' \in Stores
      /\ Honours(Base)
  BY ViewDomain DEF DataInv, StoreData, EditsInv
<1>2. CASE UNCHANGED <<file, journal, volatile>>
  BY <1>2 DEF DirtyStep, FileInv, HonoursBut
<1>3. CASE ~dirty /\ file' = Replay(file, journal) /\ journal' = <<>>
  <2>1. Replay(file', journal') = Replay(Base, journal)
    BY <1>1, <1>3, NoJournal DEF Base
  <2> QED BY <1>1, <2>1 DEF DirtyStep, FileInv, Honours, HonoursBut
<1>4. CASE file' = Base /\ journal' = <<>> /\ volatile' = Told(journal)
  <2>1. Replay(file', journal') = Base
    BY <1>1, <1>4, NoJournal
  <2>2. DOMAIN Replay(Base, journal) = (DOMAIN Base \ Told(journal)) \cup Kept(journal)
    BY <1>1, ViewDomain
  <2>3. Kept(journal) \subseteq Told(journal)
    BY ViewDomain
  <2>4. /\ known \ (lost \cup Told(journal)) \subseteq DOMAIN Base
        /\ (removed \ (lost \cup Told(journal))) \cap DOMAIN Base = {}
    BY <1>1, <2>2, <2>3 DEF Honours, HonoursBut
  <2> QED BY <1>4, <2>1, <2>4 DEF DirtyStep, FileInv, HonoursBut
<1> QED BY <1>2, <1>3, <1>4 DEF DirtyStep

LEMMA EditDirty ==
  ASSUME DataInv, running, dirty', NEW j \in Jobs,
         AddJob(j) \/ RemoveJob(j) \/ EnableJob(j) \/ DisableJob(j) \/ UpdateJob(j)
  PROVE  DirtyStep
<1>1. OwnsStore /\ budget.fails \in Nat
  BY DEF OwnsStore, DataInv, LedgerData
<1>2. PICK jobs, entry : Edit(jobs, entry)
  BY DEF AddJob, RemoveJob, EnableJob, DisableJob, UpdateJob, Change
<1>3. /\ budget' = [budget EXCEPT !.ops = @ + 1, !.fails = @ + 1]
      /\ UNCHANGED volatile
      /\ file' = IF Merges THEN Loaded ELSE file
      /\ journal' = IF Merges THEN <<>> ELSE journal
  BY <1>1, <1>2, LoadRule DEF Edit, Saved, Unsaved
<1>4. ~Acknowledged
  <2>1. budget'.fails = budget.fails + 1
    BY <1>3 DEF DataInv, LedgerData
  <2> QED BY <1>1, <2>1 DEF Acknowledged
<1>5. known' \subseteq known /\ UNCHANGED <<removed, lost>>
  BY <1>4 DEF AddJob, RemoveJob, EnableJob, DisableJob, UpdateJob, Change, ledger
<1>6. Merges => ~dirty /\ Loaded = Replay(file, journal)
  BY DEF Merges, Loaded
<1> QED BY <1>3, <1>5, <1>6 DEF DirtyStep

LEMMA NextDirty ==
  ASSUME "stop" \notin Ops, TimerInv, DataInv, EditsInv, [Next]_vars, dirty'
  PROVE  DirtyStep \/ \E j \in Jobs : ExternalAdd(j) \/ ExternalRemove(j)
<1>0. dirty \in BOOLEAN /\ (Merges => ~dirty /\ Loaded = Replay(file, journal))
  BY DEF DataInv, StoreData, Merges, Loaded
<1>1. CASE \E t \in Tasks : TaskStep(t)
  <2>1. PICK t \in Tasks : TaskStep(t)
    BY <1>1
  <2>2. CASE TickFlushes(t) \/ TickStarts(t)
    BY <2>2 DEF TickFlushes, TickStarts, Saved
  <2>3. CASE TickIdles(t)
    <3>1. UNCHANGED <<known, removed, lost>>
      BY <2>3 DEF TickIdles, ledger
    <3>2. /\ UNCHANGED volatile /\ file' = IF Merges THEN Loaded ELSE file
          /\ journal' = IF Merges THEN <<>> ELSE journal
      BY <2>3, LoadRule DEF TickIdles, Saved, Unsaved
    <3> QED BY <1>0, <3>1, <3>2 DEF DirtyStep
  <2>4. CASE TickMergeFails(t)
    BY <2>4 DEF TickMergeFails, MergeFails, ledger, DirtyStep, Base
  <2>5. CASE NextJob(t) \/ TickEnds(t)
    BY <2>5 DEF NextJob, TickEnds, Forget, Saved, Unsaved, DirtyStep
  <2>6. CASE TickCancelled(t)
    BY <2>6 DEF TickCancelled, stores, ledger, DirtyStep
  <2> QED BY <2>1, <2>2, <2>3, <2>4, <2>5, <2>6 DEF TaskStep
<1>2. CASE \E r \in Runs : RunEnds(r) \/ \E j \in Jobs : RunJob(r, j)
  <2>1. PICK r \in Runs : RunEnds(r) \/ \E j \in Jobs : RunJob(r, j)
    BY <1>2
  <2>2. CASE RunEnds(r)
    BY <2>2 DEF RunEnds, Forget, Saved, Unsaved, DirtyStep
  <2>3. CASE \E j \in Jobs : RunJob(r, j)
    BY <2>3 DEF RunJob, ledger, DirtyStep, Base
  <2> QED BY <2>1, <2>2, <2>3
<1>3. CASE \E j \in Jobs : JobEdit(j)
  <2>1. PICK j \in Jobs : JobEdit(j)
    BY <1>3
  <2>2. CASE AddJob(j) \/ RemoveJob(j) \/ EnableJob(j) \/ DisableJob(j) \/ UpdateJob(j)
    <3>1. running
      BY <2>2, EditCases DEF EditsInv
    <3> QED BY <2>2, <3>1, EditDirty
  <2> QED BY <2>1, <2>2 DEF JobEdit
<1>4. CASE LoadFails
  BY <1>4 DEF LoadFails, MergeFails, MergeWrites, KeepsLive, ledger, DirtyStep, Base
<1>5. CASE ReadJobs
  <2>1. dirty /\ UNCHANGED <<volatile, known, removed, lost>>
    BY <1>5 DEF ReadJobs, ledger
  <2>2. ~MergeWrites(FALSE, OwnsStore)
    BY <2>1 DEF MergeWrites, KeepsLive
  <2>3. file' = file /\ journal' = journal
    BY <1>5, <2>2 DEF ReadJobs, Merged
  <2> QED BY <2>1, <2>3 DEF DirtyStep
<1>6. CASE Start \/ Exit \/ ExitInMerge
  BY <1>6 DEF Start, Saved, Exit, ExitInMerge, Down
<1>7. CASE Stop
  BY <1>7 DEF Stop, EditGuard
<1>8. CASE ClockTicks \/ Pauses \/ UNCHANGED vars
  BY <1>8, PauseEffect DEF ClockTicks, stores, ledger, DirtyStep
<1> QED BY <1>1, <1>2, <1>3, <1>4, <1>5, <1>6, <1>7, <1>8 DEF Next, Pauses

LEMMA NextFile ==
  ASSUME "stop" \notin Ops, TimerInv, DataInv, DataInv', EditsInv, EditsInv', FileInv, [Next]_vars
  PROVE  FileInv'
<1>1. CASE ~dirty'
  BY <1>1 DEF EditsInv, Base, Honours, FileInv, HonoursBut
<1>2. CASE \E j \in Jobs : ExternalAdd(j) \/ ExternalRemove(j)
  <2>1. PICK j \in Jobs : ExternalAdd(j) \/ ExternalRemove(j)
    BY <1>2
  <2>2. file' = file /\ volatile' = volatile \ {j} /\ lost' \in {lost, lost \ {j}}
    BY <2>1, ExternalEffect
  <2>3. lost \cup volatile \subseteq (lost' \cup volatile') \cup {j}
    BY <2>2
  <2>4. file \in Stores
    BY DEF DataInv, StoreData
  <2>5. HonoursBut(file, lost \cup volatile)
    BY DEF FileInv
  <2> DEFINE x == lost \cup volatile
             y == lost' \cup volatile'
  <2> HIDE DEF x, y
  <2>6. x \subseteq y \cup {j} /\ HonoursBut(file, x)
    BY <2>3, <2>5 DEF x, y
  <2>7. known' \ y \subseteq DOMAIN Replay(file, journal') /\ (removed' \ y) \cap DOMAIN Replay(file, journal') = {}
    BY <2>1, <2>4, <2>6, ExternalHonours
  <2> QED BY <2>2, <2>7 DEF FileInv, HonoursBut, y
<1>3. CASE dirty' /\ ~\E j \in Jobs : ExternalAdd(j) \/ ExternalRemove(j)
  BY <1>3, NextDirty, DirtyKeepsFile
<1> QED BY <1>1, <1>2, <1>3

\* No reload, failed save, tick, manual run, edit, line of another process or
\* restart loses an acknowledged job or brings a removed one back (KeepsLive and
\* the merge of the journal, service.py:276-348), in a service that nobody stops.
\* The exception is `lost`, the lines a merge took from the journal and could not
\* save, of a process that ended before any other save did.
THEOREM AcknowledgedEditsSurvive ==
  ASSUME "stop" \notin Ops
  PROVE  Spec => []EditsSurvive
<1>1. Init => TimerInv /\ DataInv /\ JournalInv /\ EditsInv /\ FileInv
  <2> SUFFICES ASSUME Init PROVE JournalInv /\ EditsInv /\ FileInv
    BY InitTimerInv, InitData
  <2>1. mem = Empty /\ file = Empty /\ journal = <<>> /\ known = {} /\ removed = {}
        /\ ~up /\ ~running /\ ~dirty
    BY DEF Init
  <2>2. Honours(Base) /\ Honours(mem) /\ FileInv
    BY <2>1 DEF Honours, HonoursBut, FileInv
  <2>3. ~Executing
    BY DEF Init, Off, Executing, Ticking, Manual
  <2> QED BY <2>1, <2>2, <2>3 DEF JournalInv, EditsInv
<1>2. TimerInv /\ DataInv /\ JournalInv /\ EditsInv /\ FileInv /\ [Next]_vars
        => (TimerInv /\ DataInv /\ JournalInv /\ EditsInv /\ FileInv)'
  BY NextTimerInv, NextData, NextJournal, NextEdits, NextFile
<1>3. EditsInv => EditsSurvive
  BY DEF EditsInv, Honours, HonoursBut, Base, EditsSurvive, View
<1> QED BY <1>1, <1>2, <1>3, PTL DEF Spec

----------------------------------------------------------------------------
(* What ticks start                                                        *)

LEMMA LiveFollows ==
  ASSUME NothingStarts, NEW t \in Tasks, Live(task'[t])
  PROVE  Live(task[t]) /\ task'[t].due = task[t].due /\ task'[t].occ = task[t].occ
BY DEF NothingStarts, Follows, Live

\* In a scheduler that is not running nothing is live.
LEMMA StoppedQuiet ==
  ASSUME TimerInv, ~running, NEW t \in Tasks
  PROVE  ~Live(task[t])
BY CronAssumption DEF TimerInv, OneLiveTick, Live

LEMMA LiveIsTimer ==
  ASSUME TimerInv, NEW t \in Tasks, Live(task[t])
  PROVE  t = timer /\ Ticking # {} /\ Executing
BY DEF TimerInv, OneLiveTick, Live, Ticking, Executing

\* Only two steps start an occurrence; the others leave the tasks alone or
\* leave nothing live.
LEMMA StepTasks ==
  ASSUME TimerInv, DataInv, [Next]_vars
  PROVE  \/ AllQuiet \/ UNCHANGED task
         \/ \E t \in Tasks : TickStarts(t) \/ NextJob(t)
<1>1. CASE \E t \in Tasks : TaskStep(t)
  <2>1. PICK t \in Tasks : TaskStep(t)
    BY <1>1
  <2>2. CASE TickFlushes(t) \/ TickIdles(t) \/ TickMergeFails(t)
    BY <2>2, TickLoads
  <2>3. CASE TickStarts(t) \/ NextJob(t)
    BY <2>3
  <2>4. CASE TickEnds(t)
    BY <2>4, TickEndsEffect
  <2>5. CASE TickCancelled(t)
    BY <2>5, ArmQuiets DEF TickCancelled
  <2> QED BY <2>1, <2>2, <2>3, <2>4, <2>5 DEF TaskStep
<1>2. CASE \E r \in Runs : RunEnds(r) \/ \E j \in Jobs : RunJob(r, j)
  BY <1>2, RunEndsEffect, RunJobEffect
<1>3. CASE \E j \in Jobs : JobEdit(j)
  <2>1. PICK j \in Jobs : JobEdit(j)
    BY <1>3
  <2>2. CASE ExternalAdd(j) \/ ExternalRemove(j)
    BY <2>2, ExternalEffect
  <2>3. CASE ~(ExternalAdd(j) \/ ExternalRemove(j))
    <3>1. PICK jobs, entry : Edit(jobs, entry) /\ (Puts(j, jobs, entry) \/ Drops(j, jobs, entry))
      BY <2>1, <2>3, EditCases DEF JobEdit
    <3>2. jobs \in Stores /\ IsLine(entry)
      BY <3>1, EditData
    <3> QED BY <3>1, <3>2, EditEffect DEF Owned, Journaled
  <2> QED BY <2>2, <2>3
<1>4. CASE ReadJobs \/ LoadFails
  BY <1>4, ReadEffect
<1>5. CASE Start
  <2>1. timer' \in Tasks /\ task' = [task EXCEPT ![timer'] = Asleep]
    BY <1>5, CronAssumption DEF Start
  <2>2. \A t \in Tasks : task'[t] = IF t = timer' THEN Asleep ELSE task[t]
    BY <2>1 DEF TimerInv, Shaped
  <2>3. \A t \in Tasks : task[t].pc = "off"
    BY <1>5 DEF Start, TimerInv
  <2>4. /\ Asleep.pc = "sleep" /\ Asleep.occ = NoOcc /\ Asleep.due = {} /\ ~Asleep.cancelled
    BY DEF Asleep
  <2>5. ASSUME NEW t \in Tasks PROVE Follows(task[t], task'[t]) /\ ~Live(task'[t])
    BY <2>2, <2>3, <2>4 DEF Follows, Live
  <2> QED BY <2>5 DEF AllQuiet, NothingStarts
<1>6. CASE Stop
  <2>1. Shaped(task) /\ OneLive(task, timer) /\ task' = CancelTimer(task)
    BY <1>6 DEF Stop, TimerInv, OneLiveTick, OneLive
  <2>2. \A t \in Tasks : Follows(task[t], task'[t])
    BY <2>1, CancelFollows
  <2>3. \A t \in Tasks : ~Live(task'[t])
    BY <2>1, CancelKillsTimer DEF Live
  <2> QED BY <2>2, <2>3 DEF AllQuiet, NothingStarts
<1>7. CASE Exit \/ ExitInMerge
  BY <1>7 DEF Exit, ExitInMerge, Down, AllQuiet, NothingStarts, Follows, Live, Off
<1>8. CASE ClockTicks \/ Pauses \/ UNCHANGED vars
  BY <1>8, PauseEffect DEF ClockTicks
<1> QED BY <1>1, <1>2, <1>3, <1>4, <1>5, <1>6, <1>7, <1>8 DEF Next, Pauses

\* While no save has failed, every recurring job left in the due list of the
\* live tick is there and enabled.
StillDue(o) == o[1] \in OneShot \/ (o[1] \in DOMAIN mem /\ mem[o[1]].enabled)
DueEnabled ==
  budget.fails = 0 => \A t \in Tasks : Live(task[t]) => \A o \in task[t].due : StillDue(o)

\* A step that takes no recurring job away and disables none.
Gentle == \A k \in DOMAIN mem \ OneShot : k \in DOMAIN mem' /\ mem'[k].enabled = mem[k].enabled

LEMMA GentleFinish ==
  ASSUME DataInv, NEW j, Finishes(j)
  PROVE  Gentle
<1>1. /\ mem' = Finish(mem, j) /\ j \in Jobs /\ mem \in Stores /\ now \in 0 .. Horizon
  BY DEF Finishes, DataInv, StoreData, LedgerData
<1>2. /\ DOMAIN mem \ OneShot \subseteq DOMAIN mem'
      /\ \A k \in DOMAIN mem' \ {j} : mem'[k] = mem[k]
      /\ j \in DOMAIN mem' /\ j \notin OneShot => mem'[j].enabled = mem[j].enabled
  BY <1>1, FinishStore
<1> QED BY <1>2 DEF Gentle

LEMMA DueKept ==
  ASSUME DueEnabled, NothingStarts, Gentle, budget'.fails = 0 => budget.fails = 0
  PROVE  DueEnabled'
<1> SUFFICES ASSUME budget'.fails = 0, NEW t \in Tasks, Live(task'[t]), NEW o \in task'[t].due
             PROVE  o[1] \in OneShot \/ (o[1] \in DOMAIN mem' /\ mem'[o[1]].enabled)
  BY DEF DueEnabled, StillDue
<1>1. Live(task[t]) /\ o \in task[t].due
  BY LiveFollows
<1>2. StillDue(o)
  BY <1>1 DEF DueEnabled
<1> QED BY <1>2 DEF StillDue, Gentle

LEMMA DueNoneLive ==
  ASSUME \A t \in Tasks : ~Live(task'[t])
  PROVE  DueEnabled'
BY DEF DueEnabled

\* With nothing live before, nothing is after a step that starts nothing.
LEMMA QuietStays ==
  ASSUME NothingStarts, \A t \in Tasks : ~Live(task[t])
  PROVE  \A t \in Tasks : ~Live(task'[t])
BY LiveFollows

LEMMA BudgetGrows ==
  ASSUME DataInv, BudgetOK
  PROVE  budget'.fails = 0 => budget.fails = 0
BY DEF DataInv, LedgerData, BudgetOK

LEMMA DueLoads ==
  ASSUME TimerInv, DataInv, DueEnabled, Stays \/ Loads, NothingStarts, BudgetOK
  PROVE  DueEnabled'
<1>1. CASE Stays
  <2>1. Gentle
    BY <1>1 DEF Stays, Gentle
  <2> QED BY <2>1, DueKept, BudgetGrows
<1>2. CASE Loads
  <2>1. \A t \in Tasks : ~Live(task[t])
    BY <1>2, LiveIsTimer DEF Loads
  <2> QED BY <2>1, QuietStays, DueNoneLive
<1> QED BY <1>1, <1>2

LEMMA NextDue == TimerInv /\ DataInv /\ DueEnabled /\ [Next]_vars => DueEnabled'
<1> SUFFICES ASSUME TimerInv, DataInv, DueEnabled, [Next]_vars PROVE DueEnabled'
  OBVIOUS
<1>1. CASE \E t \in Tasks : TaskStep(t)
  <2>1. PICK t \in Tasks : TaskStep(t)
    BY <1>1
  <2>2. CASE TickFlushes(t) \/ TickIdles(t) \/ TickMergeFails(t)
    BY <2>2, TickLoads, DueNoneLive DEF AllQuiet
  <2>3. CASE TickStarts(t)
    <3>1. PICK occ \in DueIn(mem') : Starts(t, occ, DueIn(mem') \ {occ})
      BY <2>3, TickStartEffect
    <3>2. now \in 0 .. Horizon /\ mem' \in Stores
      BY <2>3, TickStartEffect, LoadData DEF DataInv, LedgerData, StoreData
    <3>3. \A o \in DueIn(mem') : o[1] \in DOMAIN mem' /\ mem'[o[1]].enabled
      BY <3>2, DueOcc
    <3>4. \A s \in Tasks : task'[s] = IF s = t THEN Running(occ, DueIn(mem') \ {occ}) ELSE task[s]
      BY <3>1 DEF Starts, TimerInv, Shaped
    <3>5. \A s \in Tasks : ~Live(task[s])
      BY <2>3, WakesAlone, TickStartEffect
    <3> QED BY <3>3, <3>4, <3>5 DEF DueEnabled, StillDue, Running
  <2>4. CASE NextJob(t)
    <3>1. PICK occ \in task[t].due : Starts(t, occ, task[t].due \ {occ})
      BY <2>4, NextJobEffect
    <3>2. Live(task[t]) /\ Gentle /\ budget' = budget
      BY <2>4, NextJobEffect, GentleFinish
    <3>3. \A s \in Tasks : task'[s] = IF s = t THEN Running(occ, task[t].due \ {occ}) ELSE task[s]
      BY <3>1 DEF Starts, TimerInv, Shaped
    <3>4. ASSUME budget.fails = 0, NEW s \in Tasks, Live(task'[s]), NEW o \in task'[s].due
          PROVE  o[1] \in OneShot \/ (o[1] \in DOMAIN mem' /\ mem'[o[1]].enabled)
      <4>1. o \in task[s].due /\ Live(task[s])
        BY <3>2, <3>3, <3>4 DEF Running
      <4>2. StillDue(o)
        BY <3>4, <4>1 DEF DueEnabled
      <4> QED BY <3>2, <4>2 DEF Gentle, StillDue
    <3> QED BY <3>2, <3>4 DEF DueEnabled, StillDue
  <2>5. CASE TickEnds(t)
    BY <2>5, TickEndsEffect, DueNoneLive DEF AllQuiet
  <2>6. CASE TickCancelled(t)
    BY <2>6, ArmQuiets, DueNoneLive DEF TickCancelled, AllQuiet
  <2> QED BY <2>1, <2>2, <2>3, <2>4, <2>5, <2>6 DEF TaskStep
<1>2. CASE \E r \in Runs : RunEnds(r) \/ \E j \in Jobs : RunJob(r, j)
  <2>1. PICK r \in Runs : RunEnds(r) \/ \E j \in Jobs : RunJob(r, j)
    BY <1>2
  <2>2. CASE RunEnds(r)
    <3>1. Finishes(manual[r]) /\ BudgetOK /\ (UNCHANGED task \/ AllQuiet)
      BY <2>2, RunEndsEffect
    <3> QED BY <3>1, GentleFinish, DueKept, BudgetGrows, FollowsItself DEF AllQuiet
  <2>3. CASE \E j \in Jobs : RunJob(r, j)
    BY <2>3, RunJobEffect, DueLoads, FollowsItself
  <2> QED BY <2>1, <2>2, <2>3
<1>3. CASE \E j \in Jobs : JobEdit(j)
  <2>1. PICK j \in Jobs : JobEdit(j)
    BY <1>3
  <2>2. CASE ExternalAdd(j) \/ ExternalRemove(j)
    <3>1. BudgetOK /\ UNCHANGED <<mem, task>>
      BY <2>2, ExternalEffect
    <3> QED BY <3>1, DueKept, BudgetGrows, FollowsItself DEF Gentle
  <2>3. CASE ~(ExternalAdd(j) \/ ExternalRemove(j))
    <3>1. PICK jobs, entry : Edit(jobs, entry) /\ (Puts(j, jobs, entry) \/ Drops(j, jobs, entry))
      BY <2>1, <2>3, EditCases DEF JobEdit
    <3>2. jobs \in Stores /\ IsLine(entry)
      BY <3>1, EditData
    <3>3. CASE Owned(jobs)
      <4>1. CASE AllQuiet
        BY <4>1, DueNoneLive DEF AllQuiet
      <4>2. CASE budget'.fails > 0
        BY <4>2 DEF DueEnabled
      <4> QED BY <3>3, <4>1, <4>2 DEF Owned
    <3>4. CASE ~running /\ Journaled(jobs, entry)
      <4>1. \A t \in Tasks : ~Live(task'[t])
        BY <3>4, StoppedQuiet DEF Journaled
      <4> QED BY <4>1, DueNoneLive
    <3> QED BY <3>1, <3>2, <3>3, <3>4, EditEffect
  <2> QED BY <2>2, <2>3
<1>4. CASE ReadJobs \/ LoadFails
  <2>1. (running => Stays \/ Loads) /\ BudgetOK /\ UNCHANGED task
    BY <1>4, ReadEffect
  <2>2. CASE running
    BY <2>1, <2>2, DueLoads, FollowsItself
  <2>3. CASE ~running
    BY <2>1, <2>3, StoppedQuiet, DueNoneLive
  <2> QED BY <2>2, <2>3
<1>5. CASE Start
  <2>1. ~running
    BY <1>5 DEF Start, TimerInv
  <2>2. NothingStarts
    BY <1>5, StepTasks, FollowsItself DEF Start, TickStarts, NextJob, Wakes, TimerInv, AllQuiet
  <2> QED BY <2>1, <2>2, StoppedQuiet, QuietStays, DueNoneLive
<1>6. CASE Stop
  <2>1. UNCHANGED mem /\ NothingStarts /\ BudgetOK
    BY <1>6, CancelFollows, SpendOK DEF Stop, NothingStarts, TimerInv, stores
  <2> QED BY <2>1, DueKept, BudgetGrows DEF Gentle
<1>7. CASE Exit \/ ExitInMerge
  BY <1>7, DueNoneLive DEF Exit, ExitInMerge, Down, Off, Live
<1>8. CASE ClockTicks \/ Pauses \/ UNCHANGED vars
  <2>1. UNCHANGED <<mem, task, budget>>
    BY <1>8, PauseEffect DEF ClockTicks, stores
  <2> QED BY <2>1, DueKept, FollowsItself DEF Gentle
<1> QED BY <1>1, <1>2, <1>3, <1>4, <1>5, <1>6, <1>7, <1>8 DEF Next, Pauses

\* What a tick starts it finds in the store, enabled, or in its due list.
LEMMA StartsFromStore ==
  ASSUME TimerInv, DataInv, DueEnabled, [Next]_vars, NEW t \in Tasks,
         task'[t].occ # NoOcc, task'[t].occ # task[t].occ
  PROVE  LET j == task'[t].occ[1] IN
         \/ j \in DOMAIN mem' /\ mem'[j].enabled
         \/ j \in OneShot \/ budget.fails > 0
<1>1. ~NothingStarts
  BY DEF NothingStarts, Follows
<1>2. PICK s \in Tasks : TickStarts(s) \/ NextJob(s)
  BY <1>1, StepTasks, FollowsItself DEF AllQuiet
<1>3. CASE TickStarts(s)
  <2>1. PICK occ \in DueIn(mem') : Starts(s, occ, DueIn(mem') \ {occ})
    BY <1>3, TickStartEffect
  <2>2. now \in 0 .. Horizon /\ mem' \in Stores
    BY <1>3, TickStartEffect, LoadData DEF DataInv, LedgerData, StoreData
  <2>3. task'[t] = IF t = s THEN Running(occ, DueIn(mem') \ {occ}) ELSE task[t]
    BY <2>1 DEF Starts, TimerInv, Shaped
  <2>4. task'[t].occ = occ
    BY <2>3 DEF Running
  <2> QED BY <2>2, <2>4, DueOcc
<1>4. CASE NextJob(s)
  <2>1. PICK occ \in task[s].due : Starts(s, occ, task[s].due \ {occ})
    BY <1>4, NextJobEffect
  <2>2. Live(task[s]) /\ Gentle
    BY <1>4, NextJobEffect, GentleFinish
  <2>3. task'[t] = IF t = s THEN Running(occ, task[s].due \ {occ}) ELSE task[t]
    BY <2>1 DEF Starts, TimerInv, Shaped
  <2>4. task'[t].occ = occ
    BY <2>3 DEF Running
  <2>5. budget.fails \in Nat
    BY DEF DataInv, LedgerData
  <2>6. budget.fails = 0 => StillDue(occ)
    BY <2>1, <2>2 DEF DueEnabled
  <2> QED BY <2>2, <2>4, <2>5, <2>6 DEF StillDue, Gentle
<1> QED BY <1>2, <1>3, <1>4

\* No tick starts a recurring job that was removed or paused after the tick took
\* its due list (service.py:560-566), as long as no save has failed: what takes
\* a job away or disables it is an edit, and the edit cancels the tick; loads
\* keep the live store while a tick executes.
THEOREM RemovedJobsStayQuiet == Spec => StartsOnlyEnabled
<1>1. Init => TimerInv /\ DataInv /\ DueEnabled
  <2>1. Init => \A t \in Tasks : ~Live(task[t])
    BY DEF Init, Live, Off
  <2> QED BY <2>1, InitTimerInv, InitData DEF DueEnabled
<1>2. TimerInv /\ DataInv /\ DueEnabled /\ [Next]_vars => (TimerInv /\ DataInv /\ DueEnabled)'
  BY NextTimerInv, NextData, NextDue
<1>3. TimerInv /\ DataInv /\ DueEnabled /\ [Next]_vars =>
        [\A t \in Tasks :
           task'[t].occ # NoOcc /\ task'[t].occ # task[t].occ =>
             LET j == task'[t].occ[1] IN
             \/ j \in DOMAIN mem' /\ mem'[j].enabled
             \/ j \in OneShot \/ budget.fails > 0]_vars
  BY StartsFromStore
<1> QED BY <1>1, <1>2, <1>3, PTL DEF Spec, StartsOnlyEnabled
----------------------------------------------------------------------------
(* Next runs                                                               *)

\* A record, every job of a store, every line, is planned for one interval of its
\* schedule after n at the latest.
RecBy(rec, n)  == rec.sched.kind = "every" => rec.next <= n + rec.sched.n
JobsBy(f, n)   == \A j \in DOMAIN f : RecBy(f[j], n)
LinesBy(jr, n) == \A e \in ToSet(jr) : e.action = "update" => RecBy(e.rec, n)

\* A recurring job is never planned for later than its next interval.
ClockInv == JobsBy(mem, now) /\ JobsBy(file, now) /\ LinesBy(journal, now)

LEMMA ReplayBy ==
  ASSUME NEW b \in Stores, NEW jr, JournalOK(jr), NEW n, JobsBy(b, n), LinesBy(jr, n)
  PROVE  JobsBy(Replay(b, jr), n)
<1> SUFFICES ASSUME NEW j \in DOMAIN Replay(b, jr)
             PROVE  RecBy(Replay(b, jr)[j], n)
  BY DEF JobsBy
<1>1. CASE j \in DOMAIN b /\ j \notin Told(jr)
  BY <1>1, ReplayedJob DEF JobsBy
<1>2. CASE j \in Kept(jr)
  <2>1. PICK e \in ToSet(jr) : e.action = "update" /\ e.job = j /\ Replay(b, jr)[j] = e.rec
    BY <1>2, ReplayedJob
  <2> QED BY <2>1 DEF LinesBy
<1> QED BY <1>1, <1>2, ReplayedJob

\* The numbers of a stored record.
LEMMA RecNumbers ==
  ASSUME NEW j \in Jobs, NEW rec, rec \in RecOf(j)
  PROVE  /\ rec.next \in Nat /\ rec.sched.n \in Nat \ {0}
         /\ rec.sched.kind \in {"at", "every"}
<1>1. rec.sched \in Offers[j] /\ rec.next \in 0 .. Horizon + MaxPeriod
  BY RecFields
<1> QED BY <1>1, OfferFields

LEMMA FinishBy ==
  ASSUME now \in 0 .. Horizon, NEW f \in Stores, NEW j \in Jobs, JobsBy(f, now)
  PROVE  JobsBy(Finish(f, j), now)
<1> SUFFICES ASSUME NEW k \in DOMAIN Finish(f, j)
             PROVE  RecBy(Finish(f, j)[k], now)
  BY DEF JobsBy
<1>1. CASE k = j
  <2>1. j \in DOMAIN Finish(f, j)
    BY <1>1
  <2>2. j \in DOMAIN f
    BY <2>1, FinishStore
  <2>3. f[j] \in RecOf(j)
    BY <2>2, InStores
  <2>4. f[j].sched.n \in Nat
    BY <2>3, RecNumbers
  <2>5. \/ Finish(f, j)[j].sched.kind = "at"
        \/ /\ Finish(f, j)[j].sched = f[j].sched
           /\ Finish(f, j)[j].next = now + f[j].sched.n
    BY <2>1, FinishStore
  <2> QED BY <1>1, <2>4, <2>5 DEF RecBy
<1>2. k # j => k \in DOMAIN f /\ Finish(f, j)[k] = f[k]
  BY FinishStore
<1> QED BY <1>1, <1>2 DEF JobsBy

LEMMA RecomputedBy ==
  ASSUME now \in 0 .. Horizon, NEW f \in Stores, JobsBy(f, now)
  PROVE  JobsBy(Recomputed(f), now)
<1> SUFFICES ASSUME NEW k \in DOMAIN Recomputed(f)
             PROVE  RecBy(Recomputed(f)[k], now)
  BY DEF JobsBy
<1>1. k \in DOMAIN f
  BY RecomputedStore
<1>2. CASE f[k].enabled
  <2>1. /\ Recomputed(f)[k].sched = f[k].sched
        /\ Recomputed(f)[k].sched.kind = "every"
             => Recomputed(f)[k].next = now + Recomputed(f)[k].sched.n
    BY <1>1, <1>2, RecomputedStore
  <2>2. f[k] \in RecOf(k) /\ k \in Jobs
    BY <1>1, InStores
  <2>3. f[k].sched.n \in Nat
    BY <2>2, RecNumbers
  <2> QED BY <2>1, <2>3 DEF RecBy
<1>3. ~f[k].enabled => Recomputed(f)[k] = f[k]
  BY <1>1, RecomputedStore
<1> QED BY <1>1, <1>2, <1>3 DEF JobsBy

LEMMA AppendBy ==
  ASSUME NEW jr, JournalOK(jr), NEW e, IsLine(e), NEW n, LinesBy(jr, n),
         e.action = "update" => RecBy(e.rec, n)
  PROVE  LinesBy(Append(jr, e), n)
BY AppendLine DEF LinesBy

LEMMA LaterRec ==
  ASSUME NEW j \in Jobs, NEW rec, rec \in RecOf(j), NEW n \in Nat, RecBy(rec, n)
  PROVE  RecBy(rec, n + 1)
<1>1. rec.next \in Nat /\ rec.sched.n \in Nat
  BY RecNumbers
<1> QED BY <1>1 DEF RecBy

LEMMA LaterBy ==
  ASSUME NEW f \in Stores, NEW jr, JournalOK(jr), NEW n \in Nat, JobsBy(f, n), LinesBy(jr, n)
  PROVE  JobsBy(f, n + 1) /\ LinesBy(jr, n + 1)
<1>1. ASSUME NEW j \in DOMAIN f PROVE RecBy(f[j], n + 1)
  <2>1. j \in Jobs /\ f[j] \in RecOf(j)
    BY InStores
  <2>2. RecBy(f[j], n)
    BY DEF JobsBy
  <2> QED BY <2>1, <2>2, LaterRec
<1>2. ASSUME NEW e \in ToSet(jr), e.action = "update" PROVE RecBy(e.rec, n + 1)
  <2>1. e.job \in Jobs /\ e.rec \in RecOf(e.job)
    BY <1>2, LinesOK DEF IsLine, Del
  <2>2. RecBy(e.rec, n)
    BY <1>2 DEF LinesBy
  <2> QED BY <2>1, <2>2, LaterRec
<1> QED BY <1>1, <1>2 DEF JobsBy, LinesBy

LEMMA ClockLoads ==
  ASSUME DataInv, ClockInv, Stays \/ Loads, now' = now
  PROVE  ClockInv'
<1>0. mem \in Stores /\ file \in Stores /\ JournalOK(journal) /\ Base \in {mem, file}
  BY DEF DataInv, StoreData, Base
<1>1. CASE Stays
  BY <1>1 DEF Stays, Written, ClockInv
<1>2. CASE Loads
  <2>1. JobsBy(Replay(Base, journal), now)
    BY <1>0, ReplayBy DEF ClockInv
  <2>2. LinesBy(<<>>, now)
    BY DEF LinesBy, ToSet
  <2> QED BY <1>2, <2>1, <2>2 DEF Loads, ClockInv
<1> QED BY <1>1, <1>2

LEMMA ClockFinishes ==
  ASSUME DataInv, ClockInv, NEW j, Finishes(j), Written \/ file' = file, now' = now
  PROVE  ClockInv'
<1>1. mem \in Stores /\ now \in 0 .. Horizon
  BY DEF DataInv, StoreData, LedgerData
<1>2. JobsBy(mem', now)
  BY <1>1, FinishBy DEF Finishes, ClockInv
<1> QED BY <1>2 DEF Finishes, Written, ClockInv

LEMMA ClockEdit ==
  ASSUME TimerInv, DataInv, ClockInv, NEW j \in Jobs, JobEdit(j)
  PROVE  ClockInv'
<1>0. /\ mem \in Stores /\ file \in Stores /\ JournalOK(journal) /\ now \in 0 .. Horizon
      /\ Loaded \in Stores
  BY LoadRule DEF DataInv, StoreData, LedgerData
<1>1. JobsBy(Loaded, now)
  BY <1>0, ReplayBy DEF Loaded, ClockInv
<1>2. ASSUME NEW rec, AheadRec(j, rec) PROVE RecBy(rec, now)
  <2>1. rec \in RecOf(j) /\ (rec.sched.kind = "every" => rec.next \in {0, now + rec.sched.n})
    BY <1>2 DEF AheadRec
  <2>2. rec.sched.n \in Nat
    BY <2>1, RecNumbers
  <2> QED BY <1>0, <2>1, <2>2 DEF RecBy
<1>3. CASE ExternalAdd(j) \/ ExternalRemove(j)
  <2>1. PICK entry :
              /\ IsLine(entry) /\ entry.job = j /\ journal' = Append(journal, entry)
              /\ (\E rec : AheadRec(j, rec) /\ entry = Update(j, rec)) \/ entry = Del(j)
    BY <1>3, ExternalEffect
  <2>2. entry.action = "update" => RecBy(entry.rec, now)
    BY <1>2, <2>1 DEF Update, Del
  <2>3. LinesBy(journal', now)
    BY <1>0, <2>1, <2>2, AppendBy DEF ClockInv
  <2>4. UNCHANGED <<now, mem, file>>
    BY <1>3, ExternalEffect
  <2> QED BY <2>3, <2>4 DEF ClockInv
<1>4. CASE ~(ExternalAdd(j) \/ ExternalRemove(j))
  <2>0. AddJob(j) \/ RemoveJob(j) \/ EnableJob(j) \/ DisableJob(j) \/ UpdateJob(j)
    BY <1>4 DEF JobEdit
  <2>1. PICK jobs, entry : Edit(jobs, entry) /\ (Puts(j, jobs, entry) \/ Drops(j, jobs, entry))
    BY <2>0, EditCases
  <2>2. jobs \in Stores /\ IsLine(entry) /\ entry.job = j
    BY <2>1, EditData
  <2>3. /\ JobsBy(jobs, now)
        /\ entry.action = "update" => RecBy(entry.rec, now)
    <3>1. CASE Puts(j, jobs, entry)
      <4>1. PICK rec : AheadRec(j, rec) /\ jobs = Put(Loaded, j, rec) /\ entry = Update(j, rec)
        BY <3>1 DEF Puts
      <4>2. entry.job = j /\ entry.rec = rec /\ rec \in RecOf(j)
        BY <4>1 DEF Update, AheadRec
      <4>3. /\ DOMAIN jobs = DOMAIN Loaded \cup {j} /\ jobs[j] = rec
            /\ \A k \in DOMAIN Loaded \ {j} : jobs[k] = Loaded[k]
        BY <4>1 DEF Put
      <4> QED BY <1>1, <1>2, <4>1, <4>2, <4>3 DEF JobsBy
    <3>2. CASE Drops(j, jobs, entry)
      <4>1. /\ DOMAIN jobs = DOMAIN Loaded \ {j} /\ entry.action = "del"
            /\ \A k \in DOMAIN Loaded \ {j} : jobs[k] = Loaded[k]
        BY <1>0, <3>2, DropStore DEF Drops, Del
      <4> QED BY <1>1, <4>1 DEF JobsBy
    <3> QED BY <2>1, <3>1, <3>2
  <2>4. now' = now
    BY <2>0, EditCases
  <2>5. CASE Owned(jobs)
    <3>1. LinesBy(journal', now)
      BY <2>5 DEF Owned, ClockInv, LinesBy, ToSet
    <3>2. JobsBy(mem', now) /\ JobsBy(file', now)
      BY <1>1, <2>3, <2>5 DEF Owned, ClockInv
    <3> QED BY <2>4, <3>1, <3>2 DEF ClockInv
  <2>6. CASE Journaled(jobs, entry)
    <3>1. LinesBy(journal', now)
      BY <1>0, <2>2, <2>3, <2>6, AppendBy DEF Journaled, ClockInv
    <3> QED BY <2>3, <2>4, <2>6, <3>1 DEF Journaled, ClockInv
  <2> QED BY <2>1, <2>2, <2>5, <2>6, EditEffect
<1> QED BY <1>3, <1>4

LEMMA NextClock == TimerInv /\ DataInv /\ ClockInv /\ [Next]_vars => ClockInv'
<1> SUFFICES ASSUME TimerInv, DataInv, ClockInv, [Next]_vars PROVE ClockInv'
  OBVIOUS
<1>0. /\ mem \in Stores /\ file \in Stores /\ JournalOK(journal) /\ now \in 0 .. Horizon
      /\ LinesBy(<<>>, now)
  BY DEF DataInv, StoreData, LedgerData, LinesBy, ToSet
<1>1. CASE \E t \in Tasks : TaskStep(t)
  <2>1. PICK t \in Tasks : TaskStep(t)
    BY <1>1
  <2>2. CASE TickFlushes(t) \/ TickIdles(t) \/ TickMergeFails(t)
    BY <2>2, TickLoads, ClockLoads DEF SameHistory
  <2>3. CASE TickStarts(t)
    BY <2>3, TickStartEffect, ClockLoads
  <2>4. CASE NextJob(t)
    BY <2>4, NextJobEffect, ClockFinishes
  <2>5. CASE TickEnds(t)
    BY <2>5, TickEndsEffect, ClockFinishes
  <2>6. CASE TickCancelled(t)
    BY <2>6 DEF TickCancelled, stores, ClockInv
  <2> QED BY <2>1, <2>2, <2>3, <2>4, <2>5, <2>6 DEF TaskStep
<1>2. CASE \E r \in Runs : RunEnds(r) \/ \E j \in Jobs : RunJob(r, j)
  BY <1>2, RunEndsEffect, RunJobEffect, ClockFinishes, ClockLoads DEF SameHistory
<1>3. CASE \E j \in Jobs : JobEdit(j)
  BY <1>3, ClockEdit
<1>4. CASE ReadJobs \/ LoadFails
  <2>1. mem' = Loaded /\ file' \in {file, mem'} /\ journal' \in {journal, <<>>} /\ now' = now
    BY <1>4, ReadEffect DEF SameHistory
  <2>2. JobsBy(Loaded, now)
    BY <1>0, ReplayBy DEF Loaded, ClockInv
  <2> QED BY <1>0, <2>1, <2>2 DEF ClockInv
<1>5. CASE Start
  <2>1. /\ mem' = Recomputed(Replay(file, journal)) /\ file' = mem' /\ journal' = <<>> /\ now' = now
    BY <1>5 DEF Start, Saved
  <2>2. JobsBy(mem', now)
    BY <1>0, <2>1, ReplayBy, ReplayStore, RecomputedBy DEF ClockInv
  <2> QED BY <1>0, <2>1, <2>2 DEF ClockInv
<1>6. CASE Stop \/ Pauses \/ UNCHANGED vars
  <2>1. UNCHANGED <<now, mem, file, journal>>
    BY <1>6, PauseEffect DEF Stop, stores
  <2> QED BY <2>1 DEF ClockInv
<1>7. CASE Exit \/ ExitInMerge
  <2>1. mem' = Empty /\ file' = file /\ journal' \in {journal, <<>>} /\ now' = now
    BY <1>7 DEF Exit, ExitInMerge, Down
  <2>2. JobsBy(Empty, now)
    BY EmptyStore DEF JobsBy
  <2> QED BY <1>0, <2>1, <2>2 DEF ClockInv
<1>8. CASE ClockTicks
  <2>1. now' = now + 1 /\ UNCHANGED <<mem, file, journal>>
    BY <1>8 DEF ClockTicks, stores
  <2>2. now \in Nat
    BY <1>0
  <2> QED BY <1>0, <2>1, <2>2, LaterBy DEF ClockInv
<1> QED BY <1>1, <1>2, <1>3, <1>4, <1>5, <1>6, <1>7, <1>8 DEF Next, Pauses

\* What an edit leaves: the others as they were loaded, its own job with a run
\* ahead or none.
LEMMA EditedRecord ==
  ASSUME DataInv, NEW j \in Jobs, NEW jobs, NEW entry,
         Puts(j, jobs, entry) \/ Drops(j, jobs, entry), NEW k \in DOMAIN jobs
  PROVE  IF k = j THEN AheadRec(j, jobs[j]) ELSE k \in DOMAIN Loaded /\ jobs[k] = Loaded[k]
<1>2. CASE Puts(j, jobs, entry)
  <2>1. PICK rec : AheadRec(j, rec) /\ jobs = Put(Loaded, j, rec)
    BY <1>2 DEF Puts
  <2>2. /\ k \in DOMAIN Loaded \cup {j} /\ Put(Loaded, j, rec)[j] = rec
        /\ k # j => Put(Loaded, j, rec)[k] = Loaded[k]
    BY <2>1 DEF Put
  <2> QED BY <2>1, <2>2
<1>3. CASE Drops(j, jobs, entry)
  <2>1. jobs = Drop(Loaded, j)
    BY <1>3 DEF Drops
  <2>2. k \in DOMAIN Loaded \ {j} /\ jobs[k] = Loaded[k]
    BY <2>1 DEF Drop
  <2> QED BY <2>2
<1> QED BY <1>2, <1>3

\* When every job unwinds at once, no tick goes on beside one that is being
\* cancelled, ...
Calm == (\E t \in Tasks : task[t].cancelled) => \A t \in Tasks : ~Live(task[t])

\* ... and what a load takes over when nothing is live and the last save
\* succeeded is what memory holds.
Synced == running /\ ~dirty /\ (\A t \in Tasks : ~Live(task[t])) => mem = file

LEMMA NextCalm ==
  ASSUME SlowUnwind = {}, TimerInv, DataInv, Calm, [Next]_vars
  PROVE  Calm'
<1>1. CASE AllQuiet
  BY <1>1 DEF AllQuiet, Calm
<1>2. CASE UNCHANGED task
  BY <1>2 DEF Calm
<1>3. CASE \E t \in Tasks : TickStarts(t) \/ NextJob(t)
  <2>1. PICK t \in Tasks : TickStarts(t) \/ NextJob(t)
    BY <1>3
  <2>2. \A s \in Tasks : ~task[s].cancelled
    <3>1. CASE TickStarts(t)
      BY <3>1 DEF TickStarts, Wakes, Delivered
    <3>2. CASE NextJob(t)
      BY <3>2, NextJobEffect DEF Calm
    <3> QED BY <2>1, <3>1, <3>2
  <2>3. \E occ, due : task' = [task EXCEPT ![t] = Running(occ, due)]
    BY <2>1, TickStartEffect, NextJobEffect DEF Starts
  <2>4. PICK occ, due : task' = [task EXCEPT ![t] = Running(occ, due)]
    BY <2>3
  <2>5. \A s \in Tasks : task'[s] = IF s = t THEN Running(occ, due) ELSE task[s]
    BY <2>4 DEF TimerInv, Shaped
  <2> QED BY <2>2, <2>5 DEF Calm, Running
<1> QED BY <1>1, <1>2, <1>3, StepTasks

LEMMA SyncedLoads ==
  ASSUME DataInv, Synced, running, \A t \in Tasks : ~Live(task[t]), Stays \/ Loads
  PROVE  Synced'
<1>1. CASE Stays
  BY <1>1 DEF Stays, Written, Synced
<1>2. CASE Loads
  BY <1>2 DEF Loads, Synced
<1> QED BY <1>1, <1>2

\* A tick that starts or goes on is live.
LEMMA StartedLive ==
  ASSUME TimerInv, DataInv, NEW t \in Tasks, TickStarts(t) \/ NextJob(t)
  PROVE  Live(task'[t])
<1>1. PICK occ, due : task' = [task EXCEPT ![t] = Running(occ, due)]
  BY TickStartEffect, NextJobEffect DEF Starts
<1>2. task'[t] = Running(occ, due)
  BY <1>1 DEF TimerInv, Shaped
<1> QED BY <1>2 DEF Running, Live

LEMMA NextSynced ==
  ASSUME TimerInv, DataInv, Calm, Synced, [Next]_vars
  PROVE  Synced'
<1>1. CASE \E t \in Tasks : TaskStep(t)
  <2>1. PICK t \in Tasks : TaskStep(t)
    BY <1>1
  <2>2. CASE TickFlushes(t) \/ TickIdles(t) \/ TickMergeFails(t)
    BY <2>2, TickLoads, WakesAlone, SyncedLoads
  <2>3. CASE TickStarts(t) \/ NextJob(t)
    BY <2>3, StartedLive DEF Synced
  <2>4. CASE TickEnds(t)
    BY <2>4, TickEndsEffect DEF Written, Synced
  <2>5. CASE TickCancelled(t)
    <3>1. task[t].cancelled /\ UNCHANGED <<running, mem, dirty, file>>
      BY <2>5 DEF TickCancelled, stores
    <3> QED BY <3>1 DEF Calm, Synced
  <2> QED BY <2>1, <2>2, <2>3, <2>4, <2>5 DEF TaskStep
<1>2. CASE \E r \in Runs : RunEnds(r) \/ \E j \in Jobs : RunJob(r, j)
  <2>1. PICK r \in Runs : RunEnds(r) \/ \E j \in Jobs : RunJob(r, j)
    BY <1>2
  <2>2. CASE RunEnds(r)
    BY <2>2, RunEndsEffect DEF Written, Synced
  <2>3. CASE \E j \in Jobs : RunJob(r, j)
    <3>1. (Stays \/ Loads) /\ UNCHANGED <<running, task>>
      BY <2>3, RunJobEffect
    <3> QED BY <3>1, SyncedLoads DEF Synced
  <2> QED BY <2>1, <2>2, <2>3
<1>3. CASE \E j \in Jobs : JobEdit(j)
  <2>1. PICK j \in Jobs : JobEdit(j)
    BY <1>3
  <2>2. CASE ExternalAdd(j) \/ ExternalRemove(j)
    BY <2>2, ExternalEffect DEF Synced
  <2>3. CASE ~(ExternalAdd(j) \/ ExternalRemove(j))
    <3>0. AddJob(j) \/ RemoveJob(j) \/ EnableJob(j) \/ DisableJob(j) \/ UpdateJob(j)
      BY <2>1, <2>3 DEF JobEdit
    <3>1. PICK jobs, entry : Edit(jobs, entry) /\ (Puts(j, jobs, entry) \/ Drops(j, jobs, entry))
      BY <3>0, EditCases
    <3>2. jobs \in Stores /\ IsLine(entry) /\ running' = running
      BY <3>0, <3>1, EditData, EditCases
    <3>3. Owned(jobs) \/ ~running
      BY <3>1, <3>2, EditEffect
    <3> QED BY <3>2, <3>3 DEF Owned, Synced
  <2> QED BY <2>2, <2>3
<1>4. CASE ReadJobs \/ LoadFails
  <2>1. (running => Stays \/ Loads) /\ UNCHANGED <<running, task>>
    BY <1>4, ReadEffect
  <2> QED BY <2>1, SyncedLoads DEF Synced
<1>5. CASE Start
  BY <1>5 DEF Start, Saved, Synced
<1>6. CASE Stop \/ Exit \/ ExitInMerge
  BY <1>6 DEF Stop, Exit, ExitInMerge, Down, Synced
<1>7. CASE ClockTicks \/ Pauses \/ UNCHANGED vars
  <2>1. UNCHANGED <<running, dirty, mem, file, task>>
    BY <1>7, PauseEffect DEF ClockTicks, stores
  <2> QED BY <2>1 DEF Synced
<1> QED BY <1>1, <1>2, <1>3, <1>4, <1>5, <1>6, <1>7 DEF Next, Pauses

\* A load of the running scheduler takes over its own memory and new jobs.
LEMMA LoadsMemory ==
  ASSUME TimerInv, DataInv, Synced, running
  PROVE  /\ Loads => mem' = Replay(mem, journal)
         /\ Loaded = mem \/ (~Executing /\ Loaded = Replay(mem, journal))
<1>1. ~Executing => \A t \in Tasks : ~Live(task[t])
  BY LiveIsTimer
<1>2. ~Executing => Base = mem
  BY <1>1 DEF Synced, Base
<1>3. ~Executing /\ ~dirty => file = mem
  BY <1>1 DEF Synced
<1> QED BY <1>2, <1>3 DEF Loads, Loaded

\* The replay of the journal leaves the jobs of memory alone.
LEMMA ReplayedMemory ==
  ASSUME DataInv, JournalInv, running, NEW j \in DOMAIN mem, j \in DOMAIN Replay(mem, journal)
  PROVE  Replay(mem, journal)[j] = mem[j]
<1>1. mem \in Stores /\ JournalOK(journal)
  BY DEF DataInv, StoreData
<1>2. j \notin Kept(journal)
  BY <1>1, LinesOK DEF JournalInv
<1> QED BY <1>1, <1>2, ReplayedJob

NextRunKept(j) ==
  running /\ running' /\ mem[j].sched.kind = "every" /\ mem'[j].sched = mem[j].sched
    => mem'[j].next = 0 \/ mem'[j].next >= mem[j].next

\* The numbers of a job in memory.
LEMMA MemNumbers ==
  ASSUME DataInv, ClockInv, NEW j \in DOMAIN mem
  PROVE  /\ now \in Nat /\ mem[j].next \in Nat /\ mem[j].sched.n \in Nat
         /\ mem[j].sched.kind = "every" => mem[j].next <= now + mem[j].sched.n
<1>1. mem \in Stores /\ now \in 0 .. Horizon
  BY DEF DataInv, StoreData, LedgerData
<1>2. j \in Jobs /\ mem[j] \in RecOf(j)
  BY <1>1, InStores
<1>3. mem[j].next \in Nat /\ mem[j].sched.n \in Nat
  BY <1>2, RecNumbers
<1> QED BY <1>1, <1>3 DEF ClockInv, JobsBy, RecBy

LEMMA KeptByReload ==
  ASSUME DataInv, JournalInv, ClockInv, running, NEW j \in DOMAIN mem \cap DOMAIN mem',
         mem' = mem \/ mem' = Replay(mem, journal)
  PROVE  NextRunKept(j)
<1>1. mem'[j] = mem[j]
  BY ReplayedMemory
<1>2. mem[j].next \in Nat
  BY MemNumbers
<1> QED BY <1>1, <1>2 DEF NextRunKept

LEMMA KeptByFinish ==
  ASSUME DataInv, ClockInv, NEW i, Finishes(i), NEW j \in DOMAIN mem \cap DOMAIN mem'
  PROVE  NextRunKept(j)
<1>1. mem' = Finish(mem, i) /\ i \in Jobs /\ mem \in Stores /\ now \in 0 .. Horizon
  BY DEF Finishes, DataInv, StoreData, LedgerData
<1>2. /\ now \in Nat /\ mem[j].next \in Nat /\ mem[j].sched.n \in Nat
      /\ mem[j].sched.kind = "every" => mem[j].next <= now + mem[j].sched.n
  BY MemNumbers
<1>3. j = i => mem'[j].sched.kind = "at" \/ mem'[j].next = now + mem[j].sched.n
  BY <1>1, FinishStore
<1>4. j # i => mem'[j] = mem[j]
  BY <1>1, FinishStore
<1> QED BY <1>2, <1>3, <1>4 DEF NextRunKept

LEMMA NextRunStep ==
  ASSUME TimerInv, DataInv, JournalInv, Synced, ClockInv, [Next]_vars,
         NEW j \in DOMAIN mem \cap DOMAIN mem'
  PROVE  NextRunKept(j)
<1> SUFFICES ASSUME running, running' PROVE NextRunKept(j)
  BY DEF NextRunKept
<1>0. ASSUME Stays \/ Loads PROVE NextRunKept(j)
  BY <1>0, LoadsMemory, KeptByReload DEF Stays
<1>1. CASE \E t \in Tasks : TaskStep(t)
  <2>1. PICK t \in Tasks : TaskStep(t)
    BY <1>1
  <2>2. CASE TickFlushes(t) \/ TickIdles(t) \/ TickMergeFails(t) \/ TickStarts(t)
    BY <1>0, <2>2, TickLoads, TickStartEffect
  <2>3. CASE NextJob(t) \/ TickEnds(t)
    BY <2>3, NextJobEffect, TickEndsEffect, KeptByFinish
  <2>4. CASE TickCancelled(t)
    BY <2>4, KeptByReload DEF TickCancelled, stores
  <2> QED BY <2>1, <2>2, <2>3, <2>4 DEF TaskStep
<1>2. CASE \E r \in Runs : RunEnds(r) \/ \E i \in Jobs : RunJob(r, i)
  BY <1>0, <1>2, RunEndsEffect, RunJobEffect, KeptByFinish
<1>3. CASE \E i \in Jobs : JobEdit(i)
  <2>1. PICK i \in Jobs : JobEdit(i)
    BY <1>3
  <2>2. CASE ExternalAdd(i) \/ ExternalRemove(i)
    BY <2>2, ExternalEffect, KeptByReload
  <2>3. CASE ~(ExternalAdd(i) \/ ExternalRemove(i))
    <3>1. PICK jobs, entry : Edit(jobs, entry) /\ (Puts(i, jobs, entry) \/ Drops(i, jobs, entry))
      BY <2>1, <2>3, EditCases DEF JobEdit
    <3>2. jobs \in Stores /\ IsLine(entry)
      BY <3>1, EditData
    <3>3. mem' = jobs
      BY <3>1, <3>2, EditEffect DEF Owned
    <3>4. IF j = i THEN AheadRec(i, mem'[i]) ELSE j \in DOMAIN Loaded /\ mem'[j] = Loaded[j]
      BY <3>1, <3>3, EditedRecord
    <3>5. CASE j = i
      <4>1. mem'[j].sched.kind = "every" => mem'[j].next \in {0, now + mem'[j].sched.n}
        BY <3>4, <3>5 DEF AheadRec
      <4> QED BY <4>1, MemNumbers DEF NextRunKept
    <3>6. CASE j # i
      <4>1. Loaded[j] = mem[j]
        BY <3>4, <3>6, LoadsMemory, ReplayedMemory
      <4>2. mem[j].next \in Nat
        BY MemNumbers
      <4> QED BY <3>4, <3>6, <4>1, <4>2 DEF NextRunKept
    <3> QED BY <3>5, <3>6
  <2> QED BY <2>2, <2>3
<1>4. CASE ReadJobs \/ LoadFails
  BY <1>0, <1>4, ReadEffect
<1>5. CASE Start \/ Stop \/ Exit \/ ExitInMerge
  BY <1>5 DEF Start, Stop, Exit, ExitInMerge, Down, TimerInv
<1>6. CASE ClockTicks \/ Pauses \/ UNCHANGED vars
  <2>1. mem' = mem
    BY <1>6, PauseEffect DEF ClockTicks, stores
  <2> QED BY <2>1, KeptByReload
<1> QED BY <1>1, <1>2, <1>3, <1>4, <1>5, <1>6 DEF Next, Pauses

LEMMA InitSchedule ==
  Init => TimerInv /\ DataInv /\ JournalInv /\ Calm /\ Synced /\ ClockInv
<1> SUFFICES ASSUME Init PROVE JournalInv /\ Calm /\ Synced /\ ClockInv
  BY InitTimerInv, InitData
<1>1. ~running /\ mem = Empty /\ file = Empty /\ journal = <<>>
  BY DEF Init
<1>2. \A t \in Tasks : ~Live(task[t])
  BY DEF Init, Off, Live
<1>3. ClockInv
  BY <1>1, EmptyStore DEF ClockInv, JobsBy, LinesBy, ToSet
<1> QED BY <1>1, <1>2, <1>3 DEF JournalInv, Calm, Synced

\* Reloads during or after an execution, failed saves, merges of the journal, and
\* edits that leave a recurring job its schedule, never take its next run back to
\* an earlier time (the dirty guards of _load_store and _on_timer,
\* service.py:327-331, 549-551), as long as a cancelled job unwinds at once.
THEOREM NextRunsGoForward ==
  ASSUME SlowUnwind = {}
  PROVE  Spec => NextRunNeverGoesBack
<1> DEFINE Inv == TimerInv /\ DataInv /\ JournalInv /\ Calm /\ Synced /\ ClockInv
<1>1. Init => Inv
  BY InitSchedule
<1>2. Inv /\ [Next]_vars => Inv'
  <2> SUFFICES ASSUME Inv, [Next]_vars PROVE Inv'
    OBVIOUS
  <2>1. TimerInv' /\ DataInv' /\ JournalInv' /\ ClockInv'
    BY NextTimerInv, NextData, NextJournal, NextClock
  <2>2. Calm' /\ Synced'
    BY NextCalm, NextSynced
  <2> QED BY <2>1, <2>2
<1>3. Inv /\ [Next]_vars =>
        [\A j \in DOMAIN mem \cap DOMAIN mem' :
           running /\ running' /\ mem[j].sched.kind = "every" /\ mem'[j].sched = mem[j].sched
             => mem'[j].next = 0 \/ mem'[j].next >= mem[j].next]_vars
  BY NextRunStep DEF NextRunKept
<1> QED BY <1>1, <1>2, <1>3, PTL DEF Spec, NextRunNeverGoesBack
----------------------------------------------------------------------------
(* Repetitions                                                             *)

\* The occurrences ticks have started or still have in a due list.
Taken(o) == o \in fired \/ \E t \in Tasks : o \in task[t].due

PastInv == \A o : Taken(o) => o \in Occurrences /\ o[2] <= now

\* A line for a job whose occurrence was taken plans a later one.
AheadInv ==
  running => \A e \in ToSet(journal) : e.action = "update" =>
               \A o : Taken(o) /\ o[1] = e.job => e.rec.next = 0 \/ e.rec.next > o[2]

\* The store has o among the next runs.
Planned(f, o) == o[1] \in DOMAIN f /\ f[o[1]].enabled /\ f[o[1]].next = o[2]

\* An occurrence that was started and not excused is planned only while the tick
\* that started it is at it, and is in no due list.
OnceInv ==
  running =>
    /\ \A o \in fired \ excused : Planned(mem, o) => \E t \in Tasks : Live(task[t]) /\ task[t].occ = o
    /\ \A t \in Tasks : Live(task[t]) => task[t].due \cap fired \subseteq excused

\* Every step but the two that start something leaves the history of starts.
LEMMA StepFired ==
  ASSUME [Next]_vars
  PROVE  fired' = fired \/ \E t \in Tasks : TickStarts(t) \/ NextJob(t)
<1>1. CASE \E t \in Tasks : TaskStep(t)
  BY <1>1 DEF TaskStep, TickFlushes, TickIdles, TickMergeFails, TickEnds, TickCancelled, history
<1>2. CASE \E r \in Runs : RunEnds(r) \/ \E j \in Jobs : RunJob(r, j)
  BY <1>2 DEF RunEnds, RunJob, history
<1>3. CASE \E j \in Jobs : JobEdit(j)
  BY <1>3 DEF JobEdit, AddJob, RemoveJob, EnableJob, DisableJob, UpdateJob, Change, ExternalAdd,
              ExternalRemove, history
<1>4. CASE ReadJobs \/ LoadFails \/ Start \/ Stop \/ Exit \/ ExitInMerge \/ ClockTicks
  BY <1>4 DEF ReadJobs, LoadFails, Start, Stop, Exit, ExitInMerge, ClockTicks, history
<1>5. CASE Pauses \/ UNCHANGED vars
  BY <1>5, PauseEffect
<1> QED BY <1>1, <1>2, <1>3, <1>4, <1>5 DEF Next, Pauses

LEMMA StepTaken ==
  ASSUME TimerInv, DataInv, [Next]_vars, NEW o, Taken(o)'
  PROVE  Taken(o) \/ (o \in DueIn(mem') /\ \E t \in Tasks : TickStarts(t))
<1>1. CASE \E t \in Tasks : TickStarts(t)
  <2>1. PICK t \in Tasks : TickStarts(t)
    BY <1>1
  <2>2. PICK occ \in DueIn(mem') : /\ Starts(t, occ, DueIn(mem') \ {occ})
                                   /\ fired' = fired \cup {occ}
    BY <2>1, TickStartEffect
  <2>3. \A s \in Tasks : task'[s] = IF s = t THEN Running(occ, DueIn(mem') \ {occ}) ELSE task[s]
    BY <2>2 DEF Starts, TimerInv, Shaped
  <2> QED BY <2>1, <2>2, <2>3 DEF Taken, Running
<1>2. CASE \E t \in Tasks : NextJob(t)
  <2>1. PICK t \in Tasks : NextJob(t)
    BY <1>2
  <2>2. PICK occ \in task[t].due : /\ Starts(t, occ, task[t].due \ {occ})
                                   /\ fired' = fired \cup {occ}
    BY <2>1, NextJobEffect
  <2>3. \A s \in Tasks : task'[s] = IF s = t THEN Running(occ, task[t].due \ {occ}) ELSE task[s]
    BY <2>2 DEF Starts, TimerInv, Shaped
  <2> QED BY <2>2, <2>3 DEF Taken, Running
<1>3. CASE ~\E t \in Tasks : TickStarts(t) \/ NextJob(t)
  <2>1. fired' = fired /\ NothingStarts
    BY <1>3, StepFired, StepTasks, FollowsItself DEF AllQuiet
  <2> QED BY <2>1 DEF Taken, NothingStarts, Follows
<1> QED BY <1>1, <1>2, <1>3

LEMMA StepClock ==
  ASSUME [Next]_vars
  PROVE  now' = now \/ ClockTicks
BY PauseEffect DEF Next, Pauses, TaskStep, TickFlushes, TickIdles, TickMergeFails, TickStarts, NextJob, TickEnds,
       TickCancelled, RunEnds, RunJob, JobEdit, AddJob, RemoveJob, EnableJob, DisableJob, UpdateJob,
       Change, ExternalAdd, ExternalRemove, ReadJobs, LoadFails, Start, Stop, Exit, ExitInMerge

LEMMA NextPast ==
  ASSUME TimerInv, DataInv, DataInv', PastInv, [Next]_vars
  PROVE  PastInv'
<1> SUFFICES ASSUME NEW o, Taken(o)' PROVE o \in Occurrences /\ o[2] <= now'
  BY DEF PastInv
<1>1. /\ now \in 0 .. Horizon /\ mem' \in Stores
      /\ now' = now \/ (now' = now + 1)
  BY StepClock DEF DataInv, StoreData, LedgerData, ClockTicks
<1>2. o \in Occurrences /\ o[2] <= now
  BY <1>1, StepTaken, DueOcc DEF PastInv
<1>3. o[2] \in 1 .. Horizon
  BY <1>2 DEF Occurrences
<1> QED BY <1>1, <1>2, <1>3, CronAssumption

\* What the scheduler that runs does to the journal.
LEMMA StepJournal ==
  ASSUME TimerInv, DataInv, [Next]_vars, running'
  PROVE  \/ Start
         \/ running /\ journal' \in {journal, <<>>}
         \/ running /\ \E j \in Jobs : ExternalAdd(j) \/ ExternalRemove(j)
<1>1. CASE \E t \in Tasks : TaskStep(t)
  <2>1. PICK t \in Tasks : TaskStep(t)
    BY <1>1
  <2>2. CASE TickFlushes(t) \/ TickIdles(t) \/ TickMergeFails(t)
    BY <2>2, TickLoads, WakesAlone DEF Stays, Loads
  <2>3. CASE TickStarts(t)
    BY <2>3, TickStartEffect, WakesAlone DEF Stays, Loads
  <2>4. CASE NextJob(t) \/ TickEnds(t) \/ TickCancelled(t)
    BY <2>4 DEF NextJob, TickEnds, TickCancelled, stores
  <2> QED BY <2>1, <2>2, <2>3, <2>4 DEF TaskStep
<1>2. CASE \E r \in Runs : RunEnds(r) \/ \E j \in Jobs : RunJob(r, j)
  BY <1>2, RunEndsEffect, RunJobEffect DEF Finishes, Stays, Loads
<1>3. CASE \E j \in Jobs : JobEdit(j)
  <2>1. PICK j \in Jobs : JobEdit(j)
    BY <1>3
  <2>2. running' = running
    BY <2>1 DEF JobEdit, AddJob, RemoveJob, EnableJob, DisableJob, UpdateJob, Change,
                ExternalAdd, ExternalRemove
  <2>3. CASE ~(ExternalAdd(j) \/ ExternalRemove(j))
    <3>1. PICK jobs, entry : Edit(jobs, entry) /\ (Puts(j, jobs, entry) \/ Drops(j, jobs, entry))
      BY <2>1, <2>3, EditCases DEF JobEdit
    <3>2. jobs \in Stores /\ IsLine(entry)
      BY <3>1, EditData
    <3> QED BY <2>2, <3>1, <3>2, EditEffect DEF Owned
  <2> QED BY <2>2, <2>3
<1>4. CASE ReadJobs \/ LoadFails
  BY <1>4, ReadEffect
<1>5. CASE Start \/ Stop \/ Exit \/ ExitInMerge
  BY <1>5 DEF Stop, Exit, ExitInMerge, Down
<1>6. CASE ClockTicks \/ Pauses \/ UNCHANGED vars
  BY <1>6, PauseEffect DEF ClockTicks, stores
<1> QED BY <1>1, <1>2, <1>3, <1>4, <1>5, <1>6 DEF Next, Pauses

LEMMA NextAhead ==
  ASSUME TimerInv, DataInv, JournalInv, PastInv, AheadInv, [Next]_vars
  PROVE  AheadInv'
<1> SUFFICES ASSUME running', NEW e \in ToSet(journal'), e.action = "update", NEW o, Taken(o)', o[1] = e.job
             PROVE  e.rec.next = 0 \/ e.rec.next > o[2]
  BY DEF AheadInv
<1>1. ToSet(<<>>) = {}
  BY DEF ToSet
<1>2. CASE Start
  BY <1>1, <1>2 DEF Start
<1>3. CASE running /\ journal' \in {journal, <<>>}
  <2>1. journal' = journal /\ e \in ToSet(journal) /\ journal # <<>>
    BY <1>1, <1>3
  <2>2. CASE Taken(o)
    BY <1>3, <2>1, <2>2 DEF AheadInv
  <2>3. CASE o \in DueIn(mem') /\ \E t \in Tasks : TickStarts(t)
    <3>1. mem' = mem
      BY <2>1, <2>3, TickStartEffect DEF Stays, Loads
    <3>2. o[1] \in DOMAIN mem
      BY <2>3, <3>1, DueOcc DEF DataInv, StoreData, LedgerData
    <3>3. e.job \in Updated(journal)
      BY <2>1 DEF Updated
    <3> QED BY <1>3, <3>2, <3>3 DEF JournalInv
  <2> QED BY <2>2, <2>3, StepTaken
<1>4. CASE running /\ \E j \in Jobs : ExternalAdd(j) \/ ExternalRemove(j)
  <2>1. PICK j \in Jobs : ExternalAdd(j) \/ ExternalRemove(j)
    BY <1>4
  <2>2. PICK entry :
              /\ IsLine(entry) /\ entry.job = j /\ journal' = Append(journal, entry)
              /\ \/ \E rec : AheadRec(j, rec) /\ entry = Update(j, rec)
                 \/ entry = Del(j)
    BY <2>1, ExternalEffect
  <2>3. UNCHANGED <<now, task, fired>>
    BY <2>1, ExternalEffect
  <2>4. Taken(o)
    BY <2>3 DEF Taken
  <2>5. e \in ToSet(journal) \cup {entry}
    BY <2>2, AppendLine DEF DataInv, StoreData
  <2>6. CASE e \in ToSet(journal)
    BY <1>4, <2>4, <2>6 DEF AheadInv
  <2>7. CASE e = entry
    <3>1. PICK rec : AheadRec(j, rec) /\ entry = Update(j, rec)
      BY <2>2, <2>7 DEF Del
    <3>2. e.rec = rec
      BY <2>7, <3>1 DEF Update
    <3>3. /\ rec.next \in Nat /\ (rec.next = 0 \/ rec.next > now)
          /\ now \in 0 .. Horizon
      BY <3>1, RecNumbers DEF AheadRec, DataInv, LedgerData
    <3>4. o[2] <= now /\ o[2] \in 1 .. Horizon
      BY <2>4 DEF PastInv, Occurrences
    <3> QED BY <3>2, <3>3, <3>4, CronAssumption
  <2> QED BY <2>5, <2>6, <2>7
<1> QED BY <1>2, <1>3, <1>4, StepJournal

\* A load plans no occurrence that was taken already.
LEMMA ReloadPlanned ==
  ASSUME DataInv, PastInv, AheadInv, running, NEW o, Taken(o), NEW f,
         f = mem \/ f = Replay(mem, journal), Planned(f, o)
  PROVE  Planned(mem, o)
<1>1. CASE f = mem
  BY <1>1
<1>2. CASE f = Replay(mem, journal)
  <2>0. mem \in Stores /\ JournalOK(journal)
    BY DEF DataInv, StoreData
  <2>1. CASE o[1] \in Kept(journal)
    <3>1. PICK e \in ToSet(journal) : e.action = "update" /\ e.job = o[1] /\ f[o[1]] = e.rec
      BY <1>2, <2>0, <2>1, ReplayedJob
    <3>2. e.rec.next = 0 \/ e.rec.next > o[2]
      BY <3>1 DEF AheadInv
    <3>3. o[2] \in 1 .. Horizon
      BY DEF PastInv, Occurrences
    <3>4. e.rec.next = o[2]
      BY <3>1 DEF Planned
    <3> QED BY <3>2, <3>3, <3>4, CronAssumption
  <2>2. CASE o[1] \in DOMAIN mem /\ o[1] \notin Told(journal)
    <3>1. f[o[1]] = mem[o[1]]
      BY <1>2, <2>0, <2>2, ReplayedJob
    <3> QED BY <2>2, <3>1 DEF Planned
  <2>3. o[1] \in DOMAIN Replay(mem, journal)
    BY <1>2 DEF Planned
  <2> QED BY <2>0, <2>1, <2>2, <2>3, ReplayedJob
<1> QED BY <1>1, <1>2

\* The end of an execution plans none of its own job.
LEMMA FinishPlanned ==
  ASSUME DataInv, PastInv, NEW j, Finishes(j), NEW o, Taken(o), Planned(mem', o)
  PROVE  o[1] # j /\ Planned(mem, o)
<1>1. mem' = Finish(mem, j) /\ j \in Jobs /\ mem \in Stores /\ now \in 0 .. Horizon
  BY DEF Finishes, DataInv, StoreData, LedgerData
<1>2. o[2] <= now /\ o[2] \in 1 .. Horizon
  BY DEF PastInv, Occurrences
<1>3. o[1] # j
  <2>1. ASSUME o[1] = j PROVE FALSE
    <3>1. j \in DOMAIN mem' /\ mem'[j].enabled /\ mem'[j].next = o[2]
      BY <2>1 DEF Planned
    <3>2. j \in DOMAIN mem /\ mem'[j].next = now + mem[j].sched.n
      BY <1>1, <3>1, FinishStore
    <3>3. mem[j] \in RecOf(j)
      BY <1>1, <3>2, InStores
    <3>4. mem[j].sched.n \in Nat \ {0}
      BY <1>1, <3>3, RecNumbers
    <3> QED BY <1>1, <1>2, <3>1, <3>2, <3>4
  <2> QED BY <2>1
<1>4. o[1] \in DOMAIN mem /\ mem'[o[1]] = mem[o[1]]
  BY <1>1, <1>3, FinishStore DEF Planned
<1> QED BY <1>3, <1>4 DEF Planned

\* Nor does an edit.
LEMMA EditPlanned ==
  ASSUME TimerInv, DataInv, PastInv, AheadInv, Synced, running, NEW j \in Jobs, NEW jobs, NEW entry,
         Puts(j, jobs, entry) \/ Drops(j, jobs, entry), NEW o, Taken(o), Planned(jobs, o)
  PROVE  Planned(mem, o)
<1>1. o[1] \in DOMAIN jobs
  BY DEF Planned
<1>2. IF o[1] = j THEN AheadRec(j, jobs[j]) ELSE o[1] \in DOMAIN Loaded /\ jobs[o[1]] = Loaded[o[1]]
  BY <1>1, EditedRecord
<1>3. o[1] # j
  <2>1. ASSUME o[1] = j PROVE FALSE
    <3>1. jobs[j].next = o[2] /\ (jobs[j].next = 0 \/ jobs[j].next > now)
      BY <1>2, <2>1 DEF Planned, AheadRec
    <3>2. o[2] <= now /\ o[2] \in 1 .. Horizon /\ now \in 0 .. Horizon
      BY DEF PastInv, Occurrences, DataInv, LedgerData
    <3> QED BY <3>1, <3>2, CronAssumption
  <2> QED BY <2>1
<1>4. Planned(Loaded, o)
  BY <1>2, <1>3 DEF Planned
<1> QED BY <1>4, LoadsMemory, ReloadPlanned

\* A step that starts nothing, ends nothing and leaves a live tick alone.
LEMMA OnceQuiet ==
  ASSUME TimerInv, DataInv, PastInv, AheadInv, Synced, OnceInv, running,
         fired' = fired, excused \subseteq excused', Stays \/ Loads \/ mem' = mem,
         UNCHANGED task \/ (NothingStarts /\ \A t \in Tasks : ~Live(task[t]))
  PROVE  OnceInv'
<1>1. ASSUME NEW o \in fired \ excused', Planned(mem', o)
      PROVE  \E t \in Tasks : Live(task'[t]) /\ task'[t].occ = o
  <2>1. mem' = mem \/ mem' = Replay(mem, journal)
    BY LoadsMemory DEF Stays
  <2>2. Taken(o)
    BY DEF Taken
  <2>3. Planned(mem, o)
    BY <1>1, <2>1, <2>2, ReloadPlanned
  <2>4. \E t \in Tasks : Live(task[t]) /\ task[t].occ = o
    BY <1>1, <2>3 DEF OnceInv
  <2> QED BY <2>4
<1>2. ASSUME NEW t \in Tasks, Live(task'[t]) PROVE task'[t].due \cap fired \subseteq excused'
  <2>1. Live(task[t]) /\ task'[t].due = task[t].due
    BY <1>2, FollowsItself, LiveFollows
  <2> QED BY <2>1 DEF OnceInv
<1> QED BY <1>1, <1>2 DEF OnceInv

LEMMA OnceTick ==
  ASSUME TimerInv, DataInv, DataInv', PastInv, AheadInv, Calm, Synced, OnceInv,
         NEW t \in Tasks, TaskStep(t)
  PROVE  OnceInv'
<1>1. CASE TickFlushes(t) \/ TickIdles(t) \/ TickMergeFails(t)
  BY <1>1, TickLoads, WakesAlone, OnceQuiet DEF SameHistory, AllQuiet
<1>2. CASE TickStarts(t)
  <2>0. running /\ (\A s \in Tasks : ~Live(task[s])) /\ (Stays \/ Loads) /\ excused' = excused
    BY <1>2, TickStartEffect, WakesAlone
  <2>1. PICK occ \in DueIn(mem') : /\ Starts(t, occ, DueIn(mem') \ {occ})
                                   /\ fired' = fired \cup {occ}
    BY <1>2, TickStartEffect
  <2>2. \A s \in Tasks : task'[s] = IF s = t THEN Running(occ, DueIn(mem') \ {occ}) ELSE task[s]
    BY <2>1 DEF Starts, TimerInv, Shaped
  <2>3. mem' = mem \/ mem' = Replay(mem, journal)
    BY <2>0, LoadsMemory DEF Stays
  <2>4. ASSUME NEW o \in fired \ excused PROVE ~Planned(mem', o)
    <3>1. Taken(o)
      BY DEF Taken
    <3> QED BY <2>0, <2>3, <2>4, <3>1, ReloadPlanned DEF OnceInv
  <2>5. Live(task'[t]) /\ task'[t].occ = occ
    BY <2>2 DEF Live, Running
  <2>6. \A o \in fired' \ excused' : Planned(mem', o) => \E s \in Tasks : Live(task'[s]) /\ task'[s].occ = o
    BY <2>0, <2>1, <2>4, <2>5
  <2>7. ASSUME NEW s \in Tasks, Live(task'[s]) PROVE task'[s].due \cap fired' \subseteq excused'
    <3>1. s = t /\ task'[s].due = DueIn(mem') \ {occ}
      BY <2>0, <2>2, <2>7 DEF Running
    <3>2. ASSUME NEW o \in DueIn(mem') PROVE Planned(mem', o)
      BY <3>2, DueOcc, <1>2, TickStartEffect DEF Planned, DataInv, StoreData, LedgerData
    <3> QED BY <2>0, <2>1, <2>4, <3>1, <3>2
  <2> QED BY <2>6, <2>7 DEF OnceInv
<1>3. CASE NextJob(t)
  <2>0. /\ Finishes(task[t].occ[1]) /\ Live(task[t]) /\ UNCHANGED <<running, excused>>
    BY <1>3, NextJobEffect
  <2>1. PICK occ \in task[t].due : /\ Starts(t, occ, task[t].due \ {occ})
                                   /\ fired' = fired \cup {occ}
    BY <1>3, NextJobEffect
  <2>2. \A s \in Tasks : task'[s] = IF s = t THEN Running(occ, task[t].due \ {occ}) ELSE task[s]
    BY <2>1 DEF Starts, TimerInv, Shaped
  <2>3. running /\ \A s \in Tasks : Live(task[s]) => s = t
    BY <2>0, StoppedQuiet, LiveIsTimer
  <2>4. ASSUME NEW o \in fired \ excused PROVE ~Planned(mem', o)
    <3>1. Taken(o)
      BY DEF Taken
    <3>2. Planned(mem', o) => o[1] # task[t].occ[1] /\ Planned(mem, o)
      BY <2>0, <3>1, FinishPlanned
    <3>3. Planned(mem, o) => o = task[t].occ
      BY <2>3, <2>4 DEF OnceInv
    <3> QED BY <3>2, <3>3
  <2>5. Live(task'[t]) /\ task'[t].occ = occ
    BY <2>2 DEF Live, Running
  <2>6. \A o \in fired' \ excused' : Planned(mem', o) => \E s \in Tasks : Live(task'[s]) /\ task'[s].occ = o
    BY <2>0, <2>1, <2>4, <2>5
  <2>7. ASSUME NEW s \in Tasks, Live(task'[s]) PROVE task'[s].due \cap fired' \subseteq excused'
    <3>1. s = t /\ task'[s].due = task[t].due \ {occ}
      BY <2>2, <2>3, <2>7 DEF Running
    <3> QED BY <2>0, <2>1, <2>3, <3>1 DEF OnceInv
  <2> QED BY <2>6, <2>7 DEF OnceInv
<1>4. CASE TickEnds(t)
  <2>0. /\ Finishes(task[t].occ[1]) /\ Live(task[t]) /\ AllQuiet /\ UNCHANGED <<running, fired, excused>>
    BY <1>4, TickEndsEffect
  <2>1. running /\ \A s \in Tasks : Live(task[s]) => s = t
    BY <2>0, StoppedQuiet, LiveIsTimer
  <2>2. ASSUME NEW o \in fired \ excused PROVE ~Planned(mem', o)
    <3>1. Taken(o)
      BY DEF Taken
    <3>2. Planned(mem', o) => o[1] # task[t].occ[1] /\ Planned(mem, o)
      BY <2>0, <3>1, FinishPlanned
    <3>3. Planned(mem, o) => o = task[t].occ
      BY <2>1, <2>2 DEF OnceInv
    <3> QED BY <3>2, <3>3
  <2> QED BY <2>0, <2>2 DEF OnceInv, AllQuiet
<1>5. CASE TickCancelled(t)
  <2>1. /\ task[t].cancelled /\ UNCHANGED <<running, mem, fired>> /\ excused \subseteq excused'
    BY <1>5 DEF TickCancelled, stores
  <2>2. AllQuiet /\ \A s \in Tasks : ~Live(task[s])
    BY <1>5, <2>1, ArmQuiets DEF TickCancelled, Calm
  <2>3. running => OnceInv'
    BY <2>1, <2>2, OnceQuiet DEF AllQuiet
  <2> QED BY <2>1, <2>3 DEF OnceInv
<1> QED BY <1>1, <1>2, <1>3, <1>4, <1>5 DEF TaskStep

LEMMA OnceEdit ==
  ASSUME TimerInv, DataInv, PastInv, AheadInv, Synced, OnceInv, NEW j \in Jobs, JobEdit(j)
  PROVE  OnceInv'
<1>0. running' = running
  BY DEF JobEdit, AddJob, RemoveJob, EnableJob, DisableJob, UpdateJob, Change,
         ExternalAdd, ExternalRemove
<1>1. CASE ~running
  BY <1>0, <1>1 DEF OnceInv
<1>2. CASE running /\ (ExternalAdd(j) \/ ExternalRemove(j))
  BY <1>2, ExternalEffect, OnceQuiet
<1>3. CASE running /\ ~(ExternalAdd(j) \/ ExternalRemove(j))
  <2>0. AddJob(j) \/ RemoveJob(j) \/ EnableJob(j) \/ DisableJob(j) \/ UpdateJob(j)
    BY <1>3 DEF JobEdit
  <2>1. PICK jobs, entry : Edit(jobs, entry) /\ (Puts(j, jobs, entry) \/ Drops(j, jobs, entry))
    BY <2>0, EditCases
  <2>2. jobs \in Stores /\ IsLine(entry) /\ fired' = fired
    BY <2>0, <2>1, EditData, EditCases
  <2>3. Owned(jobs)
    BY <1>3, <2>1, <2>2, EditEffect
  <2>4. ASSUME NEW o \in fired \ excused, Planned(mem', o)
        PROVE  \E t \in Tasks : Live(task[t]) /\ task[t].occ = o
    <3>1. Taken(o) /\ mem' = jobs
      BY <2>3 DEF Taken, Owned
    <3>2. Planned(mem, o)
      BY <1>3, <2>1, <2>4, <3>1, EditPlanned
    <3> QED BY <1>3, <2>4, <3>2 DEF OnceInv
  <2>5. CASE UNCHANGED <<task, timer, excused>>
    BY <1>3, <2>2, <2>4, <2>5 DEF OnceInv
  <2>6. CASE AllQuiet /\ excused' = excused \cup Interrupted
    <3>1. ASSUME NEW o \in fired \ excused', Planned(mem', o) PROVE FALSE
      <4>1. o \in fired \ excused
        BY <2>6, <3>1
      <4>2. PICK t \in Tasks : Live(task[t]) /\ task[t].occ = o
        BY <2>4, <3>1, <4>1
      <4>3. t = timer /\ timer # NoTask /\ task[timer].pc = "run"
        BY <4>2, LiveIsTimer, CronAssumption DEF Live
      <4>4. o \in Interrupted
        BY <4>2, <4>3 DEF Interrupted
      <4> QED BY <2>6, <3>1, <4>4
    <3> QED BY <2>2, <2>6, <3>1 DEF OnceInv, AllQuiet
  <2> QED BY <1>3, <2>3, <2>5, <2>6 DEF Owned
<1> QED BY <1>1, <1>2, <1>3

LEMMA NextOnce ==
  ASSUME TimerInv, DataInv, DataInv', PastInv, AheadInv, Calm, Synced, OnceInv, [Next]_vars
  PROVE  OnceInv'
<1>1. CASE \E t \in Tasks : TaskStep(t)
  BY <1>1, OnceTick
<1>2. CASE \E r \in Runs : RunEnds(r) \/ \E j \in Jobs : RunJob(r, j)
  <2>1. PICK r \in Runs : RunEnds(r) \/ \E j \in Jobs : RunJob(r, j)
    BY <1>2
  <2>2. CASE RunEnds(r)
    <3>1. /\ Finishes(manual[r]) /\ UNCHANGED <<running, fired, excused>>
          /\ UNCHANGED task \/ (AllQuiet /\ Ticking = {})
      BY <2>2, RunEndsEffect
    <3> SUFFICES ASSUME running PROVE OnceInv'
      BY <3>1 DEF OnceInv
    <3>2. ASSUME NEW o \in fired \ excused, Planned(mem', o)
          PROVE  \E t \in Tasks : Live(task[t]) /\ task[t].occ = o
      <4>1. Taken(o)
        BY DEF Taken
      <4>2. Planned(mem, o)
        BY <3>1, <3>2, <4>1, FinishPlanned
      <4> QED BY <3>2, <4>2 DEF OnceInv
    <3>3. CASE UNCHANGED task
      BY <3>1, <3>2, <3>3 DEF OnceInv
    <3>4. CASE AllQuiet /\ Ticking = {}
      <4>1. \A t \in Tasks : ~Live(task[t])
        BY <3>4, LiveIsTimer
      <4> QED BY <3>1, <3>2, <3>4, <4>1 DEF OnceInv, AllQuiet
    <3> QED BY <3>1, <3>3, <3>4
  <2>3. CASE \E j \in Jobs : RunJob(r, j)
    <3>1. (Stays \/ Loads) /\ SameHistory /\ UNCHANGED <<running, task>>
      BY <2>3, RunJobEffect
    <3> QED BY <3>1, OnceQuiet DEF SameHistory, OnceInv
  <2> QED BY <2>1, <2>2, <2>3
<1>3. CASE \E j \in Jobs : JobEdit(j)
  BY <1>3, OnceEdit
<1>4. CASE ReadJobs \/ LoadFails
  <2>1. (running => Stays \/ Loads) /\ SameHistory /\ UNCHANGED <<running, task>>
    BY <1>4, ReadEffect
  <2> QED BY <2>1, OnceQuiet DEF SameHistory, OnceInv
<1>5. CASE Start
  <2>1. mem' = Recomputed(Replay(file, journal)) /\ fired' = fired /\ excused' = excused /\ ~running
    BY <1>5 DEF Start, Saved, history, TimerInv
  <2>2. Replay(file, journal) \in Stores /\ now \in 0 .. Horizon
    BY LoadRule DEF DataInv, LedgerData
  <2>3. ASSUME NEW o \in fired PROVE ~Planned(mem', o)
    <3>1. o[2] <= now /\ o[2] \in 1 .. Horizon
      BY DEF PastInv, Taken, Occurrences
    <3> DEFINE f == Replay(file, journal)
               k == o[1]
    <3>2. DOMAIN mem' = DOMAIN f
      BY <2>1, <2>2, RecomputedStore
    <3>3. ASSUME k \in DOMAIN f, f[k].enabled PROVE mem'[k].next = 0 \/ mem'[k].next > now
      BY <2>1, <2>2, <3>3, RecomputedStore
    <3>4. ASSUME k \in DOMAIN f, ~f[k].enabled PROVE ~mem'[k].enabled
      BY <2>1, <2>2, <3>4, RecomputedStore
    <3> QED BY <2>2, <3>1, <3>2, <3>3, <3>4, CronAssumption DEF Planned
  <2>4. \A t \in Tasks : ~Live(task'[t])
    <3>1. NothingStarts
      BY <1>5, StepTasks, FollowsItself DEF Start, TickStarts, NextJob, Wakes, TimerInv, AllQuiet
    <3> QED BY <2>1, <3>1, StoppedQuiet, QuietStays
  <2> QED BY <2>1, <2>3, <2>4 DEF OnceInv
<1>6. CASE Stop \/ Exit \/ ExitInMerge
  BY <1>6 DEF Stop, Exit, ExitInMerge, Down, OnceInv
<1>7. CASE ClockTicks \/ Pauses \/ UNCHANGED vars
  <2>1. UNCHANGED <<running, mem, task, fired, excused>>
    BY <1>7, PauseEffect DEF ClockTicks, stores, history
  <2> QED BY <2>1, OnceQuiet DEF OnceInv
<1> QED BY <1>1, <1>2, <1>3, <1>4, <1>5, <1>6, <1>7 DEF Next, Pauses

LEMMA RepeatStep ==
  ASSUME TimerInv, DataInv, PastInv, AheadInv, Synced, OnceInv, [Next]_vars,
         NEW t \in Tasks, task'[t].occ \in fired, task'[t].occ # task[t].occ
  PROVE  task'[t].occ \in excused
<1>1. ~NothingStarts
  <2>1. NoOcc \notin Occurrences
    BY DEF NoOcc, Occurrences
  <2>2. task'[t].occ # NoOcc
    BY <2>1 DEF DataInv, LedgerData
  <2> QED BY <2>2 DEF NothingStarts, Follows
<1>2. PICK s \in Tasks : TickStarts(s) \/ NextJob(s)
  BY <1>1, StepTasks, FollowsItself DEF AllQuiet
<1>3. CASE TickStarts(s)
  <2>1. PICK occ \in DueIn(mem') : Starts(s, occ, DueIn(mem') \ {occ})
    BY <1>3, TickStartEffect
  <2>2. task'[t] = IF t = s THEN Running(occ, DueIn(mem') \ {occ}) ELSE task[t]
    BY <2>1 DEF Starts, TimerInv, Shaped
  <2>3. task'[t].occ = occ
    BY <2>2 DEF Running
  <2>4. /\ running /\ \A x \in Tasks : ~Live(task[x])
        /\ Stays \/ Loads
    BY <1>3, TickStartEffect, WakesAlone
  <2>5. now \in 0 .. Horizon /\ mem' \in Stores
    BY <1>3, TickStartEffect, LoadData DEF DataInv, LedgerData, StoreData
  <2>6. Planned(mem', occ) /\ Taken(occ)
    BY <2>3, <2>5, DueOcc DEF Planned, Taken
  <2>7. mem' = mem \/ mem' = Replay(mem, journal)
    BY <2>4, LoadsMemory DEF Stays
  <2>8. Planned(mem, occ)
    BY <2>4, <2>6, <2>7, ReloadPlanned
  <2> QED BY <2>3, <2>4, <2>8 DEF OnceInv
<1>4. CASE NextJob(s)
  <2>1. PICK occ \in task[s].due : Starts(s, occ, task[s].due \ {occ})
    BY <1>4, NextJobEffect
  <2>2. task'[t] = IF t = s THEN Running(occ, task[s].due \ {occ}) ELSE task[t]
    BY <2>1 DEF Starts, TimerInv, Shaped
  <2>3. task'[t].occ = occ
    BY <2>2 DEF Running
  <2>4. Live(task[s]) /\ running
    BY <1>4, NextJobEffect, StoppedQuiet
  <2> QED BY <2>1, <2>3, <2>4 DEF OnceInv
<1> QED BY <1>2, <1>3, <1>4

\* No failed save, reload, manual run, line of another process or restart makes
\* a tick start an occurrence again: a tick does so only after an edit cancelled
\* the tick that had started it (service.py:327-331, 549-551), as long as a
\* cancelled job unwinds at once.
THEOREM RepeatsAreExcused ==
  ASSUME SlowUnwind = {}
  PROVE  Spec => RepeatNeedsCancel
<1> DEFINE Inv == /\ TimerInv /\ DataInv /\ JournalInv /\ Calm /\ Synced
                  /\ PastInv /\ AheadInv /\ OnceInv
<1>1. Init => Inv
  <2> SUFFICES ASSUME Init PROVE PastInv /\ AheadInv /\ OnceInv
    BY InitSchedule
  <2>1. ~running /\ fired = {} /\ \A t \in Tasks : task[t].due = {}
    BY DEF Init, Off
  <2> QED BY <2>1 DEF PastInv, Taken, AheadInv, OnceInv
<1>2. Inv /\ [Next]_vars => Inv'
  <2> SUFFICES ASSUME Inv, [Next]_vars PROVE Inv'
    OBVIOUS
  <2>1. TimerInv' /\ DataInv' /\ JournalInv'
    BY NextTimerInv, NextData, NextJournal
  <2>2. Calm' /\ Synced'
    BY NextCalm, NextSynced
  <2>3. PastInv' /\ AheadInv' /\ OnceInv'
    BY <2>1, NextPast, NextAhead, NextOnce
  <2> QED BY <2>1, <2>2, <2>3
<1>3. Inv /\ [Next]_vars =>
        [\A t \in Tasks :
           task'[t].occ \in fired /\ task'[t].occ # task[t].occ
             => task'[t].occ \in excused]_vars
  BY RepeatStep
<1> QED BY <1>1, <1>2, <1>3, PTL DEF Spec, RepeatNeedsCancel
=============================================================================
