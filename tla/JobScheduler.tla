---------------------------- MODULE JobScheduler ----------------------------
(***************************************************************************)
(* The scheduler of periodic jobs (pkg/scheduler) with its table of jobs.  *)
(* Schedule and the recording of an execution each read and write a row in *)
(* one session, and run concurrently; Start, Stop and a kill may come at   *)
(* any time.  A session is a SQLite transaction: one that has read keeps a *)
(* shared lock until it ends, and a commit waits for all others, or fails. *)
(*                                                                         *)
(* The two goroutines of a job follow each other and are one worker: it    *)
(* waits for its timer, later for its ticker.  Times are in units of which *)
(* Second make a second; the table has whole seconds.                      *)
(***************************************************************************)
EXTENDS Naturals, Sequences

CONSTANTS
  Jobs,
  ScheduleCalls,   \* calls of Schedule
  JobPeriods,      \* the periods a job may be scheduled with
  Second,
  FirstTime,       \* time at first; no period is longer
  LastTime,        \* bound on the time
  MaxJobStarts,    \* bound on the calls of Start
  NoRow, NoTick

ASSUME SchedulerAssumption ==
  /\ Second \in Nat \ {0} /\ FirstTime \in Nat /\ LastTime \in Nat
  /\ \A j \in Jobs : JobPeriods[j] \subseteq 0..FirstTime
  /\ NoTick \notin Nat

ASSUME RowAssumption == NoRow \notin [lastExecutedAt : Nat, period : Nat]

\* The sessions of jobs, of calls and of Start are told apart.
ASSUME SessionAssumption ==
  Jobs \cap ScheduleCalls = {} /\ "Start" \notin Jobs \cup ScheduleCalls

VARIABLES
  jobs,         \* the table: [lastExecutedAt, period] of a job, or NoRow
  scheduling,   \* [stage, job, period, row] of each call of Schedule
  registry,     \* jobs with a handler
  phase,        \* "new" | "starting" | "started" | "stopping" | "stopped"
  toStart,      \* the rows Start has read and not yet started
  worker,       \* of each job: [kind, step, tick, due, period, at, row]
  jobTime,
  jobStarts,
  runTicks,     \* history: the tick that each run of a job was for
  runTimes,     \* history: when each run of a job began
  shortest      \* history: the shortest period each job was scheduled with

schedulerVars == <<jobs, scheduling, registry, phase, toStart, worker, jobTime, jobStarts,
                   runTicks, runTimes, shortest>>

\* The zero time, long ago.
ZeroTime == 0
NoWorker == [kind |-> "none", step |-> "select"]
EndedWorker == [kind |-> "ended", step |-> "select"]

SchedulerInit ==
  /\ jobs = [j \in Jobs |-> NoRow]
  /\ scheduling = [c \in ScheduleCalls |-> [stage |-> "idle"]]
  /\ registry = {} /\ phase = "new" /\ toStart = <<>>
  /\ worker = [j \in Jobs |-> NoWorker]
  /\ jobTime = FirstTime /\ jobStarts = 0
  /\ runTicks = [j \in Jobs |-> <<>>] /\ runTimes = [j \in Jobs |-> <<>>]
  /\ shortest = [j \in Jobs |-> FirstTime]

\* The row of a job: both times lose their fractions of a second.
WholeSeconds(t) == (t \div Second) * Second
jobFromModel(last, period) ==
  [lastExecutedAt |-> WholeSeconds(last), period |-> WholeSeconds(period)]

\* The sessions that hold a shared lock.
JobReaders ==
  {j \in Jobs : worker[j].step = "read"}
  \cup {c \in ScheduleCalls : scheduling[c].stage = "read"}
  \cup (IF phase = "starting" THEN {"Start"} ELSE {})

-----------------------------------------------------------------------------
(* Schedule and RegisterJobHandler.                                        *)

Schedule(c, j, p) ==
  /\ scheduling[c].stage = "idle"
  /\ scheduling' = [scheduling EXCEPT ![c] =
       [stage |-> "read", job |-> j, period |-> p, row |-> jobs[j]]]
  /\ UNCHANGED <<jobs, registry, phase, toStart, worker, jobTime, jobStarts, runTicks, runTimes, shortest>>

\* Mutant: the job is stored as a new one.
LastExecutedForgotten(row) == ZeroTime

\* A job that is scheduled again keeps the time of its last execution.
LastExecuted(row) == IF row = NoRow THEN ZeroTime ELSE row.lastExecutedAt

UpsertJob(c) ==
  /\ scheduling[c].stage = "read" /\ JobReaders = {c}
  /\ LET call == scheduling[c]
     IN /\ jobs' = [jobs EXCEPT ![call.job] = jobFromModel(LastExecuted(call.row), call.period)]
        /\ shortest' = [shortest EXCEPT ![call.job] = IF call.period < @ THEN call.period ELSE @]
  /\ scheduling' = [scheduling EXCEPT ![c].stage = "done"]
  /\ UNCHANGED <<registry, phase, toStart, worker, jobTime, jobStarts, runTicks, runTimes>>

ScheduleFails(c) ==
  /\ scheduling[c].stage = "read"
  /\ scheduling' = [scheduling EXCEPT ![c].stage = "done"]
  /\ UNCHANGED <<jobs, registry, phase, toStart, worker, jobTime, jobStarts, runTicks, runTimes, shortest>>

RegisterJobHandler(j) ==
  /\ j \notin registry
  /\ registry' = registry \cup {j}
  /\ UNCHANGED <<jobs, scheduling, phase, toStart, worker, jobTime, jobStarts, runTicks, runTimes, shortest>>

-----------------------------------------------------------------------------
(* Start and Stop.                                                         *)

GetAllJobs ==
  /\ phase \in {"new", "stopped"} /\ jobStarts < MaxJobStarts
  /\ phase' = "starting" /\ jobStarts' = jobStarts + 1
  /\ toStart' = [j \in {x \in Jobs : jobs[x] # NoRow} |-> jobs[j]]
  /\ UNCHANGED <<jobs, scheduling, registry, worker, jobTime, runTicks, runTimes, shortest>>

\* The timer of a job that is due fires at once.
FirstExecution(row) ==
  LET next == row.lastExecutedAt + row.period
  IN [kind |-> "once", step |-> "select", period |-> row.period, due |-> next,
      tick |-> IF next <= jobTime THEN jobTime ELSE NoTick]

\* A job without a handler ends Start with an error; what it has started goes on.
StartJob(j) ==
  /\ phase = "starting" /\ j \in DOMAIN toStart
  /\ \/ /\ j \in registry
        /\ worker' = [worker EXCEPT ![j] = FirstExecution(toStart[j])]
        /\ toStart' = [x \in DOMAIN toStart \ {j} |-> toStart[x]]
        /\ UNCHANGED phase
     \/ /\ j \notin registry
        /\ phase' = "started" /\ toStart' = <<>>
        /\ UNCHANGED worker
  /\ UNCHANGED <<jobs, scheduling, registry, jobTime, jobStarts, runTicks, runTimes, shortest>>

StartEnds ==
  /\ phase = "starting" /\ DOMAIN toStart = {}
  /\ phase' = "started"
  /\ UNCHANGED <<jobs, scheduling, registry, toStart, worker, jobTime, jobStarts, runTicks, runTimes, shortest>>

stopTimers ==
  /\ phase = "started" /\ phase' = "stopping"
  /\ UNCHANGED <<jobs, scheduling, registry, toStart, worker, jobTime, jobStarts, runTicks, runTimes, shortest>>

\* Stop returns when all workers have.
StopEnds ==
  /\ phase = "stopping" /\ \A j \in Jobs : worker[j].kind \in {"none", "ended"}
  /\ phase' = "stopped"
  /\ worker' = [j \in Jobs |-> NoWorker]
  /\ UNCHANGED <<jobs, scheduling, registry, toStart, jobTime, jobStarts, runTicks, runTimes, shortest>>

-----------------------------------------------------------------------------
(* The worker of a job.                                                    *)

WorkerGoes(j, w) ==
  /\ worker' = [worker EXCEPT ![j] = w]
  /\ UNCHANGED <<scheduling, registry, phase, toStart, jobTime, jobStarts, shortest>>

\* After the first execution the ticker starts; a period of no seconds panics.
NextSelect(w) ==
  IF w.kind = "ticker" THEN [w EXCEPT !.step = "select"]
  ELSE IF w.period = 0 THEN EndedWorker
  ELSE [kind |-> "ticker", step |-> "select", period |-> w.period,
        due |-> jobTime + w.period, tick |-> NoTick]

\* Of a tick and the end of the context either is taken.
TakeTick(j) ==
  LET w == worker[j]
  IN /\ w.kind \in {"once", "ticker"} /\ w.step = "select" /\ w.tick # NoTick
     /\ \/ WorkerGoes(j, [kind |-> w.kind, step |-> "read", period |-> w.period, due |-> w.due,
                          tick |-> NoTick, at |-> w.tick, row |-> jobs[j]])
        \/ WorkerGoes(j, NextSelect([w EXCEPT !.tick = NoTick]))
     /\ UNCHANGED <<jobs, runTicks, runTimes>>

TimersDone(j) ==
  /\ phase = "stopping"
  /\ worker[j].kind \in {"once", "ticker"} /\ worker[j].step = "select"
  /\ WorkerGoes(j, EndedWorker)
  /\ UNCHANGED <<jobs, runTicks, runTimes>>

Unread(w, step) ==
  [kind |-> w.kind, step |-> step, period |-> w.period, due |-> w.due, tick |-> w.tick,
   at |-> w.at]

\* The execution is recorded before the handler runs; if it cannot be, the
\* handler does not run.
updateJobExecutionTime(j) ==
  LET w == worker[j]
  IN /\ w.step = "read"
     /\ \/ /\ JobReaders = {j}
           /\ jobs' = [jobs EXCEPT ![j] = jobFromModel(w.at, w.row.period)]
           /\ WorkerGoes(j, Unread(w, "run"))
        \/ /\ WorkerGoes(j, NextSelect([kind |-> w.kind, step |-> "select", period |-> w.period,
                                        due |-> w.due, tick |-> w.tick]))
           /\ UNCHANGED jobs
     /\ UNCHANGED <<runTicks, runTimes>>

\* The handler begins, however late: a tick may have waited for a handler before it.
RunJob(j) ==
  /\ worker[j].step = "run"
  /\ runTicks' = [runTicks EXCEPT ![j] = Append(@, worker[j].at)]
  /\ runTimes' = [runTimes EXCEPT ![j] = Append(@, jobTime)]
  /\ WorkerGoes(j, Unread(worker[j], "running"))
  /\ UNCHANGED jobs

\* A panic ends the goroutine; after the first execution another one follows.
JobReturns(j) ==
  LET w == worker[j]
  IN /\ w.step = "running"
     /\ \/ WorkerGoes(j, NextSelect([kind |-> w.kind, step |-> "select", period |-> w.period,
                                     due |-> w.due, tick |-> w.tick]))
        \/ w.kind = "ticker" /\ WorkerGoes(j, EndedWorker)
     /\ UNCHANGED <<jobs, runTicks, runTimes>>

\* Timers and tickers fire in time; a tick that is not taken makes the next ones drop.
PassTime ==
  /\ jobTime < LastTime /\ jobTime' = jobTime + 1
  /\ worker' = [j \in Jobs |->
       LET w == worker[j]
       IN IF w.kind \notin {"once", "ticker"} THEN w
          ELSE IF w.due # jobTime' THEN w
          ELSE [w EXCEPT !.tick = IF @ = NoTick THEN jobTime' ELSE @,
                         !.due = IF w.kind = "ticker" THEN @ + w.period ELSE @]]
  /\ UNCHANGED <<jobs, scheduling, registry, phase, toStart, jobStarts, runTicks, runTimes, shortest>>

\* The process is killed and started again.
KillScheduler ==
  /\ phase # "new"
  /\ phase' = "new" /\ registry' = {} /\ toStart' = <<>>
  /\ worker' = [j \in Jobs |-> NoWorker]
  /\ scheduling' = [c \in ScheduleCalls |->
       IF scheduling[c].stage = "read" THEN [scheduling[c] EXCEPT !.stage = "done"]
                                       ELSE scheduling[c]]
  /\ UNCHANGED <<jobs, jobTime, jobStarts, runTicks, runTimes, shortest>>

-----------------------------------------------------------------------------
SchedulerNext ==
  \/ \E c \in ScheduleCalls :
       \/ \E j \in Jobs : \E p \in JobPeriods[j] : Schedule(c, j, p)
       \/ UpsertJob(c) \/ ScheduleFails(c)
  \/ \E j \in Jobs :
       \/ RegisterJobHandler(j) \/ StartJob(j)
       \/ TakeTick(j) \/ TimersDone(j) \/ updateJobExecutionTime(j) \/ RunJob(j)
       \/ JobReturns(j)
  \/ GetAllJobs \/ StartEnds \/ stopTimers \/ StopEnds \/ PassTime \/ KillScheduler

SchedulerSpec == SchedulerInit /\ [][SchedulerNext]_schedulerVars

-----------------------------------------------------------------------------
\* Runs of a job are for ticks that are at least the shortest period apart that it
\* was scheduled with, but for the fractions of two seconds that the table loses,
\* whatever restarts, kills, failing sessions and calls of Schedule come in between.
\* A run may be late, and runs that are late may follow each other at once, but not
\* more than the buffer of the ticker allows: the tick of the run after next is never
\* from before the run.  So of four runs the last one begins at least a period after
\* the first.
RunsAreSpaced ==
  \A j \in Jobs :
    /\ \A i \in 1..(Len(runTicks[j]) - 1) :
         runTicks[j][i + 1] + 2 * (Second - 1) >= runTicks[j][i] + shortest[j]
    /\ \A i \in 1..Len(runTimes[j]) : runTicks[j][i] <= runTimes[j][i]
    /\ \A i \in 1..(Len(runTimes[j]) - 2) : runTimes[j][i] <= runTicks[j][i + 2]
=============================================================================
