--------------------------- MODULE TeamScheduler ---------------------------
(***************************************************************************)
(* The team scheduler of the console: the dispatch tick, the executions it *)
(* launches, the wall-clock watchdog, the HTTP requests that change a task *)
(* while all of that runs, and a crash of the process with the orphan scan *)
(* of the next start.                                                      *)
(*                                                                         *)
(* The code is asynchronous JavaScript over a database.  A step of the     *)
(* model is either one SQL statement or one synchronous block between two  *)
(* awaits; with the MySQL driver every await is a network round trip, so   *)
(* any other step may happen in between.  An execution is a slot of Run,   *)
(* reused after the execution has settled; the state space is finite       *)
(* without a bound on the length of a behaviour.                           *)
(***************************************************************************)
EXTENDS TaskPool, Naturals

CONSTANTS Run,        \* slots for executions (calls of runOne) alive at once
          NoTask,     \* "no task" in a program counter record
          DependsOn,  \* DependsOn[t]: the task ids t's package depends on
          CanDo,      \* CanDo[t]: employees whose roles and capabilities fit t
          Nameable,   \* employees that packages and assign requests name
          Outsiders,  \* employee ids that external executors claim under
          Position    \* Position[e]: place of e in the roster's list

ASSUME SchedulerAssumption ==
  /\ NoTask \notin Task
  /\ DependsOn \in [Task -> SUBSET Task]
  /\ CanDo \in [Task -> SUBSET Employee]
  /\ Nameable \subseteq Employee
  /\ Outsiders \subseteq Employee
  /\ Position \in [Employee -> Nat]

VARIABLES
  pool,      \* [Task -> Row]: the database table, survives a crash
  free,      \* employees the roster considers free
  inFlight,  \* task ids dispatched and not yet written back
  reaped,    \* task ids whose execution was given up (late-write guard)
  tick,      \* the dispatch loop: program counter, snapshot entries, acquisition
  run,       \* [Run -> execution]
  sweep,     \* the watchdog's loop
  http,      \* the one multi-step HTTP request in progress
  phase      \* "up", or "boot" while the orphan scan of a restart runs

vars == <<pool, free, inFlight, reaped, tick, run, sweep, http, phase>>

-----------------------------------------------------------------------------
(* Records and initial values.                                             *)

Entry  == [task : Task, assignee : Employee \cup {NoOne}, older : SUBSET Task]
Victim == [task : Task, by : Employee \cup {NoOne}]

IdleTick  == [pc |-> "idle", todo |-> {}, task |-> NoTask, emp |-> NoOne]
IdleRun   == [pc |-> "idle", task |-> NoTask, emp |-> NoOne, stale |-> FALSE]
IdleSweep == [pc |-> "idle", victims |-> {}, task |-> NoTask, by |-> NoOne]
IdleHttp  == [op |-> "none", task |-> NoTask, seen |-> "absent", by |-> NoOne]

Live(r) == run[r].pc # "idle"

(* The tick has acquired tick.emp for tick.task and not handed it over yet. *)
TickHolds == tick.pc \in {"claim", "mark", "launch", "undo"}

TypeOK ==
  /\ pool \in [Task -> Row]
  /\ free \subseteq Employee
  /\ inFlight \subseteq Task
  /\ reaped \subseteq Task
  /\ tick \in [pc   : {"idle", "scan", "claim", "mark", "launch", "undo"},
               todo : SUBSET Entry,
               task : Task \cup {NoTask},
               emp  : Employee \cup {NoOne}]
  /\ TickHolds => tick.task \in Task /\ tick.emp \in Employee
  /\ run \in [Run -> [pc    : {"idle", "exec", "finishOk", "finishBad", "release"},
                      task  : Task \cup {NoTask},
                      emp   : Employee \cup {NoOne},
                      stale : BOOLEAN]]
  /\ \A r \in Run : Live(r) => run[r].task \in Task /\ run[r].emp \in Employee
  /\ sweep \in [pc      : {"idle", "reap", "write", "release"},
                victims : SUBSET Victim,
                task    : Task \cup {NoTask},
                by      : Employee \cup {NoOne}]
  /\ sweep.pc \in {"write", "release"} => sweep.task \in Task
  /\ http \in [op   : {"none", "submit", "reset", "resetWrite"},
               task : Task \cup {NoTask},
               seen : Status,
               by   : Employee \cup {NoOne}]
  /\ http.op # "none" => http.task \in Task
  /\ phase \in {"up", "boot"}

Init ==
  /\ pool = [t \in Task |-> NoRow]
  /\ free = Employee
  /\ inFlight = {}
  /\ reaped = {}
  /\ tick = IdleTick
  /\ run = [r \in Run |-> IdleRun]
  /\ sweep = IdleSweep
  /\ http = IdleHttp
  /\ phase = "up"

-----------------------------------------------------------------------------
(* The dispatch tick.                                                      *)

(* Mutant: a dependency that has not failed is good enough. *)
ReadyUnlessFailed(t) == \A d \in DependsOn[t] : pool[d].status \notin {"absent", "failed"}

(* readinessOf over the snapshot: every dependency is a row that is done. *)
Ready(t) == \A d \in DependsOn[t] : pool[d].status = "done"

(* tick() is serialised by the promise chain "tail": one loop at a time.   *)
(* tasks.list() is the snapshot; readiness and the assignee are taken from *)
(* it, while inFlight and the roster are read live as the loop advances.   *)
TickStart ==
  /\ phase = "up"
  /\ tick.pc = "idle"
  /\ tick' = [tick EXCEPT
       !.pc = "scan",
       !.todo = {[task |-> t, assignee |-> pool[t].assignee, older |-> pool[t].older] :
                   t \in {u \in Task : pool[u].status = "pending" /\ Ready(u)}}]
  /\ UNCHANGED <<pool, free, inFlight, reaped, run, sweep, http, phase>>

(* Mutant: a named assignee is taken whether free or not. *)
CandidatesNamedAnyway(x) ==
  IF x.assignee # NoOne THEN {x.assignee} ELSE CanDo[x.task] \cap free

(* acquireById for a named assignee, acquire(role, canDispatch) otherwise. *)
Candidates(x) ==
  IF x.assignee # NoOne THEN {x.assignee} \cap free ELSE CanDo[x.task] \cap free

(* Mutant: the loop forgets to look at inFlight. *)
DispatchableAgain(x) == Candidates(x) # {} /\ \E r \in Run : run[r].pc = "idle"

(* Bound: with every slot taken nothing more is dispatched.  Executions    *)
(* that were not given up need one slot per employee, so the bound bites   *)
(* only when as many given-up executions linger as there are spare slots.  *)
SlotFree == \E r \in Run : ~Live(r)

Dispatchable(x) == x.task \notin inFlight /\ Candidates(x) # {} /\ SlotFree

(* One synchronous stretch of the for loop: entries that cannot go are     *)
(* passed over, the first that can acquires its employee and the claim is  *)
(* issued.  The loop never comes back to the entries it passed.            *)
TickAcquire ==
  /\ tick.pc = "scan"
  /\ \E x \in tick.todo :
       /\ Dispatchable(x)
       /\ \A y \in tick.todo : y.task \in x.older => ~Dispatchable(y)
       /\ \E e \in Candidates(x) :
            /\ \A f \in Candidates(x) : Position[e] <= Position[f]
            /\ free' = free \ {e}
            /\ tick' = [pc   |-> "claim",
                        todo |-> {y \in tick.todo : y # x /\ y.task \notin x.older},
                        task |-> x.task,
                        emp  |-> e]
  /\ UNCHANGED <<pool, inFlight, reaped, run, sweep, http, phase>>

TickEnd ==
  /\ tick.pc = "scan"
  /\ \A x \in tick.todo : ~Dispatchable(x)
  /\ tick' = IdleTick
  /\ UNCHANGED <<pool, free, inFlight, reaped, run, sweep, http, phase>>

(* await tasks.claim: the guarded UPDATE either takes the row or throws. *)
TickClaim ==
  /\ tick.pc = "claim"
  /\ IF MayClaim(pool, tick.task)
     THEN /\ pool' = ClaimTask(pool, tick.task, tick.emp)
          /\ tick' = [tick EXCEPT !.pc = "mark"]
     ELSE /\ tick' = [tick EXCEPT !.pc = "undo"]
          /\ UNCHANGED pool
  /\ UNCHANGED <<free, inFlight, reaped, run, sweep, http, phase>>

(* await tasks.markRunning, which does not look at the status. *)
TickMark ==
  /\ tick.pc = "mark"
  /\ MayMark(pool, tick.task)
  /\ pool' = MarkTask(pool, tick.task)
  /\ tick' = [tick EXCEPT !.pc = "launch"]
  /\ UNCHANGED <<free, inFlight, reaped, run, sweep, http, phase>>

(* The database fails in claim or in markRunning, before or after the      *)
(* UPDATE took effect (a claim that took effect and then failed is a step  *)
(* of TickClaim and one of this): the catch gives the employee back and    *)
(* leaves the row as it is.                                                *)
TickThrows ==
  /\ \/ tick.pc = "claim" /\ UNCHANGED pool
     \/ tick.pc = "mark" /\ pool' \in {pool, MarkTask(pool, tick.task)}
  /\ tick' = [tick EXCEPT !.pc = "undo"]
  /\ UNCHANGED <<free, inFlight, reaped, run, sweep, http, phase>>

(* Mutant: the catch does not release the employee. *)
TickUndoKeeps ==
  /\ tick.pc = "undo"
  /\ tick' = [tick EXCEPT !.pc = "scan", !.task = NoTask, !.emp = NoOne]
  /\ UNCHANGED <<pool, free, inFlight, reaped, run, sweep, http, phase>>

(* The catch: the employee goes back, the loop goes on. *)
TickUndo ==
  /\ tick.pc = "undo"
  /\ free' = free \cup {tick.emp}
  /\ tick' = [tick EXCEPT !.pc = "scan", !.task = NoTask, !.emp = NoOne]
  /\ UNCHANGED <<pool, inFlight, reaped, run, sweep, http, phase>>

(* Mutant: an earlier reaping of the task is not forgotten. *)
TickLaunchKeepsMark ==
  /\ tick.pc = "launch"
  /\ \E r \in Run :
       /\ ~Live(r)
       /\ run' = [run EXCEPT ![r] = [pc |-> "exec", task |-> tick.task,
                                     emp |-> tick.emp, stale |-> FALSE]]
  /\ inFlight' = inFlight \cup {tick.task}
  /\ tick' = [tick EXCEPT !.pc = "scan", !.task = NoTask, !.emp = NoOne]
  /\ UNCHANGED <<pool, free, reaped, sweep, http, phase>>

(* The synchronous block after the awaits: register, forget an earlier     *)
(* reaping of the same task id, and start runOne.                          *)
TickLaunch ==
  /\ tick.pc = "launch"
  /\ \E r \in Run :
       /\ ~Live(r)
       /\ run' = [run EXCEPT ![r] = [pc |-> "exec", task |-> tick.task,
                                     emp |-> tick.emp, stale |-> FALSE]]
  /\ inFlight' = inFlight \cup {tick.task}
  /\ reaped' = reaped \ {tick.task}
  /\ tick' = [tick EXCEPT !.pc = "scan", !.task = NoTask, !.emp = NoOne]
  /\ UNCHANGED <<pool, free, sweep, http, phase>>

TickStep == TickAcquire \/ TickEnd \/ TickClaim \/ TickMark \/ TickUndo \/ TickLaunch

-----------------------------------------------------------------------------
(* runOne: one execution.                                                  *)

(* The executor returned or threw; the late-write guard is evaluated in    *)
(* the same synchronous block.  The mark is per task id, not per run.      *)
RunReturn(r) ==
  /\ run[r].pc = "exec"
  /\ \/ /\ run[r].task \in reaped
        /\ reaped' = reaped \ {run[r].task}
        /\ inFlight' = inFlight \ {run[r].task}
        /\ run' = [run EXCEPT ![r] = IdleRun]
     \/ /\ run[r].task \notin reaped
        /\ \E outcome \in {"finishOk", "finishBad"} : run' = [run EXCEPT ![r].pc = outcome]
        /\ UNCHANGED <<inFlight, reaped>>
  /\ UNCHANGED <<pool, free, tick, sweep, http, phase>>

(* await tasks.finish. *)
RunFinish(r) ==
  /\ run[r].pc \in {"finishOk", "finishBad"}
  /\ pool' = FinishTask(pool, run[r].task, run[r].pc = "finishOk")
  /\ run' = [run EXCEPT ![r].pc = "release"]
  /\ UNCHANGED <<free, inFlight, reaped, tick, sweep, http, phase>>

(* Mutant: the task id stays in inFlight. *)
RunReleaseKeepsInFlight(r) ==
  /\ run[r].pc = "release"
  /\ free' = free \cup {run[r].emp}
  /\ run' = [run EXCEPT ![r] = IdleRun]
  /\ UNCHANGED <<pool, inFlight, reaped, tick, sweep, http, phase>>

(* The synchronous block after it. *)
RunRelease(r) ==
  /\ run[r].pc = "release"
  /\ free' = free \cup {run[r].emp}
  /\ inFlight' = inFlight \ {run[r].task}
  /\ run' = [run EXCEPT ![r] = IdleRun]
  /\ UNCHANGED <<pool, reaped, tick, sweep, http, phase>>

-----------------------------------------------------------------------------
(* HTTP requests that are one statement.                                   *)

Publish(t) ==
  /\ phase = "up"
  /\ MayPublish(pool, t)
  /\ pool' = PublishTask(pool, t)
  /\ UNCHANGED <<free, inFlight, reaped, tick, run, sweep, http, phase>>

Assign(t) ==
  /\ phase = "up"
  /\ MayAssign(pool, t)
  /\ \E who \in Nameable \cup {NoOne} : pool' = AssignTask(pool, t, who)
  /\ UNCHANGED <<free, inFlight, reaped, tick, run, sweep, http, phase>>

Resume(t) ==
  /\ phase = "up"
  /\ MayResume(pool, t)
  /\ pool' = ResumeTask(pool, t)
  /\ UNCHANGED <<free, inFlight, reaped, tick, run, sweep, http, phase>>

(* POST /claim and POST /finish of an external executor: they change the   *)
(* row and know nothing of the roster or of the runs.                      *)
ExternalClaim(t) ==
  /\ phase = "up"
  /\ MayClaim(pool, t)
  /\ \E e \in Outsiders : pool' = ClaimTask(pool, t, e)
  /\ UNCHANGED <<free, inFlight, reaped, tick, run, sweep, http, phase>>

ExternalFinish(t) ==
  /\ phase = "up"
  /\ MayFinish(pool, t)
  /\ \E ok \in BOOLEAN : pool' = FinishTask(pool, t, ok)
  /\ UNCHANGED <<free, inFlight, reaped, tick, run, sweep, http, phase>>

-----------------------------------------------------------------------------
(* POST /api/tasks: read the row, refuse an active one, then upsert.       *)

SubmitRead(t) ==
  /\ phase = "up"
  /\ http.op = "none"
  /\ pool[t].status \notin Active
  /\ http' = [op |-> "submit", task |-> t, seen |-> pool[t].status, by |-> NoOne]
  /\ UNCHANGED <<pool, free, inFlight, reaped, tick, run, sweep, phase>>

(* The first submission of a task id and a later one differ only in what   *)
(* the read saw.  A task that was done or failed is queued at once.        *)
SubmitWrite ==
  /\ http.op = "submit"
  /\ \E who \in Nameable \cup {NoOne} :
       pool' = AddTask(pool, http.task, http.seen \notin {"done", "failed"}, who)
  /\ http' = IdleHttp
  /\ UNCHANGED <<free, inFlight, reaped, tick, run, sweep, phase>>

-----------------------------------------------------------------------------
(* Giving an execution up: the watchdog and POST /force-reset.             *)

(* History: the executions of t alive now are the abandoned ones. *)
MarkStale(t) ==
  [r \in Run |-> IF Live(r) /\ run[r].task = t THEN [run[r] EXCEPT !.stale = TRUE] ELSE run[r]]

(* Mutant: the release does not ask whether there was a claimant. *)
ReleasedBlindly(e) == free \cup {e}

(* release() of the roster: an absent claimed_by releases nobody. *)
Released(e) == free \cup ({e} \ {NoOne})

ResetRead(t) ==
  /\ phase = "up"
  /\ http.op = "none"
  /\ pool[t].status # "absent"
  /\ http' = [op |-> "reset", task |-> t, seen |-> pool[t].status, by |-> pool[t].claimedBy]
  /\ UNCHANGED <<pool, free, inFlight, reaped, tick, run, sweep, phase>>

(* onForceReset -> scheduler.abandon, decided on the row that was read. *)
ResetAbandon ==
  /\ http.op = "reset"
  /\ IF http.seen \in Active
     THEN /\ reaped' = reaped \cup {http.task}
          /\ inFlight' = inFlight \ {http.task}
          /\ free' = Released(http.by)
          /\ run' = MarkStale(http.task)
     ELSE UNCHANGED <<reaped, inFlight, free, run>>
  /\ http' = [http EXCEPT !.op = "resetWrite"]
  /\ UNCHANGED <<pool, tick, sweep, phase>>

(* resetToPending; a draft is refused. *)
ResetWrite ==
  /\ http.op = "resetWrite"
  /\ pool' = IF MayReset(pool, http.task) THEN ResetTask(pool, http.task) ELSE pool
  /\ http' = IdleHttp
  /\ UNCHANGED <<free, inFlight, reaped, tick, run, sweep, phase>>

(* Time: a claim grows old. *)
Elapse(t) ==
  /\ pool[t].age \in {"fresh", "late"}
  /\ pool[t].status \in Active
  /\ pool' = [pool EXCEPT ![t].age = IF @ = "fresh" THEN "late" ELSE "overdue"]
  /\ UNCHANGED <<free, inFlight, reaped, tick, run, sweep, http, phase>>

(* Mutant: the watchdog looks at running tasks only. *)
SweepStartRunning ==
  /\ phase = "up"
  /\ sweep.pc = "idle"
  /\ \E waiting \in SUBSET Task :
       sweep' = [sweep EXCEPT
         !.pc = "reap",
         !.victims = {[task |-> t, by |-> pool[t].claimedBy] :
                        t \in {u \in Task : /\ pool[u].status = "running"
                                            /\ \/ pool[u].age = "overdue"
                                               \/ pool[u].age = "late" /\ u \notin waiting}}]
  /\ UNCHANGED <<pool, free, inFlight, reaped, tick, run, http, phase>>

(* One sweep lists the pool once and keeps the victims.  waiting is what   *)
(* listPendingChecks answered: those tasks get the fourfold grace.         *)
SweepStart ==
  /\ phase = "up"
  /\ sweep.pc = "idle"
  /\ \E waiting \in SUBSET Task :
       sweep' = [sweep EXCEPT
         !.pc = "reap",
         !.victims = {[task |-> t, by |-> pool[t].claimedBy] :
                        t \in {u \in Task : /\ pool[u].status \in Active
                                            /\ \/ pool[u].age = "overdue"
                                               \/ pool[u].age = "late" /\ u \notin waiting}}]
  /\ UNCHANGED <<pool, free, inFlight, reaped, tick, run, http, phase>>

(* await this.tail, then the synchronous part of reap. *)
SweepReap ==
  /\ sweep.pc = "reap"
  /\ tick.pc = "idle"
  /\ \E v \in sweep.victims :
       /\ sweep' = [pc |-> "write", victims |-> sweep.victims \ {v}, task |-> v.task, by |-> v.by]
       /\ reaped' = reaped \cup {v.task}
       /\ inFlight' = inFlight \ {v.task}
       /\ run' = MarkStale(v.task)
  /\ UNCHANGED <<pool, free, tick, http, phase>>

(* await tasks.finish(failed), whatever the status is by now. *)
SweepWrite ==
  /\ sweep.pc = "write"
  /\ pool' = FinishTask(pool, sweep.task, FALSE)
  /\ sweep' = [sweep EXCEPT !.pc = "release"]
  /\ UNCHANGED <<free, inFlight, reaped, tick, run, http, phase>>

(* It fails, before or after the UPDATE took effect: the mark stays, the   *)
(* employee is not given back, and the sweep goes on.                      *)
SweepWriteFails ==
  /\ sweep.pc = "write"
  /\ pool' \in {pool, FinishTask(pool, sweep.task, FALSE)}
  /\ sweep' = [sweep EXCEPT !.pc = "reap", !.task = NoTask, !.by = NoOne]
  /\ UNCHANGED <<free, inFlight, reaped, tick, run, http, phase>>

SweepRelease ==
  /\ sweep.pc = "release"
  /\ free' = Released(sweep.by)
  /\ sweep' = [sweep EXCEPT !.pc = "reap", !.task = NoTask, !.by = NoOne]
  /\ UNCHANGED <<pool, inFlight, reaped, tick, run, http, phase>>

SweepEnd ==
  /\ sweep.pc = "reap"
  /\ sweep.victims = {}
  /\ sweep' = IdleSweep
  /\ UNCHANGED <<pool, free, inFlight, reaped, tick, run, http, phase>>

-----------------------------------------------------------------------------
(* The process dies: everything but the table is gone. *)
Crash ==
  /\ phase' = "boot"
  /\ free' = Employee
  /\ inFlight' = {}
  /\ reaped' = {}
  /\ tick' = IdleTick
  /\ run' = [r \in Run |-> IdleRun]
  /\ sweep' = IdleSweep
  /\ http' = IdleHttp
  /\ UNCHANGED pool

(* The orphan scan runs before the server listens and the pipeline starts. *)
BootOrphan(t) ==
  /\ phase = "boot"
  /\ pool[t].status \in Active
  /\ pool' = FinishTask(pool, t, FALSE)
  /\ UNCHANGED <<free, inFlight, reaped, tick, run, sweep, http, phase>>

BootDone ==
  /\ phase = "boot"
  /\ \A t \in Task : pool[t].status \notin Active
  /\ phase' = "up"
  /\ UNCHANGED <<pool, free, inFlight, reaped, tick, run, sweep, http>>

(* A failing statement of the scan is caught and logged: the start goes on *)
(* with whatever orphans are left.                                         *)
BootThrows ==
  /\ phase = "boot"
  /\ \E t \in Task : pool[t].status \in Active
  /\ phase' = "up"
  /\ UNCHANGED <<pool, free, inFlight, reaped, tick, run, sweep, http>>

-----------------------------------------------------------------------------
(* Next-state relations, from the scheduler alone to everything at once.   *)

FirstSubmit(t) == pool[t].status = "absent" /\ SubmitRead(t)
Resubmit(t) == pool[t].status # "absent" /\ SubmitRead(t)

RunStep == \E r \in Run : RunReturn(r) \/ RunFinish(r) \/ RunRelease(r)

BootStep == (\E t \in Task : BootOrphan(t)) \/ BootDone \/ BootThrows

(* The scheduler, the operators who create, publish, assign and resume     *)
(* tasks, a database that fails under the tick, and crashes.               *)
CoreNext ==
  \/ TickStart
  \/ TickStep
  \/ TickThrows
  \/ RunStep
  \/ \E t \in Task : FirstSubmit(t) \/ Publish(t) \/ Assign(t) \/ Resume(t)
  \/ SubmitWrite
  \/ Crash
  \/ BootStep

(* Also resubmissions of existing tasks and external executors. *)
OpenNext ==
  \/ CoreNext
  \/ \E t \in Task : Resubmit(t) \/ ExternalClaim(t) \/ ExternalFinish(t)

SweepStep ==
  SweepReap \/ SweepWrite \/ SweepWriteFails \/ SweepRelease \/ SweepEnd

WatchStep == SweepStart \/ SweepStep \/ (\E t \in Task : Elapse(t))

ResetStep == (\E t \in Task : ResetRead(t)) \/ ResetAbandon \/ ResetWrite

Next == OpenNext \/ WatchStep \/ ResetStep

CoreSpec  == Init /\ [][CoreNext]_vars
OpenSpec  == Init /\ [][OpenNext]_vars
WatchSpec == Init /\ [][CoreNext \/ WatchStep]_vars
ResetSpec == Init /\ [][CoreNext \/ ResetStep]_vars
Spec      == Init /\ [][Next]_vars

(***************************************************************************)
(* Fairness.  The pipeline calls tick() every five seconds and the         *)
(* watchdog every thirty; a statement the event loop has issued completes; *)
(* the orphan scan is part of the start.  Operators, crashes and database  *)
(* failures are not fair.  The watchdog's wait for the tick is a promise   *)
(* queued first-come first-served behind ticks that all end, hence SF.     *)
(***************************************************************************)
SchedulerFairness ==
  /\ WF_vars(TickStart)
  /\ WF_vars(TickStep)
  /\ \A r \in Run : WF_vars(RunFinish(r) \/ RunRelease(r))
  /\ WF_vars(SubmitWrite)
  /\ WF_vars(BootStep)

(* Executors end: turns, retries and command times are all bounded. *)
ExecutorFairness == \A r \in Run : WF_vars(RunReturn(r))

WatchFairness ==
  /\ WF_vars(SweepStart)
  /\ WF_vars(SweepWrite \/ SweepRelease \/ SweepEnd)
  /\ SF_vars(SweepReap)
  /\ \A t \in Task : WF_vars(Elapse(t))

FairCoreSpec  == CoreSpec /\ SchedulerFairness /\ ExecutorFairness
FairWatchSpec == WatchSpec /\ SchedulerFairness /\ WatchFairness

-----------------------------------------------------------------------------
(* Safety of the allocation, as long as no execution is given up.          *)

(* An employee works for at most one execution, the one the tick is about  *)
(* to launch included, and is not free meanwhile: "acquire is occupation,  *)
(* the same employee is never dispatched two tasks" (runtime roster.ts).   *)
EmployeeExclusive ==
  /\ \A r \in Run : Live(r) => run[r].emp \notin free
  /\ TickHolds => tick.emp \notin free
  /\ \A r, q \in Run : Live(r) /\ Live(q) /\ r # q => run[r].emp # run[q].emp
  /\ \A r \in Run : Live(r) /\ TickHolds => run[r].emp # tick.emp

(* Nobody is lost: an employee who is not free is held by an execution or  *)
(* by the tick, whatever failed, threw, was resubmitted or was claimed     *)
(* from outside (the release of runOne and of the tick's catch).           *)
NoEmployeeLeak ==
  \A e \in Employee \ free :
    \/ \E r \in Run : Live(r) /\ run[r].emp = e
    \/ TickHolds /\ tick.emp = e

(* Together: every employee is free or held by exactly one execution, or   *)
(* by the tick, under every interleaving of dispatch, failure and release  *)
(* (tick, runOne and the roster of the scheduler).                         *)
EmployeesAccounted == EmployeeExclusive /\ NoEmployeeLeak

(* inFlight is exactly the tasks being executed, each by one execution, so *)
(* the tick never launches a second execution of a task ("no duplicate     *)
(* dispatch"), even when its row was resubmitted or finished from outside. *)
InFlightExact ==
  /\ inFlight = {run[r].task : r \in {q \in Run : Live(q)}}
  /\ \A r, q \in Run : Live(r) /\ Live(q) /\ r # q => run[r].task # run[q].task
  /\ TickHolds => tick.task \notin inFlight

(* A task given up is not in flight, and a task in flight is not marked:   *)
(* a mark always speaks of the past of its task id.                        *)
MarkedNotInFlight == reaped \cap inFlight = {}

(* Without resubmission and external executors, the row of a task that is  *)
(* being executed says so, and names the employee who executes it (what    *)
(* resume turns into the assignee and the watchdog into a release).        *)
RowMatchesRun ==
  \A r \in Run : run[r].pc \in {"exec", "finishOk", "finishBad"} =>
    /\ pool[run[r].task].status = "running"
    /\ pool[run[r].task].claimedBy = run[r].emp

(* The board somebody sees: the row's status, and who executes the task.   *)
Board == INSTANCE TeamBoard WITH
  status <- [t \in Task |-> pool[t].status],
  worker <- [t \in Task |->
               IF \E r \in Run : Live(r) /\ run[r].task = t
               THEN run[CHOOSE r \in Run : Live(r) /\ run[r].task = t].emp
               ELSE NoOne]

(* The scheduler implements the board: every step is a documented move of  *)
(* one task or changes nothing on the board.                               *)
ImplementsBoard == Board!BoardSpec

-----------------------------------------------------------------------------
(* Liveness.                                                               *)

(* An operator, a crash or a database failure interferes. *)
Disturbance ==
  \/ Crash
  \/ TickThrows
  \/ BootThrows
  \/ \E t \in Task : Assign(t) \/ Resume(t)

Startable(t) ==
  pool[t].status = "pending" /\ Ready(t) /\ pool[t].assignee = NoOne /\ CanDo[t] # {}

(* Once nobody interferes any more, a published task whose dependencies    *)
(* are done and that somebody can do is taken: no executing employee, no   *)
(* earlier task and no entry of inFlight holds it back for ever.           *)
ReadyIsDispatched ==
  (<>[][~Disturbance]_vars) =>
     \A t \in Task : Startable(t) ~> ~Startable(t)

(* An execution that hangs does not hold its task for ever: the watchdog   *)
(* fails it, also when the row outlived a crash whose orphan scan threw.   *)
(* Only a process that crashes, or a write that fails, again and again     *)
(* lets it escape.                                                         *)
HungIsReaped ==
  (<>[][~Crash /\ ~SweepWriteFails]_vars) =>
     \A t \in Task : pool[t].status \in Active ~> pool[t].status \notin Active

-----------------------------------------------------------------------------
(* What comments and documents say and the code does not do.  The run      *)
(* bad_late_result refutes LateResultDropped; TLC refutes the others in    *)
(* the same way when they are added to sched_full.cfg (README, "Known      *)
(* deviations").                                                           *)

(* "draft: only after publication can it be claimed or dispatched"         *)
(* (stores/types.ts).  A row that is a draft is not put to running.        *)
DraftIsNotRun ==
  [][\A t \in Task : pool[t].status = "draft" => pool'[t].status # "running"]_vars

(* The watchdog fails tasks that are claimed or running; a task that is    *)
(* done stays done ("reaping failed (the task was changed concurrently)"). *)
DoneStaysDone ==
  [][\A t \in Task : pool[t].status = "done" => pool'[t].status # "failed"]_vars

(* An execution that was given up while it ran does not go on to write its *)
(* result back: the late-write guard of runOne ("the task may have been    *)
(* reset or dispatched again, an overwriting write would damage the new    *)
(* round").                                                                *)
LateResultDropped ==
  [][\A r \in Run :
       run[r].pc = "exec" /\ run[r].stale => run'[r].pc \in {"exec", "idle"}]_vars

(* No employee works for two executions neither of which was given up      *)
(* ("a repeated release would ... cause concurrent dispatch").             *)
NoDoubleAssignment ==
  \A r, q \in Run :
    Live(r) /\ Live(q) /\ r # q /\ ~run[r].stale /\ ~run[q].stale => run[r].emp # run[q].emp

(* When nobody executes, is being dispatched or is being reaped, everybody *)
(* is free: whoever gives an execution up releases its employee.           *)
EverybodyComesBack ==
  (\A r \in Run : ~Live(r)) /\ ~TickHolds /\ sweep.pc \in {"idle", "reap"} => free = Employee

(* Every running task has a start time, so the watchdog can time it out.   *)
RunningIsTimed ==
  \A t \in Task : pool[t].status = "running" => pool[t].age # "none"

=============================================================================
