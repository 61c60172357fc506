# Verification of digital-dev-worker

TLA+ models of the task console (`packages/console-api`), the employee runtime
(`packages/runtime`) and the stateful parts of the front end (`apps/console`): what they keep, what
they do, which interleavings and failures they meet, what must hold, what TLC checks of it and what
TLAPS proves.

    cd tla
    tlc -config sched_core.cfg MCScheduler     # a run; PROJECT.json names the module of every cfg
    tlapm TeamSchedulerProofs.tla              # the proofs of a module

`PROJECT.json` maps every definition to the lines it models, lists the runs, the hazards with
the properties aimed at them, the mutants (a plausible bug for every checked property, which
makes TLC report that property) and the theorems.

## 1. The system

Operators submit *task packages* to a table of tasks. A scheduler in the console process
dispatches ready tasks to *digital employees* (one task at a time each), an executor drives the
employee, in the process or in a forked worker, through the package or item by item through its
*plan*, humans release checkpoints, and every step leaves an event in an audit trail that the
console streams to the browser. One process, one database (SQLite in the process, or MySQL).

| Component | State | Operations | Talks to |
|---|---|---|---|
| Task pool (`stores/sql/sql-task-store.ts`) | `ddw_tasks`: status, claimed_by, claimed_at, result, plan_progress, failed_item_id, package | add, publish, assign, claim, markRunning, finish, resetToPending, resumePlan: one conditional UPDATE or one transaction each | scheduler, HTTP routes, orphan scan |
| Scheduler (`team/scheduler.ts`) | `inFlight`, `reaped`, `tail`, `lastNote`, `pendingEmits`; lost in a crash | tick, runOne, watchdogSweep, abandon | pool, roster, executor, events |
| Roster (`runtime/team/roster.ts`, `team/managed-roster.ts`) | records, free | acquire, acquireById, release, refresh | scheduler, employee store |
| Review gate (`team/review-gate.ts`, `task/checkpoint.ts`, `team/bash-approval.ts`) | resolvers in memory; the list of pending checks is derived from stored events; remembered commands | wait, review, listPendingChecks, void | executions, HTTP routes, event store |
| Plan runner (`team/plan-runner.ts`, `team/executor.ts`) | progress of the plan, listener on the bus; all in memory until it returns | validate, attempt, retry, verify, judge, stop, resume | bus, agent, gate |
| Process executor (`team/process-executor.ts`, `team/worker.ts`, `team/workspace-prepare.ts`) | child, kill timer, messages both ways, the workspace | fork, job, timeout and extension, exit, death of either side | gate, event store |
| Event bus and store (`runtime/events/bus.ts`, `stores/sql/sql-event-store.ts`, `stores/hash-chain.ts`, `team/integrity-monitor.ts`) | write queue; `ddw_events` with a hash chain; head snapshots | emit, append (named lock, transaction, retry), verify, snapshot | everything |
| Streams and live view (`http/sse.ts`, `apps/console/src/live.ts`, `EmployeeLive.vue`) | cursor and sent ids per connection; seen ids and the merged list in the browser | poll, push, reconnect, fetch, merge | event store |
| Messages (`team/message-hub.ts`, `notifier.ts`, `push-log.ts`, message stores) | `ddw_messages`, push log; the badge of a tab | wrapped append and finish, fan-out, read marks, recounts | stores, channels, browser |
| Agent (`runtime/runtime/employee-runtime.ts`, `runtime/session/*`, `runtime/model/gateway.ts`) | session files, the context of the model, turns and cost | run, resumeWith, turns, save, retry and fallback | model, tools, bus |
| Shell (`runtime/workspace/bash.ts`, `team/supervision-policy.ts`, `team/bash-approval.ts`) | pending commands, released heads | refuse, run, ask, release | gate |
| Tools (`runtime/workspace/tools.ts`, `local-workspace.ts`, `team/mcp-hub.ts`, `team/default-tools.ts`) | files of the workspace, connections of MCP servers, the registry of an item | list, read, write, edit, grep, connect, assemble | agent |
| Skills (`stores/sql/sql-skill-store.ts`, `team/skill-distiller.ts`, routes) | categories, skills, their review | create, edit, review, delete, distil, mount | employees, executions |
| Registries (employees, channels, capabilities: `team/employee-store.ts`, `notifier.ts`, `capabilities.ts`, `credentials.ts`, their SQL stores) | records with sealed keys; a cache per file store | masked edits, disable, seed, encrypt at start | roster, tools, notifier |
| Delivery (`cli.ts`, `doctor.ts`, `team/runtime-config.ts`, `team/token-issue.ts`, `http/server.ts`) | the runtime yaml, the environment, what a console loaded | doctor, seal, issue a token, start | everything |
| Migration (`migrate.ts`, `stores/sql/schema.ts`) | source files, target tables, column upgrades, marker | import in one transaction, seed beside it | database |
| Intake (`TaskCreateDialog.vue`, `task-form.ts`, `runtime/task/package.ts`, `team/task-parser.ts`, routes) | the dialog, drafts, probes of a repository | read, generate, convert, submit, publish | pool, forge, model |
| HTTP API (`http/handlers.ts`), start (`http/server.ts`), pipeline (`team/pipeline.ts`) | none of their own | routes that read, decide and write; orphan scan; timers | all of the above |

### What is hard about it

* **Await points.** Nothing runs in parallel in the process, but every `await` lets another tick,
  execution, request, timer or refresh in. With MySQL every statement is such a point. Decisions
  are made on a list, a row or a set that was read before the await; a route reads a record, checks
  something, and writes the whole record back.
* **Executions that were given up go on.** The watchdog and `force-reset` write the row and
  release the employee; the execution itself is not stopped and returns later, into a set of marks
  that is keyed by task id, a queue of reviews keyed by task and item, a session and a workspace
  keyed by task.
* **Memory and table.** `inFlight`, `free`, the resolvers, the progress of a plan and the context of
  an agent die with the process; rows, events, sessions and workers stay. The orphan scan fails what
  was active, and may itself throw.
* **Two sources of one fact.** The resolvers and the derived list of checks; the roster's `free`
  and the executions; `claimed_by` and who really works; pushed and fetched events; a key and its
  mask; a badge and the tables it counts.
* **Unguarded writes.** `markRunning` and `finish` have no status in their WHERE clause, and the
  finish route lets an external executor write any row.
* **Shared bus.** In the default mode all executions of the process emit and listen on one bus,
  whose writes are one chain of promises.
* **Outside the process.** A commit whose answer is lost, a lock that outlives its owner, a channel
  that hangs, a model that breaks off inside a stream, a worker that hangs, a file somebody damages,
  a connection that comes back from the old position.

What must be right, component by component, is what the properties of section 3 say; the hazards
with their lines are in `PROJECT.json`.

## 2. The modules

| Module | Models | Notes |
|---|---|---|
| `TaskPool` | the rows and the statements of `SqlTaskStore`, as operators on a table `[Task -> Row]` | `MayX` is the WHERE clause, `XTask` the SET clause; time is the class of `now - claimed_at` |
| `TeamScheduler` | tick, runOne, watchdog, reset, the routes that change a row, crash and orphan scan, with an `EmployeeRoster` whose operations are synchronous | extends `TaskPool`; one action per statement or synchronous block |
| `TeamBoard` | the abstract specification: the documented life of a task, the dependency gate, one task per employee | `TeamScheduler` implements it (`ImplementsBoard`) |
| `ManagedRoster` | `refresh()` with its await between the computation of who is busy and the replacement of `free`; overlapping refreshes; administration | replaces the synchronous roster of `TeamScheduler` for this question |
| `ReviewGate` | declarations, resolvers, bus queue, derivation of pending checks, review, void, executions given up, crash | the stored stream is represented by the fold `listCheckHistory` makes of it |
| `PlanRunner` | `runTaskPlan` in both modes; the plan columns of the row under finish, resume, resubmission, reset, watchdog, crash | up to two executions of one task at a time |
| `EventTrail` | the bus queue, `append` on either driver (transactions in the order of `txChain`; named lock with time-out and leak, deadlocks, lost answers), the chain, snapshots, verification, interference from outside | hashes are pairs, so injective |
| `LiveFeed` | the poll loop of the stream with its cursor and deadline, `EventSource`, `live.ts`, the page that merges | time stamps are small numbers |
| `Inbox` | the decorators of `message-hub.ts`, the fan-out, the capped table, recounts of one connection, the badge | |
| `WorkerProcess` | parent and child of a forked execution, both channels, kill timer and its extension, orphans, preparation and removal of the workspace | one task, so one key in the review queue and one workspace |
| `SkillLibrary` | categories, skills, review, distiller, what is mounted | transactions queue on SQLite and overlap on MySQL |
| `Registry` | employees, channels, capabilities: masked edits, checks, seeds, encryption under changing master keys | |
| `FileRegistry` | one JSON file behind a cache and a queue, as the four file stores keep it | damage and crashes at every step |
| `AgentSession` | executions of one task: wiping or reading the session, turns, failures of the model, retries, unawaited saves, the account | |
| `ControlledShell` | the decision on a command; numbered items that wait for a human | |
| `Toolset` | connections of MCP servers, assembly of the tools of an item, the file tools with their limits and races | |
| `Migration` | two migrations and a starting console on one target | |
| `Delivery` | yaml, environment, host, doctor, commands, start | one command is one step |
| `Intake` | dialog, generation with its one repair, submission, publication with probe and creation | instanced twice: the dialog, and publications |
| `Services` | one instance of each of the last nine parts (two of `Intake`), and what is promised of each | they share no step: `Init` chooses the `part`, its variables are the slots `s1`, `s2`, ...; slots a part does not need stay `Unused`. All constants of the parts are parameters |
| `MCScheduler`, `MCFeed`, `MCServices` | constants for TLC | |
| `TeamSchedulerProofs`, `ManagedRosterProofs`, `ReviewGateProofs`, `PlanRunnerProofs`, `EventTrailProofs`, `LiveFeedProofs`, `WorkerProcessProofs`, `ServicesProofs` | theorems | |

Composition. The modules meet where the code's parts meet. `TeamScheduler` contains the pool; its
environment is the routes and the orphan scan. `PlanRunner`, `WorkerProcess`, `ReviewGate` and
`AgentSession` each look into one execution of it from a different side, and each repeats what the
scheduler does to that execution: it may be given up, stored, resumed, lost in a crash.
`EventTrail` is what the others call "stored"; `LiveFeed` and `Inbox` start where it ends.

### State and steps

*A step is one SQL statement (or transaction), one message, one access to a file, or one synchronous
block between two awaits.* Consequences and choices that are not visible in a definition:

* `TeamScheduler.tick` is the tick in progress: the entries it has not decided (with readiness and
  assignee from the snapshot), the entry it decides, the employee it holds. Ticks are serialised by
  `tail`, so there is one. `TickAcquire` is the synchronous block from the loop head to
  `acquire`; `TickClaim`, `TickMark` are the two statements; `TickThrows`/`TickUndo` either of
  them failing and the catch; `TickLaunch` the block after it. `SweepWriteFails` is the catch of
  the sweep: the mark stays, the employee is not released, the sweep goes on.
* A `Run` slot is one call of `runOne`; slots are reused, their number bounds how many executions
  are alive at once (given-up ones included). The `get` at the start of `runOne` is merged into the
  launch: rows are never deleted and the package is only used for its data.
* `awaitCompletion` is false, as `createRuntimePipeline` sets it. A rejection of `runOne` itself
  (its `finish` fails) is an unhandled rejection, which ends the process: `Crash`.
* One request of several steps (`submit`, `force-reset`) and one sweep are in progress at a time.
  Requests of one step happen any time. `assign` (read, edit, write of the package) is one step:
  its only modelled effect is the assignee, which it writes itself.
* The watchdog's wait for `tail` is the guard `tick.pc = "idle"` of `SweepReap`.
* `BootThrows` is the orphan scan whose statement fails: it is caught and the start goes on.
* Results, notes, package contents, logging and events other than those of the gate and of the
  plan runner's listener are left out.
* `ReviewGate.owner` is the part of the row the gate depends on (claimed or running, by which
  execution).
* `ReviewGate.silent` is the bus after a sink rejected (`Silence`): nothing of the queue is stored
  any more and every emit rejects. An execution that was about to report fails, one that declares
  fails with its resolver left behind, which is why only one direction of `ResolversAreWaiting`
  is promised from then on.
* `PlanRunner` merges the late-result guard and the write-back (the scheduler module has them
  apart), keeps only the plan columns of the row, and abstracts what an employee does to the
  tool calls the listener distinguishes and the four ends of an attempt. In mode "fork" the
  registry is the snapshot validated at the start, so an item can be refused in mode "inproc" only.
  What is in the workspace and the session is not in this module.
* `EventTrail.call` is one call of `append` with its attempt; `tail` is what its SELECT read.
  `leaked` is a pooled connection that still owns the named lock; `LeakEnds` the server dropping it.
  `tampered` is the one interference (an edit of a row, a cut of the last rows, a rewriting of the
  chain that changes rows and recomputes every hash, row by row); `anchored` remembers the table at
  each snapshot. `AppendDirect` appends past the bus, under a new id or one given to the store before.
* `LiveFeed.wire` holds the frames written and not read yet. A broken connection loses them; the
  next one starts from the `since` of the subscription, not from the last frame, and the browser
  drops what it has seen.
* A GET of `LiveFeed` keeps the rows of its answer as a set; `InOrder` is the list they arrive as
  (by time stamp, then by place in the table, which later appends do not change).
* `Inbox.work` is a wrapped call with the position it has reached. What happens between the first
  count of a connection and its subscription is not announced to it; the reconciling interval is. The counts of unread messages and of pending
  checks are awaited one after the other (`ReadUnread`, `ReadChecks`), so that a change falls in
  between; the third, of skills, nothing here changes, and it is left out.
* `WorkerProcess.call` is the promise of the executor, `child` the process, `kill` a signal under
  way: a child may go on to its next message after the call has settled. `parent` says whether the
  console that forked it still runs. The timer first asks whether checks are pending (`TimeUp`; a
  question that fails counts as no), and the signal follows after that await (`Terminate`, between
  them `doomed`), although a declaration may have come in by then. `Connects` names the executions
  whose job lists MCP servers that answer: the worker never closes them
  (`worker.ts:137-141`), so as an orphan it lives on. The time limit is optional
  (`runtime-config.ts:334-340`); the module has it configured.
* A `job` in `SkillLibrary`, `Registry` and `Intake` is one request between two of its awaits, with
  what it has read so far. `Registry.phase` is how far a start has come; the port opens at the end.
* `FileRegistry.stage` is where the change at the head of the queue is; readers load beside it.
* `AgentSession.unsaved` counts the messages whose write has been issued and not finished. `story`
  is what was said since the task last began anew. `SaveFails` is an append that rejects: nobody
  awaits it while the agent runs, which ends the process; when the attempt waits for its writes, it
  rejects the attempt. `lost` are the tokens paid and not in the account, `thrown` those of rejected
  attempts. That pi's session appends in the order of the calls is taken from outside; so is that
  writes still on their way after a failed one end before the task begins anew.
* A `Command` of `ControlledShell` carries the head `bash.ts:105` decides by (the base name of the
  first token, quotes respected) and the name `bash-approval.ts:27` remembers (the last part of
  what stands before the first blank): equal, unless the first word is quoted.
* `Intake.Shape` is what the conversions of `task-form.ts` do to values: blanks are trimmed, items
  with a blank id or title left out, lists and maps made strings. The dialog's `loading` and `asks`
  are its awaits: the lists before `getTask`, and the confirmation of a loss.
* `Delivery.Layout` is how the text of the auth section looks to `insertTokenLine`, which works on
  lines and not on yaml.
* `Toolset` scales the limits down (lines of one or five characters, a read limit of five): what is
  compared is a length with a limit, never a length with a number. What the code adds beyond a
  limit has a length too: the note on a cut file, the suffix of a cut line (which the total
  counts), the place before each match (which it does not) and the note of a full search.
* History variables change nothing in the behaviour. They say under which circumstances a property
  is promised: `stale`, `quiet`, `steady`, `own` and `doubled`, `raced` (two requests met on a
  record), `astray` (two executions were under way, or a write to
  the session failed), `misled` (two executions used one item),
  `crossed` (two calls changed a file), `spoiled` (a fetch failed); or what was promised: `verdict`,
  `signed`, `asked`, `stored`, `story`, `approved`, `released`, `anchored`, `handed`, `answered`.

## 3. What is checked

Every checked property has a mutant in `PROJECT.json`.

| Run | Specification | Bounds | Shows |
|---|---|---|---|
| `sched_open` | `OpenSpec`: no execution is given up | 2 tasks in a chain, 2 employees with different skills, 2 executions | `EmployeesAccounted`, `InFlightExact`: employees, executions and `inFlight` agree exactly, with resubmissions, external claims and finishes, failing statements, crashes |
| `sched_core` | `FairCoreSpec`: no resubmission and no external executor either | 3 tasks (t3 waits for t1 and t2), 2 employees, 2 executions | `RowMatchesRun`; `ImplementsBoard` (refinement of `TeamBoard`); `ReadyIsDispatched` |
| `watch_live` | `FairWatchSpec` | 1 task, 1 employee, 2 executions | `HungIsReaped`: also after an orphan scan that threw |
| `sched_full` | `Spec`: everything | 1 task, 1 employee, 2 executions | `TypeOK`, `MarkedNotInFlight` |
| `roster` | `FairSpec` | 2 employees, 2 overlapping refreshes, at most 2 executions per employee | `OccupationSurvives`, `EditsTakeEffect` |
| `gate` | `FairSpec` | 2 tasks, 1 item, 2 executions | `ResolversAreWaiting`, `ListIsTrue`, `DecisionIsReported` |
| `plan` | `FairSpec` | 1 task, 2 executions of it, 2 items, 2 attempts, 1 key tool, both modes | `StoredInOrder`, `WorkedInOrder`, `DoneIsKept`, `DoneIsEarned`, `PlanEnds` |
| `trail` | `Spec` | either driver, a bus with two events, one append past it that may repeat the id of the first, 2 attempts, 1 snapshot, 1 interference | `ChainIsSound`, `TrailIsFaithful` (once, in order, nothing returned and missing), `DamageIsFound`, `EveryAppendEnds` |
| `feed` | `Spec` | 2 events of one employee, one of which may be stored behind the cursor; 2 employees to watch, 2 fetches | `ShownOnce`, `LateEventArrives`, `ViewIsComplete` |
| `inbox` | `Spec` | 2 notices (one a check), 1 channel, a table of one row, 2 recounts | `NoticeReturns`, `BadgeCatchesUp` |
| `worker` | `Spec` | 1 task, 2 executions in workers that may overlap, 1 declaration each, one of them with an MCP server | `RequestIsInOnePlace`, `CallEnds`, `WorkerIsGone` |
| `services` | nine modules side by side | two of every actor, two of what they share; limits scaled down | one property per part, below |

The properties of `services`:

| Property | Of | Says |
|---|---|---|
| `LibraryIsSound` | `SkillLibrary` | only skills a human decided on take effect; unless two requests met, a skill has its last verdict and an existing category |
| `SecretsSurvive` | `Registry` | keys outlive edits that carry the mask, starts that encrypt and reads that open; with a master key none is in clear |
| `AnsweredIsStored` | `FileRegistry` | what was answered with success is in the file, whatever crashed between the temporary file and its renaming |
| `RunsAreTold` | `AgentSession` | the model continues the story of its own session, over restarts, rejections and resumes, until a write fails or two executions meet; end and turns are reported as they happened, and of the cost all but that of rejected attempts |
| `OnlyReleasedRuns` | `ControlledShell` | what ran was plain, and covered by the level, by its head in the white list, or by a release of a shown command of the same name |
| `ResultsFitTheContext` | `Toolset` | answers of list, read and grep stay within their limits, and the notes, suffixes and places beyond them, while files change |
| `MigrationIsWhole` | `Migration` | all or nothing, under two migrations, a start and deaths; no row before its columns |
| `DeliveryIsSound` | `Delivery` | a green doctor means a start, but for what it does not look at; who serves sends opened keys, takes the tokens it owes, has sealed its rows |
| `IntakeIsSound` | `Intake` | a text that was read and left alone is sent as it was, but for blanks, empty items and values that are no string, unless a loss was confirmed; generated packages parse; the address of a scheduled task answered a probe, with the two exceptions of section 4 |
| `RewritesKeepTheRest` | `FileRegistry`, `Toolset`, `Delivery` | a damaged store is not replaced by an empty one, an edit changes one passage, a token for a new name leaves a yaml that loaded loadable exactly in the layouts the command knows |

Why the bounds are enough for these questions: almost every conflict in this code is between two
parties (two executions of a task, an execution and the tick, two refreshes, two declarations of a
key, two requests on a record, a fetch and the stream), so two slots and two employees let each of
them happen; three tasks let a dependency have two parents. Two items and two attempts let a plan
stop in the middle, retry, and resume with something done and something to do. Two tasks, two
employees and a resubmission let an employee, a task id and a slot each be reused. Two events on the
bus let one fail and the next be skipped; one append past it can come between them, repeat an id,
lose its answer or leak the lock. A table of one row makes every second message evict one. The
limits of the tools are small enough for lines, counts and totals to hit them in every order. Four
plain command lines are enough for the white list, for two names, and for a name shared by two
programs. One credential can be told from its mask and from none; that a record never gets back an
older one of several is left to the theorem. What the theorems cover holds for any number.

`MaxEmits`, `MaxTries`, `MaxHeads`, `MaxGets`, `MaxAsks`, `MaxWork`, `MaxAttempts`, `MaxTurns`,
`MaxQueue`, `MaxItems`, `Generations`, `MaxLines`, `MaxCandidates`, `MaxEdits`, `MaxOpenings` and
`MaxAnswers` (one opening of the dialog that still loads its lists, one `getTask` under way) are the bounds that
appear in guards. `MaxTries`, `MaxTurns`, `MaxAttempts`, `MaxCandidates` and `MaxMessages` exist in the code with larger values;
the others only keep the instances finite. `CHECK_DEADLOCK` is off where a system may really come
to rest: the event trail, the feed, the inbox, the worker (both executions over) and the
services (a migration that is done, a doctor nobody asks again).

### Fairness

* Scheduler: `setInterval` calls `tick` every five seconds and `watchdogSweep` every thirty: weak
  fairness of `TickStart`, `SweepStart`. A statement that was issued completes, and the orphan scan
  is part of the start: weak fairness of the steps in progress. `SweepReap` has strong fairness:
  its wait is a promise queued behind ticks that all end, first come first served.
* Executors end in `sched_core` (turns, retries, command times are bounded), not in `watch_live`.
* Roster: the timer asks again and again, the store answers.
* Gate: the bus writes what was emitted, a woken execution reports. Humans are not fair.
* Plan runner: an execution that can go on does. Nothing outside it is fair.
* Event trail: the bus hands on, a call of `append` that can take its next step does (promises run
  on, lock waits time out). Nobody is obliged to emit, verify or snapshot.
* Feed: timers fire, `EventSource` connects again, answers arrive. Strong fairness of a poll round
  and of reading the wire: a connection that lives long enough for one round, and for all it has
  written, comes again and again (connections break at any time, but not before their first round
  for ever).
* Inbox: awaited calls come back, a channel after its time-out at the latest; the interval fires;
  each of the two counts succeeds now and then (strong fairness: it may also fail).
* Worker: promises and timers of a living parent (`TimeUp` while nothing is pending, which presumes
  that a time limit is configured, and `Terminate`), delivery of signals, and the end of an orphan
  at its next message when nothing keeps its event loop. One that hangs, works on, or has
  connected an MCP server is kept (`KeptBusy`), and `WorkerIsGone` says no more of it than the
  code: a settled call ends its worker, a lost one ends it unless it is kept. A worker may hang for
  ever, and no human is obliged to answer: `CallEnds` excepts a task whose checks stay pending, for
  which the timer is extended.
* Services: safety only.
* Never fair: operators, crashes, failing statements. `ReadyIsDispatched` is promised once
  nobody interferes any more (`<>[][~Disturbance]_vars`), `HungIsReaped` once the process stops
  crashing and the writes of the sweep stop failing (`<>[][~Crash /\ ~SweepWriteFails]_vars`).

## 4. What the code does not do

Statements a comment, a document or a name suggests and the code does not keep. They are definitions
of the modules, with the comment that quotes the repository, and are not checked; TLC refutes each
when it is added to the configuration named (for `services` as `D!...` or `I!...` under its part):

| Definition | Configuration | What happens |
|---|---|---|
| `LateResultDropped` | `sched_full` | `scheduler.ts:149-151`: reset, dispatch again (which deletes the mark), the first execution returns and writes |
| `DraftIsNotRun` | `sched_full` | `markRunning` has no status in its WHERE clause: a resubmission between claim and markRunning is put from draft to running |
| `DoneStaysDone` | `sched_full` | the sweep fails a victim of its list that is done by now |
| `RunningIsTimed` | `sched_full` | reset between claim and markRunning leaves a running row without `claimed_at`, which the watchdog skips for ever (`scheduler.ts:190`) |
| `NoDoubleAssignment`, `EverybodyComesBack` | `sched_full` (two employees for the first) | reset and sweep release the claimant a row named before an await; by then the employee may work for another task, and a claim between read and release is not released |
| `NoDoubleWork` | `roster` | `managed-roster.ts:33`: `refresh` computes `busy`, awaits the store, an acquire happens, `free` is replaced |
| `BusyAreWorking` | `roster` | an execution that ends while a refresh awaits the store stays busy until somebody works for that employee again or the process restarts |
| `OwnerIsListed` | `gate` | `review-gate.ts:138`: the rejection that wakes a replaced resolver is stored after the new declaration and settles it |
| `DeclaredItself` | `plan` | `plan-runner.ts:178-181`: in mode "inproc" the `task_check` of another execution counts |
| `FinishedWorkIsStored` | `plan` | `scheduler.ts:174`: nothing is stored before `runTaskPlan` returns; a watchdog or crash in the first round leaves NULL, and the next one wipes the workspace (`executor.ts:134`) |
| `NoResidue` | `worker` | `process-executor.ts:91-96`: a snapshot that rejects after the fork and before the `try` leaves the child alive |
| `WorksInClone` | `worker` | `workspace-prepare.ts:44`: a directory that is not empty counts as the site of a resumed plan; after the workspace was removed only the worker's log is in it |
| `FallbackIsOpen` | `services` | `runtime-config.ts:508` opens `primary.apiKey` only, the gateway neither; a sealed key of the fallback goes out as cipher text, although `runtime-config.ts:495-498` and `doctor.ts:326-327` allow it |

### Known deviations

Found while modelling, outside what the properties promise. The history variables mark exactly these
circumstances.

*Gate and plan.* After a sink has rejected, an execution that was about to declare leaves a resolver
nobody waits for. After a restart the checks of the previous process are listed as soon as their task
runs again, although nobody waits for them (`ListIsTrue` holds under `steady` only). The void route
decides on a list read before (`handlers.ts:270-276`). A failed plan whose items are all done can be
resumed, and throws at once on every resume (`plan-runner.ts:85`). A done row can keep the
`failed_item_id` of an overlapping execution (COALESCE). Numbered items (`bash-N`) restart in every
execution, so a release may wake the other one's command (`misled`).

*Trail, feed and inbox.* One failed sink silences the bus for ever (`bus.ts:32`). An emptied table
verifies as sound before the snapshot check looks at it (`sql-event-store.ts:124`). A snapshot taken
between reading the rows and reading the heads raises a false alarm; overlapping verifications may
put an older status back. Workers' events are appended without waiting, and a rejection ends the
process (`process-executor.ts:140`). The page takes a late answer for
an employee who was left and chosen again (A, B, A), never resets `sseLive`, and misses the history
when its first fetch fails after the stream came up; the browser forgets seen ids beyond its cap.
Counts that change between the first count and the subscription wait for the reconciling interval
(`sse.ts:130-132`). A slow channel holds up append and finish for up to ten seconds. A rejected
entry of `pendingEmits` stays (`scheduler.ts:130`).

*Workers.* Orphans outlive a crash of the console until their next message, and for good when they
have connected an MCP server or hang. A failed question for pending checks counts as no, and kills
(`process-executor.ts:125`). The timer extension asks
for pending checks of the task, not of the execution. Retention judges a directory by the
modification time of its top level. A graceful shutdown does not end workers (`server.ts:537-573`)
and closes the driver twice while ticks go on.

*Registries and skills.* Two requests on one record: the later write restores what it has read
(raced records are excepted). A mask sent when a record is created is stored as the key; text
that begins like a cipher text is taken for one; after a change of the master key old secrets stay
unreadable while the doctor is green. The presets come back when a table was emptied and the
console restarts. On MySQL a second category with the name of another overwrites that row. Deleting
a category or capability does not look at employees. A PUT of an approved skill changes its content without a
new review. A slow reader of a file store puts an older cache back; a failed flush leaves the change in the cache.

*Agent, shell, tools.* An append to the session that rejects while the agent runs is awaited by nobody
(`wire.ts:12-15`) and ends the process; in an attempt that waits for it, it rejects the attempt.
Tokens of rejected attempts are not in the account (`plan-runner.ts:219-222`), although the comment
at `plan-runner.ts:193` says that retries are ("honest cost"). The name a release is remembered
under (`bash-approval.ts:27`) is not the head `bash.ts:105` decides by, although the comment calls
them the same measure: a release of `"/opt/a b/tool1"` covers `"/opt/a c/tool2"`. The note of
`read_file` comes on top of its limit, and the `path:line:` of a match is not counted in the total of
`grep_files`. `McpHub.start` is not awaited (`server.ts:265-270`): an item assembled early lacks tools. A resumed plan whose first item failed reads no session; one that another
employee resumes finds neither session nor workspace. The fallback model is used only when the
stream function throws, not when it breaks off inside the stream. A natural end on the last turn counts as
`max_turns`. `edit_file` expands `$&` and `$$` of the new text (`local-workspace.ts:52`). A time-out
of a command kills the direct child only. MCP tools with the same name collide (`mcp-hub.ts:75`), a
client whose `listTools` failed is never closed. Task ids that differ in replaced characters share a
workspace.

*Migration, delivery, intake.* On MySQL a console that seeds beside a migration can overwrite a
preset row, and two starts may both add a column. A death between ALTER and backfill leaves `created_at` at 0. Bare message rows are
duplicated by a repetition. The doctor does not look at `workspaceRoot`, `sessionsRoot` or strict mode
without `bindHost`; a refused strict start has sealed rows and failed orphans already. A token issued twice for a name makes the file unloadable; so does one issued into an `auth:`
section in flow form, with a comment behind `auth:` or `tokens:`, or with entries over several lines
at an indentation `detectIndent` does not find (`token-issue.ts:48-56, 80-92`). A late answer (getTask, generation) overwrites the text of a
dialog opened again for something else; the form takes blanks, rows without an id or a title, and the structure of values that are no
strings, without asking (the "no loss" of `TaskCreateDialog.vue:67, 143` is that of the yaml mode). An address swapped in a draft
while it is published, or a task submitted again after it ended, is scheduled unchecked
(`handlers.ts:103-105`); without a forge no address is checked (`handlers.ts:327`).
Two publications may both create the repository, and the loser is refused.

## 5. What is proved

For all values of the constants (any number of tasks, employees, executions, items, attempts):

| Theorem | Says | Argument |
|---|---|---|
| `TypeCorrect` | `Spec => []TypeOK` (scheduler) | inductive; one step per action, lemmas on the operators of `TaskPool` |
| `MarksSpeakOfThePast` | `Spec => []MarkedNotInFlight` | inductive: whoever adds to one set takes from the other |
| `AllocationIsExact`, `NoDuplicateDispatch` | `OpenSpec => []EmployeesAccounted`, `OpenSpec => []InFlightExact` | `OpenInv`: the parts support one another (an employee that is released twice breaks exclusivity, and only `InFlightExact` and exclusivity together say that a release has exactly one holder), plus `reaped = {}`, without which `RunReturn` may leave without a release |
| `RowsMatchRuns` | `CoreSpec => []RowMatchesRun` | `CoreInv` adds to `OpenInv` how far the row of the task in dispatch or release is (`RowsAgree`) and what the dispatch relies on across its awaits: a task the tick has chosen is still ready when it is written (`StillReady`), a request creates a task once (`CreatesOnce`), nothing runs before the orphan scan is over (`BootIsQuiet`) |
| `SchedulerImplementsBoard` | `CoreSpec => ImplementsBoard` | under `CoreInv` every action is a step of `TeamBoard` or leaves its variables alone: one lemma per action. The busy employees of the board are those of the live executions, so a return is the board's release exactly because the allocation is exact |
| `RosterTypeCorrect`, `FreeStayKnown` | `TypeOK`, `free \subseteq records` | inductive |
| `OccupationIsKept` | `Spec => []OccupationSurvives` | `QuietInv`: while the schedule is quiet, at most one refresh is in progress and its `busy` is still the occupied part of the snapshot |
| `GateTypeCorrect` | `Spec => []TypeOK` (gate) | the queue has a type of its own (`QueueElements`) |
| `ResolversAgree` | `Spec => []ResolversAreWaiting` | both directions until a sink rejects, one from then on. `GateInv` adds `QueueMatches`: an execution whose declaration or report is in the queue is in the state that waits for exactly this event, and every event of the queue has one; without it `Write` could move an execution that is waiting for another |
| `ListStaysTrue` | `Spec => []ListIsTrue` | `SteadyInv`, conditional on `steady` like the property: each key has one owner at most, the events of the queue are those of the owner's last check, a stored declaration without a verdict has an owner who waits or whose decision is being stored (`PendingIsHeld`), and the other way round (`WaitingIsPending`) |
| `PlanTypeCorrect` | `Spec => []TypeOK` (plan runner) | with `ItemsOK`: an execution in an attempt is at an item of the plan, so that `progress` keeps its domain |
| `PlanStaysInOrder`, `NothingDoneTwice` | `Spec => []StoredInOrder`, `Spec => []WorkedInOrder` | `PlanInv` adds `StopsInOrder`, the order of a plan that stopped and is not written back yet: it is what a late write-back brings into a row that was reset, resumed or dispatched again meanwhile |
| `WorkIsNotLost` | `Spec => DoneIsKept` | the action property follows from `Ahead`: a task that never had two executions at once has one at most, and that one has done whatever the row says is done |
| `EvidenceIsOwn` | `Spec => DoneIsEarned` | `HearsItself`: in mode `fork` the listeners have noted exactly what their own executions did; then only `Judge` goes on to the next item, and without an objection |
| `ChainStaysSound` | `Spec => []ChainIsSound` (trail) | `TrailInv`: one transaction at a time (`OneTransaction`), hence the tail an append has read is still the tail when it inserts (`TailIsCurrent`), hence the table stays linked; `OnceEach` ties every stored row to the call that wrote it |
| `TrailStaysFaithful` | `Spec => []TrailIsFaithful` | `OrderInv`: the bus has handed on one event at a time (`OneByOne`), calls enter the transaction in the order of the line on SQLite (`LineOrder`), so an event of the bus is stored behind every earlier one (`BusOrder`) |
| `DamageIsNoticed` | `Spec => []DamageIsFound` | `DamageInv` says what an interference leaves behind and what an archived head stands for. The heart is `HashFixesChain`: two linked tables that have the same hash somewhere have it at the same place and are the same up to there, because a hash contains the row and the hash before it. This is an induction over the place, made through the least counterexample |
| `RequestStaysInOnePlace` | `Spec => []RequestIsInOnePlace` (workers) | `WorkerInv`: before its job a worker is silent and nothing is known of it (`BeforeJob`); after it, it waits exactly when one request of its own is under way, in one of the places where a request or a verdict can be, and nothing of an earlier request is left in any of them (`UnderWay`) |
| `FeedTypeCorrect`, `NothingShownTwice` | `Spec => []TypeOK`, `Spec => []ShownOnce` (feed) | `FeedInv`: ids are stored once, and what is pushed, under way, fetched or shown is stored; the ids on the page when an answer arrives are those it is compared with, since the comparison and the merge are one block. `InOrder`, the list of an answer, is defined by rank: that it holds each row once rests on the order being total on stored rows (`Place`), so that counting the rows before a row is an injection of the n rows into the n ranks, and therefore meets every rank |

Of the services side by side (`ServicesProofs`; all are theorems of `Services`, whose every part has
its own inductive invariant, and `part` never changes):

| Theorem | Says | Argument |
|---|---|---|
| `AnswersLast` | `Spec => []AnsweredIsStored` | `FilesInv` adds `CacheIsCurrent`: between two changes the cache is what was answered, and at the stages of a change exactly the one that is under way is in it too. A crash or a failing flush loses the cache, never the file, which only `Rename` replaces; a change that failed may be in the file or not |
| `LibraryStaysSound` | `Spec => []LibraryIsSound` | `LibraryInv` says of each request what it has read that is still so (`Current`): the status an edit merges, the category it has looked up, that nothing wears the category a removal is about to delete. Every step of another request that would falsify it puts the record into `raced`, except inside a transaction SQLite keeps apart |
| `SecretsOutlive` | `Spec => []SecretsSurvive` | `RegistryInv`: what a request is about to write opens to what its user asked for (`JobsAgree`), and what a start has passed is sealed (`SealedSoFar`); a lemma says that sealing changes nothing about what a record opens to |
| `RunsStayTold` | `Spec => []RunsAreTold` | `AgentInv`, on condition of `~astray`: there is one execution under way at most, one session at most, and the file is the story but for its last `Unsaved` messages (`Alone`); the context is the end of the story, from where the attempt began (`Follows`); what an execution holds by itself is `Honest`, its account included: paid and not charged is what rejected attempts paid. A crash cuts the story where the file ends |
| `OnlyReleasedEver` | `Spec => []OnlyReleasedRuns` | `ShellInv`: an approved call's command was shown and released. It rests on `ShownIsWaiting`, which speaks of items only one execution has asked for, and so on `ItemsNumbered`: an execution uses each number once; where two have asked for it, `Shared` takes note |
| `AnswersFit` | `Spec => []ResultsFitTheContext` | `ToolsetInv`: a search that is not full has room for one more line with its suffix, and of every match it holds the place is in the bound (`Fits`). What a search takes from one file is a function by recursion on the line (`Searched`), so the loop has an invariant, proved through the least line that breaks it |
| `ImportsStayWhole` | `Spec => []MigrationIsWhole` | `MigrationInv`: the rows a transaction has put and those it has left are all the usable ones (`Sorted`), and rows imported, rows skipped and rows not read yet add up to the rows of the sources, by cardinality of finite sets; at the end nothing is unread |
| `DeliveryStaysSound` | `Spec => []DeliveryIsSound` | `DeliveryInv`: a green report is about the yaml, the key and the host as they are (`ReportIsCurrent`), every token that was handed over is in the yaml (`HandedIsWritten`) |
| `IntakeStaysSound` | `Spec => []IntakeIsSound` | `IntakeInv`, of both instances: what a tab holds of a text that was read and left alone is that text, trimmed at most (`TextIsRead`); a publication whose row was not replaced meanwhile knows its address, and one that is about to write has an answer for the address it has read (`JobKnowsRow`) |
| `RewritesAreExact` | `Spec => RewritesKeepTheRest` | the action property, part by part: of the stores because nothing is flushed that was not loaded, of the tools from `OnePlace` (an edit has read a text with one place for it, and `crossed` says when the file has changed since), of `issueToken`, for a name that is new, both ways: it loads in the layouts the command knows, and in no other |

The assumptions are the named ASSUMEs of the modules (for the services those of `Services`, which
assume of each instance what its module calls `...Assumption`); TLC evaluates them in every run. They
say that the placeholders (`NoRun`, `NoOne`, `None`, `Mask`) are none of the things they stand in
for, that a bound is a natural number and a plan not empty, that the files of a workspace are
finitely many, and of the tables of a migration that they are a sequence and their rows rows. They
put no bound on a number. The inductive invariants were tried with TLC on the constants of the runs
before they were proved.

`OpenSpec` and `CoreSpec` are parts of `Spec`: without the steps that give an execution up, and
without resubmission and external executors besides. What they exclude is where the property is false of the
code (section 4, known deviations), and `sched_full` runs the whole.

Only model-checked:

* everything temporal (`ReadyIsDispatched`, `HungIsReaped`, `EditsTakeEffect`,
  `DecisionIsReported`, `PlanEnds`, `EveryAppendEnds`, `LateEventArrives`, `ViewIsComplete`,
  `NoticeReturns`, `BadgeCatchesUp`, `CallEnds`, `WorkerIsGone`): liveness and ENABLED are outside the
  reach of the prover.

Every safety invariant and every action property the runs check has a theorem. The induction theorems
of the library take an operator as a parameter, which the provers cannot instantiate; where an argument
needs induction over data it is made through the least counterexample (`DamageIsNoticed`,
`AnswersFit`) or by counting (`NothingShownTwice`).

## 6. Not modelled, and what is left

Not modelled:

* the file task store and the file event store, the predecessors of the SQL stores (a half line after
  a crash glues the next event to it). The console assembles none of the file stores any more
  (`http/server.ts:74-75`): the four that `FileRegistry` models are kept classes too, for
  inspecting and migrating what older instances left;
* the access guard: a comparison of hashes and a window per address, without waiting in between;
* the MCP servers: adapters that turn one tool call into one HTTP request;
* steering of a running agent by an operator, the mapping of agent events to audit events;
* the text of packages, briefs, prompts, notifications and doctor lines, the rules of the black list
  and the sandbox profile, paths;
* statements of others inside an open SQLite transaction (`sqlite-driver.ts:61-91`);
* routes that only list, pages that show what a request answers, the engine evaluation.

Left, in this order:

1. The window of `guard.ts`; statements inside a transaction of another on SQLite; the deduplication
   of `seedNotes`.
2. Composition of `WorkerProcess` with `TeamScheduler` in place of the repeated give-up and
   write-back.
