--------------------------- MODULE WorkerProcess ----------------------------
(***************************************************************************)
(* Executions in forked workers: process-executor.ts in the console's      *)
(* process, worker.ts in the child, the messages between the two, the      *)
(* queue of reviews they meet at, the timer that kills, and the workspace  *)
(* they prepare.                                                           *)
(*                                                                         *)
(* There is one task and one employee, so one workspace and one key in the *)
(* queue.  An Exec is one call of the executor with its child.  What an    *)
(* agent does is left out, but for its declarations; a worker may hang or  *)
(* die anywhere.                                                           *)
(***************************************************************************)
EXTENDS Naturals, Sequences

CONSTANTS
  Exec,
  Connects, \* the executions whose job names MCP servers that answer
  MaxAsks,  \* bound: declarations of one worker
  None

ASSUME WorkerAssumption ==
  /\ Connects \subseteq Exec
  /\ MaxAsks \in Nat /\ None \notin Exec
  /\ \A x \in Exec, n \in 0..MaxAsks : None # <<x, n>>

VARIABLES
  owner,     \* the execution the row belongs to, None when it is not active
  progress,  \* plan_progress is stored: the next execution resumes
  listed,    \* the last declaration stored has no decision yet
  resolver,  \* CheckReviewQueue.pending: <<exec, requestId>> or None
  approved,  \* history: the requests a human approved
  call,      \* exec -> the promise of the executor
  resumes,   \* exec -> its job carries progress
  doomed,    \* exec -> time was up and nothing pending: the signal is to be sent
  child,     \* exec -> "none", "alive", "gone"
  parent,    \* exec -> the process that forked it runs, so the channel is open
  kill,      \* exec -> a signal is on its way
  work,      \* exec -> where runWorker is
  asks,      \* exec -> requests made; the last one is the newest
  toMain, toWorker,  \* exec -> the channel, both ways
  dir        \* what the workspace holds, {} also when there is none

rowVars == <<owner, progress, listed>>
gateVars == <<resolver, approved>>
mainVars == <<call, resumes, doomed>>
workerVars == <<work, asks>>
vars == <<rowVars, gateVars, mainVars, child, parent, kill, workerVars,
          toMain, toWorker, dir>>

Settled == {"done", "crash", "thrown"}
Held == "repo" \* a clone of the repository
Log == "log"   \* worker.log

Init ==
  /\ owner = None /\ progress \in BOOLEAN /\ listed = FALSE
  /\ resolver = None /\ approved = {}
  /\ call = [x \in Exec |-> "none"] /\ resumes = [x \in Exec |-> FALSE]
  /\ doomed = [x \in Exec |-> FALSE]
  /\ child = [x \in Exec |-> "none"] /\ parent = [x \in Exec |-> FALSE]
  /\ kill = [x \in Exec |-> FALSE]
  /\ work = [x \in Exec |-> "boot"] /\ asks = [x \in Exec |-> 0]
  /\ toMain = [x \in Exec |-> <<>>] /\ toWorker = [x \in Exec |-> <<>>]
  /\ dir = IF progress THEN {Held} ELSE {}

Alive(x) == child[x] = "alive"
Connected(x) == Alive(x) /\ parent[x]

-----------------------------------------------------------------------------
(* The executor in the console's process.                                  *)

(* the dispatch: the task directory with worker.log, and the fork           *)
Fork(x) ==
  /\ owner = None /\ call[x] = "none"
  /\ owner' = x /\ resumes' = [resumes EXCEPT ![x] = progress]
  /\ call' = [call EXCEPT ![x] = "snapshot"]
  /\ child' = [child EXCEPT ![x] = "alive"] /\ parent' = [parent EXCEPT ![x] = TRUE]
  /\ dir' = dir \union {Log}
  /\ UNCHANGED <<progress, listed, gateVars, doomed, kill, workerVars, toMain, toWorker>>

(* capabilities and skills have been read: listeners, timer, job; the job   *)
(* of a worker that ended before is an error of the channel                 *)
Start(x) ==
  /\ call[x] = "snapshot"
  /\ IF Alive(x)
       THEN /\ call' = [call EXCEPT ![x] = "started"]
            /\ toWorker' = [toWorker EXCEPT ![x] = <<[t |-> "job"]>>]
       ELSE call' = [call EXCEPT ![x] = "thrown"] /\ UNCHANGED toWorker
  /\ UNCHANGED <<rowVars, gateVars, resumes, doomed, child, parent, kill, workerVars,
                 toMain, dir>>

(* that read fails, outside the try: nobody kills the worker                *)
StartFails(x) ==
  /\ call[x] = "snapshot" /\ call' = [call EXCEPT ![x] = "refused"]
  /\ UNCHANGED <<rowVars, gateVars, resumes, doomed, child, parent, kill, workerVars,
                 toMain, toWorker, dir>>

(* settle, the timer cleared, and the kill of the finally                   *)
SettleOnly(x, how) ==
  /\ call' = IF call[x] = "started" THEN [call EXCEPT ![x] = how] ELSE call
  /\ doomed' = [doomed EXCEPT ![x] = FALSE] /\ UNCHANGED kill
Settle(x, how) ==
  IF call[x] # "started" THEN UNCHANGED <<call, doomed, kill>>
  ELSE /\ call' = [call EXCEPT ![x] = how]
       /\ doomed' = [doomed EXCEPT ![x] = FALSE]
       /\ kill' = [kill EXCEPT ![x] = Alive(x)]

\* the answer of the queue, sent to the worker that asked if it is connected
SendVerdict(ask, ok) ==
  IF Connected(ask[1])
    THEN toWorker' = [toWorker EXCEPT ![ask[1]] = Append(@, [t |-> "verdict", req |-> ask[2], ok |-> ok])]
    ELSE UNCHANGED toWorker

\* reviewQueue.wait: the same key again, and the earlier one is turned down
WaitAlone(x, req) == resolver' = <<x, req>> /\ UNCHANGED toWorker
Wait(x, req) ==
  /\ resolver' = <<x, req>>
  /\ IF resolver = None THEN UNCHANGED toWorker ELSE SendVerdict(resolver, FALSE)

OnMessage(x) ==
  /\ parent[x] /\ toMain[x] # <<>> /\ call[x] # "snapshot"
  /\ toMain' = [toMain EXCEPT ![x] = Tail(@)]
  /\ LET m == Head(toMain[x]) IN
       /\ listed' = IF m.t \in {"gate-wait", "decided"} THEN m.t = "gate-wait" ELSE listed
       /\ IF m.t = "gate-wait" THEN Wait(x, m.req) ELSE UNCHANGED <<resolver, toWorker>>
       /\ IF m.t = "done" THEN Settle(x, "done")
          ELSE IF m.t = "error" THEN Settle(x, "crash")
          ELSE UNCHANGED <<call, doomed, kill>>
  /\ UNCHANGED <<owner, progress, approved, resumes, child, parent, workerVars, dir>>

(* the exit is noticed, before or after the last messages                   *)
OnExit(x) ==
  /\ call[x] = "started" /\ child[x] = "gone"
  /\ Settle(x, "crash")
  /\ UNCHANGED <<rowVars, gateVars, resumes, child, parent, workerVars, toMain, toWorker, dir>>

\* listPendingChecks: tasks that are not active have none
Pending == listed /\ owner # None

(* Time is up: is a check of this task pending?  If so once more as long.   *)
(* A question that fails counts as a no.                                    *)
WarnOnly(x) == UNCHANGED doomed
DoomUnlessPending(x) ==
  \E pending \in {Pending, FALSE} : doomed' = [doomed EXCEPT ![x] = ~pending]
TimeUp(x) ==
  /\ call[x] = "started" /\ Alive(x) /\ ~kill[x] /\ ~doomed[x]
  /\ DoomUnlessPending(x)
  /\ UNCHANGED <<rowVars, gateVars, call, resumes, child, parent, kill, workerVars,
                 toMain, toWorker, dir>>

(* The answer, later: SIGTERM, and SIGKILL after five seconds; a call that  *)
(* has settled meanwhile lets it be.                                        *)
Terminate(x) ==
  /\ doomed[x] /\ doomed' = [doomed EXCEPT ![x] = FALSE]
  /\ kill' = [kill EXCEPT ![x] = TRUE]
  /\ UNCHANGED <<rowVars, gateVars, call, resumes, child, parent, workerVars,
                 toMain, toWorker, dir>>

-----------------------------------------------------------------------------
(* The worker.                                                             *)

Say(x, msgs) == toMain' = [toMain EXCEPT ![x] = @ \o msgs]
Goes(x, from, to) == Alive(x) /\ work[x] = from /\ work' = [work EXCEPT ![x] = to]

TakeJob(x) ==
  /\ Goes(x, "boot", "clear") /\ toWorker[x] # <<>> /\ Head(toWorker[x]).t = "job"
  /\ toWorker' = [toWorker EXCEPT ![x] = Tail(@)]
  /\ UNCHANGED <<rowVars, gateVars, mainVars, child, parent, kill, asks, toMain, dir>>

(* from scratch: workspace and session are removed; a resumed plan keeps them *)
Clear(x) ==
  /\ Goes(x, "clear", "clone")
  /\ dir' = IF resumes[x] THEN dir ELSE {}
  /\ UNCHANGED <<rowVars, gateVars, mainVars, child, parent, kill, asks, toMain, toWorker>>

(* a directory that is not empty is taken for a resumed one                 *)
Clone(x) ==
  /\ Goes(x, "clone", "run")
  /\ dir' = IF dir = {} THEN {Held} ELSE dir
  /\ UNCHANGED <<rowVars, gateVars, mainVars, child, parent, kill, asks, toMain, toWorker>>

(* anything that throws in runJob                                           *)
JobFails(x) ==
  /\ \E at \in {"clear", "clone", "run"} : Goes(x, at, "over")
  /\ parent[x] /\ Say(x, <<[t |-> "error"]>>)
  /\ UNCHANGED <<rowVars, gateVars, mainVars, child, parent, kill, asks, toWorker, dir>>

DeclareOnceMore(x) ==
  /\ Goes(x, "run", "wait") /\ asks[x] <= MaxAsks /\ parent[x]
  /\ asks' = [asks EXCEPT ![x] = @ + 1]
  /\ Say(x, <<[t |-> "gate-wait", req |-> asks[x] + 1]>>)
  /\ UNCHANGED <<rowVars, gateVars, mainVars, child, parent, kill, toWorker, dir>>

(* the agent declares: the request, and right behind it the event that      *)
(* lists it                                                                 *)
Declare(x) ==
  /\ Goes(x, "run", "wait") /\ asks[x] < MaxAsks /\ parent[x]
  /\ asks' = [asks EXCEPT ![x] = @ + 1]
  /\ Say(x, <<[t |-> "gate-wait", req |-> asks[x] + 1]>>)
  /\ UNCHANGED <<rowVars, gateVars, mainVars, child, parent, kill, toWorker, dir>>

(* a verdict resolves the request of its id                                 *)
Verdict(x) ==
  /\ Goes(x, "wait", "run") /\ toWorker[x] # <<>> /\ Head(toWorker[x]).req = asks[x]
  /\ toWorker' = [toWorker EXCEPT ![x] = Tail(@)]
  /\ parent[x] /\ Say(x, <<[t |-> "decided"]>>)
  /\ UNCHANGED <<rowVars, gateVars, mainVars, child, parent, kill, asks, dir>>

(* the outcome; the worker stays until it is killed                         *)
Finish(x) ==
  /\ Goes(x, "run", "over")
  /\ parent[x] /\ Say(x, <<[t |-> "done"]>>)
  /\ UNCHANGED <<rowVars, gateVars, mainVars, child, parent, kill, asks, toWorker, dir>>

(* a crash, at any time                                                     *)
Gone(x) ==
  /\ Alive(x) /\ child' = [child EXCEPT ![x] = "gone"]
  /\ work' = [work EXCEPT ![x] = "over"] /\ toWorker' = [toWorker EXCEPT ![x] = <<>>]
  /\ asks' = [asks EXCEPT ![x] = 0] /\ approved' = {a \in approved : a[1] # x}
  /\ resumes' = [resumes EXCEPT ![x] = FALSE] /\ kill' = [kill EXCEPT ![x] = FALSE]
  /\ doomed' = [doomed EXCEPT ![x] = FALSE]
  /\ UNCHANGED <<rowVars, resolver, call, parent, toMain, dir>>

(* a signal arrives: the worker handles none                                *)
Killed(x) == kill[x] /\ Gone(x)

(* The channel is closed.  What it sends next is an error nobody handles,   *)
(* which is one more crash of a worker that may also hang.  One that only   *)
(* waited for a message has an empty event loop and ends, unless it has     *)
(* connected MCP servers: runJob does before the agent runs, and no one     *)
(* ever closes them.                                                        *)
KeptBusy(x) ==
  \/ work[x] \in {"clear", "clone", "run"} \/ toWorker[x] # <<>>
  \/ x \in Connects /\ work[x] # "boot"
OrphanEnds(x) == ~parent[x] /\ ~KeptBusy(x) /\ Gone(x)

-----------------------------------------------------------------------------
(* The environment: the reviewer, the scheduler, the process.              *)

Review(ok) ==
  /\ resolver # None
  /\ resolver' = None
  /\ approved' = IF ok THEN approved \union {resolver} ELSE approved
  /\ SendVerdict(resolver, ok)
  /\ UNCHANGED <<rowVars, mainVars, child, parent, kill, workerVars, toMain, dir>>

(* runOne writes the row back, with the progress the outcome carries        *)
WriteBack(x) ==
  /\ owner = x /\ call[x] \in Settled \union {"refused"}
  /\ owner' = None
  /\ progress' \in IF call[x] = "done" THEN {progress, TRUE} ELSE {progress}
  /\ UNCHANGED <<listed, gateVars, mainVars, child, parent, kill, workerVars, toMain, toWorker, dir>>

(* the watchdog (progress kept) or force-reset (and cleared): the execution *)
(* goes on                                                                  *)
GiveUp ==
  /\ owner # None /\ owner' = None
  /\ progress' \in {progress, FALSE}
  /\ UNCHANGED <<listed, gateVars, mainVars, child, parent, kill, workerVars, toMain, toWorker, dir>>

(* retention: the directory has not been touched for days                   *)
SweepWorkspace ==
  /\ owner = None /\ \A x \in Exec : ~Alive(x)
  /\ dir # {} /\ dir' = {}
  /\ UNCHANGED <<rowVars, gateVars, mainVars, child, parent, kill, workerVars, toMain, toWorker>>

(* The process ends and is started again: memory and channels are lost, the *)
(* orphan scan fails the row.  One way is a fork that fails while Start is  *)
(* awaited (an error event without a listener), another an append of        *)
(* OnMessage that rejects (nobody awaits it).                               *)
Restart ==
  /\ owner' = None /\ resolver' = None
  /\ call' = [x \in Exec |-> IF call[x] \in {"snapshot", "started"} THEN "lost" ELSE call[x]]
  /\ doomed' = [x \in Exec |-> FALSE]
  /\ parent' = [x \in Exec |-> FALSE]
  /\ toMain' = [x \in Exec |-> <<>>]
  /\ UNCHANGED <<progress, listed, approved, resumes, child, kill, workerVars, toWorker, dir>>

-----------------------------------------------------------------------------
Main(x) ==
  \/ Start(x) \/ StartFails(x) \/ OnMessage(x) \/ OnExit(x)
  \/ TimeUp(x) \/ Terminate(x)
Worker(x) ==
  \/ TakeJob(x) \/ Clear(x) \/ Clone(x) \/ JobFails(x)
  \/ Declare(x) \/ Verdict(x) \/ Finish(x)

Next ==
  \/ \E x \in Exec : Fork(x) \/ Main(x) \/ Worker(x) \/ Gone(x) \/ WriteBack(x)
  \/ \E ok \in BOOLEAN : Review(ok)
  \/ GiveUp \/ SweepWorkspace \/ Restart

(* Promises and timers of a process that runs make progress, signals arrive, *)
(* a process with an empty event loop ends.  A worker may hang, humans may   *)
(* never answer, and nothing obliges the scheduler.  A timer there is when   *)
(* the task time-out is configured.                                          *)
Fairness ==
  \A x \in Exec :
    /\ WF_vars(Start(x) \/ StartFails(x)) /\ WF_vars(OnMessage(x)) /\ WF_vars(OnExit(x))
    /\ WF_vars(~Pending /\ TimeUp(x)) /\ WF_vars(Terminate(x))
    /\ WF_vars(Killed(x)) /\ WF_vars(OrphanEnds(x))

Spec == Init /\ [][Next]_vars /\ Fairness

-----------------------------------------------------------------------------
(* Properties.                                                             *)

TypeOK ==
  /\ {progress, listed} \subseteq BOOLEAN /\ owner \in Exec \union {None}
  /\ resolver = None \/ resolver \in Exec \X (1..MaxAsks)
  /\ approved \subseteq Exec \X (1..MaxAsks)
  /\ call \in [Exec -> {"none", "snapshot", "started", "refused", "lost"} \union Settled]
  /\ child \in [Exec -> {"none", "alive", "gone"}]
  /\ work \in [Exec -> {"boot", "clear", "clone", "run", "wait", "over"}]
  /\ asks \in [Exec -> 0..MaxAsks] /\ {kill, doomed} \subseteq [Exec -> BOOLEAN]
  /\ dir \subseteq {Held, Log}

(* Where a request of a worker can be: on its way to the queue, in the      *)
(* queue, or answered and on its way back.                                  *)
Asked(x) == {i \in DOMAIN toMain[x] : toMain[x][i].t = "gate-wait"}
InQueue(x) == resolver = <<x, asks[x]>>
Answered(x) == DOMAIN toWorker[x]

Places(x) ==
  {<<"asked", i>> : i \in Asked(x)} \union {<<"answered", i>> : i \in Answered(x)}
    \union (IF InQueue(x) THEN {<<"queue", 1>>} ELSE {})

(* A worker that waits for a human is forgotten by nobody: its request is   *)
(* in one place, and only in one; and an approval on its way is one a human *)
(* gave to this very request.                                               *)
RequestIsInOnePlace ==
  \A x \in Exec :
    Connected(x) /\ work[x] = "wait" =>
      /\ \E p \in Places(x) : Places(x) = {p}
      /\ \A i \in Answered(x) :
           /\ toWorker[x][i].req = asks[x]
           /\ toWorker[x][i].ok => <<x, asks[x]>> \in approved

(* A call of the executor ends, whatever its worker does, unless checks of  *)
(* the task stay pending: exit, message or timer settle it.                 *)
CallEnds ==
  \A x \in Exec : []<>Pending \/ (call[x] = "started" ~> call[x] # "started")

(* A worker whose call has ended by a message, an exit or the timer is ended *)
(* (the finally).  One whose console died before ends too, or something      *)
(* keeps it busy: its work, a message, or an MCP connection.                 *)
WorkerIsGone ==
  \A x \in Exec :
    call[x] \in Settled \union {"lost"} ~>
      child[x] = "gone" \/ (call[x] = "lost" /\ KeptBusy(x))

(* "No residue is left" also when the snapshot for the job cannot be read.  *)
NoResidue == \A x \in Exec : call[x] = "refused" ~> child[x] # "alive"

(* Whoever starts to work, works in a clone of the repository of the task.  *)
WorksInClone ==
  [][\A x \in Exec : work[x] = "clone" /\ work'[x] = "run" => Held \in dir']_vars

=============================================================================
