----------------------------- MODULE PlanRunner -----------------------------
(***************************************************************************)
(* The plan executor: one employee works through the items of a plan, one  *)
(* after the other, in order.  After each attempt the executor judges the  *)
(* item itself: the outcome, the verify command, the last result of every  *)
(* key tool, and (employees under supervision level "shadow") whether      *)
(* task_check was declared; the last two from the tool_call events it      *)
(* hears on the event bus while the attempt runs.  A failed item is tried  *)
(* again or stops the plan; a stopped plan can be resumed, over and over.  *)
(*                                                                         *)
(* In mode "inproc" all plans that run in the process share one bus; in    *)
(* mode "fork" every plan has a process and a bus of its own.              *)
(*                                                                         *)
(* The rest of the program is what happens to the row meanwhile: dispatch, *)
(* the write-back and its late-result guard, the watchdog, force-reset,    *)
(* resume, resubmission, the finish route, and a crash.  An execution that *)
(* was given up is not stopped: it goes on beside the next one.            *)
(***************************************************************************)
EXTENDS Naturals

CONSTANTS Task,        \* tasks with a plan
          Run,         \* slots for executions (bound)
          NItem,       \* number of items of every plan
          Shadow,      \* tasks whose employee is under supervision "shadow"
          KeyTool,     \* the tools deploy_*, gitea_*, gitlab_*
          MaxAttempts, \* 1 + retryPerItem
          NoTask       \* the task of an idle slot

ASSUME PlanAssumption ==
  /\ NItem \in Nat \ {0}
  /\ MaxAttempts \in Nat \ {0}
  /\ Shadow \subseteq Task
  /\ NoTask \notin Task

Item == 1..NItem

VARIABLES
  execMode, \* the configuration: "inproc" or "fork"
  row,      \* [Task -> the columns of the row a plan depends on]
  run,      \* [Run -> an execution of runTaskPlan]
  inFlight, \* task ids dispatched and not yet written back
  reaped,   \* task ids whose next result is dropped
  heard,    \* [Run -> what the listener of its current attempt has noted]
  own,      \* history: the same, of the execution's own events only
  doubled   \* history: tasks that had two executions at once

vars == <<execMode, row, run, inFlight, reaped, heard, own, doubled>>

Progress == [Item -> {"done", "failed", "skipped"}]
Fresh    == [i \in Item |-> "skipped"]
Notes    == [saw : BOOLEAN, bad : SUBSET KeyTool]

(* planProgress NULL is a plan with everything still to do. *)
NewRow  == [status |-> "pending", progress |-> Fresh, failedItem |-> 0]
IdleRun == [pc |-> "idle", task |-> NoTask, item |-> 0, attempt |-> 0, progress |-> Fresh]
Silence == [saw |-> FALSE, bad |-> {}]

Working == {"next", "exec", "verify"}

Row == [status     : {"pending", "active", "done", "failed"},
        progress   : Progress,
        failedItem : 0..NItem]

Execution == [pc       : Working \cup {"idle", "finish", "stop", "throw"},
              task     : Task \cup {NoTask},
              item     : 0..(NItem + 1),
              attempt  : 0..MaxAttempts,
              progress : Progress]

TypeOK ==
  /\ execMode \in {"inproc", "fork"}
  /\ row \in [Task -> Row]
  /\ run \in [Run -> Execution]
  /\ \A r \in Run : run[r].pc = "idle" <=> run[r].task = NoTask
  /\ inFlight \subseteq Task
  /\ reaped \subseteq Task
  /\ heard \in [Run -> Notes]
  /\ own \in [Run -> Notes]
  /\ doubled \subseteq Task

Init ==
  /\ execMode \in {"inproc", "fork"}
  /\ row = [t \in Task |-> NewRow]
  /\ run = [r \in Run |-> IdleRun]
  /\ inFlight = {}
  /\ reaped = {}
  /\ heard = [r \in Run |-> Silence]
  /\ own = [r \in Run |-> Silence]
  /\ doubled = {}

-----------------------------------------------------------------------------
(* Dispatch: the scheduler claims a pending task and starts runTaskPlan    *)
(* with the progress of the row.                                           *)

AllDone(p) == \A i \in Item : p[i] = "done"

(* Mutant: a resumed plan starts with whichever item is still to do. *)
IsAnyPending(p, i) == p[i] # "done"

IsFirstPending(p, i) == p[i] # "done" /\ \A j \in 1..(i - 1) : p[j] = "done"

Runs(t) == {r \in Run : run[r].task = t}

(* A capability that is missing, or a plan with nothing left to do         *)
(* (firstPending is -1), throws.                                           *)
Dispatch(r, t) ==
  /\ row[t].status = "pending"
  /\ t \notin inFlight
  /\ run[r].pc = "idle"
  /\ row' = [row EXCEPT ![t].status = "active"]
  /\ inFlight' = inFlight \cup {t}
  /\ reaped' = reaped \ {t}
  /\ doubled' = IF Runs(t) = {} THEN doubled ELSE doubled \cup {t}
  /\ \E pc \in {"next", "throw"}, i \in 0..NItem :
       /\ IF AllDone(row[t].progress)
          THEN i = 0 /\ pc = "throw"
          ELSE i \in Item /\ IsFirstPending(row[t].progress, i)
       /\ run' = [run EXCEPT ![r] = [pc |-> pc, task |-> t, item |-> i, attempt |-> 0,
                                     progress |-> row[t].progress]]
  /\ UNCHANGED <<execMode, heard, own>>

-----------------------------------------------------------------------------
(* One item.                                                               *)

(* The listener is taken off the bus. *)
StopListening(r) ==
  /\ heard' = [heard EXCEPT ![r] = Silence]
  /\ own' = [own EXCEPT ![r] = Silence]

(* Mutant: what the listener noted in an earlier attempt still counts. *)
AttemptKeeps(r, n) ==
  /\ run' = [run EXCEPT ![r].pc = "exec", ![r].attempt = n]
  /\ heard' = heard
  /\ own' = [own EXCEPT ![r] = Silence]

(* A new attempt: a new runtime, a new listener that has noted nothing. *)
Attempt(r, n) ==
  /\ run' = [run EXCEPT ![r].pc = "exec", ![r].attempt = n]
  /\ StopListening(r)

(* The item failed, what comes after it is skipped. *)
Stopped(p, i) ==
  [j \in Item |-> CASE j < i -> p[j] [] j = i -> "failed" [] j > i -> "skipped"]

StopAt(r) ==
  /\ run' = [run EXCEPT ![r].pc = "stop", ![r].progress = Stopped(run[r].progress, run[r].item)]
  /\ StopListening(r)

(* The next item, or the end of the plan.  The registry is read again: in  *)
(* mode "fork" it is the snapshot that was validated at the start.         *)
NextItem(r) ==
  /\ run[r].pc = "next"
  /\ \/ run[r].item \in Item /\ Attempt(r, 1)
     \/ run[r].item \in Item /\ execMode = "inproc" /\ StopAt(r)
     \/ /\ run[r].item > NItem
        /\ run' = [run EXCEPT ![r].pc = "finish"]
        /\ UNCHANGED <<heard, own>>
  /\ UNCHANGED <<execMode, row, inFlight, reaped, doubled>>

Attempting(r) == run[r].pc \in {"exec", "verify"}

(* The listener is on the bus for as long as the attempt is not judged;    *)
(* it asks for the type and the name of the tool, not for the task.        *)
Hears(s, r) == Attempting(s) /\ (s = r \/ execMode = "inproc")

(* What a listener has noted after one more call. *)
AfterCheck(n, isError)      == [n EXCEPT !.saw = @ \/ ~isError]
AfterTool(n, tool, isError) == [n EXCEPT !.bad = IF isError THEN @ \cup {tool} ELSE @ \ {tool}]

(* The employee calls task_check (an error, when it was declared not       *)
(* passed or a human rejected it) or a key tool.                           *)
CallTool(r) ==
  /\ run[r].pc = "exec"
  /\ \E isError \in BOOLEAN :
       \/ /\ heard' = [s \in Run |-> IF Hears(s, r) THEN AfterCheck(heard[s], isError) ELSE heard[s]]
          /\ own' = [own EXCEPT ![r] = AfterCheck(own[r], isError)]
       \/ \E tool \in KeyTool :
          /\ heard' = [s \in Run |-> IF Hears(s, r) THEN AfterTool(heard[s], tool, isError) ELSE heard[s]]
          /\ own' = [own EXCEPT ![r] = AfterTool(own[r], tool, isError)]
  /\ UNCHANGED <<execMode, row, run, inFlight, reaped, doubled>>

(* Mutant: the retries are not counted. *)
AttemptFailedForever(r) == Attempt(r, run[r].attempt)

(* Mutant: the first attempt is not counted as one. *)
AttemptOnceMore(r) ==
  IF run[r].attempt <= MaxAttempts THEN Attempt(r, run[r].attempt + 1) ELSE StopAt(r)

(* An attempt failed: try again, or stop the plan. *)
AttemptFailed(r) ==
  IF run[r].attempt < MaxAttempts THEN Attempt(r, run[r].attempt + 1) ELSE StopAt(r)

(* The employee ends: max_turns, an error or an exception fail the attempt *)
(* without the verify command.                                             *)
AgentEnds(r) ==
  /\ run[r].pc = "exec"
  /\ \/ AttemptFailed(r)
     \/ run' = [run EXCEPT ![r].pc = "verify"] /\ UNCHANGED <<heard, own>>
  /\ UNCHANGED <<execMode, row, inFlight, reaped, doubled>>

(* What the executor itself finds wrong with an attempt that went well. *)
Objection(r) ==
  \/ heard[r].bad # {}
  \/ run[r].task \in Shadow /\ ~heard[r].saw

(* The verify command ends (at once, for an item without one), and the     *)
(* item is judged.                                                         *)
Judge(r) ==
  /\ run[r].pc = "verify"
  /\ \/ AttemptFailed(r)
     \/ /\ ~Objection(r)
        /\ run' = [run EXCEPT ![r].pc = "next", ![r].item = @ + 1,
                              ![r].progress[run[r].item] = "done"]
        /\ StopListening(r)
  /\ UNCHANGED <<execMode, row, inFlight, reaped, doubled>>

(* The execution breaks off: the worker process exits, or the bus rejects  *)
(* one of the runner's own reports (an employee's report fails the attempt *)
(* only).  The outcome carries no progress.                                *)
BreakOff(r) ==
  /\ run[r].pc \in {"next", "stop"} \/ (execMode = "fork" /\ Attempting(r))
  /\ run' = [run EXCEPT ![r].pc = "throw"]
  /\ StopListening(r)
  /\ UNCHANGED <<execMode, row, inFlight, reaped, doubled>>

-----------------------------------------------------------------------------
(* The row of the task.                                                    *)

(* Mutant: the failed item is not written. *)
FinishedNameless(old, x) ==
  CASE x.pc = "finish" -> [old EXCEPT !.status = "done", !.progress = x.progress]
    [] x.pc = "stop"   -> [old EXCEPT !.status = "failed", !.progress = x.progress]
    [] x.pc = "throw"  -> [old EXCEPT !.status = "failed"]

(* Mutant: an outcome without progress clears the progress of the row. *)
FinishedUncoalesced(old, x) ==
  CASE x.pc = "finish" -> [old EXCEPT !.status = "done", !.progress = x.progress]
    [] x.pc = "stop"   -> [status |-> "failed", progress |-> x.progress, failedItem |-> x.item]
    [] x.pc = "throw"  -> [status |-> "failed", progress |-> Fresh, failedItem |-> 0]

(* finish(): progress and failed item are written when the outcome has     *)
(* them and kept when it has not (COALESCE).  A stop counts as a failure.  *)
Finished(old, x) ==
  CASE x.pc = "finish" -> [old EXCEPT !.status = "done", !.progress = x.progress]
    [] x.pc = "stop"   -> [status |-> "failed", progress |-> x.progress, failedItem |-> x.item]
    [] x.pc = "throw"  -> [old EXCEPT !.status = "failed"]

(* The execution returns to the scheduler, which writes the result, or     *)
(* drops it when the task is marked.                                       *)
WriteBack(r) ==
  LET t == run[r].task IN
  /\ run[r].pc \in {"finish", "stop", "throw"}
  /\ row' = IF t \in reaped THEN row ELSE [row EXCEPT ![t] = Finished(row[t], run[r])]
  /\ reaped' = reaped \ {t}
  /\ inFlight' = inFlight \ {t}
  /\ run' = [run EXCEPT ![r] = IdleRun]
  /\ UNCHANGED <<execMode, heard, own, doubled>>

(* resumePlan: the failed item is to do again, what is done stays done. *)
Resumed(old) ==
  [status |-> "pending", failedItem |-> 0,
   progress |-> [i \in Item |-> IF old.progress[i] = "failed" THEN "skipped" ELSE old.progress[i]]]

Resume(t) ==
  /\ row[t].status = "failed"
  /\ row' = [row EXCEPT ![t] = Resumed(row[t])]
  /\ UNCHANGED <<execMode, run, inFlight, reaped, heard, own, doubled>>

(* POST /api/tasks with the id of a finished task: everything is cleared. *)
Resubmit(t) ==
  /\ row[t].status \in {"done", "failed"}
  /\ row' = [row EXCEPT ![t] = NewRow]
  /\ UNCHANGED <<execMode, run, inFlight, reaped, heard, own, doubled>>

(* POST /force-reset: an active task is given up, everything is cleared. *)
ForceReset(t) ==
  /\ row' = [row EXCEPT ![t] = NewRow]
  /\ reaped' = IF row[t].status = "active" THEN reaped \cup {t} ELSE reaped
  /\ inFlight' = IF row[t].status = "active" THEN inFlight \ {t} ELSE inFlight
  /\ UNCHANGED <<execMode, run, heard, own, doubled>>

(* The watchdog gives an active task up; the progress of the row is kept. *)
Reap(t) ==
  /\ row[t].status = "active"
  /\ row' = [row EXCEPT ![t].status = "failed"]
  /\ reaped' = reaped \cup {t}
  /\ inFlight' = inFlight \ {t}
  /\ UNCHANGED <<execMode, run, heard, own, doubled>>

(* POST /finish of an external executor: no progress, any status. *)
ExternalFinish(t) ==
  /\ \E status \in {"done", "failed"} : row' = [row EXCEPT ![t].status = status]
  /\ UNCHANGED <<execMode, run, inFlight, reaped, heard, own, doubled>>

(* The process dies; the orphan scan of the restart fails what was active. *)
Crash ==
  /\ row' = [t \in Task |->
       IF row[t].status = "active" THEN [row[t] EXCEPT !.status = "failed"] ELSE row[t]]
  /\ run' = [r \in Run |-> IdleRun]
  /\ inFlight' = {}
  /\ reaped' = {}
  /\ heard' = [r \in Run |-> Silence]
  /\ own' = [r \in Run |-> Silence]
  /\ UNCHANGED <<execMode, doubled>>

-----------------------------------------------------------------------------
RunStep(r) == NextItem(r) \/ AgentEnds(r) \/ Judge(r) \/ WriteBack(r)

RowStep(t) == Resume(t) \/ Resubmit(t) \/ ForceReset(t) \/ Reap(t) \/ ExternalFinish(t)

Next ==
  \/ \E r \in Run : RunStep(r) \/ CallTool(r) \/ BreakOff(r) \/ \E t \in Task : Dispatch(r, t)
  \/ \E t \in Task : RowStep(t)
  \/ Crash

Spec == Init /\ [][Next]_vars

(* An execution that can go on does: turns, calls and verify commands are  *)
(* bounded.  Operators, the watchdog, crashes and dispatch are not fair.   *)
FairSpec == Spec /\ \A r \in Run : WF_vars(RunStep(r))

-----------------------------------------------------------------------------
(* What the row stores is a run of done items, then at most one that       *)
(* failed, which is the one the row names as the stop, then items to do;   *)
(* and a task that waits for dispatch has no failed item.  This survives   *)
(* retries, resumes, foreign finishes, crashes, and two executions of the  *)
(* same task that overwrite each other: resume can always find the point   *)
(* to go on from.                                                          *)
InOrder(p) == \A i \in Item : \A j \in 1..(i - 1) : p[i] # "skipped" => p[j] = "done"

StoredInOrder ==
  \A t \in Task :
    /\ InOrder(row[t].progress)
    /\ \A i \in Item : row[t].progress[i] = "failed" =>
         row[t].failedItem = i /\ row[t].status # "pending"

(* An execution works on the first item that is not done: nothing done is  *)
(* done again, nothing is skipped, and it reports the whole plan done only *)
(* when every item of it is.                                               *)
WorkedInOrder ==
  \A r \in Run :
    /\ run[r].pc \in Working => /\ \A j \in Item : j < run[r].item => run[r].progress[j] = "done"
                                /\ \A j \in Item : j >= run[r].item => run[r].progress[j] = "skipped"
    /\ run[r].pc = "finish" => AllDone(run[r].progress)

(* What the row says is done is not lost, except when the plan is started  *)
(* anew, or when two executions of the task were under way at once (the    *)
(* result of the older one is then not always dropped).                    *)
DoneIsKept ==
  [][\A t \in Task : Resubmit(t) \/ ForceReset(t) \/ t \in doubled \/
       \A i \in Item : row[t].progress[i] = "done" => row'[t].progress[i] = "done"]_vars

(* An item counts as done only when the last result of every key tool its  *)
(* own attempt called was a success, and, under "shadow", its own attempt  *)
(* declared it: the gate cannot be passed by saying nothing.  In mode      *)
(* "fork", whatever else goes on.                                          *)
Earned(r) == own[r].bad = {} /\ (run[r].task \in Shadow => own[r].saw)

DoneIsEarned ==
  [][\A r \in Run :
       execMode = "fork" /\ run[r].pc = "verify" /\ run'[r].pc = "next" => Earned(r)]_vars

(* Every execution ends, whatever fails and however often it is retried,   *)
(* also one that was given up, and leaves its slot.                        *)
PlanEnds == \A r \in Run : run[r].pc # "idle" ~> run[r].pc = "idle"

(* Refuted: the same in every mode.  The listener "makes sure that the     *)
(* declaration really happened", but on the shared bus of mode "inproc" it *)
(* counts the declaration of another execution, too.                       *)
DeclaredItself ==
  [][\A r \in Run : run[r].pc = "verify" /\ run'[r].pc = "next" /\ run[r].task \in Shadow =>
       own[r].saw]_vars

(* Refuted: "finish without progress keeps the plan items that have been   *)
(* worked through, so a resume can go on from there" (watchdog).  Nothing  *)
(* is written before the end of the execution.                             *)
FinishedWorkIsStored ==
  [][\A t \in Task : Reap(t) =>
       \A r \in Runs(t), i \in Item :
         run[r].progress[i] = "done" => row'[t].progress[i] = "done"]_vars

=============================================================================
