-------------------------- MODULE PlanRunnerProofs --------------------------
(***************************************************************************)
(* Theorems about the plan executor, for every number of tasks, items,     *)
(* attempts and overlapping executions.                                    *)
(***************************************************************************)
EXTENDS PlanRunner, TLAPS

(* Beginning an attempt, retrying and stopping keep the types. *)
LEMMA AttemptType ==
  ASSUME TypeOK, NEW r \in Run, run[r].pc # "idle", run[r].item \in Item,
         Attempt(r, 1) \/ AttemptFailed(r) \/ StopAt(r)
  PROVE  /\ run' \in [Run -> Execution]
         /\ \A q \in Run : run'[q].pc = "idle" <=> run'[q].task = NoTask
         /\ heard' \in [Run -> Notes]
         /\ own' \in [Run -> Notes]
<1>1. Silence \in Notes
  BY DEF Silence, Notes
<1>2. heard' \in [Run -> Notes] /\ own' \in [Run -> Notes]
  <2>1. StopListening(r)
    BY DEF Attempt, AttemptFailed, StopAt
  <2>2. QED
    BY <1>1, <2>1 DEF TypeOK, StopListening
<1>3. ASSUME NEW n \in 1..MaxAttempts, Attempt(r, n)
      PROVE  /\ run' \in [Run -> Execution]
             /\ \A q \in Run : run'[q].pc = "idle" <=> run'[q].task = NoTask
  BY <1>3 DEF TypeOK, Attempt, Execution, Working, Row
<1>4. ASSUME StopAt(r)
      PROVE  /\ run' \in [Run -> Execution]
             /\ \A q \in Run : run'[q].pc = "idle" <=> run'[q].task = NoTask
  <2>1. Stopped(run[r].progress, run[r].item) \in Progress
    BY PlanAssumption DEF TypeOK, Stopped, Progress, Item, Execution, Row
  <2>2. DEFINE stopped == [run[r] EXCEPT !.pc = "stop", !.progress = Stopped(run[r].progress, run[r].item)]
  <2>3. stopped \in Execution /\ stopped.pc # "idle" /\ stopped.task = run[r].task
    BY <2>1 DEF TypeOK, Execution
  <2>4. run' = [run EXCEPT ![r] = stopped]
    BY <1>4 DEF StopAt, TypeOK
  <2>5. QED
    BY <2>3, <2>4 DEF TypeOK
<1>5. run[r].attempt < MaxAttempts => run[r].attempt + 1 \in 1..MaxAttempts
  BY PlanAssumption DEF TypeOK, Execution, Row
<1>6. 1 \in 1..MaxAttempts
  BY PlanAssumption
<1>7. QED
  BY <1>2, <1>3, <1>4, <1>5, <1>6 DEF AttemptFailed

(* What an execution is working on is an item of the plan. *)
ItemsOK == \A r \in Run : /\ Attempting(r) \/ run[r].pc = "stop" => run[r].item \in Item
                          /\ run[r].pc = "next" => run[r].item \in 1..(NItem + 1)

LEMMA PlanInitType == Init => TypeOK /\ ItemsOK
<1> SUFFICES ASSUME Init PROVE TypeOK /\ ItemsOK
  OBVIOUS
<1>1. Fresh \in Progress
  BY DEF Fresh, Progress
<1>2. QED
  BY <1>1, PlanAssumption
  DEF Init, TypeOK, ItemsOK, NewRow, IdleRun, Silence, Notes, Attempting, Working, Execution, Row

LEMMA PlanNextType == TypeOK /\ ItemsOK /\ [Next]_vars => TypeOK' /\ ItemsOK'
<1> SUFFICES ASSUME TypeOK, ItemsOK, [Next]_vars PROVE TypeOK' /\ ItemsOK'
  OBVIOUS
<1>a. Fresh \in Progress /\ Silence \in Notes
  BY DEF Fresh, Progress, Silence, Notes
<1>b. /\ NewRow \in Row
      /\ IdleRun \in Execution
      /\ IdleRun.pc = "idle" /\ IdleRun.task = NoTask
  BY <1>a, PlanAssumption DEF NewRow, IdleRun, Row, Execution
<1>c. run \in [Run -> Execution]
  BY DEF TypeOK, Execution, Row
<1>1. ASSUME NEW r \in Run, NEW t \in Task, Dispatch(r, t)
      PROVE  TypeOK' /\ ItemsOK'
  <2>1. PICK pc \in {"next", "throw"}, i \in 0..NItem :
          /\ pc = "throw" \/ i \in Item
          /\ run' = [run EXCEPT ![r] = [pc |-> pc, task |-> t, item |-> i, attempt |-> 0,
                                        progress |-> row[t].progress]]
    BY <1>1 DEF Dispatch
  <2>2. [pc |-> pc, task |-> t, item |-> i, attempt |-> 0, progress |-> row[t].progress] \in Execution
    BY PlanAssumption DEF TypeOK, Execution, Working, Row
  <2>3. run' \in [Run -> Execution]
    BY <1>c, <2>1, <2>2
  <2>4. \A q \in Run : run'[q].pc = "idle" <=> run'[q].task = NoTask
    BY <2>1, PlanAssumption DEF TypeOK, Execution, Row
  <2>5. ItemsOK'
    BY <2>1, PlanAssumption DEF TypeOK, ItemsOK, Attempting, Item, Execution, Row
  <2>6. QED
    BY <1>1, <2>3, <2>4, <2>5 DEF TypeOK, Dispatch, Execution, Row
<1>2. ASSUME NEW r \in Run, NextItem(r)
      PROVE  TypeOK' /\ ItemsOK'
  <2>1. CASE run[r].item \in Item /\ (Attempt(r, 1) \/ StopAt(r))
    <3>1. TypeOK'
      BY <1>2, <2>1, AttemptType DEF NextItem, TypeOK, Execution, Row
    <3>2. \A q \in Run \ {r} : run'[q] = run[q]
      BY <2>1 DEF TypeOK, Attempt, StopAt
    <3>3. run'[r].pc \in {"exec", "stop"} /\ run'[r].item \in Item
      BY <2>1 DEF TypeOK, Execution, Attempt, StopAt
    <3>4. QED
      BY <3>1, <3>2, <3>3 DEF ItemsOK, Attempting
  <2>2. CASE /\ run' = [run EXCEPT ![r].pc = "finish"]
             /\ UNCHANGED <<heard, own>>
    BY <1>2, <2>2 DEF NextItem, TypeOK, ItemsOK, Attempting, Working, Execution, Row
  <2>3. QED
    BY <1>2, <2>1, <2>2 DEF NextItem
<1>3. ASSUME NEW r \in Run, AgentEnds(r)
      PROVE  TypeOK' /\ ItemsOK'
  <2>1. CASE AttemptFailed(r)
    <3>1. TypeOK'
      BY <1>3, <2>1, AttemptType DEF AgentEnds, TypeOK, Execution, ItemsOK, Attempting, Row
    <3>2. ItemsOK'
      BY <1>3, <2>1 DEF AgentEnds, ItemsOK, TypeOK, AttemptFailed, Attempt, StopAt, Attempting, Execution, Row
    <3>3. QED
      BY <3>1, <3>2
  <2>2. CASE run' = [run EXCEPT ![r].pc = "verify"] /\ UNCHANGED <<heard, own>>
    BY <1>3, <2>2 DEF AgentEnds, TypeOK, ItemsOK, Attempting, Working, Execution, Row
  <2>3. QED
    BY <1>3, <2>1, <2>2 DEF AgentEnds
<1>4. ASSUME NEW r \in Run, Judge(r)
      PROVE  TypeOK' /\ ItemsOK'
  <2>1. CASE AttemptFailed(r)
    <3>1. TypeOK'
      BY <1>4, <2>1, AttemptType DEF Judge, TypeOK, Execution, ItemsOK, Attempting, Row
    <3>2. ItemsOK'
      BY <1>4, <2>1 DEF Judge, ItemsOK, TypeOK, AttemptFailed, Attempt, StopAt, Attempting, Execution, Row
    <3>3. QED
      BY <3>1, <3>2
  <2>2. CASE /\ run' = [run EXCEPT ![r].pc = "next", ![r].item = @ + 1,
                                   ![r].progress[run[r].item] = "done"]
             /\ StopListening(r)
    <3>1. run[r].item \in Item /\ run[r].item + 1 \in 1..(NItem + 1)
      BY <1>4, PlanAssumption DEF Judge, ItemsOK, Attempting, Item
    <3>2. [run[r].progress EXCEPT ![run[r].item] = "done"] \in Progress
      BY <3>1 DEF TypeOK, Progress, Execution, Row
    <3>3. DEFINE marked == [run[r].progress EXCEPT ![run[r].item] = "done"]
                 passed == [run[r] EXCEPT !.pc = "next", !.item = run[r].item + 1, !.progress = marked]
    <3>4. /\ passed \in Execution /\ passed.pc = "next" /\ passed.task = run[r].task
          /\ passed.item \in 1..(NItem + 1)
      <4>1. marked \in Progress
        BY <3>2
      <4>2. run[r] \in Execution
        BY DEF TypeOK
      <4>3. run[r].item + 1 \in 0..(NItem + 1)
        BY <3>1
      <4> HIDE DEF marked
      <4>4. QED
        BY <3>1, <4>1, <4>2, <4>3 DEF Execution, Working
    <3>5. run' = [run EXCEPT ![r] = passed]
      BY <2>2 DEF TypeOK
    <3>6. run' \in [Run -> Execution] /\ \A q \in Run : run'[q].pc = "idle" <=> run'[q].task = NoTask
      BY <1>4, <3>4, <3>5 DEF TypeOK, Judge
    <3>7. ItemsOK'
      BY <3>4, <3>5 DEF TypeOK, ItemsOK, Attempting
    <3>8. QED
      BY <1>4, <1>a, <2>2, <3>6, <3>7 DEF Judge, TypeOK, StopListening
  <2>3. QED
    BY <1>4, <2>1, <2>2 DEF Judge
<1>5. ASSUME NEW r \in Run, WriteBack(r)
      PROVE  TypeOK' /\ ItemsOK'
  <2>1. run[r].task \in Task /\ run[r] \in Execution
    BY <1>5 DEF WriteBack, TypeOK, Execution, Row
  <2>2. run[r].pc = "stop" => run[r].item \in 0..NItem
    BY PlanAssumption DEF ItemsOK, Item
  <2>3. Finished(row[run[r].task], run[r]) \in Row
    <3>1. row[run[r].task] \in Row
      BY <2>1 DEF TypeOK
    <3>2. CASE run[r].pc = "finish"
      BY <3>1, <3>2, <2>1 DEF Finished, Row, Execution
    <3>3. CASE run[r].pc = "stop"
      BY <3>1, <3>3, <2>1, <2>2 DEF Finished, Row, Execution
    <3>4. CASE run[r].pc = "throw"
      BY <3>1, <3>4, <2>1 DEF Finished, Row, Execution
    <3>5. QED
      BY <1>5, <3>2, <3>3, <3>4 DEF WriteBack
  <2>4. row' \in [Task -> Row]
    BY <1>5, <2>1, <2>3 DEF WriteBack, TypeOK, Execution, Row
  <2>5. run' \in [Run -> Execution] /\ \A q \in Run : run'[q].pc = "idle" <=> run'[q].task = NoTask
    BY <1>5, <1>b DEF WriteBack, TypeOK, Execution, Row
  <2>6. ItemsOK'
    BY <1>5, <1>b DEF WriteBack, TypeOK, ItemsOK, Attempting, Execution, Row
  <2>7. QED
    BY <1>5, <2>4, <2>5, <2>6 DEF WriteBack, TypeOK, Execution, Row
<1>6. ASSUME NEW r \in Run, CallTool(r)
      PROVE  TypeOK' /\ ItemsOK'
  <2>1. \A n \in Notes, isError \in BOOLEAN : AfterCheck(n, isError) \in Notes
    BY DEF Notes, AfterCheck
  <2>2. \A n \in Notes, tool \in KeyTool, isError \in BOOLEAN : AfterTool(n, tool, isError) \in Notes
    BY DEF Notes, AfterTool
  <2>3. PICK isError \in BOOLEAN :
          \/ /\ heard' = [q \in Run |-> IF Hears(q, r) THEN AfterCheck(heard[q], isError) ELSE heard[q]]
             /\ own' = [own EXCEPT ![r] = AfterCheck(own[r], isError)]
          \/ \E tool \in KeyTool :
             /\ heard' = [q \in Run |-> IF Hears(q, r) THEN AfterTool(heard[q], tool, isError) ELSE heard[q]]
             /\ own' = [own EXCEPT ![r] = AfterTool(own[r], tool, isError)]
    BY <1>6 DEF CallTool
  <2>4. heard \in [Run -> Notes] /\ own \in [Run -> Notes]
    BY DEF TypeOK
  <2>5. heard' \in [Run -> Notes] /\ own' \in [Run -> Notes]
    BY <2>1, <2>2, <2>3, <2>4
  <2>6. QED
    BY <1>6, <2>5 DEF CallTool, TypeOK, ItemsOK, Attempting
<1>7. ASSUME NEW r \in Run, BreakOff(r)
      PROVE  TypeOK' /\ ItemsOK'
  <2>1. run' \in [Run -> Execution]
    BY <1>7 DEF BreakOff, TypeOK, Execution, Row
  <2>2. \A q \in Run : run'[q].pc = "idle" <=> run'[q].task = NoTask
    BY <1>7 DEF BreakOff, TypeOK, Attempting, Execution, Row
  <2>3. ItemsOK'
    BY <1>7 DEF BreakOff, TypeOK, ItemsOK, Attempting, Execution, Row
  <2>4. QED
    BY <1>7, <1>a, <2>1, <2>2, <2>3 DEF BreakOff, TypeOK, StopListening, Execution, Row
<1>8. ASSUME NEW t \in Task, RowStep(t)
      PROVE  TypeOK' /\ ItemsOK'
  <2>1. Resumed(row[t]) \in Row
    BY PlanAssumption DEF TypeOK, Resumed, Row, Progress, Execution
  <2>2. row' \in [Task -> Row]
    <3>1. row \in [Task -> Row]
      BY DEF TypeOK
    <3>2. \A status \in {"done", "failed"} : [row[t] EXCEPT !.status = status] \in Row
      BY <3>1 DEF Row
    <3>3. CASE Resume(t) \/ Resubmit(t) \/ ForceReset(t)
      BY <3>1, <3>3, <1>b, <2>1 DEF Resume, Resubmit, ForceReset
    <3>4. CASE Reap(t) \/ ExternalFinish(t)
      <4>1. PICK status \in {"done", "failed"} : row' = [row EXCEPT ![t] = [row[t] EXCEPT !.status = status]]
        BY <3>1, <3>4 DEF Reap, ExternalFinish
      <4>2. QED
        BY <3>1, <3>2, <4>1
    <3>5. QED
      BY <1>8, <3>3, <3>4 DEF RowStep
  <2>3. /\ inFlight' \subseteq Task /\ reaped' \subseteq Task
        /\ UNCHANGED <<execMode, run, heard, own, doubled>>
    BY <1>8 DEF RowStep, Resume, Resubmit, ForceReset, Reap, ExternalFinish, TypeOK, Execution, Row
  <2>4. QED
    BY <2>2, <2>3 DEF TypeOK, ItemsOK, Attempting, Execution, Row
<1>9. ASSUME Crash
      PROVE  TypeOK' /\ ItemsOK'
  <2>1. row' \in [Task -> Row]
    BY <1>9 DEF Crash, TypeOK, Row, Execution
  <2>2. QED
    BY <1>9, <1>a, <1>b, <2>1 DEF Crash, TypeOK, ItemsOK, Attempting, Execution, Row
<1>10. CASE UNCHANGED vars
  BY <1>10 DEF vars, TypeOK, ItemsOK, Attempting, Execution, Row
<1>11. QED
  BY <1>1, <1>2, <1>3, <1>4, <1>5, <1>6, <1>7, <1>8, <1>9, <1>10 DEF Next, RunStep

(* The variables always have their types, whatever retries, resumes,       *)
(* overlapping executions and crashes do.                                  *)
THEOREM PlanTypeCorrect == Spec => []TypeOK
<1>1. TypeOK /\ ItemsOK /\ [Next]_vars => (TypeOK /\ ItemsOK)'
  BY PlanNextType
<1>2. QED
  BY PlanInitType, <1>1, PTL DEF Spec

(* A plan that stopped is in order, and only the item it stopped at failed. *)
StopsInOrder ==
  \A r \in Run : run[r].pc = "stop" =>
    /\ InOrder(run[r].progress)
    /\ \A i \in Item : run[r].progress[i] = "failed" => i = run[r].item

PlanInv == TypeOK /\ ItemsOK /\ StoredInOrder /\ WorkedInOrder /\ StopsInOrder

LEMMA PlanInitOrder == Init => PlanInv
<1> SUFFICES ASSUME Init PROVE PlanInv
  OBVIOUS
<1>1. TypeOK /\ ItemsOK
  BY PlanInitType
<1>2. QED
  BY <1>1 DEF Init, PlanInv, StoredInOrder, WorkedInOrder, StopsInOrder, InOrder, NewRow, IdleRun,
              Fresh, Working

(* A new attempt leaves the items alone; a stop fails the current one. *)
LEMMA AttemptOrder ==
  ASSUME PlanInv, NEW r \in Run, run[r].pc \in Working, run[r].item \in Item,
         Attempt(r, 1) \/ AttemptFailed(r) \/ StopAt(r)
  PROVE  WorkedInOrder' /\ StopsInOrder'
<1>1. run \in [Run -> Execution]
  BY DEF PlanInv, TypeOK
<1>2. CASE \E n \in Nat : Attempt(r, n)
  <2>1. /\ \A q \in Run : run'[q].item = run[q].item /\ run'[q].progress = run[q].progress
        /\ \A q \in Run \ {r} : run'[q].pc = run[q].pc
        /\ run'[r].pc = "exec"
    BY <1>1, <1>2 DEF Attempt, Execution
  <2>2. QED
    BY <2>1 DEF PlanInv, WorkedInOrder, StopsInOrder, Working
<1>3. CASE StopAt(r)
  <2>1. /\ \A q \in Run \ {r} : run'[q] = run[q]
        /\ run'[r].pc = "stop" /\ run'[r].item = run[r].item
        /\ run'[r].progress = Stopped(run[r].progress, run[r].item)
    BY <1>1, <1>3 DEF StopAt, Execution
  <2>2. \A j \in Item : j < run[r].item => run[r].progress[j] = "done"
    BY DEF PlanInv, WorkedInOrder
  <2>3. /\ \A j \in Item : j < run[r].item => run'[r].progress[j] = "done"
        /\ \A j \in Item : j > run[r].item => run'[r].progress[j] = "skipped"
        /\ run'[r].progress[run[r].item] = "failed"
    BY <2>1, <2>2, PlanAssumption DEF Stopped, Item
  <2>4. InOrder(run'[r].progress)
    BY <2>3, PlanAssumption DEF InOrder, Item
  <2>5. \A i \in Item : run'[r].progress[i] = "failed" => i = run[r].item
    BY <2>3, PlanAssumption DEF Item
  <2>6. QED
    BY <2>1, <2>4, <2>5 DEF PlanInv, WorkedInOrder, StopsInOrder, Working
<1>4. QED
  <2>1. run[r].attempt + 1 \in Nat /\ 1 \in Nat
    BY <1>1 DEF Execution
  <2>2. QED
    BY <1>2, <1>3, <2>1 DEF AttemptFailed

(* A finished or stopped execution leaves a row that is in order. *)
LEMMA FinishedOrder ==
  ASSUME PlanInv, NEW r \in Run, NEW old \in Row, run[r].pc \in {"finish", "stop", "throw"},
         InOrder(old.progress),
         \A i \in Item : old.progress[i] = "failed" => old.failedItem = i
  PROVE  LET new == Finished(old, run[r]) IN
         /\ InOrder(new.progress)
         /\ \A i \in Item : new.progress[i] = "failed" => new.failedItem = i /\ new.status # "pending"
<1>1. run[r] \in Execution
  BY DEF PlanInv, TypeOK
<1>2. CASE run[r].pc = "finish"
  <2>1. \A i \in Item : run[r].progress[i] = "done"
    BY <1>2 DEF PlanInv, WorkedInOrder, AllDone
  <2>2. Finished(old, run[r]).progress = run[r].progress
    BY <1>2 DEF Finished, Row
  <2>3. \A i \in Item : \A j \in 1..(i - 1) : j \in Item
    BY PlanAssumption DEF Item
  <2>4. QED
    BY <2>1, <2>2, <2>3 DEF InOrder
<1>3. CASE run[r].pc = "stop"
  BY <1>3 DEF PlanInv, StopsInOrder, Finished
<1>4. CASE run[r].pc = "throw"
  BY <1>4 DEF Finished, Row
<1>5. QED
  BY <1>2, <1>3, <1>4

LEMMA PlanNextOrder == PlanInv /\ [Next]_vars => PlanInv'
<1> SUFFICES ASSUME PlanInv, [Next]_vars PROVE PlanInv'
  OBVIOUS
<1>a. TypeOK' /\ ItemsOK'
  BY PlanNextType DEF PlanInv
<1>b. run \in [Run -> Execution] /\ row \in [Task -> Row]
  BY DEF PlanInv, TypeOK
<1>c. InOrder(Fresh) /\ \A i \in Item : Fresh[i] = "skipped"
  BY DEF InOrder, Fresh
<1> SUFFICES StoredInOrder' /\ WorkedInOrder' /\ StopsInOrder'
  BY <1>a DEF PlanInv
<1>1. ASSUME NEW r \in Run, NEW t \in Task, Dispatch(r, t)
      PROVE  StoredInOrder' /\ WorkedInOrder' /\ StopsInOrder'
  <2>1. row[t].status = "pending" /\ row' = [row EXCEPT ![t].status = "active"]
    BY <1>1 DEF Dispatch
  <2>2. InOrder(row[t].progress) /\ \A i \in Item : row[t].progress[i] \in {"done", "skipped"}
    BY <1>b, <2>1 DEF PlanInv, StoredInOrder, Row, Progress
  <2>3. StoredInOrder'
    BY <1>b, <2>1, <2>2 DEF PlanInv, StoredInOrder, Row
  <2>4. PICK pc \in {"next", "throw"}, i \in 0..NItem :
          /\ IF AllDone(row[t].progress)
             THEN i = 0 /\ pc = "throw"
             ELSE i \in Item /\ IsFirstPending(row[t].progress, i)
          /\ run' = [run EXCEPT ![r] = [pc |-> pc, task |-> t, item |-> i, attempt |-> 0,
                                        progress |-> row[t].progress]]
    BY <1>1 DEF Dispatch
  <2>5. /\ \A q \in Run \ {r} : run'[q] = run[q]
        /\ run'[r].pc = pc /\ run'[r].item = i /\ run'[r].progress = row[t].progress
    BY <1>b, <2>4
  <2>6. pc = "next" => /\ \A j \in Item : j < i => row[t].progress[j] = "done"
                       /\ \A j \in Item : j >= i => row[t].progress[j] = "skipped"
    <3> SUFFICES ASSUME pc = "next"
                 PROVE  /\ \A j \in Item : j < i => row[t].progress[j] = "done"
                        /\ \A j \in Item : j >= i => row[t].progress[j] = "skipped"
      OBVIOUS
    <3>1. i \in Item /\ row[t].progress[i] # "done" /\ \A j \in 1..(i - 1) : row[t].progress[j] = "done"
      BY <2>4 DEF IsFirstPending
    <3>2. \A j \in Item : j > i => i \in 1..(j - 1)
      BY <3>1, PlanAssumption DEF Item
    <3>3. \A j \in Item : j < i => j \in 1..(i - 1)
      BY <3>1, PlanAssumption DEF Item
    <3>4. \A j \in Item : j >= i => j = i \/ j > i
      BY <3>1, PlanAssumption DEF Item
    <3>5. QED
      BY <2>2, <3>1, <3>2, <3>3, <3>4 DEF InOrder
  <2>7. WorkedInOrder' /\ StopsInOrder'
    BY <2>4, <2>5, <2>6 DEF PlanInv, WorkedInOrder, StopsInOrder, Working
  <2>8. QED
    BY <2>3, <2>7
<1>2. ASSUME NEW r \in Run, NextItem(r)
      PROVE  StoredInOrder' /\ WorkedInOrder' /\ StopsInOrder'
  <2>1. StoredInOrder'
    BY <1>2 DEF NextItem, PlanInv, StoredInOrder
  <2>2. CASE run[r].item \in Item /\ (Attempt(r, 1) \/ StopAt(r))
    BY <1>2, <2>1, <2>2, AttemptOrder DEF NextItem, Working
  <2>3. CASE run[r].item > NItem /\ run' = [run EXCEPT ![r].pc = "finish"]
    <3>1. run[r].item \in 1..(NItem + 1)
      BY <1>2 DEF NextItem, PlanInv, ItemsOK
    <3>2. \A j \in Item : j < run[r].item
      BY <2>3, <3>1, PlanAssumption DEF Item
    <3>3. AllDone(run[r].progress)
      BY <1>2, <3>2 DEF NextItem, PlanInv, WorkedInOrder, AllDone, Working
    <3>4. /\ \A q \in Run \ {r} : run'[q] = run[q]
          /\ run'[r].pc = "finish" /\ run'[r].progress = run[r].progress
      BY <1>b, <2>3 DEF Execution
    <3>5. QED
      BY <2>1, <3>3, <3>4 DEF PlanInv, WorkedInOrder, StopsInOrder, Working
  <2>4. QED
    BY <1>2, <2>2, <2>3 DEF NextItem
<1>3. ASSUME NEW r \in Run, AgentEnds(r) \/ Judge(r)
      PROVE  StoredInOrder' /\ WorkedInOrder' /\ StopsInOrder'
  <2>1. StoredInOrder'
    BY <1>3 DEF AgentEnds, Judge, PlanInv, StoredInOrder
  <2>2. run[r].pc \in Working /\ run[r].item \in Item
    BY <1>3 DEF AgentEnds, Judge, PlanInv, ItemsOK, Attempting, Working
  <2>3. CASE AttemptFailed(r)
    BY <2>1, <2>2, <2>3, AttemptOrder
  <2>4. CASE run' = [run EXCEPT ![r].pc = "verify"]
    BY <1>b, <2>1, <2>2, <2>4 DEF PlanInv, WorkedInOrder, StopsInOrder, Working, Execution
  <2>5. CASE run' = [run EXCEPT ![r].pc = "next", ![r].item = @ + 1,
                                ![r].progress[run[r].item] = "done"]
    <3>1. /\ \A q \in Run \ {r} : run'[q] = run[q]
          /\ run'[r].pc = "next" /\ run'[r].item = run[r].item + 1
          /\ run'[r].progress = [run[r].progress EXCEPT ![run[r].item] = "done"]
      BY <1>b, <2>5 DEF Execution
    <3>2. run[r].progress \in Progress
      BY <1>b DEF Execution
    <3>3. /\ \A j \in Item : j < run[r].item => run[r].progress[j] = "done"
          /\ \A j \in Item : j >= run[r].item => run[r].progress[j] = "skipped"
      BY <2>2 DEF PlanInv, WorkedInOrder
    <3>4. \A j \in Item : j < run[r].item + 1 => run'[r].progress[j] = "done"
      BY <2>2, <3>1, <3>2, <3>3, PlanAssumption DEF Progress, Item
    <3>5. \A j \in Item : j >= run[r].item + 1 => run'[r].progress[j] = "skipped"
      BY <2>2, <3>1, <3>2, <3>3, PlanAssumption DEF Progress, Item
    <3>6. /\ \A j \in Item : j < run'[r].item => run'[r].progress[j] = "done"
          /\ \A j \in Item : j >= run'[r].item => run'[r].progress[j] = "skipped"
      BY <3>1, <3>4, <3>5
    <3>7. WorkedInOrder'
      <4> SUFFICES ASSUME NEW q \in Run
                   PROVE  /\ run'[q].pc \in Working =>
                               /\ \A j \in Item : j < run'[q].item => run'[q].progress[j] = "done"
                               /\ \A j \in Item : j >= run'[q].item => run'[q].progress[j] = "skipped"
                          /\ run'[q].pc = "finish" => AllDone(run'[q].progress)
        BY DEF WorkedInOrder, AllDone
      <4>1. CASE q = r
        BY <3>1, <3>6, <4>1
      <4>2. CASE q # r
        BY <3>1, <4>2 DEF PlanInv, WorkedInOrder
      <4>3. QED
        BY <4>1, <4>2
    <3>8. StopsInOrder'
      BY <3>1 DEF PlanInv, StopsInOrder
    <3>9. QED
      BY <2>1, <3>7, <3>8
  <2>6. AgentEnds(r) => AttemptFailed(r) \/ run' = [run EXCEPT ![r].pc = "verify"]
    BY DEF AgentEnds
  <2>7. Judge(r) => \/ AttemptFailed(r)
                    \/ run' = [run EXCEPT ![r].pc = "next", ![r].item = @ + 1,
                                          ![r].progress[run[r].item] = "done"]
    BY DEF Judge
  <2>8. QED
    BY <1>3, <2>3, <2>4, <2>5, <2>6, <2>7
<1>4. ASSUME NEW r \in Run, WriteBack(r)
      PROVE  StoredInOrder' /\ WorkedInOrder' /\ StopsInOrder'
  <2>1. run[r].pc \in {"finish", "stop", "throw"} /\ run[r].task \in Task
    BY <1>4 DEF WriteBack, PlanInv, TypeOK, Execution
  <2>2. StoredInOrder'
    <3>1. CASE row' = row
      BY <3>1 DEF PlanInv, StoredInOrder
    <3>2. CASE row' = [row EXCEPT ![run[r].task] = Finished(row[run[r].task], run[r])]
      <4>1. /\ row[run[r].task] \in Row
            /\ InOrder(row[run[r].task].progress)
            /\ \A i \in Item : row[run[r].task].progress[i] = "failed" => row[run[r].task].failedItem = i
        BY <1>b, <2>1 DEF PlanInv, StoredInOrder
      <4>2. LET new == Finished(row[run[r].task], run[r]) IN
            /\ InOrder(new.progress)
            /\ \A i \in Item : new.progress[i] = "failed" => new.failedItem = i /\ new.status # "pending"
        BY <2>1, <4>1, FinishedOrder
      <4>3. /\ \A t \in Task \ {run[r].task} : row'[t] = row[t]
            /\ row'[run[r].task] = Finished(row[run[r].task], run[r])
        BY <1>b, <2>1, <3>2
      <4>4. QED
        BY <4>2, <4>3 DEF PlanInv, StoredInOrder
    <3>3. QED
      BY <1>4, <3>1, <3>2 DEF WriteBack
  <2>3. WorkedInOrder' /\ StopsInOrder'
    BY <1>4, <1>b DEF WriteBack, IdleRun, PlanInv, WorkedInOrder, StopsInOrder, Working
  <2>4. QED
    BY <2>2, <2>3
<1>5. ASSUME NEW r \in Run, CallTool(r)
      PROVE  StoredInOrder' /\ WorkedInOrder' /\ StopsInOrder'
  BY <1>5 DEF CallTool, PlanInv, StoredInOrder, WorkedInOrder, StopsInOrder
<1>6. ASSUME NEW r \in Run, BreakOff(r)
      PROVE  StoredInOrder' /\ WorkedInOrder' /\ StopsInOrder'
  BY <1>6, <1>b DEF BreakOff, PlanInv, StoredInOrder, WorkedInOrder, StopsInOrder, Working, Execution
<1>7. ASSUME NEW t \in Task, RowStep(t)
      PROVE  StoredInOrder' /\ WorkedInOrder' /\ StopsInOrder'
  <2>1. UNCHANGED run
    BY <1>7 DEF RowStep, Resume, Resubmit, ForceReset, Reap, ExternalFinish
  <2>2. WorkedInOrder' /\ StopsInOrder'
    BY <2>1 DEF PlanInv, WorkedInOrder, StopsInOrder
  <2>3. CASE Resume(t)
    <3>1. row' = [row EXCEPT ![t] = Resumed(row[t])]
      BY <2>3 DEF Resume
    <3>2. \A i \in Item : /\ row[t].progress[i] = "done" => Resumed(row[t]).progress[i] = "done"
                          /\ row[t].progress[i] # "done" => Resumed(row[t]).progress[i] = "skipped"
      BY <1>b DEF Resumed, Row, Progress
    <3>3. \A i \in Item : \A j \in 1..(i - 1) : j \in Item
      BY PlanAssumption DEF Item
    <3>4. InOrder(Resumed(row[t]).progress) /\ \A i \in Item : Resumed(row[t]).progress[i] # "failed"
      BY <3>2, <3>3 DEF PlanInv, StoredInOrder, InOrder
    <3>5. QED
      BY <1>b, <2>2, <3>1, <3>4 DEF PlanInv, StoredInOrder
  <2>4. CASE Resubmit(t) \/ ForceReset(t)
    <3>1. row' = [row EXCEPT ![t] = NewRow]
      BY <2>4 DEF Resubmit, ForceReset
    <3>2. NewRow.progress = Fresh
      BY DEF NewRow
    <3>3. /\ \A u \in Task \ {t} : row'[u] = row[u]
          /\ row'[t].progress = Fresh
      BY <1>b, <3>1, <3>2
    <3>4. QED
      BY <1>c, <2>2, <3>3 DEF PlanInv, StoredInOrder
  <2>5. CASE Reap(t) \/ ExternalFinish(t)
    <3>1. PICK status \in {"done", "failed"} : row' = [row EXCEPT ![t].status = status]
      BY <2>5 DEF Reap, ExternalFinish
    <3>2. QED
      BY <1>b, <2>2, <3>1 DEF PlanInv, StoredInOrder, Row
  <2>6. QED
    BY <1>7, <2>3, <2>4, <2>5 DEF RowStep
<1>8. ASSUME Crash
      PROVE  StoredInOrder' /\ WorkedInOrder' /\ StopsInOrder'
  <2>1. StoredInOrder'
    BY <1>8, <1>b DEF Crash, PlanInv, StoredInOrder, Row
  <2>2. QED
    BY <1>8, <2>1 DEF Crash, IdleRun, WorkedInOrder, StopsInOrder, Working
<1>9. CASE UNCHANGED vars
  BY <1>9 DEF vars, PlanInv, StoredInOrder, WorkedInOrder, StopsInOrder
<1>10. QED
  BY <1>1, <1>2, <1>3, <1>4, <1>5, <1>6, <1>7, <1>8, <1>9 DEF Next, RunStep

(* What the row stores is always in order: also when executions of the     *)
(* same task overlap and write one over the other, and after any number of *)
(* retries, resumes and crashes.                                           *)
THEOREM PlanStaysInOrder == Spec => []StoredInOrder
<1>1. PlanInv => StoredInOrder
  BY DEF PlanInv
<1>2. QED
  BY PlanInitOrder, PlanNextOrder, <1>1, PTL DEF Spec

(* An execution works on the first item that is not done, and reports the  *)
(* plan done only when all of it is.                                       *)
THEOREM NothingDoneTwice == Spec => []WorkedInOrder
<1>1. PlanInv => WorkedInOrder
  BY DEF PlanInv
<1>2. QED
  BY PlanInitOrder, PlanNextOrder, <1>1, PTL DEF Spec

-----------------------------------------------------------------------------
(* What is done stays done.                                                *)

(* A task that never had two executions at once has at most one, and that  *)
(* one has done whatever the row says is done.                             *)
Ahead ==
  \A t \in Task \ doubled :
    /\ \A r, q \in Runs(t) : r = q
    /\ \A r \in Runs(t), i \in Item : row[t].progress[i] = "done" => run[r].progress[i] = "done"

(* Within an execution, what is done stays done, and the row is left alone. *)
LEMMA ProgressGrows ==
  ASSUME PlanInv, NEW r \in Run,
         NextItem(r) \/ AgentEnds(r) \/ Judge(r) \/ CallTool(r) \/ BreakOff(r)
  PROVE  /\ UNCHANGED <<row, doubled>>
         /\ \A q \in Run : /\ run'[q].task = run[q].task
                           /\ \A i \in Item : run[q].progress[i] = "done" => run'[q].progress[i] = "done"
<1>1. UNCHANGED <<row, doubled>>
  BY DEF NextItem, AgentEnds, Judge, CallTool, BreakOff
<1>2. run \in [Run -> Execution]
  BY DEF PlanInv, TypeOK
<1>3. CASE \E n \in Nat : Attempt(r, n)
  BY <1>1, <1>2, <1>3 DEF Attempt, Execution
<1>4. CASE run[r].pc \in Working /\ StopAt(r)
  <2>1. /\ \A q \in Run \ {r} : run'[q] = run[q]
        /\ run'[r].task = run[r].task
        /\ run'[r].progress = Stopped(run[r].progress, run[r].item)
    BY <1>2, <1>4 DEF StopAt, Execution
  <2>2. \A i \in Item : i >= run[r].item => run[r].progress[i] = "skipped"
    BY <1>4 DEF PlanInv, WorkedInOrder
  <2>3. run[r].item \in Nat /\ \A i \in Item : i \in Nat
    BY <1>2, PlanAssumption DEF Execution, Item
  <2>4. \A i \in Item : run[r].progress[i] = "done" => i < run[r].item
    BY <2>2, <2>3
  <2>5. \A i \in Item : run[r].progress[i] = "done" => run'[r].progress[i] = "done"
    <3> SUFFICES ASSUME NEW i \in Item, run[r].progress[i] = "done"
                 PROVE  Stopped(run[r].progress, run[r].item)[i] = "done"
      BY <2>1
    <3>1. i < run[r].item
      BY <2>4
    <3> QED
      BY <2>3, <3>1 DEF Stopped
  <2> QED
    BY <1>1, <2>1, <2>5
<1>5. CASE \E pc \in {"finish", "verify", "throw"} : run' = [run EXCEPT ![r].pc = pc]
  BY <1>1, <1>2, <1>5 DEF Execution
<1>6. CASE run' = [run EXCEPT ![r].pc = "next", ![r].item = @ + 1,
                              ![r].progress[run[r].item] = "done"]
  <2>1. /\ \A q \in Run \ {r} : run'[q] = run[q]
        /\ run'[r].task = run[r].task
        /\ run'[r].progress = [run[r].progress EXCEPT ![run[r].item] = "done"]
    BY <1>2, <1>6 DEF Execution
  <2>2. run[r].progress \in Progress
    BY <1>2 DEF Execution
  <2>3. \A i \in Item : run[r].progress[i] = "done" => run'[r].progress[i] = "done"
    BY <2>1, <2>2 DEF Progress
  <2> QED
    BY <1>1, <2>1, <2>3
<1>7. CASE UNCHANGED run
  BY <1>1, <1>7
<1>8. run[r].attempt + 1 \in Nat
  BY <1>2 DEF Execution
<1>9. AttemptFailed(r) \/ Attempt(r, 1) => (\E n \in Nat : Attempt(r, n)) \/ StopAt(r)
  <2>1. Attempt(r, 1) => \E n \in Nat : Attempt(r, n)
    OBVIOUS
  <2>2. Attempt(r, run[r].attempt + 1) => \E n \in Nat : Attempt(r, n)
    BY <1>8
  <2> QED
    BY <2>1, <2>2 DEF AttemptFailed
<1>10. CASE NextItem(r)
  <2>1. \/ Attempt(r, 1) \/ StopAt(r)
        \/ \E pc \in {"finish", "verify", "throw"} : run' = [run EXCEPT ![r].pc = pc]
    BY <1>10 DEF NextItem
  <2>2. run[r].pc \in Working
    BY <1>10 DEF NextItem, Working
  <2> QED
    BY <1>3, <1>4, <1>5, <1>9, <2>1, <2>2
<1>11. CASE AgentEnds(r)
  <2>1. \/ AttemptFailed(r)
        \/ \E pc \in {"finish", "verify", "throw"} : run' = [run EXCEPT ![r].pc = pc]
    BY <1>11 DEF AgentEnds
  <2>2. run[r].pc \in Working
    BY <1>11 DEF AgentEnds, Working
  <2> QED
    BY <1>3, <1>4, <1>5, <1>9, <2>1, <2>2
<1>12. CASE Judge(r)
  BY <1>3, <1>4, <1>6, <1>9, <1>12 DEF Judge, Working
<1>13. CASE CallTool(r)
  BY <1>7, <1>13 DEF CallTool
<1>14. CASE BreakOff(r)
  BY <1>5, <1>14 DEF BreakOff
<1> QED
  BY <1>10, <1>11, <1>12, <1>13, <1>14

(* A result that is written keeps what the row of a task without overlap   *)
(* says is done.                                                           *)
LEMMA WriteBackKeeps ==
  ASSUME PlanInv, Ahead, NEW r \in Run, WriteBack(r), NEW t \in Task \ doubled, NEW i \in Item,
         row[t].progress[i] = "done"
  PROVE  row'[t].progress[i] = "done"
<1>1. run[r] \in Execution /\ row \in [Task -> Row]
  BY DEF PlanInv, TypeOK
<1>2. CASE row'[t] = row[t]
  BY <1>2
<1>3. CASE t = run[r].task /\ row'[t] = Finished(row[t], run[r])
  <2>1. run[r].progress[i] = "done"
    BY <1>3 DEF Ahead, Runs
  <2> QED
    BY <1>1, <1>3, <2>1 DEF WriteBack, Finished, Row
<1> QED
  BY <1>1, <1>2, <1>3 DEF WriteBack

(* Whatever else happens to the row keeps it, too, but for the operations  *)
(* that clear it.                                                          *)
LEMMA RowKeeps ==
  ASSUME PlanInv, Ahead, [Next]_vars, NEW t \in Task \ doubled, NEW i \in Item,
         row[t].progress[i] = "done"
  PROVE  Resubmit(t) \/ ForceReset(t) \/ row'[t].progress[i] = "done"
<1>1. row \in [Task -> Row]
  BY DEF PlanInv, TypeOK
<1>2. ASSUME NEW r \in Run, NextItem(r) \/ AgentEnds(r) \/ Judge(r) \/ CallTool(r) \/ BreakOff(r)
      PROVE  row'[t].progress[i] = "done"
  BY <1>2, ProgressGrows
<1>3. ASSUME NEW r \in Run, WriteBack(r) PROVE row'[t].progress[i] = "done"
  BY <1>3, WriteBackKeeps
<1>4. ASSUME NEW r \in Run, NEW u \in Task, Dispatch(r, u) PROVE row'[t].progress[i] = "done"
  BY <1>1, <1>4 DEF Dispatch, Row
<1>5. ASSUME NEW u \in Task, Resume(u) \/ Reap(u) \/ ExternalFinish(u)
      PROVE  row'[t].progress[i] = "done"
  BY <1>1, <1>5 DEF Resume, Resumed, Reap, ExternalFinish, Row
<1>6. ASSUME NEW u \in Task, u # t, Resubmit(u) \/ ForceReset(u) PROVE row'[t].progress[i] = "done"
  BY <1>1, <1>6 DEF Resubmit, ForceReset
<1>7. CASE Crash
  BY <1>1, <1>7 DEF Crash, Row
<1>8. CASE UNCHANGED vars
  BY <1>8 DEF vars
<1> QED
  BY <1>2, <1>3, <1>4, <1>5, <1>6, <1>7, <1>8 DEF Next, RunStep, RowStep

LEMMA AheadInit == Init => Ahead
<1> SUFFICES ASSUME Init PROVE Ahead
  OBVIOUS
<1>1. \A t \in Task : Runs(t) = {}
  BY PlanAssumption DEF Init, Runs, IdleRun
<1> QED
  BY <1>1 DEF Ahead

LEMMA AheadStep == PlanInv /\ Ahead /\ [Next]_vars => Ahead'
<1> SUFFICES ASSUME PlanInv, Ahead, [Next]_vars PROVE Ahead'
  OBVIOUS
<1>1. run \in [Run -> Execution] /\ row \in [Task -> Row]
  BY DEF PlanInv, TypeOK
<1>2. ASSUME NEW r \in Run, NextItem(r) \/ AgentEnds(r) \/ Judge(r) \/ CallTool(r) \/ BreakOff(r)
      PROVE  Ahead'
  <2>1. /\ UNCHANGED <<row, doubled>>
        /\ \A q \in Run : /\ run'[q].task = run[q].task
                          /\ \A i \in Item : run[q].progress[i] = "done" => run'[q].progress[i] = "done"
    BY <1>2, ProgressGrows
  <2> QED
    BY <2>1 DEF Ahead, Runs
<1>3. ASSUME NEW r \in Run, WriteBack(r) PROVE Ahead'
  <2>1. /\ run'[r].task = NoTask /\ \A q \in Run \ {r} : run'[q] = run[q]
        /\ \A t \in Task : t # run[r].task => row'[t] = row[t]
        /\ UNCHANGED doubled
    BY <1>1, <1>3 DEF WriteBack, IdleRun
  <2>2. \A t \in Task : \A q \in Run : run'[q].task = t => q # r /\ run[q].task = t /\ run'[q] = run[q]
    BY <2>1, PlanAssumption
  <2>3. ASSUME NEW t \in Task \ doubled, NEW q \in Run, run'[q].task = t
        PROVE  row'[t] = row[t]
    BY <2>1, <2>2, <2>3 DEF Ahead, Runs
  <2> QED
    BY <2>1, <2>2, <2>3 DEF Ahead, Runs
<1>4. ASSUME NEW r \in Run, NEW u \in Task, Dispatch(r, u) PROVE Ahead'
  <2>1. /\ run'[r].task = u /\ run'[r].progress = row[u].progress
        /\ \A q \in Run \ {r} : run'[q] = run[q]
        /\ \A t \in Task : row'[t].progress = row[t].progress
        /\ doubled' = IF Runs(u) = {} THEN doubled ELSE doubled \cup {u}
    BY <1>1, <1>4 DEF Dispatch, Row
  <2>2. ASSUME NEW t \in Task \ doubled', t # u
        PROVE  /\ \A q, s \in Run : run'[q].task = t /\ run'[s].task = t => q = s
               /\ \A q \in Run, i \in Item :
                    run'[q].task = t /\ row'[t].progress[i] = "done" => run'[q].progress[i] = "done"
    BY <2>1, <2>2 DEF Ahead, Runs
  <2>3. ASSUME NEW t \in Task \ doubled', t = u
        PROVE  /\ \A q \in Run : run'[q].task = t => q = r
               /\ \A i \in Item : row'[t].progress[i] = "done" => run'[r].progress[i] = "done"
    BY <2>1, <2>3 DEF Runs
  <2> QED
    BY <2>2, <2>3 DEF Ahead, Runs
<1>5. ASSUME NEW u \in Task, RowStep(u) PROVE Ahead'
  <2>1. UNCHANGED <<run, doubled>>
    BY <1>5 DEF RowStep, Resume, Resubmit, ForceReset, Reap, ExternalFinish
  <2>2. \A t \in Task, i \in Item : row'[t].progress[i] = "done" => row[t].progress[i] = "done"
    <3>1. CASE Resubmit(u) \/ ForceReset(u)
      BY <1>1, <3>1 DEF Resubmit, ForceReset, NewRow, Fresh
    <3>2. CASE Resume(u)
      BY <1>1, <3>2 DEF Resume, Resumed
    <3>3. CASE Reap(u) \/ ExternalFinish(u)
      BY <1>1, <3>3 DEF Reap, ExternalFinish, Row
    <3> QED
      BY <1>5, <3>1, <3>2, <3>3 DEF RowStep
  <2> QED
    BY <2>1, <2>2 DEF Ahead, Runs
<1>6. CASE Crash
  BY <1>6, PlanAssumption DEF Crash, IdleRun, Ahead, Runs
<1>7. CASE UNCHANGED vars
  BY <1>7 DEF vars, Ahead, Runs
<1> QED
  BY <1>2, <1>3, <1>4, <1>5, <1>6, <1>7 DEF Next, RunStep

(* Work that a row says is done is not lost by a retry, a resume, the      *)
(* watchdog, a foreign finish or a crash: only a new start clears it, or   *)
(* two executions of the task at once.                                     *)
THEOREM WorkIsNotLost == Spec => DoneIsKept
<1>1. Init => PlanInv /\ Ahead
  BY PlanInitOrder, AheadInit
<1>2. PlanInv /\ Ahead /\ [Next]_vars => (PlanInv /\ Ahead)'
  BY PlanNextOrder, AheadStep
<1>3. PlanInv /\ Ahead /\ [Next]_vars =>
        [\A t \in Task : Resubmit(t) \/ ForceReset(t) \/ t \in doubled \/
           \A i \in Item : row[t].progress[i] = "done" => row'[t].progress[i] = "done"]_vars
  BY RowKeeps
<1> QED
  BY <1>1, <1>2, <1>3, PTL DEF Spec, DoneIsKept

-----------------------------------------------------------------------------
(* With a bus of its own, a listener has noted the events of its own       *)
(* execution and no other.                                                 *)
HearsItself == execMode = "fork" => heard = own

LEMMA PlanInitHears == Init => HearsItself
  BY DEF Init, HearsItself

LEMMA PlanNextHears == TypeOK /\ HearsItself /\ [Next]_vars => HearsItself'
<1> SUFFICES ASSUME TypeOK, HearsItself, [Next]_vars PROVE HearsItself'
  OBVIOUS
<1>0. UNCHANGED execMode
  <2>1. ASSUME NEW r \in Run, RunStep(r) \/ CallTool(r) \/ BreakOff(r) PROVE UNCHANGED execMode
    BY <2>1 DEF RunStep, NextItem, AgentEnds, Judge, WriteBack, CallTool, BreakOff
  <2>2. ASSUME NEW r \in Run, NEW t \in Task, Dispatch(r, t) PROVE UNCHANGED execMode
    BY <2>2 DEF Dispatch
  <2>3. ASSUME NEW t \in Task, RowStep(t) PROVE UNCHANGED execMode
    BY <2>3 DEF RowStep, Resume, Resubmit, ForceReset, Reap, ExternalFinish
  <2>4. QED
    BY <2>1, <2>2, <2>3 DEF Next, Crash, vars
<1> SUFFICES ASSUME execMode = "fork" PROVE heard' = own'
  BY <1>0 DEF HearsItself
<1>a. heard = own /\ heard \in [Run -> Notes] /\ own \in [Run -> Notes]
  BY DEF HearsItself, TypeOK
<1>b. ASSUME NEW r \in Run, StopListening(r) PROVE heard' = own'
  BY <1>a, <1>b DEF StopListening
<1>1. ASSUME NEW r \in Run, CallTool(r) PROVE heard' = own'
  <2>1. \A s \in Run : Hears(s, r) <=> s = r
    BY <1>1, <1>a DEF CallTool, Hears, Attempting
  <2>2. CASE \E isError \in BOOLEAN :
               /\ heard' = [s \in Run |-> IF Hears(s, r) THEN AfterCheck(heard[s], isError) ELSE heard[s]]
               /\ own' = [own EXCEPT ![r] = AfterCheck(own[r], isError)]
    BY <1>a, <2>1, <2>2
  <2>3. CASE \E isError \in BOOLEAN, tool \in KeyTool :
               /\ heard' = [s \in Run |-> IF Hears(s, r) THEN AfterTool(heard[s], tool, isError) ELSE heard[s]]
               /\ own' = [own EXCEPT ![r] = AfterTool(own[r], tool, isError)]
    BY <1>a, <2>1, <2>3
  <2>4. QED
    BY <1>1, <2>2, <2>3 DEF CallTool
<1>2. ASSUME NEW r \in Run, RunStep(r) \/ BreakOff(r) PROVE heard' = own'
  <2>1. StopListening(r) \/ UNCHANGED <<heard, own>>
    BY <1>2 DEF RunStep, BreakOff, NextItem, AgentEnds, Judge, WriteBack, AttemptFailed, Attempt, StopAt
  <2>2. QED
    BY <1>a, <1>b, <2>1
<1>3. CASE Crash
  BY <1>3 DEF Crash
<1>4. CASE UNCHANGED <<heard, own>>
  BY <1>4, <1>a
<1>5. ASSUME NEW t \in Task, RowStep(t) \/ \E r \in Run : Dispatch(r, t) PROVE UNCHANGED <<heard, own>>
  BY <1>5 DEF RowStep, Resume, Resubmit, ForceReset, Reap, ExternalFinish, Dispatch
<1>6. QED
  BY <1>1, <1>2, <1>3, <1>4, <1>5 DEF Next, vars

(* Only the judgement of an attempt makes the executor go on to the next   *)
(* item, and only without an objection.                                    *)
LEMMA PassedIsEarned ==
  ASSUME TypeOK, HearsItself, [Next]_vars
  PROVE  \A r \in Run :
           execMode = "fork" /\ run[r].pc = "verify" /\ run'[r].pc = "next" => Earned(r)
<1> SUFFICES ASSUME NEW r \in Run, execMode = "fork", run[r].pc = "verify", run'[r].pc = "next"
             PROVE  Earned(r)
  OBVIOUS
<1>1. run \in [Run -> Execution]
  BY DEF TypeOK
<1>2. Judge(r) /\ ~Objection(r)
  <2>1. ASSUME NEW q \in Run, NEW t \in Task, Dispatch(q, t) PROVE run'[r] = run[r]
    BY <1>1, <2>1 DEF Dispatch
  <2>2. ASSUME NEW q \in Run, q # r, RunStep(q) \/ CallTool(q) \/ BreakOff(q) PROVE run'[r] = run[r]
    BY <1>1, <2>2 DEF RunStep, NextItem, AgentEnds, Judge, WriteBack, CallTool, BreakOff, AttemptFailed,
                      Attempt, StopAt
  <2>3. ~NextItem(r) /\ ~AgentEnds(r) /\ ~WriteBack(r)
    BY DEF NextItem, AgentEnds, WriteBack
  <2>4. CallTool(r) => UNCHANGED run
    BY DEF CallTool
  <2>5. BreakOff(r) => run'[r].pc = "throw"
    BY <1>1 DEF BreakOff, Execution
  <2>6. AttemptFailed(r) => run'[r].pc \in {"exec", "stop"}
    BY <1>1 DEF AttemptFailed, Attempt, StopAt, Execution
  <2>7. ASSUME NEW t \in Task, RowStep(t) PROVE UNCHANGED run
    BY <2>7 DEF RowStep, Resume, Resubmit, ForceReset, Reap, ExternalFinish
  <2>8. Crash => run'[r].pc = "idle"
    BY DEF Crash, IdleRun
  <2>9. Judge(r)
    BY <2>1, <2>2, <2>3, <2>4, <2>5, <2>7, <2>8 DEF Next, RunStep, vars
  <2>10. QED
    BY <2>6, <2>9 DEF Judge
<1>3. heard[r] = own[r]
  BY DEF HearsItself
<1>4. QED
  BY <1>2, <1>3 DEF Objection, Earned

(* With a process of its own, a plan gets an item done only on the         *)
(* evidence of its own attempt, whatever goes on in other executions.      *)
THEOREM EvidenceIsOwn == Spec => DoneIsEarned
<1>1. Init => TypeOK /\ ItemsOK /\ HearsItself
  BY PlanInitType, PlanInitHears
<1>2. TypeOK /\ ItemsOK /\ HearsItself /\ [Next]_vars => (TypeOK /\ ItemsOK /\ HearsItself)'
  BY PlanNextType, PlanNextHears
<1>3. TypeOK /\ HearsItself /\ [Next]_vars =>
        [\A r \in Run :
           execMode = "fork" /\ run[r].pc = "verify" /\ run'[r].pc = "next" => Earned(r)]_vars
  BY PassedIsEarned
<1>4. QED
  BY <1>1, <1>2, <1>3, PTL DEF Spec, DoneIsEarned

=============================================================================
