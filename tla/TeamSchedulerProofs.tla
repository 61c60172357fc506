------------------------ MODULE TeamSchedulerProofs ------------------------
(***************************************************************************)
(* Theorems about TeamScheduler, for every set of tasks, employees and     *)
(* execution slots and every dependency relation:                          *)
(*   - TypeCorrect: the type invariant of the whole specification;         *)
(*   - MarksSpeakOfThePast: the late-write marks and inFlight are disjoint *)
(*     in the whole specification;                                         *)
(*   - AllocationIsExact, NoDuplicateDispatch: as long as no execution is  *)
(*     given up (OpenSpec), employees, executions and inFlight agree;      *)
(*   - RowsMatchRuns: as long as only the scheduler works on the table     *)
(*     (CoreSpec), table and executions agree;                             *)
(*   - SchedulerImplementsBoard: CoreSpec refines TeamBoard.               *)
(***************************************************************************)
EXTENDS TeamScheduler, TLAPS

-----------------------------------------------------------------------------
(* The statements of the task store keep the table well formed.            *)

LEMMA PoolTypes ==
  ASSUME NEW p \in [Task -> Row], NEW t \in Task
  PROVE  /\ PublishTask(p, t) \in [Task -> Row]
         /\ \A e \in Employee : ClaimTask(p, t, e) \in [Task -> Row]
         /\ MarkTask(p, t) \in [Task -> Row]
         /\ \A ok \in BOOLEAN : FinishTask(p, t, ok) \in [Task -> Row]
         /\ ResetTask(p, t) \in [Task -> Row]
         /\ ResumeTask(p, t) \in [Task -> Row]
         /\ \A who \in Employee \cup {NoOne} : AssignTask(p, t, who) \in [Task -> Row]
<1>1. PublishTask(p, t) \in [Task -> Row]
  BY DEF PublishTask, Row, Status
<1>2. ASSUME NEW e \in Employee PROVE ClaimTask(p, t, e) \in [Task -> Row]
  BY DEF ClaimTask, Row, Status, Age
<1>3. MarkTask(p, t) \in [Task -> Row]
  BY DEF MarkTask, Row, Status
<1>4. ASSUME NEW ok \in BOOLEAN PROVE FinishTask(p, t, ok) \in [Task -> Row]
  BY DEF FinishTask, Row, Status
<1>5. ResetTask(p, t) \in [Task -> Row]
  BY DEF ResetTask, Row, Status, Age
<1>6. ResumeTask(p, t) \in [Task -> Row]
  <2> DEFINE who == IF p[t].claimedBy = NoOne THEN p[t].assignee ELSE p[t].claimedBy
  <2>1. p[t] \in Row /\ who \in Employee \cup {NoOne}
    BY DEF Row
  <2>2. [p[t] EXCEPT !.status = "pending", !.assignee = who] \in Row
    BY <2>1 DEF Row, Status
  <2> QED
    BY <2>2 DEF ResumeTask
<1>7. ASSUME NEW who \in Employee \cup {NoOne} PROVE AssignTask(p, t, who) \in [Task -> Row]
  BY DEF AssignTask, Row
<1> QED
  BY <1>1, <1>2, <1>3, <1>4, <1>5, <1>6, <1>7

LEMMA AddType ==
  ASSUME NEW p \in [Task -> Row], NEW t \in Task, NEW draft \in BOOLEAN,
         NEW who \in Employee \cup {NoOne}
  PROVE  AddTask(p, t, draft, who) \in [Task -> Row]
<1>1. ASSUME NEW u \in Task PROVE [p[u] EXCEPT !.older = @ \ {t}] \in Row
  BY DEF Row
<1>2. Existing(p) \ {t} \in SUBSET Task
  BY DEF Existing
<1>3. [status    |-> IF draft THEN "draft" ELSE "pending",
       claimedBy |-> NoOne,
       age       |-> "none",
       assignee  |-> who,
       older     |-> Existing(p) \ {t}] \in Row
  BY <1>2 DEF Row, Status, Age
<1> QED
  BY <1>1, <1>3 DEF AddTask

-----------------------------------------------------------------------------
(* Type correctness.                                                       *)

(* Two views of the part of TypeOK a step may change. *)
TickType(x) ==
  /\ x \in [pc   : {"idle", "scan", "claim", "mark", "launch", "undo"},
             todo : SUBSET Entry,
             task : Task \cup {NoTask},
             emp  : Employee \cup {NoOne}]
  /\ x.pc \in {"claim", "mark", "launch", "undo"} => x.task \in Task /\ x.emp \in Employee

RunType(x) ==
  /\ x \in [Run -> [pc    : {"idle", "exec", "finishOk", "finishBad", "release"},
                    task  : Task \cup {NoTask},
                    emp   : Employee \cup {NoOne},
                    stale : BOOLEAN]]
  /\ \A r \in Run : x[r].pc # "idle" => x[r].task \in Task /\ x[r].emp \in Employee

SweepType(x) ==
  /\ x \in [pc      : {"idle", "reap", "write", "release"},
             victims : SUBSET Victim,
             task    : Task \cup {NoTask},
             by      : Employee \cup {NoOne}]
  /\ x.pc \in {"write", "release"} => x.task \in Task

HttpType(x) ==
  /\ x \in [op   : {"none", "submit", "reset", "resetWrite"},
             task : Task \cup {NoTask},
             seen : Status,
             by   : Employee \cup {NoOne}]
  /\ x.op # "none" => x.task \in Task

LEMMA TypeParts ==
  TypeOK <=> /\ pool \in [Task -> Row]
             /\ free \subseteq Employee
             /\ inFlight \subseteq Task
             /\ reaped \subseteq Task
             /\ TickType(tick)
             /\ RunType(run)
             /\ SweepType(sweep)
             /\ HttpType(http)
             /\ phase \in {"up", "boot"}
BY DEF TypeOK, TickType, RunType, SweepType, HttpType, TickHolds, Live

LEMMA IdleTypes ==
  TickType(IdleTick) /\ RunType([r \in Run |-> IdleRun]) /\ SweepType(IdleSweep) /\ HttpType(IdleHttp)
<1>1. TickType(IdleTick)
  BY DEF TickType, IdleTick
<1>2. RunType([r \in Run |-> IdleRun])
  BY DEF RunType, IdleRun
<1>3. SweepType(IdleSweep) /\ HttpType(IdleHttp)
  BY DEF SweepType, IdleSweep, HttpType, IdleHttp, Status
<1> QED
  BY <1>1, <1>2, <1>3

LEMMA InitType == Init => TypeOK
<1> SUFFICES ASSUME Init PROVE TypeOK
  OBVIOUS
<1>1. pool \in [Task -> Row]
  BY DEF Init, NoRow, Row, Status, Age
<1> QED
  BY <1>1, IdleTypes, TypeParts DEF Init

LEMMA NextType == TypeOK /\ [Next]_vars => TypeOK'
<1> SUFFICES ASSUME TypeOK, [Next]_vars PROVE TypeOK'
  OBVIOUS
<1>1. /\ pool \in [Task -> Row]
      /\ free \subseteq Employee
      /\ inFlight \subseteq Task
      /\ reaped \subseteq Task
      /\ TickType(tick)
      /\ RunType(run)
      /\ SweepType(sweep)
      /\ HttpType(http)
      /\ phase \in {"up", "boot"}
  BY TypeParts
<1>2. TypeOK' <=> /\ pool' \in [Task -> Row]
                  /\ free' \subseteq Employee
                  /\ inFlight' \subseteq Task
                  /\ reaped' \subseteq Task
                  /\ TickType(tick')
                  /\ RunType(run')
                  /\ SweepType(sweep')
                  /\ HttpType(http')
                  /\ phase' \in {"up", "boot"}
  BY DEF TypeOK, TickType, RunType, SweepType, HttpType, TickHolds, Live
<1>3. ASSUME NEW r \in Run, Live(r) PROVE run[r].task \in Task /\ run[r].emp \in Employee
  BY <1>1, <1>3 DEF RunType, Live
<1>4. CASE TickStart
  <2> DEFINE entries == {[task |-> t, assignee |-> pool[t].assignee, older |-> pool[t].older] :
                           t \in {u \in Task : pool[u].status = "pending" /\ Ready(u)}}
  <2>1. \A t \in Task : [task |-> t, assignee |-> pool[t].assignee, older |-> pool[t].older] \in Entry
    BY <1>1 DEF Entry, Row
  <2>2. entries \in SUBSET Entry
    BY <2>1
  <2>3. TickType(tick')
    BY <1>1, <1>4, <2>2 DEF TickStart, TickType
  <2> QED
    BY <1>1, <1>2, <1>4, <2>3 DEF TickStart
<1>5. CASE TickAcquire
  <2>1. PICK x \in tick.todo : \E e \in Candidates(x) :
          /\ free' = free \ {e}
          /\ tick' = [pc   |-> "claim",
                      todo |-> {y \in tick.todo : y # x /\ y.task \notin x.older},
                      task |-> x.task,
                      emp  |-> e]
    BY <1>5 DEF TickAcquire
  <2> PICK e \in Candidates(x) :
          /\ free' = free \ {e}
          /\ tick' = [pc   |-> "claim",
                      todo |-> {y \in tick.todo : y # x /\ y.task \notin x.older},
                      task |-> x.task,
                      emp  |-> e]
    BY <2>1
  <2>2. x \in Entry
    BY <1>1 DEF TickType
  <2>3. e \in Employee
    BY <1>1 DEF Candidates
  <2>4. {y \in tick.todo : y # x /\ y.task \notin x.older} \in SUBSET Entry
    BY <1>1 DEF TickType
  <2>5. TickType(tick')
    BY <2>2, <2>3, <2>4 DEF TickType, Entry
  <2> QED
    BY <1>1, <1>2, <1>5, <2>5 DEF TickAcquire
<1>6. CASE TickEnd
  BY <1>1, <1>2, <1>6, IdleTypes DEF TickEnd
<1>7. CASE TickClaim
  <2>1. tick.task \in Task /\ tick.emp \in Employee
    BY <1>1, <1>7 DEF TickClaim, TickType
  <2>2. pool' \in [Task -> Row]
    BY <1>1, <1>7, <2>1, PoolTypes DEF TickClaim
  <2>3. TickType(tick')
    BY <1>1, <1>7, <2>1 DEF TickClaim, TickType
  <2> QED
    BY <1>1, <1>2, <1>7, <2>2, <2>3 DEF TickClaim
<1>8. CASE TickMark \/ TickThrows
  <2>1. tick.task \in Task /\ tick.emp \in Employee
    BY <1>1, <1>8 DEF TickMark, TickThrows, TickType
  <2>2. pool' \in [Task -> Row]
    BY <1>1, <1>8, <2>1, PoolTypes DEF TickMark, TickThrows
  <2>3. TickType(tick')
    BY <1>1, <1>8, <2>1 DEF TickMark, TickThrows, TickType
  <2> QED
    BY <1>1, <1>2, <1>8, <2>2, <2>3 DEF TickMark, TickThrows
<1>9. CASE TickUndo
  <2>1. tick.task \in Task /\ tick.emp \in Employee
    BY <1>1, <1>9 DEF TickUndo, TickType
  <2>2. TickType(tick')
    BY <1>1, <1>9 DEF TickUndo, TickType
  <2> QED
    BY <1>1, <1>2, <1>9, <2>1, <2>2 DEF TickUndo
<1>10. CASE TickLaunch
  <2>1. tick.task \in Task /\ tick.emp \in Employee
    BY <1>1, <1>10 DEF TickLaunch, TickType
  <2>2. TickType(tick')
    BY <1>1, <1>10 DEF TickLaunch, TickType
  <2>3. RunType(run')
    BY <1>1, <1>10, <2>1 DEF TickLaunch, RunType
  <2> QED
    BY <1>1, <1>2, <1>10, <2>1, <2>2, <2>3 DEF TickLaunch
<1>11. ASSUME NEW r \in Run, RunReturn(r) \/ RunFinish(r) \/ RunRelease(r) PROVE TypeOK'
  <2>1. run[r].task \in Task /\ run[r].emp \in Employee
    BY <1>3, <1>11 DEF RunReturn, RunFinish, RunRelease, Live
  <2>2. RunType([run EXCEPT ![r] = IdleRun])
    BY <1>1 DEF RunType, IdleRun
  <2>3. CASE RunReturn(r)
    <3>1. \A outcome \in {"finishOk", "finishBad"} : RunType([run EXCEPT ![r].pc = outcome])
      BY <1>1, <2>1 DEF RunType
    <3> QED
      BY <1>1, <1>2, <2>1, <2>2, <2>3, <3>1 DEF RunReturn
  <2>4. CASE RunFinish(r)
    <3>1. RunType([run EXCEPT ![r].pc = "release"])
      BY <1>1, <2>1 DEF RunType
    <3>2. FinishTask(pool, run[r].task, run[r].pc = "finishOk") \in [Task -> Row]
      <4>1. \A ok \in BOOLEAN : FinishTask(pool, run[r].task, ok) \in [Task -> Row]
        BY <1>1, <2>1, PoolTypes
      <4>2. (run[r].pc = "finishOk") \in BOOLEAN
        OBVIOUS
      <4> QED
        BY <4>1, <4>2
    <3> QED
      BY <1>1, <1>2, <2>4, <3>1, <3>2 DEF RunFinish
  <2>5. CASE RunRelease(r)
    BY <1>1, <1>2, <2>1, <2>2, <2>5 DEF RunRelease
  <2> QED
    BY <1>11, <2>3, <2>4, <2>5
<1>12. ASSUME NEW t \in Task,
              Publish(t) \/ Assign(t) \/ Resume(t) \/ ExternalClaim(t) \/ ExternalFinish(t)
       PROVE  TypeOK'
  <2>1. pool' \in [Task -> Row]
    BY <1>1, <1>12, PoolTypes, SchedulerAssumption
       DEF Publish, Assign, Resume, ExternalClaim, ExternalFinish
  <2> QED
    BY <1>1, <1>2, <1>12, <2>1 DEF Publish, Assign, Resume, ExternalClaim, ExternalFinish
<1>13. ASSUME NEW t \in Task, SubmitRead(t) \/ ResetRead(t) PROVE TypeOK'
  <2>1. pool[t].status \in Status /\ pool[t].claimedBy \in Employee \cup {NoOne}
    BY <1>1 DEF Row
  <2>2. HttpType(http')
    BY <1>13, <2>1 DEF SubmitRead, ResetRead, HttpType
  <2> QED
    BY <1>1, <1>2, <1>13, <2>2 DEF SubmitRead, ResetRead
<1>14. CASE SubmitWrite
  <2>1. http.task \in Task
    BY <1>1, <1>14 DEF SubmitWrite, HttpType
  <2> DEFINE draft == http.seen \notin {"done", "failed"}
  <2>2. \A who \in Nameable \cup {NoOne} : AddTask(pool, http.task, draft, who) \in [Task -> Row]
    <3>1. draft \in BOOLEAN
      OBVIOUS
    <3> HIDE DEF draft
    <3> QED
      BY <1>1, <2>1, <3>1, AddType, SchedulerAssumption
  <2>3. pool' \in [Task -> Row]
    BY <1>14, <2>2 DEF SubmitWrite
  <2> QED
    BY <1>1, <1>2, <1>14, <2>3, IdleTypes DEF SubmitWrite
<1>15. ASSUME NEW t \in Task PROVE RunType(MarkStale(t))
  BY <1>1 DEF RunType, MarkStale, Live
<1>16. CASE ResetAbandon
  <2>1. http.task \in Task /\ http.by \in Employee \cup {NoOne}
    BY <1>1, <1>16 DEF ResetAbandon, HttpType
  <2>2. HttpType(http')
    BY <1>1, <1>16, <2>1 DEF ResetAbandon, HttpType
  <2>3. Released(http.by) \subseteq Employee
    BY <1>1, <2>1 DEF Released
  <2> QED
    BY <1>1, <1>2, <1>15, <1>16, <2>1, <2>2, <2>3 DEF ResetAbandon
<1>17. CASE ResetWrite
  <2>1. http.task \in Task
    BY <1>1, <1>17 DEF ResetWrite, HttpType
  <2>2. pool' \in [Task -> Row]
    BY <1>1, <1>17, <2>1, PoolTypes DEF ResetWrite
  <2> QED
    BY <1>1, <1>2, <1>17, <2>2, IdleTypes DEF ResetWrite
<1>18. ASSUME NEW t \in Task, Elapse(t) PROVE TypeOK'
  <2>1. pool' \in [Task -> Row]
    BY <1>1, <1>18 DEF Elapse, Row, Age
  <2> QED
    BY <1>1, <1>2, <1>18, <2>1 DEF Elapse
<1>19. CASE SweepStart
  <2>1. PICK waiting \in SUBSET Task :
          sweep' = [sweep EXCEPT
            !.pc = "reap",
            !.victims = {[task |-> t, by |-> pool[t].claimedBy] :
                           t \in {u \in Task : /\ pool[u].status \in Active
                                               /\ \/ pool[u].age = "overdue"
                                                  \/ pool[u].age = "late" /\ u \notin waiting}}]
    BY <1>19 DEF SweepStart
  <2>2. \A t \in Task : [task |-> t, by |-> pool[t].claimedBy] \in Victim
    BY <1>1 DEF Victim, Row
  <2>3. SweepType(sweep')
    BY <1>1, <2>1, <2>2 DEF SweepType
  <2> QED
    BY <1>1, <1>2, <1>19, <2>3 DEF SweepStart
<1>20. CASE SweepReap
  <2>1. PICK v \in sweep.victims :
          /\ sweep' = [pc |-> "write", victims |-> sweep.victims \ {v}, task |-> v.task, by |-> v.by]
          /\ reaped' = reaped \cup {v.task}
          /\ inFlight' = inFlight \ {v.task}
          /\ run' = MarkStale(v.task)
    BY <1>20 DEF SweepReap
  <2>2. v \in Victim /\ sweep.victims \ {v} \in SUBSET Victim
    BY <1>1 DEF SweepType
  <2>3. v.task \in Task /\ v.by \in Employee \cup {NoOne}
    BY <2>2 DEF Victim
  <2>4. SweepType(sweep')
    BY <2>1, <2>2, <2>3 DEF SweepType
  <2> QED
    BY <1>1, <1>2, <1>15, <1>20, <2>1, <2>3, <2>4 DEF SweepReap
<1>21. CASE SweepWrite \/ SweepWriteFails
  <2>1. sweep.task \in Task
    BY <1>1, <1>21 DEF SweepWrite, SweepWriteFails, SweepType
  <2>2. pool' \in [Task -> Row]
    <3>1. FinishTask(pool, sweep.task, FALSE) \in [Task -> Row]
      BY <1>1, <2>1, PoolTypes
    <3> QED
      BY <1>1, <1>21, <3>1 DEF SweepWrite, SweepWriteFails
  <2>3. SweepType(sweep')
    BY <1>1, <1>21, <2>1 DEF SweepWrite, SweepWriteFails, SweepType
  <2> QED
    BY <1>1, <1>2, <1>21, <2>2, <2>3 DEF SweepWrite, SweepWriteFails
<1>22. CASE SweepRelease
  <2>1. Released(sweep.by) \subseteq Employee
    BY <1>1 DEF Released, SweepType
  <2>2. SweepType(sweep')
    BY <1>1, <1>22 DEF SweepRelease, SweepType
  <2> QED
    BY <1>1, <1>2, <1>22, <2>1, <2>2 DEF SweepRelease
<1>23. CASE SweepEnd
  BY <1>1, <1>2, <1>23, IdleTypes DEF SweepEnd
<1>24. CASE Crash
  BY <1>1, <1>2, <1>24, IdleTypes DEF Crash
<1>25. ASSUME NEW t \in Task, BootOrphan(t) PROVE TypeOK'
  <2>1. pool' \in [Task -> Row]
    BY <1>1, <1>25, PoolTypes DEF BootOrphan
  <2> QED
    BY <1>1, <1>2, <1>25, <2>1 DEF BootOrphan
<1>26. CASE BootDone \/ BootThrows
  BY <1>1, <1>2, <1>26 DEF BootDone, BootThrows
<1>27. CASE UNCHANGED vars
  BY <1>1, <1>2, <1>27 DEF vars
<1> QED
  BY <1>4, <1>5, <1>6, <1>7, <1>8, <1>9, <1>10, <1>11, <1>12, <1>13, <1>14, <1>16, <1>17, <1>18,
     <1>19, <1>20, <1>21, <1>22, <1>23, <1>24, <1>25, <1>26, <1>27
     DEF Next, OpenNext, CoreNext, TickStep, RunStep, BootStep, WatchStep, SweepStep, ResetStep,
         FirstSubmit, Resubmit

(* The type invariant holds in every state of the whole specification. *)
THEOREM TypeCorrect == Spec => []TypeOK
<1>1. Init => TypeOK
  BY InitType
<1>2. TypeOK /\ [Next]_vars => TypeOK'
  BY NextType
<1> QED
  BY <1>1, <1>2, PTL DEF Spec

-----------------------------------------------------------------------------
(* Marks and inFlight, in the whole specification.                         *)

(* A late-write mark is about an execution of the past: the task it names  *)
(* is not in flight.  MarkedNotInFlight is inductive as it stands.         *)
THEOREM MarksSpeakOfThePast == Spec => []MarkedNotInFlight
<1>1. Init => MarkedNotInFlight
  BY DEF Init, MarkedNotInFlight
<1>2. MarkedNotInFlight /\ [Next]_vars => MarkedNotInFlight'
  <2> SUFFICES ASSUME MarkedNotInFlight, [Next]_vars PROVE MarkedNotInFlight'
    OBVIOUS
  <2> USE DEF MarkedNotInFlight
  <2>1. CASE TickStart \/ TickAcquire \/ TickEnd \/ TickClaim \/ TickMark \/ TickThrows \/ TickUndo
    BY <2>1 DEF TickStart, TickAcquire, TickEnd, TickClaim, TickMark, TickThrows, TickUndo
  <2>2. CASE TickLaunch
    BY <2>2 DEF TickLaunch
  <2>3. ASSUME NEW r \in Run, RunReturn(r) \/ RunFinish(r) \/ RunRelease(r) PROVE MarkedNotInFlight'
    BY <2>3 DEF RunReturn, RunFinish, RunRelease
  <2>4. ASSUME NEW t \in Task,
               Publish(t) \/ Assign(t) \/ Resume(t) \/ ExternalClaim(t) \/ ExternalFinish(t)
               \/ SubmitRead(t) \/ ResetRead(t) \/ Elapse(t) \/ BootOrphan(t)
        PROVE  MarkedNotInFlight'
    BY <2>4 DEF Publish, Assign, Resume, ExternalClaim, ExternalFinish, SubmitRead, ResetRead,
                Elapse, BootOrphan
  <2>5. CASE SubmitWrite \/ ResetWrite \/ BootDone \/ BootThrows \/ UNCHANGED vars
    BY <2>5 DEF SubmitWrite, ResetWrite, BootDone, BootThrows, vars
  <2>6. CASE ResetAbandon \/ SweepReap
    BY <2>6 DEF ResetAbandon, SweepReap
  <2>7. CASE SweepStart \/ SweepWrite \/ SweepWriteFails \/ SweepRelease \/ SweepEnd
    BY <2>7 DEF SweepStart, SweepWrite, SweepWriteFails, SweepRelease, SweepEnd
  <2>8. CASE Crash
    BY <2>8 DEF Crash
  <2> QED
    BY <2>1, <2>2, <2>3, <2>4, <2>5, <2>6, <2>7, <2>8
       DEF Next, OpenNext, CoreNext, TickStep, RunStep, BootStep, WatchStep, SweepStep, ResetStep,
           FirstSubmit, Resubmit
<1> QED
  BY <1>1, <1>2, PTL DEF Spec

-----------------------------------------------------------------------------
(* The allocation, as long as no execution is given up.                    *)

Allocation == EmployeeExclusive /\ NoEmployeeLeak /\ InFlightExact

(* What makes the allocation inductive: an execution that returns is not   *)
(* taken for one that was given up, because no task is marked.             *)
OpenInv ==
  /\ TypeOK
  /\ Allocation
  /\ reaped = {}

LEMMA OpenInit == Init => OpenInv
<1> SUFFICES ASSUME Init PROVE OpenInv
  OBVIOUS
<1>1. ~TickHolds /\ \A r \in Run : ~Live(r)
  BY DEF Init, TickHolds, Live, IdleTick, IdleRun
<1>2. Allocation
  BY <1>1 DEF Init, Allocation, EmployeeExclusive, NoEmployeeLeak, InFlightExact
<1> QED
  BY <1>2, InitType DEF Init, OpenInv

LEMMA OpenStep == OpenInv /\ [OpenNext]_vars => OpenInv'
<1> SUFFICES ASSUME OpenInv, [OpenNext]_vars PROVE OpenInv'
  OBVIOUS
<1>1. TypeOK'
  BY NextType DEF OpenInv, Next
<1>2. /\ Allocation
      /\ reaped = {}
      /\ free \subseteq Employee
      /\ \A r \in Run : Live(r) => run[r].task \in Task /\ run[r].emp \in Employee
      /\ run = [r \in Run |-> run[r]]
      /\ TickHolds => tick.task \in Task /\ tick.emp \in Employee
  BY DEF OpenInv, TypeOK
<1>3. ASSUME UNCHANGED <<free, inFlight, reaped, tick, run>> PROVE OpenInv'
  BY <1>1, <1>2, <1>3
     DEF OpenInv, Allocation, EmployeeExclusive, NoEmployeeLeak, InFlightExact, TickHolds, Live
<1>4. CASE TickAcquire
  <2>1. PICK x \in tick.todo : x.task \notin inFlight /\ \E e \in Candidates(x) :
          /\ free' = free \ {e}
          /\ tick'.pc = "claim" /\ tick'.task = x.task /\ tick'.emp = e
    BY <1>4 DEF TickAcquire, Dispatchable
  <2>2. PICK e \in Candidates(x) :
          /\ free' = free \ {e}
          /\ tick'.pc = "claim" /\ tick'.task = x.task /\ tick'.emp = e
    BY <2>1
  <2>3. e \in free
    BY DEF Candidates
  <2>4. ~TickHolds /\ TickHolds' /\ UNCHANGED <<inFlight, reaped, run>>
    BY <1>4, <2>2 DEF TickAcquire, TickHolds
  <2>5. EmployeeExclusive'
    BY <1>2, <2>2, <2>3, <2>4 DEF Allocation, EmployeeExclusive, Live
  <2>6. NoEmployeeLeak'
    BY <1>2, <2>2, <2>4 DEF Allocation, NoEmployeeLeak, Live
  <2>7. InFlightExact'
    BY <1>2, <2>1, <2>2, <2>4 DEF Allocation, InFlightExact, Live
  <2> QED
    BY <1>1, <1>2, <2>4, <2>5, <2>6, <2>7 DEF OpenInv, Allocation
<1>5. CASE TickStart \/ TickEnd
  <2>1. ~TickHolds /\ ~TickHolds' /\ UNCHANGED <<free, inFlight, reaped, run>>
    <3>1. CASE TickStart
      <4>1. tick.pc = "idle" /\ tick'.pc = "scan"
        BY <3>1 DEF TickStart, OpenInv, TypeOK
      <4> QED
        BY <3>1, <4>1 DEF TickStart, TickHolds
    <3>2. CASE TickEnd
      BY <3>2 DEF TickEnd, TickHolds, IdleTick
    <3> QED
      BY <1>5, <3>1, <3>2
  <2> QED
    BY <1>1, <1>2, <2>1
       DEF OpenInv, Allocation, EmployeeExclusive, NoEmployeeLeak, InFlightExact, Live
<1>6. CASE TickClaim \/ TickMark \/ TickThrows
  <2>1. /\ TickHolds /\ TickHolds' /\ UNCHANGED <<free, inFlight, reaped, run>>
        /\ tick'.task = tick.task /\ tick'.emp = tick.emp
    BY <1>6 DEF TickClaim, TickMark, TickThrows, TickHolds, OpenInv, TypeOK
  <2> QED
    BY <1>1, <1>2, <2>1
       DEF OpenInv, Allocation, EmployeeExclusive, NoEmployeeLeak, InFlightExact, Live
<1>7. CASE TickUndo
  <2>1. /\ TickHolds /\ ~TickHolds' /\ UNCHANGED <<inFlight, reaped, run>>
        /\ free' = free \cup {tick.emp}
    BY <1>7 DEF TickUndo, TickHolds, OpenInv, TypeOK
  <2> QED
    BY <1>1, <1>2, <2>1
       DEF OpenInv, Allocation, EmployeeExclusive, NoEmployeeLeak, InFlightExact, Live
<1>8. CASE TickLaunch
  <2>1. PICK s \in Run :
          /\ ~Live(s)
          /\ run' = [run EXCEPT ![s] = [pc |-> "exec", task |-> tick.task,
                                        emp |-> tick.emp, stale |-> FALSE]]
    BY <1>8 DEF TickLaunch
  <2>2. /\ TickHolds /\ ~TickHolds' /\ UNCHANGED free
        /\ inFlight' = inFlight \cup {tick.task}
        /\ reaped' = {}
    BY <1>2, <1>8 DEF TickLaunch, TickHolds, OpenInv, TypeOK
  <2>3. /\ Live(s)' /\ run'[s].task = tick.task /\ run'[s].emp = tick.emp
        /\ \A r \in Run \ {s} : run'[r] = run[r]
    BY <1>2, <2>1 DEF Live
  <2>4. EmployeeExclusive'
    BY <1>2, <2>2, <2>3 DEF Allocation, EmployeeExclusive, Live
  <2>5. NoEmployeeLeak'
    BY <1>2, <2>1, <2>2, <2>3 DEF Allocation, NoEmployeeLeak, Live
  <2>6. InFlightExact'
    BY <1>2, <2>1, <2>2, <2>3 DEF Allocation, InFlightExact, Live
  <2> QED
    BY <1>1, <2>2, <2>4, <2>5, <2>6 DEF OpenInv, Allocation
<1>9. ASSUME NEW s \in Run, RunReturn(s) \/ RunFinish(s) PROVE OpenInv'
  <2>1. /\ Live(s) /\ Live(s)' /\ UNCHANGED <<free, inFlight, reaped, tick>>
        /\ run'[s].task = run[s].task /\ run'[s].emp = run[s].emp
        /\ \A r \in Run \ {s} : run'[r] = run[r]
    BY <1>2, <1>9 DEF RunReturn, RunFinish, Live, OpenInv, TypeOK
  <2>2. \A r \in Run : /\ Live(r)' <=> Live(r)
                       /\ run'[r].task = run[r].task /\ run'[r].emp = run[r].emp
    BY <2>1 DEF Live
  <2>3. EmployeeExclusive' /\ NoEmployeeLeak'
    BY <1>2, <2>1, <2>2 DEF Allocation, EmployeeExclusive, NoEmployeeLeak, TickHolds
  <2>4. {run'[r].task : r \in {q \in Run : Live(q)'}} = {run[r].task : r \in {q \in Run : Live(q)}}
    BY <2>2
  <2>5. InFlightExact'
    BY <1>2, <2>1, <2>2, <2>4 DEF Allocation, InFlightExact, TickHolds
  <2> QED
    BY <1>1, <1>2, <2>1, <2>3, <2>5 DEF OpenInv, Allocation
<1>10. ASSUME NEW s \in Run, RunRelease(s) PROVE OpenInv'
  <2>1. /\ Live(s) /\ ~Live(s)' /\ UNCHANGED <<reaped, tick>>
        /\ free' = free \cup {run[s].emp}
        /\ inFlight' = inFlight \ {run[s].task}
        /\ \A r \in Run \ {s} : run'[r] = run[r]
    BY <1>2, <1>10 DEF RunRelease, Live, IdleRun, OpenInv, TypeOK
  <2>2. EmployeeExclusive'
    BY <1>2, <2>1 DEF Allocation, EmployeeExclusive, Live, TickHolds
  <2>3. NoEmployeeLeak'
    BY <1>2, <2>1 DEF Allocation, NoEmployeeLeak, Live, TickHolds
  <2>4. InFlightExact'
    BY <1>2, <2>1 DEF Allocation, InFlightExact, Live, TickHolds
  <2> QED
    BY <1>1, <1>2, <2>1, <2>2, <2>3, <2>4 DEF OpenInv, Allocation
<1>11. CASE Crash
  <2>1. /\ ~TickHolds' /\ \A r \in Run : ~Live(r)'
        /\ free' = Employee /\ inFlight' = {} /\ reaped' = {}
    BY <1>11 DEF Crash, TickHolds, Live, IdleTick, IdleRun
  <2> QED
    BY <1>1, <2>1 DEF OpenInv, Allocation, EmployeeExclusive, NoEmployeeLeak, InFlightExact
<1>12. ASSUME NEW t \in Task,
              \/ Publish(t) \/ Assign(t) \/ Resume(t) \/ ExternalClaim(t) \/ ExternalFinish(t)
              \/ SubmitRead(t) \/ BootOrphan(t)
       PROVE  OpenInv'
  BY <1>3, <1>12
     DEF Publish, Assign, Resume, ExternalClaim, ExternalFinish, SubmitRead, BootOrphan
<1>13. CASE SubmitWrite \/ BootDone \/ BootThrows \/ UNCHANGED vars
  BY <1>3, <1>13 DEF SubmitWrite, BootDone, BootThrows, vars
<1> QED
  BY <1>4, <1>5, <1>6, <1>7, <1>8, <1>9, <1>10, <1>11, <1>12, <1>13
     DEF OpenNext, CoreNext, TickStep, RunStep, BootStep, FirstSubmit, Resubmit

(* As long as no execution is given up: nobody executes two tasks, and     *)
(* nobody is lost to a claim or a statement that failed (tick, runOne).    *)
THEOREM AllocationIsExact == OpenSpec => []EmployeesAccounted
<1>1. OpenInv => EmployeesAccounted
  BY DEF OpenInv, Allocation, EmployeesAccounted
<1> QED
  BY <1>1, OpenInit, OpenStep, PTL DEF OpenSpec

(* As long as no execution is given up: inFlight is exactly the tasks that *)
(* are executed, each once, also when rows are resubmitted, claimed or     *)
(* finished from outside meanwhile (tick, runOne).                         *)
THEOREM NoDuplicateDispatch == OpenSpec => []InFlightExact
<1>1. OpenInv => InFlightExact
  BY DEF OpenInv, Allocation
<1> QED
  BY <1>1, OpenInit, OpenStep, PTL DEF OpenSpec

-----------------------------------------------------------------------------
(* The table and the executions, as long as only the scheduler works on    *)
(* the table: no resubmission, nothing given up, no external executor.     *)

(* What the statements of the task store do to status and claimed_by, row  *)
(* by row.                                                                 *)
LEMMA ClaimFields ==
  ASSUME NEW p \in [Task -> Row], NEW t \in Task, NEW e \in Employee
  PROVE  \A u \in Task :
           /\ ClaimTask(p, t, e)[u].status = IF u = t THEN "claimed" ELSE p[u].status
           /\ ClaimTask(p, t, e)[u].claimedBy = IF u = t THEN e ELSE p[u].claimedBy
BY DEF ClaimTask, Row

LEMMA MarkFields ==
  ASSUME NEW p \in [Task -> Row], NEW t \in Task
  PROVE  \A u \in Task :
           /\ MarkTask(p, t)[u].status = IF u = t THEN "running" ELSE p[u].status
           /\ MarkTask(p, t)[u].claimedBy = p[u].claimedBy
BY DEF MarkTask, Row

LEMMA FinishFields ==
  ASSUME NEW p \in [Task -> Row], NEW t \in Task
  PROVE  \A ok \in BOOLEAN, u \in Task :
           /\ FinishTask(p, t, ok)[u].status =
                IF u = t THEN IF ok THEN "done" ELSE "failed" ELSE p[u].status
           /\ FinishTask(p, t, ok)[u].claimedBy = p[u].claimedBy
BY DEF FinishTask, Row

LEMMA PublishFields ==
  ASSUME NEW p \in [Task -> Row], NEW t \in Task
  PROVE  \A u \in Task :
           /\ PublishTask(p, t)[u].status = IF u = t THEN "pending" ELSE p[u].status
           /\ PublishTask(p, t)[u].claimedBy = p[u].claimedBy
BY DEF PublishTask, Row

LEMMA AssignFields ==
  ASSUME NEW p \in [Task -> Row], NEW t \in Task, NEW who
  PROVE  \A u \in Task :
           /\ AssignTask(p, t, who)[u].status = p[u].status
           /\ AssignTask(p, t, who)[u].claimedBy = p[u].claimedBy
BY DEF AssignTask, Row

LEMMA ResumeFields ==
  ASSUME NEW p \in [Task -> Row], NEW t \in Task
  PROVE  \A u \in Task :
           /\ ResumeTask(p, t)[u].status = IF u = t THEN "pending" ELSE p[u].status
           /\ ResumeTask(p, t)[u].claimedBy = p[u].claimedBy
<1> DEFINE who == IF p[t].claimedBy = NoOne THEN p[t].assignee ELSE p[t].claimedBy
           row == [p[t] EXCEPT !.status = "pending", !.assignee = who]
<1>1. p[t] \in Row
  OBVIOUS
<1>2. row.status = "pending" /\ row.claimedBy = p[t].claimedBy
  BY <1>1 DEF Row
<1>3. ResumeTask(p, t) = [p EXCEPT ![t] = row]
  BY DEF ResumeTask
<1> HIDE DEF row
<1> QED
  BY <1>2, <1>3

LEMMA AddFields ==
  ASSUME NEW p \in [Task -> Row], NEW t \in Task, NEW draft, NEW who
  PROVE  \A u \in Task :
           /\ AddTask(p, t, draft, who)[u].status =
                IF u = t THEN IF draft THEN "draft" ELSE "pending" ELSE p[u].status
           /\ AddTask(p, t, draft, who)[u].claimedBy = IF u = t THEN NoOne ELSE p[u].claimedBy
BY DEF AddTask, Row

(* The row of a task knows how far its execution is: claimed when the tick *)
(* has claimed it, running from markRunning until the result is written,   *)
(* and not active any more while the employee is being released.           *)
RowsAgree ==
  /\ RowMatchesRun
  /\ \A r \in Run : run[r].pc = "release" => pool[run[r].task].status \notin Active
  /\ tick.pc = "mark" =>
       pool[tick.task].status = "claimed" /\ pool[tick.task].claimedBy = tick.emp
  /\ tick.pc = "launch" =>
       pool[tick.task].status = "running" /\ pool[tick.task].claimedBy = tick.emp

(* What the snapshot of a tick saw done is still done.                     *)
StillReady ==
  /\ \A x \in tick.todo : Ready(x.task)
  /\ \A t \in Task : tick.pc = "claim" /\ tick.task = t => Ready(t)

(* The only request under way creates a task nobody has created meanwhile. *)
CreatesOnce ==
  http.op # "none" => http.op = "submit" /\ http.seen = "absent" /\ pool[http.task].status = "absent"

(* Nothing runs before the orphan scan is over.                            *)
BootIsQuiet ==
  phase = "boot" => tick = IdleTick /\ http = IdleHttp /\ \A r \in Run : ~Live(r)

CoreInv == OpenInv /\ RowsAgree /\ StillReady /\ CreatesOnce /\ BootIsQuiet


LEMMA CoreInit == Init => CoreInv
<1> SUFFICES ASSUME Init PROVE CoreInv
  OBVIOUS
<1>1. RowsAgree /\ StillReady /\ CreatesOnce /\ BootIsQuiet
  BY DEF Init, IdleTick, IdleRun, IdleHttp, RowsAgree, RowMatchesRun, StillReady, CreatesOnce, BootIsQuiet
<1> QED
  BY <1>1, OpenInit DEF CoreInv

(* Tasks that are ready stay so while nothing that is done is undone.      *)
LEMMA ReadyStays ==
  ASSUME TypeOK, \A t \in Task : pool[t].status = "done" => pool'[t].status = "done"
  PROVE  \A t \in Task : Ready(t) => Ready(t)'
BY SchedulerAssumption DEF Ready

LEMMA CoreStep == CoreInv /\ [CoreNext]_vars => CoreInv'
<1> SUFFICES ASSUME CoreInv, [CoreNext]_vars PROVE CoreInv'
  OBVIOUS
<1>1. OpenInv'
  BY OpenStep DEF CoreInv, OpenNext
<1>2. /\ TypeOK /\ reaped = {} /\ OpenInv
      /\ pool \in [Task -> Row]
      /\ \A r \in Run : Live(r) => run[r].task \in Task /\ run[r].emp \in Employee
      /\ \A r \in Run : Live(r) => run[r].task \in inFlight
      /\ \A r, q \in Run : Live(r) /\ Live(q) /\ r # q => run[r].task # run[q].task
      /\ TickHolds => tick.task \in Task /\ tick.emp \in Employee /\ tick.task \notin inFlight
      /\ \A x \in tick.todo : x.task \in Task
      /\ http.op # "none" => http.task \in Task
      /\ phase \in {"up", "boot"}
      /\ \A r \in Run : run[r].pc \in {"idle", "exec", "finishOk", "finishBad", "release"}
  BY DEF CoreInv, OpenInv, Allocation, InFlightExact, TypeOK, Entry
<1>3. /\ RowsAgree /\ StillReady /\ CreatesOnce /\ BootIsQuiet
      /\ tick.pc # "idle" => phase = "up"
  BY <1>2 DEF CoreInv, BootIsQuiet, IdleTick
<1> USE DEF Active
<1>4. CASE TickStart
  <2>1. tick'.pc = "scan" /\ \A x \in tick'.todo : Ready(x.task)
    BY <1>2, <1>4 DEF TickStart, TypeOK
  <2>2. UNCHANGED <<pool, run, http, phase>> /\ phase = "up"
    BY <1>4 DEF TickStart
  <2> QED
    BY <1>1, <1>3, <2>1, <2>2
       DEF CoreInv, RowsAgree, RowMatchesRun, StillReady, CreatesOnce, BootIsQuiet, Ready
<1>5. CASE TickAcquire
  <2>1. PICK x \in tick.todo :
          tick'.pc = "claim" /\ tick'.task = x.task /\ tick'.todo \subseteq tick.todo
    BY <1>5 DEF TickAcquire
  <2>2. UNCHANGED <<pool, run, http, phase>> /\ phase = "up"
    BY <1>3, <1>5 DEF TickAcquire, BootIsQuiet, IdleTick
  <2> QED
    BY <1>1, <1>3, <2>1, <2>2
       DEF CoreInv, RowsAgree, RowMatchesRun, StillReady, CreatesOnce, BootIsQuiet, Ready
<1>6. CASE TickEnd \/ TickUndo
  <2>1. tick'.pc \in {"idle", "scan"} /\ tick'.todo \subseteq tick.todo
    <3>1. CASE TickEnd
      BY <3>1 DEF TickEnd, IdleTick
    <3>2. CASE TickUndo
      BY <1>2, <3>2 DEF TickUndo, TypeOK
    <3> QED
      BY <1>6, <3>1, <3>2
  <2>2. UNCHANGED <<pool, run, http, phase>> /\ phase = "up"
    BY <1>3, <1>6 DEF TickEnd, TickUndo
  <2> QED
    BY <1>1, <1>3, <2>1, <2>2
       DEF CoreInv, RowsAgree, RowMatchesRun, StillReady, CreatesOnce, BootIsQuiet, Ready
<1>7. CASE TickClaim
  <2>1. TickHolds /\ phase = "up" /\ UNCHANGED <<run, http, phase>>
    BY <1>3, <1>7 DEF TickClaim, TickHolds
  <2>2. CASE MayClaim(pool, tick.task)
    <3>1. /\ pool' = ClaimTask(pool, tick.task, tick.emp) /\ pool[tick.task].status = "pending"
          /\ tick'.pc = "mark" /\ tick'.task = tick.task /\ tick'.emp = tick.emp
          /\ tick'.todo = tick.todo
      BY <1>2, <1>7, <2>2 DEF TickClaim, MayClaim, TypeOK
    <3>2. \A u \in Task :
            /\ pool'[u].status = IF u = tick.task THEN "claimed" ELSE pool[u].status
            /\ pool'[u].claimedBy = IF u = tick.task THEN tick.emp ELSE pool[u].claimedBy
      BY <1>2, <2>1, <3>1, ClaimFields
    <3>3. RowsAgree'
      BY <1>2, <1>3, <2>1, <3>1, <3>2 DEF RowsAgree, RowMatchesRun, Live
    <3>4. StillReady'
      BY <1>2, <1>3, <3>1, <3>2, ReadyStays DEF StillReady
    <3>5. CreatesOnce' /\ BootIsQuiet'
      BY <1>2, <1>3, <2>1, <3>1, <3>2 DEF CreatesOnce, BootIsQuiet
    <3> QED
      BY <1>1, <3>3, <3>4, <3>5 DEF CoreInv
  <2>3. CASE ~MayClaim(pool, tick.task)
    <3>1. tick'.pc = "undo" /\ tick'.todo = tick.todo /\ UNCHANGED pool
      BY <1>2, <1>7, <2>3 DEF TickClaim, TypeOK
    <3> QED
      BY <1>1, <1>3, <2>1, <3>1
         DEF CoreInv, RowsAgree, RowMatchesRun, StillReady, CreatesOnce, BootIsQuiet, Ready
  <2> QED
    BY <2>2, <2>3
<1>8. CASE TickMark \/ (tick.pc = "mark" /\ TickThrows)
  <2>1. /\ tick.pc = "mark" /\ TickHolds /\ phase = "up" /\ UNCHANGED <<run, http, phase>>
        /\ pool[tick.task].status = "claimed" /\ pool[tick.task].claimedBy = tick.emp
    BY <1>3, <1>8 DEF TickMark, TickThrows, TickHolds, RowsAgree
  <2>2. /\ tick'.pc \in {"launch", "undo"} /\ tick'.task = tick.task /\ tick'.emp = tick.emp
        /\ tick'.todo = tick.todo
        /\ pool' \in {pool, MarkTask(pool, tick.task)}
        /\ tick'.pc = "launch" => pool' = MarkTask(pool, tick.task)
    BY <1>2, <1>8 DEF TickMark, TickThrows, TypeOK
  <2>3. \A u \in Task :
          /\ pool'[u].status = pool[u].status \/ (u = tick.task /\ pool'[u].status = "running")
          /\ pool'[u].claimedBy = pool[u].claimedBy
    BY <1>2, <2>1, <2>2, MarkFields
  <2>4. tick'.pc = "launch" => pool'[tick.task].status = "running"
    BY <1>2, <2>1, <2>2, MarkFields
  <2>5. RowsAgree'
    BY <1>2, <1>3, <2>1, <2>2, <2>3, <2>4 DEF RowsAgree, RowMatchesRun, Live
  <2>6. StillReady'
    BY <1>2, <1>3, <2>1, <2>2, <2>3, ReadyStays DEF StillReady
  <2>7. CreatesOnce' /\ BootIsQuiet'
    BY <1>2, <1>3, <2>1, <2>2, <2>3 DEF CreatesOnce, BootIsQuiet
  <2> QED
    BY <1>1, <2>5, <2>6, <2>7 DEF CoreInv
<1>8a. CASE tick.pc = "claim" /\ TickThrows
  <2>1. /\ TickHolds /\ phase = "up" /\ UNCHANGED <<pool, run, http, phase>>
        /\ tick'.pc = "undo" /\ tick'.todo = tick.todo
    BY <1>2, <1>3, <1>8a DEF TickThrows, TickHolds, TypeOK
  <2> QED
    BY <1>1, <1>3, <2>1
       DEF CoreInv, RowsAgree, RowMatchesRun, StillReady, CreatesOnce, BootIsQuiet, Ready
<1>8b. TickThrows => tick.pc = "claim" \/ tick.pc = "mark"
  BY DEF TickThrows
<1>9. CASE TickLaunch
  <2>1. PICK s \in Run :
          /\ ~Live(s)
          /\ run' = [run EXCEPT ![s] = [pc |-> "exec", task |-> tick.task,
                                        emp |-> tick.emp, stale |-> FALSE]]
    BY <1>9 DEF TickLaunch
  <2>2. /\ tick.pc = "launch" /\ phase = "up" /\ UNCHANGED <<pool, http, phase>>
        /\ tick'.pc = "scan" /\ tick'.todo = tick.todo
    BY <1>2, <1>3, <1>9 DEF TickLaunch, BootIsQuiet, IdleTick, TypeOK
  <2>3. /\ run'[s].pc = "exec" /\ run'[s].task = tick.task /\ run'[s].emp = tick.emp
        /\ \A r \in Run \ {s} : run'[r] = run[r]
    BY <1>2, <2>1 DEF TypeOK
  <2> QED
    BY <1>1, <1>3, <2>2, <2>3
       DEF CoreInv, RowsAgree, RowMatchesRun, StillReady, CreatesOnce, BootIsQuiet, Ready
<1>10. ASSUME NEW s \in Run, RunReturn(s) PROVE CoreInv'
  <2>1. /\ run[s].pc = "exec" /\ phase = "up" /\ UNCHANGED <<pool, tick, http, phase>>
        /\ run'[s].pc \in {"finishOk", "finishBad"}
        /\ run'[s].task = run[s].task /\ run'[s].emp = run[s].emp
        /\ \A r \in Run \ {s} : run'[r] = run[r]
    BY <1>2, <1>3, <1>10 DEF RunReturn, BootIsQuiet, Live, TypeOK
  <2> QED
    BY <1>1, <1>3, <2>1
       DEF CoreInv, RowsAgree, RowMatchesRun, StillReady, CreatesOnce, BootIsQuiet, Ready
<1>11. ASSUME NEW s \in Run, RunFinish(s) PROVE CoreInv'
  <2>1. /\ Live(s) /\ phase = "up" /\ UNCHANGED <<tick, http, phase>>
        /\ pool' = FinishTask(pool, run[s].task, run[s].pc = "finishOk")
        /\ pool[run[s].task].status = "running"
        /\ run'[s].pc = "release" /\ run'[s].task = run[s].task
        /\ \A r \in Run \ {s} : run'[r] = run[r]
    BY <1>2, <1>3, <1>11 DEF RunFinish, BootIsQuiet, Live, TypeOK, RowsAgree, RowMatchesRun
  <2>2. \A u \in Task :
          /\ pool'[u].status =
               IF u = run[s].task THEN IF run[s].pc = "finishOk" THEN "done" ELSE "failed"
               ELSE pool[u].status
          /\ pool'[u].claimedBy = pool[u].claimedBy
    <3> DEFINE ok == run[s].pc = "finishOk"
    <3>1. ok \in BOOLEAN /\ run[s].task \in Task /\ pool' = FinishTask(pool, run[s].task, ok)
      BY <1>2, <2>1
    <3> HIDE DEF ok
    <3>2. \A u \in Task :
            /\ pool'[u].status = IF u = run[s].task THEN IF ok THEN "done" ELSE "failed" ELSE pool[u].status
            /\ pool'[u].claimedBy = pool[u].claimedBy
      BY <1>2, <3>1, FinishFields
    <3> QED
      BY <3>2 DEF ok
  <2>3. RowsAgree'
    BY <1>2, <1>3, <2>1, <2>2 DEF RowsAgree, RowMatchesRun, Live, TickHolds
  <2>4. StillReady'
    <3>1. \A u \in Task : pool[u].status = "done" => pool'[u].status = "done"
      BY <2>1, <2>2
    <3> QED
      BY <1>2, <1>3, <2>1, <3>1, ReadyStays DEF StillReady
  <2>5. CreatesOnce' /\ BootIsQuiet'
    BY <1>2, <1>3, <2>1, <2>2 DEF CreatesOnce, BootIsQuiet
  <2> QED
    BY <1>1, <2>3, <2>4, <2>5 DEF CoreInv
<1>12. ASSUME NEW s \in Run, RunRelease(s) PROVE CoreInv'
  <2>1. /\ phase = "up" /\ UNCHANGED <<pool, tick, http, phase>>
        /\ run'[s].pc = "idle"
        /\ \A r \in Run \ {s} : run'[r] = run[r]
    BY <1>2, <1>3, <1>12 DEF RunRelease, BootIsQuiet, Live, TypeOK, IdleRun
  <2> QED
    BY <1>1, <1>3, <2>1
       DEF CoreInv, RowsAgree, RowMatchesRun, StillReady, CreatesOnce, BootIsQuiet, Ready
<1>13. ASSUME NEW t \in Task, FirstSubmit(t) PROVE CoreInv'
  <2>1. /\ phase = "up" /\ UNCHANGED <<pool, tick, run, phase>>
        /\ http'.op = "submit" /\ http'.seen = "absent" /\ http'.task = t /\ pool[t].status = "absent"
    BY <1>13 DEF FirstSubmit, SubmitRead
  <2> QED
    BY <1>1, <1>3, <2>1
       DEF CoreInv, RowsAgree, RowMatchesRun, StillReady, CreatesOnce, BootIsQuiet, Ready
<1>14. ASSUME NEW t \in Task, Publish(t) \/ Assign(t) \/ Resume(t) PROVE CoreInv'
  <2>1. /\ phase = "up" /\ UNCHANGED <<tick, run, http, phase>>
        /\ pool[t].status \in {"draft", "pending", "failed"}
        /\ \A u \in Task :
             /\ pool'[u].status = pool[u].status \/ (u = t /\ pool'[u].status = "pending")
             /\ pool'[u].claimedBy = pool[u].claimedBy
    <3>1. CASE Publish(t)
      BY <1>2, <3>1, PublishFields DEF Publish, MayPublish
    <3>2. CASE Assign(t)
      BY <1>2, <3>2, AssignFields DEF Assign, MayAssign
    <3>3. CASE Resume(t)
      BY <1>2, <3>3, ResumeFields DEF Resume, MayResume
    <3> QED
      BY <1>14, <3>1, <3>2, <3>3
  <2>2. RowsAgree'
    BY <1>2, <1>3, <2>1 DEF RowsAgree, RowMatchesRun, Live, TickHolds
  <2>3. StillReady'
    BY <1>2, <1>3, <2>1, ReadyStays DEF StillReady
  <2>4. CreatesOnce' /\ BootIsQuiet'
    BY <1>2, <1>3, <2>1 DEF CreatesOnce, BootIsQuiet
  <2> QED
    BY <1>1, <2>2, <2>3, <2>4 DEF CoreInv
<1>15. CASE SubmitWrite
  <2>1. /\ phase = "up" /\ UNCHANGED <<tick, run, phase>> /\ http' = IdleHttp
        /\ http.task \in Task /\ pool[http.task].status = "absent"
    BY <1>2, <1>3, <1>15 DEF SubmitWrite, BootIsQuiet, IdleHttp, CreatesOnce
  <2>2. \A u \in Task \ {http.task} :
          pool'[u].status = pool[u].status /\ pool'[u].claimedBy = pool[u].claimedBy
    BY <1>2, <1>15, <2>1, AddFields DEF SubmitWrite
  <2>3. RowsAgree'
    <3>1. \A r \in Run : Live(r) => run[r].task # http.task \/ run[r].pc = "release"
      BY <1>2, <1>3, <2>1 DEF RowsAgree, RowMatchesRun, Live, TypeOK
    <3>2. pool'[http.task].status \in {"draft", "pending"}
      BY <1>2, <1>15, <2>1, AddFields DEF SubmitWrite
    <3> QED
      BY <1>2, <1>3, <2>1, <2>2, <3>2 DEF RowsAgree, RowMatchesRun, Live, TickHolds
  <2>4. StillReady'
    BY <1>2, <1>3, <2>1, <2>2, ReadyStays DEF StillReady
  <2>5. CreatesOnce' /\ BootIsQuiet'
    BY <1>3, <2>1 DEF CreatesOnce, BootIsQuiet, IdleHttp
  <2> QED
    BY <1>1, <2>3, <2>4, <2>5 DEF CoreInv
<1>16. CASE Crash
  BY <1>1, <1>16 DEF Crash, CoreInv, RowsAgree, RowMatchesRun, StillReady, CreatesOnce, BootIsQuiet,
                     IdleTick, IdleRun, IdleHttp, Live
<1>17. ASSUME NEW t \in Task, BootOrphan(t) PROVE CoreInv'
  <2>1. /\ phase = "boot" /\ UNCHANGED <<tick, run, http, phase>>
        /\ tick = IdleTick /\ http = IdleHttp /\ \A r \in Run : run[r].pc = "idle"
    BY <1>3, <1>17 DEF BootOrphan, BootIsQuiet, Live
  <2> QED
    BY <1>1, <2>1 DEF CoreInv, RowsAgree, RowMatchesRun, StillReady, CreatesOnce, BootIsQuiet,
                      IdleTick, IdleHttp, Live
<1>18. CASE BootDone \/ BootThrows \/ UNCHANGED vars
  BY <1>1, <1>3, <1>18 DEF BootDone, BootThrows, vars, CoreInv, RowsAgree, RowMatchesRun, StillReady,
                           CreatesOnce, BootIsQuiet, Ready, Live
<1> QED
  BY <1>4, <1>5, <1>6, <1>7, <1>8, <1>8a, <1>8b, <1>9, <1>10, <1>11, <1>12, <1>13, <1>14, <1>15, <1>16,
     <1>17, <1>18
     DEF CoreNext, TickStep, RunStep, BootStep

(* As long as only the scheduler works on the table: the row of a task     *)
(* that is being executed is running and names whoever executes it (tick,  *)
(* runOne, SqlTaskStore.claim and finish).                                 *)
THEOREM RowsMatchRuns == CoreSpec => []RowMatchesRun
<1>1. CoreInv => RowMatchesRun
  BY DEF CoreInv, RowsAgree
<1> QED
  BY <1>1, CoreInit, CoreStep, PTL DEF CoreSpec


-----------------------------------------------------------------------------
(* The scheduler implements the board.                                     *)

boardStatus == [t \in Task |-> pool[t].status]
boardWorker == [t \in Task |->
                  IF \E r \in Run : Live(r) /\ run[r].task = t
                  THEN run[CHOOSE r \in Run : Live(r) /\ run[r].task = t].emp
                  ELSE NoOne]

OneRunPerTask == \A r, q \in Run : Live(r) /\ Live(q) /\ r # q => run[r].task # run[q].task

(* With one execution per task the choice is none.                         *)
LEMMA WorkerIsRun ==
  ASSUME OneRunPerTask, NEW r \in Run, Live(r), run[r].task \in Task
  PROVE  boardWorker[run[r].task] = run[r].emp
<1> DEFINE q == CHOOSE q \in Run : Live(q) /\ run[q].task = run[r].task
<1>1. q \in Run /\ Live(q) /\ run[q].task = run[r].task
  OBVIOUS
<1>2. q = r
  BY <1>1 DEF OneRunPerTask
<1> HIDE DEF q
<1>3. boardWorker[run[r].task] = run[q].emp
  BY <1>1 DEF boardWorker, q
<1> QED
  BY <1>2, <1>3

LEMMA NobodyWorks ==
  ASSUME NEW t \in Task, \A r \in Run : Live(r) => run[r].task # t
  PROVE  boardWorker[t] = NoOne
BY DEF boardWorker

(* Steps that leave task and employee of every execution alone.            *)
LEMMA SameWorkers ==
  ASSUME OneRunPerTask, \A r \in Run : Live(r) => run[r].task \in Task,
         \A r \in Run : /\ Live(r)' <=> Live(r)
                        /\ Live(r) => run'[r].task = run[r].task /\ run'[r].emp = run[r].emp
  PROVE  boardWorker' = boardWorker
<1>1. OneRunPerTask'
  BY DEF OneRunPerTask
<1>2. ASSUME NEW t \in Task PROVE boardWorker'[t] = boardWorker[t]
  <2>1. CASE \E r \in Run : Live(r) /\ run[r].task = t
    <3>1. PICK r \in Run : Live(r) /\ run[r].task = t
      BY <2>1
    <3>2. boardWorker[t] = run[r].emp
      BY <3>1, WorkerIsRun
    <3>3. boardWorker'[t] = run'[r].emp
      <4>1. Live(r)' /\ run'[r].task = t
        BY <3>1
      <4>2. \A s \in Run : Live(s)' /\ run'[s].task = t => s = r
        BY <1>1, <4>1 DEF OneRunPerTask
      <4> QED
        BY <4>1, <4>2 DEF boardWorker
    <3> QED
      BY <3>1, <3>2, <3>3
  <2>2. CASE ~\E r \in Run : Live(r) /\ run[r].task = t
    <3>1. boardWorker[t] = NoOne
      BY <2>2, NobodyWorks
    <3>2. boardWorker'[t] = NoOne
      BY <2>2 DEF boardWorker
    <3> QED
      BY <3>1, <3>2
  <2> QED
    BY <2>1, <2>2
<1> QED
  BY <1>2 DEF boardWorker


LEMMA UpdatedAt ==
  ASSUME NEW f, NEW g, f = [u \in Task |-> f[u]], g = [u \in Task |-> g[u]],
         NEW t \in Task, NEW x, \A u \in Task : g[u] = IF u = t THEN x ELSE f[u]
  PROVE  g = [f EXCEPT ![t] = x]
OBVIOUS

LEMMA WorkerMoves ==
  ASSUME NEW t \in Task, NEW x,
         \A u \in Task : boardWorker'[u] = IF u = t THEN x ELSE boardWorker[u]
  PROVE  boardWorker' = [boardWorker EXCEPT ![t] = x]
<1>1. boardWorker = [u \in Task |-> boardWorker[u]]
  BY DEF boardWorker
<1>2. boardWorker' = [u \in Task |-> boardWorker'[u]]
  BY DEF boardWorker
<1> QED
  BY <1>1, <1>2, UpdatedAt

(* The moves of the board, in terms of the two functions above.            *)
LEMMA MoveIs ==
  ASSUME NEW t, NEW from, NEW to
  PROVE  Board!Move(t, from, to) <=>
           /\ boardStatus[t] \in from
           /\ boardStatus' = [boardStatus EXCEPT ![t] = to]
           /\ boardWorker' = boardWorker
BY DEF Board!Move, boardStatus, boardWorker

LEMMA StatusMoves ==
  ASSUME NEW t \in Task, NEW to,
         \A u \in Task : pool'[u].status = IF u = t THEN to ELSE pool[u].status
  PROVE  boardStatus' = [boardStatus EXCEPT ![t] = to]
BY DEF boardStatus

LEMMA StatusStays ==
  ASSUME \A u \in Task : pool'[u].status = pool[u].status
  PROVE  boardStatus' = boardStatus
BY DEF boardStatus

LEMMA BoardStutters ==
  (boardStatus' = boardStatus /\ boardWorker' = boardWorker) => UNCHANGED Board!boardVars
BY DEF Board!boardVars, boardStatus, boardWorker

LEMMA BoardMoves ==
  \A t \in Task :
    Board!Create(t) \/ Board!Release(t) \/ Board!Take(t) \/ Board!Start(t) \/ Board!Leave(t)
    \/ Board!Continue(t) \/ Board!Recover(t) \/ (\E e \in Employee : Board!Begin(t, e))
    \/ (\E to \in {"done", "failed"} : Board!Settle(t, to))
    => Board!BoardNext
BY DEF Board!BoardNext

LEMMA BoardStart == Init => Board!BoardInit
BY DEF Init, Board!BoardInit, NoRow, Live, IdleRun

(* Every step of the scheduler is one move of the board, or none.          *)
LEMMA BoardStep ==
  ASSUME CoreInv, [CoreNext]_vars
  PROVE  Board!BoardNext \/ UNCHANGED Board!boardVars
<1>1. /\ TypeOK /\ reaped = {} /\ OneRunPerTask /\ EmployeeExclusive
      /\ pool \in [Task -> Row]
      /\ \A r \in Run : Live(r) => run[r].task \in Task /\ run[r].emp \in Employee
      /\ \A r \in Run : Live(r) => run[r].task \in inFlight
      /\ TickHolds => tick.task \in Task /\ tick.emp \in Employee /\ tick.task \notin inFlight
      /\ http.op # "none" => http.task \in Task
      /\ \A r \in Run : run[r].pc \in {"idle", "exec", "finishOk", "finishBad", "release"}
  BY DEF CoreInv, OpenInv, Allocation, InFlightExact, OneRunPerTask, TypeOK
<1>2. RowsAgree /\ StillReady /\ CreatesOnce /\ BootIsQuiet
  BY DEF CoreInv
<1>3. \A t \in Task : boardStatus[t] = pool[t].status
  BY DEF boardStatus
<1>4. ASSUME UNCHANGED run PROVE boardWorker' = boardWorker
  BY <1>4 DEF boardWorker, Live
<1>5. ASSUME UNCHANGED pool PROVE boardStatus' = boardStatus
  BY <1>5 DEF boardStatus
<1>6. CASE TickStart \/ TickAcquire \/ TickEnd \/ TickUndo \/ (\E t \in Task : FirstSubmit(t))
           \/ BootDone \/ BootThrows \/ UNCHANGED vars
  <2>1. UNCHANGED <<pool, run>>
    BY <1>6 DEF TickStart, TickAcquire, TickEnd, TickUndo, FirstSubmit, SubmitRead, BootDone,
                BootThrows, vars
  <2> QED
    BY <1>4, <1>5, <2>1, BoardStutters
<1>7. CASE TickClaim
  <2>1. /\ tick.pc = "claim" /\ tick.task \in Task /\ tick.emp \in Employee
        /\ UNCHANGED run /\ Ready(tick.task)
    BY <1>1, <1>2, <1>7 DEF TickClaim, TickHolds, StillReady
  <2>2. CASE MayClaim(pool, tick.task)
    <3>1. PICK t \in Task : t = tick.task
      BY <2>1
    <3>2. /\ pool[t].status = "pending"
          /\ \A u \in Task : pool'[u].status = IF u = t THEN "claimed" ELSE pool[u].status
      BY <1>1, <1>7, <2>1, <2>2, <3>1, ClaimFields DEF TickClaim, MayClaim
    <3>3. Board!Move(t, {"pending"}, "claimed")
      BY <1>3, <1>4, <2>1, <3>2, StatusMoves, MoveIs
    <3>4. Board!Take(t)
      BY <2>1, <3>1, <3>3, SchedulerAssumption DEF Board!Take, Ready
    <3> QED
      BY <3>4, BoardMoves
  <2>3. CASE ~MayClaim(pool, tick.task)
    BY <1>4, <1>5, <1>7, <2>1, <2>3, BoardStutters DEF TickClaim
  <2> QED
    BY <2>2, <2>3
<1>8. CASE TickMark \/ (tick.pc = "mark" /\ TickThrows)
  <2>1. /\ tick.pc = "mark" /\ tick.task \in Task /\ UNCHANGED run
        /\ pool[tick.task].status = "claimed" /\ pool' \in {pool, MarkTask(pool, tick.task)}
    BY <1>1, <1>2, <1>8 DEF TickMark, TickThrows, TickHolds, RowsAgree
  <2>2. CASE pool' = MarkTask(pool, tick.task)
    <3>1. PICK t \in Task : t = tick.task
      BY <2>1
    <3>2. \A u \in Task : pool'[u].status = IF u = t THEN "running" ELSE pool[u].status
      BY <1>1, <2>1, <2>2, <3>1, MarkFields
    <3>3. Board!Start(t)
      BY <1>3, <1>4, <2>1, <3>1, <3>2, StatusMoves, MoveIs DEF Board!Start
    <3> QED
      BY <3>3, BoardMoves
  <2>3. CASE pool' = pool
    BY <1>4, <1>5, <2>1, <2>3, BoardStutters
  <2> QED
    BY <2>1, <2>2, <2>3
<1>8a. CASE tick.pc = "claim" /\ TickThrows
  BY <1>4, <1>5, <1>8a, BoardStutters DEF TickThrows
<1>8b. TickThrows => tick.pc = "claim" \/ tick.pc = "mark"
  BY DEF TickThrows
<1>9. CASE TickLaunch
  <2>0. PICK t \in Task, e \in Employee : t = tick.task /\ e = tick.emp
    BY <1>1, <1>9 DEF TickLaunch, TickHolds
  <2>1. PICK s \in Run :
          /\ ~Live(s)
          /\ run' = [run EXCEPT ![s] = [pc |-> "exec", task |-> tick.task,
                                        emp |-> tick.emp, stale |-> FALSE]]
    BY <1>9 DEF TickLaunch
  <2>2. /\ t \in Task /\ e \in Employee /\ UNCHANGED pool /\ pool[t].status = "running"
        /\ \A r \in Run : Live(r) => run[r].task # t /\ run[r].emp # e
    BY <1>1, <1>2, <1>9, <2>0 DEF TickLaunch, TickHolds, RowsAgree, EmployeeExclusive
  <2>3. /\ Live(s)' /\ run'[s].task = t /\ run'[s].emp = e
        /\ \A r \in Run \ {s} : run'[r] = run[r]
    BY <1>1, <2>0, <2>1 DEF TypeOK, Live
  <2>4. boardWorker[t] = NoOne
    BY <2>2, NobodyWorks
  <2>5. ASSUME NEW u \in Task PROVE boardWorker[u] # e
    <3>1. CASE \E r \in Run : Live(r) /\ run[r].task = u
      <4>1. PICK r \in Run : Live(r) /\ run[r].task = u
        BY <3>1
      <4> QED
        BY <1>1, <2>2, <4>1, WorkerIsRun
    <3>2. CASE ~\E r \in Run : Live(r) /\ run[r].task = u
      BY <2>2, <3>2, NobodyWorks, NoOneAssumption
    <3> QED
      BY <3>1, <3>2
  <2>6. boardWorker' = [boardWorker EXCEPT ![t] = e]
    <3>1. OneRunPerTask'
      BY <1>1, <2>2, <2>3 DEF OneRunPerTask, Live
    <3>2. ASSUME NEW u \in Task PROVE boardWorker'[u] = IF u = t THEN e ELSE boardWorker[u]
      <4>1. CASE u = t
        <5>1. \A r \in Run : Live(r)' /\ run'[r].task = t => r = s
          BY <2>3, <3>1 DEF OneRunPerTask
        <5> QED
          BY <2>3, <4>1, <5>1 DEF boardWorker
      <4>2. CASE u # t
        <5>1. \A r \in Run : Live(r)' /\ run'[r].task = u <=> Live(r) /\ run[r].task = u
          BY <2>1, <2>3, <4>2 DEF Live
        <5>2. CASE \E r \in Run : Live(r) /\ run[r].task = u
          <6>1. PICK r \in Run : Live(r) /\ run[r].task = u
            BY <5>2
          <6>2. boardWorker[u] = run[r].emp
            BY <1>1, <6>1, WorkerIsRun
          <6>3. /\ Live(r)' /\ run'[r].task = u /\ run'[r].emp = run[r].emp
                /\ \A q \in Run : Live(q)' /\ run'[q].task = u => q = r
            BY <2>1, <2>3, <3>1, <5>1, <6>1 DEF OneRunPerTask
          <6>4. boardWorker'[u] = run'[r].emp
            BY <6>3 DEF boardWorker
          <6> QED
            BY <4>2, <6>2, <6>3, <6>4
        <5>3. CASE ~\E r \in Run : Live(r) /\ run[r].task = u
          <6>1. boardWorker[u] = NoOne
            BY <5>3, NobodyWorks
          <6>2. boardWorker'[u] = NoOne
            BY <5>1, <5>3 DEF boardWorker
          <6> QED
            BY <4>2, <6>1, <6>2
        <5> QED
          BY <5>2, <5>3
      <4> QED
        BY <4>1, <4>2
    <3> QED
      BY <3>2, WorkerMoves
  <2>7. Board!Begin(t, e)
    <3>1. boardStatus[t] = "running" /\ boardStatus' = boardStatus
      BY <1>3, <1>5, <2>2
    <3> QED
      BY <2>4, <2>5, <2>6, <3>1 DEF Board!Begin, boardStatus, boardWorker
  <2> QED
    BY <2>2, <2>7, BoardMoves
<1>10. ASSUME NEW s \in Run, RunReturn(s) PROVE UNCHANGED Board!boardVars
  <2>1. /\ Live(s) /\ UNCHANGED pool /\ Live(s)'
        /\ run'[s].task = run[s].task /\ run'[s].emp = run[s].emp
        /\ \A r \in Run \ {s} : run'[r] = run[r]
    BY <1>1, <1>10 DEF RunReturn, Live, TypeOK
  <2>2. boardWorker' = boardWorker
    BY <1>1, <2>1, SameWorkers DEF Live
  <2> QED
    BY <1>5, <2>1, <2>2, BoardStutters
<1>11. ASSUME NEW s \in Run, RunFinish(s) PROVE Board!BoardNext
  <2>0. PICK t \in Task, ok \in BOOLEAN : t = run[s].task /\ ok = (run[s].pc = "finishOk")
    BY <1>1, <1>11 DEF RunFinish, Live
  <2> DEFINE to == IF ok THEN "done" ELSE "failed"
  <2>1. /\ Live(s) /\ Live(s)' /\ t \in Task /\ run[s].emp \in Employee
        /\ pool' = FinishTask(pool, t, ok) /\ pool[t].status = "running"
        /\ run'[s].task = run[s].task /\ run'[s].emp = run[s].emp
        /\ \A r \in Run \ {s} : run'[r] = run[r]
    BY <1>1, <1>2, <1>11, <2>0 DEF RunFinish, Live, TypeOK, RowsAgree, RowMatchesRun
  <2>2. boardWorker' = boardWorker
    BY <1>1, <2>1, SameWorkers DEF Live
  <2>3. boardStatus' = [boardStatus EXCEPT ![t] = to]
    <3>1. \A u \in Task : pool'[u].status = IF u = t THEN to ELSE pool[u].status
      BY <1>1, <2>1, FinishFields
    <3> QED
      BY <3>1, StatusMoves
  <2>4. boardWorker[t] # NoOne
    BY <1>1, <2>0, <2>1, WorkerIsRun, NoOneAssumption
  <2>5. Board!Move(t, {"running"}, to)
    BY <1>3, <2>1, <2>2, <2>3, MoveIs
  <2>6. Board!Settle(t, to)
    BY <2>4, <2>5 DEF Board!Settle, boardWorker
  <2> QED
    BY <2>1, <2>6, BoardMoves
<1>12. ASSUME NEW s \in Run, RunRelease(s) PROVE Board!BoardNext
  <2>0. PICK t \in Task : t = run[s].task
    BY <1>1, <1>12 DEF RunRelease, Live
  <2>1. /\ Live(s) /\ ~Live(s)' /\ t \in Task /\ run[s].emp \in Employee /\ UNCHANGED pool
        /\ pool[t].status \notin {"claimed", "running"}
        /\ \A r \in Run \ {s} : run'[r] = run[r]
    BY <1>1, <1>2, <1>12, <2>0 DEF RunRelease, Live, TypeOK, RowsAgree, Active, IdleRun
  <2>2. boardWorker[t] # NoOne
    BY <1>1, <2>0, <2>1, WorkerIsRun, NoOneAssumption
  <2>3. ASSUME NEW u \in Task PROVE boardWorker'[u] = IF u = t THEN NoOne ELSE boardWorker[u]
    <3>1. \A r \in Run : Live(r)' /\ run'[r].task = u <=> Live(r) /\ run[r].task = u /\ r # s
      BY <2>1 DEF Live
    <3>2. CASE \E r \in Run \ {s} : Live(r) /\ run[r].task = u
      <4>1. PICK r \in Run \ {s} : Live(r) /\ run[r].task = u
        BY <3>2
      <4>2. u # t /\ boardWorker[u] = run[r].emp
        BY <1>1, <2>0, <2>1, <4>1, WorkerIsRun DEF OneRunPerTask
      <4>3. /\ Live(r)' /\ run'[r].task = u /\ run'[r].emp = run[r].emp
            /\ \A q \in Run : Live(q)' /\ run'[q].task = u => q = r
        BY <1>1, <2>1, <3>1, <4>1 DEF OneRunPerTask
      <4>4. boardWorker'[u] = run'[r].emp
        BY <4>3 DEF boardWorker
      <4> QED
        BY <4>2, <4>3, <4>4
    <3>3. CASE ~\E r \in Run \ {s} : Live(r) /\ run[r].task = u
      <4>1. boardWorker'[u] = NoOne
        BY <3>1, <3>3 DEF boardWorker
      <4>2. u # t => boardWorker[u] = NoOne
        BY <2>0, <3>3, NobodyWorks
      <4> QED
        BY <4>1, <4>2
    <3> QED
      BY <3>2, <3>3
  <2>4. boardWorker' = [boardWorker EXCEPT ![t] = NoOne]
    BY <2>3, WorkerMoves
  <2>5. Board!Leave(t)
    <3>1. boardStatus[t] \notin {"claimed", "running"} /\ boardStatus' = boardStatus
      BY <1>3, <1>5, <2>1
    <3> QED
      BY <2>2, <2>4, <3>1 DEF Board!Leave, boardStatus, boardWorker
  <2> QED
    BY <2>1, <2>5, BoardMoves
<1>13. ASSUME NEW t \in Task, Publish(t) \/ Assign(t) \/ Resume(t)
       PROVE  Board!BoardNext \/ UNCHANGED Board!boardVars
  <2>1. UNCHANGED run
    BY <1>13 DEF Publish, Assign, Resume
  <2>2. CASE Publish(t)
    <3>1. /\ pool[t].status = "draft"
          /\ \A u \in Task : pool'[u].status = IF u = t THEN "pending" ELSE pool[u].status
      BY <1>1, <2>2, PublishFields DEF Publish, MayPublish
    <3>2. Board!Release(t)
      BY <1>3, <1>4, <2>1, <3>1, StatusMoves, MoveIs DEF Board!Release
    <3> QED
      BY <3>2, BoardMoves
  <2>3. CASE Assign(t)
    <3>1. boardStatus' = boardStatus
      BY <1>1, <2>3, AssignFields, StatusStays DEF Assign
    <3> QED
      BY <1>4, <2>1, <3>1, BoardStutters
  <2>4. CASE Resume(t)
    <3>1. /\ pool[t].status = "failed"
          /\ \A u \in Task : pool'[u].status = IF u = t THEN "pending" ELSE pool[u].status
      BY <1>1, <2>4, ResumeFields DEF Resume, MayResume
    <3>2. Board!Continue(t)
      BY <1>3, <1>4, <2>1, <3>1, StatusMoves, MoveIs DEF Board!Continue
    <3> QED
      BY <3>2, BoardMoves
  <2> QED
    BY <1>13, <2>2, <2>3, <2>4
<1>14. CASE SubmitWrite
  <2>1. /\ UNCHANGED run /\ http.task \in Task /\ pool[http.task].status = "absent"
        /\ http.seen = "absent"
    BY <1>1, <1>2, <1>14 DEF SubmitWrite, CreatesOnce
  <2>2. PICK t \in Task : t = http.task
    BY <2>1
  <2>3. \A u \in Task : pool'[u].status = IF u = t THEN "draft" ELSE pool[u].status
    <3>1. PICK who : pool' = AddTask(pool, http.task, http.seen \notin {"done", "failed"}, who)
      BY <1>14 DEF SubmitWrite
    <3>2. pool' = [u \in Task |->
                     IF u = t THEN [status |-> "draft", claimedBy |-> NoOne, age |-> "none",
                                    assignee |-> who, older |-> Existing(pool) \ {t}]
                     ELSE [pool[u] EXCEPT !.older = @ \ {t}]]
      BY <2>1, <2>2, <3>1 DEF AddTask
    <3> QED
      BY <1>1, <3>2 DEF Row
  <2>4. Board!Create(t)
    BY <1>3, <1>4, <2>1, <2>2, <2>3, StatusMoves, MoveIs DEF Board!Create
  <2> QED
    BY <2>4, BoardMoves
<1>15. CASE Crash
  <2>1. UNCHANGED pool /\ \A r \in Run : ~Live(r)'
    BY <1>15 DEF Crash, Live, IdleRun
  <2>2. boardWorker' = [t \in Task |-> NoOne]
    BY <2>1 DEF boardWorker
  <2>3. Board!Interrupt
    BY <1>5, <2>1, <2>2 DEF Board!Interrupt, boardStatus, boardWorker
  <2> QED
    BY <2>3 DEF Board!BoardNext
<1>16. ASSUME NEW t \in Task, BootOrphan(t) PROVE Board!BoardNext
  <2>1. /\ UNCHANGED run /\ pool[t].status \in {"claimed", "running"}
        /\ pool' = FinishTask(pool, t, FALSE) /\ \A r \in Run : ~Live(r)
    BY <1>2, <1>16 DEF BootOrphan, BootIsQuiet, Active
  <2>2. \A u \in Task : pool'[u].status = IF u = t THEN "failed" ELSE pool[u].status
    BY <1>1, <2>1 DEF FinishTask, Row
  <2>3. boardWorker[t] = NoOne
    BY <2>1, NobodyWorks
  <2>4. Board!Move(t, {"claimed", "running"}, "failed")
    BY <1>3, <1>4, <2>1, <2>2, StatusMoves, MoveIs
  <2>5. Board!Recover(t)
    BY <2>3, <2>4 DEF Board!Recover, boardWorker
  <2> QED
    BY <2>5, BoardMoves
<1> QED
  BY <1>6, <1>7, <1>8, <1>8a, <1>8b, <1>9, <1>10, <1>11, <1>12, <1>13, <1>14, <1>15, <1>16
     DEF CoreNext, TickStep, RunStep, BootStep

(* The refinement: whoever looks at the board sees a documented move of    *)
(* one task or none, whatever tick, executions and requests interleave.    *)
THEOREM SchedulerImplementsBoard == CoreSpec => ImplementsBoard
<1>1. Init => Board!BoardInit
  BY BoardStart
<1>2. CoreInv /\ [CoreNext]_vars => [Board!BoardNext]_(Board!boardVars)
  BY BoardStep
<1> QED
  BY <1>1, <1>2, CoreInit, CoreStep, PTL DEF CoreSpec, ImplementsBoard, Board!BoardSpec

=============================================================================
