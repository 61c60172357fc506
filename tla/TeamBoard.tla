----------------------------- MODULE TeamBoard -----------------------------
(***************************************************************************)
(* What the task pool and the team promise to somebody who looks at the    *)
(* board: the documented life of a task (stores/types.ts), dependencies    *)
(* that gate it, and employees who work on at most one task at a time.     *)
(* There is no scheduler, no roster and no memory here, only the board.    *)
(***************************************************************************)
CONSTANTS Task, Employee, NoOne, DependsOn

VARIABLES status,  \* [Task -> status]
          worker   \* [Task -> employee who is executing the task, or NoOne]

boardVars == <<status, worker>>

BoardInit ==
  /\ status = [t \in Task |-> "absent"]
  /\ worker = [t \in Task |-> NoOne]

Move(t, from, to) ==
  /\ status[t] \in from
  /\ status' = [status EXCEPT ![t] = to]
  /\ UNCHANGED worker

Create(t) == Move(t, {"absent"}, "draft")
Release(t) == Move(t, {"draft"}, "pending")

(* A task is taken only when everything it depends on is done. *)
Take(t) ==
  /\ \A d \in DependsOn[t] : status[d] = "done"
  /\ Move(t, {"pending"}, "claimed")

Start(t) == Move(t, {"claimed"}, "running")

(* An employee who works on nothing begins to execute a running task. *)
Begin(t, e) ==
  /\ status[t] = "running"
  /\ worker[t] = NoOne
  /\ \A u \in Task : worker[u] # e
  /\ worker' = [worker EXCEPT ![t] = e]
  /\ UNCHANGED status

Settle(t, to) ==
  /\ to \in {"done", "failed"}
  /\ worker[t] # NoOne
  /\ Move(t, {"running"}, to)

(* The employee is through with a task that is no longer running. *)
Leave(t) ==
  /\ worker[t] # NoOne
  /\ status[t] \notin {"claimed", "running"}
  /\ worker' = [worker EXCEPT ![t] = NoOne]
  /\ UNCHANGED status

Continue(t) == Move(t, {"failed"}, "pending")

(* The process dies: nobody works.  A restart then fails what was open. *)
Interrupt ==
  /\ worker' = [t \in Task |-> NoOne]
  /\ UNCHANGED status

Recover(t) ==
  /\ worker[t] = NoOne
  /\ Move(t, {"claimed", "running"}, "failed")

BoardNext ==
  \/ \E t \in Task :
       \/ Create(t) \/ Release(t) \/ Take(t) \/ Start(t) \/ Leave(t)
       \/ Continue(t) \/ Recover(t)
       \/ \E e \in Employee : Begin(t, e)
       \/ \E to \in {"done", "failed"} : Settle(t, to)
  \/ Interrupt

BoardSpec == BoardInit /\ [][BoardNext]_boardVars

=============================================================================
