------------------------------ MODULE TaskPool ------------------------------
(***************************************************************************)
(* The task pool: one row of table ddw_tasks per task id, and the SQL      *)
(* statements of SqlTaskStore as operators from a pool to a pool.  Each    *)
(* statement is atomic in the database, so every operator below is the     *)
(* effect of exactly one statement (or one driver.tx), with its WHERE      *)
(* clause as a separate "May..." predicate.  Callers that read first and   *)
(* write later do so in two steps of their own module.                     *)
(*                                                                         *)
(* Abstracted: the task package is its id, its dependencies and roles      *)
(* (constants of the modules that need them) and its assignee; results and *)
(* plan progress are left out, because no decision of the scheduler reads  *)
(* them.  created_at is the set of tasks that were created before: the     *)
(* only use of the column is ORDER BY created_at.  claimed_at is kept as   *)
(* the age class the watchdog compares against (see Age).                  *)
(***************************************************************************)
CONSTANTS Task,      \* task ids
          Employee,  \* employee ids
          NoOne      \* SQL NULL in claimed_by, and "no assignee" in the package

ASSUME NoOneAssumption == NoOne \notin Employee

(* "absent" is a task id without a row; the other six are TaskStatus. *)
Status == {"absent", "draft", "pending", "claimed", "running", "done", "failed"}

(* Statuses in which an execution owns the row. *)
Active == {"claimed", "running"}

(***************************************************************************)
(* now - claimed_at, in the classes the watchdog tells apart: "none" is    *)
(* NULL, "fresh" is within taskTimeoutMs, "late" beyond it, "overdue"      *)
(* beyond the fourfold grace of a task that waits for a human.             *)
(***************************************************************************)
Age == {"none", "fresh", "late", "overdue"}

Row == [status    : Status,
        claimedBy : Employee \cup {NoOne},
        age       : Age,
        assignee  : Employee \cup {NoOne},
        older     : SUBSET Task]

NoRow == [status |-> "absent", claimedBy |-> NoOne, age |-> "none",
          assignee |-> NoOne, older |-> {}]

Existing(p) == {t \in Task : p[t].status # "absent"}

-----------------------------------------------------------------------------
(* INSERT ... ON CONFLICT UPDATE: the execution columns are cleared and    *)
(* created_at is renewed, so the task goes to the back of the queue.       *)
AddTask(p, t, draft, who) ==
  [u \in Task |->
     IF u = t
     THEN [status    |-> IF draft THEN "draft" ELSE "pending",
           claimedBy |-> NoOne,
           age       |-> "none",
           assignee  |-> who,
           older     |-> Existing(p) \ {t}]
     ELSE [p[u] EXCEPT !.older = @ \ {t}]]

MayPublish(p, t) == p[t].status = "draft"
PublishTask(p, t) == [p EXCEPT ![t].status = "pending"]

MayAssign(p, t) == p[t].status \in {"draft", "pending"}
AssignTask(p, t, who) == [p EXCEPT ![t].assignee = who]

MayClaim(p, t) == p[t].status = "pending"
ClaimTask(p, t, e) ==
  [p EXCEPT ![t] = [@ EXCEPT !.status = "claimed", !.claimedBy = e, !.age = "fresh"]]

(* No status in the WHERE clause: any existing row becomes running. *)
MayMark(p, t) == p[t].status # "absent"
MarkTask(p, t) == [p EXCEPT ![t].status = "running"]

(* No status in the WHERE clause either: any existing row is overwritten. *)
MayFinish(p, t) == p[t].status # "absent"
FinishTask(p, t, ok) ==
  [p EXCEPT ![t].status = IF ok THEN "done" ELSE "failed"]

MayReset(p, t) == p[t].status \notin {"absent", "draft"}
ResetTask(p, t) ==
  [p EXCEPT ![t] = [@ EXCEPT !.status = "pending", !.claimedBy = NoOne, !.age = "none"]]

(* Mutant: a resume that does not insist on a failed task. *)
MayResumeRunning(p, t) == p[t].status \in {"failed", "running"}

(* claimed_by becomes the assignee: whoever failed the task continues it. *)
MayResume(p, t) == p[t].status = "failed"
ResumeTask(p, t) ==
  LET who == IF p[t].claimedBy = NoOne THEN p[t].assignee ELSE p[t].claimedBy
  IN  [p EXCEPT ![t] = [@ EXCEPT !.status = "pending", !.assignee = who]]

=============================================================================
