---------------------------- MODULE MCScheduler ----------------------------
(***************************************************************************)
(* Small instances of TeamScheduler for TLC: two or three tasks, two       *)
(* employees, and as many execution slots as can be alive at once.         *)
(***************************************************************************)
EXTENDS TeamScheduler, TLC

CONSTANTS t1, t2, t3, e1, e2

(* t2 waits for t1 and t3 for both; or the tasks are independent. *)
Chain == [t \in Task |-> CASE t = t1 -> {} [] t = t2 -> {t1} [] t = t3 -> {t1, t2}]
Diamond == [t \in Task |-> IF t = t3 THEN {t1, t2} ELSE {}]
Independent == [t \in Task |-> {}]

(* Everybody can do everything; or only e1 has the role of t1. *)
Anyone == [t \in Task |-> Employee]
Specialist == [t \in Task |-> IF t = t1 THEN {e1} ELSE Employee]

RosterOrder == [e \in Employee |-> IF e = e1 THEN 1 ELSE 2]

Slots == Permutations(Run)

=============================================================================
