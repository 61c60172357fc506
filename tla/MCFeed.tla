------------------------------- MODULE MCFeed -------------------------------
(***************************************************************************)
(* Constants for TLC: two events of one employee.  x1 has the later time   *)
(* stamp; when it is stored first, x2 comes in behind the cursor.          *)
(***************************************************************************)
EXTENDS LiveFeed
CONSTANTS x1, x2, e1
Stamped == {[id |-> x1, emp |-> e1, ts |-> 2], [id |-> x2, emp |-> e1, ts |-> 1]}
=============================================================================
