--------------------------- MODULE ManagedRoster ---------------------------
(***************************************************************************)
(* The roster the console really runs with: a snapshot of the enabled      *)
(* employees, renewed before every tick by refresh(), which awaits the     *)
(* employee store, and the set of free employees, changed synchronously by *)
(* acquire and release.  A refresh, the dispatch loop of an earlier tick   *)
(* and the executions in progress all run concurrently: a refresh is       *)
(* three steps here, and anything may happen between them.                 *)
(*                                                                         *)
(* The scheduler is reduced to what the roster sees of it: executions that *)
(* hold an employee.  Roles and capabilities only narrow the choice of     *)
(* acquire; here any free employee of the snapshot may be acquired.        *)
(***************************************************************************)
EXTENDS Naturals

CONSTANTS Employee,  \* employee ids
          Call,      \* calls of refresh() that may overlap
          MaxWork    \* bound: executions of one employee at the same time

ASSUME RosterAssumption == MaxWork \in Nat \ {0}

VARIABLES
  enabled,  \* ids of the enabled employees in the employee store
  records,  \* ids of the snapshot (this.records)
  free,     \* this.free
  call,     \* [Call -> refresh in progress]
  work,     \* [Employee -> number of executions that hold the employee]
  quiet     \* history: refreshes have not overlapped with each other, an
            \* acquire or a release, and nobody was disabled so far

vars == <<enabled, records, free, call, work, quiet>>

IdleCall == [pc |-> "idle", busy |-> {}, answer |-> {}]

TypeOK ==
  /\ enabled \subseteq Employee
  /\ records \subseteq Employee
  /\ free \subseteq Employee
  /\ call \in [Call -> [pc     : {"idle", "asked", "answered"},
                        busy   : SUBSET Employee,
                        answer : SUBSET Employee]]
  /\ work \in [Employee -> 0..MaxWork]
  /\ quiet \in BOOLEAN

Init ==
  /\ enabled \in SUBSET Employee
  /\ records = {}
  /\ free = {}
  /\ call = [c \in Call |-> IdleCall]
  /\ work = [e \in Employee |-> 0]
  /\ quiet = TRUE

Refreshing == \E c \in Call : call[c].pc # "idle"

(* The schedule the comment in refresh() has in mind: one refresh at a     *)
(* time, and nobody is acquired or released while it awaits the store.     *)
StaysQuiet == quiet' = (quiet /\ ~Refreshing)

-----------------------------------------------------------------------------
(* refresh(): who is busy is computed before the store is asked ...        *)
RefreshAsk(c) ==
  /\ call[c].pc = "idle"
  /\ call' = [call EXCEPT ![c] = [pc |-> "asked", busy |-> records \ free, answer |-> {}]]
  /\ StaysQuiet
  /\ UNCHANGED <<enabled, records, free, work>>

(* ... the SELECT runs in the database ...                                 *)
RefreshAnswer(c) ==
  /\ call[c].pc = "asked"
  /\ call' = [call EXCEPT ![c] = [@ EXCEPT !.pc = "answered", !.answer = enabled]]
  /\ UNCHANGED <<enabled, records, free, work, quiet>>

(* Mutant: employees who are busy are not kept busy. *)
RefreshApplyAllFree(c) ==
  /\ call[c].pc = "answered"
  /\ records' = call[c].answer
  /\ free' = call[c].answer
  /\ call' = [call EXCEPT ![c] = IdleCall]
  /\ UNCHANGED <<enabled, work, quiet>>

(* Mutant: employees who are gone from the store stay in the snapshot. *)
RefreshApplyKeeps(c) ==
  /\ call[c].pc = "answered"
  /\ records' = records \cup call[c].answer
  /\ free' = (records \cup call[c].answer) \ call[c].busy
  /\ call' = [call EXCEPT ![c] = IdleCall]
  /\ UNCHANGED <<enabled, work, quiet>>

(* ... and the snapshot and free are replaced when the answer is back.     *)
RefreshApply(c) ==
  /\ call[c].pc = "answered"
  /\ records' = call[c].answer
  /\ free' = call[c].answer \ call[c].busy
  /\ call' = [call EXCEPT ![c] = IdleCall]
  /\ UNCHANGED <<enabled, work, quiet>>

(* The store fails: the snapshot stays as it is, the tick is skipped. *)
RefreshFails(c) ==
  /\ call[c].pc # "idle"
  /\ call' = [call EXCEPT ![c] = IdleCall]
  /\ UNCHANGED <<enabled, records, free, work, quiet>>

(* acquire and acquireById, by the dispatch loop of some tick. *)
Acquire(e) ==
  /\ e \in records \cap free
  /\ work[e] < MaxWork
  /\ free' = free \ {e}
  /\ work' = [work EXCEPT ![e] = @ + 1]
  /\ StaysQuiet
  /\ UNCHANGED <<enabled, records, call>>

(* Mutant: employees who are not in the snapshot are released as well. *)
ReleaseUnknown(e) ==
  /\ work[e] > 0
  /\ free' = free \cup {e}
  /\ work' = [work EXCEPT ![e] = @ - 1]
  /\ StaysQuiet
  /\ UNCHANGED <<enabled, records, call>>

(* An execution of e ends; only an employee of the snapshot becomes free. *)
Release(e) ==
  /\ work[e] > 0
  /\ free' = IF e \in records THEN free \cup {e} ELSE free
  /\ work' = [work EXCEPT ![e] = @ - 1]
  /\ StaysQuiet
  /\ UNCHANGED <<enabled, records, call>>

(* The employee administration of the console. *)
Enable(e) ==
  /\ e \notin enabled
  /\ enabled' = enabled \cup {e}
  /\ UNCHANGED <<records, free, call, work, quiet>>

Disable(e) ==
  /\ e \in enabled
  /\ enabled' = enabled \ {e}
  /\ quiet' = FALSE
  /\ UNCHANGED <<records, free, call, work>>

-----------------------------------------------------------------------------
(* Next-state relation: everything at any time.                            *)

RefreshStep == \E c \in Call : RefreshAsk(c) \/ RefreshAnswer(c) \/ RefreshApply(c) \/ RefreshFails(c)

Next ==
  \/ RefreshStep
  \/ \E e \in Employee : Acquire(e) \/ Release(e) \/ Enable(e) \/ Disable(e)

(* The timer calls refresh again and again, and the database answers. *)
Fairness ==
  \A c \in Call : WF_vars(RefreshAsk(c)) /\ WF_vars(RefreshAnswer(c) \/ RefreshApply(c))

Spec     == Init /\ [][Next]_vars
FairSpec == Spec /\ Fairness

-----------------------------------------------------------------------------
(* As long as the schedule is quiet, the occupation survives a refresh: an *)
(* employee of the snapshot is free exactly when no execution holds them,  *)
(* and nobody has two executions (the comment in refresh: "occupation must *)
(* survive a refresh, or the next tick gives the same employee a second    *)
(* task").                                                                 *)
OccupationSurvives ==
  quiet => /\ \A e \in records : e \in free <=> work[e] = 0
           /\ \A e \in Employee : work[e] <= 1

(* Only employees of the snapshot are free, under every schedule: a        *)
(* release never brings somebody back who was disabled or deleted.         *)
FreeAreKnown == free \subseteq records

(* Edits of the administration take effect: once the set of enabled        *)
(* employees stops changing and the store answers, the snapshot ends up    *)
(* equal to it, although answers of overlapping refreshes may be applied   *)
(* out of order.                                                           *)
EditsTakeEffect ==
  (<>[][\A c \in Call : ~RefreshFails(c)]_vars) =>
     \A S \in SUBSET Employee : <>[](enabled = S) => <>[](records = S)

(* Refuted: no employee works for two executions at once ("the same        *)
(* employee must not be given a second concurrent task").                  *)
NoDoubleWork == \A e \in Employee : work[e] <= 1

(* Refuted as well, by TLC, when it is added to roster.cfg (README, "Known *)
(* deviations"): between refreshes, an employee of the snapshot who is not *)
(* free works for somebody ("dispatched and not released = old set minus   *)
(* free").                                                                 *)
BusyAreWorking == ~Refreshing => \A e \in records \ free : work[e] > 0

=============================================================================
