------------------------ MODULE ManagedRosterProofs ------------------------
(***************************************************************************)
(* Theorems about ManagedRoster, for every set of employees and any number *)
(* of overlapping refreshes: type correctness, free employees are known,   *)
(* and under the quiet schedule the occupation survives a refresh.         *)
(***************************************************************************)
EXTENDS ManagedRoster, TLAPS

LEMMA RosterNextType == TypeOK /\ [Next]_vars => TypeOK'
<1> SUFFICES ASSUME TypeOK, [Next]_vars PROVE TypeOK'
  OBVIOUS
<1> USE RosterAssumption DEF TypeOK, StaysQuiet
<1>1. ASSUME NEW c \in Call,
             RefreshAsk(c) \/ RefreshAnswer(c) \/ RefreshApply(c) \/ RefreshFails(c)
      PROVE  TypeOK'
  <2>1. CASE RefreshAsk(c)
    BY <2>1 DEF RefreshAsk
  <2>2. CASE RefreshAnswer(c)
    BY <2>2 DEF RefreshAnswer
  <2>3. CASE RefreshApply(c) \/ RefreshFails(c)
    BY <2>3 DEF RefreshApply, RefreshFails, IdleCall
  <2> QED
    BY <1>1, <2>1, <2>2, <2>3
<1>2. ASSUME NEW e \in Employee, Acquire(e) \/ Release(e) PROVE TypeOK'
  <2>1. quiet' \in BOOLEAN
    BY <1>2 DEF Acquire, Release
  <2>2. work' \in [Employee -> 0..MaxWork]
    BY <1>2 DEF Acquire, Release
  <2> QED
    BY <1>2, <2>1, <2>2 DEF Acquire, Release
<1>3. ASSUME NEW e \in Employee, Enable(e) \/ Disable(e) PROVE TypeOK'
  BY <1>3 DEF Enable, Disable
<1>4. CASE UNCHANGED vars
  BY <1>4 DEF vars
<1> QED
  BY <1>1, <1>2, <1>3, <1>4 DEF Next, RefreshStep

LEMMA RosterInitType == Init => TypeOK
BY RosterAssumption DEF Init, TypeOK, IdleCall

(* The type invariant of the roster holds in every state. *)
THEOREM RosterTypeCorrect == Spec => []TypeOK
<1>1. Init => TypeOK
  BY RosterInitType
<1>2. TypeOK /\ [Next]_vars => TypeOK'
  BY RosterNextType
<1> QED
  BY <1>1, <1>2, PTL DEF Spec

(* A release never brings back somebody who left the snapshot, whatever    *)
(* overlaps.  FreeAreKnown is inductive as it stands.                      *)
THEOREM FreeStayKnown == Spec => []FreeAreKnown
<1>1. Init => FreeAreKnown
  BY DEF Init, FreeAreKnown
<1>2. FreeAreKnown /\ [Next]_vars => FreeAreKnown'
  <2> SUFFICES ASSUME FreeAreKnown, [Next]_vars PROVE FreeAreKnown'
    OBVIOUS
  <2> USE DEF FreeAreKnown
  <2>1. ASSUME NEW c \in Call,
               RefreshAsk(c) \/ RefreshAnswer(c) \/ RefreshApply(c) \/ RefreshFails(c)
        PROVE  FreeAreKnown'
    BY <2>1 DEF RefreshAsk, RefreshAnswer, RefreshApply, RefreshFails
  <2>2. ASSUME NEW e \in Employee, Acquire(e) \/ Release(e) \/ Enable(e) \/ Disable(e)
        PROVE  FreeAreKnown'
    BY <2>2 DEF Acquire, Release, Enable, Disable
  <2>3. CASE UNCHANGED vars
    BY <2>3 DEF vars
  <2> QED
    BY <2>1, <2>2, <2>3 DEF Next, RefreshStep
<1> QED
  BY <1>1, <1>2, PTL DEF Spec

-----------------------------------------------------------------------------
(* The quiet schedule.                                                     *)

(***************************************************************************)
(* OccupationSurvives is not inductive: a refresh in progress carries the  *)
(* set of busy employees and the answer of the store with it.  While it is *)
(* in progress nobody is acquired or released, so the busy set stays right *)
(* until it is applied, and the snapshot it replaces is still contained in *)
(* the answer, because nobody is ever disabled.                            *)
(***************************************************************************)
Occupation ==
  /\ \A e \in records : e \in free <=> work[e] = 0
  /\ \A e \in Employee : work[e] <= 1
  /\ records \subseteq enabled
  /\ \A e \in Employee : work[e] > 0 => e \in records
  /\ \A c \in Call : call[c].pc # "idle" => call[c].busy = records \ free
  /\ \A c \in Call : call[c].pc = "answered" => records \subseteq call[c].answer /\ call[c].answer \subseteq enabled
  /\ \A c, d \in Call : call[c].pc # "idle" /\ call[d].pc # "idle" => c = d

QuietInv == TypeOK /\ (quiet => Occupation)

LEMMA QuietInit == Init => QuietInv
BY RosterInitType DEF Init, QuietInv, Occupation, IdleCall

LEMMA QuietStep == QuietInv /\ [Next]_vars => QuietInv'
<1> SUFFICES ASSUME QuietInv, [Next]_vars, quiet' PROVE Occupation'
  BY RosterNextType DEF QuietInv
<1>1. TypeOK /\ TypeOK'
  BY RosterNextType DEF QuietInv
<1>2. quiet /\ Occupation
  BY DEF QuietInv, TypeOK, Next, RefreshStep, RefreshAsk, RefreshAnswer, RefreshApply,
         RefreshFails, Acquire, Release, Enable, Disable, StaysQuiet, vars
<1>3. ASSUME NEW c \in Call, RefreshAsk(c) PROVE Occupation'
  BY <1>1, <1>2, <1>3 DEF RefreshAsk, StaysQuiet, Refreshing, Occupation, TypeOK
<1>4. ASSUME NEW c \in Call, RefreshAnswer(c) PROVE Occupation'
  BY <1>1, <1>2, <1>4 DEF RefreshAnswer, Occupation, TypeOK
<1>5. ASSUME NEW c \in Call, RefreshApply(c) PROVE Occupation'
  <2>1. /\ records' = call[c].answer /\ free' = call[c].answer \ call[c].busy
        /\ call' = [call EXCEPT ![c] = IdleCall]
        /\ UNCHANGED <<enabled, work>>
        /\ call[c].pc = "answered"
    BY <1>5 DEF RefreshApply
  <2>2. call[c].busy = records \ free /\ records \subseteq call[c].answer
    BY <1>2, <2>1 DEF Occupation
  <2>3. \A d \in Call : call'[d].pc = "idle"
    BY <1>1, <1>2, <2>1 DEF Occupation, TypeOK, IdleCall
  <2>4. \A e \in records' : e \in free' <=> work'[e] = 0
    <3> SUFFICES ASSUME NEW e \in Employee, e \in records' PROVE e \in free' <=> work'[e] = 0
      BY <1>1 DEF TypeOK
    <3>1. CASE e \in records
      BY <3>1, <1>2, <2>1, <2>2 DEF Occupation
    <3>2. CASE e \notin records
      <4>1. work[e] = 0
        BY <3>2, <1>1, <1>2 DEF Occupation, TypeOK
      <4> QED
        BY <3>2, <4>1, <2>1, <2>2
    <3> QED
      BY <3>1, <3>2
  <2>5. records' \subseteq enabled'
    BY <1>2, <2>1 DEF Occupation
  <2> QED
    BY <1>1, <1>2, <2>1, <2>2, <2>3, <2>4, <2>5 DEF Occupation
<1>6. ASSUME NEW c \in Call, RefreshFails(c) PROVE Occupation'
  BY <1>1, <1>2, <1>6 DEF RefreshFails, Occupation, TypeOK, IdleCall
<1>7. ASSUME NEW e \in Employee, Acquire(e) PROVE Occupation'
  <2>1. \A c \in Call : call[c].pc = "idle"
    BY <1>7 DEF Acquire, StaysQuiet, Refreshing
  <2> QED
    BY <1>1, <1>2, <1>7, <2>1 DEF Acquire, Occupation, TypeOK
<1>8. ASSUME NEW e \in Employee, Release(e) PROVE Occupation'
  <2>1. \A c \in Call : call[c].pc = "idle"
    BY <1>8 DEF Release, StaysQuiet, Refreshing
  <2> QED
    BY <1>1, <1>2, <1>8, <2>1 DEF Release, Occupation, TypeOK
<1>9. ASSUME NEW e \in Employee, Enable(e) PROVE Occupation'
  BY <1>1, <1>2, <1>9 DEF Enable, Occupation, TypeOK
<1>10. ASSUME NEW e \in Employee, Disable(e) PROVE Occupation'
  BY <1>10 DEF Disable
<1>11. CASE UNCHANGED vars
  BY <1>1, <1>2, <1>11 DEF vars, Occupation
<1> QED
  BY <1>3, <1>4, <1>5, <1>6, <1>7, <1>8, <1>9, <1>10, <1>11 DEF Next, RefreshStep

(* As long as the schedule is quiet, nobody works for two executions, and  *)
(* an employee of the snapshot is free exactly when nobody holds them.     *)
THEOREM OccupationIsKept == Spec => []OccupationSurvives
<1>1. Init => QuietInv
  BY QuietInit
<1>2. QuietInv /\ [Next]_vars => QuietInv'
  BY QuietStep
<1>3. QuietInv => OccupationSurvives
  BY DEF QuietInv, Occupation, OccupationSurvives
<1> QED
  BY <1>1, <1>2, <1>3, PTL DEF Spec

=============================================================================
