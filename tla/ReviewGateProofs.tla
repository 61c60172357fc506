-------------------------- MODULE ReviewGateProofs --------------------------
(***************************************************************************)
(* Theorems about ReviewGate, for every set of tasks, items and execution  *)
(* slots: type correctness, and that the resolvers are exactly the         *)
(* executions waiting for a verdict.                                       *)
(***************************************************************************)
EXTENDS ReviewGate, Integers, TLAPS

LEMMA OffType == Off \in [pc : {"off"}, key : Key, verdict : {"none"}]
<1>1. \E k \in Key : TRUE
  <2>1. PICK t \in Task, i \in Item : TRUE
    BY GateAssumption
  <2>2. <<t, i>> \in Key
    BY DEF Key
  <2> QED
    BY <2>2
<1> QED
  BY <1>1 DEF Off

LEMMA GateInitType == Init => TypeOK
<1> SUFFICES ASSUME Init PROVE TypeOK
  OBVIOUS
<1>1. exec \in [Run -> Execution]
  BY OffType DEF Init, Verdict, Execution
<1>2. owner \in [Task -> Run \cup {NoRun}] /\ resolver \in [Key -> Run \cup {NoRun}]
  BY DEF Init
<1>3. emitted \in Seq(Event) /\ record \in [Key -> Record] /\ voiding \subseteq Key
  BY DEF Init, Record
<1>4. silent \in BOOLEAN /\ steady \in BOOLEAN
  BY DEF Init
<1> QED
  BY <1>1, <1>2, <1>3, <1>4 DEF TypeOK

(* What the queue holds. *)
LEMMA QueueElements ==
  ASSUME TypeOK
  PROVE  /\ \A j \in 1..Len(emitted) : emitted[j] \in Event
         /\ \A j \in 1..Len(emitted) : emitted[j].by \in Run
         /\ emitted # << >> => /\ emitted[1] \in Event
                               /\ Head(emitted) = emitted[1]
                               /\ Tail(emitted) \in Seq(Event)
                               /\ 1 \in 1..Len(emitted)
<1>1. emitted \in Seq(Event)
  BY DEF TypeOK
<1>2. \A j \in 1..Len(emitted) : emitted[j] \in Event
  BY <1>1
<1>3. \A ev \in Event : ev.by \in Run
  BY DEF Event
<1>4. emitted # << >> => 1 \in 1..Len(emitted)
  BY <1>1
<1> QED
  BY <1>1, <1>2, <1>3, <1>4

LEMMA DerivedType ==
  ASSUME TypeOK, NEW k \in Key,
         NEW kind \in {"check", "approved", "rejected", "voided"}
  PROVE  Derived(k, kind) \in Record
BY DEF Derived, TypeOK, Record

LEMMA GateNextType == TypeOK /\ [Next]_vars => TypeOK'
<1> SUFFICES ASSUME TypeOK, [Next]_vars PROVE TypeOK'
  OBVIOUS
<1>1. ASSUME NEW r \in Run, NEW t \in Task, Start(r, t) PROVE TypeOK'
  BY <1>1 DEF Start, TypeOK, Execution, Key, Verdict
<1>2. ASSUME NEW r \in Run, NEW i \in Item, Declare(r, i) PROVE TypeOK'
  <2> DEFINE k == <<exec[r].key[1], i>>
  <2>1. k \in Key
    BY DEF TypeOK, Execution, Key
  <2>2. exec' \in [Run -> Execution]
    BY <1>2, <2>1 DEF Declare, AfterEmit, TypeOK, Execution, Verdict
  <2>3. exec'[r].key = k
    BY <1>2 DEF Declare
  <2>4. emitted' \in Seq(Event)
    <3>1. [kind |-> "check", key |-> k, by |-> r] \in Event
      BY <2>1 DEF Event
    <3> QED
      <4>1. \/ emitted' = emitted
            \/ emitted' = Append(emitted, [kind |-> "check", key |-> k, by |-> r])
        <5>1. EmitOrFail("check", r)
          BY <1>2 DEF Declare
        <5> QED
          BY <2>3, <5>1 DEF EmitOrFail, Emit
      <4>2. emitted \in Seq(Event)
        BY DEF TypeOK
      <4> HIDE DEF k
      <4> QED
        BY <3>1, <4>1, <4>2
  <2> QED
    BY <1>2, <2>1, <2>2, <2>4 DEF Declare, TypeOK
<1>3. ASSUME NEW r \in Run, Report(r) PROVE TypeOK'
  <2>1. exec' \in [Run -> Execution]
    BY <1>3 DEF Report, AfterEmit, TypeOK, Execution
  <2>2. exec[r].verdict \in {"approved", "rejected"}
    BY <1>3 DEF Report, TypeOK, Execution, Verdict
  <2>3. emitted' \in Seq(Event)
    <3>1. [kind |-> exec[r].verdict, key |-> exec'[r].key, by |-> r] \in Event
      BY <2>1, <2>2 DEF Event, Execution
    <3>2. \/ emitted' = emitted
          \/ emitted' = Append(emitted, [kind |-> exec[r].verdict, key |-> exec'[r].key, by |-> r])
      BY <1>3 DEF Report, EmitOrFail, Emit
    <3> QED
      BY <3>1, <3>2 DEF TypeOK
  <2> QED
    BY <1>3, <2>1, <2>3 DEF Report, TypeOK
<1>4. ASSUME Write PROVE TypeOK'
  <2> DEFINE e == Head(emitted)
  <2>1. e \in Event /\ Tail(emitted) \in Seq(Event)
    BY <1>4, QueueElements DEF Write
  <2>2. e.key \in Key /\ e.by \in Run /\ Derived(e.key, e.kind) \in Record
    BY <2>1, DerivedType DEF Event
  <2>4. exec' \in [Run -> Execution]
    BY <1>4, <2>2 DEF Write, TypeOK, Execution
  <2>5. record' \in [Key -> Record]
    BY <1>4, <2>2 DEF Write, Stored, TypeOK
  <2> QED
    BY <1>4, <2>1, <2>4, <2>5 DEF Write, TypeOK
<1>4a. ASSUME Silence PROVE TypeOK'
  <2>1. Head(emitted) \in Event /\ << >> \in Seq(Event)
    BY <1>4a, QueueElements DEF Silence
  <2>2. Stored(Head(emitted)) \in [Key -> Record]
    BY <2>1, DerivedType DEF Stored, Event, TypeOK
  <2>3. exec' \in [Run -> Execution]
    BY <1>4a DEF Silence, TypeOK, Execution
  <2> QED
    BY <1>4a, <2>1, <2>2, <2>3 DEF Silence, TypeOK
<1>5. ASSUME NEW r \in Run, End(r) PROVE TypeOK'
  BY <1>5, OffType DEF End, TypeOK, Execution, Verdict
<1>6. ASSUME NEW k \in Key, Review(k) PROVE TypeOK'
  <2>1. exec' \in [Run -> Execution]
    BY <1>6 DEF Review, TypeOK, Execution, Verdict
  <2> QED
    BY <1>6, <2>1 DEF Review, TypeOK
<1>7. ASSUME NEW k \in Key, VoidRead(k) \/ VoidWrite(k) PROVE TypeOK'
  BY <1>7, DerivedType DEF VoidRead, VoidWrite, TypeOK
<1>8. ASSUME NEW t \in Task, GiveUp(t) PROVE TypeOK'
  BY <1>8 DEF GiveUp, TypeOK
<1>9. CASE Crash
  <2>1. exec' \in [Run -> Execution]
    BY <1>9, OffType DEF Crash, Execution, Verdict
  <2>2. emitted' \in Seq(Event)
    <3>1. << >> \in Seq(Event)
      OBVIOUS
    <3> QED
      BY <1>9, <3>1 DEF Crash
  <2> QED
    BY <1>9, <2>1, <2>2 DEF Crash, TypeOK
<1>10. CASE UNCHANGED vars
  BY <1>10 DEF vars, TypeOK
<1> QED
  BY <1>1, <1>2, <1>3, <1>4, <1>4a, <1>5, <1>6, <1>7, <1>8, <1>9, <1>10
     DEF Next

(* The type invariant of the gate holds in every state. *)
THEOREM GateTypeCorrect == Spec => []TypeOK
<1> QED
  BY GateInitType, GateNextType, PTL DEF Spec

-----------------------------------------------------------------------------
(* Resolvers.                                                              *)

(***************************************************************************)
(* An execution that emitted something waits for the write: the queue      *)
(* holds at most one event of each execution, and its kind tells where the *)
(* execution stands.  Without this, a write could let an execution wait    *)
(* that has no resolver.  And nothing waits on a bus that rejects.         *)
(***************************************************************************)
QueueMatches ==
  /\ silent => emitted = << >>
  /\ \A i \in 1..Len(emitted) :
       exec[emitted[i].by].pc = IF emitted[i].kind = "check" THEN "emitting" ELSE "reporting"
  /\ \A i, j \in 1..Len(emitted) : emitted[i].by = emitted[j].by => i = j

GateInv == TypeOK /\ ResolversAreWaiting /\ QueueMatches

LEMMA GateInvInit == Init => GateInv
BY GateInitType, OffType, GateAssumption
   DEF Init, GateInv, ResolversAreWaiting, AwaitsVerdict, QueueMatches, Off, TypeOK

LEMMA QueueStep == GateInv /\ [Next]_vars => QueueMatches'
<1> SUFFICES ASSUME GateInv, [Next]_vars PROVE QueueMatches'
  OBVIOUS
<1> USE DEF QueueMatches, TypeOK, Execution
<1>1. ASSUME NEW r \in Run, NEW t \in Task, Start(r, t) PROVE QueueMatches'
  BY <1>1 DEF GateInv, Start
<1>2. ASSUME NEW r \in Run, NEW i \in Item, Declare(r, i), ~silent PROVE QueueMatches'
  <2>1. \A j \in 1..Len(emitted) : emitted[j].by # r
    BY <1>2 DEF GateInv, Declare
  <2>2. /\ Len(emitted') = Len(emitted) + 1
        /\ \A j \in 1..Len(emitted) : emitted'[j] = emitted[j]
        /\ emitted'[Len(emitted) + 1] = [kind |-> "check", key |-> exec'[r].key, by |-> r]
    BY <1>2 DEF GateInv, Declare, EmitOrFail, Emit
  <2>3. /\ exec'[r].pc = "emitting" /\ ~silent'
        /\ \A q \in Run : q # r => exec'[q].pc = exec[q].pc
    BY <1>2 DEF GateInv, Declare, AfterEmit
  <2>4. \A j \in 1..Len(emitted) : emitted[j].by \in Run
    BY QueueElements DEF GateInv
  <2>5. \A j \in 1..Len(emitted) :
          exec'[emitted'[j].by].pc = IF emitted'[j].kind = "check" THEN "emitting" ELSE "reporting"
    <3>1. \A j \in 1..Len(emitted) : exec'[emitted[j].by].pc = exec[emitted[j].by].pc
      BY <2>1, <2>3, <2>4
    <3>2. \A j \in 1..Len(emitted) :
            exec[emitted[j].by].pc = IF emitted[j].kind = "check" THEN "emitting" ELSE "reporting"
      BY DEF GateInv
    <3> QED
      BY <2>2, <3>1, <3>2
  <2>6. LET ev == emitted'[Len(emitted) + 1]
        IN  exec'[ev.by].pc = IF ev.kind = "check" THEN "emitting" ELSE "reporting"
    BY <2>2, <2>3
  <2>7. \A j \in 1..Len(emitted) : emitted'[j].by # emitted'[Len(emitted) + 1].by
    BY <2>1, <2>2
  <2>8. \A i1, j1 \in 1..Len(emitted) : emitted'[i1].by = emitted'[j1].by => i1 = j1
    BY <2>2 DEF GateInv
  <2>9. Len(emitted) \in Nat /\ \A j \in 1..Len(emitted') : j \in 1..Len(emitted) \/ j = Len(emitted) + 1
    BY <2>2 DEF GateInv
  <2> QED
    BY <2>3, <2>5, <2>6, <2>7, <2>8, <2>9
<1>3. ASSUME NEW r \in Run, Report(r), ~silent PROVE QueueMatches'
  <2>1. \A j \in 1..Len(emitted) : emitted[j].by # r
    BY <1>3 DEF GateInv, Report
  <2>2. /\ Len(emitted') = Len(emitted) + 1
        /\ \A j \in 1..Len(emitted) : emitted'[j] = emitted[j]
        /\ emitted'[Len(emitted) + 1] = [kind |-> exec[r].verdict, key |-> exec'[r].key, by |-> r]
        /\ exec[r].verdict # "check"
    <3>1. emitted' = Append(emitted, [kind |-> exec[r].verdict, key |-> exec'[r].key, by |-> r])
      BY <1>3 DEF Report, EmitOrFail, Emit
    <3>2. exec[r].verdict # "check"
      BY DEF GateInv, Verdict
    <3> QED
      BY <3>1, <3>2 DEF GateInv
  <2>3. /\ exec'[r].pc = "reporting" /\ ~silent'
        /\ \A q \in Run : q # r => exec'[q].pc = exec[q].pc
    BY <1>3 DEF GateInv, Report, AfterEmit
  <2>4. \A j \in 1..Len(emitted) : emitted[j].by \in Run
    BY QueueElements DEF GateInv
  <2>5. \A j \in 1..Len(emitted) :
          exec'[emitted'[j].by].pc = IF emitted'[j].kind = "check" THEN "emitting" ELSE "reporting"
    <3>1. \A j \in 1..Len(emitted) : exec'[emitted[j].by].pc = exec[emitted[j].by].pc
      BY <2>1, <2>3, <2>4
    <3>2. \A j \in 1..Len(emitted) :
            exec[emitted[j].by].pc = IF emitted[j].kind = "check" THEN "emitting" ELSE "reporting"
      BY DEF GateInv
    <3> QED
      BY <2>2, <3>1, <3>2
  <2>6. LET ev == emitted'[Len(emitted) + 1]
        IN  exec'[ev.by].pc = IF ev.kind = "check" THEN "emitting" ELSE "reporting"
    BY <2>2, <2>3
  <2>7. \A j \in 1..Len(emitted) : emitted'[j].by # emitted'[Len(emitted) + 1].by
    BY <2>1, <2>2
  <2>8. \A i1, j1 \in 1..Len(emitted) : emitted'[i1].by = emitted'[j1].by => i1 = j1
    BY <2>2 DEF GateInv
  <2>9. Len(emitted) \in Nat /\ \A j \in 1..Len(emitted') : j \in 1..Len(emitted) \/ j = Len(emitted) + 1
    BY <2>2 DEF GateInv
  <2> QED
    BY <2>3, <2>5, <2>6, <2>7, <2>8, <2>9
<1>3a. ASSUME NEW r \in Run, Report(r) \/ (\E i \in Item : Declare(r, i)), silent PROVE QueueMatches'
  <2>1. emitted = << >> /\ emitted' = emitted
    BY <1>3a DEF GateInv, Report, Declare, EmitOrFail
  <2> QED
    BY <2>1
<1>3b. CASE Silence
  BY <1>3b DEF Silence
<1>4. ASSUME Write PROVE QueueMatches'
  <2>1. /\ emitted # << >> /\ ~silent'
        /\ emitted' = Tail(emitted)
        /\ exec' = [exec EXCEPT ![emitted[1].by].pc =
                      IF emitted[1].kind = "check" THEN "waiting" ELSE "work"]
    BY <1>4, QueueElements DEF GateInv, Write
  <2>2. /\ Len(emitted') = Len(emitted) - 1
        /\ \A j \in 1..Len(emitted') : emitted'[j] = emitted[j + 1]
    BY <2>1 DEF GateInv
  <2>3. \A j \in 1..Len(emitted') : emitted[j + 1].by # emitted[1].by
    BY <2>1, <2>2 DEF GateInv
  <2>4. \A j \in 1..Len(emitted) : emitted[j].by \in Run
    BY QueueElements DEF GateInv
  <2> QED
    BY <2>1, <2>2, <2>3, <2>4 DEF GateInv
<1>5. ASSUME NEW r \in Run, End(r) PROVE QueueMatches'
  <2>1. /\ exec[r].pc = "work" /\ UNCHANGED <<emitted, silent>>
        /\ \A q \in Run : q # r => exec'[q] = exec[q]
    BY <1>5 DEF GateInv, End
  <2> QED
    BY <2>1, QueueElements DEF GateInv
<1>6. ASSUME NEW k \in Key, Review(k) PROVE QueueMatches'
  <2>1. /\ \A r \in Run : exec'[r].pc = exec[r].pc
        /\ UNCHANGED <<emitted, silent>>
    BY <1>6 DEF GateInv, Review
  <2> QED
    BY <2>1, QueueElements DEF GateInv
<1>7. ASSUME NEW k \in Key, VoidRead(k) \/ VoidWrite(k) PROVE QueueMatches'
  BY <1>7 DEF GateInv, VoidRead, VoidWrite
<1>8. ASSUME NEW t \in Task, GiveUp(t) PROVE QueueMatches'
  BY <1>8 DEF GateInv, GiveUp
<1>9. CASE Crash
  BY <1>9 DEF Crash
<1>10. CASE UNCHANGED vars
  BY <1>10 DEF vars, GateInv
<1> QED
  BY <1>1, <1>2, <1>3, <1>3a, <1>3b, <1>4, <1>5, <1>6, <1>7, <1>8, <1>9, <1>10
     DEF Next

LEMMA ResolverStep == GateInv /\ [Next]_vars => ResolversAreWaiting'
<1> SUFFICES ASSUME GateInv, [Next]_vars PROVE ResolversAreWaiting'
  OBVIOUS
<1> USE GateAssumption DEF ResolversAreWaiting, AwaitsVerdict, TypeOK, Execution
<1>1. ASSUME NEW r \in Run, NEW t \in Task, Start(r, t) PROVE ResolversAreWaiting'
  BY <1>1 DEF GateInv, Start
<1>2. ASSUME NEW r \in Run, NEW i \in Item, Declare(r, i) PROVE ResolversAreWaiting'
  <2> DEFINE k == <<exec[r].key[1], i>>
  <2>1. k \in Key
    BY DEF GateInv, Key
  <2>2. /\ exec'[r] = [pc |-> AfterEmit("emitting"), key |-> k, verdict |-> "none"]
        /\ silent' = silent
    BY <1>2 DEF Declare
  <2>3. \A q \in Run : q # r =>
          exec'[q] = IF Hears(q, k) THEN [exec[q] EXCEPT !.verdict = "rejected"] ELSE exec[q]
    BY <1>2 DEF Declare
  <2>4. resolver' = [resolver EXCEPT ![k] = r]
    BY <1>2 DEF Declare
  <2>5. ~silent => \A j \in Key : resolver[j] # r
    BY <1>2 DEF Declare, GateInv
  <2> HIDE DEF k
  <2>6. ASSUME NEW q \in Run, AwaitsVerdict(q)' PROVE resolver'[exec'[q].key] = q
    <3>1. CASE q = r
      BY <3>1, <2>1, <2>2, <2>4 DEF GateInv
    <3>2. CASE q # r
      <4>1. ~Hears(q, k) /\ exec'[q] = exec[q]
        <5>1. CASE Hears(q, k)
          <6>1. exec'[q] = [exec[q] EXCEPT !.verdict = "rejected"]
            BY <3>2, <5>1, <2>3
          <6>2. exec'[q].verdict = "rejected"
            BY <6>1 DEF GateInv
          <6> QED
            BY <6>2, <2>6
        <5>2. CASE ~Hears(q, k)
          BY <3>2, <5>2, <2>3
        <5> QED
          BY <5>1, <5>2
      <4>2. AwaitsVerdict(q) /\ resolver[exec[q].key] = q /\ exec[q].key \in Key
        BY <4>1, <2>6 DEF GateInv
      <4>3. exec[q].key # k
        BY <4>1, <4>2 DEF Hears
      <4> QED
        BY <2>4, <4>1, <4>2, <4>3
    <3> QED
      BY <3>1, <3>2
  <2>7. ASSUME ~silent', NEW j \in Key, resolver'[j] # NoRun
        PROVE  AwaitsVerdict(resolver[j])' /\ exec'[resolver'[j]].key = j
    <3>1. CASE j = k
      BY <3>1, <2>1, <2>2, <2>4, <2>7 DEF GateInv, AfterEmit
    <3>2. CASE j # k
      <4>1. resolver'[j] = resolver[j] /\ resolver[j] \in Run /\ resolver[j] # r
        BY <3>2, <2>2, <2>4, <2>5, <2>7 DEF GateInv
      <4>2. AwaitsVerdict(resolver[j]) /\ exec[resolver[j]].key = j
        BY <4>1, <2>2, <2>7 DEF GateInv
      <4>3. ~Hears(resolver[j], k)
        BY <3>2, <4>2 DEF Hears
      <4> QED
        BY <4>1, <4>2, <4>3, <2>3
    <3> QED
      BY <3>1, <3>2
  <2> QED
    BY <2>6, <2>7
<1>3. ASSUME NEW r \in Run, Report(r) PROVE ResolversAreWaiting'
  BY <1>3 DEF GateInv, Report, AfterEmit
<1>3a. CASE Silence
  BY <1>3a DEF GateInv, Silence
<1>4. ASSUME Write PROVE ResolversAreWaiting'
  <2> DEFINE e == emitted[1]
  <2>1. /\ e.by \in Run
        /\ exec' = [exec EXCEPT ![e.by].pc = IF e.kind = "check" THEN "waiting" ELSE "work"]
        /\ resolver' = resolver /\ silent' = silent
    BY <1>4, QueueElements DEF GateInv, Write
  <2>2. exec[e.by].pc = IF e.kind = "check" THEN "emitting" ELSE "reporting"
    BY <1>4, QueueElements DEF GateInv, Write, QueueMatches
  <2>3. \A q \in Run : AwaitsVerdict(q)' = AwaitsVerdict(q) /\ exec'[q].key = exec[q].key
    BY <2>1, <2>2 DEF GateInv
  <2> QED
    BY <2>1, <2>3 DEF GateInv
<1>5. ASSUME NEW r \in Run, End(r) PROVE ResolversAreWaiting'
  BY <1>5, OffType DEF GateInv, End
<1>6. ASSUME NEW k \in Key, Review(k) PROVE ResolversAreWaiting'
  <2>1. /\ \A r \in Run :
             /\ exec'[r].pc = exec[r].pc /\ exec'[r].key = exec[r].key
             /\ IF Hears(r, k) THEN exec'[r].verdict # "none" ELSE exec'[r] = exec[r]
        /\ resolver' = [resolver EXCEPT ![k] = NoRun] /\ silent' = silent
    BY <1>6 DEF GateInv, Review
  <2>2. ASSUME NEW r \in Run, AwaitsVerdict(r)' PROVE resolver'[exec'[r].key] = r
    BY <2>1, <2>2 DEF GateInv, Hears
  <2>3. ASSUME ~silent', NEW j \in Key, resolver'[j] # NoRun
        PROVE  AwaitsVerdict(resolver[j])' /\ exec'[resolver'[j]].key = j
    <3>1. j # k /\ resolver'[j] = resolver[j] /\ resolver[j] \in Run
      BY <2>1, <2>3 DEF GateInv
    <3>2. AwaitsVerdict(resolver[j]) /\ exec[resolver[j]].key = j
      BY <2>1, <2>3, <3>1 DEF GateInv
    <3> QED
      BY <2>1, <3>1, <3>2 DEF Hears
  <2> QED
    BY <2>2, <2>3
<1>7. ASSUME NEW k \in Key, VoidRead(k) \/ VoidWrite(k) PROVE ResolversAreWaiting'
  BY <1>7 DEF GateInv, VoidRead, VoidWrite
<1>8. ASSUME NEW t \in Task, GiveUp(t) PROVE ResolversAreWaiting'
  BY <1>8 DEF GateInv, GiveUp
<1>9. CASE Crash
  BY <1>9, OffType DEF Crash
<1>10. CASE UNCHANGED vars
  BY <1>10 DEF vars, GateInv
<1> QED
  BY <1>1, <1>2, <1>3, <1>3a, <1>4, <1>5, <1>6, <1>7, <1>8, <1>9, <1>10
     DEF Next

(* The registered resolvers are exactly the executions that wait for a     *)
(* verdict, whatever is given up, voided or crashes: CheckReviewQueue      *)
(* never leaves an execution nobody can wake.                              *)
THEOREM ResolversAgree == Spec => []ResolversAreWaiting
<1>1. Init => GateInv
  BY GateInvInit
<1>2. GateInv /\ [Next]_vars => GateInv'
  BY GateNextType, QueueStep, ResolverStep DEF GateInv
<1>3. GateInv => ResolversAreWaiting
  BY DEF GateInv
<1> QED
  BY <1>1, <1>2, <1>3, PTL DEF Spec


-----------------------------------------------------------------------------
(* The list of pending checks, as long as no execution is given up.        *)

(* Whoever executes owns the task.                                         *)
Owners == \A r \in Run : exec[r].pc # "off" => owner[exec[r].key[1]] = r

(* An event in the queue is about the item its execution is at.            *)
EventsAreCurrent == \A j \in 1..Len(emitted) : emitted[j].key = exec[emitted[j].by].key

ReportsVerdict == \A r \in Run : exec[r].pc = "reporting" => exec[r].verdict # "none"

(* A pending check belongs to somebody who waits or is about to report.    *)
PendingIsHeld ==
  \A k \in Key : record[k] = "pending" =>
    \E r \in Run : exec[r].key = k /\ exec[r].pc \in {"waiting", "reporting"}

WaitingIsPending == \A r \in Run : exec[r].pc = "waiting" => record[exec[r].key] = "pending"

SteadyInv ==
  steady => /\ ~silent /\ Owners /\ EventsAreCurrent /\ ReportsVerdict /\ PendingIsHeld /\ WaitingIsPending
            /\ voiding = {}

LEMMA SteadyInit == Init => SteadyInv
BY OffType DEF Init, SteadyInv, Owners, EventsAreCurrent, ReportsVerdict, PendingIsHeld, WaitingIsPending

(* The event at the head of the queue.                                     *)
LEMMA HeadIsCurrent ==
  ASSUME GateInv, SteadyInv, steady, emitted # << >>
  PROVE  /\ emitted[1].by \in Run /\ emitted[1].key \in Key
         /\ emitted[1].key = exec[emitted[1].by].key
         /\ emitted[1].kind \in {"check", "approved", "rejected"}
         /\ exec[emitted[1].by].pc = IF emitted[1].kind = "check" THEN "emitting" ELSE "reporting"
<1>1. emitted[1] \in Event /\ 1 \in 1..Len(emitted)
  BY QueueElements DEF GateInv
<1> QED
  BY <1>1 DEF Event, GateInv, QueueMatches, SteadyInv, EventsAreCurrent

LEMMA SteadyStep == GateInv /\ SteadyInv /\ [Next]_vars => SteadyInv'
<1> SUFFICES ASSUME GateInv, SteadyInv, [Next]_vars, steady' PROVE SteadyInv'
  BY DEF SteadyInv
<1>1. steady
  BY DEF Next, Start, Declare, Report, End, Write, Silence, Review, VoidRead, VoidWrite, GiveUp, Crash, vars
<1>2. /\ exec \in [Run -> Execution] /\ owner \in [Task -> Run \cup {NoRun}]
      /\ record \in [Key -> Record] /\ emitted \in Seq(Event) /\ Len(emitted) \in Nat
      /\ \A r \in Run : exec[r].key \in Key /\ exec[r].key[1] \in Task
      /\ \A r \in Run : exec[r].key = <<exec[r].key[1], exec[r].key[2]>>
      /\ Owners /\ EventsAreCurrent /\ ReportsVerdict /\ PendingIsHeld /\ WaitingIsPending
      /\ voiding = {} /\ ~silent
  BY <1>1 DEF GateInv, TypeOK, SteadyInv, Execution, Key
<1>2a. ~silent'
  BY <1>1, <1>2 DEF Next, Start, Declare, Report, End, Write, Silence, Review, VoidRead, VoidWrite,
                    GiveUp, Crash, vars
<1>3. \A j \in 1..Len(emitted) : emitted[j].by \in Run /\ exec[emitted[j].by].pc \in {"emitting", "reporting"}
  BY QueueElements DEF GateInv, QueueMatches
<1>4. ASSUME NEW r \in Run, NEW t \in Task, Start(r, t) PROVE SteadyInv'
  <2>1. PICK i \in Item :
          exec' = [exec EXCEPT ![r] = [pc |-> "work", key |-> <<t, i>>, verdict |-> "none"]]
    BY <1>4 DEF Start
  <2>2. /\ exec'[r].pc = "work" /\ exec'[r].key[1] = t /\ exec[r].pc = "off"
        /\ \A q \in Run \ {r} : exec'[q] = exec[q]
        /\ owner' = [owner EXCEPT ![t] = r] /\ owner[t] = NoRun
        /\ UNCHANGED <<record, emitted, voiding>>
    BY <1>2, <1>4, <2>1 DEF Start
  <2>3. Owners'
    BY <1>2, <2>2, GateAssumption DEF Owners
  <2>4. EventsAreCurrent'
    BY <1>2, <1>3, <2>2 DEF EventsAreCurrent
  <2>5. ReportsVerdict' /\ PendingIsHeld' /\ WaitingIsPending'
    BY <1>2, <2>2 DEF ReportsVerdict, PendingIsHeld, WaitingIsPending
  <2> QED
    BY <1>2a, <1>2, <2>2, <2>3, <2>4, <2>5 DEF SteadyInv
<1>5. ASSUME NEW r \in Run, NEW i \in Item, Declare(r, i) PROVE SteadyInv'
  <2> DEFINE k == <<exec[r].key[1], i>>
  <2>1. /\ exec'[r] = [pc |-> "emitting", key |-> k, verdict |-> "none"] /\ exec[r].pc = "work"
        /\ emitted' = Append(emitted, [kind |-> "check", key |-> exec'[r].key, by |-> r])
        /\ UNCHANGED <<owner, record, voiding>>
    BY <1>2, <1>5 DEF Declare, EmitOrFail, AfterEmit, Emit
  <2>2. exec'[r].pc = "emitting" /\ exec'[r].key[1] = exec[r].key[1]
    BY <2>1
  <2>3. \A q \in Run \ {r} :
          /\ exec'[q].pc = exec[q].pc /\ exec'[q].key = exec[q].key
          /\ exec[q].verdict # "none" => exec'[q].verdict # "none"
    BY <1>2, <1>5 DEF Declare, Execution
  <2> HIDE DEF k
  <2>6. Owners'
    BY <1>2, <2>1, <2>2, <2>3 DEF Owners
  <2>7. ReportsVerdict'
    BY <1>2, <2>2, <2>3 DEF ReportsVerdict
  <2>8. WaitingIsPending'
    BY <1>2, <2>1, <2>2, <2>3 DEF WaitingIsPending
  <2>9. PendingIsHeld'
    <3> SUFFICES ASSUME NEW l \in Key, record[l] = "pending"
                 PROVE  \E q \in Run : exec'[q].key = l /\ exec'[q].pc \in {"waiting", "reporting"}
      BY <2>1 DEF PendingIsHeld
    <3>1. PICK q \in Run : exec[q].key = l /\ exec[q].pc \in {"waiting", "reporting"}
      BY <1>2 DEF PendingIsHeld
    <3>2. q # r
      BY <2>1, <3>1
    <3> QED
      BY <2>3, <3>1, <3>2
  <2>5. EventsAreCurrent'
    <3>1. /\ Len(emitted') = Len(emitted) + 1
          /\ \A j \in 1..Len(emitted) : emitted'[j] = emitted[j]
          /\ emitted'[Len(emitted) + 1].key = exec'[r].key /\ emitted'[Len(emitted) + 1].by = r
      BY <1>2, <2>1
    <3>2. \A j \in 1..Len(emitted) : emitted[j].by # r
      BY <1>3, <2>1
    <3>3. \A j \in 1..Len(emitted) : emitted'[j].key = exec'[emitted'[j].by].key
      BY <1>2, <1>3, <2>3, <3>1, <3>2 DEF EventsAreCurrent
    <3>4. \A j \in 1..Len(emitted') : j \in 1..Len(emitted) \/ j = Len(emitted) + 1
      BY <1>2, <3>1
    <3> QED
      BY <3>1, <3>3, <3>4 DEF EventsAreCurrent
  <2> QED
    BY <1>2a, <1>2, <2>1, <2>5, <2>6, <2>7, <2>8, <2>9 DEF SteadyInv
<1>6. ASSUME NEW r \in Run, Report(r) PROVE SteadyInv'
  <2>1. /\ exec' = [exec EXCEPT ![r].pc = "reporting"] /\ exec[r].pc = "waiting"
        /\ exec[r].verdict # "none"
        /\ emitted' = Append(emitted, [kind |-> exec[r].verdict, key |-> exec'[r].key, by |-> r])
        /\ UNCHANGED <<owner, record, voiding>>
    BY <1>2, <1>6 DEF Report, EmitOrFail, AfterEmit, Emit
  <2>2. /\ exec'[r].pc = "reporting" /\ exec'[r].key = exec[r].key /\ exec'[r].verdict # "none"
        /\ \A q \in Run \ {r} : exec'[q] = exec[q]
    BY <1>2, <2>1 DEF Execution
  <2>3. Owners' /\ ReportsVerdict' /\ PendingIsHeld' /\ WaitingIsPending'
    BY <1>2, <2>1, <2>2 DEF Owners, ReportsVerdict, PendingIsHeld, WaitingIsPending
  <2>4. EventsAreCurrent'
    <3>1. /\ Len(emitted') = Len(emitted) + 1
          /\ \A j \in 1..Len(emitted) : emitted'[j] = emitted[j]
          /\ emitted'[Len(emitted) + 1].key = exec'[r].key /\ emitted'[Len(emitted) + 1].by = r
      BY <1>2, <2>1
    <3>2. \A j \in 1..Len(emitted) : emitted'[j].key = exec'[emitted'[j].by].key
      BY <1>2, <1>3, <2>2, <3>1 DEF EventsAreCurrent
    <3>3. \A j \in 1..Len(emitted') : j \in 1..Len(emitted) \/ j = Len(emitted) + 1
      BY <1>2, <3>1
    <3> QED
      BY <3>1, <3>2, <3>3 DEF EventsAreCurrent
  <2> QED
    BY <1>2a, <1>2, <2>1, <2>3, <2>4 DEF SteadyInv
<1>7. CASE Write
  <2> DEFINE r == emitted[1].by
             k == emitted[1].key
  <2>1. /\ emitted # << >> /\ emitted' = Tail(emitted) /\ UNCHANGED <<owner, voiding>>
        /\ exec' = [exec EXCEPT ![r].pc = IF emitted[1].kind = "check" THEN "waiting" ELSE "work"]
        /\ record' = [record EXCEPT ![k] = Derived(k, emitted[1].kind)]
    BY <1>7, QueueElements DEF GateInv, Write, Stored
  <2>2. /\ r \in Run /\ k \in Key /\ k = exec[r].key
        /\ emitted[1].kind \in {"check", "approved", "rejected"}
        /\ exec[r].pc = IF emitted[1].kind = "check" THEN "emitting" ELSE "reporting"
    BY <1>1, <2>1, HeadIsCurrent
  <2>3. \A q \in Run : exec'[q].key = exec[q].key /\ exec'[q].verdict = exec[q].verdict
    BY <1>2, <2>1, <2>2 DEF Execution
  <2>4. /\ exec'[r].pc = IF emitted[1].kind = "check" THEN "waiting" ELSE "work"
        /\ \A q \in Run : q # r => exec'[q] = exec[q]
    BY <1>2, <2>1, <2>2 DEF Execution
  <2>5. /\ record'[k] = "pending" <=> emitted[1].kind = "check"
        /\ \A l \in Key : l # k => record'[l] = record[l]
    BY <1>2, <2>1, <2>2 DEF Derived, Record
  <2> HIDE DEF r, k
  <2>6. Owners' /\ ReportsVerdict'
    BY <1>2, <2>1, <2>2, <2>3, <2>4 DEF Owners, ReportsVerdict
  <2>7. \A q \in Run : q # r /\ exec[q].pc # "off" => exec[q].key # k
    BY <1>2, <2>2 DEF Owners
  <2>8. WaitingIsPending'
    BY <1>2, <2>2, <2>3, <2>4, <2>5, <2>7 DEF WaitingIsPending
  <2>9. PendingIsHeld'
    <3> SUFFICES ASSUME NEW l \in Key, record'[l] = "pending"
                 PROVE  \E q \in Run : exec'[q].key = l /\ exec'[q].pc \in {"waiting", "reporting"}
      BY DEF PendingIsHeld
    <3>1. CASE l = k
      BY <2>2, <2>3, <2>4, <2>5, <3>1
    <3>2. CASE l # k
      <4>1. PICK q \in Run : exec[q].key = l /\ exec[q].pc \in {"waiting", "reporting"}
        BY <1>2, <2>5, <3>2 DEF PendingIsHeld
      <4>2. q # r
        BY <2>2, <3>2, <4>1
      <4> QED
        BY <2>4, <4>1, <4>2
    <3> QED
      BY <3>1, <3>2
  <2>10. EventsAreCurrent'
    <3>1. /\ Len(emitted') = Len(emitted) - 1
          /\ \A j \in 1..Len(emitted') : emitted'[j] = emitted[j + 1]
      BY <1>2, <2>1
    <3> QED
      BY <1>2, <1>3, <2>3, <3>1 DEF EventsAreCurrent
  <2> QED
    BY <1>2a, <1>2, <2>1, <2>6, <2>8, <2>9, <2>10 DEF SteadyInv
<1>8. ASSUME NEW r \in Run, End(r) PROVE SteadyInv'
  <2>1. /\ exec[r].pc = "work" /\ exec'[r].pc = "off" /\ \A q \in Run \ {r} : exec'[q] = exec[q]
        /\ owner' = [t \in Task |-> IF owner[t] = r THEN NoRun ELSE owner[t]]
        /\ UNCHANGED <<record, emitted, voiding>>
    BY <1>2, <1>8, OffType DEF End
  <2>2. Owners'
    BY <1>2, <2>1 DEF Owners
  <2>3. EventsAreCurrent'
    BY <1>2, <1>3, <2>1 DEF EventsAreCurrent
  <2>4. ReportsVerdict' /\ WaitingIsPending'
    BY <1>2, <2>1 DEF ReportsVerdict, WaitingIsPending
  <2>5. PendingIsHeld'
    BY <1>2, <2>1 DEF PendingIsHeld
  <2> QED
    BY <1>2a, <1>2, <2>1, <2>2, <2>3, <2>4, <2>5 DEF SteadyInv
<1>9. ASSUME NEW k \in Key, Review(k) PROVE SteadyInv'
  <2>1. /\ UNCHANGED <<owner, record, emitted, voiding>>
        /\ \E v \in {"approved", "rejected"} :
             exec' = [r \in Run |-> IF Hears(r, k) THEN [exec[r] EXCEPT !.verdict = v] ELSE exec[r]]
    BY <1>9 DEF Review
  <2>2. \A q \in Run : /\ exec'[q].pc = exec[q].pc /\ exec'[q].key = exec[q].key
                       /\ exec[q].verdict # "none" => exec'[q].verdict # "none"
    BY <1>2, <2>1 DEF Execution
  <2>3. Owners'
    BY <1>2, <2>1, <2>2 DEF Owners
  <2>4. EventsAreCurrent'
    BY <1>2, <1>3, <2>1, <2>2 DEF EventsAreCurrent
  <2>5. ReportsVerdict'
    BY <1>2, <2>2 DEF ReportsVerdict
  <2>6. WaitingIsPending'
    BY <1>2, <2>1, <2>2 DEF WaitingIsPending
  <2>7. PendingIsHeld'
    BY <1>2, <2>1, <2>2 DEF PendingIsHeld
  <2> QED
    BY <1>2a, <1>2, <2>1, <2>3, <2>4, <2>5, <2>6, <2>7 DEF SteadyInv
<1>10. ASSUME NEW k \in Key, VoidRead(k) \/ VoidWrite(k) PROVE FALSE
  <2>1. CASE VoidRead(k)
    <3>1. record[k] = "pending" /\ owner[k[1]] = NoRun
      BY <2>1 DEF VoidRead, Expired
    <3>2. PICK r \in Run : exec[r].key = k /\ exec[r].pc \in {"waiting", "reporting"}
      BY <1>2, <3>1 DEF PendingIsHeld
    <3> QED
      BY <1>2, <3>1, <3>2, GateAssumption DEF Owners
  <2>2. CASE VoidWrite(k)
    BY <1>2, <2>2 DEF VoidWrite
  <2> QED
    BY <1>10, <2>1, <2>2
<1>11. ASSUME (\E t \in Task : GiveUp(t)) \/ Crash \/ Silence PROVE FALSE
  BY <1>11 DEF GiveUp, Crash, Silence
<1>12. CASE UNCHANGED vars
  BY <1>2, <1>2a, <1>12 DEF vars, SteadyInv, Owners, EventsAreCurrent, ReportsVerdict, PendingIsHeld,
                     WaitingIsPending
<1> QED
  BY <1>4, <1>5, <1>6, <1>7, <1>8, <1>9, <1>10, <1>11, <1>12 DEF Next

(* As long as nothing is given up, rejected or killed, the operator's       *)
(* list and the executions agree: what is listed has somebody to release   *)
(* or was just decided, and who waits is listed (listPendingChecks,        *)
(* CheckReviewQueue, task_check).                                          *)
THEOREM ListStaysTrue == Spec => []ListIsTrue
<1>1. GateInv /\ SteadyInv => ListIsTrue
  <2> SUFFICES ASSUME GateInv, SteadyInv, steady
               PROVE  /\ \A k \in Key : Listed(k) =>
                           \/ resolver[k] # NoRun
                           \/ \E r \in Run : exec[r].key = k /\ exec[r].verdict # "none"
                                             /\ exec[r].pc # "work"
                      /\ \A r \in Run : WaiterIsListed(r)
    BY DEF ListIsTrue, ListedIsReviewable, WaitingIsListed
  <2>1. ASSUME NEW k \in Key, Listed(k)
        PROVE  \/ resolver[k] # NoRun
               \/ \E r \in Run : exec[r].key = k /\ exec[r].verdict # "none" /\ exec[r].pc # "work"
    <3>1. PICK r \in Run : exec[r].key = k /\ exec[r].pc \in {"waiting", "reporting"}
      BY <2>1 DEF SteadyInv, PendingIsHeld, Listed
    <3>2. CASE exec[r].verdict = "none"
      <4>1. AwaitsVerdict(r)
        BY <3>1, <3>2 DEF AwaitsVerdict, SteadyInv, ReportsVerdict
      <4> QED
        BY <3>1, <4>1, GateAssumption DEF GateInv, ResolversAreWaiting
    <3>3. CASE exec[r].verdict # "none"
      BY <3>1, <3>3
    <3> QED
      BY <3>2, <3>3
  <2>2. ASSUME NEW r \in Run PROVE WaiterIsListed(r)
    BY GateAssumption DEF WaiterIsListed, Listed, SteadyInv, Owners, WaitingIsPending
  <2> QED
    BY <2>1, <2>2
<1>2. Init => GateInv /\ SteadyInv
  BY GateInvInit, SteadyInit
<1>3. GateInv /\ SteadyInv /\ [Next]_vars => (GateInv /\ SteadyInv)'
  BY GateNextType, QueueStep, ResolverStep, SteadyStep DEF GateInv
<1> QED
  BY <1>1, <1>2, <1>3, PTL DEF Spec

=============================================================================
