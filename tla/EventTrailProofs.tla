-------------------------- MODULE EventTrailProofs --------------------------
(***************************************************************************)
(* Theorems about EventTrail, for every number of events, appends and      *)
(* attempts: the chain the program writes verifies, every append that      *)
(* returned is stored once and in order, and no change from outside that   *)
(* reaches back behind an archived head passes verification.               *)
(***************************************************************************)
EXTENDS EventTrail, WellFoundedInduction, TLAPS

-----------------------------------------------------------------------------
(* The shape of the calls; hashes have no set they range over.             *)
CallShape ==
  /\ call = [c \in Calls |-> call[c]]
  /\ \A c \in Calls :
       call[c] = [id |-> call[c].id, st |-> call[c].st, try |-> call[c].try, tail |-> call[c].tail]

(* The named lock and txChain: one transaction at a time.                  *)
OneTransaction == \A c, d \in Calls : InTx(c) /\ InTx(d) => c = d

Queue ==
  /\ emitted \in 0..MaxEmits /\ sent \in 0..emitted
  /\ \A b \in BusEvents : b > sent => call[b].st = "none"

(* Whoever has read the tail of the table still has the tail of the table. *)
TailIsCurrent == \A c \in Calls : call[c].st = "read" => call[c].tail = Before(table, Len(table) + 1)

Sound(rows) == (\E S : rows \in Seq(S)) /\ \A i \in DOMAIN rows : LinkOK(rows, i)
Linked == Sound(table)

OnceEach ==
  /\ \A i, k \in DOMAIN table : table[i].id = table[k].id => i = k
  /\ \A c \in Calls : call[c].st = "done" => Stored(call[c].id)
  /\ \A i \in DOMAIN table : \E c \in Calls : call[c].id = table[i].id /\ Ended(c)

TrailInv ==
  /\ CallShape /\ OneTransaction /\ Queue
  /\ tampered = "no" => Linked /\ TailIsCurrent /\ OnceEach

-----------------------------------------------------------------------------
LEMMA AppendShape ==
  ASSUME NEW S, NEW t \in Seq(S), NEW r, NEW u, u = Append(t, r)
  PROVE  /\ DOMAIN t = 1..Len(t) /\ Len(t) \in Nat /\ DOMAIN u = 1..(Len(t) + 1)
         /\ u \in Seq(S \union {r})
         /\ \A i \in 1..Len(t) : u[i] = t[i]
         /\ u[Len(t) + 1] = r
<1> DEFINE U == S \union {r}
<1>1. S \subseteq U /\ r \in U
  OBVIOUS
<1>2. t \in Seq(U)
  BY <1>1
<1> HIDE DEF U
<1>3. u \in Seq(U) /\ Len(u) = Len(t) + 1
  BY <1>1, <1>2
<1>4. \A i \in 1..Len(t) : u[i] = t[i]
  BY <1>1, <1>2
<1> QED
  BY <1>1, <1>2, <1>3, <1>4 DEF U

LEMMA AppendLinks ==
  ASSUME NEW t, NEW u, NEW x, NEW y, Sound(t),
         u = Append(t, Row(x, y, Before(t, Len(t) + 1)))
  PROVE  Sound(u)
<1> PICK S : t \in Seq(S)
  BY DEF Sound
<1> DEFINE r == Row(x, y, Before(t, Len(t) + 1))
           n == Len(t) + 1
<1>1. u = Append(t, r)
  OBVIOUS
<1>2. /\ DOMAIN t = 1..Len(t) /\ Len(t) \in Nat /\ DOMAIN u = 1..n
      /\ \E U : u \in Seq(U)
      /\ \A i \in 1..Len(t) : u[i] = t[i]
      /\ u[n] = r
  <2> HIDE DEF r
  <2>1. u \in Seq(S \union {r})
    BY <1>1, AppendShape
  <2> QED
    BY <1>1, <2>1, AppendShape
<1>3. \A i \in 1..n : Before(u, i) = Before(t, i)
  BY <1>2 DEF Before
<1>4. /\ r.prev = Before(t, n)
      /\ r.hash = Hash(Content(r), r.prev)
  BY DEF Row, Content
<1> HIDE DEF r
<1>5. ASSUME NEW i \in DOMAIN u PROVE LinkOK(u, i)
  <2>1. CASE i = n
    BY <2>1, <1>2, <1>3, <1>4 DEF LinkOK
  <2>2. CASE i \in 1..Len(t)
    BY <2>2, <1>2, <1>3 DEF Sound, LinkOK, Content
  <2> QED
    BY <2>1, <2>2, <1>2, <1>5
<1> QED
  BY <1>2, <1>5 DEF Sound

-----------------------------------------------------------------------------
(* Every step of a call replaces its record.                               *)
Changes(c, id, st, tail) ==
  /\ CallShape'
  /\ call'[c].id = id /\ call'[c].st = st /\ call'[c].tail = tail
  /\ \A d \in Calls \ {c} : call'[d] = call[d]

LEMMA Replaced ==
  ASSUME CallShape, NEW c \in Calls, NEW id, NEW st, NEW try, NEW tail,
         call' = [call EXCEPT ![c] = [id |-> id, st |-> st, try |-> try, tail |-> tail]]
  PROVE  Changes(c, id, st, tail)
BY DEF CallShape, Changes

LEMMA SetChanges ==
  ASSUME CallShape, NEW c \in Calls, NEW st, call' = Set(c, st)
  PROVE  Changes(c, call[c].id, st, call[c].tail)
<1> DEFINE r == call[c]
<1>1. ASSUME NEW q, q = [id |-> q.id, st |-> q.st, try |-> q.try, tail |-> q.tail]
      PROVE  [q EXCEPT !.st = st] = [id |-> q.id, st |-> st, try |-> q.try, tail |-> q.tail]
  BY <1>1
<1>2. [r EXCEPT !.st = st] = [id |-> r.id, st |-> st, try |-> r.try, tail |-> r.tail]
  <2>1. r = [id |-> r.id, st |-> r.st, try |-> r.try, tail |-> r.tail]
    BY DEF CallShape
  <2> HIDE DEF r
  <2> QED
    BY <1>1, <2>1
<1>3. call' = [call EXCEPT ![c] = [r EXCEPT !.st = st]]
  BY DEF Set
<1> QED
  BY <1>2, <1>3, Replaced

LEMMA EndChanges ==
  ASSUME CallShape, NEW c \in Calls, NEW st, call' = End(c, st)
  PROVE  Changes(c, call[c].id, st, Genesis)
<1>1. call' = [call EXCEPT ![c] = [id |-> call[c].id, st |-> st, try |-> 0, tail |-> Genesis]]
  BY DEF CallShape, End
<1> QED
  BY <1>1, Replaced

(* A call that gives up its transaction, or ends without having had one.   *)
LEMMA LeavesTable ==
  ASSUME TrailInv, NEW c \in Calls, NEW st \in {"wait", "failed"}, NEW tail,
         call[c].st \in {"wait", "tx", "read"},
         Changes(c, call[c].id, st, tail),
         UNCHANGED <<emitted, sent, table, tampered>>
  PROVE  TrailInv'
<1>1. OneTransaction' /\ Queue'
  BY DEF TrailInv, OneTransaction, Queue, InTx, Changes, Calls
<1>2. ASSUME tampered = "no" PROVE Linked' /\ TailIsCurrent'
  BY <1>2 DEF TrailInv, Linked, Sound, LinkOK, Before, TailIsCurrent, Changes
<1>3. ASSUME tampered = "no" PROVE OnceEach'
  BY <1>3 DEF TrailInv, OnceEach, Stored, Ended, Changes
<1> QED
  BY <1>1, <1>2, <1>3 DEF TrailInv, Changes

LEMMA TrailStarts == Init => TrailInv
<1> SUFFICES ASSUME Init PROVE TrailInv
  OBVIOUS
<1>1. CallShape
  BY DEF Init, CallShape
<1>2. Queue
  BY TrailAssumption DEF Init, Queue, BusEvents, Calls
<1>3. Linked /\ OnceEach
  <2>1. table \in Seq({}) /\ DOMAIN table = {}
    BY DEF Init
  <2> QED
    BY <2>1 DEF Init, Linked, Sound, OnceEach, Stored
<1> QED
  BY <1>1, <1>2, <1>3 DEF Init, TrailInv, OneTransaction, InTx, TailIsCurrent

(* Insert: the tail read in this transaction is still the tail.            *)
LEMMA InsertKeeps ==
  ASSUME TrailInv, NEW c \in Calls, NEW st \in {"done", "failed"},
         call[c].st = "read", Insert(c),
         Changes(c, call[c].id, st, Genesis), UNCHANGED <<emitted, sent, tampered>>
  PROVE  TrailInv'
<1>1. OneTransaction' /\ Queue'
  BY DEF TrailInv, OneTransaction, Queue, InTx, Changes, Calls
<1>2. TailIsCurrent'
  BY DEF TrailInv, OneTransaction, InTx, TailIsCurrent, Changes
<1>3. CASE Stored(call[c].id)
  <2>1. table' = table
    BY <1>3 DEF Insert
  <2>2. ASSUME tampered = "no" PROVE Linked'
    BY <2>1, <2>2 DEF TrailInv, Linked, Sound, LinkOK, Before
  <2>3. ASSUME tampered = "no" PROVE OnceEach'
    BY <1>3, <2>1, <2>3 DEF TrailInv, OnceEach, Stored, Ended, Changes
  <2> QED
    BY <1>1, <1>2, <2>2, <2>3 DEF TrailInv, Changes
<1>4. CASE ~Stored(call[c].id)
  <2> SUFFICES ASSUME tampered = "no" PROVE Linked' /\ OnceEach'
    BY <1>1, <1>2 DEF TrailInv, Changes
  <2> DEFINE n == Len(table) + 1
  <2>1. Linked
    BY DEF TrailInv
  <2>2. table' = Append(table, Row(call[c].id, "as written", Before(table, n)))
    BY <1>4 DEF Insert, TrailInv, TailIsCurrent
  <2>3. /\ DOMAIN table = 1..Len(table) /\ Len(table) \in Nat /\ DOMAIN table' = 1..n
        /\ \A i \in 1..Len(table) : table'[i] = table[i]
        /\ table'[n].id = call[c].id
    <3> DEFINE r == Row(call[c].id, "as written", Before(table, n))
    <3>1. PICK S : table \in Seq(S)
      BY <2>1 DEF Linked, Sound
    <3>2. r.id = call[c].id
      BY DEF Row
    <3>3. table' = Append(table, r)
      BY <2>2
    <3> HIDE DEF r
    <3> QED
      BY <3>1, <3>2, <3>3, AppendShape
  <2>4. Sound(table')
    BY <2>1, <2>2, AppendLinks DEF Linked
  <2>5. Linked'
    BY <2>4 DEF Linked, Sound, LinkOK, Before
  <2>6. \A i, k \in DOMAIN table' : table'[i].id = table'[k].id => i = k
    BY <1>4, <2>3 DEF Stored, TrailInv, OnceEach
  <2>7. \A d \in Calls : call'[d].st = "done" => \E i \in DOMAIN table' : table'[i].id = call'[d].id
    BY <2>3 DEF Stored, TrailInv, OnceEach, Changes
  <2>8. \A i \in DOMAIN table' : \E d \in Calls : call'[d].id = table'[i].id /\ call'[d].st \in {"done", "failed"}
    BY <2>3 DEF TrailInv, OnceEach, Ended, Changes
  <2> QED
    BY <2>5, <2>6, <2>7, <2>8 DEF OnceEach, Stored, Ended
<1> QED
  BY <1>3, <1>4

(* What the begin of an append changes.                                    *)
Begins(c, id) == call[c].st = "none" /\ Changes(c, id, "wait", call[c].tail)

LEMMA DeliverShape ==
  ASSUME TrailInv, Deliver
  PROVE  sent + 1 \in BusEvents /\ Begins(sent + 1, call[sent + 1].id)
<1>0. CallShape /\ emitted \in 0..MaxEmits /\ sent \in 0..emitted /\ MaxEmits \in Nat
  BY TrailAssumption DEF TrailInv, Queue
<1> USE DEF callVars, auditVars
<1> DEFINE c == sent + 1
<1>1. c \in BusEvents /\ c \in Calls /\ call[c].st = "none"
  BY <1>0 DEF Deliver, BusEvents, Calls, TrailInv, Queue
<1>2. call' = [call EXCEPT ![c] = [id |-> call[c].id, st |-> "wait", try |-> 1, tail |-> call[c].tail]]
  <2>1. ASSUME NEW q, q = [id |-> q.id, st |-> q.st, try |-> q.try, tail |-> q.tail]
        PROVE  [[q EXCEPT !.st = "wait"] EXCEPT !.try = 1] = [id |-> q.id, st |-> "wait", try |-> 1, tail |-> q.tail]
    <3> DEFINE r == [q EXCEPT !.st = "wait"]
    <3>1. r = [id |-> q.id, st |-> "wait", try |-> q.try, tail |-> q.tail]
      BY <2>1
    <3> HIDE DEF r
    <3>2. [r EXCEPT !.try = 1] = [id |-> q.id, st |-> "wait", try |-> 1, tail |-> q.tail]
      BY <3>1
    <3> QED
      BY <3>2 DEF r
  <2>2. [[call[c] EXCEPT !.st = "wait"] EXCEPT !.try = 1]
          = [id |-> call[c].id, st |-> "wait", try |-> 1, tail |-> call[c].tail]
    BY <1>0, <1>1, <2>1 DEF CallShape
  <2>3. call' = [call EXCEPT ![c] = [[call[c] EXCEPT !.st = "wait"] EXCEPT !.try = 1]]
    BY <1>0, <1>1 DEF Deliver, CallShape
  <2> QED
    BY <2>2, <2>3
<1>3. Changes(c, call[c].id, "wait", call[c].tail)
  BY <1>0, <1>1, <1>2, Replaced
<1> QED
  BY <1>1, <1>3 DEF Begins

LEMMA AppendDirectShape ==
  ASSUME TrailInv, NEW c \in Direct, NEW id \in Ids, AppendDirect(c, id)
  PROVE  c \notin BusEvents /\ Begins(c, id)
<1>0. CallShape
  BY DEF TrailInv
<1>1. c \in Calls /\ c \notin BusEvents
  BY TrailAssumption DEF Calls, BusEvents
<1>2. call' = [call EXCEPT ![c] = [id |-> id, st |-> "wait", try |-> 1, tail |-> call[c].tail]]
  <2>1. ASSUME NEW q, q = [id |-> q.id, st |-> q.st, try |-> q.try, tail |-> q.tail]
        PROVE  [q EXCEPT !.id = id, !.st = "wait", !.try = 1] = [id |-> id, st |-> "wait", try |-> 1, tail |-> q.tail]
    <3> DEFINE r == [q EXCEPT !.id = id]
               s == [r EXCEPT !.st = "wait"]
    <3>1. r = [id |-> id, st |-> q.st, try |-> q.try, tail |-> q.tail]
      BY <2>1
    <3> HIDE DEF r
    <3>2. s = [id |-> id, st |-> "wait", try |-> q.try, tail |-> q.tail]
      BY <3>1
    <3> HIDE DEF s
    <3>3. [s EXCEPT !.try = 1] = [id |-> id, st |-> "wait", try |-> 1, tail |-> q.tail]
      BY <3>2
    <3> QED
      BY <3>3 DEF r, s
  <2>2. [call[c] EXCEPT !.id = id, !.st = "wait", !.try = 1]
          = [id |-> id, st |-> "wait", try |-> 1, tail |-> call[c].tail]
    BY <1>0, <1>1, <2>1 DEF CallShape
  <2> QED
    BY <2>2 DEF AppendDirect
<1>3. Changes(c, id, "wait", call[c].tail)
  BY <1>0, <1>1, <1>2, Replaced
<1>4. call[c].st = "none"
  BY DEF AppendDirect
<1> QED
  BY <1>1, <1>3, <1>4 DEF Begins

(* A call that has not begun joins the queue, with the id it carries.      *)
LEMMA BeginKeeps ==
  ASSUME TrailInv, NEW c \in Calls, NEW id, Begins(c, id), UNCHANGED <<table, tampered, emitted>>,
         \/ c \notin BusEvents /\ sent' = sent
         \/ c \in BusEvents /\ c = sent + 1 /\ sent < emitted /\ sent' = sent + 1
  PROVE  TrailInv'
<1>1. OneTransaction'
  BY DEF TrailInv, OneTransaction, InTx, Begins, Changes
<1>2. Queue'
  BY TrailAssumption DEF TrailInv, Queue, Begins, Changes, Calls, BusEvents
<1>3. ASSUME tampered = "no" PROVE Linked' /\ TailIsCurrent'
  BY <1>3 DEF TrailInv, Linked, Sound, LinkOK, Before, TailIsCurrent, Begins, Changes
<1>4. ASSUME tampered = "no" PROVE OnceEach'
  BY <1>4 DEF TrailInv, OnceEach, Stored, Ended, Begins, Changes
<1> QED
  BY <1>1, <1>2, <1>3, <1>4 DEF TrailInv, Begins, Changes

(* A transaction begins, or reads the tail.                                *)
LEMMA TransactionKeeps ==
  ASSUME TrailInv, NEW c \in Calls, NEW st, NEW tail,
         \/ st = "tx" /\ call[c].st = "wait" /\ Free
         \/ st = "read" /\ call[c].st = "tx" /\ tail = Before(table, Len(table) + 1),
         Changes(c, call[c].id, st, tail), UNCHANGED <<emitted, sent, table, tampered>>
  PROVE  TrailInv'
<1>1. OneTransaction'
  BY DEF TrailInv, OneTransaction, InTx, Free, Changes
<1>2. Queue'
  BY DEF TrailInv, Queue, Changes, Calls
<1>3. ASSUME tampered = "no" PROVE Linked' /\ TailIsCurrent'
  BY <1>3 DEF TrailInv, Linked, Sound, LinkOK, Before, TailIsCurrent, Changes
<1>4. ASSUME tampered = "no" PROVE OnceEach'
  BY <1>4 DEF TrailInv, OnceEach, Stored, Ended, Changes
<1> QED
  BY <1>1, <1>2, <1>3, <1>4 DEF TrailInv, Changes

(* Steps that touch neither the calls nor, as the program writes it, the   *)
(* table.                                                                  *)
LEMMA OthersKeep ==
  ASSUME TrailInv, UNCHANGED <<call, sent>>, emitted' \in sent..MaxEmits,
         UNCHANGED <<table, tampered>> \/ tampered' # "no"
  PROVE  TrailInv'
<1>1. CallShape' /\ OneTransaction' /\ Queue'
  BY TrailAssumption DEF TrailInv, CallShape, OneTransaction, Queue, InTx
<1>2. ASSUME tampered' = "no" PROVE Linked' /\ TailIsCurrent' /\ OnceEach'
  <2>1. tampered = "no" /\ table' = table /\ call' = call
    BY <1>2
  <2>2. Linked /\ TailIsCurrent /\ OnceEach
    BY <2>1 DEF TrailInv
  <2>3. Linked'
    BY <2>1, <2>2 DEF Linked, Sound, LinkOK, Before
  <2>4. TailIsCurrent'
    BY <2>1, <2>2 DEF TailIsCurrent, Before
  <2>5. OnceEach'
    BY <2>1, <2>2 DEF OnceEach, Stored, Ended
  <2> QED
    BY <2>3, <2>4, <2>5
<1> QED
  BY <1>1, <1>2 DEF TrailInv

(* What a step of an append changes: its call, and the table only when it  *)
(* commits.                                                                *)
StepChanges(c, st, tail) ==
  /\ Changes(c, call[c].id, st, tail)
  /\ \/ st = "tx" /\ call[c].st = "wait" /\ Free /\ (driver = "sqlite" => MyTurn(c)) /\ UNCHANGED table
     \/ /\ st = "read" /\ call[c].st = "tx" /\ tail = Before(table, Len(table) + 1)
        /\ UNCHANGED table
     \/ /\ st \in {"wait", "failed"} /\ call[c].st \in {"wait", "tx", "read"}
        /\ (st = "wait" => driver = "mysql") /\ UNCHANGED table
     \/ st \in {"done", "failed"} /\ call[c].st = "read" /\ tail = Genesis /\ Insert(c)

LEMMA StepShape ==
  ASSUME CallShape, NEW c \in Calls, Step(c)
  PROVE  \E st, tail : StepChanges(c, st, tail)
<1>1. CASE Enter(c)
  <2>1. Changes(c, call[c].id, "tx", call[c].tail)
    BY <1>1, SetChanges DEF Enter
  <2>2. StepChanges(c, "tx", call[c].tail)
    BY <1>1, <2>1 DEF Enter, StepChanges
  <2> QED
    BY <2>2
<1>2. CASE LockTimeout(c)
  <2>1. Changes(c, call[c].id, "failed", Genesis)
    BY <1>2, EndChanges DEF LockTimeout
  <2>2. StepChanges(c, "failed", Genesis)
    BY <1>2, <2>1 DEF LockTimeout, StepChanges
  <2> QED
    BY <2>2
<1>3. CASE ReadTail(c)
  <2> DEFINE tail == Before(table, Len(table) + 1)
  <2>1. ASSUME NEW v, NEW q, q = [id |-> q.id, st |-> q.st, try |-> q.try, tail |-> q.tail]
        PROVE  [q EXCEPT !.st = "read", !.tail = v] = [id |-> q.id, st |-> "read", try |-> q.try, tail |-> v]
    <3> DEFINE r == [q EXCEPT !.st = "read"]
    <3>1. r = [id |-> q.id, st |-> "read", try |-> q.try, tail |-> q.tail]
      BY <2>1
    <3> HIDE DEF r
    <3>2. [r EXCEPT !.tail = v] = [id |-> q.id, st |-> "read", try |-> q.try, tail |-> v]
      BY <3>1
    <3> QED
      BY <3>2 DEF r
  <2>2. [call[c] EXCEPT !.st = "read", !.tail = tail]
          = [id |-> call[c].id, st |-> "read", try |-> call[c].try, tail |-> tail]
    BY <2>1 DEF CallShape
  <2>3. call' = [call EXCEPT ![c] = [call[c] EXCEPT !.st = "read", !.tail = tail]]
    BY <1>3 DEF ReadTail, CallShape
  <2>4. Changes(c, call[c].id, "read", tail)
    BY <2>2, <2>3, Replaced
  <2>5. StepChanges(c, "read", tail)
    BY <1>3, <2>4 DEF ReadTail, StepChanges
  <2> QED
    BY <2>5
<1>4. CASE Commit(c)
  <2>1. Changes(c, call[c].id, "done", Genesis)
    BY <1>4, EndChanges DEF Commit
  <2>2. StepChanges(c, "done", Genesis)
    BY <1>4, <2>1 DEF Commit, StepChanges

  <2> QED
    BY <2>2<1>5. CASE CommitUnheard(c)
  <2>1. Changes(c, call[c].id, "failed", Genesis)
    BY <1>5, EndChanges DEF CommitUnheard
  <2>2. StepChanges(c, "failed", Genesis)
    BY <1>5, <2>1 DEF CommitUnheard, StepChanges
  <2> QED
    BY <2>2
<1>6. CASE Deadlock(c)
  <2>1. CASE call[c].try < MaxTries
    <3>1. call' = [call EXCEPT ![c] = [id |-> call[c].id, st |-> "wait", try |-> call[c].try + 1, tail |-> Genesis]]
      BY <1>6, <2>1 DEF Deadlock
    <3>2. Changes(c, call[c].id, "wait", Genesis)
      BY <3>1, Replaced
    <3>3. StepChanges(c, "wait", Genesis)
      BY <1>6, <3>2 DEF Deadlock, InTx, StepChanges
    <3> QED
      BY <3>3
  <2>2. CASE ~(call[c].try < MaxTries)
    <3>1. Changes(c, call[c].id, "failed", Genesis)
      BY <1>6, <2>2, EndChanges DEF Deadlock
    <3>2. StepChanges(c, "failed", Genesis)
      BY <1>6, <3>1 DEF Deadlock, InTx, StepChanges
    <3> QED
      BY <3>2
  <2> QED
    BY <2>1, <2>2
<1>7. CASE StatementFails(c)
  <2>1. Changes(c, call[c].id, "failed", Genesis)
    BY <1>7, EndChanges DEF StatementFails
  <2>2. StepChanges(c, "failed", Genesis)
    BY <1>7, <2>1 DEF StatementFails, InTx, StepChanges
  <2> QED
    BY <2>2
<1> QED
  BY <1>1, <1>2, <1>3, <1>4, <1>5, <1>6, <1>7 DEF Step

LEMMA StepLeaves ==
  ASSUME NEW c \in Calls, Step(c)
  PROVE  UNCHANGED <<driver, emitted, sent, line, heads, anchored, tampered>>
BY DEF Step, Enter, LockTimeout, ReadTail, Commit, CommitUnheard, Deadlock, StatementFails, auditVars

LEMMA StepKeeps == ASSUME TrailInv, NEW c \in Calls, Step(c) PROVE TrailInv'
<1>1. PICK st, tail : StepChanges(c, st, tail)
  BY StepShape DEF TrailInv
<1>2. UNCHANGED <<driver, emitted, sent, line, heads, anchored, tampered>>
  BY StepLeaves
<1>3. CASE st = "tx" /\ call[c].st = "wait" /\ Free /\ UNCHANGED table
  BY <1>1, <1>2, <1>3, TransactionKeeps DEF StepChanges
<1>4. CASE st = "read" /\ call[c].st = "tx" /\ tail = Before(table, Len(table) + 1) /\ UNCHANGED table
  BY <1>1, <1>2, <1>4, TransactionKeeps DEF StepChanges
<1>5. CASE st \in {"wait", "failed"} /\ call[c].st \in {"wait", "tx", "read"} /\ UNCHANGED table
  BY <1>1, <1>2, <1>5, LeavesTable DEF StepChanges
<1>6. CASE st \in {"done", "failed"} /\ call[c].st = "read" /\ tail = Genesis /\ Insert(c)
  BY <1>1, <1>2, <1>6, InsertKeeps DEF StepChanges
<1> QED
  BY <1>1, <1>3, <1>4, <1>5, <1>6 DEF StepChanges

LEMMA TrailNext == TrailInv /\ [Next]_vars => TrailInv'
<1> SUFFICES ASSUME TrailInv, [Next]_vars PROVE TrailInv'
  OBVIOUS
<1> USE DEF callVars, auditVars
<1>0. CallShape /\ emitted \in 0..MaxEmits /\ sent \in 0..emitted /\ MaxEmits \in Nat
  BY TrailAssumption DEF TrailInv, Queue
<1>1. CASE Emit
  BY <1>0, <1>1, OthersKeep DEF Emit
<1>2. CASE Deliver
  <2>1. sent + 1 \in BusEvents /\ sent + 1 \in Calls /\ Begins(sent + 1, call[sent + 1].id)
    BY <1>2, DeliverShape DEF Calls
  <2>2. sent < emitted /\ sent' = sent + 1 /\ UNCHANGED <<table, tampered, emitted>>
    BY <1>2 DEF Deliver
  <2> QED
    BY <2>1, <2>2, BeginKeeps
<1>3. ASSUME NEW c \in Direct, NEW id \in Ids, AppendDirect(c, id) PROVE TrailInv'
  <2>1. c \in Calls /\ c \notin BusEvents /\ Begins(c, id)
    BY <1>3, AppendDirectShape DEF Calls
  <2>2. sent' = sent /\ UNCHANGED <<table, tampered, emitted>>
    BY <1>3 DEF AppendDirect
  <2> QED
    BY <2>1, <2>2, BeginKeeps
<1>4. ASSUME NEW c \in Calls, Step(c) PROVE TrailInv'
  BY <1>4, StepKeeps
<1>5. CASE LeakEnds
  BY <1>0, <1>5, OthersKeep DEF LeakEnds
<1>6. CASE SnapshotHead
  BY <1>0, <1>6, OthersKeep DEF SnapshotHead
<1>7. ASSUME NEW v \in Verifiers, ReadRows(v) \/ Judge(v) PROVE TrailInv'
  BY <1>0, <1>7, OthersKeep DEF ReadRows, Judge
<1>8. CASE Tamper
  BY <1>0, <1>8, OthersKeep DEF Tamper, Edit, Cut, Rewrite
<1>9. CASE UNCHANGED vars
  BY <1>0, <1>9, OthersKeep DEF vars
<1> QED
  BY <1>1, <1>2, <1>3, <1>4, <1>5, <1>6, <1>7, <1>8, <1>9 DEF Next

(* The chain the program writes verifies, under either driver and any      *)
(* number of overlapping appends: the tail is read and the row inserted in *)
(* one transaction under one lock (SqlEventStore.append).                  *)
THEOREM ChainStaysSound == Spec => []ChainIsSound
<1>1. TrailInv => ChainIsSound
  <2>1. Linked => VerifyChain(table).ok
    BY DEF Linked, Sound, VerifyChain
  <2> QED
    BY <2>1 DEF TrailInv, ChainIsSound
<1> QED
  BY <1>1, TrailStarts, TrailNext, PTL DEF Spec

-----------------------------------------------------------------------------
(* The order of the bus and of txChain.                                    *)

(* A bus event carries its number; a repeated one was given to the store.  *)
Numbered ==
  /\ \A b \in BusEvents : call[b].id = b
  /\ \A c \in Direct : call[c].id \in BusEvents => call[c].id <= sent

(* The queue of the bus waits for the write of each event.                 *)
OneByOne == \A b \in BusEvents : b < sent => call[b].st = "done"

BusOrder ==
  \A k \in DOMAIN table, e \in BusEvents :
    table[k].id \in BusEvents /\ e < table[k].id => \E i \in 1..(k - 1) : table[i].id = e

(* Who waits in txChain waits at one place.                                *)
LineShape ==
  /\ line \in Seq(Calls)
  /\ driver = "mysql" => line = << >>
  /\ \A i, k \in DOMAIN line : line[i] = line[k] => i = k
  /\ \A i \in DOMAIN line : call[line[i]].st # "none"

LineOrder ==
  \A i, k \in DOMAIN line : i < k /\ call[line[k]].st \in {"tx", "read", "done"} => Ended(line[i])

OrderInv ==
  /\ driver \in {"sqlite", "mysql"}
  /\ Numbered /\ OneByOne /\ LineShape /\ LineOrder
  /\ tampered = "no" => BusOrder

LEMMA OrderStarts == Init => OrderInv
<1> SUFFICES ASSUME Init PROVE OrderInv
  OBVIOUS
<1>1. Numbered
  BY TrailAssumption DEF Init, Numbered, Calls, BusEvents
<1>2. OneByOne
  BY TrailAssumption DEF Init, OneByOne, BusEvents
<1>3. LineShape /\ LineOrder
  BY DEF Init, LineShape, LineOrder
<1>4. BusOrder
  BY DEF Init, BusOrder
<1> QED
  BY <1>1, <1>2, <1>3, <1>4 DEF Init, OrderInv

(* Whatever is stored of the bus, everything before it is.                 *)
LEMMA OrderInsert ==
  ASSUME TrailInv, OrderInv, NEW c \in Calls, call[c].st = "read", Insert(c), tampered = "no"
  PROVE  BusOrder'
<1>1. CASE Stored(call[c].id)
  BY <1>1 DEF Insert, OrderInv, BusOrder
<1>2. CASE ~Stored(call[c].id)
  <2> DEFINE r == Row(call[c].id, "as written", call[c].tail)
             n == Len(table) + 1
  <2>1. r.id = call[c].id
    BY DEF Row
  <2>2. table' = Append(table, r)
    BY <1>2 DEF Insert
  <2> HIDE DEF r
  <2>3. PICK S : table \in Seq(S)
    BY DEF TrailInv, Linked, Sound
  <2>4. /\ DOMAIN table = 1..Len(table) /\ Len(table) \in Nat /\ DOMAIN table' = 1..n
        /\ \A i \in 1..Len(table) : table'[i] = table[i]
        /\ table'[n] = r
    BY <2>2, <2>3, AppendShape
  <2>5. ASSUME NEW e \in BusEvents, call[c].id \in BusEvents, e < call[c].id
        PROVE  \E i \in 1..(n - 1) : table'[i].id = e
    <3>1. sent \in Nat /\ BusEvents \subseteq Nat
      BY TrailAssumption DEF TrailInv, Queue, BusEvents
    <3>2. call[c].id <= sent
      <4>1. CASE c \in BusEvents
        BY <3>1, <4>1 DEF TrailInv, Queue, OrderInv, Numbered
      <4>2. CASE c \in Direct
        BY <2>5, <4>2 DEF OrderInv, Numbered
      <4> QED
        BY <4>1, <4>2 DEF Calls
    <3>3. call[e].st = "done" /\ call[e].id = e /\ e \in Calls
      BY <2>5, <3>1, <3>2 DEF OrderInv, OneByOne, Numbered, Calls
    <3>4. \E i \in DOMAIN table : table[i].id = e
      BY <3>3 DEF TrailInv, OnceEach, Stored
    <3> QED
      BY <2>4, <3>4
  <2>6. ASSUME NEW k \in DOMAIN table', NEW e \in BusEvents, table'[k].id \in BusEvents, e < table'[k].id
        PROVE  \E i \in 1..(k - 1) : table'[i].id = e
    <3>1. CASE k = n
      BY <2>1, <2>4, <2>5, <2>6, <3>1
    <3>2. CASE k \in 1..Len(table)
      <4>1. PICK i \in 1..(k - 1) : table[i].id = e
        BY <2>4, <2>6, <3>2 DEF OrderInv, BusOrder
      <4> QED
        BY <2>4, <3>2, <4>1
    <3> QED
      BY <2>4, <3>1, <3>2
  <2> QED
    BY <2>6 DEF BusOrder
<1> QED
  BY <1>1, <1>2

LEMMA OrderStep ==
  ASSUME TrailInv, OrderInv, NEW c \in Calls, Step(c)
  PROVE  OrderInv'
<1>1. PICK st, tail : StepChanges(c, st, tail)
  BY StepShape DEF TrailInv
<1>2. UNCHANGED <<driver, sent, line, tampered>>
  BY StepLeaves
<1>3. /\ call'[c].id = call[c].id /\ call'[c].st = st
      /\ \A d \in Calls \ {c} : call'[d] = call[d]
      /\ st \in {"tx", "read", "wait", "failed", "done"} /\ call[c].st \in {"wait", "tx", "read"}
  BY <1>1 DEF StepChanges, Changes
<1>4. Numbered'
  BY <1>2, <1>3 DEF OrderInv, Numbered, Calls
<1>5. OneByOne'
  BY <1>2, <1>3 DEF OrderInv, OneByOne, Calls
<1>6. LineShape'
  BY <1>2, <1>3 DEF OrderInv, LineShape
<1>7. LineOrder'
  <2> SUFFICES ASSUME NEW i \in DOMAIN line, NEW k \in DOMAIN line, i < k,
                      call'[line[k]].st \in {"tx", "read", "done"}
               PROVE  call'[line[i]].st \in {"done", "failed"}
    BY <1>2 DEF LineOrder, Ended
  <2>1. line[i] \in Calls /\ line[k] \in Calls /\ i \in Nat /\ k \in Nat
    BY DEF OrderInv, LineShape
  <2>2. driver = "sqlite"
    BY <2>1 DEF OrderInv, LineShape
  <2>3. Ended(line[i])
    <3>1. CASE line[k] # c \/ st # "tx"
      BY <1>1, <1>3, <2>1, <2>2, <3>1 DEF OrderInv, LineOrder, StepChanges
    <3>2. CASE line[k] = c /\ st = "tx"
      <4>1. MyTurn(c)
        BY <1>1, <2>2, <3>2 DEF StepChanges
      <4>2. \A j \in 1..i : j \in DOMAIN line /\ j # k
        BY <2>1 DEF OrderInv, LineShape
      <4> QED
        BY <3>2, <4>1, <4>2 DEF MyTurn, OrderInv, LineShape
    <3> QED
      BY <3>1, <3>2
  <2> QED
    BY <1>3, <2>1, <2>3 DEF Ended
<1>8. ASSUME tampered = "no" PROVE BusOrder'
  <2>1. CASE UNCHANGED table
    BY <1>8, <2>1 DEF OrderInv, BusOrder
  <2>2. CASE call[c].st = "read" /\ Insert(c)
    BY <1>8, <2>2, OrderInsert
  <2> QED
    BY <1>1, <2>1, <2>2 DEF StepChanges
<1> QED
  BY <1>2, <1>4, <1>5, <1>6, <1>7, <1>8 DEF OrderInv

(* Who begins joins the line at its end.                                   *)
LEMMA OrderBegin ==
  ASSUME TrailInv, OrderInv, NEW c \in Calls, NEW id, Begins(c, id),
         line' = Queued(c), UNCHANGED <<driver, table, tampered>>,
         \/ /\ c \in Direct \ BusEvents /\ sent' = sent
            /\ id \in BusEvents => id <= sent
         \/ /\ c = sent + 1 /\ c \in BusEvents /\ id = call[c].id
            /\ sent' = sent + 1 /\ QueueOpen
  PROVE  OrderInv'
<1>1. /\ call[c].st = "none" /\ call'[c].st = "wait" /\ call'[c].id = id
      /\ \A d \in Calls \ {c} : call'[d] = call[d]
  BY DEF Begins, Changes
<1>2. sent \in Nat /\ BusEvents \subseteq Nat /\ Direct \intersect BusEvents = {}
  BY TrailAssumption DEF TrailInv, Queue, BusEvents
<1>3. Numbered'
  <2>1. \A b \in BusEvents : call'[b].id = b
    BY <1>1, <1>2 DEF OrderInv, Numbered, Calls
  <2>2. ASSUME NEW d \in Direct, call'[d].id \in BusEvents PROVE call'[d].id <= sent'
    <3>1. d \in Calls /\ sent <= sent' /\ sent' \in Nat
      BY <1>2 DEF Calls
    <3>2. CASE d = c
      BY <1>1, <1>2, <2>2, <3>1, <3>2
    <3>3. CASE d # c
      <4>1. call[d].id \in BusEvents /\ call[d].id <= sent /\ call'[d].id = call[d].id
        BY <1>1, <2>2, <3>1, <3>3 DEF OrderInv, Numbered
      <4>2. call[d].id \in Nat
        BY <1>2, <4>1
      <4>3. call[d].id <= sent'
        BY <1>2, <3>1, <4>1, <4>2
      <4> QED
        BY <4>1, <4>3
    <3> QED
      BY <3>2, <3>3
  <2> QED
    BY <2>1, <2>2 DEF Numbered
<1>4. OneByOne'
  <2> SUFFICES ASSUME NEW b \in BusEvents, b < sent' PROVE call'[b].st = "done"
    BY DEF OneByOne
  <2>1. b # c /\ b \in Calls
    BY <1>2 DEF Calls
  <2>2. call[b].st = "done"
    <3>1. b \in Nat /\ b > 0
      BY TrailAssumption DEF BusEvents
    <3>2. CASE b < sent
      BY <3>2 DEF OrderInv, OneByOne
    <3>3. CASE b = sent
      <4>1. sent' # sent
        BY <1>2, <3>3
      <4> QED
        BY <3>1, <3>3, <4>1 DEF QueueOpen
    <3> QED
      BY <1>2, <3>1, <3>2, <3>3
  <2> QED
    BY <1>1, <2>1, <2>2
<1>5. line \in Seq(Calls) /\ \A i \in DOMAIN line : line[i] \in Calls /\ line[i] # c
  BY <1>1 DEF OrderInv, LineShape
<1>6. CASE driver = "sqlite"
  <2>1. line' = Append(line, c)
    BY <1>6 DEF Queued
  <2>2. /\ line' \in Seq(Calls) /\ DOMAIN line = 1..Len(line) /\ Len(line) \in Nat
        /\ DOMAIN line' = 1..(Len(line) + 1)
        /\ \A i \in 1..Len(line) : line'[i] = line[i]
        /\ line'[Len(line) + 1] = c
    BY <1>5, <2>1
  <2>3. LineShape'
    <3>1. \A i, k \in DOMAIN line' : line'[i] = line'[k] => i = k
      BY <1>5, <2>2 DEF OrderInv, LineShape
    <3>2. \A i \in DOMAIN line' : call'[line'[i]].st # "none"
      BY <1>1, <1>5, <2>2 DEF OrderInv, LineShape
    <3> QED
      BY <1>6, <2>2, <3>1, <3>2 DEF LineShape
  <2>4. LineOrder'
    <3> SUFFICES ASSUME NEW i \in DOMAIN line', NEW k \in DOMAIN line', i < k,
                        call'[line'[k]].st \in {"tx", "read", "done"}
                 PROVE  call'[line'[i]].st \in {"done", "failed"}
      BY DEF LineOrder, Ended
    <3>1. k \in 1..Len(line) /\ i \in 1..Len(line)
      BY <1>1, <2>2
    <3>2. call'[line'[k]] = call[line[k]] /\ call'[line'[i]] = call[line[i]]
      BY <1>1, <1>5, <2>2, <3>1
    <3> QED
      BY <2>2, <3>1, <3>2 DEF OrderInv, LineOrder, Ended
  <2> QED
    BY <1>3, <1>4, <2>3, <2>4 DEF OrderInv, BusOrder
<1>7. CASE driver = "mysql"
  <2>1. line' = << >> /\ line = << >>
    BY <1>7 DEF Queued, OrderInv, LineShape
  <2>2. LineShape' /\ LineOrder'
    BY <2>1, <1>5 DEF LineShape, LineOrder
  <2> QED
    BY <1>3, <1>4, <2>2 DEF OrderInv, BusOrder
<1> QED
  BY <1>6, <1>7 DEF OrderInv

LEMMA OrderNext == TrailInv /\ OrderInv /\ [Next]_vars => OrderInv'
<1> SUFFICES ASSUME TrailInv, OrderInv, [Next]_vars PROVE OrderInv'
  OBVIOUS
<1>1. CASE Deliver
  <2>1. sent + 1 \in BusEvents /\ sent + 1 \in Calls /\ Begins(sent + 1, call[sent + 1].id)
    BY <1>1, DeliverShape DEF Calls
  <2> QED
    BY <1>1, <2>1, OrderBegin DEF Deliver, auditVars
<1>2. ASSUME NEW c \in Direct, NEW id \in Ids, AppendDirect(c, id) PROVE OrderInv'
  <2>1. c \in Calls /\ c \notin BusEvents /\ Begins(c, id)
    BY <1>2, AppendDirectShape DEF Calls
  <2>2. /\ line' = Queued(c) /\ UNCHANGED <<driver, table, tampered>> /\ sent' = sent
        /\ id \in BusEvents => id <= sent
    BY <1>2 DEF AppendDirect, auditVars
  <2> QED
    BY <2>1, <2>2, OrderBegin
<1>3. ASSUME NEW c \in Calls, Step(c) PROVE OrderInv'
  BY <1>3, OrderStep
<1>4. ASSUME UNCHANGED <<driver, sent, line, call>>, UNCHANGED <<table, tampered>> \/ tampered' # "no"
      PROVE  OrderInv'
  BY <1>4 DEF OrderInv, Numbered, OneByOne, LineShape, LineOrder, BusOrder, Ended
<1>5. CASE Emit \/ LeakEnds \/ SnapshotHead \/ (\E v \in Verifiers : ReadRows(v) \/ Judge(v))
  BY <1>4, <1>5 DEF Emit, LeakEnds, SnapshotHead, ReadRows, Judge, callVars, auditVars
<1>6. CASE Tamper
  BY <1>4, <1>6 DEF Tamper, Edit, Cut, Rewrite, callVars
<1>7. CASE UNCHANGED vars
  BY <1>4, <1>7 DEF vars, callVars, auditVars
<1> QED
  BY <1>1, <1>2, <1>3, <1>5, <1>6, <1>7 DEF Next

(* What is read back is what was appended, once and in the order of the    *)
(* bus, and on sqlite the appends run in the order they were called.       *)
THEOREM TrailStaysFaithful == Spec => []TrailIsFaithful
<1>1. TrailInv /\ OrderInv => TrailIsFaithful
  BY DEF TrailInv, OnceEach, OrderInv, BusOrder, LineOrder, TrailIsFaithful, StoredExactlyOnce, OrderIsKept
<1>2. TrailInv /\ OrderInv /\ [Next]_vars => (TrailInv /\ OrderInv)'
  BY TrailNext, OrderNext
<1> QED
  BY <1>1, <1>2, TrailStarts, OrderStarts, PTL DEF Spec

-----------------------------------------------------------------------------
(* Damage.                                                                 *)

(* Every set of numbers that is not empty has a least one: what the        *)
(* induction over the rows rests on.                                       *)
LEMMA LeastElement ==
  ASSUME NEW T, T \subseteq Nat, T # {}
  PROVE  \E m \in T : \A n \in T : m <= n
<1> DEFINE R == OpToRel(<, Nat)
<1>1. R = {ss \in Nat \X Nat : ss[1] < ss[2]}
  BY DEF OpToRel
<1>2. PICK m \in T : \A n \in T : ~(<<n, m>> \in R)
  <2> HIDE DEF R
  <2>1. IsWellFoundedOn(R, Nat)
    BY NatLessThanWellFounded DEF R
  <2> QED
    BY <2>1, WFMin
<1>3. \A n \in T : ~(n < m)
  BY <1>1, <1>2
<1> QED
  BY <1>3

IsRow(r) == r = [id |-> r.id, body |-> r.body, prev |-> r.prev, hash |-> r.hash]

Rows(t) == (\E S : t \in Seq(S)) /\ \A i \in DOMAIN t : IsRow(t[i])

LEMMA RowIsRow ==
  ASSUME NEW id, NEW body, NEW prev
  PROVE  /\ IsRow(Row(id, body, prev))
         /\ Row(id, body, prev).body = body
BY DEF IsRow, Row

LEMMA HashIsInjective ==
  ASSUME NEW a, NEW b, NEW x, NEW y
  PROVE  /\ Hash(a, b) # Genesis
         /\ Hash(a, b) = Hash(x, y) => a = x /\ b = y
<1>1. Hash(a, b)[1] = a /\ Hash(a, b)[2] = b /\ Hash(x, y)[1] = x /\ Hash(x, y)[2] = y
  BY DEF Hash
<1>2. Len(<<a, b>>) = 2 /\ Len(<< >>) = 0
  OBVIOUS
<1> QED
  BY <1>1, <1>2 DEF Hash, Genesis

(* Two chains with the same hash somewhere are the same up to there: a     *)
(* hash covers the row and the hash before it.                             *)
LEMMA HashFixesChain ==
  ASSUME NEW s, NEW t, Rows(s), Rows(t), Sound(s), Sound(t),
         NEW m \in 1..Len(s), NEW k \in 1..Len(t), s[m].hash = t[k].hash
  PROVE  m = k /\ \A j \in 1..m : s[j] = t[j]
<1> DEFINE Same(n, l) == n = l /\ \A j \in 1..n : s[j] = t[j]
           Differ == {n \in 1..Len(s) : \E l \in 1..Len(t) : s[n].hash = t[l].hash /\ ~Same(n, l)}
<1>1. SUFFICES ASSUME Differ # {} PROVE FALSE
  <2>1. m \notin Differ
    BY <1>1
  <2> QED
    BY <2>1
<1>2. /\ Len(s) \in Nat /\ DOMAIN s = 1..Len(s)
      /\ Len(t) \in Nat /\ DOMAIN t = 1..Len(t)
  BY DEF Rows
<1>3. PICK n \in Differ : \A i \in Differ : n <= i
  <2>1. Differ \subseteq Nat
    BY <1>2
  <2> HIDE DEF Differ
  <2> QED
    BY <1>1, <2>1, LeastElement
<1>4. PICK l \in 1..Len(t) : s[n].hash = t[l].hash /\ ~Same(n, l)
  OBVIOUS
<1>5. n \in 1..Len(s) /\ n \in Nat /\ l \in Nat /\ n > 0 /\ l > 0
  BY <1>2
<1>6. LinkOK(s, n) /\ LinkOK(t, l)
  BY <1>2, <1>5 DEF Sound
<1>7. Content(s[n]) = Content(t[l]) /\ Before(s, n) = Before(t, l)
  <2>1. Hash(Content(s[n]), Before(s, n)) = Hash(Content(t[l]), Before(t, l))
    BY <1>4, <1>6 DEF LinkOK
  <2> QED
    BY <2>1, HashIsInjective
<1>8. s[n] = t[l]
  <2>1. s[n].id = t[l].id /\ s[n].body = t[l].body /\ s[n].prev = t[l].prev
    BY <1>6, <1>7 DEF LinkOK, Content
  <2> QED
    BY <1>2, <1>4, <1>5, <2>1 DEF Rows, IsRow
<1>9. CASE n = 1 \/ l = 1
  <2>1. \A i \in DOMAIN s : s[i].hash # Genesis
    BY HashIsInjective DEF Sound, LinkOK
  <2>2. \A i \in DOMAIN t : t[i].hash # Genesis
    BY HashIsInjective DEF Sound, LinkOK
  <2>3. n = 1 /\ l = 1
    <3>1. CASE n = 1 /\ l # 1
      <4>1. l - 1 \in 1..Len(t) /\ Before(t, l) = t[l - 1].hash /\ Before(s, n) = Genesis
        BY <1>5, <3>1 DEF Before
      <4> QED
        BY <1>2, <1>7, <2>2, <4>1
    <3>2. CASE l = 1 /\ n # 1
      <4>1. n - 1 \in 1..Len(s) /\ Before(s, n) = s[n - 1].hash /\ Before(t, l) = Genesis
        BY <1>2, <1>5, <3>2 DEF Before
      <4> QED
        BY <1>2, <1>7, <2>1, <4>1
    <3> QED
      BY <1>9, <3>1, <3>2
  <2> QED
    BY <1>4, <1>8, <2>3
<1>10. CASE n # 1 /\ l # 1
  <2>1. /\ n - 1 \in 1..Len(s) /\ l - 1 \in 1..Len(t) /\ n - 1 \in Nat
        /\ Before(s, n) = s[n - 1].hash /\ Before(t, l) = t[l - 1].hash
    BY <1>2, <1>5, <1>10 DEF Before
  <2>2. n - 1 \notin Differ
    BY <1>3, <1>5
  <2>3. Same(n - 1, l - 1)
    BY <1>7, <2>1, <2>2
  <2>4. n = l /\ \A j \in 1..n : j \in 1..(n - 1) \/ j = n
    BY <1>5, <2>3
  <2> QED
    BY <1>4, <1>8, <2>3, <2>4
<1> QED
  BY <1>9, <1>10

(* What was done from outside, and what the archived heads stand for.      *)
DamageInv ==
  /\ Rows(table)
  /\ tampered = "no" => \A i \in DOMAIN table : table[i].body = "as written"
  /\ tampered = "edited" => \E i \in DOMAIN table : ~LinkOK(table, i)
  /\ \E S : anchored \in Seq(S) /\ heads \in Seq(S)
  /\ Len(heads) = Len(anchored)
  /\ \A i \in 1..Len(anchored) :
       /\ Rows(anchored[i]) /\ Len(anchored[i]) > 0
       /\ heads[i].hash = anchored[i][Len(anchored[i])].hash

LEMMA DamageStarts == Init => DamageInv
<1> SUFFICES ASSUME Init PROVE DamageInv
  OBVIOUS
<1>1. table \in Seq({}) /\ DOMAIN table = {} /\ anchored \in Seq({}) /\ heads \in Seq({})
      /\ Len(heads) = 0 /\ Len(anchored) = 0
  BY DEF Init
<1> QED
  BY <1>1 DEF Init, DamageInv, Rows

(* Rows that are appended leave the rows before them as they are.          *)
LEMMA InsertIsRows ==
  ASSUME DamageInv, NEW c \in Calls, Insert(c)
  PROVE  /\ Rows(table')
         /\ \A i \in DOMAIN table : i \in DOMAIN table' /\ (LinkOK(table', i) <=> LinkOK(table, i))
         /\ \A i \in DOMAIN table' : (i \in DOMAIN table /\ table'[i] = table[i]) \/ table'[i].body = "as written"
<1>1. CASE table' = table
  BY <1>1 DEF DamageInv, Rows
<1>2. CASE table' = Append(table, Row(call[c].id, "as written", call[c].tail))
  <2> DEFINE r == Row(call[c].id, "as written", call[c].tail)
             n == Len(table) + 1
  <2>1. IsRow(r) /\ r.body = "as written"
    BY RowIsRow
  <2>2. table' = Append(table, r)
    BY <1>2
  <2> HIDE DEF r
  <2>3. PICK S : table \in Seq(S)
    BY DEF DamageInv, Rows
  <2>4. /\ DOMAIN table = 1..Len(table) /\ Len(table) \in Nat /\ DOMAIN table' = 1..n
        /\ table' \in Seq(S \union {r})
        /\ \A i \in 1..Len(table) : table'[i] = table[i]
        /\ table'[n] = r
    BY <2>2, <2>3, AppendShape
  <2>5. \A i \in DOMAIN table' : i \in 1..Len(table) \/ i = n
    BY <2>4
  <2>6. \A i \in 1..Len(table) : i = 1 \/ i - 1 \in 1..Len(table)
    BY <2>4
  <2>7. \A i \in DOMAIN table : LinkOK(table', i) <=> LinkOK(table, i)
    BY <2>4, <2>6 DEF LinkOK, Before
  <2>8. Rows(table')
    BY <2>1, <2>4, <2>5 DEF DamageInv, Rows
  <2>9. \A i \in DOMAIN table : i \in DOMAIN table'
    BY <2>4
  <2> QED
    BY <2>1, <2>4, <2>5, <2>7, <2>8, <2>9
<1> QED
  BY <1>1, <1>2 DEF Insert

LEMMA DamageStep ==
  ASSUME TrailInv, DamageInv, NEW c \in Calls, Step(c)
  PROVE  DamageInv'
<1>1. UNCHANGED <<tampered, heads, anchored>>
  BY StepLeaves
<1>2. UNCHANGED table \/ Insert(c)
  BY StepShape DEF TrailInv, StepChanges
<1>3. CASE UNCHANGED table
  BY <1>1, <1>3 DEF DamageInv, Rows, LinkOK, Before
<1>4. CASE Insert(c)
  <2>1. /\ Rows(table')
        /\ \A i \in DOMAIN table : i \in DOMAIN table' /\ (LinkOK(table', i) <=> LinkOK(table, i))
        /\ \A i \in DOMAIN table' : (i \in DOMAIN table /\ table'[i] = table[i]) \/ table'[i].body = "as written"
    BY <1>4, InsertIsRows
  <2>2. tampered = "no" => \A i \in DOMAIN table' : table'[i].body = "as written"
    BY <2>1 DEF DamageInv
  <2>3. tampered = "edited" => \E i \in DOMAIN table' : ~LinkOK(table', i)
    BY <2>1 DEF DamageInv
  <2>4. (\E i \in DOMAIN table' : ~LinkOK(table', i)) => (\E i \in DOMAIN table : ~LinkOK(table, i))'
    BY DEF LinkOK, Before
  <2>5. Rows(table)'
    BY <2>1 DEF Rows
  <2> QED
    BY <1>1, <2>2, <2>3, <2>4, <2>5 DEF DamageInv, Rows
<1> QED
  BY <1>2, <1>3, <1>4
(* An edited row does not match its hash.                                  *)
LEMMA EditShows ==
  ASSUME TrailInv, DamageInv, Edit
  PROVE  Rows(table') /\ \E i \in DOMAIN table' : ~LinkOK(table', i)
<1>1. PICK i \in DOMAIN table : table' = Edited(i)
  BY DEF Edit
<1>2. PICK S : table \in Seq(S)
  BY DEF DamageInv, Rows
<1> DEFINE r == [table[i] EXCEPT !.body = "forged"]
<1>3. IsRow(r) /\ r.body = "forged" /\ r.id = table[i].id /\ r.hash = table[i].hash
  <2>1. ASSUME NEW q, IsRow(q), NEW p, p = [q EXCEPT !.body = "forged"]
        PROVE  IsRow(p) /\ p.body = "forged" /\ p.id = q.id /\ p.hash = q.hash
    <3>1. p = [id |-> q.id, body |-> "forged", prev |-> q.prev, hash |-> q.hash]
      BY <2>1 DEF IsRow
    <3> QED
      BY <3>1 DEF IsRow
  <2>2. IsRow(table[i])
    BY DEF DamageInv, Rows
  <2>3. r = [table[i] EXCEPT !.body = "forged"]
    OBVIOUS
  <2> HIDE DEF r
  <2> QED
    BY <2>1, <2>2, <2>3
<1>4. table' = [table EXCEPT ![i] = r]
  BY <1>1, <1>2 DEF Edited
<1> HIDE DEF r
<1>5. /\ table' \in Seq(S \union {r}) /\ DOMAIN table' = DOMAIN table /\ DOMAIN table = 1..Len(table)
      /\ Len(table) \in Nat
      /\ table'[i] = r /\ \A k \in DOMAIN table : k # i => table'[k] = table[k]
  BY <1>2, <1>4
<1>6. Rows(table')
  BY <1>3, <1>4, <1>5 DEF DamageInv, Rows
<1>7. Before(table', i) = Before(table, i)
  BY <1>2, <1>5 DEF Before
<1>8. LinkOK(table, i) /\ table[i].body = "as written"
  BY DEF Edit, TrailInv, Linked, Sound, DamageInv
<1>9. ~LinkOK(table', i)
  <2>1. Content(table'[i]) # Content(table[i])
    BY <1>3, <1>5, <1>8 DEF Content
  <2> SUFFICES ASSUME LinkOK(table', i) PROVE FALSE
    OBVIOUS
  <2>2. Hash(Content(table[i]), Before(table, i)) = Hash(Content(table'[i]), Before(table', i))
    BY <1>3, <1>5, <1>8 DEF LinkOK
  <2> QED
    BY <2>1, <2>2, HashIsInjective
<1> QED
  BY <1>5, <1>6, <1>9

LEMMA CutAndRewriteAreRows ==
  ASSUME DamageInv, Cut \/ Rewrite
  PROVE  Rows(table')
<1>1. PICK S : table \in Seq(S)
  BY DEF DamageInv, Rows
<1>2. DOMAIN table = 1..Len(table) /\ Len(table) \in Nat
  BY <1>1
<1>3. CASE Cut
  <2>1. PICK i \in DOMAIN table : table' = SubSeq(table, 1, i - 1)
    BY <1>3 DEF Cut
  <2>2. /\ table' \in Seq(S) /\ DOMAIN table' = 1..(i - 1)
        /\ \A k \in 1..(i - 1) : k \in DOMAIN table /\ table'[k] = table[k]
    BY <1>1, <1>2, <2>1
  <2> QED
    BY <2>2 DEF DamageInv, Rows
<1>4. CASE Rewrite
  <2>0. PICK i \in DOMAIN table : \E body : table' = Relinked(i, body)
    BY <1>4 DEF Rewrite
  <2>1. PICK body : table' = Relinked(i, body)
    BY <2>0
  <2> DEFINE r == Row(table[i].id, body, Before(table, i))
  <2>2. IsRow(r)
    BY RowIsRow
  <2>3. table' = [table EXCEPT ![i] = r]
    BY <2>1 DEF Relinked
  <2> HIDE DEF r
  <2>4. /\ table' \in Seq(S \union {r}) /\ DOMAIN table' = DOMAIN table
        /\ table'[i] = r /\ \A k \in DOMAIN table : k # i => table'[k] = table[k]
    BY <1>1, <1>2, <2>3
  <2> QED
    BY <2>2, <2>4 DEF DamageInv, Rows
<1> QED
  BY <1>3, <1>4

(* The head that is archived is the hash of the last row.                  *)
LEMMA DamageSnapshot ==
  ASSUME DamageInv, SnapshotHead
  PROVE  DamageInv'
<1> DEFINE h == [id |-> Last(table).id, hash |-> Last(table).hash]
<1>1. /\ h.hash = table[Len(table)].hash
      /\ heads' = Append(heads, h) /\ anchored' = Append(anchored, table)
      /\ table # << >> /\ UNCHANGED <<table, tampered>>
  BY DEF SnapshotHead, Last
<1> HIDE DEF h
<1>2. PICK S : anchored \in Seq(S) /\ heads \in Seq(S)
  BY DEF DamageInv
<1>3. /\ anchored' \in Seq(S \union {table}) /\ heads' \in Seq(S \union {h})
      /\ Len(anchored') = Len(anchored) + 1 /\ Len(heads') = Len(heads) + 1 /\ Len(anchored) \in Nat
      /\ \A i \in 1..Len(anchored) : anchored'[i] = anchored[i] /\ heads'[i] = heads[i]
      /\ anchored'[Len(anchored) + 1] = table /\ heads'[Len(anchored) + 1] = h
  <2>1. Len(heads) = Len(anchored)
    BY DEF DamageInv
  <2>2. /\ anchored' \in Seq(S \union {table}) /\ DOMAIN anchored' = 1..(Len(anchored) + 1)
        /\ \A i \in 1..Len(anchored) : anchored'[i] = anchored[i]
        /\ anchored'[Len(anchored) + 1] = table /\ Len(anchored) \in Nat
    BY <1>1, <1>2, AppendShape
  <2>3. /\ heads' \in Seq(S \union {h}) /\ DOMAIN heads' = 1..(Len(heads) + 1)
        /\ \A i \in 1..Len(heads) : heads'[i] = heads[i]
        /\ heads'[Len(heads) + 1] = h /\ Len(heads) \in Nat
    BY <1>1, <1>2, AppendShape
  <2>4. Len(anchored') = Len(anchored) + 1 /\ Len(heads') = Len(heads) + 1
    BY <1>1, <1>2
  <2> QED
    BY <2>1, <2>2, <2>3, <2>4
<1>4. anchored' \in Seq(S \union {table, h}) /\ heads' \in Seq(S \union {table, h})
  BY <1>3
<1>5. Len(table) > 0
  <2>1. PICK U : table \in Seq(U)
    BY DEF DamageInv, Rows
  <2> QED
    BY <1>1, <2>1
<1>6. ASSUME NEW i \in 1..Len(anchored')
      PROVE  /\ Rows(anchored'[i]) /\ Len(anchored'[i]) > 0
             /\ heads'[i].hash = anchored'[i][Len(anchored'[i])].hash
  <2>1. CASE i = Len(anchored) + 1
    BY <1>1, <1>3, <1>5, <2>1 DEF DamageInv
  <2>2. CASE i \in 1..Len(anchored)
    BY <1>3, <2>2 DEF DamageInv
  <2> QED
    BY <1>3, <2>1, <2>2
<1>7. Rows(table)' /\ (\A i \in 1..Len(anchored') : Rows(anchored[i])')
  BY <1>1, <1>6 DEF DamageInv, Rows
<1>8. (\E i \in DOMAIN table : ~LinkOK(table, i)) => (\E i \in DOMAIN table : ~LinkOK(table, i))'
  BY <1>1 DEF LinkOK, Before
<1> QED
  BY <1>1, <1>3, <1>4, <1>6, <1>7, <1>8 DEF DamageInv

LEMMA DamageNext == TrailInv /\ DamageInv /\ [Next]_vars => DamageInv'
<1> SUFFICES ASSUME TrailInv, DamageInv, [Next]_vars PROVE DamageInv'
  OBVIOUS
<1>1. ASSUME UNCHANGED <<table, heads, anchored, tampered>> PROVE DamageInv'
  BY <1>1 DEF DamageInv, Rows, LinkOK, Before
<1>2. ASSUME NEW c \in Calls, Step(c) PROVE DamageInv'
  BY <1>2, DamageStep
<1>3. CASE Emit \/ Deliver \/ LeakEnds \/ UNCHANGED vars
  BY <1>1, <1>3 DEF Emit, Deliver, LeakEnds, vars, auditVars
<1>4. ASSUME NEW c \in Direct, NEW id \in Ids, AppendDirect(c, id) PROVE DamageInv'
  BY <1>1, <1>4 DEF AppendDirect, auditVars
<1>5. ASSUME NEW v \in Verifiers, ReadRows(v) \/ Judge(v) PROVE DamageInv'
  BY <1>1, <1>5 DEF ReadRows, Judge
<1>6. CASE SnapshotHead
  BY <1>6, DamageSnapshot
<1>7. CASE Tamper
  <2>1. UNCHANGED <<heads, anchored>> /\ tampered' \in {"edited", "cut", "rewritten"}
        /\ (tampered' = "edited" => Edit)
    BY <1>7 DEF Tamper, Edit, Cut, Rewrite
  <2>2. Rows(table')
    BY <1>7, EditShows, CutAndRewriteAreRows DEF Tamper
  <2>3. tampered' = "edited" => \E i \in DOMAIN table' : ~LinkOK(table', i)
    BY <2>1, EditShows
  <2>4. (\E i \in DOMAIN table' : ~LinkOK(table', i)) => (\E i \in DOMAIN table : ~LinkOK(table, i))'
    BY DEF LinkOK, Before
  <2>5. Rows(table)' /\ tampered' # "no"
    BY <2>1, <2>2 DEF Rows
  <2> QED
    BY <2>1, <2>3, <2>4, <2>5 DEF DamageInv, Rows
<1> QED
  BY <1>2, <1>3, <1>4, <1>5, <1>6, <1>7 DEF Next

(* A table that passes verification begins with every table whose head was *)
(* archived and that passed itself.                                        *)
LEMMA ArchivedIsPrefix ==
  ASSUME DamageInv, Report(table, heads).ok, table # << >>,
         NEW i \in DOMAIN anchored, VerifyChain(anchored[i]).ok
  PROVE  IsPrefix(anchored[i], table)
<1> DEFINE a == anchored[i]
           n == Len(a)
<1>1. VerifyChain(table).ok /\ HeadsOK(table, heads)
  <2>1. ASSUME NEW q, NEW p, q = [ok |-> q.ok, brokenAt |-> q.brokenAt], [q EXCEPT !.ok = @ /\ p].ok
        PROVE  q.ok /\ p
    BY <2>1
  <2> DEFINE v == VerifyChain(table)
             p == table = << >> \/ HeadsOK(table, heads)
  <2>2. v = [ok |-> v.ok, brokenAt |-> v.brokenAt]
    BY DEF VerifyChain
  <2>3. [v EXCEPT !.ok = @ /\ p].ok
    BY DEF Report
  <2> HIDE DEF v, p
  <2>4. v.ok /\ p
    BY <2>1, <2>2, <2>3
  <2> QED
    BY <2>4 DEF v, p
<1>2. i \in 1..Len(anchored) /\ i \in DOMAIN heads
  <2>1. PICK S : anchored \in Seq(S) /\ heads \in Seq(S)
    BY DEF DamageInv
  <2>2. Len(heads) = Len(anchored)
    BY DEF DamageInv
  <2>3. DOMAIN anchored = 1..Len(anchored) /\ DOMAIN heads = 1..Len(heads)
    BY <2>1
  <2> QED
    BY <2>2, <2>3
<1>3. Rows(a) /\ Rows(table) /\ n > 0 /\ n \in Nat /\ heads[i].hash = a[n].hash
  <2>1. Rows(a) /\ Rows(table) /\ n > 0 /\ heads[i].hash = a[n].hash
    BY <1>2 DEF DamageInv
  <2>2. PICK S : a \in Seq(S)
    BY <2>1 DEF Rows
  <2>3. n \in Nat
    BY <2>2
  <2> QED
    BY <2>1, <2>3
<1>4. \A rows : VerifyChain(rows).ok => \A k \in DOMAIN rows : LinkOK(rows, k)
  BY DEF VerifyChain
<1>5. Sound(a) /\ Sound(table)
  BY <1>1, <1>3, <1>4 DEF Sound, Rows
<1>6. PICK k \in DOMAIN table : table[k].hash = a[n].hash
  BY <1>1, <1>2, <1>3 DEF HeadsOK
<1>7. k \in 1..Len(table) /\ n \in 1..Len(a) /\ Len(table) \in Nat
  BY <1>3, <1>6 DEF Rows
<1> HIDE DEF a
<1>8. n = k /\ \A j \in 1..n : a[j] = table[j]
  BY <1>3, <1>5, <1>6, <1>7, HashFixesChain
<1>9. SubSeq(a, 1, n) = SubSeq(table, 1, n)
  BY <1>7, <1>8
<1> QED
  BY <1>7, <1>8, <1>9 DEF IsPrefix, a

(* Verification finds an edited row, and no edit, recomputed chain or cut   *)
(* that reaches back behind an archived head goes unnoticed, however long   *)
(* the table is (verifyChain, verifyHeadSnapshots).                         *)
THEOREM DamageIsNoticed == Spec => []DamageIsFound
<1>1. DamageInv => DamageIsFound
  <2>1. ASSUME NEW i \in DOMAIN table, ~LinkOK(table, i) PROVE ~VerifyChain(table).ok
    BY <2>1 DEF VerifyChain
  <2> QED
    BY <2>1, ArchivedIsPrefix DEF DamageInv, DamageIsFound
<1>2. TrailInv /\ DamageInv /\ [Next]_vars => (TrailInv /\ DamageInv)'
  BY TrailNext, DamageNext
<1> QED
  BY <1>1, <1>2, TrailStarts, DamageStarts, PTL DEF Spec

=============================================================================
