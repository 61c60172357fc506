----------------------------- MODULE EventTrail -----------------------------
(***************************************************************************)
(* The audit trail: the write queue of the event bus, SqlEventStore with   *)
(* its hash chain on either SQL driver, the snapshots of the chain's head  *)
(* and the integrity monitor.                                              *)
(*                                                                         *)
(* A call of append is one of BusEvents (1, 2, ... in the order of the     *)
(* emits, handed on one after the other by the queue of the bus) or one of *)
(* Direct (the HTTP handlers and the process executor, which do not wait   *)
(* for each other).  A hash is the pair of what was hashed, so it is       *)
(* injective and has no collisions.                                        *)
(***************************************************************************)
EXTENDS Naturals, Sequences, FiniteSetsExt, SequencesExt

CONSTANTS
  MaxEmits,   \* bound: events emitted on the bus
  Direct,     \* appends made past the bus
  Ids,        \* the ids a direct append may carry; two may carry the same one
  Verifiers,  \* callers of verifyNow: the timer, the button of the console
  MaxTries,   \* attempts of an append that meets a deadlock (5 in the code)
  MaxHeads,   \* bound: snapshots taken
  None

ASSUME TrailAssumption ==
  /\ MaxEmits \in Nat /\ MaxTries \in Nat \ {0} /\ MaxHeads \in Nat
  /\ (1..MaxEmits) \intersect Direct = {}

BusEvents == 1..MaxEmits
Calls == BusEvents \union Direct

VARIABLES
  driver,     \* "sqlite" or "mysql"
  emitted,    \* how many events the bus has emitted
  sent,       \* how many of them the queue has handed to the sink
  line,       \* sqlite: txChain, the transactions in the order of the calls
  call,       \* call -> [id, st, try, tail]
  leaked,     \* RELEASE_LOCK failed: a pooled connection still owns the lock
  table,      \* ddw_events, by seq
  heads,      \* the snapshot file
  anchored,   \* history: the table at each snapshot
  scan,       \* verifier -> rows it has read, or None
  status,     \* IntegrityMonitor.lastResult
  tampered    \* history: what someone outside the program did to the table

callVars == <<sent, line, call, leaked>>
auditVars == <<heads, anchored, scan, status, tampered>>
vars == <<driver, emitted, callVars, table, auditVars>>

-----------------------------------------------------------------------------
(* The hash chain.                                                         *)

Genesis == <<>>
Hash(content, prev) == <<content, prev>>
Content(row) == <<row.id, row.body>>
Row(id, body, prev) ==
  [id |-> id, body |-> body, prev |-> prev, hash |-> Hash(<<id, body>>, prev)]

Before(rows, i) == IF i = 1 THEN Genesis ELSE rows[i - 1].hash
LinkOK(rows, i) ==
  /\ rows[i].prev = Before(rows, i)
  /\ rows[i].hash = Hash(Content(rows[i]), Before(rows, i))

\* verifyChain: the first row that does not continue the chain
VerifyChain(rows) ==
  LET bad == {i \in DOMAIN rows : ~LinkOK(rows, i)}
  IN [ok |-> bad = {},
      brokenAt |-> IF bad = {} THEN None ELSE rows[Min(bad)].id]

\* verifyHeadSnapshots: every archived head is still the stored hash of its row
HeadsKnown(rows, snaps) ==
  \A i \in DOMAIN snaps : \E k \in DOMAIN rows : rows[k].id = snaps[i].id
HeadsOK(rows, snaps) ==
  \A i \in DOMAIN snaps :
    \E k \in DOMAIN rows : rows[k].id = snaps[i].id /\ rows[k].hash = snaps[i].hash

\* verifyIntegrity; its answer as toStatus keeps it: the head's brokenAt is dropped
Report(rows, snaps) ==
  [VerifyChain(rows) EXCEPT !.ok = @ /\ (rows = <<>> \/ HeadsOK(rows, snaps))]

-----------------------------------------------------------------------------
Init ==
  /\ driver \in {"sqlite", "mysql"}
  /\ emitted = 0 /\ sent = 0 /\ line = <<>>
  /\ call = [c \in Calls |-> [id |-> c, st |-> "none", try |-> 0, tail |-> Genesis]]
  /\ leaked = FALSE
  /\ table = <<>>
  /\ heads = <<>> /\ anchored = <<>>
  /\ scan = [v \in Verifiers |-> None]
  /\ status = None /\ tampered = "no"

InTx(c) == call[c].st \in {"tx", "read"}
Ended(c) == call[c].st \in {"done", "failed"}
Free == \A c \in Calls : ~InTx(c)
Set(c, st) == [call EXCEPT ![c].st = st]
End(c, st) == [call EXCEPT ![c] = [id |-> @.id, st |-> st, try |-> 0, tail |-> Genesis]]
\* sqlite: the transaction joins txChain at once
Queued(c) == IF driver = "sqlite" THEN Append(line, c) ELSE line

(* bus.emit: listeners first, then the write joins the queue.  A write that *)
(* rejects rejects the queue: whatever is emitted later is never written.   *)
Emit ==
  /\ emitted < MaxEmits
  /\ emitted' = emitted + 1
  /\ UNCHANGED <<driver, callVars, table, auditVars>>

QueueOpen == sent > 0 => call[sent].st = "done"

Deliver ==
  /\ sent < emitted /\ QueueOpen
  /\ sent' = sent + 1
  /\ call' = [call EXCEPT ![sent + 1].st = "wait", ![sent + 1].try = 1]
  /\ line' = Queued(sent + 1)
  /\ UNCHANGED <<driver, emitted, leaked, table, auditVars>>

(* append called without the bus, perhaps of an event the store was given   *)
(* before                                                                   *)
AppendDirect(c, id) ==
  /\ call[c].st = "none" /\ (id \in BusEvents => id <= sent)
  /\ call' = [call EXCEPT ![c] = [@ EXCEPT !.id = id, !.st = "wait", !.try = 1]]
  /\ line' = Queued(c)
  /\ UNCHANGED <<driver, emitted, sent, leaked, table, auditVars>>

(* The transaction begins: on sqlite in the order of txChain, on mysql for  *)
(* whoever GET_LOCK answers 1 (it does so again on a connection that still  *)
(* owns a lock that was not released).                                      *)
MyTurn(c) == \A i \in DOMAIN line : Ended(line[i]) \/ \E j \in 1..i : line[j] = c

EnterUnlocked(c) ==
  /\ call[c].st = "wait"
  /\ driver = "sqlite" => MyTurn(c)
  /\ call' = Set(c, "tx")
  /\ UNCHANGED <<driver, emitted, sent, line, leaked, table, auditVars>>

Enter(c) ==
  /\ call[c].st = "wait" /\ Free
  /\ driver = "sqlite" => MyTurn(c)
  /\ call' = Set(c, "tx")
  /\ UNCHANGED <<driver, emitted, sent, line, leaked, table, auditVars>>

(* GET_LOCK waits ten seconds at most: another holds the lock, or leaked it *)
LockTimeout(c) ==
  /\ driver = "mysql" /\ call[c].st = "wait"
  /\ ~Free \/ leaked
  /\ call' = End(c, "failed")
  /\ UNCHANGED <<driver, emitted, sent, line, leaked, table, auditVars>>

ReadTail(c) ==
  /\ call[c].st = "tx"
  /\ call' = [call EXCEPT ![c].st = "read", ![c].tail = Before(table, Len(table) + 1)]
  /\ UNCHANGED <<driver, emitted, sent, line, leaked, table, auditVars>>

Stored(id) == \E i \in DOMAIN table : table[i].id = id

\* INSERT ... WHERE NOT EXISTS and COMMIT: a repeated id changes nothing
InsertAlways(c) == table' = Append(table, Row(call[c].id, "as written", call[c].tail))
Insert(c) ==
  table' = IF Stored(call[c].id) THEN table
           ELSE Append(table, Row(call[c].id, "as written", call[c].tail))

\* RELEASE_LOCK in the finally of withNamedLock; its failure is swallowed
Release == IF driver = "mysql" THEN leaked' \in {leaked, TRUE} ELSE UNCHANGED leaked

Commit(c) ==
  /\ call[c].st = "read"
  /\ Insert(c) /\ Release
  /\ call' = End(c, "done")
  /\ UNCHANGED <<driver, emitted, sent, line, auditVars>>

(* The COMMIT took effect and its answer was lost: the caller sees an error *)
CommitUnheard(c) ==
  /\ driver = "mysql" /\ call[c].st = "read"
  /\ Insert(c) /\ Release
  /\ call' = End(c, "failed")
  /\ UNCHANGED <<driver, emitted, sent, line, auditVars>>

(* A statement fails and the transaction is rolled back.  A deadlock is     *)
(* tried again after a pause, from the lock on; any other error is thrown.  *)
DeadlockForever(c) ==
  /\ driver = "mysql" /\ InTx(c)
  /\ call' = Set(c, "wait") /\ Release
  /\ UNCHANGED <<driver, emitted, sent, line, table, auditVars>>
Deadlock(c) ==
  /\ driver = "mysql" /\ InTx(c)
  /\ call' = IF call[c].try < MaxTries
               THEN [call EXCEPT ![c] = [id |-> @.id, st |-> "wait", try |-> @.try + 1, tail |-> Genesis]]
               ELSE End(c, "failed")
  /\ Release
  /\ UNCHANGED <<driver, emitted, sent, line, table, auditVars>>

StatementFails(c) ==
  /\ InTx(c)
  /\ call' = End(c, "failed")
  /\ Release
  /\ UNCHANGED <<driver, emitted, sent, line, table, auditVars>>

(* the server drops the connection that leaked the lock *)
LeakEnds ==
  /\ leaked /\ leaked' = FALSE
  /\ UNCHANGED <<driver, emitted, sent, line, call, table, auditVars>>

-----------------------------------------------------------------------------
(* Snapshots, verification, and what others do to the table.  An open       *)
(* transaction has changed nothing yet, so these steps commute with it and  *)
(* the model takes them between two transactions only.                      *)

SnapshotHead ==
  /\ Free /\ table # <<>> /\ Len(heads) < MaxHeads
  /\ heads' = Append(heads, [id |-> Last(table).id, hash |-> Last(table).hash])
  /\ anchored' = Append(anchored, table)
  /\ UNCHANGED <<driver, emitted, callVars, table, scan, status, tampered>>

(* verifyNow reads the rows, then the snapshot file, then sets lastResult   *)
ReadRows(v) ==
  /\ Free /\ scan[v] = None
  /\ scan' = [scan EXCEPT ![v] = table]
  /\ UNCHANGED <<driver, emitted, callVars, table, heads, anchored, status, tampered>>

Judge(v) ==
  /\ Free /\ scan[v] # None
  /\ status' = Report(scan[v], heads)
  /\ scan' = [scan EXCEPT ![v] = None]
  /\ UNCHANGED <<driver, emitted, callVars, table, heads, anchored, tampered>>

\* the body of row i is changed in place
Edited(i) == [table EXCEPT ![i].body = "forged"]

\* row i written anew, with the hash that goes with the body
Relinked(i, body) == [table EXCEPT ![i] = Row(table[i].id, body, Before(table, i))]

(* Someone with access to the database changes a row, or removes the last   *)
(* rows, or changes a row and its hash and then links row after row: the    *)
(* whole chain is computed anew when every later row is linked again.       *)
Edit ==
  /\ tampered = "no" /\ Free
  /\ \E i \in DOMAIN table : table' = Edited(i)
  /\ tampered' = "edited"
  /\ UNCHANGED <<driver, emitted, callVars, heads, anchored, scan, status>>

Cut ==
  /\ tampered = "no" /\ Free
  /\ \E i \in DOMAIN table : table' = SubSeq(table, 1, i - 1)
  /\ tampered' = "cut"
  /\ UNCHANGED <<driver, emitted, callVars, heads, anchored, scan, status>>

Rewrite ==
  /\ tampered \in {"no", "rewritten"} /\ Free
  /\ \E i \in DOMAIN table :
       table' = Relinked(i, IF tampered = "no" THEN "forged" ELSE table[i].body)
  /\ tampered' = "rewritten"
  /\ UNCHANGED <<driver, emitted, callVars, heads, anchored, scan, status>>

Tamper == Edit \/ Cut \/ Rewrite

-----------------------------------------------------------------------------
Step(c) ==
  \/ Enter(c) \/ LockTimeout(c) \/ ReadTail(c) \/ Commit(c)
  \/ CommitUnheard(c) \/ Deadlock(c) \/ StatementFails(c)

Next ==
  \/ Emit \/ Deliver
  \/ \E c \in Direct : \E id \in Ids : AppendDirect(c, id)
  \/ \E c \in Calls : Step(c)
  \/ LeakEnds
  \/ SnapshotHead
  \/ \E v \in Verifiers : ReadRows(v) \/ Judge(v)
  \/ Tamper

(* The promises of the process and the timers of the database always run    *)
(* on; nobody is obliged to emit, to verify or to tamper.                   *)
Fairness == WF_vars(Deliver) /\ \A c \in Calls : WF_vars(Step(c))

Spec == Init /\ [][Next]_vars /\ Fairness

-----------------------------------------------------------------------------
(* Properties.                                                             *)

TypeOK ==
  /\ driver \in {"sqlite", "mysql"}
  /\ emitted \in 0..MaxEmits /\ sent \in 0..emitted
  /\ line \in Seq(Calls)
  /\ \A c \in Calls :
       /\ call[c].id \in Ids \union Calls
       /\ call[c].st \in {"none", "wait", "tx", "read", "done", "failed"}
       /\ call[c].try \in 0..MaxTries
  /\ leaked \in BOOLEAN
  /\ Len(heads) <= MaxHeads /\ Len(anchored) = Len(heads)
  /\ tampered \in {"no", "edited", "rewritten", "cut"}

(* Whatever appends overlap, time out, are tried again or repeat an id, the *)
(* chain the program writes verifies (append reads the tail and inserts in  *)
(* one transaction under one lock).                                         *)
ChainIsSound == tampered = "no" => VerifyChain(table).ok

(* An append that returned is in the table once, also when an error hid the *)
(* commit and the event was appended again; what is stored has been given   *)
(* to append, and its call has ended.                                       *)
StoredExactlyOnce ==
  tampered = "no" =>
    /\ \A i, k \in DOMAIN table : table[i].id = table[k].id => i = k
    /\ \A c \in Calls : call[c].st = "done" => Stored(call[c].id)
    /\ \A i \in DOMAIN table : \E c \in Calls : call[c].id = table[i].id /\ Ended(c)

(* Before an event of a bus the table holds all that the bus emitted before *)
(* it: a failed write is never jumped over (EventBus.queue).  And on sqlite *)
(* the appends run in the order they were called, which is how the events   *)
(* of a worker, that nobody awaits, keep their order.                       *)
OrderIsKept ==
  tampered = "no" =>
    /\ \A k \in DOMAIN table, e \in BusEvents :
         table[k].id \in BusEvents /\ e < table[k].id => \E i \in 1..(k - 1) : table[i].id = e
    /\ \A i, k \in DOMAIN line :
         i < k /\ call[line[k]].st \in {"tx", "read", "done"} => Ended(line[i])

(* What is read back is what was appended: every returned event once, in    *)
(* the order in which the bus emitted (SqlEventStore.append, EventBus).     *)
TrailIsFaithful == StoredExactlyOnce /\ OrderIsKept

(* Verification finds an edited row at that row, and no edit, recomputed    *)
(* chain or cut that reaches back behind an archived head goes unnoticed.   *)
DamageIsFound ==
  /\ tampered = "edited" => ~VerifyChain(table).ok
  /\ Report(table, heads).ok =>
       \A i \in DOMAIN anchored :
         table # <<>> /\ VerifyChain(anchored[i]).ok => IsPrefix(anchored[i], table)

(* Every append ends, and every emitted event is written or refused, unless *)
(* a write before it was refused: waiting for the lock is bounded, and so   *)
(* is the number of attempts.                                               *)
EveryAppendEnds ==
  /\ \A c \in Direct : call[c].st # "none" ~> Ended(c)
  /\ \A e \in BusEvents :
       e <= emitted ~> Ended(e) \/ \E b \in BusEvents : call[b].st = "failed"

=============================================================================
