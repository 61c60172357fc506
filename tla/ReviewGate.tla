----------------------------- MODULE ReviewGate -----------------------------
(***************************************************************************)
(* The human checkpoint: an execution declares an item (task_check, or a   *)
(* shell command outside the whitelist), registers a resolver with the     *)
(* CheckReviewQueue and waits; an operator sees the pending checks, which  *)
(* are derived from the event stream, and approves or rejects.             *)
(*                                                                         *)
(* Two things must agree for that to work: the resolvers in memory and the *)
(* list derived from the stored events.  Events reach the store through    *)
(* the queue of the event bus, in the order of the emit calls.  The stored *)
(* stream is represented by what listCheckHistory makes of it, one record  *)
(* per key: the derivation is a fold, so it is applied event by event.     *)
(*                                                                         *)
(* An execution is given up when the watchdog or a forced reset takes its  *)
(* task away: nothing stops it, it goes on waiting and declaring.          *)
(***************************************************************************)
EXTENDS Sequences

CONSTANTS Task,   \* task ids
          Item,   \* ids an execution declares: plan items, bash-1, bash-2, ...
          Run,    \* slots for executions alive at once
          NoRun   \* no resolver registered; no execution owns the task

ASSUME GateAssumption == NoRun \notin Run /\ Task # {} /\ Item # {}

Key == Task \X Item

VARIABLES
  exec,      \* [Run -> execution]
  owner,     \* [Task -> the execution that owns the row, or NoRun]
  resolver,  \* CheckReviewQueue.pending: [Key -> Run or NoRun]
  emitted,   \* events on their way to the store, oldest first
  record,    \* [Key -> what the derivation says], from the stored events
  voiding,   \* keys of void requests between their read and their append
  silent,    \* a sink of the bus has rejected: nothing is written any more
  steady     \* history: nothing was given up, rejected or killed so far

vars == <<exec, owner, resolver, emitted, record, voiding, silent, steady>>

Verdict == {"none", "approved", "rejected"}
Record  == {"absent", "pending", "approved", "rejected", "voided"}

Off == [pc |-> "off", key |-> CHOOSE k \in Key : TRUE, verdict |-> "none"]

Execution == [pc      : {"off", "work", "emitting", "waiting", "reporting"},
              key     : Key,
              verdict : Verdict]
Event     == [kind : {"check", "approved", "rejected"}, key : Key, by : Run]

TypeOK ==
  /\ exec \in [Run -> Execution]
  /\ owner \in [Task -> Run \cup {NoRun}]
  /\ resolver \in [Key -> Run \cup {NoRun}]
  /\ emitted \in Seq(Event)
  /\ record \in [Key -> Record]
  /\ voiding \subseteq Key
  /\ silent \in BOOLEAN /\ steady \in BOOLEAN

Init ==
  /\ exec = [r \in Run |-> Off]
  /\ owner = [t \in Task |-> NoRun]
  /\ resolver = [k \in Key |-> NoRun]
  /\ emitted = << >>
  /\ record = [k \in Key |-> "absent"]
  /\ voiding = {}
  /\ silent = FALSE
  /\ steady = TRUE

-----------------------------------------------------------------------------
(* What the operator sees.                                                 *)

(* listPendingChecks: declared, not decided, and the task is being         *)
(* executed (claimed or running).                                          *)
Listed(k) == record[k] = "pending" /\ owner[k[1]] # NoRun

(* Declared, not decided, but nobody executes the task any more. *)
Expired(k) == record[k] = "pending" /\ owner[k[1]] = NoRun

(* Mutant: a declaration of an item that was decided before is ignored. *)
DerivedFirstOnly(k, kind) ==
  CASE kind = "check" -> IF record[k] = "absent" THEN "pending" ELSE record[k]
    [] kind # "check" -> IF record[k] = "absent" THEN "absent" ELSE kind

(* Mutant: only an approval settles a declaration. *)
DerivedApprovalOnly(k, kind) ==
  CASE kind = "check"    -> "pending"
    [] kind = "rejected" -> record[k]
    [] kind \in {"approved", "voided"} -> IF record[k] = "absent" THEN "absent" ELSE kind

(* One more event for listCheckHistory: a declaration starts a new pending *)
(* record, a decision settles the record there is.                         *)
Derived(k, kind) ==
  CASE kind = "check" -> "pending"
    [] kind # "check" -> IF record[k] = "absent" THEN "absent" ELSE kind

-----------------------------------------------------------------------------
(* Executions.                                                             *)

(* Mutant: a rejection is not reported. *)
EmitApprovals(kind, r) ==
  IF kind = "rejected" THEN UNCHANGED emitted
  ELSE emitted' = Append(emitted, [kind |-> kind, key |-> exec'[r].key, by |-> r])

(* bus.emit: the event joins the write queue, the caller waits.  After a    *)
(* sink has rejected, every emit does: the call that emits fails, and its  *)
(* execution goes on.                                                      *)
Emit(kind, r) == emitted' = Append(emitted, [kind |-> kind, key |-> exec'[r].key, by |-> r])
EmitOrFail(kind, r) == IF silent THEN UNCHANGED emitted ELSE Emit(kind, r)
AfterEmit(pc) == IF silent THEN "work" ELSE pc

AwaitsVerdict(r) == exec[r].pc \in {"emitting", "waiting"} /\ exec[r].verdict = "none"

(* A resolver is called.  One whose declaration was never written is no    *)
(* longer waited for.                                                      *)
Hears(r, k) == resolver[k] = r /\ AwaitsVerdict(r) /\ exec[r].key = k

(* The scheduler starts an execution of a task nobody owns. *)
Start(r, t) ==
  /\ exec[r].pc = "off"
  /\ owner[t] = NoRun
  /\ owner' = [owner EXCEPT ![t] = r]
  /\ \E i \in Item : exec' = [exec EXCEPT ![r] = [pc |-> "work", key |-> <<t, i>>, verdict |-> "none"]]
  /\ UNCHANGED <<resolver, emitted, record, voiding, silent, steady>>

(* Mutant: the resolver that is replaced is not woken. *)
DeclareForgets(r, i) ==
  LET k == <<exec[r].key[1], i>> IN
  /\ exec[r].pc = "work"
  /\ resolver' = [resolver EXCEPT ![k] = r]
  /\ exec' = [exec EXCEPT ![r] = [pc |-> AfterEmit("emitting"), key |-> k, verdict |-> "none"]]
  /\ EmitOrFail("check", r)
  /\ UNCHANGED <<owner, record, voiding, silent, steady>>

(* gate.review registers the resolver and wakes the one it replaces with a *)
(* rejection; the declaration is emitted in the same synchronous block.    *)
Declare(r, i) ==
  LET k == <<exec[r].key[1], i>> IN
  /\ exec[r].pc = "work"
  /\ resolver' = [resolver EXCEPT ![k] = r]
  /\ exec' = [q \in Run |->
       IF q = r THEN [pc |-> AfterEmit("emitting"), key |-> k, verdict |-> "none"]
       ELSE IF Hears(q, k) THEN [exec[q] EXCEPT !.verdict = "rejected"]
       ELSE exec[q]]
  /\ EmitOrFail("check", r)
  /\ UNCHANGED <<owner, record, voiding, silent, steady>>

(* The verdict is there: the intervention event is emitted. *)
Report(r) ==
  /\ exec[r].pc = "waiting"
  /\ exec[r].verdict # "none"
  /\ exec' = [exec EXCEPT ![r].pc = AfterEmit("reporting")]
  /\ EmitOrFail(exec[r].verdict, r)
  /\ UNCHANGED <<owner, resolver, record, voiding, silent, steady>>

(* The bus writes the oldest event; the emit that waited for it returns.   *)
Stored(e) == [record EXCEPT ![e.key] = Derived(e.key, e.kind)]
Write ==
  /\ emitted # << >>
  /\ record' = Stored(Head(emitted))
  /\ LET e == Head(emitted) IN
       exec' = [exec EXCEPT ![e.by].pc = IF e.kind = "check" THEN "waiting" ELSE "work"]
  /\ emitted' = Tail(emitted)
  /\ UNCHANGED <<owner, resolver, voiding, silent, steady>>

(* A sink rejects, whether the oldest event was stored or not: the events  *)
(* behind it are never written, the emits that wait reject.                *)
Silence ==
  /\ emitted # << >>
  /\ record' \in {record, Stored(Head(emitted))}
  /\ exec' = [r \in Run |-> IF exec[r].pc \in {"emitting", "reporting"}
                            THEN [exec[r] EXCEPT !.pc = "work"] ELSE exec[r]]
  /\ emitted' = << >>
  /\ silent' = TRUE /\ steady' = FALSE
  /\ UNCHANGED <<owner, resolver, voiding>>

(* The execution is over; if it still owns its task, the row is settled.   *)
End(r) ==
  /\ exec[r].pc = "work"
  /\ exec' = [exec EXCEPT ![r] = Off]
  /\ owner' = [t \in Task |-> IF owner[t] = r THEN NoRun ELSE owner[t]]
  /\ UNCHANGED <<resolver, emitted, record, voiding, silent, steady>>

-----------------------------------------------------------------------------
(* Operators.                                                              *)

(* review(): without a resolver it throws, which is HTTP 404. *)
Review(k) ==
  /\ resolver[k] # NoRun
  /\ \E v \in {"approved", "rejected"} :
       exec' = [r \in Run |-> IF Hears(r, k) THEN [exec[r] EXCEPT !.verdict = v] ELSE exec[r]]
  /\ resolver' = [resolver EXCEPT ![k] = NoRun]
  /\ UNCHANGED <<owner, emitted, record, voiding, silent, steady>>

(* POST void: an expired check only, as far as the list read says; the     *)
(* event goes to the store directly, past the queue of the bus.            *)
VoidRead(k) ==
  /\ Expired(k)
  /\ voiding' = voiding \cup {k}
  /\ UNCHANGED <<exec, owner, resolver, emitted, record, silent, steady>>

VoidWrite(k) ==
  /\ k \in voiding
  /\ voiding' = voiding \ {k}
  /\ record' = [record EXCEPT ![k] = Derived(k, "voided")]
  /\ UNCHANGED <<exec, owner, resolver, emitted, silent, steady>>

(* The watchdog or a forced reset takes the task away. *)
GiveUp(t) ==
  /\ owner[t] # NoRun
  /\ owner' = [owner EXCEPT ![t] = NoRun]
  /\ steady' = FALSE
  /\ UNCHANGED <<exec, resolver, emitted, record, voiding, silent>>

(* The process dies; the orphan scan of the restart fails every row. *)
Crash ==
  /\ exec' = [r \in Run |-> Off]
  /\ owner' = [t \in Task |-> NoRun]
  /\ resolver' = [k \in Key |-> NoRun]
  /\ emitted' = << >>
  /\ voiding' = {}
  /\ silent' = FALSE /\ steady' = FALSE
  /\ UNCHANGED record

-----------------------------------------------------------------------------
(* Next-state relation.                                                    *)

Next ==
  \/ \E r \in Run :
       \/ \E t \in Task : Start(r, t)
       \/ \E i \in Item : Declare(r, i)
       \/ Report(r)
       \/ End(r)
  \/ Write \/ Silence
  \/ \E k \in Key : Review(k) \/ VoidRead(k) \/ VoidWrite(k)
  \/ \E t \in Task : GiveUp(t)
  \/ Crash

Spec == Init /\ [][Next]_vars

(* The event loop goes on: what was emitted is written, who was woken      *)
(* reports.                                                                *)
FairSpec == Spec /\ WF_vars(Write) /\ \A r \in Run : WF_vars(Report(r))

-----------------------------------------------------------------------------
(* Properties.                                                             *)

(* The resolvers are exactly the executions that wait for a verdict, given *)
(* up or not: nobody waits without a resolver to wake them, and nobody is  *)
(* woken twice (wait() wakes the resolver it replaces, review() removes    *)
(* the one it resolves).  A bus that rejects leaves resolvers behind that  *)
(* nobody waits for, but still nobody without one.                         *)
ResolversAreWaiting ==
  /\ \A r \in Run : AwaitsVerdict(r) => resolver[exec[r].key] = r
  /\ ~silent => \A k \in Key : resolver[k] # NoRun =>
       AwaitsVerdict(resolver[k]) /\ exec[resolver[k]].key = k

(* As long as nothing is given up or rejected: what is listed can be reviewed, or *)
(* was reviewed and the decision is about to be stored (register first,    *)
(* emit afterwards: "no 404 window").                                      *)
ListedIsReviewable ==
  steady => \A k \in Key : Listed(k) =>
    \/ resolver[k] # NoRun
    \/ \E r \in Run : exec[r].key = k /\ exec[r].verdict # "none" /\ exec[r].pc # "work"

(* An execution that owns its task and waits, its declaration stored, is   *)
(* listed: the operator who could release it sees it ("the latest          *)
(* declaration without a review is pending").                              *)
WaiterIsListed(r) ==
  exec[r].pc = "waiting" /\ exec[r].verdict = "none" => Listed(exec[r].key)

(* ... which holds as long as no execution is given up ...                 *)
WaitingIsListed == steady => \A r \in Run : WaiterIsListed(r)

(* The two halves of the list an operator works from: no check without     *)
(* somebody to release, nobody to release without a check                  *)
(* (listPendingChecks over the stored events, CheckReviewQueue).           *)
ListIsTrue == ListedIsReviewable /\ WaitingIsListed

(* ... but, refuted, not in general for the execution that owns the task.  *)
OwnerIsListed == \A t \in Task : owner[t] # NoRun => WaiterIsListed(owner[t])

(* Every decision is stored: an execution that was woken reports it and    *)
(* goes on, whatever happens to its task; only a crash or a sink that      *)
(* rejects loses it, and even then it goes on.                             *)
DecisionIsReported ==
  \A r \in Run : exec[r].verdict # "none" /\ exec[r].pc = "waiting" ~> exec[r].pc \in {"work", "off"}

=============================================================================
