---------------------------- MODULE AgentSession ----------------------------
(***************************************************************************)
(* The executions of one task by one employee: the executor that clears    *)
(* or keeps what an earlier execution left, the session file the agent's   *)
(* messages go to, EmployeeRuntime that drives the agent, the model        *)
(* gateway, and the account of what the calls cost.                        *)
(*                                                                         *)
(* An execution the scheduler gave up goes on beside the next one.  A      *)
(* plan takes a new runtime for every attempt at an item; all but the      *)
(* first read the session back.                                            *)
(***************************************************************************)
EXTENDS Naturals, Sequences, FiniteSetsExt

CONSTANTS
  Exec,          \* executions
  Session,       \* bound: session files of the task
  MaxTurns,      \* turns of one attempt
  MaxAttempts,   \* bound: attempts of one execution
  None

VARIABLES
  session,   \* the files: messages on disk, or None
  run,       \* the executions
  story,     \* history: what was said since the task last began anew
  astray     \* history: since then two executions were under way or a write failed

vars == <<session, run, story, astray>>

Off == [at |-> "off", anew |-> TRUE, n |-> 0, sid |-> None, mem |-> <<>>, lost |-> 0,
        thrown |-> 0, unsaved |-> 0, turns |-> 0, cost |-> 0, due |-> 0, from |-> 0, result |-> None]
Over == [Off EXCEPT !.at = "over"]

Init ==
  /\ session = [s \in Session |-> None]
  /\ run = [x \in Exec |-> Off] /\ story = <<>> /\ astray = FALSE

-----------------------------------------------------------------------------
At(x, at) == run[x].at = at
Becomes(x, r) == run' = [run EXCEPT ![x] = r]
Goto(x, at) == Becomes(x, [run[x] EXCEPT !.at = at])
Others(x) == {y \in Exec \ {x} : run[y].at \notin {"off", "over"}}
Files == {s \in Session : session[s] # None}

(* The agent ends a message: it is in its context, and on its way to disk.  *)
(* What is said when the story is lost is not followed.                     *)
Say(x, m, r) ==
  /\ Becomes(x, IF astray THEN [r EXCEPT !.mem = <<m>>]
                ELSE [r EXCEPT !.mem = Append(r.mem, m), !.unsaved = r.unsaved + 1])
  /\ story' = IF astray THEN story ELSE Append(story, m)

-----------------------------------------------------------------------------
(* The executor.                                                           *)

(* Without progress from scratch; with progress what there is is kept.  The *)
(* first open item may be the first of all.                                 *)
Start(x, anew, first) ==
  /\ At(x, "off")
  /\ anew => first
  /\ Becomes(x, [Off EXCEPT !.at = IF anew THEN "forget" ELSE "prepare", !.anew = first])
  /\ astray' = (astray \/ Others(x) # {})
  /\ story' = IF astray' THEN <<>> ELSE story
  /\ UNCHANGED session

(* EmployeeSessionStore.remove: every session of the task                   *)
Forget(x) ==
  /\ At(x, "forget") /\ session' = [s \in Session |-> None]
  /\ story' = <<>> /\ astray' = (Others(x) # {})
  /\ Goto(x, "prepare")

(* mkdir, prepareWorkspace, the tools: each may reject the execution.       *)
Prepare(x) ==
  /\ At(x, "prepare") /\ (Goto(x, "open") \/ Becomes(x, Over))
  /\ UNCHANGED <<session, story, astray>>

-----------------------------------------------------------------------------
(* EmployeeRuntime.run and resumeWith.                                     *)

(* EmployeeSessionStore.open: one of those listed, or a new one             *)
Open(x) ==
  /\ At(x, "open")
  /\ IF Files = {} THEN Goto(x, "create")
     ELSE \E s \in Files : Becomes(x, [run[x] EXCEPT !.sid = s, !.at = "load"])
  /\ UNCHANGED <<session, story, astray>>
Create(x) ==
  /\ At(x, "create")
  /\ \E s \in Session \ Files :
       /\ session' = [session EXCEPT ![s] = <<>>]
       /\ Becomes(x, [run[x] EXCEPT !.sid = s, !.at = "load"])
  /\ UNCHANGED <<story, astray>>

(* loadMessages for resumeWith only, the agent, its first prompt            *)
OnDisk(x) == IF session[run[x].sid] = None THEN <<>> ELSE session[run[x].sid]
Prompt(x) ==
  /\ At(x, "load")
  /\ LET loaded == IF run[x].anew THEN <<>> ELSE OnDisk(x) IN
       Say(x, "ask", [run[x] EXCEPT !.at = "model", !.mem = loaded, !.n = run[x].n + 1, !.turns = 0,
                      !.cost = 0, !.due = 0, !.from = IF run[x].anew THEN Len(story) ELSE 0])
  /\ UNCHANGED <<session, astray>>

(* A call of the gateway: the primary model, with a retry of its own, and   *)
(* when that throws the fallback.  An error inside the stream is no throw:  *)
(* the agent ends with an empty message that says so.                       *)
AnswerHeard(x, m) ==
  /\ At(x, "model") /\ m \in {"text", "calls"}
  /\ Say(x, m, [run[x] EXCEPT !.cost = IF m = "text" THEN @ + 1 ELSE @, !.due = @ + 1,
                              !.at = IF m = "calls" THEN "tool" ELSE "turn"])
  /\ UNCHANGED <<session, astray>>
Answer(x, m) ==
  /\ At(x, "model") /\ m \in {"text", "calls"}
  /\ Say(x, m, [run[x] EXCEPT !.cost = run[x].cost + 1, !.due = run[x].due + 1,
                              !.at = IF m = "calls" THEN "tool" ELSE "turn"])
  /\ UNCHANGED <<session, astray>>
Breaks(x) ==
  /\ At(x, "model") /\ Say(x, "failed", [run[x] EXCEPT !.at = "stop"])
  /\ UNCHANGED <<session, astray>>
Throws(x) ==
  /\ At(x, "model") /\ Goto(x, "rejected")
  /\ UNCHANGED <<session, story, astray>>

(* A tool that fails is a result like any other.                            *)
Tool(x) ==
  /\ At(x, "tool") /\ Say(x, "result", [run[x] EXCEPT !.at = "turn"])
  /\ UNCHANGED <<session, astray>>

Last(s) == s[Len(s)]
(* shouldStopAfterTurn; without calls the agent has finished                *)
EndTurn(x) ==
  /\ At(x, "turn")
  /\ LET n == run[x].turns + 1 IN
       Becomes(x, [run[x] EXCEPT !.turns = n,
                     !.at = IF n >= MaxTurns \/ Last(run[x].mem) = "text" THEN "stop" ELSE "model"])
  /\ UNCHANGED <<session, story, astray>>

(* wireSession: nobody waits for a write before the attempt ends.  pi's     *)
(* session appends the messages in their order.                             *)
Save(x) ==
  /\ run[x].unsaved > 0
  /\ LET r == run[x] IN
       session' = IF astray \/ session[r.sid] = None THEN session
                  ELSE [session EXCEPT ![r.sid] = Append(session[r.sid], r.mem[Len(r.mem) - r.unsaved + 1])]
  /\ Becomes(x, [run[x] EXCEPT !.unsaved = run[x].unsaved - 1])
  /\ UNCHANGED <<story, astray>>

(* A write that fails is a rejection nobody handles while the agent runs,   *)
(* which ends the process; when the attempt waits for its writes, it        *)
(* rejects the attempt.  The others arrive or not: the file has a hole.     *)
Dies == run' = [y \in Exec |-> IF At(y, "off") \/ At(y, "over") THEN run[y] ELSE Over]
SaveFails(x) ==
  /\ run[x].unsaved > 0 /\ astray' = TRUE
  /\ IF run[x].at \in {"stop", "rejected"}
     THEN Becomes(x, [run[x] EXCEPT !.at = "rejected", !.unsaved = 0])
     ELSE Dies
  /\ story' = <<>> /\ UNCHANGED session

-----------------------------------------------------------------------------
(* collect: how the agent ended                                             *)
OutcomeByTurns(x) == IF run[x].turns >= MaxTurns THEN "max_turns" ELSE "done"
Outcome(x) ==
  IF Last(run[x].mem) = "failed" THEN "error"
  ELSE IF run[x].turns >= MaxTurns THEN "max_turns" ELSE "done"

(* The runtime stops listening when everything is on disk; its account goes *)
(* into the one of the plan.  That of a rejected attempt does not: what it  *)
(* paid is lost.  Another attempt, of this item or the next, finds the      *)
(* session; so does none.                                                   *)
Charged(x) == [run[x] EXCEPT !.lost = run[x].lost + run[x].due - run[x].cost]
After(x, r) ==
  \/ Becomes(x, IF r.result # "done" THEN [Over EXCEPT !.lost = r.lost, !.thrown = r.thrown]
     ELSE [Over EXCEPT !.result = "done", !.mem = <<Last(r.mem)>>, !.turns = r.turns, !.lost = r.lost,
                       !.thrown = r.thrown])
  \/ r.n < MaxAttempts /\ Becomes(x, [r EXCEPT !.at = "open", !.anew = FALSE])
StopUnsaved(x) ==
  /\ At(x, "stop")
  /\ After(x, [Charged(x) EXCEPT !.result = Outcome(x), !.unsaved = 0])
  /\ UNCHANGED <<session, story, astray>>
Stop(x) ==
  /\ At(x, "stop") /\ run[x].unsaved = 0
  /\ After(x, [Charged(x) EXCEPT !.result = Outcome(x)])
  /\ UNCHANGED <<session, story, astray>>
Reject(x) ==
  /\ At(x, "rejected") /\ run[x].unsaved = 0
  /\ After(x, [run[x] EXCEPT !.result = "rejected", !.lost = run[x].lost + run[x].due,
                             !.thrown = run[x].thrown + run[x].due])
  /\ UNCHANGED <<session, story, astray>>

(* What was not on disk is forgotten.  Only one execution has any, unless   *)
(* two met.                                                                 *)
Unsaved == Max({0} \union {run[x].unsaved : x \in Exec})
Crash ==
  /\ Dies
  /\ story' = IF astray THEN story ELSE SubSeq(story, 1, Len(story) - Unsaved)
  /\ UNCHANGED <<session, astray>>

Next ==
  \/ \E x \in Exec :
       \/ \E anew, first \in BOOLEAN : Start(x, anew, first)
       \/ Forget(x) \/ Prepare(x) \/ Open(x) \/ Create(x) \/ Prompt(x)
       \/ \E m \in {"text", "calls"} : Answer(x, m)
       \/ Breaks(x) \/ Throws(x) \/ Tool(x) \/ EndTurn(x)
       \/ Save(x) \/ SaveFails(x) \/ Stop(x) \/ Reject(x)
  \/ Crash

Spec == Init /\ [][Next]_vars

-----------------------------------------------------------------------------
Prompted(x) == run[x].at \in {"model", "tool", "turn", "stop"}

(* Unless two executions of the task were under way or a message could not  *)
(* be written, the agent that reads the session back knows exactly what was *)
(* said since the task last began anew, in order, whatever was interrupted  *)
(* in between, and there is no other session it could have read.            *)
ContextIsTheStory ==
  ~astray => \A x \in Exec : Prompted(x) =>
    /\ run[x].mem = SubSeq(story, run[x].from + 1, Len(story))
    /\ Cardinality(Files) = 1

(* An attempt that counts as done ended with an answer of the model, within *)
(* its turns; and of an execution every answer that was paid for is in the  *)
(* account, the ones that only call tools included, but for those of the    *)
(* attempts that were rejected.                                             *)
OutcomeIsHonest ==
  \A x \in Exec :
    /\ run[x].result = "done" /\ At(x, "over") =>
         Last(run[x].mem) = "text" /\ run[x].turns < MaxTurns
    /\ run[x].lost = run[x].thrown

-----------------------------------------------------------------------------
(* What makes them inductive.                                               *)

Message == {"ask", "text", "calls", "failed", "result"}
AgentAssumption == None \notin Seq(Message) /\ None # "done" /\ {MaxTurns, MaxAttempts} \subseteq Nat

Execution ==
  [at : {"off", "forget", "prepare", "open", "create", "load", "model", "tool", "turn", "stop", "rejected", "over"},
   anew : BOOLEAN, n : Nat, sid : Session \union {None}, mem : Seq(Message), lost : Nat, thrown : Nat,
   unsaved : Nat, turns : Nat, cost : Nat, due : Nat, from : Nat,
   result : {"done", "max_turns", "error", "rejected", None}]
TypeOK ==
  /\ session \in [Session -> Seq(Message) \union {None}]
  /\ run \in [Exec -> Execution] /\ story \in Seq(Message) /\ astray \in BOOLEAN

(* What an execution holds by itself: the calls are counted in full, it has *)
(* messages to save only between a prompt and the end of the attempt, and   *)
(* it stops for a reason.                                                   *)
Silent == {"off", "forget", "prepare", "open", "create", "load", "over"}
Honest(r) ==
  /\ r.lost = r.thrown /\ r.cost = r.due
  /\ r.at \in Silent => r.unsaved = 0
  /\ r.at = "load" => r.sid \in Session
  /\ r.at = "stop" => Last(r.mem) \in {"text", "failed"} \/ r.turns >= MaxTurns
  /\ r.at = "over" /\ r.result = "done" => Last(r.mem) = "text" /\ r.turns < MaxTurns

(* And with the file, unless it is lost: its context is the end of the story.  *)
Follows(r) ==
  /\ r.at = "create" => Files = {}
  /\ r.at \notin Silent \/ r.at = "load" => r.sid \in Files
  /\ r.at \notin Silent => /\ r.from <= Len(story) /\ r.unsaved <= Len(r.mem)
                           /\ r.mem = SubSeq(story, r.from + 1, Len(story))

(* The file is the story, but for what is on its way.                       *)
Alone ==
  /\ \A x, y \in Exec : run[x].at \notin {"off", "over"} /\ run[y].at \notin {"off", "over"} => x = y
  /\ \A s, t \in Files : s = t
  /\ Files = {} => story = <<>>
  /\ \A s \in Files : /\ Unsaved <= Len(story)
                      /\ session[s] = SubSeq(story, 1, Len(story) - Unsaved)

AgentInv ==
  /\ TypeOK /\ \A x \in Exec : Honest(run[x])
  /\ ~astray => Alone /\ \A x \in Exec : Follows(run[x])
=============================================================================
