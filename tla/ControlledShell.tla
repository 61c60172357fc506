-------------------------- MODULE ControlledShell --------------------------
(***************************************************************************)
(* run_cmd: what an agent may execute.  ControlledBash refuses what the    *)
(* black list or the shell's metacharacters forbid, runs what the white    *)
(* list or the level of supervision allows, and asks a human for the rest. *)
(*                                                                         *)
(* The human answers an item of the review queue, and decides by what the  *)
(* event log shows of that item.  Calls of one agent may overlap; so may   *)
(* those of an execution the scheduler gave up and of the one after it,    *)
(* whose items are numbered anew.                                          *)
(***************************************************************************)
EXTENDS Naturals, FiniteSets

CONSTANTS
  Call,        \* bound: calls under way
  Program,     \* names of programs
  Command,     \* command lines: the program the tokenizer finds (head), the last
               \* part of the first word (name; another one if that is quoted), and
               \* what the checks make of the line
  Whitelist,   \* the ones of the white list
  Generations, \* bound: executions of the task
  MaxItems,    \* bound: items of one execution
  None

VARIABLES
  level,       \* supervision of the employee: "trusted", or one of the others
  gen,         \* the running execution
  seq,         \* execution -> items it asked for
  remembered,  \* execution -> names released before
  call,
  pending,     \* item -> call whose resolver is registered, or None
  shown,       \* item -> command of its last declaration, or None
  released,    \* history: names of the commands a human released
  misled,      \* history: names released for another one, where two executions
               \* use the same item
  ran          \* history: the last command that ran

vars == <<level, gen, seq, remembered, call, pending, shown, released, misled, ran>>

ShellAssumption ==
  /\ Generations \in Nat \ {0} /\ MaxItems \in Nat
  /\ Command \subseteq [head : Program, name : Program, is : {"plain", "forbidden", "compound", "unclosed"}]
  /\ None \notin Call \union Command

Gen == 1..Generations
Item == 1..MaxItems
Idle == [at |-> "idle", g |-> 1, cmd |-> None, item |-> 1, verdict |-> "none"]

Init ==
  /\ level \in {"trusted", "other"}
  /\ gen = 1 /\ seq = [g \in Gen |-> 0] /\ remembered = [g \in Gen |-> {}]
  /\ call = [c \in Call |-> Idle]
  /\ pending = [i \in Item |-> None] /\ shown = [i \in Item |-> None]
  /\ released = {} /\ misled = {} /\ ran = None

-----------------------------------------------------------------------------
\* bashPolicyFor
Bypasses == level = "trusted"

\* items of two executions
Shared(i) == Cardinality({g \in Gen : seq[g] >= i}) > 1
Resolve(calls, c, v) == [calls EXCEPT ![c].verdict = v]

(* exec: black list, metacharacters, tokens, white list - then the approval *)
(* of makeBashApproval.  The call that registers a taken item wakes the one *)
(* before it with a rejection.  The white list goes by the head, the memory *)
(* of the approval by the name.                                             *)
Allowed(g, cmd) == Bypasses \/ cmd.head \in Whitelist \/ cmd.name \in remembered[g]
Refuse(c, cmd) ==
  /\ call[c].at = "idle" /\ cmd.is # "plain"
  /\ UNCHANGED vars
RunFree(c, g, cmd) ==
  /\ call[c].at = "idle" /\ cmd.is = "plain" /\ g <= gen /\ Allowed(g, cmd)
  /\ call' = [call EXCEPT ![c] = [Idle EXCEPT !.at = "runs", !.g = g, !.cmd = cmd]]
  /\ ran' = cmd
  /\ UNCHANGED <<level, gen, seq, remembered, pending, shown, released, misled>>

Register(c, g, cmd, i) ==
  /\ call' = [d \in Call |->
       IF d = c THEN [Idle EXCEPT !.at = "asks", !.g = g, !.cmd = cmd, !.item = i]
       ELSE IF d = pending[i] THEN [call[d] EXCEPT !.verdict = "rejected"] ELSE call[d]]
  /\ pending' = [pending EXCEPT ![i] = c]
  /\ UNCHANGED <<level, gen, remembered, shown, released, misled, ran>>
AskOne(c, g, cmd) ==
  /\ call[c].at = "idle" /\ cmd.is = "plain" /\ g <= gen /\ ~Allowed(g, cmd)
  /\ seq' = [seq EXCEPT ![g] = 1]
  /\ Register(c, g, cmd, 1)
Ask(c, g, cmd) ==
  /\ call[c].at = "idle" /\ cmd.is = "plain" /\ g <= gen /\ ~Allowed(g, cmd)
  /\ seq[g] < MaxItems /\ seq' = [seq EXCEPT ![g] = @ + 1]
  /\ Register(c, g, cmd, seq[g] + 1)

(* the event task_check with awaiting, after the registration               *)
Declare(c) ==
  /\ call[c].at = "asks"
  /\ shown' = [shown EXCEPT ![call[c].item] = call[c].cmd]
  /\ call' = [call EXCEPT ![c].at = "waits"]
  /\ UNCHANGED <<level, gen, seq, remembered, pending, released, misled, ran>>

(* A human decides on what is shown; who waits under the item is resolved.  *)
Review(i, v) ==
  /\ shown[i] # None /\ pending[i] # None
  /\ call' = Resolve(call, pending[i], v)
  /\ pending' = [pending EXCEPT ![i] = None]
  /\ LET n == call[pending[i]].cmd.name  ok == v = "approved" IN
       /\ released' = IF ok THEN released \union {shown[i].name} ELSE released
       /\ misled' = IF ok /\ Shared(i) /\ n # shown[i].name THEN misled \union {n} ELSE misled
  /\ UNCHANGED <<level, gen, seq, remembered, shown, ran>>

(* The verdict and its event; only a release is remembered.                 *)
Decided(c, keep) ==
  /\ call[c].at = "waits" /\ call[c].verdict # "none"
  /\ LET r == call[c]  ok == r.verdict = "approved" IN
       /\ remembered' = IF ok \/ keep THEN [remembered EXCEPT ![r.g] = @ \union {r.cmd.name}]
                        ELSE remembered
       /\ call' = [call EXCEPT ![c] = IF ok THEN [Idle EXCEPT !.at = "runs", !.g = r.g, !.cmd = r.cmd]
                                      ELSE Idle]
       /\ ran' = IF ok THEN r.cmd ELSE ran
  /\ UNCHANGED <<level, gen, seq, pending, shown, released, misled>>
DecideAndKeep(c) == Decided(c, TRUE)
Decide(c) == Decided(c, FALSE)

(* exit, signal, time limit, or no such program: an answer in any case      *)
Exit(c) ==
  /\ call[c].at = "runs" /\ call' = [call EXCEPT ![c] = Idle]
  /\ UNCHANGED <<level, gen, seq, remembered, pending, shown, released, misled, ran>>

(* The scheduler gives the task up and starts it again; the calls stay.     *)
NextExecution ==
  /\ gen < Generations /\ gen' = gen + 1
  /\ UNCHANGED <<level, seq, remembered, call, pending, shown, released, misled, ran>>

Next ==
  \/ \E c \in Call, cmd \in Command :
       Refuse(c, cmd) \/ \E g \in Gen : RunFree(c, g, cmd) \/ Ask(c, g, cmd)
  \/ \E c \in Call : Declare(c) \/ Decide(c) \/ Exit(c)
  \/ \E i \in Item, v \in {"approved", "rejected"} : Review(i, v)
  \/ NextExecution

Spec == Init /\ [][Next]_vars

-----------------------------------------------------------------------------
(* Whatever ran was neither forbidden nor compound, and if neither the      *)
(* white list nor the level covers it, a human released a command of this   *)
(* name because it was shown to him - unless two executions of the task     *)
(* used the item at a time, and he released one for the other.  The name is *)
(* that of the program only where the first word is not quoted: of two      *)
(* quoted ones the human may have seen another program than the one that    *)
(* runs.                                                                    *)
OnlyReleasedRuns ==
  ran # None =>
    /\ ran.is = "plain"
    /\ Bypasses \/ ran.head \in Whitelist \/ ran.name \in released \union misled

=============================================================================
