------------------------------- MODULE Intake -------------------------------
(***************************************************************************)
(* How a task comes in: the dialog of the console (a form, a yaml, or a    *)
(* description a model turns into yaml), the parsing of the package, the   *)
(* route that stores it as a draft, and the publication, which first asks  *)
(* the forge for the repository and may create it.                         *)
(*                                                                         *)
(* A package is a record of what its treatment tells apart; Broken is any  *)
(* text parseTaskPackage refuses, NoText no text.  What the form makes of   *)
(* the values is the package's shape: "plain" strings, "loose" ones with    *)
(* blanks around them or in place of an item's id or title, and "nested"    *)
(* ones, lists, maps and the like where the form has a line of text.  Both  *)
(* are "worn" after a passage through it: trimmed, the item gone, the list  *)
(* a line.                                                                  *)
(***************************************************************************)
EXTENDS Naturals, FiniteSets

CONSTANTS
  Package,     \* packages a user or the model may write
  Task, Url, Kind,
  Dialog,      \* browsers with the dialog: one or none
  Job,         \* bound: publications under way
  AutoCreate,  \* forge.autoCreateRepo
  MaxOpenings, \* bound: openings that still load their lists
  MaxAnswers,  \* bound: answers of getTask on their way
  Broken, NoText, None

VARIABLES
  pool,        \* the stored packages and their status
  kinds,       \* capabilities that are registered and enabled
  repo,        \* what the forge answers for an address
  dialog,      \* the dialog
  asked,       \* getTask answers on their way to the dialog
  gen,         \* the generation under way
  submit,      \* the submission under way
  job,         \* publications
  answered,    \* addresses that ever answered a probe (history)
  checks       \* a forge is configured, which brings the check

vars == <<pool, kinds, repo, dialog, asked, gen, submit, job, answered, checks>>

Text == Package \union {Broken, NoText}

IntakeAssumption ==
  /\ Package \subseteq [task : Task, url : Url, kind : Kind, body : {"plan", "tasks"}, extra : BOOLEAN,
                         shape : {"plain", "loose", "nested"}]
  /\ MaxOpenings \in Nat
  /\ None \notin Dialog \union Task

NoRow == [status |-> "none"]
Stored(t) == pool[t].status # "none"

(* Statuses: "busy" is claimed or running, "over" done or failed. *)
Status == {"draft", "pending", "busy", "over"}

-----------------------------------------------------------------------------
(* Packages.                                                               *)

Shape == {"plain", "loose", "nested", "worn"}

Stuff(bodies) == [task : Task, url : Url, kind : Kind, body : bodies, extra : BOOLEAN, shape : Shape]

(* What a yaml object may hold; a form without items has neither body.     *)
Objects == Stuff({"plan", "tasks", "none"})

(* parseTaskPackage: the required fields, a plan or tasks but not both,    *)
(* neither of them empty.  A value only has to be there: blanks do, and so *)
(* does a list.                                                            *)
Parses(x) == x \in Stuff({"plan", "tasks"})

(* Every item of a plan has an enabled kind; tasks are not looked at. *)
KindsKnown(p, ks) == p.body = "plan" => p.kind \in ks

(* pkgToYaml: the values of a parsed package as they are, in the fields    *)
(* that parsing keeps.                                                     *)
YamlOf(p) == p

(* What the form cannot hold: tasks, and the fields outside a plan. *)
LegacyFields(p) == p.extra
Legacy(p) == p.body = "tasks" \/ LegacyFields(p)

Worn(s) == IF s = "plain" THEN "plain" ELSE "worn"

(* yamlToPlanForm: every value is made a string, what has no field is left *)
(* out.                                                                    *)
FormOf(x) ==
  IF x \in Objects
  THEN [x EXCEPT !.extra = FALSE, !.body = IF @ = "plan" THEN "plan" ELSE "none",
                 !.shape = IF @ = "nested" THEN "worn" ELSE @]
  ELSE NoText

(* planFormToYaml: the values are trimmed, and items whose id or title is  *)
(* blank left out.  What an empty form gives is refused.                   *)
FormYaml(f) == IF f \in Objects THEN [f EXCEPT !.shape = Worn(@)] ELSE Broken

-----------------------------------------------------------------------------
(* The dialog.                                                             *)

(* `read` is what was read for editing, until something is typed or a loss *)
(* is confirmed.                                                           *)
Closed ==
  [tab |-> "closed", edits |-> None, text |-> NoText, form |-> NoText, read |-> NoText,
   asks |-> NoText, loading |-> 0]

(* A closed dialog goes on loading its lists.  One view forgets the task   *)
(* that was edited, the other is about one task; it matters to who loads.  *)
Shut(d, forgets) ==
  [Closed EXCEPT !.loading = dialog[d].loading,
                 !.edits = IF forgets \/ dialog[d].loading = 0 THEN None ELSE dialog[d].edits]

(* The box that asks for a confirmation covers the dialog. *)
Usable(d) == dialog[d].tab # "closed" /\ dialog[d].asks = NoText

OtherThanDialog == <<pool, kinds, repo, gen, submit, job, answered, checks>>

(* Opened, everything is reset and the lists are asked for. *)
Open(d, t) ==
  /\ dialog[d].tab = "closed" /\ dialog[d].loading < MaxOpenings
  /\ \/ t = None
     \/ t \in Task /\ Stored(t)
  /\ dialog' = [dialog EXCEPT ![d] =
       [Closed EXCEPT !.tab = IF t = None THEN "ai" ELSE "yaml", !.edits = t, !.loading = dialog[d].loading + 1]]
  /\ UNCHANGED asked
  /\ UNCHANGED OtherThanDialog

(* The lists of one opening are there: the task that the dialog edits by   *)
(* now is asked for.  The last of them needs to know it no longer.         *)
Ask(d) ==
  /\ dialog[d].loading > 0 /\ Cardinality(asked) < MaxAnswers
  /\ dialog' = [dialog EXCEPT ![d].loading = @ - 1, ![d].edits = IF dialog[d].loading = 1 THEN None ELSE @]
  /\ asked' = LET t == dialog[d].edits
              IN  IF t # None /\ Stored(t) THEN asked \union {pool[t].doc} ELSE asked
  /\ UNCHANGED OtherThanDialog

(* The answer fills the text, whatever the dialog shows by then. *)
Arrive(d, x) ==
  /\ x \in asked
  /\ dialog' = IF dialog[d].tab = "closed" THEN dialog
               ELSE [dialog EXCEPT ![d].text = YamlOf(x), 
                                   ![d].read = IF dialog[d].tab = "form" THEN NoText ELSE x]
  /\ asked' = asked \ {x}
  /\ UNCHANGED OtherThanDialog

(* The user writes into the text or into the form. *)
Write(d, x) ==
  /\ Usable(d)
  /\ \/ dialog[d].tab = "yaml" /\ dialog' = [dialog EXCEPT ![d].text = x, ![d].read = NoText]
     \/ /\ dialog[d].tab = "form" /\ x \in Package
        /\ dialog' = [dialog EXCEPT ![d].form = FormOf(x), ![d].read = NoText]
  /\ UNCHANGED asked
  /\ UNCHANGED OtherThanDialog

(* A tab is clicked, or the form is shown as yaml. *)
Tab(d, to) ==
  /\ Usable(d) /\ dialog[d].tab # to
  /\ \/ dialog' = [dialog EXCEPT ![d].tab = to, ![d].read = IF to = "form" THEN NoText ELSE @]
     \/ /\ dialog[d].tab = "form" /\ to = "yaml"
        /\ dialog' = [dialog EXCEPT ![d].tab = to, ![d].text = FormYaml(dialog[d].form)]
  /\ UNCHANGED asked
  /\ UNCHANGED OtherThanDialog

(* The text is taken into the form.  Fields the form cannot hold are named *)
(* first: what will be taken is the text of this moment.                   *)
FillFromYaml(d) ==
  /\ Usable(d) /\ dialog[d].tab = "yaml"
  /\ LET x == dialog[d].text
     IN  dialog' = IF x \in Objects /\ Legacy(x)
                   THEN [dialog EXCEPT ![d].asks = FormOf(x)]
                   ELSE [dialog EXCEPT ![d].tab = "form", ![d].form = FormOf(x)]
  /\ UNCHANGED asked
  /\ UNCHANGED OtherThanDialog

(* The user confirms their loss, or stays with the text. *)
Confirm(d, yes) ==
  /\ dialog[d].asks # NoText
  /\ dialog' =
       IF yes
       THEN [dialog EXCEPT ![d].tab = "form", ![d].form = dialog[d].asks, ![d].read = NoText, ![d].asks = NoText]
       ELSE [dialog EXCEPT ![d].asks = NoText]
  /\ UNCHANGED asked
  /\ UNCHANGED OtherThanDialog

Close(d) ==
  /\ Usable(d)
  /\ \E forgets \in BOOLEAN : dialog' = [dialog EXCEPT ![d] = Shut(d, forgets)]
  /\ UNCHANGED asked
  /\ UNCHANGED OtherThanDialog

-----------------------------------------------------------------------------
(* POST /api/tasks/parse.                                                  *)

Idle == [pc |-> "idle"]

GenOnly == <<pool, kinds, repo, asked, submit, job, answered, checks>>

(* The enabled kinds are read before the model is asked. *)
Generate(d) ==
  /\ Usable(d) /\ dialog[d].tab = "ai" /\ gen.pc = "idle"
  /\ gen' = [pc |-> "asked", kinds |-> kinds, fixed |-> FALSE, text |-> NoText]
  /\ UNCHANGED dialog /\ UNCHANGED GenOnly

(* A reply is kept when it parses; the first one that does not goes back   *)
(* to the model with the error, the second one is refused.                 *)
Acceptable(x) == Parses(x)

ModelReplies(x) ==
  /\ gen.pc = "asked"
  /\ gen' = CASE Acceptable(x) -> [gen EXCEPT !.pc = "parsed", !.text = x]
              [] ~Acceptable(x) /\ ~gen.fixed -> [gen EXCEPT !.fixed = TRUE]
              [] OTHER -> Idle
  /\ UNCHANGED dialog /\ UNCHANGED GenOnly

(* Its kinds are looked up, and it goes into whatever dialog is open. *)
Offer(d) ==
  /\ gen.pc = "parsed"
  /\ gen' = Idle
  /\ dialog' = IF dialog[d].tab = "closed" \/ ~KindsKnown(gen.text, gen.kinds) THEN dialog
               ELSE [dialog EXCEPT ![d].text = gen.text, ![d].tab = "yaml", ![d].read = NoText]
  /\ UNCHANGED GenOnly

(* The gateway fails, both models included. *)
ModelFails ==
  /\ gen.pc = "asked"
  /\ gen' = Idle
  /\ UNCHANGED dialog /\ UNCHANGED GenOnly

-----------------------------------------------------------------------------
(* POST /api/tasks.                                                        *)

SubmitOnly == <<kinds, repo, asked, gen, answered, checks>>

(* The package is parsed, its kinds are checked and the old row is read:   *)
(* a busy task is refused, an ended one runs again without publication.    *)
Receive(x, d) ==
  /\ submit.pc = "idle"
  /\ Parses(x) /\ KindsKnown(x, kinds)
  /\ pool[x.task].status # "busy"
  /\ submit' = [pc |-> "store", doc |-> x, rerun |-> pool[x.task].status = "over", by |-> d]
  /\ UNCHANGED <<pool, job>>

Sent(d) == IF dialog[d].tab = "form" THEN FormYaml(dialog[d].form) ELSE dialog[d].text

(* Submitted from the dialog, the text or the form as yaml. *)
Submit(d) ==
  /\ Usable(d) /\ dialog[d].tab \in {"form", "yaml"}
  /\ Receive(Sent(d), d)
  /\ UNCHANGED dialog /\ UNCHANGED SubmitOnly

(* Posted by a script. *)
Post(x) ==
  /\ Receive(x, None)
  /\ UNCHANGED dialog /\ UNCHANGED SubmitOnly

(* A publication of the task that is under way has read an older row. *)
Store ==
  /\ submit.pc = "store"
  /\ pool' = [pool EXCEPT ![submit.doc.task] =
       [status |-> IF submit.rerun THEN "pending" ELSE "draft", doc |-> submit.doc,
        how |-> IF submit.rerun THEN "rerun" ELSE "posted"]]
  /\ job' = [j \in Job |-> IF job[j].pc # "idle" /\ job[j].task = submit.doc.task
                           THEN [job[j] EXCEPT !.stale = TRUE] ELSE job[j]]
  /\ submit' = Idle
  /\ \E forgets \in BOOLEAN :
       dialog' = [d \in Dialog |-> IF d = submit.by THEN Shut(d, forgets) ELSE dialog[d]]
  /\ UNCHANGED SubmitOnly

-----------------------------------------------------------------------------
(* POST /api/tasks/:id/publish.                                            *)

PublishOnly == <<kinds, dialog, asked, gen, submit, checks>>

(* The row is read; its address is the one that will be checked, if there  *)
(* is a forge.                                                             *)
Publish(j, t) ==
  /\ job[j].pc = "idle"
  /\ Stored(t)
  /\ job' = [job EXCEPT ![j] = 
       [pc |-> IF checks THEN "probe" ELSE "write", task |-> t, url |-> pool[t].doc.url, stale |-> FALSE]]
  /\ UNCHANGED <<pool, repo, answered>> /\ UNCHANGED PublishOnly

(* git ls-remote.  "missing" is also a repository the token may not see:   *)
(* it answers "not found" too, and then cannot be created.                 *)
NotFound(u) == repo[u] = "missing"

Found(u) == repo[u] = "there"

Probe(j) ==
  /\ job[j].pc \in {"probe", "reprobe"}
  /\ LET u == job[j].url
     IN  /\ job' = [job EXCEPT ![j] =
              CASE Found(u)                                              -> [@ EXCEPT !.pc = "write"]
                [] ~Found(u) /\ NotFound(u) /\ AutoCreate /\ @.pc = "probe" -> [@ EXCEPT !.pc = "create"]
                [] OTHER                                                 -> Idle]
         /\ answered' = IF repo[u] = "there" THEN answered \union {u} ELSE answered
  /\ UNCHANGED <<pool, repo>> /\ UNCHANGED PublishOnly

(* The forge creates an empty repository under an organisation or under    *)
(* the token's owner, or says why not: it exists, or the owner is another. *)
Create(j) ==
  /\ job[j].pc = "create"
  /\ \/ /\ repo[job[j].url] = "missing"
        /\ repo' = [repo EXCEPT ![job[j].url] = "there"]
        /\ job' = [job EXCEPT ![j].pc = "reprobe"]
     \/ /\ job' = [job EXCEPT ![j] = Idle]
        /\ UNCHANGED repo
  /\ UNCHANGED <<pool, answered>> /\ UNCHANGED PublishOnly

(* Only a draft is published: the statement's own condition.  It does not  *)
(* say which draft.                                                        *)
PublishRow(j) ==
  /\ job[j].pc = "write"
  /\ pool' = IF pool[job[j].task].status = "draft"
             THEN [pool EXCEPT ![job[j].task].status = "pending", ![job[j].task].how = IF job[j].stale THEN "raced" ELSE "published"]
             ELSE pool
  /\ job' = [job EXCEPT ![j] = Idle]
  /\ UNCHANGED <<repo, answered>> /\ UNCHANGED PublishOnly

-----------------------------------------------------------------------------
(* What happens elsewhere.                                                 *)

(* Tasks are claimed, end, and are reset or resumed; capabilities and the  *)
(* forge change.                                                           *)
Elsewhere ==
  /\ \/ /\ \E t \in Task :
             \/ pool[t].status = "pending" /\ pool' = [pool EXCEPT ![t].status = "busy"]
             \/ pool[t].status = "busy" /\ pool' = [pool EXCEPT ![t].status = "over"]
             \/ pool[t].status \in {"busy", "over"} /\ pool' = [pool EXCEPT ![t].status = "pending"]
        /\ UNCHANGED <<kinds, repo>>
     \/ /\ \E k \in Kind : kinds' = IF k \in kinds THEN kinds \ {k} ELSE kinds \union {k}
        /\ UNCHANGED <<pool, repo>>
     \/ /\ \E u \in Url, s \in {"there", "missing", "down"} :
             repo[u] # s /\ Job # {} /\ repo' = [repo EXCEPT ![u] = s]
        /\ UNCHANGED <<pool, kinds>>
  /\ UNCHANGED <<dialog, asked, gen, submit, job, answered, checks>>

Init ==
  /\ pool = [t \in Task |-> NoRow]
  /\ kinds = Kind
  /\ repo = [u \in Url |-> "missing"]
  /\ dialog = [d \in Dialog |-> Closed]
  /\ asked = {}
  /\ gen = Idle /\ submit = Idle
  /\ job = [j \in Job |-> Idle]
  /\ answered = {}
  /\ checks \in BOOLEAN /\ (Job = {} => checks)

Next ==
  \/ \E d \in Dialog :
       \/ \E t \in Task \union {None} : Open(d, t)
       \/ Ask(d)
       \/ \E x \in asked : Arrive(d, x)
       \/ \E x \in Package \union {Broken} : Write(d, x)
       \/ \E to \in {"ai", "form", "yaml"} : Tab(d, to)
       \/ FillFromYaml(d) \/ (\E yes \in BOOLEAN : Confirm(d, yes)) \/ Close(d) \/ Generate(d) \/ Offer(d) \/ Submit(d)
  \/ \E x \in Package \union {Broken} : ModelReplies(x)
  \/ ModelFails
  \/ \E x \in Package : Dialog = {} /\ Post(x)
  \/ Store
  \/ \E j \in Job : (\E t \in Task : Publish(j, t)) \/ Probe(j) \/ Create(j) \/ PublishRow(j)
  \/ Elsewhere

Spec == Init /\ [][Next]_vars

-----------------------------------------------------------------------------
(* "Edit backfill without loss", and of fields the form cannot hold "the   *)
(* user confirms first": what would be sent of a text that was read, taken *)
(* through form and yaml as often as one likes, with nothing typed and no  *)
(* loss confirmed, is the package that was read, also when answers come    *)
(* late or for another task.  All the form takes without asking is what    *)
(* its lines of text cannot show: blanks, items without an id or a title,  *)
(* and the structure of a value that is no string.                         *)
LossIsConfirmed ==
  \A d \in Dialog :
    (dialog[d].tab \in {"form", "yaml"} /\ dialog[d].read # NoText) =>
      Sent(d) \in {dialog[d].read, [dialog[d].read EXCEPT !.shape = Worn(@)]}

(* What the generation is about to offer is a package, and so is what it   *)
(* offers after the one repair: the user never gets a text that the store  *)
(* would refuse for its shape.                                             *)
GeneratedParses == gen.pc = "parsed" => Parses(gen.text)

(* "A task whose repository cannot be reached does not enter the schedule" *)
(* (handlers.ts): the address of a task that may be scheduled, is running  *)
(* or has run answered a probe, over any order of submissions and of       *)
(* publications of the same task.  Two ways around it are the code's: a    *)
(* task that had ended is submitted again, and a draft is replaced while a *)
(* publication checks the old one.  Without a forge nothing is checked.    *)
ScheduledIsChecked ==
  \A t \in Task :
    checks /\ pool[t].status \in {"pending", "busy", "over"} /\ pool[t].how \notin {"rerun", "raced"} =>
      pool[t].doc.url \in answered

IntakeIsSound == LossIsConfirmed /\ GeneratedParses /\ ScheduledIsChecked

-----------------------------------------------------------------------------
(* What makes them inductive.                                               *)

Docs == Stuff({"plan", "tasks"})
Shown == Objects \union {Broken, NoText}

Row == [status : Status, doc : Docs, how : {"posted", "published", "raced", "rerun"}]
Face ==
  [tab : {"closed", "ai", "form", "yaml"}, edits : Task \union {None}, text : Shown, form : Shown, read : Shown,
   asks : Shown, loading : Nat]
Publication == [pc : {"probe", "create", "reprobe", "write"}, task : Task, url : Url, stale : BOOLEAN]

TypeOK ==
  /\ pool \in [Task -> {NoRow} \union Row]
  /\ kinds \subseteq Kind
  /\ dialog \in [Dialog -> Face]
  /\ asked \subseteq Docs
  /\ gen \in {Idle} \union [pc : {"asked", "parsed"}, kinds : SUBSET Kind, fixed : BOOLEAN, text : Shown]
  /\ submit \in {Idle} \union [pc : {"store"}, doc : Docs, rerun : BOOLEAN, by : Dialog \union {None}]
  /\ job \in [Job -> {Idle} \union Publication]
  /\ checks \in BOOLEAN

(* A text or a form that is x but for what the form takes without asking. *)
Same(y, x) == x \in Docs /\ y \in Docs /\ \E s \in {x.shape, Worn(x.shape)} : y = [x EXCEPT !.shape = s]

(* The text is what was read, and so is the form while it shows. *)
TextIsRead ==
  \A d \in Dialog : dialog[d].tab # "closed" /\ dialog[d].read # NoText =>
    /\ Same(dialog[d].text, dialog[d].read)
    /\ dialog[d].tab = "form" => Same(dialog[d].form, dialog[d].read)

(* A publication whose row was not replaced knows its address; one that is *)
(* about to write has an answer from the forge.                            *)
JobKnowsRow ==
  \A j \in Job : job[j].pc # "idle" =>
    /\ Stored(job[j].task)
    /\ ~job[j].stale => pool[job[j].task].doc.url = job[j].url
    /\ checks /\ job[j].pc = "write" => job[j].url \in answered

IntakeInv == TypeOK /\ TextIsRead /\ GeneratedParses /\ JobKnowsRow /\ ScheduledIsChecked

=============================================================================
