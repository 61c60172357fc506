---------------------------- MODULE SkillLibrary ----------------------------
(***************************************************************************)
(* The skill library: the routes for categories (posts of the team) and    *)
(* skills, SqlSkillStore behind them, the review that makes a skill        *)
(* effective, and the distiller that proposes skills when a task is done.  *)
(*                                                                         *)
(* A job is one request, or one distillation, between two of its awaits.   *)
(* A step is one statement; on sqlite the transactions queue, on mysql     *)
(* they overlap.                                                           *)
(***************************************************************************)
EXTENDS Naturals, FiniteSets

CONSTANTS
  Cat, Name,      \* ids and names of categories
  Skill, Text,    \* ids and contents of skills
  Job,            \* bound: requests and distillations under way
  MaxCandidates,  \* skills one distillation may add (2 in the code)
  None

VARIABLES
  driver,   \* "sqlite" or "mysql"
  cat,      \* ddw_skill_categories: row id -> [id, name] of the doc, or None
  skill,    \* ddw_skills: id -> [cat, doc: [cat, text, status]], or None
  job,
  verdict,  \* history: the last decision on a skill since it was created
  signed,   \* history: skills somebody approved at some time
  raced     \* history: categories and skills on which two jobs overlapped

vars == <<driver, cat, skill, job, verdict, signed, raced>>

Status == {"pending", "approved", "rejected"}
CatRow == [id : Cat, name : Name]
Doc == [cat : Cat, text : Text, status : Status]
SkillRow == [cat : Cat, doc : Doc]

LibraryAssumption == None \notin Cat \union Skill \union CatRow \union SkillRow

Idle == [op |-> "idle"]
Transactions == {"category", "uncategory", "review"}

Init ==
  /\ driver \in {"sqlite", "mysql"}
  /\ cat = [c \in Cat |-> None] /\ skill = [s \in Skill |-> None]
  /\ job = [j \in Job |-> Idle]
  /\ verdict = [s \in Skill |-> "never"] /\ signed = {} /\ raced = {}

-----------------------------------------------------------------------------
Begin(j, r) ==
  /\ job[j] = Idle
  /\ driver = "sqlite" /\ r.op \in Transactions =>
       \A k \in Job : job[k].op \notin Transactions
  /\ job' = [job EXCEPT ![j] = r]
End(j) == job' = [job EXCEPT ![j] = Idle]
At(j, op, at) == job[j].op = op /\ job[j].at = at
Goto(j, at) == job' = [job EXCEPT ![j].at = at]

\* listCategories: the ids of the docs
Known == {cat[c].id : c \in {d \in Cat : cat[d] # None}}
Named(n) == {c \in Cat : cat[c] # None /\ cat[c].name = n}
Mounted(c) == {s \in Skill : skill[s] # None /\ skill[s].cat = c}

\* the skill a job is about, the categories it may put one into
About(j) == IF job[j].op \in {"post", "put", "review", "distill"} THEN job[j].s ELSE None
Wants(j) ==
  IF job[j].op = "distill" THEN job[j].cats
  ELSE IF job[j].op \in {"post", "put"} THEN {job[j].c} ELSE {}

Fresh(s) == verdict[s] = "never" /\ \A j \in Job : About(j) # s

\* a row of its own, as upsertSkill writes it
Row(c, t, status) == [cat |-> c, doc |-> [cat |-> c, text |-> t, status |-> status]]

\* history: j writes skill s into c, or without c, while others are at them
MeetsIn(j, s, c) ==
  raced' = raced \union (IF \E k \in Job \ {j} : About(k) = s THEN {s} ELSE {})
                 \union {d \in {c} : \E k \in Job \ {j} : job[k].op = "uncategory" /\ job[k].c = d}

-----------------------------------------------------------------------------
(* Categories.                                                             *)

(* upsertCategory: nobody else has the name                                 *)
PutCategory(j, c, n) ==
  /\ Named(n) \subseteq {c}
  /\ Begin(j, [op |-> "category", at |-> "write", c |-> c, n |-> n])
  /\ UNCHANGED <<driver, cat, skill, verdict, signed, raced>>

(* The upsert.  The name is a unique column: another row with this name is  *)
(* an error on sqlite; mysql takes it for the duplicate and overwrites it   *)
(* (ON DUPLICATE KEY), unless the id has a row as well.                     *)
WriteCategory(j) ==
  /\ At(j, "category", "write")
  /\ LET c == job[j].c  n == job[j].n  others == Named(n) \ {c}
         doc == [id |-> c, name |-> n]
     IN IF others = {}
          THEN cat' = [cat EXCEPT ![c] = doc] /\ UNCHANGED raced
        ELSE IF driver = "mysql" /\ cat[c] = None
          THEN /\ cat' = [d \in Cat |-> IF d \in others THEN doc ELSE cat[d]]
               /\ raced' = raced \union others \union {c}
        ELSE UNCHANGED <<cat, raced>>
  /\ End(j)
  /\ UNCHANGED <<driver, skill, verdict, signed>>

(* deleteCategory: it exists, and no skill is mounted                       *)
DeleteAnyCategory(j, c) ==
  /\ cat[c] # None
  /\ Begin(j, [op |-> "uncategory", at |-> "write", c |-> c])
  /\ UNCHANGED <<driver, cat, skill, verdict, signed, raced>>
DeleteCategory(j, c) ==
  /\ cat[c] # None /\ Mounted(c) = {}
  /\ Begin(j, [op |-> "uncategory", at |-> "write", c |-> c])
  /\ UNCHANGED <<driver, cat, skill, verdict, signed, raced>>

RemoveCategory(j) ==
  /\ At(j, "uncategory", "write")
  /\ LET c == job[j].c IN
       /\ cat' = [cat EXCEPT ![c] = None]
       /\ raced' = IF \E k \in Job \ {j} : c \in Wants(k)
                     THEN raced \union {c} ELSE raced
  /\ End(j)
  /\ UNCHANGED <<driver, skill, verdict, signed>>

-----------------------------------------------------------------------------
(* Skills.                                                                 *)

(* POST: the category is known; a given id must not be taken.  A new id is. *)
CreateSkill(j, s, c, t) ==
  /\ c \in Known
  /\ \E at \in {"exists"} \union (IF Fresh(s) THEN {"write"} ELSE {}) :
       Begin(j, [op |-> "post", at |-> at, s |-> s, c |-> c, t |-> t])
  /\ UNCHANGED <<driver, cat, skill, verdict, signed, raced>>

CheckId(j) ==
  /\ At(j, "post", "exists")
  /\ IF skill[job[j].s] = None THEN Goto(j, "write") ELSE End(j)
  /\ UNCHANGED <<driver, cat, skill, verdict, signed, raced>>

Insert(j, s, c, t) ==
  /\ skill' = [skill EXCEPT ![s] = Row(c, t, "pending")]
  /\ verdict' = [verdict EXCEPT ![s] = "pending"]
  /\ MeetsIn(j, s, c)
WriteSkill(j) ==
  /\ At(j, "post", "write")
  /\ Insert(j, job[j].s, job[j].c, job[j].t)
  /\ End(j)
  /\ UNCHANGED <<driver, cat, signed>>

(* PUT: the row is read, then the categories; what the body says is merged  *)
(* into what was read, whose status is kept.                                *)
EditSkill(j, s, c, t) ==
  /\ skill[s] # None
  /\ Begin(j, [op |-> "put", at |-> "list", s |-> s, c |-> c, t |-> t,
               status |-> skill[s].doc.status])
  /\ UNCHANGED <<driver, cat, skill, verdict, signed, raced>>

CheckCategory(j) ==
  /\ At(j, "put", "list")
  /\ IF job[j].c \in Known THEN Goto(j, "write") ELSE End(j)
  /\ UNCHANGED <<driver, cat, skill, verdict, signed, raced>>

WriteEditAnew(j) ==
  /\ At(j, "put", "write")
  /\ skill' = [skill EXCEPT ![job[j].s] = Row(job[j].c, job[j].t, "pending")]
  /\ MeetsIn(j, job[j].s, job[j].c) /\ End(j)
  /\ UNCHANGED <<driver, cat, verdict, signed>>
WriteEdit(j) ==
  /\ At(j, "put", "write")
  /\ skill' = [skill EXCEPT ![job[j].s] = Row(job[j].c, job[j].t, job[j].status)]
  /\ MeetsIn(j, job[j].s, job[j].c) /\ End(j)
  /\ UNCHANGED <<driver, cat, verdict, signed>>

(* DELETE; a request that read the skill before may write it again          *)
DeleteSkill(s) ==
  /\ skill[s] # None
  /\ skill' = [skill EXCEPT ![s] = None]
  /\ verdict' = [verdict EXCEPT ![s] = "gone"]
  /\ raced' = IF \E k \in Job : About(k) = s THEN raced \union {s} ELSE raced
  /\ UNCHANGED <<driver, cat, job, signed>>

(* reviewSkill: the doc is read and, with the decision, written; of the     *)
(* columns only the status.                                                 *)
ReviewSkill(j, s, decision) ==
  /\ skill[s] # None
  /\ Begin(j, [op |-> "review", at |-> "write", s |-> s,
               doc |-> [skill[s].doc EXCEPT !.status = decision]])
  /\ UNCHANGED <<driver, cat, skill, verdict, signed, raced>>

WriteReview(j) ==
  /\ At(j, "review", "write")
  /\ LET s == job[j].s  doc == job[j].doc IN
       IF skill[s] = None THEN UNCHANGED <<skill, verdict, signed, raced>>
       ELSE /\ skill' = [skill EXCEPT ![s].doc = doc]
            /\ verdict' = [verdict EXCEPT ![s] = doc.status]
            /\ signed' = IF doc.status = "approved" THEN signed \union {s} ELSE signed
            /\ MeetsIn(j, s, None)
  /\ End(j)
  /\ UNCHANGED <<driver, cat>>

-----------------------------------------------------------------------------
(* The distiller, started when a task is done.                             *)

(* the categories are listed, and the model is asked with them              *)
Distill(j) ==
  /\ Begin(j, [op |-> "distill", at |-> "asked", cats |-> Known, made |-> 0,
               s |-> None, c |-> None, t |-> None])
  /\ UNCHANGED <<driver, cat, skill, verdict, signed, raced>>

Duplicate(c, t) ==
  \E s \in Mounted(c) : skill[s].doc.status # "rejected" /\ skill[s].doc.text = t

(* The next candidate: of a category listed then, and neither name nor text *)
(* is there already.                                                        *)
Candidate(j, s, c, t) ==
  /\ At(j, "distill", "asked") /\ job[j].made < MaxCandidates
  /\ c \in job[j].cats /\ ~Duplicate(c, t) /\ Fresh(s)
  /\ job' = [job EXCEPT ![j] = [@ EXCEPT !.at = "write", !.s = s, !.c = c, !.t = t]]
  /\ UNCHANGED <<driver, cat, skill, verdict, signed, raced>>

KeepApproved(j) ==
  /\ At(j, "distill", "write")
  /\ skill' = [skill EXCEPT ![job[j].s] = Row(job[j].c, job[j].t, "approved")]
  /\ verdict' = [verdict EXCEPT ![job[j].s] = "pending"]
  /\ job' = [job EXCEPT ![j] = [@ EXCEPT !.at = "asked", !.made = job[j].made + 1,
                                         !.s = None, !.c = None, !.t = None]]
  /\ UNCHANGED <<driver, cat, signed, raced>>
Keep(j) ==
  /\ At(j, "distill", "write")
  /\ Insert(j, job[j].s, job[j].c, job[j].t)
  /\ job' = [job EXCEPT ![j] = [@ EXCEPT !.at = "asked", !.made = job[j].made + 1,
                                         !.s = None, !.c = None, !.t = None]]
  /\ UNCHANGED <<driver, cat, signed>>

(* no candidate is left, the model failed, or its answer cannot be read     *)
EndDistill(j) ==
  /\ At(j, "distill", "asked") /\ End(j)
  /\ UNCHANGED <<driver, cat, skill, verdict, signed, raced>>

-----------------------------------------------------------------------------
Next ==
  \/ \E j \in Job, c \in Cat :
       DeleteCategory(j, c) \/ \E n \in Name : PutCategory(j, c, n)
  \/ \E j \in Job, s \in Skill, c \in Cat, t \in Text :
       CreateSkill(j, s, c, t) \/ EditSkill(j, s, c, t) \/ Candidate(j, s, c, t)
  \/ \E j \in Job, s \in Skill, d \in {"approved", "rejected"} : ReviewSkill(j, s, d)
  \/ \E s \in Skill : DeleteSkill(s)
  \/ \E j \in Job :
       \/ WriteCategory(j) \/ RemoveCategory(j)
       \/ CheckId(j) \/ WriteSkill(j) \/ CheckCategory(j) \/ WriteEdit(j) \/ WriteReview(j)
       \/ Distill(j) \/ Keep(j) \/ EndDistill(j)

Spec == Init /\ [][Next]_vars

-----------------------------------------------------------------------------
(* What an execution is given: skillsForCategories.                        *)
Effective(c) == {s \in Mounted(c) : skill[s].doc.status = "approved"}

(* Nothing becomes effective without a human: who created, edited or        *)
(* distilled a skill never decided on it, and unless two requests met on it *)
(* its status is what was decided last.                                     *)
ReviewDecides ==
  /\ \A c \in Cat : Effective(c) \subseteq signed
  /\ \A s \in Skill \ raced : skill[s] # None => skill[s].doc.status = verdict[s]

(* Unless two requests met on it, a category is stored under its own id and *)
(* nobody else has its name, a skill is stored under its own category, and  *)
(* that category exists.                                                    *)
LibraryIsConsistent ==
  /\ \A c, d \in Cat : cat[c] # None /\ cat[d] # None /\ cat[c].name = cat[d].name => c = d
  /\ \A c \in Cat \ raced : cat[c] # None => cat[c].id = c
  /\ \A s \in Skill \ raced :
       skill[s] # None /\ skill[s].doc.cat \notin raced =>
         skill[s].cat = skill[s].doc.cat /\ cat[skill[s].cat] # None

-----------------------------------------------------------------------------
(* What makes them inductive.                                               *)

Jobs ==
  {Idle} \union [op : {"category"}, at : {"write"}, c : Cat, n : Name]
         \union [op : {"uncategory"}, at : {"write"}, c : Cat]
         \union [op : {"post"}, at : {"exists", "write"}, s : Skill, c : Cat, t : Text]
         \union [op : {"put"}, at : {"list", "write"}, s : Skill, c : Cat, t : Text, status : Status]
         \union [op : {"review"}, at : {"write"}, s : Skill, doc : Doc]
         \union [op : {"distill"}, at : {"asked"}, cats : SUBSET Cat, made : Nat,
                 s : {None}, c : {None}, t : {None}]
         \union [op : {"distill"}, at : {"write"}, cats : SUBSET Cat, made : Nat,
                 s : Skill, c : Cat, t : Text]

TypeOK ==
  /\ cat \in [Cat -> CatRow \union {None}] /\ skill \in [Skill -> SkillRow \union {None}]
  /\ job \in [Job -> Jobs]
  /\ verdict \in [Skill -> Status \union {"never", "gone"}]
  /\ \A j \in Job : job[j].op = "distill" /\ job[j].at = "write" => job[j].c \in job[j].cats

(* Only two requests that met leave a category under the id of another.     *)
OwnIds == \A c \in Cat : cat[c] # None => cat[c].id = c \/ {c, cat[c].id} \subseteq raced

(* The categories a job has seen and may still put a skill into.            *)
Seen(r) ==
  IF r.op = "distill" THEN r.cats
  ELSE IF r.op = "post" \/ (r.op = "put" /\ r.at = "write") THEN {r.c} ELSE {}

(* What a request has read is still so, unless another met it.              *)
Current(r) ==
  /\ r.op = "put" =>
       /\ r.status = "approved" => r.s \in signed
       /\ r.s \notin raced => skill[r.s] # None /\ skill[r.s].doc.status = r.status
  /\ r.op = "review" /\ r.s \notin raced => skill[r.s] # None /\ skill[r.s].doc.cat = r.doc.cat
  /\ \A c \in Seen(r) \ raced : cat[c] # None
  /\ r.op = "uncategory" /\ r.c \notin raced =>
       \A s \in Skill \ raced : skill[s] # None => skill[s].doc.cat # r.c

LibraryState == OwnIds /\ ReviewDecides /\ LibraryIsConsistent

LibraryInv == TypeOK /\ LibraryState /\ \A j \in Job : Current(job[j])

=============================================================================
