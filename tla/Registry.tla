------------------------------ MODULE Registry ------------------------------
(***************************************************************************)
(* The registries of the console: employees with their model key, channels *)
(* with their secrets, capabilities; their routes, SQL stores, seeds and   *)
(* the encryption of what a start finds in clear.                          *)
(*                                                                         *)
(* A credential goes out to the browser as a mask and comes back as one.   *)
(* It is stored in clear when the process has no master key, else          *)
(* encrypted.  A job is a request between two of its statements; a start   *)
(* takes one statement at a time, before the port is open.                 *)
(***************************************************************************)
EXTENDS Naturals, FiniteSets

CONSTANTS
  Record,            \* ids of employees and channels
  Key, ChannelKey,   \* credentials a user may type for a model, for a channel
  MasterKey,         \* values of DDW_CRED_KEY over the starts
  Capability, Role,  \* kinds, and names of categories
  Profile,           \* employees of the yaml, records that cannot be channels
  Job,               \* bound: requests under way
  Mask, None         \* neither is a key

VARIABLES
  kind,      \* what a record is
  master,    \* DDW_CRED_KEY of the running process
  phase,     \* of the process
  table,     \* ddw_employees and ddw_channels: id -> doc or None
  kinds,     \* ddw_capabilities
  roles,     \* the names in ddw_skill_categories
  job,
  asked,     \* history: the doc the requests asked for, its credentials in clear
  raced,     \* history: records on which two requests met
  failed     \* history: this start could not encrypt something

vars == <<kind, master, phase, table, kinds, roles, job, asked, raced, failed>>
Tables == <<table, kinds, roles>>

\* "key", "secret" and "token" of a row, and of what its user typed.
Fields == {"key", "secret", "token"}
Typed == Key \union ChannelKey
Cred == [text : Typed, under : MasterKey \union {None}]
Docs(S) == [on : BOOLEAN, type : {"employee", "dingtalk", "yanxun"}, creds : [Fields -> S \union {None}]]

RegistryAssumption ==
  /\ Mask \notin Typed \union {None} /\ None \notin Job
  /\ None \notin Typed \union MasterKey \union Cred \union Docs(Cred) \union Docs(Typed)

Phases == <<"capabilities", "categories", "employees", "channels", "keys", "serving">>
Idle == [op |-> "idle"]

Init ==
  /\ kind \in [Record -> {"employee", "channel"}]
  /\ \A r \in Profile : kind[r] = "employee"
  /\ master = None /\ phase = "down"
  /\ table = [r \in Record |-> None] /\ kinds = {} /\ roles = {}
  /\ job = [j \in Job |-> Idle]
  /\ asked = [r \in Record |-> None] /\ raced = {} /\ failed = FALSE

-----------------------------------------------------------------------------
(* Credentials: in clear, or encrypted once under a master key.            *)
Clear(k) == [text |-> k, under |-> None]
encryptSecret(s) ==
  IF s = None \/ master = None THEN s
  ELSE IF s.under # None THEN s ELSE [s EXCEPT !.under = master]

\* An employee has the key of its model, a channel a secret and a token.
Encrypted(doc) == [doc EXCEPT !.creds = [f \in Fields |-> encryptSecret(doc.creds[f])]]
Opened(doc) ==
  [doc EXCEPT !.creds = [f \in Fields |-> IF doc.creds[f] = None THEN None ELSE doc.creds[f].text]]

\* stripSecretPlaceholder, and what a mask keeps
KeptAsTyped(typed, old) == IF typed = None THEN None ELSE Clear(typed)
Kept(typed, old) ==
  IF typed = Mask THEN old ELSE IF typed = None THEN None ELSE Clear(typed)
Restored(body, old) ==
  [body EXCEPT !.creds = [f \in Fields |->
     Kept(body.creds[f], IF old = None THEN None ELSE old.creds[f])]]

\* What a form may hold.  A channel's field is never absent: empty is the mask.
EmployeeForm ==
  [on : BOOLEAN, type : {"employee"}, creds :
     {[f \in Fields |-> IF f = "key" THEN k ELSE None] : k \in Key \union {None, Mask}}]
ChannelForm ==
  {[on |-> TRUE, type |-> t, creds |-> [key |-> None, secret |-> s, token |-> k]] :
     t \in {"dingtalk", "yanxun"}, s \in ChannelKey \union {Mask}, k \in ChannelKey \union {Mask}}

validateChannelDef(doc) == doc.type = "yanxun" => doc.creds["token"] # None

-----------------------------------------------------------------------------
Begin(j, r) == phase = "serving" /\ job[j] = Idle /\ job' = [job EXCEPT ![j] = r]
End(j) == job' = [job EXCEPT ![j] = Idle]
Goto(j, at) == job' = [job EXCEPT ![j].at = at]
At(j, op, at) == job[j].op = op /\ job[j].at = at
Busy(j, r) == \E i \in Job \ {j} : job[i] # Idle /\ job[i].r = r

\* A row is written: for one, or for two at a time.
Write(j, r, doc, want) ==
  /\ table' = [table EXCEPT ![r] = doc]
  /\ raced' = IF Busy(j, r) THEN raced \union {r} ELSE raced
  /\ asked' = [asked EXCEPT ![r] = IF r \in raced' THEN None ELSE want]
\* What a form asks for: its masks stand for what was asked before.
Want(body, r) ==
  IF r \in raced THEN None ELSE [body EXCEPT !.creds = [f \in Fields |->
     IF body.creds[f] # Mask THEN body.creds[f]
     ELSE IF asked[r] = None THEN None ELSE asked[r].creds[f]]]

-----------------------------------------------------------------------------
(* Employees.                                                              *)

\* POST: capabilities, roles and the id are checked one after the other.
PostEmployee(j, r, body) ==
  /\ kind[r] = "employee" /\ body.creds["key"] # Mask
  /\ Begin(j, [op |-> "post", at |-> "kinds", r |-> r,
               doc |-> Restored(body, None), want |-> Want(body, r)])
  /\ UNCHANGED <<kind, master, phase, Tables, asked, raced, failed>>

\* PUT: the record must exist, and have a key if the form holds the mask.
PutEmployee(j, r, body) ==
  /\ kind[r] = "employee" /\ table[r] # None
  /\ body.creds["key"] = Mask => table[r].creds["key"] # None
  /\ Begin(j, [op |-> "put", at |-> "kinds", r |-> r,
               doc |-> Restored(body, table[r]), want |-> Want(body, r)])
  /\ UNCHANGED <<kind, master, phase, Tables, asked, raced, failed>>

\* validateEmployeeRecord with what the form names; an empty registry
\* restricts nothing.
CheckCapabilities(j) ==
  /\ job[j].op \in {"post", "put"} /\ job[j].at = "kinds"
  /\ \E caps \in SUBSET Capability :
       IF kinds # {} /\ ~caps \subseteq kinds THEN End(j) ELSE Goto(j, "roles")
  /\ UNCHANGED <<kind, master, phase, Tables, asked, raced, failed>>

CheckRoles(j) ==
  /\ job[j].op \in {"post", "put"} /\ job[j].at = "roles"
  /\ \E role \in Role :
       IF roles # {} /\ role \notin roles THEN End(j)
       ELSE Goto(j, IF job[j].op = "post" THEN "taken" ELSE "write")
  /\ UNCHANGED <<kind, master, phase, Tables, asked, raced, failed>>

CheckTaken(j) ==
  /\ At(j, "post", "taken")
  /\ IF table[job[j].r] # None THEN End(j) ELSE Goto(j, "write")
  /\ UNCHANGED <<kind, master, phase, Tables, asked, raced, failed>>

WriteEmployee(j) ==
  /\ job[j].op \in {"post", "put"} /\ job[j].at = "write"
  /\ Write(j, job[j].r, Encrypted(job[j].doc), job[j].want)
  /\ End(j)
  /\ UNCHANGED <<kind, master, phase, kinds, roles, failed>>

\* DELETE: setEnabled(id, false) reads the doc and writes it back.
DisableEmployee(j, r) ==
  /\ kind[r] = "employee" /\ table[r] # None
  /\ Begin(j, [op |-> "disable", at |-> "write", r |-> r, doc |-> [table[r] EXCEPT !.on = FALSE],
               want |-> IF asked[r] = None THEN None ELSE [asked[r] EXCEPT !.on = FALSE]])
  /\ UNCHANGED <<kind, master, phase, Tables, asked, raced, failed>>

WriteDisabled(j) ==
  /\ At(j, "disable", "write")
  /\ Write(j, job[j].r, job[j].doc, job[j].want)
  /\ End(j)
  /\ UNCHANGED <<kind, master, phase, kinds, roles, failed>>

-----------------------------------------------------------------------------
(* Channels.                                                               *)

\* POST replaces what has the id.
PostChannel(r, body) ==
  /\ phase = "serving" /\ kind[r] = "channel"
  /\ LET doc == Restored(body, None) IN
       /\ validateChannelDef(doc)
       /\ Write(None, r, Encrypted(doc), Opened(doc))
  /\ UNCHANGED <<kind, master, phase, kinds, roles, job, failed>>

\* PUT lists the channels, fills in what the form masks and checks the result.
PutChannel(j, r, body) ==
  /\ kind[r] = "channel"
  /\ validateChannelDef(Restored(body, table[r]))
  /\ Begin(j, [op |-> "channel", at |-> "write", r |-> r,
               doc |-> Restored(body, table[r]), want |-> Want(body, r)])
  /\ UNCHANGED <<kind, master, phase, Tables, asked, raced, failed>>

WriteChannel(j) ==
  /\ At(j, "channel", "write")
  /\ Write(j, job[j].r, Encrypted(job[j].doc), job[j].want)
  /\ End(j)
  /\ UNCHANGED <<kind, master, phase, kinds, roles, failed>>

DeleteChannel(r) ==
  /\ phase = "serving" /\ kind[r] = "channel" /\ table[r] # None
  /\ Write(None, r, None, None)
  /\ UNCHANGED <<kind, master, phase, kinds, roles, job, failed>>

-----------------------------------------------------------------------------
(* Capabilities; the roles are the library's.                              *)
PutCapability(c) ==
  /\ phase = "serving" /\ kinds' = kinds \union {c}
  /\ UNCHANGED <<kind, master, phase, table, roles, job, asked, raced, failed>>
RemoveCapability(c) ==
  /\ phase = "serving" /\ c \in kinds /\ kinds' = kinds \ {c}
  /\ UNCHANGED <<kind, master, phase, table, roles, job, asked, raced, failed>>
ChangeRoles(r) ==
  /\ phase = "serving" /\ roles' \in {roles \union {r}, roles \ {r}}
  /\ UNCHANGED <<kind, master, phase, table, kinds, job, asked, raced, failed>>

-----------------------------------------------------------------------------
(* Start and end of the process.                                           *)
Boot(m) ==
  /\ phase = "down" /\ phase' = "capabilities" /\ master' = m /\ failed' = FALSE
  /\ UNCHANGED <<kind, Tables, job, asked, raced>>

After(p) == Phases[(CHOOSE i \in 1..5 : Phases[i] = p) + 1]
Seeds(p, t, all) ==
  /\ phase = p /\ phase' = After(p)
  /\ t' \in {t, IF t = {} THEN all ELSE t}      \* a failed seed is only logged
  /\ UNCHANGED <<kind, master, table, job, asked, raced, failed>>
SeedCapabilities == Seeds("capabilities", kinds, Capability) /\ UNCHANGED roles
SeedCategories == Seeds("categories", roles, Role) /\ UNCHANGED kinds

Employees == {r \in Record : kind[r] = "employee" /\ table[r] # None}
Seeded == [on |-> TRUE, type |-> "employee", creds |-> [f \in Fields |-> None]]
SeedEmployees ==
  /\ phase = "employees" /\ phase' = "channels"
  /\ \/ UNCHANGED <<table, asked>>
     \/ /\ Employees = {}
        /\ table' = [r \in Record |-> IF r \in Profile THEN Seeded ELSE table[r]]
        /\ asked' = [r \in Record |-> IF r \in Profile THEN Seeded ELSE asked[r]]
  /\ UNCHANGED <<kind, master, kinds, roles, job, raced, failed>>

\* What the step has to encrypt, one record after the other.
InClear(what) == {r \in Record : kind[r] = what /\ table[r] # None /\ Encrypted(table[r]) # table[r]}
Step == IF phase = "channels" THEN "channel" ELSE "employee"

EncryptOne ==
  /\ phase \in {"channels", "keys"}
  /\ \E r \in InClear(Step) : table' = [table EXCEPT ![r] = Encrypted(table[r])]
  /\ UNCHANGED <<kind, master, phase, kinds, roles, job, asked, raced, failed>>
EncryptFails ==
  /\ phase \in {"channels", "keys"} /\ InClear(Step) # {}
  /\ phase' = After(phase) /\ failed' = TRUE
  /\ UNCHANGED <<kind, master, Tables, job, asked, raced>>
EncryptionSkipped ==
  /\ phase \in {"channels", "keys"} /\ phase' = After(phase)
  /\ UNCHANGED <<kind, master, Tables, job, asked, raced, failed>>
EncryptionEnds ==
  /\ phase \in {"channels", "keys"} /\ InClear(Step) = {}
  /\ phase' = After(phase)
  /\ UNCHANGED <<kind, master, Tables, job, asked, raced, failed>>

Crash ==
  /\ phase # "down" /\ phase' = "down" /\ master' = None
  /\ job' = [j \in Job |-> Idle]
  /\ UNCHANGED <<kind, Tables, asked, raced, failed>>

-----------------------------------------------------------------------------
Next ==
  \/ \E j \in Job, r \in Record :
       \/ \E body \in EmployeeForm : PostEmployee(j, r, body) \/ PutEmployee(j, r, body)
       \/ DisableEmployee(j, r)
       \/ \E body \in ChannelForm : PutChannel(j, r, body)
  \/ \E r \in Record : DeleteChannel(r) \/ \E body \in ChannelForm : PostChannel(r, body)
  \/ \E j \in Job :
       \/ CheckCapabilities(j) \/ CheckRoles(j) \/ CheckTaken(j)
       \/ WriteEmployee(j) \/ WriteDisabled(j) \/ WriteChannel(j)
  \/ \E c \in Capability : PutCapability(c) \/ RemoveCapability(c)
  \/ \E r \in Role : ChangeRoles(r)
  \/ \E m \in MasterKey \union {None} : Boot(m)
  \/ SeedCapabilities \/ SeedCategories \/ SeedEmployees
  \/ EncryptOne \/ EncryptFails \/ EncryptionEnds \/ Crash

Spec == Init /\ [][Next]_vars

-----------------------------------------------------------------------------
(* Whatever was masked, restored, encrypted, found again by a start under  *)
(* another master key or read and written back: a record on which no two   *)
(* requests met is what was asked for, and its credentials, opened, are    *)
(* the ones last typed.                                                    *)
SecretsSurvive ==
  \A r \in Record \ raced :
    IF table[r] = None THEN asked[r] = None
    ELSE asked[r] # None /\ Opened(table[r]) = asked[r]

(* A console that serves with a master key holds no credential in clear,   *)
(* unless this start could not encrypt it; not even one that a request     *)
(* read before another wrote.                                              *)
NothingInClear ==
  phase = "serving" /\ master # None /\ ~failed =>
    \A r \in Record : table[r] # None =>
      \A f \in Fields : table[r].creds[f] # None => table[r].creds[f].under # None

-----------------------------------------------------------------------------
(* What makes them inductive.                                               *)

Jobs ==
  {Idle} \union [op : {"post", "put", "disable", "channel"}, at : {"kinds", "roles", "taken", "write"},
                 r : Record, doc : Docs(Cred), want : Docs(Typed) \union {None}]

TypeOK ==
  /\ kind \in [Record -> {"employee", "channel"}] /\ \A r \in Profile : kind[r] = "employee"
  /\ master \in MasterKey \union {None}
  /\ phase \in {Phases[i] : i \in 1..6} \union {"down"}
  /\ table \in [Record -> Docs(Cred) \union {None}]
  /\ job \in [Job -> Jobs]
  /\ asked \in [Record -> Docs(Typed) \union {None}]
  /\ phase # "serving" => \A j \in Job : job[j] = Idle

(* What a request is about to write is what its user asked for.             *)
JobsAgree ==
  \A j \in Job : job[j] # Idle /\ job[j].r \notin raced =>
    job[j].want # None /\ Opened(job[j].doc) = job[j].want

(* What a start has passed, and what is written back as it was read, holds  *)
(* nothing in clear.                                                        *)
Sealed(doc) == \A f \in Fields : doc.creds[f] # None => doc.creds[f].under # None
SealedSoFar ==
  master # None /\ ~failed =>
    /\ \A r \in Record : table[r] # None =>
         (phase = "serving" \/ (phase = "keys" /\ kind[r] = "channel") => Sealed(table[r]))
    /\ \A j \in Job : job[j].op = "disable" => Sealed(job[j].doc)

RegistryInv == TypeOK /\ SecretsSurvive /\ JobsAgree /\ SealedSoFar

=============================================================================
