------------------------------ MODULE Delivery ------------------------------
(***************************************************************************)
(* How an instance is delivered: the operator writes the runtime yaml,     *)
(* encrypts credentials, issues access tokens, has the doctor look at the  *)
(* machine, and starts the console (cli.ts, doctor.ts, runtime-config.ts,  *)
(* token-issue.ts, the start-up of server.ts).                             *)
(*                                                                         *)
(* A command is one step: it runs alone in a process of its own.  A stored *)
(* credential is "absent", "plain", or the master key it is sealed with.   *)
(***************************************************************************)
EXTENDS Naturals, FiniteSets

CONSTANTS
  Key,        \* master keys that `cred key` printed
  Operator,   \* names that get an access token
  Fault,      \* what may be wrong with the host, of the kinds named below
  MaxEdits,   \* bound: changes of the yaml, the environment and the host
  None

VARIABLES
  file,       \* the runtime yaml
  key,        \* DDW_CRED_KEY of the shell: a key, None, or "short"
  host,       \* what is wrong with the host
  rows,       \* how the model keys of the stored employees are stored
  report,     \* verdict of the doctor on what is there now
  console,    \* the console, what it loaded and why it refused
  handed,     \* operators whose token was written into the yaml for them
  edits

vars == <<file, key, host, rows, report, console, handed, edits>>

(* The credentials of the yaml: both keys of a model route, the forge's    *)
(* token, a header of an MCP server, the password of the database.         *)
Field == {"primary", "fallback", "forge", "header", "password"}

Stored == {"absent", "plain"} \union Key

DeliveryAssumption == Key \intersect {"absent", "plain", "short", None} = {} /\ None \notin {"absent", "short"}

Opens(v, k) == v \in {"absent", "plain", k}

(* resolveSecret: what is sealed is opened, what is plain stays as it is. *)
Resolved(v) == IF v \in Key THEN "plain" ELSE v

Faulty(f) == f \in host

-----------------------------------------------------------------------------
(* Reading the yaml.                                                       *)

(* One section may be wrong: a type, an enumeration, a missing or a        *)
(* doubled name.  A password needs the mysql section, which needs the      *)
(* mysql driver.                                                           *)
StorageParses == file.wrong # "storage" /\ (file.secret["password"] # "absent" => file.driver = "mysql")

RoutesParse == file.wrong # "routes" /\ (file.secret["fallback"] # "absent" => file.secret["primary"] # "absent")

TokensParse == ~file.twice

SectionsParse == file.wrong # "other"

Parses == ~file.tangled /\ StorageParses /\ RoutesParse /\ TokensParse /\ SectionsParse

(* resolveRuntimeSecrets opens every credential but two: the password is   *)
(* opened when the database is, the fallback's key never.                  *)
OpenedOnLoad == {"primary", "forge", "header"}

Loads ==
  /\ Parses
  /\ \A f \in OpenedOnLoad : Opens(file.secret[f], key)
  /\ \A n \in Operator : Opens(file.token[n], key)

(* The auth section as the text shows it.  "block": `auth:` and `tokens:`   *)
(* alone on their lines, the entries where the command would put its own.  *)
(* "askew": block form too, but entries it does not take for entries (`-   *)
(* name: ...` over two lines) at another indentation than it counts on.    *)
(* "unseen": flow form, or a comment after `auth:` or `tokens:`.           *)
Layout == {"none", "block", "askew", "unseen"}

Misread == {"askew", "unseen"}

HasTokens == \E n \in Operator : file.token[n] # "absent"

-----------------------------------------------------------------------------
(* The doctor.  Its items are independent; a red one fails the command.    *)

(* The lines of the text that hold an apiKey or a password in cipher. *)
HasCiphertext == \E f \in {"primary", "fallback", "password"} : file.secret[f] \in Key

Exposed ==
  \/ \E f \in Field \ {"header"} : file.secret[f] = "plain"
  \/ \E n \in Operator : file.token[n] = "plain"

(* The storage section, also when the rest of the file does not load. *)
StorageKnown == ~file.tangled /\ StorageParses /\ file.driver # "default"

Reachable ==
  IF file.driver = "mysql" THEN Opens(file.secret["password"], key) /\ ~Faulty("database")
                           ELSE ~Faulty("data")

(* The file is read, but its credentials are not opened. *)
ConfigIsRedUnopened == ~Parses
ConfigIsRed == ~Loads

Red ==
  {i \in {"data", "chain", "config", "key", "sealed", "auth", "storage", "rows", "commands"} :
     \/ i = "data" /\ Faulty("data")
     \/ i = "chain" /\ Faulty("chain") /\ file.driver # "mysql"
     \/ i = "config" /\ ConfigIsRed
     \/ i = "key" /\ HasCiphertext /\ key \notin Key
     \/ i = "sealed" /\ ~file.tangled /\ Exposed
     \/ i = "auth" /\ ~file.tangled /\ ~HasTokens
     \/ i = "storage" /\ StorageKnown /\ ~Reachable
     \/ i = "rows" /\ StorageKnown /\ Reachable /\ rows = "plain"
     \/ i = "commands" /\ Faulty("commands")}

Doctor ==
  /\ report' = IF Red = {} THEN "green" ELSE "red"
  /\ UNCHANGED <<file, key, host, rows, console, handed, edits>>

-----------------------------------------------------------------------------
(* What the operator changes.  Every change outdates the report.           *)

Changed ==
  /\ edits < MaxEdits
  /\ edits' = edits + 1
  /\ report' = "none"
  /\ UNCHANGED <<rows, console>>

(* A credential is typed in or taken out. *)
Type(f) ==
  /\ \E v \in {"absent", "plain"} \ {file.secret[f]} : file' = [file EXCEPT !.secret[f] = v]
  /\ Changed
  /\ UNCHANGED <<key, host, handed>>

(* `cred enc`, and its output pasted over the plain text. *)
Seal(f) ==
  /\ file.secret[f] = "plain"
  /\ key \in Key
  /\ file' = [file EXCEPT !.secret[f] = key]
  /\ Changed
  /\ UNCHANGED <<key, host, handed>>

(* Another setting is edited, well or badly. *)
Edit ==
  /\ \/ \E w \in {None, "storage", "routes", "other"} \ {file.wrong} : file' = [file EXCEPT !.wrong = w]
     \/ \E d \in {"default", "sqlite", "mysql"} \ {file.driver} : file' = [file EXCEPT !.driver = d]
     \/ file' = [file EXCEPT !.strict = ~@]
     \/ file' = [file EXCEPT !.bound = ~@]
  /\ Changed
  /\ UNCHANGED <<key, host, handed>>

(* The line goes right under `tokens:`, without the indentation. *)
IssueFlush(n) ==
  /\ key # "short"
  /\ file' = [file EXCEPT
       !.token[n] = IF @ = "absent" THEN (IF key = None THEN "plain" ELSE key) ELSE @,
       !.twice = @ \/ file.token[n] # "absent",
       !.tangled = TRUE,
       !.auth = IF @ = "none" THEN "block" ELSE @]
  /\ handed' = handed \union {n}
  /\ Changed
  /\ UNCHANGED <<key, host>>

(* `token <name> --yaml`: the token is sealed when there is a key (one of  *)
(* the wrong length throws), its line goes after the last entry it knows,  *)
(* an empty list is unfolded, a missing section is appended.  In a section *)
(* it misreads the line gets an indentation the list does not have, or a   *)
(* second section of the same name is appended: neither is yaml any more.  *)
Issue(n) ==
  /\ key # "short"
  /\ file' = [file EXCEPT
       !.token[n] = IF @ = "absent" THEN (IF key = None THEN "plain" ELSE key) ELSE @,
       !.twice = @ \/ file.token[n] # "absent",
       !.tangled = @ \/ file.auth \in Misread,
       !.auth = IF @ = "none" THEN "block" ELSE @]
  /\ handed' = handed \union {n}
  /\ Changed
  /\ UNCHANGED <<key, host>>

(* The section is written by hand: one token or none, in any layout. *)
WriteAuth ==
  /\ \E n \in Operator, a \in Layout :
       file' = [file EXCEPT
         !.auth = a, !.twice = FALSE, !.tangled = FALSE,
         !.token = [m \in Operator |-> IF a # "none" /\ m = n THEN "plain" ELSE "absent"]]
  /\ file' # file
  /\ handed' = {}
  /\ Changed
  /\ UNCHANGED <<key, host>>

(* DDW_CRED_KEY is exported, replaced, mistyped or forgotten. *)
SetKey ==
  /\ \E k \in Key \union {None, "short"} : k # key /\ key' = k
  /\ Changed
  /\ UNCHANGED <<file, host, handed>>

(* Something of the host breaks or is repaired. *)
Change(f) ==
  /\ host' = IF Faulty(f) THEN host \ {f} ELSE host \union {f}
  /\ Changed
  /\ UNCHANGED <<file, key, handed>>

-----------------------------------------------------------------------------
(* The console.                                                            *)

(* What stops a start, in the order in which it looks. *)
Obstacle ==
  CASE ~Loads                                                -> "config"
    [] ~Reachable                                            -> "storage"
    [] Faulty("roots")                                       -> "roots"
    [] file.strict /\ ~(HasTokens /\ file.bound)             -> "strict"
    [] OTHER                                                 -> None

(* The stored model keys are sealed on the way when there is a key, also   *)
(* by a start that strictMode refuses at its end.                          *)
Migrated == IF rows = "plain" /\ key \in Key THEN key ELSE rows

Off == [state |-> "off"]

Start ==
  /\ console.state # "up"
  /\ console' =
       IF Obstacle = None
       THEN [state |-> "up", key |-> key,
             sends |-> [f \in Field |->
               IF f \in OpenedOnLoad \union {"password"} THEN Resolved(file.secret[f]) ELSE file.secret[f]],
             accepts |-> {n \in Operator : file.token[n] # "absent"},
             owes |-> handed]
       ELSE [state |-> "refused", cause |-> Obstacle, foretold |-> report]
  /\ rows' = IF Obstacle \in {None, "strict"} THEN Migrated ELSE rows
  /\ report' = IF rows' = rows THEN report ELSE "none"
  /\ UNCHANGED <<file, key, host, handed, edits>>

(* SIGTERM: no new connections, the open ones are cut, the driver closed. *)
Stop ==
  /\ console.state = "up"
  /\ console' = Off
  /\ UNCHANGED <<file, key, host, rows, report, handed, edits>>

(* An employee with a model key of its own is stored by the administration. *)
Bind ==
  /\ console.state = "up"
  /\ console.key # "short"
  /\ rows = "absent"
  /\ rows' = IF console.key = None THEN "plain" ELSE console.key
  /\ report' = "none"
  /\ UNCHANGED <<file, key, host, console, handed, edits>>

Fresh ==
  [tangled |-> FALSE, wrong |-> None, driver |-> "default", strict |-> FALSE, bound |-> FALSE,
   auth |-> "none", twice |-> FALSE, token |-> [n \in Operator |-> "absent"],
   secret |-> [f \in Field |-> IF f = "primary" THEN "plain" ELSE "absent"]]

(* An instance delivered for production: mysql, everything sealed. *)
Sealed(k) ==
  [Fresh EXCEPT !.driver = "mysql", !.strict = TRUE, !.bound = TRUE, !.auth = "block",
                !.token = [n \in Operator |-> k], !.secret = [f \in Field |-> k]]

(* The example file on a new machine, or a delivered instance. *)
Init ==
  /\ \/ file = Fresh /\ key = None
     \/ \E k \in Key : file = Sealed(k) /\ key = k
  /\ host = {} /\ rows = "absent" /\ report = "none"
  /\ console = Off /\ handed = {} /\ edits = 0

Next ==
  \/ Doctor
  \/ \E f \in Field : Type(f) \/ Seal(f)
  \/ Edit
  \/ \E n \in Operator : Issue(n)
  \/ WriteAuth
  \/ SetKey
  \/ \E f \in Fault : Change(f)
  \/ Start
  \/ Stop
  \/ Bind

Spec == Init /\ [][Next]_vars

-----------------------------------------------------------------------------
(* A start the doctor called all green ("doctor all green, then it starts  *)
(* and works", plan P11) is refused only for what the doctor does not look *)
(* at: the two roots of the workspaces, and strictMode without bindHost.   *)
GreenStarts ==
  console.state = "refused" =>
    \/ console.foretold # "green"
    \/ console.cause = "roots"
    \/ console.cause = "strict"

(* "A wrong key fails the start instead of a 401 much later" (credentials, *)
(* resolveSecret): a running console sends no credential in cipher.  The   *)
(* key of a fallback model is left out: see FallbackIsOpen.                *)
KeysAreOpen ==
  console.state = "up" => \A f \in Field \ {"fallback"} : console.sends[f] \notin Key

(* "Already written, restart to take effect": a token written into the     *)
(* file for somebody is accepted by the console that starts from it.       *)
TokensAnswer ==
  console.state = "up" => console.owes \subseteq console.accepts

(* The doctor's advice on employees ("restart with the key and they are    *)
(* sealed") is true.                                                       *)
RestartSeals ==
  (console.state = "up" /\ console.key \in Key) => rows # "plain"

DeliveryIsSound == GreenStarts /\ KeysAreOpen /\ TokensAnswer /\ RestartSeals

(* "Wrong indentation makes the start fail, so the line must follow what   *)
(* is there" (detectIndent).  Of a file that loads, a token for a new name *)
(* leaves one that loads exactly when the section has a layout the command *)
(* knows: whatever key is exported by now, and whatever the others' tokens *)
(* are sealed with.                                                        *)
IssueLeavesItLoading(n) ==
  (Loads /\ file.token[n] = "absent" /\ n \in handed' \ handed) => (Loads' <=> file.auth \notin Misread)

(* "The apiKey of the routes may be a cipher text" (runtime-config.ts), and *)
(* the doctor asks to encrypt the fallback's too: the gateway would send it *)
(* opened.  The code never opens it.                                        *)
FallbackIsOpen ==
  console.state = "up" => console.sends["fallback"] \notin Key

-----------------------------------------------------------------------------
(* What makes them inductive.                                               *)

Yaml ==
  [tangled : BOOLEAN, wrong : {None, "storage", "routes", "other"}, driver : {"default", "sqlite", "mysql"},
   strict : BOOLEAN, bound : BOOLEAN, auth : Layout, twice : BOOLEAN,
   token : [Operator -> Stored], secret : [Field -> Stored]]

TypeOK ==
  /\ file \in Yaml
  /\ key \in Key \union {None, "short"}
  /\ rows \in Stored
  /\ console.state = "up" => console.key \in Key \union {None, "short"}

(* A report is about what is there, and the yaml has the tokens of all it   *)
(* was told to have.                                                        *)
ReportIsCurrent == report = "green" => Red = {}
HandedIsWritten == \A n \in handed : n \in Operator /\ file.token[n] # "absent"

DeliveryInv == TypeOK /\ ReportIsCurrent /\ HandedIsWritten /\ DeliveryIsSound

=============================================================================
