------------------------------ MODULE Services ------------------------------
(***************************************************************************)
(* The services that meet the scheduler only through what they store: nine *)
(* modules that share no step.  Init chooses the part; its variables live   *)
(* in the slots s1, s2, ..., and the slots it does not need stay Unused.    *)
(***************************************************************************)
EXTENDS Naturals, FiniteSets, Sequences

CONSTANTS
  Actor,  \* requests, executions, calls and commands that may be under way
  Thing,  \* categories, ids, sessions, paths and master keys
  None,
  Name, Skill, Wording, MaxCandidates,                             \* library
  Record, Key, ChannelKey, MasterKey, Capability, Role, Profile, Mask,  \* registry
  Value, Seed, Reader, MaxQueue,                                   \* files
  MaxTurns, MaxAttempts,                                           \* agent
  Program, Script, Whitelist, Generations, MaxItems,               \* shell
  Line, Length, Pattern, Garbled, MaxLines, LIST_LIMIT, GREP_LIMIT, GREP_LINE_CHARS,
  GREP_TOTAL_CHARS, READ_FILE_CHARS, Note, Place, LONGEST_PLACE,
  Server, Grants, Forge,                                           \* tools
  Console, Order, Contents, Strict, Renamed, Preset,              \* migration
  Operator, Fault, MaxEdits,                                       \* delivery
  Task, Kind, Package, Url, Dialog, Posted, Address,               \* dialog, publish
  AutoCreate, MaxOpenings, MaxAnswers, Broken, NoText

VARIABLES part, s1, s2, s3, s4, s5, s6, s7, s8, s9, s10

vars == <<part, s1, s2, s3, s4, s5, s6, s7, s8, s9, s10>>

-----------------------------------------------------------------------------
L == INSTANCE SkillLibrary
       WITH driver <- s1, cat <- s2, skill <- s3, job <- s4, verdict <- s5, signed <- s6, raced <- s7,
            Cat <- Thing, Job <- Actor, Text <- Wording

R == INSTANCE Registry
       WITH kind <- s1, master <- s2, phase <- s3, table <- s4, kinds <- s5, roles <- s6, job <- s7,
            asked <- s8, raced <- s9, failed <- s10,
            Job <- Actor

F == INSTANCE FileRegistry
       WITH file <- s1, cache <- s2, queue <- s3, stage <- s4, loaded <- s5, reader <- s6,
            stored <- s7, stale <- s8,
            Id <- Thing

G == INSTANCE AgentSession
       WITH session <- s1, run <- s2, story <- s3, astray <- s4,
            Exec <- Actor, Session <- Thing

S == INSTANCE ControlledShell
       WITH level <- s1, gen <- s2, seq <- s3, remembered <- s4, call <- s5, pending <- s6,
            shown <- s7, released <- s8, misled <- s9, ran <- s10,
            Call <- Actor, Command <- Script

T == INSTANCE Toolset
       WITH hub <- s1, tools <- s2, file <- s3, call <- s4, crossed <- s5,
            Call <- Actor, File <- Thing, Item <- Grants

M == INSTANCE Migration
       WITH source <- s1, column <- s2, table <- s3, run <- s4, marker <- s5,
            Migrator <- Actor, Server <- Console, Tables <- Order

D == INSTANCE Delivery
       WITH file <- s1, key <- s2, host <- s3, rows <- s4, report <- s5, console <- s6,
            handed <- s7, edits <- s8,
            Key <- Thing

\* The dialog, with nobody publishing; and publications of what scripts post.
I == INSTANCE Intake
       WITH pool <- s1, kinds <- s2, repo <- s3, dialog <- s4, asked <- s5, gen <- s6, submit <- s7,
            job <- s8, answered <- s9, checks <- s10,
            Job <- {}
P == INSTANCE Intake
       WITH pool <- s1, kinds <- s2, repo <- s3, dialog <- s4, asked <- s5, gen <- s6, submit <- s7,
            job <- s8, answered <- s9, checks <- s10,
            Job <- Actor, Dialog <- {}, Package <- Posted, Url <- Address

ASSUME ShellConstants == S!ShellAssumption
ASSUME FileConstants == F!FileAssumption
ASSUME LibraryConstants == L!LibraryAssumption
ASSUME RegistryConstants == R!RegistryAssumption
ASSUME AgentConstants == G!AgentAssumption
ASSUME ToolsetConstants == T!ToolsetAssumption
ASSUME MigrationConstants == M!MigrationAssumption
ASSUME DeliveryConstants == D!DeliveryAssumption
ASSUME DialogConstants == I!IntakeAssumption
ASSUME PublishConstants == P!IntakeAssumption

-----------------------------------------------------------------------------
Unused == "unused"

Init ==
  \/ part = "library" /\ L!Init /\ s8 = Unused /\ s9 = Unused /\ s10 = Unused
  \/ part = "registry" /\ R!Init
  \/ part = "files" /\ F!Init /\ s9 = Unused /\ s10 = Unused
  \/ part = "agent" /\ G!Init /\ s5 = Unused /\ s6 = Unused /\ s7 = Unused /\ s8 = Unused
       /\ s9 = Unused /\ s10 = Unused
  \/ part = "shell" /\ S!Init
  \/ part = "tools" /\ T!Init /\ s6 = Unused /\ s7 = Unused /\ s8 = Unused /\ s9 = Unused /\ s10 = Unused
  \/ part = "migration" /\ M!Init /\ s6 = Unused /\ s7 = Unused /\ s8 = Unused /\ s9 = Unused
       /\ s10 = Unused
  \/ part = "delivery" /\ D!Init /\ s9 = Unused /\ s10 = Unused
  \/ part = "dialog" /\ I!Init
  \/ part = "publish" /\ P!Init

Next ==
  \/ part = "library" /\ L!Next /\ UNCHANGED <<part, s8, s9, s10>>
  \/ part = "registry" /\ R!Next /\ UNCHANGED part
  \/ part = "files" /\ F!Next /\ UNCHANGED <<part, s9, s10>>
  \/ part = "agent" /\ G!Next /\ UNCHANGED <<part, s5, s6, s7, s8, s9, s10>>
  \/ part = "shell" /\ S!Next /\ UNCHANGED part
  \/ part = "tools" /\ T!Next /\ UNCHANGED <<part, s6, s7, s8, s9, s10>>
  \/ part = "migration" /\ M!Next /\ UNCHANGED <<part, s6, s7, s8, s9, s10>>
  \/ part = "delivery" /\ D!Next /\ UNCHANGED <<part, s9, s10>>
  \/ part = "dialog" /\ I!Next /\ UNCHANGED part
  \/ part = "publish" /\ P!Next /\ UNCHANGED part

Spec == Init /\ [][Next]_vars

-----------------------------------------------------------------------------
(* What every agent is told: only skills that a human decided on take      *)
(* effect, and unless two requests met a skill has its last verdict and an *)
(* existing category, under overlapping edits, reviews, removals and       *)
(* distillations (routes of skills and categories, SqlSkillStore).         *)
LibraryIsSound == part = "library" => L!ReviewDecides /\ L!LibraryIsConsistent

(* Keys outlive every edit that carries the mask, every start and every    *)
(* read that opens them, unless two requests met on the record; and what   *)
(* serves with a master key holds none in clear (EmployeeStore, channel    *)
(* routes, the encryption of startConsoleServer).                          *)
SecretsSurvive == part = "registry" => R!SecretsSurvive /\ R!NothingInClear

(* What was answered with success is in the file, whatever crashed between *)
(* the temporary file and its renaming (load and flush of the file         *)
(* stores).                                                                *)
AnsweredIsStored == part = "files" => F!AnsweredIsStored

(* The model continues the story of its own session and of no other, also  *)
(* over restarts, rejections and resumes, unless two runs met or a write   *)
(* failed; and what a run says of its end and its turns is what happened,  *)
(* of its tokens all but those of rejected attempts (EmployeeRuntime).     *)
RunsAreTold == part = "agent" => G!ContextIsTheStory /\ G!OutcomeIsHonest

(* A plain command runs when the level or the white list covers it, or a   *)
(* human released a command that was shown to him and whose first word the *)
(* approval takes for the same name (unless two executions used the item); *)
(* no other kind of command ever runs (ControlledBash, makeBashApproval).  *)
OnlyReleasedRuns == part = "shell" => S!OnlyReleasedRuns

(* No tool floods the context of the model: every answer of list, read and *)
(* grep is within its limit and what the limit leaves uncounted, however   *)
(* the files change under a search (workspace/tools.ts).                   *)
ResultsFitTheContext == part = "tools" => T!ResultsFitTheContext

(* A migration arrives whole or not at all, under migrations, starts and   *)
(* deaths side by side; no row is written before its columns (migrate.ts). *)
MigrationIsWhole == part = "migration" => M!MigrationIsWhole /\ M!SchemaBeforeRows

(* A green doctor means a console that starts, but for what it does not    *)
(* look at; and a console that serves sends opened keys, takes the tokens  *)
(* it owes and has sealed its rows (runChecks, loadRuntimeConfig,          *)
(* startConsoleServer).                                                    *)
DeliveryIsSound == part = "delivery" => D!DeliveryIsSound

(* What the form cannot hold is dropped only when the user agrees, a       *)
(* generated package is one the server takes, and a published task points  *)
(* at a repository that was found, unless the task was submitted meanwhile *)
(* (TaskCreateDialog, parse and publish routes).                           *)
IntakeIsSound == (part = "dialog" => I!IntakeIsSound) /\ (part = "publish" => P!IntakeIsSound)

(* What the program writes over a file leaves the rest of it alone: a      *)
(* damaged store is never replaced by an empty one, an edit changes the    *)
(* one passage it named, and issuing a token leaves a file that loaded     *)
(* loadable, exactly when its auth section has a layout the command knows  *)
(* (load of the file stores, edit_file, issueToken).                       *)
RewritesKeepTheRest ==
  [][ /\ part = "files" => F!KeepsDamaged
      /\ part = "tools" => T!EditsAreExact
      /\ part = "delivery" => \A n \in Operator : D!IssueLeavesItLoading(n) ]_vars
=============================================================================
