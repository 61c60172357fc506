------------------------------ MODULE Toolset ------------------------------
(***************************************************************************)
(* The tools of an execution: the registry defaultToolsFor fills for a     *)
(* plan item, McpHub which finds the tools of MCP servers, and the tools   *)
(* on the files of the workspace.                                          *)
(*                                                                         *)
(* Calls of one agent overlap, and each step is one access to the file     *)
(* system: an edit reads, then writes the whole file back.                 *)
(***************************************************************************)
EXTENDS Naturals, Sequences, FiniteSetsExt

CONSTANTS
  Call,          \* bound: calls under way
  File,          \* relative paths in the workspace
  Line,          \* lines of text, the pattern is on all of them
  Length,        \* [Line -> Nat], in characters
  Pattern,       \* lines that hold a replacement pattern of String.replace
  Garbled,       \* what becomes of them
  MaxLines,      \* bound: lines of a file that is written
  LIST_LIMIT, GREP_LIMIT, GREP_LINE_CHARS, GREP_TOTAL_CHARS, READ_FILE_CHARS,
  Note,          \* characters of the longest note on a cut file, line and search
  Place,         \* [File -> [1..MaxLines -> Nat]], characters of path:line:
  LONGEST_PLACE, \* and the most they have
  Server,        \* MCP servers of the configuration
  Item,          \* what the capabilities name: sets of toolkits and servers
  Forge,         \* the forge is configured
  None

VARIABLES
  hub,     \* server -> "starting", "connected", "error"
  tools,   \* the registry of the item, or None
  file,    \* path -> its lines, or None
  call,
  crossed  \* history: files that two calls changed at a time

vars == <<hub, tools, file, call, crossed>>

Idle == [op |-> "idle"]
Text == UNION {[1..n -> Line] : n \in 1..MaxLines}
Builtin == {"bash", "files"}

ToolsetAssumption ==
  /\ {MaxLines, LIST_LIMIT, GREP_LIMIT, GREP_LINE_CHARS, READ_FILE_CHARS} \subseteq Nat
  /\ GREP_TOTAL_CHARS \in Nat \ {0}
  /\ Note \in [{"file", "line", "search"} -> Nat]
  /\ LONGEST_PLACE \in Nat /\ Place \in [File -> [1..MaxLines -> 0..LONGEST_PLACE]]
  /\ Length \in [Line -> Nat] /\ Garbled \in Line
  /\ None \notin Text /\ IsFiniteSet(File)

Init ==
  /\ hub = [s \in Server |-> "starting"] /\ tools = None
  /\ file = [f \in File |-> None]
  /\ call = [c \in Call |-> Idle] /\ crossed = {}

-----------------------------------------------------------------------------
(* McpHub.start: connect and list the tools, all servers side by side.  One *)
(* that fails keeps nobody else from starting.                              *)
Connect(s) ==
  /\ hub[s] = "starting" /\ \E st \in {"connected", "error"} : hub' = [hub EXCEPT ![s] = st]
  /\ UNCHANGED <<tools, file, call, crossed>>

(* defaultToolsFor.  A server that is not connected has no tools, nor has   *)
(* forge without its configuration.  The console does not wait for          *)
(* McpHub.start before it works on items.                                   *)
Registered(i) ==
  {t \in i : t \in Builtin \/ (t = "forge" /\ Forge) \/ (t \in Server /\ hub[t] = "connected")}
Assemble(i) ==
  /\ tools = None
  /\ tools' = Registered(i)
  /\ UNCHANGED <<hub, file, call, crossed>>
ItemEnds ==
  /\ tools # None /\ \A c \in Call : call[c] = Idle
  /\ tools' = None
  /\ UNCHANGED <<hub, file, call, crossed>>

-----------------------------------------------------------------------------
HasFiles == tools # None /\ "files" \in tools
Begin(c, r) == HasFiles /\ call[c] = Idle /\ call' = [call EXCEPT ![c] = r]
Return(c, r) == call' = [call EXCEPT ![c] = r]
Done(c) == call' = [call EXCEPT ![c] = Idle]
Changing(c, f) == \E d \in Call \ {c} : call[d].op = "edit" /\ call[d].f = f
Size(t) ==
  LET upto[k \in 0..Len(t)] == IF k = 0 THEN 0 ELSE upto[k - 1] + Length[t[k]]
  IN  upto[Len(t)]

\* resolve: a path that leaves the root is an error, and so is a bad argument
WriteFile(c, f, t) ==
  /\ HasFiles /\ call[c] = Idle
  /\ file' = [file EXCEPT ![f] = t]
  /\ crossed' = IF Changing(c, f) THEN crossed \union {f} ELSE crossed
  /\ UNCHANGED <<hub, tools, call>>

\* cut at n characters, with a note that it was
Cut(size, n, note) == IF size > n THEN n + note ELSE size
ReadFile(c, f) ==
  /\ HasFiles /\ call[c] = Idle /\ file[f] # None
  /\ Return(c, [op |-> "answer", is |-> "text", lines |-> 1,
                chars |-> Cut(Size(file[f]), READ_FILE_CHARS, Note.file)])
  /\ UNCHANGED <<hub, tools, file, crossed>>

(* editFile: the old text must be there exactly once.                       *)
Hits(t, old) == {k \in DOMAIN t : t[k] = old}
Edit(c, f, old, new) ==
  /\ file[f] # None /\ Cardinality(Hits(file[f], old)) = 1
  /\ Begin(c, [op |-> "edit", f |-> f, read |-> file[f], old |-> old, new |-> new])
  /\ UNCHANGED <<hub, tools, file, crossed>>

\* String.replace: the first place, and patterns in the new text are expanded
Landed(l) == IF l \in Pattern THEN Garbled ELSE l
Replaced(t, old, new) == [t EXCEPT ![Min(Hits(t, old))] = Landed(new)]
WriteEdit(c) ==
  /\ call[c].op = "edit"
  /\ LET r == call[c] IN
       /\ file' = [file EXCEPT ![r.f] = Replaced(r.read, r.old, r.new)]
       /\ crossed' = IF Changing(c, r.f) \/ file[r.f] # r.read THEN crossed \union {r.f} ELSE crossed
       /\ Done(c)
  /\ UNCHANGED <<hub, tools>>

(* listTree stops at one more than is shown.                                *)
ListFiles(c) ==
  /\ HasFiles /\ call[c] = Idle
  /\ LET n == Cardinality({f \in File : file[f] # None}) IN
       Return(c, [op |-> "answer", is |-> "list", lines |-> IF n > LIST_LIMIT THEN LIST_LIMIT ELSE n,
                  cut |-> n > LIST_LIMIT, chars |-> 0])
  /\ UNCHANGED <<hub, tools, file, crossed>>

(* grep_files: the files that were listed, one read after the other.  What  *)
(* counts for the limit (total) is the text of the matches, what the agent  *)
(* gets (chars) has their places besides.                                   *)
Grep(c) ==
  /\ Begin(c, [op |-> "grep", todo |-> {f \in File : file[f] # None}, lines |-> 0, total |-> 0,
               chars |-> 0, full |-> FALSE])
  /\ UNCHANGED <<hub, tools, file, crossed>>

Found(r, n, place) ==
  IF r.full \/ r.lines >= GREP_LIMIT THEN r
  ELSE [r EXCEPT !.lines = r.lines + 1, !.total = r.total + n, !.chars = r.chars + place + n,
                 !.full = r.total + n >= GREP_TOTAL_CHARS]
TakeWhole(r, l, place) == Found(r, Length[l], place)
Take(r, l, place) == Found(r, Cut(Length[l], GREP_LINE_CHARS, Note.line), place)
Searched(r, t, at) ==
  LET upto[k \in 0..Len(t)] == IF k = 0 THEN r ELSE Take(upto[k - 1], t[k], at[k])
  IN  upto[Len(t)]
GrepFile(c, f) ==
  /\ call[c].op = "grep" /\ f \in call[c].todo /\ ~call[c].full /\ call[c].lines < GREP_LIMIT
  /\ LET r == IF file[f] = None THEN call[c] ELSE Searched(call[c], file[f], Place[f])
     IN  call' = [call EXCEPT ![c] = [r EXCEPT !.todo = call[c].todo \ {f}]]
  /\ UNCHANGED <<hub, tools, file, crossed>>
GrepEnds(c) ==
  /\ call[c].op = "grep" /\ (call[c].todo = {} \/ call[c].full \/ call[c].lines >= GREP_LIMIT)
  /\ IF call[c].lines = 0 THEN Done(c)
     ELSE Return(c, [op |-> "answer", is |-> "matches", lines |-> call[c].lines,
                     chars |-> call[c].chars + (IF call[c].full THEN Note.search ELSE 0)])
  /\ UNCHANGED <<hub, tools, file, crossed>>

(* The agent has the answer.                                                *)
Answered(c) ==
  /\ call[c].op = "answer" /\ Done(c)
  /\ UNCHANGED <<hub, tools, file, crossed>>

Next ==
  \/ \E s \in Server : Connect(s)
  \/ \E i \in Item : Assemble(i)
  \/ ItemEnds
  \/ \E c \in Call, f \in File :
       \/ \E t \in Text : WriteFile(c, f, t)
       \/ ReadFile(c, f) \/ GrepFile(c, f)
       \/ \E old, new \in Line : Edit(c, f, old, new)
  \/ \E c \in Call : WriteEdit(c) \/ ListFiles(c) \/ Grep(c) \/ GrepEnds(c) \/ Answered(c)

Spec == Init /\ [][Next]_vars

-----------------------------------------------------------------------------
(* An edit of a file nobody else changed meanwhile replaces the one place   *)
(* where the old text stands, by exactly the new text unless that holds a   *)
(* replacement pattern, and leaves the rest of the file as it is.           *)
ExactEdit(c) ==
  call[c].op = "edit" /\ call'[c] = Idle /\ call[c].f \notin crossed' =>
    LET f == call[c].f  at == Hits(file[f], call[c].old) IN
      /\ Cardinality(at) = 1
      /\ \A k \in DOMAIN file[f] :
           IF k \notin at THEN file'[f][k] = file[f][k]
           ELSE call[c].new \notin Pattern => file'[f][k] = call[c].new
EditsAreExact == \A c \in Call : ExactEdit(c)

(* Whatever the files hold, and however they change under a search, what a  *)
(* tool returns has a bound: the limit that is named for it, and what the   *)
(* limit does not count, that is the notes, one line too many and the       *)
(* places of the matches.                                                   *)
MostText == GREP_TOTAL_CHARS + GREP_LINE_CHARS + Note.line
InBounds(r) ==
  CASE r.is = "text" -> r.chars <= READ_FILE_CHARS + Note.file
    [] r.is = "list" -> r.lines <= LIST_LIMIT
    [] r.is = "matches" ->
         /\ r.lines <= GREP_LIMIT
         /\ r.chars < MostText + r.lines * LONGEST_PLACE + Note.search
ResultsFitTheContext == \A c \in Call : call[c].op = "answer" => InBounds(call[c])

-----------------------------------------------------------------------------
(* What makes them inductive.                                               *)

Edits == [op : {"edit"}, f : File, read : Text, old : Line, new : Line]
Searches == [op : {"grep"}, todo : SUBSET File, lines : 0..GREP_LIMIT, total : Nat, chars : Nat,
             full : BOOLEAN]
Answers ==
  [op : {"answer"}, is : {"text", "matches"}, lines : Nat, chars : Nat]
    \union [op : {"answer"}, is : {"list"}, lines : Nat, cut : BOOLEAN, chars : Nat]

TypeOK ==
  /\ file \in [File -> Text \union {None}]
  /\ call \in [Call -> {Idle} \union Edits \union Searches \union Answers]

(* An edit has read a text with one place for it; a search that is not full *)
(* has room for one more line.                                              *)
OnePlace(r) == r.op = "edit" => Cardinality(Hits(r.read, r.old)) = 1
Fits(r) ==
  /\ r.total < MostText
  /\ ~r.full => r.total < GREP_TOTAL_CHARS
  /\ r.chars <= r.total + r.lines * LONGEST_PLACE

ToolsetInv ==
  /\ TypeOK /\ ResultsFitTheContext
  /\ \A c \in Call : OnePlace(call[c]) /\ (call[c].op = "grep" => Fits(call[c]))

=============================================================================
