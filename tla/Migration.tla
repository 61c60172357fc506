----------------------------- MODULE Migration -----------------------------
(***************************************************************************)
(* The one-off migration of the old files into an SQL database             *)
(* (runMigration), two of which an operator may start at once and start    *)
(* again after a failure, beside a console that starts on the same target  *)
(* and seeds its presets.  A step is one statement or one file.            *)
(*                                                                         *)
(* A source row is "key", "twin" (the same primary key a second time) or   *)
(* "bare" (no usable key).  A row of the target carries who put it there.  *)
(***************************************************************************)
EXTENDS Naturals, Sequences, FiniteSets

CONSTANTS
  Migrator,  \* commands an operator may have running
  Server,    \* the console that starts on the target
  Tables,    \* the domains, in the order in which they are imported
  Contents,  \* what a source may be: [form |-> "absent", "broken", "shapeless" or "rows", rows]
  Strict,    \* domains whose shape is checked inside the transaction (skills)
  Renamed,   \* domains whose bare rows get an id of their own (messages)
  Preset     \* domains a console seeds when it finds them empty

VARIABLES
  source,  \* domain -> its old file, which nobody writes
  column,  \* ddw_tasks.created_at: "none" (no table), "old" (missing), "added", "filled"
  table,   \* domain -> committed rows [by, row]
  run,     \* process -> [at, i, left, put, n, bad]
  marker   \* who has written migrated-<driver>.marker

vars == <<source, column, table, run, marker>>

Domain == {Tables[i] : i \in DOMAIN Tables}
Row == {"key", "twin", "bare"}
MigrationAssumption ==
  /\ Tables \in Seq(Domain) /\ Tables # << >>
  /\ \A c \in Contents : c.form = "rows" => c.rows \subseteq Row
  /\ Server \notin Migrator /\ Preset \subseteq Domain

Process == Migrator \union {Server}
Fresh == [at |-> "out", i |-> 1, left |-> {}, put |-> {}, n |-> 0, bad |-> 0]

Init ==
  /\ source \in [Domain -> Contents]
  /\ column \in {"none", "old", "filled"}
  /\ table = [d \in Domain |-> {}]
  /\ run = [p \in Process |-> Fresh] /\ marker = {}

At(p, at) == run[p].at = at
Becomes(p, q) == run' = [run EXCEPT ![p] = q]
Goto(p, at) == Becomes(p, [run[p] EXCEPT !.at = at])
Current(p) == Tables[run[p].i]
Rows(d) == IF source[d].form = "rows" THEN source[d].rows ELSE {}
Good(d) == Rows(d) \ (IF d \in Renamed THEN {} ELSE {"bare"})

\* rows with the primary key of row r
SameKey(r) == IF r = "bare" THEN {} ELSE {"key", "twin"}
Committed(d, r) == \E x \in table[d] : x.row \in SameKey(r)
Pending(p, d, r) == \E x \in run[p].put : x[1] = d /\ x[2] \in SameKey(r)

-----------------------------------------------------------------------------
\* runMigration resolves the target: the source itself, or no mysql section, is refused.
\* A command that ended, however it ended, may be given again
Command(m) ==
  /\ At(m, "out") \/ At(m, "over")
  /\ \E at \in {"over", "schema"} : Becomes(m, [Fresh EXCEPT !.at = at])
  /\ UNCHANGED <<source, column, table, marker>>

\* the error goes to the exit code; an open transaction is rolled back
Fail(p) == Becomes(p, [run[p] EXCEPT !.at = "over", !.put = {}, !.left = {}])

ServerStart ==
  /\ At(Server, "out") /\ Goto(Server, "schema")
  /\ UNCHANGED <<source, column, table, marker>>

\* CREATE TABLE IF NOT EXISTS alone, which leaves an old table as it is
CreateTablesOnly(p) ==
  /\ At(p, "schema") /\ column' = (IF column = "none" THEN "filled" ELSE column)
  /\ Goto(p, "check")
  /\ UNCHANGED <<source, table, marker>>
\* ensureSchema: CREATE TABLE IF NOT EXISTS, then the columns an old table lacks
CreateTables(p) ==
  /\ At(p, "schema")
  /\ IF column = "none" THEN column' = "filled" ELSE UNCHANGED column
  /\ Goto(p, IF column = "old" THEN "alter" ELSE "check")
  /\ UNCHANGED <<source, table, marker>>

\* a second ALTER of the same column is an error
AddColumn(p) ==
  /\ At(p, "alter")
  /\ IF column = "old" THEN column' = "added" /\ Goto(p, "fill") ELSE UNCHANGED column /\ Fail(p)
  /\ UNCHANGED <<source, table, marker>>
FillColumn(p) ==
  /\ At(p, "fill") /\ column' = "filled" /\ Goto(p, "check")
  /\ UNCHANGED <<source, table, marker>>

\* one COUNT per table; a row in any of them refuses the migration
CheckEmpty(m) ==
  /\ At(m, "check") /\ m # Server
  /\ IF table[Current(m)] # {} THEN Fail(m)
     ELSE IF run[m].i < Len(Tables) THEN Becomes(m, [run[m] EXCEPT !.i = run[m].i + 1])
     ELSE Becomes(m, [run[m] EXCEPT !.i = 1, !.at = "read"])
  /\ UNCHANGED <<source, column, table, marker>>

\* every source is read and parsed before the transaction begins
ReadSources(m) ==
  /\ At(m, "read")
  /\ IF \E d \in Domain : source[d].form = "broken" THEN Fail(m)
     ELSE Becomes(m, [run[m] EXCEPT !.at = "tx", !.left = Rows(Tables[1])])
  /\ UNCHANGED <<source, column, table, marker>>

Refused(m, d) == d \in Strict /\ source[d].form = "shapeless"
\* no transaction around the rows: each is committed as it is written
InsertAtOnce(m) ==
  /\ At(m, "tx")
  /\ \E r \in run[m].left \cap Good(Current(m)) : LET d == Current(m) IN
       IF Committed(d, r) THEN Fail(m) /\ UNCHANGED table
       ELSE /\ Becomes(m, [run[m] EXCEPT !.left = run[m].left \ {r}, !.n = run[m].n + 1])
            /\ table' = [table EXCEPT ![d] = @ \union {[by |-> m, row |-> r]}]
  /\ UNCHANGED <<source, column, marker>>

\* one row of the current domain; an insert waits for another transaction with its key
Insert(m) ==
  /\ At(m, "tx")
  /\ \E r \in run[m].left : LET d == Current(m) IN
       /\ \A p \in Process \ {m} : ~Pending(p, d, r)
       /\ IF r \notin Good(d)
          THEN Becomes(m, [run[m] EXCEPT !.left = run[m].left \ {r}, !.bad = run[m].bad + 1])
          ELSE IF Committed(d, r) \/ Pending(m, d, r) THEN Fail(m)
          ELSE Becomes(m, [run[m] EXCEPT !.left = run[m].left \ {r}, !.n = run[m].n + 1,
                                         !.put = run[m].put \union {<<d, r>>}])
  /\ UNCHANGED <<source, column, table, marker>>

NextDomain(m) ==
  /\ At(m, "tx") /\ run[m].left = {}
  /\ IF Refused(m, Current(m)) THEN Fail(m)
     ELSE /\ run[m].i < Len(Tables)
          /\ Becomes(m, [run[m] EXCEPT !.i = run[m].i + 1, !.left = Rows(Tables[run[m].i + 1])])
  /\ UNCHANGED <<source, column, table, marker>>

Commit(m) ==
  /\ At(m, "tx") /\ run[m].left = {} /\ run[m].i = Len(Tables) /\ ~Refused(m, Current(m))
  /\ table' = [d \in Domain |-> table[d] \union {[by |-> m, row |-> x[2]] : x \in {y \in run[m].put : y[1] = d}}]
  /\ Becomes(m, [run[m] EXCEPT !.at = "mark", !.put = {}])
  /\ UNCHANGED <<source, column, marker>>

Mark(m) ==
  /\ At(m, "mark") /\ Goto(m, "over") /\ marker' = marker \union {m}
  /\ UNCHANGED <<source, column, table>>

\* ensureSeed of the console: one transaction that counts, then upserts its presets.  A row
\* that another transaction committed in between under the same key is overwritten
SeedLook ==
  /\ At(Server, "check")
  /\ \E d \in Preset : IF table[d] = {} THEN Becomes(Server, [run[Server] EXCEPT !.at = "seed", !.left = {d}])
                       ELSE Goto(Server, "over")
  /\ UNCHANGED <<source, column, table, marker>>
SeedPut ==
  /\ At(Server, "seed")
  /\ \E d \in run[Server].left :
       /\ \A m \in Migrator : ~Pending(m, d, "key")
       /\ table' = [table EXCEPT ![d] = {x \in @ : x.row \notin SameKey("key")}
                                        \union {[by |-> Server, row |-> "key"]}]
  /\ Becomes(Server, [run[Server] EXCEPT !.at = "over", !.left = {}])
  /\ UNCHANGED <<source, column, marker>>

\* a process dies; the database drops its open transaction
Die(p) ==
  /\ ~At(p, "out") /\ ~At(p, "over") /\ Fail(p)
  /\ UNCHANGED <<source, column, table, marker>>

Next ==
  \/ \E p \in Process : CreateTables(p) \/ AddColumn(p) \/ FillColumn(p) \/ Die(p)
  \/ \E m \in Migrator : \/ Command(m) \/ CheckEmpty(m) \/ ReadSources(m)
                         \/ Insert(m) \/ NextDomain(m) \/ Commit(m) \/ Mark(m)
  \/ ServerStart \/ SeedLook \/ SeedPut

Spec == Init /\ [][Next]_vars

-----------------------------------------------------------------------------
\* rows of m that are in the target, or whose key the console's presets have taken over
Arrived(m, d) ==
  {x.row : x \in {y \in table[d] : y.by = m}}
    \union (IF [by |-> Server, row |-> "key"] \in table[d] THEN Good(d) \cap SameKey("key") ELSE {})
Imported(m) == \A d \in Domain : Good(d) \subseteq Arrived(m, d)
Entries == {x \in (DOMAIN Tables) \X Row : x[2] \in Rows(Tables[x[1]])}
Total == Cardinality(Entries)

(* A migration is all or nothing: whatever fails, dies or runs beside it, the target
   holds every usable row of the sources from one command, or none; a marker stands only
   beside a complete import; and the summary accounts for every row of the sources. *)
MigrationIsWhole ==
  /\ \A m \in Migrator : (\E d \in Domain : \E x \in table[d] : x.by = m) => Imported(m)
  /\ \A m \in marker : Imported(m)
  /\ \A m \in Migrator : At(m, "mark") => run[m].n + run[m].bad = Total

(* Nobody counts, reads or writes rows of a schema that lacks a column, although two
   processes may upgrade the same database at once. *)
SchemaBeforeRows ==
  (\E p \in Process : run[p].at \in {"check", "read", "tx", "mark", "seed"}) => column \in {"added", "filled"}

-----------------------------------------------------------------------------
(* What makes them inductive.                                               *)

Stage == {"out", "schema", "alter", "fill", "check", "read", "tx", "mark", "seed", "over"}
TypeOK ==
  /\ source \in [Domain -> Contents]
  /\ column \in {"none", "old", "added", "filled"}
  /\ table \in [Domain -> SUBSET [by : Process, row : Row]]
  /\ run \in [Process -> [at : Stage, i : DOMAIN Tables, left : SUBSET (Row \union Domain),
                          put : SUBSET (Domain \X Row), n : Nat, bad : Nat]]
  /\ marker \subseteq Migrator

(* What a process holds at each of its stages: the rows a transaction has   *)
(* put and those it has left are all the good ones, and the counts and the  *)
(* rows that are left make the total.                                       *)
Unread(q) == {x \in Entries : x[1] > q.i \/ (x[1] = q.i /\ x[2] \in q.left)}
Early(q) == q.at \in {"schema", "alter", "fill", "check", "read"}
Sorted(q) ==
  /\ q.at = "read" => q.i = 1
  /\ Early(q) => q.n = 0 /\ q.bad = 0 /\ q.put = {}
  /\ q.at = "tx" =>
       /\ q.left \subseteq Rows(Tables[q.i])
       /\ \A j \in DOMAIN Tables : \A r \in Good(Tables[j]) :
            j < q.i \/ (j = q.i /\ r \notin q.left) => <<Tables[j], r>> \in q.put
       /\ q.n + q.bad + Cardinality(Unread(q)) = Total
  /\ q.at = "mark" => q.n + q.bad = Total

MigrationInv ==
  /\ TypeOK /\ MigrationIsWhole /\ SchemaBeforeRows
  /\ \A p \in Process : /\ At(p, "fill") => column \in {"added", "filled"}
                        /\ At(p, "seed") => p = Server /\ run[p].left \subseteq Domain
  /\ \A m \in Migrator : Sorted(run[m]) /\ (At(m, "mark") => Imported(m))
=============================================================================
