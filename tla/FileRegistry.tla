---------------------------- MODULE FileRegistry ----------------------------
(***************************************************************************)
(* A registry in one JSON file, as FileEmployeeStore, FileCapabilityStore, *)
(* FileChannelStore and FileSkillStore keep it: a cache that is loaded     *)
(* once, a queue that lets one change at a time through, and a flush that  *)
(* writes a temporary file and renames it.                                 *)
(*                                                                         *)
(* The console serves from the SQL stores now (http/server.ts); these are  *)
(* kept for what older instances left in files.                            *)
(*                                                                         *)
(* A reader loads the cache outside the queue.  The file may be damaged    *)
(* from outside, a write may fail, and the process may die at any step.    *)
(***************************************************************************)
EXTENDS Naturals, Sequences

CONSTANTS
  Id, Value,
  Seed,       \* the presets: [Id -> Value \union {None}]
  Reader,     \* bound: readers whose load is under way
  MaxQueue,   \* bound: changes that wait
  None

VARIABLES
  file,    \* [is: "absent", "damaged" or "whole", content]
  cache,   \* None or a content
  queue,   \* changes, the first one under way
  stage,   \* of the first one: "wait", "loading", "changed", "written"
  loaded,  \* what its load read, or the content it writes
  reader,  \* what the load of a reader has read, or None
  stored,  \* history: id -> values the last answered change, and every failed
           \* or interrupted one since, gave it
  stale    \* history: a reader put back a cache that a change had replaced

vars == <<file, cache, queue, stage, loaded, reader, stored, stale>>

Content == [Id -> Value \union {None}]
Empty == [i \in Id |-> None]
Change == [op : {"put", "edit"}, id : Id, v : Value]
            \union [op : {"remove"}, id : Id, v : {None}]
            \union {[op |-> "seed"]}

Init ==
  /\ file = [is |-> "absent", content |-> Empty] /\ cache = None
  /\ queue = <<>> /\ stage = "wait" /\ loaded = None
  /\ reader = [r \in Reader |-> None]
  /\ stored = [i \in Id |-> {None}] /\ stale = FALSE

FileAssumption == Seed \in Content /\ None \notin Content

-----------------------------------------------------------------------------
Has(i, c) == c[i] # None
\* upsert; setEnabled and review; remove
Applies(ch, c) == ch.op \in {"edit", "remove"} => Has(ch.id, c)
Apply(ch, c) == [c EXCEPT ![ch.id] = ch.v]

Dequeue == queue' = Tail(queue) /\ stage' = "wait" /\ loaded' = None

\* The change is answered with an error, or with the process: it may be kept.
Given(ch, i) == IF ch.op = "seed" THEN Seed[i] ELSE ch.v
Touched(ch) == IF ch.op = "seed" THEN Id ELSE {ch.id}
Unanswered(ch) ==
  [i \in Id |-> IF i \in Touched(ch) THEN stored[i] \union {Given(ch, i)} ELSE stored[i]]

-----------------------------------------------------------------------------
Request(ch) ==
  /\ Len(queue) < MaxQueue /\ queue' = Append(queue, ch)
  /\ UNCHANGED <<file, cache, stage, loaded, reader, stored, stale>>

(* load: the file is read when there is no cache yet; only a missing file   *)
(* is taken for an empty registry.                                          *)
BeginLoad ==
  /\ queue # <<>> /\ stage = "wait" /\ Head(queue).op # "seed" /\ cache = None
  /\ \/ file.is # "damaged" /\ stage' = "loading" /\ loaded' = file.content /\ UNCHANGED queue
     \/ file.is = "damaged" /\ Dequeue
  /\ UNCHANGED <<file, cache, reader, stored, stale>>

(* The change is made in the cache; the request that changes nothing ends.  *)
Make(c) ==
  LET ch == Head(queue) IN
  /\ cache' = IF Applies(ch, c) THEN Apply(ch, c) ELSE c
  /\ IF Applies(ch, c) THEN stage' = "changed" /\ loaded' = Apply(ch, c) /\ UNCHANGED queue
     ELSE Dequeue
MakeChange ==
  /\ queue # <<>> /\ Head(queue).op # "seed"
  /\ \/ stage = "wait" /\ cache # None /\ Make(cache)
     \/ stage = "loading" /\ Make(loaded)
  /\ UNCHANGED <<file, reader, stored, stale>>

(* ensureSeed, seedFrom: the file decides, not the cache.                   *)
SeedDamaged ==
  /\ queue # <<>> /\ stage = "wait" /\ Head(queue).op = "seed"
  /\ IF file.is # "whole" THEN cache' = Seed /\ stage' = "changed" /\ loaded' = Seed /\ UNCHANGED queue
     ELSE Dequeue /\ UNCHANGED cache
  /\ UNCHANGED <<file, reader, stored, stale>>
SeedFile ==
  /\ queue # <<>> /\ stage = "wait" /\ Head(queue).op = "seed"
  /\ IF file.is = "absent" THEN cache' = Seed /\ stage' = "changed" /\ loaded' = Seed /\ UNCHANGED queue
     ELSE Dequeue /\ UNCHANGED cache
  /\ UNCHANGED <<file, reader, stored, stale>>

(* flush: the temporary file, then its name; either may fail.               *)
WriteTmp ==
  /\ stage = "changed" /\ stage' = "written"
  /\ UNCHANGED <<file, cache, queue, loaded, reader, stored, stale>>
Rename ==
  /\ stage = "written" /\ file' = [is |-> "whole", content |-> loaded]
  /\ stored' = [i \in Id |-> IF i \in Touched(Head(queue)) THEN {loaded[i]} ELSE stored[i]]
  /\ Dequeue
  /\ UNCHANGED <<cache, reader, stale>>
FlushSwallowed ==
  /\ stage \in {"changed", "written"}
  /\ stored' = [i \in Id |-> IF i \in Touched(Head(queue)) THEN {loaded[i]} ELSE stored[i]]
  /\ Dequeue
  /\ UNCHANGED <<file, cache, reader, stale>>
FlushFails ==
  /\ stage \in {"changed", "written"}
  /\ stored' = Unanswered(Head(queue))
  /\ Dequeue
  /\ UNCHANGED <<file, cache, reader, stale>>

-----------------------------------------------------------------------------
(* list and get: the same load, beside the queue.                           *)
ReadFile(r) ==
  /\ cache = None /\ reader[r] = None /\ file.is # "damaged"
  /\ reader' = [reader EXCEPT ![r] = file.content]
  /\ UNCHANGED <<file, cache, queue, stage, loaded, stored, stale>>
KeepRead(r) ==
  /\ reader[r] # None
  /\ cache' = reader[r] /\ reader' = [reader EXCEPT ![r] = None]
  /\ stale' = (stale \/ (cache # None /\ cache # reader[r]))
  /\ UNCHANGED <<file, queue, stage, loaded, stored>>

Damage ==
  /\ file.is = "whole" /\ file' = [file EXCEPT !.is = "damaged"]
  /\ UNCHANGED <<cache, queue, stage, loaded, reader, stored, stale>>

Crash ==
  /\ cache' = None /\ queue' = <<>> /\ stage' = "wait" /\ loaded' = None
  /\ reader' = [r \in Reader |-> None]
  /\ stored' = IF stage \in {"changed", "written"} THEN Unanswered(Head(queue)) ELSE stored
  /\ UNCHANGED <<file, stale>>

Next ==
  \/ \E ch \in Change : Request(ch)
  \/ BeginLoad \/ MakeChange \/ SeedFile \/ WriteTmp \/ Rename \/ FlushFails
  \/ \E r \in Reader : ReadFile(r) \/ KeepRead(r)
  \/ Damage \/ Crash

Spec == Init /\ [][Next]_vars

-----------------------------------------------------------------------------
(* Whatever waits, fails or dies: the file is never half a registry, and    *)
(* of every id it holds what the last answered change gave it, or what a    *)
(* change that failed since would have - unless a slow reader put an older  *)
(* cache back.                                                              *)
AnsweredIsStored ==
  ~stale /\ file.is # "damaged" => \A i \in Id : file.content[i] \in stored[i]

Unread ==
  /\ file.is = "damaged" /\ cache = None /\ loaded = None
  /\ \A r \in Reader : reader[r] = None

(* A file that cannot be read is not taken for an empty one: a process that *)
(* has not read the registry before it broke never replaces it.             *)
KeepsDamaged == Unread => file' = file /\ cache' = None

-----------------------------------------------------------------------------
(* What makes them inductive.                                               *)

TypeOK ==
  /\ file \in [is : {"absent", "damaged", "whole"}, content : Content]
  /\ cache \in Content \union {None} /\ queue \in Seq(Change)
  /\ stage \in {"wait", "loading", "changed", "written"} /\ stale \in BOOLEAN
  /\ reader \in [Reader -> Content \union {None}] /\ stored \in [Id -> SUBSET (Value \union {None})]
  /\ IF stage = "wait" THEN loaded = None ELSE queue # <<>> /\ loaded \in Content
  /\ stage = "loading" => Head(queue).op # "seed"
  /\ stage \in {"changed", "written"} => cache # None

Kept(c) == \A i \in Id : c[i] \in stored[i]

(* The one change under way is in the cache before it is answered; nothing  *)
(* else in it, and nothing a reader holds while there is no cache, differs  *)
(* from what was answered.                                                  *)
CacheIsCurrent ==
  /\ stage \in {"wait", "loading"} /\ cache # None => Kept(cache)
  /\ stage = "loading" => Kept(loaded)
  /\ stage \in {"changed", "written"} =>
       /\ cache = loaded
       /\ \A i \in Id : IF i \in Touched(Head(queue)) THEN loaded[i] = Given(Head(queue), i)
                         ELSE loaded[i] \in stored[i]
  /\ cache = None => \A r \in Reader : reader[r] # None => Kept(reader[r])

FilesInv == TypeOK /\ (~stale => AnsweredIsStored /\ CacheIsCurrent)

=============================================================================
