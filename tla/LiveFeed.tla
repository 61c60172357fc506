------------------------------ MODULE LiveFeed ------------------------------
(***************************************************************************)
(* The live view of an employee: the stored events, the stream of the      *)
(* server that polls them (sse.ts), the one EventSource of the console     *)
(* (live.ts) and the page that merges pushed events with fetched history   *)
(* (EmployeeLive.vue).                                                     *)
(*                                                                         *)
(* Time stamps are numbers; 0 is any time before the console subscribed    *)
(* (agentSince is 1).  An event may be stored after others with a later    *)
(* time stamp: appends wait for the chain's lock.                          *)
(***************************************************************************)
EXTENDS Naturals, FiniteSets, SequencesExt

CONSTANTS
  Events,    \* the events that may be stored: [id, emp, ts]
  Employee,
  MaxGets,   \* bound: GETs of the page in flight
  NoOne,     \* no employee chosen: everybody's events are shown
  NoTs       \* no since: the whole history

ASSUME FeedAssumption ==
  /\ NoOne \notin Employee /\ MaxGets \in Nat
  /\ \A e \in Events : e.emp \in Employee /\ e.ts \in Nat

VARIABLES
  stored,    \* ddw_events by seq: <<[id, emp, ts], ...>>
  stream,    \* the server's loop: [open, since, pushed]
  wire,      \* frames written and not yet read by the EventSource
  seen,      \* live.ts seenIds: events handed to the listeners
  connected, \* live.ts agentState.connected
  cur,       \* currentId
  shown,     \* events of the page
  history,   \* historyLoaded
  sseLive,
  gets,      \* GETs of load() under way: [emp, since, st, rows]; rows in the order of the table
  base,      \* history: how many events were stored when cur was selected
  spoiled    \* history: a GET failed since cur was selected

serverVars == <<stored, stream>>
liveVars == <<wire, seen, connected>>
pageVars == <<cur, shown, history, sseLive, gets, base, spoiled>>
vars == <<serverVars, liveVars, pageVars>>

-----------------------------------------------------------------------------
(* SqlEventStore.list: ts >= since, by (ts, seq).  What is stored later     *)
(* does not change the order of two rows.                                   *)
Place(e) == CHOOSE i \in DOMAIN stored : stored[i] = e
Before(e, f) == e.ts < f.ts \/ (e.ts = f.ts /\ Place(e) < Place(f))
List(emp, since) ==
  {e \in ToSet(stored) : (emp = NoOne \/ e.emp = emp) /\ (since = NoTs \/ e.ts >= since)}
InOrder(rows) ==
  [i \in 1..Cardinality(rows) |->
     CHOOSE e \in rows : Cardinality({f \in rows : Before(f, e)}) = i - 1]

Init ==
  /\ stored = <<>>
  /\ stream = [open |-> FALSE, since |-> 1, pushed |-> {}]
  /\ wire = <<>> /\ seen = {} /\ connected = FALSE
  /\ cur = NoOne /\ shown = <<>> /\ history = FALSE /\ sseLive = FALSE
  /\ gets = {} /\ base = 0 /\ spoiled = FALSE

Store(e) ==
  /\ \A i \in DOMAIN stored : stored[i].id # e.id
  /\ stored' = Append(stored, e)
  /\ UNCHANGED <<stream, liveVars, pageVars>>

-----------------------------------------------------------------------------
(* The server's loop and the EventSource.                                  *)

(* EventSource connects, or connects again: always with the same URL        *)
ConnectResumed ==
  /\ ~stream.open
  /\ stream' = [stream EXCEPT !.open = TRUE]
  /\ wire' = <<>>
  /\ UNCHANGED <<stored, seen, connected, pageVars>>
Connect ==
  /\ ~stream.open
  /\ stream' = [open |-> TRUE, since |-> 1, pushed |-> {}]
  /\ wire' = <<>>
  /\ UNCHANGED <<stored, seen, connected, pageVars>>

(* One round: list from the cursor on, push what was not pushed before; the *)
(* cursor is the time stamp of the last frame.                              *)
Fresh == {e \in List(NoOne, stream.since) : e.id \notin stream.pushed}

Round ==
  /\ stream.open /\ Fresh # {}
  /\ wire' = wire \o InOrder(Fresh)
  /\ stream' = [stream EXCEPT !.since = Last(InOrder(Fresh)).ts,
                              !.pushed = stream.pushed \union {e.id : e \in Fresh}]
  /\ UNCHANGED <<stored, seen, connected, pageVars>>

(* The deadline of the loop; everything written is read, then onerror       *)
Deadline ==
  /\ stream.open /\ wire = <<>>
  /\ stream' = [stream EXCEPT !.open = FALSE]
  /\ connected' = FALSE
  /\ UNCHANGED <<stored, wire, seen, pageVars>>

(* The connection breaks: the frames on the way are lost                    *)
Break ==
  /\ stream.open
  /\ stream' = [stream EXCEPT !.open = FALSE]
  /\ wire' = <<>> /\ connected' = FALSE
  /\ UNCHANGED <<stored, seen, pageVars>>

Ids(rows) == {rows[i].id : i \in DOMAIN rows}

(* A frame: replayed ones are dropped by id, others go to the page, which   *)
(* drops those of other employees and those it shows already (ingest).      *)
Receive ==
  /\ wire # <<>>
  /\ LET e == Head(wire) IN
       /\ seen' = seen \union {e.id}
       /\ IF e.id \in seen THEN UNCHANGED <<sseLive, shown>>
          ELSE /\ sseLive' = TRUE
               /\ shown' = IF cur \in {NoOne, e.emp} /\ e.id \notin Ids(shown)
                           THEN Append(shown, e) ELSE shown
  /\ wire' = Tail(wire) /\ connected' = TRUE
  /\ UNCHANGED <<serverVars, cur, history, gets, base, spoiled>>

-----------------------------------------------------------------------------
(* The page.                                                               *)

LastTs(list) == IF list = <<>> THEN NoTs ELSE Last(list).ts

(* load() asks from the last event of the list on                           *)
Request(emp, list) ==
  /\ Cardinality(gets) < MaxGets
  /\ gets' = gets \union {[emp |-> emp, since |-> LastTs(list), st |-> "asked", rows |-> {}]}

(* the interval: nothing to do while events are pushed and the history is there *)
Poll ==
  /\ ~((sseLive \/ connected) /\ history)
  /\ Request(cur, shown)
  /\ UNCHANGED <<serverVars, liveVars, cur, shown, history, sseLive, base, spoiled>>

(* the roster arrives: the list keeps what was pushed meanwhile             *)
LoadRoster(e) ==
  /\ cur = NoOne /\ cur' = e
  /\ Request(e, shown)
  /\ UNCHANGED <<serverVars, liveVars, shown, history, sseLive, base, spoiled>>

SelectFromHere(e) ==
  /\ cur \notin {NoOne, e} /\ cur' = e
  /\ shown' = <<>> /\ history' = FALSE
  /\ Request(e, shown)
  /\ base' = Len(stored) /\ spoiled' = FALSE
  /\ UNCHANGED <<serverVars, liveVars, sseLive>>
SelectEmployee(e) ==
  /\ cur \notin {NoOne, e} /\ cur' = e
  /\ shown' = <<>> /\ history' = FALSE
  /\ Request(e, <<>>)
  /\ base' = Len(stored) /\ spoiled' = FALSE
  /\ UNCHANGED <<serverVars, liveVars, sseLive>>

(* GET /api/events *)
Answer(g) ==
  /\ g.st = "asked"
  /\ gets' = (gets \ {g}) \union {[g EXCEPT !.st = "answered", !.rows = List(g.emp, g.since)]}
  /\ UNCHANGED <<serverVars, liveVars, cur, shown, history, sseLive, base, spoiled>>

(* the answer is dropped when another employee is watched by now            *)
ArriveAll(g) ==
  /\ g.st = "answered"
  /\ gets' = gets \ {g}
  /\ IF cur = g.emp THEN shown' = shown \o InOrder(g.rows) /\ history' = TRUE
                   ELSE UNCHANGED <<shown, history>>
  /\ UNCHANGED <<serverVars, liveVars, cur, sseLive, base, spoiled>>
Arrive(g) ==
  /\ g.st = "answered"
  /\ gets' = gets \ {g}
  /\ IF cur = g.emp
       THEN /\ shown' = shown \o InOrder({e \in g.rows : e.id \notin Ids(shown)})
            /\ history' = TRUE
       ELSE UNCHANGED <<shown, history>>
  /\ UNCHANGED <<serverVars, liveVars, cur, sseLive, base, spoiled>>

Fail(g) ==
  /\ gets' = gets \ {g} /\ spoiled' = TRUE
  /\ UNCHANGED <<serverVars, liveVars, cur, shown, history, sseLive, base>>

-----------------------------------------------------------------------------
Next ==
  \/ \E e \in Events : Store(e)
  \/ Connect \/ Round \/ Deadline \/ Break \/ Receive
  \/ Poll
  \/ \E e \in Employee : LoadRoster(e) \/ SelectEmployee(e)
  \/ \E g \in gets : Answer(g) \/ Arrive(g) \/ Fail(g)

(* Timers fire, frames and answers arrive, a stream ends at its deadline at *)
(* the latest and EventSource connects again.  A connection that lives long *)
(* enough for a round, and for all it wrote, comes again and again (strong  *)
(* fairness), and so does an answer.                                        *)
Fairness ==
  /\ WF_vars(Connect) /\ WF_vars(Deadline) /\ SF_vars(Round)
  /\ SF_vars(Receive) /\ SF_vars(Receive /\ Len(wire) = 1)
  /\ WF_vars(Poll)
  /\ WF_vars(\E g \in gets : Answer(g)) /\ WF_vars(\E g \in gets : Arrive(g))

Spec == Init /\ [][Next]_vars /\ Fairness

-----------------------------------------------------------------------------
(* Properties.                                                             *)

TypeOK ==
  /\ stream.open \in BOOLEAN /\ stream.pushed \subseteq Ids(stored)
  /\ seen \subseteq Ids(stored)
  /\ cur \in Employee \union {NoOne}
  /\ {connected, history, sseLive, spoiled} \subseteq BOOLEAN
  /\ Cardinality(gets) <= MaxGets

(* The page shows no event twice, whichever of the stream, a replay after a *)
(* reconnect and two overlapping fetches brings it.                         *)
ShownOnce == \A i, k \in DOMAIN shown : shown[i].id = shown[k].id => i = k

(* An event that is stored late, behind the cursor of the open stream, does *)
(* reach the console: the next connection starts from the old since.        *)
LateEventArrives ==
  \A e \in Events : e \in ToSet(stored) /\ e.ts > 0 ~> e.id \in seen

(* The page of the employee watched becomes complete: events since the      *)
(* subscription, and all there were when the employee was selected.         *)
Due(e) ==
  /\ cur = e.emp
  /\ \E i \in DOMAIN stored : stored[i] = e /\ (e.ts > 0 \/ i <= base)
ViewIsComplete ==
  \A e \in Events : Due(e) ~> e \in ToSet(shown) \/ cur # e.emp \/ spoiled

-----------------------------------------------------------------------------
(* What makes them inductive: ids are unique, and what is pushed, fetched   *)
(* or shown is stored.                                                      *)
Query == [emp : Employee \union {NoOne}, since : Nat \union {NoTs}, st : {"asked", "answered"},
          rows : SUBSET Events]
Once(list) == \A i, k \in DOMAIN list : list[i].id = list[k].id => i = k
FeedInv ==
  /\ TypeOK /\ ShownOnce
  /\ stored \in Seq(Events) /\ Once(stored)
  /\ stream \in [open : BOOLEAN, since : Nat, pushed : SUBSET Ids(stored)]
  /\ wire \in Seq(ToSet(stored)) /\ shown \in Seq(ToSet(stored))
  /\ IsFiniteSet(gets) /\ gets \subseteq Query /\ \A g \in gets : g.rows \subseteq ToSet(stored)
=============================================================================
