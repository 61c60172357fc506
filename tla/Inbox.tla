------------------------------- MODULE Inbox --------------------------------
(***************************************************************************)
(* The message centre: the decorators of message-hub.ts, the sink of       *)
(* server.ts with its fan-out to the notification channels and the push    *)
(* log, the message table, and the live counts of one console tab.         *)
(*                                                                         *)
(* A notice is one call of EventStore.append or TaskStore.finish that      *)
(* makes a message; those of Review declare a check as well.               *)
(***************************************************************************)
EXTENDS Naturals, FiniteSets

CONSTANTS
  Notice, Channel,
  Review,       \* the notices that declare a check
  Recount,      \* recounts of a connection under way (bound)
  MaxMessages,  \* rows the table keeps (1000 in the code)
  NoCounts      \* nothing was pushed on this connection

ASSUME InboxAssumption ==
  /\ Review \subseteq Notice
  /\ MaxMessages \in Nat \ {0}

VARIABLES
  work,     \* notice -> "none", "stored", "added", "fanning" or "done"
  table,    \* messages kept: notice -> position, 0 when there is no row
  unread,   \* the unread ones among them
  pending,  \* checks waiting for a decision
  push,     \* notice -> channel -> "none", "sending" or "logged", as sent or as failed
  conn,     \* the connection: [st, last], last the counts pushed last
  ask,      \* recount -> [st, val]: "none", "asked", "half" or "read" with the counts
  badge     \* what the tab shows

hubVars == <<work, table, unread, pending, push>>
liveVars == <<conn, ask, badge>>
vars == <<hubVars, liveVars>>

None == [st |-> "none", val |-> NoCounts]
Asked == [st |-> "asked", val |-> NoCounts]
Rows == {n \in Notice : table[n] > 0}
Counts == [unread |-> Cardinality(unread), checks |-> Cardinality(pending)]

Init ==
  /\ work = [n \in Notice |-> "none"]
  /\ table = [n \in Notice |-> 0] /\ unread = {} /\ pending = {}
  /\ push = [n \in Notice |-> [c \in Channel |-> "none"]]
  /\ conn = [st |-> "closed", last |-> NoCounts]
  /\ ask = [r \in Recount |-> None]
  /\ badge = NoCounts

-----------------------------------------------------------------------------
(* The live bus.                                                           *)

(* pushCounts of a subscribed connection: the counts are asked for          *)
StartRecount ==
  IF conn.st # "open" THEN UNCHANGED ask
  ELSE \E r \in Recount : ask[r] = None /\ ask' = [ask EXCEPT ![r] = Asked]

(* The stream counts once, and only then subscribes: what happens between   *)
(* the two reaches this connection with the next recount.                   *)
Connect ==
  /\ conn.st = "closed"
  /\ conn' = [st |-> "opening", last |-> NoCounts]
  /\ \E r \in Recount : ask' = [s \in Recount |-> IF s = r THEN Asked ELSE None]
  /\ UNCHANGED <<hubVars, badge>>

Subscribe ==
  /\ conn.st = "opening" /\ \A r \in Recount : ask[r] = None
  /\ conn' = [conn EXCEPT !.st = "open"]
  /\ UNCHANGED <<hubVars, ask, badge>>

(* the interval that makes up for lost or overtaken recounts                *)
ReconcileOnce ==
  /\ conn.st = "open" /\ conn.last = NoCounts /\ StartRecount
  /\ UNCHANGED <<hubVars, conn, badge>>
Reconcile ==
  /\ conn.st = "open" /\ StartRecount
  /\ UNCHANGED <<hubVars, conn, badge>>

(* liveCounts reads one count after the other (the third, of skills, is left *)
(* out); a failure skips this recount                                       *)
ReadUnread(r) ==
  /\ ask[r].st = "asked"
  /\ ask' = [ask EXCEPT ![r] = [st |-> "half", val |-> [Counts EXCEPT !.checks = 0]]]
  /\ UNCHANGED <<hubVars, conn, badge>>

ReadChecks(r) ==
  /\ ask[r].st = "half"
  /\ ask' = [ask EXCEPT ![r] = [st |-> "read", val |-> [@.val EXCEPT !.checks = Counts.checks]]]
  /\ UNCHANGED <<hubVars, conn, badge>>

CountFails(r) ==
  /\ ask[r].st \in {"asked", "half"} /\ ask' = [ask EXCEPT ![r] = None]
  /\ UNCHANGED <<hubVars, conn, badge>>

(* counts equal to those pushed last are not pushed again                   *)
PushCounts(r) ==
  /\ ask[r].st = "read" /\ ask' = [ask EXCEPT ![r] = None]
  /\ IF ask[r].val = conn.last THEN UNCHANGED <<conn, badge>>
     ELSE conn' = [conn EXCEPT !.last = ask[r].val] /\ badge' = ask[r].val
  /\ UNCHANGED hubVars

(* the deadline of the stream, or a broken connection; the badge stays      *)
Disconnect ==
  /\ conn.st # "closed" /\ conn' = [st |-> "closed", last |-> NoCounts]
  /\ ask' = [r \in Recount |-> None]
  /\ UNCHANGED <<hubVars, badge>>

-----------------------------------------------------------------------------
(* A notice: the wrapped call first, then the sink.                        *)

Commit(n) ==
  /\ work[n] = "none" /\ work' = [work EXCEPT ![n] = "stored"]
  /\ pending' = pending \union ({n} \intersect Review)
  /\ UNCHANGED <<table, unread, push, liveVars>>

AddKeepsOneMore(n) ==
  /\ work[n] = "stored"
  /\ work' = [work EXCEPT ![n] = "added"]
  /\ table' = [table EXCEPT ![n] = 1 + Cardinality(Rows)] /\ unread' = unread \union {n}
  /\ StartRecount
  /\ UNCHANGED <<pending, push, conn, badge>>

(* messages.add: the row and the rolling deletion in one transaction, then  *)
(* the live bus                                                             *)
AddMessage(n) ==
  /\ work[n] = "stored"
  /\ work' = [work EXCEPT ![n] = "added"]
  /\ LET at == 1 + Cardinality({m \in Notice : work[m] \in {"added", "fanning", "done"}})
         kept == {m \in Rows : Cardinality({k \in Rows : table[k] > table[m]}) < MaxMessages - 1}
     IN /\ table' = [m \in Notice |-> IF m = n THEN at ELSE IF m \in kept THEN table[m] ELSE 0]
        /\ unread' = (unread \intersect kept) \union {n}
  /\ StartRecount
  /\ UNCHANGED <<pending, push, conn, badge>>

(* a failing table is logged and the notice is over: nobody is told         *)
AddFails(n) ==
  /\ work[n] = "stored"
  /\ work' = [work EXCEPT ![n] = "done"]
  /\ UNCHANGED <<table, unread, pending, push, liveVars>>

(* the channels that are enabled by now are read, and all of them called    *)
FanOut(n) ==
  /\ work[n] = "added" /\ work' = [work EXCEPT ![n] = "fanning"]
  /\ \E enabled \in SUBSET Channel :
       push' = [push EXCEPT ![n] = [c \in Channel |-> IF c \in enabled THEN "sending" ELSE "none"]]
  /\ UNCHANGED <<table, unread, pending, liveVars>>

(* a channel answers, refuses, or is given up after ten seconds; either way *)
(* one line in the push log, whose own failure is ignored                   *)
ChannelIsBusy(n, c) ==
  /\ push[n][c] = "sending" /\ \A m \in Notice \ {n} : push[m][c] # "sending"
  /\ push' = [push EXCEPT ![n][c] = "logged"]
  /\ UNCHANGED <<work, table, unread, pending, liveVars>>
ChannelAnswers(n, c) ==
  /\ push[n][c] = "sending"
  /\ push' = [push EXCEPT ![n][c] = "logged"]
  /\ UNCHANGED <<work, table, unread, pending, liveVars>>

(* allSettled: append or finish returns                                     *)
Return(n) ==
  /\ work[n] = "fanning" /\ \A c \in Channel : push[n][c] # "sending"
  /\ work' = [work EXCEPT ![n] = "done"]
  /\ UNCHANGED <<table, unread, pending, push, liveVars>>

-----------------------------------------------------------------------------
(* The operator.                                                           *)

MarkRead(ms) ==
  /\ ms # {} /\ unread' = unread \ ms
  /\ StartRecount
  /\ UNCHANGED <<work, table, pending, push, conn, badge>>

(* the decision on a check is stored; onEvent has the badges recounted      *)
Decide(n) ==
  /\ n \in pending /\ pending' = pending \ {n}
  /\ StartRecount
  /\ UNCHANGED <<work, table, unread, push, conn, badge>>

-----------------------------------------------------------------------------
Steps(n) ==
  \/ AddMessage(n) \/ AddFails(n) \/ FanOut(n)
  \/ \E c \in Channel : ChannelAnswers(n, c)
  \/ Return(n)

Next ==
  \/ \E n \in Notice : Commit(n) \/ Steps(n) \/ Decide(n)
  \/ \E m \in unread : MarkRead({m})
  \/ MarkRead(unread)
  \/ Connect \/ Subscribe \/ Reconcile \/ Disconnect
  \/ \E r \in Recount : ReadUnread(r) \/ ReadChecks(r) \/ CountFails(r) \/ PushCounts(r)

(* Awaited calls come back (channels after their timeout at the latest),    *)
(* the interval fires, and now and then a recount succeeds.                 *)
Fairness ==
  /\ \A n \in Notice : WF_vars(Steps(n))
  /\ WF_vars(Subscribe) /\ WF_vars(Reconcile)
  /\ SF_vars(\E r \in Recount : ReadUnread(r)) /\ SF_vars(\E r \in Recount : ReadChecks(r))
  /\ WF_vars(\E r \in Recount : PushCounts(r))

Spec == Init /\ [][Next]_vars /\ Fairness

-----------------------------------------------------------------------------
(* Properties.                                                             *)

TypeOK ==
  /\ work \in [Notice -> {"none", "stored", "added", "fanning", "done"}]
  /\ table \in [Notice -> Nat] /\ Cardinality(Rows) <= MaxMessages
  /\ unread \subseteq Rows /\ pending \subseteq Notice
  /\ push \in [Notice -> [Channel -> {"none", "sending", "logged"}]]
  /\ conn.st \in {"closed", "opening", "open"}

(* Notices never hold up the work they are about: whatever the table and    *)
(* the channels do, the wrapped call returns.                               *)
NoticeReturns == \A n \in Notice : work[n] # "none" ~> work[n] = "done"

(* The badge of an open stream catches up with the tables, although recounts*)
(* overlap, are answered out of order or fail, and although what happens    *)
(* between the first count and the subscription is not announced.           *)
BadgeCatchesUp == conn.st = "open" ~> badge = Counts \/ conn.st # "open"

=============================================================================
