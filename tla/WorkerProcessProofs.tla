------------------------ MODULE WorkerProcessProofs -------------------------
(***************************************************************************)
(* Theorems about forked executions, for every number of executions and of *)
(* declarations: a worker that waits for a human is forgotten by nobody.   *)
(***************************************************************************)
EXTENDS WorkerProcess, TLAPS

(* What is sent either way.                                                 *)
Reqs     == 0..MaxAsks
ToMain   == [t : {"gate-wait"}, req : Reqs] \union [t : {"decided", "done", "error"}]
ToWorker == [t : {"job"}] \union [t : {"verdict"}, req : Reqs, ok : BOOLEAN]

Shapes ==
  /\ resolver = None \/ resolver \in Exec \X Reqs
  /\ call \in [Exec -> {"none", "snapshot", "started", "refused", "lost"} \union Settled]
  /\ child \in [Exec -> {"none", "alive", "gone"}] /\ parent \in [Exec -> BOOLEAN]
  /\ work \in [Exec -> {"boot", "clear", "clone", "run", "wait", "over"}]
  /\ asks \in [Exec -> Reqs]
  /\ toMain \in [Exec -> Seq(ToMain)] /\ toWorker \in [Exec -> Seq(ToWorker)]

(* Nothing is heard of an execution before it is forked, and nothing of its *)
(* worker before it has its job.                                            *)
Holds(x) == resolver # None /\ resolver[1] = x
Silent(x) == toMain[x] = << >> /\ toWorker[x] = << >> /\ work[x] = "boot" /\ ~Holds(x)
BeforeJob ==
  \A x \in Exec :
    /\ call[x] = "none" => child[x] = "none" /\ Silent(x)
    /\ call[x] = "snapshot" /\ Alive(x) => Silent(x)

(* A worker that waits has one request under way; any other has none.       *)
Waits(x) ==
  /\ \/ Holds(x) /\ Asked(x) = {} /\ Answered(x) = {}
     \/ ~Holds(x) /\ Answered(x) = {} /\ \E i \in Asked(x) : Asked(x) = {i}
     \/ ~Holds(x) /\ Asked(x) = {} /\ Len(toWorker[x]) = 1
  /\ Holds(x) => resolver[2] = asks[x]
  /\ \A i \in Asked(x) : toMain[x][i].req = asks[x]
  /\ \A i \in Answered(x) : /\ toWorker[x][i].t = "verdict" /\ toWorker[x][i].req = asks[x]
                            /\ toWorker[x][i].ok => <<x, asks[x]>> \in approved
Works(x) ==
  /\ ~Holds(x) /\ Asked(x) = {}
  /\ IF work[x] = "boot" THEN toWorker[x] \in {<< >>, << [t |-> "job"] >>} ELSE toWorker[x] = << >>

UnderWay ==
  \A x \in Exec : Connected(x) => IF work[x] = "wait" THEN Waits(x) ELSE Works(x)

WorkerInv == Shapes /\ BeforeJob /\ UnderWay

-----------------------------------------------------------------------------
(* Shapes.                                                                  *)

LEMMA MessageTypes ==
  /\ [t |-> "job"] \in ToWorker
  /\ \A n \in Reqs, ok \in BOOLEAN : [t |-> "verdict", req |-> n, ok |-> ok] \in ToWorker
  /\ \A n \in Reqs : [t |-> "gate-wait", req |-> n] \in ToMain
  /\ [t |-> "done"] \in ToMain /\ [t |-> "error"] \in ToMain /\ [t |-> "decided"] \in ToMain
  /\ \A m \in ToMain : /\ m.t \in {"gate-wait", "decided", "done", "error"}
                       /\ m.t = "gate-wait" => m.req \in Reqs
BY DEF ToWorker, ToMain

(* A verdict goes to the worker that asked, or nowhere.                     *)
LEMMA SendType ==
  ASSUME Shapes, resolver # None, NEW ok \in BOOLEAN, SendVerdict(resolver, ok)
  PROVE  /\ toWorker' \in [Exec -> Seq(ToWorker)]
         /\ \A y \in Exec : y # resolver[1] => toWorker'[y] = toWorker[y]
         /\ Connected(resolver[1]) =>
              toWorker'[resolver[1]]
                = Append(toWorker[resolver[1]], [t |-> "verdict", req |-> resolver[2], ok |-> ok])
<1>1. resolver[1] \in Exec /\ resolver[2] \in Reqs /\ toWorker \in [Exec -> Seq(ToWorker)]
  BY DEF Shapes
<1> DEFINE m == [t |-> "verdict", req |-> resolver[2], ok |-> ok]
<1>2. m \in ToWorker
  BY <1>1, MessageTypes
<1>3. IF Connected(resolver[1])
        THEN toWorker' = [toWorker EXCEPT ![resolver[1]] = Append(@, m)] ELSE UNCHANGED toWorker
  BY DEF SendVerdict
<1> HIDE DEF m
<1>4. toWorker[resolver[1]] \in Seq(ToWorker)
  BY <1>1
<1>5. Append(toWorker[resolver[1]], m) \in Seq(ToWorker)
  BY <1>2, <1>4
<1>6. CASE Connected(resolver[1])
  BY <1>1, <1>3, <1>5, <1>6 DEF m
<1>7. CASE ~Connected(resolver[1])
  BY <1>1, <1>3, <1>7
<1> QED
  BY <1>6, <1>7

(* What a message of the channel leads to.                                  *)
LEMMA MessageShape ==
  ASSUME Shapes, NEW x \in Exec, OnMessage(x)
  PROVE  LET m == Head(toMain[x]) IN
         /\ parent[x] /\ toMain[x] # << >> /\ call[x] # "snapshot" /\ m \in ToMain
         /\ toMain' = [toMain EXCEPT ![x] = Tail(toMain[x])]
         /\ Tail(toMain[x]) \in Seq(ToMain)
         /\ UNCHANGED <<child, parent, workerVars, approved>>
         /\ IF m.t = "gate-wait" THEN Wait(x, m.req) ELSE UNCHANGED <<resolver, toWorker>>
         /\ \A y \in Exec : call'[y] = call[y] \/ call'[y] \in Settled
         /\ call' \in [Exec -> {"none", "snapshot", "started", "refused", "lost"} \union Settled]
<1>1. /\ parent[x] /\ toMain[x] # << >> /\ call[x] # "snapshot"
      /\ toMain' = [toMain EXCEPT ![x] = Tail(toMain[x])]
      /\ UNCHANGED <<child, parent, workerVars, approved>>
  BY DEF OnMessage
<1>2. toMain[x] \in Seq(ToMain) /\ call \in [Exec -> {"none", "snapshot", "started", "refused", "lost"} \union Settled]
  BY DEF Shapes
<1>3. Head(toMain[x]) \in ToMain /\ Tail(toMain[x]) \in Seq(ToMain)
  BY <1>1, <1>2
<1>4. UNCHANGED call \/ call' = [call EXCEPT ![x] = "done"] \/ call' = [call EXCEPT ![x] = "crash"]
  BY DEF OnMessage, Settle
<1>5. LET m == Head(toMain[x]) IN
        IF m.t = "gate-wait" THEN Wait(x, m.req) ELSE UNCHANGED <<resolver, toWorker>>
  BY DEF OnMessage
<1>6. /\ \A y \in Exec : call'[y] = call[y] \/ call'[y] \in Settled
      /\ call' \in [Exec -> {"none", "snapshot", "started", "refused", "lost"} \union Settled]
  BY <1>2, <1>4 DEF Settled
<1> QED
  BY <1>1, <1>3, <1>5, <1>6

LEMMA ShapesStep == Shapes /\ [Next]_vars => Shapes'
<1> SUFFICES ASSUME Shapes, [Next]_vars PROVE Shapes'
  OBVIOUS
<1> USE DEF rowVars, gateVars, mainVars, workerVars
<1>1. ASSUME NEW x \in Exec, Fork(x) \/ StartFails(x) \/ OnExit(x) \/ TimeUp(x) \/ Terminate(x) \/ WriteBack(x)
      PROVE  Shapes'
  BY <1>1 DEF Shapes, Fork, StartFails, OnExit, TimeUp, Terminate, WriteBack, Settle, Settled
<1>2. ASSUME NEW x \in Exec, Start(x) PROVE Shapes'
  <2>1. <<[t |-> "job"]>> \in Seq(ToWorker)
    BY MessageTypes
  <2> QED
    BY <1>2, <2>1 DEF Shapes, Start, Settled
<1>3. ASSUME NEW x \in Exec, OnMessage(x) PROVE Shapes'
  <2> DEFINE m == Head(toMain[x])
  <2>1. /\ m \in ToMain /\ toMain' = [toMain EXCEPT ![x] = Tail(toMain[x])]
        /\ Tail(toMain[x]) \in Seq(ToMain) /\ UNCHANGED <<child, parent, workerVars>>
        /\ IF m.t = "gate-wait" THEN Wait(x, m.req) ELSE UNCHANGED <<resolver, toWorker>>
        /\ call' \in [Exec -> {"none", "snapshot", "started", "refused", "lost"} \union Settled]
    BY <1>3, MessageShape
  <2> HIDE DEF m
  <2>2. toMain' \in [Exec -> Seq(ToMain)]
    BY <2>1 DEF Shapes
  <2>3. /\ resolver' = None \/ resolver' \in Exec \X Reqs
        /\ toWorker' \in [Exec -> Seq(ToWorker)]
    <3>1. CASE m.t = "gate-wait"
      <4>1. resolver' = <<x, m.req>> /\ m.req \in Reqs
        BY <2>1, <3>1, MessageTypes DEF Wait
      <4>2. toWorker' \in [Exec -> Seq(ToWorker)]
        BY <2>1, <3>1, SendType DEF Wait, Shapes
      <4> QED
        BY <4>1, <4>2
    <3>2. CASE m.t # "gate-wait"
      BY <2>1, <3>2 DEF Shapes
    <3> QED
      BY <3>1, <3>2
  <2> QED
    BY <2>1, <2>2, <2>3 DEF Shapes
<1>4. ASSUME NEW x \in Exec, Worker(x) PROVE Shapes'
  <2>1. /\ UNCHANGED <<resolver, call, child, parent>>
        /\ \E to \in {"clear", "clone", "run", "wait", "over"} : work' = [work EXCEPT ![x] = to]
        /\ asks' = asks \/ (asks[x] < MaxAsks /\ asks' = [asks EXCEPT ![x] = asks[x] + 1])
        /\ toWorker' = toWorker \/ (toWorker[x] # << >> /\ toWorker' = [toWorker EXCEPT ![x] = Tail(toWorker[x])])
    BY <1>4 DEF Worker, TakeJob, Clear, Clone, JobFails, Declare, Verdict, Finish, Goes
  <2>2. work' \in [Exec -> {"boot", "clear", "clone", "run", "wait", "over"}] /\ asks' \in [Exec -> Reqs]
    <3>1. PICK to \in {"clear", "clone", "run", "wait", "over"} : work' = [work EXCEPT ![x] = to]
      BY <2>1
    <3>2. work' \in [Exec -> {"boot", "clear", "clone", "run", "wait", "over"}]
      BY <3>1 DEF Shapes
    <3>3. asks \in [Exec -> Reqs] /\ (asks[x] < MaxAsks => asks[x] + 1 \in Reqs)
      BY WorkerAssumption DEF Shapes, Reqs
    <3>4. asks' \in [Exec -> Reqs]
      BY <2>1, <3>3
    <3> QED
      BY <3>2, <3>4
  <2>3. toWorker' \in [Exec -> Seq(ToWorker)]
    <3>1. toWorker \in [Exec -> Seq(ToWorker)] /\ toWorker[x] \in Seq(ToWorker)
      BY DEF Shapes
    <3>2. toWorker[x] # << >> => Tail(toWorker[x]) \in Seq(ToWorker)
      BY <3>1
    <3> QED
      BY <2>1, <3>1, <3>2
  <2>4. toMain' = toMain \/ \E m \in ToMain : toMain' = [toMain EXCEPT ![x] = toMain[x] \o <<m>>]
    <3>1. asks[x] < MaxAsks => asks[x] + 1 \in Reqs
      BY WorkerAssumption DEF Shapes, Reqs
    <3> QED
      BY <1>4, <3>1, MessageTypes
      DEF Worker, TakeJob, Clear, Clone, JobFails, Declare, Verdict, Finish, Say
  <2>5. toMain' \in [Exec -> Seq(ToMain)]
    <3>1. toMain \in [Exec -> Seq(ToMain)] /\ toMain[x] \in Seq(ToMain)
      BY DEF Shapes
    <3>2. \A m \in ToMain : toMain[x] \o <<m>> \in Seq(ToMain)
      BY <3>1
    <3> QED
      BY <2>4, <3>1, <3>2
  <2> QED
    BY <2>1, <2>2, <2>3, <2>5 DEF Shapes
<1>6. ASSUME NEW x \in Exec, Gone(x) PROVE Shapes'
  <2>1. 0 \in Reqs
    BY WorkerAssumption DEF Reqs
  <2> QED
    BY <1>6, <2>1 DEF Shapes, Gone
<1>7. ASSUME NEW ok \in BOOLEAN, Review(ok) PROVE Shapes'
  BY <1>7, SendType DEF Shapes, Review
<1>8. CASE GiveUp \/ SweepWorkspace \/ UNCHANGED vars
  BY <1>8 DEF Shapes, GiveUp, SweepWorkspace, vars
<1>9. CASE Restart
  BY <1>9 DEF Shapes, Restart
<1> QED
  BY <1>1, <1>2, <1>3, <1>4, <1>6, <1>7, <1>8, <1>9 DEF Next, Main

-----------------------------------------------------------------------------
(* The request under way.                                                   *)

(* What the invariant says of one execution.                                *)
Before(x) ==
  /\ call[x] = "none" => child[x] = "none" /\ Silent(x)
  /\ call[x] = "snapshot" /\ Alive(x) => Silent(x)
Request(x) == Connected(x) => IF work[x] = "wait" THEN Waits(x) ELSE Works(x)

(* A step of somebody else.                                                 *)
LEMMA OthersStay ==
  ASSUME NEW y \in Exec, Before(y), Request(y),
         UNCHANGED <<child[y], parent[y], work[y], asks[y], toMain[y], toWorker[y]>>,
         call'[y] = call[y] \/ call'[y] \notin {"none", "snapshot"},
         IF Holds(y) THEN resolver' = resolver ELSE resolver' = None \/ resolver'[1] # y,
         \A n \in Reqs : <<y, n>> \in approved => <<y, n>> \in approved', asks[y] \in Reqs
  PROVE  Before(y)' /\ Request(y)'
<1>1. Holds(y)' <=> Holds(y)
  BY DEF Holds
<1>2. Holds(y) => resolver' = resolver
  OBVIOUS
<1>3. Before(y)'
  BY <1>1 DEF Before, Silent, Alive
<1>4. Connected(y)' <=> Connected(y)
  BY DEF Connected, Alive
<1>5. Asked(y)' = Asked(y) /\ Answered(y)' = Answered(y)
  BY DEF Asked, Answered
<1>6. Waits(y) => Waits(y)'
  BY <1>1, <1>2, <1>5 DEF Waits, Asked
<1>7. Works(y) => Works(y)'
  BY <1>1, <1>5 DEF Works
<1> QED
  BY <1>3, <1>4, <1>6, <1>7 DEF Request

(* The queue answers the execution whose request it held.                   *)
LEMMA AnswerArrives ==
  ASSUME Shapes, NEW y \in Exec, Before(y), Request(y), Holds(y),
         NEW ok \in BOOLEAN, SendVerdict(resolver, ok),
         UNCHANGED <<child, parent, work, asks, toMain[y]>>,
         call'[y] = call[y] \/ call'[y] \notin {"none", "snapshot"},
         resolver' = None \/ resolver'[1] # y,
         ok => resolver \in approved'
  PROVE  Before(y)' /\ Request(y)'
<1>1. call[y] # "none" /\ ~(call[y] = "snapshot" /\ Alive(y))
  BY DEF Before, Silent
<1>2. Before(y)'
  BY <1>1 DEF Before, Alive
<1>3. SUFFICES ASSUME Connected(y)' PROVE (IF work[y] = "wait" THEN Waits(y) ELSE Works(y))'
  BY <1>2 DEF Request
<1>4. Connected(y)
  BY <1>3 DEF Connected, Alive
<1>5. work[y] = "wait" /\ Waits(y)
  BY <1>4 DEF Request, Works
<1>6. resolver = <<y, asks[y]>> /\ Asked(y) = {} /\ toWorker[y] = << >>
  <2>1. Asked(y) = {} /\ Answered(y) = {} /\ resolver[2] = asks[y] /\ resolver[1] = y
    BY <1>5 DEF Waits, Holds
  <2>2. toWorker[y] \in Seq(ToWorker)
    BY DEF Shapes
  <2>3. toWorker[y] = << >>
    <3>1. 1..Len(toWorker[y]) = {} /\ Len(toWorker[y]) \in Nat
      BY <2>1, <2>2 DEF Answered
    <3>2. Len(toWorker[y]) = 0
      <4>1. SUFFICES ASSUME Len(toWorker[y]) # 0 PROVE FALSE
        OBVIOUS
      <4>2. 1 \in 1..Len(toWorker[y])
        BY <3>1, <4>1
      <4> QED
        BY <3>1, <4>2
    <3> QED
      BY <2>2, <3>2
  <2> QED
    BY <2>1, <2>3 DEF Holds, Shapes
<1>7. toWorker'[y] = << [t |-> "verdict", req |-> asks[y], ok |-> ok] >>
  <2> DEFINE m == [t |-> "verdict", req |-> asks[y], ok |-> ok]
  <2>1. toWorker'[y] = Append(<< >>, m)
    BY <1>4, <1>6, SendType DEF Holds
  <2> HIDE DEF m
  <2> QED
    BY <2>1 DEF m
<1>8. Asked(y)' = {} /\ ~Holds(y)' /\ Len(toWorker'[y]) = 1 /\ DOMAIN toWorker'[y] = {1}
  BY <1>6, <1>7 DEF Asked, Holds
<1>9. ok => <<y, asks[y]>> \in approved'
  BY <1>6
<1>10. Waits(y)'
  BY <1>7, <1>8, <1>9 DEF Waits, Answered
<1> QED
  BY <1>5, <1>10

(* A message leaves the channel, another one enters it.                     *)
LEMMA AskedTail ==
  ASSUME NEW x, toMain[x] \in Seq(ToMain), toMain[x] # << >>, toMain'[x] = Tail(toMain[x])
  PROVE  /\ Head(toMain[x]).t = "gate-wait" => 1 \in Asked(x) /\ Head(toMain[x]) = toMain[x][1]
         /\ Head(toMain[x]).t # "gate-wait" => 1 \notin Asked(x)
         /\ \A i : i \in Asked(x)' <=> i + 1 \in Asked(x) /\ i \in Nat \ {0}
         /\ \A i \in Asked(x)' : toMain'[x][i] = toMain[x][i + 1]
         /\ Asked(x) \subseteq Nat \ {0}
<1>1. /\ DOMAIN toMain[x] = 1..Len(toMain[x]) /\ Len(toMain[x]) \in Nat \ {0}
      /\ DOMAIN toMain'[x] = 1..(Len(toMain[x]) - 1)
      /\ \A i \in 1..(Len(toMain[x]) - 1) : toMain'[x][i] = toMain[x][i + 1]
      /\ Head(toMain[x]) = toMain[x][1]
  OBVIOUS
<1> QED
  BY <1>1 DEF Asked

LEMMA AskedAppend ==
  ASSUME NEW x, toMain[x] \in Seq(ToMain), NEW m \in ToMain, toMain'[x] = toMain[x] \o <<m>>
  PROVE  /\ m.t # "gate-wait" => Asked(x)' = Asked(x)
         /\ m.t = "gate-wait" => Asked(x)' = Asked(x) \union {Len(toMain[x]) + 1}
         /\ \A i \in Asked(x) : toMain'[x][i] = toMain[x][i]
         /\ toMain'[x][Len(toMain[x]) + 1] = m
<1>1. /\ DOMAIN toMain[x] = 1..Len(toMain[x]) /\ Len(toMain[x]) \in Nat
      /\ DOMAIN toMain'[x] = 1..(Len(toMain[x]) + 1)
      /\ \A i \in 1..Len(toMain[x]) : toMain'[x][i] = toMain[x][i]
      /\ toMain'[x][Len(toMain[x]) + 1] = m
  OBVIOUS
<1> QED
  BY <1>1 DEF Asked

(* The console reads a message of x: a request joins the queue, and the one *)
(* that was there is turned down.                                           *)
LEMMA MessageOfOther ==
  ASSUME Shapes, NEW x \in Exec, OnMessage(x), NEW y \in Exec, y # x, Before(y), Request(y)
  PROVE  Before(y)' /\ Request(y)'
<1> DEFINE m == Head(toMain[x])
<1>1. /\ toMain' = [toMain EXCEPT ![x] = Tail(toMain[x])]
      /\ UNCHANGED <<child, parent, work, asks, approved>>
      /\ IF m.t = "gate-wait" THEN Wait(x, m.req) ELSE UNCHANGED <<resolver, toWorker>>
      /\ call'[y] = call[y] \/ call'[y] \in Settled
  BY MessageShape DEF workerVars
<1> HIDE DEF m
<1>2. toMain'[y] = toMain[y] /\ asks[y] \in Reqs
  BY <1>1 DEF Shapes
<1>3. call'[y] = call[y] \/ call'[y] \notin {"none", "snapshot"}
  BY <1>1 DEF Settled
<1>4. CASE Holds(y) /\ m.t = "gate-wait"
  <2>1. resolver # None /\ SendVerdict(resolver, FALSE) /\ resolver' = <<x, m.req>>
    BY <1>1, <1>4 DEF Wait, Holds
  <2>2. resolver'[1] # y
    BY <2>1
  <2> QED
    BY <1>1, <1>2, <1>3, <1>4, <2>1, <2>2, AnswerArrives
<1>5. CASE ~(Holds(y) /\ m.t = "gate-wait")
  <2>1. toWorker'[y] = toWorker[y]
    BY <1>1, <1>5, SendType DEF Wait, Holds
  <2>2. IF Holds(y) THEN resolver' = resolver ELSE resolver' = None \/ resolver'[1] # y
    <3>1. CASE m.t = "gate-wait"
      <4>1. ~Holds(y) /\ resolver' = <<x, m.req>>
        BY <1>1, <1>5, <3>1 DEF Wait
      <4>2. resolver'[1] # y
        BY <4>1
      <4> QED
        BY <4>1, <4>2
    <3>2. CASE m.t # "gate-wait"
      BY <1>1, <3>2 DEF Holds
    <3> QED
      BY <3>1, <3>2
  <2> QED
    BY <1>1, <1>2, <1>3, <2>1, <2>2, OthersStay
<1> QED
  BY <1>4, <1>5

LEMMA MessageHandled ==
  ASSUME Shapes, NEW x \in Exec, OnMessage(x), Before(x), Request(x)
  PROVE  Before(x)' /\ Request(x)'
<1> DEFINE m == Head(toMain[x])
<1>1. /\ parent[x] /\ toMain[x] # << >> /\ call[x] # "snapshot" /\ m \in ToMain
      /\ toMain' = [toMain EXCEPT ![x] = Tail(toMain[x])]
      /\ UNCHANGED <<child, parent, work, asks, approved>>
      /\ IF m.t = "gate-wait" THEN Wait(x, m.req) ELSE UNCHANGED <<resolver, toWorker>>
      /\ call'[x] = call[x] \/ call'[x] \in Settled
  BY MessageShape DEF workerVars
<1> HIDE DEF m
<1>2. toMain'[x] = Tail(toMain[x]) /\ toMain[x] \in Seq(ToMain) /\ asks[x] \in Reqs
  BY <1>1 DEF Shapes
<1>3. Before(x)'
  BY <1>1 DEF Before, Silent, Settled
<1>4. SUFFICES ASSUME Connected(x)' PROVE (IF work[x] = "wait" THEN Waits(x) ELSE Works(x))'
  BY <1>3 DEF Request
<1>5. Connected(x)
  BY <1>1, <1>4 DEF Connected, Alive
<1>6. /\ m.t = "gate-wait" => 1 \in Asked(x) /\ m = toMain[x][1]
      /\ m.t # "gate-wait" => 1 \notin Asked(x)
      /\ \A i : i \in Asked(x)' <=> i + 1 \in Asked(x) /\ i \in Nat \ {0}
      /\ \A i \in Asked(x)' : toMain'[x][i] = toMain[x][i + 1]
      /\ Asked(x) \subseteq Nat \ {0}
  BY <1>1, <1>2, AskedTail DEF m
<1>7. CASE m.t = "gate-wait"
  <2>1. work[x] = "wait" /\ Waits(x)
    BY <1>5, <1>6, <1>7 DEF Request, Works
  <2>2. Asked(x) = {1} /\ ~Holds(x) /\ Answered(x) = {} /\ m.req = asks[x]
    BY <1>6, <1>7, <2>1 DEF Waits
  <2>3. Asked(x)' = {}
    BY <1>6, <2>2
  <2>4. resolver' = <<x, asks[x]>>
    BY <1>1, <1>7, <2>2 DEF Wait
  <2>5. toWorker'[x] = toWorker[x]
    BY <1>1, <1>7, <2>2, SendType DEF Wait, Holds
  <2>6. Holds(x)' /\ resolver'[2] = asks'[x]
    <3>1. resolver' # None
      BY <1>2, <2>4, WorkerAssumption DEF Reqs
    <3>2. resolver'[1] = x /\ resolver'[2] = asks[x]
      BY <2>4
    <3> QED
      BY <1>1, <3>1, <3>2 DEF Holds
  <2>7. Answered(x)' = {}
    BY <2>2, <2>5 DEF Answered
  <2>8. Waits(x)'
    BY <2>3, <2>6, <2>7 DEF Waits
  <2> QED
    BY <1>1, <2>1, <2>8
<1>8. CASE m.t # "gate-wait"
  <2>1. Holds(x)' = Holds(x) /\ Answered(x)' = Answered(x)
    BY <1>1, <1>8 DEF Holds, Answered
  <2>2. CASE work[x] = "wait"
    <3>1. Waits(x)
      BY <1>5, <2>2 DEF Request
    <3>2. \A i \in Asked(x)' : toMain'[x][i].req = asks[x]
      BY <1>6, <3>1 DEF Waits
    <3>3. Asked(x) = {} => Asked(x)' = {}
      BY <1>6
    <3>4. ASSUME NEW i, Asked(x) = {i} PROVE Asked(x)' = {i - 1}
      <4>1. i \in Nat \ {0} /\ i # 1
        BY <1>6, <1>8, <3>4
      <4>2. i - 1 \in Asked(x)'
        BY <1>6, <3>4, <4>1
      <4>3. \A j \in Asked(x)' : j = i - 1
        BY <1>6, <3>4, <4>1
      <4> QED
        BY <4>2, <4>3
    <3>5. (\E i \in Asked(x) : Asked(x) = {i}) => (\E i \in Asked(x)' : Asked(x)' = {i})
      BY <3>4
    <3>6. (\E i \in Asked(x)' : Asked(x)' = {i}) => (\E i \in Asked(x) : Asked(x) = {i})'
      OBVIOUS
    <3>7. /\ \/ Holds(x)' /\ Asked(x)' = {} /\ Answered(x)' = {}
             \/ ~Holds(x)' /\ Answered(x)' = {} /\ (\E i \in Asked(x) : Asked(x) = {i})'
             \/ ~Holds(x)' /\ Asked(x)' = {} /\ Len(toWorker'[x]) = 1
          /\ Holds(x)' => resolver'[2] = asks'[x]
          /\ \A i \in Answered(x)' : /\ toWorker'[x][i].t = "verdict" /\ toWorker'[x][i].req = asks'[x]
                                     /\ toWorker'[x][i].ok => <<x, asks'[x]>> \in approved'
      BY <1>1, <1>8, <2>1, <3>1, <3>3, <3>5, <3>6 DEF Waits
    <3>8. Waits(x)'
      BY <1>1, <3>2, <3>7 DEF Waits
    <3> QED
      BY <1>1, <2>2, <3>8
  <2>3. CASE work[x] # "wait"
    <3>1. Works(x)
      BY <1>5, <2>3 DEF Request
    <3>2. Asked(x)' = {}
      BY <1>6, <3>1 DEF Works
    <3>3. Works(x)'
      BY <1>1, <1>8, <2>1, <3>1, <3>2 DEF Works
    <3> QED
      BY <1>1, <2>3, <3>3
  <2> QED
    BY <2>2, <2>3
<1> QED
  BY <1>7, <1>8

(* The worker's own steps.                                                  *)
LEMMA WorkerSteps ==
  ASSUME Shapes, NEW x \in Exec, Worker(x), Before(x), Request(x)
  PROVE  Before(x)' /\ Request(x)'
<1>1. /\ UNCHANGED <<resolver, approved, call, child, parent>> /\ Alive(x)
      /\ \E from \in {"boot", "clear", "clone", "run", "wait"}, to \in {"clear", "clone", "run", "wait", "over"} :
           work[x] = from /\ work' = [work EXCEPT ![x] = to]
  BY DEF Worker, TakeJob, Clear, Clone, JobFails, Declare, Verdict, Finish, Goes, gateVars, mainVars
<1>2. call[x] # "none" /\ call[x] # "snapshot"
  <2>1. call[x] # "none"
    BY <1>1 DEF Before, Alive
  <2>2. call[x] = "snapshot" => Silent(x)
    BY <1>1 DEF Before
  <2>3. Silent(x) => FALSE
    BY DEF Silent, Worker, TakeJob, Clear, Clone, JobFails, Declare, Verdict, Finish, Goes
  <2> QED
    BY <2>1, <2>2, <2>3
<1>3. Before(x)'
  BY <1>1, <1>2 DEF Before
<1>4. SUFFICES ASSUME Connected(x) PROVE (IF work[x] = "wait" THEN Waits(x) ELSE Works(x))'
  BY <1>1, <1>3 DEF Request, Connected, Alive
<1>5. /\ work \in [Exec -> {"boot", "clear", "clone", "run", "wait", "over"}]
      /\ toMain \in [Exec -> Seq(ToMain)] /\ toWorker \in [Exec -> Seq(ToWorker)] /\ asks \in [Exec -> Reqs]
      /\ toMain[x] \in Seq(ToMain) /\ toWorker[x] \in Seq(ToWorker)
  BY DEF Shapes
<1>6. Holds(x)' = Holds(x)
  BY <1>1 DEF Holds
<1>7. CASE TakeJob(x)
  <2>1. work[x] = "boot" /\ work'[x] = "clear" /\ Works(x)
    BY <1>4, <1>5, <1>7 DEF TakeJob, Goes, Request
  <2>2. toWorker[x] = << [t |-> "job"] >> /\ toWorker'[x] = Tail(toWorker[x]) /\ toMain' = toMain
    BY <1>5, <1>7, <2>1 DEF TakeJob, Works
  <2>3. toWorker'[x] = << >>
    <3> DEFINE j == [t |-> "job"]
    <3>1. toWorker[x] = <<j>>
      BY <2>2
    <3> HIDE DEF j
    <3> QED
      BY <2>2, <3>1
  <2>4. Works(x)'
    BY <1>6, <2>1, <2>2, <2>3 DEF Works, Asked
  <2> QED
    BY <2>1, <2>4
<1>8. CASE Clear(x) \/ Clone(x)
  <2>1. work[x] \in {"clear", "clone"} /\ work'[x] \in {"clone", "run"} /\ Works(x)
        /\ UNCHANGED <<toMain, toWorker>>
    BY <1>4, <1>5, <1>8 DEF Clear, Clone, Goes, Request
  <2>2. Works(x)'
    BY <1>6, <2>1 DEF Works, Asked
  <2> QED
    BY <2>1, <2>2
<1>9. CASE JobFails(x) \/ Finish(x)
  <2>1. /\ work[x] \in {"clear", "clone", "run"} /\ work'[x] = "over" /\ Works(x)
        /\ UNCHANGED toWorker
    BY <1>4, <1>5, <1>9 DEF JobFails, Finish, Goes, Request
  <2>2. PICK m \in ToMain : m.t # "gate-wait" /\ toMain'[x] = toMain[x] \o <<m>>
    BY <1>5, <1>9, MessageTypes DEF JobFails, Finish, Say
  <2>3. Asked(x)' = Asked(x)
    BY <1>5, <2>2, AskedAppend
  <2>4. Works(x)'
    BY <1>6, <2>1, <2>3 DEF Works
  <2> QED
    BY <2>1, <2>4
<1>10. CASE Declare(x)
  <2>1. /\ work[x] = "run" /\ work'[x] = "wait" /\ Works(x) /\ asks'[x] = asks[x] + 1
        /\ asks[x] < MaxAsks /\ UNCHANGED toWorker
    BY <1>4, <1>5, <1>10 DEF Declare, Goes, Request
  <2>9. asks[x] + 1 \in Reqs
    BY <1>5, <2>1, WorkerAssumption DEF Reqs
  <2> DEFINE m == [t |-> "gate-wait", req |-> asks[x] + 1]
  <2>2. m \in ToMain /\ m.t = "gate-wait" /\ m.req = asks[x] + 1 /\ toMain'[x] = toMain[x] \o <<m>>
    BY <1>5, <1>10, <2>1, <2>9, MessageTypes DEF Declare, Say
  <2> HIDE DEF m
  <2>3. Asked(x) = {} /\ ~Holds(x) /\ toWorker[x] = << >>
    BY <2>1 DEF Works
  <2>4. Asked(x)' = {Len(toMain[x]) + 1} /\ toMain'[x][Len(toMain[x]) + 1] = m
    BY <1>5, <2>2, <2>3, AskedAppend
  <2>5. ~Holds(x)' /\ Answered(x)' = {}
    BY <1>6, <2>1, <2>3 DEF Answered
  <2>6. (\E i \in Asked(x) : Asked(x) = {i})'
    BY <2>4
  <2>7. \A i \in Asked(x)' : toMain'[x][i].req = asks'[x]
    BY <2>1, <2>2, <2>4
  <2>8. Waits(x)'
    BY <2>5, <2>6, <2>7 DEF Waits
  <2> QED
    BY <2>1, <2>8
<1>11. CASE Verdict(x)
  <2>1. /\ work[x] = "wait" /\ work'[x] = "run" /\ Waits(x) /\ toWorker[x] # << >>
        /\ toWorker'[x] = Tail(toWorker[x])
    BY <1>4, <1>5, <1>11 DEF Verdict, Goes, Request
  <2>2. ~Holds(x) /\ Asked(x) = {} /\ Len(toWorker[x]) = 1
    <3>1. Answered(x) # {}
      <4>1. Len(toWorker[x]) # 0 /\ Len(toWorker[x]) \in Nat
            /\ DOMAIN toWorker[x] = 1..Len(toWorker[x])
        BY <1>5, <2>1
      <4>2. 1 \in 1..Len(toWorker[x])
        BY <4>1
      <4> QED
        BY <4>1, <4>2 DEF Answered
    <3> QED
      BY <2>1, <3>1 DEF Waits
  <2>3. toWorker'[x] = << >>
    <3> DEFINE q == Tail(toWorker[x])
    <3>1. q \in Seq(ToWorker) /\ Len(q) = 0
      BY <1>5, <2>1, <2>2
    <3> HIDE DEF q
    <3>2. q = << >>
      BY <3>1
    <3> QED
      BY <2>1, <3>2 DEF q
  <2>4. PICK m \in ToMain : m.t # "gate-wait" /\ toMain'[x] = toMain[x] \o <<m>>
    BY <1>5, <1>11, MessageTypes DEF Verdict, Say
  <2>5. Asked(x)' = Asked(x)
    BY <1>5, <2>4, AskedAppend
  <2>6. Works(x)'
    BY <1>6, <2>1, <2>2, <2>3, <2>5 DEF Works
  <2> QED
    BY <2>1, <2>6
<1> QED
  BY <1>7, <1>8, <1>9, <1>10, <1>11 DEF Worker

(* The console forks and starts; what fails is reported later.              *)
LEMMA ExecutorSteps ==
  ASSUME Shapes, NEW x \in Exec, Before(x), Request(x),
         Fork(x) \/ Start(x) \/ StartFails(x) \/ OnExit(x) \/ TimeUp(x) \/ Terminate(x) \/ WriteBack(x)
  PROVE  Before(x)' /\ Request(x)'
<1>1. UNCHANGED <<resolver, approved, work, asks, toMain>>
  BY DEF Fork, Start, StartFails, OnExit, TimeUp, Terminate, WriteBack, rowVars, gateVars, workerVars
<1>2. /\ call \in [Exec -> {"none", "snapshot", "started", "refused", "lost"} \union Settled]
      /\ child \in [Exec -> {"none", "alive", "gone"}] /\ parent \in [Exec -> BOOLEAN]
      /\ toWorker \in [Exec -> Seq(ToWorker)]
  BY DEF Shapes
<1>3. Holds(x)' = Holds(x) /\ Asked(x)' = Asked(x)
  BY <1>1 DEF Holds, Asked
<1>4. CASE Fork(x)
  <2>1. /\ call[x] = "none" /\ call'[x] = "snapshot" /\ toWorker' = toWorker
        /\ child[x] = "none" /\ Silent(x)
    BY <1>2, <1>4 DEF Fork, Before
  <2>2. Silent(x)'
    BY <1>1, <1>3, <2>1 DEF Silent
  <2>3. Before(x)'
    BY <2>1, <2>2 DEF Before
  <2>4. Works(x)' /\ work'[x] # "wait"
    BY <1>1, <1>3, <2>1 DEF Silent, Works, Asked
  <2> QED
    BY <2>3, <2>4 DEF Request
<1>5. CASE Start(x)
  <2>1. call[x] = "snapshot" /\ call'[x] \notin {"none", "snapshot"} /\ UNCHANGED <<child, parent>>
    BY <1>2, <1>5 DEF Start
  <2>2. Before(x)'
    BY <2>1 DEF Before
  <2>3. CASE Alive(x)
    <3>1. Silent(x) /\ toWorker'[x] = << [t |-> "job"] >>
      BY <1>2, <1>5, <2>1, <2>3 DEF Start, Before
    <3>2. Works(x)' /\ work'[x] # "wait"
      BY <1>1, <1>3, <3>1 DEF Silent, Works, Asked
    <3> QED
      BY <2>2, <3>2 DEF Request
  <2>4. CASE ~Alive(x)
    <3>1. ~Connected(x)'
      BY <2>1, <2>4 DEF Connected, Alive
    <3> QED
      BY <2>2, <3>1 DEF Request
  <2> QED
    BY <2>3, <2>4
<1>6. CASE StartFails(x) \/ OnExit(x) \/ TimeUp(x) \/ Terminate(x) \/ WriteBack(x)
  <2>1. UNCHANGED <<child, parent, toWorker>> /\ (call'[x] = call[x] \/ call'[x] \notin {"none", "snapshot"})
    BY <1>2, <1>6 DEF StartFails, OnExit, TimeUp, Terminate, WriteBack, Settle, mainVars
  <2>2. Before(x)'
    BY <1>1, <1>3, <2>1 DEF Before, Silent, Alive
  <2>3. Connected(x)' = Connected(x) /\ Answered(x)' = Answered(x)
    BY <2>1 DEF Connected, Alive, Answered
  <2>4. Works(x) => Works(x)'
    BY <1>1, <1>3, <2>1 DEF Works
  <2>5. Waits(x) => Waits(x)'
    BY <1>1, <1>3, <2>1, <2>3 DEF Waits, Asked
  <2> QED
    BY <1>1, <2>2, <2>3, <2>4, <2>5 DEF Request
<1> QED
  BY <1>4, <1>5, <1>6

(* Every step keeps what is known of every execution.                       *)
LEMMA RequestStep ==
  ASSUME Shapes, [Next]_vars, \A y \in Exec : Before(y) /\ Request(y)
  PROVE  \A y \in Exec : Before(y)' /\ Request(y)'
<1> TAKE y \in Exec
<1>1. Before(y) /\ Request(y) /\ asks[y] \in Reqs
  BY DEF Shapes
<1>2. /\ call \in [Exec -> {"none", "snapshot", "started", "refused", "lost"} \union Settled]
      /\ child \in [Exec -> {"none", "alive", "gone"}] /\ parent \in [Exec -> BOOLEAN]
      /\ work \in [Exec -> {"boot", "clear", "clone", "run", "wait", "over"}]
      /\ asks \in [Exec -> Reqs]
      /\ toMain \in [Exec -> Seq(ToMain)] /\ toWorker \in [Exec -> Seq(ToWorker)]
  BY DEF Shapes
<1> USE DEF rowVars, gateVars, mainVars, workerVars
<1>3. ASSUME NEW x \in Exec, Fork(x) \/ Main(x) \/ Worker(x) \/ WriteBack(x)
      PROVE  Before(y)' /\ Request(y)'
  <2>1. CASE x = y
    <3>1. CASE OnMessage(x)
      BY <1>1, <2>1, <3>1, MessageHandled
    <3>2. CASE Worker(x)
      BY <1>1, <2>1, <3>2, WorkerSteps
    <3>3. CASE Fork(x) \/ Start(x) \/ StartFails(x) \/ OnExit(x) \/ TimeUp(x) \/ Terminate(x) \/ WriteBack(x)
      BY <1>1, <2>1, <3>3, ExecutorSteps
    <3> QED
      BY <1>3, <3>1, <3>2, <3>3 DEF Main
  <2>2. CASE x # y /\ OnMessage(x)
    BY <1>1, <2>2, MessageOfOther
  <2>3. CASE x # y /\ ~OnMessage(x)
    <3>1. UNCHANGED <<resolver, approved>>
      BY <1>3, <2>3 DEF Main, Worker, Fork, Start, StartFails, OnExit, TimeUp, Terminate, WriteBack,
           TakeJob, Clear, Clone, JobFails, Declare, Verdict, Finish
    <3>2. UNCHANGED <<child[y], parent[y], work[y], asks[y], toMain[y], toWorker[y], call[y]>>
      <4>1. CASE Fork(x) \/ Start(x) \/ StartFails(x) \/ OnExit(x) \/ TimeUp(x) \/ Terminate(x) \/ WriteBack(x)
        BY <1>2, <2>3, <4>1 DEF Fork, Start, StartFails, OnExit, TimeUp, Terminate, WriteBack, Settle
      <4>2. CASE Worker(x)
        BY <1>2, <2>3, <4>2 DEF Worker, TakeJob, Clear, Clone, JobFails, Declare, Verdict, Finish, Goes, Say
      <4> QED
        BY <1>3, <2>3, <4>1, <4>2 DEF Main
    <3> QED
      BY <1>1, <3>1, <3>2, OthersStay DEF Holds
  <2> QED
    BY <2>1, <2>2, <2>3
<1>4. ASSUME NEW x \in Exec, Gone(x) PROVE Before(y)' /\ Request(y)'
  <2>1. CASE x = y
    <3>1. child[x] = "alive" /\ child'[x] = "gone" /\ call' = call
      BY <1>2, <1>4 DEF Gone, Alive
    <3>2. call[x] # "none"
      BY <1>1, <2>1, <3>1 DEF Before
    <3> QED
      BY <2>1, <3>1, <3>2 DEF Before, Request, Connected, Alive
  <2>2. CASE x # y
    <3>1. UNCHANGED <<child[y], parent[y], work[y], asks[y], toMain[y], toWorker[y], call[y], resolver>>
      BY <1>2, <1>4, <2>2 DEF Gone
    <3>2. \A n \in Reqs : <<y, n>> \in approved => <<y, n>> \in approved'
      <4>1. approved' = {a \in approved : a[1] # x}
        BY <1>4 DEF Gone
      <4>2. \A n \in Reqs : <<y, n>>[1] = y
        OBVIOUS
      <4> QED
        BY <2>2, <4>1, <4>2
    <3> QED
      BY <1>1, <3>1, <3>2, OthersStay DEF Holds
  <2> QED
    BY <2>1, <2>2
<1>5. ASSUME NEW ok \in BOOLEAN, Review(ok) PROVE Before(y)' /\ Request(y)'
  <2>1. /\ resolver # None /\ resolver' = None /\ SendVerdict(resolver, ok)
        /\ approved' = IF ok THEN approved \union {resolver} ELSE approved
        /\ UNCHANGED <<child, parent, work, asks, toMain, call>>
    BY <1>5 DEF Review
  <2>2. CASE Holds(y)
    <3>1. ok => resolver \in approved'
      BY <2>1
    <3>2. toMain'[y] = toMain[y] /\ call'[y] = call[y]
      BY <2>1
    <3> QED
      BY <1>1, <2>1, <2>2, <3>1, <3>2, AnswerArrives
  <2>3. CASE ~Holds(y)
    <3>1. toWorker'[y] = toWorker[y]
      BY <2>1, <2>3, SendType DEF Holds
    <3>2. \A n \in Reqs : <<y, n>> \in approved => <<y, n>> \in approved'
      BY <2>1
    <3> QED
      BY <1>1, <2>1, <2>3, <3>1, <3>2, OthersStay
  <2> QED
    BY <2>2, <2>3
<1>6. CASE GiveUp \/ SweepWorkspace \/ UNCHANGED vars
  <2>1. UNCHANGED <<child, parent, work, asks, toMain, toWorker, call, resolver, approved>>
    BY <1>6 DEF GiveUp, SweepWorkspace, vars
  <2>2. /\ UNCHANGED <<child[y], parent[y], work[y], asks[y], toMain[y], toWorker[y]>>
        /\ call'[y] = call[y]
        /\ IF Holds(y) THEN resolver' = resolver ELSE resolver' = None \/ resolver'[1] # y
        /\ \A n \in Reqs : <<y, n>> \in approved => <<y, n>> \in approved'
    BY <2>1 DEF Holds
  <2> QED
    BY <1>1, <2>2, OthersStay
<1>7. CASE Restart
  <2>1. /\ ~parent'[y] /\ toMain'[y] = << >> /\ resolver' = None
        /\ UNCHANGED <<child, work, toWorker>>
        /\ (call'[y] = call[y] /\ call[y] # "snapshot") \/ call'[y] = "lost"
    BY <1>2, <1>7 DEF Restart
  <2>2. ~Holds(y)' /\ ~Connected(y)'
    BY <2>1 DEF Holds, Connected
  <2>3. Before(y)'
    BY <1>1, <2>1, <2>2 DEF Before, Silent, Alive
  <2> QED
    BY <2>2, <2>3 DEF Request
<1> QED
  BY <1>3, <1>4, <1>5, <1>6, <1>7 DEF Next

LEMMA WorkerInit == Init => WorkerInv
<1> SUFFICES ASSUME Init PROVE WorkerInv
  OBVIOUS
<1>1. << >> \in Seq(ToMain) /\ << >> \in Seq(ToWorker) /\ 0 \in Reqs
  BY WorkerAssumption DEF Reqs
<1>2. Shapes
  BY <1>1 DEF Init, Shapes, Settled
<1>3. BeforeJob
  BY DEF Init, BeforeJob, Silent, Holds
<1>4. UnderWay
  BY DEF Init, UnderWay, Connected, Alive
<1> QED
  BY <1>2, <1>3, <1>4 DEF WorkerInv

LEMMA WorkerStep == WorkerInv /\ [Next]_vars => WorkerInv'
<1> SUFFICES ASSUME WorkerInv, [Next]_vars PROVE WorkerInv'
  OBVIOUS
<1>1. Shapes /\ Shapes'
  BY ShapesStep DEF WorkerInv
<1>2. \A y \in Exec : Before(y) /\ Request(y)
  BY DEF WorkerInv, BeforeJob, UnderWay, Before, Request
<1>3. \A y \in Exec : Before(y)' /\ Request(y)'
  BY <1>1, <1>2, RequestStep
<1> QED
  BY <1>1, <1>3 DEF WorkerInv, BeforeJob, UnderWay, Before, Request

(* A worker that waits for a human is forgotten by nobody: its request is   *)
(* on its way to the queue, in it, or answered, and in one place only; what *)
(* comes back is for this very request, and an approval is one a human gave *)
(* to it (process-executor.ts, review-gate's queue, and worker.ts).         *)
THEOREM RequestStaysInOnePlace == Spec => []RequestIsInOnePlace
<1>1. WorkerInv => RequestIsInOnePlace
  <2> SUFFICES ASSUME WorkerInv, NEW x \in Exec, Connected(x), work[x] = "wait"
               PROVE  /\ \E p \in Places(x) : Places(x) = {p}
                      /\ \A i \in Answered(x) :
                           /\ toWorker[x][i].req = asks[x]
                           /\ toWorker[x][i].ok => <<x, asks[x]>> \in approved
    BY DEF RequestIsInOnePlace
  <2>1. Waits(x) /\ Shapes
    BY DEF WorkerInv, UnderWay
  <2>2. Holds(x) <=> InQueue(x)
    <3>1. asks[x] \in Reqs /\ (resolver = None \/ resolver \in Exec \X Reqs)
      BY <2>1 DEF Shapes
    <3>2. InQueue(x) => resolver # None
      BY <3>1, WorkerAssumption DEF InQueue, Reqs
    <3>3. InQueue(x) => resolver[1] = x
      BY DEF InQueue
    <3>4. Holds(x) => resolver = <<x, asks[x]>>
      BY <2>1, <3>1 DEF Waits, Holds
    <3> QED
      BY <3>2, <3>3, <3>4 DEF Holds, InQueue
  <2> DEFINE A == {<<"asked", i>> : i \in Asked(x)}
             B == {<<"answered", i>> : i \in Answered(x)}
             Q == IF InQueue(x) THEN {<<"queue", 1>>} ELSE {}
  <2>3. Places(x) = A \union B \union Q
    BY DEF Places
  <2>4. \E p : Places(x) = {p}
    <3>1. CASE Holds(x) /\ Asked(x) = {} /\ Answered(x) = {}
      <4>1. Places(x) = {<<"queue", 1>>}
        BY <2>2, <2>3, <3>1
      <4> QED
        BY <4>1
    <3>2. ASSUME ~Holds(x), Answered(x) = {}, NEW i \in Asked(x), Asked(x) = {i}
          PROVE  \E p : Places(x) = {p}
      <4>1. Places(x) = {<<"asked", i>>}
        BY <2>2, <2>3, <3>2
      <4> QED
        BY <4>1
    <3>3. CASE ~Holds(x) /\ Asked(x) = {} /\ Len(toWorker[x]) = 1
      <4>1. toWorker[x] \in Seq(ToWorker)
        BY <2>1 DEF Shapes
      <4>2. Answered(x) = {1}
        BY <3>3, <4>1 DEF Answered
      <4>3. Places(x) = {<<"answered", 1>>}
        BY <2>2, <2>3, <3>3, <4>2
      <4> QED
        BY <4>3
    <3> QED
      BY <2>1, <3>1, <3>2, <3>3 DEF Waits
  <2>5. \E p \in Places(x) : Places(x) = {p}
    BY <2>4
  <2> QED
    BY <2>1, <2>5 DEF Waits
<1> QED
  BY <1>1, WorkerInit, WorkerStep, PTL DEF Spec

=============================================================================
