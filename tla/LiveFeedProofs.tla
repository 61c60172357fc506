--------------------------- MODULE LiveFeedProofs ---------------------------
(***************************************************************************)
(* Theorems about LiveFeed, for any events, employees and number of GETs:  *)
(* the page shows no event twice, whoever brings it.                       *)
(***************************************************************************)
EXTENDS LiveFeed, FiniteSetTheorems, SequenceTheorems, TLAPS

-----------------------------------------------------------------------------
(* Sequences                                                                *)

LEMMA LongerSeq ==
  ASSUME NEW A, NEW B, A \subseteq B, NEW s \in Seq(A)
  PROVE  s \in Seq(B)
<1>1. Len(s) \in Nat /\ s \in [1..Len(s) -> A]
  OBVIOUS
<1>2. s \in [1..Len(s) -> B]
  BY <1>1
<1> QED
  BY <1>1, <1>2

LEMMA SeqHolds ==
  ASSUME NEW A, NEW s \in Seq(A)
  PROVE  /\ Len(s) \in Nat /\ DOMAIN s = 1..Len(s) /\ \A i \in DOMAIN s : s[i] \in A
         /\ ToSet(s) \subseteq A
<1>1. Len(s) \in Nat /\ DOMAIN s = 1..Len(s)
  OBVIOUS
<1>2. \A i \in DOMAIN s : s[i] \in A
  BY <1>1, ElementOfSeq
<1> QED
  BY <1>1, <1>2 DEF ToSet

LEMMA AppendHolds ==
  ASSUME NEW A, NEW s \in Seq(A), NEW e
  PROVE  /\ DOMAIN Append(s, e) = 1..(Len(s) + 1)
         /\ Append(s, e)[Len(s) + 1] = e
         /\ \A i \in 1..Len(s) : Append(s, e)[i] = s[i]
         /\ ToSet(Append(s, e)) = ToSet(s) \union {e}
<1>1. s \in Seq(A \union {e}) /\ e \in A \union {e}
  BY LongerSeq
<1>2. PICK t : t = Append(s, e)
  OBVIOUS
<1>3. /\ t \in Seq(A \union {e}) /\ Len(t) = Len(s) + 1 /\ t[Len(s) + 1] = e /\ \A i \in 1..Len(s) : t[i] = s[i]
  BY <1>1, <1>2
<1>4. DOMAIN t = 1..(Len(s) + 1) /\ DOMAIN s = 1..Len(s) /\ Len(s) \in Nat
  BY <1>3
<1>5. 1..(Len(s) + 1) = (1..Len(s)) \union {Len(s) + 1}
  BY <1>4
<1>6. ToSet(t) = ToSet(s) \union {e}
  BY <1>3, <1>4, <1>5 DEF ToSet
<1> QED
  BY <1>2, <1>3, <1>4, <1>6

\* two lists without a common id, one behind the other
LEMMA BothOnce ==
  ASSUME NEW A, NEW s \in Seq(A), NEW t \in Seq(A), Once(s), Once(t),
         \A i \in DOMAIN s, k \in DOMAIN t : s[i].id # t[k].id
  PROVE  s \o t \in Seq(A) /\ Once(s \o t)
<1>1. PICK l, m \in Nat : l = Len(s) /\ m = Len(t)
  OBVIOUS
<1>2. PICK u : u = s \o t
  OBVIOUS
<1>3. /\ u \in Seq(A) /\ Len(u) = l + m
      /\ \A i \in 1..(l + m) : u[i] = IF i <= l THEN s[i] ELSE t[i - l]
  BY <1>1, <1>2
<1>4. DOMAIN u = 1..(l + m) /\ DOMAIN s = 1..l /\ DOMAIN t = 1..m
  BY <1>1, <1>3
<1>5. ASSUME NEW i \in 1..(l + m), NEW k \in 1..(l + m), u[i].id = u[k].id
      PROVE  i = k
  <2>1. CASE i <= l /\ k <= l
    <3>1. i \in DOMAIN s /\ k \in DOMAIN s /\ s[i].id = s[k].id
      BY <1>3, <1>4, <1>5, <2>1
    <3> QED
      BY <3>1 DEF Once
  <2>2. CASE i <= l /\ ~(k <= l)
    <3>1. i \in DOMAIN s /\ k - l \in DOMAIN t /\ s[i].id = t[k - l].id
      BY <1>3, <1>4, <1>5, <2>2
    <3> QED
      BY <3>1
  <2>3. CASE ~(i <= l) /\ k <= l
    <3>1. k \in DOMAIN s /\ i - l \in DOMAIN t /\ s[k].id = t[i - l].id
      BY <1>3, <1>4, <1>5, <2>3
    <3> QED
      BY <3>1
  <2>4. CASE ~(i <= l) /\ ~(k <= l)
    <3>1. i - l \in DOMAIN t /\ k - l \in DOMAIN t /\ t[i - l].id = t[k - l].id
      BY <1>3, <1>4, <1>5, <2>4
    <3>2. i - l = k - l
      BY <3>1 DEF Once
    <3> QED
      BY <3>2
  <2> QED
    BY <2>1, <2>2, <2>3, <2>4
<1> QED
  BY <1>2, <1>3, <1>4, <1>5 DEF Once

-----------------------------------------------------------------------------
(* The order of the table                                                   *)

RowsAreKnown == stored \in Seq(Events) /\ Once(stored)
Below(rows, e) == {f \in rows : Before(f, e)}

LEMMA EventHolds == \A e \in Events : e.ts \in Nat /\ e.emp \in Employee
BY FeedAssumption

LEMMA StoredIsFinite ==
  ASSUME RowsAreKnown
  PROVE  IsFiniteSet(ToSet(stored))
<1>1. Len(stored) \in Nat /\ DOMAIN stored = 1..Len(stored)
  BY SeqHolds DEF RowsAreKnown
<1>2. stored \in [1..Len(stored) -> ToSet(stored)]
  BY <1>1 DEF ToSet, RowsAreKnown
<1>3. stored \in Surjection(1..Len(stored), ToSet(stored))
  BY <1>1, <1>2 DEF Surjection, ToSet
<1>4. IsFiniteSet(1..Len(stored))
  BY <1>1, FS_Interval
<1> QED
  BY <1>3, <1>4, FS_Surjection

LEMMA PlaceHolds ==
  ASSUME RowsAreKnown, NEW e \in ToSet(stored)
  PROVE  Place(e) \in Nat /\ Place(e) \in DOMAIN stored /\ stored[Place(e)] = e /\ e.ts \in Nat
<1>1. \E i \in DOMAIN stored : stored[i] = e
  BY DEF ToSet
<1>2. Place(e) \in DOMAIN stored /\ stored[Place(e)] = e
  BY <1>1 DEF Place
<1>3. DOMAIN stored = 1..Len(stored) /\ Len(stored) \in Nat /\ e \in Events
  BY SeqHolds DEF RowsAreKnown
<1> QED
  BY <1>2, <1>3, EventHolds

LEMMA BeforeIsAnOrder ==
  ASSUME RowsAreKnown
  PROVE  /\ \A e \in ToSet(stored) : ~Before(e, e)
         /\ \A e, f \in ToSet(stored) : e # f => Before(e, f) \/ Before(f, e)
         /\ \A e, f, g \in ToSet(stored) : Before(e, f) /\ Before(f, g) => Before(e, g)
<1>1. \A e \in ToSet(stored) : Place(e) \in Nat /\ e.ts \in Nat
  BY PlaceHolds
<1>2. \A e, f \in ToSet(stored) : Place(e) = Place(f) => e = f
  BY PlaceHolds
<1>3. \A e \in ToSet(stored) : ~Before(e, e)
  BY <1>1 DEF Before
<1>4. ASSUME NEW e \in ToSet(stored), NEW f \in ToSet(stored), e # f PROVE Before(e, f) \/ Before(f, e)
  <2>1. Place(e) # Place(f)
    BY <1>2, <1>4
  <2> QED
    BY <1>1, <2>1 DEF Before
<1>5. ASSUME NEW e \in ToSet(stored), NEW f \in ToSet(stored), NEW g \in ToSet(stored), Before(e, f), Before(f, g)
      PROVE  Before(e, g)
  <2>1. PICK a, b, c, x, y, z \in Nat :
          a = e.ts /\ b = f.ts /\ c = g.ts /\ x = Place(e) /\ y = Place(f) /\ z = Place(g)
    BY <1>1
  <2>2. (a < b \/ (a = b /\ x < y)) /\ (b < c \/ (b = c /\ y < z))
    BY <1>5, <2>1 DEF Before
  <2>3. a < c \/ (a = c /\ x < z)
    BY <2>2
  <2> QED
    BY <2>1, <2>3 DEF Before
<1> QED
  BY <1>3, <1>4, <1>5

\* how many rows are before a row: fewer before an earlier one, and never all
LEMMA FewerBelow ==
  ASSUME RowsAreKnown, NEW rows, rows \subseteq ToSet(stored), NEW e \in rows
  PROVE  /\ IsFiniteSet(rows) /\ Cardinality(rows) \in Nat
         /\ IsFiniteSet(Below(rows, e)) /\ Cardinality(Below(rows, e)) \in Nat
         /\ Cardinality(Below(rows, e)) < Cardinality(rows)
         /\ \A f \in rows : Before(e, f) => Cardinality(Below(rows, e)) < Cardinality(Below(rows, f))
<1>1. IsFiniteSet(rows) /\ Cardinality(rows) \in Nat
  BY StoredIsFinite, FS_Subset, FS_CardinalityType
<1>2. \A f \in rows : IsFiniteSet(Below(rows, f)) /\ Cardinality(Below(rows, f)) \in Nat
  <2> SUFFICES ASSUME NEW f \in rows PROVE IsFiniteSet(Below(rows, f)) /\ Cardinality(Below(rows, f)) \in Nat
    OBVIOUS
  <2>1. Below(rows, f) \subseteq rows
    BY DEF Below
  <2> QED
    BY <1>1, <2>1, FS_Subset, FS_CardinalityType
<1>3. e \notin Below(rows, e)
  BY BeforeIsAnOrder DEF Below
<1>4. /\ IsFiniteSet(Below(rows, e) \union {e})
      /\ Cardinality(Below(rows, e) \union {e}) = Cardinality(Below(rows, e)) + 1
  BY <1>2, <1>3, FS_AddElement
<1>5. Cardinality(Below(rows, e)) + 1 <= Cardinality(rows)
  <2>1. Below(rows, e) \union {e} \subseteq rows
    BY DEF Below
  <2> QED
    BY <1>1, <1>4, <2>1, FS_Subset
<1>6. ASSUME NEW f \in rows, Before(e, f)
      PROVE  Cardinality(Below(rows, e)) + 1 <= Cardinality(Below(rows, f))
  <2>1. Below(rows, e) \union {e} \subseteq Below(rows, f)
    BY <1>6, BeforeIsAnOrder DEF Below
  <2> QED
    BY <1>2, <1>4, <2>1, FS_Subset
<1> QED
  BY <1>1, <1>2, <1>5, <1>6

LEMMA EveryRankIsHeld ==
  ASSUME RowsAreKnown, NEW rows, rows \subseteq ToSet(stored), NEW i \in 1..Cardinality(rows)
  PROVE  \E e \in rows : Cardinality(Below(rows, e)) = i - 1
<1>1. IsFiniteSet(rows) /\ Cardinality(rows) \in Nat
  BY StoredIsFinite, FS_Subset, FS_CardinalityType
<1>2. PICK n \in Nat : n = Cardinality(rows)
  BY <1>1
<1>3. PICK r : r = [e \in rows |-> Cardinality(Below(rows, e)) + 1]
  OBVIOUS
<1>4. r \in [rows -> 1..n]
  BY <1>2, <1>3, FewerBelow
<1>5. ASSUME NEW e \in rows, NEW f \in rows, r[e] = r[f] PROVE e = f
  <2>1. Cardinality(Below(rows, e)) = Cardinality(Below(rows, f))
    BY <1>3, <1>5, FewerBelow
  <2>2. ~Before(e, f) /\ ~Before(f, e)
    BY <2>1, FewerBelow
  <2> QED
    BY <2>2, BeforeIsAnOrder
<1>6. r \in Injection(rows, 1..n)
  BY <1>4, <1>5 DEF Injection, IsInjective
<1>7. IsFiniteSet(1..n) /\ Cardinality(1..n) = n
  BY FS_Interval
<1>8. r \in Surjection(rows, 1..n)
  BY <1>2, <1>6, <1>7, FS_Injection
<1>9. PICK e \in rows : r[e] = i
  BY <1>2, <1>8 DEF Surjection
<1> QED
  BY <1>2, <1>3, <1>9, FewerBelow

(* A list in order has each row once.                                       *)
LEMMA InOrderHolds ==
  ASSUME RowsAreKnown, NEW rows, rows \subseteq ToSet(stored)
  PROVE  /\ IsFiniteSet(rows) /\ Cardinality(rows) \in Nat
         /\ InOrder(rows) \in Seq(rows) /\ Len(InOrder(rows)) = Cardinality(rows) /\ Once(InOrder(rows))
<1>1. IsFiniteSet(rows) /\ Cardinality(rows) \in Nat
  BY StoredIsFinite, FS_Subset, FS_CardinalityType
<1>2. PICK n \in Nat : n = Cardinality(rows)
  BY <1>1
<1>3. PICK s : s = InOrder(rows)
  OBVIOUS
<1>4. s = [i \in 1..n |-> CHOOSE e \in rows : Cardinality(Below(rows, e)) = i - 1]
  BY <1>2, <1>3 DEF InOrder, Below
<1>5. \A i \in 1..n : s[i] \in rows /\ Cardinality(Below(rows, s[i])) = i - 1
  BY <1>2, <1>4, EveryRankIsHeld
<1>6. s \in Seq(rows) /\ Len(s) = n /\ DOMAIN s = 1..n
  BY <1>4, <1>5
<1>7. ASSUME NEW i \in 1..n, NEW k \in 1..n, s[i].id = s[k].id PROVE i = k
  <2>1. s[i] \in ToSet(stored) /\ s[k] \in ToSet(stored)
    BY <1>5
  <2>2. s[i] = s[k]
    BY <1>7, <2>1 DEF RowsAreKnown, Once, ToSet
  <2>3. i - 1 = k - 1
    BY <1>5, <2>2
  <2> QED
    BY <2>3
<1> QED
  BY <1>1, <1>2, <1>3, <1>6, <1>7 DEF Once

-----------------------------------------------------------------------------
(* The steps                                                                *)

LEMMA FeedNow ==
  ASSUME FeedInv
  PROVE  /\ RowsAreKnown /\ stored \in Seq(Events) /\ ToSet(stored) \subseteq Events
         /\ wire \in Seq(ToSet(stored)) /\ shown \in Seq(ToSet(stored)) /\ Once(shown)
         /\ IsFiniteSet(gets) /\ Cardinality(gets) \in Nat /\ Ids(stored) = {e.id : e \in ToSet(stored)}
<1>1. RowsAreKnown /\ stored \in Seq(Events) /\ IsFiniteSet(gets)
  BY DEF FeedInv, RowsAreKnown
<1>2. ToSet(stored) \subseteq Events /\ Cardinality(gets) \in Nat
  BY <1>1, SeqHolds, FS_CardinalityType
<1>3. Ids(stored) = {e.id : e \in ToSet(stored)}
  BY DEF Ids, ToSet
<1>4. wire \in Seq(ToSet(stored)) /\ shown \in Seq(ToSet(stored))
  BY DEF FeedInv
<1>5. Once(shown)
  BY DEF FeedInv, ShownOnce, Once
<1> QED
  BY <1>1, <1>2, <1>3, <1>4, <1>5

LEMMA FeedStarts == Init => FeedInv
<1> SUFFICES ASSUME Init PROVE FeedInv
  OBVIOUS
<1>1. stored = <<>> /\ wire = <<>> /\ shown = <<>> /\ gets = {}
  BY DEF Init
<1>2. stored \in Seq(Events) /\ wire \in Seq(ToSet(stored)) /\ shown \in Seq(ToSet(stored))
  BY <1>1
<1>3. Once(stored) /\ ShownOnce
  BY <1>1 DEF Once, ShownOnce
<1>4. stream \in [open : BOOLEAN, since : Nat, pushed : SUBSET Ids(stored)]
  BY DEF Init
<1>5. IsFiniteSet(gets) /\ Cardinality(gets) = 0 /\ Cardinality(gets) <= MaxGets
  BY <1>1, FS_EmptySet, FeedAssumption
<1>6. TypeOK
  BY <1>4, <1>5 DEF Init, TypeOK
<1> QED
  BY <1>1, <1>2, <1>3, <1>4, <1>5, <1>6 DEF FeedInv

LEMMA StoreKeeps ==
  ASSUME FeedInv, NEW e \in Events, Store(e)
  PROVE  FeedInv'
<1>1. /\ stored \in Seq(Events) /\ stored' = Append(stored, e) /\ UNCHANGED <<stream, liveVars, pageVars>>
      /\ \A i \in DOMAIN stored : stored[i].id # e.id
  BY FeedNow DEF Store
<1>2. PICK l \in Nat : l = Len(stored)
  BY <1>1
<1>3. /\ DOMAIN stored' = 1..(l + 1) /\ DOMAIN stored = 1..l /\ stored'[l + 1] = e
      /\ \A i \in 1..l : stored'[i] = stored[i]
  BY <1>1, <1>2, AppendHolds
<1>4. ToSet(stored') = ToSet(stored) \union {e} /\ stored' \in Seq(Events)
  BY <1>1, AppendHolds
<1>5. Once(stored')
  <2> SUFFICES ASSUME NEW i \in 1..(l + 1), NEW k \in 1..(l + 1), stored'[i].id = stored'[k].id
               PROVE  i = k
    BY <1>3 DEF Once
  <2>1. CASE i \in 1..l /\ k \in 1..l
    BY <1>3, <2>1 DEF FeedInv, Once
  <2>2. CASE ~(i \in 1..l /\ k \in 1..l)
    <3>1. i = l + 1 \/ k = l + 1
      BY <2>2
    <3> QED
      BY <1>1, <1>3, <2>2, <3>1
  <2> QED
    BY <2>1, <2>2
<1>6. Ids(stored) \subseteq Ids(stored')
  BY <1>3 DEF Ids
<1>7. wire' \in Seq(ToSet(stored')) /\ shown' \in Seq(ToSet(stored'))
  <2>1. wire \in Seq(ToSet(stored)) /\ shown \in Seq(ToSet(stored)) /\ ToSet(stored) \subseteq ToSet(stored')
    BY <1>4, FeedNow
  <2>2. wire \in Seq(ToSet(stored')) /\ shown \in Seq(ToSet(stored'))
    BY <2>1, LongerSeq
  <2> QED
    BY <1>1, <2>2 DEF liveVars, pageVars
<1>8. TypeOK' /\ ShownOnce'
  BY <1>1, <1>6 DEF FeedInv, TypeOK, ShownOnce, liveVars, pageVars
<1>9. stream' \in [open : BOOLEAN, since : Nat, pushed : SUBSET Ids(stored')]
  BY <1>1, <1>6 DEF FeedInv
<1>10. IsFiniteSet(gets') /\ gets' \subseteq Query /\ \A g \in gets' : g.rows \subseteq ToSet(stored')
  BY <1>1, <1>4 DEF FeedInv, pageVars
<1>11. gets' \subseteq Query'
  BY <1>10 DEF Query
<1> QED
  BY <1>4, <1>5, <1>7, <1>8, <1>9, <1>10, <1>11 DEF FeedInv

\* the server and the wire move; the page and the table stay
LEMMA ServerMoves ==
  ASSUME FeedInv, UNCHANGED <<stored, seen, pageVars>>, connected' \in BOOLEAN,
         stream' \in [open : BOOLEAN, since : Nat, pushed : SUBSET Ids(stored)], wire' \in Seq(ToSet(stored))
  PROVE  FeedInv'
<1>1. Ids(stored)' = Ids(stored) /\ ToSet(stored)' = ToSet(stored) /\ Once(stored)' = Once(stored)
  BY DEF Ids, ToSet, Once
<1>2. stream'.open \in BOOLEAN /\ stream'.pushed \subseteq Ids(stored)
  OBVIOUS
<1>3. TypeOK' /\ ShownOnce'
  BY <1>1, <1>2 DEF FeedInv, TypeOK, ShownOnce, pageVars
<1>4. IsFiniteSet(gets') /\ gets' \subseteq Query' /\ \A g \in gets' : g.rows \subseteq ToSet(stored)
  BY DEF FeedInv, Query, pageVars
<1>5. shown' \in Seq(ToSet(stored)) /\ stored' \in Seq(Events)
  BY DEF FeedInv, pageVars
<1> QED
  BY <1>1, <1>3, <1>4, <1>5 DEF FeedInv

LEMMA ServerKeeps ==
  ASSUME FeedInv, Connect \/ Round \/ Deadline \/ Break
  PROVE  FeedInv'
<1>1. /\ stream \in [open : BOOLEAN, since : Nat, pushed : SUBSET Ids(stored)]
      /\ wire \in Seq(ToSet(stored)) /\ connected \in BOOLEAN
  BY DEF FeedInv, TypeOK
<1>2. CASE Connect
  <2>1. /\ UNCHANGED <<stored, seen, connected, pageVars>> /\ wire' = <<>>
        /\ stream' = [open |-> TRUE, since |-> 1, pushed |-> {}]
    BY <1>2 DEF Connect
  <2>2. stream' \in [open : BOOLEAN, since : Nat, pushed : SUBSET Ids(stored)]
    BY <2>1
  <2>3. wire' \in Seq(ToSet(stored))
    BY <2>1
  <2> QED
    BY <1>1, <2>1, <2>2, <2>3, ServerMoves
<1>3. CASE Round
  <2>1. /\ UNCHANGED <<stored, seen, connected, pageVars>> /\ wire' = wire \o InOrder(Fresh) /\ Fresh # {}
        /\ stream' = [stream EXCEPT !.since = Last(InOrder(Fresh)).ts,
                                    !.pushed = stream.pushed \union {e.id : e \in Fresh}]
    BY <1>3 DEF Round
  <2>2. Fresh \subseteq ToSet(stored)
    BY DEF Fresh, List
  <2>3. InOrder(Fresh) \in Seq(Fresh) /\ Len(InOrder(Fresh)) = Cardinality(Fresh) /\ IsFiniteSet(Fresh)
    BY <2>2, FeedNow, InOrderHolds
  <2>4. Cardinality(Fresh) \in Nat /\ Cardinality(Fresh) # 0
    BY <2>1, <2>3, FS_EmptySet, FS_CardinalityType
  <2>5. Last(InOrder(Fresh)) \in Fresh
    <3>1. Len(InOrder(Fresh)) \in 1..Len(InOrder(Fresh))
      BY <2>3, <2>4
    <3> QED
      BY <2>3, <3>1, ElementOfSeq DEF Last
  <2>6. PICK t \in Nat : t = Last(InOrder(Fresh)).ts
    BY <2>2, <2>5, FeedNow, EventHolds
  <2>7. PICK ids \in SUBSET Ids(stored) : ids = stream.pushed \union {e.id : e \in Fresh}
    BY <1>1, <2>2, FeedNow
  <2>8. stream' \in [open : BOOLEAN, since : Nat, pushed : SUBSET Ids(stored)]
    BY <1>1, <2>1, <2>6, <2>7
  <2>9. wire' \in Seq(ToSet(stored))
    <3>1. InOrder(Fresh) \in Seq(ToSet(stored))
      BY <2>2, <2>3, LongerSeq
    <3>2. PICK u : u = InOrder(Fresh)
      OBVIOUS
    <3> QED
      BY <1>1, <2>1, <3>1, <3>2
  <2> QED
    BY <1>1, <2>1, <2>8, <2>9, ServerMoves
<1>4. CASE Deadline
  <2>1. /\ UNCHANGED <<stored, wire, seen, pageVars>> /\ connected' = FALSE
        /\ stream' = [stream EXCEPT !.open = FALSE]
    BY <1>4 DEF Deadline
  <2>2. stream' \in [open : BOOLEAN, since : Nat, pushed : SUBSET Ids(stored)] /\ wire' \in Seq(ToSet(stored))
    BY <1>1, <2>1
  <2> QED
    BY <2>1, <2>2, ServerMoves
<1>5. CASE Break
  <2>1. /\ UNCHANGED <<stored, seen, pageVars>> /\ connected' = FALSE /\ wire' = <<>>
        /\ stream' = [stream EXCEPT !.open = FALSE]
    BY <1>5 DEF Break
  <2>2. stream' \in [open : BOOLEAN, since : Nat, pushed : SUBSET Ids(stored)]
    BY <1>1, <2>1
  <2>3. wire' \in Seq(ToSet(stored))
    BY <2>1
  <2> QED
    BY <2>1, <2>2, <2>3, ServerMoves
<1> QED
  BY <1>2, <1>3, <1>4, <1>5

\* the page moves, and what it has read of the wire; the table and the stream stay
LEMMA PageMoves ==
  ASSUME FeedInv, UNCHANGED <<stored, stream>>, wire' \in Seq(ToSet(stored)), seen' \subseteq Ids(stored),
         connected' \in BOOLEAN, history' \in BOOLEAN, sseLive' \in BOOLEAN, spoiled' \in BOOLEAN,
         cur' \in Employee \union {NoOne}, shown' \in Seq(ToSet(stored)), Once(shown'),
         IsFiniteSet(gets'), Cardinality(gets') <= MaxGets, gets' \subseteq Query,
         \A g \in gets' : g.rows \subseteq ToSet(stored)
  PROVE  FeedInv'
<1>1. Ids(stored)' = Ids(stored) /\ ToSet(stored)' = ToSet(stored) /\ Once(stored)' = Once(stored)
  BY DEF Ids, ToSet, Once
<1>2. TypeOK'
  BY <1>1 DEF FeedInv, TypeOK
<1>3. ShownOnce'
  BY DEF ShownOnce, Once
<1>4. Query' = Query
  BY DEF Query
<1>5. /\ stored' \in Seq(Events) /\ stream' \in [open : BOOLEAN, since : Nat, pushed : SUBSET Ids(stored)]
      /\ Once(stored)
  BY DEF FeedInv
<1> QED
  BY <1>1, <1>2, <1>3, <1>4, <1>5 DEF FeedInv

LEMMA PageNow ==
  ASSUME FeedInv
  PROVE  /\ wire \in Seq(ToSet(stored)) /\ seen \subseteq Ids(stored) /\ connected \in BOOLEAN
         /\ history \in BOOLEAN /\ sseLive \in BOOLEAN /\ spoiled \in BOOLEAN
         /\ cur \in Employee \union {NoOne} /\ shown \in Seq(ToSet(stored)) /\ Once(shown)
         /\ IsFiniteSet(gets) /\ Cardinality(gets) \in Nat /\ Cardinality(gets) <= MaxGets /\ MaxGets \in Nat
         /\ gets \subseteq Query /\ \A g \in gets : g.rows \subseteq ToSet(stored)
BY FeedNow, FeedAssumption DEF FeedInv, TypeOK

LEMMA ReceiveKeeps ==
  ASSUME FeedInv, Receive
  PROVE  FeedInv'
<1>1. PICK e : e = Head(wire)
  OBVIOUS
<1>2. e \in ToSet(stored) /\ wire' \in Seq(ToSet(stored))
  <2>1. wire # <<>> /\ wire' = Tail(wire)
    BY DEF Receive
  <2> QED
    BY <1>1, <2>1, PageNow
<1>3. /\ seen' = seen \union {e.id} /\ connected' = TRUE
      /\ UNCHANGED <<serverVars, cur, history, gets, base, spoiled>>
  BY <1>1 DEF Receive
<1>4. seen' \subseteq Ids(stored)
  BY <1>2, <1>3, PageNow, FeedNow
<1>5. sseLive' \in BOOLEAN
  <2>1. sseLive' = sseLive \/ sseLive' = TRUE
    BY DEF Receive
  <2> QED
    BY <2>1, PageNow
<1>6. shown' \in Seq(ToSet(stored)) /\ Once(shown')
  <2>1. CASE shown' = shown
    BY <2>1, PageNow
  <2>2. CASE e.id \notin Ids(shown) /\ shown' = Append(shown, e)
    <3>1. PICK one : one = <<e>>
      OBVIOUS
    <3>2. one \in Seq(ToSet(stored)) /\ DOMAIN one = 1..1 /\ one[1] = e
      BY <1>2, <3>1
    <3>3. Once(one) /\ \A i \in DOMAIN shown, k \in DOMAIN one : shown[i].id # one[k].id
      BY <2>2, <3>2 DEF Once, Ids
    <3>4. shown \o one \in Seq(ToSet(stored)) /\ Once(shown \o one)
      BY <3>2, <3>3, PageNow, BothOnce
    <3>5. shown \o one = Append(shown, e)
      <4>1. shown \in Seq(ToSet(stored))
        BY PageNow
      <4> QED
        BY <1>2, <3>1, <4>1
    <3> QED
      BY <2>2, <3>4, <3>5
  <2> QED
    BY <1>1, <2>1, <2>2 DEF Receive
<1>7. UNCHANGED <<stored, stream, cur, history, gets, spoiled>>
  BY <1>3 DEF serverVars
<1>8. connected' \in BOOLEAN
  BY <1>3
<1> QED
  BY <1>2, <1>4, <1>5, <1>6, <1>7, <1>8, PageNow, PageMoves

\* one more GET, of a list of stored events
LEMMA RequestHolds ==
  ASSUME FeedInv, NEW e \in Employee \union {NoOne}, NEW list \in Seq(ToSet(stored)), Request(e, list)
  PROVE  /\ IsFiniteSet(gets') /\ Cardinality(gets') <= MaxGets /\ gets' \subseteq Query
         /\ \A g \in gets' : g.rows \subseteq ToSet(stored)
<1>1. PICK q : q = [emp |-> e, since |-> LastTs(list), st |-> "asked", rows |-> {}]
  OBVIOUS
<1>2. LastTs(list) \in Nat \union {NoTs}
  <2>1. CASE list = <<>>
    BY <2>1 DEF LastTs
  <2>2. CASE list # <<>>
    <3>1. Len(list) \in 1..Len(list)
      BY <2>2
    <3>2. Last(list) \in ToSet(stored)
      BY <3>1, ElementOfSeq DEF Last
    <3> QED
      BY <2>2, <3>2, FeedNow, EventHolds DEF LastTs
  <2> QED
    BY <2>1, <2>2
<1>3. q \in Query /\ q.rows = {}
  BY <1>1, <1>2 DEF Query
<1>4. gets' = gets \union {q} /\ Cardinality(gets) < MaxGets
  BY <1>1 DEF Request
<1>5. IsFiniteSet(gets') /\ Cardinality(gets') <= Cardinality(gets) + 1
  <2>1. PICK n \in Nat : n = Cardinality(gets)
    BY PageNow
  <2>2. IsFiniteSet(gets \union {q}) /\ Cardinality(gets \union {q}) = IF q \in gets THEN n ELSE n + 1
    BY <2>1, PageNow, FS_AddElement
  <2>3. Cardinality(gets \union {q}) <= n + 1
    BY <2>2
  <2> QED
    BY <1>4, <2>1, <2>2, <2>3
<1>6. Cardinality(gets') \in Nat
  BY <1>5, FS_CardinalityType
<1>7. Cardinality(gets') <= MaxGets
  BY <1>4, <1>5, <1>6, PageNow
<1> QED
  BY <1>3, <1>4, <1>5, <1>7, PageNow

LEMMA AskKeeps ==
  ASSUME FeedInv, Poll \/ \E e \in Employee : LoadRoster(e) \/ SelectEmployee(e)
  PROVE  FeedInv'
<1>1. CASE Poll
  <2>1. UNCHANGED <<stored, stream, wire, seen, connected, cur, shown, history, sseLive, spoiled>>
    BY <1>1 DEF Poll, serverVars, liveVars
  <2>2. Request(cur, shown)
    BY <1>1 DEF Poll
  <2>3. /\ IsFiniteSet(gets') /\ Cardinality(gets') <= MaxGets /\ gets' \subseteq Query
        /\ \A g \in gets' : g.rows \subseteq ToSet(stored)
    BY <2>2, PageNow, RequestHolds
  <2> QED
    BY <2>1, <2>3, PageNow, PageMoves
<1>2. ASSUME NEW e \in Employee, LoadRoster(e) PROVE FeedInv'
  <2>1. UNCHANGED <<stored, stream, wire, seen, connected, shown, history, sseLive, spoiled>> /\ cur' = e
    BY <1>2 DEF LoadRoster, serverVars, liveVars
  <2>2. Request(e, shown)
    BY <1>2 DEF LoadRoster
  <2>3. /\ IsFiniteSet(gets') /\ Cardinality(gets') <= MaxGets /\ gets' \subseteq Query
        /\ \A g \in gets' : g.rows \subseteq ToSet(stored)
    BY <2>2, PageNow, RequestHolds
  <2>4. cur' \in Employee \union {NoOne}
    BY <2>1
  <2> QED
    BY <2>1, <2>3, <2>4, PageNow, PageMoves
<1>3. ASSUME NEW e \in Employee, SelectEmployee(e) PROVE FeedInv'
  <2>1. /\ UNCHANGED <<stored, stream, wire, seen, connected, sseLive>> /\ cur' = e
        /\ shown' = <<>> /\ history' = FALSE /\ spoiled' = FALSE
    BY <1>3 DEF SelectEmployee, serverVars, liveVars
  <2>2. Request(e, <<>>)
    BY <1>3 DEF SelectEmployee
  <2>3. <<>> \in Seq(ToSet(stored))
    OBVIOUS
  <2>4. /\ IsFiniteSet(gets') /\ Cardinality(gets') <= MaxGets /\ gets' \subseteq Query
        /\ \A g \in gets' : g.rows \subseteq ToSet(stored)
    BY <2>2, <2>3, RequestHolds
  <2>5. shown' \in Seq(ToSet(stored)) /\ Once(shown')
    BY <2>1, <2>3 DEF Once
  <2>6. cur' \in Employee \union {NoOne} /\ history' \in BOOLEAN /\ spoiled' \in BOOLEAN
    BY <2>1
  <2> QED
    BY <2>1, <2>4, <2>5, <2>6, PageNow, PageMoves
<1> QED
  BY <1>1, <1>2, <1>3

\* a GET less, and perhaps one in its place
LEMMA GetsHold ==
  ASSUME FeedInv, NEW g \in gets, NEW q \in Query, q.rows \subseteq ToSet(stored),
         NEW new, new = gets \ {g} \/ new = (gets \ {g}) \union {q}
  PROVE  /\ IsFiniteSet(new) /\ Cardinality(new) <= MaxGets /\ new \subseteq Query
         /\ \A h \in new : h.rows \subseteq ToSet(stored)
<1>1. PICK n \in Nat : n = Cardinality(gets)
  BY PageNow
<1>2. PICK rest : rest = gets \ {g}
  OBVIOUS
<1>3. IsFiniteSet(rest) /\ Cardinality(rest) = n - 1
  BY <1>1, <1>2, PageNow, FS_RemoveElement
<1>4. IsFiniteSet(new) /\ Cardinality(new) <= n
  <2>1. CASE new = rest
    BY <1>1, <1>3, <2>1
  <2>2. CASE new = rest \union {q}
    BY <1>1, <1>3, <2>2, FS_AddElement
  <2> QED
    BY <1>2, <2>1, <2>2
<1>5. Cardinality(new) \in Nat
  BY <1>4, FS_CardinalityType
<1>6. Cardinality(new) <= MaxGets
  BY <1>1, <1>4, <1>5, PageNow
<1> QED
  BY <1>4, <1>6, PageNow

LEMMA AnswerKeeps ==
  ASSUME FeedInv, NEW g \in gets, Answer(g) \/ Arrive(g) \/ Fail(g)
  PROVE  FeedInv'
<1>0. g \in Query /\ g.rows \subseteq ToSet(stored)
  BY PageNow
<1>1. CASE Answer(g)
  <2>1. UNCHANGED <<stored, stream, wire, seen, connected, cur, shown, history, sseLive, spoiled>>
    BY <1>1 DEF Answer, serverVars, liveVars
  <2>2. PICK rows : rows = List(g.emp, g.since)
    OBVIOUS
  <2>3. rows \subseteq ToSet(stored) /\ rows \subseteq Events
    BY <2>2, FeedNow DEF List
  <2>4. PICK q : q = [g EXCEPT !.st = "answered", !.rows = rows]
    OBVIOUS
  <2>5. q \in Query /\ q.rows = rows
    BY <1>0, <2>3, <2>4 DEF Query
  <2>6. gets' = (gets \ {g}) \union {q}
    BY <1>1, <2>2, <2>4 DEF Answer
  <2>7. /\ IsFiniteSet(gets') /\ Cardinality(gets') <= MaxGets /\ gets' \subseteq Query
        /\ \A h \in gets' : h.rows \subseteq ToSet(stored)
    BY <2>3, <2>5, <2>6, GetsHold
  <2> QED
    BY <2>1, <2>7, PageNow, PageMoves
<1>2. CASE Arrive(g)
  <2>1. UNCHANGED <<stored, stream, wire, seen, connected, cur, sseLive, spoiled>> /\ gets' = gets \ {g}
    BY <1>2 DEF Arrive, serverVars, liveVars
  <2>2. /\ IsFiniteSet(gets') /\ Cardinality(gets') <= MaxGets /\ gets' \subseteq Query
        /\ \A h \in gets' : h.rows \subseteq ToSet(stored)
    BY <1>0, <2>1, GetsHold
  <2>3. PICK rows : rows = {e \in g.rows : e.id \notin Ids(shown)}
    OBVIOUS
  <2>4. rows \subseteq ToSet(stored) /\ \A e \in rows : e.id \notin Ids(shown)
    BY <1>0, <2>3
  <2>5. InOrder(rows) \in Seq(rows) /\ Once(InOrder(rows))
    BY <2>4, FeedNow, InOrderHolds
  <2>6. PICK s : s = InOrder(rows)
    OBVIOUS
  <2>7. s \in Seq(ToSet(stored)) /\ Once(s)
    BY <2>4, <2>5, <2>6, LongerSeq
  <2>8. \A i \in DOMAIN shown, k \in DOMAIN s : shown[i].id # s[k].id
    <3>1. \A k \in DOMAIN s : s[k] \in rows
      BY <2>5, <2>6, SeqHolds
    <3> QED
      BY <2>4, <3>1 DEF Ids
  <2>9. shown \o s \in Seq(ToSet(stored)) /\ Once(shown \o s)
    BY <2>7, <2>8, PageNow, BothOnce
  <2>10. /\ shown' = shown \/ shown' = shown \o s
         /\ history' = history \/ history' = TRUE
    BY <1>2, <2>3, <2>6 DEF Arrive
  <2>11. shown' \in Seq(ToSet(stored)) /\ Once(shown') /\ history' \in BOOLEAN
    BY <2>9, <2>10, PageNow
  <2> QED
    BY <2>1, <2>2, <2>11, PageNow, PageMoves
<1>3. CASE Fail(g)
  <2>1. /\ UNCHANGED <<stored, stream, wire, seen, connected, cur, shown, history, sseLive>>
        /\ gets' = gets \ {g} /\ spoiled' = TRUE
    BY <1>3 DEF Fail, serverVars, liveVars
  <2>2. /\ IsFiniteSet(gets') /\ Cardinality(gets') <= MaxGets /\ gets' \subseteq Query
        /\ \A h \in gets' : h.rows \subseteq ToSet(stored)
    BY <1>0, <2>1, GetsHold
  <2>3. spoiled' \in BOOLEAN
    BY <2>1
  <2> QED
    BY <2>1, <2>2, <2>3, PageNow, PageMoves
<1> QED
  BY <1>1, <1>2, <1>3

LEMMA FeedInvariant == Spec => []FeedInv
<1>1. FeedInv /\ [Next]_vars => FeedInv'
  <2> SUFFICES ASSUME FeedInv, [Next]_vars PROVE FeedInv'
    OBVIOUS
  <2>1. CASE UNCHANGED vars
    <3>1. UNCHANGED <<stored, stream, wire, seen, connected, cur, shown, history, sseLive, gets, spoiled>>
      BY <2>1 DEF vars, serverVars, liveVars, pageVars
    <3> QED
      BY <3>1, PageNow, PageMoves
  <2>2. CASE Next
    BY <2>2, StoreKeeps, ServerKeeps, ReceiveKeeps, AskKeeps, AnswerKeeps DEF Next
  <2> QED
    BY <2>1, <2>2
<1> QED
  BY <1>1, FeedStarts, PTL DEF Spec

-----------------------------------------------------------------------------
(* Type correctness of the feed: what the stream has pushed and the console *)
(* has seen is stored, and GETs stay within their bound.                    *)
THEOREM FeedTypeCorrect == Spec => []TypeOK
<1>1. FeedInv => TypeOK
  BY DEF FeedInv
<1> QED
  BY <1>1, FeedInvariant, PTL

(* The page shows no event twice, whichever of the stream, a replay after a *)
(* reconnect and overlapping fetches brings it, for any number of events    *)
(* with any time stamps (ingest and load of EmployeeLive.vue).              *)
THEOREM NothingShownTwice == Spec => []ShownOnce
<1>1. FeedInv => ShownOnce
  BY DEF FeedInv
<1> QED
  BY <1>1, FeedInvariant, PTL

=============================================================================
