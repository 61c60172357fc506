--------------------------- MODULE ServicesProofs ---------------------------
(***************************************************************************)
(* What holds of the services for every value of the constants.            *)
(***************************************************************************)
EXTENDS Services, FiniteSetTheorems, SequenceTheorems, WellFoundedInduction, TLAPS

-----------------------------------------------------------------------------
(* Files                                                                    *)

LEMMA FilesStart == F!Init => F!FilesInv
<1> SUFFICES ASSUME F!Init PROVE F!FilesInv
  OBVIOUS
<1>1. F!Empty \in F!Content
  BY DEF F!Empty, F!Content
<1>2. F!TypeOK
  <2>1. s3 \in Seq(F!Change) /\ s3 = << >>
    BY DEF F!Init
  <2>2. s7 \in [Thing -> SUBSET (Value \union {None})]
    BY DEF F!Init
  <2> QED
    BY <1>1, <2>1, <2>2 DEF F!Init, F!TypeOK
<1>3. F!AnsweredIsStored /\ F!CacheIsCurrent
  BY DEF F!Init, F!AnsweredIsStored, F!CacheIsCurrent, F!Empty
<1> QED
  BY <1>2, <1>3 DEF F!FilesInv

LEMMA FirstChange ==
  ASSUME NEW A, NEW q \in Seq(A), q # << >>
  PROVE  Head(q) \in A /\ Tail(q) \in Seq(A)
OBVIOUS

LEMMA FilesType == F!FilesInv /\ [F!Next]_F!vars => F!TypeOK'
<1> SUFFICES ASSUME F!FilesInv, [F!Next]_F!vars PROVE F!TypeOK'
  OBVIOUS
<1> USE FileConstants DEF F!FilesInv, F!TypeOK, F!FileAssumption
<1>a. s3 # << >> => Head(s3) \in F!Change /\ Tail(s3) \in Seq(F!Change)
  BY FirstChange
<1>1. ASSUME NEW ch \in F!Change, F!Request(ch) PROVE F!TypeOK'
  BY <1>1 DEF F!Request
<1>2. CASE F!BeginLoad
  BY <1>a, <1>2 DEF F!BeginLoad, F!Dequeue
<1>3. CASE F!MakeChange
  <2>1. PICK c \in F!Content : F!Make(c)
    BY <1>3 DEF F!MakeChange
  <2>2. Head(s3) \in F!Change /\ Head(s3).op # "seed" /\ s3 # << >>
    BY <1>a, <1>3 DEF F!MakeChange
  <2>3. F!Apply(Head(s3), c) \in F!Content
    BY <2>2 DEF F!Apply, F!Content, F!Change
  <2> QED
    BY <1>a, <1>3, <2>1, <2>2, <2>3 DEF F!MakeChange, F!Make, F!Dequeue
<1>4. CASE F!SeedFile
  BY <1>a, <1>4 DEF F!SeedFile, F!Dequeue
<1>5. CASE F!WriteTmp
  BY <1>5 DEF F!WriteTmp
<1>6. CASE F!Rename
  BY <1>a, <1>6 DEF F!Rename, F!Dequeue, F!Content
<1>7. CASE F!FlushFails
  BY <1>a, <1>7 DEF F!FlushFails, F!Unanswered, F!Dequeue, F!Content, F!Given, F!Touched, F!Change
<1>8. ASSUME NEW r \in Reader, F!ReadFile(r) PROVE F!TypeOK'
  BY <1>8 DEF F!ReadFile
<1>9. ASSUME NEW r \in Reader, F!KeepRead(r) PROVE F!TypeOK'
  BY <1>9 DEF F!KeepRead
<1>10. CASE F!Damage
  BY <1>10 DEF F!Damage
<1>11. CASE F!Crash
  BY <1>11 DEF F!Crash, F!Unanswered, F!Content, F!Given, F!Touched, F!Change
<1>12. CASE UNCHANGED F!vars
  BY <1>12 DEF F!vars
<1> QED
  BY <1>1, <1>2, <1>3, <1>4, <1>5, <1>6, <1>7, <1>8, <1>9, <1>10, <1>11, <1>12 DEF F!Next
LEMMA UnansweredKeeps ==
  ASSUME NEW ch, NEW i \in Thing
  PROVE  /\ s7[i] \subseteq F!Unanswered(ch)[i]
         /\ i \in F!Touched(ch) => F!Given(ch, i) \in F!Unanswered(ch)[i]
BY DEF F!Unanswered

(* A change that is not stale leaves stored and cache in step.              *)
LEMMA FilesStep == F!FilesInv /\ [F!Next]_F!vars => F!FilesInv'
<1> SUFFICES ASSUME F!FilesInv, [F!Next]_F!vars, ~s8'
             PROVE  F!AnsweredIsStored' /\ F!CacheIsCurrent'
  BY FilesType DEF F!FilesInv
<1> USE FileConstants DEF F!TypeOK, F!FileAssumption, F!AnsweredIsStored, F!CacheIsCurrent, F!Kept
<1>a. F!TypeOK /\ F!TypeOK'
  BY FilesType DEF F!FilesInv
<1>b. ~s8 => F!AnsweredIsStored /\ F!CacheIsCurrent
  BY DEF F!FilesInv
<1>1. ASSUME NEW ch \in F!Change, F!Request(ch) PROVE F!AnsweredIsStored' /\ F!CacheIsCurrent'
  <2>1. s3 # << >> => Head(s3') = Head(s3)
    BY <1>a, <1>1 DEF F!Request
  <2> QED
    BY <1>a, <1>b, <1>1, <2>1 DEF F!Request, F!Given, F!Touched
<1>2. CASE F!BeginLoad
  BY <1>a, <1>b, <1>2 DEF F!BeginLoad, F!Dequeue
<1>3. CASE F!MakeChange
  <2>1. PICK c \in F!Content : F!Make(c) /\ F!Kept(c)
    BY <1>a, <1>b, <1>3 DEF F!MakeChange
  <2>2. Head(s3) \in F!Change /\ Head(s3).op # "seed" /\ s3 # << >>
    BY <1>a, <1>3, FirstChange DEF F!MakeChange
  <2>3. \A i \in Thing : F!Apply(Head(s3), c)[i] = IF i = Head(s3).id THEN Head(s3).v ELSE c[i]
    BY <2>2 DEF F!Apply, F!Content, F!Change
  <2>4. CASE F!Applies(Head(s3), c)
    BY <1>a, <1>b, <1>3, <2>1, <2>2, <2>3, <2>4 DEF F!MakeChange, F!Make, F!Given, F!Touched
  <2>5. CASE ~F!Applies(Head(s3), c)
    BY <1>a, <1>b, <1>3, <2>1, <2>5 DEF F!MakeChange, F!Make, F!Dequeue
  <2> QED
    BY <2>4, <2>5
<1>4. CASE F!SeedFile
  BY <1>a, <1>b, <1>4 DEF F!SeedFile, F!Dequeue, F!Given, F!Touched
<1>5. CASE F!WriteTmp
  BY <1>a, <1>b, <1>5 DEF F!WriteTmp
<1>6. CASE F!Rename
  <2>1. ~s8 /\ s1' = [is |-> "whole", content |-> s5] /\ s2' = s2 /\ s4' = "wait" /\ s6' = s6
    BY <1>6 DEF F!Rename, F!Dequeue
  <2>2. s2 = s5 /\ s2 # None
    BY <1>a, <1>b, <1>6, <2>1 DEF F!Rename
  <2>3. ASSUME NEW i \in Thing PROVE s5[i] \in s7'[i]
    <3> DEFINE touched == F!Touched(Head(s3))
    <3>1. s7'[i] = IF i \in touched THEN {s5[i]} ELSE s7[i]
      BY <1>6 DEF F!Rename
    <3>2. i \notin touched => s5[i] \in s7[i]
      BY <1>b, <1>6, <2>1 DEF F!Rename
    <3> QED
      BY <3>1, <3>2
  <2> QED
    BY <2>1, <2>2, <2>3
<1>7. CASE F!FlushFails
  <2>1. ~s8 /\ UNCHANGED <<s1, s2, s6>> /\ s4' = "wait" /\ s2 = s5 /\ s2 # None
    BY <1>a, <1>b, <1>7 DEF F!FlushFails, F!Dequeue
  <2>2. ASSUME NEW i \in Thing PROVE s5[i] \in s7'[i] /\ s7[i] \subseteq s7'[i]
    BY <1>b, <1>7, <2>1, UnansweredKeeps DEF F!FlushFails
  <2> QED
    BY <1>b, <2>1, <2>2
<1>8. ASSUME NEW r \in Reader, F!ReadFile(r) PROVE F!AnsweredIsStored' /\ F!CacheIsCurrent'
  BY <1>a, <1>b, <1>8 DEF F!ReadFile
<1>9. ASSUME NEW r \in Reader, F!KeepRead(r) PROVE F!AnsweredIsStored' /\ F!CacheIsCurrent'
  BY <1>a, <1>b, <1>9 DEF F!KeepRead
<1>10. CASE F!Damage
  BY <1>a, <1>b, <1>10 DEF F!Damage
<1>11. CASE F!Crash
  BY <1>a, <1>b, <1>11 DEF F!Crash, F!Unanswered
<1>12. CASE UNCHANGED F!vars
  BY <1>a, <1>b, <1>12 DEF F!vars
<1> QED
  BY <1>1, <1>2, <1>3, <1>4, <1>5, <1>6, <1>7, <1>8, <1>9, <1>10, <1>11, <1>12 DEF F!Next

LEMMA DamageIsLeftAlone == F!FilesInv /\ [F!Next]_F!vars => F!KeepsDamaged
<1> SUFFICES ASSUME F!FilesInv, F!Unread, [F!Next]_F!vars PROVE s1' = s1 /\ s2' = None
  BY DEF F!KeepsDamaged
<1>1. s4 = "wait" /\ s2 = None /\ s1.is = "damaged"
  BY FileConstants DEF F!Unread, F!FilesInv, F!TypeOK, F!FileAssumption
<1> QED
  BY <1>1 DEF F!Next, F!Unread, F!Request, F!BeginLoad, F!MakeChange, F!SeedFile, F!WriteTmp, F!Rename,
              F!FlushFails, F!ReadFile, F!KeepRead, F!Damage, F!Crash, F!vars

(* What was answered with success is in the file, whatever crashed between *)
(* the temporary file and its renaming: for every set of ids, queue and    *)
(* number of readers beside it (load and flush of the file stores).        *)
THEOREM AnswersLast == Spec => []AnsweredIsStored
<1> DEFINE Inv == part = "files" => F!FilesInv
<1>1. Init => Inv
  BY FilesStart DEF Init
<1>2. Inv /\ [Next]_vars => Inv'
  <2> SUFFICES ASSUME Inv, [Next]_vars, part' = "files" PROVE F!FilesInv'
    OBVIOUS
  <2>1. part = "files" /\ [F!Next]_F!vars
    BY DEF Next, vars, F!vars
  <2> QED
    BY <2>1, FilesStep
<1>3. Inv => AnsweredIsStored
  BY DEF F!FilesInv, F!AnsweredIsStored, AnsweredIsStored
<1> QED
  BY <1>1, <1>2, <1>3, PTL DEF Spec

-----------------------------------------------------------------------------
(* Skills                                                                   *)

LEMMA LibraryStart == L!Init => L!LibraryInv
<1> SUFFICES ASSUME L!Init PROVE L!LibraryInv
  OBVIOUS
<1>1. \A j \in Actor : s4[j] = L!Idle
  BY DEF L!Init
<1>2. L!Idle.op = "idle"
  BY DEF L!Idle
<1>3. L!TypeOK
  BY <1>1, <1>2 DEF L!Init, L!TypeOK, L!Jobs
<1>4. L!OwnIds /\ L!ReviewDecides /\ L!LibraryIsConsistent
  BY DEF L!Init, L!OwnIds, L!ReviewDecides, L!LibraryIsConsistent, L!Effective, L!Mounted
<1>5. L!Current(L!Idle)
  BY <1>2 DEF L!Current, L!Seen
<1> QED
  BY <1>1, <1>3, <1>4, <1>5 DEF L!LibraryInv, L!LibraryState

(* The fields a job has, by what it does.                                   *)
LEMMA JobFields ==
  ASSUME NEW r \in L!Jobs
  PROVE  /\ r.op = "category" => r \in [op : {"category"}, at : {"write"}, c : Thing, n : Name]
         /\ r.op = "uncategory" => r \in [op : {"uncategory"}, at : {"write"}, c : Thing]
         /\ r.op = "post" => r \in [op : {"post"}, at : {"exists", "write"}, s : Skill, c : Thing, t : Wording]
         /\ r.op = "put" => r \in [op : {"put"}, at : {"list", "write"}, s : Skill, c : Thing, t : Wording,
                                    status : L!Status]
         /\ r.op = "review" => r \in [op : {"review"}, at : {"write"}, s : Skill, doc : L!Doc]
         /\ r.op = "distill" /\ r.at = "asked" =>
              r \in [op : {"distill"}, at : {"asked"}, cats : SUBSET Thing, made : Nat,
                     s : {None}, c : {None}, t : {None}]
         /\ r.op = "distill" /\ r.at = "write" =>
              r \in [op : {"distill"}, at : {"write"}, cats : SUBSET Thing, made : Nat,
                     s : Skill, c : Thing, t : Wording]
BY DEF L!Jobs, L!Idle

LEMMA SeenCategories == ASSUME NEW r \in L!Jobs PROVE L!Seen(r) \subseteq Thing
BY DEF L!Jobs, L!Idle, L!Seen

LEMMA LibraryType == L!TypeOK /\ [L!Next]_L!vars => L!TypeOK'
<1> SUFFICES ASSUME L!TypeOK, [L!Next]_L!vars PROVE L!TypeOK'
  OBVIOUS
<1>a. \A j \in Actor : s4[j] \in L!Jobs
  BY DEF L!TypeOK
<1>b. ASSUME NEW j \in Actor, NEW r \in L!Jobs, s4' = [s4 EXCEPT ![j] = r],
             s2' \in [Thing -> L!CatRow \union {None}], s3' \in [Skill -> L!SkillRow \union {None}],
             s5' \in [Skill -> L!Status \union {"never", "gone"}],
             r.op = "distill" /\ r.at = "write" => r.c \in r.cats
      PROVE  L!TypeOK'
  BY <1>b DEF L!TypeOK
<1>c. L!Idle \in L!Jobs /\ L!Idle.op = "idle"
  BY DEF L!Jobs, L!Idle
<1> USE DEF L!Begin, L!End, L!Goto, L!At
<1>1. ASSUME NEW j \in Actor, NEW c \in Thing, L!DeleteCategory(j, c) PROVE L!TypeOK'
  <2>1. [op |-> "uncategory", at |-> "write", c |-> c] \in L!Jobs
    BY DEF L!Jobs
  <2> QED
    BY <1>b, <1>1, <2>1 DEF L!DeleteCategory, L!TypeOK
<1>16. ASSUME NEW j \in Actor, NEW c \in Thing, NEW n \in Name, L!PutCategory(j, c, n) PROVE L!TypeOK'
  <2>1. [op |-> "category", at |-> "write", c |-> c, n |-> n] \in L!Jobs
    BY DEF L!Jobs
  <2> QED
    BY <1>b, <1>16, <2>1 DEF L!PutCategory, L!TypeOK
<1>2. ASSUME NEW j \in Actor, NEW s \in Skill, NEW c \in Thing, NEW t \in Wording,
             L!CreateSkill(j, s, c, t) \/ L!EditSkill(j, s, c, t) \/ L!Candidate(j, s, c, t)
      PROVE  L!TypeOK'
  <2>1. CASE L!CreateSkill(j, s, c, t)
    <3>1. PICK at \in {"exists", "write"} :
            s4' = [s4 EXCEPT ![j] = [op |-> "post", at |-> at, s |-> s, c |-> c, t |-> t]]
      BY <2>1 DEF L!CreateSkill
    <3>2. [op |-> "post", at |-> at, s |-> s, c |-> c, t |-> t] \in L!Jobs
      BY DEF L!Jobs
    <3> QED
      BY <1>b, <2>1, <3>1, <3>2 DEF L!CreateSkill, L!TypeOK
  <2>2. CASE L!EditSkill(j, s, c, t)
    <3>1. s3[s].doc.status \in L!Status
      BY <2>2 DEF L!EditSkill, L!TypeOK, L!SkillRow, L!Doc
    <3>2. [op |-> "put", at |-> "list", s |-> s, c |-> c, t |-> t, status |-> s3[s].doc.status] \in L!Jobs
      BY <3>1 DEF L!Jobs
    <3> QED
      BY <1>b, <2>2, <3>2 DEF L!EditSkill, L!TypeOK
  <2>3. CASE L!Candidate(j, s, c, t)
    <3> DEFINE r == [s4[j] EXCEPT !.at = "write", !.s = s, !.c = c, !.t = t]
    <3>1. s4[j] \in [op : {"distill"}, at : {"asked"}, cats : SUBSET Thing, made : Nat,
                     s : {None}, c : {None}, t : {None}]
      BY <1>a, <2>3, JobFields DEF L!Candidate
    <3>2. r \in [op : {"distill"}, at : {"write"}, cats : SUBSET Thing, made : Nat, s : Skill, c : Thing, t : Wording]
      BY <3>1
    <3>3. r \in L!Jobs /\ r.c \in r.cats
      BY <2>3, <3>1, <3>2 DEF L!Jobs, L!Candidate
    <3>4. s4' = [s4 EXCEPT ![j] = r]
      BY <2>3 DEF L!Candidate
    <3> HIDE DEF r
    <3> QED
      BY <1>b, <2>3, <3>3, <3>4 DEF L!Candidate, L!TypeOK
  <2> QED
    BY <1>2, <2>1, <2>2, <2>3
<1>3. ASSUME NEW j \in Actor, NEW s \in Skill, NEW d \in {"approved", "rejected"}, L!ReviewSkill(j, s, d)
      PROVE  L!TypeOK'
  <2> DEFINE doc == [s3[s].doc EXCEPT !.status = d]
             r == [op |-> "review", at |-> "write", s |-> s, doc |-> doc]
  <2>1. doc \in L!Doc
    BY <1>3 DEF L!ReviewSkill, L!TypeOK, L!SkillRow, L!Doc, L!Status
  <2>2. s4' = [s4 EXCEPT ![j] = r]
    BY <1>3 DEF L!ReviewSkill
  <2> HIDE DEF doc
  <2>3. r \in L!Jobs /\ r.op = "review"
    BY <2>1 DEF L!Jobs
  <2> HIDE DEF r
  <2> QED
    BY <1>b, <1>3, <2>2, <2>3 DEF L!ReviewSkill, L!TypeOK
<1>4. ASSUME NEW s \in Skill, L!DeleteSkill(s) PROVE L!TypeOK'
  BY <1>4 DEF L!DeleteSkill, L!TypeOK
<1>d. ASSUME NEW c \in Thing, NEW t \in Wording, NEW status \in L!Status
      PROVE  L!Row(c, t, status) \in L!SkillRow
  BY DEF L!Row, L!SkillRow, L!Doc
<1>5. ASSUME NEW j \in Actor, L!WriteCategory(j) PROVE L!TypeOK'
  <2>1. s4[j] \in [op : {"category"}, at : {"write"}, c : Thing, n : Name]
    BY <1>a, <1>5, JobFields DEF L!WriteCategory
  <2>2. [id |-> s4[j].c, name |-> s4[j].n] \in L!CatRow
    BY <2>1 DEF L!CatRow
  <2>3. s2' \in [Thing -> L!CatRow \union {None}]
    BY <1>5, <2>1, <2>2 DEF L!WriteCategory, L!TypeOK
  <2> QED
    BY <1>b, <1>c, <1>5, <2>3 DEF L!WriteCategory, L!TypeOK
<1>6. ASSUME NEW j \in Actor, L!RemoveCategory(j) PROVE L!TypeOK'
  BY <1>b, <1>c, <1>6 DEF L!RemoveCategory, L!TypeOK
<1>7. ASSUME NEW j \in Actor, L!CheckId(j) PROVE L!TypeOK'
  <2> DEFINE r == [s4[j] EXCEPT !.at = "write"]
  <2>1. s4[j] \in [op : {"post"}, at : {"exists", "write"}, s : Skill, c : Thing, t : Wording]
    BY <1>a, <1>7, JobFields DEF L!CheckId
  <2>2. r \in L!Jobs /\ r.op = "post"
    BY <2>1 DEF L!Jobs
  <2>3. s4' = [s4 EXCEPT ![j] = r] \/ s4' = [s4 EXCEPT ![j] = L!Idle]
    BY <1>7 DEF L!CheckId
  <2> HIDE DEF r
  <2> QED
    BY <1>b, <1>c, <1>7, <2>2, <2>3 DEF L!CheckId, L!TypeOK
<1>8. ASSUME NEW j \in Actor, L!WriteSkill(j) PROVE L!TypeOK'
  <2>1. s4[j] \in [op : {"post"}, at : {"exists", "write"}, s : Skill, c : Thing, t : Wording]
    BY <1>a, <1>8, JobFields DEF L!WriteSkill
  <2>2. L!Row(s4[j].c, s4[j].t, "pending") \in L!SkillRow
    BY <1>d, <2>1 DEF L!Status
  <2> QED
    BY <1>b, <1>c, <1>8, <2>1, <2>2 DEF L!WriteSkill, L!Insert, L!TypeOK, L!Status
<1>9. ASSUME NEW j \in Actor, L!CheckCategory(j) PROVE L!TypeOK'
  <2> DEFINE r == [s4[j] EXCEPT !.at = "write"]
  <2>1. s4[j] \in [op : {"put"}, at : {"list", "write"}, s : Skill, c : Thing, t : Wording, status : L!Status]
    BY <1>a, <1>9, JobFields DEF L!CheckCategory
  <2>2. r \in L!Jobs /\ r.op = "put"
    BY <2>1 DEF L!Jobs
  <2>3. s4' = [s4 EXCEPT ![j] = r] \/ s4' = [s4 EXCEPT ![j] = L!Idle]
    BY <1>9 DEF L!CheckCategory
  <2> HIDE DEF r
  <2> QED
    BY <1>b, <1>c, <1>9, <2>2, <2>3 DEF L!CheckCategory, L!TypeOK
<1>10. ASSUME NEW j \in Actor, L!WriteEdit(j) PROVE L!TypeOK'
  <2>1. s4[j] \in [op : {"put"}, at : {"list", "write"}, s : Skill, c : Thing, t : Wording, status : L!Status]
    BY <1>a, <1>10, JobFields DEF L!WriteEdit
  <2>2. L!Row(s4[j].c, s4[j].t, s4[j].status) \in L!SkillRow
    BY <1>d, <2>1
  <2> QED
    BY <1>b, <1>c, <1>10, <2>1, <2>2 DEF L!WriteEdit, L!TypeOK
<1>11. ASSUME NEW j \in Actor, L!WriteReview(j) PROVE L!TypeOK'
  <2>1. s4[j] \in [op : {"review"}, at : {"write"}, s : Skill, doc : L!Doc]
    BY <1>a, <1>11, JobFields DEF L!WriteReview
  <2>2. s3' \in [Skill -> L!SkillRow \union {None}]
    BY <1>11, <2>1 DEF L!WriteReview, L!TypeOK, L!SkillRow
  <2>3. s4[j].doc.status \in L!Status
    BY <2>1 DEF L!Doc
  <2> QED
    BY <1>b, <1>c, <1>11, <2>1, <2>2, <2>3 DEF L!WriteReview, L!TypeOK
<1>12. ASSUME NEW j \in Actor, L!Distill(j) PROVE L!TypeOK'
  <2> DEFINE r == [op |-> "distill", at |-> "asked", cats |-> L!Known, made |-> 0,
                   s |-> None, c |-> None, t |-> None]
  <2>1. L!Known \subseteq Thing
    BY DEF L!Known, L!TypeOK, L!CatRow
  <2>2. r \in L!Jobs /\ r.at = "asked"
    BY <2>1 DEF L!Jobs
  <2>3. s4' = [s4 EXCEPT ![j] = r]
    BY <1>12 DEF L!Distill
  <2> HIDE DEF r
  <2> QED
    BY <1>b, <1>12, <2>2, <2>3 DEF L!Distill, L!TypeOK
<1>13. ASSUME NEW j \in Actor, L!Keep(j) PROVE L!TypeOK'
  <2> DEFINE r == [s4[j] EXCEPT !.at = "asked", !.made = s4[j].made + 1, !.s = None, !.c = None, !.t = None]
  <2>1. s4[j] \in [op : {"distill"}, at : {"write"}, cats : SUBSET Thing, made : Nat,
                   s : Skill, c : Thing, t : Wording]
    BY <1>a, <1>13, JobFields DEF L!Keep
  <2>2. r \in [op : {"distill"}, at : {"asked"}, cats : SUBSET Thing, made : Nat, s : {None}, c : {None}, t : {None}]
    <3> DEFINE m == s4[j].made + 1
    <3>1. m \in Nat
      BY <2>1
    <3> HIDE DEF m
    <3>2. [s4[j] EXCEPT !.at = "asked", !.made = m, !.s = None, !.c = None, !.t = None]
            \in [op : {"distill"}, at : {"asked"}, cats : SUBSET Thing, made : Nat, s : {None}, c : {None}, t : {None}]
      BY <2>1, <3>1
    <3> QED
      BY <3>2 DEF m
  <2>3. r \in L!Jobs /\ r.at = "asked"
    BY <2>2 DEF L!Jobs
  <2>4. s4' = [s4 EXCEPT ![j] = r]
    BY <1>13 DEF L!Keep
  <2>5. L!Row(s4[j].c, s4[j].t, "pending") \in L!SkillRow
    BY <1>d, <2>1 DEF L!Status
  <2> HIDE DEF r
  <2> QED
    BY <1>b, <1>13, <2>1, <2>3, <2>4, <2>5 DEF L!Keep, L!Insert, L!TypeOK, L!Status
<1>14. ASSUME NEW j \in Actor, L!EndDistill(j) PROVE L!TypeOK'
  BY <1>b, <1>c, <1>14 DEF L!EndDistill, L!TypeOK
<1>15. CASE UNCHANGED L!vars
  BY <1>15 DEF L!vars, L!TypeOK, L!At
<1> QED
  BY <1>1, <1>2, <1>3, <1>4, <1>5, <1>6, <1>7, <1>8, <1>9, <1>10, <1>11, <1>12, <1>13, <1>14, <1>15,
     <1>16
  DEF L!Next

(* All jobs are current if the one that goes on is, and the others stay so.  *)
LEMMA AllCurrent ==
  ASSUME L!LibraryInv, NEW j \in Actor, NEW r, s4' = [s4 EXCEPT ![j] = r], L!Current(r)',
         \A k \in Actor : k # j => \A q : q = s4[k] => L!Current(q)'
  PROVE  \A k \in Actor : L!Current(s4[k])'
<1>1. DOMAIN s4 = Actor
  BY DEF L!LibraryInv, L!TypeOK
<1>2. SUFFICES ASSUME NEW k \in Actor PROVE L!Current(s4[k])'
  OBVIOUS
<1>3. CASE k = j
  BY <1>1, <1>3 DEF L!Current, L!Seen
<1>4. CASE k # j
  <2>1. PICK q : q = s4[k]
    OBVIOUS
  <2>2. L!Current(q)' /\ q = s4'[k]
    BY <1>1, <1>4, <2>1
  <2> QED
    BY <2>2 DEF L!Current, L!Seen
<1> QED
  BY <1>3, <1>4

(* Nothing is rewritten: it is enough to look at the job that goes on.      *)
LEMMA JobGoesOn ==
  ASSUME L!LibraryInv, UNCHANGED <<s2, s3, s5, s6, s7>>,
         NEW j \in Actor, NEW r, s4' = [s4 EXCEPT ![j] = r], L!Current(r)
  PROVE  L!LibraryState' /\ \A k \in Actor : L!Current(s4[k])'
<1>1. L!LibraryState'
  BY DEF L!LibraryInv, L!LibraryState, L!OwnIds, L!ReviewDecides, L!LibraryIsConsistent, L!Effective, L!Mounted
<1>2. \A q : L!Current(q) => L!Current(q)'
  BY DEF L!Current
<1>3. \A k \in Actor : \A q : q = s4[k] => L!Current(q)
  <2> SUFFICES ASSUME NEW k \in Actor, NEW q, q = s4[k] PROVE L!Current(q)
    OBVIOUS
  <2>1. L!Current(s4[k])
    BY DEF L!LibraryInv
  <2> QED
    BY <2>1
<1> QED
  BY <1>1, <1>2, <1>3, AllCurrent

LEMMA KnownIsThere ==
  ASSUME L!LibraryInv, NEW c \in L!Known, c \notin s7
  PROVE  c \in Thing /\ s2[c] # None
<1>1. PICK d \in Thing : s2[d] # None /\ s2[d].id = c
  BY DEF L!Known
<1>2. s2[d] \in L!CatRow
  BY <1>1 DEF L!LibraryInv, L!TypeOK
<1>3. d = c
  BY <1>1 DEF L!LibraryInv, L!LibraryState, L!OwnIds
<1> QED
  BY <1>1, <1>3

(* A skill is written into c, by whatever request: who is at either is told. *)
LEMMA SkillIsWritten ==
  ASSUME L!LibraryInv, NEW j \in Actor, NEW s \in Skill, NEW c \in Thing, NEW t \in Wording, NEW status \in L!Status,
         L!MeetsIn(j, s, c), UNCHANGED <<s2, s6>>, s3' = [s3 EXCEPT ![s] = L!Row(c, t, status)],
         status = "approved" => s \in s6,
         s5' \in [Skill -> L!Status \union {"never", "gone"}],
         \A q \in Skill : q # s => s5'[q] = s5[q],
         s \notin s7 => s5'[s] = status,
         c \notin s7 => s2[c] # None
  PROVE  /\ L!LibraryState'
         /\ \A k \in Actor : k # j => \A q : q = s4[k] => L!Current(q)'
<1>1. s3'[s] = L!Row(c, t, status) /\ \A q \in Skill : q # s => s3'[q] = s3[q]
  BY DEF L!LibraryInv, L!TypeOK
<1>2. L!Row(c, t, status).cat = c /\ L!Row(c, t, status).doc.cat = c /\ L!Row(c, t, status).doc.status = status
  BY DEF L!Row
<1>3. s7 \subseteq s7'
  BY DEF L!MeetsIn
<1>4. L!OwnIds'
  BY <1>3 DEF L!LibraryInv, L!LibraryState, L!OwnIds
<1>5. L!ReviewDecides'
  BY <1>1, <1>2, <1>3 DEF L!LibraryInv, L!LibraryState, L!ReviewDecides, L!Effective, L!Mounted
<1>6. L!LibraryIsConsistent'
  BY <1>1, <1>2, <1>3 DEF L!LibraryInv, L!LibraryState, L!LibraryIsConsistent
<1>7. ASSUME NEW k \in Actor, k # j, NEW q, q = s4[k] PROVE L!Current(q)'
  <2>1. L!Current(q)
    BY <1>7 DEF L!LibraryInv
  <2>2. q.op \in {"put", "review"} /\ q.s = s => s \in s7'
    BY <1>7 DEF L!MeetsIn, L!About
  <2>3. q.op = "uncategory" /\ q.c = c => c \in s7'
    BY <1>7 DEF L!MeetsIn
  <2>4. q \in L!Jobs
    BY <1>7 DEF L!LibraryInv, L!TypeOK
  <2>5. q.op \in {"put", "review"} => q.s \in Skill
    BY <2>4, JobFields
  <2> QED
    BY <1>1, <1>2, <1>3, <2>1, <2>2, <2>3, <2>5 DEF L!Current
<1> QED
  BY <1>4, <1>5, <1>6, <1>7 DEF L!LibraryState

LEMMA LibraryStep == L!LibraryInv /\ [L!Next]_L!vars => L!LibraryInv'
<1> DEFINE Good == L!LibraryState' /\ \A k \in Actor : L!Current(s4[k])'
<1> SUFFICES ASSUME L!LibraryInv, [L!Next]_L!vars PROVE Good
  BY LibraryType DEF L!LibraryInv
<1>a. L!TypeOK /\ \A j \in Actor : s4[j] \in L!Jobs
  BY DEF L!LibraryInv, L!TypeOK
<1>b. L!Current(L!Idle) /\ L!Current(L!Idle)'
  BY DEF L!Current, L!Seen, L!Idle
<1>c. \A j \in Actor : \A q : q = s4[j] => L!Current(q)
  <2> SUFFICES ASSUME NEW j \in Actor, NEW q, q = s4[j] PROVE L!Current(q)
    OBVIOUS
  <2>1. L!Current(s4[j])
    BY DEF L!LibraryInv
  <2> QED
    BY <2>1
<1> USE DEF L!Begin, L!End, L!Goto, L!At
<1>1. ASSUME NEW j \in Actor, NEW c \in Thing, L!DeleteCategory(j, c) PROVE Good
  <2> DEFINE r == [op |-> "uncategory", at |-> "write", c |-> c]
  <2>1. c \notin s7 => \A s \in Skill \ s7 : s3[s] # None => s3[s].doc.cat # c
    <3> SUFFICES ASSUME NEW s \in Skill \ s7, s3[s] # None, s3[s].doc.cat = c, c \notin s7 PROVE FALSE
      OBVIOUS
    <3>1. s3[s].cat = c
      BY DEF L!LibraryInv, L!LibraryState, L!LibraryIsConsistent
    <3> QED
      BY <1>1, <3>1 DEF L!DeleteCategory, L!Mounted
  <2>2. L!Current(r)
    BY <2>1 DEF L!Current, L!Seen
  <2> QED
    BY <1>1, <2>2, JobGoesOn DEF L!DeleteCategory
<1>2. ASSUME NEW j \in Actor, NEW c \in Thing, NEW n \in Name, L!PutCategory(j, c, n) PROVE Good
  <2>1. L!Current([op |-> "category", at |-> "write", c |-> c, n |-> n])
    BY DEF L!Current, L!Seen
  <2> QED
    BY <1>2, <2>1, JobGoesOn DEF L!PutCategory
<1>3. ASSUME NEW j \in Actor, NEW s \in Skill, NEW c \in Thing, NEW t \in Wording, L!CreateSkill(j, s, c, t)
      PROVE  Good
  <2>1. PICK at \in {"exists", "write"} :
          s4' = [s4 EXCEPT ![j] = [op |-> "post", at |-> at, s |-> s, c |-> c, t |-> t]]
    BY <1>3 DEF L!CreateSkill
  <2>2. L!Current([op |-> "post", at |-> at, s |-> s, c |-> c, t |-> t])
    BY <1>3, KnownIsThere DEF L!CreateSkill, L!Current, L!Seen
  <2> QED
    BY <1>3, <2>1, <2>2, JobGoesOn DEF L!CreateSkill
<1>4. ASSUME NEW j \in Actor, NEW s \in Skill, NEW c \in Thing, NEW t \in Wording, L!EditSkill(j, s, c, t)
      PROVE  Good
  <2> DEFINE r == [op |-> "put", at |-> "list", s |-> s, c |-> c, t |-> t, status |-> s3[s].doc.status]
  <2>1. s3[s].doc.status = "approved" => s \in s6
    <3>1. s3[s].cat \in Thing
      BY <1>a, <1>4 DEF L!EditSkill, L!TypeOK, L!SkillRow
    <3> QED
      BY <1>4, <3>1 DEF L!EditSkill, L!LibraryInv, L!LibraryState, L!ReviewDecides, L!Effective, L!Mounted
  <2>2. PICK r0 : r0 = r
    OBVIOUS
  <2>3. L!Current(r0)
    BY <1>4, <2>1, <2>2 DEF L!EditSkill, L!Current, L!Seen
  <2> QED
    BY <1>4, <2>2, <2>3, JobGoesOn DEF L!EditSkill
<1>5. ASSUME NEW j \in Actor, NEW s \in Skill, NEW c \in Thing, NEW t \in Wording, L!Candidate(j, s, c, t)
      PROVE  Good
  <2>1. s4[j] \in [op : {"distill"}, at : {"asked"}, cats : SUBSET Thing, made : Nat,
                   s : {None}, c : {None}, t : {None}]
    BY <1>a, <1>5, JobFields DEF L!Candidate
  <2>2. PICK r : r = [s4[j] EXCEPT !.at = "write", !.s = s, !.c = c, !.t = t]
    OBVIOUS
  <2>3. r.op = "distill" /\ r.cats = s4[j].cats
    BY <2>1, <2>2
  <2>4. L!Current(r)
    BY <2>1, <2>3, <1>c DEF L!Current, L!Seen
  <2> QED
    BY <1>5, <2>2, <2>4, JobGoesOn DEF L!Candidate
<1>6. ASSUME NEW j \in Actor, NEW s \in Skill, NEW d \in {"approved", "rejected"}, L!ReviewSkill(j, s, d)
      PROVE  Good
  <2>1. PICK doc : doc = [s3[s].doc EXCEPT !.status = d]
    OBVIOUS
  <2>2. s3[s].doc \in L!Doc
    BY <1>a, <1>6 DEF L!ReviewSkill, L!TypeOK, L!SkillRow
  <2>3. doc.cat = s3[s].doc.cat
    BY <2>1, <2>2 DEF L!Doc
  <2>4. L!Current([op |-> "review", at |-> "write", s |-> s, doc |-> doc])
    BY <1>6, <2>3 DEF L!ReviewSkill, L!Current, L!Seen
  <2> QED
    BY <1>6, <2>1, <2>4, JobGoesOn DEF L!ReviewSkill
<1>7. ASSUME NEW j \in Actor, L!CheckId(j) PROVE Good
  <2>1. s4[j] \in [op : {"post"}, at : {"exists", "write"}, s : Skill, c : Thing, t : Wording]
    BY <1>a, <1>7, JobFields DEF L!CheckId
  <2>2. PICK r : r = [s4[j] EXCEPT !.at = "write"]
    OBVIOUS
  <2>3. r.op = "post" /\ r.c = s4[j].c
    BY <2>1, <2>2
  <2>4. L!Current(r)
    BY <1>c, <2>1, <2>3 DEF L!Current, L!Seen
  <2>5. s4' = [s4 EXCEPT ![j] = r] \/ s4' = [s4 EXCEPT ![j] = L!Idle]
    BY <1>7, <2>2 DEF L!CheckId
  <2> QED
    BY <1>b, <1>7, <2>4, <2>5, JobGoesOn DEF L!CheckId
<1>8. ASSUME NEW j \in Actor, L!CheckCategory(j) PROVE Good
  <2>1. s4[j] \in [op : {"put"}, at : {"list", "write"}, s : Skill, c : Thing, t : Wording, status : L!Status]
    BY <1>a, <1>8, JobFields DEF L!CheckCategory
  <2>2. PICK r : r = [s4[j] EXCEPT !.at = "write"]
    OBVIOUS
  <2>3. r.op = "put" /\ r.c = s4[j].c /\ r.s = s4[j].s /\ r.status = s4[j].status
    BY <2>1, <2>2
  <2>4. CASE s4[j].c \in L!Known
    <3>1. L!Current(r)
      BY <1>c, <2>1, <2>3, <2>4, KnownIsThere DEF L!Current, L!Seen
    <3> QED
      BY <1>8, <2>2, <2>4, <3>1, JobGoesOn DEF L!CheckCategory
  <2>5. CASE s4[j].c \notin L!Known
    BY <1>b, <1>8, <2>5, JobGoesOn DEF L!CheckCategory
  <2> QED
    BY <2>4, <2>5
<1>9. ASSUME NEW j \in Actor, L!Distill(j) PROVE Good
  <2>1. PICK cats : cats = L!Known
    OBVIOUS
  <2>2. L!Current([op |-> "distill", at |-> "asked", cats |-> cats, made |-> 0,
                   s |-> None, c |-> None, t |-> None])
    BY <2>1, KnownIsThere DEF L!Current, L!Seen
  <2> QED
    BY <1>9, <2>1, <2>2, JobGoesOn DEF L!Distill
<1>10. ASSUME NEW j \in Actor, L!EndDistill(j) PROVE Good
  BY <1>b, <1>10, JobGoesOn DEF L!EndDistill
<1>11. ASSUME NEW j \in Actor, L!WriteSkill(j) PROVE Good
  <2>1. s4[j] \in [op : {"post"}, at : {"exists", "write"}, s : Skill, c : Thing, t : Wording]
    BY <1>a, <1>11, JobFields DEF L!WriteSkill
  <2>2. PICK s \in Skill, c \in Thing, t \in Wording : s = s4[j].s /\ c = s4[j].c /\ t = s4[j].t
    BY <2>1
  <2>3. c \notin s7 => s2[c] # None
    BY <1>c, <2>1, <2>2 DEF L!Current, L!Seen
  <2>4. L!MeetsIn(j, s, c) /\ s3' = [s3 EXCEPT ![s] = L!Row(c, t, "pending")]
        /\ s5' = [s5 EXCEPT ![s] = "pending"]
    BY <1>11, <2>2 DEF L!WriteSkill, L!Insert
  <2>5. DOMAIN s5 = Skill /\ "pending" \in L!Status /\ s5' \in [Skill -> L!Status \union {"never", "gone"}]
    BY <1>a, <2>4 DEF L!TypeOK, L!Status
  <2>6. UNCHANGED <<s2, s6>> /\ s5'[s] = "pending" /\ \A q \in Skill : q # s => s5'[q] = s5[q]
    BY <1>11, <2>4, <2>5 DEF L!WriteSkill
  <2>7. /\ L!LibraryState'
        /\ \A k \in Actor : k # j => \A q : q = s4[k] => L!Current(q)'
    BY <2>3, <2>4, <2>5, <2>6, SkillIsWritten
  <2> QED
    BY <1>b, <1>11, <2>7, AllCurrent DEF L!WriteSkill
<1>12. ASSUME NEW j \in Actor, L!Keep(j) PROVE Good
  <2>1. s4[j] \in [op : {"distill"}, at : {"write"}, cats : SUBSET Thing, made : Nat,
                   s : Skill, c : Thing, t : Wording]
    BY <1>a, <1>12, JobFields DEF L!Keep
  <2>2. PICK s \in Skill, c \in Thing, t \in Wording : s = s4[j].s /\ c = s4[j].c /\ t = s4[j].t
    BY <2>1
  <2>3. c \in s4[j].cats
    BY <1>a, <1>12, <2>2 DEF L!Keep, L!TypeOK
  <2>4. c \notin s7 => s2[c] # None
    BY <1>c, <2>1, <2>3 DEF L!Current, L!Seen
  <2>5. L!MeetsIn(j, s, c) /\ s3' = [s3 EXCEPT ![s] = L!Row(c, t, "pending")]
        /\ s5' = [s5 EXCEPT ![s] = "pending"]
    BY <1>12, <2>2 DEF L!Keep, L!Insert
  <2>6. DOMAIN s5 = Skill /\ "pending" \in L!Status /\ s5' \in [Skill -> L!Status \union {"never", "gone"}]
    BY <1>a, <2>5 DEF L!TypeOK, L!Status
  <2>7. UNCHANGED <<s2, s6>> /\ s5'[s] = "pending" /\ \A q \in Skill : q # s => s5'[q] = s5[q]
    BY <1>12, <2>5, <2>6 DEF L!Keep
  <2>8. /\ L!LibraryState'
        /\ \A k \in Actor : k # j => \A q : q = s4[k] => L!Current(q)'
    BY <2>4, <2>5, <2>6, <2>7, SkillIsWritten
  <2>9. PICK r : r = [s4[j] EXCEPT !.at = "asked", !.made = s4[j].made + 1, !.s = None, !.c = None, !.t = None]
    OBVIOUS
  <2>10. r.op = "distill" /\ r.cats = s4[j].cats
    BY <2>1, <2>9
  <2>11. s7 \subseteq s7' /\ s2' = s2
    BY <2>5, <2>7 DEF L!MeetsIn
  <2>12. \A d \in s4[j].cats \ s7 : s2[d] # None
    BY <1>c, <2>1 DEF L!Current, L!Seen
  <2>13. L!Current(r)'
    BY <2>10, <2>11, <2>12 DEF L!Current, L!Seen
  <2> QED
    BY <1>12, <2>8, <2>9, <2>13, AllCurrent DEF L!Keep
<1>13. ASSUME NEW j \in Actor, L!WriteEdit(j) PROVE Good
  <2>1. s4[j] \in [op : {"put"}, at : {"list", "write"}, s : Skill, c : Thing, t : Wording, status : L!Status]
    BY <1>a, <1>13, JobFields DEF L!WriteEdit
  <2>2. PICK s \in Skill, c \in Thing, t \in Wording, status \in L!Status :
          s = s4[j].s /\ c = s4[j].c /\ t = s4[j].t /\ status = s4[j].status
    BY <2>1
  <2>3. /\ c \notin s7 => s2[c] # None
        /\ status = "approved" => s \in s6
        /\ s \notin s7 => s3[s] # None /\ s3[s].doc.status = status
    BY <1>c, <1>13, <2>1, <2>2 DEF L!WriteEdit, L!Current, L!Seen
  <2>4. L!MeetsIn(j, s, c) /\ s3' = [s3 EXCEPT ![s] = L!Row(c, t, status)]
    BY <1>13, <2>2 DEF L!WriteEdit
  <2>5. /\ s5' \in [Skill -> L!Status \union {"never", "gone"}]
        /\ s \notin s7 => s5'[s] = status
        /\ \A q \in Skill : q # s => s5'[q] = s5[q]
    BY <1>a, <1>13, <2>3 DEF L!WriteEdit, L!TypeOK, L!LibraryInv, L!LibraryState, L!ReviewDecides
  <2>6. UNCHANGED <<s2, s6>>
    BY <1>13 DEF L!WriteEdit
  <2>7. /\ L!LibraryState'
        /\ \A k \in Actor : k # j => \A q : q = s4[k] => L!Current(q)'
    BY <2>3, <2>4, <2>5, <2>6, SkillIsWritten
  <2> QED
    BY <1>b, <1>13, <2>7, AllCurrent DEF L!WriteEdit
<1>14. ASSUME NEW s \in Skill, L!DeleteSkill(s) PROVE Good
  <2>1. s3'[s] = None /\ \A q \in Skill : q # s => s3'[q] = s3[q] /\ s5'[q] = s5[q]
    BY <1>a, <1>14 DEF L!DeleteSkill, L!TypeOK
  <2>2. s7 \subseteq s7' /\ UNCHANGED <<s2, s4, s6>>
    BY <1>14 DEF L!DeleteSkill
  <2>3. L!LibraryState'
    BY <1>a, <2>1, <2>2, LibraryConstants DEF L!LibraryInv, L!LibraryState, L!OwnIds, L!ReviewDecides,
       L!LibraryIsConsistent, L!Effective, L!Mounted
  <2>4. ASSUME NEW k \in Actor PROVE L!Current(s4[k])'
    <3>1. PICK q : q = s4[k]
      OBVIOUS
    <3>2. L!Current(q)
      BY <1>c, <3>1
    <3>3. q.op \in {"put", "review"} /\ q.s = s => s \in s7'
      BY <1>14, <3>1 DEF L!DeleteSkill, L!About
    <3>4. q.op \in {"put", "review"} => q.s \in Skill
      BY <1>a, <3>1, JobFields
    <3>5. L!Current(q)'
      BY <2>1, <2>2, <3>2, <3>3, <3>4 DEF L!Current
    <3> QED
      BY <2>2, <3>1, <3>5 DEF L!Current, L!Seen
  <2> QED
    BY <2>3, <2>4
<1>15. ASSUME NEW j \in Actor, L!WriteReview(j) PROVE Good
  <2>1. s4[j] \in [op : {"review"}, at : {"write"}, s : Skill, doc : L!Doc]
    BY <1>a, <1>15, JobFields DEF L!WriteReview
  <2>2. PICK s \in Skill, doc \in L!Doc : s = s4[j].s /\ doc = s4[j].doc
    BY <2>1
  <2>3. CASE s3[s] = None
    <3>1. UNCHANGED <<s2, s3, s5, s6, s7>>
      BY <1>15, <2>2, <2>3 DEF L!WriteReview
    <3> QED
      BY <1>b, <1>15, <3>1, JobGoesOn DEF L!WriteReview
  <2>4. CASE s3[s] # None
    <3>1. /\ L!MeetsIn(j, s, None) /\ s2' = s2
          /\ s3' = [s3 EXCEPT ![s].doc = doc] /\ s5' = [s5 EXCEPT ![s] = doc.status]
          /\ s6' = IF doc.status = "approved" THEN s6 \union {s} ELSE s6
      BY <1>15, <2>2, <2>4 DEF L!WriteReview
    <3>2. s3[s] \in L!SkillRow
      BY <1>a, <2>4 DEF L!TypeOK
    <3>3. s3'[s].cat = s3[s].cat /\ s3'[s].doc = doc
      BY <1>a, <3>1, <3>2 DEF L!TypeOK, L!SkillRow
    <3>4. \A q \in Skill : q # s => s3'[q] = s3[q] /\ s5'[q] = s5[q]
      BY <1>a, <3>1 DEF L!TypeOK
    <3>5. s5'[s] = doc.status
      BY <1>a, <3>1 DEF L!TypeOK
    <3>6. s7 \subseteq s7' /\ s6 \subseteq s6'
      BY <3>1 DEF L!MeetsIn
    <3>7. s \notin s7 => s3[s].doc.cat = doc.cat
      BY <1>c, <2>1, <2>2 DEF L!Current
    <3>8. L!OwnIds'
      BY <3>1, <3>6 DEF L!LibraryInv, L!LibraryState, L!OwnIds
    <3>9. L!ReviewDecides'
      BY <3>1, <3>3, <3>4, <3>5, <3>6 DEF L!LibraryInv, L!LibraryState, L!ReviewDecides, L!Effective, L!Mounted
    <3>10. L!LibraryIsConsistent'
      BY <2>4, <3>1, <3>3, <3>4, <3>6, <3>7 DEF L!LibraryInv, L!LibraryState, L!LibraryIsConsistent
    <3>11. ASSUME NEW k \in Actor, k # j, NEW q, q = s4[k] PROVE L!Current(q)'
      <4>1. L!Current(q)
        BY <1>c, <3>11
      <4>2. q.op \in {"put", "review"} /\ q.s = s => s \in s7'
        BY <3>1, <3>11 DEF L!MeetsIn, L!About
      <4>3. q.op \in {"put", "review"} => q.s \in Skill
        BY <1>a, <3>11, JobFields
      <4> QED
        BY <2>4, <3>1, <3>3, <3>4, <3>6, <3>7, <4>1, <4>2, <4>3 DEF L!Current
    <3> QED
      BY <1>b, <1>15, <3>8, <3>9, <3>10, <3>11, AllCurrent DEF L!LibraryState, L!WriteReview
  <2> QED
    BY <2>3, <2>4
<1>16. ASSUME NEW j \in Actor, L!WriteCategory(j) PROVE Good
  <2>1. s4[j] \in [op : {"category"}, at : {"write"}, c : Thing, n : Name]
    BY <1>a, <1>16, JobFields DEF L!WriteCategory
  <2>2. PICK c \in Thing, n \in Name : c = s4[j].c /\ n = s4[j].n
    BY <2>1
  <2> DEFINE others == L!Named(n) \ {c}
             doc == [id |-> c, name |-> n]
  <2>3. /\ UNCHANGED <<s3, s5, s6>> /\ s4' = [s4 EXCEPT ![j] = L!Idle]
        /\ \/ others = {} /\ s2' = [s2 EXCEPT ![c] = doc] /\ s7' = s7
           \/ s2' = [d \in Thing |-> IF d \in others THEN doc ELSE s2[d]] /\ s7' = s7 \union others \union {c}
           \/ UNCHANGED <<s2, s7>>
    BY <1>16, <2>2 DEF L!WriteCategory
  <2>4. \A d \in Thing : s2'[d] = s2[d] \/ (s2'[d] = doc /\ (d = c \/ {c, d} \subseteq s7'))
    BY <1>a, <2>3 DEF L!TypeOK
  <2>5. s7 \subseteq s7' /\ doc # None
    <3>1. doc \in L!CatRow
      BY DEF L!CatRow
    <3> QED
      BY <2>3, <3>1, LibraryConstants DEF L!LibraryAssumption
  <2>6. doc.id = c /\ doc.name = n
    OBVIOUS
  <2>7. L!OwnIds'
    BY <2>4, <2>5, <2>6 DEF L!LibraryInv, L!LibraryState, L!OwnIds
  <2>8. L!ReviewDecides'
    BY <2>3, <2>5 DEF L!LibraryInv, L!LibraryState, L!ReviewDecides, L!Effective, L!Mounted
  <2>9. \A d, e \in Thing : s2'[d] # None /\ s2'[e] # None /\ s2'[d].name = s2'[e].name => d = e
    <3>1. \A d, e \in Thing : s2[d] # None /\ s2[e] # None /\ s2[d].name = s2[e].name => d = e
      BY DEF L!LibraryInv, L!LibraryState, L!LibraryIsConsistent
    <3>2. L!Named(n) = {d \in Thing : s2[d] # None /\ s2[d].name = n}
      BY DEF L!Named
    <3> QED
      BY <1>a, <2>3, <2>6, <3>1, <3>2 DEF L!TypeOK
  <2>10. L!LibraryIsConsistent'
    <3>1. \A s \in Skill : s3[s] # None => s3[s].cat \in Thing
      BY <1>a DEF L!TypeOK, L!SkillRow
    <3>2. \A d \in Thing : s2[d] # None => s2'[d] # None
      BY <2>4, <2>5
    <3>3. \A d \in Thing \ s7' : s2'[d] # None => s2'[d].id = d
      BY <2>7 DEF L!OwnIds
    <3>4. \A s \in Skill \ s7 : s3[s] # None /\ s3[s].doc.cat \notin s7 =>
            s3[s].cat = s3[s].doc.cat /\ s2[s3[s].cat] # None
      BY DEF L!LibraryInv, L!LibraryState, L!LibraryIsConsistent
    <3> QED
      BY <2>3, <2>5, <2>9, <3>1, <3>2, <3>3, <3>4 DEF L!LibraryIsConsistent
  <2>11. ASSUME NEW k \in Actor, k # j, NEW q, q = s4[k] PROVE L!Current(q)'
    <3>1. L!Current(q) /\ L!Seen(q) \subseteq Thing
      BY <1>a, <1>c, <2>11, SeenCategories
    <3> QED
      BY <2>3, <2>4, <2>5, <3>1 DEF L!Current, L!Seen
  <2> QED
    BY <1>b, <2>3, <2>7, <2>8, <2>10, <2>11, AllCurrent DEF L!LibraryState
<1>17. ASSUME NEW j \in Actor, L!RemoveCategory(j) PROVE Good
  <2>1. s4[j] \in [op : {"uncategory"}, at : {"write"}, c : Thing]
    BY <1>a, <1>17, JobFields DEF L!RemoveCategory
  <2>2. PICK c \in Thing : c = s4[j].c
    BY <2>1
  <2>3. UNCHANGED <<s3, s5, s6>> /\ s2' = [s2 EXCEPT ![c] = None] /\ s7 \subseteq s7'
    BY <1>17, <2>2 DEF L!RemoveCategory
  <2>4. s2'[c] = None /\ \A d \in Thing : d # c => s2'[d] = s2[d]
    BY <1>a, <2>3 DEF L!TypeOK
  <2>5. c \notin s7 => \A s \in Skill \ s7 : s3[s] # None => s3[s].doc.cat # c
    BY <1>c, <2>1, <2>2 DEF L!Current
  <2>6. L!OwnIds'
    BY <2>3, <2>4 DEF L!LibraryInv, L!LibraryState, L!OwnIds
  <2>7. L!ReviewDecides'
    BY <2>3 DEF L!LibraryInv, L!LibraryState, L!ReviewDecides, L!Effective, L!Mounted
  <2>8. L!LibraryIsConsistent'
    <3>1. \A s \in Skill : s3[s] # None => s3[s].cat \in Thing
      BY <1>a DEF L!TypeOK, L!SkillRow
    <3> QED
      BY <2>3, <2>4, <2>5, <3>1 DEF L!LibraryInv, L!LibraryState, L!LibraryIsConsistent
  <2>9. ASSUME NEW k \in Actor, k # j, NEW q, q = s4[k] PROVE L!Current(q)'
    <3>1. L!Current(q) /\ L!Seen(q) \subseteq Thing
      BY <1>a, <1>c, <2>9, SeenCategories
    <3>2. c \in L!Seen(q) => c \in s7'
      BY <1>17, <2>2, <2>9 DEF L!RemoveCategory, L!Seen, L!Wants
    <3> QED
      BY <2>3, <2>4, <3>1, <3>2 DEF L!Current, L!Seen
  <2> QED
    BY <1>b, <1>17, <2>6, <2>7, <2>8, <2>9, AllCurrent DEF L!LibraryState, L!RemoveCategory
<1>18. CASE UNCHANGED L!vars
  BY <1>18 DEF L!vars, L!LibraryInv, L!LibraryState, L!OwnIds, L!ReviewDecides, L!LibraryIsConsistent,
     L!Effective, L!Mounted, L!Current, L!Seen
<1> QED
  BY <1>1, <1>2, <1>3, <1>4, <1>5, <1>6, <1>7, <1>8, <1>9, <1>10, <1>11, <1>12, <1>13, <1>14, <1>15,
     <1>16, <1>17, <1>18
  DEF L!Next

(* What every agent is told: only skills that a human decided on take      *)
(* effect, and unless two requests met a skill has its last verdict and an *)
(* existing category: for any number of overlapping edits, reviews,        *)
(* removals and distillations (routes of skills and categories,            *)
(* SqlSkillStore).                                                         *)
THEOREM LibraryStaysSound == Spec => []LibraryIsSound
<1> DEFINE Inv == part = "library" => L!LibraryInv
<1>1. Init => Inv
  BY LibraryStart DEF Init
<1>2. Inv /\ [Next]_vars => Inv'
  <2> SUFFICES ASSUME Inv, [Next]_vars, part' = "library" PROVE L!LibraryInv'
    OBVIOUS
  <2>1. part = "library" /\ [L!Next]_L!vars
    BY DEF Next, vars, L!vars
  <2> QED
    BY <2>1, LibraryStep
<1>3. Inv => LibraryIsSound
  BY DEF L!LibraryInv, L!LibraryState, LibraryIsSound
<1> QED
  BY <1>1, <1>2, <1>3, PTL DEF Spec

-----------------------------------------------------------------------------
(* Registry                                                                 *)

LEMMA Forms == R!EmployeeForm \union R!ChannelForm \subseteq R!Docs(R!Typed \union {Mask})
<1>1. ASSUME NEW k \in Key \union {None, Mask}
      PROVE  [f \in R!Fields |-> IF f = "key" THEN k ELSE None]
               \in [R!Fields -> (R!Typed \union {Mask}) \union {None}]
  BY DEF R!Typed
<1>2. R!EmployeeForm \subseteq R!Docs(R!Typed \union {Mask})
  BY <1>1 DEF R!EmployeeForm, R!Docs
<1>3. ASSUME NEW a \in ChannelKey \union {Mask}, NEW k \in ChannelKey \union {Mask}
      PROVE  [key |-> None, secret |-> a, token |-> k]
               \in [R!Fields -> (R!Typed \union {Mask}) \union {None}]
  BY DEF R!Typed, R!Fields
<1>4. R!ChannelForm \subseteq R!Docs(R!Typed \union {Mask})
  <2>1. ASSUME NEW t \in {"dingtalk", "yanxun"},
               NEW a \in ChannelKey \union {Mask}, NEW k \in ChannelKey \union {Mask}
        PROVE  [on |-> TRUE, type |-> t, creds |-> [key |-> None, secret |-> a, token |-> k]]
                 \in R!Docs(R!Typed \union {Mask})
    <3>1. PICK c \in [R!Fields -> (R!Typed \union {Mask}) \union {None}] :
            c = [key |-> None, secret |-> a, token |-> k]
      BY <1>3
    <3>2. [on |-> TRUE, type |-> t, creds |-> c] \in R!Docs(R!Typed \union {Mask})
      BY DEF R!Docs
    <3> QED
      BY <3>1, <3>2
  <2> QED
    BY <2>1 DEF R!ChannelForm
<1> QED
  BY <1>2, <1>4

(* Two documents with the same fields are one.                              *)
LEMMA SameDoc ==
  ASSUME NEW A, NEW d \in R!Docs(A), NEW e \in R!Docs(A), d.on = e.on, d.type = e.type,
         \A f \in R!Fields : d.creds[f] = e.creds[f]
  PROVE  d = e
<1>1. d.creds = e.creds
  BY DEF R!Docs
<1> QED
  BY <1>1 DEF R!Docs

(* What opening, encrypting and restoring do, field by field.               *)
LEMMA OpenedDoc ==
  ASSUME NEW doc \in R!Docs(R!Cred)
  PROVE  /\ R!Opened(doc) \in R!Docs(R!Typed)
         /\ R!Opened(doc).on = doc.on /\ R!Opened(doc).type = doc.type
         /\ \A f \in R!Fields :
              R!Opened(doc).creds[f] = IF doc.creds[f] = None THEN None ELSE doc.creds[f].text
BY DEF R!Opened, R!Docs, R!Cred

LEMMA EncryptedDoc ==
  ASSUME NEW doc \in R!Docs(R!Cred), s2 \in MasterKey \union {None}
  PROVE  /\ R!Encrypted(doc) \in R!Docs(R!Cred)
         /\ R!Opened(R!Encrypted(doc)) = R!Opened(doc)
         /\ s2 # None => R!Sealed(R!Encrypted(doc))
<1> USE RegistryConstants DEF R!RegistryAssumption
<1> DEFINE e == R!Encrypted(doc)
<1>1. \A f \in R!Fields : doc.creds[f] \in R!Cred \union {None}
  BY DEF R!Docs
<1>2. \A f \in R!Fields :
        /\ R!encryptSecret(doc.creds[f]) \in R!Cred \union {None}
        /\ R!encryptSecret(doc.creds[f]) = None <=> doc.creds[f] = None
        /\ doc.creds[f] # None => R!encryptSecret(doc.creds[f]).text = doc.creds[f].text
        /\ doc.creds[f] # None /\ s2 # None => R!encryptSecret(doc.creds[f]).under # None
  BY <1>1 DEF R!encryptSecret, R!Cred
<1>3. e.on = doc.on /\ e.type = doc.type /\ \A f \in R!Fields : e.creds[f] = R!encryptSecret(doc.creds[f])
  BY DEF R!Encrypted, R!Docs
<1>4. e \in R!Docs(R!Cred)
  BY <1>2 DEF R!Encrypted, R!Docs
<1>5. R!Opened(e) = R!Opened(doc)
  <2> HIDE DEF e
  <2> QED
    BY <1>2, <1>3, <1>4, OpenedDoc, SameDoc
<1>6. s2 # None => R!Sealed(e)
  BY <1>2, <1>3 DEF R!Sealed
<1> QED
  BY <1>4, <1>5, <1>6

LEMMA RestoredDoc ==
  ASSUME NEW body \in R!Docs(R!Typed \union {Mask}), NEW old \in R!Docs(R!Cred) \union {None}
  PROVE  /\ R!Restored(body, old) \in R!Docs(R!Cred)
         /\ R!Restored(body, old).on = body.on /\ R!Restored(body, old).type = body.type
         /\ \A f \in R!Fields :
              R!Restored(body, old).creds[f]
                = R!Kept(body.creds[f], IF old = None THEN None ELSE old.creds[f])
<1> USE RegistryConstants DEF R!RegistryAssumption
<1>1. \A f \in R!Fields : body.creds[f] \in R!Typed \union {Mask, None}
  BY DEF R!Docs
<1>2. \A f \in R!Fields : (IF old = None THEN None ELSE old.creds[f]) \in R!Cred \union {None}
  BY DEF R!Docs
<1>3. \A f \in R!Fields :
        R!Kept(body.creds[f], IF old = None THEN None ELSE old.creds[f]) \in R!Cred \union {None}
  BY <1>1, <1>2 DEF R!Kept, R!Clear, R!Cred
<1> QED
  BY <1>3 DEF R!Restored, R!Docs

LEMMA WantedDoc ==
  ASSUME NEW body \in R!Docs(R!Typed \union {Mask}), NEW r \in Record,
         s8 \in [Record -> R!Docs(R!Typed) \union {None}]
  PROVE  /\ R!Want(body, r) \in R!Docs(R!Typed) \union {None}
         /\ r \notin s9 =>
              /\ R!Want(body, r) \in R!Docs(R!Typed)
              /\ R!Want(body, r).on = body.on /\ R!Want(body, r).type = body.type
              /\ \A f \in R!Fields :
                   R!Want(body, r).creds[f] = IF body.creds[f] # Mask THEN body.creds[f]
                     ELSE IF s8[r] = None THEN None ELSE s8[r].creds[f]
<1>1. \A f \in R!Fields : body.creds[f] \in R!Typed \union {Mask, None}
  BY DEF R!Docs
<1>2. s8[r] # None => \A f \in R!Fields : s8[r].creds[f] \in R!Typed \union {None}
  BY DEF R!Docs
<1>3. CASE r \in s9
  BY <1>3 DEF R!Want
<1>4. CASE r \notin s9
  BY <1>1, <1>2, <1>4 DEF R!Want, R!Docs
<1> QED
  BY <1>3, <1>4

(* What a form restores from the stored document is what it asks for.       *)
LEMMA FormAgrees ==
  ASSUME NEW body \in R!Docs(R!Typed \union {Mask}), NEW r \in Record, r \notin s9,
         s8 \in [Record -> R!Docs(R!Typed) \union {None}],
         NEW old \in R!Docs(R!Cred) \union {None},
         \/ IF old = None THEN s8[r] = None ELSE s8[r] # None /\ R!Opened(old) = s8[r]
         \/ old = None /\ \A f \in R!Fields : body.creds[f] # Mask
  PROVE  R!Want(body, r) # None /\ R!Opened(R!Restored(body, old)) = R!Want(body, r)
<1> USE RegistryConstants DEF R!RegistryAssumption
<1> DEFINE d == R!Restored(body, old)
           w == R!Want(body, r)
           o == R!Opened(d)
<1>1. /\ d \in R!Docs(R!Cred) /\ d.on = body.on /\ d.type = body.type
      /\ \A f \in R!Fields : d.creds[f] = R!Kept(body.creds[f], IF old = None THEN None ELSE old.creds[f])
  BY RestoredDoc
<1>2. /\ w \in R!Docs(R!Typed) /\ w.on = body.on /\ w.type = body.type
      /\ \A f \in R!Fields : w.creds[f] = IF body.creds[f] # Mask THEN body.creds[f]
                     ELSE IF s8[r] = None THEN None ELSE s8[r].creds[f]
  BY WantedDoc
<1>3. \A f \in R!Fields : body.creds[f] \in R!Typed \union {Mask, None}
  BY DEF R!Docs
<1>4. old # None => \A f \in R!Fields : old.creds[f] \in R!Cred \union {None}
                      /\ R!Opened(old).creds[f] = IF old.creds[f] = None THEN None ELSE old.creds[f].text
  BY OpenedDoc DEF R!Docs
<1>5. \A f \in R!Fields : R!Clear(body.creds[f]).text = body.creds[f]
                          /\ (body.creds[f] \in R!Typed => R!Clear(body.creds[f]) \in R!Cred)
  BY DEF R!Clear, R!Cred
<1> HIDE DEF d, w
<1>6. /\ o \in R!Docs(R!Typed) /\ o.on = body.on /\ o.type = body.type
      /\ \A f \in R!Fields : o.creds[f] = IF d.creds[f] = None THEN None ELSE d.creds[f].text
  BY <1>1, OpenedDoc
<1> HIDE DEF o
<1>7. \A f \in R!Fields : o.creds[f] = w.creds[f]
  <2> SUFFICES ASSUME NEW f \in R!Fields PROVE o.creds[f] = w.creds[f]
    OBVIOUS
  <2>1. CASE body.creds[f] # Mask
    BY <1>1, <1>2, <1>3, <1>5, <1>6, <2>1 DEF R!Kept
  <2>2. CASE body.creds[f] = Mask
    BY <1>1, <1>2, <1>4, <1>6, <2>2 DEF R!Kept
  <2> QED
    BY <2>1, <2>2
<1>8. o = w
  BY <1>2, <1>6, <1>7, SameDoc
<1>9. w # None
  BY <1>2
<1> QED
  BY <1>8, <1>9 DEF o, d, w


-----------------------------------------------------------------------------
LEMMA RegistryStart == R!Init => R!RegistryInv
<1> SUFFICES ASSUME R!Init PROVE R!RegistryInv
  OBVIOUS
<1>1. s7 \in [Actor -> R!Jobs] /\ \A j \in Actor : s7[j] = R!Idle /\ s7[j].op = "idle"
  BY DEF R!Init, R!Jobs, R!Idle
<1>2. R!TypeOK
  BY <1>1 DEF R!Init, R!TypeOK
<1>3. R!SecretsSurvive /\ R!JobsAgree /\ R!SealedSoFar
  BY <1>1 DEF R!Init, R!SecretsSurvive, R!JobsAgree, R!SealedSoFar
<1> QED
  BY <1>2, <1>3 DEF R!RegistryInv

LEMMA JobShape ==
  ASSUME R!TypeOK, NEW j \in Actor, s7[j] # R!Idle
  PROVE  /\ s7[j].op \in {"post", "put", "disable", "channel"} /\ s7[j].r \in Record
         /\ s7[j].doc \in R!Docs(R!Cred) /\ s7[j].want \in R!Docs(R!Typed) \union {None}
         /\ s3 = "serving"
BY DEF R!TypeOK, R!Jobs

LEMMA BusyJob ==
  ASSUME R!TypeOK, NEW j \in Actor, s7[j].op # "idle"
  PROVE  s7[j] # R!Idle
BY DEF R!Idle

(* A write of what its user asked for, alone on the record or not.          *)
LEMMA RegistryWrite ==
  ASSUME R!RegistryInv, NEW j \in Actor \union {None}, NEW r \in Record,
         NEW doc \in R!Docs(R!Cred) \union {None}, NEW want \in R!Docs(R!Typed) \union {None},
         R!Write(j, r, doc, want), UNCHANGED <<s1, s2, s3, s10>>, s3 = "serving",
         s7' = s7 \/ (j \in Actor /\ s7' = [s7 EXCEPT ![j] = R!Idle]),
         j \in Actor => s7' # s7 /\ s7[j] # R!Idle,
         r \notin s9 => IF doc = None THEN want = None ELSE want # None /\ R!Opened(doc) = want,
         s2 # None /\ ~s10 /\ doc # None => R!Sealed(doc)
  PROVE  R!RegistryInv'
<1> USE RegistryConstants DEF R!RegistryAssumption, R!RegistryInv
<1>1. s4' = [s4 EXCEPT ![r] = doc] /\ s9 \subseteq s9'
      /\ s8' = [s8 EXCEPT ![r] = IF r \in s9' THEN None ELSE want]
  BY DEF R!Write
<1>2. R!Idle \in R!Jobs /\ R!Idle.op = "idle"
  BY DEF R!Jobs, R!Idle
<1>3. R!TypeOK'
  BY <1>1, <1>2 DEF R!TypeOK
<1>4. R!SecretsSurvive'
  BY <1>1 DEF R!SecretsSurvive, R!TypeOK
<1>5. \A i \in Actor : s7'[i] # R!Idle => s7'[i] = s7[i] /\ i # j
  BY DEF R!TypeOK
<1>6. R!JobsAgree'
  <2> SUFFICES ASSUME NEW i \in Actor, s7'[i] # R!Idle, s7'[i].r \notin s9'
               PROVE  s7[i].want # None /\ R!Opened(s7[i].doc) = s7[i].want
    BY <1>5 DEF R!JobsAgree
  <2> QED
    BY <1>1, <1>5 DEF R!JobsAgree
<1>7. R!SealedSoFar'
  <2>1. \A i \in Actor : s7'[i].op = "disable" => s7'[i] = s7[i]
    BY <1>2, <1>5
  <2>2. \A q \in Record : s4'[q] = s4[q] \/ s4'[q] = doc
    BY <1>1 DEF R!TypeOK
  <2> QED
    BY <2>1, <2>2 DEF R!SealedSoFar, R!Sealed
<1> QED
  BY <1>3, <1>4, <1>6, <1>7

(* A request reads, and what it is about to write agrees.                   *)
LEMMA RegistryBegin ==
  ASSUME R!RegistryInv, NEW j \in Actor, NEW d,
         R!Begin(j, d), UNCHANGED <<s1, s2, s3, s4, s8, s9, s10>>,
         d \in R!Jobs, d # R!Idle,
         d.r \notin s9 => d.want # None /\ R!Opened(d.doc) = d.want,
         d.op = "disable" /\ s2 # None /\ ~s10 => R!Sealed(d.doc)
  PROVE  R!RegistryInv'
<1> USE DEF R!RegistryInv
<1>1. s3 = "serving" /\ s7' = [s7 EXCEPT ![j] = d]
  BY DEF R!Begin
<1>2. \A i \in Actor : s7'[i] = s7[i] \/ (i = j /\ s7'[i] = d)
  BY <1>1 DEF R!TypeOK
<1>3. R!TypeOK'
  BY <1>1 DEF R!TypeOK
<1>4. R!SecretsSurvive'
  BY DEF R!SecretsSurvive
<1>5. R!JobsAgree'
  BY <1>2 DEF R!JobsAgree
<1>6. R!SealedSoFar'
  BY <1>2 DEF R!SealedSoFar, R!Sealed
<1> QED
  BY <1>3, <1>4, <1>5, <1>6

(* A request goes on, or gives up: what it would write stays.               *)
LEMMA RegistryGoesOn ==
  ASSUME R!RegistryInv, NEW j \in Actor, s7[j] # R!Idle,
         NEW at \in {"kinds", "roles", "taken", "write"},
         R!End(j) \/ R!Goto(j, at), UNCHANGED <<s1, s2, s3, s4, s8, s9, s10>>
  PROVE  R!RegistryInv'
<1> USE DEF R!RegistryInv
<1>1. R!Idle \in R!Jobs /\ R!Idle.op = "idle"
  BY DEF R!Jobs, R!Idle
<1>2. PICK d \in R!Jobs : s7' = [s7 EXCEPT ![j] = d] /\ (d = R!Idle \/
        (d # R!Idle /\ d.op = s7[j].op /\ d.r = s7[j].r /\ d.doc = s7[j].doc /\ d.want = s7[j].want))
  <2>1. CASE R!End(j)
    BY <1>1, <2>1 DEF R!End
  <2>2. CASE R!Goto(j, at)
    <3>1. PICK d : d = [s7[j] EXCEPT !.at = at]
      OBVIOUS
    <3>2. d \in R!Jobs /\ d # R!Idle /\ d.op = s7[j].op /\ d.r = s7[j].r /\ d.doc = s7[j].doc /\ d.want = s7[j].want
      BY <1>1, <3>1 DEF R!TypeOK, R!Jobs
    <3> QED
      BY <2>2, <3>1, <3>2 DEF R!Goto
  <2> QED
    BY <2>1, <2>2
<1>3. \A i \in Actor : s7'[i] = s7[i] \/ (i = j /\ s7'[i] = d)
  BY <1>2 DEF R!TypeOK
<1>4. s3 = "serving"
  BY JobShape
<1>5. R!TypeOK'
  BY <1>2, <1>4 DEF R!TypeOK
<1>6. R!SecretsSurvive'
  BY DEF R!SecretsSurvive
<1>7. R!JobsAgree'
  BY <1>2, <1>3 DEF R!JobsAgree
<1>8. R!SealedSoFar'
  BY <1>1, <1>2, <1>3 DEF R!SealedSoFar, R!Sealed
<1> QED
  BY <1>5, <1>6, <1>7, <1>8

(* A start goes on with the next of its phases.                             *)
LEMMA NextPhase ==
  /\ R!After("capabilities") = "categories" /\ R!After("categories") = "employees"
  /\ R!After("channels") = "keys" /\ R!After("keys") = "serving"
<1>1. \A p \in {"capabilities", "categories", "employees", "channels", "keys"} :
        (CHOOSE i \in 1..5 : R!Phases[i] = p)
          = IF p = "capabilities" THEN 1 ELSE IF p = "categories" THEN 2 ELSE IF p = "employees" THEN 3
            ELSE IF p = "channels" THEN 4 ELSE 5
  BY DEF R!Phases
<1> QED
  BY <1>1 DEF R!After, R!Phases

LEMMA RegistryStep == R!RegistryInv /\ [R!Next]_R!vars => R!RegistryInv'
<1> SUFFICES ASSUME R!RegistryInv, [R!Next]_R!vars PROVE R!RegistryInv'
  OBVIOUS
<1> USE RegistryConstants DEF R!RegistryAssumption, R!RegistryInv
<1>a. /\ s8 \in [Record -> R!Docs(R!Typed) \union {None}] /\ s2 \in MasterKey \union {None}
      /\ s4 \in [Record -> R!Docs(R!Cred) \union {None}]
  BY DEF R!TypeOK
<1>b. \A r \in Record \ s9 : IF s4[r] = None THEN s8[r] = None ELSE s8[r] # None /\ R!Opened(s4[r]) = s8[r]
  BY DEF R!SecretsSurvive
<1>1. ASSUME NEW j \in Actor, NEW r \in Record, NEW body \in R!EmployeeForm, R!PostEmployee(j, r, body)
      PROVE  R!RegistryInv'
  <2>1. body \in R!Docs(R!Typed \union {Mask}) /\ \A f \in R!Fields : body.creds[f] # Mask
    BY <1>1, Forms DEF R!PostEmployee, R!EmployeeForm, R!Fields
  <2>2. PICK d : d = [op |-> "post", at |-> "kinds", r |-> r, doc |-> R!Restored(body, None),
                      want |-> R!Want(body, r)]
    OBVIOUS
  <2>3. r \notin s9 => d.want # None /\ R!Opened(d.doc) = d.want
    BY <1>a, <2>1, <2>2, FormAgrees
  <2>4. d \in R!Jobs /\ d # R!Idle
    BY <1>a, <2>1, <2>2, RestoredDoc, WantedDoc DEF R!Jobs, R!Idle
  <2>5. R!Begin(j, d) /\ UNCHANGED <<s1, s2, s3, s4, s8, s9, s10>> /\ d.r = r /\ d.op # "disable"
    BY <1>1, <2>2 DEF R!PostEmployee, R!Tables
  <2> QED
    BY <2>3, <2>4, <2>5, RegistryBegin
<1>2. ASSUME NEW j \in Actor, NEW r \in Record, NEW body \in R!EmployeeForm, R!PutEmployee(j, r, body)
      PROVE  R!RegistryInv'
  <2>1. body \in R!Docs(R!Typed \union {Mask})
    BY <1>2, Forms
  <2>2. PICK d : d = [op |-> "put", at |-> "kinds", r |-> r, doc |-> R!Restored(body, s4[r]),
                      want |-> R!Want(body, r)]
    OBVIOUS
  <2>3. r \notin s9 => d.want # None /\ R!Opened(d.doc) = d.want
    BY <1>a, <1>b, <2>1, <2>2, FormAgrees
  <2>4. d \in R!Jobs /\ d # R!Idle
    BY <1>a, <2>1, <2>2, RestoredDoc, WantedDoc DEF R!Jobs, R!Idle
  <2>5. R!Begin(j, d) /\ UNCHANGED <<s1, s2, s3, s4, s8, s9, s10>> /\ d.r = r /\ d.op # "disable"
    BY <1>2, <2>2 DEF R!PutEmployee, R!Tables
  <2> QED
    BY <2>3, <2>4, <2>5, RegistryBegin
<1>3. ASSUME NEW j \in Actor, NEW r \in Record, NEW body \in R!ChannelForm, R!PutChannel(j, r, body)
      PROVE  R!RegistryInv'
  <2>1. body \in R!Docs(R!Typed \union {Mask})
    BY <1>3, Forms
  <2>2. PICK d : d = [op |-> "channel", at |-> "write", r |-> r, doc |-> R!Restored(body, s4[r]),
                      want |-> R!Want(body, r)]
    OBVIOUS
  <2>3. r \notin s9 => d.want # None /\ R!Opened(d.doc) = d.want
    BY <1>a, <1>b, <2>1, <2>2, FormAgrees
  <2>4. d \in R!Jobs /\ d # R!Idle
    BY <1>a, <2>1, <2>2, RestoredDoc, WantedDoc DEF R!Jobs, R!Idle
  <2>5. R!Begin(j, d) /\ UNCHANGED <<s1, s2, s3, s4, s8, s9, s10>> /\ d.r = r /\ d.op # "disable"
    BY <1>3, <2>2 DEF R!PutChannel, R!Tables
  <2> QED
    BY <2>3, <2>4, <2>5, RegistryBegin
<1>4. ASSUME NEW j \in Actor, NEW r \in Record, R!DisableEmployee(j, r) PROVE R!RegistryInv'
  <2>1. PICK off : off = [s4[r] EXCEPT !.on = FALSE]
    OBVIOUS
  <2>2. PICK want : want = IF s8[r] = None THEN None ELSE [s8[r] EXCEPT !.on = FALSE]
    OBVIOUS
  <2>3. s4[r] \in R!Docs(R!Cred)
    BY <1>a, <1>4 DEF R!DisableEmployee
  <2>4. off \in R!Docs(R!Cred) /\ off.on = FALSE /\ off.type = s4[r].type /\ off.creds = s4[r].creds
    BY <2>1, <2>3 DEF R!Docs
  <2>5. want \in R!Docs(R!Typed) \union {None}
    BY <1>a, <2>2 DEF R!Docs
  <2>6. r \notin s9 => want # None /\ R!Opened(off) = want
    <3> SUFFICES ASSUME r \notin s9 PROVE want # None /\ R!Opened(off) = want
      OBVIOUS
    <3>1. s8[r] # None /\ R!Opened(s4[r]) = s8[r] /\ s8[r] \in R!Docs(R!Typed)
      BY <1>a, <1>b, <1>4 DEF R!DisableEmployee
    <3>2. want \in R!Docs(R!Typed) /\ want.on = FALSE /\ want.type = s8[r].type /\ want.creds = s8[r].creds
      BY <2>2, <3>1 DEF R!Docs
    <3>3. R!Opened(off) = want
      <4>1. PICK old : old = s4[r]
        OBVIOUS
      <4>2. PICK a : a = R!Opened(off)
        OBVIOUS
      <4>3. PICK b : b = R!Opened(old)
        OBVIOUS
      <4>4. /\ a \in R!Docs(R!Typed) /\ a.on = FALSE /\ a.type = old.type
            /\ \A f \in R!Fields : a.creds[f] = IF old.creds[f] = None THEN None ELSE old.creds[f].text
        BY <2>4, <4>1, <4>2, OpenedDoc
      <4>5. b.type = old.type
            /\ \A f \in R!Fields : b.creds[f] = IF old.creds[f] = None THEN None ELSE old.creds[f].text
        BY <2>3, <4>1, <4>3, OpenedDoc
      <4>6. b = s8[r]
        BY <3>1, <4>1, <4>3
      <4>7. want.on = a.on /\ want.type = a.type /\ \A f \in R!Fields : a.creds[f] = want.creds[f]
        BY <3>2, <4>4, <4>5, <4>6
      <4>8. a = want
        BY <3>2, <4>4, <4>7, SameDoc
      <4> QED
        BY <4>2, <4>8
    <3> QED
      BY <3>2, <3>3
  <2>7. PICK d : d = [op |-> "disable", at |-> "write", r |-> r, doc |-> off, want |-> want]
    OBVIOUS
  <2>8. d \in R!Jobs /\ d # R!Idle
    BY <2>4, <2>5, <2>7 DEF R!Jobs, R!Idle
  <2>9. R!Begin(j, d) /\ UNCHANGED <<s1, s2, s3, s4, s8, s9, s10>> /\ s3 = "serving" /\ s4[r] # None
    BY <1>4, <2>1, <2>2, <2>7 DEF R!DisableEmployee, R!Tables, R!Begin
  <2>10. s2 # None /\ ~s10 => R!Sealed(d.doc)
    BY <2>4, <2>7, <2>9 DEF R!SealedSoFar, R!Sealed
  <2> QED
    BY <2>6, <2>7, <2>8, <2>9, <2>10, RegistryBegin
<1>5. ASSUME NEW r \in Record, NEW body \in R!ChannelForm, R!PostChannel(r, body) PROVE R!RegistryInv'
  <2>1. PICK doc : doc = R!Restored(body, None)
    OBVIOUS
  <2>2. doc \in R!Docs(R!Cred)
    BY <2>1, Forms, RestoredDoc
  <2>3. PICK e : e = R!Encrypted(doc)
    OBVIOUS
  <2>4. e \in R!Docs(R!Cred) /\ R!Opened(e) = R!Opened(doc) /\ (s2 # None => R!Sealed(e))
    BY <1>a, <2>2, <2>3, EncryptedDoc
  <2>5. R!Opened(doc) \in R!Docs(R!Typed)
    BY <2>2, OpenedDoc
  <2>6. R!Write(None, r, e, R!Opened(doc)) /\ UNCHANGED <<s1, s2, s3, s7, s10>> /\ s3 = "serving"
    BY <1>5, <2>1, <2>3 DEF R!PostChannel
  <2>7. None \notin Actor /\ R!Opened(doc) # None
    BY <2>5
  <2> QED
    BY <2>4, <2>5, <2>6, <2>7, RegistryWrite
<1>6. ASSUME NEW r \in Record, R!DeleteChannel(r) PROVE R!RegistryInv'
  <2>1. R!Write(None, r, None, None) /\ UNCHANGED <<s1, s2, s3, s7, s10>> /\ s3 = "serving"
    BY <1>6 DEF R!DeleteChannel
  <2>2. None \notin Actor
    OBVIOUS
  <2> QED
    BY <2>1, <2>2, RegistryWrite
<1>7. ASSUME NEW j \in Actor, R!CheckCapabilities(j) \/ R!CheckRoles(j) \/ R!CheckTaken(j)
      PROVE  R!RegistryInv'
  <2>1. s7[j] # R!Idle
    BY <1>7, BusyJob DEF R!CheckCapabilities, R!CheckRoles, R!CheckTaken, R!At
  <2>2. UNCHANGED <<s1, s2, s3, s4, s8, s9, s10>>
    BY <1>7 DEF R!CheckCapabilities, R!CheckRoles, R!CheckTaken, R!Tables
  <2>3. \E at \in {"kinds", "roles", "taken", "write"} : R!End(j) \/ R!Goto(j, at)
    BY <1>7 DEF R!CheckCapabilities, R!CheckRoles, R!CheckTaken
  <2> QED
    BY <2>1, <2>2, <2>3, RegistryGoesOn
<1>8. ASSUME NEW j \in Actor, R!WriteEmployee(j) \/ R!WriteChannel(j) PROVE R!RegistryInv'
  <2>1. s7[j] # R!Idle
    BY <1>8, BusyJob DEF R!WriteEmployee, R!WriteChannel, R!At
  <2>2. PICK doc : doc = s7[j].doc
    OBVIOUS
  <2>3. doc \in R!Docs(R!Cred) /\ s7[j].r \in Record /\ s7[j].want \in R!Docs(R!Typed) \union {None}
        /\ s3 = "serving"
    BY <2>1, <2>2, JobShape
  <2>4. PICK r \in Record, want \in R!Docs(R!Typed) \union {None} : r = s7[j].r /\ want = s7[j].want
    BY <2>3
  <2>5. PICK e : e = R!Encrypted(doc)
    OBVIOUS
  <2>6. e \in R!Docs(R!Cred) /\ R!Opened(e) = R!Opened(doc) /\ (s2 # None => R!Sealed(e))
    BY <1>a, <2>3, <2>5, EncryptedDoc
  <2>7. r \notin s9 => want # None /\ R!Opened(e) = want
    BY <2>1, <2>2, <2>4, <2>6 DEF R!JobsAgree
  <2>8. R!Write(j, r, e, want) /\ UNCHANGED <<s1, s2, s3, s10>> /\ s7' = [s7 EXCEPT ![j] = R!Idle]
    BY <1>8, <2>2, <2>4, <2>5 DEF R!WriteEmployee, R!WriteChannel, R!End
  <2>9. s7' # s7
    BY <2>1, <2>8 DEF R!TypeOK
  <2>10. e # None
    BY <2>6
  <2> QED
    BY <2>1, <2>3, <2>6, <2>7, <2>8, <2>9, <2>10, RegistryWrite
<1>9. ASSUME NEW j \in Actor, R!WriteDisabled(j) PROVE R!RegistryInv'
  <2>1. s7[j] # R!Idle
    BY <1>9, BusyJob DEF R!WriteDisabled, R!At
  <2>2. s7[j].doc \in R!Docs(R!Cred) /\ s7[j].r \in Record /\ s7[j].want \in R!Docs(R!Typed) \union {None}
        /\ s3 = "serving"
    BY <2>1, JobShape
  <2>3. PICK doc \in R!Docs(R!Cred) : doc = s7[j].doc
    BY <2>2
  <2>4. PICK r \in Record, want \in R!Docs(R!Typed) \union {None} : r = s7[j].r /\ want = s7[j].want
    BY <2>2
  <2>5. r \notin s9 => want # None /\ R!Opened(doc) = want
    BY <2>1, <2>3, <2>4 DEF R!JobsAgree
  <2>6. R!Write(j, r, doc, want) /\ UNCHANGED <<s1, s2, s3, s10>> /\ s7' = [s7 EXCEPT ![j] = R!Idle]
    BY <1>9, <2>3, <2>4 DEF R!WriteDisabled, R!End
  <2>7. s7' # s7 /\ doc # None
    BY <2>1, <2>6 DEF R!TypeOK
  <2>8. s2 # None /\ ~s10 => R!Sealed(doc)
    BY <1>9, <2>3 DEF R!WriteDisabled, R!At, R!SealedSoFar, R!Sealed
  <2> QED
    BY <2>1, <2>2, <2>5, <2>6, <2>7, <2>8, RegistryWrite
<1>10. ASSUME UNCHANGED <<s1, s2, s3, s4, s7, s8, s9, s10>> PROVE R!RegistryInv'
  BY <1>10 DEF R!TypeOK, R!SecretsSurvive, R!JobsAgree, R!SealedSoFar, R!Sealed
<1>11. ASSUME NEW c \in Capability, R!PutCapability(c) \/ R!RemoveCapability(c) PROVE R!RegistryInv'
  BY <1>10, <1>11 DEF R!PutCapability, R!RemoveCapability
<1>12. ASSUME NEW r \in Role, R!ChangeRoles(r) PROVE R!RegistryInv'
  BY <1>10, <1>12 DEF R!ChangeRoles
<1>13. \A j \in Actor : s3 # "serving" => s7[j] = R!Idle
  BY DEF R!TypeOK
<1>14. R!Idle \in R!Jobs /\ R!Idle.op = "idle"
  BY DEF R!Jobs, R!Idle
<1>p. \A p \in {"capabilities", "categories", "employees", "channels", "keys", "serving", "down"} :
        p \in {R!Phases[i] : i \in 1..6} \union {"down"}
  BY DEF R!Phases
<1>15. ASSUME NEW m \in MasterKey \union {None}, R!Boot(m) PROVE R!RegistryInv'
  BY <1>13, <1>14, <1>15, <1>p DEF R!Boot, R!Tables, R!TypeOK, R!SecretsSurvive, R!JobsAgree, R!SealedSoFar
<1>16. ASSUME R!SeedCapabilities \/ R!SeedCategories PROVE R!RegistryInv'
  <2>1. s3 \in {"capabilities", "categories"} /\ s3' \in {"categories", "employees"}
        /\ UNCHANGED <<s1, s2, s4, s7, s8, s9, s10>>
    BY <1>16, NextPhase DEF R!SeedCapabilities, R!SeedCategories, R!Seeds
  <2> QED
    BY <1>13, <1>14, <1>p, <2>1 DEF R!TypeOK, R!SecretsSurvive, R!JobsAgree, R!SealedSoFar
<1>17. CASE R!SeedEmployees
  <2>1. s3 = "employees" /\ s3' = "channels" /\ UNCHANGED <<s1, s2, s7, s9, s10>>
    BY <1>17 DEF R!SeedEmployees
  <2>2. /\ R!Seeded \in R!Docs(R!Cred) /\ R!Seeded \in R!Docs(R!Typed)
        /\ R!Seeded.on = TRUE /\ R!Seeded.type = "employee" /\ \A f \in R!Fields : R!Seeded.creds[f] = None
    BY DEF R!Seeded, R!Docs
  <2>3. R!Seeded # None /\ R!Opened(R!Seeded) = R!Seeded
    BY <2>2, OpenedDoc, SameDoc
  <2>4. /\ s4' \in [Record -> R!Docs(R!Cred) \union {None}] /\ s8' \in [Record -> R!Docs(R!Typed) \union {None}]
        /\ \A r \in Record : (s4'[r] = s4[r] /\ s8'[r] = s8[r]) \/ (s4'[r] = R!Seeded /\ s8'[r] = R!Seeded)
    BY <1>a, <1>17, <2>2 DEF R!SeedEmployees
  <2>5. R!SecretsSurvive'
    BY <1>b, <2>1, <2>3, <2>4 DEF R!SecretsSurvive
  <2>6. R!TypeOK' /\ R!JobsAgree' /\ R!SealedSoFar'
    BY <1>13, <1>14, <1>p, <2>1, <2>4 DEF R!TypeOK, R!JobsAgree, R!SealedSoFar
  <2> QED
    BY <2>5, <2>6
<1>18. CASE R!EncryptOne
  <2>1. PICK r \in R!InClear(R!Step) : s4' = [s4 EXCEPT ![r] = R!Encrypted(s4[r])]
    BY <1>18 DEF R!EncryptOne
  <2>2. r \in Record /\ s4[r] \in R!Docs(R!Cred)
    BY <1>a, <2>1 DEF R!InClear
  <2>3. PICK d : d = s4[r]
    OBVIOUS
  <2>4. PICK e : e = R!Encrypted(d)
    OBVIOUS
  <2>5. e \in R!Docs(R!Cred) /\ R!Opened(e) = R!Opened(d) /\ (s2 # None => R!Sealed(e))
    BY <1>a, <2>2, <2>3, <2>4, EncryptedDoc
  <2>6. s4' = [s4 EXCEPT ![r] = e] /\ d = s4[r] /\ e # None /\ d # None
    BY <2>1, <2>2, <2>3, <2>4, <2>5
  <2>7. UNCHANGED <<s1, s2, s3, s7, s8, s9, s10>> /\ s3 \in {"channels", "keys"}
    BY <1>18 DEF R!EncryptOne
  <2>8. R!SecretsSurvive'
    BY <1>a, <1>b, <2>2, <2>5, <2>6, <2>7 DEF R!SecretsSurvive
  <2>9. R!TypeOK' /\ R!JobsAgree'
    BY <1>13, <2>2, <2>5, <2>6, <2>7 DEF R!TypeOK, R!JobsAgree
  <2>10. R!SealedSoFar'
    BY <1>a, <1>13, <1>14, <2>2, <2>5, <2>6, <2>7 DEF R!SealedSoFar, R!Sealed
  <2> QED
    BY <2>8, <2>9, <2>10
<1>19. CASE R!EncryptFails
  <2>1. s3 \in {"channels", "keys"} /\ s3' \in {"keys", "serving"} /\ s10' = TRUE
        /\ UNCHANGED <<s1, s2, s4, s7, s8, s9>>
    BY <1>19, NextPhase DEF R!EncryptFails, R!Tables
  <2> QED
    BY <1>13, <1>14, <1>p, <2>1 DEF R!TypeOK, R!SecretsSurvive, R!JobsAgree, R!SealedSoFar
<1>20. CASE R!EncryptionEnds
  <2>1. s3 \in {"channels", "keys"} /\ s3' = IF s3 = "channels" THEN "keys" ELSE "serving"
    BY <1>20, NextPhase DEF R!EncryptionEnds
  <2>2. UNCHANGED <<s1, s2, s4, s7, s8, s9, s10>>
    BY <1>20 DEF R!EncryptionEnds, R!Tables
  <2>3. ASSUME NEW r \in Record, s4[r] # None, s2 # None,
               s1[r] = IF s3 = "channels" THEN "channel" ELSE "employee"
        PROVE  R!Sealed(s4[r])
    <3>1. PICK d : d = s4[r]
      OBVIOUS
    <3>2. R!Encrypted(d) = d
      BY <1>20, <2>3, <3>1 DEF R!EncryptionEnds, R!InClear, R!Step
    <3>3. R!Sealed(d)
      BY <1>a, <2>3, <3>1, <3>2, EncryptedDoc
    <3> QED
      BY <3>1, <3>3 DEF R!Sealed
  <2>4. \A r \in Record : s1[r] \in {"employee", "channel"}
    BY DEF R!TypeOK
  <2>5. R!SealedSoFar'
    BY <1>13, <1>14, <2>1, <2>2, <2>3, <2>4 DEF R!SealedSoFar, R!Sealed
  <2>6. R!TypeOK' /\ R!SecretsSurvive' /\ R!JobsAgree'
    BY <1>13, <1>p, <2>1, <2>2 DEF R!TypeOK, R!SecretsSurvive, R!JobsAgree
  <2> QED
    BY <2>5, <2>6
<1>21. CASE R!Crash
  <2>1. s7' = [j \in Actor |-> R!Idle] /\ s3' = "down" /\ s2' = None /\ UNCHANGED <<s1, s4, s8, s9, s10>>
    BY <1>21 DEF R!Crash, R!Tables
  <2> QED
    BY <1>14, <1>p, <2>1 DEF R!TypeOK, R!SecretsSurvive, R!JobsAgree, R!SealedSoFar
<1>22. CASE UNCHANGED R!vars
  BY <1>10, <1>22 DEF R!vars
<1> QED
  BY <1>1, <1>2, <1>3, <1>4, <1>5, <1>6, <1>7, <1>8, <1>9, <1>11, <1>12, <1>15, <1>16, <1>17, <1>18, <1>19,
     <1>20, <1>21, <1>22
  DEF R!Next

(* Keys outlive every edit that carries the mask, every start and every    *)
(* read that opens them, unless two requests met on the record; and what   *)
(* serves with a master key holds none in clear: for any number of records,*)
(* requests and master keys over the starts (EmployeeStore, channel        *)
(* routes, the encryption of startConsoleServer).                          *)
THEOREM SecretsOutlive == Spec => []SecretsSurvive
<1> DEFINE Inv == part = "registry" => R!RegistryInv
<1>1. Init => Inv
  BY RegistryStart DEF Init
<1>2. Inv /\ [Next]_vars => Inv'
  <2> SUFFICES ASSUME Inv, [Next]_vars, part' = "registry" PROVE R!RegistryInv'
    OBVIOUS
  <2>1. part = "registry" /\ [R!Next]_R!vars
    BY DEF Next, vars, R!vars
  <2> QED
    BY <2>1, RegistryStep
<1>3. Inv => SecretsSurvive
  BY DEF R!RegistryInv, R!SealedSoFar, R!Sealed, R!NothingInClear, SecretsSurvive
<1> QED
  BY <1>1, <1>2, <1>3, PTL DEF Spec
-----------------------------------------------------------------------------
(* Shell                                                                    *)

CallWaits(c) == s5[c].at \in {"asks", "waits"}
KnownHeads == s8 \union s9

(* Two executions have asked for item i.                                   *)
AskedTwice(i) == \E g, h \in S!Gen : g # h /\ s3[g] >= i /\ s3[h] >= i

CallRecord == [at : {"idle", "asks", "waits", "runs"}, g : S!Gen, cmd : Script \union {None},
           item : S!Item \union {1}, verdict : {"none", "approved", "rejected"}]

ShellType ==
  /\ s3 \in [S!Gen -> 0..MaxItems] /\ s2 \in S!Gen
  /\ s4 \in [S!Gen -> SUBSET Program]
  /\ s5 \in [Actor -> CallRecord]
  /\ s6 \in [S!Item -> Actor \union {None}]
  /\ s7 \in [S!Item -> Script \union {None}]
  /\ s10 \in Script \union {None}

(* Only what a human released is remembered, or about to run.              *)
ReleasesOnly ==
  /\ \A g \in S!Gen : s4[g] \subseteq KnownHeads
  /\ \A c \in Actor : CallWaits(c) /\ s5[c].verdict = "approved" => s5[c].cmd.name \in KnownHeads

PlainOnly == \A c \in Actor : s5[c].at # "idle" => s5[c].cmd \in Script /\ s5[c].cmd.is = "plain"

(* Whoever is registered waits, without a verdict, under this item.        *)
WaiterRegistered ==
  \A i \in S!Item : s6[i] # None =>
    CallWaits(s6[i]) /\ s5[s6[i]].item = i /\ s5[s6[i]].verdict = "none"

(* An execution numbers its items; it uses each once.                      *)
ItemsNumbered ==
  /\ \A c \in Actor : CallWaits(c) => s5[c].item \in S!Item /\ s5[c].item <= s3[s5[c].g]
  /\ \A c, d \in Actor :
       CallWaits(c) /\ CallWaits(d) /\ s5[c].item = s5[d].item /\ s5[c].g = s5[d].g => c = d
  /\ \A i \in S!Item : s7[i] # None => \E g \in S!Gen : s3[g] >= i

(* Unless two executions use an item, what is shown is what waits.         *)
ShownIsWaiting ==
  \A i \in S!Item : ~AskedTwice(i) /\ s6[i] # None /\ s7[i] # None => s7[i] = s5[s6[i]].cmd

ShellInv ==
  /\ ShellType /\ ReleasesOnly /\ PlainOnly /\ WaiterRegistered /\ ItemsNumbered /\ ShownIsWaiting
  /\ S!OnlyReleasedRuns

-----------------------------------------------------------------------------
LEMMA TwiceIsShared ==
  ASSUME S!ShellAssumption, NEW i \in S!Item, AskedTwice(i)
  PROVE  S!Shared(i)
<1> DEFINE Both == {g \in S!Gen : s3[g] >= i}
<1>1. PICK g \in Both, h \in Both : g # h
  BY DEF AskedTwice
<1>2. IsFiniteSet(Both) /\ Cardinality(Both) \in Nat
  <2>1. IsFiniteSet(S!Gen)
    BY FS_Interval DEF S!ShellAssumption, S!Gen
  <2> QED
    BY <2>1, FS_Subset, FS_CardinalityType
<1>3. IsFiniteSet({g}) /\ Cardinality({g}) = 1
  BY FS_Singleton
<1>4. IsFiniteSet({g} \union {h}) /\ Cardinality({g} \union {h}) = 2
  <2>1. h \notin {g}
    BY <1>1
  <2>2. IsFiniteSet({g} \union {h})
    BY <1>3, FS_AddElement
  <2>3. Cardinality({g} \union {h}) = Cardinality({g}) + 1
    BY <1>3, <2>1, FS_AddElement
  <2> QED
    BY <1>3, <2>2, <2>3
<1>5. {g} \union {h} \subseteq Both
  BY <1>1
<1>6. 2 <= Cardinality(Both)
  BY <1>2, <1>4, <1>5, FS_Subset
<1> QED
  BY <1>2, <1>6 DEF S!Shared, S!Cardinality, Cardinality

LEMMA ShellStarts == ASSUME S!ShellAssumption PROVE S!Init => ShellInv
<1> SUFFICES ASSUME S!Init PROVE ShellInv
  OBVIOUS
<1>1. ShellType
  BY DEF S!ShellAssumption, S!Init, ShellType, CallRecord, S!Gen, S!Item, S!Idle
<1>2. ReleasesOnly /\ PlainOnly /\ WaiterRegistered /\ ItemsNumbered /\ ShownIsWaiting /\ S!OnlyReleasedRuns
  BY DEF S!Init, ReleasesOnly, PlainOnly, WaiterRegistered, ItemsNumbered, ShownIsWaiting, S!OnlyReleasedRuns,
         CallWaits, KnownHeads, S!Idle
<1> QED
  BY <1>1, <1>2 DEF ShellInv

-----------------------------------------------------------------------------
(* A call that ends, or runs without having asked: nobody else is touched. *)
LEMMA LeavesQueue ==
  ASSUME ShellInv, NEW c \in Actor,
         NEW r \in [at : {"idle", "runs"}, g : S!Gen, cmd : Script \union {None},
                                             item : S!Item \union {1}, verdict : {"none"}],
         r.at = "runs" => r.cmd \in Script /\ r.cmd.is = "plain",
         \A i \in S!Item : s6[i] # c,
         s5' = [s5 EXCEPT ![c] = r], UNCHANGED <<s1, s3, s6, s7, s8, s9>>
  PROVE  PlainOnly' /\ WaiterRegistered' /\ ItemsNumbered' /\ ShownIsWaiting'
           /\ (\A d \in Actor : CallWaits(d) /\ s5[d].verdict = "approved" => s5[d].cmd.name \in KnownHeads)'
<1>1. \A d \in Actor : s5'[d] = IF d = c THEN r ELSE s5[d]
  BY DEF ShellInv, ShellType, CallRecord
<1>2. PlainOnly'
  BY <1>1 DEF ShellInv, PlainOnly
<1>3. WaiterRegistered'
  BY <1>1 DEF ShellInv, ShellType, WaiterRegistered, CallWaits
<1>4. ItemsNumbered'
  BY <1>1 DEF ShellInv, ItemsNumbered, CallWaits
<1>5. ShownIsWaiting'
  BY <1>1 DEF ShellInv, ShellType, ShownIsWaiting, AskedTwice
<1> QED
  BY <1>1, <1>2, <1>3, <1>4, <1>5 DEF ShellInv, ReleasesOnly, CallWaits, KnownHeads

LEMMA RunFreeKeeps ==
  ASSUME S!ShellAssumption, ShellInv, NEW c \in Actor, NEW g \in S!Gen, NEW cmd \in Script,
         S!RunFree(c, g, cmd)
  PROVE  ShellInv'
<1> DEFINE r == [S!Idle EXCEPT !.at = "runs", !.g = g, !.cmd = cmd]
<1>1. /\ r \in [at : {"idle", "runs"}, g : S!Gen, cmd : Script \union {None},
                item : S!Item \union {1}, verdict : {"none"}]
      /\ r.cmd = cmd
  BY DEF S!Idle
<1>2. \A i \in S!Item : s6[i] # c
  BY DEF S!RunFree, ShellInv, WaiterRegistered, CallWaits, S!ShellAssumption
<1>3. s5' = [s5 EXCEPT ![c] = r]
  BY DEF S!RunFree
<1> HIDE DEF r
<1>4. PlainOnly' /\ WaiterRegistered' /\ ItemsNumbered' /\ ShownIsWaiting' /\ ReleasesOnly'
  BY <1>1, <1>2, <1>3, LeavesQueue DEF S!RunFree, ShellInv, ReleasesOnly, KnownHeads
<1>5. ShellType'
  <2>1. r \in CallRecord
    BY <1>1 DEF CallRecord
  <2> QED
    BY <1>3, <2>1 DEF S!RunFree, ShellInv, ShellType
<1>6. S!OnlyReleasedRuns'
  BY DEF S!RunFree, S!Allowed, ShellInv, ReleasesOnly, KnownHeads, S!OnlyReleasedRuns, S!Bypasses
<1> QED
  BY <1>4, <1>5, <1>6 DEF ShellInv

LEMMA AskKeeps ==
  ASSUME S!ShellAssumption, ShellInv, NEW c \in Actor, NEW g \in S!Gen, NEW cmd \in Script,
         S!Ask(c, g, cmd)
  PROVE  ShellInv'
<1> DEFINE i == s3[g] + 1
           r == [S!Idle EXCEPT !.at = "asks", !.g = g, !.cmd = cmd, !.item = i]
<1>1. /\ s3 \in [S!Gen -> 0..MaxItems] /\ MaxItems \in Nat
      /\ s3[g] \in 0..MaxItems /\ s3[g] < MaxItems /\ s3' = [s3 EXCEPT ![g] = i]
      /\ i \in S!Item
  BY DEF S!Ask, S!ShellAssumption, ShellInv, ShellType, S!Item
<1>2. /\ r \in CallRecord /\ r.at = "asks" /\ r.g = g /\ r.cmd = cmd /\ r.item = i /\ r.verdict = "none"
  BY <1>1 DEF S!Idle, CallRecord
<1>3. /\ s5' = [d \in Actor |-> IF d = c THEN r
                               ELSE IF d = s6[i] THEN [s5[d] EXCEPT !.verdict = "rejected"] ELSE s5[d]]
      /\ s6' = [s6 EXCEPT ![i] = c]
      /\ UNCHANGED <<s1, s2, s4, s7, s8, s9, s10>>
      /\ s5[c].at = "idle" /\ cmd.is = "plain"
  BY DEF S!Ask, S!Register
<1>4. \A j \in S!Gen : s3'[j] = IF j = g THEN i ELSE s3[j]
  BY <1>1
<1> HIDE DEF r, i
<1>5. \A d \in Actor \ {c} :
        /\ s5'[d] \in CallRecord
        /\ s5'[d].at = s5[d].at /\ s5'[d].g = s5[d].g /\ s5'[d].cmd = s5[d].cmd
        /\ s5'[d].item = s5[d].item
        /\ s5'[d].verdict = IF d = s6[i] THEN "rejected" ELSE s5[d].verdict
  BY <1>3 DEF ShellInv, ShellType, CallRecord
<1>6. s5'[c] = r
  BY <1>3
<1>7. ShellType'
  <2>1. s5' \in [Actor -> CallRecord]
    BY <1>2, <1>3, <1>5, <1>6
  <2>2. s3' \in [S!Gen -> 0..MaxItems]
    BY <1>1 DEF S!Item
  <2> QED
    BY <1>1, <1>3, <2>1, <2>2 DEF ShellInv, ShellType
<1>8. ReleasesOnly' /\ PlainOnly' /\ S!OnlyReleasedRuns'
  BY <1>2, <1>3, <1>5, <1>6 DEF ShellInv, ReleasesOnly, PlainOnly, S!OnlyReleasedRuns,
      CallWaits, KnownHeads, S!Bypasses
<1>9. WaiterRegistered'
  BY <1>1, <1>2, <1>3, <1>5, <1>6 DEF ShellInv, ShellType, WaiterRegistered, CallWaits
<1>10. ItemsNumbered'
  <2>1. \A d \in Actor : CallWaits(d)' => s5'[d].item \in S!Item /\ s5'[d].item <= s3'[s5'[d].g]
    BY <1>1, <1>2, <1>4, <1>5, <1>6 DEF ShellInv, ShellType, CallRecord, ItemsNumbered, CallWaits, S!Item, i
  <2>2. \A d \in Actor \ {c} : CallWaits(d) /\ s5[d].g = g => s5[d].item # i
    BY <1>1 DEF ShellInv, ShellType, CallRecord, ItemsNumbered, S!Item, i
  <2>3. \A d, e \in Actor :
          CallWaits(d)' /\ CallWaits(e)' /\ s5'[d].item = s5'[e].item /\ s5'[d].g = s5'[e].g => d = e
    BY <1>2, <1>5, <1>6, <2>2 DEF ShellInv, ItemsNumbered, CallWaits
  <2>4. \A j \in S!Item : s7'[j] # None => \E h \in S!Gen : s3'[h] >= j
    BY <1>1, <1>3, <1>4 DEF ShellInv, ItemsNumbered, S!Item, i
  <2> QED
    BY <2>1, <2>3, <2>4 DEF ItemsNumbered
<1>11. ShownIsWaiting'
  <2> SUFFICES ASSUME NEW j \in S!Item, ~AskedTwice(j)', s6'[j] # None, s7'[j] # None
               PROVE  s7'[j] = s5'[s6'[j]].cmd
    BY DEF ShownIsWaiting
  <2>1. CASE j = i
    <3>1. PICK h \in S!Gen : s3[h] >= i
      BY <1>3, <2>1 DEF ShellInv, ItemsNumbered
    <3>2. h # g
      BY <1>1, <3>1 DEF i
    <3>3. s3'[g] >= j /\ s3'[h] >= j
      BY <1>1, <1>4, <2>1, <3>1, <3>2 DEF S!Item
    <3>4. AskedTwice(j)'
      BY <3>2, <3>3 DEF AskedTwice
    <3> QED
      BY <3>4
  <2>2. CASE j # i
    <3>1. ~AskedTwice(j)
      <4>1. \A h \in S!Gen : s3[h] >= j => s3'[h] >= j
        BY <1>1, <1>4 DEF i, S!Item
      <4> QED
        BY <4>1 DEF AskedTwice
    <3>2. s6'[j] = s6[j] /\ s6[j] # None /\ s6[j] \in Actor
      BY <1>1, <1>3, <2>2 DEF ShellInv, ShellType
    <3>3. s6[j] # c
      BY <1>3, <3>2 DEF ShellInv, WaiterRegistered, CallWaits
    <3> QED
      BY <1>3, <1>5, <3>1, <3>2, <3>3 DEF ShellInv, ShownIsWaiting
  <2> QED
    BY <2>1, <2>2
<1> QED
  BY <1>7, <1>8, <1>9, <1>10, <1>11 DEF ShellInv

LEMMA DeclareKeeps ==
  ASSUME S!ShellAssumption, ShellInv, NEW c \in Actor, S!Declare(c)
  PROVE  ShellInv'
<1> DEFINE i == s5[c].item
<1>1. /\ s5[c].at = "asks" /\ CallWaits(c) /\ i \in S!Item /\ i <= s3[s5[c].g] /\ s5[c].g \in S!Gen
      /\ s5[c].cmd \in Script /\ s3 \in [S!Gen -> 0..MaxItems] /\ MaxItems \in Nat
  BY DEF S!Declare, CallWaits, ShellInv, ShellType, CallRecord, ItemsNumbered, PlainOnly, S!ShellAssumption
<1>2. /\ s7' = [s7 EXCEPT ![i] = s5[c].cmd]
      /\ s5' = [s5 EXCEPT ![c].at = "waits"]
      /\ UNCHANGED <<s1, s2, s3, s4, s6, s8, s9, s10>>
  BY DEF S!Declare
<1>3. \A d \in Actor :
        /\ s5'[d] \in CallRecord /\ s5'[d].at = IF d = c THEN "waits" ELSE s5[d].at
        /\ s5'[d].g = s5[d].g /\ s5'[d].cmd = s5[d].cmd
        /\ s5'[d].item = s5[d].item /\ s5'[d].verdict = s5[d].verdict
  BY <1>1, <1>2 DEF ShellInv, ShellType, CallRecord, CallWaits
<1>4. ShellType'
  <2>1. s5' \in [Actor -> CallRecord]
    BY <1>2, <1>3 DEF ShellInv, ShellType
  <2> QED
    BY <1>1, <1>2, <2>1 DEF ShellInv, ShellType
<1>5. ReleasesOnly' /\ PlainOnly' /\ S!OnlyReleasedRuns'
  BY <1>1, <1>2, <1>3 DEF ShellInv, ReleasesOnly, PlainOnly, S!OnlyReleasedRuns,
      KnownHeads, S!Bypasses, CallWaits
<1>6. WaiterRegistered'
  BY <1>1, <1>2, <1>3 DEF ShellInv, ShellType, WaiterRegistered, CallWaits
<1>7. ItemsNumbered'
  <2>1. \A j \in S!Item : s7'[j] # None => \E h \in S!Gen : s3[h] >= j
    <3>1. s3[s5[c].g] >= i
      BY <1>1 DEF S!Item
    <3> QED
      BY <1>1, <1>2, <3>1 DEF ShellInv, ShellType, ItemsNumbered
  <2> QED
    BY <1>1, <1>2, <1>3, <2>1 DEF ShellInv, ItemsNumbered, CallWaits
<1>8. ShownIsWaiting'
  <2> SUFFICES ASSUME NEW j \in S!Item, ~AskedTwice(j), s6[j] # None, s7'[j] # None
               PROVE  s7'[j] = s5[s6[j]].cmd
    BY <1>2, <1>3 DEF ShownIsWaiting, AskedTwice, ShellInv, ShellType, CallRecord
  <2>1. CASE j # i
    BY <1>2, <2>1 DEF ShellInv, ShellType, ShownIsWaiting
  <2>2. CASE j = i
    <3> DEFINE d == s6[j]
    <3>1. d \in Actor /\ CallWaits(d) /\ s5[d].item = i /\ i <= s3[s5[d].g] /\ s5[d].g \in S!Gen
      BY <2>2 DEF ShellInv, ShellType, CallRecord, WaiterRegistered, ItemsNumbered
    <3>2. s3[s5[c].g] >= i /\ s3[s5[d].g] >= i
      BY <1>1, <3>1 DEF S!Item
    <3>3. s5[d].g = s5[c].g
      BY <1>1, <2>2, <3>1, <3>2 DEF AskedTwice
    <3>4. d = c
      BY <1>1, <3>1, <3>3 DEF ShellInv, ItemsNumbered
    <3> QED
      BY <1>1, <1>2, <2>2, <3>4 DEF ShellInv, ShellType
  <2> QED
    BY <2>1, <2>2
<1> QED
  BY <1>4, <1>5, <1>6, <1>7, <1>8 DEF ShellInv

(* A human decides on what is shown.  Unless two executions use the item,  *)
(* that is what waits; otherwise misled takes note.                        *)
LEMMA ReviewKeeps ==
  ASSUME S!ShellAssumption, ShellInv, NEW i \in S!Item, NEW v \in {"approved", "rejected"}, S!Review(i, v)
  PROVE  ShellInv'
<1> DEFINE c == s6[i]
<1>1. /\ s7[i] # None /\ c # None /\ c \in Actor /\ CallWaits(c) /\ s5[c].item = i
  BY DEF S!Review, ShellInv, ShellType, WaiterRegistered
<1>2. /\ s5' = [s5 EXCEPT ![c].verdict = v] /\ s6' = [s6 EXCEPT ![i] = None]
      /\ UNCHANGED <<s1, s2, s3, s4, s7, s10>>
  BY DEF S!Review, S!Resolve
<1>3. \A d \in Actor :
        /\ s5'[d] \in CallRecord /\ s5'[d].at = s5[d].at
        /\ s5'[d].g = s5[d].g /\ s5'[d].cmd = s5[d].cmd /\ s5'[d].item = s5[d].item
        /\ s5'[d].verdict = IF d = c THEN v ELSE s5[d].verdict
  BY <1>1, <1>2 DEF ShellInv, ShellType, CallRecord
<1>4. ShellType'
  <2>1. s5' \in [Actor -> CallRecord]
    BY <1>2, <1>3 DEF ShellInv, ShellType
  <2> QED
    BY <1>2, <2>1 DEF ShellInv, ShellType
<1>5. KnownHeads \subseteq KnownHeads'
  BY DEF S!Review, KnownHeads
<1>6. v = "approved" => s5[c].cmd.name \in KnownHeads'
  <2> SUFFICES ASSUME v = "approved" PROVE s5[c].cmd.name \in KnownHeads'
    OBVIOUS
  <2>1. CASE s5[c].cmd.name = s7[i].name
    BY <2>1 DEF S!Review, KnownHeads
  <2>2. CASE s5[c].cmd.name # s7[i].name
    <3>1. AskedTwice(i)
      BY <1>1, <2>2 DEF ShellInv, ShownIsWaiting
    <3>2. S!Shared(i)
      BY <3>1, TwiceIsShared
    <3> QED
      BY <2>2, <3>2 DEF S!Review, KnownHeads
  <2> QED
    BY <2>1, <2>2
<1>7. ReleasesOnly'
  BY <1>2, <1>3, <1>5, <1>6 DEF ShellInv, ReleasesOnly, CallWaits
<1>8. PlainOnly'
  BY <1>3 DEF ShellInv, PlainOnly
<1>9. S!OnlyReleasedRuns'
  BY <1>2, <1>5 DEF ShellInv, S!OnlyReleasedRuns, KnownHeads, S!Bypasses
<1>10. WaiterRegistered'
  BY <1>1, <1>2, <1>3 DEF ShellInv, ShellType, WaiterRegistered, CallWaits
<1>11. ItemsNumbered'
  BY <1>2, <1>3 DEF ShellInv, ItemsNumbered, CallWaits
<1>12. ShownIsWaiting'
  BY <1>2, <1>3 DEF ShellInv, ShellType, ShownIsWaiting, AskedTwice
<1> QED
  BY <1>4, <1>7, <1>8, <1>9, <1>10, <1>11, <1>12 DEF ShellInv

-----------------------------------------------------------------------------
(* The verdict: the call has left the queue when it arrives.               *)
LEMMA DecideKeeps ==
  ASSUME S!ShellAssumption, ShellInv, NEW c \in Actor, S!Decide(c)
  PROVE  ShellInv'
<1> DEFINE old == s5[c]
           ok == old.verdict = "approved"
           r == IF ok THEN [S!Idle EXCEPT !.at = "runs", !.g = old.g, !.cmd = old.cmd] ELSE S!Idle
<1>1. /\ old \in CallRecord /\ CallWaits(c) /\ old.verdict # "none"
      /\ old.cmd \in Script /\ old.cmd.is = "plain" /\ (ok => old.cmd.name \in KnownHeads)
  BY DEF S!Decide, S!Decided, ShellInv, ShellType, PlainOnly, ReleasesOnly, CallWaits
<1>2. /\ s4' = IF ok THEN [s4 EXCEPT ![old.g] = @ \union {old.cmd.name}] ELSE s4
      /\ s5' = [s5 EXCEPT ![c] = r]
      /\ s10' = IF ok THEN old.cmd ELSE s10
      /\ UNCHANGED <<s1, s2, s3, s6, s7, s8, s9>>
  BY DEF S!Decide, S!Decided
<1>3. /\ r \in [at : {"idle", "runs"}, g : S!Gen, cmd : Script \union {None},
                item : S!Item \union {1}, verdict : {"none"}]
      /\ r \in CallRecord
      /\ r.at = "runs" => r.cmd \in Script /\ r.cmd.is = "plain"
  <2>1. CASE ok
    <3>1. r = [at |-> "runs", g |-> old.g, cmd |-> old.cmd, item |-> 1, verdict |-> "none"]
      BY <2>1 DEF S!Idle
    <3>2. old.g \in S!Gen
      BY <1>1 DEF CallRecord
    <3> HIDE DEF r, old
    <3> QED
      BY <1>1, <3>1, <3>2 DEF CallRecord
  <2>2. CASE ~ok
    <3>1. r = [at |-> "idle", g |-> 1, cmd |-> None, item |-> 1, verdict |-> "none"] /\ 1 \in S!Gen
      BY <2>2 DEF S!Idle, S!Gen, S!ShellAssumption
    <3> HIDE DEF r
    <3> QED
      BY <3>1 DEF CallRecord
  <2> QED
    BY <2>1, <2>2
<1>4. \A i \in S!Item : s6[i] # c
  BY <1>1 DEF ShellInv, WaiterRegistered, S!ShellAssumption
<1> HIDE DEF r
<1>5. /\ PlainOnly' /\ WaiterRegistered' /\ ItemsNumbered' /\ ShownIsWaiting'
      /\ (\A d \in Actor : CallWaits(d) /\ s5[d].verdict = "approved" => s5[d].cmd.name \in KnownHeads)'
  BY <1>2, <1>3, <1>4, LeavesQueue
<1>6. \A g \in S!Gen : s4'[g] \subseteq KnownHeads'
  BY <1>1, <1>2 DEF ShellInv, ShellType, ReleasesOnly, KnownHeads
<1>7. ShellType'
  <2>1. s5' \in [Actor -> CallRecord]
    BY <1>2, <1>3 DEF ShellInv, ShellType
  <2>2. s4' \in [S!Gen -> SUBSET Program]
    <3>1. old.cmd.name \in Program /\ old.g \in S!Gen
      BY <1>1 DEF S!ShellAssumption, CallRecord
    <3> QED
      BY <1>2, <3>1 DEF ShellInv, ShellType
  <2> QED
    BY <1>1, <1>2, <2>1, <2>2 DEF ShellInv, ShellType
<1>8. S!OnlyReleasedRuns'
  BY <1>1, <1>2 DEF ShellInv, S!OnlyReleasedRuns, KnownHeads, S!Bypasses
<1> QED
  BY <1>5, <1>6, <1>7, <1>8 DEF ShellInv, ReleasesOnly

LEMMA ExitKeeps ==
  ASSUME S!ShellAssumption, ShellInv, NEW c \in Actor, S!Exit(c)
  PROVE  ShellInv'
<1>1. /\ S!Idle \in [at : {"idle", "runs"}, g : S!Gen, cmd : Script \union {None},
                   item : S!Item \union {1}, verdict : {"none"}]
      /\ S!Idle \in CallRecord /\ S!Idle.at # "runs"
  BY DEF S!Idle, CallRecord, S!Gen, S!ShellAssumption
<1>2. /\ s5' = [s5 EXCEPT ![c] = S!Idle]
      /\ UNCHANGED <<s1, s2, s3, s4, s6, s7, s8, s9, s10>>
  BY DEF S!Exit
<1>3. \A i \in S!Item : s6[i] # c
  BY DEF S!Exit, ShellInv, WaiterRegistered, CallWaits, S!ShellAssumption
<1>4. /\ PlainOnly' /\ WaiterRegistered' /\ ItemsNumbered' /\ ShownIsWaiting'
      /\ (\A d \in Actor : CallWaits(d) /\ s5[d].verdict = "approved" => s5[d].cmd.name \in KnownHeads)'
  BY <1>1, <1>2, <1>3, LeavesQueue
<1>5. ShellType'
  BY <1>1, <1>2 DEF ShellInv, ShellType
<1>6. S!OnlyReleasedRuns' /\ \A g \in S!Gen : s4'[g] \subseteq KnownHeads'
  BY <1>2 DEF ShellInv, ReleasesOnly, S!OnlyReleasedRuns, KnownHeads, S!Bypasses
<1> QED
  BY <1>4, <1>5, <1>6 DEF ShellInv, ReleasesOnly

LEMMA NothingKeeps ==
  ASSUME ShellInv, s2' \in S!Gen,
         UNCHANGED <<s1, s3, s4, s5, s6, s7, s8, s9, s10>>
  PROVE  ShellInv'
BY DEF ShellInv, ShellType, ReleasesOnly, PlainOnly, WaiterRegistered, ItemsNumbered, ShownIsWaiting,
       S!OnlyReleasedRuns, CallWaits, KnownHeads, AskedTwice, S!Bypasses

LEMMA ShellNext == ASSUME S!ShellAssumption PROVE ShellInv /\ [S!Next]_S!vars => ShellInv'
<1> SUFFICES ASSUME ShellInv, [S!Next]_S!vars PROVE ShellInv'
  OBVIOUS
<1>1. ASSUME NEW c \in Actor, NEW cmd \in Script, NEW g \in S!Gen, S!RunFree(c, g, cmd) PROVE ShellInv'
  BY <1>1, RunFreeKeeps
<1>2. ASSUME NEW c \in Actor, NEW cmd \in Script, NEW g \in S!Gen, S!Ask(c, g, cmd) PROVE ShellInv'
  BY <1>2, AskKeeps
<1>3. ASSUME NEW c \in Actor, S!Declare(c) PROVE ShellInv'
  BY <1>3, DeclareKeeps
<1>4. ASSUME NEW c \in Actor, S!Decide(c) PROVE ShellInv'
  BY <1>4, DecideKeeps
<1>5. ASSUME NEW c \in Actor, S!Exit(c) PROVE ShellInv'
  BY <1>5, ExitKeeps
<1>6. ASSUME NEW i \in S!Item, NEW v \in {"approved", "rejected"}, S!Review(i, v) PROVE ShellInv'
  BY <1>6, ReviewKeeps
<1>7. CASE S!NextExecution
  <2>1. s2' \in S!Gen
    BY <1>7 DEF S!NextExecution, ShellInv, ShellType, S!Gen, S!ShellAssumption
  <2> QED
    BY <1>7, <2>1, NothingKeeps DEF S!NextExecution
<1>8. ASSUME NEW c \in Actor, NEW cmd \in Script, S!Refuse(c, cmd) PROVE ShellInv'
  <2>1. s2' \in S!Gen
    BY <1>8 DEF S!Refuse, S!vars, ShellInv, ShellType
  <2> QED
    BY <1>8, <2>1, NothingKeeps DEF S!Refuse, S!vars
<1>9. CASE UNCHANGED S!vars
  <2>1. s2' \in S!Gen
    BY <1>9 DEF S!vars, ShellInv, ShellType
  <2> QED
    BY <1>9, <2>1, NothingKeeps DEF S!vars
<1> QED
  BY <1>1, <1>2, <1>3, <1>4, <1>5, <1>6, <1>7, <1>8, <1>9 DEF S!Next

(* A plain command runs when the level or the white list covers it, or a   *)
(* human released a command that was shown to him and whose first word the *)
(* approval takes for the same name (unless two executions used the item); *)
(* no other kind of command ever runs: for any commands, quoted or not, and *)
(* any number of calls, overlapping executions and items                   *)
(* (ControlledBash.exec with makeBashApproval, SupervisionGate.awaitCheck). *)
THEOREM OnlyReleasedEver == Spec => []OnlyReleasedRuns
<1> DEFINE Inv == part = "shell" => ShellInv
<1>1. Init => Inv
  BY ShellStarts, ShellConstants DEF Init
<1>2. Inv /\ [Next]_vars => Inv'
  <2> SUFFICES ASSUME Inv, [Next]_vars, part' = "shell" PROVE ShellInv'
    OBVIOUS
  <2>1. part = "shell" /\ [S!Next]_S!vars
    BY DEF Next, vars, S!vars
  <2> QED
    BY <2>1, ShellNext, ShellConstants
<1>3. Inv => OnlyReleasedRuns
  BY DEF ShellInv, OnlyReleasedRuns
<1> QED
  BY <1>1, <1>2, <1>3, PTL DEF Spec

-----------------------------------------------------------------------------
(* Delivery                                                                 *)

LEMMA DeliveryStart == D!Init => D!DeliveryInv
<1> SUFFICES ASSUME D!Init PROVE D!DeliveryInv
  OBVIOUS
<1>1. /\ [n \in Operator |-> "absent"] \in [Operator -> D!Stored]
      /\ [f \in D!Field |-> IF f = "primary" THEN "plain" ELSE "absent"] \in [D!Field -> D!Stored]
  BY DEF D!Stored
<1>2. \A k \in Thing : [n \in Operator |-> k] \in [Operator -> D!Stored]
                       /\ [f \in D!Field |-> k] \in [D!Field -> D!Stored]
  BY DEF D!Stored
<1>3. D!Fresh \in D!Yaml
  BY <1>1 DEF D!Fresh, D!Yaml, D!Layout
<1>4. \A k \in Thing : D!Sealed(k) \in D!Yaml
  BY <1>2, <1>3 DEF D!Sealed, D!Yaml, D!Layout
<1>5. D!TypeOK
  BY <1>3, <1>4 DEF D!Init, D!TypeOK, D!Stored, D!Off
<1>6. D!ReportIsCurrent /\ D!HandedIsWritten /\ D!DeliveryIsSound
  BY DEF D!Init, D!ReportIsCurrent, D!HandedIsWritten, D!DeliveryIsSound, D!GreenStarts, D!KeysAreOpen,
     D!TokensAnswer, D!RestartSeals, D!Off
<1> QED
  BY <1>5, <1>6 DEF D!DeliveryInv

(* A change outdates the report and leaves the console as it is.            *)
LEMMA DeliveryChanged ==
  ASSUME D!DeliveryInv, D!Changed, D!TypeOK', D!HandedIsWritten'
  PROVE  D!DeliveryInv'
BY DEF D!DeliveryInv, D!Changed, D!ReportIsCurrent, D!DeliveryIsSound, D!GreenStarts, D!KeysAreOpen,
   D!TokensAnswer, D!RestartSeals

(* A green report leaves a start little to stumble over.                    *)
LEMMA GreenMeansReady ==
  ASSUME D!TypeOK, D!Red = {}, D!Obstacle # None
  PROVE  D!Obstacle \in {"roots", "strict"}
<1>1. ~D!ConfigIsRed /\ ~D!Faulty("data") /\ ~(D!StorageKnown /\ ~D!Reachable)
  BY DEF D!Red
<1>2. D!Loads
  BY <1>1 DEF D!ConfigIsRed
<1>3. D!Reachable
  BY <1>1, <1>2 DEF D!Loads, D!Parses, D!StorageKnown, D!Reachable, D!TypeOK
<1> QED
  BY <1>2, <1>3 DEF D!Obstacle

LEMMA DeliveryStep == D!DeliveryInv /\ [D!Next]_D!vars => D!DeliveryInv'
<1> SUFFICES ASSUME D!DeliveryInv, [D!Next]_D!vars PROVE D!DeliveryInv'
  OBVIOUS
<1> USE DeliveryConstants DEF D!DeliveryAssumption
<1>a. D!TypeOK /\ D!ReportIsCurrent /\ D!HandedIsWritten /\ D!DeliveryIsSound
  BY DEF D!DeliveryInv
<1>1. CASE D!Doctor
  <2>1. UNCHANGED <<s1, s2, s3, s4, s6, s7, s8>>
    BY <1>1 DEF D!Doctor
  <2>2. D!Red' = D!Red
    BY <2>1 DEF D!Red, D!Faulty, D!ConfigIsRed, D!Loads, D!Parses, D!StorageParses, D!RoutesParse, D!TokensParse,
       D!SectionsParse, D!HasCiphertext, D!Exposed, D!HasTokens, D!StorageKnown, D!Reachable
  <2>3. D!ReportIsCurrent'
    BY <1>1, <2>2 DEF D!Doctor, D!ReportIsCurrent
  <2> QED
    BY <1>a, <2>1, <2>3 DEF D!DeliveryInv, D!TypeOK, D!HandedIsWritten, D!DeliveryIsSound, D!GreenStarts,
       D!KeysAreOpen, D!TokensAnswer, D!RestartSeals
<1>2. ASSUME NEW f \in D!Field, D!Type(f) \/ D!Seal(f) PROVE D!DeliveryInv'
  <2>1. PICK v \in D!Stored : s1' = [s1 EXCEPT !.secret[f] = v]
    BY <1>2 DEF D!Type, D!Seal, D!Stored
  <2>2. D!Changed /\ UNCHANGED <<s3, s7>> /\ s2' = s2
    BY <1>2 DEF D!Type, D!Seal
  <2>3. D!TypeOK' /\ D!HandedIsWritten'
    BY <1>a, <2>1, <2>2 DEF D!TypeOK, D!Yaml, D!HandedIsWritten, D!Changed
  <2> QED
    BY <2>2, <2>3, DeliveryChanged
<1>3. CASE D!Edit
  <2>1. D!Changed /\ UNCHANGED <<s2, s3, s7>>
    BY <1>3 DEF D!Edit
  <2>2. D!TypeOK' /\ D!HandedIsWritten'
    BY <1>3, <1>a, <2>1 DEF D!Edit, D!TypeOK, D!Yaml, D!HandedIsWritten, D!Changed
  <2> QED
    BY <2>1, <2>2, DeliveryChanged
<1>4. ASSUME NEW n \in Operator, D!Issue(n) PROVE D!DeliveryInv'
  <2>1. D!Changed /\ UNCHANGED <<s2, s3>> /\ s7' = s7 \union {n} /\ s2 # "short"
    BY <1>4 DEF D!Issue
  <2>2. PICK v, auth, tangled, twice :
          /\ v = IF s1.token[n] = "absent" THEN (IF s2 = None THEN "plain" ELSE s2) ELSE s1.token[n]
          /\ auth = IF s1.auth = "none" THEN "block" ELSE s1.auth
          /\ tangled = (s1.tangled \/ s1.auth \in D!Misread)
          /\ twice = (s1.twice \/ s1.token[n] # "absent")
    OBVIOUS
  <2>3. v \in D!Stored /\ v # "absent" /\ auth \in D!Layout
        /\ tangled \in BOOLEAN /\ twice \in BOOLEAN
    BY <1>a, <2>1, <2>2 DEF D!TypeOK, D!Stored, D!Yaml, D!Layout, D!Misread
  <2>4. s1' = [s1 EXCEPT !.token[n] = v, !.twice = twice, !.tangled = tangled, !.auth = auth]
    BY <1>4, <1>a, <2>2 DEF D!Issue, D!TypeOK, D!Yaml
  <2>5. s1' \in D!Yaml
    BY <1>a, <2>3, <2>4 DEF D!TypeOK, D!Yaml
  <2>6. s1'.token[n] = v /\ \A m \in Operator : m # n => s1'.token[m] = s1.token[m]
    BY <1>a, <2>4 DEF D!TypeOK, D!Yaml
  <2>7. D!TypeOK' /\ D!HandedIsWritten'
    BY <1>a, <2>1, <2>3, <2>5, <2>6 DEF D!TypeOK, D!HandedIsWritten, D!Changed
  <2> QED
    BY <2>1, <2>7, DeliveryChanged
<1>5. CASE D!WriteAuth
  <2>1. D!Changed /\ UNCHANGED <<s2, s3>> /\ s7' = {}
    BY <1>5 DEF D!WriteAuth
  <2>2. PICK a \in D!Layout, token \in [Operator -> D!Stored] :
          s1' = [s1 EXCEPT !.auth = a, !.twice = FALSE, !.tangled = FALSE, !.token = token]
    <3>1. PICK n \in Operator, a \in D!Layout :
            s1' = [s1 EXCEPT !.auth = a, !.twice = FALSE, !.tangled = FALSE,
                     !.token = [m \in Operator |-> IF a # "none" /\ m = n THEN "plain" ELSE "absent"]]
      BY <1>5 DEF D!WriteAuth
    <3>2. [m \in Operator |-> IF a # "none" /\ m = n THEN "plain" ELSE "absent"] \in [Operator -> D!Stored]
      BY DEF D!Stored
    <3> QED
      BY <3>1, <3>2
  <2>3. s1' \in D!Yaml
    BY <1>a, <2>2 DEF D!TypeOK, D!Yaml
  <2>4. D!TypeOK' /\ D!HandedIsWritten'
    BY <1>a, <2>1, <2>3 DEF D!TypeOK, D!HandedIsWritten, D!Changed
  <2> QED
    BY <2>1, <2>4, DeliveryChanged
<1>6. CASE D!SetKey
  <2>1. D!Changed /\ UNCHANGED <<s1, s3, s7>> /\ s2' \in Thing \union {None, "short"}
    BY <1>6 DEF D!SetKey
  <2>2. D!TypeOK' /\ D!HandedIsWritten'
    BY <1>a, <2>1 DEF D!TypeOK, D!HandedIsWritten, D!Changed
  <2> QED
    BY <2>1, <2>2, DeliveryChanged
<1>7. ASSUME NEW f \in Fault, D!Change(f) PROVE D!DeliveryInv'
  <2>1. D!Changed /\ UNCHANGED <<s1, s2, s7>>
    BY <1>7 DEF D!Change
  <2>2. D!TypeOK' /\ D!HandedIsWritten'
    BY <1>a, <2>1 DEF D!TypeOK, D!HandedIsWritten, D!Changed
  <2> QED
    BY <2>1, <2>2, DeliveryChanged
<1>8. CASE D!Start
  <2>1. UNCHANGED <<s1, s2, s3, s7, s8>> /\ s4' = (IF D!Obstacle \in {None, "strict"} THEN D!Migrated ELSE s4)
        /\ s5' = IF s4' = s4 THEN s5 ELSE "none"
    BY <1>8 DEF D!Start
  <2>2. D!TypeOK' /\ D!HandedIsWritten'
    BY <1>8, <1>a, <2>1 DEF D!Start, D!TypeOK, D!HandedIsWritten, D!Migrated, D!Stored
  <2>3. D!ReportIsCurrent'
    <3>1. s4' = s4 => D!Red' = D!Red
      BY <2>1 DEF D!Red, D!Faulty, D!ConfigIsRed, D!Loads, D!Parses, D!StorageParses, D!RoutesParse, D!TokensParse,
         D!SectionsParse, D!HasCiphertext, D!Exposed, D!HasTokens, D!StorageKnown, D!Reachable
    <3> QED
      BY <1>a, <2>1, <3>1 DEF D!ReportIsCurrent
  <2>4. CASE D!Obstacle = None
    <3>1. PICK sends : sends = [f \in D!Field |->
               IF f \in D!OpenedOnLoad \union {"password"} THEN D!Resolved(s1.secret[f]) ELSE s1.secret[f]]
      OBVIOUS
    <3>2. s6' = [state |-> "up", key |-> s2, sends |-> sends,
                 accepts |-> {n \in Operator : s1.token[n] # "absent"}, owes |-> s7]
      BY <1>8, <2>4, <3>1 DEF D!Start
    <3>3. \A f \in D!Field \ {"fallback"} : sends[f] \notin Thing
      BY <3>1 DEF D!Field, D!OpenedOnLoad, D!Resolved
    <3>4. s2 \in Thing => s4' # "plain"
      BY <2>1, <2>4 DEF D!Migrated
    <3>5. D!GreenStarts' /\ D!KeysAreOpen' /\ D!TokensAnswer' /\ D!RestartSeals'
      BY <1>a, <3>2, <3>3, <3>4 DEF D!GreenStarts, D!KeysAreOpen, D!TokensAnswer, D!RestartSeals, D!HandedIsWritten
    <3> QED
      BY <2>2, <2>3, <3>5 DEF D!DeliveryInv, D!DeliveryIsSound
  <2>5. CASE D!Obstacle # None
    <3>1. s6' = [state |-> "refused", cause |-> D!Obstacle, foretold |-> s5]
      BY <1>8, <2>5 DEF D!Start
    <3>2. s5 = "green" => D!Obstacle \in {"roots", "strict"}
      BY <1>a, <2>5, GreenMeansReady DEF D!ReportIsCurrent
    <3>3. D!GreenStarts' /\ D!KeysAreOpen' /\ D!TokensAnswer' /\ D!RestartSeals'
      BY <3>1, <3>2 DEF D!GreenStarts, D!KeysAreOpen, D!TokensAnswer, D!RestartSeals
    <3> QED
      BY <2>2, <2>3, <3>3 DEF D!DeliveryInv, D!DeliveryIsSound
  <2> QED
    BY <2>4, <2>5
<1>9. CASE D!Stop \/ UNCHANGED D!vars
  <2>1. UNCHANGED <<s1, s2, s3, s4, s5, s7, s8>> /\ (s6' = D!Off \/ s6' = s6)
    BY <1>9 DEF D!Stop, D!vars
  <2>2. D!ReportIsCurrent'
    <3>1. D!Red' = D!Red
      BY <2>1 DEF D!Red, D!Faulty, D!ConfigIsRed, D!Loads, D!Parses, D!StorageParses, D!RoutesParse, D!TokensParse,
         D!SectionsParse, D!HasCiphertext, D!Exposed, D!HasTokens, D!StorageKnown, D!Reachable
    <3> QED
      BY <1>a, <2>1, <3>1 DEF D!ReportIsCurrent
  <2> QED
    BY <1>a, <2>1, <2>2 DEF D!DeliveryInv, D!TypeOK, D!HandedIsWritten, D!DeliveryIsSound, D!GreenStarts,
       D!KeysAreOpen, D!TokensAnswer, D!RestartSeals, D!Off
<1>10. CASE D!Bind
  <2>1. UNCHANGED <<s1, s2, s3, s6, s7, s8>> /\ s5' = "none" /\ s6.state = "up" /\ s6.key # "short"
        /\ s4' = IF s6.key = None THEN "plain" ELSE s6.key
    BY <1>10 DEF D!Bind
  <2>2. D!TypeOK' /\ D!HandedIsWritten' /\ D!ReportIsCurrent'
    BY <1>a, <2>1 DEF D!TypeOK, D!HandedIsWritten, D!ReportIsCurrent, D!Stored
  <2>3. D!GreenStarts' /\ D!KeysAreOpen' /\ D!TokensAnswer'
    BY <1>a, <2>1 DEF D!DeliveryIsSound, D!GreenStarts, D!KeysAreOpen, D!TokensAnswer
  <2>4. D!RestartSeals'
    BY <2>1 DEF D!RestartSeals
  <2> QED
    BY <2>2, <2>3, <2>4 DEF D!DeliveryInv, D!DeliveryIsSound
<1> QED
  BY <1>1, <1>2, <1>3, <1>4, <1>5, <1>6, <1>7, <1>8, <1>9, <1>10 DEF D!Next

(* A green doctor means a console that starts, but for what it does not    *)
(* look at; and a console that serves sends opened keys, takes the tokens  *)
(* it owes and has sealed its rows: after any number of edits of the yaml, *)
(* the environment and the host (runChecks, loadRuntimeConfig,             *)
(* startConsoleServer).                                                    *)
THEOREM DeliveryStaysSound == Spec => []DeliveryIsSound
<1> DEFINE Inv == part = "delivery" => D!DeliveryInv
<1>1. Init => Inv
  BY DeliveryStart DEF Init
<1>2. Inv /\ [Next]_vars => Inv'
  <2> SUFFICES ASSUME Inv, [Next]_vars, part' = "delivery" PROVE D!DeliveryInv'
    OBVIOUS
  <2>1. part = "delivery" /\ [D!Next]_D!vars
    BY DEF Next, vars, D!vars
  <2> QED
    BY <2>1, DeliveryStep
<1>3. Inv => DeliveryIsSound
  BY DEF D!DeliveryInv, DeliveryIsSound
<1> QED
  BY <1>1, <1>2, <1>3, PTL DEF Spec

(* A token for a new name is a value that the key in the environment opens *)
(* and, in a section the command knows, a line that the loader takes; one  *)
(* put into a section it misreads is a line that nothing reads.            *)
LEMMA IssueIsTaken ==
  D!DeliveryInv /\ [D!Next]_D!vars => \A n \in Operator : D!IssueLeavesItLoading(n)
<1> SUFFICES ASSUME D!DeliveryInv, [D!Next]_D!vars, NEW n \in Operator,
                    D!Loads, s1.token[n] = "absent", n \in s7' \ s7
             PROVE  D!Loads' <=> s1.auth \notin D!Misread
  BY DEF D!IssueLeavesItLoading
<1> USE DeliveryConstants DEF D!DeliveryAssumption
<1>1. D!TypeOK
  BY DEF D!DeliveryInv
<1>2. D!Issue(n)
  BY DEF D!Next, D!Doctor, D!Type, D!Seal, D!Edit, D!Issue, D!WriteAuth, D!SetKey, D!Change, D!Start, D!Stop,
     D!Bind, D!vars
<1>3. PICK v, auth : v = (IF s2 = None THEN "plain" ELSE s2) /\ auth = (IF s1.auth = "none" THEN "block" ELSE s1.auth)
  OBVIOUS
<1>4. PICK tangled : tangled = (s1.auth \in D!Misread) /\ tangled = (s1.tangled \/ s1.auth \in D!Misread)
  BY DEF D!Loads, D!Parses
<1>0. PICK twice : twice = s1.twice /\ twice = (s1.twice \/ s1.token[n] # "absent")
  BY <1>1 DEF D!TypeOK, D!Yaml
<1>11. s1' = [s1 EXCEPT !.token[n] = v, !.twice = twice, !.tangled = tangled, !.auth = auth]
  BY <1>1, <1>2, <1>3, <1>4, <1>0 DEF D!Issue, D!TypeOK, D!Yaml
<1>5. s1'.token[n] = v /\ \A m \in Operator : m # n => s1'.token[m] = s1.token[m]
  BY <1>1, <1>11 DEF D!TypeOK, D!Yaml
<1>6. s1'.twice = s1.twice /\ s1'.tangled = (s1.auth \in D!Misread) /\ s1'.secret = s1.secret /\ s1'.wrong = s1.wrong
      /\ s1'.driver = s1.driver
  BY <1>1, <1>0, <1>4, <1>11 DEF D!TypeOK, D!Yaml
<1>7. s2' = s2
  BY <1>2 DEF D!Issue
<1>8. D!Parses' <=> s1.auth \notin D!Misread
  BY <1>6 DEF D!Loads, D!Parses, D!StorageParses, D!RoutesParse, D!TokensParse, D!SectionsParse
<1>9. \A m \in Operator : D!Opens(s1'.token[m], s2')
  BY <1>3, <1>5, <1>7 DEF D!Loads, D!Opens
<1> QED
  BY <1>6, <1>7, <1>8, <1>9 DEF D!Loads, D!Opens

-----------------------------------------------------------------------------
(* Intake: the dialog                                                       *)

(* What a passage through the form leaves.                                  *)
LEMMA FormKeepsType ==
  /\ \A x : I!FormOf(x) \in I!Objects \union {NoText}
  /\ \A x : I!FormYaml(x) \in I!Objects \union {Broken}
<1>1. ASSUME NEW x PROVE I!FormOf(x) \in I!Objects \union {NoText}
  <2>1. CASE x \in I!Objects
    <3>1. PICK b, s : b = (IF x.body = "plan" THEN "plan" ELSE "none") /\ s = (IF x.shape = "nested" THEN "worn" ELSE x.shape)
      OBVIOUS
    <3>2. b \in {"plan", "none"} /\ s \in I!Shape
      BY <2>1, <3>1 DEF I!Objects, I!Stuff, I!Shape
    <3>3. I!FormOf(x) = [x EXCEPT !.extra = FALSE, !.body = b, !.shape = s]
      BY <2>1, <3>1 DEF I!FormOf
    <3>4. [x EXCEPT !.extra = FALSE, !.body = b, !.shape = s] \in I!Objects
      BY <2>1, <3>2 DEF I!Objects, I!Stuff
    <3> QED
      BY <3>3, <3>4
  <2>2. CASE x \notin I!Objects
    BY <2>2 DEF I!FormOf
  <2> QED
    BY <2>1, <2>2
<1>2. ASSUME NEW x PROVE I!FormYaml(x) \in I!Objects \union {Broken}
  <2>1. CASE x \in I!Objects
    <3>1. PICK s \in I!Shape : s = I!Worn(x.shape)
      BY <2>1 DEF I!Worn, I!Shape
    <3>2. I!FormYaml(x) = [x EXCEPT !.shape = s]
      BY <2>1, <3>1 DEF I!FormYaml
    <3>3. [x EXCEPT !.shape = s] \in I!Objects
      BY <2>1 DEF I!Objects, I!Stuff
    <3> QED
      BY <3>2, <3>3
  <2>2. CASE x \notin I!Objects
    BY <2>2 DEF I!FormYaml
  <2> QED
    BY <2>1, <2>2
<1> QED
  BY <1>1, <1>2

LEMMA SameItself == \A x \in I!Docs : I!Same(x, x)
<1> SUFFICES ASSUME NEW x \in I!Docs PROVE I!Same(x, x)
  OBVIOUS
<1>1. x = [x EXCEPT !.shape = x.shape]
  BY DEF I!Docs, I!Stuff
<1> QED
  BY <1>1 DEF I!Same

(* Without a loss to confirm, the form of a text is that text but for what  *)
(* its lines cannot show; and so is the yaml of that form.                  *)
LEMMA FormKeepsSame ==
  ASSUME NEW x, NEW y, I!Same(y, x)
  PROVE  /\ ~I!Legacy(y) => I!Same(I!FormOf(y), x)
         /\ I!Same(I!FormYaml(y), x)
<1>1. PICK s \in {x.shape, I!Worn(x.shape)} : y = [x EXCEPT !.shape = s]
  BY DEF I!Same
<1>2. x \in I!Docs /\ y \in I!Docs /\ y \in I!Objects
  BY DEF I!Same, I!Docs, I!Objects, I!Stuff
<1>3. x.shape \in I!Shape /\ s \in I!Shape /\ y.shape = s
  BY <1>1, <1>2 DEF I!Docs, I!Stuff, I!Shape, I!Worn
<1>4. ASSUME NEW r \in {x.shape, I!Worn(x.shape)}, NEW z, z = [y EXCEPT !.shape = r] PROVE I!Same(z, x)
  <2>1. z = [x EXCEPT !.shape = r]
    BY <1>1, <1>2, <1>4 DEF I!Docs, I!Stuff
  <2>2. r \in I!Shape
    BY <1>3, <1>4 DEF I!Shape, I!Worn
  <2>3. z \in I!Docs
    BY <1>2, <2>1, <2>2 DEF I!Docs, I!Stuff
  <2> QED
    BY <1>2, <1>4, <2>1, <2>3 DEF I!Same
<1>5. ASSUME ~I!Legacy(y) PROVE I!Same(I!FormOf(y), x)
  <2>1. y.body = "plan" /\ y.extra = FALSE
    BY <1>2, <1>5 DEF I!Legacy, I!LegacyFields, I!Docs, I!Stuff
  <2>2. PICK r : r = IF s = "nested" THEN "worn" ELSE s
    OBVIOUS
  <2>3. r \in {x.shape, I!Worn(x.shape)}
    BY <1>3, <2>2 DEF I!Worn, I!Shape
  <2>4. I!FormOf(y) = [y EXCEPT !.extra = FALSE, !.body = "plan", !.shape = r]
    BY <1>2, <1>3, <2>1, <2>2 DEF I!FormOf
  <2>5. [y EXCEPT !.extra = FALSE, !.body = "plan", !.shape = r] = [y EXCEPT !.shape = r]
    BY <1>2, <2>1 DEF I!Docs, I!Stuff
  <2> QED
    BY <1>4, <2>3, <2>4, <2>5
<1>6. I!Same(I!FormYaml(y), x)
  <2>1. I!Worn(y.shape) \in {x.shape, I!Worn(x.shape)}
    BY <1>3 DEF I!Worn, I!Shape
  <2>2. I!FormYaml(y) = [y EXCEPT !.shape = I!Worn(y.shape)]
    BY <1>2 DEF I!FormYaml
  <2> QED
    BY <1>4, <2>1, <2>2
<1> QED
  BY <1>5, <1>6

LEMMA DialogStart == I!Init => I!IntakeInv
<1> SUFFICES ASSUME I!Init PROVE I!IntakeInv
  OBVIOUS
<1>1. I!Closed \in I!Face
  BY DEF I!Closed, I!Shown, I!Face
<1>2. I!TypeOK
  BY <1>1 DEF I!Init, I!TypeOK
<1>3. I!TextIsRead
  BY DEF I!Init, I!TextIsRead, I!Closed
<1>4. I!GeneratedParses /\ I!JobKnowsRow /\ I!ScheduledIsChecked
  BY DEF I!Init, I!GeneratedParses, I!Idle, I!JobKnowsRow, I!ScheduledIsChecked, I!NoRow
<1> QED
  BY <1>2, <1>3, <1>4 DEF I!IntakeInv

(* What a dialog may become: what it says of its text stays true.           *)
LEMMA DialogStep ==
  ASSUME I!IntakeInv, NEW d \in Dialog, NEW q \in I!Face,
         s4' = [s4 EXCEPT ![d] = q], UNCHANGED <<s1, s2, s3, s7, s8, s9, s10>>,
         s5' \subseteq I!Docs,
         s6' \in {I!Idle, s6},
         q.tab # "closed" /\ q.read # NoText =>
           I!Same(q.text, q.read) /\ (q.tab = "form" => I!Same(q.form, q.read))
  PROVE  I!IntakeInv'
<1>1. I!TypeOK'
  BY DEF I!IntakeInv, I!TypeOK
<1>2. \A e \in Dialog : s4'[e] = s4[e] \/ (e = d /\ s4'[e] = q)
  BY DEF I!IntakeInv, I!TypeOK
<1>3. I!TextIsRead'
  BY <1>2 DEF I!IntakeInv, I!TextIsRead
<1>4. I!GeneratedParses' /\ I!JobKnowsRow' /\ I!ScheduledIsChecked'
  BY DEF I!IntakeInv, I!GeneratedParses, I!Parses, I!Idle, I!JobKnowsRow, I!ScheduledIsChecked
<1> QED
  BY <1>1, <1>3, <1>4 DEF I!IntakeInv

(* A task once stored stays stored, and one that goes on keeps its row's    *)
(* history: what happens to the rows apart from publications.               *)
LEMMA DialogRows ==
  ASSUME I!IntakeInv, s1' \in [Task -> {I!NoRow} \union I!Row], UNCHANGED <<s9, s10>>,
         \A t \in Task :
           \/ s1'[t] = s1[t]
           \/ s1'[t].status = "draft" \/ s1'[t].how = "rerun"
           \/ s1[t].status \in {"pending", "busy", "over"} /\ s1'[t].how = s1[t].how /\ s1'[t].doc = s1[t].doc
  PROVE  I!ScheduledIsChecked'
BY DEF I!IntakeInv, I!ScheduledIsChecked

LEMMA DialogNext == I!IntakeInv /\ [I!Next]_I!vars => I!IntakeInv'
<1> SUFFICES ASSUME I!IntakeInv, [I!Next]_I!vars PROVE I!IntakeInv'
  OBVIOUS
<1> USE DialogConstants DEF I!IntakeAssumption
<1>a. /\ I!TypeOK /\ I!TextIsRead /\ I!GeneratedParses /\ I!JobKnowsRow /\ I!ScheduledIsChecked
      /\ s4 \in [Dialog -> I!Face] /\ s5 \subseteq I!Docs
  BY DEF I!IntakeInv, I!TypeOK
<1>b. I!Docs \subseteq I!Objects /\ Package \subseteq I!Docs /\ I!Objects \subseteq I!Shown /\ {Broken, NoText} \subseteq I!Shown
  BY DEF I!Docs, I!Objects, I!Shown, I!Stuff, I!Shape
<1>c. I!Closed \in I!Face /\ I!Closed.tab = "closed" /\ I!Closed.read = NoText
  BY <1>b DEF I!Closed, I!Face
<1>d. \A x : I!FormOf(x) \in I!Shown /\ I!FormYaml(x) \in I!Shown
  BY <1>b, FormKeepsType
<1>e. \A d \in Dialog : s4[d].tab # "closed" /\ s4[d].read # NoText =>
        I!Same(s4[d].text, s4[d].read) /\ (s4[d].tab = "form" => I!Same(s4[d].form, s4[d].read))
  BY <1>a DEF I!TextIsRead
<1>g. \A d \in Dialog, forgets \in BOOLEAN : I!Shut(d, forgets) \in I!Face /\ I!Shut(d, forgets).tab = "closed"
  <2> SUFFICES ASSUME NEW d \in Dialog, NEW forgets \in BOOLEAN
               PROVE  I!Shut(d, forgets) \in I!Face /\ I!Shut(d, forgets).tab = "closed"
    OBVIOUS
  <2>1. PICK t \in Task \union {None} : t = IF forgets \/ s4[d].loading = 0 THEN None ELSE s4[d].edits
    BY <1>a DEF I!Face
  <2>2. PICK k \in Nat : k = s4[d].loading
    BY <1>a DEF I!Face
  <2>3. I!Shut(d, forgets) = [I!Closed EXCEPT !.loading = k, !.edits = t]
    BY <2>1, <2>2 DEF I!Shut
  <2> QED
    BY <1>c, <2>3 DEF I!Face
<1>1. ASSUME NEW d \in Dialog, NEW t \in Task \union {None}, I!Open(d, t) PROVE I!IntakeInv'
  <2>1. PICK k \in Nat : k = s4[d].loading + 1
    BY <1>a DEF I!Face
  <2>2. PICK q : q = [I!Closed EXCEPT !.tab = IF t = None THEN "ai" ELSE "yaml", !.edits = t, !.loading = k]
    OBVIOUS
  <2>3. q \in I!Face /\ q.read = NoText
    BY <1>c, <2>2 DEF I!Face
  <2>4. s4' = [s4 EXCEPT ![d] = q] /\ s5' = s5 /\ UNCHANGED <<s1, s2, s3, s6, s7, s8, s9, s10>>
    BY <1>1, <2>1, <2>2 DEF I!Open, I!OtherThanDialog
  <2> QED
    BY <1>a, <2>3, <2>4, DialogStep
<1>2. ASSUME NEW d \in Dialog, I!Ask(d) PROVE I!IntakeInv'
  <2>1. PICK k \in Nat : k = s4[d].loading - 1
    BY <1>2, <1>a DEF I!Ask, I!Face
  <2>2. PICK t \in Task \union {None} : t = IF s4[d].loading = 1 THEN None ELSE s4[d].edits
    BY <1>a DEF I!Face
  <2>3. PICK q : q = [s4[d] EXCEPT !.loading = k, !.edits = t]
    OBVIOUS
  <2>4. q \in I!Face /\ q.tab = s4[d].tab /\ q.read = s4[d].read /\ q.text = s4[d].text /\ q.form = s4[d].form
    BY <1>a, <2>3 DEF I!Face
  <2>5. s4' = [s4 EXCEPT ![d] = q] /\ UNCHANGED <<s1, s2, s3, s6, s7, s8, s9, s10>>
    BY <1>2, <1>a, <2>1, <2>2, <2>3 DEF I!Ask, I!OtherThanDialog
  <2>6. s5' \subseteq I!Docs
    <3>1. PICK u : u = s4[d].edits
      OBVIOUS
    <3>2. s5' = IF u # None /\ I!Stored(u) THEN s5 \union {s1[u].doc} ELSE s5
      BY <1>2, <3>1 DEF I!Ask
    <3>3. u \in Task \union {None}
      BY <1>a, <3>1 DEF I!Face
    <3>4. u # None /\ I!Stored(u) => s1[u].doc \in I!Docs
      BY <1>a, <3>3 DEF I!Stored, I!TypeOK, I!NoRow, I!Row
    <3> QED
      BY <1>a, <3>2, <3>4
  <2> QED
    BY <1>e, <2>4, <2>5, <2>6, DialogStep
<1>3. ASSUME NEW d \in Dialog, NEW x \in s5, I!Arrive(d, x) PROVE I!IntakeInv'
  <2>1. x \in I!Docs /\ x \in I!Shown /\ I!Same(x, x)
    BY <1>a, <1>b, SameItself
  <2>2. PICK q : q = IF s4[d].tab = "closed" THEN s4[d]
                     ELSE [s4[d] EXCEPT !.text = x, !.read = IF s4[d].tab = "form" THEN NoText ELSE x]
    OBVIOUS
  <2>3. q \in I!Face /\ (q.tab # "closed" /\ q.read # NoText => q.text = x /\ q.read = x /\ q.tab # "form")
    BY <1>a, <1>b, <2>1, <2>2 DEF I!Face
  <2>4. s4' = [s4 EXCEPT ![d] = q] /\ UNCHANGED <<s1, s2, s3, s6, s7, s8, s9, s10>> /\ s5' \subseteq I!Docs
    BY <1>3, <1>a, <2>2 DEF I!Arrive, I!OtherThanDialog, I!YamlOf
  <2> QED
    BY <2>1, <2>3, <2>4, DialogStep
<1>4. ASSUME NEW d \in Dialog, NEW x \in Package \union {Broken}, I!Write(d, x) PROVE I!IntakeInv'
  <2>1. PICK q : q = s4'[d]
    OBVIOUS
  <2>2. x \in I!Shown /\ I!FormOf(x) \in I!Shown /\ NoText \in I!Shown
    BY <1>b, <1>d
  <2>3. q \in I!Face /\ q.read = NoText /\ s4' = [s4 EXCEPT ![d] = q]
    BY <1>4, <1>a, <2>1, <2>2 DEF I!Write, I!Face
  <2>4. UNCHANGED <<s1, s2, s3, s5, s6, s7, s8, s9, s10>>
    BY <1>4 DEF I!Write, I!OtherThanDialog
  <2> QED
    BY <1>a, <2>3, <2>4, DialogStep
<1>5. ASSUME NEW d \in Dialog, NEW to \in {"ai", "form", "yaml"}, I!Tab(d, to) PROVE I!IntakeInv'
  <2>1. UNCHANGED <<s1, s2, s3, s5, s6, s7, s8, s9, s10>> /\ s4[d].tab # "closed"
    BY <1>5 DEF I!Tab, I!OtherThanDialog, I!Usable
  <2>2. CASE s4' = [s4 EXCEPT ![d].tab = to, ![d].read = IF to = "form" THEN NoText ELSE @]
    <3>1. PICK q : q = [s4[d] EXCEPT !.tab = to, !.read = IF to = "form" THEN NoText ELSE s4[d].read]
      OBVIOUS
    <3>2. q \in I!Face /\ s4' = [s4 EXCEPT ![d] = q] /\ q.text = s4[d].text /\ q.tab = to
          /\ (q.read # NoText => q.read = s4[d].read /\ q.tab # "form")
      BY <1>a, <1>b, <2>2, <3>1 DEF I!Face
    <3> QED
      BY <1>a, <1>e, <2>1, <3>2, DialogStep
  <2>3. CASE s4[d].tab = "form" /\ to = "yaml" /\ s4' = [s4 EXCEPT ![d].tab = to, ![d].text = I!FormYaml(s4[d].form)]
    <3>1. PICK y \in I!Shown : y = I!FormYaml(s4[d].form)
      BY <1>d
    <3>2. PICK q : q = [s4[d] EXCEPT !.tab = to, !.text = y]
      OBVIOUS
    <3>3. q \in I!Face /\ s4' = [s4 EXCEPT ![d] = q] /\ q.text = y /\ q.read = s4[d].read /\ q.tab # "form"
      BY <1>a, <2>3, <3>1, <3>2 DEF I!Face
    <3>4. q.read # NoText => I!Same(y, q.read)
      BY <1>e, <2>1, <2>3, <3>1, <3>3, FormKeepsSame
    <3> QED
      BY <1>a, <2>1, <3>3, <3>4, DialogStep
  <2> QED
    BY <1>5, <2>2, <2>3 DEF I!Tab
<1>6. ASSUME NEW d \in Dialog, I!FillFromYaml(d) PROVE I!IntakeInv'
  <2>1. PICK x \in I!Shown : x = s4[d].text
    BY <1>a DEF I!Face
  <2>2. PICK f \in I!Shown : f = I!FormOf(x)
    BY <1>d
  <2>3. UNCHANGED <<s1, s2, s3, s5, s6, s7, s8, s9, s10>> /\ s4[d].tab = "yaml"
    BY <1>6 DEF I!FillFromYaml, I!OtherThanDialog
  <2>4. CASE x \in I!Objects /\ I!Legacy(x)
    <3>1. PICK q : q = [s4[d] EXCEPT !.asks = f]
      OBVIOUS
    <3>2. q \in I!Face /\ q.text = s4[d].text /\ q.read = s4[d].read /\ q.tab = "yaml"
      BY <1>a, <2>3, <3>1 DEF I!Face
    <3>3. s4' = [s4 EXCEPT ![d] = q]
      BY <1>6, <1>a, <2>1, <2>2, <2>4, <3>1 DEF I!FillFromYaml
    <3> QED
      BY <1>a, <1>e, <2>3, <3>2, <3>3, DialogStep
  <2>5. CASE ~(x \in I!Objects /\ I!Legacy(x))
    <3>1. PICK q : q = [s4[d] EXCEPT !.tab = "form", !.form = f]
      OBVIOUS
    <3>2. q \in I!Face /\ q.text = x /\ q.form = f /\ q.read = s4[d].read
      BY <1>a, <2>1, <3>1 DEF I!Face
    <3>3. s4' = [s4 EXCEPT ![d] = q]
      BY <1>6, <1>a, <2>1, <2>2, <2>5, <3>1 DEF I!FillFromYaml
    <3>4. q.read # NoText => I!Same(q.text, q.read) /\ I!Same(q.form, q.read)
      <4> SUFFICES ASSUME q.read # NoText PROVE I!Same(q.text, q.read) /\ I!Same(q.form, q.read)
        OBVIOUS
      <4>1. I!Same(x, q.read)
        BY <1>e, <2>1, <2>3, <3>2
      <4>2. x \in I!Objects
        BY <1>b, <4>1 DEF I!Same
      <4> QED
        BY <2>2, <2>5, <3>2, <4>1, <4>2, FormKeepsSame
    <3> QED
      BY <1>a, <2>3, <3>2, <3>3, <3>4, DialogStep
  <2> QED
    BY <2>4, <2>5
<1>7. ASSUME NEW d \in Dialog, NEW yes \in BOOLEAN, I!Confirm(d, yes) PROVE I!IntakeInv'
  <2>1. UNCHANGED <<s1, s2, s3, s5, s6, s7, s8, s9, s10>>
    BY <1>7 DEF I!Confirm, I!OtherThanDialog
  <2>2. PICK q : q = IF yes THEN [s4[d] EXCEPT !.tab = "form", !.form = s4[d].asks, !.read = NoText, !.asks = NoText]
                            ELSE [s4[d] EXCEPT !.asks = NoText]
    OBVIOUS
  <2>3. q \in I!Face
        /\ \/ q.read = NoText
           \/ q.read = s4[d].read /\ q.text = s4[d].text /\ q.form = s4[d].form /\ q.tab = s4[d].tab
    BY <1>a, <1>b, <2>2 DEF I!Face
  <2>4. s4' = [s4 EXCEPT ![d] = q]
    BY <1>7, <1>a, <2>2 DEF I!Confirm
  <2> QED
    BY <1>a, <1>e, <2>1, <2>3, <2>4, DialogStep
<1>8. ASSUME NEW d \in Dialog, I!Close(d) PROVE I!IntakeInv'
  <2>1. PICK forgets \in BOOLEAN : s4' = [s4 EXCEPT ![d] = I!Shut(d, forgets)]
    BY <1>8 DEF I!Close
  <2>2. PICK q : q = I!Shut(d, forgets)
    OBVIOUS
  <2>3. q \in I!Face /\ q.tab = "closed" /\ UNCHANGED <<s1, s2, s3, s5, s6, s7, s8, s9, s10>>
    BY <1>8, <1>g, <2>2 DEF I!Close, I!OtherThanDialog
  <2> QED
    BY <1>a, <2>1, <2>2, <2>3, DialogStep
<1>f. ASSUME NEW g \in {I!Idle} \union [pc : {"asked", "parsed"}, kinds : SUBSET Kind, fixed : BOOLEAN, text : I!Shown],
             s6' = g, g.pc = "parsed" => I!Parses(g.text), UNCHANGED <<s1, s2, s3, s4, s5, s7, s8, s9, s10>>
      PROVE  I!IntakeInv'
  BY <1>a, <1>f DEF I!IntakeInv, I!TypeOK, I!TextIsRead, I!GeneratedParses, I!JobKnowsRow, I!ScheduledIsChecked
<1>9. ASSUME NEW d \in Dialog, I!Generate(d) PROVE I!IntakeInv'
  <2>1. PICK g : g = [pc |-> "asked", kinds |-> s2, fixed |-> FALSE, text |-> NoText]
    OBVIOUS
  <2>2. s2 \subseteq Kind
    BY <1>a DEF I!TypeOK
  <2>3. g \in [pc : {"asked", "parsed"}, kinds : SUBSET Kind, fixed : BOOLEAN, text : I!Shown] /\ g.pc = "asked"
    BY <1>b, <2>1, <2>2
  <2>4. s6' = g /\ UNCHANGED <<s1, s2, s3, s4, s5, s7, s8, s9, s10>>
    BY <1>9, <2>1 DEF I!Generate, I!GenOnly
  <2> QED
    BY <1>f, <2>3, <2>4
<1>10. ASSUME NEW d \in Dialog, I!Offer(d) PROVE I!IntakeInv'
  <2>1. PICK x : x = s6.text
    OBVIOUS
  <2>2. x \in I!Shown
    BY <1>10, <1>a, <2>1 DEF I!Offer, I!TypeOK, I!Idle
  <2>a. PICK f : f = [s4[d] EXCEPT !.text = x, !.tab = "yaml", !.read = NoText]
    OBVIOUS
  <2>b. f \in I!Face /\ f.read = NoText
    BY <1>a, <1>b, <2>2, <2>a DEF I!Face
  <2>c. s4' = s4 \/ s4' = [s4 EXCEPT ![d] = f]
    BY <1>10, <2>1, <2>a DEF I!Offer
  <2>3. PICK q : q = s4'[d]
    OBVIOUS
  <2>4. q \in I!Face /\ (q = s4[d] \/ q.read = NoText) /\ s4' = [s4 EXCEPT ![d] = q]
    BY <1>a, <2>b, <2>c, <2>3
  <2>5. UNCHANGED <<s1, s2, s3, s5, s7, s8, s9, s10>> /\ s6' = I!Idle
    BY <1>10 DEF I!Offer, I!GenOnly
  <2> QED
    BY <1>a, <1>e, <2>4, <2>5, DialogStep
<1>11. ASSUME NEW x \in Package \union {Broken}, I!ModelReplies(x) PROVE I!IntakeInv'
  <2>1. s6 \in [pc : {"asked", "parsed"}, kinds : SUBSET Kind, fixed : BOOLEAN, text : I!Shown]
    BY <1>11, <1>a DEF I!ModelReplies, I!TypeOK, I!Idle
  <2>2. PICK g : g = s6'
    OBVIOUS
  <2>3. x \in I!Shown
    BY <1>b
  <2>4. \/ I!Acceptable(x) /\ g = [s6 EXCEPT !.pc = "parsed", !.text = x]
        \/ g = [s6 EXCEPT !.fixed = TRUE] /\ s6.pc = "asked"
        \/ g = I!Idle
    BY <1>11, <2>2 DEF I!ModelReplies
  <2>5. /\ g \in {I!Idle} \union [pc : {"asked", "parsed"}, kinds : SUBSET Kind, fixed : BOOLEAN, text : I!Shown]
        /\ g.pc = "parsed" => I!Parses(g.text)
    <3>1. CASE I!Acceptable(x) /\ g = [s6 EXCEPT !.pc = "parsed", !.text = x]
      <4>1. g.text = x
        BY <2>1, <3>1
      <4> QED
        BY <2>1, <2>3, <3>1, <4>1 DEF I!Acceptable
    <3>2. CASE g = [s6 EXCEPT !.fixed = TRUE] /\ s6.pc = "asked"
      BY <2>1, <3>2
    <3>3. CASE g = I!Idle
      BY <3>3 DEF I!Idle
    <3> QED
      BY <2>4, <3>1, <3>2, <3>3
  <2> QED
    BY <1>11, <1>f, <2>2, <2>5 DEF I!ModelReplies, I!GenOnly
<1>12. CASE I!ModelFails
  BY <1>12, <1>f DEF I!ModelFails, I!GenOnly, I!Idle
<1>13. ASSUME NEW x, NEW d \in Dialog \union {None}, I!Receive(x, d), UNCHANGED s4, UNCHANGED I!SubmitOnly
       PROVE  I!IntakeInv'
  <2>1. x \in I!Docs
    BY <1>13 DEF I!Receive, I!Parses, I!Docs, I!Stuff
  <2>2. s7' \in [pc : {"store"}, doc : I!Docs, rerun : BOOLEAN, by : Dialog \union {None}] /\ s1' = s1 /\ s8' = s8
    BY <1>13, <2>1 DEF I!Receive
  <2>3. I!TypeOK'
    BY <1>13, <1>a, <2>2 DEF I!TypeOK, I!SubmitOnly
  <2> QED
    BY <1>13, <1>a, <2>2, <2>3 DEF I!IntakeInv, I!SubmitOnly, I!TextIsRead, I!GeneratedParses, I!Parses,
       I!JobKnowsRow, I!ScheduledIsChecked
<1>14. ASSUME NEW d \in Dialog, I!Submit(d) PROVE I!IntakeInv'
  <2>1. I!Receive(I!Sent(d), d) /\ UNCHANGED s4 /\ UNCHANGED I!SubmitOnly
    BY <1>14 DEF I!Submit
  <2> QED
    BY <1>13, <2>1
<1>15. ASSUME NEW x \in Package, I!Post(x) PROVE I!IntakeInv'
  BY <1>13, <1>15 DEF I!Post
<1>16. CASE I!Store
  <2>1. s7 \in [pc : {"store"}, doc : I!Docs, rerun : BOOLEAN, by : Dialog \union {None}]
    BY <1>16, <1>a DEF I!Store, I!TypeOK, I!Idle
  <2>a. PICK t \in Task : t = s7.doc.task
    BY <2>1 DEF I!Docs, I!Stuff
  <2>2. PICK r : r = [status |-> IF s7.rerun THEN "pending" ELSE "draft", doc |-> s7.doc,
                      how |-> IF s7.rerun THEN "rerun" ELSE "posted"]
    OBVIOUS
  <2>3. r \in I!Row /\ (r.status = "draft" \/ r.how = "rerun")
    BY <2>1, <2>2 DEF I!Status, I!Row
  <2>4. s1' = [s1 EXCEPT ![t] = r] /\ s7' = I!Idle /\ UNCHANGED <<s2, s3, s5, s6, s9, s10>>
    BY <1>16, <2>a, <2>2 DEF I!Store, I!SubmitOnly
  <2>b. PICK forgets \in BOOLEAN : s4' = [d \in Dialog |-> IF d = s7.by THEN I!Shut(d, forgets) ELSE s4[d]]
    BY <1>16 DEF I!Store
  <2>c. s8' \in [{} -> {I!Idle} \union I!Publication]
    BY <1>16 DEF I!Store
  <2>d. s1' \in [Task -> {I!NoRow} \union I!Row]
    BY <1>a, <2>3, <2>4 DEF I!TypeOK
  <2>5. I!TypeOK'
    BY <1>a, <1>g, <2>4, <2>b, <2>c, <2>d DEF I!TypeOK
  <2>6. I!TextIsRead'
    BY <1>a, <1>g, <2>4, <2>b DEF I!TextIsRead
  <2>7. I!ScheduledIsChecked'
    <3>1. \A u \in Task : s1'[u] = s1[u] \/ s1'[u] = r
      BY <1>a, <2>4 DEF I!TypeOK
    <3> QED
      BY <2>3, <2>4, <2>d, <3>1, DialogRows
  <2>8. I!GeneratedParses' /\ I!JobKnowsRow'
    BY <1>a, <2>4 DEF I!GeneratedParses, I!Parses, I!JobKnowsRow
  <2> QED
    BY <2>5, <2>6, <2>7, <2>8 DEF I!IntakeInv
<1>17. CASE I!Elsewhere
  <2>1. UNCHANGED <<s4, s5, s6, s7, s8, s9, s10>>
    BY <1>17 DEF I!Elsewhere
  <2>2. s2' \subseteq Kind
    BY <1>17, <1>a DEF I!Elsewhere, I!TypeOK
  <2>3. /\ s1' \in [Task -> {I!NoRow} \union I!Row]
        /\ \A u \in Task :
             \/ s1'[u] = s1[u]
             \/ s1[u].status \in {"pending", "busy", "over"} /\ s1'[u].how = s1[u].how /\ s1'[u].doc = s1[u].doc
    <3>1. CASE s1' = s1
      BY <1>a, <3>1 DEF I!TypeOK
    <3>2. ASSUME NEW t \in Task, NEW st \in {"pending", "busy", "over"}, s1[t].status \in {"pending", "busy", "over"},
                 s1' = [s1 EXCEPT ![t].status = st]
          PROVE  /\ s1' \in [Task -> {I!NoRow} \union I!Row]
                 /\ \A u \in Task :
                      \/ s1'[u] = s1[u]
                      \/ s1[u].status \in {"pending", "busy", "over"} /\ s1'[u].how = s1[u].how
                         /\ s1'[u].doc = s1[u].doc
      <4>1. PICK r : r = [s1[t] EXCEPT !.status = st]
        OBVIOUS
      <4>2. r \in I!Row /\ r.how = s1[t].how /\ r.doc = s1[t].doc
        BY <1>a, <3>2, <4>1 DEF I!TypeOK, I!Status, I!NoRow, I!Row
      <4>3. s1' = [s1 EXCEPT ![t] = r]
        BY <3>2, <4>1
      <4>4. s1'[t] = r /\ \A u \in Task : u # t => s1'[u] = s1[u]
        BY <1>a, <4>3 DEF I!TypeOK
      <4>5. s1' \in [Task -> {I!NoRow} \union I!Row]
        BY <1>a, <4>2, <4>3 DEF I!TypeOK
      <4> QED
        BY <3>2, <4>2, <4>4, <4>5
    <3> QED
      BY <1>17, <3>1, <3>2 DEF I!Elsewhere
  <2>4. I!TypeOK'
    BY <1>a, <2>1, <2>2, <2>3 DEF I!TypeOK
  <2>5. I!ScheduledIsChecked'
    BY <2>1, <2>3, DialogRows
  <2> QED
    BY <1>a, <2>1, <2>4, <2>5 DEF I!IntakeInv, I!TextIsRead, I!GeneratedParses, I!Parses, I!JobKnowsRow
<1>18. CASE UNCHANGED I!vars
  BY <1>18, <1>a DEF I!vars, I!IntakeInv, I!TypeOK, I!TextIsRead, I!GeneratedParses, I!Parses,
     I!JobKnowsRow, I!ScheduledIsChecked
<1> QED
  BY <1>1, <1>2, <1>3, <1>4, <1>5, <1>6, <1>7, <1>8, <1>9, <1>10, <1>11, <1>12, <1>14, <1>15, <1>16, <1>17, <1>18
     DEF I!Next

-----------------------------------------------------------------------------
(* Intake: publications                                                     *)

LEMMA PublishStart == P!Init => P!IntakeInv
<1> SUFFICES ASSUME P!Init PROVE P!IntakeInv
  OBVIOUS
<1>1. P!TypeOK
  BY DEF P!Init, P!TypeOK
<1>2. P!TextIsRead /\ P!GeneratedParses /\ P!JobKnowsRow /\ P!ScheduledIsChecked
  BY DEF P!Init, P!TextIsRead, P!GeneratedParses, P!Idle, P!JobKnowsRow, P!ScheduledIsChecked, P!NoRow
<1> QED
  BY <1>1, <1>2 DEF P!IntakeInv

(* A row that is not checked is a draft, was submitted again or while it    *)
(* was being checked, or is what it was but for its status.                 *)
LEMMA RowsStayChecked ==
  ASSUME P!IntakeInv, s1' \in [Task -> {P!NoRow} \union P!Row], s9 \subseteq s9', s10' = s10,
         \A t \in Task :
           \/ s1'[t] = s1[t]
           \/ s1'[t].status = "draft" \/ s1'[t].how \in {"rerun", "raced"}
           \/ s1[t].status \in {"pending", "busy", "over"} /\ s1'[t].how = s1[t].how /\ s1'[t].doc = s1[t].doc
           \/ s10 /\ s1'[t].doc.url \in s9'
           \/ ~s10
  PROVE  P!ScheduledIsChecked'
BY DEF P!IntakeInv, P!ScheduledIsChecked

LEMMA PublishNext == P!IntakeInv /\ [P!Next]_P!vars => P!IntakeInv'
<1> SUFFICES ASSUME P!IntakeInv, [P!Next]_P!vars PROVE P!IntakeInv'
  OBVIOUS
<1> USE PublishConstants DEF P!IntakeAssumption
<1>a. /\ P!TypeOK /\ P!GeneratedParses /\ P!JobKnowsRow /\ P!ScheduledIsChecked
      /\ s1 \in [Task -> {P!NoRow} \union P!Row] /\ s8 \in [Actor -> {P!Idle} \union P!Publication] /\ s10 \in BOOLEAN
  BY DEF P!IntakeInv, P!TypeOK
<1>b. P!NoRow.status = "none" /\ P!Idle.pc = "idle"
  BY DEF P!NoRow, P!Idle
<1>c. P!TextIsRead'
  BY DEF P!TextIsRead
<1>1. ASSUME NEW x \in Package \union Posted \union {Broken}, P!ModelReplies(x) PROVE P!IntakeInv'
  <2>1. s6 \in [pc : {"asked", "parsed"}, kinds : SUBSET Kind, fixed : BOOLEAN, text : P!Shown]
    BY <1>1, <1>a DEF P!ModelReplies, P!TypeOK, P!Idle
  <2>2. PICK g : g = s6'
    OBVIOUS
  <2>3. \/ P!Acceptable(x) /\ g = [s6 EXCEPT !.pc = "parsed", !.text = x]
        \/ g = [s6 EXCEPT !.fixed = TRUE] /\ s6.pc = "asked"
        \/ g = P!Idle
    BY <1>1, <2>2 DEF P!ModelReplies
  <2>4. /\ g \in {P!Idle} \union [pc : {"asked", "parsed"}, kinds : SUBSET Kind, fixed : BOOLEAN, text : P!Shown]
        /\ g.pc = "parsed" => P!Parses(g.text)
    <3>1. CASE P!Acceptable(x) /\ g = [s6 EXCEPT !.pc = "parsed", !.text = x]
      <4>1. x \in P!Shown
        BY <3>1 DEF P!Acceptable, P!Parses, P!Shown, P!Objects, P!Stuff
      <4>2. g.text = x
        BY <2>1, <3>1
      <4> QED
        BY <2>1, <3>1, <4>1, <4>2 DEF P!Acceptable
    <3>2. CASE g = [s6 EXCEPT !.fixed = TRUE] /\ s6.pc = "asked"
      BY <2>1, <3>2
    <3>3. CASE g = P!Idle
      BY <1>b, <3>3
    <3> QED
      BY <2>3, <3>1, <3>2, <3>3
  <2>5. UNCHANGED <<s1, s2, s3, s4, s5, s7, s8, s9, s10>>
    BY <1>1 DEF P!ModelReplies, P!GenOnly
  <2> QED
    BY <1>a, <1>c, <2>2, <2>4, <2>5 DEF P!IntakeInv, P!TypeOK, P!GeneratedParses, P!JobKnowsRow, P!Stored,
       P!ScheduledIsChecked
<1>2. CASE P!ModelFails
  BY <1>2, <1>a, <1>b, <1>c DEF P!ModelFails, P!GenOnly, P!IntakeInv, P!TypeOK, P!GeneratedParses,
     P!JobKnowsRow, P!Stored, P!ScheduledIsChecked
<1>3. ASSUME NEW x \in Posted, P!Post(x) PROVE P!IntakeInv'
  <2>1. x \in P!Docs
    BY <1>3 DEF P!Post, P!Receive, P!Parses, P!Docs, P!Stuff
  <2>2. s7' \in [pc : {"store"}, doc : P!Docs, rerun : BOOLEAN, by : {None}]
        /\ UNCHANGED <<s1, s2, s3, s4, s5, s6, s8, s9, s10>>
    BY <1>3, <2>1 DEF P!Post, P!Receive, P!SubmitOnly
  <2>3. P!TypeOK'
    BY <1>a, <2>2 DEF P!TypeOK
  <2> QED
    BY <1>a, <1>c, <2>2, <2>3 DEF P!IntakeInv, P!GeneratedParses, P!Parses, P!JobKnowsRow, P!Stored,
       P!ScheduledIsChecked
<1>4. CASE P!Store
  <2>1. s7 \in [pc : {"store"}, doc : P!Docs, rerun : BOOLEAN, by : {None}]
    BY <1>4, <1>a, <1>b DEF P!Store, P!TypeOK
  <2>2. PICK t \in Task : t = s7.doc.task
    BY <2>1 DEF P!Docs, P!Stuff
  <2>3. PICK r : r = [status |-> IF s7.rerun THEN "pending" ELSE "draft", doc |-> s7.doc,
                      how |-> IF s7.rerun THEN "rerun" ELSE "posted"]
    OBVIOUS
  <2>4. r \in P!Row /\ (r.status = "draft" \/ r.how = "rerun") /\ r.status # "none"
    BY <2>1, <2>3 DEF P!Status, P!Row
  <2>5. s1' = [s1 EXCEPT ![t] = r] /\ s7' = P!Idle /\ UNCHANGED <<s2, s3, s5, s6, s9, s10>>
        /\ s4' \in [{} -> {}]
    BY <1>4, <2>2, <2>3 DEF P!Store, P!SubmitOnly
  <2>6. s1' \in [Task -> {P!NoRow} \union P!Row] /\ s1'[t] = r /\ \A u \in Task : u # t => s1'[u] = s1[u]
    BY <1>a, <2>4, <2>5
  <2>7. \A j \in Actor :
          /\ s8'[j] \in {P!Idle} \union P!Publication
          /\ s8'[j].pc = s8[j].pc
          /\ s8[j].pc # "idle" => s8'[j].task = s8[j].task /\ s8'[j].url = s8[j].url
          /\ s8[j].pc # "idle" /\ s8[j].task = t => s8'[j].stale = TRUE
          /\ s8[j].pc # "idle" /\ s8[j].task # t => s8'[j] = s8[j]
    <3> SUFFICES ASSUME NEW j \in Actor
                 PROVE  /\ s8'[j] \in {P!Idle} \union P!Publication
                        /\ s8'[j].pc = s8[j].pc
                        /\ s8[j].pc # "idle" => s8'[j].task = s8[j].task /\ s8'[j].url = s8[j].url
                        /\ s8[j].pc # "idle" /\ s8[j].task = t => s8'[j].stale = TRUE
                        /\ s8[j].pc # "idle" /\ s8[j].task # t => s8'[j] = s8[j]
      OBVIOUS
    <3>1. s8'[j] = IF s8[j].pc # "idle" /\ s8[j].task = t THEN [s8[j] EXCEPT !.stale = TRUE] ELSE s8[j]
      BY <1>4, <2>2 DEF P!Store
    <3>2. CASE s8[j] = P!Idle
      BY <1>b, <3>1, <3>2
    <3>3. CASE s8[j] \in P!Publication
      BY <3>1, <3>3 DEF P!Publication
    <3> QED
      BY <1>a, <3>2, <3>3
  <2>8. s8' \in [Actor -> {P!Idle} \union P!Publication]
    <3>1. PICK g : g = [j \in Actor |-> s8'[j]]
      OBVIOUS
    <3>2. s8' = g
      BY <1>4, <3>1 DEF P!Store
    <3> QED
      BY <2>7, <3>1, <3>2
  <2>9. P!TypeOK'
    BY <1>a, <2>5, <2>6, <2>8 DEF P!TypeOK
  <2>10. P!JobKnowsRow'
    <3> SUFFICES ASSUME NEW j \in Actor, s8'[j].pc # "idle"
                 PROVE  /\ s1'[s8'[j].task].status # "none"
                        /\ ~s8'[j].stale => s1'[s8'[j].task].doc.url = s8'[j].url
                        /\ s10' /\ s8'[j].pc = "write" => s8'[j].url \in s9'
      BY DEF P!JobKnowsRow, P!Stored
    <3>1. s8[j].pc # "idle" /\ s8[j] \in P!Publication /\ s8[j].task \in Task
      BY <1>a, <1>b, <2>7 DEF P!Publication
    <3>2. CASE s8[j].task = t
      BY <1>a, <2>4, <2>5, <2>6, <2>7, <3>1, <3>2 DEF P!JobKnowsRow
    <3>3. CASE s8[j].task # t
      BY <1>a, <2>5, <2>6, <2>7, <3>1, <3>3 DEF P!JobKnowsRow, P!Stored
    <3> QED
      BY <3>2, <3>3
  <2>11. P!ScheduledIsChecked'
    BY <2>4, <2>5, <2>6, RowsStayChecked
  <2> QED
    BY <1>a, <1>c, <2>5, <2>9, <2>10, <2>11 DEF P!IntakeInv, P!GeneratedParses, P!Parses
(* A publication goes on, and leaves the rows as the others know them.      *)
<1>e. ASSUME NEW j \in Actor, NEW q \in {P!Idle} \union P!Publication, s8' = [s8 EXCEPT ![j] = q],
             s9 \subseteq s9', UNCHANGED <<s2, s4, s5, s6, s7, s10>>,
             s1' \in [Task -> {P!NoRow} \union P!Row],
             \A t \in Task : s1'[t] = s1[t] \/ (s1'[t].status # "none" /\ s1'[t].doc = s1[t].doc),
             q.pc # "idle" =>
               /\ s1[q.task].status # "none"
               /\ ~q.stale => s1[q.task].doc.url = q.url
               /\ s10 /\ q.pc = "write" => q.url \in s9',
             P!ScheduledIsChecked'
      PROVE  P!IntakeInv'
  <2>1. P!TypeOK'
    BY <1>a, <1>e DEF P!TypeOK
  <2>2. \A i \in Actor : s8'[i] = s8[i] \/ (i = j /\ s8'[i] = q)
    BY <1>a, <1>e
  <2>3. P!JobKnowsRow'
    <3> SUFFICES ASSUME NEW i \in Actor, s8'[i].pc # "idle"
                 PROVE  /\ s1'[s8'[i].task].status # "none"
                        /\ ~s8'[i].stale => s1'[s8'[i].task].doc.url = s8'[i].url
                        /\ s10' /\ s8'[i].pc = "write" => s8'[i].url \in s9'
      BY DEF P!JobKnowsRow, P!Stored
    <3>1. PICK o \in P!Publication : o = s8'[i]
      BY <1>b, <2>1 DEF P!TypeOK
    <3>2. /\ s1[o.task].status # "none"
          /\ ~o.stale => s1[o.task].doc.url = o.url
          /\ s10 /\ o.pc = "write" => o.url \in s9'
      BY <1>a, <1>e, <2>2, <3>1 DEF P!JobKnowsRow, P!Stored
    <3>3. o.task \in Task
      BY DEF P!Publication
    <3> QED
      BY <1>e, <3>1, <3>2, <3>3
  <2> QED
    BY <1>a, <1>c, <1>e, <2>1, <2>3 DEF P!IntakeInv, P!GeneratedParses, P!Parses
<1>5. ASSUME NEW j \in Actor, NEW t \in Task, P!Publish(j, t) PROVE P!IntakeInv'
  <2>1. s1[t].doc.url \in Address /\ s1[t].status # "none"
    BY <1>5, <1>a, <1>b DEF P!Publish, P!Stored, P!Row, P!Docs, P!Stuff
  <2>2. PICK q : q = [pc |-> IF s10 THEN "probe" ELSE "write", task |-> t, url |-> s1[t].doc.url, stale |-> FALSE]
    OBVIOUS
  <2>3. q \in P!Publication /\ (s10 => q.pc # "write") /\ q.task = t /\ q.url = s1[t].doc.url
    BY <2>1, <2>2 DEF P!Publication
  <2>4. s8' = [s8 EXCEPT ![j] = q] /\ UNCHANGED <<s1, s2, s4, s5, s6, s7, s9, s10>>
    BY <1>5, <2>2 DEF P!Publish, P!PublishOnly
  <2>5. P!ScheduledIsChecked'
    BY <1>a, <2>4 DEF P!ScheduledIsChecked
  <2> QED
    BY <1>a, <1>e, <2>1, <2>3, <2>4, <2>5
<1>6. ASSUME NEW j \in Actor, P!Probe(j) PROVE P!IntakeInv'
  <2>1. PICK o \in P!Publication : o = s8[j]
    BY <1>6, <1>a, <1>b DEF P!Probe
  <2>2. PICK q : /\ s8' = [s8 EXCEPT ![j] = q]
                 /\ \/ P!Found(o.url) /\ q = [o EXCEPT !.pc = "write"]
                    \/ q = [o EXCEPT !.pc = "create"]
                    \/ q = P!Idle
    BY <1>6, <2>1 DEF P!Probe
  <2>3. /\ UNCHANGED <<s1, s2, s4, s5, s6, s7, s10>>
        /\ s9' = IF s3[o.url] = "there" THEN s9 \union {o.url} ELSE s9
    BY <1>6, <2>1 DEF P!Probe, P!PublishOnly
  <2>4. q \in {P!Idle} \union P!Publication
        /\ (q.pc # "idle" => q.task = o.task /\ q.url = o.url /\ q.stale = o.stale)
        /\ (q.pc = "write" => P!Found(o.url))
    BY <1>b, <2>2 DEF P!Publication
  <2>5. s9 \subseteq s9' /\ (P!Found(o.url) => o.url \in s9')
    BY <2>3 DEF P!Found
  <2>6. o.pc # "idle" /\ s1[o.task].status # "none" /\ (~o.stale => s1[o.task].doc.url = o.url)
    BY <1>6, <1>a, <2>1 DEF P!Probe, P!JobKnowsRow, P!Stored
  <2>7. P!ScheduledIsChecked'
    BY <1>a, <2>3, <2>5, RowsStayChecked
  <2> QED
    BY <1>a, <1>e, <2>2, <2>3, <2>4, <2>5, <2>6, <2>7
<1>7. ASSUME NEW j \in Actor, P!Create(j) PROVE P!IntakeInv'
  <2>1. PICK o \in P!Publication : o = s8[j]
    BY <1>7, <1>a, <1>b DEF P!Create
  <2>2. PICK q : /\ s8' = [s8 EXCEPT ![j] = q]
                 /\ q = [o EXCEPT !.pc = "reprobe"] \/ q = P!Idle
    BY <1>7, <2>1 DEF P!Create
  <2>3. UNCHANGED <<s1, s2, s4, s5, s6, s7, s9, s10>>
    BY <1>7 DEF P!Create, P!PublishOnly
  <2>4. q \in {P!Idle} \union P!Publication /\ q.pc # "write"
        /\ (q.pc # "idle" => q.task = o.task /\ q.url = o.url /\ q.stale = o.stale)
    BY <1>b, <2>2 DEF P!Publication
  <2>5. s1[o.task].status # "none" /\ (~o.stale => s1[o.task].doc.url = o.url)
    BY <1>7, <1>a, <2>1 DEF P!Create, P!JobKnowsRow, P!Stored
  <2>6. P!ScheduledIsChecked'
    BY <1>a, <2>3 DEF P!ScheduledIsChecked
  <2> QED
    BY <1>a, <1>e, <2>2, <2>3, <2>4, <2>5, <2>6
<1>8. ASSUME NEW j \in Actor, P!PublishRow(j) PROVE P!IntakeInv'
  <2>1. PICK o \in P!Publication : o = s8[j]
    BY <1>8, <1>a, <1>b DEF P!PublishRow
  <2>2. o.pc = "write" /\ (s10 => o.url \in s9) /\ s1[o.task].status # "none"
        /\ (~o.stale => s1[o.task].doc.url = o.url)
    BY <1>8, <1>a, <2>1 DEF P!PublishRow, P!JobKnowsRow, P!Stored
  <2>3. PICK t \in Task : t = o.task
    BY DEF P!Publication
  <2>4. s8' = [s8 EXCEPT ![j] = P!Idle] /\ UNCHANGED <<s2, s4, s5, s6, s7, s9, s10>>
    BY <1>8 DEF P!PublishRow, P!PublishOnly
  <2>5. CASE s1[t].status # "draft"
    <3>1. s1' = s1
      BY <1>8, <1>a, <2>1, <2>3, <2>5 DEF P!PublishRow
    <3>2. P!ScheduledIsChecked'
      BY <1>a, <2>4, <3>1 DEF P!ScheduledIsChecked
    <3> QED
      BY <1>a, <1>b, <1>e, <2>4, <3>1, <3>2
  <2>6. CASE s1[t].status = "draft"
    <3>1. PICK how : how = IF o.stale THEN "raced" ELSE "published"
      OBVIOUS
    <3>2. PICK r : r = [s1[t] EXCEPT !.status = "pending", !.how = how]
      OBVIOUS
    <3>3. s1[t] \in P!Row
      BY <1>a, <1>b, <2>6
    <3>4. r \in P!Row /\ r.status = "pending" /\ r.how = how /\ r.doc = s1[t].doc
      BY <3>1, <3>2, <3>3 DEF P!Status, P!Row
    <3>5. s1' = [s1 EXCEPT ![t] = r]
      BY <1>8, <1>a, <2>1, <2>3, <2>6, <3>1, <3>2 DEF P!PublishRow
    <3>6. s1'[t] = r /\ (\A v \in Task : v # t => s1'[v] = s1[v]) /\ s1' \in [Task -> {P!NoRow} \union P!Row]
      BY <1>a, <3>4, <3>5
    <3>7. how = "raced" \/ ~s10 \/ (s10 /\ r.doc.url \in s9)
      BY <1>a, <2>2, <2>3, <3>1, <3>4
    <3>8. P!ScheduledIsChecked'
      BY <1>a, <2>4, <3>4, <3>6, <3>7, RowsStayChecked
    <3> QED
      BY <1>a, <1>b, <1>e, <2>4, <3>4, <3>6, <3>8
  <2> QED
    BY <2>5, <2>6
<1>9. CASE P!Elsewhere
  <2>1. UNCHANGED <<s4, s5, s6, s7, s8, s9, s10>>
    BY <1>9 DEF P!Elsewhere
  <2>2. s2' \subseteq Kind
    BY <1>9, <1>a DEF P!Elsewhere, P!TypeOK
  <2>3. /\ s1' \in [Task -> {P!NoRow} \union P!Row]
        /\ \A u \in Task :
             \/ s1'[u] = s1[u]
             \/ /\ s1[u].status \in {"pending", "busy", "over"} /\ s1'[u].status # "none"
                /\ s1'[u].how = s1[u].how /\ s1'[u].doc = s1[u].doc
    <3>1. CASE s1' = s1
      BY <1>a, <3>1
    <3>2. ASSUME NEW t \in Task, NEW st \in {"pending", "busy", "over"}, s1[t].status \in {"pending", "busy", "over"},
                 s1' = [s1 EXCEPT ![t].status = st]
          PROVE  /\ s1' \in [Task -> {P!NoRow} \union P!Row]
                 /\ \A u \in Task :
                      \/ s1'[u] = s1[u]
                      \/ /\ s1[u].status \in {"pending", "busy", "over"} /\ s1'[u].status # "none"
                         /\ s1'[u].how = s1[u].how /\ s1'[u].doc = s1[u].doc
      <4>1. PICK r : r = [s1[t] EXCEPT !.status = st]
        OBVIOUS
      <4>2. r \in P!Row /\ r.how = s1[t].how /\ r.doc = s1[t].doc /\ r.status # "none"
        BY <1>a, <1>b, <3>2, <4>1 DEF P!Status, P!Row
      <4>3. s1' = [s1 EXCEPT ![t] = r]
        BY <3>2, <4>1
      <4>4. s1'[t] = r /\ \A u \in Task : u # t => s1'[u] = s1[u]
        BY <1>a, <4>3
      <4>5. s1' \in [Task -> {P!NoRow} \union P!Row]
        BY <1>a, <4>2, <4>3
      <4> QED
        BY <3>2, <4>2, <4>4, <4>5
    <3> QED
      BY <1>9, <3>1, <3>2 DEF P!Elsewhere
  <2>4. P!TypeOK'
    BY <1>a, <2>1, <2>2, <2>3 DEF P!TypeOK
  <2>5. P!ScheduledIsChecked'
    BY <1>a, <2>1, <2>3, RowsStayChecked
  <2>6. P!JobKnowsRow'
    <3> SUFFICES ASSUME NEW i \in Actor, s8'[i].pc # "idle"
                 PROVE  /\ s1'[s8'[i].task].status # "none"
                        /\ ~s8'[i].stale => s1'[s8'[i].task].doc.url = s8'[i].url
                        /\ s10' /\ s8'[i].pc = "write" => s8'[i].url \in s9'
      BY DEF P!JobKnowsRow, P!Stored
    <3>1. s8'[i] = s8[i] /\ s8[i].task \in Task
      BY <1>a, <1>b, <2>1 DEF P!Publication
    <3> QED
      BY <1>a, <2>1, <2>3, <3>1 DEF P!JobKnowsRow, P!Stored
  <2> QED
    BY <1>a, <1>c, <2>1, <2>4, <2>5, <2>6 DEF P!IntakeInv, P!GeneratedParses, P!Parses
<1>10. CASE UNCHANGED P!vars
  BY <1>10, <1>a, <1>c DEF P!vars, P!IntakeInv, P!TypeOK, P!GeneratedParses, P!Parses, P!JobKnowsRow, P!Stored,
     P!ScheduledIsChecked
<1> QED
  BY <1>1, <1>2, <1>3, <1>4, <1>5, <1>6, <1>7, <1>8, <1>9, <1>10 DEF P!Next

(* What the form cannot hold is dropped only when the user agrees, a       *)
(* generated package is one the server takes, and the address of a task    *)
(* that may be scheduled was found, unless it was submitted over an ended  *)
(* one or while it was being checked: for any packages, dialogs, late      *)
(* answers and publications under way (TaskCreateDialog, parse and publish *)
(* routes).                                                                *)
THEOREM IntakeStaysSound == Spec => []IntakeIsSound
<1> DEFINE Inv == (part = "dialog" => I!IntakeInv) /\ (part = "publish" => P!IntakeInv)
<1>1. Init => Inv
  BY DialogStart, PublishStart DEF Init
<1>2. Inv /\ [Next]_vars => Inv'
  <2> SUFFICES ASSUME Inv, [Next]_vars PROVE Inv'
    OBVIOUS
  <2>1. ASSUME part' = "dialog" PROVE I!IntakeInv'
    <3>1. part = "dialog" /\ [I!Next]_I!vars
      BY <2>1 DEF Next, vars, I!vars
    <3> QED
      BY <3>1, DialogNext
  <2>2. ASSUME part' = "publish" PROVE P!IntakeInv'
    <3>1. part = "publish" /\ [P!Next]_P!vars
      BY <2>2 DEF Next, vars, P!vars
    <3> QED
      BY <3>1, PublishNext
  <2> QED
    BY <2>1, <2>2
<1>3. Inv => IntakeIsSound
  <2>1. I!IntakeInv => I!IntakeIsSound
    <3> SUFFICES ASSUME I!IntakeInv, NEW d \in Dialog, s4[d].tab \in {"form", "yaml"}, s4[d].read # NoText
                 PROVE  I!Sent(d) \in {s4[d].read, [s4[d].read EXCEPT !.shape = I!Worn(@)]}
      BY DEF I!IntakeInv, I!IntakeIsSound, I!LossIsConfirmed
    <3>1. I!Same(s4[d].text, s4[d].read) /\ (s4[d].tab = "form" => I!Same(s4[d].form, s4[d].read))
      BY DEF I!IntakeInv, I!TextIsRead
    <3>2. I!Same(I!Sent(d), s4[d].read)
      BY <3>1, FormKeepsSame DEF I!Sent
    <3>3. s4[d].read = [s4[d].read EXCEPT !.shape = s4[d].read.shape]
      BY <3>2 DEF I!Same, I!Docs, I!Stuff
    <3> QED
      BY <3>2, <3>3 DEF I!Same
  <2>2. P!IntakeInv => P!IntakeIsSound
    BY DEF P!IntakeInv, P!IntakeIsSound, P!LossIsConfirmed
  <2> QED
    BY <2>1, <2>2 DEF IntakeIsSound
<1> QED
  BY <1>1, <1>2, <1>3, PTL DEF Spec

-----------------------------------------------------------------------------
(* Tools                                                                    *)

LEMMA LeastNumber ==
  ASSUME NEW C, C \subseteq Nat, C # {}
  PROVE  \E m \in C : \A n \in C : m <= n
<1> DEFINE Less == OpToRel(<, Nat)
<1>1. Less = {ss \in Nat \X Nat : ss[1] < ss[2]}
  BY DEF OpToRel
<1>2. PICK m \in C : \A n \in C : ~(<<n, m>> \in Less)
  <2> HIDE DEF Less
  <2>1. IsWellFoundedOn(Less, Nat)
    BY NatLessThanWellFounded DEF Less
  <2> QED
    BY <2>1, WFMin
<1>3. \A n \in C : ~(n < m)
  BY <1>1, <1>2
<1> QED
  BY <1>3

(* Induction over an interval, for a set.                                   *)
LEMMA UpTo ==
  ASSUME NEW n \in Nat, NEW C, 0 \in C, \A k \in 1..n : k - 1 \in C => k \in C
  PROVE  0..n \subseteq C
<1> SUFFICES ASSUME (0..n) \ C # {} PROVE FALSE
  OBVIOUS
<1>0. PICK Rest : Rest = (0..n) \ C
  OBVIOUS
<1>1. PICK m \in Rest : \A k \in Rest : m <= k
  <2>1. Rest \subseteq Nat /\ Rest # {}
    BY <1>0
  <2> QED
    BY <2>1, LeastNumber
<1>2. m \in 1..n /\ m - 1 \in 0..n /\ ~(m <= m - 1)
  BY <1>0, <1>1
<1> QED
  BY <1>0, <1>1, <1>2

(* A value that is carried through a sequence, step by step, by a function  *)
(* of the step and the value so far.                                        *)
Run(A, a, n, st, up) ==
  /\ up \in [0..n -> A] /\ up[0] = a
  /\ \A k \in 1..n : up[k] = st[<<k, up[k - 1]>>]

LEMMA Carried ==
  ASSUME NEW A, NEW a \in A, NEW n \in Nat, NEW st \in [(1..n) \X A -> A]
  PROVE  \E up : Run(A, a, n, st, up)
<1> DEFINE Upto(g, m) == g \in [0..n -> A] /\ g[0] = a /\ \A k \in 1..m : g[k] = st[<<k, g[k - 1]>>]
           C == {m \in 0..n : \E g \in [0..n -> A] : Upto(g, m)}
<1>1. 0 \in C
  <2>1. PICK g : g = [k \in 0..n |-> a]
    OBVIOUS
  <2>2. g \in [0..n -> A] /\ g[0] = a /\ 0 \in 0..n
    BY <2>1
  <2>3. Upto(g, 0)
    BY <2>2
  <2> QED
    BY <2>2, <2>3
<1>2. ASSUME NEW m \in 1..n, m - 1 \in C PROVE m \in C
  <2>1. PICK g \in [0..n -> A] : Upto(g, m - 1)
    BY <1>2
  <2>2. PICK v \in A : v = st[<<m, g[m - 1]>>]
    BY <1>2
  <2>3. PICK h : h = [g EXCEPT ![m] = v]
    OBVIOUS
  <2>4. h \in [0..n -> A] /\ h[m] = v /\ \A k \in 0..n : k # m => h[k] = g[k]
    BY <2>1, <2>2, <2>3
  <2>5. Upto(h, m)
    <3>1. \A k \in 1..m : h[k] = st[<<k, h[k - 1]>>]
      <4> SUFFICES ASSUME NEW k \in 1..m PROVE h[k] = st[<<k, h[k - 1]>>]
        OBVIOUS
      <4>1. h[k - 1] = g[k - 1]
        BY <1>2, <2>4
      <4>2. CASE k = m
        BY <2>2, <2>4, <4>1, <4>2
      <4>3. CASE k # m
        BY <1>2, <2>1, <2>4, <4>1, <4>3
      <4> QED
        BY <4>2, <4>3
    <3> QED
      BY <1>2, <2>1, <2>4, <3>1
  <2> QED
    BY <2>4, <2>5
<1>3. n \in C
  <2> HIDE DEF C
  <2> QED
    BY <1>1, <1>2, UpTo
<1>4. PICK g \in [0..n -> A] : Upto(g, n)
  BY <1>3
<1> QED
  BY <1>4 DEF Run

LEMMA TextLines ==
  ASSUME NEW t \in T!Text
  PROVE  t \in Seq(Line) /\ Len(t) \in Nat /\ t \in [1..Len(t) -> Line]
BY ToolsetConstants DEF T!Text, T!ToolsetAssumption

LEMMA SizeIsNumber ==
  ASSUME NEW t \in T!Text
  PROVE  T!Size(t) \in Nat
<1>1. PICK n : n = Len(t)
  OBVIOUS
<1>2. n \in Nat /\ t \in [1..n -> Line] /\ Length \in [Line -> Nat]
  BY <1>1, TextLines, ToolsetConstants DEF T!ToolsetAssumption
<1>3. PICK st : st = [p \in (1..n) \X Nat |-> p[2] + Length[t[p[1]]]]
  OBVIOUS
<1>4. st \in [(1..n) \X Nat -> Nat]
  BY <1>2, <1>3
<1>5. \A k \in 1..n, v \in Nat : st[<<k, v>>] = v + Length[t[k]]
  BY <1>3
<1>6. PICK vp \in [0..n -> Nat] : vp[0] = 0 /\ \A k \in 1..n : vp[k] = st[<<k, vp[k - 1]>>]
  <2>1. PICK A : A = Nat
    OBVIOUS
  <2>2. PICK a : a = 0
    OBVIOUS
  <2>3. a \in A /\ n \in Nat /\ st \in [(1..n) \X A -> A]
    BY <1>2, <1>4, <2>1, <2>2
  <2>4. PICK up : Run(A, a, n, st, up)
    BY <2>3, Carried
  <2>5. up \in [0..n -> A] /\ up[0] = a /\ \A k \in 1..n : up[k] = st[<<k, up[k - 1]>>]
    BY <2>4 DEF Run
  <2>6. up \in [0..n -> Nat] /\ up[0] = 0
    BY <2>1, <2>2, <2>5
  <2> QED
    BY <2>5, <2>6
<1>7. \A k \in 1..n : vp[k] = vp[k - 1] + Length[t[k]]
  <2> SUFFICES ASSUME NEW k \in 1..n PROVE vp[k] = vp[k - 1] + Length[t[k]]
    OBVIOUS
  <2>1. k - 1 \in 0..n
    BY <1>2
  <2>2. vp[k - 1] \in Nat
    BY <1>6, <2>1
  <2> QED
    BY <1>5, <1>6, <2>2
<1>8. vp = [k \in 0..n |-> IF k = 0 THEN 0 ELSE vp[k - 1] + Length[t[k]]]
  <2>1. \A k \in 0..n : vp[k] = IF k = 0 THEN 0 ELSE vp[k - 1] + Length[t[k]]
    <3>1. \A k \in 0..n : k = 0 \/ k \in 1..n
      BY <1>2
    <3> QED
      BY <1>6, <1>7, <3>1
  <2> QED
    BY <1>6, <2>1
<1>9. PICK up : /\ up = [k \in 0..n |-> IF k = 0 THEN 0 ELSE up[k - 1] + Length[t[k]]]
               /\ T!Size(t) = up[n]
  <2> DEFINE u == CHOOSE u : u = [k \in 0..n |-> IF k = 0 THEN 0 ELSE u[k - 1] + Length[t[k]]]
  <2>1. u = [k \in 0..n |-> IF k = 0 THEN 0 ELSE u[k - 1] + Length[t[k]]]
    BY <1>8
  <2>2. T!Size(t) = u[n]
    BY <1>1 DEF T!Size
  <2> HIDE DEF u
  <2> QED
    BY <2>1, <2>2
<1>10. up[0] = 0 /\ \A k \in 1..n : up[k] = up[k - 1] + Length[t[k]]
  <2>1. 0 \in 0..n /\ \A k \in 1..n : k \in 0..n /\ k # 0
    BY <1>2
  <2> QED
    BY <1>9, <2>1
<1>11. 0..n \subseteq {k \in 0..n : up[k] \in Nat}
  <2>1. PICK E : E = {k \in 0..n : up[k] \in Nat}
    OBVIOUS
  <2>2. 0 \in E
    BY <1>2, <1>10, <2>1
  <2>3. \A k \in 1..n : k - 1 \in E => k \in E
    BY <1>2, <1>10, <2>1
  <2>4. 0..n \subseteq E
    BY <1>2, <2>2, <2>3, UpTo
  <2> QED
    BY <2>1, <2>4
<1> QED
  BY <1>2, <1>9, <1>11

LEMMA NumbersOfTools ==
  /\ {LIST_LIMIT, GREP_LIMIT, GREP_LINE_CHARS, GREP_TOTAL_CHARS, READ_FILE_CHARS, LONGEST_PLACE,
      Note.file, Note.line, Note.search, T!MostText} \subseteq Nat
  /\ GREP_TOTAL_CHARS > 0 /\ T!MostText = GREP_TOTAL_CHARS + GREP_LINE_CHARS + Note.line
BY ToolsetConstants DEF T!ToolsetAssumption, T!MostText

LEMMA CutIsBounded ==
  ASSUME NEW size \in Nat, NEW n \in Nat, NEW note \in Nat
  PROVE  T!Cut(size, n, note) \in Nat /\ T!Cut(size, n, note) <= n + note
BY DEF T!Cut

(* One more match keeps a search within its bounds.                         *)
LEMMA TakeFits ==
  ASSUME NEW r \in T!Searches, T!Fits(r), NEW l \in Line, NEW place \in 0..LONGEST_PLACE
  PROVE  LET q == T!Take(r, l, place) IN q \in T!Searches /\ T!Fits(q) /\ q.todo = r.todo
<1>0. Length[l] \in Nat
  BY ToolsetConstants DEF T!ToolsetAssumption
<1>1. PICK n \in Nat : n = T!Cut(Length[l], GREP_LINE_CHARS, Note.line)
  BY <1>0, NumbersOfTools, CutIsBounded
<1>2. n <= GREP_LINE_CHARS + Note.line
  BY <1>0, <1>1, NumbersOfTools, CutIsBounded
<1>3. T!Take(r, l, place) = T!Found(r, n, place)
  BY <1>1 DEF T!Take
<1>4. CASE r.full \/ r.lines >= GREP_LIMIT
  BY <1>3, <1>4 DEF T!Found
<1>5. CASE ~(r.full \/ r.lines >= GREP_LIMIT)
  <2>1. PICK q : q = [r EXCEPT !.lines = r.lines + 1, !.total = r.total + n, !.chars = r.chars + place + n,
                               !.full = r.total + n >= GREP_TOTAL_CHARS]
    OBVIOUS
  <2>2. T!Take(r, l, place) = q
    BY <1>3, <1>5, <2>1 DEF T!Found
  <2>3. /\ r.lines \in 0..GREP_LIMIT /\ r.chars \in Nat /\ r.total \in Nat /\ r.total < GREP_TOTAL_CHARS
        /\ r.chars <= r.total + r.lines * LONGEST_PLACE
    BY <1>5 DEF T!Searches, T!Fits
  <2>4. /\ q.lines = r.lines + 1 /\ q.total = r.total + n /\ q.chars = r.chars + place + n
        /\ q.full = (r.total + n >= GREP_TOTAL_CHARS) /\ q.op = r.op /\ q.todo = r.todo
    BY <2>1 DEF T!Searches
  <2>5. q \in T!Searches
    <3>1. /\ r.lines + 1 \in 0..GREP_LIMIT /\ r.total + n \in Nat /\ r.chars + place + n \in Nat
          /\ (r.total + n >= GREP_TOTAL_CHARS) \in BOOLEAN
      BY <1>5, <2>3, NumbersOfTools
    <3> QED
      BY <2>1, <3>1 DEF T!Searches
  <2>6. r.total + n < T!MostText
    BY <1>2, <2>3, NumbersOfTools
  <2>7. r.chars + place + n <= r.total + n + (r.lines + 1) * LONGEST_PLACE
    <3>1. PICK m \in Nat : m = r.lines * LONGEST_PLACE
      BY <2>3, NumbersOfTools
    <3>2. (r.lines + 1) * LONGEST_PLACE = m + LONGEST_PLACE
      BY <2>3, <3>1, NumbersOfTools
    <3> QED
      BY <2>3, <3>1, <3>2, NumbersOfTools
  <2>8. ~q.full => q.total < GREP_TOTAL_CHARS
    <3>1. ASSUME r.total + n >= GREP_TOTAL_CHARS PROVE q.full
      BY <2>4, <3>1, Zenon
    <3>2. ASSUME ~(r.total + n >= GREP_TOTAL_CHARS) PROVE r.total + n < GREP_TOTAL_CHARS
      BY <2>3, <3>2, NumbersOfTools
    <3> QED
      BY <2>4, <3>1, <3>2
  <2>9. T!Fits(q)
    BY <2>4, <2>6, <2>7, <2>8 DEF T!Fits
  <2> QED
    BY <2>2, <2>4, <2>5, <2>9
<1> QED
  BY <1>4, <1>5

LEMMA SearchedFits ==
  ASSUME NEW r \in T!Searches, T!Fits(r), NEW t \in T!Text, NEW f \in Thing
  PROVE  LET q == T!Searched(r, t, Place[f]) IN q \in T!Searches /\ T!Fits(q) /\ q.todo = r.todo
<1>0. PICK A : A = {q \in T!Searches : T!Fits(q) /\ q.todo = r.todo}
  OBVIOUS
<1>1. PICK n : n = Len(t)
  OBVIOUS
<1>2. n \in Nat /\ t \in [1..n -> Line]
  BY <1>1, TextLines
<1>a. r \in A
  BY <1>0
<1>b. \A q \in A, l \in Line, p \in 0..LONGEST_PLACE : T!Take(q, l, p) \in A
  BY <1>0, TakeFits
<1>c. PICK at : at = Place[f]
  OBVIOUS
<1>d. \A k \in 1..n : at[k] \in 0..LONGEST_PLACE
  <2>1. n \in 1..MaxLines /\ at \in [1..MaxLines -> 0..LONGEST_PLACE]
    <3>1. \E m \in 1..MaxLines : t \in [1..m -> Line]
      BY DEF T!Text
    <3>2. PICK m \in 1..MaxLines : t \in [1..m -> Line]
      BY <3>1
    <3>3. 1..n = 1..m
      BY <1>2, <3>2
    <3>4. m \in Nat /\ n = m
      BY <1>2, <3>2, <3>3, ToolsetConstants DEF T!ToolsetAssumption
    <3> QED
      BY <1>c, <3>2, <3>4, ToolsetConstants DEF T!ToolsetAssumption
  <2>2. 1..n \subseteq 1..MaxLines
    BY <1>2, <2>1, ToolsetConstants DEF T!ToolsetAssumption
  <2> QED
    BY <2>1, <2>2
<1>3. PICK st : st = [p \in (1..n) \X A |-> T!Take(p[2], t[p[1]], at[p[1]])]
  OBVIOUS
<1>4. st \in [(1..n) \X A -> A]
  BY <1>2, <1>3, <1>b, <1>d
<1>5. \A k \in 1..n, v \in A : st[<<k, v>>] = T!Take(v, t[k], at[k])
  BY <1>3
<1>6. PICK vp : Run(A, r, n, st, vp)
  BY <1>2, <1>4, <1>a, Carried
<1>7. vp[0] = r /\ \A k \in 1..n : vp[k] = T!Take(vp[k - 1], t[k], at[k])
  <2> SUFFICES ASSUME NEW k \in 1..n PROVE vp[k] = T!Take(vp[k - 1], t[k], at[k])
    BY <1>6 DEF Run
  <2>1. k - 1 \in 0..n
    BY <1>2
  <2>2. vp[k - 1] \in A
    BY <1>6, <2>1 DEF Run
  <2> QED
    BY <1>5, <1>6, <2>2 DEF Run
<1>8. vp = [k \in 0..n |-> IF k = 0 THEN r ELSE T!Take(vp[k - 1], t[k], at[k])]
  <2>1. \A k \in 0..n : vp[k] = IF k = 0 THEN r ELSE T!Take(vp[k - 1], t[k], at[k])
    <3>1. \A k \in 0..n : k = 0 \/ k \in 1..n
      BY <1>2
    <3> QED
      BY <1>7, <3>1
  <2> QED
    BY <1>6, <2>1 DEF Run
<1>9. PICK up : /\ up = [k \in 0..n |-> IF k = 0 THEN r ELSE T!Take(up[k - 1], t[k], at[k])]
               /\ T!Searched(r, t, Place[f]) = up[n]
  <2> DEFINE u == CHOOSE u : u = [k \in 0..n |-> IF k = 0 THEN r ELSE T!Take(u[k - 1], t[k], at[k])]
  <2>1. u = [k \in 0..n |-> IF k = 0 THEN r ELSE T!Take(u[k - 1], t[k], at[k])]
    BY <1>8
  <2>2. T!Searched(r, t, Place[f]) = u[n]
    BY <1>1, <1>c DEF T!Searched
  <2> HIDE DEF u
  <2> QED
    BY <2>1, <2>2
<1>10. up[0] = r /\ \A k \in 1..n : up[k] = T!Take(up[k - 1], t[k], at[k])
  <2>1. 0 \in 0..n /\ \A k \in 1..n : k \in 0..n /\ k # 0
    BY <1>2
  <2> QED
    BY <1>9, <2>1
<1>11. PICK E : E = {k \in 0..n : up[k] \in A}
  OBVIOUS
<1>12. 0..n \subseteq E
  <2>2. 0 \in E
    BY <1>2, <1>10, <1>11, <1>a
  <2>3. \A k \in 1..n : k - 1 \in E => k \in E
    BY <1>2, <1>10, <1>11, <1>b, <1>d
  <2> QED
    BY <1>2, <2>2, <2>3, UpTo
<1>13. up[n] \in A
  BY <1>2, <1>11, <1>12
<1> QED
  BY <1>0, <1>9, <1>13
Requests == {T!Idle} \union T!Edits \union T!Searches \union T!Answers
Proper(q) == /\ q \in Requests /\ T!OnePlace(q)
             /\ q.op = "grep" => T!Fits(q)
             /\ q.op = "answer" => T!InBounds(q)

LEMMA ToolsRead ==
  ASSUME T!ToolsetInv
  PROVE  /\ s3 \in [Thing -> T!Text \union {None}]
         /\ s4 \in [Actor -> Requests] /\ \A c \in Actor : Proper(s4[c])
BY DEF T!ToolsetInv, T!TypeOK, T!ResultsFitTheContext, Requests, Proper

LEMMA ToolsWrite ==
  ASSUME T!ToolsetInv, s3' \in [Thing -> T!Text \union {None}],
         NEW c \in Actor, NEW q, Proper(q), s4' = [s4 EXCEPT ![c] = q]
  PROVE  T!ToolsetInv'
<1>0. s4 \in [Actor -> Requests] /\ \A d \in Actor : Proper(s4[d])
  BY ToolsRead
<1>1. s4'[c] = q /\ \A d \in Actor : d # c => s4'[d] = s4[d]
  BY <1>0
<1>2. s4' \in [Actor -> Requests]
  BY <1>0 DEF Proper
<1>3. \A d \in Actor : Proper(s4'[d])
  BY <1>0, <1>1
<1>4. T!TypeOK'
  BY <1>2 DEF T!TypeOK, Requests
<1>5. T!ResultsFitTheContext'
  BY <1>3 DEF T!ResultsFitTheContext, Proper
<1> QED
  BY <1>3, <1>4, <1>5 DEF T!ToolsetInv, Proper

(* A request tells its kind.                                                *)
LEMMA RequestKinds ==
  ASSUME NEW q \in Requests
  PROVE  /\ q.op \in {"idle", "edit", "grep", "answer"}
         /\ q.op = "idle" => q = T!Idle
         /\ q.op = "edit" => q \in T!Edits
         /\ q.op = "grep" => q \in T!Searches
         /\ q.op = "answer" => q \in T!Answers
<1>1. q = T!Idle => q.op = "idle"
  BY DEF T!Idle
<1>2. q \in T!Edits => q.op = "edit"
  BY DEF T!Edits
<1>3. q \in T!Searches => q.op = "grep"
  BY DEF T!Searches
<1>4. q \in T!Answers => q.op = "answer"
  BY DEF T!Answers
<1>5. q = T!Idle \/ q \in T!Edits \/ q \in T!Searches \/ q \in T!Answers
  BY DEF Requests
<1> HIDE DEF Requests
<1> QED
  BY <1>1, <1>2, <1>3, <1>4, <1>5

LEMMA IdleIsProper == Proper(T!Idle)
BY DEF Proper, Requests, T!OnePlace, T!Idle

LEMMA FilesLeft ==
  ASSUME T!ToolsetInv, s3' = s3
  PROVE  s3' \in [Thing -> T!Text \union {None}]
BY ToolsRead

LEMMA ReadStep ==
  ASSUME T!ToolsetInv, NEW c \in Actor, NEW f \in Thing, T!ReadFile(c, f)
  PROVE  T!ToolsetInv'
<1>1. s3[f] \in T!Text
  BY ToolsRead DEF T!ReadFile
<1>2. PICK n : n = T!Size(s3[f])
  OBVIOUS
<1>3. n \in Nat
  BY <1>1, <1>2, SizeIsNumber
<1>4. PICK m : m = T!Cut(n, READ_FILE_CHARS, Note.file)
  OBVIOUS
<1>5. m \in Nat /\ m <= READ_FILE_CHARS + Note.file
  BY <1>3, <1>4, NumbersOfTools, CutIsBounded
<1>6. PICK q : q = [op |-> "answer", is |-> "text", lines |-> 1, chars |-> m]
  OBVIOUS
<1>7. Proper(q)
  <2>1. q \in T!Answers
    BY <1>5, <1>6 DEF T!Answers
  <2>2. T!InBounds(q)
    BY <1>5, <1>6 DEF T!InBounds
  <2> QED
    BY <1>6, <2>1, <2>2 DEF Proper, Requests, T!OnePlace
<1>8. s4' = [s4 EXCEPT ![c] = q]
  BY <1>2, <1>4, <1>6 DEF T!ReadFile, T!Return
<1>9. s3' \in [Thing -> T!Text \union {None}]
  BY FilesLeft DEF T!ReadFile
<1> QED
  BY <1>7, <1>8, <1>9, ToolsWrite

LEMMA EditStep ==
  ASSUME T!ToolsetInv, NEW c \in Actor, NEW f \in Thing, NEW old \in Line, NEW new \in Line,
         T!Edit(c, f, old, new)
  PROVE  T!ToolsetInv'
<1>1. s3[f] \in T!Text
  BY ToolsRead DEF T!Edit
<1>2. PICK q : q = [op |-> "edit", f |-> f, read |-> s3[f], old |-> old, new |-> new]
  OBVIOUS
<1>3. Proper(q)
  <2>1. q \in T!Edits
    BY <1>1, <1>2 DEF T!Edits
  <2>2. q.op = "edit" /\ q.read = s3[f] /\ q.old = old
    BY <1>2
  <2>3. T!OnePlace(q)
    BY <2>2 DEF T!OnePlace, T!Edit
  <2> QED
    BY <2>1, <2>2, <2>3 DEF Proper, Requests
<1>4. s4' = [s4 EXCEPT ![c] = q]
  BY <1>2 DEF T!Edit, T!Begin
<1>5. s3' \in [Thing -> T!Text \union {None}]
  BY FilesLeft DEF T!Edit
<1> QED
  BY <1>3, <1>4, <1>5, ToolsWrite
LEMMA WriteEditStep ==
  ASSUME T!ToolsetInv, NEW c \in Actor, T!WriteEdit(c)
  PROVE  T!ToolsetInv'
<1>1. PICK r \in T!Edits : r = s4[c]
  <2>1. s4[c] \in Requests /\ s4[c].op = "edit"
    BY ToolsRead DEF T!WriteEdit
  <2> QED
    BY <2>1, RequestKinds
<1>2. PICK w : w = T!Replaced(r.read, r.old, r.new)
  OBVIOUS
<1>3. w \in T!Text
  <2>1. r.read \in T!Text /\ r.new \in Line
    BY DEF T!Edits
  <2>2. T!Landed(r.new) \in Line
    BY <2>1, ToolsetConstants DEF T!Landed, T!ToolsetAssumption
  <2>3. PICK n \in 1..MaxLines : r.read \in [1..n -> Line]
    BY <2>1 DEF T!Text
  <2>4. w \in [1..n -> Line]
    BY <1>2, <2>2, <2>3 DEF T!Replaced
  <2> QED
    BY <2>4 DEF T!Text
<1>4. s3' = [s3 EXCEPT ![r.f] = w] /\ s4' = [s4 EXCEPT ![c] = T!Idle]
  BY <1>1, <1>2 DEF T!WriteEdit, T!Done
<1>5. s3' \in [Thing -> T!Text \union {None}]
  BY <1>3, <1>4, ToolsRead
<1> QED
  BY <1>4, <1>5, IdleIsProper, ToolsWrite

LEMMA WriteFileStep ==
  ASSUME T!ToolsetInv, NEW c \in Actor, NEW f \in Thing, NEW t \in T!Text, T!WriteFile(c, f, t)
  PROVE  T!ToolsetInv'
<1>1. s3' \in [Thing -> T!Text \union {None}] /\ s4' = s4
  BY ToolsRead DEF T!WriteFile
<1>2. s4' = [s4 EXCEPT ![c] = s4[c]] /\ Proper(s4[c])
  BY <1>1, ToolsRead
<1>3. PICK q : q = s4[c]
  OBVIOUS
<1> QED
  BY <1>1, <1>2, <1>3, ToolsWrite

LEMMA ListStep ==
  ASSUME T!ToolsetInv, NEW c \in Actor, T!ListFiles(c)
  PROVE  T!ToolsetInv'
<1>1. PICK there : there = {f \in Thing : s3[f] # None}
  OBVIOUS
<1>2. PICK n \in Nat : n = Cardinality(there)
  <2>1. IsFiniteSet(Thing)
    BY ToolsetConstants DEF T!ToolsetAssumption, T!IsFiniteSet, IsFiniteSet
  <2> QED
    BY <1>1, <2>1, FS_Subset, FS_CardinalityType
<1>3. PICK m : m = IF n > LIST_LIMIT THEN LIST_LIMIT ELSE n
  OBVIOUS
<1>4. m \in Nat /\ m <= LIST_LIMIT
  BY <1>3, NumbersOfTools
<1>5. PICK b : b = (n > LIST_LIMIT)
  OBVIOUS
<1>b. b \in BOOLEAN
  BY <1>5, NumbersOfTools
<1>6. PICK q : q = [op |-> "answer", is |-> "list", lines |-> m, cut |-> b, chars |-> 0]
  OBVIOUS
<1>7. Proper(q)
  <2>1. q \in T!Answers
    BY <1>4, <1>6, <1>b DEF T!Answers
  <2>2. T!InBounds(q)
    BY <1>4, <1>6 DEF T!InBounds
  <2> QED
    BY <1>6, <2>1, <2>2 DEF Proper, Requests, T!OnePlace
<1>8. s4' = [s4 EXCEPT ![c] = q]
  BY <1>1, <1>2, <1>3, <1>5, <1>6 DEF T!ListFiles, T!Return, T!Cardinality, Cardinality
<1>9. s3' \in [Thing -> T!Text \union {None}]
  BY FilesLeft DEF T!ListFiles
<1> QED
  BY <1>7, <1>8, <1>9, ToolsWrite

LEMMA GrepStep ==
  ASSUME T!ToolsetInv, NEW c \in Actor, T!Grep(c)
  PROVE  T!ToolsetInv'
<1>1. PICK q : q = [op |-> "grep", todo |-> {f \in Thing : s3[f] # None}, lines |-> 0, total |-> 0, chars |-> 0,
                 full |-> FALSE]
  OBVIOUS
<1>2. Proper(q)
  <2>1. q \in T!Searches
    BY <1>1, NumbersOfTools DEF T!Searches
  <2>2. q.total < T!MostText /\ (~q.full => q.total < GREP_TOTAL_CHARS)
    BY <1>1, NumbersOfTools
  <2>3. 0 * LONGEST_PLACE = 0
    BY NumbersOfTools
  <2>4. T!Fits(q)
    BY <1>1, <2>2, <2>3 DEF T!Fits
  <2> QED
    BY <1>1, <2>1, <2>4 DEF Proper, Requests, T!OnePlace
<1>3. s4' = [s4 EXCEPT ![c] = q]
  BY <1>1 DEF T!Grep, T!Begin
<1>4. s3' \in [Thing -> T!Text \union {None}]
  BY FilesLeft DEF T!Grep
<1> QED
  BY <1>2, <1>3, <1>4, ToolsWrite

LEMMA GrepFileStep ==
  ASSUME T!ToolsetInv, NEW c \in Actor, NEW f \in Thing, T!GrepFile(c, f)
  PROVE  T!ToolsetInv'
<1>1. PICK g \in T!Searches : g = s4[c] /\ T!Fits(g)
  <2>1. s4[c] \in Requests /\ s4[c].op = "grep" /\ Proper(s4[c])
    BY ToolsRead DEF T!GrepFile
  <2> QED
    BY <2>1, RequestKinds DEF Proper
<1>2. PICK r : r = IF s3[f] = None THEN g ELSE T!Searched(g, s3[f], Place[f])
  OBVIOUS
<1>3. r \in T!Searches /\ T!Fits(r)
  <2>1. CASE s3[f] = None
    BY <1>1, <1>2, <2>1
  <2>2. CASE s3[f] # None
    <3>1. s3[f] \in T!Text
      BY <2>2, ToolsRead
    <3> QED
      BY <1>1, <1>2, <2>2, <3>1, SearchedFits
  <2> QED
    BY <2>1, <2>2
<1>4. PICK q : q = [r EXCEPT !.todo = g.todo \ {f}]
  OBVIOUS
<1>5. /\ q \in T!Searches /\ q.op = "grep" /\ q.lines = r.lines /\ q.total = r.total
      /\ q.chars = r.chars /\ q.full = r.full
  BY <1>1, <1>3, <1>4 DEF T!Searches
<1>6. Proper(q)
  <2>1. T!Fits(q)
    BY <1>3, <1>5 DEF T!Fits
  <2> QED
    BY <1>5, <2>1 DEF Proper, Requests, T!OnePlace
<1>7. s4' = [s4 EXCEPT ![c] = q]
  BY <1>1, <1>2, <1>4 DEF T!GrepFile
<1>8. s3' \in [Thing -> T!Text \union {None}]
  BY FilesLeft DEF T!GrepFile
<1> QED
  BY <1>6, <1>7, <1>8, ToolsWrite

LEMMA GrepEndsStep ==
  ASSUME T!ToolsetInv, NEW c \in Actor, T!GrepEnds(c)
  PROVE  T!ToolsetInv'
<1>1. PICK g \in T!Searches : g = s4[c] /\ T!Fits(g)
  <2>1. s4[c] \in Requests /\ s4[c].op = "grep" /\ Proper(s4[c])
    BY ToolsRead DEF T!GrepEnds
  <2> QED
    BY <2>1, RequestKinds DEF Proper
<1>2. s3' \in [Thing -> T!Text \union {None}]
  BY FilesLeft DEF T!GrepEnds
<1>3. CASE g.lines = 0
  <2>1. s4' = [s4 EXCEPT ![c] = T!Idle]
    BY <1>1, <1>3 DEF T!GrepEnds, T!Done
  <2> QED
    BY <1>2, <2>1, IdleIsProper, ToolsWrite
<1>4. CASE g.lines # 0
  <2>1. PICK m : m = g.chars + (IF g.full THEN Note.search ELSE 0)
    OBVIOUS
  <2>2. PICK q : q = [op |-> "answer", is |-> "matches", lines |-> g.lines, chars |-> m]
    OBVIOUS
  <2>3. s4' = [s4 EXCEPT ![c] = q]
    BY <1>1, <1>4, <2>1, <2>2 DEF T!GrepEnds, T!Return
  <2>4. PICK places \in Nat : places = g.lines * LONGEST_PLACE
    BY NumbersOfTools DEF T!Searches
  <2>5. g.lines \in Nat /\ g.lines <= GREP_LIMIT /\ m \in Nat /\ m < T!MostText + places + Note.search
    BY <1>1, <2>1, <2>4, NumbersOfTools DEF T!Searches, T!Fits
  <2>6. Proper(q)
    <3>1. q \in T!Answers
      BY <2>2, <2>5 DEF T!Answers
    <3>2. T!InBounds(q)
      BY <2>2, <2>4, <2>5 DEF T!InBounds
    <3> QED
      BY <2>2, <3>1, <3>2 DEF Proper, Requests, T!OnePlace
  <2> QED
    BY <1>2, <2>3, <2>6, ToolsWrite
<1> QED
  BY <1>3, <1>4

LEMMA AnsweredStep ==
  ASSUME T!ToolsetInv, NEW c \in Actor, T!Answered(c)
  PROVE  T!ToolsetInv'
<1>1. s4' = [s4 EXCEPT ![c] = T!Idle]
  BY DEF T!Answered, T!Done
<1>2. s3' \in [Thing -> T!Text \union {None}]
  BY FilesLeft DEF T!Answered
<1> QED
  BY <1>1, <1>2, IdleIsProper, ToolsWrite

LEMMA ToolsStay ==
  ASSUME T!ToolsetInv, UNCHANGED <<s3, s4>>
  PROVE  T!ToolsetInv'
BY DEF T!ToolsetInv, T!TypeOK, T!ResultsFitTheContext

LEMMA ToolsStart ==
  ASSUME T!Init
  PROVE  T!ToolsetInv
<1>1. T!TypeOK
  BY DEF T!Init, T!TypeOK
<1>2. \A c \in Actor : s4[c] = T!Idle
  BY DEF T!Init
<1>3. \A c \in Actor : Proper(s4[c])
  BY <1>2, IdleIsProper
<1>4. T!ResultsFitTheContext
  BY <1>3 DEF T!ResultsFitTheContext, Proper
<1> QED
  BY <1>1, <1>3, <1>4 DEF T!ToolsetInv, Proper

LEMMA ToolsNext ==
  ASSUME T!ToolsetInv, [T!Next]_T!vars
  PROVE  T!ToolsetInv'
<1>1. ASSUME NEW s \in Server, T!Connect(s) PROVE T!ToolsetInv'
  BY <1>1, ToolsStay DEF T!Connect
<1>2. ASSUME NEW i \in Grants, T!Assemble(i) PROVE T!ToolsetInv'
  BY <1>2, ToolsStay DEF T!Assemble
<1>3. ASSUME T!ItemEnds PROVE T!ToolsetInv'
  BY <1>3, ToolsStay DEF T!ItemEnds
<1>4. ASSUME UNCHANGED T!vars PROVE T!ToolsetInv'
  BY <1>4, ToolsStay DEF T!vars
<1> QED
  BY <1>1, <1>2, <1>3, <1>4, ReadStep, EditStep, WriteEditStep, WriteFileStep, ListStep,
     GrepStep, GrepFileStep, GrepEndsStep, AnsweredStep
     DEF T!Next

(* The theorem about the tools: every answer is within its limit and what   *)
(* that leaves uncounted, whatever the files hold and however they change   *)
(* while a search reads them.                                               *)
THEOREM AnswersFit == Spec => []ResultsFitTheContext
<1> DEFINE Inv == part = "tools" => T!ToolsetInv
<1>1. Init => Inv
  BY ToolsStart DEF Init
<1>2. Inv /\ [Next]_vars => Inv'
  <2> SUFFICES ASSUME Inv, [Next]_vars, part' = "tools" PROVE T!ToolsetInv'
    OBVIOUS
  <2>1. part = "tools" /\ [T!Next]_T!vars
    BY DEF Next, vars, T!vars
  <2> QED
    BY <2>1, ToolsNext
<1>3. Inv => ResultsFitTheContext
  BY DEF ResultsFitTheContext, T!ToolsetInv
<1> QED
  BY <1>1, <1>2, <1>3, PTL DEF Spec
-----------------------------------------------------------------------------
(* Rewrites                                                                 *)

(* What an edit writes: the one place is replaced, the rest stays.          *)
LEMMA OneReplaced ==
  ASSUME NEW t \in T!Text, NEW old \in Line, NEW new \in Line, Cardinality(T!Hits(t, old)) = 1
  PROVE  /\ DOMAIN T!Replaced(t, old, new) = DOMAIN t
         /\ \A k \in DOMAIN t :
              T!Replaced(t, old, new)[k] = IF k \in T!Hits(t, old) THEN T!Landed(new) ELSE t[k]
<1>1. PICK n \in Nat : t \in [1..n -> Line]
  BY TextLines
<1>2. IsFiniteSet(T!Hits(t, old)) /\ T!Hits(t, old) \subseteq 1..n
  <2>1. T!Hits(t, old) \subseteq 1..n
    BY <1>1 DEF T!Hits
  <2>2. IsFiniteSet(1..n)
    BY FS_Interval
  <2> QED
    BY <2>1, <2>2, FS_Subset
<1>3. PICK a \in 1..n : T!Hits(t, old) = {a}
  BY <1>2, FS_Singleton
<1>4. T!Min(T!Hits(t, old)) = a
  BY <1>3 DEF T!Min
<1>5. T!Replaced(t, old, new) = [t EXCEPT ![a] = T!Landed(new)]
  BY <1>4 DEF T!Replaced
<1> QED
  BY <1>1, <1>3, <1>5

LEMMA OnlyWriteEditEnds ==
  ASSUME T!ToolsetInv, [T!Next]_T!vars, NEW c \in Actor, s4[c].op = "edit", s4'[c] = T!Idle
  PROVE  T!WriteEdit(c)
<1>0. s4 \in [Actor -> Requests] /\ s4'[c] # s4[c]
  <2>1. T!Idle.op = "idle"
    BY DEF T!Idle
  <2> QED
    BY <2>1, ToolsRead
<1>1. T!Next
  BY <1>0 DEF T!vars
<1>2. ~ \E s \in Server : T!Connect(s)
  BY <1>0 DEF T!Connect
<1>3. ~ (T!ItemEnds \/ \E i \in Grants : T!Assemble(i))
  BY <1>0 DEF T!ItemEnds, T!Assemble
<1>4. ASSUME NEW d \in Actor, NEW f \in Thing, NEW t \in T!Text, T!WriteFile(d, f, t) PROVE FALSE
  BY <1>0, <1>4 DEF T!WriteFile
<1>5. ASSUME NEW d \in Actor, NEW f \in Thing, T!ReadFile(d, f) PROVE FALSE
  <2>1. s4[d] = T!Idle /\ d # c
    BY <1>5 DEF T!ReadFile, T!Idle
  <2> QED
    BY <1>0, <1>5, <2>1 DEF T!ReadFile, T!Return
<1>6. ASSUME NEW d \in Actor, NEW f \in Thing, T!GrepFile(d, f) PROVE FALSE
  <2>1. s4[d].op = "grep" /\ d # c
    BY <1>6 DEF T!GrepFile
  <2> QED
    BY <1>0, <1>6, <2>1 DEF T!GrepFile
<1>7. ASSUME NEW d \in Actor, NEW f \in Thing, NEW old \in Line, NEW new \in Line, T!Edit(d, f, old, new) PROVE FALSE
  <2>1. s4[d] = T!Idle /\ d # c
    BY <1>7 DEF T!Edit, T!Begin, T!Idle
  <2> QED
    BY <1>0, <1>7, <2>1 DEF T!Edit, T!Begin
<1>8. ASSUME NEW d \in Actor, T!ListFiles(d) PROVE FALSE
  <2>1. s4[d] = T!Idle /\ d # c
    BY <1>8 DEF T!ListFiles, T!Idle
  <2> QED
    BY <1>0, <1>8, <2>1 DEF T!ListFiles, T!Return
<1>9. ASSUME NEW d \in Actor, T!Grep(d) PROVE FALSE
  <2>1. s4[d] = T!Idle /\ d # c
    BY <1>9 DEF T!Grep, T!Begin, T!Idle
  <2> QED
    BY <1>0, <1>9, <2>1 DEF T!Grep, T!Begin
<1>10. ASSUME NEW d \in Actor, T!GrepEnds(d) \/ T!Answered(d) PROVE FALSE
  <2>1. (s4[d].op = "grep" \/ s4[d].op = "answer") /\ d # c
    BY <1>10 DEF T!GrepEnds, T!Answered
  <2> QED
    BY <1>0, <1>10, <2>1 DEF T!GrepEnds, T!Answered, T!Return, T!Done
<1>11. ASSUME NEW d \in Actor, T!WriteEdit(d) PROVE d = c
  BY <1>0, <1>11 DEF T!WriteEdit, T!Done
<1> QED
  BY <1>1, <1>2, <1>3, <1>4, <1>5, <1>6, <1>7, <1>8, <1>9, <1>10, <1>11 DEF T!Next

LEMMA EditIsExact ==
  ASSUME T!ToolsetInv, [T!Next]_T!vars
  PROVE  T!EditsAreExact
<1> SUFFICES ASSUME NEW c \in Actor, s4[c].op = "edit", s4'[c] = T!Idle, s4[c].f \notin s5'
             PROVE  LET f == s4[c].f  at == T!Hits(s3[f], s4[c].old) IN
                      /\ T!Cardinality(at) = 1
                      /\ \A k \in DOMAIN s3[f] :
                           IF k \notin at THEN s3'[f][k] = s3[f][k]
                           ELSE s4[c].new \notin Pattern => s3'[f][k] = s4[c].new
  BY DEF T!EditsAreExact, T!ExactEdit
<1>1. T!WriteEdit(c)
  BY OnlyWriteEditEnds
<1>2. PICK r \in T!Edits : r = s4[c] /\ T!OnePlace(r)
  <2>1. s4[c] \in Requests /\ Proper(s4[c])
    BY ToolsRead
  <2> QED
    BY <2>1, RequestKinds DEF Proper
<1>3. r.f \in Thing /\ r.read \in T!Text /\ r.old \in Line /\ r.new \in Line /\ r.op = "edit"
  BY DEF T!Edits
<1>4. s3[r.f] = r.read
  BY <1>1, <1>2 DEF T!WriteEdit
<1>5. s3'[r.f] = T!Replaced(r.read, r.old, r.new)
  BY <1>1, <1>2, <1>3, ToolsRead DEF T!WriteEdit
<1>6. Cardinality(T!Hits(r.read, r.old)) = 1 /\ T!Cardinality(T!Hits(r.read, r.old)) = 1
  BY <1>2, <1>3 DEF T!OnePlace, T!Cardinality, Cardinality
<1>7. \A k \in DOMAIN r.read :
        s3'[r.f][k] = IF k \in T!Hits(r.read, r.old) THEN T!Landed(r.new) ELSE r.read[k]
  BY <1>3, <1>5, <1>6, OneReplaced
<1>8. r.new \notin Pattern => T!Landed(r.new) = r.new
  BY DEF T!Landed
<1> QED
  BY <1>2, <1>4, <1>6, <1>7, <1>8

(* The theorem about rewriting a file: what the program does not mean to    *)
(* change stays, in the stores, under edit_file and under issueToken.       *)
THEOREM RewritesAreExact == Spec => RewritesKeepTheRest
<1> DEFINE Inv == /\ part = "files" => F!FilesInv
                  /\ part = "tools" => T!ToolsetInv
                  /\ part = "delivery" => D!DeliveryInv
           Kept == /\ part = "files" => F!KeepsDamaged
                   /\ part = "tools" => T!EditsAreExact
                   /\ part = "delivery" => \A n \in Operator : D!IssueLeavesItLoading(n)
<1>1. Init => Inv
  BY FilesStart, ToolsStart, DeliveryStart DEF Init
<1>2. Inv /\ [Next]_vars => Inv' /\ Kept
  <2> SUFFICES ASSUME Inv, [Next]_vars PROVE Inv' /\ Kept
    OBVIOUS
  <2>1. part' = part
    BY DEF Next, vars
  <2>2. ASSUME part = "files" PROVE F!FilesInv' /\ F!KeepsDamaged
    <3>1. [F!Next]_F!vars
      BY <2>2 DEF Next, vars, F!vars
    <3> QED
      BY <2>2, <3>1, FilesStep, DamageIsLeftAlone
  <2>3. ASSUME part = "tools" PROVE T!ToolsetInv' /\ T!EditsAreExact
    <3>1. [T!Next]_T!vars
      BY <2>3 DEF Next, vars, T!vars
    <3> QED
      BY <2>3, <3>1, ToolsNext, EditIsExact
  <2>4. ASSUME part = "delivery" PROVE D!DeliveryInv' /\ \A n \in Operator : D!IssueLeavesItLoading(n)
    <3>1. [D!Next]_D!vars
      BY <2>4 DEF Next, vars, D!vars
    <3> QED
      BY <2>4, <3>1, DeliveryStep, IssueIsTaken
  <2> QED
    BY <2>1, <2>2, <2>3, <2>4
<1>3. Inv /\ [Next]_vars => Inv' /\ [Kept]_vars
  BY <1>2
<1> HIDE DEF Inv, Kept
<1>4. Spec => [][Kept]_vars
  BY <1>1, <1>3, PTL DEF Spec
<1> QED
  BY <1>4 DEF Kept, RewritesKeepTheRest

-----------------------------------------------------------------------------
(* Migration                                                                *)

Commands == [at : M!Stage, i : DOMAIN Order, left : SUBSET (M!Row \union M!Domain),
             put : SUBSET (M!Domain \X M!Row), n : Nat, bad : Nat]
HasRows(m) == \E d \in M!Domain : \E x \in s3[d] : x.by = m

LEMMA TablesAreThere ==
  /\ Len(Order) \in Nat \ {0} /\ DOMAIN Order = 1..Len(Order)
  /\ \A i \in DOMAIN Order : Order[i] \in M!Domain
  /\ 1 \in DOMAIN Order
BY MigrationConstants DEF M!MigrationAssumption, M!Domain

LEMMA SourcesStay ==
  ASSUME s1' = s1
  PROVE  /\ \A d : M!Rows(d)' = M!Rows(d) /\ M!Good(d)' = M!Good(d)
         /\ \A q : M!Sorted(q)' <=> M!Sorted(q)
<1>1. \A d : M!Rows(d)' = M!Rows(d)
  BY DEF M!Rows
<1>2. \A d : M!Good(d)' = M!Good(d)
  BY <1>1 DEF M!Good
<1>3. M!Entries' = M!Entries
  BY <1>1 DEF M!Entries
<1>4. M!Total' = M!Total
  BY <1>3 DEF M!Total
<1>5. \A q : M!Unread(q)' = M!Unread(q)
  BY <1>3 DEF M!Unread
<1>6. ASSUME NEW q PROVE M!Sorted(q)' <=> M!Sorted(q)
  BY <1>1, <1>2, <1>4, <1>5 DEF M!Sorted, M!Early
<1> QED
  BY <1>1, <1>2, <1>6

(* A step of one process keeps the invariant if what it becomes is in order *)
(* and what it does to the target leaves the complete imports complete.     *)
LEMMA MigrationMoves ==
  ASSUME M!MigrationInv, s1' = s1, NEW p \in M!Process, NEW q \in Commands, s4' = [s4 EXCEPT ![p] = q],
         s2' \in {"none", "old", "added", "filled"},
         s2 \in {"added", "filled"} => s2' \in {"added", "filled"},
         s3' \in [M!Domain -> SUBSET [by : M!Process, row : M!Row]],
         \A m \in Actor : M!Imported(m) => M!Imported(m)',
         \A m \in Actor : HasRows(m)' => HasRows(m) \/ M!Imported(m)',
         s5' \subseteq Actor, \A m \in s5' : m \in s5 \/ M!Imported(m)',
         q.at \in {"fill", "check", "read", "tx", "mark", "seed"} => s2' \in {"added", "filled"},
         q.at = "seed" => p = Console /\ q.left \subseteq M!Domain,
         p \in Actor => M!Sorted(q) /\ (q.at = "mark" => M!Imported(p)')
  PROVE  M!MigrationInv'
<1>1. /\ s4 \in [M!Process -> Commands] /\ s5 \subseteq Actor
      /\ s1 \in [M!Domain -> Contents]
  BY DEF M!MigrationInv, M!TypeOK, Commands
<1>2. s4' \in [M!Process -> Commands] /\ s4'[p] = q /\ \A r \in M!Process : r # p => s4'[r] = s4[r]
  BY <1>1
<1>3. M!TypeOK'
  BY <1>1, <1>2 DEF M!TypeOK, Commands
<1>4. M!SchemaBeforeRows'
  BY <1>2 DEF M!MigrationInv, M!SchemaBeforeRows
<1>5. \A r \in M!Process : /\ s4'[r].at = "fill" => s2' \in {"added", "filled"}
                           /\ s4'[r].at = "seed" => r = Console /\ s4'[r].left \subseteq M!Domain
  BY <1>2 DEF M!MigrationInv, M!At
<1>6. \A m \in Actor : m \in M!Process
  BY DEF M!Process
<1>7. \A m \in Actor : M!Sorted(s4'[m]) /\ (s4'[m].at = "mark" => M!Imported(m)')
  BY <1>2, <1>6 DEF M!MigrationInv, M!At
<1>8. \A m \in Actor : M!Sorted(s4[m])'
  <2> SUFFICES ASSUME NEW m \in Actor PROVE M!Sorted(s4[m])'
    OBVIOUS
  <2>1. PICK c : c = s4'[m]
    OBVIOUS
  <2>2. M!Sorted(c)'
    BY <1>7, <2>1, SourcesStay
  <2> QED
    BY <2>1, <2>2 DEF M!Sorted, M!Early, M!Unread
<1>9. M!MigrationIsWhole'
  <2>1. \A m \in Actor : HasRows(m)' => M!Imported(m)'
    BY DEF M!MigrationInv, M!MigrationIsWhole, HasRows
  <2>2. \A m \in s5' : M!Imported(m)'
    BY <1>1 DEF M!MigrationInv, M!MigrationIsWhole
  <2>3. \A m \in Actor : s4'[m].at = "mark" => s4'[m].n + s4'[m].bad = M!Total'
    BY <1>8 DEF M!Sorted
  <2> QED
    BY <2>1, <2>2, <2>3 DEF M!MigrationIsWhole, HasRows, M!At
<1> QED
  BY <1>3, <1>4, <1>5, <1>7, <1>8, <1>9 DEF M!MigrationInv, M!At

(* So does a step that leaves the target alone.                             *)
LEMMA TargetStays ==
  ASSUME s1' = s1, s3' = s3
  PROVE  \A m \in Actor : (M!Imported(m)' <=> M!Imported(m)) /\ (HasRows(m)' <=> HasRows(m))
<1>1. \A m, d : M!Arrived(m, d)' = M!Arrived(m, d)
  BY SourcesStay DEF M!Arrived
<1>2. \A m \in Actor : M!Imported(m)' <=> M!Imported(m)
  BY <1>1, SourcesStay DEF M!Imported
<1> QED
  BY <1>2 DEF HasRows

LEMMA MigrationTurns ==
  ASSUME M!MigrationInv, s1' = s1, s3' = s3, s5' = s5,
         NEW p \in M!Process, NEW q \in Commands, s4' = [s4 EXCEPT ![p] = q],
         s2' \in {"none", "old", "added", "filled"},
         s2 \in {"added", "filled"} => s2' \in {"added", "filled"},
         q.at \in {"fill", "check", "read", "tx", "mark", "seed"} => s2' \in {"added", "filled"},
         q.at = "seed" => p = Console /\ q.left \subseteq M!Domain,
         p \in Actor => M!Sorted(q) /\ (q.at = "mark" => M!Imported(p))
  PROVE  M!MigrationInv'
<1>1. s3' \in [M!Domain -> SUBSET [by : M!Process, row : M!Row]] /\ s5' \subseteq Actor
  BY DEF M!MigrationInv, M!TypeOK
<1>2. \A m \in Actor : M!Imported(m) => M!Imported(m)'
  BY TargetStays
<1>3. \A m \in Actor : HasRows(m)' => HasRows(m) \/ M!Imported(m)'
  BY TargetStays
<1>4. \A m \in s5' : m \in s5 \/ M!Imported(m)'
  OBVIOUS
<1>5. p \in Actor => M!Sorted(q) /\ (q.at = "mark" => M!Imported(p)')
  BY <1>2
<1> QED
  BY <1>1, <1>2, <1>3, <1>4, <1>5, MigrationMoves

(* What a process is before a step.                                         *)
LEMMA CommandNow ==
  ASSUME M!MigrationInv, NEW p \in M!Process
  PROVE  /\ s4[p] \in Commands /\ s4 \in [M!Process -> Commands]
         /\ s2 \in {"none", "old", "added", "filled"}
         /\ s4[p].at \in {"fill", "check", "read", "tx", "mark", "seed"} => s2 \in {"added", "filled"}
         /\ p \in Actor => M!Sorted(s4[p])
BY DEF M!MigrationInv, M!TypeOK, Commands, M!SchemaBeforeRows, M!At

LEMMA FailStep ==
  ASSUME M!MigrationInv, NEW p \in M!Process, M!Fail(p), UNCHANGED <<s1, s2, s3, s5>>
  PROVE  M!MigrationInv'
<1>1. PICK c \in Commands : c = s4[p]
  BY CommandNow
<1>2. PICK q : q = [c EXCEPT !.at = "over", !.put = {}, !.left = {}]
  OBVIOUS
<1>3. q \in Commands /\ q.at = "over"
  BY <1>2 DEF Commands, M!Stage
<1>4. M!Sorted(q)
  BY <1>3 DEF M!Sorted, M!Early
<1>5. s4' = [s4 EXCEPT ![p] = q]
  BY <1>1, <1>2 DEF M!Fail, M!Becomes
<1> QED
  BY <1>3, <1>4, <1>5, CommandNow, MigrationTurns

LEMMA CommandStep ==
  ASSUME M!MigrationInv, NEW m \in Actor, M!Command(m)
  PROVE  M!MigrationInv'
<1>0. m \in M!Process
  BY DEF M!Process
<1>1. PICK at \in {"over", "schema"} : s4' = [s4 EXCEPT ![m] = [M!Fresh EXCEPT !.at = at]]
  BY DEF M!Command, M!Becomes
<1>2. PICK q : q = [M!Fresh EXCEPT !.at = at]
  OBVIOUS
<1>3. /\ q \in Commands /\ q.at = at /\ q.n = 0 /\ q.bad = 0 /\ q.put = {}
  BY <1>2, TablesAreThere DEF Commands, M!Stage, M!Fresh
<1>4. M!Sorted(q)
  BY <1>3 DEF M!Sorted, M!Early
<1>5. s4' = [s4 EXCEPT ![m] = q] /\ UNCHANGED <<s1, s2, s3, s5>>
  BY <1>1, <1>2 DEF M!Command
<1> QED
  BY <1>0, <1>3, <1>4, <1>5, CommandNow, MigrationTurns

\* to the next stage before any row, with nothing else changed
LEMMA SchemaGoes ==
  ASSUME M!MigrationInv, NEW p \in M!Process, NEW at \in {"schema", "alter", "fill", "check"},
         M!Goto(p, at), UNCHANGED <<s1, s3, s5>>,
         s4[p].at \in {"schema", "alter", "fill"} \/ p = Console,
         s2' \in {"none", "old", "added", "filled"},
         s2 \in {"added", "filled"} => s2' \in {"added", "filled"},
         at \in {"fill", "check"} => s2' \in {"added", "filled"}
  PROVE  M!MigrationInv'
<1>1. PICK c \in Commands : c = s4[p]
  BY CommandNow
<1>2. PICK q : q = [c EXCEPT !.at = at]
  OBVIOUS
<1>3. q \in Commands /\ q.at = at /\ q.n = c.n /\ q.bad = c.bad /\ q.put = c.put
  BY <1>2 DEF Commands, M!Stage
<1>4. p \in Actor => M!Sorted(q)
  <2> SUFFICES ASSUME p \in Actor PROVE M!Sorted(q)
    OBVIOUS
  <2>1. p # Console
    BY MigrationConstants DEF M!MigrationAssumption
  <2>2. c.n = 0 /\ c.bad = 0 /\ c.put = {}
    BY <1>1, <2>1, CommandNow DEF M!Sorted, M!Early
  <2> QED
    BY <1>3, <2>2 DEF M!Sorted, M!Early
<1>5. s4' = [s4 EXCEPT ![p] = q]
  BY <1>1, <1>2 DEF M!Goto, M!Becomes
<1> QED
  BY <1>3, <1>4, <1>5, CommandNow, MigrationTurns

LEMMA SchemaSteps ==
  ASSUME M!MigrationInv, NEW p \in M!Process, M!CreateTables(p) \/ M!AddColumn(p) \/ M!FillColumn(p)
  PROVE  M!MigrationInv'
<1>0. s2 \in {"none", "old", "added", "filled"}
  BY CommandNow
<1>1. CASE M!CreateTables(p)
  <2>1. PICK at \in {"alter", "check"} : at = IF s2 = "old" THEN "alter" ELSE "check"
    OBVIOUS
  <2>2. M!Goto(p, at)
    BY <1>1, <2>1 DEF M!CreateTables
  <2>3. /\ UNCHANGED <<s1, s3, s5>> /\ s4[p].at = "schema"
        /\ s2' = IF s2 = "none" THEN "filled" ELSE s2
    BY <1>1 DEF M!CreateTables, M!At
  <2>4. at = "check" => s2' \in {"added", "filled"}
    BY <1>0, <2>1, <2>3
  <2> QED
    BY <1>0, <2>2, <2>3, <2>4, SchemaGoes
<1>2. CASE M!AddColumn(p)
  <2>1. CASE s2 = "old"
    <3>1. M!Goto(p, "fill") /\ s2' = "added" /\ UNCHANGED <<s1, s3, s5>> /\ s4[p].at = "alter"
      BY <1>2, <2>1 DEF M!AddColumn, M!At
    <3> QED
      BY <2>1, <3>1, SchemaGoes
  <2>2. CASE s2 # "old"
    BY <1>2, <2>2, FailStep DEF M!AddColumn
  <2> QED
    BY <2>1, <2>2
<1>3. CASE M!FillColumn(p)
  <2>1. M!Goto(p, "check") /\ s2' = "filled" /\ UNCHANGED <<s1, s3, s5>> /\ s4[p].at = "fill"
    BY <1>3 DEF M!FillColumn, M!At
  <2> QED
    BY <2>1, SchemaGoes
<1> QED
  BY <1>1, <1>2, <1>3

LEMMA ServerStartStep ==
  ASSUME M!MigrationInv, M!ServerStart
  PROVE  M!MigrationInv'
<1>1. Console \in M!Process
  BY DEF M!Process
<1>2. M!Goto(Console, "schema") /\ UNCHANGED <<s1, s2, s3, s5>>
  BY DEF M!ServerStart
<1> QED
  BY <1>1, <1>2, CommandNow, SchemaGoes

LEMMA CheckStep ==
  ASSUME M!MigrationInv, NEW m \in Actor, M!CheckEmpty(m)
  PROVE  M!MigrationInv'
<1>0. m \in M!Process /\ UNCHANGED <<s1, s2, s3, s5>> /\ s4[m].at = "check"
  BY DEF M!Process, M!CheckEmpty, M!At
<1>1. PICK c \in Commands : c = s4[m]
  BY <1>0, CommandNow
<1>2. c.n = 0 /\ c.bad = 0 /\ c.put = {} /\ s2 \in {"added", "filled"}
  BY <1>0, <1>1, CommandNow DEF M!Sorted, M!Early
<1>3. CASE M!Fail(m)
  BY <1>0, <1>3, FailStep
<1>4. CASE c.i < Len(Order) /\ s4' = [s4 EXCEPT ![m] = [c EXCEPT !.i = c.i + 1]]
  <2>1. PICK q : q = [c EXCEPT !.i = c.i + 1]
    OBVIOUS
  <2>2. q \in Commands /\ q.at = "check" /\ q.n = 0 /\ q.bad = 0 /\ q.put = {}
    <3>1. c.i + 1 \in DOMAIN Order
      BY <1>4, TablesAreThere DEF Commands
    <3> QED
      BY <1>0, <1>1, <1>2, <2>1, <3>1 DEF Commands
  <2>3. M!Sorted(q)
    BY <2>2 DEF M!Sorted, M!Early
  <2> QED
    BY <1>0, <1>2, <1>4, <2>1, <2>2, <2>3, CommandNow, MigrationTurns
<1>5. CASE s4' = [s4 EXCEPT ![m] = [c EXCEPT !.i = 1, !.at = "read"]]
  <2>1. PICK q : q = [c EXCEPT !.i = 1, !.at = "read"]
    OBVIOUS
  <2>2. q \in Commands /\ q.at = "read" /\ q.i = 1 /\ q.n = 0 /\ q.bad = 0 /\ q.put = {}
    BY <1>2, <2>1, TablesAreThere DEF Commands, M!Stage
  <2>3. M!Sorted(q)
    BY <2>2 DEF M!Sorted, M!Early
  <2> QED
    BY <1>0, <1>2, <1>5, <2>1, <2>2, <2>3, CommandNow, MigrationTurns
<1> QED
  BY <1>1, <1>3, <1>4, <1>5 DEF M!CheckEmpty, M!Becomes

LEMMA RowsAreRows ==
  ASSUME M!MigrationInv, NEW i \in DOMAIN Order
  PROVE  M!Rows(Order[i]) \subseteq M!Row /\ M!Good(Order[i]) \subseteq M!Rows(Order[i])
<1>1. s1[Order[i]] \in Contents
  BY TablesAreThere DEF M!MigrationInv, M!TypeOK
<1>2. M!Rows(Order[i]) \subseteq M!Row
  BY <1>1, MigrationConstants DEF M!Rows, M!MigrationAssumption
<1> QED
  BY <1>2 DEF M!Good

LEMMA CountOfRows == \A E : M!Cardinality(E) = Cardinality(E)
BY DEF M!Cardinality, Cardinality

LEMMA EntriesAreFinite == IsFiniteSet(M!Entries)
<1>1. IsFiniteSet(M!Row)
  <2>1. IsFiniteSet({"key"})
    BY FS_Singleton
  <2>2. IsFiniteSet({"key"} \union {"twin"})
    BY <2>1, FS_AddElement
  <2>3. IsFiniteSet(({"key"} \union {"twin"}) \union {"bare"})
    BY <2>2, FS_AddElement
  <2>4. M!Row = ({"key"} \union {"twin"}) \union {"bare"}
    BY DEF M!Row
  <2> QED
    BY <2>3, <2>4
<1>2. IsFiniteSet(DOMAIN Order)
  <2>1. PICK n \in Nat : DOMAIN Order = 1..n
    BY TablesAreThere
  <2>2. IsFiniteSet(1..n)
    BY FS_Interval
  <2> QED
    BY <2>1, <2>2
<1>3. PICK A, B : A = DOMAIN Order /\ B = M!Row
  OBVIOUS
<1>4. IsFiniteSet(A \X B)
  BY <1>1, <1>2, <1>3, FS_Product
<1>5. M!Entries \subseteq A \X B
  BY <1>3 DEF M!Entries
<1> QED
  BY <1>4, <1>5, FS_Subset

LEMMA UnreadIsFinite ==
  ASSUME NEW q
  PROVE  /\ IsFiniteSet(M!Unread(q)) /\ M!Cardinality(M!Unread(q)) \in Nat
         /\ M!Cardinality(M!Unread(q)) = Cardinality(M!Unread(q))
<1>1. M!Unread(q) \subseteq M!Entries
  BY DEF M!Unread
<1>2. IsFiniteSet(M!Unread(q))
  BY <1>1, EntriesAreFinite, FS_Subset
<1> QED
  BY <1>2, FS_CardinalityType, CountOfRows

LEMMA ReadStepOfMigration ==
  ASSUME M!MigrationInv, NEW m \in Actor, M!ReadSources(m)
  PROVE  M!MigrationInv'
<1>0. m \in M!Process /\ UNCHANGED <<s1, s2, s3, s5>> /\ s4[m].at = "read"
  BY DEF M!Process, M!ReadSources, M!At
<1>1. PICK c \in Commands : c = s4[m]
  BY <1>0, CommandNow
<1>2. c.i = 1 /\ c.n = 0 /\ c.bad = 0 /\ c.put = {} /\ s2 \in {"added", "filled"}
  BY <1>0, <1>1, CommandNow DEF M!Sorted, M!Early
<1>3. CASE M!Fail(m)
  BY <1>0, <1>3, FailStep
<1>4. CASE s4' = [s4 EXCEPT ![m] = [c EXCEPT !.at = "tx", !.left = M!Rows(Order[1])]]
  <2>1. PICK q : q = [c EXCEPT !.at = "tx", !.left = M!Rows(Order[1])]
    OBVIOUS
  <2>2. /\ q \in Commands /\ q.at = "tx" /\ q.i = 1 /\ q.left = M!Rows(Order[1])
        /\ q.n = 0 /\ q.bad = 0
    <3>1. M!Rows(Order[1]) \subseteq M!Row \union M!Domain
      BY TablesAreThere, RowsAreRows
    <3> QED
      BY <1>2, <2>1, <3>1 DEF Commands, M!Stage
  <2>3. M!Unread(q) = M!Entries
    <3>1. \A x \in M!Entries : x[1] \in DOMAIN Order /\ x[2] \in M!Rows(Order[x[1]])
      BY DEF M!Entries
    <3>2. \A x \in M!Entries : x[1] > 1 \/ x[1] = 1
      BY <3>1, TablesAreThere
    <3> QED
      BY <2>2, <3>1, <3>2 DEF M!Unread
  <2>4. q.n + q.bad + M!Cardinality(M!Unread(q)) = M!Total
    <3>1. M!Cardinality(M!Unread(q)) = M!Total /\ M!Total \in Nat
      BY <2>3, UnreadIsFinite DEF M!Total
    <3> QED
      BY <2>2, <3>1
  <2>5. \A j \in DOMAIN Order : \A r \in M!Good(Order[j]) : ~(j < q.i) /\ (j = q.i => r \in q.left)
    BY <2>2, TablesAreThere, RowsAreRows
  <2>6. M!Sorted(q)
    BY <2>2, <2>4, <2>5 DEF M!Sorted, M!Early
  <2> QED
    BY <1>0, <1>2, <1>4, <2>1, <2>2, <2>6, CommandNow, MigrationTurns
<1> QED
  BY <1>1, <1>3, <1>4 DEF M!ReadSources, M!Becomes

LEMMA InsertStep ==
  ASSUME M!MigrationInv, NEW m \in Actor, M!Insert(m)
  PROVE  M!MigrationInv'
<1>0. m \in M!Process /\ UNCHANGED <<s1, s2, s3, s5>> /\ s4[m].at = "tx"
  BY DEF M!Process, M!Insert, M!At
<1>1. PICK c \in Commands : c = s4[m]
  BY <1>0, CommandNow
<1>2. M!Sorted(c) /\ c.at = "tx" /\ s2 \in {"added", "filled"}
  BY <1>0, <1>1, CommandNow
<1>3. PICK d : d = Order[c.i]
  OBVIOUS
<1>4. PICK r \in c.left :
        \/ /\ r \notin M!Good(d)
           /\ s4' = [s4 EXCEPT ![m] = [c EXCEPT !.left = c.left \ {r}, !.bad = c.bad + 1]]
        \/ M!Fail(m)
        \/ s4' = [s4 EXCEPT ![m] = [c EXCEPT !.left = c.left \ {r}, !.n = c.n + 1,
                                            !.put = c.put \union {<<d, r>>}]]
  BY <1>1, <1>3 DEF M!Insert, M!Becomes, M!Current
<1>5. c.i \in DOMAIN Order /\ c.i \in Nat /\ c.n \in Nat /\ c.bad \in Nat /\ c.left \subseteq M!Rows(d)
  BY <1>2, <1>3, TablesAreThere DEF Commands, M!Sorted
<1>6. r \in M!Row /\ d \in M!Domain /\ r \in M!Rows(d)
  BY <1>3, <1>5, RowsAreRows, TablesAreThere
<1>7. ASSUME NEW q, q.i = c.i, q.left = c.left \ {r}
      PROVE  /\ M!Cardinality(M!Unread(q)) \in Nat
             /\ M!Cardinality(M!Unread(c)) = M!Cardinality(M!Unread(q)) + 1
  <2>1. <<c.i, r>> \in M!Unread(c)
    BY <1>3, <1>5, <1>6 DEF M!Unread, M!Entries
  <2>2. M!Unread(q) = M!Unread(c) \ {<<c.i, r>>}
    <3>1. \A x \in M!Entries : x = <<x[1], x[2]>> /\ x[1] \in Nat
      BY TablesAreThere DEF M!Entries
    <3>2. \A x \in M!Entries : x = <<c.i, r>> <=> x[1] = c.i /\ x[2] = r
      BY <3>1
    <3>3. ~(c.i > c.i)
      BY <1>5
    <3> QED
      BY <1>7, <3>2, <3>3 DEF M!Unread
  <2>3. PICK E, e : E = M!Unread(c) /\ e = <<c.i, r>>
    OBVIOUS
  <2>4. Cardinality(E \ {e}) = Cardinality(E) - 1
    BY <2>1, <2>3, UnreadIsFinite, FS_RemoveElement
  <2>5. Cardinality(M!Unread(q)) = Cardinality(M!Unread(c)) - 1
    BY <2>2, <2>3, <2>4
  <2> QED
    BY <2>5, UnreadIsFinite
<1>8. M!Cardinality(M!Unread(c)) \in Nat /\ c.n + c.bad + M!Cardinality(M!Unread(c)) = M!Total
  BY <1>2, UnreadIsFinite DEF M!Sorted
<1>9. CASE /\ r \notin M!Good(d)
           /\ s4' = [s4 EXCEPT ![m] = [c EXCEPT !.left = c.left \ {r}, !.bad = c.bad + 1]]
  <2>1. PICK q : q = [c EXCEPT !.left = c.left \ {r}, !.bad = c.bad + 1]
    OBVIOUS
  <2>2. /\ q \in Commands /\ q.at = "tx" /\ q.i = c.i /\ q.left = c.left \ {r}
        /\ q.n = c.n /\ q.bad = c.bad + 1 /\ q.put = c.put
    <3>1. c.left \ {r} \in SUBSET (M!Row \union M!Domain) /\ c.bad + 1 \in Nat
      BY <1>5 DEF Commands
    <3>2. q \in Commands
      BY <2>1, <3>1 DEF Commands
    <3>3. q.at = c.at /\ q.i = c.i /\ q.left = c.left \ {r} /\ q.n = c.n /\ q.bad = c.bad + 1 /\ q.put = c.put
      BY <2>1 DEF Commands
    <3> QED
      BY <1>2, <3>2, <3>3
  <2>3. q.n + q.bad + M!Cardinality(M!Unread(q)) = M!Total
    <3>1. PICK u, v : u = M!Cardinality(M!Unread(c)) /\ v = M!Cardinality(M!Unread(q))
      OBVIOUS
    <3>2. v \in Nat /\ u = v + 1 /\ c.n + c.bad + u = M!Total
      BY <1>7, <1>8, <2>2, <3>1
    <3>3. c.n + (c.bad + 1) + v = M!Total
      BY <1>5, <3>2
    <3> QED
      BY <2>2, <3>1, <3>3
  <2>4. \A j \in DOMAIN Order : \A x \in M!Good(Order[j]) :
          j < q.i \/ (j = q.i /\ x \notin q.left) => <<Order[j], x>> \in q.put
    BY <1>2, <1>3, <1>9, <2>2 DEF M!Sorted
  <2>5. M!Sorted(q)
    BY <1>3, <1>5, <2>2, <2>3, <2>4 DEF M!Sorted, M!Early
  <2> QED
    BY <1>0, <1>2, <1>9, <2>1, <2>2, <2>5, CommandNow, MigrationTurns
<1>10. CASE M!Fail(m)
  BY <1>0, <1>10, FailStep
<1>11. CASE s4' = [s4 EXCEPT ![m] = [c EXCEPT !.left = c.left \ {r}, !.n = c.n + 1,
                                             !.put = c.put \union {<<d, r>>}]]
  <2>1. PICK q : q = [c EXCEPT !.left = c.left \ {r}, !.n = c.n + 1, !.put = c.put \union {<<d, r>>}]
    OBVIOUS
  <2>2. /\ q \in Commands /\ q.at = "tx" /\ q.i = c.i /\ q.left = c.left \ {r}
        /\ q.n = c.n + 1 /\ q.bad = c.bad /\ q.put = c.put \union {<<d, r>>}
    <3>1. PICK put : put = c.put \union {<<d, r>>}
      OBVIOUS
    <3>2. /\ c.left \ {r} \in SUBSET (M!Row \union M!Domain) /\ c.n + 1 \in Nat
          /\ put \in SUBSET (M!Domain \X M!Row)
      BY <1>5, <1>6, <3>1 DEF Commands
    <3>3. q = [c EXCEPT !.left = c.left \ {r}, !.n = c.n + 1, !.put = put]
      BY <2>1, <3>1
    <3>4. q \in Commands
      BY <3>2, <3>3 DEF Commands
    <3>5. q.at = c.at /\ q.i = c.i /\ q.left = c.left \ {r} /\ q.n = c.n + 1 /\ q.bad = c.bad /\ q.put = put
      BY <3>3 DEF Commands
    <3> QED
      BY <1>2, <3>1, <3>4, <3>5
  <2>3. q.n + q.bad + M!Cardinality(M!Unread(q)) = M!Total
    <3>1. PICK u, v : u = M!Cardinality(M!Unread(c)) /\ v = M!Cardinality(M!Unread(q))
      OBVIOUS
    <3>2. v \in Nat /\ u = v + 1 /\ c.n + c.bad + u = M!Total
      BY <1>7, <1>8, <2>2, <3>1
    <3>3. (c.n + 1) + c.bad + v = M!Total
      BY <1>5, <3>2
    <3> QED
      BY <2>2, <3>1, <3>3
  <2>4. \A j \in DOMAIN Order : \A x \in M!Good(Order[j]) :
          j < q.i \/ (j = q.i /\ x \notin q.left) => <<Order[j], x>> \in q.put
    BY <1>2, <1>3, <2>2 DEF M!Sorted
  <2>5. M!Sorted(q)
    BY <1>3, <1>5, <2>2, <2>3, <2>4 DEF M!Sorted, M!Early
  <2> QED
    BY <1>0, <1>2, <1>11, <2>1, <2>2, <2>5, CommandNow, MigrationTurns
<1> QED
  BY <1>4, <1>9, <1>10, <1>11

LEMMA NextDomainStep ==
  ASSUME M!MigrationInv, NEW m \in Actor, M!NextDomain(m)
  PROVE  M!MigrationInv'
<1>0. m \in M!Process /\ UNCHANGED <<s1, s2, s3, s5>> /\ s4[m].at = "tx"
  BY DEF M!Process, M!NextDomain, M!At
<1>1. PICK c \in Commands : c = s4[m]
  BY <1>0, CommandNow
<1>2. M!Sorted(c) /\ c.at = "tx" /\ c.left = {} /\ s2 \in {"added", "filled"}
  BY <1>0, <1>1, CommandNow DEF M!NextDomain
<1>3. CASE M!Fail(m)
  BY <1>0, <1>3, FailStep
<1>4. CASE /\ c.i < Len(Order)
           /\ s4' = [s4 EXCEPT ![m] = [c EXCEPT !.i = c.i + 1, !.left = M!Rows(Order[c.i + 1])]]
  <2>0. PICK i : i = c.i + 1
    OBVIOUS
  <2>1. PICK q : q = [c EXCEPT !.i = i, !.left = M!Rows(Order[i])]
    OBVIOUS
  <2>2. c.i \in DOMAIN Order /\ i \in DOMAIN Order /\ c.i \in Nat
    BY <1>4, <2>0, TablesAreThere DEF Commands
  <2>3. M!Rows(Order[i]) \in SUBSET (M!Row \union M!Domain)
    BY <2>2, RowsAreRows
  <2>4. /\ q \in Commands /\ q.at = "tx" /\ q.i = i /\ q.left = M!Rows(Order[i])
        /\ q.n = c.n /\ q.bad = c.bad /\ q.put = c.put
    BY <1>2, <2>1, <2>2, <2>3 DEF Commands
  <2>5. M!Unread(q) = M!Unread(c)
    <3> SUFFICES ASSUME NEW x \in M!Entries
                 PROVE  x[1] > q.i \/ (x[1] = q.i /\ x[2] \in q.left) <=> x[1] > c.i
      BY <1>2 DEF M!Unread
    <3>1. x[1] \in Nat /\ x[2] \in M!Rows(Order[x[1]])
      BY TablesAreThere DEF M!Entries
    <3>2. x[1] = i => x[2] \in q.left
      BY <2>4, <3>1
    <3>3. x[1] > c.i <=> x[1] > i \/ x[1] = i
      BY <2>0, <2>2, <3>1
    <3> QED
      BY <2>4, <3>2, <3>3
  <2>6. \A j \in DOMAIN Order : \A x \in M!Good(Order[j]) :
          j < q.i \/ (j = q.i /\ x \notin q.left) => <<Order[j], x>> \in q.put
    <3> SUFFICES ASSUME NEW j \in DOMAIN Order, NEW x \in M!Good(Order[j]),
                        j < q.i \/ (j = q.i /\ x \notin q.left)
                 PROVE  <<Order[j], x>> \in q.put
      OBVIOUS
    <3>1. j < q.i
      BY <2>4, RowsAreRows
    <3>2. j < c.i \/ j = c.i
      BY <2>0, <2>2, <2>4, <3>1, TablesAreThere
    <3> QED
      BY <1>2, <2>4, <3>2 DEF M!Sorted
  <2>7. M!Sorted(q)
    BY <1>2, <2>2, <2>4, <2>5, <2>6 DEF M!Sorted, M!Early
  <2> QED
    BY <1>0, <1>2, <1>4, <2>0, <2>1, <2>4, <2>7, CommandNow, MigrationTurns
<1> QED
  BY <1>1, <1>3, <1>4 DEF M!NextDomain, M!Becomes

LEMMA CommitStep ==
  ASSUME M!MigrationInv, NEW m \in Actor, M!Commit(m)
  PROVE  M!MigrationInv'
<1>0. m \in M!Process /\ UNCHANGED <<s1, s2, s5>> /\ s4[m].at = "tx"
  BY DEF M!Process, M!Commit, M!At
<1>1. PICK c \in Commands : c = s4[m]
  BY <1>0, CommandNow
<1>2. M!Sorted(c) /\ c.at = "tx" /\ c.left = {} /\ c.i = Len(Order) /\ s2 \in {"added", "filled"}
  BY <1>0, <1>1, CommandNow DEF M!Commit
<1>3. PICK q : q = [c EXCEPT !.at = "mark", !.put = {}]
  OBVIOUS
<1>4. q \in Commands /\ q.at = "mark" /\ q.n = c.n /\ q.bad = c.bad
  BY <1>3 DEF Commands, M!Stage
<1>5. s4' = [s4 EXCEPT ![m] = q]
  BY <1>1, <1>3 DEF M!Commit, M!Becomes
<1>6. /\ s3 \in [M!Domain -> SUBSET [by : M!Process, row : M!Row]]
      /\ \A d \in M!Domain : s3'[d] = s3[d] \union {[by |-> m, row |-> x[2]] : x \in {y \in c.put : y[1] = d}}
      /\ s3' = [d \in M!Domain |-> s3[d] \union {[by |-> m, row |-> x[2]] : x \in {y \in c.put : y[1] = d}}]
  BY <1>1 DEF M!Commit, M!MigrationInv, M!TypeOK
<1>7. \A d \in M!Domain : s3'[d] \subseteq [by : M!Process, row : M!Row] /\ s3[d] \subseteq s3'[d]
  <2>1. \A y \in c.put : y[2] \in M!Row
    BY DEF Commands
  <2> QED
    BY <1>0, <1>6, <2>1
<1>8. s3' \in [M!Domain -> SUBSET [by : M!Process, row : M!Row]]
  BY <1>6, <1>7
<1>9. \A d : M!Good(d)' = M!Good(d)
  BY <1>0, SourcesStay
<1>10. \A k \in Actor : M!Imported(k) => M!Imported(k)'
  <2>1. \A k \in Actor : \A d \in M!Domain : M!Arrived(k, d) \subseteq M!Arrived(k, d)'
    BY <1>7, <1>9 DEF M!Arrived
  <2> QED
    BY <1>9, <2>1 DEF M!Imported
<1>11. M!Imported(m)'
  <2> SUFFICES ASSUME NEW d \in M!Domain, NEW r \in M!Good(d) PROVE r \in M!Arrived(m, d)'
    BY <1>9 DEF M!Imported
  <2>1. PICK j \in DOMAIN Order : d = Order[j]
    BY DEF M!Domain
  <2>2. j < c.i \/ j = c.i
    BY <1>2, TablesAreThere
  <2>3. <<d, r>> \in c.put
    BY <1>2, <2>1, <2>2 DEF M!Sorted
  <2>4. [by |-> m, row |-> r] \in s3'[d]
    <3>1. PICK y : y = <<d, r>>
      OBVIOUS
    <3>2. y \in c.put /\ y[1] = d /\ y[2] = r
      BY <2>3, <3>1
    <3> QED
      BY <1>6, <3>2
  <2> QED
    BY <2>4 DEF M!Arrived
<1>12. \A k \in Actor : HasRows(k)' => HasRows(k) \/ M!Imported(k)'
  <2> SUFFICES ASSUME NEW k \in Actor, k # m, HasRows(k)' PROVE HasRows(k)
    BY <1>11
  <2>1. PICK d \in M!Domain : \E x \in s3'[d] : x.by = k
    BY DEF HasRows
  <2>2. PICK x \in s3'[d] : x.by = k
    BY <2>1
  <2>3. x \in s3[d]
    BY <1>6, <2>2
  <2> QED
    BY <2>2, <2>3 DEF HasRows
<1>13. c.n + c.bad = M!Total
  <2>1. M!Unread(c) = {}
    <3>1. \A x \in M!Entries : x[1] \in Nat /\ ~(x[1] > Len(Order))
      BY TablesAreThere DEF M!Entries
    <3> QED
      BY <1>2, <3>1 DEF M!Unread
  <2>2. M!Cardinality(M!Unread(c)) = 0
    BY <2>1, CountOfRows, FS_EmptySet
  <2>3. c.n \in Nat /\ c.bad \in Nat /\ c.n + c.bad + 0 = M!Total
    BY <1>2, <2>2 DEF M!Sorted, Commands
  <2> QED
    BY <2>3
<1>14. M!Sorted(q)
  BY <1>4, <1>13 DEF M!Sorted, M!Early
<1>15. M!Sorted(q) /\ (q.at = "mark" => M!Imported(m)')
  BY <1>11, <1>14
<1>16. s5' \subseteq Actor /\ \A k \in s5' : k \in s5 \/ M!Imported(k)'
  BY <1>0 DEF M!MigrationInv, M!TypeOK
<1> QED
  BY <1>0, <1>2, <1>4, <1>5, <1>8, <1>10, <1>12, <1>15, <1>16, CommandNow, MigrationMoves

LEMMA MarkStep ==
  ASSUME M!MigrationInv, NEW m \in Actor, M!Mark(m)
  PROVE  M!MigrationInv'
<1>0. m \in M!Process /\ UNCHANGED <<s1, s2, s3>> /\ s4[m].at = "mark" /\ s5' = s5 \union {m}
  BY DEF M!Process, M!Mark, M!At
<1>1. PICK c \in Commands : c = s4[m]
  BY <1>0, CommandNow
<1>2. PICK q : q = [c EXCEPT !.at = "over"]
  OBVIOUS
<1>3. q \in Commands /\ q.at = "over"
  BY <1>2 DEF Commands, M!Stage
<1>4. M!Sorted(q)
  BY <1>3 DEF M!Sorted, M!Early
<1>5. s4' = [s4 EXCEPT ![m] = q]
  BY <1>1, <1>2 DEF M!Mark, M!Goto, M!Becomes
<1>6. M!Imported(m)
  BY <1>0 DEF M!MigrationInv, M!At
<1>7. /\ \A k \in Actor : M!Imported(k) => M!Imported(k)'
      /\ \A k \in Actor : HasRows(k)' => HasRows(k) \/ M!Imported(k)'
  BY <1>0, TargetStays
<1>8. s5' \subseteq Actor /\ \A k \in s5' : k \in s5 \/ M!Imported(k)'
  BY <1>0, <1>6, <1>7 DEF M!MigrationInv, M!TypeOK
<1>9. s3' \in [M!Domain -> SUBSET [by : M!Process, row : M!Row]]
  BY <1>0 DEF M!MigrationInv, M!TypeOK
<1>10. m \in Actor => M!Sorted(q) /\ (q.at = "mark" => M!Imported(m)')
  BY <1>3, <1>4
<1> QED
  BY <1>0, <1>3, <1>5, <1>7, <1>8, <1>9, <1>10, CommandNow, MigrationMoves

LEMMA SeedLookStep ==
  ASSUME M!MigrationInv, M!SeedLook
  PROVE  M!MigrationInv'
<1>0. /\ Console \in M!Process /\ Console \notin Actor /\ UNCHANGED <<s1, s2, s3, s5>>
      /\ s4[Console].at = "check" /\ Preset \subseteq M!Domain
  BY MigrationConstants DEF M!Process, M!SeedLook, M!At, M!MigrationAssumption
<1>1. PICK c \in Commands : c = s4[Console]
  BY <1>0, CommandNow
<1>2. s2 \in {"added", "filled"}
  BY <1>0, CommandNow
<1>3. PICK d \in Preset : s4' = [s4 EXCEPT ![Console] = [c EXCEPT !.at = "seed", !.left = {d}]]
                         \/ s4' = [s4 EXCEPT ![Console] = [c EXCEPT !.at = "over"]]
  BY <1>1 DEF M!SeedLook, M!Becomes, M!Goto
<1>4. CASE s4' = [s4 EXCEPT ![Console] = [c EXCEPT !.at = "seed", !.left = {d}]]
  <2>1. PICK q : q = [c EXCEPT !.at = "seed", !.left = {d}]
    OBVIOUS
  <2>2. q \in Commands /\ q.at = "seed" /\ q.left \subseteq M!Domain
    BY <1>0, <2>1 DEF Commands, M!Stage
  <2> QED
    BY <1>0, <1>2, <1>4, <2>1, <2>2, MigrationTurns
<1>5. CASE s4' = [s4 EXCEPT ![Console] = [c EXCEPT !.at = "over"]]
  <2>1. PICK q : q = [c EXCEPT !.at = "over"]
    OBVIOUS
  <2>2. q \in Commands /\ q.at = "over"
    BY <2>1 DEF Commands, M!Stage
  <2> QED
    BY <1>0, <1>2, <1>5, <2>1, <2>2, MigrationTurns
<1> QED
  BY <1>3, <1>4, <1>5

(* The console's preset takes the place of a row with its key: the import   *)
(* that had put it there counts as complete still.                          *)
LEMMA SeedPutStep ==
  ASSUME M!MigrationInv, M!SeedPut
  PROVE  M!MigrationInv'
<1>0. /\ Console \in M!Process /\ Console \notin Actor /\ UNCHANGED <<s1, s2, s5>>
      /\ s4[Console].at = "seed" /\ s4[Console].left \subseteq M!Domain
  BY MigrationConstants DEF M!Process, M!SeedPut, M!At, M!MigrationAssumption, M!MigrationInv
<1>1. PICK c \in Commands : c = s4[Console]
  BY <1>0, CommandNow
<1>2. PICK mine : mine = [by |-> Console, row |-> "key"]
  OBVIOUS
<1>3. PICK d \in M!Domain : s3' = [s3 EXCEPT ![d] = {x \in s3[d] : x.row \notin {"key", "twin"}} \union {mine}]
  <2>1. M!SameKey("key") = {"key", "twin"}
    BY DEF M!SameKey
  <2>2. PICK d \in s4[Console].left :
          s3' = [s3 EXCEPT ![d] = {x \in s3[d] : x.row \notin M!SameKey("key")} \union {[by |-> Console, row |-> "key"]}]
    BY DEF M!SeedPut
  <2> QED
    BY <1>0, <1>2, <2>1, <2>2
<1>4. /\ s3 \in [M!Domain -> SUBSET [by : M!Process, row : M!Row]]
      /\ mine \in [by : M!Process, row : M!Row]
  BY <1>0, <1>2 DEF M!MigrationInv, M!TypeOK, M!Row
<1>5. /\ s3'[d] = {x \in s3[d] : x.row \notin {"key", "twin"}} \union {mine}
      /\ \A e \in M!Domain : e # d => s3'[e] = s3[e]
  BY <1>3, <1>4
<1>6. s3' \in [M!Domain -> SUBSET [by : M!Process, row : M!Row]]
  <2>1. PICK kept : kept = {x \in s3[d] : x.row \notin {"key", "twin"}} \union {mine}
    OBVIOUS
  <2>2. kept \subseteq [by : M!Process, row : M!Row]
    BY <1>4, <2>1
  <2> QED
    BY <1>3, <1>4, <2>1, <2>2
<1>7. \A e : M!Good(e)' = M!Good(e)
  BY <1>0, SourcesStay
<1>8. \A k \in Actor : M!Imported(k) => M!Imported(k)'
  <2> SUFFICES ASSUME NEW k \in Actor, M!Imported(k), NEW e \in M!Domain, NEW r \in M!Good(e)
               PROVE  r \in M!Arrived(k, e)'
    BY <1>7 DEF M!Imported
  <2>1. r \in M!Arrived(k, e)
    BY DEF M!Imported
  <2>2. CASE e # d
    BY <1>5, <1>7, <2>1, <2>2 DEF M!Arrived
  <2>3. CASE e = d /\ r \in {"key", "twin"}
    <3>1. mine \in s3'[d] /\ M!SameKey("key") = {"key", "twin"}
      BY <1>5 DEF M!SameKey
    <3> QED
      BY <1>2, <1>7, <2>3, <3>1 DEF M!Arrived
  <2>4. CASE e = d /\ r \notin {"key", "twin"}
    <3>1. M!SameKey("key") = {"key", "twin"}
      BY DEF M!SameKey
    <3>2. PICK x \in s3[d] : x.by = k /\ x.row = r
      BY <2>1, <2>4, <3>1 DEF M!Arrived
    <3>3. x \in s3'[d]
      BY <1>5, <2>4, <3>2
    <3> QED
      BY <2>4, <3>2, <3>3 DEF M!Arrived
  <2> QED
    BY <2>2, <2>3, <2>4
<1>9. \A k \in Actor : HasRows(k)' => HasRows(k) \/ M!Imported(k)'
  <2> SUFFICES ASSUME NEW k \in Actor, HasRows(k)' PROVE HasRows(k)
    OBVIOUS
  <2>1. PICK e \in M!Domain : \E x \in s3'[e] : x.by = k
    BY DEF HasRows
  <2>2. PICK x \in s3'[e] : x.by = k
    BY <2>1
  <2>3. x # mine
    BY <1>0, <1>2, <2>2
  <2>4. x \in s3[e]
    BY <1>5, <2>2, <2>3
  <2> QED
    BY <2>2, <2>4 DEF HasRows
<1>10. PICK q : q = [c EXCEPT !.at = "over", !.left = {}]
  OBVIOUS
<1>11. q \in Commands /\ q.at = "over"
  BY <1>10 DEF Commands, M!Stage
<1>12. s4' = [s4 EXCEPT ![Console] = q]
  BY <1>1, <1>10 DEF M!SeedPut, M!Becomes
<1>13. s5' \subseteq Actor /\ \A k \in s5' : k \in s5 \/ M!Imported(k)'
  BY <1>0 DEF M!MigrationInv, M!TypeOK
<1> QED
  BY <1>0, <1>6, <1>8, <1>9, <1>11, <1>12, <1>13, CommandNow, MigrationMoves

LEMMA MigrationStart == M!Init => M!MigrationInv
<1> SUFFICES ASSUME M!Init PROVE M!MigrationInv
  OBVIOUS
<1>1. M!Fresh \in Commands /\ M!Fresh.at = "out"
  BY TablesAreThere DEF Commands, M!Fresh, M!Stage
<1>2. s4 \in [M!Process -> Commands] /\ \A p \in M!Process : s4[p] = M!Fresh
  BY <1>1 DEF M!Init
<1>3. M!TypeOK
  BY <1>2 DEF M!Init, M!TypeOK, Commands
<1>4. M!SchemaBeforeRows
  BY <1>1, <1>2 DEF M!SchemaBeforeRows
<1>5. \A m \in Actor : m \in M!Process
  BY DEF M!Process
<1>6. M!MigrationIsWhole
  BY <1>1, <1>2, <1>5 DEF M!Init, M!MigrationIsWhole, M!At
<1>7. M!Sorted(M!Fresh)
  BY <1>1 DEF M!Sorted, M!Early
<1> QED
  BY <1>1, <1>2, <1>3, <1>4, <1>5, <1>6, <1>7 DEF M!MigrationInv, M!At

LEMMA MigrationNext ==
  ASSUME M!MigrationInv, [M!Next]_M!vars
  PROVE  M!MigrationInv'
<1>1. ASSUME NEW p \in M!Process, M!Die(p) PROVE M!MigrationInv'
  BY <1>1, FailStep DEF M!Die
<1>2. ASSUME UNCHANGED M!vars PROVE M!MigrationInv'
  <2>1. UNCHANGED <<s1, s2, s3, s4, s5>>
    BY <1>2 DEF M!vars
  <2>2. Console \in M!Process /\ Console \notin Actor
    BY MigrationConstants DEF M!Process, M!MigrationAssumption
  <2>3. PICK c \in Commands : c = s4[Console]
    BY <2>2, CommandNow
  <2>4. s4' = [s4 EXCEPT ![Console] = c]
    BY <2>1, <2>2, <2>3, CommandNow
  <2>5. c.at = "seed" => c.left \subseteq M!Domain
    BY <2>2, <2>3 DEF M!MigrationInv, M!At
  <2> QED
    BY <2>1, <2>2, <2>3, <2>4, <2>5, CommandNow, MigrationTurns
<1> QED
  BY <1>1, <1>2, CommandStep, SchemaSteps, ServerStartStep, CheckStep, ReadStepOfMigration, InsertStep,
     NextDomainStep, CommitStep, MarkStep, SeedLookStep, SeedPutStep DEF M!Next

(* The theorem about the migration: the target has the whole of an import   *)
(* or nothing of it, a marker only beside a whole one, no row before its    *)
(* columns, and the summary counts every row of the sources.                *)
THEOREM ImportsStayWhole == Spec => []MigrationIsWhole
<1> DEFINE Inv == part = "migration" => M!MigrationInv
<1>1. Init => Inv
  BY MigrationStart DEF Init
<1>2. Inv /\ [Next]_vars => Inv'
  <2> SUFFICES ASSUME Inv, [Next]_vars, part' = "migration" PROVE M!MigrationInv'
    OBVIOUS
  <2>1. part = "migration" /\ [M!Next]_M!vars
    BY DEF Next, vars, M!vars
  <2> QED
    BY <2>1, MigrationNext
<1>3. Inv => MigrationIsWhole
  BY DEF MigrationIsWhole, M!MigrationInv
<1> QED
  BY <1>1, <1>2, <1>3, PTL DEF Spec

-----------------------------------------------------------------------------
(* Agent                                                                    *)

UnsavedIn(h) == G!Max({0} \union {h[y].unsaved : y \in Actor})
Idling(y) == s2[y].at \in {"off", "over"}

LEMMA GreatestNumber ==
  ASSUME NEW C, C \subseteq Nat, NEW u \in C, \A v \in C : v <= u
  PROVE  G!Max(C) = u
<1>1. \A v \in C : u >= v
  OBVIOUS
<1>2. \A w \in C : (\A v \in C : w >= v) => w = u
  OBVIOUS
<1> QED
  BY <1>1, <1>2 DEF G!Max

(* The messages of the one that is not idle are all that are on their way.  *)
LEMMA OneUnsaved ==
  ASSUME NEW h \in [Actor -> G!Execution], \A y \in Actor : G!Honest(h[y]),
         NEW x \in Actor, \A y \in Actor : y # x => h[y].at \in {"off", "over"}
  PROVE  UnsavedIn(h) = h[x].unsaved
<1>1. \A y \in Actor : h[y].unsaved \in Nat /\ (y # x => h[y].unsaved = 0)
  BY DEF G!Execution, G!Honest, G!Silent
<1>2. PICK C : C = {0} \union {h[y].unsaved : y \in Actor}
  OBVIOUS
<1>3. PICK u : u = h[x].unsaved
  OBVIOUS
<1>4. C \subseteq Nat /\ u \in C /\ \A v \in C : v <= u
  BY <1>1, <1>2, <1>3
<1>5. G!Max(C) = u
  BY <1>4, GreatestNumber
<1> QED
  BY <1>2, <1>3, <1>5 DEF UnsavedIn

LEMMA OthersIdle ==
  ASSUME G!AgentInv, ~s4, NEW x \in Actor, ~Idling(x)
  PROVE  \A y \in Actor : y # x => Idling(y)
BY DEF G!AgentInv, G!Alone, Idling

(* A step of one execution, which is alone unless two met.                  *)
LEMMA AgentMoves ==
  ASSUME G!AgentInv, NEW x \in Actor, NEW q \in G!Execution, s2' = [s2 EXCEPT ![x] = q], G!Honest(q),
         s1' \in [Thing -> Seq(G!Message) \union {None}], s3' \in Seq(G!Message), s4' \in BOOLEAN,
         ~s4' => /\ \A y \in Actor : y # x => Idling(y)
                 /\ \A s, t \in G!Files' : s = t
                 /\ G!Files' = {} => s3' = <<>>
                 /\ \A s \in G!Files' : /\ q.unsaved <= Len(s3')
                                        /\ s1'[s] = SubSeq(s3', 1, Len(s3') - q.unsaved)
                 /\ G!Follows(q)'
  PROVE  G!AgentInv'
<1>1. s2 \in [Actor -> G!Execution] /\ \A y \in Actor : G!Honest(s2[y])
  BY DEF G!AgentInv, G!TypeOK
<1>2. s2' \in [Actor -> G!Execution] /\ s2'[x] = q /\ \A y \in Actor : y # x => s2'[y] = s2[y]
  BY <1>1
<1>3. \A y \in Actor : G!Honest(s2'[y])
  BY <1>1, <1>2
<1>4. G!TypeOK'
  BY <1>2 DEF G!TypeOK
<1>5. ASSUME ~s4' PROVE G!Alone' /\ \A y \in Actor : G!Follows(s2[y])'
  <2>1. \A y \in Actor : y # x => s2'[y].at \in {"off", "over"}
    BY <1>2, <1>5 DEF Idling
  <2>2. G!Unsaved' = q.unsaved
    <3>1. PICK h : h = s2'
      OBVIOUS
    <3>2. /\ h \in [Actor -> G!Execution] /\ \A y \in Actor : G!Honest(h[y])
          /\ \A y \in Actor : y # x => h[y].at \in {"off", "over"}
      BY <1>2, <1>3, <2>1, <3>1
    <3>3. UnsavedIn(h) = h[x].unsaved
      BY <3>2, OneUnsaved
    <3> QED
      BY <1>2, <3>1, <3>3 DEF G!Unsaved, UnsavedIn
  <2>3. G!Alone'
    BY <1>5, <2>1, <2>2 DEF G!Alone
  <2>4. \A y \in Actor : G!Follows(s2[y])'
    <3> SUFFICES ASSUME NEW y \in Actor PROVE G!Follows(s2[y])'
      OBVIOUS
    <3>1. CASE y = x
      BY <1>2, <1>5, <3>1 DEF G!Follows
    <3>2. CASE y # x
      BY <2>1, <3>2 DEF G!Follows, G!Silent
    <3> QED
      BY <3>1, <3>2
  <2> QED
    BY <2>3, <2>4
<1> QED
  BY <1>3, <1>4, <1>5 DEF G!AgentInv

LEMMA PartOfSeq ==
  ASSUME NEW A, NEW s \in Seq(A), NEW a \in Nat, NEW b \in Nat, a <= b, b <= Len(s)
  PROVE  /\ SubSeq(s, a + 1, b) \in Seq(A) /\ Len(SubSeq(s, a + 1, b)) = b - a
         /\ \A i \in 1..(b - a) : SubSeq(s, a + 1, b)[i] = s[a + i]
<1>1. SubSeq(s, a + 1, b) = [i \in 1..(b - a) |-> s[a + i]]
  <2>1. \A i \in 1..(b - a) : i + (a + 1) - 1 = a + i
    OBVIOUS
  <2>2. 1 + b - (a + 1) = b - a
    OBVIOUS
  <2> QED
    BY <2>1, <2>2
<1>2. b - a \in Nat /\ \A i \in 1..(b - a) : a + i \in 1..Len(s)
  OBVIOUS
<1>3. \A i \in 1..(b - a) : s[a + i] \in A
  BY <1>2, ElementOfSeq
<1>4. PICK f : f = [i \in 1..(b - a) |-> s[a + i]]
  OBVIOUS
<1>5. PICK n \in Nat : n = b - a
  BY <1>2
<1>6. f \in [1..n -> A] /\ \A i \in 1..n : f[i] = s[a + i]
  BY <1>3, <1>4, <1>5
<1>7. f \in Seq(A) /\ Len(f) = n
  BY <1>5, <1>6
<1> QED
  BY <1>1, <1>4, <1>5, <1>6, <1>7

LEMMA SameSeq ==
  ASSUME NEW A, NEW s \in Seq(A), NEW t \in Seq(A), Len(s) = Len(t), \A i \in 1..Len(s) : s[i] = t[i]
  PROVE  s = t
BY SeqEqual

\* the last part of a sequence grows with it
LEMMA EndGrows ==
  ASSUME NEW A, NEW s \in Seq(A), NEW m \in A, NEW a \in Nat, a <= Len(s)
  PROVE  SubSeq(Append(s, m), a + 1, Len(s) + 1) = Append(SubSeq(s, a + 1, Len(s)), m)
<1>0. Len(s) \in Nat
  OBVIOUS
<1>1. PICK t : t = Append(s, m)
  OBVIOUS
<1>2. t \in Seq(A) /\ Len(t) = Len(s) + 1 /\ t[Len(s) + 1] = m /\ \A i \in 1..Len(s) : t[i] = s[i]
  BY <1>1
<1>3. PICK p, q : p = SubSeq(t, a + 1, Len(s) + 1) /\ q = SubSeq(s, a + 1, Len(s))
  OBVIOUS
<1>4. PICK l : l = Len(s) + 1
  OBVIOUS
<1>5. /\ p \in Seq(A) /\ Len(p) = l - a /\ \A i \in 1..(l - a) : p[i] = t[a + i]
  <2>1. l \in Nat /\ a <= l /\ l <= Len(t)
    BY <1>0, <1>2, <1>4
  <2>2. p = SubSeq(t, a + 1, l)
    BY <1>3, <1>4
  <2> QED
    BY <1>2, <2>1, <2>2, PartOfSeq
<1>6. /\ q \in Seq(A) /\ Len(q) = Len(s) - a /\ \A i \in 1..(Len(s) - a) : q[i] = s[a + i]
  BY <1>0, <1>3, PartOfSeq
<1>7. PICK r : r = Append(q, m)
  OBVIOUS
<1>8. r \in Seq(A) /\ Len(r) = Len(q) + 1 /\ r[Len(q) + 1] = m /\ \A i \in 1..Len(q) : r[i] = q[i]
  BY <1>6, <1>7
<1>9. Len(p) = Len(r) /\ Len(p) \in Nat
  BY <1>0, <1>4, <1>5, <1>6, <1>8
<1>10. \A i \in 1..Len(p) : p[i] = r[i]
  <2> SUFFICES ASSUME NEW i \in 1..Len(p) PROVE p[i] = r[i]
    OBVIOUS
  <2>1. p[i] = t[a + i]
    BY <1>5
  <2>2. CASE i = Len(p)
    <3>1. a + i = Len(s) + 1 /\ i = Len(q) + 1
      BY <1>0, <1>4, <1>5, <1>6, <2>2
    <3> QED
      BY <1>2, <1>8, <2>1, <3>1
  <2>3. CASE i # Len(p)
    <3>0. PICK n \in Nat : n = Len(s)
      BY <1>0
    <3>a. Len(p) = n + 1 - a /\ Len(q) = n - a /\ n - a \in Nat
      BY <1>4, <1>5, <1>6, <3>0
    <3>b. i \in 1..(n - a) /\ a + i \in 1..n
      BY <1>9, <2>3, <3>a
    <3>1. i \in 1..(Len(s) - a) /\ a + i \in 1..Len(s) /\ i \in 1..Len(q)
      BY <3>0, <3>a, <3>b
    <3> QED
      BY <1>2, <1>6, <1>8, <2>1, <3>1
  <2> QED
    BY <2>2, <2>3
<1>11. p = r
  BY <1>5, <1>8, <1>9, <1>10, SameSeq
<1> QED
  BY <1>1, <1>3, <1>7, <1>11

\* the first part does not see what is appended
LEMMA StartStays ==
  ASSUME NEW A, NEW s \in Seq(A), NEW m \in A, NEW k \in Nat, k <= Len(s)
  PROVE  SubSeq(Append(s, m), 1, k) = SubSeq(s, 1, k)
<1>1. PICK t : t = Append(s, m)
  OBVIOUS
<1>2. t \in Seq(A) /\ Len(t) = Len(s) + 1 /\ \A i \in 1..Len(s) : t[i] = s[i]
  BY <1>1
<1>3. \A i \in 1..k : i \in 1..Len(s)
  OBVIOUS
<1>4. SubSeq(t, 1, k) = [i \in 1..k |-> t[i]] /\ SubSeq(s, 1, k) = [i \in 1..k |-> s[i]]
  OBVIOUS
<1> QED
  BY <1>1, <1>2, <1>3, <1>4

\* and grows by the next of the sequence
LEMMA StartGrows ==
  ASSUME NEW A, NEW s \in Seq(A), NEW k \in Nat, k + 1 <= Len(s)
  PROVE  Append(SubSeq(s, 1, k), s[k + 1]) = SubSeq(s, 1, k + 1)
<1>0. 0 \in Nat /\ k + 1 \in Nat /\ k + 1 \in 1..Len(s) /\ s[k + 1] \in A
  <2>1. k + 1 \in 1..Len(s)
    OBVIOUS
  <2> QED
    BY <2>1, ElementOfSeq
<1>1. PICK p : p = SubSeq(s, 1, k)
  OBVIOUS
<1>2. PICK t : t = SubSeq(s, 1, k + 1)
  OBVIOUS
<1>3. p \in Seq(A) /\ Len(p) = k /\ \A i \in 1..k : p[i] = s[i]
  <2>1. SubSeq(s, 0 + 1, k) \in Seq(A) /\ Len(SubSeq(s, 0 + 1, k)) = k - 0
        /\ \A i \in 1..(k - 0) : SubSeq(s, 0 + 1, k)[i] = s[0 + i]
    BY <1>0, PartOfSeq
  <2> QED
    BY <1>1, <2>1
<1>4. t \in Seq(A) /\ Len(t) = k + 1 /\ \A i \in 1..(k + 1) : t[i] = s[i]
  <2>0. PICK l : l = k + 1
    OBVIOUS
  <2>1. SubSeq(s, 0 + 1, l) \in Seq(A) /\ Len(SubSeq(s, 0 + 1, l)) = l - 0
        /\ \A i \in 1..(l - 0) : SubSeq(s, 0 + 1, l)[i] = s[0 + i]
    BY <1>0, <2>0, PartOfSeq
  <2> QED
    BY <1>0, <1>2, <2>0, <2>1
<1>5. PICK r : r = Append(p, s[k + 1])
  OBVIOUS
<1>6. r \in Seq(A) /\ Len(r) = k + 1 /\ r[k + 1] = s[k + 1] /\ \A i \in 1..k : r[i] = p[i]
  BY <1>0, <1>3, <1>5
<1>7. \A i \in 1..(k + 1) : r[i] = t[i]
  <2>1. \A i \in 1..(k + 1) : i \in 1..k \/ i = k + 1
    OBVIOUS
  <2> QED
    BY <1>3, <1>4, <1>6, <2>1
<1>8. r = t
  BY <1>4, <1>6, <1>7, SameSeq
<1> QED
  BY <1>1, <1>2, <1>5, <1>8

(* What an execution is before a step.                                      *)
LEMMA ExecutionNow ==
  ASSUME G!AgentInv, NEW x \in Actor
  PROVE  /\ s2[x] \in G!Execution /\ G!Honest(s2[x]) /\ s2 \in [Actor -> G!Execution]
         /\ s1 \in [Thing -> Seq(G!Message) \union {None}] /\ s3 \in Seq(G!Message) /\ s4 \in BOOLEAN
         /\ ~s4 => /\ G!Follows(s2[x])
                   /\ \A s, t \in G!Files : s = t
                   /\ G!Files = {} => s3 = <<>>
BY DEF G!AgentInv, G!TypeOK, G!Alone

LEMMA FileNow ==
  ASSUME G!AgentInv, NEW x \in Actor, ~s4, \A y \in Actor : y # x => Idling(y)
  PROVE  \A s \in G!Files : /\ s2[x].unsaved <= Len(s3)
                            /\ s1[s] = SubSeq(s3, 1, Len(s3) - s2[x].unsaved)
<1>1. PICK h : h = s2
  OBVIOUS
<1>2. /\ h \in [Actor -> G!Execution] /\ \A y \in Actor : G!Honest(h[y])
      /\ \A y \in Actor : y # x => h[y].at \in {"off", "over"}
  BY <1>1 DEF G!AgentInv, G!TypeOK, Idling
<1>3. UnsavedIn(h) = h[x].unsaved
  BY <1>2, OneUnsaved
<1>4. G!Unsaved = s2[x].unsaved
  BY <1>1, <1>3 DEF UnsavedIn, G!Unsaved
<1> QED
  BY <1>4 DEF G!AgentInv, G!Alone

(* A step that leaves the files and the story alone.                        *)
LEMMA AgentTurns ==
  ASSUME G!AgentInv, NEW x \in Actor, NEW q \in G!Execution, s2' = [s2 EXCEPT ![x] = q], G!Honest(q),
         UNCHANGED <<s1, s3, s4>>, q.unsaved = s2[x].unsaved,
         ~s4 => /\ \A y \in Actor : y # x => Idling(y)
                /\ G!Follows(q)
  PROVE  G!AgentInv'
<1>1. /\ s1' \in [Thing -> Seq(G!Message) \union {None}] /\ s3' \in Seq(G!Message) /\ s4' \in BOOLEAN
  BY ExecutionNow
<1>2. G!Files' = G!Files
  BY DEF G!Files
<1>3. G!Follows(q)' <=> G!Follows(q)
  BY <1>2 DEF G!Follows
<1>4. ~s4' => /\ \A y \in Actor : y # x => Idling(y)
              /\ \A s, t \in G!Files' : s = t
              /\ G!Files' = {} => s3' = <<>>
              /\ \A s \in G!Files' : /\ q.unsaved <= Len(s3')
                                     /\ s1'[s] = SubSeq(s3', 1, Len(s3') - q.unsaved)
              /\ G!Follows(q)'
  BY <1>2, <1>3, ExecutionNow, FileNow
<1> QED
  BY <1>1, <1>4, AgentMoves

LEMMA OffAndOver ==
  /\ G!Off \in G!Execution /\ G!Off.at = "off" /\ G!Off.unsaved = 0 /\ G!Off.lost = 0 /\ G!Off.thrown = 0
  /\ G!Off.cost = 0 /\ G!Off.due = 0 /\ G!Off.result = None
  /\ G!Over \in G!Execution /\ G!Over.at = "over" /\ G!Over.unsaved = 0 /\ G!Over.lost = 0 /\ G!Over.thrown = 0
  /\ G!Over.cost = 0 /\ G!Over.due = 0 /\ G!Over.result = None
<1>1. <<>> \in Seq(G!Message)
  OBVIOUS
<1>2. /\ G!Off \in G!Execution /\ G!Off.at = "off" /\ G!Off.unsaved = 0 /\ G!Off.lost = 0 /\ G!Off.thrown = 0
      /\ G!Off.cost = 0 /\ G!Off.due = 0 /\ G!Off.result = None
  BY <1>1 DEF G!Off, G!Execution
<1>3. G!Over = [G!Off EXCEPT !.at = "over"]
  BY DEF G!Over
<1> QED
  BY <1>2, <1>3 DEF G!Execution

LEMMA OverIsHonest == G!Honest(G!Over) /\ (G!Follows(G!Over))
<1>1. G!Over.result # "done"
  BY OffAndOver, AgentConstants DEF G!AgentAssumption
<1> QED
  BY <1>1, OffAndOver DEF G!Honest, G!Follows, G!Silent

LEMMA StartStep ==
  ASSUME G!AgentInv, NEW x \in Actor, NEW anew \in BOOLEAN, NEW first \in BOOLEAN, G!Start(x, anew, first)
  PROVE  G!AgentInv'
<1>1. PICK q : q = [G!Off EXCEPT !.at = IF anew THEN "forget" ELSE "prepare", !.anew = first]
  OBVIOUS
<1>2. /\ q \in G!Execution /\ q.at \in {"forget", "prepare"} /\ q.unsaved = 0 /\ q.lost = 0 /\ q.thrown = 0
      /\ q.cost = 0 /\ q.due = 0
  BY <1>1, OffAndOver DEF G!Execution
<1>3. G!Honest(q)
  BY <1>2 DEF G!Honest
<1>4. /\ s2' = [s2 EXCEPT ![x] = q] /\ s1' = s1 /\ s4' = (s4 \/ G!Others(x) # {})
      /\ s3' = IF s4' THEN <<>> ELSE s3
  BY <1>1 DEF G!Start, G!Becomes
<1>5. s1' \in [Thing -> Seq(G!Message) \union {None}] /\ s3' \in Seq(G!Message) /\ s4' \in BOOLEAN
  <2>1. (s4 \/ G!Others(x) # {}) \in BOOLEAN
    BY ExecutionNow
  <2> QED
    BY <1>4, <2>1, ExecutionNow
<1>6. ASSUME ~s4'
      PROVE  /\ \A y \in Actor : y # x => Idling(y)
             /\ \A s, t \in G!Files' : s = t
             /\ G!Files' = {} => s3' = <<>>
             /\ \A s \in G!Files' : /\ q.unsaved <= Len(s3')
                                    /\ s1'[s] = SubSeq(s3', 1, Len(s3') - q.unsaved)
             /\ G!Follows(q)'
  <2>1. ~s4 /\ G!Others(x) = {} /\ s3' = s3
    BY <1>4, <1>6
  <2>2. \A y \in Actor : y # x => Idling(y)
    BY <2>1 DEF G!Others, Idling
  <2>3. G!Files' = G!Files
    BY <1>4 DEF G!Files
  <2>4. s2[x].unsaved = 0
    BY ExecutionNow DEF G!Start, G!At, G!Honest, G!Silent
  <2>5. G!Follows(q)'
    BY <1>2 DEF G!Follows, G!Silent
  <2> QED
    BY <1>2, <1>4, <2>1, <2>2, <2>3, <2>4, <2>5, ExecutionNow, FileNow
<1> QED
  BY <1>2, <1>3, <1>4, <1>5, <1>6, AgentMoves

LEMMA ForgetStep ==
  ASSUME G!AgentInv, NEW x \in Actor, G!Forget(x)
  PROVE  G!AgentInv'
<1>1. PICK c \in G!Execution : c = s2[x] /\ G!Honest(c) /\ c.at = "forget"
  BY ExecutionNow DEF G!Forget, G!At
<1>2. PICK q : q = [c EXCEPT !.at = "prepare"]
  OBVIOUS
<1>3. q \in G!Execution /\ q.at = "prepare" /\ q.unsaved = 0 /\ q.lost = c.lost /\ q.thrown = c.thrown /\ q.cost = c.cost /\ q.due = c.due
  BY <1>1, <1>2 DEF G!Execution, G!Honest, G!Silent
<1>4. G!Honest(q)
  BY <1>1, <1>3 DEF G!Honest
<1>5. /\ s2' = [s2 EXCEPT ![x] = q] /\ s1' = [s \in Thing |-> None] /\ s4' = (G!Others(x) # {})
      /\ s3' = <<>>
  BY <1>1, <1>2 DEF G!Forget, G!Goto, G!Becomes
<1>6. s1' \in [Thing -> Seq(G!Message) \union {None}] /\ s3' \in Seq(G!Message) /\ s4' \in BOOLEAN
  BY <1>5
<1>7. G!Files' = {}
  BY <1>5 DEF G!Files
<1>8. ~s4' => \A y \in Actor : y # x => Idling(y)
  BY <1>5 DEF G!Others, Idling
<1>9. G!Follows(q)'
  BY <1>3 DEF G!Follows, G!Silent
<1> QED
  BY <1>3, <1>4, <1>5, <1>6, <1>7, <1>8, <1>9, AgentMoves

\* over, from wherever with nothing unsaved
LEMMA GoesOver ==
  ASSUME G!AgentInv, NEW x \in Actor, ~Idling(x), s2[x].unsaved = 0, UNCHANGED <<s1, s3, s4>>,
         s2' = [s2 EXCEPT ![x] = G!Over]
  PROVE  G!AgentInv'
<1>1. PICK q : q = G!Over
  OBVIOUS
<1>2. q \in G!Execution /\ q.unsaved = s2[x].unsaved /\ G!Honest(q) /\ G!Follows(q)
  BY <1>1, OffAndOver, OverIsHonest
<1>3. ~s4 => /\ \A y \in Actor : y # x => Idling(y)
             /\ G!Follows(q)
  BY <1>2, OthersIdle
<1> QED
  BY <1>1, <1>2, <1>3, AgentTurns

LEMMA PrepareStep ==
  ASSUME G!AgentInv, NEW x \in Actor, G!Prepare(x)
  PROVE  G!AgentInv'
<1>1. PICK c \in G!Execution : c = s2[x] /\ G!Honest(c) /\ c.at = "prepare"
  BY ExecutionNow DEF G!Prepare, G!At
<1>2. ~Idling(x) /\ UNCHANGED <<s1, s3, s4>> /\ c.unsaved = 0
  BY <1>1 DEF Idling, G!Prepare, G!Honest, G!Silent
<1>3. CASE s2' = [s2 EXCEPT ![x] = G!Over]
  BY <1>1, <1>2, <1>3, GoesOver
<1>4. CASE s2' = [s2 EXCEPT ![x] = [c EXCEPT !.at = "open"]]
  <2>1. PICK q : q = [c EXCEPT !.at = "open"]
    OBVIOUS
  <2>2. q \in G!Execution /\ q.at = "open" /\ q.unsaved = c.unsaved /\ q.lost = c.lost /\ q.thrown = c.thrown /\ q.cost = c.cost /\ q.due = c.due
    BY <1>1, <2>1 DEF G!Execution
  <2>3. G!Honest(q)
    BY <1>1, <1>2, <2>2 DEF G!Honest
  <2>4. ~s4 => /\ \A y \in Actor : y # x => Idling(y)
               /\ G!Follows(q)
    BY <1>2, <2>2, OthersIdle DEF G!Follows, G!Silent
  <2> QED
    BY <1>1, <1>2, <1>4, <2>1, <2>2, <2>3, <2>4, AgentTurns
<1> QED
  BY <1>1, <1>3, <1>4 DEF G!Prepare, G!Goto, G!Becomes

LEMMA OpenStep ==
  ASSUME G!AgentInv, NEW x \in Actor, G!Open(x)
  PROVE  G!AgentInv'
<1>1. PICK c \in G!Execution : c = s2[x] /\ G!Honest(c) /\ c.at = "open"
  BY ExecutionNow DEF G!Open, G!At
<1>2. ~Idling(x) /\ UNCHANGED <<s1, s3, s4>> /\ c.unsaved = 0
  BY <1>1 DEF Idling, G!Open, G!Honest, G!Silent
<1>3. CASE G!Files = {} /\ s2' = [s2 EXCEPT ![x] = [c EXCEPT !.at = "create"]]
  <2>1. PICK q : q = [c EXCEPT !.at = "create"]
    OBVIOUS
  <2>2. q \in G!Execution /\ q.at = "create" /\ q.unsaved = c.unsaved /\ q.lost = c.lost /\ q.thrown = c.thrown /\ q.cost = c.cost /\ q.due = c.due
    BY <1>1, <2>1 DEF G!Execution
  <2>3. G!Honest(q)
    BY <1>1, <1>2, <2>2 DEF G!Honest
  <2>4. ~s4 => /\ \A y \in Actor : y # x => Idling(y)
               /\ G!Follows(q)
    BY <1>2, <1>3, <2>2, OthersIdle DEF G!Follows, G!Silent
  <2> QED
    BY <1>1, <1>2, <1>3, <2>1, <2>2, <2>3, <2>4, AgentTurns
<1>4. ASSUME NEW s \in G!Files, s2' = [s2 EXCEPT ![x] = [c EXCEPT !.sid = s, !.at = "load"]]
      PROVE  G!AgentInv'
  <2>1. PICK q : q = [c EXCEPT !.sid = s, !.at = "load"]
    OBVIOUS
  <2>2. /\ q \in G!Execution /\ q.at = "load" /\ q.sid = s /\ s \in Thing /\ q.unsaved = c.unsaved
        /\ q.lost = c.lost /\ q.thrown = c.thrown /\ q.cost = c.cost /\ q.due = c.due
    <3>1. s \in Thing
      BY DEF G!Files
    <3> QED
      BY <1>1, <2>1, <3>1 DEF G!Execution
  <2>3. G!Honest(q)
    BY <1>1, <1>2, <2>2 DEF G!Honest
  <2>4. ~s4 => /\ \A y \in Actor : y # x => Idling(y)
               /\ G!Follows(q)
    BY <1>2, <2>2, OthersIdle DEF G!Follows, G!Silent
  <2> QED
    BY <1>1, <1>2, <1>4, <2>1, <2>2, <2>3, <2>4, AgentTurns
<1> QED
  BY <1>1, <1>3, <1>4 DEF G!Open, G!Goto, G!Becomes

LEMMA CreateStep ==
  ASSUME G!AgentInv, NEW x \in Actor, G!Create(x)
  PROVE  G!AgentInv'
<1>1. PICK c \in G!Execution : c = s2[x] /\ G!Honest(c) /\ c.at = "create"
  BY ExecutionNow DEF G!Create, G!At
<1>2. ~Idling(x) /\ UNCHANGED <<s3, s4>> /\ c.unsaved = 0
  BY <1>1 DEF Idling, G!Create, G!Honest, G!Silent
<1>3. PICK s \in Thing : /\ s1' = [s1 EXCEPT ![s] = <<>>]
                         /\ s2' = [s2 EXCEPT ![x] = [c EXCEPT !.sid = s, !.at = "load"]]
  BY <1>1 DEF G!Create, G!Becomes
<1>4. PICK q : q = [c EXCEPT !.sid = s, !.at = "load"]
  OBVIOUS
<1>5. /\ q \in G!Execution /\ q.at = "load" /\ q.sid = s /\ q.unsaved = 0
      /\ q.lost = c.lost /\ q.thrown = c.thrown /\ q.cost = c.cost /\ q.due = c.due
  BY <1>1, <1>2, <1>4 DEF G!Execution
<1>6. G!Honest(q)
  BY <1>1, <1>3, <1>5 DEF G!Honest
<1>7. /\ s1' \in [Thing -> Seq(G!Message) \union {None}] /\ s3' \in Seq(G!Message) /\ s4' \in BOOLEAN
      /\ s1'[s] = <<>> /\ \A t \in Thing : t # s => s1'[t] = s1[t]
  BY <1>2, <1>3, ExecutionNow
<1>8. <<>> # None
  <2>1. <<>> \in Seq(G!Message) /\ None \notin Seq(G!Message)
    BY AgentConstants DEF G!AgentAssumption
  <2> QED
    BY <2>1
<1>9. ASSUME ~s4'
      PROVE  /\ \A y \in Actor : y # x => Idling(y)
             /\ \A u, t \in G!Files' : u = t
             /\ G!Files' = {} => s3' = <<>>
             /\ \A t \in G!Files' : /\ q.unsaved <= Len(s3')
                                    /\ s1'[t] = SubSeq(s3', 1, Len(s3') - q.unsaved)
             /\ G!Follows(q)'
  <2>1. ~s4 /\ G!Files = {} /\ s3' = <<>>
    BY <1>1, <1>2, <1>9, ExecutionNow DEF G!Follows
  <2>2. G!Files' = {s}
    BY <1>7, <1>8, <2>1 DEF G!Files
  <2>3. SubSeq(s3', 1, Len(s3') - q.unsaved) = <<>> /\ q.unsaved <= Len(s3')
    <3>1. Len(<<>>) - 0 = 0 /\ SubSeq(<<>>, 1, 0) = <<>> /\ 0 <= Len(<<>>)
      OBVIOUS
    <3> QED
      BY <1>5, <2>1, <3>1
  <2>4. G!Follows(q)'
    BY <1>5, <2>2 DEF G!Follows, G!Silent
  <2> QED
    BY <1>2, <1>7, <2>1, <2>2, <2>3, <2>4, OthersIdle
<1> QED
  BY <1>3, <1>4, <1>5, <1>6, <1>7, <1>9, AgentMoves

(* The agent ends a message.                                                *)
LEMMA SayStep ==
  ASSUME G!AgentInv, NEW x \in Actor, NEW r \in G!Execution, NEW m \in G!Message,
         ~Idling(x), G!Say(x, m, r), UNCHANGED <<s1, s4>>,
         r.at \in {"model", "tool", "turn", "stop"}, r.unsaved = s2[x].unsaved,
         r.at = "stop" => m \in {"text", "failed"}, r.lost = r.thrown, r.cost = r.due,
         ~s4 => /\ r.sid \in G!Files /\ r.from <= Len(s3) /\ r.unsaved <= Len(r.mem)
                /\ r.mem = SubSeq(s3, r.from + 1, Len(s3))
  PROVE  G!AgentInv'
<1>0. /\ s3 \in Seq(G!Message) /\ s1 \in [Thing -> Seq(G!Message) \union {None}] /\ s4 \in BOOLEAN
      /\ r.mem \in Seq(G!Message) /\ r.unsaved \in Nat /\ r.from \in Nat
  BY ExecutionNow DEF G!Execution
<1>1. CASE s4
  <2>0. PICK mem : mem = <<m>>
    OBVIOUS
  <2>a. mem \in Seq(G!Message)
    BY <2>0
  <2>1. PICK q : q = [r EXCEPT !.mem = mem]
    OBVIOUS
  <2>2. /\ q \in G!Execution /\ q.at = r.at /\ q.lost = q.thrown /\ q.cost = q.due
        /\ q.mem = mem
    BY <2>1, <2>a DEF G!Execution
  <2>3. G!Last(q.mem) = m
    BY <2>0, <2>2 DEF G!Last
  <2>4. G!Honest(q)
    BY <2>2, <2>3 DEF G!Honest, G!Silent
  <2>5. s2' = [s2 EXCEPT ![x] = q] /\ s3' = s3
    BY <1>1, <2>0, <2>1 DEF G!Say, G!Becomes
  <2>6. s1' \in [Thing -> Seq(G!Message) \union {None}] /\ s3' \in Seq(G!Message) /\ s4' \in BOOLEAN /\ s4'
    BY <1>0, <1>1, <2>5
  <2> QED
    BY <2>2, <2>4, <2>5, <2>6, AgentMoves
<1>2. CASE ~s4
  <2>0. PICK mem : mem = Append(r.mem, m)
    OBVIOUS
  <2>a. mem \in Seq(G!Message)
    BY <1>0, <2>0
  <2>1. PICK q : q = [r EXCEPT !.mem = mem, !.unsaved = r.unsaved + 1]
    OBVIOUS
  <2>2. /\ q \in G!Execution /\ q.at = r.at /\ q.lost = q.thrown /\ q.cost = q.due /\ q.sid = r.sid
        /\ q.mem = mem /\ q.unsaved = r.unsaved + 1 /\ q.from = r.from
    <3>1. r.unsaved + 1 \in Nat
      BY <1>0
    <3> QED
      BY <2>1, <2>a, <3>1 DEF G!Execution
  <2>3. G!Last(q.mem) = m /\ Len(mem) = Len(r.mem) + 1
    BY <1>0, <2>0, <2>2 DEF G!Last
  <2>4. G!Honest(q)
    BY <2>2, <2>3 DEF G!Honest, G!Silent
  <2>5. s2' = [s2 EXCEPT ![x] = q] /\ s3' = Append(s3, m)
    BY <1>2, <2>0, <2>1 DEF G!Say, G!Becomes
  <2>6. /\ s1' \in [Thing -> Seq(G!Message) \union {None}] /\ s3' \in Seq(G!Message) /\ s4' \in BOOLEAN
        /\ Len(s3') = Len(s3) + 1
    BY <1>0, <2>5
  <2>7. G!Files' = G!Files
    BY DEF G!Files
  <2>8. mem = SubSeq(s3', r.from + 1, Len(s3'))
    <3>1. PICK a \in Nat : a = r.from
      BY <1>0
    <3>2. a <= Len(s3)
      BY <1>2, <3>1
    <3>3. SubSeq(Append(s3, m), a + 1, Len(s3) + 1) = Append(SubSeq(s3, a + 1, Len(s3)), m)
      BY <1>0, <3>2, EndGrows
    <3> QED
      BY <1>2, <2>0, <2>5, <2>6, <3>1, <3>3
  <2>9. G!Follows(q)'
    <3>1. q.sid \in G!Files' /\ q.from <= Len(s3')
      BY <1>0, <1>2, <2>2, <2>6, <2>7
    <3>2. q.unsaved <= Len(q.mem)
      BY <1>0, <1>2, <2>2, <2>3
    <3>3. q.mem = SubSeq(s3', q.from + 1, Len(s3'))
      BY <2>2, <2>8
    <3> QED
      BY <2>2, <3>1, <3>2, <3>3 DEF G!Follows
  <2>10. \A s \in G!Files' : /\ q.unsaved <= Len(s3')
                             /\ s1'[s] = SubSeq(s3', 1, Len(s3') - q.unsaved)
    <3> SUFFICES ASSUME NEW s \in G!Files
                 PROVE  q.unsaved <= Len(s3') /\ s1[s] = SubSeq(s3', 1, Len(s3') - q.unsaved)
      BY <2>7
    <3>1. r.unsaved <= Len(s3) /\ s1[s] = SubSeq(s3, 1, Len(s3) - r.unsaved)
      BY <1>2, OthersIdle, FileNow
    <3>2. PICK k \in Nat : k = Len(s3) - r.unsaved
      BY <1>0, <3>1
    <3>3. k <= Len(s3) /\ Len(s3') - q.unsaved = k /\ q.unsaved <= Len(s3')
      BY <1>0, <2>2, <2>6, <3>1, <3>2
    <3>4. SubSeq(s3', 1, k) = SubSeq(s3, 1, k)
      BY <1>0, <2>5, <3>3, StartStays
    <3> QED
      BY <3>1, <3>2, <3>3, <3>4
  <2>11. s3' # <<>> /\ G!Files' # {} /\ \A s, t \in G!Files' : s = t
    BY <1>2, <2>5, <2>6, <2>7, ExecutionNow
  <2>12. \A y \in Actor : y # x => Idling(y)
    BY <1>2, OthersIdle
  <2> QED
    BY <2>2, <2>4, <2>5, <2>6, <2>9, <2>10, <2>11, <2>12, AgentMoves
<1> QED
  BY <1>0, <1>1, <1>2

LEMMA PromptStep ==
  ASSUME G!AgentInv, NEW x \in Actor, G!Prompt(x)
  PROVE  G!AgentInv'
<1>1. PICK c \in G!Execution : c = s2[x] /\ G!Honest(c) /\ c.at = "load"
  BY ExecutionNow DEF G!Prompt, G!At
<1>2. ~Idling(x) /\ UNCHANGED <<s1, s4>> /\ c.unsaved = 0 /\ c.sid \in Thing
  BY <1>1 DEF Idling, G!Prompt, G!Honest, G!Silent
<1>3. PICK loaded, from : /\ loaded = IF c.anew THEN <<>> ELSE G!OnDisk(x)
                          /\ from = IF c.anew THEN Len(s3) ELSE 0
  OBVIOUS
<1>4. PICK r : r = [c EXCEPT !.at = "model", !.mem = loaded, !.n = c.n + 1, !.turns = 0,
                             !.cost = 0, !.due = 0, !.from = from]
  OBVIOUS
<1>5. G!Say(x, "ask", r)
  BY <1>1, <1>3, <1>4 DEF G!Prompt
<1>6. s3 \in Seq(G!Message) /\ s1 \in [Thing -> Seq(G!Message) \union {None}] /\ Len(s3) \in Nat
  BY ExecutionNow
<1>7. loaded \in Seq(G!Message) /\ from \in Nat /\ from <= Len(s3)
  <2>1. <<>> \in Seq(G!Message)
    OBVIOUS
  <2>2. G!OnDisk(x) \in Seq(G!Message)
    BY <1>1, <1>2, <1>6, <2>1 DEF G!OnDisk
  <2> QED
    BY <1>3, <1>6, <2>1, <2>2
<1>8. /\ r \in G!Execution /\ r.at = "model" /\ r.mem = loaded /\ r.from = from /\ r.sid = c.sid
      /\ r.unsaved = 0 /\ r.lost = r.thrown /\ r.cost = 0 /\ r.due = 0
  <2>1. c.n + 1 \in Nat
    BY DEF G!Execution
  <2> QED
    BY <1>1, <1>2, <1>4, <1>7, <2>1 DEF G!Execution, G!Honest
<1>9. ASSUME ~s4
      PROVE  /\ r.sid \in G!Files /\ r.from <= Len(s3) /\ r.unsaved <= Len(r.mem)
             /\ r.mem = SubSeq(s3, r.from + 1, Len(s3))
  <2>1. c.sid \in G!Files
    BY <1>1, <1>9, ExecutionNow DEF G!Follows
  <2>2. loaded = SubSeq(s3, from + 1, Len(s3))
    <3>1. CASE c.anew
      <4>1. PICK l \in Nat : l = Len(s3)
        BY <1>6
      <4>2. PICK p : p = SubSeq(s3, l + 1, l)
        OBVIOUS
      <4>3. l - l = 0 /\ l <= l /\ l <= Len(s3)
        BY <4>1
      <4>4. p \in Seq(G!Message) /\ Len(p) = 0
        BY <1>6, <4>2, <4>3, PartOfSeq
      <4>5. p = <<>>
        BY <4>4
      <4> QED
        BY <1>3, <3>1, <4>1, <4>2, <4>5
    <3>2. CASE ~c.anew
      <4>1. s1[c.sid] # None
        BY <2>1 DEF G!Files
      <4>2. s1[c.sid] = SubSeq(s3, 1, Len(s3) - 0)
        BY <1>1, <1>2, <1>9, <2>1, OthersIdle, FileNow
      <4>3. loaded = s1[c.sid] /\ from = 0 /\ Len(s3) - 0 = Len(s3) /\ from + 1 = 1
        BY <1>1, <1>3, <1>6, <3>2, <4>1 DEF G!OnDisk
      <4> QED
        BY <4>2, <4>3
    <3> QED
      BY <3>1, <3>2
  <2>3. 0 <= Len(loaded)
    BY <1>7
  <2> QED
    BY <1>7, <1>8, <2>1, <2>2, <2>3
<1>10. "ask" \in G!Message
  BY DEF G!Message
<1> QED
  BY <1>1, <1>2, <1>5, <1>8, <1>9, <1>10, SayStep

(* A message in the middle of an attempt.                                   *)
LEMMA TalkStep ==
  ASSUME G!AgentInv, NEW x \in Actor, s2[x].at \in {"model", "tool"}, UNCHANGED <<s1, s4>>,
         NEW m \in G!Message, NEW at \in {"model", "tool", "turn", "stop"}, NEW paid \in Nat,
         at = "stop" => m \in {"text", "failed"},
         G!Say(x, m, [s2[x] EXCEPT !.cost = paid, !.due = paid, !.at = at])
  PROVE  G!AgentInv'
<1>1. PICK c \in G!Execution : c = s2[x] /\ G!Honest(c) /\ c.at \in {"model", "tool"}
  BY ExecutionNow
<1>2. ~Idling(x)
  BY DEF Idling
<1>3. PICK r : r = [c EXCEPT !.cost = paid, !.due = paid, !.at = at]
  OBVIOUS
<1>4. /\ r \in G!Execution /\ r.at = at /\ r.mem = c.mem /\ r.from = c.from /\ r.sid = c.sid
      /\ r.unsaved = c.unsaved /\ r.lost = r.thrown /\ r.cost = paid /\ r.due = paid
  BY <1>1, <1>3 DEF G!Execution, G!Honest
<1>5. ~s4 => /\ r.sid \in G!Files /\ r.from <= Len(s3) /\ r.unsaved <= Len(r.mem)
             /\ r.mem = SubSeq(s3, r.from + 1, Len(s3))
  BY <1>1, <1>4, ExecutionNow DEF G!Follows, G!Silent
<1>6. G!Say(x, m, r)
  BY <1>1, <1>3
<1> QED
  BY <1>1, <1>2, <1>4, <1>5, <1>6, SayStep

LEMMA AnswerStep ==
  ASSUME G!AgentInv, NEW x \in Actor, NEW m \in {"text", "calls"}, G!Answer(x, m)
  PROVE  G!AgentInv'
<1>1. PICK c \in G!Execution : c = s2[x] /\ G!Honest(c) /\ c.at = "model"
  BY ExecutionNow DEF G!Answer, G!At
<1>2. PICK paid : paid = c.cost + 1
  OBVIOUS
<1>3. paid \in Nat /\ paid = c.due + 1
  BY <1>1, <1>2 DEF G!Execution, G!Honest
<1>4. PICK at : at = IF m = "calls" THEN "tool" ELSE "turn"
  OBVIOUS
<1>5. G!Say(x, m, [c EXCEPT !.cost = paid, !.due = paid, !.at = at])
  BY <1>1, <1>2, <1>3, <1>4 DEF G!Answer
<1>6. m \in G!Message /\ at \in {"tool", "turn"} /\ UNCHANGED <<s1, s4>>
  BY <1>4 DEF G!Message, G!Answer
<1> QED
  BY <1>1, <1>3, <1>5, <1>6, TalkStep

LEMMA BreaksStep ==
  ASSUME G!AgentInv, NEW x \in Actor, G!Breaks(x)
  PROVE  G!AgentInv'
<1>1. PICK c \in G!Execution : c = s2[x] /\ G!Honest(c) /\ c.at = "model"
  BY ExecutionNow DEF G!Breaks, G!At
<1>2. c.cost \in Nat /\ c.due = c.cost
  BY <1>1 DEF G!Execution, G!Honest
<1>3. [c EXCEPT !.at = "stop"] = [c EXCEPT !.cost = c.cost, !.due = c.cost, !.at = "stop"]
  BY <1>2 DEF G!Execution
<1>4. G!Say(x, "failed", [c EXCEPT !.cost = c.cost, !.due = c.cost, !.at = "stop"])
  BY <1>1, <1>3 DEF G!Breaks
<1>5. "failed" \in G!Message /\ UNCHANGED <<s1, s4>>
  BY DEF G!Message, G!Breaks
<1> QED
  BY <1>1, <1>2, <1>4, <1>5, TalkStep

LEMMA ToolStep ==
  ASSUME G!AgentInv, NEW x \in Actor, G!Tool(x)
  PROVE  G!AgentInv'
<1>1. PICK c \in G!Execution : c = s2[x] /\ G!Honest(c) /\ c.at = "tool"
  BY ExecutionNow DEF G!Tool, G!At
<1>2. c.cost \in Nat /\ c.due = c.cost
  BY <1>1 DEF G!Execution, G!Honest
<1>3. [c EXCEPT !.at = "turn"] = [c EXCEPT !.cost = c.cost, !.due = c.cost, !.at = "turn"]
  BY <1>2 DEF G!Execution
<1>4. G!Say(x, "result", [c EXCEPT !.cost = c.cost, !.due = c.cost, !.at = "turn"])
  BY <1>1, <1>3 DEF G!Tool
<1>5. "result" \in G!Message /\ UNCHANGED <<s1, s4>>
  BY DEF G!Message, G!Tool
<1> QED
  BY <1>1, <1>2, <1>4, <1>5, TalkStep

LEMMA ThrowsStep ==
  ASSUME G!AgentInv, NEW x \in Actor, G!Throws(x)
  PROVE  G!AgentInv'
<1>1. PICK c \in G!Execution : c = s2[x] /\ G!Honest(c) /\ c.at = "model"
  BY ExecutionNow DEF G!Throws, G!At
<1>2. ~Idling(x) /\ UNCHANGED <<s1, s3, s4>>
  BY <1>1 DEF Idling, G!Throws
<1>3. PICK q : q = [c EXCEPT !.at = "rejected"]
  OBVIOUS
<1>4. /\ q \in G!Execution /\ q.at = "rejected" /\ q.unsaved = c.unsaved /\ q.lost = c.lost /\ q.thrown = c.thrown /\ q.cost = c.cost
      /\ q.due = c.due /\ q.mem = c.mem /\ q.from = c.from /\ q.sid = c.sid
  BY <1>3 DEF G!Execution
<1>5. G!Honest(q)
  BY <1>1, <1>4 DEF G!Honest, G!Silent
<1>6. s2' = [s2 EXCEPT ![x] = q]
  BY <1>1, <1>3 DEF G!Throws, G!Goto, G!Becomes
<1>7. ~s4 => /\ \A y \in Actor : y # x => Idling(y)
             /\ G!Follows(q)
  BY <1>1, <1>2, <1>4, OthersIdle, ExecutionNow DEF G!Follows, G!Silent
<1> QED
  BY <1>1, <1>2, <1>4, <1>5, <1>6, <1>7, AgentTurns

LEMMA EndTurnStep ==
  ASSUME G!AgentInv, NEW x \in Actor, G!EndTurn(x)
  PROVE  G!AgentInv'
<1>1. PICK c \in G!Execution : c = s2[x] /\ G!Honest(c) /\ c.at = "turn"
  BY ExecutionNow DEF G!EndTurn, G!At
<1>2. ~Idling(x) /\ UNCHANGED <<s1, s3, s4>>
  BY <1>1 DEF Idling, G!EndTurn
<1>3. PICK n \in Nat : n = c.turns + 1
  BY DEF G!Execution
<1>4. PICK at : at = IF n >= MaxTurns \/ G!Last(c.mem) = "text" THEN "stop" ELSE "model"
  OBVIOUS
<1>5. PICK q : q = [c EXCEPT !.turns = n, !.at = at]
  OBVIOUS
<1>6. /\ q \in G!Execution /\ q.at = at /\ q.unsaved = c.unsaved /\ q.lost = c.lost /\ q.thrown = c.thrown /\ q.cost = c.cost
      /\ q.due = c.due /\ q.mem = c.mem /\ q.from = c.from /\ q.sid = c.sid /\ q.turns = n
      /\ at \in {"stop", "model"}
  BY <1>4, <1>5 DEF G!Execution
<1>7. at = "stop" => G!Last(c.mem) \in {"text", "failed"} \/ n >= MaxTurns
  BY <1>4
<1>8. G!Honest(q)
  BY <1>1, <1>6, <1>7 DEF G!Honest, G!Silent
<1>9. s2' = [s2 EXCEPT ![x] = q]
  BY <1>1, <1>3, <1>4, <1>5 DEF G!EndTurn, G!Becomes
<1>10. ~s4 => /\ \A y \in Actor : y # x => Idling(y)
              /\ G!Follows(q)
  BY <1>1, <1>2, <1>6, OthersIdle, ExecutionNow DEF G!Follows, G!Silent
<1> QED
  BY <1>1, <1>2, <1>6, <1>8, <1>9, <1>10, AgentTurns

(* The next message in order reaches the file.                              *)
LEMMA SaveStep ==
  ASSUME G!AgentInv, NEW x \in Actor, G!Save(x)
  PROVE  G!AgentInv'
<1>1. PICK c \in G!Execution : c = s2[x] /\ G!Honest(c) /\ c.unsaved > 0
  BY ExecutionNow DEF G!Save
<1>2. c.at \notin G!Silent /\ ~Idling(x) /\ UNCHANGED <<s3, s4>>
  BY <1>1 DEF Idling, G!Save, G!Honest, G!Silent
<1>3. PICK u \in Nat : u = c.unsaved - 1
  BY <1>1 DEF G!Execution
<1>4. PICK q : q = [c EXCEPT !.unsaved = u]
  OBVIOUS
<1>5. /\ q \in G!Execution /\ q.at = c.at /\ q.unsaved = u /\ q.lost = c.lost /\ q.thrown = c.thrown /\ q.cost = c.cost /\ q.due = c.due
      /\ q.mem = c.mem /\ q.from = c.from /\ q.sid = c.sid /\ q.turns = c.turns /\ q.result = c.result
  BY <1>4 DEF G!Execution
<1>6. G!Honest(q)
  BY <1>1, <1>2, <1>5 DEF G!Honest, G!Silent
<1>7. s2' = [s2 EXCEPT ![x] = q]
  BY <1>1, <1>3, <1>4 DEF G!Save, G!Becomes
<1>8. /\ s3 \in Seq(G!Message) /\ s1 \in [Thing -> Seq(G!Message) \union {None}] /\ s4 \in BOOLEAN
      /\ Len(s3) \in Nat /\ c.mem \in Seq(G!Message) /\ c.from \in Nat /\ c.unsaved = u + 1
  BY <1>1, <1>3, ExecutionNow DEF G!Execution
<1>9. CASE s4
  <2>1. s1' = s1
    BY <1>9 DEF G!Save
  <2>2. s1' \in [Thing -> Seq(G!Message) \union {None}] /\ s3' \in Seq(G!Message) /\ s4' \in BOOLEAN /\ s4'
    BY <1>2, <1>8, <1>9, <2>1
  <2> QED
    BY <1>5, <1>6, <1>7, <2>2, AgentMoves
<1>10. CASE ~s4
  <2>1. /\ c.sid \in G!Files /\ c.from <= Len(s3) /\ c.unsaved <= Len(c.mem)
        /\ c.mem = SubSeq(s3, c.from + 1, Len(s3))
    BY <1>1, <1>2, <1>10, ExecutionNow DEF G!Follows
  <2>2. PICK L0, a \in Nat : L0 = Len(s3) /\ a = c.from
    BY <1>8
  <2>3. a <= L0 /\ Len(c.mem) = L0 - a /\ \A i \in 1..(L0 - a) : c.mem[i] = s3[a + i]
    <3>1. a <= L0 /\ L0 <= Len(s3) /\ c.mem = SubSeq(s3, a + 1, L0)
      BY <2>1, <2>2
    <3> QED
      BY <1>8, <3>1, PartOfSeq
  <2>4. PICK k \in Nat : k = L0 - (u + 1)
    <3>1. PICK l : l = Len(c.mem)
      OBVIOUS
    <3>2. l = L0 - a /\ u + 1 <= l
      BY <1>8, <2>1, <2>3, <3>1
    <3>3. u + 1 <= L0 /\ u \in Nat /\ L0 \in Nat
      BY <2>2, <2>3, <3>2
    <3>4. L0 - (u + 1) \in Nat
      BY <3>3
    <3> QED
      BY <3>4
  <2>5. k + 1 <= L0 /\ L0 - u = k + 1 /\ u <= L0
    BY <2>4
  <2>6. c.mem[Len(c.mem) - c.unsaved + 1] = s3[k + 1]
    <3>1. PICK i : i = Len(c.mem) - c.unsaved + 1
      OBVIOUS
    <3>2. i \in 1..(L0 - a) /\ a + i = k + 1
      <4>1. PICK l : l = Len(c.mem)
        OBVIOUS
      <4>2. l = L0 - a /\ u + 1 <= l /\ i = l - (u + 1) + 1
        BY <1>8, <2>1, <2>3, <3>1, <4>1
      <4>3. u \in Nat /\ L0 \in Nat /\ a \in Nat /\ a <= L0 /\ k = L0 - (u + 1)
        BY <2>2, <2>3, <2>4
      <4> QED
        BY <4>2, <4>3
    <3> QED
      BY <2>3, <3>1, <3>2
  <2>7. s1[c.sid] = SubSeq(s3, 1, k) /\ s1[c.sid] # None /\ c.sid \in Thing
    <3>1. s1[c.sid] = SubSeq(s3, 1, Len(s3) - c.unsaved)
      BY <1>1, <1>2, <1>10, <2>1, OthersIdle, FileNow
    <3> QED
      BY <1>8, <2>1, <2>2, <2>4, <3>1 DEF G!Files
  <2>8. PICK w : w = SubSeq(s3, 1, k + 1)
    OBVIOUS
  <2>9. w \in Seq(G!Message)
    <3>1. 0 \in Nat /\ k + 1 \in Nat /\ 0 <= k + 1 /\ k + 1 <= Len(s3)
      BY <2>2, <2>5
    <3>2. SubSeq(s3, 0 + 1, k + 1) \in Seq(G!Message)
      BY <1>8, <3>1, PartOfSeq
    <3> QED
      BY <2>8, <3>2
  <2>10. Append(s1[c.sid], c.mem[Len(c.mem) - c.unsaved + 1]) = w
    <3>1. k + 1 <= Len(s3)
      BY <2>2, <2>5
    <3>2. Append(SubSeq(s3, 1, k), s3[k + 1]) = SubSeq(s3, 1, k + 1)
      BY <1>8, <3>1, StartGrows
    <3> QED
      BY <2>6, <2>7, <2>8, <3>2
  <2>11. s1' = [s1 EXCEPT ![c.sid] = w]
    <3>1. s1' = [s1 EXCEPT ![c.sid] = Append(s1[c.sid], c.mem[Len(c.mem) - c.unsaved + 1])]
      BY <1>1, <1>10, <2>7 DEF G!Save
    <3> QED
      BY <2>10, <3>1
  <2>12. w # None
    BY <2>9, AgentConstants DEF G!AgentAssumption
  <2>13. /\ s1' \in [Thing -> Seq(G!Message) \union {None}] /\ G!Files' = G!Files
         /\ s1'[c.sid] = w
    BY <1>8, <2>7, <2>9, <2>11, <2>12 DEF G!Files
  <2>14. \A s \in G!Files : s = c.sid
    BY <1>10, <2>1, ExecutionNow
  <2>15. G!Follows(q)'
    <3>1. q.sid \in G!Files' /\ q.from <= Len(s3') /\ q.mem = SubSeq(s3', q.from + 1, Len(s3'))
      BY <1>2, <1>5, <2>1, <2>13
    <3>2. q.unsaved <= Len(q.mem)
      BY <1>5, <1>8, <2>1
    <3>3. q.at # "create"
      BY <1>2, <1>5 DEF G!Silent
    <3> QED
      BY <3>1, <3>2, <3>3 DEF G!Follows
  <2>16. \A s \in G!Files' : q.unsaved <= Len(s3') /\ s1'[s] = SubSeq(s3', 1, Len(s3') - q.unsaved)
    <3>1. q.unsaved <= Len(s3') /\ Len(s3') - q.unsaved = k + 1
      BY <1>2, <1>5, <2>2, <2>5
    <3> QED
      BY <1>2, <2>8, <2>13, <2>14, <3>1
  <2>17. G!Files' # {} /\ \A s, t \in G!Files' : s = t
    BY <2>1, <2>13, <2>14
  <2>18. \A y \in Actor : y # x => Idling(y)
    BY <1>2, <1>10, OthersIdle
  <2>19. s3' \in Seq(G!Message) /\ s4' \in BOOLEAN
    BY <1>2, <1>8
  <2> QED
    BY <1>5, <1>6, <1>7, <2>13, <2>15, <2>16, <2>17, <2>18, <2>19, AgentMoves
<1> QED
  BY <1>8, <1>9, <1>10

(* An attempt ends, and with it the execution or not.                       *)
LEMMA AfterStep ==
  ASSUME G!AgentInv, NEW x \in Actor, ~Idling(x), s2[x].unsaved = 0, UNCHANGED <<s1, s3, s4>>,
         NEW r \in G!Execution, r.unsaved = 0, r.lost = r.thrown, r.cost = r.due,
         r.result = "done" => G!Last(r.mem) = "text" /\ r.turns < MaxTurns,
         G!After(x, r)
  PROVE  G!AgentInv'
<1>0. ~s4 => \A y \in Actor : y # x => Idling(y)
  BY OthersIdle
<1>1. CASE r.result # "done" /\ s2' = [s2 EXCEPT ![x] = [G!Over EXCEPT !.lost = r.lost, !.thrown = r.thrown]]
  <2>1. PICK q : q = [G!Over EXCEPT !.lost = r.lost, !.thrown = r.thrown]
    OBVIOUS
  <2>2. /\ q \in G!Execution /\ q.at = "over" /\ q.result = None /\ q.lost = q.thrown /\ q.cost = 0
        /\ q.due = 0 /\ q.unsaved = 0
    <3>1. r.lost \in Nat /\ r.thrown \in Nat
      BY DEF G!Execution
    <3> QED
      BY <2>1, <3>1, OffAndOver DEF G!Execution
  <2>3. None # "done"
    BY AgentConstants DEF G!AgentAssumption
  <2>4. G!Honest(q) /\ G!Follows(q)
    BY <2>2, <2>3 DEF G!Honest, G!Follows, G!Silent
  <2> QED
    BY <1>0, <1>1, <2>1, <2>2, <2>4, AgentTurns
<1>2. CASE /\ r.result = "done"
           /\ s2' = [s2 EXCEPT ![x] = [G!Over EXCEPT !.result = "done", !.mem = <<G!Last(r.mem)>>,
                                                     !.turns = r.turns, !.lost = r.lost, !.thrown = r.thrown]]
  <2>0. PICK mem : mem = <<G!Last(r.mem)>>
    OBVIOUS
  <2>1. mem \in Seq(G!Message) /\ G!Last(mem) = "text"
    <3>1. mem = <<"text">> /\ "text" \in G!Message
      BY <1>2, <2>0 DEF G!Message
    <3> QED
      BY <3>1 DEF G!Last
  <2>2. PICK q : q = [G!Over EXCEPT !.result = "done", !.mem = mem, !.turns = r.turns, !.lost = r.lost,
                                   !.thrown = r.thrown]
    OBVIOUS
  <2>3. /\ q \in G!Execution /\ q.at = "over" /\ q.result = "done" /\ q.mem = mem /\ q.turns = r.turns
        /\ q.lost = q.thrown /\ q.cost = 0 /\ q.due = 0 /\ q.unsaved = 0
    <3>1. r.turns \in Nat /\ r.lost \in Nat /\ r.thrown \in Nat
      BY DEF G!Execution
    <3> QED
      BY <2>1, <2>2, <3>1, OffAndOver DEF G!Execution
  <2>4. G!Honest(q)
    BY <1>2, <2>1, <2>3 DEF G!Honest
  <2>5. G!Follows(q)
    BY <2>3 DEF G!Follows, G!Silent
  <2>6. s2' = [s2 EXCEPT ![x] = q]
    BY <1>2, <2>0, <2>2
  <2> QED
    BY <1>0, <2>3, <2>4, <2>5, <2>6, AgentTurns
<1>3. CASE s2' = [s2 EXCEPT ![x] = [r EXCEPT !.at = "open", !.anew = FALSE]]
  <2>1. PICK q : q = [r EXCEPT !.at = "open", !.anew = FALSE]
    OBVIOUS
  <2>2. /\ q \in G!Execution /\ q.at = "open" /\ q.lost = q.thrown /\ q.cost = q.due /\ q.unsaved = 0
    BY <2>1 DEF G!Execution
  <2>3. G!Honest(q) /\ G!Follows(q)
    BY <2>2 DEF G!Honest, G!Follows, G!Silent
  <2> QED
    BY <1>0, <1>3, <2>1, <2>2, <2>3, AgentTurns
<1> QED
  BY <1>1, <1>2, <1>3 DEF G!After, G!Becomes

LEMMA StopStep ==
  ASSUME G!AgentInv, NEW x \in Actor, G!Stop(x)
  PROVE  G!AgentInv'
<1>1. PICK c \in G!Execution : c = s2[x] /\ G!Honest(c) /\ c.at = "stop" /\ c.unsaved = 0
  BY ExecutionNow DEF G!Stop, G!At
<1>2. ~Idling(x) /\ UNCHANGED <<s1, s3, s4>>
  BY <1>1 DEF Idling, G!Stop
<1>3. c.lost + c.due - c.cost = c.lost
  <2>1. c.lost \in Nat /\ c.due = c.cost /\ c.cost \in Nat
    BY <1>1 DEF G!Honest, G!Execution
  <2> QED
    BY <2>1
<1>4. PICK out : out = G!Outcome(x)
  OBVIOUS
<1>5. /\ out \in {"error", "max_turns", "done"}
      /\ out = "done" => G!Last(c.mem) # "failed" /\ ~(c.turns >= MaxTurns)
  BY <1>1, <1>4 DEF G!Outcome
<1>6. PICK b : b = [c EXCEPT !.lost = c.lost]
  OBVIOUS
<1>7. G!Charged(x) = b
  BY <1>1, <1>3, <1>6 DEF G!Charged
<1>8. PICK r : r = [b EXCEPT !.result = out]
  OBVIOUS
<1>9. /\ r \in G!Execution /\ r.lost = r.thrown /\ r.cost = c.cost /\ r.due = c.due /\ r.unsaved = 0
      /\ r.mem = c.mem /\ r.turns = c.turns /\ r.result = out
  BY <1>1, <1>5, <1>6, <1>8 DEF G!Execution, G!Honest
<1>10. r.result = "done" => G!Last(r.mem) = "text" /\ r.turns < MaxTurns
  <2>1. c.turns \in Nat /\ MaxTurns \in Nat
    BY AgentConstants DEF G!AgentAssumption, G!Execution
  <2> QED
    BY <1>1, <1>5, <1>9, <2>1 DEF G!Honest
<1>11. r.cost = r.due
  BY <1>1, <1>9 DEF G!Honest
<1>12. G!After(x, r)
  BY <1>4, <1>7, <1>8 DEF G!Stop
<1> QED
  BY <1>1, <1>2, <1>9, <1>10, <1>11, <1>12, AfterStep

LEMMA RejectStep ==
  ASSUME G!AgentInv, NEW x \in Actor, G!Reject(x)
  PROVE  G!AgentInv'
<1>1. PICK c \in G!Execution : c = s2[x] /\ G!Honest(c) /\ c.at = "rejected" /\ c.unsaved = 0
  BY ExecutionNow DEF G!Reject, G!At
<1>2. ~Idling(x) /\ UNCHANGED <<s1, s3, s4>>
  BY <1>1 DEF Idling, G!Reject
<1>3. PICK r : r = [c EXCEPT !.result = "rejected", !.lost = c.lost + c.due, !.thrown = c.thrown + c.due]
  OBVIOUS
<1>4. /\ r \in G!Execution /\ r.lost = r.thrown /\ r.cost = r.due /\ r.unsaved = 0 /\ r.result = "rejected"
  <2>1. c.lost + c.due \in Nat /\ c.thrown + c.due \in Nat
    BY <1>1 DEF G!Execution
  <2> QED
    BY <1>1, <1>3, <2>1 DEF G!Execution, G!Honest
<1>5. G!After(x, r)
  BY <1>1, <1>3 DEF G!Reject
<1> QED
  BY <1>1, <1>2, <1>4, <1>5, AfterStep

(* A write fails: from now on the story is not followed.                    *)
LEMMA ProcessDies ==
  ASSUME G!AgentInv, G!Dies
  PROVE  /\ s2' \in [Actor -> G!Execution]
         /\ \A y \in Actor : G!Honest(s2'[y]) /\ s2'[y].at \in {"off", "over"}
<1>1. /\ s2' = [y \in Actor |-> IF Idling(y) THEN s2[y] ELSE G!Over]
      /\ \A y \in Actor : s2'[y] = IF Idling(y) THEN s2[y] ELSE G!Over
  BY DEF G!Dies, G!At, Idling
<1>2. s2 \in [Actor -> G!Execution] /\ \A y \in Actor : G!Honest(s2[y])
  BY DEF G!AgentInv, G!TypeOK
<1> QED
  BY <1>1, <1>2, OverIsHonest, OffAndOver DEF Idling

LEMMA SaveFailsStep ==
  ASSUME G!AgentInv, NEW x \in Actor, G!SaveFails(x)
  PROVE  G!AgentInv'
<1>1. /\ s1' \in [Thing -> Seq(G!Message) \union {None}] /\ s3' \in Seq(G!Message) /\ s4' \in BOOLEAN /\ s4'
  <2>1. <<>> \in Seq(G!Message)
    OBVIOUS
  <2> QED
    BY <2>1, ExecutionNow DEF G!SaveFails
<1>2. CASE G!Dies
  BY <1>1, <1>2, ProcessDies DEF G!AgentInv, G!TypeOK
<1>3. CASE s2[x].at \in {"stop", "rejected"} /\ ~G!Dies
  <2>1. PICK c \in G!Execution : c = s2[x] /\ G!Honest(c) /\ c.at \in {"stop", "rejected"}
    BY <1>3, ExecutionNow
  <2>2. PICK q : q = [c EXCEPT !.at = "rejected", !.unsaved = 0]
    OBVIOUS
  <2>3. /\ q \in G!Execution /\ q.at = "rejected" /\ q.lost = c.lost /\ q.thrown = c.thrown
        /\ q.cost = c.cost /\ q.due = c.due /\ q.unsaved = 0
    BY <2>1, <2>2 DEF G!Execution
  <2>4. G!Honest(q)
    BY <2>1, <2>3 DEF G!Honest, G!Silent
  <2>5. s2' = [s2 EXCEPT ![x] = q]
    BY <1>3, <2>1, <2>2 DEF G!SaveFails, G!Becomes
  <2> QED
    BY <1>1, <2>3, <2>4, <2>5, AgentMoves
<1> QED
  BY <1>2, <1>3 DEF G!SaveFails

(* The process dies: the story ends where the file does.                    *)
LEMMA CrashStep ==
  ASSUME G!AgentInv, G!Crash
  PROVE  G!AgentInv'
<1>0. /\ s2 \in [Actor -> G!Execution] /\ \A y \in Actor : G!Honest(s2[y])
      /\ s1 \in [Thing -> Seq(G!Message) \union {None}] /\ s3 \in Seq(G!Message) /\ s4 \in BOOLEAN
      /\ Len(s3) \in Nat /\ UNCHANGED <<s1, s4>>
  BY DEF G!AgentInv, G!TypeOK, G!Crash
<1>1. G!Dies
  BY DEF G!Crash
<1>2. s2' \in [Actor -> G!Execution]
  BY <1>1, ProcessDies
<1>3. \A y \in Actor : G!Honest(s2'[y]) /\ s2'[y].at \in {"off", "over"}
  BY <1>1, ProcessDies
<1>4. \A y \in Actor : G!Follows(s2[y])'
  BY <1>3 DEF G!Follows, G!Silent
<1>5. CASE s4
  <2>1. s3' = s3
    BY <1>5 DEF G!Crash
  <2> QED
    BY <1>0, <1>2, <1>3, <1>5, <2>1 DEF G!AgentInv, G!TypeOK
<1>6. CASE ~s4
  <2>1. s3' = SubSeq(s3, 1, Len(s3) - G!Unsaved)
    BY <1>6 DEF G!Crash
  <2>2. G!Unsaved' = 0
    <3>1. PICK C : C = {0} \union {s2'[y].unsaved : y \in Actor}
      OBVIOUS
    <3>2. C = {0}
      BY <1>3, <3>1 DEF G!Honest, G!Silent
    <3>3. C \subseteq Nat /\ 0 \in C /\ \A v \in C : v <= 0
      BY <3>2
    <3>4. G!Max(C) = 0
      BY <3>3, GreatestNumber
    <3> QED
      BY <3>1, <3>4 DEF G!Unsaved
  <2>3. G!Files' = G!Files
    BY <1>0 DEF G!Files
  <2>4. ASSUME G!Files = {} PROVE s3' = <<>> /\ s3' \in Seq(G!Message)
    <3>1. s3 = <<>>
      BY <1>6, <2>4 DEF G!AgentInv, G!Alone
    <3>2. \A y \in Actor : s2[y].unsaved = 0
      BY <1>0, <1>6, <2>4 DEF G!AgentInv, G!Follows, G!Honest, G!Silent
    <3>3. PICK C : C = {0} \union {s2[y].unsaved : y \in Actor}
      OBVIOUS
    <3>4. C \subseteq Nat /\ 0 \in C /\ \A v \in C : v <= 0
      BY <3>2, <3>3
    <3>5. G!Unsaved = 0
      BY <3>3, <3>4, GreatestNumber DEF G!Unsaved
    <3>6. SubSeq(<<>>, 1, Len(<<>>) - 0) = <<>> /\ <<>> \in Seq(G!Message)
      OBVIOUS
    <3> QED
      BY <2>1, <3>1, <3>5, <3>6
  <2>5. ASSUME NEW s \in G!Files PROVE s1[s] = s3' /\ s3' \in Seq(G!Message)
    <3>1. s1[s] = s3'
      BY <1>6, <2>1 DEF G!AgentInv, G!Alone
    <3>2. s1[s] \in Seq(G!Message)
      BY <1>0 DEF G!Files
    <3> QED
      BY <3>1, <3>2
  <2>6. s3' \in Seq(G!Message)
    BY <2>4, <2>5
  <2>7. SubSeq(s3', 1, Len(s3') - 0) = s3' /\ 0 <= Len(s3')
    <3>1. PICK t \in Seq(G!Message) : t = s3'
      BY <2>6
    <3>2. Len(t) \in Nat /\ Len(t) - 0 = Len(t) /\ 0 \in Nat /\ 0 <= Len(t) /\ Len(t) <= Len(t)
      BY <3>1
    <3>3. PICK p, l : p = SubSeq(t, 1, l) /\ l = Len(t)
      OBVIOUS
    <3>4. p \in Seq(G!Message) /\ Len(p) = l /\ \A i \in 1..l : p[i] = t[i]
      <4>1. SubSeq(t, 0 + 1, l) \in Seq(G!Message) /\ Len(SubSeq(t, 0 + 1, l)) = l - 0
            /\ \A i \in 1..(l - 0) : SubSeq(t, 0 + 1, l)[i] = t[0 + i]
        BY <3>2, <3>3, PartOfSeq
      <4> QED
        BY <3>2, <3>3, <4>1
    <3>5. p = t
      BY <3>3, <3>4, SameSeq
    <3> QED
      BY <3>1, <3>2, <3>3, <3>5
  <2>8. G!Alone'
    <3>1. \A s \in G!Files' : G!Unsaved' <= Len(s3') /\ s1'[s] = SubSeq(s3', 1, Len(s3') - G!Unsaved')
      BY <1>0, <2>2, <2>3, <2>5, <2>7
    <3>2. (\A s, t \in G!Files' : s = t) /\ (G!Files' = {} => s3' = <<>>)
      BY <1>6, <2>3, <2>4 DEF G!AgentInv, G!Alone
    <3> QED
      BY <1>3, <3>1, <3>2 DEF G!Alone
  <2> QED
    BY <1>0, <1>2, <1>3, <1>4, <1>6, <2>6, <2>8 DEF G!AgentInv, G!TypeOK
<1> QED
  BY <1>0, <1>5, <1>6

LEMMA AgentStart == G!Init => G!AgentInv
<1> SUFFICES ASSUME G!Init PROVE G!AgentInv
  OBVIOUS
<1>1. s2 \in [Actor -> G!Execution] /\ \A y \in Actor : s2[y] = G!Off
  BY OffAndOver DEF G!Init
<1>2. \A y \in Actor : s2[y].at = "off" /\ s2[y].lost = 0 /\ s2[y].thrown = 0 /\ s2[y].cost = s2[y].due /\ s2[y].unsaved = 0
  BY <1>1 DEF G!Off
<1>3. \A y \in Actor : G!Honest(s2[y]) /\ G!Follows(s2[y])
  BY <1>2 DEF G!Honest, G!Follows, G!Silent
<1>4. s1 \in [Thing -> Seq(G!Message) \union {None}] /\ s3 \in Seq(G!Message) /\ s3 = <<>> /\ s4 \in BOOLEAN
  <2>1. s1 \in [Thing -> Seq(G!Message) \union {None}] /\ s4 \in BOOLEAN
    BY DEF G!Init
  <2>2. s3 = <<>>
    BY DEF G!Init
  <2>3. <<>> \in Seq(G!Message)
    OBVIOUS
  <2> QED
    BY <2>1, <2>2, <2>3
<1>5. G!Files = {}
  BY DEF G!Init, G!Files
<1>6. G!Alone
  BY <1>2, <1>4, <1>5 DEF G!Alone
<1> QED
  BY <1>1, <1>3, <1>4, <1>6 DEF G!AgentInv, G!TypeOK

LEMMA AgentNext ==
  ASSUME G!AgentInv, [G!Next]_G!vars
  PROVE  G!AgentInv'
<1>1. CASE UNCHANGED G!vars
  <2>1. UNCHANGED <<s1, s2, s3, s4>>
    BY <1>1 DEF G!vars
  <2>2. G!TypeOK' /\ \A y \in Actor : G!Honest(s2'[y])
    BY <2>1 DEF G!AgentInv, G!TypeOK
  <2>3. ASSUME ~s4' PROVE G!Alone' /\ \A y \in Actor : G!Follows(s2[y])'
    <3>1. G!Alone /\ \A y \in Actor : G!Follows(s2[y])
      BY <2>1, <2>3 DEF G!AgentInv
    <3>2. G!Files' = G!Files /\ G!Unsaved' = G!Unsaved
      BY <2>1 DEF G!Files, G!Unsaved
    <3> QED
      BY <2>1, <3>1, <3>2 DEF G!Alone, G!Follows
  <2> QED
    BY <2>2, <2>3 DEF G!AgentInv
<1>2. CASE G!Next
  BY <1>2, StartStep, ForgetStep, PrepareStep, OpenStep, CreateStep, PromptStep, AnswerStep, BreaksStep, ThrowsStep,
     ToolStep, EndTurnStep, SaveStep, SaveFailsStep, StopStep, RejectStep, CrashStep DEF G!Next
<1> QED
  BY <1>1, <1>2

LEMMA AgentsAreTold == G!AgentInv => G!ContextIsTheStory /\ G!OutcomeIsHonest
<1> SUFFICES ASSUME G!AgentInv PROVE G!ContextIsTheStory /\ G!OutcomeIsHonest
  OBVIOUS
<1>1. G!OutcomeIsHonest
  BY DEF G!AgentInv, G!Honest, G!OutcomeIsHonest, G!At
<1>2. ASSUME ~s4, NEW x \in Actor, G!Prompted(x)
      PROVE  s2[x].mem = SubSeq(s3, s2[x].from + 1, Len(s3)) /\ G!Cardinality(G!Files) = 1
  <2>1. s2[x].at \notin G!Silent /\ G!Follows(s2[x])
    BY <1>2 DEF G!AgentInv, G!Prompted, G!Silent
  <2>2. s2[x].sid \in G!Files /\ s2[x].mem = SubSeq(s3, s2[x].from + 1, Len(s3))
    BY <2>1 DEF G!Follows
  <2>3. G!Files = {s2[x].sid}
    BY <1>2, <2>2 DEF G!AgentInv, G!Alone
  <2>4. Cardinality({s2[x].sid}) = 1
    BY FS_Singleton
  <2>5. G!Cardinality({s2[x].sid}) = Cardinality({s2[x].sid})
    BY DEF G!Cardinality, Cardinality
  <2> QED
    BY <2>2, <2>3, <2>4, <2>5
<1> QED
  BY <1>1, <1>2 DEF G!ContextIsTheStory

(* The theorem about the agent: unless two executions of a task met or a    *)
(* message could not be written, the context of whoever is prompted is the  *)
(* story told since the task last began anew, and there is one session; an  *)
(* attempt that is done ended in an answer within its turns, and every paid *)
(* answer is in the account but for those of attempts that were rejected.   *)
THEOREM RunsStayTold == Spec => []RunsAreTold
<1> DEFINE Inv == part = "agent" => G!AgentInv
<1>1. Init => Inv
  BY AgentStart DEF Init
<1>2. Inv /\ [Next]_vars => Inv'
  <2> SUFFICES ASSUME Inv, [Next]_vars, part' = "agent" PROVE G!AgentInv'
    OBVIOUS
  <2>1. part = "agent" /\ [G!Next]_G!vars
    BY DEF Next, vars, G!vars
  <2> QED
    BY <2>1, AgentNext
<1>3. Inv => RunsAreTold
  BY AgentsAreTold DEF RunsAreTold
<1> QED
  BY <1>1, <1>2, <1>3, PTL DEF Spec

=============================================================================
