--------------------------- MODULE ReadersProofs ---------------------------
(***************************************************************************)
(* Theorems about the read endpoints, for any number of jobs, any page     *)
(* size and anything the handlers and workers do to the tables.            *)
(***************************************************************************)
EXTENDS Readers, FiniteSetTheorems, TLAPS

-----------------------------------------------------------------------------
(* Every variable keeps its type; a request that is over leaves nothing    *)
(* behind.                                                                 *)
THEOREM TypeCorrect == Spec => []TypeOK
<1> USE PageSizeAssumption
        DEF TypeOK, TableTypeOK, JobStatus, ClientPC, AnyStatus
<1>1. Init => TypeOK
  BY DEF Init, TableInit, NoWalk
<1>2. TypeOK /\ [Next]_vars => TypeOK'
  <2> SUFFICES ASSUME TypeOK, [Next]_vars PROVE TypeOK'
    OBVIOUS
  <2>1. CASE WriteTables
    <3> USE DEF WriteStatus
    <3>1. PICK j \in Uploads : TableStep(j)
      BY <2>1 DEF WriteTables, TableNext
    <3>2. TableTypeOK'
      <4>1. CASE BeginTransaction(j)
        BY <4>1 DEF BeginTransaction
      <4>2. CASE CreateJob(j)
        BY <4>2 DEF CreateJob
      <4>3. ASSUME NEW who \in {"api", "worker"}, SetProcessing(j, who)
            PROVE  TableTypeOK'
        BY <4>3 DEF SetProcessing
      <4>4. CASE SetFailed(j)
        BY <4>4 DEF SetFailed
      <4>5. CASE CommitResults(j)
        BY <4>5 DEF CommitResults
      <4>6. QED
        BY <3>1, <4>1, <4>2, <4>3, <4>4, <4>5 DEF TableStep
    <3>3. /\ walk' \in [filter : JobStatus \cup {AnyStatus}, offset : Nat,
                        listed : SUBSET Uploads, known : SUBSET Uploads,
                        shifted : BOOLEAN]
          /\ client \notin {"walking", "walked"} => walk' = NoWalk
      <4> DEFINE gone == Leavers(walk.filter)
                 behind == \E i \in gone : Place(walk.filter, i) < walk.offset
      <4>1. walk' = IF client = "walking" /\ gone # {}
                    THEN [walk EXCEPT !.known = @ \ gone,
                                      !.shifted = @ \/ behind]
                    ELSE walk
        BY <2>1 DEF WriteTables, Watch
      <4> HIDE DEF gone, behind
      <4>2. CASE client = "walking" /\ gone # {}
        <5>1. /\ walk.known \ gone \subseteq Uploads
              /\ (walk.shifted \/ behind) \in BOOLEAN
          OBVIOUS
        <5>2. QED
          BY <4>1, <4>2, <5>1
      <4>3. CASE ~(client = "walking" /\ gone # {})
        BY <4>1, <4>3
      <4>4. QED
        BY <4>2, <4>3
    <3>4. QED
      BY <2>1, <3>2, <3>3 DEF WriteTables
  <2>2. ASSUME NEW e \in {"status", "results"}, NEW j \in Uploads,
               SelectJob(e, j)
        PROVE  TypeOK'
    BY <2>2 DEF SelectJob, tableVars
  <2>3. CASE SelectRows
    BY <2>3 DEF SelectRows, tableVars
  <2>4. CASE SelectSummary
    BY <2>4 DEF SelectSummary, tableVars
  <2>5. CASE TakeAnswer
    BY <2>5 DEF TakeAnswer, tableVars
  <2>6. ASSUME NEW f \in JobStatus \cup {AnyStatus}, BeginWalk(f)
        PROVE  TypeOK'
    BY <2>6 DEF BeginWalk, NoWalk, Matching, Jobs, tableVars
  <2>7. CASE ListPage
    <3> DEFINE page == Page(walk.filter, walk.offset)
    <3>1. page \subseteq Uploads
      BY DEF Page, Matching, Jobs
    <3>2. /\ walk' = [walk EXCEPT !.offset = @ + PageSize,
                                  !.listed = @ \cup page]
          /\ client' \in {"walked", "walking"}
          /\ client = "walking"
          /\ UNCHANGED <<tableVars, read>>
      BY <2>7 DEF ListPage
    <3> HIDE DEF page
    <3>3. walk.listed \cup page \subseteq Uploads /\ walk.offset + PageSize \in Nat
      BY <3>1
    <3>4. walk' \in [filter : JobStatus \cup {AnyStatus}, offset : Nat,
                    listed : SUBSET Uploads, known : SUBSET Uploads,
                    shifted : BOOLEAN]
      BY <3>2, <3>3
    <3>5. TableTypeOK' /\ read' = NoRead
      BY <3>2 DEF tableVars
    <3>6. QED
      BY <3>2, <3>4, <3>5
  <2>8. CASE EndWalk
    BY <2>8 DEF EndWalk, NoWalk, tableVars
  <2>9. CASE UNCHANGED vars
    BY <2>9 DEF vars, tableVars
  <2>10. QED
    BY <2>1, <2>2, <2>3, <2>4, <2>5, <2>6, <2>7, <2>8, <2>9
       DEF Next, Request
<1>3. QED
  BY <1>1, <1>2, PTL DEF Spec

(* The steps of the requests leave the tables alone.                       *)
LEMMA RequestsOnlyRead ==
    [Next]_vars => \/ WriteTables
                   \/ UNCHANGED tableVars
  BY DEF Next, Request, vars, SelectJob, SelectRows, SelectSummary, TakeAnswer,
         BeginWalk, ListPage, EndWalk

-----------------------------------------------------------------------------
(* The tables.                                                             *)

(* The columns created_at of any two committed jobs differ.                *)
LEMMA CreationOrderHolds == Spec => []CreationOrder
<1>1. Init => CreationOrder
  BY DEF Init, TableInit, CreationOrder
<1>2. TypeOK /\ CreationOrder /\ [Next]_vars => CreationOrder'
  <2> SUFFICES ASSUME TypeOK, CreationOrder, [Next]_vars
               PROVE  CreationOrder'
    OBVIOUS
  <2> USE DEF TypeOK, TableTypeOK, CreationOrder
  <2>1. CASE WriteTables
    <3>1. PICK j \in Uploads : TableStep(j)
      BY <2>1 DEF WriteTables, TableNext
    <3>2. CASE BeginTransaction(j)
      BY <3>2 DEF BeginTransaction
    <3>3. CASE createdAt[j] # 0 /\ CreateJob(j)
      BY <3>3 DEF CreateJob, WriteStatus
    <3>4. ASSUME NEW who \in {"api", "worker"},
                 status[j] # "none", SetProcessing(j, who)
          PROVE  CreationOrder'
      BY <3>4 DEF SetProcessing, WriteStatus
    <3>5. CASE status[j] # "none" /\ SetFailed(j)
      BY <3>5 DEF SetFailed, WriteStatus
    <3>6. CASE status[j] # "none" /\ CommitResults(j)
      BY <3>6 DEF CommitResults, WriteStatus
    <3>7. QED
      BY <3>1, <3>2, <3>3, <3>4, <3>5, <3>6 DEF TableStep
  <2>2. CASE UNCHANGED tableVars
    BY <2>2 DEF tableVars
  <2>3. QED
    BY <2>1, <2>2, RequestsOnlyRead
<1>3. QED
  BY <1>1, <1>2, TypeCorrect, PTL DEF Spec

(* A completed job has one batch of rows and one summary.                  *)
LEMMA RecordedWholeHolds == Spec => []RecordedWhole
<1>1. Init => RecordedWhole
  BY DEF Init, TableInit, RecordedWhole
<1>2. TypeOK /\ RecordedWhole /\ [Next]_vars => RecordedWhole'
  <2> SUFFICES ASSUME TypeOK, RecordedWhole, [Next]_vars
               PROVE  RecordedWhole'
    OBVIOUS
  <2> USE DEF TypeOK, TableTypeOK, RecordedWhole
  <2>1. CASE WriteTables
    <3>1. PICK j \in Uploads : TableStep(j)
      BY <2>1 DEF WriteTables, TableNext
    <3>2. CASE BeginTransaction(j)
      BY <3>2 DEF BeginTransaction
    <3>3. CASE CreateJob(j)
      BY <3>3 DEF CreateJob, WriteStatus
    <3>4. ASSUME NEW who \in {"api", "worker"}, SetProcessing(j, who)
          PROVE  RecordedWhole'
      BY <3>4 DEF SetProcessing, WriteStatus
    <3>5. CASE SetFailed(j)
      BY <3>5 DEF SetFailed, WriteStatus
    <3>6. CASE ~UniqueViolation(j) /\ CommitResults(j)
      BY <3>6 DEF CommitResults, WriteStatus, UniqueViolation
    <3>7. QED
      BY <3>1, <3>2, <3>3, <3>4, <3>5, <3>6 DEF TableStep
  <2>2. CASE UNCHANGED tableVars
    BY <2>2 DEF tableVars
  <2>3. QED
    BY <2>1, <2>2, RequestsOnlyRead
<1>3. QED
  BY <1>1, <1>2, TypeCorrect, PTL DEF Spec

(* Nothing that was recorded or committed is taken away again.             *)
LEMMA TablesGrow ==
    ASSUME TypeOK, RecordedWhole, CreationOrder, [Next]_vars
    PROVE  /\ \A j \in Uploads :
                 rows[j] = 1 => rows'[j] = 1 /\ summaries'[j] = 1
           /\ Jobs \subseteq Jobs'
           /\ \A j \in Jobs : createdAt'[j] = createdAt[j]
<1> USE DEF TypeOK, TableTypeOK, RecordedWhole, CreationOrder, Jobs
<1>1. CASE WriteTables
  <2>1. PICK j \in Uploads : TableStep(j)
    BY <1>1 DEF WriteTables, TableNext
  <2>2. CASE createdAt[j] = 0 /\ BeginTransaction(j)
    BY <2>2 DEF BeginTransaction
  <2>3. CASE CreateJob(j)
    BY <2>3 DEF CreateJob, WriteStatus
  <2>4. ASSUME NEW who \in {"api", "worker"}, SetProcessing(j, who)
        PROVE  /\ \A k \in Uploads :
                     rows[k] = 1 => rows'[k] = 1 /\ summaries'[k] = 1
               /\ Jobs \subseteq Jobs'
               /\ \A k \in Jobs : createdAt'[k] = createdAt[k]
    BY <2>4 DEF SetProcessing, WriteStatus
  <2>5. CASE SetFailed(j)
    BY <2>5 DEF SetFailed, WriteStatus
  <2>6. CASE ~UniqueViolation(j) /\ CommitResults(j)
    BY <2>6 DEF CommitResults, WriteStatus, UniqueViolation
  <2>7. QED
    BY <2>1, <2>2, <2>3, <2>4, <2>5, <2>6 DEF TableStep
<1>2. CASE UNCHANGED tableVars
  BY <1>2 DEF tableVars
<1>3. QED
  BY <1>1, <1>2, RequestsOnlyRead

-----------------------------------------------------------------------------
(* GET status and results.                                                 *)

(* What an unfinished request has seen stays true of the tables.           *)
LEMMA ReadSoFarHolds == Spec => []ReadSoFar
<1>1. Init => ReadSoFar
  BY DEF Init, ReadSoFar
<1>2. /\ TypeOK /\ RecordedWhole /\ CreationOrder /\ ReadSoFar
      /\ [Next]_vars
      => ReadSoFar'
  <2> SUFFICES ASSUME TypeOK, RecordedWhole, CreationOrder, ReadSoFar,
                      [Next]_vars
               PROVE  ReadSoFar'
    OBVIOUS
  <2>1. \A j \in Uploads :
           rows[j] = 1 => rows'[j] = 1 /\ summaries'[j] = 1
    BY TablesGrow
  <2> USE DEF TypeOK, TableTypeOK, ReadSoFar
  <2>2. CASE UNCHANGED <<client, read>>
    BY <2>1, <2>2
  <2>3. ASSUME NEW e \in {"status", "results"}, NEW j \in Uploads,
               SelectJob(e, j)
        PROVE  ReadSoFar'
    BY <2>3 DEF SelectJob, RecordedWhole, tableVars
  <2>4. CASE SelectRows
    BY <2>4 DEF SelectRows, tableVars
  <2>5. CASE SelectSummary
    BY <2>5 DEF SelectSummary, tableVars
  <2>6. CASE TakeAnswer
    BY <2>6 DEF TakeAnswer
  <2>7. CASE client' \in {"idle", "walking", "walked"}
    BY <2>7
  <2>8. QED
    BY <2>2, <2>3, <2>4, <2>5, <2>6, <2>7
       DEF Next, Request, vars, WriteTables, BeginWalk, ListPage, EndWalk
<1>3. QED
  BY <1>1, <1>2, TypeCorrect, RecordedWholeHolds, CreationOrderHolds, PTL
     DEF Spec

(* A 200 of /results carries the rows, once, and the summary; a "completed" *)
(* of /status carries the summary: three statements that see three commits *)
(* never mix a finished job with unfinished results.                       *)
THEOREM AnswersAreWhole == Spec => []AnswerIsWhole
<1>1. TypeOK /\ ReadSoFar => AnswerIsWhole
  BY DEF TypeOK, ReadSoFar, AnswerIsWhole, Code
<1>2. QED
  BY <1>1, TypeCorrect, ReadSoFarHolds, PTL

-----------------------------------------------------------------------------
(* GET /jobs.                                                              *)

(* Places are natural numbers, and the places of two jobs differ.          *)
LEMMA PlacesAreDistinct ==
    ASSUME TypeOK, CreationOrder, NEW f
    PROVE  /\ IsFiniteSet(Matching(f))
           /\ \A j \in Matching(f) :
                 Place(f, j) \in 0 .. Cardinality(Matching(f)) - 1
           /\ \A j, k \in Matching(f) : Place(f, j) = Place(f, k) => j = k
<1> DEFINE M == Matching(f)
           Newer(j) == {k \in M : createdAt[k] > createdAt[j]}
<1>0. M \subseteq Uploads /\ \A j \in M : status[j] # "none"
  BY DEF Matching, Jobs
<1>1. IsFiniteSet(M) /\ Cardinality(M) \in Nat
  BY <1>0, UploadsAssumption, FS_Subset, FS_CardinalityType
<1>2. \A j \in M : Place(f, j) = Cardinality(Newer(j))
  BY DEF Place
<1> HIDE DEF M
<1>3. ASSUME NEW j \in M
      PROVE  /\ IsFiniteSet(Newer(j))
             /\ Cardinality(Newer(j)) \in Nat
             /\ Cardinality(Newer(j)) < Cardinality(M)
  <2>1. Newer(j) \subseteq M \ {j}
    BY <1>0 DEF TypeOK, TableTypeOK
  <2>2. /\ IsFiniteSet(M \ {j})
        /\ Cardinality(M \ {j}) = Cardinality(M) - 1
    BY <1>1, FS_RemoveElement
  <2>3. IsFiniteSet(Newer(j)) /\ Cardinality(Newer(j)) <= Cardinality(M \ {j})
    BY <2>1, <2>2, FS_Subset
  <2>4. QED
    BY <1>1, <2>2, <2>3, FS_CardinalityType
<1>4. ASSUME NEW j \in M, NEW k \in M, createdAt[j] < createdAt[k]
      PROVE  Cardinality(Newer(k)) < Cardinality(Newer(j))
  <2>1. Newer(k) \cup {k} \subseteq Newer(j) /\ k \notin Newer(k)
    BY <1>0, <1>4 DEF TypeOK, TableTypeOK
  <2>2. Cardinality(Newer(k) \cup {k}) = Cardinality(Newer(k)) + 1
    BY <1>3, <2>1, FS_AddElement
  <2>3. Cardinality(Newer(k) \cup {k}) <= Cardinality(Newer(j))
    BY <1>3, <2>1, FS_Subset
  <2>4. Cardinality(Newer(k)) \in Nat /\ Cardinality(Newer(j)) \in Nat
    BY <1>3
  <2> HIDE DEF Newer
  <2>5. QED
    BY <2>2, <2>3, <2>4
<1>5. \A j, k \in M :
         j # k => createdAt[j] < createdAt[k] \/ createdAt[k] < createdAt[j]
  BY <1>0 DEF TypeOK, TableTypeOK, CreationOrder
<1> HIDE DEF Newer
<1>6. QED
  BY <1>1, <1>2, <1>3, <1>4, <1>5 DEF M

(* If a page is not full, no job lies behind it.                           *)
LEMMA ShortPageIsLast ==
    ASSUME TypeOK, CreationOrder, NEW f, NEW offset \in Nat,
           Cardinality(Page(f, offset)) < PageSize
    PROVE  \A j \in Matching(f) : Place(f, j) < offset + PageSize
<1> DEFINE n == Cardinality(Matching(f))
           P == [j \in Matching(f) |-> Place(f, j)]
           page == Page(f, offset)
           Due == offset .. offset + PageSize - 1
<1>1. /\ IsFiniteSet(Matching(f))
      /\ n \in Nat
      /\ P \in Injection(Matching(f), 0 .. n - 1)
  <2>1. /\ IsFiniteSet(Matching(f))
        /\ \A j \in Matching(f) : Place(f, j) \in 0 .. n - 1
        /\ \A j, k \in Matching(f) : Place(f, j) = Place(f, k) => j = k
    BY PlacesAreDistinct
  <2>2. P \in [Matching(f) -> 0 .. n - 1]
    BY <2>1
  <2>3. IsInjective(P)
    BY <2>1 DEF IsInjective
  <2>4. QED
    BY <2>1, <2>2, <2>3, FS_CardinalityType DEF Injection
<1>2. IsFiniteSet(0 .. n - 1) /\ Cardinality(0 .. n - 1) = n
  <2>1. n \in Nat
    BY <1>1
  <2> HIDE DEF n
  <2>2. QED
    BY <2>1, FS_Interval
<1>3. P \in Surjection(Matching(f), 0 .. n - 1)
  BY <1>1, <1>2, FS_Injection
<1>4. page = {j \in Matching(f) : P[j] \in Due}
  <2>1. \A j \in Matching(f) : P[j] \in Nat
    BY <1>1 DEF Injection
  <2>2. QED
    BY <2>1, PageSizeAssumption DEF Page
<1> HIDE DEF page
<1>5. SUFFICES ASSUME NEW j \in Matching(f), P[j] >= offset + PageSize
               PROVE  FALSE
  BY <1>1, PageSizeAssumption DEF Injection
<1> HIDE DEF P
<1>6. \A i \in Due : \E k \in page : P[k] = i
  <2>1. \A i \in Due : i \in 0 .. n - 1
    BY <1>1, <1>5, PageSizeAssumption DEF Injection
  <2>2. QED
    BY <1>3, <1>4, <2>1 DEF Surjection
<1>7. [k \in page |-> P[k]] \in Surjection(page, Due)
  BY <1>4, <1>6 DEF Surjection
<1>8. IsFiniteSet(page)
  BY <1>1, <1>4, FS_Subset
<1>9. Cardinality(Due) <= Cardinality(page)
  BY <1>7, <1>8, FS_Surjection
<1>10. Cardinality(Due) = PageSize
  BY FS_Interval, PageSizeAssumption
<1>11. QED
  BY <1>8, <1>9, <1>10, FS_CardinalityType, PageSizeAssumption DEF page

(* A job that keeps the status stays in the list.                          *)
LEMMA StayersStay ==
    ASSUME TypeOK, RecordedWhole, CreationOrder, [Next]_vars, NEW f
    PROVE  /\ Matching(f) \ Leavers(f) \subseteq Matching(f)'
           /\ \A j \in Matching(f) : createdAt'[j] = createdAt[j]
  BY TablesGrow DEF Matching, Leavers

(* Of the jobs with a status one at a time can lose it, and none of all    *)
(* jobs can be lost.                                                       *)
LEMMA OneLeaver ==
    ASSUME TypeOK, [Next]_vars, NEW f
    PROVE  /\ \A i, k \in Leavers(f) : i = k
           /\ f = AnyStatus \/ UNCHANGED tableVars => Leavers(f) = {}
<1>1. CASE WriteTables
  <2>1. PICK j \in Uploads : TableStep(j)
    BY <1>1 DEF WriteTables, TableNext
  <2>2. \A k \in Uploads : k # j => status'[k] = status[k]
    BY <2>1
       DEF TypeOK, TableTypeOK, TableStep, BeginTransaction, CreateJob,
           SetProcessing, SetFailed, CommitResults, WriteStatus
  <2>3. QED
    BY <2>2 DEF Leavers, Matching, Jobs, tableVars
<1>2. CASE UNCHANGED tableVars
  BY <1>2 DEF Leavers, Matching, Jobs, tableVars
<1>3. QED
  BY <1>1, <1>2, RequestsOnlyRead

(* What lies behind an offset stays behind it, if it keeps the status and  *)
(* no job in front of the offset loses it: one that loses it behind the    *)
(* offset has as many jobs in front of it as before.                       *)
LEMMA PlacesStayBehind ==
    ASSUME TypeOK, TypeOK', RecordedWhole, CreationOrder, [Next]_vars,
           NEW f, NEW offset \in Nat,
           \A i \in Leavers(f) : offset <= Place(f, i),
           NEW j \in Matching(f) \ Leavers(f), offset <= Place(f, j)
    PROVE  offset <= Place(f, j)'
<1> DEFINE Newer(i) == {k \in Matching(f) : createdAt[k] > createdAt[i]}
           newer == {k \in Matching(f)' : createdAt'[k] > createdAt'[j]}
<1>1. /\ \A i \in Matching(f) :
            /\ Place(f, i) = Cardinality(Newer(i))
            /\ IsFiniteSet(Newer(i))
            /\ Cardinality(Newer(i)) \in Nat
      /\ Matching(f) \subseteq Uploads
  BY UploadsAssumption, FS_Subset, FS_CardinalityType
     DEF Place, Matching, Jobs
<1>2. /\ Place(f, j)' = Cardinality(newer)
      /\ IsFiniteSet(newer)
      /\ Cardinality(newer) \in Nat
  BY UploadsAssumption, FS_Subset, FS_CardinalityType
     DEF Place, Matching, Jobs
<1>3. /\ Matching(f) \ Leavers(f) \subseteq Matching(f)'
      /\ \A k \in Matching(f) : createdAt'[k] = createdAt[k]
  BY StayersStay
<1>4. CASE Newer(j) \cap Leavers(f) = {}
  <2>1. Newer(j) \subseteq newer
    BY <1>3, <1>4
  <2>2. Cardinality(Newer(j)) <= Cardinality(newer)
    BY <1>2, <2>1, FS_Subset
  <2> HIDE DEF Newer, newer
  <2>3. QED
    BY <1>1, <1>2, <2>2
<1>5. CASE Newer(j) \cap Leavers(f) # {}
  <2>1. PICK x \in Newer(j) \cap Leavers(f) : TRUE
    BY <1>5
  <2>2. ASSUME NEW k \in Newer(x) PROVE k \in newer
    <3>1. /\ createdAt[k] > createdAt[x] /\ createdAt[x] > createdAt[j]
          /\ {createdAt[k], createdAt[x], createdAt[j]} \subseteq Nat
          /\ k \in Matching(f)
      BY <1>1, <2>1, <2>2 DEF TypeOK, TableTypeOK
    <3>2. k \notin Leavers(f)
      BY <2>1, <3>1, OneLeaver
    <3>3. QED
      BY <1>3, <3>1, <3>2
  <2>3. Cardinality(Newer(x)) <= Cardinality(newer)
    BY <1>2, <2>2, FS_Subset
  <2>4. x \in Matching(f) /\ offset <= Place(f, x)
    BY <2>1
  <2> HIDE DEF Newer, newer
  <2>5. QED
    BY <1>1, <1>2, <2>3, <2>4
<1>6. QED
  BY <1>4, <1>5

(* Every job that was there when the walk began is listed or still to      *)
(* come, and the page that ends the walk has the last of them.             *)
LEMMA NothingSkippedHolds == Spec => []NothingSkipped
<1>1. Init => NothingSkipped
  BY DEF Init, NothingSkipped
<1>2. /\ TypeOK /\ TypeOK' /\ CreationOrder /\ RecordedWhole /\ NothingSkipped
      /\ [Next]_vars
      => NothingSkipped'
  <2> SUFFICES ASSUME TypeOK, TypeOK', CreationOrder, RecordedWhole,
                      NothingSkipped, [Next]_vars
               PROVE  NothingSkipped'
    OBVIOUS
  <2>1. CASE WriteTables
    <3>1. PICK f : f = walk.filter
      OBVIOUS
    <3>2. PICK offset : offset = walk.offset
      OBVIOUS
    <3>3. CASE client = "walking" /\ Leavers(f) # {}
      <4> DEFINE gone == Leavers(f)
                 behind == \E i \in gone : Place(f, i) < offset
      <4>1. /\ walk'.filter = f /\ walk'.offset = offset
            /\ walk'.known = walk.known \ gone
            /\ walk'.listed = walk.listed
            /\ walk'.shifted = (walk.shifted \/ behind)
            /\ client' = "walking"
        BY <2>1, <3>1, <3>2, <3>3 DEF WriteTables, Watch, TypeOK
      <4>2. f # AnyStatus
        BY <3>3, OneLeaver
      <4>3. walk.known \ gone \subseteq Matching(f)'
        BY <3>1, <3>3, StayersStay DEF NothingSkipped
      <4>4. ASSUME ~walk.shifted, ~behind,
                   NEW j \in (walk.known \ gone) \ walk.listed
            PROVE  offset <= Place(f, j)'
        <5>1. /\ j \in Matching(f) \ gone
              /\ offset <= Place(f, j)
              /\ offset \in Nat
          BY <3>1, <3>2, <3>3, <4>4 DEF NothingSkipped, TypeOK
        <5>2. \A i \in gone : offset <= Place(f, i)
          <6>1. \A i \in gone : i \in Matching(f)
            BY DEF Leavers
          <6>2. \A i \in Matching(f) : Place(f, i) \in Int
            BY PlacesAreDistinct
          <6>3. QED
            BY <4>4, <5>1, <6>1, <6>2
        <5>3. QED
          BY <5>1, <5>2, PlacesStayBehind
      <4> HIDE DEF gone, behind
      <4>5. QED
        BY <4>1, <4>2, <4>3, <4>4 DEF NothingSkipped
    <3>4. CASE client = "walking" /\ Leavers(f) = {}
      <4>1. walk' = walk /\ client' = "walking"
        BY <2>1, <3>1, <3>4 DEF WriteTables, Watch
      <4>2. walk.known \subseteq Matching(f)'
        BY <3>1, <3>4, StayersStay DEF NothingSkipped
      <4>3. ASSUME ~walk.shifted, NEW j \in walk.known \ walk.listed
            PROVE  offset <= Place(f, j)'
        <5>1. /\ j \in Matching(f) \ Leavers(f)
              /\ offset <= Place(f, j)
              /\ offset \in Nat
          BY <3>1, <3>2, <3>4, <4>3 DEF NothingSkipped, TypeOK
        <5>2. QED
          BY <3>4, <5>1, PlacesStayBehind
      <4>4. QED
        BY <3>1, <3>2, <3>4, <4>1, <4>2, <4>3 DEF NothingSkipped
    <3>5. CASE client # "walking"
      <4>1. walk' = walk /\ client' = client
        BY <2>1, <3>5 DEF WriteTables, Watch
      <4>2. QED
        BY <3>5, <4>1 DEF NothingSkipped
    <3>6. QED
      BY <3>3, <3>4, <3>5
  <2>2. ASSUME NEW f \in JobStatus \cup {AnyStatus}, BeginWalk(f)
        PROVE  NothingSkipped'
    <3>1. UNCHANGED tableVars
      BY <2>2 DEF BeginWalk
    <3>2. \A j \in Matching(f) : 0 <= Place(f, j)
      BY PlacesAreDistinct
    <3>3. Matching(f)' = Matching(f) /\ \A j : Place(f, j)' = Place(f, j)
      BY <3>1 DEF tableVars, Jobs, Place, Matching
    <3>4. /\ walk'.filter = f /\ walk'.offset = 0
          /\ walk'.known = Matching(f)
          /\ walk'.shifted = FALSE
          /\ client' = "walking"
      BY <2>2 DEF BeginWalk, NoWalk
    <3>5. QED
      BY <3>2, <3>3, <3>4 DEF NothingSkipped
  <2>3. CASE ListPage
    <3>1. PICK f : f = walk.filter
      OBVIOUS
    <3> DEFINE page == Page(f, walk.offset)
    <3>2. UNCHANGED tableVars
      BY <2>3 DEF ListPage
    <3>3. Matching(f)' = Matching(f) /\ \A j : Place(f, j)' = Place(f, j)
      BY <3>2 DEF tableVars, Jobs, Place, Matching
    <3>4. /\ walk.offset \in Nat
          /\ walk.filter = AnyStatus => ~walk.shifted
          /\ walk.known \subseteq Matching(f)
          /\ ~walk.shifted =>
                \A j \in walk.known \ walk.listed : walk.offset <= Place(f, j)
          /\ \A j \in Matching(f) : Place(f, j) \in Int
      BY <2>3, <3>1, PlacesAreDistinct DEF ListPage, NothingSkipped, TypeOK
    <3>5. ~walk.shifted =>
             \A j \in walk.known \ (walk.listed \cup page) :
                walk.offset + PageSize <= Place(f, j)
      BY <3>4, PageSizeAssumption DEF Page
    <3>6. ASSUME Cardinality(page) < PageSize, ~walk.shifted
          PROVE  walk.known \subseteq walk.listed \cup page
      <4>1. \A j \in Matching(f) : Place(f, j) < walk.offset + PageSize
        BY <3>4, <3>6, ShortPageIsLast
      <4>2. QED
        BY <3>4, <3>5, <3>6, <4>1, PageSizeAssumption
    <3>7. /\ walk'.filter = f
          /\ walk'.offset = walk.offset + PageSize
          /\ walk'.listed = walk.listed \cup page
          /\ walk'.known = walk.known
          /\ walk'.shifted = walk.shifted
          /\ client' = IF Cardinality(page) < PageSize THEN "walked" ELSE "walking"
      BY <2>3, <3>1 DEF ListPage, TypeOK
    <3> HIDE DEF page
    <3>8. QED
      BY <3>1, <3>3, <3>4, <3>5, <3>6, <3>7 DEF NothingSkipped
  <2>4. CASE client' \notin {"walking", "walked"}
    BY <2>4 DEF NothingSkipped
  <2>5. CASE UNCHANGED vars
    <3>1. Jobs' = Jobs /\ \A f : Matching(f)' = Matching(f)
      BY <2>5 DEF vars, tableVars, Jobs, Matching
    <3>2. \A f, j : Place(f, j)' = Place(f, j)
      BY <2>5, <3>1 DEF vars, tableVars, Place
    <3>3. QED
      BY <2>5, <3>1, <3>2 DEF vars, NothingSkipped
  <2>6. QED
    BY <2>1, <2>2, <2>3, <2>4, <2>5
       DEF Next, Request, SelectJob, SelectRows, SelectSummary, TakeAnswer,
           EndWalk
<1>3. QED
  BY <1>1, <1>2, TypeCorrect, CreationOrderHolds, RecordedWholeHolds, PTL
     DEF Spec

(* A walk through the pages lists every job that was there when it began,  *)
(* although jobs are inserted between its pages, also with an older        *)
(* created_at than jobs already listed (repository.py:67); with a status   *)
(* filter, every job that keeps the status, unless one that was listed     *)
(* loses it.                                                               *)
THEOREM WalksSeeAll == Spec => []WalkSeesAll
<1>1. NothingSkipped => WalkSeesAll
  BY DEF NothingSkipped, WalkSeesAll
<1>2. QED
  BY <1>1, NothingSkippedHolds, PTL
=============================================================================
