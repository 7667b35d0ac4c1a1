------------------------------- MODULE Service -------------------------------
(***************************************************************************)
(* The whole service: handlers, workers, broker, directory and cleanup of  *)
(* Pipeline.tla with the read endpoints of Readers.tla at the same tables. *)
(* Neither was checked beside the other; that they may be is proved here.  *)
(***************************************************************************)
EXTENDS PipelineProofs

CONSTANT PageSize    \* the limit the client asks for

VARIABLES client, read, walk

Get == INSTANCE ReadersProofs

serviceVars == <<vars, client, read, walk>>

ServiceInit == Init /\ Get!Init

(* A SELECT is one step, and so is a commit: they come in any order.  All  *)
(* a commit does to a reader is what it does to the rows the reader will   *)
(* see (Watch is history).                                                 *)
ServiceNext ==
    \/ Next /\ Get!Watch /\ UNCHANGED <<client, read>>
    \/ Get!Request /\ UNCHANGED vars

ServiceSpec == ServiceInit /\ [][ServiceNext]_serviceVars

-----------------------------------------------------------------------------
(* The requests do not disturb the pipeline.                               *)
LEMMA ServiceIsPipeline == ServiceSpec => Spec
<1>1. ServiceInit => Init
  BY DEF ServiceInit
<1>2. [ServiceNext]_serviceVars => [Next]_vars
  BY DEF ServiceNext, serviceVars
<1>3. QED
  BY <1>1, <1>2, PTL DEF ServiceSpec, Spec

(* The tables the readers are checked against are those of the pipeline.   *)
LEMMA SameTables == TableNext <=> Get!TableNext
<1>1. \A j : BeginTransaction(j) <=> Get!BeginTransaction(j)
  BY DEF BeginTransaction, Get!BeginTransaction
<1>2. \A j : CreateJob(j) <=> Get!CreateJob(j)
  BY DEF CreateJob, WriteStatus, Get!CreateJob, Get!WriteStatus
<1>3. \A j, who : SetProcessing(j, who) <=> Get!SetProcessing(j, who)
  BY DEF SetProcessing, WriteStatus, Get!SetProcessing, Get!WriteStatus
<1>4. \A j : SetFailed(j) <=> Get!SetFailed(j)
  BY DEF SetFailed, WriteStatus, Get!SetFailed, Get!WriteStatus
<1>5. \A j : CommitResults(j) <=> Get!CommitResults(j)
  BY DEF CommitResults, WriteStatus, Get!CommitResults, Get!WriteStatus
<1>6. \A j : UniqueViolation(j) <=> Get!UniqueViolation(j)
  BY DEF UniqueViolation, Get!UniqueViolation
<1>7. \A j : TableStep(j) <=> Get!TableStep(j)
  BY <1>1, <1>2, <1>3, <1>4, <1>5, <1>6 DEF TableStep, Get!TableStep
<1>8. QED
  BY <1>7 DEF TableNext, Get!TableNext

(* Every behaviour of the service is one of the readers beside tables that *)
(* change as they please: whatever the pipeline does to the tables,        *)
(* JobTable.tla allows it (TablesUsed).                                    *)
THEOREM ReadersAreServed == ServiceSpec => Get!Spec
<1>1. ServiceInit => Get!Init
  BY DEF ServiceInit
<1>2. [ServiceNext]_serviceVars /\ [TableNext]_tableVars
        => [Get!Next]_(Get!vars)
  <2> SUFFICES ASSUME [ServiceNext]_serviceVars, [TableNext]_tableVars
               PROVE  Get!Next \/ UNCHANGED Get!vars
    OBVIOUS
  <2> USE DEF Get!vars, Get!tableVars, tableVars
  <2>1. CASE Get!Request /\ UNCHANGED vars
    BY <2>1 DEF Get!Next
  <2>2. CASE Get!Watch /\ UNCHANGED <<client, read>> /\ TableNext
    BY <2>2, SameTables DEF Get!Next, Get!WriteTables
  <2>3. CASE Get!Watch /\ UNCHANGED <<client, read>> /\ UNCHANGED tableVars
    <3>1. Get!Leavers(walk.filter) = {}
      BY <2>3 DEF Get!Leavers, Get!Matching
    <3>2. walk' = walk
      BY <2>3, <3>1 DEF Get!Watch
    <3>3. QED
      BY <2>3, <3>2
  <2>4. CASE UNCHANGED serviceVars
    BY <2>4 DEF serviceVars, vars
  <2>5. QED
    BY <2>1, <2>2, <2>3, <2>4 DEF ServiceNext
<1>3. QED
  BY <1>1, <1>2, ServiceIsPipeline, TablesUsed, PTL
     DEF ServiceSpec, Get!Spec, UsesTables, TableSpec

LEMMA FiniteForReaders == Get!IsFiniteSet(Uploads)
  BY UploadsAssumption DEF IsFiniteSet, Get!IsFiniteSet

(* With every fault of the pipeline at work, no answer is torn: a 200 of   *)
(* /results has the job's rows, once, and its summary.                     *)
THEOREM ServedAnswersAreWhole ==
    ASSUME PageSize \in Nat \ {0}
    PROVE  ServiceSpec => []Get!AnswerIsWhole
<1>1. Get!Spec => []Get!AnswerIsWhole
  BY FiniteForReaders, ContentAssumption, Get!AnswersAreWhole
<1>2. QED
  BY <1>1, ReadersAreServed, PTL

(* ... and no walk through the pages misses a job it knew of: without a    *)
(* filter in any case, with one if no listed job has lost the status.      *)
THEOREM ServedWalksSeeAll ==
    ASSUME PageSize \in Nat \ {0}
    PROVE  ServiceSpec => []Get!WalkSeesAll
<1>1. Get!Spec => []Get!WalkSeesAll
  BY FiniteForReaders, ContentAssumption, Get!WalksSeeAll
<1>2. QED
  BY <1>1, ReadersAreServed, PTL
=============================================================================
