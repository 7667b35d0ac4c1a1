--------------------------- MODULE PipelineProofs ---------------------------
(***************************************************************************)
(* Theorems about the pipeline, for any number of uploads, workers and     *)
(* redeliveries and any mix of faults.                                     *)
(***************************************************************************)
EXTENDS PipelineProperties, TLAPS

-----------------------------------------------------------------------------
(* Every variable keeps its type, and a worker process has a task exactly  *)
(* while it is not idle.                                                   *)
THEOREM TypeCorrect == Spec => []TypeOK
<1> USE DEF TypeOK, TableTypeOK, BrokerTypeOK, DirTypeOK, JobStatus,
            ApiPC, ApiOver, WorkerPC, Running, Trying
<1>1. Init => TypeOK
  BY PipelineAssumption, NoTaskAssumption
     DEF Init, TableInit, BrokerInit, DirInit
<1>2. TypeOK /\ [Next]_vars => TypeOK'
  <2> SUFFICES ASSUME TypeOK, [Next]_vars PROVE TypeOK'
    OBVIOUS
  <2> USE PipelineAssumption, NoTaskAssumption, UpperCaseAssumption
          DEF tableVars, brokerVars, dirVars,
              ApiStep, WorkerStep, WriteStatus
  <2>1. ASSUME NEW u \in Uploads, BeginStream(u) PROVE TypeOK'
    BY <2>1 DEF BeginStream, WriteFile
  <2>2. ASSUME NEW u \in Uploads, RejectStream(u) PROVE TypeOK'
    BY <2>2 DEF RejectStream, Unlink
  <2>3. ASSUME NEW u \in Uploads, FinishStream(u) PROVE TypeOK'
    BY <2>3 DEF FinishStream
  <2>4. ASSUME NEW u \in Uploads, Lookup(u) PROVE TypeOK'
    BY <2>4 DEF Lookup, BeginTransaction
  <2>5. ASSUME NEW u \in Uploads, AnswerDuplicate(u) PROVE TypeOK'
    BY <2>5 DEF AnswerDuplicate, Unlink
  <2>6. ASSUME NEW u \in Uploads, Create(u) PROVE TypeOK'
    BY <2>6 DEF Create, CreateJob
  <2>7. ASSUME NEW u \in Uploads, Enqueue(u) PROVE TypeOK'
    BY <2>7 DEF Enqueue, Publish
  <2>8. ASSUME NEW u \in Uploads, MarkEnqueued(u) PROVE TypeOK'
    BY <2>8 DEF MarkEnqueued, SetProcessing
  <2>9. ASSUME NEW u \in Uploads, ApiAbort(u) PROVE TypeOK'
    BY <2>9 DEF ApiAbort
  <2>10. ASSUME NEW w \in Workers, NEW u \in Uploads, Receive(w, u)
         PROVE  TypeOK'
    BY <2>10 DEF Receive, Deliver
  <2>11. ASSUME NEW w \in Workers, BeginProcessing(w) PROVE TypeOK'
    BY <2>11 DEF BeginProcessing, SetProcessing
  <2>12. ASSUME NEW w \in Workers, LoadFile(w) PROVE TypeOK'
    BY <2>12 DEF LoadFile
  <2>13. ASSUME NEW w \in Workers, InsertRows(w) PROVE TypeOK'
    BY <2>13 DEF InsertRows
  <2>14. ASSUME NEW w \in Workers, InsertSummary(w) PROVE TypeOK'
    BY <2>14 DEF InsertSummary
  <2>15. ASSUME NEW w \in Workers, Complete(w) PROVE TypeOK'
    BY <2>15 DEF Complete, CommitResults
  <2>16. ASSUME NEW w \in Workers, RemoveFile(w) PROVE TypeOK'
    BY <2>16 DEF RemoveFile, Unlink
  <2>17. ASSUME NEW w \in Workers, StepError(w) PROVE TypeOK'
    BY <2>17 DEF StepError
  <2>18. ASSUME NEW w \in Workers, MarkFailed(w) PROVE TypeOK'
    BY <2>18 DEF MarkFailed, SetFailed
  <2>19. ASSUME NEW w \in Workers, Abandon(w) PROVE TypeOK'
    BY <2>19 DEF Abandon, ErrorBeforeTry
  <2>20. ASSUME NEW w \in Workers, Ack(w) PROVE TypeOK'
    BY <2>20 DEF Ack, Acknowledge
  <2>21. ASSUME NEW w \in Workers, WorkerCrash(w) PROVE TypeOK'
    BY <2>21 DEF WorkerCrash, Requeue, CountRedelivery
  <2>22. ASSUME NEW w \in Workers, ConnectionLost(w) PROVE TypeOK'
    BY <2>22 DEF ConnectionLost, Requeue, CountRedelivery
  <2>23. ASSUME NEW u \in Uploads, Age(u) PROVE TypeOK'
    BY <2>23 DEF Age, GrowOld
  <2>24. ASSUME Sweep PROVE TypeOK'
    BY <2>24 DEF Sweep, StartSweep, SweepFile, AbortSweep
  <2>25. CASE UNCHANGED vars
    BY <2>25 DEF vars
  <2>26. QED
    BY <2>1, <2>2, <2>3, <2>4, <2>5, <2>6, <2>7, <2>8, <2>9, <2>10, <2>11,
       <2>12, <2>13, <2>14, <2>15, <2>16, <2>17, <2>18, <2>19, <2>20, <2>21,
       <2>22, <2>23, <2>24, <2>25
       DEF Next, Handler, Task
<1>3. QED
  BY <1>1, <1>2, PTL DEF Spec
-----------------------------------------------------------------------------
(* Messages.                                                               *)

(* A worker that holds a message holds the one of its own task.            *)
LEMMA OwnershipHolds == Spec => []Ownership
<1>1. Init => Ownership
  BY NoTaskAssumption DEF Init, TableInit, BrokerInit, DirInit, Ownership
<1>2. /\ TypeOK /\ TypeOK' /\ Ownership
      /\ [Next]_vars
      => Ownership'
  <2> SUFFICES ASSUME TypeOK, TypeOK', Ownership,
                      [Next]_vars
               PROVE  Ownership'
    OBVIOUS
  <2> USE NoTaskAssumption
          DEF TypeOK, TableTypeOK, BrokerTypeOK, DirTypeOK,
              Ownership, tableVars, brokerVars, dirVars,
              ApiStep, WorkerStep, WriteStatus
  <2>1. ASSUME NEW u \in Uploads, BeginStream(u) PROVE Ownership'
    BY <2>1 DEF BeginStream, WriteFile
  <2>2. ASSUME NEW u \in Uploads, RejectStream(u) PROVE Ownership'
    BY <2>2 DEF RejectStream, Unlink
  <2>3. ASSUME NEW u \in Uploads, FinishStream(u) PROVE Ownership'
    BY <2>3 DEF FinishStream
  <2>4. ASSUME NEW u \in Uploads, Lookup(u) PROVE Ownership'
    BY <2>4 DEF Lookup, BeginTransaction
  <2>5. ASSUME NEW u \in Uploads, AnswerDuplicate(u) PROVE Ownership'
    BY <2>5 DEF AnswerDuplicate, Unlink
  <2>6. ASSUME NEW u \in Uploads, Create(u) PROVE Ownership'
    BY <2>6 DEF Create, CreateJob
  <2>7. ASSUME NEW u \in Uploads, Enqueue(u) PROVE Ownership'
    BY <2>7 DEF Enqueue, Publish
  <2>8. ASSUME NEW u \in Uploads, MarkEnqueued(u) PROVE Ownership'
    BY <2>8 DEF MarkEnqueued, SetProcessing
  <2>9. ASSUME NEW u \in Uploads, ApiAbort(u) PROVE Ownership'
    BY <2>9 DEF ApiAbort
  <2>10. ASSUME NEW w \in Workers, NEW u \in Uploads, Receive(w, u)
         PROVE  Ownership'
    BY <2>10 DEF Receive, Deliver
  <2>11. ASSUME NEW w \in Workers, BeginProcessing(w) PROVE Ownership'
    BY <2>11 DEF BeginProcessing, SetProcessing
  <2>12. ASSUME NEW w \in Workers, LoadFile(w) PROVE Ownership'
    BY <2>12 DEF LoadFile
  <2>13. ASSUME NEW w \in Workers, InsertRows(w) PROVE Ownership'
    BY <2>13 DEF InsertRows
  <2>14. ASSUME NEW w \in Workers, InsertSummary(w) PROVE Ownership'
    BY <2>14 DEF InsertSummary
  <2>15. ASSUME NEW w \in Workers, Complete(w) PROVE Ownership'
    BY <2>15 DEF Complete, CommitResults
  <2>16. ASSUME NEW w \in Workers, RemoveFile(w) PROVE Ownership'
    BY <2>16 DEF RemoveFile, Unlink
  <2>17. ASSUME NEW w \in Workers, StepError(w) PROVE Ownership'
    BY <2>17 DEF StepError
  <2>18. ASSUME NEW w \in Workers, MarkFailed(w) PROVE Ownership'
    BY <2>18 DEF MarkFailed, SetFailed
  <2>19. ASSUME NEW w \in Workers, Abandon(w) PROVE Ownership'
    BY <2>19 DEF Abandon, ErrorBeforeTry
  <2>20. ASSUME NEW w \in Workers, Ack(w) PROVE Ownership'
    BY <2>20 DEF Ack, Acknowledge
  <2>21. ASSUME NEW w \in Workers, WorkerCrash(w) PROVE Ownership'
    BY <2>21 DEF WorkerCrash, Requeue, CountRedelivery
  <2>22. ASSUME NEW w \in Workers, ConnectionLost(w) PROVE Ownership'
    BY <2>22 DEF ConnectionLost, Requeue, CountRedelivery
  <2>23. ASSUME NEW u \in Uploads, Age(u) PROVE Ownership'
    BY <2>23 DEF Age, GrowOld
  <2>24. ASSUME Sweep PROVE Ownership'
    BY <2>24 DEF Sweep, StartSweep, SweepFile, AbortSweep
  <2>25. CASE UNCHANGED vars
    BY <2>25 DEF vars
  <2>26. QED
    BY <2>1, <2>2, <2>3, <2>4, <2>5, <2>6, <2>7, <2>8, <2>9, <2>10, <2>11,
       <2>12, <2>13, <2>14, <2>15, <2>16, <2>17, <2>18, <2>19, <2>20, <2>21,
       <2>22, <2>23, <2>24, <2>25
       DEF Next, Handler, Task
<1>3. QED
  BY <1>1, <1>2, TypeCorrect, PTL DEF Spec

(* No message is lost and none is in two places: from apply_async on, it   *)
(* is in the queue, in one worker's hands, or settled                      *)
(* (celery_app.py:44-45).                                                  *)
THEOREM MessagesInOnePlace == Spec => []TaskInOnePlace
<1>1. Init => TaskInOnePlace
  BY NoTaskAssumption DEF Init, TableInit, BrokerInit, DirInit,
              TaskInOnePlace, Holders, Outstanding, Published
<1>2. /\ TypeOK /\ TypeOK' /\ Ownership /\ TaskInOnePlace
      /\ [Next]_vars
      => TaskInOnePlace'
  <2> SUFFICES ASSUME TypeOK, TypeOK', Ownership, TaskInOnePlace,
                      [Next]_vars
               PROVE  TaskInOnePlace'
    OBVIOUS
  <2> USE NoTaskAssumption
          DEF TypeOK, TableTypeOK, BrokerTypeOK, DirTypeOK,
              Ownership, TaskInOnePlace, Holders, Outstanding, Published,
              tableVars, brokerVars, dirVars,
              ApiStep, WorkerStep, WriteStatus
  <2>1. ASSUME NEW u \in Uploads, BeginStream(u) PROVE TaskInOnePlace'
    BY <2>1 DEF BeginStream, WriteFile
  <2>2. ASSUME NEW u \in Uploads, RejectStream(u) PROVE TaskInOnePlace'
    BY <2>2 DEF RejectStream, Unlink
  <2>3. ASSUME NEW u \in Uploads, FinishStream(u) PROVE TaskInOnePlace'
    BY <2>3 DEF FinishStream
  <2>4. ASSUME NEW u \in Uploads, Lookup(u) PROVE TaskInOnePlace'
    BY <2>4 DEF Lookup, BeginTransaction
  <2>5. ASSUME NEW u \in Uploads, AnswerDuplicate(u) PROVE TaskInOnePlace'
    BY <2>5 DEF AnswerDuplicate, Unlink
  <2>6. ASSUME NEW u \in Uploads, Create(u) PROVE TaskInOnePlace'
    BY <2>6 DEF Create, CreateJob
  <2>7. ASSUME NEW u \in Uploads, Enqueue(u) PROVE TaskInOnePlace'
    BY <2>7 DEF Enqueue, Publish
  <2>8. ASSUME NEW u \in Uploads, MarkEnqueued(u) PROVE TaskInOnePlace'
    BY <2>8 DEF MarkEnqueued, SetProcessing
  <2>9. ASSUME NEW u \in Uploads, ApiAbort(u) PROVE TaskInOnePlace'
    BY <2>9 DEF ApiAbort
  <2>10. ASSUME NEW w \in Workers, NEW u \in Uploads, Receive(w, u)
         PROVE  TaskInOnePlace'
    BY <2>10 DEF Receive, Deliver
  <2>11. ASSUME NEW w \in Workers, BeginProcessing(w) PROVE TaskInOnePlace'
    BY <2>11 DEF BeginProcessing, SetProcessing
  <2>12. ASSUME NEW w \in Workers, LoadFile(w) PROVE TaskInOnePlace'
    BY <2>12 DEF LoadFile
  <2>13. ASSUME NEW w \in Workers, InsertRows(w) PROVE TaskInOnePlace'
    BY <2>13 DEF InsertRows
  <2>14. ASSUME NEW w \in Workers, InsertSummary(w) PROVE TaskInOnePlace'
    BY <2>14 DEF InsertSummary
  <2>15. ASSUME NEW w \in Workers, Complete(w) PROVE TaskInOnePlace'
    BY <2>15 DEF Complete, CommitResults
  <2>16. ASSUME NEW w \in Workers, RemoveFile(w) PROVE TaskInOnePlace'
    BY <2>16 DEF RemoveFile, Unlink
  <2>17. ASSUME NEW w \in Workers, StepError(w) PROVE TaskInOnePlace'
    BY <2>17 DEF StepError
  <2>18. ASSUME NEW w \in Workers, MarkFailed(w) PROVE TaskInOnePlace'
    BY <2>18 DEF MarkFailed, SetFailed
  <2>19. ASSUME NEW w \in Workers, Abandon(w) PROVE TaskInOnePlace'
    BY <2>19 DEF Abandon, ErrorBeforeTry
  <2>20. ASSUME NEW w \in Workers, Ack(w) PROVE TaskInOnePlace'
    BY <2>20 DEF Ack, Acknowledge
  <2>21. ASSUME NEW w \in Workers, WorkerCrash(w) PROVE TaskInOnePlace'
    BY <2>21 DEF WorkerCrash, Requeue, CountRedelivery
  <2>22. ASSUME NEW w \in Workers, ConnectionLost(w) PROVE TaskInOnePlace'
    BY <2>22 DEF ConnectionLost, Requeue, CountRedelivery
  <2>23. ASSUME NEW u \in Uploads, Age(u) PROVE TaskInOnePlace'
    BY <2>23 DEF Age, GrowOld
  <2>24. ASSUME Sweep PROVE TaskInOnePlace'
    BY <2>24 DEF Sweep, StartSweep, SweepFile, AbortSweep
  <2>25. CASE UNCHANGED vars
    BY <2>25 DEF vars
  <2>26. QED
    BY <2>1, <2>2, <2>3, <2>4, <2>5, <2>6, <2>7, <2>8, <2>9, <2>10, <2>11,
       <2>12, <2>13, <2>14, <2>15, <2>16, <2>17, <2>18, <2>19, <2>20, <2>21,
       <2>22, <2>23, <2>24, <2>25
       DEF Next, Handler, Task
<1>3. QED
  BY <1>1, <1>2, TypeCorrect, OwnershipHolds, PTL DEF Spec

-----------------------------------------------------------------------------
(* Jobs.                                                                   *)

(* The row of a job, the request that made it and the tasks that work on   *)
(* it agree on how far the job is.                                         *)
LEMMA LifecycleHolds == Spec => []JobLifecycle
<1>1. Init => JobLifecycle
  BY NoTaskAssumption DEF Init, TableInit, BrokerInit, DirInit,
              JobLifecycle, Started, Published, Trying
<1>2. /\ TypeOK /\ TypeOK' /\ Ownership /\ TaskInOnePlace /\ JobLifecycle
      /\ [Next]_vars
      => JobLifecycle'
  <2> SUFFICES ASSUME TypeOK, TypeOK', Ownership, TaskInOnePlace, JobLifecycle,
                      [Next]_vars
               PROVE  JobLifecycle'
    OBVIOUS
  <2> USE NoTaskAssumption
          DEF TypeOK, TableTypeOK, BrokerTypeOK, DirTypeOK,
              JobLifecycle, Started, Published, Running, Trying, ApiOver,
              tableVars, brokerVars, dirVars,
              ApiStep, WorkerStep, WriteStatus
  <2>1. ASSUME NEW u \in Uploads, BeginStream(u) PROVE JobLifecycle'
    BY <2>1 DEF BeginStream, WriteFile
  <2>2. ASSUME NEW u \in Uploads, RejectStream(u) PROVE JobLifecycle'
    BY <2>2 DEF RejectStream, Unlink
  <2>3. ASSUME NEW u \in Uploads, FinishStream(u) PROVE JobLifecycle'
    BY <2>3 DEF FinishStream
  <2>4. ASSUME NEW u \in Uploads, Lookup(u) PROVE JobLifecycle'
    BY <2>4 DEF Lookup, BeginTransaction
  <2>5. ASSUME NEW u \in Uploads, AnswerDuplicate(u) PROVE JobLifecycle'
    BY <2>5 DEF AnswerDuplicate, Unlink
  <2>6. ASSUME NEW u \in Uploads, Create(u) PROVE JobLifecycle'
    BY <2>6 DEF Create, CreateJob
  <2>7. ASSUME NEW u \in Uploads, Enqueue(u) PROVE JobLifecycle'
    BY <2>7 DEF Enqueue, Publish
  <2>8. ASSUME NEW u \in Uploads, MarkEnqueued(u) PROVE JobLifecycle'
    BY <2>8 DEF MarkEnqueued, SetProcessing
  <2>9. ASSUME NEW u \in Uploads, ApiAbort(u) PROVE JobLifecycle'
    BY <2>9 DEF ApiAbort
  <2>10. ASSUME NEW w \in Workers, NEW u \in Uploads, Receive(w, u)
         PROVE  JobLifecycle'
    BY <2>10 DEF Receive, Deliver, TaskInOnePlace, Holders, Outstanding
  <2>11. ASSUME NEW w \in Workers, BeginProcessing(w) PROVE JobLifecycle'
    BY <2>11 DEF BeginProcessing, SetProcessing
  <2>12. ASSUME NEW w \in Workers, LoadFile(w) PROVE JobLifecycle'
    BY <2>12 DEF LoadFile
  <2>13. ASSUME NEW w \in Workers, InsertRows(w) PROVE JobLifecycle'
    BY <2>13 DEF InsertRows
  <2>14. ASSUME NEW w \in Workers, InsertSummary(w) PROVE JobLifecycle'
    BY <2>14 DEF InsertSummary
  <2>15. ASSUME NEW w \in Workers, Complete(w) PROVE JobLifecycle'
    BY <2>15 DEF Complete, CommitResults
  <2>16. ASSUME NEW w \in Workers, RemoveFile(w) PROVE JobLifecycle'
    BY <2>16 DEF RemoveFile, Unlink
  <2>17. ASSUME NEW w \in Workers, StepError(w) PROVE JobLifecycle'
    BY <2>17 DEF StepError
  <2>18. ASSUME NEW w \in Workers, MarkFailed(w) PROVE JobLifecycle'
    BY <2>18 DEF MarkFailed, SetFailed
  <2>19. ASSUME NEW w \in Workers, Abandon(w) PROVE JobLifecycle'
    BY <2>19 DEF Abandon, ErrorBeforeTry
  <2>20. ASSUME NEW w \in Workers, Ack(w) PROVE JobLifecycle'
    BY <2>20 DEF Ack, Acknowledge
  <2>21. ASSUME NEW w \in Workers, WorkerCrash(w) PROVE JobLifecycle'
    BY <2>21 DEF WorkerCrash, Requeue, CountRedelivery
  <2>22. ASSUME NEW w \in Workers, ConnectionLost(w) PROVE JobLifecycle'
    BY <2>22 DEF ConnectionLost, Requeue, CountRedelivery
  <2>23. ASSUME NEW u \in Uploads, Age(u) PROVE JobLifecycle'
    BY <2>23 DEF Age, GrowOld
  <2>24. ASSUME Sweep PROVE JobLifecycle'
    BY <2>24 DEF Sweep, StartSweep, SweepFile, AbortSweep
  <2>25. CASE UNCHANGED vars
    BY <2>25 DEF vars
  <2>26. QED
    BY <2>1, <2>2, <2>3, <2>4, <2>5, <2>6, <2>7, <2>8, <2>9, <2>10, <2>11,
       <2>12, <2>13, <2>14, <2>15, <2>16, <2>17, <2>18, <2>19, <2>20, <2>21,
       <2>22, <2>23, <2>24, <2>25
       DEF Next, Handler, Task
<1>3. QED
  BY <1>1, <1>2, TypeCorrect, OwnershipHolds, MessagesInOnePlace, PTL DEF Spec

(* A later upload of the same content is answered with a job only if that  *)
(* job's message is out (jobs.py:104-115 against 118-134).                 *)
THEOREM DuplicatesArePublished == Spec => []DuplicateIsPublished
<1>1. TypeOK /\ JobLifecycle => DuplicateIsPublished
  BY DEF JobLifecycle, DuplicateIsPublished, Started, FindByHash, Jobs
<1>2. QED
  BY <1>1, TypeCorrect, LifecycleHolds, PTL

(* At most one of the executions of a task gets past the summary insert.   *)
LEMMA OneCommitHolds == Spec => []OneCommit
<1>1. Init => OneCommit
  BY NoTaskAssumption DEF Init, TableInit, BrokerInit, DirInit,
              OneCommit, ResultsExactlyOnce, CompletedHasResults
<1>2. /\ TypeOK /\ TypeOK' /\ JobLifecycle /\ OneCommit
      /\ [Next]_vars
      => OneCommit'
  <2> SUFFICES ASSUME TypeOK, TypeOK', JobLifecycle, OneCommit,
                      [Next]_vars
               PROVE  OneCommit'
    OBVIOUS
  <2> USE NoTaskAssumption
          DEF TypeOK, TableTypeOK, BrokerTypeOK, DirTypeOK,
              OneCommit, ResultsExactlyOnce, CompletedHasResults,
              Trying, Running, tableVars, brokerVars, dirVars,
              ApiStep, WorkerStep, WriteStatus
  <2>1. ASSUME NEW u \in Uploads, BeginStream(u) PROVE OneCommit'
    BY <2>1 DEF BeginStream, WriteFile
  <2>2. ASSUME NEW u \in Uploads, RejectStream(u) PROVE OneCommit'
    BY <2>2 DEF RejectStream, Unlink
  <2>3. ASSUME NEW u \in Uploads, FinishStream(u) PROVE OneCommit'
    BY <2>3 DEF FinishStream
  <2>4. ASSUME NEW u \in Uploads, Lookup(u) PROVE OneCommit'
    BY <2>4 DEF Lookup, BeginTransaction
  <2>5. ASSUME NEW u \in Uploads, AnswerDuplicate(u) PROVE OneCommit'
    BY <2>5 DEF AnswerDuplicate, Unlink
  <2>6. ASSUME NEW u \in Uploads, Create(u) PROVE OneCommit'
    BY <2>6 DEF Create, CreateJob, JobLifecycle
  <2>7. ASSUME NEW u \in Uploads, Enqueue(u) PROVE OneCommit'
    BY <2>7 DEF Enqueue, Publish
  <2>8. ASSUME NEW u \in Uploads, MarkEnqueued(u) PROVE OneCommit'
    BY <2>8 DEF MarkEnqueued, SetProcessing
  <2>9. ASSUME NEW u \in Uploads, ApiAbort(u) PROVE OneCommit'
    BY <2>9 DEF ApiAbort
  <2>10. ASSUME NEW w \in Workers, NEW u \in Uploads, Receive(w, u)
         PROVE  OneCommit'
    BY <2>10 DEF Receive, Deliver
  <2>11. ASSUME NEW w \in Workers, BeginProcessing(w) PROVE OneCommit'
    BY <2>11 DEF BeginProcessing, SetProcessing
  <2>12. ASSUME NEW w \in Workers, LoadFile(w) PROVE OneCommit'
    BY <2>12 DEF LoadFile
  <2>13. ASSUME NEW w \in Workers, InsertRows(w) PROVE OneCommit'
    BY <2>13 DEF InsertRows
  <2>14. ASSUME NEW w \in Workers, InsertSummary(w) PROVE OneCommit'
    BY <2>14 DEF InsertSummary, SummaryLocked, UniqueViolation
  <2>15. ASSUME NEW w \in Workers, Complete(w) PROVE OneCommit'
    BY <2>15 DEF Complete, CommitResults
  <2>16. ASSUME NEW w \in Workers, RemoveFile(w) PROVE OneCommit'
    BY <2>16 DEF RemoveFile, Unlink
  <2>17. ASSUME NEW w \in Workers, StepError(w) PROVE OneCommit'
    BY <2>17 DEF StepError
  <2>18. ASSUME NEW w \in Workers, MarkFailed(w) PROVE OneCommit'
    BY <2>18 DEF MarkFailed, SetFailed
  <2>19. ASSUME NEW w \in Workers, Abandon(w) PROVE OneCommit'
    BY <2>19 DEF Abandon, ErrorBeforeTry
  <2>20. ASSUME NEW w \in Workers, Ack(w) PROVE OneCommit'
    BY <2>20 DEF Ack, Acknowledge
  <2>21. ASSUME NEW w \in Workers, WorkerCrash(w) PROVE OneCommit'
    BY <2>21 DEF WorkerCrash, Requeue, CountRedelivery
  <2>22. ASSUME NEW w \in Workers, ConnectionLost(w) PROVE OneCommit'
    BY <2>22 DEF ConnectionLost, Requeue, CountRedelivery
  <2>23. ASSUME NEW u \in Uploads, Age(u) PROVE OneCommit'
    BY <2>23 DEF Age, GrowOld
  <2>24. ASSUME Sweep PROVE OneCommit'
    BY <2>24 DEF Sweep, StartSweep, SweepFile, AbortSweep
  <2>25. CASE UNCHANGED vars
    BY <2>25 DEF vars
  <2>26. QED
    BY <2>1, <2>2, <2>3, <2>4, <2>5, <2>6, <2>7, <2>8, <2>9, <2>10, <2>11,
       <2>12, <2>13, <2>14, <2>15, <2>16, <2>17, <2>18, <2>19, <2>20, <2>21,
       <2>22, <2>23, <2>24, <2>25
       DEF Next, Handler, Task
<1>3. QED
  BY <1>1, <1>2, TypeCorrect, LifecycleHolds, PTL DEF Spec

(* However often a job is delivered and however its executions overlap,    *)
(* its results are committed at most once, rows and summary together.      *)
THEOREM ResultsOnce == Spec => []ResultsExactlyOnce
<1>1. OneCommit => ResultsExactlyOnce
  BY DEF OneCommit
<1>2. QED
  BY <1>1, OneCommitHolds, PTL

(* A completed job has its transactions and its summary.                   *)
THEOREM CompletedJobsHaveResults == Spec => []CompletedHasResults
<1>1. OneCommit => CompletedHasResults
  BY DEF OneCommit
<1>2. QED
  BY <1>1, OneCommitHolds, PTL

-----------------------------------------------------------------------------
(* Files.                                                                  *)

(* No step ages or removes a file between the opening of dest and the end  *)
(* of the work on it.                                                      *)
LEMMA FileKeptHolds == Spec => []FileKept
<1>1. Init => FileKept
  BY NoTaskAssumption DEF Init, TableInit, BrokerInit, DirInit,
              FileKept, Outstanding, WorkersOn, Running, Trying
<1>2. /\ TypeOK /\ TypeOK' /\ Ownership /\ TaskInOnePlace
      /\ JobLifecycle /\ OneCommit /\ FileKept
      /\ [Next]_vars
      => FileKept'
  <2> SUFFICES ASSUME TypeOK, TypeOK', Ownership, TaskInOnePlace,
                      JobLifecycle, OneCommit, FileKept,
                      [Next]_vars
               PROVE  FileKept'
    OBVIOUS
  <2> USE NoTaskAssumption
          DEF TypeOK, TableTypeOK, BrokerTypeOK, DirTypeOK,
              FileKept, Outstanding, Published, WorkersOn, Trying, Running,
              ApiOver,
              tableVars, brokerVars, dirVars,
              ApiStep, WorkerStep, WriteStatus
  <2>1. ASSUME NEW u \in Uploads, BeginStream(u) PROVE FileKept'
    BY <2>1 DEF BeginStream, WriteFile
  <2>2. ASSUME NEW u \in Uploads, RejectStream(u) PROVE FileKept'
    <3>1. ~Published(u)
      BY <2>2 DEF RejectStream
    <3>2. ~Outstanding(u)
      BY <3>1 DEF TaskInOnePlace, Holders
    <3>3. \A w \in Workers : task[w] # u
      BY <3>1 DEF JobLifecycle
    <3>4. QED
      BY <2>2, <3>2, <3>3 DEF RejectStream, Unlink
  <2>3. ASSUME NEW u \in Uploads, FinishStream(u) PROVE FileKept'
    BY <2>3 DEF FinishStream
  <2>4. ASSUME NEW u \in Uploads, Lookup(u) PROVE FileKept'
    BY <2>4 DEF Lookup, BeginTransaction
  <2>5. ASSUME NEW u \in Uploads, AnswerDuplicate(u) PROVE FileKept'
    <3>1. ~Published(u)
      BY <2>5 DEF AnswerDuplicate
    <3>2. ~Outstanding(u)
      BY <3>1 DEF TaskInOnePlace, Holders
    <3>3. \A w \in Workers : task[w] # u
      BY <3>1 DEF JobLifecycle
    <3>4. QED
      BY <2>5, <3>2, <3>3 DEF AnswerDuplicate, Unlink
  <2>6. ASSUME NEW u \in Uploads, Create(u) PROVE FileKept'
    BY <2>6 DEF Create, CreateJob
  <2>7. ASSUME NEW u \in Uploads, Enqueue(u) PROVE FileKept'
    BY <2>7 DEF Enqueue, Publish
  <2>8. ASSUME NEW u \in Uploads, MarkEnqueued(u) PROVE FileKept'
    BY <2>8 DEF MarkEnqueued, SetProcessing
  <2>9. ASSUME NEW u \in Uploads, ApiAbort(u) PROVE FileKept'
    BY <2>9 DEF ApiAbort
  <2>10. ASSUME NEW w \in Workers, NEW u \in Uploads, Receive(w, u)
         PROVE  FileKept'
    BY <2>10 DEF Receive, Deliver
  <2>11. ASSUME NEW w \in Workers, BeginProcessing(w) PROVE FileKept'
    BY <2>11 DEF BeginProcessing, SetProcessing
  <2>12. ASSUME NEW w \in Workers, LoadFile(w) PROVE FileKept'
    BY <2>12 DEF LoadFile
  <2>13. ASSUME NEW w \in Workers, InsertRows(w) PROVE FileKept'
    BY <2>13 DEF InsertRows
  <2>14. ASSUME NEW w \in Workers, InsertSummary(w) PROVE FileKept'
    BY <2>14 DEF InsertSummary
  <2>15. ASSUME NEW w \in Workers, Complete(w) PROVE FileKept'
    BY <2>15 DEF Complete, CommitResults
  <2>16. ASSUME NEW w \in Workers, RemoveFile(w) PROVE FileKept'
    <3>1. task[w] \in Uploads /\ rows[task[w]] = 1
      BY <2>16 DEF RemoveFile, OneCommit
    <3>2. Published(task[w])
      BY <2>16 DEF RemoveFile, JobLifecycle
    <3>3. QED
      BY <2>16, <3>1, <3>2 DEF RemoveFile, Unlink
  <2>17. ASSUME NEW w \in Workers, StepError(w) PROVE FileKept'
    BY <2>17 DEF StepError
  <2>18. ASSUME NEW w \in Workers, MarkFailed(w) PROVE FileKept'
    BY <2>18 DEF MarkFailed, SetFailed
  <2>19. ASSUME NEW w \in Workers, Abandon(w) PROVE FileKept'
    BY <2>19 DEF Abandon, ErrorBeforeTry
  <2>20. ASSUME NEW w \in Workers, Ack(w) PROVE FileKept'
    BY <2>20 DEF Ack, Acknowledge
  <2>21. ASSUME NEW w \in Workers, WorkerCrash(w) PROVE FileKept'
    BY <2>21 DEF WorkerCrash, Requeue, CountRedelivery
  <2>22. ASSUME NEW w \in Workers, ConnectionLost(w) PROVE FileKept'
    BY <2>22 DEF ConnectionLost, Requeue, CountRedelivery
  <2>23. ASSUME NEW u \in Uploads, Age(u) PROVE FileKept'
    BY <2>23 DEF Age, GrowOld
  <2>24. ASSUME Sweep PROVE FileKept'
    BY <2>24 DEF Sweep, StartSweep, SweepFile, AbortSweep
  <2>25. CASE UNCHANGED vars
    BY <2>25 DEF vars
  <2>26. QED
    BY <2>1, <2>2, <2>3, <2>4, <2>5, <2>6, <2>7, <2>8, <2>9, <2>10, <2>11,
       <2>12, <2>13, <2>14, <2>15, <2>16, <2>17, <2>18, <2>19, <2>20, <2>21,
       <2>22, <2>23, <2>24, <2>25
       DEF Next, Handler, Task
<1>3. QED
  BY <1>1, <1>2, TypeCorrect, OwnershipHolds, MessagesInOnePlace,
     LifecycleHolds, OneCommitHolds, PTL DEF Spec

(* Unless a job can wait in the queue for longer than the retention, its   *)
(* file is there as long as there is work to do on it: the cleanup of      *)
(* tasks.py:193-206 takes no file a task still needs.                      *)
THEOREM UnfinishedJobsHaveFiles ==
    ASSUME ~BacklogPastRetention
    PROVE  Spec => []UnfinishedJobHasFile
<1>1. FileKept => UnfinishedJobHasFile
  BY DEF FileKept, UnfinishedJobHasFile, Present
<1>2. QED
  BY <1>1, FileKeptHolds, PTL

-----------------------------------------------------------------------------
(* Verdicts taken back.                                                    *)

(* Before the first redelivery a task has one execution.                   *)
LEMMA OneExecution ==
    ASSUME TaskInOnePlace, FirstExecution, redeliveries = 0
    PROVE  \A w \in Workers : task[w] \in Uploads =>
              /\ task[w] \notin queue
              /\ \A v \in Workers : task[v] = task[w] => v = w
BY DEF TaskInOnePlace, Holders, FirstExecution

(* The first execution of a task decides alone.                            *)
LEMMA FirstExecutionHolds == Spec => []FirstExecution
<1>1. Init => FirstExecution
  BY NoTaskAssumption DEF Init, TableInit, BrokerInit, DirInit,
              FirstExecution
<1>2. /\ TypeOK /\ TypeOK' /\ TaskInOnePlace /\ JobLifecycle /\ OneCommit
      /\ FirstExecution
      /\ [Next]_vars
      => FirstExecution'
  <2> SUFFICES ASSUME TypeOK, TypeOK', TaskInOnePlace, JobLifecycle,
                      OneCommit, FirstExecution,
                      [Next]_vars, redeliveries' = 0
               PROVE  FirstExecution'
    BY DEF FirstExecution
  <2> USE NoTaskAssumption
          DEF TypeOK, TableTypeOK, BrokerTypeOK, DirTypeOK,
              FirstExecution, Terminal, Started, Running, Trying,
              tableVars, brokerVars, dirVars,
              ApiStep, WorkerStep, WriteStatus
  <2>1. ASSUME NEW u \in Uploads, BeginStream(u) PROVE FirstExecution'
    BY <2>1 DEF BeginStream, WriteFile
  <2>2. ASSUME NEW u \in Uploads, RejectStream(u) PROVE FirstExecution'
    BY <2>2 DEF RejectStream, Unlink
  <2>3. ASSUME NEW u \in Uploads, FinishStream(u) PROVE FirstExecution'
    BY <2>3 DEF FinishStream
  <2>4. ASSUME NEW u \in Uploads, Lookup(u) PROVE FirstExecution'
    BY <2>4 DEF Lookup, BeginTransaction
  <2>5. ASSUME NEW u \in Uploads, AnswerDuplicate(u) PROVE FirstExecution'
    BY <2>5 DEF AnswerDuplicate, Unlink
  <2>6. ASSUME NEW u \in Uploads, Create(u) PROVE FirstExecution'
    BY <2>6 DEF Create, CreateJob, Terminal
  <2>7. ASSUME NEW u \in Uploads, Enqueue(u) PROVE FirstExecution'
    BY <2>7 DEF Enqueue, Publish, JobLifecycle, Published
  <2>8. ASSUME NEW u \in Uploads, MarkEnqueued(u) PROVE FirstExecution'
    BY <2>8 DEF MarkEnqueued, SetProcessing
  <2>9. ASSUME NEW u \in Uploads, ApiAbort(u) PROVE FirstExecution'
    BY <2>9 DEF ApiAbort
  <2>10. ASSUME NEW w \in Workers, NEW u \in Uploads, Receive(w, u)
         PROVE  FirstExecution'
    BY <2>10 DEF Receive, Deliver
  <2>11. ASSUME NEW w \in Workers, BeginProcessing(w) PROVE FirstExecution'
    BY <2>11 DEF BeginProcessing, SetProcessing
  <2>12. ASSUME NEW w \in Workers, LoadFile(w) PROVE FirstExecution'
    BY <2>12 DEF LoadFile
  <2>13. ASSUME NEW w \in Workers, InsertRows(w) PROVE FirstExecution'
    BY <2>13 DEF InsertRows
  <2>14. ASSUME NEW w \in Workers, InsertSummary(w) PROVE FirstExecution'
    BY <2>14 DEF InsertSummary
  <2>15. ASSUME NEW w \in Workers, Complete(w) PROVE FirstExecution'
    <3>1. task[w] \in Uploads /\ redeliveries = 0
      BY <2>15 DEF Complete
    <3>2. task[w] \notin queue /\ \A v \in Workers : task[v] = task[w] => v = w
      BY <3>1, OneExecution
    <3>3. QED
      BY <2>15, <3>1, <3>2 DEF Complete, CommitResults
  <2>16. ASSUME NEW w \in Workers, RemoveFile(w) PROVE FirstExecution'
    BY <2>16 DEF RemoveFile, Unlink
  <2>17. ASSUME NEW w \in Workers, StepError(w) PROVE FirstExecution'
    BY <2>17 DEF StepError, OneCommit
  <2>18. ASSUME NEW w \in Workers, MarkFailed(w) PROVE FirstExecution'
    <3>1. task[w] \in Uploads /\ redeliveries = 0
      BY <2>18 DEF MarkFailed
    <3>2. task[w] \notin queue /\ \A v \in Workers : task[v] = task[w] => v = w
      BY <3>1, OneExecution
    <3>3. QED
      BY <2>18, <3>1, <3>2 DEF MarkFailed, SetFailed
  <2>19. ASSUME NEW w \in Workers, Abandon(w) PROVE FirstExecution'
    BY <2>19 DEF Abandon, ErrorBeforeTry
  <2>20. ASSUME NEW w \in Workers, Ack(w) PROVE FirstExecution'
    BY <2>20 DEF Ack, Acknowledge
  <2>21. ASSUME NEW w \in Workers, WorkerCrash(w) PROVE FirstExecution'
    BY <2>21 DEF WorkerCrash, CountRedelivery
  <2>22. ASSUME NEW w \in Workers, ConnectionLost(w) PROVE FirstExecution'
    BY <2>22 DEF ConnectionLost, CountRedelivery
  <2>23. ASSUME NEW u \in Uploads, Age(u) PROVE FirstExecution'
    BY <2>23 DEF Age, GrowOld
  <2>24. ASSUME Sweep PROVE FirstExecution'
    BY <2>24 DEF Sweep, StartSweep, SweepFile, AbortSweep
  <2>25. CASE UNCHANGED vars
    BY <2>25 DEF vars
  <2>26. QED
    BY <2>1, <2>2, <2>3, <2>4, <2>5, <2>6, <2>7, <2>8, <2>9, <2>10, <2>11,
       <2>12, <2>13, <2>14, <2>15, <2>16, <2>17, <2>18, <2>19, <2>20, <2>21,
       <2>22, <2>23, <2>24, <2>25
       DEF Next, Handler, Task
<1>3. QED
  BY <1>1, <1>2, TypeCorrect, MessagesInOnePlace, LifecycleHolds,
     OneCommitHolds, PTL DEF Spec

(* A verdict is taken back, while no worker and no connection is lost,     *)
(* only by the late write of jobs.py:133 and by an error after the commit  *)
(* of tasks.py:166, for any number of requests and workers.                *)
THEOREM VerdictsStandFirm == Spec => VerdictsStand
<1>1. /\ TypeOK /\ TypeOK' /\ TaskInOnePlace /\ JobLifecycle /\ OneCommit
      /\ FirstExecution
      /\ [Next]_vars
      => (redeliveries = 0 =>
            \A u \in Uploads :
                status[u] \in Terminal /\ status'[u] # status[u] =>
                    \/ /\ status'[u] = "processing"
                       /\ api'[u] # api[u]
                    \/ /\ status'[u] = "failed"
                       /\ rows[u] = 1
                       /\ \E w \in Workers :
                             task[w] = u /\ worker'[w] = "ended")
  <2> SUFFICES ASSUME TypeOK, TypeOK', TaskInOnePlace, JobLifecycle, OneCommit,
                      FirstExecution, [Next]_vars, redeliveries = 0,
                      NEW u \in Uploads,
                      status[u] \in Terminal, status'[u] # status[u]
               PROVE  \/ /\ status'[u] = "processing"
                         /\ api'[u] # api[u]
                      \/ /\ status'[u] = "failed"
                         /\ rows[u] = 1
                         /\ \E w \in Workers :
                               task[w] = u /\ worker'[w] = "ended"
    OBVIOUS
  <2> USE DEF TypeOK, TableTypeOK, Terminal, ApiStep, WorkerStep, WriteStatus
  <2>1. ASSUME NEW v \in Uploads, Create(v) PROVE FALSE
    BY <2>1 DEF Create, CreateJob, JobLifecycle
  <2>2. ASSUME NEW v \in Uploads, MarkEnqueued(v)
        PROVE  status'[u] = "processing" /\ api'[u] # api[u]
    BY <2>2 DEF MarkEnqueued, SetProcessing
  <2>3. ASSUME NEW w \in Workers, BeginProcessing(w) PROVE FALSE
    BY <2>3 DEF BeginProcessing, SetProcessing, FirstExecution
  <2>4. ASSUME NEW w \in Workers, Complete(w) PROVE FALSE
    BY <2>4 DEF Complete, CommitResults, FirstExecution
  <2>5. ASSUME NEW w \in Workers, MarkFailed(w)
        PROVE  /\ status'[u] = "failed"
               /\ rows[u] = 1
               /\ task[w] = u /\ worker'[w] = "ended"
    BY <2>5 DEF MarkFailed, SetFailed, FirstExecution
  <2>6. ASSUME status' = status PROVE FALSE
    BY <2>6
  <2>7. QED
    BY <2>1, <2>2, <2>3, <2>4, <2>5, <2>6
       DEF Next, Handler, Task, vars, tableVars,
           BeginStream, RejectStream, FinishStream, Lookup, AnswerDuplicate,
           Enqueue, ApiAbort, Age, BeginTransaction, Receive, LoadFile,
           InsertRows, InsertSummary, RemoveFile, StepError, Abandon,
           ErrorBeforeTry, Ack, WorkerCrash, ConnectionLost, Sweep
<1>2. QED
  BY <1>1, TypeCorrect, MessagesInOnePlace, LifecycleHolds, OneCommitHolds,
     FirstExecutionHolds, PTL DEF Spec, VerdictsStand

-----------------------------------------------------------------------------
(* Verdicts.                                                               *)

(* A message is held by the worker that runs its task, unless a connection *)
(* may be lost.                                                            *)
LEMMA MessageHeldHolds == Spec => []MessageHeld
<1>1. Init => MessageHeld
  BY DEF Init, BrokerInit, MessageHeld
<1>2. TypeOK /\ MessageHeld /\ [Next]_vars => MessageHeld'
  <2> SUFFICES ASSUME TypeOK, MessageHeld, [Next]_vars,
                      "connectionLost" \notin Faults
               PROVE  MessageHeld'
    BY DEF MessageHeld
  <2> USE DEF TypeOK, BrokerTypeOK, MessageHeld
  <2>1. ASSUME NEW w \in Workers, NEW u \in Uploads, Receive(w, u)
        PROVE  MessageHeld'
    BY <2>1 DEF Receive, Deliver
  <2>2. ASSUME NEW w \in Workers, Ack(w) \/ WorkerCrash(w)
        PROVE  MessageHeld'
    BY <2>2 DEF Ack, Acknowledge, WorkerCrash, Requeue
  <2>3. ASSUME NEW w \in Workers, ConnectionLost(w) PROVE FALSE
    BY <2>3 DEF ConnectionLost
  <2>4. CASE UNCHANGED <<unacked, task>>
    BY <2>4
  <2>5. QED
    BY <2>1, <2>2, <2>3, <2>4
       DEF Next, Handler, Task, vars, brokerVars, ApiStep, WorkerStep,
           BeginStream, RejectStream, FinishStream, Lookup, AnswerDuplicate,
           Create, Enqueue, Publish, MarkEnqueued, ApiAbort, BeginProcessing,
           LoadFile, InsertRows, InsertSummary, Complete, RemoveFile, MarkFailed,
           StepError, Abandon, ErrorBeforeTry, Age, Sweep
<1>3. QED
  BY <1>1, <1>2, TypeCorrect, PTL DEF Spec

(* Under any faults, a verdict that is due stays on its way, unless an     *)
(* execution of the job ends before an except clause has written, or dies  *)
(* after its message was taken back.                                       *)
THEOREM VerdictsStayDue == Spec => VerdictStaysDue
<1> DEFINE Lost(u) == \E w \in Workers :
                          /\ task[w] = u
                          /\ \/ Abandon(w)
                             \/ WorkerCrash(w) /\ unacked[w] # u
<1>1. /\ TypeOK /\ Ownership /\ JobLifecycle
      /\ [Next]_vars
      => \A u \in Uploads : RouteOpen(u) /\ ~RouteOpen(u)' => Lost(u)
  <2> SUFFICES ASSUME TypeOK, Ownership, JobLifecycle, [Next]_vars,
                      NEW u \in Uploads, RouteOpen(u), ~RouteOpen(u)'
               PROVE  Lost(u)
    OBVIOUS
  <2> USE NoTaskAssumption
          DEF TypeOK, TableTypeOK, BrokerTypeOK, RouteOpen, OnItsWay, Decided,
              Deciding, Started, Terminal,
              tableVars, brokerVars, ApiStep, WorkerStep, WriteStatus
  (* The request's steps leave the executions alone, and what they write   *)
  (* is no worker's word.                                                  *)
  <2>1. ASSUME NEW v \in Uploads,
               \/ BeginStream(v) \/ RejectStream(v) \/ FinishStream(v)
               \/ AnswerDuplicate(v) \/ ApiAbort(v) \/ Age(v)
        PROVE  FALSE
    BY <2>1
       DEF BeginStream, RejectStream, FinishStream, AnswerDuplicate, ApiAbort,
           Age
  <2>2. ASSUME NEW v \in Uploads, Lookup(v) PROVE FALSE
    BY <2>2 DEF Lookup, BeginTransaction
  <2>3. ASSUME NEW v \in Uploads, Create(v) PROVE FALSE
    BY <2>3 DEF Create, CreateJob
  <2>4. ASSUME NEW v \in Uploads, Enqueue(v) PROVE FALSE
    BY <2>4 DEF Enqueue, Publish
  <2>5. ASSUME NEW v \in Uploads, MarkEnqueued(v) PROVE FALSE
    BY <2>5 DEF MarkEnqueued, SetProcessing
  (* A task that goes on takes the job along.                              *)
  <2>6. ASSUME NEW w \in Workers, NEW v \in Uploads, Receive(w, v)
        PROVE  FALSE
    BY <2>6 DEF Receive, Deliver
  <2>7. ASSUME NEW w \in Workers, BeginProcessing(w) PROVE FALSE
    BY <2>7 DEF BeginProcessing, SetProcessing
  <2>8. ASSUME NEW w \in Workers, LoadFile(w) PROVE FALSE
    BY <2>8 DEF LoadFile
  <2>9. ASSUME NEW w \in Workers, InsertRows(w) PROVE FALSE
    BY <2>9 DEF InsertRows
  <2>10. ASSUME NEW w \in Workers, InsertSummary(w) PROVE FALSE
    BY <2>10 DEF InsertSummary
  <2>11. ASSUME NEW w \in Workers, Complete(w) PROVE FALSE
    BY <2>11 DEF Complete, CommitResults
  <2>12. ASSUME NEW w \in Workers, RemoveFile(w) PROVE FALSE
    BY <2>12 DEF RemoveFile
  <2>13. ASSUME NEW w \in Workers, StepError(w) PROVE FALSE
    BY <2>13 DEF StepError, Trying
  <2>14. ASSUME NEW w \in Workers, MarkFailed(w) PROVE FALSE
    BY <2>14 DEF MarkFailed, SetFailed
  <2>15. ASSUME NEW w \in Workers, Ack(w) PROVE FALSE
    BY <2>15 DEF Ack, Acknowledge
  <2>16. ASSUME NEW w \in Workers, ConnectionLost(w) PROVE FALSE
    BY <2>16 DEF ConnectionLost, Requeue
  (* Only what ends here and now can take it away.                         *)
  <2>17. ASSUME NEW w \in Workers, Abandon(w) PROVE Lost(u)
    <3>1. task[w] = u
      BY <2>17 DEF Abandon, ErrorBeforeTry
    <3>2. QED
      BY <2>17, <3>1
  <2>18. ASSUME NEW w \in Workers, WorkerCrash(w) PROVE Lost(u)
    <3>1. task[w] = u /\ unacked[w] # u
      BY <2>18 DEF WorkerCrash, Requeue
    <3>2. QED
      BY <2>18, <3>1
  <2>19. CASE Sweep \/ UNCHANGED vars
    BY <2>19 DEF Sweep, vars
  <2>20. QED
    BY <2>1, <2>2, <2>3, <2>4, <2>5, <2>6, <2>7, <2>8, <2>9, <2>10, <2>11,
       <2>12, <2>13, <2>14, <2>15, <2>16, <2>17, <2>18, <2>19
       DEF Next, Handler, Task
<1>2. QED
  BY <1>1, TypeCorrect, OwnershipHolds, LifecycleHolds, PTL
     DEF Spec, VerdictStaysDue

(* Tasks may raise, die, be taken for dead and run twice, in any mix: as   *)
(* long as no superseded execution dies, whoever wrote "processing" last   *)
(* is on its way to a verdict, or its message is.                          *)
LEMMA VerdictComes ==
    ASSUME Faults \subseteq TaskFaults
    PROVE  Spec /\ SupersededSurvive => []VerdictIsComing
<1>1. Init => VerdictIsComing
  BY DEF Init, TableInit, BrokerInit, VerdictIsComing, RouteOpen, Started
<1>2. /\ TypeOK /\ Ownership /\ JobLifecycle /\ VerdictIsComing
      /\ [Next]_vars
      /\ [\A w \in Workers : WorkerCrash(w) => unacked[w] = task[w]]_vars
      => VerdictIsComing'
  <2> SUFFICES ASSUME TypeOK, Ownership, JobLifecycle, VerdictIsComing,
                      [Next]_vars,
                      [\A w \in Workers :
                          WorkerCrash(w) => unacked[w] = task[w]]_vars
               PROVE  VerdictIsComing'
    OBVIOUS
  <2> USE NoTaskAssumption
          DEF TypeOK, TableTypeOK, BrokerTypeOK, VerdictIsComing, Decided,
              RouteOpen, OnItsWay, TaskFaults, Deciding, Started, Terminal,
              tableVars, brokerVars, ApiStep, WorkerStep, WriteStatus
  <2>1. ASSUME NEW u \in Uploads, BeginStream(u) PROVE VerdictIsComing'
    BY <2>1 DEF BeginStream
  <2>2. ASSUME NEW u \in Uploads, RejectStream(u) PROVE VerdictIsComing'
    BY <2>2 DEF RejectStream
  <2>3. ASSUME NEW u \in Uploads, FinishStream(u) PROVE VerdictIsComing'
    BY <2>3 DEF FinishStream
  <2>4. ASSUME NEW u \in Uploads, Lookup(u) PROVE VerdictIsComing'
    BY <2>4 DEF Lookup, BeginTransaction
  <2>5. ASSUME NEW u \in Uploads, AnswerDuplicate(u) PROVE VerdictIsComing'
    BY <2>5 DEF AnswerDuplicate
  <2>6. ASSUME NEW u \in Uploads, Create(u) PROVE VerdictIsComing'
    BY <2>6 DEF Create, CreateJob, JobLifecycle
  <2>7. ASSUME NEW u \in Uploads, Enqueue(u) PROVE VerdictIsComing'
    BY <2>7 DEF Enqueue, Publish
  <2>8. ASSUME NEW u \in Uploads, MarkEnqueued(u) PROVE VerdictIsComing'
    BY <2>8 DEF MarkEnqueued, SetProcessing
  <2>9. ASSUME NEW u \in Uploads, ApiAbort(u) PROVE VerdictIsComing'
    BY <2>9 DEF ApiAbort
  <2>10. ASSUME NEW w \in Workers, NEW u \in Uploads, Receive(w, u)
         PROVE  VerdictIsComing'
    BY <2>10 DEF Receive, Deliver
  <2>11. ASSUME NEW w \in Workers, BeginProcessing(w) PROVE VerdictIsComing'
    BY <2>11 DEF BeginProcessing, SetProcessing
  <2>12. ASSUME NEW w \in Workers, LoadFile(w) PROVE VerdictIsComing'
    BY <2>12 DEF LoadFile
  <2>13. ASSUME NEW w \in Workers, InsertRows(w) PROVE VerdictIsComing'
    BY <2>13 DEF InsertRows
  <2>14. ASSUME NEW w \in Workers, InsertSummary(w) PROVE VerdictIsComing'
    BY <2>14 DEF InsertSummary
  <2>15. ASSUME NEW w \in Workers, Complete(w) PROVE VerdictIsComing'
    BY <2>15 DEF Complete, CommitResults
  <2>16. ASSUME NEW w \in Workers, RemoveFile(w) PROVE VerdictIsComing'
    BY <2>16 DEF RemoveFile, JobLifecycle, Trying
  <2>17. ASSUME NEW w \in Workers, StepError(w) PROVE VerdictIsComing'
    BY <2>17 DEF StepError, Trying
  <2>18. ASSUME NEW w \in Workers, MarkFailed(w) PROVE VerdictIsComing'
    BY <2>18 DEF MarkFailed, SetFailed
  <2>19. ASSUME NEW w \in Workers, Abandon(w) PROVE FALSE
    BY <2>19 DEF Abandon, ErrorBeforeTry
  <2>20. ASSUME NEW w \in Workers, Ack(w) PROVE VerdictIsComing'
    BY <2>20 DEF Ack, Acknowledge, Ownership
  <2>21. ASSUME NEW w \in Workers, WorkerCrash(w) PROVE VerdictIsComing'
    <3>1. task[w] \in Uploads /\ unacked[w] = task[w]
      <4>1. task[w] \in Uploads /\ task'[w] = NoTask
        BY <2>21 DEF WorkerCrash
      <4>2. ~UNCHANGED vars
        BY <4>1 DEF vars
      <4>3. QED
        BY <2>21, <4>1, <4>2
    <3>2. queue' = queue \cup {task[w]}
      BY <2>21, <3>1 DEF WorkerCrash, Requeue
    <3>3. QED
      BY <2>21, <3>1, <3>2 DEF WorkerCrash, Requeue
  <2>22. ASSUME NEW w \in Workers, ConnectionLost(w) PROVE VerdictIsComing'
    BY <2>22 DEF ConnectionLost, Requeue
  <2>23. ASSUME NEW u \in Uploads, Age(u) PROVE VerdictIsComing'
    BY <2>23 DEF Age
  <2>24. ASSUME Sweep PROVE VerdictIsComing'
    BY <2>24 DEF Sweep
  <2>25. CASE UNCHANGED vars
    BY <2>25 DEF vars
  <2>26. QED
    BY <2>1, <2>2, <2>3, <2>4, <2>5, <2>6, <2>7, <2>8, <2>9, <2>10, <2>11,
       <2>12, <2>13, <2>14, <2>15, <2>16, <2>17, <2>18, <2>19, <2>20, <2>21,
       <2>22, <2>23, <2>24, <2>25
       DEF Next, Handler, Task
<1>3. QED
  BY <1>1, <1>2, TypeCorrect, OwnershipHolds, LifecycleHolds, PTL
     DEF Spec, SupersededSurvive

(* Processes die and raise, and connections are lost, as often as they     *)
(* like: as long as no execution dies whose message the broker has taken   *)
(* back, a job whose message is settled and whose tasks are over is        *)
(* completed or failed, unless the upload handler wrote its status last.   *)
THEOREM OnlySupersededAbandon ==
    ASSUME Faults \subseteq TaskFaults
    PROVE  Spec /\ SupersededSurvive => []WorkerNeverAbandons
<1>1. TypeOK /\ TaskInOnePlace /\ VerdictIsComing => WorkerNeverAbandons
  BY DEF VerdictIsComing, RouteOpen, OnItsWay, WorkerNeverAbandons, Decided,
         Deciding, WorkersOn,
         Running, Trying, TypeOK, BrokerTypeOK, TaskInOnePlace, Holders
<1>2. QED
  BY <1>1, TypeCorrect, MessagesInOnePlace, VerdictComes, PTL

(* That is so where workers die but no connection is lost, where           *)
(* connections are lost but no worker dies, and where both happen but only *)
(* once.                                                                   *)
THEOREM WorkersNeverAbandon ==
    ASSUME Faults \subseteq TaskFaults,
           \/ "connectionLost" \notin Faults
           \/ "workerLost" \notin Faults
           \/ MaxRedeliveries <= 1
    PROVE  Spec => []WorkerNeverAbandons
<1>1. /\ TypeOK /\ MessageHeld /\ FirstExecution
      /\ [Next]_vars
      => [\A w \in Workers : WorkerCrash(w) => unacked[w] = task[w]]_vars
  <2> SUFFICES ASSUME TypeOK, MessageHeld, FirstExecution,
                      NEW w \in Workers, WorkerCrash(w)
               PROVE  unacked[w] = task[w]
    OBVIOUS
  <2>1. CASE "connectionLost" \notin Faults
    BY <2>1 DEF MessageHeld
  <2>2. CASE "workerLost" \notin Faults
    BY <2>2 DEF WorkerCrash
  <2>3. CASE MaxRedeliveries <= 1
    <3>1. redeliveries = 0
      BY <2>3, PipelineAssumption DEF WorkerCrash, CountRedelivery, TypeOK
    <3>2. QED
      BY <3>1 DEF FirstExecution
  <2>4. QED
    BY <2>1, <2>2, <2>3
<1>2. Spec => SupersededSurvive
  BY <1>1, TypeCorrect, MessageHeldHolds, FirstExecutionHolds, PTL
     DEF Spec, SupersededSurvive
<1>3. QED
  BY <1>2, OnlySupersededAbandon, PTL

-----------------------------------------------------------------------------
(* Refinement.                                                             *)

(* The job tables implement the ledger: every step of the pipeline         *)
(* registers, starts, records or fails one job as JobLedger.tla allows, or *)
(* changes nothing a client reads.                                         *)
THEOREM LedgerImplemented == Spec => ImplementsLedger
<1>1. Init => Ledger!LedgerInit
  BY DEF Init, TableInit, Ledger!LedgerInit
<1>2. /\ TypeOK /\ JobLifecycle /\ OneCommit
      /\ [Next]_vars
      => [Ledger!LedgerNext]_(Ledger!ledgerVars)
  <2> SUFFICES ASSUME TypeOK, JobLifecycle, OneCommit, [Next]_vars
               PROVE  Ledger!LedgerNext \/ UNCHANGED Ledger!ledgerVars
    OBVIOUS
  <2>1. ASSUME NEW j \in Uploads, CreateJob(j), status[j] = "none"
        PROVE  Ledger!LedgerNext
    BY <2>1 DEF CreateJob, WriteStatus, Ledger!LedgerNext, Ledger!Register
  <2>2. ASSUME NEW j \in Uploads, NEW who, SetProcessing(j, who),
               status[j] # "none"
        PROVE  Ledger!LedgerNext
    BY <2>2 DEF SetProcessing, WriteStatus, Ledger!LedgerNext, Ledger!Start
  <2>3. ASSUME NEW j \in Uploads, SetFailed(j), status[j] # "none"
        PROVE  Ledger!LedgerNext
    BY <2>3 DEF SetFailed, WriteStatus, Ledger!LedgerNext, Ledger!Fail
  <2>4. ASSUME NEW j \in Uploads, CommitResults(j),
               status[j] \in {"processing", "failed"},
               rows[j] = 0, summaries[j] = 0
        PROVE  Ledger!LedgerNext
    <3>1. Ledger!Record(j)
      BY <2>4
         DEF CommitResults, WriteStatus, Ledger!Record, TypeOK, TableTypeOK
    <3>2. QED
      BY <3>1 DEF Ledger!LedgerNext
  <2>5. ASSUME UNCHANGED tableVars PROVE UNCHANGED Ledger!ledgerVars
    BY <2>5 DEF tableVars, Ledger!ledgerVars
  <2>6. ASSUME NEW u \in Uploads, Lookup(u)
        PROVE  UNCHANGED Ledger!ledgerVars
    BY <2>6 DEF Lookup, BeginTransaction, Ledger!ledgerVars
  <2>7. ASSUME NEW u \in Uploads, Create(u) PROVE Ledger!LedgerNext
    BY <2>1, <2>7 DEF Create, ApiStep, JobLifecycle
  <2>8. ASSUME NEW u \in Uploads, MarkEnqueued(u) PROVE Ledger!LedgerNext
    BY <2>2, <2>8 DEF MarkEnqueued, ApiStep, JobLifecycle, Published
  <2>9. ASSUME NEW w \in Workers, BeginProcessing(w) PROVE Ledger!LedgerNext
    BY <2>2, <2>9 DEF BeginProcessing, WorkerStep, TypeOK, JobLifecycle
  <2>10. ASSUME NEW w \in Workers, MarkFailed(w) PROVE Ledger!LedgerNext
    BY <2>3, <2>10 DEF MarkFailed, WorkerStep, TypeOK, JobLifecycle
  <2>11. ASSUME NEW w \in Workers, Complete(w) PROVE Ledger!LedgerNext
    BY <2>4, <2>11
       DEF Complete, WorkerStep, TypeOK, TableTypeOK, JobLifecycle, Started,
           Trying, OneCommit, ResultsExactlyOnce, CompletedHasResults
  <2>12. CASE UNCHANGED vars
    BY <2>5, <2>12 DEF vars
  <2>13. QED
    BY <2>5, <2>6, <2>7, <2>8, <2>9, <2>10, <2>11, <2>12
       DEF Next, Handler, Task, BeginStream, RejectStream, FinishStream,
           AnswerDuplicate, Enqueue, ApiAbort, Receive, LoadFile, InsertRows,
           InsertSummary, RemoveFile, StepError, Abandon, ErrorBeforeTry, Ack,
           WorkerCrash, ConnectionLost, Age, Sweep
<1>3. QED
  BY <1>1, <1>2, TypeCorrect, LifecycleHolds, OneCommitHolds, PTL
     DEF Spec, ImplementsLedger, Ledger!LedgerSpec

(* The broker's settings do for every message what MessageLife.tla asks of *)
(* them: no step of a request, a worker or the environment hands it out    *)
(* twice, settles it before an execution has ended or takes it back once   *)
(* it is settled.                                                          *)
THEOREM MessageLifeImplemented == Spec => ImplementsMessageLife
<1> DEFINE place == [u \in Uploads |-> Place(u)]
<1>1. Init => Life!LifeInit
  BY DEF Init, BrokerInit, Published, Place, Life!LifeInit
<1>2. /\ TypeOK /\ TypeOK' /\ Ownership /\ TaskInOnePlace /\ TaskInOnePlace'
      /\ [Next]_vars
      => [Life!LifeNext]_place
  <2> SUFFICES ASSUME TypeOK, TypeOK', Ownership, TaskInOnePlace,
                      TaskInOnePlace', [Next]_vars
               PROVE  Life!LifeNext \/ UNCHANGED place
    OBVIOUS
  (* One message moves and the others stay.                                *)
  <2>1. ASSUME NEW m \in Uploads, NEW from, NEW to,
               Place(m) \in from, Place(m)' = to,
               \A u \in Uploads : u # m => Place(u)' = Place(u)
        PROVE  Life!Move(m, from, to)
    <3>1. \A u \in Uploads :
            place'[u] = IF u = m THEN to ELSE place[u]
      BY <2>1
    <3>2. place' = [place EXCEPT ![m] = to]
      BY <3>1
    <3>3. QED
      BY <2>1, <3>2 DEF Life!Move
  <2>2. ASSUME \A u \in Uploads : Place(u)' = Place(u)
        PROVE  UNCHANGED place
    BY <2>2
  <2> USE NoTaskAssumption
          DEF TypeOK, BrokerTypeOK, Published, Place, brokerVars,
              ApiStep, WorkerStep
  <2>3. ASSUME NEW u \in Uploads, Enqueue(u) PROVE Life!Send(u)
    <3>1. Place(u) = "unsent" /\ Place(u)' = "queued"
      BY <2>3 DEF Enqueue, Publish, TaskInOnePlace, Holders, Outstanding
    <3>2. \A v \in Uploads : v # u => Place(v)' = Place(v)
      BY <2>3 DEF Enqueue, Publish
    <3>3. QED
      BY <2>1, <3>1, <3>2 DEF Life!Send
  <2>4. ASSUME NEW w \in Workers, NEW u \in Uploads, Receive(w, u)
        PROVE  Life!Hand(u)
    <3>1. Place(u) = "queued" /\ Place(u)' = "running"
      BY <2>4 DEF Receive, Deliver, TaskInOnePlace, Holders, Outstanding
    <3>2. \A v \in Uploads : v # u => Place(v)' = Place(v)
      BY <2>4 DEF Receive, Deliver, Ownership
    <3>3. QED
      BY <2>1, <3>1, <3>2 DEF Life!Hand
  (* A superseded execution ends for itself alone.                         *)
  <2>5. ASSUME NEW w \in Workers, worker[w] # "ended",
               WorkerStep(w, {worker[w]}, "ended"),
               UNCHANGED brokerVars
        PROVE  (\E u \in Uploads : Life!Finish(u)) \/ UNCHANGED place
    <3>1. CASE unacked[w] = NoTask
      <4>1. \A u \in Uploads : Place(u)' = Place(u)
        BY <2>5, <3>1
      <4>2. QED
        BY <2>2, <4>1
    <3>2. CASE unacked[w] # NoTask
      <4>1. PICK u \in Uploads : unacked[w] = u
        BY <3>2
      <4>2. u \notin queue /\ u \notin settled /\ Published(u)
        BY <4>1 DEF TaskInOnePlace, Holders, Outstanding
      <4>3. \A v \in Workers : unacked[v] = u => v = w
        BY <4>1 DEF TaskInOnePlace, Holders
      <4>4. Place(u) = "running" /\ Place(u)' = "ended"
        BY <2>5, <4>1, <4>2, <4>3
      <4>5. \A v \in Uploads : v # u => Place(v)' = Place(v)
        BY <2>5, <4>1
      <4>6. Life!Finish(u)
        BY <2>1, <4>4, <4>5 DEF Life!Finish
      <4>7. QED
        BY <4>6
    <3>3. QED
      BY <3>1, <3>2
  <2>6. ASSUME NEW w \in Workers,
               RemoveFile(w) \/ MarkFailed(w) \/ Abandon(w)
        PROVE  (\E u \in Uploads : Life!Finish(u)) \/ UNCHANGED place
    <3>1. /\ worker[w] # "ended"
          /\ WorkerStep(w, {worker[w]}, "ended")
          /\ UNCHANGED brokerVars
      BY <2>6 DEF RemoveFile, MarkFailed, Abandon, ErrorBeforeTry,
                 Running, Trying
    <3>2. QED
      BY <2>5, <3>1
  <2>7. ASSUME NEW w \in Workers, Ack(w)
        PROVE  (\E u \in Uploads : Life!Settle(u)) \/ UNCHANGED place
    <3>1. CASE unacked[w] = NoTask
      <4>1. \A u \in Uploads : Place(u)' = Place(u)
        BY <2>7, <3>1 DEF Ack, Acknowledge
      <4>2. QED
        BY <2>2, <4>1
    <3>2. CASE unacked[w] # NoTask
      <4>1. PICK u \in Uploads : unacked[w] = u
        BY <3>2
      <4>2. u \notin queue /\ u \notin settled /\ Published(u)
        BY <4>1 DEF TaskInOnePlace, Holders, Outstanding
      <4>3. Place(u) = "ended" /\ Place(u)' = "gone"
        BY <2>7, <4>1, <4>2 DEF Ack, Acknowledge
      <4>4. \A v \in Uploads : v # u => Place(v)' = Place(v)
        BY <2>7, <4>1 DEF Ack, Acknowledge
      <4>5. Life!Settle(u)
        BY <2>1, <4>3, <4>4 DEF Life!Settle
      <4>6. QED
        BY <4>5
    <3>3. QED
      BY <3>1, <3>2
  <2>8. ASSUME NEW w \in Workers, WorkerCrash(w) \/ ConnectionLost(w)
        PROVE  (\E u \in Uploads : Life!Return(u)) \/ UNCHANGED place
    <3>1. /\ Requeue(w)
          /\ \A v \in Workers : v # w => worker'[v] = worker[v]
          /\ api' = api
      BY <2>8 DEF WorkerCrash, ConnectionLost
    <3>2. CASE unacked[w] = NoTask
      <4>1. \A u \in Uploads : Place(u)' = Place(u)
        BY <3>1, <3>2 DEF Requeue
      <4>2. QED
        BY <2>2, <4>1
    <3>3. CASE unacked[w] # NoTask
      <4>1. PICK u \in Uploads : unacked[w] = u
        BY <3>3
      <4>2. u \notin queue /\ u \notin settled /\ Published(u)
        BY <4>1 DEF TaskInOnePlace, Holders, Outstanding
      <4>3. Place(u) \in {"running", "ended"} /\ Place(u)' = "queued"
        BY <3>1, <4>1, <4>2 DEF Requeue
      <4>4. \A v \in Uploads : v # u => Place(v)' = Place(v)
        BY <3>1, <4>1 DEF Requeue
      <4>5. Life!Return(u)
        BY <2>1, <4>3, <4>4 DEF Life!Return
      <4>6. QED
        BY <4>5
    <3>4. QED
      BY <3>2, <3>3
  (* The other steps of a task: neither from nor to its end.               *)
  <2>9. ASSUME NEW w \in Workers,
               \/ BeginProcessing(w) \/ LoadFile(w) \/ InsertRows(w)
               \/ InsertSummary(w) \/ Complete(w) \/ StepError(w)
        PROVE  UNCHANGED place
    <3>1. /\ worker[w] # "ended" /\ worker'[w] # "ended"
          /\ \A v \in Workers : v # w => worker'[v] = worker[v]
          /\ UNCHANGED <<brokerVars, api>>
      BY <2>9
         DEF BeginProcessing, LoadFile, InsertRows, InsertSummary, Complete,
             StepError, Trying
    <3>2. \A u \in Uploads : Place(u)' = Place(u)
      BY <3>1
    <3>3. QED
      BY <2>2, <3>2
  (* The other steps of a request: none publishes or takes it back.        *)
  <2>10. ASSUME NEW u \in Uploads,
                \/ BeginStream(u) \/ RejectStream(u) \/ FinishStream(u)
                \/ Lookup(u) \/ AnswerDuplicate(u) \/ Create(u)
                \/ MarkEnqueued(u) \/ ApiAbort(u)
         PROVE  UNCHANGED place
    <3>1. /\ \A v \in Uploads : Published(v)' <=> Published(v)
          /\ UNCHANGED <<brokerVars, worker>>
      BY <2>10
         DEF BeginStream, RejectStream, FinishStream, Lookup, AnswerDuplicate,
             Create, MarkEnqueued, ApiAbort
    <3>2. \A v \in Uploads : Place(v)' = Place(v)
      BY <3>1
    <3>3. QED
      BY <2>2, <3>2
  <2>11. ASSUME UNCHANGED <<brokerVars, api, worker>> PROVE UNCHANGED place
    BY <2>2, <2>11
  <2>12. QED
    BY <2>3, <2>4, <2>6, <2>7, <2>8, <2>9, <2>10, <2>11
       DEF Next, Handler, Task, Age, Sweep, vars, Life!LifeNext
<1>3. QED
  BY <1>1, <1>2, TypeCorrect, OwnershipHolds, MessagesInOnePlace, PTL
     DEF Spec, ImplementsMessageLife, Life!LifeSpec

(* A request has its created_at from its duplicate check on, not before.   *)
LEMMA CreatedAtHolds == Spec => []CreatedAtTaken
<1>1. Init => CreatedAtTaken
  BY DEF Init, TableInit, CreatedAtTaken
<1>2. TypeOK /\ CreatedAtTaken /\ [Next]_vars => CreatedAtTaken'
  <2> SUFFICES ASSUME TypeOK, CreatedAtTaken, [Next]_vars
               PROVE  CreatedAtTaken'
    OBVIOUS
  <2> USE DEF TypeOK, TableTypeOK, CreatedAtTaken
  <2>1. ASSUME NEW u \in Uploads, Lookup(u) PROVE CreatedAtTaken'
    BY <2>1 DEF Lookup, ApiStep, BeginTransaction
  <2>2. ASSUME NEW u \in Uploads,
               BeginStream(u) \/ RejectStream(u) \/ FinishStream(u)
                 \/ AnswerDuplicate(u) \/ Enqueue(u) \/ ApiAbort(u)
        PROVE  CreatedAtTaken'
    BY <2>2
       DEF BeginStream, RejectStream, FinishStream, AnswerDuplicate, Enqueue,
           ApiAbort, ApiStep, ApiOver, Published, tableVars
  <2>3. ASSUME NEW u \in Uploads, Create(u) \/ MarkEnqueued(u)
        PROVE  CreatedAtTaken'
    BY <2>3
       DEF Create, MarkEnqueued, ApiStep, CreateJob, SetProcessing
  <2>4. CASE UNCHANGED <<clock, createdAt, api>>
    BY <2>4
  <2>5. ASSUME NEW w \in Workers,
               BeginProcessing(w) \/ Complete(w) \/ MarkFailed(w)
        PROVE  UNCHANGED <<clock, createdAt, api>>
    BY <2>5
       DEF BeginProcessing, Complete, MarkFailed, WorkerStep, SetProcessing,
           CommitResults, SetFailed
  <2>6. QED
    BY <2>1, <2>2, <2>3, <2>4, <2>5
       DEF Next, Handler, Task, vars, tableVars, Receive, LoadFile, InsertRows,
           InsertSummary, RemoveFile, StepError, Abandon, ErrorBeforeTry, Ack,
           WorkerCrash, ConnectionLost, Age, Sweep, WorkerStep
<1>3. QED
  BY <1>1, <1>2, TypeCorrect, PTL DEF Spec

(* Whatever the faults, the tables see nothing but the steps of            *)
(* JobTable.tla: a transaction before its row, a row before its updates,   *)
(* results once and for a started job only.                                *)
THEOREM TablesUsed == Spec => UsesTables
<1>1. Init => TableInit
  BY DEF Init
<1>2. /\ TypeOK /\ JobLifecycle /\ OneCommit /\ CreatedAtTaken
      /\ [Next]_vars
      => [TableNext]_tableVars
  <2> SUFFICES ASSUME TypeOK, JobLifecycle, OneCommit, CreatedAtTaken,
                      [Next]_vars
               PROVE  TableNext \/ UNCHANGED tableVars
    OBVIOUS
  <2>1. ASSUME NEW u \in Uploads, Lookup(u) PROVE TableNext
    BY <2>1 DEF Lookup, ApiStep, CreatedAtTaken, TableNext, TableStep
  <2>2. ASSUME NEW u \in Uploads, Create(u) PROVE TableNext
    BY <2>2
       DEF Create, ApiStep, CreatedAtTaken, JobLifecycle, TableNext, TableStep
  <2>3. ASSUME NEW u \in Uploads, MarkEnqueued(u) PROVE TableNext
    BY <2>3
       DEF MarkEnqueued, ApiStep, JobLifecycle, Published, TableNext, TableStep
  <2>4. ASSUME NEW w \in Workers, BeginProcessing(w) PROVE TableNext
    <3>1. task[w] \in Uploads /\ status[task[w]] # "none"
      BY <2>4 DEF BeginProcessing, WorkerStep, TypeOK, JobLifecycle
    <3>2. QED
      BY <2>4, <3>1 DEF BeginProcessing, TableNext, TableStep
  <2>5. ASSUME NEW w \in Workers, MarkFailed(w) PROVE TableNext
    <3>1. task[w] \in Uploads /\ status[task[w]] # "none"
      BY <2>5 DEF MarkFailed, WorkerStep, TypeOK, JobLifecycle
    <3>2. QED
      BY <2>5, <3>1 DEF MarkFailed, TableNext, TableStep
  <2>6. ASSUME NEW w \in Workers, Complete(w) PROVE TableNext
    <3>1. /\ task[w] \in Uploads
          /\ summaries[task[w]] = 0
          /\ status[task[w]] \in {"processing", "failed"}
      BY <2>6
         DEF Complete, WorkerStep, TypeOK, TableTypeOK, JobLifecycle, Started,
             Trying, OneCommit, CompletedHasResults
    <3>2. QED
      BY <2>6, <3>1 DEF Complete, UniqueViolation, TableNext, TableStep
  <2>7. CASE UNCHANGED vars
    BY <2>7 DEF vars
  <2>8. QED
    BY <2>1, <2>2, <2>3, <2>4, <2>5, <2>6, <2>7
       DEF Next, Handler, Task, BeginStream, RejectStream, FinishStream,
           AnswerDuplicate, Enqueue, ApiAbort, Receive, LoadFile, InsertRows,
           InsertSummary, RemoveFile, StepError, Abandon, ErrorBeforeTry, Ack,
           WorkerCrash, ConnectionLost, Age, Sweep
<1>3. QED
  BY <1>1, <1>2, TypeCorrect, LifecycleHolds, OneCommitHolds, CreatedAtHolds,
     PTL DEF Spec, UsesTables, TableSpec
=============================================================================
