------------------------------ MODULE JobTable ------------------------------
(***************************************************************************)
(* The three PostgreSQL tables behind app/db/repository.py: jobs,          *)
(* transactions and job_summaries (app/models/models.py).                  *)
(*                                                                         *)
(* Every operation below is one commit.  What a session has flushed but    *)
(* not committed is invisible to the others (READ COMMITTED) and is kept   *)
(* by the session's owner, in the worker's program counter (Pipeline.tla). *)
(*                                                                         *)
(* A job is identified with the upload request that creates it             *)
(* (Requests.tla).                                                         *)
(***************************************************************************)
EXTENDS Naturals, Requests

VARIABLES
    status,      \* jobs.status, or "none" while no such row is committed
    createdAt,   \* jobs.created_at, as a tick of clock; 0 before it is taken
    clock,       \* the database's now(), one tick per upload transaction
    rows,        \* committed bulk inserts of the job's transactions
    summaries,   \* committed job_summaries rows of the job
    lastWriter   \* history variable: which process wrote status last

tableVars == <<status, createdAt, clock, rows, summaries, lastWriter>>

JobStatus == {"pending", "processing", "completed", "failed"}

Terminal == {"completed", "failed"}

TableTypeOK ==
    /\ status \in [Uploads -> JobStatus \cup {"none"}]
    /\ createdAt \in [Uploads -> Nat]
    /\ clock \in Nat
    /\ rows \in [Uploads -> Nat]
    /\ summaries \in [Uploads -> Nat]
    /\ lastWriter \in [Uploads -> {"none", "api", "worker"}]

TableInit ==
    /\ status = [u \in Uploads |-> "none"]
    /\ createdAt = [u \in Uploads |-> 0]
    /\ clock = 1
    /\ rows = [u \in Uploads |-> 0]
    /\ summaries = [u \in Uploads |-> 0]
    /\ lastWriter = [u \in Uploads |-> "none"]

Jobs == {j \in Uploads : status[j] # "none"}

-----------------------------------------------------------------------------
(* SELECT ... WHERE file_hash ORDER BY created_at DESC LIMIT 1: the newest *)
(* committed job of a content, as a set of at most one element.            *)
FindByHash(c) ==
    {j \in Jobs :
        /\ Content[j] = c
        /\ \A k \in Jobs : Content[k] = c => createdAt[k] <= createdAt[j]}

(* The request's first statement opens its transaction, and now() stays    *)
(* at that instant until the commit: created_at is the time of the         *)
(* duplicate check, not of the insert.                                     *)
BeginTransaction(j) ==
    /\ clock' = clock + 1
    /\ createdAt' = [createdAt EXCEPT ![j] = clock]
    /\ UNCHANGED <<status, rows, summaries, lastWriter>>

WriteStatus(j, s, who) ==
    /\ status' = [status EXCEPT ![j] = s]
    /\ lastWriter' = [lastWriter EXCEPT ![j] = who]

(* Wrong on purpose: the row starts out as "processing".                   *)
CreateAsProcessing(j) ==
    /\ WriteStatus(j, "processing", "api")
    /\ UNCHANGED <<createdAt, clock, rows, summaries>>

CreateJob(j) ==
    /\ WriteStatus(j, "pending", "api")
    /\ UNCHANGED <<createdAt, clock, rows, summaries>>

(* UPDATE jobs ... WHERE id = j: neither update looks at the old status.   *)
SetProcessing(j, who) ==
    /\ WriteStatus(j, "processing", who)
    /\ UNCHANGED <<createdAt, clock, rows, summaries>>

(* Wrong on purpose: a status that is not in the enum.                     *)
SetUnknown(j) ==
    /\ WriteStatus(j, "error", "worker")
    /\ UNCHANGED <<createdAt, clock, rows, summaries>>

SetFailed(j) ==
    /\ WriteStatus(j, "failed", "worker")
    /\ UNCHANGED <<createdAt, clock, rows, summaries>>

(* The worker's one long transaction: bulk_insert, the summary insert and  *)
(* set_completed become visible together.                                  *)
CommitResults(j) ==
    /\ WriteStatus(j, "completed", "worker")
    /\ rows' = [rows EXCEPT ![j] = @ + 1]
    /\ summaries' = [summaries EXCEPT ![j] = @ + 1]
    /\ UNCHANGED <<createdAt, clock>>

(* Wrong on purpose: job_summaries.job_id without its UNIQUE.              *)
NoUniqueIndex(j) == FALSE

(* job_summaries.job_id is UNIQUE, and "upsert" is a plain INSERT.         *)
UniqueViolation(j) == summaries[j] > 0

-----------------------------------------------------------------------------
(* What the handler and the workers do to the tables, seen from the tables *)
(* alone: no row before its transaction, no update before its row, results *)
(* only once and only for a job some worker has started.  The pipeline is  *)
(* shown to do nothing else (PipelineProperties.tla); the readers of       *)
(* Readers.tla are checked against all of it.                              *)
TableStep(j) ==
    \/ /\ createdAt[j] = 0
       /\ BeginTransaction(j)
    \/ /\ createdAt[j] # 0
       /\ status[j] = "none"
       /\ CreateJob(j)
    \/ /\ status[j] # "none"
       /\ \/ \E who \in {"api", "worker"} : SetProcessing(j, who)
          \/ SetFailed(j)
    \/ /\ status[j] \in {"processing", "failed"}
       /\ ~UniqueViolation(j)
       /\ CommitResults(j)

TableNext == \E j \in Uploads : TableStep(j)

TableSpec == TableInit /\ [][TableNext]_tableVars
=============================================================================
