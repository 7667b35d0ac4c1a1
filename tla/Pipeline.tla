------------------------------ MODULE Pipeline ------------------------------
(***************************************************************************)
(* The life of an uploaded file: the upload handler of                     *)
(* app/api/routers/jobs.py, the process_csv_task of app/workers/tasks.py,  *)
(* the broker between them, the tables and the directory they share, and   *)
(* the hourly cleanup.                                                     *)
(*                                                                         *)
(* One action is the code between two points at which another process may  *)
(* be scheduled and can tell the difference: a commit, a broker call, a    *)
(* file operation.  The steps of one request or task are ordered by its    *)
(* program counter (api, worker).                                          *)
(***************************************************************************)
EXTENDS JobTable, TaskBroker, UploadDir

CONSTANTS
    ValidContents,        \* contents that have the required columns
    Faults,               \* the kinds of fault this environment shows
    MaxRedeliveries,      \* bound: crashes and lost connections in a behaviour
    BacklogPastRetention  \* may a job wait in the queue for over two hours

FaultKinds ==
    {"apiAbort",        \* an upload handler dies or raises half way
     "setupError",      \* a task raises before its try block
     "stepError",       \* a database, LLM or file call in it raises
     "dbError",         \* ... and so does the write of the failed status
     "workerLost",      \* a worker process dies
     "connectionLost",  \* the broker takes a message back from a live worker
     "softLimit",       \* a task runs for 300 seconds
     "hardLimit"}       \* ... or for 360

ASSUME PipelineAssumption ==
    /\ ValidContents \subseteq Contents
    /\ Faults \subseteq FaultKinds
    /\ MaxRedeliveries \in Nat
    /\ BacklogPastRetention \in BOOLEAN

VARIABLES
    api,          \* api[u]: where the request of upload u is
    worker,       \* worker[w]: where worker process w is
    task,         \* task[w]: the job w works on
    redeliveries  \* crashes and lost connections so far

vars == <<tableVars, brokerVars, dirVars, api, worker, task, redeliveries>>

ApiOver == {"rejected", "duplicate", "aborted", "unanswered", "answered"}

ApiPC == {"idle", "streaming", "streamed", "looked", "created", "enqueued"}
            \cup ApiOver

(* The message of u is out: apply_async has returned.                      *)
Published(u) == api[u] \in {"enqueued", "unanswered", "answered"}

(* The points of a task inside its try block.                              *)
Trying == {"processing", "loaded", "inserted", "summarised", "committed"}

(* The points between delivery and the end of the task function.           *)
Running == {"received", "failing"} \cup Trying

WorkerPC == {"idle", "ended"} \cup Running

TypeOK ==
    /\ TableTypeOK
    /\ BrokerTypeOK
    /\ DirTypeOK
    /\ api \in [Uploads -> ApiPC]
    /\ worker \in [Workers -> WorkerPC]
    /\ task \in [Workers -> Uploads \cup {NoTask}]
    /\ \A w \in Workers : task[w] = NoTask <=> worker[w] = "idle"
    /\ redeliveries \in 0 .. MaxRedeliveries

Init ==
    /\ TableInit
    /\ BrokerInit
    /\ DirInit
    /\ api = [u \in Uploads |-> "idle"]
    /\ worker = [w \in Workers |-> "idle"]
    /\ task = [w \in Workers |-> NoTask]
    /\ redeliveries = 0

WorkersOn(u) == {w \in Workers : task[w] = u /\ worker[w] \in Running}

-----------------------------------------------------------------------------
(* The upload handler.                                                     *)

ApiStep(u, from, to) ==
    /\ api[u] = from
    /\ api' = [api EXCEPT ![u] = to]
    /\ UNCHANGED <<worker, task, redeliveries>>

(* The MIME type and the extension are accepted, dest is opened.           *)
BeginStream(u) ==
    /\ ApiStep(u, "idle", "streaming")
    /\ WriteFile(u)
    /\ UNCHANGED <<tableVars, brokerVars>>

(* Over the size limit (413), or any exception while streaming (500).      *)
RejectStream(u) ==
    /\ ApiStep(u, "streaming", "rejected")
    /\ Unlink(u)
    /\ UNCHANGED <<tableVars, brokerVars>>

FinishStream(u) ==
    /\ ApiStep(u, "streaming", "streamed")
    /\ UNCHANGED <<tableVars, brokerVars, dirVars>>

(* Only the newest job of the content is looked at, and only a completed   *)
(* or processing one counts.                                               *)
IsDuplicate(u) ==
    \E j \in FindByHash(Content[u]) : status[j] \in {"completed", "processing"}

Lookup(u) ==
    /\ ~IsDuplicate(u)
    /\ ApiStep(u, "streamed", "looked")
    /\ BeginTransaction(u)
    /\ UNCHANGED <<brokerVars, dirVars>>

AnswerDuplicate(u) ==
    /\ IsDuplicate(u)
    /\ ApiStep(u, "streamed", "duplicate")
    /\ Unlink(u)
    /\ UNCHANGED <<tableVars, brokerVars>>

Create(u) ==
    /\ ApiStep(u, "looked", "created")
    /\ CreateJob(u)
    /\ UNCHANGED <<brokerVars, dirVars>>

Enqueue(u) ==
    /\ ApiStep(u, "created", "enqueued")
    /\ Publish(u)
    /\ UNCHANGED <<tableVars, dirVars>>

(* After the message is out, the handler writes the status once more.      *)
MarkEnqueued(u) ==
    /\ ApiStep(u, "enqueued", "answered")
    /\ SetProcessing(u, "api")
    /\ UNCHANGED <<brokerVars, dirVars>>

(* The process dies, or a call raises outside the streaming's try: nothing *)
(* is undone, and what was not committed is lost.                          *)
ApiAbort(u) ==
    /\ "apiAbort" \in Faults
    /\ api[u] \notin ApiOver \cup {"idle"}
    /\ ApiStep(u, api[u], IF Published(u) THEN "unanswered" ELSE "aborted")
    /\ UNCHANGED <<tableVars, brokerVars, dirVars>>

-----------------------------------------------------------------------------
(* The worker's task.                                                      *)

WorkerStep(w, from, to) ==
    /\ worker[w] \in from
    /\ worker' = [worker EXCEPT ![w] = to]
    /\ UNCHANGED <<api, task, redeliveries>>

Receive(w, u) ==
    /\ worker[w] = "idle"
    /\ Deliver(w, u)
    /\ worker' = [worker EXCEPT ![w] = "received"]
    /\ task' = [task EXCEPT ![w] = u]
    /\ UNCHANGED <<tableVars, dirVars, api, redeliveries>>

(* Wrong on purpose: the task starts without set_processing.               *)
BeginSilently(w) ==
    /\ WorkerStep(w, {"received"}, "processing")
    /\ UNCHANGED <<tableVars, brokerVars, dirVars>>

BeginProcessing(w) ==
    /\ WorkerStep(w, {"received"}, "processing")
    /\ SetProcessing(task[w], "worker")
    /\ UNCHANGED <<brokerVars, dirVars>>

(* clean_csv reads the file: FileNotFoundError if it is gone, ValueError   *)
(* if a required column is missing.  Anomaly detection and classification  *)
(* work on what was read.                                                  *)
Readable(u) == Present(u) /\ Content[u] \in ValidContents

LoadFile(w) ==
    /\ WorkerStep(w, {"processing"},
                  IF Readable(task[w]) THEN "loaded" ELSE "failing")
    /\ UNCHANGED <<tableVars, brokerVars, dirVars>>

(* Wrong on purpose: set_completed is committed before the inserts.        *)
CompleteTooEarly(w) ==
    /\ WorkerStep(w, {"loaded"}, "inserted")
    /\ WriteStatus(task[w], "completed", "worker")
    /\ UNCHANGED <<createdAt, clock, rows, summaries, brokerVars, dirVars>>

(* bulk_insert flushes the rows into the open transaction.                 *)
InsertRows(w) ==
    /\ WorkerStep(w, {"loaded"}, "inserted")
    /\ UNCHANGED <<tableVars, brokerVars, dirVars>>

(* Another session holds an uncommitted summary row of the same job: the   *)
(* unique index makes this insert wait for its outcome.                    *)
SummaryLocked(w) ==
    \E v \in Workers : task[v] = task[w] /\ worker[v] = "summarised"

InsertSummary(w) ==
    /\ ~SummaryLocked(w)
    /\ WorkerStep(w, {"inserted"},
                  IF UniqueViolation(task[w]) THEN "failing" ELSE "summarised")
    /\ UNCHANGED <<tableVars, brokerVars, dirVars>>

Complete(w) ==
    /\ WorkerStep(w, {"summarised"}, "committed")
    /\ CommitResults(task[w])
    /\ UNCHANGED <<brokerVars, dirVars>>

RemoveFile(w) ==
    /\ WorkerStep(w, {"committed"}, "ended")
    /\ Unlink(task[w])
    /\ UNCHANGED <<tableVars, brokerVars>>

(* A call inside the try block raises (from "received": the progress       *)
(* report or the first update and its commit), or the soft time limit      *)
(* strikes while the coroutine itself is running: the open transaction is  *)
(* rolled back and an except clause takes over.                            *)
StepError(w) ==
    /\ Faults \cap {"stepError", "softLimit"} # {}
    /\ WorkerStep(w, {"received"} \cup Trying, "failing")
    /\ UNCHANGED <<tableVars, brokerVars, dirVars>>

MarkFailed(w) ==
    /\ WorkerStep(w, {"failing"}, "ended")
    /\ SetFailed(task[w])
    /\ UNCHANGED <<brokerVars, dirVars>>

(* The job id, the session or an import raises: no except clause is in     *)
(* force yet.                                                              *)
ErrorBeforeTry(w) ==
    /\ "setupError" \in Faults
    /\ WorkerStep(w, {"received"}, "ended")

(* The task ends without any of its except clauses having written: it      *)
(* never got to the try block, the write of the failed status raises, the  *)
(* soft limit strikes while the event loop waits and only a CancelledError *)
(* reaches the coroutine, or the hard limit kills the process.             *)
Abandon(w) ==
    /\ \/ ErrorBeforeTry(w)
       \/ /\ "dbError" \in Faults
          /\ WorkerStep(w, {"failing"}, "ended")
       \/ /\ Faults \cap {"softLimit", "hardLimit"} # {}
          /\ WorkerStep(w, Running, "ended")
    /\ UNCHANGED <<tableVars, brokerVars, dirVars>>

(* Success, failure and time limit alike are acknowledged.                 *)
Ack(w) ==
    /\ worker[w] = "ended"
    /\ Acknowledge(w)
    /\ worker' = [worker EXCEPT ![w] = "idle"]
    /\ task' = [task EXCEPT ![w] = NoTask]
    /\ UNCHANGED <<tableVars, dirVars, api, redeliveries>>

CountRedelivery ==
    /\ redeliveries < MaxRedeliveries
    /\ redeliveries' = redeliveries + 1

WorkerCrash(w) ==
    /\ "workerLost" \in Faults
    /\ CountRedelivery
    /\ worker[w] # "idle"
    /\ worker' = [worker EXCEPT ![w] = "idle"]
    /\ task' = [task EXCEPT ![w] = NoTask]
    /\ Requeue(w)
    /\ UNCHANGED <<tableVars, dirVars, api>>

(* The task goes on running while its message is delivered again.          *)
ConnectionLost(w) ==
    /\ "connectionLost" \in Faults
    /\ CountRedelivery
    /\ unacked[w] # NoTask
    /\ Requeue(w)
    /\ UNCHANGED <<tableVars, dirVars, api, worker, task>>

-----------------------------------------------------------------------------
(* Time and the cleanup.                                                   *)

(* Two hours pass.  A request and a task are much shorter (the task is     *)
(* killed after six minutes); the wait in the queue need not be.           *)
Age(u) ==
    /\ api[u] \in ApiOver
    /\ BacklogPastRetention \/ ~(Outstanding(u) \/ WorkersOn(u) # {})
    /\ GrowOld(u)
    /\ UNCHANGED <<tableVars, brokerVars, api, worker, task, redeliveries>>

Sweep ==
    /\ StartSweep \/ \E u \in Uploads : SweepFile(u) \/ AbortSweep(u)
    /\ UNCHANGED <<tableVars, brokerVars, api, worker, task, redeliveries>>

-----------------------------------------------------------------------------
(* What a request does once it has begun.                                  *)
Handler(u) ==
    \/ RejectStream(u)
    \/ FinishStream(u)
    \/ Lookup(u)
    \/ AnswerDuplicate(u)
    \/ Create(u)
    \/ Enqueue(u)
    \/ MarkEnqueued(u)

Task(w) ==
    \/ \E u \in Uploads : Receive(w, u)
    \/ BeginProcessing(w)
    \/ LoadFile(w)
    \/ InsertRows(w)
    \/ InsertSummary(w)
    \/ Complete(w)
    \/ RemoveFile(w)
    \/ MarkFailed(w)
    \/ Ack(w)

Next ==
    \/ \E u \in Uploads : BeginStream(u) \/ Handler(u) \/ ApiAbort(u) \/ Age(u)
    \/ \E w \in Workers : \/ Task(w) \/ StepError(w) \/ Abandon(w)
                          \/ WorkerCrash(w) \/ ConnectionLost(w)
    \/ Sweep

Spec == Init /\ [][Next]_vars

(* Each process keeps running, hours keep passing and beat keeps firing.   *)
(* No fault is fair.                                                       *)
Fairness ==
    /\ \A u \in Uploads : WF_vars(Handler(u)) /\ WF_vars(Age(u))
    /\ \A w \in Workers : WF_vars(Task(w))
    /\ WF_vars(Sweep)

FairSpec == Spec /\ Fairness
=============================================================================
