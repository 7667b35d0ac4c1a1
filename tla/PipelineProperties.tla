------------------------- MODULE PipelineProperties -------------------------
(***************************************************************************)
(* What the pipeline guarantees, and what the repository says of it that   *)
(* it does not.                                                            *)
(***************************************************************************)
EXTENDS Pipeline

-----------------------------------------------------------------------------
(* Guarantees, under every fault.                                          *)

(* The message of a job is delivered at least once, and its task may run   *)
(* several times, even at the same time; still at most one run's rows are  *)
(* kept, and never without the summary row (the one transaction of         *)
(* tasks.py:131-166 and the UNIQUE of models.py:155).                      *)
ResultsExactlyOnce ==
    \A u \in Uploads : rows[u] = summaries[u] /\ rows[u] <= 1

(* A job a client sees as completed has its transactions and its summary,  *)
(* whatever wrote its status in between (docs/DESIGN_DECISIONS.md:41).     *)
CompletedHasResults ==
    \A u \in Uploads :
        status[u] = "completed" => rows[u] > 0 /\ summaries[u] > 0

Holders(u) == {w \in Workers : unacked[w] = u}

(* A message that was sent is in exactly one place: the queue, one         *)
(* worker's hands, or settled.                                             *)
TaskInOnePlace ==
    \A u \in Uploads :
        /\ Published(u) <=> Outstanding(u) \/ u \in settled
        /\ u \in queue => Holders(u) = {} /\ u \notin settled
        /\ u \in settled => Holders(u) = {}
        /\ \A v, w \in Holders(u) : v = w

(* An upload that is answered with another job, because the newest of its  *)
(* content is completed or processing (jobs.py:106), is answered with one  *)
(* whose message is out.  A request that died between its commit and its   *)
(* apply_async leaves a pending job nobody will ever run: no later upload  *)
(* of the same content is turned away for that one.                        *)
DuplicateIsPublished ==
    \A u, j \in Uploads :
        /\ u # j
        /\ api[u] = "streamed"
        /\ j \in FindByHash(Content[u])
        /\ status[j] \in {"completed", "processing"}
        => Published(j)

(* The job tables implement the ledger: results are recorded once, in the  *)
(* step that completes the job.                                            *)
Ledger == INSTANCE JobLedger WITH
    state    <- status,
    recorded <- {u \in Uploads : rows[u] = 1 /\ summaries[u] = 1}

ImplementsLedger == Ledger!LedgerSpec

(* The broker's settings keep their promise for every message: one         *)
(* delivery at a time, settled only after its task has ended, back in the  *)
(* queue if its worker or its connection is lost (celery_app.py:44-45).    *)
Place(u) ==
    IF u \in settled THEN "gone"
    ELSE IF u \in queue THEN "queued"
    ELSE IF ~Published(u) THEN "unsent"
    ELSE IF \E w \in Workers : unacked[w] = u /\ worker[w] = "ended" THEN "ended"
    ELSE "running"

Life == INSTANCE MessageLife WITH
    Messages <- Uploads,
    place    <- [u \in Uploads |-> Place(u)]

ImplementsMessageLife == Life!LifeSpec

(* A task has begun on the job, or its request has written once more.      *)
Started(u) == status[u] \in {"processing", "completed", "failed"}

(* The job has a verdict, or its status is the upload handler's word.      *)
Decided(u) == status[u] \in Terminal \/ lastWriter[u] = "api"

(* The points from which a task still goes on to a verdict.                *)
Deciding == {"processing", "loaded", "inserted", "summarised", "failing"}

(* A verdict is on its way: by an execution under way, or by one that the  *)
(* message, in the queue or just handed out, is going to start.            *)
OnItsWay(u) ==
    \/ u \in queue
    \/ \E w \in Workers :
          /\ task[w] = u
          /\ \/ worker[w] \in Deciding
             \/ worker[w] = "received" /\ unacked[w] = u

RouteOpen(u) == Started(u) /\ ~Decided(u) => OnItsWay(u)

(* A worker that has shown a job "processing" owes it a verdict.  However  *)
(* executions fail, die, overlap and come again, the verdict stays on its  *)
(* way, but for two ends: an execution is over before any except clause    *)
(* has written (a time limit, a failed write, an error before the try), or *)
(* one dies whose message the broker has already given to another          *)
(* (tasks.py:171-190, celery_app.py:44-45).                                *)
VerdictStaysDue ==
    [][\A u \in Uploads :
          RouteOpen(u) /\ ~RouteOpen(u)' =>
              \E w \in Workers :
                  /\ task[w] = u
                  /\ \/ Abandon(w)
                     \/ WorkerCrash(w) /\ unacked[w] # u]_vars

(* Seen from the tables, handlers and workers do what JobTable.tla allows  *)
(* and no more, whatever dies or comes twice: what the readers of          *)
(* Readers.tla are checked against is all that can happen to them.         *)
UsesTables == TableSpec

-----------------------------------------------------------------------------
(* Guarantees under some environments.                                     *)

(* While a job has work to come, its file is there (without a backlog that *)
(* outlasts the retention): no cleanup, no other request and no earlier    *)
(* run of the task takes it away.                                          *)
UnfinishedJobHasFile ==
    \A u \in Uploads :
        /\ Outstanding(u) \/ WorkersOn(u) # {}
        /\ rows[u] = 0
        => Present(u)

(* Once the message of a job is settled and no worker is on it, the job    *)
(* has a verdict, unless the upload handler wrote the status last          *)
(* (jobs.py:133): no crash leaves a job in "processing".                   *)
WorkerNeverAbandons ==
    \A u \in settled :
        WorkersOn(u) = {} => status[u] \in Terminal \/ lastWriter[u] = "api"

(* Every job whose message is in the queue gets a verdict.                 *)
JobGetsVerdict ==
    \A u \in Uploads : u \in queue ~> status[u] \in Terminal

(* Every file of the directory goes away: by its worker, by its request,   *)
(* or by the cleanup (README.md:453).  The one file that may stay for ever *)
(* is one that the cleanup's pattern does not match (X.CSV) and whose      *)
(* request died or whose task is over without having removed it.           *)
FilesReclaimed ==
    \A u \in Uploads :
        Present(u) ~> \/ ~Present(u)
                      \/ /\ u \in UpperCase
                         /\ api[u] = "aborted" \/ u \in settled

(* As long as no worker is lost and no message is taken back, a client     *)
(* sees a verdict taken back in two ways only: the upload handler writes   *)
(* its "processing" after it (jobs.py:133), or the execution that          *)
(* completed the job raises after its commit (tasks.py:169) and marks it   *)
(* failed, its results in the tables.                                      *)
VerdictsStand ==
    [][redeliveries = 0 =>
          \A u \in Uploads :
              status[u] \in Terminal /\ status'[u] # status[u] =>
                  \/ /\ status'[u] = "processing"
                     /\ api'[u] # api[u]
                  \/ /\ status'[u] = "failed"
                     /\ rows[u] = 1
                     /\ \E w \in Workers : task[w] = u /\ worker'[w] = "ended"]_vars

-----------------------------------------------------------------------------
(* Strengthenings: what the proofs of PipelineProofs.tla carry from state  *)
(* to state besides the guarantees themselves.                             *)

(* A worker holds the message of its own task, or none.                    *)
Ownership == \A w \in Workers : unacked[w] \in {NoTask, task[w]}

(* The row of a job exists from the commit of its request on, leaves       *)
(* "pending" only after its message is out, and has left it once a task    *)
(* has begun.                                                              *)
JobLifecycle ==
    /\ \A u \in Uploads :
          /\ api[u] \in {"idle", "streaming", "streamed", "looked",
                        "rejected", "duplicate"} => status[u] = "none"
          /\ api[u] = "created" \/ Published(u) => status[u] # "none"
          /\ Started(u) => Published(u)
    /\ \A w \in Workers :
          /\ worker[w] # "idle" => Published(task[w])
          /\ worker[w] \in Trying => Started(task[w])

(* A request has taken its created_at from its duplicate check on.         *)
CreatedAtTaken ==
    /\ clock # 0
    /\ \A u \in Uploads :
          /\ api[u] \in {"idle", "streaming", "streamed"} => createdAt[u] = 0
          /\ api[u] = "looked" => createdAt[u] # 0

(* A worker between its summary insert and its commit is the only one      *)
(* there for its job, and nothing is committed for the job yet.            *)
OneCommit ==
    /\ ResultsExactlyOnce
    /\ CompletedHasResults
    /\ \A w \in Workers :
          /\ worker[w] = "summarised" => summaries[task[w]] = 0
          /\ worker[w] = "committed" => rows[task[w]] = 1
    /\ \A v, w \in Workers :
          /\ worker[v] = "summarised" /\ worker[w] = "summarised"
          /\ task[v] = task[w]
          => v = w

(* The file is younger than the retention from the opening of dest to the  *)
(* end of the work on it.                                                  *)
FileKept ==
    ~BacklogPastRetention =>
        \A u \in Uploads :
            \/ api[u] \in {"streaming", "streamed", "looked", "created"}
            \/ (Outstanding(u) \/ WorkersOn(u) # {}) /\ rows[u] = 0
            => file[u] = "fresh"

(* Before the first redelivery there is one execution per job, and nobody  *)
(* but that execution has decided anything.                                *)
FirstExecution ==
    redeliveries = 0 =>
        /\ \A w \in Workers : unacked[w] = task[w]
        /\ \A u \in queue : status[u] \notin Terminal
        /\ \A w \in Workers :
              worker[w] # "idle" /\ status[task[w]] \in Terminal =>
                  \/ worker[w] \in {"committed", "ended"}
                  \/ worker[w] = "failing" /\ rows[task[w]] = 1

(* The faults that end a task by an error or with its process, or deliver  *)
(* it twice.  The time limits and a database that is down for the failed   *)
(* status can leave a job without a verdict by themselves.                 *)
TaskFaults == {"apiAbort", "stepError", "workerLost", "connectionLost"}

(* No worker process dies whose message the broker has taken back.         *)
SupersededSurvive ==
    [][\A w \in Workers : WorkerCrash(w) => unacked[w] = task[w]]_vars

(* The broker takes a message back from dead processes only.               *)
MessageHeld ==
    "connectionLost" \notin Faults => \A w \in Workers : unacked[w] = task[w]

(* A started job without a verdict has an execution on its way to one, or  *)
(* a message that will start one, even if others have ended before.        *)
VerdictIsComing ==
    /\ \A u \in Uploads : RouteOpen(u)
    /\ \A w \in Workers : worker[w] = "ended" => Started(task[w])
    /\ \A u \in settled : Started(u)

-----------------------------------------------------------------------------
(* What the repository says and the code does not do.                      *)

(* README.md:195: pending -> processing -> completed | failed.             *)
TerminalIsFinal ==
    [][\A u \in Uploads :
          status[u] \in Terminal => status'[u] = status[u]]_vars

(* docs/DESIGN_DECISIONS.md:63: a job survives a worker crash              *)
(* mid-processing.                                                         *)
ResultsAreNotFailed ==
    \A u \in Uploads : rows[u] > 0 => status[u] # "failed"

(* docs/DESIGN_DECISIONS.md:147: an upload whose content already has a job *)
(* gets that job.                                                          *)
OneLiveJobPerContent ==
    \A u, v \in Uploads :
        /\ status[u] \in JobStatus \ {"failed"}
        /\ status[v] \in JobStatus \ {"failed"}
        /\ Content[u] = Content[v]
        => u = v
=============================================================================
