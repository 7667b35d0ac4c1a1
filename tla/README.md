# A TLA+ model of the transaction pipeline

This directory holds a formal model of the service in `src/`: a client uploads a
CSV file, a FastAPI handler stores it and puts a task into Redis, a Celery worker
cleans, classifies and stores its rows, and the client polls for the result. The
model covers what makes such a pipeline hard to test: requests, workers and the
hourly cleanup interleave freely, processes die between any two steps, messages
are delivered again, time limits strike in the middle of a task, readers see some
of it half way, and files hold rows nobody expected.

TLC checks the properties on small instances; TLAPS proves the safety
properties for any number of uploads, workers, rows and pages.

    tlc -config AllFaults.cfg MCPipeline.tla      # any of the configurations below
    tlc -config Answers.cfg MCClassification.tla  # ... with the MC module it is for
    tlc -config Readers.cfg MCReaders.tla
    tlc -config Rows.cfg MCRows.tla
    tlc -config Breaker.cfg CircuitBreaker.tla
    tlapm PipelineProofs.tla                      # and the other three *Proofs.tla,
    tlapm SumTheorems.tla                         # SumTheorems and Service

## The system

| part | source | state it keeps | operations |
|---|---|---|---|
| upload handler | `app/api/routers/jobs.py:50-140` | none beyond the request | validate, stream to disk, duplicate check, create job, enqueue, second status write |
| read endpoints | `jobs.py:150-286` | none | status, results, list |
| job tables | `app/db/repository.py`, `app/models/models.py` | `jobs`, `transactions`, `job_summaries` | `create`, `set_processing`, `set_completed`, `set_failed`, `find_by_hash`, `bulk_insert`, `upsert`, reads |
| worker task | `app/workers/tasks.py:43-190` | one open transaction | processing, clean, detect, classify, insert, summarise, complete, unlink; two except clauses |
| broker | `app/workers/celery_app.py`, Redis | queued and unacknowledged messages | publish, deliver, acknowledge, requeue |
| upload directory | volume `/tmp/txn_uploads` | files with a modification time | write, read, unlink |
| cleanup | `tasks.py:193-206` | list of the running sweep | list, stat, unlink if older than two hours |
| LLM client | `app/services/llm.py` | results by row index | retry with backoff, classify in batches, narrative |
| cleaning | `app/services/cleaning.py` | none (pure, but for random ids) | normalise, deduplicate rows |
| anomaly detection | `app/services/anomaly.py` | none (pure) | median per account, four rules |
| circuit breaker | `app/utils/circuit_breaker.py` | a Redis hash per service | record, open, recover; nothing calls it |
| health, logging, configuration, schemas, migrations | remaining files | none of interest | - |

The parts meet in three shared places: the tables (handler and worker both write
`jobs.status`, neither looks at the old value), the queue, and the directory
(handler, worker and cleanup all delete from it). There is no lock between them;
what holds the system together is one database transaction per session, one unique
index (`job_summaries.job_id`), late acknowledgement, and the order of the steps.

### What is hard here, and what makes each part correct

* **Handler.** The duplicate check and the insert are separate; the message is out
  before the last status write; the process can die between any two steps. It is
  correct if an upload is never answered with a job nobody runs, and if no content
  has two live jobs (the code does not guarantee the second).
* **Tables.** They are correct if results are recorded once, whole, and together
  with `completed`, and if a terminal status stays (the code does not guarantee this).
* **Worker task.** It may run several times and several times at once. It is
  correct if every execution ends in a verdict before its message is settled.
* **Broker.** No message is lost or in two places; an execution whose message was
  taken back settles nothing.
* **Directory and cleanup.** No file that is needed goes, and every file goes in
  the end (with two exceptions, below).
* **LLM client.** It is correct if every uncategorised row is classified or flagged,
  if a batch that fails costs no other batch anything, and if all of it fits the
  time the task has. The code guarantees the second only, and that for errors and
  unparsable replies: a reply of a wrong shape fails the whole task (run `WrongReply`).
* **Read endpoints.** An answer is put together from up to three SELECTs that may
  see three commits, and a listing from one request per page while jobs are inserted.
  They are correct if no answer is torn and a walk through the pages misses no job
  it should have listed.
* **Cleaning.** It is correct if every row is kept or counted, and exactly the
  repetitions are dropped: whether two rows are one transaction must not depend on
  blanks, date formats or rows without an id.
* **Anomaly detection.** One verdict per row; an account's own median decides what is
  an outlier, for odd and even numbers of payments and accounts without any.
* **Breakdowns.** A client is shown two, from before and after classification; they
  may differ only in what was classified.
* **Circuit breaker.** It is correct if the circuit opens after five failures in a
  row (the code does not do this).

## Modules

| module | models | extends |
|---|---|---|
| `Requests` | the upload requests and their contents; file, job and message are named by the request, because each draws its own uuid | |
| `JobTable` | the three tables; each operation is one commit; `TableSpec`: all that handlers and workers may do to them | `Requests` |
| `TaskBroker` | Redis as Celery uses it under `celery_app.py:43-46` (external semantics) | `Requests` |
| `UploadDir` | the directory and the steps of one sweep | `Requests` |
| `Pipeline` | the handler, the worker processes, faults, time; composes the three | the three above |
| `JobLedger` | abstract specification: what a client may rely on about jobs | |
| `MessageLife` | abstract specification: what the broker's settings promise about a message | |
| `PipelineProperties` | properties, the strengthenings of the proofs, the refinement mappings | `Pipeline`, `JobLedger` and `MessageLife` by `INSTANCE` |
| `MCPipeline` | contents and symmetry for TLC | `PipelineProperties` |
| `PipelineProofs` | theorems and proofs | `PipelineProperties`, `TLAPS` |
| `Classification` | the retry loop, the batches, the records and the narrative call of one task; its properties | |
| `MCClassification` | the rows of the outage for TLC | `Classification` |
| `ClassificationProofs` | theorems and proofs | `Classification`, `TLAPS` |
| `Readers` | the three GET endpoints, select by select, beside `TableSpec`; its properties | `JobTable` |
| `MCReaders` | content and symmetry for TLC | `Readers` |
| `ReadersProofs` | theorems and proofs | `Readers`, `TLAPS` |
| `Cleaning` | `clean_csv`, row by row | |
| `Anomaly` | medians and the four rules | `Cleaning` |
| `Rows` | one file from its header to the two breakdowns; its properties | `Anomaly` |
| `MCRows` | ten rows, three headers and the conversions on them for TLC | `Rows` |
| `SumTheorems` | sums over finite sets, and the least natural number with a property: lemmas about operators, not about this code | community and proof modules |
| `RowsProofs` | theorems and proofs | `Rows`, `SumTheorems` |
| `CircuitBreaker` | every method of the class, with callers in parallel | |
| `Service` | `Pipeline` and `Readers` at the same tables; theorems and proofs about the composition | `PipelineProofs`, `ReadersProofs` by `INSTANCE` |

How they compose: `Pipeline` is the composition of handler, tables, broker and
directory. `Readers` runs beside `TableSpec` instead of the whole pipeline, which is
more than the pipeline does: `UsesTables` (checked, and proved as `TablesUsed`) says
that each step of the pipeline is a table step or leaves the tables alone, so what
holds of the readers beside `TableSpec` holds beside the pipeline. That last step is a
theorem too: `Service` is the interleaving of both, and `ReadersAreServed` says that
each of its behaviours is one of `Readers`. `Classification`
and `Rows` are what happens inside one execution, in nobody's sight; `Pipeline` needs
their outcomes only (`StepError`, `softLimit`, an invalid content).

**State.** `status`, `rows`, `summaries` and `createdAt` are columns and row counts
as committed; what a session has flushed only is not state but follows from the
worker's program counter (`inserted`: rows flushed; `summarised`: summary flushed
too). `createdAt` is taken at the duplicate check: `now()` is the start of the
transaction, and the check is its first statement. `file[u]` is `absent`, `fresh`
or `old` (past two hours). `lastWriter` is a history variable for one property.

**Actions.** One action per stretch of code that another process can tell apart.
Handler: `BeginStream`, `RejectStream`, `FinishStream`, `Lookup` or
`AnswerDuplicate`, `Create`, `Enqueue`, `MarkEnqueued`, and `ApiAbort` anywhere
between. Worker: `Receive`, `BeginProcessing`, `LoadFile`, `InsertRows`,
`InsertSummary`, `Complete`, `RemoveFile`, `MarkFailed`, `Ack`. A missing file, a
missing column and the unique index lead to `MarkFailed` without any fault. Sweep:
`StartSweep` reads the whole listing (as `Path.glob` does), `SweepFile`,
`AbortSweep`. The second of two overlapping executions waits at `InsertSummary`
while the first holds an uncommitted summary (`SummaryLocked`), as PostgreSQL makes
it wait on the unique index.

**Classification** is one task's stretch from `loaded` to `inserted`, and the call
before the summary insert; nothing in it is shared, so `Pipeline` needs its outcomes
only: `raised` is `StepError`, `interrupted` is `softLimit`. `start` is `batch_start`;
`results` is the dictionary, with `"none"` for a missing key; `attempt` counts within
one call. A reply is an error the loop retries, an unparsable body or text (handled
by the callers, at once), a shape that raises what nobody handles, or an answer: any
words under any of `Keys`, which may belong to other rows, to categorised ones, or to
none. `elapsed` is the time of the task in seconds: the sleeps the code asks for, the
time of each attempt (`CallTimes`, up to `CallTimeout`), and, counted in advance,
what the task does besides (`WorkTime`). The limit strikes in a sleep or while a reply
is awaited (`TimeUp`); an attempt whose reply would come later is never answered. That an
attempt takes at most 30 s (`llm.py:117`) is an assumption: httpx counts them for each
phase of a request. `lost` (the rows of failed batches) and `omitted` (the rows an accepted
answer to their own batch did not name) are history variables.

**Readers.** One client, one request at a time, since requests only read. `SelectJob`,
`SelectRows`, `SelectSummary` are the SELECTs of `get_with_summary` and
`get_with_transactions` (`selectinload` issues one per relation); any `TableStep` may
come between, because the sessions run at READ COMMITTED. `Code` is decided from the
status the first one saw. `BeginWalk`, `ListPage`, `EndWalk` are a client that walks
through `GET /jobs` by offset, with or without a status filter; the walk itself is
external, the page is the query. `Watch` is history: it drops
a job that loses the filter's status from the ones the walk is to find, and notes
(`shifted`) when that job lay in the pages already fetched. `Place` is the number of
jobs in front of one in `ORDER BY created_at DESC`; ticks of `clock` are distinct, as timestamps with
microseconds are for all practical purposes.

**Rows.** `CheckHeader`, `KeepRow`, `DropDuplicate`, `RaiseOnShortRow`, `Unreadable`
and `EndOfFile` are the paths of `clean_csv`: a short row has `None` in its last cells,
and whether `None.strip()` is reached depends on the row being a duplicate (the two last
columns are looked at after the signature). `Detect` is `detect_anomalies`, `Record` the
records, the summary's `category_spend`, and `Breakdown` what `/results` adds up from
the records. Texts are members of a set; what Python's `strip`, `upper`, `strptime`
and `float` make of them are constant functions, about which the proofs assume their
types and that an empty text strips to itself. A random id is taken to be new.
Amounts are whole numbers, and the median is doubled so that it stays one.

**CircuitBreaker.** `Execute` is `pipe.execute()` of a `redis.asyncio` pipeline without
`await`: it changes nothing, and taking its result for a list raises `TypeError`. The
callers are external, since nothing in the repository calls the class.

**Faults** of the pipeline are chosen per configuration from `FaultKinds`:

| fault | in the code |
|---|---|
| `apiAbort` | the handler dies or raises outside the streaming `try`; nothing is undone |
| `setupError` | the session, an import or the job id raises before the `try` (`tasks.py:57-68`): no except clause is in force (`ErrorBeforeTry`) |
| `stepError` | a call inside the task's `try` raises |
| `dbError` | so does the write of the failed status (`tasks.py:188` swallows it) |
| `workerLost` | the process dies; `task_reject_on_worker_lost` requeues |
| `connectionLost` | the broker restores the message while the task goes on (Celery does not cancel it by default) |
| `softLimit` | 300 s. In coroutine code the except clause runs (`StepError`); while the event loop waits, the exception leaves `asyncio.run`, and the coroutine only sees a `CancelledError`, which neither except clause catches (`Abandon`) |
| `hardLimit` | 360 s: the process is killed, the message acknowledged (Celery's default for failures and time limits) |

Definitions whose comment begins "Wrong on purpose" are variants of the definition
below them with a plausible mistake. They are used nowhere; substituting one shows
that the property named in `PROJECT.json` notices the mistake.

## Runs

| run | instance | checks |
|---|---|---|
| `AllFaults` | 2 uploads of one content, 2 workers, all eight faults, 1 redelivery; 602 000 states under symmetry | `TypeOK`, `ResultsExactlyOnce`, `CompletedHasResults`, `TaskInOnePlace`, `DuplicateIsPublished`, `UnfinishedJobHasFile`, `VerdictsStand`, `VerdictStaysDue`, `ImplementsLedger`, `ImplementsMessageLife`, `UsesTables` |
| `Crashes` | 2 uploads (one lacks a required column, the other is called X.CSV), 1 worker, faults `apiAbort`, `stepError`, `workerLost`, 1 redelivery, jobs may wait past the retention; fair; 51 000 states | `WorkerNeverAbandons`, `JobGetsVerdict`, `FilesReclaimed` |
| `Answers` | 4 rows, 3 uncategorised in 2 batches, 1 index out of range, 2 words (one invalid), every kind of reply, calls of 0 or 3 s, answers that may leave rows out, a soft limit of 30 s; 254 000 states | `TypeOK`, `EveryRowDecided`, `FlagsTellTheTruth`, `RecordsAreHonest`, `TimeBounded` |
| `Readers` | 3 jobs, pages of one, filters, every change of the tables between two SELECTs or pages; 301 000 states under symmetry | `TypeOK`, `AnswerIsWhole`, `WalkSeesAll` |
| `Rows` | files of up to 4 of 10 rows, 3 headers, 2 words; 349 000 states | `RowsTypeOK`, `CountsAddUp`, `FirstOccurrencesKept`, `OutliersAreAMinority`, `BreakdownsBalance` |

and seven that TLC refutes, each a place where the code and the repository's own
documents disagree:

| run | property | what happens |
|---|---|---|
| `LateStatus` | `TerminalIsFinal` (README.md:195) | no fault needed: the worker completes the job before the handler's write at `jobs.py:133`, which puts it back to `processing` for good |
| `Redelivered` | `ResultsAreNotFailed` (DESIGN_DECISIONS.md:63) | the worker dies after its commit; the second execution marks the finished job failed |
| `SoftLimit` | `WorkerNeverAbandons` (tasks.py:174-178) | the limit strikes in an `await`: acknowledged, still `processing` |
| `SameHash` | `OneLiveJobPerContent` (DESIGN_DECISIONS.md:147) | two requests check before either creates |
| `Outage` | `OutageDoesNotFailJob` (DESIGN_DECISIONS.md:176) | real settings, API down: 18 batches (360 rows) sleep 306 s, the task has 300; with attempts that time out, 2 batches do |
| `WrongReply` | `RepliesNeverCrashJob` (llm.py:10, README.md:268) | JSON of another shape raises a `TypeError`, which nobody catches before the task: the whole job fails |
| `Breaker` | `OpensAfterFailures` (README.md:271) | five failures in a row, none counted (`circuit_breaker.py:47`) |

Two weaknesses of the cleanup are part of a passing run. In `Crashes` the file of a job
that waits for more than two hours is swept (`tasks.py:203` looks at the age only; the job
then fails on the missing file, and has its verdict), and X.CSV, which the pattern of
`tasks.py:200` does not match, may stay for ever when its request or its task did not
remove it: `FilesReclaimed` makes exactly that exception. In `AllFaults`
`UnfinishedJobHasFile` is checked without such a backlog.

In `AllFaults` `VerdictStaysDue` is what is left of "each execution ends in a verdict" when
everything may go wrong: a job that was shown as processing by a worker keeps an execution or a
message on the way to its verdict, unless an execution ends without an except clause
having written (time limits, a failed write, an error before the `try`), or one dies whose
message was taken back. The last of these takes two redeliveries, so the run does not reach
it; the theorem `VerdictsStayDue` does.

**Bounds.** `MaxRedeliveries` bounds worker deaths and lost connections, the only
actions that could repeat for ever; everything else is bounded by the number of
requests. One redelivery gives two executions of one job, overlapping or not, which
is what the unique index, the acknowledgement and the verdict have to survive; the
proofs remove the bound. Two uploads of one content make the duplicate check
matter, and give the sweep a file that vanishes while it runs. In `Crashes` one
worker is enough: without `connectionLost` a job is in one worker's hands at a time
(`TaskInOnePlace`, `Ownership`). Its state space is kept small because liveness
is checked without symmetry, and its redeliveries are bounded because without a bound
a worker could die for ever. Deadlock is not checked: the system stops when every
request is answered and every file is gone.

In `Answers` two batches, the second one short, rows that are not consecutive, a
categorised row between them and an index that is no row give each way an answer can
hit the wrong place. The limit is scaled down to 30 s so that some behaviours reach
it and some do not; `Outage` has the values of `config.py` and
`celery_app.py`. How many rows survive an outage depends on how it shows. If attempts may
take their 30 s, a failing batch costs 107 s (three time-outs, 7 s of delays, the pause of
10 s) and the narrative 97: one batch, 20 rows, leaves 96 s for the rest of the task, two
batches are over the limit. If every attempt is refused at once a batch costs 17 s and the
narrative 7: 17 batches, 340 rows, leave 4 s for the rest; `Outage` has 18 batches.
`OutagesAreSurvived` proves both (`TimeFits`), but only as long as no reply has a wrong
shape: one of them is enough to fail the job (`WrongReply`).

In `Readers` three jobs and pages of one let a job appear in front of, between and
behind the pages already seen, and let a walk end on an empty page; between the
SELECTs of one answer a job can start, complete, fail and start again. In a filtered walk
jobs enter and leave the status in front of and behind the offset; `WalkSeesAll` fails
without its exception for a listed job that leaves. In
`Rows` four rows give medians of odd and even numbers of amounts, a short row
that repeats an earlier one and one that does not, equal rows without an id, one day in
two formats, and an account with an outlier. The rows differ in what the code looks at
and in nothing else.

**Symmetry** (`AllFaults` and `Readers`): uploads of one content and workers are
interchangeable; the properties quantify over both, and the refinements are safety
properties whose mappings are symmetric, like the other action properties of `AllFaults`.
No property of `Readers` is temporal.

**Fairness** (`FairSpec`): weak fairness of each request that has begun, each worker
process, the passing of time and the sweep. Handlers and tasks are straight-line
code with time-outs on their calls, the compose file restarts services, beat fires
hourly. No fault is fair, and no request is obliged to begin. Weak fairness of a
worker is enough for one given message because only finitely many messages exist.

**Time** is not a clock. `Age(u)` lets a file pass the retention only after its
request is over and, unless `BacklogPastRetention`, while neither broker nor worker
has its job: a request and a task (six minutes at most) are short against two hours.
A job that waits in the queue for two hours is part of `Crashes`.

## Proofs

`PipelineProofs` proves, for every value of the constants that meets the named
assumptions (finite `Uploads`, `NoTask` not an upload, the obvious types of the rest):

| theorem | property |
|---|---|
| `TypeCorrect` | `TypeOK` |
| `MessagesInOnePlace` | `TaskInOnePlace` |
| `DuplicatesArePublished` | `DuplicateIsPublished`, under any faults |
| `ResultsOnce`, `CompletedJobsHaveResults` | `ResultsExactlyOnce`, `CompletedHasResults` |
| `UnfinishedJobsHaveFiles` | `UnfinishedJobHasFile`, assuming no backlog past the retention |
| `OnlySupersededAbandon` | `WorkerNeverAbandons` in each behaviour with `SupersededSurvive`, assuming `Faults` within `TaskFaults` (no time limits, the failed status can be written) |
| `WorkersNeverAbandon` | `WorkerNeverAbandons`, assuming `Faults` within `TaskFaults` and: no `connectionLost`, or no `workerLost`, or at most one redelivery |
| `LedgerImplemented` | `ImplementsLedger` |
| `MessageLifeImplemented` | `ImplementsMessageLife` |
| `VerdictsStayDue` | `VerdictStaysDue`, under any faults |
| `TablesUsed` | `UsesTables` |
| `VerdictsStandFirm` | `VerdictsStand` |

The properties are not inductive; the argument goes in layers, each an invariant of
its own that may use those before it:

1. `Ownership`: a worker that holds a message holds its own task's.
2. `TaskInOnePlace`, from `Ownership`.
3. `JobLifecycle`: the row, the request and the tasks of a job agree: no row before
   the commit, no status past `pending` before the message is out, none at
   `pending` once a task has begun. It needs that only published jobs are delivered (2).
4. `OneCommit`: an execution between summary insert and commit is alone there and
   nothing is committed yet. Here the unique index and the wait on it are used.
5. `FileKept`: the file is `fresh` (not merely present) as long as it is needed, so
   no sweep that has it on its list can delete it. Needs 2 to 4: who unlinks a file
   after a commit must know that nobody needs it.
6. `MessageHeld`: without lost connections a worker always holds its task's message.
7. `VerdictIsComing`: a started job without a verdict has an execution on its way to one,
   or its message is queued or just delivered, whatever other executions have ended
   before. A second execution can undo a verdict, even after the acknowledgement, but is
   then itself on its way to another. Every step keeps this but one: the death of an
   execution that holds no message (`SupersededSurvive` excludes it), whose work
   nobody takes up again. Needs 1 and 3.
8. `CreatedAtTaken`: the transaction of a request is open from its duplicate check on.
9. `FirstExecution`: before the first redelivery a worker holds its task's message, so a
   job has one execution (`OneExecution`); queued jobs have no verdict, and a worker
   whose job has one is past its commit, or failing after it.

`OnlySupersededAbandon` follows from 2 and 7 and names the only way a job can be left in
`processing` by deaths, errors and redeliveries: the death of a superseded execution.
`WorkersNeverAbandon` gives three environments in which there is none: by 6, trivially, and
by 9. TLC finds the job that is left with two redeliveries (`connectionLost`, then
`workerLost`).

`VerdictStaysDue` looks at one step of one job, under every fault: if the job had a route to its
verdict (`RouteOpen`: it owes none, or `OnItsWay`) and has none after the step, the step is the
end of one of its executions (`Abandon`) or the death of one that holds no message. A
crash with the message in hand puts it back into the queue, a lost connection does so while
the execution goes on, an error leads to the except clause. It needs 1 and 3.

`MessageLifeImplemented` maps each message to one of five places (`Place`): not sent, queued,
running, ended (its holder's task is over), gone. Each action moves one message by one
step of `MessageLife` or none, by 1 and 2: the execution that ends or acknowledges
moves a message only if it still holds one, and then nobody else holds it.

`VerdictsStand` is an action property: as long as nothing was delivered twice, a verdict
changes in two ways only, the handler's late write (`jobs.py:133`, run `LateStatus`) and
an error between the commit and the end of the task (the unlink is inside the `try`,
`tasks.py:169`), which marks a completed job failed. It follows from 3, 4 and 9; a redelivery is the
third way (run `Redelivered`).

`ClassificationProofs` proves, for any rows, batch size, keys and answers:

| theorem | property |
|---|---|
| `TypeCorrect` | `TypeOK` |
| `FlagsAreTrue` | `FlagsTellTheTruth`, inductive by itself with the types |
| `RecordsHonest` | `RecordsAreHonest`, from the types and `FlagsTellTheTruth` |
| `RowsDecided` | `EveryRowDecided` |
| `TimeIsBounded` | `TimeBounded` |
| `OutagesAreSurvived` | `OutageDoesNotFailJob`, assuming `TimeFits` and no reply of a wrong shape; without the first `Outage` refutes it, without the second `WrongReply` |

`RowsDecided` goes by `SentRowsDecided`: each uncategorised row whose place in the list
is below `batch_start` has a result or was left out by the answer to its batch,
and the records are built only when `batch_start`
has passed the end of the list. That every place lies within the list (`RankInList`) is a fact
about cardinalities; that no result is ever taken back holds because a stray index
can only replace one. `SettingsAssumption` includes that the delays are whole seconds.

The last two go by `ElapsedSoFar`: each batch behind `batch_start` has cost at most
one call with all its time-outs and delays, and one pause; the call under way what its
failed attempts have cost. The limit cannot strike while a reply is awaited either, because
that attempt is one of those counted. That a series of doubling delays adds up to `BaseDelay * (2 ^ RetryMax - 1)` needs
`2 ^ (n + 1) = 2 * 2 ^ n`, which the solvers do not know; it is derived from the
number of subsets of `1 .. n`.

In `PipelineProofs`, the refinement to the ledger maps `state` to `status` and
`recorded` to the jobs with one batch of rows and one summary; each action is a ledger
step by 3 and 4, or a stutter. `TablesUsed` shows each action to be a table step by 3,
4 and 8.

`ReadersProofs` proves, for any number of jobs, any page size and any table steps in
between:

| theorem | property | argument |
|---|---|---|
| `TypeCorrect` | `TypeOK` | |
| `AnswersAreWhole` | `AnswerIsWhole` | `RecordedWhole`: a completed job has its results in the tables. They are never taken back (`TablesGrow`), so who saw `completed` in the first SELECT finds them in the later ones (`ReadSoFar`) |
| `WalksSeeAll` | `WalkSeesAll` | `CreationOrder`: creation times are distinct, so the places of the jobs are 0 .. n-1, each taken once (`PlacesAreDistinct`), and a page that is not full is the last (`ShortPageIsLast`). All this for any filter. Jobs are never deleted and one at a time can leave a status (`OneLeaver`): if one leaves at or behind the offset, what lies behind the offset has at least the jobs in front of the leaver in front of itself, and stays behind it (`PlacesStayBehind`). So a known job is listed or still ahead (`NothingSkipped`) |

`RowsProofs` proves, for any texts, rows, headers and conversions of the right types:

| theorem | property | argument |
|---|---|---|
| `TypeCorrect` | `RowsTypeOK` | each cleaned row has its type (`CleanedRowTyped`) |
| `CountsAlwaysAddUp` | `CountsAddUp` | inductive with the types |
| `FirstOccurrencesAreKept` | `FirstOccurrencesKept` | `seen` is the set of signatures read (`SeenRecorded`), and signatures agree exactly if the rows are one transaction (`SignaturesTell`) |
| `OutliersAreFew` | `OutliersAreAMinority`, assuming `Multiplier >= 2` | the n-th smallest amount exists and has n amounts that do not exceed it (`SmallestExists`, by the least natural number with a property); twice the median is at least the upper of the middle amounts, so only those strictly above the middle can be outliers |
| `BreakdownsAreBalanced` | `BreakdownsBalance` | `SummaryRecorded`: the summary's breakdown is the sum by category of the rows as they were before classification, which changes categories and nothing else |

The sums of the breakdowns are folds over sets. `SumTheorems` reasons about them as
cardinalities: an amount of n is n blocks, the sum over a set of rows is the number of
their blocks (`SumCounts`), and adding up by category and then over the categories
counts the same blocks (`SumByKeys`). The one induction, over subsets of a finite set,
has a set for its predicate (`SubsetsByLoss`) and rests on the well-foundedness of `<`.

`Service` proves of pipeline and read endpoints together, under any faults:

| theorem | what it says |
|---|---|
| `ReadersAreServed` | each behaviour of the composition is one of `Readers`: from `TablesUsed`, and because the table steps of the two are the same (`SameTables`) |
| `ServedAnswersAreWhole` | `AnswerIsWhole` |
| `ServedWalksSeeAll` | `WalkSeesAll` |

The composition is in no run: its parts are, in `AllFaults` and `Readers`, and the
theorems join them. Its specification can be model-checked (one upload, two
workers under all faults and one redelivery have 115 000 states up to symmetry).

Only model-checked: the liveness properties (`JobGetsVerdict`, `FilesReclaimed`), which
rest on fairness, and the seven counterexamples.

## Not modelled

* What Redis and Celery do inside; `apply_async` that publishes twice by its own retry.
* The MIME and extension tests (no state changes), request ids, response shapes, the
  computation of the hash.
* `jobs.error_message`, `row_count_*`, `completed_at`: columns written beside the status. None
  is read by the code but to be shown. `set_completed` does not clear `error_message`, so a job that
  failed in one execution and completed in a later one shows both; nothing in the
  repository says otherwise.
* Prompts, fence stripping, the fields of the narrative, top merchants and totals, the
  wording of anomaly reasons.
* Fractions: amounts are whole numbers, so the rounding of sums is not seen.
* Several sweeps at once, and the death of a sweep: each leaves the state of a sweep
  that aborted.
* Connection pools and their limits; disk full (it is `RejectStream`).
* Health probes (they read only), logging, configuration, schemas, application wiring,
  migrations: no state that a property could be about.

Known, and in no run of its own:

* An accepted answer that leaves a row of its batch out: `classify_uncategorised` never
  compares the items with the rows it sent (`llm.py:188`), so the row is stored as
  `Uncategorised` and not flagged, although README.md:268 has "`llm_failed=true` flag set
  on records if classification fails". `EveryRowDecided` excepts this and nothing else.
* A job that waits in the queue for more than two hours loses its file to the cleanup,
  which is to delete "orphaned upload files" (README.md:453, `tasks.py:195`).
* With two redeliveries, a superseded execution that dies after writing `processing` on
  top of the other one's verdict leaves the job there for good. It is the only way
  (`OnlySupersededAbandon`).
* With a status filter, a listed job that leaves the status moves the later ones forward,
  and the next page skips one of them (`list_jobs`, `repository.py:68`). The code
  promises nothing here; `WalkSeesAll` excepts this case and no other.
* README.md:223 calls the columns case-insensitive; `cleaning.py:102` compares them as
  they are.
* `ANOMALY_MULTIPLIER` (README.md:244, 337) and the merchants of `config.py:59` are read by nothing:
  `tasks.py:88` passes 3.0, `anomaly.py:14` has a list of its own.
* Rows without an id are never duplicates, even if all else agrees; `FirstOccurrencesKept`
  states it so.
* "$-5" and "(5)" are the amount 5 (`cleaning.py:75`): only a sign in front counts.
* The summary's breakdown (`tasks.py:141`) is from before the classification;
  `BreakdownsBalance` bounds the difference.

## Plan

Done: the pipeline with its faults and refinements, classification, the readers, the
rows of a file, the circuit breaker, the composition of pipeline and readers, and a
theorem for each safety property that holds.

Left, in this order:

1. `JobTable` with `error_message` and `celery_task_id`, to tell which execution a
   status is from, should the code come to depend on it.
2. The connection pool of `session.py` as a bound on open transactions.
