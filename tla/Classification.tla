--------------------------- MODULE Classification ---------------------------
(***************************************************************************)
(* What one task asks of the language model: classify_uncategorised and    *)
(* generate_narrative_summary of app/services/llm.py with the retry loop   *)
(* they share, and the records app/workers/tasks.py builds from them.      *)
(*                                                                         *)
(* In Pipeline.tla this is the stretch from "loaded" to "inserted" and the *)
(* call before the summary insert: "raised" is StepError there, and        *)
(* "interrupted" is its softLimit.                                         *)
(*                                                                         *)
(* Time is counted in seconds: those the code sleeps, and those its calls  *)
(* of the API take, from a refusal at once to the time-out.  What the rest *)
(* of the task takes (the file, the database) is counted in advance.       *)
(***************************************************************************)
EXTENDS Integers, FiniteSets

CONSTANTS
    RowCount,         \* rows are numbered from 0, as enumerate does
    Uncategorised,    \* the rows without a category of their own
    Keys,             \* the indices an answer may hold, right or wrong
    ValidCategories,  \* VALID_CATEGORIES
    Words,            \* what the model may answer as a category
    Replies,          \* what the API may do: see ReplyKinds
    BatchSize,        \* llm_batch_size
    RetryMax,         \* llm_retry_max
    BaseDelay,        \* llm_retry_base_delay
    BatchPause,       \* the sleep between batches
    CallTimes,        \* how long an attempt may take
    CallTimeout,      \* ... at the longest
    WorkTime,         \* what the task does besides asking the model
    SoftLimit         \* task_soft_time_limit

Positions == 0 .. RowCount - 1

ReplyKinds ==
    {"error",       \* an HTTPError, or JSON without candidates
     "unparsable",  \* a body, or a text in it, that is not the expected JSON
     "wrongShape",  \* JSON that cannot be indexed, or holds no text at all
     "answer"}

(* base_delay * 2 ** attempt                                               *)
Delay(a) == BaseDelay * 2 ^ a

ASSUME RowsAssumption ==
    /\ RowCount \in Nat
    /\ Uncategorised \subseteq Positions
    /\ Keys \subseteq Int
    /\ Positions \subseteq Keys

ASSUME ModelAssumption ==
    /\ "Other" \in ValidCategories
    /\ ValidCategories \cap {"none", "failed", "own", "Uncategorised"} = {}
    /\ "none" \notin Words
    /\ Replies \subseteq ReplyKinds

ASSUME SettingsAssumption ==
    /\ BatchSize \in Nat \ {0}
    /\ RetryMax \in Nat
    /\ BatchPause \in Nat
    /\ SoftLimit \in Nat
    /\ BaseDelay \in Nat
    /\ CallTimeout \in Nat
    /\ CallTimes \subseteq 0 .. CallTimeout
    /\ WorkTime \in Nat

VARIABLES
    phase,    \* how far the task is
    start,    \* batch_start
    attempt,  \* failed attempts of the call under way
    results,  \* results[k], or "none" where the dictionary has no k
    elapsed,  \* seconds the task has taken so far
    lost,     \* history variable: the rows of the batches that failed
    omitted   \* history variable: the rows an accepted answer to their own
              \* batch did not name

vars == <<phase, start, attempt, results, elapsed, lost, omitted>>

Over == {"narrated", "unnarrated", "raised", "interrupted"}

TypeOK ==
    /\ phase \in {"classifying", "narrating"} \cup Over
    /\ start \in Nat
    /\ attempt \in 0 .. RetryMax
    /\ results \in [Keys -> ValidCategories \cup {"none", "failed"}]
    /\ elapsed \in Nat
    /\ lost \subseteq Uncategorised
    /\ omitted \subseteq Uncategorised

Init ==
    /\ phase = "classifying"
    /\ start = 0
    /\ attempt = 0
    /\ results = [k \in Keys |-> "none"]
    /\ elapsed = WorkTime
    /\ lost = {}
    /\ omitted = {}

-----------------------------------------------------------------------------
(* The place of row i in the list of the uncategorised.                    *)
Rank(i) == Cardinality({k \in Uncategorised : k < i})

(* Wrong on purpose: the last row of each batch is left out.               *)
ShortBatch ==
    {i \in Uncategorised : start <= Rank(i) /\ Rank(i) < start + BatchSize - 1}

(* uncategorised[batch_start : batch_start + batch_size]                   *)
Batch == {i \in Uncategorised : start <= Rank(i) /\ Rank(i) < start + BatchSize}

BatchesLeft == start < Cardinality(Uncategorised)

(* The timer of the task has not struck yet.                               *)
InTime == elapsed <= SoftLimit

(* A call of _call_gemini is under way.                                    *)
Calling ==
    /\ InTime
    /\ phase = "classifying" => BatchesLeft
    /\ phase \in {"classifying", "narrating"}

(* The API is asked once more, and its reply is there after s seconds: in  *)
(* time, for otherwise the timer strikes while the task waits for it.      *)
Attempt(s) ==
    /\ Calling
    /\ attempt < RetryMax
    /\ s \in CallTimes
    /\ elapsed + s <= SoftLimit

-----------------------------------------------------------------------------
(* _call_gemini.                                                           *)

(* Wrong on purpose: the first retry waits twice the base delay already.   *)
LateBackoff ==
    /\ "error" \in Replies
    /\ \E s \in CallTimes :
          /\ Attempt(s)
          /\ elapsed' = elapsed + s + 2 * Delay(attempt)
    /\ attempt' = attempt + 1
    /\ UNCHANGED <<phase, start, results, lost, omitted>>

(* An attempt fails and the next one is prepared; the sleep also follows   *)
(* the last attempt.                                                       *)
AttemptFails ==
    /\ "error" \in Replies
    /\ \E s \in CallTimes :
          /\ Attempt(s)
          /\ elapsed' = elapsed + s + Delay(attempt)
    /\ attempt' = attempt + 1
    /\ UNCHANGED <<phase, start, results, lost, omitted>>

(* The call ends after s more seconds in an exception its callers handle:  *)
(* a RuntimeError after the last attempt, or at once where the loop does   *)
(* not catch what an unparsable reply raises.                              *)
CallFails(s) ==
    \/ Calling /\ attempt = RetryMax /\ s = 0
    \/ Attempt(s) /\ "unparsable" \in Replies

(* A TypeError or AttributeError, which nobody catches before the task.    *)
WrongShape ==
    /\ "wrongShape" \in Replies
    /\ \E s \in CallTimes : Attempt(s) /\ elapsed' = elapsed + s
    /\ phase' = "raised"
    /\ UNCHANGED <<start, attempt, results, lost, omitted>>

-----------------------------------------------------------------------------
(* classify_uncategorised.                                                 *)

(* On to the next batch, s seconds and a pause later.                      *)
NextBatch(s) ==
    /\ start' = start + BatchSize
    /\ attempt' = 0
    /\ elapsed' = elapsed + s + BatchPause
    /\ UNCHANGED phase

(* results[i] = ... failed=True for the rows of a batch.                   *)
Flag(batch) ==
    \E sent \in {batch} :
        results' = [k \in Keys |-> IF k \in sent THEN "failed" ELSE results[k]]

(* Wrong on purpose: a failed batch takes the earlier ones with it.        *)
FailAllSoFar ==
    /\ phase = "classifying"
    /\ \E s \in CallTimes \cup {0} : CallFails(s) /\ NextBatch(s)
    /\ Flag({i \in Uncategorised : Rank(i) < start + BatchSize})
    /\ lost' = lost \cup Batch
    /\ UNCHANGED omitted

FailBatch ==
    /\ phase = "classifying"
    /\ \E s \in CallTimes \cup {0} : CallFails(s) /\ NextBatch(s)
    /\ Flag(Batch)
    /\ lost' = lost \cup Batch
    /\ UNCHANGED omitted

(* Wrong on purpose: the model's word is taken as it is.                   *)
AnyWord(c) == c

(* validate_category                                                       *)
Validated(c) == IF c \in ValidCategories THEN c ELSE "Other"

(* An answer gives some keys a word; of several items with one index the   *)
(* last counts.  Nothing compares the indices with the batch.              *)
Answers == [Keys -> Words \cup {"none"}]

AnswerBatch ==
    /\ phase = "classifying"
    /\ "answer" \in Replies
    /\ \E s \in CallTimes : Attempt(s) /\ NextBatch(s)
    /\ \E a \in Answers :
          /\ results' = [k \in Keys |->
                IF a[k] = "none" THEN results[k] ELSE Validated(a[k])]
          /\ omitted' = omitted \cup {i \in Batch : a[i] = "none"}
    /\ UNCHANGED lost

-----------------------------------------------------------------------------
(* process_csv_task: the records, and the narrative.                       *)

(* Wrong on purpose: a result counts whatever category the row came with.  *)
OverridingRecord(i) ==
    LET source == IF i \in Uncategorised THEN "Uncategorised" ELSE "own"
    IN  IF results[i] \in {"none", "failed"}
        THEN [category |-> source, llm |-> "none", failed |-> results[i] = "failed"]
        ELSE [category |-> results[i], llm |-> results[i], failed |-> FALSE]

(* The transaction built for row i: its category, what llm_category says,  *)
(* and llm_failed.                                                         *)
Record(i) ==
    IF i \notin Uncategorised
    THEN [category |-> "own", llm |-> "none", failed |-> FALSE]
    ELSE IF results[i] \in {"none", "failed"}
    THEN [category |-> "Uncategorised", llm |-> "none",
          failed |-> results[i] = "failed"]
    ELSE [category |-> results[i], llm |-> results[i], failed |-> FALSE]

(* The records are built and flushed.                                      *)
StoreRecords ==
    /\ InTime /\ phase = "classifying" /\ ~BatchesLeft
    /\ phase' = "narrating"
    /\ UNCHANGED <<start, attempt, results, elapsed, lost, omitted>>

Narrate ==
    /\ phase = "narrating"
    /\ \E s \in CallTimes \cup {0} :
          /\ elapsed' = elapsed + s
          /\ \/ Attempt(s) /\ "answer" \in Replies /\ phase' = "narrated"
             \/ CallFails(s) /\ phase' = "unnarrated"
    /\ UNCHANGED <<start, attempt, results, lost, omitted>>

(* The limit strikes: in a sleep, or while the task waits for a reply.     *)
TimeUp ==
    /\ phase \notin Over
    /\ \/ ~InTime
       \/ /\ Calling /\ attempt < RetryMax
          /\ \E s \in CallTimes : elapsed + s > SoftLimit
    /\ phase' = "interrupted"
    /\ UNCHANGED <<start, attempt, results, elapsed, lost, omitted>>

-----------------------------------------------------------------------------
Next ==
    \/ AttemptFails
    \/ WrongShape
    \/ FailBatch
    \/ AnswerBatch
    \/ StoreRecords
    \/ Narrate
    \/ TimeUp

Spec == Init /\ [][Next]_vars

-----------------------------------------------------------------------------
(* Guarantees.                                                             *)

Stored == phase \in {"narrating", "narrated", "unnarrated"}

(* When the records are stored, each row that came without a category has  *)
(* one, or says that the model failed (README.md:268), or was left out by  *)
(* an accepted answer to its own batch, which nothing notices (llm.py:188) *)
(* - whatever else answers hold, and however batches fail.                 *)
EveryRowDecided ==
    Stored => \A i \in Uncategorised \ omitted :
                  Record(i).llm # "none" \/ Record(i).failed

(* A row is flagged only if the batch that sent it failed, whatever became *)
(* of the other batches (test_llm_extra.py:129), and a row of a failed     *)
(* batch is flagged unless another batch's answer named it.                *)
FlagsTellTheTruth ==
    /\ \A k \in Keys : results[k] = "failed" => k \in lost
    /\ \A i \in lost : results[i] # "none"

(* The record of a row says where its category is from and what became of  *)
(* its batch: a row that came with a category keeps it, though the model   *)
(* may answer its index (README.md:296, test_llm_extra.py:120); a flagged  *)
(* one is of a failed batch and has no category; one of a failed batch is  *)
(* flagged or was named by another answer; and llm_category is the final   *)
(* category, a valid one whatever word the model used (llm.py:42).         *)
RecordsAreHonest ==
    \A i \in Positions :
        LET r == Record(i)
        IN  /\ i \notin Uncategorised =>
                  r.category = "own" /\ r.llm = "none" /\ ~r.failed
            /\ r.failed => i \in lost /\ r.category = "Uncategorised"
            /\ i \in lost => r.failed \/ r.llm # "none"
            /\ r.llm # "none" => r.category = r.llm /\ r.llm \in ValidCategories

(* A call takes at most its time-outs and base * (2^n - 1) seconds of      *)
(* retries (docs/DESIGN_DECISIONS.md:180), and nothing but the pauses adds *)
(* to the calls: each batch that is done has cost one call and one pause,  *)
(* the batch or the narrative under way at most one call.                  *)
MaxBackoff == BaseDelay * (2 ^ RetryMax - 1)

CallCost == RetryMax * CallTimeout + MaxBackoff

TimeBounded ==
    elapsed <= WorkTime + (start \div BatchSize) * (CallCost + BatchPause) + CallCost

(* Strengthening for the proof of EveryRowDecided: the rows of the batches *)
(* behind batch_start are decided, and records are built after all of them.*)
SentRowsDecided ==
    /\ \A i \in Uncategorised \ omitted : Rank(i) < start => results[i] # "none"
    /\ Stored => ~BatchesLeft

(* Strengthening for the proof of TimeBounded: each batch behind           *)
(* batch_start has cost at most one call and its pause, and the call under *)
(* way what its failed attempts have cost.                                 *)
CostSoFar ==
    IF phase \in Over
    THEN CallCost
    ELSE attempt * CallTimeout + BaseDelay * (2 ^ attempt - 1)

ElapsedSoFar ==
    \E n \in Nat :
        /\ start = n * BatchSize
        /\ start < Cardinality(Uncategorised) + BatchSize
        /\ elapsed <= WorkTime + n * (CallCost + BatchPause) + CostSoFar

-----------------------------------------------------------------------------
(* docs/DESIGN_DECISIONS.md:176: the job does not fail because of an       *)
(* outage of the API, neither by an exception nor by its time limit.       *)
OutageDoesNotFailJob == phase \notin {"raised", "interrupted"}

(* app/services/llm.py:10, "never crashes the job": whatever the API       *)
(* replies, no exception of a call reaches the task.                       *)
RepliesNeverCrashJob == phase # "raised"

(* What it takes for the first to be true, if no reply has a wrong shape:  *)
(* the calls of all batches and of the narrative, and the pauses, fit the  *)
(* limit at their longest.                                                 *)
BatchCount == (Cardinality(Uncategorised) + BatchSize - 1) \div BatchSize

TimeFits ==
    WorkTime + BatchCount * (CallCost + BatchPause) + CallCost <= SoftLimit
=============================================================================
