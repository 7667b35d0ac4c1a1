------------------------------ MODULE Readers ------------------------------
(***************************************************************************)
(* The read endpoints of app/api/routers/jobs.py and the queries they make *)
(* (app/db/repository.py), while handlers and workers change the tables.   *)
(*                                                                         *)
(* Each SELECT sees what is committed at that moment (READ COMMITTED), and *)
(* one answer takes up to three of them: the job, its transactions, its    *)
(* summary (selectinload).  A listing is one SELECT per page, and a client *)
(* that wants all jobs walks through the pages by offset.                  *)
(*                                                                         *)
(* One client, one request at a time: requests only read, so they cannot   *)
(* disturb one another.                                                    *)
(***************************************************************************)
EXTENDS JobTable

CONSTANT PageSize    \* the limit the client asks for

ASSUME PageSizeAssumption == PageSize \in Nat \ {0}

VARIABLES
    client,   \* what the client is doing
    read,     \* what the request for one job has seen so far
    walk      \* where the walk through the pages is; known and shifted are
              \* history (Watch)

vars == <<tableVars, client, read, walk>>

ClientPC == {"idle", "selectRows", "selectSummary", "answered",
             "walking", "walked"}

AnyStatus == "any"

NoRead == [endpoint |-> "none", job |-> "none", status |-> "none",
           rows |-> 0, summaries |-> 0]

NoWalk == [filter |-> AnyStatus, offset |-> 0, listed |-> {}, known |-> {},
           shifted |-> FALSE]

TypeOK ==
    /\ TableTypeOK
    /\ client \in ClientPC
    /\ IF client \in {"selectRows", "selectSummary", "answered"}
       THEN read \in [endpoint : {"status", "results"}, job : Uploads,
                      status : JobStatus \cup {"none"},
                      rows : Nat, summaries : Nat]
       ELSE read = NoRead
    /\ client = "selectRows" => read.endpoint = "results"
    /\ walk \in [filter : JobStatus \cup {AnyStatus}, offset : Nat,
                 listed : SUBSET Uploads, known : SUBSET Uploads, shifted : BOOLEAN]
    /\ client \notin {"walking", "walked"} => walk = NoWalk

Init ==
    /\ TableInit
    /\ client = "idle"
    /\ read = NoRead
    /\ walk = NoWalk

-----------------------------------------------------------------------------
(* GET /jobs/{id}/status and GET /jobs/{id}/results.                       *)

(* Wrong on purpose: a poll calls get_with_transactions as well.           *)
PollLoadsRows(e, j) ==
    /\ client = "idle"
    /\ read' = [endpoint |-> e, job |-> j, status |-> status[j],
                rows |-> 0, summaries |-> 0]
    /\ client' = IF status[j] = "none" THEN "answered" ELSE "selectRows"
    /\ UNCHANGED <<tableVars, walk>>

(* The job row.  Without one nothing else is loaded; the transactions are  *)
(* loaded for /results only, and before anyone looks at the status.        *)
SelectJob(e, j) ==
    /\ client = "idle"
    /\ read' = [endpoint |-> e, job |-> j, status |-> status[j],
                rows |-> 0, summaries |-> 0]
    /\ client' = IF status[j] = "none" THEN "answered"
                 ELSE IF e = "results" THEN "selectRows"
                 ELSE "selectSummary"
    /\ UNCHANGED <<tableVars, walk>>

SelectRows ==
    /\ client = "selectRows"
    /\ read' = [read EXCEPT !.rows = rows[read.job]]
    /\ client' = "selectSummary"
    /\ UNCHANGED <<tableVars, walk>>

SelectSummary ==
    /\ client = "selectSummary"
    /\ read' = [read EXCEPT !.summaries = summaries[read.job]]
    /\ client' = "answered"
    /\ UNCHANGED <<tableVars, walk>>

(* Wrong on purpose: /results refuses only what has not begun.             *)
CodeUnlessPending ==
    IF read.status = "none" THEN 404
    ELSE IF read.endpoint = "results" /\ read.status = "pending" THEN 409
         ELSE 200

(* The code of the answer.                                                 *)
Code ==
    IF read.status = "none" THEN 404
    ELSE IF read.endpoint = "results" /\ read.status # "completed" THEN 409
         ELSE 200

(* The client has the answer and may ask again.                            *)
TakeAnswer ==
    /\ client = "answered"
    /\ client' = "idle"
    /\ read' = NoRead
    /\ UNCHANGED <<tableVars, walk>>

-----------------------------------------------------------------------------
(* GET /jobs.                                                              *)

Matching(f) == {j \in Jobs : f \in {AnyStatus, status[j]}}

(* How many matching jobs ORDER BY created_at DESC puts before j.          *)
Place(f, j) == Cardinality({k \in Matching(f) : createdAt[k] > createdAt[j]})

(* Wrong on purpose: OFFSET counts from one.                               *)
PageFromOne(f, offset) ==
    {j \in Matching(f) : /\ offset < Place(f, j)
                         /\ Place(f, j) <= offset + PageSize}

Page(f, offset) ==
    {j \in Matching(f) : /\ offset <= Place(f, j)
                         /\ Place(f, j) < offset + PageSize}

(* A client sets out to list every job there is now with that status.      *)
BeginWalk(f) ==
    /\ client = "idle"
    /\ client' = "walking"
    /\ walk' = [NoWalk EXCEPT !.filter = f, !.known = Matching(f)]
    /\ UNCHANGED <<tableVars, read>>

(* One page.  "total" is the number of items on the page, so a page that   *)
(* is not full is the only sign of the end.                                *)
ListPage ==
    LET page == Page(walk.filter, walk.offset)
    IN  /\ client = "walking"
        /\ walk' = [walk EXCEPT !.offset = @ + PageSize,
                                !.listed = @ \cup page]
        /\ client' = IF Cardinality(page) < PageSize THEN "walked" ELSE "walking"
        /\ UNCHANGED <<tableVars, read>>

EndWalk ==
    /\ client = "walked"
    /\ client' = "idle"
    /\ walk' = NoWalk
    /\ UNCHANGED <<tableVars, read>>

-----------------------------------------------------------------------------
(* History: the walk is to find the jobs that keep its status from its     *)
(* beginning to its end, and is disturbed by a job that loses it and that  *)
(* lies in the pages already fetched.                                      *)
Leavers(f) == {j \in Matching(f) : f \notin {AnyStatus, status'[j]}}

Watch ==
    LET gone == Leavers(walk.filter)
    IN  walk' = IF client = "walking" /\ gone # {}
                THEN [walk EXCEPT
                        !.known = @ \ gone,
                        !.shifted = @ \/ \E j \in gone :
                                            Place(walk.filter, j) < walk.offset]
                ELSE walk

WriteTables ==
    /\ TableNext
    /\ Watch
    /\ UNCHANGED <<client, read>>

(* What the client's requests do.                                          *)
Request ==
    \/ \E e \in {"status", "results"}, j \in Uploads : SelectJob(e, j)
    \/ SelectRows
    \/ SelectSummary
    \/ TakeAnswer
    \/ \E f \in JobStatus \cup {AnyStatus} : BeginWalk(f)
    \/ ListPage
    \/ EndWalk

Next == WriteTables \/ Request

Spec == Init /\ [][Next]_vars

-----------------------------------------------------------------------------
(* Properties.                                                             *)

(* Although its three SELECTs may see three different commits, an answer   *)
(* of /results with code 200 has the job's transactions, once, and its     *)
(* summary, and an answer of /status that says "completed" has the summary *)
(* (jobs.py:177 and 244 would leave it out without a word).                *)
AnswerIsWhole ==
    client = "answered" /\ Code = 200 =>
        /\ read.endpoint = "results" => read.rows = 1 /\ read.summaries = 1
        /\ read.status = "completed" => read.summaries = 1

(* A client that walks through the pages until one is not full has seen    *)
(* every job that was there when it began, however many jobs were inserted *)
(* meanwhile and wherever the order by created_at put them.  If it asked   *)
(* for one status, that goes for the jobs that kept it, unless a job of    *)
(* the pages it had already fetched lost it and moved the rest forward.    *)
WalkSeesAll ==
    client = "walked" /\ (walk.filter = AnyStatus \/ ~walk.shifted) =>
        walk.known \subseteq walk.listed

-----------------------------------------------------------------------------
(* Strengthenings, for the proofs.                                         *)

(* A committed job's created_at is taken, in the past, and its own.        *)
CreationOrder ==
    /\ clock \in Nat \ {0}
    /\ \A j \in Uploads :
          /\ createdAt[j] < clock
          /\ status[j] # "none" => createdAt[j] # 0
    /\ \A j, k \in Uploads : createdAt[j] # 0 /\ createdAt[j] = createdAt[k] => j = k

(* Results are recorded once, whole, and by the time a job is completed.   *)
RecordedWhole ==
    \A j \in Uploads :
        /\ rows[j] = summaries[j]
        /\ rows[j] <= 1
        /\ status[j] = "completed" => rows[j] = 1

(* Whoever has seen "completed" will find the results, or has found them.  *)
ReadSoFar ==
    LET found == client \in {"selectRows", "selectSummary", "answered"}
                 /\ read.status = "completed"
    IN  /\ found => rows[read.job] = 1 /\ summaries[read.job] = 1
        /\ found /\ read.endpoint = "results" /\ client # "selectRows"
              => read.rows = 1
        /\ found /\ client = "answered" => read.summaries = 1

(* A job not yet listed is still to come, or there is a page that is full. *)
NothingSkipped ==
    client \in {"walking", "walked"} =>
        /\ walk.filter = AnyStatus => ~walk.shifted
        /\ client = "walking" => walk.known \subseteq Matching(walk.filter)
        /\ ~walk.shifted =>
              \A j \in walk.known \ walk.listed :
                  /\ client = "walking"
                  /\ walk.offset <= Place(walk.filter, j)
=============================================================================
