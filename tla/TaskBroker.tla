----------------------------- MODULE TaskBroker -----------------------------
(***************************************************************************)
(* The Redis broker as Celery uses it under the settings of                *)
(* app/workers/celery_app.py: late acknowledgement, requeue when a worker  *)
(* is lost, no prefetching.  Celery and Redis are not part of the          *)
(* repository; what is modelled is what those settings ask of them.        *)
(*                                                                         *)
(* A message names its job, and apply_async is called once per job, so a   *)
(* message is identified with the job.  The queue is a set: several worker *)
(* processes and redeliveries leave no order a job could rely on.          *)
(***************************************************************************)
EXTENDS Requests

CONSTANTS
    Workers,    \* the worker processes (--concurrency)
    NoTask

ASSUME NoTaskAssumption == NoTask \notin Uploads

VARIABLES
    queue,      \* messages waiting in the "llm" queue
    unacked,    \* unacked[w]: the message w was given and has not settled
    settled     \* messages acknowledged, and so gone for good

brokerVars == <<queue, unacked, settled>>

BrokerTypeOK ==
    /\ queue \subseteq Uploads
    /\ unacked \in [Workers -> Uploads \cup {NoTask}]
    /\ settled \subseteq Uploads

BrokerInit ==
    /\ queue = {}
    /\ unacked = [w \in Workers |-> NoTask]
    /\ settled = {}

(* The broker still holds a message of j.                                  *)
Outstanding(j) == j \in queue \/ \E w \in Workers : unacked[w] = j

-----------------------------------------------------------------------------
Publish(j) ==
    /\ queue' = queue \cup {j}
    /\ UNCHANGED <<unacked, settled>>

(* Wrong on purpose: task_acks_late unset, the message is settled on       *)
(* delivery.                                                               *)
DeliverAcksEarly(w, j) ==
    /\ j \in queue
    /\ queue' = queue \ {j}
    /\ settled' = settled \cup {j}
    /\ UNCHANGED unacked

Deliver(w, j) ==
    /\ j \in queue
    /\ queue' = queue \ {j}
    /\ unacked' = [unacked EXCEPT ![w] = j]
    /\ UNCHANGED settled

(* A worker whose message went back to the queue acknowledges nothing.     *)
Acknowledge(w) ==
    /\ settled' = settled \cup ({unacked[w]} \ {NoTask})
    /\ unacked' = [unacked EXCEPT ![w] = NoTask]
    /\ UNCHANGED queue

(* Wrong on purpose: the message is requeued and held at the same time.    *)
RequeueKeepsHold(w) ==
    /\ queue' = queue \cup ({unacked[w]} \ {NoTask})
    /\ UNCHANGED <<unacked, settled>>

(* Wrong on purpose: task_reject_on_worker_lost unset, a lost worker       *)
(* settles its message.                                                    *)
RequeueSettles(w) ==
    /\ settled' = settled \cup ({unacked[w]} \ {NoTask})
    /\ unacked' = [unacked EXCEPT ![w] = NoTask]
    /\ UNCHANGED queue

(* task_reject_on_worker_lost, or the restore of unacknowledged messages   *)
(* after a lost connection.                                                *)
Requeue(w) ==
    /\ queue' = queue \cup ({unacked[w]} \ {NoTask})
    /\ unacked' = [unacked EXCEPT ![w] = NoTask]
    /\ UNCHANGED settled
=============================================================================
