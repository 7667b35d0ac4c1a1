----------------------------- MODULE JobLedger ------------------------------
(***************************************************************************)
(* What the tables promise a client about a job, whatever happens to       *)
(* requests, messages and workers: the results of a job are recorded at    *)
(* most once, all of them together with the status "completed", and only   *)
(* for a job that some worker has started.                                 *)
(*                                                                         *)
(* The code makes no promise about leaving a terminal status: Start and    *)
(* Fail are allowed to any registered job (see the findings of README.md). *)
(***************************************************************************)
CONSTANT Uploads

VARIABLES
    state,      \* the status a client reads
    recorded    \* the jobs that have their transactions and their summary

ledgerVars == <<state, recorded>>

LedgerInit ==
    /\ state = [j \in Uploads |-> "none"]
    /\ recorded = {}

Register(j) ==
    /\ state[j] = "none"
    /\ state' = [state EXCEPT ![j] = "pending"]
    /\ UNCHANGED recorded

Start(j) ==
    /\ state[j] # "none"
    /\ state' = [state EXCEPT ![j] = "processing"]
    /\ UNCHANGED recorded

Record(j) ==
    /\ state[j] \in {"processing", "failed"}
    /\ j \notin recorded
    /\ state' = [state EXCEPT ![j] = "completed"]
    /\ recorded' = recorded \cup {j}

Fail(j) ==
    /\ state[j] # "none"
    /\ state' = [state EXCEPT ![j] = "failed"]
    /\ UNCHANGED recorded

LedgerNext ==
    \E j \in Uploads : Register(j) \/ Start(j) \/ Record(j) \/ Fail(j)

LedgerSpec == LedgerInit /\ [][LedgerNext]_ledgerVars
=============================================================================
