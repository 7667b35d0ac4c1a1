---------------------------- MODULE MessageLife -----------------------------
(***************************************************************************)
(* What task_acks_late and task_reject_on_worker_lost of                   *)
(* app/workers/celery_app.py promise about a message, whatever happens to  *)
(* workers and connections: one delivery at a time, settled only by an     *)
(* execution that has ended, and otherwise back to the queue.              *)
(***************************************************************************)
CONSTANT Messages

VARIABLE place      \* place[m]: where m is, and how far its task is there

LifeInit == place = [m \in Messages |-> "unsent"]

Move(m, from, to) ==
    /\ place[m] \in from
    /\ place' = [place EXCEPT ![m] = to]

Send(m) == Move(m, {"unsent"}, "queued")

Hand(m) == Move(m, {"queued"}, "running")

Finish(m) == Move(m, {"running"}, "ended")

Settle(m) == Move(m, {"ended"}, "gone")

Return(m) == Move(m, {"running", "ended"}, "queued")

LifeNext ==
    \E m \in Messages :
        Send(m) \/ Hand(m) \/ Finish(m) \/ Settle(m) \/ Return(m)

LifeSpec == LifeInit /\ [][LifeNext]_place
=============================================================================
