----------------------------- MODULE UploadDir ------------------------------
(***************************************************************************)
(* The upload directory the API, the workers and the cleanup task share    *)
(* (a volume, /tmp/txn_uploads), and the hourly cleanup_old_uploads_task.  *)
(*                                                                         *)
(* Every upload has a file name of its own (a fresh uuid prefix), so files *)
(* are identified with uploads.  Modification times are abstracted to      *)
(* whether the file is past the two hours of retention.                    *)
(***************************************************************************)
EXTENDS Requests

CONSTANT
    UpperCase   \* uploads named "....CSV", which glob("*.csv") skips

ASSUME UpperCaseAssumption == UpperCase \subseteq Uploads

VARIABLES
    file,       \* file[u]: "absent", "fresh" or "old"
    todo        \* files the running sweep has listed and not yet looked at

dirVars == <<file, todo>>

Present(u) == file[u] # "absent"

DirTypeOK ==
    /\ file \in [Uploads -> {"absent", "fresh", "old"}]
    /\ todo \subseteq Uploads

DirInit ==
    /\ file = [u \in Uploads |-> "absent"]
    /\ todo = {}

-----------------------------------------------------------------------------
WriteFile(u) ==
    /\ file' = [file EXCEPT ![u] = "fresh"]
    /\ UNCHANGED todo

(* unlink(missing_ok=True)                                                 *)
Unlink(u) ==
    /\ file' = [file EXCEPT ![u] = "absent"]
    /\ UNCHANGED todo

GrowOld(u) ==
    /\ file[u] = "fresh"
    /\ file' = [file EXCEPT ![u] = "old"]
    /\ UNCHANGED todo

(* upload_dir.glob("*.csv") reads the whole directory before the first     *)
(* file is looked at, and its pattern is case-sensitive.                   *)
StartSweep ==
    /\ todo = {}
    /\ todo' = {u \in Uploads \ UpperCase : Present(u)}
    /\ UNCHANGED file

(* Wrong on purpose: the cleanup ignores the age.                          *)
SweepAnyAge(u) ==
    /\ u \in todo
    /\ Present(u)
    /\ todo' = todo \ {u}
    /\ file' = [file EXCEPT ![u] = "absent"]

(* Wrong on purpose: the comparison with the cutoff is the wrong way       *)
(* round.                                                                  *)
SweepFresh(u) ==
    /\ u \in todo
    /\ Present(u)
    /\ todo' = todo \ {u}
    /\ file' = IF file[u] = "fresh"
               THEN [file EXCEPT ![u] = "absent"]
               ELSE file

(* stat, then unlink if past retention.                                    *)
SweepFile(u) ==
    /\ u \in todo
    /\ Present(u)
    /\ todo' = todo \ {u}
    /\ file' = IF file[u] = "old"
               THEN [file EXCEPT ![u] = "absent"]
               ELSE file

(* stat raises FileNotFoundError for a file that vanished since the        *)
(* listing, and the exception ends the task: the rest of the list waits    *)
(* for the next hour.                                                      *)
AbortSweep(u) ==
    /\ u \in todo
    /\ ~Present(u)
    /\ todo' = {}
    /\ UNCHANGED file
=============================================================================
