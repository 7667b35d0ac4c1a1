-------------------------- MODULE MCClassification --------------------------
(***************************************************************************)
(* Instances of Classification for TLC.                                    *)
(***************************************************************************)
EXTENDS Classification

(* An outage at the settings of app/core/config.py and a file of 360 rows. *)
OutageRows == 0 .. 359
=============================================================================
