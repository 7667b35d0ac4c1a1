------------------------------ MODULE Requests ------------------------------
(***************************************************************************)
(* The upload requests and what they send.  A request draws a uuid for its *)
(* file and creates at most one job, with a uuid of its own: the file, the *)
(* job and the job's message are all named by the request.                 *)
(***************************************************************************)
EXTENDS FiniteSets

CONSTANTS
    Uploads,    \* the upload requests
    Contents,   \* the possible file contents, up to their SHA-256
    Content     \* Content[u]: what upload u sends

ASSUME UploadsAssumption == IsFiniteSet(Uploads)
ASSUME ContentAssumption == Content \in [Uploads -> Contents]
=============================================================================
