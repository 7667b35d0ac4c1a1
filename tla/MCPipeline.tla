----------------------------- MODULE MCPipeline -----------------------------
(***************************************************************************)
(* Small instances of the pipeline for TLC.                                *)
(***************************************************************************)
EXTENDS PipelineProperties, TLC

(* Every upload sends the same, valid content: the duplicate check is      *)
(* always at stake.                                                        *)
CONSTANTS valid, invalid
SameContent == [u \in Uploads |-> valid]

(* One upload lacks a required column.                                     *)
OneInvalid ==
    LET bad == CHOOSE u \in Uploads : TRUE
    IN  [u \in Uploads |-> IF u = bad THEN invalid ELSE valid]

(* The file of the other upload is called X.CSV.                           *)
OneUpperCase == {CHOOSE u \in Uploads : Content[u] = valid}

(* Requests that send the same content, and worker processes, are          *)
(* interchangeable.  The runs that use it check safety properties only,    *)
(* and every one of these treats all uploads, and all workers, alike.      *)
Symmetry == Permutations(Uploads) \cup Permutations(Workers)
=============================================================================
