----------------------------- MODULE MCReaders -----------------------------
(***************************************************************************)
(* A small instance of the readers for TLC.                                *)
(***************************************************************************)
EXTENDS Readers, TLC

CONSTANT c1
OneContent == [u \in Uploads |-> c1]

Symmetry == Permutations(Uploads)
=============================================================================
