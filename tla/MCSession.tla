------------------------------ MODULE MCSession ------------------------------
(***************************************************************************)
(* An instance of Session for TLC.                                         *)
(***************************************************************************)
EXTENDS Session, TLC

\* Requests are interchangeable.
JobSymmetry == Permutations(Job)
=============================================================================
