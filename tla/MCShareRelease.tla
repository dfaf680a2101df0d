---------------------------- MODULE MCShareRelease ----------------------------
(***************************************************************************)
(* Instances of ShareRelease for TLC.                                      *)
(***************************************************************************)
EXTENDS ShareRelease

CONSTANTS c1, c2

\* A part of a batch, the batch, and the batch in another order.
SomeLists == {<<c1>>, <<c1, c2>>, <<c2, c1>>}
=============================================================================
