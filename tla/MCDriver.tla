------------------------------ MODULE MCDriver ------------------------------
(***************************************************************************)
(* Driver for TLC: an output and two captures, the least that lets two     *)
(* captures compete for an output and an output serve two of them.         *)
(***************************************************************************)
EXTENDS Driver

CONSTANTS f1, f2

TwoFormats == {f1, f2}

(* A request for a number, and none.  -1 cannot be written in a cfg.       *)
SomeRequests == {-1, 1}

=============================================================================
