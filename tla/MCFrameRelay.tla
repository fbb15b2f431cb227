---------------------------- MODULE MCFrameRelay ----------------------------
(***************************************************************************)
(* FrameRelay for TLC: with two captures for the safety properties, with   *)
(* one for the liveness properties.  The order of the captures is fixed,   *)
(* so that they are not symmetric.                                         *)
(***************************************************************************)
EXTENDS FrameRelay

CONSTANTS c1, c2

OneCapture  == << c1 >>
TwoCaptures == << c1, c2 >>

=============================================================================
