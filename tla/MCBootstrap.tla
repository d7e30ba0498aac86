---------------------------- MODULE MCBootstrap ----------------------------
(***************************************************************************)
(* Instances of Bootstrap for TLC.                                         *)
(***************************************************************************)
EXTENDS Bootstrap

CONSTANTS p1, p2, p3, a, b

ThreePods == {p1, p2, p3}
TwoInA == [p \in ThreePods |-> IF p = p3 THEN b ELSE a]
=============================================================================
