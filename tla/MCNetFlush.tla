----------------------------- MODULE MCNetFlush -----------------------------
(***************************************************************************)
(* Instances of NetFlush for TLC.                                          *)
(***************************************************************************)
EXTENDS NetFlush, TLC

CONSTANTS o1, m1, l1, n1

\* n1 has the addresses and ports of o1.
Tuples == (o1 :> "o") @@ (n1 :> "o") @@ (m1 :> "m") @@ (l1 :> "l")
=============================================================================
