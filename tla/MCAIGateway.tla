---------------------------- MODULE MCAIGateway ----------------------------
(***************************************************************************)
(* Instances of AIGateway for TLC.                                         *)
(***************************************************************************)
EXTENDS AIGateway

Swap(a, b) == [orig |-> a, new |-> b]

\* Models are 1 and 2.  One document rewrites, the other refuses and bans.
Rename == [rules |-> <<Swap(1, 2)>>]
Refuse == [block |-> TRUE]
Ban == [block |-> TRUE, banned |-> <<"w">>]
MixedDocs == {Rename, Ban}
TwoDocs == {Rename, Refuse}
TwoChoices == {<<{"w"}, {}>>}

\* Rules that undo each other for model 1, and a banned word that moves.
Undone == [block |-> FALSE, rules |-> <<Swap(1, 2), Swap(2, 1)>>, banned |-> <<"v", "w">>]
Redone == [block |-> TRUE, rules |-> <<Swap(1, 2), Swap(1, 2)>>, banned |-> <<"w", "v">>]
TornDocs == {Undone, Redone}
OneWord == {<<{"w"}>>, <<{}>>}
=============================================================================
