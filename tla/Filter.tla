------------------------------- MODULE Filter -------------------------------
(***************************************************************************)
(* What the AI gateway promises of a request, whatever its policy: it      *)
(* comes to one end.  It goes to the model's server, or is refused by the  *)
(* gateway, or is lost - never two of these, and never one of them twice.  *)
(***************************************************************************)
CONSTANTS Conns, Ids

VARIABLE outcome   \* per connection, what has become of each request

Init == outcome = [k \in Conns |-> [i \in Ids |-> "unsent"]]

Settle(k, i, from, to) ==
    /\ outcome[k][i] = from
    /\ outcome' = [outcome EXCEPT ![k][i] = to]

\* Requests may get lost together.
Lose(k) ==
    \E L \in SUBSET {i \in Ids : outcome[k][i] = "pending"} :
        outcome' = [outcome EXCEPT ![k] = [i \in Ids |-> IF i \in L THEN "lost" ELSE @[i]]]

Next ==
    \E k \in Conns :
        \/ \E i \in Ids : \/ Settle(k, i, "unsent", "pending")
                          \/ Settle(k, i, "pending", "asked")
                          \/ Settle(k, i, "pending", "refused")
        \/ Lose(k)

Spec == Init /\ [][Next]_outcome
=============================================================================
