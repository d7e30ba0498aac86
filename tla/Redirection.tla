----------------------------- MODULE Redirection -----------------------------
(***************************************************************************)
(* What the eBPF programs promise, without programs, maps or ports: a      *)
(* connection that is redirected to a gateway is a question, "where did it *)
(* want to go?", that is answered at most once, with exactly the           *)
(* destination its application asked for, or lost.                         *)
(***************************************************************************)
CONSTANTS Cookies, Destination, None

VARIABLES
    wanted,   \* the destination of a redirected connection
    told,     \* the destination that the gateway was told
    lost      \* the connections that end unanswered

vars == <<wanted, told, lost>>

Init ==
    /\ wanted = [c \in Cookies |-> None]
    /\ told = [c \in Cookies |-> None]
    /\ lost = {}

Capture(c, d) ==
    /\ wanted[c] = None
    /\ wanted' = [wanted EXCEPT ![c] = d]
    /\ UNCHANGED <<told, lost>>

Tell(c) ==
    /\ wanted[c] # None /\ told[c] = None /\ c \notin lost
    /\ told' = [told EXCEPT ![c] = wanted[c]]
    /\ UNCHANGED <<wanted, lost>>

\* A gateway that stops loses every connection that it has not answered.
Lose ==
    \E L \in SUBSET {c \in Cookies : wanted[c] # None /\ told[c] = None} :
        /\ lost' = lost \cup L
        /\ UNCHANGED <<wanted, told>>

Next ==
    \/ \E c \in Cookies : Tell(c) \/ \E d \in Destination : Capture(c, d)
    \/ Lose

Spec == Init /\ [][Next]_vars
=============================================================================
