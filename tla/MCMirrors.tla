------------------------------ MODULE MCMirrors ------------------------------
(***************************************************************************)
(* Instances of Mirrors for TLC: one node, two pods, one or two gateways.  *)
(***************************************************************************)
EXTENDS Mirrors, TLC

A == "10.0.0.1"
B == "10.0.0.2"
MCPods == {A, B}
MCPodCidr == {A, B}

\* Pod A: the application, a worker that it may fork, and the gateway, which
\* shares their pid namespace.  Pod B: a server and a gateway.  Pids are counted from
\* 1 in every namespace: in the *Replicas instances both pods have the same, and in
\* the *Collide instances the pid of B's gateway is one of the container of A.
Proc(pod, ns, pid) == [pod |-> pod, ns |-> ns, pid |-> pid]

InfoOneNode ==
    [app |-> Proc(A, "a", 1), worker |-> Proc(A, "a", 20), gwA |-> Proc(A, "a", 9),
     server |-> Proc(B, "b", 2)]
InfoLone == [app |-> Proc(A, "a", 1), gwA |-> Proc(A, "a", 9)]
InfoReplicas ==
    [app |-> Proc(A, "a", 1), gwA |-> Proc(A, "a", 9),
     server |-> Proc(B, "b", 1), gwB |-> Proc(B, "b", 9)]
InfoCollide ==
    [app |-> Proc(A, "a", 1), worker |-> Proc(A, "a", 7), gwA |-> Proc(A, "a", 9),
     server |-> Proc(B, "b", 1), gwB |-> Proc(B, "b", 7)]

ProcsOneNode == DOMAIN InfoOneNode
ProcsLone == DOMAIN InfoLone
ProcsReplicas == DOMAIN InfoReplicas
ProcsCollide == DOMAIN InfoCollide
MainA == (A :> "gwA")
MainAB == (A :> "gwA") @@ (B :> "gwB")


\* A reduction, not a bound: the model does not order the cookies of a run whose
\* keys are all different, so TLC may hand them out in order.
InOrder == \A c \in Cookies : sock[c].st # "unused" =>
             \A k \in Cookies : k < c => sock[k].st # "unused"
\* Another, where the two pods are alike: the gateway of A is attached first.
GatewaysInOrder == attached["connect4"] # <<>> => attached["connect4"][1] = A
PortSymmetry == Permutations(Ports)

DestsA == {[addr |-> B, port |-> 80], [addr |-> B, port |-> 8080], [addr |-> "1.1.1.1", port |-> 80]}
DestsTwo == {[addr |-> B, port |-> 80], [addr |-> B, port |-> 81]}
DestsFar == {[addr |-> "10.0.1.1", port |-> 80], [addr |-> "10.0.1.1", port |-> 81]}
CidrFar == MCPodCidr \cup {"10.0.1.1"}
DestsOut == {[addr |-> B, port |-> 80], [addr |-> "1.1.1.1", port |-> 80]}
DestsB == {[addr |-> B, port |-> 80]}
DestsAB == {[addr |-> A, port |-> 80], [addr |-> B, port |-> 80]}
=============================================================================
