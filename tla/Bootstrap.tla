----------------------------- MODULE Bootstrap -----------------------------
(***************************************************************************)
(* How a gateway comes by its token (watcher/main.go, checkSecretExists):  *)
(* for each pod the watcher looks for the token secret of the namespace,   *)
(* and if it does not find one, creates the service account, its role      *)
(* binding, a token and the secret.  Every failure is logged, and the next *)
(* call made all the same.  The token goes through a field of the process  *)
(* into the pod's own secret (certs.go, loadSecret).                       *)
(***************************************************************************)
EXTENDS Integers, FiniteSets

CONSTANTS
    Namespaces,
    Pods,
    Namespace,   \* of each pod
    Faults,      \* what may fail: the calls, and "crash"
    MaxFaults,   \* bound: how often, all together
    Empty,       \* no token
    None

Calls == {"get", "account", "bind", "token", "secret", "load"}

ASSUME BootstrapAssumption ==
    /\ Namespace \in [Pods -> Namespaces]
    /\ Faults \subseteq Calls \cup {"crash"}
    /\ MaxFaults \in Nat
    /\ Empty \notin Namespaces /\ None \notin Namespaces \cup {Empty}

VARIABLES
    account,   \* the namespaces with the service account
    binding,   \* the subject of the cluster role binding
    secret,    \* per namespace, the token in the secret kube-gateway
    loaded,    \* per pod, the token in the secret kube-gateway-<pod>
    at,        \* the call the handler makes next, or "idle"
    pod,       \* for which pod
    got,       \* what checkSecretExists holds
    token,     \* certs.token
    faults,
    failed     \* history: what has failed so far

vars == <<account, binding, secret, loaded, at, pod, got, token, faults, failed>>
api == <<account, binding, secret, loaded>>
bounds == <<faults, failed>>

\* A token is named by the namespace of its account.
Tokens == Namespaces \cup {Empty}

Init ==
    /\ account = {}
    /\ binding = None
    /\ secret = [n \in Namespaces |-> None]
    /\ loaded = [p \in Pods |-> None]
    /\ at = "idle"
    /\ pod \in Pods
    /\ got = Empty
    /\ token = Empty
    /\ faults = 0
    /\ failed = {}

Here == Namespace[pod]

Fault(f) ==
    /\ f \in Faults
    /\ faults < MaxFaults
    /\ faults' = faults + 1
    /\ failed' = failed \cup {f}

\* The informer calls the handler, for a pod it may have seen before.
Handle(p) ==
    /\ at = "idle"
    /\ at' = "get"
    /\ pod' = p
    /\ got' = Empty
    /\ UNCHANGED <<api, token, bounds>>

\* Mutant: the account is expected to be there.
Then_NoAccount(call) ==
    CASE call = "get" -> "bind" [] call = "account" -> "bind" [] call = "bind" -> "token"
      [] call = "token" -> "secret" [] call = "secret" -> "load"

\* The order of the calls where there is no secret.
Then(call) ==
    CASE call = "get" -> "account" [] call = "account" -> "bind" [] call = "bind" -> "token"
      [] call = "token" -> "secret" [] call = "secret" -> "load"

\* Any error is taken for a secret that does not exist.
GetSecret ==
    /\ at = "get"
    /\ \/ secret[Here] # None /\ got' = secret[Here] /\ at' = "load" /\ UNCHANGED bounds
       \/ secret[Here] = None /\ at' = Then(at) /\ UNCHANGED <<got, bounds>>
       \/ Fault("get") /\ at' = Then(at) /\ UNCHANGED got
    /\ UNCHANGED <<api, pod, token>>

CreateAccount ==
    /\ at = "account"
    /\ at' = Then(at)
    /\ \/ account' = account \cup {Here} /\ UNCHANGED bounds
       \/ Fault("account") /\ UNCHANGED account
    /\ UNCHANGED <<binding, secret, loaded, pod, got, token>>

\* There is one binding, whose subject is the namespace that was first.
CreateBinding ==
    /\ at = "bind"
    /\ at' = Then(at)
    /\ \/ binding' = (IF binding = None THEN Here ELSE binding) /\ UNCHANGED bounds
       \/ Fault("bind") /\ UNCHANGED binding
    /\ UNCHANGED <<account, secret, loaded, pod, got, token>>

\* Mutant: nothing was returned.
Issued_Nil == IF Here \in account THEN Here ELSE None

\* Without an account there is no token, and what was returned is empty.
Issued == IF Here \in account THEN Here ELSE Empty

CreateToken ==
    /\ at = "token"
    /\ at' = Then(at)
    /\ \/ got' = Issued /\ UNCHANGED bounds
       \/ Fault("token") /\ got' = Empty
    /\ UNCHANGED <<api, pod, token>>

\* Mutant: the token is returned that was to go into the secret.
CreateSecret_Returns ==
    /\ at = "secret"
    /\ at' = Then(at)
    /\ \/ secret[Here] = None /\ secret' = [secret EXCEPT ![Here] = got] /\ UNCHANGED bounds
       \/ secret[Here] # None /\ UNCHANGED <<secret, bounds>>
       \/ Fault("secret") /\ UNCHANGED secret
    /\ UNCHANGED <<account, binding, loaded, pod, got, token>>

\* What a failed creation returns has no data.
CreateSecret ==
    /\ at = "secret"
    /\ at' = Then(at)
    /\ \/ secret[Here] = None /\ secret' = [secret EXCEPT ![Here] = got] /\ UNCHANGED <<got, bounds>>
       \/ secret[Here] # None /\ got' = Empty /\ UNCHANGED <<secret, bounds>>
       \/ Fault("secret") /\ got' = Empty /\ UNCHANGED secret
    /\ UNCHANGED <<account, binding, loaded, pod, token>>

\* Mutant: an empty answer leaves the token that is there.
TokenFrom_Kept(t) == IF t = Empty THEN token ELSE t

TokenFrom(t) == t

\* withProxyContainer takes the token, and loadSecret puts it into the pod's
\* secret, if there is none yet.
LoadSecret ==
    /\ at = "load"
    /\ at' = "idle"
    /\ token' = TokenFrom(got)
    /\ \/ loaded' = (IF loaded[pod] = None THEN [loaded EXCEPT ![pod] = token'] ELSE loaded) /\ UNCHANGED bounds
       \/ Fault("load") /\ UNCHANGED loaded
    /\ got' = Empty
    /\ UNCHANGED <<account, binding, secret, pod>>

Crash ==
    /\ Fault("crash")
    /\ at' = "idle" /\ got' = Empty /\ token' = Empty
    /\ UNCHANGED <<api, pod>>

Next ==
    \/ \E p \in Pods : Handle(p)
    \/ GetSecret \/ CreateAccount \/ CreateBinding \/ CreateToken \/ CreateSecret \/ LoadSecret
    \/ Crash

Spec == Init /\ [][Next]_vars

-----------------------------------------------------------------------------
(* Properties *)

\* Every variable has its type; only what was asked for or found is held.
TypeOK ==
    /\ account \subseteq Namespaces
    /\ binding \in Namespaces \cup {None}
    /\ secret \in [Namespaces -> Tokens \cup {None}]
    /\ loaded \in [Pods -> Tokens \cup {None}]
    /\ at \in Calls \cup {"idle"}
    /\ pod \in Pods
    /\ got \in Tokens /\ token \in Tokens
    /\ at \in {"idle", "get", "account", "bind", "token"} => got = Empty
    /\ faults \in 0 .. MaxFaults /\ failed \subseteq Faults

\* Whatever fails, no pod is handed the token of another namespace, though all
\* tokens go through one field of the process.
OwnToken == \A p \in Pods : loaded[p] \in {None, Empty, Namespace[p]}

Costly == failed \cap {"get", "account", "token", "secret"} # {}

\* A pod is left without a token only if one of four calls has failed: a crash
\* between any two calls, a binding or a pod's secret that fails, or a repeated
\* call never cost a token.
EmptyHasCause == (\E p \in Pods : loaded[p] = Empty) => Costly

\* A pod is handed no token that is not kept in the secret of its namespace, for the
\* namespace's other pods to find: where that secret was created with an empty token,
\* or a token was made and could not be kept, no pod gets one.
TokenIsKept == \A p \in Pods : loaded[p] = Namespace[p] => secret[Namespace[p]] = Namespace[p]

(* An inductive invariant *)

\* What is found or made for a namespace is its own, all the way to the pod.
OwnAllTheWay ==
    /\ \A n \in Namespaces : secret[n] \in {None, Empty, n}
    /\ got \in {Empty, Here}

\* What is empty on the way has a cause.
EmptyAllTheWay ==
    /\ (\E n \in Namespaces : secret[n] = Empty) => Costly
    /\ at \in {"secret", "load"} /\ got = Empty => Costly
    /\ at \in {"account", "bind", "token", "secret"} /\ secret[Here] # None => Costly
    /\ at \in {"bind", "token"} => Here \in account \/ Costly

\* What is about to be loaded is kept.
KeptOnTheWay == at = "load" /\ got # Empty => secret[Here] = got

IInv ==
    /\ TypeOK
    /\ OwnToken /\ OwnAllTheWay
    /\ EmptyHasCause /\ EmptyAllTheWay
    /\ TokenIsKept /\ KeptOnTheWay

-----------------------------------------------------------------------------
(* Properties that do not hold *)

\* Every namespace's account has the role ("lets create the correct settings",
\* main.go:169).
AllBound == \A p \in Pods : loaded[p] = Namespace[p] => binding = Namespace[p] \/ "bind" \in failed

\* A failed call is made up for when the next pod comes.
Recovers == \A n \in Namespaces : secret[n] # Empty
=============================================================================
