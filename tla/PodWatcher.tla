----------------------------- MODULE PodWatcher -----------------------------
(***************************************************************************)
(* The watcher: an informer on the pods of the cluster, one handler at a   *)
(* time, that gives each annotated pod a certificate in a secret and the   *)
(* gateway in an ephemeral container (watcher/watch.go, watcher/certs.go). *)
(*                                                                         *)
(* The API server, its users and the kubelet are the environment.  The     *)
(* handler calls the API three times for a pod - create the secret, patch  *)
(* the pod, update the pod - and anything can happen in between.           *)
(***************************************************************************)
EXTENDS Integers, Sequences, FiniteSets

CONSTANTS
    Names,       \* pod names; a deleted pod may come back under its name
    Mortal,      \* the names whose pods may be deleted
    Wants,       \* the sets of annotations that users give a pod
    MaxPods,     \* bound: how often a pod of one name is created
    Faults,      \* what may fail: "crash", "watch", "secret", "patch", "update", "delete"
    MaxFaults,   \* bound: how often, all together
    None

\* What asks for a gateway.  A pod has "blank" if one of the three is there without a
\* value: that asks for a gateway as well, and for nothing that it does.
Triggers == {"encrypt", "endpoint", "ai", "blank"}
Options == {"ktls", "netflush"}             \* these change what it does

Annots == UNION Wants

ASSUME WatcherAssumption ==
    /\ IsFiniteSet(Names) /\ Mortal \subseteq Names
    /\ Annots \subseteq Triggers \cup Options
    /\ MaxPods \in Nat /\ MaxFaults \in Nat
    /\ None \notin (Names \X (1 .. MaxPods)) \cup {<<>>}
    /\ \A w \in SUBSET Annots : w # None

VARIABLES
    pod,      \* the API server's pods, by name
    secret,   \* the secret kube-gateway-<name>: whose certificate it holds
    born,     \* per name, how many pods were created
    store,    \* the informer's store: the pods it has seen last
    events,   \* the notifications the handler has not seen yet
    hdl,      \* the handler
    cert,     \* the certs structure of the process: the last certificate made
    mode,     \* "up", "deaf" (the watch is lost) or "down" (the process died)
    faults    \* how many faults there were

vars == <<pod, secret, born, store, events, hdl, cert, mode, faults>>
api == <<pod, secret, born>>

Uids == Names \X (1 .. MaxPods)
NoCert == <<>>     \* in a secret made before any certificate was

\* ec: the environment of the ephemeral container, None where there is no container;
\* cert: the certificate it was started with.
Pods == [uid : Uids, ip : BOOLEAN, want : SUBSET Annots, enabled : BOOLEAN,
         ec : {None} \cup SUBSET Annots, cert : Uids \cup {NoCert, None}]
Events == [type : {"update"}, name : Names, pod : Pods] \cup [type : {"delete", "tombstone"}, name : Names]
Idle == [at |-> "idle"]
Handling == [at : {"secret", "patch", "update"}, name : Names, pod : Pods]

\* The environment that the annotations' values stand for.
Env(want) == (IF "encrypt" \in want THEN want ELSE want \ {"ktls"}) \ {"blank"}

Init ==
    /\ pod = [n \in Names |-> None]
    /\ secret = [n \in Names |-> None]
    /\ born = [n \in Names |-> 0]
    /\ store = pod
    /\ events = <<>>
    /\ hdl = Idle
    /\ cert = NoCert
    /\ mode = "up"
    /\ faults = 0

-----------------------------------------------------------------------------
(* The API server.  A write that changes nothing is not notified.  The      *)
(* handler does nothing with additions (OnAdd), so they are not queued.      *)

Notified(n, p) ==
    IF p = None THEN <<[type |-> "delete", name |-> n]>>
    ELSE IF store[n] = None THEN <<>> ELSE <<[type |-> "update", name |-> n, pod |-> p]>>

Write(n, p) ==
    /\ pod' = [pod EXCEPT ![n] = p]
    /\ IF mode = "up" /\ p # pod[n]
       THEN store' = [store EXCEPT ![n] = p] /\ events' = events \o Notified(n, p)
       ELSE UNCHANGED <<store, events>>

Create(n, w) ==
    /\ pod[n] = None /\ born[n] < MaxPods
    /\ born' = [born EXCEPT ![n] = @ + 1]
    /\ Write(n, [uid |-> <<n, born[n] + 1>>, ip |-> FALSE, want |-> w, enabled |-> FALSE,
                 ec |-> None, cert |-> None])
    /\ UNCHANGED <<secret, hdl, cert, mode, faults>>

AssignIP(n) ==
    /\ pod[n] # None /\ ~pod[n].ip
    /\ Write(n, [pod[n] EXCEPT !.ip = TRUE])
    /\ UNCHANGED <<secret, born, hdl, cert, mode, faults>>

Annotate(n, a) ==
    /\ pod[n] # None /\ a \notin pod[n].want /\ pod[n].want \cup {a} \in Wants
    /\ Write(n, [pod[n] EXCEPT !.want = @ \cup {a}])
    /\ UNCHANGED <<secret, born, hdl, cert, mode, faults>>

Delete(n) ==
    /\ n \in Mortal /\ pod[n] # None
    /\ Write(n, None)
    /\ UNCHANGED <<secret, born, hdl, cert, mode, faults>>

\* The kubelet starts the container once its secret exists, and says so in the status.
StartGateway(n) ==
    /\ pod[n] # None
    /\ pod[n].ec # None /\ pod[n].cert = None
    /\ secret[n] # None
    /\ Write(n, [pod[n] EXCEPT !.cert = secret[n]])
    /\ UNCHANGED <<secret, born, hdl, cert, mode, faults>>

-----------------------------------------------------------------------------
(* The handler: OnUpdate, OnDelete *)

Die ==
    /\ mode' = "down" /\ hdl' = Idle /\ cert' = NoCert /\ events' = <<>>
    /\ store' = [n \in Names |-> None]

Take == events # <<>> /\ mode # "down" /\ hdl = Idle

\* Mutant: any annotation of the gateway will do.
Needed_Any(p) == p.ip /\ ~p.enabled /\ p.want # {}

\* Is there something to do for this pod?  annotationLookup asks whether an annotation
\* is there, withProxyContainer for its value.
Needed(p) == p.ip /\ ~p.enabled /\ p.want \cap Triggers # {}

\* Mutant: a certificate is made only if there is none.
Certificate_Cached(p) == IF cert = NoCert THEN p.uid ELSE cert

\* withProxyContainer makes a certificate only where encryption is asked for;
\* whatever certificate the process holds goes into the secret.
Certificate(p) == IF "encrypt" \in p.want THEN p.uid ELSE cert

OnUpdate ==
    /\ Take
    /\ LET e == Head(events)
       IN  /\ e.type = "update"
           /\ IF Needed(e.pod)
              THEN /\ cert' = Certificate(e.pod)
                   /\ hdl' = [at |-> "secret", name |-> e.name, pod |-> e.pod]
              ELSE UNCHANGED <<cert, hdl>>
    /\ events' = Tail(events)
    /\ UNCHANGED <<api, store, mode, faults>>

Fault(what) == what \in Faults /\ faults < MaxFaults /\ faults' = faults + 1

\* Mutant: the pod is given up when its secret cannot be created.
LoadSecret_GivesUp ==
    /\ hdl.at = "secret"
    /\ \/ /\ secret[hdl.name] = None
          /\ secret' = [secret EXCEPT ![hdl.name] = cert] /\ UNCHANGED faults
          /\ hdl' = [hdl EXCEPT !.at = "patch"]
       \/ /\ secret[hdl.name] # None /\ UNCHANGED <<secret, faults>>
          /\ hdl' = Idle
       \/ Fault("secret") /\ UNCHANGED secret /\ hdl' = Idle
    /\ UNCHANGED <<pod, born, store, events, cert, mode>>

\* loadSecret.  An error, such as a secret that is there already, is logged.
LoadSecret ==
    /\ hdl.at = "secret"
    /\ \/ secret' = [secret EXCEPT ![hdl.name] = IF @ = None THEN cert ELSE @] /\ UNCHANGED faults
       \/ Fault("secret") /\ UNCHANGED secret
    /\ hdl' = [hdl EXCEPT !.at = "patch"]
    /\ UNCHANGED <<pod, born, store, events, cert, mode>>

\* The patch adds the container.  Where the pod has it already the environments
\* are merged, and the API server accepts no change to a container that is there.
Accepted(n, p) == pod[n] # None /\ (pod[n].ec # None => Env(p.want) \subseteq pod[n].ec)
Patched(n, p) == [pod[n] EXCEPT !.ec = IF @ = None THEN Env(p.want) ELSE @]

\* Mutant: a failed Patch is an error like the others, and the update follows.
Patch_Careless ==
    /\ hdl.at = "patch"
    /\ \/ /\ Accepted(hdl.name, hdl.pod)
          /\ Write(hdl.name, Patched(hdl.name, hdl.pod))
          /\ hdl' = [hdl EXCEPT !.at = "update", !.pod = [Patched(hdl.name, hdl.pod) EXCEPT !.enabled = TRUE]]
          /\ UNCHANGED faults
       \/ /\ Fault("patch")
          /\ hdl' = [hdl EXCEPT !.at = "update", !.pod.enabled = TRUE]
          /\ UNCHANGED <<pod, store, events>>
    /\ UNCHANGED <<secret, born, cert, mode>>

Patch ==
    /\ hdl.at = "patch"
    /\ Accepted(hdl.name, hdl.pod)
    /\ LET p == Patched(hdl.name, hdl.pod)
       IN  /\ Write(hdl.name, p)
           /\ hdl' = [hdl EXCEPT !.at = "update", !.pod = [p EXCEPT !.enabled = TRUE]]
    /\ UNCHANGED <<secret, born, cert, mode, faults>>

\* A failed Patch returns an empty pod, and the assignment to its annotations
\* panics; so it does where the patched pod has none.  client-go ends the process.
PatchPanics ==
    /\ hdl.at = "patch"
    /\ \/ ~Accepted(hdl.name, hdl.pod) /\ UNCHANGED <<pod, faults>>
       \/ Fault("patch") /\ UNCHANGED pod
       \/ /\ Accepted(hdl.name, hdl.pod)
          /\ pod' = [pod EXCEPT ![hdl.name] = Patched(hdl.name, hdl.pod)]
          /\ \/ Fault("patch")
             \/ pod[hdl.name].want = {} /\ UNCHANGED faults
    /\ Die
    /\ UNCHANGED <<secret, born>>

\* The pod returned by the patch is written back with the annotation.  A pod that
\* has changed since is a conflict, which is logged.
Current(n, p) == pod[n] # None /\ p = [pod[n] EXCEPT !.enabled = TRUE]

Update ==
    /\ hdl.at = "update"
    /\ \/ Current(hdl.name, hdl.pod) /\ Write(hdl.name, hdl.pod) /\ UNCHANGED faults
       \/ ~Current(hdl.name, hdl.pod) /\ UNCHANGED <<pod, store, events, faults>>
       \/ Fault("update") /\ UNCHANGED <<pod, store, events>>
    /\ hdl' = Idle
    /\ UNCHANGED <<secret, born, cert, mode>>

\* A deletion that the informer found out about late is not a pod: the type
\* assertion panics.
OnDelete ==
    /\ Take
    /\ LET e == Head(events)
       IN  \/ /\ e.type = "delete"
              /\ \/ secret' = [secret EXCEPT ![e.name] = None] /\ UNCHANGED faults
                 \/ Fault("delete") /\ UNCHANGED secret
              /\ events' = Tail(events)
              /\ UNCHANGED <<store, hdl, cert, mode>>
           \/ e.type = "tombstone" /\ Die /\ UNCHANGED <<secret, faults>>
    /\ UNCHANGED <<pod, born>>

-----------------------------------------------------------------------------
(* The process and its watch *)

Crash ==
    /\ mode # "down"
    /\ Fault("crash") /\ Die
    /\ UNCHANGED api

\* A new process lists the pods: all of them are additions.
Restart ==
    /\ mode = "down"
    /\ mode' = "up" /\ store' = pod
    /\ UNCHANGED <<api, events, hdl, cert, faults>>

LoseWatch ==
    /\ mode = "up"
    /\ Fault("watch") /\ mode' = "deaf"
    /\ UNCHANGED <<api, store, events, hdl, cert>>

\* Mutant: a pod that is gone is told of as an update.
Missed_AsUpdate(n) ==
    IF store[n] = None THEN {}
    ELSE {[type |-> "update", name |-> n, pod |-> pod[n]]}

\* The pods are listed anew: what the store does not have is added, what it has is
\* updated, changed or not, and a pod that was deleted and created again is updated too.
Missed(n) ==
    IF store[n] = None THEN {}
    ELSE IF pod[n] = None THEN {[type |-> "tombstone", name |-> n]}
    ELSE {[type |-> "update", name |-> n, pod |-> pod[n]]}

Relist ==
    /\ mode = "deaf"
    /\ mode' = "up" /\ store' = pod
    /\ LET S == UNION {Missed(n) : n \in Names}
       IN  \E s \in [1 .. Cardinality(S) -> S] :
              {s[i] : i \in DOMAIN s} = S /\ events' = events \o s
    /\ UNCHANGED <<api, hdl, cert, faults>>

-----------------------------------------------------------------------------
Cluster == \E n \in Names : \/ \E w \in Wants : Create(n, w)
                            \/ \E a \in Annots : Annotate(n, a)
                            \/ AssignIP(n) \/ Delete(n) \/ StartGateway(n)
Handler == OnUpdate \/ LoadSecret \/ Patch \/ PatchPanics \/ Update \/ OnDelete

Next == Cluster \/ Handler \/ Crash \/ Restart \/ LoseWatch \/ Relist

Spec == Init /\ [][Next]_vars

\* The handler runs, the process is restarted by its deployment, the informer
\* lists again, and the kubelet starts what it can.
Fairness == /\ WF_vars(Handler) /\ WF_vars(Restart) /\ WF_vars(Relist)
            /\ \A n \in Names : WF_vars(StartGateway(n))

FairSpec == Spec /\ Fairness

-----------------------------------------------------------------------------
(* Properties *)

TypeOK ==
    /\ pod \in [Names -> Pods \cup {None}]
    /\ secret \in [Names -> Uids \cup {NoCert, None}]
    /\ born \in [Names -> 0 .. MaxPods]
    /\ store \in [Names -> Pods \cup {None}]
    /\ events \in Seq(Events)
    /\ hdl \in Handling \cup {Idle}
    /\ cert \in Uids \cup {NoCert}
    /\ mode \in {"up", "deaf", "down"}
    /\ faults \in 0 .. MaxFaults

Existing == {n \in Names : pod[n] # None}

\* A pod that says "enabled" has its gateway, whatever failed on the way: the
\* annotation comes after the container, and onto the pod that has it.
EnabledMeansAttached == \A n \in Existing : pod[n].enabled => pod[n].ec # None

\* A pod has a gateway only where its own annotations ask for one, and the gateway
\* does nothing they do not ask for.
GatewayWasAsked ==
    \A n \in Existing :
        pod[n].ec # None => pod[n].ec \subseteq pod[n].want /\ pod[n].want \cap Triggers # {}

\* A gateway that encrypts ("encrypt" or "endpoint") was started with the
\* certificate of its own pod, if the pod never had an annotation without a value.
OwnCertificate ==
    \A n \in Existing :
        /\ pod[n].cert # None /\ "blank" \notin pod[n].want
        /\ pod[n].ec # None /\ pod[n].ec \cap {"encrypt", "endpoint"} # {}
        => pod[n].cert = pod[n].uid

\* An annotated pod gets its gateway, running, and the annotation that says so.
Served ==
    \A n \in Names :
        pod[n] # None /\ (pod[n] # None => pod[n].ip /\ pod[n].want \cap Triggers # {})
        ~> pod[n] = None \/ (pod[n] # None => pod[n].enabled /\ pod[n].cert # None)
=============================================================================
