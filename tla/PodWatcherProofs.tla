-------------------------- MODULE PodWatcherProofs --------------------------
(***************************************************************************)
(* Proofs about the watcher, for any pods, annotations and faults.         *)
(***************************************************************************)
EXTENDS PodWatcher, FiniteSetTheorems, TLAPS

(* Types *)

\* A queue of events to which events are added is one.
LEMMA Appended ==
    ASSUME NEW S, NEW s \in Seq(S), NEW t \in Seq(S)
    PROVE  s \o t \in Seq(S)
OBVIOUS

\* A function on the first numbers is a sequence.
LEMMA FunctionIsSequence ==
    ASSUME NEW S, NEW n \in Nat, NEW f \in [1 .. n -> S]
    PROVE  f \in Seq(S)
OBVIOUS

\* The API server and the informer keep their types when a pod is written.
LEMMA WriteType ==
    ASSUME TypeOK, NEW n \in Names, NEW p \in Pods \cup {None}, Write(n, p)
    PROVE  /\ pod' \in [Names -> Pods \cup {None}]
           /\ store' \in [Names -> Pods \cup {None}]
           /\ events' \in Seq(Events)
<1>1. pod' \in [Names -> Pods \cup {None}]
  BY DEF Write, TypeOK
<1>2. Notified(n, p) \in Seq(Events)
  <2>1. CASE p = None
    <3>1. [type |-> "delete", name |-> n] \in Events
      BY DEF Events
    <3> QED
      BY <2>1, <3>1 DEF Notified
  <2>2. CASE p # None
    <3>1. [type |-> "update", name |-> n, pod |-> p] \in Events
      BY <2>2 DEF Events
    <3> QED
      BY <2>2, <3>1 DEF Notified
  <2> QED
    BY <2>1, <2>2
<1>3. store' \in [Names -> Pods \cup {None}]
  BY DEF Write, TypeOK
<1>4. events' \in Seq(Events)
  <2>1. events \in Seq(Events)
    BY DEF TypeOK
  <2>2. events \o Notified(n, p) \in Seq(Events)
    BY <2>1, <1>2, Appended
  <2> QED
    BY <2>1, <2>2 DEF Write
<1> QED
  BY <1>1, <1>3, <1>4

\* A list shows finitely many changes.
LEMMA MissedFinite == Cardinality(UNION {Missed(n) : n \in Names}) \in Nat
<1> DEFINE T == {Missed(n) : n \in Names}
           f == [n \in Names |-> Missed(n)]
<1>1. f \in Surjection(Names, T)
  BY DEF Surjection
<1>2. IsFiniteSet(T)
  <2> HIDE DEF f, T
  <2> QED
    BY <1>1, FS_Surjection, WatcherAssumption
<1>3. \A n \in Names : IsFiniteSet(Missed(n))
  BY FS_EmptySet, FS_Singleton DEF Missed
<1>4. IsFiniteSet(UNION T)
  BY <1>2, <1>3, FS_UNION
<1> QED
  BY <1>4, FS_CardinalityType

\* What a list shows to have changed are events.
LEMMA RelistType ==
    ASSUME TypeOK, Relist
    PROVE  events' \in Seq(Events)
<1> DEFINE S == UNION {Missed(n) : n \in Names}
<1>1. S \subseteq Events
  <2> SUFFICES ASSUME NEW n \in Names
               PROVE  Missed(n) \subseteq Events
    OBVIOUS
  <2>1. [type |-> "tombstone", name |-> n] \in Events
    BY DEF Events
  <2>2. pod[n] # None => [type |-> "update", name |-> n, pod |-> pod[n]] \in Events
    BY DEF TypeOK, Events
  <2> QED
    BY <2>1, <2>2 DEF Missed
<1>2. Cardinality(S) \in Nat
  BY MissedFinite
<1>3. PICK s \in [1 .. Cardinality(S) -> S] : events' = events \o s
  BY DEF Relist
<1>4. s \in Seq(Events)
  <2> HIDE DEF S
  <2>1. s \in [1 .. Cardinality(S) -> Events]
    BY <1>1, <1>3
  <2> QED
    BY <1>2, <2>1, FunctionIsSequence
<1> QED
  BY <1>3, <1>4, Appended DEF TypeOK

-----------------------------------------------------------------------------
(* The invariant *)

\* What the handler has in hand: a pod that asks for a gateway, and after the patch
\* a pod that has one.
InHand ==
    /\ hdl.at \in {"secret", "patch"} => hdl.pod.want \cap Triggers # {}
    /\ hdl.at = "update" => hdl.pod.ec # None

WatcherInv == TypeOK /\ EnabledMeansAttached /\ InHand

\* An environment is made of annotations.
LEMMA EnvType ==
    ASSUME NEW w \in SUBSET Annots
    PROVE  Env(w) \in SUBSET Annots /\ Env(w) # None
<1>1. Env(w) \in SUBSET Annots
  BY DEF Env
<1> QED
  BY <1>1, WatcherAssumption

\* A write of a pod that is enabled only with a container keeps the promise.
LEMMA WriteKeeps ==
    ASSUME TypeOK, EnabledMeansAttached, NEW n \in Names, NEW p \in Pods \cup {None},
           pod' = [pod EXCEPT ![n] = p],
           p # None /\ p.enabled => p.ec # None
    PROVE  EnabledMeansAttached'
BY DEF EnabledMeansAttached, Existing, TypeOK

\* What the patch leaves is a pod, with a container.
LEMMA PatchedType ==
    ASSUME TypeOK, NEW n \in Names, NEW p \in Pods, pod[n] # None
    PROVE  /\ Patched(n, p) \in Pods
           /\ Patched(n, p).enabled = pod[n].enabled
           /\ Patched(n, p).ec # None
<1>1. pod[n] \in Pods
  BY DEF TypeOK
<1>2. p.want \in SUBSET Annots
  BY DEF Pods
<1>3. Env(p.want) \in SUBSET Annots /\ Env(p.want) # None
  BY <1>2, EnvType
<1> QED
  BY <1>1, <1>3 DEF Patched, Pods

-----------------------------------------------------------------------------
(* Steps *)

\* A write by the API server's other clients, the handler's pod left in hand.
LEMMA WriteStep ==
    ASSUME WatcherInv, NEW n \in Names, NEW p \in Pods \cup {None}, Write(n, p),
           p # None /\ p.enabled => p.ec # None,
           UNCHANGED <<secret, hdl, cert, mode, faults>>,
           born' \in [Names -> 0 .. MaxPods]
    PROVE  WatcherInv'
<1> USE DEF WatcherInv
<1>1. TypeOK'
  <2>1. /\ pod' \in [Names -> Pods \cup {None}]
        /\ store' \in [Names -> Pods \cup {None}]
        /\ events' \in Seq(Events)
    BY WriteType
  <2> QED
    BY <2>1 DEF TypeOK
<1>2. EnabledMeansAttached'
  <2>1. pod' = [pod EXCEPT ![n] = p]
    BY DEF Write
  <2> QED
    BY <2>1, WriteKeeps
<1>3. InHand'
  BY DEF InHand
<1> QED
  BY <1>1, <1>2, <1>3

LEMMA ClusterStep ==
    ASSUME WatcherInv, Cluster
    PROVE  WatcherInv'
<1>1. PICK n \in Names : \/ \E w \in Wants : Create(n, w)
                         \/ \E a \in Annots : Annotate(n, a)
                         \/ AssignIP(n) \/ Delete(n) \/ StartGateway(n)
  BY DEF Cluster
<1>2. /\ pod[n] \in Pods \cup {None}
      /\ pod[n] # None => (pod[n].enabled => pod[n].ec # None)
      /\ born \in [Names -> 0 .. MaxPods]
  BY DEF WatcherInv, TypeOK, EnabledMeansAttached, Existing
<1>3. ASSUME NEW w \in Wants, Create(n, w)
      PROVE  WatcherInv'
  <2> DEFINE p == [uid |-> <<n, born[n] + 1>>, ip |-> FALSE, want |-> w, enabled |-> FALSE,
                   ec |-> None, cert |-> None]
  <2>1. born[n] + 1 \in 1 .. MaxPods
    BY <1>2, <1>3, WatcherAssumption DEF Create
  <2>2. p \in Pods
    BY <2>1 DEF Pods, Uids, Annots
  <2>3. born' \in [Names -> 0 .. MaxPods]
    BY <1>2, <1>3, <2>1 DEF Create
  <2>4. Write(n, p) /\ UNCHANGED <<secret, hdl, cert, mode, faults>>
    BY <1>3 DEF Create
  <2>5. p.enabled = FALSE
    OBVIOUS
  <2> HIDE DEF p
  <2> QED
    BY <2>2, <2>3, <2>4, <2>5, WriteStep
<1>4. ASSUME NEW a \in Annots, Annotate(n, a)
      PROVE  WatcherInv'
  <2> DEFINE p == [pod[n] EXCEPT !.want = @ \cup {a}]
  <2>1. p \in Pods /\ p.enabled = pod[n].enabled /\ p.ec = pod[n].ec
    BY <1>2, <1>4 DEF Annotate, Pods
  <2>2. Write(n, p) /\ UNCHANGED <<born, secret, hdl, cert, mode, faults>> /\ pod[n] # None
    BY <1>4 DEF Annotate
  <2> HIDE DEF p
  <2> QED
    BY <1>2, <2>1, <2>2, WriteStep
<1>5. CASE AssignIP(n)
  <2> DEFINE p == [pod[n] EXCEPT !.ip = TRUE]
  <2>1. p \in Pods /\ p.enabled = pod[n].enabled /\ p.ec = pod[n].ec
    BY <1>2, <1>5 DEF AssignIP, Pods
  <2>2. Write(n, p) /\ UNCHANGED <<born, secret, hdl, cert, mode, faults>> /\ pod[n] # None
    BY <1>5 DEF AssignIP
  <2> HIDE DEF p
  <2> QED
    BY <1>2, <2>1, <2>2, WriteStep
<1>6. CASE Delete(n)
  BY <1>2, <1>6, WriteStep DEF Delete
<1>7. CASE StartGateway(n)
  <2> DEFINE p == [pod[n] EXCEPT !.cert = secret[n]]
  <2>1. secret[n] \in Uids \cup {NoCert, None}
    BY DEF WatcherInv, TypeOK
  <2>2. p \in Pods /\ p.enabled = pod[n].enabled /\ p.ec = pod[n].ec
    BY <1>2, <1>7, <2>1 DEF StartGateway, Pods
  <2>3. Write(n, p) /\ UNCHANGED <<born, secret, hdl, cert, mode, faults>> /\ pod[n] # None
    BY <1>7 DEF StartGateway
  <2> HIDE DEF p
  <2> QED
    BY <1>2, <2>2, <2>3, WriteStep
<1> QED
  BY <1>1, <1>3, <1>4, <1>5, <1>6, <1>7

\* Whatever the handler has in hand is a pod, under one of the names.
LEMMA HandType ==
    ASSUME TypeOK, hdl.at # "idle"
    PROVE  hdl \in Handling /\ hdl.name \in Names /\ hdl.pod \in Pods
BY DEF TypeOK, Handling, Idle

\* An event that is taken is an event, and the rest is a queue.
LEMMA QueueType ==
    ASSUME TypeOK, Take
    PROVE  Head(events) \in Events /\ Tail(events) \in Seq(Events)
<1>1. events \in Seq(Events) /\ events # <<>>
  BY DEF TypeOK, Take
<1> QED
  BY <1>1

LEMMA OnUpdateStep ==
    ASSUME WatcherInv, OnUpdate
    PROVE  WatcherInv'
<1> DEFINE e == Head(events)
<1>1. e \in Events /\ events' \in Seq(Events)
  BY QueueType DEF OnUpdate, WatcherInv
<1>2. e.type = "update" /\ UNCHANGED <<pod, secret, born, store, mode, faults>>
  BY DEF OnUpdate, api
<1>3. e.name \in Names /\ e.pod \in Pods
  BY <1>1, <1>2 DEF Events
<1>4. EnabledMeansAttached'
  BY <1>2 DEF WatcherInv, EnabledMeansAttached, Existing
<1>5. CASE Needed(e.pod)
  <2>1. cert' = Certificate(e.pod) /\ hdl' = [at |-> "secret", name |-> e.name, pod |-> e.pod]
    BY <1>5 DEF OnUpdate
  <2>2. cert' \in Uids \cup {NoCert}
    BY <1>3, <2>1 DEF Certificate, Pods, WatcherInv, TypeOK
  <2> HIDE DEF e
  <2>3. hdl' \in Handling
    BY <1>3, <2>1 DEF Handling
  <2>4. TypeOK'
    BY <1>1, <1>2, <2>2, <2>3 DEF WatcherInv, TypeOK
  <2>5. InHand'
    BY <1>5, <2>1 DEF InHand, Needed
  <2> QED
    BY <1>4, <2>4, <2>5 DEF WatcherInv
<1>6. CASE ~Needed(e.pod)
  <2>1. UNCHANGED <<cert, hdl>>
    BY <1>6 DEF OnUpdate
  <2> HIDE DEF e
  <2> QED
    BY <1>1, <1>2, <1>4, <2>1 DEF WatcherInv, TypeOK, InHand
<1> QED
  BY <1>5, <1>6

\* A fault that happens is counted.
LEMMA FaultType ==
    ASSUME TypeOK, NEW what, Fault(what)
    PROVE  faults' \in 0 .. MaxFaults
BY WatcherAssumption DEF TypeOK, Fault

LEMMA LoadSecretStep ==
    ASSUME WatcherInv, LoadSecret
    PROVE  WatcherInv'
<1>1. hdl \in Handling /\ hdl.name \in Names /\ hdl.pod \in Pods
  BY HandType DEF LoadSecret, WatcherInv
<1>2. faults' \in 0 .. MaxFaults
  BY FaultType DEF LoadSecret, WatcherInv, TypeOK
<1>3. secret' \in [Names -> Uids \cup {NoCert, None}]
  BY DEF LoadSecret, WatcherInv, TypeOK
<1>4. hdl' = [hdl EXCEPT !.at = "patch"] /\ hdl.at = "secret"
  BY DEF LoadSecret
<1>5. hdl' \in Handling /\ hdl'.at = "patch" /\ hdl'.pod = hdl.pod
  BY <1>1, <1>4 DEF Handling
<1>6. UNCHANGED <<pod, born, store, events, cert, mode>>
  BY DEF LoadSecret
<1>7. TypeOK'
  BY <1>2, <1>3, <1>5, <1>6 DEF WatcherInv, TypeOK
<1>8. EnabledMeansAttached'
  BY <1>6 DEF WatcherInv, EnabledMeansAttached, Existing
<1>9. InHand'
  BY <1>4, <1>5 DEF WatcherInv, InHand
<1> QED
  BY <1>7, <1>8, <1>9 DEF WatcherInv

LEMMA PatchStep ==
    ASSUME WatcherInv, Patch
    PROVE  WatcherInv'
<1> DEFINE n == hdl.name
           p == Patched(hdl.name, hdl.pod)
<1>1. hdl \in Handling /\ n \in Names /\ hdl.pod \in Pods
  BY HandType DEF Patch, WatcherInv
<1>2. pod[n] # None /\ hdl.at = "patch"
  BY DEF Patch, Accepted
<1>3. hdl.pod.want \cap Triggers # {}
  BY <1>2 DEF WatcherInv, InHand
<1>4. p \in Pods /\ p.ec # None
  BY <1>1, <1>2, <1>3, PatchedType DEF WatcherInv
<1>5. /\ Write(n, p)
      /\ hdl' = [hdl EXCEPT !.at = "update", !.pod = [p EXCEPT !.enabled = TRUE]]
      /\ UNCHANGED <<secret, born, cert, mode, faults>>
  BY DEF Patch
<1> HIDE DEF n, p
<1>6. [p EXCEPT !.enabled = TRUE] \in Pods /\ [p EXCEPT !.enabled = TRUE].ec = p.ec
  BY <1>4 DEF Pods
<1>7. hdl' \in Handling /\ hdl'.at = "update" /\ hdl'.pod.ec = p.ec
  BY <1>1, <1>5, <1>6 DEF Handling
<1>8. TypeOK'
  <2>1. /\ pod' \in [Names -> Pods \cup {None}]
        /\ store' \in [Names -> Pods \cup {None}]
        /\ events' \in Seq(Events)
    BY <1>1, <1>4, <1>5, WriteType DEF WatcherInv
  <2> QED
    BY <1>5, <1>7, <2>1 DEF WatcherInv, TypeOK
<1>9. EnabledMeansAttached'
  <2>1. pod' = [pod EXCEPT ![n] = p]
    BY <1>5 DEF Write
  <2> QED
    BY <1>1, <1>4, <2>1, WriteKeeps DEF WatcherInv
<1>10. InHand'
  BY <1>4, <1>7 DEF InHand
<1> QED
  BY <1>8, <1>9, <1>10 DEF WatcherInv

\* Where the process ends nothing is left in hand.
LEMMA DieStep ==
    ASSUME WatcherInv, Die, pod' \in [Names -> Pods \cup {None}], EnabledMeansAttached',
           secret' \in [Names -> Uids \cup {NoCert, None}], faults' \in 0 .. MaxFaults, born' = born
    PROVE  WatcherInv'
<1>1. hdl'.at = "idle" /\ events' \in Seq(Events)
  BY DEF Die, Idle
<1>2. store' \in [Names -> Pods \cup {None}]
  BY DEF Die
<1>3. TypeOK'
  BY <1>1, <1>2 DEF Die, WatcherInv, TypeOK
<1>4. InHand'
  BY <1>1 DEF InHand
<1> QED
  BY <1>3, <1>4 DEF WatcherInv

LEMMA PatchPanicsStep ==
    ASSUME WatcherInv, PatchPanics
    PROVE  WatcherInv'
<1> DEFINE n == hdl.name
           p == Patched(hdl.name, hdl.pod)
<1>1. n \in Names /\ hdl.pod \in Pods
  BY HandType DEF PatchPanics, WatcherInv
<1>2. Die /\ UNCHANGED <<secret, born>>
  BY DEF PatchPanics
<1>3. faults' \in 0 .. MaxFaults
  BY FaultType DEF PatchPanics, WatcherInv, TypeOK
<1>4. /\ pod' \in [Names -> Pods \cup {None}]
      /\ EnabledMeansAttached'
  <2>1. CASE UNCHANGED pod
    BY <2>1 DEF WatcherInv, TypeOK, EnabledMeansAttached, Existing
  <2>2. CASE Accepted(n, hdl.pod) /\ pod' = [pod EXCEPT ![n] = p]
    <3>1. pod[n] # None /\ hdl.pod.want \cap Triggers # {}
      BY <2>2 DEF Accepted, PatchPanics, WatcherInv, InHand
    <3>2. p \in Pods /\ p.ec # None
      BY <1>1, <3>1, PatchedType DEF WatcherInv
    <3> HIDE DEF n, p
    <3> QED
      BY <1>1, <2>2, <3>2, WriteKeeps DEF WatcherInv, TypeOK
  <2> QED
    BY <2>1, <2>2 DEF PatchPanics
<1> QED
  BY <1>2, <1>3, <1>4, DieStep DEF WatcherInv, TypeOK

LEMMA UpdateStep ==
    ASSUME WatcherInv, Update
    PROVE  WatcherInv'
<1> DEFINE n == hdl.name
           p == hdl.pod
<1>1. n \in Names /\ p \in Pods
  BY HandType DEF Update, WatcherInv
<1>2. p.ec # None
  BY DEF Update, WatcherInv, InHand
<1>3. hdl' = Idle /\ UNCHANGED <<secret, born, cert, mode>>
  BY DEF Update
<1>4. faults' \in 0 .. MaxFaults
  BY FaultType DEF Update, WatcherInv, TypeOK
<1>5. \/ Write(n, p)
      \/ UNCHANGED <<pod, store, events>>
  BY DEF Update
<1> HIDE DEF n, p
<1>6. TypeOK'
  <2>1. /\ pod' \in [Names -> Pods \cup {None}]
        /\ store' \in [Names -> Pods \cup {None}]
        /\ events' \in Seq(Events)
    BY <1>1, <1>5, WriteType DEF WatcherInv, TypeOK
  <2> QED
    BY <1>3, <1>4, <2>1 DEF WatcherInv, TypeOK
<1>7. EnabledMeansAttached'
  <2>1. CASE Write(n, p)
    BY <1>1, <1>2, <2>1, WriteKeeps DEF Write, WatcherInv
  <2>2. CASE UNCHANGED <<pod, store, events>>
    BY <2>2 DEF WatcherInv, EnabledMeansAttached, Existing
  <2> QED
    BY <1>5, <2>1, <2>2
<1>8. InHand'
  BY <1>3 DEF InHand, Idle
<1> QED
  BY <1>6, <1>7, <1>8 DEF WatcherInv

LEMMA OnDeleteStep ==
    ASSUME WatcherInv, OnDelete
    PROVE  WatcherInv'
<1> DEFINE e == Head(events)
<1>1. e \in Events /\ Tail(events) \in Seq(Events)
  BY QueueType DEF OnDelete, WatcherInv
<1>2. UNCHANGED <<pod, born>>
  BY DEF OnDelete
<1>3. EnabledMeansAttached'
  BY <1>2 DEF WatcherInv, EnabledMeansAttached, Existing
<1>4. CASE Die /\ UNCHANGED <<secret, faults>>
  BY <1>2, <1>3, <1>4, DieStep DEF WatcherInv, TypeOK
<1>5. CASE /\ \/ secret' = [secret EXCEPT ![e.name] = None] /\ UNCHANGED faults
              \/ Fault("delete") /\ UNCHANGED secret
           /\ events' = Tail(events)
           /\ UNCHANGED <<store, hdl, cert, mode>>
  <2>1. secret' \in [Names -> Uids \cup {NoCert, None}]
    BY <1>5 DEF WatcherInv, TypeOK
  <2>2. faults' \in 0 .. MaxFaults
    BY <1>5, FaultType DEF WatcherInv, TypeOK
  <2>3. InHand'
    BY <1>5 DEF WatcherInv, InHand
  <2> HIDE DEF e
  <2>4. TypeOK'
    BY <1>1, <1>2, <1>5, <2>1, <2>2 DEF WatcherInv, TypeOK
  <2> QED
    BY <1>3, <2>3, <2>4 DEF WatcherInv
<1> QED
  BY <1>4, <1>5 DEF OnDelete

\* The process and its watch.
LEMMA ProcessStep ==
    ASSUME WatcherInv, Crash \/ Restart \/ LoseWatch \/ Relist
    PROVE  WatcherInv'
<1>1. UNCHANGED <<pod, secret, born>>
  BY DEF Crash, Restart, LoseWatch, Relist, api
<1>2. EnabledMeansAttached'
  BY <1>1 DEF WatcherInv, EnabledMeansAttached, Existing
<1>3. faults' \in 0 .. MaxFaults
  BY FaultType DEF Crash, Restart, LoseWatch, Relist, WatcherInv, TypeOK
<1>4. CASE Crash
  BY <1>1, <1>2, <1>3, <1>4, DieStep DEF Crash, WatcherInv, TypeOK
<1>5. CASE Restart \/ LoseWatch \/ Relist
  <2>1. UNCHANGED <<hdl, cert>> /\ mode' \in {"up", "deaf", "down"}
    BY <1>5 DEF Restart, LoseWatch, Relist
  <2>2. store' \in [Names -> Pods \cup {None}]
    BY <1>5 DEF Restart, LoseWatch, Relist, WatcherInv, TypeOK
  <2>3. events' \in Seq(Events)
    <3>1. CASE Restart \/ LoseWatch
      BY <3>1 DEF Restart, LoseWatch, WatcherInv, TypeOK
    <3>2. CASE Relist
      BY <3>2, RelistType DEF WatcherInv
    <3> QED
      BY <1>5, <3>1, <3>2
  <2>4. TypeOK'
    BY <1>1, <1>3, <2>1, <2>2, <2>3 DEF WatcherInv, TypeOK
  <2>5. InHand'
    BY <2>1 DEF WatcherInv, InHand
  <2> QED
    BY <1>2, <2>4, <2>5 DEF WatcherInv
<1> QED
  BY <1>4, <1>5

-----------------------------------------------------------------------------
(* Theorems *)

LEMMA WatcherInit ==
    ASSUME Init
    PROVE  WatcherInv
<1>1. TypeOK
  BY WatcherAssumption DEF Init, TypeOK
<1>2. EnabledMeansAttached
  BY DEF Init, EnabledMeansAttached, Existing
<1>3. InHand
  BY DEF Init, InHand, Idle
<1> QED
  BY <1>1, <1>2, <1>3 DEF WatcherInv

\* Every step keeps the invariant.
THEOREM WatcherInductive == Spec => []WatcherInv
<1>1. Init => WatcherInv
  BY WatcherInit
<1>2. WatcherInv /\ [Next]_vars => WatcherInv'
  <2> SUFFICES ASSUME WatcherInv, [Next]_vars
               PROVE  WatcherInv'
    OBVIOUS
  <2>1. CASE Cluster
    BY <2>1, ClusterStep
  <2>2. CASE Handler
    BY <2>2, OnUpdateStep, LoadSecretStep, PatchStep, PatchPanicsStep, UpdateStep, OnDeleteStep
       DEF Handler
  <2>3. CASE Crash \/ Restart \/ LoseWatch \/ Relist
    BY <2>3, ProcessStep
  <2>4. CASE UNCHANGED vars
    BY <2>4 DEF vars, WatcherInv, TypeOK, EnabledMeansAttached, Existing, InHand
  <2> QED
    BY <2>1, <2>2, <2>3, <2>4 DEF Next
<1> QED
  BY <1>1, <1>2, PTL DEF Spec

\* The watcher's state keeps its types, however many pods and faults there are.
THEOREM WatcherTypeCorrect == Spec => []TypeOK
<1>1. WatcherInv => TypeOK
  BY DEF WatcherInv
<1> QED
  BY <1>1, WatcherInductive, PTL

\* A pod that says "enabled" has its gateway, through any number of crashes, lost
\* watches and failed calls and whatever else is written to the pod in between.
THEOREM EnabledAlwaysAttached == Spec => []EnabledMeansAttached
<1>1. WatcherInv => EnabledMeansAttached
  BY DEF WatcherInv
<1> QED
  BY <1>1, WatcherInductive, PTL

-----------------------------------------------------------------------------
(* What a gateway was asked for, where no name comes back *)

\* What an event or the handler holds of a pod that is still there, that pod asks for.
Old(n, p) == born[n] > 0 /\ (pod[n] # None => p.want \subseteq pod[n].want)

AskedInv ==
    /\ GatewayWasAsked
    /\ \A n \in Existing : born[n] > 0
    /\ \A i \in DOMAIN events : events[i].type = "update" => Old(events[i].name, events[i].pod)
    /\ hdl.at # "idle" => Old(hdl.name, hdl.pod)

\* The environment has only what the annotations ask for.
LEMMA EnvAsked ==
    ASSUME NEW w
    PROVE  Env(w) \subseteq w
BY DEF Env

\* What is held of the pods stays old when the pods' annotations only grow, and
\* only names that were never used come up.
LEMMA OldStays ==
    ASSUME TypeOK, NEW m \in Names, NEW q, Old(m, q),
           NEW n \in Names, NEW p \in Pods \cup {None}, pod' = [pod EXCEPT ![n] = p],
           born' \in [Names -> Nat], born'[m] >= born[m],
           p # None => born[n] = 0 \/ (pod[n] # None /\ pod[n].want \subseteq p.want)
    PROVE  Old(m, q)'
<1>1. pod \in [Names -> Pods \cup {None}] /\ born \in [Names -> Nat]
  BY WatcherAssumption DEF TypeOK
<1>2. born'[m] > 0
  BY <1>1 DEF Old
<1>3. CASE m = n
  BY <1>1, <1>2, <1>3 DEF Old
<1>4. CASE m # n
  <2>1. pod'[m] = pod[m]
    BY <1>1, <1>4
  <2> QED
    BY <1>2, <2>1 DEF Old
<1> QED
  BY <1>3, <1>4

\* The elements of a queue to which elements are added.
LEMMA AppendedElements ==
    ASSUME NEW S, NEW s \in Seq(S), NEW t \in Seq(S), NEW P, \A i \in DOMAIN s : s[i] \in P, \A i \in DOMAIN t : t[i] \in P
    PROVE  \A i \in DOMAIN (s \o t) : (s \o t)[i] \in P
OBVIOUS

\* A write that adds annotations to a pod, or is the first of its name.
LEMMA AskedWrite ==
    ASSUME TypeOK, AskedInv, NEW n \in Names, NEW p \in Pods \cup {None}, Write(n, p),
           born' \in [Names -> Nat], \A m \in Names : born'[m] >= born[m],
           p # None => /\ born'[n] > 0
                       /\ born[n] = 0 \/ (pod[n] # None /\ pod[n].want \subseteq p.want)
                       /\ p.ec # None => p.ec \subseteq p.want /\ p.want \cap Triggers # {},
           hdl'.at = "idle" \/ Old(hdl.name, hdl.pod)'
    PROVE  AskedInv'
<1>1. pod' = [pod EXCEPT ![n] = p]
  BY DEF Write
<1>2. GatewayWasAsked' /\ (\A m \in Names : pod'[m] # None => born'[m] > 0)
  <2>1. /\ pod \in [Names -> Pods \cup {None}] /\ born \in [Names -> Nat]
        /\ pod'[n] = p /\ \A m \in Names \ {n} : pod'[m] = pod[m]
    BY <1>1, WatcherAssumption DEF TypeOK
  <2>2. GatewayWasAsked'
    BY <2>1 DEF AskedInv, GatewayWasAsked, Existing
  <2>3. ASSUME NEW m \in Names, pod'[m] # None PROVE born'[m] > 0
    BY <2>1, <2>3 DEF AskedInv, Existing
  <2> QED
    BY <2>2, <2>3
<1>3. \A m \in Names : \A q : Old(m, q) => Old(m, q)'
  BY <1>1, OldStays
<1> DEFINE Held == {e \in Events : e.type = "update" => Old(e.name, e.pod)'}
<1>4. \A i \in DOMAIN events : events[i] \in Held
  <2> SUFFICES ASSUME NEW i \in DOMAIN events PROVE events[i] \in Held
    OBVIOUS
  <2>1. events[i] \in Events
    BY DEF TypeOK
  <2>2. events[i].type = "update" => events[i].name \in Names /\ Old(events[i].name, events[i].pod)
    BY <2>1 DEF AskedInv, Events
  <2> QED
    BY <1>3, <2>1, <2>2
<1>5. ASSUME \A i \in DOMAIN events' : events'[i] \in Held
      PROVE  AskedInv'
  BY <1>2, <1>5 DEF AskedInv, Existing
<1>6. CASE events' = events \o Notified(n, p)
  <2>1. Notified(n, p) \in Seq(Events)
    <3>1. [type |-> "delete", name |-> n] \in Events
      BY DEF Events
    <3>2. p # None => [type |-> "update", name |-> n, pod |-> p] \in Events
      BY DEF Events
    <3> QED
      BY <3>1, <3>2 DEF Notified
  <2>2. \A i \in DOMAIN Notified(n, p) : Notified(n, p)[i] \in Held
    <3>1. CASE p = None
      BY <3>1 DEF Notified, Events
    <3>2. CASE p # None
      BY <1>1, <3>2 DEF Notified, Events, Old, TypeOK
    <3> QED
      BY <3>1, <3>2
  <2>3. \A i \in DOMAIN events' : events'[i] \in Held
    <3>1. events \in Seq(Events)
      BY DEF TypeOK
    <3> HIDE DEF Held
    <3> QED
      BY <1>4, <1>6, <2>1, <2>2, <3>1, AppendedElements
  <2> QED
    BY <1>5, <2>3
<1>7. CASE events' = events
  BY <1>4, <1>5, <1>7
<1> QED
  BY <1>6, <1>7 DEF Write

\* A step that leaves the pods alone.
LEMMA AskedFrame ==
    ASSUME AskedInv, UNCHANGED <<pod, born>>,
           \/ UNCHANGED events
           \/ events' = <<>>
           \/ events # <<>> /\ events' = Tail(events) /\ events \in Seq(Events),
           hdl'.at = "idle" \/ Old(hdl'.name, hdl'.pod)
    PROVE  AskedInv'
<1>1. \A n, p : Old(n, p)' <=> Old(n, p)
  BY DEF Old
<1>2. GatewayWasAsked' /\ (\A n \in Existing' : born'[n] > 0)
  BY DEF AskedInv, GatewayWasAsked, Existing
<1>3. \A i \in DOMAIN events' : \E j \in DOMAIN events : events'[i] = events[j]
  <2>1. CASE events # <<>> /\ events' = Tail(events) /\ events \in Seq(Events)
    BY <2>1
  <2> QED
    BY <2>1
<1>4. \A i \in DOMAIN events' : events'[i].type = "update" => Old(events'[i].name, events'[i].pod)
  BY <1>3 DEF AskedInv
<1> QED
  BY <1>1, <1>2, <1>4 DEF AskedInv

LEMMA AskedCluster ==
    ASSUME WatcherInv, AskedInv, MaxPods <= 1, Cluster
    PROVE  AskedInv'
<1>1. PICK n \in Names : \/ \E w \in Wants : Create(n, w)
                         \/ \E a \in Annots : Annotate(n, a)
                         \/ AssignIP(n) \/ Delete(n) \/ StartGateway(n)
  BY DEF Cluster
<1>2. /\ TypeOK
      /\ pod[n] \in Pods \cup {None} /\ born \in [Names -> Nat] /\ born[n] \in 0 .. MaxPods
      /\ pod[n] # None => /\ born[n] > 0
                          /\ pod[n].ec # None => pod[n].ec \subseteq pod[n].want /\ pod[n].want \cap Triggers # {}
  BY WatcherAssumption DEF WatcherInv, TypeOK, AskedInv, GatewayWasAsked, Existing
<1>3. hdl.at # "idle" => hdl.name \in Names /\ Old(hdl.name, hdl.pod)
  BY <1>2, HandType DEF AskedInv
<1>4. ASSUME NEW p \in Pods \cup {None}, Write(n, p), UNCHANGED hdl,
             born' \in [Names -> Nat], \A m \in Names : born'[m] >= born[m],
             p # None => /\ born'[n] > 0
                         /\ born[n] = 0 \/ (pod[n] # None /\ pod[n].want \subseteq p.want)
                         /\ p.ec # None => p.ec \subseteq p.want /\ p.want \cap Triggers # {}
      PROVE  AskedInv'
  <2>1. CASE hdl.at = "idle"
    BY <1>2, <1>4, <2>1, AskedWrite
  <2>2. CASE hdl.at # "idle"
    <3>1. pod' = [pod EXCEPT ![n] = p]
      BY <1>4 DEF Write
    <3>2. Old(hdl.name, hdl.pod) /\ hdl.name \in Names /\ UNCHANGED hdl
      BY <1>3, <1>4, <2>2
    <3>3. born'[hdl.name] >= born[hdl.name]
      BY <1>4, <3>2
    <3>4. (pod[n] = None \/ pod[n] # None) /\ (p # None => born[n] = 0 \/ (pod[n] # None /\ pod[n].want \subseteq p.want))
      BY <1>4
    <3>5. Old(hdl.name, hdl.pod)'
      <4> DEFINE h == hdl.name
                 q == hdl.pod
      <4>1. Old(h, q) /\ h \in Names /\ born'[h] >= born[h]
        BY <3>2, <3>3
      <4> HIDE DEF h, q
      <4>2. born'[h] > 0 /\ (pod'[h] # None => q.want \subseteq pod'[h].want)
        <5>1. pod \in [Names -> Pods \cup {None}]
          BY <1>2 DEF TypeOK
        <5>2. born'[h] > 0
          BY <1>2, <1>4, <4>1 DEF Old
        <5>3. CASE h = n
          BY <1>2, <3>1, <3>4, <4>1, <5>1, <5>2, <5>3 DEF Old
        <5>4. CASE h # n
          BY <3>1, <4>1, <5>1, <5>2, <5>4 DEF Old
        <5> QED
          BY <5>3, <5>4
      <4> QED
        BY <3>2, <4>2 DEF Old, h, q
    <3> QED
      BY <1>2, <1>4, <3>5, AskedWrite
  <2> QED
    BY <2>1, <2>2
<1>5. ASSUME NEW w \in Wants, Create(n, w)
      PROVE  AskedInv'
  <2> DEFINE p == [uid |-> <<n, born[n] + 1>>, ip |-> FALSE, want |-> w, enabled |-> FALSE,
                   ec |-> None, cert |-> None]
  <2>1. born[n] = 0 /\ born[n] + 1 \in 1 .. MaxPods
    BY <1>2, <1>5, WatcherAssumption DEF Create
  <2>2. p \in Pods /\ p.ec = None
    BY <2>1 DEF Pods, Uids, Annots
  <2>3. /\ born' \in [Names -> Nat] /\ born'[n] > 0
        /\ \A m \in Names : born'[m] >= born[m]
    BY <1>2, <1>5, <2>1 DEF Create
  <2>4. Write(n, p) /\ UNCHANGED hdl
    BY <1>5 DEF Create
  <2> HIDE DEF p
  <2> QED
    BY <1>4, <2>1, <2>2, <2>3, <2>4
<1>6. ASSUME NEW p \in Pods \cup {None}, Write(n, p), UNCHANGED <<hdl, born>>,
             p # None => pod[n] # None /\ pod[n].want \subseteq p.want /\ p.ec = pod[n].ec
      PROVE  AskedInv'
  <2>1. \A m \in Names : born'[m] >= born[m]
    BY <1>2, <1>6
  <2>2. p # None /\ p.ec # None => p.ec \subseteq p.want /\ p.want \cap Triggers # {}
    BY <1>2, <1>6
  <2> QED
    BY <1>2, <1>4, <1>6, <2>1, <2>2
<1>7. ASSUME NEW a \in Annots, Annotate(n, a)
      PROVE  AskedInv'
  <2> DEFINE p == [pod[n] EXCEPT !.want = @ \cup {a}]
  <2>1. pod[n] # None /\ p \in Pods /\ pod[n].want \subseteq p.want /\ p.ec = pod[n].ec
    BY <1>2, <1>7 DEF Annotate, Pods
  <2>2. Write(n, p) /\ UNCHANGED <<hdl, born>>
    BY <1>7 DEF Annotate
  <2> HIDE DEF p
  <2> QED
    BY <1>6, <2>1, <2>2
<1>8. CASE AssignIP(n)
  <2> DEFINE p == [pod[n] EXCEPT !.ip = TRUE]
  <2>1. pod[n] # None /\ p \in Pods /\ pod[n].want \subseteq p.want /\ p.ec = pod[n].ec
    BY <1>2, <1>8 DEF AssignIP, Pods
  <2>2. Write(n, p) /\ UNCHANGED <<hdl, born>>
    BY <1>8 DEF AssignIP
  <2> HIDE DEF p
  <2> QED
    BY <1>6, <2>1, <2>2
<1>9. CASE Delete(n)
  BY <1>6, <1>9 DEF Delete
<1>10. CASE StartGateway(n)
  <2> DEFINE p == [pod[n] EXCEPT !.cert = secret[n]]
  <2>1. secret[n] \in Uids \cup {NoCert, None}
    BY <1>2 DEF TypeOK
  <2>2. pod[n] # None /\ p \in Pods /\ pod[n].want \subseteq p.want /\ p.ec = pod[n].ec
    BY <1>2, <1>10, <2>1 DEF StartGateway, Pods
  <2>3. Write(n, p) /\ UNCHANGED <<hdl, born>>
    BY <1>10 DEF StartGateway
  <2> HIDE DEF p
  <2> QED
    BY <1>6, <2>2, <2>3
<1> QED
  BY <1>1, <1>5, <1>7, <1>8, <1>9, <1>10

\* What is in the handler's hands, by name.
LEMMA InHands ==
    ASSUME WatcherInv, AskedInv, hdl.at # "idle"
    PROVE  /\ hdl \in Handling /\ hdl.name \in Names /\ hdl.pod \in Pods
           /\ Old(hdl.name, hdl.pod)
BY HandType DEF WatcherInv, AskedInv

\* The patch gives a pod what it asks for.
LEMMA PatchedAsked ==
    ASSUME WatcherInv, AskedInv, hdl.at = "patch", Accepted(hdl.name, hdl.pod)
    PROVE  LET p == Patched(hdl.name, hdl.pod)
           IN  /\ p \in Pods /\ p.want = pod[hdl.name].want
               /\ p.ec # None => p.ec \subseteq p.want /\ p.want \cap Triggers # {}
               /\ pod[hdl.name] # None /\ born[hdl.name] > 0
<1> DEFINE n == hdl.name
           q == hdl.pod
<1>1. n \in Names /\ q \in Pods /\ Old(n, q) /\ pod[n] # None /\ q.want \cap Triggers # {}
  BY InHands DEF WatcherInv, InHand, Accepted
<1> HIDE DEF n, q
<1>2. /\ pod[n] \in Pods
      /\ q.want \subseteq pod[n].want
      /\ pod[n].ec # None => pod[n].ec \subseteq pod[n].want /\ pod[n].want \cap Triggers # {}
  BY <1>1 DEF WatcherInv, TypeOK, AskedInv, GatewayWasAsked, Existing, Old
<1>3. Env(q.want) \subseteq q.want
  BY <1>1, EnvAsked
<1>4. Patched(n, q) \in Pods
  BY <1>1, PatchedType DEF WatcherInv
<1>5. /\ Patched(n, q).want = pod[n].want
      /\ Patched(n, q).ec = IF pod[n].ec = None THEN Env(q.want) ELSE pod[n].ec
  BY <1>2 DEF Patched, Pods
<1> QED
  BY <1>1, <1>2, <1>3, <1>4, <1>5 DEF Old, n, q

LEMMA AskedPatch ==
    ASSUME WatcherInv, AskedInv, Patch
    PROVE  AskedInv'
<1> DEFINE n == hdl.name
           p == Patched(hdl.name, hdl.pod)
<1>1. /\ p \in Pods /\ p.want = pod[n].want /\ pod[n] # None /\ born[n] > 0
      /\ p.ec # None => p.ec \subseteq p.want /\ p.want \cap Triggers # {}
      /\ n \in Names /\ hdl \in Handling
  BY PatchedAsked, InHands DEF Patch
<1>2. /\ Write(n, p) /\ UNCHANGED born
      /\ hdl' = [hdl EXCEPT !.at = "update", !.pod = [p EXCEPT !.enabled = TRUE]]
  BY DEF Patch
<1>3. /\ TypeOK /\ pod \in [Names -> Pods \cup {None}]
      /\ born' \in [Names -> Nat] /\ \A m \in Names : born'[m] >= born[m]
  BY <1>2, WatcherAssumption DEF WatcherInv, TypeOK
<1> HIDE DEF p
<1>4. hdl'.name = n /\ hdl'.pod.want = p.want
  BY <1>1, <1>2 DEF Handling, Pods
<1>5. pod'[n] = p
  BY <1>1, <1>2, <1>3 DEF Write
<1>6. Old(hdl.name, hdl.pod)'
  BY <1>1, <1>2, <1>4, <1>5 DEF Old
<1> HIDE DEF n
<1> QED
  BY <1>1, <1>2, <1>3, <1>6, AskedWrite

\* Where the process ends nothing is held any more.
LEMMA AskedDie ==
    ASSUME AskedInv, Die, UNCHANGED born, GatewayWasAsked', Existing' \subseteq Existing
    PROVE  AskedInv'
BY DEF AskedInv, Die, Idle

LEMMA AskedPanics ==
    ASSUME WatcherInv, AskedInv, PatchPanics
    PROVE  AskedInv'
<1> DEFINE n == hdl.name
           p == Patched(hdl.name, hdl.pod)
<1>1. Die /\ UNCHANGED born /\ hdl.at = "patch" /\ pod \in [Names -> Pods \cup {None}]
  BY DEF PatchPanics, WatcherInv, TypeOK
<1>2. CASE UNCHANGED pod
  BY <1>1, <1>2, AskedDie DEF AskedInv, GatewayWasAsked, Existing
<1>3. CASE Accepted(n, hdl.pod) /\ pod' = [pod EXCEPT ![n] = p]
  <2>1. /\ n \in Names /\ pod[n] # None
        /\ p.ec # None => p.ec \subseteq p.want /\ p.want \cap Triggers # {}
    BY <1>1, <1>3, PatchedAsked, InHands
  <2> HIDE DEF n, p
  <2>2. pod'[n] = p /\ \A m \in Names \ {n} : pod'[m] = pod[m]
    BY <1>1, <1>3, <2>1
  <2>3. GatewayWasAsked' /\ Existing' \subseteq Existing
    BY <2>1, <2>2 DEF AskedInv, GatewayWasAsked, Existing
  <2> QED
    BY <1>1, <2>3, AskedDie
<1> QED
  BY <1>2, <1>3 DEF PatchPanics

LEMMA AskedUpdate ==
    ASSUME WatcherInv, AskedInv, Update
    PROVE  AskedInv'
<1>1. hdl'.at = "idle" /\ UNCHANGED born /\ TypeOK /\ hdl.at # "idle"
  BY DEF Update, Idle, WatcherInv
<1>2. CASE UNCHANGED <<pod, store, events, faults>> \/ (Fault("update") /\ UNCHANGED <<pod, store, events>>)
  BY <1>1, <1>2, AskedFrame
<1>3. CASE Current(hdl.name, hdl.pod) /\ Write(hdl.name, hdl.pod)
  <2> DEFINE n == hdl.name
             p == hdl.pod
  <2>1. n \in Names /\ p \in Pods /\ Write(n, p)
    BY <1>1, <1>3, InHands
  <2>2. pod[n] # None /\ p = [pod[n] EXCEPT !.enabled = TRUE]
    BY <1>3 DEF Current
  <2> HIDE DEF n, p
  <2>3. pod[n] \in Pods /\ born[n] > 0 /\ (pod[n].ec # None => pod[n].ec \subseteq pod[n].want /\ pod[n].want \cap Triggers # {})
    BY <2>1, <2>2 DEF WatcherInv, TypeOK, AskedInv, GatewayWasAsked, Existing
  <2>4. p.want = pod[n].want /\ p.ec = pod[n].ec
    BY <2>2, <2>3 DEF Pods
  <2>5. born' \in [Names -> Nat] /\ \A m \in Names : born'[m] >= born[m]
    BY <1>1, WatcherAssumption DEF TypeOK
  <2> QED
    BY <1>1, <2>1, <2>2, <2>3, <2>4, <2>5, AskedWrite
<1> QED
  BY <1>2, <1>3 DEF Update

LEMMA AskedTaken ==
    ASSUME WatcherInv, AskedInv, OnUpdate \/ OnDelete \/ LoadSecret
    PROVE  AskedInv'
<1>1. CASE OnUpdate
  <2>1. Head(events).type = "update" => Old(Head(events).name, Head(events).pod)
    BY <1>1 DEF OnUpdate, Take, AskedInv, WatcherInv, TypeOK
  <2>2. hdl'.at = "idle" \/ Old(hdl'.name, hdl'.pod)
    BY <1>1, <2>1 DEF OnUpdate, Take, Idle
  <2>3. UNCHANGED <<pod, born>> /\ events # <<>> /\ events' = Tail(events) /\ events \in Seq(Events)
    BY <1>1 DEF OnUpdate, Take, api, WatcherInv, TypeOK
  <2> QED
    BY <2>2, <2>3, AskedFrame
<1>2. CASE OnDelete
  <2>1. UNCHANGED <<pod, born>>
    BY <1>2 DEF OnDelete
  <2>2. CASE Die
    BY <2>1, <2>2, AskedDie DEF AskedInv, GatewayWasAsked, Existing
  <2>3. CASE events' = Tail(events) /\ UNCHANGED hdl
    <3>1. hdl'.at = "idle" \/ Old(hdl'.name, hdl'.pod)
      BY <2>3 DEF AskedInv
    <3>2. events # <<>> /\ events \in Seq(Events)
      BY <1>2 DEF OnDelete, Take, WatcherInv, TypeOK
    <3> QED
      BY <2>1, <2>3, <3>1, <3>2, AskedFrame
  <2> QED
    BY <1>2, <2>2, <2>3 DEF OnDelete
<1>3. CASE LoadSecret
  <2>1. hdl \in Handling /\ Old(hdl.name, hdl.pod) /\ hdl' = [hdl EXCEPT !.at = "patch"]
    BY <1>3, InHands DEF LoadSecret
  <2>2. Old(hdl'.name, hdl'.pod)
    BY <2>1 DEF Handling
  <2> QED
    BY <1>3, <2>2, AskedFrame DEF LoadSecret
<1> QED
  BY <1>1, <1>2, <1>3

\* A relisting adds the pods as they are.
LEMMA AskedRelist ==
    ASSUME WatcherInv, AskedInv, Relist
    PROVE  AskedInv'
<1> DEFINE S == UNION {Missed(n) : n \in Names}
           Held == {e \in Events : e.type = "update" => Old(e.name, e.pod)}
<1>1. UNCHANGED <<pod, born, hdl>>
  BY DEF Relist, api
<1>2. \A n \in Names : Missed(n) \subseteq Held
  <2> SUFFICES ASSUME NEW n \in Names PROVE Missed(n) \subseteq Held
    OBVIOUS
  <2>1. pod[n] # None => pod[n] \in Pods /\ born[n] > 0
    BY DEF WatcherInv, TypeOK, AskedInv, Existing
  <2> QED
    BY <2>1 DEF Missed, Events, Old
<1>3. S \subseteq Held
  BY <1>2
<1>4. PICK s \in [1 .. Cardinality(S) -> S] : events' = events \o s
  BY DEF Relist
<1>5. Cardinality(S) \in Nat
  BY MissedFinite
<1> HIDE DEF S
<1>6. s \in Seq(Events) /\ \A i \in DOMAIN s : s[i] \in Held
  <2>1. s \in Seq(S)
    BY <1>5, FunctionIsSequence
  <2> QED
    BY <1>3, <2>1
<1>7. \A i \in DOMAIN events : events[i] \in Held
  BY DEF WatcherInv, TypeOK, AskedInv
<1>8. \A i \in DOMAIN events' : events'[i] \in Held
  <2>1. events \in Seq(Events)
    BY DEF WatcherInv, TypeOK
  <2> HIDE DEF Held
  <2> QED
    BY <1>4, <1>6, <1>7, <2>1, AppendedElements
<1>9. \A n, p : Old(n, p)' <=> Old(n, p)
  BY <1>1 DEF Old
<1> QED
  BY <1>1, <1>8, <1>9 DEF AskedInv, GatewayWasAsked, Existing

LEMMA AskedProcess ==
    ASSUME WatcherInv, AskedInv, Crash \/ Restart \/ LoseWatch
    PROVE  AskedInv'
<1>1. UNCHANGED <<pod, born>>
  BY DEF Crash, Restart, LoseWatch, api
<1>2. CASE Crash
  BY <1>1, <1>2, AskedDie DEF Crash, AskedInv, GatewayWasAsked, Existing
<1>3. CASE Restart \/ LoseWatch
  <2>1. UNCHANGED <<hdl, events>>
    BY <1>3 DEF Restart, LoseWatch
  <2> QED
    BY <1>1, <2>1, AskedFrame DEF AskedInv
<1> QED
  BY <1>2, <1>3

\* Every step keeps it.
LEMMA AskedNext ==
    ASSUME MaxPods <= 1, WatcherInv, AskedInv, [Next]_vars
    PROVE  AskedInv'
<1>1. CASE Cluster
  BY <1>1, AskedCluster
<1>2. CASE Handler
  BY <1>2, AskedTaken, AskedPatch, AskedPanics, AskedUpdate DEF Handler
<1>3. CASE Crash \/ Restart \/ LoseWatch \/ Relist
  BY <1>3, AskedProcess, AskedRelist
<1>4. CASE UNCHANGED vars
  BY <1>4, AskedFrame DEF vars, AskedInv
<1> QED
  BY <1>1, <1>2, <1>3, <1>4 DEF Next

\* Where no name comes back, a gateway is there only where the pod's annotations
\* ask for one, and does nothing they do not ask for, however old the event is
\* that the handler acts on (watch.go:57, 142-199).
THEOREM GatewayAlwaysAsked == ASSUME MaxPods <= 1 PROVE Spec => []GatewayWasAsked
<1>1. Init => AskedInv
  BY DEF Init, AskedInv, GatewayWasAsked, Existing, Idle
<1>2. WatcherInv /\ AskedInv /\ [Next]_vars => AskedInv'
  BY AskedNext
<1>3. AskedInv => GatewayWasAsked
  BY DEF AskedInv
<1> QED
  BY <1>1, <1>2, <1>3, WatcherInductive, PTL DEF Spec

-----------------------------------------------------------------------------
(* Whose certificate a gateway has, where no name comes back *)

\* The only pod that has the name n.
First(n) == <<n, 1>>

\* A pod that asks for encryption where it asks for a gateway.
Plain(p) == "blank" \notin p.want

\* A pod of that name, started with its own certificate if at all.
Mine(n, p) == p.uid = First(n) /\ (Plain(p) => p.cert \in {None, First(n)})

\* The secret of a pod that is there was made for it.
SecretsMine ==
    \A n \in Names : /\ born[n] = 0 => secret[n] = None
                     /\ pod[n] # None /\ Plain(pod[n]) => secret[n] \in {None, First(n)}

Queued == {e \in Events : e.type = "update" => Mine(e.name, e.pod)}

\* Between making the certificate and creating the secret the handler is alone
\* with the certificate of the pod in hand.
CertInv ==
    /\ \A n \in Existing : Mine(n, pod[n])
    /\ SecretsMine
    /\ events \in Seq(Queued)
    /\ hdl.at # "idle" => Mine(hdl.name, hdl.pod)
    /\ hdl.at = "secret" /\ Plain(hdl.pod) => cert = First(hdl.name)

\* Encryption is the only thing that a gateway is asked for.
EncryptOnly == MaxPods <= 1 /\ Annots \cap Triggers \subseteq {"encrypt", "blank"}

\* What the handler holds after a step is a pod with its own certificate.
Held ==
    /\ hdl.at # "idle" => Mine(hdl.name, hdl.pod)
    /\ hdl.at = "secret" /\ Plain(hdl.pod) => cert = First(hdl.name)

\* The secrets stay good for their pods when annotations are added, and new pods
\* have names that were never used.
LEMMA SecretsWrite ==
    ASSUME TypeOK, SecretsMine, NEW n \in Names, NEW p \in Pods \cup {None},
           pod' = [pod EXCEPT ![n] = p], UNCHANGED secret,
           born' \in [Names -> Nat], \A m \in Names : born'[m] >= born[m],
           p # None => born[n] = 0 \/ (pod[n] # None /\ pod[n].want \subseteq p.want)
    PROVE  SecretsMine'
<1>1. pod \in [Names -> Pods \cup {None}] /\ born \in [Names -> Nat]
  BY WatcherAssumption DEF TypeOK
<1>2. SUFFICES ASSUME NEW m \in Names
      PROVE  /\ born'[m] = 0 => secret[m] = None
             /\ pod'[m] # None /\ Plain(pod'[m]) => secret[m] \in {None, First(m)}
  BY DEF SecretsMine, Plain, First
<1>3. born'[m] = 0 => secret[m] = None
  BY <1>1 DEF SecretsMine
<1>4. CASE m = n
  BY <1>1, <1>3, <1>4 DEF SecretsMine, Plain
<1>5. CASE m # n
  BY <1>1, <1>3, <1>5 DEF SecretsMine
<1> QED
  BY <1>4, <1>5

\* A write of a pod that has its own certificate.
LEMMA MineWrite ==
    ASSUME TypeOK, CertInv, NEW n \in Names, NEW p \in Pods \cup {None}, Write(n, p),
           p # None => Mine(n, p), SecretsMine', Held'
    PROVE  CertInv'
<1>1. pod' = [pod EXCEPT ![n] = p] /\ pod \in [Names -> Pods \cup {None}]
  BY DEF Write, TypeOK
<1>2. \A m \in Existing' : Mine(m, pod'[m])
  BY <1>1 DEF CertInv, Existing
<1>3. Notified(n, p) \in Seq(Queued)
  <2>1. p = None => [type |-> "delete", name |-> n] \in Queued
    BY DEF Queued, Events
  <2>2. p # None => [type |-> "update", name |-> n, pod |-> p] \in Queued
    BY DEF Queued, Events
  <2> QED
    BY <2>1, <2>2 DEF Notified
<1>4. events' \in Seq(Queued)
  <2>1. events \in Seq(Queued)
    BY DEF CertInv
  <2>2. events \o Notified(n, p) \in Seq(Queued)
    BY <2>1, <1>3, Appended
  <2> QED
    BY <2>1, <2>2 DEF Write
<1> QED
  BY <1>2, <1>4 DEF CertInv, Held

\* A step that leaves the pods alone and queues nothing.
LEMMA MineFrame ==
    ASSUME CertInv, UNCHANGED pod, SecretsMine', events' \in Seq(Queued), Held'
    PROVE  CertInv'
BY DEF CertInv, Held, Existing

\* The queue without its head, or emptied.
LEMMA MineQueue ==
    ASSUME CertInv
    PROVE  /\ <<>> \in Seq(Queued)
           /\ events # <<>> => Head(events) \in Queued /\ Tail(events) \in Seq(Queued)
BY DEF CertInv

LEMMA MineCluster ==
    ASSUME WatcherInv, CertInv, EncryptOnly, Cluster
    PROVE  CertInv'
<1>1. PICK n \in Names : \/ \E w \in Wants : Create(n, w)
                         \/ \E a \in Annots : Annotate(n, a)
                         \/ AssignIP(n) \/ Delete(n) \/ StartGateway(n)
  BY DEF Cluster
<1>2. /\ TypeOK /\ Held /\ born \in [Names -> Nat]
      /\ pod[n] # None => pod[n] \in Pods /\ Mine(n, pod[n])
  BY WatcherAssumption DEF WatcherInv, TypeOK, CertInv, Existing, Held
<1>3. ASSUME NEW p \in Pods \cup {None}, Write(n, p), UNCHANGED <<secret, hdl, cert>>,
             p # None => Mine(n, p),
             born' \in [Names -> Nat], \A m \in Names : born'[m] >= born[m],
             p # None => born[n] = 0 \/ (pod[n] # None /\ pod[n].want \subseteq p.want)
      PROVE  CertInv'
  <2>1. Held'
    BY <1>2, <1>3 DEF Held
  <2>2. SecretsMine'
    BY <1>2, <1>3, SecretsWrite DEF Write, CertInv
  <2> QED
    BY <1>2, <1>3, <2>1, <2>2, MineWrite
<1>4. ASSUME NEW w \in Wants, Create(n, w)
      PROVE  CertInv'
  <2> DEFINE p == [uid |-> <<n, born[n] + 1>>, ip |-> FALSE, want |-> w, enabled |-> FALSE,
                   ec |-> None, cert |-> None]
  <2>1. born[n] = 0 /\ born[n] + 1 \in 1 .. MaxPods
    BY <1>2, <1>4, WatcherAssumption DEF Create, EncryptOnly, TypeOK
  <2>2. p \in Pods /\ Mine(n, p)
    BY <2>1 DEF Pods, Uids, Annots, Mine, First
  <2>3. Write(n, p) /\ UNCHANGED <<secret, hdl, cert>>
    BY <1>4 DEF Create
  <2>4. born' \in [Names -> Nat] /\ \A m \in Names : born'[m] >= born[m]
    BY <1>2, <1>4, <2>1 DEF Create
  <2> HIDE DEF p
  <2> QED
    BY <1>3, <2>1, <2>2, <2>3, <2>4
<1>10. ASSUME NEW p \in Pods \cup {None}, Write(n, p), UNCHANGED <<secret, born, hdl, cert>>,
             p # None => Mine(n, p) /\ pod[n] # None /\ pod[n].want \subseteq p.want
      PROVE  CertInv'
  <2>1. born' \in [Names -> Nat] /\ \A m \in Names : born'[m] >= born[m]
    BY <1>2, <1>10
  <2> QED
    BY <1>3, <1>10, <2>1
<1>5. ASSUME NEW a \in Annots, Annotate(n, a)
      PROVE  CertInv'
  <2> DEFINE p == [pod[n] EXCEPT !.want = @ \cup {a}]
  <2>1. p \in Pods /\ Mine(n, p) /\ pod[n] # None /\ pod[n].want \subseteq p.want
    BY <1>2, <1>5 DEF Annotate, Pods, Mine, Plain
  <2>2. Write(n, p) /\ UNCHANGED <<secret, born, hdl, cert>>
    BY <1>5 DEF Annotate
  <2> HIDE DEF p
  <2> QED
    BY <1>10, <2>1, <2>2
<1>6. CASE AssignIP(n)
  <2> DEFINE p == [pod[n] EXCEPT !.ip = TRUE]
  <2>1. p \in Pods /\ Mine(n, p) /\ pod[n] # None /\ pod[n].want \subseteq p.want
    BY <1>2, <1>6 DEF AssignIP, Pods, Mine, Plain
  <2>2. Write(n, p) /\ UNCHANGED <<secret, born, hdl, cert>>
    BY <1>6 DEF AssignIP
  <2> HIDE DEF p
  <2> QED
    BY <1>10, <2>1, <2>2
<1>7. CASE Delete(n)
  BY <1>10, <1>7 DEF Delete
<1>8. CASE StartGateway(n)
  <2> DEFINE p == [pod[n] EXCEPT !.cert = secret[n]]
  <2>1. /\ secret[n] \in Uids \cup {NoCert, None} /\ pod[n] # None
        /\ Plain(pod[n]) => secret[n] \in {None, First(n)}
    BY <1>8 DEF CertInv, SecretsMine, WatcherInv, TypeOK, StartGateway
  <2>2. p \in Pods /\ Mine(n, p) /\ pod[n].want \subseteq p.want
    BY <1>2, <2>1 DEF Pods, Mine, Plain
  <2>3. Write(n, p) /\ UNCHANGED <<secret, born, hdl, cert>>
    BY <1>8 DEF StartGateway
  <2> HIDE DEF p
  <2> QED
    BY <1>10, <2>1, <2>2, <2>3
<1> QED
  BY <1>1, <1>4, <1>5, <1>6, <1>7, <1>8

\* What is in the secrets does not change its meaning while the pods do not change.
LEMMA SecretsFrame ==
    ASSUME SecretsMine, UNCHANGED <<pod, born, secret>>
    PROVE  SecretsMine'
BY DEF SecretsMine

\* Where something is to be done encryption is asked for, and so the certificate
\* is made for this pod.
LEMMA MineOnUpdate ==
    ASSUME WatcherInv, CertInv, EncryptOnly, OnUpdate
    PROVE  CertInv'
<1> DEFINE e == Head(events)
<1>1. e \in Queued /\ events' \in Seq(Queued)
  BY MineQueue DEF OnUpdate, Take
<1>2. e.type = "update" /\ UNCHANGED <<pod, secret, born>>
  BY DEF OnUpdate, api
<1>3. e.pod \in Pods /\ Mine(e.name, e.pod)
  BY <1>1, <1>2 DEF Queued, Events
<1>4. Held'
  <2>1. CASE Needed(e.pod)
    <3>1. cert' = Certificate(e.pod) /\ hdl' = [at |-> "secret", name |-> e.name, pod |-> e.pod]
      BY <2>1 DEF OnUpdate
    <3> HIDE DEF e
    <3>2. Plain(e.pod) => "encrypt" \in e.pod.want
      BY <1>3, <2>1 DEF Needed, EncryptOnly, Pods, Plain
    <3> QED
      BY <1>3, <3>1, <3>2 DEF Held, Certificate, Mine
  <2>2. CASE ~Needed(e.pod)
    <3>1. UNCHANGED <<cert, hdl>>
      BY <2>2 DEF OnUpdate
    <3> QED
      BY <3>1 DEF Held, CertInv
  <2> QED
    BY <2>1, <2>2
<1>5. SecretsMine'
  BY <1>2, SecretsFrame DEF CertInv
<1> QED
  BY <1>1, <1>2, <1>4, <1>5, MineFrame

\* A pod that the secret is created for asks for no more than the pod that is there.
LEMMA MineLoadSecret ==
    ASSUME WatcherInv, AskedInv, CertInv, LoadSecret
    PROVE  CertInv'
<1>1. /\ hdl \in Handling /\ hdl.name \in Names /\ hdl.at = "secret"
      /\ Plain(hdl.pod) => cert = First(hdl.name)
      /\ Old(hdl.name, hdl.pod)
  BY HandType DEF LoadSecret, WatcherInv, AskedInv, CertInv
<1>2. SecretsMine'
  <2>1. SecretsMine /\ UNCHANGED <<pod, born>>
    BY DEF CertInv, LoadSecret
  <2>2. CASE UNCHANGED secret
    BY <2>1, <2>2, SecretsFrame
  <2>3. CASE secret' = [secret EXCEPT ![hdl.name] = IF @ = None THEN cert ELSE @]
    <3> DEFINE n == hdl.name
    <3>1. /\ secret \in [Names -> Uids \cup {NoCert, None}]
          /\ born \in [Names -> Nat]
      BY WatcherAssumption DEF WatcherInv, TypeOK
    <3>2. n \in Names /\ born[n] # 0 /\ (pod[n] # None /\ Plain(pod[n]) => cert = First(n))
      BY <1>1, <3>1 DEF Old, Plain
    <3>3. secret' = [secret EXCEPT ![n] = IF @ = None THEN cert ELSE @]
      BY <2>3
    <3> HIDE DEF n
    <3> QED
      BY <2>1, <3>1, <3>2, <3>3 DEF SecretsMine
  <2> QED
    BY <2>2, <2>3 DEF LoadSecret
<1>3. hdl' = [hdl EXCEPT !.at = "patch"]
  BY DEF LoadSecret
<1>4. hdl'.at = "patch" /\ hdl'.name = hdl.name /\ hdl'.pod = hdl.pod
  BY <1>1, <1>3 DEF Handling
<1>5. Held'
  BY <1>1, <1>4 DEF Held, CertInv
<1>6. UNCHANGED pod /\ events' \in Seq(Queued)
  BY DEF LoadSecret, CertInv
<1> QED
  BY <1>2, <1>5, <1>6, MineFrame

\* The patch touches neither the identity of a pod nor its certificate.
LEMMA PatchedMine ==
    ASSUME WatcherInv, CertInv, hdl.at = "patch", Accepted(hdl.name, hdl.pod)
    PROVE  LET p == Patched(hdl.name, hdl.pod)
           IN  /\ hdl.name \in Names /\ p \in Pods /\ Mine(hdl.name, p)
               /\ pod[hdl.name] # None /\ p.want = pod[hdl.name].want
<1> DEFINE n == hdl.name
           q == hdl.pod
<1>1. n \in Names /\ q \in Pods /\ pod[n] # None
  BY HandType DEF WatcherInv, Accepted
<1> HIDE DEF n, q
<1>2. pod[n] \in Pods /\ Mine(n, pod[n])
  BY <1>1 DEF WatcherInv, TypeOK, CertInv, Existing
<1>3. Patched(n, q) \in Pods
  BY <1>1, PatchedType DEF WatcherInv
<1>4. Mine(n, Patched(n, q)) /\ Patched(n, q).want = pod[n].want
  BY <1>2 DEF Patched, Pods, Mine, Plain
<1> QED
  BY <1>1, <1>3, <1>4 DEF n, q

LEMMA MinePatch ==
    ASSUME WatcherInv, CertInv, Patch
    PROVE  CertInv'
<1> DEFINE n == hdl.name
           p == Patched(hdl.name, hdl.pod)
<1>1. /\ n \in Names /\ p \in Pods /\ Mine(n, p) /\ hdl \in Handling
      /\ pod[n] # None /\ p.want = pod[n].want
  BY PatchedMine, HandType DEF Patch, WatcherInv
<1>2. /\ Write(n, p) /\ UNCHANGED <<secret, born>>
      /\ hdl' = [hdl EXCEPT !.at = "update", !.pod = [p EXCEPT !.enabled = TRUE]]
  BY DEF Patch
<1> HIDE DEF p
<1>3. /\ hdl'.at = "update" /\ hdl'.name = n
      /\ hdl'.pod.uid = p.uid /\ hdl'.pod.cert = p.cert /\ hdl'.pod.want = p.want
  BY <1>1, <1>2 DEF Handling, Pods
<1>4. Held'
  BY <1>1, <1>3 DEF Held, Mine, Plain
<1> HIDE DEF n
<1>5. SecretsMine'
  <2>1. born' \in [Names -> Nat] /\ \A m \in Names : born'[m] >= born[m]
    BY <1>2, WatcherAssumption DEF WatcherInv, TypeOK
  <2> QED
    BY <1>1, <1>2, <2>1, SecretsWrite DEF Write, CertInv, WatcherInv
<1> QED
  BY <1>1, <1>2, <1>4, <1>5, MineWrite DEF WatcherInv

\* Where the process ends nothing is queued or held any more.
LEMMA MineDie ==
    ASSUME CertInv, Die, \A n \in Existing' : Mine(n, pod'[n]), SecretsMine'
    PROVE  CertInv'
<1>1. events' \in Seq(Queued) /\ hdl'.at = "idle"
  BY MineQueue DEF Die, Idle
<1> QED
  BY <1>1 DEF CertInv

LEMMA MinePanics ==
    ASSUME WatcherInv, CertInv, PatchPanics
    PROVE  CertInv'
<1> DEFINE n == hdl.name
           p == Patched(hdl.name, hdl.pod)
<1>1. /\ Die /\ hdl.at = "patch" /\ pod \in [Names -> Pods \cup {None}]
      /\ UNCHANGED <<secret, born>> /\ SecretsMine /\ TypeOK
  BY DEF PatchPanics, WatcherInv, TypeOK, CertInv
<1>2. CASE UNCHANGED pod
  BY <1>1, <1>2, MineDie, SecretsFrame DEF CertInv, Existing
<1>3. CASE Accepted(n, hdl.pod) /\ pod' = [pod EXCEPT ![n] = p]
  <2>1. n \in Names /\ Mine(n, p) /\ p \in Pods /\ pod[n] # None /\ p.want = pod[n].want
    BY <1>1, <1>3, PatchedMine
  <2> HIDE DEF n, p
  <2>2. \A m \in Existing' : Mine(m, pod'[m])
    BY <1>1, <1>3, <2>1 DEF CertInv, Existing
  <2>3. born' \in [Names -> Nat] /\ \A m \in Names : born'[m] >= born[m]
    BY <1>1, WatcherAssumption DEF TypeOK
  <2>4. SecretsMine'
    BY <1>1, <1>3, <2>1, <2>3, SecretsWrite
  <2> QED
    BY <1>1, <2>2, <2>4, MineDie
<1> QED
  BY <1>2, <1>3 DEF PatchPanics

LEMMA MineUpdate ==
    ASSUME WatcherInv, CertInv, Update
    PROVE  CertInv'
<1>1. hdl'.at = "idle" /\ UNCHANGED <<secret, born>> /\ hdl.at # "idle"
  BY DEF Update, Idle
<1>2. Held'
  BY <1>1 DEF Held
<1>3. CASE UNCHANGED <<pod, events>>
  BY <1>1, <1>2, <1>3, MineFrame, SecretsFrame DEF CertInv
<1>4. CASE Current(hdl.name, hdl.pod) /\ Write(hdl.name, hdl.pod)
  <2> DEFINE n == hdl.name
             p == hdl.pod
  <2>1. n \in Names /\ p \in Pods /\ Mine(n, p) /\ Write(n, p)
    BY <1>1, <1>4, HandType DEF WatcherInv, CertInv
  <2>2. pod[n] # None /\ p = [pod[n] EXCEPT !.enabled = TRUE]
    BY <1>4 DEF Current
  <2> HIDE DEF n, p
  <2>3. p.want = pod[n].want
    BY <2>1, <2>2 DEF WatcherInv, TypeOK, Pods
  <2>4. born' \in [Names -> Nat] /\ \A m \in Names : born'[m] >= born[m]
    BY <1>1, WatcherAssumption DEF WatcherInv, TypeOK
  <2>5. SecretsMine'
    BY <1>1, <2>1, <2>2, <2>3, <2>4, SecretsWrite DEF Write, CertInv, WatcherInv
  <2> QED
    BY <1>2, <2>1, <2>5, MineWrite DEF WatcherInv
<1> QED
  BY <1>3, <1>4 DEF Update

LEMMA MineOnDelete ==
    ASSUME WatcherInv, CertInv, OnDelete
    PROVE  CertInv'
<1>1. UNCHANGED <<pod, born>> /\ \A n \in Existing : Mine(n, pod[n])
  BY DEF OnDelete, CertInv
<1>2. SecretsMine'
  <2>1. SecretsMine
    BY DEF CertInv
  <2>2. secret \in [Names -> Uids \cup {NoCert, None}]
    BY DEF WatcherInv, TypeOK
  <2>3. UNCHANGED secret \/ \E m : secret' = [secret EXCEPT ![m] = None]
    BY DEF OnDelete
  <2> QED
    BY <1>1, <2>1, <2>2, <2>3 DEF SecretsMine
<1>3. CASE Die
  BY <1>1, <1>2, <1>3, MineDie DEF Existing
<1>4. CASE events' = Tail(events) /\ UNCHANGED <<hdl, cert>>
  <2>1. events' \in Seq(Queued)
    BY <1>4, MineQueue DEF OnDelete, Take
  <2>2. Held'
    BY <1>4 DEF Held, CertInv
  <2> QED
    BY <1>1, <1>2, <2>1, <2>2, MineFrame
<1> QED
  BY <1>3, <1>4 DEF OnDelete

\* A relisting adds the pods as they are.
LEMMA MineRelist ==
    ASSUME WatcherInv, CertInv, Relist
    PROVE  CertInv'
<1> DEFINE S == UNION {Missed(n) : n \in Names}
<1>1. UNCHANGED <<pod, secret, born, hdl, cert>>
  BY DEF Relist, api
<1>2. S \subseteq Queued
  <2> SUFFICES ASSUME NEW n \in Names PROVE Missed(n) \subseteq Queued
    OBVIOUS
  <2>1. pod[n] # None => pod[n] \in Pods /\ Mine(n, pod[n])
    BY DEF WatcherInv, TypeOK, CertInv, Existing
  <2> QED
    BY <2>1 DEF Missed, Events, Queued
<1>3. PICK s \in [1 .. Cardinality(S) -> S] : events' = events \o s
  BY DEF Relist
<1>4. Cardinality(S) \in Nat
  BY MissedFinite
<1> HIDE DEF S
<1>5. s \in Seq(Queued)
  <2>1. s \in [1 .. Cardinality(S) -> Queued]
    BY <1>2
  <2> QED
    BY <1>4, <2>1, FunctionIsSequence
<1>6. events' \in Seq(Queued)
  BY <1>3, <1>5, Appended DEF CertInv
<1>7. Held' /\ SecretsMine'
  BY <1>1, SecretsFrame DEF Held, CertInv
<1> QED
  BY <1>1, <1>6, <1>7, MineFrame

LEMMA MineProcess ==
    ASSUME WatcherInv, CertInv, Crash \/ Restart \/ LoseWatch
    PROVE  CertInv'
<1>1. UNCHANGED <<pod, secret, born>>
  BY DEF Crash, Restart, LoseWatch, api
<1>2. CASE Crash
  BY <1>1, <1>2, MineDie, SecretsFrame DEF Crash, CertInv, Existing
<1>3. CASE Restart \/ LoseWatch
  <2>1. UNCHANGED <<hdl, events, cert>>
    BY <1>3 DEF Restart, LoseWatch
  <2> QED
    BY <1>1, <2>1, SecretsFrame DEF CertInv, Existing
<1> QED
  BY <1>2, <1>3

\* Where encryption is all that is asked for, and no name comes back, a gateway is
\* started with the certificate of its own pod, though all pods share the one
\* certificate that the process holds (certs.go:21-29, watch.go:57-102), and though
\* other pods have annotations without a value and get whatever it holds.
THEOREM CertificateAlwaysOwn == ASSUME EncryptOnly PROVE Spec => []OwnCertificate
<1>1. Init => AskedInv /\ CertInv
  <2> SUFFICES ASSUME Init PROVE AskedInv /\ CertInv
    OBVIOUS
  <2>1. AskedInv
    BY DEF Init, AskedInv, GatewayWasAsked, Existing, Idle
  <2>2. CertInv
    BY DEF Init, CertInv, SecretsMine, Existing, Idle
  <2> QED
    BY <2>1, <2>2
<1>2. WatcherInv /\ AskedInv /\ CertInv /\ [Next]_vars => AskedInv' /\ CertInv'
  <2> SUFFICES ASSUME WatcherInv, AskedInv, CertInv, [Next]_vars
               PROVE  AskedInv' /\ CertInv'
    OBVIOUS
  <2>1. AskedInv'
    BY AskedNext DEF EncryptOnly
  <2>2. CASE Cluster
    BY <2>1, <2>2, MineCluster
  <2>3. CASE Handler
    BY <2>1, <2>3, MineOnUpdate, MineLoadSecret, MinePatch, MinePanics, MineUpdate, MineOnDelete DEF Handler
  <2>4. CASE Crash \/ Restart \/ LoseWatch \/ Relist
    BY <2>1, <2>4, MineProcess, MineRelist
  <2>5. CASE UNCHANGED vars
    BY <2>1, <2>5, SecretsFrame DEF vars, CertInv, Existing
  <2> QED
    BY <2>1, <2>2, <2>3, <2>4, <2>5 DEF Next
<1>3. CertInv => OwnCertificate
  BY DEF CertInv, OwnCertificate, Mine, Plain
<1> QED
  BY <1>1, <1>2, <1>3, WatcherInductive, PTL DEF Spec
=============================================================================
