-------------------------- MODULE RedirectionProofs --------------------------
(***************************************************************************)
(* Which connections the data plane redirects, and that it implements      *)
(* Redirection: theorems about Mirrors for every value of its constants.   *)
(***************************************************************************)
EXTENDS MirrorsProofs, Counting

-----------------------------------------------------------------------------
(* What a gateway was told, and when *)

\* A gateway has a destination for the connections it was answered about, and
\* has only seen connections that were established.
Told ==
    \A c \in Cookies :
        /\ IF gw[c] = "answered" THEN target[c] \in Destination ELSE target[c] = None
        /\ gw[c] # "none" => sock[c].st \in {"open", "closed", "aborted"}

\* No step but connect() changes who opened a connection, to where, and who
\* redirected it.
Steady(c) ==
    /\ sock'[c].proc = sock[c].proc /\ sock'[c].dst = sock[c].dst /\ sock'[c].by = sock[c].by
    /\ (sock'[c].st = "unused") <=> (sock[c].st = "unused")

\* The steps of the connections alone: everything but connect().
LEMMA SteadyStep ==
  ASSUME TypeOK, Next,
         ~ \E c \in Cookies, p \in Procs, d \in Destination, port \in Ports : Connect(p, d, port, c)
  PROVE  \A k \in Cookies : Steady(k)
<1>1. CASE UNCHANGED sock
  BY <1>1 DEF Steady
<1>2. ASSUME NEW c \in Cookies, NEW st \in {"open", "refused", "closed", "aborted"},
             sock[c].st # "unused", sock' = [sock EXCEPT ![c].st = st]
      PROVE  \A k \in Cookies : Steady(k)
  BY <1>2, MoveConn DEF Steady
<1>3. ASSUME NEW g \in Gateways, Exit(g) PROVE \A k \in Cookies : Steady(k)
  <2>. TAKE k \in Cookies
  <2>1. CASE sock'[k] = sock[k]
    BY <2>1 DEF Steady
  <2>2. CASE sock[k].st # "unused" /\ sock'[k] = [sock[k] EXCEPT !.st = "closed"]
    BY <2>2 DEF Steady, TypeOK, SockOK
  <2>. QED
    BY <1>3, <2>1, <2>2 DEF Exit
<1>4. ASSUME NEW c \in Cookies, Answer(c) PROVE \A k \in Cookies : Steady(k)
  <2>1. CASE sock' = [sock EXCEPT ![c].st = IF @ = "open" THEN "closed" ELSE @]
    <3>1. CASE sock[c].st = "open"
      BY <1>2, <2>1, <3>1
    <3>2. CASE sock[c].st # "open"
      BY <1>1, <2>1, <3>2 DEF TypeOK, SockOK
    <3>. QED
      BY <3>1, <3>2
  <2>. QED
    BY <1>1, <1>4, <2>1 DEF Answer
<1>5. ASSUME NEW c \in Cookies, Establish(c) \/ Refuse(c) \/ Close(c) \/ Abort(c)
      PROVE  \A k \in Cookies : Steady(k)
  <2>1. sock[c].st # "unused"
    BY <1>5 DEF Establish, Refuse, Close, Abort
  <2>. QED
    BY <1>2, <1>5, <2>1 DEF Establish, Refuse, Close, Abort
<1>. QED
  BY <1>1, <1>3, <1>4, <1>5 DEF Next, Spawn, Load, Startup, Attach, Listen, connVars

LEMMA ToldStep == TypeOK /\ Told /\ [Next]_vars => Told'
<1>. SUFFICES ASSUME TypeOK, Told, [Next]_vars PROVE Told'
  OBVIOUS
<1>1. CASE UNCHANGED connVars
  BY <1>1 DEF connVars, Told
<1>2. ASSUME NEW g \in Gateways, Exit(g) PROVE Told'
  BY <1>2 DEF Exit, Told, TypeOK, SockOK
<1>3. ASSUME NEW c \in Cookies, NEW p \in Procs, NEW d \in Destination, NEW port \in Ports,
             Connect(p, d, port, c)
      PROVE  Told'
  BY <1>3 DEF Connect, Begin, Told, TypeOK, SockOK
<1>4. ASSUME NEW c \in Cookies, Establish(c) PROVE Told'
  BY <1>4 DEF Establish, Told, TypeOK, SockOK
<1>5. ASSUME NEW c \in Cookies, Refuse(c) \/ Close(c) \/ Abort(c) PROVE Told'
  BY <1>5 DEF Refuse, Close, Abort, Told, TypeOK, SockOK
<1>6. ASSUME NEW c \in Cookies, Answer(c) PROVE Told'
  <2>1. ASSUME NEW g \in Gateways, Answers(g, c) PROVE OriginalDst(g, c) \in Destination
    BY <2>1 DEF Answers, Knows, OriginalDst, TypeOK, PartialMap
  <2>. QED
    BY <1>6, <2>1, DestinationFacts DEF Answer, Told, TypeOK, SockOK
<1>. QED
  BY <1>1, <1>2, <1>3, <1>4, <1>5, <1>6
  DEF Next, Spawn, Load, Startup, Attach, Listen, vars

-----------------------------------------------------------------------------
(* Pods that share the node: any number of gateways *)

\* Where a gateway's pid occurs in the namespace of another, it is that one's pid
\* too, as it is in the pods of one deployment.  Nothing is said of other pids.
GatewayPidsApart ==
    \A g, h \in Gateways, p \in Procs :
        Info[p].ns = Info[Main[h]].ns /\ Info[p].pid = Info[Main[g]].pid
            => Info[p].pid = Info[Main[h]].pid

\* An AI gateway dials what it is told, so the kernel must not name the proxy to it.
KernelIsSilent == Mode = "ai" => Tracking \cap Gateways = {}

Apart == GatewayPidsApart /\ KernelIsSilent

\* The pids a gateway looks for are those of processes of its own namespace.
PidsOwn ==
    \A g \in Gateways : \A i \in map_pids[g] :
        \E q \in Procs : Info[q].ns = Info[Main[g]].ns /\ Info[q].pid = i

\* A redirected connection is no gateway's.
OwnApplication ==
    \A c \in Cookies : Captured(c) =>
        /\ sock[c].st # "unused"
        /\ \A g \in Gateways : sock[c].proc # Main[g]

\* What AI gateways are told is an address in the cluster.
ClusterOnly ==
    Mode = "ai" =>
      /\ \A g \in Gateways : \A k \in DOMAIN map_socks[g] : map_socks[g][k].addr \in PodCidr
      /\ \A c \in Cookies : gw[c] = "answered" /\ PodOf(c) \in Gateways => target[c].addr \in PodCidr

ApartInv == TypeOK /\ Told /\ PidsOwn /\ OwnApplication /\ ClusterOnly /\ NoSelfProxy

\* No gateway dials a proxy, whatever it was told.
LEMMA NoProxyDialled ==
  ASSUME ApartInv, NEW g \in Gateways, NEW d \in Dials(g)
  PROVE  d # Proxy
<1>1. ASSUME NEW c \in Cookies, gw[c] = "answered", PodOf(c) = g
      PROVE  Forward(target[c]) # Proxy
  <2>1. target[c] \in Destination
    BY <1>1 DEF ApartInv, Told
  <2>2. CASE Mode \in {"copy", "tls"}
    BY <2>2 DEF Forward, Proxy, ProxyPort, ClusterPort, ClusterTLSPort
  <2>3. CASE Mode = "ai"
    BY <1>1, <2>3, PodsAssumption DEF ApartInv, ClusterOnly, Forward, Proxy
  <2>. QED
    BY <2>2, <2>3, KernelAssumption
<1>2. ASSUME d.addr = g PROVE d # Proxy
  BY <1>2, PodsAssumption DEF Proxy
<1>. QED
  BY <1>1, <1>2 DEF Dials

\* A program redirects no gateway: the pid of one that it looks for is its own.
LEMMA CapturesOwn ==
  ASSUME Apart, ApartInv, NEW g \in Gateways, NEW p \in Procs, NEW d, Captures(g, p, d)
  PROVE  d.addr \in PodCidr /\ \A h \in Gateways : p # Main[h]
<1>1. Info[p].pid \in map_pids[g] /\ ~IsMe(g, p) /\ d.addr \in PodCidr
  BY DEF Captures
<1>2. PICK q \in Procs : Info[q].ns = Info[Main[g]].ns /\ Info[q].pid = Info[p].pid
  BY <1>1 DEF ApartInv, PidsOwn
<1>3. ASSUME NEW h \in Gateways, p = Main[h] PROVE FALSE
  <2>1. Info[q].pid = Info[Main[g]].pid
    BY <1>2, <1>3 DEF Apart, GatewayPidsApart
  <2>. QED
    BY <1>1, <1>2, <2>1 DEF IsMe
<1>. QED
  BY <1>1, <1>3

\* connect(): the one step that redirects.
LEMMA ApartConnect ==
  ASSUME Apart, ApartInv, NEW c \in Cookies, NEW p \in Procs, NEW d \in Destination,
         NEW port \in Ports, Connect(p, d, port, c)
  PROVE  OwnApplication' /\ ClusterOnly' /\ NoSelfProxy'
<1>1. UNCHANGED <<map_pids, gw, target>> /\ sock[c].st = "unused"
  BY DEF Connect, Begin, gatewayVars
<1>2. PICK by \in Gateways \cup {None} :
        /\ \A k \in Cookies \ {c} : sock'[k] = sock[k]
        /\ sock'[c] = [st |-> "connecting", proc |-> p, dst |-> d, by |-> by, port |-> port]
        /\ IF by = None THEN UNCHANGED map_socks
           ELSE Captures(by, p, d) /\ map_socks' = [map_socks EXCEPT ![by] = Update(@, Key(c), d)]
  BY PodsAssumption DEF Connect, Begin, Redirects, ApartInv, TypeOK, SockOK
<1>3. by # None => d.addr \in PodCidr /\ \A h \in Gateways : p # Main[h]
  BY <1>2, CapturesOwn
<1>4. OwnApplication'
  BY <1>2, <1>3 DEF ApartInv, OwnApplication, Captured, PodOf
<1>5. NoSelfProxy'
  <2>. SUFFICES ASSUME NEW g \in Gateways, p = Main[g] PROVE ~Proxied(c)'
    BY <1>2 DEF ApartInv, NoSelfProxy, Proxied, Remote, Captured
  <2>1. by = None
    BY <1>3
  <2>2. d \in Dials(g)
    BY ProcsAssumption DEF Connect, MayConnect
  <2>. QED
    BY <1>2, <2>1, <2>2, NoProxyDialled DEF Proxied, Remote, Captured
<1>6. ASSUME Mode = "ai", NEW g \in Gateways, NEW k \in DOMAIN map_socks'[g]
      PROVE  map_socks'[g][k].addr \in PodCidr
  <2>1. \/ map_socks'[g] = map_socks[g]
        \/ by # None /\ map_socks'[g] = Update(map_socks[g], Key(c), d)
    <3>1. map_socks \in [Gateways -> PartialMap(Keys, Destination)]
      BY DEF ApartInv, TypeOK
    <3>2. CASE by = None
      BY <1>2, <3>2
    <3>3. CASE by # None
      <4>1. map_socks' = [map_socks EXCEPT ![by] = Update(@, Key(c), d)]
        BY <1>2, <3>3
      <4>. QED
        BY <3>1, <3>3, <4>1
    <3>. QED
      BY <3>2, <3>3
  <2>. QED
    BY <1>3, <1>6, <2>1 DEF ApartInv, ClusterOnly, Update
<1>7. ASSUME Mode = "ai", NEW k \in Cookies, gw'[k] = "answered", PodOf(k)' \in Gateways
      PROVE  target'[k].addr \in PodCidr
  <2>1. k # c
    BY <1>1, <1>7 DEF ApartInv, Told
  <2>. QED
    BY <1>1, <1>2, <1>7, <2>1 DEF ApartInv, ClusterOnly, PodOf
<1>. QED
  BY <1>4, <1>5, <1>6, <1>7 DEF ClusterOnly

\* Any other step leaves the connections to whom they were.
LEMMA ApartOther ==
  ASSUME Apart, ApartInv, Next,
         ~ \E c \in Cookies, p \in Procs, d \in Destination, port \in Ports : Connect(p, d, port, c)
  PROVE  OwnApplication' /\ ClusterOnly' /\ NoSelfProxy'
<1>1. \A k \in Cookies : Steady(k)
  BY SteadyStep DEF ApartInv
<1>2. OwnApplication' /\ NoSelfProxy'
  BY <1>1 DEF ApartInv, OwnApplication, NoSelfProxy, Steady, Proxied, Remote, Captured, PodOf
<1>3. UNCHANGED map_socks
  BY DEF Next, Spawn, Load, Startup, Attach, Listen, Exit, Establish, Refuse, Answer, Close, Abort, mapVars
<1>4. ASSUME Mode = "ai", NEW k \in Cookies, gw'[k] = "answered", PodOf(k)' \in Gateways
      PROVE  target'[k].addr \in PodCidr
  <2>1. PodOf(k) \in Gateways
    BY <1>1, <1>4 DEF Steady, PodOf
  <2>2. CASE gw[k] = "answered" /\ target'[k] = target[k]
    BY <1>4, <2>1, <2>2 DEF ApartInv, ClusterOnly
  <2>3. CASE Answer(k)
    <3>1. ASSUME NEW g \in Gateways, Answers(g, k) PROVE OriginalDst(g, k).addr \in PodCidr
      BY <1>4, <3>1 DEF Answers, Knows, OriginalDst, ApartInv, ClusterOnly
    <3>2. PodOf(k) \notin Tracking
      BY <1>4, <2>1 DEF Apart, KernelIsSilent
    <3>. QED
      BY <1>4, <2>3, <3>1, <3>2 DEF Answer, ApartInv, TypeOK
  <2>. QED
    BY <1>4, <2>2, <2>3 DEF Next, Spawn, Load, Startup, Attach, Listen, Exit, Establish, Refuse,
       Answer, Close, Abort, connVars, ApartInv, TypeOK
<1>. QED
  BY <1>2, <1>3, <1>4 DEF ClusterOnly, ApartInv

LEMMA PidsStep == ApartInv /\ [Next]_vars => PidsOwn'
<1>. SUFFICES ASSUME ApartInv, [Next]_vars PROVE PidsOwn'
  OBVIOUS
<1>1. CASE UNCHANGED map_pids
  BY <1>1 DEF ApartInv, PidsOwn
<1>2. ASSUME NEW g \in Gateways, Load(g) PROVE PidsOwn'
  <2>1. alive' \subseteq Procs
    BY <1>2, ProcsAssumption DEF Load, ApartInv, TypeOK
  <2>2. map_pids' = [map_pids EXCEPT ![g] =
                       {Info[p].pid : p \in {q \in alive' : Info[q].ns = Info[Main[g]].ns}}]
    BY <1>2 DEF Load
  <2>. QED
    BY <2>1, <2>2 DEF ApartInv, TypeOK, PidsOwn
<1>. QED
  BY <1>1, <1>2 DEF Next, Spawn, Startup, Attach, Listen, Exit, Connect, Establish, Refuse,
     Answer, Close, Abort, gatewayVars, vars

LEMMA ApartInductive == ASSUME Apart PROVE Spec => []ApartInv
<1>1. Init => ApartInv
  <2>. SUFFICES ASSUME Init PROVE ApartInv
    OBVIOUS
  <2>1. \A c \in Cookies : sock[c].st = "unused" /\ ~Captured(c) /\ gw[c] = "none" /\ target[c] = None
    BY DEF Init, Captured
  <2>. QED
    BY <2>1, InitType DEF Init, ApartInv, Told, PidsOwn, OwnApplication, ClusterOnly, NoSelfProxy,
       EmptyMap, Proxied
<1>2. ApartInv /\ [Next]_vars => ApartInv'
  <2>. SUFFICES ASSUME ApartInv, [Next]_vars PROVE ApartInv'
    OBVIOUS
  <2>1. TypeOK' /\ Told' /\ PidsOwn'
    BY StepType, ToldStep, PidsStep DEF ApartInv
  <2>2. OwnApplication' /\ ClusterOnly' /\ NoSelfProxy'
    <3>1. CASE UNCHANGED vars
      BY <3>1 DEF vars, mapVars, connVars, ApartInv, OwnApplication, ClusterOnly, NoSelfProxy,
         Proxied, Remote, Captured, PodOf
    <3>. QED
      BY <3>1, ApartConnect, ApartOther
  <2>. QED
    BY <2>1, <2>2 DEF ApartInv
<1>. QED
  BY <1>1, <1>2, PTL DEF Spec

\* Where the gateways' pids do not meet those of other processes, no gateway - of any
\* number on the node - is redirected or dials to a proxy (mirrors.c:60-84,
\* connection.go:94-186), though the other pids are the same in all pods, programs
\* redirect each other's applications, maps overflow and the kernel answers.
THEOREM NoSelfProxyAlways == ASSUME Apart PROVE Spec => []NoSelfProxy
<1>1. ApartInv => NoSelfProxy
  BY DEF ApartInv
<1>. QED
  BY <1>1, ApartInductive, PTL

-----------------------------------------------------------------------------
(* Nothing gets past the gateway: any number of gateways *)

\* Every process of a gateway's namespace runs before the gateway does, which takes
\* one snapshot (main.go); pids are unique in a namespace; and applications connect
\* to none of the ports that cg_connect4 leaves alone.
NoLateProcess ==
    \A g \in Gateways, p \in Procs :
        Info[p].ns = Info[Main[g]].ns => p = Main[g] \/ p \in InitProcs
PidsUnique ==
    \A p, q \in Procs : Info[p].ns = Info[q].ns /\ Info[p].pid = Info[q].pid => p = q
PortsHandled ==
    \A d \in Dests : d.addr \in PodCidr => d.port \notin {8080, 8181, ProxyPort, ClusterPort}

Settled == NoLateProcess /\ PidsUnique /\ PortsHandled

\* The processes of the start stay, every snapshot holds those of its namespace, and
\* the program that says it is attached is.
SnapshotHolds ==
    /\ InitProcs \subseteq alive
    /\ \A g \in Gateways : phase[g] \notin {"absent", "exited"} =>
         \A p \in InitProcs : Info[p].ns = Info[Main[g]].ns => Info[p].pid \in map_pids[g]

AttachedRuns ==
    \A g \in Gateways : Runs(g, "connect4") =>
        \E i \in DOMAIN attached["connect4"] : attached["connect4"][i] = g

CaptureInv == TypeOK /\ SnapshotHolds /\ AttachedRuns

LEMMA CaptureStep == CaptureInv /\ [Next]_vars => CaptureInv'
<1>. SUFFICES ASSUME CaptureInv, [Next]_vars PROVE CaptureInv'
  OBVIOUS
<1>. USE DEF CaptureInv
<1>0. TypeOK'
  BY StepType
<1>1. CASE UNCHANGED gatewayVars /\ alive \subseteq alive'
  BY <1>0, <1>1 DEF gatewayVars, SnapshotHolds, AttachedRuns, Runs
<1>2. ASSUME NEW g \in Gateways, Load(g) PROVE CaptureInv'
  <2>1. /\ alive' = alive \cup {Main[g]} /\ UNCHANGED attached
        /\ phase' = [phase EXCEPT ![g] = "loaded"]
        /\ map_pids' = [map_pids EXCEPT ![g] =
                          {Info[p].pid : p \in {q \in alive' : Info[q].ns = Info[Main[g]].ns}}]
    BY <1>2 DEF Load
  <2>2. SnapshotHolds'
    BY <2>1 DEF SnapshotHolds, TypeOK
  <2>3. AttachedRuns'
    BY <2>1 DEF AttachedRuns, Runs, TypeOK
  <2>. QED
    BY <1>0, <2>2, <2>3
<1>3. ASSUME NEW g \in Gateways, NEW h \in Hooks, Attach(g, h) PROVE CaptureInv'
  <2>1. /\ UNCHANGED <<alive, map_pids>>
        /\ phase[g] = Previous(h) /\ phase' = [phase EXCEPT ![g] = h]
        /\ attached' = [attached EXCEPT ![h] = Append(@, g)]
    BY <1>3 DEF Attach
  <2>2. SnapshotHolds'
    BY <2>1 DEF SnapshotHolds, TypeOK, Previous, Hooks
  <2>3. AttachedRuns'
    <3>. DEFINE s == attached["connect4"]
    <3>1. s \in Seq(Gateways)
      BY DEF TypeOK, Hooks
    <3>2. attached'["connect4"] = IF h = "connect4" THEN Append(s, g) ELSE s
      BY <2>1 DEF TypeOK, Hooks
    <3>3. \A k \in Gateways : Runs(k, "connect4")' => Runs(k, "connect4") \/ (k = g /\ h = "connect4")
      BY <2>1 DEF TypeOK, Runs, Previous, Hooks
    <3>4. \A i \in DOMAIN s : i \in DOMAIN Append(s, g) /\ Append(s, g)[i] = s[i]
      BY <3>1
    <3>5. Len(s) + 1 \in DOMAIN Append(s, g) /\ Append(s, g)[Len(s) + 1] = g
      BY <3>1
    <3>. HIDE DEF s
    <3>. QED
      BY <3>2, <3>3, <3>4, <3>5 DEF AttachedRuns, s
  <2>. QED
    BY <1>0, <2>2, <2>3
<1>4. ASSUME NEW g \in Gateways, Listen(g) PROVE CaptureInv'
  BY <1>0, <1>4 DEF Listen, ListenAfter, SnapshotHolds, AttachedRuns, Runs, TypeOK
<1>5. ASSUME NEW g \in Gateways, Exit(g) PROVE CaptureInv'
  <2>1. /\ UNCHANGED <<attached, map_pids>> /\ alive' = alive \ {Main[g]}
        /\ phase' = [phase EXCEPT ![g] = "exited"]
    BY <1>5 DEF Exit
  <2>2. SnapshotHolds'
    BY <2>1, ProcsAssumption DEF SnapshotHolds, TypeOK
  <2>3. AttachedRuns'
    BY <2>1 DEF AttachedRuns, Runs, TypeOK
  <2>. QED
    BY <1>0, <2>2, <2>3
<1>. QED
  BY <1>1, <1>2, <1>3, <1>4, <1>5
  DEF Next, Spawn, Startup, Connect, Establish, Refuse, Answer, Close, Abort, vars

LEMMA CaptureInductive == Spec => []CaptureInv
<1>1. Init => CaptureInv
  BY InitType DEF Init, CaptureInv, SnapshotHolds, AttachedRuns, Runs
<1>. QED
  BY <1>1, CaptureStep, PTL DEF Spec

\* If any attached program would redirect a connection, one does: the first.
LEMMA SomeoneRedirects ==
  ASSUME TypeOK, NEW p, NEW d, NEW i \in DOMAIN attached["connect4"],
         Captures(attached["connect4"][i], p, d)
  PROVE  \E g \in Gateways : Redirects(g, p, d)
<1>. DEFINE s == attached["connect4"]
            Wants(j) == Captures(s[j], p, d)
            T == {m \in 0 .. Len(s) : \A j \in 1 .. m : ~Wants(j)}
<1>1. s \in Seq(Gateways)
  BY DEF TypeOK, Hooks
<1>. SUFFICES ASSUME \A g \in Gateways : ~Redirects(g, p, d) PROVE FALSE
  OBVIOUS
<1>2. \A j \in 1 .. Len(s) : Wants(j) => \E m \in 1 .. j - 1 : Wants(m)
  BY <1>1 DEF Redirects
<1>3. ASSUME NEW m \in T, m < Len(s) PROVE m + 1 \in T
  <2>. HIDE DEF Wants, s
  <2>. QED
    BY <1>1, <1>2, <1>3
<1>4. Len(s) \in T
  <2>1. Len(s) \in Nat /\ 0 \in T /\ T \in SUBSET (0 .. Len(s))
    BY <1>1
  <2>. HIDE DEF T, s
  <2>. QED
    BY <1>3, <2>1, CountUp
<1>. QED
  BY <1>1, <1>4

\* Where no process is forked late, a gateway that is listening is passed by no
\* process of its application that connects into the cluster (mirrors.c:18-110),
\* however many other gateways' programs run before or after its own.
THEOREM AllAlwaysCaptured == ASSUME Settled PROVE Spec => AllCaptured
<1>. DEFINE Handled ==
       \A c \in Cookies :
         /\ sock[c].st = "unused" /\ sock'[c].st = "connecting"
         /\ sock'[c].dst.addr \in PodCidr
         /\ \E g \in Gateways : /\ phase[g] = "listening" /\ sock'[c].proc # Main[g]
                                /\ Info[sock'[c].proc].ns = Info[Main[g]].ns
         => Captured(c)'
<1>1. CaptureInv /\ [Next]_vars => [Handled]_vars
  <2>. SUFFICES ASSUME CaptureInv, Next, NEW c \in Cookies, NEW g \in Gateways,
                       sock[c].st = "unused", sock'[c].st = "connecting",
                       sock'[c].dst.addr \in PodCidr, phase[g] = "listening",
                       sock'[c].proc # Main[g], Info[sock'[c].proc].ns = Info[Main[g]].ns
                PROVE  Captured(c)'
    OBVIOUS
  <2>1. PICK k \in Cookies, p \in Procs, d \in Destination, port \in Ports : Connect(p, d, port, k)
    BY SteadyStep DEF CaptureInv, Steady
  <2>2. /\ k = c
        /\ \E by \in Gateways \cup {None} :
             sock'[c] = [st |-> "connecting", proc |-> p, dst |-> d, by |-> by, port |-> port]
    BY <2>1, PodsAssumption DEF Connect, Begin, CaptureInv, TypeOK, SockOK
  <2>3. p \in InitProcs /\ d.addr \in PodCidr /\ p # Main[g] /\ Info[p].ns = Info[Main[g]].ns
    BY <2>2 DEF Settled, NoLateProcess
  <2>4. d \in Dests
    BY <2>1, <2>3, ProcsAssumption DEF Connect, MayConnect
  <2>5. Captures(g, p, d)
    <3>1. Runs(g, "connect4")
      BY DEF Runs
    <3>2. Info[p].pid \in map_pids[g]
      BY <2>3 DEF CaptureInv, SnapshotHolds
    <3>3. ~IsMe(g, p)
      BY <2>3, ProcsAssumption DEF IsMe, Settled, PidsUnique
    <3>. QED
      BY <2>3, <2>4, <3>1, <3>2, <3>3 DEF Captures, Settled, PortsHandled
  <2>6. \E h \in Gateways : Redirects(h, p, d)
    BY <2>5, SomeoneRedirects DEF CaptureInv, AttachedRuns, Captures
  <2>7. PICK h \in Gateways : sock' = [sock EXCEPT ![c] = [st |-> "connecting", proc |-> p, dst |-> d,
                                                          by |-> h, port |-> port]]
    BY <2>1, <2>2, <2>6 DEF Connect, Begin
  <2>. QED
    BY <2>7, PodsAssumption DEF Captured, CaptureInv, TypeOK, SockOK
<1>. QED
  BY <1>1, CaptureInductive, PTL DEF Spec, AllCaptured

-----------------------------------------------------------------------------
(* The data plane implements Redirection *)

LEMMA DestinationsAreSome == None \notin Destination
<1>0. ProxyPort \in PortNumber /\ ClusterPort \in PortNumber /\ ClusterTLSPort \in PortNumber
  BY DEF ProxyPort, ClusterPort, ClusterTLSPort, PortNumber
<1>1. Proxy \in Address
  BY <1>0, PodsAssumption DEF Proxy, Address
<1>2. ASSUME NEW d \in Address PROVE Forward(d) \in Address
  <2>1. ASSUME NEW n \in PortNumber PROVE [d EXCEPT !.port = n] \in Address
    BY Zenon DEF Address
  <2>2. CASE Mode = "copy"
    <3>1. Forward(d) = [d EXCEPT !.port = ClusterPort]
      BY <2>2 DEF Forward
    <3>. QED
      BY <1>0, <2>1, <3>1
  <2>3. CASE Mode = "tls"
    <3>1. Forward(d) = [d EXCEPT !.port = ClusterTLSPort]
      BY <2>3 DEF Forward
    <3>. QED
      BY <1>0, <2>1, <3>1
  <2>4. CASE Mode = "ai"
    BY <2>4 DEF Forward
  <2>. QED
    BY <2>2, <2>3, <2>4, KernelAssumption
<1>3. Destination \subseteq Address
  BY <1>1, <1>2, PodsAssumption DEF Destination
<1>. QED
  BY <1>3, PodsAssumption

RefInv == IInv /\ Told

LEMMA RefInductive == ASSUME Scope PROVE Spec => []RefInv
<1>1. Init => RefInv
  BY InitInv DEF Init, RefInv, Told
<1>2. RefInv /\ [Next]_vars => RefInv'
  BY StepInv, ToldStep DEF RefInv, IInv
<1>. QED
  BY <1>1, <1>2, PTL DEF Spec

\* A connection that has ended without an answer.
Ended(c) == sock[c].st \in {"refused", "aborted"} \/ gw[c] = "dropped"

\* A step that redirects and answers nothing may only end connections that were
\* not answered.
Ends(c) ==
    /\ Captured(c)' <=> Captured(c)
    /\ sock'[c].dst = sock[c].dst
    /\ target'[c] = target[c]
    /\ Ended(c) => Ended(c)'
    /\ sock[c].st = "aborted" => sock'[c].st = "aborted"
    /\ Ended(c)' => Ended(c) \/ gw[c] # "answered"
    /\ sock'[c].st = "aborted" => sock[c].st = "aborted" \/ gw[c] # "answered"

LEMMA EndsAreLosses == ASSUME RefInv, \A c \in Cookies : Ends(c) PROVE Transparent!Lose
<1>. DEFINE L == {c \in Cookies : Captured(c) /\ Ended(c)' /\ ~Ended(c)}
            W == [c \in Cookies |-> IF Captured(c) THEN sock[c].dst ELSE None]
            T == [c \in Cookies |-> IF Captured(c) /\ sock[c].st # "aborted" THEN target[c] ELSE None]
            O == {c \in Cookies : Captured(c) /\ Ended(c)}
<1>1. W' = W
  BY DEF Ends
<1>2. T' = T
  <2>. SUFFICES ASSUME NEW c \in Cookies PROVE T'[c] = T[c]
    OBVIOUS
  <2>. QED
    BY DEF Ends, RefInv, Told
<1>3. O' = O \cup L
  BY DEF Ends
<1>4. L \in SUBSET {c \in Cookies : W[c] # None /\ T[c] = None}
  BY DestinationsAreSome DEF Ends, RefInv, IInv, Told, TypeOK, SockOK, Captured
<1>. QED
  BY <1>1, <1>2, <1>3, <1>4 DEF Transparent!Lose, Ended

\* connect() is the question, if it is redirected.
LEMMA ConnectAsks ==
  ASSUME RefInv, NEW c \in Cookies, NEW p \in Procs, NEW d \in Destination, NEW port \in Ports,
         Connect(p, d, port, c)
  PROVE  Transparent!Capture(c, d) \/ Transparent!Lose
<1>1. UNCHANGED <<gw, target>> /\ sock[c].st = "unused" /\ gw[c] = "none" /\ ~Captured(c)
  BY DEF Connect, Begin, RefInv, IInv, TypeOK, SockOK, Told
<1>2. PICK by \in Gateways \cup {None} :
        sock' = [sock EXCEPT ![c] = [st |-> "connecting", proc |-> p, dst |-> d, by |-> by, port |-> port]]
  BY DEF Connect, Begin
<1>3. /\ \A k \in Cookies \ {c} : sock'[k] = sock[k]
      /\ sock'[c] = [st |-> "connecting", proc |-> p, dst |-> d, by |-> by, port |-> port]
  BY <1>2 DEF RefInv, IInv, TypeOK, SockOK
<1>4. CASE by = None
  <2>1. \A k \in Cookies : k # c => Ends(k)
    BY <1>1, <1>3 DEF Ends, Ended, Captured
  <2>. DEFINE W == [k \in Cookies |-> IF Captured(k) THEN sock[k].dst ELSE None]
              T == [k \in Cookies |-> IF Captured(k) /\ sock[k].st # "aborted" THEN target[k] ELSE None]
              O == {k \in Cookies : Captured(k) /\ Ended(k)}
  <2>2. W' = W /\ T' = T /\ O' = O
    BY <1>1, <1>3, <1>4 DEF Captured, Ended
  <2>3. O' = O \cup {} /\ {} \in SUBSET {k \in Cookies : W[k] # None /\ T[k] = None}
    BY <2>2
  <2>. QED
    BY <2>2, <2>3 DEF Transparent!Lose, Ended
<1>5. CASE by # None
  <2>. DEFINE W == [k \in Cookies |-> IF Captured(k) THEN sock[k].dst ELSE None]
              T == [k \in Cookies |-> IF Captured(k) /\ sock[k].st # "aborted" THEN target[k] ELSE None]
              O == {k \in Cookies : Captured(k) /\ Ended(k)}
  <2>1. W' = [W EXCEPT ![c] = d] /\ W[c] = None
    <3>1. \A k \in Cookies : k # c => (Captured(k)' <=> Captured(k))
      BY <1>3 DEF Captured
    <3>2. Captured(c)' /\ sock'[c].dst = d
      BY <1>3, <1>5 DEF Captured
    <3>. QED
      BY <1>1, <1>3, <3>1, <3>2
  <2>2. T' = T
    <3>1. target[c] = None
      BY <1>1 DEF RefInv, Told
    <3>. QED
      BY <1>1, <1>3, <3>1 DEF Captured
  <2>3. O' = O
    BY <1>1, <1>3 DEF Captured, Ended
  <2>. QED
    BY <2>1, <2>2, <2>3 DEF Transparent!Capture, Ended
<1>. QED
  BY <1>4, <1>5

\* findTargetFromConnection is the answer, if the connection is still there.
LEMMA AnswerTells ==
  ASSUME Scope, RefInv, NEW c \in Cookies, Answer(c)
  PROVE  Transparent!Tell(c) \/ Transparent!Lose
<1>1. gw[c] = "queued" /\ target[c] = None /\ sock[c].st \in {"open", "closed", "aborted"}
  BY DEF Answer, RefInv, Told
<1>2. CASE Captured(c) /\ sock[c].st # "aborted"
  <2>1. /\ UNCHANGED sock
        /\ gw' = [gw EXCEPT ![c] = "answered"]
        /\ target' = [target EXCEPT ![c] = sock[c].dst]
    BY <1>1, <1>2, AnswerKnown DEF Answer, RefInv
  <2>. DEFINE W == [k \in Cookies |-> IF Captured(k) THEN sock[k].dst ELSE None]
              T == [k \in Cookies |-> IF Captured(k) /\ sock[k].st # "aborted" THEN target[k] ELSE None]
              O == {k \in Cookies : Captured(k) /\ Ended(k)}
  <2>2. \A k \in Cookies : Captured(k)' <=> Captured(k)
    BY <2>1 DEF Captured
  <2>3. W' = W /\ W[c] # None
    BY <1>2, <2>1, <2>2, DestinationsAreSome DEF RefInv, IInv, TypeOK, SockOK, Captured
  <2>4. T[c] = None /\ T' = [T EXCEPT ![c] = W[c]]
    BY <1>1, <1>2, <2>1, <2>2 DEF RefInv, IInv, TypeOK
  <2>5. O' = O /\ c \notin O
    BY <1>1, <1>2, <2>1, <2>2 DEF Ended, RefInv, IInv, TypeOK
  <2>. QED
    BY <2>3, <2>4, <2>5 DEF Transparent!Tell, Ended
<1>3. CASE ~(Captured(c) /\ sock[c].st # "aborted")
  <2>. DEFINE W == [k \in Cookies |-> IF Captured(k) THEN sock[k].dst ELSE None]
              T == [k \in Cookies |-> IF Captured(k) /\ sock[k].st # "aborted" THEN target[k] ELSE None]
              O == {k \in Cookies : Captured(k) /\ Ended(k)}
  <2>1. /\ \A k \in Cookies \ {c} : sock'[k] = sock[k] /\ gw'[k] = gw[k] /\ target'[k] = target[k]
        /\ sock'[c].by = sock[c].by /\ sock'[c].dst = sock[c].dst
        /\ sock'[c].st = "aborted" <=> sock[c].st = "aborted"
    BY <1>1 DEF Answer, RefInv, IInv, TypeOK, SockOK
  <2>2. \A k \in Cookies : Captured(k)' <=> Captured(k)
    BY <2>1 DEF Captured
  <2>3. W' = W /\ T' = T
    BY <1>3, <2>1, <2>2
  <2>4. O' = O
    BY <1>1, <1>3, <2>1, <2>2 DEF Ended
  <2>5. O' = O \cup {} /\ {} \in SUBSET {k \in Cookies : W[k] # None /\ T[k] = None}
    BY <2>4
  <2>. QED
    BY <2>3, <2>5 DEF Transparent!Lose, Ended
<1>. QED
  BY <1>2, <1>3

LEMMA StepRefines ==
  ASSUME Scope, RefInv, [Next]_vars
  PROVE  [Transparent!Next]_(Transparent!vars)
<1>. USE DEF Ends, Ended, RefInv, IInv, Told
<1>1. CASE UNCHANGED connVars
  <2>1. \A k \in Cookies : Ends(k)
    BY <1>1 DEF connVars, Captured
  <2>. QED
    BY <2>1, EndsAreLosses DEF Transparent!Next
<1>2. ASSUME NEW g \in Gateways, Exit(g) PROVE Transparent!Next
  <2>1. \A k \in Cookies : Ends(k)
    <3>. TAKE k \in Cookies
    <3>1. /\ sock'[k] = sock[k] \/ (sock'[k] = [sock[k] EXCEPT !.st = "closed"] /\ sock[k].st \in {"open", "connecting"})
          /\ target' = target
          /\ gw'[k] = gw[k] \/ (gw[k] = "queued" /\ gw'[k] = "dropped")
      BY <1>2 DEF Exit
    <3>. QED
      BY <3>1 DEF TypeOK, SockOK, Captured
  <2>. QED
    BY <2>1, EndsAreLosses DEF Transparent!Next
<1>3. ASSUME NEW c \in Cookies, NEW p \in Procs, NEW d \in Destination, NEW port \in Ports,
             Connect(p, d, port, c)
      PROVE  Transparent!Next
  BY <1>3, ConnectAsks DEF Transparent!Next
<1>4. ASSUME NEW c \in Cookies, Answer(c) PROVE Transparent!Next
  BY <1>4, AnswerTells DEF Transparent!Next
<1>5. ASSUME NEW c \in Cookies, Establish(c) \/ Refuse(c) \/ Close(c) \/ Abort(c)
      PROVE  Transparent!Next
  <2>1. /\ UNCHANGED target
        /\ \A k \in Cookies \ {c} : sock'[k] = sock[k] /\ gw'[k] = gw[k]
        /\ sock'[c].by = sock[c].by /\ sock'[c].dst = sock[c].dst
        /\ gw[c] # "answered" \/ (sock[c].st = "open" /\ sock'[c].st = "closed" /\ gw'[c] = gw[c])
        /\ sock[c].st \in {"connecting", "open"}
        /\ gw[c] = "dropped" => gw'[c] = "dropped"
    BY <1>5 DEF Establish, Refuse, Close, Abort, TypeOK, SockOK
  <2>2. \A k \in Cookies : Ends(k)
    BY <2>1 DEF Captured
  <2>. QED
    BY <2>2, EndsAreLosses DEF Transparent!Next
<1>. QED
  BY <1>1, <1>2, <1>3, <1>4, <1>5 DEF Next, Spawn, Load, Startup, Attach, Listen, vars

\* Under Scope the three programs, the two maps and the gateway's question come to
\* what Redirection says: each redirected connection is a question that is answered
\* once, with its own destination, or lost (mirrors.c, utils.go).
THEOREM ImplementsRedirection == ASSUME Scope PROVE Spec => RedirectionSpec
<1>1. Init => Transparent!Init
  <2>1. Init => \A c \in Cookies : ~Captured(c)
    BY DEF Init, Captured
  <2>. QED
    BY <2>1 DEF Transparent!Init
<1>2. RefInv /\ [Next]_vars => [Transparent!Next]_(Transparent!vars)
  BY StepRefines
<1>. QED
  BY <1>1, <1>2, RefInductive, PTL DEF Spec, RedirectionSpec, Transparent!Spec

-----------------------------------------------------------------------------
(* RightTarget, for several gateways on the node *)

OwnScope == KeysDistinct /\ RoomForAll

LEMMA QueuedConnect ==
  ASSUME TypeOK, QueuedAtListener, NEW c \in Cookies, NEW p \in Procs, NEW d \in Destination,
         NEW port \in Ports, Connect(p, d, port, c)
  PROVE  QueuedAtListener'
<1>1. UNCHANGED <<phase, gw>> /\ sock[c].st = "unused" /\ gw[c] = "none"
  BY DEF Connect, Begin, gatewayVars, TypeOK, QueuedAtListener
<1>2. \A k \in Cookies \ {c} : sock'[k] = sock[k]
  BY DEF Connect, Begin, TypeOK, SockOK
<1>. QED
  BY <1>1, <1>2 DEF QueuedAtListener, Proxied, Remote, Captured, Listening, PodOf

LEMMA QueuedStep == TypeOK /\ QueuedAtListener /\ [Next]_vars => QueuedAtListener'
<1>. SUFFICES ASSUME TypeOK, QueuedAtListener, [Next]_vars PROVE QueuedAtListener'
  OBVIOUS
<1>1. ASSUME NEW c \in Cookies, NEW p \in Procs, NEW d \in Destination, NEW port \in Ports,
             Connect(p, d, port, c)
      PROVE  QueuedAtListener'
  BY <1>1, QueuedConnect
<1>2. CASE UNCHANGED vars
  BY <1>2 DEF vars, gatewayVars, connVars, QueuedAtListener, Proxied, Remote, Captured, Listening, PodOf
<1>3. ASSUME Next,
             ~ \E c \in Cookies, p \in Procs, d \in Destination, port \in Ports : Connect(p, d, port, c)
      PROVE  QueuedAtListener'
  <2>1. \A k \in Cookies : PodOf(k)' = PodOf(k) /\ (Proxied(k)' <=> Proxied(k))
    BY <1>3, SteadyStep DEF Steady, PodOf, Proxied, Remote, Captured
  <2>2. ASSUME NEW g \in Gateways, Load(g) \/ Startup(g) PROVE QueuedAtListener'
    <3>1. UNCHANGED connVars /\ phase[g] # "listening" /\ \A h \in Gateways \ {g} : phase'[h] = phase[h]
      BY <2>2 DEF Load, Startup, Attach, Listen, ListenAfter, Previous, Hooks, TypeOK
    <3>. QED
      BY <2>1, <3>1 DEF connVars, QueuedAtListener, Listening
  <2>3. ASSUME NEW g \in Gateways, Exit(g) PROVE QueuedAtListener'
    <3>1. \A k \in Cookies : \/ sock'[k].st = sock[k].st
                             \/ sock[k].st \in {"connecting", "open"} /\ sock'[k].st = "closed"
      <4>. TAKE k \in Cookies
      <4>1. CASE sock'[k] = sock[k]
        BY <4>1
      <4>2. CASE sock[k].st \in {"connecting", "open"} /\ sock'[k] = [sock[k] EXCEPT !.st = "closed"]
        BY <4>2 DEF TypeOK, SockOK
      <4>. QED
        BY <2>3, <4>1, <4>2 DEF Exit
    <3>2. /\ \A h \in Gateways \ {g} : phase'[h] = phase[h]
          /\ gw' = [k \in Cookies |-> IF gw[k] = "queued" /\ PodOf(k) = g THEN "dropped" ELSE gw[k]]
      BY <2>3 DEF Exit, TypeOK
    <3>. QED
      BY <2>1, <3>1, <3>2 DEF QueuedAtListener, Listening
  <2>4. ASSUME NEW c \in Cookies, Establish(c) PROVE QueuedAtListener'
    BY <2>1, <2>4 DEF Establish, gatewayVars, TypeOK, SockOK, QueuedAtListener, Listening
  <2>5. ASSUME NEW c \in Cookies, Refuse(c) \/ Close(c) \/ Abort(c) PROVE QueuedAtListener'
    BY <2>1, <2>5 DEF Refuse, Close, Abort, gatewayVars, TypeOK, SockOK, QueuedAtListener, Listening
  <2>6. ASSUME NEW c \in Cookies, Answer(c) PROVE QueuedAtListener'
    <3>1. /\ UNCHANGED phase /\ gw'[c] # "queued"
          /\ \A k \in Cookies \ {c} : gw'[k] = gw[k] /\ sock'[k] = sock[k]
          /\ sock'[c].st \in {"open", "closed", "aborted"}
      BY <2>6 DEF Answer, gatewayVars, TypeOK, SockOK, QueuedAtListener
    <3>. QED
      BY <2>1, <3>1 DEF QueuedAtListener, Listening
  <2>7. ASSUME NEW p \in Procs, Spawn(p) PROVE QueuedAtListener'
    BY <2>1, <2>7 DEF Spawn, gatewayVars, connVars, QueuedAtListener, Listening
  <2>. QED
    BY <1>3, <2>2, <2>3, <2>4, <2>5, <2>6, <2>7 DEF Next
<1>. QED
  BY <1>1, <1>2, <1>3

\* The program of a gateway that was attached last is followed by none of its own.
LEMMA OwnAnswersStep == TypeOK /\ OwnAnswers /\ [Next]_vars => OwnAnswers'
<1>. SUFFICES ASSUME TypeOK, OwnAnswers, [Next]_vars PROVE OwnAnswers'
  OBVIOUS
<1>. DEFINE s == attached["sockopt"]
<1>1. CASE UNCHANGED <<phase, attached>>
  BY <1>1 DEF OwnAnswers, Runs
<1>2. ASSUME NEW g \in Gateways, Load(g) \/ Listen(g) \/ Exit(g) PROVE OwnAnswers'
  <2>1. /\ UNCHANGED attached
        /\ \A h \in Gateways : Runs(h, "sockopt")' => Runs(h, "sockopt")
    BY <1>2 DEF Load, Listen, ListenAfter, Exit, Runs, TypeOK
  <2>. QED
    BY <2>1 DEF OwnAnswers
<1>3. ASSUME NEW g \in Gateways, NEW h \in Hooks, h # "sockopt", Attach(g, h) PROVE OwnAnswers'
  <2>1. s' = s /\ \A k \in Gateways : Runs(k, "sockopt")' => Runs(k, "sockopt")
    BY <1>3 DEF Attach, Previous, Hooks, Runs, TypeOK
  <2>. QED
    BY <2>1 DEF OwnAnswers
<1>4. ASSUME NEW g \in Gateways, Attach(g, "sockopt") PROVE OwnAnswers'
  <2>1. /\ s \in Seq(Gateways) /\ s' = Append(s, g)
        /\ \A k \in Gateways \ {g} : Runs(k, "sockopt")' => Runs(k, "sockopt")
    BY <1>4 DEF Attach, Hooks, Runs, TypeOK
  <2>2. DOMAIN s = 1 .. Len(s) /\ Len(s) \in Nat
    BY <2>1
  <2>3. /\ DOMAIN s' = 1 .. Len(s) + 1 /\ Len(s') = Len(s) + 1 /\ s'[Len(s) + 1] = g
        /\ \A i \in DOMAIN s : s'[i] = s[i]
    BY <2>1
  <2>. SUFFICES ASSUME NEW k \in Gateways, Runs(k, "sockopt")'
                PROVE  \E i \in DOMAIN s' : s'[i] = k /\ \A j \in i + 1 .. Len(s') : s'[j] # k
    BY DEF OwnAnswers
  <2>4. CASE k = g
    <3>1. Len(s) + 1 \in DOMAIN s' /\ \A j \in Len(s) + 2 .. Len(s') : FALSE
      BY <2>2, <2>3
    <3>2. Len(s) + 1 + 1 = Len(s) + 2
      BY <2>2
    <3>. HIDE DEF s
    <3>. QED
      BY <2>3, <2>4, <3>1, <3>2
  <2>5. CASE k # g
    <3>1. PICK i \in DOMAIN s : s[i] = k /\ \A j \in i + 1 .. Len(s) : s[j] # k
      BY <2>1, <2>5 DEF OwnAnswers
    <3>2. \A j \in i + 1 .. Len(s) + 1 : s'[j] # k
      <4>. TAKE j \in i + 1 .. Len(s) + 1
      <4>1. CASE j = Len(s) + 1
        BY <2>3, <2>5, <4>1
      <4>2. CASE j # Len(s) + 1
        <5>1. j \in i + 1 .. Len(s) /\ j \in DOMAIN s
          BY <2>2, <4>2
        <5>. QED
          BY <2>3, <3>1, <5>1
      <4>. QED
        BY <4>1, <4>2
    <3>. HIDE DEF s
    <3>. QED
      BY <2>2, <2>3, <3>1, <3>2
  <2>. QED
    BY <2>4, <2>5
<1>. QED
  BY <1>1, <1>2, <1>3, <1>4
  DEF Next, Spawn, Startup, Connect, Establish, Refuse, Answer, Close, Abort, gatewayVars, vars

\* What the maps of several gateways say of the connections.
OwnConn ==
    /\ SocksHoldOwn
    /\ PortsHoldOwn
    /\ EarlyEmpty
    /\ PortsDiffer
    /\ PortsApart => PortLeadsToOwn
    /\ RightTargetApart

\* A gateway that is gone stays so, and none goes back to before its second program.
Early == {"absent", "loaded", "connect4"}
PhasesAdvance ==
    \A g \in Gateways :
        /\ phase[g] = "exited" => phase'[g] = "exited"
        /\ phase'[g] \in Early => phase[g] \in Early

LEMMA PhaseStep == TypeOK /\ [Next]_vars => PhasesAdvance
<1>. SUFFICES ASSUME TypeOK, [Next]_vars PROVE PhasesAdvance
  OBVIOUS
<1>1. CASE UNCHANGED phase
  BY <1>1 DEF PhasesAdvance
<1>2. ASSUME NEW g \in Gateways, Load(g) \/ Listen(g) \/ Exit(g) PROVE PhasesAdvance
  BY <1>2 DEF Load, Listen, ListenAfter, Exit, PhasesAdvance, Early, TypeOK
<1>3. ASSUME NEW g \in Gateways, NEW h \in Hooks, Attach(g, h) PROVE PhasesAdvance
  BY <1>3 DEF Attach, Previous, Hooks, PhasesAdvance, Early, TypeOK
<1>. QED
  BY <1>1, <1>2, <1>3
  DEF Next, Spawn, Startup, Connect, Establish, Refuse, Answer, Close, Abort, gatewayVars, vars

\* connect() adds a connection and changes none, so what was apart stays so only
\* if it was.
LEMMA ApartBefore ==
  ASSUME \A k \in Cookies : Captured(k) => Captured(k)' /\ sock'[k].by = sock[k].by
                                           /\ sock'[k].port = sock[k].port
                                           /\ sock'[k].proc = sock[k].proc
  PROVE  PortsApart' => PortsApart
BY DEF PortsApart, PodOf

\* Retire, for several gateways.
LEMMA RetireOwn ==
  ASSUME OwnInv, UNCHANGED map_socks, UNCHANGED map_ports, UNCHANGED target, OnlyEnds, PhasesAdvance
  PROVE  OwnConn'
<1>. USE DEF OwnInv, OwnConn, OnlyEnds
<1>1. UNCHANGED map_socks /\ UNCHANGED map_ports /\ UNCHANGED target
  OBVIOUS
<1>2. \A c \in Cookies : Captured(c)' <=> Captured(c)
  BY DEF Captured
<1>3. \A c \in Cookies : Occupied(c)' => Occupied(c)
  BY DEF Occupied
<1>4. \A c \in Cookies : PodOf(c)' = PodOf(c)
  BY DEF PodOf
<1>5. SocksHoldOwn'
  BY <1>1, <1>2 DEF SocksHoldOwn
<1>6. PortsHoldOwn'
  BY <1>1 DEF PortsHoldOwn
<1>7. PortsDiffer'
  BY <1>2, <1>3, <1>4 DEF PortsDiffer
<1>8. PortsApart' => PortsApart
  BY <1>2, ApartBefore
<1>9. PortsApart' => PortLeadsToOwn'
  <2>. SUFFICES ASSUME PortsApart', NEW c \in Cookies, Captured(c)', gw'[c] = "queued", sock'[c].st # "aborted"
                PROVE  /\ sock'[c].by = PodOf(c)' => sock'[c].port \in DOMAIN map_ports'[sock'[c].by]
                       /\ phase'[sock'[c].by] # "exited" /\ sock'[c].port \in DOMAIN map_ports'[sock'[c].by] =>
                              map_ports'[sock'[c].by][sock'[c].port] = c
    BY DEF PortLeadsToOwn
  <2>1. sock[c].by \in Gateways /\ Captured(c) /\ gw[c] = "queued" /\ sock[c].st # "aborted"
    BY <1>2 DEF TypeOK, SockOK, Captured
  <2>2. sock'[c].by = sock[c].by /\ sock'[c].port = sock[c].port /\ map_ports' = map_ports
    BY <1>1
  <2>3. /\ sock[c].by = PodOf(c) => sock[c].port \in DOMAIN map_ports[sock[c].by]
        /\ phase[sock[c].by] # "exited" /\ sock[c].port \in DOMAIN map_ports[sock[c].by] =>
               map_ports[sock[c].by][sock[c].port] = c
    BY <1>8, <2>1 DEF PortLeadsToOwn
  <2>. QED
    BY <1>4, <2>1, <2>2, <2>3 DEF PhasesAdvance
<1>10. RightTargetApart'
  BY <1>1, <1>2, <1>4, <1>8 DEF RightTargetApart, ToldRight
<1>11. EarlyEmpty'
  BY <1>1 DEF EarlyEmpty, PhasesAdvance, Early
<1>. QED
  BY <1>5, <1>6, <1>7, <1>9, <1>10, <1>11

LEMMA FrameOwn == ASSUME OwnInv, PhasesAdvance, UNCHANGED <<mapVars, connVars>> PROVE OwnConn'
<1>1. /\ map_socks' = map_socks /\ map_ports' = map_ports
      /\ sock' = sock /\ gw' = gw /\ target' = target
  BY DEF connVars, mapVars
<1>2. OnlyEnds
  BY <1>1 DEF OnlyEnds
<1>. QED
  BY <1>1, <1>2, RetireOwn

\* A redirected connection is entered into the map of the gateway that redirected it.
LEMMA ConnectOwn ==
  ASSUME OwnScope, OwnInv, NEW p \in Procs, NEW d \in Destination, NEW port \in Ports,
         NEW c \in Cookies, Connect(p, d, port, c)
  PROVE  OwnConn'
<1>. USE DEF OwnInv, OwnConn
<1>. PICK by \in Gateways \cup {None} :
        /\ Begin(c, p, d, port, by)
        /\ IF by = None THEN UNCHANGED map_socks
           ELSE map_socks' = [map_socks EXCEPT ![by] = Update(@, Key(c), d)]
  BY PodsAssumption DEF Connect
<1>0. None \notin Gateways
  BY PodsAssumption
<1>1. /\ UNCHANGED <<map_ports, gw, target>>
      /\ gw[c] = "none" /\ ~Captured(c) /\ sock[c].st = "unused"
  <2>1. sock[c].st = "unused"
    BY DEF Begin
  <2>. QED
    BY <2>1 DEF Connect, QueuedAtListener, TypeOK, SockOK
<1>2. /\ \A k \in Cookies \ {c} : sock'[k] = sock[k]
      /\ sock'[c] = [st |-> "connecting", proc |-> p, dst |-> d, by |-> by, port |-> port]
  BY DEF Begin, TypeOK, SockOK
<1>3. /\ \A k \in Cookies \ {c} :
            /\ Captured(k)' <=> Captured(k)
            /\ Occupied(k)' <=> Occupied(k)
            /\ PodOf(k)' = PodOf(k)
      /\ Captured(c)' <=> by # None
      /\ PodOf(c)' = Info[p].pod
  BY <1>1, <1>2 DEF Captured, Occupied, PodOf
<1>4. SocksHoldOwn'
  <2>1. CASE by = None
    BY <1>0, <1>1, <1>2, <1>3, <2>1 DEF SocksHoldOwn, Captured
  <2>2. CASE by # None
    <3>1. /\ \A g \in Gateways \ {by} : map_socks'[g] = map_socks[g]
          /\ map_socks'[by] = Update(map_socks[by], Key(c), d)
      BY <2>2 DEF TypeOK
    <3>2. Cardinality(DOMAIN map_socks[by]) < MapSize
      <4>. DEFINE f == [k \in Cookies |-> Key(k)]
      <4>1. DOMAIN map_socks[by] \subseteq {f[k] : k \in Cookies \ {c}}
        BY <1>1, <2>2 DEF SocksHoldOwn, Captured
      <4>. QED
        BY <4>1, ImageLeavesRoom DEF OwnScope
    <3>3. /\ DOMAIN map_socks'[by] = DOMAIN map_socks[by] \cup {Key(c)}
          /\ map_socks'[by][Key(c)] = d
          /\ \A x \in DOMAIN map_socks[by] \ {Key(c)} : map_socks'[by][x] = map_socks[by][x]
      BY <3>1, <3>2 DEF Update
    <3>4. \A k \in Cookies \ {c} : Key(k) # Key(c)
      BY DEF OwnScope, KeysDistinct
    <3>5. ASSUME NEW k \in Cookies, Captured(k)'
          PROVE  /\ Key(k) \in DOMAIN map_socks'[sock'[k].by]
                 /\ map_socks'[sock'[k].by][Key(k)] = sock'[k].dst
      <4>1. CASE k = c
        BY <1>2, <3>3, <4>1
      <4>2. CASE k # c
        <5>1. /\ sock'[k] = sock[k] /\ sock[k].by \in Gateways
              /\ Key(k) \in DOMAIN map_socks[sock[k].by] /\ map_socks[sock[k].by][Key(k)] = sock[k].dst
          BY <1>2, <1>3, <3>5, <4>2 DEF SocksHoldOwn, TypeOK, SockOK, Captured
        <5>. QED
          BY <3>1, <3>3, <3>4, <4>2, <5>1
      <4>. QED
        BY <4>1, <4>2
    <3>6. ASSUME NEW g \in Gateways, NEW x \in DOMAIN map_socks'[g]
          PROVE  \E k \in Cookies : sock'[k].by = g /\ Key(k) = x
      <4>1. CASE g = by /\ x = Key(c)
        BY <1>2, <4>1
      <4>2. CASE ~(g = by /\ x = Key(c))
        <5>1. x \in DOMAIN map_socks[g]
          BY <3>1, <3>3, <3>6, <4>2
        <5>2. PICK k \in Cookies : sock[k].by = g /\ Key(k) = x
          BY <5>1 DEF SocksHoldOwn
        <5>3. k # c
          BY <1>0, <1>1, <5>2 DEF Captured
        <5>. QED
          BY <1>2, <5>2, <5>3
      <4>. QED
        BY <4>1, <4>2
    <3>. QED
      BY <3>5, <3>6 DEF SocksHoldOwn
  <2>. QED
    BY <2>1, <2>2
<1>5. PortsHoldOwn'
  <2>. SUFFICES ASSUME NEW g \in Gateways, NEW k \in Cookies, NEW q \in DOMAIN map_ports[g],
                       map_ports[g][q] = k
                PROVE  sock'[k].by = g /\ sock'[k].st # "connecting" /\ sock'[k].port = q
    BY <1>1 DEF PortsHoldOwn
  <2>1. sock[k].by = g /\ sock[k].st # "connecting" /\ sock[k].port = q
    BY DEF PortsHoldOwn
  <2>2. k # c
    BY <1>0, <1>1, <2>1 DEF Captured
  <2>. QED
    BY <1>2, <2>1, <2>2
<1>6. PortsDiffer'
  <2>1. ASSUME NEW k \in Cookies \ {c}, by # None, Captured(k), Occupied(k), PodOf(k) = Info[p].pod
        PROVE  sock[k].port # port
    BY <2>1 DEF Begin, Remote
  <2>. QED
    BY <1>2, <1>3, <2>1 DEF PortsDiffer
<1>7. PortsApart' => PortsApart
  BY <1>1, <1>2, <1>3, ApartBefore
<1>8. UNCHANGED phase
  BY DEF Connect, gatewayVars
<1>9. PortsApart' => PortLeadsToOwn'
  BY <1>1, <1>2, <1>3, <1>7, <1>8 DEF PortLeadsToOwn
<1>10. RightTargetApart'
  BY <1>1, <1>2, <1>3, <1>7 DEF RightTargetApart, ToldRight
<1>11. EarlyEmpty'
  BY <1>1, <1>8 DEF EarlyEmpty
<1>. QED
  BY <1>4, <1>5, <1>6, <1>9, <1>10, <1>11

\* A program records a connection only if it redirected it.
LEMMA RecordsOwn ==
  ASSUME KeysDistinct, OwnInv, NEW c \in Cookies, NEW g \in Gateways, sock[c].by # g
  PROVE  SockOps(g, c) = map_ports[g]
<1>1. Key(c) \notin DOMAIN map_socks[g]
  BY DEF OwnInv, SocksHoldOwn, KeysDistinct
<1>. QED
  BY <1>1 DEF SockOps

LEMMA EstablishOwn ==
  ASSUME OwnScope, OwnInv, NEW c \in Cookies, Establish(c)
  PROVE  OwnConn'
<1>. USE DEF OwnInv, OwnConn
<1>1. /\ UNCHANGED <<phase, map_socks, target>>
      /\ sock[c].st = "connecting" /\ gw[c] = "none"
      /\ \A k \in Cookies \ {c} : sock'[k] = sock[k] /\ gw'[k] = gw[k]
      /\ sock'[c].st = "open" /\ sock'[c].by = sock[c].by /\ sock'[c].dst = sock[c].dst
      /\ sock'[c].proc = sock[c].proc /\ sock'[c].port = sock[c].port
      /\ gw'[c] = IF Proxied(c) THEN "queued" ELSE "none"
      /\ Proxied(c) => Listening(c)
  BY DEF Establish, TypeOK, SockOK, QueuedAtListener, gatewayVars
<1>2. \A k \in Cookies :
        /\ Captured(k)' <=> Captured(k)
        /\ Occupied(k)' => Occupied(k)
        /\ PodOf(k)' = PodOf(k)
  BY <1>1 DEF Captured, Occupied, PodOf
<1>3. SocksHoldOwn'
  BY <1>1, <1>2 DEF SocksHoldOwn
<1>4. PortsDiffer'
  BY <1>1, <1>2 DEF PortsDiffer
<1>5. PortsApart' => PortsApart
  BY <1>1, <1>2, ApartBefore
<1>10. RightTargetApart'
  BY <1>1, <1>2, <1>5 DEF RightTargetApart, ToldRight
<1>6. \A g \in Gateways : map_ports'[g] = SockOps(g, c)
  BY DEF Establish
<1>7. \A g \in Gateways : sock[c].by # g => map_ports'[g] = map_ports[g]
  BY <1>6, RecordsOwn DEF OwnScope
<1>11. EarlyEmpty'
  <2>1. \A g \in Gateways : phase[g] \in Early => map_ports'[g] = map_ports[g]
    BY <1>6 DEF SockOps, Runs, Early
  <2>. QED
    BY <1>1, <2>1 DEF EarlyEmpty, Early
<1>8. CASE ~Captured(c)
  <2>1. \A g \in Gateways : map_ports'[g] = map_ports[g]
    BY <1>7, <1>8, PodsAssumption DEF Captured
  <2>2. PortsHoldOwn'
    BY <1>1, <2>1 DEF PortsHoldOwn
  <2>3. PortsApart' => PortLeadsToOwn'
    <3>. SUFFICES ASSUME PortsApart', NEW k \in Cookies, Captured(k)', gw'[k] = "queued", sock'[k].st # "aborted"
                  PROVE  /\ sock'[k].by = PodOf(k)' => sock'[k].port \in DOMAIN map_ports'[sock'[k].by]
                         /\ phase'[sock'[k].by] # "exited" /\ sock'[k].port \in DOMAIN map_ports'[sock'[k].by] =>
                                map_ports'[sock'[k].by][sock'[k].port] = k
      BY DEF PortLeadsToOwn
    <3>1. k # c
      BY <1>2, <1>8
    <3>2. sock'[k] = sock[k] /\ gw[k] = "queued" /\ Captured(k) /\ sock[k].by \in Gateways
      BY <1>1, <1>2, <3>1 DEF TypeOK, SockOK, Captured
    <3>. QED
      BY <1>1, <1>2, <1>5, <2>1, <3>2 DEF PortLeadsToOwn
  <2>. QED
    BY <1>3, <1>4, <1>10, <1>11, <2>2, <2>3
<1>9. CASE Captured(c) /\ ~Runs(sock[c].by, "sockops")
  <2>. DEFINE by == sock[c].by
  <2>1. by \in Gateways /\ Proxied(c) /\ Listening(c)
    BY <1>1, <1>9 DEF TypeOK, SockOK, Captured, Proxied, Remote
  <2>2. \A g \in Gateways : map_ports'[g] = map_ports[g]
    BY <1>6, <1>7, <1>9 DEF SockOps
  <2>3. PortsHoldOwn'
    BY <1>1, <2>2 DEF PortsHoldOwn
  <2>4. by # PodOf(c) /\ (phase[by] = "exited" \/ DOMAIN map_ports[by] = {})
    BY <1>9, <2>1 DEF Listening, Runs, EarlyEmpty, TypeOK, Hooks
  <2>5. PortsApart' => PortLeadsToOwn'
    <3>. SUFFICES ASSUME PortsApart', NEW k \in Cookies, Captured(k)', gw'[k] = "queued", sock'[k].st # "aborted"
                  PROVE  /\ sock'[k].by = PodOf(k)' => sock'[k].port \in DOMAIN map_ports'[sock'[k].by]
                         /\ phase'[sock'[k].by] # "exited" /\ sock'[k].port \in DOMAIN map_ports'[sock'[k].by] =>
                                map_ports'[sock'[k].by][sock'[k].port] = k
      BY DEF PortLeadsToOwn
    <3>1. CASE k = c
      BY <1>1, <1>2, <2>1, <2>2, <2>4, <3>1
    <3>2. CASE k # c
      <4>1. sock'[k] = sock[k] /\ gw[k] = "queued" /\ Captured(k) /\ sock[k].by \in Gateways
        BY <1>1, <1>2, <3>2 DEF TypeOK, SockOK, Captured
      <4>. QED
        BY <1>1, <1>2, <1>5, <2>2, <4>1 DEF PortLeadsToOwn
    <3>. QED
      BY <3>1, <3>2
  <2>. QED
    BY <1>3, <1>4, <1>10, <1>11, <2>3, <2>5
<1>12. CASE Captured(c) /\ Runs(sock[c].by, "sockops")
  <2>. DEFINE by == sock[c].by
  <2>1. by \in Gateways /\ Proxied(c)
    BY <1>1, <1>12 DEF TypeOK, SockOK, Captured, Proxied, Remote
  <2>2. map_ports'[by] = Update(map_ports[by], sock[c].port, c)
    BY <1>6, <1>12, <2>1 DEF SockOps, SocksHoldOwn
  <2>3. Cardinality(DOMAIN map_ports[by]) < MapSize
    <3>. DEFINE f == [k \in Cookies |-> sock[k].port]
    <3>1. \A q \in DOMAIN map_ports[by] :
            map_ports[by][q] \in Cookies \ {c} /\ sock[map_ports[by][q]].port = q
      BY <1>1, <2>1 DEF TypeOK, PartialMap, PortsHoldOwn
    <3>2. DOMAIN map_ports[by] \subseteq {f[k] : k \in Cookies \ {c}}
      BY <3>1
    <3>. QED
      BY <3>2, ImageLeavesRoom DEF OwnScope
  <2>4. /\ DOMAIN map_ports'[by] = DOMAIN map_ports[by] \cup {sock[c].port}
        /\ map_ports'[by][sock[c].port] = c
        /\ \A x \in DOMAIN map_ports[by] \ {sock[c].port} : map_ports'[by][x] = map_ports[by][x]
    BY <2>2, <2>3 DEF Update
  <2>5. PortsHoldOwn'
    <3>. SUFFICES ASSUME NEW g \in Gateways, NEW k \in Cookies, NEW q \in DOMAIN map_ports'[g],
                         map_ports'[g][q] = k
                  PROVE  sock'[k].by = g /\ sock'[k].st # "connecting" /\ sock'[k].port = q
      BY DEF PortsHoldOwn
    <3>1. CASE g = by /\ q = sock[c].port
      BY <1>1, <2>4, <3>1
    <3>2. CASE ~(g = by /\ q = sock[c].port)
      <4>1. q \in DOMAIN map_ports[g] /\ map_ports[g][q] = k
        BY <1>7, <2>4, <3>2
      <4>. QED
        BY <1>1, <4>1 DEF PortsHoldOwn
    <3>. QED
      BY <3>1, <3>2
  <2>6. PortsApart' => PortLeadsToOwn'
    <3>. SUFFICES ASSUME PortsApart', NEW k \in Cookies, Captured(k)', gw'[k] = "queued", sock'[k].st # "aborted"
                  PROVE  /\ sock'[k].by = PodOf(k)' => sock'[k].port \in DOMAIN map_ports'[sock'[k].by]
                         /\ phase'[sock'[k].by] # "exited" /\ sock'[k].port \in DOMAIN map_ports'[sock'[k].by] =>
                                map_ports'[sock'[k].by][sock'[k].port] = k
      BY DEF PortLeadsToOwn
    <3>1. CASE k = c
      BY <1>1, <2>4, <3>1
    <3>2. CASE k # c
      <4>1. Captured(k) /\ gw[k] = "queued" /\ sock[k].st # "aborted" /\ sock'[k] = sock[k] /\ sock[k].by \in Gateways
        BY <1>1, <1>2, <3>2 DEF TypeOK, SockOK, Captured
      <4>2. /\ sock[k].by = PodOf(k) => sock[k].port \in DOMAIN map_ports[sock[k].by]
            /\ phase[sock[k].by] # "exited" /\ sock[k].port \in DOMAIN map_ports[sock[k].by] =>
                   map_ports[sock[k].by][sock[k].port] = k
        BY <1>5, <4>1 DEF PortLeadsToOwn
      <4>3. CASE sock[k].by # by
        BY <1>1, <1>2, <1>7, <4>1, <4>2, <4>3
      <4>4. CASE sock[k].by = by
        <5>1. Occupied(k) /\ Occupied(c)
          BY <1>1, <4>1 DEF QueuedAtListener, Occupied
        <5>2. sock[k].port # sock[c].port
          <6>1. CASE PodOf(k) = PodOf(c)
            BY <1>12, <3>2, <4>1, <5>1, <6>1 DEF PortsDiffer
          <6>2. CASE PodOf(k) # PodOf(c)
            BY <1>5, <1>12, <4>1, <6>2 DEF PortsApart
          <6>. QED
            BY <6>1, <6>2
        <5>. QED
          BY <1>1, <1>2, <2>4, <4>1, <4>2, <4>4, <5>2
      <4>. QED
        BY <4>3, <4>4
    <3>. QED
      BY <3>1, <3>2
  <2>. QED
    BY <1>3, <1>4, <1>10, <1>11, <2>5, <2>6
<1>. QED
  BY <1>8, <1>9, <1>12

\* No program but its own gateway's knows a connection whose port no other pod has used.
LEMMA KnowsOwn ==
  ASSUME OwnInv, PortsApart, NEW c \in Cookies, Captured(c), NEW g \in Gateways, Knows(g, c)
  PROVE  g = sock[c].by
<1>. DEFINE k == map_ports[g][sock[c].port]
<1>1. sock[c].port \in DOMAIN map_ports[g] /\ k \in Cookies
  BY DEF Knows, OwnInv, TypeOK, PartialMap
<1>2. sock[k].by = g /\ sock[k].port = sock[c].port
  BY <1>1 DEF OwnInv, PortsHoldOwn
<1>3. Captured(k)
  BY <1>2, PodsAssumption DEF Captured
<1>. QED
  BY <1>1, <1>2, <1>3 DEF PortsApart

\* Who answers is the gateway that redirected it, and if that is its own pod's, it does.
LEMMA OwnAnswer ==
  ASSUME OwnInv, PortsApart, NEW c \in Cookies, gw[c] = "queued", Captured(c),
         sock[c].st # "aborted"
  PROVE  /\ sock[c].by = PodOf(c) => \E g \in Gateways : Answers(g, c)
         /\ \A g \in Gateways : Answers(g, c) => OriginalDst(g, c) = sock[c].dst
<1>. DEFINE by == sock[c].by
           s == attached["sockopt"]
<1>1. by \in Gateways
  BY DEF OwnInv, TypeOK, SockOK, Captured
<1>2. Key(c) \in DOMAIN map_socks[by] /\ map_socks[by][Key(c)] = sock[c].dst
  BY DEF OwnInv, SocksHoldOwn
<1>3. PortLeadsToOwn
  BY DEF OwnInv
<1>4. Knows(by, c) => OriginalDst(by, c) = sock[c].dst
  BY <1>1, <1>2, <1>3 DEF Knows, OriginalDst, Runs, PortLeadsToOwn
<1>5. ASSUME by = PodOf(c) PROVE Answers(by, c)
  <2>1. phase[by] = "listening"
    BY <1>5 DEF OwnInv, QueuedAtListener, Listening
  <2>2. Knows(by, c)
    BY <1>1, <1>2, <1>3, <1>5, <2>1 DEF Knows, Runs, PortLeadsToOwn
  <2>3. s \in Seq(Gateways)
    BY DEF OwnInv, TypeOK, Hooks
  <2>4. PICK i \in DOMAIN s : s[i] = by /\ \A j \in i + 1 .. Len(s) : s[j] # by
    BY <1>1, <2>1 DEF OwnInv, OwnAnswers, Runs
  <2>5. \A j \in i + 1 .. Len(s) : s[j] \in Gateways
    BY <2>3
  <2>6. \A j \in i + 1 .. Len(s) : ~Knows(s[j], c)
    BY <2>4, <2>5, KnowsOwn
  <2>. QED
    BY <2>2, <2>4, <2>6 DEF Answers
<1>6. ASSUME NEW g \in Gateways, Answers(g, c) PROVE OriginalDst(g, c) = sock[c].dst
  BY <1>4, <1>6, KnowsOwn DEF Answers
<1>. QED
  BY <1>1, <1>5, <1>6

LEMMA AnswerOwn ==
  ASSUME OwnInv, NEW c \in Cookies, Answer(c)
  PROVE  OwnConn'
<1>. USE DEF OwnInv, OwnConn
<1>0. gw[c] = "queued" /\ UNCHANGED <<phase, map_socks, map_ports>>
  BY DEF Answer, mapVars, gatewayVars
<1>1. CASE gw' = [gw EXCEPT ![c] = "dropped"]
  <2>1. UNCHANGED target /\ sock' = [sock EXCEPT ![c].st = IF @ = "open" THEN "closed" ELSE @]
    BY <1>1, <1>0 DEF Answer, TypeOK
  <2>2. \A k \in Cookies :
          /\ sock'[k].by = sock[k].by /\ sock'[k].dst = sock[k].dst
          /\ sock'[k].proc = sock[k].proc /\ sock'[k].port = sock[k].port
          /\ \/ sock'[k].st = sock[k].st
             \/ sock[k].st = "open" /\ sock'[k].st = "closed"
    BY <2>1, MoveConn
  <2>3. \A k \in Cookies : gw'[k] = gw[k] \/ gw'[k] = "dropped"
    BY <1>1 DEF TypeOK
  <2>4. OnlyEnds
    BY <2>2, <2>3 DEF OnlyEnds
  <2>. QED
    BY <1>0, <2>1, <2>4, RetireOwn DEF PhasesAdvance
<1>2. CASE gw' = [gw EXCEPT ![c] = "answered"]
  <2>1. UNCHANGED sock
    BY <1>2, <1>0 DEF Answer, TypeOK
  <2>2. /\ \A k \in Cookies \ {c} : gw'[k] = gw[k] /\ target'[k] = target[k]
        /\ gw'[c] = "answered"
    BY <1>2, <1>0 DEF Answer, TypeOK
  <2>3. \A k \in Cookies : (Captured(k)' <=> Captured(k)) /\ PodOf(k)' = PodOf(k)
    BY <2>1 DEF Captured, PodOf
  <2>4. \A k \in Cookies : Occupied(k)' => Occupied(k)
    BY <2>1, <2>2 DEF Occupied
  <2>5. PortsApart' => PortsApart
    BY <2>1, <2>3, ApartBefore
  <2>6. RightTargetApart'
    <3>1. ASSUME PortsApart, Captured(c), sock[c].st # "aborted" PROVE ToldRight(c)'
      <4>1. CASE \E g \in Gateways : Answers(g, c)
        <5>1. target'[c] = sock[c].dst
          BY <1>0, <3>1, <4>1, OwnAnswer, <1>2 DEF Answer, TypeOK
        <5>. QED
          BY <2>1, <5>1 DEF ToldRight
      <4>2. CASE ~ \E g \in Gateways : Answers(g, c)
        <5>1. target'[c] = Proxy
          BY <1>2, <4>2 DEF Answer, TypeOK
        <5>2. sock[c].by # PodOf(c)
          BY <1>0, <3>1, <4>2, OwnAnswer
        <5>. QED
          BY <2>1, <2>3, <5>1, <5>2 DEF ToldRight
      <4>. QED
        BY <4>1, <4>2
    <3>. QED
      BY <2>1, <2>2, <2>3, <2>5, <3>1 DEF RightTargetApart, ToldRight
  <2>7. SocksHoldOwn' /\ PortsHoldOwn' /\ EarlyEmpty'
    BY <1>0, <2>1 DEF SocksHoldOwn, PortsHoldOwn, EarlyEmpty, Captured
  <2>8. PortsDiffer' /\ (PortsApart' => PortLeadsToOwn')
    BY <1>0, <2>1, <2>2, <2>3, <2>4, <2>5 DEF PortsDiffer, PortLeadsToOwn
  <2>. QED
    BY <2>6, <2>7, <2>8
<1>. QED
  BY <1>1, <1>2 DEF Answer

LEMMA OwnStep == OwnScope /\ OwnInv /\ [Next]_vars => OwnInv'
<1>. SUFFICES ASSUME OwnScope, OwnInv, [Next]_vars PROVE OwnInv'
  OBVIOUS
<1>0. TypeOK' /\ QueuedAtListener' /\ OwnAnswers'
  BY StepType, QueuedStep, OwnAnswersStep DEF OwnInv
<1>. SUFFICES OwnConn'
  BY <1>0 DEF OwnInv, OwnConn
<1>7. PhasesAdvance
  BY PhaseStep DEF OwnInv
<1>1. CASE UNCHANGED <<mapVars, connVars>>
  BY <1>1, <1>7, FrameOwn
<1>2. ASSUME NEW g \in Gateways, Exit(g) PROVE OwnConn'
  <2>1. \A c \in Cookies :
            /\ sock'[c].by = sock[c].by /\ sock'[c].dst = sock[c].dst
            /\ sock'[c].proc = sock[c].proc /\ sock'[c].port = sock[c].port
            /\ \/ sock'[c].st = sock[c].st
               \/ sock[c].st \in {"connecting", "open"} /\ sock'[c].st = "closed"
    <3>. TAKE c \in Cookies
    <3>1. CASE sock'[c] = sock[c]
      BY <3>1
    <3>2. CASE sock[c].st \in {"connecting", "open"} /\ sock'[c] = [sock[c] EXCEPT !.st = "closed"]
      BY <3>2 DEF OwnInv, TypeOK, SockOK
    <3>. QED
      BY <1>2, <3>1, <3>2 DEF Exit
  <2>2. \A c \in Cookies : gw'[c] = gw[c] \/ gw'[c] = "dropped"
    BY <1>2 DEF Exit
  <2>3. OnlyEnds
    BY <2>1, <2>2 DEF OnlyEnds
  <2>. QED
    BY <1>2, <1>7, <2>3, RetireOwn DEF Exit, mapVars
<1>3. ASSUME NEW c \in Cookies, Refuse(c) \/ Close(c) \/ Abort(c) PROVE OwnConn'
  <2>1. UNCHANGED <<mapVars, gw, target>>
    BY <1>3 DEF Refuse, Close, Abort
  <2>2. TypeOK
    BY DEF OwnInv
  <2>3. \A k \in Cookies :
          /\ sock'[k].by = sock[k].by /\ sock'[k].dst = sock[k].dst
          /\ sock'[k].proc = sock[k].proc /\ sock'[k].port = sock[k].port
          /\ \/ sock'[k].st = sock[k].st
             \/ /\ sock[k].st \in {"connecting", "open"}
                /\ sock'[k].st \in {"refused", "closed", "aborted"}
    <3>1. CASE Refuse(c)
      BY <2>2, <3>1, MoveConn DEF Refuse
    <3>2. CASE Close(c)
      BY <2>2, <3>2, MoveConn DEF Close
    <3>3. CASE Abort(c)
      BY <2>2, <3>3, MoveConn DEF Abort
    <3>. QED
      BY <1>3, <3>1, <3>2, <3>3
  <2>4. gw' = gw
    BY <2>1
  <2>5. OnlyEnds
    BY <2>3, <2>4 DEF OnlyEnds
  <2>. QED
    BY <1>7, <2>1, <2>5, RetireOwn DEF mapVars
<1>4. ASSUME NEW c \in Cookies, NEW p \in Procs, NEW d \in Destination, NEW port \in Ports,
             Connect(p, d, port, c)
      PROVE  OwnConn'
  BY <1>4, ConnectOwn
<1>5. ASSUME NEW c \in Cookies, Establish(c) PROVE OwnConn'
  BY <1>5, EstablishOwn
<1>6. ASSUME NEW c \in Cookies, Answer(c) PROVE OwnConn'
  BY <1>6, AnswerOwn
<1>. QED
  BY <1>1, <1>2, <1>3, <1>4, <1>5, <1>6
  DEF Next, Spawn, Load, Startup, Attach, Listen, vars

LEMMA OwnStarts == Init => OwnInv
<1>1. ASSUME Init PROVE \A c \in Cookies : ~Captured(c) /\ gw[c] = "none"
  BY <1>1 DEF Init, Captured
<1>. QED
  BY <1>1, InitType DEF Init, OwnInv, QueuedAtListener, OwnAnswers, Runs, SocksHoldOwn,
     PortsHoldOwn, EarlyEmpty, PortsDiffer, PortLeadsToOwn, RightTargetApart, EmptyMap

\* Any number of pods and gateways may share the node, with whatever pids: while no
\* port has been the source port of connections of two pods or for two gateways, each
\* gateway is told where the application wanted to go (mirrors.c:111-122, 141-148,
\* 184-204) - or, if another pod's gateway redirected the connection, possibly nothing
\* but the proxy's address -, though every program runs for every process and answers
\* about every socket.
THEOREM RightTargetOfMany == ASSUME OwnScope PROVE Spec => []RightTargetApart
<1>1. OwnInv /\ [Next]_vars => OwnInv'
  BY OwnStep
<1>2. OwnInv => RightTargetApart
  BY DEF OwnInv
<1>. QED
  BY <1>1, <1>2, OwnStarts, PTL DEF Spec

=============================================================================
