------------------------------- MODULE Mirrors -------------------------------
(***************************************************************************)
(* The data plane of kube-gateway on one node: the three eBPF programs of  *)
(* ebpf/mirrors.c, their maps, and the gateways that load, attach and use  *)
(* them (gateway/main.go, pkg/manager, findTargetFromConnection).          *)
(*                                                                         *)
(* A pod is named by its IP address, and the gateway of a pod by its pod.  *)
(* Every program is attached to the root cgroup, so it runs for every      *)
(* process of the node.  A TCP connection is named by the cookie of the    *)
(* socket that opens it.  Tunnel mode is off: nothing in the repository    *)
(* turns it on.                                                            *)
(***************************************************************************)
EXTENDS Integers, Sequences, FiniteSets

CONSTANTS
    Pods,       \* the pods of the node, each named by its IP address
    Gateways,   \* the pods that get a gateway
    Procs,      \* processes
    Info,       \* of a process: its pod, its pid namespace, its pid there
    Main,       \* the process of each gateway
    InitProcs,  \* the processes that run from the start
    Cookies,    \* 64-bit socket cookies
    KeySpace,   \* how many keys map_socks can tell apart: 2^32 in the code
    BigEndian,  \* the byte order of the machine
    Ports,      \* ephemeral ports
    Dests,      \* the destinations that applications connect to
    PodCidr,    \* the addresses inside the configured pod CIDR
    MapSize,    \* MAX_CONNECTIONS: 20000 in the code
    Tracking,   \* the pods whose kernel tracks connections and so answers SO_ORIGINAL_DST
    Mode,       \* "copy", "tls" or "ai": how the gateways forward
    None

Loopback == "127.0.0.1"
ProxyPort == 18000
ClusterPort == 18001
ClusterTLSPort == 18443
Proxy == [addr |-> Loopback, port |-> ProxyPort]

PortNumber == 0 .. 65535
Address == [addr : STRING, port : PortNumber]

ASSUME PodsAssumption ==
    /\ Pods \cup {Loopback} \subseteq STRING
    /\ Gateways \subseteq Pods
    /\ None \notin Pods \cup Address
    /\ Dests \subseteq Address
    /\ Loopback \notin Pods \cup PodCidr

ASSUME ProcsAssumption ==
    /\ InitProcs \subseteq Procs
    /\ Info \in [Procs -> [pod : Pods, ns : STRING, pid : Nat]]
    /\ Main \in [Gateways -> Procs]
    /\ \A g \in Gateways : Info[Main[g]].pod = g /\ Main[g] \notin InitProcs

ASSUME KernelAssumption ==
    /\ Cookies \subseteq Nat
    /\ KeySpace \in Nat \ {0}
    /\ MapSize \in Nat \ {0}
    /\ BigEndian \in BOOLEAN
    /\ Tracking \subseteq Pods
    /\ Mode \in {"copy", "tls", "ai"}

VARIABLES
    phase,      \* how far the startup of each gateway has come
    attached,   \* per hook, the gateways in the order their programs were attached
    alive,      \* the running processes
    map_pids,   \* per gateway, its three maps
    map_socks,
    map_ports,
    sock,       \* the connections: the opening side
    gw,         \* the connections: what the gateway that accepts them did
    target      \* the original destination that gateway was told

gatewayVars == <<phase, attached, map_pids>>
mapVars == <<map_socks, map_ports>>
connVars == <<sock, gw, target>>
vars == <<gatewayVars, alive, mapVars, connVars>>

-----------------------------------------------------------------------------
(* Programs, maps and connections *)

Hooks == {"connect4", "sockops", "sockopt"}

\* LoadEPF attaches the hooks one after the other; Start listens only then.
Previous(h) == CASE h = "connect4" -> "loaded"
                 [] h = "sockops"  -> "connect4"
                 [] h = "sockopt"  -> "sockops"

\* The links close with the process, so a gateway that is gone has no programs.
Runs(g, h) ==
    phase[g] \in CASE h = "connect4" -> {"connect4", "sockops", "sockopt", "listening"}
                   [] h = "sockops"  -> {"sockops", "sockopt", "listening"}
                   [] h = "sockopt"  -> {"sockopt", "listening"}

\* Mutant: the listener is opened before the last hooks.
ListenAfter_TooEarly == "connect4"
ListenAfter == "sockopt"

\* map_socks is keyed by the first four bytes of the eight-byte cookie.
Key(c) == IF BigEndian THEN c \div KeySpace ELSE c % KeySpace

EmptyMap == [k \in {} |-> None]

\* bpf_map_update_elem with BPF_ANY; an update that does not fit fails, and
\* none of the callers looks at the result.
Update(m, k, v) ==
    IF k \in DOMAIN m \/ Cardinality(DOMAIN m) < MapSize
    THEN [x \in DOMAIN m \cup {k} |-> IF x = k THEN v ELSE m[x]]
    ELSE m

PodOf(c) == Info[sock[c].proc].pod
Captured(c) == sock[c].by # None
Remote(c) == IF Captured(c) THEN Proxy ELSE sock[c].dst
Proxied(c) == sock[c].st # "unused" /\ Remote(c) = Proxy

\* A closed connection keeps its port in TIME_WAIT for longer than the gateway
\* takes to ask for its destination; an aborted one frees it at once.
Occupied(c) == \/ sock[c].st \in {"connecting", "open"}
               \/ sock[c].st = "closed" /\ gw[c] = "queued"

\* Mutant: the destination is dialled as it is.
Forward_Kept(d) == d

\* What a gateway dials for a connection whose original destination is d.
Forward(d) == CASE Mode = "copy" -> [d EXCEPT !.port = ClusterPort]
                [] Mode = "tls"  -> [d EXCEPT !.port = ClusterTLSPort]
                [] Mode = "ai"   -> d

\* Every destination of a connection.
Destination == Dests \cup {Proxy} \cup {Forward(d) : d \in Dests \cup {Proxy}}

-----------------------------------------------------------------------------
(* cg_connect4: which program redirects a connect() of process p to d *)

\* Mutant: the proxy does not know itself.
IsMe_Forgotten(g, p) == FALSE

\* The proxy's pid is compared as a number, whatever namespace it is from.
IsMe(g, p) == Info[p].pid = Info[Main[g]].pid

Captures(g, p, d) ==
    /\ Runs(g, "connect4")
    /\ d.addr \in PodCidr
    /\ Info[p].pid \in map_pids[g]
    /\ ~IsMe(g, p)
    /\ d.port \notin {8080, 8181, ProxyPort, ClusterPort}

\* Programs run in the order of attachment.  Once one has rewritten the address
\* the others see the proxy's port, which they leave alone.
Redirects(g, p, d) ==
    \E i \in DOMAIN attached["connect4"] :
        /\ attached["connect4"][i] = g
        /\ Captures(g, p, d)
        /\ \A j \in 1 .. i - 1 : ~Captures(attached["connect4"][j], p, d)

-----------------------------------------------------------------------------
(* cg_sock_ops: what the program of gateway g does when c is established *)

\* Mutant: BPF_NOEXIST, a port keeps its first connection.
SockOps_NoExist(g, c) ==
    IF /\ Runs(g, "sockops") /\ Key(c) \in DOMAIN map_socks[g]
       /\ sock[c].port \notin DOMAIN map_ports[g]
    THEN Update(map_ports[g], sock[c].port, c)
    ELSE map_ports[g]

\* Mutant: key and value are swapped.
SockOps_Swapped(g, c) ==
    IF Runs(g, "sockops") /\ Key(c) \in DOMAIN map_socks[g]
    THEN Update(map_ports[g], c, sock[c].port)
    ELSE map_ports[g]

SockOps(g, c) ==
    IF Runs(g, "sockops") /\ Key(c) \in DOMAIN map_socks[g]
    THEN Update(map_ports[g], sock[c].port, c)
    ELSE map_ports[g]

-----------------------------------------------------------------------------
(* cg_sock_opt: the answer of g's program to SO_ORIGINAL_DST on c *)

Knows(g, c) ==
    /\ Runs(g, "sockopt")
    /\ sock[c].port \in DOMAIN map_ports[g]
    /\ Key(map_ports[g][sock[c].port]) \in DOMAIN map_socks[g]

OriginalDst(g, c) == map_socks[g][Key(map_ports[g][sock[c].port])]

\* Every program runs, and each overwrites what the one before it answered.
Answers(g, c) ==
    \E i \in DOMAIN attached["sockopt"] :
        /\ attached["sockopt"][i] = g
        /\ Knows(g, c)
        /\ \A j \in i + 1 .. Len(attached["sockopt"]) : ~Knows(attached["sockopt"][j], c)

-----------------------------------------------------------------------------
Init ==
    /\ phase = [g \in Gateways |-> "absent"]
    /\ attached = [h \in Hooks |-> <<>>]
    /\ alive = InitProcs
    /\ map_pids = [g \in Gateways |-> {}]
    /\ map_socks = [g \in Gateways |-> EmptyMap]
    /\ map_ports = [g \in Gateways |-> EmptyMap]
    /\ sock = [c \in Cookies |-> [st |-> "unused", proc |-> None, dst |-> None,
                                  by |-> None, port |-> None]]
    /\ gw = [c \in Cookies |-> "none"]
    /\ target = [c \in Cookies |-> None]

(* Gateways *)

\* A process is started, in any pod, at any time.
Spawn(p) ==
    /\ p \notin alive
    /\ \A g \in Gateways : p # Main[g]
    /\ alive' = alive \cup {p}
    /\ UNCHANGED <<gatewayVars, mapVars, connVars>>

\* Mutant: the snapshot is taken of the gateway's own process.
Load_MainOnly(g) ==
    /\ phase[g] = "absent"
    /\ phase' = [phase EXCEPT ![g] = "loaded"]
    /\ alive' = alive \cup {Main[g]}
    /\ map_pids' = [map_pids EXCEPT ![g] = {Info[Main[g]].pid}]
    /\ UNCHANGED <<attached, mapVars, connVars>>

\* main takes one snapshot of the processes in its pid namespace; LoadEPF
\* fills map_pids with it and writes the configuration.
Load(g) ==
    /\ phase[g] = "absent"
    /\ phase' = [phase EXCEPT ![g] = "loaded"]
    /\ alive' = alive \cup {Main[g]}
    /\ map_pids' = [map_pids EXCEPT ![g] =
                      {Info[p].pid : p \in {q \in alive' : Info[q].ns = Info[Main[g]].ns}}]
    /\ UNCHANGED <<attached, mapVars, connVars>>

Attach(g, h) ==
    /\ phase[g] = Previous(h)
    /\ phase' = [phase EXCEPT ![g] = h]
    /\ attached' = [attached EXCEPT ![h] = Append(@, g)]
    /\ UNCHANGED <<alive, map_pids, mapVars, connVars>>

Listen(g) ==
    /\ phase[g] = ListenAfter
    /\ phase' = [phase EXCEPT ![g] = "listening"]
    /\ UNCHANGED <<attached, alive, map_pids, mapVars, connVars>>

\* SIGTERM, a panic, or an error of LoadEPF.  The kernel closes what the
\* process had open: its programs, and both sides of its connections.
Exit(g) ==
    LET lost(c) == \/ sock[c].st = "open" /\ Proxied(c) /\ PodOf(c) = g
                   \/ sock[c].st \in {"connecting", "open"} /\ sock[c].proc = Main[g]
    IN  /\ phase[g] \notin {"absent", "exited"}
        /\ phase' = [phase EXCEPT ![g] = "exited"]
        /\ alive' = alive \ {Main[g]}
        /\ sock' = [c \in Cookies |-> IF lost(c) THEN [sock[c] EXCEPT !.st = "closed"]
                                                 ELSE sock[c]]
        /\ gw' = [c \in Cookies |-> IF gw[c] = "queued" /\ PodOf(c) = g
                                    THEN "dropped" ELSE gw[c]]
        /\ UNCHANGED <<attached, map_pids, mapVars, target>>

-----------------------------------------------------------------------------
(* Connections *)

\* A gateway dials the peers of the connections it was answered about, and, for
\* connections that come in from other gateways, the servers of its own pod.
Dials(g) == {Forward(target[c]) : c \in {k \in Cookies : gw[k] = "answered" /\ PodOf(k) = g}}
            \cup {d \in Dests : d.addr = g}

MayConnect(p, d) ==
    /\ p \in alive
    /\ IF \E g \in Gateways : p = Main[g] THEN d \in Dials(Info[p].pod) ELSE d \in Dests

\* The kernel picks a port that is free towards the remote end.
Begin(c, p, d, port, by) ==
    LET remote == IF by # None THEN Proxy ELSE d
    IN  /\ sock[c].st = "unused"
        /\ \A k \in Cookies :
              Occupied(k) /\ PodOf(k) = Info[p].pod /\ Remote(k) = remote => sock[k].port # port
        /\ sock' = [sock EXCEPT ![c] = [st |-> "connecting", proc |-> p, dst |-> d,
                                        by |-> by, port |-> port]]

Connect(p, d, port, c) ==
    /\ MayConnect(p, d)
    /\ \/ \E g \in Gateways :
            /\ Redirects(g, p, d)
            /\ Begin(c, p, d, port, g)
            /\ map_socks' = [map_socks EXCEPT ![g] = Update(@, Key(c), d)]
       \/ /\ \A g \in Gateways : ~Redirects(g, p, d)
          /\ Begin(c, p, d, port, None)
          /\ UNCHANGED map_socks
    /\ UNCHANGED <<gatewayVars, alive, map_ports, gw, target>>

\* The proxy's address is the loopback of the process that connects, whoever
\* redirected it: its own pod's gateway is the one that may be listening there.
Listening(c) == PodOf(c) \in Gateways /\ phase[PodOf(c)] = "listening"

Establish(c) ==
    /\ sock[c].st = "connecting"
    /\ Proxied(c) => Listening(c)
    /\ sock' = [sock EXCEPT ![c].st = "open"]
    /\ gw' = [gw EXCEPT ![c] = IF Proxied(c) THEN "queued" ELSE "none"]
    /\ map_ports' = [g \in Gateways |-> SockOps(g, c)]
    /\ UNCHANGED <<gatewayVars, alive, map_socks, target>>

Refuse(c) ==
    /\ sock[c].st = "connecting"
    /\ Proxied(c) => ~Listening(c)
    /\ sock' = [sock EXCEPT ![c].st = "refused"]
    /\ UNCHANGED <<gatewayVars, alive, mapVars, gw, target>>

\* findTargetFromConnection in the goroutine of the accepted connection.  With
\* no program's answer the kernel's stands: the address of the proxy itself if
\* the connection is tracked, else an error, and the connection is closed.
Answer(c) ==
    /\ gw[c] = "queued"
    /\ \/ \E g \in Gateways :
            /\ Answers(g, c)
            /\ gw' = [gw EXCEPT ![c] = "answered"]
            /\ target' = [target EXCEPT ![c] = OriginalDst(g, c)]
            /\ UNCHANGED sock
       \/ /\ PodOf(c) \in Tracking
          /\ \A g \in Gateways : ~Answers(g, c)
          /\ gw' = [gw EXCEPT ![c] = "answered"]
          /\ target' = [target EXCEPT ![c] = Proxy]
          /\ UNCHANGED sock
       \/ /\ PodOf(c) \notin Tracking
          /\ \A g \in Gateways : ~Answers(g, c)
          /\ gw' = [gw EXCEPT ![c] = "dropped"]
          /\ sock' = [sock EXCEPT ![c].st = IF @ = "open" THEN "closed" ELSE @]
          /\ UNCHANGED target
    /\ UNCHANGED <<gatewayVars, alive, mapVars>>

Close(c) ==
    /\ sock[c].st = "open"
    /\ sock' = [sock EXCEPT ![c].st = "closed"]
    /\ UNCHANGED <<gatewayVars, alive, mapVars, gw, target>>

\* A reset before the gateway has asked for the destination.
Abort(c) ==
    /\ sock[c].st = "open"
    /\ gw[c] = "queued"
    /\ sock' = [sock EXCEPT ![c].st = "aborted"]
    /\ UNCHANGED <<gatewayVars, alive, mapVars, gw, target>>

-----------------------------------------------------------------------------
Startup(g) == (\E h \in Hooks : Attach(g, h)) \/ Listen(g)

Next ==
    \/ \E p \in Procs : Spawn(p)
    \/ \E g \in Gateways : Load(g) \/ Startup(g) \/ Exit(g)
    \/ \E c \in Cookies :
        \/ \E p \in Procs, d \in Destination, port \in Ports : Connect(p, d, port, c)
        \/ Establish(c) \/ Refuse(c) \/ Answer(c) \/ Close(c) \/ Abort(c)

Spec == Init /\ [][Next]_vars

\* The startup of a gateway runs to its end unless it exits; the kernel finishes
\* a handshake; a goroutine that was started runs.  Nothing else has to happen.
Fairness ==
    /\ \A g \in Gateways : WF_vars(Startup(g))
    /\ \A c \in Cookies : WF_vars(Establish(c)) /\ WF_vars(Refuse(c)) /\ WF_vars(Answer(c))

FairSpec == Spec /\ Fairness

-----------------------------------------------------------------------------
(* Properties *)

Keys == {Key(c) : c \in Cookies}
PartialMap(S, T) == UNION {[D -> T] : D \in SUBSET S}

SockOK ==
    /\ sock \in [Cookies -> [st : {"unused", "connecting", "open", "refused", "closed", "aborted"},
                           proc : Procs \cup {None}, dst : Destination \cup {None},
                           by : Gateways \cup {None}, port : Ports \cup {None}]]
    /\ \A c \in Cookies :
        IF sock[c].st = "unused" THEN ~Captured(c)
        ELSE sock[c].proc \in Procs /\ sock[c].dst \in Destination /\ sock[c].port \in Ports

\* The state has its types: the maps are partial functions with the key and
\* value types of mirrors.h, a connection names who opened and captured it.
TypeOK ==
    /\ phase \in [Gateways -> {"absent", "loaded", "listening", "exited"} \cup Hooks]
    /\ attached \in [Hooks -> Seq(Gateways)]
    /\ alive \subseteq Procs
    /\ map_pids \in [Gateways -> SUBSET Nat]
    /\ map_socks \in [Gateways -> PartialMap(Keys, Destination)]
    /\ map_ports \in [Gateways -> PartialMap(Ports, Cookies)]
    /\ SockOK
    /\ gw \in [Cookies -> {"none", "queued", "answered", "dropped"}]
    /\ target \in [Cookies -> Destination \cup {None}]

\* Transparency: what the gateway is told about a connection that was redirected
\* to it, and not reset before it asked, is where the application wanted to go.
\* It is the answer of three programs and two maps that nothing ever cleans.
RightTarget ==
    \A c \in Cookies :
        Captured(c) /\ gw[c] = "answered" /\ sock[c].st # "aborted" => target[c] = sock[c].dst

\* A source port leads to the one connection that is waiting under it, however
\* many connections have used that port before (map_ports is never cleaned).
PortLeadsToOwner ==
    \A c \in Cookies, g \in Gateways :
        Captured(c) /\ gw[c] = "queued" /\ sock[c].st # "aborted" =>
            sock[c].port \in DOMAIN map_ports[g] /\ map_ports[g][sock[c].port] = c

\* "This prevents the proxy from proxying itself": no connection that a gateway
\* opens ends at a proxy, be it redirected there or dialled.
NoSelfProxy ==
    \A c \in Cookies, g \in Gateways : sock[c].proc = Main[g] => ~Proxied(c)

\* A pid that map_pids lacks "isn't in this pod" (mirrors.c:79): no process of another
\* pod is redirected.  It does not hold: the same pids occur in every namespace.
OnlyThisPod == \A c \in Cookies : Captured(c) => sock[c].by = PodOf(c)

\* A gateway that is up handles all traffic of its application into the cluster:
\* no process of its container gets past it.
AllCaptured ==
    [][\A c \in Cookies :
        /\ sock[c].st = "unused" /\ sock'[c].st = "connecting"
        /\ sock'[c].dst.addr \in PodCidr
        /\ \E g \in Gateways : /\ phase[g] = "listening" /\ sock'[c].proc # Main[g]
                               /\ Info[sock'[c].proc].ns = Info[Main[g]].ns
        => Captured(c)']_vars

\* Attaching a gateway to a running pod breaks none of the connections the pod
\* opens meanwhile: a redirected connection finds a listener while its gateway lives.
NoneRefused ==
    \A c \in Cookies :
        Captured(c) /\ sock[c].st = "refused" => phase[sock[c].by] = "exited"

\* A redirected connection is handed to its destination, unless it is closed
\* before that or its gateway is not listening.
Served ==
    \A c \in Cookies :
        Captured(c) ~> \/ gw[c] = "answered" /\ target[c] = sock[c].dst
                       \/ gw[c] = "dropped" /\ phase[PodOf(c)] = "exited"
                       \/ sock[c].st \in {"refused", "aborted"}

\* The inductive invariant behind RightTarget, for one gateway on the node, keys
\* that tell the cookies apart, and maps with room for every connection.

OneGateway == \E g \in Pods : Gateways = {g}
KeysDistinct == \A c, k \in Cookies : Key(c) = Key(k) => c = k
RoomForAll == IsFiniteSet(Cookies) /\ Cardinality(Cookies) <= MapSize
Scope == OneGateway /\ KeysDistinct /\ RoomForAll

\* What is waiting for an answer was established when all hooks were in place.
QueuedAtListener ==
    \A c \in Cookies :
        /\ gw[c] # "none" => sock[c].st \in {"open", "closed", "aborted"}
        /\ gw[c] = "queued" => Proxied(c) /\ Listening(c)

ListenersAnswer ==
    \A g \in Gateways :
        phase[g] \in {"sockopt", "listening"} => attached["sockopt"] # <<>>

\* map_socks holds the redirected connections, and map_ports some of those.
SocksHoldCaptured ==
    \A g \in Gateways :
        /\ \A c \in Cookies : Captured(c) =>
               Key(c) \in DOMAIN map_socks[g] /\ map_socks[g][Key(c)] = sock[c].dst
        /\ \A k \in DOMAIN map_socks[g] : \E c \in Cookies : Captured(c) /\ Key(c) = k

PortsHoldCaptured ==
    \A g \in Gateways, c \in Cookies : \A p \in DOMAIN map_ports[g] :
        map_ports[g][p] = c => Captured(c) /\ sock[c].st # "connecting" /\ sock[c].port = p

\* The 4-tuples of the live redirected connections differ, so their ports do.
PortsDiffer ==
    \A c, k \in Cookies :
        /\ c # k /\ Captured(c) /\ Captured(k)
        /\ Occupied(c) /\ Occupied(k) /\ PodOf(c) = PodOf(k)
        => sock[c].port # sock[k].port

IInv ==
    /\ TypeOK
    /\ QueuedAtListener
    /\ ListenersAnswer
    /\ SocksHoldCaptured
    /\ PortsHoldCaptured
    /\ PortsDiffer
    /\ PortLeadsToOwner
    /\ RightTarget

\* With several gateways, in whose pods the same pids occur: connections that differ
\* in their pod, or in the gateway that redirected them, had different ports.
PortsApart ==
    \A c, k \in Cookies :
        /\ Captured(c) /\ Captured(k)
        /\ sock[c].by # sock[k].by \/ PodOf(c) # PodOf(k)
        => sock[c].port # sock[k].port

\* Where it wanted to go, or - if another pod's gateway has redirected it, whose
\* programs were not all there - the proxy's own address, which is the kernel's answer.
ToldRight(c) ==
    \/ target[c] = sock[c].dst
    \/ sock[c].by # PodOf(c) /\ target[c] = Proxy

\* As long as ports are apart, gateways that share a node are told the right
\* destinations, whichever of them has redirected a connection.
RightTargetApart ==
    PortsApart =>
        \A c \in Cookies :
            Captured(c) /\ gw[c] = "answered" /\ sock[c].st # "aborted" => ToldRight(c)

\* The inductive invariant behind it: every gateway's maps hold the connections
\* that its own program redirected.
SocksHoldOwn ==
    /\ \A c \in Cookies : Captured(c) =>
          /\ Key(c) \in DOMAIN map_socks[sock[c].by]
          /\ map_socks[sock[c].by][Key(c)] = sock[c].dst
    /\ \A g \in Gateways : \A k \in DOMAIN map_socks[g] :
          \E c \in Cookies : sock[c].by = g /\ Key(c) = k

PortsHoldOwn ==
    \A g \in Gateways, c \in Cookies : \A p \in DOMAIN map_ports[g] :
        map_ports[g][p] = c => sock[c].by = g /\ sock[c].st # "connecting" /\ sock[c].port = p

\* A gateway records nothing before its second program is attached.
EarlyEmpty ==
    \A g \in Gateways : phase[g] \in {"absent", "loaded", "connect4"} => DOMAIN map_ports[g] = {}

\* What waits for an answer is recorded by its own pod's gateway, if that has
\* redirected it; and no gateway's record of its port is of another connection.
PortLeadsToOwn ==
    \A c \in Cookies :
        Captured(c) /\ gw[c] = "queued" /\ sock[c].st # "aborted" =>
            LET ports == map_ports[sock[c].by]
            IN  /\ sock[c].by = PodOf(c) => sock[c].port \in DOMAIN ports
                /\ phase[sock[c].by] # "exited" /\ sock[c].port \in DOMAIN ports =>
                       ports[sock[c].port] = c

\* Who answers for connections is there to be asked, and no later program is its own.
OwnAnswers ==
    \A g \in Gateways : Runs(g, "sockopt") =>
        \E i \in DOMAIN attached["sockopt"] :
            /\ attached["sockopt"][i] = g
            /\ \A j \in i + 1 .. Len(attached["sockopt"]) : attached["sockopt"][j] # g

OwnInv ==
    /\ TypeOK
    /\ QueuedAtListener
    /\ OwnAnswers
    /\ SocksHoldOwn
    /\ PortsHoldOwn
    /\ EarlyEmpty
    /\ PortsDiffer
    /\ PortsApart => PortLeadsToOwn
    /\ RightTargetApart

Transparent == INSTANCE Redirection WITH
    wanted <- [c \in Cookies |-> IF Captured(c) THEN sock[c].dst ELSE None],
    told <- [c \in Cookies |-> IF Captured(c) /\ sock[c].st # "aborted"
                              THEN target[c] ELSE None],
    lost <- {c \in Cookies : Captured(c) /\ (sock[c].st \in {"refused", "aborted"}
                                            \/ gw[c] = "dropped")}

\* The data plane implements transparent redirection.
RedirectionSpec == Transparent!Spec
=============================================================================
