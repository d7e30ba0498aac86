---------------------------- MODULE MirrorsProofs ----------------------------
(***************************************************************************)
(* Theorems about Mirrors, for every value of its constants.               *)
(***************************************************************************)
EXTENDS Mirrors, FiniteSetTheorems, TLAPS

-----------------------------------------------------------------------------
(* The maps *)

\* An update keeps the type of a map, fit or not.
LEMMA UpdateType ==
  ASSUME NEW S, NEW T, NEW m \in PartialMap(S, T), NEW k \in S, NEW v \in T
  PROVE  Update(m, k, v) \in PartialMap(S, T)
<1>1. PICK D \in SUBSET S : m \in [D -> T]
  BY DEF PartialMap
<1>2. CASE k \in DOMAIN m \/ Cardinality(DOMAIN m) < MapSize
  <2>1. Update(m, k, v) \in [D \cup {k} -> T]
    BY <1>1, <1>2 DEF Update
  <2>. QED
    BY <2>1 DEF PartialMap
<1>3. CASE ~(k \in DOMAIN m \/ Cardinality(DOMAIN m) < MapSize)
  BY <1>3 DEF Update
<1>. QED
  BY <1>2, <1>3

\* Whatever is counted by images of all connections but one leaves room for one more.
LEMMA ImageLeavesRoom ==
  ASSUME RoomForAll, NEW c \in Cookies, NEW f, NEW D,
         D \subseteq {f[k] : k \in Cookies \ {c}}
  PROVE  Cardinality(D) < MapSize
<1> DEFINE E == Cookies \ {c}
           T == {f[k] : k \in E}
           h == [k \in E |-> f[k]]
<1>1. IsFiniteSet(E) /\ Cardinality(E) = Cardinality(Cookies) - 1
  BY FS_RemoveElement DEF RoomForAll
<1>2. h \in Surjection(E, T)
  BY DEF Surjection
<1>3. IsFiniteSet(T) /\ Cardinality(T) <= Cardinality(E)
  <2>. HIDE DEF E, T, h
  <2>. QED  BY <1>1, <1>2, FS_Surjection
<1>4. IsFiniteSet(D) /\ Cardinality(D) <= Cardinality(T)
  <2>1. D \in SUBSET T
    OBVIOUS
  <2>. HIDE DEF T
  <2>. QED  BY <1>3, <2>1, FS_Subset
<1>5. Cardinality(D) \in Nat /\ Cardinality(T) \in Nat /\ Cardinality(Cookies) \in Nat
  <2>. HIDE DEF T
  <2>. QED  BY <1>3, <1>4, FS_CardinalityType DEF RoomForAll
<1>. QED
  <2>. HIDE DEF T, E
  <2>. QED  BY <1>1, <1>3, <1>4, <1>5, KernelAssumption DEF RoomForAll

-----------------------------------------------------------------------------
(* The type invariant *)

LEMMA DestinationFacts == Proxy \in Destination /\ Dests \subseteq Destination
BY DEF Destination

LEMMA InitType == Init => TypeOK
<1>. SUFFICES ASSUME Init PROVE TypeOK
  OBVIOUS
<1>1. EmptyMap \in PartialMap(Keys, Destination) /\ EmptyMap \in PartialMap(Ports, Cookies)
  BY DEF EmptyMap, PartialMap
<1>2. attached \in [Hooks -> Seq(Gateways)]
  BY DEF Init
<1>. QED
  BY <1>1, <1>2, ProcsAssumption DEF Init, TypeOK, SockOK, Captured

\* The part of the type invariant that a step keeps when it only moves the
\* connection c along.
LEMMA MoveType ==
  ASSUME TypeOK, NEW c \in Cookies, sock[c].st # "unused",
         NEW st \in {"open", "refused", "closed", "aborted"},
         sock' = [sock EXCEPT ![c].st = st]
  PROVE  SockOK'
BY DEF TypeOK, SockOK, Captured

LEMMA StepType == TypeOK /\ [Next]_vars => TypeOK'
<1>. SUFFICES ASSUME TypeOK, [Next]_vars PROVE TypeOK'
  OBVIOUS
<1>. USE DestinationFacts
<1>1. ASSUME NEW p \in Procs, Spawn(p) PROVE TypeOK'
  BY <1>1 DEF TypeOK, Spawn, gatewayVars, mapVars, connVars, SockOK, Captured
<1>2. ASSUME NEW g \in Gateways, Load(g) PROVE TypeOK'
  <2>. DEFINE seen == {q \in alive' : Info[q].ns = Info[Main[g]].ns}
  <2>1. alive' \subseteq Procs
    <3>1. alive' = alive \cup {Main[g]}
      BY <1>2 DEF Load
    <3>2. Main[g] \in Procs
      BY ProcsAssumption
    <3>. QED
      BY <3>1, <3>2 DEF TypeOK
  <2>2. {Info[p].pid : p \in seen} \subseteq Nat
    <3>1. \A p \in seen : Info[p].pid \in Nat
      BY <2>1, ProcsAssumption
    <3>. QED
      BY <3>1
  <2>3. map_pids' = [map_pids EXCEPT ![g] = {Info[p].pid : p \in seen}]
    BY <1>2 DEF Load
  <2>4. map_pids' \in [Gateways -> SUBSET Nat]
    <3>. HIDE DEF seen
    <3>. QED
      BY <2>2, <2>3 DEF TypeOK
  <2>. QED
    BY <1>2, <2>1, <2>4 DEF TypeOK, Load, mapVars, connVars, SockOK, Captured
<1>3. ASSUME NEW g \in Gateways, NEW h \in Hooks, Attach(g, h) PROVE TypeOK'
  <2>1. attached' \in [Hooks -> Seq(Gateways)]
    BY <1>3 DEF TypeOK, Attach
  <2>. QED
    BY <1>3, <2>1 DEF TypeOK, Attach, mapVars, connVars, SockOK, Captured
<1>4. ASSUME NEW g \in Gateways, Listen(g) PROVE TypeOK'
  BY <1>4 DEF TypeOK, Listen, mapVars, connVars, SockOK, Captured
<1>5. ASSUME NEW g \in Gateways, Exit(g) PROVE TypeOK'
  <2>. DEFINE Sockets == [st : {"unused", "connecting", "open", "refused", "closed", "aborted"},
                          proc : Procs \cup {None}, dst : Destination \cup {None},
                          by : Gateways \cup {None}, port : Ports \cup {None}]
  <2>1. sock \in [Cookies -> Sockets]
    BY DEF TypeOK, SockOK
  <2>2. \A c \in Cookies :
          \/ sock'[c] = sock[c]
          \/ sock[c].st # "unused" /\ sock'[c] = [sock[c] EXCEPT !.st = "closed"]
    BY <1>5 DEF Exit
  <2>3. sock' = [c \in Cookies |-> sock'[c]]
    BY <1>5 DEF Exit
  <2>4. SockOK'
    <3>1. ASSUME NEW c \in Cookies
          PROVE  /\ sock'[c] \in Sockets
                 /\ (sock'[c].st = "unused") <=> (sock[c].st = "unused")
                 /\ sock'[c].proc = sock[c].proc /\ sock'[c].dst = sock[c].dst
                 /\ sock'[c].by = sock[c].by /\ sock'[c].port = sock[c].port
      <4>1. sock[c] \in Sockets
        BY <2>1
      <4>2. CASE sock'[c] = sock[c]
        BY <4>1, <4>2
      <4>3. CASE sock[c].st # "unused" /\ sock'[c] = [sock[c] EXCEPT !.st = "closed"]
        BY <4>1, <4>3
      <4>. QED
        BY <2>2, <4>2, <4>3
    <3>2. sock' \in [Cookies -> Sockets]
      BY <2>3, <3>1
    <3>. QED
      BY <3>1, <3>2 DEF TypeOK, SockOK, Captured
  <2>5. gw' \in [Cookies -> {"none", "queued", "answered", "dropped"}]
    BY <1>5 DEF TypeOK, Exit
  <2>6. phase' \in [Gateways -> {"absent", "loaded", "listening", "exited"} \cup Hooks] /\ alive' \subseteq Procs
    BY <1>5 DEF TypeOK, Exit
  <2>. QED
    BY <1>5, <2>4, <2>5, <2>6 DEF TypeOK, Exit, mapVars
<1>6. ASSUME NEW c \in Cookies, NEW p \in Procs, NEW d \in Destination, NEW port \in Ports,
             Connect(p, d, port, c)
      PROVE  TypeOK'
  <2>1. ASSUME NEW by \in Gateways \cup {None}, Begin(c, p, d, port, by)
        PROVE  SockOK'
    BY <2>1 DEF TypeOK, Begin, SockOK, Captured
  <2>2. map_socks' \in [Gateways -> PartialMap(Keys, Destination)]
    <3>1. Key(c) \in Keys
      BY DEF Keys
    <3>2. \A g \in Gateways : Update(map_socks[g], Key(c), d) \in PartialMap(Keys, Destination)
      BY <3>1, UpdateType DEF TypeOK
    <3>. QED
      BY <1>6, <3>2 DEF TypeOK, Connect
  <2>. QED
    BY <1>6, <2>1, <2>2 DEF TypeOK, Connect, gatewayVars
<1>7. ASSUME NEW c \in Cookies, Establish(c) PROVE TypeOK'
  <2>1. \A g \in Gateways : SockOps(g, c) \in PartialMap(Ports, Cookies)
    <3>. TAKE g \in Gateways
    <3>1. sock[c].port \in Ports
      BY <1>7 DEF TypeOK, SockOK, Establish
    <3>2. Update(map_ports[g], sock[c].port, c) \in PartialMap(Ports, Cookies)
      BY <3>1, UpdateType DEF TypeOK
    <3>. QED
      BY <3>2 DEF SockOps, TypeOK
  <2>2. map_ports' \in [Gateways -> PartialMap(Ports, Cookies)]
    BY <1>7, <2>1 DEF Establish
  <2>. QED
    BY <1>7, <2>2, MoveType DEF TypeOK, Establish, gatewayVars
<1>8. ASSUME NEW c \in Cookies, Refuse(c) PROVE TypeOK'
  BY <1>8, MoveType DEF TypeOK, Refuse, gatewayVars, mapVars
<1>9. ASSUME NEW c \in Cookies, Answer(c) PROVE TypeOK'
  <2>1. ASSUME NEW g \in Gateways, Answers(g, c) PROVE OriginalDst(g, c) \in Destination
    BY <2>1 DEF Answers, Knows, OriginalDst, TypeOK, PartialMap
  <2>2. CASE UNCHANGED sock
    BY <1>9, <2>1, <2>2 DEF TypeOK, Answer, gatewayVars, mapVars, SockOK, Captured
  <2>3. CASE sock' = [sock EXCEPT ![c].st = IF @ = "open" THEN "closed" ELSE @]
    <3>1. CASE sock[c].st = "open"
      <4>1. sock' = [sock EXCEPT ![c].st = "closed"]
        BY <2>3, <3>1
      <4>. QED
        BY <1>9, <2>1, <3>1, <4>1, MoveType DEF TypeOK, Answer, gatewayVars, mapVars
    <3>2. CASE sock[c].st # "open"
      <4>1. sock' = sock
        BY <2>3, <3>2 DEF TypeOK, SockOK
      <4>. QED
        BY <1>9, <2>2, <4>1 DEF TypeOK, Answer, gatewayVars, mapVars, SockOK, Captured
    <3>. QED
      BY <3>1, <3>2
  <2>. QED
    BY <1>9, <2>2, <2>3 DEF Answer
<1>10. ASSUME NEW c \in Cookies, Close(c) PROVE TypeOK'
  BY <1>10, MoveType DEF TypeOK, Close, gatewayVars, mapVars
<1>11. ASSUME NEW c \in Cookies, Abort(c) PROVE TypeOK'
  BY <1>11, MoveType DEF TypeOK, Abort, gatewayVars, mapVars
<1>12. CASE UNCHANGED vars
  BY <1>12 DEF TypeOK, vars, gatewayVars, mapVars, connVars, SockOK, Captured
<1>. QED
  BY <1>1, <1>2, <1>3, <1>4, <1>5, <1>6, <1>7, <1>8, <1>9, <1>10, <1>11, <1>12
  DEF Next, Startup

\* The state keeps its types, whatever the gateways, processes and maps are.
THEOREM TypeCorrect == Spec => []TypeOK
BY InitType, StepType, PTL DEF Spec

-----------------------------------------------------------------------------
(* RightTarget, for one gateway on the node *)

LEMMA InitInv == Init => IInv
<1>1. ASSUME Init PROVE \A c \in Cookies : ~Captured(c) /\ gw[c] = "none"
  BY <1>1 DEF Init, Captured
<1>. QED
  BY <1>1, InitType DEF Init, IInv, QueuedAtListener, ListenersAnswer, SocksHoldCaptured,
     PortsHoldCaptured, PortsDiffer, PortLeadsToOwner, RightTarget, EmptyMap

\* The parts of the invariant about the connections and what the maps say of them.
ConnInv ==
    /\ SocksHoldCaptured
    /\ PortsHoldCaptured
    /\ PortsDiffer
    /\ PortLeadsToOwner
    /\ RightTarget

\* A step that moves connection c to the state st changes nothing else of any.
LEMMA MoveConn ==
  ASSUME TypeOK, NEW c \in Cookies, NEW st, sock' = [sock EXCEPT ![c].st = st]
  PROVE  \A k \in Cookies :
            /\ sock'[k].by = sock[k].by /\ sock'[k].dst = sock[k].dst
            /\ sock'[k].proc = sock[k].proc /\ sock'[k].port = sock[k].port
            /\ sock'[k].st = IF k = c THEN st ELSE sock[k].st
<1>. TAKE k \in Cookies
<1>1. CASE k = c
  BY <1>1 DEF TypeOK, SockOK
<1>2. CASE k # c
  <2>1. sock'[k] = sock[k]
    BY <1>2 DEF TypeOK, SockOK
  <2>. QED
    BY <1>2, <2>1
<1>. QED
  BY <1>1, <1>2

OnlyEnds ==
    \A c \in Cookies :
        /\ sock'[c].by = sock[c].by /\ sock'[c].dst = sock[c].dst
        /\ sock'[c].proc = sock[c].proc /\ sock'[c].port = sock[c].port
        /\ \/ sock'[c].st = sock[c].st
           \/ /\ sock[c].st \in {"connecting", "open"}
              /\ sock'[c].st \in {"refused", "closed", "aborted"}
        /\ gw'[c] = gw[c] \/ gw'[c] = "dropped"

\* A step that captures, establishes and answers nothing keeps them: connections
\* only end, and the maps and the answers given stay.
LEMMA Retire ==
  ASSUME IInv, UNCHANGED map_socks, UNCHANGED map_ports, UNCHANGED target,
         OnlyEnds
  PROVE  ConnInv'
<1>. USE DEF IInv, ConnInv, OnlyEnds
<1>1. UNCHANGED map_socks /\ UNCHANGED map_ports /\ UNCHANGED target
  OBVIOUS
<1>2. \A c \in Cookies : Captured(c)' <=> Captured(c)
  BY DEF Captured
<1>3. \A c \in Cookies : Occupied(c)' => Occupied(c)
  BY DEF Occupied
<1>4. \A c \in Cookies : PodOf(c)' = PodOf(c)
  BY DEF PodOf
<1>5. SocksHoldCaptured'
  BY <1>1, <1>2 DEF SocksHoldCaptured
<1>6. PortsHoldCaptured'
  BY <1>1, <1>2 DEF PortsHoldCaptured
<1>7. PortsDiffer'
  BY <1>2, <1>3, <1>4 DEF PortsDiffer
<1>8. PortLeadsToOwner'
  BY <1>1, <1>2 DEF PortLeadsToOwner
<1>9. RightTarget'
  BY <1>1, <1>2 DEF RightTarget
<1>. QED
  BY <1>5, <1>6, <1>7, <1>8, <1>9

\* A step that leaves the connections and the maps alone keeps them.
LEMMA Frame == ASSUME IInv, UNCHANGED <<mapVars, connVars>> PROVE ConnInv'
<1>1. /\ map_socks' = map_socks /\ map_ports' = map_ports
      /\ sock' = sock /\ gw' = gw /\ target' = target
  BY DEF connVars, mapVars
<1>2. OnlyEnds
  BY <1>1 DEF OnlyEnds
<1>. QED
  BY <1>1, <1>2, Retire

\* A connection is captured under a key of its own, with room to spare, and under
\* a port that no live connection to the same proxy has.
LEMMA ConnectInv ==
  ASSUME Scope, IInv, NEW p \in Procs, NEW d \in Destination, NEW port \in Ports,
         NEW c \in Cookies, Connect(p, d, port, c)
  PROVE  ConnInv' /\ QueuedAtListener'
<1>. USE DEF IInv, ConnInv
<1>. PICK by \in Gateways \cup {None} :
        /\ Begin(c, p, d, port, by)
        /\ IF by = None THEN UNCHANGED map_socks
           ELSE map_socks' = [map_socks EXCEPT ![by] = Update(@, Key(c), d)]
  BY PodsAssumption DEF Connect
<1>1. /\ UNCHANGED <<phase, map_ports, gw, target>>
      /\ gw[c] = "none" /\ ~Captured(c) /\ ~Occupied(c)
  <2>1. sock[c].st = "unused"
    BY DEF Begin
  <2>. QED
    BY <2>1 DEF Connect, gatewayVars, QueuedAtListener, TypeOK, SockOK, Occupied
<1>2. /\ \A k \in Cookies \ {c} : sock'[k] = sock[k]
      /\ sock'[c] = [st |-> "connecting", proc |-> p, dst |-> d, by |-> by, port |-> port]
  BY DEF Begin, TypeOK, SockOK
<1>3. /\ \A k \in Cookies \ {c} :
            /\ Captured(k)' <=> Captured(k)
            /\ Occupied(k)' <=> Occupied(k)
            /\ PodOf(k)' = PodOf(k)
            /\ Proxied(k)' <=> Proxied(k)
            /\ Listening(k)' <=> Listening(k)
      /\ Captured(c)' <=> by # None
      /\ PodOf(c)' = Info[p].pod
  BY <1>1, <1>2 DEF Captured, Occupied, PodOf, Proxied, Remote, Listening
<1>4. QueuedAtListener'
  BY <1>1, <1>2, <1>3 DEF QueuedAtListener
<1>5. SocksHoldCaptured'
  <2>1. CASE by = None
    <3>1. map_socks' = map_socks /\ \A k \in Cookies : Captured(k)' <=> Captured(k)
      BY <1>1, <1>3, <2>1
    <3>. QED
      BY <1>1, <1>2, <3>1 DEF SocksHoldCaptured
  <2>2. CASE by # None
    <3>. SUFFICES ASSUME NEW g \in Gateways
                  PROVE  /\ \A k \in Cookies : Captured(k)' =>
                              Key(k) \in DOMAIN map_socks'[g] /\ map_socks'[g][Key(k)] = sock'[k].dst
                         /\ \A x \in DOMAIN map_socks'[g] : \E k \in Cookies : Captured(k)' /\ Key(k) = x
      BY DEF SocksHoldCaptured
    <3>1. map_socks'[g] = Update(map_socks[g], Key(c), d)
      BY <2>2 DEF Scope, OneGateway, TypeOK
    <3>2. Cardinality(DOMAIN map_socks[g]) < MapSize
      <4>. DEFINE f == [k \in Cookies |-> Key(k)]
      <4>1. DOMAIN map_socks[g] \subseteq {f[k] : k \in Cookies \ {c}}
        BY <1>1 DEF SocksHoldCaptured
      <4>. QED
        BY <4>1, ImageLeavesRoom DEF Scope
    <3>3. /\ DOMAIN map_socks'[g] = DOMAIN map_socks[g] \cup {Key(c)}
          /\ map_socks'[g][Key(c)] = d
          /\ \A x \in DOMAIN map_socks[g] \ {Key(c)} : map_socks'[g][x] = map_socks[g][x]
      BY <3>1, <3>2 DEF Update
    <3>4. \A k \in Cookies \ {c} : Key(k) # Key(c)
      BY DEF Scope, KeysDistinct
    <3>. QED
      BY <1>2, <1>3, <2>2, <3>3, <3>4 DEF SocksHoldCaptured
  <2>. QED
    BY <2>1, <2>2
<1>6. PortsHoldCaptured'
  BY <1>1, <1>2, <1>3 DEF PortsHoldCaptured
<1>7. PortsDiffer'
  <2>1. ASSUME NEW k \in Cookies \ {c}, by # None, Captured(k), Occupied(k), PodOf(k) = Info[p].pod
        PROVE  sock[k].port # port
    BY <2>1 DEF Begin, Remote
  <2>. QED
    BY <1>2, <1>3, <2>1 DEF PortsDiffer
<1>8. PortLeadsToOwner'
  BY <1>1, <1>2, <1>3 DEF PortLeadsToOwner
<1>9. RightTarget'
  BY <1>1, <1>2, <1>3 DEF RightTarget
<1>. QED
  BY <1>4, <1>5, <1>6, <1>7, <1>8, <1>9

\* When a connection is established, all hooks of its gateway are in place, and
\* the entry it gets for its port replaces no entry of a waiting connection.
LEMMA EstablishInv ==
  ASSUME Scope, IInv, NEW c \in Cookies, Establish(c)
  PROVE  ConnInv' /\ QueuedAtListener'
<1>. USE DEF IInv, ConnInv
<1>1. /\ UNCHANGED <<phase, map_socks, target>>
      /\ sock[c].st = "connecting" /\ gw[c] = "none"
      /\ \A k \in Cookies \ {c} : sock'[k] = sock[k] /\ gw'[k] = gw[k]
      /\ sock'[c].st = "open" /\ sock'[c].by = sock[c].by /\ sock'[c].dst = sock[c].dst
      /\ sock'[c].proc = sock[c].proc /\ sock'[c].port = sock[c].port
      /\ gw'[c] = IF Proxied(c) THEN "queued" ELSE "none"
      /\ Proxied(c) => Listening(c)
  BY DEF Establish, gatewayVars, TypeOK, SockOK, QueuedAtListener
<1>2. \A k \in Cookies :
        /\ Captured(k)' <=> Captured(k)
        /\ Occupied(k)' => Occupied(k)
        /\ PodOf(k)' = PodOf(k)
        /\ Proxied(k)' <=> Proxied(k)
        /\ Listening(k)' <=> Listening(k)
  BY <1>1 DEF Captured, Occupied, PodOf, Proxied, Remote, Listening
<1>3. QueuedAtListener'
  BY <1>1, <1>2 DEF QueuedAtListener
<1>4. SocksHoldCaptured'
  BY <1>1, <1>2 DEF SocksHoldCaptured
<1>5. PortsDiffer'
  BY <1>1, <1>2 DEF PortsDiffer
<1>6. RightTarget'
  BY <1>1, <1>2 DEF RightTarget
<1>7. CASE ~Captured(c)
  <2>1. \A g \in Gateways : Key(c) \notin DOMAIN map_socks[g]
    BY <1>7 DEF SocksHoldCaptured, Scope, KeysDistinct
  <2>2. map_ports' = map_ports
    <3>1. \A g \in Gateways : map_ports'[g] = map_ports[g]
      BY <2>1 DEF Establish, SockOps
    <3>. QED
      BY <3>1 DEF Establish, TypeOK
  <2>3. PortsHoldCaptured'
    BY <1>1, <1>2, <2>2 DEF PortsHoldCaptured
  <2>4. PortLeadsToOwner'
    BY <1>1, <1>2, <1>7, <2>2 DEF PortLeadsToOwner
  <2>. QED
    BY <1>3, <1>4, <1>5, <1>6, <2>3, <2>4
<1>8. CASE Captured(c)
  <2>. PICK g : Gateways = {g}
    BY DEF Scope, OneGateway
  <2>1. Proxied(c) /\ PodOf(c) = g /\ phase[g] = "listening"
    BY <1>1, <1>8 DEF Proxied, Remote, Listening
  <2>2. map_ports'[g] = Update(map_ports[g], sock[c].port, c)
    BY <1>8, <2>1 DEF Establish, SockOps, Runs, SocksHoldCaptured
  <2>3. Cardinality(DOMAIN map_ports[g]) < MapSize
    <3>. DEFINE f == [k \in Cookies |-> sock[k].port]
    <3>1. \A q \in DOMAIN map_ports[g] :
            map_ports[g][q] \in Cookies \ {c} /\ sock[map_ports[g][q]].port = q
      BY <1>1 DEF TypeOK, PartialMap, PortsHoldCaptured
    <3>2. DOMAIN map_ports[g] \subseteq {f[k] : k \in Cookies \ {c}}
      BY <3>1
    <3>. QED
      BY <3>2, ImageLeavesRoom DEF Scope
  <2>4. /\ DOMAIN map_ports'[g] = DOMAIN map_ports[g] \cup {sock[c].port}
        /\ map_ports'[g][sock[c].port] = c
        /\ \A x \in DOMAIN map_ports[g] \ {sock[c].port} : map_ports'[g][x] = map_ports[g][x]
    BY <2>2, <2>3 DEF Update
  <2>5. PortsHoldCaptured'
    <3>. SUFFICES ASSUME NEW k \in Cookies, NEW q \in DOMAIN map_ports'[g], map_ports'[g][q] = k
                  PROVE  Captured(k)' /\ sock'[k].st # "connecting" /\ sock'[k].port = q
      BY DEF PortsHoldCaptured
    <3>1. CASE q = sock[c].port
      BY <1>1, <1>2, <1>8, <2>4, <3>1
    <3>2. CASE q # sock[c].port
      <4>1. q \in DOMAIN map_ports[g] /\ map_ports[g][q] = k
        BY <2>4, <3>2
      <4>. QED
        BY <1>1, <1>2, <4>1 DEF PortsHoldCaptured
    <3>. QED
      BY <3>1, <3>2
  <2>6. PortLeadsToOwner'
    <3>. SUFFICES ASSUME NEW k \in Cookies, Captured(k)', gw'[k] = "queued", sock'[k].st # "aborted"
                  PROVE  sock'[k].port \in DOMAIN map_ports'[g] /\ map_ports'[g][sock'[k].port] = k
      BY DEF PortLeadsToOwner
    <3>1. CASE k = c
      BY <1>1, <2>4, <3>1
    <3>2. CASE k # c
      <4>1. Captured(k) /\ gw[k] = "queued" /\ sock[k].st # "aborted" /\ sock'[k] = sock[k]
        BY <1>1, <1>2, <3>2
      <4>2. PodOf(k) = g /\ Occupied(k)
        BY <4>1 DEF QueuedAtListener, Listening, Occupied
      <4>3. Occupied(c)
        BY <1>1 DEF Occupied
      <4>4. sock[k].port # sock[c].port
        BY <1>8, <2>1, <3>2, <4>1, <4>2, <4>3 DEF PortsDiffer
      <4>. QED
        BY <2>4, <4>1, <4>4 DEF PortLeadsToOwner
    <3>. QED
      BY <3>1, <3>2
  <2>. QED
    BY <1>3, <1>4, <1>5, <1>6, <2>5, <2>6
<1>. QED
  BY <1>7, <1>8

\* The one gateway's program answers for a waiting connection that was not reset.
LEMMA AnswerKnown ==
  ASSUME Scope, IInv, NEW c \in Cookies, gw[c] = "queued", Captured(c), sock[c].st # "aborted"
  PROVE  \E g \in Gateways : /\ Answers(g, c)
                             /\ \A h \in Gateways : OriginalDst(h, c) = sock[c].dst
<1>. PICK g : Gateways = {g}
  BY DEF Scope, OneGateway
<1>1. phase[g] = "listening"
  BY DEF IInv, QueuedAtListener, Listening
<1>2. sock[c].port \in DOMAIN map_ports[g] /\ map_ports[g][sock[c].port] = c
  BY DEF IInv, PortLeadsToOwner
<1>3. Key(c) \in DOMAIN map_socks[g] /\ map_socks[g][Key(c)] = sock[c].dst
  BY DEF IInv, SocksHoldCaptured
<1>4. Knows(g, c) /\ OriginalDst(g, c) = sock[c].dst
  BY <1>1, <1>2, <1>3 DEF Knows, OriginalDst, Runs
<1>5. Answers(g, c)
  <2>. DEFINE s == attached["sockopt"]
  <2>1. s \in Seq({g}) /\ s # <<>>
    BY <1>1 DEF IInv, TypeOK, Hooks, ListenersAnswer
  <2>2. Len(s) \in DOMAIN s /\ s[Len(s)] = g /\ Len(s) + 1 .. Len(s) = {}
    BY <2>1
  <2>. QED
    BY <1>4, <2>2 DEF Answers
<1>. QED
  BY <1>4, <1>5

LEMMA AnswerInv ==
  ASSUME Scope, IInv, NEW c \in Cookies, Answer(c)
  PROVE  ConnInv' /\ QueuedAtListener'
<1>. USE DEF IInv, ConnInv
<1>0. gw[c] = "queued" /\ UNCHANGED <<phase, map_socks, map_ports>>
  BY DEF Answer, gatewayVars, mapVars
<1>1. CASE gw' = [gw EXCEPT ![c] = "dropped"]
  <2>1. UNCHANGED target
    BY <1>1, <1>0 DEF Answer, TypeOK
  <2>2. sock' = [sock EXCEPT ![c].st = IF @ = "open" THEN "closed" ELSE @]
    BY <1>1, <1>0 DEF Answer, TypeOK
  <2>3. ConnInv'
    <3>1. \A k \in Cookies :
            /\ sock'[k].by = sock[k].by /\ sock'[k].dst = sock[k].dst
            /\ sock'[k].proc = sock[k].proc /\ sock'[k].port = sock[k].port
            /\ \/ sock'[k].st = sock[k].st
               \/ sock[k].st = "open" /\ sock'[k].st = "closed"
      BY <2>2, MoveConn
    <3>2. UNCHANGED map_socks /\ UNCHANGED map_ports /\ UNCHANGED target
      BY <1>0, <2>1
    <3>3. \A k \in Cookies : gw'[k] = gw[k] \/ gw'[k] = "dropped"
      BY <1>1 DEF TypeOK
    <3>4. OnlyEnds
      BY <3>1, <3>3 DEF OnlyEnds
    <3>. QED
      BY <3>2, <3>4, Retire
  <2>4. QueuedAtListener'
    BY <1>0, <1>1, <2>2 DEF QueuedAtListener, TypeOK, SockOK, Proxied, Remote, Captured, Listening, PodOf
  <2>. QED
    BY <2>3, <2>4
<1>2. CASE gw' = [gw EXCEPT ![c] = "answered"]
  <2>1. UNCHANGED sock
    BY <1>2, <1>0 DEF Answer, TypeOK
  <2>2. /\ \A k \in Cookies \ {c} : gw'[k] = gw[k] /\ target'[k] = target[k]
        /\ gw'[c] = "answered"
    BY <1>2, <1>0 DEF Answer, TypeOK
  <2>3. QueuedAtListener'
    BY <1>0, <2>1, <2>2 DEF QueuedAtListener, Proxied, Remote, Captured, Listening, PodOf
  <2>4. \A k \in Cookies : (Captured(k)' <=> Captured(k)) /\ PodOf(k)' = PodOf(k)
    BY <2>1 DEF Captured, PodOf
  <2>5. \A k \in Cookies : Occupied(k)' => Occupied(k)
    BY <2>1, <2>2 DEF Occupied
  <2>6. RightTarget'
    <3>. SUFFICES ASSUME Captured(c), sock[c].st # "aborted" PROVE target'[c] = sock[c].dst
      BY <2>1, <2>2, <2>4 DEF RightTarget
    <3>. QED
      BY <1>0, <1>2, AnswerKnown DEF Answer, TypeOK
  <2>7. SocksHoldCaptured' /\ PortsHoldCaptured'
    BY <1>0, <2>1 DEF SocksHoldCaptured, PortsHoldCaptured, Captured
  <2>8. PortsDiffer' /\ PortLeadsToOwner'
    BY <1>0, <2>1, <2>2, <2>4, <2>5 DEF PortsDiffer, PortLeadsToOwner
  <2>. QED
    BY <2>3, <2>6, <2>7, <2>8
<1>. QED
  BY <1>1, <1>2 DEF Answer

LEMMA StepInv == Scope /\ IInv /\ [Next]_vars => IInv'
<1>. SUFFICES ASSUME Scope, IInv, [Next]_vars PROVE IInv'
  OBVIOUS
<1>0. TypeOK'
  BY StepType DEF IInv
<1>. USE <1>0 DEF IInv
<1>1. ASSUME NEW p \in Procs, Spawn(p) PROVE IInv'
  <2>1. UNCHANGED <<mapVars, connVars, gatewayVars>>
    BY <1>1 DEF Spawn
  <2>2. QueuedAtListener' /\ ListenersAnswer'
    BY <2>1 DEF QueuedAtListener, ListenersAnswer, connVars, gatewayVars, Proxied, Remote, Captured, Listening, PodOf
  <2>. QED
    BY <2>1, <2>2, Frame DEF ConnInv
<1>2. ASSUME NEW g \in Gateways, Load(g) PROVE IInv'
  <2>1. UNCHANGED <<attached, mapVars, connVars>> /\ phase[g] = "absent"
        /\ phase' = [phase EXCEPT ![g] = "loaded"]
    BY <1>2 DEF Load
  <2>2. QueuedAtListener' /\ ListenersAnswer'
    BY <2>1 DEF TypeOK, QueuedAtListener, ListenersAnswer, connVars, Proxied, Remote, Captured, Listening, PodOf
  <2>. QED
    BY <2>1, <2>2, Frame DEF ConnInv
<1>3. ASSUME NEW g \in Gateways, NEW h \in Hooks, Attach(g, h) PROVE IInv'
  <2>1. UNCHANGED <<mapVars, connVars>> /\ phase[g] # "listening"
        /\ phase' = [phase EXCEPT ![g] = h] /\ attached' = [attached EXCEPT ![h] = Append(@, g)]
        /\ (h # "sockopt" => phase[g] # "sockopt")
    BY <1>3 DEF Attach, Previous, Hooks
  <2>a. attached["sockopt"] \in Seq(Gateways)
    BY DEF TypeOK, Hooks
  <2>b. Append(attached["sockopt"], g) # <<>>
    BY <2>a
  <2>c. attached'["sockopt"] = IF h = "sockopt" THEN Append(attached["sockopt"], g)
                               ELSE attached["sockopt"]
    BY <2>1 DEF TypeOK, Hooks
  <2>2. attached["sockopt"] # <<>> => attached'["sockopt"] # <<>>
    BY <2>b, <2>c
  <2>3. h = "sockopt" => attached'["sockopt"] # <<>>
    BY <2>b, <2>c
  <2>4. ListenersAnswer'
    BY <2>1, <2>2, <2>3 DEF TypeOK, ListenersAnswer, Hooks
  <2>5. QueuedAtListener'
    BY <2>1 DEF TypeOK, QueuedAtListener, connVars, Proxied, Remote, Captured, Listening, PodOf
  <2>. QED
    BY <2>1, <2>4, <2>5, Frame DEF ConnInv
<1>4. ASSUME NEW g \in Gateways, Listen(g) PROVE IInv'
  <2>1. UNCHANGED <<attached, mapVars, connVars>> /\ phase[g] = "sockopt"
        /\ phase' = [phase EXCEPT ![g] = "listening"]
    BY <1>4 DEF Listen, ListenAfter
  <2>2. QueuedAtListener' /\ ListenersAnswer'
    BY <2>1 DEF TypeOK, QueuedAtListener, ListenersAnswer, connVars, Proxied, Remote, Captured, Listening, PodOf
  <2>. QED
    BY <2>1, <2>2, Frame DEF ConnInv
<1>5. ASSUME NEW g \in Gateways, Exit(g) PROVE IInv'
  <2>1. /\ UNCHANGED <<attached, mapVars, target>>
        /\ phase' = [phase EXCEPT ![g] = "exited"]
        /\ gw' = [c \in Cookies |-> IF gw[c] = "queued" /\ PodOf(c) = g THEN "dropped" ELSE gw[c]]
    BY <1>5 DEF Exit
  <2>2. \A c \in Cookies :
            /\ sock'[c].by = sock[c].by /\ sock'[c].dst = sock[c].dst
            /\ sock'[c].proc = sock[c].proc /\ sock'[c].port = sock[c].port
            /\ \/ sock'[c].st = sock[c].st
               \/ sock[c].st \in {"connecting", "open"} /\ sock'[c].st = "closed"
    <3>. TAKE c \in Cookies
    <3>1. CASE sock'[c] = sock[c]
      BY <3>1
    <3>2. CASE sock[c].st \in {"connecting", "open"} /\ sock'[c] = [sock[c] EXCEPT !.st = "closed"]
      BY <3>2 DEF TypeOK, SockOK
    <3>. QED
      BY <1>5, <3>1, <3>2 DEF Exit
  <2>3. ConnInv'
    <3>1. OnlyEnds
      BY <2>1, <2>2 DEF OnlyEnds
    <3>. QED
      BY <2>1, <3>1, Retire DEF mapVars
  <2>4. ListenersAnswer'
    BY <2>1 DEF TypeOK, ListenersAnswer
  <2>5. QueuedAtListener'
    BY <2>1, <2>2 DEF TypeOK, QueuedAtListener, Proxied, Remote, Captured, Listening, PodOf
  <2>. QED
    BY <2>3, <2>4, <2>5 DEF ConnInv
<1>6. ASSUME NEW c \in Cookies, NEW p \in Procs, NEW d \in Destination, NEW port \in Ports,
             Connect(p, d, port, c)
      PROVE  IInv'
  <2>1. ListenersAnswer'
    BY <1>6 DEF Connect, gatewayVars, ListenersAnswer
  <2>. QED
    BY <1>6, <2>1, ConnectInv DEF ConnInv
<1>7. ASSUME NEW c \in Cookies, Establish(c) PROVE IInv'
  <2>1. ListenersAnswer'
    BY <1>7 DEF Establish, gatewayVars, ListenersAnswer
  <2>. QED
    BY <1>7, <2>1, EstablishInv DEF ConnInv
<1>8. ASSUME NEW c \in Cookies, Answer(c) PROVE IInv'
  <2>1. ListenersAnswer'
    BY <1>8 DEF Answer, gatewayVars, ListenersAnswer
  <2>. QED
    BY <1>8, <2>1, AnswerInv DEF ConnInv
<1>9. ASSUME NEW c \in Cookies, Refuse(c) \/ Close(c) \/ Abort(c) PROVE IInv'
  <2>1. UNCHANGED <<gatewayVars, mapVars, gw, target>>
    BY <1>9 DEF Refuse, Close, Abort, mapVars
  <2>2. \A k \in Cookies :
            /\ sock'[k].by = sock[k].by /\ sock'[k].dst = sock[k].dst
            /\ sock'[k].proc = sock[k].proc /\ sock'[k].port = sock[k].port
            /\ \/ sock'[k].st = sock[k].st
               \/ sock[k].st = "connecting" /\ sock'[k].st = "refused"
               \/ sock[k].st = "open" /\ sock'[k].st \in {"closed", "aborted"}
    <3>1. CASE Refuse(c)
      BY <3>1, MoveConn DEF Refuse
    <3>2. CASE Close(c)
      BY <3>2, MoveConn DEF Close
    <3>3. CASE Abort(c)
      BY <3>3, MoveConn DEF Abort
    <3>. QED
      BY <1>9, <3>1, <3>2, <3>3
  <2>3. ConnInv'
    <3>1. OnlyEnds
      BY <2>1, <2>2 DEF OnlyEnds
    <3>. QED
      BY <2>1, <3>1, Retire DEF mapVars
  <2>4. ListenersAnswer'
    BY <2>1 DEF gatewayVars, ListenersAnswer
  <2>5. QueuedAtListener'
    BY <2>1, <2>2 DEF gatewayVars, QueuedAtListener, Proxied, Remote, Captured, Listening, PodOf
  <2>. QED
    BY <2>3, <2>4, <2>5 DEF ConnInv
<1>10. CASE UNCHANGED vars
  <2>1. UNCHANGED <<mapVars, connVars, gatewayVars>>
    BY <1>10 DEF vars
  <2>2. QueuedAtListener' /\ ListenersAnswer'
    BY <2>1 DEF QueuedAtListener, ListenersAnswer, connVars, gatewayVars, Proxied, Remote, Captured, Listening, PodOf
  <2>. QED
    BY <2>1, <2>2, Frame DEF ConnInv
<1>. QED
  BY <1>1, <1>2, <1>3, <1>4, <1>5, <1>6, <1>7, <1>8, <1>9, <1>10 DEF Next, Startup

\* With one gateway on the node, keys that tell the cookies apart and maps that
\* have room for every connection, the two maps agree with the connections whose
\* entries the gateway will look up (mirrors.c:111-122, 141-148).
THEOREM MapsAgreeAlways == ASSUME Scope PROVE Spec => []IInv
<1>1. IInv /\ [Next]_vars => IInv'
  BY StepInv
<1>. QED
  BY InitInv, <1>1, PTL DEF Spec

\* Then the gateway is told the right destination (mirrors.c:184-204).
THEOREM RightTargetAlways == ASSUME Scope PROVE Spec => []RightTarget
<1>1. IInv => RightTarget
  BY DEF IInv
<1>. QED
  BY <1>1, MapsAgreeAlways, PTL

\* And the port of a connection that waits to be asked for leads to its own
\* entry, whoever had the port before (mirrors.c:141-148, 184-192).
THEOREM PortLeadsToOwnerAlways == ASSUME Scope PROVE Spec => []PortLeadsToOwner
<1>1. IInv => PortLeadsToOwner
  BY DEF IInv
<1>. QED
  BY <1>1, MapsAgreeAlways, PTL

\* The keys do tell the cookies apart on a little-endian machine, until a cookie
\* has more than 32 bits.
LEMMA LittleEndianKeys ==
  ASSUME BigEndian = FALSE, Cookies \subseteq 0 .. KeySpace - 1
  PROVE  KeysDistinct
<1>1. \A c \in Cookies : c % KeySpace = c
  BY KernelAssumption
<1>. QED
  BY <1>1 DEF KeysDistinct, Key

\* Hence the guarantee in the terms of the machine it runs on: one gateway, a
\* little-endian processor, 32-bit cookies, and no more connections than the maps hold.
THEOREM RightTargetOnLittleEndian ==
  ASSUME OneGateway, BigEndian = FALSE, Cookies \subseteq 0 .. KeySpace - 1, RoomForAll
  PROVE  Spec => []RightTarget
<1>1. Scope
  BY LittleEndianKeys DEF Scope
<1>. QED
  BY <1>1, RightTargetAlways

=============================================================================
