--------------------------- MODULE NetFlushProofs ---------------------------
(***************************************************************************)
(* Proofs about NetFlush, for every value of its constants.                *)
(***************************************************************************)
EXTENDS NetFlush, TLAPS

States == {"none", "direct", "proxied", "listening", "cut", "closed"}
Phases == {"start", "flushing", "loaded", "attached", "up", "dead"}
Places == {"none", "open", "capture", "dump", "destroy", "ended", "failed", "done"}
Runs == [at : Places, saw : SUBSET Directions, late : BOOLEAN, socks : SUBSET Sockets]

\* What a step of goroutine g makes of its record.
Moves(g, r) == r \in Runs /\ run' = [run EXCEPT ![g] = r]

\* What a socket may become without disturbing the invariant: whatever it was,
\* or an end; or what nobody has been started for.
SocketStep ==
    /\ sock' \in [Sockets -> States]
    /\ \A c \in Conns : sock[c] # "none" => sock'[c] # "none"
    /\ \A c \in Conns : run[c].at # "none" /\ Alive(c)' => Alive(c)

\* The inductive invariant holds in the initial states.
LEMMA InitIInv == Init => IInv
<1> SUFFICES ASSUME Init PROVE IInv
  OBVIOUS
<1>1. \A g \in Conns : run[g].at = "none" /\ run[g].saw = {}
  BY DEF Init, Waiting
<1>2. TypeOK
  <2>1. Waiting \in Runs
    BY DEF Waiting, Runs, Places
  <2>2. run \in [Conns -> Runs]
    BY <2>1 DEF Init
  <2>3. sock \in [Sockets -> States]
    BY DEF Init, States
  <2>4. hooked \in BOOLEAN /\ err \in BOOLEAN /\ phase \in Phases
    BY DEF Init, Phases
  <2>5. faults \in 0 .. MaxFaults /\ spoken \subseteq Conns
    BY FlushAssumption DEF Init
  <2> QED
    BY <1>1, <2>2, <2>3, <2>4, <2>5 DEF TypeOK, Runs, Places, States, Phases
<1> QED
  BY <1>1, <1>2 DEF IInv, Begun, SawSpoken, AllListed, FailedCounts, DoneMeansCut, Succeeded, Flushed, Directions

\* The parts of the invariant that speak of the goroutines: kept by a step that
\* leaves them alone and changes sockets as SocketStep allows.
LEMMA OthersStep ==
    ASSUME IInv, UNCHANGED <<run, faults, spoken>>, SocketStep,
           phase' \in Phases, hooked' \in BOOLEAN, err' \in BOOLEAN, phase # "start" => phase' # "start"
    PROVE  IInv'
<1>1. TypeOK'
  BY DEF IInv, TypeOK, SocketStep, States, Phases, Flushed
<1>2. Begun' /\ SawSpoken'
  BY DEF IInv, Begun, SawSpoken, SocketStep, Flushed, Spoke
<1>3. AllListed'
  BY DEF IInv, AllListed, SocketStep, Cuttable
<1>4. FailedCounts' /\ DoneMeansCut'
  BY DEF IInv, FailedCounts, DoneMeansCut, SocketStep, Flushed, Succeeded, Cuttable
<1> QED
  BY <1>1, <1>2, <1>3, <1>4 DEF IInv

\* And by a step of one goroutine that was started, and stays started, if what
\* it has seen by then was spoken, what it lists is complete and its end good.
LEMMA RunStep ==
    ASSUME IInv, SocketStep, UNCHANGED phase, hooked' \in BOOLEAN, err' \in BOOLEAN,
           faults' \in 0 .. MaxFaults, faults' = 0 => faults = 0,
           spoken' \subseteq Conns, spoken \subseteq spoken',
           NEW g \in Conns, NEW r, Moves(g, r),
           run[g].at # "none", r.at \notin {"none", "open"},
           r.at \in {"dump", "destroy"} => r.saw = Directions,
           r.saw # {} => Spoke(g)',
           r.at = "failed" => faults' # 0,
           r.at = "capture" => r.saw # Directions,
           r.at = "destroy" => \A c \in Cuttable : run[c].at # "none" /\ Alive(c)' => c \in r.socks,
           r.at \in {"ended", "done"} /\ r.saw = Directions /\ faults' = 0 =>
               \A c \in Cuttable : run[c].at # "none" => ~Alive(c)'
    PROVE  IInv'
<1>1. run'[g] = r /\ \A h \in Conns \ {g} : run'[h] = run[h]
  BY DEF Moves, IInv, TypeOK
<1>2. \A h \in Conns : run'[h].at # "none" <=> run[h].at # "none"
  BY <1>1
<1>3. TypeOK'
  <2>1. run' \in [Conns -> Runs]
    BY DEF Moves, IInv, TypeOK, Runs, Places
  <2>2. \A h \in Conns : /\ run'[h].at \in {"dump", "destroy"} => run'[h].saw = Directions
                         /\ run'[h].at \in {"none", "open"} => run'[h].saw = {}
    BY <1>1 DEF IInv, TypeOK, Flushed
  <2> QED
    BY <2>1, <2>2 DEF IInv, TypeOK, SocketStep, States, Phases, Runs, Places, Flushed
<1>4. Begun'
  BY <1>2 DEF IInv, Begun, SocketStep
<1>5. SawSpoken'
  BY <1>1 DEF IInv, SawSpoken, Flushed, Spoke
<1>6. AllListed'
  BY <1>1, <1>2 DEF IInv, AllListed, SocketStep, Cuttable
<1>8. FailedCounts'
  BY <1>1 DEF IInv, FailedCounts
<1>7. DoneMeansCut'
  BY <1>1, <1>2 DEF IInv, DoneMeansCut, SocketStep, Flushed, Succeeded, Cuttable
<1> QED
  BY <1>3, <1>4, <1>5, <1>6, <1>7, <1>8 DEF IInv

-----------------------------------------------------------------------------
(* The actions *)

LEMMA StartIInv == IInv /\ Start => IInv'
<1> SUFFICES ASSUME IInv, Start PROVE IInv'
  OBVIOUS
<1>1. \A g \in Conns : run[g].at = "none" /\ run[g].saw = {}
  BY DEF IInv, TypeOK, Begun, Start
<1>2. CASE UNCHANGED run /\ Fault("list")
  <2>1. faults' \in 0 .. MaxFaults
    BY <1>2, FlushAssumption DEF Fault, IInv, TypeOK
  <2>2. TypeOK'
    BY <1>2, <2>1 DEF Start, IInv, TypeOK, Flushed
  <2> QED
    BY <1>1, <1>2, <2>2 DEF Start, IInv, Begun, SawSpoken, AllListed, FailedCounts, DoneMeansCut, Flushed, Succeeded
<1>3. CASE run' = [c \in Conns |-> IF Alive(c) THEN [Waiting EXCEPT !.at = "open"] ELSE Waiting] /\ UNCHANGED faults
  <2>1. \A c \in Conns : /\ run'[c] \in Runs /\ run'[c].saw = {}
                         /\ run'[c].at = "none" \/ (run'[c].at = "open" /\ Alive(c))
    BY <1>3 DEF Waiting, Runs, Places
  <2>2. TypeOK'
    BY <1>3, <2>1 DEF Start, IInv, TypeOK, Runs, Places, Flushed
  <2>3. Begun'
    BY <2>1 DEF Start, Begun, Alive
  <2> QED
    BY <2>1, <2>2, <2>3 DEF Start, IInv, SawSpoken, AllListed, FailedCounts, DoneMeansCut, Flushed, Succeeded, Directions
<1> QED
  BY <1>2, <1>3 DEF Start

LEMMA Counted == ASSUME IInv, NEW f, Fault(f) PROVE faults' \in 0 .. MaxFaults /\ faults' # 0
BY FlushAssumption DEF Fault, IInv, TypeOK

LEMMA StaysType == ASSUME IInv, UNCHANGED sock PROVE SocketStep
BY DEF SocketStep, IInv, TypeOK, States, Alive

LEMMA LoadIInv == ASSUME IInv, Load PROVE IInv'
<1>1. faults' \in 0 .. MaxFaults /\ (faults' = 0 => faults = 0)
  BY Counted DEF Load, IInv, TypeOK
<1>2. phase' \in Phases /\ phase' # "start" /\ hooked' \in BOOLEAN /\ err' \in BOOLEAN
      /\ UNCHANGED <<sock, run, spoken>>
  BY DEF Load, Phases
<1>3. TypeOK'
  BY <1>1, <1>2 DEF Phases, IInv, TypeOK, Flushed
<1>4. (Begun /\ SawSpoken /\ AllListed)'
  BY <1>2 DEF IInv, Begun, SawSpoken, AllListed, Flushed, Spoke, Alive
<1>5. FailedCounts' /\ DoneMeansCut'
  BY <1>1, <1>2 DEF IInv, FailedCounts, DoneMeansCut, Succeeded, Flushed, Alive
<1> QED
  BY <1>3, <1>4, <1>5 DEF IInv

LEMMA SocketsIInv ==
    ASSUME IInv, Load \/ Attach \/ Listen \/ \E c \in Conns : Connect(c) \/ Close(c)
    PROVE  IInv'
<1>1. CASE Attach
  BY <1>1, OthersStep DEF Attach, SocketStep, IInv, TypeOK, States, Phases, Alive
<1>5. CASE Load
  BY <1>5, LoadIInv
<1>2. CASE Listen
  BY <1>2, OthersStep, FlushAssumption DEF Listen, SocketStep, IInv, TypeOK, States, Phases, Alive, Sockets
<1>3. ASSUME NEW c \in Conns, Connect(c) PROVE IInv'
  BY <1>3, OthersStep DEF Connect, gateway, SocketStep, IInv, TypeOK, Begun, States, Phases, Alive, Sockets
<1>4. ASSUME NEW c \in Conns, Close(c) PROVE IInv'
  BY <1>4, OthersStep DEF Close, gateway, SocketStep, IInv, TypeOK, States, Phases, Alive, Sockets
<1> QED
  BY <1>1, <1>2, <1>3, <1>4, <1>5

LEMMA GatewayStays == ASSUME IInv, UNCHANGED gateway PROVE UNCHANGED phase /\ hooked' \in BOOLEAN /\ err' \in BOOLEAN
BY DEF gateway, IInv, TypeOK

LEMMA OpenIInv == ASSUME IInv, NEW g \in Conns, Open(g) PROVE IInv'
<1>1. PICK a \in {"capture", "failed"} : To(g, a) /\ ((a = "capture" /\ UNCHANGED faults) \/ Fault("open"))
  BY DEF Open
<1> DEFINE r == [run[g] EXCEPT !.at = a]
<1>2. run[g] \in Runs /\ run[g].saw = {} /\ faults \in 0 .. MaxFaults /\ spoken \subseteq Conns
  BY DEF IInv, TypeOK, Open, Runs, Places, Flushed
<1>3. Moves(g, r) /\ r.at = a /\ r.saw = {}
  BY <1>1, <1>2 DEF To, Moves, Runs, Places
<1>4. SocketStep
  BY StaysType DEF Open
<1>5. faults' \in 0 .. MaxFaults /\ (faults' = 0 => faults = 0) /\ (a = "failed" => faults' # 0)
  BY <1>1, <1>2, Counted
<1> HIDE DEF r
<1> QED
  BY <1>1, <1>2, <1>3, <1>4, <1>5, RunStep, GatewayStays DEF Open, Directions

LEMMA DumpIInv == ASSUME IInv, NEW g \in Conns, Dump(g) PROVE IInv'
<1>1. run[g] \in Runs /\ run[g].saw = Directions /\ faults \in 0 .. MaxFaults /\ spoken \subseteq Conns /\ Spoke(g)
  BY DEF IInv, TypeOK, Dump, Runs, Places, Flushed, SawSpoken, Directions
<1>2. SocketStep
  BY StaysType DEF Dump
<1>3. CASE run' = [run EXCEPT ![g] = [@ EXCEPT !.at = "destroy", !.socks = Listed(g)]] /\ UNCHANGED faults
  <2> DEFINE r == [run[g] EXCEPT !.at = "destroy", !.socks = Listed(g)]
  <2>1. Moves(g, r) /\ r.at = "destroy" /\ r.saw = Directions /\ r.socks = Listed(g)
    BY <1>1, <1>3 DEF Moves, Runs, Places, Listed
  <2>2. (\A c \in Cuttable : Alive(c)' => c \in Listed(g)) /\ (Spoke(g) => Spoke(g)')
    BY DEF Dump, Alive, Listed, Sockets, Cuttable, Spoke
  <2> HIDE DEF r
  <2> QED
    BY <1>1, <1>2, <1>3, <2>1, <2>2, RunStep, GatewayStays DEF Dump
<1>4. CASE To(g, "ended") /\ Fault("dump")
  <2> DEFINE r == [run[g] EXCEPT !.at = "ended"]
  <2>1. Moves(g, r) /\ r.at = "ended" /\ r.saw = Directions
    BY <1>1, <1>4 DEF To, Moves, Runs, Places
  <2>2. faults' \in 0 .. MaxFaults /\ faults' # 0 /\ (Spoke(g) => Spoke(g)')
    BY <1>4, Counted DEF Dump, Spoke
  <2> HIDE DEF r
  <2> QED
    BY <1>1, <1>2, <2>1, <2>2, RunStep, GatewayStays DEF Dump
<1> QED
  BY <1>3, <1>4 DEF Dump

LEMMA ResetStep == ASSUME IInv, NEW c \in Conns, Reset(c) PROVE SocketStep
<1>1. CASE UNCHANGED sock
  BY <1>1, StaysType
<1>2. CASE Alive(c) /\ sock' = [sock EXCEPT ![c] = "cut"]
  BY <1>2 DEF SocketStep, IInv, TypeOK, States, Alive, Sockets
<1> QED
  BY <1>1, <1>2 DEF Reset

LEMMA HandleIInv == ASSUME IInv, NEW g \in Conns, NEW p \in Packets, Handle(g, p) PROVE IInv'
<1> DEFINE saw == run[g].saw \cup Matches(g, p)
<1>1. /\ run[g] \in Runs /\ run[g].at = "capture" /\ run[g].saw # Directions
      /\ run[g].saw # {} => Spoke(g)
      /\ faults \in 0 .. MaxFaults /\ spoken \subseteq Conns
  BY DEF IInv, TypeOK, Handle, Runs, Places, SawSpoken, Flushed
<1>2. /\ p[1] \in Conns /\ p[2] \in Directions
      /\ spoken' = spoken \cup {p[1]} /\ UNCHANGED gateway
  BY DEF Packets, Handle
<1>3. spoken' \subseteq Conns /\ spoken \subseteq spoken' /\ (Spoke(g) => Spoke(g)')
      /\ UNCHANGED phase /\ hooked' \in BOOLEAN /\ err' \in BOOLEAN
  BY <1>1, <1>2, GatewayStays DEF Spoke
<1>4. saw \subseteq Directions /\ (saw # {} => Spoke(g)')
  <2>1. Matches(g, p) # {} => Spoke(g)'
    BY <1>2 DEF Matches, Spoke
  <2> QED
    BY <1>1, <1>2, <1>3, <2>1 DEF Matches, Runs
<1> HIDE DEF saw
<1>5. CASE run' = [run EXCEPT ![g] = [@ EXCEPT !.at = "ended", !.late = TRUE]] /\ UNCHANGED <<sock, faults>>
  <2> DEFINE r == [run[g] EXCEPT !.at = "ended", !.late = TRUE]
  <2>1. Moves(g, r) /\ r.at = "ended" /\ r.saw = run[g].saw
    BY <1>1, <1>5 DEF Moves, Runs, Places
  <2>2. SocketStep
    BY <1>5, StaysType
  <2> HIDE DEF r
  <2> QED
    BY <1>1, <1>2, <1>3, <1>5, <2>1, <2>2, RunStep
<1>6. CASE saw = {} /\ UNCHANGED <<run, sock, faults>>
  <2>1. Moves(g, run[g])
    BY <1>1, <1>6 DEF Moves, IInv, TypeOK
  <2>2. SocketStep
    BY <1>6, StaysType
  <2> QED
    BY <1>1, <1>2, <1>3, <1>6, <2>1, <2>2, RunStep
<1>7. ASSUME Reset(p[1]), NEW at \in {"failed"} \cup {Onward(saw)},
             run' = [run EXCEPT ![g] = [@ EXCEPT !.at = at, !.saw = saw]],
             \/ at = Onward(saw) /\ UNCHANGED faults
             \/ Fault("send")
      PROVE  IInv'
  <2> DEFINE r == [run[g] EXCEPT !.at = at, !.saw = saw]
  <2>1. \/ Onward(saw) = "dump" /\ saw = Directions
        \/ Onward(saw) = "capture" /\ saw # Directions
    BY DEF Onward
  <2>2. Moves(g, r) /\ r.at = at /\ r.saw = saw
    BY <1>1, <1>4, <1>7, <2>1 DEF Moves, Runs, Places
  <2>3. SocketStep
    BY <1>2, <1>7, ResetStep
  <2>4. faults' \in 0 .. MaxFaults /\ (faults' = 0 => faults = 0 /\ at = Onward(saw))
    BY <1>1, <1>7, Counted
  <2>5. at # "destroy" /\ (at = "capture" => saw # Directions) /\ (at = "dump" => saw = Directions)
        /\ at \notin {"none", "open"}
    BY <2>1
  <2>6. ~(at \in {"ended", "done", "failed"} /\ faults' = 0)
    BY <2>1, <2>4
  <2> HIDE DEF r
  <2> QED
    BY <1>1, <1>2, <1>3, <1>4, <2>2, <2>3, <2>4, <2>5, <2>6, RunStep
<1> QED
  <2>1. \/ run' = [run EXCEPT ![g] = [@ EXCEPT !.at = "ended", !.late = TRUE]] /\ UNCHANGED <<sock, faults>>
        \/ saw = {} /\ UNCHANGED <<run, sock, faults>>
        \/ Reset(p[1]) /\ run' = [run EXCEPT ![g] = [@ EXCEPT !.at = Onward(saw), !.saw = saw]] /\ UNCHANGED faults
        \/ Reset(p[1]) /\ run' = [run EXCEPT ![g] = [@ EXCEPT !.at = "failed", !.saw = saw]] /\ Fault("send")
    BY DEF Handle, saw
  <2> QED
    BY <1>5, <1>6, <1>7, <2>1

LEMMA DestroyIInv == ASSUME IInv, NEW g \in Conns, Destroy(g) PROVE IInv'
<1>1. /\ run[g] \in Runs /\ run[g].at = "destroy" /\ run[g].saw = Directions
      /\ faults \in 0 .. MaxFaults /\ spoken \subseteq Conns /\ Spoke(g) /\ Spoke(g)'
      /\ \A c \in Cuttable : run[c].at # "none" /\ Alive(c) => c \in run[g].socks
  BY DEF IInv, TypeOK, Destroy, Runs, Places, Flushed, SawSpoken, AllListed, Directions, Spoke
<1> DEFINE r == [run[g] EXCEPT !.at = "ended", !.socks = {}]
<1>2. Moves(g, r) /\ r.at = "ended" /\ r.saw = Directions
  BY <1>1 DEF Destroy, Moves, Runs, Places
<1>3. PICK Left \in SUBSET run[g].socks :
        /\ sock' = [s \in Sockets |-> IF s \in run[g].socks \ Left /\ Alive(s) THEN "cut" ELSE sock[s]]
        /\ IF Left = {} THEN UNCHANGED faults ELSE Fault("destroy")
  BY DEF Destroy
<1>4. SocketStep
  BY <1>3 DEF SocketStep, IInv, TypeOK, States, Alive, Sockets
<1>5. faults' \in 0 .. MaxFaults /\ (faults' = 0 => faults = 0 /\ Left = {})
  BY <1>1, <1>3, Counted
<1>6. Left = {} => \A c \in Cuttable : run[c].at # "none" => ~Alive(c)'
  BY <1>1, <1>3 DEF Alive, Sockets, Cuttable
<1> HIDE DEF r
<1> QED
  BY <1>1, <1>2, <1>4, <1>5, <1>6, RunStep, GatewayStays DEF Destroy

LEMMA AssignIInv == ASSUME IInv, NEW g \in Conns, Assign(g) PROVE IInv'
<1> DEFINE r == [run[g] EXCEPT !.at = "done"]
<1>1. /\ run[g] \in Runs /\ run[g].at \in {"ended", "failed"}
      /\ faults \in 0 .. MaxFaults /\ spoken \subseteq Conns
      /\ run[g].saw # {} => Spoke(g)
  BY DEF IInv, TypeOK, Assign, Runs, Places, SawSpoken
<1>2. Moves(g, r) /\ r.at = "done" /\ r.saw = run[g].saw
  BY <1>1 DEF Assign, To, Moves, Runs, Places
<1>3. SocketStep
  BY StaysType DEF Assign
<1>4. run[g].saw # {} => Spoke(g)'
  BY <1>1 DEF Assign, Spoke
<1>5. run[g].at = "ended" /\ run[g].saw = Directions /\ faults = 0 => \A c \in Cuttable : run[c].at # "none" => ~Alive(c)'
  BY DEF Assign, IInv, DoneMeansCut, Succeeded, Flushed, Alive
<1>6. run[g].at = "failed" => faults # 0
  BY DEF IInv, FailedCounts
<1> HIDE DEF r
<1> QED
  BY <1>1, <1>2, <1>3, <1>4, <1>5, <1>6, RunStep DEF Assign, IInv, TypeOK

LEMMA NextIInv == IInv /\ [Next]_vars => IInv'
<1> SUFFICES ASSUME IInv, [Next]_vars PROVE IInv'
  OBVIOUS
<1>1. CASE UNCHANGED vars
  BY <1>1 DEF vars, gateway, IInv, TypeOK, Begun, SawSpoken, AllListed, DoneMeansCut, FailedCounts, Flushed, Succeeded, Spoke, Cuttable, Alive
<1>2. CASE Startup
  BY <1>2, StartIInv, SocketsIInv DEF Startup
<1>3. ASSUME NEW c \in Conns, Connect(c) \/ Close(c) PROVE IInv'
  BY <1>3, SocketsIInv
<1>4. ASSUME NEW c \in Conns, Run(c) PROVE IInv'
  BY <1>4, OpenIInv, DumpIInv, DestroyIInv, AssignIInv DEF Run
<1>5. ASSUME NEW c \in Conns, NEW p \in Packets, Handle(c, p) PROVE IInv'
  BY <1>5, HandleIInv
<1> QED
  BY <1>1, <1>2, <1>3, <1>4, <1>5 DEF Next

-----------------------------------------------------------------------------
(* The theorems *)

LEMMA InvariantHolds == Spec => []IInv
BY InitIInv, NextIInv, PTL DEF Spec

\* The gateway, the sockets and the goroutines keep their types (main.go,
\* connections.go), for any connections and number of faults.
THEOREM FlushTypeCorrect == Spec => []TypeOK
<1>1. IInv => TypeOK
  BY DEF IInv
<1> QED
  BY <1>1, InvariantHolds, PTL

\* One goroutine that has cut what it listed (connections.go:147-172) leaves none
\* of the connections there were that can be listed (AF_INET, line 147, and not
\* loopback, line 153), for any number of goroutines and any reuse of addresses.
THEOREM DoneMeansCutAlways == Spec => []DoneMeansCut
<1>1. IInv => DoneMeansCut
  BY DEF IInv
<1> QED
  BY <1>1, InvariantHolds, PTL

\* The flush cuts nothing before a connection with the addresses and ports of one
\* of its own has spoken (connections.go:127-146).
THEOREM FlushAlwaysHasCause == Spec => FlushHasCause
<1> DEFINE Caused == \A s \in Sockets : sock'[s] = "cut" /\ sock[s] # "cut" => HasCause(s)'
<1>1. IInv /\ [Next]_vars => [Caused]_vars
  <2> SUFFICES ASSUME IInv, [Next]_vars PROVE [Caused]_vars
    OBVIOUS
  <2>1. CASE UNCHANGED sock
    BY <2>1
  <2>2. CASE Listen
    BY <2>2 DEF Listen, IInv, TypeOK
  <2>3. ASSUME NEW c \in Conns, Connect(c) \/ Close(c) PROVE Caused
    BY <2>3 DEF Connect, Close, IInv, TypeOK
  <2>4. ASSUME NEW g \in Conns, NEW p \in Packets, Handle(g, p) PROVE Caused
    <3>1. CASE UNCHANGED sock
      BY <3>1
    <3>2. CASE Reset(p[1]) /\ run[g].saw \cup Matches(g, p) # {}
      <4>1. p[1] \in Conns /\ Spoke(g)' /\ p[1] \in spoken'
        <5>1. p[1] \in Conns /\ spoken' = spoken \cup {p[1]}
          BY <2>4 DEF Packets, Handle
        <5>2. CASE run[g].saw # {}
          BY <5>1, <5>2 DEF Spoke, IInv, SawSpoken
        <5>3. CASE Matches(g, p) # {}
          BY <5>1, <5>3 DEF Spoke, Matches
        <5> QED
          BY <3>2, <5>1, <5>2, <5>3
      <4>2. run'[g].at # "none"
        <5>1. run[g].at = "capture" /\ run[g] \in Runs
          BY <2>4 DEF Handle, IInv, TypeOK, Runs, Places
        <5>2. run \in [Conns -> Runs]
          BY DEF IInv, TypeOK, Runs, Places
        <5> DEFINE saw == run[g].saw \cup Matches(g, p)
        <5>3. \/ UNCHANGED run
              \/ run' = [run EXCEPT ![g] = [@ EXCEPT !.at = Onward(saw), !.saw = saw]]
              \/ run' = [run EXCEPT ![g] = [@ EXCEPT !.at = "failed", !.saw = saw]]
              \/ run' = [run EXCEPT ![g] = [@ EXCEPT !.at = "ended", !.late = TRUE]]
          BY <2>4 DEF Handle
        <5>4. Onward(saw) # "none"
          BY DEF Onward
        <5> HIDE DEF saw
        <5> QED
          BY <5>1, <5>2, <5>3, <5>4 DEF Runs
      <4>3. \A s \in Sockets : sock'[s] = "cut" /\ sock[s] # "cut" => s = p[1]
        BY <3>2, <4>1 DEF Reset, IInv, TypeOK
      <4> QED
        BY <4>1, <4>2, <4>3 DEF HasCause
    <3> QED
      BY <2>4, <3>1, <3>2 DEF Handle
  <2>5. ASSUME NEW g \in Conns, Destroy(g) PROVE Caused
    <3>1. run[g].at = "destroy" /\ run[g].saw = Directions /\ Spoke(g)
      BY <2>5 DEF Destroy, IInv, TypeOK, Flushed, SawSpoken, Directions
    <3>2. run'[g].at = "ended" /\ run'[g].saw = Directions /\ Spoke(g)'
      BY <2>5, <3>1 DEF Destroy, IInv, TypeOK, Spoke
    <3> QED
      BY <3>2 DEF HasCause, Flushed
  <2> QED
    BY <2>1, <2>2, <2>3, <2>4, <2>5 DEF Next, Startup, Start, Load, Attach, Run, Open, Dump, Assign, vars
<1> QED
  BY <1>1, InvariantHolds, PTL DEF Spec, FlushHasCause
=============================================================================
