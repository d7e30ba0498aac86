------------------------------ MODULE NetFlush ------------------------------
(***************************************************************************)
(* The connection flush (gateway/main.go, manager/connections.go): before  *)
(* the programs are attached, the gateway lists the pod's connections and  *)
(* starts a goroutine (Tuple.Run) for each.  It watches every packet on    *)
(* eth0, resets what it sees once a connection of its four addresses and   *)
(* ports has spoken, and cuts every socket it can list once that has       *)
(* spoken both ways, so that the application connects anew and is          *)
(* redirected.  Main and the goroutines share one variable err.            *)
(***************************************************************************)
EXTENDS Integers, Sequences, FiniteSets

CONSTANTS
    Conns,      \* the connections of the pod, by socket
    Old,        \* those that are open when the gateway starts
    Talkers,    \* those of them that keep sending both ways
    Mapped,     \* those over an IPv6 socket with IPv4 addresses
    Loopback,   \* those within the pod, which eth0 never sees
    Tuple,      \* per connection, its addresses and ports, which a later one may have again
    Listener,   \* the gateway's listening socket on 0.0.0.0
    Faults,     \* what may fail: "list", "open", "send", "dump", "destroy", "load"
    MaxFaults   \* bound: how often, all together

ASSUME FlushAssumption ==
    /\ Talkers \subseteq Old /\ Old \subseteq Conns
    /\ Mapped \subseteq Conns /\ Loopback \subseteq Conns
    /\ DOMAIN Tuple = Conns
    /\ Listener \notin Conns
    /\ MaxFaults \in Nat

VARIABLES
    phase,   \* the gateway: "start", "flushing", "loaded", "attached", "up", "dead"
    hooked,  \* is cg_connect4 attached?
    err,     \* does main's err hold an error?
    sock,    \* the sockets of the pod
    run,     \* per connection, the goroutine that flushes it
    faults,
    spoken   \* history: the connections whose packets were seen

gateway == <<phase, hooked, err>>
vars == <<gateway, sock, run, faults, spoken>>

Sockets == Conns \cup {Listener}
Directions == {"ingress", "egress"}
Packets == (Conns \ Loopback) \X Directions

\* at: where the goroutine is - Run has returned an error ("failed"), or none
\* ("ended"), and that has been assigned ("done") -, saw: ingress and egress,
\* late: has it given up, socks: the sockets it has listed.
Waiting == [at |-> "none", saw |-> {}, late |-> FALSE, socks |-> {}]

Alive(s) == sock[s] \in {"direct", "proxied", "listening"}

Fault(f) ==
    /\ f \in Faults
    /\ faults < MaxFaults
    /\ faults' = faults + 1

Init ==
    /\ phase = "start"
    /\ hooked = FALSE /\ err = FALSE
    /\ sock = [s \in Sockets |-> IF s \in Old THEN "direct" ELSE "none"]
    /\ run = [c \in Conns |-> Waiting]
    /\ faults = 0
    /\ spoken = {}

-----------------------------------------------------------------------------
(* The gateway's startup *)

Start ==
    /\ phase = "start"
    /\ phase' = "flushing"
    /\ \/ /\ run' = [c \in Conns |-> IF Alive(c) THEN [Waiting EXCEPT !.at = "open"] ELSE Waiting]
          /\ UNCHANGED faults
       \/ Fault("list") /\ UNCHANGED run
    /\ UNCHANGED <<hooked, err, sock, spoken>>

\* LoadEPF returns.  A failure may leave the first program attached.
Load ==
    /\ phase = "flushing"
    /\ phase' = "loaded"
    /\ \/ hooked' = TRUE /\ err' = FALSE /\ UNCHANGED faults
       \/ hooked' \in BOOLEAN /\ err' = TRUE /\ Fault("load")
    /\ UNCHANGED <<sock, run, spoken>>

\* Main looks at err, which a goroutine may have assigned since, and panics, with
\* which everything the gateway has attached is gone.
Attach ==
    /\ phase = "loaded"
    /\ phase' = IF err THEN "dead" ELSE "attached"
    /\ hooked' = (hooked /\ ~err)
    /\ UNCHANGED <<err, sock, run, faults, spoken>>

Listen ==
    /\ phase = "attached"
    /\ phase' = "up"
    /\ sock' = [sock EXCEPT ![Listener] = "listening"]
    /\ UNCHANGED <<hooked, err, run, faults, spoken>>

-----------------------------------------------------------------------------
(* The applications *)

\* Once cg_connect4 is attached the gateway connects on the application's behalf,
\* if it listens.
Connect(c) ==
    /\ sock[c] = "none"
    /\ \A d \in Conns : Tuple[d] = Tuple[c] => ~Alive(d)
    /\ hooked => Alive(Listener)
    /\ sock' = [sock EXCEPT ![c] = IF hooked THEN "proxied" ELSE "direct"]
    /\ UNCHANGED <<gateway, run, faults, spoken>>

Close(c) ==
    /\ c \notin Talkers
    /\ Alive(c)
    /\ sock' = [sock EXCEPT ![c] = "closed"]
    /\ UNCHANGED <<gateway, run, faults, spoken>>

-----------------------------------------------------------------------------
(* Tuple.Run *)

To(g, at) == run' = [run EXCEPT ![g].at = at]

Open(g) ==
    /\ run[g].at = "open"
    /\ \/ To(g, "capture") /\ UNCHANGED faults
       \/ To(g, "failed") /\ Fault("open")
    /\ UNCHANGED <<gateway, sock, spoken>>

\* Mutant: any packet will do.
Matches_Any(g, p) == {p[2]}

\* Has the packet the goroutine's addresses and ports?
Matches(g, p) == IF Tuple[p[1]] = Tuple[g] THEN {p[2]} ELSE {}

\* Three resets for the sender of the packet, whose connection may end of them.
Reset(c) ==
    \/ UNCHANGED sock
    \/ Alive(c) /\ sock' = [sock EXCEPT ![c] = "cut"]

\* Mutant: one direction is enough for the cut.
Onward_Either(saw) == "dump"

\* Mutant: one direction is enough for an end.
Onward_Ends(saw) == IF saw = Directions THEN "dump" ELSE "ended"

\* Both have to be seen.
Onward(saw) == IF saw = Directions THEN "dump" ELSE "capture"

\* A packet other than a SYN, FIN or RST is received, of any connection there is
\* or was: when a goroutine comes to it, it may have waited for a while.  Only here
\* does it notice that its context has expired, so only here does it expire.
Handle(g, p) ==
    /\ run[g].at = "capture" /\ phase # "dead"
    /\ sock[p[1]] # "none"
    /\ LET saw == run[g].saw \cup Matches(g, p)
           Seen(at) == run' = [run EXCEPT ![g] = [@ EXCEPT !.at = at, !.saw = saw]]
       IN  \/ run' = [run EXCEPT ![g] = [@ EXCEPT !.at = "ended", !.late = TRUE]] /\ UNCHANGED <<sock, faults>>
           \/ saw = {} /\ UNCHANGED <<run, sock, faults>>
           \/ saw # {} /\ Reset(p[1]) /\ Seen(Onward(saw)) /\ UNCHANGED faults
           \/ saw # {} /\ Reset(p[1]) /\ Seen("failed") /\ Fault("send")
    /\ spoken' = spoken \cup {p[1]}
    /\ UNCHANGED gateway

\* Mutant: only the connection that was asked for.
Listed_Own(g) == {s \in Sockets : s = g /\ Alive(s)}

\* Every socket of AF_INET that is not loopback.
Listed(g) == {s \in Sockets \ (Mapped \cup Loopback) : Alive(s)}

Dump(g) ==
    /\ run[g].at = "dump"
    /\ \/ run' = [run EXCEPT ![g] = [@ EXCEPT !.at = "destroy", !.socks = Listed(g)]] /\ UNCHANGED faults
       \/ To(g, "ended") /\ Fault("dump")
    /\ UNCHANGED <<gateway, sock, spoken>>

\* One request to the kernel for each; one that fails is logged.
Destroy(g) ==
    /\ run[g].at = "destroy"
    /\ \E Left \in SUBSET run[g].socks :
         /\ sock' = [s \in Sockets |-> IF s \in run[g].socks \ Left /\ Alive(s) THEN "cut" ELSE sock[s]]
         /\ IF Left = {} THEN UNCHANGED faults ELSE Fault("destroy")
    /\ run' = [run EXCEPT ![g] = [@ EXCEPT !.at = "ended", !.socks = {}]]
    /\ UNCHANGED <<gateway, spoken>>

\* What Run has returned is assigned to main's err.
Assign(g) ==
    /\ run[g].at \in {"ended", "failed"}
    /\ err' = (run[g].at = "failed")
    /\ To(g, "done")
    /\ UNCHANGED <<phase, hooked, sock, faults, spoken>>

Run(g) == phase # "dead" /\ (Open(g) \/ Dump(g) \/ Destroy(g) \/ Assign(g))
Startup == Start \/ Load \/ Attach \/ Listen

Next ==
    \/ Startup
    \/ \E c \in Conns : \/ Connect(c) \/ Close(c)
                        \/ Run(c)
                        \/ \E p \in Packets : Handle(c, p)

\* The gateway and its goroutines go on, and who talks goes on talking.
Fairness ==
    /\ WF_vars(Startup)
    /\ \A g \in Conns : /\ WF_vars(Run(g))
                        /\ \A p \in (Talkers \ Loopback) \X Directions : WF_vars(Alive(p[1]) /\ Handle(g, p))

Spec == Init /\ [][Next]_vars /\ Fairness

-----------------------------------------------------------------------------
(* Properties *)

Flushed(g) == run[g].saw = Directions

\* Its goroutine has come to its end after both ways were seen, and no call failed.
Succeeded(g) == run[g].at \in {"ended", "done"} /\ Flushed(g) /\ faults = 0

\* What the flush can list and see.
Cuttable == Conns \ (Mapped \cup Loopback)

\* Every variable has its type; a goroutine that lists sockets has seen both
\* ways, and none has seen anything before it began.
TypeOK ==
    /\ phase \in {"start", "flushing", "loaded", "attached", "up", "dead"}
    /\ hooked \in BOOLEAN /\ err \in BOOLEAN
    /\ sock \in [Sockets -> {"none", "direct", "proxied", "listening", "cut", "closed"}]
    /\ run \in [Conns -> [at : {"none", "open", "capture", "dump", "destroy", "ended", "failed", "done"},
                          saw : SUBSET Directions, late : BOOLEAN,
                          socks : SUBSET Sockets]]
    /\ faults \in 0 .. MaxFaults
    /\ spoken \subseteq Conns
    /\ \A g \in Conns :
         /\ run[g].at \in {"dump", "destroy"} => Flushed(g)
         /\ run[g].at \in {"none", "open"} => run[g].saw = {}

Spoke(g) == \E c \in spoken : Tuple[c] = Tuple[g]

HasCause(s) ==
    \E g \in Conns : run[g].at # "none" /\ Spoke(g) /\ (s \in spoken \/ Flushed(g))

\* A socket is cut only after a connection of before the gateway's start, or a
\* later one with its addresses and ports, has spoken, and one that was silent
\* itself only after such were seen to speak both ways: a flush that finds its
\* connections gone disturbs nobody.
FlushHasCause == [][\A s \in Sockets : sock'[s] = "cut" /\ sock[s] # "cut" => HasCause(s)']_vars

\* Once one goroutine has cut what it listed, no connection is left that any
\* goroutine was started for, whichever of them spoke, but those the flush cannot
\* list: on an IPv6 socket, or within the pod.
DoneMeansCut ==
    \A g \in Conns : Succeeded(g) => \A c \in Cuttable : run[c].at # "none" => ~Alive(c)

\* A connection that was there and keeps talking both ways is cut, if it can be
\* listed, unless its goroutine's time is up or a call has failed.
OldIsCut ==
    \A c \in Talkers \cap Cuttable :
        run[c].at = "capture" ~> (~Alive(c) \/ run[c].late \/ faults > 0)

(* An inductive invariant *)

\* A goroutine was started for a connection there was, whose socket does not
\* become another one's.
Begun == \A g \in Conns : run[g].at # "none" => phase # "start" /\ sock[g] # "none"

\* What it has seen was spoken; once both ways are seen the capture is over.
SawSpoken ==
    \A g \in Conns :
        /\ run[g].saw # {} => Spoke(g)
        /\ run[g].at = "capture" => ~Flushed(g)

\* Nothing of before the start is missing in what it has listed.
AllListed ==
    \A g \in Conns : run[g].at = "destroy" =>
        \A c \in Cuttable : run[c].at # "none" /\ Alive(c) => c \in run[g].socks

\* Run returns an error only where a call has failed.
FailedCounts == \A g \in Conns : run[g].at = "failed" => faults # 0

IInv == TypeOK /\ Begun /\ SawSpoken /\ AllListed /\ FailedCounts /\ DoneMeansCut

-----------------------------------------------------------------------------
(* Properties that do not hold *)

\* A successful flush leaves no connection that was there ("Find existing network
\* connections and terminate them", connection.go:36).
AllCut == \A g \in Conns : Succeeded(g) => \A c \in Conns : run[c].at # "none" => ~Alive(c)

\* What was cut connects anew and is redirected: once a flush has been
\* successful no connection gets past the gateway ("At this point our gateway
\* will be handling all traffic for this application!", README.md:130).
Intercepted ==
    phase = "up" /\ (\E g \in Conns : Succeeded(g)) => \A c \in Conns : sock[c] # "direct"

\* Only what was there before is flushed (connection.go:36).
OnlyExisting ==
    /\ \A c \in Conns : sock[c] = "cut" => run[c].at # "none"
    /\ sock[Listener] # "cut"

\* A gateway that is up has its programs attached, and one whose programs are
\* attached comes up (main.go:47-50).
LoadIsChecked == [][Attach => (hooked <=> phase' = "attached")]_vars

\* A goroutine ends, at the latest when its time is up.
GoroutinesEnd == \A g \in Conns : run[g].at = "capture" ~> run[g].at = "done"
=============================================================================
