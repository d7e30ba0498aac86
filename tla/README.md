# kube-gateway in TLA+

Specifications, model-checking instances and proofs for kube-gateway: a gateway
that a watcher attaches to a pod as an ephemeral container, to which eBPF
programs redirect the connections of the pod's application, and which forwards
them - in plain text, over TLS or kernel TLS - to the gateway of the pod they
were meant for.

Paths are relative to the repository's root (`src/` here).

## Inventory

| Part | State it keeps | Operations | What is hard about it |
|---|---|---|---|
| eBPF data plane, `ebpf/mirrors.c`, `mirrors.h` | `map_config`, `map_pids`, `map_socks` (socket cookie to destination), `map_ports` (source port to cookie) | `cg_connect4`, `cg_sock_ops`, `cg_sock_opt` | runs for every process of the node; ports are reused, maps fill up and are never cleaned; several gateways' programs run after each other |
| Gateway startup, `gateway/main.go`, `pkg/manager/manager.go` | the eBPF links, listeners, the list of pids | `Setup`, `LoadEPF`, `Start`, exit | a snapshot of processes that goes stale; hooks attached one by one, before the listener |
| Original destination, `pkg/connection/utils.go` | - | `findTargetFromConnection`, `ToInt` | asked in a goroutine after the accept, when the client may be gone |
| Relay, `pkg/connection`, `pkg/gateway/copy_gateway.go` | two goroutines and two sockets per connection and gateway | `internalProxy`, `handleExternalConnection` and their TLS and kernel TLS forms, `directConnect`, `Copy_gateway` | half-closes, resets, an unframed handshake, who waits for whom |
| AI gateway, `pkg/gateway/http_gateway.go`, `openai.go`, `gateway.go` | the policy (`AITransaction`), which no lock protects | the request loop, the response loop, `GetRequest`, `GetResponse`, `Reset` | two loops per connection, which go through rules and words one by one while they change |
| Gateway config watcher, `pkg/watcher` | a retrying watch of one config map | `Watch` | merges a new policy over the old one, element by element; a watch that is lost starts anew |
| Connection flush, `pkg/manager/connections.go` | two flags per connection | `Tuple.Run`, `sendRST` | a goroutine per connection, each of which cuts all sockets it can list; a timeout only packets can trigger; one `err` for all of them and `main` |
| Pod watcher, `watcher/watch.go`, `certs.go` | the `certs` structure, the informer's store and queue; in the API server: pods, secrets | `OnUpdate`, `OnDelete`, `OnAdd`, `withProxyContainer`, `createCertificate`, `loadSecret` | several API calls per pod with other writers in between; crashes; stale events; one certificate field for all |
| Token and RBAC, `watcher/main.go` | service account, role binding and token secret per namespace | `checkSecretExists` | every step may have been done, or have failed, before |
| CA tooling, `watcher/certs.go`, `main.go` | files | `generateCA`, `loadCA`, read and write | straight-line, once |

How they interact: an annotation on a pod makes the watcher create a secret and
patch the gateway into the pod; the kubelet starts it with the secret's content
in its environment. The gateway lists its pod's processes, loads and attaches
the programs, then listens. `cg_connect4` rewrites an application's connect() to
the gateway's listener and notes the destination under the socket's cookie;
`cg_sock_ops` notes the cookie under the source port; the gateway accepts and
asks `cg_sock_opt` - through getsockopt(SO_ORIGINAL_DST) - where the connection
wanted to go. It dials the gateway of that pod, sends it the destination, waits
for a 'Y', and both copy.

What makes each part correct:

- data plane: the gateway is told where *this* connection wanted to go; a
  gateway is not redirected to itself; other pods are left alone; nothing of the
  application gets past the gateway; attaching breaks no connection;
- relay: both directions keep their bytes and their order, an end is passed on,
  handlers return, connections do not affect each other;
- pod watcher: every annotated pod gets its gateway, with its own certificate
  and with the settings it asked for, and is marked only then;
- AI gateway: a request leaves once, or is refused once, by a policy in force;
  answers keep their order; the policy follows its config map;
- flush: connections of before the attachment are cut, and nothing is without
  cause;
- bootstrap: each namespace its own token, which is kept for the pods to come.

## Modules

| Module | What it is |
|---|---|
| `Redirection` | abstract: a redirected connection is a question that is answered once, with its own destination, or lost |
| `Mirrors` | the data plane, the gateways' startup and exit, the applications' connections |
| `MCMirrors` | instances: one node, pods A and B, with pids that coincide or not |
| `MirrorsProofs` | proofs about `Mirrors`: types, and what a gateway is told |
| `RedirectionProofs` | proofs about `Mirrors`: who is redirected, and that it implements `Redirection` |
| `Counting` | induction on numbers, as a lemma about finite sets |
| `Relay` | two gateways between an application and a server |
| `MCRelay` | instances |
| `RelayProofs` | proofs about `Relay` |
| `PodWatcher` | the watcher, an API server, the kubelet and users |
| `MCPodWatcher` | instances |
| `PodWatcherProofs` | proofs about `PodWatcher` |
| `Filter` | abstract: a request is forwarded once, or refused once, or lost |
| `AIGateway` | the AI gateway's two loops per connection, the policy and the config watcher |
| `MCAIGateway` | instances: the documents in the config map |
| `AIGatewayProofs` | proofs about `AIGateway`, and that it implements `Filter` |
| `NetFlush` | the connection flush, the gateway's startup and the pod's sockets |
| `MCNetFlush` | instances |
| `NetFlushProofs` | proofs about `NetFlush` |
| `Bootstrap` | `checkSecretExists` and the token's way into a pod's secret |
| `MCBootstrap` | instances |
| `BootstrapProofs` | proofs about `Bootstrap` |

Operators whose name ends in `_Something` and whose comment says "Mutant" are
faulty forms of the operator that follows them. No module uses them; putting one in
the place of the right one shows that a property depends on it.

Twelve instances, listed in `PROJECT.json`, are run regularly. The other `.cfg`
files here are further instances of the same modules; each but `PodsReborn`, `RelayApart` and `MirrorsApart` ends in a
counterexample, and the sections below say to what. Six of them (`MirrorsPids`,
`RelayPanic`, `AILimits`, `AIForever`, `FlushLimits`, `BootLimits`) name several properties on
lines of their own: TLC stops at the first, and without its line finds another. `tlc -config X.cfg MCMirrors` (`MCRelay`, `MCPodWatcher`, `MCAIGateway`,
`MCNetFlush`, `MCBootstrap`) runs one.

### Mirrors

A pod is named by its address, a connection by its socket's cookie.

| Variable | Code |
|---|---|
| `phase[g]` | how far `main`, `LoadEPF` and `Start` have come |
| `attached[h]` | the programs on a hook of the root cgroup, in attachment order |
| `alive`, `Info` | processes with their pod, pid namespace and pid |
| `map_pids[g]`, `map_socks[g]`, `map_ports[g]` | the maps of one gateway; the configuration is constant |
| `sock[c]` | the opening side: state, process, wanted destination, who redirected it, source port |
| `gw[c]`, `target[c]` | the accepting gateway's goroutine and what it was told |

`Connect` is connect(): all `cg_connect4` programs run in order, the first that
captures rewrites the address, and an ephemeral port is chosen among those free
towards the remote end. `Establish` is the three-way handshake with every
`cg_sock_ops`; `Answer` is `findTargetFromConnection` with every `cg_sock_opt`,
of which the last to know wins; when none knows, the kernel's connection
tracking (constant `Tracking`, the pods where it is on) answers with the proxy's address, or the call
fails. `Abort` frees a port at once, `Close` only after the gateway has asked
(TIME_WAIT outlasts the goroutine's start; this is the one timing assumption).

Runs (`MC` instances use two or three cookies and one or two ports, so ports are
reused, and, where the answer matters, two destinations, so that a wrong one differs from the
right one;
`InOrder` hands out cookies in order, a reduction since the model does not
compare cookies whose keys differ):

- `MirrorsOne`: one gateway. `RightTarget`, `PortLeadsToOwner`, `AllCaptured`,
  the inductive invariant `IInv` and the refinement `RedirectionSpec`.
- `MirrorsServed`: liveness, with a second pod, a worker process, and a destination
  that is not redirected beside the one that is.
- `MirrorsTwo`: two gateways whose pods have the *same* pids, as the containers of two
  pods do: 1 for the application, 9 for the gateway (`InfoReplicas`). Each program takes
  the other pod's application for its own, and the gateways take each other for themselves
  (mirrors.c:77, 83). The kernel tracks connections in both pods, so a connection that the
  last program does not know, or that reaches a gateway before its `cg_sock_ops` is
  attached, is answered with the proxy's own address, and the gateway dials what it was
  told through `createProxy` (`Forward`). `NoSelfProxy`: it still never dials a proxy.
  `RightTargetApart`: what it was told is its own application's destination, until some
  source port was used by redirected connections of both pods; there are two
  destinations and two ports, so a wrong answer and a port in both pods occur.
  `GatewaysInOrder` attaches A's gateway first: the two pods differ in their names only.

A further instance passes: `MirrorsApart`, the same pods as each other's destinations and
in plain text, for `RightTargetApart` with the inductive invariant `OwnInv` of its proof.

What the code does not keep (each finds a counterexample to what a comment or
the repository's README says): in the regular runs `MirrorsTwoPorts`, where
another pod's program answers and the gateway is told the destination of another
connection. Further instances: `MirrorsPids` (pids of other namespaces are
compared as numbers: a gateway that has the pid of another pod's application is
redirected as if it were that, and so is its pod's server) against `NoSelfProxy` and
`OnlyThisPod`. That a program leaves other pods alone does not hold for any two pods, as
every namespace has a pid 1, so no regular run states it;
`MirrorsLoop` (AI mode dials the proxy after a full map) against
`NoSelfProxy`; `MirrorsFull` (a full map) and `MirrorsBigEndian` (all keys are zero)
against `RightTarget`; `MirrorsWorker` and `MirrorsProbePort` (a process forked late, a
connection to port 8080) against `AllCaptured`; `MirrorsStartup` (connections
refused while the gateway starts) against `NoneRefused`.

Fairness: a startup that was begun runs to its end or exits, the kernel finishes
handshakes, a goroutine that was started runs. No process must connect or close.

### Relay

Each connection has three TCP legs of two pipes each. Bytes are numbered in the
order they are written, so order and completeness can be seen at the other end;
two messages stand for the destination and the 'Y'. A pipe has a writer's end
(`fin`) and a reader's end (`gone`); closing a socket with unread bytes, or
writing to one whose reader is gone, resets the connection and loses any part of
what is under way. `src[k]`, `dst[k]` are the handlers of both gateways,
`side[k]` the goroutine beside each. `Mode` chooses the transport, which decides
three things: whether a dial error panics (`internalProxy` without
certificates), how much the `Read` that waits for the 'Y' can take (one TLS record,
or whatever has arrived), and which direction the handler itself copies
(`Copy_gateway(targetConn, conn)` swaps it). `Refusing` names the connections
whose dials may fail.

- `RelayTLS`: with TLS, what either end writes arrives at the other, in order and
  completely; a server's close arrives; handlers return. Dials may fail. `BytesArrive`
  asks for nothing once one of the two ends has closed its socket (its peer's bytes may
  then be reset away, and `EndMeansComplete` says when they must not) or once a dial of
  this connection has failed and its first handler has returned (`Failed`): there is
  no server then.
- `RelayCopy`: towards the server the plain transport keeps order too, through
  failing dials and the panic they cause.
- `RelayEndLost` does not hold: in plain text the server's close never reaches an
  application that waits for it.

Further instances that end in a counterexample: `RelayPanic` (in plain text a
failed dial of one connection ends all of them, `EndHasCause`, with what their
servers wrote last, `EndMeansComplete`), `RelayHalfClose`
(an application's half-close never reaches the server; `AppEndArrives`),
`RelayCoalesced` (in plain text the first bytes of a server that speaks first can
vanish with the 'Y'; `DownInOrder`). `RelayApart` passes: with kernel TLS, where a failed
dial does not panic, it ends its own connection and leaves the other alone.

Two bytes per direction are enough to tell loss, reordering and truncation apart
(the first can be lost and the second arrive); connections share nothing but the
process, so one is enough but for `RelayPanic` and
`RelayApart`, which have two. Fairness: each handler's and each
goroutine's steps, and the reading of what arrives by the application and the
server. They do not have to write, and never have to close.

### PodWatcher

`pod` and `secret` are the API server's; every write while the informer watches
appends an event with a snapshot of the pod to `events`. The handler takes one event
at a time and makes three calls - `LoadSecret`, `Patch`, `Update` - between which
everything else may happen. A record of a pod only ever moves forward, so
comparing records is comparing resource versions (the conflict of `Update`).
`mode` is `"up"`, `"deaf"` (watch lost; `Relist` compares the list with the
store, and tells of every pod that is in both as updated, changed or not) or
`"down"`; `Die` loses the queue and the certificate. The ephemeral
container is its environment, `None` where there is none: the API server accepts a
patch of a container that exists only if the merge changes nothing.

A pod's annotations are the set `want`. What asks for a gateway is an annotation's key
(`annotationLookup`, watch.go:215), what sets it up is its value (watch.go:142-199):
`"blank"` stands for a trigger without a value, which gives a pod a gateway with an
empty environment. The constant `Wants` is a bound: the sets of annotations a pod may
have. Users create it with any of them, and later add one that leads to another.

- `PodsOnce`: safety of two pods that share the handler, its queue and its
  certificate, under any one fault: a crash, a lost watch, any failed call. Each has the
  annotation for encryption, the option netflush, which alone asks for no gateway, both,
  the second of them set at any time, or a blank one. One of the two may be deleted: the other is who suffers
  from it. Nobody asks for "endpoint" here (`PodsEndpoint` does).
- `PodsServed`: liveness with one failed call: the event of the patch itself
  comes back and is the retry.

Further instances: `PodsReborn`, which passes (a name comes back, with events and a
secret of the pod before it, and still no pod is marked enabled that has no
gateway); and, with a counterexample, `PodsDeleted` (a pod deleted while it is
handled crashes the watcher, and another pod, whose event was in the queue, never
gets its gateway), `PodsMissed` (the last event is
lost in a crash) and `PodsTwice` (two annotations in quick succession crash the
watcher) against `Served`; `PodsEndpoint` (a pod annotated as endpoint only gets no
certificate, or another pod's) and `PodsRenewed` (a pod that comes back is started
with its predecessor's) against `OwnCertificate`.

Bounds: `MaxPods` pods per name (2 where names come back), `MaxFaults`, one or
two names (two where the shared certificate and the shared queue matter), one to
three annotations; annotations are added and not removed. Fairness: the handler, the
restart by the deployment, the informer's relisting, the kubelet. Users have to
do nothing.

### AIGateway

`Http_gateway` is two loops per connection: `req[k]` is the goroutine that reads
requests, judges them (`openAIRequest`), answers or rewrites them and writes them
on; `resp[k]` is the loop that brings the answers back (`openAIResponse`).

| Variable | Code |
|---|---|
| `app[k]`, `srv[k]` | the ends of a connection: what the application has sent and got, whether the server's is open |
| `ingress`, `egress`, `replies` | what is under way between them and the gateway |
| `req[k]`, `resp[k]` | where each loop is, with the request or the answer in hand |
| `policy` | `AITransaction`: two pointers, `None` for nil |
| `dead` | the process has panicked |
| `cm`, `watch`, `events` | the config map, the retrying watch and its channel |
| `todo`, `pen` | the fields `json.Unmarshal` has yet to write, and the element of a list that it is at |
| `asked`, `refused`, `seen` | history |

A document is a function from the fields it mentions to their values, so that a
field it does not mention stays as it is (watcher.go:53). No lock is between the loops
and the watcher, so each reads and writes the policy as the machine does, bit by bit.

*The loops.* Each evaluation of `c.Request...` or `c.Response...` is a look at `policy` as
it is then: whether there is a section, `Block` (`ReqJudge`, `ReqBlock`), the number of
rules (`ReqCount`), each rule's `Orig` (`ReqMatch`) and each `New` (`ReqRename`); for an
answer the number of banned words once per choice (`RespFilter`), and each word, by its
index, once per choice (`RespWord`). A section that has become nil, a rule or a word whose
index is out of range by then and a response that could not be read are panics. Only what
one expression reads of one element is read together: a slice's pointer with its length,
and a string's pointer with its length. The look at the debug flag before a request is
parsed and that after a refusal are looks at the section only; the latter is one step
with the refusal's write. After the rules the prompts of users are looked at, of which
only the panic on a section that has gone remains (`ReqMatch`). A request that is no chat
is dropped (http_gateway.go:37) and an answer that is none is emptied, or its write fails.

*The watcher.* `json.Unmarshal` writes into what is there, in the order of the document:
it makes a section that is nil, blank, before it fills it (`MakeSection`); for a list it
goes through the elements one by one, lengthens the list by one where it is too short -
by what the array holds there, else by zero (`Grown`, `spare`) -, writes the keys that
the element has (`Put`), and cuts what is left at the end (`Cut`). So a new list shows up
half: its last element may be empty, and the empty word is in every answer. `Reset` is
one step: its two assignments concern one section each, and each loop looks at one. Left out
are documents with `null`, with a key twice or that do not parse, the word replacement in
prompts and the debug flag.

`AIGateway` (the run) has one connection, two requests, two documents - one
with a rule, the other with a refusal and a banned word -, answers of two choices, two
edits and one fault (no client, a lost watch, a server's
close), so that a policy can come, change and go while a request is between any two
looks. It checks:

- `InForce`: a request is refused, renamed and sent on by values of policies that were in
  force after it was read, and as the policy says where there was only one; an answer is
  replaced only if some policy in force banned a word of it, and always if each of them
  bans a word of the same choice at the same place of its list. The last is as much as the
  code keeps: a word that every policy bans passes if it moves within the list while the
  loop counts (`BannedNeverPass`, below);
- `AnswersInOrder`: with an application that waits, answers keep their order,
  although both loops write to it;
- `FilterSpec`: the loop implements `Filter`. The mapping reads a request's outcome
  off what was asked and refused, what is under way, and what is nowhere ("lost");
- `Answered`: a chat is answered, by whom ever, unless an end closes or the process
  has died; `Followed`: a map that stays comes into force, through a lost watch and
  however the lists that were there are shortened or lengthened.

Connections share the policy, which they only read, and the process; the
properties are per connection, so one is enough. Fairness: both loops, the watcher, and a server that answers what it is asked.
Users and applications have to do nothing.

Further instances that end in a counterexample: `AIPipelined` (an application that
sends ahead loses what the reader had read ahead, and the refusal of one request
overtakes the answer to another) against `AnswersInOrder`; `AILimits`, whose two documents
have two rules and two banned words each, against
`StaysUp` (the panics), `OnlyBannedAreStopped` (an answer with no banned word is replaced,
as the list had an element that was not written yet), `NamedByMap` (a request is sent on
without a model's name, for the same reason), `OnePolicy` (a request judged by the old policy's `block` and
rewritten by the new one's rules) and `BannedNeverPass` (openai.go:137-138: [v, w] becomes
[w, v] between the looks at 0 and 1, and w passes); `AIForever` against
`Forgotten` (a map deleted while the watch was lost stays in force) and `LoopsEnd` (the
request loop spins on a closed connection).

### NetFlush

`phase` is how far `main` has come, `hooked` whether `cg_connect4` is attached; `sock[s]`
the state of each socket of the pod, the gateway's own listener among them; `run[c]` the goroutine
`Tuple.Run` of connection `c`, which exists for the connections `main` has listed;
`spoken` is history. The constants say what a connection is: `Mapped` are those over an
IPv6 socket with IPv4 addresses, `Loopback` those within the pod, `Tuple` gives the
addresses and ports, which a later connection may have again. `main` starts a goroutine
for each of them (main.go:20-29); a packet is matched by `Tuple` (connections.go:127-136);
those within the pod have no packet on eth0; and the dump lists neither them nor IPv6
sockets (`Listed`, connections.go:147-153).

`Handle(g, p)` is one turn of the packet loop: the look at the
timeout, which happens only here, the two comparisons, the resets to the packet's
sender - of any connection, once its own has spoken - and what follows when both
directions were seen. A goroutine may come to a packet of a connection that has
ended (they queue). `Dump` and `Destroy` are apart, as other goroutines and
applications go on in between; `Destroy` may fail for any of what was listed.
`KillSocket` at the end is given a layer type for a port (connections.go:170) and finds no socket.

`err` is one variable: the goroutines assign to it what `Run` returns (`Assign`,
main.go:30), and `main` looks at it between `LoadEPF` and `Start` (`Load`, `Attach`,
main.go:47-50), so it may find a goroutine's error, or miss its own. That a compiler may
hand `main` the value it has just stored is the interleaving in which nobody assigns in
between. A gateway that panics is gone with what it has attached. An application may
connect anew until the first program is attached and once the gateway listens; in
between it would be refused (`Mirrors` has that).

`NetFlush` (the run): three connections of before the start that keep talking - one that
can be listed, one over an IPv6 socket, one within the pod - and one that begins once the
first is gone, with its addresses and ports; any one call fails. `DoneMeansCut`: once one
goroutine has seen its connection both ways and has returned, and no call failed, no
connection that any was started for is left, but the two the dump cannot list;
`FlushHasCause`: nothing is cut before a connection with a listed one's addresses has
spoken, and nothing silent before such were seen
both ways; `OldIsCut`: a connection that keeps talking and can be listed is cut unless the time is up
or a call has failed. Fairness: the startup, the goroutines' steps, and their turns
with the packets of who keeps talking. Up to three goroutines list, reset and destroy
each other's connections.

Further instances that end in a counterexample: `FlushLimits` against `AllCut` (a
goroutine returns without an error, and its own connection, on an IPv6 socket or within
the pod, is alive), `OnlyExisting`
(later connections and the listener are cut), `Intercepted` (what is cut before
the programs are attached connects anew past the gateway, for good) and `LoadIsChecked`
(the gateway goes on without its programs, or panics for a flush that failed),
`FlushForever` (no packet, no timeout) against `GoroutinesEnd`.

### Bootstrap

`at` is the call `checkSecretExists` makes next, for `pod`'s namespace; `got` is what
it holds, `token` the field of `certs` it goes to, `loaded` the tokens in the pods'
secrets. A token is named by the namespace of its account, or is `Empty`. Each call
may fail, and the next is made all the same with what the failed one returned
(client-go returns an empty object, not nil). `Crash` loses what the process holds.

`Bootstrap` (the run): three pods, two of one namespace, and any two failures.
`OwnToken`: nobody gets another namespace's token; `EmptyHasCause`: an empty one has
one of four failed calls to show for it - a crash never costs one; `TokenIsKept`: a pod
is handed a token only if its namespace's secret keeps that token for the pods to come,
which ties what the first pod of a namespace gets, through four calls that may fail, to
what the others find. Two namespaces are needed for
the shared field and the one binding, two pods of one namespace for what the second
finds there.

That a token comes with a role does not hold: the one binding has one subject, and the
account of a second namespace never gets it. A further instance ends in a counterexample:
`BootLimits` against `AllBound` (just that) and `Recovers` (an empty token stays for good).

### Deadlock

All runs have `CHECK_DEADLOCK FALSE`: applications and users may stop doing
anything, and the bounds end every behaviour. What must go on is stated as
liveness.

## Proofs

`MirrorsProofs` proves, for every value of the constants:

- `TypeCorrect`: `Spec => []TypeOK`, from the modules' assumptions alone;
- `RightTargetAlways`, `PortLeadsToOwnerAlways` and `MapsAgreeAlways`: `RightTarget`,
  `PortLeadsToOwner` and `IInv` hold always under `Scope`: one gateway on the node, keys that tell the cookies apart, and maps with
  room for all of them. `MirrorsTwoPorts`, `MirrorsBigEndian` and `MirrorsFull`
  each drop one of the three, and end in a counterexample;
- `RightTargetOnLittleEndian`: `KeysDistinct` follows on a little-endian machine
  as long as the cookies are below the key space.

The inductive invariant `IInv` is needed because `RightTarget` speaks of the
answer only. A step back, the answer is right because the waiting connection's
port leads to its cookie (`PortLeadsToOwner`) and its cookie to its destination
(`SocksHoldCaptured`). The first survives the establishing of other connections
because their ports differ while both are occupied (`PortsDiffer`), and the
entries for ports name connections that had that port (`PortsHoldCaptured`);
`QueuedAtListener` and `ListenersAnswer` say that whoever waits was recorded by
all hooks. `MirrorsOne` checks `IInv` on a small instance; the proofs have one
lemma for each action that touches connections and one for those that do not.

`RedirectionProofs` proves about any number of gateways, pods and connections:

- `NoSelfProxyAlways` under `Apart`: no gateway has the pid that an application has in
  another gateway's pod (`GatewayPidsApart`), and in AI mode the kernel
  does not answer for the pods of gateways (`KernelIsSilent`). Applications may have the
  same pids everywhere, and so may gateways; maps may overflow and programs may answer
  for each other's connections. Nothing in the code sees to the first hypothesis:
  `MirrorsPids` drops it, `MirrorsLoop` the second, and each ends in a counterexample;
  `MirrorsTwo`, with pids that coincide, meets both;
- `AllAlwaysCaptured`, an action property, under `Settled`: no process of the pod is
  forked after its gateway, a namespace's pids are unique, and nobody connects to the
  ports the program leaves alone. `MirrorsWorker` and `MirrorsProbePort` drop the
  first and the last;
- `ImplementsRedirection` under `Scope`: `Spec => RedirectionSpec`;
- `RightTargetOfMany`: `RightTargetApart` under `OwnScope`, keys that tell the cookies
  apart and room in the maps; nothing is asked of pids or modes. Each gateway is told where its own application wanted to go
  until a port is the source port of connections that two gateways redirected
  (`PortsApart`, which never holds again once it does not). That it ends there is
  `MirrorsTwoPorts`; the constants of `MirrorsTwo` and `MirrorsApart` meet the hypotheses.

That a gateway is not redirected needs that what it looks for are pids of its own
namespace (`PidsOwn`), that who was redirected was an application redirected by its own
pod's gateway (`OwnApplication`), and, since in AI mode it dials what it was told, that
this is an address in the cluster (`ClusterOnly`); `Told` says when it was told. That
nobody is missed needs the snapshot (`SnapshotHolds`) and that whoever is attached is
among the programs of the hook (`AttachedRuns`); that one of several programs that would
redirect a connection does, the first, is an induction along the hook's list, by
`CountUp`. The refinement maps each step to `Capture`, `Tell`, `Lose` or none: `EndsAreLosses` says once
that a step which redirects and answers nothing loses at most what was not answered.

For several gateways `IInv` will not do: it says that every map holds every redirected
connection. `OwnInv` says that each gateway's maps hold what its own program redirected,
and nothing else - a program records a port only for a cookie that it knows
(`RecordsOwn`) - so a program that knows a connection's port from elsewhere needs that
port to have been used elsewhere (`KnowsOwn`). Of the programs attached for one gateway
the last is followed by none of its own (`OwnAnswers`), so it has the last word.

`RelayProofs` proves, from `RelayAssumption` alone - any connections and bytes:

- `RelayTypeCorrect` and `UpAlwaysInOrder`: `Spec => []TypeOK`, `Spec => []UpInOrder`, in
  all three modes, through the panic of the plain one;
- `DownAlwaysInOrder`: `DownInOrder` where `Mode = "tls"`. `RelayCoalesced` is the
  counterexample in plain text;
- `EndAlwaysComplete`: `EndMeansComplete` where `Mode = "tls"`. In plain text
  `RelayPanic` is a counterexample. In kernel TLS the property holds on small
  instances, and says nothing: there an end that the server causes does not reach the
  application before the server has lost something (see `RelayEndLost`);
- `EndAlwaysHasCause`: `EndHasCause` where `Mode # "copy"`, any number of connections
  with any of their dials failing. `RelayPanic` is the counterexample in plain text.

What the server has read continues in what the last leg holds, that in what is between
the gateways, that in the first leg (`Flow`, `Chain`). Each piece continues the one before
it only as long as the pipe before it takes bytes: a closed reader makes the rest
worthless, but never puts it out of order. `Gone` says who has closed which pipe, and
`Shakes` where the handshake is: nothing is copied into leg M before the destination
in front of it, and behind the 'Y' only after it. Five lemmas (`FlowWrites`,
`FlowEnters`, `FlowCrosses`, `FlowArrives`, `FlowLoses`) say what a byte can do, each in either
direction; `Keeps` is what every action's lemma concludes. That an end has a cause goes
round the legs: a handler of a connection whose dial succeeds is about to return only
once the application or the server of that connection has gone (`CauseInv`), since it
returns on the end of a leg, and that leg was closed by its neighbour or by one of the two.

`EndMeansComplete` needs numbers as well: `Kept` counts the bytes that are not lost.
`Drained` says that each handler returns, over TLS, only after the one before it, and
has passed on everything by then - unless the server closed with bytes of the
application unread (`Stuck`), when a reset may lose its own, or never existed (`Dead`).
It holds until the application closes. Each close of a socket is the same argument: it
loses what was under way only if it finds unread bytes, and these are bytes of the
application the server has not read, so the connection is `Stuck` (`Unread`).

`PodWatcherProofs` proves, from `WatcherAssumption` alone - any finite set of
names, any number of faults and of pods per name:

- `WatcherTypeCorrect`: `Spec => []TypeOK`;
- `EnabledAlwaysAttached`: `Spec => []EnabledMeansAttached`;
- `GatewayAlwaysAsked`: `Spec => []GatewayWasAsked`, where no name comes back
  (`MaxPods <= 1`): an old event of a pod would otherwise be acted on for the next
  of its name;
- `CertificateAlwaysOwn`: `Spec => []OwnCertificate`, where no name comes back and
  encryption is all that is asked for, beside annotations without a value
  (`EncryptOnly`). `PodsRenewed` and `PodsEndpoint`
  each drop one half.

`EnabledMeansAttached` is not inductive: the annotation is written two calls after
the decision, from what the handler holds. `InHand` adds that: until the patch the
pod in hand asks for a gateway, and
afterwards it is a pod with a container. `Die` and the end of the handler empty
the hand. That what a relisting appends is a sequence of events needs the names to
be finitely many (`RelistType`).

`GatewayWasAsked` rests on `AskedInv`: a pod's annotations only grow, so what an
event in the queue or the handler's hand shows of a pod (`Old`) is among what it
asks for now; and a name that was never used is in no event.

`OwnCertificate` rests on `CertInv`: whatever a pod or an event of it carries is that
pod's (`Mine`), and so is the secret; between making a certificate and storing it the
handler is alone with it, since the next event waits. The certificate is one field for
all pods, so a pod that gets as far as the patch without making one takes another pod's:
that is `PodsEndpoint`.

`AIGatewayProofs` proves, from the module's assumptions - any documents, rules,
connections, requests, edits and faults:

- `AITypeCorrect`: `Spec => []TypeOK`;
- `InForceAlways`: `Spec => []InForce`;
- `ImplementsFilter`: `Spec => FilterSpec`, for any number of requests sent ahead
  (`Ahead`), through panics;
- `AnswersAlwaysInOrder`: `Spec => []AnswersInOrder` where `Ahead = 1`; `AIPipelined` is
  the counterexample with 2.

`ForceInv` says of each place the loops can be at what must have been seen in the policy
since the request was read: a rule that was applied was in a policy seen (`Named`), a
request that passed met one that does not block (`May`). Of an answer it says that what
the loop has looked at (`Behind`: the choices before this one, and in this one the words
before this place) has been stopped if all policies seen ban it there (`AllBan`); a policy
more takes nothing away. That the watcher's lists have the elements it is about to write
is `Writing`, an invariant of the pen: only the watcher shortens a list, and it takes no
event in between. Where only one policy was seen,
the name is what all its rules in turn make of it (`After`, a recursive function of the
number of rules). That there is such a function for any number of rules is an induction,
by `CountUp`; from then on the step from one rule to the next is all that is needed. `OrdersInv` says that the requests asked, refused, held and waiting are told
apart by their numbers, each set before the next; `Fates` reads the abstract outcome off
these sets, and each step changes one request's. `FlightInv` says that with `Ahead = 1`
at most one request or answer is anywhere between the application's write and its read,
although two loops write to it.

`NetFlushProofs` proves, from `FlushAssumption` alone - any connections, goroutines
and failures:

- `FlushTypeCorrect` and `DoneMeansCutAlways`: `Spec => []TypeOK`, `Spec => []DoneMeansCut`;
- `FlushAlwaysHasCause`: `Spec => FlushHasCause`, an action property, from the same
  invariant.

The other connections, which the dump does not list, are excepted by `Cuttable`, what
constants and code say of them; a call's failure is known by `FailedCounts`.
`DoneMeansCut` speaks of the moment after the cut. Before it, `AllListed` says that
nothing of before the start is missing in what a goroutine has listed, which holds
because such a socket never becomes alive again (`Begun`); and `SawSpoken` ties what
was seen to `spoken`. `OthersStep` and `RunStep` say once what each kind of step
must keep; each action's lemma shows that it does.

`BootstrapProofs` proves, from `BootstrapAssumption` alone - any namespaces, pods
and failures - `BootstrapTypeCorrect`, `OwnTokenAlways`, `EmptyAlwaysHasCause` and
`TokenAlwaysKept`. The invariant follows the token on its way: `OwnAllTheWay` (in the
namespace's secret and in hand it is that namespace's), `EmptyAllTheWay` (an empty
one has a cause already there; on the way to a token there is an account) and
`KeptOnTheWay` (what is about to be loaded is what the secret holds, as a secret that
could not be created leaves the hand empty).

Every invariant, action property and refinement that a run checks is a theorem.
Only model-checked: the liveness properties (`Served` of `Mirrors` and `PodWatcher`,
`BytesArrive`, `ServerCloseArrives`, `HandlersReturn`, `Answered`, `Followed`, `OldIsCut`), as
fairness and ENABLED are out of the proof system's reach. Its induction theorems are too,
as they take an operator as a parameter. `CountUp` does what is needed here: a set of
numbers up to n that holds 0 and with each number the next holds n, proved by the
pigeonhole principle on finite sets. No module has a RECURSIVE operator.

The proofs found three things about the models. The outcome of a request in `AIGateway`
was a CASE whose guards overlap while a panic is under way, where TLC took the first by
its own choice; it is nested IFs now. The type invariant of `AIGateway` left open which
fields a loop's state has at which place, without which it is not inductive. And
`Mirrors` did not say that the loopback address belongs to no pod, which `NoSelfProxy`
depends on; `PodsAssumption` does.

## Not modelled

- Tunnel mode: nothing in the repository sets it up, and `ProxyFunc` is nil.
- TLS, certificates' content, packet and netlink serialisation, flags, logging.
- `ebpf/vmlinux.h` and the generated bindings: the kernel's types, generated from
  its BTF, without an operation. They are nearly all lines of the repository.
- Addresses and their arithmetic (`ToInt`, the masks of the ranges, byte orders
  other than the cookie's): they are members of sets; the arithmetic runs once, at
  the start, on the operator's own settings.
- Levels of pids (`ns_pid_ppid`): a process has one pid, that of its own namespace.
  A process that unshares its pid namespace is not in the models.
- The content of tokens and their expiry: nothing in the repository reacts to time.
- Flags, files of the CA, the client's credentials; demo and AI workloads, which play
  the application and the server in the models.

## Plan

Done, in this order, the most important first: `Redirection`, `Mirrors`,
`MirrorsProofs`, `Relay`, `PodWatcher`, `PodWatcherProofs`, `Filter`, `AIGateway`,
`NetFlush`, `NetFlushProofs`, `Bootstrap`, `BootstrapProofs`, `RedirectionProofs`,
`RelayProofs`, `AIGatewayProofs`. Next:

1. `Node`: `Mirrors` and `Relay` composed - a redirected connection's bytes reach
   the destination it asked for - and `Mirrors` and `NetFlush`, whose cut
   connections are the ones `Mirrors` begins with.
2. `Bootstrap` composed with `PodWatcher`, whose handler calls it.
3. `Addresses`: `ToInt`, the CIDR mask and the byte orders as functions, against
   a reference over small widths.
