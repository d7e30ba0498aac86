------------------------------ MODULE AIGateway ------------------------------
(***************************************************************************)
(* The AI gateway: for each redirected connection a loop that reads the    *)
(* application's requests and one that reads the server's answers          *)
(* (directConnect, Http_gateway, openai.go), all of them under one policy  *)
(* that the config watcher writes into while they read it (pkg/watcher).   *)
(* No lock protects the policy.                                            *)
(*                                                                         *)
(* A config map, and so an event, is a document: a function from the       *)
(* fields it mentions to their values.  The policy is written bit by bit,  *)
(* as json.Unmarshal does it, and the loops read it bit by bit; what the   *)
(* machine reads or writes of it at once is a step here.                   *)
(***************************************************************************)
EXTENDS Integers, Sequences, FiniteSets

CONSTANTS
    Conns,        \* the connections of the application
    Ahead,        \* how many requests an application sends without an answer
    MaxRequests,  \* bound: requests per connection
    Models,       \* what a request may ask for
    Names,        \* the names that a policy may give it, the empty one among them
    Words,        \* what a policy may ban
    Contents,     \* the answers of a server: of each choice, the words in it
    Docs,         \* the documents that users put into the config map
    MaxEdits,     \* bound: how often they change it
    Faults,       \* what may fail: "client", "watch", "server"
    MaxFaults,    \* bound: how often, all together
    None          \* nil, no config map, and the empty name or word

Fields == {"block", "rules", "banned"}
Strings == Words \cup {None}
Keys == {"orig", "new"}
Rules == [Keys -> Names]
Bodies == {"chat", "other"}   \* does the body parse as a chat completion?

\* The values that a document, or what is left of it, may have for its fields.
\* A rule in it need not mention both of its keys.
Document(d) ==
    /\ DOMAIN d \subseteq Fields
    /\ "block" \in DOMAIN d => d["block"] \in BOOLEAN
    /\ "rules" \in DOMAIN d => d["rules"] \in Seq(UNION {[S -> Names] : S \in SUBSET Keys \ {{}}})
    /\ "banned" \in DOMAIN d => d["banned"] \in Seq(Strings)

ASSUME AIAssumption ==
    /\ Ahead \in Nat \ {0} /\ MaxRequests \in Nat /\ MaxEdits \in Nat /\ MaxFaults \in Nat
    /\ \A d \in Docs : Document(d)
    /\ Models \subseteq Names /\ None \in Names
    /\ Contents \subseteq Seq(SUBSET Words)
    /\ None \notin Docs

VARIABLES
    app,      \* per connection, the application: what it has sent and got
    srv,      \* and the server: is its end open?
    ingress,  \* the requests on their way to the gateway
    egress,   \* the requests on their way to the server
    replies,  \* the answers on their way to the gateway
    req,      \* the request loop
    resp,     \* the response loop
    policy,   \* AITransaction: the request's and the response's section
    dead,     \* has the gateway's process ended?
    cm,       \* the pod's config map
    watch,    \* the watch of it: "starting", "up", "lost" or "off"
    events,   \* what the watch has delivered
    todo,     \* the fields the watcher has yet to write
    pen,      \* where in a list of theirs it is
    edits, faults,
    asked, refused,   \* history: the requests that were forwarded, and refused
    seen              \* history: the policies since the request, the answer in hand was read

pipes == <<ingress, egress, replies>>
watchVars == <<cm, watch, events, todo, pen>>
bounds == <<edits, faults>>
history == <<asked, refused, seen>>
vars == <<app, srv, pipes, req, resp, policy, dead, watchVars, bounds, history>>

Ids == 1 .. MaxRequests
Requests == [id : Ids, body : Bodies, orig : Models, model : Names]
Answers == [id : Ids, body : Bodies, choices : Seq(SUBSET Words)]
Nothing == [at |-> "read"]

\* A section: its list - the rules, the banned words - and what the list's array
\* holds behind its end.
RequestPolicies == [block : BOOLEAN, list : Seq(Rules), spare : Seq(Rules)] \cup {None}
ResponsePolicies == [list : Seq(Strings), spare : Seq(Strings)] \cup {None}

Init ==
    /\ app = [k \in Conns |-> [sent |-> 0, last |-> "chat", got |-> <<>>, open |-> TRUE]]
    /\ srv = [k \in Conns |-> TRUE]
    /\ ingress = [k \in Conns |-> <<>>]
    /\ egress = ingress
    /\ replies = ingress
    /\ req = [k \in Conns |-> Nothing]
    /\ resp = req
    /\ policy = [request |-> None, response |-> None]
    /\ dead = FALSE
    /\ cm = None
    /\ watch = "starting"
    /\ events = <<>>
    /\ todo = <<>>
    /\ pen = None
    /\ edits = 0 /\ faults = 0
    /\ asked = ingress
    /\ refused = ingress
    /\ seen = [k \in Conns |-> [request |-> {}, response |-> {}]]

-----------------------------------------------------------------------------
(* The application and the server *)

\* directConnect closes the application's connection when the response loop ends.
Closed(k) == dead \/ resp[k].at = "done"
Reaches(k) == app[k].open /\ ~Closed(k)

Send(k) ==
    /\ Reaches(k)
    /\ app[k].sent < MaxRequests
    /\ app[k].sent < Len(app[k].got) + Ahead
    /\ \E m \in Models, b \in Bodies :
          /\ app' = [app EXCEPT ![k].sent = @ + 1, ![k].last = b]
          /\ ingress' = [ingress EXCEPT ![k] = Append(@, [id |-> app[k].sent + 1, body |-> b,
                                                          orig |-> m, model |-> m])]
    /\ UNCHANGED <<srv, egress, replies, req, resp, policy, dead, watchVars, bounds, history>>

AppClose(k) ==
    /\ app[k].open
    /\ app' = [app EXCEPT ![k].open = FALSE]
    /\ UNCHANGED <<srv, pipes, req, resp, policy, dead, watchVars, bounds, history>>

\* A server answers what it is asked, in order.
Reply(k) ==
    /\ srv[k] /\ ~dead /\ egress[k] # <<>>
    /\ egress' = [egress EXCEPT ![k] = Tail(@)]
    /\ \E c \in Contents :
          replies' = [replies EXCEPT ![k] = Append(@, [id |-> Head(egress[k]).id,
                                                       body |-> Head(egress[k]).body, choices |-> c])]
    /\ UNCHANGED <<app, srv, ingress, req, resp, policy, dead, watchVars, bounds, history>>

Fault(f) ==
    /\ f \in Faults
    /\ faults < MaxFaults
    /\ faults' = faults + 1

ServerClose(k) ==
    /\ srv[k]
    /\ Fault("server")
    /\ srv' = [srv EXCEPT ![k] = FALSE]
    /\ UNCHANGED <<app, pipes, req, resp, policy, dead, watchVars, edits, history>>

-----------------------------------------------------------------------------
(* The request loop: the goroutine of Http_gateway, and openAIRequest.  It *)
(* looks at the policy again at each step; a section that has gone by then *)
(* is a nil dereference.                                                   *)

Step(k, x) == req' = [req EXCEPT ![k] = x]
Panic == dead' = TRUE
Forget(k) == seen' = [seen EXCEPT ![k].request = {}]

\* Mutant: the loop goes on to the write.
AfterRefusal_Forwards(r) == [at |-> "write", r |-> r]

\* A refused request is done with.
AfterRefusal(r) == Nothing

\* Whatever the reader has read ahead goes with it.
TakeRequest(k) ==
    \E n \in 1 .. Len(ingress[k]) :
        /\ ingress' = [ingress EXCEPT ![k] = SubSeq(@, n + 1, Len(@))]
        /\ Step(k, [at |-> IF policy.request = None THEN "write" ELSE "judge", r |-> Head(ingress[k])])
        /\ seen' = [seen EXCEPT ![k].request = {policy.request}]

\* The end of the requests ends the loop, any other error is read again, for ever.
NoRequest(k) ==
    /\ \/ Closed(k) /\ Step(k, [at |-> "spin"])
       \/ ~app[k].open /\ Step(k, [at |-> "spin"])
       \/ ~app[k].open /\ ingress[k] = <<>> /\ Step(k, [at |-> "done"])
    /\ UNCHANGED <<ingress, seen>>

ReqRead(k) ==
    /\ ~dead /\ req[k].at = "read"
    /\ \/ ~Closed(k) /\ TakeRequest(k)
       \/ NoRequest(k)
    /\ UNCHANGED <<app, srv, egress, replies, resp, policy, dead, watchVars, bounds, asked, refused>>

\* A look at the policy: without its section there is nothing to look at.
LookOr(k, p, x) ==
    \/ p = None /\ Panic /\ UNCHANGED req
    \/ p # None /\ Step(k, x) /\ UNCHANGED dead

\* What does not parse as a chat completion is not sent on.
ReqJudge(k) ==
    /\ ~dead /\ req[k].at = "judge"
    /\ \/ /\ policy.request = None \/ req[k].r.body = "chat"
          /\ LookOr(k, policy.request, [at |-> "block", r |-> req[k].r])
          /\ UNCHANGED seen
       \/ /\ policy.request # None /\ req[k].r.body = "other"
          /\ Step(k, Nothing) /\ Forget(k) /\ UNCHANGED dead
    /\ UNCHANGED <<app, srv, pipes, resp, policy, watchVars, bounds, asked, refused>>

ReqBlock(k) ==
    /\ ~dead /\ req[k].at = "block"
    /\ LookOr(k, policy.request,
              [at |-> IF policy.request.block THEN "refuse" ELSE "count", r |-> req[k].r])
    /\ UNCHANGED <<app, srv, pipes, resp, policy, watchVars, bounds, history>>

\* Mutant: the answer is written to the wrong end.
GiveBack_Egress(k, i) == UNCHANGED app

\* An answer reaches an application that is still there.
GiveBack(k, i) == app' = IF Reaches(k) THEN [app EXCEPT ![k].got = Append(@, i)] ELSE app

ReqRefuse(k) ==
    /\ ~dead /\ req[k].at = "refuse"
    /\ GiveBack(k, req[k].r.id)
    /\ refused' = [refused EXCEPT ![k] = Append(@, req[k].r.id)]
    /\ \/ policy.request = None /\ Panic /\ UNCHANGED <<req, seen>>
       \/ policy.request # None /\ Step(k, AfterRefusal(req[k].r)) /\ Forget(k) /\ UNCHANGED dead
    /\ UNCHANGED <<srv, pipes, resp, policy, watchVars, bounds, asked>>

\* How many rules there are is asked once ...
ReqCount(k) ==
    /\ ~dead /\ req[k].at = "count"
    /\ LookOr(k, policy.request,
              [at |-> "match", r |-> req[k].r, i |-> 1, n |-> Len(policy.request.list)])
    /\ UNCHANGED <<app, srv, pipes, resp, policy, watchVars, bounds, history>>

\* One rule after the other, each compared with what the last has left ...
Matched(s, rule) ==
    IF s.r.model = rule.orig THEN [s EXCEPT !.at = "rename"] ELSE [s EXCEPT !.i = @ + 1]

\* ... and put in its place.
Renamed(s, rule) == [s EXCEPT !.at = "match", !.r.model = rule.new, !.i = @ + 1]

\* ... and which they are, each time: one that has gone by then is out of range.
RuleAt(i) ==
    IF policy.request = None THEN None
    ELSE IF i > Len(policy.request.list) THEN None ELSE policy.request.list[i]

\* After the rules, the prompts are looked at, if there are any from the user.
ReqMatch(k) ==
    /\ ~dead /\ req[k].at = "match"
    /\ LET s == req[k]
       IN  \/ s.i > s.n /\ Step(k, [at |-> "write", r |-> s.r]) /\ UNCHANGED dead
           \/ s.i > s.n /\ policy.request = None /\ Panic /\ UNCHANGED req
           \/ s.i <= s.n /\ LookOr(k, RuleAt(s.i), Matched(s, RuleAt(s.i)))
    /\ UNCHANGED <<app, srv, pipes, resp, policy, watchVars, bounds, history>>

ReqRename(k) ==
    /\ ~dead /\ req[k].at = "rename"
    /\ LookOr(k, RuleAt(req[k].i), Renamed(req[k], RuleAt(req[k].i)))
    /\ UNCHANGED <<app, srv, pipes, resp, policy, watchVars, bounds, history>>

ReqWrite(k) ==
    /\ ~dead /\ req[k].at = "write"
    /\ \/ /\ srv[k]
          /\ egress' = [egress EXCEPT ![k] = Append(@, req[k].r)]
          /\ asked' = [asked EXCEPT ![k] = Append(@, req[k].r.id)]
          /\ Step(k, Nothing)
       \/ /\ ~srv[k]
          /\ Step(k, Nothing) \/ Step(k, [at |-> "done"])
          /\ UNCHANGED <<egress, asked>>
    /\ Forget(k)
    /\ UNCHANGED <<app, srv, ingress, replies, resp, policy, dead, watchVars, bounds, refused>>

-----------------------------------------------------------------------------
(* The response loop: Http_gateway itself, and openAIResponse *)

StepBack(k, x) == resp' = [resp EXCEPT ![k] = x]
Passed(a, block) == [at |-> "write", a |-> a, block |-> block]

\* The loop comes to the answer's choice x, and in it to word y of n, or has been
\* through them.
Filtering(a, x, block) ==
    IF a.body = "chat" /\ x > Len(a.choices) THEN Passed(a, block)
    ELSE [at |-> "filter", a |-> a, block |-> block, x |-> x]

Looking(a, x, block, y, n) ==
    IF y > n THEN Filtering(a, x + 1, block)
    ELSE [at |-> "word", a |-> a, block |-> block, x |-> x, y |-> y, n |-> n]

TakeAnswer(k) ==
    \E n \in 1 .. Len(replies[k]) :
        /\ replies' = [replies EXCEPT ![k] = SubSeq(@, n + 1, Len(@))]
        /\ StepBack(k, IF policy.response = None THEN Passed(Head(replies[k]), FALSE)
                       ELSE Filtering(Head(replies[k]), 1, FALSE))
        /\ seen' = [seen EXCEPT ![k].response = {policy.response}]
        /\ UNCHANGED dead

\* The policy looks at the answer before the loop looks at the error.
NoAnswer(k) ==
    /\ replies[k] = <<>> /\ ~srv[k]
    /\ IF policy.response # None THEN Panic /\ UNCHANGED resp
       ELSE StepBack(k, [at |-> "done"]) /\ UNCHANGED dead
    /\ UNCHANGED <<replies, seen>>

RespRead(k) ==
    /\ ~dead /\ resp[k].at = "read"
    /\ \/ TakeAnswer(k)
       \/ NoAnswer(k)
    /\ UNCHANGED <<app, srv, ingress, egress, req, policy, watchVars, bounds, asked, refused>>

LookBackOr(k, p, x) ==
    \/ p = None /\ Panic /\ UNCHANGED resp
    \/ p # None /\ StepBack(k, x) /\ UNCHANGED dead

\* How many words are banned is asked once for each choice.  What does not parse has
\* been read to its end: its answer is cut short.
RespFilter(k) ==
    /\ ~dead /\ resp[k].at = "filter"
    /\ LET s == resp[k]
           p == policy.response
       IN  \/ /\ s.a.body = "other"
              /\ StepBack(k, Passed(s.a, FALSE)) \/ StepBack(k, [at |-> "done"])
              /\ UNCHANGED dead
           \/ s.a.body = "chat" /\ LookBackOr(k, p, Looking(s.a, s.x, s.block, 1, Len(p.list)))
    /\ UNCHANGED <<app, srv, pipes, req, policy, watchVars, bounds, history>>

\* The empty word is in everything.
Contains(c, w) == w = None \/ w \in c

\* Mutant: the last word decides.
Blocked_Last(s, w) == Contains(s.a.choices[s.x], w)

\* One banned word in one choice is enough.
Blocked(s, w) == s.block \/ Contains(s.a.choices[s.x], w)

\* Which words are banned is asked each time, of the list as it is by then.
HasWord(y) == policy.response # None /\ y \in DOMAIN policy.response.list

RespWord(k) ==
    /\ ~dead /\ resp[k].at = "word"
    /\ LET s == resp[k]
           p == policy.response
       IN  \/ /\ HasWord(s.y)
              /\ StepBack(k, Looking(s.a, s.x, Blocked(s, p.list[s.y]), s.y + 1, s.n))
              /\ UNCHANGED dead
           \/ ~HasWord(s.y) /\ Panic /\ UNCHANGED resp
    /\ UNCHANGED <<app, srv, pipes, req, policy, watchVars, bounds, history>>

RespWrite(k) ==
    /\ ~dead /\ resp[k].at = "write"
    /\ GiveBack(k, resp[k].a.id)
    /\ \/ StepBack(k, Nothing)
       \/ ~app[k].open /\ StepBack(k, [at |-> "done"])
    /\ seen' = [seen EXCEPT ![k].response = {}]
    /\ UNCHANGED <<srv, pipes, req, policy, dead, watchVars, bounds, asked, refused>>

-----------------------------------------------------------------------------
(* The config map and its watcher *)

SetTo(d) == [type |-> "set", doc |-> d]
Deletion == [type |-> "deleted"]

\* What a new watch delivers: the map as it is, or nothing.
\* Mutant: only what changes from now on.
FirstEvents_None == <<>>

\* Mutant: a map that does not exist is delivered as well.
FirstEvents_Always == <<SetTo(cm)>>

FirstEvents == IF cm = None THEN <<>> ELSE <<SetTo(cm)>>

Deliver(e) == events' = IF watch = "up" THEN Append(events, e) ELSE events

Edit(d) ==
    /\ edits < MaxEdits
    /\ cm # d
    /\ edits' = edits + 1
    /\ cm' = d
    /\ Deliver(SetTo(d))
    /\ UNCHANGED <<app, srv, pipes, req, resp, policy, dead, watch, todo, pen, faults, history>>

DeleteMap ==
    /\ edits < MaxEdits
    /\ cm # None
    /\ edits' = edits + 1
    /\ cm' = None
    /\ Deliver(Deletion)
    /\ UNCHANGED <<app, srv, pipes, req, resp, policy, dead, watch, todo, pen, faults, history>>

\* Without a client there is no watch, and nobody tries again.
StartWatch ==
    /\ ~dead /\ watch = "starting"
    /\ \/ watch' = "up" /\ events' = FirstEvents /\ UNCHANGED faults
       \/ Fault("client") /\ watch' = "off" /\ UNCHANGED events
    /\ UNCHANGED <<app, srv, pipes, req, resp, policy, dead, cm, todo, pen, edits, history>>

LoseWatch ==
    /\ watch = "up"
    /\ Fault("watch")
    /\ watch' = "lost"
    /\ \E n \in 0 .. Len(events) : events' = SubSeq(events, 1, n)
    /\ UNCHANGED <<app, srv, pipes, req, resp, policy, dead, cm, todo, pen, edits, history>>

\* The watch is opened without the version it had come to.
Rewatch ==
    /\ ~dead /\ watch = "lost"
    /\ watch' = "up"
    /\ events' = events \o FirstEvents
    /\ UNCHANGED <<app, srv, pipes, req, resp, policy, dead, cm, todo, pen, bounds, history>>

\* The policy changes in the hands of the loops.
Change(p) ==
    /\ policy' = p
    /\ seen' = [k \in Conns |-> [s \in {"request", "response"} |->
                   IF seen[k][s] = {} THEN {} ELSE seen[k][s] \cup {p[s]}]]

\* Reset is two assignments, of which only the sections matter to a reader.
TakeEvent ==
    /\ ~dead /\ todo = <<>> /\ events # <<>>
    /\ events' = Tail(events)
    /\ \/ Head(events).type = "set" /\ todo' = Head(events).doc /\ UNCHANGED <<policy, seen>>
       \/ /\ Head(events).type = "deleted"
          /\ Change([request |-> None, response |-> None])
          /\ UNCHANGED todo
    /\ UNCHANGED <<app, srv, pipes, req, resp, dead, cm, watch, pen, bounds, asked, refused>>

Blank == [request |-> [block |-> FALSE, list |-> <<>>, spare |-> <<>>],
          response |-> [list |-> <<>>, spare |-> <<>>]]
Zero == [request |-> [g \in Keys |-> None], response |-> None]

SectionOf(f) == IF f = "banned" THEN "response" ELSE "request"

\* json.Unmarshal writes what it reads into what is there, in the order of the document:
\* field f, and of a list the element i, of which it has written the keys in `done`.
Pen(f) == IF pen = None THEN [f |-> f, i |-> 1, done |-> {}] ELSE pen
NextElement(q) == [q EXCEPT !.i = @ + 1, !.done = {}]
Done(f) == todo' = [g \in DOMAIN todo \ {f} |-> todo[g]] /\ pen' = None

\* It rewrites a section.
Rewrite(f, new) == Change([policy EXCEPT ![SectionOf(f)] = new])
watcherOnly == <<app, srv, pipes, req, resp, dead, cm, watch, events, bounds, asked, refused>>

\* A section that is not there is made, blank, and then filled.
MakeSection(f) ==
    /\ pen = None /\ policy[SectionOf(f)] = None
    /\ Rewrite(f, Blank[SectionOf(f)])
    /\ UNCHANGED <<todo, pen>>

WriteBlock ==
    /\ pen = None /\ policy.request # None
    /\ Rewrite("block", [policy.request EXCEPT !.block = todo["block"]])
    /\ Done("block")

\* A longer list gets one element more: what its array holds there, or zero.
Grown(f, p) ==
    [p EXCEPT !.list = Append(@, IF p.spare = <<>> THEN Zero[SectionOf(f)] ELSE Head(p.spare)),
              !.spare = IF @ = <<>> THEN @ ELSE Tail(@)]

\* A shorter one is cut; an empty one is a new list.
Cut(p, n) ==
    [p EXCEPT !.list = SubSeq(@, 1, n),
              !.spare = IF n = 0 THEN <<>> ELSE SubSeq(p.list, n + 1, Len(p.list)) \o @]

\* The keys of a list's element that have a value in the document.
KeysOf(f, i) == IF f = "rules" THEN DOMAIN todo[f][i] ELSE {"word"}

Put(f, p, i, g) ==
    IF f = "rules" THEN [p EXCEPT !.list[i] = [@ EXCEPT ![g] = todo[f][i][g]]]
    ELSE [p EXCEPT !.list[i] = todo[f][i]]

WriteList(f) ==
    /\ Pen(f).f = f
    /\ policy[SectionOf(f)] # None
    /\ LET p == policy[SectionOf(f)]
           q == Pen(f)
           n == Len(todo[f])
       IN  \/ /\ q.i > n
              /\ Rewrite(f, Cut(p, n))
              /\ Done(f)
           \/ /\ q.i <= n /\ q.i > Len(p.list)
              /\ Rewrite(f, Grown(f, p))
              /\ pen' = q
              /\ UNCHANGED todo
           \/ /\ q.i <= n /\ q.i <= Len(p.list)
              /\ \E g \in KeysOf(f, q.i) \ q.done :
                    /\ Rewrite(f, Put(f, p, q.i, g))
                    /\ pen' = IF KeysOf(f, q.i) \subseteq q.done \cup {g} THEN NextElement(q)
                              ELSE [q EXCEPT !.done = @ \cup {g}]
              /\ UNCHANGED todo

Unmarshal(f) ==
    /\ ~dead /\ f \in DOMAIN todo
    /\ MakeSection(f) \/ (f = "block" /\ WriteBlock) \/ (f # "block" /\ WriteList(f))
    /\ UNCHANGED watcherOnly

-----------------------------------------------------------------------------

RequestLoop(k) ==
    \/ ReqRead(k) \/ ReqJudge(k) \/ ReqBlock(k) \/ ReqRefuse(k)
    \/ ReqCount(k) \/ ReqMatch(k) \/ ReqRename(k) \/ ReqWrite(k)
ResponseLoop(k) == RespRead(k) \/ RespFilter(k) \/ RespWord(k) \/ RespWrite(k)
Watcher == StartWatch \/ Rewatch \/ TakeEvent \/ \E f \in Fields : Unmarshal(f)

Next ==
    \/ \E k \in Conns : \/ Send(k) \/ AppClose(k) \/ Reply(k) \/ ServerClose(k)
                        \/ RequestLoop(k) \/ ResponseLoop(k)
    \/ \E d \in Docs : Edit(d)
    \/ DeleteMap
    \/ LoseWatch
    \/ Watcher

Fairness ==
    /\ \A k \in Conns : /\ WF_vars(RequestLoop(k))
                        /\ WF_vars(ResponseLoop(k))
                        /\ WF_vars(Reply(k))
    /\ WF_vars(Watcher)

Spec == Init /\ [][Next]_vars /\ Fairness

-----------------------------------------------------------------------------
(* Properties *)

Apps == [sent : 0 .. MaxRequests, last : Bodies, got : Seq(Ids), open : BOOLEAN]
Idle == [at : {"read", "spin", "done"}]
Holding == [at : {"judge", "block", "refuse", "count", "write"}, r : Requests]
Rewriting == [at : {"match", "rename"}, r : Requests, i : Nat \ {0}, n : Nat]
RequestStates == Idle \cup Holding \cup Rewriting
Answering ==
    [at : {"write"}, a : Answers, block : BOOLEAN]
    \cup [at : {"filter"}, a : Answers, block : BOOLEAN, x : Nat \ {0}]
    \cup [at : {"word"}, a : Answers, block : BOOLEAN, x : Nat \ {0}, y : Nat \ {0}, n : Nat]
ResponseStates == [at : {"read", "done"}] \cup Answering
Pens == [f : {"rules", "banned"}, i : Nat \ {0}, done : SUBSET (Keys \cup {"word"})] \cup {None}

\* Every variable has its type.  A loop holds a request or an answer exactly
\* while it is past the read, and only then is there a history of policies.
TypeOK ==
    /\ app \in [Conns -> Apps]
    /\ srv \in [Conns -> BOOLEAN]
    /\ ingress \in [Conns -> Seq(Requests)] /\ egress \in [Conns -> Seq(Requests)]
    /\ replies \in [Conns -> Seq(Answers)]
    /\ req \in [Conns -> RequestStates] /\ resp \in [Conns -> ResponseStates]
    /\ policy \in [request : RequestPolicies, response : ResponsePolicies]
    /\ dead \in BOOLEAN
    /\ cm \in Docs \cup {None}
    /\ watch \in {"starting", "up", "lost", "off"}
    /\ events \in Seq({SetTo(d) : d \in Docs} \cup {Deletion})
    /\ Document(todo) /\ pen \in Pens
    /\ edits \in 0 .. MaxEdits /\ faults \in 0 .. MaxFaults
    /\ asked \in [Conns -> Seq(Ids)] /\ refused \in [Conns -> Seq(Ids)]
    /\ seen \in [Conns -> [request : SUBSET RequestPolicies, response : SUBSET ResponsePolicies]]
    /\ \A k \in Conns :
         /\ (seen[k].request = {}) <=> (req[k].at \in {"read", "spin", "done"})
         /\ seen[k].response # {} => resp[k].at # "read"

Applied(m, rule) == IF m = rule.orig THEN rule.new ELSE m

\* A model's name after the first rules, and after all of them.
After(m, rules) ==
    LET after[n \in 0 .. Len(rules)] == IF n = 0 THEN m ELSE Applied(after[n - 1], rules[n])
    IN  after
Rewritten(m, rules) == After(m, rules)[Len(rules)]

\* The policies in P all ban, at place y of their lists, a word that is in c.
AllBan(P, y, c) == \A p \in P : p # None /\ y \in DOMAIN p.list /\ Contains(c, p.list[y])

\* Some policy in P bans a word that is in one of the choices.
SomeBans(P, choices) ==
    \E p \in P \ {None} : \E y \in DOMAIN p.list, x \in DOMAIN choices : Contains(choices[x], p.list[y])

\* What a request is sent on as, or that it is refused, follows from policies that
\* were in force after it was read, and from the one policy there was if it did not
\* change meanwhile.  An answer is replaced only if one of the policies in force bans
\* a word in it, and always if all of them do so at the same place of their lists -
\* in whatever halves the config watcher writes the policy under the loops' hands.
InForce ==
    \A k \in Conns :
        /\ req[k].at = "write" =>
             LET r == req[k].r
                 P == seen[k].request
             IN  /\ \E p \in P : p = None \/ ~p.block
                 /\ r.model # r.orig => \E p \in P \ {None} : \E n \in DOMAIN p.list : p.list[n].new = r.model
                 /\ \A p \in P \ {None} : P = {p} /\ r.body = "chat" => r.model = Rewritten(r.orig, p.list)
        /\ req[k].at = "refuse" => \E p \in seen[k].request \ {None} : p.block
        /\ resp[k].at = "write" =>
             LET a == resp[k].a
                 P == seen[k].response
             IN  /\ resp[k].block => SomeBans(P, a.choices)
                 /\ a.body = "chat" =>
                      \A p \in P \ {None} : \A y \in DOMAIN p.list, x \in DOMAIN a.choices :
                          AllBan(P, y, a.choices[x]) => resp[k].block

Increases(s) == \A i, j \in DOMAIN s : i < j => s[i] < s[j]

\* An application that waits for each answer gets at most one for each request,
\* in the order it asked, whether the server gave it or the gateway; the server
\* is asked in that order.
AnswersInOrder == \A k \in Conns : Increases(app[k].got) /\ Increases(asked[k])

Times(s, i) == Cardinality({n \in DOMAIN s : s[n] = i})
Carried(k) == {ingress[k][n].id : n \in DOMAIN ingress[k]} \cup
              (IF "r" \in DOMAIN req[k] /\ Times(refused[k], req[k].r.id) = 0 THEN {req[k].r.id} ELSE {})

Outcome(k, i) ==
    IF Times(asked[k], i) + Times(refused[k], i) > 1 THEN "twice"
    ELSE IF Times(asked[k], i) = 1 THEN "asked"
    ELSE IF Times(refused[k], i) = 1 THEN "refused"
    ELSE IF i > app[k].sent THEN "unsent"
    ELSE IF i \in Carried(k) THEN "pending" ELSE "lost"

Abstract == INSTANCE Filter WITH outcome <- [k \in Conns |-> [i \in Ids |-> Outcome(k, i)]]

\* The request loop is a filter: each request is forwarded once, or refused
\* once, or lost, whatever happens to the policy, the ends and the process.
FilterSpec == Abstract!Spec

\* A request that parses is answered, by the server or by the gateway, unless
\* an end closes or the process has died.
Answered ==
    \A k \in Conns :
        (app[k].last = "chat" /\ Len(app[k].got) < app[k].sent)
            ~> (Len(app[k].got) = app[k].sent \/ ~Reaches(k) \/ ~srv[k])

Agrees(d) ==
    \A f \in DOMAIN d :
        LET p == policy[SectionOf(f)]
        IN  /\ p # None
            /\ f = "block" => p.block = d[f]
            /\ f = "banned" => p.list = d[f]
            /\ f = "rules" => /\ Len(p.list) = Len(d[f])
                             /\ \A n \in DOMAIN d[f] : \A g \in DOMAIN d[f][n] : p.list[n][g] = d[f][n][g]

\* A config map that stays comes into force, in every field it mentions, even
\* if the watch was lost while it was written.
Followed == \A d \in Docs : <>[](cm = d) => <>[](Agrees(d) \/ watch = "off" \/ dead)

-----------------------------------------------------------------------------
(* Properties that do not hold *)

\* The gateway's process goes on whatever a server or a config map does
\* ("TODO: is there a better way?", watcher.go:64, of the Reset that pulls the
\* policy from under the loops; "problem here", http_gateway.go:65).
StaysUp == ~dead

\* A request is judged by one policy.
OnePolicy ==
    \A k \in Conns : req[k].at = "write" =>
        \E p \in seen[k].request :
            IF p = None THEN req[k].r.model = req[k].r.orig
            ELSE ~p.block /\ req[k].r.model = Rewritten(req[k].r.orig, p.list)

\* An answer with a word that every policy in force has banned is not passed on: it
\* is, if the word changes its place while the loop counts (openai.go:137-138).
BannedNeverPass ==
    \A k \in Conns : resp[k].at = "write" /\ resp[k].a.body = "chat" /\ ~resp[k].block =>
        \A w \in Words : (\E x \in DOMAIN resp[k].a.choices : w \in resp[k].a.choices[x]) =>
            \E p \in seen[k].response : p = None \/ \A y \in DOMAIN p.list : p.list[y] # w

\* Only an answer with a word that some config map bans is replaced: an element that
\* has been added to the list and not written yet is in every answer.
OnlyBannedAreStopped ==
    \A k \in Conns : resp[k].at = "write" /\ resp[k].block =>
        \E x \in DOMAIN resp[k].a.choices, d \in Docs :
            "banned" \in DOMAIN d /\ \E y \in DOMAIN d.banned : Contains(resp[k].a.choices[x], d.banned[y])

\* A request is sent on under a name that some config map gives it.
NamedByMap ==
    \A k \in Conns : req[k].at = "write" /\ req[k].r.model # req[k].r.orig => req[k].r.model # None

\* A policy whose config map was deleted is gone in the end
\* ("Force the struct to blank", watcher.go:64).
Forgotten == <>[](cm = None /\ watch = "up") =>
             <>[](policy = [request |-> None, response |-> None] \/ dead)

\* The request loop ends when its connection has ended.
LoopsEnd == \A k \in Conns : resp[k].at = "done" ~> (req[k].at = "done" \/ dead)
=============================================================================
