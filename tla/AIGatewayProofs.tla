--------------------------- MODULE AIGatewayProofs ---------------------------
(***************************************************************************)
(* Proofs about the AI gateway, for any number of connections, requests,   *)
(* documents and faults.                                                   *)
(***************************************************************************)
EXTENDS AIGateway, Counting, TLAPS

-----------------------------------------------------------------------------
(* What the loops may hold *)

Resting == {"read", "spin", "done"}

LEMMA RestingState == ASSUME NEW x \in Resting PROVE [at |-> x] \in RequestStates
BY DEF Resting, RequestStates, Idle

HoldingAt == {"judge", "block", "refuse", "count", "write"}

LEMMA HoldingState ==
    ASSUME NEW x \in HoldingAt, NEW r \in Requests
    PROVE  [at |-> x, r |-> r] \in RequestStates
BY DEF RequestStates, Holding, HoldingAt

LEMMA RewritingState ==
    ASSUME NEW x \in {"match", "rename"}, NEW r \in Requests, NEW i \in Nat \ {0}, NEW n \in Nat
    PROVE  [at |-> x, r |-> r, i |-> i, n |-> n] \in RequestStates
BY DEF RequestStates, Rewriting

LEMMA RequestState ==
    ASSUME NEW s \in RequestStates
    PROVE  /\ s.at \in Resting \/ s \in Holding \/ s \in Rewriting
           /\ ("r" \in DOMAIN s) <=> (s.at \notin Resting)
           /\ s.at \notin Resting => s.r \in Requests
           /\ s.at \in {"match", "rename"} => /\ s \in Rewriting /\ s.i \in Nat \ {0} /\ s.n \in Nat
                                              /\ s = [at |-> s.at, r |-> s.r, i |-> s.i, n |-> s.n]
           /\ s.at \in HoldingAt => s \in Holding
<1>1. CASE s \in Idle
  BY <1>1 DEF Idle, Resting, HoldingAt
<1>2. CASE s \in Holding
  BY <1>2 DEF Holding, Resting, HoldingAt
<1>3. CASE s \in Rewriting
  BY <1>3 DEF Rewriting, Resting, HoldingAt
<1> QED
  BY <1>1, <1>2, <1>3 DEF RequestStates

AnsweringAt == {"filter", "word", "write"}

LEMMA ResponseState ==
    ASSUME NEW s \in ResponseStates
    PROVE  /\ s.at \in {"read", "done"} \/ s \in Answering
           /\ s.at \in AnsweringAt => s \in Answering /\ s.a \in Answers /\ s.block \in BOOLEAN
           /\ s.at \in {"filter", "word"} => s.x \in Nat \ {0}
           /\ s.at = "word" => s.y \in Nat \ {0} /\ s.n \in Nat
           /\ "a" \in DOMAIN s <=> s.at \in AnsweringAt
BY DEF ResponseStates, Answering, AnsweringAt

\* Where the response loop comes to with an answer.
LEMMA PassedState ==
    ASSUME NEW a \in Answers, NEW b, b \in BOOLEAN
    PROVE  /\ Passed(a, b) \in ResponseStates
           /\ Passed(a, b).at = "write" /\ Passed(a, b).a = a /\ Passed(a, b).block = b
BY DEF ResponseStates, Answering, Passed

InChoice(a, x) == ~(a.body = "chat" /\ x > Len(a.choices))

LEMMA FilteringState ==
    ASSUME NEW a \in Answers, NEW b, b \in BOOLEAN, NEW x \in Nat \ {0},
           NEW f, f = Filtering(a, x, b)
    PROVE  /\ f \in ResponseStates /\ f.a = a /\ f.block = b
           /\ \/ f.at = "write" /\ a.body = "chat" /\ x > Len(a.choices)
              \/ f.at = "filter" /\ f.x = x
           /\ f.at = "filter" => InChoice(a, f.x)
<1>1. CASE a.body = "chat" /\ x > Len(a.choices)
  <2>1. Filtering(a, x, b) = Passed(a, b)
    BY <1>1 DEF Filtering
  <2> QED
    BY <1>1, <2>1, PassedState
<1>2. CASE ~(a.body = "chat" /\ x > Len(a.choices))
  <2> DEFINE g == [at |-> "filter", a |-> a, block |-> b, x |-> x]
  <2>1. f = g
    BY <1>2 DEF Filtering
  <2>2. g \in ResponseStates /\ g.a = a /\ g.block = b /\ g.at = "filter" /\ g.x = x
    BY DEF ResponseStates, Answering
  <2> QED
    BY <1>2, <2>1, <2>2 DEF InChoice
<1> QED
  BY <1>1, <1>2

LEMMA LookingState ==
    ASSUME NEW a \in Answers, NEW b, b \in BOOLEAN, NEW x \in Nat \ {0}, NEW y \in Nat \ {0}, NEW n \in Nat,
           NEW f, f = Looking(a, x, b, y, n)
    PROVE  /\ f \in ResponseStates /\ f.a = a /\ f.block = b
           /\ \/ f.at = "write" /\ y > n /\ a.body = "chat" /\ x + 1 > Len(a.choices)
              \/ f.at = "filter" /\ y > n /\ f.x = x + 1
              \/ f.at = "word" /\ y <= n /\ f.x = x /\ f.y = y /\ f.n = n
           /\ f.at = "filter" => InChoice(a, f.x)
<1>1. CASE y > n
  <2> DEFINE z == x + 1
  <2>1. f = Filtering(a, z, b) /\ z \in Nat \ {0}
    BY <1>1 DEF Looking
  <2> HIDE DEF z
  <2>2. /\ f \in ResponseStates /\ f.a = a /\ f.block = b
        /\ \/ f.at = "write" /\ a.body = "chat" /\ z > Len(a.choices)
           \/ f.at = "filter" /\ f.x = z
        /\ f.at = "filter" => InChoice(a, f.x)
    BY <2>1, FilteringState
  <2> QED
    BY <1>1, <2>2 DEF z
<1>2. CASE ~(y > n)
  <2> DEFINE g == [at |-> "word", a |-> a, block |-> b, x |-> x, y |-> y, n |-> n]
  <2>1. f = g
    BY <1>2 DEF Looking
  <2>2. /\ g \in ResponseStates /\ g.a = a /\ g.block = b
        /\ g.at = "word" /\ g.x = x /\ g.y = y /\ g.n = n
    BY DEF ResponseStates, Answering
  <2> QED
    BY <1>2, <2>1, <2>2
<1> QED
  BY <1>1, <1>2

\* What is left of a sequence when the first n go.
LEMMA Rest ==
    ASSUME NEW S, NEW s \in Seq(S), NEW n \in 1 .. Len(s)
    PROVE  /\ SubSeq(s, n + 1, Len(s)) \in Seq(S) /\ Len(SubSeq(s, n + 1, Len(s))) = Len(s) - n
           /\ \A i \in 1 .. Len(s) - n : SubSeq(s, n + 1, Len(s))[i] = s[i + n]
           /\ Head(s) \in S /\ Head(s) = s[1]
OBVIOUS

LEMMA AppendOne ==
    ASSUME NEW S, NEW s \in Seq(S), NEW x \in S
    PROVE  /\ Append(s, x) \in Seq(S) /\ Len(Append(s, x)) = Len(s) + 1
           /\ DOMAIN s = 1 .. Len(s) /\ DOMAIN Append(s, x) = 1 .. Len(s) + 1
           /\ \A i \in 1 .. Len(s) : Append(s, x)[i] = s[i]
           /\ Append(s, x)[Len(s) + 1] = x
OBVIOUS

-----------------------------------------------------------------------------
(* Types *)

SeenType == [request : SUBSET RequestPolicies, response : SUBSET ResponsePolicies]
SeenFits(k) ==
    /\ (seen[k].request = {}) <=> (req[k].at \in Resting)
    /\ seen[k].response # {} => resp[k].at # "read"

LEMMA Fits == ASSUME TypeOK, NEW k \in Conns PROVE SeenFits(k) /\ seen[k] \in SeenType
BY DEF TypeOK, SeenFits, SeenType, Resting

\* The request loop comes to x, and X is what is known of the policies.
RequestComesTo(k, x, X) ==
    /\ req' = [req EXCEPT ![k] = x]
    /\ seen' = [seen EXCEPT ![k].request = X]
    /\ UNCHANGED resp

LEMMA RequestComes ==
    ASSUME TypeOK, NEW k \in Conns, NEW x \in RequestStates, NEW X \in SUBSET RequestPolicies,
           (X = {}) <=> (x.at \in Resting), RequestComesTo(k, x, X)
    PROVE  /\ req' \in [Conns -> RequestStates] /\ seen' \in [Conns -> SeenType]
           /\ req'[k] = x /\ seen'[k].request = X /\ seen'[k].response = seen[k].response
           /\ \A c \in Conns : c # k => req'[c] = req[c] /\ seen'[c] = seen[c]
           /\ \A c \in Conns : SeenFits(c)'
<1>1. /\ req' = [req EXCEPT ![k] = x] /\ req \in [Conns -> RequestStates]
      /\ seen' = [seen EXCEPT ![k] = [seen[k] EXCEPT !.request = X]] /\ seen \in [Conns -> SeenType]
  BY DEF TypeOK, SeenType, RequestComesTo
<1>2. /\ [seen[k] EXCEPT !.request = X] \in SeenType
      /\ [seen[k] EXCEPT !.request = X].request = X
      /\ [seen[k] EXCEPT !.request = X].response = seen[k].response
  BY <1>1 DEF SeenType
<1>3. /\ req' \in [Conns -> RequestStates] /\ seen' \in [Conns -> SeenType]
      /\ req'[k] = x /\ seen'[k].request = X /\ seen'[k].response = seen[k].response
      /\ \A c \in Conns : c # k => req'[c] = req[c] /\ seen'[c] = seen[c]
  BY <1>1, <1>2
<1>4. ASSUME NEW c \in Conns PROVE SeenFits(c)'
  BY <1>3, Fits DEF SeenFits, RequestComesTo
<1> QED
  BY <1>3, <1>4

\* The response loop comes to x, and X is what is known of the policies.
ResponseComesTo(k, x, X) ==
    /\ resp' = [resp EXCEPT ![k] = x]
    /\ seen' = [seen EXCEPT ![k].response = X]
    /\ UNCHANGED req

LEMMA ResponseComes ==
    ASSUME TypeOK, NEW k \in Conns, NEW x \in ResponseStates, NEW X \in SUBSET ResponsePolicies,
           X # {} => x.at # "read", ResponseComesTo(k, x, X)
    PROVE  /\ resp' \in [Conns -> ResponseStates] /\ seen' \in [Conns -> SeenType]
           /\ resp'[k] = x /\ seen'[k].response = X /\ seen'[k].request = seen[k].request
           /\ \A c \in Conns : c # k => resp'[c] = resp[c] /\ seen'[c] = seen[c]
           /\ \A c \in Conns : SeenFits(c)'
<1>1. /\ resp' = [resp EXCEPT ![k] = x] /\ resp \in [Conns -> ResponseStates]
      /\ seen' = [seen EXCEPT ![k] = [seen[k] EXCEPT !.response = X]] /\ seen \in [Conns -> SeenType]
  BY DEF TypeOK, SeenType, ResponseComesTo
<1>2. /\ [seen[k] EXCEPT !.response = X] \in SeenType
      /\ [seen[k] EXCEPT !.response = X].response = X
      /\ [seen[k] EXCEPT !.response = X].request = seen[k].request
  BY <1>1 DEF SeenType
<1>3. /\ resp' \in [Conns -> ResponseStates] /\ seen' \in [Conns -> SeenType]
      /\ resp'[k] = x /\ seen'[k].response = X /\ seen'[k].request = seen[k].request
      /\ \A c \in Conns : c # k => resp'[c] = resp[c] /\ seen'[c] = seen[c]
  BY <1>1, <1>2
<1>4. ASSUME NEW c \in Conns PROVE SeenFits(c)'
  BY <1>3, Fits DEF SeenFits, ResponseComesTo
<1> QED
  BY <1>3, <1>4

\* A history that stays is one that is written again.
LEMMA SeenAgain ==
    ASSUME TypeOK, NEW k \in Conns, UNCHANGED seen
    PROVE  /\ seen' = [seen EXCEPT ![k].request = seen[k].request]
           /\ seen' = [seen EXCEPT ![k].response = seen[k].response]
           /\ seen[k].request \in SUBSET RequestPolicies /\ seen[k].response \in SUBSET ResponsePolicies
<1>1. seen \in [Conns -> SeenType] /\ seen[k] \in SeenType
  BY DEF TypeOK, SeenType
<1>2. /\ [seen[k] EXCEPT !.request = seen[k].request] = seen[k]
      /\ [seen[k] EXCEPT !.response = seen[k].response] = seen[k]
  BY <1>1 DEF SeenType
<1> QED
  BY <1>1, <1>2 DEF SeenType

\* Requests, answers and their numbers.
LEMMA Numbers ==
    ASSUME TypeOK
    PROVE  /\ MaxRequests \in Nat
           /\ \A k \in Conns : /\ app[k] \in Apps /\ app[k].sent \in 0 .. MaxRequests
                               /\ app[k].got \in Seq(Ids) /\ Len(app[k].got) \in Nat
                               /\ ingress[k] \in Seq(Requests) /\ egress[k] \in Seq(Requests)
                               /\ replies[k] \in Seq(Answers)
                               /\ asked[k] \in Seq(Ids) /\ refused[k] \in Seq(Ids)
BY AIAssumption DEF TypeOK, Apps

\* Send: one request more.
LEMMA SendTypes ==
    ASSUME TypeOK, NEW k \in Conns, Send(k)
    PROVE  /\ TypeOK'
           /\ \E r \in Requests : /\ r.id = app[k].sent + 1 /\ r.model = r.orig
                                  /\ ingress'[k] = Append(ingress[k], r)
           /\ app'[k].sent = app[k].sent + 1 /\ app'[k].got = app[k].got
           /\ \A c \in Conns : c # k => app'[c] = app[c] /\ ingress'[c] = ingress[c]
<1>1. PICK m \in Models, b \in Bodies :
        /\ app' = [app EXCEPT ![k].sent = @ + 1, ![k].last = b]
        /\ ingress' = [ingress EXCEPT ![k] = Append(@, [id |-> app[k].sent + 1, body |-> b,
                                                        orig |-> m, model |-> m])]
  BY DEF Send
<1> DEFINE a == [app[k] EXCEPT !.sent = @ + 1, !.last = b]
           r == [id |-> app[k].sent + 1, body |-> b, orig |-> m, model |-> m]
<1>2. app[k].sent + 1 \in Ids /\ app[k].sent + 1 \in 0 .. MaxRequests
  BY Numbers DEF Send, Ids
<1>3. a \in Apps /\ a.sent = app[k].sent + 1 /\ a.got = app[k].got
  BY <1>2, Numbers DEF Apps
<1>4. r \in Requests /\ r.id = app[k].sent + 1 /\ r.model = r.orig
  BY <1>2, AIAssumption DEF Requests
<1>5. /\ app' = [app EXCEPT ![k] = a] /\ app \in [Conns -> Apps]
      /\ ingress' = [ingress EXCEPT ![k] = Append(ingress[k], r)] /\ ingress \in [Conns -> Seq(Requests)]
  <2>1. app \in [Conns -> Apps] /\ ingress \in [Conns -> Seq(Requests)]
    BY DEF TypeOK
  <2>2. app' = [app EXCEPT ![k] = a]
    BY <1>1, <2>1
  <2>3. ingress' = [ingress EXCEPT ![k] = Append(ingress[k], r)]
    BY <1>1, <2>1
  <2> QED
    BY <2>1, <2>2, <2>3
<1> HIDE DEF a, r
<1>6. /\ app' \in [Conns -> Apps] /\ app'[k] = a
      /\ ingress' \in [Conns -> Seq(Requests)] /\ ingress'[k] = Append(ingress[k], r)
      /\ \A c \in Conns : c # k => app'[c] = app[c] /\ ingress'[c] = ingress[c]
  <2>1. Append(ingress[k], r) \in Seq(Requests)
    BY <1>4, <1>5
  <2> QED
    BY <1>3, <1>5, <2>1
<1>7. TypeOK'
  BY <1>6 DEF Send, TypeOK, pipes, watchVars, bounds, history
<1> QED
  BY <1>3, <1>4, <1>6, <1>7

LEMMA AppCloseTypes ==
    ASSUME TypeOK, NEW k \in Conns, AppClose(k)
    PROVE  TypeOK' /\ \A c \in Conns : app'[c].sent = app[c].sent /\ app'[c].got = app[c].got
<1> DEFINE a == [app[k] EXCEPT !.open = FALSE]
<1>1. app' = [app EXCEPT ![k] = a] /\ app \in [Conns -> Apps]
  BY DEF AppClose, TypeOK
<1>2. a \in Apps /\ a.sent = app[k].sent /\ a.got = app[k].got
  BY <1>1 DEF Apps
<1> HIDE DEF a
<1>3. app' \in [Conns -> Apps] /\ \A c \in Conns : app'[c].sent = app[c].sent /\ app'[c].got = app[c].got
  BY <1>1, <1>2
<1> QED
  BY <1>3 DEF AppClose, TypeOK, pipes, watchVars, bounds, history

LEMMA ReplyTypes ==
    ASSUME TypeOK, NEW k \in Conns, Reply(k)
    PROVE  /\ TypeOK' /\ egress[k] # <<>> /\ egress'[k] = Tail(egress[k])
           /\ \E a \in Answers : a.id = egress[k][1].id /\ replies'[k] = Append(replies[k], a)
           /\ \A c \in Conns : c # k => egress'[c] = egress[c] /\ replies'[c] = replies[c]
<1>1. PICK c \in Contents :
        replies' = [replies EXCEPT ![k] = Append(@, [id |-> Head(egress[k]).id,
                                                     body |-> Head(egress[k]).body, choices |-> c])]
  BY DEF Reply
<1> DEFINE a == [id |-> Head(egress[k]).id, body |-> Head(egress[k]).body, choices |-> c]
<1>2. /\ egress[k] # <<>> /\ egress \in [Conns -> Seq(Requests)] /\ replies \in [Conns -> Seq(Answers)]
      /\ egress' = [egress EXCEPT ![k] = Tail(egress[k])]
      /\ replies' = [replies EXCEPT ![k] = Append(replies[k], a)]
  BY <1>1 DEF Reply, TypeOK
<1>3. Head(egress[k]) \in Requests /\ Tail(egress[k]) \in Seq(Requests) /\ Head(egress[k]) = egress[k][1]
  BY <1>2
<1>4. a \in Answers /\ a.id = egress[k][1].id
  BY <1>3, AIAssumption DEF Answers, Requests
<1> HIDE DEF a
<1>5. /\ egress' \in [Conns -> Seq(Requests)] /\ egress'[k] = Tail(egress[k])
      /\ replies' \in [Conns -> Seq(Answers)] /\ replies'[k] = Append(replies[k], a)
      /\ \A j \in Conns : j # k => egress'[j] = egress[j] /\ replies'[j] = replies[j]
  <2>1. Append(replies[k], a) \in Seq(Answers)
    BY <1>2, <1>4
  <2> QED
    BY <1>2, <1>3, <2>1
<1>6. TypeOK'
  BY <1>5 DEF Reply, TypeOK, pipes, watchVars, bounds, history
<1> QED
  BY <1>2, <1>4, <1>5, <1>6

LEMMA ServerCloseTypes ==
    ASSUME TypeOK, NEW k \in Conns, ServerClose(k)
    PROVE  TypeOK'
<1>1. srv' \in [Conns -> BOOLEAN]
  BY DEF ServerClose, TypeOK
<1>2. faults' \in 0 .. MaxFaults
  BY AIAssumption DEF ServerClose, Fault, TypeOK
<1> QED
  BY <1>1, <1>2 DEF ServerClose, TypeOK, pipes, watchVars, bounds, history

\* A step of the request loop that moves no bytes.
LEMMA RequestTypes ==
    ASSUME TypeOK, NEW k \in Conns, NEW x \in RequestStates, NEW X \in SUBSET RequestPolicies,
           (X = {}) <=> (x.at \in Resting), RequestComesTo(k, x, X),
           app' \in [Conns -> Apps], ingress' \in [Conns -> Seq(Requests)],
           egress' \in [Conns -> Seq(Requests)], dead' \in BOOLEAN,
           asked' \in [Conns -> Seq(Ids)], refused' \in [Conns -> Seq(Ids)],
           UNCHANGED <<srv, replies, policy, watchVars, bounds>>
    PROVE  TypeOK'
<1>1. /\ req' \in [Conns -> RequestStates] /\ seen' \in [Conns -> SeenType]
      /\ \A c \in Conns : SeenFits(c)'
  BY RequestComes
<1>2. resp' \in [Conns -> ResponseStates]
  BY DEF RequestComesTo, TypeOK
<1> QED
  BY <1>1, <1>2 DEF TypeOK, SeenType, SeenFits, Resting, watchVars, bounds

LEMMA ResponseTypes ==
    ASSUME TypeOK, NEW k \in Conns, NEW x \in ResponseStates, NEW X \in SUBSET ResponsePolicies,
           X # {} => x.at # "read", ResponseComesTo(k, x, X),
           app' \in [Conns -> Apps], replies' \in [Conns -> Seq(Answers)], dead' \in BOOLEAN,
           UNCHANGED <<srv, ingress, egress, policy, watchVars, bounds, asked, refused>>
    PROVE  TypeOK'
<1>1. /\ resp' \in [Conns -> ResponseStates] /\ seen' \in [Conns -> SeenType]
      /\ \A c \in Conns : SeenFits(c)'
  BY ResponseComes
<1>2. req' \in [Conns -> RequestStates]
  BY DEF ResponseComesTo, TypeOK
<1> QED
  BY <1>1, <1>2 DEF TypeOK, SeenType, SeenFits, Resting, watchVars, bounds

\* Only the loop of k, and what is known of its policies, changes.
LoopOf(k) ==
    /\ \A c \in Conns : c # k => req'[c] = req[c] /\ seen'[c].request = seen[c].request
    /\ \A c \in Conns : seen'[c].response = seen[c].response

LEMMA ReqReadTypes ==
    ASSUME TypeOK, NEW k \in Conns, ReqRead(k)
    PROVE  /\ TypeOK' /\ LoopOf(k) /\ req[k].at = "read"
           /\ \A c \in Conns : c # k => ingress'[c] = ingress[c]
           /\ \/ /\ \E n \in 1 .. Len(ingress[k]) :
                      ingress'[k] = SubSeq(ingress[k], n + 1, Len(ingress[k]))
                 /\ ingress[k] # <<>> /\ req'[k].r = ingress[k][1]
                 /\ req'[k].at = IF policy.request = None THEN "write" ELSE "judge"
                 /\ seen'[k].request = {policy.request}
              \/ ingress' = ingress /\ req'[k].at \in {"spin", "done"} /\ req'[k] \in RequestStates
<1>0. /\ req[k].at = "read" /\ ingress \in [Conns -> Seq(Requests)] /\ dead \in BOOLEAN
      /\ UNCHANGED <<app, srv, egress, replies, resp, policy, dead, watchVars, bounds, asked, refused>>
  BY DEF ReqRead, TypeOK
<1>1. CASE TakeRequest(k)
  <2>1. PICK n \in 1 .. Len(ingress[k]) :
          /\ ingress' = [ingress EXCEPT ![k] = SubSeq(@, n + 1, Len(@))]
          /\ Step(k, [at |-> IF policy.request = None THEN "write" ELSE "judge", r |-> Head(ingress[k])])
          /\ seen' = [seen EXCEPT ![k].request = {policy.request}]
    BY <1>1 DEF TakeRequest
  <2> DEFINE x == [at |-> IF policy.request = None THEN "write" ELSE "judge", r |-> Head(ingress[k])]
  <2>2. /\ SubSeq(ingress[k], n + 1, Len(ingress[k])) \in Seq(Requests)
        /\ Head(ingress[k]) \in Requests /\ Head(ingress[k]) = ingress[k][1] /\ ingress[k] # <<>>
    BY <1>0, Rest
  <2>3. /\ ingress' \in [Conns -> Seq(Requests)]
        /\ ingress'[k] = SubSeq(ingress[k], n + 1, Len(ingress[k]))
        /\ \A c \in Conns : c # k => ingress'[c] = ingress[c]
    BY <1>0, <2>1, <2>2
  <2>4. /\ x \in RequestStates /\ x.at = IF policy.request = None THEN "write" ELSE "judge"
        /\ x.r = ingress[k][1] /\ x.at \notin Resting
    BY <2>2, HoldingState DEF Resting, HoldingAt
  <2>5. {policy.request} \in SUBSET RequestPolicies /\ {policy.request} # {}
    BY DEF TypeOK
  <2>6. RequestComesTo(k, x, {policy.request})
    BY <1>0, <2>1 DEF RequestComesTo, Step
  <2> HIDE DEF x
  <2>7. TypeOK'
    BY <1>0, <2>3, <2>4, <2>5, <2>6, RequestTypes DEF TypeOK
  <2>8. LoopOf(k) /\ req'[k] = x /\ seen'[k].request = {policy.request}
    BY <2>4, <2>5, <2>6, RequestComes DEF LoopOf
  <2> QED
    BY <1>0, <2>2, <2>3, <2>4, <2>7, <2>8
<1>2. CASE NoRequest(k)
  <2>1. PICK x \in {[at |-> "spin"], [at |-> "done"]} : Step(k, x)
    BY <1>2 DEF NoRequest
  <2>2. x \in RequestStates /\ x.at \in {"spin", "done"} /\ x.at \in Resting
    BY RestingState DEF Resting
  <2>3. UNCHANGED <<ingress, seen>>
    BY <1>2 DEF NoRequest
  <2>4. seen[k].request = {}
    BY <1>0, Fits DEF SeenFits, Resting
  <2>5. RequestComesTo(k, x, {})
    BY <1>0, <2>1, <2>3, <2>4, SeenAgain DEF RequestComesTo, Step
  <2>6. TypeOK'
    BY <1>0, <2>2, <2>3, <2>5, RequestTypes DEF TypeOK
  <2>7. LoopOf(k) /\ req'[k] = x
    BY <2>2, <2>4, <2>5, RequestComes DEF LoopOf
  <2> QED
    BY <1>0, <2>2, <2>3, <2>6, <2>7
<1> QED
  BY <1>1, <1>2 DEF ReqRead

\* A step of the loop that keeps its request.
LEMMA StepTypes ==
    ASSUME TypeOK, NEW k \in Conns, NEW x \in RequestStates, req[k].at \notin Resting,
           x.at \notin Resting, Step(k, x), dead' \in BOOLEAN, UNCHANGED seen,
           UNCHANGED <<app, srv, pipes, resp, policy, watchVars, bounds, asked, refused>>
    PROVE  TypeOK' /\ LoopOf(k) /\ req'[k] = x
<1>1. seen[k].request # {}
  BY Fits DEF SeenFits
<1>2. RequestComesTo(k, x, seen[k].request)
  BY SeenAgain DEF RequestComesTo, Step
<1>3. TypeOK'
  BY <1>1, <1>2, SeenAgain, RequestTypes DEF TypeOK, pipes
<1> QED
  BY <1>1, <1>2, <1>3, SeenAgain, RequestComes DEF LoopOf

\* A loop that panics stays where it is.
LEMMA PanicTypes ==
    ASSUME TypeOK, NEW k \in Conns, req[k].at \notin Resting, Panic, UNCHANGED <<req, seen>>,
           UNCHANGED <<app, srv, pipes, resp, policy, watchVars, bounds, asked, refused>>
    PROVE  TypeOK' /\ LoopOf(k)
<1>1. req \in [Conns -> RequestStates] /\ req[k] \in RequestStates
  BY DEF TypeOK
<1>2. Step(k, req[k]) /\ dead' \in BOOLEAN
  BY <1>1 DEF Step, Panic
<1> QED
  BY <1>1, <1>2, StepTypes

\* A look at the policy, at a section or a rule that may be gone.
LEMMA LookTypes ==
    ASSUME TypeOK, ~dead, NEW k \in Conns, NEW p, NEW x, req[k].at \notin Resting,
           p # None => x \in RequestStates /\ x.at \notin Resting,
           LookOr(k, p, x), UNCHANGED seen,
           UNCHANGED <<app, srv, pipes, resp, policy, watchVars, bounds, asked, refused>>
    PROVE  /\ TypeOK' /\ LoopOf(k)
           /\ \/ dead' /\ req' = req
              \/ ~dead' /\ p # None /\ req'[k] = x
<1>1. CASE Panic /\ UNCHANGED req
  BY <1>1, PanicTypes DEF Panic
<1>2. CASE p # None /\ Step(k, x) /\ UNCHANGED dead
  <2>1. dead' \in BOOLEAN
    BY <1>2 DEF TypeOK
  <2> QED
    BY <1>2, <2>1, StepTypes
<1> QED
  BY <1>1, <1>2 DEF LookOr

LEMMA ReqJudgeTypes ==
    ASSUME TypeOK, NEW k \in Conns, ReqJudge(k)
    PROVE  /\ TypeOK' /\ LoopOf(k) /\ req[k].at = "judge"
           /\ \/ dead' /\ req' = req /\ seen' = seen
              \/ ~dead' /\ req'[k] = Nothing /\ seen'[k].request = {}
              \/ /\ ~dead' /\ seen' = seen /\ policy.request # None
                 /\ req'[k] = [at |-> "block", r |-> req[k].r]
<1>0. /\ req[k].at = "judge" /\ ~dead /\ dead \in BOOLEAN
      /\ UNCHANGED <<app, srv, pipes, resp, policy, watchVars, bounds, asked, refused>>
      /\ req[k].r \in Requests /\ req[k].at \notin Resting
  BY RequestState DEF ReqJudge, TypeOK, Resting
<1>1. CASE LookOr(k, policy.request, [at |-> "block", r |-> req[k].r]) /\ UNCHANGED seen
  <2> DEFINE x == [at |-> "block", r |-> req[k].r]
  <2>1. x \in RequestStates /\ x.at \notin Resting
    BY <1>0, HoldingState DEF Resting, HoldingAt
  <2> HIDE DEF x
  <2>2. /\ TypeOK' /\ LoopOf(k)
        /\ \/ dead' /\ req' = req
           \/ ~dead' /\ policy.request # None /\ req'[k] = x
    BY <1>0, <1>1, <2>1, LookTypes DEF x
  <2> QED
    BY <1>0, <1>1, <2>2 DEF x
<1>2. CASE Step(k, Nothing) /\ Forget(k) /\ UNCHANGED dead
  <2>1. RequestComesTo(k, Nothing, {}) /\ Nothing \in RequestStates /\ Nothing.at \in Resting
    BY <1>0, <1>2, RestingState DEF RequestComesTo, Step, Forget, Nothing, Resting
  <2>2. TypeOK'
    BY <1>0, <1>2, <2>1, RequestTypes DEF TypeOK, pipes
  <2>3. LoopOf(k) /\ req'[k] = Nothing /\ seen'[k].request = {}
    BY <2>1, RequestComes DEF LoopOf
  <2> QED
    BY <1>0, <1>2, <2>2, <2>3
<1> QED
  BY <1>1, <1>2 DEF ReqJudge

LEMMA RequestSection ==
    ASSUME TypeOK, policy.request # None
    PROVE  /\ policy.request \in RequestPolicies /\ policy.request.block \in BOOLEAN
           /\ policy.request.list \in Seq(Rules) /\ Len(policy.request.list) \in Nat
<1>1. policy.request \in RequestPolicies
  BY DEF TypeOK
<1>2. policy.request.list \in Seq(Rules) /\ policy.request.block \in BOOLEAN
  BY <1>1 DEF RequestPolicies
<1> QED
  BY <1>1, <1>2

LEMMA ReqBlockTypes ==
    ASSUME TypeOK, NEW k \in Conns, ReqBlock(k)
    PROVE  /\ TypeOK' /\ LoopOf(k) /\ req[k].at = "block" /\ seen' = seen
           /\ \/ dead' /\ req' = req
              \/ /\ ~dead' /\ policy.request # None /\ req'[k].r = req[k].r
                 /\ \/ req'[k].at = "refuse" /\ policy.request.block
                    \/ req'[k].at = "count" /\ ~policy.request.block
<1>0. /\ req[k].at = "block" /\ ~dead
      /\ UNCHANGED <<app, srv, pipes, resp, policy, watchVars, bounds, asked, refused>> /\ seen' = seen
      /\ req[k].r \in Requests /\ req[k].at \notin Resting
  BY RequestState DEF ReqBlock, TypeOK, Resting, history
<1> DEFINE x == [at |-> IF policy.request.block THEN "refuse" ELSE "count", r |-> req[k].r]
<1>1. x \in RequestStates /\ x.at \notin Resting /\ x.r = req[k].r
  BY <1>0, HoldingState DEF Resting, HoldingAt
<1>2. policy.request # None =>
        (x.at = "refuse" /\ policy.request.block) \/ (x.at = "count" /\ ~policy.request.block)
  BY RequestSection
<1>3. LookOr(k, policy.request, x)
  BY DEF ReqBlock
<1> HIDE DEF x
<1>4. /\ TypeOK' /\ LoopOf(k)
      /\ \/ dead' /\ req' = req
         \/ ~dead' /\ policy.request # None /\ req'[k] = x
  BY <1>0, <1>1, <1>3, LookTypes
<1> QED
  BY <1>0, <1>1, <1>2, <1>4

LEMMA ReqCountTypes ==
    ASSUME TypeOK, NEW k \in Conns, ReqCount(k)
    PROVE  /\ TypeOK' /\ LoopOf(k) /\ req[k].at = "count" /\ seen' = seen
           /\ \/ dead' /\ req' = req
              \/ /\ ~dead' /\ policy.request # None /\ req'[k].at = "match" /\ req'[k].r = req[k].r
                 /\ req'[k].i = 1 /\ req'[k].n = Len(policy.request.list)
<1>0. /\ req[k].at = "count" /\ ~dead
      /\ UNCHANGED <<app, srv, pipes, resp, policy, watchVars, bounds, asked, refused>> /\ seen' = seen
      /\ req[k].r \in Requests /\ req[k].at \notin Resting
  BY RequestState DEF ReqCount, TypeOK, Resting, history
<1> DEFINE n == Len(policy.request.list)
           x == [at |-> "match", r |-> req[k].r, i |-> 1, n |-> n]
<1>1. LookOr(k, policy.request, x)
  BY DEF ReqCount
<1>2. policy.request # None => n \in Nat
  BY RequestSection
<1>3. policy.request # None => x \in RequestStates
  <2> HIDE DEF n
  <2> QED
    BY <1>0, <1>2, RewritingState
<1>4. x.at \notin Resting /\ x.at = "match" /\ x.r = req[k].r /\ x.i = 1 /\ x.n = n
  BY DEF Resting
<1> HIDE DEF x
<1>5. /\ TypeOK' /\ LoopOf(k)
      /\ \/ dead' /\ req' = req
         \/ ~dead' /\ policy.request # None /\ req'[k] = x
  BY <1>0, <1>1, <1>3, <1>4, LookTypes
<1> QED
  BY <1>0, <1>4, <1>5

LEMMA RuleThere ==
    ASSUME TypeOK, NEW i \in Nat \ {0}, RuleAt(i) # None
    PROVE  /\ policy.request # None /\ i \in DOMAIN policy.request.list
           /\ RuleAt(i) = policy.request.list[i] /\ RuleAt(i) \in Rules
<1>1. policy.request # None /\ ~(i > Len(policy.request.list)) /\ RuleAt(i) = policy.request.list[i]
  BY DEF RuleAt
<1>2. i \in DOMAIN policy.request.list
  BY <1>1, RequestSection
<1> QED
  BY <1>1, <1>2, RequestSection

\* What the comparison with a rule, and the rule, make of the loop.
LEMMA MatchedState ==
    ASSUME NEW r \in Requests, NEW i \in Nat \ {0}, NEW n \in Nat, NEW rule,
           NEW s, s = [at |-> "match", r |-> r, i |-> i, n |-> n]
    PROVE  LET x == Matched(s, rule)
           IN  /\ x \in RequestStates /\ x.at \notin Resting /\ x.r = r /\ x.n = n
               /\ \/ x.at = "rename" /\ x.i = i /\ r.model = rule.orig
                  \/ x.at = "match" /\ x.i = i + 1 /\ r.model # rule.orig
<1>1. CASE r.model = rule.orig
  <2> DEFINE x == [at |-> "rename", r |-> r, i |-> i, n |-> n]
  <2>1. Matched(s, rule) = x
    BY <1>1 DEF Matched
  <2>2. x \in RequestStates
    BY RewritingState
  <2> QED
    BY <1>1, <2>1, <2>2 DEF Resting
<1>2. CASE r.model # rule.orig
  <2> DEFINE x == [at |-> "match", r |-> r, i |-> i + 1, n |-> n]
  <2>1. Matched(s, rule) = x
    BY <1>2 DEF Matched
  <2>2. x \in RequestStates
    BY RewritingState
  <2> QED
    BY <1>2, <2>1, <2>2 DEF Resting
<1> QED
  BY <1>1, <1>2

LEMMA RenamedState ==
    ASSUME NEW r \in Requests, NEW i \in Nat \ {0}, NEW n \in Nat, NEW rule \in Rules,
           NEW s, s = [at |-> "rename", r |-> r, i |-> i, n |-> n]
    PROVE  LET x == Renamed(s, rule)
           IN  /\ x \in RequestStates /\ x.at = "match" /\ x.i = i + 1 /\ x.n = n
               /\ x.r = [r EXCEPT !.model = rule.new] /\ x.r \in Requests
               /\ x.r.id = r.id /\ x.r.orig = r.orig /\ x.r.body = r.body /\ x.r.model = rule.new
<1> DEFINE q == [r EXCEPT !.model = rule.new]
<1>1. q \in Requests /\ q.id = r.id /\ q.orig = r.orig /\ q.body = r.body /\ q.model = rule.new
  BY DEF Requests, Rules, Keys
<1>2. Renamed(s, rule) = [at |-> "match", r |-> q, i |-> i + 1, n |-> n]
  <2> DEFINE s1 == [at |-> "match", r |-> r, i |-> i, n |-> n]
             s2 == [at |-> "match", r |-> q, i |-> i, n |-> n]
  <2>1. [s EXCEPT !.at = "match"] = s1
    OBVIOUS
  <2>2. [s1 EXCEPT !.r.model = rule.new] = s2
    <3> DEFINE new == rule.new
    <3> HIDE DEF new
    <3>1. s1.r = r
      OBVIOUS
    <3>2. [s1 EXCEPT !.r = q] = s2
      <4> HIDE DEF q
      <4> QED
        OBVIOUS
    <3>3. [s1 EXCEPT !.r.model = new] = [s1 EXCEPT !.r = [r EXCEPT !.model = new]]
      OBVIOUS
    <3> QED
      BY <3>2, <3>3 DEF new
  <2>3. Renamed(s, rule) = [[[s EXCEPT !.at = "match"] EXCEPT !.r.model = rule.new] EXCEPT !.i = i + 1]
    BY DEF Renamed
  <2>4. [s2 EXCEPT !.i = i + 1] = [at |-> "match", r |-> q, i |-> i + 1, n |-> n]
    <3> HIDE DEF q
    <3> QED
      OBVIOUS
  <2> HIDE DEF s1, s2, q
  <2> QED
    BY <2>1, <2>2, <2>3, <2>4
<1> HIDE DEF q
<1>3. [at |-> "match", r |-> q, i |-> i + 1, n |-> n] \in RequestStates
  BY <1>1, RewritingState
<1> DEFINE x == Renamed(s, rule)
<1>4. /\ x \in RequestStates /\ x.at = "match" /\ x.i = i + 1 /\ x.n = n /\ x.r = q
  BY <1>2, <1>3
<1>5. q = [r EXCEPT !.model = rule.new]
  BY DEF q
<1> HIDE DEF x
<1> QED
  BY <1>1, <1>4, <1>5 DEF x

LEMMA ReqMatchTypes ==
    ASSUME TypeOK, NEW k \in Conns, ReqMatch(k)
    PROVE  /\ TypeOK' /\ LoopOf(k) /\ req[k].at = "match" /\ seen' = seen
           /\ \/ dead' /\ req' = req
              \/ /\ ~dead' /\ req'[k].at = "write" /\ req'[k].r = req[k].r
                 /\ req[k].i > req[k].n
              \/ /\ ~dead' /\ policy.request # None /\ req[k].i <= req[k].n
                 /\ req[k].i \in DOMAIN policy.request.list
                 /\ req'[k].r = req[k].r /\ req'[k].n = req[k].n
                 /\ LET rule == policy.request.list[req[k].i]
                    IN  \/ /\ req'[k].at = "rename" /\ req'[k].i = req[k].i
                           /\ req[k].r.model = rule.orig
                        \/ /\ req'[k].at = "match" /\ req'[k].i = req[k].i + 1
                           /\ req[k].r.model # rule.orig
<1>0. /\ req[k].at = "match" /\ ~dead /\ dead \in BOOLEAN
      /\ UNCHANGED <<app, srv, pipes, resp, policy, watchVars, bounds, asked, refused>> /\ seen' = seen
      /\ req[k].r \in Requests /\ req[k].i \in Nat \ {0} /\ req[k].n \in Nat
      /\ req[k].at \notin Resting
      /\ req[k] = [at |-> "match", r |-> req[k].r, i |-> req[k].i, n |-> req[k].n]
  BY RequestState DEF ReqMatch, TypeOK, Resting, history
<1>1. CASE req[k].i > req[k].n /\ Step(k, [at |-> "write", r |-> req[k].r]) /\ UNCHANGED dead
  <2> DEFINE x == [at |-> "write", r |-> req[k].r]
  <2>1. x \in RequestStates /\ x.at = "write" /\ x.r = req[k].r /\ x.at \notin Resting
    BY <1>0, HoldingState DEF Resting, HoldingAt
  <2> HIDE DEF x
  <2>2. TypeOK' /\ LoopOf(k) /\ req'[k] = x
    BY <1>0, <1>1, <2>1, StepTypes DEF x
  <2> QED
    BY <1>0, <1>1, <2>1, <2>2
<1>2. CASE Panic /\ UNCHANGED req
  BY <1>0, <1>2, PanicTypes DEF Panic
<1>3. CASE req[k].i <= req[k].n /\ LookOr(k, RuleAt(req[k].i), Matched(req[k], RuleAt(req[k].i)))
  <2> DEFINE rule == RuleAt(req[k].i)
             x == Matched(req[k], rule)
  <2>1. /\ x \in RequestStates /\ x.at \notin Resting /\ x.r = req[k].r /\ x.n = req[k].n
        /\ \/ x.at = "rename" /\ x.i = req[k].i /\ req[k].r.model = rule.orig
           \/ x.at = "match" /\ x.i = req[k].i + 1 /\ req[k].r.model # rule.orig
    <3> HIDE DEF rule
    <3> QED
      BY <1>0, MatchedState
  <2>2. rule # None => /\ policy.request # None /\ req[k].i \in DOMAIN policy.request.list
                       /\ rule = policy.request.list[req[k].i]
    BY <1>0, RuleThere
  <2> HIDE DEF x, rule
  <2>3. /\ TypeOK' /\ LoopOf(k)
        /\ \/ dead' /\ req' = req
           \/ ~dead' /\ rule # None /\ req'[k] = x
    BY <1>0, <1>3, <2>1, LookTypes DEF x, rule
  <2> QED
    BY <1>0, <1>3, <2>1, <2>2, <2>3
<1> QED
  BY <1>1, <1>2, <1>3 DEF ReqMatch

LEMMA ReqRenameTypes ==
    ASSUME TypeOK, NEW k \in Conns, ReqRename(k)
    PROVE  /\ TypeOK' /\ LoopOf(k) /\ req[k].at = "rename" /\ seen' = seen
           /\ \/ dead' /\ req' = req
              \/ /\ ~dead' /\ policy.request # None
                 /\ req[k].i \in DOMAIN policy.request.list
                 /\ req'[k].at = "match" /\ req'[k].i = req[k].i + 1 /\ req'[k].n = req[k].n
                 /\ req'[k].r = [req[k].r EXCEPT !.model = policy.request.list[req[k].i].new]
                 /\ req'[k].r.id = req[k].r.id /\ req'[k].r.orig = req[k].r.orig
                 /\ req'[k].r.body = req[k].r.body
                 /\ req'[k].r.model = policy.request.list[req[k].i].new
<1>0. /\ req[k].at = "rename" /\ ~dead
      /\ UNCHANGED <<app, srv, pipes, resp, policy, watchVars, bounds, asked, refused>> /\ seen' = seen
      /\ req[k].r \in Requests /\ req[k].i \in Nat \ {0} /\ req[k].n \in Nat
      /\ req[k].at \notin Resting
      /\ req[k] = [at |-> "rename", r |-> req[k].r, i |-> req[k].i, n |-> req[k].n]
  BY RequestState DEF ReqRename, TypeOK, Resting, history
<1> DEFINE rule == RuleAt(req[k].i)
           x == Renamed(req[k], rule)
<1>1. rule # None => /\ policy.request # None /\ req[k].i \in DOMAIN policy.request.list
                     /\ rule = policy.request.list[req[k].i] /\ rule \in Rules
  BY <1>0, RuleThere
<1>2. rule # None => /\ x \in RequestStates /\ x.at = "match" /\ x.i = req[k].i + 1 /\ x.n = req[k].n
                     /\ x.r = [req[k].r EXCEPT !.model = rule.new]
                     /\ x.r.id = req[k].r.id /\ x.r.orig = req[k].r.orig /\ x.r.body = req[k].r.body
                     /\ x.r.model = rule.new
  <2> HIDE DEF rule
  <2> SUFFICES ASSUME rule # None PROVE /\ x \in RequestStates /\ x.at = "match"
                                        /\ x.i = req[k].i + 1 /\ x.n = req[k].n
                                        /\ x.r = [req[k].r EXCEPT !.model = rule.new]
                                        /\ x.r.id = req[k].r.id /\ x.r.orig = req[k].r.orig
                                        /\ x.r.body = req[k].r.body /\ x.r.model = rule.new
    OBVIOUS
  <2>1. rule \in Rules
    BY <1>1
  <2> DEFINE r == req[k].r
             i == req[k].i
             n == req[k].n
             s == req[k]
  <2>2. /\ r \in Requests /\ i \in Nat \ {0} /\ n \in Nat
        /\ s = [at |-> "rename", r |-> r, i |-> i, n |-> n]
    BY <1>0
  <2>3. x = Renamed(s, rule)
    OBVIOUS
  <2> HIDE DEF x, r, i, n, s
  <2>4. /\ x \in RequestStates /\ x.at = "match" /\ x.i = i + 1 /\ x.n = n
        /\ x.r = [r EXCEPT !.model = rule.new]
        /\ x.r.id = r.id /\ x.r.orig = r.orig /\ x.r.body = r.body /\ x.r.model = rule.new
    BY <2>1, <2>2, <2>3, RenamedState
  <2> QED
    BY <2>4 DEF r, i, n
<1>3. LookOr(k, rule, x)
  BY DEF ReqRename
<1> HIDE DEF x, rule
<1>4. /\ TypeOK' /\ LoopOf(k)
      /\ \/ dead' /\ req' = req
         \/ ~dead' /\ rule # None /\ req'[k] = x
  BY <1>0, <1>2, <1>3, LookTypes DEF Resting
<1> QED
  BY <1>0, <1>1, <1>2, <1>4

\* The steps of the loop that only look at the policy.
ReqLook(k) == ReqJudge(k) \/ ReqBlock(k) \/ ReqCount(k) \/ ReqMatch(k) \/ ReqRename(k)

LEMMA ReqLookTypes ==
    ASSUME TypeOK, NEW k \in Conns, ReqLook(k)
    PROVE  /\ TypeOK' /\ LoopOf(k) /\ ~dead
           /\ req[k].at \in {"judge", "block", "count", "match", "rename"}
           /\ UNCHANGED <<app, srv, pipes, resp, policy, watchVars, bounds, asked, refused>>
           /\ \/ dead' /\ req' = req /\ seen' = seen
              \/ ~dead' /\ req'[k] = Nothing /\ seen'[k].request = {}
              \/ /\ ~dead' /\ seen' = seen /\ req'[k].r.id = req[k].r.id
                 /\ req'[k].at \notin Resting
<1>1. CASE ReqJudge(k)
  BY <1>1, ReqJudgeTypes DEF ReqJudge, Resting
<1>2. CASE ReqBlock(k)
  BY <1>2, ReqBlockTypes DEF ReqBlock, history, Resting
<1>3. CASE ReqCount(k)
  BY <1>3, ReqCountTypes DEF ReqCount, history, Resting
<1>4. CASE ReqMatch(k)
  BY <1>4, ReqMatchTypes DEF ReqMatch, history, Resting
<1>5. CASE ReqRename(k)
  BY <1>5, ReqRenameTypes DEF ReqRename, history, Resting
<1> QED
  BY <1>1, <1>2, <1>3, <1>4, <1>5 DEF ReqLook

\* An answer that is given back changes what the application has got.
GivenBack(k, i) ==
    /\ app' \in [Conns -> Apps]
    /\ \A c \in Conns : app'[c].sent = app[c].sent
    /\ \A c \in Conns : c # k => app'[c].got = app[c].got
    /\ app'[k].got = app[k].got \/ app'[k].got = Append(app[k].got, i)

LEMMA GiveBackTypes ==
    ASSUME TypeOK, NEW k \in Conns, NEW i \in Ids, GiveBack(k, i)
    PROVE  GivenBack(k, i)
<1>1. app \in [Conns -> Apps]
  BY DEF TypeOK
<1>2. CASE ~Reaches(k)
  <2>1. app' = app
    BY <1>2 DEF GiveBack
  <2> QED
    BY <1>1, <2>1 DEF GivenBack
<1>3. CASE Reaches(k)
  <2> DEFINE a == [app[k] EXCEPT !.got = Append(app[k].got, i)]
  <2>1. app' = [app EXCEPT ![k] = a]
    <3>1. app' = [app EXCEPT ![k].got = Append(@, i)]
      BY <1>3 DEF GiveBack
    <3> QED
      BY <1>1, <3>1
  <2>2. a \in Apps /\ a.sent = app[k].sent /\ a.got = Append(app[k].got, i)
    <3> DEFINE g == Append(app[k].got, i)
    <3>1. g \in Seq(Ids)
      BY Numbers, AppendOne
    <3>2. a = [app[k] EXCEPT !.got = g]
      OBVIOUS
    <3> HIDE DEF a, g
    <3>3. a \in Apps /\ a.sent = app[k].sent /\ a.got = g
      BY <1>1, <3>1, <3>2 DEF Apps
    <3> QED
      BY <3>3 DEF g
  <2> HIDE DEF a
  <2> QED
    BY <1>1, <2>1, <2>2 DEF GivenBack
<1> QED
  BY <1>2, <1>3

LEMMA ReqRefuseTypes ==
    ASSUME TypeOK, NEW k \in Conns, ReqRefuse(k)
    PROVE  /\ TypeOK' /\ LoopOf(k) /\ req[k].at = "refuse" /\ GivenBack(k, req[k].r.id)
           /\ refused'[k] = Append(refused[k], req[k].r.id)
           /\ \A c \in Conns : c # k => refused'[c] = refused[c]
           /\ \/ dead' /\ req' = req /\ seen' = seen
              \/ ~dead' /\ req'[k] = Nothing /\ seen'[k].request = {}
<1>0. /\ req[k].at = "refuse" /\ ~dead /\ dead \in BOOLEAN /\ req \in [Conns -> RequestStates]
      /\ UNCHANGED <<srv, pipes, resp, policy, watchVars, bounds, asked>>
      /\ req[k].r \in Requests /\ seen[k].request # {}
      /\ req[k] \in RequestStates /\ req[k].at \notin Resting
  BY RequestState, Fits DEF ReqRefuse, TypeOK, Resting, SeenFits
<1>1. req[k].r.id \in Ids
  BY <1>0 DEF Requests
<1>2. GivenBack(k, req[k].r.id)
  BY <1>1, GiveBackTypes DEF ReqRefuse
<1>3. /\ refused' \in [Conns -> Seq(Ids)] /\ refused'[k] = Append(refused[k], req[k].r.id)
      /\ \A c \in Conns : c # k => refused'[c] = refused[c]
  <2>1. /\ refused' = [refused EXCEPT ![k] = Append(refused[k], req[k].r.id)]
        /\ refused \in [Conns -> Seq(Ids)] /\ Append(refused[k], req[k].r.id) \in Seq(Ids)
    BY <1>1 DEF ReqRefuse, TypeOK
  <2> QED
    BY <2>1
<1>4. CASE Panic /\ UNCHANGED <<req, seen>>
  <2>1. RequestComesTo(k, req[k], seen[k].request)
    BY <1>0, <1>4, SeenAgain DEF RequestComesTo
  <2>2. TypeOK'
    BY <1>0, <1>2, <1>3, <1>4, <2>1, SeenAgain, RequestTypes DEF TypeOK, Panic, pipes, GivenBack
  <2> QED
    BY <1>0, <1>2, <1>3, <1>4, <2>2 DEF LoopOf, Panic
<1>5. CASE Step(k, AfterRefusal(req[k].r)) /\ Forget(k) /\ UNCHANGED dead
  <2>1. RequestComesTo(k, Nothing, {}) /\ Nothing \in RequestStates /\ Nothing.at \in Resting
    BY <1>0, <1>5, RestingState DEF RequestComesTo, Step, Forget, Nothing, Resting, AfterRefusal
  <2>2. TypeOK'
    BY <1>0, <1>2, <1>3, <1>5, <2>1, RequestTypes DEF TypeOK, pipes, GivenBack
  <2>3. LoopOf(k) /\ req'[k] = Nothing /\ seen'[k].request = {}
    BY <2>1, RequestComes DEF LoopOf
  <2> QED
    BY <1>0, <1>2, <1>3, <1>5, <2>2, <2>3
<1> QED
  BY <1>4, <1>5 DEF ReqRefuse

LEMMA ReqWriteTypes ==
    ASSUME TypeOK, NEW k \in Conns, ReqWrite(k)
    PROVE  /\ TypeOK' /\ LoopOf(k) /\ req[k].at = "write" /\ seen'[k].request = {}
           /\ req'[k].at \in {"read", "done"} /\ req'[k] \in RequestStates
           /\ \A c \in Conns : c # k => egress'[c] = egress[c] /\ asked'[c] = asked[c]
           /\ \/ /\ egress'[k] = Append(egress[k], req[k].r)
                 /\ asked'[k] = Append(asked[k], req[k].r.id)
              \/ egress' = egress /\ asked' = asked
<1>0. /\ req[k].at = "write" /\ dead \in BOOLEAN /\ req \in [Conns -> RequestStates]
      /\ UNCHANGED <<app, srv, ingress, replies, resp, policy, dead, watchVars, bounds, refused>>
      /\ req[k].r \in Requests /\ Forget(k)
      /\ egress \in [Conns -> Seq(Requests)] /\ asked \in [Conns -> Seq(Ids)]
  BY RequestState DEF ReqWrite, TypeOK, Resting
<1>1. PICK x \in {Nothing, [at |-> "done"]} : Step(k, x)
  BY DEF ReqWrite
<1>2. x \in RequestStates /\ x.at \in {"read", "done"} /\ x.at \in Resting
  BY RestingState DEF Resting, Nothing
<1>3. RequestComesTo(k, x, {})
  BY <1>0, <1>1 DEF RequestComesTo, Step, Forget
<1>4. LoopOf(k) /\ req'[k] = x /\ seen'[k].request = {}
  BY <1>2, <1>3, RequestComes DEF LoopOf
<1>5. /\ egress' \in [Conns -> Seq(Requests)] /\ asked' \in [Conns -> Seq(Ids)]
      /\ \A c \in Conns : c # k => egress'[c] = egress[c] /\ asked'[c] = asked[c]
      /\ \/ /\ egress'[k] = Append(egress[k], req[k].r)
            /\ asked'[k] = Append(asked[k], req[k].r.id)
         \/ egress' = egress /\ asked' = asked
  <2>1. CASE UNCHANGED <<egress, asked>>
    BY <1>0, <2>1
  <2>2. CASE /\ egress' = [egress EXCEPT ![k] = Append(@, req[k].r)]
             /\ asked' = [asked EXCEPT ![k] = Append(@, req[k].r.id)]
    <3>1. req[k].r.id \in Ids
      BY <1>0 DEF Requests
    <3>2. Append(egress[k], req[k].r) \in Seq(Requests) /\ Append(asked[k], req[k].r.id) \in Seq(Ids)
      BY <1>0, <3>1, AppendOne
    <3> QED
      BY <1>0, <2>2, <3>2
  <2> QED
    BY <2>1, <2>2 DEF ReqWrite
<1>6. TypeOK'
  BY <1>0, <1>2, <1>3, <1>5, RequestTypes DEF TypeOK
<1> QED
  BY <1>0, <1>2, <1>4, <1>5, <1>6

\* Only the answer's loop of k, and what is known of its policies, changes.
BackOf(k) ==
    /\ req' = req
    /\ \A c \in Conns : c # k => resp'[c] = resp[c] /\ seen'[c].response = seen[c].response
    /\ \A c \in Conns : seen'[c].request = seen[c].request

\* A step of the loop that keeps its answer, or ends.
LEMMA StepBackTypes ==
    ASSUME TypeOK, NEW k \in Conns, NEW x \in ResponseStates,
           x.at # "read", StepBack(k, x), dead' \in BOOLEAN, UNCHANGED seen,
           UNCHANGED <<app, srv, pipes, req, policy, watchVars, bounds, asked, refused>>
    PROVE  TypeOK' /\ BackOf(k) /\ resp'[k] = x
<1>1. ResponseComesTo(k, x, seen[k].response)
  BY SeenAgain DEF ResponseComesTo, StepBack
<1>2. TypeOK'
  BY <1>1, SeenAgain, ResponseTypes DEF TypeOK, pipes
<1> QED
  BY <1>1, <1>2, SeenAgain, ResponseComes DEF BackOf

LEMMA PanicBackTypes ==
    ASSUME TypeOK, Panic, UNCHANGED <<resp, seen>>,
           UNCHANGED <<app, srv, pipes, req, policy, watchVars, bounds, asked, refused>>
    PROVE  TypeOK' /\ \A k \in Conns : BackOf(k)
BY DEF TypeOK, Panic, pipes, watchVars, bounds, BackOf

LEMMA RespReadTypes ==
    ASSUME TypeOK, NEW k \in Conns, RespRead(k)
    PROVE  /\ TypeOK' /\ BackOf(k) /\ resp[k].at = "read"
           /\ \A c \in Conns : c # k => replies'[c] = replies[c]
           /\ \/ /\ \E n \in 1 .. Len(replies[k]) :
                      replies'[k] = SubSeq(replies[k], n + 1, Len(replies[k]))
                 /\ replies[k] # <<>> /\ resp'[k].a = replies[k][1] /\ UNCHANGED dead
                 /\ resp'[k] \in ResponseStates /\ seen'[k].response = {policy.response}
                 /\ resp'[k].block = FALSE
                 /\ \/ resp'[k].at = "write" /\ policy.response = None
                    \/ resp'[k].at = "write" /\ 1 > Len(resp'[k].a.choices)
                    \/ /\ resp'[k].at = "filter" /\ resp'[k].x = 1 /\ policy.response # None
                       /\ InChoice(resp'[k].a, 1)
              \/ dead' /\ UNCHANGED <<replies, resp, seen>>
              \/ /\ resp'[k].at = "done" /\ resp'[k] \in ResponseStates
                 /\ UNCHANGED <<dead, replies, seen>>
<1>0. /\ resp[k].at = "read" /\ replies \in [Conns -> Seq(Answers)] /\ dead \in BOOLEAN
      /\ UNCHANGED <<app, srv, ingress, egress, req, policy, watchVars, bounds, asked, refused>>
  BY DEF RespRead, TypeOK
<1>1. CASE TakeAnswer(k)
  <2> DEFINE a == Head(replies[k])
             x == IF policy.response = None THEN Passed(a, FALSE) ELSE Filtering(a, 1, FALSE)
  <2>1. PICK n \in 1 .. Len(replies[k]) :
          /\ replies' = [replies EXCEPT ![k] = SubSeq(@, n + 1, Len(@))]
          /\ StepBack(k, x)
          /\ seen' = [seen EXCEPT ![k].response = {policy.response}]
          /\ UNCHANGED dead
    BY <1>1 DEF TakeAnswer
  <2>2. /\ SubSeq(replies[k], n + 1, Len(replies[k])) \in Seq(Answers)
        /\ a \in Answers /\ a = replies[k][1] /\ replies[k] # <<>>
    BY <1>0, Rest
  <2>3. /\ replies' \in [Conns -> Seq(Answers)]
        /\ replies'[k] = SubSeq(replies[k], n + 1, Len(replies[k]))
        /\ \A c \in Conns : c # k => replies'[c] = replies[c]
    BY <1>0, <2>1, <2>2
  <2>4. /\ x \in ResponseStates /\ x.a = a /\ x.block = FALSE
        /\ \/ x.at = "write" /\ policy.response = None
           \/ x.at = "write" /\ 1 > Len(x.a.choices)
           \/ x.at = "filter" /\ x.x = 1 /\ policy.response # None /\ InChoice(x.a, 1)
    <3> HIDE DEF a
    <3>1. CASE policy.response = None
      BY <2>2, <3>1, PassedState
    <3>2. CASE policy.response # None
      <4>1. x = Filtering(a, 1, FALSE) /\ 1 \in Nat \ {0} /\ FALSE \in BOOLEAN
        BY <3>2
      <4>2. PICK c : c \in BOOLEAN /\ c = FALSE
        OBVIOUS
      <4> HIDE DEF x
      <4>3. x = Filtering(a, 1, c)
        BY <4>1, <4>2
      <4>4. c \in BOOLEAN /\ 1 \in Nat \ {0} /\ a \in Answers
        BY <2>2, <4>2
      <4>5. x \in ResponseStates /\ x.a = a
        BY <4>3, <4>4, FilteringState
      <4>6. x.block = c
        BY <4>3, <4>4, FilteringState
      <4>7. \/ x.at = "write" /\ 1 > Len(a.choices)
            \/ x.at = "filter" /\ x.x = 1
        BY <4>3, <4>4, FilteringState
      <4>8. x.at = "filter" => InChoice(a, x.x)
        BY <4>3, <4>4, FilteringState
      <4> QED
        BY <3>2, <4>2, <4>5, <4>6, <4>7, <4>8
    <3> QED
      BY <3>1, <3>2
  <2>5. {policy.response} \in SUBSET ResponsePolicies
    BY DEF TypeOK
  <2>6. ResponseComesTo(k, x, {policy.response})
    BY <1>0, <2>1 DEF ResponseComesTo, StepBack
  <2> HIDE DEF x, a
  <2>7. TypeOK'
    BY <1>0, <2>1, <2>3, <2>4, <2>5, <2>6, ResponseTypes DEF TypeOK
  <2>8. BackOf(k) /\ resp'[k] = x /\ seen'[k].response = {policy.response}
    BY <1>0, <2>4, <2>5, <2>6, ResponseComes DEF BackOf
  <2> QED
    BY <1>0, <2>1, <2>2, <2>3, <2>4, <2>7, <2>8
<1>2. CASE NoAnswer(k) /\ policy.response # None
  <2>1. Panic /\ UNCHANGED <<replies, resp, seen>>
    BY <1>2 DEF NoAnswer
  <2>2. TypeOK' /\ BackOf(k)
    BY <1>0, <2>1, PanicBackTypes DEF pipes
  <2> QED
    BY <1>0, <2>1, <2>2 DEF Panic
<1>3. CASE NoAnswer(k) /\ policy.response = None
  <2> DEFINE x == [at |-> "done"]
  <2>1. StepBack(k, x) /\ UNCHANGED <<dead, replies, seen>>
    BY <1>3 DEF NoAnswer
  <2>2. x \in ResponseStates /\ x.at = "done" /\ x.at # "read"
    BY DEF ResponseStates
  <2> HIDE DEF x
  <2>3. TypeOK' /\ BackOf(k) /\ resp'[k] = x
    BY <1>0, <2>1, <2>2, StepBackTypes DEF pipes
  <2> QED
    BY <1>0, <2>1, <2>2, <2>3
<1> QED
  BY <1>1, <1>2, <1>3 DEF RespRead

LEMMA ResponseSection ==
    ASSUME TypeOK, policy.response # None
    PROVE  /\ policy.response \in ResponsePolicies
           /\ policy.response.list \in Seq(Strings) /\ Len(policy.response.list) \in Nat
<1>1. policy.response \in ResponsePolicies
  BY DEF TypeOK
<1>2. policy.response.list \in Seq(Strings)
  BY <1>1 DEF ResponsePolicies
<1> QED
  BY <1>1, <1>2

LEMMA RespFilterTypes ==
    ASSUME TypeOK, NEW k \in Conns, RespFilter(k)
    PROVE  /\ TypeOK' /\ BackOf(k) /\ resp[k].at = "filter" /\ seen' = seen
           /\ \/ dead' /\ resp' = resp
              \/ ~dead' /\ resp'[k].at = "done" /\ resp'[k] \in ResponseStates
              \/ /\ ~dead' /\ resp'[k] \in ResponseStates /\ resp'[k].at = "write"
                 /\ resp[k].a.body = "other" /\ resp'[k].a = resp[k].a /\ ~resp'[k].block
              \/ /\ ~dead' /\ resp'[k] \in ResponseStates /\ policy.response # None
                 /\ resp[k].a.body = "chat"
                 /\ resp'[k].a = resp[k].a /\ resp'[k].block = resp[k].block
                 /\ resp'[k].at = "filter" => InChoice(resp[k].a, resp'[k].x)
                 /\ LET n == Len(policy.response.list)
                    IN  \/ resp'[k].at = "write" /\ 1 > n /\ resp[k].x + 1 > Len(resp[k].a.choices)
                        \/ resp'[k].at = "filter" /\ 1 > n /\ resp'[k].x = resp[k].x + 1
                        \/ /\ resp'[k].at = "word" /\ 1 <= n /\ resp'[k].x = resp[k].x
                           /\ resp'[k].y = 1 /\ resp'[k].n = n
<1> DEFINE s == resp[k]
<1>0. /\ s.at = "filter" /\ ~dead /\ dead \in BOOLEAN /\ resp \in [Conns -> ResponseStates]
      /\ UNCHANGED <<app, srv, pipes, req, policy, watchVars, bounds, asked, refused>> /\ seen' = seen
      /\ s.a \in Answers /\ s.block \in BOOLEAN /\ s.x \in Nat \ {0}
  BY ResponseState DEF RespFilter, TypeOK, AnsweringAt, history
<1>1. CASE Panic /\ UNCHANGED resp
  BY <1>0, <1>1, PanicBackTypes DEF Panic
<1>2. CASE StepBack(k, [at |-> "done"]) /\ UNCHANGED dead
  <2> DEFINE x == [at |-> "done"]
  <2>1. x \in ResponseStates /\ x.at = "done" /\ x.at # "read"
    BY DEF ResponseStates
  <2> HIDE DEF x
  <2>2. TypeOK' /\ BackOf(k) /\ resp'[k] = x
    BY <1>0, <1>2, <2>1, StepBackTypes DEF x
  <2> QED
    BY <1>0, <1>2, <2>1, <2>2
<1>3. CASE s.a.body = "other" /\ StepBack(k, Passed(s.a, FALSE)) /\ UNCHANGED dead
  <2> DEFINE x == Passed(s.a, FALSE)
  <2>1. x \in ResponseStates /\ x.at = "write" /\ x.at # "read" /\ x.a = s.a /\ ~x.block
    BY <1>0, PassedState
  <2> HIDE DEF x
  <2>2. TypeOK' /\ BackOf(k) /\ resp'[k] = x
    BY <1>0, <1>3, <2>1, StepBackTypes DEF x
  <2> QED
    BY <1>0, <1>3, <2>1, <2>2
<1>4. CASE /\ policy.response # None /\ UNCHANGED dead /\ s.a.body = "chat"
           /\ StepBack(k, Looking(s.a, s.x, s.block, 1, Len(policy.response.list)))
  <2> DEFINE n == Len(policy.response.list)
             x == Looking(s.a, s.x, s.block, 1, n)
  <2>1. n \in Nat
    BY <1>4, ResponseSection
  <2> HIDE DEF n
  <2>2. /\ x \in ResponseStates /\ x.a = s.a /\ x.block = s.block
        /\ \/ x.at = "write" /\ 1 > n /\ s.x + 1 > Len(s.a.choices)
           \/ x.at = "filter" /\ 1 > n /\ x.x = s.x + 1
           \/ x.at = "word" /\ 1 <= n /\ x.x = s.x /\ x.y = 1 /\ x.n = n
        /\ x.at = "filter" => InChoice(s.a, x.x)
    <3>1. x = Looking(s.a, s.x, s.block, 1, n) /\ 1 \in Nat \ {0}
      OBVIOUS
    <3> HIDE DEF x, s
    <3> QED
      BY <1>0, <2>1, <3>1, LookingState
  <2>3. x.at # "read"
    BY <2>2
  <2> HIDE DEF x
  <2>4. TypeOK' /\ BackOf(k) /\ resp'[k] = x
    BY <1>0, <1>4, <2>2, <2>3, StepBackTypes DEF x, n
  <2> QED
    BY <1>0, <1>4, <2>2, <2>4 DEF n
<1> QED
  BY <1>1, <1>2, <1>3, <1>4 DEF RespFilter, LookBackOr

LEMMA RespWordTypes ==
    ASSUME TypeOK, NEW k \in Conns, RespWord(k)
    PROVE  /\ TypeOK' /\ BackOf(k) /\ resp[k].at = "word" /\ seen' = seen
           /\ \/ dead' /\ resp' = resp
              \/ /\ ~dead' /\ resp'[k] \in ResponseStates /\ policy.response # None
                 /\ resp[k].y \in DOMAIN policy.response.list /\ resp'[k].a = resp[k].a
                 /\ resp'[k].block <=> Blocked(resp[k], policy.response.list[resp[k].y])
                 /\ resp'[k].at = "filter" => InChoice(resp[k].a, resp'[k].x)
                 /\ \/ /\ resp'[k].at = "write" /\ resp[k].y + 1 > resp[k].n
                       /\ resp[k].x + 1 > Len(resp[k].a.choices)
                    \/ /\ resp'[k].at = "filter" /\ resp[k].y + 1 > resp[k].n
                       /\ resp'[k].x = resp[k].x + 1
                    \/ /\ resp'[k].at = "word" /\ resp[k].y + 1 <= resp[k].n /\ resp'[k].x = resp[k].x
                       /\ resp'[k].y = resp[k].y + 1 /\ resp'[k].n = resp[k].n
<1> DEFINE s == resp[k]
<1>0. /\ s.at = "word" /\ ~dead /\ dead \in BOOLEAN
      /\ UNCHANGED <<app, srv, pipes, req, policy, watchVars, bounds, asked, refused>> /\ seen' = seen
      /\ s.a \in Answers /\ s.block \in BOOLEAN /\ s.x \in Nat \ {0}
      /\ s.y \in Nat \ {0} /\ s.n \in Nat
  BY ResponseState DEF RespWord, TypeOK, AnsweringAt, history
<1>1. CASE Panic /\ UNCHANGED resp
  BY <1>0, <1>1, PanicBackTypes DEF Panic
<1>2. CASE /\ HasWord(s.y) /\ UNCHANGED dead
           /\ StepBack(k, Looking(s.a, s.x, Blocked(s, policy.response.list[s.y]), s.y + 1, s.n))
  <2> DEFINE b == Blocked(s, policy.response.list[s.y])
             x == Looking(s.a, s.x, b, s.y + 1, s.n)
  <2>1. b \in BOOLEAN
    BY <1>0 DEF Blocked, Contains
  <2> HIDE DEF b
  <2>2. /\ x \in ResponseStates /\ x.a = s.a /\ x.block = b
        /\ \/ x.at = "write" /\ s.y + 1 > s.n /\ s.x + 1 > Len(s.a.choices)
           \/ x.at = "filter" /\ s.y + 1 > s.n /\ x.x = s.x + 1
           \/ x.at = "word" /\ s.y + 1 <= s.n /\ x.x = s.x /\ x.y = s.y + 1 /\ x.n = s.n
        /\ x.at = "filter" => InChoice(s.a, x.x)
    <3> DEFINE y == s.y + 1
    <3>1. y \in Nat \ {0}
      BY <1>0
    <3> HIDE DEF y
    <3>2. x = Looking(s.a, s.x, b, y, s.n)
      BY DEF y
    <3>3. PICK c : c \in BOOLEAN /\ c = b
      BY <2>1
    <3> HIDE DEF x, s
    <3>4. x = Looking(s.a, s.x, c, y, s.n)
      BY <3>2, <3>3
    <3>5. /\ c \in BOOLEAN /\ y \in Nat \ {0} /\ s.a \in Answers
          /\ s.x \in Nat \ {0} /\ s.n \in Nat
      BY <1>0, <3>1, <3>3
    <3>6. x \in ResponseStates
      <4>1. PICK a, u, v, n : a = s.a /\ u = s.x /\ v = y /\ n = s.n
        OBVIOUS
      <4>2. /\ a \in Answers /\ u \in Nat \ {0} /\ v \in Nat \ {0} /\ n \in Nat
        BY <3>5, <4>1
      <4>3. Looking(a, u, c, v, n) \in ResponseStates
        BY <3>5, <4>2, LookingState
      <4> QED
        BY <3>4, <4>1, <4>3
    <3>10. x.a = s.a
      BY <3>4, <3>5, LookingState
    <3>7. x.block = c
      BY <3>4, <3>5, LookingState
    <3>8. \/ x.at = "write" /\ y > s.n /\ s.x + 1 > Len(s.a.choices)
          \/ x.at = "filter" /\ y > s.n /\ x.x = s.x + 1
          \/ x.at = "word" /\ y <= s.n /\ x.x = s.x /\ x.y = y /\ x.n = s.n
      BY <3>4, <3>5, LookingState
    <3>9. x.at = "filter" => InChoice(s.a, x.x)
      BY <3>4, <3>5, LookingState
    <3> QED
      BY <3>3, <3>6, <3>7, <3>8, <3>9, <3>10 DEF y
  <2>3. x.at # "read"
    BY <2>2
  <2> HIDE DEF x
  <2>4. TypeOK' /\ BackOf(k) /\ resp'[k] = x
    BY <1>0, <1>2, <2>2, <2>3, StepBackTypes DEF x, b
  <2>5. policy.response # None /\ s.y \in DOMAIN policy.response.list
    BY <1>2 DEF HasWord
  <2> QED
    BY <1>0, <1>2, <2>2, <2>4, <2>5 DEF b
<1> QED
  BY <1>1, <1>2 DEF RespWord

\* The steps of the loop that only look at the policy.
RespLook(k) == RespFilter(k) \/ RespWord(k)

LEMMA RespLookTypes ==
    ASSUME TypeOK, NEW k \in Conns, RespLook(k)
    PROVE  /\ TypeOK' /\ BackOf(k) /\ resp[k].at \in {"filter", "word"} /\ seen' = seen /\ ~dead
           /\ UNCHANGED <<app, srv, pipes, req, policy, watchVars, bounds, asked, refused>>
           /\ \/ dead' /\ resp' = resp
              \/ ~dead' /\ resp'[k].at = "done" /\ resp'[k] \in ResponseStates
              \/ /\ ~dead' /\ resp'[k] \in ResponseStates
                 /\ resp'[k].at \in AnsweringAt /\ resp'[k].a = resp[k].a
<1>1. CASE RespFilter(k)
  BY <1>1, RespFilterTypes DEF RespFilter, AnsweringAt, history
<1>2. CASE RespWord(k)
  BY <1>2, RespWordTypes DEF RespWord, AnsweringAt, history
<1> QED
  BY <1>1, <1>2 DEF RespLook

LEMMA RespWriteTypes ==
    ASSUME TypeOK, NEW k \in Conns, RespWrite(k)
    PROVE  /\ TypeOK' /\ BackOf(k) /\ resp[k].at = "write" /\ GivenBack(k, resp[k].a.id)
           /\ resp'[k].at \in {"read", "done"} /\ resp'[k] \in ResponseStates
           /\ seen'[k].response = {}
<1>0. /\ resp[k].at = "write" /\ dead \in BOOLEAN /\ resp \in [Conns -> ResponseStates]
      /\ UNCHANGED <<srv, pipes, req, policy, dead, watchVars, bounds, asked, refused>>
      /\ resp[k].a \in Answers /\ resp[k] \in ResponseStates
      /\ seen' = [seen EXCEPT ![k].response = {}]
  BY ResponseState DEF RespWrite, TypeOK, AnsweringAt
<1>1. resp[k].a.id \in Ids
  BY <1>0 DEF Answers
<1>2. GivenBack(k, resp[k].a.id)
  BY <1>1, GiveBackTypes DEF RespWrite
<1>3. PICK x \in {Nothing, [at |-> "done"]} : StepBack(k, x)
  BY DEF RespWrite
<1>4. x \in ResponseStates /\ x.at \in {"read", "done"}
  BY DEF ResponseStates, Nothing
<1>5. ResponseComesTo(k, x, {})
  BY <1>0, <1>3 DEF ResponseComesTo, StepBack
<1>6. TypeOK'
  BY <1>0, <1>2, <1>4, <1>5, ResponseTypes DEF TypeOK, pipes, GivenBack
<1>7. BackOf(k) /\ resp'[k] = x /\ seen'[k].response = {}
  BY <1>0, <1>4, <1>5, ResponseComes DEF BackOf
<1> QED
  BY <1>0, <1>2, <1>4, <1>6, <1>7

-----------------------------------------------------------------------------
(* The watcher *)

Events == {SetTo(d) : d \in Docs} \cup {Deletion}

\* What the loops and the ends see.
loops == <<app, srv, pipes, req, resp, dead, asked, refused>>

LEMMA WatchTypes ==
    ASSUME TypeOK, UNCHANGED <<loops, policy, seen>>,
           cm' \in Docs \cup {None}, watch' \in {"starting", "up", "lost", "off"},
           events' \in Seq(Events), Document(todo)', pen' \in Pens,
           edits' \in 0 .. MaxEdits, faults' \in 0 .. MaxFaults
    PROVE  TypeOK'
BY DEF TypeOK, loops, pipes, Events

LEMMA FirstEventsType == ASSUME TypeOK PROVE FirstEvents \in Seq(Events)
<1>1. cm # None => SetTo(cm) \in Events
  BY DEF TypeOK, Events
<1> QED
  BY <1>1 DEF FirstEvents

LEMMA DeliverType ==
    ASSUME TypeOK, NEW e \in Events, Deliver(e)
    PROVE  events' \in Seq(Events)
<1>1. events \in Seq(Events)
  BY DEF TypeOK, Events
<1>2. Append(events, e) \in Seq(Events)
  BY <1>1, AppendOne
<1> QED
  BY <1>1, <1>2 DEF Deliver

LEMMA FaultType == ASSUME TypeOK, NEW f, Fault(f) PROVE faults' \in 0 .. MaxFaults
BY AIAssumption DEF Fault, TypeOK

LEMMA EditTypes ==
    ASSUME TypeOK, NEW d \in Docs, Edit(d)
    PROVE  TypeOK' /\ UNCHANGED <<loops, policy, seen>>
<1>1. SetTo(d) \in Events
  BY DEF Events
<1>2. events' \in Seq(Events)
  BY <1>1, DeliverType DEF Edit
<1>3. edits' \in 0 .. MaxEdits
  BY AIAssumption DEF Edit, TypeOK
<1>4. UNCHANGED <<loops, policy, seen>>
  BY DEF Edit, loops, history
<1> QED
  BY <1>2, <1>3, <1>4, WatchTypes DEF Edit, TypeOK

LEMMA DeleteMapTypes ==
    ASSUME TypeOK, DeleteMap
    PROVE  TypeOK' /\ UNCHANGED <<loops, policy, seen>>
<1>1. Deletion \in Events
  BY DEF Events
<1>2. events' \in Seq(Events)
  BY <1>1, DeliverType DEF DeleteMap
<1>3. edits' \in 0 .. MaxEdits
  BY AIAssumption DEF DeleteMap, TypeOK
<1>4. UNCHANGED <<loops, policy, seen>>
  BY DEF DeleteMap, loops, history
<1> QED
  BY <1>2, <1>3, <1>4, WatchTypes DEF DeleteMap, TypeOK

LEMMA StartWatchTypes ==
    ASSUME TypeOK, StartWatch
    PROVE  TypeOK' /\ UNCHANGED <<loops, policy, seen>>
<1>1. events' \in Seq(Events) /\ watch' \in {"up", "off"}
  BY FirstEventsType DEF StartWatch, TypeOK, Events
<1>2. faults' \in 0 .. MaxFaults
  BY FaultType DEF StartWatch, TypeOK
<1>3. UNCHANGED <<loops, policy, seen>>
  BY DEF StartWatch, loops, history
<1> QED
  BY <1>1, <1>2, <1>3, WatchTypes DEF StartWatch, TypeOK

LEMMA LoseWatchTypes ==
    ASSUME TypeOK, LoseWatch
    PROVE  TypeOK' /\ UNCHANGED <<loops, policy, seen>>
<1>1. events \in Seq(Events)
  BY DEF TypeOK, Events
<1>2. PICK n \in 0 .. Len(events) : events' = SubSeq(events, 1, n)
  BY DEF LoseWatch
<1>3. events' \in Seq(Events)
  BY <1>1, <1>2
<1>4. faults' \in 0 .. MaxFaults
  BY FaultType DEF LoseWatch
<1>5. UNCHANGED <<loops, policy, seen>>
  BY DEF LoseWatch, loops, history
<1> QED
  BY <1>3, <1>4, <1>5, WatchTypes DEF LoseWatch, TypeOK

LEMMA RewatchTypes ==
    ASSUME TypeOK, Rewatch
    PROVE  TypeOK' /\ UNCHANGED <<loops, policy, seen>>
<1>1. events \in Seq(Events) /\ FirstEvents \in Seq(Events)
  BY FirstEventsType DEF TypeOK, Events
<1>2. events' \in Seq(Events)
  BY <1>1 DEF Rewatch
<1>3. UNCHANGED <<loops, policy, seen>>
  BY DEF Rewatch, loops, history
<1> QED
  BY <1>2, <1>3, WatchTypes DEF Rewatch, TypeOK, bounds

\* A policy that changes is added to what the loops may have seen.
Seeing(P, p) == IF P = {} THEN {} ELSE P \cup {p}

LEMMA ChangeTypes ==
    ASSUME TypeOK, NEW p \in [request : RequestPolicies, response : ResponsePolicies], Change(p)
    PROVE  /\ policy' = p /\ seen' \in [Conns -> SeenType]
           /\ \A k \in Conns : /\ seen'[k].request = Seeing(seen[k].request, p.request)
                               /\ seen'[k].response = Seeing(seen[k].response, p.response)
<1> DEFINE s(k) == [t \in {"request", "response"} |-> Seeing(seen[k][t], p[t])]
<1>1. policy' = p /\ seen' = [k \in Conns |-> s(k)]
  BY DEF Change, Seeing
<1>2. ASSUME NEW k \in Conns
      PROVE  /\ s(k).request = Seeing(seen[k].request, p.request)
             /\ s(k).response = Seeing(seen[k].response, p.response)
  OBVIOUS
<1>3. ASSUME NEW k \in Conns PROVE s(k) \in SeenType
  <2>1. seen[k] \in SeenType
    BY Fits
  <2>2. seen[k].request \in SUBSET RequestPolicies /\ seen[k].response \in SUBSET ResponsePolicies
    BY <2>1 DEF SeenType
  <2>3. /\ Seeing(seen[k].request, p.request) \in SUBSET RequestPolicies
        /\ Seeing(seen[k].response, p.response) \in SUBSET ResponsePolicies
    BY <2>2 DEF Seeing
  <2>4. s(k) = [request |-> Seeing(seen[k].request, p.request),
                response |-> Seeing(seen[k].response, p.response)]
    OBVIOUS
  <2> QED
    BY <2>3, <2>4 DEF SeenType
<1> HIDE DEF s
<1> QED
  BY <1>1, <1>2, <1>3

LEMMA ChangeFits ==
    ASSUME TypeOK, NEW p \in [request : RequestPolicies, response : ResponsePolicies], Change(p),
           UNCHANGED loops, events' \in Seq(Events), Document(todo)', pen' \in Pens,
           UNCHANGED <<cm, watch, bounds>>
    PROVE  TypeOK'
<1>1. /\ policy' = p /\ seen' \in [Conns -> SeenType]
      /\ \A k \in Conns : /\ seen'[k].request = Seeing(seen[k].request, p.request)
                          /\ seen'[k].response = Seeing(seen[k].response, p.response)
  BY ChangeTypes
<1>2. ASSUME NEW k \in Conns PROVE SeenFits(k)'
  BY <1>1, Fits DEF SeenFits, Seeing, loops
<1> QED
  BY <1>1, <1>2 DEF TypeOK, SeenType, SeenFits, Resting, loops, pipes, Events, bounds

LEMMA NoPolicy == [request |-> None, response |-> None] \in [request : RequestPolicies, response : ResponsePolicies]
BY DEF RequestPolicies, ResponsePolicies

LEMMA TakeEventTypes ==
    ASSUME TypeOK, TakeEvent
    PROVE  /\ TypeOK' /\ UNCHANGED loops /\ UNCHANGED pen /\ todo = <<>>
           /\ \/ UNCHANGED <<policy, seen>>
              \/ \E p \in [request : RequestPolicies, response : ResponsePolicies] : Change(p)
<1>0. /\ events \in Seq(Events) /\ events # <<>> /\ events' = Tail(events)
      /\ UNCHANGED <<app, srv, pipes, req, resp, dead, cm, watch, pen, bounds, asked, refused>>
      /\ pen \in Pens /\ todo = <<>>
  BY DEF TakeEvent, TypeOK, Events
<1>1. Head(events) \in Events /\ events' \in Seq(Events)
  BY <1>0
<1>2. UNCHANGED loops
  BY <1>0 DEF loops
<1>3. CASE Head(events).type = "set" /\ todo' = Head(events).doc /\ UNCHANGED <<policy, seen>>
  <2>1. PICK d \in Docs : Head(events) = SetTo(d)
    BY <1>1, <1>3 DEF Events, Deletion
  <2>2. todo' = d
    BY <1>3, <2>1 DEF SetTo
  <2>3. Document(todo)'
    BY <2>2, AIAssumption DEF Document
  <2> QED
    BY <1>0, <1>1, <1>2, <1>3, <2>3, WatchTypes DEF TypeOK, bounds
<1>4. CASE Change([request |-> None, response |-> None]) /\ UNCHANGED todo
  <2>1. Document(todo)'
    BY <1>4 DEF TypeOK, Document
  <2> QED
    BY <1>0, <1>1, <1>2, <1>4, <2>1, NoPolicy, ChangeFits
<1> QED
  BY <1>3, <1>4 DEF TakeEvent

\* The pen is in a field that is still to be written, and the elements before it are
\* there: nobody but the watcher makes a list shorter, and
\* it takes no event before it has written the last one to its end.
Writing ==
    pen # None => /\ pen.f \in DOMAIN todo
                  /\ pen.i <= Len(policy[SectionOf(pen.f)].list) + 1

Policies == [request : RequestPolicies, response : ResponsePolicies]
RequestSections == [block : BOOLEAN, list : Seq(Rules), spare : Seq(Rules)]
ResponseSections == [list : Seq(Strings), spare : Seq(Strings)]

\* What a list of field f consists of, and the section that it is in.
Elements(f) == IF f = "banned" THEN Strings ELSE Rules
Sections(f) == IF f = "banned" THEN ResponseSections ELSE RequestSections

LEMMA SectionTypes ==
    ASSUME TypeOK, NEW f \in Fields
    PROVE  /\ policy \in Policies
           /\ policy[SectionOf(f)] # None => policy[SectionOf(f)] \in Sections(f)
           /\ \A new \in Sections(f) :
                 /\ [policy EXCEPT ![SectionOf(f)] = new] \in Policies
                 /\ [policy EXCEPT ![SectionOf(f)] = new][SectionOf(f)] = new
<1>1. policy \in Policies /\ policy.request \in RequestPolicies /\ policy.response \in ResponsePolicies
  BY DEF TypeOK, Policies
<1>2. CASE f = "banned"
  <2>1. SectionOf(f) = "response" /\ Sections(f) = ResponseSections
    BY <1>2 DEF SectionOf, Sections
  <2>2. ResponsePolicies = ResponseSections \cup {None}
    BY DEF ResponsePolicies, ResponseSections
  <2>3. ASSUME NEW new \in ResponseSections
        PROVE  /\ [policy EXCEPT !["response"] = new] \in Policies
               /\ [policy EXCEPT !["response"] = new]["response"] = new
    BY <1>1, <2>2 DEF Policies
  <2> QED
    BY <1>1, <2>1, <2>2, <2>3
<1>3. CASE f # "banned"
  <2>1. SectionOf(f) = "request" /\ Sections(f) = RequestSections
    BY <1>3 DEF SectionOf, Sections
  <2>2. RequestPolicies = RequestSections \cup {None}
    BY DEF RequestPolicies, RequestSections
  <2>3. ASSUME NEW new \in RequestSections
        PROVE  /\ [policy EXCEPT !["request"] = new] \in Policies
               /\ [policy EXCEPT !["request"] = new]["request"] = new
    BY <1>1, <2>2 DEF Policies
  <2> QED
    BY <1>1, <2>1, <2>2, <2>3
<1> QED
  BY <1>2, <1>3

\* A section whose list, and what is behind its end, is another.
LEMMA ListTypes ==
    ASSUME NEW f \in Fields, NEW p \in Sections(f)
    PROVE  p.list \in Seq(Elements(f)) /\ p.spare \in Seq(Elements(f)) /\ Len(p.list) \in Nat
<1>1. p.list \in Seq(Elements(f)) /\ p.spare \in Seq(Elements(f))
  BY DEF Elements, Sections, RequestSections, ResponseSections
<1> QED
  BY <1>1

Relisted(p, l, t) == [p EXCEPT !.list = l, !.spare = t]

LEMMA RelistTypes ==
    ASSUME NEW f \in Fields, NEW p \in Sections(f), NEW l \in Seq(Elements(f)), NEW t \in Seq(Elements(f))
    PROVE  Relisted(p, l, t) \in Sections(f) /\ Relisted(p, l, t).list = l
<1> DEFINE E == Seq(Elements(f))
<1>1. l \in E /\ t \in E
  OBVIOUS
<1>2. Relisted(p, l, t) = [[p EXCEPT !.list = l] EXCEPT !.spare = t]
  BY DEF Relisted
<1>3. CASE f = "banned"
  <2>1. Sections(f) = [list : E, spare : E]
    BY <1>3 DEF Sections, Elements, ResponseSections
  <2> HIDE DEF E
  <2>2. PICK c, d : p = [list |-> c, spare |-> d]
    BY <2>1
  <2>3. [p EXCEPT !.list = l] = [list |-> l, spare |-> d]
    BY <2>2
  <2>4. [[list |-> l, spare |-> d] EXCEPT !.spare = t] = [list |-> l, spare |-> t]
    OBVIOUS
  <2> QED
    BY <1>1, <1>2, <2>1, <2>3, <2>4
<1>4. CASE f # "banned"
  <2>1. Sections(f) = [block : BOOLEAN, list : E, spare : E]
    BY <1>4 DEF Sections, Elements, RequestSections
  <2> HIDE DEF E
  <2>2. PICK a \in BOOLEAN, c \in E, d \in E : p = [block |-> a, list |-> c, spare |-> d]
    BY <2>1
  <2>3. [p EXCEPT !.list = l] = [block |-> a, list |-> l, spare |-> d]
    BY <2>2
  <2>4. [[block |-> a, list |-> l, spare |-> d] EXCEPT !.spare = t] = [block |-> a, list |-> l, spare |-> t]
    OBVIOUS
  <2> QED
    BY <1>1, <1>2, <2>1, <2>2, <2>3, <2>4
<1> QED
  BY <1>3, <1>4

LEMMA BlankType ==
    ASSUME NEW f \in Fields
    PROVE  Blank[SectionOf(f)] \in Sections(f) /\ Zero[SectionOf(f)] \in Elements(f)
<1>1. CASE f = "banned"
  <2>1. /\ Blank[SectionOf(f)] = [list |-> <<>>, spare |-> <<>>] /\ Zero[SectionOf(f)] = None
        /\ Sections(f) = ResponseSections /\ Elements(f) = Strings
    BY <1>1 DEF Blank, Zero, SectionOf, Sections, Elements
  <2>2. <<>> \in Seq(Strings)
    OBVIOUS
  <2> QED
    BY <2>1, <2>2 DEF ResponseSections, Strings
<1>2. CASE f # "banned"
  <2>1. /\ Blank[SectionOf(f)] = [block |-> FALSE, list |-> <<>>, spare |-> <<>>]
        /\ Zero[SectionOf(f)] = [g \in Keys |-> None]
        /\ Sections(f) = RequestSections /\ Elements(f) = Rules
    BY <1>2 DEF Blank, Zero, SectionOf, Sections, Elements
  <2>2. <<>> \in Seq(Rules)
    OBVIOUS
  <2>3. [g \in Keys |-> None] \in Rules
    BY AIAssumption DEF Rules
  <2> QED
    BY <2>1, <2>2, <2>3 DEF RequestSections
<1> QED
  BY <1>1, <1>2

LEMMA GrownType ==
    ASSUME NEW f \in Fields, NEW p \in Sections(f)
    PROVE  /\ Grown(f, p) \in Sections(f)
           /\ Len(Grown(f, p).list) = Len(p.list) + 1
<1> DEFINE e == IF p.spare = <<>> THEN Zero[SectionOf(f)] ELSE Head(p.spare)
           l == Append(p.list, e)
           t == IF p.spare = <<>> THEN p.spare ELSE Tail(p.spare)
<1>1. p.list \in Seq(Elements(f)) /\ p.spare \in Seq(Elements(f)) /\ Len(p.list) \in Nat
  BY ListTypes
<1>2. e \in Elements(f) /\ t \in Seq(Elements(f))
  BY <1>1, BlankType
<1>3. Grown(f, p) = Relisted(p, l, t)
  BY DEF Grown, Relisted
<1> HIDE DEF e, t
<1>4. l \in Seq(Elements(f)) /\ Len(l) = Len(p.list) + 1
  BY <1>1, <1>2
<1> HIDE DEF l
<1>5. Relisted(p, l, t) \in Sections(f) /\ Relisted(p, l, t).list = l
  BY <1>2, <1>4, RelistTypes
<1> QED
  BY <1>3, <1>4, <1>5

LEMMA CutType ==
    ASSUME NEW f \in Fields, NEW p \in Sections(f), NEW n \in 0 .. Len(p.list)
    PROVE  Cut(p, n) \in Sections(f)
<1> DEFINE l == SubSeq(p.list, 1, n)
           t == IF n = 0 THEN <<>> ELSE SubSeq(p.list, n + 1, Len(p.list)) \o p.spare
<1>1. p.list \in Seq(Elements(f)) /\ p.spare \in Seq(Elements(f)) /\ Len(p.list) \in Nat
  BY ListTypes
<1>2. l \in Seq(Elements(f))
  BY <1>1
<1>3. t \in Seq(Elements(f))
  <2>1. SubSeq(p.list, n + 1, Len(p.list)) \in Seq(Elements(f))
    BY <1>1
  <2> QED
    BY <1>1, <2>1
<1>4. Cut(p, n) = Relisted(p, l, t)
  BY DEF Cut, Relisted
<1> HIDE DEF l, t
<1> QED
  BY <1>2, <1>3, <1>4, RelistTypes

LEMMA PutType ==
    ASSUME TypeOK, NEW f \in {"rules", "banned"}, f \in DOMAIN todo, NEW p \in Sections(f),
           NEW i \in DOMAIN p.list, i <= Len(todo[f]), NEW g \in KeysOf(f, i)
    PROVE  /\ Put(f, p, i, g) \in Sections(f) /\ g \in Keys \cup {"word"}
           /\ Len(Put(f, p, i, g).list) = Len(p.list)
<1>0. f \in Fields /\ Document(todo)
  BY DEF Fields, TypeOK
<1>1. /\ p.list \in Seq(Elements(f)) /\ p.spare \in Seq(Elements(f)) /\ Len(p.list) \in Nat
      /\ i \in 1 .. Len(p.list)
  <2>1. p.list \in Seq(Elements(f)) /\ p.spare \in Seq(Elements(f)) /\ Len(p.list) \in Nat
    BY <1>0, ListTypes
  <2> QED
    BY <2>1
<1>2. ASSUME NEW e \in Elements(f), Put(f, p, i, g) = [p EXCEPT !.list = [p.list EXCEPT ![i] = e]]
      PROVE  Put(f, p, i, g) \in Sections(f) /\ Len(Put(f, p, i, g).list) = Len(p.list)
  <2> DEFINE l == [p.list EXCEPT ![i] = e]
  <2>1. l \in Seq(Elements(f)) /\ Len(l) = Len(p.list)
    BY <1>1
  <2> DEFINE new == Put(f, p, i, g)
  <2>2. new = [p EXCEPT !.list = l]
    BY <1>2
  <2> HIDE DEF l, new
  <2>3. new = Relisted(p, l, p.spare)
    BY <2>2 DEF Relisted, Sections, RequestSections, ResponseSections
  <2>4. new \in Sections(f) /\ new.list = l
    BY <1>0, <1>1, <2>1, <2>3, RelistTypes
  <2> QED
    BY <2>1, <2>4 DEF new
<1>3. CASE f = "banned"
  <2>1. todo[f] \in Seq(Strings) /\ Elements(f) = Strings
    BY <1>0, <1>3 DEF Document, Elements
  <2>2. todo[f][i] \in Elements(f)
    BY <1>1, <2>1
  <2>3. Put(f, p, i, g) = [p EXCEPT !.list = [p.list EXCEPT ![i] = todo[f][i]]]
    BY <1>3 DEF Put
  <2> QED
    BY <1>2, <1>3, <2>2, <2>3 DEF KeysOf
<1>4. CASE f = "rules"
  <2>1. todo[f] \in Seq(UNION {[S -> Names] : S \in SUBSET Keys \ {{}}}) /\ Elements(f) = Rules
    BY <1>0, <1>4 DEF Document, Elements
  <2>2. todo[f][i] \in UNION {[S -> Names] : S \in SUBSET Keys \ {{}}}
    BY <1>1, <2>1
  <2>3. PICK S \in SUBSET Keys : todo[f][i] \in [S -> Names]
    BY <2>2
  <2>4. g \in S /\ todo[f][i][g] \in Names
    BY <1>4, <2>3 DEF KeysOf
  <2> DEFINE r == p.list[i]
             e == [r EXCEPT ![g] = todo[f][i][g]]
  <2>5. r \in Rules
    BY <1>1, <2>1
  <2>6. e \in Rules
    <3> HIDE DEF r
    <3> QED
      BY <2>4, <2>5 DEF Rules
  <2>7. Put(f, p, i, g) = [p EXCEPT !.list = [p.list EXCEPT ![i] = e]]
    BY <1>4 DEF Put
  <2> HIDE DEF e
  <2> QED
    BY <1>2, <2>1, <2>4, <2>6, <2>7
<1> QED
  BY <1>3, <1>4

LEMMA DoneTypes ==
    ASSUME TypeOK, NEW f, Done(f)
    PROVE  Document(todo)' /\ pen' \in Pens /\ pen' = None
<1>1. Document(todo) /\ todo' = [g \in DOMAIN todo \ {f} |-> todo[g]] /\ pen' = None
  BY DEF TypeOK, Done
<1>2. DOMAIN todo' = DOMAIN todo \ {f} /\ \A g \in DOMAIN todo' : todo'[g] = todo[g]
  BY <1>1
<1> QED
  BY <1>1, <1>2 DEF Document, Pens

\* The section of field f is rewritten.
LEMMA RewriteTypes ==
    ASSUME TypeOK, NEW f \in Fields, NEW new \in Sections(f), Rewrite(f, new),
           Document(todo)', pen' \in Pens, UNCHANGED watcherOnly
    PROVE  /\ TypeOK' /\ UNCHANGED loops
           /\ \E p \in Policies : Change(p)
           /\ policy'[SectionOf(f)] = new
<1> DEFINE p == [policy EXCEPT ![SectionOf(f)] = new]
<1>1. p \in Policies /\ p[SectionOf(f)] = new
  BY SectionTypes
<1>2. Change(p)
  BY DEF Rewrite
<1> HIDE DEF p
<1>3. UNCHANGED loops /\ UNCHANGED <<events, cm, watch, bounds>>
  BY DEF watcherOnly, loops
<1>4. events' \in Seq(Events)
  BY <1>3 DEF TypeOK, Events
<1>5. TypeOK'
  BY <1>1, <1>2, <1>3, <1>4, ChangeFits DEF Policies
<1>6. policy' = p
  BY <1>2 DEF Change
<1> QED
  BY <1>1, <1>2, <1>3, <1>5, <1>6

LEMMA PenTypes ==
    ASSUME TypeOK, NEW f \in {"rules", "banned"}, Pen(f).f = f
    PROVE  LET q == Pen(f)
           IN  /\ q \in Pens /\ q.i \in Nat \ {0} /\ q.done \subseteq Keys \cup {"word"}
               /\ pen # None => q = pen
               /\ pen = None => q.i = 1
               /\ NextElement(q) \in Pens /\ NextElement(q).f = f /\ NextElement(q).i = q.i + 1
               /\ \A g \in Keys \cup {"word"} :
                     LET x == [q EXCEPT !.done = @ \cup {g}]
                     IN  x \in Pens /\ x.f = f /\ x.i = q.i
<1> DEFINE q == Pen(f)
           D == SUBSET (Keys \cup {"word"})
           QP == [f : {"rules", "banned"}, i : Nat \ {0}, done : D]
<1>1. q \in QP /\ q.f = f /\ (pen # None => q = pen) /\ (pen = None => q.i = 1)
  BY DEF Pen, TypeOK, Pens
<1>2. QP \subseteq Pens
  BY DEF Pens
<1> HIDE DEF q
<1>3. q.i \in Nat \ {0} /\ q.done \in D
  BY <1>1
<1>4. NextElement(q) \in QP /\ NextElement(q).f = f /\ NextElement(q).i = q.i + 1
  <2>1. NextElement(q) = [f |-> q.f, i |-> q.i + 1, done |-> {}]
    <3> HIDE DEF D
    <3>1. PICK h, i, d : q = [f |-> h, i |-> i, done |-> d]
      BY <1>1
    <3>2. NextElement(q) = [[q EXCEPT !.i = i + 1] EXCEPT !.done = {}]
      BY <3>1 DEF NextElement
    <3>3. [q EXCEPT !.i = i + 1] = [f |-> h, i |-> i + 1, done |-> d]
      BY <3>1
    <3>4. [[f |-> h, i |-> i + 1, done |-> d] EXCEPT !.done = {}] = [f |-> h, i |-> i + 1, done |-> {}]
      OBVIOUS
    <3> QED
      BY <3>1, <3>2, <3>3, <3>4
  <2>2. {} \in D /\ q.i + 1 \in Nat \ {0}
    BY <1>3
  <2> HIDE DEF D
  <2> QED
    BY <1>1, <2>1, <2>2
<1>5. ASSUME NEW g \in Keys \cup {"word"}, NEW x, x = [q EXCEPT !.done = @ \cup {g}]
      PROVE  x \in QP /\ x.f = f /\ x.i = q.i
  BY <1>1, <1>3, <1>5
<1> HIDE DEF QP
<1> QED
  BY <1>1, <1>2, <1>3, <1>4, <1>5 DEF q

LEMMA WriteListTypes ==
    ASSUME TypeOK, Writing, NEW f \in {"rules", "banned"}, f \in DOMAIN todo, WriteList(f),
           UNCHANGED watcherOnly
    PROVE  TypeOK' /\ Writing' /\ UNCHANGED loops /\ \E p \in Policies : Change(p)
<1> DEFINE p == policy[SectionOf(f)]
           q == Pen(f)
           n == Len(todo[f])
<1>0. /\ q.f = f /\ p # None /\ f \in Fields /\ Document(todo)
  BY DEF WriteList, Fields, TypeOK
<1>1. p \in Sections(f) /\ Len(p.list) \in Nat /\ DOMAIN p.list = 1 .. Len(p.list)
  <2>1. p \in Sections(f)
    BY <1>0, SectionTypes
  <2> HIDE DEF p
  <2>2. p.list \in Seq(Elements(f))
    BY <1>0, <2>1, ListTypes
  <2> QED
    BY <2>1, <2>2
<1>2. n \in Nat
  BY <1>0 DEF Document
<1>3. /\ q \in Pens /\ q.i \in Nat \ {0} /\ (pen # None => q = pen) /\ (pen = None => q.i = 1)
      /\ NextElement(q) \in Pens /\ NextElement(q).f = f /\ NextElement(q).i = q.i + 1
  BY <1>0, PenTypes
<1>4. q.i <= Len(p.list) + 1
  BY <1>0, <1>1, <1>3 DEF Writing
<1>5. CASE q.i > n /\ Rewrite(f, Cut(p, n)) /\ Done(f)
  <2>1. n \in 0 .. Len(p.list)
    BY <1>1, <1>2, <1>3, <1>4, <1>5
  <2>2. Cut(p, n) \in Sections(f)
    BY <1>0, <1>1, <2>1, CutType
  <2>3. Document(todo)' /\ pen' \in Pens /\ pen' = None
    BY <1>5, DoneTypes
  <2>4. TypeOK' /\ UNCHANGED loops /\ \E r \in Policies : Change(r)
    BY <1>0, <1>5, <2>2, <2>3, RewriteTypes
  <2> QED
    BY <2>3, <2>4 DEF Writing
<1>6. ASSUME NEW new \in Sections(f), Rewrite(f, new), UNCHANGED todo, pen' \in Pens, pen'.f = f,
             pen'.i <= Len(new.list) + 1
      PROVE  TypeOK' /\ Writing' /\ UNCHANGED loops /\ \E r \in Policies : Change(r)
  <2>1. Document(todo)'
    BY <1>0, <1>6 DEF Document
  <2>2. /\ TypeOK' /\ UNCHANGED loops /\ \E r \in Policies : Change(r)
        /\ policy'[SectionOf(f)] = new
    BY <1>0, <1>6, <2>1, RewriteTypes
  <2> QED
    BY <1>6, <2>2 DEF Writing
<1>7. CASE q.i <= n /\ q.i > Len(p.list) /\ Rewrite(f, Grown(f, p)) /\ pen' = q /\ UNCHANGED todo
  <2>1. Grown(f, p) \in Sections(f) /\ Len(Grown(f, p).list) = Len(p.list) + 1
    BY <1>0, <1>1, GrownType
  <2>2. pen' \in Pens /\ pen'.f = f /\ pen'.i <= Len(Grown(f, p).list) + 1
    BY <1>0, <1>1, <1>3, <1>4, <1>7, <2>1
  <2> QED
    BY <1>6, <1>7, <2>1, <2>2
<1>8. CASE /\ q.i <= n /\ q.i <= Len(p.list) /\ UNCHANGED todo
           /\ \E g \in KeysOf(f, q.i) \ q.done :
                 /\ Rewrite(f, Put(f, p, q.i, g))
                 /\ pen' = IF KeysOf(f, q.i) \subseteq q.done \cup {g} THEN NextElement(q)
                           ELSE [q EXCEPT !.done = @ \cup {g}]
  <2>1. PICK g \in KeysOf(f, q.i) :
           /\ Rewrite(f, Put(f, p, q.i, g))
           /\ pen' = NextElement(q) \/ pen' = [q EXCEPT !.done = @ \cup {g}]
    BY <1>8
  <2>2. q.i \in DOMAIN p.list
    BY <1>1, <1>3, <1>8
  <2>3. /\ Put(f, p, q.i, g) \in Sections(f) /\ g \in Keys \cup {"word"}
        /\ Len(Put(f, p, q.i, g).list) = Len(p.list)
    BY <1>1, <1>8, <2>2, PutType
  <2>4. pen' \in Pens /\ pen'.f = f /\ pen'.i \in {q.i, q.i + 1}
    <3>1. LET x == [q EXCEPT !.done = @ \cup {g}] IN x \in Pens /\ x.f = f /\ x.i = q.i
      BY <1>0, <2>3, PenTypes
    <3> QED
      BY <1>3, <2>1, <3>1
  <2>5. pen'.i <= Len(Put(f, p, q.i, g).list) + 1
    BY <1>1, <1>3, <1>8, <2>3, <2>4
  <2> QED
    BY <1>6, <1>8, <2>1, <2>3, <2>4, <2>5
<1> QED
  BY <1>5, <1>7, <1>8 DEF WriteList

LEMMA UnmarshalTypes ==
    ASSUME TypeOK, Writing, NEW f, Unmarshal(f)
    PROVE  /\ TypeOK' /\ Writing' /\ UNCHANGED loops
           /\ \E p \in Policies : Change(p)
<1>0. f \in DOMAIN todo /\ f \in Fields /\ Document(todo) /\ UNCHANGED watcherOnly
  BY DEF Unmarshal, TypeOK, Document
<1>1. CASE MakeSection(f)
  <2>1. /\ pen = None /\ Rewrite(f, Blank[SectionOf(f)]) /\ UNCHANGED <<todo, pen>>
        /\ Document(todo)' /\ pen' \in Pens
    BY <1>0, <1>1 DEF MakeSection, TypeOK, Document
  <2>2. TypeOK' /\ UNCHANGED loops /\ \E p \in Policies : Change(p)
    BY <1>0, <2>1, BlankType, RewriteTypes
  <2> QED
    BY <2>1, <2>2 DEF Writing
<1>2. CASE f = "block" /\ WriteBlock
  <2> DEFINE new == [policy.request EXCEPT !.block = todo["block"]]
  <2>1. /\ policy.request # None /\ Rewrite("block", new) /\ Done("block")
    BY <1>2 DEF WriteBlock
  <2>2. policy[SectionOf(f)] \in Sections(f) /\ todo["block"] \in BOOLEAN
    BY <1>0, <1>2, <2>1, SectionTypes DEF Document, SectionOf
  <2>3. policy.request \in RequestSections /\ Sections(f) = RequestSections
    BY <1>2, <2>2 DEF SectionOf, Sections
  <2>4. new \in Sections(f)
    BY <2>2, <2>3 DEF RequestSections
  <2> HIDE DEF new
  <2>5. Document(todo)' /\ pen' \in Pens /\ pen' = None
    BY <2>1, DoneTypes
  <2>6. TypeOK' /\ UNCHANGED loops /\ \E p \in Policies : Change(p)
    BY <1>0, <1>2, <2>1, <2>4, <2>5, RewriteTypes
  <2> QED
    BY <2>5, <2>6 DEF Writing
<1>3. CASE f # "block" /\ WriteList(f)
  BY <1>0, <1>3, WriteListTypes DEF Fields
<1> QED
  BY <1>1, <1>2, <1>3 DEF Unmarshal

-----------------------------------------------------------------------------
(* Every variable has its type, after any step *)

LEMMA InitTypes == ASSUME Init PROVE TypeOK /\ Writing
<1>1. /\ [sent |-> 0, last |-> "chat", got |-> <<>>, open |-> TRUE] \in Apps
      /\ 0 \in 0 .. MaxEdits /\ 0 \in 0 .. MaxFaults
  BY AIAssumption DEF Apps, Bodies
<1>2. /\ Nothing \in RequestStates /\ Nothing \in ResponseStates /\ Nothing.at = "read"
      /\ [request |-> {}, response |-> {}] \in
            [request : SUBSET RequestPolicies, response : SUBSET ResponsePolicies]
  BY DEF Nothing, RequestStates, ResponseStates, Idle
<1>3. policy \in [request : RequestPolicies, response : ResponsePolicies]
  BY NoPolicy DEF Init
<1>4. Document(todo)
  BY DEF Init, Document
<1>5. /\ app \in [Conns -> Apps] /\ srv \in [Conns -> BOOLEAN]
      /\ ingress \in [Conns -> Seq(Requests)] /\ egress \in [Conns -> Seq(Requests)]
      /\ replies \in [Conns -> Seq(Answers)]
      /\ asked \in [Conns -> Seq(Ids)] /\ refused \in [Conns -> Seq(Ids)]
  BY <1>1 DEF Init
<1>6. /\ req \in [Conns -> RequestStates] /\ resp \in [Conns -> ResponseStates]
      /\ \A k \in Conns : req[k] = Nothing /\ resp[k] = Nothing
  BY <1>2 DEF Init
<1>7. /\ seen \in [Conns -> [request : SUBSET RequestPolicies, response : SUBSET ResponsePolicies]]
      /\ \A k \in Conns : seen[k].request = {} /\ seen[k].response = {}
  BY <1>2 DEF Init
<1>8. /\ dead \in BOOLEAN /\ cm \in Docs \cup {None}
      /\ watch \in {"starting", "up", "lost", "off"}
      /\ edits \in 0 .. MaxEdits /\ faults \in 0 .. MaxFaults
      /\ pen \in Pens /\ pen = None
  BY <1>1 DEF Init, Pens
<1>9. events \in Seq(Events)
  BY DEF Init
<1> QED
  BY <1>2, <1>3, <1>4, <1>5, <1>6, <1>7, <1>8, <1>9 DEF TypeOK, Events, Writing

LEMMA StutterTypes == ASSUME TypeOK, UNCHANGED vars PROVE TypeOK'
<1>1. Document(todo)'
  BY DEF TypeOK, Document, vars, watchVars
<1> QED
  BY <1>1 DEF TypeOK, vars, pipes, watchVars, bounds, history

\* Only the watcher moves the pen, and only it and an event change what it writes in.
LEMMA PenStays == ASSUME Writing, UNCHANGED <<policy, todo, pen>> PROVE Writing'
BY DEF Writing

LEMMA NextWriting == ASSUME TypeOK, Writing, [Next]_vars PROVE Writing'
<1>1. ASSUME NEW k \in Conns, Send(k) \/ AppClose(k) \/ Reply(k) \/ ServerClose(k) PROVE Writing'
  BY <1>1, PenStays DEF Send, AppClose, Reply, ServerClose, watchVars
<1>2. ASSUME NEW k \in Conns, RequestLoop(k) PROVE Writing'
  BY <1>2, PenStays DEF RequestLoop, ReqRead, ReqJudge, ReqBlock, ReqRefuse, ReqCount, ReqMatch,
     ReqRename, ReqWrite, watchVars
<1>3. ASSUME NEW k \in Conns, ResponseLoop(k) PROVE Writing'
  BY <1>3, PenStays DEF ResponseLoop, RespRead, RespFilter, RespWord, RespWrite, watchVars
<1>4. ASSUME NEW d \in Docs, Edit(d) PROVE Writing'
  BY <1>4, PenStays DEF Edit
<1>5. CASE DeleteMap \/ LoseWatch \/ StartWatch \/ Rewatch
  BY <1>5, PenStays DEF DeleteMap, LoseWatch, StartWatch, Rewatch
<1>6. CASE TakeEvent
  <2>1. UNCHANGED pen /\ todo = <<>>
    BY <1>6, TakeEventTypes
  <2>2. DOMAIN todo = {}
    BY <2>1
  <2> QED
    BY <2>1, <2>2 DEF Writing
<1>7. ASSUME NEW f, Unmarshal(f) PROVE Writing'
  BY <1>7, UnmarshalTypes
<1>8. CASE UNCHANGED vars
  BY <1>8, PenStays DEF vars, watchVars
<1> QED
  BY <1>1, <1>2, <1>3, <1>4, <1>5, <1>6, <1>7, <1>8 DEF Next, Watcher

LEMMA NextTypes == ASSUME TypeOK, Writing, [Next]_vars PROVE TypeOK'
<1>1. ASSUME NEW k \in Conns, Send(k) \/ AppClose(k) \/ Reply(k) \/ ServerClose(k) PROVE TypeOK'
  BY <1>1, SendTypes, AppCloseTypes, ReplyTypes, ServerCloseTypes
<1>2. ASSUME NEW k \in Conns, RequestLoop(k) PROVE TypeOK'
  BY <1>2, ReqReadTypes, ReqLookTypes, ReqRefuseTypes, ReqWriteTypes DEF RequestLoop, ReqLook
<1>3. ASSUME NEW k \in Conns, ResponseLoop(k) PROVE TypeOK'
  BY <1>3, RespReadTypes, RespLookTypes, RespWriteTypes DEF ResponseLoop, RespLook
<1>4. ASSUME Watcher PROVE TypeOK'
  BY <1>4, StartWatchTypes, RewatchTypes, TakeEventTypes, UnmarshalTypes DEF Watcher
<1>5. CASE UNCHANGED vars
  BY <1>5, StutterTypes
<1> QED
  BY <1>1, <1>2, <1>3, <1>4, <1>5, EditTypes, DeleteMapTypes, LoseWatchTypes DEF Next

LEMMA TypesAlways == Spec => [](TypeOK /\ Writing)
<1>1. Init => TypeOK /\ Writing
  BY InitTypes
<1>2. TypeOK /\ Writing /\ [Next]_vars => (TypeOK /\ Writing)'
  BY NextTypes, NextWriting
<1> QED
  BY <1>1, <1>2, PTL DEF Spec

\* Every variable has its type in every reachable state, whatever the numbers of
\* connections, requests, edits and faults, and whatever documents users write.
THEOREM AITypeCorrect == Spec => []TypeOK
BY TypesAlways, PTL

-----------------------------------------------------------------------------
(* What the rules make of a model's name *)

LEMMA AfterRules ==
    ASSUME NEW m, NEW rules \in Seq(Rules)
    PROVE  /\ After(m, rules)[0] = m
           /\ \A n \in 1 .. Len(rules) : After(m, rules)[n] = Applied(After(m, rules)[n - 1], rules[n])
<1> DEFINE Is(f, n) == f = [i \in 0 .. n |-> IF i = 0 THEN m ELSE Applied(f[i - 1], rules[i])]
           N == Len(rules)
           T == {n \in 0 .. N : \E f : Is(f, n)}
<1>1. N \in Nat
  OBVIOUS
<1>2. 0 \in T
  <2> DEFINE f == [i \in 0 .. 0 |-> m]
  <2>1. f = [i \in 0 .. 0 |-> IF i = 0 THEN m ELSE Applied(f[i - 1], rules[i])]
    OBVIOUS
  <2>2. Is(f, 0) /\ 0 \in 0 .. N
    BY <1>1, <2>1
  <2> QED
    BY <2>2
<1>3. ASSUME NEW n \in T, n < N PROVE n + 1 \in T
  <2>1. PICK f : Is(f, n)
    OBVIOUS
  <2> DEFINE g == [i \in 0 .. n + 1 |-> IF i = n + 1 THEN Applied(f[n], rules[n + 1]) ELSE f[i]]
  <2>2. n \in Nat /\ n + 1 \in 0 .. N
    BY <1>1, <1>3
  <2>3. ASSUME NEW i \in 0 .. n + 1
        PROVE  g[i] = IF i = 0 THEN m ELSE Applied(g[i - 1], rules[i])
    <3>1. CASE i = n + 1
      <4>1. i - 1 = n /\ n \in 0 .. n + 1 /\ n # n + 1 /\ i # 0
        BY <2>2, <3>1
      <4>2. g[n] = f[n]
        BY <4>1
      <4> QED
        BY <3>1, <4>1, <4>2
    <3>2. CASE i # n + 1
      <4>1. i \in 0 .. n /\ g[i] = f[i]
        BY <2>2, <3>2
      <4>2. f[i] = IF i = 0 THEN m ELSE Applied(f[i - 1], rules[i])
        BY <2>1, <4>1
      <4>3. i # 0 => g[i - 1] = f[i - 1]
        BY <2>2, <4>1
      <4> QED
        BY <4>1, <4>2, <4>3
    <3> QED
      BY <3>1, <3>2
  <2>4. Is(g, n + 1)
    BY <2>3
  <2> QED
    BY <2>2, <2>4
<1>4. N \in T
  <2>1. T \in SUBSET (0 .. N)
    OBVIOUS
  <2> HIDE DEF T, N
  <2> QED
    BY <1>1, <1>2, <1>3, <2>1, CountUp
<1>5. PICK f : f = [n \in 0 .. Len(rules) |-> IF n = 0 THEN m ELSE Applied(f[n - 1], rules[n])]
  BY <1>4
<1>6. After(m, rules) = [n \in 0 .. Len(rules) |->
           IF n = 0 THEN m ELSE Applied(After(m, rules)[n - 1], rules[n])]
  BY <1>5 DEF After
<1>7. ASSUME NEW n \in 0 .. Len(rules)
      PROVE  After(m, rules)[n] = IF n = 0 THEN m ELSE Applied(After(m, rules)[n - 1], rules[n])
  <2> DEFINE h == After(m, rules)
  <2>1. h = [i \in 0 .. Len(rules) |-> IF i = 0 THEN m ELSE Applied(h[i - 1], rules[i])]
    BY <1>6
  <2> HIDE DEF h
  <2>2. h[n] = IF n = 0 THEN m ELSE Applied(h[n - 1], rules[n])
    BY <2>1
  <2> QED
    BY <2>2 DEF h
<1> QED
  BY <1>1, <1>7

-----------------------------------------------------------------------------
(* The policies that a loop has seen, and what it makes of a request or an *)
(* answer.  A request comes to the gateway under its own name; half-way    *)
(* through the rules it has a name that one of the policies seen gave it,  *)
(* and if the policy has been the same since the read, the name that the   *)
(* rules so far make of its own.  An answer half-way through the words is  *)
(* blocked if a place behind the loop is one where all the policies seen   *)
(* ban it, and only if one of them does.                                   *)

May(P) == \E p \in P : p = None \/ ~p.block
Named(r, P) ==
    r.model # r.orig => \E p \in P \ {None} : \E n \in DOMAIN p.list : p.list[n].new = r.model

Rewritable(s, P) ==
    /\ May(P) /\ Named(s.r, P)
    /\ \A p \in P \ {None} :
          P = {p} => /\ s.n = Len(p.list) /\ s.i <= s.n + 1
                     /\ s.r.model = After(s.r.orig, p.list)[s.i - 1]

\* The rule that was compared is the one that comes next.
Renamable(s, P) == \A p \in P \ {None} : P = {p} => s.r.model = p.list[s.i].orig

Writable(r, P) ==
    /\ May(P) /\ Named(r, P)
    /\ \A p \in P \ {None} : P = {p} /\ r.body = "chat" => r.model = Rewritten(r.orig, p.list)

RequestForce(s, P) ==
    /\ s.at \in {"judge", "block", "count"} => s.r.model = s.r.orig
    /\ s.at = "count" => May(P)
    /\ s.at \in {"match", "rename"} => Rewritable(s, P)
    /\ s.at = "rename" => Renamable(s, P)
    /\ s.at = "write" => Writable(s.r, P)
    /\ s.at = "refuse" => \E p \in P \ {None} : p.block

\* The loop has looked at word y of choice x.
Behind(s, x, y) == s.at = "write" \/ x < s.x \/ (s.at = "word" /\ x = s.x /\ y < s.y)

Looked(s, P) ==
    \A x \in DOMAIN s.a.choices, y \in Nat \ {0} :
        Behind(s, x, y) /\ AllBan(P, y, s.a.choices[x]) => s.block

ResponseForce(s, P) ==
    s.at \in AnsweringAt =>
        /\ P # {}
        /\ s.block => SomeBans(P, s.a.choices)
        /\ s.a.body = "chat" => Looked(s, P)
        /\ s.at \in {"filter", "word"} => InChoice(s.a, s.x)
        /\ s.at = "word" => s.a.body = "chat" /\ \E p \in P \ {None} : s.n = Len(p.list)

PolicySeen(k) ==
    /\ seen[k].request # {} => policy.request \in seen[k].request
    /\ seen[k].response # {} => policy.response \in seen[k].response

OwnName(k) == \A n \in DOMAIN ingress[k] : ingress[k][n].model = ingress[k][n].orig

ForceInv(k) ==
    /\ PolicySeen(k) /\ OwnName(k)
    /\ RequestForce(req[k], seen[k].request)
    /\ ResponseForce(resp[k], seen[k].response)

\* A policy more takes nothing away.
LEMMA SeeingMore ==
    ASSUME NEW P, P # {}, NEW q
    PROVE  /\ \A s : RequestForce(s, P) => RequestForce(s, P \cup {q})
           /\ \A s : ResponseForce(s, P) => ResponseForce(s, P \cup {q})
<1>1. May(P) => May(P \cup {q})
  BY DEF May
<1>2. \A r : Named(r, P) => Named(r, P \cup {q})
  BY DEF Named
<1>3. \A p : P \cup {q} = {p} => P = {p}
  OBVIOUS
<1>4. \A s : Rewritable(s, P) => Rewritable(s, P \cup {q})
  BY <1>1, <1>2, <1>3 DEF Rewritable
<1>9. \A s : Renamable(s, P) => Renamable(s, P \cup {q})
  BY <1>3 DEF Renamable
<1>5. \A r : Writable(r, P) => Writable(r, P \cup {q})
  BY <1>1, <1>2, <1>3 DEF Writable
<1>6. (\E p \in P \ {None} : p.block) => (\E p \in (P \cup {q}) \ {None} : p.block)
  OBVIOUS
<1>7. \A s : RequestForce(s, P) => RequestForce(s, P \cup {q})
  BY <1>1, <1>4, <1>5, <1>6, <1>9 DEF RequestForce
<1>8. ASSUME NEW s, ResponseForce(s, P) PROVE ResponseForce(s, P \cup {q})
  <2>1. SomeBans(P, s.a.choices) => SomeBans(P \cup {q}, s.a.choices)
    BY DEF SomeBans
  <2>2. \A y, c : AllBan(P \cup {q}, y, c) => AllBan(P, y, c)
    BY DEF AllBan
  <2>3. Looked(s, P) => Looked(s, P \cup {q})
    BY <2>2 DEF Looked
  <2>4. (\E p \in P \ {None} : s.n = Len(p.list))
            => \E p \in (P \cup {q}) \ {None} : s.n = Len(p.list)
    OBVIOUS
  <2> QED
    BY <1>8, <2>1, <2>3, <2>4 DEF ResponseForce
<1> QED
  BY <1>7, <1>8

\* A loop that holds nothing is bound to nothing.
LEMMA RestingForce == ASSUME NEW s, s.at \in Resting, NEW P PROVE RequestForce(s, P)
BY DEF RequestForce, Resting

\* A change of the policy under the loops' hands.
LEMMA ChangeForce ==
    ASSUME TypeOK, NEW p \in [request : RequestPolicies, response : ResponsePolicies], Change(p),
           UNCHANGED loops, NEW k \in Conns, ForceInv(k)
    PROVE  ForceInv(k)'
<1>1. /\ policy' = p /\ req' = req /\ resp' = resp /\ ingress' = ingress
      /\ seen'[k].request = Seeing(seen[k].request, p.request)
      /\ seen'[k].response = Seeing(seen[k].response, p.response)
  BY ChangeTypes DEF loops, pipes
<1>2. PolicySeen(k)'
  BY <1>1 DEF PolicySeen, Seeing
<1>3. OwnName(k)'
  BY <1>1 DEF ForceInv, OwnName
<1>4. RequestForce(req[k], Seeing(seen[k].request, p.request))
  <2>1. CASE seen[k].request = {}
    BY <2>1 DEF Seeing, ForceInv
  <2>2. CASE seen[k].request # {}
    BY <2>2, SeeingMore DEF Seeing, ForceInv
  <2> QED
    BY <2>1, <2>2
<1>5. ResponseForce(resp[k], Seeing(seen[k].response, p.response))
  <2>1. CASE seen[k].response = {}
    BY <2>1 DEF Seeing, ForceInv
  <2>2. CASE seen[k].response # {}
    BY <2>2, SeeingMore DEF Seeing, ForceInv
  <2> QED
    BY <2>1, <2>2
<1> QED
  BY <1>1, <1>2, <1>3, <1>4, <1>5 DEF ForceInv

\* What no step of the loop changes.
LEMMA ForceStays ==
    ASSUME NEW k, ForceInv(k), ingress'[k] = ingress[k], req'[k] = req[k], resp'[k] = resp[k],
           seen'[k].request = seen[k].request, seen'[k].response = seen[k].response, UNCHANGED policy
    PROVE  ForceInv(k)'
BY DEF ForceInv, PolicySeen, OwnName

LEMMA SendForce ==
    ASSUME TypeOK, NEW k \in Conns, Send(k), NEW c \in Conns, ForceInv(c)
    PROVE  ForceInv(c)'
<1>1. UNCHANGED <<req, resp, seen, policy>>
  BY DEF Send, history
<1>2. CASE c # k
  <2>1. ingress'[c] = ingress[c]
    BY <1>2, SendTypes
  <2> QED
    BY <1>1, <2>1, ForceStays
<1>3. CASE c = k
  <2>1. PICK r \in Requests : r.model = r.orig /\ ingress'[k] = Append(ingress[k], r)
    BY SendTypes
  <2>2. ingress[k] \in Seq(Requests)
    BY Numbers
  <2>3. OwnName(k)'
    BY <1>3, <2>1, <2>2, AppendOne DEF ForceInv, OwnName
  <2> QED
    BY <1>1, <1>3, <2>3 DEF ForceInv, PolicySeen
<1> QED
  BY <1>2, <1>3

LEMMA OthersForce ==
    ASSUME NEW k \in Conns, LoopOf(k), UNCHANGED <<resp, policy>>, NEW c \in Conns, c # k,
           ingress'[c] = ingress[c], ForceInv(c)
    PROVE  ForceInv(c)'
BY ForceStays DEF LoopOf

\* It is enough to look at the loop's own request.
LEMMA OwnForce ==
    ASSUME NEW k \in Conns, LoopOf(k), UNCHANGED <<resp, policy>>, ForceInv(k), OwnName(k)',
           RequestForce(req'[k], seen'[k].request),
           seen'[k].request # {} => policy.request \in seen'[k].request
    PROVE  ForceInv(k)'
BY DEF ForceInv, LoopOf, PolicySeen

LEMMA ReqReadForce ==
    ASSUME TypeOK, NEW k \in Conns, ReqRead(k), NEW c \in Conns, ForceInv(c)
    PROVE  ForceInv(c)'
<1>1. LoopOf(k) /\ UNCHANGED <<resp, policy>> /\ ingress[k] \in Seq(Requests)
  BY ReqReadTypes, Numbers DEF ReqRead
<1>2. CASE c # k
  BY <1>1, <1>2, ReqReadTypes, OthersForce
<1>3. CASE c = k
  <2>1. CASE /\ \E n \in 1 .. Len(ingress[k]) :
                  ingress'[k] = SubSeq(ingress[k], n + 1, Len(ingress[k]))
             /\ ingress[k] # <<>> /\ req'[k].r = ingress[k][1]
             /\ req'[k].at = IF policy.request = None THEN "write" ELSE "judge"
             /\ seen'[k].request = {policy.request}
    <3>1. OwnName(k)'
      <4>1. PICK n \in 1 .. Len(ingress[k]) :
              ingress'[k] = SubSeq(ingress[k], n + 1, Len(ingress[k]))
        BY <2>1
      <4>2. /\ DOMAIN ingress'[k] = 1 .. Len(ingress[k]) - n
            /\ \A i \in 1 .. Len(ingress[k]) - n : ingress'[k][i] = ingress[k][i + n]
                                                   /\ i + n \in DOMAIN ingress[k]
        BY <1>1, <4>1, Rest
      <4> QED
        BY <1>3, <4>2 DEF ForceInv, OwnName
    <3>2. req'[k].r.model = req'[k].r.orig
      <4>1. 1 \in DOMAIN ingress[k]
        BY <1>1, <2>1
      <4> QED
        BY <1>3, <2>1, <4>1 DEF ForceInv, OwnName
    <3>3. RequestForce(req'[k], {policy.request})
      <4>1. CASE policy.request = None
        <5>1. Writable(req'[k].r, {None})
          BY <3>2 DEF Writable, May, Named
        <5> QED
          BY <2>1, <4>1, <5>1 DEF RequestForce
      <4>2. CASE policy.request # None
        BY <2>1, <3>2, <4>2 DEF RequestForce
      <4> QED
        BY <4>1, <4>2
    <3> QED
      BY <1>1, <1>3, <2>1, <3>1, <3>3, OwnForce
  <2>2. CASE ingress' = ingress /\ req'[k].at \in {"spin", "done"} /\ req'[k] \in RequestStates
    <3>1. RequestForce(req'[k], seen'[k].request)
      BY <2>2, RestingForce DEF Resting
    <3>2. TypeOK'
      BY ReqReadTypes
    <3>3. seen'[k].request = {}
      BY <2>2, <3>2 DEF TypeOK
    <3>4. OwnName(k)'
      BY <1>3, <2>2 DEF ForceInv, OwnName
    <3> QED
      BY <1>1, <1>3, <3>1, <3>3, <3>4, OwnForce
  <2> QED
    BY <2>1, <2>2, ReqReadTypes
<1> QED
  BY <1>2, <1>3

\* What the loop looks at is among what it has seen.
LEMMA LookSees ==
    ASSUME TypeOK, NEW k \in Conns, ForceInv(k), req[k].at \notin Resting
    PROVE  /\ policy.request \in seen[k].request /\ seen[k].request \subseteq RequestPolicies
           /\ RequestForce(req[k], seen[k].request)
<1>1. seen[k].request # {} /\ seen[k].request \subseteq RequestPolicies
  BY Fits DEF SeenFits, SeenType
<1> QED
  BY <1>1 DEF ForceInv, PolicySeen

\* A look at the policy is a panic, or the end of the request, or does what it should.
LEMMA LookForce ==
    ASSUME TypeOK, NEW k \in Conns, ReqLook(k), NEW c \in Conns, ForceInv(c),
           c = k /\ ~dead' /\ seen' = seen /\ req'[k].at \notin Resting
               => RequestForce(req'[k], seen[k].request)
    PROVE  ForceInv(c)'
<1>1. /\ LoopOf(k) /\ UNCHANGED <<resp, policy, ingress>> /\ req[k].at \notin Resting
      /\ \/ dead' /\ req' = req /\ seen' = seen
         \/ ~dead' /\ req'[k] = Nothing /\ seen'[k].request = {}
         \/ ~dead' /\ seen' = seen /\ req'[k].at \notin Resting
  BY ReqLookTypes DEF pipes, Resting
<1>2. CASE c # k
  BY <1>1, <1>2, OthersForce
<1>3. CASE c = k
  <2>1. OwnName(k)'
    BY <1>1, <1>3 DEF ForceInv, OwnName
  <2>2. CASE req' = req /\ seen' = seen
    BY <1>1, <1>3, <2>2, ForceStays
  <2>3. CASE req'[k] = Nothing /\ seen'[k].request = {}
    <3>1. RequestForce(req'[k], seen'[k].request)
      BY <2>3, RestingForce DEF Resting, Nothing
    <3> QED
      BY <1>1, <1>3, <2>1, <2>3, <3>1, OwnForce
  <2>4. CASE ~dead' /\ seen' = seen /\ req'[k].at \notin Resting
    BY <1>1, <1>3, <2>1, <2>4, LookSees, OwnForce
  <2> QED
    BY <1>1, <2>2, <2>3, <2>4
<1> QED
  BY <1>2, <1>3

LEMMA ReqJudgeForce ==
    ASSUME TypeOK, NEW k \in Conns, ReqJudge(k), NEW c \in Conns, ForceInv(c)
    PROVE  ForceInv(c)'
<1>1. ASSUME c = k, ~dead', seen' = seen, req'[k].at \notin Resting
      PROVE  RequestForce(req'[k], seen[k].request)
  <2>1. req[k].at = "judge" /\ req'[k] = [at |-> "block", r |-> req[k].r]
    BY <1>1, ReqJudgeTypes DEF Resting, Nothing
  <2>2. req[k].r.model = req[k].r.orig
    BY <1>1, <2>1, LookSees DEF RequestForce, Resting
  <2> QED
    BY <2>1, <2>2 DEF RequestForce
<1> QED
  BY <1>1, LookForce DEF ReqLook

LEMMA ReqBlockForce ==
    ASSUME TypeOK, NEW k \in Conns, ReqBlock(k), NEW c \in Conns, ForceInv(c)
    PROVE  ForceInv(c)'
<1>1. ASSUME c = k, ~dead' PROVE RequestForce(req'[k], seen[k].request)
  <2>1. /\ req[k].at = "block" /\ policy.request # None /\ req'[k].r = req[k].r
        /\ \/ req'[k].at = "refuse" /\ policy.request.block
           \/ req'[k].at = "count" /\ ~policy.request.block
    BY <1>1, ReqBlockTypes
  <2>2. req[k].r.model = req[k].r.orig /\ policy.request \in seen[k].request
    BY <1>1, <2>1, LookSees DEF RequestForce, Resting
  <2> QED
    BY <2>1, <2>2 DEF RequestForce, May
<1> QED
  BY <1>1, LookForce DEF ReqLook

LEMMA ReqCountForce ==
    ASSUME TypeOK, NEW k \in Conns, ReqCount(k), NEW c \in Conns, ForceInv(c)
    PROVE  ForceInv(c)'
<1>1. ASSUME c = k, ~dead' PROVE RequestForce(req'[k], seen[k].request)
  <2> DEFINE p == policy.request
             r == req[k].r
             P == seen[k].request
  <2>1. /\ req[k].at = "count" /\ p # None /\ req'[k].at = "match" /\ req'[k].r = r
        /\ req'[k].i = 1 /\ req'[k].n = Len(p.list)
    BY <1>1, ReqCountTypes
  <2>2. r.model = r.orig /\ p \in P /\ May(P)
    BY <1>1, <2>1, LookSees DEF RequestForce, Resting
  <2>3. p.list \in Seq(Rules) /\ r \in Requests /\ Len(p.list) \in Nat
    BY <2>1, RequestSection, RequestState DEF TypeOK, Resting
  <2>4. After(r.orig, p.list)[0] = r.orig
    BY <2>3, AfterRules
  <2>5. Rewritable(req'[k], P)
    <3>1. Named(r, P)
      BY <2>2 DEF Named
    <3>2. 1 <= Len(p.list) + 1 /\ 1 - 1 = 0
      BY <2>3
    <3>3. ASSUME NEW q \in P \ {None}, P = {q} PROVE q = p
      BY <2>2, <3>3
    <3> HIDE DEF p, r, P
    <3> QED
      BY <2>1, <2>2, <2>4, <3>1, <3>2, <3>3 DEF Rewritable
  <2> QED
    BY <2>1, <2>5 DEF RequestForce
<1> QED
  BY <1>1, LookForce DEF ReqLook

LEMMA ReqRefuseForce ==
    ASSUME TypeOK, NEW k \in Conns, ReqRefuse(k), NEW c \in Conns, ForceInv(c)
    PROVE  ForceInv(c)'
<1>1. LoopOf(k) /\ UNCHANGED <<resp, policy, ingress>>
  BY ReqRefuseTypes DEF ReqRefuse, pipes
<1>2. CASE c # k
  BY <1>1, <1>2, OthersForce
<1>3. CASE c = k /\ req' = req /\ seen' = seen
  BY <1>1, <1>3, ForceStays
<1>4. CASE c = k /\ req'[k] = Nothing /\ seen'[k].request = {}
  <2>1. OwnName(k)'
    BY <1>1, <1>4 DEF ForceInv, OwnName
  <2>2. RequestForce(req'[k], seen'[k].request)
    BY <1>4, RestingForce DEF Resting, Nothing
  <2> QED
    BY <1>1, <1>4, <2>1, <2>2, OwnForce
<1> QED
  BY <1>2, <1>3, <1>4, ReqRefuseTypes

LEMMA ReqWriteForce ==
    ASSUME TypeOK, NEW k \in Conns, ReqWrite(k), NEW c \in Conns, ForceInv(c)
    PROVE  ForceInv(c)'
<1>1. LoopOf(k) /\ UNCHANGED <<resp, policy, ingress>> /\ seen'[k].request = {}
      /\ req'[k].at \in {"read", "done"}
  BY ReqWriteTypes DEF ReqWrite
<1>2. CASE c # k
  BY <1>1, <1>2, OthersForce
<1>3. CASE c = k
  <2>1. OwnName(k)'
    BY <1>1, <1>3 DEF ForceInv, OwnName
  <2>2. RequestForce(req'[k], seen'[k].request)
    BY <1>1, RestingForce DEF Resting
  <2> QED
    BY <1>1, <1>3, <2>1, <2>2, OwnForce
<1> QED
  BY <1>2, <1>3

\* The name that the next rule makes: its own, or the one there was.
LEMMA NextRule ==
    ASSUME NEW P, NEW p \in P \ {None}, p \in RequestPolicies,
           NEW s \in Rewriting, Rewritable(s, P), s.i \in DOMAIN p.list,
           P = {p} => s.i <= s.n,
           NEW t, t.n = s.n, t.i = s.i + 1, t.r.orig = s.r.orig,
           \/ t.r.model = s.r.model /\ (P = {p} => s.r.model # p.list[s.i].orig)
           \/ t.r.model = p.list[s.i].new /\ (P = {p} => s.r.model = p.list[s.i].orig)
    PROVE  Rewritable(t, P)
<1>0. /\ p.list \in Seq(Rules) /\ s.r \in Requests /\ s.i \in Nat \ {0} /\ s.n \in Nat
      /\ p.list[s.i] \in Rules
  BY DEF RequestPolicies, Rewriting
<1>1. Named(t.r, P)
  <2>1. CASE t.r.model = s.r.model
    BY <2>1 DEF Rewritable, Named
  <2>2. CASE t.r.model = p.list[s.i].new
    BY <2>2 DEF Named
  <2> QED
    BY <2>1, <2>2
<1>2. ASSUME NEW q \in P \ {None}, P = {q}
      PROVE  /\ t.n = Len(q.list) /\ t.i <= t.n + 1
             /\ t.r.model = After(t.r.orig, q.list)[t.i - 1]
  <2>1. q = p
    BY <1>2
  <2>2. s.n = Len(p.list) /\ s.r.model = After(s.r.orig, p.list)[s.i - 1]
    BY <1>2, <2>1 DEF Rewritable
  <2>3. s.r.orig \in Models /\ s.i \in 1 .. Len(p.list)
    BY <1>0, <2>2 DEF Requests
  <2>4. After(s.r.orig, p.list)[s.i] = Applied(After(s.r.orig, p.list)[s.i - 1], p.list[s.i])
    BY <1>0, <2>3, AfterRules
  <2>5. t.i - 1 = s.i /\ t.i <= t.n + 1
    BY <1>0, <1>2, <2>1
  <2>6. t.r.model = Applied(s.r.model, p.list[s.i])
    BY <1>2, <2>1 DEF Applied
  <2> QED
    BY <2>1, <2>2, <2>4, <2>5, <2>6
<1> QED
  BY <1>1, <1>2 DEF Rewritable

\* The name that all of them have made.
LEMMA LastRule ==
    ASSUME NEW P, P \subseteq RequestPolicies, NEW s \in Rewriting, Rewritable(s, P), s.i > s.n
    PROVE  Writable(s.r, P)
<1>1. s.i \in Nat \ {0} /\ s.n \in Nat
  BY DEF Rewriting
<1>2. ASSUME NEW p \in P \ {None}, P = {p}
      PROVE  s.r.model = Rewritten(s.r.orig, p.list)
  <2>1. s.n = Len(p.list) /\ s.i <= s.n + 1 /\ s.r.model = After(s.r.orig, p.list)[s.i - 1]
    BY <1>2 DEF Rewritable
  <2>2. s.i - 1 = Len(p.list)
    BY <1>1, <2>1
  <2> QED
    BY <2>1, <2>2 DEF Rewritten
<1> QED
  BY <1>2 DEF Rewritable, Writable

LEMMA ReqMatchForce ==
    ASSUME TypeOK, NEW k \in Conns, ReqMatch(k), NEW c \in Conns, ForceInv(c)
    PROVE  ForceInv(c)'
<1>1. ASSUME c = k, ~dead' PROVE RequestForce(req'[k], seen[k].request)
  <2> DEFINE p == policy.request
             s == req[k]
             t == req'[k]
             P == seen[k].request
  <2>1. s.at = "match" /\ s \in Rewriting /\ s.r \in Requests
    BY ReqMatchTypes, RequestState DEF TypeOK, Resting
  <2>2. p \in P /\ P \subseteq RequestPolicies /\ Rewritable(s, P)
    BY <1>1, <2>1, LookSees DEF RequestForce, Resting
  <2>3. CASE t.at = "write" /\ t.r = s.r /\ s.i > s.n
    <3>1. Writable(s.r, P)
      BY <2>1, <2>2, <2>3, LastRule
    <3> QED
      BY <2>3, <3>1 DEF RequestForce
  <2>4. ASSUME p # None, s.i <= s.n, s.i \in DOMAIN p.list, t.r = s.r, t.n = s.n
        PROVE  /\ t.at = "rename" /\ t.i = s.i /\ s.r.model = p.list[s.i].orig
                    => RequestForce(t, P)
               /\ t.at = "match" /\ t.i = s.i + 1 /\ s.r.model # p.list[s.i].orig
                    => RequestForce(t, P)
    <3> HIDE DEF p, s, t, P
    <3>1. ASSUME t.at = "rename", t.i = s.i, s.r.model = p.list[s.i].orig
          PROVE  RequestForce(t, P)
      <4>1. Rewritable(t, P)
        BY <2>2, <2>4, <3>1 DEF Rewritable
      <4>2. Renamable(t, P)
        BY <2>2, <2>4, <3>1 DEF Renamable
      <4> QED
        BY <3>1, <4>1, <4>2 DEF RequestForce
    <3>2. ASSUME t.at = "match", t.i = s.i + 1, s.r.model # p.list[s.i].orig
          PROVE  RequestForce(t, P)
      <4>1. Rewritable(t, P)
        BY <2>1, <2>2, <2>4, <3>2, NextRule
      <4> QED
        BY <3>2, <4>1 DEF RequestForce
    <3> QED
      BY <3>1, <3>2
  <2>5. CASE ~(t.at = "write" /\ t.r = s.r /\ s.i > s.n)
    <3>1. /\ p # None /\ s.i <= s.n /\ s.i \in DOMAIN p.list /\ t.r = s.r /\ t.n = s.n
          /\ \/ t.at = "rename" /\ t.i = s.i /\ s.r.model = p.list[s.i].orig
             \/ t.at = "match" /\ t.i = s.i + 1 /\ s.r.model # p.list[s.i].orig
      BY <1>1, <2>5, ReqMatchTypes
    <3> HIDE DEF p, s, t, P
    <3>2. RequestForce(t, P)
      BY <2>4, <3>1
    <3> QED
      BY <3>2 DEF t, P
  <2> QED
    BY <2>3, <2>5
<1> QED
  BY <1>1, LookForce DEF ReqLook

LEMMA ReqRenameForce ==
    ASSUME TypeOK, NEW k \in Conns, ReqRename(k), NEW c \in Conns, ForceInv(c)
    PROVE  ForceInv(c)'
<1>1. ASSUME c = k, ~dead' PROVE RequestForce(req'[k], seen[k].request)
  <2> DEFINE p == policy.request
             s == req[k]
             t == req'[k]
             P == seen[k].request
  <2>1. s.at = "rename" /\ s \in Rewriting /\ s.r \in Requests
    BY ReqRenameTypes, RequestState DEF TypeOK, Resting
  <2>2. p \in P /\ P \subseteq RequestPolicies /\ Rewritable(s, P) /\ Renamable(s, P)
    BY <1>1, <2>1, LookSees DEF RequestForce, Resting
  <2>3. /\ p # None /\ s.i \in DOMAIN p.list
        /\ t.at = "match" /\ t.i = s.i + 1 /\ t.n = s.n
        /\ t.r.orig = s.r.orig /\ t.r.model = p.list[s.i].new
    BY <1>1, ReqRenameTypes
  <2> HIDE DEF p, s, t, P
  <2>4. P = {p} => s.r.model = p.list[s.i].orig
    BY <2>2, <2>3 DEF Renamable
  <2>5. P = {p} => s.i <= s.n
    <3> SUFFICES ASSUME P = {p} PROVE s.i <= s.n
      OBVIOUS
    <3>1. s.n = Len(p.list) /\ p.list \in Seq(Rules)
      BY <2>2, <2>3 DEF Rewritable, RequestPolicies
    <3> QED
      BY <2>3, <3>1
  <2>6. Rewritable(t, P)
    BY <2>1, <2>2, <2>3, <2>4, <2>5, NextRule
  <2> QED
    BY <2>3, <2>6 DEF RequestForce, t, P
<1> QED
  BY <1>1, LookForce DEF ReqLook

\* The loop has counted the words for a choice: it has looked at none, or there are none.
LEMMA FilterForce ==
    ASSUME NEW P, P \subseteq ResponsePolicies, NEW q \in P \ {None},
           NEW s \in ResponseStates, s.at = "filter", s.a.body = "chat", ResponseForce(s, P),
           NEW t \in ResponseStates, t.a = s.a, t.block = s.block,
           t.at = "filter" => InChoice(s.a, t.x),
           \/ t.at = "write" /\ 1 > Len(q.list) /\ s.x + 1 > Len(s.a.choices)
           \/ t.at = "filter" /\ 1 > Len(q.list) /\ t.x = s.x + 1
           \/ t.at = "word" /\ 1 <= Len(q.list) /\ t.x = s.x /\ t.y = 1 /\ t.n = Len(q.list)
    PROVE  ResponseForce(t, P)
<1>1. /\ s.x \in Nat \ {0} /\ s.a.choices \in Seq(SUBSET Words) /\ q.list \in Seq(Strings)
      /\ P # {} /\ Looked(s, P) /\ InChoice(s.a, s.x)
  BY ResponseState DEF ResponseForce, ResponsePolicies, Answers, AnsweringAt
<1>2. ASSUME NEW x \in DOMAIN t.a.choices, NEW y \in Nat \ {0},
             Behind(t, x, y), AllBan(P, y, t.a.choices[x])
      PROVE  t.block
  <2>1. x \in Nat /\ x <= Len(s.a.choices)
    BY <1>1
  <2>2. y \in DOMAIN q.list
    BY <1>2 DEF AllBan
  <2>3. 1 <= Len(q.list)
    BY <1>1, <2>2
  <2>4. t.at = "word" /\ t.x = s.x /\ t.y = 1
    BY <1>1, <2>3
  <2>5. x < s.x
    BY <1>2, <2>4 DEF Behind
  <2> QED
    BY <1>1, <1>2, <2>5 DEF Behind, Looked
<1>3. Looked(t, P)
  BY <1>2 DEF Looked
<1>4. t.block => SomeBans(P, t.a.choices)
  BY DEF ResponseForce, AnsweringAt
<1>5. t.at \in {"filter", "word"} => InChoice(t.a, t.x)
  BY <1>1
<1>6. t.at = "word" => t.a.body = "chat" /\ \E p \in P \ {None} : t.n = Len(p.list)
  OBVIOUS
<1> QED
  BY <1>1, <1>3, <1>4, <1>5, <1>6 DEF ResponseForce

\* The loop has looked at a word, and goes on to the next, or past the last that it
\* had counted: one of the policies seen has as many.
LEMMA WordForce ==
    ASSUME NEW P, P \subseteq ResponsePolicies, NEW q \in P \ {None},
           NEW s \in ResponseStates, s.at = "word", ResponseForce(s, P), s.y \in DOMAIN q.list,
           NEW t \in ResponseStates, t.a = s.a, t.block <=> Blocked(s, q.list[s.y]),
           t.at = "filter" => InChoice(s.a, t.x),
           \/ t.at = "write" /\ s.y + 1 > s.n /\ s.x + 1 > Len(s.a.choices)
           \/ t.at = "filter" /\ s.y + 1 > s.n /\ t.x = s.x + 1
           \/ t.at = "word" /\ s.y + 1 <= s.n /\ t.x = s.x /\ t.y = s.y + 1 /\ t.n = s.n
    PROVE  ResponseForce(t, P)
<1>1. /\ s.x \in Nat \ {0} /\ s.y \in Nat \ {0} /\ s.n \in Nat
      /\ s.a.choices \in Seq(SUBSET Words)
      /\ P # {} /\ Looked(s, P) /\ InChoice(s.a, s.x) /\ s.a.body = "chat"
      /\ \E p \in P \ {None} : s.n = Len(p.list)
  BY ResponseState DEF ResponseForce, Answers, AnsweringAt
<1>2. PICK p \in P \ {None} : s.n = Len(p.list)
  BY <1>1
<1>3. ASSUME NEW x \in DOMAIN t.a.choices, NEW y \in Nat \ {0},
             Behind(t, x, y), AllBan(P, y, t.a.choices[x])
      PROVE  t.block
  <2>1. x \in Nat /\ x <= Len(s.a.choices)
    BY <1>1
  <2>2. y <= s.n
    <3>1. y \in DOMAIN p.list /\ p.list \in Seq(Strings)
      BY <1>2, <1>3 DEF AllBan, ResponsePolicies
    <3> QED
      BY <1>2, <3>1
  <2>3. CASE x < s.x \/ (x = s.x /\ y < s.y)
    <3>1. Behind(s, x, y)
      BY <2>3 DEF Behind
    <3> QED
      BY <1>1, <1>3, <3>1 DEF Looked, Blocked
  <2>4. CASE x = s.x /\ y = s.y
    <3>1. Contains(s.a.choices[s.x], q.list[s.y])
      BY <1>3, <2>4 DEF AllBan
    <3> QED
      BY <3>1 DEF Blocked
  <2>5. x < s.x \/ (x = s.x /\ y <= s.y)
    <3>1. CASE t.at = "write"
      BY <1>1, <2>1, <2>2, <3>1
    <3>2. CASE t.at = "filter"
      BY <1>1, <1>3, <2>1, <2>2, <3>2 DEF Behind
    <3>3. CASE t.at = "word"
      BY <1>1, <1>3, <2>1, <2>2, <3>3 DEF Behind
    <3> QED
      BY <3>1, <3>2, <3>3
  <2> QED
    BY <1>1, <2>3, <2>4, <2>5
<1>4. Looked(t, P)
  BY <1>3 DEF Looked
<1>5. t.block => SomeBans(P, t.a.choices)
  <2>1. CASE s.block
    BY <2>1 DEF ResponseForce, AnsweringAt
  <2>2. CASE Contains(s.a.choices[s.x], q.list[s.y])
    <3>1. s.x \in DOMAIN s.a.choices
      BY <1>1 DEF InChoice
    <3> QED
      BY <2>2, <3>1 DEF SomeBans
  <2> QED
    BY <2>1, <2>2 DEF Blocked
<1>6. t.at \in {"filter", "word"} => InChoice(t.a, t.x)
  BY <1>1
<1>7. t.at = "word" => t.a.body = "chat" /\ \E o \in P \ {None} : t.n = Len(o.list)
  BY <1>1
<1> QED
  BY <1>1, <1>4, <1>5, <1>6, <1>7 DEF ResponseForce

\* The answer is new: nothing is behind the loop.
LEMMA FreshForce ==
    ASSUME NEW q \in ResponsePolicies, NEW t \in ResponseStates, t.block = FALSE,
           \/ t.at = "write" /\ q = None
           \/ t.at = "write" /\ 1 > Len(t.a.choices)
           \/ t.at = "filter" /\ t.x = 1 /\ q # None /\ InChoice(t.a, 1)
    PROVE  ResponseForce(t, {q})
<1>1. t.a.choices \in Seq(SUBSET Words)
  BY ResponseState DEF Answers, AnsweringAt
<1>2. ASSUME NEW x \in DOMAIN t.a.choices, NEW y \in Nat \ {0},
             Behind(t, x, y), AllBan({q}, y, t.a.choices[x])
      PROVE  FALSE
  <2>1. x \in Nat /\ 1 <= x /\ x <= Len(t.a.choices) /\ q # None
    BY <1>1, <1>2 DEF AllBan
  <2>2. t.at = "filter" /\ t.x = 1
    BY <1>1, <2>1
  <2> QED
    BY <1>2, <2>1, <2>2 DEF Behind
<1>3. Looked(t, {q})
  BY <1>2 DEF Looked
<1> QED
  BY <1>3 DEF ResponseForce

LEMMA BackForce ==
    ASSUME TypeOK, NEW k \in Conns, ResponseLoop(k), NEW c \in Conns, ForceInv(c)
    PROVE  ForceInv(c)'
<1>1. BackOf(k) /\ UNCHANGED <<ingress, policy>>
  BY RespReadTypes, RespFilterTypes, RespWordTypes, RespWriteTypes
     DEF ResponseLoop, RespRead, RespFilter, RespWord, RespWrite, pipes
<1>2. /\ OwnName(c)' /\ RequestForce(req'[c], seen'[c].request)
      /\ seen'[c].request # {} => policy'.request \in seen'[c].request
  BY <1>1 DEF BackOf, ForceInv, OwnName, PolicySeen
<1>3. ResponseForce(resp'[c], seen'[c].response)
      /\ (seen'[c].response # {} => policy.response \in seen'[c].response)
  <2> DEFINE q == policy.response
             P == seen[k].response
             s == resp[k]
             t == resp'[k]
  <2>1. CASE c # k
    BY <1>1, <2>1 DEF BackOf, ForceInv, PolicySeen
  <2>5. CASE resp' = resp /\ seen' = seen
    BY <2>5 DEF ForceInv, PolicySeen
  <2>6. CASE c = k /\ t.at = "done" /\ seen' = seen
    BY <2>6 DEF ForceInv, PolicySeen, ResponseForce, AnsweringAt
  <2>7. q \in ResponsePolicies /\ P \subseteq ResponsePolicies /\ s \in ResponseStates
    BY Fits DEF TypeOK, SeenType
  <2>2. CASE c = k /\ RespRead(k)
    <3>1. CASE /\ t \in ResponseStates /\ seen'[k].response = {q} /\ t.block = FALSE
               /\ \/ t.at = "write" /\ q = None
                  \/ t.at = "write" /\ 1 > Len(t.a.choices)
                  \/ t.at = "filter" /\ t.x = 1 /\ q # None /\ InChoice(t.a, 1)
      <4> HIDE DEF t, q
      <4>1. ResponseForce(t, {q})
        BY <2>7, <3>1, FreshForce
      <4> QED
        BY <2>2, <3>1, <4>1 DEF t, q
    <3> QED
      BY <2>2, <2>5, <2>6, <3>1, RespReadTypes
  <2>3. CASE c = k /\ RespFilter(k)
    <3>1. seen' = seen /\ q \in P /\ s.at = "filter" /\ ResponseForce(s, P)
      BY <2>3, RespFilterTypes DEF ForceInv, PolicySeen, ResponseForce, AnsweringAt
    <3>2. CASE /\ t.at = "write" /\ s.a.body = "other" /\ t.a = s.a /\ ~t.block
      BY <2>3, <3>1, <3>2 DEF ResponseForce, AnsweringAt, ForceInv, PolicySeen
    <3>3. CASE /\ t \in ResponseStates /\ q # None
               /\ s.a.body = "chat" /\ t.a = s.a /\ t.block = s.block
               /\ t.at = "filter" => InChoice(s.a, t.x)
               /\ \/ t.at = "write" /\ 1 > Len(q.list) /\ s.x + 1 > Len(s.a.choices)
                  \/ t.at = "filter" /\ 1 > Len(q.list) /\ t.x = s.x + 1
                  \/ t.at = "word" /\ 1 <= Len(q.list) /\ t.x = s.x /\ t.y = 1 /\ t.n = Len(q.list)
      <4> HIDE DEF q, P, s, t
      <4>1. ResponseForce(t, P)
        BY <2>7, <3>1, <3>3, FilterForce
      <4> QED
        BY <2>3, <3>1, <4>1 DEF q, P, t
    <3> QED
      BY <2>3, <2>5, <2>6, <3>1, <3>2, <3>3, RespFilterTypes
  <2>8. CASE c = k /\ RespWord(k)
    <3>1. seen' = seen /\ q \in P /\ s.at = "word" /\ ResponseForce(s, P)
      BY <2>8, RespWordTypes DEF ForceInv, PolicySeen, ResponseForce, AnsweringAt
    <3>2. CASE /\ t \in ResponseStates /\ q # None /\ s.y \in DOMAIN q.list /\ t.a = s.a
               /\ t.block <=> Blocked(s, q.list[s.y])
               /\ t.at = "filter" => InChoice(s.a, t.x)
               /\ \/ t.at = "write" /\ s.y + 1 > s.n /\ s.x + 1 > Len(s.a.choices)
                  \/ t.at = "filter" /\ s.y + 1 > s.n /\ t.x = s.x + 1
                  \/ t.at = "word" /\ s.y + 1 <= s.n /\ t.x = s.x /\ t.y = s.y + 1 /\ t.n = s.n
      <4> HIDE DEF q, P, s, t
      <4>1. ResponseForce(t, P)
        BY <2>7, <3>1, <3>2, WordForce
      <4> QED
        BY <2>8, <3>1, <4>1 DEF q, P, t
    <3> QED
      BY <2>5, <2>8, <3>1, <3>2, RespWordTypes
  <2>4. CASE c = k /\ RespWrite(k)
    BY <2>4, RespWriteTypes DEF ResponseForce, AnsweringAt
  <2> QED
    BY <2>1, <2>2, <2>3, <2>4, <2>8 DEF ResponseLoop
<1> QED
  BY <1>1, <1>2, <1>3 DEF ForceInv, PolicySeen

LEMMA InitForce == ASSUME Init, NEW k \in Conns PROVE ForceInv(k)
<1>1. ingress[k] = <<>> /\ req[k].at = "read" /\ resp[k].at = "read"
      /\ seen[k].request = {} /\ seen[k].response = {}
  BY DEF Init, Nothing
<1> QED
  BY <1>1 DEF ForceInv, PolicySeen, OwnName, RequestForce, ResponseForce, AnsweringAt

LEMMA NextForce ==
    ASSUME TypeOK, Writing, [Next]_vars, NEW c \in Conns, ForceInv(c)
    PROVE  ForceInv(c)'
<1>1. ASSUME NEW k \in Conns, Send(k) PROVE ForceInv(c)'
  BY <1>1, SendForce
<1>2. ASSUME NEW k \in Conns, AppClose(k) \/ Reply(k) \/ ServerClose(k) PROVE ForceInv(c)'
  <2>1. UNCHANGED <<ingress, req, resp, seen, policy>>
    BY <1>2 DEF AppClose, Reply, ServerClose, pipes, history
  <2> QED
    BY <2>1, ForceStays
<1>3. ASSUME NEW k \in Conns, RequestLoop(k) PROVE ForceInv(c)'
  BY <1>3, ReqReadForce, ReqJudgeForce, ReqBlockForce, ReqRefuseForce, ReqCountForce,
     ReqMatchForce, ReqRenameForce, ReqWriteForce DEF RequestLoop
<1>4. ASSUME NEW k \in Conns, ResponseLoop(k) PROVE ForceInv(c)'
  BY <1>4, BackForce
<1>5. ASSUME UNCHANGED <<loops, policy, seen>> PROVE ForceInv(c)'
  BY <1>5, ForceStays DEF loops, pipes
<1>6. ASSUME NEW p \in [request : RequestPolicies, response : ResponsePolicies],
             Change(p), UNCHANGED loops
      PROVE  ForceInv(c)'
  BY <1>6, ChangeForce
<1>7. ASSUME Watcher PROVE ForceInv(c)'
  <2>1. CASE StartWatch \/ Rewatch
    BY <1>5, <2>1, StartWatchTypes, RewatchTypes
  <2>2. CASE TakeEvent
    BY <1>5, <1>6, <2>2, TakeEventTypes
  <2>3. ASSUME NEW f \in Fields, Unmarshal(f) PROVE ForceInv(c)'
    BY <1>6, <2>3, UnmarshalTypes DEF Policies
  <2> QED
    BY <1>7, <2>1, <2>2, <2>3 DEF Watcher
<1>8. ASSUME (\E d \in Docs : Edit(d)) \/ DeleteMap \/ LoseWatch PROVE ForceInv(c)'
  BY <1>5, <1>8, EditTypes, DeleteMapTypes, LoseWatchTypes
<1>9. CASE UNCHANGED vars
  BY <1>5, <1>9 DEF vars, loops, history
<1> QED
  BY <1>1, <1>2, <1>3, <1>4, <1>7, <1>8, <1>9 DEF Next

LEMMA ForceImplies ==
    ASSUME TypeOK, \A k \in Conns : ForceInv(k)
    PROVE  InForce
<1>1. ASSUME NEW k \in Conns, resp[k].at = "write"
      PROVE  LET a == resp[k].a
                 P == seen[k].response
             IN  /\ resp[k].block => SomeBans(P, a.choices)
                 /\ a.body = "chat" =>
                      \A p \in P \ {None} : \A y \in DOMAIN p.list, x \in DOMAIN a.choices :
                          AllBan(P, y, a.choices[x]) => resp[k].block
  <2> DEFINE a == resp[k].a
             P == seen[k].response
  <2>1. (resp[k].block => SomeBans(P, a.choices)) /\ (a.body = "chat" => Looked(resp[k], P))
    BY <1>1 DEF ForceInv, ResponseForce, AnsweringAt
  <2>2. ASSUME a.body = "chat", NEW p \in P \ {None}, NEW y \in DOMAIN p.list, NEW x \in DOMAIN a.choices,
               AllBan(P, y, a.choices[x])
        PROVE  resp[k].block
    <3>1. y \in Nat \ {0}
      BY Fits DEF SeenType, ResponsePolicies
    <3> QED
      BY <1>1, <2>1, <2>2, <3>1 DEF Looked, Behind
  <2> QED
    BY <2>1, <2>2
<1>2. ASSUME NEW k \in Conns, req[k].at = "write"
      PROVE  Writable(req[k].r, seen[k].request)
  BY <1>2 DEF ForceInv, RequestForce
<1>3. ASSUME NEW k \in Conns, req[k].at = "refuse"
      PROVE  \E p \in seen[k].request \ {None} : p.block
  BY <1>3 DEF ForceInv, RequestForce
<1> QED
  BY <1>1, <1>2, <1>3 DEF InForce, Writable, May, Named

\* What a loop does with a request or an answer follows from policies that were in
\* force since it was read, however often and wherever the watcher writes into them
\* while the loop reads them (openai.go:39, 68-75, 136-142; watcher.go:53).
THEOREM InForceAlways == Spec => []InForce
<1> DEFINE Inv == TypeOK /\ Writing /\ \A k \in Conns : ForceInv(k)
<1>1. Init => Inv
  BY InitTypes, InitForce
<1>2. Inv /\ [Next]_vars => Inv'
  BY NextTypes, NextWriting, NextForce
<1>3. Inv => InForce
  BY ForceImplies
<1> HIDE DEF Inv
<1> QED
  BY <1>1, <1>2, <1>3, PTL DEF Spec

-----------------------------------------------------------------------------
(* The order of the requests.  What was forwarded or refused, what the     *)
(* loop holds and what waits for it are numbers in this order, and none of *)
(* them is past the last request sent.                                     *)

In(s) == {s[n] : n \in DOMAIN s}
Waiting(k) == {ingress[k][n].id : n \in DOMAIN ingress[k]}
Held(k) == IF "r" \in DOMAIN req[k] THEN {req[k].r.id} ELSE {}

Ordered(S, H, W, n) ==
    /\ \A s \in S, x \in H \cup W : s < x
    /\ \A h \in H, w \in W : h < w
    /\ \A x \in S \cup H \cup W : x <= n

InOrder(k) == \A i, j \in DOMAIN ingress[k] : i < j => ingress[k][i].id < ingress[k][j].id

OrderInv(k) ==
    /\ Increases(asked[k]) /\ Increases(refused[k]) /\ In(asked[k]) \cap In(refused[k]) = {}
    /\ InOrder(k)
    /\ ~dead => Ordered(In(asked[k]) \cup In(refused[k]), Held(k), Waiting(k), app[k].sent)

LEMMA InAppend ==
    ASSUME NEW S, NEW s \in Seq(S), NEW x \in S
    PROVE  In(Append(s, x)) = In(s) \cup {x}
<1>1. /\ DOMAIN s = 1 .. Len(s) /\ DOMAIN Append(s, x) = 1 .. Len(s) + 1
      /\ \A i \in 1 .. Len(s) : Append(s, x)[i] = s[i]
      /\ Append(s, x)[Len(s) + 1] = x
      /\ Len(s) \in Nat
  BY AppendOne
<1> QED
  BY <1>1 DEF In

LEMMA IncreasesAppend ==
    ASSUME NEW s \in Seq(Ids), NEW x \in Ids, Increases(s), \A y \in In(s) : y < x
    PROVE  Increases(Append(s, x))
<1>1. /\ DOMAIN s = 1 .. Len(s) /\ DOMAIN Append(s, x) = 1 .. Len(s) + 1
      /\ \A i \in 1 .. Len(s) : Append(s, x)[i] = s[i]
      /\ Append(s, x)[Len(s) + 1] = x
      /\ Len(s) \in Nat
  BY AppendOne
<1>2. \A i \in 1 .. Len(s) : s[i] < x
  BY <1>1 DEF In
<1> QED
  BY <1>1, <1>2 DEF Increases

LEMMA IdsAreNumbers == ASSUME TypeOK PROVE Ids \subseteq Int /\ \A x \in Ids : x \in Nat /\ x > 0
BY Numbers DEF Ids

LEMMA OrderTypes ==
    ASSUME TypeOK, NEW k \in Conns
    PROVE  /\ In(asked[k]) \subseteq Ids /\ In(refused[k]) \subseteq Ids /\ Waiting(k) \subseteq Ids
           /\ Held(k) \subseteq Ids
<1>1. /\ asked[k] \in Seq(Ids) /\ refused[k] \in Seq(Ids) /\ ingress[k] \in Seq(Requests)
      /\ req[k] \in RequestStates
  BY DEF TypeOK
<1>2. In(asked[k]) \subseteq Ids /\ In(refused[k]) \subseteq Ids
  BY <1>1 DEF In
<1>3. Waiting(k) \subseteq Ids
  <2>1. \A n \in DOMAIN ingress[k] : ingress[k][n] \in Requests
    BY <1>1
  <2> QED
    BY <2>1 DEF Waiting, Requests
<1>4. Held(k) \subseteq Ids
  BY <1>1, RequestState DEF Held, Requests
<1> QED
  BY <1>2, <1>3, <1>4

\* How often a number is in a sequence that increases.
LEMMA TimesOnce ==
    ASSUME NEW s \in Seq(Ids), Ids \subseteq Int, Increases(s), NEW i
    PROVE  Times(s, i) = IF i \in In(s) THEN 1 ELSE 0
<1> DEFINE P == {n \in DOMAIN s : s[n] = i}
<1>1. CASE i \in In(s)
  <2>1. PICK m \in DOMAIN s : s[m] = i
    BY <1>1 DEF In
  <2>2. ASSUME NEW n \in DOMAIN s, s[n] = i PROVE n = m
    <3>1. n \in Int /\ m \in Int /\ i \in Int
      <4>1. DOMAIN s = 1 .. Len(s) /\ Len(s) \in Nat
        OBVIOUS
      <4>2. s[m] \in Ids
        BY <2>1
      <4>3. i \in Int
        BY <2>1, <4>2
      <4>4. n \in 1 .. Len(s) /\ m \in 1 .. Len(s)
        BY <4>1
      <4> QED
        BY <4>1, <4>3, <4>4
    <3>2. ~(n < m) /\ ~(m < n)
      BY <2>1, <2>2, <3>1 DEF Increases
    <3> QED
      BY <3>1, <3>2
  <2>3. P = {m}
    BY <2>1, <2>2
  <2>4. Cardinality({m}) = 1
    BY FS_Singleton
  <2> QED
    BY <1>1, <2>3, <2>4 DEF Times
<1>2. CASE i \notin In(s)
  <2>1. P = {}
    BY <1>2 DEF In
  <2> QED
    BY <1>2, <2>1, FS_EmptySet DEF Times
<1> QED
  BY <1>1, <1>2

\* What has become of a request, by the places it may be in.
Fate(A, R, H, W, n, i) ==
    IF i \in A THEN "asked" ELSE IF i \in R THEN "refused" ELSE IF i > n THEN "unsent"
    ELSE IF i \in H \cup W THEN "pending" ELSE "lost"

Fates(k) == [i \in Ids |-> Fate(In(asked[k]), In(refused[k]), Held(k), Waiting(k), app[k].sent, i)]

LEMMA OutcomeIsFate ==
    ASSUME TypeOK, NEW k \in Conns, OrderInv(k), NEW i \in Ids
    PROVE  Outcome(k, i) = Fates(k)[i]
<1>1. asked[k] \in Seq(Ids) /\ refused[k] \in Seq(Ids) /\ Ids \subseteq Int
  BY Numbers, IdsAreNumbers
<1>2. /\ Times(asked[k], i) = IF i \in In(asked[k]) THEN 1 ELSE 0
      /\ \A j : Times(refused[k], j) = IF j \in In(refused[k]) THEN 1 ELSE 0
  BY <1>1, TimesOnce DEF OrderInv
<1>3. ~(i \in In(asked[k]) /\ i \in In(refused[k]))
  BY DEF OrderInv
<1>4. i \notin In(refused[k]) => (i \in Carried(k)) = (i \in Held(k) \cup Waiting(k))
  BY <1>2 DEF Carried, Held, Waiting
<1>5. CASE i \in In(asked[k])
  <2>1. /\ Times(asked[k], i) = 1 /\ Times(refused[k], i) = 0
        /\ ~(Times(asked[k], i) + Times(refused[k], i) > 1)
    BY <1>2, <1>3, <1>5
  <2>2. Outcome(k, i) = "asked"
    BY <2>1 DEF Outcome
  <2> QED
    BY <1>5, <2>2 DEF Fates, Fate
<1>6. CASE i \in In(refused[k])
  <2>1. /\ Times(asked[k], i) = 0 /\ Times(refused[k], i) = 1 /\ i \notin In(asked[k])
        /\ ~(Times(asked[k], i) + Times(refused[k], i) > 1) /\ ~(Times(asked[k], i) = 1)
    BY <1>2, <1>3, <1>6
  <2>2. Outcome(k, i) = "refused"
    BY <2>1 DEF Outcome
  <2> QED
    BY <1>6, <2>1, <2>2 DEF Fates, Fate
<1>7. CASE i \notin In(asked[k]) /\ i \notin In(refused[k])
  <2>1. /\ ~(Times(asked[k], i) + Times(refused[k], i) > 1)
        /\ ~(Times(asked[k], i) = 1) /\ ~(Times(refused[k], i) = 1)
    BY <1>2, <1>7
  <2>2. Outcome(k, i) = IF i > app[k].sent THEN "unsent" ELSE IF i \in Carried(k) THEN "pending" ELSE "lost"
    BY <2>1 DEF Outcome
  <2> QED
    BY <1>4, <1>7, <2>2 DEF Fates, Fate
<1> QED
  BY <1>5, <1>6, <1>7

-----------------------------------------------------------------------------
(* What each step of the loop does to the fate of a request *)

Settles(k, i, from, to) == Fates(k)[i] = from /\ Fates(k)' = [Fates(k) EXCEPT ![i] = to]
Loses(k) ==
    \E L \in SUBSET {i \in Ids : Fates(k)[i] = "pending"} :
        Fates(k)' = [i \in Ids |-> IF i \in L THEN "lost" ELSE Fates(k)[i]]
Filters(k) ==
    \/ Fates(k)' = Fates(k)
    \/ \E i \in Ids : \/ Settles(k, i, "unsent", "pending")
                      \/ Settles(k, i, "pending", "asked")
                      \/ Settles(k, i, "pending", "refused")
    \/ Loses(k)

\* The fates, from those of the numbers.
LEMMA SettlesOne ==
    ASSUME NEW k, NEW x \in Ids, NEW from, NEW to, Fates(k)[x] = from,
           \A i \in Ids : Fates(k)'[i] = IF i = x THEN to ELSE Fates(k)[i]
    PROVE  Settles(k, x, from, to)
BY DEF Settles, Fates

LEMMA LosesSome ==
    ASSUME NEW k, NEW L \in SUBSET Ids, \A i \in L : Fates(k)[i] = "pending",
           \A i \in Ids : Fates(k)'[i] = IF i \in L THEN "lost" ELSE Fates(k)[i]
    PROVE  Loses(k)
BY DEF Loses, Fates

\* Requests of which nothing has changed.
LEMMA OrderStays ==
    ASSUME NEW k, OrderInv(k), ingress'[k] = ingress[k], Held(k)' = Held(k),
           app'[k].sent = app[k].sent,
           asked'[k] = asked[k], refused'[k] = refused[k], dead => dead'
    PROVE  OrderInv(k)' /\ Fates(k)' = Fates(k)
BY DEF OrderInv, InOrder, Waiting, Fates

LEMMA SendOrder ==
    ASSUME TypeOK, NEW k \in Conns, Send(k), OrderInv(k)
    PROVE  OrderInv(k)' /\ Filters(k)
<1>1. /\ ~dead /\ UNCHANGED <<req, dead, asked, refused>> /\ app[k].sent < MaxRequests
  BY DEF Send, Reaches, Closed, history
<1>2. PICK r \in Requests : r.id = app[k].sent + 1 /\ ingress'[k] = Append(ingress[k], r)
  BY SendTypes
<1> DEFINE A == In(asked[k])
           R == In(refused[k])
           H == Held(k)
           W == Waiting(k)
           n == app[k].sent
           x == n + 1
<1>3. /\ A \subseteq Int /\ R \subseteq Int /\ H \subseteq Int /\ W \subseteq Int
      /\ n \in Nat /\ Ids \subseteq Int /\ x \in Ids
  BY <1>1, OrderTypes, IdsAreNumbers, Numbers DEF Ids
<1>4. /\ In(asked'[k]) = A /\ In(refused'[k]) = R /\ Held(k)' = H /\ app'[k].sent = x
  BY <1>1, SendTypes DEF Held
<1>5. /\ Waiting(k)' = W \cup {x} /\ InOrder(k)'
  <2>1. /\ ingress[k] \in Seq(Requests) /\ DOMAIN ingress[k] = 1 .. Len(ingress[k])
        /\ DOMAIN ingress'[k] = 1 .. Len(ingress[k]) + 1 /\ Len(ingress[k]) \in Nat
        /\ \A i \in 1 .. Len(ingress[k]) : ingress'[k][i] = ingress[k][i]
        /\ ingress'[k][Len(ingress[k]) + 1] = r
    BY <1>2, Numbers, AppendOne
  <2>2. Waiting(k)' = W \cup {x}
    BY <1>2, <2>1 DEF Waiting
  <2>3. \A i \in DOMAIN ingress[k] : ingress[k][i].id \in W /\ ingress[k][i].id < x
    <3>1. \A w \in W : w < x
      BY <1>1, <1>3 DEF OrderInv, Ordered
    <3> QED
      BY <3>1 DEF Waiting
  <2>4. InOrder(k)'
    BY <1>2, <2>1, <2>3 DEF OrderInv, InOrder
  <2> QED
    BY <2>2, <2>4
<1>6. Ordered(A \cup R, H, W, n)
  BY <1>1 DEF OrderInv
<1>7. \A i \in Ids : Fates(k)'[i] = Fate(A, R, H, W \cup {x}, x, i) /\ Fates(k)[i] = Fate(A, R, H, W, n, i)
  BY <1>4, <1>5 DEF Fates
<1>8. OrderInv(k)'
  <2>1. Ordered(A \cup R, H, W \cup {x}, x)
    <3> HIDE DEF A, R, H, W, n
    <3> QED
      BY <1>3, <1>6 DEF Ordered
  <2> QED
    BY <1>1, <1>4, <1>5, <2>1 DEF OrderInv
<1>9. Settles(k, x, "unsent", "pending")
  <2>1. /\ \A i \in Ids : Fate(A, R, H, W \cup {x}, x, i) =
                              IF i = x THEN "pending" ELSE Fate(A, R, H, W, n, i)
        /\ Fate(A, R, H, W, n, x) = "unsent"
    <3> HIDE DEF A, R, H, W, n
    <3> QED
      BY <1>3, <1>6 DEF Ordered, Fate
  <2> QED
    BY <1>3, <1>7, <2>1, SettlesOne
<1> QED
  BY <1>3, <1>8, <1>9 DEF Filters

LEMMA ReqReadOrder ==
    ASSUME TypeOK, NEW k \in Conns, ReqRead(k), OrderInv(k)
    PROVE  OrderInv(k)' /\ Filters(k)
<1>1. /\ ~dead /\ UNCHANGED <<app, dead, asked, refused>> /\ req[k].at = "read"
      /\ req[k] \in RequestStates /\ TypeOK'
  BY ReqReadTypes DEF ReqRead, TypeOK
<1> DEFINE A == In(asked[k])
           R == In(refused[k])
           W == Waiting(k)
           n == app[k].sent
           V == Waiting(k)'
<1>2. /\ A \subseteq Int /\ R \subseteq Int /\ W \subseteq Int /\ W \subseteq Ids
      /\ n \in Nat /\ Ids \subseteq Int
  BY OrderTypes, IdsAreNumbers, Numbers
<1>3. Held(k) = {}
  BY <1>1, RequestState DEF Held, Resting
<1>4. Ordered(A \cup R, {}, W, n)
  BY <1>1, <1>3 DEF OrderInv
<1>5. CASE /\ \E m \in 1 .. Len(ingress[k]) :
                ingress'[k] = SubSeq(ingress[k], m + 1, Len(ingress[k]))
           /\ ingress[k] # <<>> /\ req'[k].r = ingress[k][1]
           /\ req'[k].at = IF policy.request = None THEN "write" ELSE "judge"
  <2> DEFINE h == ingress[k][1].id
  <2>1. ingress[k] \in Seq(Requests) /\ DOMAIN ingress[k] = 1 .. Len(ingress[k])
        /\ Len(ingress[k]) \in Nat /\ 1 \in DOMAIN ingress[k]
    BY <1>5, Numbers
  <2>2. PICK m \in 1 .. Len(ingress[k]) : ingress'[k] = SubSeq(ingress[k], m + 1, Len(ingress[k]))
    BY <1>5
  <2>3. /\ DOMAIN ingress'[k] = 1 .. Len(ingress[k]) - m
        /\ \A i \in 1 .. Len(ingress[k]) - m :
              ingress'[k][i] = ingress[k][i + m] /\ i + m \in DOMAIN ingress[k] /\ 1 < i + m
    BY <2>1, <2>2, Rest
  <2>4. h \in W /\ V \subseteq W /\ InOrder(k)'
    <3>1. h \in W /\ V \subseteq W
      BY <2>1, <2>3 DEF Waiting
    <3>2. \A i, j \in 1 .. Len(ingress[k]) - m : i < j => i + m < j + m
      OBVIOUS
    <3>3. InOrder(k)'
      BY <2>3, <3>2 DEF OrderInv, InOrder
    <3> QED
      BY <3>1, <3>3
  <2>5. \A w \in V : h < w
    BY <2>1, <2>3 DEF OrderInv, InOrder, Waiting
  <2>6. Held(k)' = {h}
    <3>1. req'[k] \in RequestStates /\ req'[k].at \notin Resting
      BY <1>1, <1>5 DEF TypeOK, Resting
    <3> QED
      BY <1>5, <3>1, RequestState DEF Held
  <2>7. OrderInv(k)'
    <3>1. Ordered(A \cup R, {h}, V, n)
      <4> HIDE DEF A, R, W, n, V, h
      <4> QED
        BY <1>2, <1>4, <2>4, <2>5 DEF Ordered
    <3> QED
      BY <1>1, <2>4, <2>6, <3>1 DEF OrderInv
  <2>8. \A i \in Ids : Fates(k)'[i] = Fate(A, R, {h}, V, n, i) /\ Fates(k)[i] = Fate(A, R, {}, W, n, i)
    BY <1>1, <1>3, <2>6 DEF Fates
  <2>9. Loses(k)
    <3> DEFINE L == W \ (V \cup {h})
    <3>1. /\ \A i \in L : Fate(A, R, {}, W, n, i) = "pending"
          /\ \A i \in Ids : Fate(A, R, {h}, V, n, i) = IF i \in L THEN "lost" ELSE Fate(A, R, {}, W, n, i)
      <4> HIDE DEF A, R, W, n, V, h
      <4> QED
        BY <1>2, <1>4, <2>4 DEF Ordered, Fate
    <3>2. L \in SUBSET Ids
      BY <1>2
    <3> HIDE DEF L, A, R, W, n, V, h
    <3>3. /\ \A i \in L : Fates(k)[i] = "pending"
          /\ \A i \in Ids : Fates(k)'[i] = IF i \in L THEN "lost" ELSE Fates(k)[i]
      BY <2>8, <3>1, <3>2
    <3> QED
      BY <3>2, <3>3, LosesSome
  <2> QED
    BY <2>7, <2>9 DEF Filters
<1>6. CASE ingress' = ingress /\ req'[k].at \in {"spin", "done"} /\ req'[k] \in RequestStates
  <2>1. Held(k)' = {}
    BY <1>6, RequestState DEF Held, Resting
  <2>2. V = W /\ InOrder(k)'
    BY <1>6 DEF Waiting, OrderInv, InOrder
  <2>3. Fates(k)' = Fates(k)
    BY <1>1, <1>3, <2>1, <2>2 DEF Fates
  <2>4. OrderInv(k)'
    BY <1>1, <1>3, <2>1, <2>2 DEF OrderInv
  <2> QED
    BY <2>3, <2>4 DEF Filters
<1> QED
  BY <1>5, <1>6, ReqReadTypes

\* A request that the loop lets go.
LEMMA DropOrder ==
    ASSUME TypeOK, NEW k \in Conns, OrderInv(k), ~dead, Held(k)' = {}, ingress'[k] = ingress[k],
           app'[k].sent = app[k].sent, asked'[k] = asked[k], refused'[k] = refused[k]
    PROVE  OrderInv(k)' /\ Filters(k)
<1> DEFINE A == In(asked[k])
           R == In(refused[k])
           H == Held(k)
           W == Waiting(k)
           n == app[k].sent
<1>1. /\ A \subseteq Int /\ R \subseteq Int /\ W \subseteq Int /\ H \subseteq Ids
      /\ n \in Nat /\ Ids \subseteq Int
  BY OrderTypes, IdsAreNumbers, Numbers
<1>2. Ordered(A \cup R, H, W, n)
  BY DEF OrderInv
<1>3. Waiting(k)' = W /\ InOrder(k)'
  BY DEF Waiting, OrderInv, InOrder
<1>4. \A i \in Ids : Fates(k)'[i] = Fate(A, R, {}, W, n, i) /\ Fates(k)[i] = Fate(A, R, H, W, n, i)
  BY <1>3 DEF Fates
<1>5. OrderInv(k)'
  <2>1. Ordered(A \cup R, {}, W, n)
    BY <1>2 DEF Ordered
  <2> QED
    BY <1>3, <2>1 DEF OrderInv
<1> HIDE DEF A, R, H, W, n
<1>6. /\ \A i \in H : Fate(A, R, H, W, n, i) = "pending"
      /\ \A i \in Ids : Fate(A, R, {}, W, n, i) = IF i \in H THEN "lost" ELSE Fate(A, R, H, W, n, i)
  BY <1>1, <1>2 DEF Ordered, Fate
<1>7. /\ \A i \in H : Fates(k)[i] = "pending"
      /\ \A i \in Ids : Fates(k)'[i] = IF i \in H THEN "lost" ELSE Fates(k)[i]
  BY <1>1, <1>4, <1>6
<1> QED
  BY <1>1, <1>5, <1>7, LosesSome DEF Filters

LEMMA ReqLookOrder ==
    ASSUME TypeOK, NEW k \in Conns, ReqLook(k), OrderInv(k)
    PROVE  OrderInv(k)' /\ Filters(k)
<1>1. /\ UNCHANGED <<app, ingress, asked, refused>> /\ ~dead
      /\ req[k] \in RequestStates /\ req'[k] \in RequestStates /\ req[k].at \notin Resting
  <2>1. TypeOK' /\ ~dead /\ req[k].at \notin Resting /\ UNCHANGED <<app, ingress, asked, refused>>
    BY ReqLookTypes DEF pipes, Resting
  <2> QED
    BY <2>1 DEF TypeOK
<1>2. CASE req' = req
  BY <1>1, <1>2, OrderStays DEF Held, Filters
<1>3. CASE req'[k] = Nothing /\ ~dead'
  <2>1. Held(k)' = {}
    BY <1>3 DEF Held, Nothing
  <2> QED
    BY <1>1, <2>1, DropOrder
<1>4. CASE req'[k].r.id = req[k].r.id /\ req'[k].at \notin Resting
  <2>1. Held(k)' = Held(k)
    BY <1>1, <1>4, RequestState DEF Held
  <2> QED
    BY <1>1, <2>1, OrderStays DEF Filters
<1> QED
  BY <1>2, <1>3, <1>4, ReqLookTypes

\* The request that is settled is the one the loop holds.
LEMMA HeldOne ==
    ASSUME TypeOK, NEW k \in Conns, req[k].at \in {"refuse", "write"}
    PROVE  Held(k) = {req[k].r.id} /\ req[k].r.id \in Ids
BY RequestState DEF TypeOK, Held, Resting, Requests

LEMMA ReqRefuseOrder ==
    ASSUME TypeOK, NEW k \in Conns, ReqRefuse(k), OrderInv(k)
    PROVE  OrderInv(k)' /\ Filters(k)
<1> DEFINE A == In(asked[k])
           R == In(refused[k])
           x == req[k].r.id
           W == Waiting(k)
           n == app[k].sent
           G == Held(k)'
<1>1. /\ UNCHANGED <<ingress, asked>> /\ ~dead /\ req[k].at = "refuse" /\ app'[k].sent = n
      /\ refused'[k] = Append(refused[k], x)
      /\ refused[k] \in Seq(Ids)
  BY ReqRefuseTypes, Numbers DEF ReqRefuse, pipes, GivenBack
<1>2. Held(k) = {x} /\ x \in Ids
  BY <1>1, HeldOne
<1>3. /\ A \subseteq Int /\ R \subseteq Int /\ W \subseteq Int
      /\ n \in Nat /\ Ids \subseteq Int
  BY OrderTypes, IdsAreNumbers, Numbers
<1>4. Ordered(A \cup R, {x}, W, n) /\ A \cap R = {}
  BY <1>1, <1>2 DEF OrderInv
<1>5. (dead' /\ G = {x}) \/ (~dead' /\ G = {})
  <2>1. CASE dead' /\ req' = req
    BY <1>2, <2>1 DEF Held
  <2>2. CASE ~dead' /\ req'[k] = Nothing
    BY <2>2 DEF Held, Nothing
  <2> QED
    BY <2>1, <2>2, ReqRefuseTypes
<1>6. Waiting(k)' = W /\ InOrder(k)' /\ In(asked'[k]) = A /\ In(refused'[k]) = R \cup {x}
  BY <1>1, <1>2, InAppend DEF Waiting, OrderInv, InOrder
<1>7. Increases(refused'[k]) /\ Increases(asked'[k])
  <2>1. \A y \in R : y < x
    BY <1>4 DEF Ordered
  <2> QED
    BY <1>1, <1>2, <2>1, IncreasesAppend DEF OrderInv
<1>8. OrderInv(k)'
  <2>1. A \cap (R \cup {x}) = {}
    <3> HIDE DEF A, R, W, n, x
    <3> QED
      BY <1>2, <1>3, <1>4 DEF Ordered
  <2>2. ~dead' => Ordered(A \cup (R \cup {x}), G, W, n)
    <3> HIDE DEF A, R, W, n, x, G
    <3> QED
      BY <1>2, <1>3, <1>4, <1>5 DEF Ordered
  <2> QED
    BY <1>1, <1>6, <1>7, <2>1, <2>2 DEF OrderInv
<1>9. \A i \in Ids : /\ Fates(k)'[i] = Fate(A, R \cup {x}, G, W, n, i)
                     /\ Fates(k)[i] = Fate(A, R, {x}, W, n, i)
  BY <1>1, <1>2, <1>6 DEF Fates
<1> HIDE DEF A, R, W, n, x, G
<1>10. /\ Fate(A, R, {x}, W, n, x) = "pending"
       /\ \A i \in Ids : Fate(A, R \cup {x}, G, W, n, i) =
                            IF i = x THEN "refused" ELSE Fate(A, R, {x}, W, n, i)
  BY <1>2, <1>3, <1>4, <1>5 DEF Ordered, Fate
<1>11. Settles(k, x, "pending", "refused")
  BY <1>2, <1>9, <1>10, SettlesOne
<1> QED
  BY <1>2, <1>8, <1>11 DEF Filters

LEMMA ReqWriteOrder ==
    ASSUME TypeOK, NEW k \in Conns, ReqWrite(k), OrderInv(k)
    PROVE  OrderInv(k)' /\ Filters(k)
<1> DEFINE A == In(asked[k])
           R == In(refused[k])
           x == req[k].r.id
           W == Waiting(k)
           n == app[k].sent
<1>1. /\ UNCHANGED <<app, ingress, refused, dead>> /\ ~dead /\ req[k].at = "write"
      /\ asked[k] \in Seq(Ids)
  BY ReqWriteTypes, Numbers DEF ReqWrite
<1>2. Held(k) = {x} /\ x \in Ids
  BY <1>1, HeldOne
<1>3. Held(k)' = {}
  BY ReqWriteTypes, RequestState DEF Held, Resting
<1>4. CASE asked' = asked
  BY <1>1, <1>3, <1>4, DropOrder
<1>5. CASE asked'[k] = Append(asked[k], x)
  <2>3. /\ A \subseteq Int /\ R \subseteq Int /\ W \subseteq Int
        /\ n \in Nat /\ Ids \subseteq Int
    BY OrderTypes, IdsAreNumbers, Numbers
  <2>4. Ordered(A \cup R, {x}, W, n) /\ A \cap R = {}
    BY <1>1, <1>2 DEF OrderInv
  <2>6. Waiting(k)' = W /\ InOrder(k)' /\ In(asked'[k]) = A \cup {x} /\ In(refused'[k]) = R
    BY <1>1, <1>2, <1>5, InAppend DEF Waiting, OrderInv, InOrder
  <2>7. Increases(refused'[k]) /\ Increases(asked'[k])
    <3>1. \A y \in A : y < x
      BY <2>4 DEF Ordered
    <3> QED
      BY <1>1, <1>2, <1>5, <3>1, IncreasesAppend DEF OrderInv
  <2>8. OrderInv(k)'
    <3>1. (A \cup {x}) \cap R = {}
      <4> HIDE DEF A, R, W, n, x
      <4> QED
        BY <1>2, <2>3, <2>4 DEF Ordered
    <3>2. Ordered((A \cup {x}) \cup R, {}, W, n)
      <4> HIDE DEF A, R, W, n, x
      <4> QED
        BY <1>2, <2>3, <2>4 DEF Ordered
    <3> QED
      BY <1>1, <1>3, <2>6, <2>7, <3>1, <3>2 DEF OrderInv
  <2>9. \A i \in Ids : /\ Fates(k)'[i] = Fate(A \cup {x}, R, {}, W, n, i)
                       /\ Fates(k)[i] = Fate(A, R, {x}, W, n, i)
    BY <1>1, <1>2, <1>3, <2>6 DEF Fates
  <2> HIDE DEF A, R, W, n, x
  <2>10. /\ Fate(A, R, {x}, W, n, x) = "pending"
         /\ \A i \in Ids : Fate(A \cup {x}, R, {}, W, n, i) =
                              IF i = x THEN "asked" ELSE Fate(A, R, {x}, W, n, i)
    BY <1>2, <2>3, <2>4 DEF Ordered, Fate
  <2>11. Settles(k, x, "pending", "asked")
    BY <1>2, <2>9, <2>10, SettlesOne
  <2> QED
    BY <1>2, <2>8, <2>11 DEF Filters
<1> QED
  BY <1>4, <1>5, ReqWriteTypes

\* The other connections' requests, and everybody's in any other step.
Still(c) == OrderInv(c)' /\ Fates(c)' = Fates(c)

LEMMA LoopOrder ==
    ASSUME TypeOK, NEW k \in Conns, Send(k) \/ RequestLoop(k), NEW c \in Conns, OrderInv(c)
    PROVE  OrderInv(c)' /\ (c = k => Filters(k)) /\ (c # k => Still(c))
<1>1. CASE c = k
  BY <1>1, SendOrder, ReqReadOrder, ReqLookOrder, ReqRefuseOrder, ReqWriteOrder
     DEF RequestLoop, ReqLook
<1>2. CASE c # k
  <2>1. CASE Send(k)
    <3>1. UNCHANGED <<req, dead, asked, refused>> /\ ingress'[c] = ingress[c] /\ app'[c] = app[c]
      BY <1>2, <2>1, SendTypes DEF Send, history
    <3>2. Held(c)' = Held(c)
      BY <3>1 DEF Held
    <3> QED
      BY <1>2, <3>1, <3>2, OrderStays DEF Still
  <2>2. CASE RequestLoop(k)
    <3>1. /\ ingress'[c] = ingress[c] /\ req'[c] = req[c] /\ app'[c].sent = app[c].sent
          /\ asked'[c] = asked[c] /\ refused'[c] = refused[c] /\ (dead => dead')
      <4>1. CASE ReqRead(k)
        BY <1>2, <4>1, ReqReadTypes DEF ReqRead, LoopOf
      <4>2. CASE ReqLook(k)
        BY <1>2, <4>2, ReqLookTypes DEF LoopOf, pipes
      <4>3. CASE ReqRefuse(k)
        BY <1>2, <4>3, ReqRefuseTypes DEF ReqRefuse, LoopOf, pipes, GivenBack
      <4>4. CASE ReqWrite(k)
        BY <1>2, <4>4, ReqWriteTypes DEF ReqWrite, LoopOf
      <4> QED
        BY <2>2, <4>1, <4>2, <4>3, <4>4 DEF RequestLoop, ReqLook
    <3>2. Held(c)' = Held(c)
      BY <3>1 DEF Held
    <3> QED
      BY <1>2, <3>1, <3>2, OrderStays DEF Still
  <2> QED
    BY <2>1, <2>2
<1> QED
  BY <1>1, <1>2 DEF Still

LEMMA OtherOrder ==
    ASSUME TypeOK, Writing, [Next]_vars, ~\E k \in Conns : Send(k) \/ RequestLoop(k),
           NEW c \in Conns, OrderInv(c)
    PROVE  Still(c)
<1>1. ASSUME UNCHANGED <<ingress, req, asked, refused>>, app'[c].sent = app[c].sent, dead => dead'
      PROVE  Still(c)
  BY <1>1, OrderStays DEF Held, Still
<1>2. ASSUME NEW k \in Conns, AppClose(k) PROVE Still(c)
  BY <1>1, <1>2, AppCloseTypes DEF AppClose, pipes, history
<1>3. ASSUME NEW k \in Conns, Reply(k) \/ ServerClose(k) PROVE Still(c)
  BY <1>1, <1>3 DEF Reply, ServerClose, pipes, history
<1>4. ASSUME NEW k \in Conns, ResponseLoop(k) PROVE Still(c)
  <2>1. CASE RespRead(k)
    BY <1>1, <2>1, RespReadTypes DEF RespRead
  <2>2. CASE RespLook(k)
    BY <1>1, <2>2, RespLookTypes DEF pipes
  <2>3. CASE RespWrite(k)
    BY <1>1, <2>3, RespWriteTypes DEF RespWrite, pipes, GivenBack
  <2> QED
    BY <1>4, <2>1, <2>2, <2>3 DEF ResponseLoop, RespLook
<1>5. ASSUME UNCHANGED loops PROVE Still(c)
  BY <1>1, <1>5 DEF loops, pipes
<1>6. ASSUME Watcher PROVE Still(c)
  BY <1>5, <1>6, StartWatchTypes, RewatchTypes, TakeEventTypes, UnmarshalTypes DEF Watcher
<1>7. ASSUME (\E d \in Docs : Edit(d)) \/ DeleteMap \/ LoseWatch PROVE Still(c)
  BY <1>5, <1>7, EditTypes, DeleteMapTypes, LoseWatchTypes
<1>8. CASE UNCHANGED vars
  BY <1>5, <1>8 DEF vars, loops, history
<1> QED
  BY <1>2, <1>3, <1>4, <1>6, <1>7, <1>8 DEF Next

LEMMA InitOrder == ASSUME Init, NEW k \in Conns PROVE OrderInv(k)
<1>1. /\ asked[k] = <<>> /\ refused[k] = <<>> /\ ingress[k] = <<>> /\ Held(k) = {}
  BY DEF Init, Held, Nothing
<1>2. In(asked[k]) = {} /\ In(refused[k]) = {} /\ Waiting(k) = {}
  BY <1>1 DEF In, Waiting
<1> QED
  BY <1>1, <1>2 DEF OrderInv, InOrder, Increases, Ordered

OrdersInv == TypeOK /\ Writing /\ \A k \in Conns : OrderInv(k)

LEMMA OrderNext == OrdersInv /\ [Next]_vars => OrdersInv'
<1> SUFFICES ASSUME OrdersInv, [Next]_vars PROVE OrdersInv'
  OBVIOUS
<1>1. TypeOK' /\ Writing'
  BY NextTypes, NextWriting DEF OrdersInv
<1>2. ASSUME NEW c \in Conns PROVE OrderInv(c)'
  BY LoopOrder, OtherOrder DEF OrdersInv, Still
<1> QED
  BY <1>1, <1>2 DEF OrdersInv

LEMMA OrderInductive == Spec => []OrdersInv
<1>1. Init => OrdersInv
  BY InitTypes, InitOrder DEF OrdersInv
<1> QED
  BY <1>1, OrderNext, PTL DEF Spec

-----------------------------------------------------------------------------
(* The request loop is a filter *)

Outcomes == [k \in Conns |-> [i \in Ids |-> Outcome(k, i)]]

LEMMA OutcomesAreFates == OrdersInv => Outcomes = [k \in Conns |-> Fates(k)]
<1> SUFFICES ASSUME OrdersInv PROVE Outcomes = [k \in Conns |-> Fates(k)]
  OBVIOUS
<1>1. ASSUME NEW k \in Conns PROVE [i \in Ids |-> Outcome(k, i)] = Fates(k)
  <2>1. \A i \in Ids : Outcome(k, i) = Fates(k)[i]
    BY OutcomeIsFate DEF OrdersInv
  <2> QED
    BY <2>1 DEF Fates
<1> QED
  BY <1>1 DEF Outcomes

LEMMA StepFilters ==
    ASSUME OrdersInv, [Next]_vars
    PROVE  Abstract!Next \/ UNCHANGED Outcomes
<1>1. /\ Outcomes = [c \in Conns |-> Fates(c)]
      /\ Outcomes' = [c \in Conns |-> Fates(c)']
  <2>1. OrdersInv'
    BY OrderNext
  <2>2. (Outcomes = [k \in Conns |-> Fates(k)])'
    BY <2>1, OutcomesAreFates, PTL
  <2> QED
    BY <2>2, OutcomesAreFates
<1>2. CASE ~\E k \in Conns : Send(k) \/ RequestLoop(k)
  <2>1. \A c \in Conns : Fates(c)' = Fates(c)
    BY <1>2, OtherOrder DEF OrdersInv, Still
  <2> QED
    BY <1>1, <2>1
<1>3. ASSUME NEW k \in Conns, Send(k) \/ RequestLoop(k)
      PROVE  Abstract!Next \/ UNCHANGED Outcomes
  <2>1. Filters(k) /\ \A c \in Conns : c # k => Fates(c)' = Fates(c)
    BY <1>3, LoopOrder DEF OrdersInv, Still
  <2>2. Outcomes[k] = Fates(k) /\ Outcomes' = [Outcomes EXCEPT ![k] = Fates(k)']
    BY <1>1, <2>1
  <2>3. CASE Fates(k)' = Fates(k)
    BY <1>1, <2>1, <2>3
  <2>4. ASSUME NEW i \in Ids, NEW from, NEW to, Settles(k, i, from, to)
        PROVE  Abstract!Settle(k, i, from, to)
    <3>1. Outcomes[k][i] = from /\ Outcomes' = [Outcomes EXCEPT ![k][i] = to]
      BY <1>1, <2>2, <2>4 DEF Settles
    <3> QED
      BY <3>1 DEF Abstract!Settle, Outcomes
  <2>5. ASSUME Loses(k) PROVE Abstract!Lose(k)
    <3>1. PICK L \in SUBSET {i \in Ids : Outcomes[k][i] = "pending"} :
            Fates(k)' = [i \in Ids |-> IF i \in L THEN "lost" ELSE Outcomes[k][i]]
      BY <2>2, <2>5 DEF Loses
    <3>2. Outcomes' = [Outcomes EXCEPT ![k] = [i \in Ids |-> IF i \in L THEN "lost" ELSE @[i]]]
      BY <2>2, <3>1
    <3> QED
      BY <3>1, <3>2 DEF Abstract!Lose, Outcomes
  <2> QED
    BY <2>1, <2>3, <2>4, <2>5 DEF Filters, Abstract!Next
<1> QED
  BY <1>2, <1>3

\* The request loop is a filter: each request is forwarded once, or refused once,
\* or lost, whatever happens to the policy, the ends and the process, and however
\* many requests an application sends ahead (http_gateway.go, openai.go).
THEOREM ImplementsFilter == Spec => FilterSpec
<1>1. Init => Abstract!Init
  <2> SUFFICES ASSUME Init PROVE Abstract!Init
    OBVIOUS
  <2>1. OrdersInv
    BY InitTypes, InitOrder DEF OrdersInv
  <2>2. ASSUME NEW k \in Conns PROVE Fates(k) = [i \in Ids |-> "unsent"]
    <3>1. In(asked[k]) = {} /\ In(refused[k]) = {} /\ app[k].sent = 0
      BY DEF Init, In
    <3>2. \A i \in Ids : i > 0
      BY <2>1, IdsAreNumbers DEF OrdersInv
    <3> QED
      BY <3>1, <3>2 DEF Fates, Fate
  <2> QED
    BY <2>1, <2>2, OutcomesAreFates DEF Abstract!Init, Outcomes
<1>2. OrdersInv /\ [Next]_vars => [Abstract!Next]_([k \in Conns |-> [i \in Ids |-> Outcome(k, i)]])
  BY StepFilters DEF Outcomes
<1> QED
  BY <1>1, <1>2, OrderInductive, PTL DEF Spec, FilterSpec, Abstract!Spec

-----------------------------------------------------------------------------
(* The order of the answers.  An application that waits for each answer    *)
(* has at most one request on its way, and while the gateway's process     *)
(* lives, a request or its answer is in at most one place of it: so an     *)
(* answer that comes back is to the last request, and the first to it.     *)

Size(s) == Len(s)   \* kept folded where sizes are added up
IdsOf(s) == {s[n].id : n \in DOMAIN s}
Carrying(k) == IF "r" \in DOMAIN req[k] THEN 1 ELSE 0
Returning(k) == IF "a" \in DOMAIN resp[k] THEN 1 ELSE 0
Returned(k) == IF "a" \in DOMAIN resp[k] THEN {resp[k].a.id} ELSE {}

Places(k) == Size(ingress[k]) + Carrying(k) + Size(egress[k]) + Size(replies[k]) + Returning(k)
Flying(k) == IdsOf(ingress[k]) \cup Held(k) \cup IdsOf(egress[k]) \cup IdsOf(replies[k]) \cup Returned(k)

OneFlies(k, n, got) ==
    /\ Places(k) <= n - Len(got) /\ n <= Len(got) + 1
    /\ \A x \in Flying(k) : x = n
    /\ \A x \in In(got) : x <= n /\ (Len(got) < n => x < n)

FlightInv(k) == Increases(app[k].got) /\ (~dead => OneFlies(k, app[k].sent, app[k].got))

LEMMA PlacesType ==
    ASSUME TypeOK, NEW k \in Conns
    PROVE  /\ Size(ingress[k]) \in Nat /\ Carrying(k) \in {0, 1} /\ Size(egress[k]) \in Nat
           /\ Size(replies[k]) \in Nat /\ Returning(k) \in {0, 1} /\ Places(k) \in Nat
<1>1. /\ Size(ingress[k]) \in Nat /\ Carrying(k) \in {0, 1} /\ Size(egress[k]) \in Nat
      /\ Size(replies[k]) \in Nat /\ Returning(k) \in {0, 1}
  BY Numbers DEF Carrying, Returning, Size
<1>2. Carrying(k) \in Nat /\ Returning(k) \in Nat
  BY <1>1
<1>3. Places(k) \in Nat
  BY <1>1, <1>2 DEF Places
<1> QED
  BY <1>1, <1>3

LEMMA PlacesNext == TypeOK' => \A k \in Conns : Places(k)' \in Nat
<1> SUFFICES ASSUME TypeOK', NEW k \in Conns PROVE Places(k)' \in Nat
  OBVIOUS
<1>1. /\ ingress'[k] \in Seq(Requests) /\ egress'[k] \in Seq(Requests)
      /\ replies'[k] \in Seq(Answers)
  BY DEF TypeOK
<1>2. Size(ingress'[k]) \in Nat /\ Size(egress'[k]) \in Nat /\ Size(replies'[k]) \in Nat
  BY <1>1 DEF Size
<1>3. Carrying(k)' \in Nat /\ Returning(k)' \in Nat
  BY DEF Carrying, Returning
<1> QED
  BY <1>2, <1>3 DEF Places

LEMMA IdsAppend ==
    ASSUME NEW S, NEW s \in Seq(S), NEW x \in S
    PROVE  IdsOf(Append(s, x)) = IdsOf(s) \cup {x.id} /\ Size(Append(s, x)) = Size(s) + 1
<1>1. /\ DOMAIN s = 1 .. Len(s) /\ DOMAIN Append(s, x) = 1 .. Len(s) + 1
      /\ \A i \in 1 .. Len(s) : Append(s, x)[i] = s[i]
      /\ Append(s, x)[Len(s) + 1] = x
      /\ Len(s) \in Nat /\ Len(Append(s, x)) = Len(s) + 1
  BY AppendOne
<1>2. IdsOf(Append(s, x)) = IdsOf(s) \cup {x.id}
  BY <1>1 DEF IdsOf
<1> QED
  BY <1>1, <1>2 DEF Size

LEMMA IdsRest ==
    ASSUME NEW S, NEW s \in Seq(S), NEW n \in 1 .. Len(s)
    PROVE  /\ IdsOf(SubSeq(s, n + 1, Len(s))) \subseteq IdsOf(s) /\ s[1].id \in IdsOf(s)
           /\ Size(SubSeq(s, n + 1, Len(s))) <= Size(s) - 1 /\ Size(SubSeq(s, n + 1, Len(s))) \in Nat
<1>1. /\ DOMAIN SubSeq(s, n + 1, Len(s)) = 1 .. Len(s) - n /\ DOMAIN s = 1 .. Len(s) /\ Len(s) \in Nat
      /\ Len(SubSeq(s, n + 1, Len(s))) = Len(s) - n
      /\ \A i \in 1 .. Len(s) - n : SubSeq(s, n + 1, Len(s))[i] = s[i + n] /\ i + n \in 1 .. Len(s)
  BY Rest
<1>2. 1 \in DOMAIN s /\ Len(s) - n <= Len(s) - 1
  OBVIOUS
<1>3. IdsOf(SubSeq(s, n + 1, Len(s))) \subseteq IdsOf(s)
  <2> DEFINE t == SubSeq(s, n + 1, Len(s))
  <2>1. \A i \in DOMAIN t : \E j \in DOMAIN s : t[i] = s[j]
    BY <1>1
  <2> HIDE DEF t
  <2> QED
    BY <2>1 DEF IdsOf
<1>4. s[1].id \in IdsOf(s)
  BY <1>2 DEF IdsOf
<1>5. Len(s) - n \in Nat
  OBVIOUS
<1> QED
  BY <1>1, <1>2, <1>3, <1>4, <1>5 DEF Size

LEMMA IdsTail ==
    ASSUME NEW S, NEW s \in Seq(S), s # <<>>
    PROVE  /\ IdsOf(Tail(s)) \subseteq IdsOf(s) /\ s[1].id \in IdsOf(s)
           /\ Size(Tail(s)) = Size(s) - 1
<1>1. /\ DOMAIN Tail(s) = 1 .. Len(s) - 1 /\ DOMAIN s = 1 .. Len(s) /\ Len(s) \in Nat /\ Len(s) >= 1
      /\ Len(Tail(s)) = Len(s) - 1
      /\ \A i \in 1 .. Len(s) - 1 : Tail(s)[i] = s[i + 1] /\ i + 1 \in 1 .. Len(s)
  OBVIOUS
<1>2. 1 \in DOMAIN s
  BY <1>1
<1>3. IdsOf(Tail(s)) \subseteq IdsOf(s) /\ s[1].id \in IdsOf(s)
  BY <1>1, <1>2 DEF IdsOf
<1> QED
  BY <1>1, <1>3 DEF Size

\* A step that puts nothing anywhere, or moves it on.
LEMMA FlightStays ==
    ASSUME NEW k, FlightInv(k), app'[k].sent = app[k].sent, app'[k].got = app[k].got,
           Places(k) \in Int, Places(k)' \in Int,
           app[k].sent \in Int, Len(app[k].got) \in Int,
           ~dead' => ~dead /\ Places(k)' <= Places(k) /\ Flying(k)' \subseteq Flying(k)
    PROVE  FlightInv(k)'
BY DEF FlightInv, OneFlies

\* An answer that leaves the gateway.
LEMMA FlightEnds ==
    ASSUME TypeOK, NEW k \in Conns, FlightInv(k), ~dead, NEW x \in Flying(k), x \in Ids, GivenBack(k, x),
           Places(k)' \in Int, Places(k) >= 1,
           ~dead' => Places(k)' <= Places(k) - 1 /\ Flying(k)' \subseteq Flying(k)
    PROVE  FlightInv(k)'
<1> DEFINE n == app[k].sent
           got == app[k].got
           new == app'[k].got
<1>1. /\ got \in Seq(Ids) /\ Len(got) \in Nat /\ n \in Nat /\ Places(k) \in Nat
      /\ Ids \subseteq Int
  BY Numbers, PlacesType, IdsAreNumbers
<1>2. OneFlies(k, n, got) /\ Increases(got)
  BY DEF FlightInv
<1>3. x = n /\ Len(got) < n
  <2>1. Len(got) < n
    BY <1>1, <1>2 DEF OneFlies
  <2> QED
    BY <1>2, <2>1 DEF OneFlies
<1>4. app'[k].sent = n /\ (new = got \/ new = Append(got, x))
  BY DEF GivenBack
<1>5. CASE new = got
  BY <1>1, <1>4, <1>5, FlightStays
<1>6. CASE new = Append(got, x)
  <2>1. Increases(new)
    BY <1>1, <1>2, <1>3, <1>6, IncreasesAppend DEF OneFlies
  <2>2. In(new) = In(got) \cup {x} /\ Len(new) = Len(got) + 1
    BY <1>1, <1>6, InAppend, AppendOne
  <2>3. ASSUME ~dead' PROVE OneFlies(k, app[k].sent, app[k].got)'
    <3>1. Places(k)' <= n - Len(new) /\ n <= Len(new) + 1 /\ ~(Len(new) < n)
      BY <1>1, <1>2, <2>2, <2>3 DEF OneFlies
    <3>2. \A y \in Flying(k)' : y = n
      BY <1>2, <2>3 DEF OneFlies
    <3>3. \A y \in In(new) : y <= n
      <4>1. \A y \in In(got) : y <= n
        BY <1>2 DEF OneFlies
      <4> QED
        BY <1>1, <1>3, <2>2, <4>1
    <3> QED
      BY <1>4, <3>1, <3>2, <3>3 DEF OneFlies
  <2> QED
    BY <1>4, <2>1, <2>3 DEF FlightInv
<1> QED
  BY <1>4, <1>5, <1>6

\* Send: an application that waits sends when nothing flies.
LEMMA SendFlight ==
    ASSUME Ahead = 1, TypeOK, NEW k \in Conns, Send(k), FlightInv(k)
    PROVE  FlightInv(k)'
<1> DEFINE n == app[k].sent
           got == app[k].got
<1>1. /\ ~dead /\ UNCHANGED <<egress, replies, req, resp, dead>> /\ n < Len(got) + 1
      /\ app'[k].sent = n + 1 /\ app'[k].got = got
  BY SendTypes DEF Send, Reaches, Closed
<1>2. /\ got \in Seq(Ids) /\ Len(got) \in Nat /\ n \in Nat /\ Ids \subseteq Int /\ In(got) \subseteq Int
      /\ ingress[k] \in Seq(Requests)
  <2>1. got \in Seq(Ids) /\ Ids \subseteq Int
    BY Numbers, IdsAreNumbers
  <2>2. \A i \in DOMAIN got : got[i] \in Ids
    BY <2>1
  <2>3. In(got) \subseteq Int
    BY <2>1, <2>2 DEF In
  <2> QED
    BY <2>1, <2>3, Numbers
<1>3. PICK r \in Requests : r.id = n + 1 /\ ingress'[k] = Append(ingress[k], r)
  BY SendTypes
<1>4. OneFlies(k, n, got) /\ Increases(got)
  BY <1>1 DEF FlightInv
<1>5. n = Len(got) /\ Places(k) = 0
  BY <1>1, <1>2, <1>4, PlacesType DEF OneFlies
<1>6. /\ Size(ingress[k]) = 0 /\ Carrying(k) = 0 /\ Size(egress[k]) = 0 /\ Size(replies[k]) = 0
      /\ Returning(k) = 0
  <2>1. Carrying(k) \in Nat /\ Returning(k) \in Nat
    BY PlacesType
  <2> QED
    BY <1>5, <2>1, PlacesType DEF Places
<1>7. Places(k)' = 1
  <2>1. Size(ingress'[k]) = 1
    BY <1>2, <1>3, <1>6, IdsAppend
  <2>2. Carrying(k)' = 0 /\ Returning(k)' = 0
    BY <1>1, <1>6 DEF Carrying, Returning
  <2> QED
    BY <1>1, <1>6, <2>1, <2>2 DEF Places
<1>8. Flying(k)' = {n + 1}
  <2>1. egress[k] = <<>> /\ replies[k] = <<>> /\ ingress[k] = <<>>
    BY <1>6, Numbers DEF Size
  <2>2. IdsOf(ingress'[k]) = {n + 1} /\ IdsOf(egress'[k]) = {} /\ IdsOf(replies'[k]) = {}
    <3>1. IdsOf(Append(ingress[k], r)) = IdsOf(ingress[k]) \cup {r.id}
      BY <1>2, IdsAppend
    <3> QED
      BY <1>1, <1>3, <2>1, <3>1 DEF IdsOf
  <2>3. Held(k)' = {} /\ Returned(k)' = {}
    BY <1>1, <1>6 DEF Carrying, Returning, Held, Returned
  <2> QED
    BY <2>2, <2>3 DEF Flying
<1>9. OneFlies(k, app[k].sent, app[k].got)'
  <2>1. \A x \in In(got) : x <= n + 1 /\ x < n + 1
    BY <1>2, <1>4 DEF OneFlies
  <2>2. 1 <= (n + 1) - Len(got) /\ n + 1 <= Len(got) + 1
    BY <1>2, <1>5
  <2>3. Places(k)' <= (n + 1) - Len(got) /\ \A x \in Flying(k)' : x = n + 1
    BY <1>7, <1>8, <2>2
  <2>4. Places(k)' <= app'[k].sent - Len(app'[k].got)
    BY <1>1, <2>3
  <2>5. app'[k].sent <= Len(app'[k].got) + 1
    BY <1>1, <2>2
  <2>6. \A x \in Flying(k)' : x = app'[k].sent
    BY <1>1, <2>3
  <2>7. \A x \in In(app'[k].got) : x <= app'[k].sent /\ x < app'[k].sent
    BY <1>1, <2>1
  <2> QED
    BY <2>4, <2>5, <2>6, <2>7 DEF OneFlies
<1> QED
  BY <1>1, <1>4, <1>9 DEF FlightInv

\* A step that only the places see, each of them a number.
LEMMA FlightMoves ==
    ASSUME TypeOK, TypeOK', NEW k \in Conns, FlightInv(k),
           app'[k].sent = app[k].sent, app'[k].got = app[k].got,
           ~dead' => ~dead /\ Places(k)' <= Places(k) /\ Flying(k)' \subseteq Flying(k)
    PROVE  FlightInv(k)'
<1>1. Places(k) \in Nat /\ app[k].sent \in Nat /\ Len(app[k].got) \in Nat
  BY Numbers, PlacesType
<1>2. Places(k)' \in Nat
  BY PlacesNext
<1> QED
  BY <1>1, <1>2, FlightStays

LEMMA ReplyFlight ==
    ASSUME TypeOK, NEW k \in Conns, Reply(k), FlightInv(k)
    PROVE  FlightInv(k)'
<1>1. /\ UNCHANGED <<app, ingress, req, resp, dead>> /\ ~dead /\ TypeOK'
      /\ egress[k] \in Seq(Requests) /\ replies[k] \in Seq(Answers)
      /\ egress[k] # <<>> /\ egress'[k] = Tail(egress[k])
  BY ReplyTypes, Numbers DEF Reply
<1>2. PICK a \in Answers : a.id = egress[k][1].id /\ replies'[k] = Append(replies[k], a)
  BY ReplyTypes
<1>3. /\ IdsOf(egress'[k]) \subseteq IdsOf(egress[k]) /\ a.id \in IdsOf(egress[k])
      /\ IdsOf(replies'[k]) = IdsOf(replies[k]) \cup {a.id}
      /\ Size(egress'[k]) = Size(egress[k]) - 1
  BY <1>1, <1>2, IdsTail, IdsAppend
<1>4. Size(replies'[k]) = Size(replies[k]) + 1
  BY <1>1, <1>2, IdsAppend
<1>5. Flying(k)' \subseteq Flying(k)
  BY <1>1, <1>3 DEF Flying, Held, Returned
<1>6. Places(k)' <= Places(k)
  <2>1. Carrying(k)' = Carrying(k) /\ Returning(k)' = Returning(k)
    BY <1>1 DEF Carrying, Returning
  <2>2. Carrying(k) \in Nat /\ Returning(k) \in Nat
    BY PlacesType
  <2> QED
    BY <1>1, <1>3, <1>4, <2>1, <2>2, PlacesType DEF Places
<1> QED
  BY <1>1, <1>5, <1>6, FlightMoves

\* A step of the request loop that has the request stay, or go.
LEMMA LoopFlight ==
    ASSUME TypeOK, TypeOK', NEW k \in Conns, FlightInv(k), UNCHANGED <<app, egress, replies, resp>>,
           ~dead' => /\ ~dead /\ ingress'[k] = ingress[k]
                     /\ Held(k)' \subseteq Held(k) /\ Carrying(k)' <= Carrying(k)
    PROVE  FlightInv(k)'
<1>1. ASSUME ~dead' PROVE Places(k)' <= Places(k) /\ Flying(k)' \subseteq Flying(k)
  <2>1. Flying(k)' \subseteq Flying(k)
    BY <1>1 DEF Flying, Returned
  <2>2. Places(k)' <= Places(k)
    <3>1. Returning(k)' = Returning(k)
      BY DEF Returning
    <3>2. /\ Size(ingress[k]) \in Nat /\ Size(egress[k]) \in Nat /\ Size(replies[k]) \in Nat
          /\ Carrying(k) \in Nat /\ Returning(k) \in Nat
      BY PlacesType
    <3>3. Carrying(k)' \in Nat
      BY DEF Carrying
    <3> QED
      BY <1>1, <3>1, <3>2, <3>3 DEF Places
  <2> QED
    BY <2>1, <2>2
<1> QED
  BY <1>1, FlightMoves

LEMMA ReqReadFlight ==
    ASSUME TypeOK, NEW k \in Conns, ReqRead(k), FlightInv(k)
    PROVE  FlightInv(k)'
<1>1. /\ ~dead /\ UNCHANGED <<app, egress, replies, resp, dead>> /\ req[k].at = "read"
      /\ req[k] \in RequestStates /\ TypeOK' /\ ingress[k] \in Seq(Requests) /\ req'[k] \in RequestStates
  BY ReqReadTypes, Numbers DEF ReqRead, TypeOK
<1>2. Held(k) = {} /\ Carrying(k) = 0
  BY <1>1, RequestState DEF Held, Carrying, Resting
<1>3. CASE /\ \E m \in 1 .. Len(ingress[k]) :
                ingress'[k] = SubSeq(ingress[k], m + 1, Len(ingress[k]))
           /\ req'[k].r = ingress[k][1]
           /\ req'[k].at = IF policy.request = None THEN "write" ELSE "judge"
  <2>1. PICK m \in 1 .. Len(ingress[k]) : ingress'[k] = SubSeq(ingress[k], m + 1, Len(ingress[k]))
    BY <1>3
  <2>2. /\ IdsOf(ingress'[k]) \subseteq IdsOf(ingress[k]) /\ ingress[k][1].id \in IdsOf(ingress[k])
        /\ Size(ingress'[k]) <= Size(ingress[k]) - 1
    BY <1>1, <2>1, IdsRest
  <2>3. Held(k)' = {ingress[k][1].id} /\ Carrying(k)' = 1
    BY <1>1, <1>3, RequestState DEF Held, Carrying, Resting
  <2>4. Flying(k)' \subseteq Flying(k)
    BY <1>1, <2>2, <2>3 DEF Flying, Returned
  <2>5. Places(k)' <= Places(k)
    <3>1. Returning(k)' = Returning(k)
      BY <1>1 DEF Returning
    <3>2. /\ Size(ingress[k]) \in Nat /\ Size(egress[k]) \in Nat /\ Size(replies[k]) \in Nat
          /\ Returning(k) \in Nat
      BY PlacesType
    <3>3. Size(ingress'[k]) \in Nat
      BY <1>1, <2>1, IdsRest
    <3> QED
      BY <1>1, <1>2, <2>2, <2>3, <3>1, <3>2, <3>3 DEF Places
  <2> QED
    BY <1>1, <2>4, <2>5, FlightMoves
<1>4. CASE ingress' = ingress /\ req'[k].at \in {"spin", "done"}
  <2>1. Held(k)' = {} /\ Carrying(k)' = 0
    BY <1>1, <1>4, RequestState DEF Held, Carrying, Resting
  <2> QED
    BY <1>1, <1>2, <1>4, <2>1, LoopFlight
<1> QED
  BY <1>3, <1>4, ReqReadTypes

LEMMA ReqLookFlight ==
    ASSUME TypeOK, NEW k \in Conns, ReqLook(k), FlightInv(k)
    PROVE  FlightInv(k)'
<1>1. /\ UNCHANGED <<app, egress, replies, resp, ingress>> /\ ~dead /\ TypeOK'
      /\ req[k] \in RequestStates /\ req'[k] \in RequestStates /\ req[k].at \notin Resting
  <2>1. /\ TypeOK' /\ ~dead /\ req[k].at \notin Resting
        /\ UNCHANGED <<app, egress, replies, resp, ingress>>
    BY ReqLookTypes DEF pipes, Resting
  <2> QED
    BY <2>1 DEF TypeOK
<1>2. Held(k) = {req[k].r.id} /\ Carrying(k) = 1
  BY <1>1, RequestState DEF Held, Carrying
<1>3. CASE dead'
  BY <1>1, <1>3, LoopFlight
<1>4. CASE req'[k] = Nothing
  <2>1. Held(k)' = {} /\ Carrying(k)' = 0
    BY <1>4 DEF Held, Carrying, Nothing
  <2> QED
    BY <1>1, <1>2, <2>1, LoopFlight
<1>5. CASE req'[k].at \notin Resting /\ req'[k].r.id = req[k].r.id
  <2>1. Held(k)' = {req[k].r.id} /\ Carrying(k)' = 1
    BY <1>1, <1>5, RequestState DEF Held, Carrying
  <2> QED
    BY <1>1, <1>2, <2>1, LoopFlight
<1> QED
  BY <1>3, <1>4, <1>5, ReqLookTypes

LEMMA ReqRefuseFlight ==
    ASSUME TypeOK, NEW k \in Conns, ReqRefuse(k), FlightInv(k)
    PROVE  FlightInv(k)'
<1> DEFINE x == req[k].r.id
<1>1. /\ UNCHANGED <<egress, replies, resp, ingress>> /\ ~dead /\ TypeOK'
      /\ req[k] \in RequestStates /\ req[k].at = "refuse" /\ GivenBack(k, x)
  BY ReqRefuseTypes DEF ReqRefuse, pipes, TypeOK
<1>2. Held(k) = {x} /\ x \in Ids /\ Carrying(k) = 1
  BY <1>1, HeldOne, RequestState DEF Carrying, Resting
<1>3. /\ Size(ingress[k]) \in Nat /\ Size(egress[k]) \in Nat /\ Size(replies[k]) \in Nat
      /\ Returning(k) \in Nat
  BY PlacesType
<1>4. x \in Flying(k) /\ Places(k) >= 1
  BY <1>2, <1>3 DEF Flying, Places
<1>5. Places(k)' \in Int
  BY <1>1, PlacesNext
<1>6. ASSUME ~dead' PROVE Places(k)' <= Places(k) - 1 /\ Flying(k)' \subseteq Flying(k)
  <2>1. req'[k] = Nothing
    BY <1>6, ReqRefuseTypes
  <2>2. Held(k)' = {} /\ Carrying(k)' = 0 /\ Returning(k)' = Returning(k) /\ Returned(k)' = Returned(k)
    BY <1>1, <2>1 DEF Held, Carrying, Nothing, Returning, Returned
  <2>3. Places(k)' = Places(k) - 1
    BY <1>1, <1>2, <1>3, <2>2 DEF Places
  <2> QED
    BY <1>1, <1>3, <1>5, <2>2, <2>3 DEF Flying
<1> QED
  BY <1>1, <1>2, <1>4, <1>5, <1>6, FlightEnds

LEMMA ReqWriteFlight ==
    ASSUME TypeOK, NEW k \in Conns, ReqWrite(k), FlightInv(k)
    PROVE  FlightInv(k)'
<1>1. /\ UNCHANGED <<app, ingress, replies, resp, dead>> /\ ~dead /\ TypeOK'
      /\ req[k] \in RequestStates /\ req[k].at = "write" /\ req[k].r \in Requests
      /\ egress[k] \in Seq(Requests)
  <2>1. TypeOK' /\ req[k].at = "write" /\ req[k] \in RequestStates
    BY ReqWriteTypes DEF TypeOK
  <2> QED
    BY <2>1, RequestState, Numbers DEF ReqWrite, Resting
<1>2. Held(k) = {req[k].r.id} /\ Carrying(k) = 1
  BY <1>1, HeldOne, RequestState DEF Carrying, Resting
<1>3. Held(k)' = {} /\ Carrying(k)' = 0
  BY ReqWriteTypes, RequestState DEF Held, Carrying, Resting
<1>4. CASE egress' = egress
  BY <1>1, <1>2, <1>3, <1>4, LoopFlight
<1>5. CASE egress'[k] = Append(egress[k], req[k].r)
  <2>1. IdsOf(egress'[k]) = IdsOf(egress[k]) \cup {req[k].r.id} /\ Size(egress'[k]) = Size(egress[k]) + 1
    BY <1>1, <1>5, IdsAppend
  <2>2. Flying(k)' \subseteq Flying(k)
    BY <1>1, <1>2, <1>3, <2>1 DEF Flying, Returned
  <2>3. Places(k)' <= Places(k)
    <3>1. Returning(k)' = Returning(k)
      BY <1>1 DEF Returning
    <3>2. /\ Size(ingress[k]) \in Nat /\ Size(egress[k]) \in Nat /\ Size(replies[k]) \in Nat
          /\ Returning(k) \in Nat
      BY PlacesType
    <3> QED
      BY <1>1, <1>2, <1>3, <2>1, <3>1, <3>2 DEF Places
  <2> QED
    BY <1>1, <2>2, <2>3, FlightMoves
<1> QED
  BY <1>4, <1>5, ReqWriteTypes

LEMMA RespReadFlight ==
    ASSUME TypeOK, NEW k \in Conns, RespRead(k), FlightInv(k)
    PROVE  FlightInv(k)'
<1>1. /\ ~dead /\ UNCHANGED <<app, ingress, egress, req>> /\ resp[k].at = "read" /\ TypeOK'
      /\ resp[k] \in ResponseStates /\ replies[k] \in Seq(Answers) /\ resp'[k] \in ResponseStates
  <2>1. TypeOK' /\ resp[k].at = "read" /\ req' = req
    BY RespReadTypes DEF BackOf
  <2>2. resp[k] \in ResponseStates /\ resp'[k] \in ResponseStates
    BY <2>1 DEF TypeOK
  <2> QED
    BY <2>1, <2>2, Numbers DEF RespRead
<1>2. Returned(k) = {} /\ Returning(k) = 0
  BY <1>1, ResponseState DEF Returned, Returning, AnsweringAt
<1>3. Held(k)' = Held(k) /\ Carrying(k)' = Carrying(k)
  BY <1>1 DEF Held, Carrying
<1>4. /\ Size(ingress[k]) \in Nat /\ Size(egress[k]) \in Nat /\ Size(replies[k]) \in Nat
      /\ Carrying(k) \in Nat /\ Returning(k) \in Nat
  BY PlacesType
<1>5. CASE /\ \E m \in 1 .. Len(replies[k]) :
                replies'[k] = SubSeq(replies[k], m + 1, Len(replies[k]))
           /\ resp'[k].a = replies[k][1] /\ UNCHANGED dead
           /\ resp'[k].at \in {"filter", "write"}
  <2>1. PICK m \in 1 .. Len(replies[k]) : replies'[k] = SubSeq(replies[k], m + 1, Len(replies[k]))
    BY <1>5
  <2>2. /\ IdsOf(replies'[k]) \subseteq IdsOf(replies[k]) /\ replies[k][1].id \in IdsOf(replies[k])
        /\ Size(replies'[k]) <= Size(replies[k]) - 1 /\ Size(replies'[k]) \in Nat
    BY <1>1, <2>1, IdsRest
  <2>3. Returned(k)' = {replies[k][1].id} /\ Returning(k)' = 1
    BY <1>1, <1>5, ResponseState DEF Returned, Returning, AnsweringAt
  <2>4. Flying(k)' \subseteq Flying(k)
    BY <1>1, <1>3, <2>2, <2>3 DEF Flying
  <2>5. Places(k)' <= Places(k)
    BY <1>1, <1>2, <1>3, <1>4, <2>2, <2>3 DEF Places
  <2> QED
    BY <1>1, <2>4, <2>5, FlightMoves
<1>6. CASE dead'
  BY <1>1, <1>6, FlightMoves
<1>7. CASE resp'[k].at = "done" /\ UNCHANGED replies
  <2>1. Returned(k)' = {} /\ Returning(k)' = 0
    BY <1>1, <1>7, ResponseState DEF Returned, Returning, AnsweringAt
  <2>2. Flying(k)' \subseteq Flying(k)
    BY <1>1, <1>3, <1>7, <2>1 DEF Flying
  <2>3. Places(k)' <= Places(k)
    BY <1>1, <1>2, <1>3, <1>4, <1>7, <2>1 DEF Places
  <2> QED
    BY <1>1, <2>2, <2>3, FlightMoves
<1> QED
  BY <1>5, <1>6, <1>7, RespReadTypes

LEMMA RespLookFlight ==
    ASSUME TypeOK, NEW k \in Conns, RespLook(k), FlightInv(k)
    PROVE  FlightInv(k)'
<1>1. /\ UNCHANGED <<app, pipes, req>> /\ resp[k].at \in AnsweringAt /\ TypeOK' /\ ~dead
      /\ resp[k] \in ResponseStates /\ resp'[k] \in ResponseStates
  <2>1. TypeOK' /\ resp[k].at \in AnsweringAt /\ UNCHANGED <<app, pipes, req>> /\ ~dead
    BY RespLookTypes DEF AnsweringAt
  <2> QED
    BY <2>1 DEF TypeOK
<1>2. Returned(k) = {resp[k].a.id} /\ Returning(k) = 1
  BY <1>1, ResponseState DEF Returned, Returning
<1>3. Held(k)' = Held(k) /\ Carrying(k)' = Carrying(k)
  BY <1>1 DEF Held, Carrying
<1>4. /\ Size(ingress[k]) \in Nat /\ Size(egress[k]) \in Nat /\ Size(replies[k]) \in Nat
      /\ Carrying(k) \in Nat /\ Returning(k) \in Nat
  BY PlacesType
<1>5. CASE dead'
  BY <1>1, <1>5, FlightMoves DEF pipes
<1>6. ASSUME Returned(k)' \subseteq Returned(k), Returning(k)' \in {0, 1} PROVE FlightInv(k)'
  <2>1. Flying(k)' \subseteq Flying(k)
    BY <1>1, <1>3, <1>6 DEF Flying, pipes
  <2>2. Returning(k)' <= Returning(k) /\ Returning(k)' \in Nat
    BY <1>2, <1>6
  <2>3. Places(k)' <= Places(k)
    BY <1>1, <1>3, <1>4, <2>2 DEF Places, pipes
  <2> QED
    BY <1>1, <2>1, <2>3, FlightMoves DEF pipes
<1>7. CASE resp'[k].at \in AnsweringAt /\ resp'[k].a = resp[k].a
  BY <1>1, <1>2, <1>6, <1>7, ResponseState DEF Returned, Returning
<1>8. CASE resp'[k].at = "done"
  BY <1>1, <1>2, <1>6, <1>8, ResponseState DEF Returned, Returning, AnsweringAt
<1> QED
  BY <1>5, <1>7, <1>8, RespLookTypes DEF AnsweringAt

LEMMA RespWriteFlight ==
    ASSUME TypeOK, NEW k \in Conns, RespWrite(k), FlightInv(k)
    PROVE  FlightInv(k)'
<1> DEFINE x == resp[k].a.id
<1>1. /\ ~dead /\ UNCHANGED <<pipes, req, dead>> /\ resp[k].at = "write" /\ TypeOK'
      /\ resp[k] \in ResponseStates /\ resp'[k] \in ResponseStates /\ GivenBack(k, x)
      /\ resp'[k].at \in {"read", "done"} /\ resp[k].a \in Answers
  <2>1. TypeOK' /\ resp[k].at = "write"
    BY RespWriteTypes
  <2>2. resp[k] \in ResponseStates /\ resp'[k] \in ResponseStates
    BY <2>1 DEF TypeOK
  <2> QED
    BY <2>1, <2>2, RespWriteTypes, ResponseState DEF RespWrite, AnsweringAt
<1>2. Returned(k) = {x} /\ Returning(k) = 1 /\ x \in Ids
  BY <1>1, ResponseState DEF Returned, Returning, Answers, AnsweringAt
<1>3. Held(k)' = Held(k) /\ Carrying(k)' = Carrying(k)
  BY <1>1 DEF Held, Carrying
<1>4. /\ Size(ingress[k]) \in Nat /\ Size(egress[k]) \in Nat /\ Size(replies[k]) \in Nat
      /\ Carrying(k) \in Nat
  BY PlacesType
<1>5. Returned(k)' = {} /\ Returning(k)' = 0
  BY <1>1, ResponseState DEF Returned, Returning, AnsweringAt
<1>6. x \in Flying(k) /\ Places(k) >= 1
  BY <1>2, <1>4 DEF Flying, Places
<1>7. Places(k)' = Places(k) - 1
  BY <1>1, <1>2, <1>3, <1>4, <1>5 DEF Places, pipes
<1>8. Flying(k)' \subseteq Flying(k)
  BY <1>1, <1>3, <1>5 DEF Flying, pipes
<1>9. Places(k)' \in Int /\ Places(k)' <= Places(k) - 1
  BY <1>1, <1>7, PlacesNext
<1> QED
  BY <1>1, <1>2, <1>6, <1>8, <1>9, FlightEnds

LEMMA InitFlight == ASSUME Init, NEW k \in Conns PROVE FlightInv(k)
<1>1. /\ ingress[k] = <<>> /\ egress[k] = <<>> /\ replies[k] = <<>>
      /\ app[k].sent = 0 /\ app[k].got = <<>> /\ req[k] = Nothing /\ resp[k] = Nothing
  BY DEF Init
<1>2. /\ Size(ingress[k]) = 0 /\ Size(egress[k]) = 0 /\ Size(replies[k]) = 0
      /\ IdsOf(ingress[k]) = {} /\ IdsOf(egress[k]) = {} /\ IdsOf(replies[k]) = {}
      /\ Len(app[k].got) = 0 /\ In(app[k].got) = {}
  BY <1>1 DEF Size, IdsOf, In
<1>3. Held(k) = {} /\ Carrying(k) = 0 /\ Returned(k) = {} /\ Returning(k) = 0
  BY <1>1 DEF Held, Carrying, Returned, Returning, Nothing
<1>4. Places(k) = 0 /\ Flying(k) = {}
  BY <1>2, <1>3 DEF Places, Flying
<1>5. OneFlies(k, app[k].sent, app[k].got)
  BY <1>1, <1>2, <1>4 DEF OneFlies
<1> QED
  BY <1>1, <1>5 DEF FlightInv, Increases

\* What no step of this connection changes.
LEMMA FlightRests ==
    ASSUME TypeOK, TypeOK', NEW c \in Conns, FlightInv(c),
           ingress'[c] = ingress[c], egress'[c] = egress[c], replies'[c] = replies[c],
           req'[c] = req[c], resp'[c] = resp[c],
           app'[c].sent = app[c].sent, app'[c].got = app[c].got, dead => dead'
    PROVE  FlightInv(c)'
<1>1. Places(c)' = Places(c) /\ Flying(c)' = Flying(c)
  BY DEF Places, Flying, Carrying, Held, Returning, Returned
<1>2. Places(c)' \in Nat
  BY PlacesNext
<1> QED
  BY <1>1, <1>2, FlightMoves

LEMMA NextFlight ==
    ASSUME Ahead = 1, TypeOK, Writing, [Next]_vars, NEW c \in Conns, FlightInv(c)
    PROVE  FlightInv(c)'
<1>0. TypeOK'
  BY NextTypes
<1>1. ASSUME NEW k \in Conns, Send(k) PROVE FlightInv(c)'
  <2>1. CASE c # k
    <3>1. app'[c] = app[c] /\ ingress'[c] = ingress[c]
      BY <1>1, <2>1, SendTypes
    <3>2. UNCHANGED <<egress, replies, req, resp, dead>>
      BY <1>1 DEF Send
    <3> QED
      BY <1>0, <3>1, <3>2, FlightRests
  <2> QED
    BY <1>1, <2>1, SendFlight
<1>2. ASSUME NEW k \in Conns, AppClose(k) PROVE FlightInv(c)'
  <2>1. UNCHANGED <<ingress, egress, replies, req, resp, dead>>
    BY <1>2 DEF AppClose, pipes
  <2>2. app'[c].sent = app[c].sent /\ app'[c].got = app[c].got
    BY <1>2, AppCloseTypes
  <2> QED
    BY <1>0, <2>1, <2>2, FlightRests
<1>3. ASSUME NEW k \in Conns, Reply(k) PROVE FlightInv(c)'
  <2>1. CASE c # k
    <3>1. egress'[c] = egress[c] /\ replies'[c] = replies[c] /\ UNCHANGED <<app, ingress, req, resp, dead>>
      BY <1>3, <2>1, ReplyTypes DEF Reply
    <3> QED
      BY <1>0, <3>1, FlightRests
  <2> QED
    BY <1>3, <2>1, ReplyFlight
<1>4. ASSUME NEW k \in Conns, ServerClose(k) PROVE FlightInv(c)'
  <2>1. UNCHANGED <<app, ingress, egress, replies, req, resp, dead>>
    BY <1>4 DEF ServerClose, pipes
  <2> QED
    BY <1>0, <2>1, FlightRests
<1>5. ASSUME NEW k \in Conns, RequestLoop(k) PROVE FlightInv(c)'
  <2>1. CASE c # k
    <3>1. /\ ingress'[c] = ingress[c] /\ egress'[c] = egress[c] /\ req'[c] = req[c]
          /\ app'[c].sent = app[c].sent /\ app'[c].got = app[c].got
          /\ UNCHANGED <<replies, resp>> /\ (dead => dead')
      <4>1. CASE ReqRead(k)
        BY <2>1, <4>1, ReqReadTypes DEF ReqRead, LoopOf
      <4>2. CASE ReqLook(k)
        BY <2>1, <4>2, ReqLookTypes DEF LoopOf, pipes
      <4>3. CASE ReqRefuse(k)
        BY <2>1, <4>3, ReqRefuseTypes DEF ReqRefuse, LoopOf, pipes, GivenBack
      <4>4. CASE ReqWrite(k)
        BY <2>1, <4>4, ReqWriteTypes DEF ReqWrite, LoopOf
      <4> QED
        BY <1>5, <4>1, <4>2, <4>3, <4>4 DEF RequestLoop, ReqLook
    <3> QED
      BY <1>0, <3>1, FlightRests
  <2>2. CASE c = k
    BY <1>5, <2>2, ReqReadFlight, ReqLookFlight, ReqRefuseFlight, ReqWriteFlight
       DEF RequestLoop, ReqLook
  <2> QED
    BY <2>1, <2>2
<1>6. ASSUME NEW k \in Conns, ResponseLoop(k) PROVE FlightInv(c)'
  <2>1. CASE c # k
    <3>1. /\ replies'[c] = replies[c] /\ resp'[c] = resp[c]
          /\ app'[c].sent = app[c].sent /\ app'[c].got = app[c].got
          /\ UNCHANGED <<ingress, egress, req>> /\ (dead => dead')
      <4>1. CASE RespRead(k)
        BY <2>1, <4>1, RespReadTypes DEF RespRead, BackOf
      <4>2. CASE RespLook(k)
        BY <2>1, <4>2, RespLookTypes DEF BackOf, pipes
      <4>3. CASE RespWrite(k)
        BY <2>1, <4>3, RespWriteTypes DEF RespWrite, BackOf, pipes, GivenBack
      <4> QED
        BY <1>6, <4>1, <4>2, <4>3 DEF ResponseLoop, RespLook
    <3> QED
      BY <1>0, <3>1, FlightRests
  <2>2. CASE c = k
    BY <1>6, <2>2, RespReadFlight, RespLookFlight, RespWriteFlight DEF ResponseLoop, RespLook
  <2> QED
    BY <2>1, <2>2
<1>7. ASSUME UNCHANGED loops PROVE FlightInv(c)'
  BY <1>0, <1>7, FlightRests DEF loops, pipes
<1>8. ASSUME Watcher PROVE FlightInv(c)'
  BY <1>7, <1>8, StartWatchTypes, RewatchTypes, TakeEventTypes, UnmarshalTypes DEF Watcher
<1>9. ASSUME (\E d \in Docs : Edit(d)) \/ DeleteMap \/ LoseWatch PROVE FlightInv(c)'
  BY <1>7, <1>9, EditTypes, DeleteMapTypes, LoseWatchTypes
<1>10. CASE UNCHANGED vars
  BY <1>7, <1>10 DEF vars, loops, history
<1> QED
  BY <1>1, <1>2, <1>3, <1>4, <1>5, <1>6, <1>8, <1>9, <1>10 DEF Next

\* An application that waits for each answer gets them in the order it asked, and the
\* server is asked in that order: over one connection whose two directions are run by
\* two loops, of which both write to the application (http_gateway.go).
THEOREM AnswersAlwaysInOrder == ASSUME Ahead = 1 PROVE Spec => []AnswersInOrder
<1> DEFINE Inv == OrdersInv /\ \A k \in Conns : FlightInv(k)
<1>1. Init => Inv
  BY InitTypes, InitOrder, InitFlight DEF OrdersInv
<1>2. Inv /\ [Next]_vars => Inv'
  BY OrderNext, NextFlight DEF OrdersInv
<1>3. Inv => AnswersInOrder
  BY DEF AnswersInOrder, OrdersInv, OrderInv, FlightInv
<1> HIDE DEF Inv
<1> QED
  BY <1>1, <1>2, <1>3, PTL DEF Spec

=============================================================================
