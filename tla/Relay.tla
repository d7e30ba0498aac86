-------------------------------- MODULE Relay --------------------------------
(***************************************************************************)
(* What two gateways do with the connections of an application: the        *)
(* gateway of the application's pod (src) accepts a redirected connection, *)
(* dials the gateway of the destination's pod (dst), tells it the original *)
(* destination, waits for its 'Y', and then both copy bytes both ways      *)
(* (pkg/connection, pkg/gateway/copy_gateway.go).                          *)
(*                                                                         *)
(*      application --A-- src gateway --M-- dst gateway --T-- server       *)
(*                                                                         *)
(* Each leg is a TCP connection: a pipe up, towards the server, and a pipe *)
(* down.  Bytes are numbered in the order they are written; the messages   *)
(* of the handshake on leg M are Handshake.                                *)
(***************************************************************************)
EXTENDS Integers, Sequences

CONSTANTS
    Conns,      \* the redirected connections of one src gateway
    Mode,       \* "copy", "tls" or "ktls": the transport of leg M
    MaxBytes,   \* how much an application or a server writes
    Refusing    \* the connections whose dial to the dst gateway may fail

ASSUME RelayAssumption ==
    Mode \in {"copy", "tls", "ktls"} /\ MaxBytes \in Nat /\ Refusing \subseteq Conns

VARIABLES
    pipe,   \* per connection and leg, the pipes up and down
    app,    \* what the application does with its socket
    srv,    \* and the server
    src,    \* the handler of the connection in the src gateway
    dst,    \* the handler of the connection in the dst gateway
    side,   \* per handler, the copying goroutine beside it
    sent,   \* how many bytes were written by the application (up) and server (down)
    got,    \* the bytes read by the server (up) and the application (down)
    eof     \* has the server (up), the application (down) read the end?

vars == <<pipe, app, srv, src, dst, side, sent, got, eof>>

Handshake == 0
Legs == {"A", "M", "T"}
Directions == {"up", "down"}
Opposite(dir) == IF dir = "up" THEN "down" ELSE "up"

-----------------------------------------------------------------------------
(* Pipes.  fin: the writer is finished; gone: the reader has closed.        *)

Pipe == [buf |-> <<>>, fin |-> FALSE, gone |-> FALSE]
Readable(k, leg, dir) == pipe[k][leg][dir].buf # <<>>
AtEnd(k, leg, dir) == pipe[k][leg][dir].buf = <<>> /\ pipe[k][leg][dir].fin

\* A reset loses whatever the peer has not received yet.
AfterReset(p) == {[p EXCEPT !.buf = SubSeq(p.buf, 1, n)] : n \in 0 .. Len(p.buf)}

\* The leg after x is written towards dir: a reader that has closed resets.
Put(pair, dir, x) ==
    IF pair[dir].gone
    THEN {[pair EXCEPT ![Opposite(dir)] = p] : p \in AfterReset(pair[Opposite(dir)])}
    ELSE {[pair EXCEPT ![dir].buf = Append(@, x)]}

\* The leg after n items are taken from dir.
Take(pair, dir, n) == [pair EXCEPT ![dir].buf = SubSeq(@, n + 1, Len(@))]

\* The leg after the end that writes towards dir is closed.  Closing a socket
\* that holds unread bytes resets the connection.
Closed(pair, dir) ==
    LET in == pair[Opposite(dir)]
    IN  {[pair EXCEPT ![dir] = [p EXCEPT !.fin = TRUE],
                      ![Opposite(dir)] = [in EXCEPT !.buf = <<>>, !.gone = TRUE]] :
           p \in IF in.buf = <<>> THEN {pair[dir]} ELSE AfterReset(pair[dir])}

Write(k, leg, dir, x) == \E l \in Put(pipe[k][leg], dir, x) : pipe' = [pipe EXCEPT ![k][leg] = l]

-----------------------------------------------------------------------------
Init ==
    /\ pipe = [k \in Conns |-> [leg \in Legs |-> [dir \in Directions |-> Pipe]]]
    /\ app = [k \in Conns |-> "open"]
    /\ srv = [k \in Conns |-> "none"]
    /\ src = [k \in Conns |-> "dial"]
    /\ dst = [k \in Conns |-> "none"]
    /\ side = [k \in Conns |-> [src |-> "none", dst |-> "none"]]
    /\ sent = [k \in Conns |-> [dir \in Directions |-> 0]]
    /\ got = [k \in Conns |-> [dir \in Directions |-> <<>>]]
    /\ eof = [k \in Conns |-> [dir \in Directions |-> FALSE]]

(* The application and the server *)

Send(k, who, leg, dir) ==
    /\ who[k] = "open"
    /\ sent[k][dir] < MaxBytes
    /\ sent' = [sent EXCEPT ![k][dir] = @ + 1]
    /\ Write(k, leg, dir, sent[k][dir] + 1)
    /\ UNCHANGED <<app, srv, src, dst, side, got, eof>>

Receive(k, who, leg, dir) ==
    /\ who[k] \in {"open", "half"}
    /\ ~eof[k][dir]
    /\ \/ /\ Readable(k, leg, dir)
          /\ got' = [got EXCEPT ![k][dir] = Append(@, pipe[k][leg][dir].buf[1])]
          /\ pipe' = [pipe EXCEPT ![k][leg] = Take(@, dir, 1)]
          /\ UNCHANGED eof
       \/ /\ AtEnd(k, leg, dir)
          /\ eof' = [eof EXCEPT ![k][dir] = TRUE]
          /\ UNCHANGED <<got, pipe>>
    /\ UNCHANGED <<app, srv, src, dst, side, sent>>

AppSend(k) == Send(k, app, "A", "up")
AppReceive(k) == Receive(k, app, "A", "down")
ServerSend(k) == Send(k, srv, "T", "down")
ServerReceive(k) == Receive(k, srv, "T", "up")

\* shutdown(SHUT_WR): the application is done writing and goes on reading.
AppShutdown(k) ==
    /\ app[k] = "open"
    /\ app' = [app EXCEPT ![k] = "half"]
    /\ pipe' = [pipe EXCEPT ![k]["A"]["up"].fin = TRUE]
    /\ UNCHANGED <<srv, src, dst, side, sent, got, eof>>

AppClose(k) ==
    /\ app[k] \in {"open", "half"}
    /\ app' = [app EXCEPT ![k] = "closed"]
    /\ \E l \in Closed(pipe[k]["A"], "up") : pipe' = [pipe EXCEPT ![k]["A"] = l]
    /\ UNCHANGED <<srv, src, dst, side, sent, got, eof>>

ServerClose(k) ==
    /\ srv[k] = "open"
    /\ srv' = [srv EXCEPT ![k] = "closed"]
    /\ \E l \in Closed(pipe[k]["T"], "down") : pipe' = [pipe EXCEPT ![k]["T"] = l]
    /\ UNCHANGED <<app, src, dst, side, sent, got, eof>>

-----------------------------------------------------------------------------
(* io.Copy from one leg to another, in both gateways *)

\* One turn of the loop.  A write to a reader that is gone may fail or, the
\* first time, succeed; ends says that the copy is over.
Copy(k, from, to, dir, ends) ==
    \/ /\ Readable(k, from, dir)
       /\ ends => pipe[k][to][dir].gone
       /\ \E l \in Put(pipe[k][to], dir, pipe[k][from][dir].buf[1]) :
            pipe' = [pipe EXCEPT ![k][from] = Take(@, dir, 1), ![k][to] = l]
    \/ /\ AtEnd(k, from, dir)
       /\ ends
       /\ UNCHANGED pipe

\* The pipes of k after a handler has returned: its deferred calls close both
\* of its sockets.
SrcCloses(k) == {[pipe[k] EXCEPT !["A"] = a, !["M"] = m] :
                   a \in Closed(pipe[k]["A"], "down"), m \in Closed(pipe[k]["M"], "up")}
DstCloses(k) == {[pipe[k] EXCEPT !["M"] = m, !["T"] = t] :
                   m \in Closed(pipe[k]["M"], "down"), t \in Closed(pipe[k]["T"], "up")}

\* Mutant: a Read over TLS returns whatever has arrived.
ReadSizes_Coalesced(n) == 1 .. n

\* How much of n waiting items one Read of the handshake returns: TLS returns
\* one record, a socket whatever has arrived.
ReadSizes(n) == IF Mode = "tls" THEN {1} ELSE 1 .. n

ReadMessage(k, dir) ==
    \E n \in ReadSizes(Len(pipe[k]["M"][dir].buf)) :
        /\ Readable(k, "M", dir)
        /\ pipe' = [pipe EXCEPT ![k]["M"] = Take(@, dir, n)]

-----------------------------------------------------------------------------
(* The src gateway: internalProxy, internalkTLSProxy *)

\* Mutant: the copying up starts before the destination is sent.
SrcDial_CopiesFirst(k) ==
    /\ src[k] = "dial"
    /\ src' = [src EXCEPT ![k] = "write"]
    /\ dst' = [dst EXCEPT ![k] = "read"]
    /\ side' = [side EXCEPT ![k].src = "run"]
    /\ UNCHANGED <<pipe, app, srv, sent, got, eof>>

SrcDial(k) ==
    /\ src[k] = "dial"
    /\ src' = [src EXCEPT ![k] = "write"]
    /\ dst' = [dst EXCEPT ![k] = "read"]
    /\ UNCHANGED <<pipe, app, srv, side, sent, got, eof>>

\* A dial that fails ends the handler ...
SrcDialFails(k) ==
    /\ src[k] = "dial" /\ k \in Refusing
    /\ Mode # "copy"
    /\ src' = [src EXCEPT ![k] = "done"]
    /\ \E p \in SrcCloses(k) : pipe' = [pipe EXCEPT ![k] = p]
    /\ UNCHANGED <<app, srv, dst, side, sent, got, eof>>

\* ... and in plain text panics: the kernel closes every socket of the gateway.
SrcPanics(k) ==
    /\ src[k] = "dial" /\ k \in Refusing
    /\ Mode = "copy"
    /\ src' = [c \in Conns |-> "done"]
    /\ side' = [c \in Conns |-> [side[c] EXCEPT !.src = "done"]]
    /\ \E f \in [Conns -> UNION {SrcCloses(c) : c \in Conns}] :
          (\A c \in Conns : f[c] \in SrcCloses(c)) /\ pipe' = f
    /\ UNCHANGED <<app, srv, dst, sent, got, eof>>

SrcWrite(k) ==
    /\ src[k] = "write"
    /\ src' = [src EXCEPT ![k] = "wait"]
    /\ Write(k, "M", "up", Handshake)
    /\ UNCHANGED <<app, srv, dst, side, sent, got, eof>>

\* Mutant: the copying up is never started.
SrcWait_OneWay(k) ==
    /\ src[k] = "wait"
    /\ \/ ReadMessage(k, "down")
       \/ AtEnd(k, "M", "down") /\ UNCHANGED pipe
    /\ src' = [src EXCEPT ![k] = "relay"]
    /\ UNCHANGED <<app, srv, dst, side, sent, got, eof>>

\* The result of the Read is not looked at, be it a 'Y', more than that, or the end.
SrcWait(k) ==
    /\ src[k] = "wait"
    /\ \/ ReadMessage(k, "down")
       \/ AtEnd(k, "M", "down") /\ UNCHANGED pipe
    /\ src' = [src EXCEPT ![k] = "relay"]
    /\ side' = [side EXCEPT ![k].src = "run"]
    /\ UNCHANGED <<app, srv, dst, sent, got, eof>>

\* The handler itself copies down, until it ends; then it returns.
SrcMain(k) ==
    /\ src[k] = "relay"
    /\ \E ends \in BOOLEAN :
        /\ Copy(k, "M", "A", "down", ends)
        /\ src' = [src EXCEPT ![k] = IF ends THEN "close" ELSE "relay"]
    /\ UNCHANGED <<app, srv, dst, side, sent, got, eof>>

\* Mutant: the handler leaves its record behind.
SrcReturn_Stale(k) ==
    /\ src[k] = "close"
    /\ src' = [src EXCEPT ![k] = "none"]
    /\ \E p \in SrcCloses(k) : pipe' = [pipe EXCEPT ![k] = p]
    /\ UNCHANGED <<app, srv, dst, side, sent, got, eof>>

SrcReturn(k) ==
    /\ src[k] = "close"
    /\ src' = [src EXCEPT ![k] = "done"]
    /\ \E p \in SrcCloses(k) : pipe' = [pipe EXCEPT ![k] = p]
    /\ UNCHANGED <<app, srv, dst, side, sent, got, eof>>

\* Mutant: the end of the copying up closes both sockets.
SrcSide_Closes(k) ==
    /\ side[k].src = "run"
    /\ \E ends \in BOOLEAN :
        /\ \/ src[k] # "done" /\ Copy(k, "A", "M", "up", ends) /\ UNCHANGED src
           \/ src[k] # "done" /\ AtEnd(k, "A", "up") /\ ends
              /\ src' = [src EXCEPT ![k] = "done"]
              /\ \E p \in SrcCloses(k) : pipe' = [pipe EXCEPT ![k] = p]
           \/ src[k] = "done" /\ ends /\ UNCHANGED <<pipe, src>>
        /\ side' = [side EXCEPT ![k].src = IF ends THEN "done" ELSE "run"]
    /\ UNCHANGED <<app, srv, dst, sent, got, eof>>

\* The goroutine beside it copies up; nobody waits for it, and it closes nothing.
SrcSide(k) ==
    /\ side[k].src = "run"
    /\ \E ends \in BOOLEAN :
        /\ \/ src[k] # "done" /\ Copy(k, "A", "M", "up", ends)
           \/ src[k] = "done" /\ ends /\ UNCHANGED pipe
        /\ side' = [side EXCEPT ![k].src = IF ends THEN "done" ELSE "run"]
    /\ UNCHANGED <<app, srv, src, dst, sent, got, eof>>

-----------------------------------------------------------------------------
(* The dst gateway: handleExternalConnection, handle(k)TLSExternalConnection *)

\* Without a destination there is nothing to dial, and the handler returns.
DstRead(k) ==
    /\ dst[k] = "read"
    /\ \/ ReadMessage(k, "up") /\ dst' = [dst EXCEPT ![k] = "dial"]
       \/ AtEnd(k, "M", "up") /\ UNCHANGED pipe /\ dst' = [dst EXCEPT ![k] = "close"]
    /\ UNCHANGED <<app, srv, src, side, sent, got, eof>>

DstDial(k) ==
    /\ dst[k] = "dial"
    /\ \/ dst' = [dst EXCEPT ![k] = "reply"] /\ srv' = [srv EXCEPT ![k] = "open"]
       \/ k \in Refusing /\ dst' = [dst EXCEPT ![k] = "close"] /\ UNCHANGED srv
    /\ UNCHANGED <<pipe, app, src, side, sent, got, eof>>

DstReply(k) ==
    /\ dst[k] = "reply"
    /\ Write(k, "M", "down", Handshake)
    /\ dst' = [dst EXCEPT ![k] = "relay"]
    /\ side' = [side EXCEPT ![k].dst = "run"]
    /\ UNCHANGED <<app, srv, src, sent, got, eof>>

\* Mutant: the handler waits for the application in every mode.
MainDir_Up == "up"

\* Which direction the handler copies itself, and which the goroutine beside it:
\* handleTLSExternalConnection copies down, Copy_gateway(target, conn) up.
MainDir == IF Mode = "tls" THEN "down" ELSE "up"

DstCopy(k, dir, ends) ==
    IF dir = "down" THEN Copy(k, "T", "M", "down", ends) ELSE Copy(k, "M", "T", "up", ends)

DstMain(k) ==
    /\ dst[k] = "relay"
    /\ \E ends \in BOOLEAN :
        /\ DstCopy(k, MainDir, ends)
        /\ dst' = [dst EXCEPT ![k] = IF ends THEN "close" ELSE "relay"]
    /\ UNCHANGED <<app, srv, src, side, sent, got, eof>>

DstReturn(k) ==
    /\ dst[k] = "close"
    /\ dst' = [dst EXCEPT ![k] = "done"]
    /\ \E p \in DstCloses(k) : pipe' = [pipe EXCEPT ![k] = p]
    /\ UNCHANGED <<app, srv, src, side, sent, got, eof>>

DstSide(k) ==
    /\ side[k].dst = "run"
    /\ \E ends \in BOOLEAN :
        /\ \/ dst[k] # "done" /\ DstCopy(k, Opposite(MainDir), ends)
           \/ dst[k] = "done" /\ ends /\ UNCHANGED pipe
        /\ side' = [side EXCEPT ![k].dst = IF ends THEN "done" ELSE "run"]
    /\ UNCHANGED <<app, srv, src, dst, sent, got, eof>>

-----------------------------------------------------------------------------
Environment(k) == AppSend(k) \/ AppShutdown(k) \/ AppClose(k) \/ ServerSend(k) \/ ServerClose(k)
Readers(k) == AppReceive(k) \/ ServerReceive(k)
Src(k) == SrcDial(k) \/ SrcDialFails(k) \/ SrcPanics(k) \/ SrcWrite(k) \/ SrcWait(k)
          \/ SrcMain(k) \/ SrcReturn(k)
Dst(k) == DstRead(k) \/ DstDial(k) \/ DstReply(k) \/ DstMain(k) \/ DstReturn(k)

Next == \E k \in Conns : \/ Environment(k) \/ Readers(k)
                         \/ Src(k) \/ SrcSide(k) \/ Dst(k) \/ DstSide(k)

Spec == Init /\ [][Next]_vars

\* Goroutines run, and both ends read what arrives.  Nobody has to write or close.
Fairness ==
    \A k \in Conns :
        /\ WF_vars(Src(k)) /\ WF_vars(SrcSide(k)) /\ WF_vars(Dst(k)) /\ WF_vars(DstSide(k))
        /\ WF_vars(AppReceive(k)) /\ WF_vars(ServerReceive(k))

FairSpec == Spec /\ Fairness

-----------------------------------------------------------------------------
(* Properties *)

Byte == 0 .. MaxBytes
Data == Seq(Byte)
PipeType == [buf : Data, fin : BOOLEAN, gone : BOOLEAN]

TypeOK ==
    /\ pipe \in [Conns -> [Legs -> [Directions -> PipeType]]]
    /\ app \in [Conns -> {"open", "half", "closed"}]
    /\ srv \in [Conns -> {"none", "open", "closed"}]
    /\ src \in [Conns -> {"dial", "write", "wait", "relay", "close", "done"}]
    /\ dst \in [Conns -> {"none", "read", "dial", "reply", "relay", "close", "done"}]
    /\ side \in [Conns -> [src : {"none", "run", "done"}, dst : {"none", "run", "done"}]]
    /\ sent \in [Conns -> [Directions -> 0 .. MaxBytes]]
    /\ got \in [Conns -> [Directions -> Data]]
    /\ eof \in [Conns -> [Directions -> BOOLEAN]]

InOrder(k, dir) == \A i \in DOMAIN got[k][dir] : got[k][dir][i] = i

\* The server reads what the application wrote: in order, nothing missing,
\* nothing of the handshake in it.
UpInOrder == \A k \in Conns : InOrder(k, "up")

\* The application reads what the server wrote, from its first byte.
DownInOrder == \A k \in Conns : InOrder(k, "down")

\* When the application reads the end of a connection that the server closed
\* after reading all there was, the application has read all there was too:
\* no byte is left in a handler that returned.
EndMeansComplete ==
    \A k \in Conns :
        /\ eof[k]["down"] /\ srv[k] = "closed"
        /\ Len(got[k]["up"]) = sent[k]["up"]
        => Len(got[k]["down"]) = sent[k]["down"]

\* A dial failed on the way, of the dst gateway or of the server: nobody is there
\* to read, or ever will be.
Failed(k) == k \in Refusing /\ src[k] = "done" /\ srv[k] = "none"

\* A byte that is written arrives, the application's at the server and the server's
\* at the application, unless one of them closes its socket or a dial failed.
BytesArrive ==
    \A k \in Conns, dir \in Directions, n \in 1 .. MaxBytes :
        sent[k][dir] >= n ~> \/ Len(got[k][dir]) >= n
                             \/ app[k] = "closed" \/ srv[k] = "closed" \/ Failed(k)

\* A server that closes ends the connection of the application ("from the target
\* server to the client (handled by the main goroutine)").
ServerCloseArrives ==
    \A k \in Conns : srv[k] = "closed" ~> eof[k]["down"] \/ app[k] = "closed"

\* An application that is done writing is known to be so by the server.
AppEndArrives ==
    \A k \in Conns : app[k] # "open" /\ srv[k] = "open" ~> eof[k]["up"] \/ srv[k] = "closed"

\* When both ends have closed, both handlers return: no goroutine, no socket leaks.
HandlersReturn ==
    \A k \in Conns : app[k] = "closed" /\ srv[k] = "closed" ~> src[k] = "done" /\ dst[k] \in {"none", "done"}

\* The application reads the end of a connection only when its server has closed,
\* or its own dial has failed: another connection's failed dial does not end it.
EndHasCause ==
    \A k \in Conns \ Refusing : eof[k]["down"] => srv[k] = "closed"
=============================================================================
