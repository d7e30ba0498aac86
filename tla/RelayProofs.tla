----------------------------- MODULE RelayProofs -----------------------------
(***************************************************************************)
(* Proofs about the relay, for any number of connections and bytes.        *)
(***************************************************************************)
EXTENDS Relay, TLAPS

-----------------------------------------------------------------------------
(* What is on its way in one direction: the bytes read (g), and those in   *)
(* the last leg (l), between the gateways (m) and in the first leg (f).     *)

\* The bytes after the n-th.
Continues(s, n) == \A i \in DOMAIN s : s[i] = n + i

\* toL: the last leg still takes bytes; toM: so does the one between the gateways;
\* open: the writer may still write; n: how many bytes it wrote.
Chain(g, l, m, f, toL, toM, open, n) ==
    /\ Continues(g, 0)
    /\ Continues(l, Len(g))
    /\ toL => Continues(m, Len(g) + Len(l))
    /\ toL /\ toM => Continues(f, Len(g) + Len(l) + Len(m))
    /\ toL /\ toM /\ open => Len(g) + Len(l) + Len(m) + Len(f) = n

\* s is what t begins with.
Begins(s, t) == Len(s) <= Len(t) /\ \A i \in DOMAIN s : s[i] = t[i]

\* Fewer bytes, the first one read, one more written.
LEMMA Fewer ==
    ASSUME NEW S, NEW s \in Seq(S), NEW t \in Seq(S), NEW a \in Nat, Continues(t, a), Begins(s, t)
    PROVE  Continues(s, a)
BY DEF Continues, Begins

LEMMA Rest ==
    ASSUME NEW S, NEW s \in Seq(S), s # <<>>
    PROVE  /\ Tail(s) \in Seq(S) /\ Len(Tail(s)) = Len(s) - 1 /\ s[1] \in S /\ Len(s) >= 1
           /\ \A i \in 1 .. Len(s) - 1 : Tail(s)[i] = s[i + 1]
OBVIOUS

LEMMA RestContinues ==
    ASSUME NEW S, NEW s \in Seq(S), s # <<>>, NEW a \in Nat, Continues(s, a)
    PROVE  s[1] = a + 1 /\ Continues(Tail(s), a + 1)
<1>1. /\ Tail(s) \in Seq(S) /\ Len(Tail(s)) = Len(s) - 1 /\ Len(s) >= 1
      /\ \A i \in 1 .. Len(s) - 1 : Tail(s)[i] = s[i + 1]
  BY Rest
<1>2. s[1] = a + 1
  BY <1>1 DEF Continues
<1>3. ASSUME NEW i \in 1 .. Len(s) - 1 PROVE Tail(s)[i] = (a + 1) + i
  BY <1>1, <1>3 DEF Continues
<1> QED
  BY <1>1, <1>2, <1>3 DEF Continues

LEMMA MoreContinues ==
    ASSUME NEW S, NEW s \in Seq(S), NEW a \in Nat, Continues(s, a), NEW x \in S, x = a + Len(s) + 1
    PROVE  Append(s, x) \in Seq(S) /\ Len(Append(s, x)) = Len(s) + 1 /\ Continues(Append(s, x), a)
<1>1. Append(s, x) \in Seq(S) /\ Len(Append(s, x)) = Len(s) + 1
  OBVIOUS
<1>2. ASSUME NEW i \in 1 .. Len(s) + 1 PROVE Append(s, x)[i] = a + i
  <2>1. CASE i = Len(s) + 1
    BY <2>1
  <2>2. CASE i # Len(s) + 1
    <3>1. i \in 1 .. Len(s) /\ Append(s, x)[i] = s[i]
      BY <2>2
    <3> QED
      BY <3>1 DEF Continues
  <2> QED
    BY <2>1, <2>2
<1> QED
  BY <1>1, <1>2 DEF Continues

-----------------------------------------------------------------------------
(* Legs *)

LegType == [Directions -> PipeType]

LEMMA Opposites ==
    ASSUME NEW dir \in Directions
    PROVE  Opposite(dir) \in Directions /\ Opposite(dir) # dir /\ Opposite(Opposite(dir)) = dir
           /\ \A d \in Directions : d = dir \/ d = Opposite(dir)
BY DEF Directions, Opposite

LEMMA Front ==
    ASSUME NEW S, NEW s \in Seq(S), NEW n \in 0 .. Len(s)
    PROVE  SubSeq(s, 1, n) \in Seq(S) /\ Begins(SubSeq(s, 1, n), s)
BY DEF Begins

LEMMA ResetLoses ==
    ASSUME NEW p \in PipeType, NEW q \in AfterReset(p)
    PROVE  q \in PipeType /\ q.fin = p.fin /\ q.gone = p.gone /\ Begins(q.buf, p.buf)
<1>1. PICK n \in 0 .. Len(p.buf) : q = [p EXCEPT !.buf = SubSeq(p.buf, 1, n)]
  BY DEF AfterReset
<1>2. p.buf \in Data
  BY DEF PipeType
<1>3. SubSeq(p.buf, 1, n) \in Data /\ Begins(SubSeq(p.buf, 1, n), p.buf)
  BY <1>2, Front DEF Data
<1> QED
  BY <1>1, <1>3 DEF PipeType

\* A write reaches the peer, or finds it gone and loses what the peer had sent.
LEMMA PutLeg ==
    ASSUME NEW pair \in LegType, NEW dir \in Directions, NEW x \in Byte, NEW l \in Put(pair, dir, x)
    PROVE  /\ l \in LegType
           /\ \A d \in Directions : l[d].fin = pair[d].fin /\ l[d].gone = pair[d].gone
           /\ pair[dir].gone => l[dir] = pair[dir] /\ Begins(l[Opposite(dir)].buf, pair[Opposite(dir)].buf)
           /\ ~pair[dir].gone => l[Opposite(dir)] = pair[Opposite(dir)]
                                 /\ l[dir].buf = Append(pair[dir].buf, x)
<1>0. pair[dir] \in PipeType /\ pair[Opposite(dir)] \in PipeType
  BY Opposites DEF LegType
<1>1. CASE pair[dir].gone
  <2>1. PICK p \in AfterReset(pair[Opposite(dir)]) : l = [pair EXCEPT ![Opposite(dir)] = p]
    BY <1>1 DEF Put
  <2> QED
    BY <1>0, <1>1, <2>1, ResetLoses, Opposites DEF LegType
<1>2. CASE ~pair[dir].gone
  <2>1. l = [pair EXCEPT ![dir] = [pair[dir] EXCEPT !.buf = Append(@, x)]]
    BY <1>2 DEF Put, LegType
  <2>2. [pair[dir] EXCEPT !.buf = Append(@, x)] \in PipeType
    <3>1. pair[dir].buf \in Data /\ Append(pair[dir].buf, x) \in Data
      BY <1>0 DEF PipeType, Data
    <3> QED
      BY <1>0, <3>1 DEF PipeType
  <2>3. /\ l \in LegType /\ l[Opposite(dir)] = pair[Opposite(dir)]
        /\ l[dir] = [pair[dir] EXCEPT !.buf = Append(@, x)]
    BY <2>1, <2>2, Opposites DEF LegType
  <2> QED
    BY <1>0, <1>2, <2>3, Opposites DEF PipeType
<1> QED
  BY <1>1, <1>2

\* One item is taken.
LEMMA TakeLeg ==
    ASSUME NEW pair \in LegType, NEW dir \in Directions, pair[dir].buf # <<>>
    PROVE  LET l == Take(pair, dir, 1)
           IN  /\ l \in LegType
               /\ \A d \in Directions : l[d].fin = pair[d].fin /\ l[d].gone = pair[d].gone
               /\ l[Opposite(dir)] = pair[Opposite(dir)]
               /\ l[dir].buf = Tail(pair[dir].buf)
               /\ pair[dir].buf[1] \in Byte
<1> DEFINE l == Take(pair, dir, 1)
<1>0. pair[dir] \in PipeType /\ pair[dir].buf \in Data
  BY DEF LegType, PipeType
<1>1. l = [pair EXCEPT ![dir] = [pair[dir] EXCEPT !.buf = Tail(@)]]
  <2>1. SubSeq(pair[dir].buf, 1 + 1, Len(pair[dir].buf)) = Tail(pair[dir].buf)
    BY <1>0 DEF Data
  <2>2. l = [pair EXCEPT ![dir] = [pair[dir] EXCEPT !.buf = SubSeq(@, 1 + 1, Len(@))]]
    BY DEF Take, LegType
  <2> QED
    BY <2>1, <2>2
<1>2. Tail(pair[dir].buf) \in Data /\ pair[dir].buf[1] \in Byte
  BY <1>0, Rest DEF Data
<1>3. [pair[dir] EXCEPT !.buf = Tail(@)] \in PipeType
  BY <1>0, <1>2 DEF PipeType
<1>4. l \in LegType /\ l[Opposite(dir)] = pair[Opposite(dir)] /\ l[dir] = [pair[dir] EXCEPT !.buf = Tail(@)]
  BY <1>1, <1>3, Opposites DEF LegType
<1> QED
  BY <1>0, <1>2, <1>4, Opposites DEF PipeType

\* A closed socket takes nothing any more, and what it had sent may be lost.
LEMMA CloseLeg ==
    ASSUME NEW pair \in LegType, NEW dir \in Directions, NEW l \in Closed(pair, dir)
    PROVE  /\ l \in LegType
           /\ l[dir].fin /\ l[dir].gone = pair[dir].gone /\ Begins(l[dir].buf, pair[dir].buf)
           /\ l[Opposite(dir)].gone /\ l[Opposite(dir)].fin = pair[Opposite(dir)].fin
           /\ l[Opposite(dir)].buf = <<>>
           /\ pair[Opposite(dir)].buf = <<>> => l[dir].buf = pair[dir].buf
<1> DEFINE in == pair[Opposite(dir)]
<1>1. in \in PipeType /\ pair[dir] \in PipeType
  BY Opposites DEF LegType
<1>2. PICK p \in IF in.buf = <<>> THEN {pair[dir]} ELSE AfterReset(pair[dir]) :
        l = [pair EXCEPT ![dir] = [p EXCEPT !.fin = TRUE],
                         ![Opposite(dir)] = [in EXCEPT !.buf = <<>>, !.gone = TRUE]]
  BY DEF Closed
<1>3. p \in PipeType /\ p.gone = pair[dir].gone /\ Begins(p.buf, pair[dir].buf)
      /\ (in.buf = <<>> => p = pair[dir])
  BY <1>1, <1>2, ResetLoses DEF Begins, PipeType, Data
<1> HIDE DEF in
<1>4. [p EXCEPT !.fin = TRUE] \in PipeType
  BY <1>3 DEF PipeType
<1>5. [in EXCEPT !.buf = <<>>, !.gone = TRUE] \in PipeType
  <2>1. <<>> \in Data
    BY DEF Data
  <2> QED
    BY <1>1, <2>1 DEF PipeType
<1>6. /\ l \in LegType /\ l[dir] = [p EXCEPT !.fin = TRUE]
      /\ l[Opposite(dir)] = [in EXCEPT !.buf = <<>>, !.gone = TRUE]
  BY <1>2, <1>4, <1>5, Opposites DEF LegType
<1> QED
  BY <1>1, <1>3, <1>6 DEF PipeType, in

-----------------------------------------------------------------------------
(* The invariant *)

FirstLeg(dir) == IF dir = "up" THEN "A" ELSE "T"
LastLeg(dir) == IF dir = "up" THEN "T" ELSE "A"

\* The handler that fills leg M, and the one that empties it.
Near(k, dir) == IF dir = "up" THEN src[k] ELSE dst[k]
Far(k, dir) == IF dir = "up" THEN dst[k] ELSE src[k]

\* The handshake's message has not been read yet.
Pending(k, dir) ==
    Far(k, dir) \in IF dir = "up" THEN {"none", "read", "dial", "reply"} ELSE {"dial", "write", "wait"}

InLast(k, dir) == pipe[k][LastLeg(dir)][dir].buf
InMiddle(k, dir) == pipe[k]["M"][dir].buf
InFirst(k, dir) == pipe[k][FirstLeg(dir)][dir].buf

\* The bytes between the gateways, without the handshake's message.
Between(k, dir) ==
    IF Pending(k, dir) /\ InMiddle(k, dir) # <<>> THEN Tail(InMiddle(k, dir)) ELSE InMiddle(k, dir)

ToLast(k, dir) == Far(k, dir) # "done" /\ ~pipe[k][LastLeg(dir)][dir].gone
ToMiddle(k, dir) == Near(k, dir) # "done"
Writing(k, dir) == IF dir = "up" THEN app[k] = "open" ELSE srv[k] \in {"none", "open"}

Flow(k, dir) ==
    Chain(got[k][dir], InLast(k, dir), Between(k, dir), InFirst(k, dir),
          ToLast(k, dir), ToMiddle(k, dir), Writing(k, dir), sent[k][dir])

\* Who has closed a leg.
Gone(k) ==
    \A dir \in Directions :
        /\ pipe[k][FirstLeg(dir)][dir].gone => Near(k, dir) = "done"
        /\ pipe[k]["M"][dir].gone => Far(k, dir) = "done"
        /\ pipe[k]["M"][dir].fin => Near(k, dir) = "done"
        /\ pipe[k][LastLeg(dir)][dir].gone => ~Writing(k, Opposite(dir))

\* The handshake: nothing is copied into leg M before the message in front of it.
Shakes(k) ==
    /\ src[k] = "dial" => dst[k] = "none"
    /\ src[k] = "write" => dst[k] = "read" /\ InMiddle(k, "up") = <<>>
    /\ dst[k] \in {"none", "read", "dial"} => srv[k] = "none"
    /\ Pending(k, "up") =>
         /\ src[k] \in {"dial", "write", "wait", "done"}
         /\ side[k].src # "run" /\ side[k].dst = "none"
         /\ InMiddle(k, "down") = <<>>
         /\ InMiddle(k, "up") # <<>> => dst[k] = "read" /\ Len(InMiddle(k, "up")) = 1
    /\ src[k] = "wait" =>
         /\ InMiddle(k, "down") # <<>> => InMiddle(k, "down")[1] = Handshake
         /\ dst[k] = "relay" \/ (dst[k] = "close" /\ side[k].dst = "run") => InMiddle(k, "down") # <<>>

Good(k) == Gone(k) /\ Shakes(k) /\ Flow(k, "up") /\ (Mode = "tls" => Flow(k, "down"))

RelayInv == \A k \in Conns : Good(k)

-----------------------------------------------------------------------------
(* The five ways in which a flow goes on *)

LEMMA Parts ==
    ASSUME TypeOK, NEW k \in Conns, NEW dir \in Directions
    PROVE  /\ got[k][dir] \in Seq(Byte) /\ InLast(k, dir) \in Seq(Byte)
           /\ InMiddle(k, dir) \in Seq(Byte) /\ Between(k, dir) \in Seq(Byte)
           /\ InFirst(k, dir) \in Seq(Byte) /\ sent[k][dir] \in Nat
<1>1. \A leg \in Legs : pipe[k][leg][dir].buf \in Seq(Byte)
  BY DEF TypeOK, PipeType, Data
<1>2. FirstLeg(dir) \in Legs /\ LastLeg(dir) \in Legs /\ "M" \in Legs
  BY DEF FirstLeg, LastLeg, Legs
<1>3. Between(k, dir) \in Seq(Byte)
  BY <1>1, <1>2, Rest DEF Between, InMiddle
<1>4. sent[k][dir] \in Nat /\ got[k][dir] \in Seq(Byte)
  BY RelayAssumption DEF TypeOK, Data, Byte
<1> QED
  BY <1>1, <1>2, <1>3, <1>4 DEF InLast, InMiddle, InFirst

LEMMA PartsNext ==
    ASSUME TypeOK', NEW k \in Conns, NEW dir \in Directions
    PROVE  /\ got'[k][dir] \in Seq(Byte) /\ InLast(k, dir)' \in Seq(Byte)
           /\ InMiddle(k, dir)' \in Seq(Byte) /\ Between(k, dir)' \in Seq(Byte)
           /\ InFirst(k, dir)' \in Seq(Byte) /\ sent'[k][dir] \in Nat
<1>1. \A leg \in Legs : pipe'[k][leg][dir].buf \in Seq(Byte)
  BY DEF TypeOK, PipeType, Data
<1>2. FirstLeg(dir) \in Legs /\ LastLeg(dir) \in Legs /\ "M" \in Legs
  BY DEF FirstLeg, LastLeg, Legs
<1>3. Between(k, dir)' \in Seq(Byte)
  BY <1>1, <1>2, Rest DEF Between, InMiddle
<1>4. sent'[k][dir] \in Nat /\ got'[k][dir] \in Seq(Byte)
  BY RelayAssumption DEF TypeOK, Data, Byte
<1> QED
  BY <1>1, <1>2, <1>3, <1>4 DEF InLast, InMiddle, InFirst

\* Nothing is written or read; what is lost takes what follows it along.
LEMMA FlowLoses ==
    ASSUME TypeOK, TypeOK', NEW k \in Conns, NEW dir \in Directions, Flow(k, dir),
           got'[k][dir] = got[k][dir],
           Begins(InLast(k, dir)', InLast(k, dir)),
           ToLast(k, dir)' => /\ ToLast(k, dir) /\ InLast(k, dir)' = InLast(k, dir)
                              /\ Begins(Between(k, dir)', Between(k, dir)),
           ToLast(k, dir)' /\ ToMiddle(k, dir)' =>
               /\ ToMiddle(k, dir) /\ Between(k, dir)' = Between(k, dir)
               /\ Begins(InFirst(k, dir)', InFirst(k, dir)),
           ToLast(k, dir)' /\ ToMiddle(k, dir)' /\ Writing(k, dir)' =>
               /\ Writing(k, dir) /\ InFirst(k, dir)' = InFirst(k, dir)
               /\ sent'[k][dir] = sent[k][dir]
    PROVE  Flow(k, dir)'
<1> DEFINE g == got[k][dir]
           l == InLast(k, dir)
           m == Between(k, dir)
           f == InFirst(k, dir)
           n == sent[k][dir]
           l2 == InLast(k, dir)'
           m2 == Between(k, dir)'
           f2 == InFirst(k, dir)'
<1>1. g \in Seq(Byte) /\ l \in Seq(Byte) /\ m \in Seq(Byte) /\ f \in Seq(Byte) /\ n \in Nat
  BY Parts
<1>2. Len(g) \in Nat /\ Len(l) \in Nat /\ Len(m) \in Nat /\ Len(f) \in Nat
  BY <1>1
<1>3. /\ Continues(g, 0) /\ Continues(l, Len(g))
      /\ ToLast(k, dir) => Continues(m, Len(g) + Len(l))
      /\ ToLast(k, dir) /\ ToMiddle(k, dir) => Continues(f, Len(g) + Len(l) + Len(m))
      /\ ToLast(k, dir) /\ ToMiddle(k, dir) /\ Writing(k, dir) => Len(g) + Len(l) + Len(m) + Len(f) = n
  BY DEF Flow, Chain
<1>4. l2 \in Seq(Byte) /\ m2 \in Seq(Byte) /\ f2 \in Seq(Byte)
  BY PartsNext
<1>5. /\ Begins(l2, l)
      /\ ToLast(k, dir)' => ToLast(k, dir) /\ l2 = l /\ Begins(m2, m)
      /\ ToLast(k, dir)' /\ ToMiddle(k, dir)' => ToMiddle(k, dir) /\ m2 = m /\ Begins(f2, f)
      /\ ToLast(k, dir)' /\ ToMiddle(k, dir)' /\ Writing(k, dir)' =>
           Writing(k, dir) /\ f2 = f /\ sent'[k][dir] = n
  OBVIOUS
<1> HIDE DEF g, l, m, f, n, l2, m2, f2
<1>6. Continues(l2, Len(g))
  BY <1>1, <1>2, <1>3, <1>4, <1>5, Fewer
<1>7. ASSUME ToLast(k, dir)' PROVE Continues(m2, Len(g) + Len(l2))
  BY <1>1, <1>2, <1>3, <1>4, <1>5, <1>7, Fewer
<1>8. ASSUME ToLast(k, dir)', ToMiddle(k, dir)' PROVE Continues(f2, Len(g) + Len(l2) + Len(m2))
  <2>1. l2 = l /\ m2 = m /\ Begins(f2, f) /\ Continues(f, Len(g) + Len(l) + Len(m))
    BY <1>3, <1>5, <1>8
  <2>2. Len(g) + Len(l) + Len(m) \in Nat
    BY <1>2
  <2> QED
    BY <1>1, <1>4, <2>1, <2>2, Fewer
<1>9. ASSUME ToLast(k, dir)', ToMiddle(k, dir)', Writing(k, dir)'
      PROVE  Len(g) + Len(l2) + Len(m2) + Len(f2) = sent'[k][dir]
  BY <1>3, <1>5, <1>9
<1> QED
  BY <1>3, <1>6, <1>7, <1>8, <1>9 DEF Flow, Chain, g, l2, m2, f2

LEMMA BeginsItself == ASSUME NEW S, NEW s \in Seq(S) PROVE Begins(s, s) /\ Begins(<<>>, s)
BY DEF Begins

Still(k, dir) ==
    /\ InLast(k, dir)' = InLast(k, dir) /\ Between(k, dir)' = Between(k, dir)
    /\ InFirst(k, dir)' = InFirst(k, dir)
    /\ ToLast(k, dir)' <=> ToLast(k, dir)
    /\ ToMiddle(k, dir)' <=> ToMiddle(k, dir)
    /\ Writing(k, dir)' <=> Writing(k, dir)
    /\ got'[k][dir] = got[k][dir] /\ sent'[k][dir] = sent[k][dir]

LEMMA FlowStays ==
    ASSUME NEW k \in Conns, NEW dir \in Directions, Flow(k, dir), Still(k, dir)
    PROVE  Flow(k, dir)'
BY DEF Flow, Still, Chain

LEMMA FlowWrites ==
    ASSUME TypeOK, TypeOK', NEW k \in Conns, NEW dir \in Directions, Flow(k, dir),
           Writing(k, dir), sent'[k][dir] = sent[k][dir] + 1, got'[k][dir] = got[k][dir],
           InLast(k, dir)' = InLast(k, dir), Between(k, dir)' = Between(k, dir),
           InFirst(k, dir)' = Append(InFirst(k, dir), sent[k][dir] + 1),
           ToLast(k, dir)' <=> ToLast(k, dir), ToMiddle(k, dir)' <=> ToMiddle(k, dir),
           Writing(k, dir)' <=> Writing(k, dir)
    PROVE  Flow(k, dir)'
<1> DEFINE g == got[k][dir]
           l == InLast(k, dir)
           m == Between(k, dir)
           f == InFirst(k, dir)
           n == sent[k][dir]
<1>1. g \in Seq(Byte) /\ l \in Seq(Byte) /\ m \in Seq(Byte) /\ f \in Seq(Byte) /\ n \in Nat
  BY Parts
<1>2. Len(g) \in Nat /\ Len(l) \in Nat /\ Len(m) \in Nat /\ Len(f) \in Nat
  BY <1>1
<1>3. /\ Continues(g, 0) /\ Continues(l, Len(g))
      /\ ToLast(k, dir) => Continues(m, Len(g) + Len(l))
      /\ ToLast(k, dir) /\ ToMiddle(k, dir) => Continues(f, Len(g) + Len(l) + Len(m))
      /\ ToLast(k, dir) /\ ToMiddle(k, dir) /\ Writing(k, dir) => Len(g) + Len(l) + Len(m) + Len(f) = n
  BY DEF Flow, Chain
<1>4. n + 1 \in Byte
  <2>1. sent'[k][dir] \in Byte /\ sent'[k][dir] = n + 1
    BY DEF TypeOK, Byte
  <2> QED
    BY <2>1
<1> HIDE DEF g, l, m, f, n
<1>5. ASSUME ToLast(k, dir), ToMiddle(k, dir)
      PROVE  /\ Continues(Append(f, n + 1), Len(g) + Len(l) + Len(m))
             /\ Len(g) + Len(l) + Len(m) + Len(Append(f, n + 1)) = n + 1
  <2>1. Continues(f, Len(g) + Len(l) + Len(m)) /\ Len(g) + Len(l) + Len(m) + Len(f) = n
    BY <1>3, <1>5
  <2>2. Len(g) + Len(l) + Len(m) \in Nat /\ n + 1 = (Len(g) + Len(l) + Len(m)) + Len(f) + 1
    BY <1>2, <2>1
  <2>3. /\ Continues(Append(f, n + 1), Len(g) + Len(l) + Len(m))
        /\ Len(Append(f, n + 1)) = Len(f) + 1
    BY <1>1, <1>4, <2>1, <2>2, MoreContinues
  <2> QED
    BY <1>2, <2>2, <2>3
<1> QED
  BY <1>3, <1>5 DEF Flow, Chain, g, l, m, f, n

LEMMA FlowEnters ==
    ASSUME TypeOK, NEW k \in Conns, NEW dir \in Directions, Flow(k, dir),
           sent'[k][dir] = sent[k][dir], got'[k][dir] = got[k][dir],
           ToMiddle(k, dir), InFirst(k, dir) # <<>>,
           InLast(k, dir)' = InLast(k, dir),
           Between(k, dir)' = Append(Between(k, dir), InFirst(k, dir)[1]),
           InFirst(k, dir)' = Tail(InFirst(k, dir)),
           ToLast(k, dir)' <=> ToLast(k, dir), ToMiddle(k, dir)' <=> ToMiddle(k, dir),
           Writing(k, dir)' <=> Writing(k, dir)
    PROVE  Flow(k, dir)'
<1> DEFINE g == got[k][dir]
           l == InLast(k, dir)
           m == Between(k, dir)
           f == InFirst(k, dir)
           n == sent[k][dir]
<1>1. g \in Seq(Byte) /\ l \in Seq(Byte) /\ m \in Seq(Byte) /\ f \in Seq(Byte) /\ n \in Nat
  BY Parts
<1>2. Len(g) \in Nat /\ Len(l) \in Nat /\ Len(m) \in Nat /\ Len(f) \in Nat
  BY <1>1
<1>3. /\ Continues(g, 0) /\ Continues(l, Len(g))
      /\ ToLast(k, dir) => Continues(m, Len(g) + Len(l))
      /\ ToLast(k, dir) /\ ToMiddle(k, dir) => Continues(f, Len(g) + Len(l) + Len(m))
      /\ ToLast(k, dir) /\ ToMiddle(k, dir) /\ Writing(k, dir) => Len(g) + Len(l) + Len(m) + Len(f) = n
  BY DEF Flow, Chain
<1>4. f # <<>>
  OBVIOUS
<1> HIDE DEF g, l, m, f, n
<1>5. Tail(f) \in Seq(Byte) /\ Len(Tail(f)) = Len(f) - 1 /\ f[1] \in Byte
  BY <1>1, <1>4, Rest
<1>6. ASSUME ToLast(k, dir)
      PROVE  /\ Continues(Append(m, f[1]), Len(g) + Len(l))
             /\ Len(Append(m, f[1])) = Len(m) + 1
             /\ Continues(Tail(f), Len(g) + Len(l) + Len(Append(m, f[1])))
  <2>1. Continues(m, Len(g) + Len(l)) /\ Continues(f, Len(g) + Len(l) + Len(m))
    BY <1>3, <1>6
  <2>2. f[1] = Len(g) + Len(l) + Len(m) + 1 /\ Continues(Tail(f), Len(g) + Len(l) + Len(m) + 1)
    <3>1. Len(g) + Len(l) + Len(m) \in Nat
      BY <1>2
    <3> QED
      BY <1>1, <1>4, <2>1, <3>1, RestContinues
  <2>3. Len(Append(m, f[1])) = Len(m) + 1 /\ Continues(Append(m, f[1]), Len(g) + Len(l))
    BY <1>1, <1>2, <1>5, <2>1, <2>2, MoreContinues
  <2>4. Len(g) + Len(l) + Len(Append(m, f[1])) = Len(g) + Len(l) + Len(m) + 1
    BY <1>2, <2>3
  <2> QED
    BY <2>2, <2>3, <2>4
<1>7. ASSUME ToLast(k, dir), Writing(k, dir)
      PROVE  Len(g) + Len(l) + Len(Append(m, f[1])) + Len(Tail(f)) = n
  BY <1>2, <1>3, <1>5, <1>6, <1>7
<1> QED
  BY <1>3, <1>6, <1>7 DEF Flow, Chain, g, l, m, f, n

LEMMA FlowCrosses ==
    ASSUME TypeOK, NEW k \in Conns, NEW dir \in Directions, Flow(k, dir),
           sent'[k][dir] = sent[k][dir], got'[k][dir] = got[k][dir],
           ToLast(k, dir), Between(k, dir) # <<>>,
           InLast(k, dir)' = Append(InLast(k, dir), Between(k, dir)[1]),
           Between(k, dir)' = Tail(Between(k, dir)),
           InFirst(k, dir)' = InFirst(k, dir),
           ToLast(k, dir)' <=> ToLast(k, dir), ToMiddle(k, dir)' <=> ToMiddle(k, dir),
           Writing(k, dir)' <=> Writing(k, dir)
    PROVE  Flow(k, dir)'
<1> DEFINE g == got[k][dir]
           l == InLast(k, dir)
           m == Between(k, dir)
           f == InFirst(k, dir)
           n == sent[k][dir]
<1>1. g \in Seq(Byte) /\ l \in Seq(Byte) /\ m \in Seq(Byte) /\ f \in Seq(Byte) /\ n \in Nat
  BY Parts
<1>2. Len(g) \in Nat /\ Len(l) \in Nat /\ Len(m) \in Nat /\ Len(f) \in Nat
  BY <1>1
<1>3. /\ Continues(g, 0) /\ Continues(l, Len(g))
      /\ ToLast(k, dir) => Continues(m, Len(g) + Len(l))
      /\ ToLast(k, dir) /\ ToMiddle(k, dir) => Continues(f, Len(g) + Len(l) + Len(m))
      /\ ToLast(k, dir) /\ ToMiddle(k, dir) /\ Writing(k, dir) => Len(g) + Len(l) + Len(m) + Len(f) = n
  BY DEF Flow, Chain
<1>4. m # <<>>
  OBVIOUS
<1> HIDE DEF g, l, m, f, n
<1>5. Tail(m) \in Seq(Byte) /\ Len(Tail(m)) = Len(m) - 1 /\ m[1] \in Byte
  BY <1>1, <1>4, Rest
<1>6. m[1] = Len(g) + Len(l) + 1 /\ Continues(Tail(m), Len(g) + Len(l) + 1)
  BY <1>1, <1>2, <1>3, <1>4, RestContinues
<1>7. Len(Append(l, m[1])) = Len(l) + 1 /\ Continues(Append(l, m[1]), Len(g))
  BY <1>1, <1>2, <1>3, <1>5, <1>6, MoreContinues
<1>8. /\ Len(g) + Len(Append(l, m[1])) = Len(g) + Len(l) + 1
      /\ Len(g) + Len(Append(l, m[1])) + Len(Tail(m)) = Len(g) + Len(l) + Len(m)
  BY <1>2, <1>5, <1>7
<1>9. Continues(Tail(m), Len(g) + Len(Append(l, m[1])))
  BY <1>6, <1>8
<1> QED
  BY <1>3, <1>7, <1>8, <1>9 DEF Flow, Chain, g, l, m, f, n

LEMMA FlowArrives ==
    ASSUME TypeOK, NEW k \in Conns, NEW dir \in Directions, Flow(k, dir),
           sent'[k][dir] = sent[k][dir], InLast(k, dir) # <<>>,
           got'[k][dir] = Append(got[k][dir], InLast(k, dir)[1]),
           InLast(k, dir)' = Tail(InLast(k, dir)), Between(k, dir)' = Between(k, dir),
           InFirst(k, dir)' = InFirst(k, dir),
           ToLast(k, dir)' <=> ToLast(k, dir), ToMiddle(k, dir)' <=> ToMiddle(k, dir),
           Writing(k, dir)' <=> Writing(k, dir)
    PROVE  Flow(k, dir)'
<1> DEFINE g == got[k][dir]
           l == InLast(k, dir)
           m == Between(k, dir)
           f == InFirst(k, dir)
           n == sent[k][dir]
<1>1. g \in Seq(Byte) /\ l \in Seq(Byte) /\ m \in Seq(Byte) /\ f \in Seq(Byte) /\ n \in Nat
  BY Parts
<1>2. Len(g) \in Nat /\ Len(l) \in Nat /\ Len(m) \in Nat /\ Len(f) \in Nat
  BY <1>1
<1>3. /\ Continues(g, 0) /\ Continues(l, Len(g))
      /\ ToLast(k, dir) => Continues(m, Len(g) + Len(l))
      /\ ToLast(k, dir) /\ ToMiddle(k, dir) => Continues(f, Len(g) + Len(l) + Len(m))
      /\ ToLast(k, dir) /\ ToMiddle(k, dir) /\ Writing(k, dir) => Len(g) + Len(l) + Len(m) + Len(f) = n
  BY DEF Flow, Chain
<1>4. l # <<>>
  OBVIOUS
<1> HIDE DEF g, l, m, f, n
<1>5. Tail(l) \in Seq(Byte) /\ Len(Tail(l)) = Len(l) - 1 /\ l[1] \in Byte
  BY <1>1, <1>4, Rest
<1>6. l[1] = Len(g) + 1 /\ Continues(Tail(l), Len(g) + 1)
  BY <1>1, <1>2, <1>3, <1>4, RestContinues
<1>7. Len(Append(g, l[1])) = Len(g) + 1 /\ Continues(Append(g, l[1]), 0)
  BY <1>1, <1>2, <1>3, <1>5, <1>6, MoreContinues
<1>8. Len(Append(g, l[1])) + Len(Tail(l)) = Len(g) + Len(l)
  BY <1>2, <1>5, <1>7
<1> QED
  BY <1>3, <1>6, <1>7, <1>8 DEF Flow, Chain, g, l, m, f, n

-----------------------------------------------------------------------------
(* What a step does to one connection *)

LEMMA Directed ==
    ASSUME NEW k \in Conns, NEW dir \in Directions
    PROVE  /\ FirstLeg(dir) \in Legs /\ LastLeg(dir) \in Legs /\ "M" \in Legs
           /\ FirstLeg(dir) # "M" /\ LastLeg(dir) # "M" /\ FirstLeg(dir) # LastLeg(dir)
           /\ FirstLeg(Opposite(dir)) = LastLeg(dir) /\ LastLeg(Opposite(dir)) = FirstLeg(dir)
           /\ Near(k, Opposite(dir)) = Far(k, dir) /\ Far(k, Opposite(dir)) = Near(k, dir)
           /\ \A leg \in Legs : leg \in {FirstLeg(dir), "M", LastLeg(dir)}
BY DEF Directions, Legs, Opposite, FirstLeg, LastLeg, Near, Far

\* No handler returns or reads the handshake; the ends do as before.
SameHandlers(k) ==
    \A dir \in Directions : /\ Near(k, dir)' = "done" <=> Near(k, dir) = "done"
                            /\ Pending(k, dir)' <=> Pending(k, dir)
SameEnds(k) == app'[k] = app[k] /\ srv'[k] = srv[k]
SameData(k) == sent'[k] = sent[k] /\ got'[k] = got[k]

LEMMA HandlersKnown ==
    ASSUME NEW k \in Conns, SameHandlers(k)
    PROVE  \A dir \in Directions :
             /\ Near(k, dir)' = "done" <=> Near(k, dir) = "done"
             /\ Far(k, dir)' = "done" <=> Far(k, dir) = "done"
             /\ Pending(k, dir)' <=> Pending(k, dir)
             /\ ToMiddle(k, dir)' <=> ToMiddle(k, dir)
             /\ InMiddle(k, dir)' = InMiddle(k, dir) => Between(k, dir)' = Between(k, dir)
<1> SUFFICES ASSUME NEW dir \in Directions
             PROVE  /\ Near(k, dir)' = "done" <=> Near(k, dir) = "done"
                    /\ Far(k, dir)' = "done" <=> Far(k, dir) = "done"
                    /\ Pending(k, dir)' <=> Pending(k, dir)
                    /\ ToMiddle(k, dir)' <=> ToMiddle(k, dir)
                    /\ InMiddle(k, dir)' = InMiddle(k, dir) => Between(k, dir)' = Between(k, dir)
  OBVIOUS
<1>1. Near(k, Opposite(dir)) = Far(k, dir) /\ Near(k, Opposite(dir))' = Far(k, dir)'
  BY Directed DEF Directions, Opposite, Near, Far
<1> QED
  BY <1>1, Opposites DEF SameHandlers, ToMiddle, Between

LEMMA EndsKnown ==
    ASSUME NEW k \in Conns, SameEnds(k)
    PROVE  \A dir \in Directions : Writing(k, dir)' <=> Writing(k, dir)
BY DEF SameEnds, Writing

\* A leg whose ends do not change.
SameClosed(k, leg) ==
    \A dir \in Directions : /\ pipe'[k][leg][dir].fin = pipe[k][leg][dir].fin
                            /\ pipe'[k][leg][dir].gone = pipe[k][leg][dir].gone

LEMMA NothingCloses ==
    ASSUME NEW k \in Conns, Gone(k), SameHandlers(k), SameEnds(k),
           \A leg \in Legs : SameClosed(k, leg)
    PROVE  /\ Gone(k)'
           /\ \A dir \in Directions : ToLast(k, dir)' <=> ToLast(k, dir)
<1>1. ASSUME NEW dir \in Directions
      PROVE  /\ pipe'[k][FirstLeg(dir)][dir].gone = pipe[k][FirstLeg(dir)][dir].gone
             /\ pipe'[k]["M"][dir].gone = pipe[k]["M"][dir].gone
             /\ pipe'[k]["M"][dir].fin = pipe[k]["M"][dir].fin
             /\ pipe'[k][LastLeg(dir)][dir].gone = pipe[k][LastLeg(dir)][dir].gone
             /\ Near(k, dir)' = "done" <=> Near(k, dir) = "done"
             /\ Far(k, dir)' = "done" <=> Far(k, dir) = "done"
             /\ Writing(k, Opposite(dir))' <=> Writing(k, Opposite(dir))
  BY Directed, Opposites, HandlersKnown, EndsKnown DEF SameClosed
<1> QED
  BY <1>1 DEF Gone, ToLast

\* An end writes towards dir.
LEMMA SendKeeps ==
    ASSUME TypeOK, TypeOK', NEW k \in Conns, NEW dir \in Directions, Gone(k),
           SameHandlers(k), SameEnds(k), got'[k] = got[k],
           sent'[k] = [sent[k] EXCEPT ![dir] = @ + 1], Writing(k, dir),
           pipe'[k][FirstLeg(dir)] \in Put(pipe[k][FirstLeg(dir)], dir, sent[k][dir] + 1),
           \A leg \in Legs : leg # FirstLeg(dir) => pipe'[k][leg] = pipe[k][leg]
    PROVE  /\ Gone(k)' /\ \A d \in Directions : InMiddle(k, d)' = InMiddle(k, d)
           /\ \A d \in Directions : Flow(k, d) => Flow(k, d)'
<1> DEFINE opp == Opposite(dir)
<1>0. /\ pipe[k][FirstLeg(dir)] \in LegType
      /\ opp \in Directions /\ opp # dir /\ \A d \in Directions : d = dir \/ d = opp
      /\ sent[k] \in [Directions -> Byte] /\ sent'[k] \in [Directions -> Byte]
  BY Directed, Opposites DEF TypeOK, LegType, Byte
<1>1. sent'[k][dir] = sent[k][dir] + 1 /\ sent'[k][opp] = sent[k][opp] /\ sent[k][dir] + 1 \in Byte
  BY <1>0
<1>2. /\ SameClosed(k, FirstLeg(dir))
      /\ pipe[k][FirstLeg(dir)][dir].gone =>
           /\ InFirst(k, dir)' = InFirst(k, dir)
           /\ Begins(InLast(k, opp)', InLast(k, opp))
      /\ ~pipe[k][FirstLeg(dir)][dir].gone =>
           /\ InFirst(k, dir)' = Append(InFirst(k, dir), sent[k][dir] + 1)
           /\ InLast(k, opp)' = InLast(k, opp)
  <2> DEFINE pair == pipe[k][FirstLeg(dir)]
             l == pipe'[k][FirstLeg(dir)]
  <2>1. /\ \A d \in Directions : l[d].fin = pair[d].fin /\ l[d].gone = pair[d].gone
        /\ pair[dir].gone => l[dir] = pair[dir] /\ Begins(l[opp].buf, pair[opp].buf)
        /\ ~pair[dir].gone => l[opp] = pair[opp] /\ l[dir].buf = Append(pair[dir].buf, sent[k][dir] + 1)
    <3>1. pair \in LegType /\ l \in Put(pair, dir, sent[k][dir] + 1) /\ sent[k][dir] + 1 \in Byte
      BY <1>0, <1>1
    <3> HIDE DEF pair, l
    <3> QED
      BY <3>1, PutLeg
  <2>2. FirstLeg(dir) \in Legs /\ LastLeg(opp) = FirstLeg(dir)
    BY Directed
  <2> QED
    BY <2>1, <2>2 DEF SameClosed, InFirst, InLast
<1>3. /\ \A leg \in Legs : SameClosed(k, leg)
      /\ \A d \in Directions : InMiddle(k, d)' = InMiddle(k, d)
      /\ InLast(k, dir)' = InLast(k, dir) /\ InFirst(k, opp)' = InFirst(k, opp)
  BY <1>0, <1>2, Directed DEF SameClosed, InMiddle, InLast, InFirst
<1>4. /\ Gone(k)'
      /\ \A d \in Directions : /\ Between(k, d)' = Between(k, d)
                               /\ ToLast(k, d)' <=> ToLast(k, d)
                               /\ ToMiddle(k, d)' <=> ToMiddle(k, d)
                               /\ Writing(k, d)' <=> Writing(k, d)
                               /\ got'[k][d] = got[k][d]
  BY <1>3, NothingCloses, HandlersKnown, EndsKnown
<1>5. CASE pipe[k][FirstLeg(dir)][dir].gone
  <2>1. Near(k, dir) = "done" /\ ~ToMiddle(k, dir) /\ ~ToLast(k, opp)
    BY <1>5, Directed DEF Gone, ToMiddle, ToLast
  <2>2. Flow(k, dir) => Flow(k, dir)'
    BY <1>3, <1>4, <2>1, FlowLoses, Parts, BeginsItself
  <2>3. Flow(k, opp) => Flow(k, opp)'
    BY <1>0, <1>2, <1>4, <1>5, <2>1, FlowLoses
  <2> QED
    BY <1>0, <1>3, <1>4, <2>2, <2>3
<1>6. CASE ~pipe[k][FirstLeg(dir)][dir].gone
  <2>1. Flow(k, dir) => Flow(k, dir)'
    BY <1>1, <1>2, <1>3, <1>4, <1>6, FlowWrites
  <2>2. Flow(k, opp) => Flow(k, opp)'
    BY <1>0, <1>1, <1>2, <1>3, <1>4, <1>6, FlowStays DEF Still
  <2> QED
    BY <1>0, <1>3, <1>4, <2>1, <2>2
<1> QED
  BY <1>5, <1>6

\* An end reads from dir.
LEMMA ReceiveKeeps ==
    ASSUME TypeOK, NEW k \in Conns, NEW dir \in Directions, Gone(k),
           SameHandlers(k), SameEnds(k), sent'[k] = sent[k], InLast(k, dir) # <<>>,
           got'[k] = [got[k] EXCEPT ![dir] = Append(@, InLast(k, dir)[1])],
           pipe'[k][LastLeg(dir)] = Take(pipe[k][LastLeg(dir)], dir, 1),
           \A leg \in Legs : leg # LastLeg(dir) => pipe'[k][leg] = pipe[k][leg]
    PROVE  /\ Gone(k)' /\ \A d \in Directions : InMiddle(k, d)' = InMiddle(k, d)
           /\ \A d \in Directions : Flow(k, d) => Flow(k, d)'
<1> DEFINE opp == Opposite(dir)
           pair == pipe[k][LastLeg(dir)]
           l == pipe'[k][LastLeg(dir)]
<1>0. /\ pair \in LegType /\ got[k] \in [Directions -> Data]
      /\ opp \in Directions /\ opp # dir /\ \A d \in Directions : d = dir \/ d = opp
  BY Directed, Opposites DEF TypeOK, LegType
<1>1. got'[k][dir] = Append(got[k][dir], InLast(k, dir)[1]) /\ got'[k][opp] = got[k][opp]
  BY <1>0
<1>2. /\ \A d \in Directions : l[d].fin = pair[d].fin /\ l[d].gone = pair[d].gone
      /\ l[opp] = pair[opp] /\ l[dir].buf = Tail(pair[dir].buf)
  <2>1. pair[dir].buf # <<>> /\ l = Take(pair, dir, 1)
    BY DEF InLast
  <2> HIDE DEF pair, l
  <2> QED
    BY <1>0, <2>1, TakeLeg
<1>3. /\ \A leg \in Legs : SameClosed(k, leg)
      /\ \A d \in Directions : InMiddle(k, d)' = InMiddle(k, d)
      /\ InLast(k, dir)' = Tail(InLast(k, dir)) /\ InFirst(k, dir)' = InFirst(k, dir)
      /\ InLast(k, opp)' = InLast(k, opp) /\ InFirst(k, opp)' = InFirst(k, opp)
  BY <1>0, <1>2, Directed DEF SameClosed, InMiddle, InLast, InFirst
<1>4. /\ Gone(k)'
      /\ \A d \in Directions : /\ Between(k, d)' = Between(k, d)
                               /\ ToLast(k, d)' <=> ToLast(k, d)
                               /\ ToMiddle(k, d)' <=> ToMiddle(k, d)
                               /\ Writing(k, d)' <=> Writing(k, d)
                               /\ sent'[k][d] = sent[k][d]
  BY <1>3, NothingCloses, HandlersKnown, EndsKnown
<1>5. Flow(k, dir) => Flow(k, dir)'
  BY <1>1, <1>3, <1>4, FlowArrives
<1>6. Flow(k, opp) => Flow(k, opp)'
  BY <1>0, <1>1, <1>3, <1>4, FlowStays DEF Still
<1> QED
  BY <1>0, <1>3, <1>4, <1>5, <1>6

\* The end that writes towards dir closes its socket.
LEMMA EndCloses ==
    ASSUME TypeOK, TypeOK', NEW k \in Conns, NEW dir \in Directions, Gone(k),
           SameHandlers(k), SameData(k), ~Writing(k, dir)',
           Writing(k, Opposite(dir))' <=> Writing(k, Opposite(dir)),
           pipe'[k][FirstLeg(dir)] \in Closed(pipe[k][FirstLeg(dir)], dir),
           \A leg \in Legs : leg # FirstLeg(dir) => pipe'[k][leg] = pipe[k][leg]
    PROVE  /\ Gone(k)' /\ \A d \in Directions : InMiddle(k, d)' = InMiddle(k, d)
           /\ \A d \in Directions : Flow(k, d) => Flow(k, d)'
<1> DEFINE opp == Opposite(dir)
           pair == pipe[k][FirstLeg(dir)]
           l == pipe'[k][FirstLeg(dir)]
<1>0. /\ pair \in LegType
      /\ opp \in Directions /\ opp # dir /\ \A d \in Directions : d = dir \/ d = opp
      /\ Opposite(opp) = dir
  BY Directed, Opposites DEF TypeOK, LegType
<1>1. /\ l[dir].gone = pair[dir].gone /\ Begins(l[dir].buf, pair[dir].buf)
      /\ l[opp].gone /\ l[opp].buf = <<>>
  <2>1. l \in Closed(pair, dir)
    OBVIOUS
  <2> HIDE DEF pair, l
  <2> QED
    BY <1>0, <2>1, CloseLeg
<1>2. /\ pipe'[k]["M"] = pipe[k]["M"] /\ pipe'[k][LastLeg(dir)] = pipe[k][LastLeg(dir)]
      /\ FirstLeg(opp) = LastLeg(dir) /\ LastLeg(opp) = FirstLeg(dir)
      /\ \A d \in Directions : /\ Near(k, d)' = "done" <=> Near(k, d) = "done"
                               /\ Far(k, d)' = "done" <=> Far(k, d) = "done"
                               /\ ToMiddle(k, d)' <=> ToMiddle(k, d)
                               /\ InMiddle(k, d)' = InMiddle(k, d)
                               /\ Between(k, d)' = Between(k, d)
                               /\ sent'[k][d] = sent[k][d] /\ got'[k][d] = got[k][d]
  BY Directed, HandlersKnown DEF InMiddle, SameData
<1>3. Gone(k)'
  <2>1. ASSUME NEW d \in Directions, d = dir
        PROVE  /\ pipe'[k][FirstLeg(d)][d].gone => Near(k, d)' = "done"
               /\ pipe'[k]["M"][d].gone => Far(k, d)' = "done"
               /\ pipe'[k]["M"][d].fin => Near(k, d)' = "done"
               /\ pipe'[k][LastLeg(d)][d].gone => ~Writing(k, Opposite(d))'
    BY <1>1, <1>2, <2>1 DEF Gone
  <2>2. ASSUME NEW d \in Directions, d = opp
        PROVE  /\ pipe'[k][FirstLeg(d)][d].gone => Near(k, d)' = "done"
               /\ pipe'[k]["M"][d].gone => Far(k, d)' = "done"
               /\ pipe'[k]["M"][d].fin => Near(k, d)' = "done"
               /\ pipe'[k][LastLeg(d)][d].gone => ~Writing(k, Opposite(d))'
    BY <1>0, <1>2, <2>2 DEF Gone
  <2> QED
    BY <1>0, <2>1, <2>2 DEF Gone
<1>4. Flow(k, dir) => Flow(k, dir)'
  <2>1. /\ InLast(k, dir)' = InLast(k, dir) /\ Begins(InFirst(k, dir)', InFirst(k, dir))
        /\ ToLast(k, dir)' <=> ToLast(k, dir)
    BY <1>1, <1>2 DEF InLast, InFirst, ToLast
  <2> QED
    BY <1>2, <2>1, FlowLoses, Parts, BeginsItself
<1>5. Flow(k, opp) => Flow(k, opp)'
  <2>1. ~ToLast(k, opp)' /\ Begins(InLast(k, opp)', InLast(k, opp))
    BY <1>0, <1>1, <1>2, Parts, BeginsItself DEF InLast, ToLast
  <2> QED
    BY <1>0, <1>2, <2>1, FlowLoses
<1> QED
  BY <1>0, <1>2, <1>3, <1>4, <1>5

LEMMA BetweenShrinks ==
    ASSUME TypeOK, TypeOK', NEW k \in Conns, NEW dir \in Directions,
           Pending(k, dir)' <=> Pending(k, dir), Begins(InMiddle(k, dir)', InMiddle(k, dir))
    PROVE  Begins(Between(k, dir)', Between(k, dir))
<1>1. /\ InMiddle(k, dir) \in Seq(Byte) /\ InMiddle(k, dir)' \in Seq(Byte)
      /\ InMiddle(k, dir) # <<>> => Tail(InMiddle(k, dir)) \in Seq(Byte)
  BY Parts, PartsNext, Rest
<1> QED
  BY <1>1 DEF Between, Begins

\* The handler that fills leg M towards dir returns, and its two sockets are closed.
LEMMA HandlerCloses ==
    ASSUME TypeOK, TypeOK', NEW k \in Conns, NEW dir \in Directions, Gone(k),
           Near(k, dir)' = "done", Far(k, dir)' = Far(k, dir), SameEnds(k), SameData(k),
           pipe'[k][FirstLeg(dir)] \in Closed(pipe[k][FirstLeg(dir)], Opposite(dir)),
           pipe'[k]["M"] \in Closed(pipe[k]["M"], dir),
           pipe'[k][LastLeg(dir)] = pipe[k][LastLeg(dir)]
    PROVE  /\ Gone(k)'
           /\ Begins(InMiddle(k, dir)', InMiddle(k, dir)) /\ InMiddle(k, Opposite(dir))' = <<>>
           /\ \A d \in Directions : Flow(k, d) => Flow(k, d)'
<1> DEFINE opp == Opposite(dir)
           pair == pipe[k][FirstLeg(dir)]
           l == pipe'[k][FirstLeg(dir)]
           mid == pipe[k]["M"]
           m == pipe'[k]["M"]
<1>0. /\ pair \in LegType /\ mid \in LegType
      /\ opp \in Directions /\ opp # dir /\ \A d \in Directions : d = dir \/ d = opp
      /\ Opposite(opp) = dir
  BY Directed, Opposites DEF TypeOK, LegType
<1>1. /\ l[opp].gone = pair[opp].gone /\ Begins(l[opp].buf, pair[opp].buf)
      /\ l[dir].gone /\ l[dir].buf = <<>>
  <2>1. l \in Closed(pair, opp)
    OBVIOUS
  <2> HIDE DEF pair, l, opp
  <2> QED
    BY <1>0, <2>1, CloseLeg
<1>2. /\ m[dir].gone = mid[dir].gone /\ Begins(m[dir].buf, mid[dir].buf)
      /\ m[opp].gone /\ m[opp].fin = mid[opp].fin /\ m[opp].buf = <<>>
  <2>1. m \in Closed(mid, dir)
    OBVIOUS
  <2> HIDE DEF mid, m
  <2> QED
    BY <1>0, <2>1, CloseLeg
<1>3. /\ FirstLeg(opp) = LastLeg(dir) /\ LastLeg(opp) = FirstLeg(dir)
      /\ Near(k, opp) = Far(k, dir) /\ Far(k, opp)' = "done" /\ Near(k, opp)' = Far(k, dir)'
      /\ \A d \in Directions : /\ Writing(k, d)' <=> Writing(k, d)
                               /\ sent'[k][d] = sent[k][d] /\ got'[k][d] = got[k][d]
  BY Directed, EndsKnown DEF SameData, Near, Far, Directions, Opposite
<1>4. Gone(k)'
  <2>1. ASSUME NEW d \in Directions, d = dir
        PROVE  /\ pipe'[k][FirstLeg(d)][d].gone => Near(k, d)' = "done"
               /\ pipe'[k]["M"][d].gone => Far(k, d)' = "done"
               /\ pipe'[k]["M"][d].fin => Near(k, d)' = "done"
               /\ pipe'[k][LastLeg(d)][d].gone => ~Writing(k, Opposite(d))'
    BY <1>0, <1>2, <1>3, <2>1 DEF Gone
  <2>2. ASSUME NEW d \in Directions, d = opp
        PROVE  /\ pipe'[k][FirstLeg(d)][d].gone => Near(k, d)' = "done"
               /\ pipe'[k]["M"][d].gone => Far(k, d)' = "done"
               /\ pipe'[k]["M"][d].fin => Near(k, d)' = "done"
               /\ pipe'[k][LastLeg(d)][d].gone => ~Writing(k, Opposite(d))'
    BY <1>0, <1>1, <1>2, <1>3, <2>2 DEF Gone
  <2> QED
    BY <1>0, <2>1, <2>2 DEF Gone
<1>5. Begins(InMiddle(k, dir)', InMiddle(k, dir)) /\ InMiddle(k, opp)' = <<>>
  BY <1>2 DEF InMiddle
<1>6. Flow(k, dir) => Flow(k, dir)'
  <2>1. ~ToMiddle(k, dir)' /\ InLast(k, dir)' = InLast(k, dir) /\ (ToLast(k, dir)' <=> ToLast(k, dir))
    BY DEF ToMiddle, ToLast, InLast
  <2>2. Begins(Between(k, dir)', Between(k, dir))
    <3>1. Pending(k, dir)' <=> Pending(k, dir)
      BY DEF Pending
    <3> QED
      BY <1>5, <3>1, BetweenShrinks
  <2> QED
    BY <1>3, <2>1, <2>2, FlowLoses, Parts, BeginsItself
<1>7. Flow(k, opp) => Flow(k, opp)'
  <2>1. ~ToLast(k, opp)' /\ Begins(InLast(k, opp)', InLast(k, opp))
    BY <1>0, <1>1, <1>3 DEF InLast, ToLast
  <2> QED
    BY <1>0, <1>3, <2>1, FlowLoses
<1> QED
  BY <1>0, <1>4, <1>5, <1>6, <1>7

LEMMA TailOfMore ==
    ASSUME NEW S, NEW s \in Seq(S), NEW x \in S
    PROVE  Append(s, x) # <<>> /\ (s # <<>> => Tail(Append(s, x)) = Append(Tail(s), x))
OBVIOUS

\* A handler copies an item from the first leg into leg M.
LEMMA CopyEnters ==
    ASSUME TypeOK, TypeOK', NEW k \in Conns, NEW dir \in Directions, Gone(k),
           SameHandlers(k), SameEnds(k), SameData(k), Near(k, dir) # "done",
           Pending(k, dir) => InMiddle(k, dir) # <<>>, InFirst(k, dir) # <<>>,
           pipe'[k][FirstLeg(dir)] = Take(pipe[k][FirstLeg(dir)], dir, 1),
           pipe'[k]["M"] \in Put(pipe[k]["M"], dir, InFirst(k, dir)[1]),
           pipe'[k][LastLeg(dir)] = pipe[k][LastLeg(dir)]
    PROVE  /\ Gone(k)' /\ \A d \in Directions : Flow(k, d) => Flow(k, d)'
           /\ Far(k, dir) = "done" => Begins(InMiddle(k, Opposite(dir))', InMiddle(k, Opposite(dir)))
           /\ Far(k, dir) # "done" => InMiddle(k, Opposite(dir))' = InMiddle(k, Opposite(dir))
           /\ \/ InMiddle(k, dir)' = InMiddle(k, dir)
              \/ InMiddle(k, dir)' = Append(InMiddle(k, dir), InFirst(k, dir)[1])
<1> DEFINE opp == Opposite(dir)
           pair == pipe[k][FirstLeg(dir)]
           l == pipe'[k][FirstLeg(dir)]
           mid == pipe[k]["M"]
           m == pipe'[k]["M"]
           x == InFirst(k, dir)[1]
<1>0. /\ pair \in LegType /\ mid \in LegType
      /\ opp \in Directions /\ opp # dir /\ \A d \in Directions : d = dir \/ d = opp
      /\ FirstLeg(opp) = LastLeg(dir) /\ LastLeg(opp) = FirstLeg(dir)
      /\ Near(k, opp) = Far(k, dir) /\ Far(k, opp) = Near(k, dir)
  BY Directed, Opposites DEF TypeOK, LegType
<1>1. /\ \A d \in Directions : l[d].fin = pair[d].fin /\ l[d].gone = pair[d].gone
      /\ l[opp] = pair[opp] /\ l[dir].buf = Tail(pair[dir].buf) /\ x \in Byte
  <2>1. pair[dir].buf # <<>> /\ l = Take(pair, dir, 1) /\ x = pair[dir].buf[1]
    BY DEF InFirst
  <2> HIDE DEF pair, l, x
  <2> QED
    BY <1>0, <2>1, TakeLeg
<1>2. /\ \A d \in Directions : m[d].fin = mid[d].fin /\ m[d].gone = mid[d].gone
      /\ mid[dir].gone => m[dir] = mid[dir] /\ Begins(m[opp].buf, mid[opp].buf)
      /\ ~mid[dir].gone => m[opp] = mid[opp] /\ m[dir].buf = Append(mid[dir].buf, x)
  <2>1. m \in Put(mid, dir, x)
    OBVIOUS
  <2> HIDE DEF mid, m, x
  <2> QED
    BY <1>0, <1>1, <2>1, PutLeg
<1>3. /\ \A leg \in Legs : SameClosed(k, leg)
      /\ InLast(k, dir)' = InLast(k, dir) /\ InFirst(k, dir)' = Tail(InFirst(k, dir))
      /\ InLast(k, opp)' = InLast(k, opp) /\ InFirst(k, opp)' = InFirst(k, opp)
  BY <1>0, <1>1, <1>2, Directed DEF SameClosed, InLast, InFirst
<1>4. /\ Gone(k)'
      /\ \A d \in Directions : /\ InMiddle(k, d)' = InMiddle(k, d) => Between(k, d)' = Between(k, d)
                               /\ Pending(k, d)' <=> Pending(k, d)
                               /\ ToLast(k, d)' <=> ToLast(k, d)
                               /\ ToMiddle(k, d)' <=> ToMiddle(k, d)
                               /\ Writing(k, d)' <=> Writing(k, d)
                               /\ sent'[k][d] = sent[k][d] /\ got'[k][d] = got[k][d]
  BY <1>3, NothingCloses, HandlersKnown, EndsKnown DEF SameData
<1>5. CASE mid[dir].gone
  <2>1. /\ Far(k, dir) = "done" /\ ~ToLast(k, dir) /\ ~ToMiddle(k, opp)
        /\ InMiddle(k, dir)' = InMiddle(k, dir)
        /\ Begins(InMiddle(k, opp)', InMiddle(k, opp))
    BY <1>0, <1>2, <1>5 DEF Gone, ToLast, ToMiddle, InMiddle
  <2>2. Begins(Between(k, opp)', Between(k, opp))
    BY <1>0, <1>4, <2>1, BetweenShrinks
  <2>3. Flow(k, dir) => Flow(k, dir)'
    BY <1>3, <1>4, <2>1, FlowLoses, Parts, BeginsItself
  <2>4. Flow(k, opp) => Flow(k, opp)'
    BY <1>0, <1>3, <1>4, <2>1, <2>2, FlowLoses, Parts, BeginsItself
  <2> QED
    BY <1>0, <1>4, <2>1, <2>3, <2>4
<1>6. CASE ~mid[dir].gone
  <2>1. InMiddle(k, dir)' = Append(InMiddle(k, dir), x) /\ InMiddle(k, opp)' = InMiddle(k, opp)
    BY <1>2, <1>6 DEF InMiddle
  <2>2. Between(k, dir)' = Append(Between(k, dir), x)
    <3>1. InMiddle(k, dir) \in Seq(Byte)
      BY Parts
    <3> HIDE DEF x
    <3> QED
      BY <1>1, <1>4, <2>1, <3>1, TailOfMore DEF Between
  <2>3. ToMiddle(k, dir)
    BY DEF ToMiddle
  <2>4. Flow(k, dir) => Flow(k, dir)'
    BY <1>3, <1>4, <2>2, <2>3, FlowEnters
  <2>5. Flow(k, opp) => Flow(k, opp)'
    BY <1>0, <1>3, <1>4, <2>1, FlowStays DEF Still
  <2>6. Begins(InMiddle(k, opp)', InMiddle(k, opp))
    BY <1>0, <2>1, Parts, BeginsItself
  <2> QED
    BY <1>0, <1>4, <2>1, <2>4, <2>5, <2>6
<1> QED
  BY <1>5, <1>6

\* A handler copies an item from leg M into the last leg.
LEMMA CopyLeaves ==
    ASSUME TypeOK, TypeOK', NEW k \in Conns, NEW dir \in Directions, Gone(k),
           SameHandlers(k), SameEnds(k), SameData(k), Far(k, dir) # "done",
           ~Pending(k, dir), InMiddle(k, dir) # <<>>,
           pipe'[k]["M"] = Take(pipe[k]["M"], dir, 1),
           pipe'[k][LastLeg(dir)] \in Put(pipe[k][LastLeg(dir)], dir, InMiddle(k, dir)[1]),
           pipe'[k][FirstLeg(dir)] = pipe[k][FirstLeg(dir)]
    PROVE  /\ Gone(k)' /\ \A d \in Directions : Flow(k, d) => Flow(k, d)'
           /\ InMiddle(k, dir)' = Tail(InMiddle(k, dir))
           /\ InMiddle(k, Opposite(dir))' = InMiddle(k, Opposite(dir))
<1> DEFINE opp == Opposite(dir)
           pair == pipe[k][LastLeg(dir)]
           l == pipe'[k][LastLeg(dir)]
           mid == pipe[k]["M"]
           m == pipe'[k]["M"]
           x == InMiddle(k, dir)[1]
<1>0. /\ pair \in LegType /\ mid \in LegType
      /\ opp \in Directions /\ opp # dir /\ \A d \in Directions : d = dir \/ d = opp
      /\ Opposite(opp) = dir
      /\ FirstLeg(opp) = LastLeg(dir) /\ LastLeg(opp) = FirstLeg(dir)
  BY Directed, Opposites DEF TypeOK, LegType
<1>1. /\ \A d \in Directions : m[d].fin = mid[d].fin /\ m[d].gone = mid[d].gone
      /\ m[opp] = mid[opp] /\ m[dir].buf = Tail(mid[dir].buf) /\ x \in Byte
  <2>1. mid[dir].buf # <<>> /\ m = Take(mid, dir, 1) /\ x = mid[dir].buf[1]
    BY DEF InMiddle
  <2> HIDE DEF mid, m, x
  <2> QED
    BY <1>0, <2>1, TakeLeg
<1>2. /\ \A d \in Directions : l[d].fin = pair[d].fin /\ l[d].gone = pair[d].gone
      /\ pair[dir].gone => l[dir] = pair[dir] /\ Begins(l[opp].buf, pair[opp].buf)
      /\ ~pair[dir].gone => l[opp] = pair[opp] /\ l[dir].buf = Append(pair[dir].buf, x)
  <2>1. l \in Put(pair, dir, x)
    OBVIOUS
  <2> HIDE DEF pair, l, x
  <2> QED
    BY <1>0, <1>1, <2>1, PutLeg
<1>3. /\ \A leg \in Legs : SameClosed(k, leg)
      /\ InMiddle(k, dir)' = Tail(InMiddle(k, dir)) /\ InMiddle(k, opp)' = InMiddle(k, opp)
      /\ InFirst(k, dir)' = InFirst(k, dir) /\ InLast(k, opp)' = InLast(k, opp)
  BY <1>0, <1>1, <1>2, Directed DEF SameClosed, InLast, InFirst, InMiddle
<1>4. /\ Gone(k)'
      /\ Between(k, opp)' = Between(k, opp)
      /\ Between(k, dir) = InMiddle(k, dir) /\ Between(k, dir)' = Tail(Between(k, dir))
      /\ \A d \in Directions : /\ ToLast(k, d)' <=> ToLast(k, d)
                               /\ ToMiddle(k, d)' <=> ToMiddle(k, d)
                               /\ Writing(k, d)' <=> Writing(k, d)
                               /\ sent'[k][d] = sent[k][d] /\ got'[k][d] = got[k][d]
  <2>1. ~Pending(k, dir)'
    BY HandlersKnown
  <2> QED
    BY <1>0, <1>3, <2>1, NothingCloses, HandlersKnown, EndsKnown DEF SameData, Between
<1>5. CASE pair[dir].gone
  <2>1. /\ ~ToLast(k, dir) /\ ~Writing(k, opp)
        /\ InLast(k, dir)' = InLast(k, dir)
        /\ Begins(InFirst(k, opp)', InFirst(k, opp))
    BY <1>0, <1>2, <1>5 DEF Gone, ToLast, InLast, InFirst
  <2>2. Flow(k, dir) => Flow(k, dir)'
    BY <1>3, <1>4, <2>1, FlowLoses, Parts, BeginsItself
  <2>3. Flow(k, opp) => Flow(k, opp)'
    BY <1>0, <1>3, <1>4, <2>1, FlowLoses, Parts, BeginsItself
  <2> QED
    BY <1>0, <1>3, <1>4, <2>2, <2>3
<1>6. CASE ~pair[dir].gone
  <2>1. InLast(k, dir)' = Append(InLast(k, dir), x) /\ InFirst(k, opp)' = InFirst(k, opp)
    BY <1>0, <1>2, <1>6 DEF InLast, InFirst
  <2>2. ToLast(k, dir)
    BY <1>6 DEF ToLast
  <2>3. Flow(k, dir) => Flow(k, dir)'
    BY <1>3, <1>4, <2>1, <2>2, FlowCrosses
  <2>4. Flow(k, opp) => Flow(k, opp)'
    BY <1>0, <1>3, <1>4, <2>1, FlowStays DEF Still
  <2> QED
    BY <1>0, <1>3, <1>4, <2>3, <2>4
<1> QED
  BY <1>5, <1>6

-----------------------------------------------------------------------------
(* What a step leaves alone *)

LEMMA OneLeg ==
    ASSUME TypeOK, NEW k \in Conns, NEW leg \in Legs, NEW l \in LegType,
           pipe' = [pipe EXCEPT ![k][leg] = l]
    PROVE  /\ pipe' \in [Conns -> [Legs -> LegType]]
           /\ pipe'[k][leg] = l
           /\ \A x \in Legs : x # leg => pipe'[k][x] = pipe[k][x]
           /\ \A c \in Conns : c # k => pipe'[c] = pipe[c]
<1>1. pipe \in [Conns -> [Legs -> LegType]]
  BY DEF TypeOK, LegType
<1> HIDE DEF LegType
<1> QED
  BY <1>1

LEMMA TwoLegs ==
    ASSUME TypeOK, NEW k \in Conns, NEW from \in Legs, NEW to \in Legs, from # to,
           NEW a \in LegType, NEW b \in LegType,
           pipe' = [pipe EXCEPT ![k][from] = a, ![k][to] = b]
    PROVE  /\ pipe' \in [Conns -> [Legs -> LegType]]
           /\ pipe'[k][from] = a /\ pipe'[k][to] = b
           /\ \A x \in Legs : x # from /\ x # to => pipe'[k][x] = pipe[k][x]
           /\ \A c \in Conns : c # k => pipe'[c] = pipe[c]
<1>1. pipe \in [Conns -> [Legs -> LegType]]
  BY DEF TypeOK, LegType
<1> HIDE DEF LegType
<1> QED
  BY <1>1

\* A step that is not about c.
Untouched(c) ==
    /\ pipe'[c] = pipe[c] /\ app'[c] = app[c] /\ srv'[c] = srv[c]
    /\ src'[c] = src[c] /\ dst'[c] = dst[c] /\ side'[c] = side[c]
    /\ sent'[c] = sent[c] /\ got'[c] = got[c] /\ eof'[c] = eof[c]

LEMMA Elsewhere ==
    ASSUME NEW c \in Conns, Good(c), Untouched(c)
    PROVE  Good(c)'
<1>1. \A dir \in Directions : /\ InLast(c, dir)' = InLast(c, dir)
                              /\ InMiddle(c, dir)' = InMiddle(c, dir)
                              /\ InFirst(c, dir)' = InFirst(c, dir)
                              /\ Near(c, dir)' = Near(c, dir) /\ Far(c, dir)' = Far(c, dir)
                              /\ Writing(c, dir)' <=> Writing(c, dir)
                              /\ Pending(c, dir)' <=> Pending(c, dir)
                              /\ ToLast(c, dir)' <=> ToLast(c, dir)
                              /\ ToMiddle(c, dir)' <=> ToMiddle(c, dir)
                              /\ got'[c][dir] = got[c][dir] /\ sent'[c][dir] = sent[c][dir]
  BY DEF Untouched, InLast, InMiddle, InFirst, Near, Far, Writing, Pending, ToLast, ToMiddle
<1>2. ASSUME NEW dir \in Directions PROVE Flow(c, dir) => Flow(c, dir)'
  <2>1. Between(c, dir)' = Between(c, dir)
    BY <1>1 DEF Between
  <2> QED
    BY <1>1, <2>1, FlowStays DEF Still
<1>3. Gone(c)'
  BY <1>1, Opposites DEF Gone, Good, Untouched
<1>4. Shakes(c)'
  BY <1>1 DEF Shakes, Good, Untouched, Directions
<1> QED
  BY <1>2, <1>3, <1>4 DEF Good, Directions

\* The handshake is where it was.
LEMMA ShakesStay ==
    ASSUME NEW k \in Conns, Shakes(k), src'[k] = src[k], dst'[k] = dst[k], srv'[k] = srv[k],
           side'[k] = side[k], \A dir \in Directions : InMiddle(k, dir)' = InMiddle(k, dir)
    PROVE  Shakes(k)'
BY DEF Shakes, Pending, Far, Directions

\* Gone, Shakes and both flows make a connection good.
LEMMA GoodAgain ==
    ASSUME NEW k \in Conns, Good(k), Gone(k)', Shakes(k)',
           \A dir \in Directions : Flow(k, dir) => Flow(k, dir)'
    PROVE  Good(k)'
BY DEF Good, Directions

-----------------------------------------------------------------------------
(* The two ends *)

Keeps(k) == TypeOK' /\ Good(k)' /\ \A c \in Conns : c # k => Untouched(c)

\* No byte moves; a message of the handshake may.
Quiet(k) ==
    /\ SameData(k) /\ app'[k] = app[k] /\ eof'[k] = eof[k]
    /\ \A leg \in Legs : SameClosed(k, leg)
    /\ \A d \in Directions : InLast(k, d)' = InLast(k, d) /\ InFirst(k, d)' = InFirst(k, d)
    /\ Between(k, "up")' = Between(k, "up")
    /\ Mode = "tls" /\ src[k] # "done" => Between(k, "down")' = Between(k, "down")

\* What a handler does is what it did.
LEMMA HandlersStay ==
    ASSUME NEW k \in Conns, src'[k] = src[k], dst'[k] = dst[k]
    PROVE  SameHandlers(k)
BY DEF SameHandlers, Near, Far, Pending

LEMMA SendStep ==
    ASSUME TypeOK, NEW k \in Conns, Good(k), NEW dir \in Directions, NEW who,
           Send(k, who, FirstLeg(dir), dir), who[k] = "open" => Writing(k, dir)
    PROVE  Keeps(k)
<1> DEFINE pair == pipe[k][FirstLeg(dir)]
<1>0. /\ pair \in LegType /\ FirstLeg(dir) \in Legs
      /\ sent \in [Conns -> [Directions -> 0 .. MaxBytes]]
      /\ sent[k][dir] + 1 \in 0 .. MaxBytes
  BY RelayAssumption, Directed DEF TypeOK, LegType, Send
<1>1. PICK l \in Put(pair, dir, sent[k][dir] + 1) : pipe' = [pipe EXCEPT ![k][FirstLeg(dir)] = l]
  BY DEF Send, Write
<1>2. l \in LegType
  <2> HIDE DEF pair
  <2> QED
    BY <1>0, <1>1, PutLeg DEF Byte
<1>3. /\ pipe' \in [Conns -> [Legs -> LegType]] /\ pipe'[k][FirstLeg(dir)] = l
      /\ \A x \in Legs : x # FirstLeg(dir) => pipe'[k][x] = pipe[k][x]
      /\ \A c \in Conns : c # k => pipe'[c] = pipe[c]
  BY <1>0, <1>1, <1>2, OneLeg
<1>4. /\ sent' = [sent EXCEPT ![k][dir] = @ + 1]
      /\ UNCHANGED <<app, srv, src, dst, side, got, eof>>
  BY DEF Send
<1>5. /\ sent' \in [Conns -> [Directions -> 0 .. MaxBytes]]
      /\ sent'[k] = [sent[k] EXCEPT ![dir] = @ + 1]
      /\ \A c \in Conns : c # k => sent'[c] = sent[c]
  BY <1>0, <1>4
<1>6. TypeOK'
  BY <1>3, <1>4, <1>5 DEF TypeOK, LegType
<1>7. /\ Gone(k)' /\ \A d \in Directions : InMiddle(k, d)' = InMiddle(k, d)
      /\ \A d \in Directions : Flow(k, d) => Flow(k, d)'
  <2>1. SameHandlers(k) /\ SameEnds(k) /\ got'[k] = got[k] /\ Gone(k) /\ Writing(k, dir)
    BY <1>4, HandlersStay DEF SameEnds, Good, Send
  <2> QED
    BY <1>1, <1>3, <1>5, <1>6, <2>1, SendKeeps
<1>8. Shakes(k)'
  BY <1>4, <1>7, ShakesStay DEF Good
<1> QED
  BY <1>3, <1>4, <1>5, <1>6, <1>7, <1>8, GoodAgain DEF Keeps, Untouched

LEMMA ReceiveStep ==
    ASSUME TypeOK, NEW k \in Conns, Good(k), NEW dir \in Directions, NEW who,
           Receive(k, who, LastLeg(dir), dir)
    PROVE  Keeps(k)
<1> DEFINE pair == pipe[k][LastLeg(dir)]
<1>0. pair \in LegType /\ LastLeg(dir) \in Legs
  BY Directed DEF TypeOK, LegType
<1>1. UNCHANGED <<app, srv, src, dst, side, sent>>
  BY DEF Receive
<1>2. SameHandlers(k) /\ SameEnds(k) /\ sent'[k] = sent[k] /\ Gone(k)
  BY <1>1, HandlersStay DEF SameEnds, Good
<1>3. CASE /\ Readable(k, LastLeg(dir), dir)
           /\ got' = [got EXCEPT ![k][dir] = Append(@, pipe[k][LastLeg(dir)][dir].buf[1])]
           /\ pipe' = [pipe EXCEPT ![k][LastLeg(dir)] = Take(@, dir, 1)]
           /\ UNCHANGED eof
  <2>1. InLast(k, dir) # <<>> /\ pair[dir].buf # <<>>
    BY <1>3 DEF InLast, Readable
  <2>2. Take(pair, dir, 1) \in LegType /\ InLast(k, dir)[1] \in Byte
    <3>1. InLast(k, dir) = pair[dir].buf
      BY DEF InLast
    <3> HIDE DEF pair
    <3> QED
      BY <1>0, <2>1, <3>1, TakeLeg
  <2>3. pipe' = [pipe EXCEPT ![k][LastLeg(dir)] = Take(pair, dir, 1)]
    BY <1>0, <1>3 DEF TypeOK
  <2>4. /\ pipe' \in [Conns -> [Legs -> LegType]] /\ pipe'[k][LastLeg(dir)] = Take(pair, dir, 1)
        /\ \A x \in Legs : x # LastLeg(dir) => pipe'[k][x] = pipe[k][x]
        /\ \A c \in Conns : c # k => pipe'[c] = pipe[c]
    BY <1>0, <2>2, <2>3, OneLeg
  <2>5. /\ got' \in [Conns -> [Directions -> Data]]
        /\ got'[k] = [got[k] EXCEPT ![dir] = Append(@, InLast(k, dir)[1])]
        /\ \A c \in Conns : c # k => got'[c] = got[c]
    <3>1. got' = [got EXCEPT ![k][dir] = Append(@, InLast(k, dir)[1])]
      BY <1>3 DEF InLast
    <3>2. got \in [Conns -> [Directions -> Data]] /\ Append(got[k][dir], InLast(k, dir)[1]) \in Data
      BY <2>2 DEF TypeOK, Data
    <3> QED
      BY <3>1, <3>2
  <2>6. TypeOK'
    BY <1>1, <1>3, <2>4, <2>5 DEF TypeOK, LegType
  <2>7. /\ Gone(k)' /\ \A d \in Directions : InMiddle(k, d)' = InMiddle(k, d)
        /\ \A d \in Directions : Flow(k, d) => Flow(k, d)'
    BY <1>2, <2>1, <2>4, <2>5, ReceiveKeeps
  <2>8. Shakes(k)'
    BY <1>1, <2>7, ShakesStay DEF Good
  <2> QED
    BY <1>1, <1>3, <2>4, <2>5, <2>6, <2>7, <2>8, GoodAgain DEF Keeps, Untouched
<1>4. CASE eof' = [eof EXCEPT ![k][dir] = TRUE] /\ UNCHANGED <<got, pipe>>
  <2>1. TypeOK'
    BY <1>1, <1>4 DEF TypeOK
  <2>2. \A c \in Conns : c # k => Untouched(c)
    BY <1>1, <1>4 DEF Untouched, TypeOK
  <2>3. Good(k)'
    <3>1. \A d \in Directions : Still(k, d) /\ InMiddle(k, d)' = InMiddle(k, d)
      BY <1>1, <1>4 DEF Still, InLast, InMiddle, InFirst, Between, Pending, Far, Near, ToLast, ToMiddle, Writing
    <3>2. Shakes(k)'
      BY <1>1, <3>1, ShakesStay DEF Good
    <3>3. Gone(k)'
      BY <1>1, <1>2, <1>4, NothingCloses DEF SameClosed
    <3> QED
      BY <3>1, <3>2, <3>3, FlowStays, GoodAgain
  <2> QED
    BY <2>1, <2>2, <2>3 DEF Keeps
<1> QED
  BY <1>3, <1>4 DEF Receive

LEMMA AppShutdownStep ==
    ASSUME TypeOK, NEW k \in Conns, Good(k), AppShutdown(k)
    PROVE  Keeps(k)
<1> DEFINE pair == pipe[k]["A"]
           l == [pair EXCEPT !["up"] = [pair["up"] EXCEPT !.fin = TRUE]]
<1>0. /\ pair \in LegType /\ "A" \in Legs
      /\ "up" \in Directions /\ "down" \in Directions
      /\ app \in [Conns -> {"open", "half", "closed"}]
  BY DEF TypeOK, LegType, Legs, Directions
<1>1. pair["up"] \in PipeType
  BY <1>0 DEF LegType
<1>2. [pair["up"] EXCEPT !.fin = TRUE] \in PipeType
  BY <1>1 DEF PipeType
<1>3. l \in LegType
  BY <1>0, <1>2 DEF LegType
<1>4. pipe' = [pipe EXCEPT ![k]["A"] = l]
  <2>1. pipe' = [pipe EXCEPT ![k]["A"]["up"].fin = TRUE]
    BY DEF AppShutdown
  <2> QED
    BY <1>0, <2>1 DEF TypeOK, LegType
<1>5. /\ app' = [app EXCEPT ![k] = "half"] /\ app[k] = "open"
      /\ UNCHANGED <<srv, src, dst, side, sent, got, eof>>
  BY DEF AppShutdown
<1>6. /\ l["down"] = pair["down"] /\ l["up"].buf = pair["up"].buf
      /\ l["up"].gone = pair["up"].gone
  BY <1>0, <1>1, <1>2 DEF LegType, PipeType, Directions
<1> HIDE DEF l
<1>7. /\ pipe' \in [Conns -> [Legs -> LegType]] /\ pipe'[k]["A"] = l
      /\ \A x \in Legs : x # "A" => pipe'[k][x] = pipe[k][x]
      /\ \A c \in Conns : c # k => pipe'[c] = pipe[c]
  BY <1>0, <1>3, <1>4, OneLeg
<1>8. TypeOK'
  BY <1>0, <1>5, <1>7 DEF TypeOK, LegType
<1>9. \A c \in Conns : c # k => Untouched(c)
  BY <1>0, <1>5, <1>7 DEF Untouched
<1>10. SameHandlers(k)
  BY <1>5, HandlersStay
<1>11. app'[k] = "half" /\ ~Writing(k, "up")' /\ Writing(k, "up") /\ (Writing(k, "down")' <=> Writing(k, "down"))
  BY <1>0, <1>5 DEF Writing
<1>12. \A d \in Directions :
         /\ InLast(k, d)' = InLast(k, d) /\ InMiddle(k, d)' = InMiddle(k, d)
         /\ InFirst(k, d)' = InFirst(k, d)
         /\ ToLast(k, d)' <=> ToLast(k, d)
         /\ pipe'[k][FirstLeg(d)][d].gone = pipe[k][FirstLeg(d)][d].gone
         /\ pipe'[k][LastLeg(d)][d].gone = pipe[k][LastLeg(d)][d].gone
  <2>1. ASSUME NEW d \in Directions, NEW x \in Legs
        PROVE  pipe'[k][x][d].buf = pipe[k][x][d].buf /\ pipe'[k][x][d].gone = pipe[k][x][d].gone
    BY <1>6, <1>7, <2>1 DEF Directions
  <2> QED
    BY <1>5, <2>1, Directed DEF InLast, InMiddle, InFirst, ToLast, Far
<1>13. \A d \in Directions : /\ Between(k, d)' = Between(k, d)
                             /\ ToMiddle(k, d)' <=> ToMiddle(k, d)
                             /\ sent'[k][d] = sent[k][d] /\ got'[k][d] = got[k][d]
  BY <1>5, <1>10, <1>12, HandlersKnown
<1>14. Flow(k, "up") => Flow(k, "up")'
  BY <1>0, <1>8, <1>11, <1>12, <1>13, FlowLoses, Parts, BeginsItself
<1>15. Flow(k, "down") => Flow(k, "down")'
  BY <1>0, <1>11, <1>12, <1>13, FlowStays DEF Still
<1>16. Gone(k)'
  <2>1. \A d \in Directions : /\ pipe'[k]["M"] = pipe[k]["M"]
                              /\ Writing(k, Opposite(d))' => Writing(k, Opposite(d))
                              /\ Near(k, d)' = Near(k, d) /\ Far(k, d)' = Far(k, d)
    BY <1>5, <1>7, <1>11 DEF Legs, Directions, Opposite, Near, Far
  <2> QED
    BY <1>12, <2>1 DEF Gone, Good
<1>17. Shakes(k)'
  BY <1>5, <1>12, ShakesStay DEF Good
<1> QED
  BY <1>8, <1>9, <1>14, <1>15, <1>16, <1>17, GoodAgain DEF Keeps, Directions

\* An end closes the leg it writes to, in the model's words.
EndClosing(k, dir) ==
    \E l \in Closed(pipe[k][FirstLeg(dir)], dir) : pipe' = [pipe EXCEPT ![k][FirstLeg(dir)] = l]

LEMMA EndClosingKeeps ==
    ASSUME TypeOK, NEW k \in Conns, Good(k), NEW dir \in Directions, EndClosing(k, dir),
           UNCHANGED <<src, dst, side, sent, got, eof>>,
           app' \in [Conns -> {"open", "half", "closed"}],
           srv' \in [Conns -> {"none", "open", "closed"}],
           \A c \in Conns : c # k => SameEnds(c),
           ~Writing(k, dir)', Writing(k, Opposite(dir))' <=> Writing(k, Opposite(dir))
    PROVE  /\ TypeOK' /\ \A c \in Conns : c # k => Untouched(c)
           /\ Gone(k)' /\ \A d \in Directions : InMiddle(k, d)' = InMiddle(k, d)
           /\ \A d \in Directions : Flow(k, d) => Flow(k, d)'
<1> DEFINE pair == pipe[k][FirstLeg(dir)]
<1>0. pair \in LegType /\ FirstLeg(dir) \in Legs
  BY Directed DEF TypeOK, LegType
<1>1. PICK l \in Closed(pair, dir) : pipe' = [pipe EXCEPT ![k][FirstLeg(dir)] = l]
  BY DEF EndClosing
<1>2. l \in LegType
  <2> HIDE DEF pair
  <2> QED
    BY <1>0, <1>1, CloseLeg
<1>3. /\ pipe' \in [Conns -> [Legs -> LegType]] /\ pipe'[k][FirstLeg(dir)] = l
      /\ \A x \in Legs : x # FirstLeg(dir) => pipe'[k][x] = pipe[k][x]
      /\ \A c \in Conns : c # k => pipe'[c] = pipe[c]
  BY <1>0, <1>1, <1>2, OneLeg
<1>4. TypeOK'
  BY <1>3 DEF TypeOK, LegType
<1>5. \A c \in Conns : c # k => Untouched(c)
  BY <1>3 DEF Untouched, SameEnds
<1>6. SameHandlers(k) /\ SameData(k) /\ Gone(k)
  BY HandlersStay DEF SameData, Good
<1> QED
  BY <1>1, <1>3, <1>4, <1>5, <1>6, EndCloses

LEMMA AppCloseStep ==
    ASSUME TypeOK, NEW k \in Conns, Good(k), AppClose(k)
    PROVE  Keeps(k)
<1>1. EndClosing(k, "up")
  BY DEF AppClose, EndClosing, FirstLeg
<1>2. /\ app' = [app EXCEPT ![k] = "closed"] /\ app \in [Conns -> {"open", "half", "closed"}]
      /\ srv \in [Conns -> {"none", "open", "closed"}]
      /\ UNCHANGED <<srv, src, dst, side, sent, got, eof>>
      /\ "up" \in Directions
  BY DEF AppClose, TypeOK, Directions
<1>3. /\ app' \in [Conns -> {"open", "half", "closed"}] /\ srv' \in [Conns -> {"none", "open", "closed"}]
      /\ ~Writing(k, "up")'
      /\ Writing(k, Opposite("up"))' <=> Writing(k, Opposite("up"))
      /\ \A c \in Conns : c # k => SameEnds(c)
  BY <1>2 DEF Writing, Opposite, SameEnds
<1>4. /\ TypeOK' /\ \A c \in Conns : c # k => Untouched(c)
      /\ Gone(k)' /\ \A d \in Directions : InMiddle(k, d)' = InMiddle(k, d)
      /\ \A d \in Directions : Flow(k, d) => Flow(k, d)'
  BY <1>1, <1>2, <1>3, EndClosingKeeps
<1>5. Shakes(k)'
  BY <1>2, <1>4, ShakesStay DEF Good
<1> QED
  BY <1>4, <1>5, GoodAgain DEF Keeps

LEMMA ServerCloseStep ==
    ASSUME TypeOK, NEW k \in Conns, Good(k), ServerClose(k)
    PROVE  Keeps(k)
<1>1. EndClosing(k, "down")
  BY DEF ServerClose, EndClosing, FirstLeg
<1>2. /\ srv' = [srv EXCEPT ![k] = "closed"] /\ app \in [Conns -> {"open", "half", "closed"}]
      /\ srv \in [Conns -> {"none", "open", "closed"}] /\ srv[k] = "open"
      /\ UNCHANGED <<app, src, dst, side, sent, got, eof>>
      /\ "down" \in Directions /\ "up" \in Directions
  BY DEF ServerClose, TypeOK, Directions
<1>3. /\ app' \in [Conns -> {"open", "half", "closed"}] /\ srv' \in [Conns -> {"none", "open", "closed"}]
      /\ ~Writing(k, "down")'
      /\ Writing(k, Opposite("down"))' <=> Writing(k, Opposite("down"))
      /\ \A c \in Conns : c # k => SameEnds(c)
  BY <1>2 DEF Writing, Opposite, SameEnds
<1>4. /\ TypeOK' /\ \A c \in Conns : c # k => Untouched(c)
      /\ Gone(k)' /\ \A d \in Directions : InMiddle(k, d)' = InMiddle(k, d)
      /\ \A d \in Directions : Flow(k, d) => Flow(k, d)'
  BY <1>1, <1>2, <1>3, EndClosingKeeps
<1>5. Shakes(k)'
  <2>1. Shakes(k) /\ InMiddle(k, "up")' = InMiddle(k, "up") /\ InMiddle(k, "down")' = InMiddle(k, "down")
    BY <1>2, <1>4 DEF Good
  <2> QED
    BY <1>2, <2>1 DEF Shakes, Pending, Far
<1> QED
  BY <1>4, <1>5, GoodAgain DEF Keeps

-----------------------------------------------------------------------------
(* The handlers return *)

LEMMA ClosedConn ==
    ASSUME TypeOK, NEW k \in Conns
    PROVE  /\ \A p \in SrcCloses(k) : /\ p \in [Legs -> LegType] /\ p["T"] = pipe[k]["T"]
                                      /\ p["A"] \in Closed(pipe[k]["A"], "down")
                                      /\ p["M"] \in Closed(pipe[k]["M"], "up")
           /\ \A p \in DstCloses(k) : /\ p \in [Legs -> LegType] /\ p["A"] = pipe[k]["A"]
                                      /\ p["T"] \in Closed(pipe[k]["T"], "up")
                                      /\ p["M"] \in Closed(pipe[k]["M"], "down")
<1>1. /\ pipe[k] \in [Legs -> LegType] /\ "up" \in Directions /\ "down" \in Directions
      /\ "A" \in Legs /\ "M" \in Legs /\ "T" \in Legs
  BY DEF TypeOK, LegType, Legs, Directions
<1>2. \A leg \in Legs, dir \in Directions : Closed(pipe[k][leg], dir) \subseteq LegType
  <2>1. ASSUME NEW leg \in Legs, NEW dir \in Directions, NEW l \in Closed(pipe[k][leg], dir)
        PROVE  l \in LegType
    <3>1. pipe[k][leg] \in LegType
      BY <1>1
    <3> QED
      BY <2>1, <3>1, CloseLeg
  <2> QED
    BY <2>1
<1>3. ASSUME NEW p \in SrcCloses(k)
      PROVE  /\ p \in [Legs -> LegType] /\ p["T"] = pipe[k]["T"]
             /\ p["A"] \in Closed(pipe[k]["A"], "down") /\ p["M"] \in Closed(pipe[k]["M"], "up")
  <2>1. PICK a \in Closed(pipe[k]["A"], "down"), m \in Closed(pipe[k]["M"], "up") :
          p = [pipe[k] EXCEPT !["A"] = a, !["M"] = m]
    BY <1>3 DEF SrcCloses
  <2>2. a \in LegType /\ m \in LegType
    BY <1>1, <1>2
  <2> QED
    BY <1>1, <2>1, <2>2
<1>4. ASSUME NEW p \in DstCloses(k)
      PROVE  /\ p \in [Legs -> LegType] /\ p["A"] = pipe[k]["A"]
             /\ p["T"] \in Closed(pipe[k]["T"], "up") /\ p["M"] \in Closed(pipe[k]["M"], "down")
  <2>1. PICK m \in Closed(pipe[k]["M"], "down"), t \in Closed(pipe[k]["T"], "up") :
          p = [pipe[k] EXCEPT !["M"] = m, !["T"] = t]
    BY <1>4 DEF DstCloses
  <2>2. t \in LegType /\ m \in LegType
    BY <1>1, <1>2
  <2> QED
    BY <1>1, <2>1, <2>2
<1> QED
  BY <1>3, <1>4

\* The handler of the src gateway is done with k: it returned, or the gateway panicked.
LEMMA SrcGone ==
    ASSUME TypeOK, TypeOK', NEW k \in Conns, Good(k), pipe'[k] \in SrcCloses(k),
           src'[k] = "done", dst'[k] = dst[k], SameEnds(k), SameData(k),
           side'[k].dst = side[k].dst, side'[k].src \in {side[k].src, "done"}
    PROVE  Good(k)'
<1>1. "up" \in Directions /\ "down" \in Directions /\ Opposite("up") = "down"
  BY DEF Directions, Opposite
<1>2. /\ Gone(k)'
      /\ Begins(InMiddle(k, "up")', InMiddle(k, "up")) /\ InMiddle(k, "down")' = <<>>
      /\ \A d \in Directions : Flow(k, d) => Flow(k, d)'
  <2>1. /\ pipe'[k][FirstLeg("up")] \in Closed(pipe[k][FirstLeg("up")], Opposite("up"))
        /\ pipe'[k]["M"] \in Closed(pipe[k]["M"], "up")
        /\ pipe'[k][LastLeg("up")] = pipe[k][LastLeg("up")]
    BY <1>1, ClosedConn DEF FirstLeg, LastLeg
  <2>2. Near(k, "up")' = "done" /\ Far(k, "up")' = Far(k, "up") /\ Gone(k)
    BY DEF Near, Far, Good
  <2> QED
    BY <1>1, <2>1, <2>2, HandlerCloses
<1>3. Shakes(k)'
  <2>1. /\ InMiddle(k, "up") \in Seq(Byte) /\ InMiddle(k, "up")' \in Seq(Byte)
    BY <1>1, Parts, PartsNext
  <2>2. InMiddle(k, "up")' # <<>> =>
          InMiddle(k, "up") # <<>> /\ Len(InMiddle(k, "up")') <= Len(InMiddle(k, "up"))
                                   /\ Len(InMiddle(k, "up")') >= 1
    BY <1>2, <2>1 DEF Begins
  <2>3. InMiddle(k, "up")' # <<>> /\ Len(InMiddle(k, "up")) = 1 => Len(InMiddle(k, "up")') = 1
    BY <2>1, <2>2
  <2>4. srv'[k] = srv[k] /\ (Pending(k, "up")' <=> Pending(k, "up"))
    BY DEF SameEnds, Pending, Far
  <2> QED
    BY <1>2, <2>2, <2>3, <2>4 DEF Shakes, Good
<1> QED
  BY <1>2, <1>3, GoodAgain

LEMMA SrcReturnStep ==
    ASSUME TypeOK, NEW k \in Conns, Good(k), SrcReturn(k) \/ SrcDialFails(k)
    PROVE  Keeps(k)
<1>1. /\ src' = [src EXCEPT ![k] = "done"]
      /\ UNCHANGED <<app, srv, dst, side, sent, got, eof>>
  BY DEF SrcReturn, SrcDialFails
<1>2. PICK p \in SrcCloses(k) : pipe' = [pipe EXCEPT ![k] = p]
  BY DEF SrcReturn, SrcDialFails
<1>3. /\ pipe \in [Conns -> [Legs -> LegType]] /\ p \in [Legs -> LegType]
      /\ src \in [Conns -> {"dial", "write", "wait", "relay", "close", "done"}]
  BY ClosedConn DEF TypeOK, LegType
<1>4. /\ pipe' \in [Conns -> [Legs -> LegType]] /\ pipe'[k] = p
      /\ src' \in [Conns -> {"dial", "write", "wait", "relay", "close", "done"}] /\ src'[k] = "done"
      /\ \A c \in Conns : c # k => pipe'[c] = pipe[c] /\ src'[c] = src[c]
  BY <1>1, <1>2, <1>3
<1>5. TypeOK'
  BY <1>1, <1>4 DEF TypeOK, LegType
<1>6. \A c \in Conns : c # k => Untouched(c)
  BY <1>1, <1>4 DEF Untouched
<1>7. SameEnds(k) /\ SameData(k)
  BY <1>1 DEF SameEnds, SameData
<1> QED
  BY <1>1, <1>4, <1>5, <1>6, <1>7, SrcGone DEF Keeps

LEMMA SrcPanicsStep ==
    ASSUME TypeOK, RelayInv, NEW k \in Conns, SrcPanics(k)
    PROVE  TypeOK' /\ RelayInv'
<1>1. /\ src' = [c \in Conns |-> "done"]
      /\ side' = [c \in Conns |-> [side[c] EXCEPT !.src = "done"]]
      /\ UNCHANGED <<app, srv, dst, sent, got, eof>>
  BY DEF SrcPanics
<1>2. DOMAIN pipe' = Conns /\ pipe' = [c \in Conns |-> pipe'[c]]
      /\ \A c \in Conns : pipe'[c] \in SrcCloses(c)
  BY DEF SrcPanics
<1>3. pipe' \in [Conns -> [Legs -> LegType]]
  BY <1>2, ClosedConn
<1>4. TypeOK'
  BY <1>1, <1>3 DEF TypeOK, LegType
<1>5. ASSUME NEW c \in Conns PROVE Good(c)'
  <2>1. src'[c] = "done" /\ side'[c].dst = side[c].dst /\ side'[c].src = "done"
        /\ dst'[c] = dst[c] /\ SameEnds(c) /\ SameData(c)
    BY <1>1 DEF TypeOK, SameEnds, SameData
  <2> QED
    BY <1>2, <1>4, <2>1, SrcGone DEF RelayInv
<1> QED
  BY <1>4, <1>5 DEF RelayInv

LEMMA DstReturnStep ==
    ASSUME TypeOK, NEW k \in Conns, Good(k), DstReturn(k)
    PROVE  Keeps(k)
<1>1. /\ dst' = [dst EXCEPT ![k] = "done"] /\ dst[k] = "close"
      /\ UNCHANGED <<app, srv, src, side, sent, got, eof>>
  BY DEF DstReturn
<1>2. PICK p \in DstCloses(k) : pipe' = [pipe EXCEPT ![k] = p]
  BY DEF DstReturn
<1>3. /\ pipe \in [Conns -> [Legs -> LegType]] /\ p \in [Legs -> LegType]
      /\ dst \in [Conns -> {"none", "read", "dial", "reply", "relay", "close", "done"}]
  BY ClosedConn DEF TypeOK, LegType
<1>4. /\ pipe' \in [Conns -> [Legs -> LegType]] /\ pipe'[k] = p
      /\ dst' \in [Conns -> {"none", "read", "dial", "reply", "relay", "close", "done"}]
      /\ dst'[k] = "done"
      /\ \A c \in Conns : c # k => pipe'[c] = pipe[c] /\ dst'[c] = dst[c]
  BY <1>1, <1>2, <1>3
<1>5. TypeOK'
  BY <1>1, <1>4 DEF TypeOK, LegType
<1>6. \A c \in Conns : c # k => Untouched(c)
  BY <1>1, <1>4 DEF Untouched
<1>7. "up" \in Directions /\ "down" \in Directions /\ Opposite("down") = "up"
  BY DEF Directions, Opposite
<1>8. /\ Gone(k)'
      /\ Begins(InMiddle(k, "down")', InMiddle(k, "down"))
      /\ \A d \in Directions : Flow(k, d) => Flow(k, d)'
  <2>1. /\ pipe'[k][FirstLeg("down")] \in Closed(pipe[k][FirstLeg("down")], Opposite("down"))
        /\ pipe'[k]["M"] \in Closed(pipe[k]["M"], "down")
        /\ pipe'[k][LastLeg("down")] = pipe[k][LastLeg("down")]
    BY <1>4, <1>7, ClosedConn DEF FirstLeg, LastLeg
  <2>2. /\ Near(k, "down")' = "done" /\ Far(k, "down")' = Far(k, "down") /\ Gone(k)
        /\ SameEnds(k) /\ SameData(k)
    BY <1>1, <1>4 DEF Near, Far, Good, SameEnds, SameData
  <2> QED
    BY <1>5, <1>7, <2>1, <2>2, HandlerCloses
<1>9. Shakes(k)'
  <2>1. /\ InMiddle(k, "down") \in Seq(Byte) /\ InMiddle(k, "down")' \in Seq(Byte)
    BY <1>5, <1>7, Parts, PartsNext
  <2>2. InMiddle(k, "down")' # <<>> =>
          InMiddle(k, "down") # <<>> /\ InMiddle(k, "down")'[1] = InMiddle(k, "down")[1]
    BY <1>8, <2>1 DEF Begins
  <2> QED
    BY <1>1, <1>4, <2>2 DEF Shakes, Good, Pending, Far
<1> QED
  BY <1>5, <1>6, <1>8, <1>9, GoodAgain DEF Keeps

-----------------------------------------------------------------------------
(* The copying *)

LEMMA CopyPipes ==
    ASSUME TypeOK, NEW k \in Conns, NEW dir \in Directions, NEW ends \in BOOLEAN,
           NEW from \in Legs, NEW to \in Legs, from # to, Copy(k, from, to, dir, ends)
    PROVE  /\ pipe' \in [Conns -> [Legs -> LegType]]
           /\ \A c \in Conns : c # k => pipe'[c] = pipe[c]
           /\ \/ /\ pipe[k][from][dir].buf # <<>>
                 /\ pipe'[k][from] = Take(pipe[k][from], dir, 1)
                 /\ pipe'[k][to] \in Put(pipe[k][to], dir, pipe[k][from][dir].buf[1])
                 /\ \A x \in Legs : x # from /\ x # to => pipe'[k][x] = pipe[k][x]
                 /\ ends => pipe[k][to][dir].gone
              \/ pipe' = pipe /\ ends /\ AtEnd(k, from, dir)
<1>0. pipe \in [Conns -> [Legs -> LegType]]
  BY DEF TypeOK, LegType
<1>1. CASE /\ Readable(k, from, dir) /\ (ends => pipe[k][to][dir].gone)
           /\ \E l \in Put(pipe[k][to], dir, pipe[k][from][dir].buf[1]) :
                pipe' = [pipe EXCEPT ![k][from] = Take(@, dir, 1), ![k][to] = l]
  <2> DEFINE a == Take(pipe[k][from], dir, 1)
             x == pipe[k][from][dir].buf[1]
  <2>1. PICK l \in Put(pipe[k][to], dir, x) :
          pipe' = [pipe EXCEPT ![k][from] = Take(@, dir, 1), ![k][to] = l]
    BY <1>1
  <2>2. pipe' = [pipe EXCEPT ![k][from] = a, ![k][to] = l]
    BY <1>0, <2>1
  <2>3. pipe[k][from] \in LegType /\ pipe[k][to] \in LegType /\ pipe[k][from][dir].buf # <<>>
    BY <1>0, <1>1 DEF Readable
  <2>4. a \in LegType /\ x \in Byte
    BY <2>3, TakeLeg
  <2> HIDE DEF a, x
  <2>5. l \in LegType
    BY <2>1, <2>3, <2>4, PutLeg
  <2>6. /\ pipe' \in [Conns -> [Legs -> LegType]]
        /\ pipe'[k][from] = a /\ pipe'[k][to] = l
        /\ \A y \in Legs : y # from /\ y # to => pipe'[k][y] = pipe[k][y]
        /\ \A c \in Conns : c # k => pipe'[c] = pipe[c]
    BY <2>2, <2>4, <2>5, TwoLegs
  <2> QED
    BY <1>1, <2>1, <2>3, <2>6 DEF a, x
<1>2. CASE UNCHANGED pipe /\ ends /\ AtEnd(k, from, dir)
  BY <1>0, <1>2
<1> QED
  BY <1>1, <1>2 DEF Copy

LEMMA NothingMoves ==
    ASSUME NEW k \in Conns, Gone(k), UNCHANGED pipe, SameHandlers(k), SameEnds(k), SameData(k)
    PROVE  /\ Gone(k)' /\ \A d \in Directions : Flow(k, d) => Flow(k, d)'
           /\ \A d \in Directions : InMiddle(k, d)' = InMiddle(k, d)
<1>1. /\ Gone(k)'
      /\ \A d \in Directions : ToLast(k, d)' <=> ToLast(k, d)
  BY NothingCloses DEF SameClosed
<1>2. \A d \in Directions : InMiddle(k, d)' = InMiddle(k, d) /\ Still(k, d)
  <2>1. \A d \in Directions : /\ InLast(k, d)' = InLast(k, d) /\ InMiddle(k, d)' = InMiddle(k, d)
                              /\ InFirst(k, d)' = InFirst(k, d)
    BY DEF InLast, InMiddle, InFirst
  <2> QED
    BY <1>1, <2>1, HandlersKnown, EndsKnown DEF Still, SameData
<1> QED
  BY <1>1, <1>2, FlowStays

\* From an end's leg into leg M.
LEMMA CopiesIn ==
    ASSUME TypeOK, TypeOK', NEW k \in Conns, NEW dir \in Directions, NEW ends \in BOOLEAN, Gone(k),
           Copy(k, FirstLeg(dir), "M", dir, ends),
           SameHandlers(k), SameEnds(k), SameData(k), Near(k, dir) # "done",
           Pending(k, dir) => InMiddle(k, dir) # <<>>
    PROVE  /\ Gone(k)' /\ \A d \in Directions : Flow(k, d) => Flow(k, d)'
           /\ Far(k, dir) # "done" => InMiddle(k, Opposite(dir))' = InMiddle(k, Opposite(dir))
           /\ Begins(InMiddle(k, Opposite(dir))', InMiddle(k, Opposite(dir)))
           /\ InMiddle(k, dir) # <<>> =>
                InMiddle(k, dir)' # <<>> /\ InMiddle(k, dir)'[1] = InMiddle(k, dir)[1]
<1>0. /\ FirstLeg(dir) \in Legs /\ LastLeg(dir) \in Legs /\ "M" \in Legs
      /\ FirstLeg(dir) # "M" /\ LastLeg(dir) # "M" /\ FirstLeg(dir) # LastLeg(dir)
      /\ Opposite(dir) \in Directions
  BY Directed, Opposites
<1>1. \/ /\ InFirst(k, dir) # <<>>
         /\ pipe'[k][FirstLeg(dir)] = Take(pipe[k][FirstLeg(dir)], dir, 1)
         /\ pipe'[k]["M"] \in Put(pipe[k]["M"], dir, InFirst(k, dir)[1])
         /\ pipe'[k][LastLeg(dir)] = pipe[k][LastLeg(dir)]
      \/ pipe' = pipe
  BY <1>0, CopyPipes DEF InFirst
<1>2. CASE /\ InFirst(k, dir) # <<>>
           /\ pipe'[k][FirstLeg(dir)] = Take(pipe[k][FirstLeg(dir)], dir, 1)
           /\ pipe'[k]["M"] \in Put(pipe[k]["M"], dir, InFirst(k, dir)[1])
           /\ pipe'[k][LastLeg(dir)] = pipe[k][LastLeg(dir)]
  <2>1. /\ Gone(k)' /\ \A d \in Directions : Flow(k, d) => Flow(k, d)'
        /\ Far(k, dir) = "done" => Begins(InMiddle(k, Opposite(dir))', InMiddle(k, Opposite(dir)))
        /\ Far(k, dir) # "done" => InMiddle(k, Opposite(dir))' = InMiddle(k, Opposite(dir))
        /\ \/ InMiddle(k, dir)' = InMiddle(k, dir)
           \/ InMiddle(k, dir)' = Append(InMiddle(k, dir), InFirst(k, dir)[1])
    BY <1>2, CopyEnters
  <2>2. /\ InMiddle(k, dir) \in Seq(Byte) /\ InMiddle(k, Opposite(dir)) \in Seq(Byte)
        /\ InFirst(k, dir)[1] \in Byte
    BY <1>0, <1>2, Parts, Rest
  <2>3. InMiddle(k, dir) # <<>> =>
          InMiddle(k, dir)' # <<>> /\ InMiddle(k, dir)'[1] = InMiddle(k, dir)[1]
    <3> DEFINE s == InMiddle(k, dir)
               x == InFirst(k, dir)[1]
    <3>1. s \in Seq(Byte) /\ x \in Byte /\ (InMiddle(k, dir)' = s \/ InMiddle(k, dir)' = Append(s, x))
      BY <2>1, <2>2
    <3> HIDE DEF s, x
    <3>2. s # <<>> => Append(s, x) # <<>> /\ Append(s, x)[1] = s[1]
      BY <3>1
    <3>3. s = InMiddle(k, dir)
      BY DEF s
    <3> QED
      BY <3>1, <3>2, <3>3
  <2> QED
    BY <2>1, <2>2, <2>3, BeginsItself
<1>3. CASE pipe' = pipe
  <2>1. /\ Gone(k)' /\ \A d \in Directions : Flow(k, d) => Flow(k, d)'
        /\ \A d \in Directions : InMiddle(k, d)' = InMiddle(k, d)
    BY <1>3, NothingMoves
  <2> QED
    BY <1>0, <2>1, Parts, BeginsItself
<1> QED
  BY <1>1, <1>2, <1>3

\* From leg M to an end.
LEMMA CopiesOut ==
    ASSUME TypeOK, TypeOK', NEW k \in Conns, NEW dir \in Directions, NEW ends \in BOOLEAN, Gone(k),
           Copy(k, "M", LastLeg(dir), dir, ends),
           SameHandlers(k), SameEnds(k), SameData(k), Far(k, dir) # "done", ~Pending(k, dir)
    PROVE  /\ Gone(k)' /\ \A d \in Directions : Flow(k, d) => Flow(k, d)'
           /\ InMiddle(k, Opposite(dir))' = InMiddle(k, Opposite(dir))
<1>0. /\ FirstLeg(dir) \in Legs /\ LastLeg(dir) \in Legs /\ "M" \in Legs
      /\ FirstLeg(dir) # "M" /\ LastLeg(dir) # "M" /\ FirstLeg(dir) # LastLeg(dir)
      /\ Opposite(dir) \in Directions
  BY Directed, Opposites
<1>1. \/ /\ InMiddle(k, dir) # <<>>
         /\ pipe'[k]["M"] = Take(pipe[k]["M"], dir, 1)
         /\ pipe'[k][LastLeg(dir)] \in Put(pipe[k][LastLeg(dir)], dir, InMiddle(k, dir)[1])
         /\ pipe'[k][FirstLeg(dir)] = pipe[k][FirstLeg(dir)]
      \/ pipe' = pipe
  BY <1>0, CopyPipes DEF InMiddle
<1> QED
  BY <1>0, <1>1, CopyLeaves, NothingMoves

LEMMA SrcMainStep ==
    ASSUME TypeOK, NEW k \in Conns, Good(k), SrcMain(k)
    PROVE  Keeps(k)
<1>1. PICK ends \in BOOLEAN : Copy(k, "M", "A", "down", ends)
                              /\ src' = [src EXCEPT ![k] = IF ends THEN "close" ELSE "relay"]
  BY DEF SrcMain
<1>2. /\ src[k] = "relay" /\ src' \in [Conns -> {"dial", "write", "wait", "relay", "close", "done"}]
      /\ src'[k] \in {"relay", "close"} /\ \A c \in Conns : c # k => src'[c] = src[c]
      /\ UNCHANGED <<app, srv, dst, side, sent, got, eof>>
  BY <1>1 DEF SrcMain, TypeOK
<1>3. "up" \in Directions /\ "down" \in Directions /\ Opposite("down") = "up"
      /\ "A" \in Legs /\ "M" \in Legs /\ LastLeg("down") = "A"
  BY DEF Directions, Opposite, Legs, LastLeg
<1>4. pipe' \in [Conns -> [Legs -> LegType]] /\ \A c \in Conns : c # k => pipe'[c] = pipe[c]
  BY <1>1, <1>3, CopyPipes
<1>5. TypeOK'
  BY <1>2, <1>4 DEF TypeOK, LegType
<1>6. \A c \in Conns : c # k => Untouched(c)
  BY <1>2, <1>4 DEF Untouched
<1>7. /\ SameHandlers(k) /\ SameEnds(k) /\ SameData(k)
      /\ Far(k, "down") # "done" /\ ~Pending(k, "down") /\ Gone(k)
  BY <1>2 DEF SameHandlers, SameEnds, SameData, Near, Far, Pending, Good
<1>8. /\ Gone(k)' /\ \A d \in Directions : Flow(k, d) => Flow(k, d)'
      /\ InMiddle(k, "up")' = InMiddle(k, "up")
  BY <1>1, <1>3, <1>5, <1>7, CopiesOut
<1>9. Shakes(k)'
  BY <1>2, <1>8 DEF Shakes, Good, Pending, Far
<1> QED
  BY <1>5, <1>6, <1>8, <1>9, GoodAgain DEF Keeps

LEMMA SrcSideStep ==
    ASSUME TypeOK, NEW k \in Conns, Good(k), SrcSide(k)
    PROVE  Keeps(k)
<1>1. PICK ends \in BOOLEAN :
        /\ \/ src[k] # "done" /\ Copy(k, "A", "M", "up", ends)
           \/ src[k] = "done" /\ ends /\ UNCHANGED pipe
        /\ side' = [side EXCEPT ![k].src = IF ends THEN "done" ELSE "run"]
  BY DEF SrcSide
<1>2. /\ side[k].src = "run" /\ side \in [Conns -> [src : {"none", "run", "done"}, dst : {"none", "run", "done"}]]
      /\ side' \in [Conns -> [src : {"none", "run", "done"}, dst : {"none", "run", "done"}]]
      /\ side'[k].dst = side[k].dst /\ \A c \in Conns : c # k => side'[c] = side[c]
      /\ UNCHANGED <<app, srv, src, dst, sent, got, eof>>
  <2>1. /\ side' = [side EXCEPT ![k] = [side[k] EXCEPT !.src = IF ends THEN "done" ELSE "run"]]
        /\ side \in [Conns -> [src : {"none", "run", "done"}, dst : {"none", "run", "done"}]]
    BY <1>1 DEF TypeOK
  <2>2. /\ [side[k] EXCEPT !.src = IF ends THEN "done" ELSE "run"] \in [src : {"none", "run", "done"}, dst : {"none", "run", "done"}]
        /\ [side[k] EXCEPT !.src = IF ends THEN "done" ELSE "run"].dst = side[k].dst
    BY <2>1
  <2> QED
    BY <2>1, <2>2 DEF SrcSide
<1>3. "up" \in Directions /\ "down" \in Directions /\ Opposite("up") = "down"
      /\ "A" \in Legs /\ "M" \in Legs /\ FirstLeg("up") = "A"
  BY DEF Directions, Opposite, Legs, FirstLeg
<1>4. pipe' \in [Conns -> [Legs -> LegType]] /\ \A c \in Conns : c # k => pipe'[c] = pipe[c]
  BY <1>1, <1>3, CopyPipes DEF TypeOK, LegType
<1>5. TypeOK'
  BY <1>2, <1>4 DEF TypeOK, LegType
<1>6. \A c \in Conns : c # k => Untouched(c)
  BY <1>2, <1>4 DEF Untouched
<1>7. /\ SameHandlers(k) /\ SameEnds(k) /\ SameData(k) /\ Gone(k) /\ Shakes(k)
      /\ ~Pending(k, "up") /\ src[k] \notin {"dial", "write"}
      /\ Near(k, "up") = src[k] /\ Far(k, "up") = dst[k]
  BY <1>2, HandlersStay DEF SameEnds, SameData, Good, Shakes, Near, Far, Pending
<1>8. /\ Gone(k)' /\ \A d \in Directions : Flow(k, d) => Flow(k, d)'
      /\ dst[k] # "done" => InMiddle(k, "down")' = InMiddle(k, "down")
      /\ Begins(InMiddle(k, "down")', InMiddle(k, "down"))
  <2>1. CASE src[k] # "done" /\ Copy(k, "A", "M", "up", ends)
    BY <1>3, <1>5, <1>7, <2>1, CopiesIn
  <2>2. CASE UNCHANGED pipe
    BY <1>3, <1>7, <2>2, NothingMoves, Parts, BeginsItself
  <2> QED
    BY <1>1, <2>1, <2>2
<1>9. Shakes(k)'
  <2>1. /\ InMiddle(k, "down") \in Seq(Byte) /\ InMiddle(k, "down")' \in Seq(Byte)
    BY <1>3, <1>5, Parts, PartsNext
  <2>2. InMiddle(k, "down")' # <<>> =>
          InMiddle(k, "down") # <<>> /\ InMiddle(k, "down")'[1] = InMiddle(k, "down")[1]
    BY <1>8, <2>1 DEF Begins
  <2>3. ~Pending(k, "up")'
    BY <1>2, <1>7 DEF Pending, Far
  <2> QED
    BY <1>2, <1>7, <1>8, <2>2, <2>3 DEF Shakes
<1> QED
  BY <1>5, <1>6, <1>8, <1>9, GoodAgain DEF Keeps

\* The dst gateway copies only after the destination was read, and the 'Y'
\* is in front of what it copies down.
LEMMA DstCopies ==
    ASSUME TypeOK, TypeOK', NEW k \in Conns, Good(k), NEW dir \in Directions, NEW ends \in BOOLEAN,
           DstCopy(k, dir, ends),
           dst[k] = "relay" \/ side[k].dst = "run", dst[k] # "done",
           SameEnds(k), SameData(k), src'[k] = src[k],
           dst'[k] = dst[k] \/ (dst[k] = "relay" /\ dst'[k] = "close"),
           side'[k].src = side[k].src, side'[k].dst \in {side[k].dst, "done"}
    PROVE  Good(k)'
<1>0. /\ "up" \in Directions /\ "down" \in Directions
      /\ Opposite("up") = "down" /\ Opposite("down") = "up"
      /\ FirstLeg("down") = "T" /\ LastLeg("up") = "T"
      /\ dst[k] \in {"none", "read", "dial", "reply", "relay", "close", "done"}
      /\ src[k] \in {"dial", "write", "wait", "relay", "close", "done"}
  BY DEF Directions, Opposite, FirstLeg, LastLeg, TypeOK
<1>1. Gone(k) /\ Shakes(k)
  BY DEF Good
<1>2. ~Pending(k, "up") /\ dst[k] \in {"relay", "close"}
  BY <1>0, <1>1 DEF Shakes, Pending, Far
<1>3. SameHandlers(k)
  BY <1>2 DEF SameHandlers, Near, Far, Pending
<1>4. Pending(k, "down") => src[k] = "wait" /\ InMiddle(k, "down") # <<>>
  <2>1. src[k] \notin {"dial", "write"}
    BY <1>1, <1>2 DEF Shakes
  <2>2. dst[k] = "relay" \/ (dst[k] = "close" /\ side[k].dst = "run")
    BY <1>2
  <2> QED
    BY <1>0, <1>1, <2>1, <2>2 DEF Shakes, Pending, Far
<1>5. /\ Gone(k)' /\ \A d \in Directions : Flow(k, d) => Flow(k, d)'
      /\ InMiddle(k, "down") # <<>> /\ src[k] = "wait" =>
           InMiddle(k, "down")' # <<>> /\ InMiddle(k, "down")'[1] = InMiddle(k, "down")[1]
  <2>1. CASE dir = "down"
    <3>1. Copy(k, FirstLeg("down"), "M", "down", ends) /\ Near(k, "down") # "done"
      BY <1>0, <2>1 DEF DstCopy, Near
    <3> QED
      BY <1>0, <1>1, <1>3, <1>4, <3>1, CopiesIn
  <2>2. CASE dir = "up"
    <3>1. Copy(k, "M", LastLeg("up"), "up", ends) /\ Far(k, "up") # "done"
      BY <1>0, <2>2 DEF DstCopy, Far
    <3>2. /\ Gone(k)' /\ \A d \in Directions : Flow(k, d) => Flow(k, d)'
          /\ InMiddle(k, "down")' = InMiddle(k, "down")
      BY <1>0, <1>1, <1>2, <1>3, <3>1, CopiesOut
    <3> QED
      BY <3>2
  <2> QED
    BY <2>1, <2>2 DEF Directions
<1>6. Shakes(k)'
  <2>1. /\ ~Pending(k, "up")' /\ dst'[k] \in {"relay", "close"}
        /\ src'[k] = "wait" => InMiddle(k, "down") # <<>>
    <3>1. src[k] = "wait" => Pending(k, "down")
      BY DEF Pending, Far
    <3> QED
      BY <1>2, <1>4, <3>1 DEF Pending, Far
  <2> QED
    BY <1>1, <1>2, <1>5, <2>1 DEF Shakes
<1> QED
  BY <1>5, <1>6, GoodAgain

LEMMA DstCopyPipes ==
    ASSUME TypeOK, NEW k \in Conns, NEW dir \in Directions, NEW ends \in BOOLEAN, DstCopy(k, dir, ends)
    PROVE  pipe' \in [Conns -> [Legs -> LegType]] /\ \A c \in Conns : c # k => pipe'[c] = pipe[c]
<1>1. "up" \in Directions /\ "down" \in Directions /\ "T" \in Legs /\ "M" \in Legs
  BY DEF Directions, Legs
<1>2. Copy(k, "T", "M", "down", ends) \/ Copy(k, "M", "T", "up", ends)
  BY DEF DstCopy
<1> QED
  BY <1>1, <1>2, CopyPipes

LEMMA DstMainStep ==
    ASSUME TypeOK, NEW k \in Conns, Good(k), DstMain(k)
    PROVE  Keeps(k)
<1>1. PICK ends \in BOOLEAN : DstCopy(k, MainDir, ends)
                              /\ dst' = [dst EXCEPT ![k] = IF ends THEN "close" ELSE "relay"]
  BY DEF DstMain
<1>2. /\ dst[k] = "relay"
      /\ dst' \in [Conns -> {"none", "read", "dial", "reply", "relay", "close", "done"}]
      /\ dst'[k] \in {"relay", "close"} /\ \A c \in Conns : c # k => dst'[c] = dst[c]
      /\ UNCHANGED <<app, srv, src, side, sent, got, eof>>
  BY <1>1 DEF DstMain, TypeOK
<1>3. MainDir \in Directions
  BY DEF MainDir, Directions
<1>4. pipe' \in [Conns -> [Legs -> LegType]] /\ \A c \in Conns : c # k => pipe'[c] = pipe[c]
  BY <1>1, <1>3, DstCopyPipes
<1>5. TypeOK'
  BY <1>2, <1>4 DEF TypeOK, LegType
<1>6. \A c \in Conns : c # k => Untouched(c)
  BY <1>2, <1>4 DEF Untouched
<1>7. /\ SameEnds(k) /\ SameData(k) /\ src'[k] = src[k]
      /\ dst'[k] = dst[k] \/ (dst[k] = "relay" /\ dst'[k] = "close")
      /\ side'[k].src = side[k].src /\ side'[k].dst \in {side[k].dst, "done"}
      /\ dst[k] = "relay" /\ dst[k] # "done"
  BY <1>2 DEF SameEnds, SameData
<1>8. Good(k)'
  <2>1. PICK dir \in Directions : DstCopy(k, dir, ends)
    BY <1>1, <1>3
  <2> QED
    BY <1>5, <1>7, <2>1, DstCopies
<1> QED
  BY <1>5, <1>6, <1>8 DEF Keeps

LEMMA DstSideStep ==
    ASSUME TypeOK, NEW k \in Conns, Good(k), DstSide(k)
    PROVE  Keeps(k)
<1>1. PICK ends \in BOOLEAN :
        /\ \/ dst[k] # "done" /\ DstCopy(k, Opposite(MainDir), ends)
           \/ dst[k] = "done" /\ ends /\ UNCHANGED pipe
        /\ side' = [side EXCEPT ![k].dst = IF ends THEN "done" ELSE "run"]
  BY DEF DstSide
<1>2. /\ side[k].dst = "run" /\ side \in [Conns -> [src : {"none", "run", "done"}, dst : {"none", "run", "done"}]]
      /\ side' \in [Conns -> [src : {"none", "run", "done"}, dst : {"none", "run", "done"}]]
      /\ side'[k].src = side[k].src /\ side'[k].dst \in {"run", "done"}
      /\ \A c \in Conns : c # k => side'[c] = side[c]
      /\ UNCHANGED <<app, srv, src, dst, sent, got, eof>>
  BY <1>1 DEF DstSide, TypeOK
<1>3. Opposite(MainDir) \in Directions
  BY DEF MainDir, Directions, Opposite
<1>4. pipe' \in [Conns -> [Legs -> LegType]] /\ \A c \in Conns : c # k => pipe'[c] = pipe[c]
  BY <1>1, <1>3, DstCopyPipes DEF TypeOK, LegType
<1>5. TypeOK'
  BY <1>2, <1>4 DEF TypeOK, LegType
<1>6. \A c \in Conns : c # k => Untouched(c)
  BY <1>2, <1>4 DEF Untouched
<1>7. /\ SameEnds(k) /\ SameData(k) /\ src'[k] = src[k] /\ dst'[k] = dst[k]
      /\ side'[k].src = side[k].src /\ side'[k].dst \in {side[k].dst, "done"}
      /\ side[k].dst = "run"
  BY <1>2 DEF SameEnds, SameData
<1>8. CASE dst[k] # "done" /\ DstCopy(k, Opposite(MainDir), ends)
  <2>1. Good(k)'
    <3>1. PICK dir \in Directions : DstCopy(k, dir, ends)
      BY <1>3, <1>8
    <3> QED
      BY <1>5, <1>7, <1>8, <3>1, DstCopies
  <2> QED
    BY <1>5, <1>6, <2>1 DEF Keeps
<1>9. CASE dst[k] = "done" /\ UNCHANGED pipe
  <2>1. /\ Gone(k)' /\ \A d \in Directions : Flow(k, d) => Flow(k, d)'
        /\ \A d \in Directions : InMiddle(k, d)' = InMiddle(k, d)
    BY <1>2, <1>7, <1>9, HandlersStay, NothingMoves DEF Good
  <2>2. Shakes(k)'
    BY <1>2, <1>9, <2>1 DEF Shakes, Good, Pending, Far, Directions
  <2> QED
    BY <1>5, <1>6, <2>1, <2>2, GoodAgain DEF Keeps
<1> QED
  BY <1>1, <1>8, <1>9

-----------------------------------------------------------------------------
(* The handshake *)

LEMMA TakeSome ==
    ASSUME NEW pair \in LegType, NEW dir \in Directions, NEW n \in 1 .. Len(pair[dir].buf)
    PROVE  LET l == Take(pair, dir, n)
           IN  /\ l \in LegType
               /\ \A d \in Directions : l[d].fin = pair[d].fin /\ l[d].gone = pair[d].gone
               /\ l[Opposite(dir)] = pair[Opposite(dir)]
<1> DEFINE l == Take(pair, dir, n)
           s == SubSeq(pair[dir].buf, n + 1, Len(pair[dir].buf))
<1>0. pair[dir] \in PipeType /\ pair[dir].buf \in Seq(Byte)
  BY DEF LegType, PipeType, Data
<1>1. s \in Data
  <2>1. ASSUME NEW t \in Seq(Byte), NEW m \in 1 .. Len(t) PROVE SubSeq(t, m + 1, Len(t)) \in Seq(Byte)
    OBVIOUS
  <2> QED
    BY <1>0, <2>1 DEF Data
<1>2. l = [pair EXCEPT ![dir] = [pair[dir] EXCEPT !.buf = s]]
  BY DEF Take, LegType
<1> HIDE DEF s
<1>3. [pair[dir] EXCEPT !.buf = s] \in PipeType
  BY <1>0, <1>1 DEF PipeType
<1>4. l \in LegType /\ l[Opposite(dir)] = pair[Opposite(dir)] /\ l[dir] = [pair[dir] EXCEPT !.buf = s]
  BY <1>2, <1>3, Opposites DEF LegType
<1> QED
  BY <1>0, <1>4, Opposites DEF PipeType

\* A message of the handshake is written or read, and no byte but that one.
LEMMA Handshaking ==
    ASSUME NEW k \in Conns, Good(k), SameData(k),
           \A d \in Directions : /\ Near(k, d)' = "done" <=> Near(k, d) = "done"
                                 /\ Writing(k, d)' <=> Writing(k, d)
                                 /\ InLast(k, d)' = InLast(k, d) /\ InFirst(k, d)' = InFirst(k, d),
           \A leg \in Legs : SameClosed(k, leg),
           \A d \in Directions :
               (d = "up" \/ Mode = "tls") /\ Far(k, d) # "done" => Between(k, d)' = Between(k, d),
           Shakes(k)'
    PROVE  Good(k)'
<1>1. \A d \in Directions : /\ Far(k, d)' = "done" <=> Far(k, d) = "done"
                            /\ ToMiddle(k, d)' <=> ToMiddle(k, d)
                            /\ ToLast(k, d)' <=> ToLast(k, d)
  <2>1. ASSUME NEW d \in Directions
        PROVE  /\ Far(k, d)' = "done" <=> Far(k, d) = "done"
               /\ pipe'[k][LastLeg(d)][d].gone = pipe[k][LastLeg(d)][d].gone
    <3>1. Near(k, Opposite(d)) = Far(k, d) /\ Near(k, Opposite(d))' = Far(k, d)'
      BY Directed DEF Directions, Opposite, Near, Far
    <3> QED
      BY <3>1, Opposites, Directed DEF SameClosed
  <2> QED
    BY <2>1 DEF ToMiddle, ToLast
<1>2. Gone(k)'
  <2>1. ASSUME NEW d \in Directions
        PROVE  /\ pipe'[k][FirstLeg(d)][d].gone = pipe[k][FirstLeg(d)][d].gone
               /\ pipe'[k]["M"][d].gone = pipe[k]["M"][d].gone
               /\ pipe'[k]["M"][d].fin = pipe[k]["M"][d].fin
               /\ pipe'[k][LastLeg(d)][d].gone = pipe[k][LastLeg(d)][d].gone
               /\ Writing(k, Opposite(d))' <=> Writing(k, Opposite(d))
    BY Directed, Opposites DEF SameClosed
  <2> QED
    BY <1>1, <2>1 DEF Gone, Good
<1>3. ASSUME NEW d \in Directions, d = "up" \/ Mode = "tls", Flow(k, d)
      PROVE  Flow(k, d)'
  <2>1. CASE Far(k, d) = "done"
    BY <1>1, <1>3, <2>1 DEF Flow, Chain, ToLast, SameData
  <2>2. CASE Far(k, d) # "done"
    BY <1>1, <1>3, <2>2, FlowStays DEF Still, SameData
  <2> QED
    BY <2>1, <2>2
<1> QED
  BY <1>2, <1>3 DEF Good, Directions

\* Leg M changes, the others do not.
LEMMA OtherLegs ==
    ASSUME NEW k \in Conns, SameClosed(k, "M"),
           \A x \in Legs : x # "M" => pipe'[k][x] = pipe[k][x]
    PROVE  /\ \A d \in Directions : InLast(k, d)' = InLast(k, d) /\ InFirst(k, d)' = InFirst(k, d)
           /\ \A leg \in Legs : SameClosed(k, leg)
BY Directed DEF SameClosed, InLast, InFirst

\* How a handler writes a message to leg M.
LEMMA WriteMessage ==
    ASSUME TypeOK, NEW k \in Conns, NEW dir \in Directions, Write(k, "M", dir, Handshake)
    PROVE  /\ pipe' \in [Conns -> [Legs -> LegType]]
           /\ \A c \in Conns : c # k => pipe'[c] = pipe[c]
           /\ \A d \in Directions : InLast(k, d)' = InLast(k, d) /\ InFirst(k, d)' = InFirst(k, d)
           /\ \A leg \in Legs : SameClosed(k, leg)
           /\ pipe[k]["M"][dir].gone =>
                /\ InMiddle(k, dir)' = InMiddle(k, dir)
                /\ Begins(InMiddle(k, Opposite(dir))', InMiddle(k, Opposite(dir)))
           /\ ~pipe[k]["M"][dir].gone =>
                /\ InMiddle(k, dir)' = Append(InMiddle(k, dir), Handshake)
                /\ InMiddle(k, Opposite(dir))' = InMiddle(k, Opposite(dir))
<1> DEFINE mid == pipe[k]["M"]
<1>0. mid \in LegType /\ "M" \in Legs /\ Handshake \in Byte
  BY RelayAssumption DEF TypeOK, LegType, Legs, Handshake, Byte
<1>1. PICK l \in Put(mid, dir, Handshake) : pipe' = [pipe EXCEPT ![k]["M"] = l]
  BY DEF Write
<1>2. /\ l \in LegType
      /\ \A d \in Directions : l[d].fin = mid[d].fin /\ l[d].gone = mid[d].gone
      /\ mid[dir].gone => l[dir] = mid[dir] /\ Begins(l[Opposite(dir)].buf, mid[Opposite(dir)].buf)
      /\ ~mid[dir].gone => l[Opposite(dir)] = mid[Opposite(dir)]
                           /\ l[dir].buf = Append(mid[dir].buf, Handshake)
  <2> HIDE DEF mid
  <2> QED
    BY <1>0, <1>1, PutLeg
<1>3. /\ pipe' \in [Conns -> [Legs -> LegType]] /\ pipe'[k]["M"] = l
      /\ \A x \in Legs : x # "M" => pipe'[k][x] = pipe[k][x]
      /\ \A c \in Conns : c # k => pipe'[c] = pipe[c]
  BY <1>0, <1>1, <1>2, OneLeg
<1>4. SameClosed(k, "M")
  BY <1>2, <1>3 DEF SameClosed
<1> QED
  BY <1>2, <1>3, <1>4, OtherLegs DEF InMiddle

\* How it reads one.
LEMMA ReadsMessage ==
    ASSUME TypeOK, NEW k \in Conns, NEW dir \in Directions, ReadMessage(k, dir)
    PROVE  /\ pipe' \in [Conns -> [Legs -> LegType]]
           /\ \A c \in Conns : c # k => pipe'[c] = pipe[c]
           /\ \A d \in Directions : InLast(k, d)' = InLast(k, d) /\ InFirst(k, d)' = InFirst(k, d)
           /\ \A leg \in Legs : SameClosed(k, leg)
           /\ InMiddle(k, dir) # <<>>
           /\ InMiddle(k, Opposite(dir))' = InMiddle(k, Opposite(dir))
           /\ Mode = "tls" \/ Len(InMiddle(k, dir)) = 1 => InMiddle(k, dir)' = Tail(InMiddle(k, dir))
<1> DEFINE mid == pipe[k]["M"]
<1>0. mid \in LegType /\ "M" \in Legs
  BY DEF TypeOK, LegType, Legs
<1>1. PICK n \in ReadSizes(Len(mid[dir].buf)) : pipe' = [pipe EXCEPT ![k]["M"] = Take(@, dir, n)]
  BY DEF ReadMessage
<1>2. mid[dir].buf # <<>> /\ mid[dir].buf \in Seq(Byte)
  BY <1>0 DEF ReadMessage, Readable, LegType, PipeType, Data
<1>3. n \in 1 .. Len(mid[dir].buf) /\ (Mode = "tls" \/ Len(mid[dir].buf) = 1 => n = 1)
  <2>1. ASSUME NEW size \in Nat \ {0}, n \in ReadSizes(size)
        PROVE  n \in 1 .. size /\ (Mode = "tls" \/ size = 1 => n = 1)
    BY <2>1 DEF ReadSizes
  <2>2. Len(mid[dir].buf) \in Nat \ {0}
    BY <1>2
  <2> QED
    BY <1>1, <2>1, <2>2
<1> DEFINE l == Take(mid, dir, n)
<1>4. pipe' = [pipe EXCEPT ![k]["M"] = l]
  BY <1>0, <1>1 DEF TypeOK
<1>5. /\ l \in LegType
      /\ \A d \in Directions : l[d].fin = mid[d].fin /\ l[d].gone = mid[d].gone
      /\ l[Opposite(dir)] = mid[Opposite(dir)]
  <2> HIDE DEF mid
  <2> QED
    BY <1>0, <1>3, TakeSome
<1>6. n = 1 => l[dir].buf = Tail(mid[dir].buf)
  <2> HIDE DEF mid
  <2> QED
    BY <1>0, <1>2, TakeLeg
<1> HIDE DEF l
<1>7. /\ pipe' \in [Conns -> [Legs -> LegType]] /\ pipe'[k]["M"] = l
      /\ \A x \in Legs : x # "M" => pipe'[k][x] = pipe[k][x]
      /\ \A c \in Conns : c # k => pipe'[c] = pipe[c]
  BY <1>0, <1>4, <1>5, OneLeg
<1>8. SameClosed(k, "M")
  BY <1>5, <1>7 DEF SameClosed
<1> QED
  BY <1>2, <1>3, <1>5, <1>6, <1>7, <1>8, OtherLegs DEF InMiddle

LEMMA OneMessage ==
    /\ Append(<<>>, Handshake) = <<Handshake>>
    /\ <<Handshake>> # <<>> /\ <<Handshake>>[1] = Handshake /\ Len(<<Handshake>>) = 1
    /\ Tail(<<Handshake>>) = <<>>
OBVIOUS

LEMMA Single == ASSUME NEW S, NEW s \in Seq(S), Len(s) = 1 PROVE Tail(s) = <<>>
<1>1. s # <<>>
  OBVIOUS
<1>2. Tail(s) \in Seq(S) /\ Len(Tail(s)) = 0
  BY <1>1, Rest
<1>3. ASSUME NEW t \in Seq(S), Len(t) = 0 PROVE t = <<>>
  BY <1>3
<1> QED
  BY <1>2, <1>3

LEMMA SrcDialStep ==
    ASSUME TypeOK, NEW k \in Conns, Good(k), SrcDial(k)
    PROVE  Keeps(k) /\ Quiet(k)
<1>1. /\ src' = [src EXCEPT ![k] = "write"] /\ src[k] = "dial"
      /\ dst' = [dst EXCEPT ![k] = "read"]
      /\ UNCHANGED <<pipe, app, srv, side, sent, got, eof>>
  BY DEF SrcDial
<1>2. TypeOK' /\ src'[k] = "write" /\ dst'[k] = "read" /\ \A c \in Conns : c # k => Untouched(c)
  BY <1>1 DEF TypeOK, Untouched
<1>3. dst[k] = "none" /\ srv[k] = "none" /\ InMiddle(k, "up") = <<>>
  BY <1>1 DEF Good, Shakes, Pending, Far
<1>4. SameHandlers(k) /\ SameEnds(k) /\ SameData(k) /\ Gone(k)
  BY <1>1, <1>2, <1>3 DEF SameHandlers, SameEnds, SameData, Near, Far, Pending, Good
<1>5. /\ Gone(k)' /\ \A d \in Directions : Flow(k, d) => Flow(k, d)'
      /\ \A d \in Directions : InMiddle(k, d)' = InMiddle(k, d)
  BY <1>1, <1>4, NothingMoves
<1>6. Shakes(k)'
  BY <1>1, <1>2, <1>3, <1>5 DEF Shakes, Good, Pending, Far, Directions
<1>7. Quiet(k)
  <2>1. \A d \in Directions : Between(k, d)' = Between(k, d)
    BY <1>4, <1>5, HandlersKnown
  <2> QED
    BY <1>1, <2>1 DEF Quiet, SameData, SameClosed, InLast, InFirst, Directions
<1> QED
  BY <1>2, <1>5, <1>6, <1>7, GoodAgain DEF Keeps

LEMMA SrcWriteStep ==
    ASSUME TypeOK, NEW k \in Conns, Good(k), SrcWrite(k)
    PROVE  Keeps(k) /\ Quiet(k)
<1>0. "up" \in Directions /\ "down" \in Directions /\ Opposite("up") = "down"
  BY DEF Directions, Opposite
<1>1. /\ src' = [src EXCEPT ![k] = "wait"] /\ src[k] = "write"
      /\ Write(k, "M", "up", Handshake)
      /\ UNCHANGED <<app, srv, dst, side, sent, got, eof>>
  BY DEF SrcWrite
<1>2. dst[k] = "read" /\ InMiddle(k, "up") = <<>> /\ InMiddle(k, "down") = <<>> /\ Shakes(k) /\ Gone(k)
  BY <1>1 DEF Good, Shakes, Pending, Far
<1>3. ~pipe[k]["M"]["up"].gone
  BY <1>0, <1>2 DEF Gone, Far
<1>4. /\ pipe' \in [Conns -> [Legs -> LegType]]
      /\ \A c \in Conns : c # k => pipe'[c] = pipe[c]
      /\ \A d \in Directions : InLast(k, d)' = InLast(k, d) /\ InFirst(k, d)' = InFirst(k, d)
      /\ \A leg \in Legs : SameClosed(k, leg)
      /\ InMiddle(k, "up")' = <<Handshake>> /\ InMiddle(k, "down")' = <<>>
  BY <1>0, <1>1, <1>2, <1>3, WriteMessage, OneMessage
<1>5. TypeOK' /\ src'[k] = "wait" /\ dst'[k] = "read" /\ \A c \in Conns : c # k => Untouched(c)
  BY <1>1, <1>2, <1>4 DEF TypeOK, Untouched, LegType
<1>6. /\ SameData(k)
      /\ \A d \in Directions : /\ Near(k, d)' = "done" <=> Near(k, d) = "done"
                               /\ Writing(k, d)' <=> Writing(k, d)
  BY <1>1, <1>2, <1>5 DEF SameData, Near, Writing
<1>7. \A d \in Directions : Between(k, d)' = Between(k, d)
  <2>1. Pending(k, "up")'
    BY <1>5 DEF Pending, Far
  <2>2. Between(k, "up")' = <<>> /\ Between(k, "up") = <<>>
    BY <1>2, <1>4, <2>1, OneMessage DEF Between
  <2>3. Between(k, "down")' = <<>> /\ Between(k, "down") = <<>>
    BY <1>2, <1>4 DEF Between
  <2> QED
    BY <2>2, <2>3 DEF Directions
<1>8. Shakes(k)'
  BY <1>1, <1>2, <1>4, <1>5, OneMessage DEF Shakes, Pending, Far
<1>9. Good(k)'
  BY <1>4, <1>6, <1>7, <1>8, Handshaking
<1>10. Quiet(k)
  BY <1>1, <1>4, <1>6, <1>7 DEF Quiet, Directions
<1> QED
  BY <1>5, <1>9, <1>10 DEF Keeps

LEMMA SrcWaitStep ==
    ASSUME TypeOK, NEW k \in Conns, Good(k), SrcWait(k)
    PROVE  Keeps(k) /\ Quiet(k)
<1>0. "up" \in Directions /\ "down" \in Directions /\ Opposite("down") = "up"
  BY DEF Directions, Opposite
<1>1. /\ src' = [src EXCEPT ![k] = "relay"] /\ src[k] = "wait"
      /\ side' = [side EXCEPT ![k].src = "run"]
      /\ UNCHANGED <<app, srv, dst, sent, got, eof>>
  BY DEF SrcWait
<1>2. Shakes(k) /\ Gone(k)
  BY DEF Good
<1>3. /\ pipe' \in [Conns -> [Legs -> LegType]]
      /\ \A c \in Conns : c # k => pipe'[c] = pipe[c]
      /\ \A d \in Directions : InLast(k, d)' = InLast(k, d) /\ InFirst(k, d)' = InFirst(k, d)
      /\ \A leg \in Legs : SameClosed(k, leg)
      /\ ~Pending(k, "up")
      /\ InMiddle(k, "up")' = InMiddle(k, "up")
      /\ Mode = "tls" => InMiddle(k, "down")' = IF InMiddle(k, "down") # <<>> THEN Tail(InMiddle(k, "down")) ELSE <<>>
  <2>1. CASE ReadMessage(k, "down")
    <3>1. /\ pipe' \in [Conns -> [Legs -> LegType]]
          /\ \A c \in Conns : c # k => pipe'[c] = pipe[c]
          /\ \A d \in Directions : InLast(k, d)' = InLast(k, d) /\ InFirst(k, d)' = InFirst(k, d)
          /\ \A leg \in Legs : SameClosed(k, leg)
          /\ InMiddle(k, "down") # <<>>
          /\ InMiddle(k, "up")' = InMiddle(k, "up")
          /\ Mode = "tls" => InMiddle(k, "down")' = Tail(InMiddle(k, "down"))
      BY <1>0, <2>1, ReadsMessage
    <3> QED
      BY <1>2, <3>1 DEF Shakes
  <2>2. CASE AtEnd(k, "M", "down") /\ UNCHANGED pipe
    <3>1. InMiddle(k, "down") = <<>> /\ dst[k] = "done"
      BY <1>0, <1>2, <2>2 DEF AtEnd, InMiddle, Gone, Near
    <3>2. \A d \in Directions : /\ InLast(k, d)' = InLast(k, d) /\ InFirst(k, d)' = InFirst(k, d)
                                /\ InMiddle(k, d)' = InMiddle(k, d)
      BY <2>2 DEF InLast, InFirst, InMiddle
    <3> QED
      BY <1>0, <2>2, <3>1, <3>2 DEF TypeOK, LegType, SameClosed, Pending, Far
  <2> QED
    BY <2>1, <2>2 DEF SrcWait
<1>4. /\ side' \in [Conns -> [src : {"none", "run", "done"}, dst : {"none", "run", "done"}]]
      /\ \A c \in Conns : c # k => side'[c] = side[c]
  <2>1. /\ side' = [side EXCEPT ![k] = [side[k] EXCEPT !.src = "run"]]
        /\ side \in [Conns -> [src : {"none", "run", "done"}, dst : {"none", "run", "done"}]]
    BY <1>1 DEF TypeOK
  <2>2. [side[k] EXCEPT !.src = "run"] \in [src : {"none", "run", "done"}, dst : {"none", "run", "done"}]
    BY <2>1
  <2> QED
    BY <2>1, <2>2
<1>5. TypeOK' /\ src'[k] = "relay" /\ dst'[k] = dst[k] /\ \A c \in Conns : c # k => Untouched(c)
  BY <1>1, <1>3, <1>4 DEF TypeOK, Untouched, LegType
<1>6. /\ SameData(k)
      /\ \A d \in Directions : /\ Near(k, d)' = "done" <=> Near(k, d) = "done"
                               /\ Writing(k, d)' <=> Writing(k, d)
  BY <1>1, <1>5 DEF SameData, Near, Writing
<1>7. Between(k, "up")' = Between(k, "up") /\ (Mode = "tls" => Between(k, "down")' = Between(k, "down"))
  <2>1. Pending(k, "down") /\ ~Pending(k, "down")' /\ ~Pending(k, "up")'
    BY <1>1, <1>3, <1>5 DEF Pending, Far
  <2> QED
    BY <1>3, <2>1 DEF Between
<1>8. Shakes(k)'
  BY <1>1, <1>2, <1>3, <1>5 DEF Shakes, Pending, Far
<1>9. Good(k)'
  BY <1>3, <1>6, <1>7, <1>8, Handshaking DEF Directions
<1>10. Quiet(k)
  BY <1>1, <1>3, <1>6, <1>7 DEF Quiet, Directions
<1> QED
  BY <1>5, <1>9, <1>10 DEF Keeps

LEMMA DstReadStep ==
    ASSUME TypeOK, NEW k \in Conns, Good(k), DstRead(k)
    PROVE  Keeps(k) /\ Quiet(k)
<1>0. "up" \in Directions /\ "down" \in Directions /\ Opposite("up") = "down"
  BY DEF Directions, Opposite
<1>1. dst[k] = "read" /\ UNCHANGED <<app, srv, src, side, sent, got, eof>>
  BY DEF DstRead
<1>2. /\ Shakes(k) /\ Gone(k) /\ src[k] # "dial" /\ srv[k] = "none" /\ Pending(k, "up")
      /\ InMiddle(k, "down") = <<>> /\ side[k].dst = "none"
  BY <1>1 DEF Good, Shakes, Pending, Far
<1>3. /\ pipe' \in [Conns -> [Legs -> LegType]]
      /\ \A c \in Conns : c # k => pipe'[c] = pipe[c]
      /\ \A d \in Directions : InLast(k, d)' = InLast(k, d) /\ InFirst(k, d)' = InFirst(k, d)
      /\ \A leg \in Legs : SameClosed(k, leg)
      /\ InMiddle(k, "up")' = <<>> /\ Between(k, "up") = <<>> /\ InMiddle(k, "down")' = <<>>
      /\ src[k] # "write"
      /\ \/ dst' = [dst EXCEPT ![k] = "dial"]
         \/ dst' = [dst EXCEPT ![k] = "close"] /\ src[k] = "done"
  <2>1. CASE ReadMessage(k, "up") /\ dst' = [dst EXCEPT ![k] = "dial"]
    <3>1. /\ pipe' \in [Conns -> [Legs -> LegType]]
          /\ \A c \in Conns : c # k => pipe'[c] = pipe[c]
          /\ \A d \in Directions : InLast(k, d)' = InLast(k, d) /\ InFirst(k, d)' = InFirst(k, d)
          /\ \A leg \in Legs : SameClosed(k, leg)
          /\ InMiddle(k, "up") # <<>>
          /\ InMiddle(k, "down")' = InMiddle(k, "down")
          /\ Len(InMiddle(k, "up")) = 1 => InMiddle(k, "up")' = Tail(InMiddle(k, "up"))
      BY <1>0, <2>1, ReadsMessage
    <3>2. Len(InMiddle(k, "up")) = 1 /\ src[k] # "write"
      BY <1>2, <3>1 DEF Shakes
    <3>3. Tail(InMiddle(k, "up")) = <<>>
      <4>1. InMiddle(k, "up") \in Seq(Byte)
        BY <1>0, Parts
      <4> QED
        BY <3>2, <4>1, Single
    <3> QED
      BY <1>2, <2>1, <3>1, <3>2, <3>3 DEF Between
  <2>2. CASE AtEnd(k, "M", "up") /\ UNCHANGED pipe /\ dst' = [dst EXCEPT ![k] = "close"]
    <3>1. InMiddle(k, "up") = <<>> /\ src[k] = "done"
      BY <1>0, <1>2, <2>2 DEF AtEnd, InMiddle, Gone, Near
    <3>2. \A d \in Directions : /\ InLast(k, d)' = InLast(k, d) /\ InFirst(k, d)' = InFirst(k, d)
                                /\ InMiddle(k, d)' = InMiddle(k, d)
      BY <2>2 DEF InLast, InFirst, InMiddle
    <3> QED
      BY <1>0, <1>2, <2>2, <3>1, <3>2 DEF TypeOK, LegType, SameClosed, Between
  <2> QED
    BY <2>1, <2>2 DEF DstRead
<1>4. /\ dst'[k] \in {"dial", "close"} /\ (dst'[k] = "close" => src[k] = "done")
      /\ dst' \in [Conns -> {"none", "read", "dial", "reply", "relay", "close", "done"}]
      /\ \A c \in Conns : c # k => dst'[c] = dst[c]
  BY <1>3 DEF TypeOK
<1>5. TypeOK' /\ \A c \in Conns : c # k => Untouched(c)
  BY <1>1, <1>3, <1>4 DEF TypeOK, Untouched, LegType
<1>6. /\ SameData(k)
      /\ \A d \in Directions : /\ Near(k, d)' = "done" <=> Near(k, d) = "done"
                               /\ Writing(k, d)' <=> Writing(k, d)
  BY <1>1, <1>4 DEF SameData, Near, Writing
<1>7. \A d \in Directions : Between(k, d)' = Between(k, d)
  BY <1>2, <1>3 DEF Between, Directions
<1>8. Shakes(k)'
  BY <1>1, <1>2, <1>3, <1>4 DEF Shakes, Pending, Far
<1>9. Good(k)'
  BY <1>3, <1>6, <1>7, <1>8, Handshaking
<1>10. Quiet(k)
  BY <1>1, <1>3, <1>6, <1>7 DEF Quiet, Directions
<1> QED
  BY <1>5, <1>9, <1>10 DEF Keeps

LEMMA DstDialStep ==
    ASSUME TypeOK, NEW k \in Conns, Good(k), DstDial(k)
    PROVE  Keeps(k) /\ Quiet(k)
<1>1. dst[k] = "dial" /\ UNCHANGED <<pipe, app, src, side, sent, got, eof>>
  BY DEF DstDial
<1>2. /\ Shakes(k) /\ src[k] \in {"wait", "done"} /\ srv[k] = "none"
      /\ InMiddle(k, "up") = <<>> /\ InMiddle(k, "down") = <<>> /\ side[k].dst = "none"
      /\ side[k].src # "run"
  BY <1>1 DEF Good, Shakes, Pending, Far
<1>3. \/ dst' = [dst EXCEPT ![k] = "reply"] /\ srv' = [srv EXCEPT ![k] = "open"]
      \/ dst' = [dst EXCEPT ![k] = "close"] /\ UNCHANGED srv
  BY DEF DstDial
<1>4. TypeOK' /\ \A c \in Conns : c # k => Untouched(c)
  BY <1>1, <1>3 DEF TypeOK, Untouched
<1>5. (dst'[k] = "reply" /\ srv'[k] = "open") \/ (dst'[k] = "close" /\ srv'[k] = "none")
  BY <1>2, <1>3 DEF TypeOK
<1>6. /\ SameData(k)
      /\ \A d \in Directions : /\ Near(k, d)' = "done" <=> Near(k, d) = "done"
                               /\ Writing(k, d)' <=> Writing(k, d)
                               /\ InLast(k, d)' = InLast(k, d) /\ InFirst(k, d)' = InFirst(k, d)
                               /\ InMiddle(k, d)' = InMiddle(k, d)
      /\ \A leg \in Legs : SameClosed(k, leg)
  BY <1>1, <1>2, <1>5 DEF SameData, Near, Writing, InLast, InFirst, InMiddle, SameClosed
<1>7. \A d \in Directions : Between(k, d)' = Between(k, d)
  BY <1>2, <1>6 DEF Between, Directions
<1>8. Shakes(k)'
  BY <1>1, <1>2, <1>5, <1>6 DEF Shakes, Pending, Far, Directions
<1>9. Good(k)'
  BY <1>6, <1>7, <1>8, Handshaking
<1>10. Quiet(k)
  BY <1>1, <1>6, <1>7 DEF Quiet, Directions
<1> QED
  BY <1>4, <1>9, <1>10 DEF Keeps

LEMMA DstReplyStep ==
    ASSUME TypeOK, NEW k \in Conns, Good(k), DstReply(k)
    PROVE  Keeps(k) /\ Quiet(k)
<1>0. "up" \in Directions /\ "down" \in Directions /\ Opposite("down") = "up"
  BY DEF Directions, Opposite
<1>1. /\ dst[k] = "reply" /\ dst' = [dst EXCEPT ![k] = "relay"]
      /\ Write(k, "M", "down", Handshake)
      /\ side' = [side EXCEPT ![k].dst = "run"]
      /\ UNCHANGED <<app, srv, src, sent, got, eof>>
  BY DEF DstReply
<1>2. /\ Shakes(k) /\ Gone(k) /\ src[k] \in {"wait", "done"}
      /\ InMiddle(k, "up") = <<>> /\ InMiddle(k, "down") = <<>>
  BY <1>1 DEF Good, Shakes, Pending, Far
<1>3. /\ pipe' \in [Conns -> [Legs -> LegType]]
      /\ \A c \in Conns : c # k => pipe'[c] = pipe[c]
      /\ \A d \in Directions : InLast(k, d)' = InLast(k, d) /\ InFirst(k, d)' = InFirst(k, d)
      /\ \A leg \in Legs : SameClosed(k, leg)
      /\ InMiddle(k, "up")' = <<>>
      /\ src[k] = "wait" => InMiddle(k, "down")' = <<Handshake>>
  <2>1. src[k] = "wait" => ~pipe[k]["M"]["down"].gone
    BY <1>0, <1>2 DEF Gone, Far
  <2>2. /\ pipe' \in [Conns -> [Legs -> LegType]]
        /\ \A c \in Conns : c # k => pipe'[c] = pipe[c]
        /\ \A d \in Directions : InLast(k, d)' = InLast(k, d) /\ InFirst(k, d)' = InFirst(k, d)
        /\ \A leg \in Legs : SameClosed(k, leg)
        /\ pipe[k]["M"]["down"].gone => Begins(InMiddle(k, "up")', InMiddle(k, "up"))
        /\ ~pipe[k]["M"]["down"].gone =>
             /\ InMiddle(k, "down")' = Append(InMiddle(k, "down"), Handshake)
             /\ InMiddle(k, "up")' = InMiddle(k, "up")
    BY <1>0, <1>1, WriteMessage
  <2>3. InMiddle(k, "up")' \in Seq(Byte)
    BY <1>0, <2>2 DEF InMiddle, LegType, PipeType, Data, Legs
  <2>4. Begins(InMiddle(k, "up")', InMiddle(k, "up")) => InMiddle(k, "up")' = <<>>
    BY <1>2, <2>3 DEF Begins
  <2> QED
    BY <1>2, <2>1, <2>2, <2>4, OneMessage
<1>4. /\ side' \in [Conns -> [src : {"none", "run", "done"}, dst : {"none", "run", "done"}]]
      /\ side'[k].src = side[k].src /\ \A c \in Conns : c # k => side'[c] = side[c]
  <2>1. /\ side' = [side EXCEPT ![k] = [side[k] EXCEPT !.dst = "run"]]
        /\ side \in [Conns -> [src : {"none", "run", "done"}, dst : {"none", "run", "done"}]]
    BY <1>1 DEF TypeOK
  <2>2. /\ [side[k] EXCEPT !.dst = "run"] \in [src : {"none", "run", "done"}, dst : {"none", "run", "done"}]
        /\ [side[k] EXCEPT !.dst = "run"].src = side[k].src
    BY <2>1
  <2> QED
    BY <2>1, <2>2
<1>5. TypeOK' /\ dst'[k] = "relay" /\ src'[k] = src[k] /\ \A c \in Conns : c # k => Untouched(c)
  BY <1>1, <1>3, <1>4 DEF TypeOK, Untouched, LegType
<1>6. /\ SameData(k)
      /\ \A d \in Directions : /\ Near(k, d)' = "done" <=> Near(k, d) = "done"
                               /\ Writing(k, d)' <=> Writing(k, d)
  BY <1>1, <1>5 DEF SameData, Near, Writing
<1>7. /\ Between(k, "up")' = Between(k, "up")
      /\ src[k] = "wait" => Between(k, "down")' = Between(k, "down")
  <2>1. src[k] = "wait" => Pending(k, "down")'
    BY <1>5 DEF Pending, Far
  <2>2. Between(k, "up")' = <<>> /\ Between(k, "up") = <<>> /\ Between(k, "down") = <<>>
    BY <1>2, <1>3 DEF Between
  <2> QED
    BY <1>3, <2>1, <2>2, OneMessage DEF Between
<1>8. Shakes(k)'
  <2>1. src'[k] = "wait" => InMiddle(k, "down")' # <<>> /\ InMiddle(k, "down")'[1] = Handshake
    BY <1>3, <1>5
  <2> QED
    BY <1>2, <1>5, <2>1 DEF Shakes, Pending, Far
<1>9. Good(k)'
  <2>1. \A d \in Directions : Far(k, d) # "done" => Between(k, d)' = Between(k, d)
    BY <1>2, <1>7 DEF Far, Directions
  <2> QED
    BY <1>3, <1>6, <1>8, <2>1, Handshaking
<1>10. Quiet(k)
  BY <1>1, <1>2, <1>3, <1>6, <1>7 DEF Quiet, Directions
<1> QED
  BY <1>5, <1>9, <1>10 DEF Keeps

-----------------------------------------------------------------------------
(* The theorems *)

LEMMA RelayStarts ==
    ASSUME Init
    PROVE  TypeOK /\ RelayInv
<1>1. <<>> \in Data /\ Pipe \in PipeType
  BY DEF Data, Pipe, PipeType
<1>2. TypeOK
  <2>1. pipe \in [Conns -> [Legs -> [Directions -> PipeType]]]
    BY <1>1 DEF Init
  <2>2. sent \in [Conns -> [Directions -> 0 .. MaxBytes]]
    BY RelayAssumption DEF Init
  <2>3. got \in [Conns -> [Directions -> Data]] /\ eof \in [Conns -> [Directions -> BOOLEAN]]
    BY <1>1 DEF Init
  <2>4. side \in [Conns -> [src : {"none", "run", "done"}, dst : {"none", "run", "done"}]]
    BY DEF Init
  <2> QED
    BY <2>1, <2>2, <2>3, <2>4 DEF Init, TypeOK
<1>3. ASSUME NEW k \in Conns PROVE Good(k)
  <2>1. \A leg \in Legs, dir \in Directions : pipe[k][leg][dir] = Pipe
    BY DEF Init
  <2>2. \A dir \in Directions :
          /\ got[k][dir] = <<>> /\ sent[k][dir] = 0
          /\ InLast(k, dir) = <<>> /\ InMiddle(k, dir) = <<>> /\ InFirst(k, dir) = <<>>
          /\ Between(k, dir) = <<>>
    BY <2>1, Directed DEF Init, InLast, InMiddle, InFirst, Between, Pipe
  <2>3. Gone(k)
    BY <2>1, Directed DEF Gone, Pipe
  <2>4. Shakes(k)
    BY <2>2 DEF Shakes, Init, Pending, Far, Directions
  <2>5. \A dir \in Directions : Flow(k, dir)
    <3>1. Continues(<<>>, 0) /\ Continues(<<>>, Len(<<>>)) /\ Continues(<<>>, Len(<<>>) + Len(<<>>))
          /\ Continues(<<>>, Len(<<>>) + Len(<<>>) + Len(<<>>))
          /\ Len(<<>>) + Len(<<>>) + Len(<<>>) + Len(<<>>) = 0
      BY DEF Continues
    <3> QED
      BY <2>2, <3>1 DEF Flow, Chain
  <2> QED
    BY <2>3, <2>4, <2>5 DEF Good, Directions
<1> QED
  BY <1>2, <1>3 DEF RelayInv

LEMMA OneConnection ==
    ASSUME RelayInv, NEW k \in Conns, Keeps(k)
    PROVE  TypeOK' /\ RelayInv'
BY Elsewhere DEF Keeps, RelayInv

\* What every step but a panic of the src gateway keeps.
LEMMA EveryStep ==
    ASSUME TypeOK, NEW k \in Conns, Good(k),
           Environment(k) \/ Readers(k) \/ Src(k) \/ SrcSide(k) \/ Dst(k) \/ DstSide(k)
    PROVE  Keeps(k) \/ SrcPanics(k)
<1>0. "up" \in Directions /\ "down" \in Directions
      /\ FirstLeg("up") = "A" /\ FirstLeg("down") = "T" /\ LastLeg("up") = "T" /\ LastLeg("down") = "A"
  BY DEF Directions, FirstLeg, LastLeg
<1>1. CASE AppSend(k)
  <2>1. app[k] = "open" => Writing(k, "up")
    BY DEF Writing
  <2> QED
    BY <1>0, <1>1, <2>1, SendStep DEF AppSend
<1>2. CASE ServerSend(k)
  <2>1. srv[k] = "open" => Writing(k, "down")
    BY DEF Writing
  <2> QED
    BY <1>0, <1>2, <2>1, SendStep DEF ServerSend
<1>3. CASE AppReceive(k)
  BY <1>0, <1>3, ReceiveStep DEF AppReceive
<1>4. CASE ServerReceive(k)
  BY <1>0, <1>4, ReceiveStep DEF ServerReceive
<1>5. CASE SrcReturn(k) \/ SrcDialFails(k)
  BY <1>5, SrcReturnStep
<1>6. CASE AppShutdown(k)
  BY <1>6, AppShutdownStep
<1>7. CASE AppClose(k)
  BY <1>7, AppCloseStep
<1>8. CASE ServerClose(k)
  BY <1>8, ServerCloseStep
<1>9. CASE SrcDial(k)
  BY <1>9, SrcDialStep
<1>10. CASE SrcWrite(k)
  BY <1>10, SrcWriteStep
<1>11. CASE SrcWait(k)
  BY <1>11, SrcWaitStep
<1>12. CASE SrcMain(k)
  BY <1>12, SrcMainStep
<1>13. CASE SrcSide(k)
  BY <1>13, SrcSideStep
<1>14. CASE DstRead(k)
  BY <1>14, DstReadStep
<1>15. CASE DstDial(k)
  BY <1>15, DstDialStep
<1>16. CASE DstReply(k)
  BY <1>16, DstReplyStep
<1>17. CASE DstMain(k)
  BY <1>17, DstMainStep
<1>18. CASE DstReturn(k)
  BY <1>18, DstReturnStep
<1>19. CASE DstSide(k)
  BY <1>19, DstSideStep
<1> QED
  BY <1>1, <1>2, <1>3, <1>4, <1>5, <1>6, <1>7, <1>8, <1>9, <1>10, <1>11, <1>12, <1>13,
     <1>14, <1>15, <1>16, <1>17, <1>18, <1>19
  DEF Environment, Readers, Src, Dst

LEMMA RelaySteps ==
    ASSUME TypeOK, RelayInv, [Next]_vars
    PROVE  TypeOK' /\ RelayInv'
<1>1. ASSUME NEW k \in Conns,
             Environment(k) \/ Readers(k) \/ Src(k) \/ SrcSide(k) \/ Dst(k) \/ DstSide(k)
      PROVE  TypeOK' /\ RelayInv'
  <2>1. Good(k)
    BY DEF RelayInv
  <2>2. Keeps(k) \/ SrcPanics(k)
    BY <1>1, <2>1, EveryStep
  <2> QED
    BY <2>2, OneConnection, SrcPanicsStep
<1>2. CASE UNCHANGED vars
  <2>1. TypeOK'
    BY <1>2 DEF TypeOK, vars
  <2>2. \A c \in Conns : Untouched(c)
    BY <1>2 DEF Untouched, vars
  <2> QED
    BY <2>1, <2>2, Elsewhere DEF RelayInv
<1> QED
  BY <1>1, <1>2 DEF Next

LEMMA NumberedFromOne ==
    ASSUME TypeOK, NEW k \in Conns, NEW dir \in Directions, Continues(got[k][dir], 0)
    PROVE  \A i \in DOMAIN got[k][dir] : got[k][dir][i] = i
<1>1. got[k][dir] \in Seq(Byte)
  BY Parts
<1> QED
  BY <1>1 DEF Continues

\* The invariant that the theorems below rest on: who has closed a leg, where the
\* handshake is, and that the bytes on their way continue each other.
THEOREM RelayInductive == Spec => [](TypeOK /\ RelayInv)
<1>1. Init => TypeOK /\ RelayInv
  BY RelayStarts
<1>2. TypeOK /\ RelayInv /\ [Next]_vars => (TypeOK /\ RelayInv)'
  BY RelaySteps
<1> QED
  BY <1>1, <1>2, PTL DEF Spec

\* Every variable of the relay keeps its type, whatever two gateways, an
\* application and a server do (pkg/connection, pkg/gateway/copy_gateway.go).
THEOREM RelayTypeCorrect == Spec => []TypeOK
BY RelayInductive, PTL

\* The server reads the application's bytes in order, none missing and none of the
\* handshake among them, in all three transports: the dst gateway reads the
\* destination before it copies (handleExternalConnection and its TLS forms), and the
\* src gateway sends it, and waits, before it copies (internalProxy).
THEOREM UpAlwaysInOrder == Spec => []UpInOrder
<1>1. TypeOK /\ RelayInv => UpInOrder
  <2> SUFFICES ASSUME TypeOK, RelayInv, NEW k \in Conns PROVE InOrder(k, "up")
    BY DEF UpInOrder
  <2>1. Continues(got[k]["up"], 0)
    BY DEF RelayInv, Good, Flow, Chain
  <2>2. "up" \in Directions
    BY DEF Directions
  <2> QED
    BY <2>1, <2>2, NumberedFromOne DEF InOrder
<1> QED
  BY <1>1, RelayInductive, PTL

\* The application reads the server's bytes in order and from the first one, when
\* the gateways speak TLS to each other: one Read returns one record, so the 'Y'
\* that the src gateway reads is nothing but the 'Y'.
THEOREM DownAlwaysInOrder ==
    ASSUME Mode = "tls"
    PROVE  Spec => []DownInOrder
<1>1. TypeOK /\ RelayInv => DownInOrder
  <2> SUFFICES ASSUME TypeOK, RelayInv, NEW k \in Conns PROVE InOrder(k, "down")
    BY DEF DownInOrder
  <2>1. Continues(got[k]["down"], 0)
    BY DEF RelayInv, Good, Flow, Chain
  <2>2. "down" \in Directions
    BY DEF Directions
  <2> QED
    BY <2>1, <2>2, NumberedFromOne DEF InOrder
<1> QED
  BY <1>1, RelayInductive, PTL

-----------------------------------------------------------------------------
(* What the end of a connection says, over TLS *)

\* How many bytes were read, how many items a pipe holds, and how many of leg M are
\* bytes of the ends.
Read(k, dir) == Len(got[k][dir])
Held(k, leg, dir) == Len(pipe[k][leg][dir].buf)
Passing(k, dir) ==
    IF Pending(k, dir) /\ Held(k, "M", dir) > 0 THEN Held(k, "M", dir) - 1 ELSE Held(k, "M", dir)

\* How many bytes of a direction are not lost, read or not.
Kept(k, dir) ==
    Read(k, dir) + Held(k, LastLeg(dir), dir) + Passing(k, dir) + Held(k, FirstLeg(dir), dir)

\* The server closed before it had read all that the application wrote: a reset may
\* lose what it wrote itself.
Stuck(k) == srv[k] = "closed" /\ Read(k, "up") < sent[k]["up"]

\* The connection never gets a server.
Dead(k) == srv[k] = "none" /\ (dst[k] \in {"close", "done"} \/ (dst[k] = "none" /\ src[k] = "done"))

\* Who has closed a leg towards an end.
EndsGone(k) ==
    /\ pipe[k]["A"]["down"].gone => app[k] = "closed"
    /\ pipe[k]["A"]["down"].fin => src[k] = "done"
    /\ pipe[k]["T"]["down"].fin => srv[k] = "closed"

\* Until the application goes, each handler returns when the one before it has, and
\* has passed on everything then.
Drained(k) ==
    /\ srv[k] = "closed" => Stuck(k) \/ Kept(k, "down") = sent[k]["down"]
    /\ dst[k] \in {"close", "done"} =>
         Dead(k) \/ (srv[k] = "closed" /\ (Stuck(k) \/ Held(k, "T", "down") = 0))
    /\ src[k] \in {"close", "done"} =>
         Dead(k) \/ (/\ srv[k] = "closed" /\ dst[k] = "done"
                     /\ Stuck(k) \/ (Held(k, "T", "down") = 0 /\ Held(k, "M", "down") = 0))

EndOK(k) ==
    /\ EndsGone(k)
    /\ Kept(k, "up") <= sent[k]["up"]
    /\ app[k] # "closed" \/ eof[k]["down"] => Drained(k)
    /\ eof[k]["down"] => src[k] = "done" /\ Held(k, "A", "down") = 0

EndInv == \A k \in Conns : EndOK(k)

LEMMA Ways ==
    /\ "up" \in Directions /\ "down" \in Directions /\ Opposite("up") = "down" /\ Opposite("down") = "up"
    /\ "A" \in Legs /\ "M" \in Legs /\ "T" \in Legs
    /\ FirstLeg("up") = "A" /\ LastLeg("up") = "T" /\ FirstLeg("down") = "T" /\ LastLeg("down") = "A"
BY DEF Directions, Opposite, Legs, FirstLeg, LastLeg

LEMMA HeldType ==
    ASSUME TypeOK, NEW k \in Conns
    PROVE  /\ \A leg \in Legs, dir \in Directions :
                /\ Held(k, leg, dir) \in Nat /\ (Held(k, leg, dir) = 0 <=> pipe[k][leg][dir].buf = <<>>)
                /\ pipe[k][leg] \in LegType
           /\ \A dir \in Directions :
                /\ Read(k, dir) \in Nat /\ sent[k][dir] \in Nat
                /\ Passing(k, dir) \in Nat /\ Len(Between(k, dir)) = Passing(k, dir)
<1>1. \A leg \in Legs, dir \in Directions : pipe[k][leg][dir].buf \in Seq(Byte) /\ pipe[k][leg] \in LegType
  BY DEF TypeOK, LegType, PipeType, Data
<1>2. ASSUME NEW s \in Seq(Byte) PROVE Len(s) \in Nat /\ (Len(s) = 0 <=> s = <<>>)
  OBVIOUS
<1>3. \A leg \in Legs, dir \in Directions :
        Held(k, leg, dir) \in Nat /\ (Held(k, leg, dir) = 0 <=> pipe[k][leg][dir].buf = <<>>)
  BY <1>1, <1>2 DEF Held
<1>4. ASSUME NEW dir \in Directions
      PROVE  /\ Read(k, dir) \in Nat /\ sent[k][dir] \in Nat
             /\ Passing(k, dir) \in Nat /\ Len(Between(k, dir)) = Passing(k, dir)
  <2>1. got[k][dir] \in Seq(Byte) /\ sent[k][dir] \in Nat /\ InMiddle(k, dir) \in Seq(Byte)
    BY Parts
  <2>2. InMiddle(k, dir) # <<>> => Len(Tail(InMiddle(k, dir))) = Len(InMiddle(k, dir)) - 1
    BY <2>1, Rest
  <2>3. Held(k, "M", dir) = Len(InMiddle(k, dir)) /\ (Held(k, "M", dir) = 0 <=> InMiddle(k, dir) = <<>>)
        /\ Held(k, "M", dir) \in Nat
    BY <1>3, Ways DEF Held, InMiddle
  <2>4. Len(Between(k, dir)) = Passing(k, dir)
    BY <2>2, <2>3 DEF Between, Passing
  <2>5. Passing(k, dir) \in Nat
    BY <2>3 DEF Passing
  <2> QED
    BY <1>2, <2>1, <2>4, <2>5 DEF Read
<1> QED
  BY <1>1, <1>3, <1>4

LEMMA HeldTypeNext ==
    ASSUME TypeOK', NEW k \in Conns
    PROVE  /\ \A leg \in Legs, dir \in Directions :
                /\ Held(k, leg, dir)' \in Nat /\ (Held(k, leg, dir)' = 0 <=> pipe'[k][leg][dir].buf = <<>>)
                /\ pipe'[k][leg] \in LegType
           /\ \A dir \in Directions :
                /\ Read(k, dir)' \in Nat /\ sent'[k][dir] \in Nat
                /\ Passing(k, dir)' \in Nat /\ Len(Between(k, dir)') = Passing(k, dir)'
<1>1. \A leg \in Legs, dir \in Directions : pipe'[k][leg][dir].buf \in Seq(Byte) /\ pipe'[k][leg] \in LegType
  BY DEF TypeOK, LegType, PipeType, Data
<1>2. ASSUME NEW s \in Seq(Byte) PROVE Len(s) \in Nat /\ (Len(s) = 0 <=> s = <<>>)
  OBVIOUS
<1>3. \A leg \in Legs, dir \in Directions :
        Held(k, leg, dir)' \in Nat /\ (Held(k, leg, dir)' = 0 <=> pipe'[k][leg][dir].buf = <<>>)
  BY <1>1, <1>2 DEF Held
<1>4. ASSUME NEW dir \in Directions
      PROVE  /\ Read(k, dir)' \in Nat /\ sent'[k][dir] \in Nat
             /\ Passing(k, dir)' \in Nat /\ Len(Between(k, dir)') = Passing(k, dir)'
  <2>1. got'[k][dir] \in Seq(Byte) /\ sent'[k][dir] \in Nat /\ InMiddle(k, dir)' \in Seq(Byte)
    BY PartsNext
  <2>2. InMiddle(k, dir)' # <<>> => Len(Tail(InMiddle(k, dir)')) = Len(InMiddle(k, dir)') - 1
    BY <2>1, Rest
  <2>3. Held(k, "M", dir)' = Len(InMiddle(k, dir)') /\ (Held(k, "M", dir)' = 0 <=> InMiddle(k, dir)' = <<>>)
        /\ Held(k, "M", dir)' \in Nat
    BY <1>3, Ways DEF Held, InMiddle
  <2>4. Len(Between(k, dir)') = Passing(k, dir)'
    BY <2>2, <2>3 DEF Between, Passing
  <2>5. Passing(k, dir)' \in Nat
    BY <2>3 DEF Passing
  <2> QED
    BY <1>2, <2>1, <2>4, <2>5 DEF Read
<1> QED
  BY <1>1, <1>3, <1>4

\* As long as nothing is lost, everything written is kept.
LEMMA FlowKept ==
    ASSUME TypeOK, NEW k \in Conns, NEW dir \in Directions, Flow(k, dir),
           ToLast(k, dir), ToMiddle(k, dir), Writing(k, dir)
    PROVE  Kept(k, dir) = sent[k][dir]
<1>1. Len(got[k][dir]) + Len(InLast(k, dir)) + Len(Between(k, dir)) + Len(InFirst(k, dir)) = sent[k][dir]
  BY DEF Flow, Chain
<1>2. Len(Between(k, dir)) = Passing(k, dir)
  BY HeldType
<1> QED
  BY <1>1, <1>2 DEF Kept, Held, Read, InLast, InFirst

\* What a write, a read and a close do to the items a leg holds.
PutIn(k, leg, dir) ==
    /\ SameClosed(k, leg)
    /\ pipe[k][leg][dir].gone =>
         /\ Held(k, leg, dir)' = Held(k, leg, dir)
         /\ Held(k, leg, Opposite(dir))' <= Held(k, leg, Opposite(dir))
    /\ ~pipe[k][leg][dir].gone =>
         /\ Held(k, leg, dir)' = Held(k, leg, dir) + 1
         /\ Held(k, leg, Opposite(dir))' = Held(k, leg, Opposite(dir))

TakenFrom(k, leg, dir) ==
    /\ SameClosed(k, leg)
    /\ Held(k, leg, dir) >= 1 /\ Held(k, leg, dir)' = Held(k, leg, dir) - 1
    /\ Held(k, leg, Opposite(dir))' = Held(k, leg, Opposite(dir))

Shut(k, leg, dir) ==
    /\ pipe'[k][leg][dir].fin /\ pipe'[k][leg][dir].gone = pipe[k][leg][dir].gone
    /\ pipe'[k][leg][Opposite(dir)].gone
    /\ pipe'[k][leg][Opposite(dir)].fin = pipe[k][leg][Opposite(dir)].fin
    /\ Held(k, leg, Opposite(dir))' = 0
    /\ Held(k, leg, dir)' <= Held(k, leg, dir)
    /\ Held(k, leg, Opposite(dir)) = 0 => Held(k, leg, dir)' = Held(k, leg, dir)

LEMMA PutHeld ==
    ASSUME TypeOK, NEW k \in Conns, NEW leg \in Legs, NEW dir \in Directions, NEW x \in Byte,
           pipe'[k][leg] \in Put(pipe[k][leg], dir, x)
    PROVE  PutIn(k, leg, dir)
<1> DEFINE pair == pipe[k][leg]
           l == pipe'[k][leg]
<1>1. pair \in LegType /\ pair[dir].buf \in Seq(Byte)
  BY DEF TypeOK, LegType, PipeType, Data
<1>2. /\ \A d \in Directions : l[d].fin = pair[d].fin /\ l[d].gone = pair[d].gone
      /\ pair[dir].gone => l[dir] = pair[dir] /\ Begins(l[Opposite(dir)].buf, pair[Opposite(dir)].buf)
      /\ ~pair[dir].gone => l[Opposite(dir)] = pair[Opposite(dir)]
                            /\ l[dir].buf = Append(pair[dir].buf, x)
  <2>1. l \in Put(pair, dir, x)
    OBVIOUS
  <2> HIDE DEF pair, l
  <2> QED
    BY <1>1, <2>1, PutLeg
<1>3. Len(Append(pair[dir].buf, x)) = Len(pair[dir].buf) + 1
  BY <1>1
<1> QED
  BY <1>2, <1>3 DEF PutIn, SameClosed, Held, Begins

LEMMA TakeHeld ==
    ASSUME TypeOK, NEW k \in Conns, NEW leg \in Legs, NEW dir \in Directions,
           pipe[k][leg][dir].buf # <<>>, pipe'[k][leg] = Take(pipe[k][leg], dir, 1)
    PROVE  TakenFrom(k, leg, dir)
<1> DEFINE pair == pipe[k][leg]
           l == pipe'[k][leg]
<1>1. pair \in LegType /\ pair[dir].buf \in Seq(Byte)
  BY DEF TypeOK, LegType, PipeType, Data
<1>2. /\ \A d \in Directions : l[d].fin = pair[d].fin /\ l[d].gone = pair[d].gone
      /\ l[Opposite(dir)] = pair[Opposite(dir)] /\ l[dir].buf = Tail(pair[dir].buf)
  <2>1. l = Take(pair, dir, 1) /\ pair[dir].buf # <<>>
    OBVIOUS
  <2> HIDE DEF pair, l
  <2> QED
    BY <1>1, <2>1, TakeLeg
<1>3. Len(Tail(pair[dir].buf)) = Len(pair[dir].buf) - 1 /\ Len(pair[dir].buf) >= 1
  BY <1>1, Rest
<1> QED
  BY <1>2, <1>3 DEF TakenFrom, SameClosed, Held

LEMMA CloseHeld ==
    ASSUME TypeOK, NEW k \in Conns, NEW leg \in Legs, NEW dir \in Directions,
           pipe'[k][leg] \in Closed(pipe[k][leg], dir)
    PROVE  Shut(k, leg, dir)
<1> DEFINE pair == pipe[k][leg]
           l == pipe'[k][leg]
<1>1. pair \in LegType
  BY DEF TypeOK, LegType
<1>2. /\ l[dir].fin /\ l[dir].gone = pair[dir].gone /\ Begins(l[dir].buf, pair[dir].buf)
      /\ l[Opposite(dir)].gone /\ l[Opposite(dir)].fin = pair[Opposite(dir)].fin
      /\ l[Opposite(dir)].buf = <<>>
      /\ pair[Opposite(dir)].buf = <<>> => l[dir].buf = pair[dir].buf
  <2>1. l \in Closed(pair, dir)
    OBVIOUS
  <2> HIDE DEF pair, l
  <2> QED
    BY <1>1, <2>1, CloseLeg
<1>3. Held(k, leg, Opposite(dir)) = 0 <=> pair[Opposite(dir)].buf = <<>>
  BY HeldType, Opposites
<1>4. Len(<<>>) = 0
  OBVIOUS
<1> QED
  BY <1>2, <1>3, <1>4 DEF Shut, Held, Begins

\* The numbers of a connection, one by one.
LEMMA Numbers ==
    ASSUME TypeOK, NEW k \in Conns
    PROVE  /\ Kept(k, "up") = Read(k, "up") + Held(k, "T", "up") + Passing(k, "up") + Held(k, "A", "up")
           /\ Kept(k, "down") = Read(k, "down") + Held(k, "A", "down") + Passing(k, "down") + Held(k, "T", "down")
           /\ Read(k, "up") \in Nat /\ Read(k, "down") \in Nat
           /\ sent[k]["up"] \in Nat /\ sent[k]["down"] \in Nat
           /\ Passing(k, "up") \in Nat /\ Passing(k, "down") \in Nat
           /\ Held(k, "A", "up") \in Nat /\ Held(k, "M", "up") \in Nat /\ Held(k, "T", "up") \in Nat
           /\ Held(k, "A", "down") \in Nat /\ Held(k, "M", "down") \in Nat /\ Held(k, "T", "down") \in Nat
           /\ Kept(k, "up") \in Nat /\ Kept(k, "down") \in Nat
<1>1. /\ Read(k, "up") \in Nat /\ Read(k, "down") \in Nat
      /\ sent[k]["up"] \in Nat /\ sent[k]["down"] \in Nat
      /\ Passing(k, "up") \in Nat /\ Passing(k, "down") \in Nat
      /\ Held(k, "A", "up") \in Nat /\ Held(k, "M", "up") \in Nat /\ Held(k, "T", "up") \in Nat
      /\ Held(k, "A", "down") \in Nat /\ Held(k, "M", "down") \in Nat /\ Held(k, "T", "down") \in Nat
  BY HeldType, Ways
<1>2. /\ Kept(k, "up") = Read(k, "up") + Held(k, "T", "up") + Passing(k, "up") + Held(k, "A", "up")
      /\ Kept(k, "down") = Read(k, "down") + Held(k, "A", "down") + Passing(k, "down") + Held(k, "T", "down")
  BY Ways DEF Kept
<1> QED
  BY <1>1, <1>2

LEMMA NumbersNext ==
    ASSUME TypeOK', NEW k \in Conns
    PROVE  /\ Kept(k, "up")' = Read(k, "up")' + Held(k, "T", "up")' + Passing(k, "up")' + Held(k, "A", "up")'
           /\ Kept(k, "down")' = Read(k, "down")' + Held(k, "A", "down")' + Passing(k, "down")' + Held(k, "T", "down")'
           /\ Read(k, "up")' \in Nat /\ Read(k, "down")' \in Nat
           /\ sent'[k]["up"] \in Nat /\ sent'[k]["down"] \in Nat
           /\ Passing(k, "up")' \in Nat /\ Passing(k, "down")' \in Nat
           /\ Held(k, "A", "up")' \in Nat /\ Held(k, "M", "up")' \in Nat /\ Held(k, "T", "up")' \in Nat
           /\ Held(k, "A", "down")' \in Nat /\ Held(k, "M", "down")' \in Nat /\ Held(k, "T", "down")' \in Nat
           /\ Kept(k, "up")' \in Nat /\ Kept(k, "down")' \in Nat
<1>1. /\ Read(k, "up")' \in Nat /\ Read(k, "down")' \in Nat
      /\ sent'[k]["up"] \in Nat /\ sent'[k]["down"] \in Nat
      /\ Passing(k, "up")' \in Nat /\ Passing(k, "down")' \in Nat
      /\ Held(k, "A", "up")' \in Nat /\ Held(k, "M", "up")' \in Nat /\ Held(k, "T", "up")' \in Nat
      /\ Held(k, "A", "down")' \in Nat /\ Held(k, "M", "down")' \in Nat /\ Held(k, "T", "down")' \in Nat
  BY HeldTypeNext, Ways
<1>2. /\ Kept(k, "up")' = Read(k, "up")' + Held(k, "T", "up")' + Passing(k, "up")' + Held(k, "A", "up")'
      /\ Kept(k, "down")' = Read(k, "down")' + Held(k, "A", "down")' + Passing(k, "down")' + Held(k, "T", "down")'
  BY Ways DEF Kept
<1> QED
  BY <1>1, <1>2

LEMMA EndStill ==
    ASSUME NEW c \in Conns, EndOK(c), pipe'[c] = pipe[c], app'[c] = app[c], srv'[c] = srv[c],
           src'[c] = src[c], dst'[c] = dst[c], sent'[c] = sent[c], got'[c] = got[c], eof'[c] = eof[c]
    PROVE  EndOK(c)'
<1>1. \A dir \in Directions : Passing(c, dir)' = Passing(c, dir) /\ Kept(c, dir)' = Kept(c, dir)
  <2>1. ASSUME NEW dir \in Directions PROVE Passing(c, dir)' = Passing(c, dir)
    BY DEF Passing, Pending, Far, Held
  <2> QED
    BY <2>1 DEF Kept, Held, Read
<1> QED
  BY <1>1, Ways DEF EndOK, EndsGone, Drained, Dead, Stuck, Held, Read

LEMMA EndElsewhere ==
    ASSUME NEW c \in Conns, EndOK(c), Untouched(c)
    PROVE  EndOK(c)'
BY EndStill DEF Untouched

\* A leg that is as it was.
LEMMA SameLeg ==
    ASSUME NEW k \in Conns, NEW leg \in Legs, pipe'[k][leg] = pipe[k][leg]
    PROVE  /\ SameClosed(k, leg)
           /\ \A dir \in Directions : Held(k, leg, dir)' = Held(k, leg, dir)
BY DEF SameClosed, Held

\* Bytes do not pass between the gateways when neither they nor leg M do anything.
LEMMA SamePassing ==
    ASSUME NEW k \in Conns, NEW dir \in Directions, Pending(k, dir)' <=> Pending(k, dir),
           Held(k, "M", dir)' = Held(k, "M", dir)
    PROVE  Passing(k, dir)' = Passing(k, dir)
BY DEF Passing

LEMMA AppSendEnd ==
    ASSUME TypeOK, TypeOK', NEW k \in Conns, Good(k), EndOK(k), AppSend(k)
    PROVE  EndOK(k)'
<1>1. /\ app[k] = "open" /\ UNCHANGED <<app, srv, src, dst, side, got, eof>>
      /\ sent'[k]["up"] = sent[k]["up"] + 1 /\ sent'[k]["down"] = sent[k]["down"]
      /\ sent[k]["up"] + 1 \in Byte
  BY Ways, RelayAssumption DEF AppSend, Send, TypeOK, Byte
<1>2. /\ pipe'[k]["A"] \in Put(pipe[k]["A"], "up", sent[k]["up"] + 1)
      /\ pipe'[k]["M"] = pipe[k]["M"] /\ pipe'[k]["T"] = pipe[k]["T"]
  BY Ways DEF AppSend, Send, Write, TypeOK, Legs
<1>3. PutIn(k, "A", "up")
  BY <1>1, <1>2, Ways, PutHeld
<1>4. /\ \A dir \in Directions : Held(k, "M", dir)' = Held(k, "M", dir) /\ Held(k, "T", dir)' = Held(k, "T", dir)
      /\ SameClosed(k, "M") /\ SameClosed(k, "T")
  BY <1>2, Ways, SameLeg
<1>5. \A dir \in Directions : Passing(k, dir)' = Passing(k, dir)
  BY <1>1, <1>4, SamePassing DEF Pending, Far
<1>7. Read(k, "up")' = Read(k, "up") /\ Read(k, "down")' = Read(k, "down")
  BY <1>1 DEF Read
<1>6. pipe[k]["A"]["up"].gone => src[k] = "done"
  BY Ways DEF Good, Gone, Near
<1>8. EndsGone(k)'
  BY <1>1, <1>3, <1>4, Ways DEF EndOK, EndsGone, PutIn, SameClosed
<1>9. Kept(k, "up")' <= sent'[k]["up"]
  <2>1. Held(k, "A", "up")' <= Held(k, "A", "up") + 1
    BY <1>3, Numbers DEF PutIn
  <2>2. Kept(k, "up") <= sent[k]["up"] /\ Passing(k, "up")' = Passing(k, "up")
        /\ Held(k, "T", "up")' = Held(k, "T", "up")
    BY <1>1, <1>4, <1>5, Ways DEF EndOK
  <2> QED
    BY <1>1, <1>7, <2>1, <2>2, Numbers, NumbersNext
<1>10. Drained(k)'
  <2>1. CASE src[k] = "done"
    <3>1. Dead(k) \/ srv[k] = "closed"
      BY <1>1, <2>1 DEF EndOK, Drained
    <3>2. Dead(k)' \/ Stuck(k)'
      <4>1. Read(k, "up") < sent'[k]["up"]
        BY <1>1, Numbers DEF EndOK
      <4> QED
        BY <1>1, <1>7, <3>1, <4>1 DEF Dead, Stuck
    <3> QED
      BY <1>1, <3>2 DEF EndOK, Drained, Dead, Stuck
  <2>2. CASE src[k] # "done"
    <3>1. \A leg \in Legs : Held(k, leg, "down")' = Held(k, leg, "down")
      BY <1>3, <1>4, <1>6, <2>2, Ways DEF PutIn, Legs
    <3>2. Kept(k, "down")' = Kept(k, "down")
      BY <1>1, <1>5, <1>7, <3>1, Ways, Numbers, NumbersNext
    <3>3. Stuck(k) => Stuck(k)'
      BY <1>1, <1>7, Numbers DEF Stuck
    <3> QED
      BY <1>1, <3>1, <3>2, <3>3, Ways DEF EndOK, Drained, Dead
  <2> QED
    BY <2>1, <2>2
<1>11. eof'[k]["down"] => src'[k] = "done" /\ Held(k, "A", "down")' = 0
  BY <1>1, <1>3, Numbers, NumbersNext, Ways DEF EndOK, PutIn
<1> QED
  BY <1>8, <1>9, <1>10, <1>11 DEF EndOK

LEMMA CopyHeld ==
    ASSUME TypeOK, NEW k \in Conns, NEW dir \in Directions, NEW ends \in BOOLEAN,
           NEW from \in Legs, NEW to \in Legs, from # to, Copy(k, from, to, dir, ends)
    PROVE  \/ /\ TakenFrom(k, from, dir) /\ PutIn(k, to, dir) /\ (ends => pipe[k][to][dir].gone)
              /\ \A x \in Legs : x # from /\ x # to => pipe'[k][x] = pipe[k][x]
           \/ pipe' = pipe /\ ends /\ AtEnd(k, from, dir)
<1>1. CASE /\ pipe[k][from][dir].buf # <<>>
           /\ pipe'[k][from] = Take(pipe[k][from], dir, 1)
           /\ pipe'[k][to] \in Put(pipe[k][to], dir, pipe[k][from][dir].buf[1])
           /\ \A x \in Legs : x # from /\ x # to => pipe'[k][x] = pipe[k][x]
           /\ ends => pipe[k][to][dir].gone
  <2>1. pipe[k][from] \in LegType
    BY DEF TypeOK, LegType
  <2>2. pipe[k][from][dir].buf[1] \in Byte
    BY <1>1, <2>1, TakeLeg
  <2> QED
    BY <1>1, <2>2, TakeHeld, PutHeld
<1> QED
  BY <1>1, CopyPipes

\* What a connection's end says does not change when nothing of it moves.
LEMMA DrainedStays ==
    ASSUME NEW k \in Conns, Drained(k), src'[k] = src[k], dst'[k] = dst[k], srv'[k] = srv[k],
           Stuck(k) => Stuck(k)', Held(k, "T", "down")' = Held(k, "T", "down"),
           Held(k, "M", "down")' = Held(k, "M", "down"),
           Kept(k, "down")' = Kept(k, "down"), sent'[k]["down"] = sent[k]["down"]
    PROVE  Drained(k)'
BY DEF Drained, Dead

\* A server that has not read everything and closes, or a server that there never was.
LEMMA DrainedAnyway ==
    ASSUME NEW k \in Conns, Dead(k)' \/ (Stuck(k)' /\ (src'[k] \in {"close", "done"} => dst'[k] = "done"))
    PROVE  Drained(k)'
BY DEF Drained, Dead, Stuck

LEMMA ServerSendEnd ==
    ASSUME TypeOK, TypeOK', NEW k \in Conns, Good(k), EndOK(k), ServerSend(k)
    PROVE  EndOK(k)'
<1>1. /\ srv[k] = "open" /\ UNCHANGED <<app, srv, src, dst, side, got, eof>>
      /\ sent'[k]["up"] = sent[k]["up"] /\ sent[k]["down"] + 1 \in Byte
  BY Ways, RelayAssumption DEF ServerSend, Send, TypeOK, Byte
<1>2. /\ pipe'[k]["T"] \in Put(pipe[k]["T"], "down", sent[k]["down"] + 1)
      /\ pipe'[k]["M"] = pipe[k]["M"] /\ pipe'[k]["A"] = pipe[k]["A"]
  BY Ways DEF ServerSend, Send, Write, TypeOK, Legs
<1>3. PutIn(k, "T", "down")
  BY <1>1, <1>2, Ways, PutHeld
<1>4. /\ \A dir \in Directions : Held(k, "M", dir)' = Held(k, "M", dir) /\ Held(k, "A", dir)' = Held(k, "A", dir)
      /\ SameClosed(k, "M") /\ SameClosed(k, "A")
  BY <1>2, Ways, SameLeg
<1>5. Passing(k, "up")' = Passing(k, "up") /\ Read(k, "up")' = Read(k, "up")
  BY <1>1, <1>4, Ways, SamePassing DEF Pending, Far, Read
<1>6. EndsGone(k)'
  BY <1>1, <1>3, <1>4, Ways DEF EndOK, EndsGone, PutIn, SameClosed
<1>7. Kept(k, "up")' <= sent'[k]["up"]
  <2>1. Held(k, "T", "up")' <= Held(k, "T", "up") /\ Held(k, "A", "up")' = Held(k, "A", "up")
    BY <1>3, <1>4, Ways, Numbers DEF PutIn
  <2>2. Kept(k, "up") <= sent[k]["up"]
    BY DEF EndOK
  <2> QED
    BY <1>1, <1>5, <2>1, <2>2, Numbers, NumbersNext
<1> QED
  BY <1>1, <1>4, <1>6, <1>7, Ways DEF EndOK, Drained, Dead

LEMMA AppReceiveEnd ==
    ASSUME TypeOK, TypeOK', NEW k \in Conns, Good(k), EndOK(k), AppReceive(k)
    PROVE  EndOK(k)'
<1>1. /\ app[k] # "closed" /\ UNCHANGED <<app, srv, src, dst, side, sent>>
  BY DEF AppReceive, Receive
<1>2. CASE /\ pipe[k]["A"]["down"].buf # <<>>
           /\ got' = [got EXCEPT ![k]["down"] = Append(@, pipe[k]["A"]["down"].buf[1])]
           /\ pipe' = [pipe EXCEPT ![k]["A"] = Take(@, "down", 1)]
           /\ UNCHANGED eof
  <2>1. /\ pipe'[k]["A"] = Take(pipe[k]["A"], "down", 1)
        /\ pipe'[k]["M"] = pipe[k]["M"] /\ pipe'[k]["T"] = pipe[k]["T"]
    BY <1>2, Ways DEF TypeOK, Legs
  <2>2. TakenFrom(k, "A", "down")
    BY <1>2, <2>1, Ways, TakeHeld
  <2>3. /\ \A dir \in Directions : Held(k, "M", dir)' = Held(k, "M", dir) /\ Held(k, "T", dir)' = Held(k, "T", dir)
        /\ SameClosed(k, "M") /\ SameClosed(k, "T")
    BY <2>1, Ways, SameLeg
  <2>4. \A dir \in Directions : Passing(k, dir)' = Passing(k, dir)
    BY <1>1, <2>3, SamePassing DEF Pending, Far
  <2>5. Read(k, "up")' = Read(k, "up") /\ Read(k, "down")' = Read(k, "down") + 1
    <3>1. got[k]["down"] \in Seq(Byte) /\ got'[k]["up"] = got[k]["up"]
          /\ got'[k]["down"] = Append(got[k]["down"], pipe[k]["A"]["down"].buf[1])
      BY <1>2, Ways DEF TypeOK, Data
    <3>2. ASSUME NEW s \in Seq(Byte), NEW x PROVE Len(Append(s, x)) = Len(s) + 1
      OBVIOUS
    <3> QED
      BY <3>1, <3>2 DEF Read
  <2>6. EndsGone(k)'
    BY <1>1, <2>2, <2>3, Ways DEF EndOK, EndsGone, TakenFrom, SameClosed
  <2>7. Kept(k, "up")' = Kept(k, "up") /\ Kept(k, "down")' = Kept(k, "down")
    <3>1. /\ Held(k, "A", "down")' = Held(k, "A", "down") - 1 /\ Held(k, "A", "up")' = Held(k, "A", "up")
      BY <2>2, Ways DEF TakenFrom
    <3> QED
      BY <2>3, <2>4, <2>5, <3>1, Ways, Numbers, NumbersNext
  <2>8. Stuck(k) => Stuck(k)'
    BY <1>1, <2>5 DEF Stuck
  <2>9. ~eof[k]["down"] /\ ~eof'[k]["down"]
    BY <1>2 DEF AppReceive, Receive
  <2>10. Drained(k)'
    BY <1>1, <2>3, <2>7, <2>8, Ways, DrainedStays DEF EndOK
  <2> QED
    BY <1>1, <2>6, <2>7, <2>9, <2>10 DEF EndOK
<1>3. CASE AtEnd(k, "A", "down") /\ UNCHANGED <<got, pipe>>
  <2>1. src[k] = "done" /\ Held(k, "A", "down") = 0
    BY <1>3, Ways, HeldType DEF AtEnd, EndOK, EndsGone
  <2>2. /\ \A leg \in Legs, dir \in Directions : Held(k, leg, dir)' = Held(k, leg, dir)
        /\ \A dir \in Directions : Read(k, dir)' = Read(k, dir) /\ Passing(k, dir)' = Passing(k, dir)
        /\ EndsGone(k)'
    BY <1>1, <1>3 DEF Held, Read, Passing, Pending, Far, EndsGone, EndOK
  <2>3. Kept(k, "up")' = Kept(k, "up") /\ Kept(k, "down")' = Kept(k, "down")
    BY <2>2, Ways, Numbers, NumbersNext
  <2>4. Stuck(k) => Stuck(k)'
    BY <1>1, <2>2, Ways DEF Stuck
  <2>5. Drained(k)'
    BY <1>1, <2>2, <2>3, <2>4, Ways, DrainedStays DEF EndOK
  <2> QED
    BY <1>1, <2>1, <2>2, <2>3, <2>5, Ways DEF EndOK
<1> QED
  BY <1>2, <1>3 DEF AppReceive, Receive, Readable

LEMMA ServerReceiveEnd ==
    ASSUME TypeOK, TypeOK', NEW k \in Conns, Good(k), EndOK(k), ServerReceive(k)
    PROVE  EndOK(k)'
<1>1. /\ srv[k] = "open" /\ UNCHANGED <<app, srv, src, dst, side, sent>>
      /\ eof'[k]["down"] = eof[k]["down"]
  <2>1. srv[k] = "open" /\ UNCHANGED <<app, srv, src, dst, side, sent>>
    BY DEF ServerReceive, Receive, TypeOK
  <2>2. eof' = eof \/ eof' = [eof EXCEPT ![k]["up"] = TRUE]
    BY DEF ServerReceive, Receive
  <2>3. eof'[k]["down"] = eof[k]["down"]
    BY <2>2, Ways DEF TypeOK
  <2> QED
    BY <2>1, <2>3
<1>2. EndsGone(k)' /\ Kept(k, "up")' = Kept(k, "up") /\ Held(k, "A", "down")' = Held(k, "A", "down")
  <2>1. CASE /\ pipe[k]["T"]["up"].buf # <<>>
             /\ got' = [got EXCEPT ![k]["up"] = Append(@, pipe[k]["T"]["up"].buf[1])]
             /\ pipe' = [pipe EXCEPT ![k]["T"] = Take(@, "up", 1)]
    <3>1. /\ pipe'[k]["T"] = Take(pipe[k]["T"], "up", 1)
          /\ pipe'[k]["M"] = pipe[k]["M"] /\ pipe'[k]["A"] = pipe[k]["A"]
      BY <2>1, Ways DEF TypeOK, Legs
    <3>2. TakenFrom(k, "T", "up")
      BY <2>1, <3>1, Ways, TakeHeld
    <3>3. /\ \A dir \in Directions : Held(k, "M", dir)' = Held(k, "M", dir) /\ Held(k, "A", dir)' = Held(k, "A", dir)
          /\ SameClosed(k, "M") /\ SameClosed(k, "A")
      BY <3>1, Ways, SameLeg
    <3>4. Passing(k, "up")' = Passing(k, "up")
      BY <1>1, <3>3, Ways, SamePassing DEF Pending, Far
    <3>5. Read(k, "up")' = Read(k, "up") + 1
      <4>1. got[k]["up"] \in Seq(Byte)
            /\ got'[k]["up"] = Append(got[k]["up"], pipe[k]["T"]["up"].buf[1])
        BY <2>1, Ways DEF TypeOK, Data
      <4>2. ASSUME NEW s \in Seq(Byte), NEW x PROVE Len(Append(s, x)) = Len(s) + 1
        OBVIOUS
      <4> QED
        BY <4>1, <4>2 DEF Read
    <3>6. EndsGone(k)'
      BY <1>1, <3>2, <3>3, Ways DEF EndOK, EndsGone, TakenFrom, SameClosed
    <3>7. Held(k, "T", "up")' = Held(k, "T", "up") - 1 /\ Held(k, "A", "up")' = Held(k, "A", "up")
      BY <3>2, <3>3, Ways DEF TakenFrom
    <3> QED
      BY <3>3, <3>4, <3>5, <3>6, <3>7, Ways, Numbers, NumbersNext
  <2>2. CASE UNCHANGED <<got, pipe>>
    <3>1. Passing(k, "up")' = Passing(k, "up") /\ Read(k, "up")' = Read(k, "up")
          /\ \A leg \in Legs, dir \in Directions : Held(k, leg, dir)' = Held(k, leg, dir)
          /\ EndsGone(k)'
      BY <1>1, <2>2 DEF Held, Read, Passing, Pending, Far, EndsGone, EndOK
    <3> QED
      BY <3>1, Ways, Numbers, NumbersNext
  <2> QED
    BY <2>1, <2>2 DEF ServerReceive, Receive, Readable
<1> QED
  BY <1>1, <1>2 DEF EndOK, Drained, Dead

\* Bytes on their way to the server are bytes it has not read.
LEMMA Unread ==
    ASSUME TypeOK, NEW k \in Conns, Kept(k, "up") <= sent[k]["up"]
    PROVE  /\ Held(k, "T", "up") # 0 => Read(k, "up") < sent[k]["up"]
           /\ Passing(k, "up") # 0 => Read(k, "up") < sent[k]["up"]
           /\ Held(k, "A", "up") # 0 => Read(k, "up") < sent[k]["up"]
<1>1. ASSUME NEW a \in Nat, NEW b \in Nat, NEW c \in Nat, NEW d \in Nat, NEW s \in Nat, a + b + c + d <= s
      PROVE  (b # 0 => a < s) /\ (c # 0 => a < s) /\ (d # 0 => a < s)
  BY <1>1
<1>2. /\ Read(k, "up") \in Nat /\ Held(k, "T", "up") \in Nat /\ Passing(k, "up") \in Nat
      /\ Held(k, "A", "up") \in Nat /\ sent[k]["up"] \in Nat
      /\ Read(k, "up") + Held(k, "T", "up") + Passing(k, "up") + Held(k, "A", "up") <= sent[k]["up"]
  BY Numbers
<1> QED
  BY <1>1, <1>2

LEMMA AppShutdownEnd ==
    ASSUME TypeOK, TypeOK', NEW k \in Conns, Good(k), EndOK(k), AppShutdown(k)
    PROVE  EndOK(k)'
<1>1. /\ app[k] = "open" /\ app'[k] = "half" /\ UNCHANGED <<srv, src, dst, side, sent, got, eof>>
  BY DEF AppShutdown, TypeOK
<1>2. /\ pipe'[k]["A"]["down"] = pipe[k]["A"]["down"]
      /\ pipe'[k]["A"]["up"].buf = pipe[k]["A"]["up"].buf
      /\ pipe'[k]["M"] = pipe[k]["M"] /\ pipe'[k]["T"] = pipe[k]["T"]
  <2>1. pipe' = [pipe EXCEPT ![k] = [pipe[k] EXCEPT !["A"] = [pipe[k]["A"] EXCEPT !["up"] =
                   [pipe[k]["A"]["up"] EXCEPT !.fin = TRUE]]]]
    BY DEF AppShutdown
  <2>2. /\ pipe \in [Conns -> [Legs -> [Directions -> PipeType]]] /\ pipe[k]["A"]["up"] \in PipeType
    BY Ways DEF TypeOK
  <2>3. [pipe[k]["A"]["up"] EXCEPT !.fin = TRUE].buf = pipe[k]["A"]["up"].buf
    BY <2>2 DEF PipeType
  <2> QED
    BY <2>1, <2>2, <2>3, Ways DEF Legs
<1>3. /\ \A leg \in Legs, dir \in Directions : Held(k, leg, dir)' = Held(k, leg, dir)
      /\ \A dir \in Directions : Read(k, dir)' = Read(k, dir)
      /\ \A dir \in Directions : Pending(k, dir)' <=> Pending(k, dir)
  BY <1>1, <1>2 DEF Held, Read, Pending, Far, Legs, Directions
<1>4. \A dir \in Directions : Passing(k, dir)' = Passing(k, dir)
  BY <1>3, Ways, SamePassing
<1>5. Kept(k, "up")' = Kept(k, "up") /\ Kept(k, "down")' = Kept(k, "down")
  BY <1>3, <1>4, Ways, Numbers, NumbersNext
<1>6. EndsGone(k)'
  BY <1>1, <1>2 DEF EndOK, EndsGone
<1>7. Stuck(k) => Stuck(k)'
  BY <1>1, <1>3, Ways DEF Stuck
<1>8. Drained(k)'
  BY <1>1, <1>3, <1>5, <1>7, Ways, DrainedStays DEF EndOK
<1> QED
  BY <1>1, <1>3, <1>5, <1>6, <1>8, Ways DEF EndOK

LEMMA AppCloseEnd ==
    ASSUME TypeOK, TypeOK', NEW k \in Conns, Good(k), EndOK(k), AppClose(k)
    PROVE  EndOK(k)'
<1>1. /\ app'[k] = "closed" /\ UNCHANGED <<srv, src, dst, side, sent, got, eof>>
      /\ pipe'[k]["A"] \in Closed(pipe[k]["A"], "up")
      /\ pipe'[k]["M"] = pipe[k]["M"] /\ pipe'[k]["T"] = pipe[k]["T"]
  BY Ways DEF AppClose, TypeOK, Legs
<1>2. Shut(k, "A", "up")
  BY <1>1, Ways, CloseHeld
<1>3. /\ \A dir \in Directions : Held(k, "M", dir)' = Held(k, "M", dir) /\ Held(k, "T", dir)' = Held(k, "T", dir)
      /\ SameClosed(k, "M") /\ SameClosed(k, "T")
  BY <1>1, Ways, SameLeg
<1>4. \A dir \in Directions : Passing(k, dir)' = Passing(k, dir) /\ Read(k, dir)' = Read(k, dir)
  BY <1>1, <1>3, SamePassing DEF Pending, Far, Read
<1>5. EndsGone(k)'
  BY <1>1, <1>2, <1>3, Ways DEF EndOK, EndsGone, Shut, SameClosed
<1>6. /\ Held(k, "A", "up")' <= Held(k, "A", "up") /\ Held(k, "A", "down")' = 0
  BY <1>2, Ways DEF Shut
<1>7. Kept(k, "up")' <= sent'[k]["up"]
  <2>1. Kept(k, "up") <= sent[k]["up"]
    BY DEF EndOK
  <2> QED
    BY <1>1, <1>3, <1>4, <1>6, <2>1, Ways, Numbers, NumbersNext
<1>8. ASSUME eof[k]["down"] PROVE Drained(k)'
  <2>1. Held(k, "A", "down") = 0 /\ Drained(k)
    BY <1>8 DEF EndOK
  <2>2. Kept(k, "down")' = Kept(k, "down")
    BY <1>3, <1>4, <1>6, <2>1, Ways, Numbers, NumbersNext
  <2>3. Stuck(k) => Stuck(k)'
    BY <1>1, <1>4, Ways DEF Stuck
  <2> QED
    BY <1>1, <1>3, <2>1, <2>2, <2>3, Ways, DrainedStays
<1> QED
  BY <1>1, <1>5, <1>6, <1>7, <1>8 DEF EndOK

\* A server that closes has had its bytes taken, or leaves some of the application's.
LEMMA ServerCloseEnd ==
    ASSUME TypeOK, TypeOK', NEW k \in Conns, Mode = "tls", Good(k), EndOK(k), ServerClose(k)
    PROVE  EndOK(k)'
<1>1. /\ srv[k] = "open" /\ srv'[k] = "closed" /\ UNCHANGED <<app, src, dst, side, sent, got, eof>>
      /\ pipe'[k]["T"] \in Closed(pipe[k]["T"], "down")
      /\ pipe'[k]["M"] = pipe[k]["M"] /\ pipe'[k]["A"] = pipe[k]["A"]
  BY Ways DEF ServerClose, TypeOK, Legs
<1>2. Shut(k, "T", "down")
  BY <1>1, Ways, CloseHeld
<1>3. /\ \A dir \in Directions : Held(k, "M", dir)' = Held(k, "M", dir) /\ Held(k, "A", dir)' = Held(k, "A", dir)
      /\ SameClosed(k, "M") /\ SameClosed(k, "A")
  BY <1>1, Ways, SameLeg
<1>4. \A dir \in Directions : Passing(k, dir)' = Passing(k, dir) /\ Read(k, dir)' = Read(k, dir)
  BY <1>1, <1>3, SamePassing DEF Pending, Far, Read
<1>5. EndsGone(k)'
  BY <1>1, <1>2, <1>3, Ways DEF EndOK, EndsGone, SameClosed
<1>6. /\ Held(k, "T", "up")' = 0 /\ (Held(k, "T", "up") = 0 => Held(k, "T", "down")' = Held(k, "T", "down"))
  BY <1>2, Ways DEF Shut
<1>7. Kept(k, "up") <= sent[k]["up"]
  BY DEF EndOK
<1>8. Kept(k, "up")' <= sent'[k]["up"]
  BY <1>1, <1>3, <1>4, <1>6, <1>7, Ways, Numbers, NumbersNext
<1>9. ASSUME app[k] # "closed" \/ eof[k]["down"] PROVE Drained(k)'
  <2>1. Drained(k)
    BY <1>9 DEF EndOK
  <2>2. dst[k] \notin {"close", "done"} /\ src[k] \notin {"close", "done"}
    BY <1>1, <2>1 DEF Drained, Dead
  <2>3. ~pipe[k]["A"]["down"].gone
    BY <1>9, <2>2 DEF EndOK, EndsGone
  <2>4. Kept(k, "down") = sent[k]["down"]
    <3>1. ToLast(k, "down") /\ ToMiddle(k, "down") /\ Writing(k, "down") /\ Flow(k, "down")
      BY <1>1, <2>2, <2>3, Ways DEF ToLast, ToMiddle, Writing, Far, Near, Good
    <3> QED
      BY <3>1, FlowKept, Ways
  <2>5. CASE Held(k, "T", "up") = 0
    <3>1. Kept(k, "down")' = Kept(k, "down")
      BY <1>3, <1>4, <1>6, <2>5, Ways, Numbers, NumbersNext
    <3> QED
      BY <1>1, <2>2, <2>4, <3>1 DEF Drained
  <2>6. CASE Held(k, "T", "up") # 0
    <3>1. Read(k, "up") < sent[k]["up"]
      BY <2>6, Unread DEF EndOK
    <3>2. Stuck(k)'
      BY <1>1, <1>4, <3>1, Ways DEF Stuck
    <3>3. src'[k] \notin {"close", "done"}
      BY <1>1, <2>2
    <3> QED
      BY <3>2, <3>3, DrainedAnyway
  <2> QED
    BY <2>5, <2>6
<1> QED
  BY <1>1, <1>3, <1>5, <1>8, <1>9, Ways DEF EndOK

\* The handshake.
LEMMA QuietEnd ==
    ASSUME TypeOK, TypeOK', NEW k \in Conns, Quiet(k), EndOK(k), srv[k] = "closed" => srv'[k] = "closed",
           src[k] = "done" => src'[k] = "done"
    PROVE  /\ EndsGone(k)' /\ Kept(k, "up")' = Kept(k, "up")
           /\ Held(k, "T", "down")' = Held(k, "T", "down") /\ Held(k, "A", "down")' = Held(k, "A", "down")
           /\ Mode = "tls" /\ src[k] # "done" => Kept(k, "down")' = Kept(k, "down")
           /\ Stuck(k) => Stuck(k)'
           /\ sent'[k] = sent[k] /\ app'[k] = app[k] /\ eof'[k] = eof[k]
<1>1. /\ \A dir \in Directions : Read(k, dir)' = Read(k, dir)
      /\ sent'[k] = sent[k] /\ app'[k] = app[k] /\ eof'[k] = eof[k]
      /\ \A leg \in Legs : SameClosed(k, leg)
  BY DEF Quiet, SameData, Read
<1>2. \A dir \in Directions : Held(k, "A", dir)' = Held(k, "A", dir) /\ Held(k, "T", dir)' = Held(k, "T", dir)
  <2>1. \A d \in Directions : InLast(k, d)' = InLast(k, d) /\ InFirst(k, d)' = InFirst(k, d)
    BY DEF Quiet
  <2>2. \A dir \in Directions : pipe'[k]["A"][dir].buf = pipe[k]["A"][dir].buf
                                /\ pipe'[k]["T"][dir].buf = pipe[k]["T"][dir].buf
    BY <2>1 DEF InLast, InFirst, LastLeg, FirstLeg, Directions
  <2> QED
    BY <2>2 DEF Held
<1>3. /\ Passing(k, "up")' = Passing(k, "up")
      /\ Mode = "tls" /\ src[k] # "done" => Passing(k, "down")' = Passing(k, "down")
  BY Ways, HeldType, HeldTypeNext DEF Quiet
<1>4. /\ Kept(k, "up")' = Kept(k, "up")
      /\ Mode = "tls" /\ src[k] # "done" => Kept(k, "down")' = Kept(k, "down")
  BY <1>1, <1>2, <1>3, Ways, Numbers, NumbersNext
<1>5. EndsGone(k)'
  BY <1>1, Ways DEF EndOK, EndsGone, SameClosed
<1>6. Stuck(k) => Stuck(k)'
  BY <1>1, Ways DEF Stuck
<1> QED
  BY <1>1, <1>2, <1>4, <1>5, <1>6, Ways

LEMMA SrcShakesEnd ==
    ASSUME TypeOK, TypeOK', NEW k \in Conns, Mode = "tls", Good(k), EndOK(k), Quiet(k),
           SrcDial(k) \/ SrcWrite(k) \/ SrcWait(k)
    PROVE  EndOK(k)'
<1>1. /\ src[k] \in {"dial", "write", "wait"} /\ src'[k] \in {"write", "wait", "relay"}
      /\ srv'[k] = srv[k]
      /\ dst'[k] = dst[k] \/ (dst[k] = "none" /\ dst'[k] = "read")
  <2>1. SrcDial(k) => dst[k] = "none"
    BY DEF Good, Shakes, SrcDial
  <2> QED
    BY <2>1 DEF SrcDial, SrcWrite, SrcWait, TypeOK
<1>2. ~eof[k]["down"]
  BY <1>1 DEF EndOK
<1>3. /\ EndsGone(k)' /\ Kept(k, "up")' = Kept(k, "up")
      /\ Held(k, "T", "down")' = Held(k, "T", "down")
      /\ Kept(k, "down")' = Kept(k, "down") /\ (Stuck(k) => Stuck(k)')
      /\ sent'[k] = sent[k] /\ app'[k] = app[k] /\ eof'[k] = eof[k]
  BY <1>1, QuietEnd
<1>4. Drained(k) => Drained(k)'
  BY <1>1, <1>3 DEF Drained, Dead
<1> QED
  BY <1>2, <1>3, <1>4 DEF EndOK

LEMMA DstShakesEnd ==
    ASSUME TypeOK, TypeOK', NEW k \in Conns, Mode = "tls", Good(k), EndOK(k), Quiet(k),
           DstRead(k) \/ DstDial(k) \/ DstReply(k)
    PROVE  EndOK(k)'
<1>1. /\ dst[k] \in {"read", "dial", "reply"} /\ src'[k] = src[k]
      /\ dst'[k] \in {"dial", "reply", "relay"} \/ (dst'[k] = "close" /\ srv'[k] = "none")
      /\ srv[k] = "closed" => srv'[k] = "closed"
      /\ srv'[k] = "closed" => srv[k] = "closed"
  <2>1. dst[k] \in {"read", "dial"} => srv[k] = "none"
    BY DEF Good, Shakes
  <2>2. CASE DstRead(k)
    BY <2>1, <2>2 DEF DstRead, TypeOK
  <2>3. CASE DstDial(k)
    BY <2>1, <2>3 DEF DstDial, TypeOK
  <2>4. CASE DstReply(k)
    BY <2>4 DEF DstReply, TypeOK
  <2> QED
    BY <2>2, <2>3, <2>4
<1>2. Drained(k) => src[k] \notin {"close", "done"}
  BY <1>1 DEF Drained, Dead
<1>3. ~eof[k]["down"]
  BY <1>2 DEF EndOK
<1>4. /\ EndsGone(k)' /\ Kept(k, "up")' = Kept(k, "up")
      /\ src[k] # "done" => Kept(k, "down")' = Kept(k, "down")
      /\ Stuck(k) => Stuck(k)'
      /\ sent'[k] = sent[k] /\ app'[k] = app[k] /\ eof'[k] = eof[k]
  BY <1>1, QuietEnd
<1>5. Drained(k) => Drained(k)'
  BY <1>1, <1>2, <1>4 DEF Drained, Dead
<1> QED
  BY <1>3, <1>4, <1>5 DEF EndOK

\* Of the handlers that copy, none has returned.
LEMMA DrainedRelays ==
    ASSUME NEW k \in Conns, Drained(k), src'[k] \notin {"close", "done"}, dst'[k] = dst[k], srv'[k] = srv[k],
           Stuck(k) => Stuck(k)', Held(k, "T", "down")' = Held(k, "T", "down"),
           Kept(k, "down")' = Kept(k, "down"), sent'[k]["down"] = sent[k]["down"]
    PROVE  Drained(k)'
BY DEF Drained, Dead

LEMMA SrcMainEnd ==
    ASSUME TypeOK, TypeOK', NEW k \in Conns, Good(k), EndOK(k), SrcMain(k)
    PROVE  EndOK(k)'
<1>1. PICK ends \in BOOLEAN : Copy(k, "M", "A", "down", ends)
                              /\ src' = [src EXCEPT ![k] = IF ends THEN "close" ELSE "relay"]
  BY DEF SrcMain
<1>2. /\ src[k] = "relay" /\ src'[k] \in {"relay", "close"} /\ (~ends => src'[k] = "relay")
      /\ UNCHANGED <<app, srv, dst, side, sent, got, eof>>
  BY <1>1 DEF SrcMain, TypeOK
<1>3. ~eof[k]["down"] /\ ~eof'[k]["down"]
  BY <1>2 DEF EndOK
<1>4. /\ ~Pending(k, "down") /\ ~Pending(k, "down")' /\ (Pending(k, "up")' <=> Pending(k, "up"))
      /\ Read(k, "up")' = Read(k, "up") /\ Read(k, "down")' = Read(k, "down")
      /\ Stuck(k) => Stuck(k)'
  BY <1>2 DEF Pending, Far, Read, Stuck
<1>5. CASE /\ TakenFrom(k, "M", "down") /\ PutIn(k, "A", "down") /\ (ends => pipe[k]["A"]["down"].gone)
           /\ pipe'[k]["T"] = pipe[k]["T"]
  <2>1. SameClosed(k, "T") /\ \A dir \in Directions : Held(k, "T", dir)' = Held(k, "T", dir)
    BY <1>5, Ways, SameLeg
  <2>2. /\ SameClosed(k, "M") /\ Held(k, "M", "up")' = Held(k, "M", "up")
        /\ Held(k, "M", "down")' = Held(k, "M", "down") - 1
    BY <1>5, Ways DEF TakenFrom
  <2>3. Passing(k, "up")' = Passing(k, "up") /\ Passing(k, "down")' = Passing(k, "down") - 1
    BY <1>4, <2>2 DEF Passing
  <2>4. EndsGone(k)'
    BY <1>2, <1>5, <2>1, Ways DEF EndOK, EndsGone, PutIn, SameClosed
  <2>5. Kept(k, "up")' <= sent'[k]["up"]
    <3>1. Held(k, "A", "up")' <= Held(k, "A", "up")
      BY <1>5, Ways, Numbers, NumbersNext DEF PutIn
    <3>2. Kept(k, "up") <= sent[k]["up"]
      BY DEF EndOK
    <3> QED
      BY <1>2, <1>4, <2>1, <2>3, <3>1, <3>2, Ways, Numbers, NumbersNext
  <2>6. ASSUME app[k] # "closed" PROVE Drained(k)'
    <3>1. ~pipe[k]["A"]["down"].gone /\ src'[k] = "relay"
      BY <1>2, <1>5, <2>6 DEF EndOK, EndsGone
    <3>2. Held(k, "A", "down")' = Held(k, "A", "down") + 1
      BY <1>5, <3>1 DEF PutIn
    <3>3. Kept(k, "down")' = Kept(k, "down")
      BY <1>4, <2>1, <2>3, <3>2, Ways, Numbers, NumbersNext
    <3>4. Drained(k)
      BY <2>6 DEF EndOK
    <3> QED
      BY <1>2, <1>4, <2>1, <3>1, <3>3, <3>4, Ways, DrainedRelays
  <2> QED
    BY <1>2, <1>3, <2>4, <2>5, <2>6 DEF EndOK
<1>6. CASE pipe' = pipe /\ AtEnd(k, "M", "down")
  <2>1. dst[k] = "done" /\ Held(k, "M", "down") = 0
    BY <1>6, Ways, HeldType DEF AtEnd, Good, Gone, Near
  <2>2. /\ \A leg \in Legs, dir \in Directions : Held(k, leg, dir)' = Held(k, leg, dir)
        /\ Passing(k, "up")' = Passing(k, "up") /\ Passing(k, "down")' = Passing(k, "down")
        /\ EndsGone(k)'
    BY <1>2, <1>4, <1>6 DEF Held, Passing, EndsGone, EndOK
  <2>3. Kept(k, "up")' = Kept(k, "up") /\ Kept(k, "down")' = Kept(k, "down")
    BY <1>4, <2>2, Ways, Numbers, NumbersNext
  <2>4. ASSUME app[k] # "closed" PROVE Drained(k)'
    <3>1. Drained(k)
      BY <2>4 DEF EndOK
    <3>2. Dead(k) => Dead(k)'
      BY <1>2, <2>1 DEF Dead
    <3> QED
      BY <1>2, <1>4, <2>1, <2>2, <2>3, <3>1, <3>2, Ways DEF Drained
  <2> QED
    BY <1>2, <1>3, <2>2, <2>3, <2>4, Ways DEF EndOK
<1> QED
  <2>1. "M" # "A" /\ "T" # "M" /\ "T" # "A"
    OBVIOUS
  <2> QED
    BY <1>1, <1>5, <1>6, <2>1, Ways, CopyHeld

LEMMA SrcSideEnd ==
    ASSUME TypeOK, TypeOK', NEW k \in Conns, Good(k), EndOK(k), SrcSide(k)
    PROVE  EndOK(k)'
<1>1. UNCHANGED <<app, srv, src, dst, sent, got, eof>> /\ side[k].src = "run"
  BY DEF SrcSide
<1>2. CASE pipe' = pipe
  BY <1>1, <1>2, EndStill
<1>3. ASSUME NEW ends \in BOOLEAN, src[k] # "done", Copy(k, "A", "M", "up", ends), pipe' # pipe
      PROVE  EndOK(k)'
  <2>0. "A" # "M" /\ "T" # "M" /\ "T" # "A"
    OBVIOUS
  <2>1. TakenFrom(k, "A", "up") /\ PutIn(k, "M", "up") /\ pipe'[k]["T"] = pipe[k]["T"]
    BY <1>3, <2>0, Ways, CopyHeld
  <2>2. SameClosed(k, "T") /\ \A dir \in Directions : Held(k, "T", dir)' = Held(k, "T", dir)
    BY <2>1, Ways, SameLeg
  <2>3. /\ SameClosed(k, "A") /\ Held(k, "A", "down")' = Held(k, "A", "down")
        /\ Held(k, "A", "up") >= 1 /\ Held(k, "A", "up")' = Held(k, "A", "up") - 1
    BY <2>1, Ways DEF TakenFrom
  <2>4. /\ ~Pending(k, "up") /\ ~Pending(k, "up")' /\ (Pending(k, "down")' <=> Pending(k, "down"))
        /\ Read(k, "up")' = Read(k, "up") /\ Read(k, "down")' = Read(k, "down")
        /\ Stuck(k) => Stuck(k)'
    BY <1>1 DEF Good, Shakes, Pending, Far, Read, Stuck
  <2>5. Passing(k, "up") = Held(k, "M", "up") /\ Passing(k, "up")' = Held(k, "M", "up")'
    BY <2>4 DEF Passing
  <2>6. ~eof[k]["down"] /\ ~eof'[k]["down"]
    BY <1>1, <1>3 DEF EndOK
  <2>7. EndsGone(k)'
    BY <1>1, <2>2, <2>3, Ways DEF EndOK, EndsGone, SameClosed
  <2>8. Kept(k, "up")' <= sent'[k]["up"]
    <3>1. Held(k, "M", "up")' <= Held(k, "M", "up") + 1
      BY <2>1, Numbers, NumbersNext DEF PutIn
    <3>2. Kept(k, "up") <= sent[k]["up"]
      BY DEF EndOK
    <3> QED
      BY <1>1, <2>2, <2>3, <2>4, <2>5, <3>1, <3>2, Ways, Numbers, NumbersNext
  <2>9. ASSUME app[k] # "closed" PROVE Drained(k)'
    <3>1. Drained(k)
      BY <2>9 DEF EndOK
    <3>2. CASE pipe[k]["M"]["up"].gone
      <4>1. dst[k] = "done"
        BY <3>2, Ways DEF Good, Gone, Far
      <4>2. Read(k, "up") < sent[k]["up"]
        BY <2>3, Unread DEF EndOK
      <4>3. Dead(k)' \/ Stuck(k)'
        BY <1>1, <2>4, <3>1, <4>1, <4>2 DEF Drained, Dead, Stuck
      <4> QED
        BY <1>1, <4>1, <4>3, DrainedAnyway
    <3>3. CASE ~pipe[k]["M"]["up"].gone
      <4>1. Held(k, "M", "down")' = Held(k, "M", "down")
        BY <2>1, <3>3, Ways DEF PutIn
      <4>2. Passing(k, "down")' = Passing(k, "down")
        BY <2>4, <4>1, Ways, SamePassing
      <4>3. Kept(k, "down")' = Kept(k, "down")
        BY <2>2, <2>3, <2>4, <4>2, Ways, Numbers, NumbersNext
      <4> QED
        BY <1>1, <2>2, <2>4, <3>1, <4>1, <4>3, Ways, DrainedStays
    <3> QED
      BY <3>2, <3>3
  <2> QED
    BY <1>1, <2>6, <2>7, <2>8, <2>9 DEF EndOK
<1> QED
  BY <1>2, <1>3 DEF SrcSide

LEMMA SrcReturnEnd ==
    ASSUME TypeOK, TypeOK', NEW k \in Conns, Mode = "tls", Good(k), EndOK(k), SrcReturn(k) \/ SrcDialFails(k)
    PROVE  EndOK(k)'
<1>1. /\ src[k] \in {"dial", "close"} /\ src'[k] = "done"
      /\ UNCHANGED <<app, srv, dst, side, sent, got, eof>>
  BY DEF SrcReturn, SrcDialFails, TypeOK
<1>2. /\ pipe'[k]["A"] \in Closed(pipe[k]["A"], "down") /\ pipe'[k]["M"] \in Closed(pipe[k]["M"], "up")
      /\ pipe'[k]["T"] = pipe[k]["T"]
  <2>1. pipe'[k] \in SrcCloses(k)
    BY DEF SrcReturn, SrcDialFails, TypeOK
  <2> QED
    BY <2>1, ClosedConn
<1>3. Shut(k, "A", "down") /\ Shut(k, "M", "up")
  BY <1>2, Ways, CloseHeld
<1>4. SameClosed(k, "T") /\ \A dir \in Directions : Held(k, "T", dir)' = Held(k, "T", dir)
  BY <1>2, Ways, SameLeg
<1>5. /\ Held(k, "A", "up")' = 0 /\ (Held(k, "A", "up") = 0 => Held(k, "A", "down")' = Held(k, "A", "down"))
      /\ Held(k, "M", "down")' = 0 /\ Held(k, "M", "up")' <= Held(k, "M", "up")
  BY <1>3, Ways DEF Shut
<1>6. /\ (Pending(k, "up")' <=> Pending(k, "up"))
      /\ Read(k, "up")' = Read(k, "up") /\ Read(k, "down")' = Read(k, "down")
      /\ Stuck(k) => Stuck(k)'
  BY <1>1 DEF Pending, Far, Read, Stuck
<1>7. ~eof[k]["down"] /\ ~eof'[k]["down"]
  BY <1>1 DEF EndOK
<1>8. EndsGone(k)'
  BY <1>1, <1>3, <1>4, Ways DEF EndOK, EndsGone, Shut, SameClosed
<1>9. Kept(k, "up")' <= sent'[k]["up"]
  <2>1. Passing(k, "up")' <= Passing(k, "up")
    BY <1>5, <1>6, Numbers, NumbersNext DEF Passing
  <2>2. Kept(k, "up") <= sent[k]["up"]
    BY DEF EndOK
  <2> QED
    BY <1>1, <1>4, <1>5, <1>6, <2>1, <2>2, Ways, Numbers, NumbersNext
<1>10. ASSUME app[k] # "closed" PROVE Drained(k)'
  <2>1. Drained(k)
    BY <1>10 DEF EndOK
  <2>2. CASE src[k] = "dial"
    <3>1. Dead(k)'
      BY <1>1, <2>2 DEF Good, Shakes, Dead
    <3> QED
      BY <3>1, DrainedAnyway
  <2>3. CASE Dead(k)
    <3>1. Dead(k)'
      BY <1>1, <2>3 DEF Dead
    <3> QED
      BY <3>1, DrainedAnyway
  <2>4. CASE src[k] = "close" /\ ~Dead(k)
    <3>1. srv[k] = "closed" /\ dst[k] = "done"
          /\ (Stuck(k) \/ (Held(k, "T", "down") = 0 /\ Held(k, "M", "down") = 0))
      BY <2>1, <2>4 DEF Drained
    <3>2. CASE Stuck(k)
      BY <1>1, <1>6, <3>1, <3>2, DrainedAnyway
    <3>3. CASE ~Stuck(k)
      <4>1. Held(k, "A", "up") = 0
        BY <3>1, <3>3, Unread DEF EndOK, Stuck
      <4>2. Passing(k, "down") = 0 /\ Passing(k, "down")' = 0
        BY <1>1, <1>5, <2>4, <3>1, <3>3 DEF Passing, Pending, Far
      <4>3. Kept(k, "down")' = Kept(k, "down")
        BY <1>4, <1>5, <1>6, <4>1, <4>2, Ways, Numbers, NumbersNext
      <4>4. Kept(k, "down") = sent[k]["down"]
        BY <2>1, <3>1, <3>3 DEF Drained
      <4> QED
        BY <1>1, <1>4, <1>5, <3>1, <3>3, <4>3, <4>4, Ways DEF Drained
    <3> QED
      BY <3>2, <3>3
  <2> QED
    BY <1>1, <2>2, <2>3, <2>4
<1> QED
  BY <1>1, <1>7, <1>8, <1>9, <1>10 DEF EndOK

LEMMA DstMainEnd ==
    ASSUME TypeOK, TypeOK', NEW k \in Conns, Mode = "tls", Good(k), EndOK(k), DstMain(k)
    PROVE  EndOK(k)'
<1>1. PICK ends \in BOOLEAN : Copy(k, "T", "M", "down", ends)
                              /\ dst' = [dst EXCEPT ![k] = IF ends THEN "close" ELSE "relay"]
  BY DEF DstMain, DstCopy, MainDir
<1>2. /\ dst[k] = "relay" /\ dst'[k] \in {"relay", "close"} /\ (~ends => dst'[k] = "relay")
      /\ UNCHANGED <<app, srv, src, side, sent, got, eof>>
  BY <1>1 DEF DstMain, TypeOK
<1>3. /\ ~Pending(k, "up") /\ ~Pending(k, "up")' /\ (Pending(k, "down")' <=> Pending(k, "down"))
      /\ Read(k, "up")' = Read(k, "up") /\ Read(k, "down")' = Read(k, "down")
      /\ Stuck(k) => Stuck(k)'
  BY <1>2 DEF Pending, Far, Read, Stuck
<1>4. Drained(k) => src[k] \notin {"close", "done"} /\ src'[k] \notin {"close", "done"}
  BY <1>2 DEF Drained, Dead
<1>5. CASE /\ TakenFrom(k, "T", "down") /\ PutIn(k, "M", "down") /\ (ends => pipe[k]["M"]["down"].gone)
           /\ pipe'[k]["A"] = pipe[k]["A"]
  <2>1. SameClosed(k, "A") /\ \A dir \in Directions : Held(k, "A", dir)' = Held(k, "A", dir)
    BY <1>5, Ways, SameLeg
  <2>2. /\ SameClosed(k, "T") /\ Held(k, "T", "up")' = Held(k, "T", "up")
        /\ Held(k, "T", "down")' = Held(k, "T", "down") - 1
    BY <1>5, Ways DEF TakenFrom
  <2>3. EndsGone(k)'
    BY <1>2, <2>1, <2>2, Ways DEF EndOK, EndsGone, SameClosed
  <2>4. Kept(k, "up")' <= sent'[k]["up"]
    <3>1. Held(k, "M", "up")' <= Held(k, "M", "up")
      BY <1>5, Ways, Numbers, NumbersNext DEF PutIn
    <3>2. Passing(k, "up")' <= Passing(k, "up")
      BY <1>3, <3>1 DEF Passing
    <3>3. Kept(k, "up") <= sent[k]["up"]
      BY DEF EndOK
    <3> QED
      BY <1>2, <1>3, <2>1, <2>2, <3>2, <3>3, Ways, Numbers, NumbersNext
  <2>5. ASSUME Drained(k) PROVE Drained(k)'
    <3>1. ~pipe[k]["M"]["down"].gone /\ dst'[k] = "relay"
      BY <1>2, <1>4, <1>5, <2>5, Ways DEF Good, Gone, Far
    <3>2. Held(k, "M", "down")' = Held(k, "M", "down") + 1
      BY <1>5, <3>1 DEF PutIn
    <3>3. Pending(k, "down") => Held(k, "M", "down") # 0
      <4>1. src[k] \in {"dial", "write"} => dst[k] \in {"none", "read"}
        BY DEF Good, Shakes
      <4>2. src[k] = "wait" => InMiddle(k, "down") # <<>>
        BY <1>2 DEF Good, Shakes
      <4>3. InMiddle(k, "down") # <<>> => Held(k, "M", "down") # 0
        BY Ways, HeldType DEF InMiddle
      <4> QED
        BY <1>2, <4>1, <4>2, <4>3 DEF Pending, Far
    <3>4. Passing(k, "down")' = Passing(k, "down") + 1
      BY <1>3, <3>2, <3>3, Numbers, NumbersNext DEF Passing
    <3>5. Kept(k, "down")' = Kept(k, "down")
      BY <1>3, <2>1, <2>2, <3>4, Ways, Numbers, NumbersNext
    <3>6. srv[k] = "closed" => Stuck(k) \/ Kept(k, "down") = sent[k]["down"]
      BY <2>5 DEF Drained
    <3> QED
      BY <1>2, <1>3, <1>4, <2>5, <3>1, <3>5, <3>6 DEF Drained
  <2> QED
    BY <1>2, <2>1, <2>3, <2>4, <2>5, Ways DEF EndOK
<1>6. CASE pipe' = pipe /\ AtEnd(k, "T", "down")
  <2>1. srv[k] = "closed" /\ Held(k, "T", "down") = 0
    BY <1>6, Ways, HeldType DEF AtEnd, EndOK, EndsGone
  <2>2. /\ \A leg \in Legs, dir \in Directions : Held(k, leg, dir)' = Held(k, leg, dir)
        /\ Passing(k, "up")' = Passing(k, "up") /\ Passing(k, "down")' = Passing(k, "down")
        /\ EndsGone(k)'
    BY <1>2, <1>3, <1>6 DEF Held, Passing, EndsGone, EndOK
  <2>3. Kept(k, "up")' = Kept(k, "up") /\ Kept(k, "down")' = Kept(k, "down")
    BY <1>3, <2>2, Ways, Numbers, NumbersNext
  <2>4. ASSUME Drained(k) PROVE Drained(k)'
    BY <1>2, <1>3, <1>4, <2>1, <2>2, <2>3, <2>4, Ways DEF Drained
  <2> QED
    BY <1>2, <2>2, <2>3, <2>4, Ways DEF EndOK
<1> QED
  <2>1. "T" # "M" /\ "A" # "M" /\ "A" # "T"
    OBVIOUS
  <2> QED
    BY <1>1, <1>5, <1>6, <2>1, Ways, CopyHeld

\* A handler of the dst gateway that returns has read everything of the application
\* that can still arrive, or the server has not.
LEMMA DstReturnEnd ==
    ASSUME TypeOK, TypeOK', NEW k \in Conns, Good(k), EndOK(k), DstReturn(k)
    PROVE  EndOK(k)'
<1>1. /\ dst[k] = "close" /\ dst'[k] = "done"
      /\ UNCHANGED <<app, srv, src, side, sent, got, eof>>
  BY DEF DstReturn, TypeOK
<1>2. /\ pipe'[k]["T"] \in Closed(pipe[k]["T"], "up") /\ pipe'[k]["M"] \in Closed(pipe[k]["M"], "down")
      /\ pipe'[k]["A"] = pipe[k]["A"]
  <2>1. pipe'[k] \in DstCloses(k)
    BY DEF DstReturn, TypeOK
  <2> QED
    BY <2>1, ClosedConn
<1>3. Shut(k, "T", "up") /\ Shut(k, "M", "down")
  BY <1>2, Ways, CloseHeld
<1>4. SameClosed(k, "A") /\ \A dir \in Directions : Held(k, "A", dir)' = Held(k, "A", dir)
  BY <1>2, Ways, SameLeg
<1>5. /\ Held(k, "M", "up")' = 0 /\ (Held(k, "M", "up") = 0 => Held(k, "M", "down")' = Held(k, "M", "down"))
      /\ Held(k, "T", "down")' = 0 /\ Held(k, "T", "up")' <= Held(k, "T", "up")
  BY <1>3, Ways DEF Shut
<1>6. /\ ~Pending(k, "up") /\ ~Pending(k, "up")' /\ (Pending(k, "down")' <=> Pending(k, "down"))
      /\ Read(k, "up")' = Read(k, "up") /\ Read(k, "down")' = Read(k, "down")
      /\ Stuck(k) => Stuck(k)'
  BY <1>1 DEF Pending, Far, Read, Stuck
<1>7. EndsGone(k)'
  BY <1>1, <1>3, <1>4, Ways DEF EndOK, EndsGone, Shut, SameClosed
<1>8. Kept(k, "up")' <= sent'[k]["up"]
  <2>1. Passing(k, "up")' = 0
    BY <1>5, <1>6 DEF Passing
  <2>2. Kept(k, "up") <= sent[k]["up"]
    BY DEF EndOK
  <2> QED
    BY <1>1, <1>4, <1>5, <1>6, <2>1, <2>2, Ways, Numbers, NumbersNext
<1>9. ASSUME Drained(k) PROVE Drained(k)'
  <2>1. CASE Dead(k)
    <3>1. Dead(k)'
      BY <1>1, <2>1 DEF Dead
    <3> QED
      BY <3>1, DrainedAnyway
  <2>2. CASE Stuck(k)
    BY <1>1, <1>6, <2>2, DrainedAnyway
  <2>3. CASE ~Dead(k) /\ ~Stuck(k)
    <3>1. srv[k] = "closed" /\ Held(k, "T", "down") = 0 /\ Kept(k, "down") = sent[k]["down"]
          /\ src[k] \notin {"close", "done"}
      BY <1>1, <1>9, <2>3 DEF Drained
    <3>2. Held(k, "M", "up") = 0
      BY <1>6, <2>3, <3>1, Unread DEF EndOK, Stuck, Passing
    <3>3. Passing(k, "down")' = Passing(k, "down")
      BY <1>5, <1>6, <3>2, Ways, SamePassing
    <3>4. Kept(k, "down")' = Kept(k, "down")
      BY <1>4, <1>5, <1>6, <3>1, <3>3, Ways, Numbers, NumbersNext
    <3> QED
      BY <1>1, <1>5, <3>1, <3>4 DEF Drained
  <2> QED
    BY <2>1, <2>2, <2>3
<1> QED
  BY <1>1, <1>4, <1>7, <1>8, <1>9, Ways DEF EndOK

LEMMA DstSideEnd ==
    ASSUME TypeOK, TypeOK', NEW k \in Conns, Mode = "tls", Good(k), EndOK(k), DstSide(k)
    PROVE  EndOK(k)'
<1>1. UNCHANGED <<app, srv, src, dst, sent, got, eof>> /\ side[k].dst = "run"
  BY DEF DstSide
<1>2. CASE pipe' = pipe
  BY <1>1, <1>2, EndStill
<1>3. ASSUME NEW ends \in BOOLEAN, Copy(k, "M", "T", "up", ends), pipe' # pipe
      PROVE  EndOK(k)'
  <2>0. "M" # "T" /\ "A" # "M" /\ "A" # "T"
    OBVIOUS
  <2>1. TakenFrom(k, "M", "up") /\ PutIn(k, "T", "up") /\ pipe'[k]["A"] = pipe[k]["A"]
    BY <1>3, <2>0, Ways, CopyHeld
  <2>2. SameClosed(k, "A") /\ \A dir \in Directions : Held(k, "A", dir)' = Held(k, "A", dir)
    BY <2>1, Ways, SameLeg
  <2>3. /\ Held(k, "M", "down")' = Held(k, "M", "down")
        /\ Held(k, "M", "up") >= 1 /\ Held(k, "M", "up")' = Held(k, "M", "up") - 1
    BY <2>1, Ways DEF TakenFrom
  <2>4. /\ ~Pending(k, "up") /\ ~Pending(k, "up")' /\ (Pending(k, "down")' <=> Pending(k, "down"))
        /\ Read(k, "up")' = Read(k, "up") /\ Read(k, "down")' = Read(k, "down")
        /\ Stuck(k) => Stuck(k)'
    BY <1>1 DEF Good, Shakes, Pending, Far, Read, Stuck
  <2>5. /\ Passing(k, "up") = Held(k, "M", "up") /\ Passing(k, "up")' = Held(k, "M", "up")'
        /\ Passing(k, "down")' = Passing(k, "down")
    BY <2>3, <2>4 DEF Passing
  <2>6. EndsGone(k)'
    BY <1>1, <2>1, <2>2, Ways DEF EndOK, EndsGone, PutIn, SameClosed
  <2>7. Kept(k, "up")' <= sent'[k]["up"]
    <3>1. Held(k, "T", "up")' <= Held(k, "T", "up") + 1
      BY <2>1, Numbers, NumbersNext DEF PutIn
    <3>2. Kept(k, "up") <= sent[k]["up"]
      BY DEF EndOK
    <3> QED
      BY <1>1, <2>2, <2>3, <2>4, <2>5, <3>1, <3>2, Ways, Numbers, NumbersNext
  <2>8. ASSUME Drained(k) PROVE Drained(k)'
    <3>1. CASE pipe[k]["T"]["up"].gone
      <4>1. srv[k] = "closed"
        BY <3>1, Ways DEF Good, Gone, Writing, TypeOK
      <4>2. Read(k, "up") < sent[k]["up"]
        <5>1. Passing(k, "up") # 0
          BY <2>3, <2>5
        <5> QED
          BY <5>1, Unread DEF EndOK
      <4>3. Stuck(k)' /\ (src'[k] \in {"close", "done"} => dst'[k] = "done")
        BY <1>1, <2>4, <2>8, <4>1, <4>2 DEF Drained, Dead, Stuck
      <4> QED
        BY <4>3, DrainedAnyway
    <3>2. CASE ~pipe[k]["T"]["up"].gone
      <4>1. Held(k, "T", "down")' = Held(k, "T", "down")
        BY <2>1, <3>2, Ways DEF PutIn
      <4>2. Kept(k, "down")' = Kept(k, "down")
        BY <2>2, <2>4, <2>5, <4>1, Ways, Numbers, NumbersNext
      <4> QED
        BY <1>1, <2>3, <2>4, <2>8, <4>1, <4>2, Ways, DrainedStays
    <3> QED
      BY <3>1, <3>2
  <2> QED
    BY <1>1, <2>2, <2>6, <2>7, <2>8, Ways DEF EndOK
<1> QED
  BY <1>2, <1>3 DEF DstSide, DstCopy, MainDir, Opposite

\* Every step keeps it.
LEMMA EndStep ==
    ASSUME TypeOK, RelayInv, EndInv, Mode = "tls", NEW k \in Conns,
           \/ Environment(k) \/ Readers(k) \/ Src(k) \/ SrcSide(k) \/ Dst(k) \/ DstSide(k)
    PROVE  EndInv'
<1>1. Good(k) /\ EndOK(k)
  BY DEF RelayInv, EndInv
<1>2. Keeps(k)
  <2>1. ~SrcPanics(k)
    BY DEF SrcPanics
  <2> QED
    BY <1>1, <2>1, EveryStep
<1>3. TypeOK' /\ \A c \in Conns : c # k => EndOK(c)'
  BY <1>2, EndElsewhere DEF EndInv, Keeps
<1>4. EndOK(k)'
  <2>1. CASE Environment(k)
    BY <1>1, <1>3, <2>1, AppSendEnd, AppShutdownEnd, AppCloseEnd, ServerSendEnd, ServerCloseEnd
    DEF Environment
  <2>2. CASE Readers(k)
    BY <1>1, <1>3, <2>2, AppReceiveEnd, ServerReceiveEnd DEF Readers
  <2>3. CASE SrcDial(k) \/ SrcWrite(k) \/ SrcWait(k)
    <3>1. Quiet(k)
      BY <1>1, <2>3, SrcDialStep, SrcWriteStep, SrcWaitStep
    <3> QED
      BY <1>1, <1>3, <2>3, <3>1, SrcShakesEnd
  <2>4. CASE DstRead(k) \/ DstDial(k) \/ DstReply(k)
    <3>1. Quiet(k)
      BY <1>1, <2>4, DstReadStep, DstDialStep, DstReplyStep
    <3> QED
      BY <1>1, <1>3, <2>4, <3>1, DstShakesEnd
  <2>5. CASE SrcMain(k) \/ SrcSide(k) \/ SrcReturn(k) \/ SrcDialFails(k)
    BY <1>1, <1>3, <2>5, SrcMainEnd, SrcSideEnd, SrcReturnEnd
  <2>6. CASE DstMain(k) \/ DstSide(k) \/ DstReturn(k)
    BY <1>1, <1>3, <2>6, DstMainEnd, DstSideEnd, DstReturnEnd
  <2>7. ~SrcPanics(k)
    BY DEF SrcPanics
  <2> QED
    BY <2>1, <2>2, <2>3, <2>4, <2>5, <2>6, <2>7 DEF Src, Dst
<1> QED
  BY <1>3, <1>4 DEF EndInv

LEMMA EndStarts == Init => EndInv
<1>1. ASSUME Init, NEW k \in Conns PROVE EndOK(k)
  <2>1. /\ \A leg \in Legs, dir \in Directions : pipe[k][leg][dir] = Pipe
        /\ \A dir \in Directions : sent[k][dir] = 0 /\ got[k][dir] = <<>> /\ ~eof[k][dir]
        /\ app[k] = "open" /\ srv[k] = "none" /\ src[k] = "dial" /\ dst[k] = "none"
    BY <1>1 DEF Init
  <2>2. /\ \A leg \in Legs, dir \in Directions : Held(k, leg, dir) = 0
        /\ \A dir \in Directions : Read(k, dir) = 0
    <3>1. Len(<<>>) = 0
      OBVIOUS
    <3> QED
      BY <2>1, <3>1 DEF Held, Read, Pipe
  <2>3. Passing(k, "up") = 0
    BY <2>2, Ways DEF Passing
  <2>4. Kept(k, "up") = 0
    BY <2>2, <2>3, Ways DEF Kept
  <2>5. EndsGone(k)
    BY <2>1, Ways DEF EndsGone, Pipe
  <2>6. Drained(k)
    BY <2>1 DEF Drained
  <2> QED
    BY <2>1, <2>4, <2>5, <2>6, Ways DEF EndOK
<1> QED
  BY <1>1 DEF EndInv

\* Over TLS an application that reads the end of a connection has read everything
\* its server wrote, if the server closed after reading all the application wrote:
\* handleTLSExternalConnection and internalProxy return only when the copying down
\* has passed on every byte.
THEOREM EndAlwaysComplete ==
    ASSUME Mode = "tls"
    PROVE  Spec => []EndMeansComplete
<1>1. Init => EndInv
  BY EndStarts
<1>2. TypeOK /\ RelayInv /\ EndInv /\ [Next]_vars => EndInv'
  <2>1. CASE UNCHANGED vars
    <3>1. \A k \in Conns : Untouched(k)
      BY <2>1 DEF vars, Untouched
    <3> QED
      BY <3>1, EndElsewhere DEF EndInv
  <2>2. ASSUME TypeOK, RelayInv, EndInv, Next PROVE EndInv'
    BY <2>2, EndStep DEF Next
  <2> QED
    BY <2>1, <2>2
<1>3. TypeOK /\ RelayInv /\ EndInv => EndMeansComplete
  <2>1. ASSUME TypeOK, EndInv, NEW k \in Conns, eof[k]["down"], srv[k] = "closed", Read(k, "up") = sent[k]["up"]
        PROVE  Read(k, "down") = sent[k]["down"]
    <3>1. EndOK(k)
      BY <2>1 DEF EndInv
    <3>2. src[k] = "done" /\ Held(k, "A", "down") = 0 /\ Drained(k)
      BY <2>1, <3>1 DEF EndOK
    <3>3. ~Stuck(k) /\ ~Dead(k)
      BY <2>1, Numbers DEF Stuck, Dead
    <3>4. Kept(k, "down") = sent[k]["down"] /\ Held(k, "T", "down") = 0 /\ Held(k, "M", "down") = 0
      BY <2>1, <3>2, <3>3 DEF Drained
    <3>5. Passing(k, "down") = 0
      BY <3>2, <3>4 DEF Passing, Pending, Far
    <3> QED
      BY <2>1, <3>2, <3>4, <3>5, Numbers
  <2> QED
    BY <2>1 DEF EndMeansComplete, Read
<1>4. Spec => [](TypeOK /\ RelayInv)
  BY RelayInductive
<1> QED
  BY <1>1, <1>2, <1>3, <1>4, PTL DEF Spec

-----------------------------------------------------------------------------
(* Without the panic: an end has a cause in its own connection *)

\* One of the two ends has gone.
Ended(k) == srv[k] = "closed" \/ app[k] = "closed"

CauseOK(k) ==
    /\ EndsGone(k)
    /\ src[k] \in {"close", "done"} => Ended(k)
    /\ dst[k] \in {"close", "done"} => Ended(k)
    /\ eof[k]["down"] => srv[k] = "closed"

CauseInv == \A k \in Conns \ Refusing : CauseOK(k)

\* No leg of k is closed.
Unclosed(k) == \A leg \in Legs : SameClosed(k, leg)

\* Whoever has closed a leg has still done so.
LEMMA UnclosedKeeps ==
    ASSUME NEW k \in Conns, EndsGone(k), Unclosed(k), src[k] = "done" => src'[k] = "done",
           app[k] = "closed" => app'[k] = "closed", srv[k] = "closed" => srv'[k] = "closed"
    PROVE  EndsGone(k)'
BY Ways DEF EndsGone, Unclosed, SameClosed

\* A turn of a copy closes nothing; it ends where the reader has gone or nothing
\* comes any more.
LEMMA CopyCloses ==
    ASSUME TypeOK, NEW k \in Conns, NEW dir \in Directions, NEW ends \in BOOLEAN,
           NEW from \in Legs, NEW to \in Legs, from # to, Copy(k, from, to, dir, ends)
    PROVE  Unclosed(k) /\ (ends => pipe[k][to][dir].gone \/ pipe[k][from][dir].fin)
<1>1. CASE /\ TakenFrom(k, from, dir) /\ PutIn(k, to, dir) /\ (ends => pipe[k][to][dir].gone)
           /\ \A x \in Legs : x # from /\ x # to => pipe'[k][x] = pipe[k][x]
  <2>1. SameClosed(k, from) /\ SameClosed(k, to)
    BY <1>1 DEF TakenFrom, PutIn
  <2>2. \A x \in Legs : x # from /\ x # to => SameClosed(k, x)
    BY <1>1, SameLeg
  <2> QED
    BY <1>1, <2>1, <2>2 DEF Unclosed
<1>2. CASE pipe' = pipe /\ ends /\ AtEnd(k, from, dir)
  BY <1>2 DEF Unclosed, SameClosed, AtEnd
<1> QED
  BY <1>1, <1>2, CopyHeld

\* Nor does an end that writes or reads.
LEMMA EndsLeaveOpen ==
    ASSUME TypeOK, NEW k \in Conns,
           AppSend(k) \/ ServerSend(k) \/ AppReceive(k) \/ ServerReceive(k)
    PROVE  Unclosed(k) /\ UNCHANGED <<app, srv, src, dst>>
<1>1. ASSUME NEW leg \in Legs, NEW dir \in Directions, NEW who, Send(k, who, leg, dir)
      PROVE  Unclosed(k) /\ UNCHANGED <<app, srv, src, dst>>
  <2>1. /\ pipe'[k][leg] \in Put(pipe[k][leg], dir, sent[k][dir] + 1)
        /\ \A x \in Legs : x # leg => pipe'[k][x] = pipe[k][x]
    BY <1>1 DEF Send, Write, TypeOK
  <2>2. sent[k][dir] + 1 \in Byte
    BY <1>1, RelayAssumption DEF Send, TypeOK, Byte
  <2>3. SameClosed(k, leg)
    BY <2>1, <2>2, PutHeld DEF PutIn
  <2> QED
    BY <1>1, <2>1, <2>3, SameLeg DEF Send, Unclosed
<1>2. ASSUME NEW leg \in Legs, NEW dir \in Directions, NEW who, Receive(k, who, leg, dir)
      PROVE  Unclosed(k) /\ UNCHANGED <<app, srv, src, dst>>
  <2>1. CASE /\ pipe[k][leg][dir].buf # <<>>
             /\ pipe' = [pipe EXCEPT ![k][leg] = Take(@, dir, 1)]
    <3>1. /\ pipe'[k][leg] = Take(pipe[k][leg], dir, 1)
          /\ \A x \in Legs : x # leg => pipe'[k][x] = pipe[k][x]
      BY <2>1 DEF TypeOK
    <3>2. SameClosed(k, leg)
      BY <2>1, <3>1, TakeHeld DEF TakenFrom
    <3> QED
      BY <1>2, <3>1, <3>2, SameLeg DEF Receive, Unclosed
  <2>2. CASE UNCHANGED pipe
    BY <1>2, <2>2 DEF Receive, Unclosed, SameClosed
  <2> QED
    BY <1>2, <2>1, <2>2 DEF Receive, Readable
<1> QED
  BY <1>1, <1>2, Ways DEF AppSend, ServerSend, AppReceive, ServerReceive

LEMMA EndsCause ==
    ASSUME TypeOK, NEW k \in Conns, CauseOK(k), Environment(k) \/ Readers(k)
    PROVE  CauseOK(k)'
<1>1. CASE AppSend(k) \/ ServerSend(k) \/ AppReceive(k) \/ ServerReceive(k)
  <2>1. Unclosed(k) /\ UNCHANGED <<app, srv, src, dst>>
    BY <1>1, EndsLeaveOpen
  <2>2. EndsGone(k)'
    BY <2>1, UnclosedKeeps DEF CauseOK
  <2>3. eof'[k]["down"] => srv'[k] = "closed"
    <3>1. CASE eof'[k]["down"] = eof[k]["down"]
      BY <2>1, <3>1 DEF CauseOK
    <3>2. CASE AppReceive(k) /\ pipe[k]["A"]["down"].fin
      <4>1. app[k] # "closed" /\ src[k] = "done"
        BY <3>2 DEF AppReceive, Receive, CauseOK, EndsGone
      <4> QED
        BY <2>1, <4>1 DEF CauseOK, Ended
    <3>3. AppSend(k) \/ ServerSend(k) => UNCHANGED eof
      BY DEF AppSend, ServerSend, Send
    <3>4. ServerReceive(k) => eof'[k]["down"] = eof[k]["down"]
      BY Ways DEF ServerReceive, Receive, TypeOK
    <3>5. AppReceive(k) => UNCHANGED eof \/ pipe[k]["A"]["down"].fin
      BY DEF AppReceive, Receive, AtEnd
    <3> QED
      BY <1>1, <3>1, <3>2, <3>3, <3>4, <3>5
  <2> QED
    BY <2>1, <2>2, <2>3 DEF CauseOK, Ended
<1>2. CASE AppShutdown(k)
  <2>1. /\ app[k] = "open" /\ UNCHANGED <<srv, src, dst, eof>>
        /\ pipe'[k]["A"]["down"] = pipe[k]["A"]["down"] /\ pipe'[k]["T"] = pipe[k]["T"]
    BY <1>2, Ways DEF AppShutdown, TypeOK, Legs
  <2> QED
    BY <2>1 DEF CauseOK, EndsGone, Ended
<1>3. CASE AppClose(k)
  <2>1. /\ app'[k] = "closed" /\ UNCHANGED <<srv, src, dst, eof>>
        /\ pipe'[k]["A"] \in Closed(pipe[k]["A"], "up") /\ pipe'[k]["T"] = pipe[k]["T"]
    BY <1>3, Ways DEF AppClose, TypeOK, Legs
  <2>2. Shut(k, "A", "up")
    BY <2>1, Ways, CloseHeld
  <2> QED
    BY <2>1, <2>2, Ways DEF CauseOK, EndsGone, Ended, Shut
<1>4. CASE ServerClose(k)
  <2>1. /\ srv'[k] = "closed" /\ UNCHANGED <<app, src, dst, eof>>
        /\ pipe'[k]["T"] \in Closed(pipe[k]["T"], "down") /\ pipe'[k]["A"] = pipe[k]["A"]
    BY <1>4, Ways DEF ServerClose, TypeOK, Legs
  <2>2. Shut(k, "T", "down")
    BY <2>1, Ways, CloseHeld
  <2> QED
    BY <2>1, <2>2, Ways DEF CauseOK, EndsGone, Ended, Shut
<1> QED
  BY <1>1, <1>2, <1>3, <1>4 DEF Environment, Readers

\* The handshake: the only end it can come to, but for a dial that fails, is that
\* of the leg between the gateways.
LEMMA ShakesCause ==
    ASSUME TypeOK, NEW k \in Conns \ Refusing, Good(k), Quiet(k), CauseOK(k),
           \/ SrcDial(k) \/ SrcWrite(k) \/ SrcWait(k)
           \/ DstRead(k) \/ DstDial(k) \/ DstReply(k)
    PROVE  CauseOK(k)'
<1>0. k \in Conns /\ Unclosed(k) /\ UNCHANGED app /\ eof'[k] = eof[k]
  BY DEF Quiet, Unclosed, SrcDial, SrcWrite, SrcWait, DstRead, DstDial, DstReply
<1>1. CASE SrcDial(k) \/ SrcWrite(k) \/ SrcWait(k)
  <2>1. /\ src[k] # "done" /\ src'[k] \notin {"close", "done"} /\ UNCHANGED srv
        /\ dst'[k] = dst[k] \/ dst'[k] = "read"
    BY <1>0, <1>1 DEF SrcDial, SrcWrite, SrcWait, TypeOK
  <2> QED
    BY <1>0, <2>1, UnclosedKeeps DEF CauseOK, Ended
<1>2. CASE DstRead(k)
  <2>1. UNCHANGED <<src, srv>> /\ (dst'[k] = "dial" \/ (dst'[k] = "close" /\ pipe[k]["M"]["up"].fin))
    BY <1>0, <1>2 DEF DstRead, AtEnd, TypeOK
  <2>2. pipe[k]["M"]["up"].fin => src[k] = "done"
    BY <1>0, Ways DEF Good, Gone, Near
  <2> QED
    BY <1>0, <2>1, <2>2, UnclosedKeeps DEF CauseOK, Ended
<1>3. CASE DstDial(k)
  <2>1. UNCHANGED src /\ dst'[k] = "reply" /\ srv[k] = "none"
    BY <1>0, <1>3 DEF DstDial, TypeOK, Good, Shakes
  <2> QED
    BY <1>0, <2>1, UnclosedKeeps DEF CauseOK, Ended
<1>4. CASE DstReply(k)
  <2>1. UNCHANGED <<src, srv>> /\ dst'[k] = "relay"
    BY <1>0, <1>4 DEF DstReply, TypeOK
  <2> QED
    BY <1>0, <2>1, UnclosedKeeps DEF CauseOK, Ended
<1> QED
  BY <1>1, <1>2, <1>3, <1>4

LEMMA HandlersCause ==
    ASSUME TypeOK, NEW k \in Conns, Mode # "copy", Good(k), CauseOK(k),
           SrcMain(k) \/ SrcSide(k) \/ DstMain(k) \/ DstSide(k)
    PROVE  CauseOK(k)'
<1>0. "A" # "M" /\ "M" # "T" /\ MainDir \in Directions /\ Opposite(MainDir) \in Directions
  BY Ways DEF MainDir
<1>1. ASSUME NEW dir \in Directions, NEW ends \in BOOLEAN, DstCopy(k, dir, ends)
      PROVE  Unclosed(k) /\ (ends => Ended(k))
  <2>1. CASE dir = "down"
    <3>1. Unclosed(k) /\ (ends => pipe[k]["M"]["down"].gone \/ pipe[k]["T"]["down"].fin)
      BY <1>0, <1>1, <2>1, Ways, CopyCloses DEF DstCopy
    <3>2. pipe[k]["M"]["down"].gone => src[k] = "done"
      BY Ways DEF Good, Gone, Far
    <3> QED
      BY <3>1, <3>2 DEF CauseOK, EndsGone, Ended
  <2>2. CASE dir = "up"
    <3>1. Unclosed(k) /\ (ends => pipe[k]["T"]["up"].gone \/ pipe[k]["M"]["up"].fin)
      BY <1>0, <1>1, <2>2, Ways, CopyCloses DEF DstCopy
    <3>2. pipe[k]["M"]["up"].fin => src[k] = "done"
      BY Ways DEF Good, Gone, Near
    <3>3. pipe[k]["T"]["up"].gone => srv[k] = "closed"
      BY Ways DEF Good, Gone, Writing, TypeOK
    <3> QED
      BY <3>1, <3>2, <3>3 DEF CauseOK, Ended
  <2> QED
    BY <2>1, <2>2 DEF Directions
<1>2. CASE SrcMain(k)
  <2>1. PICK ends \in BOOLEAN : Copy(k, "M", "A", "down", ends)
                                /\ src' = [src EXCEPT ![k] = IF ends THEN "close" ELSE "relay"]
    BY <1>2 DEF SrcMain
  <2>2. /\ src[k] = "relay" /\ src'[k] = (IF ends THEN "close" ELSE "relay")
        /\ UNCHANGED <<app, srv, dst, eof>>
    BY <1>2, <2>1 DEF SrcMain, TypeOK
  <2>3. Unclosed(k) /\ (ends => pipe[k]["A"]["down"].gone \/ pipe[k]["M"]["down"].fin)
    BY <1>0, <2>1, Ways, CopyCloses
  <2>4. pipe[k]["M"]["down"].fin => dst[k] = "done"
    BY Ways DEF Good, Gone, Near
  <2>5. EndsGone(k)'
    BY <2>2, <2>3, UnclosedKeeps DEF CauseOK
  <2>6. ends => Ended(k)
    BY <2>3, <2>4 DEF CauseOK, EndsGone, Ended
  <2> QED
    BY <2>2, <2>5, <2>6 DEF CauseOK, Ended
<1>3. CASE SrcSide(k)
  <2>1. UNCHANGED <<app, srv, src, dst, eof>>
    BY <1>3 DEF SrcSide
  <2>2. Unclosed(k)
    <3>1. CASE UNCHANGED pipe
      BY <3>1 DEF Unclosed, SameClosed
    <3>2. ASSUME NEW ends \in BOOLEAN, Copy(k, "A", "M", "up", ends) PROVE Unclosed(k)
      BY <1>0, <3>2, Ways, CopyCloses
    <3> QED
      BY <1>3, <3>1, <3>2 DEF SrcSide
  <2> QED
    BY <2>1, <2>2, UnclosedKeeps DEF CauseOK, Ended
<1>4. CASE DstMain(k)
  <2>1. PICK ends \in BOOLEAN : DstCopy(k, MainDir, ends)
                                /\ dst' = [dst EXCEPT ![k] = IF ends THEN "close" ELSE "relay"]
    BY <1>4 DEF DstMain
  <2>2. dst'[k] = (IF ends THEN "close" ELSE "relay") /\ UNCHANGED <<app, srv, src, eof>>
    BY <1>4, <2>1 DEF DstMain, TypeOK
  <2>3. Unclosed(k) /\ (ends => Ended(k))
    BY <1>0, <1>1, <2>1
  <2>4. EndsGone(k)'
    BY <2>2, <2>3, UnclosedKeeps DEF CauseOK
  <2> QED
    BY <2>2, <2>3, <2>4 DEF CauseOK, Ended
<1>5. CASE DstSide(k)
  <2>1. UNCHANGED <<app, srv, src, dst, eof>>
    BY <1>5 DEF DstSide
  <2>2. Unclosed(k)
    <3>1. CASE UNCHANGED pipe
      BY <3>1 DEF Unclosed, SameClosed
    <3>2. ASSUME NEW ends \in BOOLEAN, DstCopy(k, Opposite(MainDir), ends) PROVE Unclosed(k)
      BY <1>0, <1>1, <3>2
    <3> QED
      BY <1>5, <3>1, <3>2 DEF DstSide
  <2> QED
    BY <2>1, <2>2, UnclosedKeeps DEF CauseOK, Ended
<1> QED
  BY <1>2, <1>3, <1>4, <1>5

LEMMA ReturnsCause ==
    ASSUME TypeOK, NEW k \in Conns, CauseOK(k), SrcReturn(k) \/ DstReturn(k)
    PROVE  CauseOK(k)'
<1>1. CASE SrcReturn(k)
  <2>1. src[k] = "close" /\ src'[k] = "done" /\ UNCHANGED <<app, srv, dst, eof>>
    BY <1>1 DEF SrcReturn, TypeOK
  <2>2. pipe'[k]["A"] \in Closed(pipe[k]["A"], "down") /\ pipe'[k]["T"] = pipe[k]["T"]
    <3>1. pipe'[k] \in SrcCloses(k)
      BY <1>1 DEF SrcReturn, TypeOK
    <3> QED
      BY <3>1, ClosedConn
  <2>3. Shut(k, "A", "down")
    BY <2>2, Ways, CloseHeld
  <2> QED
    BY <2>1, <2>2, <2>3, Ways DEF CauseOK, EndsGone, Ended, Shut
<1>2. CASE DstReturn(k)
  <2>1. dst[k] = "close" /\ dst'[k] = "done" /\ UNCHANGED <<app, srv, src, eof>>
    BY <1>2 DEF DstReturn, TypeOK
  <2>2. pipe'[k]["T"] \in Closed(pipe[k]["T"], "up") /\ pipe'[k]["A"] = pipe[k]["A"]
    <3>1. pipe'[k] \in DstCloses(k)
      BY <1>2 DEF DstReturn, TypeOK
    <3> QED
      BY <3>1, ClosedConn
  <2>3. Shut(k, "T", "up")
    BY <2>2, Ways, CloseHeld
  <2> QED
    BY <2>1, <2>2, <2>3, Ways DEF CauseOK, EndsGone, Ended, Shut
<1> QED
  BY <1>1, <1>2

LEMMA CauseElsewhere ==
    ASSUME NEW c \in Conns, CauseOK(c), Untouched(c)
    PROVE  CauseOK(c)'
BY DEF CauseOK, EndsGone, Ended, Untouched

LEMMA CauseStep ==
    ASSUME TypeOK, RelayInv, CauseInv, Mode # "copy", NEW k \in Conns,
           Environment(k) \/ Readers(k) \/ Src(k) \/ SrcSide(k) \/ Dst(k) \/ DstSide(k)
    PROVE  CauseInv'
<1>1. Good(k) /\ ~SrcPanics(k)
  BY DEF RelayInv, SrcPanics
<1>2. Keeps(k)
  BY <1>1, EveryStep
<1>3. ASSUME k \notin Refusing PROVE CauseOK(k)'
  <2>1. CauseOK(k) /\ ~SrcDialFails(k) /\ k \in Conns \ Refusing
    BY <1>3 DEF CauseInv, SrcDialFails
  <2>2. CASE Environment(k) \/ Readers(k)
    BY <2>1, <2>2, EndsCause
  <2>3. CASE \/ SrcDial(k) \/ SrcWrite(k) \/ SrcWait(k)
             \/ DstRead(k) \/ DstDial(k) \/ DstReply(k)
    <3>1. Quiet(k)
      BY <1>1, <2>3, SrcDialStep, SrcWriteStep, SrcWaitStep, DstReadStep, DstDialStep, DstReplyStep
    <3> QED
      BY <1>1, <2>1, <2>3, <3>1, ShakesCause
  <2>4. CASE SrcMain(k) \/ SrcSide(k) \/ DstMain(k) \/ DstSide(k)
    BY <1>1, <2>1, <2>4, HandlersCause
  <2>5. CASE SrcReturn(k) \/ DstReturn(k)
    BY <2>1, <2>5, ReturnsCause
  <2> QED
    BY <1>1, <2>1, <2>2, <2>3, <2>4, <2>5 DEF Src, Dst
<1> QED
  BY <1>2, <1>3, CauseElsewhere DEF CauseInv, Keeps

LEMMA CauseStarts == Init => CauseInv
<1>1. ASSUME Init, NEW k \in Conns PROVE CauseOK(k)
  <2>1. /\ \A leg \in Legs, dir \in Directions : pipe[k][leg][dir] = Pipe
        /\ ~eof[k]["down"] /\ src[k] = "dial" /\ dst[k] = "none"
    BY <1>1, Ways DEF Init
  <2> QED
    BY <2>1, Ways DEF CauseOK, EndsGone, Pipe
<1> QED
  BY <1>1 DEF CauseInv

\* Where a failed dial does not panic (internalkTLSProxy, and internalProxy over TLS),
\* an application reads the end of a connection only after its own server has closed:
\* neither another connection's failed dial nor anything else a gateway does ends it.
THEOREM EndAlwaysHasCause ==
    ASSUME Mode # "copy"
    PROVE  Spec => []EndHasCause
<1>1. Init => CauseInv
  BY CauseStarts
<1>2. TypeOK /\ RelayInv /\ CauseInv /\ [Next]_vars => CauseInv'
  <2>1. CASE UNCHANGED vars
    <3>1. \A k \in Conns : Untouched(k)
      BY <2>1 DEF vars, Untouched
    <3> QED
      BY <3>1, CauseElsewhere DEF CauseInv
  <2>2. ASSUME TypeOK, RelayInv, CauseInv, Next PROVE CauseInv'
    BY <2>2, CauseStep DEF Next
  <2> QED
    BY <2>1, <2>2
<1>3. CauseInv => EndHasCause
  BY DEF CauseInv, CauseOK, EndHasCause
<1>4. Spec => [](TypeOK /\ RelayInv)
  BY RelayInductive
<1> QED
  BY <1>1, <1>2, <1>3, <1>4, PTL DEF Spec

=============================================================================
