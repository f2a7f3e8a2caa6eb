-------------------------- MODULE ConnectionProofs --------------------------
(***************************************************************************)
(* Proofs about Handshake, for any builds that meet and however the byte   *)
(* streams are cut: the two ends of a connection agree, and what one sends *)
(* is handed up by the other in order.  And about Framing, below it, for   *)
(* any sizes of header, byte and frame: frames come out as they went in.   *)
(*                                                                         *)
(* Chunks are drained by recursive functions.  The induction theorems of   *)
(* the library take a predicate, which no backend can instantiate; what    *)
(* they say of a set of numbers follows from the ordering's being well     *)
(* founded, and is enough.                                                 *)
(***************************************************************************)
EXTENDS Handshake, Framing, TLAPS, SequenceTheorems, WellFoundedInduction

HandshakeSteps == HandshakeInit /\ [][HandshakeNext]_handshakeVars

-----------------------------------------------------------------------------
(* Induction.                                                              *)

\* The natural numbers are well ordered.
LEMMA NatLess == IsWellFoundedOn({p \in Nat \X Nat : p[1] < p[2]}, Nat)
BY NatLessThanWellFounded DEF OpToRel

\* A set that holds 0 and, with a number, the next one, holds them all.
LEMMA CountingUp ==
    ASSUME NEW S, 0 \in S, \A n \in Nat : n \in S => n + 1 \in S
    PROVE  Nat \subseteq S
<1> SUFFICES ASSUME Nat \ S # {} PROVE FALSE
  OBVIOUS
<1>1. PICK x \in Nat \ S : \A y \in Nat \ S : <<y, x>> \notin {p \in Nat \X Nat : p[1] < p[2]}
  BY NatLess, WFMin
<1>2. \A y \in Nat \ S : ~(y < x)
  BY <1>1
<1>3. x - 1 \in Nat /\ x - 1 < x
  BY <1>1
<1> QED
  BY <1>1, <1>2, <1>3

\* f is what draining the first n frames of a chunk gives, one after another.
IsDrained(f, cfg, acc, chunk, n) ==
    f = [i \in 0..n |-> IF i = 0 THEN acc ELSE Drain(cfg, f[i - 1], chunk[i])]

\* The recursion in HandleInput defines something.
LEMMA DrainedExists ==
    ASSUME NEW cfg, NEW acc, NEW chunk, NEW n \in Nat
    PROVE  \E f : IsDrained(f, cfg, acc, chunk, n)
<1> DEFINE S == {k \in Nat : \E f : IsDrained(f, cfg, acc, chunk, k)}
<1>1. 0 \in S
  <2>1. IsDrained([i \in 0..0 |-> acc], cfg, acc, chunk, 0)
    BY DEF IsDrained
  <2> QED
    BY <2>1
<1>2. ASSUME NEW k \in Nat, k \in S PROVE k + 1 \in S
  <2>1. PICK f : IsDrained(f, cfg, acc, chunk, k)
    BY <1>2
  <2>2. f = [i \in 0..k |-> IF i = 0 THEN acc ELSE Drain(cfg, f[i - 1], chunk[i])]
    BY <2>1 DEF IsDrained
  <2> DEFINE g == [i \in 0..k + 1 |-> IF i <= k THEN f[i] ELSE Drain(cfg, f[k], chunk[k + 1])]
  <2>3. \A i \in 0..k + 1 : g[i] = IF i = 0 THEN acc ELSE Drain(cfg, g[i - 1], chunk[i])
    <3> SUFFICES ASSUME NEW i \in 0..k + 1
        PROVE  g[i] = IF i = 0 THEN acc ELSE Drain(cfg, g[i - 1], chunk[i])
      OBVIOUS
    <3>1. CASE i = 0
      BY <2>2, <3>1
    <3>2. CASE i # 0 /\ i <= k
      <4>1. i - 1 \in 0..k /\ i \in 0..k
        BY <3>2
      <4> QED
        BY <2>2, <3>2, <4>1
    <3>3. CASE i = k + 1
      BY <3>3
    <3> QED
      BY <3>1, <3>2, <3>3
  <2>4. IsDrained(g, cfg, acc, chunk, k + 1)
    <3>1. g = [i \in 0..k + 1 |-> g[i]]
      OBVIOUS
    <3> HIDE DEF g
    <3> QED
      BY <2>3, <3>1 DEF IsDrained
  <2> QED
    BY <2>4
<1> HIDE DEF S
<1>3. Nat \subseteq S
  BY <1>1, <1>2, CountingUp
<1> QED
  BY <1>3 DEF S

Fresh(s) == [session |-> s, events |-> <<>>, failed |-> FALSE]

\* f is what handle_input makes of a chunk after each of its frames.
Drains(f, cfg, s, chunk) ==
    /\ f[0] = Fresh(s)
    /\ \A i \in 1..Len(chunk) : f[i] = Drain(cfg, f[i - 1], chunk[i])
    /\ HandleInput(cfg, s, chunk) =
          IF f[Len(chunk)].failed THEN [f[Len(chunk)] EXCEPT !.events = <<>>] ELSE f[Len(chunk)]

\* HandleInput drains the chunk's frames one after another.
LEMMA HandleInputDrains ==
    ASSUME NEW cfg, NEW s, NEW chunk, Len(chunk) \in Nat
    PROVE  \E f : Drains(f, cfg, s, chunk)
<1> DEFINE f == CHOOSE f : IsDrained(f, cfg, Fresh(s), chunk, Len(chunk))
<1>1. IsDrained(f, cfg, Fresh(s), chunk, Len(chunk))
  BY DrainedExists
<1>2. HandleInput(cfg, s, chunk) =
          IF f[Len(chunk)].failed THEN [f[Len(chunk)] EXCEPT !.events = <<>>] ELSE f[Len(chunk)]
  BY DEF HandleInput, IsDrained, Fresh
<1> HIDE DEF f
<1>3. f[0] = Fresh(s) /\ \A i \in 1..Len(chunk) : f[i] = Drain(cfg, f[i - 1], chunk[i])
  BY <1>1 DEF IsDrained
<1> QED
  BY <1>2, <1>3 DEF Drains
-----------------------------------------------------------------------------
(* The inductive invariant.                                                *)

\* All that p has still to read, the other end's output buffer included.
Into(p) == wire[p] \o session[Other(p)].out

(* What a session, of build cp at the end of a stream from build cq, may   *)
(* expect there: the hello and no other, and none after that.              *)
Greeted(cp, cq, sp, stream) ==
    /\ sp.phase = "AwaitingHello" =>
          /\ stream # <<>> /\ stream[1] = HelloOf(cq)
          /\ \A i \in 2..Len(stream) : stream[i].kind # "Hello"
    /\ sp.phase = "Established" =>
          /\ \A i \in 1..Len(stream) : stream[i].kind # "Hello"
          /\ HelloAcceptable(cp, HelloOf(cq)) /\ sp.codec = NegotiateCodec(cp, HelloOf(cq).body)

(* A goodbye on the stream from sq is its last word; and as long as sp has *)
(* not closed, a closed sq has one on its way to it.                       *)
Parting(sp, sq, stream) ==
    /\ \A i \in 1..Len(stream) : stream[i].kind = "Goodbye" => i = Len(stream) /\ sq.phase = "Closed"
    /\ sq.phase = "Closed" /\ sp.phase # "Closed" =>
          stream # <<>> /\ stream[Len(stream)].kind = "Goodbye"

(* Application messages are numbered as they are sent; what was handed up  *)
(* and what is on the stream are all of them, in order.                    *)
Numbered(said) == \A k \in 1..Len(said) : said[k] = Msg("App", k - 1)
Apps(stream) == {i \in 1..Len(stream) : stream[i].kind = "App"}
Handed(sp, up, down, stream) ==
    /\ Len(up) <= Len(down)
    /\ sp.phase # "Closed" =>
          /\ \A i \in Apps(stream) : stream[i].body \in Len(up)..(Len(down) - 1)
          /\ \A i, j \in Apps(stream) : i < j => stream[i].body < stream[j].body
          /\ \A k \in Len(up)..(Len(down) - 1) : \E i \in Apps(stream) : stream[i].body = k

HShape ==
    /\ config \in Pairings /\ sends \in 0..MaxSends
    /\ session = [p \in Peers |-> session[p]] /\ \A p \in Peers : IsSession(session[p], Frames)
    /\ wire \in [Peers -> Seq(Frames)]
    /\ sent \in [Peers -> Seq(Frames)] /\ got \in [Peers -> Seq(Frames)]
    /\ \A p \in Peers : Len(sent[p]) <= sends /\ Numbered(sent[p]) /\ Numbered(got[p])

End(p) ==
    /\ Greeted(config[p], config[Other(p)], session[p], Into(p))
    /\ Parting(session[p], session[Other(p)], Into(p))
    /\ Handed(session[p], got[p], sent[Other(p)], Into(p))

HInv == HShape /\ \A p \in Peers : End(p)
-----------------------------------------------------------------------------
(* Frames and streams.                                                     *)

\* What a frame is, by its kind.
LEMMA FrameFacts ==
    /\ Goodbye \in Frames /\ Ping \in Frames /\ Pong \in Frames
    /\ Goodbye.kind = "Goodbye" /\ Ping.kind = "Ping" /\ Pong.kind = "Pong"
    /\ \A m \in Frames : m.kind = "App" => m.body \in 0..(MaxSends - 1) /\ m = Msg("App", m.body)
    /\ \A c \in Pairings, p \in Peers : HelloOf(c[p]) \in Frames /\ HelloOf(c[p]).kind = "Hello"
    /\ \A i \in 0..(MaxSends - 1) : Msg("App", i) \in Frames /\ Msg("App", i).kind = "App"
<1>1. \A kind, body : Msg(kind, body).kind = kind /\ Msg(kind, body).body = body
  BY DEF Msg
<1>2. Goodbye.kind = "Goodbye" /\ Ping.kind = "Ping" /\ Pong.kind = "Pong"
  BY <1>1 DEF Goodbye, Ping, Pong
<1>3. \A c : HelloOf(c).kind = "Hello"
  BY <1>1 DEF HelloOf
<1>4. ASSUME NEW m \in Frames, m.kind = "App"
      PROVE  m.body \in 0..(MaxSends - 1) /\ m = Msg("App", m.body)
  <2>1. m \notin {Goodbye, Ping, Pong}
    BY <1>2, <1>4
  <2>2. m \notin {HelloOf(c[p]) : c \in Pairings, p \in Peers}
    BY <1>3, <1>4
  <2>3. m \in {Msg("App", i) : i \in 0..(MaxSends - 1)}
    BY <2>1, <2>2 DEF Frames
  <2> QED
    BY <1>1, <2>3
<1> QED
  BY <1>1, <1>2, <1>3, <1>4 DEF Frames

\* Who is at the other end.
LEMMA PeerFacts ==
    \A p \in Peers : Other(p) \in Peers /\ Other(p) # p /\ Other(Other(p)) = p
                        /\ \A q \in Peers : q = p \/ q = Other(p)
BY DEF Peers, Other

\* A stream with one more frame on it.
LEMMA Longer ==
    ASSUME NEW stream \in Seq(Frames), NEW m \in Frames
    PROVE  LET longer == Append(stream, m) IN
           /\ longer \in Seq(Frames) /\ longer # <<>> /\ Len(longer) = Len(stream) + 1
           /\ Len(stream) \in Nat /\ (stream # <<>> => Len(stream) > 0)
           /\ \A i \in 1..Len(stream) : longer[i] = stream[i]
           /\ longer[Len(stream) + 1] = m
<1>1. Len(stream) \in Nat /\ (stream # <<>> => Len(stream) > 0)
  BY EmptySeq, LenProperties
<1> QED
  BY <1>1, AppendProperties

\* What is said after the hello greets nobody anew.
LEMMA GreetedLonger ==
    ASSUME NEW stream \in Seq(Frames), NEW m \in Frames, m.kind # "Hello",
           NEW cp, NEW cq, NEW sp, Greeted(cp, cq, sp, stream)
    PROVE  Greeted(cp, cq, sp, Append(stream, m))
<1> DEFINE longer == Append(stream, m)
<1>1. /\ longer # <<>> /\ Len(longer) = Len(stream) + 1 /\ Len(stream) \in Nat
      /\ (stream # <<>> => Len(stream) > 0)
      /\ \A i \in 1..Len(stream) : longer[i] = stream[i]
      /\ longer[Len(stream) + 1] = m
  BY Longer
<1> HIDE DEF longer
<1>2. \A i \in 1..Len(longer) : i \in 1..Len(stream) \/ i = Len(stream) + 1
  BY <1>1
<1>3. CASE sp.phase = "AwaitingHello"
  <2>1. /\ stream # <<>> /\ stream[1] = HelloOf(cq)
        /\ \A i \in 2..Len(stream) : stream[i].kind # "Hello"
    BY <1>3 DEF Greeted
  <2>2. longer[1] = HelloOf(cq)
    BY <1>1, <2>1
  <2>3. \A i \in 2..Len(longer) : longer[i].kind # "Hello"
    BY <1>1, <1>2, <2>1
  <2> QED
    BY <1>1, <1>3, <2>2, <2>3 DEF Greeted, longer
<1>4. CASE sp.phase = "Established"
  <2>1. \A i \in 1..Len(longer) : longer[i].kind # "Hello"
    BY <1>1, <1>2, <1>4 DEF Greeted
  <2> QED
    BY <1>4, <2>1 DEF Greeted, longer
<1> QED
  BY <1>3, <1>4 DEF Greeted

\* A session that has not closed says something, with or without closing.
LEMMA PartingLonger ==
    ASSUME NEW stream \in Seq(Frames), NEW m \in Frames, NEW sp, NEW sq, NEW sq2,
           Parting(sp, sq, stream), sq.phase # "Closed",
           m.kind = "Goodbye" <=> sq2.phase = "Closed"
    PROVE  Parting(sp, sq2, Append(stream, m))
<1> DEFINE longer == Append(stream, m)
<1>1. /\ longer # <<>> /\ Len(longer) = Len(stream) + 1 /\ Len(stream) \in Nat
      /\ \A i \in 1..Len(stream) : longer[i] = stream[i]
      /\ longer[Len(stream) + 1] = m
  BY Longer
<1> HIDE DEF longer
<1>2. \A i \in 1..Len(longer) : i \in 1..Len(stream) \/ i = Len(stream) + 1
  BY <1>1
<1>3. \A i \in 1..Len(stream) : stream[i].kind # "Goodbye"
  BY DEF Parting
<1>4. \A i \in 1..Len(longer) : longer[i].kind = "Goodbye" => i = Len(longer) /\ sq2.phase = "Closed"
  BY <1>1, <1>2, <1>3
<1> QED
  BY <1>1, <1>4 DEF Parting, longer

\* A session that closes as it is told goodbye says none.
LEMMA PartingSilently ==
    ASSUME NEW stream, NEW sp, NEW sq, NEW sq2,
           Parting(sp, sq, stream), sq.phase # "Closed", sq2.phase # "Closed" \/ sp.phase = "Closed"
    PROVE  Parting(sp, sq2, stream)
BY DEF Parting

\* What is not an application message does not disturb their order.
LEMMA HandedLonger ==
    ASSUME NEW stream \in Seq(Frames), NEW m \in Frames, m.kind # "App",
           NEW sp, NEW up, NEW down, Handed(sp, up, down, stream)
    PROVE  Handed(sp, up, down, Append(stream, m))
<1> DEFINE longer == Append(stream, m)
<1>1. /\ Len(longer) = Len(stream) + 1 /\ Len(stream) \in Nat
      /\ \A i \in 1..Len(stream) : longer[i] = stream[i]
      /\ longer[Len(stream) + 1] = m
  BY Longer
<1> HIDE DEF longer
<1>2. Apps(longer) = Apps(stream)
  BY <1>1 DEF Apps
<1>3. \A i \in Apps(stream) : longer[i] = stream[i]
  BY <1>1 DEF Apps
<1> QED
  BY <1>2, <1>3 DEF Handed, longer

\* An application message is numbered as it is sent.
LEMMA HandedSends ==
    ASSUME NEW stream \in Seq(Frames), NEW sp, NEW up \in Seq(Frames), NEW down \in Seq(Frames),
           NEW m \in Frames, m = Msg("App", Len(down)), Handed(sp, up, down, stream), Numbered(down)
    PROVE  Handed(sp, up, Append(down, m), Append(stream, m)) /\ Numbered(Append(down, m))
<1> DEFINE longer == Append(stream, m)
           deeper == Append(down, m)
<1>1. /\ Len(longer) = Len(stream) + 1 /\ Len(stream) \in Nat
      /\ \A i \in 1..Len(stream) : longer[i] = stream[i]
      /\ longer[Len(stream) + 1] = m
  BY Longer
<1>2. /\ Len(deeper) = Len(down) + 1 /\ Len(down) \in Nat /\ Len(up) \in Nat
      /\ \A i \in 1..Len(down) : deeper[i] = down[i]
      /\ deeper[Len(down) + 1] = m
  BY Longer, LenProperties
<1> HIDE DEF longer, deeper
<1>3. m.kind = "App" /\ m.body = Len(down)
  BY DEF Msg
<1>4. Apps(longer) = Apps(stream) \cup {Len(stream) + 1}
  BY <1>1, <1>3 DEF Apps
<1>5. \A i \in Apps(stream) : longer[i] = stream[i] /\ i \in 1..Len(stream)
  BY <1>1 DEF Apps
<1>6. Numbered(deeper)
  <2> SUFFICES ASSUME NEW k \in 1..Len(deeper) PROVE deeper[k] = Msg("App", k - 1)
    BY DEF Numbered
  <2>1. CASE k \in 1..Len(down)
    BY <1>2, <2>1 DEF Numbered
  <2>2. CASE k = Len(down) + 1
    BY <1>2, <2>2
  <2> QED
    BY <1>2, <2>1, <2>2
<1>7. Len(up) <= Len(deeper)
  BY <1>2 DEF Handed
<1>8. ASSUME sp.phase # "Closed"
      PROVE  /\ \A i \in Apps(longer) : longer[i].body \in Len(up)..(Len(deeper) - 1)
             /\ \A i, j \in Apps(longer) : i < j => longer[i].body < longer[j].body
             /\ \A k \in Len(up)..(Len(deeper) - 1) : \E i \in Apps(longer) : longer[i].body = k
  <2>1. /\ \A i \in Apps(stream) : stream[i].body \in Len(up)..(Len(down) - 1)
        /\ \A i, j \in Apps(stream) : i < j => stream[i].body < stream[j].body
        /\ \A k \in Len(up)..(Len(down) - 1) : \E i \in Apps(stream) : stream[i].body = k
        /\ Len(up) <= Len(down)
    BY <1>8 DEF Handed
  <2>2. \A i \in Apps(longer) : longer[i].body \in Len(up)..(Len(deeper) - 1)
    BY <1>1, <1>2, <1>3, <1>4, <1>5, <2>1
  <2>3. ASSUME NEW i \in Apps(longer), NEW j \in Apps(longer), i < j
        PROVE  longer[i].body < longer[j].body
    <3>1. i \in Apps(stream)
      BY <1>1, <1>4, <1>5, <2>3
    <3>2. longer[i].body = stream[i].body /\ longer[i].body \in Len(up)..(Len(down) - 1)
      BY <1>5, <2>1, <3>1
    <3>3. CASE j \in Apps(stream)
      <4>1. stream[i].body < stream[j].body
        BY <2>1, <2>3, <3>1, <3>3
      <4> QED
        BY <1>5, <3>2, <3>3, <4>1
    <3>4. CASE j = Len(stream) + 1
      <4>1. longer[j].body = Len(down)
        BY <1>1, <1>3, <3>4
      <4> QED
        BY <1>2, <3>2, <4>1
    <3> QED
      BY <1>4, <3>3, <3>4
  <2>4. \A k \in Len(up)..(Len(deeper) - 1) : \E i \in Apps(longer) : longer[i].body = k
    <3> SUFFICES ASSUME NEW k \in Len(up)..(Len(deeper) - 1) PROVE \E i \in Apps(longer) : longer[i].body = k
      OBVIOUS
    <3>1. CASE k = Len(down)
      BY <1>1, <1>3, <1>4, <3>1
    <3>2. CASE k # Len(down)
      <4>1. k \in Len(up)..(Len(down) - 1)
        BY <1>2, <3>2
      <4> QED
        BY <1>4, <1>5, <2>1, <4>1
    <3> QED
      BY <3>1, <3>2
  <2> QED
    BY <2>2, <2>3, <2>4
<1> QED
  BY <1>6, <1>7, <1>8 DEF Handed, longer, deeper

(* What is left of a stream once its first frame is read.                  *)
IsRest(rest, stream) ==
    /\ rest \in Seq(Frames) /\ stream \in Seq(Frames) /\ Len(stream) = Len(rest) + 1
    /\ \A i \in 1..Len(rest) : rest[i] = stream[i + 1]

\* A session that has closed expects nothing of what is left.
LEMMA RestOfClosed ==
    ASSUME NEW stream, NEW rest, IsRest(rest, stream), NEW cp, NEW cq, NEW sp, NEW sp2, NEW sq,
           NEW up, NEW down, sp2.phase = "Closed",
           Parting(sp, sq, stream), Len(up) <= Len(down)
    PROVE  Greeted(cp, cq, sp2, rest) /\ Parting(sp2, sq, rest) /\ Handed(sp2, up, down, rest)
<1>1. Len(rest) \in Nat
  BY LenProperties DEF IsRest
<1>2. \A i \in 1..Len(rest) : rest[i].kind = "Goodbye" => i = Len(rest) /\ sq.phase = "Closed"
  <2> SUFFICES ASSUME NEW i \in 1..Len(rest), rest[i].kind = "Goodbye"
      PROVE  i = Len(rest) /\ sq.phase = "Closed"
    OBVIOUS
  <2>1. i + 1 \in 1..Len(stream) /\ stream[i + 1].kind = "Goodbye"
    BY <1>1 DEF IsRest
  <2> QED
    BY <1>1, <2>1 DEF Parting, IsRest
<1> QED
  BY <1>2 DEF Greeted, Parting, Handed

\* A session that goes on once it has read a hello, or a frame after it that
\* was no goodbye.
LEMMA RestOfOpen ==
    ASSUME NEW stream, NEW rest, IsRest(rest, stream), NEW cp, NEW cq, NEW sp, NEW sp2, NEW sq,
           sp.phase \in {"AwaitingHello", "Established"}, sp2.phase = "Established",
           HelloAcceptable(cp, HelloOf(cq)), sp2.codec = NegotiateCodec(cp, HelloOf(cq).body),
           stream[1].kind # "Goodbye",
           Parting(sp, sq, stream), Greeted(cp, cq, sp, stream)
    PROVE  Greeted(cp, cq, sp2, rest) /\ Parting(sp2, sq, rest)
<1>1. Len(rest) \in Nat
  BY LenProperties DEF IsRest
<1>2. \A i \in 1..Len(rest) : i + 1 \in 2..Len(stream) /\ i + 1 \in 1..Len(stream) /\ rest[i] = stream[i + 1]
  BY <1>1 DEF IsRest
<1>3. \A i \in 1..Len(rest) : rest[i].kind # "Hello"
  BY <1>2 DEF Greeted
<1>4. \A i \in 1..Len(rest) : rest[i].kind = "Goodbye" => i = Len(rest) /\ sq.phase = "Closed"
  <2> SUFFICES ASSUME NEW i \in 1..Len(rest), rest[i].kind = "Goodbye"
      PROVE  i = Len(rest) /\ sq.phase = "Closed"
    OBVIOUS
  <2>1. i + 1 = Len(stream) /\ sq.phase = "Closed"
    BY <1>2 DEF Parting
  <2> QED
    BY <1>1, <2>1 DEF IsRest
<1>5. ASSUME sq.phase = "Closed" PROVE rest # <<>> /\ rest[Len(rest)].kind = "Goodbye"
  <2>1. stream[Len(stream)].kind = "Goodbye"
    BY <1>5 DEF Parting
  <2>2. Len(stream) # 1 /\ Len(stream) = Len(rest) + 1
    BY <2>1 DEF IsRest
  <2>3. Len(rest) \in 1..Len(rest)
    BY <1>1, <2>2
  <2>4. rest # <<>>
    <3>1. Len(<<>>) = 0
      OBVIOUS
    <3> QED
      BY <2>3, <3>1
  <2> QED
    BY <1>2, <2>1, <2>2, <2>3, <2>4
<1> QED
  BY <1>3, <1>4, <1>5 DEF Greeted, Parting

\* The application messages that are left, after a frame of another kind.
LEMMA HandedSkips ==
    ASSUME NEW stream, NEW rest, IsRest(rest, stream), NEW sp, NEW sp2, NEW up, NEW down,
           stream[1].kind # "App", sp.phase # "Closed", Handed(sp, up, down, stream)
    PROVE  Handed(sp2, up, down, rest)
<1>1. Len(rest) \in Nat
  BY LenProperties DEF IsRest
<1>2. \A i \in Apps(rest) : i + 1 \in Apps(stream) /\ stream[i + 1] = rest[i] /\ i \in Nat
  BY <1>1 DEF Apps, IsRest
<1>3. \A j \in Apps(stream) : j - 1 \in Apps(rest) /\ rest[j - 1] = stream[j]
  <2> SUFFICES ASSUME NEW j \in Apps(stream) PROVE j - 1 \in Apps(rest) /\ rest[j - 1] = stream[j]
    OBVIOUS
  <2>1. j # 1 /\ j \in 1..Len(stream) /\ stream[j].kind = "App"
    BY DEF Apps
  <2>2. j - 1 \in 1..Len(rest) /\ (j - 1) + 1 = j
    BY <1>1, <2>1 DEF IsRest
  <2>3. rest[j - 1] = stream[j]
    BY <2>2 DEF IsRest
  <2> QED
    BY <2>1, <2>2, <2>3 DEF Apps
<1>4. /\ Len(up) <= Len(down)
      /\ \A i \in Apps(stream) : stream[i].body \in Len(up)..(Len(down) - 1)
      /\ \A i, j \in Apps(stream) : i < j => stream[i].body < stream[j].body
      /\ \A k \in Len(up)..(Len(down) - 1) : \E i \in Apps(stream) : stream[i].body = k
  BY DEF Handed
<1>5. \A i \in Apps(rest) : rest[i].body \in Len(up)..(Len(down) - 1)
  BY <1>2, <1>4
<1>6. \A i, j \in Apps(rest) : i < j => rest[i].body < rest[j].body
  <2> SUFFICES ASSUME NEW i \in Apps(rest), NEW j \in Apps(rest), i < j
      PROVE  rest[i].body < rest[j].body
    OBVIOUS
  <2>1. i + 1 < j + 1
    BY <1>2
  <2> QED
    BY <1>2, <1>4, <2>1
<1>7. \A k \in Len(up)..(Len(down) - 1) : \E i \in Apps(rest) : rest[i].body = k
  <2> SUFFICES ASSUME NEW k \in Len(up)..(Len(down) - 1) PROVE \E i \in Apps(rest) : rest[i].body = k
    OBVIOUS
  <2>1. PICK j \in Apps(stream) : stream[j].body = k
    BY <1>4
  <2> QED
    BY <1>3, <2>1
<1> QED
  BY <1>4, <1>5, <1>6, <1>7 DEF Handed

\* The next application message is the one that is due.
LEMMA HandedNext ==
    ASSUME NEW stream, NEW rest, IsRest(rest, stream), NEW sp, NEW sp2,
           NEW up \in Seq(Frames), NEW down \in Seq(Frames),
           stream[1].kind = "App", sp.phase # "Closed", Handed(sp, up, down, stream), Numbered(up)
    PROVE  /\ Handed(sp2, Append(up, stream[1]), down, rest) /\ Numbered(Append(up, stream[1]))
           /\ Len(up) < Len(down)
<1> DEFINE m == stream[1]
           more == Append(up, m)
<1>1. Len(rest) \in Nat /\ Len(up) \in Nat /\ Len(down) \in Nat
  BY LenProperties DEF IsRest
<1>2. 1 \in Apps(stream) /\ m \in Frames
  <2>1. 1 \in 1..Len(stream)
    BY <1>1 DEF IsRest
  <2> QED
    BY <2>1, ElementOfSeq DEF Apps, IsRest
<1>3. /\ Len(up) <= Len(down)
      /\ \A i \in Apps(stream) : stream[i].body \in Len(up)..(Len(down) - 1)
      /\ \A i, j \in Apps(stream) : i < j => stream[i].body < stream[j].body
      /\ \A k \in Len(up)..(Len(down) - 1) : \E i \in Apps(stream) : stream[i].body = k
  BY DEF Handed
<1>4. m.body = Len(up) /\ Len(up) < Len(down)
  <2>1. m.body \in Len(up)..(Len(down) - 1)
    BY <1>2, <1>3
  <2>2. Len(up) \in Len(up)..(Len(down) - 1)
    BY <1>1, <2>1
  <2>3. PICK i \in Apps(stream) : stream[i].body = Len(up)
    BY <1>3, <2>2
  <2>4. i \in 1..Len(stream)
    BY DEF Apps
  <2>5. ~(1 < i)
    BY <1>1, <1>2, <1>3, <2>1, <2>3
  <2>6. i = 1
    BY <2>4, <2>5
  <2> QED
    BY <1>1, <2>1, <2>3, <2>6
<1>5. m = Msg("App", Len(up))
  BY <1>2, <1>4, FrameFacts
<1>6. /\ Len(more) = Len(up) + 1 /\ \A i \in 1..Len(up) : more[i] = up[i]
      /\ more[Len(up) + 1] = m
  BY <1>2, Longer
<1> HIDE DEF more, m
<1>7. Numbered(more)
  <2> SUFFICES ASSUME NEW k \in 1..Len(more) PROVE more[k] = Msg("App", k - 1)
    BY DEF Numbered
  <2>1. CASE k \in 1..Len(up)
    BY <1>6, <2>1 DEF Numbered
  <2>2. CASE k = Len(up) + 1
    BY <1>1, <1>5, <1>6, <2>2
  <2> QED
    BY <1>1, <1>6, <2>1, <2>2
<1>8. \A i \in Apps(rest) : i + 1 \in Apps(stream) /\ stream[i + 1] = rest[i] /\ i \in Nat /\ 1 < i + 1
  BY <1>1 DEF Apps, IsRest
<1>9. \A j \in Apps(stream) : j # 1 => j - 1 \in Apps(rest) /\ rest[j - 1] = stream[j]
  <2> SUFFICES ASSUME NEW j \in Apps(stream), j # 1 PROVE j - 1 \in Apps(rest) /\ rest[j - 1] = stream[j]
    OBVIOUS
  <2>1. j \in 1..Len(stream) /\ stream[j].kind = "App"
    BY DEF Apps
  <2>2. j - 1 \in 1..Len(rest) /\ (j - 1) + 1 = j
    BY <1>1, <2>1 DEF IsRest
  <2>3. rest[j - 1] = stream[j]
    BY <2>2 DEF IsRest
  <2> QED
    BY <2>1, <2>2, <2>3 DEF Apps
<1>10. \A i \in Apps(rest) : rest[i].body \in Len(more)..(Len(down) - 1)
  <2> SUFFICES ASSUME NEW i \in Apps(rest) PROVE rest[i].body \in Len(more)..(Len(down) - 1)
    OBVIOUS
  <2>1. rest[i].body \in Len(up)..(Len(down) - 1) /\ m.body < rest[i].body
    BY <1>2, <1>3, <1>8 DEF m
  <2> QED
    BY <1>1, <1>4, <1>6, <2>1
<1>11. \A i, j \in Apps(rest) : i < j => rest[i].body < rest[j].body
  <2> SUFFICES ASSUME NEW i \in Apps(rest), NEW j \in Apps(rest), i < j
      PROVE  rest[i].body < rest[j].body
    OBVIOUS
  <2>1. i + 1 < j + 1
    BY <1>8
  <2> QED
    BY <1>3, <1>8, <2>1, SMTT(40)
<1>12. \A k \in Len(more)..(Len(down) - 1) : \E i \in Apps(rest) : rest[i].body = k
  <2> SUFFICES ASSUME NEW k \in Len(more)..(Len(down) - 1) PROVE \E i \in Apps(rest) : rest[i].body = k
    OBVIOUS
  <2>1. k \in Len(up)..(Len(down) - 1) /\ k # Len(up)
    BY <1>1, <1>6
  <2>2. PICK j \in Apps(stream) : stream[j].body = k
    BY <1>3, <2>1
  <2>3. j # 1
    BY <1>4, <2>1, <2>2 DEF m
  <2> QED
    BY <1>9, <2>2, <2>3
<1>13. Len(more) <= Len(down)
  BY <1>1, <1>4, <1>6
<1> QED
  BY <1>4, <1>7, <1>10, <1>11, <1>12, <1>13 DEF Handed, more, m
-----------------------------------------------------------------------------
(* One frame through handle_input.                                         *)

\* What is said to the other end of p, were s the session of p.
Back(p, s) ==
    LET stream == wire[Other(p)] \o s.out IN
    /\ Greeted(config[Other(p)], config[p], session[Other(p)], stream)
    /\ Parting(session[Other(p)], s, stream)
    /\ Handed(session[Other(p)], got[Other(p)], sent[p], stream)

\* The invariant midway through a chunk: acc is what p has made of it, and
\* stream what it has still to read.
Linked(p, acc, stream) ==
    /\ acc = [session |-> acc.session, events |-> acc.events, failed |-> acc.failed]
    /\ IsSession(acc.session, Frames) /\ acc.events \in Seq(Frames) /\ acc.failed \in BOOLEAN
    /\ acc.failed => acc.session.phase = "Closed"
    /\ Greeted(config[p], config[Other(p)], acc.session, stream)
    /\ Parting(acc.session, session[Other(p)], stream)
    /\ Handed(acc.session, got[p] \o acc.events, sent[Other(p)], stream)
    /\ Numbered(got[p] \o acc.events)
    /\ Back(p, acc.session)

\* Saying one thing more lengthens all there is to read.
LEMMA SaysOneMore ==
    ASSUME NEW w \in Seq(Frames), NEW out \in Seq(Frames), NEW m \in Frames
    PROVE  w \o Append(out, m) = Append(w \o out, m) /\ w \o out \in Seq(Frames)
<1> DEFINE left == w \o Append(out, m)
           right == Append(w \o out, m)
<1>1. /\ w \o out \in Seq(Frames) /\ Len(w \o out) = Len(w) + Len(out)
      /\ \A i \in 1..(Len(w) + Len(out)) :
            (w \o out)[i] = IF i <= Len(w) THEN w[i] ELSE out[i - Len(w)]
  BY ConcatProperties
<1>2. /\ Append(out, m) \in Seq(Frames) /\ Len(Append(out, m)) = Len(out) + 1
      /\ Append(out, m)[Len(out) + 1] = m /\ \A i \in 1..Len(out) : Append(out, m)[i] = out[i]
  BY Longer
<1>3. /\ left \in Seq(Frames) /\ Len(left) = Len(w) + Len(Append(out, m))
      /\ \A i \in 1..(Len(w) + Len(Append(out, m))) :
            left[i] = IF i <= Len(w) THEN w[i] ELSE Append(out, m)[i - Len(w)]
  BY <1>2, ConcatProperties
<1>4. /\ right \in Seq(Frames) /\ Len(right) = Len(w \o out) + 1
      /\ right[Len(w \o out) + 1] = m /\ \A i \in 1..Len(w \o out) : right[i] = (w \o out)[i]
  BY <1>1, Longer
<1>5. Len(w) \in Nat /\ Len(out) \in Nat
  BY LenProperties
<1> HIDE DEF left, right
<1>6. Len(left) = Len(right)
  BY <1>1, <1>2, <1>3, <1>4, <1>5
<1>7. ASSUME NEW i \in 1..Len(left) PROVE left[i] = right[i]
  <2>1. CASE i <= Len(w)
    <3>1. left[i] = w[i]
      <4>1. i \in 1..(Len(w) + Len(Append(out, m)))
        BY <1>3
      <4> QED
        BY <1>3, <2>1, <4>1
    <3>2. i \in 1..(Len(w) + Len(out))
      BY <1>2, <1>3, <1>5, <2>1
    <3>3. (w \o out)[i] = w[i] /\ i \in 1..Len(w \o out)
      BY <1>1, <1>5, <2>1, <3>2
    <3> QED
      BY <1>4, <3>1, <3>3
  <2>2. CASE Len(w) < i /\ i <= Len(w) + Len(out)
    <3>1. i - Len(w) \in 1..Len(out)
      BY <1>5, <2>2
    <3>2. left[i] = Append(out, m)[i - Len(w)]
      <4>1. i \in 1..(Len(w) + Len(Append(out, m))) /\ ~(i <= Len(w))
        BY <1>3, <1>5, <2>2
      <4> QED
        BY <1>3, <4>1
    <3>3. i \in 1..Len(w \o out) /\ (w \o out)[i] = out[i - Len(w)]
      BY <1>1, <1>5, <2>2
    <3> QED
      BY <1>2, <1>4, <3>1, <3>2, <3>3
  <2>3. CASE i = Len(w) + Len(out) + 1
    <3>1. left[i] = Append(out, m)[Len(out) + 1]
      <4>1. ~(i <= Len(w)) /\ i - Len(w) = Len(out) + 1
        BY <1>5, <2>3
      <4> QED
        BY <1>3, <4>1
    <3> QED
      BY <1>1, <1>2, <1>4, <2>3, <3>1
  <2> QED
    BY <1>2, <1>3, <1>5, <2>1, <2>2, <2>3
<1>8. left = right
  BY <1>3, <1>4, <1>6, <1>7, SeqEqual
<1> QED
  BY <1>1, <1>8 DEF left, right

\* What p says more is no greeting and no application message.
LEMMA BackSays ==
    ASSUME HShape, NEW p \in Peers, NEW s, NEW s2, NEW m \in Frames, s.out \in Seq(Frames),
           s2.out = Append(s.out, m), m.kind \notin {"Hello", "App"},
           s.phase # "Closed", m.kind = "Goodbye" <=> s2.phase = "Closed", Back(p, s)
    PROVE  Back(p, s2)
<1> DEFINE w == wire[Other(p)]
           stream == w \o s.out
<1>1. w \in Seq(Frames)
  BY PeerFacts DEF HShape
<1>2. w \o s2.out = Append(stream, m) /\ stream \in Seq(Frames)
  BY <1>1, SaysOneMore, ZenonT(40)
<1>3. /\ Greeted(config[Other(p)], config[p], session[Other(p)], stream)
      /\ Parting(session[Other(p)], s, stream)
      /\ Handed(session[Other(p)], got[Other(p)], sent[p], stream)
  BY DEF Back
<1> HIDE DEF stream
<1>4. Greeted(config[Other(p)], config[p], session[Other(p)], Append(stream, m))
  BY <1>2, <1>3, GreetedLonger
<1>5. Parting(session[Other(p)], s2, Append(stream, m))
  BY <1>2, <1>3, PartingLonger
<1>6. Handed(session[Other(p)], got[Other(p)], sent[p], Append(stream, m))
  BY <1>2, <1>3, HandedLonger
<1> QED
  BY <1>2, <1>4, <1>5, <1>6 DEF Back, w

\* p says nothing, and closes only when the other end has closed.
LEMMA BackSilent ==
    ASSUME NEW p \in Peers, NEW s, NEW s2, s2.out = s.out, s.phase # "Closed",
           s2.phase # "Closed" \/ session[Other(p)].phase = "Closed", Back(p, s)
    PROVE  Back(p, s2)
BY PartingSilently DEF Back

\* What one frame makes of a session that has not closed.
LEMMA DrainCases ==
    ASSUME NEW cfg, NEW s, NEW e, NEW m, IsSession(s, Frames),
           NEW r, r = Drain(cfg, [session |-> s, events |-> e, failed |-> FALSE], m)
    PROVE  /\ s.phase = "AwaitingHello" /\ HelloAcceptable(cfg, m) =>
                r = [session |-> [phase |-> "Established", codec |-> NegotiateCodec(cfg, m.body),
                                  out |-> s.out], events |-> e, failed |-> FALSE]
           /\ s.phase = "AwaitingHello" /\ ~HelloAcceptable(cfg, m) =>
                r = [session |-> [phase |-> "Closed", codec |-> s.codec,
                                  out |-> Append(s.out, Goodbye)], events |-> e, failed |-> TRUE]
           /\ s.phase = "Established" /\ m.kind = "Goodbye" =>
                r = [session |-> [phase |-> "Closed", codec |-> s.codec, out |-> s.out],
                     events |-> e, failed |-> FALSE]
           /\ s.phase = "Established" /\ m.kind = "Ping" =>
                r = [session |-> [phase |-> "Established", codec |-> s.codec,
                                  out |-> Append(s.out, Pong)], events |-> e, failed |-> FALSE]
           /\ s.phase = "Established" /\ m.kind \notin {"Hello", "Goodbye", "Ping"} =>
                r = [session |-> s, events |-> IF m.kind = "App" THEN Append(e, m) ELSE e,
                     failed |-> FALSE]
<1> DEFINE acc == [session |-> s, events |-> e, failed |-> FALSE]
           o == Receive(cfg, s, m)
<1>1. PICK a, b, c : s = [phase |-> a, codec |-> b, out |-> c]
  BY DEF IsSession
<1>2. s.phase # "Closed" =>
         Drain(cfg, acc, m) = [session |-> o.session,
                               events |-> IF o.event.kind = "App" THEN Append(e, o.event) ELSE e,
                               failed |-> o.failed]
  BY DEF Drain
<1>3. EstablishedEvent.kind # "App" /\ ClosedEvent.kind # "App" /\ NoEvent.kind # "App"
  BY DEF EstablishedEvent, ClosedEvent, NoEvent, Msg
<1>4. /\ \A x, y : [s EXCEPT !.phase = x, !.codec = y] = [phase |-> x, codec |-> y, out |-> s.out]
      /\ \A x : [s EXCEPT !.phase = x] = [phase |-> x, codec |-> s.codec, out |-> s.out]
      /\ \A x : Queue(s, x) = [phase |-> s.phase, codec |-> s.codec, out |-> Append(s.out, x)]
  <2>1. ASSUME NEW x, NEW y
        PROVE  [s EXCEPT !.phase = x, !.codec = y] = [phase |-> x, codec |-> y, out |-> s.out]
    <3>1. [s EXCEPT !.phase = x] = [phase |-> x, codec |-> b, out |-> c] /\ s.out = c
      BY <1>1
    <3>2. [[phase |-> x, codec |-> b, out |-> c] EXCEPT !.codec = y] = [phase |-> x, codec |-> y, out |-> c]
      OBVIOUS
    <3>3. [s EXCEPT !.phase = x, !.codec = y] = [[s EXCEPT !.phase = x] EXCEPT !.codec = y]
      OBVIOUS
    <3> QED
      BY <3>1, <3>2, <3>3
  <2>2. \A x : [s EXCEPT !.phase = x] = [phase |-> x, codec |-> s.codec, out |-> s.out]
    BY <1>1
  <2>3. \A x : [s EXCEPT !.out = x] = [phase |-> s.phase, codec |-> s.codec, out |-> x]
    BY <1>1
  <2> QED
    BY <2>1, <2>2, <2>3, Zenon DEF Queue
<1>5. s.phase # "Closed" =>
         CloseSession(s) = [phase |-> "Closed", codec |-> s.codec, out |-> Append(s.out, Goodbye)]
  <2>1. s.phase # "Closed" => CloseSession(s) = [Queue(s, Goodbye) EXCEPT !.phase = "Closed"]
    BY DEF CloseSession
  <2>2. Queue(s, Goodbye) = [phase |-> s.phase, codec |-> s.codec, out |-> Append(s.out, Goodbye)]
    BY <1>4
  <2> QED
    BY <2>1, <2>2
<1>6. s.phase = "AwaitingHello" => o = HandleHello(cfg, s, m)
  BY DEF Receive
<1>7. s.phase = "Established" => o = CASE m.kind = "Hello"   -> Outcome(CloseSession(s), NoEvent, TRUE)
             [] m.kind = "Goodbye" -> Outcome([s EXCEPT !.phase = "Closed"], ClosedEvent, FALSE)
             [] m.kind = "Ping"    -> Outcome(Queue(s, Pong), NoEvent, FALSE)
             [] OTHER              -> Outcome(s, m, FALSE)
  BY DEF Receive
<1> HIDE DEF o, acc
<1>9. ASSUME s.phase = "AwaitingHello", HelloAcceptable(cfg, m)
      PROVE  Drain(cfg, acc, m) = [session |-> [phase |-> "Established", codec |-> NegotiateCodec(cfg, m.body),
                                  out |-> s.out], events |-> e, failed |-> FALSE]
  <2>1. o = Outcome([phase |-> "Established", codec |-> NegotiateCodec(cfg, m.body), out |-> s.out],
                    EstablishedEvent, FALSE)
    BY <1>4, <1>6, <1>9 DEF HandleHello
  <2>2. /\ o.session = [phase |-> "Established", codec |-> NegotiateCodec(cfg, m.body), out |-> s.out]
        /\ o.event = EstablishedEvent /\ o.failed = FALSE
    BY <2>1 DEF Outcome
  <2> QED
    BY <1>2, <1>3, <1>9, <2>2
<1>10. ASSUME s.phase = "AwaitingHello", ~HelloAcceptable(cfg, m)
       PROVE  Drain(cfg, acc, m) = [session |-> [phase |-> "Closed", codec |-> s.codec,
                                  out |-> Append(s.out, Goodbye)], events |-> e, failed |-> TRUE]
  <2>1. o = Outcome([phase |-> "Closed", codec |-> s.codec, out |-> Append(s.out, Goodbye)], NoEvent, TRUE)
    BY <1>5, <1>6, <1>10 DEF HandleHello
  <2>2. /\ o.session = [phase |-> "Closed", codec |-> s.codec, out |-> Append(s.out, Goodbye)]
        /\ o.event = NoEvent /\ o.failed = TRUE
    BY <2>1 DEF Outcome
  <2> QED
    BY <1>2, <1>3, <1>10, <2>2
<1>11. ASSUME s.phase = "Established", m.kind = "Goodbye"
       PROVE  Drain(cfg, acc, m) = [session |-> [phase |-> "Closed", codec |-> s.codec, out |-> s.out],
                     events |-> e, failed |-> FALSE]
  <2>1. o = Outcome([phase |-> "Closed", codec |-> s.codec, out |-> s.out], ClosedEvent, FALSE)
    BY <1>4, <1>7, <1>11
  <2>2. /\ o.session = [phase |-> "Closed", codec |-> s.codec, out |-> s.out]
        /\ o.event = ClosedEvent /\ o.failed = FALSE
    BY <2>1 DEF Outcome
  <2> QED
    BY <1>2, <1>3, <1>11, <2>2
<1>12. ASSUME s.phase = "Established", m.kind = "Ping"
       PROVE  Drain(cfg, acc, m) = [session |-> [phase |-> "Established", codec |-> s.codec,
                                  out |-> Append(s.out, Pong)], events |-> e, failed |-> FALSE]
  <2>1. o = Outcome([phase |-> "Established", codec |-> s.codec, out |-> Append(s.out, Pong)],
                    NoEvent, FALSE)
    BY <1>4, <1>7, <1>12
  <2>2. /\ o.session = [phase |-> "Established", codec |-> s.codec, out |-> Append(s.out, Pong)]
        /\ o.event = NoEvent /\ o.failed = FALSE
    BY <2>1 DEF Outcome
  <2> QED
    BY <1>2, <1>3, <1>12, <2>2
<1>13. ASSUME s.phase = "Established", m.kind \notin {"Hello", "Goodbye", "Ping"}
       PROVE  Drain(cfg, acc, m) = [session |-> s, events |-> IF m.kind = "App" THEN Append(e, m) ELSE e,
                     failed |-> FALSE]
  <2>1. o = Outcome(s, m, FALSE)
    BY <1>7, <1>13
  <2>2. o.session = s /\ o.event = m /\ o.failed = FALSE
    BY <2>1 DEF Outcome
  <2> QED
    BY <1>2, <1>13, <2>2
<1> QED
  BY <1>9, <1>10, <1>11, <1>12, <1>13 DEF acc

\* One frame keeps the two ends linked.
LEMMA DrainKeeps ==
    ASSUME HShape, NEW p \in Peers, NEW acc, NEW stream, NEW rest, IsRest(rest, stream),
           Linked(p, acc, stream)
    PROVE  Linked(p, Drain(config[p], acc, stream[1]), rest)
<1> DEFINE s == acc.session
           e == acc.events
           m == stream[1]
           cp == config[p]
           cq == config[Other(p)]
           sq == session[Other(p)]
           down == sent[Other(p)]
           up == got[p] \o e
           r == Drain(cp, acc, m)
<1>1. /\ IsSession(s, Frames) /\ s.out \in Seq(Frames) /\ s.phase \in Phases
      /\ e \in Seq(Frames) /\ acc.failed \in BOOLEAN /\ (acc.failed => s.phase = "Closed")
      /\ acc = [session |-> s, events |-> e, failed |-> acc.failed]
  BY DEF Linked, IsSession
<1>2. /\ Greeted(cp, cq, s, stream) /\ Parting(s, sq, stream) /\ Handed(s, up, down, stream)
      /\ Numbered(up) /\ Back(p, s)
  BY DEF Linked
<1>3. m \in Frames
  <2>1. Len(rest) \in Nat
    BY LenProperties DEF IsRest
  <2>2. 1 \in 1..Len(stream)
    BY <2>1 DEF IsRest
  <2> QED
    BY <2>2, ElementOfSeq DEF IsRest
<1>4. /\ Other(p) \in Peers /\ HelloOf(cq).kind = "Hello"
      /\ got[p] \in Seq(Frames) /\ down \in Seq(Frames)
  <2>1. Other(p) \in Peers
    BY PeerFacts
  <2> QED
    BY <2>1, FrameFacts DEF HShape
<1>5. up \in Seq(Frames) /\ Len(up) <= Len(down)
  BY <1>1, <1>2, <1>4, ConcatProperties DEF Handed
<1> HIDE DEF s, m, cp, cq, sq, down, e
<1>6. ASSUME NEW t, NEW x \in BOOLEAN, IsSession(t, Frames), x => t.phase = "Closed",
             Greeted(cp, cq, t, rest), Parting(t, sq, rest), Handed(t, up, down, rest), Back(p, t)
      PROVE  Linked(p, [session |-> t, events |-> e, failed |-> x], rest)
  <2> DEFINE a == [session |-> t, events |-> e, failed |-> x]
  <2>1. a.session = t /\ a.events = e /\ a.failed = x
    OBVIOUS
  <2>2. a = [session |-> a.session, events |-> a.events, failed |-> a.failed]
    OBVIOUS
  <2> HIDE DEF a
  <2>3. a.failed \in BOOLEAN /\ (a.failed => a.session.phase = "Closed")
    BY <1>6, <2>1
  <2>4. Linked(p, a, rest)
    BY <1>1, <1>2, <1>6, <2>1, <2>2, <2>3 DEF Linked, cp, cq, sq, down
  <2> QED
    BY <2>4 DEF a
<1> HIDE DEF up, r
<1>7. CASE s.phase = "Closed"
  <2>1. r = acc
    BY <1>7 DEF Drain, r, s
  <2>2. Greeted(cp, cq, s, rest) /\ Parting(s, sq, rest) /\ Handed(s, up, down, rest)
    BY <1>2, <1>5, <1>7, RestOfClosed
  <2>3. Linked(p, [session |-> s, events |-> e, failed |-> acc.failed], rest)
    BY <1>1, <1>2, <1>6, <1>7, <2>2
  <2> QED
    BY <1>1, <2>1, <2>3 DEF r, m, cp
<1>8. CASE s.phase # "Closed"
  <2>1. r = Drain(cp, [session |-> s, events |-> e, failed |-> FALSE], m)
    <3>1. acc.failed = FALSE
      BY <1>1, <1>8
    <3> QED
      BY <1>1, <3>1 DEF r
  <2>2. CASE s.phase = "AwaitingHello"
    <3>1. m = HelloOf(cq) /\ m.kind = "Hello"
      BY <1>2, <1>4, <2>2 DEF Greeted, m
    <3>2. CASE HelloAcceptable(cp, m)
      <4> DEFINE t == [phase |-> "Established", codec |-> NegotiateCodec(cp, m.body), out |-> s.out]
      <4>1. r = [session |-> t, events |-> e, failed |-> FALSE]
        BY <1>1, <2>1, <2>2, <3>2, DrainCases
      <4>2. t.phase = "Established" /\ t.codec = NegotiateCodec(cp, m.body) /\ t.out = s.out
        OBVIOUS
      <4>3. IsSession(t, Frames)
        BY <1>1 DEF IsSession, Phases
      <4> HIDE DEF t
      <4>4. Greeted(cp, cq, t, rest) /\ Parting(t, sq, rest)
        BY <1>2, <2>2, <3>1, <3>2, <4>2, RestOfOpen DEF m
      <4>5. Handed(t, up, down, rest)
        BY <1>2, <1>8, <3>1, HandedSkips DEF m
      <4>6. Back(p, t)
        BY <1>2, <1>8, <4>2, BackSilent
      <4> QED
        BY <1>6, <4>1, <4>3, <4>4, <4>5, <4>6 DEF r, m, cp
    <3>3. CASE ~HelloAcceptable(cp, m)
      <4> DEFINE t == [phase |-> "Closed", codec |-> s.codec, out |-> Append(s.out, Goodbye)]
      <4>1. r = [session |-> t, events |-> e, failed |-> TRUE]
        BY <1>1, <2>1, <2>2, <3>3, DrainCases
      <4>2. t.phase = "Closed" /\ t.out = Append(s.out, Goodbye)
        OBVIOUS
      <4>3. IsSession(t, Frames)
        <5>1. Append(s.out, Goodbye) \in Seq(Frames)
          BY <1>1, FrameFacts, Longer
        <5> QED
          BY <5>1 DEF IsSession, Phases
      <4> HIDE DEF t
      <4>4. Greeted(cp, cq, t, rest) /\ Parting(t, sq, rest) /\ Handed(t, up, down, rest)
        BY <1>2, <1>5, <4>2, RestOfClosed
      <4>5. Back(p, t)
        BY <1>1, <1>2, <1>8, <4>2, FrameFacts, BackSays
      <4> QED
        BY <1>6, <4>1, <4>2, <4>3, <4>4, <4>5 DEF r, m, cp
    <3> QED
      BY <3>2, <3>3
  <2>3. CASE s.phase = "Established"
    <3>1. /\ m.kind # "Hello" /\ HelloAcceptable(cp, HelloOf(cq))
          /\ s.codec = NegotiateCodec(cp, HelloOf(cq).body)
      <4>1. Len(rest) \in Nat /\ Len(stream) = Len(rest) + 1
        BY LenProperties DEF IsRest
      <4>2. 1 \in 1..Len(stream)
        BY <4>1
      <4> QED
        BY <1>2, <2>3, <4>2 DEF Greeted, m
    <3>2. CASE m.kind = "Goodbye"
      <4> DEFINE t == [phase |-> "Closed", codec |-> s.codec, out |-> s.out]
      <4>1. r = [session |-> t, events |-> e, failed |-> FALSE]
        BY <1>1, <2>1, <2>3, <3>2, DrainCases
      <4>2. t.phase = "Closed" /\ t.out = s.out
        OBVIOUS
      <4>3. IsSession(t, Frames)
        BY <1>1 DEF IsSession, Phases
      <4> HIDE DEF t
      <4>4. Greeted(cp, cq, t, rest) /\ Parting(t, sq, rest) /\ Handed(t, up, down, rest)
        BY <1>2, <1>5, <4>2, RestOfClosed
      <4>5. sq.phase = "Closed"
        <5>1. Len(rest) \in Nat /\ Len(stream) = Len(rest) + 1
          BY LenProperties DEF IsRest
        <5>2. 1 \in 1..Len(stream)
          BY <5>1
        <5> QED
          BY <1>2, <3>2, <5>2 DEF Parting, m
      <4>6. Back(p, t)
        BY <1>2, <1>8, <4>2, <4>5, BackSilent DEF sq
      <4> QED
        BY <1>6, <4>1, <4>3, <4>4, <4>6 DEF r, m, cp
    <3>3. CASE m.kind = "Ping"
      <4> DEFINE t == [phase |-> "Established", codec |-> s.codec, out |-> Append(s.out, Pong)]
      <4>1. r = [session |-> t, events |-> e, failed |-> FALSE]
        BY <1>1, <2>1, <2>3, <3>3, DrainCases
      <4>2. t.phase = "Established" /\ t.codec = s.codec /\ t.out = Append(s.out, Pong)
        OBVIOUS
      <4>3. IsSession(t, Frames)
        <5>1. Append(s.out, Pong) \in Seq(Frames)
          BY <1>1, FrameFacts, Longer
        <5> QED
          BY <5>1 DEF IsSession, Phases
      <4> HIDE DEF t
      <4>4. Greeted(cp, cq, t, rest) /\ Parting(t, sq, rest)
        BY <1>2, <2>3, <3>1, <3>3, <4>2, RestOfOpen DEF m
      <4>5. Handed(t, up, down, rest)
        BY <1>2, <1>8, <3>3, HandedSkips DEF m
      <4>6. Back(p, t)
        <5>1. Pong \in Frames /\ Pong.kind = "Pong"
          BY FrameFacts
        <5> QED
          BY <1>1, <1>2, <1>8, <4>2, <5>1, BackSays
      <4> QED
        BY <1>6, <4>1, <4>3, <4>4, <4>5, <4>6 DEF r, m, cp
    <3>4. CASE m.kind \notin {"Goodbye", "Ping"}
      <4>1. r = [session |-> s, events |-> IF m.kind = "App" THEN Append(e, m) ELSE e, failed |-> FALSE]
        BY <1>1, <2>1, <2>3, <3>1, <3>4, DrainCases
      <4>2. Greeted(cp, cq, s, rest) /\ Parting(s, sq, rest)
        BY <1>2, <2>3, <3>1, <3>4, RestOfOpen DEF m
      <4>3. CASE m.kind # "App"
        <5>1. Handed(s, up, down, rest)
          BY <1>2, <1>8, <4>3, HandedSkips DEF m
        <5>2. Linked(p, [session |-> s, events |-> e, failed |-> FALSE], rest)
          BY <1>1, <1>2, <1>6, <4>2, <5>1
        <5> QED
          BY <4>1, <4>3, <5>2 DEF r, m, cp
      <4>4. CASE m.kind = "App"
        <5>1. Handed(s, Append(up, m), down, rest) /\ Numbered(Append(up, m))
          BY <1>2, <1>4, <1>5, <1>8, <4>4, HandedNext DEF m
        <5>2. got[p] \o Append(e, m) = Append(up, m) /\ Append(e, m) \in Seq(Frames)
          <6>1. Append(e, m) \in Seq(Frames)
            BY <1>1, <1>3, Longer
          <6>2. got[p] \o Append(e, m) = Append(got[p] \o e, m)
            BY <1>1, <1>3, <1>4, SaysOneMore
          <6> QED
            BY <6>1, <6>2, Zenon DEF up
        <5>3. Linked(p, [session |-> s, events |-> Append(e, m), failed |-> FALSE], rest)
          BY <1>1, <1>2, <1>8, <4>2, <5>1, <5>2 DEF Linked, cp, cq, sq, down
        <5> QED
          BY <4>1, <4>4, <5>3 DEF r, m, cp
      <4> QED
        BY <4>3, <4>4
    <3> QED
      BY <3>2, <3>3, <3>4
  <2> QED
    BY <1>1, <1>8, <2>2, <2>3 DEF Phases
<1> QED
  BY <1>7, <1>8
-----------------------------------------------------------------------------
(* A chunk through handle_input.                                           *)

\* The first frames of a stream.
LEMMA FirstOfSeq ==
    ASSUME NEW w, NEW n \in Nat, \A i \in 1..n : w[i] \in Frames
    PROVE  /\ SubSeq(w, 1, n) \in Seq(Frames) /\ Len(SubSeq(w, 1, n)) = n
           /\ \A i \in 1..n : SubSeq(w, 1, n)[i] = w[i]
<1>1. /\ SubSeq(w, 1, n) \in Seq(Frames)
      /\ Len(SubSeq(w, 1, n)) = IF 1 <= n THEN n - 1 + 1 ELSE 0
      /\ \A i \in 1..(n - 1 + 1) : SubSeq(w, 1, n)[i] = w[1 + i - 1]
  BY SubSeqProperties
<1>2. \A i \in 1..n : i \in 1..(n - 1 + 1) /\ 1 + i - 1 = i
  BY SMTT(40)
<1> QED
  BY <1>1, <1>2

\* What is left of a stream once its first i frames are read.
Left(stream, i) == SubSeq(stream, i + 1, Len(stream))

\* What is left are the later frames.
LEMMA LeftFacts ==
    ASSUME NEW stream \in Seq(Frames), NEW i \in 0..Len(stream)
    PROVE  /\ Left(stream, i) \in Seq(Frames) /\ Len(Left(stream, i)) = Len(stream) - i
           /\ \A k \in 1..(Len(stream) - i) : Left(stream, i)[k] = stream[k + i]
<1>1. Len(stream) \in Nat /\ i \in Nat /\ i <= Len(stream)
  BY LenProperties
<1>2. \A k \in (i + 1)..Len(stream) : stream[k] \in Frames
  <2>1. \A k \in (i + 1)..Len(stream) : k \in 1..Len(stream)
    BY <1>1
  <2> QED
    BY <2>1, ElementOfSeq
<1>3. /\ Left(stream, i) \in Seq(Frames)
      /\ Len(Left(stream, i)) = IF i + 1 <= Len(stream) THEN Len(stream) - (i + 1) + 1 ELSE 0
      /\ \A k \in 1..(Len(stream) - (i + 1) + 1) : Left(stream, i)[k] = stream[(i + 1) + k - 1]
  <2>1. i + 1 \in Int /\ Len(stream) \in Int
    BY <1>1
  <2> QED
    BY <1>2, <2>1, SubSeqProperties, SMTT(40) DEF Left
<1>4. Len(stream) - (i + 1) + 1 = Len(stream) - i
  BY <1>1
<1>5. \A k \in 1..(Len(stream) - i) : (i + 1) + k - 1 = k + i
  BY <1>1
<1>6. (IF i + 1 <= Len(stream) THEN Len(stream) - (i + 1) + 1 ELSE 0) = Len(stream) - i
  BY <1>1
<1> QED
  BY <1>3, <1>4, <1>5, <1>6, Zenon

\* Reading one more frame leaves the rest.
LEMMA LeftNext ==
    ASSUME NEW stream \in Seq(Frames), NEW i \in 0..(Len(stream) - 1)
    PROVE  IsRest(Left(stream, i + 1), Left(stream, i)) /\ Left(stream, i)[1] = stream[i + 1]
<1>1. Len(stream) \in Nat /\ i \in 0..Len(stream) /\ i + 1 \in 0..Len(stream)
  BY LenProperties
<1>2. /\ Left(stream, i) \in Seq(Frames) /\ Len(Left(stream, i)) = Len(stream) - i
      /\ \A k \in 1..(Len(stream) - i) : Left(stream, i)[k] = stream[k + i]
  BY <1>1, LeftFacts
<1>3. /\ Left(stream, i + 1) \in Seq(Frames) /\ Len(Left(stream, i + 1)) = Len(stream) - (i + 1)
      /\ \A k \in 1..(Len(stream) - (i + 1)) : Left(stream, i + 1)[k] = stream[k + (i + 1)]
  BY <1>1, LeftFacts, SMTT(40)
<1>4. Len(Left(stream, i)) = Len(Left(stream, i + 1)) + 1
  <2>1. Len(stream) - i = (Len(stream) - (i + 1)) + 1
    BY <1>1
  <2>2. Len(Left(stream, i)) = Len(stream) - i /\ Len(Left(stream, i + 1)) = Len(stream) - (i + 1)
    BY <1>2, <1>3
  <2> QED
    BY <2>1, <2>2, Zenon
<1>5. ASSUME NEW k \in 1..Len(Left(stream, i + 1))
      PROVE  Left(stream, i + 1)[k] = Left(stream, i)[k + 1]
  <2>1. k \in 1..(Len(stream) - (i + 1)) /\ k + 1 \in 1..(Len(stream) - i)
    BY <1>1, <1>3
  <2>2. k + (i + 1) = (k + 1) + i
    BY <1>1
  <2> QED
    BY <1>2, <1>3, <2>1, <2>2
<1>6. Left(stream, i)[1] = stream[i + 1]
  <2>1. 1 \in 1..(Len(stream) - i) /\ 1 + i = i + 1
    BY <1>1
  <2> QED
    BY <1>2, <2>1
<1> QED
  BY <1>2, <1>3, <1>4, <1>5, <1>6 DEF IsRest

\* What is left of the bytes read goes before what is yet to be written.
LEMMA LeftOfWire ==
    ASSUME NEW w \in Seq(Frames), NEW out \in Seq(Frames), NEW n \in 0..Len(w)
    PROVE  Left(w \o out, n) = Left(w, n) \o out
<1> DEFINE stream == w \o out
           x == Left(stream, n)
           y == Left(w, n) \o out
<1>1. Len(w) \in Nat /\ Len(out) \in Nat /\ n \in Nat /\ n <= Len(w)
  BY LenProperties
<1>2. /\ stream \in Seq(Frames) /\ Len(stream) = Len(w) + Len(out)
      /\ \A i \in 1..(Len(w) + Len(out)) :
            stream[i] = IF i <= Len(w) THEN w[i] ELSE out[i - Len(w)]
  BY ConcatProperties
<1>3. /\ Left(w, n) \in Seq(Frames) /\ Len(Left(w, n)) = Len(w) - n
      /\ \A k \in 1..(Len(w) - n) : Left(w, n)[k] = w[k + n]
  BY LeftFacts
<1>4. /\ y \in Seq(Frames) /\ Len(y) = Len(Left(w, n)) + Len(out)
      /\ \A k \in 1..(Len(Left(w, n)) + Len(out)) :
            y[k] = IF k <= Len(Left(w, n)) THEN Left(w, n)[k] ELSE out[k - Len(Left(w, n))]
  BY <1>3, ConcatProperties
<1> HIDE DEF stream
<1>5. /\ x \in Seq(Frames) /\ Len(x) = Len(stream) - n
      /\ \A k \in 1..(Len(stream) - n) : x[k] = stream[k + n]
  <2>1. n \in 0..Len(stream)
    BY <1>1, <1>2
  <2> QED
    BY <1>2, <2>1, LeftFacts
<1> HIDE DEF x, y
<1>6. Len(x) = Len(y)
  BY <1>1, <1>2, <1>3, <1>4, <1>5, SMTT(30)
<1>7. ASSUME NEW k \in 1..Len(x) PROVE x[k] = y[k]
  <2>1. /\ k \in 1..(Len(stream) - n) /\ k + n \in 1..(Len(w) + Len(out))
        /\ k \in 1..(Len(Left(w, n)) + Len(out))
    BY <1>1, <1>2, <1>3, <1>4, <1>5, <1>6
  <2>2. x[k] = stream[k + n]
    BY <1>5, <2>1
  <2>3. CASE k <= Len(w) - n
    <3>1. k + n <= Len(w) /\ k <= Len(Left(w, n)) /\ k \in 1..(Len(w) - n)
      BY <1>1, <1>3, <2>1, <2>3
    <3>2. stream[k + n] = w[k + n]
      BY <1>2, <2>1, <3>1
    <3>3. y[k] = Left(w, n)[k]
      BY <1>4, <2>1, <3>1
    <3> QED
      BY <1>3, <2>2, <3>1, <3>2, <3>3
  <2>4. CASE ~(k <= Len(w) - n)
    <3>1. ~(k + n <= Len(w)) /\ ~(k <= Len(Left(w, n))) /\ (k + n) - Len(w) = k - Len(Left(w, n))
      BY <1>1, <1>3, <2>1, <2>4
    <3>2. stream[k + n] = out[(k + n) - Len(w)]
      BY <1>2, <2>1, <3>1
    <3>3. y[k] = out[k - Len(Left(w, n))]
      BY <1>4, <2>1, <3>1
    <3> QED
      BY <2>2, <3>1, <3>2, <3>3
  <2> QED
    BY <2>3, <2>4
<1>8. x = y
  BY <1>4, <1>5, <1>6, <1>7, SeqEqual
<1> QED
  BY <1>8 DEF x, y, stream

\* The chunk is read frame by frame, and the ends stay linked.
LEMMA ChunkKeeps ==
    ASSUME HInv, NEW p \in Peers, NEW n \in 1..Len(wire[p]), NEW r,
           r = HandleInput(config[p], session[p], SubSeq(wire[p], 1, n))
    PROVE  Linked(p, [session |-> r.session, events |-> r.events, failed |-> FALSE],
                  Left(wire[p], n) \o session[Other(p)].out)
<1> DEFINE w == wire[p]
           out == session[Other(p)].out
           stream == Into(p)
           chunk == SubSeq(w, 1, n)
<1>1. /\ Other(p) \in Peers /\ w \in Seq(Frames) /\ out \in Seq(Frames) /\ got[p] \in Seq(Frames)
      /\ IsSession(session[p], Frames) /\ Numbered(got[p])
  <2>1. Other(p) \in Peers
    BY PeerFacts
  <2> QED
    BY <2>1 DEF HInv, HShape, IsSession
<1>2. /\ stream \in Seq(Frames) /\ Len(stream) = Len(w) + Len(out)
      /\ \A i \in 1..(Len(w) + Len(out)) : stream[i] = IF i <= Len(w) THEN w[i] ELSE out[i - Len(w)]
  BY <1>1, ConcatProperties DEF Into
<1>3. Len(w) \in Nat /\ Len(out) \in Nat /\ n \in Nat /\ n <= Len(w) /\ n >= 1
  BY <1>1, LenProperties
<1>4. Len(chunk) = n /\ \A i \in 1..n : chunk[i] = w[i]
  <2>1. \A i \in 1..n : w[i] \in Frames
    <3>1. \A i \in 1..n : i \in 1..Len(w)
      BY <1>3
    <3> QED
      BY <1>1, <3>1, ElementOfSeq
  <2> QED
    BY <1>3, <2>1, FirstOfSeq
<1> HIDE DEF chunk, stream, out
<1>5. Len(chunk) \in Nat
  BY <1>3, <1>4
<1>6. PICK f : Drains(f, config[p], session[p], chunk)
  BY <1>5, HandleInputDrains
<1> DEFINE S == {k \in Nat : k <= n => Linked(p, f[k], Left(stream, k))}
<1>7. 0 \in S
  <2>1. Left(stream, 0) = stream
    <3>1. 0 + 1 = 1
      OBVIOUS
    <3> QED
      BY <1>2, <3>1, SubSeqFull DEF Left
  <2>2. got[p] \o <<>> = got[p]
    BY <1>1, ConcatEmptySeq
  <2>3. Back(p, session[p])
    <3>1. Other(Other(p)) = p
      BY PeerFacts
    <3> QED
      BY <1>1, <3>1 DEF HInv, End, Back, Into
  <2>4. /\ Greeted(config[p], config[Other(p)], session[p], stream)
        /\ Parting(session[p], session[Other(p)], stream)
        /\ Handed(session[p], got[p], sent[Other(p)], stream)
    BY DEF HInv, End, stream
  <2> DEFINE a == Fresh(session[p])
  <2>5. /\ a = [session |-> a.session, events |-> a.events, failed |-> a.failed]
        /\ a.session = session[p] /\ a.events = <<>> /\ a.failed = FALSE
    BY DEF Fresh
  <2> HIDE DEF a
  <2>6. <<>> \in Seq(Frames)
    BY EmptySeq
  <2>7. Linked(p, a, stream)
    BY <1>1, <2>2, <2>3, <2>4, <2>5, <2>6 DEF Linked
  <2> QED
    BY <1>6, <2>1, <2>7 DEF a, Drains
<1>8. ASSUME NEW k \in Nat, k \in S PROVE k + 1 \in S
  <2> SUFFICES ASSUME k + 1 <= n PROVE Linked(p, f[k + 1], Left(stream, k + 1))
    BY <1>8
  <2>1. Linked(p, f[k], Left(stream, k))
    BY <1>3, <1>8
  <2>2. k \in 0..(Len(stream) - 1) /\ k + 1 \in 1..Len(chunk) /\ (k + 1) - 1 = k
    BY <1>2, <1>3, <1>4
  <2>3. IsRest(Left(stream, k + 1), Left(stream, k)) /\ Left(stream, k)[1] = stream[k + 1]
    BY <1>2, <2>2, LeftNext
  <2>4. stream[k + 1] = chunk[k + 1]
    <3>1. k + 1 \in 1..n /\ k + 1 \in 1..(Len(w) + Len(out)) /\ k + 1 <= Len(w)
      BY <1>3
    <3> QED
      BY <1>2, <1>4, <3>1
  <2>5. f[k + 1] = Drain(config[p], f[k], Left(stream, k)[1])
    BY <1>6, <2>2, <2>3, <2>4 DEF Drains
  <2>6. HShape
    BY DEF HInv
  <2> QED
    BY <2>1, <2>3, <2>5, <2>6, DrainKeeps
<1> HIDE DEF S
<1>9. Nat \subseteq S
  BY <1>7, <1>8, CountingUp
<1>10. Linked(p, f[n], Left(stream, n))
  BY <1>3, <1>9 DEF S
<1>11. Left(stream, n) = Left(w, n) \o out
  <2>1. n \in 0..Len(w)
    BY <1>3
  <2> QED
    BY <1>1, <2>1, LeftOfWire DEF stream, Into, out
<1>12. r = IF f[n].failed THEN [f[n] EXCEPT !.events = <<>>] ELSE f[n]
  BY <1>4, <1>6 DEF chunk, Drains
<1> DEFINE a == [session |-> r.session, events |-> r.events, failed |-> FALSE]
<1>13. CASE ~f[n].failed
  <2>1. r = f[n] /\ f[n].failed = FALSE
    BY <1>10, <1>12, <1>13 DEF Linked
  <2>2. f[n] = [session |-> f[n].session, events |-> f[n].events, failed |-> f[n].failed]
    BY <1>10 DEF Linked
  <2> QED
    BY <1>10, <1>11, <2>1, <2>2 DEF out
<1>14. CASE f[n].failed
  <2>1. f[n] = [session |-> f[n].session, events |-> f[n].events, failed |-> f[n].failed]
    BY <1>10 DEF Linked
  <2>2. r.session = f[n].session /\ r.events = <<>>
    BY <1>12, <1>14, <2>1
  <2>3. r.session.phase = "Closed"
    BY <1>10, <1>14, <2>2 DEF Linked
  <2>4. /\ a = [session |-> a.session, events |-> a.events, failed |-> a.failed]
        /\ a.session = r.session /\ a.events = <<>> /\ a.failed = FALSE
    BY <2>2
  <2> HIDE DEF a
  <2>5. got[p] \o <<>> = got[p] /\ <<>> \in Seq(Frames)
    BY <1>1, ConcatEmptySeq, EmptySeq
  <2>6. Handed(r.session, got[p], sent[Other(p)], Left(stream, n))
    BY <2>3 DEF HInv, End, Handed
  <2>7. Linked(p, a, Left(stream, n))
    BY <1>1, <1>10, <2>2, <2>4, <2>5, <2>6 DEF Linked
  <2> QED
    BY <1>11, <2>7 DEF a, out
<1> QED
  BY <1>13, <1>14
-----------------------------------------------------------------------------
(* Every step keeps the invariant.                                         *)

\* An end whose session keeps its phase and its codec is as it was.
LEMMA EndsStill ==
    ASSUME NEW cp, NEW cq, NEW sp, NEW sq, NEW sp2, NEW sq2, NEW up, NEW down, NEW stream,
           sp2.phase = sp.phase, sp2.codec = sp.codec, sq2.phase = sq.phase,
           Greeted(cp, cq, sp, stream), Parting(sp, sq, stream), Handed(sp, up, down, stream)
    PROVE  Greeted(cp, cq, sp2, stream) /\ Parting(sp2, sq2, stream) /\ Handed(sp2, up, down, stream)
BY DEF Greeted, Parting, Handed

\* What the invariant says of p, and of what p has said.
LEMMA EndFacts ==
    ASSUME HInv, NEW p \in Peers
    PROVE  /\ Other(p) \in Peers /\ Other(p) # p /\ Other(Other(p)) = p
           /\ IsSession(session[p], Frames) /\ session[p].out \in Seq(Frames)
           /\ session[Other(p)].out \in Seq(Frames)
           /\ wire[p] \in Seq(Frames) /\ wire[Other(p)] \in Seq(Frames)
           /\ sent[p] \in Seq(Frames) /\ got[p] \in Seq(Frames) /\ sent[Other(p)] \in Seq(Frames)
           /\ Len(sent[p]) <= sends /\ sends \in 0..MaxSends /\ Len(sent[p]) \in Nat
           /\ Numbered(sent[p]) /\ Numbered(got[p]) /\ Numbered(sent[Other(p)])
           /\ End(p) /\ Back(p, session[p])
<1>1. Other(p) \in Peers /\ Other(p) # p /\ Other(Other(p)) = p
  BY PeerFacts
<1>2. End(p) /\ Back(p, session[p])
  BY <1>1 DEF HInv, End, Back, Into
<1>3. Len(sent[p]) \in Nat
  BY LenProperties DEF HInv, HShape
<1>4. IsSession(session[p], Frames) /\ IsSession(session[Other(p)], Frames)
  BY <1>1 DEF HInv, HShape
<1>5. session[p].out \in Seq(Frames) /\ session[Other(p)].out \in Seq(Frames)
  BY <1>4 DEF IsSession
<1> QED
  BY <1>1, <1>2, <1>3, <1>4, <1>5 DEF HInv, HShape

\* Reading a chunk.
LEMMA ReadPreserves == ASSUME HInv, NEW p \in Peers, Read(p) PROVE HInv'
<1>1. PICK n \in 1..Len(wire[p]) :
          LET r == HandleInput(config[p], session[p], SubSeq(wire[p], 1, n)) IN
          /\ session' = [session EXCEPT ![p] = r.session]
          /\ got' = [got EXCEPT ![p] = @ \o r.events]
          /\ wire' = [wire EXCEPT ![p] = SubSeq(@, n + 1, Len(@))]
          /\ UNCHANGED <<config, sends, sent>>
  BY DEF Read
<1> DEFINE r == HandleInput(config[p], session[p], SubSeq(wire[p], 1, n))
           q == Other(p)
<1>2. /\ session' = [session EXCEPT ![p] = r.session] /\ got' = [got EXCEPT ![p] = @ \o r.events]
      /\ wire' = [wire EXCEPT ![p] = Left(wire[p], n)]
      /\ config' = config /\ sends' = sends /\ sent' = sent
  BY <1>1 DEF Left
<1>3. Linked(p, [session |-> r.session, events |-> r.events, failed |-> FALSE],
             Left(wire[p], n) \o session[q].out)
  BY ChunkKeeps
<1> HIDE DEF r
<1>4. /\ IsSession(r.session, Frames) /\ r.events \in Seq(Frames)
      /\ Greeted(config[p], config[q], r.session, Left(wire[p], n) \o session[q].out)
      /\ Parting(r.session, session[q], Left(wire[p], n) \o session[q].out)
      /\ Handed(r.session, got[p] \o r.events, sent[q], Left(wire[p], n) \o session[q].out)
      /\ Numbered(got[p] \o r.events) /\ Back(p, r.session)
  BY <1>3 DEF Linked
<1>5. /\ q \in Peers /\ q # p /\ Other(q) = p /\ \A x \in Peers : x = p \/ x = q
  BY PeerFacts
<1>6. /\ session'[p] = r.session /\ session'[q] = session[q]
      /\ got'[p] = got[p] \o r.events /\ got'[q] = got[q]
      /\ wire'[p] = Left(wire[p], n) /\ wire'[q] = wire[q]
  BY <1>2, <1>5 DEF HInv, HShape
<1>7. Left(wire[p], n) \in Seq(Frames) /\ got[p] \o r.events \in Seq(Frames)
  <2>1. wire[p] \in Seq(Frames) /\ got[p] \in Seq(Frames)
    BY EndFacts
  <2>2. n \in 0..Len(wire[p])
    BY <2>1, LenProperties
  <2> QED
    BY <1>4, <2>1, <2>2, LeftFacts, ConcatProperties
<1>8. HShape'
  <2>1. session' = [x \in Peers |-> session'[x]] /\ \A x \in Peers : IsSession(session'[x], Frames)
    BY <1>2, <1>4, <1>5, <1>6 DEF HInv, HShape
  <2>2. wire' \in [Peers -> Seq(Frames)] /\ got' \in [Peers -> Seq(Frames)]
    BY <1>2, <1>7 DEF HInv, HShape
  <2>3. \A x \in Peers : Len(sent[x]) <= sends /\ Numbered(sent[x]) /\ Numbered(got'[x])
    BY <1>4, <1>5, <1>6 DEF HInv, HShape
  <2> QED
    BY <1>2, <2>1, <2>2, <2>3 DEF HInv, HShape
<1>9. End(p)'
  BY <1>2, <1>4, <1>6 DEF End, Into
<1>10. End(q)'
  BY <1>2, <1>4, <1>5, <1>6 DEF End, Into, Back
<1> QED
  BY <1>5, <1>8, <1>9, <1>10 DEF HInv

\* Writing what is buffered.
LEMMA WritePreserves == ASSUME HInv, NEW p \in Peers, Write(p) PROVE HInv'
<1> DEFINE q == Other(p)
           out == session[p].out
           t == Flushed(session[p])
<1>1. /\ wire' = [wire EXCEPT ![q] = @ \o out] /\ session' = [session EXCEPT ![p] = t]
      /\ config' = config /\ sends' = sends /\ sent' = sent /\ got' = got
  BY DEF Write
<1>2. /\ q \in Peers /\ q # p /\ Other(q) = p /\ \A x \in Peers : x = p \/ x = q
  BY PeerFacts
<1>3. /\ IsSession(session[p], Frames) /\ out \in Seq(Frames) /\ wire[q] \in Seq(Frames)
      /\ End(p) /\ Back(p, session[p])
  BY EndFacts
<1>4. t.phase = session[p].phase /\ t.codec = session[p].codec /\ t.out = <<>> /\ IsSession(t, Frames)
  <2>1. PICK a, b, c : session[p] = [phase |-> a, codec |-> b, out |-> c]
    BY <1>3 DEF IsSession
  <2>2. t = [phase |-> a, codec |-> b, out |-> <<>>]
    BY <2>1 DEF Flushed
  <2>3. <<>> \in Seq(Frames) /\ a \in Phases
    BY <1>3, <2>1, EmptySeq DEF IsSession
  <2>4. t.phase = session[p].phase /\ t.codec = session[p].codec /\ t.out = <<>>
    BY <2>1, <2>2
  <2>5. IsSession([phase |-> a, codec |-> b, out |-> <<>>], Frames)
    BY <2>3 DEF IsSession
  <2> QED
    BY <2>2, <2>4, <2>5
<1> HIDE DEF t
<1>5. /\ session'[p] = t /\ session'[q] = session[q]
      /\ wire'[q] = wire[q] \o out /\ wire'[p] = wire[p]
  BY <1>1, <1>2 DEF HInv, HShape
<1>6. wire[q] \o out \in Seq(Frames) /\ (wire[q] \o out) \o <<>> = wire[q] \o out
  BY <1>3, ConcatProperties, ConcatEmptySeq
<1>7. HShape'
  <2>1. session' = [x \in Peers |-> session'[x]] /\ \A x \in Peers : IsSession(session'[x], Frames)
    BY <1>1, <1>2, <1>4, <1>5 DEF HInv, HShape
  <2>2. wire' \in [Peers -> Seq(Frames)]
    BY <1>1, <1>6 DEF HInv, HShape
  <2> QED
    BY <1>1, <2>1, <2>2 DEF HInv, HShape
<1>8. End(p)'
  <2>1. /\ Greeted(config[p], config[q], t, Into(p)) /\ Parting(t, session[q], Into(p))
        /\ Handed(t, got[p], sent[q], Into(p))
    BY <1>3, <1>4, SMTT(40) DEF End, Greeted, Parting, Handed
  <2> QED
    BY <1>1, <1>5, <2>1 DEF End, Into
<1>9. End(q)'
  <2>1. /\ Greeted(config[q], config[p], session[q], wire[q] \o out)
        /\ Parting(session[q], t, wire[q] \o out)
        /\ Handed(session[q], got[q], sent[p], wire[q] \o out)
    BY <1>3, <1>4, EndsStill DEF Back
  <2>2. wire'[q] \o session'[p].out = wire[q] \o out
    BY <1>4, <1>5, <1>6
  <2> QED
    BY <1>1, <1>2, <1>5, <2>1, <2>2 DEF End, Into
<1> QED
  BY <1>2, <1>7, <1>8, <1>9 DEF HInv

\* What a session becomes by queueing a message.
LEMMA Says ==
    ASSUME NEW s, IsSession(s, Frames), NEW m \in Frames, NEW t, t = Queue(s, m)
    PROVE  t.phase = s.phase /\ t.codec = s.codec /\ t.out = Append(s.out, m) /\ IsSession(t, Frames)
<1>1. PICK a, b, c : s = [phase |-> a, codec |-> b, out |-> c]
  BY DEF IsSession
<1>2. t = [phase |-> a, codec |-> b, out |-> Append(c, m)]
  <2>1. s.out = c
    BY <1>1
  <2>2. t = [[phase |-> a, codec |-> b, out |-> c] EXCEPT !.out = Append(s.out, m)]
    BY <1>1 DEF Queue
  <2> QED
    BY <2>1, <2>2
<1>3. t.phase = s.phase /\ t.codec = s.codec /\ t.out = Append(s.out, m)
  BY <1>1, <1>2
<1>4. Append(c, m) \in Seq(Frames) /\ a \in Phases
  BY <1>1, Longer DEF IsSession
<1>5. IsSession([phase |-> a, codec |-> b, out |-> Append(c, m)], Frames)
  BY <1>4 DEF IsSession
<1> QED
  BY <1>2, <1>3, <1>5

\* What it becomes by closing.
LEMMA SaysGoodbye ==
    ASSUME NEW s, IsSession(s, Frames), s.phase # "Closed", NEW t, t = CloseSession(s)
    PROVE  t.phase = "Closed" /\ t.out = Append(s.out, Goodbye) /\ IsSession(t, Frames)
<1> DEFINE u == Queue(s, Goodbye)
<1>1. t = [u EXCEPT !.phase = "Closed"]
  BY DEF CloseSession
<1>2. u.out = Append(s.out, Goodbye) /\ IsSession(u, Frames)
  BY FrameFacts, Says
<1> HIDE DEF u
<1>3. PICK a, b, c : u = [phase |-> a, codec |-> b, out |-> c]
  BY <1>2 DEF IsSession
<1>4. t = [phase |-> "Closed", codec |-> b, out |-> c] /\ u.out = c
  BY <1>1, <1>3
<1>5. t.phase = "Closed" /\ t.out = u.out
  BY <1>4
<1>6. IsSession([phase |-> "Closed", codec |-> b, out |-> c], Frames)
  BY <1>2, <1>4 DEF IsSession, Phases
<1> QED
  BY <1>2, <1>4, <1>5, <1>6

\* The invariant once p has a new session, and perhaps has sent more.
LEMMA SpeakerChanged ==
    ASSUME HInv, NEW p \in Peers, NEW t, NEW said \in Seq(Frames),
           session' = [session EXCEPT ![p] = t], IsSession(t, Frames),
           config' = config, wire' = wire, got' = got,
           sent' = [sent EXCEPT ![p] = said], Numbered(said),
           sends' \in 0..MaxSends, sends' >= sends, Len(said) <= sends',
           Greeted(config[p], config[Other(p)], t, Into(p)),
           Parting(t, session[Other(p)], Into(p)),
           Handed(t, got[p], sent[Other(p)], Into(p)),
           Greeted(config[Other(p)], config[p], session[Other(p)], wire[Other(p)] \o t.out),
           Parting(session[Other(p)], t, wire[Other(p)] \o t.out),
           Handed(session[Other(p)], got[Other(p)], said, wire[Other(p)] \o t.out)
    PROVE  HInv'
<1> DEFINE q == Other(p)
<1>1. /\ q \in Peers /\ q # p /\ Other(q) = p /\ \A x \in Peers : x = p \/ x = q
  BY PeerFacts
<1>2. session'[p] = t /\ session'[q] = session[q] /\ sent'[p] = said /\ sent'[q] = sent[q]
  BY <1>1 DEF HInv, HShape
<1>3. HShape'
  <2>1. session' = [x \in Peers |-> session'[x]] /\ \A x \in Peers : IsSession(session'[x], Frames)
    BY <1>1, <1>2 DEF HInv, HShape
  <2>2. sent' \in [Peers -> Seq(Frames)]
    BY DEF HInv, HShape
  <2>3. \A x \in Peers : Len(sent'[x]) <= sends' /\ Numbered(sent'[x]) /\ Numbered(got[x])
    <3>1. Len(sent[q]) \in Nat /\ Len(sent[q]) <= sends /\ sends \in 0..MaxSends
      BY <1>1, EndFacts
    <3>2. Len(sent[q]) <= sends'
      BY <3>1, MaxSendsAssumption
    <3> QED
      BY <1>1, <1>2, <3>2 DEF HInv, HShape
  <2> QED
    BY <2>1, <2>2, <2>3 DEF HInv, HShape
<1>4. End(p)'
  BY <1>1, <1>2 DEF End, Into
<1>5. End(q)'
  BY <1>1, <1>2 DEF End, Into
<1> QED
  BY <1>1, <1>3, <1>4, <1>5 DEF HInv

\* A session closes.
LEMMA ClosePreserves == ASSUME HInv, NEW p \in Peers, Close(p) PROVE HInv'
<1> DEFINE q == Other(p)
           t == CloseSession(session[p])
<1>1. /\ session[p].phase # "Closed" /\ session' = [session EXCEPT ![p] = t]
      /\ config' = config /\ wire' = wire /\ sends' = sends /\ sent' = sent /\ got' = got
  BY DEF Close
<1>2. /\ IsSession(session[p], Frames) /\ session[p].out \in Seq(Frames)
      /\ End(p) /\ Back(p, session[p])
      /\ sent[p] \in Seq(Frames) /\ Numbered(sent[p]) /\ Len(sent[p]) <= sends /\ sends \in 0..MaxSends
  BY EndFacts
<1>3. Goodbye \in Frames /\ Goodbye.kind = "Goodbye"
  BY FrameFacts
<1>4. t.phase = "Closed" /\ t.out = Append(session[p].out, Goodbye) /\ IsSession(t, Frames)
  BY <1>1, <1>2, SaysGoodbye
<1> HIDE DEF t
<1>5. Back(p, t)
  BY <1>1, <1>2, <1>3, <1>4, BackSays DEF HInv
<1>6. /\ Greeted(config[p], config[q], t, Into(p)) /\ Parting(t, session[q], Into(p))
      /\ Handed(t, got[p], sent[q], Into(p))
  BY <1>2, <1>4 DEF End, Greeted, Parting, Handed
<1>7. sent' = [sent EXCEPT ![p] = sent[p]] /\ sends' >= sends /\ sends' \in 0..MaxSends
  BY <1>1, <1>2 DEF HInv, HShape
<1> QED
  BY <1>1, <1>2, <1>4, <1>5, <1>6, <1>7, SpeakerChanged DEF Back

\* An application sends a ping or a message.
LEMMA SendPreserves == ASSUME HInv, NEW p \in Peers, Send(p) PROVE HInv'
<1> DEFINE q == Other(p)
           s == session[p]
<1>1. /\ s.phase = "Established" /\ sends < MaxSends /\ sends' = sends + 1
      /\ config' = config /\ wire' = wire /\ got' = got
  BY DEF Send, MaySend
<1>2. /\ IsSession(s, Frames) /\ s.out \in Seq(Frames) /\ wire[q] \in Seq(Frames)
      /\ End(p) /\ Back(p, s) /\ q \in Peers
      /\ sent[p] \in Seq(Frames) /\ Numbered(sent[p]) /\ Len(sent[p]) <= sends /\ sends \in 0..MaxSends
      /\ Len(sent[p]) \in Nat
  BY EndFacts
<1>3. sends' \in 0..MaxSends /\ sends' >= sends /\ Len(sent[p]) \in 0..(MaxSends - 1)
      /\ Len(sent[p]) + 1 <= sends' /\ Len(sent[p]) <= sends'
  BY <1>1, <1>2, MaxSendsAssumption
<1>4. ASSUME session' = [session EXCEPT ![p] = Queue(@, Ping)], sent' = sent
      PROVE  HInv'
  <2> DEFINE t == Queue(s, Ping)
  <2>1. Ping \in Frames /\ Ping.kind = "Ping"
    BY FrameFacts
  <2>2. /\ t.phase = s.phase /\ t.codec = s.codec /\ t.out = Append(s.out, Ping) /\ IsSession(t, Frames)
    BY <1>2, <2>1, Says
  <2>3. session' = [session EXCEPT ![p] = t] /\ sent' = [sent EXCEPT ![p] = sent[p]]
    BY <1>4 DEF HInv, HShape
  <2> HIDE DEF t
  <2>4. Back(p, t)
    BY <1>1, <1>2, <2>1, <2>2, BackSays DEF HInv
  <2>5. /\ Greeted(config[p], config[q], t, Into(p)) /\ Parting(t, session[q], Into(p))
        /\ Handed(t, got[p], sent[q], Into(p))
    BY <1>2, <2>2 DEF End, Greeted, Parting, Handed
  <2> QED
    BY <1>1, <1>2, <1>3, <2>2, <2>3, <2>4, <2>5, SpeakerChanged DEF Back
<1> DEFINE m == Msg("App", Len(sent[p]))
<1>5. ASSUME session' = [session EXCEPT ![p] = Queue(@, m)], sent' = [sent EXCEPT ![p] = Append(@, m)]
      PROVE  HInv'
  <2> DEFINE t == Queue(s, m)
             said == Append(sent[p], m)
             stream == wire[q] \o s.out
  <2>1. m \in Frames /\ m.kind = "App"
    BY <1>3, FrameFacts
  <2>2. /\ t.phase = s.phase /\ t.codec = s.codec /\ t.out = Append(s.out, m) /\ IsSession(t, Frames)
    BY <1>2, <2>1, Says
  <2>3. said \in Seq(Frames) /\ Len(said) = Len(sent[p]) + 1
    BY <1>2, <2>1, Longer
  <2>4. wire[q] \o t.out = Append(stream, m) /\ stream \in Seq(Frames)
    <3>1. wire[q] \o Append(s.out, m) = Append(stream, m) /\ stream \in Seq(Frames)
      BY <1>2, <2>1, SaysOneMore
    <3> QED
      BY <2>2, <3>1
  <2>5. session' = [session EXCEPT ![p] = t] /\ sent' = [sent EXCEPT ![p] = said]
    BY <1>5
  <2> HIDE DEF t
  <2>6. /\ Greeted(config[q], config[p], session[q], stream) /\ Parting(session[q], s, stream)
        /\ Handed(session[q], got[q], sent[p], stream)
    BY <1>2 DEF Back
  <2>7. got[q] \in Seq(Frames)
    BY <1>2 DEF HInv, HShape
  <2> HIDE DEF stream, m
  <2>8. Greeted(config[q], config[p], session[q], Append(stream, m))
    BY <2>1, <2>4, <2>6, GreetedLonger
  <2>9. Parting(session[q], t, Append(stream, m))
    BY <1>1, <2>1, <2>2, <2>4, <2>6, PartingLonger
  <2>10. Handed(session[q], got[q], said, Append(stream, m)) /\ Numbered(said)
    BY <1>2, <2>1, <2>4, <2>6, <2>7, HandedSends DEF m
  <2>11. /\ Greeted(config[p], config[q], t, Into(p)) /\ Parting(t, session[q], Into(p))
         /\ Handed(t, got[p], sent[q], Into(p))
    BY <1>2, <2>2 DEF End, Greeted, Parting, Handed
  <2>12. Len(said) <= sends'
    BY <1>3, <2>3
  <2> HIDE DEF said
  <2> QED
    BY <1>1, <1>3, <2>2, <2>3, <2>4, <2>5, <2>8, <2>9, <2>10, <2>11, <2>12, SpeakerChanged
<1> QED
  BY <1>4, <1>5 DEF Send

\* The connection begins with a hello from either side.
LEMMA InitEstablishes == HandshakeInit => HInv
<1> SUFFICES ASSUME HandshakeInit PROVE HInv
  OBVIOUS
<1>1. /\ config \in Pairings /\ session = [p \in Peers |-> NewSession(config[p])]
      /\ wire = [p \in Peers |-> <<>>] /\ sends = 0 /\ sent = [p \in Peers |-> <<>>]
      /\ got = [p \in Peers |-> <<>>]
  BY DEF HandshakeInit
<1>2. <<>> \in Seq(Frames) /\ Len(<<>>) = 0
  BY EmptySeq
<1>3. ASSUME NEW p \in Peers
      PROVE  /\ session[p].phase = "AwaitingHello" /\ session[p].out = <<HelloOf(config[p])>>
             /\ IsSession(session[p], Frames)
             /\ HelloOf(config[p]) \in Frames /\ HelloOf(config[p]).kind = "Hello"
  <2>1. HelloOf(config[p]) \in Frames /\ HelloOf(config[p]).kind = "Hello"
    BY <1>1, FrameFacts
  <2>2. session[p] = [phase |-> "AwaitingHello", codec |-> None, out |-> <<HelloOf(config[p])>>]
    BY <1>1 DEF NewSession
  <2>3. <<HelloOf(config[p])>> \in Seq(Frames)
    BY <2>1
  <2> QED
    BY <2>1, <2>2, <2>3 DEF IsSession, Phases
<1>4. Numbered(<<>>)
  BY <1>2 DEF Numbered
<1>5. HShape
  BY <1>1, <1>2, <1>3, <1>4, MaxSendsAssumption DEF HShape
<1>6. ASSUME NEW p \in Peers PROVE End(p)
  <2> DEFINE h == HelloOf(config[Other(p)])
             stream == <<h>>
  <2>1. Other(p) \in Peers
    BY PeerFacts
  <2>2. Into(p) = stream /\ h.kind = "Hello"
    <3>1. stream \in Seq(Frames)
      BY <1>3, <2>1
    <3>2. <<>> \o stream = stream
      BY <3>1, ConcatEmptySeq
    <3> QED
      BY <1>1, <1>3, <2>1, <3>2 DEF Into
  <2>3. Len(stream) = 1 /\ stream[1] = h /\ stream # <<>>
    OBVIOUS
  <2>4. session[p].phase = "AwaitingHello" /\ session[Other(p)].phase = "AwaitingHello"
    BY <1>3, <2>1
  <2>5. got[p] = <<>> /\ sent[Other(p)] = <<>>
    BY <1>1, <2>1
  <2> HIDE DEF stream
  <2>6. \A i \in 1..Len(stream) : i = 1
    BY <2>3
  <2>7. Apps(stream) = {}
    BY <2>2, <2>3, <2>6 DEF Apps
  <2>8. Greeted(config[p], config[Other(p)], session[p], stream)
    BY <2>2, <2>3, <2>4, <2>6 DEF Greeted
  <2>9. Parting(session[p], session[Other(p)], stream)
    BY <2>2, <2>3, <2>4, <2>6 DEF Parting
  <2>10. Handed(session[p], got[p], sent[Other(p)], stream)
    BY <1>2, <2>5, <2>7 DEF Handed
  <2> QED
    BY <2>2, <2>8, <2>9, <2>10 DEF End
<1> QED
  BY <1>5, <1>6 DEF HInv

\* Every step of either end, and every step of neither.
LEMMA StepPreserves == HInv /\ [HandshakeNext]_handshakeVars => HInv'
<1> SUFFICES ASSUME HInv, [HandshakeNext]_handshakeVars PROVE HInv'
  OBVIOUS
<1>1. CASE HandshakeNext
  <2>1. PICK p \in Peers : Read(p) \/ Write(p) \/ Send(p) \/ Close(p)
    BY <1>1 DEF HandshakeNext
  <2> QED
    BY <2>1, ReadPreserves, WritePreserves, SendPreserves, ClosePreserves
<1>2. CASE UNCHANGED handshakeVars
  BY <1>2 DEF handshakeVars, HInv, HShape, End, Into
<1> QED
  BY <1>1, <1>2

\* The handshake, the streams and the logs of both ends hang together at every
\* moment of a connection (session.rs, handle_input and send).
THEOREM HandshakeInvariance == HandshakeSteps => []HInv
<1>1. HandshakeInit => HInv
  BY InitEstablishes
<1>2. HInv /\ [HandshakeNext]_handshakeVars => HInv'
  BY StepPreserves
<1> QED
  BY <1>1, <1>2, PTL DEF HandshakeSteps
-----------------------------------------------------------------------------
(* What it promises.                                                       *)

\* The first of the provider's codecs that the consumer has too.
FirstShared(provider, consumer) ==
    LET common == {i \in 1..Len(provider) : \E j \in 1..Len(consumer) : consumer[j] = provider[i]}
    IN  IF common = {} THEN None
        ELSE provider[CHOOSE i \in common : \A k \in common : i <= k]

\* The provider's preferences decide, whichever end asks.
LEMMA NegotiateAlike ==
    ASSUME NEW cp, NEW cq, HelloAcceptable(cp, HelloOf(cq)), HelloAcceptable(cq, HelloOf(cp))
    PROVE  NegotiateCodec(cp, HelloOf(cq).body) = NegotiateCodec(cq, HelloOf(cp).body)
<1>1. \A c : HelloOf(c).body.role = c.role /\ HelloOf(c).body.codecs = c.codecs
  BY DEF HelloOf, Msg
<1>2. cq.role = Opposite(cp.role) /\ cp.role = Opposite(cq.role)
  BY <1>1 DEF HelloAcceptable
<1>3. cp.role = "Provider" <=> cq.role # "Provider"
  BY <1>2 DEF Opposite
<1>4. \A cfg, hello :
         NegotiateCodec(cfg, hello) =
            FirstShared(IF cfg.role = "Provider" THEN cfg.codecs ELSE hello.codecs,
                        IF cfg.role = "Provider" THEN hello.codecs ELSE cfg.codecs)
  BY DEF NegotiateCodec, FirstShared
<1>5. CASE cp.role = "Provider"
  <2>1. NegotiateCodec(cp, HelloOf(cq).body) = FirstShared(cp.codecs, cq.codecs)
    BY <1>1, <1>4, <1>5
  <2>2. NegotiateCodec(cq, HelloOf(cp).body) = FirstShared(cp.codecs, cq.codecs)
    BY <1>1, <1>3, <1>4, <1>5
  <2> QED
    BY <2>1, <2>2
<1>6. CASE cp.role # "Provider"
  <2>1. NegotiateCodec(cp, HelloOf(cq).body) = FirstShared(cq.codecs, cp.codecs)
    BY <1>1, <1>4, <1>6
  <2>2. NegotiateCodec(cq, HelloOf(cp).body) = FirstShared(cq.codecs, cp.codecs)
    BY <1>1, <1>3, <1>4, <1>6
  <2> QED
    BY <2>1, <2>2
<1> QED
  BY <1>5, <1>6

\* The invariant gives both ends the same codec.
LEMMA CodecsAgreeHere == HInv => CodecsAgree
<1> SUFFICES ASSUME HInv, \A p \in Peers : session[p].phase = "Established"
    PROVE  session["left"].codec = session["right"].codec
  BY DEF CodecsAgree
<1>1. "left" \in Peers /\ "right" \in Peers /\ Other("left") = "right" /\ Other("right") = "left"
  BY DEF Peers, Other
<1>2. End("left") /\ End("right")
  BY <1>1 DEF HInv
<1>3. /\ HelloAcceptable(config["left"], HelloOf(config["right"]))
      /\ session["left"].codec = NegotiateCodec(config["left"], HelloOf(config["right"]).body)
  BY <1>1, <1>2 DEF End, Greeted
<1>4. /\ HelloAcceptable(config["right"], HelloOf(config["left"]))
      /\ session["right"].codec = NegotiateCodec(config["right"], HelloOf(config["left"]).body)
  BY <1>1, <1>2 DEF End, Greeted
<1> QED
  BY <1>3, <1>4, NegotiateAlike

\* Nothing follows a goodbye.
LEMMA GoodbyeIsLastHere == HInv => GoodbyeIsLast
<1> SUFFICES ASSUME HInv, NEW p \in Peers
    PROVE  LET stream == wire[Other(p)] \o session[p].out
           IN  \A i \in 1..Len(stream) : stream[i].kind = "Goodbye" => i = Len(stream)
  BY DEF GoodbyeIsLast
<1>1. Back(p, session[p])
  BY EndFacts
<1> QED
  BY <1>1 DEF Back, Parting

\* With nothing left to read, both ends have closed or neither has.
LEMMA NoHalfOpenHere == HInv => NoHalfOpen
<1> SUFFICES ASSUME HInv, \A p \in Peers : wire[p] = <<>> /\ session[p].out = <<>>
    PROVE  session["left"].phase = session["right"].phase
  BY DEF NoHalfOpen
<1>1. "left" \in Peers /\ "right" \in Peers /\ Other("left") = "right" /\ Other("right") = "left"
  BY DEF Peers, Other
<1>2. ASSUME NEW p \in Peers
      PROVE  /\ Into(p) = <<>> /\ End(p) /\ session[p].phase \in Phases
  <2>1. Other(p) \in Peers
    BY PeerFacts
  <2>2. <<>> \o <<>> = <<>>
    BY EmptySeq, ConcatEmptySeq
  <2>3. IsSession(session[p], Frames)
    BY DEF HInv, HShape
  <2> QED
    BY <2>1, <2>2, <2>3 DEF HInv, Into, IsSession
<1>3. ASSUME NEW p \in Peers
      PROVE  /\ session[p].phase # "AwaitingHello"
             /\ session[Other(p)].phase = "Closed" => session[p].phase = "Closed"
  BY <1>2 DEF End, Greeted, Parting
<1> QED
  BY <1>1, <1>2, <1>3 DEF Phases

\* In whatever order hellos, errors and goodbyes cross, the two ends agree on
\* the codec and on whether there is a session, and a goodbye is a last word
\* (session.rs, handle_hello, fail and close).
THEOREM EndsInAgreement == HandshakeSteps => []EndsAgree
<1>1. HInv => EndsAgree
  BY CodecsAgreeHere, GoodbyeIsLastHere, NoHalfOpenHere DEF EndsAgree
<1> QED
  BY <1>1, HandshakeInvariance, PTL

\* However the bytes are cut into chunks, what one end sends is handed up by
\* the other in order, without loss or repetition (session.rs, handle_input).
THEOREM MessagesInOrder == HandshakeSteps => []InOrder
<1>1. HInv => InOrder
  <2> SUFFICES ASSUME HInv, NEW p \in Peers PROVE IsPrefix(got[p], sent[Other(p)])
    BY DEF InOrder
  <2> DEFINE up == got[p]
             down == sent[Other(p)]
             n == Len(up)
  <2>1. /\ up \in Seq(Frames) /\ down \in Seq(Frames) /\ Numbered(up) /\ Numbered(down) /\ End(p)
    BY EndFacts
  <2>2. n \in Nat /\ Len(down) \in Nat /\ n <= Len(down)
    BY <2>1, LenProperties DEF End, Handed
  <2> HIDE DEF up, down
  <2>3. \A i \in 1..n : up[i] = down[i] /\ up[i] \in Frames /\ down[i] \in Frames
    <3>1. \A i \in 1..n : i \in 1..Len(up) /\ i \in 1..Len(down)
      BY <2>2
    <3>2. \A i \in 1..n : up[i] = down[i]
      BY <2>1, <3>1 DEF Numbered
    <3>3. \A i \in 1..n : up[i] \in Frames /\ down[i] \in Frames
      BY <2>1, <3>1, ElementOfSeq
    <3> QED
      BY <3>2, <3>3
  <2>4. /\ SubSeq(up, 1, n) \in Seq(Frames) /\ Len(SubSeq(up, 1, n)) = n
        /\ \A i \in 1..n : SubSeq(up, 1, n)[i] = up[i]
    BY <2>2, <2>3, FirstOfSeq
  <2>5. /\ SubSeq(down, 1, n) \in Seq(Frames) /\ Len(SubSeq(down, 1, n)) = n
        /\ \A i \in 1..n : SubSeq(down, 1, n)[i] = down[i]
    BY <2>2, <2>3, FirstOfSeq
  <2>6. SubSeq(up, 1, n) = SubSeq(down, 1, n)
    BY <2>3, <2>4, <2>5, SeqEqual
  <2> QED
    BY <2>2, <2>6 DEF IsPrefix, up, down
<1> QED
  BY <1>1, HandshakeInvariance, PTL

\* Sessions, wires and logs keep their shapes, and an established session has a
\* codec.
THEOREM HandshakeWellTyped == HandshakeSteps => []HandshakeTypeOK
<1>1. HInv => HandshakeTypeOK
  <2> SUFFICES ASSUME HInv PROVE HandshakeTypeOK
    OBVIOUS
  <2>1. ASSUME NEW p \in Peers
        PROVE  /\ session[p].phase \in Phases
               /\ session[p].phase = "Established" => session[p].codec # None
               /\ session[p].out \in Seq(Frames) /\ wire[p] \in Seq(Frames)
               /\ Len(sent[p]) <= sends
    <3>1. End(p) /\ IsSession(session[p], Frames) /\ wire[p] \in Seq(Frames) /\ Len(sent[p]) <= sends
      BY EndFacts
    <3>2. session[p].phase = "Established" => session[p].codec # None
      BY <3>1 DEF End, Greeted, HelloAcceptable
    <3> QED
      BY <3>1, <3>2 DEF IsSession
  <2> QED
    BY <2>1 DEF HInv, HShape, HandshakeTypeOK
<1> QED
  BY <1>1, HandshakeInvariance, PTL

-----------------------------------------------------------------------------
(* The length in a header.                                                 *)

\* f begins with a and goes on as step says, in S.
Recursive(f, S, a, n, step) ==
    /\ f \in [0..n -> S]
    /\ f[0] = a
    /\ \A i \in 1..n : f[i] = step[<<f[i - 1], i>>]

\* There is a function given by its value at 0 and each from the one before.
LEMMA Recursion ==
    ASSUME NEW S, NEW a \in S, NEW n \in Nat, NEW step \in [S \X (1..n) -> S]
    PROVE  \E f : Recursive(f, S, a, n, step)
<1> DEFINE T == {k \in Nat : k <= n => \E f : Recursive(f, S, a, k, step)}
<1>1. 0 \in T
  <2>1. Recursive([i \in 0..0 |-> a], S, a, 0, step)
    BY DEF Recursive
  <2> QED
    BY <2>1
<1>2. ASSUME NEW k \in Nat, k \in T PROVE k + 1 \in T
  <2> SUFFICES ASSUME k + 1 <= n PROVE \E f : Recursive(f, S, a, k + 1, step)
    OBVIOUS
  <2>1. PICK f : Recursive(f, S, a, k, step)
    BY <1>2
  <2> DEFINE g == [i \in 0..k + 1 |-> IF i <= k THEN f[i] ELSE step[<<f[k], k + 1>>]]
  <2>2. f[k] \in S /\ <<f[k], k + 1>> \in S \X (1..n)
    BY <2>1 DEF Recursive
  <2>3. g \in [0..k + 1 -> S] /\ g[0] = a
    BY <2>1, <2>2 DEF Recursive
  <2>4. ASSUME NEW i \in 1..k + 1 PROVE g[i] = step[<<g[i - 1], i>>]
    <3>1. CASE i <= k
      BY <2>1, <3>1 DEF Recursive
    <3>2. CASE i = k + 1
      BY <3>2, SMTT(30)
    <3> QED
      BY <3>1, <3>2
  <2>5. Recursive(g, S, a, k + 1, step)
    <3> HIDE DEF g
    <3> QED
      BY <2>3, <2>4 DEF Recursive
  <2> QED
    BY <2>5
<1> HIDE DEF T
<1>3. Nat \subseteq T
  BY <1>1, <1>2, CountingUp
<1> QED
  BY <1>3 DEF T

LEMMA WeightIs ==
    /\ Weight \in [0..HeaderLen -> Nat \ {0}]
    /\ Weight[0] = 1
    /\ \A i \in 1..HeaderLen : Weight[i] = Weight[i - 1] * ByteValues
<1> DEFINE S == Nat \ {0}
           step == [p \in S \X (1..HeaderLen) |-> p[1] * ByteValues]
<1> USE FramingAssumption
<1>1. step \in [S \X (1..HeaderLen) -> S]
  <2>1. \A x \in S : x * ByteValues \in S
    OBVIOUS
  <2> QED
    BY <2>1
<1>2. PICK f : Recursive(f, S, 1, HeaderLen, step)
  <2> HIDE DEF step
  <2>1. 1 \in S /\ HeaderLen \in Nat
    OBVIOUS
  <2> HIDE DEF S
  <2> QED
    BY <1>1, <2>1, Recursion
<1>3. \A i \in 1..HeaderLen : f[i] = f[i - 1] * ByteValues
  <2> SUFFICES ASSUME NEW i \in 1..HeaderLen PROVE f[i] = f[i - 1] * ByteValues
    OBVIOUS
  <2>1. i - 1 \in 0..HeaderLen /\ <<f[i - 1], i>> \in S \X (1..HeaderLen)
    BY <1>2, SMTT(40) DEF Recursive
  <2> QED
    BY <1>2, <2>1 DEF Recursive
<1>4. \E g : g = [i \in 0..HeaderLen |-> IF i = 0 THEN 1 ELSE g[i - 1] * ByteValues]
  <2>1. f = [i \in 0..HeaderLen |-> f[i]]
    BY <1>2 DEF Recursive
  <2> QED
    BY <1>2, <1>3, <2>1, SMTT(40) DEF Recursive
<1>5. Weight = [i \in 0..HeaderLen |-> IF i = 0 THEN 1 ELSE Weight[i - 1] * ByteValues]
  BY <1>4 DEF Weight
<1> DEFINE T == {i \in Nat : i <= HeaderLen => Weight[i] \in Nat \ {0}}
<1>6. 0 \in T
  BY <1>5
<1>7. ASSUME NEW k \in Nat, k \in T PROVE k + 1 \in T
  <2> SUFFICES ASSUME k + 1 <= HeaderLen PROVE Weight[k + 1] \in Nat \ {0}
    OBVIOUS
  <2>1. Weight[k] \in Nat \ {0} /\ Weight[k + 1] = Weight[k] * ByteValues
    BY <1>5, <1>7
  <2> QED
    BY <2>1
<1> HIDE DEF T
<1>8. Nat \subseteq T
  BY <1>6, <1>7, CountingUp
<1>9. \A i \in 0..HeaderLen : Weight[i] \in Nat \ {0}
  BY <1>8 DEF T
<1> QED
  BY <1>5, <1>9, SMTT(40)

\* A quotient is told by a remainder less than the divisor.
LEMMA Quotient ==
    ASSUME NEW a \in Nat, NEW m \in Nat \ {0}, NEW q \in Nat, NEW r \in 0..m - 1, a = m * q + r
    PROVE  a \div m = q
<1> DEFINE p == a \div m
           s == a % m
<1>1. p \in Int /\ s \in 0..m - 1 /\ a = m * p + s
  OBVIOUS
<1> HIDE DEF p, s
<1>2. m * (p - q) = r - s
  BY <1>1
<1>3. CASE p > q
  <2>1. m * (p - q) >= m
    BY <1>1, <1>3
  <2> QED
    BY <1>1, <1>2, <2>1
<1>4. CASE p < q
  <2>1. m * (q - p) >= m
    BY <1>1, <1>4
  <2>2. m * (q - p) = s - r
    BY <1>1, <1>2
  <2> QED
    BY <1>1, <2>1, <2>2
<1> QED
  BY <1>1, <1>3, <1>4 DEF p

\* Dividing by a product is dividing twice.
LEMMA DividingTwice ==
    ASSUME NEW a \in Nat, NEW w \in Nat \ {0}, NEW b \in Nat \ {0}
    PROVE  a \div (w * b) = (a \div w) \div b
<1> DEFINE q == a \div w
           r == a % w
           p == q \div b
           d == q % b
<1>1. q \in Nat /\ r \in 0..w - 1 /\ a = w * q + r
  OBVIOUS
<1> HIDE DEF q, r
<1>2. p \in Nat /\ d \in 0..b - 1 /\ q = b * p + d
  BY <1>1
<1> HIDE DEF p, d
<1>3. a = (w * b) * p + (w * d + r)
  <2>1. w * q = w * (b * p) + w * d
    BY <1>1, <1>2
  <2>2. w * (b * p) = (w * b) * p
    BY <1>2
  <2> QED
    BY <1>1, <1>2, <2>1, <2>2
<1>4. w * d + r \in 0..w * b - 1
  <2>1. w * d <= w * (b - 1)
    BY <1>2
  <2>2. w * (b - 1) = w * b - w
    OBVIOUS
  <2>3. w * d \in Nat /\ w * b \in Nat
    BY <1>2
  <2> QED
    BY <1>1, <2>1, <2>2, <2>3
<1>5. w * b \in Nat \ {0}
  OBVIOUS
<1>6. a \div (w * b) = p
  <2> DEFINE m == w * b
             s == w * d + r
  <2>1. m \in Nat \ {0} /\ s \in 0..m - 1 /\ a = m * p + s
    BY <1>3, <1>4, <1>5
  <2> HIDE DEF m, s
  <2>2. a \div m = p
    BY <1>2, <2>1, Quotient
  <2> QED
    BY <2>2 DEF m
<1> QED
  BY <1>6 DEF p, q

LEMMA HeaderIsBytes ==
    ASSUME NEW len \in Nat
    PROVE  /\ HeaderOf(len) \in [1..HeaderLen -> 0..ByteValues - 1]
           /\ HeaderOf(len) \in Seq(0..ByteValues - 1) /\ Len(HeaderOf(len)) = HeaderLen
<1>1. ASSUME NEW i \in 1..HeaderLen PROVE (len \div Weight[i - 1]) % ByteValues \in 0..ByteValues - 1
  <2>1. Weight[i - 1] \in Nat \ {0}
    BY WeightIs, FramingAssumption
  <2> DEFINE q == len \div Weight[i - 1]
  <2>2. q \in Nat
    BY <2>1
  <2> HIDE DEF q
  <2>3. q % ByteValues \in 0..ByteValues - 1
    BY <2>2, FramingAssumption
  <2> QED
    BY <2>3 DEF q
<1> DEFINE byte(i) == (len \div Weight[i - 1]) % ByteValues
<1>2. HeaderOf(len) = [i \in 1..HeaderLen |-> byte(i)] /\ \A i \in 1..HeaderLen : byte(i) \in 0..ByteValues - 1
  BY <1>1 DEF HeaderOf
<1> HIDE DEF byte
<1> QED
  BY <1>2, FramingAssumption

\* What the bytes of a header up to one count for.
IsUpTo(f, header) ==
    f = [i \in 0..HeaderLen |-> IF i = 0 THEN 0 ELSE f[i - 1] + header[i] * Weight[i - 1]]

LEMMA UpToExists ==
    ASSUME NEW header \in [1..HeaderLen -> 0..ByteValues - 1]
    PROVE  /\ \E f : IsUpTo(f, header)
           /\ \A f : IsUpTo(f, header) => f \in [0..HeaderLen -> Nat]
<1> USE FramingAssumption
<1> DEFINE step == [p \in Nat \X (1..HeaderLen) |-> p[1] + header[p[2]] * Weight[p[2] - 1]]
<1>1. \A i \in 1..HeaderLen : header[i] * Weight[i - 1] \in Nat
  <2> SUFFICES ASSUME NEW i \in 1..HeaderLen PROVE header[i] * Weight[i - 1] \in Nat
    OBVIOUS
  <2>1. header[i] \in Nat /\ Weight[i - 1] \in Nat
    BY WeightIs, SMTT(30)
  <2> QED
    BY <2>1
<1>2. step \in [Nat \X (1..HeaderLen) -> Nat]
  BY <1>1
<1>3. PICK f : Recursive(f, Nat, 0, HeaderLen, step)
  <2> HIDE DEF step
  <2> QED
    BY <1>2, Recursion
<1>4. ASSUME NEW i \in 1..HeaderLen PROVE f[i] = f[i - 1] + header[i] * Weight[i - 1]
  <2>1. <<f[i - 1], i>> \in Nat \X (1..HeaderLen)
    BY <1>3 DEF Recursive
  <2>2. f[i] = step[<<f[i - 1], i>>]
    BY <1>3 DEF Recursive
  <2> QED
    BY <2>1, <2>2
<1>5. IsUpTo(f, header)
  <2>1. f = [i \in 0..HeaderLen |-> f[i]] /\ f[0] = 0
    BY <1>3 DEF Recursive
  <2>2. \A i \in 0..HeaderLen : i = 0 \/ i \in 1..HeaderLen
    OBVIOUS
  <2>3. \A i \in 0..HeaderLen : f[i] = IF i = 0 THEN 0 ELSE f[i - 1] + header[i] * Weight[i - 1]
    BY <1>4, <2>1, <2>2
  <2> QED
    BY <2>1, <2>3 DEF IsUpTo
<1>6. ASSUME NEW g, IsUpTo(g, header) PROVE g \in [0..HeaderLen -> Nat]
  <2> DEFINE T == {i \in Nat : i <= HeaderLen => g[i] \in Nat}
  <2>0. g = [i \in 0..HeaderLen |-> IF i = 0 THEN 0 ELSE g[i - 1] + header[i] * Weight[i - 1]]
    BY <1>6 DEF IsUpTo
  <2>1. 0 \in T
    BY <2>0
  <2>2. ASSUME NEW k \in Nat, k \in T PROVE k + 1 \in T
    <3> SUFFICES ASSUME k + 1 <= HeaderLen PROVE g[k + 1] \in Nat
      OBVIOUS
    <3>1. g[k] \in Nat /\ g[k + 1] = g[k] + header[k + 1] * Weight[k]
      BY <2>0, <2>2
    <3>2. header[k + 1] * Weight[(k + 1) - 1] \in Nat
      BY <1>1
    <3> QED
      BY <3>1, <3>2
  <2> HIDE DEF T
  <2>3. Nat \subseteq T
    BY <2>1, <2>2, CountingUp
  <2>4. \A i \in 0..HeaderLen : g[i] \in Nat
    BY <2>3 DEF T
  <2> QED
    BY <2>0, <2>4
<1> QED
  BY <1>5, <1>6

\* The length read from a header is the one that was written there.
LEMMA LengthRead ==
    ASSUME NEW len \in 0..Weight[HeaderLen] - 1
    PROVE  LengthIn(HeaderOf(len)) = len
<1> USE FramingAssumption
<1> DEFINE header == HeaderOf(len)
           f == CHOOSE g : IsUpTo(g, header)
<1>0. Weight[HeaderLen] \in Nat \ {0} /\ len \in Nat
  BY WeightIs
<1>1. header \in [1..HeaderLen -> 0..ByteValues - 1]
  BY <1>0, HeaderIsBytes
<1>2. LengthIn(header) = f[HeaderLen]
  BY DEF LengthIn, IsUpTo
<1>3. \A i \in 1..HeaderLen : header[i] = (len \div Weight[i - 1]) % ByteValues
  BY DEF HeaderOf
<1> HIDE DEF header
<1>4. IsUpTo(f, header) /\ f \in [0..HeaderLen -> Nat]
  BY <1>1, UpToExists
<1> HIDE DEF f
<1> DEFINE T == {i \in Nat : i <= HeaderLen => f[i] + Weight[i] * (len \div Weight[i]) = len}
<1>5. 0 \in T
  <2>1. f[0] = 0 /\ Weight[0] = 1
    BY <1>4, WeightIs DEF IsUpTo
  <2>2. len \div 1 = len
    BY <1>0
  <2> QED
    BY <1>0, <2>1, <2>2
<1>6. ASSUME NEW k \in Nat, k \in T PROVE k + 1 \in T
  <2> SUFFICES ASSUME k + 1 <= HeaderLen
      PROVE  f[k + 1] + Weight[k + 1] * (len \div Weight[k + 1]) = len
    OBVIOUS
  <2> DEFINE w == Weight[k]
             q == len \div w
             p == q \div ByteValues
             d == q % ByteValues
  <2>1. w \in Nat \ {0} /\ Weight[k + 1] = w * ByteValues
    <3>1. k \in 0..HeaderLen /\ k + 1 \in 1..HeaderLen /\ (k + 1) - 1 = k
      OBVIOUS
    <3>2. Weight[k] \in Nat \ {0}
      BY <3>1, WeightIs
    <3>3. Weight[k + 1] = Weight[(k + 1) - 1] * ByteValues
      BY <3>1, WeightIs
    <3> QED
      BY <3>1, <3>2, <3>3
  <2>2. f[k] + w * q = len /\ f[k] \in Nat
    BY <1>4, <1>6
  <2>3. f[k + 1] = f[k] + d * w
    BY <1>3, <1>4 DEF IsUpTo
  <2>4. len \div Weight[k + 1] = p
    BY <1>0, <2>1, DividingTwice, SMTT(40)
  <2> HIDE DEF w
  <2>5. q \in Nat
    BY <1>0, <2>1
  <2> HIDE DEF q
  <2>6. p \in Nat /\ d \in Nat /\ q = ByteValues * p + d
    BY <2>5
  <2> HIDE DEF p, d
  <2>7. d * w + (w * ByteValues) * p = w * q
    <3>1. w * q = w * (ByteValues * p) + w * d
      BY <2>1, <2>6
    <3>2. w * (ByteValues * p) = (w * ByteValues) * p
      BY <2>1, <2>6
    <3> QED
      BY <3>1, <3>2, <2>1, <2>6
  <2>8. d * w \in Nat /\ (w * ByteValues) * p \in Nat /\ w * q \in Nat
    BY <2>1, <2>5, <2>6
  <2>9. f[k + 1] + Weight[k + 1] * p = len
    <3>1. (f[k] + d * w) + (w * ByteValues) * p = f[k] + w * q
      BY <2>2, <2>7, <2>8, SMTT(40)
    <3> QED
      BY <2>1, <2>2, <2>3, <3>1
  <2> QED
    BY <2>4, <2>9
<1> HIDE DEF T
<1>7. Nat \subseteq T
  BY <1>5, <1>6, CountingUp
<1>8. f[HeaderLen] + Weight[HeaderLen] * (len \div Weight[HeaderLen]) = len
  BY <1>7 DEF T
<1>9. len \div Weight[HeaderLen] = 0
  <2> DEFINE m == Weight[HeaderLen]
  <2>1. m \in Nat \ {0} /\ len \in 0..m - 1 /\ len = m * 0 + len
    BY <1>0
  <2> HIDE DEF m
  <2>2. len \div m = 0
    BY <1>0, <2>1, Quotient
  <2> QED
    BY <2>2 DEF m
<1>10. f[HeaderLen] = len
  BY <1>0, <1>4, <1>8, <1>9
<1> QED
  BY <1>2, <1>10 DEF header

-----------------------------------------------------------------------------
(* A stream of frames.                                                     *)

Byte == 0..ByteValues - 1
Fine == {p \in Seq(Byte) : Len(p) \in 1..MaxFrameLen}
FrameOf(p) == HeaderOf(Len(p)) \o p
Unframed == {0} \cup MaxFrameLen + 1..Weight[HeaderLen] - 1

\* f[i] is the stream of the payloads after the first i.
Written(f, ps) ==
    /\ f \in [0..Len(ps) -> Seq(Byte)]
    /\ f[Len(ps)] = <<>>
    /\ \A i \in 1..Len(ps) : f[i - 1] = FrameOf(ps[i]) \o f[i]

\* What may follow the frames: a header no frame has, if one was written.
Tails(odd) == IF odd THEN {HeaderOf(len) : len \in Unframed} ELSE {<<>>}

\* The stream of the payloads, and its tail.
Carries(stream, ps, odd) ==
    \E f : \E t \in Tails(odd) : Written(f, ps) /\ stream = f[0] \o t

LEMMA Lengths ==
    /\ Weight[HeaderLen] \in Nat \ {0} /\ MaxFrameLen < Weight[HeaderLen]
    /\ HeaderLen \in Nat \ {0} /\ MaxFrameLen \in Nat \ {0} /\ ByteValues \in Nat \ {0}
    /\ \A len \in 0..MaxFrameLen : len \in 0..Weight[HeaderLen] - 1
    /\ \A len \in Unframed : len \in 0..Weight[HeaderLen] - 1
<1>1. HeaderLen \in Nat \ {0} /\ MaxFrameLen \in Nat \ {0} /\ ByteValues \in Nat \ {0}
  BY FramingAssumption
<1>2. Weight[HeaderLen] \in Nat \ {0} /\ MaxFrameLen < Weight[HeaderLen]
  BY <1>1, WeightIs, FramingAssumption
<1> QED
  BY <1>1, <1>2 DEF Unframed

LEMMA FrameOfFine ==
    ASSUME NEW p \in Fine
    PROVE  /\ p \in Seq(Byte) /\ HeaderOf(Len(p)) \in Seq(Byte) /\ Len(HeaderOf(Len(p))) = HeaderLen
           /\ FrameOf(p) \in Seq(Byte) /\ Len(FrameOf(p)) = HeaderLen + Len(p)
           /\ LengthIn(HeaderOf(Len(p))) = Len(p)
           /\ Len(p) \in 1..MaxFrameLen
<1>1. p \in Seq(Byte) /\ Len(p) \in 1..MaxFrameLen
  BY DEF Fine
<1>2. Len(p) \in 0..Weight[HeaderLen] - 1 /\ Len(p) \in Nat
  BY <1>1, Lengths
<1>3. HeaderOf(Len(p)) \in Seq(Byte) /\ Len(HeaderOf(Len(p))) = HeaderLen
  BY <1>2, HeaderIsBytes DEF Byte
<1>4. LengthIn(HeaderOf(Len(p))) = Len(p)
  BY <1>2, LengthRead
<1> QED
  BY <1>1, <1>3, <1>4, ConcatProperties, Lengths DEF FrameOf

LEMMA BytesAssociate ==
    \A s, t, u \in Seq(Byte) : (s \o t) \o u = s \o (t \o u)
BY ConcatAssociative, SMTT(40)

LEMMA FramesAssociate ==
    \A s, t, u \in Seq(Fine) : (s \o t) \o u = s \o (t \o u)
BY ConcatAssociative, SMTT(40)

LEMMA TailIsBytes ==
    ASSUME NEW odd, NEW t \in Tails(odd)
    PROVE  t \in Seq(Byte)
<1>1. CASE odd
  <2>1. PICK len \in Unframed : t = HeaderOf(len)
    BY <1>1 DEF Tails
  <2> QED
    BY <2>1, Lengths, HeaderIsBytes DEF Byte
<1>2. CASE ~odd
  BY <1>2 DEF Tails
<1> QED
  BY <1>1, <1>2

\* Nothing was written yet.
LEMMA NothingCarried == Carries(<<>>, <<>>, FALSE)
<1> DEFINE f == [i \in 0..0 |-> <<>>]
<1>1. Written(f, <<>>)
  BY DEF Written
<1>2. <<>> = f[0] \o <<>> /\ <<>> \in Tails(FALSE)
  BY DEF Tails
<1> QED
  BY <1>1, <1>2 DEF Carries

\* A frame is written behind the others.
LEMMA OneMoreCarried ==
    ASSUME NEW ps \in Seq(Fine), NEW p \in Fine, NEW stream \in Seq(Byte), Carries(stream, ps, FALSE)
    PROVE  Carries(stream \o FrameOf(p), Append(ps, p), FALSE)
<1>1. PICK f : Written(f, ps) /\ stream = f[0] \o <<>>
  BY DEF Carries, Tails
<1> DEFINE n == Len(ps)
           qs == Append(ps, p)
           g == [i \in 0..n + 1 |-> IF i = n + 1 THEN <<>> ELSE f[i] \o FrameOf(p)]
<1>2. n \in Nat /\ Len(qs) = n + 1 /\ qs[n + 1] = p /\ \A i \in 1..n : qs[i] = ps[i] /\ ps[i] \in Fine
  BY AppendProperties
<1>3. \A i \in 0..n : f[i] \in Seq(Byte)
  BY <1>1 DEF Written
<1>4. FrameOf(p) \in Seq(Byte)
  BY FrameOfFine
<1>5. g \in [0..n + 1 -> Seq(Byte)]
  <2>1. \A i \in 0..n : f[i] \o FrameOf(p) \in Seq(Byte)
    BY <1>3, <1>4, ConcatProperties
  <2>2. <<>> \in Seq(Byte)
    OBVIOUS
  <2> QED
    BY <1>2, <2>1, <2>2
<1>6. ASSUME NEW i \in 1..n + 1 PROVE g[i - 1] = FrameOf(qs[i]) \o g[i]
  <2>1. CASE i = n + 1
    <3>0. i - 1 = n /\ n \in 0..n + 1 /\ n # n + 1 /\ f[n] = <<>>
      BY <1>1, <1>2, <2>1 DEF Written
    <3>1. g[n] = <<>> \o FrameOf(p) /\ g[n + 1] = <<>>
      <4>1. g[n] = f[n] \o FrameOf(p) /\ g[n + 1] = <<>>
        BY <1>2
      <4> QED
        BY <3>0, <4>1
    <3> HIDE DEF g, n
    <3>2. <<>> \o FrameOf(p) = FrameOf(p) /\ FrameOf(p) \o <<>> = FrameOf(p)
      BY <1>4, ConcatEmptySeq
    <3> QED
      BY <1>2, <2>1, <3>0, <3>1, <3>2
  <2>2. CASE i \in 1..n
    <3>1. g[i - 1] = f[i - 1] \o FrameOf(p) /\ g[i] = f[i] \o FrameOf(p)
      BY <1>2, <2>2, SMTT(40)
    <3>2. f[i - 1] = FrameOf(ps[i]) \o f[i] /\ f[i] \in Seq(Byte)
      <4>1. i \in 0..n
        BY <1>2, <2>2
      <4>2. f[i - 1] = FrameOf(ps[i]) \o f[i]
        BY <1>1, <2>2 DEF Written
      <4> QED
        BY <1>3, <4>1, <4>2
    <3>3. FrameOf(ps[i]) \in Seq(Byte)
      BY <1>2, <2>2, FrameOfFine
    <3>4. (FrameOf(ps[i]) \o f[i]) \o FrameOf(p) = FrameOf(ps[i]) \o (f[i] \o FrameOf(p))
      BY <1>4, <3>2, <3>3, BytesAssociate
    <3> QED
      BY <1>2, <2>2, <3>1, <3>2, <3>4
  <2>3. i = n + 1 \/ i \in 1..n
    BY <1>2
  <2> QED
    BY <2>1, <2>2, <2>3
<1>7. Written(g, qs)
  <2>1. g[n + 1] = <<>>
    BY <1>2
  <2> HIDE DEF g
  <2> QED
    BY <1>2, <1>5, <1>6, <2>1 DEF Written
<1>8. g[0] = stream \o FrameOf(p) /\ g[0] \in Seq(Byte)
  <2>1. g[0] = f[0] \o FrameOf(p)
    BY <1>2
  <2>2. stream = f[0]
    BY <1>1, <1>2, <1>3, ConcatEmptySeq
  <2> QED
    BY <1>2, <1>5, <2>1, <2>2, SMTT(40)
<1>9. stream \o FrameOf(p) = g[0] \o <<>>
  BY <1>8, ConcatEmptySeq
<1> HIDE DEF g, qs
<1> QED
  BY <1>7, <1>9 DEF Carries, Tails, qs

\* A header no frame has is written behind them.
LEMMA ForeignCarried ==
    ASSUME NEW ps \in Seq(Fine), NEW len \in Unframed, NEW stream \in Seq(Byte),
           Carries(stream, ps, FALSE)
    PROVE  Carries(stream \o HeaderOf(len), ps, TRUE)
<1>1. PICK f : Written(f, ps) /\ stream = f[0] \o <<>>
  BY DEF Carries, Tails
<1>2. f[0] \in Seq(Byte)
  <2>1. Len(ps) \in Nat
    OBVIOUS
  <2> QED
    BY <1>1, <2>1 DEF Written
<1>3. stream = f[0]
  BY <1>1, <1>2, ConcatEmptySeq
<1>4. HeaderOf(len) \in Tails(TRUE)
  BY DEF Tails
<1> QED
  BY <1>1, <1>3, <1>4 DEF Carries

\* What is first in a stream that carries a payload.
LEMMA FirstCarried ==
    ASSUME NEW ps \in Seq(Fine), ps # <<>>, NEW odd, NEW stream, Carries(stream, ps, odd)
    PROVE  \E s \in Seq(Byte) : stream = FrameOf(ps[1]) \o s /\ Carries(s, Tail(ps), odd)
<1>1. PICK f, t : t \in Tails(odd) /\ Written(f, ps) /\ stream = f[0] \o t
  BY DEF Carries
<1> DEFINE n == Len(ps)
           g == [i \in 0..n - 1 |-> f[i + 1]]
<1>2. n \in Nat \ {0} /\ Tail(ps) \in Seq(Fine) /\ Len(Tail(ps)) = n - 1
      /\ (\A i \in 1..n - 1 : Tail(ps)[i] = ps[i + 1]) /\ ps[1] \in Fine
  BY HeadTailProperties, EmptySeq
<1>3. \A i \in 0..n : f[i] \in Seq(Byte)
  BY <1>1 DEF Written
<1>4. Written(g, Tail(ps))
  <2>1. g \in [0..n - 1 -> Seq(Byte)] /\ g[n - 1] = <<>>
    BY <1>1, <1>2, <1>3 DEF Written
  <2>2. ASSUME NEW i \in 1..n - 1 PROVE g[i - 1] = FrameOf(Tail(ps)[i]) \o g[i]
    <3>1. i + 1 \in 1..n /\ (i + 1) - 1 = i /\ g[i - 1] = f[i] /\ g[i] = f[i + 1]
      BY <1>2
    <3>2. f[(i + 1) - 1] = FrameOf(ps[i + 1]) \o f[i + 1]
      BY <1>1, <3>1 DEF Written
    <3> QED
      BY <1>2, <3>1, <3>2
  <2> HIDE DEF g
  <2> QED
    BY <1>2, <2>1, <2>2 DEF Written
<1>5. f[0] = FrameOf(ps[1]) \o f[1] /\ g[0] = f[1]
  <2>1. 1 \in 1..n /\ 0 \in 0..n - 1
    BY <1>2
  <2>2. \A j : j = 1 - 1 => f[j] = FrameOf(ps[1]) \o f[1]
    BY <1>1, <2>1 DEF Written
  <2>3. \A j : j = 0 + 1 => g[0] = f[j]
    BY <2>1
  <2>4. 0 = 1 - 1 /\ 1 = 0 + 1
    OBVIOUS
  <2> QED
    BY ONLY <2>2, <2>3, <2>4
<1>6. t \in Seq(Byte) /\ f[1] \in Seq(Byte) /\ FrameOf(ps[1]) \in Seq(Byte)
  <2>1. 1 \in 0..n
    BY <1>2
  <2> QED
    BY <1>1, <1>2, <1>3, <2>1, TailIsBytes, FrameOfFine
<1>7. stream = FrameOf(ps[1]) \o (f[1] \o t)
  <2>1. (FrameOf(ps[1]) \o f[1]) \o t = FrameOf(ps[1]) \o (f[1] \o t)
    BY <1>6, BytesAssociate
  <2> QED
    BY <1>1, <1>5, <2>1
<1>8. f[1] \o t \in Seq(Byte)
  BY <1>6, ConcatProperties
<1>9. Carries(f[1] \o t, Tail(ps), odd)
  <2> HIDE DEF g
  <2> QED
    BY <1>1, <1>4, <1>5 DEF Carries
<1> QED
  BY <1>7, <1>8, <1>9

\* A stream that carries nothing.
LEMMA NoneCarried ==
    ASSUME NEW odd, NEW stream, Carries(stream, <<>>, odd)
    PROVE  stream \in Tails(odd)
<1>1. PICK f, t : t \in Tails(odd) /\ Written(f, <<>>) /\ stream = f[0] \o t
  BY DEF Carries
<1>2. f[0] = <<>>
  BY <1>1 DEF Written
<1> QED
  BY <1>1, <1>2, TailIsBytes, ConcatEmptySeq

-----------------------------------------------------------------------------
(* What the reader finds.                                                  *)

LEMMA PartOf ==
    ASSUME NEW S, NEW s \in Seq(S), NEW m \in 1..Len(s) + 1, NEW n \in m - 1..Len(s)
    PROVE  /\ SubSeq(s, m, n) \in Seq(S)
           /\ Len(SubSeq(s, m, n)) = n - m + 1
           /\ \A i \in 1..n - m + 1 : SubSeq(s, m, n)[i] = s[m + i - 1]
<1>1. m \in Int /\ n \in Int /\ Len(s) \in Nat
  OBVIOUS
<1>2. \A i \in m..n : s[i] \in S
  <2>1. \A i \in m..n : i \in 1..Len(s)
    BY <1>1
  <2> QED
    BY <2>1, ElementOfSeq
<1>3. Len(SubSeq(s, m, n)) = n - m + 1
  <2>1. Len(SubSeq(s, m, n)) = IF m <= n THEN n - m + 1 ELSE 0
    BY <1>1, <1>2, SubSeqProperties
  <2> QED
    BY <1>1, <2>1
<1> QED
  BY <1>1, <1>2, <1>3, SubSeqProperties, SMTT(40)

\* A part of the rest of s is a part of s.
LEMMA PartOfRest ==
    ASSUME NEW S, NEW s \in Seq(S), NEW k \in 0..Len(s), NEW i \in Nat,
           NEW j \in i..Len(s) - k
    PROVE  SubSeq(SubSeq(s, k + 1, Len(s)), i + 1, j) = SubSeq(s, k + i + 1, k + j)
<1> DEFINE u == SubSeq(s, k + 1, Len(s))
<1>0. Len(s) \in Nat /\ k \in Nat /\ j \in Nat
  OBVIOUS
<1>1. u \in Seq(S) /\ Len(u) = Len(s) - k /\ \A x \in 1..Len(s) - k : u[x] = s[k + x]
  <2>1. k + 1 \in 1..Len(s) + 1 /\ Len(s) \in (k + 1) - 1..Len(s) /\ Len(s) - (k + 1) + 1 = Len(s) - k
    BY <1>0
  <2>2. \A x \in 1..Len(s) - k : (k + 1) + x - 1 = k + x
    BY <1>0
  <2>3. /\ u \in Seq(S) /\ Len(u) = Len(s) - (k + 1) + 1
        /\ \A x \in 1..Len(s) - (k + 1) + 1 : u[x] = s[(k + 1) + x - 1]
    BY <2>1, PartOf
  <2> HIDE DEF u
  <2> QED
    BY <2>1, <2>2, <2>3
<1> HIDE DEF u
<1> DEFINE v == SubSeq(u, i + 1, j)
           w == SubSeq(s, k + i + 1, k + j)
<1>2. v \in Seq(S) /\ Len(v) = j - i /\ \A x \in 1..j - i : v[x] = u[i + x]
  <2>1. i + 1 \in 1..Len(u) + 1 /\ j \in (i + 1) - 1..Len(u) /\ j - (i + 1) + 1 = j - i
    BY <1>0, <1>1
  <2>2. \A x \in 1..j - i : (i + 1) + x - 1 = i + x
    BY <1>0
  <2> QED
    BY <1>1, <2>1, <2>2, PartOf
<1>3. w \in Seq(S) /\ Len(w) = j - i /\ \A x \in 1..j - i : w[x] = s[k + i + x]
  <2>1. k + i + 1 \in 1..Len(s) + 1 /\ k + j \in (k + i + 1) - 1..Len(s)
        /\ (k + j) - (k + i + 1) + 1 = j - i
    BY <1>0
  <2>2. \A x \in 1..j - i : (k + i + 1) + x - 1 = k + i + x
    BY <1>0
  <2>3. /\ w \in Seq(S) /\ Len(w) = (k + j) - (k + i + 1) + 1
        /\ \A x \in 1..(k + j) - (k + i + 1) + 1 : w[x] = s[(k + i + 1) + x - 1]
    BY <2>1, PartOf
  <2> HIDE DEF w
  <2> QED
    BY <2>1, <2>2, <2>3
<1> HIDE DEF v, w
<1>4. ASSUME NEW x \in 1..j - i PROVE v[x] = w[x]
  <2>1. i + x \in 1..Len(s) - k /\ k + (i + x) = k + i + x
    BY <1>0
  <2> QED
    BY <1>1, <1>2, <1>3, <2>1
<1>5. v = w
  BY <1>2, <1>3, <1>4, SeqEqual
<1> QED
  BY <1>5 DEF v, w, u

\* What a stream begins with is what is there of it, if enough is.
LEMMA Begins ==
    ASSUME NEW u \in Seq(Byte), NEW after \in Seq(Byte), NEW h \in Seq(Byte), NEW s \in Seq(Byte),
           u \o after = h \o s, Len(h) <= Len(u)
    PROVE  /\ SubSeq(u, 1, Len(h)) = h
           /\ SubSeq(u, Len(h) + 1, Len(u)) \in Seq(Byte)
           /\ SubSeq(u, Len(h) + 1, Len(u)) \o after = s
<1> DEFINE n == Len(h)
           m == Len(u)
           z == u \o after
<1>0. n \in Nat /\ m \in Nat /\ n <= m /\ Len(after) \in Nat /\ Len(s) \in Nat
  OBVIOUS
<1>1. Len(z) = m + Len(after) /\ \A x \in 1..m + Len(after) : z[x] = IF x <= m THEN u[x] ELSE after[x - m]
  BY ConcatProperties
<1>2. Len(z) = n + Len(s) /\ \A x \in 1..n + Len(s) : z[x] = IF x <= n THEN h[x] ELSE s[x - n]
  <2>1. z = h \o s
    OBVIOUS
  <2> HIDE DEF z
  <2> QED
    BY <2>1, ConcatProperties
<1> HIDE DEF z
<1> DEFINE a == SubSeq(u, 1, n)
           b == SubSeq(u, n + 1, m)
<1>3. a \in Seq(Byte) /\ Len(a) = n /\ \A x \in 1..n : a[x] = u[x]
  <2>1. 1 \in 1..m + 1 /\ n \in 1 - 1..m /\ n - 1 + 1 = n /\ \A x \in 1..n : 1 + x - 1 = x
    BY <1>0
  <2> QED
    BY <2>1, PartOf
<1>4. b \in Seq(Byte) /\ Len(b) = m - n /\ \A x \in 1..m - n : b[x] = u[n + x]
  <2>1. n + 1 \in 1..m + 1 /\ m \in (n + 1) - 1..m /\ m - (n + 1) + 1 = m - n
        /\ \A x \in 1..m - n : (n + 1) + x - 1 = n + x
    BY <1>0
  <2> QED
    BY <2>1, PartOf
<1> HIDE DEF a, b
<1>5. a = h
  <2>1. ASSUME NEW x \in 1..n PROVE a[x] = h[x]
    <3>1. x \in 1..m + Len(after) /\ x <= m /\ x \in 1..n + Len(s) /\ x <= n
      BY <1>0
    <3> QED
      BY <1>1, <1>2, <1>3, <3>1
  <2> QED
    BY <1>3, <2>1, SeqEqual
<1> DEFINE c == b \o after
<1>6. c \in Seq(Byte) /\ Len(c) = (m - n) + Len(after)
      /\ \A x \in 1..(m - n) + Len(after) : c[x] = IF x <= m - n THEN b[x] ELSE after[x - (m - n)]
  <2>1. c \in Seq(Byte) /\ Len(c) = Len(b) + Len(after)
        /\ \A x \in 1..Len(b) + Len(after) : c[x] = IF x <= Len(b) THEN b[x] ELSE after[x - Len(b)]
    BY <1>4, ConcatProperties
  <2> HIDE DEF c
  <2> QED
    BY <1>4, <2>1
<1> HIDE DEF c
<1>7. c = s
  <2>1. Len(c) = Len(s)
    BY <1>0, <1>1, <1>2, <1>6
  <2>2. ASSUME NEW x \in 1..Len(s) PROVE c[x] = s[x]
    <3>1. n + x \in 1..n + Len(s) /\ ~(n + x <= n) /\ (n + x) - n = x /\ n + x \in 1..m + Len(after)
      BY <1>0, <1>1, <1>2
    <3>2. z[n + x] = s[x]
      BY <1>2, <3>1
    <3>3. CASE x <= m - n
      <4>1. n + x <= m /\ x \in 1..m - n /\ x \in 1..(m - n) + Len(after)
        BY <1>0, <3>3
      <4> QED
        BY <1>1, <1>4, <1>6, <3>1, <3>2, <3>3, <4>1
    <3>4. CASE ~(x <= m - n)
      <4>1. ~(n + x <= m) /\ (n + x) - m = x - (m - n) /\ x \in 1..(m - n) + Len(after)
        BY <1>0, <1>1, <1>2, <3>1, <3>4
      <4> QED
        BY <1>1, <1>6, <3>1, <3>2, <3>4, <4>1
    <3> QED
      BY <3>3, <3>4
  <2> QED
    BY <1>6, <2>1, <2>2, SeqEqual
<1> QED
  BY <1>4, <1>5, <1>7 DEF a, b, c

LEMMA BytesBegin ==
    \A u, after, h, s \in Seq(Byte) :
        u \o after = h \o s /\ Len(h) <= Len(u) =>
            /\ SubSeq(u, 1, Len(h)) = h
            /\ SubSeq(u, Len(h) + 1, Len(u)) \in Seq(Byte)
            /\ SubSeq(u, Len(h) + 1, Len(u)) \o after = s
BY Begins, ZenonT(60)

Readers == [buf : Seq(Byte), pos : Nat]
Unread(r) == SubSeq(r.buf, r.pos + 1, Len(r.buf))

\* Not a whole frame yet, and its length, if it is there, no mistake.
Incomplete(u) ==
    \/ Len(u) < HeaderLen
    \/ /\ LengthIn(SubSeq(u, 1, HeaderLen)) \in 1..MaxFrameLen
       /\ Len(u) < HeaderLen + LengthIn(SubSeq(u, 1, HeaderLen))

\* next_frame, said of the bytes that are unread.
LEMMA NextOfUnread ==
    ASSUME NEW r \in Readers, r.pos <= Len(r.buf),
           NEW u, u = Unread(r),
           NEW len, len = LengthIn(SubSeq(u, 1, HeaderLen))
    PROVE  /\ u \in Seq(Byte) /\ Len(u) = Len(r.buf) - r.pos
           /\ Len(u) < HeaderLen =>
                 NextFrame(r) = [reader |-> [buf |-> u, pos |-> 0], gives |-> "nothing", payload |-> <<>>]
           /\ Len(u) >= HeaderLen /\ len = 0 => NextFrame(r).gives = "Empty"
           /\ Len(u) >= HeaderLen /\ len # 0 /\ len > MaxFrameLen => NextFrame(r).gives = "TooLarge"
           /\ Len(u) >= HeaderLen /\ len # 0 /\ ~(len > MaxFrameLen) /\ Len(u) < HeaderLen + len =>
                 NextFrame(r) = [reader |-> [buf |-> u, pos |-> 0], gives |-> "nothing", payload |-> <<>>]
           /\ Len(u) >= HeaderLen /\ len \in 1..MaxFrameLen /\ Len(u) >= HeaderLen + len =>
                 NextFrame(r) =
                    [reader |-> [buf |-> r.buf, pos |-> r.pos + HeaderLen + len], gives |-> "frame",
                     payload |-> SubSeq(u, HeaderLen + 1, HeaderLen + len)]
<1> DEFINE buf == r.buf
           pos == r.pos
<1>1. buf \in Seq(Byte) /\ pos \in Nat /\ pos <= Len(buf) /\ Len(buf) \in Nat /\ r = [buf |-> buf, pos |-> pos]
  BY DEF Readers
<1>2. u = SubSeq(buf, pos + 1, Len(buf))
  BY DEF Unread
<1>3. pos + 1 \in 1..Len(buf) + 1 /\ Len(buf) \in (pos + 1) - 1..Len(buf) /\ Len(buf) - (pos + 1) + 1 = Len(buf) - pos
  BY <1>1
<1>4. u \in Seq(Byte) /\ Len(u) = Len(buf) - pos
  BY <1>1, <1>2, <1>3, PartOf
<1>5. Len(u) >= HeaderLen => SubSeq(buf, pos + 1, pos + HeaderLen) = SubSeq(u, 1, HeaderLen)
  <2> SUFFICES ASSUME Len(u) >= HeaderLen
      PROVE  SubSeq(buf, pos + 1, pos + HeaderLen) = SubSeq(u, 1, HeaderLen)
    OBVIOUS
  <2>1. pos \in 0..Len(buf) /\ 0 \in Nat /\ HeaderLen \in 0..Len(buf) - pos /\ 0 + 1 = 1 /\ pos + 0 + 1 = pos + 1
    BY <1>1, <1>4, Lengths
  <2>2. SubSeq(SubSeq(buf, pos + 1, Len(buf)), 0 + 1, HeaderLen) = SubSeq(buf, pos + 0 + 1, pos + HeaderLen)
    BY <1>1, <2>1, PartOfRest, ZenonT(60)
  <2> QED
    BY <1>2, <2>1, <2>2
<1>6. ASSUME Len(u) >= HeaderLen, len \in 1..MaxFrameLen, Len(u) >= HeaderLen + len
      PROVE  SubSeq(buf, pos + HeaderLen + 1, pos + HeaderLen + len) = SubSeq(u, HeaderLen + 1, HeaderLen + len)
  <2>0. len \in Nat /\ HeaderLen \in Nat
    BY <1>6, Lengths
  <2>1. pos \in 0..Len(buf) /\ HeaderLen + len \in HeaderLen..Len(buf) - pos
        /\ pos + (HeaderLen + len) = pos + HeaderLen + len
    BY <1>1, <1>4, <1>6, <2>0
  <2>2. SubSeq(SubSeq(buf, pos + 1, Len(buf)), HeaderLen + 1, HeaderLen + len)
            = SubSeq(buf, pos + HeaderLen + 1, pos + (HeaderLen + len))
    <3> DEFINE j == HeaderLen + len
    <3>1. j \in HeaderLen..Len(buf) - pos /\ buf \in Seq(Byte) /\ pos \in 0..Len(buf)
      BY <1>1, <2>1
    <3> HIDE DEF j, buf, pos
    <3>2. SubSeq(SubSeq(buf, pos + 1, Len(buf)), HeaderLen + 1, j) = SubSeq(buf, pos + HeaderLen + 1, pos + j)
      BY <2>0, <3>1, PartOfRest
    <3> QED
      BY <3>2 DEF j
  <2> QED
    BY <1>2, <2>1, <2>2
<1>7. Compact(r) = [buf |-> u, pos |-> 0]
  BY <1>2 DEF Compact
<1> DEFINE avail == Len(buf) - pos
           size == LengthIn(SubSeq(buf, pos + 1, pos + HeaderLen))
           start == pos + HeaderLen
<1>8. NextFrame(r) =
    CASE avail < HeaderLen -> [reader |-> Compact(r), gives |-> "nothing", payload |-> <<>>]
      [] avail >= HeaderLen /\ size = 0 -> [reader |-> r, gives |-> "Empty", payload |-> <<>>]
      [] avail >= HeaderLen /\ size > MaxFrameLen ->
            [reader |-> r, gives |-> "TooLarge", payload |-> <<>>]
      [] OTHER -> IF avail < HeaderLen + size
                  THEN [reader |-> Compact(r), gives |-> "nothing", payload |-> <<>>]
                  ELSE [reader |-> [r EXCEPT !.pos = start + size], gives |-> "frame",
                        payload |-> SubSeq(buf, start + 1, start + size)]
  BY DEF NextFrame
<1>9. avail = Len(u) /\ avail \in Nat /\ HeaderLen \in Nat /\ MaxFrameLen \in Nat
  BY <1>1, <1>4, Lengths
<1>10. avail >= HeaderLen => size = len
  BY <1>5, <1>9
<1> HIDE DEF size
<1>11. Len(u) < HeaderLen =>
          NextFrame(r) = [reader |-> [buf |-> u, pos |-> 0], gives |-> "nothing", payload |-> <<>>]
  BY <1>7, <1>8, <1>9
<1>12. Len(u) >= HeaderLen /\ len = 0 => NextFrame(r).gives = "Empty"
  BY <1>8, <1>9, <1>10
<1>13. Len(u) >= HeaderLen /\ len # 0 /\ len > MaxFrameLen => NextFrame(r).gives = "TooLarge"
  BY <1>8, <1>9, <1>10
<1>14. Len(u) >= HeaderLen /\ len # 0 /\ ~(len > MaxFrameLen) /\ Len(u) < HeaderLen + len =>
          NextFrame(r) = [reader |-> [buf |-> u, pos |-> 0], gives |-> "nothing", payload |-> <<>>]
  BY <1>7, <1>8, <1>9, <1>10
<1>15. ASSUME Len(u) >= HeaderLen, len \in 1..MaxFrameLen, Len(u) >= HeaderLen + len
       PROVE  NextFrame(r) =
                [reader |-> [buf |-> r.buf, pos |-> r.pos + HeaderLen + len], gives |-> "frame",
                 payload |-> SubSeq(u, HeaderLen + 1, HeaderLen + len)]
  <2>1. len # 0 /\ ~(len > MaxFrameLen) /\ ~(avail < HeaderLen) /\ ~(avail < HeaderLen + len) /\ size = len
    BY <1>9, <1>10, <1>15
  <2>2. NextFrame(r) = [reader |-> [r EXCEPT !.pos = start + len], gives |-> "frame",
                        payload |-> SubSeq(buf, start + 1, start + len)]
    BY <1>8, <2>1
  <2>3. [r EXCEPT !.pos = start + len] = [buf |-> r.buf, pos |-> r.pos + HeaderLen + len]
    BY <1>1
  <2> QED
    BY <1>6, <1>15, <2>2, <2>3
<1> QED
  BY <1>4, <1>11, <1>12, <1>13, <1>14, <1>15

\* What next_frame, giving n, makes of a stream that carries payloads.
Found(r, n, after, rest, odd) ==
    \/ n.gives = "nothing" /\ n.reader = [buf |-> Unread(r), pos |-> 0] /\ Incomplete(Unread(r))
    \/ n.gives \in {"Empty", "TooLarge"} /\ odd
    \/ /\ n.gives = "frame" /\ rest # <<>> /\ n.payload = rest[1]
       /\ n.reader \in Readers /\ n.reader.buf = r.buf
       /\ n.reader.pos > r.pos /\ n.reader.pos <= Len(r.buf)
       /\ Carries(Unread(n.reader) \o after, Tail(rest), odd)

LEMMA NextCarried ==
    ASSUME NEW r \in Readers, r.pos <= Len(r.buf), NEW after \in Seq(Byte), NEW rest \in Seq(Fine),
           NEW odd \in BOOLEAN, Carries(Unread(r) \o after, rest, odd),
           NEW n, n = NextFrame(r)
    PROVE  Found(r, n, after, rest, odd)
<1> USE DEF Found
<1> DEFINE u == Unread(r)
           len == LengthIn(SubSeq(u, 1, HeaderLen))
<1>1. /\ u \in Seq(Byte) /\ Len(u) = Len(r.buf) - r.pos
      /\ r.buf \in Seq(Byte) /\ r.pos \in Nat /\ Len(r.buf) \in Nat /\ Len(u) \in Nat
      /\ HeaderLen \in Nat \ {0} /\ MaxFrameLen \in Nat
  BY NextOfUnread, Lengths DEF Readers
<1>2. CASE Len(u) < HeaderLen
  <2>1. n = [reader |-> [buf |-> u, pos |-> 0], gives |-> "nothing", payload |-> <<>>]
    BY <1>2, NextOfUnread
  <2> QED
    BY <1>2, <2>1 DEF Incomplete
<1>3. CASE Len(u) >= HeaderLen /\ rest # <<>>
  <2> DEFINE p == rest[1]
             h == HeaderOf(Len(p))
  <2>1. PICK s \in Seq(Byte) : u \o after = FrameOf(p) \o s /\ Carries(s, Tail(rest), odd)
    BY <1>3, FirstCarried
  <2>2. p \in Fine
    <3>1. Len(rest) \in Nat \ {0}
      BY <1>3, EmptySeq
    <3> QED
      BY <3>1, ElementOfSeq
  <2>3. /\ p \in Seq(Byte) /\ h \in Seq(Byte) /\ Len(h) = HeaderLen
        /\ FrameOf(p) \in Seq(Byte) /\ Len(FrameOf(p)) = HeaderLen + Len(p)
        /\ LengthIn(h) = Len(p) /\ Len(p) \in 1..MaxFrameLen /\ FrameOf(p) = h \o p
    BY <2>2, FrameOfFine DEF FrameOf
  <2> HIDE DEF p, h
  <2>4. u \o after = h \o (p \o s) /\ p \o s \in Seq(Byte)
    <3>1. (h \o p) \o s = h \o (p \o s)
      BY <2>3, BytesAssociate, ZenonT(60)
    <3>2. p \o s \in Seq(Byte)
      BY <2>3, ConcatProperties
    <3> HIDE DEF u
    <3> QED
      BY <2>1, <2>3, <3>1, <3>2
  <2> DEFINE v == SubSeq(u, HeaderLen + 1, Len(u))
  <2>5. SubSeq(u, 1, HeaderLen) = h /\ v \in Seq(Byte) /\ v \o after = p \o s
    <3>1. /\ SubSeq(u, 1, Len(h)) = h
          /\ SubSeq(u, Len(h) + 1, Len(u)) \in Seq(Byte)
          /\ SubSeq(u, Len(h) + 1, Len(u)) \o after = p \o s
      <4> HIDE DEF u, len, v
      <4>1. Len(h) <= Len(u)
        BY <1>1, <1>3, <2>3
      <4>2. u \in Seq(Byte) /\ after \in Seq(Byte) /\ h \in Seq(Byte)
        BY <1>1, <2>3
      <4> DEFINE ps == p \o s
      <4>3. ps \in Seq(Byte) /\ u \o after = h \o ps
        BY <2>4
      <4> HIDE DEF ps
      <4>4. /\ SubSeq(u, 1, Len(h)) = h
            /\ SubSeq(u, Len(h) + 1, Len(u)) \in Seq(Byte)
            /\ SubSeq(u, Len(h) + 1, Len(u)) \o after = ps
        BY <4>1, <4>2, <4>3, BytesBegin, ZenonT(60)
      <4> QED
        BY <4>4 DEF ps
    <3> QED
      BY <2>3, <3>1
  <2>6. len = Len(p)
    BY <2>3, <2>5
  <2>7. CASE Len(u) < HeaderLen + len
    <3>1. len # 0 /\ ~(len > MaxFrameLen)
      BY <1>1, <2>3, <2>6, SMTT(30)
    <3>2. n = [reader |-> [buf |-> u, pos |-> 0], gives |-> "nothing", payload |-> <<>>]
      BY <1>3, <2>7, <3>1, NextOfUnread
    <3> QED
      BY <2>3, <2>6, <2>7, <3>2, SMTT(40) DEF Incomplete
  <2>8. CASE ~(Len(u) < HeaderLen + len)
    <3>0. len \in Nat \ {0} /\ len <= MaxFrameLen /\ HeaderLen + len <= Len(u)
      BY <1>1, <2>3, <2>6, <2>8, SMTT(30)
    <3>1. n = [reader |-> [buf |-> r.buf, pos |-> r.pos + HeaderLen + len], gives |-> "frame",
               payload |-> SubSeq(u, HeaderLen + 1, HeaderLen + len)]
      <4>1. len \in 1..MaxFrameLen /\ Len(u) >= HeaderLen + len
        BY <1>1, <3>0
      <4> QED
        BY <1>3, <4>1, NextOfUnread
    <3>2. SubSeq(u, HeaderLen + 1, HeaderLen + len) = p
      <4>1. Len(v) = Len(u) - HeaderLen
        <5>1. HeaderLen + 1 \in 1..Len(u) + 1 /\ Len(u) \in (HeaderLen + 1) - 1..Len(u)
              /\ Len(u) - (HeaderLen + 1) + 1 = Len(u) - HeaderLen
          BY <1>1, <1>3, SMTT(40)
        <5> HIDE DEF u
        <5>2. Len(v) = Len(u) - (HeaderLen + 1) + 1
          BY <1>1, <5>1, PartOf
        <5> QED
          BY <5>1, <5>2
      <4>2. Len(p) <= Len(v)
        BY <1>1, <2>3, <2>6, <3>0, <4>1, SMTT(40)
      <4>3. SubSeq(v, 1, Len(p)) = p
        <5> HIDE DEF v
        <5> QED
          BY <1>1, <2>1, <2>3, <2>5, <4>2, Begins
      <4>4. HeaderLen \in 0..Len(u) /\ 0 \in Nat /\ len \in 0..Len(u) - HeaderLen
            /\ 0 + 1 = 1 /\ HeaderLen + 0 + 1 = HeaderLen + 1
        BY <1>1, <3>0
      <4>5. SubSeq(v, 0 + 1, len) = SubSeq(u, HeaderLen + 0 + 1, HeaderLen + len)
        <5> HIDE DEF u, len
        <5> QED
          BY <1>1, <4>4, PartOfRest
      <4> QED
        BY <2>6, <4>3, <4>4, <4>5
    <3> DEFINE k == HeaderLen + len
               w == SubSeq(u, k + 1, Len(u))
    <3>3. w \o after = s
      <4>1. k = Len(FrameOf(p)) /\ k <= Len(u)
        BY <2>3, <2>6, <3>0
      <4> DEFINE a == FrameOf(p)
      <4>2. u \in Seq(Byte) /\ after \in Seq(Byte) /\ a \in Seq(Byte) /\ u \o after = a \o s
            /\ Len(a) <= Len(u)
        BY <1>1, <2>1, <2>3, <4>1
      <4>3. k = Len(a)
        BY <4>1
      <4> HIDE DEF u, k, len, v, w, a
      <4>4. SubSeq(u, Len(a) + 1, Len(u)) \o after = s
        <5>1. s \in Seq(Byte)
          OBVIOUS
        <5> QED
          BY <4>2, <5>1, BytesBegin, ZenonT(60)
      <4> QED
        BY <4>3, <4>4 DEF w
    <3>4. Unread(n.reader) = w
      <4>1. n.reader.buf = r.buf /\ n.reader.pos = r.pos + k
        BY <1>1, <3>0, <3>1, SMTT(40)
      <4>2. k \in Nat /\ Len(u) \in k..Len(r.buf) - r.pos /\ r.pos \in 0..Len(r.buf)
            /\ r.pos + Len(u) = Len(r.buf)
        BY <1>1, <3>0, SMTT(40)
      <4> HIDE DEF u, k, len, v, w
      <4>3. SubSeq(SubSeq(r.buf, r.pos + 1, Len(r.buf)), k + 1, Len(u))
                = SubSeq(r.buf, r.pos + k + 1, r.pos + Len(u))
        <5> DEFINE b == r.buf
                   o == r.pos
                   j == Len(u)
        <5>1. b \in Seq(Byte) /\ o \in 0..Len(b) /\ k \in Nat /\ j \in k..Len(b) - o
          BY <1>1, <4>2
        <5> HIDE DEF b, o, j
        <5>2. SubSeq(SubSeq(b, o + 1, Len(b)), k + 1, j) = SubSeq(b, o + k + 1, o + j)
          BY <5>1, PartOfRest
        <5> QED
          BY <5>2 DEF b, o, j
      <4>4. u = SubSeq(r.buf, r.pos + 1, Len(r.buf))
        BY DEF Unread, u
      <4> QED
        BY <4>1, <4>2, <4>3, <4>4 DEF Unread, w
    <3>5. n.reader \in Readers /\ n.reader.buf = r.buf /\ n.reader.pos > r.pos /\ n.reader.pos <= Len(r.buf)
      <4>1. r.pos + HeaderLen + len \in Nat /\ r.pos + HeaderLen + len > r.pos
            /\ r.pos + HeaderLen + len <= Len(r.buf)
        BY <1>1, <3>0, SMTT(30)
      <4> HIDE DEF len
      <4> QED
        BY <1>1, <3>1, <4>1 DEF Readers
    <3>6. n.gives = "frame" /\ n.payload = p
      BY <3>1, <3>2
    <3>7. Carries(Unread(n.reader) \o after, Tail(rest), odd)
      <4> HIDE DEF w
      <4> QED
        BY <2>1, <3>3, <3>4
    <3> HIDE DEF u, len, v, k, w
    <3> QED
      BY <1>3, <3>5, <3>6, <3>7 DEF p
  <2> QED
    BY <2>7, <2>8
<1>4. CASE Len(u) >= HeaderLen /\ rest = <<>>
  <2>1. u \o after \in Tails(odd)
    BY <1>4, NoneCarried
  <2>2. Len(u \o after) = Len(u) + Len(after) /\ Len(after) \in Nat
    BY <1>1, ConcatProperties
  <2>3. odd
    <3> SUFFICES ASSUME ~odd PROVE FALSE
      OBVIOUS
    <3>1. u \o after = <<>>
      BY <2>1 DEF Tails
    <3>2. Len(u \o after) = 0
      BY <3>1
    <3> HIDE DEF u
    <3> QED
      BY <1>1, <1>4, <2>2, <3>2
  <2>4. PICK l \in Unframed : u \o after = HeaderOf(l)
    BY <2>1, <2>3 DEF Tails
  <2>5. l \in Nat /\ l \in 0..Weight[HeaderLen] - 1 /\ (l = 0 \/ l > MaxFrameLen)
    BY Lengths DEF Unframed
  <2> DEFINE h == HeaderOf(l)
  <2>6. h \in Seq(Byte) /\ Len(h) = HeaderLen /\ LengthIn(h) = l
    BY <2>5, HeaderIsBytes, LengthRead DEF Byte
  <2>7. u \o after = h \o <<>>
    BY <2>4, <2>6, ConcatEmptySeq
  <2>8. SubSeq(u, 1, HeaderLen) = h
    <3>1. Len(h) <= Len(u) /\ <<>> \in Seq(Byte)
      BY <1>4, <2>6
    <3> HIDE DEF u, h
    <3>2. SubSeq(u, 1, Len(h)) = h
      BY <1>1, <2>6, <2>7, <3>1, Begins
    <3> QED
      BY <2>6, <3>2
  <2>9. len = l
    BY <2>6, <2>8
  <2>10. n.gives \in {"Empty", "TooLarge"}
    <3>1. CASE l = 0
      BY <1>4, <2>9, <3>1, NextOfUnread
    <3>2. CASE l # 0
      BY <1>4, <2>5, <2>9, <3>2, NextOfUnread
    <3> QED
      BY <3>1, <3>2
  <2> QED
    BY <2>3, <2>10
<1> QED
  BY <1>1, <1>2, <1>3, <1>4

LEMMA NextFound ==
    ASSUME NEW r \in Readers, r.pos <= Len(r.buf), NEW after \in Seq(Byte), NEW rest \in Seq(Fine),
           NEW odd \in BOOLEAN, Carries(Unread(r) \o after, rest, odd)
    PROVE  Found(r, NextFrame(r), after, rest, odd)
<1> DEFINE n == NextFrame(r)
<1>1. n = NextFrame(r)
  OBVIOUS
<1> HIDE DEF n
<1>2. Found(r, n, after, rest, odd)
  BY <1>1, NextCarried
<1> QED
  BY <1>1, <1>2

-----------------------------------------------------------------------------
(* The reader drained.                                                     *)

Filled(r) == [reader |-> r, gives |-> "frame", got |-> <<>>]

\* f is what the first n turns of the loop make of r.
IsTurned(f, r, n) ==
    f = [i \in 0..n |-> IF i = 0 THEN Filled(r) ELSE DrainOne(f[i - 1])]

LEMMA TurnedExists ==
    ASSUME NEW r, NEW n \in Nat
    PROVE  \E f : IsTurned(f, r, n)
<1> DEFINE S == {k \in Nat : \E f : IsTurned(f, r, k)}
<1>1. 0 \in S
  <2>1. IsTurned([i \in 0..0 |-> Filled(r)], r, 0)
    BY DEF IsTurned
  <2> QED
    BY <2>1
<1>2. ASSUME NEW k \in Nat, k \in S PROVE k + 1 \in S
  <2>1. PICK f : IsTurned(f, r, k)
    BY <1>2
  <2>2. f = [i \in 0..k |-> IF i = 0 THEN Filled(r) ELSE DrainOne(f[i - 1])]
    BY <2>1 DEF IsTurned
  <2> DEFINE g == [i \in 0..k + 1 |-> IF i <= k THEN f[i] ELSE DrainOne(f[k])]
  <2>3. \A i \in 0..k + 1 : g[i] = IF i = 0 THEN Filled(r) ELSE DrainOne(g[i - 1])
    <3> SUFFICES ASSUME NEW i \in 0..k + 1
        PROVE  g[i] = IF i = 0 THEN Filled(r) ELSE DrainOne(g[i - 1])
      OBVIOUS
    <3>1. CASE i = 0
      BY <2>2, <3>1
    <3>2. CASE i # 0 /\ i <= k
      <4>1. i - 1 \in 0..k /\ i \in 0..k
        BY <3>2
      <4> QED
        BY <2>2, <3>2, <4>1
    <3>3. CASE i = k + 1
      BY <3>3
    <3> QED
      BY <3>1, <3>2, <3>3
  <2>4. IsTurned(g, r, k + 1)
    <3>1. g = [i \in 0..k + 1 |-> g[i]]
      OBVIOUS
    <3> HIDE DEF g
    <3> QED
      BY <2>3, <3>1 DEF IsTurned
  <2> QED
    BY <2>4
<1> HIDE DEF S
<1>3. Nat \subseteq S
  BY <1>1, <1>2, CountingUp
<1> QED
  BY <1>3 DEF S

(* What the loop has made of a reader after i turns, when the payloads ps  *)
(* are still to come, the bytes after those it holds included: each turn   *)
(* that goes on moved it, so that it cannot go on for ever.                *)
Rest(some, ps, stream, odd) ==
    some \in Seq(Fine) /\ \E rest \in Seq(Fine) : ps = some \o rest /\ Carries(stream, rest, odd)

Turning(acc, buf, i, after, ps, odd) ==
    /\ acc.gives = "frame" /\ acc.reader \in Readers
    /\ acc.reader.buf = buf /\ acc.reader.pos \in i..Len(buf)
    /\ Rest(acc.got, ps, Unread(acc.reader) \o after, odd)

Stopped(acc, after, ps, odd) ==
    /\ acc.gives = "nothing"
    /\ acc.reader \in Readers /\ acc.reader.pos = 0 /\ Incomplete(acc.reader.buf)
    /\ Rest(acc.got, ps, acc.reader.buf \o after, odd)

Failed(acc, odd) == acc.gives \in {"Empty", "TooLarge"} /\ odd

LEMMA OneTurn ==
    ASSUME NEW buf \in Seq(Byte), NEW after \in Seq(Byte), NEW ps, NEW odd \in BOOLEAN,
           NEW i \in Nat, NEW acc,
           Turning(acc, buf, i, after, ps, odd) \/ Stopped(acc, after, ps, odd) \/ Failed(acc, odd),
           NEW next, next = DrainOne(acc)
    PROVE  Turning(next, buf, i + 1, after, ps, odd) \/ Stopped(next, after, ps, odd) \/ Failed(next, odd)
<1>1. CASE ~Turning(acc, buf, i, after, ps, odd)
  <2>1. acc.gives # "frame"
    BY <1>1 DEF Stopped, Failed
  <2>2. next = acc
    BY <2>1 DEF DrainOne
  <2> QED
    BY <1>1, <2>2
<1>2. CASE Turning(acc, buf, i, after, ps, odd)
  <2> DEFINE r == acc.reader
             n == NextFrame(r)
             u == Unread(r)
  <2>1. /\ acc.gives = "frame" /\ r \in Readers /\ r.buf = buf /\ r.pos \in i..Len(buf)
        /\ acc.got \in Seq(Fine)
    BY <1>2 DEF Turning, Rest
  <2>2. PICK rest \in Seq(Fine) : ps = acc.got \o rest /\ Carries(u \o after, rest, odd)
    BY <1>2 DEF Turning, Rest
  <2>3. next = [reader |-> n.reader, gives |-> n.gives,
                got |-> IF n.gives = "frame" THEN Append(acc.got, n.payload) ELSE acc.got]
    BY <2>1 DEF DrainOne
  <2> HIDE DEF r, n
  <2>4. r.pos \in Nat /\ r.pos <= Len(r.buf) /\ r.pos >= i
    BY <2>1
  <2>5. \/ n.gives = "nothing" /\ n.reader = [buf |-> u, pos |-> 0] /\ Incomplete(u)
        \/ n.gives \in {"Empty", "TooLarge"} /\ odd
        \/ /\ n.gives = "frame" /\ rest # <<>> /\ n.payload = rest[1]
           /\ n.reader \in Readers /\ n.reader.buf = r.buf
           /\ n.reader.pos > r.pos /\ n.reader.pos <= Len(r.buf)
           /\ Carries(Unread(n.reader) \o after, Tail(rest), odd)
    <3>1. n = NextFrame(r)
      BY DEF n
    <3>2. Carries(Unread(r) \o after, rest, odd) /\ u = Unread(r)
      BY <2>2
    <3> HIDE DEF u
    <3>3. Found(r, NextFrame(r), after, rest, odd)
      BY <2>1, <2>4, <3>2, NextFound
    <3> QED
      BY <3>1, <3>2, <3>3 DEF Found
  <2>6. CASE n.gives = "nothing"
    <3>1. n.reader = [buf |-> u, pos |-> 0] /\ Incomplete(u)
      BY <2>5, <2>6
    <3>2. u \in Seq(Byte)
      BY <2>1, <2>4, NextOfUnread
    <3> HIDE DEF u
    <3>3. next.reader \in Readers /\ next.reader.pos = 0 /\ next.reader.buf = u /\ next.got = acc.got
          /\ next.gives = "nothing"
      BY <2>3, <2>6, <3>1, <3>2 DEF Readers
    <3>4. Stopped(next, after, ps, odd)
      BY <2>1, <2>2, <3>1, <3>3 DEF Stopped, Rest
    <3> QED
      BY <3>4
  <2>7. CASE n.gives \in {"Empty", "TooLarge"}
    BY <2>3, <2>5, <2>7 DEF Failed
  <2>8. CASE n.gives = "frame"
    <3>1. /\ rest # <<>> /\ n.payload = rest[1]
          /\ n.reader \in Readers /\ n.reader.buf = r.buf
          /\ n.reader.pos > r.pos /\ n.reader.pos <= Len(r.buf)
          /\ Carries(Unread(n.reader) \o after, Tail(rest), odd)
      BY <2>5, <2>8
    <3> DEFINE p == rest[1]
    <3>2. p \in Fine /\ Tail(rest) \in Seq(Fine) /\ rest = <<p>> \o Tail(rest)
      <4>1. Len(rest) \in Nat \ {0}
        BY <3>1, EmptySeq
      <4> QED
        BY <3>1, <4>1, ElementOfSeq, HeadTailProperties
    <3> HIDE DEF p
    <3>3. Append(acc.got, p) = acc.got \o <<p>> /\ Append(acc.got, p) \in Seq(Fine)
      BY <2>1, <3>2, AppendIsConcat, AppendProperties
    <3>4. ps = Append(acc.got, p) \o Tail(rest)
      <4>1. <<p>> \in Seq(Fine)
        BY <3>2
      <4>2. (acc.got \o <<p>>) \o Tail(rest) = acc.got \o (<<p>> \o Tail(rest))
        BY <2>1, <3>2, <4>1, ConcatAssociative, SMTT(30)
      <4> QED
        BY <2>2, <3>2, <3>3, <4>2
    <3>5. next.gives = "frame" /\ next.reader = n.reader /\ next.got = Append(acc.got, p)
      BY <2>3, <2>8, <3>1 DEF p
    <3>6. n.reader.pos \in i + 1..Len(buf)
      BY <2>1, <2>4, <3>1 DEF Readers
    <3>7. Turning(next, buf, i + 1, after, ps, odd)
      <4>1. Rest(next.got, ps, Unread(next.reader) \o after, odd)
        BY <3>1, <3>2, <3>3, <3>4, <3>5 DEF Rest
      <4> QED
        BY <2>1, <3>1, <3>5, <3>6, <4>1 DEF Turning
    <3> QED
      BY <3>7
  <2> QED
    BY <2>5, <2>6, <2>7, <2>8
<1> QED
  BY <1>1, <1>2

\* What drain_frames makes of a reader that holds the start of a stream.
LEMMA Drained ==
    ASSUME NEW r \in Readers, r.pos = 0, NEW after \in Seq(Byte), NEW ps \in Seq(Fine),
           NEW odd \in BOOLEAN, Carries(r.buf \o after, ps, odd)
    PROVE  Stopped(DrainFrames(r), after, ps, odd) \/ Failed(DrainFrames(r), odd)
<1> DEFINE buf == r.buf
           n == Len(buf) + 1
           f == CHOOSE g : IsTurned(g, r, n)
<1>1. buf \in Seq(Byte) /\ Len(buf) \in Nat /\ n \in Nat
  BY DEF Readers
<1>2. DrainFrames(r) = f[n]
  BY DEF DrainFrames, IsTurned, Filled
<1>3. IsTurned(f, r, n)
  BY <1>1, TurnedExists
<1> HIDE DEF f
<1>4. f[0] = Filled(r) /\ \A i \in 1..n : f[i] = DrainOne(f[i - 1])
  <2> HIDE DEF n
  <2> QED
    BY <1>1, <1>3 DEF IsTurned
<1> DEFINE ok(i) == Turning(f[i], buf, i, after, ps, odd) \/ Stopped(f[i], after, ps, odd) \/ Failed(f[i], odd)
           T == {i \in Nat : i <= n => ok(i)}
<1>5. 0 \in T
  <2>1. Unread(r) = buf
    BY <1>1, SubSeqFull DEF Unread
  <2>2. Rest(<<>>, ps, Unread(r) \o after, odd)
    <3>1. <<>> \in Seq(Fine) /\ ps = <<>> \o ps
      BY ConcatEmptySeq
    <3> QED
      BY <2>1, <3>1 DEF Rest
  <2>3. Turning(f[0], buf, 0, after, ps, odd)
    <3>1. f[0].gives = "frame" /\ f[0].reader = r /\ f[0].got = <<>>
      BY <1>4 DEF Filled
    <3> HIDE DEF n, buf
    <3>2. r.pos \in 0..Len(buf)
      BY <1>1
    <3> QED
      BY <2>2, <3>1, <3>2 DEF Turning, buf
  <2> QED
    BY <2>3
<1>6. ASSUME NEW k \in Nat, k \in T PROVE k + 1 \in T
  <2> SUFFICES ASSUME k + 1 <= n PROVE ok(k + 1)
    OBVIOUS
  <2>1. ok(k) /\ k + 1 \in 1..n /\ (k + 1) - 1 = k
    BY <1>1, <1>6
  <2>2. f[k + 1] = DrainOne(f[k])
    BY <1>4, <2>1
  <2> HIDE DEF buf, n
  <2> QED
    BY <1>1, <2>1, <2>2, OneTurn
<1>7. Nat \subseteq T
  <2> HIDE DEF T
  <2> QED
    BY <1>5, <1>6, CountingUp
<1>8. ok(n)
  BY <1>1, <1>7
<1>9. ~Turning(f[n], buf, n, after, ps, odd)
  <2>1. n..Len(buf) = {}
    BY <1>1
  <2> HIDE DEF n, buf
  <2> QED
    BY <2>1 DEF Turning
<1> QED
  BY <1>2, <1>8, <1>9

-----------------------------------------------------------------------------
(* The inductive invariant: what the reader holds and what is still to be  *)
(* read carry the payloads that were framed and not returned, up to the    *)
(* header no frame has; and what the reader holds is not a whole frame.    *)

FramingTypeOK ==
    /\ framed \in Seq(Fine) /\ frames \in Seq(Fine) /\ bytes \in Seq(Byte) /\ foreign \in BOOLEAN

FInv ==
    /\ FramingTypeOK
    /\ frameError # "none" => foreign /\ \E rest \in Seq(Fine) : framed = frames \o rest
    /\ frameError = "none" =>
          /\ reader \in Readers /\ reader.pos = 0 /\ Incomplete(reader.buf)
          /\ Rest(frames, framed, reader.buf \o bytes, foreign)

LEMMA FramingEstablished == FramingInit => FInv
<1> SUFFICES ASSUME FramingInit PROVE FInv
  OBVIOUS
<1>0. <<>> \in Seq(Fine) /\ <<>> \in Seq(Byte)
  OBVIOUS
<1>1. FramingTypeOK
  BY <1>0 DEF FramingInit, FramingTypeOK
<1>2. reader \in Readers /\ reader.pos = 0 /\ reader.buf = <<>> /\ frameError = "none"
  BY <1>0 DEF FramingInit, Readers
<1>3. Incomplete(<<>>)
  BY Lengths DEF Incomplete
<1>4. <<>> \o <<>> = <<>>
  BY <1>0, ConcatEmptySeq, Zenon
<1>5. Rest(<<>>, <<>>, <<>>, FALSE)
  BY <1>0, <1>4, NothingCarried, Zenon DEF Rest
<1> QED
  BY <1>1, <1>2, <1>3, <1>4, <1>5 DEF FInv, FramingInit

LEMMA FramePreserves == ASSUME FInv, NEW payload \in Payloads, Frame(payload) PROVE FInv'
<1> USE DEF Frame
<1>1. FramingTypeOK /\ payload \in Seq(Byte) /\ ~foreign /\ frameError = "none"
  BY FramingAssumption DEF FInv, Byte
<1>2. /\ reader \in Readers /\ reader.pos = 0 /\ Incomplete(reader.buf)
      /\ Rest(frames, framed, reader.buf \o bytes, FALSE)
  BY <1>1 DEF FInv, FramingTypeOK
<1>3. reader.buf \in Seq(Byte) /\ bytes \in Seq(Byte)
  BY <1>1, <1>2 DEF Readers, FramingTypeOK
<1>4. CASE payload \notin Fine
  <2>1. ~(Len(payload) \in 1..MaxFrameLen)
    BY <1>1, <1>4 DEF Fine
  <2>2. framed' = framed /\ bytes' = bytes
    BY <2>1 DEF FrameInto
  <2> QED
    BY <1>1, <2>2 DEF FInv, FramingTypeOK
<1>5. CASE payload \in Fine
  <2>1. Len(payload) \in 1..MaxFrameLen /\ FrameOf(payload) \in Seq(Byte)
        /\ Len(FrameOf(payload)) = HeaderLen + Len(payload)
        /\ HeaderOf(Len(payload)) \in Seq(Byte)
    BY <1>5, FrameOfFine
  <2>2. \A out \in Seq(Byte) : FrameInto(payload, out) = out \o FrameOf(payload)
    <3> SUFFICES ASSUME NEW out \in Seq(Byte)
        PROVE  FrameInto(payload, out) = out \o FrameOf(payload)
      OBVIOUS
    <3>1. FrameInto(payload, out) = (out \o HeaderOf(Len(payload))) \o payload
      BY <2>1 DEF FrameInto
    <3>2. (out \o HeaderOf(Len(payload))) \o payload = out \o (HeaderOf(Len(payload)) \o payload)
      BY <1>1, <2>1, BytesAssociate
    <3> QED
      BY <3>1, <3>2 DEF FrameOf
  <2>3. FrameInto(payload, <<>>) # <<>>
    <3>1. FrameInto(payload, <<>>) = FrameOf(payload)
      <4>1. <<>> \in Seq(Byte) /\ <<>> \o FrameOf(payload) = FrameOf(payload)
        BY <2>1, ConcatEmptySeq
      <4> QED
        BY <2>2, <4>1
    <3>2. Len(FrameOf(payload)) # 0
      BY <2>1, Lengths
    <3> QED
      BY <3>1, <3>2
  <2>4. framed' = Append(framed, payload) /\ bytes' = bytes \o FrameOf(payload)
        /\ foreign' = foreign /\ reader' = reader /\ frames' = frames /\ frameError' = frameError
    BY <1>3, <2>2, <2>3
  <2>5. FramingTypeOK'
    <3>1. Append(framed, payload) \in Seq(Fine)
      BY <1>1, <1>5, AppendProperties DEF FramingTypeOK
    <3>2. bytes \o FrameOf(payload) \in Seq(Byte)
      BY <1>3, <2>1, ConcatProperties
    <3> QED
      BY <1>1, <2>4, <3>1, <3>2 DEF FramingTypeOK
  <2> DEFINE stream == reader.buf \o bytes
  <2>6. stream \in Seq(Byte)
    BY <1>3, ConcatProperties
  <2>7. PICK rest \in Seq(Fine) : framed = frames \o rest /\ Carries(stream, rest, FALSE)
    BY <1>2 DEF Rest
  <2>8. reader.buf \o bytes' = stream \o FrameOf(payload)
    <3>1. (reader.buf \o bytes) \o FrameOf(payload) = reader.buf \o (bytes \o FrameOf(payload))
      BY <1>3, <2>1, BytesAssociate, Zenon
    <3> QED
      BY <2>4, <3>1
  <2>9. Carries(stream \o FrameOf(payload), Append(rest, payload), FALSE)
    <3> HIDE DEF stream
    <3> QED
      BY <1>5, <2>6, <2>7, OneMoreCarried
  <2>10. Append(framed, payload) = frames \o Append(rest, payload) /\ Append(rest, payload) \in Seq(Fine)
    <3>1. frames \in Seq(Fine) /\ framed \in Seq(Fine) /\ <<payload>> \in Seq(Fine)
      BY <1>1, <1>5 DEF FramingTypeOK
    <3>2. Append(framed, payload) = framed \o <<payload>> /\ Append(rest, payload) = rest \o <<payload>>
      BY <1>5, <3>1, AppendIsConcat
    <3>3. (frames \o rest) \o <<payload>> = frames \o (rest \o <<payload>>)
      BY <3>1, ConcatAssociative, SMTT(40)
    <3>4. Append(rest, payload) \in Seq(Fine)
      BY <1>5, AppendProperties
    <3> QED
      BY <2>7, <3>2, <3>3, <3>4
  <2> HIDE DEF stream
  <2>11. Rest(frames, framed', reader.buf \o bytes', FALSE)
    BY <1>1, <2>4, <2>8, <2>9, <2>10 DEF Rest, FramingTypeOK
  <2> QED
    BY <1>1, <1>2, <2>4, <2>5, <2>11 DEF FInv, FramingTypeOK
<1> QED
  BY <1>4, <1>5

LEMMA WriteForeignPreserves == ASSUME FInv, NEW len \in Unframed, WriteForeign(len) PROVE FInv'
<1> USE DEF WriteForeign
<1>1. FramingTypeOK /\ ~foreign /\ frameError = "none"
  BY DEF FInv
<1>2. /\ reader \in Readers /\ reader.pos = 0 /\ Incomplete(reader.buf)
      /\ Rest(frames, framed, reader.buf \o bytes, FALSE)
  BY <1>1 DEF FInv, FramingTypeOK
<1>3. reader.buf \in Seq(Byte) /\ bytes \in Seq(Byte) /\ HeaderOf(len) \in Seq(Byte)
  BY <1>1, <1>2, Lengths, HeaderIsBytes DEF Readers, FramingTypeOK, Byte
<1>4. FramingTypeOK'
  <2>1. bytes \o HeaderOf(len) \in Seq(Byte)
    BY <1>3, ConcatProperties
  <2> QED
    BY <1>1, <2>1 DEF FramingTypeOK
<1> DEFINE stream == reader.buf \o bytes
<1>5. stream \in Seq(Byte)
  BY <1>3, ConcatProperties
<1>6. PICK rest \in Seq(Fine) : framed = frames \o rest /\ Carries(stream, rest, FALSE)
  BY <1>2 DEF Rest
<1>7. reader.buf \o bytes' = stream \o HeaderOf(len)
  BY <1>3, BytesAssociate
<1>8. Carries(stream \o HeaderOf(len), rest, TRUE)
  <2> HIDE DEF stream
  <2> QED
    BY <1>5, <1>6, ForeignCarried
<1> HIDE DEF stream
<1>9. Rest(frames, framed, reader.buf \o bytes', TRUE)
  BY <1>1, <1>6, <1>7, <1>8 DEF Rest, FramingTypeOK
<1> QED
  BY <1>1, <1>2, <1>4, <1>9 DEF FInv

LEMMA ReadChunkPreserves == ASSUME FInv, NEW n \in 1..Len(bytes), ReadChunk(n) PROVE FInv'
<1> DEFINE chunk == SubSeq(bytes, 1, n)
           after == SubSeq(bytes, n + 1, Len(bytes))
           r == [buf |-> reader.buf \o chunk, pos |-> 0]
           d == DrainFrames(r)
<1>1. FramingTypeOK /\ frameError = "none" /\ framed' = framed /\ foreign' = foreign /\ bytes' = after
  BY DEF FInv, ReadChunk
<1>2. /\ reader \in Readers /\ reader.pos = 0
      /\ Rest(frames, framed, reader.buf \o bytes, foreign)
  BY <1>1 DEF FInv
<1>3. reader.buf \in Seq(Byte) /\ bytes \in Seq(Byte) /\ frames \in Seq(Fine) /\ framed \in Seq(Fine)
      /\ foreign \in BOOLEAN
  BY <1>1, <1>2, SMTT(40) DEF Readers, FramingTypeOK
<1>4. chunk \in Seq(Byte) /\ after \in Seq(Byte) /\ bytes = chunk \o after
  <2>1. 1 \in 1..Len(bytes) + 1 /\ n \in 1 - 1..Len(bytes) /\ n + 1 \in 1..Len(bytes) + 1
        /\ Len(bytes) \in (n + 1) - 1..Len(bytes) /\ Len(bytes) \in n..Len(bytes)
    BY <1>3
  <2>2. chunk \in Seq(Byte) /\ after \in Seq(Byte)
    BY <1>3, <2>1, PartOf
  <2>3. chunk \o after = SubSeq(bytes, 1, Len(bytes))
    BY <1>3, <2>1, ConcatAdjacentSubSeq
  <2>4. SubSeq(bytes, 1, Len(bytes)) = bytes
    BY <1>3, SubSeqFull
  <2> QED
    BY <2>2, <2>3, <2>4, Zenon
<1>5. [reader EXCEPT !.buf = @ \o chunk] = r
  <2> DEFINE whole == reader.buf \o chunk
  <2>1. [reader EXCEPT !.buf = @ \o chunk] = [reader EXCEPT !.buf = whole]
    OBVIOUS
  <2> HIDE DEF whole
  <2>2. [reader EXCEPT !.buf = whole] = [buf |-> whole, pos |-> 0]
    BY <1>2 DEF Readers
  <2> QED
    BY <2>1, <2>2 DEF whole
<1>6. /\ reader' = d.reader
      /\ frames' = IF d.gives = "nothing" THEN frames \o d.got ELSE frames
      /\ frameError' = IF d.gives = "nothing" THEN "none" ELSE d.gives
  BY <1>5 DEF ReadChunk
<1> HIDE DEF chunk, after
<1>7. PICK ps \in Seq(Fine) : framed = frames \o ps /\ Carries(reader.buf \o bytes, ps, foreign)
  BY <1>2 DEF Rest
<1>8. Stopped(d, after, ps, foreign) \/ Failed(d, foreign)
  <2>1. reader.buf \o bytes = (reader.buf \o chunk) \o after /\ reader.buf \o chunk \in Seq(Byte)
    BY <1>3, <1>4, BytesAssociate, ConcatProperties, ZenonT(60)
  <2>2. r \in Readers /\ r.pos = 0 /\ Carries(r.buf \o after, ps, foreign)
    BY <1>7, <2>1 DEF Readers
  <2> HIDE DEF r
  <2> QED
    BY <1>3, <1>4, <2>2, Drained
<1> HIDE DEF r, d
<1>9. CASE Failed(d, foreign)
  <2>1. frameError' # "none" /\ frames' = frames /\ foreign
    BY <1>6, <1>9 DEF Failed
  <2> QED
    BY <1>1, <1>3, <1>4, <1>7, <2>1 DEF FInv, FramingTypeOK
<1>10. CASE Stopped(d, after, ps, foreign)
  <2>1. frameError' = "none" /\ frames' = frames \o d.got /\ reader' = d.reader
        /\ d.reader \in Readers /\ d.reader.pos = 0 /\ Incomplete(d.reader.buf)
        /\ Rest(d.got, ps, d.reader.buf \o after, foreign)
    BY <1>6, <1>10 DEF Stopped
  <2>2. PICK rest \in Seq(Fine) : d.got \in Seq(Fine) /\ ps = d.got \o rest
                                  /\ Carries(d.reader.buf \o after, rest, foreign)
    BY <2>1 DEF Rest
  <2>3. (frames \o d.got) \o rest = frames \o (d.got \o rest) /\ frames \o d.got \in Seq(Fine)
    <3>1. (frames \o d.got) \o rest = frames \o (d.got \o rest)
      <4> DEFINE some == d.got
      <4>1. some \in Seq(Fine)
        BY <2>2
      <4> HIDE DEF some
      <4>2. (frames \o some) \o rest = frames \o (some \o rest)
        <5>1. frames \in Seq(Fine) /\ rest \in Seq(Fine)
          BY <1>3
        <5> QED
          BY <4>1, <5>1, FramesAssociate, ZenonT(60)
      <4> QED
        BY <4>2 DEF some
    <3>2. frames \o d.got \in Seq(Fine)
      BY <1>3, <2>2, ConcatProperties
    <3> QED
      BY <3>1, <3>2
  <2>4. Rest(frames \o d.got, framed, d.reader.buf \o after, foreign)
    BY <1>7, <2>2, <2>3 DEF Rest
  <2> QED
    BY <1>1, <1>3, <1>4, <2>1, <2>3, <2>4 DEF FInv, FramingTypeOK
<1> QED
  BY <1>8, <1>9, <1>10

LEMMA FramingStep == FInv /\ [FramingNext]_framingVars => FInv'
<1> SUFFICES ASSUME FInv, [FramingNext]_framingVars PROVE FInv'
  OBVIOUS
<1>1. CASE \E payload \in Payloads : Frame(payload)
  BY <1>1, FramePreserves
<1>2. CASE \E len \in {0} \cup MaxFrameLen + 1..Weight[HeaderLen] - 1 : WriteForeign(len)
  BY <1>2, WriteForeignPreserves DEF Unframed
<1>3. CASE \E n \in 1..Len(bytes) : ReadChunk(n)
  BY <1>3, ReadChunkPreserves
<1>4. CASE UNCHANGED framingVars
  BY <1>4 DEF FInv, FramingTypeOK, framingVars
<1> QED
  BY <1>1, <1>2, <1>3, <1>4 DEF FramingNext

LEMMA FramesExactHere == FInv => FramesExact
<1> SUFFICES ASSUME FInv PROVE FramesExact
  OBVIOUS
<1>1. frames \in Seq(Fine) /\ framed \in Seq(Fine) /\ bytes \in Seq(Byte)
  BY DEF FInv, FramingTypeOK
<1>2. PICK rest \in Seq(Fine) : framed = frames \o rest
  BY DEF FInv, Rest
<1>3. IsPrefix(frames, framed)
  <2>1. Len(framed) = Len(frames) + Len(rest) /\ Len(frames) \in Nat /\ Len(rest) \in Nat
    BY <1>1, <1>2, ConcatProperties
  <2>2. Len(frames) <= Len(framed)
    BY <2>1
  <2>3. SubSeq(frames, 1, Len(frames)) = SubSeq(framed, 1, Len(frames))
    <3> DEFINE a == SubSeq(frames, 1, Len(frames))
               b == SubSeq(framed, 1, Len(frames))
    <3>1. 1 \in 1..Len(frames) + 1 /\ Len(frames) \in 1 - 1..Len(frames) /\ 1 \in 1..Len(framed) + 1
          /\ Len(frames) \in 1 - 1..Len(framed) /\ Len(frames) - 1 + 1 = Len(frames)
          /\ \A i \in 1..Len(frames) : 1 + i - 1 = i
      BY <2>1
    <3>2. a \in Seq(Fine) /\ Len(a) = Len(frames) /\ \A i \in 1..Len(frames) : a[i] = frames[i]
      BY <1>1, <3>1, PartOf
    <3>3. b \in Seq(Fine) /\ Len(b) = Len(frames) /\ \A i \in 1..Len(frames) : b[i] = framed[i]
      BY <1>1, <3>1, PartOf
    <3>4. \A i \in 1..Len(frames) : framed[i] = frames[i]
      BY <1>1, <1>2, <2>1, ConcatProperties
    <3> HIDE DEF a, b
    <3>5. a = b
      BY <3>2, <3>3, <3>4, SeqEqual
    <3> QED
      BY <3>5 DEF a, b
  <2> QED
    BY <2>2, <2>3 DEF IsPrefix
<1>4. ASSUME frameError = "none" PROVE reader.pos = 0 /\ Len(reader.buf) < HeaderLen + MaxFrameLen
  <2>1. reader \in Readers /\ reader.pos = 0 /\ Incomplete(reader.buf)
    BY <1>4 DEF FInv
  <2>2. Len(reader.buf) \in Nat
    BY <2>1 DEF Readers
  <2> QED
    BY <2>1, <2>2, Lengths DEF Incomplete
<1>5. ASSUME frameError = "none", bytes = <<>>, ~foreign PROVE frames = framed /\ reader.buf = <<>>
  <2> DEFINE u == reader.buf
  <2>1. u \in Seq(Byte) /\ Incomplete(u) /\ u \o bytes = u
    BY <1>5, ConcatEmptySeq DEF FInv, Readers
  <2>2. PICK ps \in Seq(Fine) : framed = frames \o ps /\ Carries(u, ps, FALSE)
    <3>1. Rest(frames, framed, u \o bytes, FALSE)
      BY <1>5 DEF FInv, FramingTypeOK
    <3> QED
      BY <2>1, <3>1 DEF Rest
  <2> HIDE DEF u
  <2>3. CASE ps # <<>>
    <3> DEFINE p == ps[1]
               h == HeaderOf(Len(p))
    <3>1. PICK s \in Seq(Byte) : u = FrameOf(p) \o s
      <4>1. \E s \in Seq(Byte) : u = FrameOf(ps[1]) \o s /\ Carries(s, Tail(ps), FALSE)
        BY <2>2, <2>3, FirstCarried
      <4> QED
        BY <4>1
    <3>2. p \in Fine
      <4>1. Len(ps) \in Nat \ {0}
        BY <2>3, EmptySeq
      <4> QED
        BY <4>1, ElementOfSeq
    <3> HIDE DEF p
    <3>3. /\ p \in Seq(Byte) /\ h \in Seq(Byte) /\ Len(h) = HeaderLen
          /\ FrameOf(p) \in Seq(Byte) /\ Len(FrameOf(p)) = HeaderLen + Len(p)
          /\ LengthIn(h) = Len(p) /\ Len(p) \in 1..MaxFrameLen /\ FrameOf(p) = h \o p
      BY <3>2, FrameOfFine DEF FrameOf
    <3> HIDE DEF h
    <3>4. Len(u) = HeaderLen + Len(p) + Len(s) /\ Len(s) \in Nat
      <4>1. Len(FrameOf(p) \o s) = Len(FrameOf(p)) + Len(s) /\ Len(s) \in Nat
        BY <3>3, ConcatProperties
      <4> QED
        BY <3>1, <3>3, <4>1
    <3>5. SubSeq(u, 1, HeaderLen) = h
      <4>1. (h \o p) \o s = h \o (p \o s)
        BY <3>3, BytesAssociate
      <4>2. p \o s \in Seq(Byte) /\ <<>> \in Seq(Byte) /\ u \o <<>> = u
        BY <2>1, <3>3, ConcatProperties, ConcatEmptySeq
      <4>3. Len(h) <= Len(u)
        BY <3>3, <3>4, Lengths
      <4> DEFINE t == p \o s
      <4>4. u \o <<>> = h \o t /\ t \in Seq(Byte)
        BY <3>1, <3>3, <4>1, <4>2
      <4> HIDE DEF t
      <4>5. SubSeq(u, 1, Len(h)) = h
        <5>1. u \in Seq(Byte) /\ <<>> \in Seq(Byte) /\ h \in Seq(Byte)
          BY <2>1, <3>3, <4>2
        <5> QED
          BY <4>3, <4>4, <5>1, BytesBegin, Zenon
      <4> QED
        BY <3>3, <4>5
    <3>6. ~Incomplete(u)
      <4>1. LengthIn(SubSeq(u, 1, HeaderLen)) = Len(p)
        BY <3>3, <3>5
      <4>2. ~(Len(u) < HeaderLen) /\ ~(Len(u) < HeaderLen + Len(p))
        BY <3>3, <3>4, Lengths, SMTT(40)
      <4> QED
        BY <4>1, <4>2 DEF Incomplete
    <3> QED
      BY <2>1, <3>6
  <2>4. CASE ps = <<>>
    <3>1. u \in Tails(FALSE)
      BY <2>2, <2>4, NoneCarried
    <3>2. frames \o <<>> = frames
      BY <1>1, ConcatEmptySeq
    <3> QED
      BY <2>2, <2>4, <3>1, <3>2 DEF Tails, u
  <2> QED
    BY <2>3, <2>4
<1>6. frameError # "none" => foreign
  BY DEF FInv
<1> QED
  BY <1>3, <1>4, <1>5, <1>6 DEF FramesExact

(* However the stream is cut, and whatever the sizes: frames come out as   *)
(* they were put in (framing.rs, FrameReader).                             *)
THEOREM FramesAreExact == FramingInit /\ [][FramingNext]_framingVars => []FramesExact
BY FramingEstablished, FramingStep, FramesExactHere, PTL
=============================================================================
