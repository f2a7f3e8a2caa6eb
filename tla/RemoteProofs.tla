---------------------------- MODULE RemoteProofs ----------------------------
(***************************************************************************)
(* Proofs about Remote, for every set of windows, every pair of builds and *)
(* every source: the state keeps its shape, and the consumer never rejects *)
(* what the provider sends; its windows, trees and focus are those the     *)
(* provider announced, and the connection implements WindowMirror.         *)
(***************************************************************************)
EXTENDS Remote, TLAPS, SequenceTheorems

-----------------------------------------------------------------------------
(* The inductive invariant.                                                *)

(* What a frame needs of the windows the consumer holds when it reads it.  *)
Acceptable(m, view) ==
    /\ m.kind = "WindowAdded" => m.body \notin view
    /\ m.kind \in {"WindowRemoved", "TreeUpdate"} => m.body \in view
    /\ m.kind = "FocusChanged" => m.body = None \/ m.body \in view

(* Each frame under way is acceptable to a consumer that has read the ones *)
(* before it.                                                              *)
LegalStream(held, stream) ==
    \A i \in 1..Len(stream) : Acceptable(stream[i], View(held, stream, i - 1))

(* The provider's bookkeeping is what the stream adds up to.               *)
Accounted ==
    provider.phase = "Established" => announced = View(windows, down, Len(down))

(* The only hello is the first frame an unestablished consumer reads.      *)
HelloFirst(stream, awaited) ==
    \A i \in 1..Len(stream) : (stream[i].kind = "Hello") <=> (i = 1 /\ awaited)
Awaited == consumer.phase = "AwaitingHello"
OneHello ==
    Running => /\ HelloFirst(down, Awaited)
               /\ Awaited /\ down = <<>> => provider.out # <<>>

(* Before the handshake the provider has sent at most its hello.           *)
Unestablished ==
    /\ provider.phase = "AwaitingHello" =>
          /\ announced = {}
          /\ \/ provider.out = <<HelloOf(ProviderConfig)>> /\ down = <<>>
             \/ provider.out = <<>> /\ down \in {<<>>, <<HelloOf(ProviderConfig)>>}
    /\ provider.phase # "AwaitingHello" => provider.out = <<>>
    /\ provider.out # <<>> => consumer.phase # "Established"
    /\ Running => consumer.phase # "Closed"
    /\ (Awaited \/ provider.phase = "AwaitingHello") => windows = {}

IInv ==
    /\ TypeOK
    /\ LegalStream(windows, down)
    /\ Accounted
    /\ OneHello
    /\ Unestablished
    /\ ConsumerNeverRejects

-----------------------------------------------------------------------------
(* Views of a stream.                                                      *)

(* Before the first frame the view is what the consumer holds.             *)
LEMMA ViewStart ==
    ASSUME NEW held \in SUBSET Windows, NEW stream
    PROVE  View(held, stream, 0) = held
BY DEF View, Held, Stays

(* One more frame changes the view by the window it opens or closes.       *)
LEMMA ViewStep ==
    ASSUME NEW held, NEW F, NEW stream \in Seq(F), NEW i \in 1..Len(stream),
           NEW w \in Windows
    PROVE  w \in View(held, stream, i) <=>
             \/ stream[i] = WindowAdded(w)
             \/ w \in View(held, stream, i - 1) /\ stream[i] # WindowRemoved(w)
<1>1. WindowAdded(w) # WindowRemoved(w)
  BY DEF WindowAdded, WindowRemoved, Msg
<1>2. \A j \in Nat : Stays(stream, w, j, i) <=>
                       (j > i \/ (Stays(stream, w, j, i - 1) /\ stream[i] # WindowRemoved(w)))
  BY DEF Stays
<1>3. ASSUME Held(held, stream, w, i)
      PROVE  \/ stream[i] = WindowAdded(w)
             \/ Held(held, stream, w, i - 1) /\ stream[i] # WindowRemoved(w)
  BY <1>2, <1>3 DEF Held
<1>4. ASSUME stream[i] = WindowAdded(w)
      PROVE  Held(held, stream, w, i)
  BY <1>4 DEF Held, Stays
<1>5. ASSUME Held(held, stream, w, i - 1), stream[i] # WindowRemoved(w)
      PROVE  Held(held, stream, w, i)
  BY <1>2, <1>5 DEF Held
<1> QED
  BY <1>3, <1>4, <1>5 DEF View

(* What is appended later does not change an earlier view.                 *)
LEMMA ViewPrefix ==
    ASSUME NEW held, NEW F, NEW stream \in Seq(F), NEW m \in F, NEW i \in 0..Len(stream)
    PROVE  View(held, Append(stream, m), i) = View(held, stream, i)
<1>1. \A k \in 1..i : Append(stream, m)[k] = stream[k]
  OBVIOUS
<1>2. \A w : \A j \in Nat : j >= 1 =>
        (Stays(Append(stream, m), w, j, i) <=> Stays(stream, w, j, i))
  BY <1>1 DEF Stays
<1> QED
  BY <1>1, <1>2 DEF View, Held

(* Reading the first frame moves every view one place forward.             *)
LEMMA ViewTail ==
    ASSUME NEW held, NEW F, NEW stream \in Seq(F), stream # <<>>,
           NEW i \in 0..Len(stream) - 1
    PROVE  View(View(held, stream, 1), Tail(stream), i) = View(held, stream, i + 1)
<1> DEFINE rest == Tail(stream)
<1>1. /\ rest \in Seq(F) /\ Len(rest) = Len(stream) - 1
      /\ \A k \in 1..Len(rest) : rest[k] = stream[k + 1]
  OBVIOUS
<1>2. \A w : \A j \in 1..i+1 : Stays(rest, w, j, i) <=> Stays(stream, w, j + 1, i + 1)
  <2> SUFFICES ASSUME NEW w, NEW j \in 1..i+1
               PROVE  Stays(rest, w, j, i) <=> Stays(stream, w, j + 1, i + 1)
    OBVIOUS
  <2>1. \A k \in j..i : rest[k] = stream[k + 1]
    BY <1>1
  <2>2. \A k \in j+1..i+1 : k - 1 \in j..i /\ stream[k] = rest[k - 1]
    BY <1>1
  <2> QED
    BY <2>1, <2>2 DEF Stays
<1>3. SUFFICES ASSUME NEW w \in Windows
               PROVE  Held(View(held, stream, 1), rest, w, i) <=> Held(held, stream, w, i + 1)
  BY DEF View
<1>4. w \in View(held, stream, 1) <=>
        \/ w \in held /\ stream[1] # WindowRemoved(w)
        \/ stream[1] = WindowAdded(w)
  BY DEF View, Held, Stays
<1>5. Stays(stream, w, 1, i + 1) <=> (stream[1] # WindowRemoved(w) /\ Stays(stream, w, 2, i + 1))
  BY DEF Stays
<1>6. ASSUME Held(View(held, stream, 1), rest, w, i)
      PROVE  Held(held, stream, w, i + 1)
  <2>1. CASE w \in View(held, stream, 1) /\ Stays(rest, w, 1, i)
    <3>1. Stays(stream, w, 2, i + 1)
      BY <2>1, <1>2
    <3> QED
      BY <2>1, <3>1, <1>4, <1>5 DEF Held
  <2>2. CASE \E j \in 1..i : rest[j] = WindowAdded(w) /\ Stays(rest, w, j + 1, i)
    <3>1. PICK j \in 1..i : rest[j] = WindowAdded(w) /\ Stays(rest, w, j + 1, i)
      BY <2>2
    <3>2. stream[j + 1] = WindowAdded(w) /\ Stays(stream, w, (j + 1) + 1, i + 1)
      BY <3>1, <1>1, <1>2
    <3> QED
      BY <3>2 DEF Held
  <2> QED
    BY <1>6, <2>1, <2>2 DEF Held
<1>7. ASSUME Held(held, stream, w, i + 1)
      PROVE  Held(View(held, stream, 1), rest, w, i)
  <2>1. CASE w \in held /\ Stays(stream, w, 1, i + 1)
    <3>1. Stays(rest, w, 1, i)
      BY <2>1, <1>5, <1>2
    <3> QED
      BY <2>1, <3>1, <1>4, <1>5 DEF Held
  <2>2. CASE \E j \in 1..i+1 : stream[j] = WindowAdded(w) /\ Stays(stream, w, j + 1, i + 1)
    <3>1. PICK j \in 1..i+1 : stream[j] = WindowAdded(w) /\ Stays(stream, w, j + 1, i + 1)
      BY <2>2
    <3>2. CASE j = 1
      <4>1. Stays(rest, w, 1, i)
        BY <3>1, <3>2, <1>2
      <4> QED
        BY <3>1, <3>2, <4>1, <1>4 DEF Held
    <3>3. CASE j # 1
      <4>1. j - 1 \in 1..i /\ (j - 1) + 1 = j
        BY <3>3
      <4>2. rest[j - 1] = WindowAdded(w)
        BY <3>1, <4>1, <1>1
      <4>3. Stays(rest, w, j, i)
        BY <3>1, <1>2
      <4> QED
        BY <4>1, <4>2, <4>3 DEF Held
    <3> QED
      BY <3>2, <3>3
  <2> QED
    BY <1>7, <2>1, <2>2 DEF Held
<1> QED
  BY <1>6, <1>7

(* An acceptable frame keeps a stream legal.                               *)
LEMMA LegalAppend ==
    ASSUME NEW held, NEW F, NEW stream \in Seq(F), NEW m \in F,
           LegalStream(held, stream),
           Acceptable(m, View(held, stream, Len(stream)))
    PROVE  LegalStream(held, Append(stream, m))
<1> SUFFICES ASSUME NEW i \in 1..Len(Append(stream, m))
             PROVE  Acceptable(Append(stream, m)[i], View(held, Append(stream, m), i - 1))
  BY DEF LegalStream
<1>1. i - 1 \in 0..Len(stream)
  OBVIOUS
<1>2. View(held, Append(stream, m), i - 1) = View(held, stream, i - 1)
  BY <1>1, ViewPrefix
<1>3. CASE i \in 1..Len(stream)
  BY <1>2, <1>3 DEF LegalStream
<1>4. CASE i = Len(stream) + 1
  BY <1>2, <1>4
<1> QED
  BY <1>3, <1>4

(* Reading a frame leaves a legal stream.                                  *)
LEMMA LegalTail ==
    ASSUME NEW held, NEW F, NEW stream \in Seq(F), stream # <<>>,
           LegalStream(held, stream)
    PROVE  LegalStream(View(held, stream, 1), Tail(stream))
<1> SUFFICES ASSUME NEW i \in 1..Len(Tail(stream))
             PROVE  Acceptable(Tail(stream)[i], View(View(held, stream, 1), Tail(stream), i - 1))
  BY DEF LegalStream
<1>1. i + 1 \in 1..Len(stream) /\ i - 1 \in 0..Len(stream) - 1 /\ Tail(stream)[i] = stream[i + 1]
  OBVIOUS
<1>2. View(View(held, stream, 1), Tail(stream), i - 1) = View(held, stream, (i - 1) + 1)
  BY <1>1, ViewTail
<1> QED
  BY <1>1, <1>2 DEF LegalStream

-----------------------------------------------------------------------------
(* Sessions.                                                               *)

(* Queuing a frame appends it and touches nothing else.                    *)
LEMMA QueueFacts ==
    ASSUME NEW F, NEW s, IsSession(s, F), NEW m \in F
    PROVE  /\ IsSession(Queue(s, m), F)
           /\ Queue(s, m).phase = s.phase /\ Queue(s, m).out = Append(s.out, m)
BY SMTT(40) DEF IsSession, Queue

(* Flushing empties the output and touches nothing else.                   *)
LEMMA FlushFacts ==
    ASSUME NEW F, NEW s, IsSession(s, F)
    PROVE  /\ IsSession(Flushed(s), F)
           /\ Flushed(s).phase = s.phase /\ Flushed(s).out = <<>>
BY DEF IsSession, Flushed

(* Closing says goodbye once.                                              *)
LEMMA CloseFacts ==
    ASSUME NEW F, NEW s, IsSession(s, F), Goodbye \in F
    PROVE  /\ IsSession(CloseSession(s), F) /\ CloseSession(s).phase = "Closed"
           /\ CloseSession(s).out = IF s.phase = "Closed" THEN s.out ELSE Append(s.out, Goodbye)
<1>1. IsSession(Queue(s, Goodbye), F) /\ Queue(s, Goodbye).out = Append(s.out, Goodbye)
  BY QueueFacts
<1> QED
  BY <1>1 DEF IsSession, CloseSession, Phases

(* What one frame does to a session that expects a hello.                  *)
LEMMA ReceiveHelloFacts ==
    ASSUME NEW F, NEW s, IsSession(s, F), Goodbye \in F, NEW cfg, NEW m,
           s.phase = "AwaitingHello"
    PROVE  LET r == Receive(cfg, s, m)
           IN  /\ IsSession(r.session, F) /\ r.failed \in BOOLEAN
               /\ r.failed => /\ r.session.phase = "Closed"
                              /\ r.session.out = Append(s.out, Goodbye)
                              /\ r.event = NoEvent
               /\ ~r.failed => /\ r.session.phase = "Established"
                               /\ r.session.out = s.out
                               /\ m.kind = "Hello" /\ r.event = EstablishedEvent
<1> DEFINE r == Receive(cfg, s, m)
<1>1. r = HandleHello(cfg, s, m)
  BY DEF Receive
<1>2. CASE HelloAcceptable(cfg, m)
  <2>1. r = Outcome([s EXCEPT !.phase = "Established", !.codec = NegotiateCodec(cfg, m.body)],
                    EstablishedEvent, FALSE)
    BY <1>1, <1>2 DEF HandleHello
  <2>2. m.kind = "Hello"
    BY <1>2 DEF HelloAcceptable
  <2>3. /\ r.session = [s EXCEPT !.phase = "Established", !.codec = NegotiateCodec(cfg, m.body)]
        /\ r.event = EstablishedEvent /\ r.failed = FALSE
    BY <2>1 DEF Outcome
  <2>4. /\ IsSession(r.session, F) /\ r.session.phase = "Established"
        /\ r.session.out = s.out
    BY <2>3 DEF IsSession, Phases
  <2> QED
    BY <2>2, <2>3, <2>4
<1>3. CASE ~HelloAcceptable(cfg, m)
  <2>1. r = Outcome(CloseSession(s), NoEvent, TRUE)
    BY <1>1, <1>3 DEF HandleHello
  <2>2. r.session = CloseSession(s) /\ r.event = NoEvent /\ r.failed = TRUE
    BY <2>1 DEF Outcome
  <2>3. /\ IsSession(r.session, F) /\ r.session.phase = "Closed"
        /\ r.session.out = Append(s.out, Goodbye)
    BY <2>2, CloseFacts
  <2> QED
    BY <2>2, <2>3
<1> QED
  BY <1>2, <1>3

(* What one frame does to an established session.                          *)
LEMMA ReceiveFacts ==
    ASSUME NEW F, NEW s, IsSession(s, F), Goodbye \in F, NEW cfg, NEW m,
           m.kind = "Ping" => Pong \in F,
           s.phase = "Established"
    PROVE  LET r == Receive(cfg, s, m)
           IN  /\ IsSession(r.session, F) /\ r.failed \in BOOLEAN
               /\ r.failed <=> m.kind = "Hello"
               /\ m.kind = "Hello" => /\ r.session.phase = "Closed" /\ r.event = NoEvent
                                      /\ r.session.out = Append(s.out, Goodbye)
               /\ m.kind = "Goodbye" => /\ r.session.phase = "Closed" /\ r.event = ClosedEvent
                                        /\ r.session.out = s.out
               /\ m.kind = "Ping" => /\ r.session.phase = "Established" /\ r.event = NoEvent
                                     /\ r.session.out = Append(s.out, Pong)
               /\ m.kind \notin {"Hello", "Goodbye", "Ping"} => r.session = s /\ r.event = m
<1> DEFINE r == Receive(cfg, s, m)
<1>1. CASE m.kind = "Hello"
  <2>1. r = Outcome(CloseSession(s), NoEvent, TRUE)
    BY <1>1 DEF Receive
  <2>2. r.session = CloseSession(s) /\ r.event = NoEvent /\ r.failed = TRUE
    BY <2>1 DEF Outcome
  <2>3. /\ IsSession(r.session, F) /\ r.session.phase = "Closed"
        /\ r.session.out = Append(s.out, Goodbye)
    BY <2>2, CloseFacts
  <2> QED
    BY <1>1, <2>2, <2>3
<1>2. CASE m.kind = "Goodbye"
  <2>1. r = Outcome([s EXCEPT !.phase = "Closed"], ClosedEvent, FALSE)
    BY <1>2 DEF Receive
  <2> QED
    BY <1>2, <2>1 DEF Outcome, IsSession, Phases
<1>3. CASE m.kind = "Ping"
  <2>1. r = Outcome(Queue(s, Pong), NoEvent, FALSE)
    BY <1>3 DEF Receive
  <2> QED
    BY <1>3, <2>1, QueueFacts DEF Outcome
<1>4. CASE m.kind \notin {"Hello", "Goodbye", "Ping"}
  <2>1. r = Outcome(s, m, FALSE)
    BY <1>4 DEF Receive
  <2> QED
    BY <1>4, <2>1 DEF Outcome
<1> QED
  BY <1>1, <1>2, <1>3, <1>4

-----------------------------------------------------------------------------
(* Frames.                                                                 *)

(* What the provider writes is told apart by its kind.                     *)
LEMMA DownKinds ==
    /\ \A w \in Windows : {WindowAdded(w), WindowRemoved(w), TreeUpdate(w)} \subseteq DownFrames
    /\ \A f \in Windows \cup {None} : FocusChanged(f) \in DownFrames
    /\ {HelloOf(ProviderConfig), Goodbye, Ping} \subseteq DownFrames
    /\ \A m \in DownFrames :
          /\ m.kind \in {"WindowAdded", "WindowRemoved", "TreeUpdate"} =>
                m = Msg(m.kind, m.body) /\ m.body \in Windows
          /\ m.kind = "FocusChanged" => m.body \in Windows \cup {None}
          /\ m.kind \in {"WindowAdded", "WindowRemoved", "TreeUpdate", "FocusChanged",
                         "Hello", "Goodbye", "Ping"}
          /\ m.kind = "Hello" => m = HelloOf(ProviderConfig)
BY DEF DownFrames, HelloOf, Goodbye, Ping, Msg, WindowAdded, WindowRemoved, TreeUpdate,
       FocusChanged

(* What the consumer writes is told apart by its kind.                     *)
LEMMA UpKinds ==
    /\ \A w \in Windows : Action(w) \in UpFrames
    /\ \A c \in ConsumerConfigs : HelloOf(c) \in UpFrames
    /\ {Goodbye, Pong} \subseteq UpFrames
    /\ \A m \in UpFrames : m.kind \in {"Action", "Hello", "Goodbye", "Pong"}
BY SMTT(40) DEF UpFrames, HelloOf, Goodbye, Pong, Action, Msg

(* The view after a stream grew by one frame.                              *)
LEMMA ViewAppend ==
    ASSUME NEW held, NEW F, NEW stream \in Seq(F), NEW m \in F, NEW w \in Windows
    PROVE  w \in View(held, Append(stream, m), Len(Append(stream, m))) <=>
             \/ m = WindowAdded(w)
             \/ w \in View(held, stream, Len(stream)) /\ m # WindowRemoved(w)
<1>1. /\ Append(stream, m) \in Seq(F) /\ Len(Append(stream, m)) = Len(stream) + 1
      /\ Append(stream, m)[Len(stream) + 1] = m
      /\ Len(stream) + 1 \in 1..Len(Append(stream, m)) /\ Len(stream) \in 0..Len(stream)
  OBVIOUS
<1>2. View(held, Append(stream, m), Len(stream)) = View(held, stream, Len(stream))
  BY <1>1, ViewPrefix
<1>3. w \in View(held, Append(stream, m), Len(stream) + 1) <=>
        \/ Append(stream, m)[Len(stream) + 1] = WindowAdded(w)
        \/ /\ w \in View(held, Append(stream, m), (Len(stream) + 1) - 1)
           /\ Append(stream, m)[Len(stream) + 1] # WindowRemoved(w)
  BY <1>1, ViewStep
<1>4. (Len(stream) + 1) - 1 = Len(stream)
  OBVIOUS
<1> QED
  BY <1>1, <1>2, <1>3, <1>4

(* A frame that is no hello may follow a hello, or any other frame when no *)
(* hello is awaited.                                                       *)
LEMMA HelloFirstAppend ==
    ASSUME NEW F, NEW stream \in Seq(F), NEW m \in F, NEW awaited \in BOOLEAN,
           HelloFirst(stream, awaited), m.kind # "Hello", awaited => stream # <<>>
    PROVE  HelloFirst(Append(stream, m), awaited)
BY DEF HelloFirst

-----------------------------------------------------------------------------
(* The provider's steps.                                                   *)

(* What holds of the stream after the established provider wrote m.        *)
LEMMA Sending ==
    ASSUME IInv, provider.phase = "Established", NEW m \in DownFrames, m.kind # "Hello",
           Acceptable(m, announced)
    PROVE  /\ Append(down, m) \in Seq(DownFrames)
           /\ LegalStream(windows, Append(down, m))
           /\ Running => HelloFirst(Append(down, m), Awaited)
           /\ \A w \in Windows :
                 w \in View(windows, Append(down, m), Len(Append(down, m))) <=>
                   m = WindowAdded(w) \/ (w \in announced /\ m # WindowRemoved(w))
<1>1. down \in Seq(DownFrames) /\ announced = View(windows, down, Len(down))
  BY DEF IInv, TypeOK, Accounted
<1>2. LegalStream(windows, Append(down, m))
  BY <1>1, LegalAppend DEF IInv
<1>3. ASSUME Running PROVE HelloFirst(Append(down, m), Awaited)
  <2>1. HelloFirst(down, Awaited) /\ (Awaited => down # <<>>) /\ Awaited \in BOOLEAN
    BY <1>3 DEF IInv, OneHello, Unestablished, Awaited
  <2> QED
    BY <2>1, <1>1, HelloFirstAppend
<1> QED
  BY <1>1, <1>2, <1>3, ViewAppend

(* What a step of the provider that is past its greeting must show.        *)
LEMMA ProviderKeeps ==
    ASSUME IInv, UNCHANGED consumerVars,
           IsSession(provider', DownFrames), provider'.phase # "AwaitingHello",
           provider'.out = <<>>,
           announced' \subseteq Windows, hosting' \in {"serving", "failed", "ended"},
           peerGoodbye' \in BOOLEAN,
           up' \in Seq(UpFrames), down' \in Seq(DownFrames),
           LegalStream(windows, down'),
           Running => HelloFirst(down', Awaited) /\ (Awaited => down' # <<>>),
           provider'.phase = "Established" => announced' = View(windows, down', Len(down'))
    PROVE  IInv'
<1> USE DEF consumerVars
<1>1. TypeOK'
  BY DEF IInv, TypeOK
<1>2. LegalStream(windows, down)' /\ Accounted'
  BY DEF Accounted
<1>3. OneHello'
  BY DEF OneHello, Running, Awaited
<1>4. Unestablished'
  BY DEF IInv, Unestablished, Awaited, Running
<1>5. ConsumerNeverRejects'
  BY DEF IInv, ConsumerNeverRejects
<1> QED
  BY <1>1, <1>2, <1>3, <1>4, <1>5 DEF IInv

(* Writing one frame from an established session.                          *)
LEMMA WriteOne ==
    ASSUME IInv, provider.phase = "Established", UNCHANGED <<consumerVars, up, peerGoodbye>>,
           NEW m \in DownFrames, m.kind # "Hello", Acceptable(m, announced),
           down' = Append(down, m),
           IsSession(provider', DownFrames), provider'.phase # "AwaitingHello",
           provider'.out = <<>>,
           announced' \subseteq Windows, hosting' \in {"serving", "failed", "ended"},
           \A w \in Windows :
               w \in announced' <=> m = WindowAdded(w) \/ (w \in announced /\ m # WindowRemoved(w))
    PROVE  IInv'
<1>1. /\ down' \in Seq(DownFrames)
      /\ LegalStream(windows, down')
      /\ Running => HelloFirst(down', Awaited)
      /\ \A w \in Windows : w \in View(windows, down', Len(down')) <=>
                              m = WindowAdded(w) \/ (w \in announced /\ m # WindowRemoved(w))
  BY Sending
<1>2. View(windows, down', Len(down')) \subseteq Windows
  BY DEF View
<1>3. announced' = View(windows, down', Len(down'))
  BY <1>1, <1>2
<1>4. down' # <<>>
  BY DEF IInv, TypeOK
<1>5. up' \in Seq(UpFrames) /\ peerGoodbye' \in BOOLEAN
  BY DEF IInv, TypeOK
<1> QED
  BY <1>1, <1>3, <1>4, <1>5, ProviderKeeps

(* An established provider has nothing buffered, so a pump call writes     *)
(* exactly what it was told to report.                                     *)
LEMMA Direct ==
    ASSUME IInv, provider.phase = "Established"
    PROVE  /\ provider.out = <<>> /\ down \o provider.out = down
           /\ \A m \in DownFrames : down \o provider.out \o <<m>> = Append(down, m)
           /\ down \o provider.out \o <<>> = down
           /\ IsSession(Flushed(provider), DownFrames)
           /\ Flushed(provider).phase = "Established" /\ Flushed(provider).out = <<>>
<1>1. provider.out = <<>> /\ down \in Seq(DownFrames) /\ IsSession(provider, DownFrames)
  BY DEF IInv, TypeOK, Unestablished
<1>2. down \o <<>> = down
  BY <1>1, ConcatEmptySeq
<1>3. \A m \in DownFrames : down \o <<m>> = Append(down, m)
  BY <1>1, AppendIsConcat
<1> QED
  BY <1>1, <1>2, <1>3, FlushFacts

(* A source event the connection refuses.                                  *)
LEMMA RefuseKeeps ==
    ASSUME IInv, provider.phase = "Established", UNCHANGED <<consumerVars, up, peerGoodbye>>,
           Refuse
    PROVE  IInv'
<1>1. down' = down /\ provider' = Flushed(provider) /\ hosting' = "failed" /\ announced' = announced
  BY Direct DEF Refuse, Writes
<1>2. /\ IsSession(provider', DownFrames) /\ provider'.phase = "Established"
      /\ provider'.out = <<>>
  BY <1>1, Direct
<1>3. /\ announced' \subseteq Windows /\ peerGoodbye' \in BOOLEAN
      /\ up' \in Seq(UpFrames) /\ down' \in Seq(DownFrames)
  BY <1>1 DEF IInv, TypeOK
<1>4. /\ LegalStream(windows, down') /\ announced' = View(windows, down', Len(down'))
      /\ Running => HelloFirst(down', Awaited) /\ (Awaited => down' # <<>>)
  BY <1>1, Direct DEF IInv, Accounted, OneHello
<1> QED
  BY <1>1, <1>2, <1>3, <1>4, ProviderKeeps

(* Pumping what the source reports, as long as it writes at most one frame.*)
LEMMA SourceEventKeeps ==
    ASSUME IInv, NEW w \in Windows, PumpWindowRemoved(w) \/ PumpTreeUpdate(w)
    PROVE  IInv'
<1>1. provider.phase = "Established" /\ UNCHANGED <<consumerVars, up, peerGoodbye>>
  BY DEF PumpWindowRemoved, PumpTreeUpdate, Polled, Serving
<1>2. /\ IsSession(Flushed(provider), DownFrames)
      /\ Flushed(provider).phase = "Established" /\ Flushed(provider).out = <<>>
  BY <1>1, Direct
<1>3. announced \subseteq Windows /\ hosting \in {"serving", "failed", "ended"}
  BY DEF IInv, TypeOK
<1> DEFINE Sent(m) == /\ provider' = Flushed(provider) /\ hosting' = hosting
                      /\ down' = Append(down, m)
<1>4. CASE Refuse
  BY <1>1, <1>4, RefuseKeeps
<1>5. CASE PumpWindowRemoved(w) /\ w \in announced
  <2>1. WindowRemoved(w) \in DownFrames
    BY DownKinds
  <2>2. Sent(WindowRemoved(w)) /\ announced' = announced \ {w}
    BY <1>1, <1>5, <2>1, Direct DEF PumpWindowRemoved, Writes
  <2>3. /\ WindowRemoved(w).kind # "Hello" /\ Acceptable(WindowRemoved(w), announced)
        /\ \A x \in Windows : WindowRemoved(w) # WindowAdded(x)
        /\ \A x \in Windows : WindowRemoved(w) = WindowRemoved(x) <=> x = w
    BY <1>5 DEF Acceptable, WindowRemoved, WindowAdded, Msg
  <2>4. \A x \in Windows : x \in announced' <=>
            \/ WindowRemoved(w) = WindowAdded(x)
            \/ x \in announced /\ WindowRemoved(w) # WindowRemoved(x)
    BY <2>2, <2>3
  <2> QED
    BY <1>1, <1>2, <1>3, <2>1, <2>2, <2>3, <2>4, WriteOne
<1>6. CASE PumpTreeUpdate(w) /\ w \in announced
  <2>1. TreeUpdate(w) \in DownFrames
    BY DownKinds
  <2>2. Sent(TreeUpdate(w)) /\ announced' = announced
    BY <1>1, <1>6, <2>1, Direct DEF PumpTreeUpdate, Writes
  <2>3. /\ TreeUpdate(w).kind # "Hello" /\ Acceptable(TreeUpdate(w), announced)
        /\ \A x \in Windows : TreeUpdate(w) \notin {WindowAdded(x), WindowRemoved(x)}
    BY <1>6 DEF Acceptable, WindowRemoved, WindowAdded, TreeUpdate, Msg
  <2> QED
    BY <1>1, <1>2, <1>3, <2>1, <2>2, <2>3, WriteOne
<1> QED
  BY <1>4, <1>5, <1>6 DEF PumpWindowRemoved, PumpTreeUpdate

(* Pumping a focus the source reports.                                     *)
LEMMA FocusKeeps ==
    ASSUME IInv, NEW f \in Windows \cup {None}, PumpFocus(f)
    PROVE  IInv'
<1>1. provider.phase = "Established" /\ UNCHANGED <<consumerVars, up, peerGoodbye>>
  BY DEF PumpFocus, Polled, Serving
<1>2. /\ IsSession(Flushed(provider), DownFrames)
      /\ Flushed(provider).phase = "Established" /\ Flushed(provider).out = <<>>
  BY <1>1, Direct
<1>3. announced \subseteq Windows /\ hosting \in {"serving", "failed", "ended"}
  BY DEF IInv, TypeOK
<1>4. CASE Refuse
  BY <1>1, <1>4, RefuseKeeps
<1>5. CASE f = None \/ f \in announced
  <2>1. FocusChanged(f) \in DownFrames
    BY DownKinds
  <2>2. /\ provider' = Flushed(provider) /\ hosting' = hosting
        /\ down' = Append(down, FocusChanged(f)) /\ announced' = announced
    BY <1>1, <1>5, <2>1, Direct DEF PumpFocus, Writes
  <2>3. /\ FocusChanged(f).kind # "Hello" /\ Acceptable(FocusChanged(f), announced)
        /\ \A x \in Windows : FocusChanged(f) \notin {WindowAdded(x), WindowRemoved(x)}
    BY <1>5 DEF Acceptable, WindowRemoved, WindowAdded, FocusChanged, Msg
  <2> QED
    BY <1>1, <1>2, <1>3, <2>1, <2>2, <2>3, WriteOne
<1> QED
  BY <1>4, <1>5 DEF PumpFocus

(* A window is announced together with its first tree.                     *)
LEMMA WindowAddedKeeps ==
    ASSUME IInv, NEW w \in Windows, PumpWindowAdded(w)
    PROVE  IInv'
<1> DEFINE a == WindowAdded(w)
           t == TreeUpdate(w)
           mid == Append(down, a)
<1>1. provider.phase = "Established" /\ UNCHANGED <<consumerVars, up, peerGoodbye>>
  BY DEF PumpWindowAdded, Polled, Serving
<1>2. /\ announced \subseteq Windows /\ hosting \in {"serving", "failed", "ended"}
      /\ up' \in Seq(UpFrames) /\ peerGoodbye' \in BOOLEAN /\ down \in Seq(DownFrames)
  BY <1>1 DEF IInv, TypeOK
<1>3. CASE Refuse
  BY <1>1, <1>3, RefuseKeeps
<1>4. CASE w \notin announced
  <2>1. a \in DownFrames /\ t \in DownFrames
    BY DownKinds
  <2>2. /\ announced' = announced \cup {w} /\ hosting' = hosting
        /\ provider' = Flushed(provider) /\ down' = down \o provider.out \o <<a, t>>
    BY <1>4 DEF PumpWindowAdded, Writes
  <2>3. down' = Append(mid, t)
    <3>1. down' = down \o <<a, t>>
      BY <1>1, <1>2, <2>2, Direct
    <3>2. /\ <<a>> \in Seq(DownFrames) /\ <<t>> \in Seq(DownFrames)
          /\ <<a, t>> = <<a>> \o <<t>>
      BY <2>1
    <3>3. mid = down \o <<a>> /\ mid \in Seq(DownFrames)
      BY <1>2, <2>1, AppendIsConcat
    <3>4. Append(mid, t) = mid \o <<t>>
      BY <2>1, <3>3, AppendIsConcat
    <3>5. (down \o <<a>>) \o <<t>> = down \o (<<a>> \o <<t>>)
      BY <1>2, <3>2, ConcatAssociative
    <3> QED
      BY <3>1, <3>2, <3>3, <3>4, <3>5
  <2>4. /\ a.kind # "Hello" /\ Acceptable(a, announced)
        /\ \A x \in Windows : a # WindowRemoved(x) /\ (a = WindowAdded(x) <=> x = w)
        /\ t.kind # "Hello"
        /\ \A x \in Windows : t \notin {WindowAdded(x), WindowRemoved(x)}
        /\ \A view : w \in view => Acceptable(t, view)
    BY <1>4 DEF Acceptable, WindowRemoved, WindowAdded, TreeUpdate, Msg
  <2>5. /\ mid \in Seq(DownFrames) /\ LegalStream(windows, mid)
        /\ Running => HelloFirst(mid, Awaited)
        /\ \A x \in Windows : x \in View(windows, mid, Len(mid)) <=> (x = w \/ x \in announced)
    BY <1>1, <2>1, <2>4, Sending
  <2>6. LegalStream(windows, down')
    BY <2>1, <2>3, <2>4, <2>5, LegalAppend
  <2>7. Running => HelloFirst(down', Awaited)
    <3>1. mid # <<>> /\ Awaited \in BOOLEAN
      BY <1>2, <2>1, AppendProperties DEF Awaited
    <3> QED
      BY <2>1, <2>3, <2>4, <2>5, <3>1, HelloFirstAppend
  <2>8. \A x \in Windows : x \in View(windows, down', Len(down')) <=> x \in announced'
    BY <2>1, <2>2, <2>3, <2>4, <2>5, ViewAppend
  <2>9. announced' = View(windows, down', Len(down'))
    BY <1>2, <2>2, <2>8 DEF View
  <2>10. down' \in Seq(DownFrames) /\ down' # <<>>
    BY <2>1, <2>3, <2>5, AppendProperties
  <2>11. /\ IsSession(provider', DownFrames) /\ provider'.phase = "Established"
         /\ provider'.out = <<>>
    BY <1>1, <2>2, Direct
  <2> QED
    BY <1>1, <1>2, <2>2, <2>6, <2>7, <2>9, <2>10, <2>11, ProviderKeeps
<1> QED
  BY <1>3, <1>4 DEF PumpWindowAdded

(* Writing nothing.                                                        *)
LEMMA WriteNone ==
    ASSUME IInv, provider.phase = "Established", UNCHANGED <<consumerVars, announced, down>>,
           IsSession(provider', DownFrames), provider'.phase # "AwaitingHello",
           provider'.out = <<>>, up' \in Seq(UpFrames),
           hosting' \in {"serving", "failed", "ended"}, peerGoodbye' \in BOOLEAN
    PROVE  IInv'
<1>1. /\ announced' \subseteq Windows /\ down' \in Seq(DownFrames)
      /\ LegalStream(windows, down') /\ announced' = View(windows, down', Len(down'))
  BY DEF IInv, TypeOK, Accounted
<1>2. Running => HelloFirst(down', Awaited) /\ (Awaited => down' # <<>>)
  BY Direct DEF IInv, OneHello
<1> QED
  BY <1>1, <1>2, ProviderKeeps

(* Pings and goodbyes may be sent at any time.                             *)
LEMMA ControlKeeps ==
    ASSUME IInv, provider.phase = "Established", NEW m \in {Ping, Goodbye}, NEW s,
           IsSession(s, DownFrames), s.out = Append(provider.out, m),
           s.phase # "AwaitingHello", Writes(s, <<>>),
           UNCHANGED <<consumerVars, announced>>,
           up' \in Seq(UpFrames), hosting' \in {"serving", "failed", "ended"},
           peerGoodbye' \in BOOLEAN
    PROVE  IInv'
<1>1. m \in DownFrames /\ m.kind # "Hello" /\ Acceptable(m, announced)
      /\ \A w \in Windows : m \notin {WindowAdded(w), WindowRemoved(w)}
  BY DownKinds DEF Ping, Goodbye, Msg, Acceptable, WindowAdded, WindowRemoved
<1>2. s.out = <<m>> /\ provider.out = <<>> /\ down \in Seq(DownFrames)
  <2>1. provider.out = <<>>
    BY Direct
  <2>2. down \in Seq(DownFrames)
    BY DEF IInv, TypeOK
  <2>3. Append(<<>>, m) = <<m>>
    BY <1>1
  <2> QED
    BY <2>1, <2>2, <2>3
<1>3. down' = Append(down, m)
  <2>1. down' = (down \o <<m>>) \o <<>>
    BY <1>2 DEF Writes
  <2>2. down \o <<m>> = Append(down, m) /\ Append(down, m) \in Seq(DownFrames)
    BY <1>1, <1>2, AppendIsConcat
  <2> QED
    BY <2>1, <2>2, ConcatEmptySeq
<1>4. IsSession(provider', DownFrames) /\ provider'.phase = s.phase /\ provider'.out = <<>>
  BY FlushFacts DEF Writes
<1>5. /\ down' \in Seq(DownFrames) /\ LegalStream(windows, down')
      /\ Running => HelloFirst(down', Awaited)
      /\ \A w \in Windows : w \in View(windows, down', Len(down')) <=> w \in announced
  BY <1>1, <1>3, Sending
<1>6. announced' \subseteq Windows /\ announced' = announced
  BY DEF IInv, TypeOK
<1>7. announced' = View(windows, down', Len(down'))
  BY <1>5, <1>6 DEF View
<1>8. down' # <<>>
  BY <1>1, <1>2, <1>3, AppendProperties
<1> QED
  BY <1>4, <1>5, <1>6, <1>7, <1>8, ProviderKeeps

(* Heartbeats.                                                             *)
LEMMA HeartbeatKeeps ==
    ASSUME IInv, HeartbeatPings \/ HeartbeatGivesUp
    PROVE  IInv'
<1>1. provider.phase = "Established" /\ UNCHANGED <<consumerVars, announced, up, peerGoodbye>>
  BY DEF HeartbeatPings, HeartbeatGivesUp, Serving
<1>2. /\ IsSession(provider, DownFrames) /\ up' \in Seq(UpFrames) /\ peerGoodbye' \in BOOLEAN
      /\ hosting \in {"serving", "failed", "ended"} /\ Ping \in DownFrames /\ Goodbye \in DownFrames
  BY <1>1, DownKinds DEF IInv, TypeOK
<1>3. CASE HeartbeatPings
  <2>1. /\ IsSession(Queue(provider, Ping), DownFrames)
        /\ Queue(provider, Ping).phase = "Established"
        /\ Queue(provider, Ping).out = Append(provider.out, Ping)
    BY <1>1, <1>2, QueueFacts
  <2>2. Writes(Queue(provider, Ping), <<>>) /\ hosting' = hosting
    BY <1>3 DEF HeartbeatPings
  <2> QED
    BY <1>1, <1>2, <2>1, <2>2, ControlKeeps
<1>4. CASE HeartbeatGivesUp
  <2>1. /\ IsSession(CloseSession(provider), DownFrames)
        /\ CloseSession(provider).phase = "Closed"
        /\ CloseSession(provider).out = Append(provider.out, Goodbye)
    BY <1>1, <1>2, CloseFacts
  <2>2. Writes(CloseSession(provider), <<>>) /\ hosting' = "ended"
    BY <1>4 DEF HeartbeatGivesUp
  <2> QED
    BY <1>1, <1>2, <2>1, <2>2, ControlKeeps
<1> QED
  BY <1>3, <1>4

(* What an established provider reads.                                     *)
LEMMA HostReadsKeeps ==
    ASSUME IInv, HostReads
    PROVE  IInv'
<1> DEFINE m == Head(up)
           r == Receive(ProviderConfig, provider, m)
<1>1. /\ hosting = "serving" /\ provider.phase = "Established"
      /\ up # <<>> /\ up' = Tail(up) /\ UNCHANGED <<consumerVars, announced>>
  BY DEF HostReads, Serving
<1>2. /\ IsSession(provider, DownFrames) /\ Goodbye \in DownFrames
      /\ up' \in Seq(UpFrames) /\ m \in UpFrames /\ peerGoodbye \in BOOLEAN
  BY <1>1, DownKinds, HeadTailProperties DEF IInv, TypeOK
<1>3. m.kind \in {"Action", "Hello", "Goodbye", "Pong"}
  BY <1>2, UpKinds
<1>4. /\ IsSession(r.session, DownFrames) /\ r.failed \in BOOLEAN
      /\ r.failed <=> m.kind = "Hello"
      /\ m.kind = "Hello" => /\ r.session.phase = "Closed" /\ r.event = NoEvent
                             /\ r.session.out = Append(provider.out, Goodbye)
      /\ m.kind = "Goodbye" => /\ r.session.phase = "Closed" /\ r.event = ClosedEvent
                               /\ r.session.out = provider.out
      /\ m.kind \in {"Action", "Pong"} => r.session = provider /\ r.event = m
  BY <1>1, <1>2, <1>3, ReceiveFacts
<1>5. ClosedEvent.kind = "ClosedEvent"
  BY DEF ClosedEvent, Msg
<1>6. CASE m.kind = "Hello"
  <2>1. CloseSession(r.session) = r.session
    BY <1>4, <1>6 DEF CloseSession
  <2>2. Writes(r.session, <<>>) /\ hosting' = "failed" /\ peerGoodbye' = peerGoodbye
    BY <1>4, <1>6, <2>1 DEF HostReads
  <2> QED
    BY <1>1, <1>2, <1>4, <1>6, <2>2, ControlKeeps
<1>7. CASE m.kind # "Hello"
  <2>1. /\ Writes(r.session, <<>>)
        /\ peerGoodbye' = (peerGoodbye \/ r.event = ClosedEvent)
        /\ hosting' = IF r.event = ClosedEvent THEN "ended" ELSE hosting
    <3>1. ~(r.failed \/ r.event.kind \notin {"NoEvent", "Action", "Pong", "ClosedEvent"})
      BY <1>3, <1>4, <1>5, <1>7
    <3> QED
      BY <3>1 DEF HostReads
  <2>2. /\ IsSession(r.session, DownFrames) /\ r.session.phase \in {"Established", "Closed"}
        /\ r.session.out = <<>>
    BY <1>1, <1>3, <1>4, <1>7, Direct
  <2>3. down' = down
    BY <1>1, <2>1, <2>2, Direct DEF Writes
  <2>4. /\ IsSession(provider', DownFrames) /\ provider'.phase # "AwaitingHello"
        /\ provider'.out = <<>>
    BY <2>1, <2>2, FlushFacts DEF Writes
  <2>5. hosting' \in {"serving", "failed", "ended"} /\ peerGoodbye' \in BOOLEAN
    BY <1>1, <1>2, <2>1
  <2> QED
    BY <1>1, <1>2, <2>3, <2>4, <2>5, WriteNone
<1> QED
  BY <1>6, <1>7

(* The consumer hung up and everything it wrote was read.                  *)
LEMMA HostSeesHangupKeeps ==
    ASSUME IInv, HostSeesHangup
    PROVE  IInv'
<1>1. /\ UNCHANGED <<provider, announced, peerGoodbye, down, up, consumerVars>>
      /\ hosting' = "ended"
  BY DEF HostSeesHangup
<1> QED
  BY <1>1 DEF IInv, TypeOK, Accounted, OneHello, HelloFirst, Awaited, Unestablished,
              ConsumerNeverRejects, Running, consumerVars, LegalStream

-----------------------------------------------------------------------------
(* The handshake, seen from the provider.                                  *)

(* While the provider waits for a hello, what it has written and what it   *)
(* still holds back make up at most its own hello.                         *)
LEMMA Greeting ==
    ASSUME IInv, provider.phase = "AwaitingHello"
    PROVE  LET p == down \o provider.out
           IN  /\ p \in {<<>>, <<HelloOf(ProviderConfig)>>} /\ p \in Seq(DownFrames)
               /\ p \o <<>> = p
               /\ Running => HelloFirst(p, Awaited) /\ (Awaited => p # <<>>)
               /\ windows = {} /\ announced = {}
               /\ LegalStream({}, p) /\ View({}, p, Len(p)) = {}
               /\ IsSession(provider, DownFrames)
<1> DEFINE p == down \o provider.out
           h == HelloOf(ProviderConfig)
<1>1. /\ h \in DownFrames /\ h.kind = "Hello"
      /\ \A w \in Windows : h \notin {WindowAdded(w), WindowRemoved(w)}
  BY DownKinds DEF HelloOf, WindowAdded, WindowRemoved, Msg
<1>2. /\ down \in Seq(DownFrames) /\ provider.out \in Seq(DownFrames)
      /\ IsSession(provider, DownFrames) /\ windows = {} /\ announced = {}
  BY DEF IInv, TypeOK, IsSession, Unestablished
<1>3. \/ provider.out = <<h>> /\ down = <<>>
      \/ provider.out = <<>> /\ down \in {<<>>, <<h>>}
  BY DEF IInv, Unestablished
<1>0. /\ <<h>> \in Seq(DownFrames) /\ Len(<<h>>) = 1 /\ <<h>>[1] = h /\ <<h>> # <<>>
      /\ <<>> \in Seq(DownFrames) /\ Len(<<>>) = 0
  BY <1>1
<1>4. p \in {<<>>, <<h>>} /\ (p = <<h>> <=> (down = <<h>> \/ provider.out = <<h>>))
  <2>1. <<>> \o <<h>> = <<h>> /\ <<h>> \o <<>> = <<h>> /\ <<>> \o <<>> = <<>>
    BY <1>0, ConcatEmptySeq
  <2> QED
    BY <1>0, <1>3, <2>1
<1>5. p \in Seq(DownFrames) /\ p \o <<>> = p
  BY <1>2, ConcatProperties, ConcatEmptySeq
<1> HIDE DEF h, p
<1>6. ASSUME Running PROVE HelloFirst(p, Awaited) /\ (Awaited => p # <<>>)
  <2>1. consumer.phase # "Closed" /\ HelloFirst(down, Awaited)
        /\ (Awaited /\ down = <<>> => provider.out # <<>>)
        /\ (provider.out # <<>> => consumer.phase # "Established")
        /\ consumer.phase \in Phases
    BY <1>6 DEF IInv, OneHello, Unestablished, TypeOK, IsSession
  <2>2. down = <<h>> => Awaited
    BY <1>1, <2>1 DEF HelloFirst
  <2>3. provider.out = <<h>> => Awaited
    BY <2>1 DEF Awaited, Phases
  <2>4. Awaited => p = <<h>>
    BY <1>3, <1>4, <2>1
  <2>5. p = <<h>> => Awaited
    BY <1>4, <2>2, <2>3
  <2>6. Awaited \in BOOLEAN
    BY DEF Awaited
  <2> QED
    BY <1>0, <1>1, <1>4, <2>4, <2>5, <2>6 DEF HelloFirst
<1>7. LegalStream({}, p)
  BY <1>0, <1>1, <1>4 DEF LegalStream, Acceptable
<1>8. View({}, p, Len(p)) = {}
  BY <1>0, <1>1, <1>4 DEF View, Held
<1> QED
  BY <1>2, <1>4, <1>5, <1>6, <1>7, <1>8 DEF h, p

(* The first pump writes the hello.                                        *)
LEMMA PumpIdleKeeps ==
    ASSUME IInv, PumpIdle
    PROVE  IInv'
<1> DEFINE p == down \o provider.out
<1>1. /\ provider.out # <<>> /\ provider' = Flushed(provider) /\ down' = p \o <<>>
      /\ UNCHANGED <<announced, hosting, peerGoodbye, consumerVars, up>>
  BY DEF PumpIdle, Writes
<1>2. provider.phase = "AwaitingHello"
  BY <1>1 DEF IInv, Unestablished
<1>3. /\ p \in {<<>>, <<HelloOf(ProviderConfig)>>} /\ p \in Seq(DownFrames) /\ down' = p
      /\ Running => HelloFirst(p, Awaited) /\ (Awaited => p # <<>>)
      /\ windows = {} /\ announced = {} /\ LegalStream({}, p)
      /\ IsSession(provider, DownFrames)
  BY <1>1, <1>2, Greeting
<1>4. /\ IsSession(provider', DownFrames) /\ provider'.phase = "AwaitingHello"
      /\ provider'.out = <<>>
  BY <1>1, <1>2, <1>3, FlushFacts
<1> USE <1>1 DEF consumerVars
<1>5. TypeOK'
  BY <1>3, <1>4 DEF IInv, TypeOK
<1>6. LegalStream(windows, down)' /\ Accounted'
  BY <1>3, <1>4 DEF Accounted
<1>7. OneHello'
  BY <1>3 DEF OneHello, Running, Awaited
<1>8. Unestablished'
  BY <1>3, <1>4 DEF IInv, Unestablished, Running, Awaited
<1> QED
  BY <1>5, <1>6, <1>7, <1>8 DEF IInv, ConsumerNeverRejects

(* The burst names each window of the list, right before its tree.         *)
LEMMA BurstFacts ==
    ASSUME NEW ws \in Seq(Windows)
    PROVE  /\ Burst(ws) \in Seq(DownFrames) /\ Len(Burst(ws)) = 2 * Len(ws)
           /\ \A k \in 1..Len(ws) : /\ Burst(ws)[2*k - 1] = WindowAdded(ws[k])
                                    /\ Burst(ws)[2*k] = TreeUpdate(ws[k])
           /\ \A i \in 1..2*Len(ws) : \E k \in 1..Len(ws) : i = 2*k - 1 \/ i = 2*k
<1>0. Len(ws) \in Nat /\ \A k \in 1..Len(ws) : ws[k] \in Windows
  OBVIOUS
<1>1. \A i \in 1..2*Len(ws) : \E k \in 1..Len(ws) : i = 2*k - 1 \/ i = 2*k
  <2> TAKE i \in 1..2*Len(ws)
  <2>1. CASE i % 2 = 1
    <3>1. (i + 1) \div 2 \in 1..Len(ws) /\ i = 2 * ((i + 1) \div 2) - 1
      BY <1>0, <2>1
    <3> QED
      BY <3>1
  <2>2. CASE i % 2 # 1
    <3>1. i \div 2 \in 1..Len(ws) /\ i = 2 * (i \div 2)
      BY <1>0, <2>2
    <3> QED
      BY <3>1
  <2> QED
    BY <2>1, <2>2
<1>2. \A k \in 1..Len(ws) :
         /\ 2*k - 1 \in 1..2*Len(ws) /\ 2*k \in 1..2*Len(ws)
         /\ (2*k - 1) % 2 = 1 /\ (2*k) % 2 = 0
         /\ ((2*k - 1) + 1) \div 2 = k /\ (2*k) \div 2 = k
  BY <1>0
<1>3. \A k \in 1..Len(ws) : /\ Burst(ws)[2*k - 1] = WindowAdded(ws[k])
                            /\ Burst(ws)[2*k] = TreeUpdate(ws[k])
  BY <1>2 DEF Burst
<1>4. \A i \in 1..2*Len(ws) : Burst(ws)[i] \in DownFrames
  <2> TAKE i \in 1..2*Len(ws)
  <2>1. PICK k \in 1..Len(ws) : i = 2*k - 1 \/ i = 2*k
    BY <1>1
  <2>2. ws[k] \in Windows
    BY <1>0
  <2>3. WindowAdded(ws[k]) \in DownFrames /\ TreeUpdate(ws[k]) \in DownFrames
    BY <2>2, DownKinds
  <2> QED
    BY <1>3, <2>1, <2>3
<1>5. 2 * Len(ws) \in Nat
  BY <1>0
<1>6. Burst(ws) = [i \in 1..2*Len(ws) |-> Burst(ws)[i]]
  BY DEF Burst
<1>7. Burst(ws) \in [1..2*Len(ws) -> DownFrames]
  BY <1>4, <1>6
<1>8. Burst(ws) \in Seq(DownFrames) /\ Len(Burst(ws)) = 2 * Len(ws)
  BY <1>5, <1>7
<1> QED
  BY <1>1, <1>3, <1>8

(* After a greeting that opened no window, the burst opens exactly the     *)
(* listed ones, each of them once.                                         *)
LEMMA BurstLegal ==
    ASSUME NEW p \in {<<>>, <<HelloOf(ProviderConfig)>>}, NEW ws \in Seq(Windows), Unrepeated(ws)
    PROVE  LET all == p \o Burst(ws)
           IN  /\ all \in Seq(DownFrames)
               /\ LegalStream({}, all) /\ View({}, all, Len(all)) = Members(ws)
               /\ \A awaited \in BOOLEAN :
                     HelloFirst(p, awaited) /\ (awaited => p # <<>>) =>
                       HelloFirst(all, awaited) /\ (awaited => all # <<>>)
<1> DEFINE all == p \o Burst(ws)
           n == Len(p)
           h == HelloOf(ProviderConfig)
<1>1. /\ p \in Seq(DownFrames) /\ n \in {0, 1} /\ (p # <<>> <=> n = 1)
      /\ \A i \in 1..n : p[i] = h
  <2>1. h \in DownFrames
    BY DownKinds
  <2>2. p = <<>> \/ p = <<h>>
    OBVIOUS
  <2> HIDE DEF h
  <2>3. /\ <<>> \in Seq(DownFrames) /\ Len(<<>>) = 0
        /\ <<h>> \in Seq(DownFrames) /\ Len(<<h>>) = 1 /\ <<h>>[1] = h /\ <<h>> # <<>>
    BY <2>1
  <2>4. CASE p = <<>>
    BY <2>3, <2>4
  <2>5. CASE p = <<h>>
    BY <2>3, <2>5
  <2> QED
    BY <2>2, <2>4, <2>5
<1>2. /\ Burst(ws) \in Seq(DownFrames) /\ Len(Burst(ws)) = 2 * Len(ws)
      /\ \A k \in 1..Len(ws) : /\ Burst(ws)[2*k - 1] = WindowAdded(ws[k])
                               /\ Burst(ws)[2*k] = TreeUpdate(ws[k])
      /\ \A i \in 1..2*Len(ws) : \E k \in 1..Len(ws) : i = 2*k - 1 \/ i = 2*k
  BY BurstFacts
<1>3. Len(ws) \in Nat /\ \A k \in 1..Len(ws) : ws[k] \in Windows
  OBVIOUS
<1>4. /\ all \in Seq(DownFrames) /\ Len(all) = n + 2 * Len(ws)
      /\ \A i \in 1..n + 2 * Len(ws) : all[i] = IF i <= n THEN p[i] ELSE Burst(ws)[i - n]
  <2>1. /\ all \in Seq(DownFrames) /\ Len(all) = n + Len(Burst(ws))
        /\ \A i \in 1..n + Len(Burst(ws)) : all[i] = IF i <= n THEN p[i] ELSE Burst(ws)[i - n]
    BY <1>1, <1>2, ConcatProperties, ZenonT(60)
  <2> QED
    BY <1>2, <2>1
<1>5. \A k \in 1..Len(ws) : /\ n + 2*k - 1 \in 1..Len(all) /\ n + 2*k \in 1..Len(all)
                            /\ all[n + 2*k - 1] = WindowAdded(ws[k])
                            /\ all[n + 2*k] = TreeUpdate(ws[k])
  <2> TAKE k \in 1..Len(ws)
  <2>1. /\ n + 2*k - 1 \in 1..n + 2 * Len(ws) /\ n + 2*k \in 1..n + 2 * Len(ws)
        /\ n + 2*k - 1 > n /\ (n + 2*k - 1) - n = 2*k - 1 /\ (n + 2*k) - n = 2*k
    BY <1>1, <1>3
  <2>2. all[n + 2*k - 1] = Burst(ws)[2*k - 1] /\ all[n + 2*k] = Burst(ws)[2*k]
    BY <1>1, <1>3, <1>4, <2>1, SMTT(30)
  <2> QED
    BY <1>2, <1>4, <2>1, <2>2
<1>6. \A i \in 1..Len(all) : \/ i = 1 /\ n = 1 /\ all[i] = h
                             \/ \E k \in 1..Len(ws) : i = n + 2*k - 1 \/ i = n + 2*k
  <2> TAKE i \in 1..Len(all)
  <2>1. CASE i <= n
    BY <1>1, <1>4, <2>1
  <2>2. CASE i > n
    <3>1. i - n \in 1..2 * Len(ws)
      BY <1>1, <1>3, <1>4, <2>2
    <3>2. PICK k \in 1..Len(ws) : i - n = 2*k - 1 \/ i - n = 2*k
      BY <1>2, <3>1
    <3> QED
      BY <1>1, <3>2
  <2> QED
    BY <1>1, <2>1, <2>2
<1> HIDE DEF all, n, h
<1>7. /\ h.kind = "Hello"
      /\ \A w, x \in Windows :
            /\ WindowAdded(w).kind = "WindowAdded" /\ WindowAdded(w).body = w
            /\ TreeUpdate(w).kind = "TreeUpdate" /\ TreeUpdate(w).body = w
            /\ WindowAdded(w) = WindowAdded(x) <=> w = x
            /\ TreeUpdate(w) \notin {WindowAdded(x), WindowRemoved(x)}
            /\ WindowAdded(w) # WindowRemoved(x) /\ h \notin {WindowAdded(w), WindowRemoved(w)}
  BY DEF h, HelloOf, WindowAdded, WindowRemoved, TreeUpdate, Msg
<1>8. \A i \in 1..Len(all), w \in Windows :
         /\ all[i] # WindowRemoved(w)
         /\ all[i] = WindowAdded(w) <=> \E k \in 1..Len(ws) : i = n + 2*k - 1 /\ ws[k] = w
  <2> TAKE i \in 1..Len(all), w \in Windows
  <2>1. CASE i = 1 /\ n = 1 /\ all[i] = h
    <3>1. \A k \in 1..Len(ws) : i # n + 2*k - 1
      BY <2>1, <1>3
    <3> QED
      BY <2>1, <3>1, <1>7
  <2>2. ASSUME NEW k \in 1..Len(ws), i = n + 2*k - 1
        PROVE  /\ all[i] # WindowRemoved(w)
               /\ all[i] = WindowAdded(w) <=> \E j \in 1..Len(ws) : i = n + 2*j - 1 /\ ws[j] = w
    <3>1. \A j \in 1..Len(ws) : i = n + 2*j - 1 => j = k
      BY <2>2, <1>1, <1>3
    <3>2. all[i] = WindowAdded(ws[k]) /\ ws[k] \in Windows
      BY <2>2, <1>3, <1>5
    <3>3. all[i] # WindowRemoved(w) /\ (all[i] = WindowAdded(w) <=> ws[k] = w)
      BY <3>2, <1>7
    <3> QED
      BY <2>2, <3>1, <3>3
  <2>3. ASSUME NEW k \in 1..Len(ws), i = n + 2*k
        PROVE  /\ all[i] \notin {WindowAdded(w), WindowRemoved(w)}
               /\ \A j \in 1..Len(ws) : i # n + 2*j - 1
    <3>1. \A j \in 1..Len(ws) : i # n + 2*j - 1
      BY <2>3, <1>1, <1>3
    <3>2. all[i] = TreeUpdate(ws[k]) /\ ws[k] \in Windows
      BY <2>3, <1>3, <1>5
    <3> QED
      BY <3>1, <3>2, <1>7
  <2> QED
    BY <2>1, <2>2, <2>3, <1>6
<1>9. \A i \in 0..Len(all), w \in Windows :
         w \in View({}, all, i) <=> \E k \in 1..Len(ws) : n + 2*k - 1 <= i /\ ws[k] = w
  <2> TAKE i \in 0..Len(all), w \in Windows
  <2>1. w \in View({}, all, i) <=> \E j \in 1..i : all[j] = WindowAdded(w)
    <3>1. Len(all) \in Nat
      BY <1>1, <1>3, <1>4
    <3> QED
      BY <3>1, <1>8 DEF View, Held, Stays
  <2>2. \A j \in 1..i : j \in 1..Len(all)
    BY <1>1, <1>3, <1>4
  <2>3. \A k \in 1..Len(ws) : n + 2*k - 1 <= i => n + 2*k - 1 \in 1..i
    BY <1>1, <1>3
  <2>4. ASSUME NEW k \in 1..Len(ws), n + 2*k - 1 <= i, ws[k] = w
        PROVE  \E j \in 1..i : all[j] = WindowAdded(w)
    BY <2>3, <2>4, <1>5
  <2>5. ASSUME NEW j \in 1..i, all[j] = WindowAdded(w)
        PROVE  \E k \in 1..Len(ws) : n + 2*k - 1 <= i /\ ws[k] = w
    <3>1. PICK k \in 1..Len(ws) : j = n + 2*k - 1 /\ ws[k] = w
      BY <2>2, <2>5, <1>8
    <3> QED
      BY <3>1
  <2> QED
    BY <2>1, <2>4, <2>5
<1>10. LegalStream({}, all)
  <2> SUFFICES ASSUME NEW i \in 1..Len(all)
               PROVE  Acceptable(all[i], View({}, all, i - 1))
    BY DEF LegalStream
  <2>1. i - 1 \in 0..Len(all)
    BY <1>1, <1>3, <1>4
  <2>2. CASE all[i] = h
    BY <2>2, <1>7 DEF Acceptable
  <2>3. ASSUME NEW k \in 1..Len(ws), i = n + 2*k - 1
        PROVE  Acceptable(all[i], View({}, all, i - 1))
    <3>1. all[i] = WindowAdded(ws[k]) /\ ws[k] \in Windows
      BY <2>3, <1>3, <1>5
    <3>2. \A j \in 1..Len(ws) : n + 2*j - 1 <= i - 1 => ws[j] # ws[k]
      BY <2>3, <1>1, <1>3 DEF Unrepeated
    <3>3. ws[k] \notin View({}, all, i - 1)
      BY <3>1, <3>2, <2>1, <1>9
    <3> QED
      BY <3>1, <3>3, <1>7 DEF Acceptable
  <2>4. ASSUME NEW k \in 1..Len(ws), i = n + 2*k
        PROVE  Acceptable(all[i], View({}, all, i - 1))
    <3>1. all[i] = TreeUpdate(ws[k]) /\ ws[k] \in Windows
      BY <2>4, <1>3, <1>5
    <3>2. n + 2*k - 1 <= i - 1
      BY <2>4, <1>1
    <3>3. ws[k] \in View({}, all, i - 1)
      BY <3>1, <3>2, <2>1, <1>9
    <3> QED
      BY <3>1, <3>3, <1>7 DEF Acceptable
  <2> QED
    BY <2>2, <2>3, <2>4, <1>6
<1>11. View({}, all, Len(all)) = Members(ws)
  <2>1. Len(all) \in 0..Len(all) /\ \A k \in 1..Len(ws) : n + 2*k - 1 <= Len(all)
    BY <1>1, <1>3, <1>4
  <2>2. \A w \in Windows : w \in View({}, all, Len(all)) <=> \E k \in 1..Len(ws) : ws[k] = w
    BY <2>1, <1>9
  <2> QED
    BY <2>2, <1>3 DEF View, Members
<1>12. ASSUME NEW awaited \in BOOLEAN, HelloFirst(p, awaited), awaited => p # <<>>
       PROVE  HelloFirst(all, awaited) /\ (awaited => all # <<>>)
  <2>1. \A i \in 1..Len(all) : all[i].kind = "Hello" <=> i = 1 /\ n = 1
    <3> TAKE i \in 1..Len(all)
    <3>1. ASSUME NEW k \in 1..Len(ws), i = n + 2*k - 1 \/ i = n + 2*k
          PROVE  all[i].kind # "Hello" /\ ~(i = 1 /\ n = 1)
      <4>1. all[i] \in {WindowAdded(ws[k]), TreeUpdate(ws[k])} /\ ws[k] \in Windows
        BY <3>1, <1>3, <1>5
      <4>2. ~(i = 1 /\ n = 1)
        BY <3>1, <1>3
      <4> QED
        BY <4>1, <4>2, <1>7
    <3> QED
      BY <3>1, <1>6, <1>7
  <2>2. awaited <=> n = 1
    BY <1>12, <1>1, <1>7 DEF HelloFirst, n
  <2>3. n = 1 => all # <<>>
    BY <1>3, <1>4
  <2> QED
    BY <2>1, <2>2, <2>3 DEF HelloFirst
<1> QED
  BY <1>4, <1>10, <1>11, <1>12 DEF all

(* Appending to the second of two sequences.                               *)
LEMMA ConcatAppend ==
    ASSUME NEW F, NEW a \in Seq(F), NEW b \in Seq(F), NEW m \in F
    PROVE  /\ a \o Append(b, m) = Append(a \o b, m)
           /\ (a \o Append(b, m)) \o <<>> = Append(a \o b, m)
           /\ Append(a \o b, m) \in Seq(F) /\ Append(a \o b, m) # <<>>
<1>1. <<m>> \in Seq(F) /\ a \o b \in Seq(F)
  BY ConcatProperties
<1>2. Append(b, m) = b \o <<m>>
  BY AppendIsConcat
<1>3. Append(a \o b, m) = (a \o b) \o <<m>>
  BY <1>1, AppendIsConcat
<1>4. (a \o b) \o <<m>> = a \o (b \o <<m>>)
  BY <1>1, ConcatAssociative, SMTT(40)
<1>5. Append(a \o b, m) \in Seq(F) /\ Append(a \o b, m) # <<>>
  BY <1>1, AppendProperties
<1> QED
  BY <1>2, <1>3, <1>4, <1>5, ConcatEmptySeq

(* The answer to the consumer's hello.                                     *)
LEMMA HostReadsHelloKeeps ==
    ASSUME IInv, HostReadsHello
    PROVE  IInv'
<1> DEFINE r == Receive(ProviderConfig, provider, Head(up))
           p == down \o provider.out
<1>1. /\ hosting = "serving" /\ provider.phase = "AwaitingHello"
      /\ up # <<>> /\ up' = Tail(up) /\ UNCHANGED <<peerGoodbye, consumerVars>>
  BY DEF HostReadsHello
<1>2. /\ up' \in Seq(UpFrames) /\ peerGoodbye' \in BOOLEAN /\ announced \subseteq Windows
      /\ Goodbye \in DownFrames
  BY <1>1, DownKinds, HeadTailProperties DEF IInv, TypeOK
<1>3. /\ p \in {<<>>, <<HelloOf(ProviderConfig)>>} /\ p \in Seq(DownFrames)
      /\ Running => HelloFirst(p, Awaited) /\ (Awaited => p # <<>>)
      /\ windows = {} /\ announced = {}
      /\ LegalStream({}, p) /\ View({}, p, Len(p)) = {}
      /\ IsSession(provider, DownFrames)
  BY <1>1, Greeting
<1>4. /\ IsSession(r.session, DownFrames) /\ r.failed \in BOOLEAN
      /\ r.failed => r.session.phase = "Closed" /\ r.session.out = Append(provider.out, Goodbye)
      /\ ~r.failed => r.session.phase = "Established" /\ r.session.out = provider.out
  BY <1>1, <1>2, <1>3, ReceiveHelloFacts
<1>5. down \in Seq(DownFrames) /\ provider.out \in Seq(DownFrames) /\ Awaited \in BOOLEAN
  BY DEF IInv, TypeOK, IsSession, Awaited
<1>6. \A s : \A frames : Writes(s, frames) /\ IsSession(s, DownFrames) =>
        /\ down' = (down \o s.out) \o frames
        /\ IsSession(provider', DownFrames) /\ provider'.phase = s.phase /\ provider'.out = <<>>
  BY FlushFacts DEF Writes
<1>7. CASE r.failed
  <2>1. /\ Writes(r.session, <<>>) /\ hosting' = "failed" /\ announced' = announced
    BY <1>7 DEF HostReadsHello
  <2>2. /\ IsSession(provider', DownFrames) /\ provider'.phase = "Closed" /\ provider'.out = <<>>
        /\ down' = (down \o Append(provider.out, Goodbye)) \o <<>>
    BY <1>4, <1>6, <1>7, <2>1, ZenonT(60)
  <2>3. down' = Append(p, Goodbye)
    BY <1>2, <1>5, <2>2, ConcatAppend, SMTT(40)
  <2>4. Goodbye.kind # "Hello" /\ \A view : Acceptable(Goodbye, view)
    BY DEF Goodbye, Msg, Acceptable
  <2>5. LegalStream(windows, down') /\ down' \in Seq(DownFrames) /\ down' # <<>>
    <3>1. down' \in Seq(DownFrames) /\ down' # <<>>
      BY <1>2, <1>3, <2>3, AppendProperties
    <3>2. LegalStream({}, Append(p, Goodbye))
      BY <1>2, <1>3, <2>4, LegalAppend
    <3> QED
      BY <1>3, <2>3, <3>1, <3>2
  <2>6. Running => HelloFirst(down', Awaited)
    BY <1>2, <1>3, <1>5, <2>3, <2>4, HelloFirstAppend
  <2> QED
    BY <1>1, <1>2, <2>1, <2>2, <2>5, <2>6, ProviderKeeps
<1>8. ASSUME ~r.failed, NEW ws \in Snapshots, NEW f \in Windows \cup {None},
             announced' = announced \cup Members(ws),
             IF f = None \/ f \in Members(ws)
             THEN /\ Writes(r.session, Append(Burst(ws), FocusChanged(f)))
                  /\ UNCHANGED hosting
             ELSE Writes(r.session, Burst(ws)) /\ hosting' = "failed"
      PROVE  IInv'
  <2> DEFINE all == p \o Burst(ws)
  <2>1. ws \in Seq(Windows) /\ Unrepeated(ws) /\ Members(ws) \subseteq Windows
    BY SnapshotsAssumption DEF Members
  <2>2. /\ all \in Seq(DownFrames)
        /\ LegalStream({}, all) /\ View({}, all, Len(all)) = Members(ws)
        /\ Running => HelloFirst(all, Awaited) /\ (Awaited => all # <<>>)
    BY <1>3, <1>5, <2>1, BurstLegal
  <2>3. announced' = Members(ws) /\ Burst(ws) \in Seq(DownFrames)
    BY <1>3, <1>8, <2>1, BurstFacts
  <2>4. CASE f = None \/ f \in Members(ws)
    <3>1. /\ Writes(r.session, Append(Burst(ws), FocusChanged(f))) /\ hosting' = hosting
      BY <1>8, <2>4
    <3>2. /\ IsSession(provider', DownFrames) /\ provider'.phase = "Established"
          /\ provider'.out = <<>> /\ down' = p \o Append(Burst(ws), FocusChanged(f))
      BY <1>4, <1>6, <1>8, <3>1
    <3>3. /\ FocusChanged(f) \in DownFrames /\ FocusChanged(f).kind # "Hello"
          /\ Acceptable(FocusChanged(f), Members(ws))
          /\ \A w \in Windows : FocusChanged(f) \notin {WindowAdded(w), WindowRemoved(w)}
      BY <2>4, DownKinds DEF Acceptable, FocusChanged, WindowAdded, WindowRemoved, Msg
    <3>4. down' = Append(all, FocusChanged(f))
      <4>1. p \o Append(Burst(ws), FocusChanged(f)) = Append(p \o Burst(ws), FocusChanged(f))
        <5>1. p \in Seq(DownFrames) /\ Burst(ws) \in Seq(DownFrames)
          BY <1>3, <2>3
        <5>2. FocusChanged(f) \in DownFrames
          BY <3>3
        <5> HIDE DEF p
        <5> QED
          BY <5>1, <5>2, ConcatAppend
      <4> QED
        BY <3>2, <4>1
    <3>5. LegalStream(windows, down') /\ down' \in Seq(DownFrames) /\ down' # <<>>
      <4>1. down' \in Seq(DownFrames) /\ down' # <<>>
        BY <2>2, <3>3, <3>4, AppendProperties
      <4>2. LegalStream({}, Append(all, FocusChanged(f)))
        BY <2>2, <3>3, LegalAppend
      <4> QED
        BY <1>3, <3>4, <4>1, <4>2
    <3>6. Running => HelloFirst(down', Awaited)
      BY <1>5, <2>2, <3>3, <3>4, HelloFirstAppend
    <3>7. \A w \in Windows : w \in View({}, down', Len(down')) <=> w \in Members(ws)
      <4> DEFINE more == Append(all, FocusChanged(f))
      <4>1. \A w \in Windows : w \in View({}, more, Len(more)) <=>
               \/ FocusChanged(f) = WindowAdded(w)
               \/ w \in View({}, all, Len(all)) /\ FocusChanged(f) # WindowRemoved(w)
        BY <2>2, <3>3, ViewAppend
      <4> QED
        BY <2>2, <3>3, <3>4, <4>1
    <3>8. announced' = View(windows, down', Len(down'))
      BY <1>3, <2>1, <2>3, <3>7 DEF View
    <3> QED
      BY <1>1, <1>2, <2>1, <2>3, <3>1, <3>2, <3>5, <3>6, <3>8, ProviderKeeps
  <2>5. CASE ~(f = None \/ f \in Members(ws))
    <3>1. /\ Writes(r.session, Burst(ws)) /\ hosting' = "failed"
      BY <1>8, <2>5
    <3>2. /\ IsSession(provider', DownFrames) /\ provider'.phase = "Established"
          /\ provider'.out = <<>> /\ down' = all
      BY <1>4, <1>6, <1>8, <3>1
    <3> QED
      BY <1>1, <1>2, <1>3, <2>1, <2>2, <2>3, <3>1, <3>2, ProviderKeeps
  <2> QED
    BY <2>4, <2>5
<1> QED
  BY <1>7, <1>8 DEF HostReadsHello

(* A hello and a goodbye read together.                                    *)
LEMMA HostReadsHelloAndGoodbyeKeeps ==
    ASSUME IInv, HostReadsHelloAndGoodbye
    PROVE  IInv'
<1> DEFINE r == Receive(ProviderConfig, provider, Head(up))
           s == Receive(ProviderConfig, r.session, Goodbye).session
           p == down \o provider.out
<1>1. /\ provider.phase = "AwaitingHello" /\ ~r.failed /\ Writes(s, <<>>)
      /\ up' = <<>> /\ hosting' = "failed" /\ UNCHANGED <<peerGoodbye, consumerVars>>
      /\ \E ws \in Snapshots : announced' = announced \cup (IF ws = <<>> THEN {} ELSE {ws[1]})
  BY DEF HostReadsHelloAndGoodbye
<1>2. /\ p \in {<<>>, <<HelloOf(ProviderConfig)>>} /\ p \in Seq(DownFrames) /\ p \o <<>> = p
      /\ Running => HelloFirst(p, Awaited) /\ (Awaited => p # <<>>)
      /\ windows = {} /\ announced = {} /\ LegalStream({}, p)
      /\ IsSession(provider, DownFrames) /\ Goodbye \in DownFrames /\ Goodbye.kind = "Goodbye"
  BY <1>1, Greeting, DownKinds DEF Goodbye, Msg
<1>3. /\ IsSession(r.session, DownFrames) /\ r.session.phase = "Established"
      /\ r.session.out = provider.out
  BY <1>1, <1>2, ReceiveHelloFacts
<1>4. IsSession(s, DownFrames) /\ s.phase = "Closed" /\ s.out = provider.out
  BY <1>2, <1>3, ReceiveFacts, SMTT(40)
<1>5. /\ IsSession(provider', DownFrames) /\ provider'.phase = "Closed"
      /\ provider'.out = <<>> /\ down' = p
  BY <1>1, <1>2, <1>4, FlushFacts DEF Writes
<1>6. announced' \subseteq Windows
  <2>1. PICK ws \in Snapshots : announced' = announced \cup (IF ws = <<>> THEN {} ELSE {ws[1]})
    BY <1>1
  <2>2. ws \in Seq(Windows)
    BY SnapshotsAssumption
  <2>3. ws # <<>> => ws[1] \in Windows
    BY <2>2
  <2> QED
    BY <1>2, <2>1, <2>3
<1>7. up' \in Seq(UpFrames) /\ peerGoodbye' \in BOOLEAN
  BY <1>1 DEF IInv, TypeOK
<1> QED
  BY <1>1, <1>2, <1>5, <1>6, <1>7, ProviderKeeps

-----------------------------------------------------------------------------
(* The consumer's steps.                                                   *)

(* What a step of the consumer must show.                                  *)
LEMMA ConsumerKeeps ==
    ASSUME IInv, UNCHANGED providerVars,
           IsSession(consumer', UpFrames), windows' \subseteq Windows, trees' \subseteq windows',
           focus' \in Windows \cup {None}, pumping' \in {"running", "refused", "ended"},
           up' \in Seq(UpFrames), down' \in Seq(DownFrames),
           LegalStream(windows', down'),
           provider.phase = "Established" => announced = View(windows', down', Len(down')),
           pumping' = "running" =>
               /\ consumer'.phase # "Closed" /\ HelloFirst(down', consumer'.phase = "AwaitingHello")
               /\ consumer'.phase = "AwaitingHello" /\ down' = <<>> => provider.out # <<>>,
           provider.phase = "AwaitingHello" =>
               /\ \/ provider.out = <<HelloOf(ProviderConfig)>> /\ down' = <<>>
                  \/ provider.out = <<>> /\ down' \in {<<>>, <<HelloOf(ProviderConfig)>>}
               /\ windows' = {},
           provider.out # <<>> => consumer'.phase # "Established",
           consumer'.phase = "AwaitingHello" => windows' = {}
    PROVE  IInv'
<1> USE DEF providerVars
<1>1. TypeOK'
  BY DEF IInv, TypeOK
<1>2. LegalStream(windows, down)' /\ Accounted'
  BY DEF Accounted
<1>3. OneHello'
  BY DEF OneHello, Running, Awaited
<1>4. Unestablished'
  BY DEF IInv, Unestablished, Awaited, Running
<1>5. ConsumerNeverRejects'
  BY DEF ConsumerNeverRejects
<1> QED
  BY <1>1, <1>2, <1>3, <1>4, <1>5 DEF IInv

(* Writing, queuing an action and leaving touch no window.                 *)
LEMMA ConsumerSpeaks ==
    ASSUME IInv, UNCHANGED <<providerVars, windows, trees, focus, down>>,
           IsSession(consumer', UpFrames), up' \in Seq(UpFrames),
           \/ consumer'.phase = consumer.phase /\ pumping' = pumping
           \/ consumer'.phase \in {consumer.phase, "Closed"} /\ pumping' = "ended"
    PROVE  IInv'
<1>1. /\ windows' \subseteq Windows /\ trees' \subseteq windows' /\ focus' \in Windows \cup {None}
      /\ pumping' \in {"running", "refused", "ended"} /\ down' \in Seq(DownFrames)
  BY DEF IInv, TypeOK, ConsumerNeverRejects
<1>2. /\ LegalStream(windows', down')
      /\ provider.phase = "Established" => announced = View(windows', down', Len(down'))
  BY DEF IInv, Accounted
<1>3. pumping' = "running" =>
        /\ consumer'.phase # "Closed" /\ HelloFirst(down', consumer'.phase = "AwaitingHello")
        /\ consumer'.phase = "AwaitingHello" /\ down' = <<>> => provider.out # <<>>
  BY DEF IInv, OneHello, Unestablished, Running, Awaited
<1>4. provider.phase = "AwaitingHello" =>
        /\ \/ provider.out = <<HelloOf(ProviderConfig)>> /\ down' = <<>>
           \/ provider.out = <<>> /\ down' \in {<<>>, <<HelloOf(ProviderConfig)>>}
        /\ windows' = {}
  BY DEF IInv, Unestablished
<1>5. /\ provider.out # <<>> => consumer'.phase # "Established"
      /\ consumer'.phase = "AwaitingHello" => windows' = {}
  BY DEF IInv, Unestablished, Awaited
<1>6. UNCHANGED providerVars
  OBVIOUS
<1> QED
  BY <1>1, <1>2, <1>3, <1>4, <1>5, <1>6, ConsumerKeeps

(* The consumer's own steps.                                               *)
LEMMA ConsumerOwnKeeps ==
    ASSUME IInv, ConsumerWrites \/ ConsumerStops \/ ConsumerSeesHangup
    PROVE  IInv'
<1>1. /\ IsSession(consumer, UpFrames) /\ consumer.out \in Seq(UpFrames) /\ up \in Seq(UpFrames)
      /\ Goodbye \in UpFrames
  BY UpKinds DEF IInv, TypeOK, IsSession
<1>2. CASE ConsumerWrites
  <2>1. /\ IsSession(consumer', UpFrames) /\ consumer'.phase = consumer.phase
        /\ up' \in Seq(UpFrames)
    BY <1>1, <1>2, FlushFacts, ConcatProperties DEF ConsumerWrites
  <2>2. UNCHANGED <<providerVars, windows, trees, focus, down, pumping>>
    BY <1>2 DEF ConsumerWrites
  <2> QED
    BY <2>1, <2>2, ConsumerSpeaks
<1>3. CASE ConsumerStops
  <2>1. /\ IsSession(CloseSession(consumer), UpFrames)
        /\ CloseSession(consumer).phase = "Closed"
    BY <1>1, CloseFacts
  <2>2. IsSession(consumer', UpFrames) /\ consumer'.phase = "Closed"
    BY <1>3, <2>1, FlushFacts DEF ConsumerStops
  <2>3. up' \in Seq(UpFrames)
    BY <1>1, <1>3, <2>1, ConcatProperties DEF ConsumerStops, IsSession
  <2>4. UNCHANGED <<providerVars, windows, trees, focus, down>> /\ pumping' = "ended"
    BY <1>3 DEF ConsumerStops
  <2> QED
    BY <2>2, <2>3, <2>4, ConsumerSpeaks
<1>4. CASE ConsumerSeesHangup
  <2>1. /\ UNCHANGED <<providerVars, consumer, windows, trees, focus, down, up>>
        /\ pumping' = "ended"
    BY <1>4 DEF ConsumerSeesHangup
  <2> QED
    BY <1>1, <2>1, ConsumerSpeaks
<1> QED
  BY <1>2, <1>3, <1>3, <1>4

(* Asking for an action.                                                   *)
LEMMA RequestActionKeeps ==
    ASSUME IInv, NEW w \in Windows, RequestAction(w)
    PROVE  IInv'
<1>1. IsSession(consumer, UpFrames) /\ up \in Seq(UpFrames) /\ Action(w) \in UpFrames
  BY UpKinds DEF IInv, TypeOK
<1>2. IsSession(consumer', UpFrames) /\ consumer'.phase = consumer.phase
  BY <1>1, QueueFacts DEF RequestAction
<1>3. UNCHANGED <<providerVars, windows, trees, focus, down, up, pumping>>
  BY DEF RequestAction
<1> QED
  BY <1>1, <1>2, <1>3, ConsumerSpeaks

(* Reading the first frame, when the windows follow the view.              *)
LEMMA Reading ==
    ASSUME IInv, Running, down # <<>>, down' = Tail(down), UNCHANGED <<providerVars, up>>,
           windows' = View(windows, down, 1), trees' \subseteq windows',
           focus' \in Windows \cup {None}, pumping' \in {"running", "refused", "ended"},
           IsSession(consumer', UpFrames), consumer'.phase # "AwaitingHello",
           pumping' = "running" => consumer'.phase = "Established"
    PROVE  IInv'
<1>1. down \in Seq(DownFrames) /\ up' \in Seq(UpFrames)
  BY DEF IInv, TypeOK
<1>2. /\ Len(down) \in Nat \ {0} /\ down' \in Seq(DownFrames) /\ Len(down') = Len(down) - 1
      /\ \A i \in 1..Len(down') : down'[i] = down[i + 1]
  BY <1>1, EmptySeq, HeadTailProperties
<1>3. LegalStream(windows', down')
  BY <1>1, LegalTail DEF IInv
<1>4. View(windows', down', Len(down')) = View(windows, down, Len(down))
  <2>1. Len(down) - 1 \in 0..Len(down) - 1 /\ (Len(down) - 1) + 1 = Len(down)
    BY <1>2
  <2>2. View(View(windows, down, 1), Tail(down), Len(down) - 1) = View(windows, down, Len(down))
    BY <1>1, <2>1, ViewTail
  <2> QED
    BY <1>2, <2>2
<1>5. provider.phase = "Established" => announced = View(windows', down', Len(down'))
  BY <1>4 DEF IInv, Accounted
<1>6. HelloFirst(down', FALSE)
  <2>1. \A i \in 1..Len(down) : down[i].kind = "Hello" => i = 1
    BY DEF IInv, OneHello, HelloFirst
  <2>2. \A i \in 1..Len(down') : i + 1 \in 1..Len(down) /\ i + 1 # 1
    BY <1>2
  <2> QED
    BY <1>2, <2>1, <2>2 DEF HelloFirst
<1>7. provider.phase = "AwaitingHello" =>
        provider.out = <<>> /\ down' = <<>> /\ windows' = {}
  <2> SUFFICES ASSUME provider.phase = "AwaitingHello"
               PROVE  provider.out = <<>> /\ down' = <<>> /\ windows' = {}
    OBVIOUS
  <2>1. provider.out = <<>> /\ down = <<HelloOf(ProviderConfig)>> /\ windows = {}
    BY DEF IInv, Unestablished
  <2>2. \A w \in Windows : HelloOf(ProviderConfig) # WindowAdded(w)
    BY DEF HelloOf, WindowAdded, Msg
  <2>3. down[1] = HelloOf(ProviderConfig) /\ down' = <<>>
    BY <2>1, DownKinds
  <2> QED
    BY <2>1, <2>2, <2>3 DEF View, Held
<1>8. provider.out # <<>> => provider.phase = "AwaitingHello"
  BY DEF IInv, Unestablished
<1>9. windows' \subseteq Windows /\ UNCHANGED providerVars
  BY DEF View
<1> QED
  BY <1>1, <1>2, <1>3, <1>5, <1>6, <1>7, <1>8, <1>9, ConsumerKeeps

(* What the next frame is, and what the session makes of it.               *)
LEMMA Arrival ==
    ASSUME IInv, Running, down # <<>>
    PROVE  LET m == Head(down)
           IN  /\ m \in DownFrames /\ Acceptable(m, windows)
               /\ \A w \in Windows : w \in View(windows, down, 1) <=>
                     m = WindowAdded(w) \/ (w \in windows /\ m # WindowRemoved(w))
               /\ IsSession(Arrived.session, UpFrames)
               /\ Arrived.failed => Awaited /\ Arrived.session.phase = "Closed"
               /\ Awaited => m.kind = "Hello"
               /\ Awaited /\ ~Arrived.failed => /\ Arrived.session.phase = "Established"
                                                /\ Arrived.event = EstablishedEvent
               /\ ~Awaited => /\ m.kind # "Hello"
                              /\ m.kind = "Goodbye" => /\ Arrived.session.phase = "Closed"
                                                       /\ Arrived.event = ClosedEvent
                              /\ m.kind = "Ping" => /\ Arrived.session.phase = "Established"
                                                    /\ Arrived.event = NoEvent
                              /\ m.kind \notin {"Goodbye", "Ping"} =>
                                   /\ Arrived.session.phase = "Established"
                                   /\ Arrived.event = m
<1> DEFINE m == Head(down)
<1>1. /\ down \in Seq(DownFrames) /\ windows \in SUBSET Windows
      /\ IsSession(consumer, UpFrames) /\ Goodbye \in UpFrames /\ Pong \in UpFrames
  BY UpKinds DEF IInv, TypeOK
<1>2. m \in DownFrames /\ m = down[1] /\ 1 \in 1..Len(down)
  BY <1>1
<1>3. View(windows, down, 0) = windows
  BY <1>1, ViewStart
<1>4. Acceptable(m, windows)
  <2>1. Acceptable(down[1], View(windows, down, 1 - 1))
    BY <1>2 DEF IInv, LegalStream
  <2> QED
    BY <1>2, <1>3, <2>1
<1>5. \A w \in Windows : w \in View(windows, down, 1) <=>
         m = WindowAdded(w) \/ (w \in windows /\ m # WindowRemoved(w))
  <2> TAKE w \in Windows
  <2>1. w \in View(windows, down, 1) <=>
          down[1] = WindowAdded(w) \/ (w \in View(windows, down, 1 - 1) /\ down[1] # WindowRemoved(w))
    BY <1>1, <1>2, ViewStep
  <2> QED
    BY <1>2, <1>3, <2>1
<1>6. m.kind = "Hello" <=> Awaited
  BY <1>2 DEF IInv, OneHello, HelloFirst, Awaited
<1>7. consumer.phase # "Closed" /\ consumer.phase \in Phases
  BY <1>1 DEF IInv, Unestablished, IsSession
<1>8. CASE Awaited
  <2>1. consumer.phase = "AwaitingHello"
    BY <1>8 DEF Awaited
  <2>2. /\ IsSession(Arrived.session, UpFrames) /\ Arrived.failed \in BOOLEAN
        /\ Arrived.failed => Arrived.session.phase = "Closed"
        /\ ~Arrived.failed => /\ Arrived.session.phase = "Established"
                              /\ Arrived.event = EstablishedEvent
    BY <1>1, <2>1, ReceiveHelloFacts DEF Arrived
  <2> QED
    BY <1>2, <1>4, <1>5, <1>6, <1>8, <2>2
<1>9. CASE ~Awaited
  <2>1. consumer.phase = "Established"
    BY <1>7, <1>9 DEF Awaited, Phases
  <2>2. /\ IsSession(Arrived.session, UpFrames)
        /\ Arrived.failed <=> m.kind = "Hello"
        /\ m.kind = "Goodbye" => /\ Arrived.session.phase = "Closed"
                                 /\ Arrived.event = ClosedEvent
        /\ m.kind = "Ping" => /\ Arrived.session.phase = "Established"
                              /\ Arrived.event = NoEvent
        /\ m.kind \notin {"Hello", "Goodbye", "Ping"} => Arrived.session = consumer /\ Arrived.event = m
    BY <1>1, <2>1, ReceiveFacts DEF Arrived
  <2> QED
    BY <1>2, <1>4, <1>5, <1>6, <1>9, <2>1, <2>2
<1> QED
  BY <1>8, <1>9

(* What a message about a window is, when handle_event gets it.            *)
LEMMA Handed ==
    ASSUME IInv, NEW kind \in {"WindowAdded", "WindowRemoved", "TreeUpdate", "FocusChanged"},
           Arrives(kind)
    PROVE  /\ Running /\ down # <<>> /\ down' = Tail(down) /\ UNCHANGED <<providerVars, up>>
           /\ Head(down).kind = kind /\ Subject = Head(down).body
           /\ IsSession(Arrived.session, UpFrames) /\ Arrived.session.phase = "Established"
<1>1. Running /\ down # <<>> /\ down' = Tail(down) /\ UNCHANGED <<providerVars, up>>
      /\ ~Arrived.failed /\ Arrived.event.kind = kind
  BY DEF Arrives, MayRead
<1>2. /\ EstablishedEvent.kind = "EstablishedEvent" /\ ClosedEvent.kind = "ClosedEvent"
      /\ NoEvent.kind = "NoEvent"
  BY DEF EstablishedEvent, ClosedEvent, NoEvent, Msg
<1>3. Arrived.event = Head(down) /\ Arrived.session.phase = "Established"
  BY <1>1, <1>2, Arrival
<1> QED
  BY <1>1, <1>3, Arrival DEF Subject

(* Nothing is refused, so the session goes on.                             *)
LEMMA Accepted ==
    ASSUME IInv, Arrived.session.phase = "Established", Concluding(TRUE)
    PROVE  /\ consumer' = Arrived.session /\ pumping' = pumping
BY DEF Concluding

(* Messages about windows.                                                 *)
LEMMA WindowMessageKeeps ==
    ASSUME IInv, OnWindowAdded \/ OnWindowRemoved \/ OnTreeUpdate \/ OnFocusChanged
    PROVE  IInv'
<1> DEFINE m == Head(down)
<1>1. PICK kind \in {"WindowAdded", "WindowRemoved", "TreeUpdate", "FocusChanged"} : Arrives(kind)
  BY DEF OnWindowAdded, OnWindowRemoved, OnTreeUpdate, OnFocusChanged
<1>2. /\ Running /\ down # <<>> /\ down' = Tail(down) /\ UNCHANGED <<providerVars, up>>
      /\ IsSession(Arrived.session, UpFrames) /\ Arrived.session.phase = "Established"
      /\ Subject = m.body
  BY <1>1, Handed
<1>3. /\ m \in DownFrames /\ Acceptable(m, windows)
      /\ \A w \in Windows : w \in View(windows, down, 1) <=>
            m = WindowAdded(w) \/ (w \in windows /\ m # WindowRemoved(w))
  BY <1>2, Arrival
<1>4. View(windows, down, 1) \subseteq Windows /\ windows \subseteq Windows
      /\ trees \subseteq windows /\ focus \in Windows \cup {None} /\ pumping = "running"
  BY <1>2 DEF View, IInv, TypeOK, Running
<1>5. /\ m.kind \in {"WindowAdded", "WindowRemoved", "TreeUpdate"} =>
            m = Msg(m.kind, m.body) /\ m.body \in Windows
      /\ m.kind = "FocusChanged" => m.body \in Windows \cup {None}
  BY <1>3, DownKinds
<1>6. \A w \in Windows : /\ m = WindowAdded(w) <=> m.kind = "WindowAdded" /\ m.body = w
                         /\ m = WindowRemoved(w) <=> m.kind = "WindowRemoved" /\ m.body = w
  BY <1>5 DEF WindowAdded, WindowRemoved, Msg
<1>7. ASSUME consumer' = Arrived.session, pumping' = pumping,
             windows' = View(windows, down, 1), trees' \subseteq windows',
             focus' \in Windows \cup {None}
      PROVE  IInv'
  BY <1>2, <1>4, <1>7, Reading
<1>8. CASE OnWindowAdded
  <2>1. m.kind = "WindowAdded" /\ Subject \notin windows
    BY <1>2, <1>3, <1>8, Handed DEF OnWindowAdded, Acceptable
  <2>2. Concluding(TRUE) /\ windows' = windows \cup {m.body} /\ trees' = trees \ {m.body}
        /\ focus' = focus
    BY <1>2, <1>8, <2>1 DEF OnWindowAdded
  <2>3. windows' = View(windows, down, 1)
    BY <1>3, <1>4, <1>5, <1>6, <2>1, <2>2
  <2>4. trees' \subseteq windows'
    BY <1>4, <2>2
  <2> QED
    BY <1>2, <1>4, <1>7, <2>2, <2>3, <2>4, Accepted
<1>9. CASE OnWindowRemoved
  <2>1. m.kind = "WindowRemoved" /\ Subject \in windows
    BY <1>2, <1>3, <1>9, Handed DEF OnWindowRemoved, Acceptable
  <2>2. Concluding(TRUE) /\ windows' = windows \ {m.body} /\ trees' = trees \ {m.body}
        /\ focus' \in {focus, None}
    BY <1>2, <1>9, <2>1 DEF OnWindowRemoved
  <2>3. windows' = View(windows, down, 1)
    BY <1>3, <1>4, <1>5, <1>6, <2>1, <2>2
  <2>4. trees' \subseteq windows' /\ focus' \in Windows \cup {None}
    BY <1>4, <2>2
  <2> QED
    BY <1>2, <1>7, <2>2, <2>3, <2>4, Accepted
<1>10. CASE OnTreeUpdate
  <2>1. m.kind = "TreeUpdate" /\ Subject \in windows
    BY <1>2, <1>3, <1>10, Handed DEF OnTreeUpdate, Acceptable
  <2>2. Concluding(TRUE) /\ windows' = windows /\ trees' = trees \cup {m.body} /\ focus' = focus
    BY <1>2, <1>10, <2>1 DEF OnTreeUpdate
  <2>3. windows' = View(windows, down, 1)
    BY <1>3, <1>4, <1>6, <2>1, <2>2
  <2>4. trees' \subseteq windows'
    BY <1>2, <1>4, <2>1, <2>2
  <2> QED
    BY <1>2, <1>4, <1>7, <2>2, <2>3, <2>4, Accepted
<1>11. CASE OnFocusChanged
  <2>1. m.kind = "FocusChanged" /\ (Subject = None \/ Subject \in windows)
    BY <1>2, <1>3, <1>11, Handed DEF OnFocusChanged, Acceptable
  <2>2. Concluding(TRUE) /\ windows' = windows /\ trees' = trees /\ focus' = m.body
    BY <1>2, <1>11, <2>1 DEF OnFocusChanged
  <2>3. windows' = View(windows, down, 1)
    BY <1>3, <1>4, <1>6, <2>1, <2>2
  <2> QED
    BY <1>2, <1>4, <1>5, <1>7, <2>1, <2>2, <2>3, Accepted
<1> QED
  BY <1>8, <1>9, <1>10, <1>11

(* A hello, a ping and a goodbye change no window.                         *)
LEMMA SessionFrameKeeps ==
    ASSUME IInv, OnSessionFrame \/ OnRefusal
    PROVE  IInv'
<1> DEFINE m == Head(down)
<1>1. /\ Running /\ down # <<>> /\ down' = Tail(down) /\ UNCHANGED <<providerVars, up>>
      /\ consumer' = Arrived.session /\ UNCHANGED <<windows, trees, focus>>
  BY DEF OnSessionFrame, OnRefusal, Arrives, MayRead
<1>2. /\ EstablishedEvent.kind = "EstablishedEvent" /\ ClosedEvent.kind = "ClosedEvent"
      /\ NoEvent.kind = "NoEvent"
  BY DEF EstablishedEvent, ClosedEvent, NoEvent, Msg
<1>3. /\ m \in DownFrames /\ IsSession(consumer', UpFrames)
      /\ \A w \in Windows : w \in View(windows, down, 1) <=>
            m = WindowAdded(w) \/ (w \in windows /\ m # WindowRemoved(w))
  BY <1>1, Arrival
<1>4. /\ m.kind \in {"Hello", "Goodbye", "Ping"} /\ consumer'.phase # "AwaitingHello"
      /\ pumping' \in {"running", "refused", "ended"}
      /\ pumping' = "running" => consumer'.phase = "Established"
  <2>1. CASE OnRefusal
    <3>1. Awaited /\ m.kind = "Hello" /\ Arrived.session.phase = "Closed"
      BY <1>1, <2>1, Arrival DEF OnRefusal
    <3>2. pumping' = "refused"
      BY <2>1, <3>1 DEF OnRefusal, Awaited
    <3> QED
      BY <1>1, <3>1, <3>2
  <2>2. CASE OnSessionFrame
    <3>1. ~Arrived.failed /\ pumping = "running"
      BY <1>1, <2>2 DEF OnSessionFrame, Arrives, MayRead, Running
    <3>2. CASE Arrived.event.kind = "EstablishedEvent" /\ pumping' = pumping
      BY <1>1, <1>2, <1>3, <3>1, <3>2, Arrival, DownKinds
    <3>3. CASE Arrived.event.kind = "NoEvent" /\ pumping' = pumping
      BY <1>1, <1>2, <1>3, <3>1, <3>3, Arrival, DownKinds
    <3>4. CASE Arrived.event.kind = "ClosedEvent" /\ pumping' = "ended"
      BY <1>1, <1>2, <1>3, <3>1, <3>4, Arrival, DownKinds
    <3> QED
      BY <2>2, <3>2, <3>3, <3>4 DEF OnSessionFrame, Arrives
  <2> QED
    BY <2>1, <2>2
<1>5. windows' = View(windows, down, 1)
  <2>1. \A w \in Windows : m \notin {WindowAdded(w), WindowRemoved(w)}
    BY <1>4 DEF WindowAdded, WindowRemoved, Msg
  <2>2. View(windows, down, 1) \subseteq Windows /\ windows \subseteq Windows
    BY DEF View, IInv, TypeOK
  <2> QED
    BY <1>1, <1>3, <2>1, <2>2
<1>6. trees' \subseteq windows' /\ focus' \in Windows \cup {None}
  BY <1>1 DEF IInv, TypeOK
<1> QED
  BY <1>1, <1>3, <1>4, <1>5, <1>6, Reading

-----------------------------------------------------------------------------
(* Whatever the source does and however the two loops interleave, the      *)
(* state is one that IInv describes: the bookkeeping of the provider is    *)
(* what the bytes under way add up to at the consumer.                     *)
THEOREM Invariance == Spec => []IInv
<1>1. Init => IInv
  <2> SUFFICES ASSUME Init PROVE IInv
    OBVIOUS
  <2>1. /\ HelloOf(ProviderConfig) \in DownFrames /\ HelloOf(consumerConfig) \in UpFrames
    BY DownKinds, UpKinds DEF Init
  <2>2. /\ IsSession(provider, DownFrames) /\ provider.phase = "AwaitingHello"
        /\ provider.out = <<HelloOf(ProviderConfig)>>
    BY <2>1 DEF Init, NewSession, IsSession, Phases
  <2>3. IsSession(consumer, UpFrames) /\ consumer.phase = "AwaitingHello"
    BY <2>1 DEF Init, NewSession, IsSession, Phases
  <2>4. TypeOK
    <3>1. <<>> \in Seq(DownFrames) /\ <<>> \in Seq(UpFrames)
      BY EmptySeq
    <3> QED
      BY <2>2, <2>3, <3>1 DEF Init, TypeOK
  <2>5. LegalStream(windows, down) /\ Accounted /\ ConsumerNeverRejects
    BY <2>2, EmptySeq DEF Init, LegalStream, Accounted, ConsumerNeverRejects
  <2>6. OneHello /\ Unestablished
    BY <2>2, <2>3 DEF Init, OneHello, HelloFirst, Awaited, Unestablished, Running
  <2> QED
    BY <2>4, <2>5, <2>6 DEF IInv
<1>2. IInv /\ [Next]_vars => IInv'
  <2> SUFFICES ASSUME IInv, [Next]_vars PROVE IInv'
    OBVIOUS
  <2>1. CASE PumpIdle
    BY <2>1, PumpIdleKeeps
  <2>2. ASSUME NEW w \in Windows, PumpWindowAdded(w) PROVE IInv'
    BY <2>2, WindowAddedKeeps
  <2>3. ASSUME NEW w \in Windows, PumpWindowRemoved(w) \/ PumpTreeUpdate(w) PROVE IInv'
    BY <2>3, SourceEventKeeps
  <2>4. ASSUME NEW f \in Windows \cup {None}, PumpFocus(f) PROVE IInv'
    BY <2>4, FocusKeeps
  <2>5. CASE HeartbeatPings \/ HeartbeatGivesUp
    BY <2>5, HeartbeatKeeps
  <2>6. CASE HostReadsHello
    BY <2>6, HostReadsHelloKeeps
  <2>7. CASE HostReadsHelloAndGoodbye
    BY <2>7, HostReadsHelloAndGoodbyeKeeps
  <2>8. CASE HostReads
    BY <2>8, HostReadsKeeps
  <2>9. CASE HostSeesHangup
    BY <2>9, HostSeesHangupKeeps
  <2>10. ASSUME NEW w \in Windows, RequestAction(w) PROVE IInv'
    BY <2>10, RequestActionKeeps
  <2>11. CASE ConsumerWrites \/ ConsumerStops \/ ConsumerSeesHangup
    BY <2>11, ConsumerOwnKeeps
  <2>12. CASE ConsumerReads
    BY <2>12, WindowMessageKeeps, SessionFrameKeeps DEF ConsumerReads
  <2>13. CASE UNCHANGED vars
    BY <2>13 DEF vars, connection, IInv, TypeOK, LegalStream, Accounted, OneHello, HelloFirst, Awaited,
                 Unestablished, ConsumerNeverRejects, Running
  <2> QED
    BY <2>1, <2>2, <2>3, <2>4, <2>5, <2>6, <2>7, <2>8, <2>9, <2>10, <2>11, <2>12, <2>13
       DEF Next, ProviderStep, SourceReports, ConsumerStep
<1> QED
  BY <1>1, <1>2, PTL DEF Spec

(* The state has the shape of the Rust types.                              *)
THEOREM TypeCorrect == Spec => []TypeOK
BY Invariance, PTL DEF IInv

(* The consumer never meets a message of the provider that it must refuse. *)
THEOREM NeverRejects == Spec => []ConsumerNeverRejects
BY Invariance, PTL DEF IInv

-----------------------------------------------------------------------------
(* What the consumer holds, and what has to be known for it besides IInv.  *)

(* An announcement is directly followed by the window's tree.              *)
Paired(stream) ==
    \A i \in 1..Len(stream) :
        stream[i].kind = "WindowAdded" =>
            i < Len(stream) /\ stream[i + 1] = TreeUpdate(stream[i].body)

(* A window without a tree has it in the frame that is read next.          *)
TreeDue(w) == down # <<>> /\ down[1] = TreeUpdate(w)
TreesDue == \A w \in windows : w \in trees \/ TreeDue(w)

(* A host that goes on serving has not closed its session.                 *)
ServingOpen == hosting = "serving" => provider.phase # "Closed"

MInv == IInv /\ Paired(down) /\ TreesDue /\ ServingOpen /\ FocusIsHeld

-----------------------------------------------------------------------------
(* Streams.                                                                *)

(* Two paired streams, one after the other.                                *)
LEMMA PairedConcat ==
    ASSUME NEW F, NEW a \in Seq(F), NEW b \in Seq(F), Paired(a), Paired(b)
    PROVE  a \o b \in Seq(F) /\ Paired(a \o b)
<1>1. /\ a \o b \in Seq(F) /\ Len(a \o b) = Len(a) + Len(b)
      /\ Len(a) \in Nat /\ Len(b) \in Nat
      /\ \A i \in 1..Len(a) : (a \o b)[i] = a[i]
      /\ \A i \in 1..Len(b) : (a \o b)[Len(a) + i] = b[i]
  BY ConcatProperties
<1>2. SUFFICES ASSUME NEW i \in 1..Len(a \o b), (a \o b)[i].kind = "WindowAdded"
               PROVE  i < Len(a \o b) /\ (a \o b)[i + 1] = TreeUpdate((a \o b)[i].body)
  BY <1>1 DEF Paired
<1>3. CASE i \in 1..Len(a)
  <2>1. (a \o b)[i] = a[i] /\ i < Len(a) /\ a[i + 1] = TreeUpdate(a[i].body)
    BY <1>1, <1>2, <1>3 DEF Paired
  <2>2. i + 1 \in 1..Len(a)
    BY <1>1, <2>1
  <2> QED
    BY <1>1, <2>1, <2>2
<1>4. CASE i \notin 1..Len(a)
  <2> DEFINE k == i - Len(a)
  <2>1. k \in 1..Len(b) /\ i = Len(a) + k /\ i + 1 = Len(a) + (k + 1)
    BY <1>1, <1>4
  <2>2. (a \o b)[i] = b[k] /\ k < Len(b) /\ b[k + 1] = TreeUpdate(b[k].body)
    BY <1>1, <1>2, <2>1 DEF Paired
  <2>3. k + 1 \in 1..Len(b)
    BY <1>1, <2>1, <2>2
  <2> QED
    BY <1>1, <2>1, <2>2, <2>3
<1> QED
  BY <1>3, <1>4

(* A stream of one frame that opens no window, and an empty one.           *)
LEMMA PairedOne ==
    ASSUME NEW F, NEW m \in F, m.kind # "WindowAdded"
    PROVE  <<m>> \in Seq(F) /\ Paired(<<m>>) /\ Paired(<<>>)
BY DEF Paired

(* An announcement and its tree.                                           *)
LEMMA PairedTwo ==
    ASSUME NEW w \in Windows
    PROVE  LET s == <<WindowAdded(w), TreeUpdate(w)>> IN s \in Seq(DownFrames) /\ Paired(s)
<1>1. WindowAdded(w) \in DownFrames /\ TreeUpdate(w) \in DownFrames
  BY DownKinds
<1>2. /\ WindowAdded(w).body = w /\ TreeUpdate(w).kind # "WindowAdded"
  BY DEF WindowAdded, TreeUpdate, Msg
<1> QED
  BY <1>1, <1>2 DEF Paired

(* The initial burst.                                                      *)
LEMMA PairedBurst ==
    ASSUME NEW ws \in Seq(Windows)
    PROVE  Burst(ws) \in Seq(DownFrames) /\ Paired(Burst(ws))
<1>1. /\ Burst(ws) \in Seq(DownFrames) /\ Len(Burst(ws)) = 2 * Len(ws) /\ Len(ws) \in Nat
      /\ \A k \in 1..Len(ws) : /\ Burst(ws)[2*k - 1] = WindowAdded(ws[k])
                               /\ Burst(ws)[2*k] = TreeUpdate(ws[k])
      /\ \A i \in 1..2*Len(ws) : \E k \in 1..Len(ws) : i = 2*k - 1 \/ i = 2*k
  BY BurstFacts, LenProperties
<1>2. SUFFICES ASSUME NEW i \in 1..2*Len(ws), Burst(ws)[i].kind = "WindowAdded"
               PROVE  i < 2*Len(ws) /\ Burst(ws)[i + 1] = TreeUpdate(Burst(ws)[i].body)
  BY <1>1 DEF Paired
<1>3. PICK k \in 1..Len(ws) : i = 2*k - 1 \/ i = 2*k
  BY <1>1
<1>4. /\ \A w : TreeUpdate(w).kind = "TreeUpdate" /\ WindowAdded(w).body = w
  BY DEF TreeUpdate, WindowAdded, Msg
<1>5. i = 2*k - 1
  BY <1>1, <1>2, <1>3, <1>4, SMTT(40)
<1>6. i < 2*Len(ws) /\ i + 1 = 2*k
  BY <1>1, <1>5
<1> QED
  BY <1>1, <1>4, <1>5, <1>6

(* Reading a frame leaves a paired stream.                                 *)
LEMMA PairedTail ==
    ASSUME NEW F, NEW stream \in Seq(F), stream # <<>>, Paired(stream)
    PROVE  Paired(Tail(stream))
<1>1. /\ Len(Tail(stream)) = Len(stream) - 1 /\ Len(stream) \in Nat
      /\ \A k \in 1..Len(stream) - 1 : Tail(stream)[k] = stream[k + 1]
  OBVIOUS
<1>2. SUFFICES ASSUME NEW i \in 1..Len(stream) - 1, stream[i + 1].kind = "WindowAdded"
               PROVE  /\ i < Len(stream) - 1
                      /\ Tail(stream)[i + 1] = TreeUpdate(Tail(stream)[i].body)
  BY <1>1 DEF Paired
<1>3. i + 1 \in 1..Len(stream)
  BY <1>1
<1>4. i + 1 < Len(stream) /\ stream[(i + 1) + 1] = TreeUpdate(stream[i + 1].body)
  BY <1>2, <1>3 DEF Paired
<1>5. i + 1 \in 1..Len(stream) - 1
  BY <1>1, <1>4
<1> QED
  BY <1>1, <1>4, <1>5

(* What is appended later does not change an earlier view.                 *)
LEMMA ViewConcat ==
    ASSUME NEW held, NEW F, NEW a \in Seq(F), NEW b \in Seq(F), NEW i \in 0..Len(a)
    PROVE  View(held, a \o b, i) = View(held, a, i)
<1>1. \A k \in 1..i : (a \o b)[k] = a[k]
  BY ConcatProperties, LenProperties
<1>2. \A w : \A j \in Nat : j >= 1 => (Stays(a \o b, w, j, i) <=> Stays(a, w, j, i))
  BY <1>1 DEF Stays
<1> QED
  BY <1>1, <1>2 DEF View, Held

-----------------------------------------------------------------------------
(* The provider's steps.                                                   *)

(* Whatever the provider writes in a step goes out in one piece.           *)
Sent == \E chunk \in Seq(DownFrames) : Paired(chunk) /\ down' = down \o chunk

(* What the two kinds of buffered frames and the messages come to.         *)
LEMMA WritesSent ==
    ASSUME IInv, NEW s, IsSession(s, DownFrames), Paired(s.out),
           NEW messages \in Seq(DownFrames), Paired(messages),
           Writes(s, messages)
    PROVE  Sent /\ provider'.phase = s.phase
<1>1. down \in Seq(DownFrames) /\ s.out \in Seq(DownFrames)
  BY DEF IInv, TypeOK, IsSession
<1>2. s.out \o messages \in Seq(DownFrames) /\ Paired(s.out \o messages)
  BY <1>1, PairedConcat
<1>3. down' = down \o (s.out \o messages)
  <2>1. \A a, b, c \in Seq(DownFrames) : (a \o b) \o c = a \o (b \o c)
    BY ConcatAssociative, SMTT(40)
  <2>2. (down \o s.out) \o messages = down \o (s.out \o messages)
    BY <1>1, <2>1
  <2> QED
    BY <2>2 DEF Writes
<1>4. provider'.phase = s.phase
  BY FlushFacts DEF Writes
<1> QED
  BY <1>2, <1>3, <1>4 DEF Sent

(* What the session holds back opens no window.                            *)
LEMMA BufferPaired ==
    ASSUME IInv
    PROVE  /\ IsSession(provider, DownFrames) /\ Paired(provider.out) /\ Paired(<<>>)
           /\ <<>> \in Seq(DownFrames)
           /\ \A m \in {Ping, Goodbye} :
                 /\ m \in DownFrames
                 /\ Append(provider.out, m) \in Seq(DownFrames)
                 /\ Paired(Append(provider.out, m))
<1>1. IsSession(provider, DownFrames) /\ provider.out \in Seq(DownFrames)
  BY DEF IInv, TypeOK, IsSession
<1>2. provider.out \in {<<>>, <<HelloOf(ProviderConfig)>>}
  BY DEF IInv, Unestablished
<1>3. /\ {HelloOf(ProviderConfig), Ping, Goodbye} \subseteq DownFrames
      /\ \A m \in {HelloOf(ProviderConfig), Ping, Goodbye} : m.kind # "WindowAdded"
  BY DownKinds DEF HelloOf, Ping, Goodbye, Msg
<1>4. Paired(provider.out) /\ Paired(<<>>) /\ <<>> \in Seq(DownFrames)
  <2>1. Paired(<<HelloOf(ProviderConfig)>>) /\ Paired(<<>>)
    BY <1>3, PairedOne
  <2> QED
    BY <1>2, <2>1
<1>5. ASSUME NEW m \in {Ping, Goodbye}
      PROVE  Append(provider.out, m) \in Seq(DownFrames) /\ Paired(Append(provider.out, m))
  <2>1. <<m>> \in Seq(DownFrames) /\ Paired(<<m>>)
    BY <1>3, PairedOne
  <2>2. Append(provider.out, m) = provider.out \o <<m>>
    BY <1>1, <1>3, AppendIsConcat
  <2> QED
    BY <1>1, <1>4, <2>1, <2>2, PairedConcat
<1> QED
  BY <1>1, <1>3, <1>4, <1>5

(* What every step of the provider shows to the other side: it is taken by *)
(* a serving host, writes in one piece, and ends the serving when it       *)
(* closes the session.                                                     *)
Shown ==
    /\ hosting = "serving" /\ UNCHANGED consumerVars /\ Sent
    /\ hosting' = "serving" => provider'.phase # "Closed"

(* Steps that report what the source says.                                 *)
LEMMA ReportShown ==
    ASSUME MInv, SourceReports \/ (\E f \in Windows \cup {None} : PumpFocus(f))
    PROVE  Shown
<1>1. /\ IInv /\ hosting = "serving" /\ provider.phase = "Established" /\ UNCHANGED consumerVars
  BY DEF MInv, SourceReports, PumpWindowAdded, PumpWindowRemoved, PumpTreeUpdate, PumpFocus,
         Polled, Serving
<1>2. PICK messages \in Seq(DownFrames) : Paired(messages) /\ Writes(provider, messages)
  <2>1. CASE Refuse
    BY <1>1, <2>1, BufferPaired DEF Refuse
  <2>2. ASSUME NEW w \in Windows, Writes(provider, <<WindowAdded(w), TreeUpdate(w)>>)
        PROVE  \E messages \in Seq(DownFrames) : Paired(messages) /\ Writes(provider, messages)
    BY <2>2, PairedTwo
  <2>3. ASSUME NEW m \in DownFrames, m.kind # "WindowAdded", Writes(provider, <<m>>)
        PROVE  \E messages \in Seq(DownFrames) : Paired(messages) /\ Writes(provider, messages)
    BY <2>3, PairedOne
  <2>4. ASSUME NEW w \in Windows,
               Writes(provider, <<WindowRemoved(w)>>) \/ Writes(provider, <<TreeUpdate(w)>>)
        PROVE  \E messages \in Seq(DownFrames) : Paired(messages) /\ Writes(provider, messages)
    <3>1. /\ WindowRemoved(w) \in DownFrames /\ WindowRemoved(w).kind # "WindowAdded"
          /\ TreeUpdate(w) \in DownFrames /\ TreeUpdate(w).kind # "WindowAdded"
      BY DownKinds DEF WindowRemoved, TreeUpdate, Msg
    <3> QED
      BY <2>3, <2>4, <3>1
  <2>5. ASSUME NEW f \in Windows \cup {None}, Writes(provider, <<FocusChanged(f)>>)
        PROVE  \E messages \in Seq(DownFrames) : Paired(messages) /\ Writes(provider, messages)
    <3>1. FocusChanged(f) \in DownFrames /\ FocusChanged(f).kind # "WindowAdded"
      BY DownKinds DEF FocusChanged, Msg
    <3> QED
      BY <2>3, <2>5, <3>1
  <2> QED
    BY <2>1, <2>2, <2>4, <2>5
       DEF SourceReports, PumpWindowAdded, PumpWindowRemoved, PumpTreeUpdate, PumpFocus
<1>3. Sent /\ provider'.phase = "Established"
  BY <1>1, <1>2, BufferPaired, WritesSent
<1> QED
  BY <1>1, <1>3 DEF Shown

(* Pumps without a report, heartbeats, and a hangup.                       *)
LEMMA OwnShown ==
    ASSUME MInv, PumpIdle \/ HeartbeatPings \/ HeartbeatGivesUp \/ HostSeesHangup
    PROVE  Shown
<1>1. /\ IInv /\ hosting = "serving" /\ provider.phase # "Closed" /\ UNCHANGED consumerVars
  BY DEF MInv, ServingOpen, PumpIdle, HeartbeatPings, HeartbeatGivesUp, HostSeesHangup, Serving
<1>2. CASE PumpIdle
  <2>1. Writes(provider, <<>>)
    BY <1>2 DEF PumpIdle
  <2> QED
    BY <1>1, <2>1, BufferPaired, WritesSent DEF Shown
<1>3. CASE HeartbeatPings
  <2>1. Writes(Queue(provider, Ping), <<>>)
    BY <1>3 DEF HeartbeatPings
  <2>2. /\ IsSession(Queue(provider, Ping), DownFrames)
        /\ Queue(provider, Ping).phase = provider.phase
        /\ Paired(Queue(provider, Ping).out)
    BY <1>1, BufferPaired, QueueFacts
  <2> QED
    BY <1>1, <2>1, <2>2, BufferPaired, WritesSent DEF Shown
<1>4. CASE HeartbeatGivesUp
  <2>1. Writes(CloseSession(provider), <<>>) /\ hosting' = "ended"
    BY <1>4 DEF HeartbeatGivesUp
  <2>2. /\ IsSession(CloseSession(provider), DownFrames)
        /\ Paired(CloseSession(provider).out)
    BY <1>1, BufferPaired, CloseFacts
  <2> QED
    BY <1>1, <2>1, <2>2, BufferPaired, WritesSent DEF Shown
<1>5. CASE HostSeesHangup
  <2>1. down' = down /\ hosting' = "ended" /\ down \in Seq(DownFrames)
    BY <1>1, <1>5 DEF HostSeesHangup, IInv, TypeOK
  <2>2. down' = down \o <<>>
    BY <2>1, ConcatEmptySeq
  <2> QED
    BY <1>1, <2>1, <2>2, BufferPaired DEF Shown, Sent
<1> QED
  BY <1>2, <1>3, <1>4, <1>5

(* The greeting, the initial burst with it.                                *)
LEMMA GreetingShown ==
    ASSUME MInv, HostReadsHello \/ HostReadsHelloAndGoodbye
    PROVE  Shown
<1> DEFINE r == Receive(ProviderConfig, provider, Head(up))
           s == Receive(ProviderConfig, r.session, Goodbye).session
<1>1. /\ IInv /\ hosting = "serving" /\ provider.phase = "AwaitingHello" /\ UNCHANGED consumerVars
  BY DEF MInv, HostReadsHello, HostReadsHelloAndGoodbye
<1>2. /\ IsSession(r.session, DownFrames) /\ r.failed \in BOOLEAN
      /\ r.failed => r.session.out = Append(provider.out, Goodbye)
      /\ ~r.failed => r.session.phase = "Established" /\ r.session.out = provider.out
  BY <1>1, BufferPaired, ReceiveHelloFacts
<1>3. Paired(r.session.out)
  BY <1>1, <1>2, BufferPaired
<1>4. CASE HostReadsHello /\ r.failed
  <2>1. Writes(r.session, <<>>) /\ hosting' = "failed"
    BY <1>4 DEF HostReadsHello
  <2> QED
    BY <1>1, <1>2, <1>3, <2>1, BufferPaired, WritesSent DEF Shown
<1>5. CASE HostReadsHello /\ ~r.failed
  <2>1. PICK ws \in Snapshots, f \in Windows \cup {None} :
            \/ Writes(r.session, Append(Burst(ws), FocusChanged(f)))
            \/ Writes(r.session, Burst(ws))
    BY <1>5 DEF HostReadsHello
  <2>2. ws \in Seq(Windows)
    BY SnapshotsAssumption
  <2>3. Burst(ws) \in Seq(DownFrames) /\ Paired(Burst(ws))
    BY <2>2, PairedBurst
  <2>4. FocusChanged(f) \in DownFrames /\ FocusChanged(f).kind # "WindowAdded"
    BY DownKinds DEF FocusChanged, Msg
  <2>5. /\ Append(Burst(ws), FocusChanged(f)) \in Seq(DownFrames)
        /\ Paired(Append(Burst(ws), FocusChanged(f)))
    <3>1. Append(Burst(ws), FocusChanged(f)) = Burst(ws) \o <<FocusChanged(f)>>
      BY <2>3, <2>4, AppendIsConcat
    <3>2. <<FocusChanged(f)>> \in Seq(DownFrames) /\ Paired(<<FocusChanged(f)>>)
      BY <2>4, PairedOne
    <3> QED
      BY <2>3, <3>1, <3>2, PairedConcat
  <2>6. Sent /\ provider'.phase = "Established"
    <3>1. ASSUME NEW messages \in Seq(DownFrames), Paired(messages), Writes(r.session, messages)
          PROVE  Sent /\ provider'.phase = "Established"
      BY <1>1, <1>2, <1>3, <1>5, <3>1, WritesSent
    <3> QED
      BY <2>1, <2>3, <2>5, <3>1
  <2> QED
    BY <1>1, <2>6 DEF Shown
<1>6. CASE HostReadsHelloAndGoodbye
  <2>1. ~r.failed /\ Writes(s, <<>>) /\ hosting' = "failed"
    BY <1>6 DEF HostReadsHelloAndGoodbye
  <2>2. Goodbye \in DownFrames /\ Goodbye.kind = "Goodbye"
    BY DownKinds DEF Goodbye, Msg
  <2>3. IsSession(s, DownFrames) /\ s.out = provider.out
    BY <1>2, <2>1, <2>2, ReceiveFacts
  <2> QED
    BY <1>1, <2>1, <2>3, BufferPaired, WritesSent DEF Shown
<1> QED
  BY <1>4, <1>5, <1>6

(* What an established host reads.                                         *)
LEMMA ReadShown ==
    ASSUME MInv, HostReads
    PROVE  Shown
<1> DEFINE m == Head(up)
           r == Receive(ProviderConfig, provider, m)
<1>1. /\ IInv /\ hosting = "serving" /\ provider.phase = "Established"
      /\ up # <<>> /\ UNCHANGED consumerVars
  BY DEF MInv, HostReads, Serving
<1>2. m \in UpFrames /\ m.kind \in {"Action", "Hello", "Goodbye", "Pong"}
  BY <1>1, UpKinds, HeadTailProperties DEF IInv, TypeOK
<1>3. /\ IsSession(r.session, DownFrames) /\ r.failed \in BOOLEAN
      /\ r.failed <=> m.kind = "Hello"
      /\ m.kind = "Hello" => /\ r.session.phase = "Closed"
                             /\ r.session.out = Append(provider.out, Goodbye)
      /\ m.kind = "Goodbye" => r.event = ClosedEvent /\ r.session.out = provider.out
      /\ m.kind \in {"Action", "Pong"} => r.session = provider /\ r.event = m
  BY <1>1, <1>2, BufferPaired, ReceiveFacts
<1>4. CASE m.kind = "Hello"
  <2>1. Writes(CloseSession(r.session), <<>>) /\ hosting' = "failed"
    BY <1>3, <1>4 DEF HostReads
  <2>2. CloseSession(r.session) = r.session
    BY <1>3, <1>4 DEF CloseSession
  <2>3. Paired(r.session.out)
    BY <1>1, <1>3, <1>4, BufferPaired
  <2> QED
    BY <1>1, <1>3, <2>1, <2>2, <2>3, BufferPaired, WritesSent DEF Shown
<1>5. CASE m.kind # "Hello"
  <2>1. r.event.kind \in {"NoEvent", "Action", "Pong", "ClosedEvent"}
    BY <1>2, <1>3, <1>5 DEF ClosedEvent, Msg
  <2>2. /\ Writes(r.session, <<>>)
        /\ hosting' = IF r.event = ClosedEvent THEN "ended" ELSE hosting
    BY <1>3, <1>5, <2>1 DEF HostReads
  <2>3. r.session.out = provider.out /\ (r.event = ClosedEvent \/ r.session.phase = "Established")
    BY <1>1, <1>2, <1>3, <1>5
  <2>4. Sent /\ provider'.phase = r.session.phase
    BY <1>1, <1>3, <2>2, <2>3, BufferPaired, WritesSent
  <2> QED
    BY <1>1, <2>2, <2>3, <2>4 DEF Shown
<1> QED
  BY <1>4, <1>5

(* Every step of the provider.                                             *)
LEMMA ProviderShown ==
    ASSUME MInv, ProviderStep
    PROVE  Shown
BY ReportShown, OwnShown, GreetingShown, ReadShown DEF ProviderStep

-----------------------------------------------------------------------------
(* The consumer's steps.                                                   *)

(* Reading takes the first frame, and the windows follow its view.         *)
Read ==
    /\ down # <<>> /\ down' = Tail(down) /\ UNCHANGED providerVars
    /\ windows' = View(windows, down, 1)

(* Messages about windows, each with what it does to trees and focus.      *)
LEMMA WindowMessageRead ==
    ASSUME MInv, OnWindowAdded \/ OnWindowRemoved \/ OnTreeUpdate \/ OnFocusChanged
    PROVE  /\ Read
           /\ \/ OnWindowAdded /\ Head(down) = WindowAdded(Head(down).body)
              \/ OnWindowRemoved /\ Head(down) = WindowRemoved(Head(down).body)
              \/ OnTreeUpdate /\ Head(down) = TreeUpdate(Head(down).body)
              \/ OnFocusChanged /\ Head(down).kind = "FocusChanged"
           /\ Subject = Head(down).body
           /\ OnTreeUpdate => Subject \in windows
           /\ OnFocusChanged => Subject = None \/ Subject \in windows
<1> DEFINE m == Head(down)
<1>1. PICK kind \in {"WindowAdded", "WindowRemoved", "TreeUpdate", "FocusChanged"} :
          /\ Arrives(kind)
          /\ \/ kind = "WindowAdded" /\ OnWindowAdded
             \/ kind = "WindowRemoved" /\ OnWindowRemoved
             \/ kind = "TreeUpdate" /\ OnTreeUpdate
             \/ kind = "FocusChanged" /\ OnFocusChanged
  BY DEF OnWindowAdded, OnWindowRemoved, OnTreeUpdate, OnFocusChanged
<1>2. /\ IInv /\ Running /\ down # <<>> /\ down' = Tail(down) /\ UNCHANGED <<providerVars, up>>
      /\ m.kind = kind /\ Subject = m.body
  BY <1>1, Handed DEF MInv
<1>3. /\ m \in DownFrames /\ Acceptable(m, windows)
      /\ \A w \in Windows : w \in View(windows, down, 1) <=>
            m = WindowAdded(w) \/ (w \in windows /\ m # WindowRemoved(w))
  BY <1>2, Arrival
<1>4. View(windows, down, 1) \subseteq Windows /\ windows \subseteq Windows
  BY <1>2 DEF View, IInv, TypeOK
<1>5. m.kind \in {"WindowAdded", "WindowRemoved", "TreeUpdate"} =>
        m = Msg(m.kind, m.body) /\ m.body \in Windows
  BY <1>3, DownKinds
<1>6. \A w \in Windows : /\ m = WindowAdded(w) <=> m.kind = "WindowAdded" /\ m.body = w
                         /\ m = WindowRemoved(w) <=> m.kind = "WindowRemoved" /\ m.body = w
  BY <1>5 DEF WindowAdded, WindowRemoved, Msg
<1>7. /\ kind = "WindowAdded" => m = WindowAdded(m.body)
      /\ kind = "WindowRemoved" => m = WindowRemoved(m.body)
      /\ kind = "TreeUpdate" => m = TreeUpdate(m.body) /\ m.body \in windows
      /\ kind = "FocusChanged" => m.body = None \/ m.body \in windows
  BY <1>2, <1>3, <1>5 DEF WindowAdded, WindowRemoved, TreeUpdate, Acceptable
<1>8. windows' = View(windows, down, 1)
  <2>1. CASE kind = "WindowAdded"
    BY <1>1, <1>2, <1>3, <1>4, <1>5, <1>6, <2>1 DEF OnWindowAdded
  <2>2. CASE kind = "WindowRemoved"
    <3>1. windows' = windows \ {m.body}
      BY <1>1, <1>2, <2>2 DEF OnWindowRemoved
    <3>2. \A w \in Windows : /\ m # WindowAdded(w)
                             /\ m = WindowRemoved(w) <=> w = m.body
      BY <1>2, <1>6, <2>2
    <3> QED
      BY <1>3, <1>4, <3>1, <3>2
  <2>3. CASE kind \in {"TreeUpdate", "FocusChanged"}
    BY <1>1, <1>2, <1>3, <1>4, <1>6, <2>3 DEF OnTreeUpdate, OnFocusChanged
  <2> QED
    BY <2>1, <2>2, <2>3
<1>9. /\ OnTreeUpdate => kind = "TreeUpdate"
      /\ OnFocusChanged => kind = "FocusChanged"
  <2>1. \A k : Arrives(k) /\ Arrives(kind) => k = kind
    BY DEF Arrives
  <2> QED
    BY <1>1, <2>1 DEF OnTreeUpdate, OnFocusChanged
<1> QED
  BY <1>1, <1>2, <1>7, <1>8, <1>9 DEF Read

(* A hello, a ping and a goodbye.                                          *)
LEMMA SessionFrameRead ==
    ASSUME MInv, OnSessionFrame \/ OnRefusal
    PROVE  Read /\ UNCHANGED <<windows, trees, focus>> /\ Head(down).kind # "TreeUpdate"
<1> DEFINE m == Head(down)
<1>1. /\ IInv /\ Running /\ down # <<>> /\ down' = Tail(down) /\ UNCHANGED providerVars
      /\ UNCHANGED <<windows, trees, focus>>
  BY DEF MInv, OnSessionFrame, OnRefusal, Arrives, MayRead
<1>2. /\ EstablishedEvent.kind = "EstablishedEvent" /\ ClosedEvent.kind = "ClosedEvent"
      /\ NoEvent.kind = "NoEvent"
  BY DEF EstablishedEvent, ClosedEvent, NoEvent, Msg
<1>3. /\ m \in DownFrames
      /\ \A w \in Windows : w \in View(windows, down, 1) <=>
            m = WindowAdded(w) \/ (w \in windows /\ m # WindowRemoved(w))
  BY <1>1, Arrival
<1>4. m.kind \in {"Hello", "Goodbye", "Ping"}
  <2>1. CASE Arrived.failed
    BY <1>1, <2>1, Arrival
  <2>2. CASE ~Arrived.failed /\ Arrived.event.kind \in {"EstablishedEvent", "NoEvent", "ClosedEvent"}
    BY <1>1, <1>2, <1>3, <2>2, Arrival, DownKinds
  <2> QED
    BY <2>1, <2>2 DEF OnSessionFrame, OnRefusal, Arrives
<1>5. windows = View(windows, down, 1)
  <2>1. \A w \in Windows : m \notin {WindowAdded(w), WindowRemoved(w)}
    BY <1>4 DEF WindowAdded, WindowRemoved, Msg
  <2>2. View(windows, down, 1) \subseteq Windows /\ windows \subseteq Windows
    BY <1>1 DEF View, IInv, TypeOK
  <2> QED
    BY <1>3, <2>1, <2>2
<1> QED
  BY <1>1, <1>4, <1>5 DEF Read

(* After a frame was read every window has its tree, or has it next.       *)
LEMMA ReadKeepsTrees ==
    ASSUME MInv, ConsumerReads
    PROVE  Read /\ TreesDue'
<1> DEFINE m == Head(down)
<1>1. Read
  BY WindowMessageRead, SessionFrameRead DEF ConsumerReads
<1>2. /\ down \in Seq(DownFrames) /\ m = down[1] /\ trees \subseteq windows
      /\ 1 \in 1..Len(down) /\ Len(down) \in Nat
  BY <1>1 DEF MInv, IInv, TypeOK, Read
<1>3. \A w, v : /\ TreeUpdate(w) \notin {WindowAdded(v), WindowRemoved(v)}
                /\ TreeUpdate(w) = TreeUpdate(v) => w = v
                /\ WindowAdded(v).kind = "WindowAdded" /\ WindowAdded(v).body = v
                /\ TreeUpdate(v).kind = "TreeUpdate"
  BY DEF TreeUpdate, WindowAdded, WindowRemoved, Msg
<1>4. \A w \in windows : w \in trees \/ m = TreeUpdate(w)
  BY <1>2 DEF MInv, TreesDue, TreeDue
<1>5. CASE OnWindowAdded /\ m = WindowAdded(m.body)
  <2>1. windows' = windows \cup {m.body} /\ trees' = trees \ {m.body}
    BY <1>5, WindowMessageRead DEF OnWindowAdded
  <2>2. 1 < Len(down) /\ down[2] = TreeUpdate(m.body)
    BY <1>2, <1>3, <1>5 DEF MInv, Paired
  <2>3. down' # <<>> /\ down'[1] = TreeUpdate(m.body)
    <3>1. Tail(down) # <<>> /\ Tail(down)[1] = down[2]
      <4>1. /\ Tail(down) \in Seq(DownFrames) /\ Len(Tail(down)) = Len(down) - 1
            /\ \A i \in 1..Len(Tail(down)) : Tail(down)[i] = down[i + 1]
        BY <1>1, <1>2, HeadTailProperties DEF Read
      <4>2. Tail(down)[1] = down[1 + 1]
        BY <1>2, <2>2, <4>1
      <4>3. Len(Tail(down)) >= 1
        BY <1>2, <2>2, <4>1
      <4>4. Tail(down) # <<>>
        <5>1. Tail(down) = <<>> => Len(Tail(down)) = Len(<<>>)
          OBVIOUS
        <5>2. Len(<<>>) = 0
          BY EmptySeq
        <5> HIDE DEF m
        <5> QED
          BY <4>3, <5>1, <5>2, SMTT(30)
      <4> QED
        BY <4>2, <4>4
    <3> QED
      BY <1>1, <2>2, <3>1 DEF Read
  <2> QED
    BY <1>1, <1>3, <1>4, <1>5, <2>1, <2>3 DEF TreesDue, TreeDue
<1>6. CASE OnWindowRemoved /\ m = WindowRemoved(m.body)
  <2>1. windows' = windows \ {m.body} /\ trees' = trees \ {m.body}
    BY <1>6, WindowMessageRead DEF OnWindowRemoved
  <2> QED
    BY <1>1, <1>3, <1>4, <1>6, <2>1, ZenonT(60) DEF TreesDue, TreeDue
<1>7. CASE OnTreeUpdate /\ m = TreeUpdate(m.body)
  <2>1. windows' = windows /\ trees' = trees \cup {m.body}
    BY <1>7, WindowMessageRead DEF OnTreeUpdate
  <2> QED
    BY <1>1, <1>3, <1>4, <1>7, <2>1 DEF TreesDue, TreeDue
<1>8. CASE UNCHANGED <<windows, trees>> /\ m.kind # "TreeUpdate"
  BY <1>1, <1>3, <1>4, <1>8 DEF TreesDue, TreeDue
<1>9. CASE OnFocusChanged /\ m.kind = "FocusChanged"
  BY <1>8, <1>9 DEF OnFocusChanged
<1> QED
  BY <1>1, <1>5, <1>6, <1>7, <1>8, <1>9, WindowMessageRead, SessionFrameRead DEF ConsumerReads

(* After a frame was read the focus is held.                               *)
LEMMA ReadKeepsFocus ==
    ASSUME MInv, ConsumerReads
    PROVE  FocusIsHeld'
<1>1. FocusIsHeld
  BY DEF MInv
<1>2. CASE OnWindowAdded
  BY <1>1, <1>2 DEF OnWindowAdded, FocusIsHeld
<1>3. CASE OnWindowRemoved
  BY <1>1, <1>3 DEF OnWindowRemoved, FocusIsHeld
<1>4. CASE OnTreeUpdate
  BY <1>1, <1>4 DEF OnTreeUpdate, FocusIsHeld
<1>5. CASE OnFocusChanged
  BY <1>1, <1>5 DEF OnFocusChanged, FocusIsHeld
<1>6. CASE OnSessionFrame \/ OnRefusal
  BY <1>1, <1>6 DEF OnSessionFrame, OnRefusal, FocusIsHeld
<1> QED
  BY <1>2, <1>3, <1>4, <1>5, <1>6 DEF ConsumerReads

(* What the consumer does besides reading touches neither windows nor the  *)
(* stream towards it.                                                      *)
LEMMA ConsumerElse ==
    ASSUME ConsumerStep, ~ConsumerReads
    PROVE  UNCHANGED <<providerVars, windows, trees, focus, down>>
BY DEF ConsumerStep, ConsumerWrites, RequestAction, ConsumerStops, ConsumerSeesHangup

-----------------------------------------------------------------------------
(* Whatever the source does, what the consumer holds and what is under way *)
(* to it pair every window with its tree, and its focus is a window.       *)
THEOREM MirrorInvariance == Spec => []MInv
<1>1. Init => Paired(down) /\ TreesDue /\ ServingOpen /\ FocusIsHeld
  BY EmptySeq DEF Init, Paired, TreesDue, ServingOpen, FocusIsHeld, NewSession
<1>2. MInv /\ [Next]_vars => (Paired(down) /\ TreesDue /\ ServingOpen /\ FocusIsHeld)'
  <2> SUFFICES ASSUME MInv, [Next]_vars
               PROVE  (Paired(down) /\ TreesDue /\ ServingOpen /\ FocusIsHeld)'
    OBVIOUS
  <2>0. /\ Paired(down) /\ TreesDue /\ ServingOpen /\ FocusIsHeld /\ down \in Seq(DownFrames)
        /\ IInv
    BY DEF MInv, IInv, TypeOK
  <2>1. CASE ProviderStep
    <3>1. Shown
      BY <2>1, ProviderShown
    <3>2. PICK chunk \in Seq(DownFrames) : Paired(chunk) /\ down' = down \o chunk
      BY <3>1 DEF Shown, Sent
    <3>3. Paired(down)'
      BY <2>0, <3>2, PairedConcat
    <3>4. TreesDue'
      <4>1. down # <<>> => down' # <<>> /\ down'[1] = down[1]
        BY <2>0, <3>2
      <4> QED
        BY <2>0, <3>1, <4>1 DEF Shown, consumerVars, TreesDue, TreeDue
    <3> QED
      BY <2>0, <3>1, <3>3, <3>4 DEF Shown, consumerVars, ServingOpen, FocusIsHeld
  <2>2. CASE ConsumerReads
    <3>1. Read /\ TreesDue' /\ FocusIsHeld'
      BY <2>2, ReadKeepsTrees, ReadKeepsFocus
    <3>2. Paired(down)'
      BY <2>0, <3>1, PairedTail DEF Read
    <3> QED
      BY <2>0, <3>1, <3>2 DEF Read, providerVars, ServingOpen
  <2>3. CASE UNCHANGED <<providerVars, windows, trees, focus, down>>
    BY <2>0, <2>3 DEF providerVars, Paired, TreesDue, TreeDue, ServingOpen, FocusIsHeld
  <2>4. CASE UNCHANGED vars
    BY <2>3, <2>4 DEF vars, connection, providerVars
  <2> QED
    BY <2>1, <2>2, <2>3, <2>4, ConsumerElse DEF Next, ConsumerStep
<1> QED
  BY <1>1, <1>2, Invariance, PTL DEF Spec, MInv

(* An established consumer that has read everything holds exactly the      *)
(* windows the provider has announced, each with a tree.                   *)
THEOREM MirrorsAtRest == Spec => []MirrorAtRest
<1>1. MInv => MirrorAtRest
  <2> SUFFICES ASSUME MInv, Serving, down = <<>>
               PROVE  windows = announced /\ trees = announced
    BY DEF MirrorAtRest
  <2>1. windows \in SUBSET Windows /\ trees \subseteq windows
    BY DEF MInv, IInv, TypeOK
  <2>2. announced = View(windows, <<>>, Len(<<>>))
    BY DEF MInv, IInv, Accounted, Serving
  <2>3. announced = windows
    BY <2>1, <2>2, ViewStart
  <2>4. windows \subseteq trees
    BY DEF MInv, TreesDue, TreeDue
  <2> QED
    BY <2>1, <2>3, <2>4
<1> QED
  BY <1>1, MirrorInvariance, PTL

(* The focus the consumer presents is on a window that it holds.           *)
THEOREM FocusHeld == Spec => []FocusIsHeld
BY MirrorInvariance, PTL DEF MInv

-----------------------------------------------------------------------------
(* The connection implements WindowMirror: the views under way.            *)

Views(held, stream) == [i \in 1..Len(stream) |-> View(held, stream, i)]

(* There is one view for each frame.                                       *)
LEMMA ViewsFacts ==
    ASSUME NEW held, NEW F, NEW stream \in Seq(F)
    PROVE  /\ Views(held, stream) \in Seq(SUBSET Windows)
           /\ Len(Views(held, stream)) = Len(stream) /\ Len(stream) \in Nat
           /\ \A i \in 1..Len(stream) : Views(held, stream)[i] = View(held, stream, i)
           /\ Views(held, stream) = <<>> <=> stream = <<>>
<1>1. \A i : View(held, stream, i) \in SUBSET Windows
  BY DEF View
<1>2. Len(stream) \in Nat
  BY LenProperties
<1>3. Views(held, stream) \in [1..Len(stream) -> SUBSET Windows]
  BY <1>1 DEF Views
<1>4. Views(held, stream) \in Seq(SUBSET Windows) /\ Len(Views(held, stream)) = Len(stream)
  BY <1>2, <1>3
<1> HIDE DEF Views
<1>5. Views(held, stream) = <<>> <=> stream = <<>>
  BY <1>4, EmptySeq
<1> QED
  BY <1>2, <1>4, <1>5 DEF Views

(* The newest of them is the view after the whole stream.                  *)
LEMMA NewestView ==
    ASSUME NEW held \in SUBSET Windows, NEW F, NEW stream \in Seq(F)
    PROVE  (IF Views(held, stream) = <<>> THEN held
                                          ELSE Views(held, stream)[Len(Views(held, stream))])
             = View(held, stream, Len(stream))
<1>1. CASE stream = <<>>
  <2>1. Views(held, stream) = <<>> /\ Len(stream) = 0
    BY <1>1, ViewsFacts, EmptySeq
  <2> QED
    BY <2>1, ViewStart
<1>2. CASE stream # <<>>
  <2>1. /\ Views(held, stream) # <<>> /\ Len(Views(held, stream)) = Len(stream)
        /\ \A i \in 1..Len(stream) : Views(held, stream)[i] = View(held, stream, i)
    BY <1>2, ViewsFacts
  <2>2. Len(stream) \in 1..Len(stream)
    BY <1>2, EmptySeq, LenProperties
  <2> QED
    BY <2>1, <2>2
<1> QED
  BY <1>1, <1>2

(* One frame opens or closes at most one window.                           *)
LEMMA ViewsAdjacent ==
    ASSUME NEW held \in SUBSET Windows, NEW stream \in Seq(DownFrames), NEW i \in 1..Len(stream)
    PROVE  Mirror!Adjacent(View(held, stream, i - 1), View(held, stream, i))
<1> DEFINE before == View(held, stream, i - 1)
           after == View(held, stream, i)
           m == stream[i]
<1>1. \A w \in Windows : w \in after <=> m = WindowAdded(w) \/ (w \in before /\ m # WindowRemoved(w))
  BY ViewStep
<1>2. before \subseteq Windows /\ after \subseteq Windows
  BY DEF View
<1>3. /\ \A v, w : WindowAdded(v) # WindowRemoved(w)
      /\ \A v, w : WindowAdded(v) = WindowAdded(w) => v = w
      /\ \A v, w : WindowRemoved(v) = WindowRemoved(w) => v = w
  BY DEF WindowAdded, WindowRemoved, Msg
<1>4. ASSUME NEW w \in Windows, m = WindowAdded(w)
      PROVE  after = before \cup {w}
  BY <1>1, <1>2, <1>3, <1>4
<1>5. ASSUME NEW w \in Windows, m = WindowRemoved(w)
      PROVE  after = before \ {w}
  BY <1>1, <1>2, <1>3, <1>5
<1>6. ASSUME \A w \in Windows : m \notin {WindowAdded(w), WindowRemoved(w)}
      PROVE  after = before
  BY <1>1, <1>2, <1>6
<1>7. after = before \/ \E w \in Windows : after = before \cup {w} \/ after = before \ {w}
  <2>1. CASE \E w \in Windows : m \in {WindowAdded(w), WindowRemoved(w)}
    <3>1. PICK w \in Windows : m = WindowAdded(w) \/ m = WindowRemoved(w)
      BY <2>1
    <3>2. after = before \cup {w} \/ after = before \ {w}
      BY <1>4, <1>5, <3>1
    <3> HIDE DEF after, before
    <3> QED
      BY <3>2
  <2> QED
    BY <1>6, <2>1
<1> QED
  BY <1>7 DEF Mirror!Adjacent

(* What the provider writes extends the views under way by as many as it   *)
(* wrote frames, each next to the one before it.                           *)
LEMMA ViewsExtended ==
    ASSUME NEW held \in SUBSET Windows, NEW stream \in Seq(DownFrames), NEW chunk \in Seq(DownFrames)
    PROVE  LET old == Views(held, stream)
               new == Views(held, stream \o chunk)
           IN  /\ Len(new) >= Len(old)
               /\ \A i \in 1..Len(old) : new[i] = old[i]
               /\ \A i \in Len(old)+1..Len(new) :
                     Mirror!Adjacent(IF i = 1 THEN held ELSE new[i-1], new[i])
<1> DEFINE all == stream \o chunk
           old == Views(held, stream)
           new == Views(held, all)
<1>1. /\ all \in Seq(DownFrames) /\ Len(all) = Len(stream) + Len(chunk)
      /\ Len(stream) \in Nat /\ Len(chunk) \in Nat
  BY ConcatProperties, LenProperties
<1>2. /\ Len(old) = Len(stream) /\ Len(new) = Len(all)
      /\ \A i \in 1..Len(stream) : old[i] = View(held, stream, i)
      /\ \A i \in 1..Len(all) : new[i] = View(held, all, i)
  BY <1>1, ViewsFacts
<1>3. \A i \in 1..Len(stream) : View(held, all, i) = View(held, stream, i)
  BY ViewConcat
<1>4. \A i \in 1..Len(old) : new[i] = old[i]
  BY <1>1, <1>2, <1>3
<1>5. ASSUME NEW i \in 1..Len(all)
      PROVE  Mirror!Adjacent(IF i = 1 THEN held ELSE new[i-1], new[i])
  <2>1. Mirror!Adjacent(View(held, all, i - 1), View(held, all, i))
    BY <1>1, ViewsAdjacent
  <2>2. (IF i = 1 THEN held ELSE new[i-1]) = View(held, all, i - 1)
    <3>1. CASE i = 1
      BY <3>1, ViewStart
    <3>2. CASE i # 1
      <4>1. i - 1 \in 1..Len(all)
        BY <1>1, <3>2
      <4> QED
        BY <1>2, <3>2, <4>1
    <3> QED
      BY <3>1, <3>2
  <2>3. new[i] = View(held, all, i)
    BY <1>2
  <2> QED
    BY <2>1, <2>2, <2>3
<1>6. \A i \in Len(old)+1..Len(new) : i \in 1..Len(all)
  BY <1>1, <1>2
<1> HIDE DEF new, old
<1>7. Len(new) >= Len(old)
  BY <1>1, <1>2
<1> QED
  BY <1>4, <1>5, <1>6, <1>7 DEF new, old

(* Reading drops the first view.                                           *)
LEMMA ViewsTail ==
    ASSUME NEW held, NEW F, NEW stream \in Seq(F), stream # <<>>
    PROVE  /\ Head(Views(held, stream)) = View(held, stream, 1)
           /\ Tail(Views(held, stream)) = Views(View(held, stream, 1), Tail(stream))
<1> DEFINE old == Views(held, stream)
           rest == Views(View(held, stream, 1), Tail(stream))
<1>1. /\ old \in Seq(SUBSET Windows) /\ Len(old) = Len(stream) /\ Len(stream) \in Nat
      /\ \A i \in 1..Len(stream) : old[i] = View(held, stream, i)
      /\ old # <<>>
  BY ViewsFacts
<1>2. Len(stream) >= 1
  BY EmptySeq, LenProperties
<1>3. /\ Tail(stream) \in Seq(F) /\ Len(Tail(stream)) = Len(stream) - 1
  BY HeadTailProperties, SMTT(40)
<1>4. /\ rest \in Seq(SUBSET Windows) /\ Len(rest) = Len(stream) - 1
      /\ \A i \in 1..Len(stream) - 1 : rest[i] = View(View(held, stream, 1), Tail(stream), i)
  BY <1>3, ViewsFacts, ZenonT(60)
<1>5. /\ Head(old) = old[1] /\ Tail(old) \in Seq(SUBSET Windows)
      /\ Len(Tail(old)) = Len(stream) - 1
      /\ \A i \in 1..Len(stream) - 1 : Tail(old)[i] = old[i + 1]
  BY <1>1, HeadTailProperties
<1>6. \A i \in 1..Len(stream) - 1 : Tail(old)[i] = rest[i]
  <2> TAKE i \in 1..Len(stream) - 1
  <2>1. i \in 0..Len(stream) - 1 /\ i + 1 \in 1..Len(stream)
    BY <1>1
  <2>2. View(View(held, stream, 1), Tail(stream), i) = View(held, stream, i + 1)
    BY <2>1, ViewTail
  <2> QED
    BY <1>1, <1>4, <1>5, <2>1, <2>2
<1>7. Tail(old) = rest
  <2> HIDE DEF old, rest
  <2>1. Len(Tail(old)) = Len(rest) /\ \A i \in 1..Len(rest) : Tail(old)[i] = rest[i]
    BY <1>4, <1>5, <1>6
  <2> QED
    BY <1>4, <1>5, <2>1, SeqEqual
<1> QED
  BY <1>1, <1>2, <1>5, <1>7

-----------------------------------------------------------------------------
(* The connection implements WindowMirror: its steps.                      *)

Pending == Views(windows, down)

(* A host that serves has announced what the newest view under way shows.  *)
LEMMA AnnouncedIsNewest ==
    ASSUME MInv, hosting = "serving"
    PROVE  announced = View(windows, down, Len(down))
<1>1. provider.phase \in {"AwaitingHello", "Established"}
  BY DEF MInv, ServingOpen, IInv, TypeOK, IsSession, Phases
<1>2. CASE provider.phase = "Established"
  BY <1>2 DEF MInv, IInv, Accounted
<1>3. CASE provider.phase = "AwaitingHello"
  <2> DEFINE h == HelloOf(ProviderConfig)
  <2>1. announced = {} /\ windows = {} /\ down \in {<<>>, <<h>>}
    BY <1>3 DEF MInv, IInv, Unestablished
  <2>2. \A w \in Windows : h # WindowAdded(w)
    BY DEF HelloOf, WindowAdded, Msg
  <2>3. CASE down = <<>>
    <3>1. Len(down) = 0
      BY <2>3, EmptySeq
    <3> QED
      BY <2>1, <3>1, ViewStart
  <2>4. CASE down = <<h>>
    <3>1. Len(down) = 1 /\ down[1] = h
      BY <2>4
    <3> QED
      BY <2>1, <2>2, <3>1 DEF View, Held
  <2> QED
    BY <2>1, <2>3, <2>4
<1> QED
  BY <1>1, <1>2, <1>3

(* A step of the provider publishes, or ends the connection.               *)
LEMMA ProviderPublishes ==
    ASSUME MInv, MInv', ProviderStep
    PROVE  Mirror!Publish \/ Mirror!End
<1>1. Shown
  BY ProviderShown
<1>2. /\ hosting = "serving" /\ windows' = windows /\ windows \in SUBSET Windows
      /\ down \in Seq(DownFrames) /\ down' \in Seq(DownFrames)
      /\ announced' \subseteq Windows /\ hosting' \in {"serving", "failed", "ended"}
  BY <1>1 DEF Shown, consumerVars, MInv, IInv, TypeOK
<1>3. PICK chunk \in Seq(DownFrames) : down' = down \o chunk
  BY <1>1 DEF Shown, Sent
<1>4. /\ Len(Pending') >= Len(Pending)
      /\ \A i \in 1..Len(Pending) : Pending'[i] = Pending[i]
      /\ \A i \in Len(Pending)+1..Len(Pending') :
            Mirror!Adjacent(IF i = 1 THEN windows ELSE Pending'[i-1], Pending'[i])
  BY <1>2, <1>3, ViewsExtended, ZenonT(60) DEF Pending
<1>5. Mirror!Extended
  BY <1>4 DEF Mirror!Extended, Pending, Views
<1>6. CASE hosting' = "serving"
  <2>1. announced' = View(windows', down', Len(down'))
    <3>1. (MInv /\ hosting = "serving")' => (announced = View(windows, down, Len(down)))'
      BY AnnouncedIsNewest, PTL
    <3> QED
      BY <1>6, <3>1
  <2>2. (IF Pending' = <<>> THEN windows' ELSE Pending'[Len(Pending')])
          = View(windows', down', Len(down'))
    BY <1>2, NewestView DEF Pending
  <2>3. announced' = Mirror!Newest'
    BY <2>1, <2>2 DEF Mirror!Newest, Pending, Views
  <2> QED
    BY <1>2, <1>5, <1>6, <2>3 DEF Mirror!Publish
<1>7. CASE hosting' # "serving"
  BY <1>2, <1>5, <1>7 DEF Mirror!End
<1> QED
  BY <1>6, <1>7

(* Reading a frame shows the next view.                                    *)
LEMMA ReadShows ==
    ASSUME MInv, Read
    PROVE  Mirror!Show
<1>1. down \in Seq(DownFrames) /\ down # <<>> /\ windows' = View(windows, down, 1)
      /\ down' = Tail(down) /\ UNCHANGED <<announced, hosting>>
  BY DEF MInv, IInv, TypeOK, Read, providerVars
<1>2. Pending # <<>> /\ windows' = Head(Pending) /\ Pending' = Tail(Pending)
  BY <1>1, ViewsFacts, ViewsTail DEF Pending
<1> QED
  BY <1>1, <1>2 DEF Mirror!Show, Pending, Views

(* Whatever the source does, the consumer's set of windows goes through    *)
(* the views that the provider's set went through, in the same order and   *)
(* without a gap while the connection lasts.                               *)
THEOREM MirrorImplemented == Spec => ImplementsMirror
<1>1. Init => Mirror!Init
  <2> SUFFICES ASSUME Init PROVE Mirror!Init
    OBVIOUS
  <2>1. announced = {} /\ windows = {} /\ hosting = "serving" /\ down = <<>>
    BY DEF Init
  <2>2. Pending = <<>>
    BY <2>1, ViewsFacts, EmptySeq DEF Pending
  <2> QED
    BY <2>1, <2>2 DEF Mirror!Init, Pending, Views
<1>2. MInv /\ MInv' /\ [Next]_vars => [Mirror!MirrorNext]_(Mirror!mirrorVars)
  <2> SUFFICES ASSUME MInv, MInv', [Next]_vars
               PROVE  Mirror!MirrorNext \/ UNCHANGED Mirror!mirrorVars
    OBVIOUS
  <2>1. CASE ProviderStep
    BY <2>1, ProviderPublishes DEF Mirror!MirrorNext
  <2>2. CASE ConsumerReads
    BY <2>2, ReadKeepsTrees, ReadShows DEF Mirror!MirrorNext
  <2>3. CASE UNCHANGED <<announced, hosting, windows, down>>
    BY <2>3 DEF Mirror!mirrorVars, View, Held, Stays
  <2> QED
    BY <2>1, <2>2, <2>3, ConsumerElse
       DEF Next, ConsumerStep, vars, connection, providerVars
<1> QED
  BY <1>1, <1>2, MirrorInvariance, PTL DEF Spec, ImplementsMirror, Mirror!Spec
=============================================================================
