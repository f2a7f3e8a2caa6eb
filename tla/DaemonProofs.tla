---------------------------- MODULE DaemonProofs ----------------------------
(***************************************************************************)
(* Proofs about Daemon and Wslg.  For any number of clients and any        *)
(* durations: a client that answers is kept, one that is gone is not       *)
(* waited for longer than its timeout allows, and nobody is given up on    *)
(* without the pings the timeout has room for.  For any windows and any    *)
(* cuts of weston's log: each of its lines is read once, and a window is   *)
(* given the id it was logged with.                                        *)
(***************************************************************************)
EXTENDS Daemon, Wslg, TLAPS, FiniteSetTheorems, SequenceTheorems, WellFoundedInduction

DaemonSteps == DaemonInit /\ [][DaemonNext]_daemonVars

(* What the timeout is for: within it a ping falls due, however slow the   *)
(* loop is, and is answered.                                               *)
RoomToAnswer == PingInterval + MaxStall + RoundTrip <= PeerTimeout

-----------------------------------------------------------------------------
(* The inductive invariant.                                                *)

Kinds == {"Hello", "Pong", "Goodbye"}
Hosts ==
    [phase : {"AwaitingHello", "Established", "Closed"}, heard : 0..PeerTimeout \cup {Nobody},
     pinged : 0..PingInterval \cup {Nobody}, gaveUp : BOOLEAN]
ShapeOK ==
    /\ presence \in [Clients -> {"away", "connected", "vanished", "left"}]
    /\ inbox \in [Clients -> Seq(Kinds)] /\ \A c \in Clients : Len(inbox[c]) <= MaxInbox
    /\ pings \in Seq(0..RoundTrip) /\ backlog \in Seq(Clients)
    /\ serving \in Clients \cup {Nobody} /\ host \in Hosts
    /\ stalled \in 0..MaxStall /\ missed \in Nat /\ gone \in Nat
    /\ host.phase = "Established" => host.heard # Nobody /\ host.pinged # Nobody
    /\ serving # Nobody => host.phase # "Closed"

\* Whoever has a connection has come.
Came ==
    /\ \A i \in 1..Len(backlog) : presence[backlog[i]] # "away"
    /\ serving # Nobody => presence[serving] # "away"

Served == serving # Nobody /\ host.phase = "Established"

(* Between two pings there is at most a period; the silence is no longer   *)
(* than the pings it has left unanswered and the time since the last one.  *)
Period == PingInterval + MaxStall - 1
SincePing == IF host.pinged < PingInterval THEN host.pinged ELSE PingInterval - 1 + stalled
SilenceCounted == Served => host.heard <= missed * Period + SincePing

(* A client that is there has answered all pings but those still on their  *)
(* way, and what it said is read with the next turns.                      *)
AnswersRead ==
    Served /\ Here(serving) /\ inbox[serving] = <<>> =>
        IF pings = <<>> THEN host.heard <= SincePing ELSE host.heard <= pings[1] + Period

(* A client that is gone is served while the loop reads what it had        *)
(* written, a chunk a turn, and then for the length of the timeout.        *)
GoneCounted ==
    serving # Nobody =>
        /\ Here(serving) => gone = 0
        /\ ~Here(serving) /\ inbox[serving] # <<>> =>
              gone <= (MaxInbox - Len(inbox[serving])) * MaxStall + stalled
        /\ ~Here(serving) /\ inbox[serving] = <<>> /\ host.phase = "Established" =>
              gone <= MaxInbox * MaxStall + host.heard
                         + (IF host.heard = PeerTimeout THEN stalled ELSE 0)

DInv == ShapeOK /\ Came /\ SilenceCounted /\ AnswersRead /\ GoneCounted
-----------------------------------------------------------------------------
(* The clients.                                                            *)

\* What the constants are.
LEMMA Durations ==
    /\ PingInterval \in Nat \ {0} /\ PeerTimeout \in Nat \ {0} /\ RoundTrip \in Nat \ {0}
    /\ MaxStall \in Nat \ {0} /\ MaxInbox \in Nat /\ Period \in Nat \ {0}
    /\ Nobody \notin Clients /\ Nobody \notin Nat
BY DurationsAssumption DEF Period

\* The time since the last ping of an established host is less than a period.
LEMMA SincePingBounds ==
    ASSUME ShapeOK, host.phase = "Established"
    PROVE  SincePing \in 0..Period /\ host.heard \in 0..PeerTimeout /\ host.pinged \in 0..PingInterval
<1>1. host.heard \in 0..PeerTimeout /\ host.pinged \in 0..PingInterval /\ stalled \in 0..MaxStall
  BY DEF ShapeOK, Hosts
<1> QED
  BY <1>1, Durations DEF SincePing, Period

\* A chunk that is written is the last of its inbox, which has room for it.
LEMMA SaysFacts ==
    ASSUME ShapeOK, NEW c \in Clients, NEW kind \in Kinds, Says(c, kind)
    PROVE  /\ inbox' \in [Clients -> Seq(Kinds)] /\ \A d \in Clients : Len(inbox'[d]) <= MaxInbox
           /\ inbox'[c] # <<>> /\ \A d \in Clients : d # c => inbox'[d] = inbox[d]
           /\ Here(c) /\ UNCHANGED <<backlog, serving, host, stalled, missed, gone>>
<1>1. inbox' = [inbox EXCEPT ![c] = Append(inbox[c], kind)] /\ Len(inbox[c]) < MaxInbox
  BY DEF Says
<1>2. inbox[c] \in Seq(Kinds) /\ Len(inbox[c]) \in Nat
  BY LenProperties DEF ShapeOK
<1>3. Append(inbox[c], kind) \in Seq(Kinds) /\ Len(Append(inbox[c], kind)) = Len(inbox[c]) + 1
  BY <1>2, AppendProperties
<1>4. Append(inbox[c], kind) # <<>>
  BY <1>2, AppendProperties, ZenonT(120)
<1>5. inbox'[c] = Append(inbox[c], kind) /\ \A d \in Clients : d # c => inbox'[d] = inbox[d]
  BY <1>1 DEF ShapeOK
<1>6. inbox' \in [Clients -> Seq(Kinds)]
  BY <1>1, <1>3 DEF ShapeOK
<1>7. \A d \in Clients : Len(inbox'[d]) <= MaxInbox
  <2> SUFFICES ASSUME NEW d \in Clients PROVE Len(inbox'[d]) <= MaxInbox
    OBVIOUS
  <2>1. CASE d = c
    BY <1>1, <1>2, <1>3, <1>5, <2>1, Durations
  <2>2. CASE d # c
    BY <1>5, <2>2 DEF ShapeOK
  <2> QED
    BY <2>1, <2>2
<1> QED
  BY <1>4, <1>5, <1>6, <1>7 DEF Says

(* A client that says something keeps the invariant, whether it stays or   *)
(* leaves with that: the daemon has something to read.                     *)
LEMMA SayingKeeps ==
    ASSUME DInv, NEW c \in Clients, NEW kind \in Kinds, Says(c, kind),
           pings' \in Seq(0..RoundTrip), pings' = pings \/ serving = c,
           presence' \in [Clients -> {"away", "connected", "vanished", "left"}],
           \A d \in Clients : presence'[d] # "away" <=> presence[d] # "away",
           \A d \in Clients : presence'[d] = presence[d] \/ (d = c /\ presence'[d] = "left")
    PROVE  DInv'
<1>1. /\ inbox' \in [Clients -> Seq(Kinds)] /\ \A d \in Clients : Len(inbox'[d]) <= MaxInbox
      /\ inbox'[c] # <<>> /\ \A d \in Clients : d # c => inbox'[d] = inbox[d]
      /\ Here(c) /\ UNCHANGED <<backlog, serving, host, stalled, missed, gone>>
  BY SaysFacts DEF DInv
<1>2. ShapeOK'
  BY <1>1 DEF DInv, ShapeOK
<1>3. Came'
  <2>1. \A i \in 1..Len(backlog) : backlog[i] \in Clients
    BY LenProperties, ElementOfSeq DEF DInv, ShapeOK
  <2> QED
    BY <1>1, <2>1 DEF DInv, ShapeOK, Came
<1>4. SilenceCounted'
  BY <1>1 DEF DInv, SilenceCounted, Served, SincePing
<1>5. CASE serving = c
  <2>1. AnswersRead'
    BY <1>1, <1>5 DEF AnswersRead
  <2>2. gone = 0
    BY <1>1, <1>5, Durations DEF DInv, GoneCounted
  <2>3. Len(inbox'[c]) \in 0..MaxInbox /\ stalled \in 0..MaxStall
    BY <1>1, LenProperties, Durations DEF DInv, ShapeOK
  <2>4. 0 <= (MaxInbox - Len(inbox'[c])) * MaxStall + stalled
    BY <2>3, Durations, SMTT(40)
  <2>5. GoneCounted'
    BY <1>1, <1>5, <2>2, <2>4 DEF GoneCounted
  <2> QED
    BY <1>2, <1>3, <1>4, <2>1, <2>5 DEF DInv
<1>6. CASE serving # c
  <2>1. serving # Nobody => /\ inbox'[serving] = inbox[serving] /\ (Here(serving)' <=> Here(serving))
                            /\ pings' = pings
    BY <1>1, <1>6 DEF DInv, ShapeOK, Here
  <2>2. AnswersRead'
    BY <1>1, <2>1 DEF DInv, AnswersRead, Served, SincePing
  <2>3. GoneCounted'
    BY <1>1, <2>1 DEF DInv, GoneCounted
  <2> QED
    BY <1>2, <1>3, <1>4, <2>2, <2>3 DEF DInv
<1> QED
  BY <1>5, <1>6

\* Greeting, answering a ping and saying goodbye.
LEMMA SpeakingPreserves ==
    ASSUME DInv, NEW c \in Clients, Greet(c) \/ Answer(c) \/ SayGoodbye(c)
    PROVE  DInv'
<1>1. CASE Greet(c)
  <2>1. Says(c, "Hello") /\ UNCHANGED <<presence, pings>>
    BY <1>1 DEF Greet
  <2> QED
    BY <2>1, SayingKeeps DEF DInv, ShapeOK, Kinds
<1>2. CASE Answer(c)
  <2>1. Says(c, "Pong") /\ pings' = Tail(pings) /\ serving = c /\ UNCHANGED presence /\ pings # <<>>
    BY <1>2 DEF Answer
  <2>2. pings' \in Seq(0..RoundTrip)
    BY <2>1, HeadTailProperties DEF DInv, ShapeOK
  <2> QED
    BY <2>1, <2>2, SayingKeeps DEF DInv, ShapeOK, Kinds
<1>3. CASE SayGoodbye(c)
  <2>1. Says(c, "Goodbye") /\ UNCHANGED pings /\ presence' = [presence EXCEPT ![c] = "left"] /\ Here(c)
    BY <1>3 DEF SayGoodbye, Says
  <2>2. /\ presence' \in [Clients -> {"away", "connected", "vanished", "left"}]
        /\ \A d \in Clients : presence'[d] # "away" <=> presence[d] # "away"
        /\ \A d \in Clients : presence'[d] = presence[d] \/ (d = c /\ presence'[d] = "left")
    BY <2>1 DEF DInv, ShapeOK, Here
  <2> QED
    BY <2>1, <2>2, SayingKeeps DEF DInv, ShapeOK, Kinds
<1> QED
  BY <1>1, <1>2, <1>3

\* A client that comes is served by nobody yet.
LEMMA ConnectPreserves ==
    ASSUME DInv, NEW c \in Clients, Connect(c)
    PROVE  DInv'
<1>1. /\ presence[c] = "away" /\ presence' = [presence EXCEPT ![c] = "connected"]
      /\ backlog' = Append(backlog, c)
      /\ UNCHANGED <<inbox, pings, serving, host, stalled, missed, gone>>
  BY DEF Connect
<1>2. /\ presence' \in [Clients -> {"away", "connected", "vanished", "left"}]
      /\ \A d \in Clients : presence'[d] = IF d = c THEN "connected" ELSE presence[d]
  BY <1>1 DEF DInv, ShapeOK
<1>3. /\ backlog' \in Seq(Clients) /\ Len(backlog') = Len(backlog) + 1 /\ Len(backlog) \in Nat
      /\ \A i \in 1..Len(backlog) : backlog'[i] = backlog[i] /\ backlog[i] \in Clients
      /\ backlog'[Len(backlog) + 1] = c
  BY <1>1, AppendProperties, LenProperties, ElementOfSeq DEF DInv, ShapeOK
<1>4. ShapeOK'
  BY <1>1, <1>2, <1>3 DEF DInv, ShapeOK
<1>5. serving # c
  BY <1>1, Durations DEF DInv, Came
<1>6. Came'
  <2>1. \A i \in 1..Len(backlog') : presence'[backlog'[i]] # "away"
    <3> SUFFICES ASSUME NEW i \in 1..Len(backlog') PROVE presence'[backlog'[i]] # "away"
      OBVIOUS
    <3>1. CASE i = Len(backlog) + 1
      BY <1>2, <1>3, <3>1
    <3>2. CASE i # Len(backlog) + 1
      <4>1. i \in 1..Len(backlog)
        BY <1>3, <3>2
      <4> QED
        BY <1>2, <1>3, <4>1 DEF DInv, Came
    <3> QED
      BY <3>1, <3>2
  <2>2. serving # Nobody => presence'[serving] # "away"
    BY <1>2 DEF DInv, Came, ShapeOK
  <2> QED
    BY <1>1, <2>1, <2>2 DEF Came
<1>7. serving # Nobody => (Here(serving)' <=> Here(serving))
  BY <1>1, <1>2, <1>5 DEF DInv, ShapeOK, Here
<1>8. SilenceCounted' /\ AnswersRead' /\ GoneCounted'
  BY <1>1, <1>7 DEF DInv, SilenceCounted, AnswersRead, GoneCounted, Served, SincePing
<1> QED
  BY <1>4, <1>6, <1>8 DEF DInv

\* Nobody counted the time of a client that was there until now.
LEMMA LeavingPreserves ==
    ASSUME DInv, NEW c \in Clients, HangUp(c) \/ Vanish(c)
    PROVE  DInv'
<1>1. PICK how \in {"left", "vanished"} : presence' = [presence EXCEPT ![c] = how]
  BY DEF HangUp, Vanish
<1>2. Here(c) /\ UNCHANGED <<inbox, pings, backlog, serving, host, stalled, missed, gone>>
  BY DEF HangUp, Vanish
<1>3. /\ presence' \in [Clients -> {"away", "connected", "vanished", "left"}]
      /\ \A d \in Clients : presence'[d] = IF d = c THEN how ELSE presence[d]
  BY <1>1 DEF DInv, ShapeOK
<1>4. ShapeOK'
  BY <1>2, <1>3 DEF DInv, ShapeOK
<1>5. \A i \in 1..Len(backlog) : backlog[i] \in Clients
  BY LenProperties, ElementOfSeq DEF DInv, ShapeOK
<1>6. Came'
  BY <1>2, <1>3, <1>5 DEF DInv, Came, ShapeOK
<1>7. SilenceCounted'
  BY <1>2 DEF DInv, SilenceCounted, Served, SincePing
<1>8. AnswersRead'
  <2>1. Served' /\ Here(serving)' => Served /\ Here(serving)
    BY <1>1, <1>2, <1>3 DEF DInv, ShapeOK, Here, Served
  <2> QED
    BY <1>2, <2>1 DEF DInv, AnswersRead, Served, SincePing
<1>9. GoneCounted'
  <2>1. CASE serving = c
    <3>1. gone = 0
      BY <1>2, <2>1, Durations DEF DInv, GoneCounted
    <3>2. Len(inbox[c]) \in 0..MaxInbox /\ stalled \in 0..MaxStall
      BY LenProperties, Durations DEF DInv, ShapeOK
    <3>3. 0 <= (MaxInbox - Len(inbox[c])) * MaxStall + stalled
      BY <3>2, Durations
    <3>4. host.phase = "Established" =>
              0 <= MaxInbox * MaxStall + host.heard + (IF host.heard = PeerTimeout THEN stalled ELSE 0)
      <4>1. MaxInbox * MaxStall \in Nat
        BY Durations
      <4> QED
        BY <3>2, <4>1, SincePingBounds, Durations, SMTT(40) DEF DInv
    <3> QED
      BY <1>2, <2>1, <3>1, <3>3, <3>4 DEF GoneCounted
  <2>2. CASE serving # c
    <3>1. serving # Nobody => (Here(serving)' <=> Here(serving))
      BY <1>2, <1>3, <2>2 DEF DInv, ShapeOK, Here
    <3> QED
      BY <1>2, <3>1 DEF DInv, GoneCounted
  <2> QED
    BY <2>1, <2>2
<1> QED
  BY <1>4, <1>6, <1>7, <1>8, <1>9 DEF DInv
-----------------------------------------------------------------------------
(* The daemon.                                                             *)

\* What the heartbeat does to a host, each way it can go.
LEMMA BeatFacts ==
    ASSUME NEW h \in Hosts, h.phase = "Established" => h.heard # Nobody
    PROVE  \/ h.phase # "Established" /\ Heartbeat(h) = [host |-> h, ping |-> FALSE]
           \/ /\ h.phase = "Established" /\ h.heard = PeerTimeout
              /\ Heartbeat(h) = [host |-> [h EXCEPT !.phase = "Closed", !.gaveUp = TRUE], ping |-> FALSE]
           \/ /\ h.phase = "Established" /\ h.heard \in 0..(PeerTimeout - 1)
              /\ Heartbeat(h) = [host |-> [h EXCEPT !.pinged = 0], ping |-> TRUE]
           \/ /\ h.phase = "Established" /\ h.heard \in 0..(PeerTimeout - 1)
              /\ h.pinged \in 0..(PingInterval - 1)
              /\ Heartbeat(h) = [host |-> h, ping |-> FALSE]
<1>1. CASE h.phase # "Established"
  BY <1>1 DEF Heartbeat
<1>2. CASE h.phase = "Established"
  <2>1. h.heard \in 0..PeerTimeout /\ h.pinged \in 0..PingInterval \cup {Nobody}
    BY <1>2 DEF Hosts
  <2>2. CASE h.heard >= PeerTimeout
    BY <1>2, <2>1, <2>2, Durations DEF Heartbeat
  <2>3. CASE ~(h.heard >= PeerTimeout) /\ PingDue(h)
    BY <1>2, <2>1, <2>3, Durations DEF Heartbeat
  <2>4. CASE ~(h.heard >= PeerTimeout) /\ ~PingDue(h)
    BY <1>2, <2>1, <2>4, Durations DEF Heartbeat, PingDue
  <2> QED
    BY <2>2, <2>3, <2>4
<1> QED
  BY <1>1, <1>2

\* Everybody in the backlog is a client that has come.
LEMMA WhoWaits ==
    ASSUME ShapeOK, Came
    PROVE  \A i \in 1..Len(backlog) : backlog[i] \in Clients /\ presence[backlog[i]] # "away"
BY LenProperties, ElementOfSeq DEF ShapeOK, Came

\* A new host has heard of nobody, and nobody has been gone for it yet.
LEMMA AcceptPreserves ==
    ASSUME DInv, Accept
    PROVE  DInv'
<1>1. /\ backlog # <<>> /\ serving' = Head(backlog) /\ backlog' = Tail(backlog)
      /\ host' = NewHost /\ stalled' = 0 /\ missed' = 0 /\ gone' = 0 /\ pings' = <<>>
      /\ UNCHANGED <<presence, inbox>>
  BY DEF Accept
<1>2. /\ Len(backlog) \in Nat \ {0} /\ Head(backlog) = backlog[1]
      /\ Tail(backlog) \in Seq(Clients) /\ Len(Tail(backlog)) = Len(backlog) - 1
      /\ \A i \in 1..Len(Tail(backlog)) : Tail(backlog)[i] = backlog[i + 1]
  BY <1>1, EmptySeq, LenProperties, HeadTailProperties DEF DInv, ShapeOK
<1>3. backlog[1] \in Clients /\ presence[backlog[1]] # "away"
  BY <1>2, WhoWaits DEF DInv
<1>4. NewHost \in Hosts /\ NewHost.phase = "AwaitingHello"
  BY DEF NewHost, Hosts
<1>5. ShapeOK'
  <2>1. pings' \in Seq(0..RoundTrip)
    BY <1>1, EmptySeq
  <2>2. stalled' \in 0..MaxStall /\ missed' \in Nat /\ gone' \in Nat
    BY <1>1, Durations
  <2>3. host' \in Hosts /\ host'.phase = "AwaitingHello"
    BY <1>1, <1>4
  <2> QED
    BY <1>1, <1>2, <1>3, <2>1, <2>2, <2>3 DEF DInv, ShapeOK
<1>6. Came'
  <2>1. \A i \in 1..Len(Tail(backlog)) : presence[Tail(backlog)[i]] # "away"
    <3> SUFFICES ASSUME NEW i \in 1..Len(Tail(backlog)) PROVE presence[Tail(backlog)[i]] # "away"
      OBVIOUS
    <3>1. i + 1 \in 1..Len(backlog)
      BY <1>2
    <3> QED
      BY <1>2, <3>1, WhoWaits DEF DInv
  <2> QED
    BY <1>1, <1>2, <1>3, <2>1 DEF Came
<1>7. SilenceCounted' /\ AnswersRead'
  BY <1>1, <1>4 DEF SilenceCounted, AnswersRead, Served
<1>8. GoneCounted'
  <2>1. \A c \in Clients : Len(inbox[c]) \in 0..MaxInbox
    <3> SUFFICES ASSUME NEW c \in Clients PROVE Len(inbox[c]) \in 0..MaxInbox
      OBVIOUS
    <3>1. inbox[c] \in Seq(Kinds) /\ Len(inbox[c]) <= MaxInbox
      BY DEF DInv, ShapeOK
    <3> QED
      BY <3>1, LenProperties, Durations
  <2>2. 0 <= (MaxInbox - Len(inbox[backlog[1]])) * MaxStall + 0
    BY <1>3, <2>1, Durations
  <2>3. host'.phase # "Established" /\ gone' = 0 /\ stalled' = 0 /\ inbox'[serving'] = inbox[backlog[1]]
    BY <1>1, <1>2, <1>4
  <2> QED
    BY <2>2, <2>3 DEF GoneCounted
<1> QED
  BY <1>5, <1>6, <1>7, <1>8 DEF DInv

\* The connection is dropped; the next one is accepted by a new host.
LEMMA SeeHangupPreserves ==
    ASSUME DInv, SeeHangup
    PROVE  DInv'
<1>1. /\ serving' = Nobody /\ inbox' = [inbox EXCEPT ![serving] = <<>>]
      /\ stalled' = 0 /\ UNCHANGED <<presence, pings, backlog, host, missed, gone>>
  BY DEF SeeHangup
<1>2. /\ inbox' \in [Clients -> Seq(Kinds)]
      /\ \A c \in Clients : inbox'[c] = inbox[c] \/ inbox'[c] = <<>>
  BY <1>1, EmptySeq DEF DInv, ShapeOK
<1>3. \A c \in Clients : Len(inbox'[c]) <= MaxInbox
  BY <1>2, EmptySeq, Durations DEF DInv, ShapeOK
<1>4. ShapeOK'
  BY <1>1, <1>2, <1>3, Durations DEF DInv, ShapeOK
<1>5. Came' /\ SilenceCounted' /\ AnswersRead' /\ GoneCounted'
  BY <1>1 DEF DInv, Came, SilenceCounted, AnswersRead, GoneCounted, Served
<1> QED
  BY <1>4, <1>5 DEF DInv

\* The state a turn that reads a chunk leads to.
LEMMA ReadingTurn ==
    ASSUME DInv, Turn, inbox[serving] # <<>>
    PROVE  /\ inbox' = [inbox EXCEPT ![serving] = Tail(inbox[serving])]
           /\ host' \in Hosts /\ host'.heard = 0 /\ host'.gaveUp = host.gaveUp
           /\ host'.phase = "Established" => host'.pinged # Nobody
           /\ pings' \in Seq(0..RoundTrip) /\ missed' \in Nat
           /\ serving' = IF host'.phase = "Closed" THEN Nobody ELSE serving
<1> DEFINE h == Hear(host, Head(inbox[serving]))
           beat == Heartbeat(h)
<1>1. /\ serving # Nobody /\ inbox' = [inbox EXCEPT ![serving] = Tail(inbox[serving])]
      /\ host' = beat.host /\ pings' = IF beat.ping THEN Append(pings, 0) ELSE pings
      /\ missed' = 0 + (IF beat.ping THEN 1 ELSE 0)
      /\ serving' = IF beat.host.phase = "Closed" THEN Nobody ELSE serving
  BY DEF Turn
<1>2. host \in Hosts /\ serving \in Clients /\ inbox[serving] \in Seq(Kinds)
  BY <1>1 DEF DInv, ShapeOK
<1>3. Head(inbox[serving]) \in Kinds
  BY <1>2, HeadTailProperties
<1>4. h \in Hosts /\ h.heard = 0 /\ h.gaveUp = host.gaveUp
  <2> DEFINE chunk == Head(inbox[serving])
             phase == CASE chunk = "Hello"   -> "Established"
                        [] chunk = "Goodbye" -> "Closed"
                        [] OTHER             -> host.phase
  <2>1. h = [host EXCEPT !.heard = 0, !.phase = phase]
    BY DEF Hear
  <2>2. phase \in {"AwaitingHello", "Established", "Closed"}
    <3>1. host.phase \in {"AwaitingHello", "Established", "Closed"}
      BY <1>2 DEF Hosts
    <3> HIDE DEF chunk
    <3> QED
      BY <3>1
  <2>3. 0 \in 0..PeerTimeout \cup {Nobody}
    BY Durations
  <2> HIDE DEF phase, h
  <2>4. h.heard = 0 /\ h.gaveUp = host.gaveUp /\ h.phase = phase /\ h.pinged = host.pinged
    BY <1>2, <2>1 DEF Hosts
  <2>5. h \in Hosts
    BY <1>2, <2>1, <2>2, <2>3 DEF Hosts
  <2> QED
    BY <2>4, <2>5
<1> HIDE DEF h
<1>5. h.heard # Nobody
  BY <1>4, Durations
<1>6. pings' \in Seq(0..RoundTrip)
  <2>1. pings \in Seq(0..RoundTrip) /\ 0 \in 0..RoundTrip
    BY Durations DEF DInv, ShapeOK
  <2> QED
    BY <1>1, <2>1, AppendProperties
<1>7. missed' \in Nat
  BY <1>1
<1>8. /\ beat.host \in Hosts /\ beat.host.heard = 0 /\ beat.host.gaveUp = host.gaveUp
      /\ beat.host.phase = "Established" => beat.host.pinged # Nobody
  <2>1. CASE h.phase # "Established" /\ Heartbeat(h) = [host |-> h, ping |-> FALSE]
    BY <1>4, <2>1
  <2>2. h.heard # PeerTimeout
    BY <1>4, Durations
  <2>3. CASE Heartbeat(h) = [host |-> [h EXCEPT !.pinged = 0], ping |-> TRUE]
    BY <1>4, <2>3, Durations DEF Hosts
  <2>4. CASE h.pinged \in 0..(PingInterval - 1) /\ Heartbeat(h) = [host |-> h, ping |-> FALSE]
    BY <1>4, <2>4, Durations
  <2> QED
    BY <1>4, <1>5, <2>1, <2>2, <2>3, <2>4, BeatFacts
<1> HIDE DEF beat
<1> QED
  BY <1>1, <1>6, <1>7, <1>8

\* The state a turn that has nothing to read leads to, each way it can go.
LEMMA IdleTurn ==
    ASSUME DInv, Turn, inbox[serving] = <<>>
    PROVE  /\ inbox' = inbox
           /\ \/ host.phase # "Established" /\ UNCHANGED <<host, pings, missed, serving>>
              \/ /\ host.phase = "Established" /\ host.heard = PeerTimeout /\ serving' = Nobody
                 /\ host' = [host EXCEPT !.phase = "Closed", !.gaveUp = TRUE]
                 /\ UNCHANGED <<pings, missed>>
              \/ /\ host.phase = "Established" /\ host.heard \in 0..(PeerTimeout - 1)
                 /\ host' = [host EXCEPT !.pinged = 0]
                 /\ pings' = Append(pings, 0) /\ missed' = missed + 1 /\ serving' = serving
              \/ /\ host.phase = "Established" /\ host.heard \in 0..(PeerTimeout - 1)
                 /\ host.pinged \in 0..(PingInterval - 1)
                 /\ UNCHANGED <<host, pings, missed, serving>>
<1> DEFINE beat == Heartbeat(host)
<1>1. /\ serving # Nobody /\ inbox' = inbox
      /\ host' = beat.host /\ pings' = IF beat.ping THEN Append(pings, 0) ELSE pings
      /\ missed' = missed + (IF beat.ping THEN 1 ELSE 0)
      /\ serving' = IF beat.host.phase = "Closed" THEN Nobody ELSE serving
  BY DEF Turn
<1>2. host \in Hosts /\ (host.phase = "Established" => host.heard # Nobody) /\ missed \in Nat
      /\ host.phase # "Closed"
  BY <1>1 DEF DInv, ShapeOK
<1> HIDE DEF beat
<1>3. CASE host.phase # "Established" /\ beat = [host |-> host, ping |-> FALSE]
  BY <1>1, <1>2, <1>3
<1>4. CASE /\ host.phase = "Established" /\ host.heard = PeerTimeout
           /\ beat = [host |-> [host EXCEPT !.phase = "Closed", !.gaveUp = TRUE], ping |-> FALSE]
  <2>1. beat.host = [host EXCEPT !.phase = "Closed", !.gaveUp = TRUE] /\ beat.ping = FALSE
    BY <1>4
  <2>2. beat.host.phase = "Closed"
    BY <1>2, <2>1 DEF Hosts
  <2> QED
    BY <1>1, <1>2, <1>4, <2>1, <2>2
<1>5. CASE /\ host.phase = "Established" /\ host.heard \in 0..(PeerTimeout - 1)
           /\ beat = [host |-> [host EXCEPT !.pinged = 0], ping |-> TRUE]
  BY <1>1, <1>2, <1>5 DEF Hosts
<1>6. CASE /\ host.phase = "Established" /\ host.heard \in 0..(PeerTimeout - 1)
           /\ host.pinged \in 0..(PingInterval - 1)
           /\ beat = [host |-> host, ping |-> FALSE]
  BY <1>1, <1>2, <1>6
<1> QED
  BY <1>2, <1>3, <1>4, <1>5, <1>6, BeatFacts DEF beat

\* What a sequence that is not empty begins with.
LEMMA FirstOfSeq ==
    ASSUME NEW S, NEW s \in Seq(S), s # <<>>
    PROVE  s[1] \in S
<1>1. Len(s) \in Nat \ {0}
  BY EmptySeq
<1> QED
  BY <1>1, ElementOfSeq

\* A turn that reads a chunk starts the silence anew, and leaves one less to read.
LEMMA ReadingPreserves ==
    ASSUME DInv, Turn, inbox[serving] # <<>>
    PROVE  DInv'
<1>1. /\ serving # Nobody /\ stalled' = 0 /\ UNCHANGED <<presence, backlog, gone>>
  BY DEF Turn
<1>2. /\ inbox' = [inbox EXCEPT ![serving] = Tail(inbox[serving])]
      /\ host' \in Hosts /\ host'.heard = 0
      /\ host'.phase = "Established" => host'.pinged # Nobody
      /\ pings' \in Seq(0..RoundTrip) /\ missed' \in Nat
      /\ serving' = IF host'.phase = "Closed" THEN Nobody ELSE serving
  BY ReadingTurn
<1>3. serving \in Clients /\ inbox[serving] \in Seq(Kinds) /\ Len(inbox[serving]) <= MaxInbox
  BY <1>1 DEF DInv, ShapeOK
<1>4. /\ Tail(inbox[serving]) \in Seq(Kinds) /\ Len(inbox[serving]) \in Nat \ {0}
      /\ Len(Tail(inbox[serving])) = Len(inbox[serving]) - 1
  BY <1>3, EmptySeq, HeadTailProperties
<1>5. /\ inbox' \in [Clients -> Seq(Kinds)]
      /\ \A c \in Clients : inbox'[c] = IF c = serving THEN Tail(inbox[serving]) ELSE inbox[c]
  BY <1>2, <1>3, <1>4 DEF DInv, ShapeOK
<1>6. \A c \in Clients : Len(inbox'[c]) <= MaxInbox
  BY <1>3, <1>4, <1>5, Durations DEF DInv, ShapeOK
<1>7. host'.heard # Nobody /\ stalled' \in 0..MaxStall
  BY <1>1, <1>2, Durations
<1>8. ShapeOK'
  BY <1>1, <1>2, <1>3, <1>5, <1>6, <1>7 DEF DInv, ShapeOK
<1>9. Came'
  BY <1>1, <1>2 DEF DInv, Came
<1>10. Served' => SincePing' \in 0..Period
  <2> SUFFICES ASSUME Served' PROVE SincePing' \in 0..Period
    OBVIOUS
  <2>1. host'.pinged \in 0..PingInterval /\ stalled' = 0
    BY <1>1, <1>2 DEF Hosts, Served
  <2> QED
    BY <2>1, Durations DEF SincePing, Period
<1>11. SilenceCounted'
  <2>1. missed' * Period \in Nat
    <3>1. \A m \in Nat : m * Period \in Nat
      BY Durations
    <3> QED
      BY <1>2, <3>1
  <2> HIDE DEF Period
  <2>2. Period \in Nat
    BY Durations
  <2> QED
    BY <1>2, <1>10, <2>1, <2>2, SMTT(40) DEF SilenceCounted
<1>12. AnswersRead'
  <2> SUFFICES ASSUME Served'
      PROVE IF pings' = <<>> THEN host'.heard <= SincePing' ELSE host'.heard <= pings'[1] + Period
    BY DEF AnswersRead
  <2>1. pings' # <<>> => pings'[1] \in 0..RoundTrip
    <3>1. pings' \in Seq(0..RoundTrip)
      BY <1>2
    <3> QED
      BY <3>1, FirstOfSeq
  <2>2. Period \in Nat
    BY Durations
  <2> QED
    BY <1>2, <1>10, <2>1, <2>2, Durations, SMTT(40)
<1>13. GoneCounted'
  <2> SUFFICES ASSUME serving' = serving PROVE GoneCounted'
    BY <1>2 DEF GoneCounted
  <2> DEFINE n == Len(inbox[serving])
  <2>1. Here(serving)' <=> Here(serving)
    BY <1>1 DEF Here
  <2>2. Here(serving) => gone = 0
    BY <1>1 DEF DInv, GoneCounted
  <2>3. ~Here(serving) => gone <= (MaxInbox - n) * MaxStall + stalled
    BY <1>1 DEF DInv, GoneCounted
  <2>4. inbox'[serving] = Tail(inbox[serving])
    BY <1>3, <1>5
  <2>5. n \in 1..MaxInbox /\ gone \in Nat /\ stalled \in 0..MaxStall /\ Len(Tail(inbox[serving])) = n - 1
    BY <1>3, <1>4, Durations DEF DInv, ShapeOK
  <2> HIDE DEF n
  <2>6. (MaxInbox - (n - 1)) * MaxStall = (MaxInbox - n) * MaxStall + MaxStall
    BY <2>5, Durations
  <2>7. ~Here(serving) => gone <= (MaxInbox - (n - 1)) * MaxStall
    <3>1. (MaxInbox - n) * MaxStall \in Nat
      BY <2>5, Durations
    <3> QED
      BY <2>3, <2>5, <2>6, <3>1, Durations
  <2>8. (MaxInbox - (n - 1)) * MaxStall <= MaxInbox * MaxStall /\ (MaxInbox - (n - 1)) * MaxStall \in Nat
    BY <2>5, Durations
  <2>9. ~Here(serving) => gone <= (MaxInbox - Len(inbox'[serving])) * MaxStall + stalled'
    BY <1>1, <2>4, <2>5, <2>7, <2>8
  <2>10. ~Here(serving) => gone <= MaxInbox * MaxStall + 0 + 0
    <3>1. MaxInbox * MaxStall \in Nat
      BY Durations
    <3> QED
      BY <2>5, <2>7, <2>8, <3>1
  <2>11. ~Here(serving) =>
            gone <= MaxInbox * MaxStall + host'.heard + (IF host'.heard = PeerTimeout THEN stalled' ELSE 0)
    BY <1>1, <1>2, <2>10
  <2> QED
    BY <1>1, <2>1, <2>2, <2>9, <2>11 DEF GoneCounted
<1> QED
  BY <1>8, <1>9, <1>11, <1>12, <1>13 DEF DInv

\* A turn with nothing to read waits, pings, or gives up.
LEMMA IdlePreserves ==
    ASSUME DInv, Turn, inbox[serving] = <<>>
    PROVE  DInv'
<1>1. /\ serving # Nobody /\ stalled' = 0 /\ UNCHANGED <<presence, backlog, gone>>
  BY DEF Turn
<1>2. inbox' = inbox /\ host \in Hosts /\ stalled' \in 0..MaxStall
  BY <1>1, IdleTurn, Durations DEF DInv, ShapeOK
<1>3. serving' = serving => (Here(serving)' <=> Here(serving))
  BY <1>1 DEF Here
<1>4. CASE host.phase # "Established" /\ UNCHANGED <<host, pings, missed, serving>>
  <2>1. ShapeOK'
    BY <1>1, <1>2, <1>4 DEF DInv, ShapeOK
  <2>2. Came' /\ SilenceCounted' /\ AnswersRead'
    BY <1>1, <1>4 DEF DInv, Came, SilenceCounted, AnswersRead, Served
  <2>3. GoneCounted'
    BY <1>1, <1>2, <1>3, <1>4 DEF DInv, GoneCounted
  <2> QED
    BY <2>1, <2>2, <2>3 DEF DInv
<1>5. CASE /\ host.phase = "Established" /\ serving' = Nobody
           /\ host' = [host EXCEPT !.phase = "Closed", !.gaveUp = TRUE] /\ UNCHANGED <<pings, missed>>
  <2>1. host' \in Hosts /\ host'.phase = "Closed"
    BY <1>2, <1>5 DEF Hosts
  <2>2. ShapeOK'
    BY <1>1, <1>2, <1>5, <2>1 DEF DInv, ShapeOK
  <2>3. Came' /\ SilenceCounted' /\ AnswersRead' /\ GoneCounted'
    BY <1>1, <1>5 DEF DInv, Came, SilenceCounted, AnswersRead, GoneCounted, Served
  <2> QED
    BY <2>2, <2>3 DEF DInv
<1>6. CASE /\ host.phase = "Established" /\ host.heard \in 0..(PeerTimeout - 1)
           /\ host' = [host EXCEPT !.pinged = 0]
           /\ pings' = Append(pings, 0) /\ missed' = missed + 1 /\ serving' = serving
  <2>1. /\ host' \in Hosts /\ host'.phase = "Established" /\ host'.heard = host.heard
        /\ host'.pinged = 0
    BY <1>2, <1>6, Durations, SMTT(30) DEF Hosts
  <2>2. /\ pings \in Seq(0..RoundTrip) /\ pings' \in Seq(0..RoundTrip) /\ pings' # <<>>
        /\ IF pings = <<>> THEN pings'[1] = 0 ELSE pings'[1] = pings[1]
    <3>1. pings \in Seq(0..RoundTrip) /\ 0 \in 0..RoundTrip
      BY Durations DEF DInv, ShapeOK
    <3>2. pings' \in Seq(0..RoundTrip) /\ pings' # <<>>
      BY <1>6, <3>1, AppendProperties, ZenonT(60)
    <3>3. pings = <<>> => pings'[1] = 0
      BY <1>6, <3>1, EmptySeq, AppendProperties
    <3>4. pings # <<>> => pings'[1] = pings[1]
      BY <1>6, <3>1, EmptySeq, AppendProperties
    <3> QED
      BY <3>1, <3>2, <3>3, <3>4
  <2>3. ShapeOK'
    <3>1. 0 # Nobody /\ missed' \in Nat
      BY <1>6, Durations, SMTT(40) DEF DInv, ShapeOK
    <3>2. host'.heard # Nobody /\ host'.pinged # Nobody
      BY <1>6, <2>1, <3>1 DEF DInv, ShapeOK
    <3> QED
      BY <1>1, <1>2, <1>6, <2>1, <2>2, <3>1, <3>2 DEF DInv, ShapeOK
  <2>4. Came'
    BY <1>1, <1>6 DEF DInv, Came
  <2>5. SincePing' = 0 /\ SincePing \in 0..Period /\ host.heard \in 0..PeerTimeout
    <3>1. SincePing' = 0
      BY <2>1, Durations DEF SincePing
    <3> QED
      BY <1>6, <3>1, SincePingBounds DEF DInv
  <2>6. SilenceCounted'
    <3>1. host.heard <= missed * Period + SincePing
      BY <1>1, <1>6 DEF DInv, SilenceCounted, Served
    <3>2. missed \in Nat /\ missed * Period \in Nat /\ Period \in Nat
      BY Durations DEF DInv, ShapeOK
    <3>3. (missed + 1) * Period = missed * Period + Period
      BY <3>2
    <3>4. host.heard <= (missed + 1) * Period + 0
      BY <2>5, <3>1, <3>2, <3>3
    <3> QED
      BY <1>6, <2>1, <2>5, <3>4 DEF SilenceCounted
  <2>7. AnswersRead'
    <3> SUFFICES ASSUME Here(serving) PROVE host'.heard <= pings'[1] + Period
      BY <1>3, <1>6, <2>2 DEF AnswersRead
    <3>1. IF pings = <<>> THEN host.heard <= SincePing ELSE host.heard <= pings[1] + Period
      BY <1>1, <1>6 DEF DInv, AnswersRead, Served
    <3>2. Period \in Nat
      BY Durations
    <3> QED
      BY <2>1, <2>2, <2>5, <3>1, <3>2
  <2>8. GoneCounted'
    <3>1. host.heard # PeerTimeout /\ host'.heard # PeerTimeout
      BY <1>6, <2>1, Durations
    <3> QED
      BY <1>1, <1>2, <1>3, <1>6, <2>1, <3>1 DEF DInv, GoneCounted
  <2> QED
    BY <2>3, <2>4, <2>6, <2>7, <2>8 DEF DInv
<1>7. CASE /\ host.phase = "Established" /\ host.heard \in 0..(PeerTimeout - 1)
           /\ host.pinged \in 0..(PingInterval - 1)
           /\ UNCHANGED <<host, pings, missed, serving>>
  <2>1. SincePing' = SincePing
    BY <1>7, Durations DEF SincePing
  <2>2. ShapeOK'
    BY <1>1, <1>2, <1>7 DEF DInv, ShapeOK
  <2>3. Came' /\ SilenceCounted' /\ AnswersRead'
    BY <1>1, <1>2, <1>3, <1>7, <2>1 DEF DInv, Came, SilenceCounted, AnswersRead, Served
  <2>4. GoneCounted'
    <3>1. host.heard # PeerTimeout
      BY <1>7, Durations
    <3> QED
      BY <1>1, <1>2, <1>3, <1>7, <3>1 DEF DInv, GoneCounted
  <2> QED
    BY <2>2, <2>3, <2>4 DEF DInv
<1> QED
  BY <1>4, <1>5, <1>6, <1>7, IdleTurn
-----------------------------------------------------------------------------
(* Time.                                                                   *)

\* A function on the first n numbers is a sequence of length n.
LEMMA ListsAreSeqs ==
    ASSUME NEW S, NEW n \in Nat, NEW f \in [1..n -> S]
    PROVE  f \in Seq(S) /\ Len(f) = n
<1>1. f \in Seq(S)
  BY SeqDef
<1>2. Len(f) \in Nat /\ 1..Len(f) = 1..n
  BY <1>1, LenProperties
<1>3. Len(f) = n
  BY <1>2
<1> QED
  BY <1>1, <1>3

\* What a tick does to an age.
LEMMA OlderFacts ==
    ASSUME NEW cap \in Nat, NEW age \in 0..cap \cup {Nobody}
    PROVE  /\ Older(age, cap) \in 0..cap \cup {Nobody}
           /\ age = Nobody <=> Older(age, cap) = Nobody
           /\ age # Nobody => Older(age, cap) = IF age = cap THEN cap ELSE age + 1
<1>1. CASE age = Nobody
  BY <1>1 DEF Older
<1>2. CASE age # Nobody
  <2>1. age \in 0..cap
    BY <1>2
  <2>2. Older(age, cap) = IF age = cap THEN cap ELSE age + 1
    BY <1>2 DEF Older
  <2>3. Older(age, cap) \in 0..cap
    BY <2>1, <2>2
  <2> QED
    BY <1>2, <2>2, <2>3, Durations
<1> QED
  BY <1>1, <1>2

\* The state a tick leads to.
LEMMA TickFacts ==
    ASSUME DInv, Tick
    PROVE  /\ serving # Nobody /\ stalled < MaxStall /\ stalled' = stalled + 1
           /\ host' \in Hosts /\ host'.phase = host.phase
           /\ host'.heard = Older(host.heard, PeerTimeout)
           /\ host'.pinged = Older(host.pinged, PingInterval)
           /\ pings' \in Seq(0..RoundTrip) /\ (pings' = <<>> <=> pings = <<>>)
           /\ Here(serving) /\ pings # <<>> => pings'[1] = pings[1] + 1 /\ pings[1] \in 0..RoundTrip
           /\ gone' = IF Here(serving) THEN gone ELSE Older(gone, LongGone)
           /\ UNCHANGED <<presence, inbox, backlog, serving, missed>>
<1>1. /\ serving # Nobody /\ stalled < MaxStall /\ stalled' = stalled + 1
      /\ Here(serving) => \A i \in DOMAIN pings : pings[i] < RoundTrip
      /\ host' = [host EXCEPT !.heard = Older(host.heard, PeerTimeout),
                              !.pinged = Older(host.pinged, PingInterval)]
      /\ pings' = [i \in DOMAIN pings |-> Older(pings[i], RoundTrip)]
      /\ gone' = IF Here(serving) THEN gone ELSE Older(gone, LongGone)
      /\ UNCHANGED <<presence, inbox, backlog, serving, missed>>
  BY DEF Tick
<1>2. host \in Hosts /\ pings \in Seq(0..RoundTrip)
  BY DEF DInv, ShapeOK
<1>3. /\ Older(host.heard, PeerTimeout) \in 0..PeerTimeout \cup {Nobody}
      /\ Older(host.pinged, PingInterval) \in 0..PingInterval \cup {Nobody}
  <2>1. host.heard \in 0..PeerTimeout \cup {Nobody} /\ host.pinged \in 0..PingInterval \cup {Nobody}
    BY <1>2 DEF Hosts
  <2>2. PeerTimeout \in Nat /\ PingInterval \in Nat
    BY Durations
  <2> QED
    BY <2>1, <2>2, OlderFacts
<1>4. /\ host' \in Hosts /\ host'.phase = host.phase
      /\ host'.heard = Older(host.heard, PeerTimeout)
      /\ host'.pinged = Older(host.pinged, PingInterval)
  BY <1>1, <1>2, <1>3 DEF Hosts
<1>5. Len(pings) \in Nat /\ DOMAIN pings = 1..Len(pings)
  BY <1>2, LenProperties
<1>6. \A i \in 1..Len(pings) : /\ pings[i] \in 0..RoundTrip /\ pings[i] # Nobody
                              /\ Older(pings[i], RoundTrip) \in 0..RoundTrip
  <2> SUFFICES ASSUME NEW i \in 1..Len(pings)
      PROVE  pings[i] \in 0..RoundTrip /\ pings[i] # Nobody /\ Older(pings[i], RoundTrip) \in 0..RoundTrip
    OBVIOUS
  <2>1. pings[i] \in 0..RoundTrip
    BY <1>2, ElementOfSeq
  <2>2. pings[i] # Nobody /\ RoundTrip \in Nat
    BY <2>1, Durations
  <2> QED
    BY <2>1, <2>2, OlderFacts
<1>7. pings' \in Seq(0..RoundTrip) /\ Len(pings') = Len(pings)
  <2>1. pings' \in [1..Len(pings) -> 0..RoundTrip]
    BY <1>1, <1>5, <1>6
  <2> QED
    BY <1>5, <2>1, ListsAreSeqs
<1>8. pings' = <<>> <=> pings = <<>>
  BY <1>2, <1>7, EmptySeq
<1>9. Here(serving) /\ pings # <<>> => pings'[1] = pings[1] + 1 /\ pings[1] \in 0..RoundTrip
  <2> SUFFICES ASSUME Here(serving), pings # <<>> PROVE pings'[1] = pings[1] + 1 /\ pings[1] \in 0..RoundTrip
    OBVIOUS
  <2>1. 1 \in 1..Len(pings)
    BY <1>2, EmptySeq
  <2>2. pings[1] < RoundTrip /\ pings[1] \in 0..RoundTrip /\ pings[1] # Nobody
    BY <1>1, <1>5, <1>6, <2>1
  <2>3. pings'[1] = Older(pings[1], RoundTrip)
    BY <1>1, <1>5, <2>1
  <2> QED
    BY <2>2, <2>3, Durations DEF Older
<1> QED
  BY <1>1, <1>4, <1>7, <1>8, <1>9

\* A silence that grows by one while one of the parts it is counted against does.
LEMMA OneTickMore ==
    ASSUME NEW f \in Nat, NEW h \in Nat, NEW t \in Nat, NEW before \in Nat, NEW after \in Nat,
           before <= f + h + t, after <= before + 1
    PROVE  /\ after <= f + h + (t + 1)
           /\ after <= f + (h + 1) + t
OBVIOUS

\* Time passes for the silence and for what it is counted against alike.
LEMMA TickPreserves ==
    ASSUME DInv, Tick
    PROVE  DInv'
<1>1. /\ serving # Nobody /\ stalled < MaxStall /\ stalled' = stalled + 1
      /\ host' \in Hosts /\ host'.phase = host.phase
      /\ host'.heard = Older(host.heard, PeerTimeout)
      /\ host'.pinged = Older(host.pinged, PingInterval)
      /\ pings' \in Seq(0..RoundTrip) /\ (pings' = <<>> <=> pings = <<>>)
      /\ Here(serving) /\ pings # <<>> => pings'[1] = pings[1] + 1 /\ pings[1] \in 0..RoundTrip
      /\ gone' = IF Here(serving) THEN gone ELSE Older(gone, LongGone)
      /\ UNCHANGED <<presence, inbox, backlog, serving, missed>>
  BY TickFacts
<1>2. stalled \in 0..MaxStall /\ gone \in Nat /\ host \in Hosts
  BY DEF DInv, ShapeOK
<1>3. gone' \in Nat /\ gone' <= gone + 1 /\ (Here(serving) => gone' = gone)
  BY <1>1, <1>2, Durations DEF Older
<1>4. stalled' \in 0..MaxStall
  BY <1>1, <1>2, Durations
<1>5. /\ host.heard = Nobody <=> host'.heard = Nobody
      /\ host.heard # Nobody => host'.heard = IF host.heard = PeerTimeout THEN PeerTimeout ELSE host.heard + 1
      /\ host.pinged = Nobody <=> host'.pinged = Nobody
      /\ host.pinged # Nobody => host'.pinged = IF host.pinged = PingInterval THEN PingInterval ELSE host.pinged + 1
  <2>1. host.heard \in 0..PeerTimeout \cup {Nobody} /\ host.pinged \in 0..PingInterval \cup {Nobody}
    BY <1>2 DEF Hosts
  <2>2. PeerTimeout \in Nat /\ PingInterval \in Nat
    BY Durations
  <2>3. /\ host.heard = Nobody <=> host'.heard = Nobody
        /\ host.heard # Nobody => host'.heard = IF host.heard = PeerTimeout THEN PeerTimeout ELSE host.heard + 1
    <3>1. host'.heard = Older(host.heard, PeerTimeout)
      BY <1>1
    <3> QED
      BY <2>1, <2>2, <3>1, OlderFacts, ZenonT(60)
  <2>4. /\ host.pinged = Nobody <=> host'.pinged = Nobody
        /\ host.pinged # Nobody => host'.pinged = IF host.pinged = PingInterval THEN PingInterval ELSE host.pinged + 1
    <3>1. host'.pinged = Older(host.pinged, PingInterval)
      BY <1>1
    <3> QED
      BY <2>1, <2>2, <3>1, OlderFacts, ZenonT(60)
  <2> QED
    BY <2>3, <2>4
<1>6. ShapeOK'
  BY <1>1, <1>3, <1>4, <1>5 DEF DInv, ShapeOK
<1>7. Came'
  BY <1>1 DEF DInv, Came
<1>8. Here(serving)' <=> Here(serving)
  BY <1>1 DEF Here
<1>9. host.phase = "Established" =>
          /\ host.heard \in 0..PeerTimeout /\ host'.heard \in 0..PeerTimeout
          /\ SincePing \in 0..Period /\ SincePing' \in Nat /\ SincePing + 1 <= SincePing'
          /\ host'.heard <= host.heard + 1
  <2> SUFFICES ASSUME host.phase = "Established"
      PROVE  /\ host.heard \in 0..PeerTimeout /\ host'.heard \in 0..PeerTimeout
             /\ SincePing \in 0..Period /\ SincePing' \in Nat /\ SincePing + 1 <= SincePing'
             /\ host'.heard <= host.heard + 1
    OBVIOUS
  <2>1. /\ host.heard \in 0..PeerTimeout /\ host.pinged \in 0..PingInterval
        /\ SincePing \in 0..Period
    BY SincePingBounds DEF DInv
  <2>2. host.heard # Nobody /\ host.pinged # Nobody
    BY <2>1, Durations
  <2>3. host'.heard \in 0..PeerTimeout /\ host'.heard <= host.heard + 1
    BY <1>5, <2>1, <2>2, Durations
  <2>4. SincePing' \in Nat /\ SincePing + 1 <= SincePing'
    <3>1. host'.pinged = IF host.pinged = PingInterval THEN PingInterval ELSE host.pinged + 1
      BY <1>5, <2>2
    <3>2. PingInterval \in Nat \ {0} /\ stalled \in Nat
      BY <1>2, Durations
    <3>3. CASE host.pinged < PingInterval - 1
      BY <1>1, <2>1, <3>1, <3>2, <3>3, SMTT(40) DEF SincePing
    <3>4. CASE ~(host.pinged < PingInterval - 1)
      BY <1>1, <2>1, <3>1, <3>2, <3>4 DEF SincePing
    <3> QED
      BY <3>3, <3>4
  <2> QED
    BY <2>1, <2>3, <2>4
<1>10. SilenceCounted'
  <2> SUFFICES ASSUME host.phase = "Established" PROVE host'.heard <= missed * Period + SincePing'
    BY <1>1 DEF SilenceCounted, Served
  <2>1. host.heard <= missed * Period + SincePing
    BY <1>1 DEF DInv, SilenceCounted, Served
  <2>2. missed * Period \in Nat
    BY Durations DEF DInv, ShapeOK
  <2> QED
    BY <1>9, <2>1, <2>2
<1>11. AnswersRead'
  <2> SUFFICES ASSUME host.phase = "Established", Here(serving), inbox[serving] = <<>>
      PROVE  IF pings' = <<>> THEN host'.heard <= SincePing' ELSE host'.heard <= pings'[1] + Period
    BY <1>1, <1>8 DEF AnswersRead, Served
  <2>1. IF pings = <<>> THEN host.heard <= SincePing ELSE host.heard <= pings[1] + Period
    BY <1>1 DEF DInv, AnswersRead, Served
  <2>2. Period \in Nat
    BY Durations
  <2> QED
    <3>1. CASE pings = <<>>
      BY <1>1, <1>9, <2>1, <3>1
    <3>2. CASE pings # <<>>
      <4>1. pings'[1] = pings[1] + 1 /\ pings[1] \in Nat /\ pings' # <<>>
        BY <1>1, <3>2, Durations
      <4> QED
        BY <1>9, <2>1, <2>2, <3>2, <4>1, SMTT(30)
    <3> QED
      BY <3>1, <3>2
<1>12. GoneCounted'
  <2>1. Here(serving) => gone' = 0
    BY <1>1, <1>3 DEF DInv, GoneCounted
  <2>2. ~Here(serving) /\ inbox[serving] # <<>> =>
            gone' <= (MaxInbox - Len(inbox[serving])) * MaxStall + stalled'
    <3>1. serving \in Clients /\ inbox[serving] \in Seq(Kinds) /\ Len(inbox[serving]) <= MaxInbox
      BY <1>1 DEF DInv, ShapeOK
    <3>2. Len(inbox[serving]) \in Nat
      BY <3>1, LenProperties
    <3>3. (MaxInbox - Len(inbox[serving])) * MaxStall \in Nat
      BY <3>1, <3>2, Durations
    <3>4. ~Here(serving) /\ inbox[serving] # <<>> =>
              gone <= (MaxInbox - Len(inbox[serving])) * MaxStall + stalled
      BY <1>1 DEF DInv, GoneCounted
    <3> QED
      BY <1>1, <1>2, <1>3, <3>3, <3>4, SMTT(40)
  <2>3. ~Here(serving) /\ inbox[serving] = <<>> /\ host.phase = "Established" =>
            gone' <= MaxInbox * MaxStall + host'.heard
                        + (IF host'.heard = PeerTimeout THEN stalled' ELSE 0)
    <3> SUFFICES ASSUME ~Here(serving), inbox[serving] = <<>>, host.phase = "Established"
        PROVE  gone' <= MaxInbox * MaxStall + host'.heard
                           + (IF host'.heard = PeerTimeout THEN stalled' ELSE 0)
      OBVIOUS
    <3> DEFINE full == MaxInbox * MaxStall
    <3>1. gone <= full + host.heard + (IF host.heard = PeerTimeout THEN stalled ELSE 0)
      BY <1>1 DEF DInv, GoneCounted
    <3>2. full \in Nat
      BY Durations
    <3>3. host.heard \in Nat /\ stalled \in Nat
      BY <1>2, <1>9, Durations
    <3> HIDE DEF full
    <3>4. CASE host.heard = PeerTimeout
      <4>1. host'.heard = PeerTimeout
        BY <1>5, <1>9, <3>4, Durations
      <4>2. gone <= full + host.heard + stalled
        BY <3>1, <3>4
      <4>3. gone' <= full + host.heard + (stalled + 1)
        BY <1>2, <1>3, <3>2, <3>3, <4>2, OneTickMore
      <4>4. gone' <= full + host'.heard + stalled'
        BY <1>1, <3>4, <4>1, <4>3
      <4> QED
        BY <4>1, <4>4 DEF full
    <3>5. CASE host.heard # PeerTimeout
      <4>1. host'.heard = host.heard + 1
        BY <1>5, <1>9, <3>5, Durations
      <4>2. gone <= full + host.heard + 0
        BY <3>1, <3>5
      <4>3. gone' <= full + (host.heard + 1) + 0
        BY <1>2, <1>3, <3>2, <3>3, <4>2, OneTickMore
      <4>4. gone' <= full + host'.heard
        BY <3>2, <3>3, <4>1, <4>3
      <4>5. host'.heard + stalled' >= host'.heard /\ stalled' \in Nat /\ host'.heard \in Nat /\ gone' \in Nat
        BY <1>3, <1>4, <3>3, <4>1, Durations
      <4>6. gone' <= full + host'.heard + (IF host'.heard = PeerTimeout THEN stalled' ELSE 0)
        BY <3>2, <4>4, <4>5
      <4> QED
        BY <4>6 DEF full
    <3> QED
      BY <3>4, <3>5
  <2> QED
    BY <1>1, <1>8, <2>1, <2>2, <2>3 DEF GoneCounted
<1> QED
  BY <1>6, <1>7, <1>10, <1>11, <1>12 DEF DInv
-----------------------------------------------------------------------------
(* The theorems.                                                           *)

\* The invariant holds at the start.
LEMMA DaemonInitHolds == DaemonInit => DInv
<1> SUFFICES ASSUME DaemonInit PROVE DInv
  OBVIOUS
<1>1. /\ presence = [c \in Clients |-> "away"] /\ inbox = [c \in Clients |-> <<>>]
      /\ pings = <<>> /\ backlog = <<>> /\ serving = Nobody
      /\ host = NewHost /\ stalled = 0 /\ missed = 0 /\ gone = 0
  BY DEF DaemonInit
<1>2. host \in Hosts /\ host.phase = "AwaitingHello"
  BY <1>1 DEF NewHost, Hosts
<1>3. ShapeOK
  <2>1. inbox \in [Clients -> Seq(Kinds)] /\ \A c \in Clients : Len(inbox[c]) <= MaxInbox
    BY <1>1, EmptySeq, Durations
  <2> QED
    BY <1>1, <1>2, <2>1, EmptySeq, Durations DEF ShapeOK
<1>4. Came
  <2>1. Len(backlog) = 0
    BY <1>1, EmptySeq
  <2> QED
    BY <1>1, <2>1 DEF Came
<1> QED
  BY <1>1, <1>3, <1>4 DEF DInv, SilenceCounted, AnswersRead, GoneCounted, Served

\* Every step keeps the invariant.
LEMMA DaemonStepKeeps == DInv /\ [DaemonNext]_daemonVars => DInv'
<1> SUFFICES ASSUME DInv, [DaemonNext]_daemonVars PROVE DInv'
  OBVIOUS
<1>1. CASE ClientStep
  <2>1. PICK c \in Clients :
            Connect(c) \/ Greet(c) \/ Answer(c) \/ SayGoodbye(c) \/ HangUp(c) \/ Vanish(c)
    BY <1>1 DEF ClientStep
  <2> QED
    BY <2>1, ConnectPreserves, SpeakingPreserves, LeavingPreserves
<1>2. CASE Accept
  BY <1>2, AcceptPreserves
<1>3. CASE Turn
  BY <1>3, ReadingPreserves, IdlePreserves
<1>4. CASE SeeHangup
  BY <1>4, SeeHangupPreserves
<1>5. CASE Tick
  BY <1>5, TickPreserves
<1>6. CASE UNCHANGED daemonVars
  <2>1. /\ UNCHANGED <<presence, inbox, pings, backlog, serving>>
        /\ UNCHANGED <<host, stalled, missed, gone>>
    BY <1>6 DEF daemonVars
  <2>2. ShapeOK' /\ Came'
    BY <2>1 DEF DInv, ShapeOK, Came
  <2>3. SilenceCounted' /\ AnswersRead' /\ GoneCounted'
    BY <2>1 DEF DInv, SilenceCounted, AnswersRead, GoneCounted, Served, Here, SincePing
  <2> QED
    BY <2>2, <2>3 DEF DInv
<1> QED
  BY <1>1, <1>2, <1>3, <1>4, <1>5, <1>6 DEF DaemonNext, DaemonStep

(* In every behaviour of the daemon's loop and its clients the silence is  *)
(* accounted for by the pings that were sent into it.                      *)
THEOREM DaemonInvariance == DaemonSteps => []DInv
<1> QED
  BY DaemonInitHolds, DaemonStepKeeps, PTL DEF DaemonSteps

(* The loop of main.rs keeps the types; in particular an established host  *)
(* has heard of its peer, so that heartbeat's get_or_insert never inserts. *)
THEOREM DaemonWellTyped == DaemonSteps => []DaemonTypeOK
<1>1. DInv => DaemonTypeOK
  BY DEF DInv, ShapeOK, Hosts, Kinds, DaemonTypeOK
<1> QED
  BY <1>1, DaemonInvariance, PTL

(* A client that is gone is not served for longer than PEER_TIMEOUT and a  *)
(* turn for each chunk it had written, for all durations and all clients.  *)
THEOREM SlotIsFreedInTime == DaemonSteps => []SlotFreedInTime
<1>1. DInv => SlotFreedInTime
  <2> SUFFICES ASSUME DInv, serving # Nobody, host.phase = "Established" PROVE gone < LongGone
    BY DEF SlotFreedInTime
  <2> DEFINE full == MaxInbox * MaxStall
  <2>1. full \in Nat /\ LongGone = PeerTimeout + full + MaxStall + 1
    BY Durations DEF LongGone
  <2>2. stalled \in 0..MaxStall /\ host.heard \in 0..PeerTimeout /\ gone \in Nat
    BY SincePingBounds DEF DInv, ShapeOK
  <2>3. CASE Here(serving)
    <3>1. gone = 0
      BY <2>3 DEF DInv, GoneCounted
    <3> HIDE DEF full
    <3> QED
      BY <2>1, <3>1, Durations
  <2>4. CASE ~Here(serving) /\ inbox[serving] # <<>>
    <3>1. gone <= (MaxInbox - Len(inbox[serving])) * MaxStall + stalled
      BY <2>4 DEF DInv, GoneCounted
    <3>2. serving \in Clients /\ inbox[serving] \in Seq(Kinds) /\ Len(inbox[serving]) <= MaxInbox
      BY DEF DInv, ShapeOK
    <3>3. Len(inbox[serving]) \in 0..MaxInbox
      BY <3>2, LenProperties, Durations
    <3>4. (MaxInbox - Len(inbox[serving])) * MaxStall \in 0..full
      BY <3>3, Durations
    <3> HIDE DEF full
    <3> QED
      BY <2>1, <2>2, <3>1, <3>4, Durations
  <2>5. CASE ~Here(serving) /\ inbox[serving] = <<>>
    <3>1. gone <= full + host.heard + (IF host.heard = PeerTimeout THEN stalled ELSE 0)
      BY <2>5 DEF DInv, GoneCounted
    <3> HIDE DEF full
    <3> QED
      BY <2>1, <2>2, <3>1, Durations
  <2> QED
    BY <2>3, <2>4, <2>5
<1> QED
  BY <1>1, DaemonInvariance, PTL

(* SourceHost::heartbeat gives up on nobody who is there and answers, if   *)
(* the timeout leaves room for a ping and its answer, and never before as  *)
(* many pings as the timeout has room for went unanswered.                 *)
THEOREM LivePeerIsKept ==
    ASSUME RoomToAnswer
    PROVE  DaemonSteps => LivePeerKept
<1>1. ASSUME DInv, [DaemonNext]_daemonVars, GivesUp
      PROVE  ~Here(serving) /\ missed >= (PeerTimeout - 1) \div (PingInterval + MaxStall - 1)
  <2>1. Turn /\ inbox[serving] = <<>>
    <3>1. host' # host /\ ~host.gaveUp /\ host'.gaveUp
      BY <1>1 DEF GivesUp
    <3>2. ~ClientStep /\ ~SeeHangup /\ ~UNCHANGED daemonVars
      BY <3>1 DEF ClientStep, Connect, Greet, Answer, SayGoodbye, Says, HangUp, Vanish, SeeHangup,
                  daemonVars
    <3>3. ~Accept
      BY <3>1 DEF Accept, NewHost
    <3>4. ~Tick
      <4> SUFFICES ASSUME Tick PROVE FALSE
        OBVIOUS
      <4>1. host' = [host EXCEPT !.heard = Older(host.heard, PeerTimeout),
                                 !.pinged = Older(host.pinged, PingInterval)]
        BY DEF Tick
      <4>2. host \in Hosts
        BY <1>1 DEF DInv, ShapeOK
      <4> QED
        BY <3>1, <4>1, <4>2 DEF Hosts
    <3>5. Turn
      BY <1>1, <3>2, <3>3, <3>4 DEF DaemonNext, DaemonStep
    <3> QED
      BY <1>1, <3>1, <3>5, ReadingTurn
  <2>2. host.phase = "Established" /\ host.heard = PeerTimeout /\ serving # Nobody
    <3>1. host \in Hosts /\ ~host.gaveUp /\ host'.gaveUp
      BY <1>1 DEF DInv, ShapeOK, GivesUp
    <3>2. [host EXCEPT !.pinged = 0].gaveUp = host.gaveUp
      BY <3>1 DEF Hosts
    <3>3. serving # Nobody
      BY <2>1 DEF Turn
    <3> QED
      BY <1>1, <2>1, <3>1, <3>2, <3>3, IdleTurn
  <2>3. SincePing \in 0..Period /\ Period \in Nat \ {0}
    BY <1>1, <2>2, SincePingBounds, Durations DEF DInv
  <2>4. ~Here(serving)
    <3> SUFFICES ASSUME Here(serving) PROVE FALSE
      OBVIOUS
    <3>1. IF pings = <<>> THEN PeerTimeout <= SincePing ELSE PeerTimeout <= pings[1] + Period
      BY <1>1, <2>1, <2>2 DEF DInv, AnswersRead, Served
    <3>2. pings # <<>> => pings[1] \in 0..RoundTrip
      BY <1>1, FirstOfSeq DEF DInv, ShapeOK
    <3>3. Period + RoundTrip < PeerTimeout
      BY RoomToAnswer, Durations DEF RoomToAnswer, Period
    <3> QED
      BY <2>3, <3>1, <3>2, <3>3, Durations
  <2>5. missed >= (PeerTimeout - 1) \div Period
    <3>1. PeerTimeout <= missed * Period + SincePing
      BY <1>1, <2>2 DEF DInv, SilenceCounted, Served
    <3>2. missed \in Nat
      BY <1>1 DEF DInv, ShapeOK
    <3> DEFINE a == PeerTimeout - 1
    <3>3. a \in Nat
      BY Durations
    <3>4. a < missed * Period + Period
      <4>1. missed * Period \in Nat
        BY <2>3, <3>2
      <4> QED
        BY <2>3, <3>1, <4>1, Durations
    <3>5. missed * Period + Period = (missed + 1) * Period
      BY <2>3, <3>2
    <3> HIDE DEF a
    <3>6. \A x, m \in Nat, p \in Nat \ {0} : x < (m + 1) * p => x \div p <= m
      OBVIOUS
    <3>7. a \div Period <= missed /\ a \div Period \in Nat
      BY <2>3, <3>2, <3>3, <3>4, <3>5, <3>6
    <3> QED
      BY <3>2, <3>7 DEF a
  <2> QED
    BY <2>4, <2>5 DEF Period
<1>2. DInv /\ [DaemonNext]_daemonVars =>
          [GivesUp => /\ ~Here(serving)
                      /\ missed >= (PeerTimeout - 1) \div (PingInterval + MaxStall - 1)]_daemonVars
  BY <1>1
<1> QED
  BY <1>2, DaemonInvariance, PTL DEF DaemonSteps, LivePeerKept

-----------------------------------------------------------------------------
(* Wslg.  The inductive invariant.                                         *)

WslgSteps == WslgInit /\ [][WslgNext]_wslgVars

Pieces == [of : Toplevels, ends : BOOLEAN]
WslgTypeOK ==
    /\ time \in Nat /\ launched \in 0..Cardinality(Toplevels)
    /\ open \in SUBSET (1..launched) /\ announced \in SUBSET (1..launched)
    /\ stage \in {"new", "waiting", "established"} /\ snapshot \in SUBSET announced
    /\ nativeId \in [Toplevels -> Nat] /\ log \in Seq(Pieces)
    /\ tail \in [offset : Nat, partial : Seq(Pieces)]
    /\ ledger \in [seen : SUBSET Nat, queue : SUBSET [of : Toplevels, at : Nat]]
    /\ strayed \in BOOLEAN
    /\ given \in [Toplevels -> Toplevels \cup {0}]

\* Each line is of a toplevel and carries the id that is its place in the log.
LogAsWritten ==
    \A i \in 1..Len(log) :
        /\ log[i].ends <=> i % 2 = 0
        /\ log[i].of \in 1..launched /\ nativeId[log[i].of] = (i + 1) \div 2
        /\ i % 2 = 0 => log[i - 1].of = log[i].of

\* The start of a line that a read of n pieces leaves.
Carried(n) == IF n % 2 = 1 THEN <<log[n]>> ELSE <<>>
TailTrue ==
    /\ tail.offset > Len(log) => log = <<>>
    /\ tail.offset <= Len(log) => tail.partial = Carried(tail.offset)
    /\ stage = "new" => announced = {} /\ \A w \in Toplevels : given[w] = 0

(* The windows that are still to be given an id: those to be announced,    *)
(* and until the hello those of the snapshot, whose lines are in the log   *)
(* as long as weston has not been restarted since.                         *)
Due == (open \ announced) \cup (IF stage = "waiting" THEN snapshot ELSE {})
Logged(w) == \E i \in 1..Len(log) : i % 2 = 0 /\ log[i].of = w
SnapshotLogged == stage = "waiting" => \A w \in snapshot : Logged(w)

\* A toplevel has one entry, and its id was seen.
EntriesTrue(l) ==
    /\ l.seen \in SUBSET Nat /\ l.queue \in SUBSET [of : Toplevels, at : Nat]
    /\ \A e \in l.queue : e.of \in 1..launched /\ nativeId[e.of] \in l.seen
    /\ \A e, f \in l.queue : e.of = f.of => e = f

(* The ids of the lines before offset have been seen.  Before one strays,  *)
(* those of the lines after it have not, and every window still to be      *)
(* given an id whose line has been read has its entry.                     *)
ReadIsSeen(l, offset) == \A id \in 1..Len(log) : 2 * id <= offset => id \in l.seen
Unmistaken(l, offset) ==
    /\ \A id \in 1..Len(log) : 2 * id > offset /\ 2 * id <= Len(log) + 1 => id \notin l.seen
    /\ \A i \in 1..Len(log) :
          i <= offset /\ i % 2 = 0 /\ log[i].of \in Due => \E e \in l.queue : e.of = log[i].of

WslgInv ==
    /\ WslgTypeOK /\ LogAsWritten /\ TailTrue /\ EntriesTrue(ledger)
    /\ tail.offset <= Len(log) => ReadIsSeen(ledger, tail.offset)
    /\ ~strayed =>
          /\ PairedRight /\ SnapshotLogged
          /\ tail.offset <= Len(log) => Unmistaken(ledger, tail.offset)

-----------------------------------------------------------------------------
\* The natural numbers are well ordered.
LEMMA NatLess == IsWellFoundedOn({p \in Nat \X Nat : p[1] < p[2]}, Nat)
BY NatLessThanWellFounded DEF OpToRel

\* Halves of numbers, of which SMT knows too little in the midst of sequences.
LEMMA ParitySum == ASSUME NEW a \in Nat, NEW b \in Nat, a % 2 = 0 PROVE (a + b) % 2 = b % 2
OBVIOUS

\* Of an even number.
LEMMA HalfOfEven ==
    ASSUME NEW a \in Nat
    PROVE  a % 2 = 0 => (a + 1) \div 2 = a \div 2 /\ a = 2 * (a \div 2) /\ a \div 2 \in Nat
OBVIOUS

\* Of an odd number.
LEMMA HalfOfOdd ==
    ASSUME NEW a \in Nat PROVE a % 2 # 0 => a = 2 * (a \div 2) + 1 /\ (a + 1) \div 2 = a \div 2 + 1
OBVIOUS

\* A part of one piece.
LEMMA SubSeqOfOne ==
    ASSUME NEW S, NEW s \in Seq(S), NEW i \in 1..Len(s) PROVE SubSeq(s, i, i) = <<s[i]>>
<1>1. i \in Int /\ \A k \in i..i : s[k] \in S
  OBVIOUS
<1>2. /\ SubSeq(s, i, i) \in Seq(S) /\ Len(SubSeq(s, i, i)) = (IF i <= i THEN i - i + 1 ELSE 0)
      /\ \A k \in 1..i - i + 1 : SubSeq(s, i, i)[k] = s[i + k - 1]
  BY <1>1, SubSeqProperties
<1>3. Len(SubSeq(s, i, i)) = 1 /\ SubSeq(s, i, i)[1] = s[i]
  <2>1. 1 \in 1..i - i + 1 /\ i + 1 - 1 = i
    OBVIOUS
  <2> QED
    BY <1>1, <1>2, <2>1
<1> DEFINE t == SubSeq(s, i, i)
           x == s[i]
<1>4. t \in Seq(S) /\ Len(t) = 1 /\ t[1] = x /\ x \in S
  BY <1>1, <1>2, <1>3
<1> HIDE DEF t, x
<1>5. <<x>> \in Seq(S) /\ Len(<<x>>) = 1 /\ <<x>>[1] = x
  BY <1>4
<1>6. \A k \in 1..Len(t) : t[k] = <<x>>[k]
  <2>1. \A k \in 1..Len(t) : k = 1
    BY <1>4
  <2> QED
    BY <1>4, <1>5, <2>1
<1>7. t = <<x>>
  BY <1>4, <1>5, <1>6, SeqEqual
<1> QED
  BY <1>7 DEF t, x

\* Every other piece ends a line: a line begins with the piece before its end.
LEMMA LineStartIs ==
    ASSUME NEW text \in Seq(Pieces), \A j \in 1..Len(text) : text[j].ends <=> j % 2 = 0,
           NEW i \in 1..Len(text) + 1
    PROVE  LineStart(text, i) = IF i % 2 = 0 THEN i - 1 ELSE i
<1> DEFINE S == {0} \cup {j \in 1..i - 1 : text[j].ends}
           m == IF i % 2 = 0 THEN i - 2 ELSE i - 1
<1>0. Len(text) \in Nat /\ i \in Nat /\ \A j \in 1..i - 1 : j \in 1..Len(text) /\ j \in Nat
  OBVIOUS
<1>1. m \in Nat /\ m % 2 = 0 /\ m <= i - 1 /\ m \in S
  <2>1. m \in Nat /\ m % 2 = 0 /\ m <= i - 1
    BY <1>0
  <2>2. m = 0 \/ m \in 1..i - 1
    BY <1>0, <2>1
  <2> QED
    BY <1>0, <2>1, <2>2
<1>2. \A y \in S : y \in Nat /\ y <= m
  <2>1. ASSUME NEW y \in 1..i - 1, text[y].ends PROVE y <= m
    <3>1. y \in Nat /\ y % 2 = 0
      BY <1>0, <2>1
    <3> QED
      BY <1>0, <3>1
  <2> QED
    BY <1>0, <1>1, <2>1
<1>3. LineStart(text, i) = 1 + Max(S)
  BY DEF LineStart
<1> HIDE DEF S, m
<1>4. \E x \in S : \A y \in S : x >= y
  BY <1>1, <1>2
<1>5. Max(S) \in S /\ \A y \in S : Max(S) >= y
  BY <1>4 DEF Max
<1>6. Max(S) = m
  <2>1. Max(S) \in Nat /\ Max(S) <= m /\ Max(S) >= m /\ m \in Nat
    BY <1>1, <1>2, <1>5
  <2> HIDE <1>1, <1>2, <1>5
  <2> QED
    BY <2>1
<1> QED
  BY <1>0, <1>3, <1>6 DEF m

\* The toplevels whose lines end between two places of the log.
NewLines(from, upTo) == {log[i].of : i \in {i \in from + 1..upTo : i % 2 = 0}}

\* Reading resumes where it stopped, or at the start of a log that was replaced.
LEMMA ResumedIs ==
    ASSUME WslgTypeOK, TailTrue
    PROVE  /\ Resumed.offset \in 0..Len(log) /\ Resumed.partial = Carried(Resumed.offset)
           /\ Resumed.offset = IF tail.offset > Len(log) THEN 0 ELSE tail.offset
<1>1. Len(log) \in Nat /\ tail.offset \in Nat
  BY DEF WslgTypeOK
<1>2. CASE tail.offset > Len(log)
  <2>1. Resumed = [offset |-> 0, partial |-> <<>>]
    BY <1>1, <1>2 DEF Resumed
  <2>2. Resumed.offset = 0 /\ Resumed.partial = <<>>
    BY <2>1
  <2> QED
    BY <1>1, <1>2, <2>2 DEF Carried
<1>3. CASE ~(tail.offset > Len(log))
  <2>1. Resumed = tail
    BY <1>1, <1>3 DEF Resumed
  <2> QED
    BY <1>1, <1>3, <2>1 DEF TailTrue
<1> QED
  BY <1>2, <1>3

\* However the log is cut, a poll reads each of its lines whole and carries over
\* the start of the last.
LEMMA PollIs ==
    ASSUME WslgTypeOK, LogAsWritten, TailTrue, NEW upTo \in Ends
    PROVE  /\ upTo \in Resumed.offset..Len(log)
           /\ PollLog(upTo).tail = [offset |-> upTo, partial |-> Carried(upTo)]
           /\ PollLog(upTo).ledger = PushLines(ledger, NewLines(Resumed.offset, upTo))
<1> DEFINE from == Resumed.offset
           rest == Resumed.partial
           more == SubSeq(log, from + 1, upTo)
           text == rest \o more
           base == IF from % 2 = 1 THEN from - 1 ELSE from
<1>0. /\ Len(log) \in Nat /\ from \in 0..Len(log) /\ rest = Carried(from)
      /\ \A i \in 1..Len(log) : log[i] \in Pieces
  BY ResumedIs DEF WslgTypeOK
<1>1. upTo \in from..Len(log)
  BY <1>0 DEF Ends
<1>6. PollLog(upTo) = [tail |-> [offset |-> upTo,
                               partial |-> SubSeq(text, LineStart(text, Len(text) + 1), Len(text))],
                      ledger |-> PushLines(ledger, LinesOf(text))]
  BY DEF PollLog
<1> HIDE DEF from, rest, more, text
<1>2. more \in Seq(Pieces) /\ Len(more) = upTo - from /\ \A j \in 1..upTo - from : more[j] = log[from + j]
  <2>1. \A j \in from + 1..upTo : log[j] \in Pieces
    BY <1>0, <1>1
  <2> QED
    BY <1>0, <1>1, <2>1, SubSeqProperties DEF more
<1>4. base \in Nat /\ base % 2 = 0 /\ base <= from /\ from - base \in {0, 1}
      /\ (from % 2 = 1 => base = from - 1) /\ (from % 2 # 1 => base = from)
  BY <1>0
<1> HIDE DEF base
<1>3. /\ rest \in Seq(Pieces) /\ Len(rest) = from - base
      /\ \A j \in 1..from - base : rest[j] = log[base + j]
  <2>1. CASE from % 2 = 1
    <3>1. from \in 1..Len(log) /\ from - base = 1 /\ base + 1 = from
      BY <1>0, <1>4, <2>1
    <3>2. rest = <<log[from]>> /\ log[from] \in Pieces
      BY <1>0, <2>1, <3>1 DEF Carried
    <3>3. rest \in Seq(Pieces) /\ Len(rest) = 1 /\ rest[1] = log[from]
      BY <3>2
    <3>4. \A j \in 1..1 : j = 1
      OBVIOUS
    <3> QED
      BY <3>1, <3>3, <3>4
  <2>2. CASE from % 2 # 1
    <3>1. rest = <<>> /\ from - base = 0
      BY <1>0, <1>4, <2>2 DEF Carried
    <3> QED
      BY <3>1
  <2> QED
    BY <2>1, <2>2
<1>5. /\ text \in Seq(Pieces) /\ Len(text) = upTo - base
      /\ \A j \in 1..upTo - base : text[j] = log[base + j]
  <2>1. /\ text \in Seq(Pieces) /\ Len(text) = Len(rest) + Len(more)
        /\ \A j \in 1..Len(rest) + Len(more) :
              text[j] = IF j <= Len(rest) THEN rest[j] ELSE more[j - Len(rest)]
    BY <1>2, <1>3, ConcatProperties DEF text
  <2>2. Len(text) = upTo - base
    BY <1>0, <1>1, <1>2, <1>3, <1>4, <2>1
  <2>3. ASSUME NEW j \in 1..upTo - base PROVE text[j] = log[base + j]
    <3>1. CASE j <= from - base
      BY <1>0, <1>1, <1>2, <1>3, <1>4, <2>1, <3>1
    <3>2. CASE ~(j <= from - base)
      <4>1. j - (from - base) \in 1..upTo - from /\ from + (j - (from - base)) = base + j
        BY <1>0, <1>1, <1>4, <3>2
      <4>2. text[j] = more[j - (from - base)]
        BY <1>0, <1>1, <1>2, <1>3, <1>4, <2>1, <3>2
      <4> QED
        BY <1>2, <4>1, <4>2
    <3> QED
      BY <3>1, <3>2
  <2> QED
    BY <2>1, <2>2, <2>3
<1>7. \A j \in 1..Len(text) : text[j].ends <=> j % 2 = 0
  <2>1. ASSUME NEW j \in 1..Len(text) PROVE text[j].ends <=> j % 2 = 0
    <3>1. base + j \in 1..Len(log) /\ text[j] = log[base + j]
      BY <1>0, <1>1, <1>4, <1>5, SMTT(30)
    <3>2. (base + j) % 2 = j % 2
      BY <1>4, ParitySum
    <3> QED
      BY <3>1, <3>2 DEF LogAsWritten
  <2> QED
    BY <2>1
<1>8. SubSeq(text, LineStart(text, Len(text) + 1), Len(text)) = Carried(upTo)
  <2>0. Len(text) \in Nat /\ Len(text) + 1 \in 1..Len(text) + 1 /\ upTo \in Nat /\ upTo = base + Len(text)
    <3>1. upTo \in Nat /\ base \in Nat /\ base <= upTo
      BY <1>0, <1>1, <1>4
    <3>2. Len(text) = upTo - base
      BY <1>5
    <3> QED
      BY <3>1, <3>2
  <2> DEFINE n == Len(text) + 1
  <2>1. LineStart(text, n) = IF n % 2 = 0 THEN n - 1 ELSE n
    <3>1. n \in 1..Len(text) + 1
      BY <2>0
    <3> HIDE DEF n
    <3> QED
      BY <1>5, <1>7, <3>1, LineStartIs
  <2>2. upTo % 2 = Len(text) % 2
    BY <2>0, <1>4, ParitySum
  <2>3. CASE upTo % 2 = 1
    <3>1. Len(text) % 2 = 1 /\ Len(text) >= 1
      BY <2>0, <2>2, <2>3
    <3>2. (Len(text) + 1) % 2 = 0
      BY <2>0, <3>1
    <3>3. LineStart(text, Len(text) + 1) = Len(text)
      BY <2>0, <2>1, <3>2
    <3>4. Len(text) \in 1..upTo - base /\ text[Len(text)] = log[upTo]
      BY <1>4, <1>5, <2>0, <3>1
    <3>6. SubSeq(text, Len(text), Len(text)) = <<text[Len(text)]>>
      <4>1. Len(text) \in 1..Len(text)
        BY <2>0, <3>1
      <4> QED
        BY <1>5, <4>1, SubSeqOfOne
    <3> QED
      BY <2>3, <3>3, <3>4, <3>6 DEF Carried
  <2>4. CASE upTo % 2 # 1
    <3>1. (Len(text) + 1) % 2 # 0
      BY <2>0, <2>2, <2>4
    <3>2. LineStart(text, Len(text) + 1) = Len(text) + 1
      BY <2>1, <3>1
    <3>3. SubSeq(text, Len(text) + 1, Len(text)) = <<>>
      BY <2>0, SubSeqEmpty
    <3> QED
      BY <2>4, <3>2, <3>3 DEF Carried
  <2> QED
    BY <2>3, <2>4
<1>9. LinesOf(text) = NewLines(from, upTo)
  <2>1. ASSUME NEW i \in 1..Len(text), i % 2 = 0
        PROVE  /\ SubSeq(text, LineStart(text, i), i - 1) = <<Piece(text[i].of, FALSE)>>
               /\ base + i \in from + 1..upTo /\ (base + i) % 2 = 0 /\ text[i].of = log[base + i].of
    <3>0. Len(text) \in Nat /\ upTo \in Nat /\ i \in Nat /\ i >= 2 /\ i - 1 \in 1..Len(text)
          /\ i \in 1..Len(text) + 1 /\ i - 1 \in 1..upTo - base /\ i \in 1..upTo - base
      BY <1>0, <1>1, <1>5, <2>1
    <3>1. LineStart(text, i) = i - 1
      BY <1>5, <1>7, <2>1, <3>0, LineStartIs
    <3>2. /\ base + i \in 1..Len(log) /\ base + (i - 1) \in 1..Len(log)
          /\ base + i \in from + 1..upTo /\ (base + i) - 1 = base + (i - 1)
      BY <1>0, <1>1, <1>4, <1>5, <3>0
    <3>8. (base + i) % 2 = 0 /\ (base + (i - 1)) % 2 # 0
      <4>1. i - 1 \in Nat /\ (i - 1) % 2 # 0
        BY <2>1, <3>0
      <4>2. (base + i) % 2 = i % 2 /\ (base + (i - 1)) % 2 = (i - 1) % 2
        BY <1>4, <3>0, <4>1, ParitySum
      <4> QED
        BY <2>1, <4>1, <4>2
    <3>3. text[i] = log[base + i] /\ text[i - 1] = log[base + (i - 1)]
      BY <1>5, <3>0
    <3>4. /\ log[base + (i - 1)].of = log[base + i].of /\ log[base + (i - 1)].ends = FALSE
          /\ log[base + (i - 1)] \in Pieces
      <4>1. log[base + (i - 1)] \in Pieces
        BY <1>0, <3>2
      <4>2. log[(base + i) - 1].of = log[base + i].of
        BY <3>2, <3>8 DEF LogAsWritten
      <4>3. ~log[base + (i - 1)].ends
        BY <3>2, <3>8 DEF LogAsWritten
      <4> QED
        BY <3>2, <4>1, <4>2, <4>3 DEF Pieces
    <3>5. text[i - 1] = Piece(text[i].of, FALSE)
      BY <3>3, <3>4 DEF Piece, Pieces
    <3>7. SubSeq(text, i - 1, i - 1) = <<text[i - 1]>>
      BY <1>5, <3>0, SubSeqOfOne
    <3> QED
      BY <3>1, <3>2, <3>3, <3>5, <3>7, <3>8
  <2>2. DOMAIN text = 1..Len(text)
    BY <1>5
  <2>3. LinesOf(text) = {text[i].of : i \in {i \in 1..Len(text) : i % 2 = 0}}
    BY <1>7, <2>1, <2>2 DEF LinesOf
  <2>4. ASSUME NEW k \in from + 1..upTo, k % 2 = 0
        PROVE  k - base \in 1..Len(text) /\ (k - base) % 2 = 0 /\ text[k - base].of = log[k].of
    <3>1. k - base \in 1..upTo - base /\ k - base \in Nat /\ base + (k - base) = k
      BY <1>0, <1>1, <1>4
    <3>2. (base + (k - base)) % 2 = (k - base) % 2
      BY <1>4, <3>1, ParitySum
    <3> QED
      BY <1>5, <2>4, <3>1, <3>2
  <2>5. \A i \in 1..Len(text) : i % 2 = 0 =>
           base + i \in from + 1..upTo /\ (base + i) % 2 = 0 /\ text[i].of = log[base + i].of
    BY <2>1
  <2>6. LinesOf(text) \subseteq NewLines(from, upTo)
    BY <2>3, <2>5 DEF NewLines
  <2>7. NewLines(from, upTo) \subseteq LinesOf(text)
    BY <2>3, <2>4 DEF NewLines
  <2> QED
    BY <2>6, <2>7
<1>10. /\ PollLog(upTo).tail = [offset |-> upTo, partial |-> Carried(upTo)]
       /\ PollLog(upTo).ledger = PushLines(ledger, NewLines(from, upTo))
  <2> DEFINE p == PollLog(upTo)
             t == [offset |-> upTo, partial |-> Carried(upTo)]
             l == PushLines(ledger, NewLines(from, upTo))
  <2>1. p = [tail |-> t, ledger |-> l]
    BY <1>6, <1>8, <1>9
  <2> HIDE DEF p, t, l
  <2>2. p.tail = t /\ p.ledger = l
    BY <2>1
  <2> QED
    BY <2>2 DEF p, t, l
<1> QED
  BY <1>1, <1>10 DEF from

-----------------------------------------------------------------------------
(* What a poll leaves in the ledger.                                       *)

\* A finished line is of the id that is half its place.
LEMMA LineIs ==
    ASSUME WslgTypeOK, LogAsWritten, NEW i \in 1..Len(log), i % 2 = 0
    PROVE  /\ log[i].of \in 1..launched /\ log[i].of \in Toplevels
           /\ nativeId[log[i].of] \in 1..Len(log) /\ i = 2 * nativeId[log[i].of]
<1>1. Len(log) \in Nat /\ i \in Nat /\ launched \in 0..Cardinality(Toplevels)
  BY DEF WslgTypeOK
<1>2. log[i].of \in 1..launched /\ nativeId[log[i].of] = (i + 1) \div 2
  BY DEF LogAsWritten
<1>3. (i + 1) \div 2 = i \div 2 /\ i = 2 * (i \div 2) /\ i \div 2 \in Nat
  BY <1>1, HalfOfEven
<1>4. log[i].of \in Toplevels
  BY <1>1, <1>2, WslgAssumption
<1> QED
  BY <1>1, <1>2, <1>3, <1>4

\* Polled, the ledger knows what the log says up to there.
LEMMA PollTrue ==
    ASSUME WslgInv, NEW upTo \in Ends
    PROVE  LET p == PollLog(upTo).ledger
           IN  /\ EntriesTrue(p) /\ ReadIsSeen(p, upTo)
               /\ ~strayed => Unmistaken(p, upTo)
<1> DEFINE from == Resumed.offset
           lines == NewLines(from, upTo)
           p == PollLog(upTo).ledger
<1>0. WslgTypeOK /\ LogAsWritten /\ TailTrue /\ EntriesTrue(ledger)
  BY DEF WslgInv
<1>1. /\ Len(log) \in Nat /\ from \in 0..Len(log) /\ upTo \in from..Len(log) /\ upTo \in Nat
      /\ from = tail.offset \/ (tail.offset > Len(log) /\ from = 0)
  <2>1. from \in 0..Len(log) /\ from = IF tail.offset > Len(log) THEN 0 ELSE tail.offset
    BY <1>0, ResumedIs
  <2>2. upTo \in from..Len(log)
    BY <1>0, PollIs
  <2>3. Len(log) \in Nat /\ tail.offset \in Nat
    BY <1>0 DEF WslgTypeOK
  <2> HIDE DEF from, lines, p
  <2> QED
    BY <2>1, <2>2, <2>3
<1>2. p = PushLines(ledger, lines)
  BY <1>0, PollIs
<1>3. \A w \in lines : \E i \in 1..Len(log) :
         /\ from < i /\ i <= upTo /\ i % 2 = 0 /\ w = log[i].of
         /\ w \in 1..launched /\ w \in Toplevels /\ nativeId[w] \in 1..Len(log) /\ i = 2 * nativeId[w]
  <2>1. ASSUME NEW w \in lines
        PROVE  \E i \in 1..Len(log) : from < i /\ i <= upTo /\ i % 2 = 0 /\ w = log[i].of
    <3>1. PICK i \in {j \in from + 1..upTo : j % 2 = 0} : w = log[i].of
      BY DEF NewLines
    <3> HIDE DEF from
    <3> QED
      BY <1>1, <3>1
  <2> HIDE DEF lines, from
  <2> QED
    BY <1>0, <2>1, LineIs
<1>3a. \A i \in 1..Len(log) : from < i /\ i <= upTo /\ i % 2 = 0 => log[i].of \in lines
  <2>1. ASSUME NEW i \in 1..Len(log), from < i, i <= upTo, i % 2 = 0 PROVE i \in from + 1..upTo
    <3> HIDE DEF from
    <3> QED
      BY <1>1, <2>1
  <2> QED
    BY <2>1 DEF NewLines
<1> DEFINE new == {w \in lines : nativeId[w] \notin ledger.seen
                                 /\ \A v \in lines : nativeId[v] = nativeId[w] => w <= v}
           seen == ledger.seen \cup {nativeId[w] : w \in lines}
           queue == ledger.queue \cup {[of |-> w, at |-> time] : w \in new}
<1>4. p.seen = seen /\ p.queue = queue
  <2>1. p = [seen |-> seen, queue |-> queue]
    BY <1>2 DEF PushLines
  <2> HIDE DEF p, seen, queue
  <2> QED
    BY <2>1
<1> HIDE DEF p, from, lines
<1>5. new \subseteq lines /\ \A w \in new : nativeId[w] \notin ledger.seen
  OBVIOUS
<1>6. \A e \in queue : e \in ledger.queue \/ (e.of \in new /\ e.at = time /\ e = [of |-> e.of, at |-> time])
  OBVIOUS
<1>7. \A w \in new : [of |-> w, at |-> time] \in queue
  OBVIOUS
<1>8. ledger.queue \subseteq queue /\ ledger.seen \subseteq seen /\ \A w \in lines : nativeId[w] \in seen
  OBVIOUS
<1>8a. \A id \in seen : id \in ledger.seen \/ \E w \in lines : id = nativeId[w]
  OBVIOUS
<1>8b. \A w \in lines :
          nativeId[w] \notin ledger.seen /\ (\A v \in lines : nativeId[v] = nativeId[w] => w <= v) => w \in new
  OBVIOUS
<1> HIDE DEF new, seen, queue
<1>9. EntriesTrue(p)
  <2>1. seen \in SUBSET Nat
    <3>1. ledger.seen \in SUBSET Nat
      BY <1>0 DEF EntriesTrue
    <3>2. \A w \in lines : nativeId[w] \in Nat
      BY <1>1, <1>3
    <3> QED
      BY <1>8a, <3>1, <3>2
  <2>2. ASSUME NEW e \in queue
        PROVE  e \in [of : Toplevels, at : Nat] /\ e.of \in 1..launched /\ nativeId[e.of] \in seen
    <3>1. CASE e \in ledger.queue
      BY <1>0, <1>8, <3>1 DEF EntriesTrue
    <3>2. CASE e \notin ledger.queue
      <4>1. e.of \in lines /\ e = [of |-> e.of, at |-> time] /\ time \in Nat
        BY <1>0, <1>5, <1>6, <3>2 DEF WslgTypeOK
      <4>2. e.of \in 1..launched /\ e.of \in Toplevels
        BY <1>3, <4>1
      <4> QED
        BY <1>8, <4>1, <4>2
    <3> QED
      BY <3>1, <3>2
  <2>3. ASSUME NEW e \in queue, NEW f \in queue, e.of = f.of PROVE e = f
    <3>1. \A g \in ledger.queue : nativeId[g.of] \in ledger.seen
      BY <1>0 DEF EntriesTrue
    <3>2. \A g \in queue : g \in ledger.queue \/ nativeId[g.of] \notin ledger.seen
      BY <1>5, <1>6
    <3>3. CASE e \in ledger.queue /\ f \in ledger.queue
      BY <1>0, <2>3, <3>3 DEF EntriesTrue
    <3>4. CASE e \notin ledger.queue /\ f \notin ledger.queue
      <4>1. e = [of |-> e.of, at |-> time] /\ f = [of |-> f.of, at |-> time]
        BY <1>6, <3>4
      <4> QED
        BY <2>3, <4>1
    <3> QED
      BY <2>3, <3>1, <3>2, <3>3, <3>4
  <2> QED
    BY <1>4, <2>1, <2>2, <2>3 DEF EntriesTrue
<1>10. ReadIsSeen(p, upTo)
  <2> SUFFICES ASSUME NEW id \in 1..Len(log), 2 * id <= upTo PROVE id \in seen
    BY <1>4 DEF ReadIsSeen
  <2>1. CASE 2 * id <= from
    <3>1. id \in Nat /\ id >= 1 /\ from > 0
      BY <1>1, <2>1
    <3>2. from = tail.offset /\ tail.offset <= Len(log)
      BY <1>1, <3>1
    <3>3. ReadIsSeen(ledger, tail.offset)
      BY <3>2 DEF WslgInv
    <3> QED
      BY <1>8, <2>1, <3>2, <3>3 DEF ReadIsSeen
  <2>2. CASE 2 * id > from
    <3> DEFINE i == 2 * id
    <3>1. i \in 1..Len(log) /\ from < i /\ i <= upTo /\ i % 2 = 0 /\ id \in Nat
      BY <1>1, <2>2
    <3>2. log[i].of \in lines /\ i = 2 * nativeId[log[i].of] /\ nativeId[log[i].of] \in 1..Len(log)
      <4> HIDE DEF i
      <4> QED
        BY <1>0, <1>3a, <3>1, LineIs
    <3>3. nativeId[log[i].of] = id
      BY <1>1, <3>1, <3>2
    <3> QED
      BY <1>8, <3>2, <3>3
  <2>3. 2 * id \in Int /\ from \in Int
    BY <1>1
  <2> QED
    BY <2>1, <2>2, <2>3
<1>11. ASSUME ~strayed PROVE Unmistaken(p, upTo)
  <2>0. tail.offset <= Len(log) => Unmistaken(ledger, tail.offset)
    BY <1>11 DEF WslgInv
  <2>1. tail.offset > Len(log) => Len(log) = 0
    <3>1. <<>> = log => Len(log) = 0
      OBVIOUS
    <3> QED
      BY <1>0, <3>1 DEF TailTrue
  <2>2. Unmistaken(ledger, from)
    <3>1. tail.offset \in Nat
      BY <1>0 DEF WslgTypeOK
    <3>2. CASE tail.offset <= Len(log)
      BY <1>1, <2>0, <3>1, <3>2
    <3>3. CASE tail.offset > Len(log)
      <4>1. 1..Len(log) = {}
        BY <2>1, <3>3
      <4> QED
        BY <4>1 DEF Unmistaken
    <3> QED
      BY <1>1, <3>1, <3>2, <3>3
  <2>3. ASSUME NEW id \in 1..Len(log), 2 * id > upTo, 2 * id <= Len(log) + 1 PROVE id \notin seen
    <3>1. 2 * id > from
      BY <1>1, <2>3
    <3>2. id \notin ledger.seen
      BY <2>2, <2>3, <3>1 DEF Unmistaken
    <3>3. ASSUME NEW w \in lines PROVE id # nativeId[w]
      <4>1. PICK i \in 1..Len(log) : i <= upTo /\ i = 2 * nativeId[w] /\ nativeId[w] \in 1..Len(log)
        BY <1>3
      <4> QED
        BY <1>1, <2>3, <4>1
    <3> QED
      BY <1>8a, <3>2, <3>3
  <2>4. ASSUME NEW i \in 1..Len(log), i <= upTo, i % 2 = 0, log[i].of \in Due
        PROVE  \E e \in queue : e.of = log[i].of
    <3>1. CASE i <= from
      <4>1. \E e \in ledger.queue : e.of = log[i].of
        BY <2>2, <2>4, <3>1 DEF Unmistaken
      <4> QED
        BY <1>8, <4>1
    <3>2. CASE i > from
      <4> DEFINE w == log[i].of
      <4>1. w \in lines /\ nativeId[w] \in 1..Len(log) /\ i = 2 * nativeId[w] /\ w \in Toplevels
        BY <1>0, <1>1, <1>3a, <2>4, <3>2, LineIs
      <4>2. 2 * nativeId[w] > from /\ 2 * nativeId[w] <= Len(log) + 1
        BY <1>1, <3>2, <4>1
      <4>3. nativeId[w] \notin ledger.seen
        BY <2>2, <4>1, <4>2 DEF Unmistaken
      <4>4. ASSUME NEW v \in lines, nativeId[v] = nativeId[w] PROVE v = w
        <5>1. PICK j \in 1..Len(log) : v = log[j].of /\ j = 2 * nativeId[v]
          BY <1>3
        <5> QED
          BY <4>1, <4>4, <5>1
      <4>5. w \in Nat
        BY <4>1, WslgAssumption
      <4>6. w \in new
        <5>1. \A v \in lines : nativeId[v] = nativeId[w] => w <= v
          <6> HIDE DEF w
          <6> QED
            BY <4>4, <4>5
        <5> QED
          BY <1>8b, <4>1, <4>3, <5>1
      <4>7. [of |-> w, at |-> time] \in queue
        BY <1>7, <4>6
      <4> QED
        BY <4>7
    <3> QED
      BY <1>1, <3>1, <3>2
  <2> QED
    BY <1>4, <2>3, <2>4 DEF Unmistaken
<1> QED
  BY <1>9, <1>10, <1>11 DEF p

-----------------------------------------------------------------------------
(* Preservation.                                                           *)

Ledgers == [seen : SUBSET Nat, queue : SUBSET [of : Toplevels, at : Nat]]

\* What an announcement after a poll has to see to.
LEMMA PollKeeps ==
    ASSUME WslgInv, NEW upTo \in Ends, tail' = PollLog(upTo).tail,
           UNCHANGED <<time, launched, open, nativeId, log, snapshot>>,
           stage # "new", stage' \in {stage, "established"},
           announced' \in SUBSET (1..launched), announced \subseteq announced',
           ledger' \in Ledgers, given' \in [Toplevels -> Toplevels \cup {0}], strayed' \in BOOLEAN,
           ledger'.seen = PollLog(upTo).ledger.seen, ledger'.queue \subseteq PollLog(upTo).ledger.queue,
           strayed => strayed',
           ~strayed' =>
              /\ \A w \in announced' : given'[w] \in {0, w}
              /\ \A e \in PollLog(upTo).ledger.queue : e.of \in Due' => e \in ledger'.queue
    PROVE  WslgInv'
<1> DEFINE p == PollLog(upTo).ledger
<1>0. WslgTypeOK /\ LogAsWritten /\ TailTrue
  BY DEF WslgInv
<1>1. EntriesTrue(p) /\ ReadIsSeen(p, upTo) /\ (~strayed => Unmistaken(p, upTo))
  BY PollTrue
<1>2. /\ upTo \in Nat /\ upTo <= Len(log) /\ Len(log) \in Nat
      /\ tail' = [offset |-> upTo, partial |-> Carried(upTo)]
  <2>1. upTo \in Resumed.offset..Len(log) /\ tail' = [offset |-> upTo, partial |-> Carried(upTo)]
    BY <1>0, PollIs
  <2>2. Len(log) \in Nat /\ Resumed.offset \in 0..Len(log)
    BY <1>0, ResumedIs DEF WslgTypeOK
  <2> QED
    BY <2>1, <2>2
<1> HIDE DEF p
<1>3. ledger'.seen = p.seen /\ ledger'.queue \subseteq p.queue
  BY DEF p
<1>4. tail'.offset = upTo /\ tail'.partial = Carried(upTo)
  BY <1>2
<1>5. Carried(upTo) \in Seq(Pieces)
  <2>1. upTo % 2 = 1 => upTo \in 1..Len(log)
    BY <1>2
  <2>2. upTo % 2 = 1 => log[upTo] \in Pieces
    BY <1>0, <2>1 DEF WslgTypeOK
  <2> QED
    BY <2>2 DEF Carried
<1>6. WslgTypeOK'
  <2>1. tail' \in [offset : Nat, partial : Seq(Pieces)]
    BY <1>2, <1>5
  <2> QED
    BY <1>0, <2>1 DEF WslgTypeOK, Ledgers
<1>7. LogAsWritten'
  BY <1>0 DEF LogAsWritten
<1>8. TailTrue'
  <2>1. Carried(upTo) = IF upTo % 2 = 1 THEN <<log'[upTo]>> ELSE <<>>
    BY DEF Carried
  <2> QED
    BY <1>2, <1>4, <2>1 DEF TailTrue, Carried
<1>9. EntriesTrue(ledger)'
  BY <1>1, <1>3 DEF EntriesTrue
<1>10. ReadIsSeen(ledger, tail.offset)'
  BY <1>1, <1>3, <1>4 DEF ReadIsSeen
<1>11. ASSUME ~strayed' PROVE PairedRight' /\ SnapshotLogged' /\ Unmistaken(ledger, tail.offset)'
  <2>1. Unmistaken(p, upTo)
    BY <1>1, <1>11
  <2>2. \A e \in p.queue : e.of \in Due' => e \in ledger'.queue
    BY <1>11 DEF p
  <2>5. Due' \subseteq Due
    BY DEF Due
  <2>6. SnapshotLogged'
    BY <1>11 DEF WslgInv, SnapshotLogged, Logged
  <2>3. \A id \in 1..Len(log) : 2 * id > upTo /\ 2 * id <= Len(log) + 1 => id \notin ledger'.seen
    BY <1>3, <2>1 DEF Unmistaken
  <2>4. ASSUME NEW i \in 1..Len(log), i <= upTo, i % 2 = 0, log[i].of \in Due'
        PROVE  \E e \in ledger'.queue : e.of = log[i].of
    <3>1. log[i].of \in Due
      BY <2>4, <2>5
    <3>2. PICK e \in p.queue : e.of = log[i].of
      BY <2>1, <2>4, <3>1 DEF Unmistaken
    <3> QED
      BY <2>2, <2>4, <3>2
  <2> QED
    BY <1>4, <1>11, <2>3, <2>4, <2>6 DEF Unmistaken, PairedRight
<1> QED
  BY <1>6, <1>7, <1>8, <1>9, <1>10, <1>11 DEF WslgInv

\* An id is taken from the ledger or there is none to take.
LEMMA TakenIs ==
    ASSUME NEW l \in Ledgers, NEW candidates \in SUBSET l.queue
    PROVE  \/ /\ candidates = {} /\ TakeEntry(l, candidates).ledger = l /\ TakeEntry(l, candidates).given = 0
           \/ \E first \in candidates :
                 /\ \A e \in candidates : first.of <= e.of
                 /\ TakeEntry(l, candidates).ledger = [seen |-> l.seen, queue |-> l.queue \ {first}]
                 /\ TakeEntry(l, candidates).given = first.of
<1>1. CASE candidates = {}
  <2>1. TakeEntry(l, candidates) = [ledger |-> l, given |-> 0]
    BY <1>1 DEF TakeEntry
  <2> QED
    BY <1>1, <2>1
<1>2. CASE candidates # {}
  <2>1. \A e \in candidates : e.of \in Nat
    BY WslgAssumption DEF Ledgers
  <2>2. PICK n \in {e.of : e \in candidates} : \A m \in {e.of : e \in candidates} :
            <<m, n>> \notin {q \in Nat \X Nat : q[1] < q[2]}
    <3>1. {e.of : e \in candidates} \subseteq Nat /\ {e.of : e \in candidates} # {}
      BY <1>2, <2>1
    <3> QED
      BY <3>1, NatLess, WFMin
  <2>3. \A e \in candidates : ~(e.of < n)
    BY <2>1, <2>2
  <2>4. \E e \in candidates : \A f \in candidates : e.of <= f.of
    <3>1. PICK e \in candidates : n = e.of
      OBVIOUS
    <3>2. \A f \in candidates : e.of <= f.of
      BY <2>1, <2>3, <3>1
    <3> QED
      BY <3>2
  <2> DEFINE first == CHOOSE e \in candidates : \A f \in candidates : e.of <= f.of
  <2>5. first \in candidates /\ \A e \in candidates : first.of <= e.of
    BY <2>4
  <2>6. TakeEntry(l, candidates) = [ledger |-> [l EXCEPT !.queue = @ \ {first}], given |-> first.of]
    BY <1>2 DEF TakeEntry
  <2> HIDE DEF first
  <2>7. [l EXCEPT !.queue = @ \ {first}] = [seen |-> l.seen, queue |-> l.queue \ {first}]
    BY DEF Ledgers
  <2> DEFINE t == TakeEntry(l, candidates)
             rest == [seen |-> l.seen, queue |-> l.queue \ {first}]
  <2>8. t = [ledger |-> rest, given |-> first.of]
    BY <2>6, <2>7
  <2>9. t.ledger = rest /\ t.given = first.of
    <3> HIDE DEF t, rest
    <3> QED
      BY <2>8
  <2> QED
    BY <2>5, <2>9
<1> QED
  BY <1>1, <1>2

\* The finished lines of what was read.
LEMMA LinesAre ==
    ASSUME WslgTypeOK, LogAsWritten, NEW upTo \in 0..Len(log), NEW w \in Toplevels
    PROVE  w \in Lines(upTo) <=> \E i \in 1..Len(log) : i <= upTo /\ i % 2 = 0 /\ log[i].of = w
<1> DEFINE r == SubSeq(log, 1, upTo)
           piece == Piece(w, TRUE)
<1>1. upTo \in Nat /\ upTo <= Len(log) /\ Len(log) \in Nat /\ \A i \in 1..Len(log) : log[i] \in Pieces
  BY DEF WslgTypeOK
<1>2. r \in Seq(Pieces) /\ Len(r) = upTo /\ \A i \in 1..upTo : r[i] = log[i]
  <2>1. \A i \in 1..upTo : log[i] \in Pieces
    BY <1>1
  <2>2. /\ r \in Seq(Pieces) /\ Len(r) = IF 1 <= upTo THEN upTo - 1 + 1 ELSE 0
        /\ \A i \in 1..upTo - 1 + 1 : r[i] = log[1 + i - 1]
    BY <1>1, <2>1, SubSeqProperties
  <2>3. \A i \in 1..upTo : i \in 1..upTo - 1 + 1 /\ 1 + i - 1 = i
    BY <1>1
  <2>4. (IF 1 <= upTo THEN upTo - 1 + 1 ELSE 0) = upTo
    BY <1>1
  <2> QED
    BY <2>2, <2>3, <2>4
<1>3. w \in Lines(upTo) <=> piece \in ToSet(r)
  BY DEF Lines
<1>4. piece.of = w /\ piece.ends = TRUE /\ \A x \in Pieces : x = piece <=> x.of = w /\ x.ends
  BY DEF Piece, Pieces
<1> HIDE DEF r, piece
<1>5. piece \in ToSet(r) <=> \E i \in 1..upTo : log[i] = piece
  BY <1>1, <1>2 DEF ToSet
<1>6. \A i \in 1..upTo : log[i] = piece <=> i % 2 = 0 /\ log[i].of = w
  <2>1. ASSUME NEW i \in 1..upTo PROVE log[i] \in Pieces /\ (log[i].ends <=> i % 2 = 0)
    <3>1. i \in 1..Len(log)
      BY <1>1
    <3>2. log[i].ends <=> i % 2 = 0
      BY <3>1, Zenon DEF LogAsWritten
    <3> QED
      BY <1>1, <3>1, <3>2
  <2> QED
    BY <1>4, <2>1
<1> QED
  BY <1>1, <1>3, <1>5, <1>6

\* What is read, is read up to a place in the log.
LEMMA EndsAre ==
    ASSUME WslgInv, NEW upTo \in Ends
    PROVE  WslgTypeOK /\ LogAsWritten /\ Len(log) \in Nat /\ upTo \in 0..Len(log)
<1>1. WslgTypeOK /\ LogAsWritten /\ TailTrue
  BY DEF WslgInv
<1>2. upTo \in Resumed.offset..Len(log)
  BY <1>1, PollIs
<1>3. Len(log) \in Nat /\ Resumed.offset \in 0..Len(log)
  BY <1>1, ResumedIs DEF WslgTypeOK
<1> QED
  BY <1>1, <1>2, <1>3

\* A window that is due has its entry once its finished line is read.
LEMMA DueHasEntry ==
    ASSUME WslgInv, ~strayed, NEW upTo \in Ends, NEW w \in Toplevels, w \in Due, w \in Lines(upTo)
    PROVE  \E e \in PollLog(upTo).ledger.queue : e.of = w
<1>1. Unmistaken(PollLog(upTo).ledger, upTo)
  BY PollTrue
<1>2. PICK i \in 1..Len(log) : i <= upTo /\ i % 2 = 0 /\ log[i].of = w
  BY EndsAre, LinesAre
<1> QED
  BY <1>1, <1>2 DEF Unmistaken

\* A window that is found has its finished line in what was read.
LEMMA FoundFacts ==
    ASSUME WslgInv, NEW upTo \in Ends, NEW found, Announceable(found, upTo)
    PROVE  /\ found \subseteq open \ announced /\ found \subseteq Toplevels
           /\ ~strayed => \A w \in found : \E e \in PollLog(upTo).ledger.queue : e.of = w
<1>1. WslgTypeOK
  BY DEF WslgInv
<1>2. found \subseteq open \ announced /\ found \subseteq Lines(upTo)
  BY DEF Announceable
<1>3. found \subseteq Toplevels
  <2>1. 1..launched \subseteq Toplevels
    BY <1>1, WslgAssumption DEF WslgTypeOK
  <2> QED
    BY <1>1, <1>2, <2>1 DEF WslgTypeOK
<1>4. found \subseteq Due
  BY <1>2 DEF Due
<1> QED
  BY <1>2, <1>3, <1>4, DueHasEntry

\* A window of the snapshot has its finished line in what is read at the hello.
LEMMA SnapshotFacts ==
    ASSUME WslgInv, NEW upTo \in Ends, stage = "waiting", Reads(upTo, snapshot)
    PROVE  /\ snapshot \subseteq Toplevels /\ snapshot \subseteq announced
           /\ ~strayed => \A w \in snapshot : \E e \in PollLog(upTo).ledger.queue : e.of = w
<1>1. WslgTypeOK /\ LogAsWritten /\ Len(log) \in Nat /\ Len(log) \in 0..Len(log)
  BY EndsAre
<1>2. snapshot \subseteq announced /\ snapshot \subseteq Toplevels /\ snapshot \subseteq Due
  <2>1. 1..launched \subseteq Toplevels
    BY <1>1, WslgAssumption DEF WslgTypeOK
  <2>2. snapshot \subseteq Due
    BY DEF Due
  <2> QED
    BY <1>1, <2>1, <2>2 DEF WslgTypeOK
<1>3. ASSUME ~strayed, NEW w \in snapshot PROVE \E e \in PollLog(upTo).ledger.queue : e.of = w
  <2>1. PICK i \in 1..Len(log) : i % 2 = 0 /\ log[i].of = w
    BY <1>3 DEF WslgInv, SnapshotLogged, Logged
  <2>2. i <= Len(log)
    BY <1>1
  <2>3. w \in Lines(Len(log))
    BY <1>1, <1>2, <2>1, <2>2, LinesAre
  <2>4. w \in Lines(upTo)
    BY <2>3 DEF Reads
  <2> QED
    BY <1>2, <1>3, <2>4, DueHasEntry
<1> QED
  BY <1>2, <1>3

\* It is a ledger again.
LEMMA PolledLedger ==
    ASSUME WslgInv, NEW upTo \in Ends PROVE PollLog(upTo).ledger \in Ledgers
<1> DEFINE p == PollLog(upTo).ledger
<1>1. p = PushLines(ledger, NewLines(Resumed.offset, upTo))
  BY PollIs DEF WslgInv
<1>2. p = [seen |-> p.seen, queue |-> p.queue]
  <2> DEFINE lines == NewLines(Resumed.offset, upTo)
             seen == ledger.seen \cup {nativeId[w] : w \in lines}
             queue == ledger.queue \cup
                 {[of |-> w, at |-> time] : w \in {w \in lines :
                     nativeId[w] \notin ledger.seen /\ \A v \in lines : nativeId[v] = nativeId[w] => w <= v}}
  <2>1. p = [seen |-> seen, queue |-> queue]
    BY <1>1 DEF PushLines
  <2> HIDE DEF p, seen, queue
  <2> QED
    BY <2>1
<1>3. EntriesTrue(p)
  BY PollTrue
<1> HIDE DEF p
<1>4. p \in Ledgers
  BY <1>2, <1>3 DEF EntriesTrue, Ledgers
<1> QED
  BY <1>4 DEF p

\* The entries of a queue are of as many toplevels.
LEMMA EntryCount ==
    ASSUME NEW Q \in SUBSET [of : Toplevels, at : Nat], \A e, f \in Q : e.of = f.of => e = f
    PROVE  /\ IsFiniteSet(Q) /\ IsFiniteSet({e.of : e \in Q}) /\ {e.of : e \in Q} \subseteq Toplevels
           /\ Cardinality({e.of : e \in Q}) = Cardinality(Q)
<1> DEFINE S == {e.of : e \in Q}
           f == [e \in Q |-> e.of]
<1>1. S \subseteq Toplevels
  OBVIOUS
<1>2. IsFiniteSet(S)
  <2> HIDE DEF S
  <2> QED
    BY <1>1, WslgAssumption, FS_Interval, FS_Subset, SMTT(40)
<1>3. f \in Bijection(Q, S)
  <2>1. f \in [Q -> S]
    OBVIOUS
  <2>2. \A a, b \in Q : f[a] = f[b] => a = b
    OBVIOUS
  <2>3. \A s \in S : \E a \in Q : f[a] = s
    OBVIOUS
  <2> HIDE DEF f, S
  <2> QED
    BY <2>1, <2>2, <2>3 DEF Bijection, Injection, Surjection, IsInjective
<1>4. f \in Injection(Q, S) /\ f \in Surjection(Q, S)
  BY <1>3 DEF Bijection
<1> HIDE DEF f, S
<1>5. IsFiniteSet(Q)
  BY <1>2, <1>4, FS_Injection
<1>6. Cardinality(S) = Cardinality(Q)
  BY <1>4, <1>5, FS_Surjection
<1> QED
  BY <1>1, <1>2, <1>5, <1>6 DEF S

\* poll_events gives each window its own id as long as none has strayed.
LEMMA PollEventsKeeps ==
    ASSUME WslgInv, NEW found \in SUBSET Toplevels, NEW upTo \in Ends, PollEvents(found, upTo)
    PROVE  WslgInv'
<1> DEFINE p == PollLog(upTo).ledger
           Given(w) == IF AppOf[w] \in Keyed THEN AssignFresh(p, AppOf[w]) ELSE AssignSoleFresh(p)
<1>0. /\ stage # "new" /\ Announceable(found, upTo) /\ Cardinality(found) <= 1
      /\ announced' = announced \cup found
      /\ tail' = PollLog(upTo).tail
      /\ ledger' = IF found = {} THEN p ELSE Given(Max(found)).ledger
      /\ given' = [w \in Toplevels |-> IF w \in found THEN Given(w).given ELSE given[w]]
      /\ strayed' = (strayed \/ (found # {} /\ Stray(p)))
      /\ UNCHANGED <<time, launched, open, nativeId, log, stage, snapshot, restarts>>
  BY DEF PollEvents
<1>1. WslgTypeOK /\ p \in Ledgers
  BY PolledLedger DEF WslgInv
<1>1a. EntriesTrue(p)
  BY PollTrue
<1>2. /\ found \subseteq open \ announced /\ IsFiniteSet(found)
      /\ ~strayed => \A w \in found : \E e \in p.queue : e.of = w
  <2>1. IsFiniteSet(found)
    BY WslgAssumption, FS_Interval, FS_Subset, SMTT(40)
  <2> QED
    BY <1>0, <2>1, FoundFacts
<1> DEFINE fresh(w) == IF AppOf[w] \in Keyed THEN EntriesOf(p, AppOf[w]) \cap FreshOf(p)
                       ELSE IF Cardinality(FreshOf(p)) = 1 THEN FreshOf(p) ELSE {}
<1>3. \A w : Given(w) = TakeEntry(p, fresh(w)) /\ fresh(w) \in SUBSET p.queue
  BY DEF AssignFresh, AssignSoleFresh, EntriesOf, FreshOf
<1>3a. \A w : fresh(w) \subseteq FreshOf(p)
  OBVIOUS
<1>3b. ASSUME ~Stray(p), NEW e \in p.queue PROVE IsFresh(e) <=> e.of \in open \ announced
  <2>1. IsFresh(e) \in BOOLEAN
    BY DEF IsFresh
  <2> QED
    BY <1>3b, <2>1 DEF Stray
<1>3c. \A w, e :
          AppOf[w] \in Keyed =>
             (e \in fresh(w) <=> e \in p.queue /\ AppOf[e.of] = AppOf[w] /\ IsFresh(e))
  BY DEF EntriesOf, FreshOf
<1>3d. \A w : AppOf[w] \notin Keyed => fresh(w) = {} \/ (Cardinality(FreshOf(p)) = 1 /\ fresh(w) = FreshOf(p))
  OBVIOUS
<1>3e. \A e : e \in FreshOf(p) <=> e \in p.queue /\ IsFresh(e)
  BY DEF FreshOf
<1> HIDE DEF p, Given, fresh
<1>4. ASSUME NEW w
      PROVE  \/ Given(w).ledger = p /\ Given(w).given = 0
             \/ \E first \in fresh(w) :
                   /\ \A e \in fresh(w) : first.of <= e.of
                   /\ Given(w).ledger = [seen |-> p.seen, queue |-> p.queue \ {first}]
                   /\ Given(w).given = first.of
  BY <1>1, <1>3, TakenIs
<1>5. ASSUME NEW w
      PROVE  /\ Given(w).ledger \in Ledgers /\ Given(w).ledger.seen = p.seen
             /\ Given(w).ledger.queue \subseteq p.queue /\ Given(w).given \in Toplevels \cup {0}
  <2>1. CASE Given(w).ledger = p /\ Given(w).given = 0
    BY <1>1, <2>1
  <2>2. CASE \E first \in fresh(w) :
                   /\ Given(w).ledger = [seen |-> p.seen, queue |-> p.queue \ {first}]
                   /\ Given(w).given = first.of
    <3>1. PICK first \in fresh(w) :
                   /\ Given(w).ledger = [seen |-> p.seen, queue |-> p.queue \ {first}]
                   /\ Given(w).given = first.of
      BY <2>2
    <3>2. first \in p.queue
      BY <1>3
    <3>3. first.of \in Toplevels
      BY <1>1, <3>2 DEF Ledgers
    <3> QED
      BY <1>1, <3>1, <3>3 DEF Ledgers
  <2> QED
    BY <1>4, <2>1, <2>2
<1>6. /\ stage' = stage /\ announced' \in SUBSET (1..launched) /\ announced \subseteq announced'
      /\ strayed' \in BOOLEAN /\ (strayed => strayed')
      /\ UNCHANGED <<time, launched, open, nativeId, log, snapshot>>
  <2>1. Stray(p) \in BOOLEAN
    BY DEF Stray
  <2> QED
    BY <1>0, <1>1, <1>2, <2>1 DEF WslgTypeOK
<1>11. ASSUME found # {} PROVE \E w \in found : Max(found) = w /\ found = {w}
  <2>1. Cardinality(found) \in Nat /\ Cardinality(found) # 0
    BY <1>2, <1>11, FS_CardinalityType, FS_EmptySet
  <2>2. Cardinality(found) = 1
    BY <1>0, <2>1
  <2>3. PICK w : found = {w}
    BY <1>2, <2>2, FS_Singleton
  <2>4. w \in Nat
    BY <2>3, WslgAssumption
  <2>5. Max(found) = w
    BY <2>3, <2>4 DEF Max
  <2> QED
    BY <2>3, <2>5
<1>7. ledger' \in Ledgers /\ ledger'.seen = p.seen /\ ledger'.queue \subseteq p.queue
  BY <1>0, <1>1, <1>5
<1>8. given' \in [Toplevels -> Toplevels \cup {0}]
  BY <1>0, <1>1, <1>5 DEF WslgTypeOK
<1>9. ASSUME NEW w \in found, ~strayed' PROVE Given(w).given \in {0, w}
  <2>0. ~strayed /\ ~Stray(p)
    BY <1>0, <1>9, Zenon
  <2>1. PICK e \in p.queue : e.of = w
    BY <1>2, <2>0
  <2>2. IsFresh(e)
    BY <1>2, <1>3b, <2>0, <2>1
  <2> SUFFICES ASSUME NEW first \in fresh(w), \A f \in fresh(w) : first.of <= f.of
               PROVE  first.of = w
    BY <1>4
  <2>3. first \in p.queue /\ IsFresh(first)
    BY <1>3, <1>3a, <1>3e
  <2>4. CASE AppOf[w] \in Keyed
    <3>1. e \in fresh(w) /\ AppOf[first.of] = AppOf[w]
      BY <1>3c, <2>1, <2>2, <2>4
    <3>2. first.of <= w
      BY <2>1, <3>1
    <3>3. first.of \in open \ announced
      BY <1>3b, <2>0, <2>3
    <3>4. ASSUME first.of < w PROVE first.of \in found
      BY <1>0, <3>1, <3>3, <3>4 DEF Announceable
    <3>5. first.of \in found => first.of = w
      BY <1>11, <1>9
    <3>6. first.of \in Nat /\ w \in Nat
      BY <1>1, <2>3, WslgAssumption, SMTT(40) DEF Ledgers
    <3> QED
      BY <3>2, <3>4, <3>5, <3>6
  <2>5. CASE AppOf[w] \notin Keyed
    <3>1. Cardinality(FreshOf(p)) = 1 /\ fresh(w) = FreshOf(p)
      BY <1>3d, <2>5
    <3>2. e \in FreshOf(p) /\ first \in FreshOf(p)
      BY <1>3e, <2>1, <2>2, <2>3
    <3>3. IsFiniteSet(FreshOf(p))
      <4>1. IsFiniteSet(p.queue)
        BY <1>1a, EntryCount DEF EntriesTrue
      <4> QED
        BY <1>3e, <4>1, FS_Subset
    <3> QED
      BY <2>1, <3>1, <3>2, <3>3, FS_Singleton
  <2> QED
    BY <2>4, <2>5
<1>10. ASSUME ~strayed'
       PROVE  /\ \A w \in announced' : given'[w] \in {0, w}
              /\ \A e \in p.queue : e.of \in Due' => e \in ledger'.queue
  <2>0. ~strayed
    BY <1>0, <1>10
  <2>1. ASSUME NEW w \in announced' PROVE given'[w] \in {0, w}
    <3>1. w \in Toplevels
      <4>1. 1..launched \subseteq Toplevels
        BY <1>1, WslgAssumption DEF WslgTypeOK
      <4> QED
        BY <1>0, <1>1, <1>2, <2>1, <4>1 DEF WslgTypeOK
    <3>2. CASE w \in found
      BY <1>0, <1>9, <1>10, <3>1, <3>2
    <3>3. CASE w \notin found
      <4>1. w \in announced /\ given'[w] = given[w]
        BY <1>0, <2>1, <3>1, <3>3
      <4> QED
        BY <2>0, <4>1 DEF WslgInv, PairedRight
    <3> QED
      BY <3>2, <3>3
  <2>2. ASSUME NEW e \in p.queue, e.of \in Due' PROVE e \in ledger'.queue
    <3>1. CASE found = {}
      BY <1>0, <3>1
    <3>2. CASE found # {}
      <4> DEFINE m == Max(found)
      <4>1. m \in found /\ ledger' = Given(m).ledger
        BY <1>0, <1>11, <3>2
      <4> HIDE DEF m
      <4>2. Given(m).given \in {0, m}
        BY <1>9, <1>10, <4>1
      <4>3. e.of # m /\ e.of # 0
        <5>1. e.of \in Nat \ {0}
          BY <1>1, WslgAssumption DEF Ledgers
        <5>2. m \in announced' /\ m \notin announced /\ snapshot' \subseteq announced
          BY <1>0, <1>1, <1>2, <4>1 DEF WslgTypeOK
        <5>3. e.of \in (open \ announced') \cup snapshot'
          BY <1>0, <2>2 DEF Due
        <5> QED
          BY <5>1, <5>2, <5>3
      <4>4. CASE Given(m).ledger = p
        BY <4>1, <4>4
      <4>5. CASE \E first \in fresh(m) :
                    /\ Given(m).ledger = [seen |-> p.seen, queue |-> p.queue \ {first}]
                    /\ Given(m).given = first.of
        <5>1. PICK first \in fresh(m) :
                    /\ Given(m).ledger = [seen |-> p.seen, queue |-> p.queue \ {first}]
                    /\ Given(m).given = first.of
          BY <4>5
        <5>2. e # first
          BY <4>2, <4>3, <5>1
        <5> QED
          BY <2>2, <4>1, <5>1, <5>2
      <4> QED
        BY <1>4, <4>4, <4>5
    <3> QED
      BY <3>1, <3>2
  <2> QED
    BY <2>1, <2>2
<1> QED
  BY <1>0, <1>6, <1>7, <1>8, <1>10, PollKeeps DEF p

\* The snapshot is of windows none of which was announced before.
LEMMA ConstructKeeps ==
    ASSUME WslgInv, NEW found \in SUBSET Toplevels, Construct(found) PROVE WslgInv'
<1>0. WslgTypeOK /\ LogAsWritten /\ TailTrue /\ EntriesTrue(ledger)
  BY DEF WslgInv
<1>1. /\ stage = "new" /\ Announceable(found, Len(log))
      /\ stage' = "waiting" /\ snapshot' = found /\ announced' = found
      /\ UNCHANGED <<time, launched, open, nativeId, log, tail, ledger, given, strayed, restarts>>
  BY DEF Construct
<1>2. found \subseteq open /\ found \subseteq Lines(Len(log)) /\ announced = {}
  BY <1>0, <1>1 DEF Announceable, TailTrue
<1>3. WslgTypeOK'
  BY <1>0, <1>1, <1>2 DEF WslgTypeOK
<1>4. LogAsWritten' /\ EntriesTrue(ledger)'
  BY <1>0, <1>1 DEF LogAsWritten, EntriesTrue
<1>5. TailTrue'
  BY <1>0, <1>1 DEF TailTrue, Carried
<1>6. tail.offset <= Len(log) => ReadIsSeen(ledger, tail.offset)'
  BY <1>1 DEF WslgInv, ReadIsSeen
<1>7. Due' = Due
  BY <1>1, <1>2 DEF Due
<1>8. ASSUME ~strayed' PROVE /\ PairedRight' /\ SnapshotLogged'
                             /\ tail.offset <= Len(log) => Unmistaken(ledger, tail.offset)'
  <2>1. PairedRight'
    BY <1>0, <1>1 DEF PairedRight, TailTrue
  <2>2. ASSUME NEW w \in found PROVE Logged(w)'
    <3>1. Len(log) \in 0..Len(log)
      BY <1>0 DEF WslgTypeOK
    <3>2. \E i \in 1..Len(log) : i <= Len(log) /\ i % 2 = 0 /\ log[i].of = w
      BY <1>0, <1>2, <3>1, LinesAre
    <3> QED
      BY <1>1, <3>2 DEF Logged
  <2>3. SnapshotLogged'
    BY <1>1, <2>2 DEF SnapshotLogged
  <2>4. tail.offset <= Len(log) => Unmistaken(ledger, tail.offset)'
    BY <1>1, <1>7, <1>8 DEF WslgInv, Unmistaken
  <2> QED
    BY <2>1, <2>3, <2>4
<1> QED
  BY <1>1, <1>3, <1>4, <1>5, <1>6, <1>8 DEF WslgInv

\* Toplevels are numbers, finitely many.
LEMMA FiniteToplevels ==
    ASSUME NEW S \in SUBSET Toplevels
    PROVE  IsFiniteSet(S) /\ Cardinality(S) \in Nat /\ S \subseteq Nat
<1> DEFINE n == Cardinality(Toplevels)
<1>1. n \in Nat /\ Toplevels = 1..n
  BY WslgAssumption
<1> HIDE DEF n
<1>2. IsFiniteSet(Toplevels)
  BY <1>1, FS_Interval
<1>3. IsFiniteSet(S) /\ Cardinality(S) \in Nat
  BY <1>2, FS_Subset, FS_CardinalityType
<1> QED
  BY <1>1, <1>3

\* How many of a set of numbers come before one of them: fewer than there are,
\* and fewer than before a later one.
LEMMA Ranks ==
    ASSUME NEW S \in SUBSET Toplevels, NEW i \in S
    PROVE  /\ IsFiniteSet(S) /\ Cardinality(S) \in Nat
           /\ Before(S, i) \in 0..Cardinality(S) - 1
           /\ \A k \in S : i < k => Before(S, i) < Before(S, k)
<1>1. IsFiniteSet(S) /\ Cardinality(S) \in Nat /\ S \subseteq Nat
  BY FiniteToplevels
<1> DEFINE before(k) == {j \in S : j < k}
<1>2. ASSUME NEW k \in S
      PROVE  /\ IsFiniteSet(before(k)) /\ Cardinality(before(k)) \in Nat
             /\ Cardinality(before(k)) <= Cardinality(S) /\ Cardinality(before(k)) # Cardinality(S)
  <2>1. before(k) \in SUBSET S /\ before(k) # S
    BY <1>1, <1>2
  <2> HIDE DEF before
  <2> QED
    BY <1>1, <2>1, FS_Subset, FS_CardinalityType
<1>3. ASSUME NEW k \in S, i < k
      PROVE  /\ Cardinality(before(i)) <= Cardinality(before(k))
             /\ Cardinality(before(i)) # Cardinality(before(k))
  <2>1. i \in before(k) /\ i \notin before(i) /\ before(i) \in SUBSET before(k)
    <3>1. \A j \in S : j \in Nat /\ (j < i => j < k)
      BY <1>1, <1>3
    <3> QED
      BY <1>3, <3>1
  <2> HIDE DEF before
  <2> QED
    BY <1>2, <1>3, <2>1, FS_Subset
<1>4. \A k : Before(S, k) = Cardinality(before(k))
  BY DEF Before
<1> HIDE DEF before
<1> QED
  BY <1>1, <1>2, <1>3, <1>4

\* Of two sets of as many numbers, one has a number for each place of the other.
LEMMA SameRank ==
    ASSUME NEW S \in SUBSET Toplevels, NEW T \in SUBSET Toplevels, Cardinality(S) = Cardinality(T),
           NEW w \in T
    PROVE  \E id \in S : Before(S, id) = Before(T, w)
<1> DEFINE n == Cardinality(S)
           ranks == 0..n - 1
           f == [i \in S |-> Before(S, i)]
<1>1. n \in Nat /\ IsFiniteSet(S) /\ S \subseteq Nat /\ T \subseteq Nat
  BY FiniteToplevels
<1>2. Before(T, w) \in ranks
  BY Ranks
<1>3. f \in Injection(S, ranks)
  <2>1. f \in [S -> ranks]
    BY Ranks
  <2>2. ASSUME NEW i \in S, NEW k \in S, f[i] = f[k] PROVE i = k
    <3>1. Before(S, i) = Before(S, k) /\ Before(S, i) \in Int
      BY <1>1, <2>2, Ranks
    <3>2. ~(i < k) /\ ~(k < i)
      BY <3>1, Ranks
    <3> QED
      BY <1>1, <3>2
  <2> HIDE DEF f, ranks
  <2> QED
    BY <2>1, <2>2 DEF Injection, IsInjective
<1>4. IsFiniteSet(ranks) /\ Cardinality(ranks) = n
  <2> HIDE DEF n
  <2>1. 0 \in Int /\ n - 1 \in Int /\ (0 > n - 1 => n = 0) /\ (n - 1) - 0 + 1 = n
    BY <1>1
  <2> QED
    BY <1>1, <2>1, FS_Interval
<1>5. f \in Surjection(S, ranks)
  <2> HIDE DEF f, ranks
  <2> QED
    BY <1>3, <1>4, FS_Injection DEF n
<1>6. \E id \in S : f[id] = Before(T, w)
  <2> HIDE DEF f, ranks
  <2> QED
    BY <1>2, <1>5 DEF Surjection
<1> QED
  BY <1>6

\* initial_state gives each window its own id as long as none has strayed.
LEMMA InitialStateKeeps ==
    ASSUME WslgInv, NEW upTo \in Ends, InitialState(upTo)
    PROVE  WslgInv'
<1> DEFINE p       == PollLog(upTo).ledger
           Of(w)   == {v \in snapshot : AppOf[v] = AppOf[w]}
           Ids(w)  == {e.of : e \in EntriesOf(p, AppOf[w])}
           matched == {w \in snapshot : AppOf[w] \in Keyed
                                     /\ Cardinality(Of(w)) = Cardinality(EntriesOf(p, AppOf[w]))}
           sole    == {w \in snapshot : AppOf[w] \notin Keyed
                                     /\ Cardinality(snapshot) = 1 /\ Cardinality(p.queue) = 1}
           Own(w)  == CHOOSE id \in Ids(w) : Before(Ids(w), id) = Before(Of(w), w)
           only    == CHOOSE e \in p.queue : TRUE
<1>0. /\ stage = "waiting" /\ Reads(upTo, snapshot)
      /\ stage' = "established"
      /\ tail' = PollLog(upTo).tail
      /\ ledger' = [p EXCEPT !.queue = {e \in p.queue : sole = {} /\ \A w \in matched : AppOf[e.of] # AppOf[w]}]
      /\ given' = [w \in Toplevels |->
                      CASE w \in matched -> Own(w)
                        [] w \in sole    -> only.of
                        [] OTHER         -> given[w]]
      /\ UNCHANGED <<time, launched, open, nativeId, log, snapshot, announced, strayed, restarts>>
  BY DEF InitialState, Matched, Sole
<1>1. WslgTypeOK /\ p \in Ledgers /\ EntriesTrue(p)
  BY PolledLedger, PollTrue DEF WslgInv
<1>2. /\ snapshot \subseteq announced /\ snapshot \subseteq Toplevels /\ IsFiniteSet(snapshot)
      /\ ~strayed => \A w \in snapshot : \E e \in p.queue : e.of = w
  <2>1. snapshot \subseteq announced /\ snapshot \subseteq Toplevels
        /\ (~strayed => \A w \in snapshot : \E e \in p.queue : e.of = w)
    BY <1>0, SnapshotFacts
  <2>2. IsFiniteSet(snapshot)
    <3>1. Cardinality(Toplevels) \in Int /\ Toplevels = 1..Cardinality(Toplevels)
      BY WslgAssumption
    <3>2. IsFiniteSet(1..Cardinality(Toplevels))
      BY <3>1, FS_Interval
    <3>3. IsFiniteSet(Toplevels)
      BY <3>1, <3>2, Zenon
    <3> QED
      BY <2>1, <3>3, FS_Subset
  <2> QED
    BY <2>1, <2>2
<1>6. ASSUME NEW w
      PROVE  /\ EntriesOf(p, AppOf[w]) \in SUBSET p.queue
             /\ \A e \in p.queue : e \in EntriesOf(p, AppOf[w]) <=> AppOf[e.of] = AppOf[w]
             /\ Ids(w) \in SUBSET Toplevels /\ IsFiniteSet(Ids(w))
             /\ Cardinality(Ids(w)) = Cardinality(EntriesOf(p, AppOf[w]))
  <2>1. /\ EntriesOf(p, AppOf[w]) \in SUBSET p.queue
        /\ \A e \in p.queue : e \in EntriesOf(p, AppOf[w]) <=> AppOf[e.of] = AppOf[w]
    BY DEF EntriesOf
  <2>2. /\ EntriesOf(p, AppOf[w]) \in SUBSET [of : Toplevels, at : Nat]
        /\ \A e, f \in EntriesOf(p, AppOf[w]) : e.of = f.of => e = f
    BY <1>1, <2>1 DEF EntriesTrue
  <2> HIDE DEF p
  <2>3. /\ Ids(w) \in SUBSET Toplevels /\ IsFiniteSet(Ids(w))
        /\ Cardinality(Ids(w)) = Cardinality(EntriesOf(p, AppOf[w]))
    BY <2>2, EntryCount
  <2> QED
    BY <2>1, <2>3
<1>7. ASSUME NEW w \in matched
      PROVE  /\ Own(w) \in Ids(w) /\ Before(Ids(w), Own(w)) = Before(Of(w), w) /\ Own(w) \in Toplevels
             /\ Of(w) \in SUBSET Toplevels /\ w \in Of(w) /\ Cardinality(Of(w)) = Cardinality(Ids(w))
  <2>1. /\ Of(w) \in SUBSET Toplevels /\ w \in Of(w)
        /\ Ids(w) \in SUBSET Toplevels /\ Cardinality(Of(w)) = Cardinality(Ids(w))
    BY <1>2, <1>6
  <2> HIDE DEF Of, Ids, p, matched
  <2>2. \E id \in Ids(w) : Before(Ids(w), id) = Before(Of(w), w)
    BY <2>1, SameRank
  <2> QED
    BY <2>1, <2>2
<1>8. ASSUME sole # {}
      PROVE  only \in p.queue /\ only.of \in Toplevels
             /\ \E w \in snapshot : snapshot = {w} /\ sole = {w} /\ \A e \in p.queue : e = only
  <2>1. Cardinality(snapshot) = 1 /\ Cardinality(p.queue) = 1
    BY <1>8
  <2>2. IsFiniteSet(p.queue)
    BY <1>1, EntryCount DEF EntriesTrue
  <2>3. PICK x, y : snapshot = {x} /\ p.queue = {y}
    <3> HIDE DEF p
    <3>1. \E x : snapshot = {x}
      BY <1>2, <2>1, FS_Singleton
    <3>2. \E y : p.queue = {y}
      BY <2>1, <2>2, FS_Singleton
    <3> QED
      BY <3>1, <3>2
  <2>4. sole = {x}
    BY <1>8, <2>3
  <2> HIDE DEF p, sole
  <2>5. only \in p.queue
    BY <2>3
  <2> QED
    BY <1>1, <2>3, <2>4, <2>5 DEF Ledgers
<1>9. /\ matched \subseteq snapshot /\ sole \subseteq snapshot \ matched
      /\ \A w \in snapshot, v \in matched : AppOf[w] = AppOf[v] => w \in Of(v)
      /\ \A w \in snapshot : \A v : w \in Of(v) => AppOf[w] = AppOf[v]
  OBVIOUS
<1>9a. \A w : Of(w) \subseteq snapshot
  OBVIOUS
<1>9b. \A w, e : e \in EntriesOf(p, AppOf[w]) => e.of \in Ids(w)
  OBVIOUS
<1>9c. \A w, id : id \in Ids(w) => \E e \in EntriesOf(p, AppOf[w]) : id = e.of
  OBVIOUS
<1> HIDE DEF Of, Ids, matched, sole, Own, only, p
<1>10. /\ ledger' \in Ledgers /\ ledger'.seen = p.seen
       /\ ledger'.queue = {e \in p.queue : sole = {} /\ \A w \in matched : AppOf[e.of] # AppOf[w]}
  BY <1>0, <1>1 DEF Ledgers
<1>11. given' \in [Toplevels -> Toplevels \cup {0}]
  <2>1. ASSUME NEW w \in Toplevels PROVE given'[w] \in Toplevels \cup {0}
    <3>1. CASE w \in matched
      BY <1>0, <1>7, <1>9, <3>1
    <3>2. CASE w \notin matched /\ w \in sole
      BY <1>0, <1>8, <3>2
    <3>3. CASE w \notin matched /\ w \notin sole
      BY <1>0, <1>1, <3>3 DEF WslgTypeOK
    <3> QED
      BY <3>1, <3>2, <3>3
  <2>2. given' = [w \in Toplevels |-> given'[w]]
    BY <1>0
  <2> QED
    BY <2>1, <2>2
<1>13. ASSUME ~strayed'
       PROVE  /\ \A w \in announced' : given'[w] \in {0, w}
              /\ \A e \in p.queue : e.of \in Due' => e \in ledger'.queue
  <2>0. ~strayed /\ \A w \in announced : given[w] \in {0, w}
    BY <1>0, <1>13 DEF WslgInv, PairedRight
  <2>1. ASSUME NEW w \in matched PROVE Of(w) = Ids(w)
    <3>1. ASSUME NEW v \in Of(w) PROVE v \in Ids(w)
      <4>1. v \in snapshot /\ AppOf[v] = AppOf[w]
        BY <1>9, <1>9a
      <4>2. PICK e \in p.queue : e.of = v
        BY <1>2, <2>0, <4>1
      <4> QED
        BY <1>6, <1>9b, <4>1, <4>2
    <3>2. Of(w) \in SUBSET Ids(w) /\ IsFiniteSet(Ids(w)) /\ Cardinality(Of(w)) = Cardinality(Ids(w))
      BY <1>6, <1>7, <3>1
    <3> QED
      BY <3>2, FS_Subset
  <2>2. ASSUME NEW w \in matched PROVE Own(w) = w
    <3> DEFINE S == Ids(w)
               o == Own(w)
    <3>1. S \in SUBSET Toplevels /\ o \in S /\ w \in S /\ Before(S, o) = Before(S, w)
      BY <1>6, <1>7, <2>1, <2>2
    <3> HIDE DEF S, o
    <3>2. o \in Nat /\ w \in Nat
      BY <3>1, WslgAssumption
    <3>3. o < w => Before(S, o) < Before(S, w)
      BY <3>1, Ranks
    <3>5. w < o => Before(S, w) < Before(S, o)
      BY <3>1, Ranks
    <3>6. Before(S, o) \in Int
      BY <3>1, Ranks
    <3>4. o = w
      BY <3>1, <3>2, <3>3, <3>5, <3>6
    <3> QED
      BY <3>4 DEF o
  <2>3. ASSUME NEW w \in sole PROVE only.of = w
    <3>1. PICK e \in p.queue : e.of = w
      BY <1>2, <1>9, <2>0, <2>3
    <3> QED
      BY <1>8, <2>3, <3>1
  <2>4. ASSUME NEW w \in announced PROVE given'[w] \in {0, w}
    <3>0. w \in Toplevels
      <4>1. 1..launched \subseteq Toplevels
        BY <1>1, WslgAssumption DEF WslgTypeOK
      <4> QED
        BY <1>1, <4>1 DEF WslgTypeOK
    <3>1. CASE w \in matched
      <4> DEFINE o == Own(w)
      <4>1. given'[w] = o
        <5>1. given'[w] = CASE w \in matched -> o
                            [] w \in sole    -> only.of
                            [] OTHER         -> given[w]
          BY <1>0, <3>0
        <5>2. w \notin sole
          BY <1>9, <3>1
        <5> HIDE DEF o
        <5> QED
          BY <3>1, <5>1, <5>2
      <4> QED
        BY <2>2, <3>1, <4>1
    <3>2. CASE w \notin matched /\ w \in sole
      <4>1. given'[w] = only.of
        BY <1>0, <3>0, <3>2
      <4> QED
        BY <2>3, <3>2, <4>1
    <3>3. CASE w \notin matched /\ w \notin sole
      BY <1>0, <2>0, <3>0, <3>3
    <3> QED
      BY <3>1, <3>2, <3>3
  <2>5. ASSUME NEW e \in p.queue, e.of \notin snapshot PROVE e \in ledger'.queue
    <3>1. sole = {}
      <4> SUFFICES ASSUME sole # {} PROVE FALSE
        OBVIOUS
      <4>1. PICK w \in snapshot : sole = {w} /\ e = only
        BY <1>8
      <4> QED
        BY <2>3, <2>5, <4>1
    <3>2. ASSUME NEW w \in matched PROVE AppOf[e.of] # AppOf[w]
      <4> SUFFICES ASSUME AppOf[e.of] = AppOf[w] PROVE FALSE
        OBVIOUS
      <4>1. e.of \in Ids(w)
        BY <1>6, <1>9b
      <4> QED
        BY <1>9a, <2>1, <2>5, <4>1
    <3> QED
      BY <1>10, <3>1, <3>2
  <2>6. Due' = open \ announced
    BY <1>0 DEF Due
  <2> QED
    BY <1>0, <1>2, <2>4, <2>5, <2>6
<1>14. /\ ledger'.queue \subseteq p.queue /\ tail' = PollLog(upTo).tail
       /\ stage # "new" /\ stage' \in {stage, "established"}
       /\ announced' \in SUBSET (1..launched) /\ announced \subseteq announced'
       /\ strayed' \in BOOLEAN /\ (strayed => strayed')
       /\ UNCHANGED <<time, launched, open, nativeId, log, snapshot>>
  BY <1>0, <1>1, <1>10 DEF WslgTypeOK
<1> QED
  BY <1>10, <1>11, <1>13, <1>14, PollKeeps DEF p

\* weston writes its lines one after another, each of the next id.
LEMMA LogFacts ==
    ASSUME WslgTypeOK, LogAsWritten, NEW piece \in Pieces
    PROVE  /\ Len(log) \in Nat /\ Append(log, piece) \in Seq(Pieces)
           /\ Len(Append(log, piece)) = Len(log) + 1
           /\ \A i \in 1..Len(log) : Append(log, piece)[i] = log[i]
           /\ Append(log, piece)[Len(log) + 1] = piece
           /\ MidLine <=> Len(log) % 2 # 0
           /\ MidLine => Last(log) = log[Len(log)] /\ Len(log) \in 1..Len(log)
<1>1. log \in Seq(Pieces) /\ Len(log) \in Nat
  BY DEF WslgTypeOK
<1>2. /\ Append(log, piece) \in Seq(Pieces)
      /\ Len(Append(log, piece)) = Len(log) + 1
      /\ \A i \in 1..Len(log) : Append(log, piece)[i] = log[i]
      /\ Append(log, piece)[Len(log) + 1] = piece
  BY <1>1, AppendProperties
<1>3. CASE log = <<>>
  <2>1. Len(log) = 0 /\ ~MidLine
    BY <1>3 DEF MidLine
  <2> QED
    BY <1>1, <1>2, <2>1
<1>4. CASE log # <<>>
  <2>1. Len(log) \in 1..Len(log) /\ Last(log) = log[Len(log)]
    BY <1>1, <1>4 DEF Last
  <2>2. MidLine <=> ~log[Len(log)].ends
    BY <1>4, <2>1 DEF MidLine
  <2>3. log[Len(log)].ends <=> Len(log) % 2 = 0
    BY <2>1 DEF LogAsWritten
  <2> QED
    BY <1>1, <1>2, <2>1, <2>2, <2>3
<1> QED
  BY <1>3, <1>4

\* A toplevel's line starts, with an id that was not seen or one has strayed.
LEMMA LaunchKeeps == ASSUME WslgInv, Launch PROVE WslgInv'
<1> DEFINE w == launched + 1
           n == Len(log)
           id == n \div 2 + 1
           piece == Piece(w, FALSE)
<1>0. WslgTypeOK /\ LogAsWritten /\ TailTrue /\ EntriesTrue(ledger)
  BY DEF WslgInv
<1>1. /\ launched < Cardinality(Toplevels) /\ ~MidLine /\ tail.offset <= n
      /\ launched' = w /\ open' = open \cup {w}
      /\ nativeId' = [nativeId EXCEPT ![w] = id] /\ log' = Append(log, piece)
      /\ strayed' = (strayed \/ id \in ledger.seen)
      /\ UNCHANGED <<time, tail, ledger, stage, snapshot, announced, given, restarts>>
  BY DEF Launch
<1>2. /\ launched \in Nat /\ w \in Toplevels /\ w \in 1..launched' /\ w \notin 1..launched
      /\ 1..launched \subseteq 1..launched' /\ launched' \in 0..Cardinality(Toplevels)
      /\ 1..launched \subseteq Toplevels
  BY <1>0, <1>1, WslgAssumption, SMTT(40) DEF WslgTypeOK
<1>3. piece \in Pieces /\ piece.of = w /\ piece.ends = FALSE
  BY <1>2 DEF Pieces, Piece
<1> HIDE DEF piece
<1>4. /\ n \in Nat /\ log' \in Seq(Pieces) /\ Len(log') = n + 1
      /\ \A i \in 1..n : log'[i] = log[i]
      /\ log'[n + 1] = piece /\ n % 2 = 0
  BY <1>0, <1>1, <1>3, LogFacts
<1>5. id \in Nat /\ n = 2 * (id - 1) /\ (n + 1 + 1) \div 2 = id /\ (n + 1) % 2 # 0
  <2>1. n = 2 * (n \div 2) /\ n \div 2 \in Nat
    BY <1>4, HalfOfEven
  <2>2. (n + 1) % 2 # 0 /\ n + 1 \in Nat
    BY <1>4
  <2>3. (n + 1 + 1) \div 2 = (n + 1) \div 2 + 1 /\ (n + 1) \div 2 = n \div 2
    BY <1>4, <2>2, HalfOfEven, HalfOfOdd
  <2> QED
    BY <2>1, <2>2, <2>3
<1>6. tail.offset \in Nat
  BY <1>0 DEF WslgTypeOK
<1> HIDE DEF w, n, id
<1>7. \A v \in 1..launched : nativeId'[v] = nativeId[v]
  BY <1>0, <1>1, <1>2 DEF WslgTypeOK
<1>8. nativeId'[w] = id
  BY <1>0, <1>1, <1>2 DEF WslgTypeOK
<1>9. 1..Len(log') = 1..n \cup {n + 1}
  BY <1>4
<1>10. WslgTypeOK'
  <2>1. nativeId' \in [Toplevels -> Nat]
    BY <1>0, <1>1, <1>5 DEF WslgTypeOK
  <2>2. open' \in SUBSET (1..launched') /\ announced' \in SUBSET (1..launched')
    BY <1>0, <1>1, <1>2 DEF WslgTypeOK
  <2>3. strayed' \in BOOLEAN
    BY <1>0, <1>1 DEF WslgTypeOK
  <2> QED
    BY <1>0, <1>1, <1>2, <1>4, <2>1, <2>2, <2>3 DEF WslgTypeOK
<1>11. LogAsWritten'
  <2>1. ASSUME NEW i \in 1..n
        PROVE  /\ log'[i].ends <=> i % 2 = 0
               /\ log'[i].of \in 1..launched' /\ nativeId'[log'[i].of] = (i + 1) \div 2
               /\ i % 2 = 0 => log'[i - 1].of = log'[i].of
    <3>1. /\ log[i].ends <=> i % 2 = 0
          /\ log[i].of \in 1..launched /\ nativeId[log[i].of] = (i + 1) \div 2
          /\ i % 2 = 0 => log[i - 1].of = log[i].of
      BY <1>0 DEF LogAsWritten, n
    <3>2. i % 2 = 0 => i - 1 \in 1..n
      BY <1>4
    <3> QED
      BY <1>2, <1>4, <1>7, <3>1, <3>2, SMTT(40)
  <2>2. ASSUME NEW i \in {n + 1}
        PROVE  /\ log'[i].ends <=> i % 2 = 0
               /\ log'[i].of \in 1..launched' /\ nativeId'[log'[i].of] = (i + 1) \div 2
               /\ i % 2 = 0 => log'[i - 1].of = log'[i].of
    BY <1>2, <1>3, <1>4, <1>5, <1>8
  <2> QED
    BY <1>9, <2>1, <2>2 DEF LogAsWritten
<1>12. TailTrue'
  <2>1. tail' = tail /\ stage' = stage /\ given' = given /\ announced' = announced
    BY <1>1
  <2>2. tail.partial = Carried(tail.offset)
    BY <1>0, <1>1 DEF TailTrue, n
  <2>3. tail.offset % 2 = 1 => tail.offset \in 1..n
    <3>1. tail.offset <= n
      BY <1>1
    <3> QED
      BY <1>4, <1>6, <3>1
  <2>4. tail.partial = IF tail.offset % 2 = 1 THEN <<log'[tail.offset]>> ELSE <<>>
    BY <1>4, <2>2, <2>3 DEF Carried
  <2>5. ~(tail.offset > n + 1)
    BY <1>1, <1>4, <1>6
  <2>6. stage = "new" => announced = {} /\ \A v \in Toplevels : given[v] = 0
    BY <1>0 DEF TailTrue
  <2> QED
    BY <1>4, <2>1, <2>4, <2>5, <2>6 DEF TailTrue, Carried
<1>13. EntriesTrue(ledger)'
  BY <1>0, <1>1, <1>2, <1>7 DEF EntriesTrue
<1>14. ASSUME NEW k \in 1..Len(log'), 2 * k <= n + 1 PROVE k \in 1..n
  BY <1>4, <1>14
<1>15. ReadIsSeen(ledger, tail.offset)'
  <2>1. ReadIsSeen(ledger, tail.offset)
    BY <1>1 DEF WslgInv, n
  <2>2. ASSUME NEW k \in 1..Len(log'), 2 * k <= tail.offset PROVE k \in ledger.seen
    <3>1. 2 * k <= n + 1
      BY <1>1, <1>4, <1>6, <2>2
    <3> QED
      BY <1>14, <2>1, <2>2, <3>1 DEF ReadIsSeen, n
  <2> QED
    BY <1>1, <2>2 DEF ReadIsSeen
<1>16. ASSUME ~strayed' PROVE PairedRight' /\ SnapshotLogged' /\ Unmistaken(ledger, tail.offset)'
  <2>0. ~strayed /\ id \notin ledger.seen
    BY <1>1, <1>16
  <2>1. PairedRight /\ Unmistaken(ledger, tail.offset)
    BY <1>1, <2>0 DEF WslgInv, n
  <2>2. PairedRight'
    BY <1>1, <2>0, <2>1 DEF PairedRight
  <2>3. ASSUME NEW k \in 1..Len(log'), 2 * k > tail.offset, 2 * k <= Len(log') + 1 PROVE k \notin ledger.seen
    <3>1. CASE 2 * k <= n + 1
      BY <1>14, <2>1, <2>3, <3>1 DEF Unmistaken, n
    <3>2. CASE 2 * k > n + 1
      <4>1. k = id
        BY <1>4, <1>5, <2>3, <3>2
      <4> QED
        BY <2>0, <4>1
    <3> QED
      BY <1>4, <3>1, <3>2
  <2>4. ASSUME NEW i \in 1..Len(log'), i <= tail.offset, i % 2 = 0, log'[i].of \in Due'
        PROVE  \E e \in ledger.queue : e.of = log'[i].of
    <3>1. i \in 1..n
      BY <1>1, <1>4, <1>6, <2>4
    <3>2. log'[i] = log[i] /\ log[i].of \in 1..launched
      BY <1>0, <1>4, <3>1 DEF LogAsWritten, n
    <3>3. log[i].of \in Due
      BY <1>1, <1>2, <2>4, <3>2 DEF Due
    <3>4. \E e \in ledger.queue : e.of = log[i].of
      BY <2>1, <2>4, <3>1, <3>3 DEF Unmistaken, n
    <3> QED
      BY <3>2, <3>4
  <2>5. Unmistaken(ledger, tail.offset)'
    BY <1>1, <2>3, <2>4 DEF Unmistaken
  <2>6. SnapshotLogged'
    <3>1. ASSUME NEW v, Logged(v) PROVE Logged(v)'
      <4>1. PICK i \in 1..n : i % 2 = 0 /\ log[i].of = v
        BY <3>1 DEF Logged, n
      <4>2. i \in 1..Len(log') /\ log'[i] = log[i]
        BY <1>4, <1>9
      <4> QED
        BY <4>1, <4>2 DEF Logged
    <3>2. stage' = stage /\ snapshot' = snapshot /\ SnapshotLogged
      BY <1>1, <2>0 DEF WslgInv
    <3> QED
      BY <3>1, <3>2 DEF SnapshotLogged
  <2> QED
    BY <2>2, <2>5, <2>6
<1> QED
  BY <1>10, <1>11, <1>12, <1>13, <1>15, <1>16 DEF WslgInv

\* Its line ends.
LEMMA EndLineKeeps == ASSUME WslgInv, EndLine PROVE WslgInv'
<1> DEFINE n == Len(log)
           w == Last(log).of
           piece == Piece(w, TRUE)
<1>0. WslgTypeOK /\ LogAsWritten /\ TailTrue /\ EntriesTrue(ledger)
  BY DEF WslgInv
<1>1. /\ MidLine /\ log' = Append(log, piece)
      /\ UNCHANGED <<time, launched, open, nativeId, tail, ledger, stage, snapshot, announced,
                     given, strayed, restarts>>
  BY DEF EndLine
<1>2. n \in 1..n /\ log # <<>> /\ Last(log) = log[n] /\ n \in Nat /\ n % 2 # 0
  <2>2. n \in Nat /\ log # <<>> /\ log \in Seq(Pieces)
    BY <1>0, <1>1 DEF WslgTypeOK, MidLine
  <2>3. n \in 1..n /\ Last(log) = log[n]
    BY <2>2 DEF Last
  <2>4. ~log[n].ends /\ (log[n].ends <=> n % 2 = 0)
    BY <1>0, <1>1, <2>3 DEF MidLine, LogAsWritten
  <2> QED
    BY <2>2, <2>3, <2>4
<1>3. w \in 1..launched /\ nativeId[w] = (n + 1) \div 2 /\ w \in Toplevels /\ w = log[n].of
  <2>1. w \in 1..launched /\ nativeId[w] = (n + 1) \div 2
    BY <1>0, <1>2 DEF LogAsWritten
  <2>2. 1..launched \subseteq Toplevels
    BY <1>0, WslgAssumption DEF WslgTypeOK
  <2> QED
    BY <1>2, <2>1, <2>2
<1> HIDE DEF w
<1>4. piece \in Pieces /\ piece.of = w /\ piece.ends = TRUE
  BY <1>3 DEF Pieces, Piece
<1> HIDE DEF piece
<1>5. /\ log' \in Seq(Pieces) /\ Len(log') = n + 1
      /\ \A i \in 1..n : log'[i] = log[i]
      /\ log'[n + 1] = piece
  BY <1>0, <1>1, <1>4, LogFacts
<1>6. (n + 1) % 2 = 0 /\ (n + 1 + 1) \div 2 = (n + 1) \div 2
  <2>1. (n + 1) % 2 = 0 /\ n + 1 \in Nat
    BY <1>2
  <2>2. (n + 1 + 1) \div 2 = (n + 1) \div 2
    BY <2>1, HalfOfEven
  <2> QED
    BY <2>1, <2>2
<1>7. tail.offset \in Nat /\ tail.offset <= n
  BY <1>0, <1>2 DEF WslgTypeOK, TailTrue
<1> HIDE DEF n
<1>8. 1..Len(log') = 1..n \cup {n + 1}
  BY <1>2, <1>5
<1>9. WslgTypeOK'
  BY <1>0, <1>1, <1>5 DEF WslgTypeOK
<1>10. LogAsWritten'
  <2>1. ASSUME NEW i \in 1..n
        PROVE  /\ log'[i].ends <=> i % 2 = 0
               /\ log'[i].of \in 1..launched' /\ nativeId'[log'[i].of] = (i + 1) \div 2
               /\ i % 2 = 0 => log'[i - 1].of = log'[i].of
    <3>1. /\ log[i].ends <=> i % 2 = 0
          /\ log[i].of \in 1..launched /\ nativeId[log[i].of] = (i + 1) \div 2
          /\ i % 2 = 0 => log[i - 1].of = log[i].of
      BY <1>0 DEF LogAsWritten, n
    <3>2. i % 2 = 0 => i - 1 \in 1..n
      BY <1>2
    <3> QED
      BY <1>1, <1>5, <3>1, <3>2
  <2>2. ASSUME NEW i \in {n + 1}
        PROVE  /\ log'[i].ends <=> i % 2 = 0
               /\ log'[i].of \in 1..launched' /\ nativeId'[log'[i].of] = (i + 1) \div 2
               /\ i % 2 = 0 => log'[i - 1].of = log'[i].of
    <3>1. i = n + 1 /\ i - 1 = n
      BY <1>2
    <3>2. log'[i] = piece /\ log'[i - 1] = log[n]
      BY <1>2, <1>5, <3>1
    <3> QED
      BY <1>1, <1>3, <1>4, <1>6, <3>1, <3>2
  <2> QED
    BY <1>8, <2>1, <2>2 DEF LogAsWritten
<1>11. TailTrue'
  <2>1. tail' = tail /\ stage' = stage /\ given' = given /\ announced' = announced
    BY <1>1
  <2>2. tail.partial = Carried(tail.offset)
    BY <1>0, <1>7 DEF TailTrue, n
  <2>3. tail.offset % 2 = 1 => tail.offset \in 1..n
    BY <1>2, <1>7
  <2>4. tail.partial = IF tail.offset % 2 = 1 THEN <<log'[tail.offset]>> ELSE <<>>
    BY <1>5, <2>2, <2>3 DEF Carried
  <2>5. ~(tail.offset > n + 1)
    BY <1>2, <1>7
  <2>6. stage = "new" => announced = {} /\ \A v \in Toplevels : given[v] = 0
    BY <1>0 DEF TailTrue
  <2> QED
    BY <1>5, <2>1, <2>4, <2>5, <2>6 DEF TailTrue, Carried
<1>12. EntriesTrue(ledger)'
  BY <1>0, <1>1 DEF EntriesTrue
<1>13. ASSUME NEW k \in 1..Len(log'), 2 * k <= n + 2 PROVE k \in 1..n /\ 2 * k <= n + 1
  <2>1. k \in Nat /\ 2 * k # n + 2
    BY <1>2, <1>5
  <2> QED
    BY <1>2, <1>5, <1>13, <2>1
<1>14. ReadIsSeen(ledger, tail.offset)'
  <2>1. ReadIsSeen(ledger, tail.offset)
    BY <1>7 DEF WslgInv, n
  <2>2. ASSUME NEW k \in 1..Len(log'), 2 * k <= tail.offset PROVE k \in ledger.seen
    <3>1. 2 * k <= n + 2
      BY <1>2, <1>5, <1>7, <2>2
    <3> QED
      BY <1>13, <2>1, <2>2, <3>1 DEF ReadIsSeen, n
  <2> QED
    BY <1>1, <2>2 DEF ReadIsSeen
<1>15. ASSUME ~strayed' PROVE PairedRight' /\ SnapshotLogged' /\ Unmistaken(ledger, tail.offset)'
  <2>1. PairedRight /\ Unmistaken(ledger, tail.offset) /\ ~strayed
    BY <1>1, <1>7, <1>15 DEF WslgInv, n
  <2>2. PairedRight'
    BY <1>1, <2>1 DEF PairedRight
  <2>3. ASSUME NEW k \in 1..Len(log'), 2 * k > tail.offset, 2 * k <= Len(log') + 1 PROVE k \notin ledger.seen
    <3>1. 2 * k <= n + 2
      BY <1>2, <1>5, <2>3
    <3> QED
      BY <1>13, <2>1, <2>3, <3>1 DEF Unmistaken, n
  <2>4. ASSUME NEW i \in 1..Len(log'), i <= tail.offset, i % 2 = 0, log'[i].of \in Due'
        PROVE  \E e \in ledger.queue : e.of = log'[i].of
    <3>1. i \in 1..n
      BY <1>2, <1>5, <1>7, <2>4
    <3>2. log'[i] = log[i] /\ Due' = Due
      BY <1>1, <1>5, <3>1 DEF Due
    <3>3. \E e \in ledger.queue : e.of = log[i].of
      BY <2>1, <2>4, <3>1, <3>2 DEF Unmistaken, n
    <3> QED
      BY <3>2, <3>3
  <2>5. Unmistaken(ledger, tail.offset)'
    BY <1>1, <2>3, <2>4 DEF Unmistaken
  <2>6. SnapshotLogged'
    <3>1. ASSUME NEW v, Logged(v) PROVE Logged(v)'
      <4>1. PICK i \in 1..n : i % 2 = 0 /\ log[i].of = v
        BY <3>1 DEF Logged, n
      <4>2. i \in 1..Len(log') /\ log'[i] = log[i]
        BY <1>5, <1>8
      <4> QED
        BY <4>1, <4>2 DEF Logged
    <3>2. stage' = stage /\ snapshot' = snapshot /\ SnapshotLogged
      BY <1>1, <2>1 DEF WslgInv
    <3> QED
      BY <3>1, <3>2 DEF SnapshotLogged
  <2> QED
    BY <2>2, <2>5, <2>6
<1> QED
  BY <1>9, <1>10, <1>11, <1>12, <1>14, <1>15 DEF WslgInv

\* Fewer windows are open, and fewer to come.
LEMMA LeaveKeeps == ASSUME WslgInv, NEW w \in Toplevels, Leave(w) PROVE WslgInv'
<1>0. WslgTypeOK /\ LogAsWritten /\ TailTrue /\ EntriesTrue(ledger)
  BY DEF WslgInv
<1>1. /\ open' = open \ {w}
      /\ UNCHANGED <<time, launched, nativeId, log, tail, ledger, stage, snapshot, announced, given,
                     strayed, restarts>>
  BY DEF Leave
<1>2. WslgTypeOK'
  BY <1>0, <1>1 DEF WslgTypeOK
<1>3. LogAsWritten' /\ EntriesTrue(ledger)'
  BY <1>0, <1>1 DEF LogAsWritten, EntriesTrue
<1>4. TailTrue'
  BY <1>0, <1>1 DEF TailTrue, Carried
<1>5. tail.offset <= Len(log) => ReadIsSeen(ledger, tail.offset)'
  BY <1>1 DEF WslgInv, ReadIsSeen
<1>6. ASSUME ~strayed'
      PROVE  PairedRight' /\ SnapshotLogged' /\ (tail.offset <= Len(log) => Unmistaken(ledger, tail.offset)')
  <2>1. ~strayed /\ PairedRight /\ SnapshotLogged /\ (tail.offset <= Len(log) => Unmistaken(ledger, tail.offset))
    BY <1>1, <1>6 DEF WslgInv
  <2>2. PairedRight' /\ SnapshotLogged'
    BY <1>1, <2>1 DEF PairedRight, SnapshotLogged, Logged
  <2>3. Due' \subseteq Due
    BY <1>1 DEF Due
  <2> QED
    BY <1>1, <2>1, <2>2, <2>3 DEF Unmistaken
<1> QED
  BY <1>1, <1>2, <1>3, <1>4, <1>5, <1>6 DEF WslgInv

\* The log is empty, so nothing of it is unread.
LEMMA RestartKeeps == ASSUME WslgInv, Restart PROVE WslgInv'
<1>0. WslgTypeOK /\ LogAsWritten /\ TailTrue /\ EntriesTrue(ledger)
  BY DEF WslgInv
<1>1. /\ log' = <<>> /\ open' = {}
      /\ strayed' = (strayed \/ stage = "waiting")
      /\ UNCHANGED <<time, launched, nativeId, tail, ledger, stage, snapshot, announced, given>>
  BY DEF Restart
<1>2. log' \in Seq(Pieces) /\ Len(log') = 0
  BY <1>1
<1>3. 1..Len(log') = {}
  BY <1>2
<1>4. WslgTypeOK'
  BY <1>0, <1>1, <1>2 DEF WslgTypeOK
<1>5. LogAsWritten' /\ EntriesTrue(ledger)'
  BY <1>0, <1>1, <1>3 DEF LogAsWritten, EntriesTrue
<1>6. TailTrue'
  <2>1. tail.offset \in Nat /\ Len(log) \in Nat
    BY <1>0 DEF WslgTypeOK
  <2>2. tail.offset <= 0 => tail.offset = 0 /\ tail.partial = <<>>
    BY <1>0, <2>1 DEF TailTrue, Carried
  <2>3. 0 % 2 # 1
    OBVIOUS
  <2>4. Carried(0)' = <<>>
    BY <2>3 DEF Carried
  <2>5. tail'.offset <= Len(log') => tail'.partial = Carried(tail.offset)'
    BY <1>1, <1>2, <2>2, <2>3 DEF Carried
  <2>6. stage' = "new" => announced' = {} /\ \A w \in Toplevels : given'[w] = 0
    BY <1>0, <1>1 DEF TailTrue
  <2> QED
    BY <1>1, <2>5, <2>6 DEF TailTrue
<1>7. ReadIsSeen(ledger, tail.offset)' /\ Unmistaken(ledger, tail.offset)'
  BY <1>1, <1>3 DEF ReadIsSeen, Unmistaken
<1>8. ASSUME ~strayed' PROVE PairedRight' /\ SnapshotLogged'
  <2>1. ~strayed /\ PairedRight /\ stage' # "waiting"
    BY <1>1, <1>8 DEF WslgInv
  <2> QED
    BY <1>1, <2>1 DEF PairedRight, SnapshotLogged
<1> QED
  BY <1>4, <1>5, <1>6, <1>7, <1>8 DEF WslgInv

\* Time passes, or nothing happens.
LEMMA UnchangedKeeps ==
    ASSUME WslgInv, time' \in Nat,
           UNCHANGED <<launched, open, nativeId, log, tail, ledger, stage, snapshot, announced, given,
                       strayed>>
    PROVE  WslgInv'
<1>0. WslgTypeOK /\ LogAsWritten /\ TailTrue /\ EntriesTrue(ledger)
  BY DEF WslgInv
<1>1. WslgTypeOK'
  BY <1>0 DEF WslgTypeOK
<1>2. LogAsWritten' /\ EntriesTrue(ledger)'
  BY <1>0 DEF LogAsWritten, EntriesTrue
<1>3. TailTrue'
  BY <1>0 DEF TailTrue, Carried
<1>4. tail.offset <= Len(log) => ReadIsSeen(ledger, tail.offset)'
  BY DEF WslgInv, ReadIsSeen
<1>5. ~strayed => /\ PairedRight' /\ SnapshotLogged'
                  /\ tail.offset <= Len(log) => Unmistaken(ledger, tail.offset)'
  BY DEF WslgInv, PairedRight, Unmistaken, SnapshotLogged, Logged, Due
<1> QED
  BY <1>1, <1>2, <1>3, <1>4, <1>5 DEF WslgInv

\* The invariant holds of an empty log and ledger.
LEMMA WslgInvInit == WslgInit => WslgInv
<1> SUFFICES ASSUME WslgInit PROVE WslgInv
  OBVIOUS
<1>1. Len(log) = 0 /\ log \in Seq(Pieces) /\ log = <<>>
  BY DEF WslgInit
<1>2. 1..Len(log) = {}
  BY <1>1
<1>3. WslgTypeOK
  <2>1. tail = [offset |-> 0, partial |-> <<>>] /\ <<>> \in Seq(Pieces)
    BY DEF WslgInit
  <2>2. tail \in [offset : Nat, partial : Seq(Pieces)]
    BY <2>1
  <2>3. time \in Nat /\ launched \in 0..Cardinality(Toplevels)
    BY WslgAssumption DEF WslgInit
  <2>4. nativeId \in [Toplevels -> Nat] /\ given \in [Toplevels -> Toplevels \cup {0}]
    BY DEF WslgInit
  <2>5. ledger \in [seen : SUBSET Nat, queue : SUBSET [of : Toplevels, at : Nat]]
    BY DEF WslgInit
  <2>6. /\ open \in SUBSET (1..launched) /\ announced \in SUBSET (1..launched)
        /\ stage \in {"new", "waiting", "established"} /\ snapshot \in SUBSET announced
        /\ strayed \in BOOLEAN
    BY DEF WslgInit
  <2> QED
    BY <1>1, <2>2, <2>3, <2>4, <2>5, <2>6 DEF WslgTypeOK
<1>4. LogAsWritten /\ ReadIsSeen(ledger, tail.offset) /\ Unmistaken(ledger, tail.offset)
  BY <1>2 DEF LogAsWritten, ReadIsSeen, Unmistaken
<1>5. TailTrue
  <2>1. 0 % 2 # 1
    OBVIOUS
  <2> QED
    BY <1>1, <2>1 DEF TailTrue, Carried, WslgInit
<1>6. EntriesTrue(ledger) /\ PairedRight /\ SnapshotLogged
  BY DEF EntriesTrue, PairedRight, SnapshotLogged, WslgInit
<1> QED
  BY <1>3, <1>4, <1>5, <1>6 DEF WslgInv

\* Each step keeps it.
LEMMA WslgInvStep == WslgInv /\ [WslgNext]_wslgVars => WslgInv'
<1> SUFFICES ASSUME WslgInv, [WslgNext]_wslgVars PROVE WslgInv'
  OBVIOUS
<1>0. time \in Nat
  BY DEF WslgInv, WslgTypeOK
<1>1. CASE Launch
  BY <1>1, LaunchKeeps
<1>2. CASE EndLine
  BY <1>2, EndLineKeeps
<1>3. CASE Restart
  BY <1>3, RestartKeeps
<1>4. CASE PassTime
  <2>1. time' \in Nat
    BY <1>0, <1>4 DEF PassTime
  <2> QED
    BY <1>4, <2>1, UnchangedKeeps DEF PassTime
<1>5. CASE \E w \in Toplevels : Leave(w)
  BY <1>5, LeaveKeeps
<1>6. CASE \E upTo \in Ends : InitialState(upTo)
  BY <1>6, InitialStateKeeps
<1>9. CASE \E found \in SUBSET Toplevels : Construct(found)
  BY <1>9, ConstructKeeps
<1>7. CASE \E found \in SUBSET Toplevels, upTo \in Ends : PollEvents(found, upTo)
  BY <1>7, PollEventsKeeps
<1>8. CASE UNCHANGED wslgVars
  BY <1>0, <1>8, UnchangedKeeps DEF wslgVars
<1> QED
  BY <1>1, <1>2, <1>3, <1>4, <1>5, <1>6, <1>7, <1>8, <1>9 DEF WslgNext

\* What has been read, taken as it was written, ends as the tail says.
LEMMA TailIsExact == WslgInv => TailExact
<1> SUFFICES ASSUME WslgInv, tail.offset <= Len(log)
             PROVE  LET read == SubSeq(log, 1, tail.offset)
                    IN  /\ tail.partial = IF read # <<>> /\ ~Last(read).ends THEN <<Last(read)>> ELSE <<>>
                        /\ \A i \in DOMAIN read : read[i].ends => nativeId[read[i].of] \in ledger.seen
  BY DEF TailExact
<1> DEFINE n == tail.offset
           read == SubSeq(log, 1, n)
<1>0. WslgTypeOK /\ LogAsWritten /\ TailTrue /\ ReadIsSeen(ledger, n)
  BY DEF WslgInv
<1>1. n \in Nat /\ n <= Len(log) /\ Len(log) \in Nat /\ \A i \in 1..Len(log) : log[i] \in Pieces
  BY <1>0 DEF WslgTypeOK
<1>2. tail.partial = Carried(n)
  BY <1>0, <1>1 DEF TailTrue
<1> HIDE DEF n
<1>3. read \in Seq(Pieces) /\ Len(read) = n /\ \A i \in 1..n : read[i] = log[i]
  <2>1. \A i \in 1..n : log[i] \in Pieces
    BY <1>1
  <2>2. /\ read \in Seq(Pieces) /\ Len(read) = IF 1 <= n THEN n - 1 + 1 ELSE 0
        /\ \A i \in 1..n - 1 + 1 : read[i] = log[1 + i - 1]
    BY <1>1, <2>1, SubSeqProperties
  <2>3. \A i \in 1..n : i \in 1..n - 1 + 1 /\ 1 + i - 1 = i
    BY <1>1
  <2>4. (IF 1 <= n THEN n - 1 + 1 ELSE 0) = n
    BY <1>1
  <2> QED
    BY <2>2, <2>3, <2>4
<1> HIDE DEF read
<1>4. tail.partial = IF read # <<>> /\ ~Last(read).ends THEN <<Last(read)>> ELSE <<>>
  <2>1. CASE n = 0
    <3>1. read = <<>>
      BY <1>3, <2>1
    <3>2. Carried(n) = <<>>
      BY <2>1 DEF Carried
    <3> QED
      BY <1>2, <3>1, <3>2
  <2>2. CASE n # 0
    <3>1. n \in 1..n /\ n \in 1..Len(log)
      BY <1>1, <2>2
    <3>2. read # <<>> /\ Last(read) = log[n]
      BY <1>3, <3>1 DEF Last
    <3>3. log[n].ends <=> n % 2 = 0
      BY <1>0, <3>1 DEF LogAsWritten
    <3>4. n % 2 \in {0, 1}
      BY <1>1
    <3> QED
      BY <1>2, <3>2, <3>3, <3>4 DEF Carried
  <2> QED
    BY <2>1, <2>2
<1>5. ASSUME NEW i \in DOMAIN read, read[i].ends PROVE nativeId[read[i].of] \in ledger.seen
  <2>1. i \in 1..n /\ i \in 1..Len(log) /\ i <= n /\ read[i] = log[i]
    BY <1>1, <1>3
  <2>2. i % 2 = 0
    BY <1>0, <1>5, <2>1 DEF LogAsWritten
  <2>3. nativeId[log[i].of] \in 1..Len(log) /\ i = 2 * nativeId[log[i].of]
    BY <1>0, <2>1, <2>2, LineIs
  <2> QED
    BY <1>0, <2>1, <2>3 DEF ReadIsSeen
<1> QED
  BY <1>4, <1>5 DEF read, n

(* IdsPaired, of any number of windows of any apps, however long an id is  *)
(* fresh, however the log is cut into reads and weston restarts: each line *)
(* is read once, and until an id's freshness misjudges its window when one *)
(* is announced, or weston gives out an id that was seen or is restarted   *)
(* before the hello, a window is given its own id, whether it was found by *)
(* the snapshot or announced before or after the consumer's hello.         *)
THEOREM IdsReachTheirWindows == WslgSteps => []IdsPaired
<1>1. WslgInit => WslgInv
  BY WslgInvInit
<1>2. WslgInv /\ [WslgNext]_wslgVars => WslgInv'
  BY WslgInvStep
<1>3. WslgInv => IdsPaired
  <2>1. WslgInv => PairedRight
    BY DEF WslgInv, PairedRight
  <2> QED
    BY <2>1, TailIsExact DEF IdsPaired
<1> QED
  BY <1>1, <1>2, <1>3, PTL DEF WslgSteps
=============================================================================
