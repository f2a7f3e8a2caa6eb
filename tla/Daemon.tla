------------------------------- MODULE Daemon -------------------------------
(***************************************************************************)
(* The daemon of crates/accesskit_remoted: it serves one client at a time, *)
(* and SourceHost::heartbeat is what frees it from a client that is gone.  *)
(* Time is modelled here and nothing else is: a client's frames are only   *)
(* told apart by what they do to the clock.                                *)
(*                                                                         *)
(* One turn of the loop in main.rs (receive, pump, heartbeat, test for the *)
(* end) is one step; the bytes a client writes and the moment it vanishes  *)
(* fall between turns.  Instants are kept as ages, capped where the code   *)
(* no longer tells them apart.                                             *)
(***************************************************************************)
EXTENDS Naturals, Sequences

CONSTANTS
    Clients,        \* whoever connects, each once
    PingInterval,   \* PING_INTERVAL, in ticks
    PeerTimeout,    \* PEER_TIMEOUT, in ticks
    RoundTrip,      \* a live client's pong is back this many ticks after the ping, at most
    MaxStall,       \* the loop turns at least once in this many ticks
    MaxInbox,       \* bound: chunks one client has written ahead of the daemon
    Nobody

ASSUME DurationsAssumption ==
    /\ {PingInterval, PeerTimeout, RoundTrip, MaxStall} \subseteq Nat \ {0}
    /\ PingInterval <= PeerTimeout
    /\ MaxInbox \in Nat /\ Nobody \notin Clients /\ Nobody \notin Nat

VARIABLES
    presence,    \* presence[c]: "away", "connected", "vanished" or "left"
    inbox,       \* inbox[c]: chunks written by c and not read by the daemon
    pings,       \* ages of the pings the served client has not answered
    backlog,     \* connections not accepted yet
    serving,     \* the accepted client, or Nobody
    host,        \* its SourceHost: phase, heard, pinged (Nobody or an age), gaveUp
    stalled,     \* ticks since the loop last turned
    missed,      \* history: pings sent since the host last heard anything
    gone         \* history: ticks the daemon has served a client that is not there

daemonVars == <<presence, inbox, pings, backlog, serving, host, stalled, missed, gone>>

(* SourceHost::new.                                                        *)
NewHost == [phase |-> "AwaitingHello", heard |-> Nobody, pinged |-> Nobody, gaveUp |-> FALSE]

DaemonInit ==
    /\ presence = [c \in Clients |-> "away"]
    /\ inbox = [c \in Clients |-> <<>>]
    /\ pings = <<>> /\ backlog = <<>> /\ serving = Nobody
    /\ host = NewHost /\ stalled = 0 /\ missed = 0 /\ gone = 0

(***************************************************************************)
(* The clients.                                                            *)
(***************************************************************************)
Here(c) == presence[c] = "connected"

Connect(c) ==
    /\ presence[c] = "away"
    /\ presence' = [presence EXCEPT ![c] = "connected"]
    /\ backlog' = Append(backlog, c)
    /\ UNCHANGED <<inbox, pings, serving, host, stalled, missed, gone>>

Says(c, kind) ==
    /\ Here(c) /\ Len(inbox[c]) < MaxInbox
    /\ inbox' = [inbox EXCEPT ![c] = Append(@, kind)]
    /\ UNCHANGED <<backlog, serving, host, stalled, missed, gone>>

\* The session answers with its hello once, unasked.
Greet(c) ==
    /\ \A i \in DOMAIN inbox[c] : inbox[c][i] # "Hello"
    /\ (serving = c => host.phase = "AwaitingHello")
    /\ Says(c, "Hello")
    /\ UNCHANGED <<presence, pings>>

\* Session::handle_input answers a ping by itself.
Answer(c) ==
    /\ serving = c /\ pings # <<>>
    /\ Says(c, "Pong") /\ pings' = Tail(pings)
    /\ UNCHANGED presence

SayGoodbye(c) ==
    /\ serving = c /\ host.phase = "Established"
    /\ Says(c, "Goodbye")
    /\ presence' = [presence EXCEPT ![c] = "left"]
    /\ UNCHANGED pings

\* The socket is closed, or the other end dies without saying so.
HangUp(c) ==
    /\ Here(c)
    /\ presence' = [presence EXCEPT ![c] = "left"]
    /\ UNCHANGED <<inbox, pings, backlog, serving, host, stalled, missed, gone>>

Vanish(c) ==
    /\ Here(c)
    /\ presence' = [presence EXCEPT ![c] = "vanished"]
    /\ UNCHANGED <<inbox, pings, backlog, serving, host, stalled, missed, gone>>

(***************************************************************************)
(* The daemon.                                                             *)
(***************************************************************************)
(* A socket, a host and a pump for the next connection.                    *)
Accept ==
    /\ serving = Nobody /\ backlog # <<>>
    /\ serving' = Head(backlog) /\ backlog' = Tail(backlog)
    /\ host' = NewHost /\ stalled' = 0 /\ missed' = 0 /\ gone' = 0 /\ pings' = <<>>
    /\ UNCHANGED <<presence, inbox>>

(* SourceHost::handle_input: whatever arrives is proof of life.            *)
HearDeaf(h, chunk) ==
    [h EXCEPT !.heard = IF chunk = "Hello" THEN 0 ELSE h.heard,
              !.phase = CASE chunk = "Hello"   -> "Established"
                          [] chunk = "Goodbye" -> "Closed"
                          [] OTHER             -> h.phase]
Hear(h, chunk) ==
    [h EXCEPT !.heard = 0,
              !.phase = CASE chunk = "Hello"   -> "Established"
                          [] chunk = "Goodbye" -> "Closed"
                          [] OTHER             -> h.phase]

(* SourceHost::heartbeat: nothing before the handshake; a goodbye to a     *)
(* peer not heard of for PEER_TIMEOUT; a ping when the last one is         *)
(* PING_INTERVAL old.                                                      *)
PingDue(h) == h.pinged = Nobody \/ h.pinged >= PingInterval

HeartbeatPatient(h) ==
    IF h.phase = "Established" /\ h.heard < PeerTimeout /\ PingDue(h)
    THEN [host |-> [h EXCEPT !.pinged = 0], ping |-> TRUE]
    ELSE [host |-> h, ping |-> FALSE]
Heartbeat(h) ==
    IF h.phase # "Established"
    THEN [host |-> h, ping |-> FALSE]
    ELSE IF h.heard >= PeerTimeout
         THEN [host |-> [h EXCEPT !.phase = "Closed", !.gaveUp = TRUE], ping |-> FALSE]
         ELSE IF PingDue(h) THEN [host |-> [h EXCEPT !.pinged = 0], ping |-> TRUE]
                            ELSE [host |-> h, ping |-> FALSE]

(* One turn: at most one chunk is received, then the heartbeat, then the   *)
(* loop ends if the session has.  A hangup ends it when all was read, or   *)
(* when a write fails before that.                                         *)
Turn ==
    /\ serving # Nobody
    /\ LET heard == inbox[serving] # <<>>
           h     == IF heard THEN Hear(host, Head(inbox[serving])) ELSE host
           beat  == Heartbeat(h)
       IN  /\ heard \/ presence[serving] # "left"
           /\ inbox' = IF heard THEN [inbox EXCEPT ![serving] = Tail(@)] ELSE inbox
           /\ host' = beat.host
           /\ pings' = IF beat.ping THEN Append(pings, 0) ELSE pings
           /\ missed' = (IF heard THEN 0 ELSE missed) + (IF beat.ping THEN 1 ELSE 0)
           /\ serving' = IF beat.host.phase = "Closed" THEN Nobody ELSE serving
    /\ stalled' = 0
    /\ UNCHANGED <<presence, backlog, gone>>

SeeHangup ==
    /\ serving # Nobody /\ presence[serving] = "left"
    /\ serving' = Nobody /\ inbox' = [inbox EXCEPT ![serving] = <<>>]
    /\ stalled' = 0
    /\ UNCHANGED <<presence, pings, backlog, host, missed, gone>>

(***************************************************************************)
(* Time passes for everyone at once, but not past the moment by which the  *)
(* loop has turned or a live client's pong is back.                        *)
(***************************************************************************)
LongGone == PeerTimeout + (MaxInbox + 1) * MaxStall + 1
Older(age, cap) == IF age = Nobody \/ age = cap THEN age ELSE age + 1

Tick ==
    /\ serving # Nobody
    /\ stalled < MaxStall
    /\ Here(serving) => \A i \in DOMAIN pings : pings[i] < RoundTrip
    /\ stalled' = stalled + 1
    /\ host' = [host EXCEPT !.heard = Older(@, PeerTimeout), !.pinged = Older(@, PingInterval)]
    /\ pings' = [i \in DOMAIN pings |-> Older(pings[i], RoundTrip)]
    /\ gone' = IF Here(serving) THEN gone ELSE Older(gone, LongGone)
    /\ UNCHANGED <<presence, inbox, backlog, serving, missed>>

-----------------------------------------------------------------------------
ClientStep ==
    \E c \in Clients :
        Connect(c) \/ Greet(c) \/ Answer(c) \/ SayGoodbye(c) \/ HangUp(c) \/ Vanish(c)
DaemonStep == Accept \/ Turn \/ SeeHangup

DaemonNext == ClientStep \/ DaemonStep \/ Tick

(* The loop turns and time passes; nothing is expected of a client.        *)
DaemonFairness == WF_daemonVars(Accept) /\ WF_daemonVars(Turn \/ SeeHangup) /\ WF_daemonVars(Tick)
DaemonSpec == DaemonInit /\ [][DaemonNext]_daemonVars /\ DaemonFairness

-----------------------------------------------------------------------------
(* The state has the shape of the Rust types; a host that is established   *)
(* has heard of its peer (so get_or_insert in heartbeat never inserts),    *)
(* and serve does not outlive its session.                                 *)
DaemonTypeOK ==
    /\ presence \in [Clients -> {"away", "connected", "vanished", "left"}]
    /\ inbox \in [Clients -> Seq({"Hello", "Pong", "Goodbye"})]
    /\ pings \in Seq(0..RoundTrip) /\ backlog \in Seq(Clients)
    /\ serving \in Clients \cup {Nobody}
    /\ host.phase \in {"AwaitingHello", "Established", "Closed"} /\ host.gaveUp \in BOOLEAN
    /\ host.heard \in 0..PeerTimeout \cup {Nobody} /\ host.pinged \in 0..PingInterval \cup {Nobody}
    /\ host.phase = "Established" => host.heard # Nobody
    /\ serving # Nobody => host.phase # "Closed"

GivesUp == ~host.gaveUp /\ host'.gaveUp

(* A client that is there, answering its pings within RoundTrip, is never  *)
(* given up on, however its pong races the timeout; nor is anybody who has *)
(* not left unanswered as many pings as the timeout has room for, whenever *)
(* the last sign of life came.                                             *)
LivePeerKept ==
    [][GivesUp => /\ ~Here(serving)
                  /\ missed >= (PeerTimeout - 1) \div (PingInterval + MaxStall - 1)]_daemonVars

(* A dead client cannot hold the daemon for longer than PEER_TIMEOUT after *)
(* the last of what it had written was read.                               *)
SlotFreedInTime ==
    serving # Nobody /\ host.phase = "Established" => gone < LongGone

(* The daemon gets free of a client that hung up, and of one that vanished *)
(* after the handshake, so that whoever waits behind it is served.         *)
DeadSlotFreed ==
    \A c \in Clients :
        (serving = c /\ (presence[c] = "left" \/ (presence[c] = "vanished" /\ host.phase = "Established")))
          ~> serving # c

(* What heartbeat is documented to be for ("Without this the daemon can be *)
(* held by a client that no longer exists", accesskit_remoted's main.rs):  *)
(* the daemon gets free of every client that vanished.                     *)
NeverHeldByTheDead ==
    \A c \in Clients : (serving = c /\ presence[c] = "vanished") ~> serving # c
=============================================================================
