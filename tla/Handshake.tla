----------------------------- MODULE Handshake -----------------------------
(***************************************************************************)
(* Two sessions of crates/accesskit_remote joined by two byte streams:     *)
(* every pairing of builds (roles, versions, codecs), chunks that hold any *)
(* number of frames, application messages and a close by either side at    *)
(* any moment.                                                             *)
(***************************************************************************)
EXTENDS Session, SequencesExt

CONSTANTS
    Pairings,     \* the pairs of builds that meet: functions from Peers to configurations
    MaxSends      \* bound: what the two applications send between them

Peers == {"left", "right"}
Other(p) == IF p = "left" THEN "right" ELSE "left"

ASSUME MaxSendsAssumption == MaxSends \in Nat

VARIABLES
    config,       \* the build each peer runs, fixed at the start
    session,      \* each peer's Session
    wire,         \* wire[p]: written towards p and not yet read by it
    sends,        \* calls of `send` so far
    sent,         \* history: application messages each peer handed to `send`
    got           \* history: application messages its handle_input returned, in order

handshakeVars == <<config, session, wire, sends, sent, got>>

HandshakeInit ==
    /\ config \in Pairings
    /\ session = [p \in Peers |-> NewSession(config[p])]
    /\ wire = [p \in Peers |-> <<>>]
    /\ sends = 0 /\ sent = [p \in Peers |-> <<>>]
    /\ got = [p \in Peers |-> <<>>]

(***************************************************************************)
(* handle_input on a chunk of whole frames: they are drained one after     *)
(* another until the session closes, and an error hands the caller none of *)
(* the events the same chunk had produced before it.                       *)
(***************************************************************************)
Drain(cfg, acc, m) ==
    IF acc.failed \/ acc.session.phase = "Closed" THEN acc
    ELSE LET r == Receive(cfg, acc.session, m)
         IN  [session |-> r.session,
              events  |-> IF r.event.kind = "App" THEN Append(acc.events, r.event) ELSE acc.events,
              failed  |-> r.failed]

HandleInput(cfg, s, chunk) ==
    LET after[n \in 0..Len(chunk)] ==
            IF n = 0 THEN [session |-> s, events |-> <<>>, failed |-> FALSE]
            ELSE Drain(cfg, after[n - 1], chunk[n])
        r == after[Len(chunk)]
    IN  IF r.failed THEN [r EXCEPT !.events = <<>>] ELSE r

Read(p) ==
    \E n \in 1..Len(wire[p]) :
        LET r == HandleInput(config[p], session[p], SubSeq(wire[p], 1, n)) IN
        /\ session' = [session EXCEPT ![p] = r.session]
        /\ got' = [got EXCEPT ![p] = @ \o r.events]
        /\ wire' = [wire EXCEPT ![p] = SubSeq(@, n + 1, Len(@))]
        /\ UNCHANGED <<config, sends, sent>>

Write(p) ==
    /\ session[p].out # <<>>
    /\ wire' = [wire EXCEPT ![Other(p)] = @ \o session[p].out]
    /\ session' = [session EXCEPT ![p] = Flushed(@)]
    /\ UNCHANGED <<config, sends, sent, got>>

(* An application message, or the Ping an application sends for liveness.  *)
Send(p) ==
    /\ MaySend(session[p]) /\ sends < MaxSends
    /\ sends' = sends + 1
    /\ \/ session' = [session EXCEPT ![p] = Queue(@, Ping)] /\ UNCHANGED sent
       \/ LET m == Msg("App", Len(sent[p])) IN
              /\ session' = [session EXCEPT ![p] = Queue(@, m)]
              /\ sent' = [sent EXCEPT ![p] = Append(@, m)]
    /\ UNCHANGED <<config, wire, got>>

Close(p) ==
    /\ session[p].phase # "Closed"
    /\ session' = [session EXCEPT ![p] = CloseSession(@)]
    /\ UNCHANGED <<config, wire, sends, sent, got>>

HandshakeNext == \E p \in Peers : Read(p) \/ Write(p) \/ Send(p) \/ Close(p)

(* Both transports loop writing their output and reading the peer's bytes; *)
(* sending and closing are the applications' own business.                 *)
HandshakeFairness == \A p \in Peers : WF_handshakeVars(Read(p)) /\ WF_handshakeVars(Write(p))
HandshakeSpec == HandshakeInit /\ [][HandshakeNext]_handshakeVars /\ HandshakeFairness

-----------------------------------------------------------------------------
Frames == {HelloOf(c[p]) : c \in Pairings, p \in Peers} \cup {Goodbye, Ping, Pong}
             \cup {Msg("App", i) : i \in 0..MaxSends-1}

(* Shapes of sessions, wires and logs; an established session has a codec. *)
HandshakeTypeOK ==
    /\ config \in Pairings
    /\ \A p \in Peers :
          /\ session[p].phase \in Phases
          /\ session[p].phase = "Established" => session[p].codec # None
          /\ session[p].out \in Seq(Frames) /\ wire[p] \in Seq(Frames)
          /\ Len(sent[p]) <= sends
    /\ sends \in 0..MaxSends

(* Both sides of an established pair run the same codec, whichever of them *)
(* did the choosing (negotiate_codec is evaluated independently on each).  *)
CodecsAgree ==
    (\A p \in Peers : session[p].phase = "Established") =>
        session["left"].codec = session["right"].codec

(* However the stream was cut into chunks, and whatever handshake, pings   *)
(* and goodbyes surround them, application messages are handed up exactly  *)
(* in the order sent, none invented, none repeated, none skipped.          *)
InOrder == \A p \in Peers : IsPrefix(got[p], sent[Other(p)])

(* A side says goodbye at most once and nothing follows it, on the wire or *)
(* still in the output buffer (an answer to a ping that arrives in the     *)
(* same chunk as an error, say).                                           *)
GoodbyeIsLast ==
    \A p \in Peers :
        LET stream == wire[Other(p)] \o session[p].out
        IN  \A i \in 1..Len(stream) : stream[i].kind = "Goodbye" => i = Len(stream)

(* Nobody is left half-open: once every byte is written and read, the two  *)
(* ends agree on whether there is a session, including when only one of    *)
(* them found the other's hello unacceptable.                              *)
NoHalfOpen ==
    (\A p \in Peers : wire[p] = <<>> /\ session[p].out = <<>>) =>
        session["left"].phase = session["right"].phase

(* What the two ends have in common at every moment, in whatever order     *)
(* their hellos, errors and goodbyes cross.                                *)
EndsAgree == CodecsAgree /\ GoodbyeIsLast /\ NoHalfOpen

(* A handshake ends, in agreement or in a goodbye, on both sides; and a    *)
(* close by one side reaches the other.                                    *)
HandshakeEnds ==
    <>(\A p \in Peers : session[p].phase # "AwaitingHello")
CloseReachesPeer ==
    \A p \in Peers : session[p].phase = "Closed" ~> session[Other(p)].phase = "Closed"
=============================================================================
