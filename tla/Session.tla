------------------------------ MODULE Session ------------------------------
(***************************************************************************)
(* The sans-I/O protocol session of crates/accesskit_remote/src/session.rs:*)
(* handshake, codec negotiation, keep-alive and shutdown.  A session is a  *)
(* value, and each operation of `impl Session` is an operator on it, so    *)
(* that the provider's and the consumer's state machines can both be built *)
(* from the same definitions.  A frame is the message it carries (framing  *)
(* is the wire's business); names and reasons are left out.                *)
(*                                                                         *)
(* Here and in the other modules, a definition XyzMistake standing right   *)
(* before Xyz is a mutant of Xyz, used by nothing: a mistake the code      *)
(* could hold, listed in PROJECT.json with the property that notices it.   *)
(***************************************************************************)
EXTENDS Naturals, Sequences

CONSTANT None    \* the absent window, body or codec

Phases == {"AwaitingHello", "Established", "Closed"}

Msg(kind, body) == [kind |-> kind, body |-> body]
Goodbye == Msg("Goodbye", None)
Pong    == Msg("Pong", None)
Ping    == Msg("Ping", None)

(* What a frame makes the session report: the message itself, or one of    *)
(* these.                                                                  *)
NoEvent          == Msg("NoEvent", None)
EstablishedEvent == Msg("EstablishedEvent", None)
ClosedEvent      == Msg("ClosedEvent", None)

Opposite(role) == IF role = "Provider" THEN "Consumer" ELSE "Provider"

(* A configuration is [role, version, oldest, codecs]: the build's         *)
(* PROTOCOL_VERSION and MIN_PROTOCOL_VERSION, and its codecs in order of   *)
(* preference.                                                             *)
HelloOf(cfg) ==
    Msg("Hello", [role |-> cfg.role, version |-> cfg.version, codecs |-> cfg.codecs])

NewSessionSilent(cfg) ==
    [phase |-> "AwaitingHello", codec |-> None, out |-> <<>>]
NewSession(cfg) ==
    [phase |-> "AwaitingHello", codec |-> None, out |-> <<HelloOf(cfg)>>]

(* A session whose output holds only the given frames.                     *)
IsSession(s, frames) ==
    /\ s = [phase |-> s.phase, codec |-> s.codec, out |-> s.out]
    /\ s.phase \in Phases /\ s.out \in Seq(frames)

QueueFront(s, m) == [s EXCEPT !.out = <<m>> \o @]
Queue(s, m) == [s EXCEPT !.out = Append(@, m)]

(* A session that has closed already says goodbye no second time.          *)
CloseSilent(s) == [s EXCEPT !.phase = "Closed"]
CloseSession(s) ==
    IF s.phase = "Closed" THEN s ELSE [Queue(s, Goodbye) EXCEPT !.phase = "Closed"]

(* The provider's preferences decide, whichever side is asking.            *)
NegotiateOwnFirst(cfg, hello) ==
    LET common == {i \in 1..Len(cfg.codecs) :
                      \E j \in 1..Len(hello.codecs) : hello.codecs[j] = cfg.codecs[i]}
    IN  IF common = {} THEN None
        ELSE cfg.codecs[CHOOSE i \in common : \A k \in common : i <= k]

NegotiateCodec(cfg, hello) ==
    LET provider == IF cfg.role = "Provider" THEN cfg.codecs ELSE hello.codecs
        consumer == IF cfg.role = "Provider" THEN hello.codecs ELSE cfg.codecs
        common   == {i \in 1..Len(provider) :
                        \E j \in 1..Len(consumer) : consumer[j] = provider[i]}
    IN  IF common = {} THEN None
        ELSE provider[CHOOSE i \in common : \A k \in common : i <= k]

HelloAcceptableAnyCodec(cfg, m) ==
    /\ m.kind = "Hello"
    /\ m.body.role = Opposite(cfg.role)
    /\ cfg.version >= cfg.oldest /\ m.body.version >= cfg.oldest
HelloAcceptable(cfg, m) ==
    /\ m.kind = "Hello"
    /\ m.body.role = Opposite(cfg.role)
    /\ cfg.version >= cfg.oldest /\ m.body.version >= cfg.oldest
    /\ NegotiateCodec(cfg, m.body) # None

Outcome(s, event, failed) == [session |-> s, event |-> event, failed |-> failed]

HandleHello(cfg, s, m) ==
    IF HelloAcceptable(cfg, m)
    THEN Outcome([s EXCEPT !.phase = "Established", !.codec = NegotiateCodec(cfg, m.body)],
                 EstablishedEvent, FALSE)
    ELSE Outcome(CloseSession(s), NoEvent, TRUE)

(* One frame through handle_input: a closed session swallows it; a fatal   *)
(* error queues the goodbye and closes.                                    *)
Receive(cfg, s, m) ==
    CASE s.phase = "Closed"        -> Outcome(s, NoEvent, FALSE)
      [] s.phase = "AwaitingHello" -> HandleHello(cfg, s, m)
      [] OTHER ->
           CASE m.kind = "Hello"   -> Outcome(CloseSession(s), NoEvent, TRUE)
             [] m.kind = "Goodbye" -> Outcome([s EXCEPT !.phase = "Closed"], ClosedEvent, FALSE)
             [] m.kind = "Ping"    -> Outcome(Queue(s, Pong), NoEvent, FALSE)
             [] OTHER              -> Outcome(s, m, FALSE)

(* What `send` accepts.                                                    *)
MaySend(s) == s.phase = "Established"

Flushed(s) == [s EXCEPT !.out = <<>>]    \* take_output, its bytes written elsewhere
=============================================================================
