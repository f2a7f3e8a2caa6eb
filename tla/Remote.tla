------------------------------- MODULE Remote -------------------------------
(***************************************************************************)
(* A provider and a consumer joined by two streams: SourceHost over        *)
(* ServerConnection (crates/accesskit_remote_server), driven by the loop   *)
(* of accesskit_remoted's main.rs, and ClientConnection                    *)
(* (crates/accesskit_remote_client), driven by the pump of the plugin's    *)
(* transport.rs.  The tree source behind the provider is unconstrained: it *)
(* may report anything, about any window, at any time.  What the consumer  *)
(* may rely on must come from the provider's own bookkeeping.              *)
(*                                                                         *)
(* A tree is abstracted to the fact that it was sent; time to the moments  *)
(* at which the heartbeat pings or gives up (Daemon models the clock).     *)
(***************************************************************************)
EXTENDS Session

CONSTANTS
    Windows,          \* every WindowId the source may name
    Snapshots,        \* window lists `initial_state` may return
    ProviderConfig,   \* the daemon's build
    ConsumerConfigs,  \* the builds the consumer may be
    MaxInFlight,      \* bound: frames towards the consumer before the source waits
    MaxAnswers        \* bound: frames the consumer has written or is about to

\* A source never lists a window twice: ids come from a counter.
Unrepeated(ws) == \A i, j \in 1..Len(ws) : ws[i] = ws[j] => i = j
ASSUME SnapshotsAssumption == Snapshots \subseteq {ws \in Seq(Windows) : Unrepeated(ws)}
ASSUME NoneAssumption == None \notin Windows

VARIABLES
    consumerConfig,  \* the consumer's build, which never changes
    provider,      \* the ServerConnection's session
    announced,     \* the ServerConnection's announced windows
    hosting,       \* serve(): "serving", "failed" (a HostError) or "ended"
    peerGoodbye,   \* SourceHost.peer_goodbye is set
    consumer,      \* the ClientConnection's session
    windows,       \* windows the ClientConnection holds
    trees,         \* those whose TreeStore has a tree
    focus,         \* ClientConnection.focus
    pumping,       \* pump(): "running", "refused" (handshake), "rejected" or "ended"
    down, up       \* frames written towards the consumer, towards the provider

providerVars == <<provider, announced, hosting, peerGoodbye>>
consumerVars == <<consumer, windows, trees, focus, pumping>>
connection == <<provider, announced, hosting, peerGoodbye,
                consumer, windows, trees, focus, pumping, down, up>>
vars == <<consumerConfig, connection>>

WindowAdded(w)   == Msg("WindowAdded", w)
WindowRemoved(w) == Msg("WindowRemoved", w)
TreeUpdate(w)    == Msg("TreeUpdate", w)
FocusChanged(f)  == Msg("FocusChanged", f)
Action(w)        == Msg("Action", w)

Init ==
    /\ consumerConfig \in ConsumerConfigs
    /\ provider = NewSession(ProviderConfig)
    /\ announced = {} /\ hosting = "serving" /\ peerGoodbye = FALSE
    /\ consumer = NewSession(consumerConfig)
    /\ windows = {} /\ trees = {} /\ focus = None /\ pumping = "running"
    /\ down = <<>> /\ up = <<>>

(***************************************************************************)
(* The provider.  Whatever a SourceHost call leaves in the output buffer   *)
(* is written at once, by the caller or as the HostError's farewell.       *)
(***************************************************************************)
WritesTakenEarly(s, messages) ==
    /\ down' = down \o s.out
    /\ provider' = Flushed(s)
Writes(s, messages) ==
    /\ down' = down \o s.out \o messages
    /\ provider' = Flushed(s)

Serving == hosting = "serving" /\ provider.phase = "Established"

\* The source hands over a SourceEvent at most while the stream has room.
Polled == Serving /\ Len(down) < MaxInFlight

(* SourceHost::pump with nothing to report, or before the handshake is     *)
(* done, when whatever the source reports is discarded.                    *)
PumpIdle ==
    /\ hosting = "serving" /\ provider.out # <<>>
    /\ Writes(provider, <<>>)
    /\ UNCHANGED <<announced, hosting, peerGoodbye, consumerVars, up>>

(* A source event the connection refuses ends the connection.  The session *)
(* is not closed by it.                                                    *)
Refuse ==
    /\ Writes(provider, <<>>)
    /\ hosting' = "failed"
    /\ UNCHANGED announced

PumpWindowAddedTreeless(w) ==
    /\ Polled
    /\ IF w \in announced
       THEN Refuse
       ELSE /\ announced' = announced \cup {w}
            /\ Writes(provider, <<WindowAdded(w)>>)
            /\ UNCHANGED hosting
    /\ UNCHANGED <<peerGoodbye, consumerVars, up>>
PumpWindowAdded(w) ==
    /\ Polled
    /\ IF w \in announced
       THEN Refuse
       ELSE /\ announced' = announced \cup {w}
            /\ Writes(provider, <<WindowAdded(w), TreeUpdate(w)>>)
            /\ UNCHANGED hosting
    /\ UNCHANGED <<peerGoodbye, consumerVars, up>>

PumpWindowRemovedKept(w) ==
    /\ Polled
    /\ IF w \notin announced
       THEN Refuse
       ELSE /\ Writes(provider, <<WindowRemoved(w)>>)
            /\ UNCHANGED <<announced, hosting>>
    /\ UNCHANGED <<peerGoodbye, consumerVars, up>>
PumpWindowRemoved(w) ==
    /\ Polled
    /\ IF w \notin announced
       THEN Refuse
       ELSE /\ announced' = announced \ {w}
            /\ Writes(provider, <<WindowRemoved(w)>>)
            /\ UNCHANGED hosting
    /\ UNCHANGED <<peerGoodbye, consumerVars, up>>

PumpTreeUpdate(w) ==
    /\ Polled
    /\ IF w \notin announced
       THEN Refuse
       ELSE Writes(provider, <<TreeUpdate(w)>>) /\ UNCHANGED <<announced, hosting>>
    /\ UNCHANGED <<peerGoodbye, consumerVars, up>>

PumpFocusUnchecked(f) ==
    /\ Polled
    /\ Writes(provider, <<FocusChanged(f)>>)
    /\ UNCHANGED <<announced, hosting, peerGoodbye, consumerVars, up>>
PumpFocus(f) ==
    /\ Polled
    /\ IF f # None /\ f \notin announced
       THEN Refuse
       ELSE Writes(provider, <<FocusChanged(f)>>) /\ UNCHANGED <<announced, hosting>>
    /\ UNCHANGED <<peerGoodbye, consumerVars, up>>

(* SourceHost::heartbeat: a ping when one is due; a goodbye when the peer  *)
(* has been silent for too long, after which the loop ends.  The silence   *)
(* bounds the pings that go unanswered; here MaxAnswers does.              *)
HeartbeatPings ==
    /\ Serving
    /\ Len(down) + Len(consumer.out) + Len(up) < MaxAnswers
    /\ Writes(Queue(provider, Ping), <<>>)
    /\ UNCHANGED <<announced, hosting, peerGoodbye, consumerVars, up>>

HeartbeatGivesUp ==
    /\ Serving
    /\ Writes(CloseSession(provider), <<>>)
    /\ hosting' = "ended"
    /\ UNCHANGED <<announced, peerGoodbye, consumerVars, up>>

(* sync_initial_state: each window of the list followed by its tree, then  *)
(* the focus; a focus on no announced window is an error that comes after  *)
(* the windows have been queued.                                           *)
Burst(ws) ==
    [i \in 1..2*Len(ws) |-> IF i % 2 = 1 THEN WindowAdded(ws[(i + 1) \div 2])
                                         ELSE TreeUpdate(ws[i \div 2])]
Members(ws) == {ws[i] : i \in 1..Len(ws)}

HostReadsHello ==
    /\ hosting = "serving" /\ provider.phase = "AwaitingHello" /\ up # <<>>
    /\ up' = Tail(up)
    /\ LET r == Receive(ProviderConfig, provider, Head(up)) IN
       IF r.failed
       THEN /\ Writes(r.session, <<>>)
            /\ hosting' = "failed"
            /\ UNCHANGED announced
       ELSE \E ws \in Snapshots, f \in Windows \cup {None} :
            /\ announced' = announced \cup Members(ws)
            /\ IF f = None \/ f \in Members(ws)
               THEN /\ Writes(r.session, Append(Burst(ws), FocusChanged(f)))
                    /\ UNCHANGED hosting
               ELSE Writes(r.session, Burst(ws)) /\ hosting' = "failed"
    /\ UNCHANGED <<peerGoodbye, consumerVars>>

(* A consumer that leaves before anything was read has its hello and its   *)
(* goodbye in one chunk.  The session has handled every frame of it before *)
(* the first event reaches the host, so the initial state meets a closed   *)
(* session: the first window is marked announced, sending it fails, and    *)
(* the other events are never looked at.                                   *)
HostReadsHelloAndGoodbye ==
    /\ hosting = "serving" /\ provider.phase = "AwaitingHello"
    /\ Len(up) >= 2 /\ up[Len(up)] = Goodbye
    /\ LET r == Receive(ProviderConfig, provider, Head(up)) IN
       /\ ~r.failed
       /\ Writes(Receive(ProviderConfig, r.session, Goodbye).session, <<>>)
    /\ up' = <<>>
    /\ \E ws \in Snapshots : announced' = announced \cup (IF ws = <<>> THEN {} ELSE {ws[1]})
    /\ hosting' = "failed"
    /\ UNCHANGED <<peerGoodbye, consumerVars>>

(* Everything else the provider reads: an action goes to the source, a     *)
(* pong is only noted, a goodbye is remembered and ends the loop, and any  *)
(* other message is an error that closes the session.                      *)
HostReads ==
    /\ Serving /\ up # <<>>
    /\ up' = Tail(up)
    /\ LET r == Receive(ProviderConfig, provider, Head(up)) IN
       IF r.failed \/ r.event.kind \notin {"NoEvent", "Action", "Pong", "ClosedEvent"}
       THEN /\ Writes(CloseSession(r.session), <<>>)
            /\ hosting' = "failed"
            /\ UNCHANGED peerGoodbye
       ELSE /\ Writes(r.session, <<>>)
            /\ peerGoodbye' = (peerGoodbye \/ r.event = ClosedEvent)
            /\ hosting' = IF r.event = ClosedEvent THEN "ended" ELSE hosting
    /\ UNCHANGED <<announced, consumerVars>>

(* Once the consumer hung up, the reader thread's channel disconnects when *)
(* everything was read, or a write fails before that.                      *)
HostSeesHangupExplained ==
    /\ hosting = "serving" /\ pumping # "running" /\ peerGoodbye
    /\ hosting' = "ended"
    /\ UNCHANGED <<provider, announced, peerGoodbye, consumerVars, down, up>>
HostSeesHangup ==
    /\ hosting = "serving" /\ pumping # "running"
    /\ hosting' = "ended"
    /\ UNCHANGED <<provider, announced, peerGoodbye, consumerVars, down, up>>

(***************************************************************************)
(* The consumer.                                                           *)
(***************************************************************************)
Running == pumping = "running"

ConsumerWrites ==
    /\ Running /\ consumer.out # <<>>
    /\ up' = up \o consumer.out
    /\ consumer' = Flushed(consumer)
    /\ UNCHANGED <<windows, trees, focus, pumping, providerVars, down>>

(* An action the platform asks for; one for a window that has gone is      *)
(* logged and dropped.                                                     *)
RequestAction(w) ==
    /\ Running /\ MaySend(consumer) /\ w \in windows
    /\ Len(up) + Len(consumer.out) < MaxAnswers
    /\ consumer' = Queue(consumer, Action(w))
    /\ UNCHANGED <<windows, trees, focus, pumping, providerVars, down, up>>

(* The pump writes before it reads, so its hello is out before the first   *)
(* frame is looked at.                                                     *)
MayRead ==
    /\ Running /\ down # <<>>
    /\ consumer.phase = "AwaitingHello" => consumer.out = <<>>

(* The frame being handled, and what the session makes of it.              *)
Arrived == Receive(consumerConfig, consumer, Head(down))

(* handle_input hands the session's event to handle_event; `ok` is         *)
(* whether that succeeds.  A refused message closes the session with a     *)
(* goodbye that the pump leaves unwritten.                                 *)
Arrives(kind) ==
    /\ MayRead
    /\ ~Arrived.failed /\ Arrived.event.kind = kind
    /\ down' = Tail(down)
    /\ UNCHANGED <<providerVars, up>>

Subject == Arrived.event.body

Concluding(ok) ==
    /\ consumer' = IF ok THEN Arrived.session ELSE CloseSession(Arrived.session)
    /\ pumping' = IF ok THEN pumping ELSE "rejected"

(* The old entry is replaced before the duplicate is noticed.              *)
OnWindowAdded ==
    /\ Arrives("WindowAdded")
    /\ windows' = windows \cup {Subject}
    /\ trees' = trees \ {Subject}
    /\ Concluding(Subject \notin windows)
    /\ UNCHANGED focus

OnWindowRemovedFocusKept ==
    /\ Arrives("WindowRemoved")
    /\ windows' = windows \ {Subject}
    /\ trees' = trees \ {Subject}
    /\ Concluding(Subject \in windows)
    /\ UNCHANGED focus
OnWindowRemovedTreeKept ==
    /\ Arrives("WindowRemoved")
    /\ windows' = windows \ {Subject}
    /\ focus' = IF focus = Subject THEN None ELSE focus
    /\ Concluding(Subject \in windows)
    /\ UNCHANGED trees
OnWindowRemoved ==
    /\ Arrives("WindowRemoved")
    /\ windows' = windows \ {Subject}
    /\ trees' = trees \ {Subject}
    /\ focus' = IF focus = Subject THEN None ELSE focus
    /\ Concluding(Subject \in windows)

OnTreeUpdate ==
    /\ Arrives("TreeUpdate")
    /\ trees' = IF Subject \in windows THEN trees \cup {Subject} ELSE trees
    /\ Concluding(Subject \in windows)
    /\ UNCHANGED <<windows, focus>>

OnFocusChanged ==
    /\ Arrives("FocusChanged")
    /\ LET ok == Subject = None \/ Subject \in windows
       IN  focus' = (IF ok THEN Subject ELSE focus) /\ Concluding(ok)
    /\ UNCHANGED <<windows, trees>>

(* The hello that establishes the session, a ping the session answers by   *)
(* itself, and the goodbye, on which the pump returns.                     *)
OnSessionFrame ==
    /\ \/ Arrives("EstablishedEvent") /\ UNCHANGED pumping
       \/ Arrives("NoEvent") /\ UNCHANGED pumping
       \/ Arrives("ClosedEvent") /\ pumping' = "ended"
    /\ consumer' = Arrived.session
    /\ UNCHANGED <<windows, trees, focus>>

(* A hello the consumer cannot work with, or one too many.                 *)
OnRefusal ==
    /\ MayRead /\ Arrived.failed
    /\ down' = Tail(down)
    /\ consumer' = Arrived.session
    /\ pumping' = IF consumer.phase = "AwaitingHello" THEN "refused" ELSE "rejected"
    /\ UNCHANGED <<windows, trees, focus, providerVars, up>>

ConsumerReads ==
    \/ OnWindowAdded \/ OnWindowRemoved \/ OnTreeUpdate \/ OnFocusChanged
    \/ OnSessionFrame \/ OnRefusal

(* PumpHandle::stop: say goodbye, write what there is, and go.             *)
ConsumerStops ==
    /\ Running
    /\ up' = up \o CloseSession(consumer).out
    /\ consumer' = Flushed(CloseSession(consumer))
    /\ pumping' = "ended"
    /\ UNCHANGED <<windows, trees, focus, providerVars, down>>

ConsumerSeesHangup ==
    /\ Running /\ hosting # "serving"
    /\ pumping' = "ended"
    /\ UNCHANGED <<consumer, windows, trees, focus, providerVars, down, up>>

-----------------------------------------------------------------------------
SourceReports ==
    \E w \in Windows : \/ PumpWindowAdded(w) \/ PumpWindowRemoved(w)
                       \/ PumpTreeUpdate(w)

ProviderStep ==
    \/ PumpIdle \/ SourceReports \/ (\E f \in Windows \cup {None} : PumpFocus(f))
    \/ HeartbeatPings \/ HeartbeatGivesUp
    \/ HostReadsHello \/ HostReadsHelloAndGoodbye \/ HostReads \/ HostSeesHangup

ConsumerStep ==
    \/ ConsumerWrites \/ (\E w \in Windows : RequestAction(w))
    \/ ConsumerReads \/ ConsumerStops \/ ConsumerSeesHangup

Next == (ProviderStep \/ ConsumerStep) /\ UNCHANGED consumerConfig

Spec == Init /\ [][Next]_vars

(* Both loops keep turning: the host's wakes every 50 ms to pump, the      *)
(* consumer's alternates writing and reading; a closed socket ends either. *)
Fairness ==
    /\ WF_connection(PumpIdle) /\ WF_connection(HostReadsHello \/ HostReads \/ HostSeesHangup)
    /\ WF_connection(ConsumerWrites) /\ WF_connection(ConsumerReads \/ ConsumerSeesHangup)
FairSpec == Spec /\ Fairness

-----------------------------------------------------------------------------
DownFrames ==
    [kind : {"WindowAdded", "WindowRemoved", "TreeUpdate"}, body : Windows]
      \cup [kind : {"FocusChanged"}, body : Windows \cup {None}]
      \cup {HelloOf(ProviderConfig), Goodbye, Ping}
UpFrames ==
    [kind : {"Action"}, body : Windows]
      \cup {HelloOf(c) : c \in ConsumerConfigs} \cup {Goodbye, Pong}

(* The state has the shape of the Rust types.                              *)
TypeOK ==
    /\ IsSession(provider, DownFrames) /\ IsSession(consumer, UpFrames)
    /\ announced \subseteq Windows
    /\ hosting \in {"serving", "failed", "ended"} /\ peerGoodbye \in BOOLEAN
    /\ windows \subseteq Windows /\ trees \subseteq windows /\ focus \in Windows \cup {None}
    /\ pumping \in {"running", "refused", "rejected", "ended"}
    /\ down \in Seq(DownFrames) /\ up \in Seq(UpFrames)

(* A consumer that holds the windows `held` and reads the first i frames   *)
(* of a stream holds, after them, these.                                   *)
Stays(stream, w, i, j) == \A k \in i..j : stream[k] # WindowRemoved(w)
Held(held, stream, w, i) ==
    \/ w \in held /\ Stays(stream, w, 1, i)
    \/ \E j \in 1..i : stream[j] = WindowAdded(w) /\ Stays(stream, w, j + 1, i)
View(held, stream, i) == {w \in Windows : Held(held, stream, w, i)}

(* Whatever the source claims, the consumer never meets a window it does   *)
(* not know, one it knows already, or a message it cannot place, each of   *)
(* which would make ClientConnection::handle_event drop the session.       *)
ConsumerNeverRejects == pumping # "rejected"

(* Between the frames that are still under way nothing is forgotten: when  *)
(* an established consumer has read everything, it holds exactly the       *)
(* windows the provider has announced, each with a tree.                   *)
MirrorAtRest ==
    (Serving /\ consumer.phase = "Established" /\ down = <<>>) =>
        windows = announced /\ trees = announced

(* The focused window is one the consumer holds, also when focus, removal  *)
(* and re-announcement of a window cross.                                  *)
FocusIsHeld == focus # None => focus \in windows

(* The step in which the host reads the consumer's goodbye records it:     *)
(* SourceHost::peer_goodbye is documented as "the reason the consumer gave *)
(* for leaving, if it said goodbye rather than simply vanishing".          *)
GoodbyeRemembered ==
    [][(\E i \in 1..Len(up) : up[i] = Goodbye /\ Len(up') <= Len(up) - i) => peerGoodbye']_vars

(* Two builds of which one cannot work with the other's hello both let go  *)
(* of the connection, although the side that refuses leaves its goodbye    *)
(* unwritten and the other may have found nothing to object to.            *)
Compatible ==
    /\ HelloAcceptable(ProviderConfig, HelloOf(consumerConfig))
    /\ HelloAcceptable(consumerConfig, HelloOf(ProviderConfig))
StrangersPart == ~Compatible => <>(~Running /\ hosting # "serving")

(* Whatever the provider announces the consumer comes to hold, unless it   *)
(* is taken back or one of them leaves first.                              *)
AnnouncedIsShown ==
    \A w \in Windows :
        (Serving /\ w \in announced)
          ~> (w \in windows \/ w \notin announced \/ ~Serving \/ ~Running)

Mirror == INSTANCE WindowMirror WITH
    published <- announced,
    pending   <- [i \in 1..Len(down) |-> View(windows, down, i)],
    shown     <- windows,
    live      <- hosting = "serving"

(* The connection implements WindowMirror.                                 *)
ImplementsMirror == Mirror!Spec
=============================================================================
