-------------------------------- MODULE Dvc ---------------------------------
(***************************************************************************)
(* The plugin against a real remote machine: the `AccessKit` channel       *)
(* (listener.rs, channel.rs, dvc_session.rs) and the host that keeps one   *)
(* hosted on the session window (desktop_host.rs).  What travels through  *)
(* the adapter is Desktop's business; here are the threads that put it     *)
(* there and take it away, and the two that write to the channel.          *)
(*                                                                         *)
(* Threads: the RDP client's own (open, data, close), the heartbeat and    *)
(* the action pump of each channel, and the one that owns the session      *)
(* window, on which the in-context hook runs.  SHARED, `installed` and the *)
(* client are read and written by several of them.                         *)
(***************************************************************************)
EXTENDS Naturals, Sequences

CONSTANTS
    MaxChannels,   \* bound: channels the server opens, one after the other
    MaxWritten     \* bound: frames the consumer produces on one channel

ASSUME DvcAssumption == MaxChannels \in Nat

Channels == 1..MaxChannels
NoChannel == 0
\* Who sets the title of the session window: the RDP client's thread when a
\* channel opens, a heartbeat, or the RDP client for reasons of its own.
Opener == 0
Itself == MaxChannels + 1

VARIABLES
    channel,       \* the channel opened last
    client,        \* what the client's thread is at
    slot,          \* SHARED: the channel whose HostShared it holds
    found,         \* HostShared.target is a window
    installed,     \* HostShared.installed of each channel
    beat,          \* the heartbeat thread of each channel
    stopping,      \* channels whose beat_stop is set
    sent,          \* threads that wait for the title they set to be dealt with
    proc,          \* the hook proc on the window's thread
    hosted,       \* the channel whose adapter is on the session window
    detaches,      \* detach messages in the window's queue
    raced,         \* history: a hook proc held the state of a stopped host
    abandoned,     \* history: a channel whose session failed to start
    taken,         \* frames a thread took from the connection, to be written
    queued,        \* frames in the connection's output
    wire,          \* frames written to the channel
    greeted,       \* the action pump has flushed unprompted
    peer           \* the provider: "silent", "greeting", "met" or "showing"

hostVars == <<slot, found, installed, beat, stopping, sent, proc, hosted, detaches,
              raced, abandoned>>
writerVars == <<taken, queued, wire, greeted, peer>>
dvcVars == <<channel, client, hostVars, writerVars>>

Idle == [at |-> "idle", of |-> NoChannel, for |-> Itself]

DvcInit ==
    /\ channel = NoChannel /\ client = "closed"
    /\ slot = NoChannel /\ found = FALSE
    /\ installed = [c \in Channels |-> FALSE]
    /\ beat = [c \in Channels |-> "none"] /\ stopping = {}
    /\ sent = {} /\ proc = Idle /\ hosted = NoChannel /\ detaches = 0
    /\ raced = FALSE /\ abandoned = FALSE
    /\ taken = [client |-> <<>>, pump |-> <<>>] /\ queued = <<>> /\ wire = <<>>
    /\ greeted = FALSE /\ peer = "silent"

(***************************************************************************)
(* OnNewChannelConnection: a client that has queued its hello, the host    *)
(* with its first nudge, then the heartbeat and the action pump.           *)
(***************************************************************************)
Open ==
    /\ client = "closed" /\ channel < MaxChannels
    /\ channel' = channel + 1
    /\ client' = "nudging"
    /\ slot' = channel + 1
    /\ found' \in BOOLEAN
    /\ taken' = [client |-> <<>>, pump |-> <<>>] /\ queued' = <<"hello">> /\ wire' = <<>>
    /\ greeted' = FALSE /\ peer' = "silent"
    /\ UNCHANGED <<installed, beat, stopping, sent, proc, hosted, detaches, raced, abandoned>>

\* nudge() has something to do only for a window without the adapter.
NeedsNudge == slot # NoChannel /\ ~installed[slot] /\ found

OpenerNudges ==
    /\ client = "nudging" /\ NeedsNudge
    /\ sent' = sent \cup {Opener} /\ client' = "nudged"
    /\ UNCHANGED <<channel, slot, found, installed, beat, stopping, proc, hosted, detaches,
                   raced, abandoned, writerVars>>

\* The opener goes on when its nudge, if one was needed, has been dealt with.
Hosting ==
    /\ \/ client = "nudged" /\ Opener \notin sent
       \/ client = "nudging" /\ ~NeedsNudge
    /\ beat' = [beat EXCEPT ![channel] = "awake"]
    /\ UNCHANGED <<channel, slot, found, installed, stopping, sent, proc, hosted, detaches,
                   raced, writerVars>>
Opened == Hosting /\ client' = "open" /\ UNCHANGED abandoned

(* The channel cannot be marshalled: the client is told no, and the host   *)
(* that was started for it is left as it is.                               *)
OpenFails == Hosting /\ client' = "closed" /\ abandoned' = TRUE

(***************************************************************************)
(* The window's thread.  Whenever its title is set the hook proc runs      *)
(* there: it reads SHARED, claims the install and installs, and other      *)
(* threads run between these.  Who set the title waits for the proc.       *)
(***************************************************************************)
NothingToHost(s) ==
    /\ proc = Idle /\ s \in sent /\ ~NeedsNudge
    /\ sent' = sent \ {s}
    /\ UNCHANGED <<channel, client, slot, found, installed, beat, stopping, proc, hosted,
                   detaches, raced, abandoned, writerVars>>

ReadSlot(s) ==
    /\ proc = Idle /\ NeedsNudge /\ s \in sent \cup {Itself}
    /\ proc' = [at |-> "read", of |-> slot, for |-> s]
    /\ raced' = (raced \/ client = "clearing")
    /\ UNCHANGED <<channel, client, slot, found, installed, beat, stopping, sent, hosted,
                   detaches, abandoned, writerVars>>

ProcReturns == proc' = Idle /\ sent' = sent \ {proc.for}

Claim ==
    /\ proc.at = "read"
    /\ IF installed[proc.of]
       THEN ProcReturns /\ UNCHANGED installed
       ELSE /\ proc' = [proc EXCEPT !.at = "claimed"]
            /\ installed' = [installed EXCEPT ![proc.of] = TRUE]
            /\ UNCHANGED sent
    /\ UNCHANGED <<channel, client, slot, found, beat, stopping, hosted, detaches,
                   raced, abandoned, writerVars>>

\* install_visible_desktop_adapter refuses a window that carries an adapter.
InstallClaimKept ==
    /\ proc.at = "claimed" /\ ProcReturns
    /\ hosted' = IF hosted = NoChannel THEN proc.of ELSE hosted
    /\ UNCHANGED <<channel, client, slot, found, installed, beat, stopping, detaches,
                   raced, abandoned, writerVars>>
Install ==
    /\ proc.at = "claimed" /\ ProcReturns
    /\ IF hosted = NoChannel
       THEN hosted' = proc.of /\ UNCHANGED installed
       ELSE installed' = [installed EXCEPT ![proc.of] = FALSE] /\ UNCHANGED hosted
    /\ UNCHANGED <<channel, client, slot, found, beat, stopping, detaches,
                   raced, abandoned, writerVars>>

HandleDetach ==
    /\ proc = Idle /\ detaches > 0
    /\ detaches' = detaches - 1 /\ hosted' = NoChannel
    /\ UNCHANGED <<channel, client, slot, found, installed, beat, stopping, sent, proc,
                   raced, abandoned, writerVars>>

(* One turn of a heartbeat.  Posting a sync is left out; a nudge waits for *)
(* the window's thread.                                                    *)
BeatNudges(c) ==
    /\ beat[c] = "awake" /\ c \notin stopping \cup sent /\ NeedsNudge
    /\ sent' = sent \cup {c}
    /\ UNCHANGED <<channel, client, slot, found, installed, beat, stopping, proc, hosted,
                   detaches, raced, abandoned, writerVars>>
BeatEnds(c) ==
    /\ beat[c] = "awake" /\ c \in stopping \ sent
    /\ beat' = [beat EXCEPT ![c] = "gone"]
    /\ UNCHANGED <<channel, client, slot, found, installed, stopping, sent, proc, hosted, detaches,
                   raced, abandoned, writerVars>>

(***************************************************************************)
(* OnClose: DvcSession::stop joins the action pump, DesktopHost::stop the  *)
(* heartbeat; then the adapter is taken back and SHARED cleared.          *)
(***************************************************************************)
CloseUnflagged ==
    /\ client = "open" /\ taken.client = <<>>
    /\ client' = "joining"
    /\ UNCHANGED <<channel, slot, found, installed, beat, stopping, sent, proc, hosted,
                   detaches, raced, abandoned, writerVars>>
Close ==
    /\ client = "open" /\ taken.client = <<>>
    /\ client' = "joining"
    /\ stopping' = stopping \cup {channel}
    /\ UNCHANGED <<channel, slot, found, installed, beat, sent, proc, hosted, detaches,
                   raced, abandoned, writerVars>>

Joined == client = "joining" /\ beat[channel] = "gone" /\ taken.pump = <<>>

TakeBackBlindly ==
    /\ Joined
    /\ client' = "clearing"
    /\ IF slot # NoChannel
       THEN installed' = [installed EXCEPT ![slot] = FALSE]
       ELSE UNCHANGED installed
    /\ UNCHANGED <<channel, slot, found, beat, stopping, sent, proc, hosted, detaches,
                   raced, abandoned, writerVars>>
TakeBack ==
    /\ Joined
    /\ client' = "clearing"
    /\ IF slot # NoChannel /\ installed[slot]
       THEN /\ installed' = [installed EXCEPT ![slot] = FALSE]
            /\ detaches' = IF found THEN detaches + 1 ELSE detaches
       ELSE UNCHANGED <<installed, detaches>>
    /\ raced' = (raced \/ proc.at = "read")
    /\ UNCHANGED <<channel, slot, found, beat, stopping, sent, proc, hosted, abandoned, writerVars>>

(* The slot is cleared and the hook thread joined.                         *)
Clear ==
    /\ client = "clearing"
    /\ client' = "closed"
    /\ slot' = NoChannel
    /\ UNCHANGED <<channel, found, installed, beat, stopping, sent, proc, hosted, detaches,
                   raced, abandoned, writerVars>>

(***************************************************************************)
(* The two writers.  DvcSession::flush takes the output under the client's *)
(* lock and writes it without, so two threads may write in either order.   *)
(***************************************************************************)
\* Outbound frames: the hello, an answer to a ping, an action.
Produced == Len(queued) + Len(taken.client) + Len(taken.pump) + Len(wire)

(* OnDataReceived: what the provider has to say is handled and whatever is *)
(* queued is taken.  The provider shows its windows, and pings, only once  *)
(* it has read the hello; it greets on its own account.                    *)
Hear(answers) ==
    /\ client = "open" /\ taken.client = <<>>
    /\ taken' = [taken EXCEPT !.client = queued \o answers]
    /\ queued' = <<>>
    /\ UNCHANGED <<channel, client, hostVars, wire, greeted>>
HearHello == peer = "silent" /\ Hear(<<>>) /\ peer' = "greeting"
HearWindows == peer = "met" /\ Hear(<<>>) /\ peer' = "showing"
HearPing ==
    /\ peer \in {"met", "showing"} /\ Produced < MaxWritten
    /\ Hear(<<"pong">>) /\ UNCHANGED peer

(* The action pump: once the channel has settled it flushes unprompted,    *)
(* and after that only when there was an action it could queue.  An action *)
(* for a window the client does not hold is refused.                       *)
Pumping == client = "open" /\ taken.pump = <<>>
Takes(frames) ==
    /\ taken' = [taken EXCEPT !.pump = frames]
    /\ queued' = <<>>
    /\ UNCHANGED <<channel, client, hostVars, wire, peer>>
PumpGreets ==
    /\ Pumping /\ ~greeted
    /\ Takes(queued) /\ greeted' = TRUE
PumpForwardsUnasked ==
    /\ Pumping /\ Produced < MaxWritten
    /\ Takes(Append(queued, "action")) /\ UNCHANGED greeted
PumpForwards ==
    /\ Pumping /\ peer = "showing" /\ Produced < MaxWritten
    /\ Takes(Append(queued, "action")) /\ UNCHANGED greeted

Write(thread) ==
    /\ taken[thread] # <<>>
    /\ wire' = wire \o taken[thread]
    /\ taken' = [taken EXCEPT ![thread] = <<>>]
    /\ UNCHANGED <<channel, client, hostVars, queued, greeted, peer>>

ProviderReadsHello ==
    /\ peer = "greeting" /\ wire # <<>>
    /\ peer' = "met"
    /\ UNCHANGED <<channel, client, hostVars, taken, queued, wire, greeted>>

DvcNext ==
    \/ Open \/ OpenerNudges \/ Opened \/ OpenFails \/ Close \/ TakeBack \/ Clear
    \/ \E s \in sent \cup {Itself} : NothingToHost(s) \/ ReadSlot(s)
    \/ Claim \/ Install \/ HandleDetach
    \/ \E c \in Channels : BeatNudges(c) \/ BeatEnds(c)
    \/ HearHello \/ HearWindows \/ HearPing
    \/ PumpGreets \/ PumpForwards \/ ProviderReadsHello
    \/ \E thread \in {"client", "pump"} : Write(thread)

-----------------------------------------------------------------------------
(* What stop() leaves behind makes every later session fail: once a        *)
(* channel is closed and its detach handled, its adapter is gone.  Two    *)
(* things are excepted that the code does not prevent: a title set by      *)
(* chance while stop() runs, whose hook proc read SHARED before it was     *)
(* cleared, and a session that failed to start.                            *)
AdapterTakenBack ==
    (client = "closed" /\ proc = Idle /\ detaches = 0 /\ ~raced /\ ~abandoned)
        => hosted = NoChannel

(* Although the two writers are not synchronised, the provider reads the   *)
(* hello before anything else.                                             *)
GreetingFirst == wire # <<>> => wire[1] = "hello"

(* An open channel comes to be hosted on the session window, also when the *)
(* adapter of the one before was still there at first.                    *)
HostedEventually ==
    \A c \in Channels :
        (client = "open" /\ channel = c /\ found)
            ~> (hosted = c \/ client # "open" \/ raced \/ abandoned)

(* OnClose does not wait for ever, neither for the heartbeat, which may be *)
(* waiting for the window's thread, nor for the action pump.               *)
StopCompletes == client = "joining" ~> client = "closed"

(* The threads run.  The window's thread dispatches what is sent to it     *)
(* before what is posted; nudges come 250 ms apart, so the queue has its   *)
(* turn between them, and a nudge its turn between other titles.           *)
DvcFairness ==
    /\ WF_dvcVars(Claim \/ Install) /\ SF_dvcVars(HandleDetach)
    /\ WF_dvcVars(TakeBack \/ Clear)
    /\ \A c \in Channels :
          /\ WF_dvcVars(BeatNudges(c)) /\ WF_dvcVars(BeatEnds(c))
          /\ WF_dvcVars(NothingToHost(c)) /\ SF_dvcVars(ReadSlot(c))
    /\ WF_dvcVars(Write("pump"))
=============================================================================
