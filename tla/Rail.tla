-------------------------------- MODULE Rail --------------------------------
(***************************************************************************)
(* The plugin of a WSL session (plugin.rs, rail.rs) and the window half of *)
(* it (visible.rs of accesskit_remote_windows): remote windows are bound   *)
(* to the RAIL_WINDOWs msrdc shows them in.                                *)
(*                                                                         *)
(* Three kinds of threads run here.  The pump reads a chunk from the       *)
(* daemon, then routes its events.  Each RAIL window has a thread that     *)
(* owns it, where the in-context hook tries to attach an adapter and where *)
(* posted messages are handled in order.  A nudge is a sent message: the   *)
(* pump waits for it and it overtakes what is posted.  The third is the    *)
(* client's, which starts and stops sessions.                              *)
(***************************************************************************)
EXTENDS Association, Sequences

CONSTANTS
    Windows,     \* remote windows, in the order of which nothing depends
    Hwnds,       \* RAIL windows
    Info,        \* what the daemon announces of each remote window
    Frames,      \* what msrdc puts on each RAIL window
    Stale,       \* the adapter of an earlier session
    MaxPosted,   \* bound: messages waiting for a window when the pump reads on
    MaxChunk     \* bound: messages in a chunk

\* What stands for no window is none, and is not the leftover of a session.
ASSUME RailAssumption ==
    None \notin Windows /\ Stale \notin Windows /\ None \notin Hwnds /\ Stale # None

VARIABLES
    unused,      \* ids the daemon has not used in this session
    listed,      \* windows of the ClientConnection
    focus,       \* ClientConnection.focus
    pump,        \* the pump is "reading" a chunk or "routing" its events
    backlog,     \* the chunk's events still to be routed
    sweep,       \* HWNDs nudge_unattached_rail_windows has yet to nudge
    hooked,      \* SHARED holds this session's state
    known, bound, attached, focused,   \* Registry
    frame,       \* each HWND: "absent", "untitled", "titled" or "gone"
    adapter,     \* the window of the adapter on each HWND, Stale, or None
    hostFocus,   \* whether that adapter believes its window has the focus
    posted,      \* each HWND's message queue
    tried,       \* history: windows known when an attach was last tried
    freed        \* history: HWNDs that once carried an adapter

daemonVars == <<unused, listed, focus>>
pumpVars == <<pump, backlog, sweep>>
registryVars == <<known, bound, attached, focused>>
windowVars == <<frame, adapter, hostFocus, posted, tried, freed>>
railVars == <<daemonVars, pumpVars, hooked, registryVars, windowVars>>

Event(kind, body) == [kind |-> kind, body |-> body]
Detach == Event("Detach", None)

RailInit ==
    /\ unused = Windows /\ listed = {} /\ focus = None
    /\ pump = "reading" /\ backlog = <<>> /\ sweep = {}
    /\ hooked = TRUE
    /\ known = {} /\ attached = {} /\ focused = None
    /\ bound = [w \in Windows |-> None]
    /\ frame = [h \in Hwnds |-> "absent"]
    /\ adapter = [h \in Hwnds |-> None]
    /\ hostFocus = [h \in Hwnds |-> FALSE]
    /\ posted = [h \in Hwnds |-> <<>>]
    /\ tried = [h \in Hwnds |-> {}] /\ freed = {}

Alive(h) == frame[h] \in {"untitled", "titled"}

\* PostMessageW to a window that is gone fails, and the message with it.
Posting(messages) ==
    posted' = [h \in Hwnds |-> posted[h] \o IF Alive(h) THEN messages[h] ELSE <<>>]
To(h, messages) == [g \in Hwnds |-> IF g = h THEN messages ELSE <<>>]

(***************************************************************************)
(* The pump.  ClientConnection::handle_input applies the whole chunk       *)
(* before the first of its events is routed.                               *)
(***************************************************************************)
Arrives(event) ==
    /\ pump = "reading" /\ sweep = {} /\ Len(backlog) < MaxChunk
    /\ \A h \in Hwnds : Len(posted[h]) + Len(backlog) < MaxPosted
    /\ backlog' = Append(backlog, event)
    /\ UNCHANGED <<pump, sweep, hooked, registryVars, windowVars>>

AddedArrives(w) ==
    /\ w \in unused
    /\ Arrives(Event("WindowAdded", w))
    /\ unused' = unused \ {w} /\ listed' = listed \cup {w}
    /\ UNCHANGED focus
RemovedArrives(w) ==
    /\ w \in listed
    /\ Arrives(Event("WindowRemoved", w))
    /\ listed' = listed \ {w}
    /\ focus' = IF focus = w THEN None ELSE focus
    /\ UNCHANGED unused
UpdateArrives(w) ==
    /\ w \in listed
    /\ Arrives(Event("TreeUpdated", w))
    /\ UNCHANGED daemonVars
FocusArrives(f) ==
    /\ f \in listed \cup {None}
    /\ Arrives(Event("FocusChanged", f))
    /\ focus' = f
    /\ UNCHANGED <<unused, listed>>

ChunkEnds ==
    /\ pump = "reading" /\ backlog # <<>>
    /\ pump' = "routing"
    /\ UNCHANGED <<daemonVars, backlog, sweep, hooked, registryVars, windowVars>>

Routes(kind) ==
    /\ pump = "routing" /\ sweep = {} /\ backlog # <<>>
    /\ Head(backlog).kind = kind
    /\ backlog' = Tail(backlog)
    /\ pump' = IF Len(backlog) = 1 THEN "reading" ELSE "routing"
    /\ UNCHANGED <<daemonVars, hooked>>
Routed == Head(backlog).body

Unbound(ws, b) == {w \in ws : b[w] = None}

(* The window may have gone again with the same chunk, and then nothing is *)
(* known of it.  Otherwise every RAIL window that is not attached and has  *)
(* a title is going to be nudged, whichever remote window it is for.       *)
RouteAddedUnswept ==
    /\ Routes("WindowAdded")
    /\ known' = IF Routed \in listed THEN known \cup {Routed} ELSE known
    /\ UNCHANGED <<sweep, bound, attached, focused, windowVars>>
RouteAdded ==
    /\ Routes("WindowAdded")
    /\ IF Routed \in listed
       THEN /\ known' = known \cup {Routed}
            /\ sweep' = IF Unbound(known', bound) = {} THEN {}
                        ELSE {h \in Hwnds : frame[h] = "titled" /\ h \notin attached}
       ELSE UNCHANGED <<known, sweep>>
    /\ UNCHANGED <<bound, attached, focused, windowVars>>

RouteRemovedStillAttached ==
    /\ Routes("WindowRemoved")
    /\ known' = known \ {Routed}
    /\ focused' = IF focused = Routed THEN None ELSE focused
    /\ bound' = [bound EXCEPT ![Routed] = None]
    /\ IF bound[Routed] # None THEN Posting(To(bound[Routed], <<Detach>>))
                               ELSE UNCHANGED posted
    /\ UNCHANGED <<sweep, attached, frame, adapter, hostFocus, tried, freed>>
RouteRemoved ==
    /\ Routes("WindowRemoved")
    /\ known' = known \ {Routed}
    /\ focused' = IF focused = Routed THEN None ELSE focused
    /\ bound' = [bound EXCEPT ![Routed] = None]
    /\ attached' = attached \ {bound[Routed]}
    /\ IF bound[Routed] # None THEN Posting(To(bound[Routed], <<Detach>>))
                               ELSE UNCHANGED posted
    /\ UNCHANGED <<sweep, frame, adapter, hostFocus, tried, freed>>

RouteUpdate ==
    /\ Routes("TreeUpdated")
    /\ IF bound[Routed] # None
       THEN Posting(To(bound[Routed], <<Event("Delta", Routed)>>))
       ELSE UNCHANGED posted
    /\ UNCHANGED <<sweep, registryVars, frame, adapter, hostFocus, tried, freed>>

(* Registry::focus_changed: the window that had the focus is told so, and  *)
(* the one that has it now, as far as they are bound; a repeat is nothing. *)
BoundTo(w) == IF w = None THEN None ELSE bound[w]
RouteFocus ==
    /\ Routes("FocusChanged")
    /\ focused' = Routed
    /\ IF Routed = focused THEN UNCHANGED posted
       ELSE Posting([h \in Hwnds |->
                (IF BoundTo(focused) = h THEN <<Event("Focus", FALSE)>> ELSE <<>>)
                \o (IF BoundTo(Routed) = h THEN <<Event("Focus", TRUE)>> ELSE <<>>)])
    /\ UNCHANGED <<sweep, known, bound, attached, frame, adapter, hostFocus, tried, freed>>

(***************************************************************************)
(* try_attach, on the thread that owns h, holding the registry throughout. *)
(* A RAIL window never has the keyboard focus of its own, so the focus the *)
(* adapter starts with is the remote one.  The install is refused while an *)
(* adapter is on the window.                                               *)
(***************************************************************************)
Candidates == Unbound(known, bound)

BindsOver(h, w, hasFocus) ==
    IF w # None
    THEN /\ bound' = [bound EXCEPT ![w] = h]
         /\ attached' = attached \cup {h}
         /\ adapter' = [adapter EXCEPT ![h] = w]
         /\ hostFocus' = [hostFocus EXCEPT ![h] = hasFocus]
         /\ freed' = freed \cup {h}
    ELSE UNCHANGED <<bound, attached, adapter, hostFocus, freed>>
Binds(h, w, hasFocus) ==
    IF w # None /\ adapter[h] = None
    THEN /\ bound' = [bound EXCEPT ![w] = h]
         /\ attached' = attached \cup {h}
         /\ adapter' = [adapter EXCEPT ![h] = w]
         /\ hostFocus' = [hostFocus EXCEPT ![h] = hasFocus]
         /\ freed' = freed \cup {h}
    ELSE UNCHANGED <<bound, attached, adapter, hostFocus, freed>>

TryAttachUnseeded(h) ==
    /\ IF hooked /\ h \notin attached
       THEN /\ Binds(h, MatchWindow(Frames[h], Info, Candidates), FALSE)
            /\ tried' = [tried EXCEPT ![h] = known]
       ELSE UNCHANGED <<bound, attached, adapter, hostFocus, tried, freed>>
    /\ UNCHANGED <<known, focused, posted>>
TryAttach(h) ==
    /\ IF hooked /\ h \notin attached
       THEN LET w == MatchWindow(Frames[h], Info, Candidates) IN
            /\ Binds(h, w, focused = w)
            /\ tried' = [tried EXCEPT ![h] = known]
       ELSE UNCHANGED <<bound, attached, adapter, hostFocus, tried, freed>>
    /\ UNCHANGED <<known, focused, posted>>

(* One SetWindowTextW of the sweep.  One to a window that has gone fails.  *)
Nudge(h) ==
    /\ h \in sweep
    /\ sweep' = sweep \ {h}
    /\ IF Alive(h) THEN TryAttach(h)
                   ELSE UNCHANGED <<registryVars, adapter, hostFocus, posted, tried, freed>>
    /\ UNCHANGED <<daemonVars, pump, backlog, hooked, frame>>

(* msrdc creates a window before it gives it a title; an attach is tried   *)
(* when it does.                                                           *)
Create(h) ==
    /\ frame[h] = "absent"
    /\ frame' = [frame EXCEPT ![h] = "untitled"]
    /\ UNCHANGED <<daemonVars, pumpVars, hooked, registryVars, adapter, hostFocus, posted,
                   tried, freed>>
GiveTitle(h) ==
    /\ frame[h] = "untitled"
    /\ frame' = [frame EXCEPT ![h] = "titled"]
    /\ TryAttach(h)
    /\ UNCHANGED <<daemonVars, pumpVars, hooked>>

(* WM_NCDESTROY frees the adapter.  The registry is not told.              *)
Destroy(h) ==
    /\ Alive(h)
    /\ frame' = [frame EXCEPT ![h] = "gone"]
    /\ adapter' = [adapter EXCEPT ![h] = None]
    /\ hostFocus' = [hostFocus EXCEPT ![h] = FALSE]
    /\ posted' = [posted EXCEPT ![h] = <<>>]
    /\ UNCHANGED <<daemonVars, pumpVars, hooked, registryVars, tried, freed>>

(* wnd_proc.  Without an adapter the message falls through.                *)
Handle(h) ==
    /\ posted[h] # <<>>
    /\ posted' = [posted EXCEPT ![h] = Tail(@)]
    /\ LET m == Head(posted[h]) IN
       /\ adapter' = IF m = Detach THEN [adapter EXCEPT ![h] = None] ELSE adapter
       /\ hostFocus' =
            CASE m = Detach -> [hostFocus EXCEPT ![h] = FALSE]
              [] m.kind = "Focus" /\ adapter[h] \in Windows -> [hostFocus EXCEPT ![h] = m.body]
              [] OTHER -> hostFocus
    /\ UNCHANGED <<daemonVars, pumpVars, hooked, registryVars, frame, tried, freed>>

(***************************************************************************)
(* Session::stop takes the hook first and then the pump, which ends at the *)
(* top of its loop.  Adapters stay where they are (what they believe of    *)
(* the focus from then on is left out).  Connected starts anew.            *)
(***************************************************************************)
StopHook ==
    /\ hooked
    /\ hooked' = FALSE
    /\ UNCHANGED <<daemonVars, pumpVars, registryVars, windowVars>>
Reconnect ==
    /\ ~hooked /\ pump = "reading" /\ backlog = <<>> /\ sweep = {}
    /\ hooked' = TRUE
    /\ unused' = Windows /\ listed' = {} /\ focus' = None
    /\ known' = {} /\ attached' = {} /\ focused' = None
    /\ bound' = [w \in Windows |-> None]
    /\ adapter' = [h \in Hwnds |-> IF adapter[h] = None THEN None ELSE Stale]
    /\ tried' = [h \in Hwnds |-> {}]
    /\ hostFocus' = [h \in Hwnds |-> FALSE]
    /\ UNCHANGED <<pumpVars, frame, posted, freed>>

RailNext ==
    \/ \E w \in Windows : AddedArrives(w) \/ RemovedArrives(w) \/ UpdateArrives(w)
    \/ \E f \in Windows \cup {None} : FocusArrives(f)
    \/ ChunkEnds \/ RouteAdded \/ RouteRemoved \/ RouteUpdate \/ RouteFocus
    \/ \E h \in Hwnds : Nudge(h) \/ Create(h) \/ GiveTitle(h) \/ Destroy(h) \/ Handle(h)
    \/ StopHook \/ Reconnect

-----------------------------------------------------------------------------
\* What the adapter on h will be when everything posted before i is handled.
CarriedAt(h, i) ==
    IF \E j \in 1..(i - 1) : posted[h][j] = Detach THEN None ELSE adapter[h]

(* The registry and the windows tell the same story, one message queue     *)
(* apart: a remote window is bound to one RAIL window at most, a live RAIL *)
(* window that the registry says is bound carries that window's adapter,   *)
(* and one it says is free carries none, or is about to lose it, or        *)
(* carries the leftover of a session that has ended.                       *)
RegistryTrue ==
    /\ attached = {bound[w] : w \in Windows} \ {None}
    /\ \A w, v \in Windows : bound[w] # None /\ bound[w] = bound[v] => w = v
    /\ \A w \in Windows : bound[w] # None =>
          w \in known /\ (Alive(bound[w]) => adapter[bound[w]] = w)
    /\ \A h \in Hwnds \ attached :
          CarriedAt(h, Len(posted[h]) + 1) \in {None, Stale}

(* A delta reaches the adapter of the window it is about: when it is       *)
(* handled the HWND has not passed to another remote window, nor to none.  *)
DeltaOnItsOwn ==
    \A h \in Hwnds : \A i \in 1..Len(posted[h]) :
        posted[h][i].kind = "Delta" => CarriedAt(h, i) \in {posted[h][i].body, Stale}

AtRest ==
    /\ hooked /\ pump = "reading" /\ backlog = <<>> /\ sweep = {}
    /\ \A h \in Hwnds : posted[h] = <<>>

(* Once everything is routed and handled, exactly the adapter of the       *)
(* focused remote window believes it has the focus, however attach, detach *)
(* and focus changes crossed.                                              *)
FocusSettles ==
    AtRest =>
        /\ focused = focus
        /\ \A w \in Windows : (bound[w] # None /\ Alive(bound[w])) =>
              hostFocus[bound[w]] = (focus = w)

(* No window falls between the announcement and the creation of its HWND:  *)
(* each RAIL window that has carried no adapter yet was last offered every *)
(* remote window the registry knows.                                       *)
NoAnnouncementMissed ==
    AtRest => \A h \in Hwnds :
        (frame[h] = "titled" /\ h \notin freed) => Unbound(known, bound) \subseteq tried[h]
=============================================================================
