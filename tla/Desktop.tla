------------------------------ MODULE Desktop ------------------------------
(***************************************************************************)
(* Every remote window composed into one tree, hosted on the session       *)
(* window: DesktopTree (crates/accesskit_remote_client/src/desktop.rs),    *)
(* the glue of crates/accesskit_remote_windows (desktop.rs, visible.rs)    *)
(* and the routing of the plugin's channel.rs and desktop_host.rs.         *)
(*                                                                         *)
(* Two threads meet at the window's message queue.  The RDP client's       *)
(* thread applies a message to the ClientConnection and posts what follows *)
(* from it; the window's thread handles what was posted, some time later,  *)
(* against the connection as it is by then.  A screen reader's WM_GETOBJECT*)
(* is sent, not posted, and so overtakes the queue.                        *)
(*                                                                         *)
(* A fault is a panic of accesskit_consumer, which takes the process down. *)
(***************************************************************************)
EXTENDS ClientTree, Naturals, SequencesExt

CONSTANTS
    Windows,       \* ids are handed out once and not used again
    Trees,         \* the trees a window may have at the provider
    Host,          \* "visible" for wnd_proc, "viewer" for DesktopBinding
    MaxQueue,      \* bound: messages posted ahead of the window's thread
    NoWindow

ASSUME HostAssumption == Host \in {"visible", "viewer"}
ASSUME TreesAssumption ==
    \A t \in Trees : IsTree(t) /\ Root \in Ids(t) /\ Kids(t) \subseteq Ids(t) /\ Pruned(t) = t
ASSUME NoWindowAssumption == NoWindow \notin Windows

VARIABLES
    used,          \* ids the provider has handed out
    remote,        \* the provider's tree of each window, {} while it has none
    stores,        \* the ClientConnection's windows, each with its store
    focused,       \* ClientConnection.focus
    queue,         \* the window's message queue
    desktop,       \* the DesktopTree
    pending,       \* subtree updates an activation left for the next sync
    adapter,       \* "idle" until a screen reader asks, "active", or the fault
    shown          \* what the consumer has: grafts, focus and subtrees

desktopVars == <<used, remote, stores, focused, queue, desktop, pending, adapter, shown>>

NewDesktop == [grafted |-> {}, live |-> {}, held |-> <<>>, focus |-> NoWindow, started |-> FALSE]
Nothing == [grafts |-> {}, focus |-> NoWindow, subs |-> <<>>]

\* A map with w's entry added, or replaced.
Put(f, w, entry) == [v \in DOMAIN f \cup {w} |-> IF v = w THEN entry ELSE f[v]]

DesktopInit ==
    /\ used = {} /\ remote = [w \in Windows |-> {}]
    /\ stores = <<>> /\ focused = NoWindow
    /\ queue = <<>> /\ desktop = NewDesktop /\ pending = <<>>
    /\ adapter = "idle" /\ shown = Nothing

(***************************************************************************)
(* What the adapter is given: the root tree, with a graft per window, or a *)
(* subtree; and what the consumer makes of it.                             *)
(***************************************************************************)
RootUpdate(grafts, focus) == [window |-> NoWindow, grafts |-> grafts, focus |-> focus]
SubtreeUpdate(w, u) == [window |-> w, update |-> u]

Subtree(s, w) == IF w \in DOMAIN s.subs THEN s.subs[w].nodes ELSE {}

FaultOf(s, x) ==
    IF x.window = NoWindow
    THEN IF x.focus # NoWindow /\ x.focus \notin DOMAIN s.subs THEN "focus on no subtree" ELSE "none"
    ELSE IF x.window \notin s.grafts THEN "no graft"
    ELSE Fault(x.window \in DOMAIN s.subs, Subtree(s, x.window), x.update)

Published(s, x) ==
    IF x.window = NoWindow
    THEN [grafts |-> x.grafts, focus |-> x.focus,
          subs |-> Restrict(s.subs, DOMAIN s.subs \cap x.grafts)]
    ELSE [s EXCEPT !.subs = Put(@, x.window,
            [nodes |-> Consumed(Subtree(s, x.window), x.update), focus |-> x.update.focus])]

\* update_if_active: an idle adapter drops what it is given, and nothing
\* follows a fault.
Given(state, x) ==
    IF state.adapter # "active" THEN state
    ELSE IF FaultOf(state.shown, x) # "none" THEN [state EXCEPT !.adapter = FaultOf(state.shown, x)]
    ELSE [state EXCEPT !.shown = Published(@, x)]

Push(updates) ==
    LET state[i \in 0..Len(updates)] ==
            IF i = 0 THEN [adapter |-> adapter, shown |-> shown] ELSE Given(state[i - 1], updates[i])
    IN  adapter' = state[Len(updates)].adapter /\ shown' = state[Len(updates)].shown

(***************************************************************************)
(* DesktopTree.                                                            *)
(***************************************************************************)
HeldOf(d, w) == IF w \in DOMAIN d.held THEN d.held[w] ELSE {}

(* sync: the root tree if the set of windows changed, a snapshot of each   *)
(* window that has become graftable, and the focus once its subtree is     *)
(* there.                                                                  *)
Graftable(d) == {w \in DOMAIN stores \ d.live : stores[w].rooted}

Regrafted(d) ==
    [d EXCEPT !.live = @ \cap DOMAIN stores,
              !.held = Restrict(@, DOMAIN @ \cap DOMAIN stores),
              !.grafted = DOMAIN stores,
              !.started = TRUE]

Resyncs(d) == DOMAIN stores # d.grafted \/ ~d.started
Base(d) == IF Resyncs(d) THEN Regrafted(d) ELSE d

Snapshotted(d) ==
    LET ready == Graftable(Base(d))
    IN  [Base(d) EXCEPT !.live = @ \cup ready,
                        !.held = [w \in DOMAIN @ \cup ready |->
                            IF w \in ready
                            THEN HeldApply(HeldOf(Base(d), w), Snapshot(stores[w])) ELSE @[w]]]

Wanted(d) == IF focused \in Snapshotted(d).live THEN focused ELSE NoWindow

RootFirst(d) == IF Resyncs(d) THEN <<RootUpdate(DOMAIN stores, NoWindow)>> ELSE <<>>
Snapshots(d) ==
    LET fresh == SetToSeq(Graftable(Base(d)))
    IN  [i \in DOMAIN fresh |-> SubtreeUpdate(fresh[i],
            LandFocus({}, Snapshotted(d).held[fresh[i]], Snapshot(stores[fresh[i]])))]
FocusLast(d) ==
    IF DOMAIN stores # d.grafted \/ Wanted(d) # d.focus
    THEN <<RootUpdate(DOMAIN stores, Wanted(d))>> ELSE <<>>

Sync(d) ==
    [desktop |-> [Snapshotted(d) EXCEPT !.focus = Wanted(d)],
     updates |-> RootFirst(d) \o Snapshots(d) \o FocusLast(d)]

\* client.snapshot prunes the store it is taken of.
StoresAfterSync(d) ==
    [w \in DOMAIN stores |->
        IF w \in Graftable(Base(d)) THEN StorePruned(stores[w]) ELSE stores[w]]

\* delta: retagged, or withheld from a window that is not live.
Retag(d, w, u) ==
    IF w \notin d.live THEN [desktop |-> d, updates |-> <<>>]
    ELSE LET after == HeldApply(HeldOf(d, w), u)
         IN  [desktop |-> [d EXCEPT !.held = Put(@, w, after)],
              updates |-> <<SubtreeUpdate(w, LandFocus(HeldOf(d, w), after, u))>>]

\* What an activation still owes goes before anything a sync finds new.
SyncUpdatesForgetful(d) == [desktop |-> Sync(d).desktop, updates |-> Sync(d).updates]
SyncUpdates(d) == [desktop |-> Sync(d).desktop, updates |-> pending \o Sync(d).updates]

(* What follows from a delta.  DesktopBinding retags it, and its caller    *)
(* syncs after it; delta_updates lets the owed snapshots go first.         *)
RetagThenSync(w, u) ==
    LET r == Retag(desktop, w, u)
        s == SyncUpdates(r.desktop)
    IN  [desktop |-> s.desktop, updates |-> r.updates \o s.updates]

DeltaUpdates(w, u) ==
    LET s == IF pending = <<>> THEN [desktop |-> desktop, updates |-> <<>>] ELSE SyncUpdates(desktop)
        r == Retag(s.desktop, w, u)
    IN  [desktop |-> r.desktop, updates |-> s.updates \o r.updates]

(***************************************************************************)
(* The window's thread.                                                    *)
(***************************************************************************)
Alive == adapter \in {"idle", "active"}

(* WM_GETOBJECT: the composition starts over; the adapter gets the root    *)
(* tree at once and the rest with the next sync.                           *)
Activate ==
    /\ adapter = "idle"
    /\ LET r == Sync(NewDesktop) IN
       /\ desktop' = r.desktop
       /\ adapter' = "active"
       /\ shown' = Published(Nothing, Head(r.updates))
       /\ pending' = pending \o Tail(r.updates)
    /\ stores' = StoresAfterSync(NewDesktop)
    /\ UNCHANGED <<used, remote, focused, queue>>

Take == Alive /\ queue # <<>> /\ queue' = Tail(queue)

HandleSync ==
    /\ Take /\ Head(queue).kind = "Sync"
    /\ desktop' = Sync(desktop).desktop
    /\ Push(SyncUpdates(desktop).updates)
    /\ pending' = <<>> /\ stores' = StoresAfterSync(desktop)
    /\ UNCHANGED <<used, remote, focused>>

HandleDelta ==
    /\ Take /\ Head(queue).kind = "Delta"
    /\ LET w == Head(queue).window
           u == Head(queue).update
           r == IF Host = "viewer" THEN RetagThenSync(w, u) ELSE DeltaUpdates(w, u)
       IN  desktop' = r.desktop /\ Push(r.updates)
    /\ pending' = <<>>
    /\ stores' = IF Host = "viewer" \/ pending # <<>> THEN StoresAfterSync(desktop) ELSE stores
    /\ UNCHANGED <<used, remote, focused>>

(***************************************************************************)
(* The RDP client's thread: one message from the provider, and the posts   *)
(* its event is routed to.  The provider's trees are well formed and each  *)
(* update is true of the tree before it, but the focus it repeats may be a *)
(* node that is no longer there.                                           *)
(***************************************************************************)
SyncMsg == [kind |-> "Sync"]
DeltaMsg(w, u) == [kind |-> "Delta", window |-> w, update |-> u]
Posts(messages) ==
    /\ Alive /\ Len(queue) < MaxQueue
    /\ queue' = queue \o messages
    /\ UNCHANGED <<desktop, pending, adapter, shown>>

WindowAdded(w) ==
    /\ w \notin used
    /\ used' = used \cup {w}
    /\ stores' = Put(stores, w, NewStore)
    /\ Posts(<<SyncMsg>>)
    /\ UNCHANGED <<remote, focused>>

WindowRemoved(w) ==
    /\ w \in DOMAIN stores
    /\ remote' = [remote EXCEPT ![w] = {}]
    /\ stores' = Restrict(stores, DOMAIN stores \ {w})
    /\ focused' = IF focused = w THEN NoWindow ELSE focused
    /\ Posts(<<SyncMsg>>)
    /\ UNCHANGED used

FocusChanged(f) ==
    /\ f = NoWindow \/ f \in DOMAIN stores
    /\ f # focused
    /\ focused' = f
    /\ Posts(<<SyncMsg>>)
    /\ UNCHANGED <<used, remote, stores>>

TreeUpdated(w, tree, sent, focus, full) ==
    /\ w \in DOMAIN stores
    /\ remote[w] = {} => full
    /\ full => sent = tree
    /\ Pruned(Overlay(remote[w], sent)) = tree
    /\ LET received == StoreApply(stores[w], Update(sent, focus, full)) IN
       /\ stores' = [stores EXCEPT ![w] = StoreGuard(received)]
       /\ Posts(<<DeltaMsg(w, Update(sent, StoreGuard(received).focus, full)), SyncMsg>>)
    /\ remote' = [remote EXCEPT ![w] = tree]
    /\ UNCHANGED <<used, focused>>

\* The 250 ms heartbeat, for the activation that no event announces.  A beat
\* behind other posts repeats the sync each of them ends with, so only those
\* that find the queue empty are kept.
BeatNever == FALSE /\ UNCHANGED desktopVars
Beat ==
    /\ queue = <<>>
    /\ Posts(<<SyncMsg>>)
    /\ UNCHANGED <<used, remote, stores, focused>>

-----------------------------------------------------------------------------
FromProvider ==
    \/ \E w \in Windows : WindowAdded(w) \/ WindowRemoved(w)
    \/ \E f \in Windows \cup {NoWindow} : FocusChanged(f)
    \/ \E w \in Windows, tree \in Trees, focus \in Nodes, full \in BOOLEAN :
          \E sent \in (SUBSET tree) \ {{}} : TreeUpdated(w, tree, sent, focus, full)

Handle == HandleSync \/ HandleDelta
DesktopNext == FromProvider \/ Beat \/ Activate \/ Handle

\* The window's thread serves its queue (a step that takes a message is a
\* Handle step) and the heartbeat beats.
DesktopSpec == DesktopInit /\ [][DesktopNext]_desktopVars /\ WF_queue(Take) /\ WF_queue(Beat)

-----------------------------------------------------------------------------
UpdateOk(u) == IsTree(u.nodes) /\ u.focus \in Nodes /\ u.full \in BOOLEAN
StoreOk(s) == IsTree(s.nodes) /\ s.focus \in Nodes /\ s.rooted \in BOOLEAN

(* The shape of every variable; a window the provider has removed or not   *)
(* announced has no entry anywhere but in what is still queued.            *)
DesktopTypeOK ==
    /\ DOMAIN remote = Windows /\ (\A w \in Windows : IsTree(remote[w])) /\ used \subseteq Windows
    /\ \A w \in DOMAIN stores : w \in used /\ StoreOk(stores[w])
    /\ \A w \in Windows \ DOMAIN stores : remote[w] = {}
    /\ focused \in DOMAIN stores \cup {NoWindow}
    /\ \A i \in DOMAIN queue : queue[i].kind = "Delta" =>
          queue[i].window \in Windows /\ UpdateOk(queue[i].update)
    /\ desktop.live \subseteq desktop.grafted /\ desktop.grafted \subseteq Windows
    /\ DOMAIN desktop.held = desktop.live
    /\ desktop.focus \in desktop.live \cup {NoWindow}
    /\ shown.focus \in DOMAIN shown.subs \cup {NoWindow} /\ DOMAIN shown.subs \subseteq shown.grafts

(* Rules 1, 2 and 4 at the head of client/desktop.rs: a graft before its   *)
(* subtree, tree data in a subtree's first update, and no focus on a graft *)
(* whose subtree is absent.                                                *)
RulesKept == adapter \notin {"no graft", "no tree data", "focus on no subtree"}

(* No update leaves a subtree's focus on a node the consumer discards      *)
(* (land_focus: "Checked after applying, never before").                   *)
FocusLands == adapter # "focus not held"

(* An applied delta never names a child that does not exist, which is what *)
(* delta_updates is there to prevent.                                      *)
NothingMissing == adapter # "missing child"

\* What a consumer that shows s shows once it has been given the updates.
Shows(s, updates) ==
    LET after[i \in 0..Len(updates)] ==
            IF i = 0 THEN s ELSE Published(after[i - 1], updates[i])
    IN  after[Len(updates)]

(* Held is "one subtree as the consumer has it": once what is owed has     *)
(* been delivered, the composition's idea of the consumer is the consumer. *)
Delivered == Shows(shown, pending)
HeldIsExact ==
    adapter = "active" =>
        /\ desktop.grafted = Delivered.grafts /\ desktop.focus = Delivered.focus
        /\ desktop.live = DOMAIN Delivered.subs
        /\ \A w \in desktop.live : desktop.held[w] = Delivered.subs[w].nodes

(* Whatever the interleaving of posts, syncs and the activation, a reader  *)
(* that has caught up is shown the remote desktop: a graft per window, the *)
(* provider's tree under it, and the focus.                                *)
CaughtUpIsCurrent ==
    adapter = "active" /\ queue = <<>> /\ pending = <<>> =>
        /\ shown.grafts = DOMAIN stores
        /\ \A w \in Windows : Subtree(shown, w) = remote[w]
        /\ shown.focus = IF focused \in DOMAIN shown.subs THEN focused ELSE NoWindow

(* A reader that attaches to a quiet desktop is not left looking at empty  *)
(* windows until something moves.                                          *)
ActivationCompletes == adapter = "active" ~> pending = <<>> \/ ~Alive
=============================================================================
