--------------------------------- MODULE Ax ---------------------------------
(***************************************************************************)
(* The macOS worker thread: worker, route_notifications, drain_due,        *)
(* reconcile and perform of crates/accesskit_remote_ax/src/source.rs, with *)
(* the walk of walk.rs and EmittedTree of delta.rs, which reduces every    *)
(* walk to what the consumer does not hold yet.                            *)
(*                                                                         *)
(* The loop's turn takes one command, lets the observers' callbacks queue  *)
(* what arrived, routes that, and does what is due; since notifications    *)
(* arrive when they do, routing one, refreshing, walking and reconciling   *)
(* are separate actions here.  The times are those of Schedule, left out   *)
(* as in Atspi.  An element's key stands for its node id.                  *)
(***************************************************************************)
EXTENDS Replay

CONSTANTS
    RunElements,    \* text elements whose text is emitted as runs
    Returning,      \* whether an element that left its tree may come back
    Vanishing,      \* whether a hidden window stops answering
    MaxAxIds,       \* bound: window ids handed out
    MaxAxActions    \* bound: actions performed

VARIABLES
    axWindows,      \* the WindowStates
    axNextId,
    axTracker,      \* FocusTracker
    axPending,      \* ids the coalescer holds
    axDue,          \* <<id, key>>: trailing refreshes the limiter holds
    axOp,           \* the walk under way, and the discovered windows left
    axPerformed

axVars == <<axWindows, axNextId, axTracker, axPending, axDue, axOp, axPerformed>>

AxIdle == [kind |-> "idle", id |-> 0, walk |-> [todo |-> <<>>, read |-> <<>>],
           found |-> <<>>, front |-> None]

AxIds == {axWindows[i].id : i \in DOMAIN axWindows}
AxIndex(id) == CHOOSE i \in DOMAIN axWindows : axWindows[i].id = id
AxRoots == {axWindows[i].root : i \in DOMAIN axWindows}
WindowsOf(x) == {axWindows[i].id : i \in {j \in DOMAIN axWindows :
                                              App[axWindows[j].root] = App[RootOf(x)]}}

\* node::read answers for it.
Answers(x) == Attached(x) /\ (Vanishing => RootOf(x) \in showing)

-----------------------------------------------------------------------------
(* walk.rs.  First parent in walk order keeps the child.                   *)
Claimed(reads) ==
    [x \in Paths(reads) |->
        LET i == CHOOSE i \in DOMAIN reads : reads[i].path = x
        IN  {y \in reads[i].kids \cap Paths(reads) :
                \A j \in 1..i-1 : y \notin reads[j].kids}]

RunLines(r) == IF r.path \in RunElements THEN r.lines ELSE 0

\* build_window_update: what the root does not reach is left out.
AxUpdate(root, reads, focus) ==
    LET claimed == Claimed(reads)
        NodesOf(r) == {Element(r.path, claimed[r.path] \cup RunIds(r.path, RunLines(r)), r.val)}
                      \cup Runs(r.path, RunLines(r))
        built == UNION {NodesOf(reads[i]) : i \in DOMAIN reads}
    IN  Tree(root)!Update(Tree(root)!Pruned(built), focus, TRUE)

(* EmittedTree.  reduce drops from the cache what the walk did not reach,  *)
(* and sends what the cache does not hold as it is now.                    *)
ReducedNew(s, u) ==
    LET new == {n \in u.nodes : \A m \in s.emitted : m.id # n.id}
    IN  [update |-> Tree(s.root)!Update(new, u.focus, FALSE), sent |-> new # {}]
Reduced(s, u) ==
    [update |-> Tree(s.root)!Update(u.nodes \ s.emitted, u.focus, FALSE),
     sent   |-> u.nodes \ s.emitted # {} \/ u.focus # s.emittedFocus]
ReducedCacheUnpruned(s, u) == Tree(s.root)!Overlay(s.emitted, u.nodes)
ReducedCache(s, u) == u.nodes

AxState(id, root, reads) ==
    LET u == AxUpdate(root, reads, WalkFocus(reads, root))
    IN  [id |-> id, root |-> root, ids |-> Paths(reads), emitted |-> u.nodes,
         emittedFocus |-> u.focus, children |-> Claimed(reads), settling |-> FALSE]

\* A re-walk.  An empty one changes the structure kept and sends nothing.
AxRewalked(s, reads) ==
    LET u == AxUpdate(s.root, reads, WalkFocus(reads, s.root))
    IN  IF reads = <<>> THEN [s EXCEPT !.children = Claimed(reads)]
        ELSE [s EXCEPT !.ids = @ \cup Paths(reads), !.emitted = ReducedCache(s, u),
                       !.emittedFocus = u.focus, !.children = Claimed(reads)]

AxSend(c, s, reads) ==
    LET u == AxUpdate(s.root, reads, WalkFocus(reads, s.root))
    IN  IF reads = <<>> \/ ~Reduced(s, u).sent THEN c
        ELSE Update(c, s.id, s.root, Reduced(s, u).update)

(* emit_refresh: the element's own semantics, its children those it was    *)
(* emitted with and the consumer is thought to hold.                       *)
Holds(s, x) == x \in Tree(s.root)!Ids(s.emitted)
AxRefreshed(s, x) ==
    Element(x, IF x \in DOMAIN s.children THEN {y \in s.children[x] : Holds(s, y)} ELSE {},
            Read(x).val)

\* The window at i once the keys given are read again, one after the other.
EmitRefresh(i, x) ==
    LET s == axWindows[i]
        n == AxRefreshed(s, x)
    IN  IF ~Answers(x) \/ n \in s.emitted THEN UNCHANGED <<axWindows, client>>
        ELSE /\ axWindows' = [axWindows EXCEPT ![i].emitted = Tree(s.root)!Overlay(@, {n})]
             /\ client' = Update(client, s.id, s.root,
                                 Tree(s.root)!Update({n}, s.emittedFocus, FALSE))

-----------------------------------------------------------------------------
(* enumerate: observed first, then walked one after the other, so what     *)
(* happens meanwhile queues.  The consumer is shown the windows as they    *)
(* are walked; the code hands them over together, at the end.              *)
AxWalking(kind, roots, front) ==
    IF roots = <<>> /\ kind = "add" THEN AxIdle
    ELSE [AxIdle EXCEPT !.kind = kind, !.found = roots, !.front = front,
                        !.walk = IF roots = <<>> THEN @ ELSE Walk(roots[1])]

AxInit ==
    /\ axWindows = <<>> /\ axNextId = 1 /\ axTracker = 0
    /\ client = [trees |-> NoTrees, focus |-> 0, fault |-> "none"]
    /\ axPending = {} /\ axDue = {} /\ axPerformed = 0
    /\ axOp = AxWalking("enumerate", SetToSeq(showing), active)

\* "Something must hold focus or the consumer has nowhere to start."
AxServe ==
    LET front == {i \in DOMAIN axWindows : axWindows[i].root = axOp.front}
        first == IF front # {} THEN axWindows[Min(front)].id
                 ELSE IF axWindows = <<>> THEN 0 ELSE axWindows[1].id
    IN  /\ axOp.kind = "enumerate" /\ axOp.found = <<>>
        /\ axTracker' = first
        /\ client' = FocusMoved(client, first)
        /\ axOp' = AxIdle
        /\ UNCHANGED <<toolkitVars, axWindows, axNextId, axPending, axDue, axPerformed>>

-----------------------------------------------------------------------------
(* route_notifications.                                                    *)
Routes(kinds) ==
    /\ axOp = AxIdle /\ queue # <<>> /\ Head(queue).kind \in kinds
    /\ queue' = Tail(queue)
    /\ UNCHANGED <<showing, parent, listed, val, lines, focused, active, left, also, steps>>

Named == Head(queue).at

\* The first window whose append-only ids know the element.
WindowHolding(x) ==
    LET found == {i \in DOMAIN axWindows : x \in axWindows[i].ids}
    IN  IF found = {} THEN 0 ELSE Min(found)

\* note_windows_of: the windows of the sender.
NotedWindowsOf(x) == WindowsOf(x)

RouteStructure ==
    /\ Routes({"children", "lifecycle"})
    /\ axPending' = axPending \cup NotedWindowsOf(Named)
    /\ UNCHANGED <<axWindows, axNextId, axTracker, axDue, axOp, axPerformed, client>>

\* A change of one node; of one no window knows, the walk is to find it.
RouteRefresh ==
    LET i == WindowHolding(Named)
        entry == <<axWindows[i].id, Named>>
    IN  /\ Routes({"state", "selection", "text"})
        /\ IF i = 0
           THEN /\ axPending' = axPending \cup NotedWindowsOf(Named)
                /\ UNCHANGED <<axWindows, axDue, client>>
           ELSE /\ UNCHANGED axPending
                /\ \/ entry \notin axDue /\ EmitRefresh(i, Named) /\ UNCHANGED axDue
                   \/ axDue' = axDue \cup {entry} /\ UNCHANGED <<axWindows, client>>
        /\ UNCHANGED <<axNextId, axTracker, axOp, axPerformed>>

\* Focus: which window has it now, and a walk to show where in it.  The
\* notification of an application put in the background names no element of
\* a window, and routes as focus like the others.
RouteFocus ==
    LET i == IF Head(queue).kind = "deactivate" THEN 0 ELSE WindowHolding(Named)
        owned == {j \in DOMAIN axWindows : axWindows[j].id \in WindowsOf(Named)}
        j == IF i # 0 THEN i ELSE IF owned = {} THEN 0 ELSE Min(owned)
        id == IF j = 0 THEN 0 ELSE axWindows[j].id
    IN  /\ Routes({"focus", "descendant", "activate", "deactivate"})
        /\ IF j = 0 THEN UNCHANGED <<axPending, axTracker, client>>
           ELSE /\ axPending' = axPending \cup {id}
                /\ axTracker' = id
                /\ client' = IF axTracker = id THEN client ELSE FocusMoved(client, id)
        /\ UNCHANGED <<axWindows, axNextId, axDue, axOp, axPerformed>>

\* perform: a walk now, and again for as long as the window settles.
AxPerform(i, x) ==
    /\ axOp = AxIdle /\ axPerformed < MaxAxActions
    /\ axPerformed' = axPerformed + 1
    /\ x \in axWindows[i].ids
    /\ axPending' = axPending \cup {axWindows[i].id}
    /\ axWindows' = [axWindows EXCEPT ![i].settling = TRUE]
    /\ UNCHANGED <<toolkitVars, axNextId, axTracker, axDue, axOp, client>>

-----------------------------------------------------------------------------
(* drain_due: refreshes of windows that are gone come to nothing.          *)
AxRefreshDue(entry) ==
    /\ axOp = AxIdle
    /\ axDue' = axDue \ {entry}
    /\ IF entry[1] \in AxIds THEN EmitRefresh(AxIndex(entry[1]), entry[2])
                             ELSE UNCHANGED <<axWindows, client>>
    /\ UNCHANGED <<toolkitVars, axNextId, axTracker, axPending, axOp, axPerformed>>

AxWalkDue(id) ==
    /\ axOp = AxIdle
    /\ axPending' = axPending \ {id}
    /\ axOp' = [AxIdle EXCEPT !.kind = "rewalk", !.id = id,
                              !.walk = Walk(axWindows[AxIndex(id)].root)]
    /\ UNCHANGED <<toolkitVars, axWindows, axNextId, axTracker, axDue, axPerformed, client>>

AxReadNext ==
    /\ axOp # AxIdle /\ ~WalkDone(axOp.walk)
    /\ axOp' = [axOp EXCEPT !.walk = Advance(@, {x \in All : Answers(x)})]
    /\ UNCHANGED <<toolkitVars, axWindows, axNextId, axTracker, axPending, axDue, axPerformed,
                   client>>

AxFinishWalk(settles) ==
    LET i == AxIndex(axOp.id)
        s == axWindows[i]
        reads == axOp.walk.read
    IN  /\ axOp.kind = "rewalk" /\ WalkDone(axOp.walk)
        /\ IF reads = <<>> THEN settles = s.settling ELSE settles => s.settling
        /\ axPending' = IF settles /\ reads # <<>> THEN axPending \cup {s.id} ELSE axPending
        /\ axWindows' = [axWindows EXCEPT ![i] = [AxRewalked(s, reads) EXCEPT !.settling = settles]]
        /\ client' = AxSend(client, s, reads)
        /\ axOp' = AxIdle
        /\ UNCHANGED <<toolkitVars, axNextId, axTracker, axDue, axPerformed>>

-----------------------------------------------------------------------------
(* reconcile: windows that are gone, windows that are new, and a walk of   *)
(* the one in front, which nothing but this tick would see scroll.         *)
Retire(gone) ==
    /\ axWindows' = Keeping(axWindows, {i \in DOMAIN axWindows : axWindows[i].id \notin gone})
    /\ client' = Removed(client, gone)
    /\ axTracker' = IF axTracker \in gone THEN 0 ELSE axTracker

AxReconcile ==
    LET gone  == {axWindows[i].id : i \in {j \in DOMAIN axWindows :
                                              axWindows[j].root \notin showing}}
        new   == SetToSeq(showing \ AxRoots)
        front == {axWindows[i].id : i \in {j \in DOMAIN axWindows :
                                              axWindows[j].root = active}}
    IN  /\ axOp = AxIdle
        /\ Retire(gone)
        /\ axPending' = (axPending \ gone) \cup front
        /\ axOp' = AxWalking("add", new, active)
        /\ UNCHANGED <<toolkitVars, axNextId, axDue, axPerformed>>

\* A window that walks empty is left to the next tick; a new one that is
\* active takes the focus, which the first ones get at the end.
AxFinishAdd ==
    LET root == Head(axOp.found)
        s == AxState(axNextId, root, axOp.walk.read)
        added == Added(client, s.id, root,
                       Tree(root)!Update(s.emitted, s.emittedFocus, TRUE))
        takes == axOp.kind = "add" /\ axOp.front = root
    IN  /\ axOp.kind \in {"add", "enumerate"} /\ axOp.found # <<>>
        /\ WalkDone(axOp.walk) /\ axNextId <= MaxAxIds
        /\ IF axOp.walk.read = <<>> THEN UNCHANGED <<axNextId, axWindows, axTracker, client>>
           ELSE /\ axNextId' = axNextId + 1
                /\ axWindows' = Append(axWindows, s)
                /\ axTracker' = IF takes THEN s.id ELSE axTracker
                /\ client' = IF takes THEN FocusMoved(added, s.id) ELSE added
        /\ axOp' = AxWalking(axOp.kind, Tail(axOp.found), axOp.front)
        /\ UNCHANGED <<toolkitVars, axPending, axDue, axPerformed>>

AxSourceNext ==
    \/ RouteStructure \/ RouteRefresh \/ RouteFocus
    \/ \E i \in DOMAIN axWindows : \E x \in axWindows[i].ids : AxPerform(i, x)
    \/ \E entry \in axDue : AxRefreshDue(entry)
    \/ \E id \in axPending \cap AxIds : AxWalkDue(id)
    \/ AxReadNext \/ AxReconcile \/ AxFinishAdd \/ AxServe
    \/ \E settles \in BOOLEAN : AxFinishWalk(settles)

\* A selection is notified of its container alone, which is all that is then
\* read again: what such a change leaves stale is not asked of this model.
AxNext ==
    \/ /\ ToolkitNext /\ UNCHANGED <<axVars, client>>
       /\ Returning \/ \A x \in left : parent'[x] = None
       /\ queue' = <<>> \/ Last(queue').kind # "selection"
    \/ AxSourceNext

-----------------------------------------------------------------------------
(* Properties.                                                             *)

\* "A delta may only name children the consumer already has, or that the same
\* delta carries" (EmittedTree::holds): no update is one the consumer could
\* not apply.
AxNeverFaults == client.fault = "none"

\* The cache every later delta is reduced against is what the consumer holds,
\* and with it the focus of each window and the focused window; and what it
\* holds is a strict tree, no element under two parents.
AxHeld ==
    /\ AxNeverFaults
    /\ client.focus = axTracker /\ DOMAIN client.trees = AxIds
    /\ \A i \in DOMAIN axWindows :
          LET s == axWindows[i]
              held == client.trees[s.id].nodes
          IN  /\ held = s.emitted /\ client.trees[s.id].focus = s.emittedFocus
              /\ \A m, n \in held : m # n => m.kids \cap n.kids = {}

AxAtRest == axOp = AxIdle /\ queue = <<>> /\ axPending = {} /\ axDue = {}

\* With nothing routed or due any more, the consumer has every tracked window
\* on screen as it is: the elements its walk reaches, with their values, and
\* no other.
AxCaughtUp ==
    AxAtRest =>
        \A i \in {j \in DOMAIN axWindows : axWindows[j].root \in showing} :
            LET s == axWindows[i]
                held == client.trees[s.id].nodes
            IN  {<<n.id, n.val>> : n \in {m \in held : m.id \in All}}
                    = {<<x, val[x]>> : x \in Listed(s.root)}
=============================================================================
