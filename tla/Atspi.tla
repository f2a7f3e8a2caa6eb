------------------------------- MODULE Atspi -------------------------------
(***************************************************************************)
(* The AT-SPI bridge thread: bridge_main and Mirror of                     *)
(* crates/accesskit_remote_atspi/src/source.rs, with what mirror.rs reads  *)
(* and mapping.rs builds.  One handler runs at a time and to its end, but  *)
(* a handler that walks a window reads it object by object while the       *)
(* application goes on, and the events of what it does meanwhile queue.    *)
(*                                                                         *)
(* For every window the bridge keeps what it last sent, in four maps that  *)
(* later deltas are built from: the nodes, the text bookkeeping, the       *)
(* element children and the objects.  The times of Schedule are left out:  *)
(* a noted window may be walked, and a put off node read, at any moment.   *)
(*                                                                         *)
(* A path stands for the node id it maps to, one to one and for good, and  *)
(* a node for its children and one value.                                  *)
(***************************************************************************)
EXTENDS Replay

CONSTANTS
    MaxIds,         \* bound: window ids handed out
    MaxActions,     \* bound: actions performed
    MaxHops,        \* MAX_SPLICE_HOPS
    MaxSelected     \* MAX_SELECTED_CHILDREN

ASSUME HopsAssumption == MaxHops \in Nat

VARIABLES
    windows,     \* the WindowStates, in the order they were added
    nextId,
    tracker,     \* FocusTracker: the focused window's id, or 0
    pending,     \* ids the coalescer holds
    due,         \* <<id, path>>: trailing refreshes the limiter holds
    op,          \* the handler under way
    unheard,     \* what happened before the event stream was opened, history
    performed

atspiVars == <<windows, nextId, tracker, pending, due, op, unheard, performed>>

Idle == [kind |-> "idle", todo |-> <<>>, walk |-> [todo |-> <<>>, read |-> <<>>],
         prev |-> None, then |-> "none"]

Ids == {windows[i].id : i \in DOMAIN windows}
Index(id) == CHOOSE i \in DOMAIN windows : windows[i].id = id
Window(id) == windows[Index(id)]
TrackedRoots == {windows[i].root : i \in DOMAIN windows}
WindowsOfSender(x) == {id \in Ids : App[Window(id).root] = App[RootOf(x)]}

\* The first window, in order, of the sender of x among those that hold it.
First(x, holding) ==
    LET found == {i \in holding : App[windows[i].root] = App[RootOf(x)]}
    IN  IF found = {} THEN 0 ELSE Min(found)

-----------------------------------------------------------------------------
(* mapping.rs: nodes out of reads.                                         *)
Empty == [x \in {} |-> 0]

RunsOf(text, x) == IF x \in DOMAIN text THEN RunIds(x, text[x].lines) ELSE {}

Container(r, kids) == Element(r.path, kids \cup RunIds(r.path, r.lines), r.val)

\* A window's state with the reads built into it, each with the children given.
Built(s, reads, kids) ==
    LET texts == {r \in reads : r.lines > 0}
        plain == {r.path : r \in reads \ texts}
        Of(x) == CHOOSE r \in reads : r.path = x
        paths == {r.path : r \in reads}
    IN  [id |-> s.id, root |-> s.root, objects |-> s.objects \cup paths, focus |-> s.focus,
         nodes |-> [x \in DOMAIN s.nodes \cup paths |->
                       IF x \in paths THEN Container(Of(x), kids[x]) ELSE s.nodes[x]],
         text |-> [x \in (DOMAIN s.text \ plain) \cup {r.path : r \in texts} |->
                      IF x \in paths THEN [kids |-> kids[x], lines |-> Of(x).lines] ELSE s.text[x]],
         children |-> [x \in DOMAIN s.children \cup paths |->
                          IF x \in paths THEN kids[x] ELSE s.children[x]]]

EmittedNodes(s, paths) ==
    {s.nodes[x] : x \in paths} \cup UNION {Runs(x, s.text[x].lines) : x \in paths \cap DOMAIN s.text}

NewState(id, root) ==
    [id |-> id, root |-> root, objects |-> {}, focus |-> root,
     nodes |-> Empty, text |-> Empty, children |-> Empty]

\* build_window_update: everything is as the walk found it, children it did
\* not reach left out.
Rebuilt(s, reads) ==
    LET walked == Paths(reads)
        found  == {reads[i] : i \in DOMAIN reads}
        kids   == [x \in walked |-> (CHOOSE r \in found : r.path = x).kids \cap walked]
    IN  [Built(NewState(s.id, s.root), found, kids)
            EXCEPT !.focus = WalkFocus(reads, s.root)]

FullUpdate(s) == Tree(s.root)!Update(EmittedNodes(s, DOMAIN s.nodes), s.focus, TRUE)

-----------------------------------------------------------------------------
(* read_chain_to_known and splice_chain_update.  A climb is the sequence   *)
(* of objects from the descendant up to the first one known.               *)
Climb(x, known) ==
    LET Up[n \in 0..MaxHops] ==
            IF n = 0 THEN x
            ELSE IF Up[n - 1] \in Objects THEN parent[Up[n - 1]] ELSE None
        reached == {n \in 0..MaxHops-1 : Up[n] \in known}
    IN  IF reached = {} THEN <<>> ELSE [i \in 1..Min(reached) + 1 |-> Up[i - 1]]

SplicedKidsFresh(s, climb) ==
    LET chain == {climb[i] : i \in DOMAIN climb}
    IN  [x \in chain |->
            LET i == CHOOSE i \in DOMAIN climb : climb[i] = x
                next == IF i = 1 THEN {} ELSE {climb[i - 1]}
            IN  Kids(x) \cup next]
SplicedKids(s, climb) ==
    LET known == DOMAIN s.children
        chain == {climb[i] : i \in DOMAIN climb}
    IN  [x \in chain |->
            LET i == CHOOSE i \in DOMAIN climb : climb[i] = x
                next == IF i = 1 THEN {} ELSE {climb[i - 1]}
            IN  (IF i = Len(climb) THEN s.children[x] ELSE Kids(x) \cap (known \cup chain))
                \cup next]

CanSplice(s, climb) == Len(climb) >= 2 /\ climb[Len(climb)] \in DOMAIN s.children

Spliced(s, climb) ==
    LET reads == {Read(climb[i]) : i \in DOMAIN climb}
    IN  [Built(s, reads, SplicedKids(s, climb)) EXCEPT !.focus = climb[1]]

SpliceUpdate(s, climb) ==
    Tree(s.root)!Update(EmittedNodes(s, {climb[i] : i \in DOMAIN climb}), s.focus, FALSE)

\* rewalk: the walk, and the node that had the focus spliced back in when
\* the walk did not see it.
Rewalked(s, reads, prev) ==
    LET fresh == Rebuilt(s, reads)
        climb == IF prev # None /\ prev \notin Paths(reads)
                 THEN Climb(prev, DOMAIN fresh.children) ELSE <<>>
    IN  IF CanSplice(fresh, climb) THEN Spliced(fresh, climb) ELSE fresh

-----------------------------------------------------------------------------
(* refresh_node, refresh_paths, rebuild_text_node.                         *)
Refreshed1(s, x) == Element(x, s.children[x] \cup RunsOf(s.text, x), Read(x).val)

RefreshedIn(s, paths) == {x \in paths : x \in s.objects /\ Refreshed1(s, x) # s.nodes[x]}

AfterRefresh(s, paths) ==
    [s EXCEPT !.nodes = [x \in DOMAIN @ |->
        IF x \in RefreshedIn(s, paths) THEN Refreshed1(s, x) ELSE @[x]]]

\* One delta of the nodes that changed, or nothing.
SendNodes(s, nodes) ==
    client' = IF nodes = {} THEN client
              ELSE Update(client, s.id, s.root, Tree(s.root)!Update(nodes, s.focus, FALSE))

RefreshPaths(i, paths) ==
    LET s == windows[i]
        t == AfterRefresh(s, paths)
    IN  /\ windows' = [windows EXCEPT ![i] = t]
        /\ SendNodes(t, {t.nodes[x] : x \in RefreshedIn(s, paths)})

Reread(s, x) ==
    LET n == lines[x]
        kids == s.text[x].kids
        node == Element(x, kids \cup RunIds(x, n), s.nodes[x].val)
    IN  [id |-> s.id, root |-> s.root, objects |-> s.objects, focus |-> s.focus,
         nodes |-> [s.nodes EXCEPT ![x] = node],
         text |-> [s.text EXCEPT ![x] = [kids |-> kids, lines |-> n]],
         children |-> s.children]

\* The runs that differ, place by place, from those last sent.
ChangedRuns(x, old, new) == Runs(x, new) \ Runs(x, old)

RefreshText(i, x) ==
    LET s == windows[i]
        t == Reread(s, x)
    IN  /\ windows' = [windows EXCEPT ![i] = t]
        /\ SendNodes(t, ({t.nodes[x]} \ {s.nodes[x]})
                        \cup ChangedRuns(x, s.text[x].lines, t.text[x].lines))

-----------------------------------------------------------------------------
(* Window-level focus.                                                     *)
FocusWindow(c, id) == IF tracker = id THEN c ELSE FocusMoved(c, id)

\* emit_node_focus, given the client after the update that goes before it.
NodeFocused(i, x) ==
    LET s == windows[i]
    IN  /\ windows' = [windows EXCEPT ![i].focus = x]
        /\ client' = FocusWindow(Update(client, s.id, s.root, Tree(s.root)!Update({}, x, FALSE)), s.id)
        /\ tracker' = s.id

-----------------------------------------------------------------------------
(* bridge_main: the windows found are walked one after the other, then    *)
(* the stream of events is opened.  The client is shown the windows as     *)
(* they are walked; the code hands them over together, at the end.         *)
Connecting == [Idle EXCEPT !.kind = "connect"]

AtspiInit ==
    /\ windows = <<>> /\ nextId = 1 /\ tracker = 0
    /\ client = [trees |-> NoTrees, focus |-> 0, fault |-> "none"]
    /\ pending = {} /\ due = {} /\ unheard = {} /\ performed = 0
    /\ op = Connecting

\* The windows left to walk, and the one that was active when they were found.
Enumerating(roots, front) ==
    [kind |-> "enumerate", then |-> "none", todo |-> roots, prev |-> front,
     walk |-> IF roots = <<>> THEN Idle.walk ELSE Walk(roots[1])]

\* What was notified before is all there to be read.
Discover ==
    /\ op = Connecting
    /\ op' = Enumerating(SetToSeq(showing), active)
    /\ queue' = <<>>
    /\ UNCHANGED <<showing, parent, listed, val, lines, focused, active, left, also, steps>>
    /\ UNCHANGED <<windows, nextId, tracker, pending, due, unheard, performed, client>>

\* The stream brings what happens from here on; the rest reached nobody.
Listen ==
    LET front == {i \in DOMAIN windows : windows[i].root = op.prev}
        first == IF front # {} THEN windows[Min(front)].id
                 ELSE IF windows = <<>> THEN 0 ELSE windows[1].id
    IN  /\ op.kind = "enumerate" /\ op.todo = <<>>
        /\ tracker' = first
        /\ client' = FocusMoved(client, first)
        /\ op' = Idle
        /\ unheard' = {queue[k] : k \in DOMAIN queue}
        /\ queue' = <<>>
        /\ UNCHANGED <<showing, parent, listed, val, lines, focused, active, left, also, steps>>
        /\ UNCHANGED <<windows, nextId, pending, due, performed>>

-----------------------------------------------------------------------------
(* Handlers.  Each takes the oldest event, its source having gone on since.*)
Takes(kind) ==
    /\ op = Idle /\ queue # <<>> /\ Head(queue).kind = kind
    /\ queue' = Tail(queue)
    /\ UNCHANGED <<showing, parent, listed, val, lines, focused, active, left, also, steps>>

Subject == Head(queue).at

Rewalking(ids, then) ==
    LET first == Window(SetToSeq(ids)[1])
    IN  IF ids = {} THEN Idle
        ELSE [kind |-> "rewalk", then |-> then, todo |-> SetToSeq(ids), walk |-> Walk(first.root),
              prev |-> IF first.focus \in first.objects THEN first.focus ELSE None]

Adding(roots) ==
    IF roots = <<>> THEN Idle
    ELSE [kind |-> "add", then |-> "none", todo |-> roots, walk |-> Walk(roots[1]), prev |-> None]

\* reconcile: vanished windows are dropped and announced, then those newly
\* found are walked one after the other.
Reconcile ==
    LET gone  == {id \in Ids : Window(id).root \notin showing}
        added == SetToSeq(showing \ TrackedRoots)
    IN  /\ windows' = Keeping(windows, {i \in DOMAIN windows : windows[i].id \notin gone})
        /\ tracker' = IF tracker \in gone THEN 0 ELSE tracker
        /\ client' = Removed(client, gone)
        /\ pending' = pending \ gone
        /\ due' = {d \in due : d[1] \notin gone}
        /\ op' = Adding(added)
        /\ unheard' = {n \in unheard : n.kind # "lifecycle"}

HandleLifecycle ==
    /\ Takes("lifecycle") /\ Reconcile
    /\ UNCHANGED <<nextId, performed>>

ReconcileTick ==
    /\ op = Idle /\ Reconcile
    /\ UNCHANGED <<toolkitVars, nextId, performed>>

NotedWindows(x) == WindowsOfSender(x)

HandleChildrenChanged ==
    /\ Takes("children")
    /\ pending' = pending \cup NotedWindows(Subject)
    /\ UNCHANGED <<windows, nextId, tracker, due, op, unheard, performed, client>>

\* resolve_tracked_node and resolve_focus_target.
Tracked(x) == First(x, {i \in DOMAIN windows : x \in DOMAIN windows[i].nodes})
FocusTarget(x) == First(x, {i \in DOMAIN windows : x \in windows[i].objects})

\* The limiter reads at once or puts off; what is put off stays put off.
Notes(id, paths, now) ==
    /\ now \subseteq {x \in paths : <<id, x>> \notin due}
    /\ due' = due \cup {<<id, x>> : x \in paths \ now}

HandleState ==
    LET i == Tracked(Subject)
    IN  /\ Takes("state")
        /\ IF i = 0 THEN UNCHANGED <<windows, due, client>>
           ELSE \E now \in SUBSET {Subject} :
                   Notes(windows[i].id, {Subject}, now) /\ RefreshPaths(i, now)
        /\ UNCHANGED <<nextId, tracker, pending, op, unheard, performed>>

\* refresh_selection: what the client shows as selected, and what is now.
SelectedKids(p) == {x \in Kids(p) : val[x] = 1}
SelectionTargetsNow(s, p) == s.children[p] \cap SelectedKids(p)
SelectionTargets(s, p) ==
    LET emitted == s.children[p]
    IN  {x \in emitted : (x \in DOMAIN s.nodes /\ s.nodes[x].val = 1)
                         \/ x \in SelectedKids(p)}

HandleSelection ==
    LET i == Tracked(Subject)
    IN  /\ Takes("selection")
        /\ IF i = 0 \/ ~Attached(Subject)
           THEN UNCHANGED <<windows, due, client, pending>>
           ELSE IF Cardinality(SelectedKids(Subject)) > MaxSelected
           THEN pending' = pending \cup {windows[i].id} /\ UNCHANGED <<windows, due, client>>
           ELSE /\ \E now \in SUBSET SelectionTargets(windows[i], Subject) :
                     /\ Notes(windows[i].id, SelectionTargets(windows[i], Subject), now)
                     /\ RefreshPaths(i, now)
                /\ UNCHANGED pending
        /\ UNCHANGED <<nextId, tracker, op, unheard, performed>>

HandleText ==
    LET i == First(Subject, {j \in DOMAIN windows : Subject \in DOMAIN windows[j].text})
    IN  /\ Takes("text")
        /\ IF i = 0 \/ ~Attached(Subject) THEN UNCHANGED <<windows, client>>
                                          ELSE RefreshText(i, Subject)
        /\ UNCHANGED <<nextId, tracker, pending, due, op, unheard, performed>>

\* A focused object the tree does not have yet makes its windows be walked.
HandleFocus ==
    LET i == FocusTarget(Subject)
    IN  /\ Takes("focus")
        /\ IF i = 0
           THEN op' = Rewalking(WindowsOfSender(Subject), "none") /\ UNCHANGED <<windows, tracker, client>>
           ELSE NodeFocused(i, Subject) /\ UNCHANGED op
        /\ UNCHANGED <<nextId, pending, due, unheard, performed>>

SpliceDescendant(x) ==
    LET known == UNION {DOMAIN Window(id).children : id \in WindowsOfSender(x)}
        climb == IF WindowsOfSender(x) = {} THEN <<>> ELSE Climb(x, known)
        i     == IF climb = <<>> THEN 0
                 ELSE First(x, {j \in DOMAIN windows : climb[Len(climb)] \in DOMAIN windows[j].children})
    IN  IF i = 0 \/ Len(climb) < 2 THEN UNCHANGED <<windows, tracker, client>>
        ELSE LET s == Spliced(windows[i], climb)
             IN  /\ windows' = [windows EXCEPT ![i] = s]
                 /\ client' = FocusWindow(Update(client, s.id, s.root, SpliceUpdate(s, climb)), s.id)
                 /\ tracker' = s.id

HandleDescendant ==
    LET i == FocusTarget(Subject)
    IN  /\ Takes("descendant")
        /\ IF i = 0 THEN SpliceDescendant(Subject) ELSE NodeFocused(i, Subject)
        /\ UNCHANGED <<nextId, pending, due, op, unheard, performed>>

Activation(kind) ==
    LET targets == {id \in Ids : Window(id).root = Subject}
    IN  /\ Takes(kind)
        /\ op' = Rewalking(targets, kind)
        /\ UNCHANGED <<windows, nextId, tracker, pending, due, unheard, performed, client>>

HandleActivate == Activation("activate")
HandleDeactivate == Activation("deactivate")

\* An action on a node the window has now, and the walk it is owed.
HandleAction(id, x) ==
    /\ op = Idle /\ performed < MaxActions
    /\ performed' = performed + 1
    /\ pending' = IF x \in Window(id).objects THEN pending \cup {id} ELSE pending
    /\ UNCHANGED <<toolkitVars, windows, nextId, tracker, due, op, unheard, client>>

-----------------------------------------------------------------------------
(* The timer's arm, and the walks.                                         *)
TimerRewalk(ids) ==
    /\ op = Idle /\ ids # {}
    /\ pending' = pending \ ids
    /\ op' = Rewalking(ids, "none")
    /\ UNCHANGED <<toolkitVars, windows, nextId, tracker, due, unheard, performed, client>>

TimerRefresh(i, paths) ==
    /\ op = Idle /\ paths # {}
    /\ due' = due \ {<<windows[i].id, x>> : x \in paths}
    /\ RefreshPaths(i, paths)
    /\ UNCHANGED <<toolkitVars, nextId, tracker, pending, op, unheard, performed>>

ReadNext ==
    /\ op # Idle /\ ~WalkDone(op.walk)
    /\ op' = [op EXCEPT !.walk = Advance(@, All)]
    /\ UNCHANGED <<toolkitVars, windows, nextId, tracker, pending, due, unheard, performed, client>>

\* Window focus follows activation, after the walks.
Then(c, id) ==
    CASE op.then = "activate"                     -> FocusWindow(c, id)
      [] op.then = "deactivate" /\ tracker = id   -> FocusMoved(c, 0)
      [] OTHER                                    -> c
TrackerThen(id) ==
    CASE op.then = "activate"                     -> id
      [] op.then = "deactivate" /\ tracker = id   -> 0
      [] OTHER                                    -> tracker

\* What is unheard and no walk of the window has seen since.
SinceWalked(root) == {n \in unheard : n.kind = "lifecycle" \/ RootOf(n.at) # root}

FinishRewalk ==
    LET id == Head(op.todo)
        s  == Rewalked(Window(id), op.walk.read, op.prev)
    IN  /\ op.kind = "rewalk" /\ WalkDone(op.walk)
        /\ windows' = [windows EXCEPT ![Index(id)] = s]
        /\ client' = Then(Update(client, id, s.root, FullUpdate(s)), id)
        /\ tracker' = TrackerThen(id)
        /\ op' = Rewalking({op.todo[k] : k \in 2..Len(op.todo)}, op.then)
        /\ unheard' = SinceWalked(s.root)
        /\ UNCHANGED <<toolkitVars, nextId, pending, due, performed>>

\* add_discovered.
AddDiscovered ==
    LET root == Head(op.todo)
        s    == Rebuilt(NewState(nextId, root), op.walk.read)
    IN  /\ WalkDone(op.walk) /\ nextId <= MaxIds
        /\ windows' = Append(windows, s)
        /\ nextId' = nextId + 1
        /\ client' = Added(client, nextId, root, FullUpdate(s))
        /\ UNCHANGED <<toolkitVars, tracker, pending, due, performed>>

FinishAdd ==
    /\ op.kind = "add" /\ AddDiscovered
    /\ op' = Adding(Tail(op.todo))
    /\ unheard' = SinceWalked(Head(op.todo))

FinishEnumerated ==
    /\ op.kind = "enumerate" /\ op.todo # <<>> /\ AddDiscovered
    /\ op' = Enumerating(Tail(op.todo), op.prev)
    /\ UNCHANGED unheard

AtspiSourceNext ==
    \/ HandleLifecycle \/ HandleChildrenChanged \/ HandleState \/ HandleSelection
    \/ HandleText \/ HandleFocus \/ HandleDescendant \/ HandleActivate \/ HandleDeactivate
    \/ \E id \in Ids : \E x \in DOMAIN Window(id).nodes : HandleAction(id, x)
    \/ \E ids \in SUBSET pending : TimerRewalk(ids)
    \/ \E i \in DOMAIN windows :
          \E paths \in SUBSET {x \in All : <<windows[i].id, x>> \in due} : TimerRefresh(i, paths)
    \/ ReconcileTick \/ ReadNext \/ FinishRewalk \/ FinishAdd
    \/ Discover \/ FinishEnumerated \/ Listen

AtspiNext ==
    \/ ToolkitNext /\ UNCHANGED <<atspiVars, client>>
    \/ AtspiSourceNext

-----------------------------------------------------------------------------
(* Properties.                                                             *)

\* No update the bridge sends is one the client could not apply: every child
\* and every focus it names is held already or comes with it.  And what the
\* bridge builds the next delta from is what the client holds: its node cache
\* with the runs of its text cache, and the same paths in its children and
\* object maps (WindowState).
HeldByClient ==
    /\ client.fault = "none"
    /\ DOMAIN client.trees = Ids
    /\ \A i \in DOMAIN windows :
          LET s == windows[i]
          IN  /\ client.trees[s.id].nodes = EmittedNodes(s, DOMAIN s.nodes)
              /\ s.objects = DOMAIN s.nodes /\ DOMAIN s.children = DOMAIN s.nodes

\* The focused window the tracker has, and the focused node each window
\* keeps for its next delta, are those of the client, who forgets a removed
\* window by itself (FocusTracker, WindowState.focus).
FocusAgrees ==
    /\ client.focus = tracker
    /\ \A i \in DOMAIN windows : client.trees[windows[i].id].focus = windows[i].focus

\* A bridge that was started, whose first window's id is 1.
BridgeStarted == nextId # 0

\* Both, of a bridge that was started.
BridgeHeldByClient == BridgeStarted => HeldByClient /\ FocusAgrees

AtspiAtRest == op = Idle /\ queue = <<>> /\ pending = {} /\ due = {}

\* Something of the window changed unheard, and was not walked since.
Missed(root) == \E n \in unheard : RootOf(n.at) = root
                                   /\ n.kind \in {"children", "state", "selection", "text"}

\* With nothing left to handle the client has caught up, whatever changed
\* between the reads of a walk: the windows are those on screen, a listed
\* object is there with its children, its value and its text, and what else
\* is there is a live spliced cell, as current as the rest.  The stream is
\* opened after the first walks, so of what happened meanwhile a window that
\* came or went awaits the next reconcile, and any other change the next
\* walk of its window.
AtspiCaughtUp ==
    AtspiAtRest =>
        /\ \A r \in Roots : Notification("lifecycle", r) \notin unheard =>
                             (r \in TrackedRoots <=> r \in showing)
        /\ \A i \in {j \in DOMAIN windows : ~Missed(windows[j].root)} :
              LET s == windows[i]
                  held == client.trees[s.id].nodes
                  lazy == Objects \ listed
              IN  /\ \A x \in Listed(s.root) :
                        \E n \in held : n.id = x /\ (n.kids \cap Objects) \ lazy = Kids(x)
                  /\ \A n \in {m \in held : m.id \in All} :
                        /\ Attached(n.id) /\ n.val = val[n.id]
                        /\ n.id \in TextObjects =>
                              Runs(n.id, lines[n.id]) = {m \in held : m.id \in RunIds(n.id, 2)}

\* "When the object has not been walked yet, the owning app's windows are
\* re-walked so a fresh tree carries State::Focused" (handle_focus_change):
\* once everything is handled, and nothing is left unheard, an object that
\* says it is focused, and that its window lists, has the focus in the
\* client's tree.
FocusIsCarried ==
    AtspiAtRest /\ unheard = {} =>
        \A i \in DOMAIN windows :
            focused \in Listed(windows[i].root) \ Roots =>
                client.trees[windows[i].id].focus = focused
=============================================================================
