------------------------------ MODULE Toolkit ------------------------------
(***************************************************************************)
(* The applications a source mirrors, as the AT-SPI and the macOS source   *)
(* see them: windows whose objects come and go, change, take focus and     *)
(* queue a notification for each of it, while the source is anywhere in    *)
(* its own work.  External: nothing here is code of the repository; what   *)
(* an object answers is modelled from how mirror.rs and walk.rs use it.    *)
(*                                                                         *)
(* An object keeps its window.  One that is attached but not listed is     *)
(* the lazy cell of a grid: it knows its parent, and no walk reaches it.   *)
(***************************************************************************)
EXTENDS Naturals, Sequences, FiniteSets, SequencesExt

CONSTANTS
    Roots,          \* toplevel windows
    Objects,        \* the objects inside them
    TextObjects,    \* those that hold text
    Home,           \* the window of each object
    App,            \* the application of each window
    AlsoListed,     \* <<parent, object>>: listed by a second parent as well, on macOS
    None,
    MaxSteps,       \* bound: what the applications do in one behaviour
    MaxQueue        \* bound: notifications under way

All == Roots \cup Objects
RootOf(x) == IF x \in Roots THEN x ELSE Home[x]

ASSUME ToolkitAssumption ==
    /\ IsFiniteSet(All) /\ None \notin All /\ Roots \cap Objects = {}
    /\ TextObjects \subseteq Objects
    /\ Home \in [Objects -> Roots]
    /\ \A pair \in AlsoListed :
          \E p \in All, x \in Objects : pair = <<p, x>> /\ RootOf(p) = Home[x]

VARIABLES
    showing,    \* the windows on screen
    parent,     \* of each object, None when it is in no tree
    listed,     \* the objects their parents list as children
    val,        \* each object's one mirrored state (it is selected, say)
    lines,      \* the lines of text each text object holds
    focused,    \* the object that says it is focused
    active,     \* the window that says it is active
    left,       \* objects that were once taken out of their tree
    also,       \* AlsoListed where the toolkit does such a thing, or nothing
    steps,
    queue       \* notifications not yet handled, oldest first

toolkitVars ==
    <<showing, parent, listed, val, lines, focused, active, left, also, steps, queue>>

Attached(x) == x \in Objects => parent[x] # None

Kids(p) ==
    {x \in listed : /\ parent[x] # None
                    /\ parent[x] = p \/ (<<p, x>> \in also /\ Attached(p))}

\* What one object answers.  A dead one answers nothing, and every property
\* read of it falls back to a default.
Read(x) ==
    IF Attached(x)
    THEN [path |-> x, kids |-> Kids(x), val |-> val[x], focused |-> focused = x,
          lines |-> IF x \in TextObjects THEN lines[x] ELSE 0]
    ELSE [path |-> x, kids |-> {}, val |-> 0, focused |-> FALSE, lines |-> 0]

\* What a walk of the whole window would reach, were it to stand still.
Listed(r) ==
    LET Closed(S) == r \in S /\ \A x \in S : Kids(x) \subseteq S
    IN  {x \in All : \A S \in SUBSET All : Closed(S) => x \in S}

Notification(kind, x) == [kind |-> kind, at |-> x]

-----------------------------------------------------------------------------
ToolkitInit ==
    /\ showing \in SUBSET Roots
    /\ parent \in {p \in [Objects -> All \cup {None}] :
                      \A x \in Objects : p[x] \in {Home[x], None}}
    /\ listed = {x \in Objects : parent[x] # None}
    /\ val = [x \in All |-> 0] /\ lines = [x \in TextObjects |-> 1]
    /\ focused = None /\ active = None
    /\ left = {} /\ steps = 0 /\ queue = <<>>

Happens(kind, x) ==
    /\ steps < MaxSteps /\ Len(queue) < MaxQueue
    /\ steps' = steps + 1
    /\ queue' = Append(queue, Notification(kind, x))
    /\ UNCHANGED also

Attach(x, p, lazy) ==
    /\ ~Attached(x) /\ RootOf(p) = Home[x] /\ p # x /\ Attached(p)
    /\ Happens("children", p)
    /\ parent' = [parent EXCEPT ![x] = p]
    /\ listed' = IF lazy THEN listed \ {x} ELSE listed \cup {x}
    /\ UNCHANGED <<showing, val, lines, focused, active, left>>

Detach(x) ==
    /\ Attached(x) /\ \A y \in Objects : parent[y] # x
    /\ Happens("children", parent[x])
    /\ parent' = [parent EXCEPT ![x] = None]
    /\ listed' = listed \ {x}
    /\ focused' = IF focused = x THEN None ELSE focused
    /\ left' = left \cup {x}
    /\ UNCHANGED <<showing, val, lines, active>>

Change(x) ==
    /\ Attached(x) /\ Happens("state", x)
    /\ val' = [val EXCEPT ![x] = 1 - @]
    /\ UNCHANGED <<showing, parent, listed, lines, focused, active, left>>

\* The container says its selection changed; its children say nothing.
Select(p, chosen) ==
    /\ Kids(p) # {} /\ \E x \in Kids(p) : val[x] # IF x \in chosen THEN 1 ELSE 0
    /\ Happens("selection", p)
    /\ val' = [x \in All |-> IF x \in Kids(p) THEN (IF x \in chosen THEN 1 ELSE 0) ELSE val[x]]
    /\ UNCHANGED <<showing, parent, listed, lines, focused, active, left>>

Edit(x) ==
    /\ Attached(x) /\ Happens("text", x)
    /\ lines' = [lines EXCEPT ![x] = 3 - @]
    /\ UNCHANGED <<showing, parent, listed, val, focused, active, left>>

Focus(x) ==
    /\ Attached(x) /\ focused # x
    /\ Happens(IF x \in listed THEN "focus" ELSE "descendant", x)
    /\ focused' = x
    /\ UNCHANGED <<showing, parent, listed, val, lines, active, left>>

Show(r) ==
    /\ r \notin showing /\ Happens("lifecycle", r)
    /\ showing' = showing \cup {r}
    /\ UNCHANGED <<parent, listed, val, lines, focused, active, left>>

Hide(r) ==
    /\ r \in showing /\ Happens("lifecycle", r)
    /\ showing' = showing \ {r}
    /\ active' = IF active = r THEN None ELSE active
    /\ UNCHANGED <<parent, listed, val, lines, focused, left>>

Activate(r) ==
    /\ r \in showing /\ active # r /\ Happens("activate", r)
    /\ active' = r
    /\ UNCHANGED <<showing, parent, listed, val, lines, focused, left>>

Deactivate(r) ==
    /\ active = r /\ Happens("deactivate", r)
    /\ active' = None
    /\ UNCHANGED <<showing, parent, listed, val, lines, focused, left>>

ToolkitNext ==
    \/ \E x \in Objects, p \in All, lazy \in BOOLEAN : Attach(x, p, lazy)
    \/ \E x \in Objects : Detach(x) \/ Change(x) \/ Focus(x)
    \/ \E p \in All : \E chosen \in SUBSET Kids(p) : Select(p, chosen)
    \/ \E x \in TextObjects : Edit(x)
    \/ \E r \in Roots : Show(r) \/ Hide(r) \/ Activate(r) \/ Deactivate(r)

-----------------------------------------------------------------------------
(* A walk in progress: breadth first, one object read at a time, the       *)
(* applications free to change between two reads.  An object that does not *)
(* answer is skipped.                                                      *)
Walk(r) == [todo |-> <<r>>, read |-> <<>>]
Paths(reads) == {reads[i].path : i \in DOMAIN reads}
WalkDone(walk) == walk.todo = <<>>

Advance(walk, answering) ==
    LET x == Head(walk.todo)
    IN  IF x \in Paths(walk.read) \/ x \notin answering
        THEN [walk EXCEPT !.todo = Tail(@)]
        ELSE [todo |-> Tail(walk.todo) \o SetToSeq(Read(x).kids),
              read |-> Append(walk.read, Read(x))]

\* The entries of a list that are at the places kept, in their order.
Keeping(list, kept) ==
    [n \in 1..Cardinality(kept) |->
        list[CHOOSE i \in kept : Cardinality({j \in kept : j < i}) = n - 1]]

\* The object of the walk that said, last of all, that it is focused.
WalkFocus(reads, root) ==
    LET said == {i \in DOMAIN reads : reads[i].focused}
    IN  IF said = {} THEN root ELSE reads[Max(said)].path
=============================================================================
