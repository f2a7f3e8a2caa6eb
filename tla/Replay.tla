------------------------------- MODULE Replay -------------------------------
(***************************************************************************)
(* The client a source's events reach, replayed in the order the source    *)
(* decides them: they are sent over channels that keep that order, and no  *)
(* source reads the client back.  It holds a tree for every announced      *)
(* window, as accesskit_consumer would, remembers the focused window and   *)
(* forgets it when that window is removed, and records the first update    *)
(* it could not have applied.                                              *)
(***************************************************************************)
EXTENDS Toolkit

VARIABLE client    \* [trees |-> by window id, focus |-> id or 0, fault |-> "none" or why]

RunIds(x, n) == {<<x, i>> : i \in 1..n}
\* The first line of a text changes with its length, the second does not.
Runs(x, n) == {[id |-> <<x, i>>, kids |-> {}, val |-> IF i = 1 THEN n ELSE 0] : i \in 1..n}
NodeIds(r) == {r} \cup {x \in Objects : Home[x] = r}
              \cup UNION {RunIds(x, 2) : x \in {y \in TextObjects : Home[y] = r}}

\* The id of a run is no element's.
ASSUME RunIdsAssumption == \A x \in TextObjects : RunIds(x, 2) \cap All = {}

Element(x, kids, v) == [id |-> x, kids |-> kids, val |-> v]

Tree(r) == INSTANCE ClientTree WITH Nodes <- NodeIds(r), Root <- r

NoTrees == [w \in {} |-> 0]
ClientInit == client = [trees |-> NoTrees, focus |-> 0, fault |-> "none"]

\* The first fault is the one that counts.
Faulted(c, fault) == IF c.fault = "none" THEN fault ELSE c.fault

Update(c, id, root, u) ==
    LET held == c.trees[id].nodes
    IN  [trees |-> [c.trees EXCEPT ![id] = [nodes |-> Tree(root)!Consumed(held, u), focus |-> u.focus]],
         focus |-> c.focus,
         fault |-> Faulted(c, Tree(root)!Fault(TRUE, held, u))]

Added(c, id, root, u) ==
    [trees |-> [w \in DOMAIN c.trees \cup {id} |->
                   IF w = id THEN [nodes |-> Tree(root)!Consumed({}, u), focus |-> u.focus]
                             ELSE c.trees[w]],
     focus |-> c.focus,
     fault |-> Faulted(c, Tree(root)!Fault(FALSE, {}, u))]

Removed(c, gone) ==
    [trees |-> [w \in DOMAIN c.trees \ gone |-> c.trees[w]],
     focus |-> IF c.focus \in gone THEN 0 ELSE c.focus,
     fault |-> c.fault]

\* Focus moves to an announced window, or to none.
FocusMoved(c, id) ==
    [trees |-> c.trees, focus |-> id,
     fault |-> IF id = 0 \/ id \in DOMAIN c.trees THEN c.fault
               ELSE Faulted(c, "focus on an unannounced window")]
=============================================================================
