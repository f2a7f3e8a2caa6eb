----------------------------- MODULE ClientTree -----------------------------
(***************************************************************************)
(* Trees and their updates on the consumer's side: TreeStore of            *)
(* crates/accesskit_remote_client/src/lib.rs, which keeps every node it    *)
(* was ever sent until a snapshot prunes it; Held of desktop.rs, which     *)
(* prunes at every update; and the part of accesskit_consumer that both    *)
(* write for, modelled from what desktop.rs says of it.                    *)
(*                                                                         *)
(* A node is abstracted to its id and the set of its children.  A tree is  *)
(* the set of the nodes present, and an update is some nodes, the focus it *)
(* names and whether it carries tree data (a full update).                 *)
(***************************************************************************)
CONSTANTS
    Nodes,    \* node ids of one window's tree
    Root      \* the id of its root

ASSUME RootAssumption == Root \in Nodes

Update(nodes, focus, full) == [nodes |-> nodes, focus |-> focus, full |-> full]

Node(n, kids) == [id |-> n, kids |-> kids]
Ids(tree) == {x.id : x \in tree}
Kids(tree) == UNION {x.kids : x \in tree}

\* Nodes of this window, no two of them with one id.
IsTree(t) == \A x \in t : x.id \in Nodes /\ x.kids \subseteq Nodes /\ \A y \in t : y.id = x.id => y = x

\* Later nodes replace earlier ones.
Overlay(tree, nodes) == {x \in tree : x.id \notin Ids(nodes)} \cup nodes

Reachable(tree) ==
    LET Closed(S) == Root \in S /\ \A x \in tree : x.id \in S => x.kids \subseteq S
    IN  {n \in Nodes : \A S \in SUBSET Nodes : Closed(S) => n \in S}
Pruned(tree) == LET R == Reachable(tree) IN {x \in tree : x.id \in R}

-----------------------------------------------------------------------------
(* TreeStore.                                                              *)
NewStore == [nodes |-> {}, rooted |-> FALSE, focus |-> Root]

StoreApply(s, u) ==
    [nodes |-> Overlay(s.nodes, u.nodes), rooted |-> s.rooted \/ u.full, focus |-> u.focus]

(* handle_event's guard: a focus the store does not hold falls to the root.*)
(* What the store holds, an orphan included, passes.                       *)
StoreGuard(s) == IF s.rooted /\ s.focus \notin Ids(s.nodes) THEN [s EXCEPT !.focus = Root] ELSE s

(* snapshot prunes the store itself; a store without tree data has none.   *)
StorePruned(s) ==
    LET kept == Pruned(s.nodes)
    IN  [s EXCEPT !.nodes = kept, !.focus = IF @ \in Ids(kept) THEN @ ELSE Root]
Snapshot(s) == Update(StorePruned(s).nodes, StorePruned(s).focus, TRUE)

-----------------------------------------------------------------------------
(* Held, and where it lets an update's focus land.                         *)
HeldApplyUnpruned(held, u) == Overlay(held, u.nodes)
HeldApply(held, u) == Pruned(Overlay(held, u.nodes))

LandFocusFirst(before, after, u) ==
    IF u.focus \in Ids(Overlay(before, u.nodes)) THEN u ELSE [u EXCEPT !.focus = Root]
LandFocus(before, after, u) ==
    IF u.focus \in Ids(after) THEN u ELSE [u EXCEPT !.focus = Root]

-----------------------------------------------------------------------------
(* The consumer keeps what the root reaches, and panics over an update for *)
(* a subtree for the reason Fault gives; `present` is whether it has the   *)
(* subtree already.                                                        *)
Consumed(tree, u) == Pruned(Overlay(tree, u.nodes))

Fault(present, tree, u) ==
    IF ~present /\ ~u.full THEN "no tree data"
    ELSE IF Kids(u.nodes) \ Ids(Overlay(tree, u.nodes)) # {} THEN "missing child"
    ELSE IF u.focus \notin Ids(Consumed(tree, u)) THEN "focus not held"
    ELSE "none"
=============================================================================
