---------------------------- MODULE BridgeProofs ----------------------------
(***************************************************************************)
(* Proofs about Atspi, for any windows and objects, whatever the           *)
(* applications do between two reads of a walk, and any number of events,  *)
(* ids, actions and hops: the bridge's maps agree with one another and     *)
(* with the client, which has no update it could not apply.  What is shown *)
(* of numbers alone is taken from SourceProofs.                            *)
(***************************************************************************)
EXTENDS Atspi, SourceProofs

\* A set of numbers that is not empty has a least one, and Min is it.
LEMMA Smallest ==
    ASSUME NEW S \in SUBSET Nat, S # {}
    PROVE  Min(S) \in S /\ \A s \in S : Min(S) <= s
<1>1. PICK m \in S : \A y \in S : <<y, m>> \notin {p \in Nat \X Nat : p[1] < p[2]}
  BY NatLess, WFMin
<1>2. ASSUME NEW y \in S PROVE m <= y
  <2>1. y \in Nat /\ m \in Nat /\ ~(y < m)
    BY <1>1
  <2> QED
    BY <2>1
<1>3. \E x \in S : \A y \in S : x =< y
  BY <1>2
<1> QED
  BY <1>3 DEF Min

-----------------------------------------------------------------------------
(* What a client holds.  A node is found by its id, and an update that     *)
(* leaves exactly the nodes of a tree in place of those held is applied.   *)

\* The nodes of a tree with this root: no two with one id, the children of each
\* among them, and every one of them below the root.
Rooted(t, root) ==
    /\ \A m, n \in t : m.id = n.id => m = n
    /\ \A n \in t : n.id \in NodeIds(root) /\ \A k \in n.kids : \E m \in t : m.id = k
    /\ \E n \in t : n.id = root
    /\ \A S : root \in S /\ (\A n \in t : n.id \in S => n.kids \subseteq S) => \A n \in t : n.id \in S

\* An update that carries what differs between what is held and a tree.
Delivers(u, root, held, t) ==
    /\ Rooted(t, root) /\ \A m, n \in held : m.id = n.id => m = n
    /\ u.nodes \subseteq t /\ t \subseteq Tree(root)!Overlay(held, u.nodes)
    /\ \E n \in t : n.id = u.focus

\* It leaves the client with that tree, and is no fault.
LEMMA TreeArrives ==
    ASSUME NEW root, NEW held, NEW t, NEW u, Delivers(u, root, held, t),
           NEW present, present \/ u.full
    PROVE  /\ Tree(root)!Consumed(held, u) = t
           /\ Tree(root)!Fault(present, held, u) = "none"
<1> USE DEF Delivers
<1> DEFINE over == Tree(root)!Overlay(held, u.nodes)
           ids == {n.id : n \in t}
           reached == Tree(root)!Reachable(over)
<1>1. \A n \in over : n \in u.nodes \/ (n \in held /\ \A m \in u.nodes : m.id # n.id)
  BY DEF Tree!Overlay, Tree!Ids
<1>2. ASSUME NEW n \in over, n.id \in ids PROVE n \in t
  <2>1. PICK m \in t : m.id = n.id
    BY <1>2
  <2>2. CASE n \in u.nodes
    BY <2>2
  <2>3. CASE n \in held /\ \A k \in u.nodes : k.id # n.id
    <3>1. m \in over /\ m \notin u.nodes
      BY <2>1, <2>3
    <3>2. m \in held
      BY <1>1, <3>1
    <3> QED
      BY <2>1, <2>3, <3>2
  <2> QED
    BY <1>1, <2>2, <2>3
<1>3. root \in ids /\ ids \subseteq NodeIds(root)
  BY DEF Rooted
<1>4. \A n \in over : n.id \in ids => n.kids \subseteq ids
  BY <1>2 DEF Rooted
<1>5. reached = {n \in NodeIds(root) : \A S \in SUBSET NodeIds(root) :
                    (root \in S /\ \A x \in over : x.id \in S => x.kids \subseteq S) => n \in S}
  BY DEF Tree!Reachable
<1>6. reached \subseteq ids
  <2> HIDE DEF over, ids
  <2> QED
    BY <1>3, <1>4, <1>5
<1>7. ids \subseteq reached
  <2> SUFFICES ASSUME NEW S \in SUBSET NodeIds(root), root \in S,
                      \A x \in over : x.id \in S => x.kids \subseteq S
               PROVE  ids \subseteq S
    <3> HIDE DEF over, ids
    <3> QED
      BY <1>3, <1>5
  <2>1. \A x \in t : x.id \in S => x.kids \subseteq S
    OBVIOUS
  <2> QED
    BY <2>1 DEF Rooted
<1>8. Tree(root)!Pruned(over) = {n \in over : n.id \in ids}
  <2> HIDE DEF over, ids, reached
  <2>1. Tree(root)!Pruned(over) = {n \in over : n.id \in reached}
    BY DEF Tree!Pruned, reached
  <2> QED
    BY <1>6, <1>7, <2>1
<1>9. {n \in over : n.id \in ids} = t
  BY <1>2
<1>10. Tree(root)!Consumed(held, u) = t
  BY <1>8, <1>9 DEF Tree!Consumed
<1>11. Tree(root)!Kids(u.nodes) \subseteq Tree(root)!Ids(over)
  <2>1. ASSUME NEW k \in Tree(root)!Kids(u.nodes) PROVE k \in Tree(root)!Ids(over)
    <3>1. PICK n \in u.nodes : k \in n.kids
      BY <2>1 DEF Tree!Kids
    <3>2. n \in t
      BY <3>1
    <3>3. PICK m \in t : m.id = k
      BY <3>1, <3>2 DEF Rooted
    <3>4. m \in over
      BY <3>3
    <3> QED
      BY <3>3, <3>4 DEF Tree!Ids
  <2> QED
    BY <2>1
<1>12. u.focus \in Tree(root)!Ids(t)
  BY DEF Tree!Ids
<1>13. Tree(root)!Kids(u.nodes) \ Tree(root)!Ids(Tree(root)!Overlay(held, u.nodes)) = {}
  BY <1>11
<1> QED
  BY <1>10, <1>12, <1>13 DEF Tree!Fault

-----------------------------------------------------------------------------
(* The objects of a window, and what they answer.                          *)

Here(r) == {x \in All : RootOf(x) = r}

ToolkitFine ==
    /\ \A x \in Objects : parent[x] # None => parent[x] \in All /\ RootOf(parent[x]) = Home[x]
    /\ parent = [x \in Objects |-> parent[x]] /\ listed \subseteq Objects /\ showing \subseteq Roots
    /\ lines \in [TextObjects -> 1..2]
    /\ also \subseteq AlsoListed

\* A read of an object of the window with this root.
ReadIn(d, r) ==
    /\ d.path \in Here(r) /\ d.kids \subseteq Here(r)
    /\ d.lines \in 0..2 /\ (d.lines > 0 => d.path \in TextObjects)

\* The children of an object are objects of its window.
LEMMA KidsHere ==
    ASSUME ToolkitFine, NEW x \in All
    PROVE  Kids(x) \subseteq Here(RootOf(x)) /\ Kids(x) \subseteq Objects /\ IsFiniteSet(Kids(x))
<1>1. ASSUME NEW y \in Kids(x) PROVE y \in Objects /\ y \in Here(RootOf(x))
  <2>1. y \in Objects /\ y \in All /\ parent[y] # None
    BY <1>1 DEF Kids, ToolkitFine, All
  <2>2. CASE parent[y] = x
    BY <2>1, <2>2, ToolkitAssumption DEF ToolkitFine, Here, RootOf
  <2>3. CASE <<x, y>> \in also
    <3>1. PICK p \in All, o \in Objects : <<x, y>> = <<p, o>> /\ RootOf(p) = Home[o]
      BY <2>3, ToolkitAssumption DEF ToolkitFine
    <3> QED
      BY <2>1, <3>1, ToolkitAssumption DEF Here, RootOf
  <2> QED
    BY <1>1, <2>2, <2>3 DEF Kids
<1>2. IsFiniteSet(Kids(x))
  <2>1. Kids(x) \subseteq All
    BY <1>1 DEF Here
  <2> QED
    BY <2>1, ToolkitAssumption, FS_Subset
<1> QED
  BY <1>1, <1>2

\* What an object answers is about its own window, dead or alive.
LEMMA ReadsHere ==
    ASSUME ToolkitFine, NEW x \in All
    PROVE  /\ ReadIn(Read(x), RootOf(x)) /\ Read(x).path = x
           /\ IsFiniteSet(Read(x).kids) /\ Read(x).kids \subseteq Objects
<1>1. x \in Here(RootOf(x))
  BY DEF Here
<1>2. x \in TextObjects => lines[x] \in 1..2
  BY DEF ToolkitFine
<1>3. IsFiniteSet({})
  BY FS_EmptySet
<1>4. CASE Attached(x)
  <2>1. Read(x) = [path |-> x, kids |-> Kids(x), val |-> val[x], focused |-> focused = x,
                   lines |-> IF x \in TextObjects THEN lines[x] ELSE 0]
    BY <1>4 DEF Read
  <2> QED
    BY <1>1, <1>2, <2>1, KidsHere DEF ReadIn
<1>5. CASE ~Attached(x)
  <2>1. Read(x) = [path |-> x, kids |-> {}, val |-> 0, focused |-> FALSE, lines |-> 0]
    BY <1>5 DEF Read
  <2> QED
    BY <1>1, <1>3, <2>1 DEF ReadIn
<1> QED
  BY <1>4, <1>5

-----------------------------------------------------------------------------
(* The state of a window: its maps speak of the same objects, all of them  *)
(* objects of that window.                                                 *)

MapsAgree(s) ==
    /\ s = [id |-> s.id, root |-> s.root, objects |-> DOMAIN s.nodes, focus |-> s.focus,
            nodes |-> s.nodes, text |-> s.text, children |-> s.children]
    /\ s.nodes = [x \in DOMAIN s.nodes |->
                     Element(x, s.children[x] \cup RunsOf(s.text, x), s.nodes[x].val)]
    /\ s.children = [x \in DOMAIN s.nodes |-> s.children[x]]
    /\ s.text = [x \in DOMAIN s.text |-> [kids |-> s.children[x], lines |-> s.text[x].lines]]
    /\ s.root \in Roots /\ DOMAIN s.nodes \subseteq Here(s.root)
    /\ DOMAIN s.text \subseteq DOMAIN s.nodes \cap TextObjects
    /\ \A x \in DOMAIN s.text : s.text[x].lines \in 1..2
    /\ \A x \in DOMAIN s.nodes : s.children[x] \subseteq DOMAIN s.nodes

\* From its root every object is reached, and one of them has the focus.
AllReached(s) ==
    /\ s.root \in DOMAIN s.nodes /\ s.focus \in DOMAIN s.nodes
    /\ \A S : s.root \in S /\ (\A x \in DOMAIN s.nodes : x \in S => s.children[x] \subseteq S)
                => DOMAIN s.nodes \subseteq S

StateFine(s) == MapsAgree(s) /\ AllReached(s)

Emitted(s) == EmittedNodes(s, DOMAIN s.nodes)

\* What a window emits: each of its nodes under its own id, with its children
\* and its runs, and the runs of each of its texts.
LEMMA EmittedIs ==
    ASSUME NEW s, MapsAgree(s)
    PROVE  /\ \A x \in DOMAIN s.nodes : s.nodes[x] \in Emitted(s) /\ s.nodes[x].id = x
                                        /\ s.nodes[x].kids = s.children[x] \cup RunsOf(s.text, x)
           /\ \A x \in DOMAIN s.text : Runs(x, s.text[x].lines) \subseteq Emitted(s)
           /\ \A n \in Emitted(s) :
                 \/ n.id \in DOMAIN s.nodes /\ n = s.nodes[n.id]
                 \/ \E x \in DOMAIN s.text : n \in Runs(x, s.text[x].lines)
<1>1. ASSUME NEW x \in DOMAIN s.nodes
      PROVE  s.nodes[x].id = x /\ s.nodes[x].kids = s.children[x] \cup RunsOf(s.text, x)
  <2>1. s.nodes[x] = Element(x, s.children[x] \cup RunsOf(s.text, x), s.nodes[x].val)
    BY DEF MapsAgree
  <2> QED
    BY <2>1 DEF Element
<1>2. Emitted(s) = {s.nodes[x] : x \in DOMAIN s.nodes}
                   \cup UNION {Runs(x, s.text[x].lines) : x \in DOMAIN s.nodes \cap DOMAIN s.text}
  BY DEF Emitted, EmittedNodes
<1>3. DOMAIN s.nodes \cap DOMAIN s.text = DOMAIN s.text
  BY DEF MapsAgree
<1> QED
  BY <1>1, <1>2, <1>3

\* A run's id is its object's and its place, and no object's.
LEMMA RunIs ==
    ASSUME NEW x \in TextObjects, NEW n \in 1..2, NEW m \in Runs(x, n)
    PROVE  /\ \E i \in 1..n : m = [id |-> <<x, i>>, kids |-> {}, val |-> IF i = 1 THEN n ELSE 0]
                              /\ m.id = <<x, i>> /\ i \in 1..2
           /\ m.kids = {} /\ m.id \notin All /\ m.id \in RunIds(x, n) /\ m.id \in RunIds(x, 2)
<1>1. PICK i \in 1..n : m = [id |-> <<x, i>>, kids |-> {}, val |-> IF i = 1 THEN n ELSE 0]
  BY DEF Runs
<1>2. m.id = <<x, i>> /\ i \in 1..2 /\ m.kids = {}
  BY <1>1
<1>3. m.id \in RunIds(x, n) /\ m.id \in RunIds(x, 2)
  BY <1>2 DEF RunIds
<1> QED
  BY <1>1, <1>2, <1>3, RunIdsAssumption

\* What such a window emits is a tree.
LEMMA EmittedRooted ==
    ASSUME NEW s, StateFine(s)
    PROVE  Rooted(Emitted(s), s.root)
<1> DEFINE t == Emitted(s)
           D == DOMAIN s.nodes
           T == DOMAIN s.text
           n(x) == s.text[x].lines
<1>1. MapsAgree(s) /\ AllReached(s)
  BY DEF StateFine
<1>2. /\ \A x \in D : s.nodes[x] \in t /\ s.nodes[x].id = x
                      /\ s.nodes[x].kids = s.children[x] \cup RunsOf(s.text, x)
      /\ \A x \in T : Runs(x, n(x)) \subseteq t
      /\ \A m \in t : \/ m.id \in D /\ m = s.nodes[m.id]
                      \/ \E x \in T : m \in Runs(x, n(x))
  <2> HIDE DEF t
  <2> QED
    BY <1>1, EmittedIs DEF t
<1>3. /\ D \subseteq Here(s.root) /\ T \subseteq D /\ T \subseteq TextObjects /\ s.root \in D
      /\ \A x \in D : s.children[x] \subseteq D
      /\ \A x \in T : n(x) \in 1..2
  BY <1>1 DEF MapsAgree, AllReached
<1>4. D \subseteq All /\ D \subseteq NodeIds(s.root)
  <2>1. ASSUME NEW x \in D PROVE x \in All /\ x \in NodeIds(s.root)
    <3>1. x \in All /\ RootOf(x) = s.root
      BY <1>3 DEF Here
    <3> QED
      BY <3>1 DEF All, RootOf, NodeIds
  <2> QED
    BY <2>1
<1>5. ASSUME NEW x \in T, NEW m \in Runs(x, n(x))
      PROVE  /\ m.kids = {} /\ m.id \notin D /\ m.id \in NodeIds(s.root) /\ m.id \in RunIds(x, n(x))
             /\ \E i \in 1..2 : m.id = <<x, i>> /\ m = [id |-> <<x, i>>, kids |-> {}, val |-> IF i = 1 THEN n(x) ELSE 0]
  <2>1. x \in TextObjects /\ n(x) \in 1..2
    BY <1>3
  <2> HIDE DEF n
  <2>2. m.kids = {} /\ m.id \notin All /\ m.id \in RunIds(x, n(x)) /\ m.id \in RunIds(x, 2)
        /\ \E i \in 1..2 : m.id = <<x, i>> /\ m = [id |-> <<x, i>>, kids |-> {}, val |-> IF i = 1 THEN n(x) ELSE 0]
    BY <2>1, RunIs
  <2>3. RootOf(x) = s.root
    BY <1>3 DEF Here
  <2>4. m.id \in NodeIds(s.root)
    <3>1. Home[x] = s.root
      BY <2>1, <2>3, ToolkitAssumption DEF RootOf
    <3> QED
      BY <2>1, <2>2, <3>1 DEF NodeIds
  <2> QED
    BY <1>4, <2>2, <2>4
<1> HIDE DEF t, n
<1>6. ASSUME NEW m \in t, NEW k \in t, m.id = k.id PROVE m = k
  <2>1. CASE m.id \in D
    BY <1>2, <1>5, <1>6, <2>1
  <2>2. CASE m.id \notin D
    <3>1. PICK x \in T : m \in Runs(x, n(x))
      BY <1>2, <2>2
    <3>2. PICK y \in T : k \in Runs(y, n(y))
      BY <1>2, <1>6, <2>2
    <3>3. PICK i \in 1..2 : m.id = <<x, i>> /\ m = [id |-> <<x, i>>, kids |-> {}, val |-> IF i = 1 THEN n(x) ELSE 0]
      BY <1>5, <3>1
    <3>4. PICK j \in 1..2 : k.id = <<y, j>> /\ k = [id |-> <<y, j>>, kids |-> {}, val |-> IF j = 1 THEN n(y) ELSE 0]
      BY <1>5, <3>2
    <3>5. x = y /\ i = j
      BY <1>6, <3>3, <3>4
    <3> QED
      BY <3>3, <3>4, <3>5
  <2> QED
    BY <2>1, <2>2
<1>7. ASSUME NEW m \in t PROVE m.id \in NodeIds(s.root) /\ \A k \in m.kids : \E q \in t : q.id = k
  <2>1. CASE m.id \in D /\ m = s.nodes[m.id]
    <3>1. ASSUME NEW k \in m.kids PROVE \E q \in t : q.id = k
      <4>1. k \in s.children[m.id] \/ k \in RunsOf(s.text, m.id)
        BY <1>2, <2>1, <3>1
      <4>2. CASE k \in s.children[m.id]
        BY <1>2, <1>3, <2>1, <4>2
      <4>3. CASE k \in RunsOf(s.text, m.id)
        <5>1. m.id \in T /\ k \in RunIds(m.id, n(m.id))
          BY <4>3 DEF RunsOf, n
        <5>2. PICK i \in 1..n(m.id) : k = <<m.id, i>>
          BY <5>1 DEF RunIds
        <5> DEFINE q == [id |-> <<m.id, i>>, kids |-> {}, val |-> IF i = 1 THEN n(m.id) ELSE 0]
        <5>3. q \in Runs(m.id, n(m.id))
          BY <5>2 DEF Runs
        <5>4. q \in t
          BY <1>2, <5>1, <5>3
        <5> QED
          BY <5>2, <5>4
      <4> QED
        BY <4>1, <4>2, <4>3
    <3> QED
      BY <1>4, <2>1, <3>1
  <2>2. CASE \E x \in T : m \in Runs(x, n(x))
    BY <1>5, <2>2
  <2> QED
    BY <1>2, <2>1, <2>2
<1>8. ASSUME NEW S, s.root \in S, \A m \in t : m.id \in S => m.kids \subseteq S
      PROVE  \A m \in t : m.id \in S
  <2>1. ASSUME NEW x \in D, x \in S PROVE s.children[x] \subseteq S
    BY <1>2, <1>8, <2>1
  <2>2. D \subseteq S
    BY <1>1, <1>8, <2>1 DEF AllReached
  <2>3. ASSUME NEW x \in T, NEW m \in Runs(x, n(x)) PROVE m.id \in S
    <3>1. RunsOf(s.text, x) = RunIds(x, n(x))
      BY DEF RunsOf, n
    <3>2. s.nodes[x] \in t /\ s.nodes[x].id \in S /\ RunIds(x, n(x)) \subseteq s.nodes[x].kids
      BY <1>2, <1>3, <2>2, <3>1
    <3>3. m.id \in RunIds(x, n(x))
      BY <1>5, <2>3
    <3> QED
      BY <1>8, <3>2, <3>3
  <2> QED
    BY <1>2, <2>2, <2>3
<1>9. \E m \in t : m.id = s.root
  BY <1>2, <1>3
<1>10. Rooted(t, s.root)
  BY <1>6, <1>7, <1>8, <1>9 DEF Rooted
<1> QED
  BY <1>10 DEF t

-----------------------------------------------------------------------------
(* The windows a bridge keeps, and the client that holds them.             *)

IdsIn(ws) == {ws[i].id : i \in 1..Len(ws)}

WindowsFine(ws, next) ==
    /\ next \in Nat \ {0} /\ Len(ws) \in Nat /\ ws = [i \in 1..Len(ws) |-> ws[i]]
    /\ \A i \in 1..Len(ws) : StateFine(ws[i]) /\ ws[i].id \in 1..next-1
    /\ \A i, j \in 1..Len(ws) : ws[i].id = ws[j].id => i = j

ClientHolds(c, ws, focus) ==
    /\ c = [trees |-> c.trees, focus |-> focus, fault |-> "none"]
    /\ c.trees = [w \in {ws[i].id : i \in 1..Len(ws)} |-> c.trees[w]]
    /\ \A i \in 1..Len(ws) : c.trees[ws[i].id] = [nodes |-> Emitted(ws[i]), focus |-> ws[i].focus]

\* An update that carries what differs between a window and its next state
\* leaves the client with that next state.
LEMMA WindowSent ==
    ASSUME NEW ws, NEW next, NEW c, NEW focus, WindowsFine(ws, next), ClientHolds(c, ws, focus),
           NEW i \in 1..Len(ws), NEW t, StateFine(t), t.id = ws[i].id, t.root = ws[i].root,
           NEW u, u.focus = t.focus, u.nodes \subseteq Emitted(t),
           Emitted(t) \subseteq Tree(t.root)!Overlay(Emitted(ws[i]), u.nodes)
    PROVE  /\ WindowsFine([ws EXCEPT ![i] = t], next)
           /\ ClientHolds(Update(c, t.id, t.root, u), [ws EXCEPT ![i] = t], focus)
<1> DEFINE s == ws[i]
           new == [ws EXCEPT ![i] = t]
           len == Len(ws)
           d == Update(c, t.id, t.root, u)
<1>1. /\ len \in Nat /\ ws = [k \in 1..len |-> ws[k]]
      /\ \A k \in 1..len : StateFine(ws[k]) /\ ws[k].id \in 1..next-1
      /\ \A k, l \in 1..len : ws[k].id = ws[l].id => k = l
  BY DEF WindowsFine
<1>2. new = [k \in 1..len |-> IF k = i THEN t ELSE ws[k]] /\ Len(new) = len
  <2>1. new = [k \in 1..len |-> IF k = i THEN t ELSE ws[k]]
    BY <1>1
  <2> HIDE DEF new, len
  <2>2. Len(new) = len
    BY <1>1, <2>1
  <2> QED
    BY <2>1, <2>2
<1>3. WindowsFine(new, next)
  <2> HIDE DEF new, len
  <2>1. \A k \in 1..len : new[k].id = ws[k].id /\ StateFine(new[k])
    BY <1>1, <1>2
  <2>2. new = [k \in 1..len |-> new[k]]
    BY <1>2
  <2>3. next \in Nat \ {0}
    BY DEF WindowsFine
  <2> QED
    BY <1>1, <1>2, <2>1, <2>2, <2>3 DEF WindowsFine
<1>4. \A m, n \in Emitted(s) : m.id = n.id => m = n
  BY <1>1, EmittedRooted DEF Rooted
<1>5. \E n \in Emitted(t) : n.id = u.focus
  BY EmittedIs DEF StateFine, AllReached
<1>6. /\ Tree(t.root)!Consumed(Emitted(s), u) = Emitted(t)
      /\ Tree(t.root)!Fault(TRUE, Emitted(s), u) = "none"
  <2>1. Rooted(Emitted(t), t.root)
    BY EmittedRooted
  <2>2. Emitted(t) \subseteq Tree(t.root)!Overlay(Emitted(s), u.nodes)
    OBVIOUS
  <2>3. Delivers(u, t.root, Emitted(s), Emitted(t))
    BY <1>4, <1>5, <2>1, <2>2 DEF Delivers
  <2> QED
    BY <2>3, TreeArrives
<1>7. c.trees[t.id].nodes = Emitted(s) /\ t.id \in DOMAIN c.trees /\ c.fault = "none" /\ c.focus = focus
  <2>1. t.id \in {ws[k].id : k \in 1..Len(ws)}
    OBVIOUS
  <2>2. c.trees[ws[i].id] = [nodes |-> Emitted(ws[i]), focus |-> ws[i].focus]
    BY DEF ClientHolds
  <2>3. DOMAIN c.trees = {ws[k].id : k \in 1..Len(ws)}
    BY DEF ClientHolds
  <2>4. c = [trees |-> c.trees, focus |-> focus, fault |-> "none"]
    BY DEF ClientHolds
  <2>5. c.fault = "none" /\ c.focus = focus
    BY <2>4
  <2> QED
    BY <2>1, <2>2, <2>3, <2>5
<1>8. d = [trees |-> [c.trees EXCEPT ![t.id] = [nodes |-> Emitted(t), focus |-> t.focus]],
           focus |-> focus, fault |-> "none"]
  BY <1>6, <1>7 DEF Update, Faulted
<1>9. /\ d = [trees |-> [c.trees EXCEPT ![t.id] = [nodes |-> Emitted(t), focus |-> t.focus]],
              focus |-> focus, fault |-> "none"]
      /\ DOMAIN d.trees = DOMAIN c.trees
      /\ d.trees[t.id] = [nodes |-> Emitted(t), focus |-> t.focus]
      /\ \A w \in DOMAIN c.trees : w # t.id => d.trees[w] = c.trees[w]
  BY <1>7, <1>8
<1> HIDE DEF d, new, len
<1>10. {new[k].id : k \in 1..len} = {ws[k].id : k \in 1..len}
  <2>1. \A k \in 1..len : new[k].id = ws[k].id
    BY <1>2
  <2> QED
    BY <2>1
<1>11. d.trees = [w \in {new[k].id : k \in 1..Len(new)} |-> d.trees[w]]
  <2>1. DOMAIN c.trees = {new[k].id : k \in 1..Len(new)}
    BY <1>2, <1>10 DEF ClientHolds, len
  <2>2. d.trees = [w \in DOMAIN c.trees |-> d.trees[w]]
    BY <1>9
  <2> QED
    BY <2>1, <2>2
<1>12. ASSUME NEW k \in 1..Len(new)
       PROVE  d.trees[new[k].id] = [nodes |-> Emitted(new[k]), focus |-> new[k].focus]
  <2>1. CASE k = i
    BY <1>2, <1>9, <2>1
  <2>2. CASE k # i
    <3>1. new[k] = ws[k] /\ ws[k].id # t.id /\ ws[k].id \in DOMAIN c.trees /\ k \in 1..len
      BY <1>1, <1>2, <2>2 DEF ClientHolds, len
    <3>2. c.trees[ws[k].id] = [nodes |-> Emitted(ws[k]), focus |-> ws[k].focus]
      BY <3>1 DEF ClientHolds, len
    <3> QED
      BY <1>9, <3>1, <3>2
  <2> QED
    BY <2>1, <2>2
<1>13. ClientHolds(d, new, focus)
  <2>1. d = [trees |-> d.trees, focus |-> focus, fault |-> "none"]
    BY <1>9
  <2> QED
    BY <1>11, <1>12, <2>1 DEF ClientHolds
<1> QED
  BY <1>3, <1>13 DEF new, d

\* Focus on a window that is held, or on none, is no fault.
LEMMA FocusSent ==
    ASSUME NEW ws, NEW c, NEW focus, ClientHolds(c, ws, focus),
           NEW id, id = 0 \/ \E i \in 1..Len(ws) : ws[i].id = id
    PROVE  ClientHolds(FocusMoved(c, id), ws, id)
<1>1. c = [trees |-> c.trees, focus |-> focus, fault |-> "none"]
  BY DEF ClientHolds
<1>2. id = 0 \/ id \in DOMAIN c.trees
  BY DEF ClientHolds
<1>3. c.fault = "none"
  BY <1>1
<1>4. FocusMoved(c, id) = [trees |-> c.trees, focus |-> id, fault |-> "none"]
  BY <1>2, <1>3 DEF FocusMoved, Faulted
<1> QED
  BY <1>4, SMTT(30) DEF ClientHolds

\* A window announced with all it has is held like the others.
LEMMA WindowAdded ==
    ASSUME NEW ws, NEW next, NEW c, NEW focus, WindowsFine(ws, next), ClientHolds(c, ws, focus),
           NEW t, StateFine(t), t.id = next,
           NEW u, u.focus = t.focus, u.nodes = Emitted(t), u.full
    PROVE  /\ WindowsFine(Append(ws, t), next + 1)
           /\ ClientHolds(Added(c, next, t.root, u), Append(ws, t), focus)
           /\ IdsIn(ws) \subseteq IdsIn(Append(ws, t))
<1> DEFINE new == Append(ws, t)
           len == Len(ws)
           d == Added(c, next, t.root, u)
<1>1. /\ len \in Nat /\ ws = [k \in 1..len |-> ws[k]] /\ next \in Nat \ {0}
      /\ \A k \in 1..len : StateFine(ws[k]) /\ ws[k].id \in 1..next-1
      /\ \A k, l \in 1..len : ws[k].id = ws[l].id => k = l
  BY DEF WindowsFine
<1>2. /\ Len(new) = len + 1 /\ new = [k \in 1..len+1 |-> new[k]] /\ new[len + 1] = t
      /\ \A k \in 1..len : new[k] = ws[k]
  <2> DEFINE S == {ws[k] : k \in 1..len} \cup {t}
  <2>1. ws \in [1..len -> S]
    BY <1>1
  <2>2. t \in S
    OBVIOUS
  <2> HIDE DEF S
  <2>3. ws \in Seq(S)
    BY <1>1, <2>1, IsASeq
  <2>4. new \in Seq(S) /\ Len(new) = len + 1 /\ (\A k \in 1..len : new[k] = ws[k]) /\ new[len + 1] = t
    BY <2>2, <2>3, AppendProperties
  <2>5. new \in [1..len+1 -> S]
    BY <2>4, LenProperties
  <2> QED
    BY <2>4, <2>5
<1> HIDE DEF new, len
<1>3. WindowsFine(new, next + 1)
  <2>1. ASSUME NEW k \in 1..len+1 PROVE StateFine(new[k]) /\ new[k].id \in 1..next
    <3>1. CASE k = len + 1
      BY <1>1, <1>2, <3>1
    <3>2. CASE k \in 1..len
      <4>1. StateFine(ws[k]) /\ ws[k].id \in 1..next-1 /\ new[k] = ws[k]
        BY <1>1, <1>2, <3>2
      <4>2. 1..next-1 \subseteq 1..next
        BY <1>1
      <4> QED
        BY <4>1, <4>2
    <3> QED
      BY <1>1, <3>1, <3>2
  <2>2. ASSUME NEW k \in 1..len+1, NEW l \in 1..len+1, new[k].id = new[l].id PROVE k = l
    <3>1. \A m \in 1..len : new[m].id < next /\ new[m].id \in Nat
      <4>1. \A m \in 1..len : new[m].id \in 1..next-1
        BY <1>1, <1>2
      <4> QED
        BY <1>1, <4>1
    <3>2. new[len + 1].id = next
      BY <1>2
    <3>3. (k \in 1..len \/ k = len + 1) /\ (l \in 1..len \/ l = len + 1)
      BY <1>1
    <3>4. CASE k \in 1..len /\ l \in 1..len
      BY <1>1, <1>2, <2>2, <3>4
    <3>5. CASE k \in 1..len /\ l = len + 1
      BY <1>1, <2>2, <3>1, <3>2, <3>5
    <3>6. CASE l \in 1..len /\ k = len + 1
      BY <1>1, <2>2, <3>1, <3>2, <3>6
    <3> QED
      BY <3>3, <3>4, <3>5, <3>6
  <2>3. next + 1 \in Nat \ {0} /\ next + 1 - 1 = next
    BY <1>1
  <2> QED
    BY <1>1, <1>2, <2>1, <2>2, <2>3 DEF WindowsFine
<1>4. \E n \in Emitted(t) : n.id = u.focus
  BY EmittedIs DEF StateFine, AllReached
<1>5. Tree(t.root)!Consumed({}, u) = Emitted(t) /\ Tree(t.root)!Fault(FALSE, {}, u) = "none"
  <2>1. Emitted(t) \subseteq Tree(t.root)!Overlay({}, u.nodes)
    BY DEF Tree!Overlay
  <2>2. Rooted(Emitted(t), t.root)
    BY EmittedRooted
  <2>3. \A m, n \in {} : m.id = n.id => m = n
    OBVIOUS
  <2>4. Delivers(u, t.root, {}, Emitted(t))
    BY <1>4, <2>1, <2>2, <2>3 DEF Delivers
  <2> QED
    BY <2>4, TreeArrives
<1>6. c.focus = focus /\ c.fault = "none"
  <2>1. c = [trees |-> c.trees, focus |-> focus, fault |-> "none"]
    BY DEF ClientHolds
  <2> QED
    BY <2>1
<1>7. d = [trees |-> [w \in DOMAIN c.trees \cup {next} |->
                         IF w = next THEN [nodes |-> Emitted(t), focus |-> t.focus] ELSE c.trees[w]],
           focus |-> focus, fault |-> "none"]
  BY <1>5, <1>6 DEF Added, Faulted
<1> HIDE DEF d
<1>8. DOMAIN c.trees = {ws[k].id : k \in 1..len}
  BY DEF ClientHolds, len
<1>9. DOMAIN c.trees \cup {next} = {new[k].id : k \in 1..len+1}
  <2>1. ASSUME NEW k \in 1..len+1 PROVE new[k].id \in DOMAIN c.trees \cup {next}
    <3>1. k \in 1..len \/ k = len + 1
      BY <1>1
    <3> QED
      BY <1>2, <1>8, <3>1
  <2>2. ASSUME NEW w \in DOMAIN c.trees \cup {next} PROVE \E k \in 1..len+1 : new[k].id = w
    <3>1. CASE w = next
      BY <1>1, <1>2, <3>1
    <3>2. CASE w \in DOMAIN c.trees
      <4>1. PICK k \in 1..len : ws[k].id = w
        BY <1>8, <3>2
      <4>2. k \in 1..len+1
        BY <1>1
      <4> QED
        BY <1>2, <4>1, <4>2
    <3> QED
      BY <3>1, <3>2
  <2> QED
    BY <2>1, <2>2
<1>10. ASSUME NEW k \in 1..len+1
       PROVE  d.trees[new[k].id] = [nodes |-> Emitted(new[k]), focus |-> new[k].focus]
  <2>1. CASE k = len + 1
    BY <1>2, <1>7, <2>1
  <2>2. CASE k \in 1..len
    <3>1. ws[k].id # next /\ ws[k].id \in DOMAIN c.trees /\ new[k] = ws[k]
      <4>1. ws[k].id \in 1..next-1 /\ ws[k].id \in {ws[l].id : l \in 1..len}
        BY <1>1, <2>2
      <4>2. ws[k].id # next
        BY <1>1, <4>1
      <4> QED
        BY <1>2, <1>8, <2>2, <4>1, <4>2
    <3>2. c.trees[ws[k].id] = [nodes |-> Emitted(ws[k]), focus |-> ws[k].focus]
      BY <2>2 DEF ClientHolds, len
    <3> QED
      BY <1>7, <3>1, <3>2
  <2> QED
    BY <1>1, <2>1, <2>2
<1>11. ClientHolds(d, new, focus)
  <2>1. d = [trees |-> d.trees, focus |-> focus, fault |-> "none"]
    BY <1>7
  <2>2. d.trees = [w \in {new[k].id : k \in 1..len+1} |-> d.trees[w]]
    BY <1>7, <1>9
  <2> QED
    BY <1>2, <1>10, <2>1, <2>2 DEF ClientHolds
<1>12. IdsIn(ws) \subseteq IdsIn(new)
  BY <1>2, <1>8, <1>9 DEF IdsIn, len
<1> QED
  BY <1>3, <1>11, <1>12 DEF new, d

\* The entries of `list` at the places kept, where `pos` says each was.
KeptBy(list, kept, out, m, pos) ==
    /\ m \in Nat /\ pos \in [1..m -> kept]
    /\ \A k, l \in 1..m : pos[k] = pos[l] => k = l
    /\ \A i \in kept : \E k \in 1..m : pos[k] = i
    /\ out = [k \in 1..m |-> list[pos[k]]]

\* What is kept of a list is each entry of a place kept, once.
LEMMA KeepingIs ==
    ASSUME NEW n \in Nat, NEW list, NEW kept \in SUBSET (1..n)
    PROVE  \E m, pos : KeptBy(list, kept, Keeping(list, kept), m, pos)
<1> DEFINE m == Cardinality(kept)
           rank(i) == Cardinality({j \in kept : j < i})
           pos == [k \in 1..m |-> CHOOSE i \in kept : rank(i) = k - 1]
<1>1. IsFiniteSet(kept) /\ m \in Nat
  <2>1. IsFiniteSet(1..n)
    BY FS_Interval
  <2> QED
    BY <2>1, FS_Subset, FS_CardinalityType
<1>2. ASSUME NEW i \in kept
      PROVE  rank(i) \in 0..m-1 /\ \A k \in kept : i < k => rank(i) < rank(k)
  BY Ranks
<1>3. Keeping(list, kept) = [k \in 1..m |-> list[pos[k]]]
  BY DEF Keeping
<1> HIDE DEF rank, m
<1> DEFINE f == [i \in kept |-> rank(i) + 1]
<1>4. f \in [kept -> 1..m]
  BY <1>1, <1>2
<1>5. ASSUME NEW i \in kept, NEW j \in kept, rank(i) = rank(j) PROVE i = j
  <2>1. i \in Nat /\ j \in Nat /\ rank(i) \in Nat /\ rank(j) \in Nat
    BY <1>1, <1>2
  <2> QED
    BY <1>2, <1>5, <2>1
<1>6. f \in Injection(kept, 1..m)
  <2>1. \A i, j \in kept : f[i] = f[j] => i = j
    <3>1. \A i \in kept : rank(i) \in Int
      BY <1>1, <1>2
    <3> QED
      BY <1>5, <3>1
  <2> HIDE DEF f
  <2> QED
    BY <1>4, <2>1 DEF Injection, IsInjective
<1>7. Cardinality(1..m) = m
  <2>1. 1 \in Int /\ m \in Int
    BY <1>1
  <2>2. Cardinality(1..m) = IF 1 > m THEN 0 ELSE m - 1 + 1
    BY <2>1, FS_Interval
  <2> QED
    BY <1>1, <2>2
<1>8. f \in Surjection(kept, 1..m)
  <2>1. IsFiniteSet(1..m)
    BY <1>1, FS_Interval
  <2> HIDE DEF f
  <2> QED
    BY <1>1, <1>6, <1>7, <2>1, FS_Injection DEF m
<1>9. ASSUME NEW k \in 1..m PROVE pos[k] \in kept /\ rank(pos[k]) = k - 1
  <2>1. PICK i \in kept : f[i] = k
    BY <1>8, <1>9 DEF Surjection
  <2>2. rank(i) = k - 1
    BY <1>1, <1>2, <2>1
  <2> QED
    BY <2>2
<1> HIDE DEF f
<1>10. ASSUME NEW i \in kept PROVE rank(i) + 1 \in 1..m /\ pos[rank(i) + 1] = i
  <2> DEFINE k == rank(i) + 1
  <2>1. k \in 1..m /\ k - 1 = rank(i)
    BY <1>1, <1>2
  <2> HIDE DEF pos, k
  <2>2. pos[k] \in kept /\ rank(pos[k]) = rank(i)
    BY <1>9, <2>1
  <2>3. pos[k] = i
    BY <1>5, <2>2
  <2> QED
    BY <2>1, <2>3 DEF k
<1>11. pos \in [1..m -> kept] /\ pos = [k \in 1..m |-> pos[k]]
  BY <1>9
<1> HIDE DEF pos
<1>12. \A k, l \in 1..m : pos[k] = pos[l] => k = l
  <2>1. ASSUME NEW k \in 1..m, NEW l \in 1..m, pos[k] = pos[l] PROVE k = l
    <3>1. k - 1 = l - 1
      BY <1>9, <2>1
    <3> QED
      BY <1>1, <3>1
  <2> QED
    BY <2>1
<1>13. \A i \in kept : \E k \in 1..m : pos[k] = i
  BY <1>10
<1>14. KeptBy(list, kept, Keeping(list, kept), m, pos)
  BY <1>1, <1>3, <1>11, <1>12, <1>13 DEF KeptBy
<1> QED
  BY <1>14

\* The places of the windows that are not gone.
Staying(ws, gone) == {i \in DOMAIN ws : ws[i].id \notin gone}

\* Windows that are gone leave the others as they were, to the client as well.
LEMMA WindowsRemoved ==
    ASSUME NEW ws, NEW next, NEW c, NEW focus, WindowsFine(ws, next), ClientHolds(c, ws, focus),
           NEW gone, NEW new, new = Keeping(ws, Staying(ws, gone)),
           NEW d, d = Removed(c, gone), NEW then, then = IF focus \in gone THEN 0 ELSE focus
    PROVE  WindowsFine(new, next) /\ ClientHolds(d, new, then) /\ IdsIn(new) = IdsIn(ws) \ gone
<1> DEFINE len == Len(ws)
           kept == {i \in 1..len : ws[i].id \notin gone}
<1>1. /\ len \in Nat /\ ws = [k \in 1..len |-> ws[k]] /\ next \in Nat \ {0}
      /\ \A k \in 1..len : StateFine(ws[k]) /\ ws[k].id \in 1..next-1
      /\ \A k, l \in 1..len : ws[k].id = ws[l].id => k = l
  BY DEF WindowsFine
<1>2. new = Keeping(ws, kept)
  <2>1. DOMAIN ws = 1..len
    BY <1>1
  <2> QED
    BY <2>1 DEF Staying
<1> HIDE DEF len
<1>3. PICK m, pos : KeptBy(ws, kept, new, m, pos)
  <2>1. len \in Nat /\ kept \in SUBSET (1..len)
    BY <1>1
  <2> HIDE DEF kept
  <2>2. \E m, pos : KeptBy(ws, kept, Keeping(ws, kept), m, pos)
    BY <2>1, KeepingIs
  <2> QED
    BY <1>2, <2>2
<1>4. Len(new) = m /\ m \in Nat
  BY <1>3 DEF KeptBy
<1>5. \A k \in 1..m : pos[k] \in 1..len /\ ws[pos[k]].id \notin gone /\ new[k] = ws[pos[k]]
  BY <1>3 DEF KeptBy
<1>6. WindowsFine(new, next)
  <2>1. \A k \in 1..m : StateFine(new[k]) /\ new[k].id \in 1..next-1
    BY <1>1, <1>5
  <2>2. ASSUME NEW k \in 1..m, NEW l \in 1..m, new[k].id = new[l].id PROVE k = l
    <3>1. pos[k] \in 1..len /\ pos[l] \in 1..len /\ ws[pos[k]].id = ws[pos[l]].id
      BY <1>5, <2>2
    <3>2. pos[k] = pos[l]
      BY <1>1, <3>1
    <3> QED
      BY <1>3, <3>2 DEF KeptBy
  <2>3. new = [k \in 1..m |-> new[k]]
    <3>1. \A k \in 1..m : new[k] = ws[pos[k]]
      BY <1>5
    <3> QED
      BY <1>3, <3>1 DEF KeptBy
  <2> HIDE DEF kept
  <2>4. Len(new) \in Nat /\ next \in Nat \ {0} /\ new = [i \in 1..Len(new) |-> new[i]]
    BY <1>1, <1>4, <2>3
  <2>5. \A i \in 1..Len(new) : StateFine(new[i]) /\ new[i].id \in 1..next-1
    BY <1>4, <2>1
  <2>6. \A i, j \in 1..Len(new) : new[i].id = new[j].id => i = j
    BY <1>4, <2>2
  <2> QED
    BY <2>4, <2>5, <2>6 DEF WindowsFine
<1>7. {new[k].id : k \in 1..m} = {ws[i].id : i \in 1..len} \ gone
  <2>1. ASSUME NEW k \in 1..m PROVE new[k].id \in {ws[i].id : i \in 1..len} \ gone
    BY <1>5
  <2>2. ASSUME NEW i \in 1..len, ws[i].id \notin gone PROVE ws[i].id \in {new[k].id : k \in 1..m}
    <3>1. i \in kept
      BY <2>2
    <3>2. PICK k \in 1..m : pos[k] = i
      BY <1>3, <3>1 DEF KeptBy
    <3> QED
      BY <1>5, <3>2
  <2> QED
    BY <2>1, <2>2
<1>8. c.focus = focus /\ c.fault = "none" /\ DOMAIN c.trees = {ws[i].id : i \in 1..len}
  <2>1. c = [trees |-> c.trees, focus |-> focus, fault |-> "none"]
    BY DEF ClientHolds
  <2>2. DOMAIN c.trees = {ws[i].id : i \in 1..len}
    BY DEF ClientHolds, len
  <2>3. c.focus = focus /\ c.fault = "none"
    BY <2>1
  <2> QED
    BY <2>2, <2>3
<1>9. d = [trees |-> [w \in DOMAIN c.trees \ gone |-> c.trees[w]],
           focus |-> IF focus \in gone THEN 0 ELSE focus, fault |-> "none"]
  BY <1>8 DEF Removed
<1>10. ASSUME NEW k \in 1..m
       PROVE  d.trees[new[k].id] = [nodes |-> Emitted(new[k]), focus |-> new[k].focus]
  <2>1. c.trees[ws[pos[k]].id] = [nodes |-> Emitted(ws[pos[k]]), focus |-> ws[pos[k]].focus]
    BY <1>5 DEF ClientHolds, len
  <2>2. new[k].id \in DOMAIN c.trees \ gone
    BY <1>5, <1>8
  <2> QED
    BY <1>5, <1>9, <2>1, <2>2
<1>11. ClientHolds(d, new, then)
  <2>1. d.trees = [w \in {new[k].id : k \in 1..m} |-> d.trees[w]]
    <3>1. d.trees = [w \in DOMAIN c.trees \ gone |-> d.trees[w]]
      BY <1>9
    <3> QED
      BY <1>7, <1>8, <3>1
  <2>2. d = [trees |-> d.trees, focus |-> then, fault |-> "none"]
    BY <1>9
  <2> QED
    BY <1>4, <1>10, <2>1, <2>2 DEF ClientHolds
<1> QED
  BY <1>4, <1>6, <1>7, <1>11 DEF len, IdsIn

-----------------------------------------------------------------------------
(* Building a window's state.                                              *)

\* A state before anything is built into it.
LEMMA NewAgrees ==
    ASSUME NEW id, NEW root \in Roots
    PROVE  /\ MapsAgree(NewState(id, root)) /\ DOMAIN NewState(id, root).nodes = {}
           /\ NewState(id, root).id = id /\ NewState(id, root).root = root
<1> DEFINE s == NewState(id, root)
<1>1. s = [id |-> id, root |-> root, objects |-> {}, focus |-> root,
           nodes |-> Empty, text |-> Empty, children |-> Empty]
  BY DEF NewState
<1>2. DOMAIN Empty = {}
  BY DEF Empty
<1> HIDE DEF s
<1>3. /\ s.nodes = Empty /\ s.text = Empty /\ s.children = Empty /\ s.id = id /\ s.root = root
      /\ s.objects = {} /\ s.focus = root
  BY <1>1
<1>4. Empty = [x \in DOMAIN s.nodes |-> Element(x, s.children[x] \cup RunsOf(s.text, x), s.nodes[x].val)]
      /\ Empty = [x \in DOMAIN s.nodes |-> s.children[x]]
      /\ Empty = [x \in DOMAIN s.text |-> [kids |-> s.children[x], lines |-> s.text[x].lines]]
  BY <1>2, <1>3 DEF Empty
<1>5. s = [id |-> s.id, root |-> s.root, objects |-> DOMAIN s.nodes, focus |-> s.focus,
           nodes |-> s.nodes, text |-> s.text, children |-> s.children]
  BY <1>1, <1>2, <1>3
<1>6. MapsAgree(s)
  BY <1>2, <1>3, <1>4, <1>5 DEF MapsAgree
<1> QED
  BY <1>2, <1>3, <1>6 DEF s

\* Reads of objects of the window, each once, with children that are there.
BuildsOn(s, reads, kids, paths) ==
    /\ MapsAgree(s) /\ \A d \in reads : ReadIn(d, s.root)
    /\ \A d, e \in reads : d.path = e.path => d = e
    /\ paths = {d.path : d \in reads}
    /\ \A x \in paths : kids[x] \subseteq DOMAIN s.nodes \cup paths

\* Built into a state they make one.
LEMMA BuiltAgrees ==
    ASSUME NEW s, NEW reads, NEW kids, NEW paths, BuildsOn(s, reads, kids, paths),
           NEW t, t = Built(s, reads, kids)
    PROVE  /\ MapsAgree(t) /\ t.id = s.id /\ t.root = s.root /\ t.focus = s.focus
           /\ DOMAIN t.nodes = DOMAIN s.nodes \cup paths
           /\ \A x \in DOMAIN t.nodes : t.children[x] = IF x \in paths THEN kids[x] ELSE s.children[x]
           /\ \A x \in DOMAIN s.nodes \ paths : t.nodes[x] = s.nodes[x]
           /\ DOMAIN t.text \ paths = DOMAIN s.text \ paths
           /\ \A x \in DOMAIN t.text \ paths : t.text[x] = s.text[x]
<1> DEFINE texts == {d \in reads : d.lines > 0}
           plain == {d.path : d \in reads \ texts}
           written == {d.path : d \in texts}
           Of(x) == CHOOSE d \in reads : d.path = x
           D == DOMAIN s.nodes
           T == DOMAIN s.text
<1>a. /\ MapsAgree(s) /\ \A d \in reads : ReadIn(d, s.root)
      /\ \A d, e \in reads : d.path = e.path => d = e
      /\ paths = {d.path : d \in reads}
      /\ \A x \in paths : kids[x] \subseteq DOMAIN s.nodes \cup paths
  BY DEF BuildsOn
<1>1. ASSUME NEW x \in paths
      PROVE  /\ Of(x) \in reads /\ Of(x).path = x /\ Of(x).lines \in 0..2 /\ x \in Here(s.root)
             /\ (x \in written <=> Of(x).lines > 0) /\ (x \in plain <=> ~(Of(x).lines > 0))
             /\ (x \in written => x \in TextObjects)
  <2>1. PICK d \in reads : d.path = x
    BY <1>a
  <2>2. Of(x) \in reads /\ Of(x).path = x
    BY <2>1
  <2>3. Of(x) = d
    BY <1>a, <2>1, <2>2
  <2> HIDE DEF Of
  <2>4. d.lines \in 0..2 /\ x \in Here(s.root) /\ (d.lines > 0 => x \in TextObjects)
    BY <1>a, <2>1 DEF ReadIn
  <2>5. x \in written <=> d.lines > 0
    BY <1>a, <2>1
  <2>6. x \in plain <=> ~(d.lines > 0)
    BY <1>a, <2>1
  <2> QED
    BY <2>2, <2>3, <2>4, <2>5, <2>6
<1>2. /\ s.objects = D /\ DOMAIN s.children = D /\ D \subseteq Here(s.root) /\ s.root \in Roots
      /\ T \subseteq D /\ T \subseteq TextObjects
      /\ \A x \in T : s.text[x] = [kids |-> s.children[x], lines |-> s.text[x].lines] /\ s.text[x].lines \in 1..2
      /\ \A x \in D : s.nodes[x] = Element(x, s.children[x] \cup RunsOf(s.text, x), s.nodes[x].val)
      /\ \A x \in D : s.children[x] \subseteq D
  <2>1. s.objects = D
    <3>1. s = [id |-> s.id, root |-> s.root, objects |-> D, focus |-> s.focus,
               nodes |-> s.nodes, text |-> s.text, children |-> s.children]
      BY <1>a DEF MapsAgree
    <3> QED
      BY <3>1
  <2>2. DOMAIN s.children = D
    BY <1>a DEF MapsAgree
  <2>3. ASSUME NEW x \in T PROVE s.text[x] = [kids |-> s.children[x], lines |-> s.text[x].lines] /\ s.text[x].lines \in 1..2
    BY <1>a, <2>3 DEF MapsAgree
  <2>4. ASSUME NEW x \in D PROVE s.nodes[x] = Element(x, s.children[x] \cup RunsOf(s.text, x), s.nodes[x].val)
    BY <1>a, <2>4 DEF MapsAgree
  <2> QED
    BY <1>a, <2>1, <2>2, <2>3, <2>4 DEF MapsAgree
<1>3. t = [id |-> s.id, root |-> s.root, objects |-> s.objects \cup paths, focus |-> s.focus,
           nodes |-> [x \in D \cup paths |->
                         IF x \in paths THEN Container(Of(x), kids[x]) ELSE s.nodes[x]],
           text |-> [x \in (T \ plain) \cup written |->
                        IF x \in paths THEN [kids |-> kids[x], lines |-> Of(x).lines] ELSE s.text[x]],
           children |-> [x \in DOMAIN s.children \cup paths |->
                            IF x \in paths THEN kids[x] ELSE s.children[x]]]
  BY <1>a DEF Built
<1> HIDE DEF texts, plain, written, Of, D, T
<1>4. /\ t.id = s.id /\ t.root = s.root /\ t.objects = D \cup paths /\ t.focus = s.focus
      /\ t.nodes = [x \in D \cup paths |->
                         IF x \in paths THEN Container(Of(x), kids[x]) ELSE s.nodes[x]]
      /\ t.text = [x \in (T \ plain) \cup written |->
                        IF x \in paths THEN [kids |-> kids[x], lines |-> Of(x).lines] ELSE s.text[x]]
      /\ t.children = [x \in D \cup paths |-> IF x \in paths THEN kids[x] ELSE s.children[x]]
  BY <1>2, <1>3
<1>5. DOMAIN t.nodes = D \cup paths /\ DOMAIN t.text = (T \ plain) \cup written
      /\ DOMAIN t.children = D \cup paths
  BY <1>4
<1>6. \A x \in D \cup paths : t.children[x] = IF x \in paths THEN kids[x] ELSE s.children[x]
  BY <1>4
<1>7. /\ written \subseteq paths /\ plain \subseteq paths
      /\ \A x \in paths : x \in DOMAIN t.text <=> x \in written
      /\ \A x : x \notin paths => (x \in DOMAIN t.text <=> x \in T)
      /\ \A x \in DOMAIN t.text : t.text[x] = IF x \in paths THEN [kids |-> kids[x], lines |-> Of(x).lines] ELSE s.text[x]
  <2>1. written \subseteq paths /\ plain \subseteq paths
    BY <1>a DEF written, plain, texts
  <2>2. \A x \in paths : x \in written \/ x \in plain
    BY <1>1
  <2>3. \A x \in paths : ~(x \in written /\ x \in plain)
    BY <1>1
  <2> QED
    BY <1>4, <1>5, <2>1, <2>2, <2>3
<1>8. ASSUME NEW x \in DOMAIN t.text
      PROVE  /\ t.text[x] = [kids |-> t.children[x], lines |-> t.text[x].lines] /\ t.text[x].lines \in 1..2
             /\ x \in D \cup paths /\ x \in TextObjects
  <2>1. CASE x \in paths
    <3>1. x \in written /\ Of(x).lines > 0 /\ Of(x).lines \in 0..2 /\ x \in TextObjects
      BY <1>1, <1>7, <2>1
    <3>2. t.text[x] = [kids |-> kids[x], lines |-> Of(x).lines] /\ t.children[x] = kids[x]
      BY <1>6, <1>7, <2>1
    <3>3. t.text[x].lines = Of(x).lines
      BY <3>2
    <3> QED
      BY <2>1, <3>1, <3>2, <3>3
  <2>2. CASE x \notin paths
    <3>1. x \in T /\ x \in D /\ t.text[x] = s.text[x] /\ t.children[x] = s.children[x]
      BY <1>2, <1>6, <1>7, <2>2
    <3> QED
      BY <1>2, <3>1
  <2> QED
    BY <2>1, <2>2
<1>9. ASSUME NEW x \in D \cup paths
      PROVE  t.nodes[x] = Element(x, t.children[x] \cup RunsOf(t.text, x), t.nodes[x].val)
  <2>1. CASE x \in paths
    <3>1. t.nodes[x] = Container(Of(x), kids[x]) /\ t.children[x] = kids[x]
      BY <1>4, <1>6, <2>1
    <3>2. Container(Of(x), kids[x]) = Element(x, kids[x] \cup RunIds(x, Of(x).lines), Of(x).val)
      BY <1>1, <2>1 DEF Container
    <3>3. RunsOf(t.text, x) = RunIds(x, Of(x).lines)
      <4>1. CASE x \in DOMAIN t.text
        <5>1. t.text[x] = [kids |-> kids[x], lines |-> Of(x).lines]
          BY <1>7, <2>1, <4>1
        <5>2. t.text[x].lines = Of(x).lines
          BY <5>1
        <5> QED
          BY <4>1, <5>2 DEF RunsOf
      <4>2. CASE x \notin DOMAIN t.text
        <5>1. ~(Of(x).lines > 0) /\ Of(x).lines \in 0..2
          BY <1>1, <1>7, <2>1, <4>2
        <5>2. Of(x).lines = 0
          BY <5>1
        <5>3. 1..0 = {}
          OBVIOUS
        <5> QED
          BY <4>2, <5>2, <5>3 DEF RunsOf, RunIds
      <4> QED
        BY <4>1, <4>2
    <3>4. t.nodes[x].val = Of(x).val
      BY <3>1, <3>2 DEF Element
    <3> QED
      BY <3>1, <3>2, <3>3, <3>4
  <2>2. CASE x \notin paths
    <3>1. x \in D /\ t.nodes[x] = s.nodes[x] /\ t.children[x] = s.children[x]
      BY <1>4, <1>6, <2>2
    <3>2. RunsOf(t.text, x) = RunsOf(s.text, x)
      <4>1. x \in DOMAIN t.text <=> x \in DOMAIN s.text
        BY <1>7, <2>2 DEF T
      <4>2. x \in DOMAIN t.text => t.text[x] = s.text[x]
        BY <1>7, <2>2
      <4> QED
        BY <4>1, <4>2 DEF RunsOf
    <3> QED
      BY <1>2, <3>1, <3>2
  <2> QED
    BY <2>1, <2>2
<1>10. \A x \in D \cup paths : t.children[x] \subseteq D \cup paths
  BY <1>a, <1>2, <1>6 DEF D
<1>11. D \cup paths \subseteq Here(t.root) /\ t.root \in Roots
  BY <1>1, <1>2, <1>4
<1>12. t = [id |-> t.id, root |-> t.root, objects |-> DOMAIN t.nodes, focus |-> t.focus,
            nodes |-> t.nodes, text |-> t.text, children |-> t.children]
  BY <1>2, <1>3, <1>4, <1>5
<1>13. MapsAgree(t)
  <2>1. t.nodes = [x \in DOMAIN t.nodes |-> Element(x, t.children[x] \cup RunsOf(t.text, x), t.nodes[x].val)]
    <3>1. t.nodes = [x \in DOMAIN t.nodes |-> t.nodes[x]]
      BY <1>4
    <3> QED
      BY <1>5, <1>9, <3>1
  <2>2. t.children = [x \in DOMAIN t.nodes |-> t.children[x]]
    BY <1>4, <1>5
  <2>3. t.text = [x \in DOMAIN t.text |-> [kids |-> t.children[x], lines |-> t.text[x].lines]]
    <3>1. t.text = [x \in DOMAIN t.text |-> t.text[x]]
      BY <1>4
    <3> QED
      BY <1>8, <3>1
  <2>4. DOMAIN t.text \subseteq DOMAIN t.nodes \cap TextObjects
    BY <1>5, <1>8
  <2> QED
    BY <1>5, <1>8, <1>10, <1>11, <1>12, <2>1, <2>2, <2>3, <2>4 DEF MapsAgree
<1>14. \A x \in D \ paths : t.nodes[x] = s.nodes[x]
  BY <1>4
<1>15. DOMAIN t.text \ paths = T \ paths
  BY <1>7
<1>16. \A x \in DOMAIN t.text \ paths : t.text[x] = s.text[x]
  BY <1>7
<1> QED
  BY <1>4, <1>5, <1>6, <1>13, <1>14, <1>15, <1>16 DEF D, T

\* The reads of a walk that has reached all it could: each object once, from the
\* root down.
WalkedWhole(reads, r) ==
    /\ Len(reads) \in Nat /\ DOMAIN reads = 1..Len(reads)
    /\ \A i \in 1..Len(reads) : ReadIn(reads[i], r)
    /\ \A i, j \in 1..Len(reads) : reads[i].path = reads[j].path => i = j
    /\ r \in Paths(reads)
    /\ \A S : r \in S /\ (\A i \in 1..Len(reads) : reads[i].path \in S => reads[i].kids \cap Paths(reads) \subseteq S)
                => Paths(reads) \subseteq S

\* What such a walk makes of a window.
LEMMA RebuiltFine ==
    ASSUME NEW s, s.root \in Roots, NEW reads, WalkedWhole(reads, s.root), NEW t, t = Rebuilt(s, reads)
    PROVE  /\ StateFine(t) /\ t.id = s.id /\ t.root = s.root
           /\ DOMAIN t.nodes = Paths(reads) /\ DOMAIN t.children = Paths(reads)
<1> DEFINE new == NewState(s.id, s.root)
           walked == Paths(reads)
           found == {reads[i] : i \in DOMAIN reads}
           kids == [x \in walked |-> (CHOOSE d \in found : d.path = x).kids \cap walked]
           built == Built(new, found, kids)
           n == Len(reads)
           focus == WalkFocus(reads, s.root)
<1>1. /\ n \in Nat /\ DOMAIN reads = 1..n /\ s.root \in walked
      /\ \A i \in 1..n : ReadIn(reads[i], s.root)
      /\ \A i, j \in 1..n : reads[i].path = reads[j].path => i = j
  BY DEF WalkedWhole
<1>2. MapsAgree(new) /\ DOMAIN new.nodes = {} /\ new.id = s.id /\ new.root = s.root
  BY NewAgrees
<1>3. walked = {d.path : d \in found}
  BY DEF Paths
<1>4. \A d \in found : ReadIn(d, new.root)
  BY <1>1, <1>2
<1>5. \A d, e \in found : d.path = e.path => d = e
  BY <1>1
<1>6. t = [built EXCEPT !.focus = focus]
  BY DEF Rebuilt
<1> HIDE DEF new
<1>7. \A x \in walked : kids[x] \subseteq DOMAIN new.nodes \cup walked
  OBVIOUS
<1>8. /\ MapsAgree(built) /\ built.id = s.id /\ built.root = s.root
      /\ DOMAIN built.nodes = walked
      /\ \A x \in walked : built.children[x] = kids[x]
  <2>a. built = Built(new, found, kids)
    OBVIOUS
  <2> HIDE DEF walked, found, kids, built
  <2>1. /\ MapsAgree(built) /\ built.id = new.id /\ built.root = new.root
        /\ DOMAIN built.nodes = DOMAIN new.nodes \cup walked
        /\ \A x \in DOMAIN built.nodes : built.children[x] = IF x \in walked THEN kids[x] ELSE new.children[x]
    <3>1. BuildsOn(new, found, kids, walked)
      BY <1>2, <1>3, <1>4, <1>5, <1>7 DEF BuildsOn
    <3> QED
      BY <2>a, <3>1, BuiltAgrees
  <2> QED
    BY <1>2, <2>1
<1>9. ASSUME NEW i \in 1..n PROVE kids[reads[i].path] = reads[i].kids \cap walked
  <2> DEFINE e == CHOOSE d \in found : d.path = reads[i].path
  <2>1. reads[i] \in found /\ reads[i].path \in walked
    BY <1>1, <1>3
  <2>2. e \in found /\ e.path = reads[i].path
    BY <2>1
  <2>3. e = reads[i]
    BY <1>5, <2>1, <2>2
  <2> QED
    BY <2>1, <2>3
<1>10. focus \in walked
  <2> DEFINE said == {i \in DOMAIN reads : reads[i].focused}
  <2>1. CASE said = {}
    BY <1>1, <2>1 DEF WalkFocus
  <2>2. CASE said # {}
    <3>1. said \in SUBSET Nat /\ \A i \in said : i <= n
      BY <1>1
    <3> HIDE DEF n
    <3>2. Max(said) \in said
      <4> HIDE DEF said
      <4> QED
        BY <1>1, <2>2, <3>1, Greatest
    <3>3. focus = reads[Max(said)].path
      BY <2>2 DEF WalkFocus
    <3> QED
      BY <3>2, <3>3 DEF Paths
  <2> QED
    BY <2>1, <2>2
<1> HIDE DEF built, kids, found, focus
<1>11. /\ t = [id |-> built.id, root |-> built.root, objects |-> DOMAIN built.nodes, focus |-> focus,
               nodes |-> built.nodes, text |-> built.text, children |-> built.children]
       /\ DOMAIN built.children = DOMAIN built.nodes
  <2>1. built = [id |-> built.id, root |-> built.root, objects |-> DOMAIN built.nodes, focus |-> built.focus,
                 nodes |-> built.nodes, text |-> built.text, children |-> built.children]
    BY <1>8 DEF MapsAgree
  <2>2. DOMAIN built.children = DOMAIN built.nodes
    BY <1>8 DEF MapsAgree
  <2> QED
    BY <1>6, <2>1, <2>2
<1>12. /\ t.id = built.id /\ t.root = built.root /\ t.objects = DOMAIN built.nodes /\ t.focus = focus
       /\ t.nodes = built.nodes /\ t.text = built.text /\ t.children = built.children
  BY <1>11
<1>13. MapsAgree(t)
  BY <1>8, <1>11, <1>12 DEF MapsAgree
<1>14. AllReached(t)
  <2>1. ASSUME NEW S, t.root \in S, \A x \in DOMAIN t.nodes : x \in S => t.children[x] \subseteq S
        PROVE  DOMAIN t.nodes \subseteq S
    <3>1. ASSUME NEW i \in 1..n, reads[i].path \in S PROVE reads[i].kids \cap walked \subseteq S
      <4>1. reads[i].path \in walked
        BY <1>1 DEF Paths
      <4>2. t.children[reads[i].path] = reads[i].kids \cap walked
        BY <1>8, <1>9, <1>12, <4>1
      <4> QED
        BY <1>8, <1>12, <2>1, <3>1, <4>1, <4>2
    <3>2. s.root \in S
      BY <1>8, <1>12, <2>1
    <3>3. walked \subseteq S
      BY <3>1, <3>2 DEF WalkedWhole
    <3> QED
      BY <1>8, <1>12, <3>3
  <2> QED
    BY <1>1, <1>8, <1>10, <1>12, <2>1 DEF AllReached
<1> QED
  BY <1>8, <1>11, <1>12, <1>13, <1>14 DEF StateFine

-----------------------------------------------------------------------------
(* A walk in progress.                                                     *)

WalkFine(walk, r) ==
    LET n == Len(walk.read)
        k == Len(walk.todo)
    IN  /\ walk = [todo |-> walk.todo, read |-> walk.read]
        /\ n \in Nat /\ DOMAIN walk.read = 1..n /\ k \in Nat /\ DOMAIN walk.todo = 1..k
        /\ walk.todo = [i \in 1..k |-> walk.todo[i]] /\ walk.read = [i \in 1..n |-> walk.read[i]]
        /\ \A i \in 1..n : ReadIn(walk.read[i], r)
        /\ \A i, j \in 1..n : walk.read[i].path = walk.read[j].path => i = j
        /\ \A i \in 1..k : walk.todo[i] \in Here(r)
        /\ IF n = 0 THEN walk.todo = <<r>>
           ELSE /\ walk.read[1].path = r
                /\ \A i \in 2..n : \E j \in 1..i-1 : walk.read[i].path \in walk.read[j].kids
                /\ \A i \in 1..k : \E j \in 1..n : walk.todo[i] \in walk.read[j].kids

\* A walk that has read nothing yet.
LEMMA WalkBegins ==
    ASSUME NEW r \in Roots PROVE WalkFine(Walk(r), r)
<1> DEFINE w == Walk(r)
<1>1. w.todo = <<r>> /\ w.read = <<>> /\ w = [todo |-> <<r>>, read |-> <<>>]
  BY DEF Walk
<1> HIDE DEF w
<1>2. Len(w.todo) = 1 /\ Len(w.read) = 0 /\ w.todo[1] = r /\ DOMAIN w.todo = 1..1 /\ DOMAIN w.read = 1..0
  BY <1>1
<1>3. r \in Here(r)
  BY DEF Here, RootOf, All
<1>4. w.todo = [i \in 1..1 |-> w.todo[i]] /\ w.read = [i \in 1..0 |-> w.read[i]]
  BY <1>1
<1>5. WalkFine(w, r)
  BY <1>1, <1>2, <1>3, <1>4 DEF WalkFine
<1> QED
  BY <1>5 DEF w

\* With nothing left to read all that can be reached from the root is read.
LEMMA WalkEnds ==
    ASSUME NEW walk, NEW r \in Roots, WalkFine(walk, r), WalkDone(walk)
    PROVE  WalkedWhole(walk.read, r)
<1> DEFINE reads == walk.read
           n == Len(reads)
<1>1. /\ n \in Nat /\ DOMAIN reads = 1..n
      /\ \A i \in 1..n : ReadIn(reads[i], r)
      /\ \A i, j \in 1..n : reads[i].path = reads[j].path => i = j
  BY DEF WalkFine
<1>2. /\ n # 0 /\ reads[1].path = r
      /\ \A i \in 2..n : \E j \in 1..i-1 : reads[i].path \in reads[j].kids
  <2>1. walk.todo = <<>>
    BY DEF WalkDone
  <2>2. walk.todo # <<r>>
    BY <2>1
  <2> QED
    BY <2>2 DEF WalkFine
<1>3. \A i \in 1..n : reads[i].path \in Paths(reads)
  BY <1>1 DEF Paths
<1> HIDE DEF n
<1>4. r \in Paths(reads)
  <2>1. 1 \in 1..n
    BY <1>1, <1>2
  <2> QED
    BY <1>2, <1>3, <2>1
<1>5. ASSUME NEW S, r \in S, \A i \in 1..n : reads[i].path \in S => reads[i].kids \cap Paths(reads) \subseteq S
      PROVE  Paths(reads) \subseteq S
  <2> DEFINE bad == {i \in Nat : i \in 1..n /\ reads[i].path \notin S}
  <2>1. ASSUME bad # {} PROVE FALSE
    <3>1. PICK m \in bad : \A y \in bad : m <= y
      <4>1. bad \subseteq Nat
        OBVIOUS
      <4> HIDE DEF bad
      <4> QED
        BY <2>1, <4>1, Smallest
    <3>2. m \in Nat /\ m \in 1..n /\ reads[m].path \notin S
      OBVIOUS
    <3>3. ASSUME NEW y \in 1..n, y < m PROVE reads[y].path \in S
      <4>1. y \in bad \/ reads[y].path \in S
        OBVIOUS
      <4> HIDE DEF bad
      <4>2. y \in Nat /\ ~(m <= y)
        BY <3>2, <3>3
      <4> QED
        BY <3>1, <4>1, <4>2
    <3>4. m \in 2..n
      BY <1>1, <1>2, <1>5, <3>2
    <3>5. PICK j \in 1..m-1 : reads[m].path \in reads[j].kids
      BY <1>2, <3>4
    <3>6. j \in 1..n /\ j < m
      BY <1>1, <3>2
    <3> QED
      BY <1>3, <1>5, <3>2, <3>3, <3>5, <3>6
  <2>2. \A i \in 1..n : reads[i].path \in S
    BY <2>1
  <2> QED
    BY <1>1, <2>2 DEF Paths
<1> QED
  BY <1>1, <1>4, <1>5 DEF WalkedWhole, n

\* A list of the members of a finite set, each once.
LEMMA ListedOnce ==
    ASSUME NEW S, IsFiniteSet(S), NEW list, list = SetToSeq(S)
    PROVE  /\ Len(list) \in Nat /\ list = [i \in 1..Len(list) |-> list[i]]
           /\ Len(list) = Cardinality(S)
           /\ \A i \in 1..Len(list) : list[i] \in S
           /\ \A i, j \in 1..Len(list) : list[i] = list[j] => i = j
           /\ \A x \in S : \E i \in 1..Len(list) : list[i] = x
<1> DEFINE n == Cardinality(S)
<1>1. n \in Nat /\ ExistsBijection(1..n, S)
  BY FS_CardinalityType
<1> HIDE DEF n
<1>2. \E f \in [1..n -> S] : IsInjective(f)
  BY <1>1 DEF ExistsBijection, Bijection, Injection
<1>3. list \in [1..n -> S] /\ IsInjective(list)
  BY <1>2 DEF SetToSeq, n
<1>4. Cardinality(1..n) = n
  <2>1. 1 \in Int /\ n \in Int
    BY <1>1
  <2>2. Cardinality(1..n) = IF 1 > n THEN 0 ELSE n - 1 + 1
    BY <2>1, FS_Interval
  <2> QED
    BY <1>1, <2>2
<1>5. list \in Injection(1..n, S)
  BY <1>3 DEF Injection
<1>6. list \in Surjection(1..n, S)
  BY <1>4, <1>5, FS_Injection DEF n
<1>7. Len(list) = n
  BY <1>1, <1>3
<1>8. list = [i \in 1..n |-> list[i]] /\ \A i \in 1..n : list[i] \in S
  BY <1>3
<1>9. \A i, j \in 1..n : list[i] = list[j] => i = j
  BY <1>3 DEF IsInjective
<1>10. \A x \in S : \E i \in 1..n : list[i] = x
  BY <1>6 DEF Surjection
<1> QED
  BY <1>1, <1>7, <1>8, <1>9, <1>10 DEF n

\* The next object is read, or skipped when it was read or does not answer.
LEMMA WalkAdvances ==
    ASSUME ToolkitFine, NEW r \in Roots, NEW walk, WalkFine(walk, r), ~WalkDone(walk),
           NEW answering, r \in answering
    PROVE  WalkFine(Advance(walk, answering), r)
<1> DEFINE n == Len(walk.read)
           k == Len(walk.todo)
           x == walk.todo[1]
           kids == Read(x).kids
           list == SetToSeq(kids)
           new == Advance(walk, answering)
<1>1. /\ walk = [todo |-> walk.todo, read |-> walk.read]
      /\ n \in Nat /\ DOMAIN walk.read = 1..n /\ k \in Nat /\ DOMAIN walk.todo = 1..k
      /\ walk.todo = [i \in 1..k |-> walk.todo[i]] /\ walk.read = [i \in 1..n |-> walk.read[i]]
      /\ \A i \in 1..n : ReadIn(walk.read[i], r)
      /\ \A i, j \in 1..n : walk.read[i].path = walk.read[j].path => i = j
      /\ \A i \in 1..k : walk.todo[i] \in Here(r)
      /\ n = 0 => walk.todo = <<r>>
      /\ n # 0 => /\ walk.read[1].path = r
                  /\ \A i \in 2..n : \E j \in 1..i-1 : walk.read[i].path \in walk.read[j].kids
                  /\ \A i \in 1..k : \E j \in 1..n : walk.todo[i] \in walk.read[j].kids
  BY DEF WalkFine
<1> HIDE DEF n, k
<1>2. walk.todo \in Seq(Here(r)) /\ k = Len(walk.todo) /\ n = Len(walk.read)
  <2>1. walk.todo \in [1..k -> Here(r)]
    BY <1>1
  <2> QED
    BY <1>1, <2>1, IsASeq DEF k, n
<1>3. k # 0 /\ 1 \in 1..k
  <2>1. k # 0
    <3>1. SUFFICES ASSUME k = 0 PROVE FALSE
      OBVIOUS
    <3>2. walk.todo = <<>>
      BY <1>2, <3>1, EmptySeq
    <3> QED
      BY <3>2 DEF WalkDone
  <2> QED
    BY <1>1, <2>1
<1>4. Head(walk.todo) = x /\ x \in Here(r) /\ x \in All /\ RootOf(x) = r
  <2>1. walk.todo # <<>>
    BY DEF WalkDone
  <2>2. Head(walk.todo) = x
    BY <1>2, <2>1, HeadTailProperties
  <2> QED
    BY <1>1, <1>3, <2>2 DEF Here
<1>5. n = 0 => x = r
  BY <1>1
<1>6. /\ Tail(walk.todo) \in Seq(Here(r)) /\ Len(Tail(walk.todo)) = k - 1
      /\ \A i \in 1..k-1 : Tail(walk.todo)[i] = walk.todo[i + 1] /\ i + 1 \in 1..k
  <2>1. walk.todo # <<>>
    BY DEF WalkDone
  <2>2. /\ Tail(walk.todo) \in Seq(Here(r)) /\ Len(Tail(walk.todo)) = k - 1
        /\ \A i \in 1..Len(Tail(walk.todo)) : Tail(walk.todo)[i] = walk.todo[i + 1]
    BY <1>2, <2>1, HeadTailProperties
  <2> QED
    BY <1>1, <2>2
<1> DEFINE tail == Tail(walk.todo)
<1>7. tail = [i \in 1..k-1 |-> tail[i]] /\ DOMAIN tail = 1..k-1 /\ k - 1 \in Nat
  <2>1. k - 1 \in Nat
    BY <1>1, <1>3
  <2>2. tail \in [1..Len(tail) -> Here(r)]
    BY <1>6, LenProperties
  <2> QED
    BY <1>6, <2>1, <2>2
<1>8. CASE x \in Paths(walk.read) \/ x \notin answering
  <2>1. n # 0
    <3>1. SUFFICES ASSUME n = 0 PROVE FALSE
      OBVIOUS
    <3>2. x \notin Paths(walk.read)
      BY <1>1, <3>1 DEF Paths
    <3> QED
      BY <1>5, <1>8, <3>1, <3>2
  <2>2. new = [walk EXCEPT !.todo = tail]
    BY <1>4, <1>8 DEF Advance
  <2>3. new = [todo |-> tail, read |-> walk.read]
    BY <1>1, <2>2
  <2> HIDE DEF new, tail, x
  <2>4. new.todo = tail /\ new.read = walk.read
    BY <2>3
  <2>5. \A i \in 1..k-1 : new.todo[i] \in Here(r) /\ \E j \in 1..n : new.todo[i] \in walk.read[j].kids
    BY <1>1, <1>6, <2>1, <2>4 DEF tail
  <2> QED
    BY <1>1, <1>2, <1>6, <1>7, <2>1, <2>3, <2>4, <2>5, ZenonT(60) DEF WalkFine, tail, new
<1>9. CASE ~(x \in Paths(walk.read) \/ x \notin answering)
  <2>1. /\ ReadIn(Read(x), r) /\ Read(x).path = x /\ IsFiniteSet(kids) /\ kids \subseteq Here(r)
    BY <1>4, ReadsHere DEF ReadIn
  <2>2. new = [todo |-> tail \o list, read |-> Append(walk.read, Read(x))]
    BY <1>4, <1>9 DEF Advance
  <2> HIDE DEF new, list, tail
  <2> DEFINE m == Len(list)
             e == Read(x)
  <2>3. m \in Nat /\ list = [i \in 1..m |-> list[i]] /\ \A i \in 1..m : list[i] \in kids
    BY <2>1, ListedOnce DEF list
  <2>4. list \in Seq(Here(r)) /\ tail \in Seq(Here(r)) /\ Len(tail) = k - 1
    <3>1. list \in [1..m -> Here(r)]
      BY <2>1, <2>3
    <3> QED
      BY <1>6, <2>3, <3>1, IsASeq DEF tail
  <2> HIDE DEF m
  <2>5. /\ new.todo \in Seq(Here(r)) /\ Len(new.todo) = k - 1 + m
        /\ \A i \in 1..k-1+m : new.todo[i] = IF i <= k - 1 THEN tail[i] ELSE list[i - (k - 1)]
    <3> DEFINE H == Here(r)
    <3>1. new.todo = tail \o list
      BY <2>2
    <3>2. list \in Seq(H) /\ tail \in Seq(H) /\ Len(tail) = k - 1
      BY <2>4
    <3> HIDE DEF H
    <3>3. /\ tail \o list \in Seq(H) /\ Len(tail \o list) = Len(tail) + Len(list)
          /\ \A i \in 1..Len(tail) + Len(list) :
                (tail \o list)[i] = IF i <= Len(tail) THEN tail[i] ELSE list[i - Len(tail)]
      BY <3>2, ConcatProperties
    <3> QED
      BY <3>1, <3>2, <3>3 DEF H, m
  <2>6. new.todo = [i \in 1..k-1+m |-> new.todo[i]] /\ DOMAIN new.todo = 1..k-1+m /\ k - 1 + m \in Nat
    <3>1. k - 1 + m \in Nat
      BY <1>7, <2>3
    <3>2. new.todo \in [1..Len(new.todo) -> Here(r)]
      BY <2>5, LenProperties
    <3> QED
      BY <2>5, <3>1, <3>2
  <2>7. /\ Len(new.read) = n + 1 /\ new.read = [i \in 1..n+1 |-> new.read[i]] /\ DOMAIN new.read = 1..n+1
        /\ new.read[n + 1] = e /\ \A i \in 1..n : new.read[i] = walk.read[i]
    <3> DEFINE S == {walk.read[i] : i \in 1..n} \cup {e}
    <3>1. walk.read \in [1..n -> S] /\ e \in S
      BY <1>1
    <3> HIDE DEF S, e
    <3>2. walk.read \in Seq(S)
      <4>1. n \in Nat
        BY <1>1
      <4> HIDE DEF n
      <4> QED
        BY <3>1, <4>1, IsASeq
    <3>3. new.read = Append(walk.read, e)
      BY <2>2 DEF e
    <3>4. /\ new.read \in Seq(S) /\ Len(new.read) = n + 1
          /\ (\A i \in 1..n : new.read[i] = walk.read[i]) /\ new.read[n + 1] = e
      BY <1>2, <3>1, <3>2, <3>3, AppendProperties
    <3>5. new.read \in [1..n+1 -> S]
      BY <3>4, LenProperties
    <3> QED
      BY <3>4, <3>5
  <2>8. \A i \in 1..n+1 : i \in 1..n \/ i = n + 1
    BY <1>1
  <2>9. \A i \in 1..n+1 : ReadIn(new.read[i], r)
    BY <1>1, <2>1, <2>7, <2>8
  <2> HIDE DEF kids, x
  <2>10. ASSUME NEW i \in 1..n+1, NEW j \in 1..n+1, new.read[i].path = new.read[j].path PROVE i = j
    <3>1. \A l \in 1..n : walk.read[l].path # x
      BY <1>1, <1>9 DEF Paths
    <3>2. new.read[n + 1].path = x
      BY <2>1, <2>7
    <3>3. CASE i \in 1..n /\ j \in 1..n
      BY <1>1, <2>7, <2>10, <3>3
    <3>4. CASE i \in 1..n /\ j = n + 1
      BY <2>7, <2>10, <3>1, <3>2, <3>4
    <3>5. CASE i = n + 1 /\ j \in 1..n
      BY <2>7, <2>10, <3>1, <3>2, <3>5
    <3> QED
      BY <2>8, <3>3, <3>4, <3>5
  <2>11. \A i \in 1..k-1+m : new.todo[i] \in Here(r)
    BY <2>5, <2>6, ElementOfSeq
  <2>12. new.read[1].path = r
    <3>1. CASE n = 0
      BY <1>5, <2>1, <2>7, <3>1
    <3>2. CASE n # 0
      <4>1. 1 \in 1..n
        BY <1>1, <3>2
      <4> QED
        BY <1>1, <2>7, <3>2, <4>1
    <3> QED
      BY <3>1, <3>2
  <2>13. ASSUME NEW i \in 2..n+1 PROVE \E j \in 1..i-1 : new.read[i].path \in new.read[j].kids
    <3>1. CASE i \in 2..n
      <4>1. n # 0 /\ i \in 1..n
        BY <1>1, <3>1
      <4>2. PICK j \in 1..i-1 : walk.read[i].path \in walk.read[j].kids
        BY <1>1, <3>1, <4>1
      <4>3. j \in 1..n
        BY <1>1, <3>1, <4>2
      <4> QED
        BY <2>7, <4>1, <4>2, <4>3
    <3>2. CASE i = n + 1
      <4>1. n # 0
        BY <1>1, <3>2
      <4>2. PICK j \in 1..n : x \in walk.read[j].kids
        BY <1>1, <1>3, <4>1 DEF x
      <4>3. j \in 1..i-1
        BY <1>1, <3>2
      <4> QED
        BY <2>1, <2>7, <3>2, <4>2, <4>3, ZenonT(60)
    <3> QED
      BY <1>1, <3>1, <3>2
  <2>14. ASSUME NEW i \in 1..k-1+m PROVE \E j \in 1..n+1 : new.todo[i] \in new.read[j].kids
    <3>1. CASE i <= k - 1
      <4>1. i \in 1..k-1 /\ new.todo[i] = tail[i]
        BY <1>7, <2>5, <3>1
      <4>2. tail[i] = walk.todo[i + 1] /\ i + 1 \in 1..k
        BY <1>6, <4>1 DEF tail
      <4>3. n # 0
        <5>1. SUFFICES ASSUME n = 0 PROVE FALSE
          OBVIOUS
        <5>2. walk.todo = <<r>>
          BY <1>1, <5>1
        <5>3. k = 1
          BY <1>2, <5>2
        <5> QED
          BY <4>1, <5>3
      <4>4. PICK j \in 1..n : walk.todo[i + 1] \in walk.read[j].kids
        BY <1>1, <4>2, <4>3
      <4>5. j \in 1..n+1
        BY <1>1
      <4> QED
        BY <2>7, <4>1, <4>2, <4>4, <4>5
    <3>2. CASE ~(i <= k - 1)
      <4> DEFINE q == k - 1
      <4>a. q \in Nat /\ m \in Nat /\ i \in 1..q+m /\ ~(i <= q)
        BY <1>7, <2>3, <3>2
      <4> HIDE DEF q
      <4>b. i - q \in 1..m
        BY <4>a
      <4>1. i - (k - 1) \in 1..m /\ new.todo[i] = list[i - (k - 1)]
        BY <2>5, <3>2, <4>b DEF q
      <4>2. new.todo[i] \in e.kids
        BY <2>3, <4>1 DEF kids
      <4>3. n + 1 \in 1..n+1
        BY <1>1
      <4> QED
        BY <2>7, <4>2, <4>3
    <3> QED
      BY <3>1, <3>2
  <2>15. new = [todo |-> new.todo, read |-> new.read]
    BY <2>2
  <2>16. n + 1 \in Nat /\ n + 1 # 0
    BY <1>1
  <2>17. WalkFine(new, r)
    <3> HIDE DEF e
    <3> QED
      BY <2>5, <2>6, <2>7, <2>9, <2>10, <2>11, <2>12, <2>13, <2>14, <2>15, <2>16 DEF WalkFine
  <2> QED
    BY <2>17 DEF new
<1> QED
  BY <1>8, <1>9

-----------------------------------------------------------------------------
(* Climbs from an object to the first that is known, and what deltas       *)
(* bring.                                                                  *)

-----------------------------------------------------------------------------
(* A climb.                                                                *)

\* From x up, parent by parent, to the first object known.
ClimbFine(climb, x, known) ==
    /\ Len(climb) \in Nat \ {0} /\ DOMAIN climb = 1..Len(climb)
    /\ climb[1] = x /\ climb[Len(climb)] \in known
    /\ \A i \in 1..Len(climb) - 1 :
          climb[i] \in Objects /\ climb[i] \notin known /\ climb[i + 1] = parent[climb[i]]

\* f is what is above x, as far up as m hops.
AboveIs(f, x, m) ==
    f = [n \in 0..m |-> IF n = 0 THEN x
                        ELSE IF f[n - 1] \in Objects THEN parent[f[n - 1]] ELSE None]

\* There is such a function, for any number of hops.
LEMMA HopsExist == ASSUME NEW x, NEW m \in Nat PROVE \E f : AboveIs(f, x, m)
<1> DEFINE Step(y) == IF y \in Objects THEN parent[y] ELSE None
           Hops(k, f) == f = [n \in 0..k |-> IF n = 0 THEN x ELSE Step(f[n - 1])]
           bad == {k \in Nat : ~ \E f : Hops(k, f)}
<1>1. ASSUME bad # {} PROVE FALSE
  <2>1. PICK k \in bad : \A y \in bad : k <= y
    <3>1. bad \subseteq Nat
      OBVIOUS
    <3> HIDE DEF bad
    <3> QED
      BY <1>1, <3>1, Smallest
  <2>2. k \in Nat /\ ~ \E f : Hops(k, f)
    OBVIOUS
  <2>3. k # 0
    <3>1. SUFFICES ASSUME k = 0 PROVE FALSE
      OBVIOUS
    <3> DEFINE f == [n \in 0..0 |-> x]
    <3>2. \A n \in 0..0 : n = 0
      OBVIOUS
    <3> HIDE DEF Step
    <3>3. f = [n \in 0..0 |-> IF n = 0 THEN x ELSE Step(f[n - 1])]
      BY <3>2
    <3>4. Hops(0, f)
      BY <3>3
    <3> QED
      BY <2>2, <3>1, <3>4
  <2>4. PICK f : Hops(k - 1, f)
    <3>1. k - 1 \in Nat /\ ~(k <= k - 1)
      BY <2>2, <2>3
    <3>2. k - 1 \notin bad
      <4> HIDE DEF bad
      <4> QED
        BY <2>1, <3>1
    <3> QED
      BY <3>1, <3>2
  <2> DEFINE g == [n \in 0..k |-> IF n = 0 THEN x ELSE Step(f[n - 1])]
  <2> HIDE DEF Step
  <2>5. ASSUME NEW n \in 0..k, n # 0 PROVE g[n - 1] = f[n - 1]
    <3>1. n - 1 \in 0..k-1 /\ n - 1 \in 0..k
      BY <2>2, <2>5
    <3>2. f[n - 1] = IF n - 1 = 0 THEN x ELSE Step(f[n - 1 - 1])
      BY <2>4, <3>1
    <3>3. g[n - 1] = IF n - 1 = 0 THEN x ELSE Step(f[n - 1 - 1])
      BY <3>1
    <3> QED
      BY <3>2, <3>3
  <2>6. g = [n \in 0..k |-> IF n = 0 THEN x ELSE Step(g[n - 1])]
    BY <2>5
  <2>7. Hops(k, g)
    BY <2>6
  <2> QED
    BY <2>2, <2>7
<1>2. PICK f : Hops(m, f)
  BY <1>1
<1>3. AboveIs(f, x, m)
  BY <1>2 DEF AboveIs
<1> QED
  BY <1>3

\* A climb leads from its object, parent by parent, to the first one known.
LEMMA ClimbIs ==
    ASSUME NEW x, NEW known \in SUBSET All, Climb(x, known) # <<>>
    PROVE  ClimbFine(Climb(x, known), x, known)
<1> DEFINE Up == CHOOSE f : f = [n \in 0..MaxHops |->
                                   IF n = 0 THEN x
                                   ELSE IF f[n - 1] \in Objects THEN parent[f[n - 1]] ELSE None]
           reached == {n \in 0..MaxHops-1 : Up[n] \in known}
           climb == Climb(x, known)
<1>1. climb = IF reached = {} THEN <<>> ELSE [i \in 1..Min(reached) + 1 |-> Up[i - 1]]
  BY DEF Climb
<1>2. Up = [n \in 0..MaxHops |-> IF n = 0 THEN x
                                 ELSE IF Up[n - 1] \in Objects THEN parent[Up[n - 1]] ELSE None]
  <2>1. \E f : AboveIs(f, x, MaxHops)
    BY HopsExist, HopsAssumption
  <2>2. Up = CHOOSE f : AboveIs(f, x, MaxHops)
    BY DEF AboveIs
  <2> HIDE DEF Up
  <2>3. AboveIs(Up, x, MaxHops)
    BY <2>1, <2>2, Zenon
  <2> QED
    BY <2>3 DEF AboveIs
<1> HIDE DEF Up
<1>3. reached # {}
  BY <1>1
<1>4. reached \in SUBSET Nat
  OBVIOUS
<1> DEFINE top == Min(reached)
<1>5. top \in reached /\ \A n \in reached : top <= n
  <2> HIDE DEF reached
  <2> QED
    BY <1>3, <1>4, Smallest
<1>6. top \in Nat /\ top < MaxHops /\ MaxHops \in Nat /\ Up[top] \in known
  BY <1>5, HopsAssumption
<1>7. climb = [i \in 1..top+1 |-> Up[i - 1]]
  BY <1>1, <1>3
<1>9. ASSUME NEW n \in 0..top, n # top PROVE Up[n] \notin known
  <2>1. n \in 0..MaxHops-1 /\ ~(top <= n)
    BY <1>6, <1>9
  <2>2. n \in reached \/ Up[n] \notin known
    BY <2>1
  <2> HIDE DEF reached, top
  <2> QED
    BY <1>5, <2>1, <2>2
<1> HIDE DEF top, reached
<1>10. \A n \in 1..top : Up[n] = IF Up[n - 1] \in Objects THEN parent[Up[n - 1]] ELSE None
  BY <1>2, <1>6
<1>11. ASSUME NEW n \in 0..top PROVE Up[n] # None
  <2> DEFINE bad == {d \in Nat : d <= top /\ Up[top - d] = None}
  <2>1. None \notin known
    BY ToolkitAssumption
  <2>2. ASSUME bad # {} PROVE FALSE
    <3>1. PICK d \in bad : \A y \in bad : d <= y
      <4>1. bad \subseteq Nat
        OBVIOUS
      <4> HIDE DEF bad
      <4> QED
        BY <2>2, <4>1, Smallest
    <3>2. d \in Nat /\ d <= top /\ Up[top - d] = None
      OBVIOUS
    <3>3. d # 0
      <4>1. d = 0 => top - d = top
        BY <1>6, <3>2
      <4> QED
        BY <1>6, <2>1, <3>2, <4>1
    <3>4. d - 1 \in Nat /\ d - 1 <= top /\ ~(d <= d - 1) /\ top - (d - 1) \in 1..top /\ top - (d - 1) - 1 = top - d
      BY <1>6, <3>2, <3>3
    <3>5. Up[top - (d - 1)] # None
      <4>1. d - 1 \notin bad
        <5> HIDE DEF bad
        <5> QED
          BY <3>1, <3>4
      <4> QED
        BY <3>4, <4>1
    <3> DEFINE k == top - (d - 1)
    <3>6. k \in 1..top /\ k - 1 = top - d
      BY <3>4
    <3> HIDE DEF k
    <3>7. Up[k] = IF Up[k - 1] \in Objects THEN parent[Up[k - 1]] ELSE None
      BY <1>10, <3>6
    <3>8. None \notin Objects
      BY ToolkitAssumption DEF All
    <3> QED
      BY <3>2, <3>5, <3>6, <3>7, <3>8 DEF k
  <2>3. top - n \in Nat /\ top - n <= top /\ top - (top - n) = n
    BY <1>6
  <2>4. top - n \notin bad
    BY <2>2
  <2> HIDE DEF bad
  <2>5. Up[top - (top - n)] # None
    BY <2>3, <2>4 DEF bad
  <2> QED
    BY <2>3, <2>5
<1>12. top + 1 \in Nat \ {0} /\ Len(climb) = top + 1 /\ DOMAIN climb = 1..top+1
  BY <1>6, <1>7
<1>13. climb[1] = x
  <2>1. 1 \in 1..top+1 /\ 0 \in 0..MaxHops
    BY <1>6
  <2>2. climb[1] = Up[0]
    BY <1>7, <2>1
  <2> QED
    BY <1>2, <2>1, <2>2
<1>14. climb[top + 1] \in known
  <2>1. top + 1 \in 1..top+1 /\ top + 1 - 1 = top
    BY <1>6
  <2> QED
    BY <1>6, <1>7, <2>1
<1>15. ASSUME NEW i \in 1..top
       PROVE  climb[i] \in Objects /\ climb[i] \notin known /\ climb[i + 1] = parent[climb[i]]
  <2>1. i \in 1..top+1 /\ i + 1 \in 1..top+1 /\ i + 1 - 1 = i /\ i - 1 \in 0..top /\ i - 1 # top /\ i \in 0..top
    BY <1>6
  <2>2. climb[i] = Up[i - 1] /\ climb[i + 1] = Up[i]
    BY <1>7, <2>1
  <2>3. Up[i - 1] \notin known
    BY <1>9, <2>1
  <2>4. Up[i] # None
    BY <1>11, <2>1
  <2>5. Up[i] = IF Up[i - 1] \in Objects THEN parent[Up[i - 1]] ELSE None
    BY <1>10
  <2> QED
    BY <2>2, <2>3, <2>4, <2>5
<1>16. top + 1 - 1 = top
  BY <1>6
<1> HIDE DEF climb
<1>17. ClimbFine(climb, x, known)
  <2>1. Len(climb) \in Nat \ {0} /\ DOMAIN climb = 1..Len(climb) /\ Len(climb) - 1 = top
    <3>1. Len(climb) = top + 1 /\ DOMAIN climb = 1..top+1
      BY <1>12
    <3> HIDE DEF climb
    <3>2. top \in Nat
      BY <1>6
    <3> QED
      BY <3>1, <3>2
  <2>2. climb[Len(climb)] \in known
    BY <1>12, <1>14
  <2>3. \A i \in 1..Len(climb) - 1 :
           climb[i] \in Objects /\ climb[i] \notin known /\ climb[i + 1] = parent[climb[i]]
    BY <1>15, <2>1
  <2> HIDE DEF climb
  <2> QED
    BY <1>13, <2>1, <2>2, <2>3 DEF ClimbFine
<1> QED
  BY <1>17 DEF climb

\* A climb in the window of what it ends at.
LEMMA ClimbHere ==
    ASSUME ToolkitFine, NEW r, NEW x, NEW known \in SUBSET Here(r),
           NEW climb, ClimbFine(climb, x, known)
    PROVE  \A i \in 1..Len(climb) : climb[i] \in Here(r)
<1> DEFINE n == Len(climb)
<1>1. /\ n \in Nat \ {0} /\ climb[n] \in known
      /\ \A i \in 1..n-1 : climb[i] \in Objects /\ climb[i] \notin known /\ climb[i + 1] = parent[climb[i]]
  BY DEF ClimbFine
<1> HIDE DEF n
<1>2. ASSUME NEW i \in 1..n PROVE climb[i] \in Here(r)
  <2> DEFINE bad == {d \in Nat : d < n /\ climb[n - d] \notin Here(r)}
  <2>1. ASSUME bad # {} PROVE FALSE
    <3>1. PICK d \in bad : \A y \in bad : d <= y
      <4>1. bad \subseteq Nat
        OBVIOUS
      <4> HIDE DEF bad
      <4> QED
        BY <2>1, <4>1, Smallest
    <3>2. d \in Nat /\ d < n /\ climb[n - d] \notin Here(r)
      OBVIOUS
    <3>3. d # 0
      <4>1. d = 0 => n - d = n
        BY <1>1, <3>2
      <4> QED
        BY <1>1, <3>2, <4>1
    <3>4. d - 1 \in Nat /\ d - 1 < n /\ ~(d <= d - 1) /\ n - d \in 1..n-1 /\ n - d + 1 = n - (d - 1)
      BY <1>1, <3>2, <3>3
    <3>5. climb[n - (d - 1)] \in Here(r)
      <4>1. d - 1 \notin bad
        <5> HIDE DEF bad
        <5> QED
          BY <3>1, <3>4
      <4> QED
        BY <3>4, <4>1
    <3> DEFINE k == n - d
               y == climb[k]
    <3>6. y \in Objects /\ climb[k + 1] = parent[y]
      BY <1>1, <3>4
    <3>7. parent[y] \in Here(r)
      BY <3>4, <3>5, <3>6
    <3> HIDE DEF y
    <3>8. parent[y] \in All /\ RootOf(parent[y]) = r /\ parent[y] # None
      BY <3>7, ToolkitAssumption DEF Here
    <3>9. Home[y] = r
      BY <3>6, <3>8 DEF ToolkitFine
    <3>10. y \in Here(r)
      BY <3>6, <3>9, ToolkitAssumption DEF Here, All, RootOf
    <3> QED
      BY <3>2, <3>10 DEF y
  <2>2. n - i \in Nat /\ n - i < n /\ n - (n - i) = i
    BY <1>1
  <2>3. n - i \notin bad
    BY <2>1
  <2> HIDE DEF bad
  <2>4. climb[n - (n - i)] \in Here(r)
    BY <2>2, <2>3 DEF bad
  <2> QED
    BY <2>2, <2>4
<1> QED
  BY <1>2 DEF n

\* A climb meets no object twice.
LEMMA ClimbOnce ==
    ASSUME NEW x, NEW known, NEW climb, ClimbFine(climb, x, known),
           NEW i \in 1..Len(climb), NEW j \in 1..Len(climb), climb[i] = climb[j]
    PROVE  i = j
<1> DEFINE n == Len(climb)
<1>1. /\ n \in Nat \ {0} /\ climb[n] \in known
      /\ \A l \in 1..n-1 : climb[l] \in Objects /\ climb[l] \notin known /\ climb[l + 1] = parent[climb[l]]
  BY DEF ClimbFine
<1>2. i \in 1..n /\ j \in 1..n
  OBVIOUS
<1> HIDE DEF n
<1>3. ASSUME NEW a \in 1..n, NEW b \in 1..n, a < b PROVE climb[a] # climb[b]
  <2> DEFINE bad == {d \in Nat : \E l, k \in 1..n : l < k /\ climb[l] = climb[k] /\ d = n - k}
  <2>1. ASSUME bad # {} PROVE FALSE
    <3>1. PICK d \in bad : \A y \in bad : d <= y
      <4>1. bad \subseteq Nat
        OBVIOUS
      <4> HIDE DEF bad
      <4> QED
        BY <2>1, <4>1, Smallest
    <3>2. PICK l \in 1..n, k \in 1..n : l < k /\ climb[l] = climb[k] /\ d = n - k
      OBVIOUS
    <3> HIDE DEF bad
    <3>3. l \in 1..n-1
      BY <1>1, <3>2
    <3>4. k # n
      BY <1>1, <3>2, <3>3
    <3>5. k \in 1..n-1 /\ l + 1 \in 1..n /\ k + 1 \in 1..n /\ l + 1 < k + 1
      BY <1>1, <3>2, <3>3, <3>4
    <3>6. climb[l + 1] = climb[k + 1]
      BY <1>1, <3>2, <3>3, <3>5
    <3>7. n - (k + 1) \in Nat /\ ~(n - k <= n - (k + 1))
      <4>1. n \in Nat
        BY <1>1
      <4> QED
        BY <4>1, <3>5
    <3>8. n - (k + 1) \in bad
      BY <3>5, <3>6, <3>7 DEF bad
    <3> QED
      BY <3>1, <3>2, <3>7, <3>8
  <2>2. n - b \in Nat
    BY <1>1
  <2>3. n - b \notin bad
    BY <2>1
  <2> QED
    BY <1>3, <2>2, <2>3
<1>4. i < j \/ j < i \/ i = j
  BY <1>1, <1>2
<1> QED
  BY <1>2, <1>3, <1>4

-----------------------------------------------------------------------------
(* Deltas.                                                                 *)

\* An update that brings a window from one state to another: what it leaves
\* out is as it was.
Brings(s, t, u) ==
    /\ StateFine(t) /\ t.id = s.id /\ t.root = s.root
    /\ u.focus = t.focus /\ u.nodes \subseteq Emitted(t) /\ Emitted(t) \subseteq u.nodes \cup Emitted(s)

\* Such an update leaves the client with the window's new state.
LEMMA DeltaSent ==
    ASSUME NEW ws, NEW next, NEW c, NEW focus, WindowsFine(ws, next), ClientHolds(c, ws, focus),
           NEW i \in 1..Len(ws), NEW t, NEW u, Brings(ws[i], t, u)
    PROVE  /\ WindowsFine([ws EXCEPT ![i] = t], next)
           /\ ClientHolds(Update(c, t.id, t.root, u), [ws EXCEPT ![i] = t], focus)
<1>1. /\ StateFine(t) /\ t.id = ws[i].id /\ t.root = ws[i].root
      /\ u.focus = t.focus /\ u.nodes \subseteq Emitted(t) /\ Emitted(t) \subseteq u.nodes \cup Emitted(ws[i])
  BY DEF Brings
<1>2. \A m, n \in Emitted(t) : m.id = n.id => m = n
  BY <1>1, EmittedRooted DEF Rooted
<1>3. ASSUME NEW n \in Emitted(t) PROVE n \in Tree(t.root)!Overlay(Emitted(ws[i]), u.nodes)
  <2>1. CASE n \in u.nodes
    BY <2>1 DEF Tree!Overlay
  <2>2. CASE n \notin u.nodes
    <3>1. n \in Emitted(ws[i])
      BY <1>1, <2>2
    <3>2. \A m \in u.nodes : m.id # n.id
      BY <1>1, <1>2, <2>2
    <3> QED
      BY <3>1, <3>2 DEF Tree!Overlay, Tree!Ids
  <2> QED
    BY <2>1, <2>2
<1>4. Emitted(t) \subseteq Tree(t.root)!Overlay(Emitted(ws[i]), u.nodes)
  BY <1>3
<1> QED
  BY <1>1, <1>4, WindowSent

\* What differs in nothing that is sent need not be sent.
LEMMA NothingSent ==
    ASSUME NEW ws, NEW next, NEW c, NEW focus, WindowsFine(ws, next), ClientHolds(c, ws, focus),
           NEW i \in 1..Len(ws), NEW t, StateFine(t), t.id = ws[i].id, t.root = ws[i].root,
           t.focus = ws[i].focus, Emitted(t) \subseteq Emitted(ws[i])
    PROVE  /\ WindowsFine([ws EXCEPT ![i] = t], next)
           /\ ClientHolds(c, [ws EXCEPT ![i] = t], focus)
<1> DEFINE s == ws[i]
           new == [ws EXCEPT ![i] = t]
           len == Len(ws)
<1>1. /\ len \in Nat /\ ws = [k \in 1..len |-> ws[k]] /\ next \in Nat \ {0}
      /\ \A k \in 1..len : StateFine(ws[k]) /\ ws[k].id \in 1..next-1
      /\ \A k, l \in 1..len : ws[k].id = ws[l].id => k = l
  BY DEF WindowsFine
<1>2. new = [k \in 1..len |-> IF k = i THEN t ELSE ws[k]] /\ Len(new) = len
  <2>1. new = [k \in 1..len |-> IF k = i THEN t ELSE ws[k]]
    BY <1>1
  <2> HIDE DEF new, len
  <2>2. Len(new) = len
    BY <1>1, <2>1
  <2> QED
    BY <2>1, <2>2
<1> HIDE DEF new, len
<1>3. Emitted(s) \subseteq Emitted(t)
  <2>1. Rooted(Emitted(s), s.root) /\ Rooted(Emitted(t), s.root)
    <3>1. StateFine(s)
      BY <1>1 DEF len
    <3> QED
      BY <3>1, EmittedRooted
  <2> DEFINE S == {n.id : n \in Emitted(t)}
  <2>2. s.root \in S
    BY <2>1 DEF Rooted
  <2>3. ASSUME NEW n \in Emitted(s), n.id \in S PROVE n.kids \subseteq S /\ n \in Emitted(t)
    <3>1. PICK m \in Emitted(t) : m.id = n.id
      BY <2>3
    <3>2. m = n
      BY <2>1, <3>1 DEF Rooted
    <3> QED
      BY <2>1, <3>2 DEF Rooted
  <2> HIDE DEF S
  <2>4. \A n \in Emitted(s) : n.id \in S
    BY <2>1, <2>2, <2>3 DEF Rooted
  <2> QED
    BY <2>3, <2>4
<1>4. Emitted(s) = Emitted(t)
  BY <1>3
<1>5. \A k \in 1..len : new[k].id = ws[k].id /\ StateFine(new[k]) /\ new[k].focus = ws[k].focus
                        /\ Emitted(new[k]) = Emitted(ws[k])
  BY <1>1, <1>2, <1>4
<1>6. WindowsFine(new, next)
  <2>1. new = [k \in 1..len |-> new[k]]
    BY <1>2
  <2> QED
    BY <1>1, <1>2, <1>5, <2>1 DEF WindowsFine
<1>7. ClientHolds(c, new, focus)
  <2>1. {new[k].id : k \in 1..len} = {ws[k].id : k \in 1..len}
    BY <1>5
  <2>2. c = [trees |-> c.trees, focus |-> focus, fault |-> "none"]
    BY DEF ClientHolds
  <2>3. c.trees = [w \in {ws[k].id : k \in 1..len} |-> c.trees[w]]
    BY DEF ClientHolds, len
  <2>4. c.trees = [w \in {new[k].id : k \in 1..Len(new)} |-> c.trees[w]]
    BY <1>2, <2>1, <2>3
  <2>5. ASSUME NEW k \in 1..Len(new)
        PROVE  c.trees[new[k].id] = [nodes |-> Emitted(new[k]), focus |-> new[k].focus]
    <3>1. k \in 1..len
      BY <1>2
    <3>2. c.trees[ws[k].id] = [nodes |-> Emitted(ws[k]), focus |-> ws[k].focus]
      BY <3>1 DEF ClientHolds, len
    <3> QED
      BY <1>5, <3>1, <3>2
  <2> QED
    BY <2>2, <2>4, <2>5 DEF ClientHolds
<1> QED
  BY <1>6, <1>7 DEF new

\* Some nodes of a window have another value, and nothing else of it differs.
LEMMA RefreshFine ==
    ASSUME NEW s, StateFine(s), NEW paths, NEW t, t = AfterRefresh(s, paths)
    PROVE  /\ StateFine(t) /\ t.id = s.id /\ t.root = s.root /\ t.focus = s.focus
           /\ \A x \in RefreshedIn(s, paths) : t.nodes[x] \in Emitted(t)
           /\ \A m \in Emitted(t) : m \in Emitted(s) \/ \E x \in RefreshedIn(s, paths) : m = t.nodes[x]
<1> DEFINE D == DOMAIN s.nodes
           in == RefreshedIn(s, paths)
<1>1. MapsAgree(s) /\ AllReached(s)
  BY DEF StateFine
<1>2. s = [id |-> s.id, root |-> s.root, objects |-> D, focus |-> s.focus,
           nodes |-> s.nodes, text |-> s.text, children |-> s.children]
  BY <1>1 DEF MapsAgree
<1>3. in \subseteq D
  <2>1. s.objects = D
    BY <1>2
  <2> QED
    BY <2>1 DEF RefreshedIn
<1>4. t = [s EXCEPT !.nodes = [x \in D |-> IF x \in in THEN Refreshed1(s, x) ELSE s.nodes[x]]]
  BY DEF AfterRefresh
<1> HIDE DEF in, D
<1>5. /\ t = [id |-> s.id, root |-> s.root, objects |-> D, focus |-> s.focus,
              nodes |-> [x \in D |-> IF x \in in THEN Refreshed1(s, x) ELSE s.nodes[x]],
              text |-> s.text, children |-> s.children]
  BY <1>2, <1>4
<1>6. /\ t.id = s.id /\ t.root = s.root /\ t.objects = D /\ t.focus = s.focus
      /\ t.nodes = [x \in D |-> IF x \in in THEN Refreshed1(s, x) ELSE s.nodes[x]]
      /\ t.text = s.text /\ t.children = s.children
  BY <1>5
<1>7. DOMAIN t.nodes = D
  BY <1>6
<1>8. ASSUME NEW x \in D PROVE t.nodes[x] = Element(x, t.children[x] \cup RunsOf(t.text, x), t.nodes[x].val)
  <2>1. CASE x \in in
    <3>1. t.nodes[x] = Element(x, s.children[x] \cup RunsOf(s.text, x), Read(x).val)
      BY <1>6, <2>1 DEF Refreshed1
    <3>2. t.nodes[x].val = Read(x).val
      BY <3>1 DEF Element
    <3> QED
      BY <1>6, <3>1, <3>2
  <2>2. CASE x \notin in
    <3>1. s.nodes[x] = Element(x, s.children[x] \cup RunsOf(s.text, x), s.nodes[x].val)
      BY <1>1 DEF MapsAgree, D
    <3> QED
      BY <1>6, <2>2, <3>1
  <2> QED
    BY <2>1, <2>2
<1>9. MapsAgree(t)
  <2>1. t = [id |-> t.id, root |-> t.root, objects |-> DOMAIN t.nodes, focus |-> t.focus,
             nodes |-> t.nodes, text |-> t.text, children |-> t.children]
    BY <1>5, <1>6, <1>7
  <2>2. t.nodes = [x \in DOMAIN t.nodes |-> Element(x, t.children[x] \cup RunsOf(t.text, x), t.nodes[x].val)]
    <3>1. t.nodes = [x \in D |-> t.nodes[x]]
      BY <1>6
    <3> QED
      BY <1>7, <1>8, <3>1
  <2>3. t.children = [x \in DOMAIN t.nodes |-> t.children[x]]
    BY <1>1, <1>6, <1>7 DEF MapsAgree, D
  <2>4. t.text = [x \in DOMAIN t.text |-> [kids |-> t.children[x], lines |-> t.text[x].lines]]
    BY <1>1, <1>6 DEF MapsAgree
  <2>5. /\ t.root \in Roots /\ DOMAIN t.nodes \subseteq Here(t.root)
        /\ DOMAIN t.text \subseteq DOMAIN t.nodes \cap TextObjects
        /\ \A x \in DOMAIN t.text : t.text[x].lines \in 1..2
        /\ \A x \in DOMAIN t.nodes : t.children[x] \subseteq DOMAIN t.nodes
    BY <1>1, <1>6, <1>7 DEF MapsAgree, D
  <2> QED
    BY <2>1, <2>2, <2>3, <2>4, <2>5 DEF MapsAgree
<1>10. AllReached(t)
  BY <1>1, <1>6, <1>7 DEF AllReached, D
<1>11. \A x \in in : t.nodes[x] \in Emitted(t)
  <2>1. \A x \in D : t.nodes[x] \in Emitted(t)
    BY <1>7, <1>9, EmittedIs
  <2> QED
    BY <1>3, <2>1 DEF in, D
<1>12. \A n \in Emitted(t) : n \in Emitted(s) \/ \E x \in in : n = t.nodes[x]
  <2>1. ASSUME NEW n \in Emitted(t) PROVE n \in Emitted(s) \/ \E x \in in : n = t.nodes[x]
    <3>1. (n.id \in D /\ n = t.nodes[n.id]) \/ \E x \in DOMAIN s.text : n \in Runs(x, s.text[x].lines)
      BY <1>6, <1>7, <1>9, EmittedIs
    <3>2. CASE n.id \in D /\ n = t.nodes[n.id]
      <4>1. s.nodes[n.id] \in Emitted(s)
        BY <1>1, <3>2, EmittedIs DEF D
      <4>2. n.id \in in => \E x \in in : n = t.nodes[x]
        BY <3>2
      <4>3. n.id \notin in => n = s.nodes[n.id]
        BY <1>6, <3>2
      <4> QED
        BY <4>1, <4>2, <4>3
    <3>3. CASE \E x \in DOMAIN s.text : n \in Runs(x, s.text[x].lines)
      BY <1>1, <3>3, EmittedIs
    <3> QED
      BY <3>1, <3>2, <3>3
  <2> QED
    BY <2>1
<1> QED
  BY <1>6, <1>9, <1>10, <1>11, <1>12 DEF StateFine, in

\* A text is as it is now, and the runs that differ are what differs.
LEMMA RereadFine ==
    ASSUME ToolkitFine, NEW s, StateFine(s), NEW x \in DOMAIN s.text, NEW t, t = Reread(s, x),
           NEW nodes, nodes = ({t.nodes[x]} \ {s.nodes[x]})
                              \cup ChangedRuns(x, s.text[x].lines, t.text[x].lines)
    PROVE  /\ StateFine(t) /\ t.id = s.id /\ t.root = s.root /\ t.focus = s.focus
           /\ nodes \subseteq Emitted(t) /\ Emitted(t) \subseteq nodes \cup Emitted(s)
<1> DEFINE D == DOMAIN s.nodes
           T == DOMAIN s.text
           n == lines[x]
           kids == s.text[x].kids
           node == Element(x, kids \cup RunIds(x, n), s.nodes[x].val)
<1>1. MapsAgree(s) /\ AllReached(s)
  BY DEF StateFine
<1>2. /\ s.text = [y \in T |-> [kids |-> s.children[y], lines |-> s.text[y].lines]]
      /\ T \subseteq D /\ T \subseteq TextObjects
      /\ s.nodes = [y \in D |-> Element(y, s.children[y] \cup RunsOf(s.text, y), s.nodes[y].val)]
  BY <1>1 DEF MapsAgree
<1>3. kids = s.children[x] /\ x \in D /\ x \in TextObjects /\ n \in 1..2
  <2>1. s.text[x] = [kids |-> s.children[x], lines |-> s.text[x].lines]
    BY <1>2
  <2>2. kids = s.children[x]
    BY <2>1
  <2>3. x \in D /\ x \in TextObjects
    BY <1>2
  <2> QED
    BY <2>2, <2>3 DEF ToolkitFine
<1>4. t = [id |-> s.id, root |-> s.root, objects |-> s.objects, focus |-> s.focus,
           nodes |-> [s.nodes EXCEPT ![x] = node],
           text |-> [s.text EXCEPT ![x] = [kids |-> kids, lines |-> n]],
           children |-> s.children]
  BY DEF Reread
<1>5. s.objects = D
  <2>1. s = [id |-> s.id, root |-> s.root, objects |-> D, focus |-> s.focus,
             nodes |-> s.nodes, text |-> s.text, children |-> s.children]
    BY <1>1 DEF MapsAgree
  <2> QED
    BY <2>1
<1> HIDE DEF D, T, n, kids, node
<1>6. /\ t.id = s.id /\ t.root = s.root /\ t.objects = D /\ t.focus = s.focus
      /\ t.nodes = [s.nodes EXCEPT ![x] = node] /\ t.children = s.children
      /\ t.text = [s.text EXCEPT ![x] = [kids |-> kids, lines |-> n]]
  BY <1>4, <1>5
<1>7. /\ t.nodes = [y \in D |-> IF y = x THEN node ELSE s.nodes[y]]
      /\ t.text = [y \in T |-> IF y = x THEN [kids |-> kids, lines |-> n] ELSE s.text[y]]
  BY <1>2, <1>6
<1>8. DOMAIN t.nodes = D /\ DOMAIN t.text = T /\ x \in T
  BY <1>7 DEF T
<1>9. t.text[x] = [kids |-> kids, lines |-> n] /\ t.text[x].lines = n /\ t.nodes[x] = node
  BY <1>3, <1>7, <1>8
<1>10. \A y \in T : y # x => t.text[y] = s.text[y] /\ RunsOf(t.text, y) = RunsOf(s.text, y)
  BY <1>7, <1>8 DEF RunsOf, T
<1>11. ASSUME NEW y \in D PROVE t.nodes[y] = Element(y, t.children[y] \cup RunsOf(t.text, y), t.nodes[y].val)
  <2>1. CASE y = x
    <3>1. node.val = s.nodes[x].val
      BY DEF node, Element
    <3>2. RunsOf(t.text, x) = RunIds(x, n)
      BY <1>8, <1>9 DEF RunsOf
    <3> QED
      BY <1>3, <1>6, <1>9, <2>1, <3>1, <3>2 DEF node
  <2>2. CASE y # x
    <3>1. RunsOf(t.text, y) = RunsOf(s.text, y)
      <4>1. CASE y \in T
        BY <1>10, <2>2, <4>1
      <4>2. CASE y \notin T
        BY <1>8, <4>2 DEF RunsOf, T
      <4> QED
        BY <4>1, <4>2
    <3>2. t.nodes[y] = s.nodes[y]
      BY <1>7, <2>2
    <3>3. s.nodes[y] = Element(y, s.children[y] \cup RunsOf(s.text, y), s.nodes[y].val)
      BY <1>2
    <3> QED
      BY <1>6, <3>1, <3>2, <3>3
  <2> QED
    BY <2>1, <2>2
<1>12. MapsAgree(t)
  <2>1. t = [id |-> t.id, root |-> t.root, objects |-> DOMAIN t.nodes, focus |-> t.focus,
             nodes |-> t.nodes, text |-> t.text, children |-> t.children]
    BY <1>4, <1>5, <1>6, <1>8
  <2>2. t.nodes = [y \in DOMAIN t.nodes |-> Element(y, t.children[y] \cup RunsOf(t.text, y), t.nodes[y].val)]
    <3>1. t.nodes = [y \in D |-> t.nodes[y]]
      BY <1>7
    <3> QED
      BY <1>8, <1>11, <3>1
  <2>3. t.children = [y \in DOMAIN t.nodes |-> t.children[y]]
    BY <1>1, <1>6, <1>8 DEF MapsAgree, D
  <2>4. t.text = [y \in DOMAIN t.text |-> [kids |-> t.children[y], lines |-> t.text[y].lines]]
    <3>1. ASSUME NEW y \in T PROVE t.text[y] = [kids |-> t.children[y], lines |-> t.text[y].lines]
      <4>1. CASE y = x
        BY <1>3, <1>6, <1>9, <4>1
      <4>2. CASE y # x
        BY <1>2, <1>6, <1>10, <4>2
      <4> QED
        BY <4>1, <4>2
    <3>2. t.text = [y \in T |-> t.text[y]]
      BY <1>7
    <3> QED
      BY <1>8, <3>1, <3>2
  <2>5. \A y \in DOMAIN t.text : t.text[y].lines \in 1..2
    <3>1. ASSUME NEW y \in T PROVE t.text[y].lines \in 1..2
      <4>1. CASE y = x
        BY <1>3, <1>9, <4>1
      <4>2. CASE y # x
        BY <1>1, <1>10, <4>2 DEF MapsAgree, T
      <4> QED
        BY <4>1, <4>2
    <3> QED
      BY <1>8, <3>1
  <2>6. /\ t.root \in Roots /\ DOMAIN t.nodes \subseteq Here(t.root)
        /\ DOMAIN t.text \subseteq DOMAIN t.nodes \cap TextObjects
        /\ \A y \in DOMAIN t.nodes : t.children[y] \subseteq DOMAIN t.nodes
    BY <1>1, <1>6, <1>8 DEF MapsAgree, D, T
  <2> QED
    BY <2>1, <2>2, <2>3, <2>4, <2>5, <2>6 DEF MapsAgree
<1>13. AllReached(t)
  BY <1>1, <1>6, <1>8 DEF AllReached, D
<1>14. nodes = ({node} \ {s.nodes[x]}) \cup (Runs(x, n) \ Runs(x, s.text[x].lines))
  BY <1>9 DEF ChangedRuns
<1>15. nodes \subseteq Emitted(t)
  <2>1. t.nodes[x] \in Emitted(t) /\ Runs(x, t.text[x].lines) \subseteq Emitted(t)
    BY <1>3, <1>8, <1>12, EmittedIs
  <2> QED
    BY <1>9, <1>14, <2>1
<1>16. Emitted(t) \subseteq nodes \cup Emitted(s)
  <2>1. ASSUME NEW m \in Emitted(t) PROVE m \in nodes \cup Emitted(s)
    <3>1. (m.id \in D /\ m = t.nodes[m.id]) \/ \E y \in T : m \in Runs(y, t.text[y].lines)
      BY <1>8, <1>12, EmittedIs
    <3>2. CASE m.id \in D /\ m = t.nodes[m.id]
      <4>1. s.nodes[m.id] \in Emitted(s)
        BY <1>1, <3>2, EmittedIs DEF D
      <4>2. m.id = x => m = node
        BY <1>9, <3>2
      <4>3. m.id # x => m = s.nodes[m.id]
        BY <1>7, <3>2
      <4> QED
        BY <1>14, <4>1, <4>2, <4>3
    <3>3. ASSUME NEW y \in T, m \in Runs(y, t.text[y].lines) PROVE m \in nodes \cup Emitted(s)
      <4>1. Runs(y, s.text[y].lines) \subseteq Emitted(s)
        BY <1>1, EmittedIs DEF T
      <4>2. CASE y = x
        BY <1>9, <1>14, <3>3, <4>1, <4>2
      <4>3. CASE y # x
        BY <1>10, <3>3, <4>1, <4>3
      <4> QED
        BY <4>2, <4>3
    <3> QED
      BY <3>1, <3>2, <3>3
  <2> QED
    BY <2>1
<1> QED
  BY <1>6, <1>12, <1>13, <1>15, <1>16 DEF StateFine

-----------------------------------------------------------------------------
(* A cell spliced into a window, with the climb that leads to it.          *)

\* A window that differs in its focus alone.
LEMMA FocusAlone ==
    ASSUME NEW s, MapsAgree(s), NEW x, NEW t, t = [s EXCEPT !.focus = x]
    PROVE  /\ MapsAgree(t) /\ t.id = s.id /\ t.root = s.root /\ t.focus = x
           /\ t.nodes = s.nodes /\ t.text = s.text /\ t.children = s.children
           /\ Emitted(t) = Emitted(s)
<1>1. s = [id |-> s.id, root |-> s.root, objects |-> DOMAIN s.nodes, focus |-> s.focus,
           nodes |-> s.nodes, text |-> s.text, children |-> s.children]
  BY DEF MapsAgree
<1>2. t = [id |-> s.id, root |-> s.root, objects |-> DOMAIN s.nodes, focus |-> x,
           nodes |-> s.nodes, text |-> s.text, children |-> s.children]
  BY <1>1
<1>3. /\ t.id = s.id /\ t.root = s.root /\ t.objects = DOMAIN s.nodes /\ t.focus = x
      /\ t.nodes = s.nodes /\ t.text = s.text /\ t.children = s.children
  BY <1>2
<1>4. MapsAgree(t)
  <2>1. t = [id |-> t.id, root |-> t.root, objects |-> DOMAIN t.nodes, focus |-> t.focus,
             nodes |-> t.nodes, text |-> t.text, children |-> t.children]
    BY <1>2, <1>3
  <2>2. t.nodes = [y \in DOMAIN t.nodes |-> Element(y, t.children[y] \cup RunsOf(t.text, y), t.nodes[y].val)]
    BY <1>3 DEF MapsAgree
  <2>3. t.children = [y \in DOMAIN t.nodes |-> t.children[y]]
    BY <1>3 DEF MapsAgree
  <2>4. t.text = [y \in DOMAIN t.text |-> [kids |-> t.children[y], lines |-> t.text[y].lines]]
    BY <1>3 DEF MapsAgree
  <2>5. /\ t.root \in Roots /\ DOMAIN t.nodes \subseteq Here(t.root)
        /\ DOMAIN t.text \subseteq DOMAIN t.nodes \cap TextObjects
        /\ \A y \in DOMAIN t.text : t.text[y].lines \in 1..2
        /\ \A y \in DOMAIN t.nodes : t.children[y] \subseteq DOMAIN t.nodes
    BY <1>3 DEF MapsAgree
  <2> QED
    BY <2>1, <2>2, <2>3, <2>4, <2>5 DEF MapsAgree
<1>5. Emitted(t) = Emitted(s)
  BY <1>3 DEF Emitted, EmittedNodes
<1> QED
  BY <1>3, <1>4, <1>5

\* The node a window has in focus is another of its nodes.
LEMMA FocusFine ==
    ASSUME NEW s, StateFine(s), NEW x \in DOMAIN s.nodes, NEW t, t = [s EXCEPT !.focus = x]
    PROVE  StateFine(t) /\ t.id = s.id /\ t.root = s.root /\ t.focus = x /\ Emitted(t) = Emitted(s)
<1>1. MapsAgree(s) /\ AllReached(s)
  BY DEF StateFine
<1>2. /\ MapsAgree(t) /\ t.id = s.id /\ t.root = s.root /\ t.focus = x
      /\ t.nodes = s.nodes /\ t.text = s.text /\ t.children = s.children
      /\ Emitted(t) = Emitted(s)
  BY <1>1, FocusAlone
<1>3. AllReached(t)
  BY <1>1, <1>2 DEF AllReached
<1> QED
  BY <1>2, <1>3 DEF StateFine

Chain(climb) == {climb[i] : i \in DOMAIN climb}

\* From x the climb ends at what the window knows.
SplicesTo(s, x, climb, t) ==
    StateFine(s) /\ ClimbFine(climb, x, DOMAIN s.nodes) /\ t = Spliced(s, climb)

\* A climb from x to what a window knows, built into that window.
LEMMA SplicedFine ==
    ASSUME ToolkitFine, NEW s, NEW x, NEW climb, NEW t, SplicesTo(s, x, climb, t)
    PROVE  /\ StateFine(t) /\ t.id = s.id /\ t.root = s.root /\ t.focus = x
           /\ EmittedNodes(t, Chain(climb)) \subseteq Emitted(t)
           /\ Emitted(t) \subseteq EmittedNodes(t, Chain(climb)) \cup Emitted(s)
<1> DEFINE n == Len(climb)
           D == DOMAIN s.nodes
           chain == {climb[i] : i \in DOMAIN climb}
           reads == {Read(climb[i]) : i \in DOMAIN climb}
           kids == SplicedKids(s, climb)
           built == Built(s, reads, kids)
<1>s. StateFine(s) /\ ClimbFine(climb, x, DOMAIN s.nodes) /\ t = Spliced(s, climb)
  BY DEF SplicesTo
<1>1. MapsAgree(s) /\ AllReached(s)
  BY <1>s DEF StateFine
<1>2. /\ DOMAIN s.children = D /\ D \subseteq Here(s.root) /\ s.root \in Roots
      /\ \A y \in D : s.children[y] \subseteq D
  <2>1. DOMAIN s.children = D
    BY <1>1 DEF MapsAgree
  <2> QED
    BY <1>1, <2>1 DEF MapsAgree
<1>3. /\ n \in Nat \ {0} /\ DOMAIN climb = 1..n /\ climb[1] = x /\ climb[n] \in D
      /\ \A i \in 1..n-1 : climb[i] \in Objects /\ climb[i] \notin D
  BY <1>s DEF ClimbFine
<1>4. /\ \A i \in 1..n : climb[i] \in Here(s.root)
      /\ \A i, j \in 1..n : climb[i] = climb[j] => i = j
  <2> DEFINE r == s.root
  <2>1. D \in SUBSET Here(r) /\ ClimbFine(climb, x, D)
    BY <1>2, <1>s
  <2> HIDE DEF n, D, chain, reads, kids, built, r
  <2>2. ToolkitFine
    OBVIOUS
  <2>3. \A i \in 1..Len(climb) : climb[i] \in Here(r)
    BY <2>1, <2>2, ClimbHere
  <2>4. \A i, j \in 1..Len(climb) : climb[i] = climb[j] => i = j
    BY <2>1, ClimbOnce
  <2> QED
    BY <2>3, <2>4 DEF n, r
<1> HIDE DEF n, D
<1>5. ASSUME NEW i \in 1..n
      PROVE  ReadIn(Read(climb[i]), s.root) /\ Read(climb[i]).path = climb[i]
  <2> DEFINE y == climb[i]
  <2>1. y \in All /\ RootOf(y) = s.root
    BY <1>4 DEF Here
  <2> HIDE DEF y
  <2>2. ReadIn(Read(y), s.root) /\ Read(y).path = y
    BY <2>1, ReadsHere
  <2> QED
    BY <2>2 DEF y
<1>6. ASSUME NEW i \in 1..n
      PROVE  /\ climb[i] \in chain
             /\ kids[climb[i]] = (IF i = n THEN s.children[climb[i]] ELSE Kids(climb[i]) \cap (D \cup chain))
                                 \cup (IF i = 1 THEN {} ELSE {climb[i - 1]})
  <2> DEFINE at(y) == CHOOSE j \in DOMAIN climb : climb[j] = y
  <2>1. climb[i] \in chain
    BY <1>3
  <2>2. at(climb[i]) \in 1..n /\ climb[at(climb[i])] = climb[i]
    BY <1>3
  <2>3. at(climb[i]) = i
    BY <1>4, <2>2
  <2>4. kids = [y \in chain |-> (IF at(y) = n THEN s.children[y] ELSE Kids(y) \cap (D \cup chain))
                                \cup (IF at(y) = 1 THEN {} ELSE {climb[at(y) - 1]})]
    BY <1>2 DEF SplicedKids, n
  <2> HIDE DEF at, kids, chain
  <2> QED
    BY <2>1, <2>3, <2>4
<1>7. \A y \in chain : \E i \in 1..n : y = climb[i]
  BY <1>3
<1>8. chain = {d.path : d \in reads}
  <2>1. ASSUME NEW i \in 1..n PROVE Read(climb[i]) \in reads /\ Read(climb[i]).path = climb[i] /\ climb[i] \in chain
    BY <1>3, <1>5
  <2>2. \A d \in reads : \E i \in 1..n : d = Read(climb[i])
    BY <1>3
  <2> HIDE DEF chain, reads
  <2>3. ASSUME NEW y \in chain PROVE \E d \in reads : y = d.path
    BY <1>7, <2>1
  <2>4. ASSUME NEW d \in reads PROVE d.path \in chain
    BY <2>1, <2>2
  <2> QED
    BY <2>3, <2>4
<1>9. \A d \in reads : ReadIn(d, s.root)
  BY <1>3, <1>5
<1>10. \A d, e \in reads : d.path = e.path => d = e
  <2>1. ASSUME NEW d \in reads, NEW e \in reads, d.path = e.path PROVE d = e
    <3>1. PICK i \in 1..n : d = Read(climb[i])
      BY <1>3
    <3>2. PICK j \in 1..n : e = Read(climb[j])
      BY <1>3
    <3>3. climb[i] = climb[j]
      BY <1>5, <2>1, <3>1, <3>2
    <3> QED
      BY <3>1, <3>2, <3>3
  <2> QED
    BY <2>1
<1>11. ASSUME NEW y \in chain PROVE kids[y] \subseteq D \cup chain
  <2>1. PICK i \in 1..n : y = climb[i]
    BY <1>7
  <2>2. i # 1 => climb[i - 1] \in chain
    <3>1. i # 1 => i - 1 \in 1..n
      BY <1>3
    <3> QED
      BY <1>6, <3>1
  <2>3. i = n => s.children[climb[i]] \subseteq D
    BY <1>2, <1>3
  <2> HIDE DEF kids, chain
  <2> QED
    BY <1>6, <2>1, <2>2, <2>3
<1> HIDE DEF chain, reads, kids, built
<1>12. /\ MapsAgree(built) /\ built.id = s.id /\ built.root = s.root
       /\ DOMAIN built.nodes = D \cup chain
       /\ \A y \in D \cup chain : built.children[y] = IF y \in chain THEN kids[y] ELSE s.children[y]
       /\ \A y \in D \ chain : built.nodes[y] = s.nodes[y]
       /\ DOMAIN built.text \ chain = DOMAIN s.text \ chain
       /\ \A y \in DOMAIN built.text \ chain : built.text[y] = s.text[y]
  <2>1. BuildsOn(s, reads, kids, chain)
    BY <1>1, <1>8, <1>9, <1>10, <1>11 DEF BuildsOn, D
  <2>2. built = Built(s, reads, kids)
    BY DEF built
  <2>3. /\ MapsAgree(built) /\ built.id = s.id /\ built.root = s.root
        /\ DOMAIN built.nodes = DOMAIN s.nodes \cup chain
        /\ \A y \in DOMAIN built.nodes : built.children[y] = IF y \in chain THEN kids[y] ELSE s.children[y]
        /\ \A y \in DOMAIN s.nodes \ chain : built.nodes[y] = s.nodes[y]
        /\ DOMAIN built.text \ chain = DOMAIN s.text \ chain
        /\ \A y \in DOMAIN built.text \ chain : built.text[y] = s.text[y]
    BY <2>1, <2>2, BuiltAgrees
  <2> QED
    BY <2>3 DEF D
<1>13. t = [built EXCEPT !.focus = climb[1]]
  BY <1>s DEF Spliced, built, reads, kids
<1>14. /\ MapsAgree(t) /\ t.id = built.id /\ t.root = built.root /\ t.focus = climb[1]
       /\ t.nodes = built.nodes /\ t.text = built.text /\ t.children = built.children
  BY <1>12, <1>13, FocusAlone
<1>15. /\ t.id = s.id /\ t.root = s.root /\ t.focus = x
       /\ t.nodes = built.nodes /\ t.text = built.text /\ t.children = built.children
  BY <1>3, <1>12, <1>14
<1>16. MapsAgree(t)
  BY <1>14
<1>17. DOMAIN t.nodes = D \cup chain
  BY <1>12, <1>15
<1>18. ASSUME NEW S, s.root \in S, \A y \in D \cup chain : y \in S => t.children[y] \subseteq S
       PROVE  D \cup chain \subseteq S
  <2>1. ASSUME NEW y \in D, y \in S PROVE s.children[y] \subseteq S
    <3>1. CASE y \in chain
      <4>1. PICK i \in 1..n : y = climb[i]
        BY <1>7, <3>1
      <4>2. i = n
        BY <1>3, <2>1, <4>1
      <4>3. s.children[y] \subseteq t.children[y]
        BY <1>6, <1>12, <1>15, <3>1, <4>1, <4>2
      <4> QED
        BY <1>18, <2>1, <4>3
    <3>2. CASE y \notin chain
      <4>1. s.children[y] = t.children[y]
        BY <1>12, <1>15, <3>2
      <4> QED
        BY <1>18, <2>1, <4>1
    <3> QED
      BY <3>1, <3>2
  <2>2. D \subseteq S
    BY <1>1, <1>18, <2>1 DEF AllReached, D
  <2> DEFINE bad == {d \in Nat : d < n /\ climb[n - d] \notin S}
  <2>3. ASSUME bad # {} PROVE FALSE
    <3>1. PICK d \in bad : \A y \in bad : d <= y
      <4>1. bad \subseteq Nat
        OBVIOUS
      <4> HIDE DEF bad
      <4> QED
        BY <2>3, <4>1, Smallest
    <3>2. d \in Nat /\ d < n /\ climb[n - d] \notin S
      OBVIOUS
    <3>3. d # 0
      <4>1. d = 0 => n - d = n
        BY <1>3, <3>2
      <4> QED
        BY <1>3, <2>2, <3>2, <4>1
    <3>4. d - 1 \in Nat /\ d - 1 < n /\ ~(d <= d - 1) /\ n - (d - 1) \in 1..n /\ n - (d - 1) # 1
          /\ n - (d - 1) - 1 = n - d
      BY <1>3, <3>2, <3>3
    <3>5. climb[n - (d - 1)] \in S
      <4>1. d - 1 \notin bad
        <5> HIDE DEF bad
        <5> QED
          BY <3>1, <3>4
      <4> QED
        BY <3>4, <4>1
    <3> HIDE DEF bad
    <3> DEFINE i == n - (d - 1)
    <3>6. i \in 1..n /\ i # 1 /\ climb[i] \in S /\ i - 1 = n - d
      BY <3>4, <3>5
    <3> HIDE DEF i
    <3>7. climb[i - 1] \in kids[climb[i]] /\ climb[i] \in chain
      BY <1>6, <3>6
    <3>8. kids[climb[i]] = t.children[climb[i]]
      BY <1>12, <1>15, <3>7
    <3>9. climb[i - 1] \in S
      BY <1>18, <3>6, <3>7, <3>8
    <3> QED
      BY <3>2, <3>6, <3>9
  <2>4. ASSUME NEW i \in 1..n PROVE climb[i] \in S
    <3>1. n - i \in Nat /\ n - i < n /\ n - (n - i) = i
      BY <1>3
    <3>2. n - i \notin bad
      BY <2>3
    <3> HIDE DEF bad
    <3>3. climb[n - (n - i)] \in S
      BY <3>1, <3>2 DEF bad
    <3> QED
      BY <3>1, <3>3
  <2> QED
    BY <1>7, <2>2, <2>4
<1>19. AllReached(t)
  <2>1. t.root \in D \cup chain
    BY <1>1, <1>15 DEF AllReached, D
  <2>2. t.focus \in D \cup chain
    <3>1. 1 \in 1..n
      BY <1>3
    <3>2. climb[1] \in chain
      BY <1>6, <3>1
    <3> QED
      BY <1>3, <1>15, <3>2
  <2> QED
    BY <1>15, <1>17, <1>18, <2>1, <2>2 DEF AllReached
<1>20. /\ \A y \in DOMAIN t.nodes : t.nodes[y] \in Emitted(t)
       /\ \A y \in DOMAIN t.text : Runs(y, t.text[y].lines) \subseteq Emitted(t)
       /\ \A m \in Emitted(t) : \/ m.id \in DOMAIN t.nodes /\ m = t.nodes[m.id]
                                \/ \E y \in DOMAIN t.text : m \in Runs(y, t.text[y].lines)
  BY <1>16, EmittedIs
<1>21. EmittedNodes(t, chain) = {t.nodes[y] : y \in chain}
                                \cup UNION {Runs(y, t.text[y].lines) : y \in chain \cap DOMAIN t.text}
  BY DEF EmittedNodes
<1>22. EmittedNodes(t, chain) \subseteq Emitted(t)
  BY <1>17, <1>20, <1>21
<1>23. ASSUME NEW m \in Emitted(t) PROVE m \in EmittedNodes(t, chain) \cup Emitted(s)
  <2>1. CASE m.id \in DOMAIN t.nodes /\ m = t.nodes[m.id]
    <3>1. CASE m.id \in chain
      BY <1>21, <2>1, <3>1
    <3>2. CASE m.id \notin chain
      <4>1. m.id \in D /\ m = s.nodes[m.id]
        BY <1>12, <1>15, <1>17, <2>1, <3>2
      <4> QED
        BY <1>1, <4>1, EmittedIs DEF D
    <3> QED
      BY <3>1, <3>2
  <2>2. ASSUME NEW y \in DOMAIN t.text, m \in Runs(y, t.text[y].lines)
        PROVE  m \in EmittedNodes(t, chain) \cup Emitted(s)
    <3>1. CASE y \in chain
      BY <1>21, <2>2, <3>1
    <3>2. CASE y \notin chain
      <4>1. y \in DOMAIN s.text /\ t.text[y] = s.text[y]
        BY <1>12, <1>15, <3>2
      <4>2. Runs(y, s.text[y].lines) \subseteq Emitted(s)
        BY <1>1, <4>1, EmittedIs
      <4> QED
        BY <2>2, <4>1, <4>2
    <3> QED
      BY <3>1, <3>2
  <2> QED
    BY <1>20, <2>1, <2>2
<1> QED
  BY <1>15, <1>16, <1>19, <1>22, <1>23 DEF StateFine, chain, Chain

-----------------------------------------------------------------------------
(* The invariant, and what the applications do.                            *)

-----------------------------------------------------------------------------
(* The bridge's invariant.                                                 *)

\* Windows walked for the first time, the first of them now.
AddsFine(o) ==
    /\ o = [kind |-> o.kind, todo |-> o.todo, walk |-> o.walk, prev |-> o.prev, then |-> o.then]
    /\ o.kind \in {"add", "enumerate"}
    /\ o.todo \in Seq(Roots)
    /\ IF o.todo = <<>> THEN o.kind = "enumerate" /\ WalkDone(o.walk) ELSE WalkFine(o.walk, o.todo[1])

\* The handler under way walks a window that is kept, or one to be added;
\* the enumeration goes on until none is left.
OpFine(o, ws) ==
    \/ o = Idle \/ o = Connecting
    \/ /\ o = [kind |-> "rewalk", todo |-> o.todo, walk |-> o.walk, prev |-> o.prev, then |-> o.then]
       /\ o.todo \in Seq(IdsIn(ws)) /\ o.todo # <<>>
       /\ \A i \in 1..Len(ws) : ws[i].id = o.todo[1] => WalkFine(o.walk, ws[i].root)
    \/ AddsFine(o)

BridgeInv ==
    /\ ToolkitFine
    /\ WindowsFine(windows, nextId) /\ ClientHolds(client, windows, tracker)
    /\ pending \subseteq IdsIn(windows)
    /\ OpFine(op, windows)

\* The windows kept, under their ids.
LEMMA IdsAre ==
    ASSUME BridgeInv
    PROVE  /\ DOMAIN windows = 1..Len(windows) /\ Ids = IdsIn(windows) /\ IsFiniteSet(Ids)
           /\ \A id \in Ids : Index(id) \in 1..Len(windows) /\ windows[Index(id)].id = id
                              /\ Window(id) = windows[Index(id)]
           /\ \A i \in 1..Len(windows) : windows[i].id \in Ids /\ Index(windows[i].id) = i
<1>1. WindowsFine(windows, nextId)
  BY DEF BridgeInv
<1>2. /\ Len(windows) \in Nat /\ windows = [i \in 1..Len(windows) |-> windows[i]] /\ nextId \in Nat \ {0}
      /\ \A i \in 1..Len(windows) : windows[i].id \in 1..nextId-1
      /\ \A i, j \in 1..Len(windows) : windows[i].id = windows[j].id => i = j
  BY <1>1 DEF WindowsFine
<1> DEFINE n == Len(windows)
<1> HIDE DEF n
<1>3. DOMAIN windows = 1..n
  BY <1>2 DEF n
<1>4. Ids = IdsIn(windows)
  BY <1>3 DEF Ids, IdsIn, n
<1>5. IsFiniteSet(Ids)
  <2>1. IsFiniteSet(1..nextId-1)
    <3>1. 1 \in Int /\ nextId - 1 \in Int
      BY <1>2
    <3> QED
      BY <3>1, FS_Interval
  <2>2. Ids \subseteq 1..nextId-1
    BY <1>2, <1>4 DEF IdsIn
  <2> QED
    BY <2>1, <2>2, FS_Subset
<1>6. ASSUME NEW id \in Ids
      PROVE  Index(id) \in 1..n /\ windows[Index(id)].id = id /\ Window(id) = windows[Index(id)]
  <2>1. \E i \in DOMAIN windows : windows[i].id = id
    BY DEF Ids
  <2>2. Index(id) \in DOMAIN windows /\ windows[Index(id)].id = id
    BY <2>1 DEF Index
  <2> QED
    BY <1>3, <2>2 DEF Window
<1>7. ASSUME NEW i \in 1..n PROVE windows[i].id \in Ids /\ Index(windows[i].id) = i
  <2>1. windows[i].id \in Ids
    BY <1>3 DEF Ids
  <2>2. Index(windows[i].id) \in 1..n /\ windows[Index(windows[i].id)].id = windows[i].id
    BY <1>6, <2>1
  <2> QED
    BY <1>2, <2>1, <2>2 DEF n
<1> QED
  BY <1>3, <1>4, <1>5, <1>6, <1>7 DEF n

\* A window in the place of another of its id and root.
LEMMA WindowsSame ==
    ASSUME NEW ws, NEW next, WindowsFine(ws, next), NEW i \in 1..Len(ws),
           NEW t, t.id = ws[i].id, t.root = ws[i].root, NEW new, new = [ws EXCEPT ![i] = t]
    PROVE  /\ Len(new) = Len(ws) /\ IdsIn(new) = IdsIn(ws)
           /\ \A k \in 1..Len(ws) : new[k].id = ws[k].id /\ new[k].root = ws[k].root
<1> DEFINE n == Len(ws)
<1>1. n \in Nat /\ ws = [k \in 1..n |-> ws[k]]
  BY DEF WindowsFine
<1>2. i \in 1..n
  OBVIOUS
<1> HIDE DEF n
<1>3. new = [k \in 1..n |-> IF k = i THEN t ELSE ws[k]]
  BY <1>1
<1>4. Len(new) = n
  BY <1>1, <1>3
<1>5. \A k \in 1..n : new[k].id = ws[k].id /\ new[k].root = ws[k].root
  BY <1>3
<1>6. IdsIn(new) = IdsIn(ws)
  <2>1. {new[k].id : k \in 1..n} = {ws[k].id : k \in 1..n}
    BY <1>5
  <2> QED
    BY <1>4, <2>1 DEF IdsIn, n
<1> QED
  BY <1>4, <1>5, <1>6 DEF n

\* What a handler has in hand stays in order when no window's root changes.
LEMMA OpKept ==
    ASSUME NEW o, NEW ws, NEW new, OpFine(o, ws), Len(new) = Len(ws), IdsIn(new) = IdsIn(ws),
           \A k \in 1..Len(ws) : new[k].id = ws[k].id /\ new[k].root = ws[k].root
    PROVE  OpFine(o, new)
<1>1. CASE o = Idle \/ o = Connecting
  BY <1>1 DEF OpFine
<1>2. CASE /\ o = [kind |-> "rewalk", todo |-> o.todo, walk |-> o.walk, prev |-> o.prev, then |-> o.then]
           /\ o.todo \in Seq(IdsIn(ws)) /\ o.todo # <<>>
           /\ \A i \in 1..Len(ws) : ws[i].id = o.todo[1] => WalkFine(o.walk, ws[i].root)
  <2>1. \A i \in 1..Len(new) : new[i].id = o.todo[1] => WalkFine(o.walk, new[i].root)
    BY <1>2
  <2> QED
    BY <1>2, <2>1 DEF OpFine
<1>3. CASE AddsFine(o)
  BY <1>3 DEF OpFine
<1> QED
  BY <1>1, <1>2, <1>3 DEF OpFine

\* A walk of windows that are kept begins in order.
LEMMA RewalkingFine ==
    ASSUME BridgeInv, NEW ids, ids \subseteq Ids, NEW then
    PROVE  OpFine(Rewalking(ids, then), windows)
<1>1. CASE ids = {}
  BY <1>1 DEF Rewalking, OpFine
<1>2. CASE ids # {}
  <2> DEFINE list == SetToSeq(ids)
             first == Window(list[1])
             o == Rewalking(ids, then)
  <2>1. IsFiniteSet(ids) /\ Ids = IdsIn(windows)
    BY IdsAre, FS_Subset
  <2>2. /\ Len(list) \in Nat /\ list = [i \in 1..Len(list) |-> list[i]]
        /\ \A i \in 1..Len(list) : list[i] \in ids
        /\ \A x \in ids : \E i \in 1..Len(list) : list[i] = x
    BY <2>1, ListedOnce
  <2>3. o = [kind |-> "rewalk", then |-> then, todo |-> list, walk |-> Walk(first.root),
             prev |-> IF first.focus \in first.objects THEN first.focus ELSE None]
    BY <1>2 DEF Rewalking
  <2> HIDE DEF list, first, o
  <2>4. 1 \in 1..Len(list) /\ list[1] \in ids /\ list # <<>>
    <3>1. Len(list) # 0
      BY <1>2, <2>2
    <3>2. 1 \in 1..Len(list)
      BY <2>2, <3>1
    <3>3. list # <<>>
      BY <3>1
    <3> QED
      BY <2>2, <3>2, <3>3
  <2>5. list \in Seq(IdsIn(windows))
    <3> DEFINE n == Len(list)
               S == IdsIn(windows)
    <3>1. n \in Nat /\ list = [i \in 1..n |-> list[i]] /\ \A i \in 1..n : list[i] \in S
      BY <2>1, <2>2
    <3> HIDE DEF n, S
    <3>2. list \in [1..n -> S]
      BY <3>1
    <3>3. list \in Seq(S)
      BY <3>1, <3>2, IsASeq
    <3> QED
      BY <3>3 DEF S
  <2>6. ASSUME NEW i \in 1..Len(windows), windows[i].id = list[1] PROVE WalkFine(Walk(first.root), windows[i].root)
    <3>1. first = windows[i]
      BY <2>6, IdsAre DEF first
    <3>2. StateFine(windows[i])
      BY DEF BridgeInv, WindowsFine
    <3>3. first.root \in Roots
      BY <3>1, <3>2 DEF StateFine, MapsAgree
    <3> QED
      BY <3>1, <3>3, WalkBegins
  <2>7. o.todo = list /\ o.walk = Walk(first.root)
        /\ o = [kind |-> "rewalk", todo |-> o.todo, walk |-> o.walk, prev |-> o.prev, then |-> o.then]
    BY <2>3
  <2>8. OpFine(o, windows)
    BY <2>4, <2>5, <2>6, <2>7 DEF OpFine
  <2> QED
    BY <2>8 DEF o
<1> QED
  BY <1>1, <1>2

\* The window found first is one of those asked for.
LEMMA FirstIs ==
    ASSUME NEW x, NEW holding \in SUBSET Nat
    PROVE  \/ First(x, holding) = 0
           \/ /\ First(x, holding) \in holding
              /\ App[windows[First(x, holding)].root] = App[RootOf(x)]
<1> DEFINE found == {i \in holding : App[windows[i].root] = App[RootOf(x)]}
<1>1. found \in SUBSET Nat
  OBVIOUS
<1>2. First(x, holding) = IF found = {} THEN 0 ELSE Min(found)
  BY DEF First
<1>3. \A i \in found : i \in holding /\ App[windows[i].root] = App[RootOf(x)]
  OBVIOUS
<1> HIDE DEF found
<1>4. found # {} => Min(found) \in found
  BY <1>1, Smallest
<1> QED
  BY <1>2, <1>3, <1>4

-----------------------------------------------------------------------------
(* Each step keeps it.                                                     *)

\* A step that leaves the objects alone.
LEMMA ToolkitKept ==
    ASSUME ToolkitFine, UNCHANGED <<showing, parent, listed, lines, also>>
    PROVE  ToolkitFine'
BY DEF ToolkitFine

\* What the applications do.
LEMMA ToolkitSteps ==
    ASSUME BridgeInv, ToolkitNext, UNCHANGED <<atspiVars, client>>
    PROVE  BridgeInv'
<1>1. ToolkitFine
  BY DEF BridgeInv
<1>2. ToolkitFine'
  <2>1. ASSUME NEW x \in Objects, NEW p \in All, NEW lazy \in BOOLEAN, Attach(x, p, lazy) PROVE ToolkitFine'
    <3>1. /\ RootOf(p) = Home[x] /\ parent' = [parent EXCEPT ![x] = p]
          /\ listed' = (IF lazy THEN listed \ {x} ELSE listed \cup {x})
          /\ lines' = lines /\ also' = also /\ showing' = showing
      BY <2>1 DEF Attach, Happens
    <3>2. parent' = [y \in Objects |-> IF y = x THEN p ELSE parent[y]]
      BY <1>1, <3>1 DEF ToolkitFine
    <3>3. \A y \in Objects : parent'[y] # None => parent'[y] \in All /\ RootOf(parent'[y]) = Home[y]
      BY <1>1, <3>1, <3>2 DEF ToolkitFine
    <3>4. parent' = [y \in Objects |-> parent'[y]]
      BY <3>2
    <3>5. listed' \subseteq Objects
      BY <1>1, <3>1 DEF ToolkitFine
    <3> QED
      BY <1>1, <3>1, <3>3, <3>4, <3>5 DEF ToolkitFine
  <2>2. ASSUME NEW x \in Objects, Detach(x) PROVE ToolkitFine'
    <3>1. parent' = [parent EXCEPT ![x] = None] /\ listed' = listed \ {x} /\ lines' = lines /\ also' = also /\ showing' = showing
      BY <2>2 DEF Detach, Happens
    <3>2. parent' = [y \in Objects |-> IF y = x THEN None ELSE parent[y]]
      BY <1>1, <3>1 DEF ToolkitFine
    <3>3. \A y \in Objects : parent'[y] # None => parent'[y] \in All /\ RootOf(parent'[y]) = Home[y]
      BY <1>1, <3>2 DEF ToolkitFine
    <3>4. parent' = [y \in Objects |-> parent'[y]]
      BY <3>2
    <3> QED
      BY <1>1, <3>1, <3>3, <3>4 DEF ToolkitFine
  <2>3. ASSUME NEW x \in TextObjects, Edit(x) PROVE ToolkitFine'
    <3>1. lines' = [lines EXCEPT ![x] = 3 - @] /\ UNCHANGED <<showing, parent, listed, also>>
      BY <2>3 DEF Edit, Happens
    <3>2. lines' \in [TextObjects -> 1..2]
      <4>1. lines[x] \in 1..2 /\ lines \in [TextObjects -> 1..2]
        BY <1>1 DEF ToolkitFine
      <4>2. 3 - lines[x] \in 1..2
        BY <4>1
      <4> QED
        BY <3>1, <4>1, <4>2
    <3> QED
      BY <1>1, <3>1, <3>2 DEF ToolkitFine
  <2>4. ASSUME NEW x \in Objects, Change(x) \/ Focus(x) PROVE ToolkitFine'
    BY <1>1, <2>4, ToolkitKept DEF Change, Focus, Happens
  <2>5. ASSUME NEW p \in All, NEW chosen \in SUBSET Kids(p), Select(p, chosen) PROVE ToolkitFine'
    BY <1>1, <2>5, ToolkitKept DEF Select, Happens
  <2>6. ASSUME NEW r \in Roots, Show(r) \/ Hide(r) PROVE ToolkitFine'
    <3>1. UNCHANGED <<parent, listed, lines, also>> /\ showing' \subseteq showing \cup {r}
      BY <2>6 DEF Show, Hide, Happens
    <3>2. showing' \subseteq Roots
      BY <1>1, <3>1 DEF ToolkitFine
    <3> QED
      BY <1>1, <3>1, <3>2 DEF ToolkitFine
  <2>7. ASSUME NEW r \in Roots, Activate(r) \/ Deactivate(r) PROVE ToolkitFine'
    BY <1>1, <2>7, ToolkitKept DEF Activate, Deactivate, Happens
  <2> QED
    BY <2>1, <2>2, <2>3, <2>4, <2>5, <2>6, <2>7 DEF ToolkitNext
<1> QED
  BY <1>2 DEF BridgeInv, atspiVars

-----------------------------------------------------------------------------
(* What a handler sends: deltas of nodes and text, and the focus.          *)

\* Window-level focus on a window that is kept.
LEMMA FocusFollows ==
    ASSUME NEW ws, NEW c, ClientHolds(c, ws, tracker), NEW id \in IdsIn(ws)
    PROVE  ClientHolds(FocusWindow(c, id), ws, id)
<1>1. CASE tracker = id
  BY <1>1 DEF FocusWindow
<1>2. CASE tracker # id
  <2>1. \E i \in 1..Len(ws) : ws[i].id = id
    BY DEF IdsIn
  <2>2. ClientHolds(FocusMoved(c, id), ws, id)
    BY <2>1, FocusSent
  <2> QED
    BY <1>2, <2>2 DEF FocusWindow
<1> QED
  BY <1>1, <1>2

\* One delta of the nodes that differ, or none.
LEMMA NodesSent ==
    ASSUME BridgeInv, NEW i \in 1..Len(windows), NEW t, StateFine(t), t.id = windows[i].id,
           t.root = windows[i].root, t.focus = windows[i].focus,
           NEW nodes, nodes \subseteq Emitted(t), Emitted(t) \subseteq nodes \cup Emitted(windows[i]),
           windows' = [windows EXCEPT ![i] = t], SendNodes(t, nodes), UNCHANGED <<nextId, tracker>>
    PROVE  WindowsFine(windows', nextId') /\ ClientHolds(client', windows', tracker')
           /\ IdsIn(windows') = IdsIn(windows)
<1>1. WindowsFine(windows, nextId) /\ ClientHolds(client, windows, tracker)
  BY DEF BridgeInv
<1>2. IdsIn(windows') = IdsIn(windows)
  BY <1>1, WindowsSame
<1>3. CASE nodes = {}
  <2>1. client' = client
    BY <1>3 DEF SendNodes
  <2>2. Emitted(t) \subseteq Emitted(windows[i])
    BY <1>3
  <2>3. WindowsFine([windows EXCEPT ![i] = t], nextId) /\ ClientHolds(client, [windows EXCEPT ![i] = t], tracker)
    BY <1>1, <2>2, NothingSent
  <2> QED
    BY <1>2, <2>1, <2>3
<1>4. CASE nodes # {}
  <2> DEFINE u == Tree(t.root)!Update(nodes, t.focus, FALSE)
  <2>1. client' = Update(client, t.id, t.root, u)
    BY <1>4 DEF SendNodes
  <2>2. u.nodes = nodes /\ u.focus = t.focus
    BY DEF Tree!Update
  <2> HIDE DEF u
  <2>3. Brings(windows[i], t, u)
    BY <2>2 DEF Brings
  <2>4. WindowsFine([windows EXCEPT ![i] = t], nextId)
        /\ ClientHolds(Update(client, t.id, t.root, u), [windows EXCEPT ![i] = t], tracker)
    BY <1>1, <2>3, DeltaSent
  <2> QED
    BY <1>2, <2>1, <2>4
<1> QED
  BY <1>3, <1>4

\* refresh_paths.
LEMMA PathsRefreshed ==
    ASSUME BridgeInv, NEW i \in 1..Len(windows), NEW paths, RefreshPaths(i, paths), UNCHANGED <<nextId, tracker>>
    PROVE  WindowsFine(windows', nextId') /\ ClientHolds(client', windows', tracker')
           /\ IdsIn(windows') = IdsIn(windows)
<1> DEFINE s == windows[i]
           t == AfterRefresh(s, paths)
           nodes == {t.nodes[x] : x \in RefreshedIn(s, paths)}
<1>1. windows' = [windows EXCEPT ![i] = t] /\ SendNodes(t, nodes)
  BY DEF RefreshPaths
<1>2. StateFine(s)
  BY DEF BridgeInv, WindowsFine
<1>a. t = AfterRefresh(s, paths) /\ s = windows[i]
  OBVIOUS
<1> HIDE DEF s, t, nodes
<1>b. /\ StateFine(t) /\ t.id = s.id /\ t.root = s.root /\ t.focus = s.focus
      /\ \A x \in RefreshedIn(s, paths) : t.nodes[x] \in Emitted(t)
      /\ \A m \in Emitted(t) : m \in Emitted(s) \/ \E x \in RefreshedIn(s, paths) : m = t.nodes[x]
  BY <1>a, <1>2, RefreshFine
<1>3. nodes \subseteq Emitted(t) /\ Emitted(t) \subseteq nodes \cup Emitted(s)
  BY <1>b DEF nodes
<1> QED
  BY <1>a, <1>b, <1>1, <1>3, NodesSent

\* rebuild_text_node.
LEMMA TextReread ==
    ASSUME BridgeInv, NEW i \in 1..Len(windows), NEW x \in DOMAIN windows[i].text, RefreshText(i, x),
           UNCHANGED <<nextId, tracker>>
    PROVE  WindowsFine(windows', nextId') /\ ClientHolds(client', windows', tracker')
           /\ IdsIn(windows') = IdsIn(windows)
<1> DEFINE s == windows[i]
           t == Reread(s, x)
           nodes == ({t.nodes[x]} \ {s.nodes[x]}) \cup ChangedRuns(x, s.text[x].lines, t.text[x].lines)
<1>1. windows' = [windows EXCEPT ![i] = t] /\ SendNodes(t, nodes)
  BY DEF RefreshText
<1>2. StateFine(s) /\ ToolkitFine
  BY DEF BridgeInv, WindowsFine
<1>a. t = Reread(s, x) /\ s = windows[i] /\ x \in DOMAIN s.text
      /\ nodes = ({t.nodes[x]} \ {s.nodes[x]}) \cup ChangedRuns(x, s.text[x].lines, t.text[x].lines)
  OBVIOUS
<1> HIDE DEF s, t, nodes
<1>3. /\ StateFine(t) /\ t.id = s.id /\ t.root = s.root /\ t.focus = s.focus
      /\ nodes \subseteq Emitted(t) /\ Emitted(t) \subseteq nodes \cup Emitted(s)
  BY <1>a, <1>2, RereadFine, SMTT(40)
<1> QED
  BY <1>a, <1>1, <1>3, NodesSent

\* An update of a window and the window's focus after it.
LEMMA UpdateThenFocus ==
    ASSUME BridgeInv, NEW i \in 1..Len(windows), NEW t, NEW u, Brings(windows[i], t, u),
           windows' = [windows EXCEPT ![i] = t],
           client' = FocusWindow(Update(client, t.id, t.root, u), t.id),
           tracker' = t.id, UNCHANGED nextId
    PROVE  WindowsFine(windows', nextId') /\ ClientHolds(client', windows', tracker')
           /\ IdsIn(windows') = IdsIn(windows)
<1>1. WindowsFine(windows, nextId) /\ ClientHolds(client, windows, tracker)
  BY DEF BridgeInv
<1> DEFINE d == Update(client, t.id, t.root, u)
           new == [windows EXCEPT ![i] = t]
<1>2. WindowsFine(new, nextId) /\ ClientHolds(d, new, tracker)
  BY <1>1, DeltaSent
<1>3. t.id = windows[i].id /\ t.root = windows[i].root
  BY DEF Brings
<1>4. IdsIn(new) = IdsIn(windows)
  BY <1>1, <1>3, WindowsSame
<1>5. t.id \in IdsIn(new)
  BY <1>3, <1>4 DEF IdsIn
<1>a. windows' = new /\ client' = FocusWindow(d, t.id)
  OBVIOUS
<1> HIDE DEF d, new
<1>6. ClientHolds(FocusWindow(d, t.id), new, t.id)
  BY <1>2, <1>5, FocusFollows
<1> QED
  BY <1>a, <1>2, <1>4, <1>6

\* emit_node_focus.
LEMMA FocusEmitted ==
    ASSUME BridgeInv, NEW i \in 1..Len(windows), NEW x \in windows[i].objects, NodeFocused(i, x), UNCHANGED nextId
    PROVE  WindowsFine(windows', nextId') /\ ClientHolds(client', windows', tracker')
           /\ IdsIn(windows') = IdsIn(windows)
<1> DEFINE s == windows[i]
           t == [s EXCEPT !.focus = x]
           u == Tree(s.root)!Update({}, x, FALSE)
<1>1. StateFine(s)
  BY DEF BridgeInv, WindowsFine
<1>2. x \in DOMAIN s.nodes
  <2>1. s = [id |-> s.id, root |-> s.root, objects |-> DOMAIN s.nodes, focus |-> s.focus,
             nodes |-> s.nodes, text |-> s.text, children |-> s.children]
    BY <1>1 DEF StateFine, MapsAgree
  <2>2. s.objects = DOMAIN s.nodes
    BY <2>1
  <2> QED
    BY <2>2
<1>3. windows' = [windows EXCEPT ![i] = t]
  BY DEF NodeFocused
<1>4. client' = FocusWindow(Update(client, s.id, s.root, u), s.id) /\ tracker' = s.id
  BY DEF NodeFocused
<1>5. u.nodes = {} /\ u.focus = x
  BY DEF Tree!Update
<1>a. t = [s EXCEPT !.focus = x] /\ s = windows[i]
  OBVIOUS
<1> HIDE DEF s, t, u
<1>6. StateFine(t) /\ t.id = s.id /\ t.root = s.root /\ t.focus = x /\ Emitted(t) = Emitted(s)
  BY <1>a, <1>1, <1>2, FocusFine
<1>7. Brings(s, t, u)
  BY <1>5, <1>6 DEF Brings
<1> QED
  BY <1>a, <1>3, <1>4, <1>6, <1>7, UpdateThenFocus

\* What holds of the windows a handler has left holds of all.
LEMMA HandlerDone ==
    ASSUME BridgeInv, WindowsFine(windows', nextId'), ClientHolds(client', windows', tracker'),
           IdsIn(windows') = IdsIn(windows), pending' \subseteq IdsIn(windows), op' = Idle,
           UNCHANGED <<showing, parent, listed, lines, also>>
    PROVE  BridgeInv'
BY ToolkitKept DEF BridgeInv, OpFine

\* A handler that touches no window.
LEMMA NothingDone ==
    ASSUME BridgeInv, UNCHANGED <<windows, client, tracker, nextId>>
    PROVE  WindowsFine(windows', nextId') /\ ClientHolds(client', windows', tracker')
           /\ IdsIn(windows') = IdsIn(windows)
BY DEF BridgeInv

-----------------------------------------------------------------------------
(* Windows walked again, and cells spliced in.                             *)

\* A climb that is found is built into the window.
LEMMA SplicedBack ==
    ASSUME ToolkitFine, NEW fresh, StateFine(fresh), NEW from, NEW climb,
           climb = Climb(from, DOMAIN fresh.nodes), climb # <<>>, NEW new, new = Spliced(fresh, climb)
    PROVE  StateFine(new) /\ new.id = fresh.id /\ new.root = fresh.root
<1>1. DOMAIN fresh.nodes \in SUBSET All
  BY DEF StateFine, MapsAgree, Here
<1>2. ClimbFine(climb, from, DOMAIN fresh.nodes)
  BY <1>1, ClimbIs
<1>3. SplicesTo(fresh, from, climb, new)
  BY <1>2 DEF SplicesTo
<1> QED
  BY <1>3, SplicedFine

\* A walk makes a window, with the node that had the focus back in it or not.
LEMMA RewalkedFine ==
    ASSUME ToolkitFine, NEW s, s.root \in Roots, NEW reads, WalkedWhole(reads, s.root), NEW prev,
           NEW t, t = Rewalked(s, reads, prev)
    PROVE  StateFine(t) /\ t.id = s.id /\ t.root = s.root
<1> DEFINE fresh == Rebuilt(s, reads)
           climb == IF prev # None /\ prev \notin Paths(reads)
                    THEN Climb(prev, DOMAIN fresh.children) ELSE <<>>
<1>1. t = IF CanSplice(fresh, climb) THEN Spliced(fresh, climb) ELSE fresh
  BY DEF Rewalked
<1>a. fresh = Rebuilt(s, reads)
  OBVIOUS
<1>b. climb = (IF prev # None /\ prev \notin Paths(reads)
              THEN Climb(prev, DOMAIN fresh.children) ELSE <<>>)
  OBVIOUS
<1> HIDE DEF fresh, climb
<1>2. /\ StateFine(fresh) /\ fresh.id = s.id /\ fresh.root = s.root
      /\ DOMAIN fresh.nodes = Paths(reads) /\ DOMAIN fresh.children = Paths(reads)
  BY <1>a, RebuiltFine
<1>3. CASE CanSplice(fresh, climb)
  <2>1. climb # <<>>
    <3>1. Len(climb) >= 2
      BY <1>3 DEF CanSplice
    <3>2. Len(<<>>) = 0
      OBVIOUS
    <3> QED
      BY <3>1, <3>2
  <2>2. climb = Climb(prev, DOMAIN fresh.nodes)
    BY <1>2, <1>b, <2>1
  <2>3. t = Spliced(fresh, climb) /\ StateFine(fresh)
    BY <1>1, <1>2, <1>3
  <2>4. StateFine(t) /\ t.id = fresh.id /\ t.root = fresh.root
    BY <2>1, <2>2, <2>3, SplicedBack
  <2> QED
    BY <1>2, <2>4
<1>4. CASE ~CanSplice(fresh, climb)
  BY <1>1, <1>2, <1>4
<1> QED
  BY <1>3, <1>4

\* A window's maps speak of the same objects, to each of which it holds.
LEMMA WindowMaps ==
    ASSUME BridgeInv, NEW i \in 1..Len(windows)
    PROVE  /\ StateFine(windows[i])
           /\ windows[i].objects = DOMAIN windows[i].nodes
           /\ DOMAIN windows[i].children = DOMAIN windows[i].nodes
           /\ DOMAIN windows[i].nodes \subseteq All
           /\ windows[i].root \in Roots
<1> DEFINE s == windows[i]
<1>1. StateFine(s)
  BY DEF BridgeInv, WindowsFine
<1> HIDE DEF s
<1>2. s = [id |-> s.id, root |-> s.root, objects |-> DOMAIN s.nodes, focus |-> s.focus,
           nodes |-> s.nodes, text |-> s.text, children |-> s.children]
  BY <1>1 DEF StateFine, MapsAgree
<1>3. s.objects = DOMAIN s.nodes
  BY <1>2
<1>4. DOMAIN s.children = DOMAIN s.nodes
  BY <1>1 DEF StateFine, MapsAgree
<1>5. DOMAIN s.nodes \subseteq All /\ s.root \in Roots
  BY <1>1 DEF StateFine, MapsAgree, Here
<1> QED
  BY <1>1, <1>3, <1>4, <1>5 DEF s

\* Which window an object is found in.
LEMMA FoundIs ==
    ASSUME BridgeInv, NEW x, NEW holding \in SUBSET DOMAIN windows
    PROVE  \/ First(x, holding) = 0
           \/ /\ First(x, holding) \in holding /\ First(x, holding) \in 1..Len(windows)
              /\ windows[First(x, holding)].id \in WindowsOfSender(x)
<1>1. DOMAIN windows = 1..Len(windows)
  BY IdsAre
<1>2. holding \in SUBSET Nat
  BY <1>1
<1>3. CASE First(x, holding) = 0
  BY <1>3
<1>4. CASE First(x, holding) # 0
  <2> DEFINE i == First(x, holding)
  <2>1. i \in holding /\ App[windows[i].root] = App[RootOf(x)]
    BY <1>2, <1>4, FirstIs
  <2> HIDE DEF i
  <2>2. i \in 1..Len(windows)
    BY <1>1, <2>1
  <2>3. windows[i].id \in Ids /\ Window(windows[i].id) = windows[i]
    BY <2>2, IdsAre
  <2>4. windows[i].id \in WindowsOfSender(x)
    BY <2>1, <2>3 DEF WindowsOfSender
  <2> QED
    BY <2>1, <2>2, <2>4 DEF i
<1> QED
  BY <1>3, <1>4

\* A descendant no window has is spliced into the one that knows where it hangs.
LEMMA DescendantSpliced ==
    ASSUME BridgeInv, NEW x, SpliceDescendant(x), UNCHANGED nextId
    PROVE  WindowsFine(windows', nextId') /\ ClientHolds(client', windows', tracker')
           /\ IdsIn(windows') = IdsIn(windows)
<1> DEFINE known == UNION {DOMAIN Window(id).children : id \in WindowsOfSender(x)}
           climb == IF WindowsOfSender(x) = {} THEN <<>> ELSE Climb(x, known)
           holding == {j \in DOMAIN windows : climb[Len(climb)] \in DOMAIN windows[j].children}
           i == IF climb = <<>> THEN 0 ELSE First(x, holding)
           t == Spliced(windows[i], climb)
<1>1. IF i = 0 \/ Len(climb) < 2 THEN UNCHANGED <<windows, tracker, client>>
      ELSE /\ windows' = [windows EXCEPT ![i] = t]
           /\ client' = FocusWindow(Update(client, t.id, t.root, SpliceUpdate(t, climb)), t.id)
           /\ tracker' = t.id
  BY Zenon DEF SpliceDescendant
<1>2. CASE i = 0 \/ Len(climb) < 2
  <2>1. UNCHANGED <<windows, client, tracker, nextId>>
    BY <1>1, <1>2
  <2> QED
    BY <2>1, NothingDone
<1>3. CASE ~(i = 0 \/ Len(climb) < 2)
  <2>1. climb # <<>> /\ i = First(x, holding) /\ climb = Climb(x, known)
    BY <1>3
  <2>a. i # 0
    BY <1>3, SMTT(40)
  <2>b. /\ windows' = [windows EXCEPT ![i] = t]
        /\ client' = FocusWindow(Update(client, t.id, t.root, SpliceUpdate(t, climb)), t.id)
        /\ tracker' = t.id
    BY <1>1, <1>3, Zenon
  <2> HIDE DEF climb, i, t
  <2>2. i \in holding /\ i \in 1..Len(windows) /\ windows[i].id \in WindowsOfSender(x)
    <3>1. holding \in SUBSET DOMAIN windows
      OBVIOUS
    <3> HIDE DEF holding
    <3> QED
      BY <2>1, <2>a, <3>1, FoundIs
  <2> DEFINE s == windows[i]
             D == DOMAIN s.nodes
  <2>3. StateFine(s) /\ DOMAIN s.children = D /\ ToolkitFine
    BY <2>2, WindowMaps DEF BridgeInv
  <2>4. climb[Len(climb)] \in D
    BY <2>2, <2>3
  <2>5. D \subseteq known
    <3>1. Window(s.id) = s
      BY <2>2, IdsAre
    <3> QED
      BY <2>2, <2>3, <3>1
  <2>6. known \in SUBSET All
    <3>1. ASSUME NEW id \in WindowsOfSender(x) PROVE DOMAIN Window(id).children \subseteq All
      <4>1. id \in Ids
        BY DEF WindowsOfSender
      <4>2. Index(id) \in 1..Len(windows) /\ Window(id) = windows[Index(id)]
        BY <4>1, IdsAre
      <4> QED
        BY <4>2, WindowMaps
    <3> QED
      BY <3>1
  <2> HIDE DEF known, holding
  <2>7. ClimbFine(climb, x, known)
    BY <2>1, <2>6, ClimbIs
  <2>8. ClimbFine(climb, x, D)
    BY <2>4, <2>5, <2>7 DEF ClimbFine
  <2> HIDE DEF s, D
  <2> DEFINE chain == Chain(climb)
             u == SpliceUpdate(t, climb)
  <2>9. u.nodes = EmittedNodes(t, chain) /\ u.focus = t.focus
    BY DEF SpliceUpdate, Tree!Update, Chain
  <2> HIDE DEF u
  <2>10. t = Spliced(s, climb)
    BY DEF t, s
  <2>c. ClimbFine(climb, x, DOMAIN s.nodes)
    BY <2>8 DEF D
  <2>d. SplicesTo(s, x, climb, t)
    BY <2>3, <2>c, <2>10 DEF SplicesTo
  <2>11. /\ StateFine(t) /\ t.id = s.id /\ t.root = s.root
         /\ EmittedNodes(t, chain) \subseteq Emitted(t)
         /\ Emitted(t) \subseteq EmittedNodes(t, chain) \cup Emitted(s)
    BY <2>3, <2>d, SplicedFine
  <2> HIDE DEF chain
  <2>12. Brings(s, t, u)
    BY <2>9, <2>11 DEF Brings
  <2> QED
    BY <2>2, <2>b, <2>12, UpdateThenFocus DEF s, u
<1> QED
  BY <1>2, <1>3, SMTT(40)

-----------------------------------------------------------------------------
(* The handlers.                                                           *)

\* A list of some roots, each once.
LEMMA RootsListed ==
    ASSUME NEW S \in SUBSET Roots
    PROVE  SetToSeq(S) \in Seq(Roots)
<1> DEFINE list == SetToSeq(S)
           n == Len(list)
<1>1. IsFiniteSet(S)
  <2>1. S \subseteq All
    BY DEF All
  <2> QED
    BY <2>1, ToolkitAssumption, FS_Subset
<1>2. n \in Nat /\ list = [i \in 1..n |-> list[i]] /\ \A i \in 1..n : list[i] \in S
  BY <1>1, ListedOnce
<1> HIDE DEF list, n
<1>3. list \in [1..n -> Roots]
  BY <1>2
<1>4. list \in Seq(Roots)
  BY <1>2, <1>3, IsASeq
<1> QED
  BY <1>4 DEF list

\* Windows to be walked for the first time, in order.
LEMMA FirstWalk ==
    ASSUME NEW roots \in Seq(Roots), roots # <<>>, NEW kind \in {"add", "enumerate"}, NEW prev, NEW ws,
           NEW o, o = [kind |-> kind, then |-> "none", todo |-> roots, walk |-> Walk(roots[1]), prev |-> prev]
    PROVE  OpFine(o, ws)
<1>1. /\ o.todo = roots /\ o.walk = Walk(roots[1]) /\ o.kind = kind
      /\ o = [kind |-> o.kind, todo |-> o.todo, walk |-> o.walk, prev |-> o.prev, then |-> o.then]
  OBVIOUS
<1>2. roots[1] \in Roots
  <2>1. Head(roots) \in Roots /\ Head(roots) = roots[1]
    BY HeadTailProperties
  <2> QED
    BY <2>1
<1>3. WalkFine(Walk(roots[1]), roots[1])
  BY <1>2, WalkBegins
<1>4. AddsFine(o)
  BY <1>1, <1>3 DEF AddsFine
<1> QED
  BY <1>4 DEF OpFine

\* Those a reconcile has found.
LEMMA AddingFine ==
    ASSUME NEW roots \in Seq(Roots), NEW ws
    PROVE  OpFine(Adding(roots), ws)
<1>1. CASE roots = <<>>
  BY <1>1 DEF Adding, OpFine
<1>2. CASE roots # <<>>
  <2>1. Adding(roots) = [kind |-> "add", then |-> "none", todo |-> roots, walk |-> Walk(roots[1]), prev |-> None]
    BY <1>2 DEF Adding
  <2> QED
    BY <1>2, <2>1, FirstWalk
<1> QED
  BY <1>1, <1>2

\* Those of the enumeration, or none any more.
LEMMA EnumeratingFine ==
    ASSUME NEW roots \in Seq(Roots), NEW ahead, NEW ws
    PROVE  OpFine(Enumerating(roots, ahead), ws)
<1>1. CASE roots = <<>>
  <2> DEFINE o == Enumerating(roots, ahead)
  <2>1. o = [kind |-> "enumerate", then |-> "none", todo |-> <<>>, prev |-> ahead, walk |-> Idle.walk]
    BY <1>1 DEF Enumerating
  <2>2. Idle.walk.todo = <<>>
    BY DEF Idle
  <2> HIDE DEF o
  <2>3. /\ o.kind = "enumerate" /\ o.todo = <<>> /\ o.walk = Idle.walk
        /\ o = [kind |-> o.kind, todo |-> o.todo, walk |-> o.walk, prev |-> o.prev, then |-> o.then]
    BY <2>1
  <2>4. WalkDone(o.walk)
    BY <2>2, <2>3 DEF WalkDone
  <2>5. <<>> \in Seq(Roots)
    BY <1>1
  <2>6. AddsFine(o)
    BY <2>3, <2>4, <2>5 DEF AddsFine
  <2> QED
    BY <2>6 DEF OpFine, o
<1>2. CASE roots # <<>>
  <2>1. Enumerating(roots, ahead)
            = [kind |-> "enumerate", then |-> "none", todo |-> roots, walk |-> Walk(roots[1]), prev |-> ahead]
    BY <1>2 DEF Enumerating
  <2> QED
    BY <1>2, <2>1, FirstWalk
<1> QED
  BY <1>1, <1>2

\* reconcile.
LEMMA ReconcileStep ==
    ASSUME BridgeInv, Reconcile, UNCHANGED <<showing, parent, listed, lines, also, nextId>>
    PROVE  BridgeInv'
<1> DEFINE gone == {id \in Ids : Window(id).root \notin showing}
           added == SetToSeq(showing \ TrackedRoots)
           kept == {i \in DOMAIN windows : windows[i].id \notin gone}
<1>1. /\ windows' = Keeping(windows, kept)
      /\ tracker' = (IF tracker \in gone THEN 0 ELSE tracker)
      /\ client' = Removed(client, gone)
      /\ pending' = pending \ gone
      /\ op' = Adding(added)
  BY DEF Reconcile
<1>2. WindowsFine(windows, nextId) /\ ClientHolds(client, windows, tracker)
      /\ ToolkitFine /\ pending \subseteq IdsIn(windows)
  BY DEF BridgeInv
<1>a. windows' = Keeping(windows, Staying(windows, gone))
  BY <1>1 DEF Staying
<1> HIDE DEF gone, kept
<1>3. WindowsFine(windows', nextId) /\ ClientHolds(client', windows', tracker')
      /\ IdsIn(windows') = IdsIn(windows) \ gone
  BY <1>1, <1>2, <1>a, WindowsRemoved
<1>4. pending' \subseteq IdsIn(windows')
  BY <1>1, <1>2, <1>3
<1>5. OpFine(op', windows')
  <2>1. showing \ TrackedRoots \in SUBSET Roots
    BY <1>2 DEF ToolkitFine
  <2>2. added \in Seq(Roots)
    BY <2>1, RootsListed
  <2> HIDE DEF added
  <2> QED
    BY <1>1, <2>2, AddingFine
<1>6. ToolkitFine'
  BY <1>2, ToolkitKept
<1>7. WindowsFine(windows', nextId') /\ ClientHolds(client', windows', tracker')
  BY <1>1, <1>3
<1> QED
  BY <1>4, <1>5, <1>6, <1>7 DEF BridgeInv

\* A handler that takes its event leaves the objects alone.
LEMMA TakesKeeps ==
    ASSUME NEW kind, Takes(kind)
    PROVE  op = Idle /\ UNCHANGED <<showing, parent, listed, lines, also>>
BY DEF Takes

\* Windows whose walk is put off are windows that are kept.
LEMMA ChildrenStep ==
    ASSUME BridgeInv, HandleChildrenChanged
    PROVE  BridgeInv'
<1>1. op' = Idle /\ UNCHANGED <<showing, parent, listed, lines, also>>
      /\ UNCHANGED <<windows, client, tracker, nextId>> /\ pending' = pending \cup WindowsOfSender(Subject)
  BY TakesKeeps DEF HandleChildrenChanged, NotedWindows
<1>2. WindowsOfSender(Subject) \subseteq IdsIn(windows)
  BY IdsAre DEF WindowsOfSender
<1>3. pending' \subseteq IdsIn(windows)
  BY <1>1, <1>2 DEF BridgeInv
<1> QED
  BY <1>1, <1>3, NothingDone, HandlerDone

\* refresh_semantics: a node is refreshed, now or later.
LEMMA StateStep ==
    ASSUME BridgeInv, HandleState
    PROVE  BridgeInv'
<1> DEFINE i == Tracked(Subject)
<1>1. /\ op' = Idle /\ UNCHANGED <<showing, parent, listed, lines, also>>
      /\ UNCHANGED <<nextId, tracker, pending>>
      /\ IF i = 0 THEN UNCHANGED <<windows, client>> ELSE \E now : RefreshPaths(i, now)
  BY TakesKeeps DEF HandleState
<1>2. i = 0 \/ i \in 1..Len(windows)
  BY FoundIs DEF Tracked
<1> HIDE DEF i
<1>3. WindowsFine(windows', nextId') /\ ClientHolds(client', windows', tracker')
      /\ IdsIn(windows') = IdsIn(windows)
  BY <1>1, <1>2, NothingDone, PathsRefreshed
<1>4. pending' \subseteq IdsIn(windows)
  BY <1>1 DEF BridgeInv
<1> QED
  BY <1>1, <1>3, <1>4, HandlerDone

\* refresh_selection: the items concerned are refreshed, or the window
\* is to be walked.
LEMMA SelectionStep ==
    ASSUME BridgeInv, HandleSelection
    PROVE  BridgeInv'
<1> DEFINE i == Tracked(Subject)
<1>1. /\ op' = Idle /\ UNCHANGED <<showing, parent, listed, lines, also>>
      /\ UNCHANGED <<nextId, tracker>>
      /\ \/ UNCHANGED <<windows, client, pending>>
         \/ i # 0 /\ UNCHANGED <<windows, client>> /\ pending' = pending \cup {windows[i].id}
         \/ i # 0 /\ UNCHANGED pending /\ \E now : RefreshPaths(i, now)
  BY TakesKeeps DEF HandleSelection
<1>2. i = 0 \/ i \in 1..Len(windows)
  BY FoundIs DEF Tracked
<1> HIDE DEF i
<1>3. WindowsFine(windows', nextId') /\ ClientHolds(client', windows', tracker')
      /\ IdsIn(windows') = IdsIn(windows)
  <2>1. CASE UNCHANGED <<windows, client>>
    BY <1>1, <2>1, NothingDone
  <2>2. CASE i # 0 /\ \E now : RefreshPaths(i, now)
    BY <1>1, <1>2, <2>2, PathsRefreshed
  <2> QED
    BY <1>1, <2>1, <2>2
<1>4. pending' \subseteq IdsIn(windows)
  <2>1. i # 0 => windows[i].id \in IdsIn(windows)
    BY <1>2 DEF IdsIn
  <2> QED
    BY <1>1, <2>1 DEF BridgeInv
<1> QED
  BY <1>1, <1>3, <1>4, HandlerDone

\* refresh_text: a text is read again.
LEMMA TextStep ==
    ASSUME BridgeInv, HandleText
    PROVE  BridgeInv'
<1> DEFINE holding == {j \in DOMAIN windows : Subject \in DOMAIN windows[j].text}
           i == First(Subject, holding)
<1>1. /\ op' = Idle /\ UNCHANGED <<showing, parent, listed, lines, also>>
      /\ UNCHANGED <<nextId, tracker, pending>>
      /\ UNCHANGED <<windows, client>> \/ (i # 0 /\ RefreshText(i, Subject))
  BY TakesKeeps DEF HandleText
<1>2. i = 0 \/ (i \in 1..Len(windows) /\ Subject \in DOMAIN windows[i].text)
  <2>1. holding \in SUBSET DOMAIN windows
    OBVIOUS
  <2>2. i = 0 \/ (i \in holding /\ i \in 1..Len(windows))
    <3> HIDE DEF holding
    <3> QED
      BY <2>1, FoundIs
  <2> QED
    BY <2>2
<1> HIDE DEF i
<1>3. WindowsFine(windows', nextId') /\ ClientHolds(client', windows', tracker')
      /\ IdsIn(windows') = IdsIn(windows)
  BY <1>1, <1>2, NothingDone, TextReread
<1>4. pending' \subseteq IdsIn(windows)
  BY <1>1 DEF BridgeInv
<1> QED
  BY <1>1, <1>3, <1>4, HandlerDone

\* A window found to hold an object as a focus target does hold it.
LEMMA TargetIs ==
    ASSUME BridgeInv, NEW x
    PROVE  FocusTarget(x) = 0 \/ (FocusTarget(x) \in 1..Len(windows) /\ x \in windows[FocusTarget(x)].objects)
<1> DEFINE holding == {i \in DOMAIN windows : x \in windows[i].objects}
           i == First(x, holding)
<1>1. holding \in SUBSET DOMAIN windows
  OBVIOUS
<1>2. i = 0 \/ (i \in holding /\ i \in 1..Len(windows))
  <2> HIDE DEF holding
  <2> QED
    BY <1>1, FoundIs
<1>3. FocusTarget(x) = i
  BY DEF FocusTarget
<1> QED
  BY <1>2, <1>3

\* handle_active_descendant: the descendant is known, or is spliced in.
LEMMA DescendantStep ==
    ASSUME BridgeInv, HandleDescendant
    PROVE  BridgeInv'
<1> DEFINE i == FocusTarget(Subject)
<1>1. /\ op' = Idle /\ UNCHANGED <<showing, parent, listed, lines, also>>
      /\ UNCHANGED <<nextId, pending>>
      /\ (i = 0 /\ SpliceDescendant(Subject)) \/ (i # 0 /\ NodeFocused(i, Subject))
  BY TakesKeeps DEF HandleDescendant
<1>2. i = 0 \/ (i \in 1..Len(windows) /\ Subject \in windows[i].objects)
  BY TargetIs
<1> HIDE DEF i
<1>3. WindowsFine(windows', nextId') /\ ClientHolds(client', windows', tracker')
      /\ IdsIn(windows') = IdsIn(windows)
  <2>1. CASE i = 0 /\ SpliceDescendant(Subject)
    BY <1>1, <2>1, DescendantSpliced
  <2>2. CASE i # 0 /\ NodeFocused(i, Subject)
    BY <1>1, <1>2, <2>2, FocusEmitted
  <2> QED
    BY <1>1, <2>1, <2>2
<1>4. pending' \subseteq IdsIn(windows)
  BY <1>1 DEF BridgeInv
<1> QED
  BY <1>1, <1>3, <1>4, HandlerDone

\* A walk that begins, of windows as they are.
LEMMA WalkingStep ==
    ASSUME BridgeInv, NEW ids, ids \subseteq Ids, NEW then, op' = Rewalking(ids, then),
           UNCHANGED <<windows, client, tracker, nextId, showing, parent, listed, lines, also>>,
           pending' \subseteq IdsIn(windows)
    PROVE  BridgeInv'
<1>1. OpFine(op', windows')
  BY RewalkingFine
<1> QED
  BY <1>1, ToolkitKept DEF BridgeInv

\* handle_focus_change: the object is known, or its windows are to be walked.
LEMMA FocusStep ==
    ASSUME BridgeInv, HandleFocus
    PROVE  BridgeInv'
<1> DEFINE i == FocusTarget(Subject)
<1>1. /\ op = Idle /\ UNCHANGED <<showing, parent, listed, lines, also>>
      /\ UNCHANGED <<nextId, pending>>
      /\ \/ op' = Rewalking(WindowsOfSender(Subject), "none") /\ UNCHANGED <<windows, tracker, client>>
         \/ i # 0 /\ NodeFocused(i, Subject) /\ op' = op
  BY TakesKeeps DEF HandleFocus
<1>2. i = 0 \/ (i \in 1..Len(windows) /\ Subject \in windows[i].objects)
  BY TargetIs
<1>3. pending' \subseteq IdsIn(windows)
  BY <1>1 DEF BridgeInv
<1> HIDE DEF i
<1>4. CASE op' = Rewalking(WindowsOfSender(Subject), "none") /\ UNCHANGED <<windows, tracker, client>>
  <2>1. WindowsOfSender(Subject) \subseteq Ids
    BY DEF WindowsOfSender
  <2> QED
    BY <1>1, <1>3, <1>4, <2>1, WalkingStep
<1>5. CASE i # 0 /\ NodeFocused(i, Subject) /\ op' = op
  <2>1. WindowsFine(windows', nextId') /\ ClientHolds(client', windows', tracker')
        /\ IdsIn(windows') = IdsIn(windows)
    BY <1>1, <1>2, <1>5, FocusEmitted
  <2> QED
    BY <1>1, <1>3, <1>5, <2>1, HandlerDone
<1> QED
  BY <1>1, <1>4, <1>5

\* A window that is activated or deactivated is walked again.
LEMMA ActivationStep ==
    ASSUME BridgeInv, NEW kind, Activation(kind)
    PROVE  BridgeInv'
<1> DEFINE targets == {id \in Ids : Window(id).root = Subject}
<1>1. targets \subseteq Ids /\ op' = Rewalking(targets, kind)
      /\ UNCHANGED <<windows, client, tracker, nextId, pending, showing, parent, listed, lines, also>>
  BY TakesKeeps DEF Activation
<1>2. pending' \subseteq IdsIn(windows)
  BY <1>1 DEF BridgeInv
<1> HIDE DEF targets
<1> QED
  BY <1>1, <1>2, WalkingStep

\* An action leaves the window to be walked.
LEMMA ActionStep ==
    ASSUME BridgeInv, NEW id \in Ids, NEW x, HandleAction(id, x)
    PROVE  BridgeInv'
<1>1. /\ op' = Idle /\ UNCHANGED <<showing, parent, listed, lines, also>>
      /\ UNCHANGED <<windows, client, tracker, nextId>> /\ pending' \subseteq pending \cup {id}
  BY DEF HandleAction, toolkitVars
<1>2. id \in IdsIn(windows)
  BY IdsAre
<1>3. pending' \subseteq IdsIn(windows)
  BY <1>1, <1>2 DEF BridgeInv
<1> QED
  BY <1>1, <1>3, NothingDone, HandlerDone

\* The noted windows whose time has come are walked.
LEMMA TimerRewalkStep ==
    ASSUME BridgeInv, NEW ids \in SUBSET pending, TimerRewalk(ids)
    PROVE  BridgeInv'
<1>1. op' = Rewalking(ids, "none") /\ pending' = pending \ ids
      /\ UNCHANGED <<windows, client, tracker, nextId, showing, parent, listed, lines, also>>
  BY DEF TimerRewalk, toolkitVars
<1>2. ids \subseteq Ids /\ pending' \subseteq IdsIn(windows)
  BY <1>1, IdsAre DEF BridgeInv
<1> QED
  BY <1>1, <1>2, WalkingStep

\* The nodes put off whose time has come are read again.
LEMMA TimerRefreshStep ==
    ASSUME BridgeInv, NEW i \in DOMAIN windows, NEW paths, TimerRefresh(i, paths)
    PROVE  BridgeInv'
<1>1. /\ op' = Idle /\ UNCHANGED <<showing, parent, listed, lines, also>>
      /\ UNCHANGED <<nextId, tracker, pending>> /\ RefreshPaths(i, paths)
  BY DEF TimerRefresh, toolkitVars
<1>2. i \in 1..Len(windows)
  BY IdsAre
<1>3. WindowsFine(windows', nextId') /\ ClientHolds(client', windows', tracker')
      /\ IdsIn(windows') = IdsIn(windows)
  BY <1>1, <1>2, PathsRefreshed
<1>4. pending' \subseteq IdsIn(windows)
  BY <1>1 DEF BridgeInv
<1> QED
  BY <1>1, <1>3, <1>4, HandlerDone

-----------------------------------------------------------------------------
(* The walks.                                                              *)

\* One object is read.
LEMMA ReadStep ==
    ASSUME BridgeInv, ReadNext
    PROVE  BridgeInv'
<1>1. /\ op # Idle /\ ~WalkDone(op.walk) /\ op' = [op EXCEPT !.walk = Advance(op.walk, All)]
      /\ UNCHANGED <<windows, client, tracker, nextId, pending, showing, parent, listed, lines, also>>
  BY DEF ReadNext, toolkitVars
<1>2. ToolkitFine /\ OpFine(op, windows)
  BY DEF BridgeInv
<1> DEFINE o == op
           w == Advance(op.walk, All)
           n == Len(windows)
<1>3. CASE /\ op = [kind |-> "rewalk", todo |-> op.todo, walk |-> op.walk, prev |-> op.prev, then |-> op.then]
           /\ op.todo \in Seq(IdsIn(windows)) /\ op.todo # <<>>
           /\ \A i \in 1..n : windows[i].id = op.todo[1] => WalkFine(op.walk, windows[i].root)
  <2>1. op' = [kind |-> "rewalk", todo |-> op.todo, walk |-> w, prev |-> op.prev, then |-> op.then]
    BY <1>1, <1>3
  <2> HIDE DEF w
  <2>2. op'.todo = op.todo /\ op'.walk = w
        /\ op' = [kind |-> "rewalk", todo |-> op'.todo, walk |-> op'.walk, prev |-> op'.prev, then |-> op'.then]
    BY <2>1
  <2>3. ASSUME NEW i \in 1..n, windows[i].id = op.todo[1] PROVE WalkFine(w, windows[i].root)
    <3> DEFINE r == windows[i].root
               walk == op.walk
    <3>1. r \in Roots /\ r \in All
      BY WindowMaps DEF All
    <3>2. WalkFine(walk, r) /\ ~WalkDone(walk)
      BY <1>1, <1>3, <2>3
    <3> HIDE DEF r, walk
    <3>3. WalkFine(Advance(walk, All), r)
      BY <1>2, <3>1, <3>2, WalkAdvances
    <3> QED
      BY <3>3 DEF r, walk, w
  <2>4. OpFine(op', windows)
    BY <1>3, <2>2, <2>3 DEF OpFine
  <2> QED
    BY <1>1, <2>4, ToolkitKept DEF BridgeInv
<1>4. CASE AddsFine(op)
  <2>1. op' = [kind |-> op.kind, todo |-> op.todo, walk |-> w, prev |-> op.prev, then |-> op.then]
    BY <1>1, <1>4 DEF AddsFine
  <2> HIDE DEF w
  <2>2. op'.kind = op.kind /\ op'.todo = op.todo /\ op'.walk = w
        /\ op' = [kind |-> op'.kind, todo |-> op'.todo, walk |-> op'.walk, prev |-> op'.prev, then |-> op'.then]
    BY <2>1
  <2>3. op.todo \in Seq(Roots) /\ op.todo # <<>> /\ op.kind \in {"add", "enumerate"}
        /\ WalkFine(op.walk, op.todo[1])
    BY <1>1, <1>4 DEF AddsFine
  <2> DEFINE r == op.todo[1]
             walk == op.walk
  <2>4. r \in Roots /\ r \in All
    <3>1. Head(op.todo) \in Roots /\ Head(op.todo) = op.todo[1]
      BY <2>3, HeadTailProperties
    <3> QED
      BY <3>1 DEF All
  <2>5. WalkFine(walk, r) /\ ~WalkDone(walk)
    BY <1>1, <2>3
  <2> HIDE DEF r, walk
  <2>6. WalkFine(Advance(walk, All), r)
    BY <1>2, <2>4, <2>5, WalkAdvances
  <2>7. WalkFine(w, op.todo[1])
    BY <2>6 DEF r, walk, w
  <2>8. AddsFine(op')
    BY <2>2, <2>3, <2>7 DEF AddsFine
  <2>9. OpFine(op', windows)
    BY <2>8 DEF OpFine
  <2> QED
    BY <1>1, <2>9, ToolkitKept DEF BridgeInv
<1>5. op # Connecting
  <2>1. Connecting.walk.todo = <<>>
    BY DEF Connecting, Idle
  <2> QED
    BY <1>1, <2>1 DEF WalkDone
<1> QED
  BY <1>1, <1>2, <1>3, <1>4, <1>5 DEF OpFine

\* Window focus that follows an activation is on a window that is kept.
LEMMA ThenFine ==
    ASSUME NEW ws, NEW c, ClientHolds(c, ws, tracker), NEW id \in IdsIn(ws)
    PROVE  ClientHolds(Then(c, id), ws, TrackerThen(id))
<1>1. CASE op.then = "activate"
  <2>1. Then(c, id) = FocusWindow(c, id) /\ TrackerThen(id) = id
    BY <1>1 DEF Then, TrackerThen
  <2> QED
    BY <2>1, FocusFollows
<1>2. CASE op.then # "activate" /\ op.then = "deactivate" /\ tracker = id
  <2>1. Then(c, id) = FocusMoved(c, 0) /\ TrackerThen(id) = 0
    BY <1>2 DEF Then, TrackerThen
  <2> QED
    BY <2>1, FocusSent
<1>3. CASE op.then # "activate" /\ ~(op.then = "deactivate" /\ tracker = id)
  <2>1. Then(c, id) = c /\ TrackerThen(id) = tracker
    BY <1>3 DEF Then, TrackerThen
  <2> QED
    BY <2>1
<1> QED
  BY <1>1, <1>2, <1>3

\* A full update brings a window from any state to any other.
LEMMA FullBrings ==
    ASSUME NEW s, NEW t, StateFine(t), t.id = s.id, t.root = s.root
    PROVE  Brings(s, t, FullUpdate(t))
<1> DEFINE u == FullUpdate(t)
<1>1. u.nodes = Emitted(t) /\ u.focus = t.focus
  BY DEF FullUpdate, Emitted, Tree!Update
<1> HIDE DEF u
<1>2. Brings(s, t, u)
  BY <1>1 DEF Brings
<1> QED
  BY <1>2 DEF u

\* A window that was walked again is sent whole.
LEMMA FinishRewalkStep ==
    ASSUME BridgeInv, FinishRewalk
    PROVE  BridgeInv'
<1> DEFINE id == Head(op.todo)
           i == Index(id)
           s == windows[i]
           t == Rewalked(Window(id), op.walk.read, op.prev)
           u == FullUpdate(t)
           d == Update(client, id, t.root, u)
           new == [windows EXCEPT ![i] = t]
           rest == {op.todo[k] : k \in 2..Len(op.todo)}
<1>1. /\ op.kind = "rewalk" /\ WalkDone(op.walk)
      /\ windows' = new
      /\ client' = Then(d, id) /\ tracker' = TrackerThen(id)
      /\ op' = Rewalking(rest, op.then)
      /\ UNCHANGED <<nextId, pending, showing, parent, listed, lines, also>>
  BY DEF FinishRewalk, toolkitVars
<1>2. ToolkitFine /\ OpFine(op, windows) /\ pending \subseteq IdsIn(windows)
      /\ WindowsFine(windows, nextId) /\ ClientHolds(client, windows, tracker)
  BY DEF BridgeInv
<1>3. /\ op.todo \in Seq(IdsIn(windows)) /\ op.todo # <<>>
      /\ \A k \in 1..Len(windows) : windows[k].id = op.todo[1] => WalkFine(op.walk, windows[k].root)
  <2>1. op # Idle
    <3>1. Idle.kind = "idle"
      BY DEF Idle
    <3> QED
      BY <1>1, <3>1
  <2>2. ~AddsFine(op)
    BY <1>1 DEF AddsFine
  <2>3. op # Connecting
    <3>1. Connecting.kind = "connect"
      BY DEF Connecting, Idle
    <3> QED
      BY <1>1, <3>1
  <2> QED
    BY <1>2, <2>1, <2>2, <2>3 DEF OpFine
<1>4. id \in IdsIn(windows) /\ id = op.todo[1]
  <2> DEFINE S == IdsIn(windows)
  <2>1. op.todo \in Seq(S) /\ op.todo # <<>>
    BY <1>3
  <2> HIDE DEF S
  <2>2. Head(op.todo) \in S /\ Head(op.todo) = op.todo[1]
    BY <2>1, HeadTailProperties
  <2> QED
    BY <2>2 DEF S
<1>5. i \in 1..Len(windows) /\ s.id = id /\ Window(id) = s /\ rest \subseteq Ids
  <2>1. id \in Ids
    BY <1>4, IdsAre
  <2>2. rest \subseteq Ids
    <3>1. \A k \in 1..Len(op.todo) : op.todo[k] \in IdsIn(windows)
      BY <1>3, ElementOfSeq
    <3>2. 2..Len(op.todo) \subseteq 1..Len(op.todo)
      OBVIOUS
    <3> QED
      BY <3>1, <3>2, IdsAre
  <2> HIDE DEF id, rest
  <2> QED
    BY <2>1, <2>2, IdsAre
<1> DEFINE reads == op.walk.read
<1>6. s.root \in Roots /\ WalkedWhole(reads, s.root)
  <2>1. s.root \in Roots
    BY <1>5, WindowMaps
  <2>2. WalkFine(op.walk, s.root)
    BY <1>3, <1>4, <1>5
  <2> HIDE DEF s
  <2> QED
    BY <1>1, <2>1, <2>2, WalkEnds
<1>7. t = Rewalked(s, reads, op.prev)
  BY <1>5
<1> HIDE DEF id, i, t, u, d, new, rest, reads
<1>8. StateFine(t) /\ t.id = s.id /\ t.root = s.root
  <2> HIDE DEF s
  <2> QED
    BY <1>2, <1>6, <1>7, RewalkedFine
<1>9. Brings(s, t, u)
  <2> HIDE DEF s
  <2> QED
    BY <1>8, FullBrings DEF u
<1>10. WindowsFine(new, nextId) /\ ClientHolds(d, new, tracker)
  <2>1. WindowsFine([windows EXCEPT ![i] = t], nextId)
        /\ ClientHolds(Update(client, t.id, t.root, u), [windows EXCEPT ![i] = t], tracker)
    BY <1>2, <1>5, <1>9, DeltaSent
  <2> QED
    BY <1>5, <1>8, <2>1 DEF new, d
<1>11. /\ Len(new) = Len(windows) /\ IdsIn(new) = IdsIn(windows)
       /\ \A k \in 1..Len(windows) : new[k].id = windows[k].id /\ new[k].root = windows[k].root
  BY <1>2, <1>5, <1>8, WindowsSame DEF new
<1>12. ClientHolds(client', windows', tracker')
  <2>1. id \in IdsIn(new)
    BY <1>4, <1>11
  <2>2. ClientHolds(Then(d, id), new, TrackerThen(id))
    BY <1>10, <2>1, ThenFine
  <2> QED
    BY <1>1, <2>2
<1>13. OpFine(op', windows')
  <2>1. OpFine(Rewalking(rest, op.then), windows)
    BY <1>5, RewalkingFine
  <2>2. OpFine(Rewalking(rest, op.then), new)
    BY <1>11, <2>1, OpKept
  <2> QED
    BY <1>1, <2>2
<1> QED
  BY <1>1, <1>2, <1>10, <1>11, <1>12, <1>13, ToolkitKept DEF BridgeInv

\* What a handler that adds windows has in hand.
LEMMA AddsInHand ==
    ASSUME OpFine(op, windows), op.kind \in {"add", "enumerate"}
    PROVE  AddsFine(op)
<1>1. Idle.kind = "idle" /\ Connecting.kind = "connect"
  BY DEF Idle, Connecting
<1>2. op # Idle /\ op # Connecting
  BY <1>1
<1>3. ~(op = [kind |-> "rewalk", todo |-> op.todo, walk |-> op.walk, prev |-> op.prev, then |-> op.then])
  OBVIOUS
<1> QED
  BY <1>2, <1>3 DEF OpFine

\* A new window is announced with all that was read of it.
LEMMA AddStep ==
    ASSUME BridgeInv, AddDiscovered, op.kind \in {"add", "enumerate"}, op.todo # <<>>,
           OpFine(op', windows')
    PROVE  BridgeInv'
<1> DEFINE root == Head(op.todo)
           s == NewState(nextId, root)
           reads == op.walk.read
           t == Rebuilt(s, reads)
           u == FullUpdate(t)
<1>1. /\ WalkDone(op.walk)
      /\ windows' = Append(windows, t) /\ nextId' = nextId + 1
      /\ client' = Added(client, nextId, root, u)
      /\ UNCHANGED <<tracker, pending, showing, parent, listed, lines, also>>
  BY DEF AddDiscovered, toolkitVars
<1>2. ToolkitFine /\ OpFine(op, windows) /\ pending \subseteq IdsIn(windows)
      /\ WindowsFine(windows, nextId) /\ ClientHolds(client, windows, tracker)
  BY DEF BridgeInv
<1>3. op.todo \in Seq(Roots) /\ op.todo # <<>> /\ WalkFine(op.walk, op.todo[1])
  BY <1>2, AddsInHand DEF AddsFine
<1>4. root \in Roots /\ root = op.todo[1]
  BY <1>3, HeadTailProperties
<1> HIDE DEF root
<1>5. s.id = nextId /\ s.root = root
  BY <1>4, NewAgrees
<1>6. WalkedWhole(reads, s.root) /\ s.root \in Roots
  BY <1>1, <1>3, <1>4, <1>5, WalkEnds
<1>7. t = Rebuilt(s, reads)
  OBVIOUS
<1> HIDE DEF s, t, reads, u
<1>8. StateFine(t) /\ t.id = s.id /\ t.root = s.root
  BY <1>6, <1>7, RebuiltFine
<1>9. u.nodes = Emitted(t) /\ u.focus = t.focus /\ u.full
  BY DEF u, FullUpdate, Emitted, Tree!Update
<1>10. /\ WindowsFine(Append(windows, t), nextId + 1)
       /\ ClientHolds(Added(client, nextId, t.root, u), Append(windows, t), tracker)
       /\ IdsIn(windows) \subseteq IdsIn(Append(windows, t))
  <2>1. t.id = nextId
    BY <1>5, <1>8
  <2> QED
    BY <1>2, <1>8, <1>9, <2>1, WindowAdded
<1>11. ClientHolds(client', windows', tracker')
  BY <1>1, <1>5, <1>8, <1>10
<1>12. WindowsFine(windows', nextId') /\ pending' \subseteq IdsIn(windows')
  BY <1>1, <1>2, <1>10
<1>13. ToolkitFine'
  BY <1>1, <1>2, ToolkitKept
<1> QED
  BY <1>11, <1>12, <1>13 DEF BridgeInv

\* One that a reconcile has found.
LEMMA FinishAddStep ==
    ASSUME BridgeInv, FinishAdd
    PROVE  BridgeInv'
<1>1. op.kind = "add" /\ AddDiscovered /\ op' = Adding(Tail(op.todo))
  BY DEF FinishAdd
<1>2. AddsFine(op)
  BY <1>1, AddsInHand DEF BridgeInv
<1>3. op.todo \in Seq(Roots) /\ op.todo # <<>>
  BY <1>1, <1>2 DEF AddsFine
<1>4. Tail(op.todo) \in Seq(Roots)
  BY <1>3, HeadTailProperties
<1>5. OpFine(op', windows')
  BY <1>1, <1>4, AddingFine
<1> QED
  BY <1>1, <1>3, <1>5, AddStep

\* One of those there at the start.
LEMMA FinishEnumeratedStep ==
    ASSUME BridgeInv, FinishEnumerated
    PROVE  BridgeInv'
<1>1. op.kind = "enumerate" /\ op.todo # <<>> /\ AddDiscovered
      /\ op' = Enumerating(Tail(op.todo), op.prev)
  BY DEF FinishEnumerated
<1>2. AddsFine(op)
  BY <1>1, AddsInHand DEF BridgeInv
<1>3. op.todo \in Seq(Roots)
  BY <1>2 DEF AddsFine
<1>4. Tail(op.todo) \in Seq(Roots)
  BY <1>1, <1>3, HeadTailProperties
<1> DEFINE rest == Tail(op.todo)
           ahead == op.prev
<1>5. rest \in Seq(Roots) /\ op' = Enumerating(rest, ahead)
  BY <1>1, <1>4
<1> HIDE DEF rest, ahead
<1>6. OpFine(op', windows')
  BY <1>5, EnumeratingFine
<1> QED
  BY <1>1, <1>6, AddStep

\* The windows on screen are found.
LEMMA DiscoverStep ==
    ASSUME BridgeInv, Discover
    PROVE  BridgeInv'
<1>1. op' = Enumerating(SetToSeq(showing), active)
      /\ UNCHANGED <<windows, nextId, tracker, pending, client, showing, parent, listed, lines, also>>
  BY DEF Discover
<1>2. showing \in SUBSET Roots
  BY DEF BridgeInv, ToolkitFine
<1> DEFINE roots == SetToSeq(showing)
<1>3. roots \in Seq(Roots)
  BY <1>2, RootsListed
<1>4. op' = Enumerating(roots, active)
  BY <1>1
<1> HIDE DEF roots
<1>5. OpFine(op', windows')
  BY <1>3, <1>4, EnumeratingFine
<1> QED
  BY <1>1, <1>5, ToolkitKept DEF BridgeInv

\* All are walked, and one has the focus, if there is one.
LEMMA ListenStep ==
    ASSUME BridgeInv, Listen
    PROVE  BridgeInv'
<1> DEFINE ahead == {i \in DOMAIN windows : windows[i].root = op.prev}
           first == IF ahead # {} THEN windows[Min(ahead)].id
                    ELSE IF windows = <<>> THEN 0 ELSE windows[1].id
<1>1. /\ tracker' = first /\ client' = FocusMoved(client, first) /\ op' = Idle
      /\ UNCHANGED <<windows, nextId, pending, showing, parent, listed, lines, also>>
  BY DEF Listen
<1>2. WindowsFine(windows, nextId) /\ ClientHolds(client, windows, tracker)
      /\ ToolkitFine /\ pending \subseteq IdsIn(windows)
  BY DEF BridgeInv
<1>3. Len(windows) \in Nat /\ windows = [i \in 1..Len(windows) |-> windows[i]]
      /\ DOMAIN windows = 1..Len(windows)
  BY <1>2, IdsAre DEF WindowsFine
<1>4. first = 0 \/ \E i \in 1..Len(windows) : windows[i].id = first
  <2>1. CASE ahead # {}
    <3>1. ahead \subseteq 1..Len(windows)
      BY <1>3
    <3>2. Min(ahead) \in 1..Len(windows)
      <4> HIDE DEF ahead
      <4>1. ahead \subseteq Nat
        BY <3>1
      <4>2. Min(ahead) \in ahead
        BY <2>1, <4>1, Smallest
      <4> QED
        BY <3>1, <4>2
    <3>3. first = windows[Min(ahead)].id
      BY <2>1
    <3> HIDE DEF ahead, first
    <3> QED
      BY <3>2, <3>3
  <2>2. CASE ahead = {} /\ windows # <<>>
    <3>1. Len(windows) # 0
      BY <1>3, <2>2
    <3>2. 1 \in 1..Len(windows)
      BY <1>3, <3>1
    <3>3. first = windows[1].id
      BY <2>2
    <3> HIDE DEF ahead, first
    <3> QED
      BY <3>2, <3>3
  <2>3. CASE ahead = {} /\ windows = <<>>
    BY <2>3
  <2> QED
    BY <2>1, <2>2, <2>3
<1> HIDE DEF first
<1>5. ClientHolds(client', windows, tracker')
  BY <1>1, <1>2, <1>4, FocusSent
<1>6. OpFine(op', windows')
  BY <1>1 DEF OpFine
<1> QED
  BY <1>1, <1>2, <1>5, <1>6, ToolkitKept DEF BridgeInv

-----------------------------------------------------------------------------
(* The theorems.                                                           *)

\* The applications as the bridge finds them.
LEMMA ToolkitBegins == ToolkitInit /\ also = {} => ToolkitFine
<1> SUFFICES ASSUME ToolkitInit, also = {} PROVE ToolkitFine
  OBVIOUS
<1>1. parent \in [Objects -> All \cup {None}] /\ \A x \in Objects : parent[x] \in {Home[x], None}
  BY DEF ToolkitInit
<1>2. \A x \in Objects : Home[x] \in Roots /\ RootOf(Home[x]) = Home[x] /\ Home[x] \in All
  BY ToolkitAssumption DEF RootOf, All
<1>3. \A x \in Objects : parent[x] # None => parent[x] \in All /\ RootOf(parent[x]) = Home[x]
  BY <1>1, <1>2
<1>4. parent = [x \in Objects |-> parent[x]]
  BY <1>1
<1>5. listed \subseteq Objects /\ showing \subseteq Roots
  BY DEF ToolkitInit
<1>6. lines \in [TextObjects -> 1..2]
  <2>1. lines = [x \in TextObjects |-> 1] /\ 1 \in 1..2
    BY DEF ToolkitInit
  <2> QED
    BY <2>1
<1> QED
  BY <1>3, <1>4, <1>5, <1>6 DEF ToolkitFine

\* The bridge as it starts, with no window yet.
LEMMA BridgeStarts == ToolkitInit /\ also = {} /\ AtspiInit => BridgeInv
<1> SUFFICES ASSUME ToolkitInit, also = {}, AtspiInit PROVE BridgeInv
  OBVIOUS
<1>1. ToolkitFine
  BY ToolkitBegins
<1>2. /\ windows = <<>> /\ nextId = 1 /\ tracker = 0 /\ pending = {} /\ op = Connecting
      /\ client = [trees |-> NoTrees, focus |-> 0, fault |-> "none"]
  BY DEF AtspiInit
<1>3. Len(windows) = 0 /\ windows = [i \in 1..0 |-> windows[i]] /\ 1..0 = {}
  BY <1>2
<1>4. WindowsFine(windows, nextId)
  BY <1>2, <1>3 DEF WindowsFine
<1>5. ClientHolds(client, windows, tracker)
  <2>1. client.trees = NoTrees /\ client = [trees |-> client.trees, focus |-> tracker, fault |-> "none"]
    BY <1>2
  <2>2. {windows[i].id : i \in 1..Len(windows)} = {}
    BY <1>3
  <2>3. NoTrees = [w \in {} |-> NoTrees[w]]
    BY DEF NoTrees
  <2>4. client.trees = [w \in {windows[i].id : i \in 1..Len(windows)} |-> client.trees[w]]
    BY <2>1, <2>2, <2>3
  <2> QED
    BY <1>3, <2>1, <2>4 DEF ClientHolds
<1>6. pending \subseteq IdsIn(windows) /\ OpFine(op, windows)
  BY <1>2 DEF OpFine
<1> QED
  BY <1>1, <1>4, <1>5, <1>6 DEF BridgeInv

\* Every step of the bridge and of the applications.
LEMMA BridgeStep == BridgeInv /\ [AtspiNext]_<<toolkitVars, client, atspiVars>> => BridgeInv'
<1> SUFFICES ASSUME BridgeInv, [AtspiNext]_<<toolkitVars, client, atspiVars>> PROVE BridgeInv'
  OBVIOUS
<1>1. CASE ToolkitNext /\ UNCHANGED <<atspiVars, client>>
  BY <1>1, ToolkitSteps
<1>2. CASE HandleLifecycle
  <2>1. Reconcile /\ UNCHANGED <<showing, parent, listed, lines, also, nextId>>
    BY <1>2, TakesKeeps DEF HandleLifecycle
  <2> QED
    BY <2>1, ReconcileStep
<1>3. CASE ReconcileTick
  <2>1. Reconcile /\ UNCHANGED <<showing, parent, listed, lines, also, nextId>>
    BY <1>3 DEF ReconcileTick, toolkitVars
  <2> QED
    BY <2>1, ReconcileStep
<1>4. CASE HandleChildrenChanged
  BY <1>4, ChildrenStep
<1>5. CASE HandleState
  BY <1>5, StateStep
<1>6. CASE HandleSelection
  BY <1>6, SelectionStep
<1>7. CASE HandleText
  BY <1>7, TextStep
<1>8. CASE HandleFocus
  BY <1>8, FocusStep
<1>9. CASE HandleDescendant
  BY <1>9, DescendantStep
<1>10. CASE HandleActivate
  BY <1>10, ActivationStep DEF HandleActivate
<1>11. CASE HandleDeactivate
  BY <1>11, ActivationStep DEF HandleDeactivate
<1>12. CASE \E id \in Ids : \E x \in DOMAIN Window(id).nodes : HandleAction(id, x)
  BY <1>12, ActionStep
<1>13. CASE \E ids \in SUBSET pending : TimerRewalk(ids)
  BY <1>13, TimerRewalkStep
<1>14. CASE \E i \in DOMAIN windows :
               \E paths \in SUBSET {x \in All : <<windows[i].id, x>> \in due} : TimerRefresh(i, paths)
  BY <1>14, TimerRefreshStep
<1>15. CASE ReadNext
  BY <1>15, ReadStep
<1>16. CASE FinishRewalk
  BY <1>16, FinishRewalkStep
<1>17. CASE FinishAdd
  BY <1>17, FinishAddStep
<1>18. CASE Discover
  BY <1>18, DiscoverStep
<1>19. CASE FinishEnumerated
  BY <1>19, FinishEnumeratedStep
<1>20. CASE Listen
  BY <1>20, ListenStep
<1>21. CASE UNCHANGED <<toolkitVars, client, atspiVars>>
  <2>1. UNCHANGED <<showing, parent, listed, lines, also>>
    BY <1>21 DEF toolkitVars
  <2>2. UNCHANGED <<windows, nextId, tracker, pending, op, client>>
    BY <1>21 DEF atspiVars
  <2>3. ToolkitFine'
    BY <2>1, ToolkitKept DEF BridgeInv
  <2> QED
    BY <2>2, <2>3 DEF BridgeInv
<1> QED
  BY <1>1, <1>2, <1>3, <1>4, <1>5, <1>6, <1>7, <1>8, <1>9, <1>10, <1>11, <1>12, <1>13, <1>14,
     <1>15, <1>16, <1>17, <1>18, <1>19, <1>20, <1>21 DEF AtspiNext, AtspiSourceNext

\* The bridge with its client and the applications it mirrors.
BridgeSpec == ToolkitInit /\ also = {} /\ AtspiInit /\ [][AtspiNext]_<<toolkitVars, client, atspiVars>>

\* The bridge's maps speak of the same objects, all reached from their
\* window's root; what the client holds of a window is what those maps emit,
\* and it has had no update it could not apply (WindowState, Mirror).
THEOREM BridgeInvariance == BridgeSpec => []BridgeInv
<1>1. ToolkitInit /\ also = {} /\ AtspiInit => BridgeInv
  BY BridgeStarts
<1>2. BridgeInv /\ [AtspiNext]_<<toolkitVars, client, atspiVars>> => BridgeInv'
  BY BridgeStep
<1> QED
  BY <1>1, <1>2, PTL DEF BridgeSpec

\* Such maps are those of a bridge whose client has what it was sent.
LEMMA HeldHere == BridgeInv => BridgeHeldByClient
<1> SUFFICES ASSUME BridgeInv PROVE HeldByClient /\ FocusAgrees
  BY DEF BridgeHeldByClient
<1>1. DOMAIN windows = 1..Len(windows) /\ Ids = IdsIn(windows)
  BY IdsAre
<1>2. ClientHolds(client, windows, tracker)
  BY DEF BridgeInv
<1>3. client.fault = "none" /\ client.focus = tracker
  BY <1>2 DEF ClientHolds
<1>4. DOMAIN client.trees = Ids
  BY <1>1, <1>2 DEF ClientHolds, IdsIn
<1>5. ASSUME NEW i \in DOMAIN windows
      PROVE  /\ client.trees[windows[i].id].nodes = EmittedNodes(windows[i], DOMAIN windows[i].nodes)
             /\ client.trees[windows[i].id].focus = windows[i].focus
             /\ windows[i].objects = DOMAIN windows[i].nodes
             /\ DOMAIN windows[i].children = DOMAIN windows[i].nodes
  <2>1. client.trees[windows[i].id] = [nodes |-> Emitted(windows[i]), focus |-> windows[i].focus]
    BY <1>1, <1>2 DEF ClientHolds
  <2>2. windows[i].objects = DOMAIN windows[i].nodes /\ DOMAIN windows[i].children = DOMAIN windows[i].nodes
    BY <1>1, WindowMaps
  <2> QED
    BY <2>1, <2>2 DEF Emitted
<1>6. HeldByClient
  BY <1>3, <1>4, <1>5 DEF HeldByClient
<1>7. FocusAgrees
  BY <1>3, <1>5 DEF FocusAgrees
<1> QED
  BY <1>6, <1>7

\* No update the bridge sends is one its client could not apply, what it
\* builds the next delta from is what the client holds, and the two agree on
\* the focus, whatever the applications do between the reads of a walk
\* (bridge_main, Mirror).
THEOREM ClientHoldsTheBridge == BridgeSpec => []BridgeHeldByClient
BY BridgeInvariance, HeldHere, PTL
=============================================================================
