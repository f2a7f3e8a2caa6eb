----------------------------- MODULE RailProofs -----------------------------
(***************************************************************************)
(* Proofs about Rail, for any number of remote windows and RAIL windows    *)
(* and whatever the daemon announces of them: the registry and the windows *)
(* tell the same story, a delta reaches the window it is about, the focus  *)
(* settles where it belongs, and no window is forgotten.                   *)
(***************************************************************************)
EXTENDS Rail, TLAPS, SequenceTheorems, FiniteSetTheorems

RailSpec == RailInit /\ [][RailNext]_railVars

-----------------------------------------------------------------------------
(* The inductive invariant.                                                *)

Focuses == Windows \cup {None}
Events ==
    [kind : {"WindowAdded", "WindowRemoved", "TreeUpdated"}, body : Windows]
      \cup [kind : {"FocusChanged"}, body : Focuses]
Messages == [kind : {"Delta"}, body : Windows] \cup [kind : {"Focus"}, body : BOOLEAN] \cup {Detach}

RailTypeOK ==
    /\ unused \subseteq Windows /\ listed \subseteq Windows /\ focus \in Focuses
    /\ pump \in {"reading", "routing"} /\ backlog \in Seq(Events) /\ sweep \subseteq Hwnds
    /\ hooked \in BOOLEAN
    /\ known \subseteq Windows /\ focused \in Focuses
    /\ bound \in [Windows -> Hwnds \cup {None}] /\ attached \subseteq Hwnds
    /\ frame \in [Hwnds -> {"absent", "untitled", "titled", "gone"}]
    /\ adapter \in [Hwnds -> Windows \cup {Stale, None}]
    /\ hostFocus \in [Hwnds -> BOOLEAN]
    /\ posted \in [Hwnds -> Seq(Messages)]
    /\ tried \in [Hwnds -> SUBSET Windows] /\ freed \subseteq Hwnds

(* The registry: who is bound to what.                                     *)
BoundOnce ==
    /\ attached = {bound[w] : w \in Windows} \ {None}
    /\ \A w, v \in Windows : bound[w] # None /\ bound[w] = bound[v] => w = v
    /\ \A w \in Windows : bound[w] # None => w \in known
    /\ attached \subseteq freed

(* The windows: a RAIL window without an adapter has nothing to handle and *)
(* a dead one has no adapter, nor had one that is yet to be created; a     *)
(* detach is the last thing posted, to a window the registry has let go; a *)
(* delta is about the adapter's window.                                    *)
QueueTrue(q, carried, free) ==
    /\ carried = None => q = <<>>
    /\ \A i \in 1..Len(q) :
          /\ q[i] = Detach => i = Len(q) /\ free
          /\ q[i].kind = "Delta" => carried = q[i].body \/ carried = Stale
Leaving(q) == q # <<>> /\ q[Len(q)] = Detach
WindowTrue(h) ==
    /\ ~Alive(h) => adapter[h] = None
    /\ frame[h] = "absent" => h \notin freed
    /\ QueueTrue(posted[h], adapter[h], h \notin attached)
    /\ h \notin attached => adapter[h] \in {None, Stale} \/ Leaving(posted[h])
WindowsTrue ==
    /\ \A h \in Hwnds : WindowTrue(h)
    /\ \A w \in Windows : bound[w] # None /\ Alive(bound[w]) => adapter[bound[w]] = w

(* What the adapter is told last of the focus, or else believes now.       *)
ToldLast(q, b) ==
    \E i \in 1..Len(q) :
        /\ q[i].kind = "Focus" /\ q[i].body = b
        /\ \A j \in i+1..Len(q) : q[j].kind # "Focus"
Untold(q) == \A i \in 1..Len(q) : q[i].kind # "Focus"
WillBelieve(q, now, b) == ToldLast(q, b) \/ (Untold(q) /\ now = b)
BeliefTrue ==
    \A w \in Windows : bound[w] # None /\ Alive(bound[w]) =>
        WillBelieve(posted[bound[w]], hostFocus[bound[w]], focused = w)

(* Routing the backlog takes the registry's focus to the client's.         *)
FocusAfter(f, e) ==
    IF e.kind = "FocusChanged" THEN e.body
    ELSE IF e.kind = "WindowRemoved" /\ e.body = f THEN None ELSE f
Leads(path, from, stream, to) ==
    /\ path[0] = from /\ path[Len(stream)] = to
    /\ \A i \in 1..Len(stream) : path[i] = FocusAfter(path[i - 1], stream[i])
FocusLeads ==
    \E path \in [0..Len(backlog) -> Focuses] : Leads(path, focused, backlog, focus)

(* A titled window that never carried an adapter was offered every unbound *)
(* window, or is about to be.                                              *)
Offered ==
    hooked => \A h \in Hwnds :
        (frame[h] = "titled" /\ h \notin freed) =>
            h \in sweep \/ Unbound(known, bound) \subseteq tried[h]

RInv ==
    /\ RailTypeOK /\ BoundOnce /\ WindowsTrue /\ BeliefTrue /\ FocusLeads /\ Offered

-----------------------------------------------------------------------------
(* Queues of messages.                                                     *)

(* Something is posted behind a queue that takes no adapter away.          *)
LEMMA QueueAppend ==
    ASSUME NEW q \in Seq(Messages), NEW m \in Messages, NEW carried, NEW free \in BOOLEAN,
           QueueTrue(q, carried, FALSE), carried # None,
           m = Detach => free, m.kind = "Delta" => carried = m.body
    PROVE  /\ Append(q, m) \in Seq(Messages) /\ QueueTrue(Append(q, m), carried, free)
           /\ m = Detach => Leaving(Append(q, m))
<1> DEFINE all == Append(q, m)
<1>1. /\ all \in Seq(Messages) /\ Len(all) = Len(q) + 1 /\ Len(q) \in Nat
      /\ \A i \in 1..Len(q) : all[i] = q[i]
      /\ all[Len(q) + 1] = m /\ all # <<>>
  BY AppendProperties, LenProperties
<1> HIDE DEF all
<1>2. \A i \in 1..Len(q) : q[i] # Detach /\ (q[i].kind = "Delta" => carried \in {q[i].body, Stale})
  BY DEF QueueTrue
<1>3. QueueTrue(all, carried, free)
  BY <1>1, <1>2 DEF QueueTrue
<1>4. m = Detach => Leaving(all)
  BY <1>1 DEF Leaving
<1> QED
  BY <1>1, <1>3, <1>4 DEF all

(* A queue loses its first message: a detach was the only one.             *)
LEMMA QueueTail ==
    ASSUME NEW q \in Seq(Messages), q # <<>>, NEW carried, NEW free, QueueTrue(q, carried, free)
    PROVE  /\ Tail(q) \in Seq(Messages) /\ carried # None
           /\ QueueTrue(Tail(q), carried, free)
           /\ Head(q) = Detach => Tail(q) = <<>>
           /\ Leaving(q) /\ Head(q) # Detach => Leaving(Tail(q))
<1> DEFINE rest == Tail(q)
<1>1. /\ Len(q) \in Nat /\ Len(q) >= 1 /\ Head(q) = q[1]
      /\ rest \in Seq(Messages) /\ Len(rest) = Len(q) - 1
      /\ \A i \in 1..Len(q) - 1 : rest[i] = q[i + 1]
  BY EmptySeq, LenProperties, HeadTailProperties
<1>2. carried # None
  BY DEF QueueTrue
<1> HIDE DEF rest
<1>3. Head(q) = Detach => rest = <<>>
  BY <1>1, EmptySeq DEF QueueTrue
<1>4. QueueTrue(rest, carried, free)
  <2>1. ASSUME NEW i \in 1..Len(rest)
        PROVE  /\ rest[i] = Detach => i = Len(rest) /\ free
               /\ rest[i].kind = "Delta" => carried \in {rest[i].body, Stale}
    <3>1. rest[i] = q[i + 1] /\ i + 1 \in 1..Len(q)
      BY <1>1
    <3> QED
      BY <1>1, <3>1 DEF QueueTrue
  <2> QED
    BY <1>2, <2>1 DEF QueueTrue
<1>5. ASSUME Leaving(q), Head(q) # Detach
      PROVE  Leaving(rest)
  <2>1. Len(q) # 1
    BY <1>1, <1>5 DEF Leaving
  <2>2. Len(rest) \in 1..Len(q) - 1 /\ rest[Len(rest)] = q[Len(rest) + 1] /\ Len(rest) + 1 = Len(q)
    BY <1>1, <2>1
  <2>3. rest # <<>>
    BY <2>2, EmptySeq
  <2> QED
    BY <1>5, <2>2, <2>3 DEF Leaving
<1> QED
  BY <1>1, <1>2, <1>3, <1>4, <1>5 DEF rest

(* What is posted last of the focus is what will be believed.              *)
LEMMA BelieveAppend ==
    ASSUME NEW q \in Seq(Messages), NEW m \in Messages, NEW now, NEW b
    PROVE  /\ m.kind # "Focus" /\ WillBelieve(q, now, b) => WillBelieve(Append(q, m), now, b)
           /\ m.kind = "Focus" => WillBelieve(Append(q, m), now, m.body)
<1> DEFINE all == Append(q, m)
<1>1. /\ Len(all) = Len(q) + 1 /\ Len(q) \in Nat
      /\ \A i \in 1..Len(q) : all[i] = q[i]
      /\ all[Len(q) + 1] = m
  BY AppendProperties, LenProperties
<1> HIDE DEF all
<1>2. ASSUME m.kind # "Focus", ToldLast(q, b) PROVE ToldLast(all, b)
  <2>1. PICK i \in 1..Len(q) : /\ q[i].kind = "Focus" /\ q[i].body = b
                               /\ \A j \in i+1..Len(q) : q[j].kind # "Focus"
    BY <1>2 DEF ToldLast
  <2>2. i \in 1..Len(all) /\ all[i].kind = "Focus" /\ all[i].body = b
    BY <1>1, <2>1
  <2>3. \A j \in i+1..Len(all) : all[j].kind # "Focus"
    BY <1>1, <1>2, <2>1, SMTT(40)
  <2> QED
    BY <2>2, <2>3 DEF ToldLast
<1>3. ASSUME m.kind # "Focus", Untold(q) PROVE Untold(all)
  BY <1>1, <1>3 DEF Untold
<1>4. ASSUME m.kind = "Focus" PROVE ToldLast(all, m.body)
  <2>1. Len(all) \in 1..Len(all) /\ all[Len(all)] = m
    BY <1>1
  <2>2. \A j \in Len(all)+1..Len(all) : all[j].kind # "Focus"
    BY <1>1
  <2> QED
    BY <1>4, <2>1, <2>2 DEF ToldLast
<1> QED
  BY <1>2, <1>3, <1>4 DEF WillBelieve, all

(* Handling a message changes the belief to what it tells, if anything.    *)
LEMMA BelieveTail ==
    ASSUME NEW q \in Seq(Messages), q # <<>>, NEW now, NEW b, WillBelieve(q, now, b)
    PROVE  WillBelieve(Tail(q), IF Head(q).kind = "Focus" THEN Head(q).body ELSE now, b)
<1> DEFINE rest == Tail(q)
           next == IF Head(q).kind = "Focus" THEN Head(q).body ELSE now
<1>1. /\ Len(q) \in Nat /\ Len(q) >= 1 /\ Head(q) = q[1]
      /\ Len(rest) = Len(q) - 1
      /\ \A i \in 1..Len(q) - 1 : rest[i] = q[i + 1]
  BY EmptySeq, LenProperties, HeadTailProperties
<1> HIDE DEF rest
<1>2. ASSUME Untold(q), now = b PROVE Untold(rest) /\ next = b
  <2>1. \A i \in 1..Len(q) - 1 : i + 1 \in 1..Len(q)
    BY <1>1
  <2> QED
    BY <1>1, <1>2, <2>1 DEF Untold
<1>3. ASSUME ToldLast(q, b) PROVE WillBelieve(rest, next, b)
  <2>1. PICK i \in 1..Len(q) : /\ q[i].kind = "Focus" /\ q[i].body = b
                               /\ \A j \in i+1..Len(q) : q[j].kind # "Focus"
    BY <1>3 DEF ToldLast
  <2>2. CASE i = 1
    <3>1. next = b
      BY <1>1, <2>1, <2>2
    <3>2. \A j \in 1..Len(rest) : j + 1 \in i+1..Len(q) /\ rest[j] = q[j + 1]
      BY <1>1, <2>2
    <3> QED
      BY <2>1, <3>1, <3>2 DEF WillBelieve, Untold
  <2>3. CASE i # 1
    <3>1. i - 1 \in 1..Len(rest) /\ rest[i - 1] = q[i]
      BY <1>1, <2>3
    <3>2. \A j \in (i - 1)+1..Len(rest) : j + 1 \in i+1..Len(q) /\ rest[j] = q[j + 1]
      BY <1>1, <2>3
    <3> QED
      BY <2>1, <3>1, <3>2 DEF WillBelieve, ToldLast
  <2> QED
    BY <2>2, <2>3
<1> QED
  BY <1>2, <1>3 DEF WillBelieve, rest

(* An arriving event leads the focus one step on.                          *)
LEMMA LeadsAppend ==
    ASSUME NEW stream \in Seq(Events), NEW e \in Events, NEW from, NEW to \in Focuses,
           NEW onward \in Focuses, onward = FocusAfter(to, e),
           \E path \in [0..Len(stream) -> Focuses] : Leads(path, from, stream, to)
    PROVE  \E path \in [0..Len(Append(stream, e)) -> Focuses] :
               Leads(path, from, Append(stream, e), onward)
<1> DEFINE all == Append(stream, e)
<1>1. PICK path \in [0..Len(stream) -> Focuses] : Leads(path, from, stream, to)
  OBVIOUS
<1>2. /\ Len(all) = Len(stream) + 1 /\ Len(stream) \in Nat
      /\ \A i \in 1..Len(stream) : all[i] = stream[i]
      /\ all[Len(stream) + 1] = e
  BY AppendProperties, LenProperties
<1> HIDE DEF all
<1> DEFINE more == [i \in 0..Len(all) |-> IF i = Len(all) THEN onward ELSE path[i]]
<1>3. more \in [0..Len(all) -> Focuses]
  BY <1>2
<1>4. more[0] = from /\ more[Len(all)] = onward
  BY <1>1, <1>2 DEF Leads
<1>5. ASSUME NEW i \in 1..Len(all)
      PROVE  more[i] = FocusAfter(more[i - 1], all[i])
  <2>1. CASE i = Len(all)
    <3>1. i - 1 = Len(stream) /\ more[i - 1] = to /\ more[i] = onward /\ all[i] = e
      BY <1>1, <1>2, <2>1 DEF Leads
    <3> QED
      BY <3>1
  <2>2. CASE i # Len(all)
    <3>1. i \in 1..Len(stream) /\ i - 1 \in 0..Len(all) /\ i - 1 # Len(all)
      BY <1>2, <2>2
    <3>2. more[i] = path[i] /\ more[i - 1] = path[i - 1] /\ all[i] = stream[i]
      BY <1>2, <2>2, <3>1
    <3> QED
      BY <1>1, <3>1, <3>2 DEF Leads
  <2> QED
    BY <2>1, <2>2
<1> HIDE DEF more
<1>6. Leads(more, from, all, onward)
  BY <1>4, <1>5 DEF Leads
<1> QED
  BY <1>3, <1>6 DEF all

(* Routing an event takes the registry's focus one step on.                *)
LEMMA LeadsTail ==
    ASSUME NEW stream \in Seq(Events), stream # <<>>, NEW from, NEW to,
           \E path \in [0..Len(stream) -> Focuses] : Leads(path, from, stream, to)
    PROVE  \E path \in [0..Len(Tail(stream)) -> Focuses] :
               Leads(path, FocusAfter(from, Head(stream)), Tail(stream), to)
<1> DEFINE rest == Tail(stream)
<1>1. PICK path \in [0..Len(stream) -> Focuses] : Leads(path, from, stream, to)
  OBVIOUS
<1>2. /\ Len(stream) \in Nat /\ Len(stream) >= 1 /\ Head(stream) = stream[1]
      /\ Len(rest) = Len(stream) - 1
      /\ \A i \in 1..Len(stream) - 1 : rest[i] = stream[i + 1]
  BY EmptySeq, LenProperties, HeadTailProperties
<1> HIDE DEF rest
<1> DEFINE less == [i \in 0..Len(rest) |-> path[i + 1]]
<1>3. less \in [0..Len(rest) -> Focuses]
  BY <1>2
<1>4. less[0] = FocusAfter(from, Head(stream)) /\ less[Len(rest)] = to
  <2>1. path[1] = FocusAfter(path[1 - 1], stream[1]) /\ path[0] = from
    BY <1>1, <1>2 DEF Leads
  <2>2. less[0] = path[0 + 1] /\ less[Len(rest)] = path[Len(rest) + 1]
    BY <1>2
  <2>3. Len(rest) + 1 = Len(stream) /\ path[Len(stream)] = to
    BY <1>1, <1>2 DEF Leads
  <2> QED
    BY <1>2, <2>1, <2>2, <2>3
<1>5. ASSUME NEW i \in 1..Len(rest)
      PROVE  less[i] = FocusAfter(less[i - 1], rest[i])
  <2>1. i + 1 \in 1..Len(stream) /\ (i + 1) - 1 = i
    BY <1>2
  <2>2. path[i + 1] = FocusAfter(path[i], stream[i + 1])
    BY <1>1, <2>1 DEF Leads
  <2>3. less[i] = path[i + 1] /\ less[i - 1] = path[i] /\ rest[i] = stream[i + 1]
    BY <1>2
  <2> QED
    BY <2>2, <2>3
<1> HIDE DEF less
<1>6. Leads(less, FocusAfter(from, Head(stream)), rest, to)
  BY <1>4, <1>5 DEF Leads
<1> QED
  BY <1>3, <1>6 DEF rest
-----------------------------------------------------------------------------
(* What the registry finds.                                                *)

\* The one element of a set is an element of it.
LEMMA SoleIsOne == \A set : Sole(set) \in set \cup {None}
<1> SUFFICES ASSUME NEW set, Cardinality(set) = 1
             PROVE  (CHOOSE x \in set : TRUE) \in set
  BY DEF Sole
<1>1. set # {}
  BY FS_EmptySet
<1> QED
  BY <1>1

\* match_window answers a candidate or nothing.
LEMMA MatchIsCandidate ==
    \A rail, info, ws : MatchWindow(rail, info, ws) \in ws \cup {None}
<1> SUFFICES ASSUME NEW rail, NEW info, NEW ws
             PROVE  MatchWindow(rail, info, ws) \in ws \cup {None}
  OBVIOUS
<1> DEFINE several == ByTitle(rail, info, ws)
<1>1. several \subseteq ws
  BY DEF ByTitle
<1>2. /\ Claiming(rail, info, several) \subseteq several
      /\ Unclaimed(info, several) \subseteq several
      /\ ByApp(rail, info, several) \subseteq several
  BY DEF Claiming, Unclaimed, ByApp
<1> HIDE DEF several
<1>3. ByWeston(rail, info, several) \in several \cup {None}
  BY <1>2, SoleIsOne DEF ByWeston
<1>4. Sole(several) \in several \cup {None}
      /\ Sole(ByApp(rail, info, several)) \in several \cup {None}
  BY <1>2, SoleIsOne
<1> QED
  BY <1>1, <1>3, <1>4 DEF MatchWindow, several

\* The events of the backlog are what the daemon may announce.
LEMMA RoutedIsKnown ==
    ASSUME RailTypeOK, NEW kind, Routes(kind)
    PROVE  /\ Head(backlog) \in Events /\ Head(backlog).kind = kind /\ backlog # <<>>
           /\ backlog' = Tail(backlog) /\ backlog' \in Seq(Events)
           /\ pump' \in {"reading", "routing"}
           /\ kind = "FocusChanged" => Routed \in Focuses
           /\ kind \in {"WindowAdded", "WindowRemoved", "TreeUpdated"} => Routed \in Windows
<1>1. backlog \in Seq(Events) /\ backlog # <<>>
  BY DEF RailTypeOK, Routes
<1>2. Head(backlog) \in Events /\ Tail(backlog) \in Seq(Events)
  BY <1>1, HeadTailProperties
<1>3. /\ Head(backlog).kind = kind /\ backlog' = Tail(backlog)
      /\ pump' \in {"reading", "routing"}
  BY DEF Routes
<1>4. /\ kind = "FocusChanged" => Head(backlog).body \in Focuses
      /\ kind \in {"WindowAdded", "WindowRemoved", "TreeUpdated"} => Head(backlog).body \in Windows
  BY <1>2, <1>3 DEF Events
<1> QED
  BY <1>1, <1>2, <1>3, <1>4 DEF Routed

\* What routing an event makes of the focus is where the rest leads from.
LEMMA RoutedLeads ==
    ASSUME RailTypeOK, FocusLeads, NEW kind, Routes(kind),
           focused' = FocusAfter(focused, Head(backlog))
    PROVE  FocusLeads'
<1>1. backlog \in Seq(Events) /\ backlog # <<>> /\ backlog' = Tail(backlog) /\ focus' = focus
  BY DEF RailTypeOK, Routes, daemonVars
<1>2. \E path \in [0..Len(Tail(backlog)) -> Focuses] :
          Leads(path, FocusAfter(focused, Head(backlog)), Tail(backlog), focus)
  BY <1>1, LeadsTail DEF FocusLeads
<1> QED
  BY <1>1, <1>2 DEF FocusLeads

-----------------------------------------------------------------------------
(* The pump reads.                                                         *)

\* An event that arrives changes the client's focus as routing it will.
LEMMA ArrivalPreserves ==
    ASSUME RInv, NEW e \in Events, Arrives(e), unused' \subseteq Windows,
           listed' \subseteq Windows, focus' \in Focuses, focus' = FocusAfter(focus, e)
    PROVE  RInv'
<1> USE DEF Arrives, registryVars, windowVars
<1>1. backlog \in Seq(Events) /\ backlog' = Append(backlog, e) /\ backlog' \in Seq(Events)
  BY AppendProperties DEF RInv, RailTypeOK
<1>2. RailTypeOK'
  BY <1>1 DEF RInv, RailTypeOK
<1>3. BoundOnce' /\ WindowsTrue' /\ BeliefTrue'
  BY DEF RInv, BoundOnce, WindowsTrue, WindowTrue, BeliefTrue, Alive
<1>4. FocusLeads'
  <2>1. \E path \in [0..Len(Append(backlog, e)) -> Focuses] :
            Leads(path, focused, Append(backlog, e), focus')
    BY <1>1, LeadsAppend DEF RInv, RailTypeOK, FocusLeads
  <2> QED
    BY <1>1, <2>1 DEF FocusLeads
<1>5. Offered'
  BY DEF RInv, Offered
<1> QED
  BY <1>2, <1>3, <1>4, <1>5 DEF RInv

\* A new window arrives at the client and has no focus yet.
LEMMA AddedArrivesPreserves ==
    ASSUME RInv, NEW w \in Windows, AddedArrives(w) PROVE RInv'
<1>1. Event("WindowAdded", w) \in Events
  BY DEF Event, Events
<1>2. /\ Arrives(Event("WindowAdded", w)) /\ unused' = unused \ {w}
      /\ listed' = listed \cup {w} /\ focus' = focus
  BY DEF AddedArrives
<1>3. FocusAfter(focus, Event("WindowAdded", w)) = focus
  BY DEF FocusAfter, Event
<1>4. unused' \subseteq Windows /\ listed' \subseteq Windows /\ focus' \in Focuses
  BY <1>2 DEF RInv, RailTypeOK
<1> QED
  BY <1>1, <1>2, <1>3, <1>4, ArrivalPreserves

\* A removed window takes the focus with it.
LEMMA RemovedArrivesPreserves ==
    ASSUME RInv, NEW w \in Windows, RemovedArrives(w) PROVE RInv'
<1>1. Event("WindowRemoved", w) \in Events
  BY DEF Event, Events
<1>2. /\ Arrives(Event("WindowRemoved", w)) /\ unused' = unused
      /\ listed' = listed \ {w} /\ focus' = IF focus = w THEN None ELSE focus
  BY DEF RemovedArrives
<1>3. FocusAfter(focus, Event("WindowRemoved", w)) = IF focus = w THEN None ELSE focus
  BY DEF FocusAfter, Event
<1>4. unused' \subseteq Windows /\ listed' \subseteq Windows /\ focus' \in Focuses
  BY <1>2 DEF RInv, RailTypeOK, Focuses
<1> QED
  BY <1>1, <1>2, <1>3, <1>4, ArrivalPreserves

\* A tree update leaves the focus where it is.
LEMMA UpdateArrivesPreserves ==
    ASSUME RInv, NEW w \in Windows, UpdateArrives(w) PROVE RInv'
<1>1. Event("TreeUpdated", w) \in Events
  BY DEF Event, Events
<1>2. /\ Arrives(Event("TreeUpdated", w)) /\ unused' = unused
      /\ listed' = listed /\ focus' = focus
  BY DEF UpdateArrives, daemonVars
<1>3. FocusAfter(focus, Event("TreeUpdated", w)) = focus
  BY DEF FocusAfter, Event
<1>4. unused' \subseteq Windows /\ listed' \subseteq Windows /\ focus' \in Focuses
  BY <1>2 DEF RInv, RailTypeOK
<1> QED
  BY <1>1, <1>2, <1>3, <1>4, ArrivalPreserves

\* A change of the focus is the focus from then on.
LEMMA FocusArrivesPreserves ==
    ASSUME RInv, NEW f \in Windows \cup {None}, FocusArrives(f) PROVE RInv'
<1>1. Event("FocusChanged", f) \in Events /\ f \in Focuses
  BY DEF Event, Events, Focuses
<1>2. /\ Arrives(Event("FocusChanged", f)) /\ unused' = unused
      /\ listed' = listed /\ focus' = f
  BY DEF FocusArrives
<1>3. FocusAfter(focus, Event("FocusChanged", f)) = f
  BY DEF FocusAfter, Event
<1>4. unused' \subseteq Windows /\ listed' \subseteq Windows
  BY <1>2 DEF RInv, RailTypeOK
<1> QED
  BY <1>1, <1>2, <1>3, <1>4, ArrivalPreserves

\* Nothing is routed yet when the chunk ends.
LEMMA ChunkEndsPreserves ==
    ASSUME RInv, ChunkEnds PROVE RInv'
<1> USE DEF ChunkEnds, daemonVars, registryVars, windowVars
<1>1. RailTypeOK' /\ Offered' /\ FocusLeads'
  BY DEF RInv, RailTypeOK, Offered, FocusLeads
<1>2. BoundOnce' /\ WindowsTrue' /\ BeliefTrue'
  BY DEF RInv, BoundOnce, WindowsTrue, WindowTrue, BeliefTrue, Alive
<1> QED
  BY <1>1, <1>2 DEF RInv
-----------------------------------------------------------------------------
(* The pump routes.                                                        *)

\* Nothing or one message comes behind what is posted.
LEMMA Behind ==
    ASSUME NEW q \in Seq(Messages), NEW m \in Messages
    PROVE  q \o <<>> = q /\ q \o <<m>> = Append(q, m)
BY AppendIsConcat, ConcatEmptySeq

\* What is now known as well is to be offered to every RAIL window without one.
LEMMA RouteAddedPreserves ==
    ASSUME RInv, RouteAdded PROVE RInv'
<1>1. /\ Routes("WindowAdded") /\ sweep = {}
      /\ UNCHANGED <<bound, attached, focused, frame, adapter, hostFocus, posted, tried, freed,
                     unused, listed, focus, hooked>>
  BY DEF RouteAdded, Routes, windowVars, daemonVars
<1>2. /\ Head(backlog).kind = "WindowAdded" /\ backlog' \in Seq(Events)
      /\ pump' \in {"reading", "routing"} /\ Routed \in Windows
  BY <1>1, RoutedIsKnown DEF RInv
<1>3. known \subseteq known' /\ known' \subseteq Windows
      /\ sweep' \subseteq Hwnds
  BY <1>1, <1>2 DEF RouteAdded, RInv, RailTypeOK
<1>4. RailTypeOK'
  BY <1>1, <1>2, <1>3 DEF RInv, RailTypeOK
<1>5. BoundOnce' /\ WindowsTrue' /\ BeliefTrue'
  BY <1>1, <1>3 DEF RInv, BoundOnce, WindowsTrue, WindowTrue, BeliefTrue, Alive
<1>6. FocusLeads'
  <2>1. FocusAfter(focused, Head(backlog)) = focused
    BY <1>2 DEF FocusAfter
  <2> QED
    BY <1>1, <2>1, RoutedLeads DEF RInv
<1>7. Offered'
  <2> SUFFICES ASSUME hooked, NEW h \in Hwnds, frame[h] = "titled", h \notin freed
               PROVE  h \in sweep' \/ Unbound(known', bound) \subseteq tried[h]
    BY <1>1 DEF Offered
  <2>1. CASE Routed \in listed
    <3>1. h \notin attached
      BY DEF RInv, BoundOnce
    <3> QED
      BY <2>1, <3>1 DEF RouteAdded
  <2>2. CASE Routed \notin listed
    <3>1. known' = known
      BY <2>2 DEF RouteAdded
    <3> QED
      BY <1>1, <3>1 DEF RInv, Offered
  <2> QED
    BY <2>1, <2>2
<1> QED
  BY <1>4, <1>5, <1>6, <1>7 DEF RInv

\* A window the registry lets go is told to detach.
LEMMA RouteRemovedPreserves ==
    ASSUME RInv, RouteRemoved PROVE RInv'
<1> DEFINE gone == Routed
           host == bound[gone]
<1>1. /\ Routes("WindowRemoved") /\ known' = known \ {gone}
      /\ focused' = IF focused = gone THEN None ELSE focused
      /\ bound' = [bound EXCEPT ![gone] = None] /\ attached' = attached \ {host}
      /\ IF host # None THEN Posting(To(host, <<Detach>>)) ELSE UNCHANGED posted
      /\ UNCHANGED <<sweep, frame, adapter, hostFocus, tried, freed, unused, listed, focus, hooked>>
  BY DEF RouteRemoved, Routes, daemonVars
<1>2. /\ Head(backlog).kind = "WindowRemoved" /\ backlog' \in Seq(Events)
      /\ pump' \in {"reading", "routing"} /\ gone \in Windows
      /\ gone = Head(backlog).body
  BY <1>1, RoutedIsKnown DEF RInv, Routed
<1> HIDE DEF gone
<1>3. RailTypeOK /\ BoundOnce /\ WindowsTrue /\ BeliefTrue /\ FocusLeads /\ Offered
  BY DEF RInv
<1>4. /\ host \in Hwnds \cup {None}
      /\ \A w \in Windows : bound[w] \in Hwnds \cup {None}
      /\ \A w \in Windows : bound'[w] = IF w = gone THEN None ELSE bound[w]
      /\ host # None => host \in attached
  BY <1>1, <1>2, <1>3 DEF RailTypeOK, BoundOnce
<1>5. ASSUME NEW h \in Hwnds
      PROVE  /\ posted[h] \in Seq(Messages)
             /\ h = host /\ Alive(h) => posted'[h] = Append(posted[h], Detach)
             /\ ~(h = host /\ Alive(h)) => posted'[h] = posted[h]
             /\ posted' \in [Hwnds -> Seq(Messages)]
  <2>1. \A g \in Hwnds : posted[g] \in Seq(Messages)
    BY <1>3 DEF RailTypeOK
  <2>2. Detach \in Messages
    BY DEF Messages
  <2>3. CASE host = None
    BY <1>1, <1>3, <2>1, <2>3, RailAssumption DEF RailTypeOK
  <2>4. CASE host # None
    <3>1. posted' = [g \in Hwnds |-> posted[g] \o IF Alive(g) THEN To(host, <<Detach>>)[g] ELSE <<>>]
      BY <1>1, <2>4 DEF Posting
    <3>2. \A g \in Hwnds : To(host, <<Detach>>)[g] = IF g = host THEN <<Detach>> ELSE <<>>
      BY DEF To
    <3>3. \A g \in Hwnds : /\ posted[g] \o <<>> = posted[g]
                           /\ posted[g] \o <<Detach>> = Append(posted[g], Detach)
                           /\ Append(posted[g], Detach) \in Seq(Messages)
      BY <2>1, <2>2, Behind, AppendProperties
    <3>4. \A g \in Hwnds : posted'[g] = IF g = host /\ Alive(g) THEN Append(posted[g], Detach)
                                                                 ELSE posted[g]
      BY <3>1, <3>2, <3>3
    <3>5. posted' \in [Hwnds -> Seq(Messages)]
      <4> DEFINE after(g) == posted[g] \o IF Alive(g) THEN To(host, <<Detach>>)[g] ELSE <<>>
      <4>1. \A g \in Hwnds : after(g) \in Seq(Messages)
        BY <2>1, <3>2, <3>3
      <4>2. posted' = [g \in Hwnds |-> after(g)]
        BY <3>1
      <4> HIDE DEF after
      <4> QED
        BY <4>1, <4>2
    <3> QED
      BY <2>1, <3>4, <3>5
  <2> QED
    BY <2>3, <2>4
<1>6. RailTypeOK'
  <2>1. posted' \in [Hwnds -> Seq(Messages)]
    <3>1. CASE Hwnds = {}
      BY <1>1, <1>3, <1>4, <3>1 DEF RailTypeOK
    <3>2. CASE Hwnds # {}
      BY <1>5, <3>2
    <3> QED
      BY <3>1, <3>2
  <2>2. focused' \in Focuses /\ bound' \in [Windows -> Hwnds \cup {None}]
    BY <1>1, <1>2, <1>3 DEF RailTypeOK, Focuses
  <2> QED
    BY <1>1, <1>2, <1>3, <2>1, <2>2 DEF RailTypeOK
<1>7. BoundOnce'
  <2>1. attached' = {bound'[w] : w \in Windows} \ {None}
    BY <1>1, <1>2, <1>3, <1>4 DEF BoundOnce
  <2>2. \A w \in Windows : bound'[w] # None => w \in known'
    BY <1>1, <1>3, <1>4 DEF BoundOnce
  <2>3. \A w, v \in Windows : bound'[w] # None /\ bound'[w] = bound'[v] => w = v
    BY <1>3, <1>4 DEF BoundOnce
  <2> QED
    BY <1>1, <1>3, <2>1, <2>2, <2>3 DEF BoundOnce
<1>8. WindowsTrue'
  <2>1. ASSUME NEW h \in Hwnds PROVE WindowTrue(h)'
    <3>1. WindowTrue(h)
      BY <1>3 DEF WindowsTrue
    <3>2. CASE h = host /\ Alive(h)
      <4>1. h \in attached /\ h \notin attached' /\ adapter[h] = gone /\ gone # None
        BY <1>1, <1>2, <1>3, <1>4, <3>2, RailAssumption DEF WindowsTrue
      <4>2. QueueTrue(posted[h], adapter[h], FALSE)
        BY <3>1, <4>1 DEF WindowTrue
      <4>3. Detach \in Messages /\ Detach.kind # "Delta"
        BY DEF Messages, Detach, Event
      <4>4. QueueTrue(Append(posted[h], Detach), adapter[h], TRUE)
            /\ Leaving(Append(posted[h], Detach))
        BY <1>5, <4>1, <4>2, <4>3, QueueAppend
      <4> QED
        BY <1>1, <1>5, <3>1, <3>2, <4>1, <4>4 DEF WindowTrue, Alive
    <3>3. CASE h = host /\ ~Alive(h)
      <4>1. adapter[h] = None /\ posted[h] = <<>> /\ posted'[h] = <<>> /\ h \notin attached'
        BY <1>1, <1>5, <3>1, <3>3 DEF WindowTrue, QueueTrue
      <4>2. QueueTrue(<<>>, None, TRUE)
        BY EmptySeq DEF QueueTrue
      <4> QED
        BY <1>1, <3>1, <4>1, <4>2 DEF WindowTrue
    <3>4. CASE h # host
      <4>1. posted'[h] = posted[h] /\ (h \in attached' <=> h \in attached)
        BY <1>1, <1>5, <3>4
      <4> QED
        BY <1>1, <3>1, <4>1 DEF WindowTrue, Alive
    <3> QED
      BY <3>2, <3>3, <3>4
  <2>2. \A w \in Windows : bound'[w] # None /\ Alive(bound[w])' => adapter'[bound'[w]] = w
    BY <1>1, <1>3, <1>4 DEF WindowsTrue, Alive
  <2> QED
    BY <2>1, <2>2 DEF WindowsTrue
<1>9. BeliefTrue'
  <2> SUFFICES ASSUME NEW w \in Windows, bound'[w] # None, Alive(bound[w])'
               PROVE  WillBelieve(posted'[bound'[w]], hostFocus'[bound'[w]], focused' = w)
    BY DEF BeliefTrue
  <2>1. w # gone /\ bound'[w] = bound[w] /\ bound[w] # None /\ Alive(bound[w])
    BY <1>1, <1>4 DEF Alive
  <2>2. bound[w] \in Hwnds /\ bound[w] # host
    BY <1>2, <1>3, <1>4, <2>1 DEF BoundOnce
  <2>3. posted'[bound[w]] = posted[bound[w]] /\ hostFocus' = hostFocus
    BY <1>1, <1>5, <2>2
  <2>4. (focused' = w) = (focused = w)
    BY <1>1, <2>1, RailAssumption
  <2> QED
    BY <1>3, <2>1, <2>3, <2>4 DEF BeliefTrue
<1>10. FocusLeads'
  <2>1. FocusAfter(focused, Head(backlog)) = focused'
    BY <1>1, <1>2 DEF FocusAfter
  <2> QED
    BY <1>1, <1>3, <2>1, RoutedLeads
<1>11. Offered'
  <2>1. Unbound(known', bound') \subseteq Unbound(known, bound)
    BY <1>1, <1>3, <1>4 DEF Unbound, RailTypeOK
  <2> QED
    BY <1>1, <1>3, <2>1 DEF Offered
<1> QED
  BY <1>6, <1>7, <1>8, <1>9, <1>10, <1>11 DEF RInv

(* A delta or a word of the focus, posted to windows that the registry     *)
(* holds attached, keeps what is true of the windows.                      *)
LEMMA PostingKeeps ==
    ASSUME RInv, NEW mail, Posting(mail),
           \A h \in Hwnds : mail[h] # <<>> =>
               /\ h \in attached
               /\ \E m \in Messages :
                     /\ mail[h] = <<m>> /\ m # Detach
                     /\ m.kind = "Delta" /\ Alive(h) => adapter[h] = m.body,
           UNCHANGED <<bound, attached, frame, adapter, freed>>
    PROVE  /\ posted' \in [Hwnds -> Seq(Messages)] /\ WindowsTrue'
           /\ \A h \in Hwnds : posted[h] \in Seq(Messages)
           /\ \A h \in Hwnds : mail[h] = <<>> => posted'[h] = posted[h]
           /\ \A h \in Hwnds : Alive(h) => \A m \in Messages :
                 mail[h] = <<m>> => posted'[h] = Append(posted[h], m)
<1>1. \A h \in Hwnds : posted[h] \in Seq(Messages)
  BY DEF RInv, RailTypeOK
<1>2. posted' = [h \in Hwnds |-> posted[h] \o IF Alive(h) THEN mail[h] ELSE <<>>]
  BY DEF Posting
<1>3. \A h \in Hwnds : /\ posted[h] \o <<>> = posted[h]
                       /\ \A m \in Messages : posted[h] \o <<m>> = Append(posted[h], m)
                       /\ \A m \in Messages : Append(posted[h], m) \in Seq(Messages)
  BY <1>1, Behind, AppendProperties
<1>4. \A h \in Hwnds : /\ mail[h] = <<>> \/ ~Alive(h) => posted'[h] = posted[h]
                       /\ Alive(h) => \A m \in Messages :
                             mail[h] = <<m>> => posted'[h] = Append(posted[h], m)
  BY <1>2, <1>3
<1>5. posted' \in [Hwnds -> Seq(Messages)]
  <2> DEFINE after(h) == posted[h] \o IF Alive(h) THEN mail[h] ELSE <<>>
  <2>1. \A h \in Hwnds : after(h) \in Seq(Messages)
    BY <1>1, <1>3
  <2>2. posted' = [h \in Hwnds |-> after(h)]
    BY <1>2
  <2> HIDE DEF after
  <2> QED
    BY <2>1, <2>2
<1>6. ASSUME NEW h \in Hwnds PROVE WindowTrue(h)'
  <2>1. WindowTrue(h)
    BY DEF RInv, WindowsTrue
  <2>2. CASE mail[h] = <<>> \/ ~Alive(h)
    <3>1. posted'[h] = posted[h]
      BY <1>4, <2>2
    <3> QED
      BY <2>1, <3>1 DEF WindowTrue, Alive
  <2>3. CASE mail[h] # <<>> /\ Alive(h)
    <3>1. PICK m \in Messages : /\ mail[h] = <<m>> /\ m # Detach /\ h \in attached
                                /\ m.kind = "Delta" => adapter[h] = m.body
      BY <2>3
    <3>2. PICK w \in Windows : bound[w] = h /\ bound[w] # None
      BY <3>1, RailAssumption DEF RInv, BoundOnce
    <3>3. adapter[h] = w /\ adapter[h] # None
      BY <2>3, <3>2, RailAssumption DEF RInv, WindowsTrue
    <3>4. QueueTrue(posted[h], adapter[h], FALSE)
      BY <2>1, <3>1 DEF WindowTrue
    <3>5. QueueTrue(Append(posted[h], m), adapter[h], FALSE)
      BY <1>1, <3>1, <3>3, <3>4, QueueAppend
    <3>6. posted'[h] = Append(posted[h], m)
      BY <1>4, <2>3, <3>1
    <3>7. /\ h \in attached' /\ adapter' = adapter /\ Alive(h)' /\ freed' = freed
          /\ frame' = frame
      BY <2>3, <3>1 DEF Alive
    <3> QED
      BY <2>1, <3>1, <3>5, <3>6, <3>7 DEF WindowTrue
  <2> QED
    BY <2>2, <2>3
<1>7. \A w \in Windows : bound[w]' # None /\ Alive(bound[w])' => adapter[bound[w]]' = w
  BY DEF RInv, WindowsTrue, Alive
<1> QED
  BY <1>1, <1>4, <1>5, <1>6, <1>7 DEF WindowsTrue

\* The delta goes to the RAIL window that carries the adapter.
LEMMA RouteUpdatePreserves ==
    ASSUME RInv, RouteUpdate PROVE RInv'
<1> DEFINE host == bound[Routed]
           mail == To(host, <<Event("Delta", Routed)>>)
<1>1. /\ Routes("TreeUpdated")
      /\ IF host # None THEN Posting(mail) ELSE posted' = posted
      /\ UNCHANGED <<sweep, known, bound, attached, focused, frame, adapter, hostFocus, tried, freed,
                     unused, listed, focus, hooked>>
  BY DEF RouteUpdate, Routes, daemonVars, registryVars
<1>2. /\ Head(backlog).kind = "TreeUpdated" /\ backlog' \in Seq(Events)
      /\ pump' \in {"reading", "routing"} /\ Routed \in Windows
  BY <1>1, RoutedIsKnown DEF RInv
<1>3. RailTypeOK /\ BoundOnce /\ WindowsTrue /\ BeliefTrue /\ FocusLeads /\ Offered
  BY DEF RInv
<1>4. BoundOnce' /\ Offered'
  BY <1>1, <1>3 DEF BoundOnce, Offered
<1>5. FocusLeads'
  <2>1. FocusAfter(focused, Head(backlog)) = focused
    BY <1>2 DEF FocusAfter
  <2> QED
    BY <1>1, <1>3, <2>1, RoutedLeads
<1>6. CASE host = None
  <2>1. RailTypeOK' /\ WindowsTrue' /\ BeliefTrue'
    BY <1>1, <1>2, <1>3, <1>6 DEF RailTypeOK, WindowsTrue, WindowTrue, BeliefTrue, Alive
  <2> QED
    BY <1>4, <1>5, <2>1 DEF RInv
<1>7. CASE host # None
  <2> DEFINE delta == Event("Delta", Routed)
  <2>1. delta \in Messages /\ delta # Detach /\ delta.kind = "Delta" /\ delta.body = Routed
    BY <1>2 DEF Messages, Detach, Event
  <2>2. host \in Hwnds /\ host \in attached
    BY <1>2, <1>3, <1>7 DEF RailTypeOK, BoundOnce
  <2>3. \A h \in Hwnds : mail[h] = IF h = host THEN <<delta>> ELSE <<>>
    BY DEF To
  <2>4. Alive(host) => adapter[host] = Routed
    BY <1>2, <1>3, <1>7 DEF WindowsTrue
  <2> HIDE DEF delta, mail
  <2>5. /\ posted' \in [Hwnds -> Seq(Messages)] /\ WindowsTrue'
        /\ \A h \in Hwnds : posted[h] \in Seq(Messages)
        /\ \A h \in Hwnds : mail[h] = <<>> => posted'[h] = posted[h]
        /\ \A h \in Hwnds : Alive(h) => \A m \in Messages :
              mail[h] = <<m>> => posted'[h] = Append(posted[h], m)
    BY <1>1, <1>7, <2>1, <2>2, <2>3, <2>4, PostingKeeps
  <2>6. RailTypeOK'
    BY <1>1, <1>2, <1>3, <2>5 DEF RailTypeOK
  <2>7. BeliefTrue'
    <3> SUFFICES ASSUME NEW w \in Windows, bound[w] # None, Alive(bound[w])
                 PROVE  WillBelieve(posted'[bound[w]], hostFocus[bound[w]], focused = w)
      BY <1>1 DEF BeliefTrue, Alive
    <3>1. bound[w] \in Hwnds
      BY <1>3 DEF RailTypeOK
    <3>2. WillBelieve(posted[bound[w]], hostFocus[bound[w]], focused = w)
      BY <1>3 DEF BeliefTrue
    <3>3. posted'[bound[w]] \in {posted[bound[w]], Append(posted[bound[w]], delta)}
      BY <2>1, <2>3, <2>5, <3>1
    <3>4. delta.kind # "Focus"
      BY <2>1
    <3>5. WillBelieve(Append(posted[bound[w]], delta), hostFocus[bound[w]], focused = w)
      BY <2>1, <2>5, <3>1, <3>2, <3>4, BelieveAppend
    <3> QED
      BY <3>2, <3>3, <3>5
  <2> QED
    BY <1>4, <1>5, <2>5, <2>6, <2>7 DEF RInv
<1> QED
  BY <1>6, <1>7

\* The window losing the focus and the one getting it are not the same.
LEMMA RouteFocusPreserves ==
    ASSUME RInv, RouteFocus PROVE RInv'
<1> DEFINE mail == [h \in Hwnds |->
                (IF BoundTo(focused) = h THEN <<Event("Focus", FALSE)>> ELSE <<>>)
                \o (IF BoundTo(Routed) = h THEN <<Event("Focus", TRUE)>> ELSE <<>>)]
           off == Event("Focus", FALSE)
           on == Event("Focus", TRUE)
<1>1. /\ Routes("FocusChanged") /\ focused' = Routed
      /\ IF Routed = focused THEN posted' = posted ELSE Posting(mail)
      /\ UNCHANGED <<sweep, known, bound, attached, frame, adapter, hostFocus, tried, freed,
                     unused, listed, focus, hooked>>
  BY DEF RouteFocus, Routes, daemonVars
<1>2. /\ Head(backlog).kind = "FocusChanged" /\ Head(backlog).body = Routed
      /\ backlog' \in Seq(Events) /\ pump' \in {"reading", "routing"} /\ Routed \in Focuses
  BY <1>1, RoutedIsKnown DEF RInv, Routed
<1>3. RailTypeOK /\ BoundOnce /\ WindowsTrue /\ BeliefTrue /\ FocusLeads /\ Offered
  BY DEF RInv
<1>4. BoundOnce' /\ Offered'
  BY <1>1, <1>3 DEF BoundOnce, Offered
<1>5. FocusLeads'
  <2>1. FocusAfter(focused, Head(backlog)) = focused'
    BY <1>1, <1>2 DEF FocusAfter
  <2> QED
    BY <1>1, <1>3, <2>1, RoutedLeads
<1>6. CASE Routed = focused
  <2>1. focused' = focused /\ posted' = posted
    BY <1>1, <1>6
  <2>2. RailTypeOK' /\ WindowsTrue' /\ BeliefTrue'
    BY <1>1, <1>2, <1>3, <2>1 DEF RailTypeOK, WindowsTrue, WindowTrue, BeliefTrue, Alive
  <2> QED
    BY <1>4, <1>5, <2>2 DEF RInv
<1>7. CASE Routed # focused
  <2>1. /\ off \in Messages /\ off # Detach /\ off.kind = "Focus" /\ off.body = FALSE
        /\ on \in Messages /\ on # Detach /\ on.kind = "Focus" /\ on.body = TRUE
    BY DEF Messages, Detach, Event
  <2>2. /\ focused \in Focuses
        /\ \A w \in Windows : bound[w] \in Hwnds \cup {None}
        /\ \A w \in Windows : BoundTo(w) = bound[w]
        /\ BoundTo(None) = None
    BY <1>3, RailAssumption DEF RailTypeOK, BoundTo
  <2>3. \A h \in Hwnds : ~(BoundTo(focused) = h /\ BoundTo(Routed) = h)
    BY <1>2, <1>3, <1>7, <2>2, RailAssumption DEF BoundOnce, Focuses
  <2>4. \A h \in Hwnds : \A f \in Focuses : BoundTo(f) = h => h \in attached /\ f \in Windows
    BY <1>3, <2>2, RailAssumption DEF BoundOnce, Focuses
  <2> HIDE DEF off, on
  <2>5. ASSUME NEW h \in Hwnds
        PROVE  /\ BoundTo(focused) = h => mail[h] = <<off>>
               /\ BoundTo(Routed) = h => mail[h] = <<on>>
               /\ BoundTo(focused) # h /\ BoundTo(Routed) # h => mail[h] = <<>>
    <3>1. mail[h] = (IF BoundTo(focused) = h THEN <<off>> ELSE <<>>)
                      \o (IF BoundTo(Routed) = h THEN <<on>> ELSE <<>>)
      BY DEF off, on
    <3>2. <<off>> \in Seq(Messages) /\ <<on>> \in Seq(Messages) /\ <<>> \in Seq(Messages)
      BY <2>1
    <3>3. /\ <<>> \o <<on>> = <<on>> /\ <<off>> \o <<>> = <<off>> /\ <<>> \o <<>> = <<>>
      BY <3>2, ConcatEmptySeq
    <3> HIDE DEF mail
    <3> QED
      BY <2>3, <3>1, <3>3
  <2>6. \A h \in Hwnds : mail[h] # <<>> =>
               /\ h \in attached
               /\ \E m \in Messages :
                     /\ mail[h] = <<m>> /\ m # Detach
                     /\ m.kind = "Delta" /\ Alive(h) => adapter[h] = m.body
    <3> HIDE DEF mail
    <3> QED
      BY <1>2, <2>1, <2>2, <2>4, <2>5
  <2> HIDE DEF mail
  <2>7. Posting(mail) /\ UNCHANGED <<bound, attached, frame, adapter, freed>>
    BY <1>1, <1>7
  <2>8. /\ posted' \in [Hwnds -> Seq(Messages)] /\ WindowsTrue'
        /\ \A h \in Hwnds : posted[h] \in Seq(Messages)
        /\ \A h \in Hwnds : mail[h] = <<>> => posted'[h] = posted[h]
        /\ \A h \in Hwnds : Alive(h) => \A m \in Messages :
              mail[h] = <<m>> => posted'[h] = Append(posted[h], m)
    BY <2>6, <2>7, PostingKeeps
  <2>9. RailTypeOK'
    BY <1>1, <1>2, <1>3, <2>8 DEF RailTypeOK
  <2>10. BeliefTrue'
    <3> SUFFICES ASSUME NEW w \in Windows, bound[w] # None, Alive(bound[w])
                 PROVE  WillBelieve(posted'[bound[w]], hostFocus[bound[w]], Routed = w)
      BY <1>1 DEF BeliefTrue, Alive
    <3>1. bound[w] \in Hwnds /\ BoundTo(w) = bound[w] /\ w # None
      BY <2>2, RailAssumption
    <3>2. CASE w = Routed
      <4>1. posted'[bound[w]] = Append(posted[bound[w]], on)
        BY <2>1, <2>5, <2>8, <3>1, <3>2
      <4>2. WillBelieve(Append(posted[bound[w]], on), hostFocus[bound[w]], TRUE)
        BY <2>1, <2>8, <3>1, BelieveAppend
      <4>3. (Routed = w) = TRUE
        BY <3>2
      <4> QED
        BY <4>1, <4>2, <4>3
    <3>3. CASE w = focused
      <4>1. posted'[bound[w]] = Append(posted[bound[w]], off)
        BY <2>1, <2>5, <2>8, <3>1, <3>3
      <4>2. WillBelieve(Append(posted[bound[w]], off), hostFocus[bound[w]], FALSE)
        BY <2>1, <2>8, <3>1, BelieveAppend
      <4>3. (Routed = w) = FALSE
        BY <1>7, <3>3
      <4> QED
        BY <4>1, <4>2, <4>3
    <3>4. CASE w # Routed /\ w # focused
      <4>1. BoundTo(focused) # bound[w] /\ BoundTo(Routed) # bound[w]
        BY <1>2, <1>3, <2>2, <3>1, <3>4 DEF BoundOnce, Focuses
      <4>2. posted'[bound[w]] = posted[bound[w]]
        BY <2>5, <2>8, <3>1, <4>1
      <4>3. WillBelieve(posted[bound[w]], hostFocus[bound[w]], focused = w)
        BY <1>3 DEF BeliefTrue
      <4>4. (Routed = w) = (focused = w)
        BY <3>4
      <4> QED
        BY <4>2, <4>3, <4>4
    <3> QED
      BY <3>2, <3>3, <3>4
  <2> QED
    BY <1>4, <1>5, <2>8, <2>9, <2>10 DEF RInv
<1> QED
  BY <1>6, <1>7

-----------------------------------------------------------------------------
(* The windows' own threads.                                               *)

(* An attach binds a RAIL window that has nothing posted to it, and takes  *)
(* none of what was offered away from another.                             *)
LEMMA AttachKeeps ==
    ASSUME RInv, NEW h \in Hwnds, TryAttach(h), frame' \in [Hwnds -> {"absent", "untitled", "titled", "gone"}],
           \A g \in Hwnds : (frame[g] = "absent" <=> frame'[g] = "absent") /\ (Alive(g)' <=> Alive(g)),
           Alive(h)
    PROVE  /\ bound' \in [Windows -> Hwnds \cup {None}] /\ attached' \subseteq Hwnds
           /\ adapter' \in [Hwnds -> Windows \cup {Stale, None}]
           /\ hostFocus' \in [Hwnds -> BOOLEAN] /\ freed' \subseteq Hwnds
           /\ tried' \in [Hwnds -> SUBSET Windows]
           /\ BoundOnce' /\ WindowsTrue' /\ BeliefTrue'
           /\ freed \subseteq freed' /\ Unbound(known', bound') \subseteq Unbound(known, bound)
           /\ \A g \in Hwnds : g # h => tried'[g] = tried[g]
           /\ hooked /\ h \notin freed => tried'[h] = known
<1> DEFINE w == MatchWindow(Frames[h], Info, Candidates)
<1>1. known' = known /\ focused' = focused /\ posted' = posted
  BY DEF TryAttach
<1>2. RailTypeOK /\ BoundOnce /\ WindowsTrue /\ BeliefTrue
  BY DEF RInv
<1>3. w \in Candidates \cup {None}
  BY MatchIsCandidate
<1> HIDE DEF w
<1>4. ASSUME UNCHANGED <<bound, attached, adapter, hostFocus, freed>>
      PROVE  BoundOnce' /\ WindowsTrue' /\ BeliefTrue'
  <2>1. BoundOnce'
    BY <1>1, <1>2, <1>4 DEF BoundOnce
  <2>2. ASSUME NEW g \in Hwnds PROVE WindowTrue(g)'
    <3>1. WindowTrue(g) /\ (frame[g] = "absent" <=> frame'[g] = "absent") /\ (Alive(g)' <=> Alive(g))
      BY <1>2 DEF WindowsTrue
    <3> QED
      BY <1>1, <1>4, <3>1 DEF WindowTrue
  <2>3. \A v \in Windows : bound[v] # None => bound[v] \in Hwnds
    BY <1>2 DEF RailTypeOK
  <2>4. \A v \in Windows : bound[v]' # None /\ Alive(bound[v])' => Alive(bound[v]) /\ bound' = bound
    BY <1>4, <2>3 DEF Alive
  <2> QED
    BY <1>1, <1>2, <1>4, <2>1, <2>2, <2>4 DEF WindowsTrue, BeliefTrue
<1>5. CASE hooked /\ h \notin attached /\ w # None /\ adapter[h] = None
  <2>1. /\ bound' = [bound EXCEPT ![w] = h] /\ attached' = attached \cup {h}
        /\ adapter' = [adapter EXCEPT ![h] = w]
        /\ hostFocus' = [hostFocus EXCEPT ![h] = (focused = w)]
        /\ freed' = freed \cup {h} /\ tried' = [tried EXCEPT ![h] = known]
    BY <1>5 DEF TryAttach, Binds, w
  <2>2. w \in Windows /\ w \in known /\ bound[w] = None
    BY <1>2, <1>3, <1>5 DEF Candidates, Unbound, RailTypeOK
  <2>3. \A v \in Windows : bound[v] # h /\ bound[v] \in Hwnds \cup {None}
    BY <1>2, <1>5, RailAssumption DEF BoundOnce, RailTypeOK
  <2>4. \A v \in Windows : bound'[v] = IF v = w THEN h ELSE bound[v]
    BY <1>2, <2>1, <2>2 DEF RailTypeOK
  <2>5. posted[h] = <<>>
    BY <1>2, <1>5 DEF WindowsTrue, WindowTrue, QueueTrue
  <2>6. /\ bound' \in [Windows -> Hwnds \cup {None}] /\ attached' \subseteq Hwnds
        /\ adapter' \in [Hwnds -> Windows \cup {Stale, None}]
        /\ hostFocus' \in [Hwnds -> BOOLEAN] /\ freed' \subseteq Hwnds
        /\ tried' \in [Hwnds -> SUBSET Windows]
        /\ \A g \in Hwnds : g # h => tried'[g] = tried[g]
        /\ tried'[h] = known
    BY <1>2, <2>1, <2>2 DEF RailTypeOK
  <2>7. BoundOnce'
    <3>1. attached' = {bound'[v] : v \in Windows} \ {None}
      BY <1>2, <2>1, <2>2, <2>4, RailAssumption DEF BoundOnce
    <3>2. \A v, u \in Windows : bound'[v] # None /\ bound'[v] = bound'[u] => v = u
      BY <1>2, <2>3, <2>4 DEF BoundOnce
    <3>3. \A v \in Windows : bound'[v] # None => v \in known'
      BY <1>1, <1>2, <2>2, <2>4 DEF BoundOnce
    <3>4. attached' \subseteq freed'
      BY <1>2, <2>1 DEF BoundOnce
    <3> QED
      BY <3>1, <3>2, <3>3, <3>4 DEF BoundOnce
  <2>8. ASSUME NEW g \in Hwnds PROVE WindowTrue(g)'
    <3>1. WindowTrue(g) /\ (frame[g] = "absent" <=> frame'[g] = "absent") /\ (Alive(g)' <=> Alive(g))
      BY <1>2 DEF WindowsTrue
    <3>2. CASE g = h
      <4>1. /\ Alive(g)' /\ frame'[g] # "absent" /\ posted'[g] = <<>> /\ g \in attached'
        BY <1>1, <2>1, <2>5, <3>1, <3>2 DEF Alive
      <4>2. QueueTrue(<<>>, adapter'[g], FALSE)
        BY EmptySeq DEF QueueTrue
      <4> QED
        BY <4>1, <4>2 DEF WindowTrue
    <3>3. CASE g # h
      <4>1. /\ adapter'[g] = adapter[g] /\ posted'[g] = posted[g] /\ (g \in freed' <=> g \in freed)
            /\ (g \in attached' <=> g \in attached)
        BY <1>1, <1>2, <2>1, <3>3 DEF RailTypeOK
      <4> QED
        BY <3>1, <4>1 DEF WindowTrue
    <3> QED
      BY <3>2, <3>3
  <2>9. ASSUME NEW v \in Windows, bound'[v] # None, Alive(bound[v])'
        PROVE  adapter'[bound'[v]] = v
               /\ WillBelieve(posted'[bound'[v]], hostFocus'[bound'[v]], focused' = v)
    <3>1. CASE v = w
      <4>1. adapter'[h] = w /\ bound'[v] = h /\ hostFocus'[h] = (focused = w)
        BY <1>2, <2>1, <2>4, <3>1 DEF RailTypeOK
      <4>2. Untold(<<>>)
        BY EmptySeq DEF Untold
      <4> QED
        BY <1>1, <2>5, <3>1, <4>1, <4>2 DEF WillBelieve
    <3>2. CASE v # w
      <4>1. bound'[v] = bound[v] /\ bound[v] # h /\ bound[v] \in Hwnds /\ bound[v] # None
        BY <2>3, <2>4, <2>9, <3>2
      <4>2. Alive(bound[v])
        BY <2>9, <4>1 DEF Alive
      <4>3. adapter[bound[v]] = v
            /\ WillBelieve(posted[bound[v]], hostFocus[bound[v]], focused = v)
        BY <1>2, <4>1, <4>2 DEF WindowsTrue, BeliefTrue
      <4>4. adapter'[bound[v]] = adapter[bound[v]] /\ hostFocus'[bound[v]] = hostFocus[bound[v]]
        BY <1>2, <2>1, <4>1 DEF RailTypeOK
      <4> QED
        BY <1>1, <4>1, <4>3, <4>4
    <3> QED
      BY <3>1, <3>2
  <2>10. Unbound(known', bound') \subseteq Unbound(known, bound)
    BY <1>1, <1>2, <2>4, <2>2, RailAssumption DEF Unbound, RailTypeOK
  <2> QED
    BY <2>1, <2>6, <2>7, <2>8, <2>9, <2>10 DEF WindowsTrue, BeliefTrue
<1>6. CASE hooked /\ h \notin attached /\ ~(w # None /\ adapter[h] = None)
  <2>1. /\ UNCHANGED <<bound, attached, adapter, hostFocus, freed>>
        /\ tried' = [tried EXCEPT ![h] = known]
    BY <1>6 DEF TryAttach, Binds, w
  <2>2. /\ tried' \in [Hwnds -> SUBSET Windows] /\ tried'[h] = known
        /\ \A g \in Hwnds : g # h => tried'[g] = tried[g]
    BY <1>2, <2>1 DEF RailTypeOK
  <2> QED
    BY <1>1, <1>2, <1>4, <2>1, <2>2 DEF RailTypeOK
<1>7. CASE ~(hooked /\ h \notin attached)
  <2>1. UNCHANGED <<bound, attached, adapter, hostFocus, freed, tried>>
    BY <1>7 DEF TryAttach
  <2>2. h \in freed \/ ~hooked
    BY <1>2, <1>7 DEF BoundOnce
  <2> QED
    BY <1>1, <1>2, <1>4, <2>1, <2>2 DEF RailTypeOK
<1> QED
  BY <1>5, <1>6, <1>7

\* A RAIL window that was nudged has been offered what is known.
LEMMA NudgePreserves ==
    ASSUME RInv, NEW h \in Hwnds, Nudge(h) PROVE RInv'
<1>1. /\ sweep' = sweep \ {h}
      /\ UNCHANGED <<unused, listed, focus, pump, backlog, hooked, frame, known, focused, posted>>
  BY DEF Nudge, TryAttach, daemonVars, registryVars
<1>2. FocusLeads'
  BY <1>1 DEF RInv, FocusLeads
<1>3. CASE Alive(h)
  <2>1. TryAttach(h)
    BY <1>3 DEF Nudge
  <2>2. frame' \in [Hwnds -> {"absent", "untitled", "titled", "gone"}]
    BY <1>1 DEF RInv, RailTypeOK
  <2>3. \A g \in Hwnds : (frame[g] = "absent" <=> frame'[g] = "absent") /\ (Alive(g)' <=> Alive(g))
    BY <1>1 DEF Alive
  <2>4. /\ bound' \in [Windows -> Hwnds \cup {None}] /\ attached' \subseteq Hwnds
        /\ adapter' \in [Hwnds -> Windows \cup {Stale, None}]
        /\ hostFocus' \in [Hwnds -> BOOLEAN] /\ freed' \subseteq Hwnds
        /\ tried' \in [Hwnds -> SUBSET Windows]
        /\ BoundOnce' /\ WindowsTrue' /\ BeliefTrue'
        /\ freed \subseteq freed' /\ Unbound(known', bound') \subseteq Unbound(known, bound)
        /\ \A g \in Hwnds : g # h => tried'[g] = tried[g]
        /\ hooked /\ h \notin freed => tried'[h] = known
    BY <1>3, <2>1, <2>2, <2>3, AttachKeeps
  <2>5. RailTypeOK'
    BY <1>1, <2>4 DEF RInv, RailTypeOK
  <2>6. Offered'
    BY <1>1, <2>4 DEF RInv, Offered, Unbound
  <2> QED
    BY <1>2, <2>4, <2>5, <2>6 DEF RInv
<1>4. CASE ~Alive(h)
  <2>1. UNCHANGED <<bound, attached, adapter, hostFocus, tried, freed>>
    BY <1>4 DEF Nudge, registryVars
  <2>2. RailTypeOK' /\ BoundOnce' /\ WindowsTrue' /\ BeliefTrue'
    <3>1. RailTypeOK' /\ BoundOnce'
      BY <1>1, <2>1 DEF RInv, RailTypeOK, BoundOnce
    <3>2. WindowsTrue' /\ BeliefTrue'
      BY <1>1, <2>1 DEF RInv, WindowsTrue, WindowTrue, BeliefTrue, Alive
    <3> QED
      BY <3>1, <3>2
  <2>3. Offered'
    BY <1>1, <1>4, <2>1 DEF RInv, Offered, Alive
  <2> QED
    BY <1>2, <2>2, <2>3 DEF RInv
<1> QED
  BY <1>3, <1>4

\* A RAIL window that gets its title is offered what is known at once.
LEMMA GiveTitlePreserves ==
    ASSUME RInv, NEW h \in Hwnds, GiveTitle(h) PROVE RInv'
<1>1. /\ frame' = [frame EXCEPT ![h] = "titled"] /\ frame[h] = "untitled" /\ TryAttach(h)
      /\ UNCHANGED <<unused, listed, focus, pump, backlog, sweep, hooked, known, focused, posted>>
  BY DEF GiveTitle, TryAttach, daemonVars, pumpVars
<1>2. frame \in [Hwnds -> {"absent", "untitled", "titled", "gone"}]
  BY DEF RInv, RailTypeOK
<1>3. /\ frame' \in [Hwnds -> {"absent", "untitled", "titled", "gone"}]
      /\ \A g \in Hwnds : frame'[g] = IF g = h THEN "titled" ELSE frame[g]
  BY <1>1, <1>2
<1>4. /\ \A g \in Hwnds : (frame[g] = "absent" <=> frame'[g] = "absent") /\ (Alive(g)' <=> Alive(g))
      /\ Alive(h)
  BY <1>1, <1>3 DEF Alive
<1>5. /\ bound' \in [Windows -> Hwnds \cup {None}] /\ attached' \subseteq Hwnds
      /\ adapter' \in [Hwnds -> Windows \cup {Stale, None}]
      /\ hostFocus' \in [Hwnds -> BOOLEAN] /\ freed' \subseteq Hwnds
      /\ tried' \in [Hwnds -> SUBSET Windows]
      /\ BoundOnce' /\ WindowsTrue' /\ BeliefTrue'
      /\ freed \subseteq freed' /\ Unbound(known', bound') \subseteq Unbound(known, bound)
      /\ \A g \in Hwnds : g # h => tried'[g] = tried[g]
      /\ hooked /\ h \notin freed => tried'[h] = known
  BY <1>1, <1>3, <1>4, AttachKeeps
<1>6. RailTypeOK' /\ FocusLeads'
  BY <1>1, <1>3, <1>5 DEF RInv, RailTypeOK, FocusLeads
<1>7. Offered'
  BY <1>1, <1>3, <1>5 DEF RInv, Offered, Unbound
<1> QED
  BY <1>5, <1>6, <1>7 DEF RInv

\* A new RAIL window is bound to nothing.
LEMMA CreatePreserves ==
    ASSUME RInv, NEW h \in Hwnds, Create(h) PROVE RInv'
<1>1. /\ frame' = [frame EXCEPT ![h] = "untitled"] /\ frame[h] = "absent"
      /\ UNCHANGED <<unused, listed, focus, pump, backlog, sweep, hooked, known, bound, attached,
                     focused, adapter, hostFocus, posted, tried, freed>>
  BY DEF Create, daemonVars, pumpVars, registryVars
<1>2. RailTypeOK /\ BoundOnce /\ WindowsTrue /\ BeliefTrue /\ FocusLeads /\ Offered
  BY DEF RInv
<1>3. \A g \in Hwnds : frame'[g] = IF g = h THEN "untitled" ELSE frame[g]
  BY <1>1, <1>2 DEF RailTypeOK
<1>4. RailTypeOK' /\ BoundOnce' /\ FocusLeads' /\ Offered'
  BY <1>1, <1>2, <1>3 DEF RailTypeOK, BoundOnce, FocusLeads, Offered
<1>5. h \notin freed /\ h \notin attached
  BY <1>1, <1>2 DEF WindowsTrue, WindowTrue, BoundOnce
<1>6. \A w \in Windows : bound[w] # None => bound[w] \in Hwnds /\ bound[w] # h
  BY <1>2, <1>5 DEF RailTypeOK, BoundOnce
<1>7. ASSUME NEW g \in Hwnds PROVE WindowTrue(g)'
  <2>1. WindowTrue(g)
    BY <1>2 DEF WindowsTrue
  <2>2. frame'[g] = "absent" => frame[g] = "absent"
    BY <1>3
  <2>3. ~Alive(g)' => ~Alive(g)
    BY <1>3 DEF Alive
  <2> QED
    BY <1>1, <2>1, <2>2, <2>3 DEF WindowTrue
<1>8. \A w \in Windows : bound[w]' # None /\ Alive(bound[w])' => Alive(bound[w]) /\ bound[w] # None
  BY <1>1, <1>3, <1>6 DEF Alive
<1>9. WindowsTrue' /\ BeliefTrue'
  BY <1>1, <1>2, <1>7, <1>8 DEF WindowsTrue, BeliefTrue
<1> QED
  BY <1>4, <1>9 DEF RInv

\* A destroyed RAIL window keeps neither its adapter nor its messages.
LEMMA DestroyPreserves ==
    ASSUME RInv, NEW h \in Hwnds, Destroy(h) PROVE RInv'
<1>1. /\ frame' = [frame EXCEPT ![h] = "gone"] /\ adapter' = [adapter EXCEPT ![h] = None]
      /\ hostFocus' = [hostFocus EXCEPT ![h] = FALSE] /\ posted' = [posted EXCEPT ![h] = <<>>]
      /\ UNCHANGED <<unused, listed, focus, pump, backlog, sweep, hooked, known, bound, attached,
                     focused, tried, freed>>
  BY DEF Destroy, daemonVars, pumpVars, registryVars
<1>2. RailTypeOK /\ BoundOnce /\ WindowsTrue /\ BeliefTrue /\ FocusLeads /\ Offered
  BY DEF RInv
<1>3. \A g \in Hwnds : /\ frame'[g] = IF g = h THEN "gone" ELSE frame[g]
                       /\ adapter'[g] = IF g = h THEN None ELSE adapter[g]
                       /\ hostFocus'[g] = IF g = h THEN FALSE ELSE hostFocus[g]
                       /\ posted'[g] = IF g = h THEN <<>> ELSE posted[g]
  BY <1>1, <1>2 DEF RailTypeOK
<1>4. RailTypeOK'
  <2>1. <<>> \in Seq(Messages)
    BY EmptySeq
  <2>2. /\ frame' \in [Hwnds -> {"absent", "untitled", "titled", "gone"}]
        /\ adapter' \in [Hwnds -> Windows \cup {Stale, None}]
        /\ hostFocus' \in [Hwnds -> BOOLEAN]
    BY <1>1, <1>2 DEF RailTypeOK
  <2>3. posted' \in [Hwnds -> Seq(Messages)]
    BY <1>1, <1>2, <2>1 DEF RailTypeOK
  <2> QED
    BY <1>1, <1>2, <2>2, <2>3 DEF RailTypeOK
<1>5. BoundOnce' /\ FocusLeads' /\ Offered'
  BY <1>1, <1>2, <1>3 DEF BoundOnce, FocusLeads, Offered
<1>6. ASSUME NEW g \in Hwnds PROVE WindowTrue(g)'
  <2>1. WindowTrue(g)
    BY <1>2 DEF WindowsTrue
  <2>2. CASE g = h
    <3>1. adapter'[g] = None /\ posted'[g] = <<>> /\ frame'[g] # "absent"
      BY <1>3, <2>2
    <3>2. QueueTrue(<<>>, None, (g \notin attached)')
      BY EmptySeq DEF QueueTrue
    <3> QED
      BY <3>1, <3>2 DEF WindowTrue
  <2>3. CASE g # h
    <3>1. adapter'[g] = adapter[g] /\ posted'[g] = posted[g] /\ frame'[g] = frame[g]
      BY <1>3, <2>3
    <3> QED
      BY <1>1, <2>1, <3>1 DEF WindowTrue, Alive
  <2> QED
    BY <2>2, <2>3
<1>7. \A w \in Windows : bound[w]' # None /\ Alive(bound[w])' =>
          /\ bound[w] # None /\ Alive(bound[w]) /\ bound[w] \in Hwnds /\ bound[w] # h
          /\ bound' = bound /\ focused' = focused
  BY <1>1, <1>2, <1>3 DEF Alive, RailTypeOK
<1>8. ASSUME NEW w \in Windows, bound[w]' # None, Alive(bound[w])'
      PROVE  adapter'[bound'[w]] = w
             /\ WillBelieve(posted'[bound'[w]], hostFocus'[bound'[w]], focused' = w)
  <2>1. adapter[bound[w]] = w
        /\ WillBelieve(posted[bound[w]], hostFocus[bound[w]], focused = w)
    BY <1>2, <1>7, <1>8 DEF WindowsTrue, BeliefTrue
  <2>2. /\ adapter'[bound[w]] = adapter[bound[w]] /\ hostFocus'[bound[w]] = hostFocus[bound[w]]
        /\ posted'[bound[w]] = posted[bound[w]]
    BY <1>3, <1>7, <1>8
  <2> QED
    BY <1>7, <1>8, <2>1, <2>2
<1>9. WindowsTrue' /\ BeliefTrue'
  BY <1>6, <1>8 DEF WindowsTrue, BeliefTrue
<1> QED
  BY <1>4, <1>5, <1>9 DEF RInv

\* What was posted first is handled first, and a detach is last.
LEMMA HandlePreserves ==
    ASSUME RInv, NEW h \in Hwnds, Handle(h) PROVE RInv'
<1> DEFINE m == Head(posted[h])
<1>1. /\ posted[h] # <<>> /\ posted' = [posted EXCEPT ![h] = Tail(posted[h])]
      /\ adapter' = IF m = Detach THEN [adapter EXCEPT ![h] = None] ELSE adapter
      /\ m = Detach => hostFocus' = [hostFocus EXCEPT ![h] = FALSE]
      /\ m # Detach /\ m.kind = "Focus" /\ adapter[h] \in Windows =>
             hostFocus' = [hostFocus EXCEPT ![h] = m.body]
      /\ m # Detach /\ ~(m.kind = "Focus" /\ adapter[h] \in Windows) => hostFocus' = hostFocus
      /\ UNCHANGED <<unused, listed, focus, pump, backlog, sweep, hooked, known, bound, attached,
                     focused, frame, tried, freed>>
  <2>1. /\ posted[h] # <<>> /\ posted' = [posted EXCEPT ![h] = Tail(posted[h])]
        /\ adapter' = IF m = Detach THEN [adapter EXCEPT ![h] = None] ELSE adapter
        /\ UNCHANGED <<unused, listed, focus, pump, backlog, sweep, hooked, known, bound, attached,
                       focused, frame, tried, freed>>
    BY DEF Handle, daemonVars, pumpVars, registryVars
  <2>2. hostFocus' =
            CASE m = Detach -> [hostFocus EXCEPT ![h] = FALSE]
              [] m.kind = "Focus" /\ adapter[h] \in Windows -> [hostFocus EXCEPT ![h] = m.body]
              [] OTHER -> hostFocus
    BY DEF Handle
  <2>3. ~(m = Detach /\ m.kind = "Focus")
    BY DEF Detach, Event
  <2> HIDE DEF m
  <2>4. m = Detach => hostFocus' = [hostFocus EXCEPT ![h] = FALSE]
    BY <2>2, <2>3
  <2>5. m # Detach /\ m.kind = "Focus" /\ adapter[h] \in Windows =>
             hostFocus' = [hostFocus EXCEPT ![h] = m.body]
    BY <2>2
  <2>6. m # Detach /\ ~(m.kind = "Focus" /\ adapter[h] \in Windows) => hostFocus' = hostFocus
    BY <2>2
  <2> QED
    BY <2>1, <2>4, <2>5, <2>6
<1>2. RailTypeOK /\ BoundOnce /\ WindowsTrue /\ BeliefTrue /\ FocusLeads /\ Offered
  BY DEF RInv
<1>3. posted[h] \in Seq(Messages) /\ m \in Messages /\ Tail(posted[h]) \in Seq(Messages)
  BY <1>1, <1>2, HeadTailProperties DEF RailTypeOK
<1>4. m # Detach /\ m.kind = "Focus" => m.body \in BOOLEAN
  BY <1>3 DEF Messages
<1>5. WindowTrue(h) /\ QueueTrue(posted[h], adapter[h], h \notin attached)
  BY <1>2 DEF WindowsTrue, WindowTrue
<1>6. /\ adapter[h] # None /\ QueueTrue(Tail(posted[h]), adapter[h], h \notin attached)
      /\ m = Detach => Tail(posted[h]) = <<>>
      /\ Leaving(posted[h]) /\ m # Detach => Leaving(Tail(posted[h]))
  BY <1>1, <1>3, <1>5, QueueTail
<1>7. m = Detach => h \notin attached
  <2>1. Len(posted[h]) \in Nat \ {0} /\ m = posted[h][1]
    BY <1>1, <1>3, EmptySeq, HeadTailProperties
  <2> QED
    BY <1>5, <2>1 DEF QueueTrue
<1>8. Detach.kind # "Focus"
  BY DEF Detach, Event
<1> HIDE DEF m
<1>9. \A g \in Hwnds : /\ posted'[g] = IF g = h THEN Tail(posted[h]) ELSE posted[g]
                       /\ adapter'[g] = IF g = h /\ m = Detach THEN None ELSE adapter[g]
                       /\ g # h => hostFocus'[g] = hostFocus[g]
  BY <1>1, <1>2 DEF RailTypeOK
<1>10. RailTypeOK'
  <2>1. adapter' \in [Hwnds -> Windows \cup {Stale, None}]
    BY <1>1, <1>2 DEF RailTypeOK
  <2>2. hostFocus' \in [Hwnds -> BOOLEAN]
    BY <1>1, <1>2, <1>4 DEF RailTypeOK
  <2>3. posted' \in [Hwnds -> Seq(Messages)]
    BY <1>1, <1>2, <1>3 DEF RailTypeOK
  <2> QED
    BY <1>1, <1>2, <2>1, <2>2, <2>3 DEF RailTypeOK
<1>11. BoundOnce' /\ FocusLeads' /\ Offered'
  BY <1>1, <1>2 DEF BoundOnce, FocusLeads, Offered
<1>12. ASSUME NEW g \in Hwnds PROVE WindowTrue(g)'
  <2>1. WindowTrue(g)
    BY <1>2 DEF WindowsTrue
  <2>2. CASE g # h
    <3>1. adapter'[g] = adapter[g] /\ posted'[g] = posted[g]
      BY <1>9, <2>2
    <3> QED
      BY <1>1, <2>1, <3>1 DEF WindowTrue, Alive
  <2>3. CASE g = h /\ m = Detach
    <3>1. adapter'[g] = None /\ posted'[g] = <<>>
      BY <1>6, <1>9, <2>3
    <3>2. QueueTrue(<<>>, None, (g \notin attached)')
      BY EmptySeq DEF QueueTrue
    <3> QED
      BY <1>1, <2>1, <3>1, <3>2 DEF WindowTrue
  <2>4. CASE g = h /\ m # Detach
    <3>1. adapter'[g] = adapter[g] /\ posted'[g] = Tail(posted[h])
      BY <1>9, <2>4
    <3> QED
      BY <1>1, <1>6, <2>1, <2>4, <3>1 DEF WindowTrue, Alive
  <2> QED
    BY <2>2, <2>3, <2>4
<1>13. ASSUME NEW w \in Windows, bound[w]' # None, Alive(bound[w])'
       PROVE  adapter'[bound'[w]] = w
              /\ WillBelieve(posted'[bound'[w]], hostFocus'[bound'[w]], focused' = w)
  <2>1. /\ bound'[w] = bound[w] /\ bound[w] # None /\ Alive(bound[w]) /\ bound[w] \in Hwnds
        /\ bound[w] \in attached /\ focused' = focused
    BY <1>1, <1>2, <1>13 DEF Alive, RailTypeOK, BoundOnce
  <2>2. adapter[bound[w]] = w
        /\ WillBelieve(posted[bound[w]], hostFocus[bound[w]], focused = w)
    BY <1>2, <2>1 DEF WindowsTrue, BeliefTrue
  <2>3. CASE bound[w] # h
    BY <1>9, <2>1, <2>2, <2>3
  <2>4. CASE bound[w] = h
    <3>1. m # Detach
      BY <1>7, <2>1, <2>4
    <3>2. WillBelieve(Tail(posted[h]), IF m.kind = "Focus" THEN m.body ELSE hostFocus[h], focused = w)
      BY <1>1, <1>3, <2>2, <2>4, BelieveTail DEF m
    <3>3. hostFocus'[h] = IF m.kind = "Focus" THEN m.body ELSE hostFocus[h]
      BY <1>1, <1>2, <2>2, <2>4, <3>1 DEF RailTypeOK
    <3> QED
      BY <1>9, <2>1, <2>2, <2>4, <3>1, <3>2, <3>3
  <2> QED
    BY <2>3, <2>4
<1> QED
  BY <1>10, <1>11, <1>12, <1>13 DEF RInv, WindowsTrue, BeliefTrue

-----------------------------------------------------------------------------
(* Sessions stop and start.                                                *)

\* Nothing is behind nothing: what holds of an empty queue and backlog.
LEMMA NothingThere ==
    /\ <<>> \in Seq(Messages) /\ <<>> \in Seq(Events) /\ Len(<<>>) = 0
    /\ \A carried, free : QueueTrue(<<>>, carried, free)
    /\ \A now, b : WillBelieve(<<>>, now, b) <=> now = b
    /\ \A from \in Focuses : \E path \in [0..Len(<<>>) -> Focuses] : Leads(path, from, <<>>, from)
    /\ \A from, to : (\E path \in [0..Len(<<>>) -> Focuses] : Leads(path, from, <<>>, to)) => from = to
<1>1. <<>> \in Seq(Messages) /\ <<>> \in Seq(Events) /\ Len(<<>>) = 0
  BY EmptySeq
<1>2. \A carried, free : QueueTrue(<<>>, carried, free)
  BY <1>1 DEF QueueTrue
<1>3. \A now, b : WillBelieve(<<>>, now, b) <=> now = b
  BY <1>1 DEF WillBelieve, ToldLast, Untold
<1>4. ASSUME NEW from \in Focuses
      PROVE  \E path \in [0..Len(<<>>) -> Focuses] : Leads(path, from, <<>>, from)
  <2> DEFINE path == [i \in 0..Len(<<>>) |-> from]
  <2>1. path \in [0..Len(<<>>) -> Focuses] /\ path[0] = from /\ path[Len(<<>>)] = from
    BY <1>1
  <2>2. Leads(path, from, <<>>, from)
    BY <1>1, <2>1 DEF Leads
  <2> HIDE DEF path
  <2> QED
    BY <2>1, <2>2
<1>5. \A from, to : (\E path \in [0..Len(<<>>) -> Focuses] : Leads(path, from, <<>>, to)) => from = to
  BY <1>1 DEF Leads
<1> QED
  BY <1>1, <1>2, <1>3, <1>4, <1>5

\* Without a hook nothing is offered any more.
LEMMA StopHookPreserves ==
    ASSUME RInv, StopHook PROVE RInv'
<1>1. /\ ~hooked'
      /\ UNCHANGED <<unused, listed, focus, pump, backlog, sweep, known, bound, attached, focused,
                     frame, adapter, hostFocus, posted, tried, freed>>
  BY DEF StopHook, daemonVars, pumpVars, registryVars, windowVars
<1>2. RailTypeOK' /\ BoundOnce' /\ FocusLeads' /\ Offered'
  BY <1>1 DEF StopHook, RInv, RailTypeOK, BoundOnce, FocusLeads, Offered
<1>3. WindowsTrue' /\ BeliefTrue'
  BY <1>1 DEF RInv, WindowsTrue, WindowTrue, BeliefTrue, Alive
<1> QED
  BY <1>2, <1>3 DEF RInv

\* A new session knows nothing; the adapters still there are leftovers.
LEMMA ReconnectPreserves ==
    ASSUME RInv, Reconnect PROVE RInv'
<1>1. /\ hooked' /\ unused' = Windows /\ listed' = {} /\ focus' = None /\ known' = {}
      /\ attached' = {} /\ focused' = None /\ bound' = [w \in Windows |-> None]
      /\ hostFocus' = [h \in Hwnds |-> FALSE] /\ tried' = [h \in Hwnds |-> {}]
      /\ adapter' = [h \in Hwnds |-> IF adapter[h] = None THEN None ELSE Stale]
      /\ backlog = <<>> /\ UNCHANGED <<pump, backlog, sweep, frame, posted, freed>>
  BY DEF Reconnect, pumpVars
<1>2. RailTypeOK /\ BoundOnce /\ WindowsTrue
  BY DEF RInv
<1>3. RailTypeOK'
  BY <1>1, <1>2 DEF Reconnect, RailTypeOK, Focuses
<1>4. BoundOnce'
  BY <1>1 DEF BoundOnce
<1>5. ASSUME NEW h \in Hwnds PROVE WindowTrue(h)'
  <2>1. WindowTrue(h)
    BY <1>2 DEF WindowsTrue
  <2>2. /\ adapter'[h] = IF adapter[h] = None THEN None ELSE Stale
        /\ posted'[h] = posted[h] /\ h \notin attached'
    BY <1>1
  <2>3. QueueTrue(posted[h], adapter'[h], TRUE)
    <3>1. QueueTrue(posted[h], adapter[h], h \notin attached)
      BY <2>1 DEF WindowTrue
    <3>2. CASE adapter[h] = None
      <4>1. posted[h] = <<>>
        BY <3>1, <3>2 DEF QueueTrue
      <4>2. QueueTrue(<<>>, adapter'[h], TRUE)
        BY EmptySeq DEF QueueTrue
      <4> QED
        BY <4>1, <4>2
    <3>3. CASE adapter[h] # None
      <4>1. adapter'[h] = Stale
        BY <2>2, <3>3
      <4>2. QueueTrue(posted[h], Stale, TRUE)
        BY <3>1, RailAssumption DEF QueueTrue
      <4> QED
        BY <4>1, <4>2
    <3> QED
      BY <3>2, <3>3
  <2> QED
    BY <1>1, <2>1, <2>2, <2>3 DEF WindowTrue, Alive
<1>6. WindowsTrue' /\ BeliefTrue'
  BY <1>1, <1>5 DEF WindowsTrue, BeliefTrue
<1>7. FocusLeads'
  BY <1>1, NothingThere DEF FocusLeads, Focuses
<1>8. Offered'
  BY <1>1 DEF Offered, Unbound
<1> QED
  BY <1>3, <1>4, <1>6, <1>7, <1>8 DEF RInv

-----------------------------------------------------------------------------
(* The theorems.                                                           *)

\* Nothing is announced and no RAIL window exists.
LEMMA InitEstablishes ==
    RailInit => RInv
<1> SUFFICES ASSUME RailInit PROVE RInv
  OBVIOUS
<1>1. /\ unused = Windows /\ listed = {} /\ focus = None /\ pump = "reading" /\ backlog = <<>>
      /\ sweep = {} /\ hooked = TRUE /\ known = {} /\ attached = {} /\ focused = None
      /\ bound = [w \in Windows |-> None] /\ frame = [h \in Hwnds |-> "absent"]
      /\ adapter = [h \in Hwnds |-> None] /\ hostFocus = [h \in Hwnds |-> FALSE]
      /\ posted = [h \in Hwnds |-> <<>>] /\ tried = [h \in Hwnds |-> {}] /\ freed = {}
  BY DEF RailInit
<1>2. RailTypeOK
  BY <1>1, NothingThere DEF RailTypeOK, Focuses
<1>3. BoundOnce /\ Offered
  BY <1>1 DEF BoundOnce, Offered, Unbound
<1>4. \A h \in Hwnds : WindowTrue(h)
  BY <1>1, NothingThere DEF WindowTrue
<1>5. WindowsTrue /\ BeliefTrue
  BY <1>1, <1>4 DEF WindowsTrue, BeliefTrue
<1>6. FocusLeads
  BY <1>1, NothingThere DEF FocusLeads, Focuses
<1> QED
  BY <1>2, <1>3, <1>5, <1>6 DEF RInv

\* Every step keeps the invariant.
LEMMA NextPreserves ==
    RInv /\ [RailNext]_railVars => RInv'
<1> SUFFICES ASSUME RInv, [RailNext]_railVars PROVE RInv'
  OBVIOUS
<1>1. ASSUME NEW w \in Windows, AddedArrives(w) \/ RemovedArrives(w) \/ UpdateArrives(w)
      PROVE  RInv'
  BY <1>1, AddedArrivesPreserves, RemovedArrivesPreserves, UpdateArrivesPreserves
<1>2. ASSUME NEW f \in Windows \cup {None}, FocusArrives(f) PROVE RInv'
  BY <1>2, FocusArrivesPreserves
<1>3. CASE ChunkEnds \/ RouteAdded \/ RouteRemoved \/ RouteUpdate \/ RouteFocus
  BY <1>3, ChunkEndsPreserves, RouteAddedPreserves, RouteRemovedPreserves, RouteUpdatePreserves,
     RouteFocusPreserves
<1>4. ASSUME NEW h \in Hwnds, Nudge(h) \/ Create(h) \/ GiveTitle(h) \/ Destroy(h) \/ Handle(h)
      PROVE  RInv'
  BY <1>4, NudgePreserves, CreatePreserves, GiveTitlePreserves, DestroyPreserves, HandlePreserves
<1>5. CASE StopHook \/ Reconnect
  BY <1>5, StopHookPreserves, ReconnectPreserves
<1>6. CASE UNCHANGED railVars
  <2> USE <1>6 DEF railVars, daemonVars, pumpVars, registryVars, windowVars
  <2>1. RailTypeOK' /\ BoundOnce'
    BY DEF RInv, RailTypeOK, BoundOnce
  <2>2. WindowsTrue' /\ BeliefTrue'
    BY DEF RInv, WindowsTrue, WindowTrue, BeliefTrue, Alive
  <2>3. FocusLeads' /\ Offered'
    BY DEF RInv, FocusLeads, Offered
  <2> QED
    BY <2>1, <2>2, <2>3 DEF RInv
<1> QED
  BY <1>1, <1>2, <1>3, <1>4, <1>5, <1>6 DEF RailNext

(* The invariant holds of every run of the plugin, whatever the daemon     *)
(* announces and however msrdc's windows come and go meanwhile.            *)
THEOREM RailInvariance == RailSpec => []RInv
<1>1. RailInit => RInv
  BY InitEstablishes
<1>2. RInv /\ [RailNext]_railVars => RInv'
  BY NextPreserves
<1> QED
  BY <1>1, <1>2, PTL DEF RailSpec

\* An unattached RAIL window has no adapter of this session, or a detach last.
LEMMA RegistryFromInv == RInv => RegistryTrue
<1> SUFFICES ASSUME RInv PROVE RegistryTrue
  OBVIOUS
<1>1. /\ attached = {bound[w] : w \in Windows} \ {None}
      /\ \A w, v \in Windows : bound[w] # None /\ bound[w] = bound[v] => w = v
      /\ \A w \in Windows : bound[w] # None =>
            w \in known /\ (Alive(bound[w]) => adapter[bound[w]] = w)
  BY DEF RInv, BoundOnce, WindowsTrue
<1>2. ASSUME NEW h \in Hwnds \ attached
      PROVE  CarriedAt(h, Len(posted[h]) + 1) \in {None, Stale}
  <2>1. posted[h] \in Seq(Messages) /\ WindowTrue(h)
    BY DEF RInv, RailTypeOK, WindowsTrue
  <2>2. adapter[h] \in {None, Stale} \/ Leaving(posted[h])
    BY <1>2, <2>1 DEF WindowTrue
  <2>3. CASE Leaving(posted[h])
    <3>1. Len(posted[h]) \in Nat \ {0} /\ posted[h][Len(posted[h])] = Detach
      BY <2>1, <2>3, EmptySeq DEF Leaving
    <3>2. Len(posted[h]) \in 1..(Len(posted[h]) + 1 - 1)
      BY <3>1
    <3> QED
      BY <3>1, <3>2 DEF CarriedAt
  <2> QED
    BY <2>2, <2>3 DEF CarriedAt
<1> QED
  BY <1>1, <1>2 DEF RegistryTrue

\* No detach is before a delta.
LEMMA DeltaFromInv == RInv => DeltaOnItsOwn
<1> SUFFICES ASSUME RInv, NEW h \in Hwnds, NEW i \in 1..Len(posted[h]), posted[h][i].kind = "Delta"
             PROVE  CarriedAt(h, i) \in {posted[h][i].body, Stale}
  BY DEF DeltaOnItsOwn
<1>1. posted[h] \in Seq(Messages) /\ QueueTrue(posted[h], adapter[h], h \notin attached)
  BY DEF RInv, RailTypeOK, WindowsTrue, WindowTrue
<1>2. Len(posted[h]) \in Nat
  BY <1>1, LenProperties
<1>3. \A j \in 1..(i - 1) : posted[h][j] # Detach
  BY <1>1, <1>2 DEF QueueTrue
<1>4. adapter[h] \in {posted[h][i].body, Stale}
  BY <1>1 DEF QueueTrue
<1> QED
  BY <1>3, <1>4 DEF CarriedAt

\* Nothing to route and nothing posted: the beliefs are what they will be.
LEMMA FocusFromInv == RInv => FocusSettles
<1> SUFFICES ASSUME RInv, AtRest
             PROVE  /\ focused = focus
                    /\ \A w \in Windows : (bound[w] # None /\ Alive(bound[w])) =>
                          hostFocus[bound[w]] = (focus = w)
  BY DEF FocusSettles
<1>1. focused = focus
  BY NothingThere DEF RInv, FocusLeads, AtRest
<1>2. ASSUME NEW w \in Windows, bound[w] # None, Alive(bound[w])
      PROVE  hostFocus[bound[w]] = (focus = w)
  <2>1. bound[w] \in Hwnds
    BY <1>2 DEF RInv, RailTypeOK
  <2>2. posted[bound[w]] = <<>>
    BY <2>1 DEF AtRest
  <2>3. WillBelieve(<<>>, hostFocus[bound[w]], focused = w)
    BY <1>2, <2>2 DEF RInv, BeliefTrue
  <2> QED
    BY <1>1, <2>3, NothingThere
<1> QED
  BY <1>1, <1>2

(* Registry and windows agree, one message queue apart: a remote window is *)
(* bound to one RAIL window at most, whose adapter is its own, and a RAIL  *)
(* window the registry calls free carries no window of this session, or is *)
(* about to lose it (Registry and wnd_proc).                               *)
THEOREM RegistryIsTrue == RailSpec => []RegistryTrue
<1>1. RInv => RegistryTrue
  BY RegistryFromInv
<1> QED
  BY <1>1, RailInvariance, PTL

(* No delta is handled by the adapter of another window, though attach and *)
(* detach cross it in the queue (Registry::tree_updated).                  *)
THEOREM DeltasOnTheirOwn == RailSpec => []DeltaOnItsOwn
<1>1. RInv => DeltaOnItsOwn
  BY DeltaFromInv
<1> QED
  BY <1>1, RailInvariance, PTL

(* When all is handled, the adapter of the focused remote window believes  *)
(* in the focus and no other does (Registry::focus_changed, try_attach).   *)
THEOREM FocusIsSettled == RailSpec => []FocusSettles
<1>1. RInv => FocusSettles
  BY FocusFromInv
<1> QED
  BY <1>1, RailInvariance, PTL

(* When all is handled, every titled RAIL window without an adapter was    *)
(* offered each remote window that is still without one                    *)
(* (nudge_unattached_rail_windows, try_attach).                            *)
THEOREM AnnouncementsReach == RailSpec => []NoAnnouncementMissed
<1>1. RInv => NoAnnouncementMissed
  BY DEF RInv, Offered, AtRest, NoAnnouncementMissed
<1> QED
  BY <1>1, RailInvariance, PTL
=============================================================================
