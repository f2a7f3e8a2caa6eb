--------------------------- MODULE DesktopProofs ---------------------------
(***************************************************************************)
(* Proofs about Desktop as the plugin hosts it (Host = "visible"), for any *)
(* windows and trees: what is owed to the consumer can be delivered by the *)
(* rules of the composition, and once it has been, what the composition    *)
(* holds is what the consumer has.                                         *)
(*                                                                         *)
(* The argument is about courses of updates: Goes(s, updates, t) says that *)
(* the updates take a consumer from s to t and break no rule on the way.   *)
(* A sync and a delta each add a course to the one that is owed.  That a   *)
(* reader that has caught up is shown the provider's desktop rests on a    *)
(* second invariant, about what the queue has yet to say.                  *)
(***************************************************************************)
EXTENDS Desktop, TLAPS, FiniteSetTheorems, SequenceTheorems, WellFoundedInduction

-----------------------------------------------------------------------------
(* Lists, whatever their elements are.                                     *)

IsList(us) == \E U : us \in Seq(U)

\* A list is known by its length and its elements.
LEMMA ListFacts ==
    ASSUME NEW us, IsList(us)
    PROVE  /\ Len(us) \in Nat /\ DOMAIN us = 1..Len(us)
           /\ us = <<>> <=> Len(us) = 0
<1>1. PICK U : us \in Seq(U)
  BY DEF IsList
<1> QED
  BY <1>1, LenProperties, EmptySeq

\* The lists of no element and of one.
LEMMA ShortLists ==
    /\ IsList(<<>>) /\ Len(<<>>) = 0
    /\ \A u : IsList(<<u>>) /\ Len(<<u>>) = 1 /\ <<u>>[1] = u
<1>1. IsList(<<>>) /\ Len(<<>>) = 0
  BY EmptySeq DEF IsList
<1>2. ASSUME NEW u PROVE IsList(<<u>>) /\ Len(<<u>>) = 1 /\ <<u>>[1] = u
  <2>1. <<u>> \in Seq({u})
    OBVIOUS
  <2> QED
    BY <2>1 DEF IsList
<1> QED
  BY <1>1, <1>2

\* One list after another.
LEMMA ListConcat ==
    ASSUME NEW us, NEW vs, IsList(us), IsList(vs)
    PROVE  /\ IsList(us \o vs) /\ Len(us \o vs) = Len(us) + Len(vs)
           /\ \A i \in 1..(Len(us) + Len(vs)) :
                (us \o vs)[i] = IF i <= Len(us) THEN us[i] ELSE vs[i - Len(us)]
<1>1. PICK U : us \in Seq(U)
  BY DEF IsList
<1>2. PICK V : vs \in Seq(V)
  BY DEF IsList
<1>3. us \in Seq(U \cup V) /\ vs \in Seq(U \cup V)
  <2>1. U \subseteq U \cup V /\ V \subseteq U \cup V
    OBVIOUS
  <2> QED
    BY <1>1, <1>2, <2>1, SeqMonotonic
<1>4. /\ us \o vs \in Seq(U \cup V) /\ Len(us \o vs) = Len(us) + Len(vs)
      /\ \A i \in 1..(Len(us) + Len(vs)) :
           (us \o vs)[i] = IF i <= Len(us) THEN us[i] ELSE vs[i - Len(us)]
  BY <1>3, ConcatProperties
<1> QED
  BY <1>4 DEF IsList

\* A list without its first element.
LEMMA ListTail ==
    ASSUME NEW us, IsList(us), us # <<>>
    PROVE  /\ IsList(Tail(us)) /\ Len(Tail(us)) = Len(us) - 1 /\ Len(us) \in Nat \ {0}
           /\ \A i \in 1..(Len(us) - 1) : Tail(us)[i] = us[i + 1]
           /\ Head(us) = us[1]
<1>1. PICK U : us \in Seq(U)
  BY DEF IsList
<1>2. /\ Tail(us) \in Seq(U) /\ Len(Tail(us)) = Len(us) - 1
      /\ \A i \in 1..Len(Tail(us)) : Tail(us)[i] = us[i + 1]
  BY <1>1, HeadTailProperties
<1>3. Len(us) \in Nat \ {0} /\ Head(us) = us[1]
  BY <1>1, EmptySeq
<1> QED
  BY <1>2, <1>3 DEF IsList

\* A list given element by element.
LEMMA ListOf ==
    ASSUME NEW n \in Nat, NEW us, DOMAIN us = 1..n, us = [i \in 1..n |-> us[i]]
    PROVE  IsList(us) /\ Len(us) = n
<1> DEFINE U == {us[i] : i \in 1..n}
<1>1. us \in [1..n -> U]
  OBVIOUS
<1> HIDE DEF U
<1>2. us \in Seq(U) /\ Len(us) = n
  BY <1>1
<1> QED
  BY <1>2 DEF IsList

-----------------------------------------------------------------------------
(* Courses of updates.                                                     *)

\* f is what the consumer shows after each of the updates.
Follows(f, s, us, n) ==
    f = [i \in 0..n |-> IF i = 0 THEN s ELSE Published(f[i - 1], us[i])]

\* The only panic the rules leave is over a child that does not exist.
Benign(fault) == fault \in {"none", "missing child"}

\* f shows how the updates lead from s to t, by the rules.
Course(f, s, us, t) ==
    /\ f[0] = s /\ f[Len(us)] = t
    /\ \A i \in 1..Len(us) : f[i] = Published(f[i - 1], us[i]) /\ Benign(FaultOf(f[i - 1], us[i]))

Goes(s, us, t) == IsList(us) /\ \E f : Course(f, s, us, t)

\* The natural numbers are well ordered.
LEMMA NatLess == IsWellFoundedOn({p \in Nat \X Nat : p[1] < p[2]}, Nat)
BY NatLessThanWellFounded DEF OpToRel

\* A set that holds 0 and, with a number, the next one, holds them all.
LEMMA CountingUp ==
    ASSUME NEW S, 0 \in S, \A n \in Nat : n \in S => n + 1 \in S
    PROVE  Nat \subseteq S
<1> SUFFICES ASSUME Nat \ S # {} PROVE FALSE
  OBVIOUS
<1>1. PICK x \in Nat \ S : \A y \in Nat \ S : <<y, x>> \notin {p \in Nat \X Nat : p[1] < p[2]}
  BY NatLess, WFMin
<1>2. \A y \in Nat \ S : ~(y < x)
  BY <1>1
<1>3. x - 1 \in Nat /\ x - 1 < x
  BY <1>1
<1> QED
  BY <1>1, <1>2, <1>3

\* A function that follows a course agrees with it all the way.
LEMMA CourseIsTheOne ==
    ASSUME NEW f, NEW g, NEW s, NEW us, NEW t, NEW n \in Nat, n = Len(us),
           Course(g, s, us, t), f[0] = s, \A i \in 1..n : f[i] = Published(f[i - 1], us[i])
    PROVE  f[n] = t
<1> DEFINE S == {k \in Nat : k <= n => f[k] = g[k]}
<1>1. 0 \in S
  BY DEF Course
<1>2. ASSUME NEW k \in Nat, k \in S PROVE k + 1 \in S
  <2> SUFFICES ASSUME k + 1 <= n PROVE f[k + 1] = g[k + 1]
    BY <1>2
  <2>1. k + 1 \in 1..n /\ (k + 1) - 1 = k /\ f[k] = g[k]
    BY <1>2
  <2>2. f[k + 1] = Published(f[k], us[k + 1])
    BY <2>1
  <2>3. g[k + 1] = Published(g[k], us[k + 1])
    BY <2>1 DEF Course
  <2> QED
    BY <2>1, <2>2, <2>3
<1> HIDE DEF S
<1>3. Nat \subseteq S
  BY <1>1, <1>2, CountingUp
<1>4. f[n] = g[n]
  BY <1>3 DEF S
<1> QED
  BY <1>4 DEF Course

\* The recursion in Shows defines something, and follows the course.
LEMMA ShowsTheEnd ==
    ASSUME NEW s, NEW us, NEW t, Goes(s, us, t)
    PROVE  Shows(s, us) = t
<1> DEFINE n == Len(us)
<1>1. n \in Nat
  BY ListFacts DEF Goes
<1>2. PICK g : Course(g, s, us, t)
  BY DEF Goes
<1> HIDE DEF n
<1>3. \E f : Follows(f, s, us, n)
  <2> DEFINE f == [i \in 0..n |-> g[i]]
  <2>1. \A i \in 0..n : f[i] = IF i = 0 THEN s ELSE Published(f[i - 1], us[i])
    <3> SUFFICES ASSUME NEW i \in 0..n
        PROVE  f[i] = IF i = 0 THEN s ELSE Published(f[i - 1], us[i])
      OBVIOUS
    <3>1. CASE i = 0
      BY <1>1, <1>2, <3>1 DEF Course
    <3>2. CASE i # 0
      <4>1. i \in 1..n /\ i - 1 \in 0..n
        BY <1>1, <3>2
      <4>2. g[i] = Published(g[i - 1], us[i])
        BY <1>2, <4>1 DEF Course, n
      <4> QED
        BY <3>2, <4>1, <4>2
    <3> QED
      BY <3>1, <3>2
  <2>2. f = [i \in 0..n |-> f[i]]
    OBVIOUS
  <2> HIDE DEF f
  <2>3. Follows(f, s, us, n)
    BY <2>1, <2>2 DEF Follows
  <2> QED
    BY <2>3
<1> DEFINE after == CHOOSE f : Follows(f, s, us, n)
<1>4. Follows(after, s, us, n)
  BY <1>3
<1>5. Shows(s, us) = after[n]
  BY DEF Shows, Follows, n
<1> HIDE DEF after
<1>6. after[0] = s /\ \A i \in 1..n : after[i] = Published(after[i - 1], us[i])
  <2>1. \A i \in 0..n : after[i] = IF i = 0 THEN s ELSE Published(after[i - 1], us[i])
    BY <1>4 DEF Follows
  <2>2. 0 \in 0..n /\ \A i \in 1..n : i \in 0..n /\ i # 0
    BY <1>1
  <2> QED
    BY <2>1, <2>2
<1>7. after[n] = t
  BY <1>1, <1>2, <1>6, CourseIsTheOne DEF n
<1> QED
  BY <1>5, <1>7

\* Nothing leads nowhere else.
LEMMA GoesNowhere == ASSUME NEW s PROVE Goes(s, <<>>, s)
<1>1. Course([i \in {0} |-> s], s, <<>>, s)
  <2>1. Len(<<>>) = 0
    BY ShortLists
  <2> QED
    BY <2>1 DEF Course
<1> QED
  BY <1>1, ShortLists DEF Goes

\* One update.
LEMMA GoesOnce ==
    ASSUME NEW s, NEW u, Benign(FaultOf(s, u))
    PROVE  Goes(s, <<u>>, Published(s, u))
<1> DEFINE us == <<u>>
           f == [i \in {0, 1} |-> IF i = 0 THEN s ELSE Published(s, u)]
<1>1. IsList(us) /\ Len(us) = 1 /\ us[1] = u
  BY ShortLists
<1>2. f[0] = s /\ f[1] = Published(s, u)
  OBVIOUS
<1> HIDE DEF us, f
<1>3. Course(f, s, us, Published(s, u))
  <2>1. \A i \in 1..1 : i = 1 /\ i - 1 = 0
    OBVIOUS
  <2> QED
    BY <1>1, <1>2, <2>1 DEF Course
<1>4. Goes(s, us, Published(s, u))
  BY <1>1, <1>3 DEF Goes
<1> QED
  BY <1>4 DEF us

\* One course after another.
LEMMA GoesOn ==
    ASSUME NEW s, NEW us, NEW t, NEW vs, NEW r, Goes(s, us, t), Goes(t, vs, r)
    PROVE  Goes(s, us \o vs, r)
<1> DEFINE n == Len(us)
           m == Len(vs)
           all == us \o vs
<1>1. IsList(us) /\ IsList(vs) /\ n \in Nat /\ m \in Nat
  BY ListFacts DEF Goes
<1>2. IsList(all) /\ Len(all) = n + m
      /\ \A i \in 1..(n + m) : all[i] = IF i <= n THEN us[i] ELSE vs[i - n]
  BY <1>1, ListConcat
<1>3. PICK f : Course(f, s, us, t)
  BY DEF Goes
<1>4. PICK g : Course(g, t, vs, r)
  BY DEF Goes
<1>5. /\ f[0] = s /\ f[n] = t
      /\ \A i \in 1..n : f[i] = Published(f[i - 1], us[i]) /\ Benign(FaultOf(f[i - 1], us[i]))
  BY <1>3 DEF Course
<1>6. /\ g[0] = t /\ g[m] = r
      /\ \A i \in 1..m : g[i] = Published(g[i - 1], vs[i]) /\ Benign(FaultOf(g[i - 1], vs[i]))
  BY <1>4 DEF Course
<1> HIDE DEF n, m, all
<1> DEFINE h == [i \in 0..(n + m) |-> IF i <= n THEN f[i] ELSE g[i - n]]
<1>7. h[0] = s /\ h[n + m] = r
  <2>1. 0 \in 0..(n + m) /\ n + m \in 0..(n + m) /\ 0 <= n /\ (n + m) - n = m
    BY <1>1
  <2>2. n + m <= n => m = 0 /\ n + m = n
    BY <1>1
  <2> QED
    BY <1>5, <1>6, <2>1, <2>2
<1>8. ASSUME NEW i \in 1..(n + m)
      PROVE  h[i] = Published(h[i - 1], all[i]) /\ Benign(FaultOf(h[i - 1], all[i]))
  <2>1. i \in 0..(n + m) /\ i - 1 \in 0..(n + m)
    BY <1>1
  <2>2. CASE i <= n
    <3>1. i \in 1..n /\ i - 1 <= n
      BY <1>1, <2>2
    <3>2. h[i] = f[i] /\ h[i - 1] = f[i - 1] /\ all[i] = us[i]
      BY <1>2, <2>1, <2>2, <3>1
    <3> HIDE DEF h
    <3> QED
      BY <1>5, <3>1, <3>2
  <2>3. CASE i > n
    <3>1. i - n \in 1..m /\ ~(i <= n) /\ (i - 1) - n = (i - n) - 1
      BY <1>1, <2>3
    <3>2. h[i] = g[i - n] /\ all[i] = vs[i - n]
      BY <1>2, <2>1, <3>1
    <3>3. h[i - 1] = g[(i - n) - 1]
      <4>1. CASE i - 1 <= n
        <5>1. i - 1 = n /\ (i - n) - 1 = 0
          BY <1>1, <2>3, <4>1
        <5> QED
          BY <1>5, <1>6, <2>1, <5>1
      <4>2. CASE ~(i - 1 <= n)
        BY <2>1, <3>1, <4>2
      <4> QED
        BY <4>1, <4>2
    <3> HIDE DEF h
    <3> QED
      BY <1>6, <3>1, <3>2, <3>3
  <2> QED
    BY <1>1, <2>2, <2>3
<1> HIDE DEF h
<1>9. Course(h, s, all, r)
  BY <1>2, <1>7, <1>8 DEF Course
<1>10. Goes(s, all, r)
  BY <1>2, <1>9 DEF Goes
<1> QED
  BY <1>10 DEF all

\* A course without its first update starts where that one leads.
LEMMA GoesTail ==
    ASSUME NEW s, NEW us, NEW t, Goes(s, us, t), us # <<>>
    PROVE  Goes(Published(s, Head(us)), Tail(us), t)
<1> DEFINE n == Len(us)
           rest == Tail(us)
<1>1. PICK f : Course(f, s, us, t)
  BY DEF Goes
<1>2. /\ IsList(rest) /\ Len(rest) = n - 1 /\ n \in Nat \ {0}
      /\ \A i \in 1..(n - 1) : rest[i] = us[i + 1]
      /\ Head(us) = us[1]
  BY ListTail DEF Goes
<1>3. /\ f[0] = s /\ f[n] = t
      /\ \A i \in 1..n : f[i] = Published(f[i - 1], us[i]) /\ Benign(FaultOf(f[i - 1], us[i]))
  BY <1>1 DEF Course
<1> HIDE DEF n, rest
<1> DEFINE g == [i \in 0..(n - 1) |-> f[i + 1]]
<1>4. g[0] = Published(s, us[1]) /\ g[n - 1] = t
  <2>1. 1 \in 1..n /\ 1 - 1 = 0 /\ 0 + 1 = 1 /\ (n - 1) + 1 = n /\ 0 \in 0..(n - 1) /\ n - 1 \in 0..(n - 1)
    BY <1>2
  <2> QED
    BY <1>3, <2>1
<1>5. ASSUME NEW i \in 1..(n - 1)
      PROVE  g[i] = Published(g[i - 1], rest[i]) /\ Benign(FaultOf(g[i - 1], rest[i]))
  <2>1. /\ i + 1 \in 1..n /\ (i + 1) - 1 = i /\ i \in 0..(n - 1) /\ i - 1 \in 0..(n - 1)
        /\ (i - 1) + 1 = i
    BY <1>2
  <2>2. g[i] = f[i + 1] /\ g[i - 1] = f[i] /\ rest[i] = us[i + 1]
    BY <1>2, <2>1
  <2> HIDE DEF g
  <2> QED
    BY <1>3, <2>1, <2>2
<1> HIDE DEF g
<1>6. Course(g, Published(s, us[1]), rest, t)
  BY <1>2, <1>4, <1>5 DEF Course
<1>7. Goes(Published(s, us[1]), rest, t)
  BY <1>2, <1>6 DEF Goes
<1> QED
  BY <1>2, <1>7 DEF rest

-----------------------------------------------------------------------------
(* Pushing.                                                                *)

Ready == [adapter |-> adapter, shown |-> shown]

\* f is what becomes of the adapter and the consumer after each update.
Gets(f, us, n) == f = [i \in 0..n |-> IF i = 0 THEN Ready ELSE Given(f[i - 1], us[i])]

\* The recursion in Push defines something.
LEMMA GetsExists == ASSUME NEW us, NEW n \in Nat PROVE \E f : Gets(f, us, n)
<1> DEFINE S == {k \in Nat : \E f : Gets(f, us, k)}
<1>1. 0 \in S
  <2>1. Gets([i \in 0..0 |-> Ready], us, 0)
    BY DEF Gets
  <2> QED
    BY <2>1
<1>2. ASSUME NEW k \in Nat, k \in S PROVE k + 1 \in S
  <2>1. PICK f : Gets(f, us, k)
    BY <1>2
  <2>2. f = [i \in 0..k |-> IF i = 0 THEN Ready ELSE Given(f[i - 1], us[i])]
    BY <2>1 DEF Gets
  <2> DEFINE g == [i \in 0..k + 1 |-> IF i <= k THEN f[i] ELSE Given(f[k], us[k + 1])]
  <2>3. \A i \in 0..k + 1 : g[i] = IF i = 0 THEN Ready ELSE Given(g[i - 1], us[i])
    <3> SUFFICES ASSUME NEW i \in 0..k + 1
        PROVE  g[i] = IF i = 0 THEN Ready ELSE Given(g[i - 1], us[i])
      OBVIOUS
    <3>1. CASE i = 0
      BY <2>2, <3>1
    <3>2. CASE i # 0 /\ i <= k
      <4>1. i - 1 \in 0..k /\ i \in 0..k
        BY <3>2
      <4> QED
        BY <2>2, <3>2, <4>1
    <3>3. CASE i = k + 1
      BY <3>3
    <3> QED
      BY <3>1, <3>2, <3>3
  <2>4. Gets(g, us, k + 1)
    <3>1. g = [i \in 0..k + 1 |-> g[i]]
      OBVIOUS
    <3> HIDE DEF g
    <3> QED
      BY <2>3, <3>1 DEF Gets
  <2> QED
    BY <2>4
<1> HIDE DEF S
<1>3. Nat \subseteq S
  BY <1>1, <1>2, CountingUp
<1> QED
  BY <1>3 DEF S

\* What Push makes of the adapter and the consumer.
LEMMA PushFacts ==
    ASSUME NEW us, IsList(us), Push(us)
    PROVE  \E f : /\ f[0] = Ready
                  /\ \A i \in 1..Len(us) : f[i] = Given(f[i - 1], us[i])
                  /\ adapter' = f[Len(us)].adapter /\ shown' = f[Len(us)].shown
<1> DEFINE n == Len(us)
<1>1. n \in Nat
  BY ListFacts
<1> DEFINE state == CHOOSE f : Gets(f, us, n)
<1>2. Gets(state, us, n)
  BY <1>1, GetsExists
<1>3. adapter' = state[n].adapter /\ shown' = state[n].shown
  BY DEF Push, Gets, Ready
<1> HIDE DEF state, n
<1>4. state[0] = Ready /\ \A i \in 1..n : state[i] = Given(state[i - 1], us[i])
  <2>1. \A i \in 0..n : state[i] = IF i = 0 THEN Ready ELSE Given(state[i - 1], us[i])
    BY <1>2 DEF Gets
  <2>2. 0 \in 0..n /\ \A i \in 1..n : i \in 0..n /\ i # 0
    BY <1>1
  <2> QED
    BY <2>1, <2>2
<1> QED
  BY <1>3, <1>4 DEF n

Stuck(state) == \E c : state = [adapter |-> "missing child", shown |-> c]
Fine(state, c) == state = [adapter |-> "active", shown |-> c]

\* A panic over a missing child is what it says.
LEMMA StuckFacts == ASSUME NEW state, Stuck(state) PROVE state.adapter = "missing child"
<1>1. PICK c : state = [adapter |-> "missing child", shown |-> c]
  BY DEF Stuck
<1> QED
  BY <1>1

\* What one update makes of them.
LEMMA GivenFacts ==
    ASSUME NEW state, NEW c, NEW u, Benign(FaultOf(c, u)), Fine(state, c) \/ Stuck(state)
    PROVE  Fine(Given(state, u), Published(c, u)) \/ Stuck(Given(state, u))
<1>1. CASE Fine(state, c)
  <2>1. /\ state = [adapter |-> "active", shown |-> c]
        /\ state.adapter = "active" /\ state.shown = c
    BY <1>1 DEF Fine
  <2>2. CASE FaultOf(c, u) = "none"
    <3>1. Given(state, u) = [state EXCEPT !.shown = Published(state.shown, u)]
      BY <2>1, <2>2 DEF Given
    <3>2. Given(state, u) = [adapter |-> "active", shown |-> Published(c, u)]
      BY <2>1, <3>1
    <3> QED
      BY <3>2 DEF Fine
  <2>3. CASE FaultOf(c, u) = "missing child"
    <3>1. Given(state, u) = [state EXCEPT !.adapter = "missing child"]
      BY <2>1, <2>3 DEF Given
    <3>2. Given(state, u) = [adapter |-> "missing child", shown |-> c]
      BY <2>1, <3>1
    <3> QED
      BY <3>2 DEF Stuck
  <2> QED
    BY <2>2, <2>3 DEF Benign
<1>2. CASE Stuck(state)
  <2>1. PICK d : state = [adapter |-> "missing child", shown |-> d]
    BY <1>2 DEF Stuck
  <2>2. state.adapter = "missing child"
    BY <2>1
  <2>3. Given(state, u) = state
    BY <2>2 DEF Given
  <2> QED
    BY <1>2, <2>3
<1> QED
  BY <1>1, <1>2

\* Along a course, each update is delivered until one ends in the panic.
LEMMA GivenAlong ==
    ASSUME NEW f, NEW s, NEW us, NEW t, Goes(s, us, t), Fine(f[0], s),
           \A i \in 1..Len(us) : f[i] = Given(f[i - 1], us[i])
    PROVE  Fine(f[Len(us)], t) \/ Stuck(f[Len(us)])
<1> DEFINE n == Len(us)
<1>1. n \in Nat
  BY ListFacts DEF Goes
<1>2. PICK g : Course(g, s, us, t)
  BY DEF Goes
<1>3. /\ g[0] = s /\ g[n] = t
      /\ \A i \in 1..n : g[i] = Published(g[i - 1], us[i]) /\ Benign(FaultOf(g[i - 1], us[i]))
  BY <1>2 DEF Course
<1>4. \A i \in 1..n : f[i] = Given(f[i - 1], us[i])
  OBVIOUS
<1> HIDE DEF n
<1> DEFINE S == {k \in Nat : k <= n => Fine(f[k], g[k]) \/ Stuck(f[k])}
<1>5. 0 \in S
  BY <1>3
<1>6. ASSUME NEW k \in Nat, k \in S PROVE k + 1 \in S
  <2> SUFFICES ASSUME k + 1 <= n PROVE Fine(f[k + 1], g[k + 1]) \/ Stuck(f[k + 1])
    BY <1>6
  <2>1. k + 1 \in 1..n /\ (k + 1) - 1 = k /\ k <= n
    BY <1>1
  <2>2. Fine(f[k], g[k]) \/ Stuck(f[k])
    BY <1>6, <2>1
  <2>3. f[k + 1] = Given(f[k], us[k + 1])
    BY <1>4, <2>1
  <2>4. g[k + 1] = Published(g[k], us[k + 1]) /\ Benign(FaultOf(g[k], us[k + 1]))
    BY <1>3, <2>1
  <2> QED
    BY <2>2, <2>3, <2>4, GivenFacts
<1> HIDE DEF S
<1>7. Nat \subseteq S
  BY <1>5, <1>6, CountingUp
<1>8. Fine(f[n], g[n]) \/ Stuck(f[n])
  BY <1>1, <1>7 DEF S
<1> QED
  BY <1>3, <1>8 DEF n

\* Updates that keep the rules are delivered, or end in the panic over a
\* missing child.
LEMMA PushGoes ==
    ASSUME NEW us, NEW t, Goes(shown, us, t), Push(us), adapter = "active"
    PROVE  adapter' = "missing child" \/ (adapter' = "active" /\ shown' = t)
<1> DEFINE n == Len(us)
<1>1. PICK f : /\ f[0] = Ready
               /\ \A i \in 1..n : f[i] = Given(f[i - 1], us[i])
               /\ adapter' = f[n].adapter /\ shown' = f[n].shown
  BY PushFacts DEF Goes
<1>2. Fine(f[0], shown)
  BY <1>1 DEF Ready, Fine
<1>3. Fine(f[n], t) \/ Stuck(f[n])
  BY <1>1, <1>2, GivenAlong
<1> HIDE DEF n
<1>4. CASE Fine(f[n], t)
  <2>1. f[n].adapter = "active" /\ f[n].shown = t
    BY <1>4 DEF Fine
  <2> QED
    BY <1>1, <2>1
<1>5. CASE Stuck(f[n])
  <2>1. f[n].adapter = "missing child"
    BY <1>5, StuckFacts
  <2> QED
    BY <1>1, <2>1
<1> QED
  BY <1>3, <1>4, <1>5

\* An adapter that is active after one more update had no fault to find in it.
LEMMA PushClean ==
    ASSUME NEW us, NEW t, NEW u, Goes(shown, us, t), Push(us \o <<u>>), adapter = "active",
           adapter' = "active", Benign(FaultOf(t, u))
    PROVE  FaultOf(t, u) = "none"
<1> DEFINE n == Len(us)
           all == us \o <<u>>
<1>1. IsList(us) /\ n \in Nat
  BY ListFacts DEF Goes
<1>2. /\ IsList(all) /\ Len(all) = n + 1
      /\ \A i \in 1..(n + 1) : all[i] = IF i <= n THEN us[i] ELSE <<u>>[i - n]
  BY <1>1, ShortLists, ListConcat
<1>3. PICK f : /\ f[0] = Ready
               /\ \A i \in 1..Len(all) : f[i] = Given(f[i - 1], all[i])
               /\ adapter' = f[Len(all)].adapter /\ shown' = f[Len(all)].shown
  BY <1>2, PushFacts
<1>4. Fine(f[0], shown)
  BY <1>3 DEF Ready, Fine
<1> HIDE DEF all
<1>5. Fine(f[n], t) \/ Stuck(f[n])
  <2>1. \A i \in 1..n : f[i] = Given(f[i - 1], us[i])
    <3>1. \A i \in 1..n : i \in 1..(n + 1) /\ i <= n
      BY <1>1
    <3> QED
      BY <1>2, <1>3, <3>1
  <2> QED
    BY <1>4, <2>1, GivenAlong
<1> HIDE DEF n
<1>6. f[n + 1] = Given(f[n], u) /\ f[n + 1].adapter = "active"
  <2>1. n + 1 \in 1..(n + 1) /\ ~(n + 1 <= n) /\ (n + 1) - n = 1 /\ (n + 1) - 1 = n
    BY <1>1
  <2>2. all[n + 1] = u
    BY <1>2, <2>1, ShortLists
  <2> QED
    BY <1>2, <1>3, <2>1, <2>2
<1>7. ~Stuck(f[n])
  <2> SUFFICES ASSUME Stuck(f[n]) PROVE FALSE
    OBVIOUS
  <2>1. f[n].adapter = "missing child"
    BY StuckFacts
  <2>2. Given(f[n], u) = f[n]
    BY <2>1 DEF Given
  <2> QED
    BY <1>6, <2>1, <2>2
<1>8. f[n] = [adapter |-> "active", shown |-> t]
  BY <1>5, <1>7 DEF Fine
<1>9. FaultOf(t, u) # "none" => f[n + 1].adapter = FaultOf(t, u)
  <2>1. f[n].adapter = "active" /\ f[n].shown = t
    BY <1>8
  <2>2. FaultOf(t, u) # "none" => f[n + 1] = [f[n] EXCEPT !.adapter = FaultOf(t, u)]
    BY <1>6, <2>1 DEF Given
  <2> QED
    BY <1>8, <2>2
<1> QED
  BY <1>6, <1>9 DEF Benign

\* An adapter that nobody has asked drops them.
LEMMA PushDropped ==
    ASSUME NEW us, IsList(us), Push(us), adapter # "active"
    PROVE  adapter' = adapter /\ shown' = shown
<1> DEFINE n == Len(us)
<1>1. n \in Nat
  BY ListFacts
<1>2. PICK f : /\ f[0] = Ready
               /\ \A i \in 1..n : f[i] = Given(f[i - 1], us[i])
               /\ adapter' = f[n].adapter /\ shown' = f[n].shown
  BY PushFacts
<1> HIDE DEF n
<1> DEFINE S == {k \in Nat : k <= n => f[k] = Ready}
<1>3. 0 \in S
  BY <1>2
<1>4. ASSUME NEW k \in Nat, k \in S PROVE k + 1 \in S
  <2> SUFFICES ASSUME k + 1 <= n PROVE f[k + 1] = Ready
    BY <1>4
  <2>1. k + 1 \in 1..n /\ (k + 1) - 1 = k /\ f[k] = Ready
    BY <1>1, <1>4
  <2>2. f[k + 1] = Given(f[k], us[k + 1])
    BY <1>2, <2>1
  <2> QED
    BY <2>1, <2>2 DEF Given, Ready
<1> HIDE DEF S
<1>5. Nat \subseteq S
  BY <1>3, <1>4, CountingUp
<1>6. f[n] = Ready
  BY <1>1, <1>5 DEF S
<1> QED
  BY <1>2, <1>6 DEF Ready

-----------------------------------------------------------------------------
(* Trees and stores.                                                       *)

\* Pruning keeps the root.
LEMMA RootStays ==
    ASSUME NEW tree, Root \in Ids(tree)
    PROVE  Root \in Ids(Pruned(tree))
<1>1. Root \in Reachable(tree)
  BY RootAssumption DEF Reachable
<1> QED
  BY <1>1 DEF Ids, Pruned

\* So does laying an update over a tree, whichever of the two has the root.
LEMMA RootUnder ==
    ASSUME NEW tree, NEW nodes, Root \in Ids(tree) \/ Root \in Ids(nodes)
    PROVE  Root \in Ids(Overlay(tree, nodes))
BY DEF Ids, Overlay

\* A store with tree data has a root.
StoreFine(s) ==
    \E nodes, rooted, focus :
        /\ s = [nodes |-> nodes, rooted |-> rooted, focus |-> focus]
        /\ rooted \in BOOLEAN /\ (rooted => Root \in Ids(nodes))

\* A snapshot of it is a full update with a root.
LEMMA SnapshotFacts ==
    ASSUME NEW s, StoreFine(s), s.rooted
    PROVE  \E nodes, focus : Snapshot(s) = Update(nodes, focus, TRUE) /\ Root \in Ids(nodes)
<1>1. PICK nodes, rooted, focus :
         /\ s = [nodes |-> nodes, rooted |-> rooted, focus |-> focus]
         /\ rooted \in BOOLEAN /\ (rooted => Root \in Ids(nodes))
  BY DEF StoreFine
<1>2. Root \in Ids(nodes) /\ s.nodes = nodes
  BY <1>1
<1>3. StorePruned(s).nodes = Pruned(nodes)
  BY <1>1 DEF StorePruned
<1> QED
  BY <1>2, <1>3, RootStays DEF Snapshot

\* Pruning keeps a store what it is.
LEMMA PrunedFine ==
    ASSUME NEW s, StoreFine(s)
    PROVE  StoreFine(StorePruned(s))
<1>1. PICK nodes, rooted, focus :
         /\ s = [nodes |-> nodes, rooted |-> rooted, focus |-> focus]
         /\ rooted \in BOOLEAN /\ (rooted => Root \in Ids(nodes))
  BY DEF StoreFine
<1> DEFINE kept == Pruned(nodes)
           lands == IF focus \in Ids(kept) THEN focus ELSE Root
<1>2. StorePruned(s) = [nodes |-> kept, rooted |-> rooted, focus |-> lands]
  <2>1. s.nodes = nodes /\ s.focus = focus
    BY <1>1
  <2>2. StorePruned(s) = [s EXCEPT !.nodes = kept, !.focus = lands]
    BY <2>1 DEF StorePruned
  <2> HIDE DEF kept, lands
  <2> QED
    BY <1>1, <2>2
<1>3. rooted => Root \in Ids(kept)
  BY <1>1, RootStays
<1> HIDE DEF kept, lands
<1> QED
  BY <1>1, <1>2, <1>3 DEF StoreFine

IsUpdate(u) == u = Update(u.nodes, u.focus, u.full)

\* Whatever is put together as an update is one.
LEMMA UpdateIs ==
    ASSUME NEW nodes, NEW focus, NEW full, NEW u, u = Update(nodes, focus, full)
    PROVE  IsUpdate(u) /\ u.nodes = nodes /\ u.focus = focus /\ u.full = full
BY DEF IsUpdate, Update

\* An update the focus of which lands where it can.
LEMMA LandFacts ==
    ASSUME NEW v, IsUpdate(v), NEW before, NEW after, Root \in Ids(after),
           NEW u, u = LandFocus(before, after, v)
    PROVE  u.nodes = v.nodes /\ u.full = v.full /\ u.focus \in Ids(after)
<1>1. v = [nodes |-> v.nodes, focus |-> v.focus, full |-> v.full]
  BY DEF IsUpdate, Update
<1>2. CASE v.focus \in Ids(after)
  BY <1>2 DEF LandFocus
<1>3. CASE v.focus \notin Ids(after)
  <2>1. u = [v EXCEPT !.focus = Root]
    BY <1>3 DEF LandFocus
  <2> QED
    BY <1>1, <2>1
<1> QED
  BY <1>2, <1>3

-----------------------------------------------------------------------------
(* What the consumer has.                                                  *)

\* t has the grafts and the focus, and a subtree for each window in live.
Holds(t, grafts, focus, live, held) ==
    \E subs : /\ t = [grafts |-> grafts, focus |-> focus, subs |-> subs]
              /\ subs = [w \in live |-> subs[w]]
              /\ \A w \in live : subs[w].nodes = held[w]

Exact(t, d) == Holds(t, d.grafted, d.focus, d.live, d.held)

\* Mirrors that say the same of each subtree.
LEMMA HoldsSame ==
    ASSUME NEW t, NEW grafts, NEW focus, NEW live, NEW held, NEW held2,
           Holds(t, grafts, focus, live, held), \A w \in live : held2[w] = held[w]
    PROVE  Holds(t, grafts, focus, live, held2)
BY DEF Holds

\* What the composition may hold.
DeskFine(d) ==
    /\ d = [grafted |-> d.grafted, live |-> d.live, held |-> d.held,
            focus |-> d.focus, started |-> d.started]
    /\ d.live \subseteq d.grafted /\ d.grafted \subseteq Windows /\ DOMAIN d.held = d.live
    /\ d.focus \in d.live \cup {NoWindow}
    /\ ~d.started => d.focus = NoWindow
    /\ \A w \in d.live : Root \in Ids(d.held[w])

\* A root tree whose focus has its subtree.
LEMMA RootGoes ==
    ASSUME NEW t, NEW grafts, NEW focus, NEW live, NEW held, Holds(t, grafts, focus, live, held),
           NEW grafts2, NEW focus2, focus2 # NoWindow => focus2 \in live
    PROVE  \E r : /\ Goes(t, <<RootUpdate(grafts2, focus2)>>, r)
                  /\ Holds(r, grafts2, focus2, live \cap grafts2, held)
<1>1. PICK subs : /\ t = [grafts |-> grafts, focus |-> focus, subs |-> subs]
                  /\ subs = [w \in live |-> subs[w]]
                  /\ \A w \in live : subs[w].nodes = held[w]
  BY DEF Holds
<1> DEFINE x == RootUpdate(grafts2, focus2)
           left == [w \in live \cap grafts2 |-> subs[w]]
           r == Published(t, x)
<1>2. t.subs = subs /\ DOMAIN subs = live
  BY <1>1
<1>3. x.window = NoWindow /\ x.focus = focus2 /\ x.grafts = grafts2
  BY DEF RootUpdate
<1> HIDE DEF x
<1>4. Benign(FaultOf(t, x))
  BY <1>2, <1>3 DEF FaultOf, Benign
<1>5. Goes(t, <<x>>, r)
  BY <1>4, GoesOnce
<1>6. r = [grafts |-> grafts2, focus |-> focus2, subs |-> left]
  BY <1>2, <1>3 DEF Published, Restrict
<1>7. left = [w \in live \cap grafts2 |-> left[w]] /\ \A w \in live \cap grafts2 : left[w].nodes = held[w]
  BY <1>1
<1> HIDE DEF left, r
<1>8. Holds(r, grafts2, focus2, live \cap grafts2, held)
  BY <1>6, <1>7 DEF Holds
<1> QED
  BY <1>5, <1>8 DEF x

\* An update of a subtree, with a landed focus.
LEMMA SubtreePublished ==
    ASSUME NEW grafts, NEW focus, NEW subs, NEW t,
           t = [grafts |-> grafts, focus |-> focus, subs |-> subs],
           NEW w \in grafts, w # NoWindow,
           NEW u, w \in DOMAIN subs \/ u.full,
           NEW after, after = Pruned(Overlay(Subtree(t, w), u.nodes)), u.focus \in Ids(after)
    PROVE  /\ Benign(FaultOf(t, SubtreeUpdate(w, u)))
           /\ Published(t, SubtreeUpdate(w, u)) =
                [grafts |-> grafts, focus |-> focus,
                 subs |-> Put(subs, w, [nodes |-> after, focus |-> u.focus])]
<1> DEFINE x == SubtreeUpdate(w, u)
<1>1. t.grafts = grafts /\ t.subs = subs
  OBVIOUS
<1>2. x.window = w /\ x.update = u
  BY DEF SubtreeUpdate
<1> HIDE DEF x
<1>4. Consumed(Subtree(t, w), u) = after
  BY DEF Consumed
<1>5. FaultOf(t, x) = Fault(w \in DOMAIN subs, Subtree(t, w), u)
  BY <1>1, <1>2 DEF FaultOf
<1>6. Benign(Fault(w \in DOMAIN subs, Subtree(t, w), u))
  BY <1>4 DEF Fault, Benign
<1>7. Published(t, x) = [t EXCEPT !.subs = Put(subs, w, [nodes |-> after, focus |-> u.focus])]
  BY <1>1, <1>2, <1>4 DEF Published
<1>8. Published(t, x) = [grafts |-> grafts, focus |-> focus,
                         subs |-> Put(subs, w, [nodes |-> after, focus |-> u.focus])]
  BY <1>7
<1> QED
  BY <1>5, <1>6, <1>8 DEF x

\* A list of the members of a finite set, each once.
LEMMA SetToSeqFacts ==
    ASSUME NEW S, IsFiniteSet(S), NEW fresh, fresh = SetToSeq(S)
    PROVE  /\ \E n \in Nat : fresh \in [1..n -> S]
           /\ \A i, j \in DOMAIN fresh : fresh[i] = fresh[j] => i = j
           /\ \A w \in S : \E i \in DOMAIN fresh : fresh[i] = w
<1> DEFINE n == Cardinality(S)
<1>1. n \in Nat /\ ExistsBijection(1..n, S)
  BY FS_CardinalityType
<1> HIDE DEF n
<1>2. \E f \in [1..n -> S] : IsInjective(f)
  BY <1>1 DEF ExistsBijection, Bijection, Injection
<1>3. fresh \in [1..n -> S] /\ IsInjective(fresh)
  BY <1>2 DEF SetToSeq, n
<1>4. Cardinality(1..n) = n
  <2>1. 1 \in Int /\ n \in Int
    BY <1>1
  <2>2. Cardinality(1..n) = IF 1 > n THEN 0 ELSE n - 1 + 1
    BY <2>1, FS_Interval
  <2> QED
    BY <1>1, <2>2
<1>5. fresh \in Injection(1..n, S)
  BY <1>3 DEF Injection
<1>6. fresh \in Surjection(1..n, S)
  BY <1>4, <1>5, FS_Injection DEF n
<1> QED
  BY <1>1, <1>3, <1>6 DEF IsInjective, Surjection

\* The snapshots of windows that have become graftable, each on a graft that
\* is there and has no subtree.
LEMMA SnapshotsGo ==
    ASSUME NEW t, NEW grafts, NEW focus, NEW live, NEW held, Holds(t, grafts, focus, live, held),
           NEW ready \in SUBSET grafts, IsFiniteSet(ready), ready \cap live = {}, NoWindow \notin ready,
           \A w \in ready : StoreFine(stores[w]) /\ stores[w].rooted,
           NEW held2, \A w \in live : held2[w] = held[w],
           \A w \in ready : held2[w] = HeldApply({}, Snapshot(stores[w])),
           NEW fresh, fresh = SetToSeq(ready)
    PROVE  \E r :
             /\ Goes(t, [i \in DOMAIN fresh |-> SubtreeUpdate(fresh[i],
                           LandFocus({}, held2[fresh[i]], Snapshot(stores[fresh[i]])))], r)
             /\ Holds(r, grafts, focus, live \cup ready, held2)
<1>1. PICK n \in Nat : fresh \in [1..n -> ready]
  BY SetToSeqFacts
<1>2. /\ DOMAIN fresh = 1..n
      /\ \A i \in 1..n : fresh[i] \in ready
      /\ \A i, j \in 1..n : fresh[i] = fresh[j] => i = j
      /\ \A w \in ready : \E i \in 1..n : fresh[i] = w
  BY <1>1, SetToSeqFacts
<1>3. PICK subs : /\ t = [grafts |-> grafts, focus |-> focus, subs |-> subs]
                  /\ subs = [w \in live |-> subs[w]]
                  /\ \A w \in live : subs[w].nodes = held[w]
  BY DEF Holds
<1> DEFINE landed(w) == LandFocus({}, held2[w], Snapshot(stores[w]))
           us == [i \in 1..n |-> SubtreeUpdate(fresh[i], landed(fresh[i]))]
           given(k) == live \cup {fresh[j] : j \in 1..k}
           at(k) == [w \in given(k) |-> IF w \in live THEN subs[w]
                                          ELSE [nodes |-> held2[w], focus |-> landed(w).focus]]
           f == [k \in 0..n |-> [grafts |-> grafts, focus |-> focus, subs |-> at(k)]]
<1>4. IsList(us) /\ Len(us) = n
  <2>1. DOMAIN us = 1..n /\ us = [i \in 1..n |-> us[i]]
    OBVIOUS
  <2> HIDE DEF us
  <2> QED
    BY <2>1, ListOf
<1>5. \A i \in 1..n : us[i] = SubtreeUpdate(fresh[i], landed(fresh[i]))
  OBVIOUS
<1>6. \A k \in 0..n : f[k] = [grafts |-> grafts, focus |-> focus, subs |-> at(k)]
  OBVIOUS
<1> HIDE DEF us, f
<1>7. f[0] = t
  <2>1. {fresh[j] : j \in 1..0} = {}
    OBVIOUS
  <2>2. given(0) = live
    BY <2>1
  <2>3. at(0) = [w \in live |-> subs[w]]
    BY <2>2
  <2>4. at(0) = subs
    BY <1>3, <2>3
  <2> HIDE DEF at
  <2>5. 0 \in 0..n
    OBVIOUS
  <2> QED
    BY <1>3, <1>6, <2>4, <2>5
<1>8. ASSUME NEW i \in 1..n
      PROVE  f[i] = Published(f[i - 1], us[i]) /\ Benign(FaultOf(f[i - 1], us[i]))
  <2> DEFINE w == fresh[i]
  <2>1. w \in ready /\ w \in grafts /\ w \notin live /\ w # NoWindow
    BY <1>2
  <2>2. i - 1 \in 0..n /\ i \in 0..n /\ \A j \in 1..(i - 1) : j \in 1..n /\ j # i
    OBVIOUS
  <2>3. w \notin given(i - 1)
    BY <1>2, <2>1, <2>2
  <2>4. given(i) = given(i - 1) \cup {w}
    <3>1. 1..i = (1..(i - 1)) \cup {i}
      OBVIOUS
    <3> QED
      BY <3>1
  <2> DEFINE v == Snapshot(stores[w])
  <2>5. IsUpdate(v) /\ v.full = TRUE /\ Root \in Ids(v.nodes)
    <3>1. PICK nodes, foc : v = Update(nodes, foc, TRUE) /\ Root \in Ids(nodes)
      BY <2>1, SnapshotFacts
    <3> QED
      BY <3>1 DEF Update, IsUpdate
  <2>6. f[i - 1] = [grafts |-> grafts, focus |-> focus, subs |-> at(i - 1)]
    BY <1>6, <2>2
  <2>7. DOMAIN at(i - 1) = given(i - 1)
    OBVIOUS
  <2>8. held2[w] = Pruned(Overlay({}, v.nodes)) /\ Root \in Ids(held2[w])
    <3>1. held2[w] = HeldApply({}, Snapshot(stores[w]))
      BY <2>1
    <3>2. held2[w] = Pruned(Overlay({}, v.nodes))
      BY <3>1 DEF HeldApply
    <3> QED
      BY <2>5, <3>2, RootUnder, RootStays
  <2>9. landed(w) = LandFocus({}, held2[w], v)
    OBVIOUS
  <2>10. Put(at(i - 1), w, [nodes |-> held2[w], focus |-> landed(w).focus]) = at(i)
    BY <2>1, <2>3, <2>4, <2>7 DEF Put
  <2>11. us[i] = SubtreeUpdate(w, landed(w)) /\ f[i] = [grafts |-> grafts, focus |-> focus, subs |-> at(i)]
    BY <1>5, <1>6, <2>2
  <2> DEFINE u == landed(w)
             before == at(i - 1)
  <2> HIDE DEF v, w, u, before, given, at, landed
  <2>12. Subtree(f[i - 1], w) = {} /\ f[i - 1].subs = before
    BY <2>3, <2>6, <2>7 DEF Subtree, before
  <2>13. /\ Benign(FaultOf(f[i - 1], SubtreeUpdate(w, u)))
         /\ Published(f[i - 1], SubtreeUpdate(w, u)) =
              [grafts |-> grafts, focus |-> focus,
               subs |-> Put(before, w, [nodes |-> held2[w], focus |-> u.focus])]
    <3>1. f[i - 1] = [grafts |-> grafts, focus |-> focus, subs |-> before]
      BY <2>6 DEF before
    <3>2. u = LandFocus({}, held2[w], v)
      BY <2>9 DEF u
    <3>3. u.nodes = v.nodes /\ u.full = TRUE /\ u.focus \in Ids(held2[w])
      BY <2>5, <2>8, <3>2, LandFacts
    <3>4. held2[w] = Pruned(Overlay(Subtree(f[i - 1], w), u.nodes))
      BY <2>8, <2>12, <3>3
    <3>5. u.full
      BY <3>3
    <3> QED
      BY <2>1, <3>1, <3>3, <3>4, <3>5, SubtreePublished
  <2> QED
    BY <2>10, <2>11, <2>13 DEF u, before
<1>9. Course(f, t, us, f[n])
  BY <1>4, <1>7, <1>8 DEF Course
<1>10. Goes(t, us, f[n])
  BY <1>4, <1>9 DEF Goes
<1>11. Holds(f[n], grafts, focus, live \cup ready, held2)
  <2>1. given(n) = live \cup ready
    BY <1>2
  <2>2. \A w \in live \cup ready : at(n)[w].nodes = held2[w]
    BY <1>3, <2>1
  <2>3. at(n) = [w \in live \cup ready |-> at(n)[w]]
    BY <2>1
  <2>4. n \in 0..n
    OBVIOUS
  <2>5. f[n] = [grafts |-> grafts, focus |-> focus, subs |-> at(n)]
    BY <1>6, <2>4
  <2> HIDE DEF at
  <2> QED
    BY <2>2, <2>3, <2>5 DEF Holds
<1> QED
  BY <1>2, <1>10, <1>11 DEF us

-----------------------------------------------------------------------------
(* A sync.                                                                 *)

StoresFine ==
    /\ DOMAIN stores \subseteq Windows /\ IsFiniteSet(DOMAIN stores)
    /\ \A w \in DOMAIN stores : StoreFine(stores[w])

\* The composition before the snapshots: what it keeps is what is live still.
LEMMA BaseFacts ==
    ASSUME NEW d, DeskFine(d)
    PROVE  /\ Base(d) = [grafted |-> DOMAIN stores, live |-> Base(d).live, held |-> Base(d).held,
                         focus |-> d.focus, started |-> TRUE]
           /\ Base(d).live = IF Resyncs(d) THEN d.live \cap DOMAIN stores ELSE d.live
           /\ Base(d).live \subseteq DOMAIN stores
           /\ DOMAIN Base(d).held = Base(d).live
           /\ \A w \in Base(d).live : Base(d).held[w] = d.held[w] /\ Root \in Ids(Base(d).held[w])
<1>1. /\ d = [grafted |-> d.grafted, live |-> d.live, held |-> d.held,
              focus |-> d.focus, started |-> d.started]
      /\ d.live \subseteq d.grafted /\ DOMAIN d.held = d.live
      /\ \A w \in d.live : Root \in Ids(d.held[w])
  BY DEF DeskFine
<1>2. CASE Resyncs(d)
  <2> DEFINE kept == [w \in d.live \cap DOMAIN stores |-> d.held[w]]
  <2>1. Restrict(d.held, DOMAIN d.held \cap DOMAIN stores) = kept
    BY <1>1 DEF Restrict
  <2>2. Base(d) = [d EXCEPT !.live = d.live \cap DOMAIN stores, !.held = kept,
                            !.grafted = DOMAIN stores, !.started = TRUE]
    BY <1>2, <2>1 DEF Base, Regrafted
  <2>3. /\ DOMAIN kept = d.live \cap DOMAIN stores
        /\ \A w \in d.live \cap DOMAIN stores : kept[w] = d.held[w]
    OBVIOUS
  <2> HIDE DEF kept
  <2>4. Base(d) = [grafted |-> DOMAIN stores, live |-> d.live \cap DOMAIN stores, held |-> kept,
                   focus |-> d.focus, started |-> TRUE]
    BY <1>1, <2>2
  <2>5. Base(d).live = d.live \cap DOMAIN stores /\ Base(d).held = kept
    BY <2>4
  <2> QED
    BY <1>1, <1>2, <2>3, <2>4, <2>5
<1>3. CASE ~Resyncs(d)
  <2>1. Base(d) = d /\ d.grafted = DOMAIN stores /\ d.started
    BY <1>3 DEF Base, Resyncs
  <2>2. d.started = TRUE
    BY <2>1 DEF DeskFine
  <2> QED
    BY <1>1, <1>3, <2>1, <2>2
<1> QED
  BY <1>2, <1>3

Fresh(d) == Graftable(Base(d))

\* The composition with the snapshots: a subtree for each fresh window.
LEMMA SnapshottedFacts ==
    ASSUME NEW d, DeskFine(d), StoresFine
    PROVE  /\ Snapshotted(d) = [grafted |-> DOMAIN stores, live |-> Base(d).live \cup Fresh(d),
                                held |-> Snapshotted(d).held, focus |-> d.focus, started |-> TRUE]
           /\ Snapshotted(d).live = Base(d).live \cup Fresh(d)
           /\ DOMAIN Snapshotted(d).held = Base(d).live \cup Fresh(d)
           /\ \A w \in Base(d).live : Snapshotted(d).held[w] = Base(d).held[w]
           /\ \A w \in Fresh(d) : Snapshotted(d).held[w] = HeldApply({}, Snapshot(stores[w]))
           /\ Fresh(d) \subseteq DOMAIN stores /\ Fresh(d) \cap Base(d).live = {}
           /\ \A w \in Fresh(d) : stores[w].rooted
<1> DEFINE base == Base(d)
           ready == Fresh(d)
           held == [w \in DOMAIN base.held \cup ready |->
                     IF w \in ready THEN HeldApply(HeldOf(base, w), Snapshot(stores[w])) ELSE base.held[w]]
<1>1. /\ base = [grafted |-> DOMAIN stores, live |-> base.live, held |-> base.held,
                 focus |-> d.focus, started |-> TRUE]
      /\ DOMAIN base.held = base.live
  BY BaseFacts
<1>2. ready \subseteq DOMAIN stores /\ ready \cap base.live = {} /\ \A w \in ready : stores[w].rooted
  BY DEF Fresh, Graftable
<1>3. Snapshotted(d) = [base EXCEPT !.live = base.live \cup ready, !.held = held]
  BY DEF Snapshotted, Fresh
<1>4. /\ DOMAIN held = base.live \cup ready
      /\ \A w \in base.live : held[w] = base.held[w]
      /\ \A w \in ready : held[w] = HeldApply({}, Snapshot(stores[w]))
  BY <1>1, <1>2 DEF HeldOf
<1> HIDE DEF base, ready, held
<1>5. Snapshotted(d) = [grafted |-> DOMAIN stores, live |-> base.live \cup ready, held |-> held,
                        focus |-> d.focus, started |-> TRUE]
  <2> DEFINE L == base.live
             H == base.held
  <2>1. base = [grafted |-> DOMAIN stores, live |-> L, held |-> H, focus |-> d.focus, started |-> TRUE]
    BY <1>1
  <2>2. Snapshotted(d) = [base EXCEPT !.live = L \cup ready, !.held = held]
    BY <1>3
  <2> HIDE DEF L, H
  <2>3. Snapshotted(d) = [grafted |-> DOMAIN stores, live |-> L \cup ready, held |-> held,
                          focus |-> d.focus, started |-> TRUE]
    BY <2>1, <2>2
  <2> QED
    BY <2>3 DEF L
<1>6. Snapshotted(d).live = base.live \cup ready /\ Snapshotted(d).held = held
  BY <1>5
<1> QED
  BY <1>2, <1>4, <1>5, <1>6 DEF base, ready

\* A sync leads from what the composition holds to what it holds then.
LEMMA SyncGoes ==
    ASSUME NEW d, DeskFine(d), StoresFine, NEW t, Exact(t, d)
    PROVE  \E r : Goes(t, Sync(d).updates, r) /\ Exact(r, Sync(d).desktop)
<1> DEFINE G == DOMAIN stores
           base == Base(d)
           after == Snapshotted(d)
           first == IF Resyncs(d) THEN NoWindow ELSE d.focus
<1>1. /\ base.live = IF Resyncs(d) THEN d.live \cap G ELSE d.live
      /\ base.live \subseteq G
      /\ \A w \in base.live : base.held[w] = d.held[w]
  BY BaseFacts
<1>2. ~Resyncs(d) => G = d.grafted
  BY DEF Resyncs
<1>3. Holds(t, d.grafted, d.focus, d.live, d.held)
  BY DEF Exact
<1>4. PICK a : Goes(t, RootFirst(d), a) /\ Holds(a, G, first, base.live, base.held)
  <2>1. CASE Resyncs(d)
    <3>1. PICK a : /\ Goes(t, <<RootUpdate(G, NoWindow)>>, a)
                   /\ Holds(a, G, NoWindow, d.live \cap G, d.held)
      BY <1>3, RootGoes
    <3>2. Holds(a, G, NoWindow, base.live, base.held)
      BY <1>1, <2>1, <3>1 DEF Holds
    <3> QED
      BY <2>1, <3>1, <3>2 DEF RootFirst
  <2>2. CASE ~Resyncs(d)
    <3>1. Goes(t, RootFirst(d), t)
      BY <2>2, GoesNowhere DEF RootFirst
    <3>2. Holds(t, G, first, base.live, base.held)
      <4>1. G = d.grafted /\ first = d.focus /\ base.live = d.live
        BY <1>1, <1>2, <2>2
      <4>2. \A w \in d.live : base.held[w] = d.held[w]
        BY <1>1, <4>1
      <4> HIDE DEF G, first, base
      <4> QED
        BY <1>3, <4>1, <4>2, HoldsSame
    <3> QED
      BY <3>1, <3>2
  <2> QED
    BY <2>1, <2>2
<1>5. /\ after.live = base.live \cup Fresh(d)
      /\ \A w \in base.live : after.held[w] = base.held[w]
      /\ \A w \in Fresh(d) : after.held[w] = HeldApply({}, Snapshot(stores[w]))
      /\ Fresh(d) \in SUBSET G /\ Fresh(d) \cap base.live = {}
      /\ \A w \in Fresh(d) : stores[w].rooted
  BY SnapshottedFacts
<1>6. IsFiniteSet(Fresh(d)) /\ NoWindow \notin Fresh(d) /\ \A w \in Fresh(d) : StoreFine(stores[w])
  BY <1>5, FS_Subset, NoWindowAssumption DEF StoresFine
<1>7. PICK b : Goes(a, Snapshots(d), b) /\ Holds(b, G, first, after.live, after.held)
  <2> DEFINE fresh == SetToSeq(Fresh(d))
             held2 == after.held
  <2>1. Snapshots(d) = [i \in DOMAIN fresh |-> SubtreeUpdate(fresh[i],
                          LandFocus({}, held2[fresh[i]], Snapshot(stores[fresh[i]])))]
    BY DEF Snapshots, Fresh
  <2>2. /\ \A w \in base.live : held2[w] = base.held[w]
        /\ \A w \in Fresh(d) : held2[w] = HeldApply({}, Snapshot(stores[w]))
        /\ \A w \in Fresh(d) : StoreFine(stores[w]) /\ stores[w].rooted
        /\ after.live = base.live \cup Fresh(d)
    BY <1>5, <1>6
  <2>3. \E b : /\ Goes(a, [i \in DOMAIN fresh |-> SubtreeUpdate(fresh[i],
                            LandFocus({}, held2[fresh[i]], Snapshot(stores[fresh[i]])))], b)
               /\ Holds(b, G, first, base.live \cup Fresh(d), held2)
    <3> HIDE DEF held2, base, G, first
    <3> QED
      BY <1>4, <1>5, <1>6, <2>2, SnapshotsGo, ZenonT(120)
  <2> QED
    BY <2>1, <2>2, <2>3
<1>8. Goes(t, RootFirst(d) \o Snapshots(d), b)
  BY <1>4, <1>7, GoesOn
<1>9. PICK r : Goes(b, FocusLast(d), r) /\ Holds(r, G, Wanted(d), after.live, after.held)
  <2>1. Wanted(d) # NoWindow => Wanted(d) \in after.live
    BY DEF Wanted
  <2>2. after.live \cap G = after.live
    BY <1>1, <1>5
  <2>3. CASE G # d.grafted \/ Wanted(d) # d.focus
    <3>1. PICK r : /\ Goes(b, <<RootUpdate(G, Wanted(d))>>, r)
                   /\ Holds(r, G, Wanted(d), after.live \cap G, after.held)
      BY <1>7, <2>1, RootGoes
    <3> QED
      BY <2>2, <2>3, <3>1 DEF FocusLast
  <2>4. CASE ~(G # d.grafted \/ Wanted(d) # d.focus)
    <3>1. Goes(b, FocusLast(d), b)
      BY <2>4, GoesNowhere DEF FocusLast
    <3>2. first = Wanted(d)
      BY <2>4 DEF Resyncs, DeskFine
    <3> QED
      BY <1>7, <3>1, <3>2
  <2> QED
    BY <2>3, <2>4
<1>10. Goes(t, Sync(d).updates, r)
  <2>1. Sync(d).updates = (RootFirst(d) \o Snapshots(d)) \o FocusLast(d)
    BY DEF Sync
  <2> QED
    BY <1>8, <1>9, <2>1, GoesOn
<1>11. Exact(r, Sync(d).desktop)
  <2>1. Sync(d).desktop = [after EXCEPT !.focus = Wanted(d)]
    BY DEF Sync
  <2>2. after = [grafted |-> G, live |-> base.live \cup Fresh(d), held |-> after.held,
                 focus |-> d.focus, started |-> TRUE]
    BY SnapshottedFacts
  <2> HIDE DEF after
  <2>3. /\ Sync(d).desktop.grafted = G /\ Sync(d).desktop.live = after.live
        /\ Sync(d).desktop.held = after.held /\ Sync(d).desktop.focus = Wanted(d)
    BY <2>1, <2>2
  <2> QED
    BY <1>9, <2>3 DEF Exact
<1> QED
  BY <1>10, <1>11

\* What a sync makes of the composition is sound.
LEMMA SyncFine ==
    ASSUME NEW d, DeskFine(d), StoresFine
    PROVE  DeskFine(Sync(d).desktop)
<1> DEFINE after == Snapshotted(d)
           G == DOMAIN stores
           L == after.live
           H == after.held
           wanted == Wanted(d)
<1>1. /\ Base(d).live \subseteq G
      /\ \A w \in Base(d).live : Root \in Ids(Base(d).held[w])
  BY BaseFacts
<1>2. /\ after = [grafted |-> G, live |-> L, held |-> H, focus |-> d.focus, started |-> TRUE]
      /\ L = Base(d).live \cup Fresh(d) /\ DOMAIN H = L
      /\ \A w \in Base(d).live : H[w] = Base(d).held[w]
      /\ \A w \in Fresh(d) : H[w] = HeldApply({}, Snapshot(stores[w]))
      /\ Fresh(d) \subseteq G /\ \A w \in Fresh(d) : stores[w].rooted
  BY SnapshottedFacts
<1>3. \A w \in L : Root \in Ids(H[w])
  <2>1. ASSUME NEW w \in Fresh(d) PROVE Root \in Ids(H[w])
    <3>1. StoreFine(stores[w]) /\ stores[w].rooted
      BY <1>2 DEF StoresFine
    <3>2. PICK nodes, focus : Snapshot(stores[w]) = Update(nodes, focus, TRUE) /\ Root \in Ids(nodes)
      BY <3>1, SnapshotFacts
    <3>3. H[w] = Pruned(Overlay({}, nodes))
      BY <1>2, <3>2 DEF HeldApply, Update
    <3> QED
      BY <3>2, <3>3, RootUnder, RootStays
  <2> QED
    BY <1>1, <1>2, <2>1
<1>4. wanted \in L \cup {NoWindow}
  BY DEF Wanted
<1>5. Sync(d).desktop = [after EXCEPT !.focus = wanted]
  BY DEF Sync
<1> HIDE DEF after, L, H, wanted
<1>6. Sync(d).desktop = [grafted |-> G, live |-> L, held |-> H, focus |-> wanted, started |-> TRUE]
  BY <1>2, <1>5, ZenonT(60)
<1> DEFINE e == Sync(d).desktop
<1>7. e.grafted = G /\ e.live = L /\ e.held = H /\ e.focus = wanted /\ e.started = TRUE
  BY <1>6
<1>8. e = [grafted |-> e.grafted, live |-> e.live, held |-> e.held, focus |-> e.focus,
           started |-> e.started]
  BY <1>6, <1>7
<1> HIDE DEF e
<1>9. DeskFine(e)
  BY <1>1, <1>2, <1>3, <1>4, <1>7, <1>8 DEF DeskFine, StoresFine
<1> QED
  BY <1>9 DEF e

\* A snapshot leaves the stores sound.
LEMMA StoresStayFine ==
    ASSUME StoresFine, NEW d, stores' = StoresAfterSync(d) \/ stores' = stores
    PROVE  StoresFine'
<1>1. CASE stores' = StoresAfterSync(d)
  <2>1. /\ DOMAIN stores' = DOMAIN stores
        /\ \A w \in DOMAIN stores : stores'[w] = StorePruned(stores[w]) \/ stores'[w] = stores[w]
    BY <1>1 DEF StoresAfterSync
  <2> QED
    BY <2>1, PrunedFine DEF StoresFine
<1>2. CASE stores' = stores
  BY <1>2 DEF StoresFine
<1> QED
  BY <1>1, <1>2

-----------------------------------------------------------------------------
(* A delta.                                                                *)

\* A delta leads from what the composition holds to what it holds then.
LEMMA RetagGoes ==
    ASSUME NEW d, DeskFine(d), NEW t, Exact(t, d), NEW w, NEW u, IsUpdate(u)
    PROVE  \E r : /\ Goes(t, Retag(d, w, u).updates, r)
                  /\ Exact(r, Retag(d, w, u).desktop) /\ DeskFine(Retag(d, w, u).desktop)
<1> DEFINE x == Retag(d, w, u)
<1>1. CASE w \notin d.live
  <2>1. x = [desktop |-> d, updates |-> <<>>]
    BY <1>1 DEF Retag
  <2>2. x.desktop = d /\ x.updates = <<>>
    BY <2>1
  <2> HIDE DEF x
  <2>3. Goes(t, x.updates, t)
    BY <2>2, GoesNowhere
  <2>4. Exact(t, x.desktop) /\ DeskFine(x.desktop)
    BY <2>2
  <2> QED
    BY <2>3, <2>4 DEF x
<1>2. CASE w \in d.live
  <2> DEFINE after == HeldApply(d.held[w], u)
             landed == LandFocus(d.held[w], after, u)
             held == Put(d.held, w, after)
             G == d.grafted
             L == d.live
             F == d.focus
             S == d.started
  <2>1. /\ d = [grafted |-> G, live |-> L, held |-> d.held, focus |-> F, started |-> S]
        /\ L \subseteq G /\ G \subseteq Windows /\ DOMAIN d.held = L
        /\ F \in L \cup {NoWindow} /\ (~S => F = NoWindow)
        /\ \A v \in L : Root \in Ids(d.held[v])
    BY DEF DeskFine
  <2>2. x = [desktop |-> [d EXCEPT !.held = held], updates |-> <<SubtreeUpdate(w, landed)>>]
    BY <1>2, <2>1 DEF Retag, HeldOf
  <2>3. x.desktop = [d EXCEPT !.held = held] /\ x.updates = <<SubtreeUpdate(w, landed)>>
    BY <2>2
  <2>4. Root \in Ids(after) /\ after = Pruned(Overlay(d.held[w], u.nodes))
    BY <1>2, <2>1, RootUnder, RootStays DEF HeldApply
  <2>5. /\ DOMAIN held = L /\ held[w] = after
        /\ \A v \in L : v # w => held[v] = d.held[v]
    BY <1>2, <2>1 DEF Put
  <2>6. landed.nodes = u.nodes /\ landed.focus \in Ids(after)
    BY <2>4, LandFacts
  <2>7. PICK subs : /\ t = [grafts |-> G, focus |-> F, subs |-> subs]
                    /\ subs = [v \in L |-> subs[v]]
                    /\ \A v \in L : subs[v].nodes = d.held[v]
    BY DEF Exact, Holds
  <2> DEFINE entry == [nodes |-> after, focus |-> landed.focus]
             subs2 == Put(subs, w, entry)
  <2>8. t.subs = subs /\ w \in DOMAIN subs /\ DOMAIN subs = L
    BY <1>2, <2>7
  <2>9. Subtree(t, w) = d.held[w]
    BY <1>2, <2>7, <2>8 DEF Subtree
  <2>10. /\ subs2 = [v \in L |-> subs2[v]]
         /\ \A v \in L : subs2[v].nodes = held[v]
    <3>1. DOMAIN subs2 = L /\ subs2 = [v \in L |-> subs2[v]]
      BY <1>2, <2>8 DEF Put
    <3>2. \A v \in L : subs2[v] = IF v = w THEN entry ELSE subs[v]
      BY <1>2, <2>8 DEF Put
    <3>3. entry.nodes = after
      OBVIOUS
    <3> HIDE DEF subs2, entry, held, after
    <3> QED
      BY <2>5, <2>7, <3>1, <3>2, <3>3
  <2>11. w \in G /\ w # NoWindow
    BY <1>2, <2>1, NoWindowAssumption
  <2>12. after = Pruned(Overlay(Subtree(t, w), landed.nodes))
    BY <2>4, <2>6, <2>9
  <2> HIDE DEF x, after, landed, held, entry, G, L, F, S
  <2>13. /\ Benign(FaultOf(t, SubtreeUpdate(w, landed)))
         /\ Published(t, SubtreeUpdate(w, landed)) = [grafts |-> G, focus |-> F, subs |-> subs2]
    BY <2>6, <2>7, <2>8, <2>11, <2>12, SubtreePublished DEF entry
  <2> DEFINE r == Published(t, SubtreeUpdate(w, landed))
  <2>14. Goes(t, x.updates, r)
    BY <2>3, <2>13, GoesOnce
  <2>15. Holds(r, G, F, L, held)
    <3> HIDE DEF subs2
    <3> QED
      BY <2>10, <2>13 DEF Holds
  <2>16. x.desktop = [grafted |-> G, live |-> L, held |-> held, focus |-> F, started |-> S]
    <3> DEFINE H == d.held
    <3>1. d = [grafted |-> G, live |-> L, held |-> H, focus |-> F, started |-> S]
      BY <2>1
    <3> HIDE DEF H
    <3> QED
      BY <2>3, <3>1
  <2> DEFINE e == x.desktop
  <2>17. e.grafted = G /\ e.live = L /\ e.held = held /\ e.focus = F /\ e.started = S
    BY <2>16
  <2>18. e = [grafted |-> e.grafted, live |-> e.live, held |-> e.held, focus |-> e.focus,
              started |-> e.started]
    BY <2>16, <2>17
  <2> HIDE DEF e, r
  <2>19. Exact(r, e)
    BY <2>15, <2>17 DEF Exact
  <2>20. \A v \in L : Root \in Ids(held[v])
    BY <2>1, <2>4, <2>5
  <2>21. DeskFine(e)
    BY <2>1, <2>5, <2>17, <2>18, <2>20 DEF DeskFine
  <2> QED
    BY <2>14, <2>19, <2>21 DEF x, e
<1> QED
  BY <1>1, <1>2

-----------------------------------------------------------------------------
(* The invariant.                                                          *)

QueueFine ==
    /\ IsList(queue)
    /\ \A i \in 1..Len(queue) : queue[i].kind = "Delta" => IsUpdate(queue[i].update)

\* What is owed leads the consumer to what the composition holds.
Owed == \E t : Goes(shown, pending, t) /\ Exact(t, desktop)

DInv ==
    /\ StoresFine /\ QueueFine /\ DeskFine(desktop)
    /\ adapter \in {"idle", "active", "missing child"}
    /\ adapter = "idle" => pending = <<>>
    /\ adapter = "active" => Owed

\* Any composition is exactly what some consumer has.
LEMMA ExactExists == ASSUME NEW d, DeskFine(d) PROVE \E t : Exact(t, d)
<1> DEFINE subs == [w \in d.live |-> [nodes |-> d.held[w]]]
           t == [grafts |-> d.grafted, focus |-> d.focus, subs |-> subs]
<1>1. subs = [w \in d.live |-> subs[w]] /\ \A w \in d.live : subs[w].nodes = d.held[w]
  OBVIOUS
<1> HIDE DEF subs
<1>2. Exact(t, d)
  BY <1>1 DEF Exact, Holds
<1> QED
  BY <1>2

\* The empty composition is exactly the empty consumer.
LEMMA NothingYet == DeskFine(NewDesktop) /\ Exact(Nothing, NewDesktop)
<1>1. DOMAIN <<>> = {} /\ <<>> = [w \in {} |-> <<>>[w]]
  OBVIOUS
<1>2. /\ NewDesktop.grafted = {} /\ NewDesktop.live = {} /\ NewDesktop.held = <<>>
      /\ NewDesktop.focus = NoWindow /\ NewDesktop.started = FALSE
  BY DEF NewDesktop
<1>3. DeskFine(NewDesktop)
  <2>1. NewDesktop = [grafted |-> NewDesktop.grafted, live |-> NewDesktop.live,
                      held |-> NewDesktop.held, focus |-> NewDesktop.focus,
                      started |-> NewDesktop.started]
    BY DEF NewDesktop
  <2> QED
    BY <1>1, <1>2, <2>1 DEF DeskFine
<1>4. Holds(Nothing, {}, NoWindow, {}, <<>>)
  BY <1>1 DEF Holds, Nothing
<1> QED
  BY <1>2, <1>3, <1>4 DEF Exact

\* The updates of a sync after what is owed, whatever the adapter does.
LEMMA SyncUpdatesGo ==
    ASSUME DInv, Alive
    PROVE  /\ IsList(SyncUpdates(desktop).updates) /\ DeskFine(SyncUpdates(desktop).desktop)
           /\ adapter = "active" => \E r : /\ Goes(shown, SyncUpdates(desktop).updates, r)
                                          /\ Exact(r, SyncUpdates(desktop).desktop)
<1> DEFINE us == Sync(desktop).updates
           d == Sync(desktop).desktop
<1>1. SyncUpdates(desktop).updates = pending \o us /\ SyncUpdates(desktop).desktop = d
  BY DEF SyncUpdates
<1>2. DeskFine(desktop) /\ StoresFine
  BY DEF DInv
<1>3. DeskFine(d)
  BY <1>2, SyncFine
<1>4. IsList(us)
  <2>1. PICK t : Exact(t, desktop)
    BY <1>2, ExactExists
  <2> QED
    BY <1>2, <2>1, SyncGoes DEF Goes
<1> HIDE DEF us, d
<1>5. CASE adapter = "active"
  <2>1. PICK t : Goes(shown, pending, t) /\ Exact(t, desktop)
    BY <1>5 DEF DInv, Owed
  <2>2. PICK r : Goes(t, us, r) /\ Exact(r, d)
    BY <1>2, <2>1, SyncGoes DEF us, d
  <2>3. Goes(shown, pending \o us, r)
    BY <2>1, <2>2, GoesOn
  <2>4. IsList(pending \o us)
    BY <2>3 DEF Goes
  <2> QED
    BY <1>1, <1>3, <2>2, <2>3, <2>4
<1>6. CASE adapter = "idle"
  <2>1. pending = <<>>
    BY <1>6 DEF DInv
  <2>2. IsList(pending \o us)
    BY <1>4, <2>1, ShortLists, ListConcat
  <2> QED
    BY <1>1, <1>3, <1>6, <2>2
<1> QED
  BY <1>5, <1>6 DEF Alive

\* What a push leaves behind, once nothing is owed.
LEMMA PushLeaves ==
    ASSUME NEW us, IsList(us), Push(us), Alive, pending' = <<>>,
           adapter = "active" => \E r : Goes(shown, us, r) /\ Exact(r, desktop')
    PROVE  /\ adapter' \in {"idle", "active", "missing child"}
           /\ adapter' = "active" => Owed'
<1>1. CASE adapter = "idle"
  BY <1>1, PushDropped
<1>2. CASE adapter = "active"
  <2>1. PICK r : Goes(shown, us, r) /\ Exact(r, desktop')
    BY <1>2
  <2>2. adapter' = "missing child" \/ (adapter' = "active" /\ shown' = r)
    BY <1>2, <2>1, PushGoes
  <2>3. Goes(r, <<>>, r)
    BY GoesNowhere
  <2>4. adapter' = "active" => Goes(shown', pending', r)
    BY <2>2, <2>3
  <2> QED
    BY <2>1, <2>2, <2>4 DEF Owed
<1> QED
  BY <1>1, <1>2 DEF Alive

\* A message taken leaves the rest of the queue as it is.
LEMMA TakeKeeps == ASSUME DInv, Take PROVE QueueFine' /\ Alive /\ Head(queue) = queue[1] /\ 1 \in 1..Len(queue)
<1>1. IsList(queue) /\ queue # <<>> /\ queue' = Tail(queue) /\ Alive
  BY DEF DInv, QueueFine, Take
<1>2. /\ IsList(queue') /\ Len(queue') = Len(queue) - 1 /\ Len(queue) \in Nat \ {0}
      /\ \A i \in 1..(Len(queue) - 1) : queue'[i] = queue[i + 1]
      /\ Head(queue) = queue[1]
  BY <1>1, ListTail
<1>3. \A i \in 1..Len(queue') : i + 1 \in 1..Len(queue) /\ queue'[i] = queue[i + 1]
  BY <1>2
<1>4. QueueFine'
  BY <1>2, <1>3 DEF DInv, QueueFine
<1> QED
  BY <1>1, <1>2, <1>4

\* Handling a request to sync.
LEMMA HandleSyncKeeps == ASSUME DInv, HandleSync PROVE DInv'
<1> DEFINE us == SyncUpdates(desktop).updates
           d == SyncUpdates(desktop).desktop
<1>1. /\ Take /\ desktop' = d /\ Push(us) /\ pending' = <<>>
      /\ stores' = StoresAfterSync(desktop)
  BY DEF HandleSync, SyncUpdates
<1>2. QueueFine' /\ Alive
  BY <1>1, TakeKeeps
<1>3. /\ IsList(us) /\ DeskFine(d)
      /\ adapter = "active" => \E r : Goes(shown, us, r) /\ Exact(r, d)
  BY <1>2, SyncUpdatesGo
<1> HIDE DEF us, d
<1>4. adapter' \in {"idle", "active", "missing child"} /\ (adapter' = "active" => Owed')
  BY <1>1, <1>2, <1>3, PushLeaves
<1>5. StoresFine'
  BY <1>1, StoresStayFine DEF DInv
<1>6. DeskFine(desktop)'
  <2>1. DeskFine(desktop')
    BY <1>1, <1>3
  <2> QED
    BY <2>1 DEF DeskFine
<1> QED
  BY <1>1, <1>2, <1>4, <1>5, <1>6 DEF DInv

\* Handling a delta: what is owed goes first.
LEMMA HandleDeltaKeeps == ASSUME DInv, Host = "visible", HandleDelta PROVE DInv'
<1> DEFINE w == Head(queue).window
           u == Head(queue).update
           first == IF pending = <<>> THEN [desktop |-> desktop, updates |-> <<>>]
                    ELSE SyncUpdates(desktop)
           d == first.desktop
           us == first.updates
           vs == Retag(d, w, u).updates
           e == Retag(d, w, u).desktop
<1>1. /\ Take /\ Head(queue).kind = "Delta" /\ pending' = <<>>
      /\ stores' = StoresAfterSync(desktop) \/ stores' = stores
      /\ desktop' = DeltaUpdates(w, u).desktop /\ Push(DeltaUpdates(w, u).updates)
  BY DEF HandleDelta
<1>2. DeltaUpdates(w, u).desktop = e /\ DeltaUpdates(w, u).updates = us \o vs
  BY DEF DeltaUpdates
<1>3. QueueFine' /\ Alive /\ IsUpdate(u)
  BY <1>1, TakeKeeps DEF DInv, QueueFine
<1>4. /\ IsList(us) /\ DeskFine(d)
      /\ adapter = "active" => \E t : Goes(shown, us, t) /\ Exact(t, d)
  <2>1. CASE pending = <<>>
    <3>1. d = desktop /\ us = <<>>
      BY <2>1
    <3> HIDE DEF d, us
    <3>2. adapter = "active" => \E t : Goes(shown, us, t) /\ Exact(t, d)
      BY <2>1, <3>1 DEF DInv, Owed
    <3> QED
      BY <3>1, <3>2, ShortLists DEF DInv
  <2>2. CASE pending # <<>>
    <3>1. d = SyncUpdates(desktop).desktop /\ us = SyncUpdates(desktop).updates
      BY <2>2
    <3> HIDE DEF d, us
    <3> QED
      BY <1>3, <3>1, SyncUpdatesGo
  <2> QED
    BY <2>1, <2>2
<1> HIDE DEF w, u, d, us, first
<1>5. DeskFine(e) /\ IsList(vs)
  <2>1. PICK t : Exact(t, d)
    BY <1>4, ExactExists
  <2>2. PICK r : Goes(t, vs, r) /\ Exact(r, e) /\ DeskFine(e)
    BY <1>3, <1>4, <2>1, RetagGoes
  <2> QED
    BY <2>2 DEF Goes
<1>6. IsList(us \o vs)
  <2> HIDE DEF vs
  <2> QED
    BY <1>4, <1>5, ListConcat
<1>7. adapter = "active" => \E r : Goes(shown, us \o vs, r) /\ Exact(r, e)
  <2> SUFFICES ASSUME adapter = "active" PROVE \E r : Goes(shown, us \o vs, r) /\ Exact(r, e)
    OBVIOUS
  <2>1. PICK t : Goes(shown, us, t) /\ Exact(t, d)
    BY <1>4
  <2>2. PICK r : Goes(t, vs, r) /\ Exact(r, e)
    BY <1>3, <1>4, <2>1, RetagGoes
  <2> HIDE DEF vs, e
  <2> QED
    BY <2>1, <2>2, GoesOn
<1> HIDE DEF vs, e
<1>8. adapter' \in {"idle", "active", "missing child"} /\ (adapter' = "active" => Owed')
  <2>1. desktop' = e /\ Push(us \o vs)
    BY <1>1, <1>2
  <2> QED
    BY <1>1, <1>3, <1>6, <1>7, <2>1, PushLeaves
<1>9. StoresFine'
  BY <1>1, StoresStayFine DEF DInv
<1>10. DeskFine(desktop)'
  <2>1. DeskFine(desktop')
    BY <1>1, <1>2, <1>5
  <2> QED
    BY <2>1 DEF DeskFine
<1> QED
  BY <1>1, <1>3, <1>8, <1>9, <1>10 DEF DInv

\* A reader that asks: the root tree at once, the rest is owed.
LEMMA ActivateKeeps == ASSUME DInv, Activate PROVE DInv'
<1> DEFINE us == Sync(NewDesktop).updates
           d == Sync(NewDesktop).desktop
<1>1. /\ adapter = "idle" /\ adapter' = "active" /\ desktop' = d
      /\ shown' = Published(Nothing, Head(us)) /\ pending' = pending \o Tail(us)
      /\ stores' = StoresAfterSync(NewDesktop) /\ queue' = queue
  BY DEF Activate
<1>2. DeskFine(NewDesktop) /\ Exact(Nothing, NewDesktop) /\ StoresFine
  BY NothingYet DEF DInv
<1>3. PICK t : Goes(Nothing, us, t) /\ Exact(t, d)
  BY <1>2, SyncGoes
<1>4. DeskFine(d)
  BY <1>2, SyncFine
<1>5. us # <<>>
  <2> DEFINE rest == FocusLast(NewDesktop)
             a == RootFirst(NewDesktop)
             b == Snapshots(NewDesktop)
  <2>1. us = (a \o b) \o rest
    BY DEF Sync
  <2>2. a = <<RootUpdate(DOMAIN stores, NoWindow)>>
    BY DEF RootFirst, Resyncs, NewDesktop
  <2>3. IsList(a) /\ Len(a) = 1
    BY <2>2, ShortLists
  <2>4. IsList(rest)
    BY ShortLists DEF FocusLast
  <2>5. IsList(b)
    <3>1. IsFiniteSet(Graftable(Base(NewDesktop)))
      BY <1>2, FS_Subset DEF StoresFine, Graftable
    <3> DEFINE fresh == SetToSeq(Graftable(Base(NewDesktop)))
    <3>2. PICK n \in Nat : DOMAIN fresh = 1..n
      BY <3>1, SetToSeqFacts
    <3>3. DOMAIN b = 1..n /\ b = [i \in 1..n |-> b[i]]
      BY <3>2 DEF Snapshots
    <3> HIDE DEF b
    <3> QED
      BY <3>3, ListOf
  <2> HIDE DEF a, b, rest
  <2>6. IsList(a \o b) /\ Len(a \o b) = 1 + Len(b) /\ Len(b) \in Nat /\ Len(rest) \in Nat
    BY <2>3, <2>4, <2>5, ListConcat, ListFacts, ZenonT(60)
  <2>7. Len((a \o b) \o rest) = (1 + Len(b)) + Len(rest)
    BY <2>4, <2>6, ListConcat
  <2>8. Len(us) # 0
    BY <2>1, <2>6, <2>7
  <2> QED
    BY <2>8, ShortLists
<1> HIDE DEF us, d
<1>6. Goes(shown', Tail(us), t)
  BY <1>1, <1>3, <1>5, GoesTail
<1>7. pending' = Tail(us)
  <2>1. PICK U : Tail(us) \in Seq(U)
    BY <1>6 DEF Goes, IsList
  <2>2. <<>> \o Tail(us) = Tail(us)
    BY <2>1, ConcatEmptySeq
  <2> QED
    BY <1>1, <2>2 DEF DInv
<1>8. Owed'
  BY <1>1, <1>3, <1>6, <1>7 DEF Owed
<1>9. StoresFine'
  BY <1>1, <1>2, StoresStayFine
<1>10. DeskFine(desktop)'
  <2>1. DeskFine(desktop')
    BY <1>1, <1>4
  <2> QED
    BY <2>1 DEF DeskFine
<1>11. QueueFine'
  BY <1>1 DEF DInv, QueueFine
<1> QED
  BY <1>1, <1>8, <1>9, <1>10, <1>11 DEF DInv

\* A post adds updates to the queue and leaves the composition alone.
LEMMA PostsKeep ==
    ASSUME DInv, NEW messages, IsList(messages), Posts(messages), StoresFine',
           \A i \in 1..Len(messages) : messages[i].kind = "Delta" => IsUpdate(messages[i].update)
    PROVE  DInv'
<1>1. queue' = queue \o messages /\ UNCHANGED <<desktop, pending, adapter, shown>>
  BY DEF Posts
<1>2. QueueFine'
  <2>1. IsList(queue) /\ Len(queue) \in Nat /\ Len(messages) \in Nat
    BY ListFacts DEF DInv, QueueFine
  <2>2. /\ IsList(queue') /\ Len(queue') = Len(queue) + Len(messages)
        /\ \A i \in 1..(Len(queue) + Len(messages)) :
             queue'[i] = IF i <= Len(queue) THEN queue[i] ELSE messages[i - Len(queue)]
    BY <1>1, <2>1, ListConcat
  <2>3. ASSUME NEW i \in 1..Len(queue'), queue'[i].kind = "Delta"
        PROVE  IsUpdate(queue'[i].update)
    <3>1. CASE i <= Len(queue)
      <4>1. i \in 1..Len(queue) /\ queue'[i] = queue[i]
        BY <2>1, <2>2, <3>1
      <4> QED
        BY <2>3, <4>1 DEF DInv, QueueFine
    <3>2. CASE ~(i <= Len(queue))
      <4>1. i - Len(queue) \in 1..Len(messages) /\ queue'[i] = messages[i - Len(queue)]
        BY <2>1, <2>2, <3>2
      <4> QED
        BY <2>3, <4>1
    <3> QED
      BY <3>1, <3>2
  <2> QED
    BY <2>2, <2>3 DEF QueueFine
<1>3. DeskFine(desktop)'
  BY <1>1 DEF DInv, DeskFine
<1>4. adapter' = "active" => Owed'
  BY <1>1 DEF DInv, Owed
<1> QED
  BY <1>1, <1>2, <1>3, <1>4 DEF DInv

\* A request to sync, posted alone.
LEMMA SyncPosted ==
    ASSUME DInv, Posts(<<SyncMsg>>), StoresFine'
    PROVE  DInv'
<1> DEFINE messages == <<SyncMsg>>
<1>1. IsList(messages) /\ Len(messages) = 1 /\ messages[1] = SyncMsg
  BY ShortLists
<1>2. SyncMsg.kind # "Delta"
  BY DEF SyncMsg
<1> HIDE DEF messages
<1>3. \A i \in 1..Len(messages) : messages[i].kind = "Delta" => IsUpdate(messages[i].update)
  <2>1. \A i \in 1..Len(messages) : i = 1
    BY <1>1
  <2> QED
    BY <1>1, <1>2, <2>1
<1> QED
  BY <1>1, <1>3, PostsKeep DEF messages

\* A window comes without a tree.
LEMMA WindowAddedKeeps == ASSUME DInv, NEW w \in Windows, WindowAdded(w) PROVE DInv'
<1>1. stores' = Put(stores, w, NewStore) /\ Posts(<<SyncMsg>>)
  BY DEF WindowAdded
<1>2. StoreFine(NewStore)
  BY DEF StoreFine, NewStore
<1>3. /\ DOMAIN stores' = DOMAIN stores \cup {w}
      /\ \A v \in DOMAIN stores \cup {w} : stores'[v] = IF v = w THEN NewStore ELSE stores[v]
  BY <1>1 DEF Put
<1>4. IsFiniteSet(DOMAIN stores \cup {w})
  <2>1. IsFiniteSet(DOMAIN stores)
    BY DEF DInv, StoresFine
  <2> QED
    BY <2>1, FS_AddElement
<1>5. StoresFine'
  BY <1>2, <1>3, <1>4 DEF DInv, StoresFine
<1> QED
  BY <1>1, <1>5, SyncPosted

\* A window goes with its store.
LEMMA WindowRemovedKeeps == ASSUME DInv, NEW w, WindowRemoved(w) PROVE DInv'
<1>1. stores' = Restrict(stores, DOMAIN stores \ {w}) /\ Posts(<<SyncMsg>>)
  BY DEF WindowRemoved
<1>2. /\ DOMAIN stores' = DOMAIN stores \ {w}
      /\ \A v \in DOMAIN stores \ {w} : stores'[v] = stores[v]
  BY <1>1 DEF Restrict
<1>3. IsFiniteSet(DOMAIN stores \ {w})
  BY FS_Subset DEF DInv, StoresFine
<1>4. StoresFine'
  BY <1>2, <1>3 DEF DInv, StoresFine
<1> QED
  BY <1>1, <1>4, SyncPosted

\* A tree update is applied to the store, and queued as it was received.
LEMMA TreeUpdatedKeeps ==
    ASSUME DInv, NEW w, NEW tree \in Trees, NEW sent, NEW focus, NEW full \in BOOLEAN,
           TreeUpdated(w, tree, sent, focus, full)
    PROVE  DInv'
<1> DEFINE received == StoreApply(stores[w], Update(sent, focus, full))
           guarded == StoreGuard(received)
           u == Update(sent, guarded.focus, full)
           messages == <<DeltaMsg(w, u), SyncMsg>>
<1>1. /\ w \in DOMAIN stores /\ (full => sent = tree)
      /\ stores' = [stores EXCEPT ![w] = guarded] /\ Posts(messages)
  BY DEF TreeUpdated
<1>2. StoreFine(guarded)
  <2>1. StoreFine(stores[w])
    BY <1>1 DEF DInv, StoresFine
  <2>2. PICK nodes, rooted, foc :
           /\ stores[w] = [nodes |-> nodes, rooted |-> rooted, focus |-> foc]
           /\ rooted \in BOOLEAN /\ (rooted => Root \in Ids(nodes))
    BY <2>1 DEF StoreFine
  <2> DEFINE all == Overlay(nodes, sent)
             now == rooted \/ full
  <2>3. received = [nodes |-> all, rooted |-> now, focus |-> focus]
    BY <2>2 DEF StoreApply, Update
  <2>4. now => Root \in Ids(all)
    BY <1>1, <2>2, RootUnder, TreesAssumption
  <2>5. now \in BOOLEAN
    BY <2>2
  <2> HIDE DEF all, now, received
  <2>6. guarded = received \/ guarded = [received EXCEPT !.focus = Root]
    BY DEF StoreGuard
  <2>7. \E at : guarded = [nodes |-> all, rooted |-> now, focus |-> at]
    BY <2>3, <2>6
  <2> HIDE DEF guarded
  <2> QED
    BY <2>4, <2>5, <2>7 DEF StoreFine
<1> HIDE DEF guarded
<1>3. StoresFine'
  <2>1. /\ DOMAIN stores' = DOMAIN stores /\ stores'[w] = guarded
        /\ \A v \in DOMAIN stores : v # w => stores'[v] = stores[v]
    BY <1>1
  <2> QED
    BY <1>2, <2>1 DEF DInv, StoresFine
<1>4. IsUpdate(u)
  BY UpdateIs
<1> HIDE DEF u
<1>5. /\ IsList(messages) /\ Len(messages) = 2
      /\ messages[1] = DeltaMsg(w, u) /\ messages[2] = SyncMsg
  <2>1. messages \in Seq({DeltaMsg(w, u), SyncMsg})
    OBVIOUS
  <2> QED
    BY <2>1 DEF IsList
<1>6. DeltaMsg(w, u).update = u /\ SyncMsg.kind # "Delta"
  BY DEF DeltaMsg, SyncMsg
<1> HIDE DEF messages
<1>7. \A i \in 1..Len(messages) : messages[i].kind = "Delta" => IsUpdate(messages[i].update)
  <2>1. \A i \in 1..Len(messages) : i = 1 \/ i = 2
    BY <1>5
  <2> QED
    BY <1>4, <1>5, <1>6, <2>1
<1> QED
  BY <1>1, <1>3, <1>5, <1>7, PostsKeep

-----------------------------------------------------------------------------
(* The theorems.                                                           *)

\* The invariant holds at the start.
LEMMA DesktopInitHolds == DesktopInit => DInv
<1> SUFFICES ASSUME DesktopInit PROVE DInv
  OBVIOUS
<1>1. stores = <<>> /\ queue = <<>> /\ desktop = NewDesktop /\ pending = <<>> /\ adapter = "idle"
  BY DEF DesktopInit
<1>2. DOMAIN stores = {}
  BY <1>1
<1>3. StoresFine
  BY <1>2, FS_EmptySet DEF StoresFine
<1>4. QueueFine
  BY <1>1, ShortLists DEF QueueFine
<1> QED
  BY <1>1, <1>3, <1>4, NothingYet DEF DInv

\* Every step keeps the invariant.
LEMMA DesktopStepKeeps ==
    ASSUME DInv, Host = "visible", [DesktopNext]_desktopVars
    PROVE  DInv'
<1>1. CASE FromProvider
  <2>1. ASSUME NEW w \in Windows, WindowAdded(w) \/ WindowRemoved(w) PROVE DInv'
    BY <2>1, WindowAddedKeeps, WindowRemovedKeeps
  <2>2. ASSUME NEW f \in Windows \cup {NoWindow}, FocusChanged(f) PROVE DInv'
    <3>1. Posts(<<SyncMsg>>) /\ stores' = stores
      BY <2>2 DEF FocusChanged
    <3>2. StoresFine'
      BY <3>1 DEF DInv, StoresFine
    <3> QED
      BY <3>1, <3>2, SyncPosted
  <2>3. ASSUME NEW w \in Windows, NEW tree \in Trees, NEW focus \in Nodes, NEW full \in BOOLEAN,
               NEW sent \in (SUBSET tree) \ {{}}, TreeUpdated(w, tree, sent, focus, full)
        PROVE  DInv'
    BY <2>3, TreeUpdatedKeeps
  <2> QED
    BY <1>1, <2>1, <2>2, <2>3 DEF FromProvider
<1>2. CASE Beat
  <2>1. Posts(<<SyncMsg>>) /\ stores' = stores
    BY <1>2 DEF Beat
  <2>2. StoresFine'
    BY <2>1 DEF DInv, StoresFine
  <2> QED
    BY <2>1, <2>2, SyncPosted
<1>3. CASE Activate
  BY <1>3, ActivateKeeps
<1>4. CASE HandleSync
  BY <1>4, HandleSyncKeeps
<1>5. CASE HandleDelta
  BY <1>5, HandleDeltaKeeps
<1>6. CASE UNCHANGED desktopVars
  <2>1. UNCHANGED <<stores, queue, desktop, pending, adapter, shown>>
    BY <1>6 DEF desktopVars
  <2>2. StoresFine' /\ QueueFine'
    BY <2>1 DEF DInv, StoresFine, QueueFine
  <2>3. DeskFine(desktop)'
    BY <2>1 DEF DInv, DeskFine
  <2>4. adapter' = "active" => Owed'
    BY <2>1 DEF DInv, Owed
  <2> QED
    BY <2>1, <2>2, <2>3, <2>4 DEF DInv
<1> QED
  BY <1>1, <1>2, <1>3, <1>4, <1>5, <1>6 DEF DesktopNext, Handle

\* Hosted as the plugin hosts it, the composition's books are kept: whatever
\* the order in which messages, beats and the screen reader come, what is
\* owed can be delivered, and makes the consumer what the composition holds.
THEOREM DesktopInvariance == ASSUME Host = "visible" PROVE DesktopSpec => []DInv
<1>1. DInv /\ [DesktopNext]_desktopVars => DInv'
  BY DesktopStepKeeps
<1> QED
  BY <1>1, DesktopInitHolds, PTL DEF DesktopSpec

\* No update breaks a rule of the composition: no subtree without its graft,
\* no first push without tree data, no focus on a graft without a subtree
\* (the rules at the head of client desktop.rs).
THEOREM RulesAreKept == ASSUME Host = "visible" PROVE DesktopSpec => []RulesKept
<1>1. DInv => RulesKept
  BY DEF DInv, RulesKept
<1> QED
  BY <1>1, DesktopInvariance, PTL

\* No update leaves the focus of a subtree on a node the consumer discards
\* (DesktopTree::land_focus).
THEOREM FocusHasLanded == ASSUME Host = "visible" PROVE DesktopSpec => []FocusLands
<1>1. DInv => FocusLands
  BY DEF DInv, FocusLands
<1> QED
  BY <1>1, DesktopInvariance, PTL

\* Once what is owed has been delivered, the grafts, the focus and every
\* subtree DesktopTree believes the consumer has are those it has (Held).
THEOREM HeldIsWhatIsThere == ASSUME Host = "visible" PROVE DesktopSpec => []HeldIsExact
<1>1. ASSUME DInv PROVE HeldIsExact
  <2> SUFFICES ASSUME adapter = "active"
      PROVE  /\ desktop.grafted = Delivered.grafts /\ desktop.focus = Delivered.focus
             /\ desktop.live = DOMAIN Delivered.subs
             /\ \A w \in desktop.live : desktop.held[w] = Delivered.subs[w].nodes
    BY DEF HeldIsExact
  <2>1. PICK t : Goes(shown, pending, t) /\ Exact(t, desktop)
    BY <1>1 DEF DInv, Owed
  <2>2. Delivered = t
    BY <2>1, ShowsTheEnd DEF Delivered
  <2>3. PICK subs : /\ t = [grafts |-> desktop.grafted, focus |-> desktop.focus, subs |-> subs]
                    /\ subs = [w \in desktop.live |-> subs[w]]
                    /\ \A w \in desktop.live : subs[w].nodes = desktop.held[w]
    BY <2>1 DEF Exact, Holds
  <2>4. t.grafts = desktop.grafted /\ t.focus = desktop.focus /\ t.subs = subs
    BY <2>3
  <2>5. DOMAIN subs = desktop.live
    BY <2>3
  <2> QED
    BY <2>2, <2>3, <2>4, <2>5
<1> QED
  BY <1>1, DesktopInvariance, PTL

-----------------------------------------------------------------------------
(* The provider's trees.  The second half shows that a reader that has     *)
(* caught up has them.  The course of updates above says only that the     *)
(* consumer has what the composition holds; what the composition holds is  *)
(* related to the provider by way of the queue: whatever no queued delta   *)
(* mentions is already as the provider has it.                             *)

\* What the root reaches is closed, and leads to itself.
LEMMA ReachFacts ==
    ASSUME NEW tree, \A x \in tree : x.kids \subseteq Nodes
    PROVE  /\ Root \in Reachable(tree) /\ Reachable(tree) \subseteq Nodes
           /\ \A x \in tree : x.id \in Reachable(tree) => x.kids \subseteq Reachable(tree)
<1>1. Root \in Reachable(tree) /\ Reachable(tree) \subseteq Nodes
  BY RootAssumption DEF Reachable
<1>2. ASSUME NEW x \in tree, x.id \in Reachable(tree), NEW k \in x.kids
      PROVE  k \in Reachable(tree)
  <2>1. ASSUME NEW S \in SUBSET Nodes,
               Root \in S /\ \A y \in tree : y.id \in S => y.kids \subseteq S
        PROVE  k \in S
    <3>1. x.id \in S
      BY <1>2, <2>1 DEF Reachable
    <3> QED
      BY <1>2, <2>1, <3>1
  <2>2. k \in Nodes
    BY <1>2
  <2> QED
    BY <2>1, <2>2 DEF Reachable
<1> QED
  BY <1>1, <1>2

\* A closed set holds what the root reaches.
LEMMA ReachLeast ==
    ASSUME NEW tree, NEW S \in SUBSET Nodes, Root \in S,
           \A x \in tree : x.id \in S => x.kids \subseteq S
    PROVE  Reachable(tree) \subseteq S
BY DEF Reachable

\* Pruning leaves well formed what is.
LEMMA PrunedTree == ASSUME NEW tree, IsTree(tree) PROVE IsTree(Pruned(tree)) /\ Pruned(tree) \subseteq tree
BY DEF IsTree, Pruned

\* So does laying nodes over a tree.
LEMMA OverlayTree ==
    ASSUME NEW tree, NEW nodes, IsTree(tree), IsTree(nodes)
    PROVE  IsTree(Overlay(tree, nodes))
<1>1. ASSUME NEW x \in Overlay(tree, nodes)
      PROVE  x.id \in Nodes /\ x.kids \subseteq Nodes
  BY DEF Overlay, IsTree
<1>2. ASSUME NEW x \in Overlay(tree, nodes), NEW y \in Overlay(tree, nodes), y.id = x.id
      PROVE  y = x
  <2>1. \A z \in nodes : z.id \in Ids(nodes)
    BY DEF Ids
  <2> QED
    BY <1>2 DEF Overlay, IsTree, Ids
<1> QED
  BY <1>1, <1>2 DEF IsTree

\* What has been pruned stays as it is.
LEMMA PrunedTwice == ASSUME NEW tree, IsTree(tree) PROVE Pruned(Pruned(tree)) = Pruned(tree)
<1> DEFINE kept == Pruned(tree)
           R == Reachable(tree)
           Q == Reachable(kept)
<1>1. \A x \in tree : x.kids \subseteq Nodes
  BY DEF IsTree
<1>2. kept \subseteq tree /\ \A x \in tree : x \in kept <=> x.id \in R
  BY DEF Pruned
<1>3. Root \in R /\ R \subseteq Nodes /\ \A x \in tree : x.id \in R => x.kids \subseteq R
  BY <1>1, ReachFacts
<1>4. \A x \in kept : x.kids \subseteq Nodes
  BY <1>1, <1>2
<1>5. Root \in Q /\ Q \subseteq Nodes /\ \A x \in kept : x.id \in Q => x.kids \subseteq Q
  BY <1>4, ReachFacts
<1>6. R \subseteq Q \cap R
  <2>1. \A x \in tree : x.id \in Q \cap R => x.kids \subseteq Q \cap R
    BY <1>2, <1>3, <1>5
  <2>2. Q \cap R \in SUBSET Nodes /\ Root \in Q \cap R
    BY <1>3, <1>5
  <2> QED
    BY <2>1, <2>2, ReachLeast
<1>7. Pruned(kept) = {x \in kept : x.id \in Q}
  BY DEF Pruned
<1> QED
  BY <1>2, <1>6, <1>7

\* Pruning a tree that names no missing child leaves one that names none.
LEMMA PrunedClosed ==
    ASSUME NEW tree, IsTree(tree), Kids(tree) \subseteq Ids(tree)
    PROVE  Kids(Pruned(tree)) \subseteq Ids(Pruned(tree))
<1> SUFFICES ASSUME NEW x \in Pruned(tree), NEW k \in x.kids PROVE k \in Ids(Pruned(tree))
  BY DEF Kids
<1>1. x \in tree /\ x.id \in Reachable(tree)
  BY DEF Pruned
<1>2. k \in Reachable(tree)
  <2>1. \A y \in tree : y.kids \subseteq Nodes
    BY DEF IsTree
  <2> QED
    BY <1>1, <2>1, ReachFacts
<1>3. k \in Ids(tree)
  BY <1>1 DEF Kids
<1>4. PICK y \in tree : y.id = k
  BY <1>3 DEF Ids
<1>5. y \in Pruned(tree)
  BY <1>2, <1>4 DEF Pruned
<1> QED
  BY <1>4, <1>5 DEF Ids

\* Laying nodes over a tree that names no missing child makes only the nodes'
\* own children missing.
LEMMA OverlayClosed ==
    ASSUME NEW tree, NEW nodes, Kids(tree) \subseteq Ids(tree),
           Kids(nodes) \ Ids(Overlay(tree, nodes)) = {}
    PROVE  Kids(Overlay(tree, nodes)) \subseteq Ids(Overlay(tree, nodes))
<1>1. Ids(tree) \subseteq Ids(Overlay(tree, nodes))
  BY DEF Ids, Overlay
<1>2. Kids(Overlay(tree, nodes)) \subseteq Kids(tree) \cup Kids(nodes)
  BY DEF Kids, Overlay
<1> QED
  BY <1>1, <1>2

\* A whole tree: well formed, rooted, closed, and nothing beside it.
IsWhole(t) == IsTree(t) /\ Root \in Ids(t) /\ Kids(t) \subseteq Ids(t) /\ Pruned(t) = t

\* A whole tree among orphans is what pruning leaves.
LEMMA PrunedIs ==
    ASSUME NEW tree, NEW whole, IsTree(tree), IsWhole(whole), whole \subseteq tree
    PROVE  Pruned(tree) = whole
<1>1. Reachable(tree) \subseteq Ids(whole)
  <2>1. Ids(whole) \in SUBSET Nodes
    BY DEF Ids, IsWhole, IsTree
  <2>2. ASSUME NEW x \in tree, x.id \in Ids(whole) PROVE x.kids \subseteq Ids(whole)
    <3>1. PICK y \in whole : y.id = x.id
      BY <2>2 DEF Ids
    <3>2. y = x
      BY <3>1 DEF IsTree
    <3> QED
      BY <3>1, <3>2 DEF Kids, IsWhole
  <2> QED
    BY <2>1, <2>2, ReachLeast DEF IsWhole
<1>2. Reachable(whole) \subseteq Reachable(tree)
  <2>1. \A x \in tree : x.kids \subseteq Nodes
    BY DEF IsTree
  <2>2. /\ Reachable(tree) \in SUBSET Nodes /\ Root \in Reachable(tree)
        /\ \A x \in whole : x.id \in Reachable(tree) => x.kids \subseteq Reachable(tree)
    BY <2>1, ReachFacts
  <2> QED
    BY <2>2, ReachLeast
<1>3. ASSUME NEW x \in Pruned(tree) PROVE x \in whole
  <2>1. x \in tree /\ x.id \in Ids(whole)
    BY <1>1 DEF Pruned
  <2>2. PICK y \in whole : y.id = x.id
    BY <2>1 DEF Ids
  <2> QED
    BY <2>1, <2>2 DEF IsTree
<1>4. ASSUME NEW x \in whole PROVE x \in Pruned(tree)
  <2>1. x \in Pruned(whole)
    BY DEF IsWhole
  <2>2. x.id \in Reachable(tree)
    BY <1>2, <2>1 DEF Pruned
  <2> QED
    BY <2>2 DEF Pruned
<1> QED
  BY <1>3, <1>4

\* What tree says of a node that is known is what is known of it.
Agree(known, tree) == \A x \in known, y \in tree : y.id = x.id => y = x

\* Two whole trees that agree on every node they both have are one.
LEMMA WholeIsOne ==
    ASSUME NEW r, NEW h, IsWhole(r), IsWhole(h), Agree(r, h)
    PROVE  h = r
<1> DEFINE S == {n \in Nodes : \E x \in r : x.id = n /\ x \in h}
<1>1. S \in SUBSET Nodes
  OBVIOUS
<1>2. Root \in S
  <2>1. PICK x \in r : x.id = Root
    BY DEF IsWhole, Ids
  <2>2. PICK y \in h : y.id = Root
    BY DEF IsWhole, Ids
  <2>3. y = x
    BY <2>1, <2>2 DEF Agree
  <2> QED
    BY <2>1, <2>2, <2>3, RootAssumption
<1>3. ASSUME NEW x \in r, x.id \in S, NEW k \in x.kids PROVE k \in S
  <2>1. PICK x1 \in r : x1.id = x.id /\ x1 \in h
    BY <1>3
  <2>2. x1 = x
    BY <2>1 DEF IsWhole, IsTree
  <2>3. k \in Ids(h) /\ k \in Ids(r)
    BY <1>3, <2>1, <2>2 DEF IsWhole, Kids
  <2>4. PICK y \in h : y.id = k
    BY <2>3 DEF Ids
  <2>5. PICK z \in r : z.id = k
    BY <2>3 DEF Ids
  <2>6. y = z /\ k \in Nodes
    BY <2>4, <2>5 DEF Agree, IsWhole, IsTree
  <2> QED
    BY <2>4, <2>5, <2>6
<1>4. Reachable(r) \subseteq S
  <2>1. \A x \in r : x.id \in S => x.kids \subseteq S
    BY <1>3
  <2> HIDE DEF S
  <2> QED
    BY <1>1, <1>2, <2>1, ReachLeast
<1>5. r \subseteq h
  <2> SUFFICES ASSUME NEW x \in r PROVE x \in h
    OBVIOUS
  <2>1. x.id \in Reachable(r)
    BY DEF IsWhole, Pruned
  <2>2. PICK y \in r : y.id = x.id /\ y \in h
    BY <1>4, <2>1
  <2> QED
    BY <2>2 DEF IsWhole, IsTree
<1>6. IsTree(h) /\ Pruned(h) = h
  BY DEF IsWhole
<1> QED
  BY <1>5, <1>6, PrunedIs

\* The provider has whole trees.
LEMMA TreesAreWhole == ASSUME NEW t \in Trees PROVE IsWhole(t)
BY TreesAssumption DEF IsWhole

\* Pruning nothing, and laying something over nothing.
LEMMA NoTree == IsTree({}) /\ Pruned({}) = {} /\ \A nodes : Overlay({}, nodes) = nodes
BY DEF IsTree, Pruned, Overlay

-----------------------------------------------------------------------------
(* What the stores, the queue and the composition know of the provider.    *)

\* A store with tree data has the provider's tree, and perhaps orphans.
StoreTrue(s, tree) ==
    /\ IsTree(s.nodes)
    /\ s.rooted => tree \in Trees /\ Pruned(s.nodes) = tree
    /\ ~s.rooted => tree = {} /\ s.nodes = {}

\* Pruning changes neither what a store knows nor whether it has tree data.
LEMMA StorePrunedTrue ==
    ASSUME NEW s, StoreFine(s), NEW tree, StoreTrue(s, tree)
    PROVE  StoreTrue(StorePruned(s), tree) /\ StorePruned(s).rooted = s.rooted
           /\ StorePruned(s).nodes = Pruned(s.nodes)
<1>1. PICK nodes, rooted, focus :
         /\ s = [nodes |-> nodes, rooted |-> rooted, focus |-> focus] /\ rooted \in BOOLEAN
  BY DEF StoreFine
<1> DEFINE kept == Pruned(nodes)
           lands == IF focus \in Ids(kept) THEN focus ELSE Root
<1>2. s.nodes = nodes /\ s.rooted = rooted /\ s.focus = focus
  BY <1>1
<1>3. StorePruned(s) = [s EXCEPT !.nodes = kept, !.focus = lands]
  BY <1>2 DEF StorePruned
<1> HIDE DEF kept, lands
<1>4. StorePruned(s).nodes = kept /\ StorePruned(s).rooted = rooted
  BY <1>1, <1>3
<1>5. IsTree(kept) /\ Pruned(kept) = kept
  BY <1>2, PrunedTree, PrunedTwice DEF StoreTrue, kept
<1>6. nodes = {} => kept = {}
  BY NoTree DEF kept
<1> QED
  BY <1>2, <1>4, <1>5, <1>6 DEF StoreTrue, kept

\* What a snapshot makes of an empty subtree is the provider's tree.
LEMMA SnapshotTrue ==
    ASSUME NEW s, StoreFine(s), NEW tree, StoreTrue(s, tree), s.rooted
    PROVE  HeldApply({}, Snapshot(s)) = tree /\ IsWhole(tree)
<1>1. StorePruned(s).nodes = tree /\ tree \in Trees
  BY StorePrunedTrue DEF StoreTrue
<1>2. Snapshot(s).nodes = tree
  BY <1>1 DEF Snapshot, Update
<1>3. HeldApply({}, Snapshot(s)) = Pruned(tree)
  BY <1>2, NoTree DEF HeldApply
<1> QED
  BY <1>1, <1>3, TreesAreWhole DEF IsWhole

\* A true update of the provider's tree makes a store that has it have the
\* tree after it, whatever orphans the update leaves there.
LEMMA StoreApplied ==
    ASSUME NEW s, StoreFine(s), NEW old, StoreTrue(s, old), NEW tree \in Trees,
           NEW sent \in SUBSET tree, NEW focus, NEW full \in BOOLEAN,
           old = {} => full, full => sent = tree, Pruned(Overlay(old, sent)) = tree
    PROVE  StoreTrue(StoreGuard(StoreApply(s, Update(sent, focus, full))), tree)
<1> DEFINE all == Overlay(s.nodes, sent)
           now == s.rooted \/ full
           received == StoreApply(s, Update(sent, focus, full))
           guarded == StoreGuard(received)
<1>1. IsWhole(tree) /\ IsTree(tree) /\ IsTree(sent) /\ IsTree(s.nodes)
  BY TreesAreWhole DEF IsWhole, IsTree, StoreTrue
<1>2. received = [nodes |-> all, rooted |-> now, focus |-> focus]
  BY DEF StoreApply, Update
<1>3. IsTree(all)
  BY <1>1, OverlayTree
<1>4. tree \subseteq all
  <2>1. CASE s.rooted
    <3>1. old \subseteq s.nodes
      BY <1>1, <2>1, PrunedTree DEF StoreTrue
    <3>2. tree \subseteq Overlay(old, sent)
      BY DEF Pruned
    <3> QED
      BY <3>1, <3>2 DEF Overlay
  <2>2. CASE ~s.rooted
    BY <2>2, NoTree DEF StoreTrue
  <2> QED
    BY <2>1, <2>2
<1>5. now
  BY DEF StoreTrue
<1>6. Pruned(all) = tree
  BY <1>1, <1>3, <1>4, PrunedIs
<1> HIDE DEF all, now, received
<1>7. guarded = received \/ guarded = [received EXCEPT !.focus = Root]
  BY DEF StoreGuard
<1>8. guarded.nodes = all /\ guarded.rooted = now
  BY <1>2, <1>7
<1> HIDE DEF guarded
<1>9. StoreTrue(guarded, tree)
  BY <1>3, <1>5, <1>6, <1>8 DEF StoreTrue
<1> QED
  BY <1>9 DEF guarded, received

StoresTrue ==
    /\ DOMAIN remote = Windows /\ DOMAIN stores \subseteq used /\ used \subseteq Windows
    /\ \A w \in DOMAIN stores : StoreTrue(stores[w], remote[w])
    /\ \A w \in Windows \ DOMAIN stores : remote[w] = {}

\* Whether m is a delta of w.
IsDelta(m, w) == m.kind = "Delta" /\ m.window = w

\* No delta of w after the i-th message of q has node n.
Silent(q, w, n, i) == \A j \in 1..Len(q) : i < j /\ IsDelta(q[j], w) => n \notin Ids(q[j].update.nodes)

\* What w's last delta with a node says of it is what the provider has.
QueueTrue ==
    /\ queue # <<>> => queue[Len(queue)].kind # "Delta"
    /\ \A i \in 1..Len(queue), w \in Windows : IsDelta(queue[i], w) =>
          /\ IsTree(queue[i].update.nodes)
          /\ \A x \in remote[w] : Silent(queue, w, x.id, i) => Agree({x}, queue[i].update.nodes)

\* The composition d has whole subtrees, and where the messages in q say
\* nothing of a node, what d says of it is what the provider has.
Current(d, q) ==
    /\ d.live \subseteq used
    /\ \A w \in d.live :
          /\ IsWhole(d.held[w])
          /\ w \in DOMAIN stores => stores[w].rooted
          /\ \A x \in remote[w] : Silent(q, w, x.id, 0) => Agree({x}, d.held[w])

\* What a sync brings the composition to.
Settled(d) ==
    /\ d.grafted = DOMAIN stores
    /\ d.live = {w \in DOMAIN stores : stores[w].rooted}
    /\ d.focus = IF focused \in d.live THEN focused ELSE NoWindow

CInv ==
    /\ StoresTrue /\ QueueTrue
    /\ adapter = "active" => Current(desktop, queue)
    /\ adapter = "active" /\ queue = <<>> => Settled(desktop)

\* A sync leaves the stores' knowledge as it is.
LEMMA StoresStayTrue ==
    ASSUME StoresFine, StoresTrue, NEW d, stores' = StoresAfterSync(d) \/ stores' = stores,
           UNCHANGED <<remote, used>>
    PROVE  /\ StoresTrue' /\ DOMAIN stores' = DOMAIN stores
           /\ \A w \in DOMAIN stores : stores'[w].rooted = stores[w].rooted
<1>1. CASE stores' = StoresAfterSync(d)
  <2>1. /\ DOMAIN stores' = DOMAIN stores
        /\ \A w \in DOMAIN stores : stores'[w] = StorePruned(stores[w]) \/ stores'[w] = stores[w]
    BY <1>1 DEF StoresAfterSync
  <2>2. \A w \in DOMAIN stores : StoreTrue(stores'[w], remote[w]) /\ stores'[w].rooted = stores[w].rooted
    BY <2>1, StorePrunedTrue DEF StoresFine, StoresTrue
  <2> QED
    BY <2>1, <2>2 DEF StoresTrue
<1>2. CASE stores' = stores
  BY <1>2 DEF StoresTrue
<1> QED
  BY <1>1, <1>2

\* After a sync the composition has what there is.
LEMMA SyncCurrent ==
    ASSUME NEW d, DeskFine(d), StoresFine, StoresTrue, NEW q, Current(d, q)
    PROVE  Current(Sync(d).desktop, q) /\ Settled(Sync(d).desktop)
<1> DEFINE after == Snapshotted(d)
           G == DOMAIN stores
           L == after.live
           H == after.held
           e == Sync(d).desktop
           wanted == Wanted(d)
<1>1. /\ Base(d).live \subseteq G /\ Base(d).live \subseteq d.live
      /\ \A w \in Base(d).live : Base(d).held[w] = d.held[w]
  BY BaseFacts
<1>2. /\ after = [grafted |-> G, live |-> L, held |-> H, focus |-> d.focus, started |-> TRUE]
      /\ L = Base(d).live \cup Fresh(d)
      /\ \A w \in Base(d).live : H[w] = Base(d).held[w]
      /\ \A w \in Fresh(d) : H[w] = HeldApply({}, Snapshot(stores[w]))
      /\ Fresh(d) \subseteq G /\ \A w \in Fresh(d) : stores[w].rooted
  BY SnapshottedFacts
<1>3. e = [after EXCEPT !.focus = wanted]
  BY DEF Sync
<1>4. wanted = IF focused \in L THEN focused ELSE NoWindow
  BY DEF Wanted
<1>5. ASSUME NEW w \in L
      PROVE  /\ IsWhole(H[w]) /\ w \in used
             /\ w \in DOMAIN stores => stores[w].rooted
             /\ \A x \in remote[w] : Silent(q, w, x.id, 0) => Agree({x}, H[w])
  <2>1. CASE w \in Base(d).live
    BY <1>1, <1>2, <2>1 DEF Current
  <2>2. CASE w \in Fresh(d)
    <3>1. StoreFine(stores[w]) /\ StoreTrue(stores[w], remote[w]) /\ stores[w].rooted /\ w \in used
      BY <1>2, <2>2 DEF StoresFine, StoresTrue
    <3>2. H[w] = remote[w] /\ IsWhole(remote[w])
      BY <1>2, <2>2, <3>1, SnapshotTrue
    <3>3. \A x \in remote[w] : Agree({x}, remote[w])
      BY <3>2 DEF Agree, IsWhole, IsTree
    <3> QED
      BY <3>1, <3>2, <3>3
  <2> QED
    BY <1>2, <2>1, <2>2
<1>6. L = {w \in DOMAIN stores : stores[w].rooted}
  <2>1. \A w \in L : w \in DOMAIN stores /\ stores[w].rooted
    BY <1>1, <1>2, <1>5
  <2>2. ASSUME NEW w \in DOMAIN stores, stores[w].rooted PROVE w \in L
    <3>1. w \in Base(d).live \/ w \in Fresh(d)
      BY <2>2 DEF Fresh, Graftable
    <3> QED
      BY <1>2, <3>1
  <2> QED
    BY <2>1, <2>2
<1> HIDE DEF after, L, H, wanted
<1>7. e.grafted = G /\ e.live = L /\ e.held = H /\ e.focus = wanted
  BY <1>2, <1>3
<1> HIDE DEF e
<1>8. Current(e, q)
  BY <1>5, <1>7 DEF Current
<1>9. Settled(e)
  BY <1>4, <1>6, <1>7 DEF Settled
<1> QED
  BY <1>8, <1>9 DEF e

-----------------------------------------------------------------------------
(* The window's thread.                                                    *)

\* What the rest of a queue is silent about, its first message may not be.
LEMMA SilentTail ==
    ASSUME NEW q, IsList(q), q # <<>>, NEW w, NEW n, NEW i \in Nat, Silent(Tail(q), w, n, i)
    PROVE  /\ Silent(q, w, n, i + 1)
           /\ i = 0 /\ (IsDelta(q[1], w) => n \notin Ids(q[1].update.nodes)) => Silent(q, w, n, 0)
<1>1. /\ Len(Tail(q)) = Len(q) - 1 /\ Len(q) \in Nat \ {0}
      /\ \A k \in 1..(Len(q) - 1) : Tail(q)[k] = q[k + 1]
  BY ListTail
<1>2. ASSUME NEW j \in 1..Len(q), i + 1 < j, IsDelta(q[j], w) PROVE n \notin Ids(q[j].update.nodes)
  <2>1. j - 1 \in 1..(Len(q) - 1) /\ i < j - 1 /\ (j - 1) + 1 = j
    BY <1>1, <1>2
  <2>2. Tail(q)[j - 1] = q[j]
    BY <1>1, <2>1
  <2> QED
    BY <1>1, <1>2, <2>1, <2>2 DEF Silent
<1>3. Silent(q, w, n, i + 1)
  BY <1>2 DEF Silent
<1>4. ASSUME i = 0, IsDelta(q[1], w) => n \notin Ids(q[1].update.nodes) PROVE Silent(q, w, n, 0)
  <2>1. \A j \in 1..Len(q) : j = 1 \/ i + 1 < j
    BY <1>4
  <2> QED
    BY <1>2, <1>4, <2>1 DEF Silent
<1> QED
  BY <1>3, <1>4

\* A message taken leaves the queue true.
LEMMA QueueStaysTrue ==
    ASSUME QueueFine, QueueTrue, queue # <<>>, queue' = Tail(queue), remote' = remote
    PROVE  QueueTrue' /\ (queue' = <<>> => queue[1].kind # "Delta")
<1>1. /\ Len(queue') = Len(queue) - 1 /\ Len(queue) \in Nat \ {0} /\ IsList(queue')
      /\ \A k \in 1..(Len(queue) - 1) : queue'[k] = queue[k + 1]
  BY ListTail DEF QueueFine
<1>2. queue' = <<>> <=> Len(queue') = 0
  BY <1>1, ListFacts
<1>3. queue' # <<>> => queue'[Len(queue')].kind # "Delta"
  <2> SUFFICES ASSUME queue' # <<>> PROVE queue'[Len(queue')].kind # "Delta"
    OBVIOUS
  <2>1. Len(queue') \in 1..(Len(queue) - 1) /\ Len(queue') + 1 = Len(queue)
    BY <1>1, <1>2
  <2>2. queue'[Len(queue')] = queue[Len(queue)]
    BY <1>1, <2>1
  <2> QED
    BY <2>2 DEF QueueTrue
<1>4. queue' = <<>> => queue[1].kind # "Delta"
  BY <1>1, <1>2 DEF QueueTrue
<1>5. ASSUME NEW i \in 1..Len(queue'), NEW w \in Windows, IsDelta(queue'[i], w)
      PROVE  /\ IsTree(queue'[i].update.nodes)
             /\ \A x \in remote'[w] : Silent(queue', w, x.id, i) => Agree({x}, queue'[i].update.nodes)
  <2>1. i + 1 \in 1..Len(queue) /\ queue'[i] = queue[i + 1] /\ i \in Nat
    BY <1>1
  <2>2. /\ IsTree(queue[i + 1].update.nodes)
        /\ \A x \in remote[w] : Silent(queue, w, x.id, i + 1) => Agree({x}, queue[i + 1].update.nodes)
    BY <1>5, <2>1 DEF QueueTrue
  <2>3. \A x \in remote[w] : Silent(queue', w, x.id, i) => Silent(queue, w, x.id, i + 1)
    BY <2>1, SilentTail DEF QueueFine
  <2> QED
    BY <2>1, <2>2, <2>3
<1>6. QueueTrue'
  BY <1>3, <1>5 DEF QueueTrue, IsDelta
<1> QED
  BY <1>4, <1>6

\* A composition is as current before the rest of the queue when the message
\* taken is no delta.
LEMMA CurrentAfterSync ==
    ASSUME NEW d, NEW q, IsList(q), q # <<>>, q[1].kind # "Delta", Current(d, q)
    PROVE  Current(d, Tail(q))
<1>1. ASSUME NEW w, NEW n, Silent(Tail(q), w, n, 0) PROVE Silent(q, w, n, 0)
  BY <1>1, SilentTail DEF IsDelta
<1> QED
  BY <1>1 DEF Current

\* Applying the delta taken to a composition that lacks no child then.
LEMMA CurrentAfterDelta ==
    ASSUME NEW d, DeskFine(d), QueueFine, QueueTrue, StoresTrue, queue # <<>>, Current(d, queue),
           NEW w, NEW u, IsDelta(queue[1], w), u = queue[1].update,
           w \in d.live => Kids(u.nodes) \ Ids(Overlay(d.held[w], u.nodes)) = {}
    PROVE  Current(Retag(d, w, u).desktop, Tail(queue))
<1> DEFINE q == Tail(queue)
           e == Retag(d, w, u).desktop
<1>1. Len(queue) \in Nat \ {0} /\ 1 \in 1..Len(queue)
  BY ListTail DEF QueueFine
<1>2. ASSUME NEW v, NEW n, Silent(q, v, n, 0)
      PROVE  Silent(queue, v, n, 1) /\ (v # w \/ n \notin Ids(u.nodes) => Silent(queue, v, n, 0))
  <2>1. IsDelta(queue[1], v) => v = w
    BY DEF IsDelta
  <2> QED
    BY <1>2, <2>1, SilentTail DEF QueueFine
<1>3. CASE w \notin d.live
  <2>1. e = d
    BY <1>3 DEF Retag
  <2>2. \A v \in d.live : v # w
    BY <1>3
  <2> HIDE DEF e, q
  <2> QED
    BY <1>2, <2>1, <2>2 DEF Current, q, e
<1>4. CASE w \in d.live
  <2> DEFINE all == Overlay(d.held[w], u.nodes)
             after == Pruned(all)
             held == Put(d.held, w, after)
  <2>1. /\ d = [grafted |-> d.grafted, live |-> d.live, held |-> d.held,
                focus |-> d.focus, started |-> d.started]
        /\ DOMAIN d.held = d.live
    BY DEF DeskFine
  <2>2. e = [d EXCEPT !.held = held]
    BY <1>4, <2>1 DEF Retag, HeldOf, HeldApply
  <2>3. /\ DOMAIN held = d.live /\ held[w] = after
        /\ \A v \in d.live : v # w => held[v] = d.held[v]
    BY <1>4, <2>1 DEF Put
  <2> HIDE DEF held
  <2>4. e.live = d.live /\ e.held = held
    BY <2>1, <2>2
  <2>5. w \in Windows /\ IsWhole(d.held[w])
    BY <1>4 DEF Current, StoresTrue
  <2>6. /\ IsTree(u.nodes)
        /\ \A x \in remote[w] : Silent(queue, w, x.id, 1) => Agree({x}, u.nodes)
    BY <1>1, <2>5 DEF QueueTrue
  <2>7. IsTree(all) /\ Kids(all) \subseteq Ids(all) /\ Root \in Ids(all)
    BY <1>4, <2>5, <2>6, OverlayTree, OverlayClosed, RootUnder DEF IsWhole
  <2>8. IsWhole(after) /\ after \subseteq all
    BY <2>7, PrunedTree, PrunedTwice, PrunedClosed, RootStays DEF IsWhole
  <2>9. ASSUME NEW x \in remote[w], Silent(q, w, x.id, 0) PROVE Agree({x}, after)
    <3> SUFFICES ASSUME NEW y \in after, y.id = x.id PROVE y = x
      BY DEF Agree
    <3>1. CASE y \in u.nodes
      BY <1>2, <2>6, <2>9, <3>1 DEF Agree
    <3>2. CASE y \notin u.nodes
      <4>1. y \in d.held[w] /\ x.id \notin Ids(u.nodes)
        BY <2>8, <3>2 DEF Overlay
      <4>2. Silent(queue, w, x.id, 0)
        BY <1>2, <2>9, <4>1
      <4> QED
        BY <1>4, <4>1, <4>2 DEF Current, Agree
    <3> QED
      BY <3>1, <3>2
  <2> HIDE DEF e, q, all, after
  <2>10. ASSUME NEW v \in d.live
         PROVE  /\ IsWhole(held[v]) /\ (v \in DOMAIN stores => stores[v].rooted)
                /\ \A x \in remote[v] : Silent(q, v, x.id, 0) => Agree({x}, held[v])
    <3>1. CASE v = w
      BY <1>4, <2>3, <2>8, <2>9, <3>1 DEF Current
    <3>2. CASE v # w
      <4>1. held[v] = d.held[v] /\ \A n : Silent(q, v, n, 0) => Silent(queue, v, n, 0)
        BY <1>2, <2>3, <3>2
      <4> QED
        BY <4>1 DEF Current
    <3> QED
      BY <3>1, <3>2
  <2>11. d.live \subseteq used
    BY DEF Current
  <2> QED
    BY <2>4, <2>10, <2>11 DEF Current, e, q
<1> QED
  BY <1>3, <1>4

\* A retagged delta fails, if at all, because a child of its nodes is missing.
LEMMA RetagFault ==
    ASSUME NEW d, DeskFine(d), NEW t, Exact(t, d), NEW w \in d.live, NEW u, IsUpdate(u)
    PROVE  \E x : /\ Retag(d, w, u).updates = <<x>> /\ Benign(FaultOf(t, x))
                  /\ FaultOf(t, x) = "none" => Kids(u.nodes) \ Ids(Overlay(d.held[w], u.nodes)) = {}
<1> DEFINE after == HeldApply(d.held[w], u)
           landed == LandFocus(d.held[w], after, u)
           x == SubtreeUpdate(w, landed)
<1>1. /\ d.live \subseteq d.grafted /\ d.grafted \subseteq Windows /\ DOMAIN d.held = d.live
      /\ Root \in Ids(d.held[w])
  BY DEF DeskFine
<1>2. Retag(d, w, u).updates = <<x>>
  BY <1>1 DEF Retag, HeldOf
<1>3. PICK subs : /\ t = [grafts |-> d.grafted, focus |-> d.focus, subs |-> subs]
                  /\ subs = [v \in d.live |-> subs[v]]
                  /\ \A v \in d.live : subs[v].nodes = d.held[v]
  BY DEF Exact, Holds
<1>4. t.grafts = d.grafted /\ t.subs = subs /\ w \in DOMAIN subs
  BY <1>3
<1>5. Subtree(t, w) = d.held[w]
  BY <1>3, <1>4 DEF Subtree
<1>6. after = Pruned(Overlay(d.held[w], u.nodes)) /\ Root \in Ids(after)
  BY <1>1, RootUnder, RootStays DEF HeldApply
<1>7. landed.nodes = u.nodes /\ landed.focus \in Ids(after)
  BY <1>6, LandFacts
<1>8. w \in d.grafted /\ w # NoWindow
  BY <1>1, NoWindowAssumption
<1>9. x.window = w /\ x.update = landed
  BY DEF SubtreeUpdate
<1> HIDE DEF after, landed
<1>10. Benign(FaultOf(t, x))
  <2>1. after = Pruned(Overlay(Subtree(t, w), landed.nodes))
    BY <1>5, <1>6, <1>7
  <2> QED
    BY <1>3, <1>4, <1>7, <1>8, <2>1, SubtreePublished, ZenonT(60)
<1> HIDE DEF x
<1>11. FaultOf(t, x) = Fault(TRUE, d.held[w], landed)
  BY <1>4, <1>5, <1>8, <1>9 DEF FaultOf
<1>12. FaultOf(t, x) = "none" => Kids(u.nodes) \ Ids(Overlay(d.held[w], u.nodes)) = {}
  BY <1>7, <1>11 DEF Fault
<1> QED
  BY <1>2, <1>10, <1>12

\* Handling a request to sync.
LEMMA HandleSyncCurrent == ASSUME DInv, CInv, HandleSync PROVE CInv'
<1> DEFINE us == SyncUpdates(desktop).updates
           d == Sync(desktop).desktop
<1>1. /\ Take /\ desktop' = d /\ Push(us) /\ stores' = StoresAfterSync(desktop)
      /\ queue # <<>> /\ queue' = Tail(queue) /\ queue[1].kind # "Delta"
      /\ UNCHANGED <<used, remote, focused>>
  <2>1. Head(queue) = queue[1] /\ Head(queue).kind # "Delta"
    BY TakeKeeps DEF HandleSync
  <2> QED
    BY <2>1 DEF HandleSync, Take
<1>2. IsList(us)
  BY <1>1, SyncUpdatesGo, TakeKeeps
<1>3. adapter' = "active" => adapter = "active"
  BY <1>1, <1>2, PushDropped
<1>4. /\ StoresTrue' /\ DOMAIN stores' = DOMAIN stores
      /\ \A w \in DOMAIN stores : stores'[w].rooted = stores[w].rooted
  BY <1>1, StoresStayTrue DEF DInv, CInv
<1>5. QueueTrue'
  BY <1>1, QueueStaysTrue DEF DInv, CInv
<1>6. adapter = "active" => Current(d, Tail(queue)) /\ Settled(d)
  BY <1>1, SyncCurrent, CurrentAfterSync DEF DInv, CInv, QueueFine
<1> HIDE DEF d, us
<1>7. adapter' = "active" => Current(desktop, queue)'
  BY <1>1, <1>3, <1>4, <1>6 DEF Current, Silent
<1>8. adapter' = "active" => Settled(desktop)'
  BY <1>1, <1>3, <1>4, <1>6 DEF Settled
<1> QED
  BY <1>4, <1>5, <1>7, <1>8 DEF CInv

\* Handling a delta.
LEMMA HandleDeltaCurrent == ASSUME DInv, CInv, Host = "visible", HandleDelta PROVE CInv'
<1> DEFINE w == Head(queue).window
           u == Head(queue).update
           first == IF pending = <<>> THEN [desktop |-> desktop, updates |-> <<>>]
                    ELSE SyncUpdates(desktop)
           d == first.desktop
           us == first.updates
           vs == Retag(d, w, u).updates
           e == Retag(d, w, u).desktop
<1>1. /\ Take /\ queue # <<>> /\ queue' = Tail(queue) /\ Head(queue).kind = "Delta"
      /\ stores' = StoresAfterSync(desktop) \/ stores' = stores
      /\ desktop' = DeltaUpdates(w, u).desktop /\ Push(DeltaUpdates(w, u).updates)
      /\ UNCHANGED <<used, remote, focused>>
  BY DEF HandleDelta, Take
<1>2. DeltaUpdates(w, u).desktop = e /\ DeltaUpdates(w, u).updates = us \o vs
  BY DEF DeltaUpdates
<1>3. Alive /\ IsUpdate(u) /\ Head(queue) = queue[1]
  BY <1>1, TakeKeeps DEF DInv, QueueFine
<1>4. /\ IsList(us) /\ DeskFine(d)
      /\ adapter = "active" =>
           /\ \E t : Goes(shown, us, t) /\ Exact(t, d)
           /\ Current(d, queue)
  <2>1. CASE pending = <<>>
    <3>1. d = desktop /\ us = <<>>
      BY <2>1
    <3> HIDE DEF d, us
    <3>2. adapter = "active" => \E t : Goes(shown, us, t) /\ Exact(t, d)
      BY <2>1, <3>1 DEF DInv, Owed
    <3>3. adapter = "active" => Current(d, queue)
      BY <3>1 DEF CInv
    <3> QED
      BY <3>1, <3>2, <3>3, ShortLists DEF DInv
  <2>2. CASE pending # <<>>
    <3>1. d = SyncUpdates(desktop).desktop /\ us = SyncUpdates(desktop).updates
      BY <2>2
    <3>2. d = Sync(desktop).desktop
      BY <3>1 DEF SyncUpdates
    <3> HIDE DEF d, us
    <3>3. adapter = "active" => Current(d, queue)
      BY <3>2, SyncCurrent DEF DInv, CInv
    <3> QED
      BY <1>3, <3>1, <3>3, SyncUpdatesGo
  <2> QED
    BY <2>1, <2>2
<1> HIDE DEF d, us, first
<1>5. IsList(vs)
  <2>1. PICK t : Exact(t, d)
    BY <1>4, ExactExists
  <2> QED
    BY <1>3, <1>4, <2>1, RetagGoes DEF Goes
<1>6. adapter' = "active" => adapter = "active"
  <2>1. IsList(us \o vs)
    <3> HIDE DEF vs
    <3> QED
      BY <1>4, <1>5, ListConcat
  <2> HIDE DEF vs
  <2> QED
    BY <1>1, <1>2, <2>1, PushDropped
<1>7. /\ StoresTrue' /\ DOMAIN stores' = DOMAIN stores
      /\ \A v \in DOMAIN stores : stores'[v].rooted = stores[v].rooted
  BY <1>1, StoresStayTrue DEF DInv, CInv
<1>8. QueueTrue' /\ queue' # <<>>
  <2>1. queue[1].kind = "Delta"
    BY <1>1, <1>3
  <2> QED
    BY <1>1, <2>1, QueueStaysTrue DEF DInv, CInv
<1>9. ASSUME adapter' = "active" PROVE Current(e, Tail(queue))
  <2>1. PICK t : Goes(shown, us, t) /\ Exact(t, d)
    BY <1>4, <1>6, <1>9
  <2>2. w \in d.live => Kids(u.nodes) \ Ids(Overlay(d.held[w], u.nodes)) = {}
    <3> SUFFICES ASSUME w \in d.live PROVE Kids(u.nodes) \ Ids(Overlay(d.held[w], u.nodes)) = {}
      OBVIOUS
    <3>1. PICK x : /\ vs = <<x>> /\ Benign(FaultOf(t, x))
                   /\ FaultOf(t, x) = "none" =>
                        Kids(u.nodes) \ Ids(Overlay(d.held[w], u.nodes)) = {}
      BY <1>3, <1>4, <2>1, RetagFault, SMTT(40)
    <3>2. Push(us \o <<x>>)
      BY <1>1, <1>2, <3>1
    <3> HIDE DEF vs
    <3>3. FaultOf(t, x) = "none"
      BY <1>6, <1>9, <2>1, <3>1, <3>2, PushClean
    <3> QED
      BY <3>1, <3>3
  <2>3. IsDelta(queue[1], w) /\ u = queue[1].update
    BY <1>1, <1>3 DEF IsDelta
  <2>4. Current(d, queue)
    BY <1>4, <1>6, <1>9, SMTT(40)
  <2> HIDE DEF w, u
  <2> QED
    BY <1>1, <1>4, <2>2, <2>3, <2>4, CurrentAfterDelta DEF DInv, CInv
<1>10. desktop' = e
  BY <1>1, <1>2
<1> HIDE DEF e
<1>11. adapter' = "active" => Current(desktop, queue)'
  BY <1>1, <1>7, <1>9, <1>10 DEF Current, Silent
<1> QED
  BY <1>7, <1>8, <1>11 DEF CInv

\* A reader that asks.
LEMMA ActivateCurrent == ASSUME DInv, CInv, Activate PROVE CInv'
<1> DEFINE d == Sync(NewDesktop).desktop
<1>1. /\ desktop' = d /\ stores' = StoresAfterSync(NewDesktop)
      /\ UNCHANGED <<used, remote, focused, queue>>
  BY DEF Activate
<1>2. DeskFine(NewDesktop) /\ Current(NewDesktop, queue)
  BY NothingYet DEF Current, NewDesktop
<1>3. Current(d, queue) /\ Settled(d)
  BY <1>2, SyncCurrent DEF DInv, CInv
<1>4. /\ StoresTrue' /\ DOMAIN stores' = DOMAIN stores
      /\ \A w \in DOMAIN stores : stores'[w].rooted = stores[w].rooted
  BY <1>1, StoresStayTrue DEF DInv, CInv
<1>5. QueueTrue'
  BY <1>1 DEF CInv, QueueTrue, Silent
<1> HIDE DEF d
<1>6. Current(desktop, queue)'
  BY <1>1, <1>3, <1>4 DEF Current, Silent
<1>7. Settled(desktop)'
  BY <1>1, <1>3, <1>4 DEF Settled
<1> QED
  BY <1>4, <1>5, <1>6, <1>7 DEF CInv

-----------------------------------------------------------------------------
(* The RDP client's thread.                                                *)

\* Posts that end in a request to sync, and whose deltas name every node that
\* is new at the provider as it is there.
LEMMA PostsCurrent ==
    ASSUME DInv, CInv, NEW messages, IsList(messages), Posts(messages), StoresTrue',
           messages # <<>>, messages[Len(messages)].kind # "Delta",
           used \subseteq used',
           \A w \in used \cap DOMAIN stores' :
              w \in DOMAIN stores /\ (stores[w].rooted => stores'[w].rooted),
           \A w \in Windows : \A x \in remote'[w] :
              \/ x \in remote[w]
              \/ \E j \in 1..Len(messages) :
                    IsDelta(messages[j], w) /\ x.id \in Ids(messages[j].update.nodes),
           \A j \in 1..Len(messages), w \in Windows : IsDelta(messages[j], w) =>
              /\ IsTree(messages[j].update.nodes)
              /\ \A x \in remote'[w] : Agree({x}, messages[j].update.nodes)
    PROVE  CInv'
<1> DEFINE n == Len(queue)
           m == Len(messages)
<1>1. queue' = queue \o messages /\ UNCHANGED <<desktop, adapter>>
  BY DEF Posts
<1>2. IsList(queue) /\ n \in Nat /\ m \in Nat \ {0}
  BY ListFacts DEF DInv, QueueFine
<1>3. /\ IsList(queue') /\ Len(queue') = n + m
      /\ \A i \in 1..(n + m) : queue'[i] = IF i <= n THEN queue[i] ELSE messages[i - n]
  BY <1>1, <1>2, ListConcat
<1> HIDE DEF n, m
<1>4. queue' # <<>> /\ queue'[Len(queue')].kind # "Delta"
  <2>1. n + m \in 1..(n + m) /\ ~(n + m <= n) /\ (n + m) - n = m
    BY <1>2
  <2>2. queue'[n + m] = messages[m]
    BY <1>3, <2>1
  <2>3. queue' # <<>>
    BY <1>2, <1>3, ListFacts
  <2> QED
    BY <1>3, <2>2, <2>3 DEF m
<1>5. ASSUME NEW w \in Windows, NEW x \in remote'[w], NEW i \in 0..n, Silent(queue', w, x.id, i)
      PROVE  x \in remote[w] /\ Silent(queue, w, x.id, i)
  <2>1. ASSUME NEW j \in 1..n, i < j, IsDelta(queue[j], w) PROVE x.id \notin Ids(queue[j].update.nodes)
    <3>1. j \in 1..(n + m) /\ queue'[j] = queue[j]
      BY <1>2, <1>3
    <3> QED
      BY <1>3, <1>5, <2>1, <3>1 DEF Silent
  <2>2. ASSUME NEW j \in 1..m, IsDelta(messages[j], w) PROVE x.id \notin Ids(messages[j].update.nodes)
    <3>1. n + j \in 1..(n + m) /\ ~(n + j <= n) /\ (n + j) - n = j /\ i < n + j
      BY <1>2
    <3>2. queue'[n + j] = messages[j]
      BY <1>3, <3>1
    <3> QED
      BY <1>3, <1>5, <2>2, <3>1, <3>2 DEF Silent
  <2> QED
    BY <2>1, <2>2 DEF Silent, n, m
<1>6. QueueTrue'
  <2>1. ASSUME NEW i \in 1..(n + m), NEW w \in Windows, IsDelta(queue'[i], w)
        PROVE  /\ IsTree(queue'[i].update.nodes)
               /\ \A x \in remote'[w] :
                     Silent(queue', w, x.id, i) => Agree({x}, queue'[i].update.nodes)
    <3>1. CASE i <= n
      <4>1. i \in 1..n /\ i \in 0..n /\ queue'[i] = queue[i]
        BY <1>2, <1>3, <3>1
      <4>2. /\ IsTree(queue[i].update.nodes)
            /\ \A x \in remote[w] : Silent(queue, w, x.id, i) => Agree({x}, queue[i].update.nodes)
        BY <2>1, <4>1 DEF CInv, QueueTrue, n
      <4> QED
        BY <1>5, <4>1, <4>2
    <3>2. CASE ~(i <= n)
      <4>1. i - n \in 1..m /\ queue'[i] = messages[i - n]
        BY <1>2, <1>3, <3>2
      <4> QED
        BY <2>1, <4>1 DEF m
    <3> QED
      BY <3>1, <3>2
  <2> QED
    BY <1>3, <1>4, <2>1 DEF QueueTrue, IsDelta
<1>7. ASSUME adapter' = "active" PROVE Current(desktop, queue)'
  <2>1. Current(desktop, queue) /\ desktop' = desktop
    BY <1>1, <1>7 DEF CInv
  <2>2. ASSUME NEW w \in desktop.live
        PROVE  /\ IsWhole(desktop.held[w]) /\ w \in used'
               /\ (w \in DOMAIN stores' => stores'[w].rooted)
               /\ \A x \in remote'[w] : Silent(queue', w, x.id, 0) => Agree({x}, desktop.held[w])
    <3>1. w \in used /\ w \in Windows
      BY <2>1 DEF Current, CInv, StoresTrue
    <3>2. w \in DOMAIN stores' => stores'[w].rooted
      BY <2>1, <3>1 DEF Current
    <3>3. \A x \in remote'[w] : Silent(queue', w, x.id, 0) => Agree({x}, desktop.held[w])
      <4>1. 0 \in 0..n
        BY <1>2
      <4> QED
        BY <1>5, <2>1, <3>1, <4>1 DEF Current
    <3> QED
      BY <2>1, <3>1, <3>2, <3>3 DEF Current
  <2> QED
    BY <2>1, <2>2 DEF Current, Silent
<1> QED
  BY <1>4, <1>6, <1>7 DEF CInv

\* A request to sync, posted alone.
LEMMA SyncPostedCurrent ==
    ASSUME DInv, CInv, Posts(<<SyncMsg>>), StoresTrue', used \subseteq used',
           \A w \in used \cap DOMAIN stores' :
              w \in DOMAIN stores /\ (stores[w].rooted => stores'[w].rooted),
           \A w \in Windows : remote'[w] \subseteq remote[w]
    PROVE  CInv'
<1> DEFINE messages == <<SyncMsg>>
<1>1. IsList(messages) /\ Len(messages) = 1 /\ messages[1] = SyncMsg /\ messages # <<>>
  BY ShortLists
<1>2. SyncMsg.kind # "Delta" /\ \A w : ~IsDelta(SyncMsg, w)
  BY DEF SyncMsg, IsDelta
<1> HIDE DEF messages
<1>3. \A j \in 1..Len(messages) : j = 1
  BY <1>1
<1>4. \A j \in 1..Len(messages), w \in Windows : ~IsDelta(messages[j], w)
  BY <1>1, <1>2, <1>3
<1>5. \A w \in Windows : \A x \in remote'[w] : x \in remote[w]
  OBVIOUS
<1>6. Posts(messages)
  BY DEF messages
<1> QED
  BY <1>1, <1>2, <1>4, <1>5, <1>6, PostsCurrent

\* A window that comes.
LEMMA WindowAddedCurrent == ASSUME DInv, CInv, NEW w \in Windows, WindowAdded(w) PROVE CInv'
<1>1. /\ w \notin used /\ used' = used \cup {w} /\ stores' = Put(stores, w, NewStore)
      /\ remote' = remote /\ Posts(<<SyncMsg>>)
  BY DEF WindowAdded
<1>2. /\ DOMAIN stores' = DOMAIN stores \cup {w}
      /\ \A v \in DOMAIN stores \cup {w} : stores'[v] = IF v = w THEN NewStore ELSE stores[v]
  BY <1>1 DEF Put
<1>3. w \notin DOMAIN stores /\ remote[w] = {}
  BY <1>1 DEF CInv, StoresTrue
<1>4. StoreTrue(NewStore, {})
  BY NoTree DEF StoreTrue, NewStore
<1>5. StoresTrue'
  BY <1>1, <1>2, <1>3, <1>4 DEF CInv, StoresTrue
<1>6. \A v \in used \cap DOMAIN stores' :
         v \in DOMAIN stores /\ (stores[v].rooted => stores'[v].rooted)
  BY <1>1, <1>2
<1> QED
  BY <1>1, <1>5, <1>6, SyncPostedCurrent

\* A window that goes.
LEMMA WindowRemovedCurrent == ASSUME DInv, CInv, NEW w \in Windows, WindowRemoved(w) PROVE CInv'
<1>1. /\ remote' = [remote EXCEPT ![w] = {}] /\ stores' = Restrict(stores, DOMAIN stores \ {w})
      /\ used' = used /\ Posts(<<SyncMsg>>)
  BY DEF WindowRemoved
<1>2. /\ DOMAIN stores' = DOMAIN stores \ {w}
      /\ \A v \in DOMAIN stores \ {w} : stores'[v] = stores[v]
  BY <1>1 DEF Restrict
<1>3. /\ DOMAIN remote' = Windows /\ remote'[w] = {}
      /\ \A v \in Windows : v # w => remote'[v] = remote[v]
  BY <1>1 DEF CInv, StoresTrue
<1>4. StoresTrue'
  BY <1>1, <1>2, <1>3 DEF CInv, StoresTrue
<1>5. \A v \in used \cap DOMAIN stores' :
         v \in DOMAIN stores /\ (stores[v].rooted => stores'[v].rooted)
  BY <1>2
<1>6. \A v \in Windows : remote'[v] \subseteq remote[v]
  BY <1>3
<1> QED
  BY <1>1, <1>4, <1>5, <1>6, SyncPostedCurrent

\* A tree update.
LEMMA TreeUpdatedCurrent ==
    ASSUME DInv, CInv, NEW w \in Windows, NEW tree \in Trees, NEW sent \in SUBSET tree, NEW focus,
           NEW full \in BOOLEAN, TreeUpdated(w, tree, sent, focus, full)
    PROVE  CInv'
<1> DEFINE guarded == StoreGuard(StoreApply(stores[w], Update(sent, focus, full)))
           u == Update(sent, guarded.focus, full)
           messages == <<DeltaMsg(w, u), SyncMsg>>
<1>1. /\ w \in DOMAIN stores /\ (remote[w] = {} => full) /\ (full => sent = tree)
      /\ Pruned(Overlay(remote[w], sent)) = tree
      /\ stores' = [stores EXCEPT ![w] = guarded] /\ Posts(messages)
      /\ remote' = [remote EXCEPT ![w] = tree] /\ used' = used
  BY DEF TreeUpdated
<1>2. StoreFine(stores[w]) /\ StoreTrue(stores[w], remote[w])
  BY <1>1 DEF DInv, StoresFine, CInv, StoresTrue
<1>3. StoreTrue(guarded, tree)
  BY <1>1, <1>2, StoreApplied
<1>4. IsWhole(tree) /\ tree # {}
  BY TreesAreWhole DEF IsWhole, Ids
<1>5. u.nodes = sent
  BY DEF Update
<1> HIDE DEF guarded, u
<1>6. /\ DOMAIN stores' = DOMAIN stores /\ stores'[w] = guarded
      /\ \A v \in DOMAIN stores : v # w => stores'[v] = stores[v]
  BY <1>1
<1>7. /\ DOMAIN remote' = Windows /\ remote'[w] = tree
      /\ \A v \in Windows : v # w => remote'[v] = remote[v]
  BY <1>1 DEF CInv, StoresTrue
<1>8. StoresTrue'
  BY <1>1, <1>3, <1>6, <1>7 DEF CInv, StoresTrue
<1>9. guarded.rooted
  BY <1>3, <1>4 DEF StoreTrue
<1>10. \A v \in used \cap DOMAIN stores' :
          v \in DOMAIN stores /\ (stores[v].rooted => stores'[v].rooted)
  BY <1>6, <1>9
<1>11. /\ IsList(messages) /\ Len(messages) = 2 /\ messages # <<>>
       /\ messages[1] = DeltaMsg(w, u) /\ messages[2] = SyncMsg
  <2>1. messages \in Seq({DeltaMsg(w, u), SyncMsg})
    OBVIOUS
  <2> QED
    BY <2>1 DEF IsList
<1>12. /\ DeltaMsg(w, u).update = u /\ SyncMsg.kind # "Delta"
       /\ \A v : IsDelta(DeltaMsg(w, u), v) <=> v = w
       /\ \A v : ~IsDelta(SyncMsg, v)
  BY DEF DeltaMsg, SyncMsg, IsDelta
<1> HIDE DEF messages
<1>13. \A j \in 1..Len(messages) : j = 1 \/ j = 2
  BY <1>11
<1>14. ASSUME NEW j \in 1..Len(messages), NEW v \in Windows, IsDelta(messages[j], v)
       PROVE  /\ IsTree(messages[j].update.nodes)
              /\ \A x \in remote'[v] : Agree({x}, messages[j].update.nodes)
  <2>1. v = w /\ messages[j].update.nodes = sent
    BY <1>5, <1>11, <1>12, <1>13, <1>14
  <2>2. IsTree(sent) /\ \A x \in tree : Agree({x}, sent)
    BY <1>4 DEF IsWhole, IsTree, Agree
  <2> QED
    BY <1>7, <2>1, <2>2
<1>15. ASSUME NEW v \in Windows, NEW x \in remote'[v], x \notin remote[v]
       PROVE  \E j \in 1..Len(messages) : IsDelta(messages[j], v) /\ x.id \in Ids(messages[j].update.nodes)
  <2>1. v = w /\ x \in tree
    BY <1>7, <1>15
  <2>2. x \in Overlay(remote[w], sent)
    BY <1>1, <2>1 DEF Pruned
  <2>3. x.id \in Ids(sent)
    BY <1>15, <2>1, <2>2 DEF Overlay, Ids
  <2>4. 1 \in 1..Len(messages)
    BY <1>11
  <2> QED
    BY <1>5, <1>11, <1>12, <2>1, <2>3, <2>4
<1>16. messages[Len(messages)].kind # "Delta" /\ used \subseteq used'
  BY <1>1, <1>11, <1>12
<1> QED
  BY <1>1, <1>8, <1>10, <1>11, <1>14, <1>15, <1>16, PostsCurrent

\* The second invariant holds at the start.
LEMMA CurrentInit == DesktopInit => CInv
<1> SUFFICES ASSUME DesktopInit PROVE CInv
  OBVIOUS
<1>1. /\ used = {} /\ remote = [w \in Windows |-> {}] /\ stores = <<>> /\ queue = <<>>
      /\ adapter = "idle"
  BY DEF DesktopInit
<1>2. DOMAIN stores = {}
  BY <1>1
<1>3. StoresTrue
  BY <1>1, <1>2 DEF StoresTrue
<1>4. QueueTrue
  <2>1. Len(queue) = 0
    BY <1>1
  <2> QED
    BY <1>1, <2>1 DEF QueueTrue
<1> QED
  BY <1>1, <1>3, <1>4 DEF CInv

\* Every step keeps it.
LEMMA CurrentStep ==
    ASSUME DInv, CInv, Host = "visible", [DesktopNext]_desktopVars
    PROVE  CInv'
<1>1. CASE FromProvider
  <2>1. ASSUME NEW w \in Windows, WindowAdded(w) \/ WindowRemoved(w) PROVE CInv'
    BY <2>1, WindowAddedCurrent, WindowRemovedCurrent
  <2>2. ASSUME NEW f \in Windows \cup {NoWindow}, FocusChanged(f) PROVE CInv'
    <3>1. Posts(<<SyncMsg>>) /\ UNCHANGED <<used, remote, stores>>
      BY <2>2 DEF FocusChanged
    <3>2. StoresTrue'
      BY <3>1 DEF CInv, StoresTrue
    <3> QED
      BY <3>1, <3>2, SyncPostedCurrent
  <2>3. ASSUME NEW w \in Windows, NEW tree \in Trees, NEW focus \in Nodes, NEW full \in BOOLEAN,
               NEW sent \in (SUBSET tree) \ {{}}, TreeUpdated(w, tree, sent, focus, full)
        PROVE  CInv'
    BY <2>3, TreeUpdatedCurrent
  <2> QED
    BY <1>1, <2>1, <2>2, <2>3 DEF FromProvider
<1>2. CASE Beat
  <2>1. Posts(<<SyncMsg>>) /\ UNCHANGED <<used, remote, stores>>
    BY <1>2 DEF Beat
  <2>2. StoresTrue'
    BY <2>1 DEF CInv, StoresTrue
  <2> QED
    BY <2>1, <2>2, SyncPostedCurrent
<1>3. CASE Activate
  BY <1>3, ActivateCurrent
<1>4. CASE HandleSync
  BY <1>4, HandleSyncCurrent
<1>5. CASE HandleDelta
  BY <1>5, HandleDeltaCurrent
<1>6. CASE UNCHANGED desktopVars
  <2>1. UNCHANGED <<used, remote, stores, focused, queue, desktop, adapter>>
    BY <1>6 DEF desktopVars
  <2>2. StoresTrue' /\ QueueTrue'
    BY <2>1 DEF CInv, StoresTrue, QueueTrue, Silent
  <2>3. adapter' = "active" => Current(desktop, queue)'
    BY <2>1 DEF CInv, Current, Silent
  <2>4. adapter' = "active" /\ queue' = <<>> => Settled(desktop)'
    BY <2>1 DEF CInv, Settled
  <2> QED
    BY <2>2, <2>3, <2>4 DEF CInv
<1> QED
  BY <1>1, <1>2, <1>3, <1>4, <1>5, <1>6 DEF DesktopNext, Handle

\* Whatever the interleaving of messages, posts, beats and the activation, a
\* reader that has caught up is shown the remote desktop: a graft per window,
\* the provider's tree under it, and the focus (DesktopTree::sync and delta,
\* with delta_updates of the plugin's glue).
THEOREM CaughtUpShowsTheDesktop == ASSUME Host = "visible" PROVE DesktopSpec => []CaughtUpIsCurrent
<1>1. DInv /\ CInv /\ [DesktopNext]_desktopVars => CInv'
  BY CurrentStep
<1>2. ASSUME DInv, CInv PROVE CaughtUpIsCurrent
  <2> SUFFICES ASSUME adapter = "active", queue = <<>>, pending = <<>>
      PROVE  /\ shown.grafts = DOMAIN stores
             /\ \A w \in Windows : Subtree(shown, w) = remote[w]
             /\ shown.focus = IF focused \in DOMAIN shown.subs THEN focused ELSE NoWindow
    BY DEF CaughtUpIsCurrent
  <2>1. PICK t : Goes(shown, pending, t) /\ Exact(t, desktop)
    BY <1>2 DEF DInv, Owed
  <2>2. t = shown
    <3>1. Shows(shown, <<>>) = t /\ Shows(shown, <<>>) = shown
      BY <2>1, ShowsTheEnd, GoesNowhere
    <3> QED
      BY <3>1
  <2>3. PICK subs : /\ shown = [grafts |-> desktop.grafted, focus |-> desktop.focus, subs |-> subs]
                    /\ subs = [w \in desktop.live |-> subs[w]]
                    /\ \A w \in desktop.live : subs[w].nodes = desktop.held[w]
    BY <2>1, <2>2 DEF Exact, Holds
  <2>4. /\ shown.grafts = desktop.grafted /\ shown.focus = desktop.focus /\ shown.subs = subs
        /\ DOMAIN subs = desktop.live
    BY <2>3
  <2>5. Settled(desktop) /\ Current(desktop, queue)
    BY <1>2 DEF CInv
  <2>6. ASSUME NEW w \in Windows PROVE Subtree(shown, w) = remote[w]
    <3>1. CASE w \in desktop.live
      <4>1. w \in DOMAIN stores /\ stores[w].rooted /\ IsWhole(desktop.held[w])
        BY <2>5, <3>1 DEF Settled, Current
      <4>2. IsWhole(remote[w])
        BY <1>2, <4>1, TreesAreWhole DEF CInv, StoresTrue, StoreTrue
      <4>3. \A x \in remote[w] : Silent(queue, w, x.id, 0)
        <5>1. Len(queue) = 0
          BY ShortLists
        <5> QED
          BY <5>1 DEF Silent
      <4>4. Agree(remote[w], desktop.held[w])
        BY <2>5, <3>1, <4>3 DEF Current, Agree
      <4>5. desktop.held[w] = remote[w]
        BY <4>1, <4>2, <4>4, WholeIsOne
      <4> QED
        BY <2>3, <2>4, <3>1, <4>5 DEF Subtree
    <3>2. CASE w \notin desktop.live
      <4>1. w \in DOMAIN stores => ~stores[w].rooted
        BY <2>5, <3>2 DEF Settled
      <4>2. remote[w] = {}
        BY <1>2, <4>1 DEF CInv, StoresTrue, StoreTrue
      <4> QED
        BY <2>4, <3>2, <4>2 DEF Subtree
    <3> QED
      BY <3>1, <3>2
  <2> QED
    BY <2>4, <2>5, <2>6 DEF Settled
<1> QED
  BY <1>1, <1>2, DesktopInvariance, CurrentInit, PTL DEF DesktopSpec

-----------------------------------------------------------------------------
(* Types.  That a consumer's focus stays on a subtree it has needs that no *)
(* root tree puts the focus on a graft it does not bring.                  *)

ShownOk(s) ==
    /\ s = [grafts |-> s.grafts, focus |-> s.focus, subs |-> s.subs]
    /\ s.focus \in DOMAIN s.subs \cup {NoWindow} /\ DOMAIN s.subs \subseteq s.grafts

OnGraft(x) == x.window = NoWindow => x.focus \in x.grafts \cup {NoWindow}
OnGrafts(us) == \A i \in 1..Len(us) : OnGraft(us[i])

TInv ==
    /\ ShownOk(shown) /\ OnGrafts(pending)
    /\ focused \in DOMAIN stores \cup {NoWindow}
    /\ \A w \in DOMAIN stores : stores[w].focus \in Nodes
    /\ \A i \in 1..Len(queue) : queue[i].kind = "Delta" =>
          /\ queue[i].window \in Windows
          /\ queue[i].update.focus \in Nodes /\ queue[i].update.full \in BOOLEAN

\* One update that breaks no rule.
LEMMA ShownOn ==
    ASSUME NEW s, ShownOk(s), NEW x, OnGraft(x), FaultOf(s, x) = "none"
    PROVE  ShownOk(Published(s, x))
<1>1. CASE x.window = NoWindow
  <2> DEFINE kept == Restrict(s.subs, DOMAIN s.subs \cap x.grafts)
  <2>1. Published(s, x) = [grafts |-> x.grafts, focus |-> x.focus, subs |-> kept]
    BY <1>1 DEF Published
  <2>2. x.focus = NoWindow \/ x.focus \in DOMAIN s.subs
    BY <1>1 DEF FaultOf
  <2>3. DOMAIN kept = DOMAIN s.subs \cap x.grafts
    BY DEF Restrict
  <2> HIDE DEF kept
  <2> QED
    BY <1>1, <2>1, <2>2, <2>3 DEF ShownOk, OnGraft
<1>2. CASE x.window # NoWindow
  <2> DEFINE w == x.window
             sub == [nodes |-> Consumed(Subtree(s, w), x.update), focus |-> x.update.focus]
             grown == Put(s.subs, w, sub)
             G == s.grafts
             F == s.focus
  <2>1. s = [grafts |-> G, focus |-> F, subs |-> s.subs]
        /\ F \in DOMAIN s.subs \cup {NoWindow} /\ DOMAIN s.subs \subseteq G
    BY DEF ShownOk
  <2>2. Published(s, x) = [s EXCEPT !.subs = grown]
    BY <1>2 DEF Published
  <2>3. w \in G
    BY <1>2 DEF FaultOf
  <2>4. DOMAIN grown = DOMAIN s.subs \cup {w}
    BY DEF Put
  <2> HIDE DEF grown, G, F, w
  <2>5. Published(s, x) = [grafts |-> G, focus |-> F, subs |-> grown]
    BY <2>1, <2>2
  <2> QED
    BY <2>1, <2>3, <2>4, <2>5 DEF ShownOk
<1> QED
  BY <1>1, <1>2

\* Any number of them, and whatever fault ends it.
LEMMA PushShown ==
    ASSUME ShownOk(shown), NEW us, IsList(us), OnGrafts(us), Push(us)
    PROVE  ShownOk(shown')
<1> DEFINE n == Len(us)
<1>1. n \in Nat
  BY ListFacts
<1>2. PICK f : /\ f[0] = Ready
               /\ \A i \in 1..n : f[i] = Given(f[i - 1], us[i])
               /\ adapter' = f[n].adapter /\ shown' = f[n].shown
  BY PushFacts
<1>3. \A i \in 1..n : OnGraft(us[i])
  BY DEF OnGrafts
<1> HIDE DEF n
<1> DEFINE Ok(x) == x = [adapter |-> x.adapter, shown |-> x.shown] /\ ShownOk(x.shown)
           S == {k \in Nat : k <= n => Ok(f[k])}
<1>4. 0 \in S
  BY <1>2 DEF Ready
<1>5. ASSUME NEW x, Ok(x), NEW u, OnGraft(u) PROVE Ok(Given(x, u))
  <2>1. CASE x.adapter # "active"
    BY <1>5, <2>1 DEF Given
  <2>2. CASE x.adapter = "active" /\ FaultOf(x.shown, u) # "none"
    <3>1. Given(x, u) = [x EXCEPT !.adapter = FaultOf(x.shown, u)]
      BY <2>2 DEF Given
    <3> QED
      BY <1>5, <3>1
  <2>3. CASE x.adapter = "active" /\ FaultOf(x.shown, u) = "none"
    <3>1. Given(x, u) = [x EXCEPT !.shown = Published(x.shown, u)]
      BY <2>3 DEF Given
    <3>2. ShownOk(Published(x.shown, u))
      BY <1>5, <2>3, ShownOn
    <3> QED
      BY <1>5, <3>1, <3>2
  <2> QED
    BY <2>1, <2>2, <2>3
<1>6. ASSUME NEW k \in Nat, k \in S PROVE k + 1 \in S
  <2> SUFFICES ASSUME k + 1 <= n PROVE Ok(f[k + 1])
    BY <1>6
  <2>1. k + 1 \in 1..n /\ (k + 1) - 1 = k /\ Ok(f[k])
    BY <1>1, <1>6
  <2>2. f[k + 1] = Given(f[k], us[k + 1]) /\ OnGraft(us[k + 1])
    BY <1>2, <1>3, <2>1
  <2> HIDE DEF Ok
  <2> QED
    BY <1>5, <2>1, <2>2
<1> HIDE DEF S
<1>7. Nat \subseteq S
  BY <1>4, <1>6, CountingUp
<1>8. Ok(f[n])
  BY <1>1, <1>7 DEF S
<1> QED
  BY <1>2, <1>8

\* Updates that go one after another.
LEMMA OnGraftsConcat ==
    ASSUME NEW us, NEW vs, IsList(us), IsList(vs), OnGrafts(us), OnGrafts(vs)
    PROVE  IsList(us \o vs) /\ OnGrafts(us \o vs)
<1> DEFINE all == us \o vs
<1>1. /\ IsList(all) /\ Len(all) = Len(us) + Len(vs)
      /\ \A i \in 1..(Len(us) + Len(vs)) : all[i] = IF i <= Len(us) THEN us[i] ELSE vs[i - Len(us)]
  BY ListConcat
<1>2. Len(us) \in Nat /\ Len(vs) \in Nat
  BY ListFacts
<1> HIDE DEF all
<1>3. ASSUME NEW i \in 1..Len(all) PROVE OnGraft(all[i])
  <2>1. i \in 1..(Len(us) + Len(vs))
    BY <1>1
  <2>2. CASE i <= Len(us)
    <3>1. i \in 1..Len(us)
      BY <1>2, <2>1, <2>2
    <3>2. OnGraft(us[i])
      BY <3>1 DEF OnGrafts
    <3> QED
      BY <1>1, <2>1, <2>2, <3>2
  <2>3. CASE ~(i <= Len(us))
    <3>1. i - Len(us) \in 1..Len(vs)
      BY <1>2, <2>1, <2>3
    <3>2. OnGraft(vs[i - Len(us)])
      BY <3>1 DEF OnGrafts
    <3> QED
      BY <1>1, <2>1, <2>3, <3>2
  <2> QED
    BY <2>2, <2>3
<1>4. OnGrafts(all)
  BY <1>3 DEF OnGrafts
<1> QED
  BY <1>1, <1>4 DEF all

\* No update, and one.
LEMMA OnGraftsFew == OnGrafts(<<>>) /\ \A u : OnGraft(u) => OnGrafts(<<u>>)
<1>1. OnGrafts(<<>>)
  BY ShortLists DEF OnGrafts
<1>2. ASSUME NEW u, OnGraft(u) PROVE OnGrafts(<<u>>)
  <2> DEFINE us == <<u>>
  <2>1. Len(us) = 1 /\ us[1] = u
    BY ShortLists
  <2> HIDE DEF us
  <2>2. \A i \in 1..Len(us) : i = 1
    BY <2>1
  <2>3. OnGrafts(us)
    BY <1>2, <2>1, <2>2 DEF OnGrafts
  <2> QED
    BY <2>3 DEF us
<1> QED
  BY <1>1, <1>2

\* The snapshots of a sync are for subtrees.
LEMMA SnapshotsListed ==
    ASSUME NEW d, DeskFine(d), StoresFine
    PROVE  IsList(Snapshots(d)) /\ OnGrafts(Snapshots(d))
<1> DEFINE G == DOMAIN stores
           fresh == SetToSeq(Fresh(d))
           b == Snapshots(d)
<1>1. Fresh(d) \subseteq G /\ Fresh(d) \subseteq Windows /\ IsFiniteSet(Fresh(d))
  <2>1. Fresh(d) \subseteq G
    BY SnapshottedFacts
  <2> QED
    BY <2>1, FS_Subset DEF StoresFine
<1>2. PICK n \in Nat : fresh \in [1..n -> Fresh(d)]
  BY <1>1, SetToSeqFacts
<1>3. DOMAIN b = 1..n /\ \A i \in 1..n : b[i].window = fresh[i]
  <2>1. DOMAIN fresh = 1..n
    BY <1>2
  <2>2. b = [i \in DOMAIN fresh |-> SubtreeUpdate(fresh[i],
                LandFocus({}, Snapshotted(d).held[fresh[i]], Snapshot(stores[fresh[i]])))]
    BY DEF Snapshots, Fresh
  <2> HIDE DEF b, fresh
  <2> QED
    BY <2>1, <2>2 DEF SubtreeUpdate
<1>4. b = [i \in 1..n |-> b[i]]
  <2>1. b = [i \in DOMAIN fresh |-> SubtreeUpdate(fresh[i],
                LandFocus({}, Snapshotted(d).held[fresh[i]], Snapshot(stores[fresh[i]])))]
    BY DEF Snapshots, Fresh
  <2>2. DOMAIN fresh = 1..n
    BY <1>2
  <2> HIDE DEF b, fresh
  <2> QED
    BY <2>1, <2>2
<1> HIDE DEF b, fresh
<1>5. IsList(b) /\ Len(b) = n
  BY <1>3, <1>4, ListOf
<1>6. \A i \in 1..n : fresh[i] \in Windows
  BY <1>1, <1>2
<1>7. \A i \in 1..n : OnGraft(b[i])
  BY <1>3, <1>6, NoWindowAssumption DEF OnGraft
<1>8. IsList(b) /\ OnGrafts(b)
  BY <1>5, <1>7 DEF OnGrafts
<1> QED
  BY <1>8 DEF b

\* A sync puts the focus on a window it grafts.
LEMMA SyncOnGrafts ==
    ASSUME NEW d, DeskFine(d), StoresFine
    PROVE  IsList(Sync(d).updates) /\ OnGrafts(Sync(d).updates)
<1> DEFINE G == DOMAIN stores
           a == RootFirst(d)
           b == Snapshots(d)
           c == FocusLast(d)
<1>1. Wanted(d) \in G \cup {NoWindow}
  <2>1. Snapshotted(d).live = Base(d).live \cup Fresh(d) /\ Fresh(d) \subseteq G /\ Base(d).live \subseteq G
    BY SnapshottedFacts, BaseFacts
  <2> QED
    BY <2>1 DEF Wanted
<1>2. OnGraft(RootUpdate(G, NoWindow)) /\ OnGraft(RootUpdate(G, Wanted(d)))
  BY <1>1 DEF OnGraft, RootUpdate
<1>3. IsList(a) /\ OnGrafts(a)
  BY <1>2, ShortLists, OnGraftsFew DEF RootFirst
<1>4. IsList(c) /\ OnGrafts(c)
  BY <1>2, ShortLists, OnGraftsFew DEF FocusLast
<1>5. IsList(b) /\ OnGrafts(b)
  BY SnapshotsListed
<1>6. Sync(d).updates = (a \o b) \o c
  BY DEF Sync
<1> HIDE DEF a, b, c
<1>7. IsList(a \o b) /\ OnGrafts(a \o b)
  BY <1>3, <1>5, OnGraftsConcat
<1>8. IsList((a \o b) \o c) /\ OnGrafts((a \o b) \o c)
  BY <1>4, <1>7, OnGraftsConcat
<1> QED
  BY <1>6, <1>8

\* A delta is for a subtree.
LEMMA RetagOnGrafts ==
    ASSUME NEW d, DeskFine(d), NEW w, NEW u
    PROVE  IsList(Retag(d, w, u).updates) /\ OnGrafts(Retag(d, w, u).updates)
<1>1. CASE w \notin d.live
  <2>1. Retag(d, w, u).updates = <<>>
    BY <1>1 DEF Retag
  <2> QED
    BY <2>1, ShortLists, OnGraftsFew
<1>2. CASE w \in d.live
  <2>1. w # NoWindow
    BY <1>2, NoWindowAssumption DEF DeskFine
  <2>2. PICK x : Retag(d, w, u).updates = <<SubtreeUpdate(w, x)>>
    BY <1>2 DEF Retag
  <2>3. OnGraft(SubtreeUpdate(w, x))
    BY <2>1 DEF OnGraft, SubtreeUpdate
  <2> QED
    BY <2>2, <2>3, ShortLists, OnGraftsFew
<1> QED
  BY <1>1, <1>2

\* What is owed is a list.
LEMMA PendingIsList == ASSUME DInv, Alive PROVE IsList(pending)
<1>1. CASE adapter = "idle"
  BY <1>1, ShortLists DEF DInv
<1>2. CASE adapter = "active"
  BY <1>2 DEF DInv, Owed, Goes
<1> QED
  BY <1>1, <1>2 DEF Alive

\* A sync leaves each store its focus or puts it on the root.
LEMMA StoresStayTyped ==
    ASSUME NEW d, \A w \in DOMAIN stores : stores[w].focus \in Nodes, StoresFine,
           stores' = StoresAfterSync(d) \/ stores' = stores
    PROVE  DOMAIN stores' = DOMAIN stores /\ \A w \in DOMAIN stores : stores'[w].focus \in Nodes
<1>1. CASE stores' = stores
  BY <1>1
<1>2. CASE stores' = StoresAfterSync(d)
  <2>1. /\ DOMAIN stores' = DOMAIN stores
        /\ \A w \in DOMAIN stores : stores'[w] = StorePruned(stores[w]) \/ stores'[w] = stores[w]
    BY <1>2 DEF StoresAfterSync
  <2>2. ASSUME NEW w \in DOMAIN stores PROVE StorePruned(stores[w]).focus \in Nodes
    <3>1. PICK nodes, rooted, focus : stores[w] = [nodes |-> nodes, rooted |-> rooted, focus |-> focus]
      BY DEF StoresFine, StoreFine
    <3>2. focus \in Nodes
      BY <3>1
    <3> DEFINE kept == Pruned(nodes)
    <3>3. StorePruned(stores[w]) = [stores[w] EXCEPT !.nodes = kept,
                                       !.focus = IF focus \in Ids(kept) THEN focus ELSE Root]
      BY <3>1 DEF StorePruned
    <3> HIDE DEF kept
    <3>4. StorePruned(stores[w]).focus = IF focus \in Ids(kept) THEN focus ELSE Root
      BY <3>1, <3>3
    <3> QED
      BY <3>2, <3>4, RootAssumption
  <2> QED
    BY <2>1, <2>2
<1> QED
  BY <1>1, <1>2

QueueTyped(q) ==
    \A i \in 1..Len(q) : q[i].kind = "Delta" =>
        /\ q[i].window \in Windows
        /\ q[i].update.focus \in Nodes /\ q[i].update.full \in BOOLEAN

\* A message taken leaves the rest of the queue typed.
LEMMA TakeTyped == ASSUME DInv, TInv, Take PROVE QueueTyped(queue')
<1>1. IsList(queue) /\ queue # <<>> /\ queue' = Tail(queue)
  BY DEF DInv, QueueFine, Take
<1>2. /\ Len(queue') = Len(queue) - 1 /\ Len(queue) \in Nat \ {0}
      /\ \A i \in 1..(Len(queue) - 1) : queue'[i] = queue[i + 1]
  BY <1>1, ListTail
<1>3. \A i \in 1..Len(queue') : i + 1 \in 1..Len(queue) /\ queue'[i] = queue[i + 1]
  BY <1>2
<1> QED
  BY <1>3 DEF TInv, QueueTyped

\* Handling a request to sync.
LEMMA HandleSyncTyped == ASSUME DInv, TInv, HandleSync PROVE TInv'
<1> DEFINE us == Sync(desktop).updates
<1>1. /\ Take /\ Push(pending \o us) /\ pending' = <<>> /\ UNCHANGED focused
      /\ stores' = StoresAfterSync(desktop)
  BY DEF HandleSync, SyncUpdates
<1>2. Alive
  BY <1>1 DEF Take
<1>3. IsList(us) /\ OnGrafts(us)
  BY SyncOnGrafts DEF DInv
<1> HIDE DEF us
<1>4. IsList(pending \o us) /\ OnGrafts(pending \o us)
  BY <1>2, <1>3, PendingIsList, OnGraftsConcat DEF TInv
<1>5. ShownOk(shown')
  BY <1>1, <1>4, PushShown DEF TInv
<1>6. DOMAIN stores' = DOMAIN stores /\ \A w \in DOMAIN stores : stores'[w].focus \in Nodes
  BY <1>1, StoresStayTyped DEF DInv, TInv
<1>7. QueueTyped(queue')
  BY <1>1, TakeTyped
<1>8. OnGrafts(pending')
  BY <1>1, OnGraftsFew
<1> QED
  BY <1>1, <1>5, <1>6, <1>7, <1>8 DEF TInv, ShownOk, OnGrafts, OnGraft, QueueTyped

\* Handling a delta.
LEMMA HandleDeltaTyped == ASSUME DInv, TInv, Host = "visible", HandleDelta PROVE TInv'
<1> DEFINE w == Head(queue).window
           u == Head(queue).update
           first == IF pending = <<>> THEN [desktop |-> desktop, updates |-> <<>>]
                    ELSE SyncUpdates(desktop)
           d == first.desktop
           us == first.updates
           vs == Retag(d, w, u).updates
<1>1. /\ Take /\ pending' = <<>> /\ UNCHANGED focused
      /\ stores' = StoresAfterSync(desktop) \/ stores' = stores
      /\ Push(us \o vs)
  BY DEF HandleDelta, DeltaUpdates
<1>2. Alive
  BY <1>1 DEF Take
<1>3. IsList(us) /\ OnGrafts(us) /\ DeskFine(d)
  <2>1. CASE pending = <<>>
    <3>1. us = <<>> /\ d = desktop
      BY <2>1
    <3> HIDE DEF us, d
    <3> QED
      BY <3>1, ShortLists, OnGraftsFew DEF DInv
  <2>2. CASE pending # <<>>
    <3> DEFINE xs == Sync(desktop).updates
    <3>1. us = pending \o xs /\ d = SyncUpdates(desktop).desktop
      BY <2>2 DEF SyncUpdates
    <3>2. IsList(xs) /\ OnGrafts(xs)
      BY SyncOnGrafts DEF DInv
    <3>3. DeskFine(SyncUpdates(desktop).desktop)
      BY <1>2, SyncUpdatesGo
    <3> HIDE DEF us, xs, d
    <3>4. IsList(pending \o xs) /\ OnGrafts(pending \o xs)
      BY <1>2, <3>2, PendingIsList, OnGraftsConcat DEF TInv
    <3> QED
      BY <3>1, <3>3, <3>4
  <2> QED
    BY <2>1, <2>2
<1> HIDE DEF first, d, us, w, u
<1>4. IsList(vs) /\ OnGrafts(vs)
  BY <1>3, RetagOnGrafts
<1> HIDE DEF vs
<1>5. IsList(us \o vs) /\ OnGrafts(us \o vs)
  BY <1>3, <1>4, OnGraftsConcat
<1>6. ShownOk(shown')
  BY <1>1, <1>5, PushShown DEF TInv
<1>7. DOMAIN stores' = DOMAIN stores /\ \A v \in DOMAIN stores : stores'[v].focus \in Nodes
  <2>1. \A v \in DOMAIN stores : stores[v].focus \in Nodes
    BY DEF TInv
  <2>2. StoresFine
    BY DEF DInv
  <2> QED
    BY <1>1, <2>1, <2>2, StoresStayTyped
<1>8. QueueTyped(queue')
  BY <1>1, TakeTyped
<1>9. OnGrafts(pending')
  BY <1>1, OnGraftsFew
<1> QED
  BY <1>1, <1>6, <1>7, <1>8, <1>9 DEF TInv, ShownOk, OnGrafts, OnGraft, QueueTyped

\* A reader that asks.
LEMMA ActivateTyped == ASSUME DInv, TInv, Activate PROVE TInv'
<1> DEFINE us == Sync(NewDesktop).updates
<1>1. /\ adapter = "idle" /\ pending = <<>>
      /\ shown' = Published(Nothing, Head(us)) /\ pending' = pending \o Tail(us)
      /\ stores' = StoresAfterSync(NewDesktop) /\ queue' = queue /\ UNCHANGED focused
  BY DEF Activate, DInv
<1>2. DeskFine(NewDesktop) /\ StoresFine
  BY NothingYet DEF DInv
<1>3. IsList(us) /\ OnGrafts(us)
  BY <1>2, SyncOnGrafts
<1>4. us # <<>> /\ Head(us) = RootUpdate(DOMAIN stores, NoWindow)
  <2> DEFINE a == RootFirst(NewDesktop)
             b == Snapshots(NewDesktop)
             c == FocusLast(NewDesktop)
  <2>1. us = (a \o b) \o c
    BY DEF Sync
  <2>2. a = <<RootUpdate(DOMAIN stores, NoWindow)>>
    BY DEF RootFirst, Resyncs, NewDesktop
  <2>3. IsList(a) /\ Len(a) = 1 /\ a[1] = RootUpdate(DOMAIN stores, NoWindow)
    BY <2>2, ShortLists
  <2>4. IsList(c) /\ IsList(b)
    BY <1>2, SnapshotsListed, ShortLists DEF FocusLast
  <2> HIDE DEF a, b, c, us
  <2>5. /\ IsList(a \o b) /\ Len(a \o b) = Len(a) + Len(b) /\ Len(b) \in Nat /\ Len(c) \in Nat
        /\ \A i \in 1..(Len(a) + Len(b)) : (a \o b)[i] = IF i <= Len(a) THEN a[i] ELSE b[i - Len(a)]
    BY <2>3, <2>4, ListConcat, ListFacts
  <2> DEFINE ab == a \o b
  <2>6. IsList(ab) /\ Len(ab) \in Nat \ {0} /\ ab[1] = a[1]
    <3>1. 1 \in 1..(Len(a) + Len(b)) /\ 1 <= Len(a)
      BY <2>3, <2>5
    <3> QED
      BY <2>3, <2>5, <3>1
  <2> HIDE DEF ab
  <2>7. /\ IsList(ab \o c) /\ Len(ab \o c) = Len(ab) + Len(c)
        /\ \A i \in 1..(Len(ab) + Len(c)) : (ab \o c)[i] = IF i <= Len(ab) THEN ab[i] ELSE c[i - Len(ab)]
    BY <2>4, <2>6, ListConcat
  <2>8. us = ab \o c
    BY <2>1 DEF ab
  <2>9. Len(us) \in Nat \ {0} /\ us[1] = a[1]
    <3>1. 1 \in 1..(Len(ab) + Len(c)) /\ 1 <= Len(ab)
      BY <2>5, <2>6
    <3> QED
      BY <2>5, <2>6, <2>7, <2>8, <3>1
  <2>10. us # <<>>
    BY <1>3, <2>9, ListFacts
  <2>11. Head(us) = us[1]
    BY <1>3, <2>10, ListTail
  <2> QED
    BY <2>3, <2>9, <2>10, <2>11
<1> HIDE DEF us
<1>5. IsList(Tail(us)) /\ OnGrafts(Tail(us))
  <2>1. /\ IsList(Tail(us)) /\ Len(Tail(us)) = Len(us) - 1 /\ Len(us) \in Nat \ {0}
        /\ \A i \in 1..(Len(us) - 1) : Tail(us)[i] = us[i + 1]
    BY <1>3, <1>4, ListTail
  <2>2. \A i \in 1..Len(Tail(us)) : i + 1 \in 1..Len(us) /\ Tail(us)[i] = us[i + 1]
    BY <2>1
  <2> QED
    BY <1>3, <2>1, <2>2 DEF OnGrafts
<1>6. OnGrafts(pending')
  <2> DEFINE rest == Tail(us)
  <2> HIDE DEF rest
  <2>1. IsList(<<>>) /\ OnGrafts(<<>>) /\ IsList(rest) /\ OnGrafts(rest)
    BY <1>5, ShortLists, OnGraftsFew DEF rest
  <2>2. OnGrafts(<<>> \o rest)
    BY <2>1, OnGraftsConcat
  <2> QED
    BY <1>1, <2>2 DEF rest
<1>7. ShownOk(shown')
  <2> DEFINE kept == Restrict(<<>>, DOMAIN <<>> \cap DOMAIN stores)
  <2>1. shown' = [grafts |-> DOMAIN stores, focus |-> NoWindow, subs |-> kept]
    BY <1>1, <1>4 DEF Published, Nothing, RootUpdate
  <2>2. DOMAIN kept = {}
    BY DEF Restrict
  <2> HIDE DEF kept
  <2> QED
    BY <2>1, <2>2 DEF ShownOk
<1>8. DOMAIN stores' = DOMAIN stores /\ \A v \in DOMAIN stores : stores'[v].focus \in Nodes
  <2>1. \A v \in DOMAIN stores : stores[v].focus \in Nodes
    BY DEF TInv
  <2> QED
    BY <1>1, <1>2, <2>1, StoresStayTyped
<1>9. QueueTyped(queue')
  BY <1>1 DEF TInv, QueueTyped
<1> QED
  BY <1>1, <1>6, <1>7, <1>8, <1>9 DEF TInv, ShownOk, OnGrafts, OnGraft, QueueTyped

\* Messages posted.
LEMMA PostsTyped ==
    ASSUME DInv, TInv, NEW messages, IsList(messages), Posts(messages), QueueTyped(messages)
    PROVE  QueueTyped(queue') /\ ShownOk(shown') /\ OnGrafts(pending')
<1>1. queue' = queue \o messages /\ UNCHANGED <<pending, shown>>
  BY DEF Posts
<1>2. IsList(queue) /\ Len(queue) \in Nat /\ Len(messages) \in Nat
  BY ListFacts DEF DInv, QueueFine
<1>3. /\ Len(queue') = Len(queue) + Len(messages)
      /\ \A i \in 1..(Len(queue) + Len(messages)) :
           queue'[i] = IF i <= Len(queue) THEN queue[i] ELSE messages[i - Len(queue)]
  BY <1>1, <1>2, ListConcat
<1>4. QueueTyped(queue)
  BY DEF TInv, QueueTyped
<1>5. ASSUME NEW i \in 1..Len(queue')
      PROVE  (\E j \in 1..Len(queue) : queue'[i] = queue[j])
             \/ (\E j \in 1..Len(messages) : queue'[i] = messages[j])
  <2>1. CASE i <= Len(queue)
    <3>1. i \in 1..Len(queue) /\ queue'[i] = queue[i]
      BY <1>2, <1>3, <2>1
    <3> QED
      BY <3>1
  <2>2. CASE ~(i <= Len(queue))
    <3>1. i - Len(queue) \in 1..Len(messages) /\ queue'[i] = messages[i - Len(queue)]
      BY <1>2, <1>3, <2>2
    <3> QED
      BY <3>1
  <2> QED
    BY <2>1, <2>2
<1>6. QueueTyped(queue')
  BY <1>4, <1>5 DEF QueueTyped
<1> QED
  BY <1>1, <1>6 DEF TInv

\* A request to sync is not a delta.
LEMMA SyncTyped == IsList(<<SyncMsg>>) /\ QueueTyped(<<SyncMsg>>)
<1> DEFINE messages == <<SyncMsg>>
<1>1. IsList(messages) /\ Len(messages) = 1 /\ messages[1] = SyncMsg
  BY ShortLists
<1>2. SyncMsg.kind # "Delta"
  BY DEF SyncMsg
<1> HIDE DEF messages
<1>3. \A i \in 1..Len(messages) : i = 1
  BY <1>1
<1>4. QueueTyped(messages)
  BY <1>1, <1>2, <1>3 DEF QueueTyped
<1> QED
  BY <1>1, <1>4 DEF messages

\* A window comes without a tree, and its focus on the root.
LEMMA WindowAddedTyped == ASSUME DInv, TInv, NEW w \in Windows, WindowAdded(w) PROVE TInv'
<1>1. stores' = Put(stores, w, NewStore) /\ Posts(<<SyncMsg>>) /\ UNCHANGED focused
  BY DEF WindowAdded
<1>2. QueueTyped(queue') /\ ShownOk(shown') /\ OnGrafts(pending')
  BY <1>1, SyncTyped, PostsTyped
<1>3. /\ DOMAIN stores' = DOMAIN stores \cup {w}
      /\ \A v \in DOMAIN stores \cup {w} : stores'[v] = IF v = w THEN NewStore ELSE stores[v]
  BY <1>1 DEF Put
<1>4. NewStore.focus \in Nodes
  BY RootAssumption DEF NewStore
<1>5. \A v \in DOMAIN stores' : stores'[v].focus \in Nodes
  BY <1>3, <1>4 DEF TInv
<1>6. focused' \in DOMAIN stores' \cup {NoWindow}
  BY <1>1, <1>3 DEF TInv
<1> QED
  BY <1>2, <1>5, <1>6 DEF TInv, ShownOk, OnGrafts, OnGraft, QueueTyped

\* The window that goes takes the focus with it.
LEMMA WindowRemovedTyped == ASSUME DInv, TInv, NEW w \in Windows, WindowRemoved(w) PROVE TInv'
<1>1. /\ stores' = Restrict(stores, DOMAIN stores \ {w}) /\ Posts(<<SyncMsg>>)
      /\ focused' = IF focused = w THEN NoWindow ELSE focused
  BY DEF WindowRemoved
<1>2. QueueTyped(queue') /\ ShownOk(shown') /\ OnGrafts(pending')
  BY <1>1, SyncTyped, PostsTyped
<1>3. /\ DOMAIN stores' = DOMAIN stores \ {w}
      /\ \A v \in DOMAIN stores \ {w} : stores'[v] = stores[v]
  BY <1>1 DEF Restrict
<1>4. \A v \in DOMAIN stores' : stores'[v].focus \in Nodes
  BY <1>3 DEF TInv
<1>5. focused' \in DOMAIN stores' \cup {NoWindow}
  BY <1>1, <1>3 DEF TInv
<1> QED
  BY <1>2, <1>4, <1>5 DEF TInv, ShownOk, OnGrafts, OnGraft, QueueTyped

\* The focus goes to a window there is.
LEMMA FocusChangedTyped == ASSUME DInv, TInv, NEW f, FocusChanged(f) PROVE TInv'
<1>1. /\ Posts(<<SyncMsg>>) /\ stores' = stores /\ focused' = f
      /\ f = NoWindow \/ f \in DOMAIN stores
  BY DEF FocusChanged
<1>2. QueueTyped(queue') /\ ShownOk(shown') /\ OnGrafts(pending')
  BY <1>1, SyncTyped, PostsTyped
<1> QED
  BY <1>1, <1>2 DEF TInv, ShownOk, OnGrafts, OnGraft, QueueTyped

\* What a delta carries as its focus is what the guard made of it.
LEMMA TreeUpdatedTyped ==
    ASSUME DInv, TInv, NEW w, NEW tree, NEW sent, NEW focus \in Nodes, NEW full \in BOOLEAN,
           TreeUpdated(w, tree, sent, focus, full)
    PROVE  TInv'
<1> DEFINE received == StoreApply(stores[w], Update(sent, focus, full))
           guarded == StoreGuard(received)
           g == guarded.focus
           u == Update(sent, g, full)
           m == DeltaMsg(w, u)
           messages == <<m, SyncMsg>>
<1>1. /\ w \in DOMAIN stores /\ UNCHANGED focused
      /\ stores' = [stores EXCEPT ![w] = guarded] /\ Posts(messages)
  BY DEF TreeUpdated
<1>2. g \in Nodes
  <2> DEFINE all == Overlay(stores[w].nodes, sent)
             now == stores[w].rooted \/ full
  <2>1. received = [nodes |-> all, rooted |-> now, focus |-> focus]
    BY DEF StoreApply, Update
  <2> HIDE DEF all, now, received
  <2>2. guarded = received \/ guarded = [received EXCEPT !.focus = Root]
    BY DEF StoreGuard
  <2> HIDE DEF guarded
  <2> QED
    BY <2>1, <2>2, RootAssumption
<1>3. w \in Windows
  BY <1>1 DEF DInv, StoresFine
<1>4. m.window = w /\ m.update = u /\ u.focus = g /\ u.full = full
  BY DEF DeltaMsg, Update
<1>5. SyncMsg.kind # "Delta"
  BY DEF SyncMsg
<1> HIDE DEF received, guarded, g, u, m
<1>6. IsList(messages) /\ Len(messages) = 2 /\ messages[1] = m /\ messages[2] = SyncMsg
  <2>1. messages \in Seq({m, SyncMsg})
    OBVIOUS
  <2>2. IsList(messages)
    BY <2>1 DEF IsList
  <2> QED
    BY <2>2
<1> HIDE DEF messages
<1>7. QueueTyped(messages)
  <2>1. \A i \in 1..Len(messages) : i = 1 \/ i = 2
    BY <1>6
  <2> QED
    BY <2>1, <1>2, <1>3, <1>4, <1>5, <1>6 DEF QueueTyped
<1>8. QueueTyped(queue') /\ ShownOk(shown') /\ OnGrafts(pending')
  BY <1>1, <1>6, <1>7, PostsTyped
<1>9. DOMAIN stores' = DOMAIN stores /\ \A v \in DOMAIN stores : stores'[v].focus \in Nodes
  <2>1. \A v \in DOMAIN stores : stores'[v] = IF v = w THEN guarded ELSE stores[v]
    BY <1>1
  <2>2. guarded.focus \in Nodes
    BY <1>2 DEF g
  <2> QED
    BY <1>1, <2>1, <2>2 DEF TInv
<1> QED
  BY <1>1, <1>8, <1>9 DEF TInv, ShownOk, OnGrafts, OnGraft, QueueTyped

\* Nothing is there to begin with.
LEMMA TypedInit == DesktopInit => TInv
<1> SUFFICES ASSUME DesktopInit PROVE TInv
  OBVIOUS
<1>1. stores = <<>> /\ focused = NoWindow /\ queue = <<>> /\ pending = <<>> /\ shown = Nothing
  BY DEF DesktopInit
<1>2. DOMAIN stores = {} /\ Len(queue) = 0
  BY <1>1
<1>3. ShownOk(shown)
  BY <1>1 DEF ShownOk, Nothing
<1>4. OnGrafts(pending)
  BY <1>1, OnGraftsFew
<1> QED
  BY <1>1, <1>2, <1>3, <1>4 DEF TInv

\* Every step keeps the types.
LEMMA TypedStep ==
    ASSUME DInv, TInv, Host = "visible", [DesktopNext]_desktopVars
    PROVE  TInv'
<1>1. CASE FromProvider
  <2>1. ASSUME NEW w \in Windows, WindowAdded(w) \/ WindowRemoved(w) PROVE TInv'
    BY <2>1, WindowAddedTyped, WindowRemovedTyped
  <2>2. ASSUME NEW f \in Windows \cup {NoWindow}, FocusChanged(f) PROVE TInv'
    BY <2>2, FocusChangedTyped
  <2>3. ASSUME NEW w \in Windows, NEW tree \in Trees, NEW focus \in Nodes, NEW full \in BOOLEAN,
               NEW sent \in (SUBSET tree) \ {{}}, TreeUpdated(w, tree, sent, focus, full)
        PROVE  TInv'
    BY <2>3, TreeUpdatedTyped
  <2> QED
    BY <1>1, <2>1, <2>2, <2>3 DEF FromProvider
<1>2. CASE Beat
  <2>1. Posts(<<SyncMsg>>) /\ UNCHANGED <<stores, focused>>
    BY <1>2 DEF Beat
  <2>2. QueueTyped(queue') /\ ShownOk(shown') /\ OnGrafts(pending')
    BY <2>1, SyncTyped, PostsTyped
  <2> QED
    BY <2>1, <2>2 DEF TInv, ShownOk, OnGrafts, OnGraft, QueueTyped
<1>3. CASE Activate
  BY <1>3, ActivateTyped
<1>4. CASE HandleSync
  BY <1>4, HandleSyncTyped
<1>5. CASE HandleDelta
  BY <1>5, HandleDeltaTyped
<1>6. CASE UNCHANGED desktopVars
  <2>1. UNCHANGED <<stores, focused, queue, pending, shown>>
    BY <1>6 DEF desktopVars
  <2> QED
    BY <2>1 DEF TInv, ShownOk, OnGrafts, OnGraft
<1> QED
  BY <1>1, <1>2, <1>3, <1>4, <1>5, <1>6 DEF DesktopNext, Handle

\* Every variable has its type: a store holds a tree under one of its own
\* nodes, the focus is on a window there is, the composition keeps books of
\* no window that is not grafted, and the consumer's focus never leaves the
\* subtrees it was given.
THEOREM DesktopWellTyped == ASSUME Host = "visible" PROVE DesktopSpec => []DesktopTypeOK
<1>1. DInv /\ CInv /\ [DesktopNext]_desktopVars => CInv'
  BY CurrentStep
<1>2. DInv /\ TInv /\ [DesktopNext]_desktopVars => TInv'
  BY TypedStep
<1>3. ASSUME DInv, CInv, TInv PROVE DesktopTypeOK
  <2>1. /\ DOMAIN remote = Windows /\ DOMAIN stores \subseteq used /\ used \subseteq Windows
        /\ \A w \in DOMAIN stores : StoreTrue(stores[w], remote[w])
        /\ \A w \in Windows \ DOMAIN stores : remote[w] = {}
    BY <1>3 DEF CInv, StoresTrue
  <2>2. ASSUME NEW w \in DOMAIN stores PROVE StoreOk(stores[w]) /\ IsTree(remote[w])
    <3>1. StoreFine(stores[w])
      BY <1>3 DEF DInv, StoresFine
    <3>2. stores[w].rooted \in BOOLEAN
      BY <3>1 DEF StoreFine
    <3>3. IsTree(stores[w].nodes)
      BY <2>1 DEF StoreTrue
    <3>4. stores[w].focus \in Nodes
      BY <1>3 DEF TInv
    <3>5. IsTree(remote[w])
      <4>1. CASE stores[w].rooted
        BY <2>1, <4>1, TreesAssumption DEF StoreTrue
      <4>2. CASE ~stores[w].rooted
        <5>1. remote[w] = {}
          BY <2>1, <4>2 DEF StoreTrue
        <5> QED
          BY <5>1, NoTree
      <4> QED
        BY <4>1, <4>2
    <3> QED
      BY <3>2, <3>3, <3>4, <3>5 DEF StoreOk
  <2>3. \A w \in Windows : IsTree(remote[w])
    BY <2>1, <2>2, NoTree
  <2>4. DOMAIN queue = 1..Len(queue)
    BY <1>3, ListFacts DEF DInv, QueueFine
  <2>5. ASSUME NEW i \in DOMAIN queue, queue[i].kind = "Delta"
        PROVE  queue[i].window \in Windows /\ UpdateOk(queue[i].update)
    <3>1. /\ queue[i].window \in Windows
          /\ queue[i].update.focus \in Nodes /\ queue[i].update.full \in BOOLEAN
      BY <1>3, <2>4, <2>5 DEF TInv
    <3>2. IsTree(queue[i].update.nodes)
      BY <1>3, <2>4, <2>5, <3>1 DEF CInv, QueueTrue, IsDelta
    <3> QED
      BY <3>1, <3>2 DEF UpdateOk
  <2>6. /\ desktop.live \subseteq desktop.grafted /\ desktop.grafted \subseteq Windows
        /\ DOMAIN desktop.held = desktop.live
        /\ desktop.focus \in desktop.live \cup {NoWindow}
    BY <1>3 DEF DInv, DeskFine
  <2>7. shown.focus \in DOMAIN shown.subs \cup {NoWindow} /\ DOMAIN shown.subs \subseteq shown.grafts
    BY <1>3 DEF TInv, ShownOk
  <2>8. focused \in DOMAIN stores \cup {NoWindow}
    BY <1>3 DEF TInv
  <2> QED
    BY <2>1, <2>2, <2>3, <2>5, <2>6, <2>7, <2>8 DEF DesktopTypeOK
<1> QED
  BY <1>1, <1>2, <1>3, DesktopInvariance, CurrentInit, TypedInit, PTL DEF DesktopSpec
=============================================================================
