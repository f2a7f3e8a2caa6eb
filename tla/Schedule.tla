------------------------------ MODULE Schedule ------------------------------
(***************************************************************************)
(* When a source looks again: RewalkCoalescer and NodeRefreshLimiter of    *)
(* crates/accesskit_remote_source, polled by the sources' loops against a  *)
(* clock.  Structural changes of a window collapse into one walk, fired    *)
(* Quiet after the last of a burst and at most MaxDelay after its first.   *)
(* A change of a node is read at once or, MinInterval not having passed,   *)
(* left to one trailing read no later than RefreshMax after the first      *)
(* suppressed one.  The loop may poll late, so both are promises about     *)
(* the deadlines, and every poll takes all that is due.                    *)
(***************************************************************************)
EXTENDS Integers, FiniteSets, FiniteSetsExt

CONSTANTS
    Walked,         \* windows
    Refreshed,      \* <<window, node>> keys
    Quiet, MaxDelay, MinInterval, RefreshMax,
    MaxClock        \* bound on time

ASSUME ScheduleAssumption ==
    /\ {Quiet, MaxDelay, MinInterval, RefreshMax, MaxClock} \subseteq Nat
    /\ Quiet <= MaxDelay /\ MinInterval <= RefreshMax

Never == -1

VARIABLES
    clock,
    bursts,     \* the coalescer's entries: [deadline, latest], Never when there is none
    entries,    \* the limiter's: [fired, deadline, since]
    began,      \* history: when the unwalked burst of a window began
    unread,     \* history: since when a change of a node has not been read
    lastRead    \* history: when a node was last read, and how long after the read before

scheduleVars == <<clock, bursts, entries, began, unread, lastRead>>

NoBurst == [deadline |-> Never, latest |-> Never]
NoEntry == [fired |-> Never, deadline |-> Never, since |-> Never]
Least(a, b) == IF a < b THEN a ELSE b

ScheduleInit ==
    /\ clock = 0
    /\ bursts = [w \in Walked |-> NoBurst]
    /\ entries = [k \in Refreshed |-> NoEntry]
    /\ began = [w \in Walked |-> Never]
    /\ unread = [k \in Refreshed |-> Never]
    /\ lastRead = [k \in Refreshed |-> [at |-> Never, gap |-> RefreshMax]]

-----------------------------------------------------------------------------
NotedBurst(b) ==
    LET latest == IF b = NoBurst THEN clock + MaxDelay ELSE b.latest
    IN  [deadline |-> Least(clock + Quiet, latest), latest |-> latest]

NoteBurst(w) ==
    /\ bursts' = [bursts EXCEPT ![w] = NotedBurst(@)]
    /\ began' = [began EXCEPT ![w] = IF @ = Never THEN clock ELSE @]
    /\ UNCHANGED <<clock, entries, unread, lastRead>>

IsQuiet(e) == e.fired = Never \/ clock >= e.fired + MinInterval

NotedUncapped(e) ==
    IF e.deadline = Never /\ IsQuiet(e)
    THEN [fired |-> clock, deadline |-> Never, since |-> Never]
    ELSE [fired |-> e.fired, deadline |-> Least(clock + MinInterval, clock + RefreshMax),
          since |-> clock]

Noted(e) ==
    LET since == IF e.since = Never THEN clock ELSE e.since
    IN  IF e.deadline = Never /\ IsQuiet(e)
        THEN [fired |-> clock, deadline |-> Never, since |-> Never]
        ELSE [fired |-> e.fired, deadline |-> Least(clock + MinInterval, since + RefreshMax),
              since |-> since]
\* What the history keeps of a node read now.
Gap(k) == IF lastRead[k].at = Never THEN RefreshMax ELSE clock - lastRead[k].at
ReadNow(k) == [at |-> clock, gap |-> Gap(k)]

\* note's answer is whether to read the node at once.
NoteChange(k) ==
    LET e == Noted(entries[k])
    IN  /\ entries' = [entries EXCEPT ![k] = e]
        /\ IF e.deadline = Never
           THEN /\ unread' = [unread EXCEPT ![k] = Never]
                /\ lastRead' = [lastRead EXCEPT ![k] = ReadNow(k)]
           ELSE /\ unread' = [unread EXCEPT ![k] = IF @ = Never THEN clock ELSE @]
                /\ UNCHANGED lastRead
        /\ UNCHANGED <<clock, bursts, began>>

Due(deadline) == deadline # Never /\ deadline <= clock

\* take_due also forgets the entries that are idle and out of their interval.
Taken(e) ==
    LET t == IF Due(e.deadline) THEN [fired |-> clock, deadline |-> Never, since |-> Never] ELSE e
    IN  IF t.deadline # Never \/ (t.fired # Never /\ t.fired + MinInterval > clock)
        THEN t ELSE NoEntry

TakeDue ==
    LET walks == {w \in Walked : Due(bursts[w].deadline)}
        reads == {k \in Refreshed : Due(entries[k].deadline)}
    IN  /\ ~(walks = {} /\ reads = {})
        /\ bursts' = [w \in Walked |-> IF w \in walks THEN NoBurst ELSE bursts[w]]
        /\ entries' = [k \in Refreshed |-> Taken(entries[k])]
        /\ began' = [w \in Walked |-> IF w \in walks THEN Never ELSE began[w]]
        /\ unread' = [k \in Refreshed |-> IF k \in reads THEN Never ELSE unread[k]]
        /\ lastRead' = [k \in Refreshed |-> IF k \in reads THEN ReadNow(k) ELSE lastRead[k]]
        /\ UNCHANGED clock

\* The window is gone: neither schedule remembers it.
Discard(w) ==
    /\ bursts[w] # NoBurst \/ \E k \in Refreshed : k[1] = w /\ entries[k] # NoEntry
    /\ bursts' = [bursts EXCEPT ![w] = NoBurst]
    /\ entries' = [k \in Refreshed |-> IF k[1] = w THEN NoEntry ELSE entries[k]]
    /\ began' = [began EXCEPT ![w] = Never]
    /\ unread' = [k \in Refreshed |-> IF k[1] = w THEN Never ELSE unread[k]]
    /\ lastRead' = [k \in Refreshed |->
                        IF k[1] = w THEN [at |-> Never, gap |-> RefreshMax] ELSE lastRead[k]]
    /\ UNCHANGED clock

Tick ==
    /\ clock < MaxClock /\ clock' = clock + 1
    /\ UNCHANGED <<bursts, entries, began, unread, lastRead>>

ScheduleNext ==
    \/ \E w \in Walked : NoteBurst(w) \/ Discard(w)
    \/ \E k \in Refreshed : NoteChange(k)
    \/ TakeDue
    \/ Tick

-----------------------------------------------------------------------------
(* Properties.                                                             *)

BurstCapped ==
    \A w \in Walked :
        began[w] # Never =>
            /\ bursts[w].deadline # Never
            /\ bursts[w].deadline <= began[w] + MaxDelay

TrailingKept ==
    \A k \in Refreshed :
        /\ unread[k] # Never =>
              entries[k].deadline # Never /\ entries[k].deadline <= unread[k] + RefreshMax
        /\ lastRead[k].gap >= MinInterval

(* No change waits for ever.  A window that keeps changing is still walked:*)
(* whatever is noted after a burst began, the walk stays due by MaxDelay   *)
(* after its beginning (RewalkCoalescer::note).  A node that changed and   *)
(* was not read is read by RefreshMax after the first change put off, and  *)
(* none is read twice within MinInterval, however its changes fall         *)
(* (NodeRefreshLimiter::note and take_due, whose forgetting of idle        *)
(* entries must not shorten the interval).                                 *)
ChangesServed == BurstCapped /\ TrailingKept
=============================================================================
