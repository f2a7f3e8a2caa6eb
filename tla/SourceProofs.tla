---------------------------- MODULE SourceProofs ----------------------------
(***************************************************************************)
(* Proofs about Schedule, for every choice of its delays: whatever is      *)
(* noted, discarded and polled, and however late, no change waits for ever *)
(* and no node is read twice within its interval.  And about Discovery,    *)
(* for any programs and frames and any number of troubles: whatever        *)
(* earlier scans met, one that is not disturbed finds what is shown.       *)
(***************************************************************************)
EXTENDS Schedule, Discovery, TLAPS, FiniteSetTheorems, SequenceTheorems, WellFoundedInduction

ScheduleSpec == ScheduleInit /\ [][ScheduleNext]_scheduleVars

-----------------------------------------------------------------------------
(* The inductive invariant.  Each part speaks of one window or of one node,*)
(* so that a step that leaves those alone leaves the part alone.           *)

Moment == {Never} \cup 0..clock    \* something that has happened, or not

(* A burst is kept exactly while its walk is owed, and its latest moment   *)
(* is reckoned from where it began.                                        *)
BurstKept(b, since) ==
    /\ since \in Moment
    /\ since = Never => b = NoBurst
    /\ since # Never => /\ b = [deadline |-> b.deadline, latest |-> since + MaxDelay]
                        /\ b.deadline \in Nat /\ b.deadline <= b.latest

(* An entry has a deadline exactly while a change is unread.  It remembers *)
(* the last reading as long as that can still put another off, and its     *)
(* deadline comes no sooner than the interval allows.                      *)
EntryKept(e, since, last) ==
    /\ e = [fired |-> e.fired, deadline |-> e.deadline, since |-> since]
    /\ e.fired \in {Never, last.at} /\ since \in Moment /\ last.at \in Moment
    /\ since = Never => e.deadline = Never
    /\ since # Never => /\ e.deadline \in Nat /\ e.deadline <= since + RefreshMax
                        /\ last.at # Never => /\ last.at <= since
                                              /\ e.deadline >= last.at + MinInterval
    /\ last.at # Never /\ last.at + MinInterval > clock => e.fired = last.at

(* What the history keeps of a reading.                                    *)
GapKept(last) == last = [at |-> last.at, gap |-> last.gap] /\ last.gap \in Int /\ last.gap >= MinInterval

Shape ==
    /\ clock \in Nat
    /\ bursts = [w \in Walked |-> bursts[w]] /\ began = [w \in Walked |-> began[w]]
    /\ entries = [k \in Refreshed |-> entries[k]] /\ unread = [k \in Refreshed |-> unread[k]]
    /\ lastRead = [k \in Refreshed |-> lastRead[k]]
BurstsKept == \A w \in Walked : BurstKept(bursts[w], began[w])
EntriesKept ==
    \A k \in Refreshed : EntryKept(entries[k], unread[k], lastRead[k]) /\ GapKept(lastRead[k])

SInv == Shape /\ BurstsKept /\ EntriesKept

-----------------------------------------------------------------------------
(* Time.                                                                   *)

(* The delays are numbers, in the order the sources set them.              *)
LEMMA Delays ==
    /\ Quiet \in Nat /\ MaxDelay \in Nat /\ MinInterval \in Nat /\ RefreshMax \in Nat
    /\ Quiet <= MaxDelay /\ MinInterval <= RefreshMax /\ Never = -1
BY ScheduleAssumption DEF Never

(* Time passing disturbs no burst and no entry.                            *)
LEMMA TickKeeps ==
    ASSUME SInv, Tick
    PROVE  SInv'
<1> USE Delays
<1>1. clock \in Nat /\ clock' = clock + 1 /\ UNCHANGED <<bursts, entries, began, unread, lastRead>>
  BY DEF SInv, Shape, Tick
<1>2. \A s \in Moment : s \in Moment'
  BY <1>1 DEF Moment
<1>3. BurstsKept'
  BY <1>1, <1>2 DEF SInv, BurstsKept, BurstKept
<1>4. ASSUME NEW k \in Refreshed
      PROVE  EntryKept(entries[k], unread[k], lastRead[k])'
  <2>1. EntryKept(entries[k], unread[k], lastRead[k])
    BY DEF SInv, EntriesKept
  <2>2. lastRead[k].at \in Moment
    BY <2>1 DEF EntryKept
  <2>3. lastRead[k].at # Never /\ lastRead[k].at + MinInterval > clock + 1 =>
          lastRead[k].at + MinInterval > clock
    BY <1>1, <2>2 DEF Moment
  <2> QED
    BY <1>1, <1>2, <2>1, <2>3 DEF EntryKept
<1>5. EntriesKept'
  BY <1>1, <1>4 DEF SInv, EntriesKept, GapKept
<1> QED
  BY <1>1, <1>3, <1>5 DEF SInv, Shape

-----------------------------------------------------------------------------
(* Walks.                                                                  *)

(* A change noted keeps a burst's latest moment where it was.              *)
LEMMA NotedBurstKept ==
    ASSUME NEW b, NEW since, clock \in Nat, BurstKept(b, since)
    PROVE  BurstKept(NotedBurst(b), IF since = Never THEN clock ELSE since)
<1> USE Delays
<1> DEFINE now == IF since = Never THEN clock ELSE since
<1>1. since = Never <=> b = NoBurst
  BY DEF BurstKept, NoBurst
<1>2. NotedBurst(b).latest = now + MaxDelay
  BY <1>1 DEF NotedBurst, BurstKept
<1>3. now \in 0..clock
  BY DEF BurstKept, Moment
<1>4. NotedBurst(b) = [deadline |-> Least(clock + Quiet, now + MaxDelay), latest |-> now + MaxDelay]
  BY <1>2 DEF NotedBurst
<1>5. Least(clock + Quiet, now + MaxDelay) \in Nat
      /\ Least(clock + Quiet, now + MaxDelay) <= now + MaxDelay
  BY <1>3 DEF Least
<1> HIDE DEF now
<1>6. BurstKept(NotedBurst(b), now)
  BY <1>3, <1>4, <1>5 DEF BurstKept, Moment
<1> QED
  BY <1>6 DEF now

(* No burst is kept of a window that is not to be walked.                  *)
LEMMA NoBurstKept == BurstKept(NoBurst, Never)
BY DEF BurstKept, Moment

(* Noting a structural change.                                             *)
LEMMA NoteBurstKeeps ==
    ASSUME SInv, NEW w \in Walked, NoteBurst(w)
    PROVE  SInv'
<1>1. /\ UNCHANGED <<clock, entries, unread, lastRead>> /\ clock \in Nat
      /\ bursts' = [v \in Walked |-> IF v = w THEN NotedBurst(bursts[w]) ELSE bursts[v]]
      /\ began' = [v \in Walked |-> IF v = w THEN IF began[w] = Never THEN clock ELSE began[w]
                                             ELSE began[v]]
  BY DEF SInv, Shape, NoteBurst
<1>2. Moment' = Moment
  BY <1>1 DEF Moment
<1>3. Shape'
  BY <1>1 DEF SInv, Shape
<1>4. EntriesKept'
  BY <1>1, <1>2 DEF SInv, EntriesKept, EntryKept, GapKept
<1>5. \A v \in Walked : BurstKept(bursts'[v], began'[v])
  BY <1>1, NotedBurstKept DEF SInv, BurstsKept
<1>6. BurstsKept'
  BY <1>2, <1>5 DEF BurstsKept, BurstKept
<1> QED
  BY <1>3, <1>4, <1>6 DEF SInv

-----------------------------------------------------------------------------
(* Reads.                                                                  *)

(* Nothing is kept of a node that has not been read.                       *)
LEMMA NoEntryKept ==
    LET last == [at |-> Never, gap |-> RefreshMax]
    IN  EntryKept(NoEntry, Never, last) /\ GapKept(last)
BY Delays DEF EntryKept, NoEntry, Moment, GapKept

(* A node may be read when the last reading is out of its interval.        *)
LEMMA ReadKept ==
    ASSUME NEW k \in Refreshed, clock \in Nat, lastRead[k].at \in Moment,
           lastRead[k].at # Never => clock >= lastRead[k].at + MinInterval
    PROVE  /\ EntryKept([fired |-> clock, deadline |-> Never, since |-> Never], Never, ReadNow(k))
           /\ GapKept(ReadNow(k))
<1>1. Gap(k) \in Int /\ Gap(k) >= MinInterval
  BY Delays DEF Gap, Moment
<1>2. clock \in Moment /\ Never \in Moment
  BY DEF Moment
<1> QED
  BY <1>1, <1>2 DEF EntryKept, GapKept, ReadNow

(* A change that is noted: either the node is read at once, with the last  *)
(* reading out of its interval, or the trailing read stays due in time.    *)
LEMMA NotedKept ==
    ASSUME NEW e, NEW since, NEW last, clock \in Nat, EntryKept(e, since, last)
    PROVE  \/ /\ Noted(e) = [fired |-> clock, deadline |-> Never, since |-> Never]
              /\ last.at # Never => clock >= last.at + MinInterval
           \/ /\ Noted(e).deadline # Never
              /\ EntryKept(Noted(e), IF since = Never THEN clock ELSE since, last)
<1> USE Delays
<1> DEFINE now == IF since = Never THEN clock ELSE since
           due == Least(clock + MinInterval, now + RefreshMax)
<1>1. e = [fired |-> e.fired, deadline |-> e.deadline, since |-> since]
      /\ e.fired \in {Never, last.at} /\ since \in Moment /\ last.at \in Moment
      /\ (e.deadline = Never <=> since = Never)
  BY DEF EntryKept
<1>2. now \in 0..clock /\ (last.at # Never => last.at <= now)
  BY <1>1 DEF EntryKept, Moment
<1>3. CASE e.deadline = Never /\ IsQuiet(e)
  <2>1. Noted(e) = [fired |-> clock, deadline |-> Never, since |-> Never]
    BY <1>3 DEF Noted
  <2>2. last.at # Never => clock >= last.at + MinInterval
    BY <1>1, <1>3 DEF EntryKept, IsQuiet, Moment
  <2> QED
    BY <2>1, <2>2
<1>4. CASE ~(e.deadline = Never /\ IsQuiet(e))
  <2>1. Noted(e) = [fired |-> e.fired, deadline |-> due, since |-> now]
    <3>1. (IF e.since = Never THEN clock ELSE e.since) = now
      BY <1>1
    <3> HIDE DEF now
    <3> QED
      BY <1>4, <3>1 DEF Noted
  <2>2. due \in Nat /\ due <= now + RefreshMax
    BY <1>2 DEF Least
  <2>3. last.at # Never => due >= last.at + MinInterval
    BY <1>1, <1>2 DEF Least, Moment
  <2>4. last.at # Never /\ last.at + MinInterval > clock => e.fired = last.at
    BY DEF EntryKept
  <2> HIDE DEF now, due
  <2>5. now # Never /\ now \in Moment /\ due # Never
    BY <1>2, <2>2 DEF Moment
  <2>6. EntryKept(Noted(e), now, last)
    BY <1>1, <1>2, <2>1, <2>2, <2>3, <2>4, <2>5 DEF EntryKept
  <2> QED
    BY <2>1, <2>5, <2>6 DEF now
<1> QED
  BY <1>3, <1>4

(* Noting the change of a node.                                            *)
LEMMA NoteChangeKeeps ==
    ASSUME SInv, NEW k \in Refreshed, NoteChange(k)
    PROVE  SInv'
<1> DEFINE e == Noted(entries[k])
<1>1. /\ UNCHANGED <<clock, bursts, began>> /\ clock \in Nat
      /\ entries' = [j \in Refreshed |-> IF j = k THEN e ELSE entries[j]]
      /\ EntryKept(entries[k], unread[k], lastRead[k]) /\ GapKept(lastRead[k])
  BY DEF SInv, Shape, EntriesKept, NoteChange
<1>2. Moment' = Moment
  BY <1>1 DEF Moment
<1>3. BurstsKept'
  BY <1>1, <1>2 DEF SInv, BurstsKept, BurstKept
<1>4. CASE e.deadline = Never
  <2>1. /\ unread' = [j \in Refreshed |-> IF j = k THEN Never ELSE unread[j]]
        /\ lastRead' = [j \in Refreshed |-> IF j = k THEN ReadNow(k) ELSE lastRead[j]]
    BY <1>4 DEF SInv, Shape, NoteChange
  <2>2. EntryKept(e, Never, ReadNow(k)) /\ GapKept(ReadNow(k))
    <3>1. /\ e = [fired |-> clock, deadline |-> Never, since |-> Never]
          /\ lastRead[k].at # Never => clock >= lastRead[k].at + MinInterval
      BY <1>1, <1>4, NotedKept
    <3>2. lastRead[k].at \in Moment
      BY <1>1 DEF EntryKept
    <3> QED
      BY <1>1, <3>1, <3>2, ReadKept
  <2>3. \A j \in Refreshed : EntryKept(entries'[j], unread'[j], lastRead'[j]) /\ GapKept(lastRead'[j])
    BY <1>1, <2>1, <2>2 DEF SInv, EntriesKept
  <2>4. EntriesKept'
    BY <1>1, <1>2, <2>3 DEF EntriesKept, EntryKept, GapKept
  <2>5. Shape'
    BY <1>1, <2>1 DEF SInv, Shape
  <2> QED
    BY <1>3, <2>4, <2>5 DEF SInv
<1>5. CASE e.deadline # Never
  <2> DEFINE now == IF unread[k] = Never THEN clock ELSE unread[k]
  <2>1. /\ unread' = [j \in Refreshed |-> IF j = k THEN now ELSE unread[j]]
        /\ lastRead' = lastRead
    BY <1>5 DEF SInv, Shape, NoteChange
  <2>2. EntryKept(e, now, lastRead[k])
    BY <1>1, <1>5, NotedKept
  <2>3. \A j \in Refreshed : EntryKept(entries'[j], unread'[j], lastRead'[j]) /\ GapKept(lastRead'[j])
    BY <1>1, <2>1, <2>2 DEF SInv, EntriesKept
  <2>4. EntriesKept'
    BY <1>1, <1>2, <2>3 DEF EntriesKept, EntryKept, GapKept
  <2>5. Shape'
    BY <1>1, <2>1 DEF SInv, Shape
  <2> QED
    BY <1>3, <2>4, <2>5 DEF SInv
<1> QED
  BY <1>4, <1>5

-----------------------------------------------------------------------------
(* Polling and forgetting.                                                 *)

(* A poll reads what is due and forgets only an entry that could put       *)
(* nothing off any more.                                                   *)
LEMMA TakenKept ==
    ASSUME NEW k \in Refreshed, clock \in Nat,
           EntryKept(entries[k], unread[k], lastRead[k]), GapKept(lastRead[k])
    PROVE  IF Due(entries[k].deadline)
           THEN EntryKept(Taken(entries[k]), Never, ReadNow(k)) /\ GapKept(ReadNow(k))
           ELSE EntryKept(Taken(entries[k]), unread[k], lastRead[k])
<1> USE Delays
<1> DEFINE e == entries[k]
           last == lastRead[k]
           fresh == [fired |-> clock, deadline |-> Never, since |-> Never]
<1>1. e = [fired |-> e.fired, deadline |-> e.deadline, since |-> unread[k]]
      /\ e.fired \in {Never, last.at} /\ unread[k] \in Moment /\ last.at \in Moment
      /\ (e.deadline = Never <=> unread[k] = Never)
      /\ (last.at # Never /\ last.at + MinInterval > clock => e.fired = last.at)
  BY DEF EntryKept
<1>2. CASE Due(e.deadline)
  <2>1. last.at # Never => clock >= last.at + MinInterval
    BY <1>1, <1>2 DEF EntryKept, Due, Moment
  <2>2. EntryKept(fresh, Never, ReadNow(k)) /\ GapKept(ReadNow(k))
    BY <1>1, <2>1, ReadKept
  <2>3. Taken(e) = fresh \/ (Taken(e) = NoEntry /\ MinInterval = 0)
    BY <1>2 DEF Taken
  <2>4. MinInterval = 0 => EntryKept(NoEntry, Never, ReadNow(k))
    BY DEF EntryKept, NoEntry, ReadNow, Moment
  <2> QED
    BY <1>2, <2>2, <2>3, <2>4
<1>3. CASE ~Due(e.deadline)
  <2>1. Taken(e) = e \/ (Taken(e) = NoEntry /\ e.deadline = Never
                          /\ ~(e.fired # Never /\ e.fired + MinInterval > clock))
    BY <1>3 DEF Taken
  <2>2. CASE Taken(e) = e
    BY <1>3, <2>2
  <2>3. CASE Taken(e) = NoEntry /\ e.deadline = Never
              /\ ~(e.fired # Never /\ e.fired + MinInterval > clock)
    <3>1. unread[k] = Never /\ ~(last.at # Never /\ last.at + MinInterval > clock)
      BY <1>1, <2>3
    <3>2. EntryKept(NoEntry, unread[k], last)
      BY <1>1, <3>1 DEF EntryKept, NoEntry
    <3> QED
      BY <1>3, <2>3, <3>2
  <2> QED
    BY <2>1, <2>2, <2>3
<1> QED
  BY <1>2, <1>3

(* A poll.                                                                 *)
LEMMA TakeDueKeeps ==
    ASSUME SInv, TakeDue
    PROVE  SInv'
<1>1. /\ clock' = clock /\ clock \in Nat
      /\ bursts' = [w \in Walked |-> IF Due(bursts[w].deadline) THEN NoBurst ELSE bursts[w]]
      /\ began' = [w \in Walked |-> IF Due(bursts[w].deadline) THEN Never ELSE began[w]]
      /\ entries' = [k \in Refreshed |-> Taken(entries[k])]
      /\ unread' = [k \in Refreshed |-> IF Due(entries[k].deadline) THEN Never ELSE unread[k]]
      /\ lastRead' = [k \in Refreshed |->
                          IF Due(entries[k].deadline) THEN ReadNow(k) ELSE lastRead[k]]
  BY DEF SInv, Shape, TakeDue
<1>2. Moment' = Moment
  BY <1>1 DEF Moment
<1>3. \A w \in Walked : BurstKept(bursts'[w], began'[w])
  BY <1>1, NoBurstKept DEF SInv, BurstsKept
<1>4. BurstsKept'
  BY <1>2, <1>3 DEF BurstsKept, BurstKept
<1>5. ASSUME NEW k \in Refreshed
      PROVE  EntryKept(entries'[k], unread'[k], lastRead'[k]) /\ GapKept(lastRead'[k])
  <2>1. EntryKept(entries[k], unread[k], lastRead[k]) /\ GapKept(lastRead[k])
    BY DEF SInv, EntriesKept
  <2> QED
    BY <1>1, <2>1, TakenKept
<1>6. EntriesKept'
  BY <1>1, <1>2, <1>5 DEF EntriesKept, EntryKept, GapKept
<1>7. Shape'
  BY <1>1 DEF Shape
<1> QED
  BY <1>4, <1>6, <1>7 DEF SInv

(* The window is gone.                                                     *)
LEMMA DiscardKeeps ==
    ASSUME SInv, NEW w \in Walked, Discard(w)
    PROVE  SInv'
<1> DEFINE none == [at |-> Never, gap |-> RefreshMax]
<1>1. /\ clock' = clock /\ clock \in Nat
      /\ bursts' = [v \in Walked |-> IF v = w THEN NoBurst ELSE bursts[v]]
      /\ began' = [v \in Walked |-> IF v = w THEN Never ELSE began[v]]
      /\ entries' = [k \in Refreshed |-> IF k[1] = w THEN NoEntry ELSE entries[k]]
      /\ unread' = [k \in Refreshed |-> IF k[1] = w THEN Never ELSE unread[k]]
      /\ lastRead' = [k \in Refreshed |-> IF k[1] = w THEN none ELSE lastRead[k]]
  BY DEF SInv, Shape, Discard
<1>2. Moment' = Moment
  BY <1>1 DEF Moment
<1>3. \A v \in Walked : BurstKept(bursts'[v], began'[v])
  BY <1>1, NoBurstKept DEF SInv, BurstsKept
<1>4. BurstsKept'
  BY <1>2, <1>3 DEF BurstsKept, BurstKept
<1>5. EntryKept(NoEntry, Never, none) /\ GapKept(none)
  BY NoEntryKept
<1>6. \A k \in Refreshed :
         EntryKept(entries'[k], unread'[k], lastRead'[k]) /\ GapKept(lastRead'[k])
  BY <1>1, <1>5 DEF SInv, EntriesKept
<1>7. EntriesKept'
  BY <1>1, <1>2, <1>6 DEF EntriesKept, EntryKept, GapKept
<1>8. Shape'
  BY <1>1 DEF Shape
<1> QED
  BY <1>4, <1>7, <1>8 DEF SInv

-----------------------------------------------------------------------------
(* However changes, polls and the loss of windows fall, the schedules and  *)
(* what they owe agree.                                                    *)
THEOREM ScheduleInvariance == ScheduleSpec => []SInv
<1>1. ScheduleInit => SInv
  <2> SUFFICES ASSUME ScheduleInit PROVE SInv
    OBVIOUS
  <2>1. Shape
    BY DEF ScheduleInit, Shape
  <2>2. BurstsKept
    BY NoBurstKept DEF ScheduleInit, BurstsKept
  <2>3. EntriesKept
    BY NoEntryKept DEF ScheduleInit, EntriesKept
  <2> QED
    BY <2>1, <2>2, <2>3 DEF SInv
<1>2. SInv /\ [ScheduleNext]_scheduleVars => SInv'
  <2> SUFFICES ASSUME SInv, [ScheduleNext]_scheduleVars PROVE SInv'
    OBVIOUS
  <2>1. CASE UNCHANGED scheduleVars
    BY <2>1 DEF scheduleVars, SInv, Shape, BurstsKept, BurstKept, EntriesKept, EntryKept, GapKept,
                Moment
  <2> QED
    BY <2>1, TickKeeps, NoteBurstKeeps, NoteChangeKeeps, TakeDueKeeps, DiscardKeeps
       DEF ScheduleNext
<1> QED
  BY <1>1, <1>2, PTL DEF ScheduleSpec

(* A window that keeps changing is walked by MaxDelay after its burst      *)
(* began, a node that changed is read by RefreshMax after the first change *)
(* put off, and no node is read twice within MinInterval.                  *)
THEOREM ScheduleServes == ScheduleSpec => []ChangesServed
<1>1. SInv => ChangesServed
  <2> SUFFICES ASSUME SInv PROVE BurstCapped /\ TrailingKept
    BY DEF ChangesServed
  <2>1. BurstCapped
    <3>1. SUFFICES ASSUME NEW w \in Walked, began[w] # Never
                   PROVE  bursts[w].deadline # Never /\ bursts[w].deadline <= began[w] + MaxDelay
      BY DEF BurstCapped
    <3>2. BurstKept(bursts[w], began[w])
      BY DEF SInv, BurstsKept
    <3> QED
      BY <3>1, <3>2, Delays DEF BurstKept
  <2>2. TrailingKept
    <3>1. SUFFICES ASSUME NEW k \in Refreshed
                   PROVE  /\ unread[k] # Never =>
                               /\ entries[k].deadline # Never
                               /\ entries[k].deadline <= unread[k] + RefreshMax
                          /\ lastRead[k].gap >= MinInterval
      BY DEF TrailingKept
    <3>2. EntryKept(entries[k], unread[k], lastRead[k]) /\ GapKept(lastRead[k])
      BY DEF SInv, EntriesKept
    <3> QED
      BY <3>2, Delays DEF EntryKept, GapKept
  <2> QED
    BY <2>1, <2>2
<1> QED
  BY <1>1, ScheduleInvariance, PTL

-----------------------------------------------------------------------------
(* Discovery.  The inductive invariant: what the scan under way has seen   *)
(* so far, what is tracked, and what they say of the desktop when nothing  *)
(* has disturbed the scan yet.                                             *)

FoundFrames == FramesIn(ToSet(scan.found))
\* What the scan has listed, whether it was asked about already or not.
Seen == scan.frames \cup FoundFrames
\* The identity of a frame's program, which is settled once it was listed.
Identity(f) == IF OnAx THEN "own" ELSE appIds[ProgramOf[f]]
Identified(f) ==
    /\ process[ProgramOf[f]] # "coming"
    /\ OnAx \/ appIds[ProgramOf[f]] # "unswept" \/ ProgramOf[f] \in misread
\* What a window is told of its program is that, unless the process id was
\* once not to be learned.
Named(f, app) == ProgramOf[f] \in misread \/ app = Identity(f)

FoundWindow == [frame : Frames, active : BOOLEAN, app : {"none", "own"}]
TrackedWindow == [frame : Frames, app : {"none", "own"}, id : Nat]

DesktopShape ==
    /\ system \in {"atspi", "ax"}
    /\ process \in [Programs -> {"coming", "running", "gone"}]
    /\ onScreen \subseteq open /\ loaded \subseteq open /\ open \subseteq FramesOf(running)
SourceShape ==
    /\ appIds \in [Programs -> {"unswept", "none", "own"}]
    /\ nextWindow \in Nat \ {0}
    /\ tracked \subseteq TrackedWindow /\ \A w \in tracked : w.id \in 1..nextWindow - 1
    /\ undisturbed \in BOOLEAN
ScanShape ==
    /\ scan = [busy |-> scan.busy, programs |-> scan.programs, live |-> scan.live,
               activeProgram |-> scan.activeProgram, app |-> scan.app, frames |-> scan.frames,
               found |-> scan.found, first |-> scan.first]
    /\ scan.busy \in BOOLEAN /\ scan.first \in BOOLEAN /\ scan.app \in {"none", "own"}
    /\ scan.programs \subseteq scan.live /\ scan.live \subseteq Programs /\ scan.frames \subseteq Frames
    /\ scan.found \in Seq(FoundWindow)
    /\ ~scan.busy => scan.programs = {} /\ scan.frames = {} /\ scan.found = <<>>
DShape == DesktopShape /\ SourceShape /\ ScanShape

(* A frame that was listed is of a program that has started and that is    *)
(* not to be asked any more; it was found once at most, and identified.    *)
ScanKept ==
    /\ \A f \in Seen : Identified(f) /\ ProgramOf[f] \notin scan.programs
    /\ \A f \in FoundFrames : f \notin scan.frames
    /\ \A i, j \in DOMAIN scan.found : scan.found[i].frame = scan.found[j].frame => i = j
    /\ \A f \in scan.frames : Named(f, scan.app)
    /\ \A i \in DOMAIN scan.found : Named(scan.found[i].frame, scan.found[i].app)

(* What is tracked had a tree, and has it as long as it exists: a frame    *)
(* that is closed does not open again.                                     *)
TrackedKept ==
    /\ \A w \in tracked : /\ Identified(w.frame) /\ Named(w.frame, w.app)
                          /\ OnAx /\ w.frame \in open => w.frame \in loaded
    /\ \A v, w \in tracked : v # w => v.id # w.id /\ v.frame # w.frame
    /\ focusOn # 0 => \E w \in tracked : w.id = focusOn

(* As long as nothing disturbs it, a scan has found the windows of the     *)
(* programs it has asked, but for the frames still to be looked at.        *)
ScanTrue ==
    scan.busy /\ undisturbed =>
        /\ scan.live = RunningApps
        /\ scan.frames \subseteq FramesOf(scan.live \ scan.programs)
        /\ \A f \in Frames : f \in FoundFrames <=> /\ IsWindow(f) /\ f \notin scan.frames
                                                   /\ ProgramOf[f] \in scan.live \ scan.programs
        /\ OnAx => scan.live \ scan.programs \subseteq watched
(* The first scan is the only one whose observers are not sorted out when  *)
(* it ends.                                                                *)
WatchedKept ==
    scan.first => /\ watched \subseteq scan.live \ scan.programs
                  /\ ~scan.busy => watched = {}

DInv == DShape /\ ScanKept /\ TrackedKept /\ ScanTrue /\ WatchedKept /\ DesktopKnown

DiscoverySpec == DiscoveryInit /\ [][DiscoveryNext]_discoveryVars

-----------------------------------------------------------------------------
(* Numbers.                                                                *)

\* The natural numbers are well ordered.
LEMMA NatLess == IsWellFoundedOn({p \in Nat \X Nat : p[1] < p[2]}, Nat)
BY NatLessThanWellFounded DEF OpToRel

\* A bounded set of numbers that is not empty has a greatest, and Max is it.
LEMMA Greatest ==
    ASSUME NEW S \in SUBSET Nat, S # {}, NEW n \in Nat, \A s \in S : s <= n
    PROVE  Max(S) \in S /\ \A s \in S : s <= Max(S)
<1> DEFINE U == {k \in Nat : \A s \in S : s <= k}
<1>1. n \in U
  OBVIOUS
<1>2. PICK m \in U : \A y \in U : <<y, m>> \notin {p \in Nat \X Nat : p[1] < p[2]}
  <2> HIDE DEF U
  <2> QED
    BY <1>1, NatLess, WFMin DEF U
<1>3. \A y \in U : ~(y < m)
  BY <1>2
<1>4. m \in S
  <2> SUFFICES ASSUME m \notin S PROVE FALSE
    OBVIOUS
  <2>1. m \in Nat /\ \A s \in S : s \in Nat /\ s <= m /\ s # m
    OBVIOUS
  <2>2. \A s \in S : s <= m - 1
    BY <2>1
  <2>3. PICK s \in S : TRUE
    OBVIOUS
  <2>4. m - 1 \in Nat /\ m - 1 < m
    BY <2>1, <2>3
  <2> QED
    BY <1>3, <2>2, <2>4
<1>5. \E x \in S : \A y \in S : x >= y
  BY <1>4
<1>6. Max(S) \in S /\ \A y \in S : Max(S) >= y
  BY <1>5 DEF Max
<1> QED
  BY <1>6

\* How many of a set of numbers come before one of them: fewer than there are,
\* and not as many as before another.
LEMMA Ranks ==
    ASSUME NEW n \in Nat, NEW S \in SUBSET (1..n), NEW i \in S
    PROVE  /\ Cardinality(S) \in Nat
           /\ Cardinality({j \in S : j < i}) \in 0..Cardinality(S) - 1
           /\ \A k \in S : i < k => Cardinality({j \in S : j < i}) < Cardinality({j \in S : j < k})
<1>1. IsFiniteSet(S) /\ Cardinality(S) \in Nat
  <2>1. IsFiniteSet(1..n)
    BY FS_Interval
  <2> QED
    BY <2>1, FS_Subset, FS_CardinalityType
<1>2. ASSUME NEW T \in SUBSET S, NEW V \in SUBSET T, V # T
      PROVE  /\ Cardinality(V) \in Nat /\ Cardinality(T) \in Nat /\ Cardinality(T) <= Cardinality(S)
             /\ Cardinality(V) < Cardinality(T)
  <2>1. IsFiniteSet(T) /\ Cardinality(T) \in Nat /\ Cardinality(T) <= Cardinality(S)
    BY <1>1, FS_Subset, FS_CardinalityType
  <2>2. IsFiniteSet(V) /\ Cardinality(V) \in Nat /\ Cardinality(V) <= Cardinality(T) /\ Cardinality(T) # Cardinality(V)
    BY <1>2, <2>1, FS_Subset, FS_CardinalityType
  <2> QED
    BY <2>1, <2>2
<1> DEFINE before(k) == {j \in S : j < k}
<1>3. before(i) \in SUBSET S /\ before(i) # S
  OBVIOUS
<1>4. ASSUME NEW k \in S, i < k PROVE before(k) \in SUBSET S /\ before(i) \in SUBSET before(k) /\ before(i) # before(k)
  <2>1. \A j \in S : j \in Nat
    OBVIOUS
  <2>2. \A j \in S : j < i => j < k
    BY <1>4, <2>1
  <2>3. i \in before(k) /\ i \notin before(i)
    BY <1>4, <2>1
  <2> QED
    BY <2>2, <2>3
<1> HIDE DEF before
<1>5. Cardinality(before(i)) \in Nat /\ Cardinality(before(i)) < Cardinality(S)
  BY <1>2, <1>3
<1>6. \A k \in S : i < k => Cardinality(before(i)) < Cardinality(before(k))
  BY <1>2, <1>4
<1> QED
  BY <1>1, <1>5, <1>6 DEF before

\* The ids given out at the end of a scan are new, and one to a window.
LEMMA NewIds ==
    ASSUME ScanShape, nextWindow \in Nat \ {0}
    PROVE  /\ Cardinality(ToWalk) \in Nat
           /\ \A i \in ToWalk : IdFor(i) \in nextWindow..nextWindow + Cardinality(ToWalk) - 1
           /\ \A i, k \in ToWalk : IdFor(i) = IdFor(k) => i = k
           /\ ToWalk # {} => \E i \in ToWalk : IdFor(i) = nextWindow
<1> DEFINE n == Len(scan.found)
           rank(i) == Cardinality({j \in ToWalk : j < i})
<1>1. n \in Nat /\ ToWalk \in SUBSET (1..n)
  BY DEF ScanShape, ToWalk
<1>2. Cardinality(ToWalk) \in Nat
  <2> HIDE DEF n
  <2>1. IsFiniteSet(1..n)
    BY <1>1, FS_Interval
  <2> QED
    BY <1>1, <2>1, FS_Subset, FS_CardinalityType
<1>3. ASSUME NEW i \in ToWalk
      PROVE  /\ rank(i) \in 0..Cardinality(ToWalk) - 1
             /\ \A k \in ToWalk : i < k => rank(i) < rank(k)
  <2> HIDE DEF n
  <2> QED
    BY <1>1, Ranks
<1>4. \A i : IdFor(i) = nextWindow + rank(i)
  BY DEF IdFor
<1> HIDE DEF rank
<1>5. \A i \in ToWalk : IdFor(i) \in nextWindow..nextWindow + Cardinality(ToWalk) - 1
  BY <1>2, <1>3, <1>4
<1>6. ASSUME NEW i \in ToWalk, NEW k \in ToWalk, IdFor(i) = IdFor(k) PROVE i = k
  <2>1. rank(i) = rank(k)
    BY <1>3, <1>4, <1>6
  <2>2. i \in Nat /\ k \in Nat
    BY <1>1
  <2> QED
    BY <1>3, <2>1, <2>2
<1>7. ASSUME ToWalk # {} PROVE \E i \in ToWalk : IdFor(i) = nextWindow
  <2>1. PICK i \in ToWalk : \A k \in ToWalk : <<k, i>> \notin {p \in Nat \X Nat : p[1] < p[2]}
    <3>1. ToWalk \subseteq Nat
      BY <1>1
    <3> QED
      BY <1>7, <3>1, NatLess, WFMin
  <2>2. {j \in ToWalk : j < i} = {}
    <3>1. \A j \in ToWalk : j \in Nat
      BY <1>1
    <3>2. \A j \in ToWalk : ~(j < i)
      BY <2>1, <3>1
    <3> QED
      BY <3>2
  <2>3. rank(i) = 0
    BY <2>2, FS_EmptySet DEF rank
  <2> QED
    BY <1>4, <2>3
<1> QED
  BY <1>2, <1>5, <1>6, <1>7

\* What was found is windows.
LEMMA FoundFacts ==
    ASSUME ScanShape
    PROVE  /\ Len(scan.found) \in Nat /\ DOMAIN scan.found = 1..Len(scan.found)
           /\ \A i \in DOMAIN scan.found :
                 /\ scan.found[i] \in FoundWindow /\ scan.found[i].frame \in Frames
                 /\ scan.found[i].active \in BOOLEAN /\ scan.found[i].app \in {"none", "own"}
<1>1. scan.found \in Seq(FoundWindow)
  BY DEF ScanShape
<1>2. /\ Len(scan.found) \in Nat /\ DOMAIN scan.found = 1..Len(scan.found)
      /\ \A i \in DOMAIN scan.found : scan.found[i] \in FoundWindow
  BY <1>1
<1> QED
  BY <1>2 DEF FoundWindow

-----------------------------------------------------------------------------
(* Preservation.                                                           *)

\* No change of the desktop spoils what the source knows, as long as programs
\* start once and a frame that is closed stays closed; and none comes back
\* without the tree it had.
LEMMA Upheavals ==
    ASSUME DInv, Upheaval, DesktopShape',
           \A p \in Programs : process[p] # "coming" => process'[p] # "coming",
           \A f \in open' : process[ProgramOf[f]] # "coming" => f \in open /\ (f \in loaded => f \in loaded')
    PROVE  DInv'
<1> USE DiscoveryAssumption
<1>1. /\ UNCHANGED <<system, appIds, prompted, watched, tracked, focusOn, nextWindow, misread, scan>>
      /\ undisturbed' = FALSE
  BY DEF Upheaval, sourceVars
<1>2. DShape'
  BY <1>1 DEF DInv, DShape, SourceShape, ScanShape
<1>3. \A f \in Frames : Identified(f) => Identified(f)'
  BY <1>1 DEF Identified, OnAx
<1>4. FoundFrames' = FoundFrames /\ Seen' = Seen /\ (\A f, a : Named(f, a)' = Named(f, a))
  BY <1>1 DEF FoundFrames, Seen, FramesIn, Named, Identity, OnAx
<1>5. Seen \subseteq Frames
  <2>1. \A i \in DOMAIN scan.found : scan.found[i].frame \in Frames
    BY FoundFacts DEF DInv, DShape
  <2> QED
    BY <2>1 DEF DInv, DShape, ScanShape, Seen, FoundFrames, FramesIn, ToSet
<1>6. ScanKept'
  <2>1. \A f \in Seen : Identified(f)' /\ ProgramOf[f] \notin scan.programs
    BY <1>3, <1>5 DEF DInv, ScanKept
  <2> QED
    BY <2>1, <1>1, <1>4 DEF DInv, ScanKept
<1>7. TrackedKept'
  <2>1. \A w \in tracked : w.frame \in Frames
    BY DEF DInv, DShape, SourceShape, TrackedWindow
  <2>2. \A w \in tracked : Identified(w.frame)'
    BY <2>1, <1>3 DEF DInv, TrackedKept
  <2>3. ASSUME NEW w \in tracked, OnAx, w.frame \in open' PROVE w.frame \in loaded'
    BY <2>3, <2>1 DEF DInv, TrackedKept, Identified
  <2>4. OnAx' = OnAx
    BY <1>1 DEF OnAx
  <2> QED
    BY <2>2, <2>3, <2>4, <1>1, <1>4 DEF DInv, TrackedKept
<1>8. ScanTrue' /\ WatchedKept' /\ DesktopKnown'
  BY <1>1 DEF ScanTrue, WatchedKept, DesktopKnown, DInv
<1> QED
  BY <1>2, <1>6, <1>7, <1>8 DEF DInv

\* A program that starts shows frames that were never listed.
LEMMA StartsPreserves == ASSUME DInv, NEW p \in Programs, Starts(p) PROVE DInv'
<1> USE DiscoveryAssumption
<1>1. /\ Upheaval /\ process[p] = "coming" /\ process' = [process EXCEPT ![p] = "running"]
      /\ open' = open \cup FramesOf({p}) /\ onScreen' = onScreen \cup FramesOf({p})
      /\ UNCHANGED <<loaded, system>>
  BY DEF Starts, Upheaval
<1>2. DesktopShape /\ DOMAIN process = Programs
  BY DEF DInv, DShape, DesktopShape
<1>3. running' = running \cup {p}
  BY <1>1, <1>2 DEF DesktopShape, running
<1>4. DesktopShape'
  BY <1>1, <1>2, <1>3 DEF DesktopShape, FramesOf
<1>5. \A f \in open' : process[ProgramOf[f]] # "coming" => f \in open /\ (f \in loaded => f \in loaded')
  BY <1>1 DEF FramesOf
<1>6. \A q \in Programs : process[q] # "coming" => process'[q] # "coming"
  BY <1>1, <1>2
<1> QED
  BY <1>1, <1>4, <1>5, <1>6, Upheavals

\* A program that quits takes its frames with it.
LEMMA QuitsPreserves == ASSUME DInv, NEW p \in Programs, Quits(p) PROVE DInv'
<1> USE DiscoveryAssumption
<1>1. /\ Upheaval /\ process' = [process EXCEPT ![p] = "gone"]
      /\ open' = open \ FramesOf({p}) /\ onScreen' = onScreen \ FramesOf({p})
      /\ loaded' = loaded \ FramesOf({p}) /\ UNCHANGED system
  BY DEF Quits, Gone, Upheaval
<1>2. DesktopShape /\ DOMAIN process = Programs
  BY DEF DInv, DShape, DesktopShape
<1>3. running' = running \ {p}
  BY <1>1, <1>2 DEF DesktopShape, running
<1>4. DesktopShape'
  BY <1>1, <1>2, <1>3 DEF DesktopShape, FramesOf
<1>5. \A f \in open' : process[ProgramOf[f]] # "coming" => f \in open /\ (f \in loaded => f \in loaded')
  BY <1>1
<1>6. \A q \in Programs : process[q] # "coming" => process'[q] # "coming"
  BY <1>1, <1>2
<1> QED
  BY <1>1, <1>4, <1>5, <1>6, Upheavals

\* A frame that closes is gone from wherever it was.
LEMMA ClosesPreserves == ASSUME DInv, NEW f \in Frames, Closes(f) PROVE DInv'
<1>1. /\ Upheaval /\ open' = open \ {f} /\ onScreen' = onScreen \ {f} /\ loaded' = loaded \ {f}
      /\ UNCHANGED <<process, system>>
  BY DEF Closes, Gone, Upheaval
<1>2. DesktopShape' /\ running' = running
  BY <1>1 DEF DInv, DShape, DesktopShape, running
<1> QED
  BY <1>1, <1>2, Upheavals

\* Neither does it matter what shows, and a tree that has loaded stays.
LEMMA FrontPreserves ==
    ASSUME DInv, Upheaval, onScreen' \subseteq open, loaded \subseteq loaded', loaded' \subseteq open,
           UNCHANGED <<process, open>>
    PROVE  DInv'
<1>1. DesktopShape' /\ running' = running
  BY DEF DInv, DShape, DesktopShape, Upheaval, running
<1> QED
  BY <1>1, Upheavals

\* The other changes are of that kind.
LEMMA DesktopPreserves ==
    ASSUME DInv,
           \/ \E p \in Programs : OwnsName(p)
           \/ \E f \in Frames : Minimises(f) \/ Restores(f) \/ Loads(f)
    PROVE  DInv'
<1>1. Upheaval /\ UNCHANGED <<process, open>>
  BY DEF OwnsName, Minimises, Restores, Loads
<1>2. onScreen \subseteq open /\ loaded \subseteq open
  BY DEF DInv, DShape, DesktopShape
<1>3. onScreen' \subseteq open /\ loaded \subseteq loaded' /\ loaded' \subseteq open
  BY <1>2 DEF OwnsName, Minimises, Restores, Loads
<1> QED
  BY <1>1, <1>3, FrontPreserves

\* At first nothing is tracked and nothing found.
LEMMA DiscoveryEstablished == DiscoveryInit => DInv
<1> SUFFICES ASSUME DiscoveryInit PROVE DInv
  OBVIOUS
<1>1. DesktopShape
  <2>1. loaded \subseteq open
    BY DEF DiscoveryInit
  <2> QED
    BY <2>1 DEF DesktopShape, DiscoveryInit
<1>2. /\ scan = [busy |-> FALSE, programs |-> {}, live |-> {}, activeProgram |-> {},
                 app |-> "none", frames |-> {}, found |-> <<>>, first |-> TRUE]
      /\ tracked = {} /\ watched = {} /\ focusOn = 0 /\ nextWindow = 1 /\ undisturbed = FALSE
      /\ appIds = [p \in Programs |-> "unswept"]
  BY DEF Resting, DiscoveryInit
<1>3. SourceShape
  <2>1. appIds \in [Programs -> {"unswept", "none", "own"}]
    BY <1>2
  <2>2. nextWindow \in Nat \ {0} /\ tracked \subseteq TrackedWindow /\ \A w \in tracked : w.id \in 1..nextWindow - 1
    BY <1>2
  <2> QED
    BY <1>2, <2>1, <2>2 DEF SourceShape
<1>4. ScanShape
  <2>1. scan.found = <<>> /\ <<>> \in Seq(FoundWindow)
    BY <1>2
  <2> QED
    BY <1>2, <2>1 DEF ScanShape
<1>5. FoundFrames = {} /\ Seen = {}
  BY <1>2 DEF FoundFrames, Seen, FramesIn, ToSet
<1>6. ScanKept /\ TrackedKept /\ ScanTrue /\ WatchedKept /\ DesktopKnown
  BY <1>2, <1>5 DEF ScanKept, TrackedKept, ScanTrue, WatchedKept, DesktopKnown
<1> QED
  BY <1>1, <1>3, <1>4, <1>6 DEF DInv, DShape

-----------------------------------------------------------------------------
(* A scan.                                                                 *)

\* What shows is of programs that run.
LEMMA AppsRun == ASSUME DesktopShape PROVE RunningApps \subseteq running /\ running \subseteq Programs
<1>1. \A f \in onScreen : ProgramOf[f] \in running
  BY DEF DesktopShape, FramesOf
<1> QED
  BY <1>1 DEF RunningApps, running

\* What a frame was told of its program holds on.
LEMMA NamesLast ==
    ASSUME NEW f \in Frames, Identified(f), UNCHANGED <<system, process>>, misread \subseteq misread',
           \A p \in Programs : appIds[p] # "unswept" => appIds'[p] = appIds[p]
    PROVE  Identified(f)' /\ \A a : Named(f, a) => Named(f, a)'
<1>1. ProgramOf[f] \in Programs /\ OnAx' = OnAx
  BY DiscoveryAssumption DEF OnAx
<1>2. CASE ProgramOf[f] \in misread
  BY <1>1, <1>2 DEF Identified, Named
<1>3. CASE ProgramOf[f] \notin misread
  <2>1. Identified(f)' /\ Identity(f)' = Identity(f)
    BY <1>1, <1>3 DEF Identified, Identity
  <2>2. \A a : Named(f, a) => a = Identity(f)
    BY <1>3 DEF Named
  <2> QED
    BY <2>1, <2>2 DEF Named
<1> QED
  BY <1>2, <1>3

\* A scan that goes on leaves the desktop and what is tracked alone.
LEMMA TrackedGoesOn ==
    ASSUME TrackedKept, SourceShape, UNCHANGED <<system, process, open, loaded, tracked, focusOn>>,
           misread \subseteq misread',
           \A p \in Programs : appIds[p] # "unswept" => appIds'[p] = appIds[p]
    PROVE  TrackedKept'
<1>1. ASSUME NEW w \in tracked
      PROVE  /\ Identified(w.frame)' /\ Named(w.frame, w.app)'
             /\ OnAx' /\ w.frame \in open' => w.frame \in loaded'
  <2>1. w.frame \in Frames
    BY DEF SourceShape, TrackedWindow
  <2>2. Identified(w.frame) /\ Named(w.frame, w.app) /\ (OnAx /\ w.frame \in open => w.frame \in loaded)
    BY DEF TrackedKept
  <2>3. Identified(w.frame)' /\ Named(w.frame, w.app)'
    BY <2>1, <2>2, NamesLast
  <2> QED
    BY <2>2, <2>3 DEF OnAx
<1> QED
  BY <1>1 DEF TrackedKept

\* A scan that begins has found nothing.
LEMMA BeginScanPreserves == ASSUME DInv, NEW missed, BeginScan(missed) PROVE DInv'
<1> DEFINE apps == RunningApps \ missed
<1>1. /\ ~scan.busy /\ undisturbed' = (missed = {})
      /\ UNCHANGED <<programVars, sourceVars>>
      /\ scan' = [scan EXCEPT !.busy = TRUE, !.programs = apps, !.live = apps,
                     !.activeProgram = {ProgramOf[f] : f \in onScreen \cap {front}}]
  BY DEF BeginScan
<1>2. UNCHANGED <<system, process, open, onScreen, loaded, appIds, watched, tracked, focusOn, nextWindow, misread>>
  BY <1>1 DEF programVars, sourceVars
<1>3. /\ DesktopShape /\ SourceShape /\ ScanShape /\ ScanKept /\ TrackedKept /\ WatchedKept
      /\ scan.programs = {} /\ scan.frames = {} /\ scan.found = <<>>
  BY <1>1 DEF DInv, DShape, ScanShape
<1> HIDE DEF apps
<1>4. /\ scan' = [busy |-> TRUE, programs |-> apps, live |-> apps, activeProgram |-> scan'.activeProgram,
                  app |-> scan.app, frames |-> {}, found |-> <<>>, first |-> scan.first]
      /\ scan.first \in BOOLEAN /\ scan.app \in {"none", "own"}
  BY <1>1, <1>3 DEF ScanShape
<1>5. apps \subseteq RunningApps /\ apps \subseteq Programs /\ (missed = {} => apps = RunningApps)
  BY <1>3, AppsRun DEF apps
<1>6. DesktopShape'
  BY <1>2, <1>3 DEF DesktopShape, running
<1>7. SourceShape'
  BY <1>1, <1>2, <1>3 DEF SourceShape
<1>8. ScanShape'
  <2>1. <<>> \in Seq(FoundWindow)
    OBVIOUS
  <2>2. /\ scan'.busy = TRUE /\ scan'.first = scan.first /\ scan'.found = <<>> /\ scan'.app = scan.app
        /\ scan'.programs = apps /\ scan'.live = apps /\ scan'.frames = {}
    BY <1>4
  <2>3. scan' = [busy |-> scan'.busy, programs |-> scan'.programs, live |-> scan'.live,
                 activeProgram |-> scan'.activeProgram, app |-> scan'.app, frames |-> scan'.frames,
                 found |-> scan'.found, first |-> scan'.first]
    BY <1>4, <2>2
  <2> QED
    BY <1>4, <1>5, <2>1, <2>2, <2>3 DEF ScanShape
<1>9. FoundFrames' = {} /\ Seen' = {} /\ DOMAIN scan'.found = {} /\ scan'.frames = {}
  BY <1>4 DEF FoundFrames, Seen, FramesIn, ToSet
<1>10. ScanKept'
  BY <1>9 DEF ScanKept
<1>11. TrackedKept'
  BY <1>2, <1>3, TrackedGoesOn
<1>12. ScanTrue'
  <2>1. RunningApps' = RunningApps
    BY <1>2 DEF RunningApps, OnAx, running
  <2>2. scan'.live = apps /\ scan'.programs = apps /\ scan'.frames = {}
    BY <1>4
  <2>3. undisturbed' => apps = RunningApps
    BY <1>1, <1>5
  <2>4. scan'.live \ scan'.programs = {}
    BY <2>2
  <2> QED
    BY <1>9, <2>1, <2>2, <2>3, <2>4 DEF ScanTrue
<1>13. WatchedKept'
  BY <1>1, <1>2, <1>3, <1>4 DEF WatchedKept
<1>14. DesktopKnown'
  BY <1>4 DEF DesktopKnown
<1> QED
  BY <1>6, <1>7, <1>8, <1>10, <1>11, <1>12, <1>13, <1>14 DEF DInv, DShape

\* A scan that is refused leaves everything as it was.
LEMMA ScanRefusedPreserves == ASSUME DInv, ScanRefused PROVE DInv'
<1>1. UNCHANGED <<programVars, sourceVars, scan>> /\ undisturbed' = FALSE
  BY DEF ScanRefused
<1>2. UNCHANGED <<system, process, open, onScreen, loaded, appIds, watched, tracked, focusOn, nextWindow, misread>>
  BY <1>1 DEF programVars, sourceVars
<1>3. DShape'
  BY <1>1, <1>2 DEF DInv, DShape, DesktopShape, running, SourceShape, ScanShape
<1>4. ScanKept'
  BY <1>1, <1>2 DEF DInv, ScanKept, Seen, FoundFrames, FramesIn, Identified, Named, Identity, OnAx
<1>5. TrackedKept'
  BY <1>2, TrackedGoesOn DEF DInv, DShape
<1>6. ScanTrue' /\ WatchedKept' /\ DesktopKnown'
  BY <1>1, <1>2 DEF DInv, ScanTrue, WatchedKept, DesktopKnown
<1> QED
  BY <1>3, <1>4, <1>5, <1>6 DEF DInv

\* A program that was identified keeps its identity.
LEMMA ResolvedKeeps ==
    ASSUME NEW p \in Programs, NEW fails, appIds \in [Programs -> {"unswept", "none", "own"}],
           fails = "session" => \A q \in Programs : appIds[q] = "unswept"
    PROVE  /\ Resolved(p, fails) \in [Programs -> {"unswept", "none", "own"}]
           /\ fails # "pid" => Resolved(p, fails)[p] # "unswept"
           /\ \A q \in Programs : appIds[q] # "unswept" => Resolved(p, fails)[q] = appIds[q]
<1>1. CASE appIds[p] # "unswept" \/ fails = "pid"
  BY <1>1 DEF Resolved
<1>2. CASE appIds[p] = "unswept" /\ fails = "session"
  BY <1>2 DEF Resolved
<1>3. CASE appIds[p] = "unswept" /\ fails \notin {"session", "pid"}
  <2> DEFINE own == IF p \in owning /\ fails # "sweep" THEN "own" ELSE "none"
  <2>1. Resolved(p, fails) = [appIds EXCEPT ![p] = own] /\ own \in {"none", "own"}
    BY <1>3 DEF Resolved
  <2> HIDE DEF own
  <2> QED
    BY <1>3, <2>1
<1> QED
  BY <1>1, <1>2, <1>3

\* A program that lists its frames is identified and, if it could be, observed.
LEMMA ScanProgramPreserves ==
    ASSUME DInv, NEW p \in Programs, NEW fails \in Failures \cup {"nothing"}, ScanProgram(p, fails)
    PROVE  DInv'
<1> DEFINE listed == IF fails = "frames" THEN {} ELSE open \cap FramesOf({p})
           app == AppIdOf(p, fails)
<1>1. /\ p \in scan.programs /\ scan.frames = {} /\ undisturbed' = (undisturbed /\ fails = "nothing")
      /\ scan' = [scan EXCEPT !.programs = @ \ {p}, !.app = app, !.frames = listed]
      /\ misread' = (IF fails = "pid" THEN misread \cup {p} ELSE misread)
      /\ UNCHANGED <<system, process, open, onScreen, loaded, tracked, focusOn, nextWindow>>
      /\ appIds' = (IF OnAx THEN appIds ELSE Resolved(p, fails)) /\ watched' = Observe(p, fails)
  BY DEF ScanProgram, programVars
<1>2. DesktopShape /\ SourceShape /\ ScanShape /\ ScanKept /\ TrackedKept /\ ScanTrue /\ WatchedKept
  BY DEF DInv, DShape
<1>3. listed \subseteq open /\ (\A f \in listed : ProgramOf[f] = p) /\ open \subseteq Frames
  BY <1>2 DEF DesktopShape, FramesOf
<1>4. fails # "frames" => \A f \in open : ProgramOf[f] = p => f \in listed
  BY <1>3 DEF FramesOf
<1> HIDE DEF listed, app
<1>5. /\ scan' = [busy |-> scan.busy, programs |-> scan.programs \ {p}, live |-> scan.live,
                  activeProgram |-> scan.activeProgram, app |-> app, frames |-> listed, found |-> scan.found,
                  first |-> scan.first]
      /\ scan.busy = TRUE
  BY <1>1, <1>2 DEF ScanShape
<1>6. /\ scan'.busy = TRUE /\ scan'.programs = scan.programs \ {p} /\ scan'.live = scan.live
      /\ scan'.frames = listed /\ scan'.found = scan.found /\ scan'.first = scan.first /\ scan'.app = app
      /\ scan' = [busy |-> scan'.busy, programs |-> scan'.programs, live |-> scan'.live,
                  activeProgram |-> scan'.activeProgram, app |-> scan'.app, frames |-> scan'.frames,
                  found |-> scan'.found, first |-> scan'.first]
  BY <1>5
<1>7. /\ appIds' \in [Programs -> {"unswept", "none", "own"}]
      /\ ~OnAx => p \in misread' \/ appIds'[p] # "unswept"
      /\ OnAx => app = "own"
      /\ ~OnAx => p \in misread' \/ app = appIds'[p]
      /\ app \in {"none", "own"} /\ misread \subseteq misread'
      /\ \A q \in Programs : appIds[q] # "unswept" => appIds'[q] = appIds[q]
  <2>1. fails = "session" => \A q \in Programs : appIds[q] = "unswept"
    BY DEF Failures
  <2>2. /\ Resolved(p, fails) \in [Programs -> {"unswept", "none", "own"}]
        /\ fails # "pid" => Resolved(p, fails)[p] # "unswept"
        /\ \A q \in Programs : appIds[q] # "unswept" => Resolved(p, fails)[q] = appIds[q]
    BY <1>2, <2>1, ResolvedKeeps DEF SourceShape
  <2>3. app = IF OnAx THEN "own" ELSE IF fails = "pid" THEN "none" ELSE Resolved(p, fails)[p]
    BY DEF app, AppIdOf
  <2>4. CASE OnAx
    BY <1>1, <1>2, <2>3, <2>4 DEF SourceShape
  <2>5. CASE ~OnAx /\ fails = "pid"
    BY <1>1, <2>2, <2>3, <2>5
  <2>6. CASE ~OnAx /\ fails # "pid"
    BY <1>1, <2>2, <2>3, <2>6
  <2> QED
    BY <2>4, <2>5, <2>6
<1>8. DesktopShape'
  BY <1>1, <1>2 DEF DesktopShape, running
<1>9. SourceShape'
  BY <1>1, <1>2, <1>7 DEF SourceShape
<1>10. ScanShape'
  BY <1>2, <1>3, <1>6, <1>7 DEF ScanShape
<1>11. FoundFrames' = FoundFrames /\ FoundFrames \subseteq Frames
  <2>1. \A i \in DOMAIN scan.found : scan.found[i].frame \in Frames
    BY <1>2, FoundFacts
  <2> QED
    BY <1>6, <2>1 DEF FoundFrames, FramesIn, ToSet
<1>12. ASSUME NEW f \in Frames, Identified(f) PROVE Identified(f)' /\ \A a : Named(f, a) => Named(f, a)'
  BY <1>1, <1>12, <1>7, NamesLast
<1>13. ScanKept'
  <2>1. ASSUME NEW f \in listed PROVE Identified(f)' /\ \A a : a = app => Named(f, a)'
    <3>1. ProgramOf[f] = p /\ process'[p] # "coming" /\ OnAx' = OnAx
      BY <1>1, <1>2, <1>3 DEF OnAx, DesktopShape, FramesOf, running
    <3>2. Identity(f)' = IF OnAx THEN "own" ELSE appIds'[p]
      BY <3>1 DEF Identity
    <3> QED
      BY <1>1, <1>7, <3>1, <3>2 DEF Identified, Named
  <2>2. \A f \in listed : f \notin FoundFrames /\ ProgramOf[f] \notin scan.programs \ {p}
    BY <1>1, <1>2, <1>3 DEF ScanKept, Seen
  <2>3. ASSUME NEW f \in FoundFrames
        PROVE  /\ Identified(f)' /\ ProgramOf[f] \notin scan.programs \ {p}
               /\ \A a : Named(f, a) => Named(f, a)'
    <3>1. f \in Frames /\ Identified(f) /\ ProgramOf[f] \notin scan.programs
      BY <1>2, <1>11 DEF ScanKept, Seen
    <3> QED
      BY <1>12, <3>1
  <2>4. ASSUME NEW i \in DOMAIN scan.found' PROVE Named(scan.found[i].frame, scan.found[i].app)'
    <3>1. PICK f \in FoundFrames : f = scan.found[i].frame /\ Named(f, scan.found[i].app)
      BY <1>2, <1>6 DEF FoundFrames, FramesIn, ToSet, ScanKept
    <3>2. Named(f, scan.found[i].app) => \/ ProgramOf[f] \in misread'
                                        \/ scan.found[i].app = Identity(f)'
      BY <2>3 DEF Named
    <3>3. scan'.found[i].frame = f /\ scan'.found[i].app = scan.found[i].app
      BY <1>6, <3>1
    <3> QED
      BY <3>1, <3>2, <3>3 DEF Named, Identity
  <2>5. \A f \in scan'.frames : Named(f, scan.app)'
    <3>1. \A f \in listed : ProgramOf[f] \in misread' \/ app = Identity(f)'
      BY <2>1 DEF Named
    <3> QED
      BY <1>6, <3>1 DEF Named
  <2> QED
    BY <1>2, <1>6, <1>11, <2>1, <2>2, <2>3, <2>4, <2>5 DEF ScanKept, Seen
<1>14. TrackedKept'
  BY <1>1, <1>2, <1>7, TrackedGoesOn
<1>15. ScanTrue'
  <2> SUFFICES ASSUME undisturbed' PROVE ScanTrue'
    BY DEF ScanTrue
  <2>1. /\ undisturbed /\ fails = "nothing"
        /\ scan.live = RunningApps /\ p \in scan.live
        /\ \A f \in Frames : f \in FoundFrames <=> /\ IsWindow(f) /\ f \notin scan.frames
                                                     /\ ProgramOf[f] \in scan.live \ scan.programs
        /\ OnAx => scan.live \ scan.programs \subseteq watched
    BY <1>1, <1>2, <1>5 DEF ScanTrue, ScanShape
  <2>2. RunningApps' = RunningApps /\ \A f : IsWindow(f)' = IsWindow(f)
    BY <1>1 DEF RunningApps, OnAx, running, IsWindow
  <2>3. listed \subseteq FramesOf(scan.live \ (scan.programs \ {p}))
    BY <1>3, <2>1 DEF FramesOf
  <2>4. ASSUME NEW f \in Frames
        PROVE  f \in FoundFrames <=> /\ IsWindow(f) /\ f \notin listed
                                      /\ ProgramOf[f] \in scan.live \ (scan.programs \ {p})
    <3>1. CASE ProgramOf[f] = p
      <4>1. f \notin FoundFrames
        BY <1>1, <2>1, <3>1
      <4>2. IsWindow(f) => f \in listed
        BY <1>4, <2>1, <3>1 DEF IsWindow
      <4> QED
        BY <4>1, <4>2
    <3>2. CASE ProgramOf[f] # p
      BY <1>1, <1>3, <2>1, <3>2
    <3> QED
      BY <3>1, <3>2
  <2>5. OnAx => scan.live \ (scan.programs \ {p}) \subseteq watched'
    <3>1. p \in running
      BY <1>2, <2>1, AppsRun
    <3> QED
      BY <1>1, <2>1, <3>1 DEF Observe
  <2> QED
    BY <1>1, <1>6, <1>11, <2>1, <2>2, <2>3, <2>4, <2>5 DEF ScanTrue, OnAx
<1>16. WatchedKept'
  <2>1. watched' \subseteq watched \cup {p}
    BY <1>1 DEF Observe
  <2> QED
    BY <1>1, <1>2, <1>6, <2>1 DEF WatchedKept, ScanShape
<1>17. DesktopKnown'
  BY <1>6 DEF DesktopKnown
<1> QED
  BY <1>8, <1>9, <1>10, <1>13, <1>14, <1>15, <1>16, <1>17 DEF DInv, DShape

\* A frame that was looked at is found if it is a window.
LEMMA ScanFramePreserves ==
    ASSUME DInv, NEW f \in Frames, NEW fails \in BOOLEAN, ScanFrame(f, fails)
    PROVE  DInv'
<1> DEFINE adds == ~fails /\ IsWindow(f)
           new == [frame |-> f, active |-> IsActive(f), app |-> scan.app]
           found == IF adds THEN Append(scan.found, new) ELSE scan.found
<1>1. /\ f \in scan.frames /\ undisturbed' = (undisturbed /\ ~fails)
      /\ scan' = [scan EXCEPT !.frames = @ \ {f}, !.found = found]
      /\ UNCHANGED <<programVars, sourceVars>>
  BY DEF ScanFrame
<1>2. UNCHANGED <<system, process, open, onScreen, loaded, appIds, watched, tracked, focusOn, nextWindow, misread>>
  BY <1>1 DEF programVars, sourceVars
<1>3. /\ DesktopShape /\ SourceShape /\ ScanShape /\ ScanKept /\ TrackedKept /\ ScanTrue /\ WatchedKept
      /\ scan.found \in Seq(FoundWindow)
  BY DEF DInv, DShape, ScanShape
<1>4. new \in FoundWindow /\ new.frame = f /\ Named(f, new.app)
  <2>1. scan.app \in {"none", "own"} /\ Named(f, scan.app)
    BY <1>1, <1>3 DEF ScanShape, ScanKept
  <2>2. IsActive(f) \in BOOLEAN
    BY DEF IsActive
  <2> QED
    BY <2>1, <2>2 DEF FoundWindow
<1> HIDE DEF new
<1>5. /\ Len(scan.found) \in Nat /\ DOMAIN scan.found = 1..Len(scan.found)
      /\ \A i \in DOMAIN scan.found : scan.found[i].frame \in Frames
  BY <1>3, FoundFacts
<1>6. /\ found \in Seq(FoundWindow)
      /\ \A i \in DOMAIN scan.found : i \in DOMAIN found /\ found[i] = scan.found[i]
      /\ \A i \in DOMAIN found :
            \/ i \in DOMAIN scan.found /\ found[i] = scan.found[i]
            \/ adds /\ i = Len(scan.found) + 1 /\ found[i] = new
      /\ adds => Len(scan.found) + 1 \in DOMAIN found /\ found[Len(scan.found) + 1] = new
  <2>1. CASE adds
    <3> HIDE DEF adds
    <3>1. Append(scan.found, new) \in Seq(FoundWindow) /\ DOMAIN Append(scan.found, new) = 1..Len(scan.found) + 1
      BY <1>3, <1>4
    <3>2. \A i \in 1..Len(scan.found) + 1 :
             Append(scan.found, new)[i] = IF i = Len(scan.found) + 1 THEN new ELSE scan.found[i]
      BY <1>3, <1>4
    <3> QED
      BY <1>5, <2>1, <3>1, <3>2
  <2>2. CASE ~adds
    BY <1>3, <2>2
  <2> QED
    BY <2>1, <2>2
<1> HIDE DEF found
<1>7. scan' = [busy |-> scan.busy, programs |-> scan.programs, live |-> scan.live,
               activeProgram |-> scan.activeProgram, app |-> scan.app, frames |-> scan.frames \ {f},
               found |-> found, first |-> scan.first]
  BY <1>1, <1>3 DEF ScanShape
<1>8. /\ scan'.busy = scan.busy /\ scan'.programs = scan.programs /\ scan'.live = scan.live
      /\ scan'.frames = scan.frames \ {f} /\ scan'.found = found /\ scan'.first = scan.first
      /\ scan'.app = scan.app
      /\ scan' = [busy |-> scan'.busy, programs |-> scan'.programs, live |-> scan'.live,
                  activeProgram |-> scan'.activeProgram, app |-> scan'.app, frames |-> scan'.frames,
                  found |-> scan'.found, first |-> scan'.first]
  BY <1>7
<1>9. scan.busy = TRUE
  BY <1>1, <1>3 DEF ScanShape
<1>10. DesktopShape'
  BY <1>2, <1>3 DEF DesktopShape, running
<1>11. SourceShape'
  BY <1>1, <1>2, <1>3 DEF SourceShape
<1>12. ScanShape'
  BY <1>3, <1>6, <1>8, <1>9 DEF ScanShape
<1>13. FoundFrames' = FoundFrames \cup (IF adds THEN {f} ELSE {})
  <2>1. FoundFrames' = {found[i].frame : i \in DOMAIN found}
    BY <1>8 DEF FoundFrames, FramesIn, ToSet
  <2>2. FoundFrames = {scan.found[i].frame : i \in DOMAIN scan.found}
    BY DEF FoundFrames, FramesIn, ToSet
  <2> HIDE DEF adds
  <2> QED
    BY <1>4, <1>6, <2>1, <2>2
<1>14. FoundFrames \subseteq Frames /\ Seen' \subseteq Seen
  <2>1. FoundFrames \subseteq Frames
    BY <1>5 DEF FoundFrames, FramesIn, ToSet
  <2>2. Seen' = scan'.frames \cup FoundFrames'
    BY DEF Seen
  <2> QED
    BY <1>1, <1>8, <1>13, <2>1, <2>2 DEF Seen
<1>15. \A g : Identified(g)' = Identified(g) /\ \A a : Named(g, a)' = Named(g, a)
  BY <1>2 DEF Identified, Named, Identity, OnAx
<1>16. ScanKept'
  <2>1. \A g \in Seen' : Identified(g)' /\ ProgramOf[g] \notin scan'.programs
    BY <1>3, <1>8, <1>14, <1>15 DEF ScanKept
  <2>2. \A g \in FoundFrames' : g \notin scan'.frames
    BY <1>3, <1>8, <1>13 DEF ScanKept
  <2>3. \A i \in DOMAIN scan.found : scan.found[i].frame # f
    <3>1. f \notin FoundFrames
      BY <1>1, <1>3 DEF ScanKept
    <3> QED
      BY <3>1 DEF FoundFrames, FramesIn, ToSet
  <2>4. \A i, j \in DOMAIN found : found[i].frame = found[j].frame => i = j
    <3> HIDE DEF adds
    <3> QED
      BY <1>3, <1>4, <1>6, <2>3 DEF ScanKept
  <2>5. \A i \in DOMAIN found : Named(found[i].frame, found[i].app)
    <3> HIDE DEF adds
    <3> QED
      BY <1>3, <1>4, <1>6 DEF ScanKept
  <2>6. ASSUME NEW i \in DOMAIN scan.found' PROVE Named(scan.found[i].frame, scan.found[i].app)'
    <3>1. Named(scan'.found[i].frame, scan'.found[i].app)
      BY <1>8, <2>5
    <3> QED
      BY <1>2, <3>1 DEF Named, Identity, OnAx
  <2>7. \A g \in scan'.frames : Named(g, scan.app)'
    <3>1. \A g \in scan'.frames : Named(g, scan.app)
      BY <1>3, <1>8 DEF ScanKept
    <3> QED
      BY <1>2, <1>8, <3>1 DEF Named, Identity, OnAx
  <2> QED
    BY <1>8, <2>1, <2>2, <2>4, <2>6, <2>7 DEF ScanKept
<1>17. TrackedKept'
  BY <1>2, <1>3, TrackedGoesOn
<1>18. ScanTrue'
  <2> SUFFICES ASSUME undisturbed' PROVE ScanTrue'
    BY DEF ScanTrue
  <2>1. /\ undisturbed /\ ~fails
        /\ scan.live = RunningApps
        /\ scan.frames \subseteq FramesOf(scan.live \ scan.programs)
        /\ \A g \in Frames : g \in FoundFrames <=> /\ IsWindow(g) /\ g \notin scan.frames
                                                     /\ ProgramOf[g] \in scan.live \ scan.programs
        /\ OnAx => scan.live \ scan.programs \subseteq watched
    BY <1>1, <1>3, <1>9 DEF ScanTrue
  <2>2. RunningApps' = RunningApps /\ \A g : IsWindow(g)' = IsWindow(g)
    BY <1>2 DEF RunningApps, OnAx, running, IsWindow
  <2>3. ProgramOf[f] \in scan.live \ scan.programs
    BY <1>1, <2>1 DEF FramesOf
  <2>4. \A g \in Frames : g \in FoundFrames' <=> /\ IsWindow(g) /\ g \notin scan.frames \ {f}
                                                  /\ ProgramOf[g] \in scan.live \ scan.programs
    BY <1>1, <1>13, <2>1, <2>3
  <2> HIDE DEF adds
  <2> QED
    BY <1>2, <1>8, <2>1, <2>2, <2>4 DEF ScanTrue, OnAx
<1>19. WatchedKept'
  BY <1>2, <1>3, <1>8 DEF WatchedKept
<1>20. DesktopKnown'
  BY <1>8, <1>9 DEF DesktopKnown
<1> QED
  BY <1>10, <1>11, <1>12, <1>16, <1>17, <1>18, <1>19, <1>20 DEF DInv, DShape

\* Whatever the focus is put on at the end of a scan is then tracked.
LEMMA ActiveIsTracked ==
    ASSUME ScanShape, SourceShape
    PROVE  /\ \A i \in ToWalk : \E w \in NewlyTracked : w.id = IdFor(i)
           /\ ActiveIds # {} => \E w \in NewlyTracked : w.id = LastOf(ActiveIds)
<1>1. ASSUME NEW i \in ToWalk PROVE \E w \in NewlyTracked : w.id = IdFor(i)
  <2> DEFINE w == [frame |-> scan.found[i].frame, app |-> scan.found[i].app, id |-> IdFor(i)]
  <2>1. w \in NewlyTracked /\ w.id = IdFor(i)
    BY DEF NewlyTracked
  <2> QED
    BY <2>1
<1>2. ASSUME ActiveIds # {} PROVE \E w \in NewlyTracked : w.id = LastOf(ActiveIds)
  <2> DEFINE bound == nextWindow + Cardinality(ToWalk)
  <2>1. nextWindow \in Nat \ {0} /\ Cardinality(ToWalk) \in Nat
    BY NewIds DEF SourceShape
  <2>2. \A i \in ToWalk : IdFor(i) \in Nat /\ IdFor(i) <= bound
    BY <2>1, NewIds
  <2>3. ActiveIds \in SUBSET Nat /\ (\A x \in ActiveIds : x <= bound) /\ bound \in Nat
    BY <2>1, <2>2 DEF ActiveIds
  <2> HIDE DEF bound
  <2>4. Max(ActiveIds) \in ActiveIds
    BY <1>2, <2>3, Greatest
  <2>5. PICK i \in ToWalk : LastOf(ActiveIds) = IdFor(i)
    BY <1>2, <2>4 DEF LastOf, ActiveIds
  <2> QED
    BY <1>1, <2>5
<1> QED
  BY <1>1, <1>2

\* What is newly tracked was found, is not tracked yet, and can be walked.
LEMMA NewlyFacts ==
    ASSUME ScanShape, SourceShape, NEW w \in NewlyTracked
    PROVE  \E i \in ToWalk :
              /\ w = [frame |-> scan.found[i].frame, app |-> scan.found[i].app, id |-> IdFor(i)]
              /\ w.frame = scan.found[i].frame /\ w.app = scan.found[i].app /\ w.id = IdFor(i)
              /\ w \in TrackedWindow /\ w.id \in nextWindow..nextWindow + Cardinality(ToWalk) - 1
              /\ w.frame \in FoundFrames /\ w.frame \notin FramesIn(tracked) /\ ~WalksEmpty(w.frame)
<1>1. PICK i \in ToWalk : w = [frame |-> scan.found[i].frame, app |-> scan.found[i].app, id |-> IdFor(i)]
  BY DEF NewlyTracked
<1>2. w.frame = scan.found[i].frame /\ w.app = scan.found[i].app /\ w.id = IdFor(i)
  BY <1>1
<1>3. i \in DOMAIN scan.found /\ scan.found[i].frame \notin FramesIn(tracked) /\ ~WalksEmpty(scan.found[i].frame)
  BY DEF ToWalk
<1>4. scan.found[i].frame \in Frames /\ scan.found[i].app \in {"none", "own"}
  BY <1>3, FoundFacts
<1>5. nextWindow \in Nat \ {0} /\ Cardinality(ToWalk) \in Nat
      /\ IdFor(i) \in nextWindow..nextWindow + Cardinality(ToWalk) - 1
  BY NewIds DEF SourceShape
<1>6. w \in TrackedWindow
  BY <1>1, <1>4, <1>5 DEF TrackedWindow
<1>7. w.frame \in FoundFrames
  BY <1>2, <1>3 DEF FoundFrames, FramesIn, ToSet
<1> QED
  BY <1>1, <1>2, <1>3, <1>5, <1>6, <1>7

\* What a scan that was not disturbed found is what the desktop shows.
LEMMA FoundIsShown ==
    ASSUME DesktopShape, ScanShape, ScanTrue, scan.busy, undisturbed, scan.programs = {}, scan.frames = {}
    PROVE  \A f \in Frames : f \in FoundFrames <=> f \notin NotWindows /\ ToShow(f)
<1>1. /\ scan.live = RunningApps
      /\ \A f \in Frames : f \in FoundFrames <=> IsWindow(f) /\ ProgramOf[f] \in scan.live
  BY DEF ScanTrue
<1>2. \A f \in onScreen : f \in open /\ ProgramOf[f] \in running
  BY DEF DesktopShape, FramesOf
<1>3. CASE OnAx
  <2>1. RunningApps = {ProgramOf[g] : g \in onScreen} \ Agents
    BY <1>3 DEF RunningApps
  <2>2. \A f \in Frames : ToShow(f) <=> f \in open /\ ProgramOf[f] \in RunningApps
    BY <1>3, <2>1 DEF ToShow, FramesOf
  <2> QED
    BY <1>1, <1>3, <2>2 DEF IsWindow
<1>4. CASE ~OnAx
  <2>1. \A f \in Frames : ToShow(f) <=> f \in onScreen
    BY <1>4 DEF ToShow
  <2>2. RunningApps = running
    BY <1>4 DEF RunningApps
  <2> QED
    BY <1>1, <1>2, <1>4, <2>1, <2>2 DEF IsWindow
<1> QED
  BY <1>3, <1>4

\* What was found takes the place of what was tracked.
LEMMA EndScanPreserves ==
    ASSUME DInv, EndScan, undisturbed /\ OnAx => watched' = scan.live,
           focusOn' # 0 => \/ \E w \in NewlyTracked : w.id = focusOn'
                          \/ \E w \in Stays : w.id = focusOn'
    PROVE  DInv'
<1>1. /\ scan.busy /\ scan.programs = {} /\ scan.frames = {}
      /\ tracked' = Stays \cup NewlyTracked /\ nextWindow' = nextWindow + Cardinality(ToWalk)
      /\ scan' = Resting /\ undisturbed' = undisturbed
      /\ UNCHANGED <<system, process, open, onScreen, loaded, appIds, misread>>
  BY DEF EndScan, programVars
<1>2. DesktopShape /\ SourceShape /\ ScanShape /\ ScanKept /\ TrackedKept /\ ScanTrue
  BY DEF DInv, DShape
<1>3. nextWindow \in Nat \ {0} /\ Cardinality(ToWalk) \in Nat
  BY <1>2, NewIds DEF SourceShape
<1>4. \A w \in Stays : w \in tracked /\ w.frame \in FoundFrames
  BY DEF Stays, FoundFrames
<1>5. ASSUME NEW w \in NewlyTracked
      PROVE  /\ w \in TrackedWindow /\ w.id \in nextWindow..nextWindow + Cardinality(ToWalk) - 1
             /\ w.frame \in FoundFrames /\ w.frame \notin FramesIn(tracked) /\ ~WalksEmpty(w.frame)
  BY <1>2, NewlyFacts
<1>6. scan' = [busy |-> FALSE, programs |-> {}, live |-> {}, activeProgram |-> {},
               app |-> "none", frames |-> {}, found |-> <<>>, first |-> FALSE]
  BY <1>1 DEF Resting
<1>7. DesktopShape'
  BY <1>1, <1>2 DEF DesktopShape, running
<1>8. SourceShape'
  <2>1. \A w \in Stays : w \in TrackedWindow /\ w.id \in 1..nextWindow - 1
    BY <1>2, <1>4 DEF SourceShape
  <2>2. \A w \in tracked' : w \in TrackedWindow /\ w.id \in 1..nextWindow' - 1
    BY <1>1, <1>3, <1>5, <2>1
  <2> QED
    BY <1>1, <1>2, <1>3, <2>2 DEF SourceShape
<1>9. ScanShape'
  <2>1. scan'.found = <<>> /\ <<>> \in Seq(FoundWindow)
    BY <1>6
  <2> QED
    BY <1>6, <2>1 DEF ScanShape
<1>10. FoundFrames' = {} /\ Seen' = {} /\ DOMAIN scan'.found = {} /\ scan'.frames = {}
  BY <1>6 DEF FoundFrames, Seen, FramesIn, ToSet
<1>11. ScanKept'
  BY <1>10 DEF ScanKept
<1>12. TrackedKept'
  <2>1. \A g : Identified(g)' = Identified(g) /\ \A a : Named(g, a)' = Named(g, a)
    BY <1>1 DEF Identified, Named, Identity, OnAx
  <2>2. ASSUME NEW w \in Stays
        PROVE  Identified(w.frame) /\ Named(w.frame, w.app) /\ (OnAx /\ w.frame \in open => w.frame \in loaded)
    BY <1>2, <1>4 DEF TrackedKept
  <2>3. ASSUME NEW w \in NewlyTracked
        PROVE  Identified(w.frame) /\ Named(w.frame, w.app) /\ (OnAx /\ w.frame \in open => w.frame \in loaded)
    <3>1. PICK i \in ToWalk : w.frame = scan.found[i].frame /\ w.app = scan.found[i].app
      BY <1>2, NewlyFacts
    <3>2. i \in DOMAIN scan.found
      BY DEF ToWalk
    <3>3. Named(w.frame, w.app)
      BY <1>2, <3>1, <3>2 DEF ScanKept
    <3>4. Identified(w.frame)
      BY <1>2, <1>5 DEF ScanKept, Seen
    <3> QED
      BY <1>5, <3>3, <3>4 DEF WalksEmpty
  <2>4. ASSUME NEW w \in tracked'
        PROVE  (/\ Identified(w.frame) /\ Named(w.frame, w.app)
                /\ OnAx /\ w.frame \in open => w.frame \in loaded)'
    <3>1. Identified(w.frame) /\ Named(w.frame, w.app) /\ (OnAx /\ w.frame \in open => w.frame \in loaded)
      BY <1>1, <2>2, <2>3
    <3> QED
      BY <1>1, <2>1, <3>1 DEF Named, Identity, OnAx
  <2>5. ASSUME NEW v \in tracked', NEW w \in tracked', v # w PROVE v.id # w.id /\ v.frame # w.frame
    <3>1. CASE v \in Stays /\ w \in Stays
      BY <1>2, <1>4, <2>5, <3>1 DEF TrackedKept
    <3>2. ASSUME NEW x \in Stays, NEW y \in NewlyTracked PROVE x.id # y.id /\ x.frame # y.frame
      <4>1. x.id \in 1..nextWindow - 1 /\ x.frame \in FramesIn(tracked)
        BY <1>2, <1>4 DEF SourceShape, FramesIn
      <4> QED
        BY <1>3, <1>5, <4>1
    <3>3. CASE v \in NewlyTracked /\ w \in NewlyTracked
      <4>1. PICK i \in ToWalk :
               /\ v = [frame |-> scan.found[i].frame, app |-> scan.found[i].app, id |-> IdFor(i)]
               /\ v.frame = scan.found[i].frame /\ v.id = IdFor(i)
        BY <1>2, <3>3, NewlyFacts
      <4>2. PICK k \in ToWalk :
               /\ w = [frame |-> scan.found[k].frame, app |-> scan.found[k].app, id |-> IdFor(k)]
               /\ w.frame = scan.found[k].frame /\ w.id = IdFor(k)
        BY <1>2, <3>3, NewlyFacts
      <4>3. i # k
        BY <2>5, <4>1, <4>2
      <4>4. IdFor(i) # IdFor(k)
        BY <1>2, <1>3, <4>3, NewIds
      <4>5. scan.found[i].frame # scan.found[k].frame
        BY <1>2, <4>3 DEF ScanKept, ToWalk
      <4> QED
        BY <4>1, <4>2, <4>4, <4>5
    <3> QED
      BY <1>1, <3>1, <3>2, <3>3
  <2>6. focusOn' # 0 => \E w \in tracked' : w.id = focusOn'
    BY <1>1
  <2> QED
    BY <2>4, <2>5, <2>6 DEF TrackedKept
<1>13. ScanTrue' /\ WatchedKept'
  BY <1>6 DEF ScanTrue, WatchedKept
<1>14. DesktopKnown'
  <2> SUFFICES ASSUME undisturbed PROVE DesktopKnown'
    BY <1>1 DEF DesktopKnown
  <2>1. \A f : ToShow(f)' = ToShow(f) /\ WalksEmpty(f)' = WalksEmpty(f)
    BY <1>1 DEF ToShow, WalksEmpty, OnAx, FramesOf
  <2>2. FoundFrames \subseteq Frames
    <3>1. \A i \in DOMAIN scan.found : scan.found[i].frame \in Frames
      BY <1>2, FoundFacts
    <3> QED
      BY <3>1 DEF FoundFrames, FramesIn, ToSet
  <2>3. FramesIn(tracked') \subseteq {f \in FoundFrames : ~WalksEmpty(f)}
    <3>1. \A w \in NewlyTracked : w.frame \in FoundFrames /\ ~WalksEmpty(w.frame)
      BY <1>5
    <3>2. ASSUME NEW w \in Stays PROVE w.frame \in FoundFrames /\ ~WalksEmpty(w.frame)
      <4>1. w.frame \in open
        BY <1>1, <1>2, <1>4, <2>2 DEF ScanTrue, IsWindow
      <4> QED
        BY <1>2, <1>4, <4>1 DEF TrackedKept, WalksEmpty
    <3> QED
      BY <1>1, <3>1, <3>2 DEF FramesIn
  <2>4. ASSUME NEW f \in FoundFrames, ~WalksEmpty(f) PROVE f \in FramesIn(tracked')
    <3>1. CASE f \in FramesIn(tracked)
      <4>1. PICK w \in tracked : w.frame = f
        BY <3>1 DEF FramesIn
      <4>2. w \in Stays
        BY <4>1 DEF Stays, FoundFrames
      <4> QED
        BY <1>1, <4>1, <4>2 DEF FramesIn
    <3>2. CASE f \notin FramesIn(tracked)
      <4>1. PICK i \in DOMAIN scan.found : scan.found[i].frame = f
        BY DEF FoundFrames, FramesIn, ToSet
      <4>2. i \in ToWalk
        BY <2>4, <3>2, <4>1 DEF ToWalk
      <4>3. PICK w \in NewlyTracked : w = [frame |-> scan.found[i].frame, app |-> scan.found[i].app, id |-> IdFor(i)]
        BY <4>2 DEF NewlyTracked
      <4>4. w.frame = f
        BY <4>1, <4>3
      <4> QED
        BY <1>1, <4>4 DEF FramesIn
    <3> QED
      BY <3>1, <3>2
  <2>5. \A f \in Frames : f \in FoundFrames <=> f \notin NotWindows /\ ToShow(f)
    BY <1>1, <1>2, FoundIsShown
  <2>6. FramesIn(tracked') = {f \in Frames \ NotWindows : ToShow(f) /\ ~WalksEmpty(f)}
    BY <2>2, <2>3, <2>4, <2>5
  <2>7. OnAx => watched' = {ProgramOf[g] : g \in onScreen} \ Agents
    BY <1>1, <1>2 DEF ScanTrue, RunningApps
  <2> QED
    BY <1>1, <2>1, <2>6, <2>7 DEF DesktopKnown, FramesIn, OnAx
<1> QED
  BY <1>7, <1>8, <1>9, <1>11, <1>12, <1>13, <1>14 DEF DInv, DShape

\* The first scan puts the focus on a new window.
LEMMA EnumerateScanPreserves == ASSUME DInv, EnumerateScan PROVE DInv'
<1>1. scan.first /\ EndScan /\ focusOn' = FirstFocus /\ watched' = watched
  BY DEF EnumerateScan
<1>2. ScanShape /\ SourceShape
  BY DEF DInv, DShape
<1>3. undisturbed /\ OnAx => watched' = scan.live
  BY <1>1 DEF DInv, WatchedKept, ScanTrue, EndScan
<1>4. focusOn' # 0 => \E w \in NewlyTracked : w.id = focusOn'
  <2>1. CASE ActiveIds = {} /\ ToWalk # {}
    <3>1. PICK i \in ToWalk : IdFor(i) = nextWindow
      BY <1>2, <2>1, NewIds DEF SourceShape
    <3> QED
      BY <1>1, <1>2, <2>1, <3>1, ActiveIsTracked DEF FirstFocus
  <2>2. CASE ActiveIds = {} /\ ToWalk = {}
    BY <1>1, <2>2 DEF FirstFocus, LastOf
  <2>3. CASE ActiveIds # {}
    BY <1>1, <1>2, <2>3, ActiveIsTracked DEF FirstFocus
  <2> QED
    BY <2>1, <2>2, <2>3
<1> QED
  BY <1>1, <1>3, <1>4, EndScanPreserves

\* A later one leaves it where it was, or moves it to a new one.
LEMMA ReconcileScanPreserves == ASSUME DInv, ReconcileScan PROVE DInv'
<1>1. /\ EndScan
      /\ focusOn' = IF OnAx /\ ActiveIds # {} THEN LastOf(ActiveIds)
                    ELSE IF \E w \in Stays : w.id = focusOn THEN focusOn ELSE 0
      /\ watched' = IF OnAx THEN watched \cap scan.live ELSE watched
  BY DEF ReconcileScan
<1>2. ScanShape /\ SourceShape
  BY DEF DInv, DShape
<1>3. undisturbed /\ OnAx => watched' = scan.live
  BY <1>1 DEF DInv, ScanTrue, EndScan
<1>4. focusOn' # 0 => \/ \E w \in NewlyTracked : w.id = focusOn'
                     \/ \E w \in Stays : w.id = focusOn'
  BY <1>1, <1>2, ActiveIsTracked
<1> QED
  BY <1>1, <1>3, <1>4, EndScanPreserves

\* Every step preserves the invariant.
LEMMA DiscoveryStep == DInv /\ [DiscoveryNext]_discoveryVars => DInv'
<1> SUFFICES ASSUME DInv, [DiscoveryNext]_discoveryVars PROVE DInv'
  OBVIOUS
<1>1. CASE UNCHANGED discoveryVars
  BY <1>1, ZenonT(60) DEF discoveryVars, programVars, sourceVars, DInv, DShape, DesktopShape, SourceShape, ScanShape,
       ScanKept, TrackedKept, ScanTrue, WatchedKept, DesktopKnown, ToShow, WalksEmpty, IsWindow, OnAx,
       running, RunningApps, FoundFrames, Seen, Identified, Named, Identity
<1>2. ASSUME NEW p \in Programs, Starts(p) \/ Quits(p) \/ OwnsName(p) PROVE DInv'
  BY <1>2, StartsPreserves, QuitsPreserves, DesktopPreserves
<1>3. ASSUME NEW f \in Frames, Closes(f) \/ Minimises(f) \/ Restores(f) \/ Loads(f) PROVE DInv'
  BY <1>3, ClosesPreserves, DesktopPreserves
<1>4. ASSUME NEW missed, BeginScan(missed) PROVE DInv'
  BY <1>4, BeginScanPreserves
<1>5. CASE ScanRefused
  BY <1>5, ScanRefusedPreserves
<1>6. ASSUME NEW p \in Programs, NEW fails \in Failures \cup {"nothing"}, ScanProgram(p, fails) PROVE DInv'
  BY <1>6, ScanProgramPreserves
<1>7. ASSUME NEW f \in Frames, NEW fails \in BOOLEAN, ScanFrame(f, fails) PROVE DInv'
  BY <1>7, ScanFramePreserves
<1>8. CASE EnumerateScan \/ ReconcileScan
  BY <1>8, EnumerateScanPreserves, ReconcileScanPreserves
<1> QED
  BY <1>1, <1>2, <1>3, <1>4, <1>5, <1>6, <1>7, <1>8 DEF DiscoveryNext

(* The invariant holds throughout.                                         *)
THEOREM DiscoveryInvariance == DiscoverySpec => []DInv
<1> QED
  BY DiscoveryEstablished, DiscoveryStep, PTL DEF DiscoverySpec

\* The invariant gives the property.
LEMMA KnownHere == DInv => DesktopIsKnown
<1> SUFFICES ASSUME DInv PROVE WindowsIdentified
  BY DEF DesktopIsKnown, DInv
<1>1. focusOn # 0 => \E w \in tracked : w.id = focusOn
  BY DEF DInv, TrackedKept
<1>2. ASSUME NEW v \in tracked, NEW w \in tracked
      PROVE  /\ v # w => v.id # w.id /\ v.frame # w.frame
             /\ ProgramOf[v.frame] = ProgramOf[w.frame] /\ ProgramOf[v.frame] \notin misread =>
                   v.app = w.app
  BY DEF DInv, TrackedKept, Named, Identity
<1>3. \A w \in tracked : w.id < nextWindow
  BY DEF DInv, DShape, SourceShape
<1> QED
  BY <1>1, <1>2, <1>3 DEF WindowsIdentified

(* For any programs and frames, and any number of them that come, go, hide *)
(* or do not answer: once a scan has run undisturbed, what is tracked is   *)
(* what the desktop shows; and at any time every window is tracked once,   *)
(* under an id of its own, with one identity for a program whose process   *)
(* id no scan failed to learn (reconcile of either source; read_app_info   *)
(* of the AT-SPI one).                                                     *)
THEOREM WindowsAreKnown == DiscoverySpec => []DesktopIsKnown
<1> QED
  BY DiscoveryInvariance, KnownHere, PTL
=============================================================================
