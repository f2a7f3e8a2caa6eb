-------------------------------- MODULE Wslg --------------------------------
(***************************************************************************)
(* WslgSource of crates/accesskit_remoted: it tails weston's log for the   *)
(* native ids of windows and hands them to the windows the wrapped source  *)
(* announces, by app id and order of arrival alone.                        *)
(*                                                                         *)
(* Toplevels are numbered in the order they are launched, which is the     *)
(* order a source announces those of one app in.  A line of the log is two *)
(* pieces, the last with the newline; lines of other kinds are left out.   *)
(* weston, once restarted, is taken to write its first line after the      *)
(* daemon, which looks every 50 ms, has seen the empty log.                *)
(*                                                                         *)
(* The wrapped source takes its snapshot when it is constructed, and the   *)
(* host polls from then on: what is announced before the consumer's hello  *)
(* is discarded (SourceHost::pump), and has taken an id all the same.      *)
(***************************************************************************)
EXTENDS Naturals, Sequences, FiniteSets, SequencesExt, FiniteSetsExt

CONSTANTS
    Toplevels,      \* 1..n
    AppOf,          \* the app id weston logs for each
    Keyed,          \* the apps whose windows the source knows the app id of
    FreshWindow,    \* FRESH_WINDOW
    MaxTime,        \* bound on time
    Vanishing,      \* whether windows may go before they are announced
    ShortReads,     \* whether a read may end before the end of the log
    MaxRestarts     \* bound: restarts of weston

ASSUME WslgAssumption ==
    /\ Cardinality(Toplevels) \in Nat /\ Toplevels = 1..Cardinality(Toplevels)
    /\ {FreshWindow, MaxTime, MaxRestarts} \subseteq Nat
    /\ {Vanishing, ShortReads} \subseteq BOOLEAN

VARIABLES
    time,
    launched,    \* how many toplevels were launched
    open,        \* those on screen
    nativeId,    \* the id weston gave each, from 1 on after each restart
    log,         \* the pieces weston has written
    tail,        \* WestonLogTail: offset, and the pieces after the last newline
    ledger,      \* AppidLedger: seen ids, and the entries of its queues
    stage,       \* "new", "waiting" for the consumer's hello, or "established"
    snapshot,    \* the windows found when the source was constructed
    announced,   \* those and the windows announced since, to the consumer or to no one
    given,       \* the toplevel whose id each announced window was given, or 0
    strayed,     \* history: when a window was announced, an id's freshness misjudged whether
                 \* its window was to come; or weston gave out an id that the ledger had seen,
                 \* or was restarted between the snapshot and the hello
    restarts

wslgVars == <<time, launched, open, nativeId, log, tail, ledger, stage, snapshot, announced,
              given, strayed, restarts>>

WslgInit ==
    /\ time = 0 /\ launched = 0 /\ open = {} /\ restarts = 0
    /\ nativeId = [w \in Toplevels |-> 0]
    /\ log = <<>> /\ tail = [offset |-> 0, partial |-> <<>>]
    /\ ledger = [seen |-> {}, queue |-> {}]
    /\ stage = "new" /\ snapshot = {} /\ announced = {}
    /\ given = [w \in Toplevels |-> 0] /\ strayed = FALSE

-----------------------------------------------------------------------------
(* weston and the applications.                                            *)
Piece(w, ends) == [of |-> w, ends |-> ends]
MidLine == log # <<>> /\ ~Last(log).ends

Launch ==
    /\ launched < Cardinality(Toplevels) /\ ~MidLine /\ tail.offset <= Len(log)
    /\ LET w == launched + 1
           id == Len(log) \div 2 + 1
       IN  /\ launched' = w /\ open' = open \cup {w}
           /\ nativeId' = [nativeId EXCEPT ![w] = id]
           /\ log' = Append(log, Piece(w, FALSE))
           /\ strayed' = (strayed \/ id \in ledger.seen)
    /\ UNCHANGED <<time, tail, ledger, stage, snapshot, announced, given, restarts>>

EndLine ==
    /\ MidLine
    /\ log' = Append(log, Piece(Last(log).of, TRUE))
    /\ UNCHANGED <<time, launched, open, nativeId, tail, ledger, stage, snapshot, announced,
                   given, strayed, restarts>>

Leave(w) ==
    /\ w \in open /\ (w \in announced \/ Vanishing)
    /\ open' = open \ {w}
    /\ UNCHANGED <<time, launched, nativeId, log, tail, ledger, stage, snapshot, announced, given,
                   strayed, restarts>>

Restart ==
    /\ restarts < MaxRestarts /\ restarts' = restarts + 1
    /\ log' = <<>> /\ open' = {}
    /\ strayed' = (strayed \/ stage = "waiting")
    /\ UNCHANGED <<time, launched, nativeId, tail, ledger, stage, snapshot, announced, given>>

PassTime ==
    /\ time < MaxTime /\ time' = time + 1
    /\ UNCHANGED <<launched, open, nativeId, log, tail, ledger, stage, snapshot, announced, given,
                   strayed, restarts>>

-----------------------------------------------------------------------------
(* AppidLedger.  An entry is the toplevel whose line it was, and its time. *)
(* Lines are read in the order they are written: an entry came before      *)
(* those of later toplevels.                                               *)
PushLines(l, lines) ==
    [seen |-> l.seen \cup {nativeId[w] : w \in lines},
     queue |-> l.queue \cup
         {[of |-> w, at |-> time] : w \in {w \in lines :
             nativeId[w] \notin l.seen /\ \A v \in lines : nativeId[v] = nativeId[w] => w <= v}}]

EntriesOf(l, app) == {e \in l.queue : AppOf[e.of] = app}
IsFresh(e) == time <= e.at + FreshWindow
FreshOf(l) == {e \in l.queue : IsFresh(e)}

TakeEntry(l, candidates) ==
    IF candidates = {} THEN [ledger |-> l, given |-> 0]
    ELSE LET first == CHOOSE e \in candidates : \A f \in candidates : e.of <= f.of
         IN  [ledger |-> [l EXCEPT !.queue = @ \ {first}], given |-> first.of]

AssignFreshAny(l, app) == TakeEntry(l, EntriesOf(l, app))
AssignFresh(l, app) == TakeEntry(l, EntriesOf(l, app) \cap FreshOf(l))
AssignSoleFresh(l) == TakeEntry(l, IF Cardinality(FreshOf(l)) = 1 THEN FreshOf(l) ELSE {})

-----------------------------------------------------------------------------
(* WestonLogTail::poll, of a log that ends at upTo when it is read.  What  *)
(* was left after the last newline goes before what is read now.           *)
Resumed == IF Len(log) < tail.offset THEN [offset |-> 0, partial |-> <<>>] ELSE tail

Ends == IF ShortReads THEN Resumed.offset..Len(log) ELSE {Len(log)}

LineStart(text, i) == 1 + Max({0} \cup {j \in 1..i - 1 : text[j].ends})
LinesOf(text) ==
    {text[i].of : i \in {i \in DOMAIN text :
        text[i].ends /\ SubSeq(text, LineStart(text, i), i - 1) = <<Piece(text[i].of, FALSE)>>}}

PollLog(upTo) ==
    LET text == Resumed.partial \o SubSeq(log, Resumed.offset + 1, upTo)
    IN  [tail   |-> [offset  |-> upTo,
                     partial |-> SubSeq(text, LineStart(text, Len(text) + 1), Len(text))],
         ledger |-> PushLines(ledger, LinesOf(text))]

(* An id is fresh although its window is announced or gone, or no longer   *)
(* fresh although its window is still to come.                             *)
Stray(l) ==
    \E e \in l.queue : IsFresh(e) # (e.of \in open \ announced)

-----------------------------------------------------------------------------
(* The source announces windows, which takes it longer than weston takes   *)
(* to log them, those of an app in the order of their launch.              *)
Lines(upTo) == {w \in Toplevels : Piece(w, TRUE) \in ToSet(SubSeq(log, 1, upTo))}
Reads(upTo, found) == found \cap Lines(Len(log)) \subseteq Lines(upTo)

Announceable(found, upTo) ==
    /\ found \subseteq (open \ announced) \cap Lines(upTo)
    /\ \A w \in found, v \in open : AppOf[v] = AppOf[w] /\ v < w => v \in announced \cup found

(* WslgSource::new, about a source that has just enumerated the desktop.   *)
Construct(found) ==
    /\ stage = "new" /\ Announceable(found, Len(log))
    /\ stage' = "waiting" /\ snapshot' = found /\ announced' = found
    /\ UNCHANGED <<time, launched, open, nativeId, log, tail, ledger, given, strayed, restarts>>

(* initial_state: an app's windows are given its ids, in order, if there   *)
(* are as many of them as ids; a window without app id if it and the id    *)
(* are alone.  The windows are those of the snapshot, gone or not, and     *)
(* the ids those no announcement has taken since.                          *)
Matched(l, found) ==
    {w \in found : AppOf[w] \in Keyed
        /\ Cardinality({v \in found : AppOf[v] = AppOf[w]}) = Cardinality(EntriesOf(l, AppOf[w]))}
Sole(l, found) ==
    {w \in found : AppOf[w] \notin Keyed /\ Cardinality(found) = 1 /\ Cardinality(l.queue) = 1}
Before(numbers, n) == Cardinality({m \in numbers : m < n})

InitialState(upTo) ==
    LET polled  == PollLog(upTo)
        queue   == polled.ledger.queue
        Of(w)   == {v \in snapshot : AppOf[v] = AppOf[w]}
        Ids(w)  == {e.of : e \in EntriesOf(polled.ledger, AppOf[w])}
        matched == Matched(polled.ledger, snapshot)
        sole    == Sole(polled.ledger, snapshot)
    IN  /\ stage = "waiting" /\ Reads(upTo, snapshot)
        /\ stage' = "established"
        /\ tail' = polled.tail
        /\ ledger' = [polled.ledger EXCEPT !.queue =
                         {e \in queue : sole = {} /\ \A w \in matched : AppOf[e.of] # AppOf[w]}]
        /\ given' = [w \in Toplevels |->
                        CASE w \in matched -> CHOOSE id \in Ids(w) : Before(Ids(w), id) = Before(Of(w), w)
                          [] w \in sole    -> (CHOOSE e \in queue : TRUE).of
                          [] OTHER         -> given[w]]
        /\ UNCHANGED <<time, launched, open, nativeId, log, snapshot, announced, strayed, restarts>>

(* poll_events: the log is polled first, then the windows added are given  *)
(* ids; a batch of them is no different from several polls.  The host      *)
(* calls it before the hello as well, and drops what it returns.           *)
PollEvents(found, upTo) ==
    LET polled == PollLog(upTo)
        Given(w) == IF AppOf[w] \in Keyed THEN AssignFresh(polled.ledger, AppOf[w])
                                          ELSE AssignSoleFresh(polled.ledger)
    IN  /\ stage # "new" /\ Announceable(found, upTo) /\ Cardinality(found) <= 1
        /\ announced' = announced \cup found
        /\ tail' = polled.tail
        /\ ledger' = IF found = {} THEN polled.ledger ELSE Given(Max(found)).ledger
        /\ given' = [w \in Toplevels |-> IF w \in found THEN Given(w).given ELSE given[w]]
        /\ strayed' = (strayed \/ (found # {} /\ Stray(polled.ledger)))
        /\ UNCHANGED <<time, launched, open, nativeId, log, stage, snapshot, restarts>>

WslgNext ==
    \/ Launch \/ EndLine \/ Restart \/ PassTime
    \/ \E w \in Toplevels : Leave(w)
    \/ \E found \in SUBSET Toplevels : Construct(found)
    \/ \E upTo \in Ends : InitialState(upTo)
    \/ \E found \in SUBSET Toplevels, upTo \in Ends : PollEvents(found, upTo)

-----------------------------------------------------------------------------
(* Properties.                                                             *)

(* However the log is cut into reads, and across a replaced log, what the  *)
(* tail carries over is the unfinished line of what it has read, and every *)
(* finished line's id has reached the ledger (WestonLogTail::poll).        *)
TailExact ==
    tail.offset <= Len(log) =>
        LET read == SubSeq(log, 1, tail.offset)
        IN  /\ tail.partial = IF read # <<>> /\ ~Last(read).ends THEN <<Last(read)>> ELSE <<>>
            /\ \A i \in DOMAIN read : read[i].ends => nativeId[read[i].of] \in ledger.seen

(* As long as the fresh ids are those of windows to come whenever a window *)
(* is announced, and weston, once restarted, neither gives out an id that  *)
(* the ledger has seen nor comes between the snapshot and the hello, every *)
(* window that is given an id is given its own: neither the count gate nor *)
(* the order of arrival nor being alone mistakes one window for another,   *)
(* and what is announced to no one before the hello takes no id the        *)
(* windows of the snapshot need (initial_state, poll_events,               *)
(* SourceHost::pump).                                                      *)
PairedRight ==
    ~strayed => \A w \in announced : given[w] \in {0, w}

\* Each line of the log is read once, and an id is given to the window it was
\* logged for.
IdsPaired == TailExact /\ PairedRight
=============================================================================
