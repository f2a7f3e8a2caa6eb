----------------------------- MODULE Discovery -----------------------------
(***************************************************************************)
(* How a source finds the windows there are: discover_windows and          *)
(* reconcile of the AT-SPI source (mirror.rs, source.rs, app_id.rs) and of *)
(* the macOS one (ax.rs, source.rs, opt_in.rs).  A scan asks one program   *)
(* after the other for its frames and, frame by frame, whether it is a     *)
(* window to be shown, while programs start, quit and hide; one that does  *)
(* not answer has no windows this time.  What the scan found is then set   *)
(* against what is tracked, and what is new is walked when the scan ends.  *)
(* Atspi and Ax take a discovery as one step; what becomes of a window     *)
(* that is tracked is theirs.                                              *)
(***************************************************************************)
EXTENDS Naturals, Sequences, FiniteSets, SequencesExt, FiniteSetsExt

CONSTANTS
    Programs, Frames, ProgramOf,
    NotWindows,     \* frames of another role: a scroll area, a tooltip
    Agents,         \* programs without the regular activation policy (macOS)
    Shy,            \* programs that publish nothing until they are prompted (macOS)
    NoFrame,
    ListedBefore,   \* bound: of these pairs of programs and of frames, the first is never listed second
    MaxTroubles     \* bound: changes of the desktop, and calls that are not answered

ASSUME DiscoveryAssumption ==
    ProgramOf \in [Frames -> Programs] /\ NoFrame \notin Frames /\ Agents \subseteq Programs

VARIABLES
    system,     \* "atspi" or "ax"
    process,    \* of a program: "coming", "running" or "gone"
    owning,     \* those that own a bus name with their application id (AT-SPI)
    open,       \* frames that exist
    onScreen,   \* those that show
    loaded,     \* those with a tree to walk (macOS)
    front,      \* the active frame
    scan,       \* the scan under way
    appIds,     \* AppIdResolver.cache: "unswept", "none" or "own"
    prompted,   \* programs that were prompted to publish their trees
    watched,    \* programs with an AppObserver
    tracked,    \* the windows tracked: [frame, id, app]; they are listed by their ids
    focusOn,    \* the window the focus tracker holds, 0 for none
    nextWindow,
    misread,    \* history: programs whose process id a scan once could not learn (AT-SPI)
    troubles,
    undisturbed \* history: since the last scan began, nothing changed or failed

programVars == <<system, process, owning, open, onScreen, loaded, front>>
sourceVars == <<appIds, prompted, watched, tracked, focusOn, nextWindow, misread>>
discoveryVars == <<programVars, sourceVars, scan, troubles, undisturbed>>

OnAx == system = "ax"
running == {p \in Programs : process[p] = "running"}
FramesOf(programs) == {f \in Frames : ProgramOf[f] \in programs}
Resting == [busy |-> FALSE, programs |-> {}, live |-> {}, activeProgram |-> {},
            app |-> "none", frames |-> {}, found |-> <<>>, first |-> FALSE]

DiscoveryInit ==
    /\ system \in {"atspi", "ax"}
    /\ process \in [Programs -> {"coming", "running"}] /\ \A p \in Agents : process[p] = "running"
    /\ open = FramesOf(running)
    /\ onScreen = open /\ loaded \in (IF OnAx THEN {{}, open} ELSE {{}})
    /\ owning \in (IF OnAx THEN {{}} ELSE {{}, running}) /\ front \in onScreen \cup {NoFrame}
    /\ scan = [Resting EXCEPT !.first = TRUE]
    /\ appIds = [p \in Programs |-> "unswept"] /\ prompted = {} /\ watched = {}
    /\ tracked = {} /\ focusOn = 0 /\ nextWindow = 1 /\ misread = {}
    /\ troubles = 0 /\ undisturbed = FALSE

-----------------------------------------------------------------------------
(* The desktop.                                                            *)
Upheaval ==
    /\ troubles < MaxTroubles /\ troubles' = troubles + 1
    /\ undisturbed' = FALSE
    /\ UNCHANGED <<system, sourceVars, scan>>

Starts(p) ==
    /\ process[p] = "coming" /\ Upheaval
    /\ process' = [process EXCEPT ![p] = "running"]
    /\ open' = open \cup FramesOf({p}) /\ onScreen' = onScreen \cup FramesOf({p})
    /\ UNCHANGED <<owning, loaded, front>>

Gone(frames) ==
    /\ open' = open \ frames /\ onScreen' = onScreen \ frames /\ loaded' = loaded \ frames
    /\ front' = IF front \in frames THEN NoFrame ELSE front

Quits(p) ==
    /\ p \in running /\ Upheaval
    /\ process' = [process EXCEPT ![p] = "gone"] /\ owning' = owning \ {p}
    /\ Gone(FramesOf({p}))
Closes(f) ==
    /\ f \in open /\ Upheaval
    /\ Gone({f})
    /\ UNCHANGED <<process, owning>>

OwnsName(p) ==
    /\ p \in running \ owning /\ ~OnAx /\ Upheaval
    /\ owning' = owning \cup {p}
    /\ UNCHANGED <<process, open, onScreen, loaded, front>>

Minimises(f) ==
    /\ f \in onScreen /\ Upheaval
    /\ onScreen' = onScreen \ {f} /\ front' = IF front = f THEN NoFrame ELSE front
    /\ UNCHANGED <<process, owning, open, loaded>>
Restores(f) ==
    /\ f \in open \ onScreen /\ Upheaval
    /\ onScreen' = onScreen \cup {f} /\ front' = f
    /\ UNCHANGED <<process, owning, open, loaded>>
Loads(f) ==
    /\ f \in open \ loaded /\ OnAx /\ Upheaval
    /\ ProgramOf[f] \in Shy => ProgramOf[f] \in prompted
    /\ loaded' = loaded \cup {f}
    /\ UNCHANGED <<process, owning, open, onScreen, front>>

-----------------------------------------------------------------------------
(* A scan.                                                                 *)

\* The registry's children; on macOS the owners of what is on the screen, as
\* the window server knows them, but for agents.
RunningApps == IF OnAx THEN {ProgramOf[f] : f \in onScreen} \ Agents ELSE running

Failed(fails) ==
    /\ fails => troubles < MaxTroubles
    /\ troubles' = IF fails THEN troubles + 1 ELSE troubles

\* A program that cannot be reached, or all of them if it is the window server
\* that does not answer, is as good as gone.
BeginScan(missed) ==
    LET apps == RunningApps \ missed
    IN  /\ ~scan.busy /\ Failed(missed # {})
        /\ undisturbed' = (missed = {})
        /\ scan' = [scan EXCEPT !.busy = TRUE, !.programs = apps, !.live = apps,
                       !.activeProgram = {ProgramOf[f] : f \in onScreen \cap {front}}]
        /\ UNCHANGED <<programVars, sourceVars>>

\* The AT-SPI registry's answer is an error: nothing is reconciled.
ScanRefused ==
    /\ ~scan.busy /\ ~scan.first /\ ~OnAx /\ Failed(TRUE)
    /\ undisturbed' = FALSE
    /\ UNCHANGED <<programVars, sourceVars, scan>>

\* app_id_for_pid: a sweep of the session bus, kept whatever it found.  A bus
\* that cannot be opened is not tried again for anyone.  Without the program's
\* process id there is no sweep, and nothing to keep.
Resolved(p, fails) ==
    LET own == IF p \in owning /\ fails # "sweep" THEN "own" ELSE "none"
    IN  IF appIds[p] # "unswept" \/ fails = "pid" THEN appIds
        ELSE IF fails = "session" THEN [q \in Programs |-> "none"]
        ELSE [appIds EXCEPT ![p] = own]

Failures == IF OnAx THEN {"frames", "observer", "request"}
            ELSE {"frames", "pid", "sweep"} \cup (IF \A p \in Programs : appIds[p] = "unswept"
                                                  THEN {"session"} ELSE {})

\* A program that is not observed is asked, on macOS, to publish its tree, and
\* an observer made.  Without the observer the next scan does both again; a
\* request that failed beside it is not repeated.
Prompt(p, fails) == IF OnAx /\ p \notin watched /\ fails # "request" THEN prompted \cup {p} ELSE prompted
Observe(p, fails) ==
    IF OnAx /\ p \notin watched /\ fails # "observer" /\ p \in running THEN watched \cup {p} ELSE watched

\* read_app_info, for all the frames of a program that a scan lists.
AppIdOf(p, fails) ==
    IF OnAx THEN "own" ELSE IF fails = "pid" THEN "none" ELSE Resolved(p, fails)[p]

\* On AT-SPI a program is identified.  It lists its frames, or none if it
\* does not answer.  Programs and frames are listed in any order.
ScanProgram(p, fails) ==
    /\ p \in scan.programs /\ scan.frames = {} /\ \A q \in scan.programs : <<q, p>> \notin ListedBefore
    /\ Failed(fails # "nothing")
    /\ undisturbed' = (undisturbed /\ fails = "nothing")
    /\ scan' = [scan EXCEPT !.programs = @ \ {p}, !.app = AppIdOf(p, fails),
                   !.frames = IF fails = "frames" THEN {} ELSE open \cap FramesOf({p})]
    /\ appIds' = IF OnAx THEN appIds ELSE Resolved(p, fails)
    /\ misread' = IF fails = "pid" THEN misread \cup {p} ELSE misread
    /\ prompted' = Prompt(p, fails) /\ watched' = Observe(p, fails)
    /\ UNCHANGED <<programVars, tracked, focusOn, nextWindow>>

\* AT-SPI asks for role and states, and a frame that does not show is not one;
\* macOS for the role, and for the focused window of the active program.
IsWindowListed(f) == f \in open \ NotWindows
IsWindow(f) == f \in open \ NotWindows /\ (OnAx \/ f \in onScreen)
IsActive(f) == f = front /\ (OnAx => ProgramOf[f] \in scan.activeProgram)

ScanFrame(f, fails) ==
    /\ f \in scan.frames /\ \A g \in scan.frames : <<g, f>> \notin ListedBefore
    /\ Failed(fails)
    /\ undisturbed' = (undisturbed /\ ~fails)
    /\ scan' = [scan EXCEPT !.frames = @ \ {f},
            !.found = IF fails \/ ~IsWindow(f) THEN @
                      ELSE Append(@, [frame |-> f, active |-> IsActive(f),
                                      app |-> scan.app])]
    /\ UNCHANGED <<programVars, sourceVars>>

FramesIn(windows) == {w.frame : w \in windows}
LastOf(ids) == IF ids = {} THEN 0 ELSE Max(ids)

\* AT-SPI's walk always has something, if only a node of defaults.
WalksEmpty(f) == OnAx /\ f \notin loaded

\* What was found and is not tracked is walked and given an id, one after the
\* other, unless there is nothing to walk yet.
ToWalk == {i \in DOMAIN scan.found : /\ scan.found[i].frame \notin FramesIn(tracked)
                                     /\ ~WalksEmpty(scan.found[i].frame)}
IdFor(i) == nextWindow + Cardinality({j \in ToWalk : j < i})
NewlyTracked == {[frame |-> scan.found[i].frame, app |-> scan.found[i].app, id |-> IdFor(i)] : i \in ToWalk}
ActiveIds == {IdFor(i) : i \in {j \in ToWalk : scan.found[j].active}}
Stays == {w \in tracked : w.frame \in FramesIn(ToSet(scan.found))}

EndScan ==
    /\ scan.busy /\ scan.programs = {} /\ scan.frames = {}
    /\ tracked' = Stays \cup NewlyTracked /\ nextWindow' = nextWindow + Cardinality(ToWalk)
    /\ scan' = Resting
    /\ UNCHANGED <<programVars, appIds, prompted, misread, troubles, undisturbed>>

\* The first time: the last active window has the focus, or the first.
FirstFocus == IF ActiveIds = {} /\ ToWalk # {} THEN nextWindow ELSE LastOf(ActiveIds)
EnumerateScan ==
    /\ scan.first /\ EndScan
    /\ focusOn' = FirstFocus /\ UNCHANGED watched

(* Later: the focus goes with the window it was on, and only macOS moves   *)
(* it to a new window that is active; observers of programs without any    *)
(* window are dropped.                                                     *)
ReconcileScan ==
    /\ ~scan.first /\ EndScan
    /\ focusOn' = IF OnAx /\ ActiveIds # {} THEN LastOf(ActiveIds)
                  ELSE IF \E w \in Stays : w.id = focusOn THEN focusOn ELSE 0
    /\ watched' = IF OnAx THEN watched \cap scan.live ELSE watched

DiscoveryNext ==
    \/ \E p \in Programs : Starts(p) \/ Quits(p) \/ OwnsName(p)
    \/ \E f \in Frames : Closes(f) \/ Minimises(f) \/ Restores(f) \/ Loads(f)
    \/ BeginScan({}) \/ BeginScan(RunningApps) \/ \E p \in RunningApps : BeginScan({p})
    \/ ScanRefused
    \/ \E p \in Programs, fails \in Failures \cup {"nothing"} : ScanProgram(p, fails)
    \/ \E f \in Frames, fails \in BOOLEAN : ScanFrame(f, fails)
    \/ EnumerateScan \/ ReconcileScan

-----------------------------------------------------------------------------
(* Properties.                                                             *)

ToShow(f) ==
    f \in IF OnAx THEN open \cap FramesOf({ProgramOf[g] : g \in onScreen} \ Agents) ELSE onScreen

\* When nothing changed and every call was answered since a scan began, what
\* is tracked after it is what the desktop shows and can be walked, whatever
\* earlier scans met; on macOS every program with something on the screen is
\* observed, and only those are.
DesktopKnown ==
    ~scan.busy /\ undisturbed =>
        /\ FramesIn(tracked) = {f \in Frames \ NotWindows : ToShow(f) /\ ~WalksEmpty(f)}
        /\ OnAx => watched = {ProgramOf[g] : g \in onScreen} \ Agents

\* At any time the focus is on a window that is tracked, if on any, no window
\* is tracked twice, no id is given out twice, and a program has one identity
\* in all its windows, unless a scan once could not learn its process id.
WindowsIdentified ==
    /\ focusOn # 0 => \E w \in tracked : w.id = focusOn
    /\ \A v, w \in tracked :
          /\ v # w => v.id # w.id /\ v.frame # w.frame
          /\ ProgramOf[v.frame] = ProgramOf[w.frame] /\ ProgramOf[v.frame] \notin misread =>
                v.app = w.app
    /\ \A w \in tracked : w.id < nextWindow

\* Both: an undisturbed scan leaves exactly what the desktop shows tracked,
\* whatever earlier ones met, and no scan confuses two windows (reconcile of
\* either source).
DesktopIsKnown == DesktopKnown /\ WindowsIdentified
=============================================================================
