------------------------------ MODULE Handover ------------------------------
(***************************************************************************)
(* How a source comes to speak to a consumer: serve() of accesskit_remoted *)
(* builds the source when a client connects, the client says hello in its  *)
(* own time, and until then SourceHost::pump discards what the source      *)
(* reports.  The sources of the two platforms enumerate the desktop once   *)
(* and keep that snapshot for initial_state; the demo source has one       *)
(* window, which only the consumer's actions change, and builds its tree   *)
(* when asked.  Remote takes the source to be arbitrary; here it is one    *)
(* that reports every change of its desktop exactly once.                  *)
(*                                                                         *)
(* A window's tree is what one text of it says and which node has the      *)
(* focus; an update carries the focus always and the text if it changed.   *)
(***************************************************************************)
EXTENDS Naturals, Sequences, SequencesExt, TLC

CONSTANTS
    Windows,    \* the windows of a platform
    MaxReports  \* bound: changes of the desktop

VARIABLES
    source,     \* "demo" or "platform"
    desktop,    \* the trees of the windows there are now
    snapshot,   \* what the source enumerated when it was built
    reports,    \* what it observed and nobody polled
    phase,      \* of the host: "AwaitingHello", "Established" or "Failed"
    shown,      \* the windows announced to the consumer, and the trees it was sent
    changes

vars == <<source, desktop, snapshot, reports, phase, shown, changes>>

Demo == "demo"
Nodes == {"root", "label", "button"}
NewTree == [text |-> 0, focus |-> "button"]
NewSource(trees) == desktop = trees /\ snapshot = trees

Init ==
    /\ \/ source = "demo" /\ NewSource(Demo :> NewTree)
       \/ source = "platform" /\ \E ws \in SUBSET Windows : NewSource([w \in ws |-> NewTree])
    /\ reports = <<>> /\ phase = "AwaitingHello" /\ shown = <<>> /\ changes = 0

Without(trees, w) == [v \in DOMAIN trees \ {w} |-> trees[v]]

Observed(trees, report) ==
    /\ changes < MaxReports /\ changes' = changes + 1
    /\ desktop' = trees
    /\ reports' = Append(reports, report)
    /\ UNCHANGED <<source, snapshot, phase, shown>>

Updated(w, update) == Observed([desktop EXCEPT ![w] = update @@ @], <<"TreeUpdate", w, update>>)

(* The desktop of a platform. *)
Opens(w) ==
    /\ source = "platform" /\ w \notin DOMAIN desktop
    /\ Observed(w :> NewTree @@ desktop, <<"WindowAdded", w, NewTree>>)
Closes(w) ==
    /\ source = "platform" /\ w \in DOMAIN desktop
    /\ Observed(Without(desktop, w), <<"WindowRemoved", w>>)
Changes(w) ==
    /\ source = "platform" /\ w \in DOMAIN desktop
    /\ Updated(w, [text |-> desktop[w].text + 1, focus |-> desktop[w].focus])

(* DemoSource::perform, for a click on the button and a focus anywhere.    *)
Perform(action, node) ==
    /\ source = "demo" /\ phase = "Established"
    /\ \/ /\ action = "Click" /\ node = "button"
          /\ Updated(Demo, [text |-> desktop[Demo].text + 1, focus |-> desktop[Demo].focus])
       \/ action = "Focus" /\ Updated(Demo, [focus |-> node])

InitialState == IF source = "demo" THEN desktop ELSE snapshot

HandleHello ==
    /\ phase = "AwaitingHello"
    /\ phase' = "Established" /\ shown' = InitialState
    /\ UNCHANGED <<source, desktop, snapshot, reports, changes>>

\* What apply_source_event makes of a report.  One about a window that was not
\* announced, or was already, ends the session, and the reports behind it are lost.
Refused(view, report) == (report[1] = "WindowAdded") = (report[2] \in DOMAIN view.shown)
Applied(view, report) ==
    LET w == report[2] IN
    IF view.phase = "Failed" THEN view
    ELSE IF Refused(view, report) THEN [view EXCEPT !.phase = "Failed"]
    ELSE CASE report[1] = "WindowRemoved" -> [view EXCEPT !.shown = Without(@, w)]
           [] report[1] = "WindowAdded"   -> [view EXCEPT !.shown = w :> report[3] @@ @]
           [] OTHER                       -> [view EXCEPT !.shown[w] = report[3] @@ @]

Pump ==
    /\ phase # "Failed" /\ reports # <<>>
    /\ reports' = <<>>
    /\ LET view == FoldLeft(Applied, [phase |-> phase, shown |-> shown], reports)
       IN  IF phase = "Established"
           THEN phase' = view.phase /\ shown' = view.shown
           ELSE UNCHANGED <<phase, shown>>
    /\ UNCHANGED <<source, desktop, snapshot, changes>>

Next ==
    \/ \E w \in Windows : Opens(w) \/ Closes(w) \/ Changes(w)
    \/ \E action \in {"Click", "Focus"}, node \in Nodes : Perform(action, node)
    \/ HandleHello
    \/ Pump

-----------------------------------------------------------------------------
(* The consumer of a source that reports every change is not sent away,    *)
(* and with all reports polled it was sent the desktop as it is: 'the full *)
(* picture arrives with `initial_state` at establishment' (host.rs).       *)
PictureComplete ==
    phase # "AwaitingHello" /\ reports = <<>> => phase = "Established" /\ shown = desktop
=============================================================================
