------------------------------ MODULE Actions ------------------------------
(***************************************************************************)
(* What a mirrored object is advertised to do, and what is done when the   *)
(* client asks: build_container (mapping.rs, node.rs), plan_action and its *)
(* steps (drive.rs of both sources), and the executors that read the       *)
(* object afresh, plan, and try one call after another (perform in         *)
(* mirror.rs and ax.rs).                                                   *)
(*                                                                         *)
(* A widget is what an object answers when it is read; its names are those *)
(* of its actions, in lower case and without their AX.  Numbers count in   *)
(* hundredths.                                                             *)
(***************************************************************************)
EXTENDS Integers, Sequences, FiniteSets, SequencesExt

CONSTANTS
    Widgets,        \* what an object may be, on either platform
    NoValue,        \* a number that is absent or not finite
    MaxAsked        \* bound: requests

VARIABLES
    widget,         \* the object as it is
    mirrored,       \* as it was when the client's node was built
    asked,          \* the request under way, or NoRequest
    requests

actionsVars == <<widget, mirrored, asked, requests>>

Kinds == {"Click", "Focus", "Expand", "Collapse", "Increment", "Decrement", "SetText", "SetNumber"}
NoRequest == [action |-> "none", plan |-> <<>>, held |-> FALSE, before |-> NoValue]

-----------------------------------------------------------------------------
(* AT-SPI.                                                                 *)
When(condition, actions) == IF condition THEN actions ELSE {}

\* SetValue is advertised once for text and numbers; the client sends what the
\* node it sees holds.
AtspiAdvertised(w) ==
    When("Action" \in w.interfaces /\ w.role \in {"clickable", "option"}, {"Click"})
    \cup When(w.focusable, {"Focus"})
    \cup When(w.expandable, {"Expand", "Collapse"})
    \cup When("Value" \in w.interfaces /\ w.role = "range", {"Increment", "Decrement", "SetNumber"})
    \cup When("EditableText" \in w.interfaces, {"SetText"})

SelectChildStep(w) ==
    IF w.role = "option" /\ w.chooses THEN <<<<"SelectChildOfParent">>>> ELSE <<>>

\* The actions so named, in the order of the candidates, and then the first
\* action there is whatever its name.
DoActionStepsNamed(w, candidates) ==
    LET Named(name) == SetToSortSeq({i \in DOMAIN w.names : w.names[i] = name}, <)
        named == FlattenSeq([c \in DOMAIN candidates |-> Named(candidates[c])])
    IN  [i \in DOMAIN named |-> <<"DoAction", named[i]>>]
DoActionSteps(w, candidates) ==
    LET named == DoActionStepsNamed(w, candidates)
        first == <<"DoAction", 1>>
    IN  IF "Action" \in w.interfaces /\ first \notin ToSet(named) THEN Append(named, first) ELSE named

ClampTo(number, low, high) ==
    IF number < low THEN low ELSE IF number > high THEN high ELSE number

ValueStepLoose(w, direction) ==
    LET step == IF w.step # NoValue /\ w.step > 0 THEN w.step ELSE 1
    IN  IF w.at = NoValue THEN <<>> ELSE <<<<"SetCurrentValue", w.at + direction * step>>>>
ValueStep(w, direction) ==
    LET ranged == w.low # NoValue /\ w.high # NoValue
        step == IF w.step # NoValue /\ w.step > 0 THEN w.step
                ELSE IF ranged THEN (w.high - w.low) \div 100 ELSE 0
        to == w.at + direction * step
    IN  IF "Value" \notin w.interfaces \/ w.at = NoValue \/ step <= 0 THEN <<>>
        ELSE <<<<"SetCurrentValue",
                 IF ranged /\ w.low <= w.high THEN ClampTo(to, w.low, w.high) ELSE to>>>>

AtspiPlan(w, action) ==
    CASE action = "Click" ->
            SelectChildStep(w) \o DoActionSteps(w, <<"click", "press", "toggle", "activate">>)
      [] action = "Focus" -> <<<<"GrabFocus">>>> \o SelectChildStep(w)
      [] action = "Expand" ->
            DoActionSteps(w, <<"expand", "menu.popup", "popup", "show", "press">>)
      [] action = "Collapse" ->
            DoActionSteps(w, <<"collapse", "menu.popdown", "popdown", "close", "menu.popup", "press">>)
      [] action = "Increment" -> ValueStep(w, 1)
      [] action = "Decrement" -> ValueStep(w, -1)
      [] action = "SetText" ->
            IF "EditableText" \in w.interfaces THEN <<<<"SetTextContents">>>> ELSE <<>>
      [] action = "SetNumber" ->
            IF "Value" \in w.interfaces THEN <<<<"SetCurrentValue", 0>>>> ELSE <<>>

-----------------------------------------------------------------------------
(* macOS.                                                                  *)
AxAdvertised(w) ==
    When("focused" \in w.settable, {"Focus"})
    \cup When({"press", "pick", "confirm"} \cap ToSet(w.names) # {}, {"Click"})
    \cup When("showmenu" \in ToSet(w.names), {"Expand", "Collapse"})
    \cup When("increment" \in ToSet(w.names), {"Increment"})
    \cup When("decrement" \in ToSet(w.names), {"Decrement"})
    \cup When("value" \in w.settable, {"SetText", "SetNumber"})

IfNamed(w, name) == IF name \in ToSet(w.names) THEN <<<<"Perform", name>>>> ELSE <<>>
IfSettable(w, what, call) == IF what \in w.settable THEN <<call>> ELSE <<>>

AxStep(w, direction) ==
    LET name == IF direction > 0 THEN "increment" ELSE "decrement"
    IN  IF name \in ToSet(w.names) THEN <<<<"Perform", name>>>>
        ELSE IF w.at = NoValue THEN <<>>
        ELSE IfSettable(w, "value", <<"SetNumberValue", w.at + direction>>)

AxPlan(w, action) ==
    CASE action = "Click" ->
            IfNamed(w, "press") \o IfNamed(w, "pick")
              \o (IF w.role = "option" THEN IfSettable(w, "selected", <<"SetSelected">>) ELSE <<>>)
              \o IfNamed(w, "confirm")
      [] action = "Focus" ->
            IfSettable(w, "focused", <<"Focus">>)
              \o (IF w.role = "window" THEN IfNamed(w, "raise") ELSE <<>>)
      [] action = "Expand" -> IfNamed(w, "showmenu") \o IfNamed(w, "press")
      [] action = "Collapse" -> IfNamed(w, "press") \o IfNamed(w, "cancel")
      [] action = "Increment" -> AxStep(w, 1)
      [] action = "Decrement" -> AxStep(w, -1)
      [] action = "SetText" -> IfSettable(w, "value", <<"SetStringValue">>)
      [] action = "SetNumber" -> IfSettable(w, "value", <<"SetNumberValue", 0>>)

Advertised(w) == IF w.platform = "atspi" THEN AtspiAdvertised(w) ELSE AxAdvertised(w)
Plan(w, action) == IF w.platform = "atspi" THEN AtspiPlan(w, action) ELSE AxPlan(w, action)

-----------------------------------------------------------------------------
ActionsInit ==
    /\ widget \in Widgets /\ mirrored = widget
    /\ asked = NoRequest /\ requests = 0

(* The object becomes another between a read of it and the next: it is     *)
(* disabled, scrolled to its end, shown its menu.                          *)
Become(w) ==
    /\ requests = 0 /\ widget = mirrored
    /\ w.platform = widget.platform /\ w.role = widget.role /\ w # widget
    /\ widget' = w
    /\ UNCHANGED <<mirrored, asked, requests>>

\* The source reads it again and sends its node.
Mirror ==
    /\ mirrored # widget /\ mirrored' = widget
    /\ UNCHANGED <<widget, asked, requests>>

\* perform: the object is read, not remembered.
Ask(action) ==
    /\ requests < MaxAsked /\ requests' = requests + 1
    /\ asked = NoRequest /\ action \in Advertised(mirrored)
    /\ asked' = [action |-> action, plan |-> Plan(widget, action),
                 held |-> mirrored = widget, before |-> widget.at]
    /\ UNCHANGED <<widget, mirrored>>

IsValueCall(call) == call[1] \in {"SetCurrentValue", "SetNumberValue"}

\* execute_step, execute: one that is accepted is the last.
AcceptCall(call) ==
    /\ asked.plan # <<>> /\ call = Head(asked.plan)
    /\ widget' = IF IsValueCall(call) THEN [widget EXCEPT !.at = call[2]] ELSE widget
    /\ asked' = NoRequest
    /\ UNCHANGED <<mirrored, requests>>

DeclineCall ==
    /\ asked # NoRequest
    /\ asked' = IF Len(asked.plan) > 1 THEN [asked EXCEPT !.plan = Tail(@)] ELSE NoRequest
    /\ UNCHANGED <<widget, mirrored, requests>>

ActionsNext ==
    \/ \E w \in Widgets : Become(w)
    \/ Mirror
    \/ \E action \in Kinds : Ask(action)
    \/ \E i \in DOMAIN asked.plan : AcceptCall(asked.plan[i])
    \/ DeclineCall

-----------------------------------------------------------------------------
(* Properties.                                                             *)

(* What AT-SPI advertises for a state the object reports, whether or not   *)
(* there is an interface to bring it about; and what the macOS source      *)
(* advertises for a menu it may not be able to dismiss.                    *)
OnlySometimes(w) ==
    IF w.platform = "atspi"
    THEN When("Action" \notin w.interfaces, {"Expand", "Collapse"})
         \cup When(ValueStep(w, 1) = <<>>, {"Increment", "Decrement"})
    ELSE {"Collapse"}

\* A call by number, and whether the action of that number has a name asked for.
Bears(call, kind, named) ==
    /\ call[1] = kind
    /\ named <=> call[2] \in DOMAIN widget.names /\ widget.names[call[2]] # "other"

\* A request for what the client was told the object does finds a way to try
\* when the object is still what it was; an action that bears the name of what
\* was asked is tried before one that does not, and none is tried twice; and a
\* step never leaves the range, nor turns back within it.
RequestsPlanned ==
    asked # NoRequest =>
        LET plan == asked.plan
            up   == asked.action = "Increment"
            ranged == widget.low # NoValue /\ widget.high # NoValue /\ widget.low <= widget.high
        IN  /\ asked.held => plan # <<>> \/ asked.action \in OnlySometimes(widget)
            /\ \A i, j \in DOMAIN plan : i # j => plan[i] # plan[j]
            /\ widget.platform = "atspi" /\ asked.action \in {"Click", "Expand", "Collapse"} =>
                  \A i, j \in DOMAIN plan :
                      Bears(plan[j], "DoAction", TRUE) /\ Bears(plan[i], "DoAction", FALSE) => j < i
            /\ widget.platform = "atspi" /\ asked.action \in {"Increment", "Decrement"} /\ ranged =>
                  \A i \in DOMAIN plan :
                      /\ plan[i][2] \in widget.low..widget.high
                      /\ asked.before \in widget.low..widget.high =>
                            IF up THEN plan[i][2] >= asked.before ELSE plan[i][2] <= asked.before

(* SYNTHETIC_STEP_FRACTION, drive.rs:83: "The fraction of a slider's range *)
(* one step moves when the element offers no increment action of its own." *)
StepIsAFraction ==
    \A i \in DOMAIN asked.plan :
        widget.platform = "ax" /\ asked.action = "Increment"
          /\ asked.plan[i][1] = "SetNumberValue" =>
            asked.plan[i][2] - asked.before = (widget.high - widget.low) \div 100
=============================================================================
