----------------------------- MODULE MCSources -----------------------------
(***************************************************************************)
(* The parts of the sources, each on its own: the AT-SPI bridge, the macOS *)
(* worker, the two schedules both of them keep, and how they find the      *)
(* windows; and of an object, its text, its actions and its node.  The     *)
(* window of the objects of a bridge is there from the start, with none of *)
(* them or with both, or comes later, with both.                           *)
(***************************************************************************)
EXTENDS Atspi, Ax, Schedule, Text, Mapping, Discovery, MCActions, TLC

CONSTANTS r1, r2, a, b, inner, p1, p2, agent, f1, f2, f3, f4

VARIABLE part    \* which of them this behaviour is of

MCHome == [x \in {a, b} |-> r1]
MCApp == [r \in {r1, r2} |-> 1]
MCTable == {<<a, b>>}
MCProgramOf == (f1 :> p1) @@ (f2 :> p1) @@ (f3 :> p2) @@ (f4 :> agent)
MCListedBefore == {<<p1, p2>>, <<p1, agent>>, <<p2, agent>>, <<f1, f2>>}
MCKeys == {<<1, a>>, <<2, a>>}
MCTexts == {<<>>, <<"word">>, <<"word", "newline">>, <<"wide", "newline", "word">>,
            <<"space", "word", "word">>, <<"word", "space", "wide", "word", "word">>}

-----------------------------------------------------------------------------
(* Objects to map: on AT-SPI a toggle, a grouping labelled by what is in   *)
(* it, a slider and a table's cell that is a list item; on macOS a group   *)
(* and a row with a text inside, a label, a check box, a slider, a field.  *)
Plain == [platform |-> "atspi", role |-> "Panel", name |-> "", description |-> "",
          states |-> {"Sensitive"}, interfaces |-> {}, children |-> {}, bounds |-> "none",
          value |-> "none", table |-> "none", cell |-> "none", attributes |-> "none",
          relations |-> {}]
AxPlain == [platform |-> "ax", role |-> "AXGroup", subrole |-> "none", title |-> "",
            description |-> "", value |-> "none", frame |-> "none", enabled |-> "none",
            selected |-> "none", focusable |-> FALSE, settable |-> FALSE, actions |-> {},
            children |-> {}, contents |-> <<"", "inside">>]
MCThings ==
    {[Plain EXCEPT !.role = "ToggleButton", !.name = "one", !.interfaces = {"Action"}],
     [Plain EXCEPT !.role = "Grouping", !.description = "one", !.relations = {"LabelledBy", "LabelFor", "PopupFor"}],
     [Plain EXCEPT !.role = "Slider", !.value = "low", !.interfaces = {"Value", "Component"}],
     [Plain EXCEPT !.role = "ListItem", !.attributes = "level", !.children = {inner},
                   !.interfaces = {"TableCell", "Table", "EditableText"}],
     [AxPlain EXCEPT !.children = {inner}],
     [AxPlain EXCEPT !.role = "AXRow", !.children = {inner}],
     [AxPlain EXCEPT !.role = "AXStaticText", !.value = "0"],
     [AxPlain EXCEPT !.role = "AXCheckBox", !.value = "0", !.actions = {"AXPress", "AXShowMenu"}],
     [AxPlain EXCEPT !.role = "AXSlider", !.value = "0", !.settable = TRUE,
                     !.actions = {"AXIncrement", "AXDecrement"}],
     [AxPlain EXCEPT !.role = "AXTextField", !.subrole = "AXSearchField", !.focusable = TRUE]}
MCBecomes ==
    UNION {{<<"atspi", i, v>> : v \in vs} : <<i, vs>> \in
        {<<"role", {"Label", "Slider", "Grouping", "CheckBox"}>>, <<"name", {"", "one"}>>,
         <<"description", {"one", "two"}>>, <<"children", {{}, {inner}}>>,
         <<"value", {"low", "high", "infinite"}>>, <<"bounds", {"box", "empty"}>>,
         <<"table", {"2x2"}>>, <<"cell", {"1,1"}>>, <<"attributes", {"level"}>>,
         <<"relations", {{}, {"LabelledBy"}}>>}}
    \cup UNION {{<<"ax", i, v>> : v \in vs} : <<i, vs>> \in
        {<<"title", {"", "one"}>>, <<"description", {"one"}>>, <<"value", {"0", "2"}>>,
         <<"children", {{}, {inner}}>>, <<"frame", {"box"}>>, <<"enabled", {"off"}>>,
         <<"selected", {"on"}>>, <<"contents", {<<"", "", "too deep">>, <<"first", "inside">>}>>}}

-----------------------------------------------------------------------------
AtspiStill == /\ windows = <<>> /\ nextId = 0 /\ tracker = 0 /\ pending = {} /\ due = {}
              /\ op = Idle /\ unheard = {} /\ performed = 0
AxStill == /\ axWindows = <<>> /\ axNextId = 1 /\ axTracker = 0 /\ axPending = {} /\ axDue = {}
           /\ axOp = AxIdle /\ axPerformed = 0

ToolkitStill ==
    /\ showing = {} /\ parent = [x \in Objects |-> None] /\ listed = {}
    /\ val = [x \in All |-> 0] /\ lines = [x \in TextObjects |-> 1]
    /\ focused = None /\ active = None /\ left = {} /\ also = {} /\ steps = 0 /\ queue = <<>>

TextStill ==
    /\ platform = "ax" /\ doc = [text |-> <<>>, anchor |-> 0, caret |-> 0]
    /\ news = <<>> /\ reading = NotReading /\ typed = 0
    /\ sentText = <<>> /\ clientText = <<>>
ActionsStill == widget = AxBare /\ mirrored = AxBare /\ asked = NoRequest /\ requests = 0

Desktops ==
    /\ ToolkitInit
    /\ \/ showing = Roots /\ listed \in {{}, Objects}
       \/ showing = Roots \ {r1} /\ listed = Objects
SourceStill == AtspiStill /\ AxStill
MappingStill ==
    /\ thing = Plain /\ signals = <<>> /\ puts = {} /\ changes = 0 /\ look = NotLooking(Plain)
    /\ known = {} /\ shape = {} /\ cached = {} /\ node = {}
DiscoveryStill ==
    /\ system = "ax" /\ process = [p \in Programs |-> "coming"] /\ owning = {}
    /\ open = {} /\ onScreen = {} /\ loaded = {} /\ front = NoFrame
    /\ scan = Resting /\ appIds = [p \in Programs |-> "unswept"] /\ prompted = {} /\ watched = {}
    /\ tracked = {} /\ focusOn = 0 /\ nextWindow = 1 /\ misread = {}
    /\ troubles = 0 /\ undisturbed = FALSE
MeansStill == TextStill /\ ActionsStill /\ MappingStill
AllStill == SourceStill /\ ToolkitStill /\ ClientInit

Init ==
    \/ /\ part = "atspi" /\ Desktops /\ also = {} /\ AtspiInit
       /\ AxStill /\ ScheduleInit /\ MeansStill /\ DiscoveryStill
    \/ /\ part = "ax" /\ Desktops /\ also = AlsoListed /\ AxInit
       /\ AtspiStill /\ ScheduleInit /\ MeansStill /\ DiscoveryStill
    \/ /\ part \in {"schedule", "discovery", "text", "actions", "mapping"}
       /\ AllStill /\ ScheduleInit
       /\ IF part = "discovery" THEN DiscoveryInit ELSE DiscoveryStill
       /\ IF part = "text" THEN TextInit ELSE TextStill
       /\ IF part = "actions" THEN ActionsInit ELSE ActionsStill
       /\ IF part = "mapping" THEN MappingInit ELSE MappingStill

\* Bound: changes of the applications and actions of the client, together.
WithinSteps == steps' + performed' + axPerformed' <= MaxSteps

BridgeInit == part = "atspi" /\ Init
WorkerInit == part = "ax" /\ Init

Next ==
    /\ UNCHANGED part
    /\ \/ /\ part = "atspi" /\ AtspiNext
          /\ UNCHANGED <<axVars, scheduleVars, textVars, actionsVars, mappingVars, discoveryVars>>
       \/ /\ part = "ax" /\ AxNext
          /\ UNCHANGED <<atspiVars, scheduleVars, textVars, actionsVars, mappingVars, discoveryVars>>
       \/ /\ part \notin {"atspi", "ax"} /\ UNCHANGED <<toolkitVars, client, atspiVars, axVars>>
          /\ \/ /\ part = "schedule" /\ ScheduleNext
                /\ UNCHANGED <<textVars, actionsVars, mappingVars, discoveryVars>>
             \/ /\ part = "discovery" /\ DiscoveryNext
                /\ UNCHANGED <<scheduleVars, textVars, actionsVars, mappingVars>>
             \/ /\ part = "text" /\ TextNext
                /\ UNCHANGED <<scheduleVars, actionsVars, mappingVars, discoveryVars>>
             \/ /\ part = "actions" /\ ActionsNext
                /\ UNCHANGED <<scheduleVars, textVars, mappingVars, discoveryVars>>
             \/ /\ part = "mapping" /\ MappingNext
                /\ UNCHANGED <<scheduleVars, textVars, actionsVars, discoveryVars>>
    /\ WithinSteps

-----------------------------------------------------------------------------
(* The properties of each part, of the behaviours that are of it.          *)

\* AtspiCaughtUp of Atspi: with nothing left to handle the client is current.
BridgeCaughtUp == part = "atspi" => AtspiCaughtUp

\* AxHeld of Ax: the worker's cache and focus are the consumer's.
WorkerHeld == part = "ax" => AxHeld

\* AxCaughtUp of Ax: with nothing left to route the consumer is current.
WorkerCaughtUp == part = "ax" => AxCaughtUp

\* NodeMirrored of Mapping: with nothing left to read the client's node is what
\* the object is mapped to.
NodeIsMirrored == part = "mapping" => NodeMirrored

\* TextMirrored of Text: the client's runs are the source's, and in the end the
\* application's.
TextIsMirrored == part = "text" => TextMirrored
=============================================================================
