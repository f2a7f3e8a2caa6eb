------------------------------ MODULE Mapping ------------------------------
(***************************************************************************)
(* What the node of one object says, and when it is read again (mapping.rs,*)
(* mirror.rs and invalidate.rs of the AT-SPI source; node.rs, role.rs and  *)
(* observe.rs of the macOS one).  An object is read in several calls, each *)
(* gated by what the ones before it brought, while the application goes    *)
(* on; a walk builds its node with its children and relations, a refresh   *)
(* rebuilds it in the shape the walk gave it and sends it if it differs    *)
(* from what was sent last.                                                *)
(*                                                                         *)
(* A node is the set of its properties.  The thing has one possible child, *)
(* Other, which may also be what its relations point at and what it takes  *)
(* its name from.  Text is left to Text, and every call succeeds.          *)
(***************************************************************************)
EXTENDS Naturals, Sequences, FiniteSets, SequencesExt, FiniteSetsExt

CONSTANTS
    Things,     \* the objects a behaviour may start from
    Becomes,    \* <<platform, input, value>>: what an input of an object may become
    Other,      \* the thing's child
    NameSearchDepth,    \* NAME_SEARCH_DEPTH
    Flipped,    \* the AT-SPI states that change
    MaxChanges  \* bound: changes of the application

VARIABLES
    thing,      \* the application's object
    signals,    \* notifications not yet handled
    puts,       \* what is put off: "refresh", "walk"
    look,       \* the read under way: what for, the calls left, and what they brought
    known,      \* paths with an id (NodeIdMap): never taken back
    shape,      \* the children last emitted
    cached,     \* the node last emitted, as the source keeps it
    node,       \* the node the client holds
    changes

mappingVars == <<thing, signals, puts, look, known, shape, cached, node, changes>>

Fact(holds, property, value) == IF holds THEN {<<property, value>>} ELSE {}
Three(applies, on) == IF ~applies THEN "none" ELSE IF on THEN "on" ELSE "off"

-----------------------------------------------------------------------------
(* AT-SPI: roles.  Those that nothing below tells apart are represented by *)
(* a few.                                                                  *)
IsClickableRole ==
    {"Button", "ToggleButton", "CheckBox", "CheckMenuItem", "RadioButton", "RadioMenuItem",
     "MenuItem", "Menu", "PageTab", "Link", "ListItem", "TreeItem"}
IsToggleableRole == {"CheckBox", "CheckMenuItem", "RadioButton", "RadioMenuItem", "ToggleButton"}
RoleReadsValue == {"Slider", "SpinButton", "ProgressBar", "LevelBar", "ScrollBar", "Dial"}
RoleReadsAttributes ==
    {"Text", "PasswordText", "Entry", "Editbar", "Terminal", "Heading", "ListItem", "TreeItem",
     "RadioButton", "PageTab", "TableCell"}
RoleReadsRelations ==
    {"Panel", "Grouping", "ScrollPane", "PageTab", "Button", "ToggleButton", "CheckBox",
     "RadioButton", "ComboBox", "SpinButton", "Slider", "ScrollBar", "Text", "Entry",
     "PasswordText", "Editbar"}

\* Several roles become one, and those unknown a container no client shows.
MapRole(role) ==
    CASE role \in {"Button", "ToggleButton", "PushButtonMenu"} -> "Button"
      [] role \in {"Label", "Static"} -> "Label"
      [] role \in {"Panel", "Filler", "Grouping", "Unknown"} -> "GenericContainer"
      [] role \in {"Entry", "Editbar"} -> "TextInput"
      [] role \in {"Slider", "Dial"} -> "Slider"
      [] OTHER -> role

RefineRole(base, read) == IF read.role = "Grouping" /\ read.name # "" THEN "Group" ELSE base

\* Only the forward direction of a pair; a popup is kept and sets nothing.
MapRelation(kinds) == kinds \cap {"LabelledBy", "ControllerFor", "DescribedBy", "Details",
                                  "ErrorMessage", "PopupFor"}

-----------------------------------------------------------------------------
(* AT-SPI: states.                                                         *)
Forwarded == {"ReadOnly", "Required", "InvalidEntry", "Modal", "Multiselectable", "Busy", "HasPopup"}

Toggled(states) ==
    IF "Indeterminate" \in states THEN "mixed"
    ELSE Three(states \cap {"Checked", "Pressed", "Checkable"} # {},
               states \cap {"Checked", "Pressed"} # {})

NodeStates(states) ==
    [focusable |-> "Focusable" \in states,
     expanded  |-> Three(states \cap {"Expandable", "Expanded", "Collapsed"} # {}, "Expanded" \in states),
     selected  |-> Three(states \cap {"Selectable", "Selected"} # {}, "Selected" \in states),
     toggled   |-> Toggled(states),
     sensitive |-> states \cap {"Sensitive", "Enabled"} # {},
     flags     |-> states \cap Forwarded,
     orientation |-> IF Cardinality(states \cap {"Horizontal", "Vertical"}) = 1
                     THEN states \cap {"Horizontal", "Vertical"} ELSE {}]

\* What is re-read for.
StateIsMirroredFewer(state) ==
    state \in Forwarded \cup
        {"Focusable", "Focused", "Expandable", "Expanded", "Collapsed", "Selectable", "Selected",
         "Sensitive", "Enabled", "Horizontal", "Vertical"}
StateIsMirrored(state) ==
    state \in Forwarded \cup
        {"Focusable", "Focused", "Expandable", "Expanded", "Collapsed", "Selectable", "Selected",
         "Checkable", "Checked", "Pressed", "Indeterminate", "Sensitive", "Enabled",
         "Horizontal", "Vertical"}
PropertyIsMirrored(property) ==
    property \in {"accessible-name", "accessible-description", "accessible-role", "accessible-value"}

IsActionable(read) == "Action" \in read.interfaces
IsControl(read) ==
    NodeStates(read.states).focusable \/ read.role \in IsClickableRole \/ IsActionable(read)

Offered(read) ==
    LET s == NodeStates(read.states)
    IN  Fact(IsActionable(read) /\ (read.role \in IsClickableRole \/ s.toggled # "none"), "action", "Click")
        \cup Fact(s.focusable, "action", "Focus")
        \cup {<<"action", a>> : a \in IF s.expanded = "none" THEN {} ELSE {"Expand", "Collapse"}}
        \cup {<<"action", a>> : a \in IF read.value = "none" THEN {} ELSE {"Increment", "Decrement"}}
        \cup Fact(read.value # "none" \/ "EditableText" \in read.interfaces, "action", "SetValue")

\* A value that is not finite says that there is one and no number.
AtspiNode(read) ==
    LET s    == NodeStates(read.states)
        role == RefineRole(MapRole(read.role), read)
    IN  {<<"role", role>>} \cup Offered(read)
        \cup Fact(read.name # "", IF role = "Label" THEN "value" ELSE "label", read.name)
        \cup Fact(read.description \notin {"", read.name}, "description", read.description)
        \cup Fact(s.toggled # "none" \/ read.role \in IsToggleableRole, "toggled",
                  IF s.toggled = "none" THEN "off" ELSE s.toggled)
        \cup Fact(s.expanded # "none", "expanded", s.expanded)
        \cup Fact(s.selected # "none", "selected", s.selected)
        \cup Fact(~s.sensitive /\ IsControl(read), "disabled", "on")
        \cup {<<flag, "on">> : flag \in s.flags}
        \cup {<<"orientation", o>> : o \in s.orientation}
        \cup Fact(read.bounds \notin {"none", "empty"}, "bounds", read.bounds)
        \cup Fact(read.value \notin {"none", "infinite"}, "numeric value", read.value)
        \cup Fact(read.table # "none", "rows and columns", read.table)
        \cup Fact(read.cell # "none", "row and column", read.cell)
        \cup Fact(read.attributes # "none", "level", read.attributes)

\* A target that was never walked is left out, one that has gone is not.
ApplyRelations(read, ids) ==
    {<<kind, target>> : kind \in MapRelation(read.relations) \ {"PopupFor"},
                        target \in {Other} \cap ids}

\* The calls of read_node, in the order the application answers them.
AtspiCalls == <<"role", "identity", "states", "children", "bounds", "value", "table", "cell",
                "attributes", "relations">>
AtspiWants(call, read) ==
    CASE call = "bounds"     -> "Component" \in read.interfaces
      [] call = "value"      -> "Value" \in read.interfaces /\ read.role \in RoleReadsValue
      [] call = "table"      -> "Table" \in read.interfaces
      [] call = "cell"       -> "TableCell" \in read.interfaces
      [] call = "attributes" -> read.role \in RoleReadsAttributes
      [] call = "relations"  -> read.role \in RoleReadsRelations
      [] OTHER -> TRUE

-----------------------------------------------------------------------------
(* macOS.                                                                  *)
FromSubrole(subrole) ==
    CASE subrole = "AXSearchField" -> "SearchInput"
      [] subrole = "AXSwitch" -> "Switch"
      [] subrole = "AXOutlineRow" -> "TreeItem"
      [] subrole = "AXDecorative" -> "GenericContainer"
      [] OTHER -> "none"
FromRole(role) ==
    CASE role = "AXButton" -> "Button"
      [] role = "AXCheckBox" -> "CheckBox"
      [] role = "AXStaticText" -> "Label"
      [] role = "AXTextField" -> "TextInput"
      [] role = "AXSlider" -> "Slider"
      [] role = "AXRow" -> "Row"
      [] OTHER -> "GenericContainer"
MapAxRole(read) ==
    IF FromSubrole(read.subrole) # "none" THEN FromSubrole(read.subrole) ELSE FromRole(read.role)

Name(read) ==
    IF read.title # "" THEN read.title
    ELSE IF read.description # "" THEN read.description ELSE read.contents
AxRole(read) ==
    IF MapAxRole(read) = "GenericContainer" /\ Name(read) # "" THEN "Group" ELSE MapAxRole(read)

TakesNameFromContents == {"TreeItem", "ListItem", "ListBoxOption", "MenuItem", "Row", "Cell", "Tab",
                          "Button", "Link"}

\* AXValue is what the role says it is.
ValueOf(read, role) ==
    CASE role \in {"TextInput", "SearchInput"} -> Fact(read.value # "none", "value", read.value)
      [] role \in {"CheckBox", "RadioButton", "Switch"} ->
            Fact(read.value # "none", "toggled",
                 CASE read.value = "0" -> "off" [] read.value = "2" -> "mixed" [] OTHER -> "on")
      [] role \in {"Slider", "SpinButton", "ProgressIndicator", "Meter", "ScrollBar"} ->
            Fact(read.value # "none", "numeric value", read.value)
      [] OTHER -> {}

Declared(actions) ==
    Fact(actions \cap {"AXPress", "AXPick", "AXConfirm"} # {}, "action", "Click")
    \cup {<<"action", a>> : a \in IF "AXShowMenu" \in actions THEN {"Expand", "Collapse"} ELSE {}}
    \cup Fact("AXIncrement" \in actions, "action", "Increment")
    \cup Fact("AXDecrement" \in actions, "action", "Decrement")

AxNode(read) ==
    LET role == AxRole(read)
        text == IF Name(read) = "" /\ role = "Label" /\ read.value # "none"
                THEN read.value ELSE Name(read)
    IN  {<<"role", role>>} \cup ValueOf(read, role) \cup Declared(read.actions)
        \cup Fact(text # "", IF role = "Label" THEN "value" ELSE "label", text)
        \cup Fact(read.description \notin {"", Name(read)}, "description", read.description)
        \cup Fact(read.selected # "none", "selected", read.selected)
        \cup Fact(read.enabled = "off", "disabled", "on")
        \cup Fact(read.focusable, "action", "Focus")
        \cup Fact(read.settable, "action", "SetValue")
        \cup Fact(read.frame \notin {"none", "empty"}, "bounds", read.frame)

\* The calls of read: one batch, and what a batch cannot take.
AxCalls == <<"batch", "focusable", "settable", "actions", "children", "contents">>
AxWants(call, read) ==
    call = "contents" =>
        /\ read.title = "" /\ read.description = "" /\ read.children # {}
        /\ MapAxRole(read) \in TakesNameFromContents

\* The first text found inside, level by level.
TextWithin(levels) ==
    LET found == {d \in DOMAIN levels : d <= NameSearchDepth /\ levels[d] # ""}
    IN  IF found = {} THEN "" ELSE levels[Min(found)]

Route(notification) ==
    CASE notification \in {"AXUIElementDestroyed", "AXCreated", "AXLayoutChanged", "AXRowCountChanged",
                           "AXRowExpanded", "AXRowCollapsed", "AXMenuOpened", "AXMenuClosed"} -> "walk"
      [] notification \in {"AXSelectedTextChanged", "AXValueChanged", "AXTitleChanged",
                           "AXSelectedChildrenChanged", "AXSelectedRowsChanged",
                           "AXSelectedCellsChanged", "AXElementBusyChanged"} -> "refresh"
      [] OTHER -> "none"

-----------------------------------------------------------------------------
(* One read, whatever the platform.                                        *)
OnAtspi == thing.platform = "atspi"
Calls == IF OnAtspi THEN AtspiCalls ELSE AxCalls
Wants(call, read) == IF OnAtspi THEN AtspiWants(call, read) ELSE AxWants(call, read)

Brings(call) ==
    CASE call = "identity" -> {"name", "description"}
      [] call = "batch" -> {"role", "subrole", "title", "description", "value", "frame", "enabled",
                            "selected"}
      [] OTHER -> {call}

\* What stands for a call that was not made.
AtspiUnread ==
    [platform |-> "atspi", role |-> "Unknown", name |-> "", description |-> "", states |-> {},
     interfaces |-> thing.interfaces, children |-> {}, bounds |-> "none", value |-> "none",
     table |-> "none", cell |-> "none", attributes |-> "none", relations |-> {}]
AxUnread ==
    [platform |-> "ax", role |-> "", subrole |-> "none", title |-> "", description |-> "",
     value |-> "none", frame |-> "none", enabled |-> "none", selected |-> "none",
     focusable |-> FALSE, settable |-> FALSE, actions |-> {}, children |-> {}, contents |-> ""]
Unread == IF OnAtspi THEN AtspiUnread ELSE AxUnread

\* What an object answers.  The text inside it is found through the child.
Answer(object, input) ==
    IF input # "contents" THEN object[input]
    ELSE IF object.children = {} THEN "" ELSE TextWithin(object.contents)

FromFirstWanted(calls, read) ==
    LET wanted == {i \in DOMAIN calls : Wants(calls[i], read)}
    IN  IF wanted = {} THEN <<>> ELSE SubSeq(calls, Min(wanted), Len(calls))

NotLooking(read) == [for |-> "none", left |-> <<>>, got |-> read]

Properties(read, ids, kids) ==
    (IF OnAtspi THEN AtspiNode(read) \cup ApplyRelations(read, ids) ELSE AxNode(read))
    \cup {<<"child", kid>> : kid \in kids}

\* What the reads of an object that stands still bring.
Gated(object) ==
    [input \in DOMAIN object |->
        IF \E i \in DOMAIN Calls : input \in Brings(Calls[i]) /\ ~Wants(Calls[i], object)
        THEN Unread[input] ELSE Answer(object, input)]

MappingInit ==
    /\ thing \in Things
    /\ signals = <<>> /\ puts = {} /\ changes = 0
    /\ look = NotLooking(Gated(thing))
    /\ known = thing.children /\ shape = thing.children
    /\ cached = Properties(look.got, known, shape) /\ node = cached

-----------------------------------------------------------------------------
(* The application.  What is not announced is found by the next read.      *)
Announces(input) ==
    IF OnAtspi
    THEN CASE input = "role" -> <<"accessible-role">>
           [] input = "name" -> <<"accessible-name">>
           [] input = "description" -> <<"accessible-description">>
           [] input = "value" -> <<"accessible-value">>
           [] input = "children" -> <<"children-changed">>
           [] OTHER -> <<>>
    ELSE CASE input = "title" -> <<"AXTitleChanged">>
           [] input = "value" -> <<"AXValueChanged">>
           [] input = "children" -> <<"AXLayoutChanged">>
           [] OTHER -> <<>>

Changes(input, value, announced) ==
    /\ changes < MaxChanges /\ changes' = changes + 1
    /\ thing' = [thing EXCEPT ![input] = value]
    /\ signals' = signals \o announced
    /\ UNCHANGED <<puts, look, known, shape, cached, node>>

TurnInto(input, value) ==
    /\ <<thing.platform, input, value>> \in Becomes /\ value # thing[input]
    /\ Changes(input, value, Announces(input))

Flip(state) ==
    /\ OnAtspi
    /\ Changes("states", SymDiff(thing.states, {state}), <<state>>)

(* The source.                                                             *)
\* A change of the focused state is a matter of the focus alone.
RouteOf(signal) ==
    IF ~OnAtspi THEN Route(signal)
    ELSE IF signal = "children-changed" THEN "walk"
    ELSE IF signal # "Focused" /\ (StateIsMirrored(signal) \/ PropertyIsMirrored(signal))
         THEN "refresh" ELSE "none"

Look(for) == look' = [for |-> for, left |-> Calls, got |-> Unread]

\* The limiter lets a refresh through or puts it off.
TakeSignal ==
    /\ look.for = "none" /\ signals # <<>>
    /\ signals' = Tail(signals)
    /\ \/ RouteOf(Head(signals)) = "none" /\ UNCHANGED <<look, puts>>
       \/ /\ RouteOf(Head(signals)) # "none"
          /\ puts' = puts \cup {RouteOf(Head(signals))} /\ UNCHANGED look
       \/ /\ RouteOf(Head(signals)) = "refresh" /\ "refresh" \notin puts
          /\ Look("refresh") /\ UNCHANGED puts
    /\ UNCHANGED <<thing, known, shape, cached, node, changes>>

TakePutOff(what) ==
    /\ look.for = "none"
    /\ puts' = puts \ {what}
    /\ Look(what)
    /\ UNCHANGED <<thing, signals, known, shape, cached, node, changes>>

ReadCall ==
    /\ look.left # <<>>
    /\ LET got == [input \in DOMAIN look.got |->
                      IF input \in Brings(Head(look.left)) THEN Answer(thing, input) ELSE look.got[input]]
       IN  look' = [look EXCEPT !.got = got, !.left = FromFirstWanted(Tail(@), got)]
    /\ UNCHANGED <<thing, signals, puts, known, shape, cached, node, changes>>

Looked(for) == look.for = for /\ look.left = <<>> /\ look' = NotLooking(look.got)

Refresh ==
    /\ Looked("refresh")
    /\ LET new == Properties(look.got, known, shape)
       IN  /\ cached' = new
           /\ node' = IF new = cached THEN node ELSE new
    /\ UNCHANGED <<thing, signals, puts, known, shape, changes>>

\* Everything walked has an id before the first node is built.  On macOS a
\* walk is sent as what differs as well.
Rewalk ==
    /\ Looked("walk")
    /\ known' = known \cup look.got.children
    /\ shape' = look.got.children
    /\ LET new == Properties(look.got, known', shape')
       IN  /\ cached' = new
           /\ node' = IF OnAtspi \/ new # cached THEN new ELSE node
    /\ UNCHANGED <<thing, signals, puts, changes>>

MappingNext ==
    \/ \E entry \in Becomes : entry[1] = thing.platform /\ TurnInto(entry[2], entry[3])
    \/ \E state \in Flipped : Flip(state)
    \/ TakeSignal \/ ReadCall \/ Refresh \/ Rewalk
    \/ \E what \in puts : TakePutOff(what)

-----------------------------------------------------------------------------
(* Properties.                                                             *)

Seen ==
    [input \in DOMAIN thing |->
        IF input = "states" \/ Announces(input) # <<>> THEN Gated(thing)[input] ELSE look.got[input]]

(* With nothing left to handle, the client's node is the one the object    *)
(* as it is now is mapped to: whatever changed between two of the calls    *)
(* that read it, whichever signals were dropped as not mirrored, and       *)
(* however often it was found equal to what was sent before.  What the     *)
(* application does not announce is as the last read found it.             *)
NodeMirrored ==
    signals = <<>> /\ puts = {} /\ look.for = "none" =>
        node = Properties(Seen, known, thing.children)
=============================================================================
