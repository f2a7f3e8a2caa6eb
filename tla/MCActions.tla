----------------------------- MODULE MCActions -----------------------------
(***************************************************************************)
(* Objects of both platforms: buttons, options, menus, sliders and fields, *)
(* each with the answers it may give.                                      *)
(***************************************************************************)
EXTENDS Actions

Bare == [platform |-> "atspi", role |-> "other", interfaces |-> {}, names |-> <<>>,
         settable |-> {}, chooses |-> FALSE, focusable |-> TRUE, expandable |-> FALSE,
         at |-> NoValue, low |-> NoValue, high |-> NoValue, step |-> NoValue]
AxBare == [Bare EXCEPT !.platform = "ax"]

MCWidgets ==
    {[Bare EXCEPT !.role = r, !.interfaces = {"Action"}, !.names = n, !.chooses = c, !.expandable = e] :
        r \in {"clickable", "option"}, c \in BOOLEAN, e \in BOOLEAN,
        n \in {<<>>, <<"other">>, <<"other", "press">>, <<"popup", "other", "click">>, <<"press", "press">>}}
    \cup {[Bare EXCEPT !.expandable = TRUE], [Bare EXCEPT !.interfaces = {"EditableText"}]}
    \cup {[Bare EXCEPT !.role = "range", !.interfaces = {"Value"}, !.at = v, !.low = l, !.high = h, !.step = s] :
        v \in {NoValue, 995, 1000, 1500}, l \in {0, 2000}, h \in {NoValue, 1000},
        s \in {NoValue, 10}}
    \cup {[AxBare EXCEPT !.role = "clickable", !.names = SetToSeq(n), !.settable = s] :
        s \in SUBSET {"focused"}, n \in SUBSET {"press", "confirm", "showmenu", "cancel"}}
    \cup {[AxBare EXCEPT !.role = r, !.names = SetToSeq(n), !.settable = s] :
        r \in {"option", "window"}, s \in SUBSET {"selected"}, n \in SUBSET {"press", "pick", "raise"}}
    \cup {[AxBare EXCEPT !.role = "range", !.names = n, !.settable = s,
                         !.at = v, !.low = 0, !.high = 10000] :
        n \in {<<>>, <<"increment">>, <<"increment", "decrement">>},
        s \in SUBSET {"value"}, v \in {NoValue, 500}}
=============================================================================
