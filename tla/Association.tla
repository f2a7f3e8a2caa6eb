---------------------------- MODULE Association ----------------------------
(***************************************************************************)
(* Which remote window a RAIL_WINDOW shows: association.rs of the plugin.  *)
(* Titles are already without WSLg's decorations.  A remote window is a    *)
(* record [title, app, native], what the daemon announced of it; a RAIL    *)
(* window a record [title, app, server], read off its HWND.                *)
(***************************************************************************)
EXTENDS Naturals, FiniteSets

CONSTANT None   \* an absent app id, native window id or WslgServerWindowId

Sole(set) == IF Cardinality(set) = 1 THEN CHOOSE x \in set : TRUE ELSE None

ByTitle(rail, info, candidates) == {w \in candidates : info[w].title = rail.title}
Claiming(rail, info, ws)  == {w \in ws : info[w].native = rail.server}
Unclaimed(info, ws)       == {w \in ws : info[w].native = None}
ByApp(rail, info, ws)     == {w \in ws : rail.app # None /\ info[w].app = rail.app}

(* The Weston window id decides among several of one title, as the only    *)
(* claim or, when nobody claims it, for the only window without a claim.   *)
ByWeston(rail, info, ws) ==
    IF rail.server = None THEN None
    ELSE IF Claiming(rail, info, ws) # {} THEN Sole(Claiming(rail, info, ws))
    ELSE Sole(Unclaimed(info, ws))

(* match_window: the window among `candidates`, or None when nothing       *)
(* matches or the match stays ambiguous.                                   *)
MatchWindow(rail, info, candidates) ==
    LET several == ByTitle(rail, info, candidates) IN
    IF Cardinality(several) <= 1 THEN Sole(several)
    ELSE IF ByWeston(rail, info, several) # None THEN ByWeston(rail, info, several)
    ELSE Sole(ByApp(rail, info, several))
=============================================================================
