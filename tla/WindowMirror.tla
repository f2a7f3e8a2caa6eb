---------------------------- MODULE WindowMirror ----------------------------
(***************************************************************************)
(* What a provider-consumer connection promises about the set of windows,  *)
(* with no sessions, frames or handshakes in it: the consumer's set goes   *)
(* through the views the provider's set went through, one window at a time *)
(* and in the same order, some steps behind, and none is skipped while the *)
(* connection lasts.  When it ends, what was published may be lost, but    *)
(* the consumer still moves only along what had been sent.                 *)
(***************************************************************************)
EXTENDS Naturals, Sequences

CONSTANT Windows

VARIABLES
    published,     \* the provider's set
    pending,       \* views sent and not yet shown, oldest first
    shown,         \* the consumer's set
    live           \* the connection lasts

mirrorVars == <<published, pending, shown, live>>

Newest == IF pending = <<>> THEN shown ELSE pending[Len(pending)]

Init ==
    /\ published = {} /\ pending = <<>> /\ shown = {}
    /\ live = TRUE

\* b is a with at most one window opened or closed.
Adjacent(a, b) == b = a \/ \E w \in Windows : b \in {a \cup {w}, a \ {w}}

Extended ==
    /\ Len(pending') >= Len(pending)
    /\ \A i \in 1..Len(pending) : pending'[i] = pending[i]
    /\ \A i \in Len(pending)+1..Len(pending') :
          Adjacent(IF i = 1 THEN shown ELSE pending'[i-1], pending'[i])

Publish ==
    /\ live /\ live' /\ Extended
    /\ shown' = shown
    /\ published' = Newest'

Show ==
    /\ pending # <<>>
    /\ shown' = Head(pending) /\ pending' = Tail(pending)
    /\ UNCHANGED <<published, live>>

End ==
    /\ live /\ ~live' /\ Extended
    /\ shown' = shown
    /\ published' \subseteq Windows

MirrorNext == Publish \/ Show \/ End

Spec == Init /\ [][MirrorNext]_mirrorVars
=============================================================================
