------------------------------ MODULE MCPlugin ------------------------------
(* Two remote windows of one title, of which the log names one, and two    *)
(* RAIL windows; or two channels, one after the other.                     *)
EXTENDS Plugin, TLC

CONSTANTS w1, w2, h1, h2

MCInfo == (w1 :> [title |-> "Files", app |-> None, native |-> "n1"])
          @@ (w2 :> [title |-> "Files", app |-> None, native |-> None])
MCFrames == (h1 :> [title |-> "Files", app |-> None, server |-> "n1"])
            @@ (h2 :> [title |-> "Files", app |-> None, server |-> "n2"])
=============================================================================
