------------------------------- MODULE Plugin -------------------------------
(***************************************************************************)
(* The plugin DLL: installed and loaded by a client (Loading), which is    *)
(* msrdc or mstsc, one DLL for two arrangements.  With a VM id on the      *)
(* command line Connected starts a WSL session (Rail); without one it      *)
(* starts nothing and waits for the remote machine to open the channel     *)
(* (Dvc).                                                                  *)
(***************************************************************************)
EXTENDS Rail, Dvc, Loading

VARIABLE arrangement

vars == <<arrangement, railVars, dvcVars, loadingVars>>

Unloaded ==
    /\ file = NoFile /\ temp = NoFile /\ keys = {} /\ installer = NotInstalling
    /\ returned = [op |-> "none", kept |-> FALSE] /\ installs = 0
    /\ process = NoProcess /\ usersLines = <<>>

(* parse_vm_id decides between the two, when the client is started.        *)
Init ==
    /\ arrangement \in {"loading", "wsl", "remote"} /\ RailInit /\ DvcInit
    /\ IF arrangement = "loading" THEN LoadingInit ELSE Unloaded

Next ==
    /\ UNCHANGED arrangement
    /\ \/ arrangement = "wsl" /\ RailNext /\ UNCHANGED <<dvcVars, loadingVars>>
       \/ arrangement = "remote" /\ DvcNext /\ UNCHANGED <<railVars, loadingVars>>
       \/ arrangement = "loading" /\ LoadingNext /\ UNCHANGED <<railVars, dvcVars>>

Spec == Init /\ [][Next]_vars /\ DvcFairness
=============================================================================
