------------------------------ MODULE Loading ------------------------------
(***************************************************************************)
(* How the plug-in comes to be loaded: regsvr32 runs register and          *)
(* unregister (register.rs), which write two registry keys and the flag of *)
(* .wslgconfig (wslgconfig.rs), any call of which may fail and at any      *)
(* point of which the process may die; and a client that reads one of the  *)
(* keys calls VirtualChannelGetInstance twice (lib.rs), which in WSLg's    *)
(* private slot instantiates the stock plug-in as well (chain_load.rs).    *)
(* A line of the file is what the editor takes it for; the spelling of     *)
(* sections, keys and line ends is left out.  Nobody else writes the file  *)
(* while an installer runs, and no client is there then: it reads the keys *)
(* when it starts, and after an installer that was killed at any point.    *)
(***************************************************************************)
EXTENDS Naturals, Sequences, FiniteSets, SequencesExt, FiniteSetsExt

CONSTANTS
    NoFile,
    MaxLines,       \* bound: lines of the file a user wrote
    MaxStock,       \* bound: plug-ins the stock DLL implements
    MaxInstalls     \* bound: runs of regsvr32

ASSUME LoadingAssumption == NoFile \notin Seq({"section", "header", "on", "off", "other"})

VARIABLES
    file,       \* .wslgconfig: its lines, or NoFile
    temp,       \* the temporary file beside it, or NoFile
    keys,       \* the registry keys that name the DLL
    installer,  \* the regsvr32 that runs: what it is to do, the step, the text to write
    returned,   \* what the last one returned, and whether it could remove the keys
    installs,
    process,    \* the client: its route, the stock plug-ins there are, what it has
    usersLines  \* history: the lines of the file that are not the flag

loadingVars == <<file, temp, keys, installer, returned, installs, process, usersLines>>

Lines == {"section", "header", "on", "off", "other"}
Flag == {"on", "off"}
AllKeys == {"WSLDVC_PRIVATE", "AccessKit"}

NotInstalling == [op |-> "none", at |-> "idle", text |-> <<>>]
NoProcess == [phase |-> "none", route |-> "none", stock |-> 0, probed |-> 0, slots |-> <<>>]

-----------------------------------------------------------------------------
(* The editor: set_flag and clear_flag.                                    *)

First(indices) == IF indices = {} THEN 0 ELSE Min(indices)
Header(text) == First({i \in DOMAIN text : text[i] = "section"})

\* Up to the next header, whichever it is.
SectionBodyOpen(text, header) == {i \in DOMAIN text : i > header}
SectionBody(text, header) ==
    {i \in DOMAIN text : i > header /\ \A j \in header + 1 .. i : text[j] \notin {"section", "header"}}

FlagLine(text) ==
    IF Header(text) = 0 THEN 0
    ELSE First({i \in SectionBody(text, Header(text)) : text[i] \in Flag})

SetFlag(text) ==
    IF Header(text) = 0 THEN text \o <<"section", "on">>
    ELSE IF FlagLine(text) = 0 THEN InsertAt(text, Header(text) + 1, "on")
    ELSE [text EXCEPT ![FlagLine(text)] = "on"]
ClearFlag(text) == IF FlagLine(text) = 0 THEN text ELSE RemoveAt(text, FlagLine(text))

TextOf(f) == IF f = NoFile THEN <<>> ELSE f

-----------------------------------------------------------------------------
(* The installer.                                                          *)

StartInstall(op) ==
    /\ installer.op = "none" /\ process.phase = "none" /\ installs < MaxInstalls
    /\ installs' = installs + 1
    /\ installer' = [op |-> op, at |-> "WSLDVC_PRIVATE", text |-> <<>>]
    /\ returned' = [op |-> "none", kept |-> FALSE]
    /\ UNCHANGED <<file, temp, keys, process, usersLines>>

Return(ok) ==
    /\ installer' = NotInstalling
    /\ returned' = [returned EXCEPT !.op = IF ok THEN installer.op ELSE "failed"]

\* Registering stops at a key it cannot write; unregistering goes on.
WriteKey(ok) ==
    LET key  == installer.at
        next == IF key = "WSLDVC_PRIVATE" THEN "AccessKit" ELSE "read"
    IN  /\ key \in AllKeys
        /\ keys' = IF ~ok THEN keys ELSE IF installer.op = "register" THEN keys \cup {key} ELSE keys \ {key}
        /\ IF ok \/ installer.op = "unregister"
           THEN installer' = [installer EXCEPT !.at = next]
                /\ returned' = [returned EXCEPT !.kept = @ \/ ~ok]
           ELSE Return(FALSE)
        /\ UNCHANGED <<file, temp, installs, process, usersLines>>

\* apply: what does not change is not written, and no file is left alone when
\* the flag is to go.
ReadConfig(ok) ==
    LET updated == IF installer.op = "register" THEN SetFlag(TextOf(file)) ELSE ClearFlag(TextOf(file))
        nothing == IF installer.op = "register" THEN updated = file
                   ELSE file = NoFile \/ updated = file
    IN  /\ installer.at = "read"
        /\ IF ~ok \/ nothing THEN Return(ok)
           ELSE installer' = [installer EXCEPT !.at = "write", !.text = updated] /\ UNCHANGED returned
        /\ UNCHANGED <<file, temp, keys, installs, process, usersLines>>

\* A write that fails leaves what part of it there is.
WriteTemp(ok) ==
    /\ installer.at = "write"
    /\ \E n \in 0 .. Len(installer.text) :
          (ok => n = Len(installer.text)) /\ temp' = SubSeq(installer.text, 1, n)
    /\ IF ok THEN installer' = [installer EXCEPT !.at = "rename"] /\ UNCHANGED returned
       ELSE Return(FALSE)
    /\ UNCHANGED <<file, keys, installs, process, usersLines>>

Rename(ok) ==
    /\ installer.at = "rename"
    /\ IF ok THEN file' = temp /\ temp' = NoFile ELSE UNCHANGED <<file, temp>>
    /\ Return(ok)
    /\ UNCHANGED <<keys, installs, process, usersLines>>

Killed ==
    /\ installer.op # "none"
    /\ IF installer.at = "write"
       THEN \E n \in 0 .. Len(installer.text) : temp' = SubSeq(installer.text, 1, n)
       ELSE UNCHANGED temp
    /\ Return(FALSE)
    /\ UNCHANGED <<file, keys, installs, process, usersLines>>

-----------------------------------------------------------------------------
(* The client that loads the plug-in.                                      *)

\* WSLg's client takes one plug-in from the private slot if the flag told it
\* to; mstsc, and WSLg's without the flag, load every add-in, the stock one
\* among them where it is installed.
FlagOn == file # NoFile /\ FlagLine(file) # 0 /\ file[FlagLine(file)] = "on"
Loads(route) ==
    IF route = "slot" THEN FlagOn /\ "WSLDVC_PRIVATE" \in keys ELSE "AccessKit" \in keys

ClientStarts(route, stock) ==
    /\ installer.op = "none" /\ process.phase = "none" /\ Loads(route)
    /\ process' = [phase |-> "loading", route |-> route, stock |-> stock, probed |-> 0, slots |-> <<>>]
    /\ UNCHANGED <<file, temp, keys, installer, returned, installs, usersLines>>

WantsStock(route) == route = "slot"
StockCount == IF WantsStock(process.route) THEN process.stock ELSE 0

\* With no array: how many there may be.
Probe ==
    /\ process.phase = "loading"
    /\ process' = [process EXCEPT !.phase = "probed", !.probed = 1 + StockCount]
    /\ UNCHANGED <<file, temp, keys, installer, returned, installs, usersLines>>

\* With one: the stock plug-ins there is room for, and ours if some is left.
\* The stock DLL may refuse to make any.
Fetch(cap, refused) ==
    LET fetched == IF refused THEN 0 ELSE Min({cap, StockCount})
        stock   == [i \in 1 .. fetched |-> "stock"]
    IN  /\ process.phase = "probed"
        /\ process' = [process EXCEPT !.phase = IF refused THEN "refused" ELSE "loaded",
                                    !.probed = cap,
                                    !.slots = IF fetched < cap THEN Append(stock, "ours") ELSE stock]
        /\ UNCHANGED <<file, temp, keys, installer, returned, installs, usersLines>>

ClientExits ==
    /\ process.phase \in {"loaded", "refused"} /\ process' = NoProcess
    /\ UNCHANGED <<file, temp, keys, installer, returned, installs, usersLines>>

-----------------------------------------------------------------------------
\* The flag, said of a text in one piece: in the first section of that name,
\* with no header between.  A user has it there at most once.
Ours(text, i) ==
    /\ text[i] \in Flag
    /\ \E h \in 1 .. i - 1 :
          /\ text[h] = "section" /\ \A j \in 1 .. h - 1 : text[j] # "section"
          /\ \A j \in h + 1 .. i - 1 : text[j] \notin {"section", "header"}
OursOf(text) == {i \in DOMAIN text : Ours(text, i)}
AtMostOnce(text) == \A i, j \in OursOf(text) : i = j
WithoutFlag(text) == IF OursOf(text) = {} THEN text ELSE RemoveAt(text, Min(OursOf(text)))

LoadingInit ==
    /\ file \in {NoFile} \cup {text \in UNION {[1 .. n -> Lines] : n \in 0 .. MaxLines} :
                                  AtMostOnce(text)}
    /\ temp = NoFile /\ keys = {} /\ installer = NotInstalling
    /\ returned = [op |-> "none", kept |-> FALSE] /\ installs = 0 /\ process = NoProcess
    /\ usersLines = WithoutFlag(TextOf(file))

LoadingNext ==
    \/ \E op \in {"register", "unregister"} : StartInstall(op)
    \/ \E ok \in BOOLEAN : WriteKey(ok) \/ ReadConfig(ok) \/ WriteTemp(ok) \/ Rename(ok)
    \/ Killed
    \/ \E route \in {"slot", "addins"}, stock \in 0 .. MaxStock : ClientStarts(route, stock)
    \/ Probe
    \/ \E cap \in 0 .. process.probed, refused \in BOOLEAN : Fetch(cap, refused)
    \/ ClientExits

-----------------------------------------------------------------------------
(* Properties.                                                             *)

\* A registration that succeeded has written both keys and set the flag, after
\* whatever earlier ones died over; an unregistration that succeeded has
\* cleared the flag, and the keys it could remove.
AsReturned ==
    /\ returned.op = "register" =>
          /\ keys = AllKeys /\ file # NoFile
          /\ \E i \in OursOf(file) : file[i] = "on"
    /\ returned.op = "unregister" =>
          (keys = {} \/ returned.kept) /\ OursOf(TextOf(file)) = {}

\* At every moment, a crash's included, the file has all the lines the user
\* wrote, in their order, and no more but the flag, once, and at most its section.
LinesKept ==
    /\ AtMostOnce(TextOf(file))
    /\ WithoutFlag(TextOf(file)) \in {usersLines, Append(usersLines, "section")}

\* Offered the room it asked for, the plug-in is in the client exactly once;
\* in WSLg's slot with every stock plug-in before it, and elsewhere alone,
\* as the stock one loads itself there.
LoadedOnce ==
    /\ Len(process.slots) <= process.probed
    /\ process.phase = "loaded" /\ process.probed = 1 + (IF process.route = "slot" THEN process.stock ELSE 0) =>
          process.slots = Append([i \in 1 .. process.probed - 1 |-> "stock"], "ours")

LoadedAsRegistered == AsReturned /\ LinesKept /\ LoadedOnce
=============================================================================
