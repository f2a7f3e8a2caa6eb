----------------------------- MODULE PluginProofs -----------------------------
(***************************************************************************)
(* Proofs about Dvc, for any number of channels and of frames: the         *)
(* greeting is the first thing on the wire although two threads write to   *)
(* it, and the adapter of a closed channel is taken off the session window;*)
(* and about Loading, for any file and any number of installers and of     *)
(* stock plug-ins: what an installer said it did is so, the user's lines   *)
(* are kept, and the plug-in is loaded once.                               *)
(***************************************************************************)
EXTENDS Dvc, Loading, TLAPS, SequenceTheorems, WellFoundedInduction

DvcSpec == DvcInit /\ [][DvcNext]_dvcVars

-----------------------------------------------------------------------------
(* The two writers.  Until something is on the wire nothing is underway    *)
(* but the hello, whoever has taken it; the rest waits for the provider,   *)
(* which has then read it.                                                 *)
Frames == {"hello", "pong", "action"}
WritersTypeOK ==
    /\ queued \in Seq(Frames) /\ wire \in Seq(Frames)
    /\ taken \in [client : Seq(Frames), pump : Seq(Frames)]
AtMostHello(frames) == frames = <<>> \/ frames = <<"hello">>
GreetInv ==
    /\ WritersTypeOK /\ GreetingFirst
    /\ wire = <<>> =>
          /\ peer \in {"silent", "greeting"}
          /\ AtMostHello(queued) /\ AtMostHello(taken.client) /\ AtMostHello(taken.pump)

(* The hosts.                                                              *)
HostTypeOK ==
    /\ channel \in 0..MaxChannels /\ client \in {"closed", "nudging", "nudged", "open", "joining", "clearing"}
    /\ slot \in 0..channel /\ found \in BOOLEAN /\ installed \in [Channels -> BOOLEAN]
    /\ beat \in [Channels -> {"none", "awake", "gone"}] /\ stopping \subseteq Channels
    /\ sent \subseteq 0..Itself
    /\ proc \in [at : {"idle", "read", "claimed"}, of : 0..channel, for : 0..Itself]
    /\ proc.at = "idle" => proc = Idle
    /\ proc.at # "idle" => proc.of # NoChannel
    /\ client # "closed" => channel # NoChannel
    /\ hosted \in 0..channel /\ detaches \in Nat /\ raced \in BOOLEAN /\ abandoned \in BOOLEAN

(* SHARED holds the channel that is open; a channel that has claimed the   *)
(* install has a window.                                                   *)
SlotTrue ==
    /\ (client = "closed" <=> slot = NoChannel)
    /\ slot # NoChannel => slot = channel
    /\ slot # NoChannel /\ installed[slot] => found
    /\ client = "clearing" => ~installed[slot]

(* A channel's claim, or its adapter on the window, is on the books of the *)
(* open host, or a detach is on its way.                                   *)
OnTheBooks(c) == (slot = c /\ installed[c]) \/ detaches > 0
ClaimsTrue ==
    /\ proc.at = "read" => slot = proc.of /\ found /\ client # "clearing"
    /\ proc.at = "claimed" => OnTheBooks(proc.of)
    /\ proc.at = "claimed" /\ hosted # NoChannel => detaches > 0
    /\ hosted # NoChannel => OnTheBooks(hosted)

HostInv ==
    /\ HostTypeOK
    /\ \A c \in Channels : installed[c] => c <= channel
    /\ ~raced /\ ~abandoned => SlotTrue /\ ClaimsTrue
-----------------------------------------------------------------------------
(* The writers.                                                            *)

\* What is put behind nothing stands alone; nothing put behind is nothing.
LEMMA Joins ==
    ASSUME NEW a \in Seq(Frames), NEW b \in Seq(Frames)
    PROVE  /\ a \o b \in Seq(Frames) /\ <<>> \o b = b /\ a \o <<>> = a
           /\ a \o b = <<>> => a = <<>> /\ b = <<>>
           /\ a # <<>> => (a \o b)[1] = a[1]
<1>1. a \o b \in Seq(Frames) /\ Len(a \o b) = Len(a) + Len(b) /\ Len(a) \in Nat /\ Len(b) \in Nat
      /\ \A i \in 1..Len(a) : (a \o b)[i] = a[i]
  BY ConcatProperties, LenProperties
<1>2. <<>> \o b = b /\ a \o <<>> = a
  BY ConcatEmptySeq
<1>3. a # <<>> => Len(a) \in Nat \ {0}
  BY EmptySeq
<1>4. a \o b = <<>> => a = <<>> /\ b = <<>>
  BY <1>1, EmptySeq
<1>5. a # <<>> => 1 \in 1..Len(a)
  BY <1>1, <1>3
<1> QED
  BY <1>1, <1>2, <1>4, <1>5

\* The hello alone.
LEMMA HelloFirst ==
    /\ <<"hello">> \in Seq(Frames) /\ <<"hello">> # <<>> /\ <<"hello">>[1] = "hello"
    /\ <<>> \in Seq(Frames) /\ <<"pong">> \in Seq(Frames)
    /\ \A frames : AtMostHello(frames) /\ frames # <<>> => frames[1] = "hello"
BY EmptySeq DEF Frames, AtMostHello

\* A new channel starts with the hello queued.
LEMMA OpenGreets ==
    ASSUME GreetInv, Open PROVE GreetInv'
<1>1. /\ taken' = [client |-> <<>>, pump |-> <<>>] /\ queued' = <<"hello">> /\ wire' = <<>>
      /\ peer' = "silent"
  BY DEF Open
<1> QED
  BY <1>1, HelloFirst DEF GreetInv, WritersTypeOK, GreetingFirst, AtMostHello

\* What the client takes is the hello, unless the provider has read it.
LEMMA HearGreets ==
    ASSUME GreetInv, HearHello \/ HearWindows \/ HearPing PROVE GreetInv'
<1>1. PICK answers \in {<<>>, <<"pong">>} :
          /\ taken.client = <<>> /\ taken' = [taken EXCEPT !.client = queued \o answers]
          /\ queued' = <<>> /\ wire' = wire
          /\ wire = <<>> => answers = <<>> /\ peer' \in {"silent", "greeting"}
  BY DEF HearHello, HearWindows, HearPing, Hear, GreetInv
<1>2. queued \in Seq(Frames) /\ answers \in Seq(Frames)
  BY HelloFirst DEF GreetInv, WritersTypeOK
<1>3. queued \o answers \in Seq(Frames) /\ queued \o <<>> = queued
  BY <1>2, HelloFirst, Joins
<1>4. taken'.client = queued \o answers /\ taken'.pump = taken.pump
      /\ taken' \in [client : Seq(Frames), pump : Seq(Frames)]
  BY <1>1, <1>3 DEF GreetInv, WritersTypeOK
<1>5. WritersTypeOK' /\ GreetingFirst'
  BY <1>1, <1>4, HelloFirst DEF GreetInv, WritersTypeOK, GreetingFirst
<1>6. ASSUME wire' = <<>>
      PROVE  peer' \in {"silent", "greeting"} /\ AtMostHello(queued') /\ AtMostHello(taken.client)'
             /\ AtMostHello(taken.pump)'
  BY <1>1, <1>3, <1>4, <1>6 DEF GreetInv, AtMostHello
<1> QED
  BY <1>5, <1>6 DEF GreetInv, AtMostHello

\* So is what the pump takes.
LEMMA PumpGreetsAll ==
    ASSUME GreetInv, PumpGreets \/ PumpForwards PROVE GreetInv'
<1>1. PICK frames \in {queued, Append(queued, "action")} :
          /\ taken.pump = <<>> /\ taken' = [taken EXCEPT !.pump = frames]
          /\ queued' = <<>> /\ wire' = wire /\ peer' = peer
          /\ wire = <<>> => frames = queued
  BY DEF PumpGreets, PumpForwards, Pumping, Takes, GreetInv
<1>2. queued \in Seq(Frames) /\ "action" \in Frames
  BY DEF GreetInv, WritersTypeOK, Frames
<1>3. frames \in Seq(Frames)
  BY <1>2, AppendProperties
<1>4. taken'.pump = frames /\ taken'.client = taken.client
      /\ taken' \in [client : Seq(Frames), pump : Seq(Frames)]
  BY <1>1, <1>3 DEF GreetInv, WritersTypeOK
<1>5. WritersTypeOK' /\ GreetingFirst'
  BY <1>1, <1>4, HelloFirst DEF GreetInv, WritersTypeOK, GreetingFirst
<1> QED
  BY <1>1, <1>4, <1>5 DEF GreetInv, AtMostHello

\* Whichever thread writes first writes the hello.
LEMMA WriteGreets ==
    ASSUME GreetInv, NEW thread \in {"client", "pump"}, Write(thread) PROVE GreetInv'
<1>1. /\ taken[thread] # <<>> /\ wire' = wire \o taken[thread]
      /\ taken' = [taken EXCEPT ![thread] = <<>>] /\ queued' = queued /\ peer' = peer
  BY DEF Write
<1>2. /\ taken \in [client : Seq(Frames), pump : Seq(Frames)]
      /\ wire \in Seq(Frames) /\ taken[thread] \in Seq(Frames)
  BY DEF GreetInv, WritersTypeOK
<1>3. wire' \in Seq(Frames) /\ wire' # <<>>
  BY <1>1, <1>2, Joins
<1>4. taken' \in [client : Seq(Frames), pump : Seq(Frames)]
  BY <1>1, <1>2, HelloFirst
<1>5. wire'[1] = "hello"
  <2>1. CASE wire = <<>>
    <3>1. AtMostHello(taken[thread])
      BY <2>1 DEF GreetInv
    <3> QED
      BY <1>1, <1>2, <2>1, <3>1, Joins, HelloFirst
  <2>2. CASE wire # <<>>
    BY <1>1, <1>2, <2>2, Joins DEF GreetInv, GreetingFirst
  <2> QED
    BY <2>1, <2>2
<1> QED
  BY <1>1, <1>3, <1>4, <1>5 DEF GreetInv, WritersTypeOK, GreetingFirst

\* Whatever leaves the writers alone, and the provider that reads the hello.
LEMMA OthersGreet ==
    ASSUME GreetInv, UNCHANGED writerVars \/ ProviderReadsHello PROVE GreetInv'
BY DEF GreetInv, WritersTypeOK, GreetingFirst, writerVars, ProviderReadsHello, AtMostHello
-----------------------------------------------------------------------------
(* The hosts.                                                              *)

\* A new channel has not been installed yet.
LEMMA OpenHosts ==
    ASSUME HostInv, Open PROVE HostInv'
<1> USE DvcAssumption DEF Open, Channels, NoChannel, Itself, Opener
<1>1. HostTypeOK'
  BY DEF HostInv, HostTypeOK, Idle
<1>2. \A c \in Channels : installed'[c] => c <= channel'
  BY DEF HostInv, HostTypeOK
<1>3. ASSUME ~raced', ~abandoned' PROVE SlotTrue' /\ ClaimsTrue'
  BY <1>3 DEF HostInv, HostTypeOK, SlotTrue, ClaimsTrue, OnTheBooks, Idle
<1> QED
  BY <1>1, <1>2, <1>3 DEF HostInv

\* A title that is set disturbs nothing.
LEMMA OpenerNudgesHosts ==
    ASSUME HostInv, OpenerNudges PROVE HostInv'
<1> USE DvcAssumption DEF OpenerNudges, NeedsNudge, Channels, NoChannel, Itself, Opener
<1>1. HostTypeOK'
  BY DEF HostInv, HostTypeOK, Idle
<1>2. \A c \in Channels : installed'[c] => c <= channel'
  BY DEF HostInv, HostTypeOK
<1>3. ASSUME ~raced', ~abandoned' PROVE SlotTrue' /\ ClaimsTrue'
  BY <1>3 DEF HostInv, HostTypeOK, SlotTrue, ClaimsTrue, OnTheBooks, Idle
<1> QED
  BY <1>1, <1>2, <1>3 DEF HostInv

\* The heartbeat starts, or the session is abandoned.
LEMMA OpenedHosts ==
    ASSUME HostInv, Opened \/ OpenFails PROVE HostInv'
<1> USE DvcAssumption DEF Opened, OpenFails, Hosting, NeedsNudge, Channels, NoChannel, Itself, Opener
<1>1. HostTypeOK'
  BY DEF HostInv, HostTypeOK, Idle
<1>2. \A c \in Channels : installed'[c] => c <= channel'
  BY DEF HostInv, HostTypeOK
<1>3. ASSUME ~raced', ~abandoned' PROVE SlotTrue' /\ ClaimsTrue'
  BY <1>3 DEF HostInv, HostTypeOK, SlotTrue, ClaimsTrue, OnTheBooks, Idle
<1> QED
  BY <1>1, <1>2, <1>3 DEF HostInv

\* A proc that finds nothing to host returns.
LEMMA NothingHosts ==
    ASSUME HostInv, NEW s \in sent \cup {Itself}, NothingToHost(s) PROVE HostInv'
<1> USE DvcAssumption DEF NothingToHost, NeedsNudge, Channels, NoChannel, Itself, Opener
<1>1. HostTypeOK'
  BY DEF HostInv, HostTypeOK, Idle
<1>2. \A c \in Channels : installed'[c] => c <= channel'
  BY DEF HostInv, HostTypeOK
<1>3. ASSUME ~raced', ~abandoned' PROVE SlotTrue' /\ ClaimsTrue'
  BY <1>3 DEF HostInv, HostTypeOK, SlotTrue, ClaimsTrue, OnTheBooks, Idle
<1> QED
  BY <1>1, <1>2, <1>3 DEF HostInv

\* A proc reads the slot of the open channel, or it is a race.
LEMMA ReadHosts ==
    ASSUME HostInv, NEW s \in sent \cup {Itself}, ReadSlot(s) PROVE HostInv'
<1> USE DvcAssumption DEF ReadSlot, NeedsNudge, Channels, NoChannel, Itself, Opener
<1>1. HostTypeOK'
  BY DEF HostInv, HostTypeOK, Idle
<1>2. \A c \in Channels : installed'[c] => c <= channel'
  BY DEF HostInv, HostTypeOK
<1>3. ASSUME ~raced', ~abandoned' PROVE SlotTrue' /\ ClaimsTrue'
  BY <1>3 DEF HostInv, HostTypeOK, SlotTrue, ClaimsTrue, OnTheBooks, Idle
<1> QED
  BY <1>1, <1>2, <1>3 DEF HostInv

\* A claim is made for the channel that is still open.
LEMMA ClaimHosts ==
    ASSUME HostInv, Claim PROVE HostInv'
<1> USE DvcAssumption DEF Claim, ProcReturns, Channels, NoChannel, Itself, Opener
<1>1. HostTypeOK' /\ \A c \in Channels : installed'[c] => c <= channel'
  <2>1. /\ proc \in [at : {"idle", "read", "claimed"}, of : 0..channel, for : 0..Itself]
        /\ channel \in 0..MaxChannels /\ proc.of \in 1..MaxChannels
        /\ installed \in [Channels -> BOOLEAN] /\ hosted \in 0..channel
    BY DEF HostInv, HostTypeOK
  <2>2. CASE installed[proc.of]
    <3>1. proc' = Idle /\ UNCHANGED <<channel, installed>> /\ sent' \subseteq sent
      BY <2>2
    <3>2. Idle \in [at : {"idle", "read", "claimed"}, of : 0..channel, for : 0..Itself]
      BY <2>1 DEF Idle
    <3> QED
      BY <3>1, <3>2 DEF HostInv, HostTypeOK, Idle
  <2>3. CASE ~installed[proc.of]
    <3>1. /\ proc' = [proc EXCEPT !.at = "claimed"] /\ installed' = [installed EXCEPT ![proc.of] = TRUE]
          /\ UNCHANGED <<channel, sent>>
      BY <2>3
    <3>2. proc' \in [at : {"idle", "read", "claimed"}, of : 0..channel, for : 0..Itself]
          /\ proc'.at = "claimed" /\ proc'.of = proc.of
      BY <2>1, <3>1
    <3>3. installed' \in [Channels -> BOOLEAN]
          /\ \A c \in Channels : installed'[c] => installed[c] \/ c = proc.of
      BY <2>1, <3>1
    <3>4. HostTypeOK'
      BY <3>1, <3>2, <3>3 DEF HostInv, HostTypeOK
    <3>5. \A c \in Channels : installed'[c] => c <= channel
      BY <2>1, <3>3 DEF HostInv
    <3> QED
      BY <3>1, <3>4, <3>5
  <2> QED
    BY <2>2, <2>3
<1>3. ASSUME ~raced', ~abandoned' PROVE SlotTrue' /\ ClaimsTrue'
  BY <1>3 DEF HostInv, HostTypeOK, SlotTrue, ClaimsTrue, OnTheBooks, Idle
<1> QED
  BY <1>1, <1>3 DEF HostInv

\* An install over an adapter gives the claim back.
LEMMA InstallHosts ==
    ASSUME HostInv, Install PROVE HostInv'
<1> USE DvcAssumption DEF Install, ProcReturns, Channels, NoChannel, Itself, Opener
<1>1. HostTypeOK'
  <2>1. /\ proc \in [at : {"idle", "read", "claimed"}, of : 0..channel, for : 0..Itself]
        /\ channel \in 0..MaxChannels /\ proc.of \in 1..MaxChannels
        /\ installed \in [Channels -> BOOLEAN] /\ hosted \in 0..channel
    BY DEF HostInv, HostTypeOK
  <2>2. proc' = Idle /\ UNCHANGED channel /\ sent' \subseteq sent
    OBVIOUS
  <2>3. Idle \in [at : {"idle", "read", "claimed"}, of : 0..channel, for : 0..Itself]
    BY <2>1 DEF Idle
  <2>4. installed' \in [Channels -> BOOLEAN] /\ hosted' \in 0..channel
    BY <2>1
  <2> QED
    BY <2>2, <2>3, <2>4 DEF HostInv, HostTypeOK, Idle
<1>2. \A c \in Channels : installed'[c] => c <= channel'
  BY DEF HostInv, HostTypeOK
<1>3. ASSUME ~raced', ~abandoned' PROVE SlotTrue' /\ ClaimsTrue'
  BY <1>3 DEF HostInv, HostTypeOK, SlotTrue, ClaimsTrue, OnTheBooks, Idle
<1> QED
  BY <1>1, <1>2, <1>3 DEF HostInv

\* A detach takes the adapter off whatever channel it is of.
LEMMA DetachHosts ==
    ASSUME HostInv, HandleDetach PROVE HostInv'
<1> USE DvcAssumption DEF HandleDetach, Channels, NoChannel, Itself, Opener
<1>1. HostTypeOK'
  BY DEF HostInv, HostTypeOK, Idle
<1>2. \A c \in Channels : installed'[c] => c <= channel'
  BY DEF HostInv, HostTypeOK
<1>3. ASSUME ~raced', ~abandoned' PROVE SlotTrue' /\ ClaimsTrue'
  BY <1>3 DEF HostInv, HostTypeOK, SlotTrue, ClaimsTrue, OnTheBooks, Idle
<1> QED
  BY <1>1, <1>2, <1>3 DEF HostInv

\* A heartbeat nudges or ends.
LEMMA BeatHosts ==
    ASSUME HostInv, NEW c \in Channels, BeatNudges(c) \/ BeatEnds(c) PROVE HostInv'
<1> USE DvcAssumption DEF BeatNudges, BeatEnds, NeedsNudge, Channels, NoChannel, Itself, Opener
<1>1. HostTypeOK'
  <2>1. beat' \in [Channels -> {"none", "awake", "gone"}]
    BY SMTT(40) DEF HostInv, HostTypeOK
  <2>2. c \in 0..Itself
    OBVIOUS
  <2> QED
    BY <2>1, <2>2, ZenonT(60) DEF HostInv, HostTypeOK, Idle
<1>2. \A d \in Channels : installed'[d] => d <= channel'
  BY DEF HostInv, HostTypeOK
<1>3. ASSUME ~raced', ~abandoned' PROVE SlotTrue' /\ ClaimsTrue'
  BY <1>3, SMTT(40) DEF HostInv, HostTypeOK, SlotTrue, ClaimsTrue, OnTheBooks, Idle
<1> QED
  BY <1>1, <1>2, <1>3 DEF HostInv

\* Closing tells the heartbeat first.
LEMMA CloseHosts ==
    ASSUME HostInv, Close PROVE HostInv'
<1> USE DvcAssumption DEF Close, Channels, NoChannel, Itself, Opener
<1>1. HostTypeOK'
  <2>1. channel \in Channels
    BY DEF HostInv, HostTypeOK
  <2> QED
    BY <2>1 DEF HostInv, HostTypeOK, Idle
<1>2. \A c \in Channels : installed'[c] => c <= channel'
  BY DEF HostInv, HostTypeOK
<1>3. ASSUME ~raced', ~abandoned' PROVE SlotTrue' /\ ClaimsTrue'
  BY <1>3 DEF HostInv, HostTypeOK, SlotTrue, ClaimsTrue, OnTheBooks, Idle
<1> QED
  BY <1>1, <1>2, <1>3 DEF HostInv

\* Who had installed gets a detach posted.
LEMMA TakeBackHosts ==
    ASSUME HostInv, TakeBack PROVE HostInv'
<1> USE DvcAssumption DEF TakeBack, Joined, Channels, NoChannel, Itself, Opener
<1>1. HostTypeOK'
  <2>1. installed' \in [Channels -> BOOLEAN] /\ detaches' \in Nat
    <3>1. installed \in [Channels -> BOOLEAN] /\ detaches \in Nat
      BY DEF HostInv, HostTypeOK
    <3>2. installed' = installed \/ installed' = [installed EXCEPT ![slot] = FALSE]
      OBVIOUS
    <3>3. detaches' \in {detaches, detaches + 1}
      OBVIOUS
    <3>4. detaches' \in Nat
      BY <3>1, <3>3
    <3> HIDE DEF TakeBack, Joined, Channels
    <3>5. installed' \in [Channels -> BOOLEAN]
      BY <3>1, <3>2
    <3> QED
      BY <3>4, <3>5
  <2>2. /\ client' = "clearing" /\ client = "joining" /\ raced' \in BOOLEAN
        /\ UNCHANGED <<channel, slot, found, beat, stopping, sent, proc, hosted, abandoned>>
    BY DEF HostInv, HostTypeOK
  <2>3. HostTypeOK
    BY DEF HostInv
  <2> QED
    BY <2>1, <2>2, <2>3 DEF HostTypeOK
<1>2. \A c \in Channels : installed'[c] => c <= channel'
  BY DEF HostInv, HostTypeOK
<1>3. ASSUME ~raced', ~abandoned' PROVE SlotTrue' /\ ClaimsTrue'
  BY <1>3 DEF HostInv, HostTypeOK, SlotTrue, ClaimsTrue, OnTheBooks, Idle
<1> QED
  BY <1>1, <1>2, <1>3 DEF HostInv

\* Nothing is on the books when the slot is cleared.
LEMMA ClearHosts ==
    ASSUME HostInv, Clear PROVE HostInv'
<1> USE DvcAssumption DEF Clear, Channels, NoChannel, Itself, Opener
<1>1. HostTypeOK'
  BY DEF HostInv, HostTypeOK, Idle
<1>2. \A c \in Channels : installed'[c] => c <= channel'
  BY DEF HostInv, HostTypeOK
<1>3. ASSUME ~raced', ~abandoned' PROVE SlotTrue' /\ ClaimsTrue'
  BY <1>3 DEF HostInv, HostTypeOK, SlotTrue, ClaimsTrue, OnTheBooks, Idle
<1> QED
  BY <1>1, <1>2, <1>3 DEF HostInv

\* The writers do not touch the hosts.
LEMMA WritersHost ==
    ASSUME HostInv, UNCHANGED <<channel, client, hostVars>> PROVE HostInv'
<1> USE DvcAssumption DEF hostVars, Channels, NoChannel, Itself, Opener
<1>1. HostTypeOK'
  BY DEF HostInv, HostTypeOK, Idle
<1>2. \A c \in Channels : installed'[c] => c <= channel'
  BY DEF HostInv, HostTypeOK
<1>3. ASSUME ~raced', ~abandoned' PROVE SlotTrue' /\ ClaimsTrue'
  BY <1>3 DEF HostInv, HostTypeOK, SlotTrue, ClaimsTrue, OnTheBooks, Idle
<1> QED
  BY <1>1, <1>2, <1>3 DEF HostInv

-----------------------------------------------------------------------------
(* The theorems.                                                           *)

\* No channel is open at first.
LEMMA DvcInitEstablishes ==
    DvcInit => GreetInv /\ HostInv
<1> SUFFICES ASSUME DvcInit PROVE GreetInv /\ HostInv
  OBVIOUS
<1> USE DvcAssumption DEF DvcInit, Channels, NoChannel, Itself, Idle
<1>1. GreetInv
  BY HelloFirst DEF GreetInv, WritersTypeOK, GreetingFirst, AtMostHello
<1>2. HostTypeOK
  <2>1. /\ installed \in [Channels -> BOOLEAN] /\ beat \in [Channels -> {"none", "awake", "gone"}]
        /\ found \in BOOLEAN /\ raced \in BOOLEAN /\ abandoned \in BOOLEAN
    OBVIOUS
  <2>2. /\ channel \in 0..MaxChannels /\ slot \in 0..channel /\ hosted \in 0..channel
        /\ detaches \in Nat /\ stopping \subseteq Channels /\ sent \subseteq 0..Itself
    OBVIOUS
  <2>3. proc \in [at : {"idle", "read", "claimed"}, of : 0..channel, for : 0..Itself]
    OBVIOUS
  <2> QED
    BY <2>1, <2>2, <2>3 DEF HostTypeOK
<1>3. SlotTrue /\ ClaimsTrue /\ \A c \in Channels : ~installed[c]
  BY DEF SlotTrue, ClaimsTrue, OnTheBooks
<1> QED
  BY <1>1, <1>2, <1>3 DEF HostInv

\* Every step keeps both invariants.
LEMMA DvcNextPreserves ==
    GreetInv /\ HostInv /\ [DvcNext]_dvcVars => GreetInv' /\ HostInv'
<1> SUFFICES ASSUME GreetInv, HostInv, [DvcNext]_dvcVars PROVE GreetInv' /\ HostInv'
  OBVIOUS
<1>1. CASE Open
  BY <1>1, OpenGreets, OpenHosts
<1>2. CASE OpenerNudges \/ Opened \/ OpenFails \/ Close \/ TakeBack \/ Clear
  <2>1. UNCHANGED writerVars
    BY <1>2 DEF OpenerNudges, Opened, OpenFails, Hosting, Close, TakeBack, Clear, writerVars
  <2> QED
    BY <1>2, <2>1, OthersGreet, OpenerNudgesHosts, OpenedHosts, CloseHosts, TakeBackHosts, ClearHosts
<1>3. ASSUME NEW s \in sent \cup {Itself}, NothingToHost(s) \/ ReadSlot(s)
      PROVE  GreetInv' /\ HostInv'
  <2>1. UNCHANGED writerVars
    BY <1>3 DEF NothingToHost, ReadSlot, writerVars
  <2> QED
    BY <1>3, <2>1, OthersGreet, NothingHosts, ReadHosts
<1>4. CASE Claim \/ Install \/ HandleDetach
  <2>1. UNCHANGED writerVars
    BY <1>4 DEF Claim, Install, HandleDetach, writerVars
  <2> QED
    BY <1>4, <2>1, OthersGreet, ClaimHosts, InstallHosts, DetachHosts
<1>5. ASSUME NEW c \in Channels, BeatNudges(c) \/ BeatEnds(c) PROVE GreetInv' /\ HostInv'
  <2>1. UNCHANGED writerVars
    BY <1>5 DEF BeatNudges, BeatEnds, writerVars
  <2> QED
    BY <1>5, <2>1, OthersGreet, BeatHosts
<1>6. CASE HearHello \/ HearWindows \/ HearPing
  <2>1. UNCHANGED <<channel, client, hostVars>>
    BY <1>6 DEF HearHello, HearWindows, HearPing, Hear
  <2> QED
    BY <1>6, <2>1, HearGreets, WritersHost
<1>7. CASE PumpGreets \/ PumpForwards
  <2>1. UNCHANGED <<channel, client, hostVars>>
    BY <1>7 DEF PumpGreets, PumpForwards, Takes
  <2> QED
    BY <1>7, <2>1, PumpGreetsAll, WritersHost
<1>8. CASE ProviderReadsHello
  <2>1. UNCHANGED <<channel, client, hostVars>>
    BY <1>8 DEF ProviderReadsHello
  <2> QED
    BY <1>8, <2>1, OthersGreet, WritersHost
<1>9. ASSUME NEW thread \in {"client", "pump"}, Write(thread) PROVE GreetInv' /\ HostInv'
  <2>1. UNCHANGED <<channel, client, hostVars>>
    BY <1>9 DEF Write
  <2> QED
    BY <1>9, <2>1, WriteGreets, WritersHost
<1>10. CASE UNCHANGED dvcVars
  <2>1. UNCHANGED <<channel, client, hostVars>> /\ UNCHANGED writerVars
    BY <1>10 DEF dvcVars
  <2> QED
    BY <2>1, OthersGreet, WritersHost
<1> QED
  BY <1>1, <1>2, <1>3, <1>4, <1>5, <1>6, <1>7, <1>8, <1>9, <1>10 DEF DvcNext

(* The books of the hosts and the order of the writers hold of every run,  *)
(* however the threads of OnClose, the heartbeats, the window and the two  *)
(* writers cross.                                                          *)
THEOREM DvcInvariance == DvcSpec => [](GreetInv /\ HostInv)
<1>1. DvcInit => GreetInv /\ HostInv
  BY DvcInitEstablishes
<1>2. (GreetInv /\ HostInv) /\ [DvcNext]_dvcVars => (GreetInv /\ HostInv)'
  BY DvcNextPreserves
<1> QED
  BY <1>1, <1>2, PTL DEF DvcSpec

(* What the provider reads first of a channel is the consumer's hello,     *)
(* though OnDataReceived and the action pump both write (DvcSession::flush).*)
THEOREM GreetingIsFirst == DvcSpec => []GreetingFirst
<1>1. GreetInv => GreetingFirst
  BY DEF GreetInv
<1> QED
  BY <1>1, DvcInvariance, PTL

(* Once a channel is closed and its detach handled, no adapter of it is on *)
(* the session window (DesktopHost::stop, try_install).                    *)
THEOREM AdapterIsTakenBack == DvcSpec => []AdapterTakenBack
<1>1. HostInv => AdapterTakenBack
  BY DEF HostInv, HostTypeOK, SlotTrue, ClaimsTrue, OnTheBooks, AdapterTakenBack, NoChannel
<1> QED
  BY <1>1, DvcInvariance, PTL

-----------------------------------------------------------------------------
(* Loading: the editor.                                                    *)
\* The natural numbers are well ordered.
LEMMA NatOrdered == IsWellFoundedOn({p \in Nat \X Nat : p[1] < p[2]}, Nat)
BY NatLessThanWellFounded DEF OpToRel

\* A set of numbers that is not empty has a least, and First is it.
LEMMA FirstIsLeast ==
    ASSUME NEW S \in SUBSET (Nat \ {0})
    PROVE  /\ S = {} => First(S) = 0
           /\ S # {} => First(S) = Min(S) /\ First(S) \in S /\ \A s \in S : First(S) <= s
<1>1. CASE S = {}
  BY <1>1 DEF First
<1>2. CASE S # {}
  <2>1. PICK m \in S : \A y \in S : <<y, m>> \notin {p \in Nat \X Nat : p[1] < p[2]}
    BY <1>2, NatOrdered, WFMin
  <2>2. \A y \in S : y \in Nat /\ m \in Nat /\ ~(y < m)
    BY <2>1
  <2>3. \E x \in S : \A y \in S : x <= y
    BY <2>2
  <2>4. Min(S) \in S /\ \A y \in S : Min(S) <= y
    BY <2>3 DEF Min
  <2> QED
    BY <1>2, <2>4 DEF First
<1> QED
  BY <1>1, <1>2

\* A line put into a text, and one taken out of it.
LEMMA Inserted ==
    ASSUME NEW text \in Seq(Lines), NEW i \in 1..Len(text) + 1, NEW e \in Lines
    PROVE  /\ InsertAt(text, i, e) \in Seq(Lines)
           /\ Len(InsertAt(text, i, e)) = Len(text) + 1
           /\ \A j \in 1..Len(text) + 1 :
                 InsertAt(text, i, e)[j] = IF j < i THEN text[j] ELSE IF j = i THEN e ELSE text[j - 1]
<1> DEFINE before == SubSeq(text, 1, i - 1)
           after == SubSeq(text, i, Len(text))
<1>0. Len(text) \in Nat /\ i \in Nat /\ \A j \in 1..Len(text) : text[j] \in Lines
  OBVIOUS
<1>1. before \in Seq(Lines) /\ Len(before) = i - 1 /\ \A j \in 1..i - 1 : before[j] = text[j]
  <2>1. \A j \in 1..i - 1 : text[j] \in Lines
    BY <1>0
  <2> QED
    BY <1>0, <2>1, SubSeqProperties
<1>2. after \in Seq(Lines) /\ Len(after) = Len(text) - i + 1
      /\ \A j \in 1..Len(text) - i + 1 : after[j] = text[i + j - 1]
  <2>1. \A j \in i..Len(text) : text[j] \in Lines
    BY <1>0
  <2> QED
    BY <1>0, <2>1, SubSeqProperties, SMTT(40)
<1>3. <<e>> \in Seq(Lines) /\ Len(<<e>>) = 1 /\ <<e>>[1] = e
  OBVIOUS
<1>4. InsertAt(text, i, e) = before \o <<e>> \o after
  BY DEF InsertAt
<1> HIDE DEF before, after
<1>5. before \o <<e>> \in Seq(Lines) /\ Len(before \o <<e>>) = i
      /\ \A j \in 1..i : (before \o <<e>>)[j] = IF j < i THEN text[j] ELSE e
  BY <1>0, <1>1, <1>3, ConcatProperties
<1> DEFINE upto == before \o <<e>>
<1>6. InsertAt(text, i, e) = upto \o after /\ upto \in Seq(Lines) /\ Len(upto) = i
      /\ \A j \in 1..i : upto[j] = IF j < i THEN text[j] ELSE e
  BY <1>4, <1>5
<1> HIDE DEF upto
<1>7. /\ upto \o after \in Seq(Lines)
      /\ Len(upto \o after) = Len(upto) + Len(after)
      /\ \A j \in 1..Len(upto) + Len(after) :
            (upto \o after)[j] = IF j <= Len(upto) THEN upto[j] ELSE after[j - Len(upto)]
  BY <1>2, <1>6, ConcatProperties
<1>8. Len(upto) + Len(after) = Len(text) + 1
  BY <1>0, <1>2, <1>6
<1>9. ASSUME NEW j \in 1..Len(text) + 1
      PROVE  InsertAt(text, i, e)[j] = IF j < i THEN text[j] ELSE IF j = i THEN e ELSE text[j - 1]
  <2>1. CASE j <= i
    BY <1>0, <1>6, <1>7, <1>8, <2>1
  <2>2. CASE j > i
    <3>1. j - i \in 1..Len(text) - i + 1 /\ i + (j - i) - 1 = j - 1
      BY <1>0, <2>2
    <3>2. InsertAt(text, i, e)[j] = after[j - i]
      BY <1>0, <1>6, <1>7, <1>8, <2>2
    <3> QED
      BY <1>0, <1>2, <2>2, <3>1, <3>2
  <2> QED
    BY <1>0, <2>1, <2>2
<1> QED
  BY <1>6, <1>7, <1>8, <1>9

LEMMA Removed ==
    ASSUME NEW text \in Seq(Lines), NEW i \in 1..Len(text)
    PROVE  /\ RemoveAt(text, i) \in Seq(Lines)
           /\ Len(RemoveAt(text, i)) = Len(text) - 1
           /\ \A j \in 1..Len(text) - 1 : RemoveAt(text, i)[j] = IF j < i THEN text[j] ELSE text[j + 1]
<1> DEFINE before == SubSeq(text, 1, i - 1)
           after == SubSeq(text, i + 1, Len(text))
<1>0. Len(text) \in Nat /\ i \in Nat /\ \A j \in 1..Len(text) : text[j] \in Lines
  OBVIOUS
<1>1. before \in Seq(Lines) /\ Len(before) = i - 1 /\ \A j \in 1..i - 1 : before[j] = text[j]
  <2>1. \A j \in 1..i - 1 : text[j] \in Lines
    BY <1>0
  <2> QED
    BY <1>0, <2>1, SubSeqProperties
<1>2. after \in Seq(Lines) /\ Len(after) = Len(text) - i
      /\ \A j \in 1..Len(text) - i : after[j] = text[i + j]
  <2>1. \A j \in i + 1..Len(text) : text[j] \in Lines
    BY <1>0
  <2> QED
    BY <1>0, <2>1, SubSeqProperties
<1>3. RemoveAt(text, i) = before \o after
  BY DEF RemoveAt
<1> HIDE DEF before, after
<1>4. /\ before \o after \in Seq(Lines)
      /\ Len(before \o after) = Len(before) + Len(after)
      /\ \A j \in 1..Len(before) + Len(after) :
            (before \o after)[j] = IF j <= Len(before) THEN before[j] ELSE after[j - Len(before)]
  BY <1>1, <1>2, ConcatProperties
<1>5. Len(before) + Len(after) = Len(text) - 1
  BY <1>0, <1>1, <1>2
<1>6. ASSUME NEW j \in 1..Len(text) - 1
      PROVE  RemoveAt(text, i)[j] = IF j < i THEN text[j] ELSE text[j + 1]
  <2>1. CASE j < i
    BY <1>0, <1>1, <1>3, <1>4, <1>5, <2>1
  <2>2. CASE ~(j < i)
    <3>1. j - (i - 1) \in 1..Len(text) - i /\ i + (j - (i - 1)) = j + 1
      BY <1>0, <2>2
    <3>2. RemoveAt(text, i)[j] = after[j - (i - 1)]
      BY <1>0, <1>1, <1>3, <1>4, <1>5, <2>2
    <3> QED
      BY <1>2, <2>2, <3>1, <3>2
  <2> QED
    BY <2>1, <2>2
<1> QED
  BY <1>3, <1>4, <1>5, <1>6

\* The header the editor finds is the first of the section, and the line it
\* finds is the flag, if the text has it at most once.
LEMMA HeaderFound ==
    ASSUME NEW text \in Seq(Lines)
    PROVE  /\ Header(text) \in 0..Len(text)
           /\ Header(text) = 0 => \A i \in 1..Len(text) : text[i] # "section"
           /\ Header(text) # 0 => /\ text[Header(text)] = "section"
                                  /\ \A i \in 1..Header(text) - 1 : text[i] # "section"
<1> DEFINE S == {i \in DOMAIN text : text[i] = "section"}
<1>1. S \in SUBSET (Nat \ {0}) /\ DOMAIN text = 1..Len(text) /\ Len(text) \in Nat
  OBVIOUS
<1>2. Header(text) = First(S)
  BY DEF Header
<1>3. \A i \in 1..Len(text) : i \in S <=> text[i] = "section"
  BY <1>1
<1> HIDE DEF S
<1> QED
  <2>1. CASE S = {}
    BY <1>1, <1>2, <1>3, <2>1, FirstIsLeast
  <2>2. CASE S # {}
    <3>1. Header(text) \in S /\ \A s \in S : Header(text) <= s
      BY <1>1, <1>2, <2>2, FirstIsLeast
    <3>2. Header(text) \in 1..Len(text) /\ text[Header(text)] = "section"
      BY <3>1 DEF S
    <3>3. ASSUME NEW i \in 1..Header(text) - 1 PROVE text[i] # "section"
      BY <1>1, <1>3, <3>1, <3>2
    <3> QED
      BY <3>2, <3>3
  <2> QED
    BY <2>1, <2>2

\* Ours says the same as the editor's walk from header to header.
LEMMA OursInBody ==
    ASSUME NEW text \in Seq(Lines), NEW i \in 1..Len(text)
    PROVE  Ours(text, i) <=> /\ Header(text) # 0 /\ text[i] \in Flag
                             /\ i \in SectionBody(text, Header(text))
<1>0. Len(text) \in Nat /\ i \in Nat /\ DOMAIN text = 1..Len(text) /\ Header(text) \in 0..Len(text)
  BY HeaderFound
<1>1. ASSUME Ours(text, i) PROVE Header(text) # 0 /\ i \in SectionBody(text, Header(text))
  <2>1. PICK h \in 1..i - 1 :
           /\ text[h] = "section" /\ \A j \in 1..h - 1 : text[j] # "section"
           /\ \A j \in h + 1..i - 1 : text[j] \notin {"section", "header"}
    BY <1>1 DEF Ours
  <2>2. h \in 1..Len(text)
    BY <1>0
  <2>3. Header(text) # 0
    BY <2>1, <2>2, HeaderFound
  <2>4. Header(text) = h
    <3>1. ~(h < Header(text))
      BY <1>0, <2>1, <2>2, <2>3, HeaderFound
    <3>2. ~(Header(text) < h)
      BY <1>0, <2>1, <2>2, <2>3, HeaderFound
    <3> QED
      BY <1>0, <2>2, <3>1, <3>2
  <2>5. text[i] \in Flag
    BY <1>1 DEF Ours
  <2>6. \A j \in h + 1..i : text[j] \notin {"section", "header"}
    BY <1>0, <2>1, <2>5 DEF Flag
  <2> QED
    BY <1>0, <2>1, <2>3, <2>4, <2>6 DEF SectionBody
<1>2. ASSUME Header(text) # 0, text[i] \in Flag, i \in SectionBody(text, Header(text)) PROVE Ours(text, i)
  <2>1. Header(text) \in 1..i - 1 /\ \A j \in Header(text) + 1..i : text[j] \notin {"section", "header"}
    BY <1>0, <1>2 DEF SectionBody
  <2>2. \A j \in Header(text) + 1..i - 1 : text[j] \notin {"section", "header"}
    BY <1>0, <2>1
  <2> QED
    BY <1>2, <2>1, <2>2, HeaderFound DEF Ours
<1> QED
  BY <1>1, <1>2 DEF Ours

\* The line the editor finds is the first flag of the section.
LEMMA FlagFound ==
    ASSUME NEW text \in Seq(Lines)
    PROVE  /\ OursOf(text) \subseteq 1..Len(text)
           /\ FlagLine(text) = 0 <=> OursOf(text) = {}
           /\ FlagLine(text) # 0 => FlagLine(text) \in OursOf(text) /\ FlagLine(text) = Min(OursOf(text))
           /\ OursOf(text) # {} => Header(text) # 0 /\ Header(text) < FlagLine(text)
<1>0. Len(text) \in Nat /\ DOMAIN text = 1..Len(text) /\ Header(text) \in 0..Len(text)
  BY HeaderFound
<1>1. OursOf(text) \subseteq 1..Len(text)
  BY <1>0 DEF OursOf
<1>2. CASE Header(text) = 0
  <2>1. OursOf(text) = {}
    BY <1>0, <1>2, OursInBody DEF OursOf
  <2> QED
    BY <1>1, <1>2, <2>1 DEF FlagLine
<1>3. CASE Header(text) # 0
  <2> DEFINE S == {i \in SectionBody(text, Header(text)) : text[i] \in Flag}
  <2>1. S = OursOf(text)
    <3>1. SectionBody(text, Header(text)) \subseteq 1..Len(text)
      BY <1>0 DEF SectionBody
    <3> QED
      BY <1>0, <1>3, <3>1, OursInBody DEF OursOf
  <2>2. FlagLine(text) = First(S)
    BY <1>3 DEF FlagLine
  <2>3. S \in SUBSET (Nat \ {0})
    BY <1>0, <1>1, <2>1
  <2>4. \A i \in S : i > Header(text)
    BY DEF SectionBody
  <2> HIDE DEF S
  <2>5. CASE S = {}
    BY <1>1, <2>1, <2>2, <2>3, <2>5, FirstIsLeast
  <2>6. CASE S # {}
    <3>1. First(S) = Min(S) /\ First(S) \in S
      BY <2>3, <2>6, FirstIsLeast
    <3> QED
      BY <1>0, <1>1, <1>3, <2>1, <2>2, <2>3, <2>4, <2>6, <3>1
  <2> QED
    BY <2>5, <2>6
<1> QED
  BY <1>2, <1>3

\* Without the one flag it has, a text is short of one line.
LEMMA WithoutIsRemoved ==
    ASSUME NEW text \in Seq(Lines), AtMostOnce(text), NEW i \in OursOf(text)
    PROVE  /\ i \in 1..Len(text) /\ FlagLine(text) = i /\ OursOf(text) = {i}
           /\ WithoutFlag(text) = RemoveAt(text, i)
<1>1. FlagLine(text) = i /\ Min(OursOf(text)) = i
  BY FlagFound DEF AtMostOnce
<1> QED
  BY <1>1, FlagFound DEF AtMostOnce, WithoutFlag

\* Clearing the flag keeps all the other lines and leaves no flag.
LEMMA ClearKeeps ==
    ASSUME NEW text \in Seq(Lines), AtMostOnce(text)
    PROVE  /\ ClearFlag(text) \in Seq(Lines) /\ ClearFlag(text) = WithoutFlag(text)
           /\ OursOf(ClearFlag(text)) = {}
           /\ FlagLine(text) # 0 => Len(ClearFlag(text)) < Len(text)
<1>0. Len(text) \in Nat /\ Header(text) \in 0..Len(text)
  BY HeaderFound
<1>1. CASE OursOf(text) = {}
  BY <1>1, FlagFound DEF ClearFlag, WithoutFlag
<1>2. CASE OursOf(text) # {}
  <2>1. PICK i \in OursOf(text) : TRUE
    BY <1>2
  <2>2. i \in 1..Len(text) /\ FlagLine(text) = i /\ OursOf(text) = {i}
        /\ WithoutFlag(text) = RemoveAt(text, i)
    BY <2>1, WithoutIsRemoved
  <2>3. ClearFlag(text) = RemoveAt(text, i)
    BY <1>0, <2>2 DEF ClearFlag
  <2> DEFINE new == RemoveAt(text, i)
  <2>4. new \in Seq(Lines) /\ Len(new) = Len(text) - 1
        /\ \A j \in 1..Len(text) - 1 : new[j] = IF j < i THEN text[j] ELSE text[j + 1]
    BY <2>2, Removed
  <2>5. Header(text) # 0 /\ Header(text) < i
    BY <1>2, <2>2, FlagFound
  <2>6. text[i] \in Flag
    BY <2>1 DEF OursOf, Ours
  <2> HIDE DEF new
  <2>7. ASSUME NEW k \in OursOf(new) PROVE FALSE
    <3>1. k \in 1..Len(text) - 1 /\ Ours(new, k)
      BY <2>4, <2>7 DEF OursOf
    <3>2. new[k] \in Flag
      BY <3>1 DEF Ours
    <3>3. PICK h \in 1..k - 1 :
             /\ new[h] = "section" /\ \A j \in 1..h - 1 : new[j] # "section"
             /\ \A j \in h + 1..k - 1 : new[j] \notin {"section", "header"}
      BY <3>1 DEF Ours
    <3>4. new[Header(text)] = "section" /\ \A j \in 1..Header(text) - 1 : new[j] # "section"
      <4>1. text[Header(text)] = "section" /\ \A j \in 1..Header(text) - 1 : text[j] # "section"
        BY <2>5, HeaderFound
      <4>2. \A j \in 1..Header(text) : j \in 1..Len(text) - 1 /\ j < i
        BY <1>0, <2>2, <2>5
      <4>3. \A j \in 1..Header(text) : new[j] = text[j]
        BY <2>4, <4>2
      <4> QED
        BY <1>0, <2>5, <4>1, <4>3, SMTT(40)
    <3>5. h = Header(text)
      <4>1. h \in Nat /\ k \in Nat
        BY <1>0, <3>1
      <4>2. ~(h < Header(text)) /\ ~(Header(text) < h)
        BY <1>0, <2>5, <3>3, <3>4
      <4> QED
        BY <1>0, <4>1, <4>2
    <3> DEFINE at == IF k < i THEN k ELSE k + 1
    <3>6. at \in 1..Len(text) /\ at # i /\ text[at] = new[k]
      BY <1>0, <2>2, <2>4, <3>1
    <3>7. text[h] = "section" /\ \A j \in 1..h - 1 : text[j] # "section"
      BY <2>5, <3>5, HeaderFound
    <3>8. h \in 1..at - 1
      BY <1>0, <3>1
    <3>9. ASSUME NEW j \in h + 1..at - 1 PROVE text[j] \notin {"section", "header"}
      <4>1. CASE j < i
        BY <1>0, <2>2, <2>4, <3>1, <3>3, <4>1, SMTT(40)
      <4>2. CASE j = i
        BY <2>6, <4>2 DEF Flag
      <4>3. CASE j > i
        <5>1. j - 1 \in h + 1..k - 1 /\ text[j] = new[j - 1]
          BY <1>0, <2>2, <2>4, <2>5, <3>1, <3>5, <4>3, SMTT(30)
        <5> QED
          BY <3>3, <5>1
      <4> QED
        BY <1>0, <2>2, <4>1, <4>2, <4>3
    <3> HIDE DEF at
    <3>10. Ours(text, at)
      BY <3>2, <3>6, <3>7, <3>8, <3>9 DEF Ours
    <3>11. at \in OursOf(text)
      BY <3>6, <3>10 DEF OursOf
    <3> QED
      BY <2>2, <3>6, <3>11
  <2>8. OursOf(new) = {}
    BY <2>7
  <2>9. Len(new) < Len(text)
    BY <1>0, <2>4
  <2> QED
    BY <2>2, <2>3, <2>4, <2>8, <2>9 DEF new
<1> QED
  BY <1>1, <1>2

\* Setting it keeps them too, and the flag is on once: in front of everything
\* the section says, where it was, or in a section of its own at the end.
LEMMA SetKeeps ==
    ASSUME NEW text \in Seq(Lines), AtMostOnce(text)
    PROVE  /\ SetFlag(text) \in Seq(Lines) /\ AtMostOnce(SetFlag(text))
           /\ \E i \in OursOf(SetFlag(text)) : SetFlag(text)[i] = "on"
           /\ \/ WithoutFlag(SetFlag(text)) = WithoutFlag(text)
              \/ /\ WithoutFlag(SetFlag(text)) = Append(WithoutFlag(text), "section")
                 /\ \A i \in 1..Len(WithoutFlag(text)) : WithoutFlag(text)[i] # "section"
<1>0. Len(text) \in Nat /\ Header(text) \in 0..Len(text) /\ \A j \in 1..Len(text) : text[j] \in Lines
  BY HeaderFound
<1> DEFINE new == SetFlag(text)
<1>1. CASE Header(text) = 0
  <2> DEFINE two == <<"section", "on">>
  <2>1. new = text \o two
    BY <1>1 DEF SetFlag
  <2>2. two \in Seq(Lines) /\ Len(two) = 2 /\ two[1] = "section" /\ two[2] = "on"
    BY DEF Lines
  <2> HIDE DEF two, new
  <2>3. new \in Seq(Lines) /\ Len(new) = Len(text) + 2
        /\ \A j \in 1..Len(text) + 2 : new[j] = IF j <= Len(text) THEN text[j] ELSE two[j - Len(text)]
    <3>1. /\ text \o two \in Seq(Lines) /\ Len(text \o two) = Len(text) + Len(two)
          /\ \A j \in 1..Len(text) + Len(two) :
                (text \o two)[j] = IF j <= Len(text) THEN text[j] ELSE two[j - Len(text)]
      BY <2>2, ConcatProperties
    <3> QED
      BY <2>1, <2>2, <3>1
  <2>4. /\ \A j \in 1..Len(text) : new[j] = text[j] /\ text[j] # "section"
        /\ new[Len(text) + 1] = "section" /\ new[Len(text) + 2] = "on"
    BY <1>0, <1>1, <2>2, <2>3, HeaderFound, SMTT(40)
  <2>5. Header(new) = Len(text) + 1
    <3>1. Header(new) \in 0..Len(text) + 2 /\ Header(new) # 0
      BY <1>0, <2>3, <2>4, HeaderFound
    <3>2. new[Header(new)] = "section" /\ \A i \in 1..Header(new) - 1 : new[i] # "section"
      BY <2>3, <3>1, HeaderFound
    <3> QED
      BY <1>0, <2>4, <3>1, <3>2
  <2>6. OursOf(new) = {Len(text) + 2}
    <3>1. ASSUME NEW i \in OursOf(new) PROVE i = Len(text) + 2
      <4>1. i \in 1..Len(text) + 2 /\ Ours(new, i)
        BY <2>3, <3>1 DEF OursOf
      <4>2. i > Len(text) + 1
        <5>1. i \in SectionBody(new, Header(new))
          BY <2>3, <4>1, OursInBody
        <5> QED
          BY <2>5, <5>1 DEF SectionBody
      <4> QED
        BY <1>0, <4>1, <4>2
    <3>2. Ours(new, Len(text) + 2)
      <4>1. Len(text) + 1 \in 1..(Len(text) + 2) - 1
            /\ \A j \in (Len(text) + 1) + 1..(Len(text) + 2) - 1 : FALSE
        BY <1>0
      <4>2. new[Len(text) + 2] \in Flag
        BY <2>4 DEF Flag
      <4>3. \A j \in 1..(Len(text) + 1) - 1 : new[j] # "section"
        BY <1>0, <2>4
      <4> QED
        BY <2>4, <4>1, <4>2, <4>3 DEF Ours
    <3>3. Len(text) + 2 \in OursOf(new)
      BY <1>0, <2>3, <3>2 DEF OursOf
    <3> QED
      BY <3>1, <3>3
  <2>7. AtMostOnce(new)
    BY <2>6 DEF AtMostOnce
  <2>8. WithoutFlag(new) = RemoveAt(new, Len(text) + 2)
    BY <2>3, <2>6, <2>7, WithoutIsRemoved
  <2>9. OursOf(text) = {} /\ WithoutFlag(text) = text
    BY <1>0, <1>1, FlagFound DEF WithoutFlag
  <2>10. Append(text, "section") \in Seq(Lines) /\ Len(Append(text, "section")) = Len(text) + 1
         /\ \A j \in 1..Len(text) + 1 :
               Append(text, "section")[j] = IF j <= Len(text) THEN text[j] ELSE "section"
    <3>1. "section" \in Lines
      BY DEF Lines
    <3> QED
      BY <1>0, <3>1, AppendProperties
  <2>11. RemoveAt(new, Len(text) + 2) = Append(text, "section")
    <3> DEFINE less == RemoveAt(new, Len(text) + 2)
    <3>1. Len(text) + 2 \in 1..Len(new)
      BY <1>0, <2>3
    <3>2. less \in Seq(Lines) /\ Len(less) = Len(new) - 1
          /\ \A j \in 1..Len(new) - 1 : less[j] = IF j < Len(text) + 2 THEN new[j] ELSE new[j + 1]
      BY <2>3, <3>1, Removed
    <3> HIDE DEF less
    <3>3. Len(less) = Len(text) + 1
      BY <1>0, <2>3, <3>2
    <3>4. \A j \in 1..Len(text) + 1 : less[j] = Append(text, "section")[j]
      BY <1>0, <2>3, <2>4, <2>10, <3>2
    <3>5. less = Append(text, "section")
      BY <2>10, <3>2, <3>3, <3>4, SeqEqual
    <3> QED
      BY <3>5 DEF less
  <2> QED
    BY <2>3, <2>4, <2>6, <2>7, <2>8, <2>9, <2>11 DEF new
<1>2. CASE Header(text) # 0 /\ OursOf(text) = {}
  <2> DEFINE at == Header(text) + 1
  <2>1. new = InsertAt(text, at, "on") /\ at \in 1..Len(text) + 1 /\ "on" \in Lines
    BY <1>0, <1>2, FlagFound DEF SetFlag, Lines
  <2>2. at \in 2..Len(text) + 1 /\ Header(text) = at - 1
    BY <1>0, <1>2
  <2> HIDE DEF at, new
  <2>3. new \in Seq(Lines) /\ Len(new) = Len(text) + 1
        /\ \A j \in 1..Len(text) + 1 :
              new[j] = IF j < at THEN text[j] ELSE IF j = at THEN "on" ELSE text[j - 1]
    BY <2>1, Inserted, SMTT(30)
  <2>4. text[at - 1] = "section" /\ \A j \in 1..(at - 1) - 1 : text[j] # "section"
    BY <1>2, <2>2, HeaderFound
  <2>5. OursOf(new) = {at}
    <3>1. ASSUME NEW k \in OursOf(new), k # at PROVE FALSE
      <4>1. k \in 1..Len(text) + 1 /\ Ours(new, k)
        BY <2>3, <3>1 DEF OursOf
      <4>2. new[k] \in Flag
        BY <4>1 DEF Ours
      <4>3. PICK h \in 1..k - 1 :
               /\ new[h] = "section" /\ \A j \in 1..h - 1 : new[j] # "section"
               /\ \A j \in h + 1..k - 1 : new[j] \notin {"section", "header"}
        BY <4>1 DEF Ours
      <4>4. h = at - 1
        <5>1. h \in Nat /\ k \in Nat /\ h < k
          BY <1>0, <4>1
        <5>2. new[at - 1] = "section" /\ \A j \in 1..(at - 1) - 1 : new[j] # "section"
          BY <1>0, <2>2, <2>3, <2>4
        <5>3. ~(h < at - 1) /\ ~(at - 1 < h)
          BY <1>0, <2>2, <4>3, <5>1, <5>2
        <5> QED
          BY <1>0, <2>2, <5>1, <5>3
      <4>5. k > at
        BY <1>0, <2>2, <3>1, <4>1, <4>4
      <4>6. k - 1 \in 1..Len(text) /\ text[k - 1] = new[k]
        BY <1>0, <2>2, <2>3, <4>1, <4>5
      <4>7. ASSUME NEW j \in (at - 1) + 1..(k - 1) - 1 PROVE text[j] \notin {"section", "header"}
        <5>1. j + 1 \in h + 1..k - 1 /\ new[j + 1] = text[j]
          BY <1>0, <2>2, <2>3, <4>1, <4>4
        <5> QED
          BY <4>3, <5>1
      <4>8. at - 1 \in 1..(k - 1) - 1
        BY <1>0, <2>2, <4>1, <4>5
      <4>9. Ours(text, k - 1)
        BY <2>4, <4>2, <4>6, <4>7, <4>8 DEF Ours
      <4> QED
        BY <1>2, <4>6, <4>9 DEF OursOf
    <3>2. Ours(new, at)
      <4>1. at - 1 \in 1..at - 1 /\ \A j \in (at - 1) + 1..at - 1 : FALSE
        BY <1>0, <2>2
      <4>2. new[at] \in Flag
        BY <1>0, <2>2, <2>3 DEF Flag
      <4>3. new[at - 1] = "section" /\ \A j \in 1..(at - 1) - 1 : new[j] # "section"
        BY <1>0, <2>2, <2>3, <2>4
      <4> QED
        BY <4>1, <4>2, <4>3 DEF Ours
    <3>3. at \in OursOf(new)
      BY <1>0, <2>2, <2>3, <3>2 DEF OursOf
    <3> QED
      BY <3>1, <3>3
  <2>6. AtMostOnce(new)
    BY <2>5 DEF AtMostOnce
  <2>7. WithoutFlag(new) = RemoveAt(new, at)
    BY <2>3, <2>5, <2>6, WithoutIsRemoved
  <2>8. WithoutFlag(text) = text
    BY <1>2 DEF WithoutFlag
  <2>9. RemoveAt(new, at) = text
    <3> DEFINE less == RemoveAt(new, at)
    <3>1. at \in 1..Len(new)
      BY <1>0, <2>2, <2>3
    <3>2. less \in Seq(Lines) /\ Len(less) = Len(new) - 1
          /\ \A j \in 1..Len(new) - 1 : less[j] = IF j < at THEN new[j] ELSE new[j + 1]
      BY <2>3, <3>1, Removed
    <3> HIDE DEF less
    <3>3. Len(less) = Len(text)
      BY <1>0, <2>3, <3>2
    <3>4. ASSUME NEW j \in 1..Len(text) PROVE less[j] = text[j]
      <4>1. CASE j < at
        BY <1>0, <2>2, <2>3, <3>2, <4>1
      <4>2. CASE ~(j < at)
        <5>1. less[j] = new[j + 1]
          BY <1>0, <2>3, <3>2, <4>2
        <5>2. j + 1 \in 1..Len(text) + 1 /\ ~(j + 1 < at) /\ j + 1 # at /\ (j + 1) - 1 = j
          BY <1>0, <2>2, <4>2
        <5>3. new[j + 1] = text[(j + 1) - 1]
          BY <2>3, <5>2
        <5> QED
          BY <5>1, <5>2, <5>3
      <4> QED
        BY <4>1, <4>2
    <3>5. less = text
      BY <3>2, <3>3, <3>4, SeqEqual
    <3> QED
      BY <3>5 DEF less
  <2>10. new[at] = "on"
    BY <1>0, <2>2, <2>3
  <2> QED
    BY <2>3, <2>5, <2>6, <2>7, <2>8, <2>9, <2>10 DEF new
<1>3. CASE Header(text) # 0 /\ OursOf(text) # {}
  <2>1. PICK at \in OursOf(text) : TRUE
    BY <1>3
  <2>2. at \in 1..Len(text) /\ FlagLine(text) = at /\ OursOf(text) = {at}
        /\ WithoutFlag(text) = RemoveAt(text, at)
    BY <2>1, WithoutIsRemoved
  <2>3. new = [text EXCEPT ![at] = "on"]
    BY <1>0, <1>3, <2>2 DEF SetFlag
  <2>4. "on" \in Lines /\ text[at] \in Flag
    BY <2>1 DEF Lines, OursOf, Ours
  <2> HIDE DEF new
  <2>5. new \in Seq(Lines) /\ Len(new) = Len(text)
        /\ \A j \in 1..Len(text) : new[j] = IF j = at THEN "on" ELSE text[j]
    BY <2>2, <2>3, <2>4, ExceptSeq
  <2>6. ASSUME NEW k \in 1..Len(text) PROVE Ours(new, k) <=> Ours(text, k)
    <3>1. \A j \in 1..Len(text) : /\ new[j] \in Flag <=> text[j] \in Flag
                                  /\ new[j] = "section" <=> text[j] = "section"
                                  /\ new[j] \in {"section", "header"} <=> text[j] \in {"section", "header"}
      BY <2>4, <2>5 DEF Flag
    <3>2. \A j \in 1..k : j \in 1..Len(text)
      BY <1>0
    <3>3. \A h \in 1..k - 1 : h \in 1..Len(text) /\ (\A j \in 1..h - 1 : j \in 1..Len(text))
                               /\ (\A j \in h + 1..k - 1 : j \in 1..Len(text))
      BY <1>0
    <3> QED
      BY <3>1, <3>3 DEF Ours
  <2>7. OursOf(new) = {at}
    <3>1. DOMAIN new = DOMAIN text /\ DOMAIN text = 1..Len(text)
      BY <1>0, <2>5
    <3> QED
      BY <2>2, <2>6, <3>1 DEF OursOf
  <2>8. AtMostOnce(new)
    BY <2>7 DEF AtMostOnce
  <2>9. WithoutFlag(new) = RemoveAt(new, at)
    BY <2>5, <2>7, <2>8, WithoutIsRemoved
  <2>10. RemoveAt(new, at) = RemoveAt(text, at)
    <3>1. RemoveAt(new, at) \in Seq(Lines) /\ Len(RemoveAt(new, at)) = Len(text) - 1
          /\ \A j \in 1..Len(text) - 1 : RemoveAt(new, at)[j] = IF j < at THEN new[j] ELSE new[j + 1]
      BY <2>2, <2>5, Removed
    <3>2. RemoveAt(text, at) \in Seq(Lines) /\ Len(RemoveAt(text, at)) = Len(text) - 1
          /\ \A j \in 1..Len(text) - 1 : RemoveAt(text, at)[j] = IF j < at THEN text[j] ELSE text[j + 1]
      BY <2>2, Removed
    <3>3. \A j \in 1..Len(text) - 1 : RemoveAt(new, at)[j] = RemoveAt(text, at)[j]
      BY <1>0, <2>2, <2>5, <3>1, <3>2
    <3> QED
      BY <3>1, <3>2, <3>3, SeqEqual
  <2>11. new[at] = "on"
    BY <2>2, <2>5
  <2> QED
    BY <2>2, <2>5, <2>7, <2>8, <2>9, <2>10, <2>11 DEF new
<1> QED
  BY <1>1, <1>2, <1>3

-----------------------------------------------------------------------------
(* The installer and the client.                                           *)
LoadingSpec == LoadingInit /\ [][LoadingNext]_loadingVars

Updated(op, text) == IF op = "register" THEN SetFlag(text) ELSE ClearFlag(text)

LoadingTypeOK ==
    /\ file \in Seq(Lines) \cup {NoFile} /\ temp \in Seq(Lines) \cup {NoFile}
    /\ keys \in SUBSET AllKeys /\ usersLines \in Seq(Lines)
    /\ installer \in [op : {"none", "register", "unregister"},
                      at : {"idle", "read", "write", "rename"} \cup AllKeys, text : Seq(Lines)]
    /\ returned \in [op : {"none", "register", "unregister", "failed"}, kept : BOOLEAN]

\* What an installer has behind it, at the step it is at: the keys, the text it
\* is to write, of a file that is still what it was made from, and the
\* temporary file.
InstallerTrue ==
    /\ installer.op = "none" <=> installer.at = "idle"
    /\ installer.op # "none" => returned.op = "none"
    /\ installer.op = "register" =>
          /\ installer.at = "AccessKit" => "WSLDVC_PRIVATE" \in keys
          /\ installer.at \in {"read", "write", "rename"} => keys = AllKeys
    /\ installer.op = "unregister" /\ ~returned.kept =>
          /\ installer.at = "AccessKit" => "WSLDVC_PRIVATE" \notin keys
          /\ installer.at \in {"read", "write", "rename"} => keys = {}
    /\ installer.at \in {"write", "rename"} => installer.text = Updated(installer.op, TextOf(file))
    /\ installer.at = "rename" => temp = installer.text

ProcessTrue ==
    /\ process \in [phase : {"none", "loading", "probed", "loaded", "refused"},
                    route : {"none", "slot", "addins"}, stock : Nat, probed : Nat,
                    slots : Seq({"stock", "ours"})]
    /\ process.phase \in {"none", "loading"} => process.slots = <<>>
    /\ process.phase = "probed" => process.slots = <<>> /\ process.probed = 1 + StockCount

InstallInv == LoadingTypeOK /\ InstallerTrue /\ AsReturned /\ LinesKept
ClientInv == ProcessTrue /\ LoadedOnce
LoadingInv == InstallInv /\ ClientInv

\* The text of a file is lines, none if there is no file.
LEMMA TextIsLines ==
    ASSUME file \in Seq(Lines) \cup {NoFile}
    PROVE  TextOf(file) \in Seq(Lines) /\ (file # NoFile => TextOf(file) = file)
BY DEF TextOf

\* NoFile is not a text.
LEMMA NoFileIsNoLines == NoFile \notin Seq(Lines)
BY LoadingAssumption DEF Lines

\* What an installer writes has the user's lines and the flag as it was to be.
LEMMA UpdateKeeps ==
    ASSUME InstallInv, NEW op \in {"register", "unregister"}
    PROVE  /\ Updated(op, TextOf(file)) \in Seq(Lines)
           /\ AtMostOnce(Updated(op, TextOf(file)))
           /\ WithoutFlag(Updated(op, TextOf(file))) \in {usersLines, Append(usersLines, "section")}
           /\ op = "register" => \E i \in OursOf(Updated(op, TextOf(file))) : Updated(op, TextOf(file))[i] = "on"
           /\ op = "unregister" => OursOf(Updated(op, TextOf(file))) = {}
<1> DEFINE text == TextOf(file)
           new == Updated(op, text)
<1>1. text \in Seq(Lines) /\ AtMostOnce(text) /\ usersLines \in Seq(Lines)
      /\ WithoutFlag(text) \in {usersLines, Append(usersLines, "section")}
  BY TextIsLines DEF InstallInv, LoadingTypeOK, LinesKept
<1>2. Len(usersLines) \in Nat /\ "section" \in Lines
  BY <1>1 DEF Lines
<1>3. Append(usersLines, "section") \in Seq(Lines) /\ Len(Append(usersLines, "section")) = Len(usersLines) + 1
      /\ Append(usersLines, "section")[Len(usersLines) + 1] = "section"
  BY <1>1, <1>2, AppendProperties
<1> HIDE DEF text
<1>4. CASE op = "register"
  <2>1. new = SetFlag(text)
    BY <1>4 DEF Updated
  <2>2. /\ SetFlag(text) \in Seq(Lines) /\ AtMostOnce(SetFlag(text))
        /\ \E i \in OursOf(SetFlag(text)) : SetFlag(text)[i] = "on"
        /\ \/ WithoutFlag(SetFlag(text)) = WithoutFlag(text)
           \/ /\ WithoutFlag(SetFlag(text)) = Append(WithoutFlag(text), "section")
              /\ \A i \in 1..Len(WithoutFlag(text)) : WithoutFlag(text)[i] # "section"
    BY <1>1, SetKeeps
  <2>3. CASE WithoutFlag(SetFlag(text)) = WithoutFlag(text)
    BY <1>1, <1>4, <2>1, <2>2, <2>3 DEF text
  <2>4. CASE /\ WithoutFlag(SetFlag(text)) = Append(WithoutFlag(text), "section")
             /\ \A i \in 1..Len(WithoutFlag(text)) : WithoutFlag(text)[i] # "section"
    <3>1. WithoutFlag(text) # Append(usersLines, "section")
      BY <1>2, <1>3, <2>4
    <3>2. WithoutFlag(SetFlag(text)) = Append(usersLines, "section")
      BY <1>1, <2>4, <3>1
    <3> QED
      BY <1>4, <2>1, <2>2, <3>2 DEF text
  <2> QED
    BY <2>2, <2>3, <2>4
<1>5. CASE op = "unregister"
  <2>1. new = ClearFlag(text)
    BY <1>5 DEF Updated
  <2>2. ClearFlag(text) \in Seq(Lines) /\ ClearFlag(text) = WithoutFlag(text) /\ OursOf(ClearFlag(text)) = {}
    BY <1>1, ClearKeeps
  <2>3. AtMostOnce(new) /\ WithoutFlag(new) = new
    BY <2>1, <2>2 DEF AtMostOnce, WithoutFlag
  <2> QED
    BY <1>1, <1>5, <2>1, <2>2, <2>3 DEF text
<1> QED
  BY <1>4, <1>5

\* The client's steps leave the installer alone.
LEMMA InstallInvUnchanged ==
    ASSUME InstallInv, UNCHANGED <<file, temp, keys, installer, returned, installs, usersLines>>
    PROVE  InstallInv'
BY DEF InstallInv, LoadingTypeOK, InstallerTrue, AsReturned, LinesKept, TextOf

\* The installer's steps leave the client alone.
LEMMA ClientInvUnchanged ==
    ASSUME ClientInv, UNCHANGED process
    PROVE  ClientInv'
BY DEF ClientInv, ProcessTrue, LoadedOnce, StockCount

\* An installer starts.
LEMMA StartInstallKeeps ==
    ASSUME InstallInv, NEW op \in {"register", "unregister"}, StartInstall(op)
    PROVE  InstallInv'
<1>1. /\ installer' = [op |-> op, at |-> "WSLDVC_PRIVATE", text |-> <<>>]
      /\ returned' = [op |-> "none", kept |-> FALSE]
      /\ UNCHANGED <<file, temp, keys, usersLines>>
  BY DEF StartInstall
<1>2. installer'.op = op /\ installer'.at = "WSLDVC_PRIVATE" /\ installer'.text = <<>>
      /\ returned'.op = "none"
  BY <1>1
<1>3. LoadingTypeOK'
  BY <1>1 DEF InstallInv, LoadingTypeOK, AllKeys
<1>4. InstallerTrue'
  BY <1>2 DEF InstallerTrue
<1>5. AsReturned' /\ LinesKept'
  BY <1>1, <1>2 DEF InstallInv, AsReturned, LinesKept, TextOf
<1> QED
  BY <1>3, <1>4, <1>5 DEF InstallInv

\* An installer that returns has no more to do; if it says it succeeded, it has.
LEMMA ReturnKeeps ==
    ASSUME InstallInv, NEW ok \in BOOLEAN, installer.op # "none", Return(ok),
           LoadingTypeOK', LinesKept',
           ok /\ installer.op = "register" =>
              (keys' = AllKeys /\ file' # NoFile /\ \E i \in OursOf(file') : file'[i] = "on"),
           ok /\ installer.op = "unregister" =>
              ((keys' = {} \/ returned.kept) /\ OursOf(TextOf(file)') = {})
    PROVE  InstallInv'
<1>1. installer' = NotInstalling /\ returned' = [returned EXCEPT !.op = IF ok THEN installer.op ELSE "failed"]
  BY DEF Return
<1>2. installer'.op = "none" /\ installer'.at = "idle"
  BY <1>1 DEF NotInstalling
<1>3. returned'.op = (IF ok THEN installer.op ELSE "failed") /\ returned'.kept = returned.kept
  BY <1>1 DEF InstallInv, LoadingTypeOK
<1>4. InstallerTrue'
  BY <1>2 DEF InstallerTrue
<1>5. AsReturned'
  BY <1>3 DEF AsReturned
<1> QED
  BY <1>4, <1>5 DEF InstallInv

\* What it leaves behind is of its type.
LEMMA ReturnTyped ==
    ASSUME InstallInv, NEW ok \in BOOLEAN, Return(ok),
           file' \in Seq(Lines) \cup {NoFile}, temp' \in Seq(Lines) \cup {NoFile},
           keys' \in SUBSET AllKeys, UNCHANGED usersLines
    PROVE  LoadingTypeOK'
<1>1. installer' = NotInstalling /\ returned' = [returned EXCEPT !.op = IF ok THEN installer.op ELSE "failed"]
  BY DEF Return
<1>2. returned' \in [op : {"none", "register", "unregister", "failed"}, kept : BOOLEAN]
  BY <1>1 DEF InstallInv, LoadingTypeOK
<1>3. installer' \in [op : {"none", "register", "unregister"},
                     at : {"idle", "read", "write", "rename"} \cup AllKeys, text : Seq(Lines)]
  BY <1>1 DEF NotInstalling
<1> QED
  BY <1>2, <1>3 DEF InstallInv, LoadingTypeOK

\* It writes or removes a key, or fails to.
LEMMA WriteKeyKeeps ==
    ASSUME InstallInv, NEW ok \in BOOLEAN, WriteKey(ok)
    PROVE  InstallInv'
<1> DEFINE next == IF installer.at = "WSLDVC_PRIVATE" THEN "AccessKit" ELSE "read"
<1>1. /\ installer.at \in AllKeys
      /\ keys' = IF ~ok THEN keys
                 ELSE IF installer.op = "register" THEN keys \cup {installer.at} ELSE keys \ {installer.at}
      /\ UNCHANGED <<file, temp, usersLines>>
  BY DEF WriteKey
<1>2. installer.op \in {"register", "unregister"} /\ returned.op = "none" /\ keys' \in SUBSET AllKeys
  BY <1>1 DEF InstallInv, LoadingTypeOK, InstallerTrue, AllKeys
<1>3. LinesKept'
  BY <1>1 DEF InstallInv, LinesKept, TextOf
<1>4. CASE ok \/ installer.op = "unregister"
  <2>1. installer' = [installer EXCEPT !.at = next] /\ returned' = [returned EXCEPT !.kept = @ \/ ~ok]
    BY <1>4 DEF WriteKey
  <2>2. installer'.op = installer.op /\ installer'.at = next /\ installer'.text = installer.text
        /\ returned'.op = "none" /\ returned'.kept = (returned.kept \/ ~ok)
    BY <1>2, <2>1 DEF InstallInv, LoadingTypeOK
  <2>3. LoadingTypeOK'
    <3>1. returned' \in [op : {"none", "register", "unregister", "failed"}, kept : BOOLEAN]
      BY <2>1 DEF InstallInv, LoadingTypeOK
    <3>2. installer' \in [op : {"none", "register", "unregister"},
                         at : {"idle", "read", "write", "rename"} \cup AllKeys, text : Seq(Lines)]
      BY <2>1 DEF InstallInv, LoadingTypeOK, AllKeys
    <3> QED
      BY <1>1, <1>2, <3>1, <3>2 DEF InstallInv, LoadingTypeOK
  <2>4. installer'.op = "register" =>
          /\ installer'.at = "AccessKit" => "WSLDVC_PRIVATE" \in keys'
          /\ installer'.at \in {"read", "write", "rename"} => keys' = AllKeys
    BY <1>1, <1>2, <1>4, <2>2 DEF InstallInv, InstallerTrue, AllKeys
  <2>5. installer'.op = "unregister" /\ ~returned'.kept =>
          /\ installer'.at = "AccessKit" => "WSLDVC_PRIVATE" \notin keys'
          /\ installer'.at \in {"read", "write", "rename"} => keys' = {}
    BY <1>1, <1>2, <2>2, ZenonT(60) DEF InstallInv, InstallerTrue, LoadingTypeOK, AllKeys
  <2>6. InstallerTrue'
    BY <1>2, <2>2, <2>4, <2>5 DEF InstallerTrue
  <2>7. AsReturned'
    BY <2>2 DEF AsReturned
  <2> QED
    BY <1>3, <2>3, <2>6, <2>7 DEF InstallInv
<1>5. CASE ~(ok \/ installer.op = "unregister")
  <2>1. Return(FALSE)
    BY <1>5 DEF WriteKey
  <2>2. LoadingTypeOK'
    BY <1>1, <1>2, <2>1, ReturnTyped DEF InstallInv, LoadingTypeOK
  <2> QED
    BY <1>2, <1>3, <2>1, <2>2, ReturnKeeps
<1> QED
  BY <1>4, <1>5

\* It reads the file and works out the new text.
LEMMA ReadConfigKeeps ==
    ASSUME InstallInv, NEW ok \in BOOLEAN, ReadConfig(ok)
    PROVE  InstallInv'
<1> DEFINE text == TextOf(file)
           updated == IF installer.op = "register" THEN SetFlag(text) ELSE ClearFlag(text)
           nothing == IF installer.op = "register" THEN updated = file ELSE file = NoFile \/ updated = file
<1>1. installer.at = "read" /\ UNCHANGED <<file, temp, keys, usersLines>>
  BY DEF ReadConfig
<1>2. installer.op \in {"register", "unregister"} /\ returned.op = "none"
  BY <1>1 DEF InstallInv, LoadingTypeOK, InstallerTrue
<1>3. updated = Updated(installer.op, text)
  BY DEF Updated
<1>4. LinesKept'
  BY <1>1 DEF InstallInv, LinesKept, TextOf
<1>5. /\ updated \in Seq(Lines)
      /\ installer.op = "register" => \E i \in OursOf(updated) : updated[i] = "on"
      /\ installer.op = "unregister" => OursOf(updated) = {}
  BY <1>2, <1>3, UpdateKeeps
<1>6. CASE ~ok \/ nothing
  <2>1. Return(ok)
    BY <1>6 DEF ReadConfig
  <2>2. LoadingTypeOK'
    BY <1>1, <2>1, ReturnTyped DEF InstallInv, LoadingTypeOK
  <2>3. ok /\ installer.op = "register" =>
              (keys' = AllKeys /\ file' # NoFile /\ \E i \in OursOf(file') : file'[i] = "on")
    BY <1>1, <1>5, <1>6, NoFileIsNoLines DEF InstallInv, InstallerTrue
  <2>4. ok /\ installer.op = "unregister" =>
              ((keys' = {} \/ returned.kept) /\ OursOf(TextOf(file)') = {})
    <3> SUFFICES ASSUME ok, installer.op = "unregister"
                 PROVE  (keys' = {} \/ returned.kept) /\ OursOf(TextOf(file)') = {}
      OBVIOUS
    <3>1. keys' = {} \/ returned.kept
      BY <1>1 DEF InstallInv, InstallerTrue
    <3>2. TextOf(file)' = text
      BY <1>1 DEF TextOf
    <3>3. CASE file = NoFile
      <4>1. text = <<>>
        BY <3>3 DEF TextOf
      <4> QED
        BY <3>1, <3>2, <4>1 DEF OursOf
    <3>4. CASE updated = file /\ file # NoFile
      <4>1. text = updated
        BY <3>4 DEF TextOf
      <4> QED
        BY <1>5, <3>1, <3>2, <4>1
    <3> QED
      BY <1>6, <3>3, <3>4
  <2> QED
    BY <1>2, <1>4, <2>1, <2>2, <2>3, <2>4, ReturnKeeps
<1>7. CASE ~(~ok \/ nothing)
  <2>1. installer' = [installer EXCEPT !.at = "write", !.text = updated] /\ UNCHANGED returned
    BY <1>7 DEF ReadConfig
  <2>2. installer'.op = installer.op /\ installer'.at = "write" /\ installer'.text = updated
    BY <2>1 DEF InstallInv, LoadingTypeOK
  <2>3. LoadingTypeOK'
    <3>1. installer' \in [op : {"none", "register", "unregister"},
                         at : {"idle", "read", "write", "rename"} \cup AllKeys, text : Seq(Lines)]
      BY <1>5, <2>1 DEF InstallInv, LoadingTypeOK
    <3> QED
      BY <1>1, <2>1, <3>1 DEF InstallInv, LoadingTypeOK
  <2>4. TextOf(file)' = text
    BY <1>1 DEF TextOf
  <2>5. InstallerTrue'
    BY <1>1, <1>2, <1>3, <2>1, <2>2, <2>4 DEF InstallInv, InstallerTrue
  <2>6. AsReturned'
    BY <1>2, <2>1 DEF AsReturned
  <2> QED
    BY <1>4, <2>3, <2>5, <2>6 DEF InstallInv
<1> QED
  BY <1>6, <1>7

\* A part of a text is a text.
LEMMA PartOfLines ==
    ASSUME NEW text \in Seq(Lines), NEW n \in 0..Len(text)
    PROVE  SubSeq(text, 1, n) \in Seq(Lines)
<1>1. Len(text) \in Nat /\ \A i \in 1..n : text[i] \in Lines
  OBVIOUS
<1> QED
  BY <1>1, SubSeqProperties

\* It writes the temporary file, or part of it.
LEMMA WriteTempKeeps ==
    ASSUME InstallInv, NEW ok \in BOOLEAN, WriteTemp(ok)
    PROVE  InstallInv'
<1>1. installer.at = "write" /\ UNCHANGED <<file, keys, usersLines>>
  BY DEF WriteTemp
<1>2. PICK n \in 0..Len(installer.text) :
         (ok => n = Len(installer.text)) /\ temp' = SubSeq(installer.text, 1, n)
  BY DEF WriteTemp
<1>3. installer.op # "none" /\ returned.op = "none" /\ installer.text \in Seq(Lines)
  BY <1>1 DEF InstallInv, LoadingTypeOK, InstallerTrue
<1>4. temp' \in Seq(Lines)
  BY <1>2, <1>3, PartOfLines
<1>5. LinesKept'
  BY <1>1 DEF InstallInv, LinesKept, TextOf
<1>6. CASE ok
  <2>1. installer' = [installer EXCEPT !.at = "rename"] /\ UNCHANGED returned
    BY <1>6 DEF WriteTemp
  <2>2. installer'.op = installer.op /\ installer'.at = "rename" /\ installer'.text = installer.text
    BY <2>1 DEF InstallInv, LoadingTypeOK
  <2>3. temp' = installer.text
    BY <1>2, <1>3, <1>6, SubSeqFull
  <2>4. LoadingTypeOK'
    <3>1. installer' \in [op : {"none", "register", "unregister"},
                         at : {"idle", "read", "write", "rename"} \cup AllKeys, text : Seq(Lines)]
      BY <2>1 DEF InstallInv, LoadingTypeOK
    <3> QED
      BY <1>1, <1>4, <2>1, <3>1 DEF InstallInv, LoadingTypeOK
  <2>5. InstallerTrue'
    <3>1. TextOf(file)' = TextOf(file)
      BY <1>1 DEF TextOf
    <3> QED
      BY <1>1, <1>3, <2>1, <2>2, <2>3, <3>1 DEF InstallInv, InstallerTrue
  <2>6. AsReturned'
    BY <1>3, <2>1 DEF AsReturned
  <2> QED
    BY <1>5, <2>4, <2>5, <2>6 DEF InstallInv
<1>7. CASE ~ok
  <2>1. Return(FALSE)
    BY <1>7 DEF WriteTemp
  <2>2. LoadingTypeOK'
    BY <1>1, <1>4, <2>1, ReturnTyped DEF InstallInv, LoadingTypeOK
  <2> QED
    BY <1>3, <1>5, <2>1, <2>2, ReturnKeeps
<1> QED
  BY <1>6, <1>7

\* It puts the temporary file in the place of the file.
LEMMA RenameKeeps ==
    ASSUME InstallInv, NEW ok \in BOOLEAN, Rename(ok)
    PROVE  InstallInv'
<1>1. installer.at = "rename" /\ UNCHANGED <<keys, usersLines>> /\ Return(ok)
  BY DEF Rename
<1>2. /\ installer.op \in {"register", "unregister"}
      /\ temp = installer.text /\ installer.text = Updated(installer.op, TextOf(file))
  BY <1>1 DEF InstallInv, LoadingTypeOK, InstallerTrue
<1> DEFINE new == Updated(installer.op, TextOf(file))
<1>3. /\ new \in Seq(Lines) /\ AtMostOnce(new)
      /\ WithoutFlag(new) \in {usersLines, Append(usersLines, "section")}
      /\ installer.op = "register" => \E i \in OursOf(new) : new[i] = "on"
      /\ installer.op = "unregister" => OursOf(new) = {}
  BY <1>2, UpdateKeeps
<1> HIDE DEF new
<1>4. CASE ok
  <2>1. file' = new /\ temp' = NoFile
    BY <1>2, <1>4 DEF Rename, new
  <2>2. file' # NoFile /\ TextOf(file)' = new
    BY <1>3, <2>1, NoFileIsNoLines DEF TextOf
  <2>3. LoadingTypeOK'
    BY <1>1, <1>3, <2>1, ReturnTyped DEF InstallInv, LoadingTypeOK
  <2>4. LinesKept'
    BY <1>1, <1>3, <2>2 DEF LinesKept
  <2>5. installer.op = "register" => keys' = AllKeys
    BY <1>1 DEF InstallInv, InstallerTrue
  <2>6. installer.op = "unregister" => keys' = {} \/ returned.kept
    BY <1>1 DEF InstallInv, InstallerTrue
  <2>7. installer.op # "none"
    BY <1>2
  <2> QED
    BY <1>1, <1>3, <2>1, <2>2, <2>3, <2>4, <2>5, <2>6, <2>7, ReturnKeeps
<1>5. CASE ~ok
  <2>1. UNCHANGED <<file, temp>>
    BY <1>5 DEF Rename
  <2>2. LoadingTypeOK'
    BY <1>1, <2>1, ReturnTyped DEF InstallInv, LoadingTypeOK
  <2>3. LinesKept'
    BY <1>1, <2>1 DEF InstallInv, LinesKept, TextOf
  <2> QED
    BY <1>1, <1>2, <1>5, <2>2, <2>3, ReturnKeeps
<1> QED
  BY <1>4, <1>5

\* It dies.
LEMMA KilledKeeps ==
    ASSUME InstallInv, Killed
    PROVE  InstallInv'
<1>1. installer.op # "none" /\ Return(FALSE) /\ UNCHANGED <<file, keys, usersLines>>
  BY DEF Killed
<1>2. temp' \in Seq(Lines) \cup {NoFile}
  <2>1. CASE installer.at = "write"
    <3>1. PICK n \in 0..Len(installer.text) : temp' = SubSeq(installer.text, 1, n)
      BY <2>1 DEF Killed
    <3>2. installer.text \in Seq(Lines)
      BY DEF InstallInv, LoadingTypeOK
    <3> QED
      BY <3>1, <3>2, PartOfLines
  <2>2. CASE installer.at # "write"
    BY <2>2 DEF Killed, InstallInv, LoadingTypeOK
  <2> QED
    BY <2>1, <2>2
<1>3. LoadingTypeOK'
  BY <1>1, <1>2, ReturnTyped DEF InstallInv, LoadingTypeOK
<1>4. LinesKept'
  BY <1>1 DEF InstallInv, LinesKept, TextOf
<1> QED
  BY <1>1, <1>3, <1>4, ReturnKeeps

-----------------------------------------------------------------------------
(* The client.                                                             *)
\* A client starts.
LEMMA StartClient ==
    ASSUME ClientInv, NEW route \in {"slot", "addins"}, NEW stock \in 0..MaxStock, ClientStarts(route, stock)
    PROVE  ClientInv'
<1>1. process' = [phase |-> "loading", route |-> route, stock |-> stock, probed |-> 0, slots |-> <<>>]
  BY DEF ClientStarts
<1>2. stock \in Nat /\ <<>> \in Seq({"stock", "ours"}) /\ Len(<<>>) = 0
  OBVIOUS
<1>3. process' \in [phase : {"none", "loading", "probed", "loaded", "refused"},
                   route : {"none", "slot", "addins"}, stock : Nat, probed : Nat,
                   slots : Seq({"stock", "ours"})]
  BY <1>1, <1>2
<1>4. process'.phase = "loading" /\ process'.slots = <<>> /\ process'.probed = 0
  BY <1>1
<1> QED
  BY <1>2, <1>3, <1>4 DEF ClientInv, ProcessTrue, LoadedOnce

\* How many stock plug-ins a client is told of.
LEMMA StockCounts ==
    ASSUME ProcessTrue
    PROVE  StockCount \in Nat /\ StockCount = IF process.route = "slot" THEN process.stock ELSE 0
BY DEF ProcessTrue, StockCount, WantsStock

\* It asks how many there are.
LEMMA ProbeClient ==
    ASSUME ClientInv, Probe
    PROVE  ClientInv'
<1>1. process.phase = "loading" /\ process' = [process EXCEPT !.phase = "probed", !.probed = 1 + StockCount]
  BY DEF Probe
<1>2. StockCount \in Nat /\ 1 + StockCount \in Nat
  <2>1. StockCount \in Nat
    BY StockCounts DEF ClientInv
  <2> QED
    BY <2>1
<1>3. process'.phase = "probed" /\ process'.probed = 1 + StockCount /\ process'.slots = <<>>
      /\ process'.route = process.route /\ process'.stock = process.stock
  BY <1>1 DEF ClientInv, ProcessTrue
<1>4. process' \in [phase : {"none", "loading", "probed", "loaded", "refused"},
                   route : {"none", "slot", "addins"}, stock : Nat, probed : Nat,
                   slots : Seq({"stock", "ours"})]
  <2> DEFINE count == 1 + StockCount
  <2>1. count \in Nat /\ process' = [process EXCEPT !.phase = "probed", !.probed = count]
    BY <1>1, <1>2
  <2> HIDE DEF count
  <2> QED
    BY <2>1 DEF ClientInv, ProcessTrue
<1>5. StockCount' = StockCount
  BY <1>3 DEF StockCount
<1>6. Len(<<>>) = 0
  OBVIOUS
<1> QED
  BY <1>2, <1>3, <1>4, <1>5, <1>6 DEF ClientInv, ProcessTrue, LoadedOnce

\* The lesser of two numbers.
LEMMA Lesser ==
    ASSUME NEW x \in Nat, NEW y \in Nat
    PROVE  Min({x, y}) = IF x <= y THEN x ELSE y
<1>1. \E m \in {x, y} : \A z \in {x, y} : m <= z
  OBVIOUS
<1>2. Min({x, y}) \in {x, y} /\ \A z \in {x, y} : Min({x, y}) <= z
  BY <1>1 DEF Min
<1> QED
  BY <1>2

\* It asks for them, with room for as many or fewer.
LEMMA FetchClient ==
    ASSUME ClientInv, NEW cap \in 0..process.probed, NEW refused \in BOOLEAN, Fetch(cap, refused)
    PROVE  ClientInv'
<1> DEFINE Plugins == {"stock", "ours"}
           fetched == IF refused THEN 0 ELSE Min({cap, StockCount})
           stock == [i \in 1..fetched |-> "stock"]
           slots == IF fetched < cap THEN Append(stock, "ours") ELSE stock
<1>1. /\ process.phase = "probed"
      /\ process' = [process EXCEPT !.phase = IF refused THEN "refused" ELSE "loaded",
                                   !.probed = cap, !.slots = slots]
  BY DEF Fetch
<1>2. StockCount \in Nat /\ process.probed = 1 + StockCount /\ cap \in Nat
      /\ StockCount = IF process.route = "slot" THEN process.stock ELSE 0
  BY <1>1, StockCounts DEF ClientInv, ProcessTrue
<1>3. fetched \in Nat /\ fetched <= cap /\ (~refused /\ cap = 1 + StockCount => fetched = StockCount)
  BY <1>2, Lesser
<1> HIDE DEF fetched
<1>4. stock \in Seq(Plugins) /\ Len(stock) = fetched
  BY <1>3
<1>5. slots \in Seq(Plugins) /\ Len(slots) <= cap
  <2> HIDE DEF stock
  <2>1. Append(stock, "ours") \in Seq(Plugins) /\ Len(Append(stock, "ours")) = fetched + 1
    BY <1>4, AppendProperties
  <2> QED
    BY <1>2, <1>3, <1>4, <2>1
<1> HIDE DEF slots
<1>6. process' \in [phase : {"none", "loading", "probed", "loaded", "refused"},
                   route : {"none", "slot", "addins"}, stock : Nat, probed : Nat, slots : Seq(Plugins)]
  BY <1>1, <1>2, <1>5 DEF ClientInv, ProcessTrue
<1>7. /\ process'.phase = (IF refused THEN "refused" ELSE "loaded") /\ process'.probed = cap
      /\ process'.slots = slots /\ process'.route = process.route /\ process'.stock = process.stock
  BY <1>1 DEF ClientInv, ProcessTrue
<1>8. ~refused /\ cap = 1 + StockCount => slots = Append([i \in 1..cap - 1 |-> "stock"], "ours")
  <2> SUFFICES ASSUME ~refused, cap = 1 + StockCount
               PROVE  slots = Append([i \in 1..cap - 1 |-> "stock"], "ours")
    OBVIOUS
  <2>1. fetched = cap - 1 /\ fetched < cap
    BY <1>2, <1>3
  <2> QED
    BY <2>1 DEF slots
<1>9. ProcessTrue'
  BY <1>6, <1>7 DEF ProcessTrue
<1>10. LoadedOnce'
  BY <1>2, <1>5, <1>7, <1>8 DEF LoadedOnce
<1> QED
  BY <1>9, <1>10 DEF ClientInv

\* It exits.
LEMMA NoProcessHolds ==
    ASSUME process' = NoProcess
    PROVE  ClientInv'
<1>1. <<>> \in Seq({"stock", "ours"}) /\ Len(<<>>) = 0
  OBVIOUS
<1> QED
  BY <1>1 DEF ClientInv, ProcessTrue, LoadedOnce, NoProcess

-----------------------------------------------------------------------------
\* The invariant holds at the start.
LEMMA LoadingInitHolds == LoadingInit => LoadingInv
<1> SUFFICES ASSUME LoadingInit PROVE LoadingInv
  OBVIOUS
<1>1. file \in Seq(Lines) \cup {NoFile} /\ (file # NoFile => AtMostOnce(file))
  BY DEF LoadingInit
<1>2. OursOf(<<>>) = {}
  BY DEF OursOf
<1>3. TextOf(file) \in Seq(Lines) /\ AtMostOnce(TextOf(file))
  BY <1>1, <1>2 DEF TextOf, AtMostOnce
<1>4. usersLines = WithoutFlag(TextOf(file)) /\ usersLines \in Seq(Lines)
  BY <1>3, ClearKeeps DEF LoadingInit
<1>5. /\ temp = NoFile /\ keys = {} /\ installer = NotInstalling
      /\ returned = [op |-> "none", kept |-> FALSE] /\ process = NoProcess
  BY DEF LoadingInit
<1>6. LoadingTypeOK
  <2>1. <<>> \in Seq(Lines)
    OBVIOUS
  <2> QED
    BY <1>1, <1>4, <1>5, <2>1 DEF LoadingTypeOK, NotInstalling
<1>7. InstallerTrue /\ AsReturned /\ LinesKept
  BY <1>3, <1>4, <1>5 DEF InstallerTrue, AsReturned, LinesKept, NotInstalling
<1>8. ProcessTrue /\ LoadedOnce
  <2>1. <<>> \in Seq({"stock", "ours"}) /\ Len(<<>>) = 0
    OBVIOUS
  <2> QED
    BY <1>5, <2>1 DEF ProcessTrue, LoadedOnce, NoProcess
<1> QED
  BY <1>6, <1>7, <1>8 DEF LoadingInv, InstallInv, ClientInv

\* Every step keeps it.
LEMMA LoadingNextKeeps == LoadingInv /\ [LoadingNext]_loadingVars => LoadingInv'
<1> SUFFICES ASSUME LoadingInv, [LoadingNext]_loadingVars PROVE LoadingInv'
  OBVIOUS
<1>0. InstallInv /\ ClientInv
  BY DEF LoadingInv
<1>1. ASSUME NEW op \in {"register", "unregister"}, StartInstall(op) PROVE LoadingInv'
  BY <1>0, <1>1, StartInstallKeeps, ClientInvUnchanged DEF StartInstall, LoadingInv
<1>2. ASSUME NEW ok \in BOOLEAN, WriteKey(ok) PROVE LoadingInv'
  BY <1>0, <1>2, WriteKeyKeeps, ClientInvUnchanged DEF WriteKey, LoadingInv
<1>3. ASSUME NEW ok \in BOOLEAN, ReadConfig(ok) PROVE LoadingInv'
  BY <1>0, <1>3, ReadConfigKeeps, ClientInvUnchanged DEF ReadConfig, LoadingInv
<1>4. ASSUME NEW ok \in BOOLEAN, WriteTemp(ok) PROVE LoadingInv'
  BY <1>0, <1>4, WriteTempKeeps, ClientInvUnchanged DEF WriteTemp, LoadingInv
<1>5. ASSUME NEW ok \in BOOLEAN, Rename(ok) PROVE LoadingInv'
  BY <1>0, <1>5, RenameKeeps, ClientInvUnchanged DEF Rename, LoadingInv
<1>6. ASSUME Killed PROVE LoadingInv'
  BY <1>0, <1>6, KilledKeeps, ClientInvUnchanged DEF Killed, LoadingInv
<1>7. ASSUME NEW route \in {"slot", "addins"}, NEW stock \in 0..MaxStock, ClientStarts(route, stock)
      PROVE  LoadingInv'
  BY <1>0, <1>7, StartClient, InstallInvUnchanged DEF ClientStarts, LoadingInv
<1>8. ASSUME Probe PROVE LoadingInv'
  BY <1>0, <1>8, ProbeClient, InstallInvUnchanged DEF Probe, LoadingInv
<1>9. ASSUME NEW cap \in 0..process.probed, NEW refused \in BOOLEAN, Fetch(cap, refused)
      PROVE  LoadingInv'
  BY <1>0, <1>9, FetchClient, InstallInvUnchanged DEF Fetch, LoadingInv
<1>10. ASSUME ClientExits PROVE LoadingInv'
  BY <1>0, <1>10, NoProcessHolds, InstallInvUnchanged DEF ClientExits, LoadingInv
<1>11. CASE UNCHANGED loadingVars
  BY <1>0, <1>11, InstallInvUnchanged, ClientInvUnchanged DEF loadingVars, LoadingInv
<1> QED
  BY <1>1, <1>2, <1>3, <1>4, <1>5, <1>6, <1>7, <1>8, <1>9, <1>10, <1>11 DEF LoadingNext

(* At every step of an installer the keys, the text and the temporary file *)
(* are what its stage says, and a client holds what it was offered.        *)
THEOREM LoadingInvariance == LoadingSpec => []LoadingInv
BY LoadingInitHolds, LoadingNextKeeps, PTL DEF LoadingSpec

(* A registration or unregistration that reported success has happened,    *)
(* after whatever earlier ones died over; the file has the user's lines at *)
(* every moment; a client has the plug-in exactly once, after the stock    *)
(* ones (register, unregister, set_flag, clear_flag, get_instance).        *)
THEOREM LoadedAsTheInstallerSaid == LoadingSpec => []LoadedAsRegistered
<1>1. LoadingInv => LoadedAsRegistered
  BY DEF LoadingInv, InstallInv, ClientInv, LoadedAsRegistered
<1> QED
  BY <1>1, LoadingInvariance, PTL
=============================================================================
