---------------------------- MODULE MCConnection ----------------------------
(***************************************************************************)
(* What lies along one connection, each part in behaviours of its own: the *)
(* framing and the handshake of its sessions, the daemon that serves one   *)
(* client at a time, the ids it finds in weston's log, and the desktop the *)
(* other end composes.  The constants are those of every part; a part that *)
(* is not the one of a behaviour stays as it starts.                       *)
(*                                                                         *)
(* Builds for the handshake: this version with JSON, the same with a       *)
(* second codec before or after it, a future version that still speaks to  *)
(* this one, a future version that does not, and a build with another      *)
(* codec only.  Today's builds are Provider1 and a Consumer1 alike.        *)
(*                                                                         *)
(* For the daemon, a client that waits behind another.  PEER_TIMEOUT is    *)
(* four PING_INTERVALs as in host.rs; a tick is half an interval, and the  *)
(* loop, which turns every 50 ms, is allowed to be as slow as a tick.      *)
(*                                                                         *)
(* For the desktop, two windows whose trees gain and lose a child.  For    *)
(* the ids, two windows of an app the source knows the id of, and one of   *)
(* an app it does not.                                                     *)
(***************************************************************************)
EXTENDS Handshake, Framing, Wslg, Daemon, Desktop

CONSTANTS n0, n1

VARIABLE part    \* the part a behaviour is of

vars == <<part, framingVars, wslgVars, daemonVars, desktopVars, handshakeVars>>

-----------------------------------------------------------------------------
Build(role, version, oldest, codecs) ==
    [role |-> role, version |-> version, oldest |-> oldest, codecs |-> codecs]

Provider1 == Build("Provider", 1, 1, <<"json">>)
Provider1Packed == Build("Provider", 1, 1, <<"packed", "json">>)
Provider2 == Build("Provider", 2, 2, <<"json">>)
Consumer1 == Build("Consumer", 1, 1, <<"json">>)
Consumer1Packed == Build("Consumer", 1, 1, <<"json", "packed">>)
Consumer2 == Build("Consumer", 2, 1, <<"json">>)
ConsumerPigeon == Build("Consumer", 1, 1, <<"pigeon">>)

Pair(l, r) == [left |-> l, right |-> r]

MCPairings ==
    { Pair(Provider1Packed, Consumer1Packed),   \* the two sides prefer differently
      Pair(Provider2, Consumer2),               \* two future builds
      Pair(Provider1, Consumer2),               \* version skew both accept
      Pair(Provider2, Consumer1),               \* version skew only one accepts
      Pair(Provider1, ConsumerPigeon),          \* no common codec
      Pair(Provider1, Provider1) }              \* two providers

MCPingInterval == 2
MCPeerTimeout == 4 * MCPingInterval

MCTrees == {{Node(n0, {})}, {Node(n0, {n1}), Node(n1, {})}}

MCPayloads == {<<>>, <<1>>, <<0, 2>>, <<2, 1, 0, 0>>, <<1, 1, 1, 1, 1>>}
MCAppOf == [w \in Toplevels |-> IF w = 3 THEN "anonymous" ELSE "terminal"]

-----------------------------------------------------------------------------
\* A pair of sessions that has parted.
Parted ==
    /\ config = Pair(Provider1Packed, Consumer1Packed)
    /\ session = [p \in Peers |-> [phase |-> "Closed", codec |-> None, out |-> <<>>]]
    /\ wire = [p \in Peers |-> <<>>] /\ sent = wire /\ got = wire /\ sends = 0

Init ==
    /\ part \in {"handshake", "framing", "daemon", "wslg", "desktop"}
    /\ IF part = "handshake" THEN HandshakeInit ELSE Parted
    /\ FramingInit /\ DaemonInit /\ WslgInit /\ DesktopInit

Next ==
    /\ UNCHANGED part
    /\ \/ /\ part = "handshake" /\ HandshakeNext
          /\ UNCHANGED <<framingVars, wslgVars, daemonVars, desktopVars>>
       \/ /\ part = "framing" /\ FramingNext
          /\ UNCHANGED <<wslgVars, daemonVars, desktopVars, handshakeVars>>
       \/ /\ part = "daemon" /\ DaemonNext
          /\ UNCHANGED <<framingVars, wslgVars, desktopVars, handshakeVars>>
       \/ /\ part = "wslg" /\ WslgNext
          /\ UNCHANGED <<framingVars, daemonVars, desktopVars, handshakeVars>>
       \/ /\ part = "desktop" /\ DesktopNext
          /\ UNCHANGED <<framingVars, wslgVars, daemonVars, handshakeVars>>

(* Each part has the fairness its module states and gives the reasons for. *)
Spec ==
    /\ Init /\ [][Next]_vars
    /\ \A p \in {"left", "right"} :
          /\ WF_handshakeVars(part = "handshake" /\ Read(p))
          /\ WF_handshakeVars(part = "handshake" /\ Write(p))
    /\ WF_daemonVars(part = "daemon" /\ Accept)
    /\ WF_daemonVars(part = "daemon" /\ (Turn \/ SeeHangup))
    /\ WF_daemonVars(part = "daemon" /\ Tick)
    /\ WF_queue(part = "desktop" /\ Take) /\ WF_queue(part = "desktop" /\ Beat)

-----------------------------------------------------------------------------
\* Every variable has the shape its module gives it.
TypeOK == HandshakeTypeOK /\ DaemonTypeOK /\ DesktopTypeOK
=============================================================================
