------------------------------ MODULE MCDaemon ------------------------------
(* Clients that queue up behind another. PEER_TIMEOUT is four PING_INTERVALs *)
(* as in host.rs; a tick is half an interval, and the loop, which turns    *)
(* every 50 ms, is allowed to be as slow as a tick.                        *)
EXTENDS Daemon

MCPingInterval == 2
MCPeerTimeout == 4 * MCPingInterval
=============================================================================
