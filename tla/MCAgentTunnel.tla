--------------------------- MODULE MCAgentTunnel ---------------------------
(***************************************************************************)
(* AgentTunnel for TLC: one machine, dialed by one TunnelClient or by two  *)
(* (a plugin that was restarted, or a second copy of the credentials).     *)
(***************************************************************************)
EXTENDS AgentTunnel, TLC

CONSTANTS k1, k2, pc, c1, c2, x1

OneClient == {k1}
TwoClients == {k1, k2}
MCAgent == {pc}
MCAgentOf == [k \in Client |-> pc]
TwoConns == {c1, c2}
OneExchange == {x1}
=============================================================================
