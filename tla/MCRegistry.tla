----------------------------- MODULE MCRegistry -----------------------------
(***************************************************************************)
(* Registry for TLC: two shells beside the relay, three ids, two names.    *)
(***************************************************************************)
EXTENDS Registry, TLC

CONSTANTS s1, s2, i1, i2, i3, hostname, laptop

MCProcess == {s1, s2, Relay}
MCAgentId == {i1, i2, i3}
MCLabel == {hostname, laptop}
MCSymmetry == Permutations({s1, s2}) \cup Permutations(MCAgentId)
=============================================================================
