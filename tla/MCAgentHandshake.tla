-------------------------- MODULE MCAgentHandshake --------------------------
(***************************************************************************)
(* AgentHandshake for TLC: one machine seen from two addresses, clocks     *)
(* that are slow, fast or too fast, and small windows and limits.          *)
(***************************************************************************)
EXTENDS AgentHandshake, TLC

MCDrift == {-1, 1, 2}
MCSymmetry == Permutations(Nonce) \cup Permutations(Address)
=============================================================================
