---------------------------- MODULE MCPluginSync ----------------------------
(***************************************************************************)
(* PluginSync for TLC: the codes of two machines and two terminals.        *)
(***************************************************************************)
EXTENDS PluginSync, TLC

CONSTANTS t1, t2, pc, lap

MCTerminal == {t1, t2}
MCAgent == {pc, lap}
=============================================================================
