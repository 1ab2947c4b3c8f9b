--------------------------- MODULE MCWatchedFile ---------------------------
(***************************************************************************)
(* WatchedFile for TLC: the relay and CLI commands, a touch that leaves    *)
(* the length of the file alone and revocations that change it.            *)
(***************************************************************************)
EXTENDS WatchedFile, TLC

CONSTANTS relay, cli, touch, revoke

MCProc == {relay, cli}
NoReaders == {}
MCReaders == {relay}
MCEdit == {touch, revoke}
MCResizing == {revoke}
MCSize == [edits \in SUBSET MCEdit |-> 10 + Cardinality(edits \cap MCResizing)]
=============================================================================
