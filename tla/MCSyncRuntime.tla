--------------------------- MODULE MCSyncRuntime ---------------------------
(* Two callers of one account: they may share a run, start                 *)
(* two runs one after the other, or start a run and cancel it.             *)
EXTENDS SyncRuntime

CONSTANTS c1, c2

TwoCallers == {c1, c2}
=============================================================================
