---------------------------- MODULE MCComposeSend ----------------------------
(* ComposeSend as TLC checks it; the runs differ in their bounds. *)
EXTENDS ComposeSend
=============================================================================
