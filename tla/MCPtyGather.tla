----------------------------- MODULE MCPtyGather -----------------------------
(* Small instances of PtyGather. *)
EXTENDS PtyGather
=============================================================================
