----------------------------- MODULE MCPfDevice -----------------------------
(***************************************************************************)
(* PfDevice with a buffer for one interface and up to three of them.       *)
(***************************************************************************)
EXTENDS PfDevice

CONSTANTS c1, c2, en0, lo0, utun0
=============================================================================
