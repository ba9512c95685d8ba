----------------------------- MODULE MCImeiTool -----------------------------
(* Instances of ImeiTool for TLC. *)
EXTENDS ImeiTool
=============================================================================
