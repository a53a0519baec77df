------------------------------ MODULE MCPbFlow ------------------------------
(* Operands of up to three bytes of three values.                          *)
EXTENDS PbFlow
=============================================================================
