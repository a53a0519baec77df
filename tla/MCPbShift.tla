----------------------------- MODULE MCPbShift -----------------------------
(* Operands of one and two bytes of two bits, every count.                 *)
EXTENDS PbShift
MCMoves == {0, 1}
=============================================================================
