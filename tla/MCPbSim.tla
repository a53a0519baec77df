------------------------------ MODULE MCPbSim ------------------------------
(* Every program of three cells over eight instructions; two frames, the   *)
(* cell of the stack beyond them is never used; the last cell of the code  *)
(* is the interrupt vector.                                                *)
EXTENDS PbSim
I(op, cond, arg) == [op |-> op, cond |-> cond, arg |-> arg]
MCMove == I("move", "always", 0)
MCInsts ==
  {I("data", "always", 0), I("io", "always", 0), I("call", "C", 1), I("callto", "always", 0),
   I("ret", "always", 0), I("reti", "always", 1), I("int", "always", 1),
   I("bank", "always", 1)}
MCInit == SimInit /\ stack[MAXSTK - 1] = NoCell
MCSpec == MCInit /\ [][SimNext]_simVars
=============================================================================
