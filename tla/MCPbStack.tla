----------------------------- MODULE MCPbStack -----------------------------
(* Instance of PbStack: a char and two ints in a scratchpad of a few cells. *)
EXTENDS PbStack

CONSTANTS c, p, q

MCVars   == {c, p, q}
MCSizeOf == [x \in MCVars |-> IF x = c THEN 1 ELSE 2]
=============================================================================
