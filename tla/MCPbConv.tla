------------------------------ MODULE MCPbConv ------------------------------
(* Every function of up to four parameters of the sizes of C types.        *)
EXTENDS PbConv
MCParamLists == UNION {[1 .. n -> {1, 2, 4}] : n \in 0 .. 4}
=============================================================================
