----------------------------- MODULE MCPbLabels -----------------------------
EXTENDS PbLabels
CONSTANTS x, p, t, l
MCSyms == {x, p, t, tmpOp}
MCSizeOf == [s \in MCSyms |-> IF s = p THEN 1 ELSE 2]
MCTemps == {t}
MCLiterals(s) == {[i \in Bytes(s) |-> IF i = 0 /\ s # t THEN 0 ELSE 1]}
=============================================================================
