------------------------------ MODULE MCPbCallForms ------------------------------
EXTENDS PbCallForms
CONSTANTS x, y, w
MCSyms == {x, y, w, starSym}
MCSizeOf == [s \in MCSyms |-> IF s \in {w, starSym} THEN 2 ELSE 1]
MCTemps == {}
MCParams == {<<>>, <<x>>, <<w>>}
Two(v) == [i \in 0 .. 1 |-> IF i = 0 THEN v ELSE 1]
One(v) == [i \in {0} |-> v]
MCLiterals(s) == IF s \in {w, starSym} THEN {Two(0)} ELSE {One(0), One(1)}
MCArguments == {One(0), Two(1)}
=============================================================================
