----------------------------- MODULE MCPbProgram -----------------------------
EXTENDS PbProgram
CONSTANTS f, l
MCFuns == {main, f}
=============================================================================
