------------------------------ MODULE MCPbAsm ------------------------------
(* Programs of up to five lines over a label, a dotted label and a value.  *)
EXTENDS PbAsm
CONSTANTS L, dot, X
Text(op, name, arg) ==
  [op |-> op, name |-> name, arg |-> arg, loc |-> Here, width |-> 2, ranged |-> TRUE]
WordBE == [Text("data", X, 1) EXCEPT !.ranged = FALSE]
MCLines ==
  {WordBE, Text("label", L, None), Text("label", dot, None), Text("jump", None, L),
   Text("jump", None, dot),
   Text("load", None, X), Text("set", X, Here), Text("equ", X, 2), Text("constant", X, 1),
   Text("ds", X, 1), Text("data", X, 1), Text("buf", X, 1), Text("org", None, X),
   Text("align", None, 2), Text("end", None, 3), Text("scr", None, 4), Text("if", None, X),
   Text("fi", None, None), Text("dsg", None, 3), Text("esg", None, None)}
=============================================================================
