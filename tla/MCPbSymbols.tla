---------------------------- MODULE MCPbSymbols ----------------------------
(* Three places, every hash function, one keyword.                         *)
EXTENDS PbSymbols
CONSTANTS a, b, c
MCKinds == {[type |-> "LABEL", sub |-> "DOT"], [type |-> "VALUE", sub |-> "INT"],
            [type |-> "VALUE", sub |-> "SET"]}
MCKeywords == <<[name |-> a, type |-> "VALUE", sub |-> "INT", value |-> 0]>>
=============================================================================
