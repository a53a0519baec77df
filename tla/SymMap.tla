------------------------------- MODULE SymMap -------------------------------
(***************************************************************************)
(* What a symbol table promises the assembler: a name, once bound, stays   *)
(* bound to the same definition until everything is freed; only the value  *)
(* of a .SET symbol and of a dotted label may change.                      *)
(***************************************************************************)
CONSTANTS Names, Kinds, Values, None

Definition == {[type |-> k.type, sub |-> k.sub, value |-> v] : k \in Kinds, v \in Values}
Variable(d) == d # None /\ d.sub \in {"SET", "DOT"}

VARIABLE bound

MapInit == bound = [x \in Names |-> None]
Bind(x, d) == bound[x] = None /\ bound' = [bound EXCEPT ![x] = d]
Update(x, v) == Variable(bound[x]) /\ bound' = [bound EXCEPT ![x] = [bound[x] EXCEPT !.value = v]]
Clear == bound' = [x \in Names |-> None]

MapNext ==
  \/ Clear
  \/ \E x \in Names :
       \/ \E d \in Definition : Bind(x, d)
       \/ \E v \in Values : Update(x, v)
MapSpec == MapInit /\ [][MapNext]_bound
=============================================================================
