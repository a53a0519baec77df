------------------------------- MODULE PbFlow -------------------------------
(***************************************************************************)
(* A comparison (or another operation) and the branch that depends on it:  *)
(* CmpEq, CmpLt, Add, Sub and Ifx of gen.cc with the instructions they     *)
(* print, executed.  The two handlers communicate through the carry and    *)
(* zero flags, one byte after the other, and so does whatever code is      *)
(* printed between them: printing an operand may spill or reload, which    *)
(* moves sF with an ADD or a SUB.                                          *)
(* Operands are unsigned numbers of n bytes, byte 0 the least significant. *)
(***************************************************************************)
EXTENDS Integers, Sequences

CONSTANTS
  RADIX,    \* values of a byte
  Widths,   \* sizes of operands
  Ops       \* operations that may come before the branch

Byte == 0 .. RADIX - 1
Compares  == {"<", "<=", "=="}
Sums      == {"+", "-"}
AllOps    == Compares \union Sums \union {"logic", "=", "shift", "call"}

ASSUME FlowAssumption ==
  /\ RADIX \in Nat \ {0, 1}
  /\ Widths \subseteq Nat \ {0}
  /\ Ops \subseteq AllOps

VARIABLES
  op,           \* the operation of ic->getPrev()
  same,         \* its result is the condition (the same Operand)
  toTrue,       \* the branch has a label for true, not one for false
  right,        \* its right operand: "self" is its left, "literal", or another
  n, l, r,      \* its operands; l is its result when it does not subtract,
                \* and the condition when that is another operand
  ph, i,        \* the handler at work, Emitter::i
  carry, zero,  \* flags of the processor
  disturbed,    \* history: sF was moved between two bytes of one operation
  jump,         \* the next jump of Ifx
  branch        \* where control went

flowVars == <<op, same, toTrue, right, n, l, r, ph, i, carry, zero, disturbed, jump, branch>>
instruction == <<op, same, toTrue, right, n, l, r>>

FlowInit ==
  /\ op \in Ops /\ same \in BOOLEAN /\ toTrue \in BOOLEAN
  /\ right \in {"self", "literal", "another"} /\ (op \notin Sums => right = "another")
  /\ n \in Widths
  /\ l \in [0 .. n - 1 -> Byte] /\ r \in [0 .. n - 1 -> Byte]
  /\ (op = "-" /\ right = "self" => r = l)
  /\ ph = IF same THEN "prev" ELSE "compare"
  /\ i = 0 /\ carry \in BOOLEAN /\ zero \in BOOLEAN
  /\ disturbed = FALSE /\ jump = 1 /\ branch = "none"

(* Printing an operand of byte i moves sF first.                           *)
MoveSP ==
  /\ ph \in {"prev", "compare"} /\ i < n
  /\ carry' \in BOOLEAN /\ zero' \in BOOLEAN
  /\ disturbed' = (disturbed \/ i > 0)
  /\ UNCHANGED <<instruction, ph, i, jump, branch>>

Bit(b) == IF b THEN 1 ELSE 0

(* COMPARE, SUB for byte 0; COMPARECY, SUBCY for the others, whose zero    *)
(* flag is that of all bytes so far.                                       *)
SubtractAlone(a, b) ==  \* a slip: the borrow of the byte below is lost
  /\ carry' = (a - b < 0)
  /\ zero' = (a - b = 0 /\ (i > 0 => zero))
Subtract(a, b) ==
  LET d == a - b - Bit(i > 0 /\ carry)
  IN  /\ carry' = (d < 0)
      /\ zero' = (d % RADIX = 0 /\ (i > 0 => zero))

(* I::Add and I::Sub print nothing when both operands are the same one, and*)
(* nothing for byte 0 of a literal whose low byte is zero.                 *)
NotPrinted ==
  /\ op \in Sums
  /\ right = "self" \/ (right = "literal" /\ i = 0 /\ r[0] = 0)

(* One byte of the operation before the branch: COMPARE; SUB, ADD or       *)
(* neither; AND, OR or XOR; LOAD; SL0 or SR0 and the count down; a callee. *)
PrevByte ==
  /\ ph = "prev" /\ i < n
  /\ \/ op \in Compares /\ Subtract(l[i], r[i])
     \/ op = "-" /\ ~NotPrinted /\ Subtract(l[i], r[i])
     \/ op = "+" /\ ~NotPrinted /\ zero' = (l[i] = 0 /\ (i > 0 => zero)) /\ carry' \in BOOLEAN
     \/ NotPrinted /\ UNCHANGED <<carry, zero>>
     \/ op = "logic" /\ zero' = (l[i] = 0) /\ carry' = FALSE
     \/ op = "=" /\ UNCHANGED <<carry, zero>>
     \/ op = "shift" /\ zero' = TRUE /\ carry' = FALSE
     \/ op = "call" /\ zero' \in BOOLEAN /\ carry' \in BOOLEAN
  /\ i' = i + 1
  /\ UNCHANGED <<instruction, ph, disturbed, jump, branch>>

(* Ifx compares a condition that is not the last result with zero.         *)
IfxByte ==
  /\ ph = "compare" /\ i < n
  /\ Subtract(l[i], 0)
  /\ i' = i + 1
  /\ UNCHANGED <<instruction, ph, disturbed, jump, branch>>
CompareDone ==
  /\ ph \in {"prev", "compare"} /\ i = n
  /\ ph' = "jump"
  /\ UNCHANGED <<instruction, i, carry, zero, disturbed, jump, branch>>

(* The jumps of Ifx, by the operation before it.  A jump "on" leads to the *)
(* code after the branch.                                                  *)
J(flag, label) == [flag |-> flag, label |-> label]
Jumps ==
  CASE op = "<"  -> IF toTrue THEN <<J("C", "true")>> ELSE <<J("NC", "false")>>
    [] op = "<=" -> IF toTrue THEN <<J("C", "true"), J("Z", "true")>>
                    ELSE <<J("Z", "on"), J("C", "on"), J("always", "false")>>
    [] op = "==" -> IF toTrue THEN <<J("Z", "true")>> ELSE <<J("NZ", "false")>>
    [] OTHER     -> IF toTrue THEN <<J("NZ", "true")>> ELSE <<J("Z", "false")>>

Taken(flag) ==
  \/ flag = "C" /\ carry
  \/ flag = "NC" /\ ~carry
  \/ flag = "Z" /\ zero
  \/ flag = "NZ" /\ ~zero
  \/ flag = "always"

Onward == IF toTrue THEN "false" ELSE "true"  \* what falling through means
JumpTaken ==
  /\ ph = "jump" /\ jump <= Len(Jumps) /\ Taken(Jumps[jump].flag)
  /\ ph' = "done"
  /\ branch' = IF Jumps[jump].label = "on" THEN Onward ELSE Jumps[jump].label
  /\ UNCHANGED <<instruction, i, carry, zero, disturbed, jump>>
JumpNotTaken ==
  /\ ph = "jump" /\ jump <= Len(Jumps) /\ ~Taken(Jumps[jump].flag)
  /\ jump' = jump + 1
  /\ UNCHANGED <<instruction, ph, i, carry, zero, disturbed, branch>>
FallThrough ==
  /\ ph = "jump" /\ jump > Len(Jumps)
  /\ ph' = "done" /\ branch' = Onward
  /\ UNCHANGED <<instruction, i, carry, zero, disturbed, jump>>

FlowNext ==
  MoveSP \/ PrevByte \/ IfxByte \/ CompareDone \/ JumpTaken \/ JumpNotTaken \/ FallThrough

FlowSpec == FlowInit /\ [][FlowNext]_flowVars

-----------------------------------------------------------------------------
(* Order and equality of the k low bytes of the operands.                  *)
Less(x, y, k) == \E j \in 0 .. k - 1 : x[j] < y[j] /\ \A m \in j + 1 .. k - 1 : x[m] = y[m]
Equal(x, y, k) == \A j \in 0 .. k - 1 : x[j] = y[j]
NonZero(x) == \E j \in 0 .. n - 1 : x[j] # 0

(* What the source program asks for.                                       *)
Condition ==
  CASE same /\ op = "<"  -> Less(l, r, n)
    [] same /\ op = "<=" -> Less(l, r, n) \/ Equal(l, r, n)
    [] same /\ op = "==" -> Equal(l, r, n)
    [] same /\ op = "-"  -> ~Equal(l, r, n)
    [] OTHER             -> NonZero(l)
Right == branch = IF Condition THEN "true" ELSE "false"

FlowTypeOK ==
  /\ op \in Ops /\ same \in BOOLEAN /\ toTrue \in BOOLEAN
  /\ right \in {"self", "literal", "another"}
  /\ n \in Widths /\ l \in [0 .. n - 1 -> Byte] /\ r \in [0 .. n - 1 -> Byte]
  /\ ph \in {"prev", "compare", "jump", "done"} /\ i \in 0 .. n
  /\ carry \in BOOLEAN /\ zero \in BOOLEAN /\ disturbed \in BOOLEAN
  /\ jump \in 1 .. 4 /\ branch \in {"none", "true", "false"}

(* Every byte of a sum is printed.                                         *)
AllPrinted == right = "another" \/ (right = "literal" /\ r[0] # 0)

(* The branch goes where the comparison says, for operands of every size,  *)
(* if nothing was printed between two bytes: after a comparison, after an  *)
(* addition or a subtraction printed for all bytes, after a logic operation*)
(* on one byte, and, for a condition that is not the last result, when the *)
(* instruction before is no comparison.                                    *)
Supported ==
  IF same
  THEN op \in Compares \/ (op \in Sums /\ AllPrinted) \/ (op = "logic" /\ n = 1)
  ELSE op \notin Compares
BranchRight == ph = "done" /\ ~disturbed /\ Supported => Right

(* "if we depend on the result of the previous operation, we should        *)
(* already have what we need in the zero flag" (gen.cc 705).               *)
FlagsHoldCondition == ph = "jump" /\ same /\ ~disturbed /\ op \notin Compares => zero = ~Condition
=============================================================================
