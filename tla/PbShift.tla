------------------------------- MODULE PbShift -------------------------------
(***************************************************************************)
(* The loop that ShiftLeft and ShiftRight of gen.cc print, executed.       *)
(* The operand has been copied to the result and the count to tmp; the     *)
(* body shifts every byte once, through the carry.  The body is printed    *)
(* once and executed many times: a byte without a register when its line   *)
(* is printed gets its reload inside the body, with a move of sF before it *)
(* and perhaps the store of another operand whose register it takes.       *)
(***************************************************************************)
EXTENDS Integers, FiniteSets

CONSTANTS
  HALF,     \* half of the values of a byte: the weight of its top bit
  Widths,   \* sizes of the operand
  Moves     \* distances sF may be moved by one execution of the body

RADIX == 2 * HALF
Byte == 0 .. RADIX - 1

ASSUME ShiftAssumption ==
  /\ HALF \in Nat \ {0}
  /\ Widths \subseteq Nat \ {0}
  /\ Moves \subseteq Int /\ 0 \in Moves

VARIABLES
  dir,          \* "left" or "right"
  n, val,       \* size and bytes of the operand, byte 0 the lowest
  given,        \* the count, a byte
  inReg,        \* bytes of the result in registers when their line is printed
  held,         \* tmp is in a register still when the body is printed
  move,         \* how far the body moves sF
  ph,           \* "print", "crashed"; "body", "test" or "done"
  res, tmp,     \* registers of the result and of the count
  carry, zero,
  i,            \* Emitter::i of the line executed
  off           \* how far sF, a byte, is from where the reloads expect it

shiftVars == <<dir, n, val, given, inReg, held, move, ph, res, tmp, carry, zero, i, off>>
shift == <<dir, n, val, given, inReg, held, move>>

First == IF dir = "left" THEN 0 ELSE n - 1  \* the byte printed first
NoReload == inReg = 0 .. n - 1                 \* nothing is reloaded in the body
Done == IF dir = "left" THEN i = n ELSE i = -1

ShiftInit ==
  /\ dir \in {"left", "right"} /\ n \in Widths
  /\ val \in [0 .. n - 1 -> Byte] /\ given \in Byte
  /\ inReg \in SUBSET (0 .. n - 1)
  /\ held \in BOOLEAN /\ move \in Moves /\ (NoReload => held /\ move = 0)
  /\ ph = "print" /\ i = First
  /\ res = val /\ tmp = given
  /\ carry \in BOOLEAN /\ zero \in BOOLEAN /\ off = 0

Bit(b) == IF b THEN 1 ELSE 0

(* SL0 for the lowest byte and SLA above it; SR0 for the highest and SRA   *)
(* below it.                                                               *)
Shifted(b, c) ==
  IF dir = "left" THEN (2 * b + Bit(c)) % RADIX ELSE b \div 2 + HALF * Bit(c)
Out(b) == IF dir = "left" THEN b >= HALF ELSE b % 2 = 1

(* Behind the body I::Sub is given the register of tmp; a reload in the    *)
(* body may have taken it (tmp dies first), and the printer names register *)
(* NULL.                                                                   *)
PrintCount ==
  /\ ph = "print"
  /\ ph' = IF held THEN "body" ELSE "crashed"
  /\ UNCHANGED <<shift, res, tmp, carry, zero, i, off>>

(* What the byte and the carry are when the shift is executed.  A reload   *)
(* before it prints ADD or SUB of sF (fetchVariable, pushVariable), which  *)
(* leaves any carry; and it is right the first time only: then registers,  *)
(* cells and sF are no longer what they were when it was printed.          *)
Reads(b, c) ==
  /\ (NoReload \/ tmp = given) => b = res[i]
  /\ i \in inReg => c = carry

ShiftByteFixed ==  \* a slip: bytes from the lowest in both directions
  /\ ph = "body" /\ ~Done
  /\ \E b \in Byte, c \in BOOLEAN :
       /\ Reads(b, c)
       /\ res' = [res EXCEPT ![i] = Shifted(b, c /\ i # 0)]
       /\ carry' = Out(b)
       /\ zero' = (res'[i] = 0)
  /\ i' = IF dir = "left" THEN i + 1 ELSE i - 1
  /\ UNCHANGED <<shift, ph, tmp, off>>
ShiftByte ==
  /\ ph = "body" /\ ~Done
  /\ \E b \in Byte, c \in BOOLEAN :
       /\ Reads(b, c)
       /\ res' = [res EXCEPT ![i] = Shifted(b, c /\ i # First)]
       /\ carry' = Out(b)
       /\ zero' = (res'[i] = 0)
  /\ i' = IF dir = "left" THEN i + 1 ELSE i - 1
  /\ UNCHANGED <<shift, ph, tmp, off>>

(* "sub tmp, 1" and "compare tmp, 0" with Emitter::i back at 0.            *)
CountDownCarry ==  \* a slip: Emitter::i stays, so it is "subcy"
  /\ ph = "body" /\ Done
  /\ ph' = "test" /\ i' = 0
  /\ tmp' = (tmp - 1 - Bit(carry)) % RADIX
  /\ zero' = (tmp' = 0) /\ carry' = FALSE
  /\ UNCHANGED <<shift, res, off>>
CountDownWide ==  \* a slip: the count is wider than its register
  /\ ph = "body" /\ Done
  /\ ph' = "test" /\ i' = 0
  /\ tmp' = tmp - 1
  /\ zero' = (tmp' = 0) /\ carry' = FALSE
  /\ UNCHANGED <<shift, res, off>>
CountDown ==
  /\ ph = "body" /\ Done
  /\ ph' = "test" /\ i' = 0
  /\ tmp' = (tmp - 1) % RADIX
  /\ zero' = (tmp' = 0) /\ carry' = FALSE
  /\ UNCHANGED <<shift, res, off>>

(* "jump NZ": the body again, with sF where the last execution left it.    *)
AgainOnNoCarry ==  \* a slip: "jump NC"
  /\ ph = "test" /\ ~carry
  /\ ph' = "body" /\ i' = First
  /\ off' = (off + move) % RADIX
  /\ UNCHANGED <<shift, res, tmp, carry, zero>>
Again ==
  /\ ph = "test" /\ ~zero
  /\ ph' = "body" /\ i' = First
  /\ off' = (off + move) % RADIX
  /\ UNCHANGED <<shift, res, tmp, carry, zero>>
Leave ==
  /\ ph = "test" /\ zero
  /\ ph' = "done"
  /\ UNCHANGED <<shift, res, tmp, carry, zero, i, off>>

ShiftNext == PrintCount \/ ShiftByte \/ CountDown \/ Again \/ Leave

(* The processor executes one instruction after the other.                 *)
ShiftSpec == ShiftInit /\ [][ShiftNext]_shiftVars /\ WF_shiftVars(ShiftNext)

-----------------------------------------------------------------------------
Pow(b, k) ==  \* b to the k
  LET f[j \in 0 .. k] == IF j = 0 THEN 1 ELSE b * f[j - 1] IN f[k]
Number(bytes, k) ==  \* the number k bytes stand for
  LET sum[j \in 0 .. k] == IF j = 0 THEN 0 ELSE sum[j - 1] + bytes[j - 1] * Pow(RADIX, j - 1)
  IN  sum[k]

(* How often the body is executed: a count of 0 wraps around.              *)
Turns == IF given = 0 THEN RADIX ELSE given

ShiftTypeOK ==
  /\ dir \in {"left", "right"} /\ n \in Widths /\ val \in [0 .. n - 1 -> Byte]
  /\ given \in Byte /\ inReg \subseteq 0 .. n - 1
  /\ held \in BOOLEAN /\ move \in Moves
  /\ ph \in {"print", "crashed", "body", "test", "done"} /\ res \in [0 .. n - 1 -> Byte] /\ tmp \in Byte
  /\ carry \in BOOLEAN /\ zero \in BOOLEAN /\ i \in -1 .. n
  /\ off \in Byte

(* The body leaves no carry to a reload: no byte is reloaded, or only the  *)
(* first one, to which no carry goes, and the body is executed once.       *)
CarryKept ==
  \/ NoReload
  \/ Turns = 1 /\ \A j \in 0 .. n - 1 : j = First \/ j \in inReg

(* The result is the operand shifted as often as the body is executed, if  *)
(* the body leaves no carry to a reload.                                   *)
ShiftComputes ==
  ph = "done" /\ CarryKept =>
    Number(res, n) = IF dir = "left" THEN (Number(val, n) * Pow(2, Turns)) % Pow(RADIX, n)
                     ELSE Number(val, n) \div Pow(2, Turns)

(* sF is where the code after the loop expects it, if the body does not    *)
(* move it or is executed once (each further turn displaces it again).     *)
ShiftKeepsSP == ph = "done" /\ (move = 0 \/ Turns = 1) => off = 0

(* The loop ends for every count, if the printer got to the end of it.     *)
ShiftTerminates == held => <>(ph = "done")
=============================================================================
