------------------------------ MODULE PbStack ------------------------------
(***************************************************************************)
(* The software stack of the PicoBlaze port: class Stack of ralloc.h and   *)
(* ralloc.cc, together with the instructions it emits, executed on the     *)
(* machine they are emitted for.                                           *)
(*                                                                         *)
(* While it generates a function the compiler believes two numbers: how    *)
(* far the stack pointer sF is above the bottom of the frame (m_offset)    *)
(* and how many cells of the frame are taken (m_lastValue); m_mem says     *)
(* which byte of which variable each cell holds.  Every spill and reload   *)
(* moves sF by a difference computed from these beliefs.  sp and ram are   *)
(* what the machine really holds when the emitted code runs.               *)
(*                                                                         *)
(* The code emitted for one function is straight here: it runs in the      *)
(* order it is generated.  MEMORY_SIZE is both the number of cells the     *)
(* compiler manages and the range of the 8-bit register sF (256 for both). *)
(***************************************************************************)
EXTENDS Integers

CONSTANTS
  Vars,         \* the symbols (operands) a function may spill
  NoVar,        \* the null m_oper of a cell that was never used
  SizeOf,       \* SizeOf[x]: bytes of the type of x
  MEMORY_SIZE,  \* cells of the scratchpad, and the modulus of sF
  StackSizes,   \* the bytes of arguments a function may take on the stack
  Modes,        \* the values Function::isMain takes: who calls with a bank switch
  Bases,        \* where a frame may begin when the function is entered
  Values,       \* what a byte of a variable may hold
  Junk          \* what a cell holds that this function never wrote

ASSUME VarsAssumption ==
  /\ NoVar \notin Vars
  /\ Junk \notin Values
  /\ SizeOf \in [Vars -> Nat \ {0}]
  /\ MEMORY_SIZE \in Nat \ {0}
  /\ StackSizes \subseteq 0 .. MEMORY_SIZE
  /\ Modes \subseteq BOOLEAN
  /\ Bases \subseteq 0 .. MEMORY_SIZE - 1

VARIABLES
  lastValue,  \* Stack::m_lastValue
  offset,     \* Stack::m_offset
  mem,        \* Stack::m_mem: the byte each cell is reserved for
  stackSize,  \* Function::stackSize of the function being generated
  isMain,     \* Function::isMain
  active,     \* between FunctionStart and FunctionEnd
  base,       \* the bottom of the frame at run time
  sp,         \* the register sF
  ram,        \* the scratchpad memory
  saved       \* saved[<<x, i>>]: the value byte i of x was last spilled with

frame   == <<lastValue, offset, mem, stackSize>>
machine == <<sp, ram>>
vars    == <<lastValue, offset, mem, stackSize, isMain, active, base, sp, ram, saved>>

Cells      == 0 .. MEMORY_SIZE - 1
Bytes(x)   == 0 .. SizeOf[x] - 1
Wrap(n)    == n % MEMORY_SIZE
AllBytes   == UNION {{x} \X Bytes(x) : x \in Vars}
Unspilled  == [b \in AllBytes |-> Junk]

TypeOK ==
  /\ lastValue \in 0 .. MEMORY_SIZE
  /\ offset \in Int
  /\ mem \in [Cells -> [oper : Vars \cup {NoVar}, index : Nat]]
  /\ stackSize \in 0 .. MEMORY_SIZE
  /\ isMain \in BOOLEAN
  /\ active \in BOOLEAN
  /\ base \in Cells
  /\ sp \in Cells
  /\ ram \in [Cells -> Values \cup {Junk}]
  /\ saved \in [AllBytes -> Values \cup {Junk}]

(* Stack::contains looks below m_lastValue for the first cell reserved for *)
(* the operand; it compares operands only, its index argument is not used. *)
FirstOf(m, top, x) == CHOOSE k \in 0 .. top - 1 :
                         m[k].oper = x /\ \A j \in 0 .. k - 1 : m[j].oper # x
contains(x) == \E k \in 0 .. lastValue - 1 : mem[k].oper = x
Found(x)    == FirstOf(mem, lastValue, x)

reservedBackwards(x) ==  \* a slip: the index counted down
  [k \in Cells |-> IF k - lastValue \in Bytes(x)
                   THEN [oper |-> x, index |-> lastValue - k] ELSE mem[k]]

(* "to reserve the whole space": the cells from m_lastValue on.            *)
Reserved(x) == [k \in Cells |-> IF k - lastValue \in Bytes(x)
                                THEN [oper |-> x, index |-> k - lastValue]
                                ELSE mem[k]]
Fits(x)     == lastValue + SizeOf[x] <= MEMORY_SIZE

(* The address a byte of a variable on the stack has at run time.          *)
Slot(x, i) == Wrap(base + Found(x) + i)

Init ==
  /\ lastValue = 0 /\ offset = 0 /\ stackSize = 0
  /\ mem = [k \in Cells |-> [oper |-> NoVar, index |-> 0]]
  /\ isMain \in Modes
  /\ active = FALSE
  /\ base \in Bases
  /\ sp = base
  /\ ram = [a \in Cells |-> Junk]
  /\ saved = Unspilled

(* functionStart, and the entry of the function at run time: the caller    *)
(* left sF above the arguments it pushed.  m_mem keeps the cells of the    *)
(* function generated before.                                              *)
functionStart(n, main, b) ==
  /\ ~active
  /\ active' = TRUE
  /\ stackSize' = n /\ offset' = n /\ lastValue' = n
  /\ isMain' = main
  /\ base' = b
  /\ sp' = Wrap(b + n)
  /\ ram' = [a \in Cells |-> Junk]
  /\ saved' = Unspilled
  /\ UNCHANGED mem

pushKnownUnsigned(x, i, v) ==  \* a slip: Add whatever the sign of diff
  /\ active /\ contains(x)
  /\ LET diff == Found(x) - offset + i
     IN  /\ sp' = Wrap(sp + IF diff < 0 THEN -diff ELSE diff)
         /\ offset' = offset + diff
         /\ ram' = [ram EXCEPT ![sp'] = v]
  /\ saved' = [saved EXCEPT ![<<x, i>>] = v]
  /\ UNCHANGED <<lastValue, mem, stackSize, isMain, active, base>>

(* pushVariable of an operand that has cells already: sF moves to the cell *)
(* of its byte i, which is stored with the value v the register holds.     *)
pushKnown(x, i, v) ==
  /\ active /\ contains(x)
  /\ LET diff == Found(x) - offset + i
     IN  /\ sp' = Wrap(sp + diff)
         /\ offset' = offset + diff
         /\ ram' = [ram EXCEPT ![sp'] = v]
  /\ saved' = [saved EXCEPT ![<<x, i>>] = v]
  /\ UNCHANGED <<lastValue, mem, stackSize, isMain, active, base>>

(* pushVariable of an operand without cells: all its bytes are reserved on *)
(* top of the frame.  Fits is the model's bound: the code has no check.    *)
pushNew(x, i, v) ==
  /\ active /\ ~contains(x) /\ Fits(x)
  /\ LET diff == lastValue - offset + i
     IN  /\ sp' = Wrap(sp + diff)
         /\ offset' = offset + diff
         /\ ram' = [ram EXCEPT ![sp'] = v]
  /\ mem' = Reserved(x)
  /\ lastValue' = lastValue + SizeOf[x]
  /\ saved' = [saved EXCEPT ![<<x, i>>] = v]
  /\ UNCHANGED <<stackSize, isMain, active, base>>

pushVariable(x, i, v) == pushKnown(x, i, v) \/ pushNew(x, i, v)

fetchUnbooked(x, i) ==  \* a slip: m_offset not updated
  /\ active /\ contains(x)
  /\ sp' = Wrap(sp + Found(x) - offset + i)
  /\ UNCHANGED <<lastValue, offset, mem, stackSize, isMain, active, base, ram, saved>>
fetchFirst(x, i) ==  \* a slip: the index of the byte left out
  /\ active /\ contains(x)
  /\ LET diff == Found(x) - offset
     IN  sp' = Wrap(sp + diff) /\ offset' = offset + diff
  /\ UNCHANGED <<lastValue, mem, stackSize, isMain, active, base, ram, saved>>

(* fetchVariable, before the Fetch through sF its callers emit; of an      *)
(* operand that is not on the stack it only warns.                         *)
fetchVariable(x, i) ==
  /\ active
  /\ IF contains(x)
     THEN LET diff == Found(x) - offset + i
          IN  sp' = Wrap(sp + diff) /\ offset' = offset + diff
     ELSE UNCHANGED <<sp, offset>>
  /\ UNCHANGED <<lastValue, mem, stackSize, isMain, active, base, ram, saved>>

(* loadAddress reserves the cells of an object whose address is taken.     *)
loadAddress(x) ==
  /\ active /\ ~contains(x) /\ Fits(x)
  /\ mem' = Reserved(x)
  /\ lastValue' = lastValue + SizeOf[x]
  /\ UNCHANGED <<offset, stackSize, isMain, active, base, sp, ram, saved>>

(* preCall moves sF to the top of the frame; then the callee, which takes  *)
(* n bytes of arguments below sF, runs: it may use any cell from there up  *)
(* to the bottom of the frame again, and ends by taking its m_offset, which*)
(* began at n, from sF.  The main function calls into the other register   *)
(* bank and keeps its own sF.                                              *)
Above(top) == {Wrap(top + k) : k \in 0 .. MEMORY_SIZE - lastValue - 1}
Unmoved    == sp  \* a slip: sF left where the last spill put it
Moved      == Wrap(sp + lastValue - offset)
preCall(n) ==
  /\ active
  /\ sp' = IF isMain THEN Moved ELSE Wrap(Moved - n)
  /\ offset' = lastValue
  /\ ram' = [a \in Cells |-> IF a \in Above(Moved) THEN Junk ELSE ram[a]]
  /\ UNCHANGED <<lastValue, mem, stackSize, isMain, active, base, saved>>

(* functionEnd: the Return handler takes m_offset from sF.                 *)
functionEnd ==
  /\ active
  /\ active' = FALSE
  /\ sp' = Wrap(sp - offset)
  /\ UNCHANGED <<lastValue, offset, mem, stackSize, isMain, base, ram, saved>>

Next ==
  \/ \E n \in StackSizes, main \in Modes, b \in Bases : functionStart(n, main, b)
  \/ \E x \in Vars : \E i \in Bytes(x), v \in Values : pushVariable(x, i, v)
  \/ \E x \in Vars : \E i \in Bytes(x) : fetchVariable(x, i)
  \/ \E x \in Vars : loadAddress(x)
  \/ \E n \in StackSizes : preCall(n)
  \/ functionEnd

Spec == Init /\ [][Next]_vars

-----------------------------------------------------------------------------
(***************************************************************************)
(* Properties.                                                             *)
(***************************************************************************)

(* The compiler's belief about sF is what sF holds: every difference it    *)
(* adds was computed from the right place.  (pushVariable, fetchVariable,  *)
(* preCall: ralloc.cc 58-131.)                                             *)
SPTracked == active => sp = Wrap(base + offset)

(* sF is never believed above the top of the frame, so the difference a    *)
(* first spill adds is never negative: pushVariable emits Add(SP, diff) on *)
(* that path whatever the sign (ralloc.cc 97-99).                          *)
SPInsideFrame == active => /\ 0 <= offset
                           /\ offset <= lastValue

(* A variable on the stack owns all its bytes: the cells from the one that *)
(* contains returns on are its own, in order, below m_lastValue, and no    *)
(* other cell names it ("to reserve the whole space", ralloc.cc 101).      *)
BlocksWhole ==
  active => \A x \in Vars : contains(x) =>
    /\ Found(x) + SizeOf[x] <= lastValue
    /\ \A k \in 0 .. lastValue - 1 :
         IF k - Found(x) \in Bytes(x)
         THEN mem[k] = [oper |-> x, index |-> k - Found(x)]
         ELSE mem[k].oper # x

(* Spilling is lossless: the cell a reload would read holds what the byte  *)
(* was last spilled with, whatever was spilled, reloaded or called since.  *)
SpillsKept ==
  active => \A x \in Vars : \A i \in Bytes(x) :
    saved[<<x, i>>] # Junk => contains(x) /\ ram[Slot(x, i)] = saved[<<x, i>>]

ReadsSpilled(x, i) ==
  fetchVariable(x, i) /\ saved[<<x, i>>] # Junk => ram[sp'] = saved[<<x, i>>]

(* A reload of a spilled byte reads the value it was spilled with.         *)
ReloadReturnsSpill == [][\A b \in AllBytes : ReadsSpilled(b[1], b[2])]_vars

(* Spills stay above the stack arguments and below the new top of the      *)
(* frame: the caller's cells and the arguments it pushed are not touched.  *)
SpillsStayInFrame ==
  [][(active /\ active' /\ offset' # lastValue') =>
       \A a \in Cells : ram'[a] # ram[a] =>
         \E k \in stackSize .. lastValue' - 1 : a = Wrap(base + k)]_vars

(* When the function returns, sF is back at the bottom of its frame: the   *)
(* return pops exactly what the function pushed and its stack arguments.   *)
ReturnPopsFrame == [][active /\ ~active' => sp' = base]_vars
=============================================================================
