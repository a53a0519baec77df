-------------------------------- MODULE PbSim --------------------------------
(***************************************************************************)
(* The simulator the tests run on (pBlaze.h, pBlaze.cpp: PicoBlaze 6):     *)
(* program counter, call stack, flags, register bank and interrupts, and   *)
(* the loop of pBlazSIMcl.cpp that steps it.  Registers, scratchpad and    *)
(* ports are left out: an instruction on data sets the flags to anything,  *)
(* a port without a device makes it fail, and JUMP and CALL to a register  *)
(* pair go to any address of one byte, all the code leaves of the pair.    *)
(***************************************************************************)
EXTENDS Integers, Sequences, SequencesExt

CONSTANTS
  MAXMEM, MAXSTK,  \* code cells, stack cells
  BYTE,            \* values of a register
  INTVECT,         \* interrupt vector
  Insts,           \* the instructions a cell may be loaded with
  Move             \* what an unloaded cell holds: code 0, MOVE s0, s0

ASSUME SimAssumption ==
  /\ MAXMEM \in Nat \ {0} /\ MAXSTK \in Nat \ {0, 1} /\ BYTE \in Nat
  /\ INTVECT \in 0 .. MAXMEM - 1
  /\ Insts \subseteq [op : STRING, cond : STRING, arg : Nat]
  /\ \A i \in Insts : i.op = "bank" => i.arg \in 0 .. 1
  /\ Move \in [op : {"move"}, cond : STRING, arg : Nat]

VARIABLES
  Code, breakpoint,        \* the cells
  pc, sp, stack, zero, carry, bank,
  enable, interrupt, acknowledge,
  running,                 \* the loop of main still steps
  ir,                      \* the instruction of the last step, and if it succeeded
  owed                     \* ghost: what each open call or interrupt expects back

cpu == <<pc, sp, stack, zero, carry, bank, enable>>
simVars == <<Code, breakpoint, pc, sp, stack, zero, carry, bank, enable, interrupt,
             acknowledge, running, ir, owed>>

Cell == [pc : Nat, zero : BOOLEAN, carry : BOOLEAN, bank : 0 .. 1]
NoCell == [pc |-> 0, zero |-> FALSE, carry |-> FALSE, bank |-> 0]

(* main loads the cells the listing gives; the others stop the loop.  The   *)
(* banks in the stack are not initialised.                                 *)
SimInit ==
  /\ \E loaded \in SUBSET (0 .. MAXMEM - 1) :
       /\ Code \in {f \in [0 .. MAXMEM - 1 -> Insts \union {Move}] :
                      \A a \in 0 .. MAXMEM - 1 : a \notin loaded => f[a] = Move}
       /\ breakpoint = [a \in 0 .. MAXMEM - 1 |-> a \notin loaded \/ Code[a].op = "break"]
  /\ pc = 0 /\ sp = 0
  /\ stack \in [0 .. MAXSTK - 1 -> {[NoCell EXCEPT !.bank = b] : b \in 0 .. 1}]
  /\ zero = FALSE /\ carry = FALSE /\ bank = 0
  /\ enable = FALSE /\ interrupt = FALSE /\ acknowledge = FALSE
  /\ running = TRUE /\ ir = [op |-> "none", ok |-> TRUE] /\ owed = <<>>

-----------------------------------------------------------------------------
(* The processor as a record: step() works on it, first taking an          *)
(* interrupt, then executing.                                              *)
State == [pc |-> pc, sp |-> sp, stack |-> stack, zero |-> zero, carry |-> carry,
          bank |-> bank, enable |-> enable, ack |-> acknowledge, owed |-> owed]

Accepts == enable /\ interrupt
Full == sp > MAXSTK - 2
PushedNoBank(s) ==  \* a slip: the bank is not saved
  [s EXCEPT !.stack[s.sp] = [@ EXCEPT !.pc = s.pc, !.zero = s.zero, !.carry = s.carry], !.sp = @ + 1]
Pushed(s) ==
  [s EXCEPT !.stack[s.sp] = [pc |-> s.pc, zero |-> s.zero, carry |-> s.carry, bank |-> s.bank],
            !.sp = @ + 1]
Interrupted(s) ==
  [Pushed(s) EXCEPT
     !.pc = INTVECT, !.enable = FALSE, !.ack = TRUE,
     !.owed = Append(@, [kind |-> "interrupt", cell |-> [pc |-> s.pc, zero |-> s.zero,
                                                         carry |-> s.carry, bank |-> s.bank]])]
Begun == LET s == IF enable THEN State ELSE [State EXCEPT !.ack = FALSE]
         IN  IF Accepts THEN Interrupted(s) ELSE s

Met(s, cond) ==
  CASE cond = "Z" -> s.zero
    [] cond = "NZ" -> ~s.zero
    [] cond = "C" -> s.carry
    [] cond = "NC" -> ~s.carry
    [] OTHER -> TRUE

(* Executing i: the states it may leave, none if it fails.  A call needs   *)
(* room even when it is not taken.                                         *)
Next1(s) == [s EXCEPT !.pc = @ + 1]
Goto(s, a) == [s EXCEPT !.pc = a]
Flags(s) == {[Next1(s) EXCEPT !.zero = f[1], !.carry = f[2]] : f \in BOOLEAN \X BOOLEAN}

Jumps(s, i) == {IF Met(s, i.cond) THEN Goto(s, i.arg) ELSE Next1(s)}

Called(s, a) ==
  [Goto(s, a) EXCEPT !.stack[s.sp].pc = s.pc + 1, !.sp = @ + 1,
     !.owed = Append(@, [kind |-> "call", cell |-> [NoCell EXCEPT !.pc = s.pc + 1]])]
Calls(s, i) ==
  IF s.sp > MAXSTK - 2 THEN {}
  ELSE {IF Met(s, i.cond) THEN Called(s, i.arg) ELSE Next1(s)}
JumpsTo(s) == {Goto(s, a) : a \in 0 .. BYTE - 1}
CallsTo(s) == IF s.sp > MAXSTK - 2 THEN {} ELSE {Called(s, a) : a \in 0 .. BYTE - 1}

Top(s) == s.stack[s.sp - 1]
Returned(s) == [Goto(s, Top(s).pc) EXCEPT !.sp = @ - 1, !.owed = Front(@)]
Returns(s, i) ==
  IF ~Met(s, i.cond) THEN {Next1(s)}
  ELSE IF s.sp <= 0 THEN {} ELSE {Returned(s)}
ReturnsInterruptBank(s, i) ==  \* a slip: the bank is not restored
  IF s.sp <= 0 THEN {}
  ELSE {[Returned(s) EXCEPT !.zero = Top(s).zero, !.carry = Top(s).carry, !.enable = (i.arg = 1)]}
ReturnsInterrupt(s, i) ==
  IF s.sp <= 0 THEN {}
  ELSE {[Returned(s) EXCEPT !.zero = Top(s).zero, !.carry = Top(s).carry,
                            !.bank = Top(s).bank, !.enable = (i.arg = 1)]}
(* bExtended is not set by the constructor: it reads as anything.          *)
SetsEnable(s, i) ==
  {[Next1(s) EXCEPT !.carry = c, !.enable = (i.arg = 1)] : c \in {s.carry, s.enable}}

Executed(s, i) ==
  CASE i.op = "move" -> {Next1(s)}
    [] i.op = "data" -> Flags(s)
    [] i.op = "io" -> {Next1(s)}
    [] i.op \in {"jump", "break"} -> Jumps(s, i)
    [] i.op = "jumpto" -> JumpsTo(s)
    [] i.op = "call" -> Calls(s, i)
    [] i.op = "callto" -> CallsTo(s)
    [] i.op = "ret" -> Returns(s, i)
    [] i.op = "reti" -> ReturnsInterrupt(s, i)
    [] i.op = "int" -> SetsEnable(s, i)
    [] i.op = "bank" -> {[Next1(s) EXCEPT !.bank = i.arg]}
    [] OTHER -> {}

(* Failing: what each instruction has done by the return false it meets.   *)
(* The program counter is updated behind all of them.                      *)
FailsIOLate(s) == {Next1(s)}  \* a slip: the counter moves before the error
FailsIO(s) == {s}
FailsCall(s) == IF s.sp > MAXSTK - 2 THEN {s} ELSE {}
FailsReturn(s, i) == IF Met(s, i.cond) /\ s.sp <= 0 THEN {s} ELSE {}
FailsReturnInterrupt(s) == IF s.sp <= 0 THEN {s} ELSE {}

Failed(s, i) ==
  CASE i.op = "io" -> FailsIO(s)
    [] i.op \in {"call", "callto"} -> FailsCall(s)
    [] i.op = "ret" -> FailsReturn(s, i)
    [] i.op = "reti" -> FailsReturnInterrupt(s)
    [] i.op \in {"move", "data", "jump", "break", "jumpto", "int", "bank"} -> {}
    [] OTHER -> {s}

(* The cell at pc; beyond the last cell, whatever memory holds.            *)
Fetched(a) == IF a \in DOMAIN Code THEN {Code[a]} ELSE Insts
Breaks(a) == IF a \in DOMAIN breakpoint THEN {breakpoint[a]} ELSE BOOLEAN

Becomes(s) ==
  /\ pc' = s.pc /\ sp' = s.sp /\ stack' = s.stack
  /\ zero' = s.zero /\ carry' = s.carry /\ bank' = s.bank
  /\ enable' = s.enable /\ acknowledge' = s.ack /\ owed' = s.owed

step ==
  IF Accepts /\ Full
  THEN /\ Becomes(State) /\ ir' = [op |-> "interrupt", ok |-> FALSE]
  ELSE \E i \in Fetched(Begun.pc) :
         \/ \E s \in Executed(Begun, i) : Becomes(s) /\ ir' = [op |-> i.op, ok |-> TRUE]
         \/ \E s \in Failed(Begun, i) : Becomes(s) /\ ir' = [op |-> i.op, ok |-> FALSE]

(* while ( pBlaze.step() && !pBlaze.onBreakpoint() )                       *)
Run ==
  /\ running /\ pc <= MAXMEM    \* bound: one cell beyond the memory
  /\ step
  /\ \E b \in Breaks(pc') : running' = (ir'.ok /\ ~b)
  /\ UNCHANGED <<Code, breakpoint, interrupt>>

setInterrupt ==
  /\ \E irq \in BOOLEAN : interrupt' = irq
  /\ UNCHANGED <<Code, breakpoint, cpu, acknowledge, running, ir, owed>>

resetPB ==
  /\ pc' = 0 /\ sp' = 0 /\ zero' = FALSE /\ carry' = FALSE /\ bank' = 0
  /\ enable' = FALSE /\ acknowledge' = FALSE /\ owed' = <<>>
  /\ running' = TRUE /\ ir' = [op |-> "none", ok |-> TRUE]
  /\ UNCHANGED <<Code, breakpoint, stack, interrupt>>

SimNext == Run \/ setInterrupt \/ resetPB
SimSpec == SimInit /\ [][SimNext]_simVars

-----------------------------------------------------------------------------
Frames == [kind : {"call", "interrupt"}, cell : Cell]
SimTypeOK ==
  /\ Code \in [0 .. MAXMEM - 1 -> Insts \union {Move}]
  /\ pc \in Nat /\ sp \in 0 .. MAXSTK - 1 /\ stack \in [0 .. MAXSTK - 1 -> Cell]
  /\ zero \in BOOLEAN /\ carry \in BOOLEAN /\ bank \in 0 .. 1
  /\ enable \in BOOLEAN /\ interrupt \in BOOLEAN /\ acknowledge \in BOOLEAN
  /\ running \in BOOLEAN /\ owed \in Seq(Frames)

(* The stack holds what every open call and every open interrupt expects   *)
(* back, however calls, interrupts, returns and resets were interleaved.   *)
FramesKept ==
  /\ Len(owed) = sp
  /\ \A k \in 1 .. sp :
       /\ stack[k - 1].pc = owed[k].cell.pc
       /\ owed[k].kind = "interrupt" => stack[k - 1] = owed[k].cell

(* An interrupt is transparent: RETI gives the interrupted program its     *)
(* address, flags and bank back; any return goes back behind its call.     *)
ReturnRestores ==
  [][(ir'.ok /\ ir'.op # "none" /\ Len(owed') < Len(owed)) =>
       LET f == Last(owed) IN
         /\ pc' = f.cell.pc
         /\ (ir'.op = "reti" /\ f.kind = "interrupt") =>
              zero' = f.cell.zero /\ carry' = f.cell.carry /\ bank' = f.cell.bank]_simVars

(* Whatever makes a step fail, the program it stops can go on from what is *)
(* left ("only update when no error", pBlaze.cpp 655): either the processor*)
(* is as it was, or the step had taken an interrupt first (pBlaze.h 235-246)*)
(* and the frame on top of the untouched others is all that RETI needs to  *)
(* get back to the instruction, the flags and the bank it interrupted.     *)
FailureResumes ==
  [][(ir.ok /\ ~ir'.ok) =>
       /\ \A k \in 0 .. sp - 1 : stack'[k] = stack[k]
       /\ \/ UNCHANGED cpu
          \/ /\ enable /\ interrupt /\ sp' = sp + 1
             /\ stack'[sp] = [pc |-> pc, zero |-> zero, carry |-> carry, bank |-> bank]
             /\ pc' = INTVECT /\ ~enable' /\ acknowledge']_simVars
=============================================================================
