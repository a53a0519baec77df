------------------------------- MODULE PbRegs -------------------------------
(***************************************************************************)
(* The register allocator of the PicoBlaze port: Bank, Register and the    *)
(* printing of an operand, which allocates as a side effect (ralloc.cc,    *)
(* ralloc.h, operator<< of gen.cc), over one record g that also holds the  *)
(* machine on which the emitted code runs.                                 *)
(*                                                                         *)
(*   g.seq      Allocator::seq, the number of the instruction generated    *)
(*   g.liveTo   liveTo of every symbol                                     *)
(*   g.first    VAR_REG_START                                              *)
(*   g.home     Symbol::regs: the register of each byte, or None           *)
(*   g.bank     Bank::m_regs: the byte each register is occupied by        *)
(*   g.at       the first cell of each symbol on the Stack, or None        *)
(*   g.top      Stack::m_lastValue                                         *)
(*   g.offset   Stack::m_offset                                            *)
(*   g.reg, g.carry, g.ram   the registers, the flag and the frame at run  *)
(*              time; cell k of ram is at the bottom of the frame plus k   *)
(*   g.hit      the hazards of the code this function ran into (below)     *)
(*                                                                         *)
(* The frame is abstracted by what PbMachineProofs establishes of          *)
(* functions without stack arguments: sF is where the compiler believes    *)
(* it is (SPAlwaysTracked) and a symbol on the stack owns consecutive      *)
(* cells (FrameAlwaysWhole).                                               *)
(***************************************************************************)
EXTENDS Integers, FiniteSets, FiniteSetsExt

CONSTANTS
  Syms,       \* the symbols of the function
  SizeOf,     \* SizeOf[x]: bytes of the type of x
  MaxSize,    \* registers of a symbol (Symbol::regs), longer than most types
  None,       \* no register, no cell, a free register
  REG_CNT,    \* registers of a bank; the last one is the stack pointer
  RADIX,      \* values of a byte (256 on the machine)
  Junk        \* a byte no instruction wrote

ASSUME RegsAssumption ==
  /\ IsFiniteSet(Syms)
  /\ MaxSize \in Nat \ {0}
  /\ SizeOf \in [Syms -> 1 .. MaxSize]
  /\ REG_CNT \in Nat \ {0, 1}
  /\ RADIX \in Nat \ {0, 1}
  /\ Junk \notin Nat
  /\ None \notin Nat /\ None \notin Syms \X (0 .. MaxSize - 1)

Bytes(x)   == 0 .. SizeOf[x] - 1
AllBytes   == UNION {{x} \X Bytes(x) : x \in Syms}
Places     == Syms \X (0 .. MaxSize - 1)
Regs       == 0 .. REG_CNT - 2
Byte       == 0 .. RADIX - 1
Cells      == 0 .. Cardinality(AllBytes) + MaxSize - 1
VarRegs(g) == g.first .. REG_CNT - 2

(* A function with nothing allocated yet.                                  *)
Fresh(liveTo, first) ==
  [seq |-> 1, liveTo |-> liveTo, first |-> first,
   home |-> [b \in Places |-> None], bank |-> [r \in Regs |-> None],
   at |-> [x \in Syms |-> None], top |-> 0, offset |-> 0,
   reg |-> [r \in Regs |-> Junk], carry |-> 0,
   ram |-> [k \in Cells |-> Junk], hit |-> {}]

-----------------------------------------------------------------------------
(* The Stack.                                                              *)

(* Add and Sub of the stack pointer clear the carry: the frame does not    *)
(* wrap around.                                                            *)
MoveSP(g, cell, emitted) ==
  [g EXCEPT !.offset = cell, !.carry = IF emitted THEN 0 ELSE @]

(* An operand that is not on the stack is given cells for all its bytes.   *)
Reserve(g, x) == IF g.at[x] # None THEN g
                 ELSE [g EXCEPT !.at[x] = g.top, !.top = @ + SizeOf[x]]

(* Stack::pushVariable, storing register r.  A byte beyond the type of the *)
(* symbol has no cell of its own: its store hits whatever follows.         *)
pushVariable(g, x, i, r) ==
  LET h == Reserve(g, x)
      k == h.at[x] + i
  IN  [MoveSP(h, k, k # g.offset) EXCEPT
         !.ram[k] = g.reg[r],
         !.hit    = IF i \in Bytes(x) THEN @ ELSE @ \cup {"byte beyond type"}]

(* Stack::fetchVariable and the Fetch through sF into register r.  The byte*)
(* is also Emitter::i: only for byte 0 is a difference of 0 not emitted.   *)
fetchVariable(g, x, i, r) ==
  LET k == g.at[x] + i
  IN  [MoveSP(g, k, k # g.offset \/ i > 0) EXCEPT !.reg[r] = g.ram[k]]

-----------------------------------------------------------------------------
(* Registers.                                                              *)

occupy(g, r, x, i) == [g EXCEPT !.bank[r] = <<x, i>>]

(* Register::clear: a register that is no longer the home of the byte it   *)
(* names is left alone; a live byte goes to memory first (moveToMemory).   *)
clear(g, r) ==
  IF g.bank[r] = None THEN g
  ELSE LET b == g.bank[r]
       IN  IF g.home[b] # r THEN g
           ELSE [(IF g.liveTo[b[1]] >= g.seq THEN pushVariable(g, b[1], b[2], r) ELSE g)
                   EXCEPT !.home[b] = None, !.bank[r] = None]

(* Bank::getFreeRegister picks a free register, else the first one with a  *)
(* dead variable, else the first one with the least liveTo, and clears it. *)
Free(g)     == {r \in VarRegs(g) : g.bank[r] = None}
LiveTo(g, r) == g.liveTo[g.bank[r][1]]
Dead(g)     == {r \in VarRegs(g) : g.bank[r] # None /\ LiveTo(g, r) < g.seq}
Soonest(g)  == {r \in VarRegs(g) : \A s \in VarRegs(g) : LiveTo(g, r) <= LiveTo(g, s)}
Victim(g)   == CASE Free(g) # {} -> Min(Free(g))
                 [] Free(g) = {} /\ Dead(g) # {} -> Min(Dead(g))
                 [] OTHER -> Min(Soonest(g))
(* ... and giving it to byte i of x.                                       *)
Allocate(g, x, i) ==
  LET r == Victim(g)
  IN  [occupy(clear(g, r), r, x, i) EXCEPT !.home[<<x, i>>] = r]

(* operator<< of a symbol: a byte that has no register gets one, reloaded  *)
(* from the stack if the symbol is there.  The register printed is the     *)
(* home of the byte in the result.                                         *)
Touch(g, x, i) ==
  LET h == Allocate(g, x, i)
  IN  IF g.home[<<x, i>>] # None THEN g
      ELSE IF h.at[x] # None THEN fetchVariable(h, x, i, h.home[<<x, i>>])
      ELSE h

(* The second operand y of an instruction is printed after the first, x:   *)
(* it may take the register the first was given.                           *)
TouchNext(g, x, y, i) ==
  LET k == Touch(g, y, i)
  IN  IF k.home[<<x, i>>] = g.home[<<x, i>>] THEN k
      ELSE [k EXCEPT !.hit = @ \cup {"operand evicted"}]
=============================================================================
