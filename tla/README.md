# Verification of the PicoBlaze port

TLA+ modules, TLC configurations and TLAPS proofs about **pbccv3**: the
PicoBlaze-6 back end for the SDCC C compiler (`src/pblaze`), and the assembler
and simulator its tests run on (`test/src/tools`). Paths below are relative to
the repository.

## 1. The system

pbccv3 is a port of SDCC. SDCC parses C, allocates live ranges and hands the
port, function by function, a list of *iCodes* (three-address instructions over
multi-byte operands). The port walks that list once, in order; for each iCode a
handler of `gen.cc` prints PicoBlaze assembly. **Register allocation happens
while text is printed**: `operator<<` for an operand (gen.cc 7-38) looks whether
the byte to be printed has a register and, if not, takes one, which may print a
spill of another byte and a move of the software stack pointer *before* the
line being composed. What is correct therefore depends on the order in which
state is read, changed and printed, and a test, which runs one program, reaches
one order.

| component | state it keeps | operations | who calls it |
|---|---|---|---|
| **Software stack** (`Stack`, ralloc.h 110-138, ralloc.cc 48-155) | `m_offset` (where sF is believed to be), `m_lastValue` (top of frame), `m_mem` (which byte owns which cell) | functionStart, functionEnd, pushVariable, fetchVariable, loadAddress, preCall, contains | Register::clear, operator<<, Call, Return, AddressOf, Assign |
| **Register allocator** (`Bank`, `reg_info`, `Allocator`, ralloc.*; operator<< in gen.cc) | `m_regs` of two banks (which byte occupies a register), `Symbol::regs` (which register a byte lives in), `Allocator::seq`, the current bank | getFreeRegister, occupy, clear, moveToMemory, purge, contains, star, swap | every handler, through printing |
| **Instruction emitters** (`I::...`, gen.h) | `Emitter::i`, the byte being generated (global, saved and restored by hand) | Load, Add, Sub, ... : choose the mnemonic by byte, skip instructions that do nothing | the handlers, the stack |
| **Data handlers** (gen.cc 286-702) | the iCode, the next iCode | Assign, Cast, Add, Sub, Or, And, Xor, Not, shifts, AddressOf, AtAddress | stepIC |
| **Calling convention** (`Function::processNew`, util.cc; Function, Send, Receive, Call, Return in gen.cc; `_pblaze_reg_parm`, main.c) | isMain, registerSize, stackSize, lastReg | assign parameters to registers, switch banks, save and drop registers, place results | stepIC, SDCC |
| **Pointer handlers** (AddressOf, AtAddress, assignment through a pointer; Fetch, Store) | where an object's cells are, `regs[0]` of the pointer | take addresses, step a pointer over an object and back | stepIC |
| **Control flow handlers** (Label, GoTo, Ifx, CmpEq, CmpLt, shift loops) | a label counter | print jumps and labels | stepIC |
| **Program text and glue** (`Emitter`, Function, EndFunction, `Bank::swap`, `pblaze_glue`) | the text, `Bank::m_first`, isMain | print functions one behind another, then startup, loop and last jump around them | SDCC |
| **Port description** (main.c, wrap.*) | options | command line, SDCC's tables | SDCC |
| **Assembler** (pBlazASM: pbLexer.c, pbParser.c, pbSymbols.c) | symbol table, program counter, code and data images | two passes over the source, expressions, directives | the tests |
| **Simulator** (pBlazSIM: pBlaze.cpp, pBlaze.h, pBlazSIMcl.cpp) | two register banks, flags, return stack, scratchpad, code | stepPB6, stepPB3, interrupts, the run loop | the tests |

There is no concurrency in the compiler; the difficult behaviours are

* **hidden effects**: printing allocates, spills, reloads and moves sF, in the
  middle of composing another instruction or between two instructions that
  communicate through the carry flag;
* **beliefs about the run time**: `m_offset` must be where sF will be when the
  code runs, and `m_mem` what its cells will hold; each spill computes a
  difference from the last one, so one error displaces all later accesses;
* **two-sided bookkeeping**: a register names a byte and the byte names a
  register, updated in different places;
* **state carried over**: from one function to the next (`m_mem`, the registers
  of symbols, `isMain`, `lastReg`) and across calls (which registers survive);
* **text against run**: state is tracked along the text, the processor jumps:
  a label is reached with whatever registers, sF and bank the jump had;
* **limits**: 256 cells, 15 registers, 8 argument registers, 31 return
  addresses, 16384 symbols, 8-bit differences.

What makes each component correct:

* **Software stack**: sF is where the compiler believes it is; a variable on the
  stack owns all its cells; a reload returns what was spilled; spills stay in the
  frame; the return pops the frame.
* **Allocator, emitters, data handlers**: a register is the home of one byte and
  names it; the emitted code computes what the iCodes mean.
* **Calling convention**: all parties agree where parameters are; arguments are
  in place at the call; what is read after a call survives it; the result is in
  the result registers.
* **Control flow**: a branch goes where its condition says and finds its values
  there; a shift loop ends, shifts by its count and leaves sF alone.
* **Program**: every instruction runs in the bank it was printed for; functions
  are entered by calls and return to them; a main that ends locks up.
* **Assembler**: the table is a map; both passes give a line the same address; a
  jump lands behind its label; a data operand is the address of its data.
* **Simulator**: returns go behind their calls, interrupts are transparent, a
  failing instruction changes nothing, and an interrupt before it can be returned from.

## 2. Modules

| module | models | stands on |
|---|---|---|
| `PbStack` | Stack of ralloc.cc and the sF code it prints, executed | - |
| `PbRegs` | Bank, Register, printing of an operand, over a record with the machine | the frame as `PbMachineProofs` establishes it |
| `PbGen` | Assign, Cast, Add, Sub, Or, And, Xor, Not of gen.cc | `PbRegs` |
| `PbPtr` | AddressOf, AtAddress, assignment through a pointer, loadAddress | `PbGen` |
| `PbLabels` | Ifx, GoTo and Label between those instructions | `PbPtr` |
| `PbCall` | Receive, Send, Call, Return of gen.cc with an external callee | `PbGen` |
| `PbCallForms` | calls through a pointer and the builtin port_out | `PbCall` |
| `PbProgram` | the text of a whole program, printed, glued and run | - |
| `PbConv` | the three loops that divide parameters: reg_parm, processNew, Call | - |
| `PbFlow` | CmpEq, CmpLt, Add, Sub, logic and Ifx, byte by byte with the flags | - |
| `PbShift` | the loop ShiftLeft and ShiftRight print | - |
| `SymMap`, `PbSymbols` | the map a symbol table promises; the probing table | `PbSymbols` implements `SymMap` |
| `PbAsm` | build, assemble and the driver of the two passes | the table as a list of definitions per name, in probing order |
| `PbSim` | control of the PicoBlaze 6 simulator and the loop of its main | - |
| `ModLemmas` | facts about `%`, inductive sets of numbers and loops over bytes, for the proofs | - |
| `PbGenProofs` | theorems about `PbRegs`, `PbGen`, `PbPtr` and `PbLabels` together: where the generator believes every byte to be | TLAPS |
| `PbRightProofs` | theorem about the same four: that the machine has what the generator believes | `PbGenProofs` |
| `PbCallProofs` | theorems about `PbCall` and `PbCallForms`: where the generator believes every byte to be across calls, and that the machine has it there | `PbRightProofs` |
| `PbLoopProofs` | theorems about the loops of `PbConv`, `PbFlow` and `PbAsm` | TLAPS |
| `PbToolProofs` | theorems about the tools, `PbSymbols` and `PbSim` | TLAPS |
| `PbMachineProofs` | theorems about what the machine executes, `PbStack` and `PbShift` | TLAPS |
| `PbProgramProofs` | theorems about `PbProgram` | TLAPS |

`MC*` modules give the constants of each run.

### How state and actions correspond to the code

* **PbStack.** `offset`, `lastValue`, `mem` are `m_offset`, `m_lastValue`,
  `m_mem`; `sp` and `ram` are sF and the scratchpad when the printed code runs:
  generation and execution go together, because straight-line code is executed in
  the order it is printed. One action per method; `pushVariable` splits into the
  operand that has cells and the one that is given cells. `saved` is a history
  variable: what each byte was last spilled with.
* **PbRegs, PbGen.** One record `g` is the compiler (`home` is `Symbol::regs`,
  `bank` is `m_regs`, `at`, `top`, `offset` the frame) and the machine (`reg`,
  `ram`, `carry`). The methods are operators from record to record, so that an
  action composes them in the order the handler calls them, printing included
  (`Touch`, `TouchNext`). `val` is the meaning of the iCodes. A handler of
  `t = y op z` looks at the next iCode, and if it finds `y = t`, where t ends, it
  computes on y (`OperationBack`); that copy is then generated as any other
  (`AssignBack`). `next` is what was found: the copy comes next, or, where the
  handler took the usual way (`Ahead`), does not. t may be any symbol with any
  past. Only if it is an iTemp without a register does the copy print nothing;
  otherwise y is given a stale value, and that is marked.
* **PbPtr.** A pointer is one byte (main.c 184); an address of the frame is a
  value of its own, so that arithmetic of the program never makes one. `Target`
  is the object a pointer was taken from. A null `regs[0]` ends the function: the
  compiler reads through it. AtAddress looks ahead too, for `x = t` or `*x = t`
  (`Awaits`), but compares the addresses of the operands, which the model does not
  know: the copy may follow whether it was found or not. A program does no
  arithmetic on pointers here, so a store never follows an operation on its pointer.
* **PbLabels.** The generator follows the text, the machine jumps: `away` holds
  the machine and the meaning at a jump until its label is printed. What lies
  between is generated, and executed by nobody. A condition that is the result
  of the iCode before (`prev`) need not be compared (`IfxOnFlags`): whether it is
  depends on the identity of operands again, so both are possible. What the flags
  are then is the business of `PbFlow`; here the jump may go either way, and a
  wrong one is marked.
* **Marked hazards.** Where the code does not do what the iCode says, the action
  adds the name of the reason to `g.hit`, and `LabelCoherent`, `CallCoherent`,
  `EffectsMeant`, `ArgumentsInPlace` and `ReturnsResult` speak of functions where
  nothing was hit. The twenty-five reasons are listed at the heads of `PbGen` (6),
  `PbPtr` (6), `PbLabels` (3), `PbCall` (5) and `PbCallForms` (5), each with its
  line in `PROJECT.json`. So the properties say: *these are the only ways the
  modelled handlers go wrong*. `HomesExclusive` and `HomesBacked` hold without
  exception; `LiveHomes*` need that no register in use has lost its name to
  starSym or to a call through a pointer (`Named`).
* **PbCall.** The callee writes anything into registers and cells it may use and
  returns an arbitrary result; in main it runs in the other bank (`other`).
  `sent` is the values sent, so that literals and variables are the same to the
  callee. `starSym` is the static iTemp of Bank::star, dead everywhere.
* **PbCallForms.** `stale` is the static `lastReg`; where a function before left
  it, any register is possible. `effect` relates what reaches the world (the
  target of a call, the value on a port) to what the program says.
* **PbProgram.** First the printer: each handler that matters to control or to
  the bank appends its lines, with the bank they were printed for. Then
  `pblaze_glue` closes the text and the processor runs it; a conditional jump may
  go either way. A program that has an "open end", a `return` in main, or a
  function printed after main that calls is marked in `hit`, and the properties
  are about the others. main is never called: it is entered from address 0.
* **PbConv.** `phase` says which loop runs; each loop is an action per iteration.
* **PbFlow.** `MoveSP` is whatever printing an operand emits before the line; it
  changes the flags. `disturbed` remembers that it happened between two bytes.
  Operands are unsigned, as COMPARE takes them. `right` says whether the right
  operand is the left one, a literal or another variable: I::Add and I::Sub print
  nothing for the same operand twice and for a zero low byte of a literal
  (`NotPrinted`), so the flags stay what they were and the bytes above take them
  in. After such a sum the branch may go wrong (`if (x - 256)`), and `BranchRight`
  is about sums with `AllPrinted`.
* **PbShift.** `inReg` says which bytes have a register when their line is printed,
  `held` whether the counter still has its own behind the body, `move` how far sF
  goes in the body: all follow from what the allocator did. A reload in the body
  prints ADD or SUB of sF, so the carry behind it is anything, and in later turns
  what it reads is anything too (`Reads`). Without `held` the printer names a null
  register and crashes (`PrintCount`): there is no loop then.
* **PbSymbols.** `home` is the hash function, an arbitrary one; `add_symbol` is
  one action over the whole probing loop, .SET updates on the way included.
* **PbAsm.** `g` holds the counters; a line is read and processed in one action
  (`Pass1`, `Pass2`), one operator per directive and pass, since the two passes
  are two functions with their own checks. Like the code's functions they take the
  counters, the table and whether all went well (the record `m`) to the next ones.
  The source is chosen line by line as pass 1 reads it. `trace` and `over` are
  history variables: `trace` keeps the counters and the table each pass came to
  each line with, which is what the properties compare. `AsmAssumption` says what
  a line is: names are no numbers, a directive that needs a name or an expression
  has one (otherwise build returns etMISSING or etSYNTAX, and there is no line).
* **PbSim.** `step` of pBlaze.h is an operator chain on a record (`Begun`,
  `Executed`), because an accepted interrupt and the first instruction of its
  handler are one step. `setInterrupt` and `resetPB` come at any time; main of
  the command line never raises an interrupt, other users of the class do.
  `owed` is a history variable: what each open call or interrupt expects back.
  Each instruction has its own way to fail (`Failed`), behind which main's loop
  ends; `FailureResumes` says what is left then, also if the step took an interrupt
  before its instruction failed.

## 3. Runs

| run | states | what it shows |
|---|---|---|
| `stack` | 159 thousand | spills, reloads, address taking, calls and returns of functions generated one after another, without stack arguments: the six stack properties |
| `gen` | 690 thousand | every function of five instructions, pointers, branches and labels included, over a variable, a pointer and an iTemp, three registers |
| `call` | 545 thousand | every function of five instructions with parameters, sends, calls of all forms and a return, in main and elsewhere |
| `call_saves` | violation | outside main a call drops live registers beyond the argument registers |
| `conv` | 273 thousand | all parameter lists of up to four parameters of 1, 2 or 4 bytes, eight registers |
| `flow` | 1.1 million | comparisons, sums and operations before Ifx, up to three bytes |
| `flow_flags` | violation | the zero flag after a logic operation on two bytes |
| `shift` | 72 thousand | both directions, one and two bytes, every count, all places of the bytes and of the counter |
| `sym` | 13 thousand | every hash function of three names on three places |
| `asm` | 5.7 million | every source of five lines over twenty kinds of line |
| `sim` | 10.7 million | every program of three cells over eight instructions, interrupts and resets at any time, any banks in the stack at first |
| `program` | 651 thousand | every program of main and one function in eleven lines of text, printed and run |

The two violations are findings: the code does something else than the comment
quoted in `PROJECT.json`. CHECK_DEADLOCK is off where the modelled thing ends: a
function or a program of bounded length, a branch taken, a table freed, a
simulation that stopped.

### Bounds, and why they are enough

* `stack`: six cells, variables of one and two bytes. Wrap-around of sF, a
  variable above and below another, and a full frame all occur. `Fits` keeps
  m_lastValue inside the memory; the code has no such check.
* `gen`, `call`: bytes of two values (`RADIX` 2) are enough to tell bytes
  apart and to produce carries; sizes 1 and 2 give casts both ways and a
  carry chain. Fewer registers than live bytes force every path of
  getFreeRegister: free, dead, evicted. `MaxSeq` 5 is a spill, a reload, a use
  and two more; every marked reason is reached within it. Live ranges end in
  the middle or at the end (`Ends`); jumps go forward. The
  operation is the addition, which has a carry to lose; the proofs cover all. Each
  size has a literal whose bytes differ. `&` is a product and `^` a sum modulo
  `RADIX`, which for bits is what they are.
* `conv`: the real number of registers; lists long enough to fill it twice.
* `flow`, `shift`: `BranchAlwaysRight` and `ShiftIsComputed` show that radix and width
  do not matter; `shift` takes bytes of four values so that each bit is at an end,
  and two of them, so that a carry goes from one to the other in each direction.
* `sym`: three places are filled by three names, so full tables, wrap-around of
  the probing and shadowed entries all happen; the proofs cover every size.
* `asm`: a conflict takes a definition, a redefinition, a use and the directive
  whose argument it is; five lines hold that between a label and a jump.
  `CODESIZE` 8 and `MAXESG` 2 (4096 and 255 in the code) let .ORG, .END and .DSG
  reach their limits. The data are a .WLE
  and a .WBE, whose end pass 2 does not compare with gScrSize.
* `program`: eleven lines hold the startup, a main that calls with a bank switch
  and copies a result or calls a function that branches, that function, and the
  last jump; every reason
  in `hit` is reached, and so is what it leads to: a wrong bank, an underflow, a
  function entered from the one before it. `MAXSTK` 2 (31 in the simulator) is
  reached by recursion; the proofs cover all bounds but the last property's.
* `sim`: two frames (31 in the code) fill by a call and an interrupt; one cell
  beyond the memory is executed, then the run ends. The third cell of the stack,
  which nothing reaches, starts with bank 0 to save states.

### Fairness

`ShiftSpec` and `ProgramSpec` assume weak fairness of the step of the processor,
which executes an instruction every two clock cycles. The printer of `PbProgram`
has none: a program may never be finished. `LocksUp` also needs a program that
comes to an end: its jumps go onward and its calls go back to functions printed
before (`Onward`). Everything else that is checked is safety.

## 4. Proofs

The assumptions are the ASSUMEs of the component modules: what sizes and sets the
constants are. TLC evaluates each of them in a run.

* **PbMachineProofs, of PbStack.** `SPTracked` is nearly inductive: every action moves `sp` and
  `offset` by the same difference modulo the memory size (`ModLemmas`); callers
  outside main must take no stack arguments (`CallerKeepsSP`), since their callee
  pops what they never counted. The rest assumes that no function takes stack
  arguments (`NoStackArgs`): with `StackSizes` {0, 1} and `Modes` {FALSE} TLC finds
  `BlocksWhole` violated, because `contains` meets cells of the function generated
  before. `IInv` is the type
  invariant, `SPTracked`, `FrameInv` (where a variable's cells are, and that a
  cell below `m_lastValue` belongs to one) and `SpillsKept`: that a store hits no
  other variable's cell needs all of them.
* **PbMachineProofs, of PbShift.** `Number` is a sum over bytes of any number, so the
  lemmas about it (`NumberIs`, `NumberTail`, `NumberBound`) come first, by induction
  over sets. `ShiftIInv` says between any two instructions how many turns t are done:
  the rest of the count is in `tmp`, and the result stands for the operand shifted
  t times (`Result`). Inside a turn no such thing holds of the whole number, so
  `Partly` names the number v before the turn: the bytes shifted so far stand for
  twice, or half, of those of v, up to the bit in the carry, and the others are
  still those of v, which is why a byte that is in its register is read right.
* **PbLoopProofs, of PbConv.** The inductive invariant relates the three counters at each
  position: a chain of partial sums, monotone, that all loops follow until the
  first parameter that does not fit.
* **PbLoopProofs, of PbFlow.** After i bytes, undisturbed, carry is "less on the low i
  bytes" and zero is "equal on the low i bytes" (after a sum that prints all its
  bytes, "the low i bytes are 0"); the jumps behind the next one say where control
  goes. Then Ifx's templates are a case analysis.
* **PbLoopProofs, of PbAsm.** Pass 2 starts with the table pass 1 left, so what it
  reads of a name is what the *last* definition of pass 1 made of it, and with the
  segments pass 1 left open. `AsmInv` is the type invariant and ten parts. `Chained`:
  the history of pass 1 is a run of build, line by line, from an empty table. `Kept`:
  no line, of either pass, changes the value of a name but a .SET symbol's or a
  dotted label's (`Keeps`). `Following` is the heart: at each line the counters of
  pass 2 are those of pass 1 on top of the segments left open (`Follows`), and what
  pass 1 knew of a name when it came to that line is what pass 2 knows of it now
  (`Sees`). A step keeps it, because both functions evaluate the same expressions and
  where build gave a .SET symbol or a dotted label its value, assemble gives it the
  same one; an expression that read an unknown name was an error in pass 1. This needs
  `Unbroken`, that no .SET symbol was defined another way: without it the table
  holds two definitions and pass 2 moves the wrong one. For jumps and
  data, `Coding` ties each word of the code to the table its line was assembled with,
  `InPlace` says that a label was checked where it stands (etPHASING), `Addressed`
  that a datum's name still has its scratchpad address, and `Moving` that a dotted
  label has the value of its nearest place, `Target`.
  Each directive has a lemma per pass that says what it does (`Builds`, `Assembles`);
  the invariant is proved from these, so a directive that is added needs two more.
* **PbToolProofs, of PbSymbols.** `ProbesReach` is inductive: places are filled at the first
  empty one of a probe and emptied only all together. From it a search equals the
  first definition of the name, and every action is a step or a stutter of
  `SymMap`: the refinement `IsMap`.
* **PbToolProofs, of PbSim.** The inductive invariant is the type invariant and `FramesKept`,
  shown first for the record a step works on (an interrupt pushed, an instruction
  executed), then for the variables; the two action properties follow from it.

* **PbProgramProofs.** The invariant `ProgramInv` is the type invariant and, as long
  as nothing is marked, `Meets`. Of the text (`TextOK`): a line that is no jump and
  no return is followed by a line of the same function, printed for the bank the
  first one leaves; calls are made in bank B only. Of the printer (`PrinterOK`):
  the last line leaves its function's bank, and the function at hand is its owner;
  every jump of a finished function has its label. Of the run (`RunOK`): the
  processor's bank is that of the next line; every return address is a line for
  bank B, the first one of main; with no return address the processor is in main or
  the glue. That is what makes calls nest: the callee, whoever it is, was printed
  for B and leaves B.

* **PbGenProofs.** A handler composes loops over bytes that allocate, spill and
  reload while they print, so the invariant must hold in the middle of every
  handler. `Kept` is the set of states that are well typed, whose frame gives each
  symbol cells of its own (`Framed`), where every home is backed by the name of its
  register (`Backed`, which also makes homes exclusive), and that have changed
  nothing the rest of the handler relies on (`Onward`: the instruction at hand, the
  live ranges, cells once given). Each operation of the allocator keeps that, then
  each round of each loop, then each handler. A loop is followed by induction over
  sets (`LoopExists`, `LoopKeeps` of `ModLemmas`): the states after i rounds are
  in K[i], a family of sets, which the provers can instantiate where an operator
  they cannot. `GenInv` adds that an address the program holds is one of an object
  on the stack (`Pointing`), so that what is fetched and stored is in the frame.

* **PbRightProofs.** `LabelCoherent` compares that belief with the machine. Between
  two bytes of an instruction neither the value before it nor the one behind it is
  what the registers hold, so `Right(V, D, o, w)` names the meaning w that they do
  hold: every byte that may still be read and that w defines is in its register, or
  on the stack when it has none, unless a hazard was marked. There is one lemma for
  each step on a byte (`Load`, spill, `Execute`, `Cast`, `Fetch`, `Store`), which
  says how w changes; the carry is followed the same way, as the one `Chain`
  computes. A loop goes through the meanings of its first i bytes, an invariant
  family as in `PbGenProofs`; pointers add that they hold the address their
  target has (`Reaches`) and step through its bytes. A copy that follows a look
  ahead either prints nothing or is marked (`BacksRight`), so it needs no invariant
  of its own. `RightInv` is `LabelInv` and three parts none of which can be left
  out: `Sound`, that the machine holds `val`; `Mute`, that the scratch operand is
  never live; and `Afar`, that the state a pending forward jump will restore is
  `Right` as well.

* **PbCallProofs.** Calls break `Backed`: Receive and the result are given registers
  by decree, starSym takes one that is in use, and Call takes names out of registers
  whose bytes may keep them as homes. So the invariant
  `CallInv` is narrower: `Firm(D, o)` is `Kept`, with `Backed` only for the bytes of D,
  and only while `Named` holds (in the proofs: `Clean`, no hazard of those two was
  hit); D is what may still be read (`Now`). That is inductive because two places are
  free when something is put into them. `Under`: as parameters are received, no home
  is at or above the next parameter's register. `Spared`: no byte of D has one of the registers
  that are about to be overwritten. Clearing an argument register spares it, and what
  is allocated in between comes from above VAR_REG_START (`Low`), so it stays spared
  until the call. Of the call, `SaveByte` and `Invalidate` spare whatever the callee
  uses and the result goes to: the byte that is saved either dies with the call
  (`Later`), is the result (`Rest`), or loses its home. The number of registers is a
  sum over a sequence (`Total`, followed by `LoopKeeps`); that the result fits the
  registers is `CallAssumption`. A call through a pointer keeps it but for the two
  bytes of the pointer, and an invariant over the bytes of the loop tells when both
  are named. `FormsInv` adds that a port takes one byte.
  That the machine has what is believed is `MeantInv`. `Sure(D, o, w)` is to `Firm`
  what `Right` is to `Kept`: the states whose machine holds the meaning w. w shrinks
  where a handler stops caring: the bytes of a pointer leave it as they are moved,
  after a call it is `Only` what the callee's registers and the result spare, while
  byte i of a result is loaded it is the bytes from i on (`Comes`). Next to it the
  handlers need what has already been put in place to stay: `Laid`, the bytes of an
  argument from lastReg on with all that was below; `InPlace`, all the arguments,
  from `Laid` by the sums of `Sent`; `Addressed`, the two bytes of a pointer;
  `Loaded`, the bytes of a result. Each says so unless a hazard was marked, and marks
  are never taken back (`Stains`). `Told` is needed for pointers: while their bytes
  are moved registers keep their old names, so `Backed` says nothing of
  them, but what w still claims is named. Between the two SENDs of a port_out the
  operand may be dead by the counters, which `Sure` then says nothing of:
  `Holding`, kept by `Held`, says that its register, if it has one, has its value;
  "operand dead" marks the case where it has none.

| theorem | of every value of the constants |
|---|---|
| `TypeCorrect`, `SPAlwaysTracked`, `ReturnAlwaysPopsFrame`, `FrameAlwaysWhole`, `SpillsAlwaysKept`, `ReloadAlwaysReturnsSpill`, `SpillsAlwaysInFrame` | the properties of `stack` |
| `ConvTypeCorrect`, `PlacesAlwaysAgree`, `ParametersAlwaysDisjoint`, `CountedAlwaysArguments` | the properties of `conv` |
| `FlowTypeCorrect`, `BranchAlwaysRight` | the properties of `flow` |
| `ShiftTyped`, `ShiftIsComputed`, `ShiftLeavesSP` | the safety properties of `shift` |
| `SymTypeCorrect`, `ProbesAlwaysReach`, `AddedAlwaysFound`, `TableIsMap` | the properties of `sym` |
| `ProgramTypeCorrect`, `BankAlwaysAsBelieved`, `NeverUnderflows`, `AlwaysEntersByCall` | the safety properties of `program` |
| `LabelsTyped`, `HomesAlwaysBacked`, `HomesAlwaysExclusive` | the type and allocator invariants of `gen` |
| `LabelsAlwaysCoherent` | the coherence of code and program of `gen` |
| `FormsTyped`, `LiveHomesAlwaysBacked`, `LiveHomesAlwaysExclusive` | the type and allocator invariants of `call` |
| `CallsAlwaysCoherent`, `ArgumentsAlwaysInPlace`, `EffectsAlwaysMeant`, `ReturnsAlwaysResult` | that the code of `call` does what the program says, also to callees, ports and callers |
| `AsmTyped`, `PassesAlwaysAgree`, `JumpsAlwaysLand`, `DottedAlwaysLand`, `DataAlwaysLands` | the properties of `asm` |
| `SimTypeCorrect`, `FramesAlwaysKept`, `ReturnsAlwaysRestore`, `FailuresAlwaysResume` | the properties of `sim` |

The type invariants among them (`TypeCorrect`, `ConvTypeCorrect`, `FlowTypeCorrect`,
`SymTypeCorrect`, `SimTypeCorrect`, `ProgramTypeCorrect`) are no properties of a run
any more: the theorem says more.

**Only model-checked**: the liveness of `PbShift` and `PbProgram`, which is out of
the prover's reach. Every safety property and every action property of a passing
run is a theorem.

## 5. Not modelled

* Backward jumps in the allocator's view: a loop body is generated once and runs
  in states no finite text shows; `PbShift` models the one loop the port prints.
* The values of stack arguments; port_in, which is declared without parameters, so
  that the SENDs its handler looks for are missing; calls and returns without a
  value; InlineAsm.
* `!`, which the table of handlers maps to Not, the bitwise complement.
* Static memory: `allocateGlobal` is never called, so `containsStatic` never
  finds anything.
* Of the assembler: the lexer, operators in expressions, .DEF, .TXT, .NAMEREG,
  registers, the listing, merging the scratchpad into the code; both passes of
  the model stop at their first error, the code goes on to report more.
* Of the simulator: registers, scratchpad, devices, the PicoBlaze 3 core.
* Of the glue: segments, publics, externs and static initialisations. The port
  fills none of them; emitMaps, emitRegularMap, emitStaticSeg, emitOverlay and the
  printing of publics and externs run on empty segments or are never called.
* Code nothing calls: Memory::allocateGlobal, Stack::insert, containsLive,
  isValid, I::Test, futureSP.
* Port description, command lines, the test scripts: tables, text and files.

Observations made on the way that are no finding of a run:

* getFreeRegister evicts the variable that is needed soonest, while its comment
  (ralloc.cc 183) says longest.
* `isMain` is never reset (util.cc 43): a function printed after main that calls
  switches to main's bank for its callee.
* A `return` in main prints RETURN with an empty call stack, while glue.cc 620 says
  that it locks up; a main that runs out does.
* A function that ends without `return` falls into what follows it (gen.cc 221).
* A file without main ends in a jump to a label that is not printed (glue.cc 630).
* With arguments on the stack, `m_mem` of the function before is searched
  (ralloc.cc 149) and the callee pops what the caller never counted (ralloc.cc 78).
* A literal sent to a port number above 14 prints OUTPUT with two numbers.
* `!x` prints a bitwise complement (gen.cc 789).
* The option `--argreg` sets a variable nothing reads (main.c 35, 95).
* Globals have no memory: nothing calls allocateGlobal.
* The `<<` of Emitter end without returning the reference they promise (util.cc 11).
* A second CONSTANT of a known name is reported as added, while the comment at
  pbSymbols.c 173 promises a refusal.

## 6. Plan

1. Stack arguments with their values: Assign in a call, functionEnd of the callee.
2. Merging the scratchpad into the code; operators of expressions.
3. Registers, scratchpad and ports of the simulator, where handlers print what it
   executes.
