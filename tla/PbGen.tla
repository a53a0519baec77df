------------------------------- MODULE PbGen -------------------------------
(***************************************************************************)
(* The handlers of gen.cc that move and compute values: Assign, the        *)
(* two-operand operations and Cast, generating one function of             *)
(* straight-line code over the allocator of PbRegs, and the code they emit *)
(* executed as it is emitted.                                              *)
(*                                                                         *)
(* val is what the source program means: the value of every byte of every  *)
(* symbol after the instructions generated so far.  The generator is right *)
(* when the machine can still produce val of all that will be read again.  *)
(* Where the code does not ensure it, the action adds the reason to g.hit, *)
(* and the properties say that nothing else ever goes wrong:               *)
(*   "operand evicted"    printing the second operand of an instruction    *)
(*                        took the register printed for the first          *)
(*   "carry lost"         an addcy or subcy with a carry that is not the   *)
(*                        one of the byte before                           *)
(*   "same operand"       x += x and x -= x emit no instruction, and what  *)
(*                        x held is gone when x = y op x is computed       *)
(*   "spilled temporary"  a dying iTemp is moved by renaming its register, *)
(*                        and it has none                                  *)
(*   "byte beyond type"   a narrowing cast gave the result a register for  *)
(*                        a byte it does not have, and that was spilled    *)
(*   "stale result"       an operation was done on y for the sake of the   *)
(*                        next instruction, y = t, which is generated as   *)
(*                        usual and gives y what t held before             *)
(***************************************************************************)
EXTENDS PbRegs

CONSTANTS
  Temps,    \* the symbols that are iTemps
  Ops,      \* the operations of the program
  Literals(_), \* the literals of the type of a symbol
  MaxSeq,   \* bound: instructions of the function
  Ends      \* bound: where the last use of a symbol may be

ASSUME GenAssumption ==
  /\ Temps \subseteq Syms
  /\ Ops \subseteq {"+", "-", "&", "^"}
  /\ \A x \in Syms : Literals(x) \subseteq [Bytes(x) -> Byte]
  /\ MaxSeq \in Nat /\ Ends \subseteq Nat

VARIABLES
  g,        \* generator and machine, see PbRegs
  val,      \* val[x, i]: what byte i of x should be
  next      \* None, or the copy y = t a handler looked for behind t = y op z,
            \* and what follows: that copy, a store *y = t, or another one

vars == <<g, val, next>>

-----------------------------------------------------------------------------
(* Instructions of one byte.                                               *)

Emit(h, r, v) == [h EXCEPT !.reg[r] = v]

(* emit << I::Load(x, y) and I::Load(x, literal)                           *)
Load(h, x, y, i) ==
  LET m == Touch(h, x, i)
      k == TouchNext(m, x, y, i)
  IN  Emit(k, m.home[<<x, i>>], k.reg[k.home[<<y, i>>]])
LoadLit(h, x, i, c) ==
  LET k == Touch(h, x, i) IN Emit(k, k.home[<<x, i>>], c)

(* A result and a carry of each operation on a byte.                       *)
Result(op, a, b, cy) ==
  IF a = Junk \/ b = Junk THEN Junk
  ELSE CASE op = "+" -> (a + b + cy) % RADIX
         [] op = "-" -> (a - b - cy) % RADIX
         [] op = "&" -> (a * b) % RADIX
         [] op = "^" -> (a + b) % RADIX
Carry(op, a, b, cy) ==
  IF a = Junk \/ b = Junk THEN 0
  ELSE CASE op = "+" -> IF a + b + cy >= RADIX THEN 1 ELSE 0
         [] op = "-" -> IF a - b - cy < 0 THEN 1 ELSE 0
         [] OTHER    -> 0
Arith == {"+", "-"}

(* The operation on register r with operand v: bytes after the first take  *)
(* the carry of the byte before, whatever was emitted in between.          *)
Execute(h, op, r, v, i) ==
  LET cy == IF i > 0 /\ op \in Arith THEN h.carry ELSE 0
  IN  [h EXCEPT !.reg[r] = Result(op, h.reg[r], v, cy),
                !.carry  = Carry(op, h.reg[r], v, cy)]

(* The carry the byte before left, or that it should have left.            *)
Needs(k, op, i, cy) ==
  IF i > 0 /\ op \in Arith /\ k.carry # cy
  THEN [k EXCEPT !.hit = @ \cup {"carry lost"}] ELSE k

(* I::Add and I::Sub of an operand with itself emit nothing.               *)
Operate(h, op, x, z, i) ==
  IF op \in Arith /\ x = z THEN [h EXCEPT !.hit = @ \cup {"same operand"}]
  ELSE LET m == Touch(h, x, i)
           k == TouchNext(m, x, z, i)
       IN  Execute(Needs(k, op, i, h.carry), op,
                   m.home[<<x, i>>], k.reg[k.home[<<z, i>>]], i)

(* ... and of a literal whose byte 0 is zero emit nothing for byte 0: the  *)
(* next byte adds a carry that an earlier instruction left.                *)
OperateLit(h, op, x, c, i) ==
  IF op \in Arith /\ i = 0 /\ c[0] = 0 THEN h
  ELSE LET k == Touch(h, x, i)
       IN  Execute(Needs(k, op, i, IF i = 1 /\ c[0] = 0 THEN 0 ELSE h.carry),
                   op, k.home[<<x, i>>], c[i], i)

ForBytes(Step(_, _), h, n) ==
  LET f[k \in 0 .. n] == IF k = 0 THEN h ELSE Step(f[k - 1], k - 1) IN f[n]

-----------------------------------------------------------------------------
(* Handlers.                                                               *)

TakeCopy(h, x, y, i) ==  \* y keeps the register too
  LET r == h.home[<<y, i>>]
  IN  [h EXCEPT !.home[<<x, i>>] = r, !.bank[r] = <<x, h.bank[r][2]>>]
TakeUnnamed(h, x, y, i) ==  \* the register keeps the name of y
  LET r == h.home[<<y, i>>]
  IN  [h EXCEPT !.home[<<x, i>>] = r, !.home[<<y, i>>] = None]

(* The register of a byte of a dying iTemp becomes that of a byte of x; if *)
(* it had lost its name it stays free.                                     *)
Take(h, x, y, i) ==
  LET r == h.home[<<y, i>>]
  IN  [h EXCEPT !.home[<<x, i>>] = r, !.home[<<y, i>>] = None,
                !.bank[r] = IF h.bank[r] = None THEN None ELSE <<x, h.bank[r][2]>>]
Dying(h, y) == y \in Temps /\ h.liveTo[y] <= h.seq

AssignCode(h, x, y) ==
  IF Dying(h, y)
  THEN ForBytes(LAMBDA k, i : IF k.home[<<y, i>>] = None
                              THEN [k EXCEPT !.hit = @ \cup {"spilled temporary"}]
                              ELSE Take(k, x, y, i), h, SizeOf[y])
  ELSE ForBytes(LAMBDA k, i : Load(k, x, y, i), h, SizeOf[x])

(* The left operand of an operation in the place of its result.            *)
LeftCode(h, x, y) ==
  ForBytes(LAMBDA k, i : IF k.home[<<y, i>>] # None /\ Dying(k, y)
                         THEN Take(k, x, y, i) ELSE Load(k, x, y, i), h, SizeOf[y])

CastCode(h, x, y) ==
  LET copy(k, i) ==
        LET m == IF k.home[<<x, i>>] = None THEN Allocate(k, x, i) ELSE k
            r == m.home[<<x, i>>]
        IN  IF m.home[<<y, i>>] # None THEN Emit(m, r, m.reg[m.home[<<y, i>>]])
            ELSE IF m.at[y] # None THEN fetchVariable(m, y, i, r)
            ELSE m
      move(k, i) ==
        IF k.home[<<y, i>>] # None
        THEN [occupy(k, k.home[<<y, i>>], x, i) EXCEPT
                !.home[<<x, i>>] = k.home[<<y, i>>], !.home[<<y, i>>] = None]
        ELSE IF k.at[y] = None THEN k
        ELSE IF k.home[<<x, i>>] # None THEN fetchVariable(k, y, i, k.home[<<x, i>>])
        ELSE [k EXCEPT !.hit = @ \cup {"spilled temporary"}]
      filled == IF Dying(h, y) THEN ForBytes(move, h, SizeOf[y])
                ELSE ForBytes(copy, h, SizeOf[y])
  IN  ForBytes(LAMBDA k, i : IF i < SizeOf[y] THEN k ELSE LoadLit(k, x, i, 0),
               filled, SizeOf[x])

-----------------------------------------------------------------------------
(* The meaning of an instruction.                                          *)

Value(f, x, v) == [b \in AllBytes |-> IF b[1] = x THEN v[b[2]] ELSE f[b]]

(* The bytes of y op z, each with the carry of the bytes below it.         *)
Meaning(op, n, a, b) ==
  LET cy[i \in 0 .. n] == IF i = 0 THEN 0
                          ELSE Carry(op, a[i - 1], b[i - 1],
                                     IF op \in Arith THEN cy[i - 1] ELSE 0)
  IN  [i \in 0 .. n - 1 |-> Result(op, a[i], b[i], cy[i])]
BytesOf(x) == [i \in Bytes(x) |-> val[<<x, i>>]]

Readable(x) == g.liveTo[x] >= g.seq /\ \A i \in Bytes(x) : val[<<x, i>>] # Junk
Number(x)   == Readable(x) /\ \A i \in Bytes(x) : val[<<x, i>>] \in Byte
Writable(x) == g.liveTo[x] >= g.seq
Lost(t)     == Value(val, t, [i \in Bytes(t) |-> Junk])

(* What a handler found in the next instruction.                           *)
Copy(y, t)  == [copy |-> <<y, t>>, is |-> "assign"]
Store(y, t) == [copy |-> <<y, t>>, is |-> "store"]
Other(y, t) == [copy |-> <<y, t>>, is |-> "other"]
Open        == next = None \/ next \in [copy : Syms \X Syms, is : {"other"}]

Init ==
  /\ \E live \in [Syms -> Ends] : g = Fresh(live, 0)
  /\ val = [b \in AllBytes |-> Junk]
  /\ next = None

Generate(h) == g.seq <= MaxSeq /\ g' = [h EXCEPT !.seq = @ + 1]

Assign(x, y) ==
  /\ Open /\ next # Other(x, y) /\ x # y /\ SizeOf[x] = SizeOf[y] /\ Readable(y) /\ Writable(x)
  /\ Generate(AssignCode(g, x, y))
  /\ val' = Value(val, x, BytesOf(y))
  /\ next' = None

AssignLit(x, c) ==
  /\ Open /\ Writable(x)
  /\ Generate(ForBytes(LAMBDA k, i : LoadLit(k, x, i, c[i]), g, SizeOf[x]))
  /\ val' = Value(val, x, c)
  /\ next' = None

(* x = y op z, where the next instruction is not the copy y = x of a       *)
(* variable that ends there.  z may be x, or an iTemp that dies as y: what *)
(* it held is overwritten, or its register gone, when it is printed.       *)
Ahead(x, y) == IF x # y /\ g.liveTo[x] <= g.seq + 1 THEN Other(y, x) ELSE None
Operation(op, x, y, z) ==
  /\ Open /\ SizeOf[x] = SizeOf[y] /\ SizeOf[y] = SizeOf[z]
  /\ Number(y) /\ Number(z) /\ Writable(x)
  /\ LET h == IF x = y THEN g ELSE LeftCode(g, x, y)
         m == IF x # y /\ (x = z \/ (y = z /\ Dying(g, y)))
              THEN [h EXCEPT !.hit = @ \cup {"same operand"}] ELSE h
     IN  Generate(ForBytes(LAMBDA k, i : Operate(k, op, x, z, i), m, SizeOf[y]))
  /\ val' = Value(val, x, Meaning(op, SizeOf[y], BytesOf(y), BytesOf(z)))
  /\ next' = Ahead(x, y)

OperationLit(op, x, y, c) ==
  /\ Open /\ SizeOf[x] = SizeOf[y] /\ Number(y) /\ Writable(x)
  /\ LET h == IF x = y THEN g ELSE LeftCode(g, x, y)
     IN  Generate(ForBytes(LAMBDA k, i : OperateLit(k, op, x, c, i), h, SizeOf[y]))
  /\ val' = Value(val, x, Meaning(op, SizeOf[y], BytesOf(y), c))
  /\ next' = Ahead(x, y)

(* x = c op z: a literal is never what the next instruction assigns to.    *)
LitOperation(op, x, c, z) ==
  /\ Open /\ SizeOf[x] = SizeOf[z] /\ Number(z) /\ Writable(x)
  /\ LET h == ForBytes(LAMBDA k, i : LoadLit(k, x, i, c[i]), g, SizeOf[x])
         m == IF x = z THEN [h EXCEPT !.hit = @ \cup {"same operand"}] ELSE h
     IN  Generate(ForBytes(LAMBDA k, i : Operate(k, op, x, z, i), m, SizeOf[x]))
  /\ val' = Value(val, x, Meaning(op, SizeOf[x], c, BytesOf(z)))
  /\ next' = None

(* t = y op z where the next instruction is y = t and t ends there: the    *)
(* operation is done on y itself, which has its new value one instruction  *)
(* early.  The value of t, which only that copy reads, is nowhere.         *)
Back(t, y) ==
  /\ Open /\ t # y /\ g.liveTo[t] = g.seq + 1 /\ SizeOf[t] = SizeOf[y]
  /\ Number(y) /\ g.liveTo[y] > g.seq /\ g.seq < MaxSeq
  /\ next' = Copy(y, t)

OperationBack(op, t, y, z) ==
  /\ Back(t, y) /\ SizeOf[y] = SizeOf[z] /\ Number(z)
  /\ Generate(ForBytes(LAMBDA k, i : Operate(k, op, y, z, i), g, SizeOf[y]))
  /\ val' = Value(Lost(t), y, Meaning(op, SizeOf[y], BytesOf(y), BytesOf(z)))

OperationLitBack(op, t, y, c) ==
  /\ Back(t, y)
  /\ Generate(ForBytes(LAMBDA k, i : OperateLit(k, op, y, c, i), g, SizeOf[y]))
  /\ val' = Value(Lost(t), y, Meaning(op, SizeOf[y], BytesOf(y), c))

(* ... and that copy, generated as any other: all is well where t never    *)
(* had a register of its own.                                              *)
Stale(h) == [h EXCEPT !.hit = @ \cup {"stale result"}]
CopyCode(h, x, y) ==
  IF Dying(h, y)
  THEN ForBytes(LAMBDA k, i : IF k.home[<<y, i>>] = None THEN k ELSE Stale(Take(k, x, y, i)),
                h, SizeOf[y])
  ELSE Stale(ForBytes(LAMBDA k, i : Load(k, x, y, i), h, SizeOf[x]))
AssignBack(x, t) ==
  /\ next = Copy(x, t)
  /\ Generate(CopyCode(g, x, t))
  /\ next' = None
  /\ UNCHANGED val

Cast(x, y) ==
  /\ Open /\ x # y /\ Readable(y) /\ Writable(x)
  /\ Generate(CastCode(g, x, y))
  /\ val' = Value(val, x, [i \in Bytes(x) |-> IF i \in Bytes(y) THEN val[<<y, i>>] ELSE 0])
  /\ next' = None

(* An instruction with result x.                                           *)
Instruction(x) ==
  \/ \E y \in Syms : Assign(x, y) \/ AssignBack(x, y) \/ Cast(x, y)
  \/ \E c \in Literals(x) : AssignLit(x, c)
  \/ \E op \in Ops, y \in Syms, z \in Syms : Operation(op, x, y, z) \/ OperationBack(op, x, y, z)
  \/ \E op \in Ops, y \in Syms : \E c \in Literals(y) :
       \/ OperationLit(op, x, y, c) \/ OperationLitBack(op, x, y, c)
       \/ LitOperation(op, x, c, y)

Next == \E x \in Syms : Instruction(x)
Spec == Init /\ [][Next]_vars

-----------------------------------------------------------------------------
Live(x) == g.liveTo[x] >= g.seq

TypeOver(V) ==
  /\ g.seq \in 1 .. MaxSeq + 1
  /\ g.home \in [Places -> Regs \cup {None}]
  /\ g.bank \in [Regs -> Places \cup {None}]
  /\ g.at \in [Syms -> Cells \cup {None}]
  /\ g.top \in Cells /\ g.offset \in Cells
  /\ g.reg \in [Regs -> V \cup {Junk}]
  /\ g.ram \in [Cells -> V \cup {Junk}]
  /\ g.carry \in {0, 1}
  /\ val \in [AllBytes -> V \cup {Junk}]
  /\ next \in [copy : Syms \X Syms, is : {"assign", "store", "other"}] \cup {None}
TypeOK == TypeOver(Byte)

(* No two bytes share a register: whatever is moved between symbols,       *)
(* evicted or reloaded, a register is the home of one byte (Symbol::regs). *)
HomesExclusive ==
  \A b, c \in Places : b # c /\ g.home[b] # None => g.home[b] # g.home[c]

(* The two sides of the allocator agree: the register a symbol points to   *)
(* names that byte of that symbol.  Register::clear depends on it: where   *)
(* they disagree it leaves a live value in a register it gives away.       *)
HomesBacked ==
  \A b \in Places : g.home[b] # None => g.bank[g.home[b]] = b

(* Where the machine finds byte i of x.                                    *)
Reads(x, i) == IF g.home[<<x, i>>] # None THEN g.reg[g.home[<<x, i>>]]
               ELSE IF g.at[x] # None THEN g.ram[g.at[x] + i]
               ELSE Junk

(* The generated code computes what the program means: as long as no       *)
(* hazard was hit, every byte that may still be read has its value in its  *)
(* register, or on the stack when it has none.                             *)
Coherent ==
  g.hit = {} => \A x \in Syms : Live(x) => \A i \in Bytes(x) :
                  val[<<x, i>>] # Junk => Reads(x, i) = val[<<x, i>>]
=============================================================================
