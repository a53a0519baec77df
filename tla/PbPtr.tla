-------------------------------- MODULE PbPtr --------------------------------
(***************************************************************************)
(* The handlers of gen.cc that go through pointers: AddressOf, AtAddress   *)
(* and assignment through a pointer, with Stack::loadAddress and the       *)
(* emitters Fetch and Store, over the functions of PbGen.                  *)
(*                                                                         *)
(* A pointer is one byte (main.c 184).  The address of cell k of the frame *)
(* is RADIX + k, a value no operation of the program computes; what is not *)
(* in the frame is Junk.  A pointer is followed to the start of the object *)
(* it was taken from.  Six more reasons are marked in g.hit:               *)
(*   "address off"          loadAddress counts from the top of the frame   *)
(*                          and from where sF happens to be                *)
(*   "object in register"   the cells of an object are read or written     *)
(*                          through a pointer while it lives in registers  *)
(*   "pointer spilled"      the register of a pointer is printed and it    *)
(*                          has none: the compiler reads through null      *)
(*   "pointer not restored" the way back is taken from the result          *)
(*   "result unallocated"   a register was given to the iTemp, the value   *)
(*                          is fetched into the variable behind it         *)
(*   "pointer lost"         *q = *p: what is behind p is fetched into q    *)
(***************************************************************************)
EXTENDS PbGen

CONSTANT tmpOp   \* the iTemp made for a literal: dead in every instruction

ASSUME PtrAssumption == tmpOp \in Syms \ Temps

Address(k) == IF k \in Cells THEN RADIX + k ELSE Junk
Addresses  == {RADIX + k : k \in Cells}
Cell(v)    == IF v \in Addresses THEN v - RADIX ELSE Junk
Crashed(h) == "pointer spilled" \in h.hit
Hit(h, reason, when) == IF when THEN [h EXCEPT !.hit = @ \cup {reason}] ELSE h

-----------------------------------------------------------------------------
(* Stack::loadAddress.                                                     *)
AddressLoaded(k, p, x) ==
  Hit([k EXCEPT !.reg[k.home[<<p, 0>>]] = Address(k.offset + k.top - SizeOf[x]),
                !.carry = IF k.top = SizeOf[x] THEN @ ELSE 0],
      "address off", k.offset # 0 \/ k.at[x] + SizeOf[x] # k.top)
loadAddress(h, p, x) == AddressLoaded(Touch(Reserve(h, x), p, 0), p, x)

(* emit << I::Add(p->regs[0], n) and Sub, with n not zero.                 *)
ShiftUnbounded(v, n) ==  \* a byte wider than the registers
  IF v \in Addresses THEN Address(Cell(v) + n) ELSE IF v = Junk THEN Junk ELSE v + n
Shift(v, n)   == IF v \in Addresses THEN Address(Cell(v) + n)
                 ELSE IF v = Junk THEN Junk ELSE (v + n) % RADIX
Move(h, p, n) ==
  IF h.home[<<p, 0>>] = None THEN Hit(h, "pointer spilled", TRUE)
  ELSE [h EXCEPT !.reg[h.home[<<p, 0>>]] = Shift(@, n), !.carry = 0]
StepOn(h, p, i, n) == IF i < n - 1 THEN Move(h, p, 1) ELSE h
GoesDying(h, p, n) == h.liveTo[p] <= h.seq /\ n > 1  \* a slip: only when it dies
Goes(h, p, n)      == h.liveTo[p] > h.seq /\ n > 1

Target(p) == CHOOSE x \in Syms : val[<<p, 0>>] = Address(g.at[x])
Pointer(p) == SizeOf[p] = 1 /\ Readable(p) /\ val[<<p, 0>>] \in Addresses

(* AtAddress, byte i of the result x of iCode result t through p to y: a   *)
(* pointer that was spilled is reloaded into a register for the result,    *)
(* the result is given one if it has none, and its byte is fetched.        *)
Reloaded(h, p, r) == IF h.at[p] = None THEN h ELSE fetchVariable(h, p, 0, r)
PointerReloaded(h, t, p, i) ==
  IF h.home[<<p, 0>>] # None THEN h ELSE Reloaded(Allocate(h, t, i), p, Victim(h))
ResultAllocated(h, x, t, i) ==
  IF h.home[<<x, i>>] # None THEN h
  ELSE Hit(Allocate(h, t, i), "result unallocated", x # t)
Content(h, k) == IF k = Junk THEN Junk ELSE h.ram[k]
Fetched(h, x, p, i) ==
  [h EXCEPT !.reg[h.home[<<x, i>>]] = Content(h, Cell(h.reg[h.home[<<p, 0>>]]))]
FetchThrough(h, x, p, y, i) ==
  IF h.home[<<p, 0>>] = None THEN Hit(h, "pointer spilled", TRUE)
  ELSE Hit(StepOn(Fetched(h, x, p, i), p, i, SizeOf[x]),
           "object in register", h.home[<<y, i>>] # None)
FetchByte(h, x, t, p, y, i) ==
  IF Crashed(h) THEN h
  ELSE FetchThrough(Touch(ResultAllocated(PointerReloaded(h, t, p, i), x, t, i), x, i),
                    x, p, y, i)

(* The way back of the pointer, by way of register 0 of r.                 *)
WayBack(h, p, r, n) == IF Crashed(h) \/ ~Goes(h, p, n) THEN h ELSE Move(h, r, 1 - n)

AtAddressCode(h, x, t, p, y) ==
  LET n == SizeOf[x]
      k == ForBytes(LAMBDA m, i : FetchByte(m, x, t, p, y, i), h, n)
  IN  WayBack(Hit(k, "pointer not restored", Goes(h, p, n)), p, x, n)

(* Assign to *p of the bytes of z, printed by Put: y is the object.        *)
StoredAt(h, k, v) == IF k = Junk THEN h ELSE [h EXCEPT !.ram[k] = v]
StoreByte(h, p, y, z, i) ==
  IF h.home[<<p, 0>>] = None THEN Hit(h, "pointer spilled", TRUE)
  ELSE Hit(StepOn(StoredAt(h, Cell(h.reg[h.home[<<p, 0>>]]), h.reg[h.home[<<z, i>>]]),
                  p, i, SizeOf[y]),
           "object in register", h.home[<<y, i>>] # None)

PointerSetCode(Put(_, _), h, p, y, z) ==
  WayBack(ForBytes(LAMBDA m, i : IF Crashed(m) THEN m ELSE StoreByte(Put(m, i), p, y, z, i),
                   h, SizeOf[y]),
          p, p, SizeOf[y])

-----------------------------------------------------------------------------
PtrInit ==
  /\ \E live \in [Syms -> Ends] : g = Fresh([live EXCEPT ![tmpOp] = 0], 0)
  /\ val = [b \in AllBytes |-> Junk]
  /\ next = None

Usual == Open /\ ~Crashed(g)

AddressOf(p, x) ==
  /\ Usual /\ SizeOf[p] = 1 /\ Writable(p) /\ Writable(x)
  /\ LET h == loadAddress(g, p, x)
     IN  /\ Generate(h)
         /\ val' = Value(val, p, [i \in {0} |-> Address(h.at[x])])
  /\ next' = None

(* x = *p.  AtAddress looks for the copy y = x behind it by the identity of*)
(* the Operand, so that the copy may follow all the same.                  *)
AtAddress(x, p) ==
  /\ Usual /\ Pointer(p) /\ Writable(x)
  /\ LET y == Target(p)
     IN  /\ SizeOf[x] = SizeOf[y] /\ Readable(y)
         /\ Generate(AtAddressCode(g, x, x, p, y))
         /\ val' = Value(val, x, BytesOf(y))
  /\ next' = None

(* t = *p, and the look finds x = t or *x = t, where t ends: fetched into  *)
(* x, as many bytes as x has.                                              *)
Awaits(t, x) ==
  /\ t # x /\ g.liveTo[t] = g.seq + 1 /\ g.liveTo[x] > g.seq /\ g.seq < MaxSeq
AtAddressBack(x, t, p) ==
  /\ Usual /\ Pointer(p) /\ Awaits(t, x)
  /\ LET y == Target(p)
     IN  /\ SizeOf[x] = SizeOf[y] /\ SizeOf[t] = SizeOf[y] /\ Readable(y)
         /\ Generate(AtAddressCode(g, x, t, p, y))
         /\ val' = Value(Lost(t), x, BytesOf(y))
  /\ next' = Copy(x, t)
AtAddressStore(x, t, p) ==
  /\ Usual /\ Pointer(p) /\ Pointer(x) /\ Awaits(t, x)
  /\ LET y == Target(p)
     IN  /\ SizeOf[t] = SizeOf[y] /\ SizeOf[Target(x)] = SizeOf[y] /\ Readable(y)
         /\ g.liveTo[Target(x)] > g.seq
         /\ Generate(Hit(AtAddressCode(g, x, t, p, y), "pointer lost", TRUE))
         /\ val' = Value(Lost(t), Target(x), BytesOf(y))
  /\ next' = Store(x, t)

PointerSet(p, z) ==
  /\ Usual /\ Pointer(p) /\ Readable(z)
  /\ LET y == Target(p)
     IN  /\ SizeOf[z] = SizeOf[y] /\ Writable(y)
         /\ Generate(PointerSetCode(LAMBDA m, i : Touch(m, z, i), g, p, y, z))
         /\ val' = Value(val, y, BytesOf(z))
  /\ next' = None

(* That store, through what is in the place of the pointer by now: z stands*)
(* here for the object, whose value is meant to be there already.          *)
PointerSetBack(p, z) ==
  /\ ~Crashed(g) /\ next = Store(p, z)
  /\ Generate(PointerSetCode(LAMBDA m, i : Touch(m, z, i), g, p, z, z))
  /\ next' = None
  /\ UNCHANGED val

PointerSetLit(p, c) ==
  /\ Usual /\ Pointer(p) /\ SizeOf[tmpOp] >= SizeOf[Target(p)]
  /\ LET y == Target(p)
         h == [g EXCEPT !.home = [b \in Places |-> IF b[1] = tmpOp THEN None ELSE @[b]]]
     IN  /\ DOMAIN c = Bytes(y) /\ Writable(y)
         /\ Generate(PointerSetCode(LAMBDA m, i : LoadLit(m, tmpOp, i, c[i]), h, p, y, tmpOp))
         /\ val' = Value(val, y, c)
  /\ next' = None

(* An instruction with result x.                                           *)
PtrInstruction(x) ==
  \/ \E y \in Syms : AddressOf(x, y) \/ AtAddress(x, y)
  \/ \E y \in Syms : PointerSet(x, y) \/ PointerSetBack(x, y)
  \/ \E y \in Syms : \E c \in Literals(y) : PointerSetLit(x, c)
  \/ \E y, p \in Syms : AtAddressBack(y, x, p) \/ AtAddressStore(y, x, p)
  \/ ~Crashed(g) /\ Instruction(x)
PtrNext == \E x \in Syms : PtrInstruction(x)
=============================================================================
