----------------------------- MODULE PbGenProofs -----------------------------
(***************************************************************************)
(* Proofs about the register allocator and the handlers over it.           *)
(*                                                                         *)
(* Every operation of PbRegs, PbGen and PbPtr takes one state of the       *)
(* generator to the next in the middle of an instruction.  Kept(V, D, o)   *)
(* is what they all preserve: the types, with bytes in V; a frame whose    *)
(* symbols own cells of their own, exactly as many as are reserved; a      *)
(* register that names the byte it is the home of, for the symbols in D;   *)
(* and what no operation changes, as it was in o when the instruction      *)
(* began.                                                                  *)
(***************************************************************************)
EXTENDS PbLabels, ModLemmas, FiniteSetTheorems

(* What may be in hit, here and in PbCall and PbCallForms.                 *)
Reasons ==
  {"operand evicted", "carry lost", "same operand", "spilled temporary", "byte beyond type",
   "address off", "object in register", "pointer spilled", "pointer not restored",
   "result unallocated", "homes differ", "sF differs",
   "stale result", "pointer lost", "flags differ",
   "argument evicted", "home forgotten", "live register dropped", "star register reused",
   "result overwritten", "live register overwritten", "pointer overwritten",
   "pointer home kept", "port beyond bank", "operand dead"}

Noted == SUBSET Reasons

Gens(V) ==
  [seq : Nat, liveTo : [Syms -> Nat], first : 0 .. REG_CNT - 2,
   home : [Places -> Regs \cup {None}], bank : [Regs -> Places \cup {None}],
   at : [Syms -> Cells \cup {None}], top : Nat, offset : Cells,
   reg : [Regs -> V \cup {Junk}], carry : {0, 1}, ram : [Cells -> V \cup {Junk}],
   hit : Noted]

(* The bytes of the symbols that have cells.                               *)
OnStack(h) == {b \in AllBytes : h.at[b[1]] # None}

Apart(h) ==
  \A x, y \in Syms : x # y /\ h.at[x] # None /\ h.at[y] # None =>
    h.at[x] + SizeOf[x] <= h.at[y] \/ h.at[y] + SizeOf[y] <= h.at[x]
Framed(h) ==
  /\ h.top = Cardinality(OnStack(h))
  /\ \A x \in Syms : h.at[x] # None => h.at[x] + SizeOf[x] <= h.top
  /\ Apart(h)

Backed(h, D) ==
  \A b \in Places : b[1] \in D /\ h.home[b] # None => h.bank[h.home[b]] = b

Onward(o, h) ==
  /\ h.seq = o.seq /\ h.liveTo = o.liveTo /\ h.first = o.first
  /\ \A x \in Syms : o.at[x] # None => h.at[x] = o.at[x]

Kept(V, D, o) == {h \in Gens(V) : Framed(h) /\ Backed(h, D) /\ Onward(o, h)}

-----------------------------------------------------------------------------
(* Sets of bytes.                                                          *)
LEMMA BytesArePlaces ==
  /\ \A x \in Syms : SizeOf[x] \in 1 .. MaxSize /\ Bytes(x) \subseteq 0 .. MaxSize - 1
  /\ AllBytes \subseteq Places
  /\ \A b \in Places : b[1] \in Syms /\ b[2] \in 0 .. MaxSize - 1 /\ b = <<b[1], b[2]>>
  /\ \A b \in AllBytes : b[2] \in Bytes(b[1])
  /\ \A x \in Syms : \A i \in Bytes(x) : <<x, i>> \in AllBytes
  /\ \A x \in Syms : \A i \in 0 .. MaxSize - 1 : <<x, i>> \in Places
<1>1. \A x \in Syms : SizeOf[x] \in 1 .. MaxSize /\ Bytes(x) \subseteq 0 .. MaxSize - 1
  BY RegsAssumption DEF Bytes
<1>2. \A b \in AllBytes : \E x \in Syms : b \in {x} \X Bytes(x)
  BY DEF AllBytes
<1>3. \A x \in Syms : \A i \in Bytes(x) : <<x, i>> \in AllBytes
  BY DEF AllBytes
<1>4. \A b \in AllBytes : b[1] \in Syms /\ b[2] \in Bytes(b[1]) /\ b = <<b[1], b[2]>>
  BY <1>2
<1>5. AllBytes \subseteq Places
  BY <1>1, <1>4 DEF Places
<1> QED BY <1>1, <1>3, <1>4, <1>5 DEF Places

LEMMA AllBytesFinite ==
  IsFiniteSet(AllBytes) /\ Cardinality(AllBytes) \in Nat
<1>1. IsFiniteSet(0 .. MaxSize - 1)
  BY FS_Interval, RegsAssumption
<1>2. IsFiniteSet(Places)
  BY <1>1, FS_Product, RegsAssumption DEF Places
<1>3. IsFiniteSet(AllBytes)
  BY <1>2, FS_Subset, BytesArePlaces
<1> QED BY <1>3, FS_CardinalityType

(* A symbol has as many bytes as its type is long.                         *)
LEMMA BytesOfSymbol ==
  ASSUME NEW x \in Syms
  PROVE  IsFiniteSet({x} \X Bytes(x)) /\ Cardinality({x} \X Bytes(x)) = SizeOf[x]
<1>1. SizeOf[x] \in Nat /\ SizeOf[x] >= 1
  BY RegsAssumption
<1>2. IsFiniteSet(Bytes(x)) /\ Cardinality(Bytes(x)) = SizeOf[x]
  <2>1. 0 \in Int /\ SizeOf[x] - 1 \in Int /\ ~(0 > SizeOf[x] - 1)
    BY <1>1
  <2>2. /\ IsFiniteSet(0 .. SizeOf[x] - 1)
        /\ Cardinality(0 .. SizeOf[x] - 1) = (SizeOf[x] - 1) - 0 + 1
    BY <2>1, FS_Interval
  <2>3. (SizeOf[x] - 1) - 0 + 1 = SizeOf[x]
    BY <1>1
  <2> QED BY <2>2, <2>3 DEF Bytes
<1>3. IsFiniteSet({x}) /\ Cardinality({x}) = 1
  BY FS_Singleton
<1>4. /\ IsFiniteSet({x} \X Bytes(x))
      /\ Cardinality({x} \X Bytes(x)) = Cardinality({x}) * Cardinality(Bytes(x))
  BY <1>2, <1>3, FS_Product
<1> QED BY <1>1, <1>2, <1>3, <1>4

(* The least of a set of naturals is one of them.                          *)
LEMMA MinIn ==
  ASSUME NEW S \in SUBSET Nat, S # {}
  PROVE  Min(S) \in S
<1>1. \E m \in S : \A k \in S : m <= k
  BY LeastExists
<1> QED BY <1>1 DEF Min

-----------------------------------------------------------------------------
(* Bank::getFreeRegister finds a register.                                 *)
LEMMA VictimIn ==
  ASSUME NEW V, NEW h \in Gens(V)
  PROVE  Victim(h) \in VarRegs(h) /\ Victim(h) \in Regs
<1>1. /\ VarRegs(h) \in SUBSET Nat /\ VarRegs(h) \subseteq Regs /\ VarRegs(h) # {}
  <2>1. h.first \in 0 .. REG_CNT - 2
    BY DEF Gens
  <2> QED BY <2>1, RegsAssumption DEF VarRegs, Regs
<1>2. Free(h) \subseteq VarRegs(h) /\ Dead(h) \subseteq VarRegs(h) /\ Soonest(h) \subseteq VarRegs(h)
  BY DEF Free, Dead, Soonest
<1>3. CASE Free(h) # {}
  <2>1. Min(Free(h)) \in Free(h)
    BY <1>1, <1>2, <1>3, MinIn
  <2> QED BY <1>1, <1>2, <1>3, <2>1 DEF Victim
<1>4. CASE Free(h) = {} /\ Dead(h) # {}
  <2>1. Min(Dead(h)) \in Dead(h)
    BY <1>1, <1>2, <1>4, MinIn
  <2> QED BY <1>1, <1>2, <1>4, <2>1 DEF Victim
<1>5. CASE Free(h) = {} /\ Dead(h) = {}
  <2>1. \A r \in VarRegs(h) : LiveTo(h, r) \in Nat
    <3> SUFFICES ASSUME NEW r \in VarRegs(h) PROVE LiveTo(h, r) \in Nat
      OBVIOUS
    <3>1. h.bank[r] \in Places
      BY <1>1, <1>5 DEF Free, Gens
    <3>2. h.bank[r][1] \in Syms
      BY <3>1, BytesArePlaces
    <3> QED BY <3>2 DEF LiveTo, Gens
  <2> DEFINE Ends_ == {LiveTo(h, r) : r \in VarRegs(h)}
  <2>2. PICK m \in Ends_ : \A k \in Ends_ : m <= k
    <3>1. Ends_ \in SUBSET Nat /\ Ends_ # {}
      BY <1>1, <2>1
    <3> HIDE DEF Ends_
    <3> QED BY <3>1, LeastExists
  <2>3. Soonest(h) # {}
    BY <2>2 DEF Soonest
  <2>4. Min(Soonest(h)) \in Soonest(h)
    BY <1>1, <1>2, <2>3, MinIn
  <2> QED BY <1>1, <1>2, <1>5, <2>4 DEF Victim
<1> QED BY <1>3, <1>4, <1>5

(* Where byte i of x is, or would be, when x is on the stack.              *)
LEMMA CellIn ==
  ASSUME NEW V, NEW h \in Gens(V), Framed(h), NEW x \in Syms, NEW i \in 0 .. MaxSize - 1,
         h.at[x] # None
  PROVE  h.at[x] + i \in Cells
<1>1. h.top <= Cardinality(AllBytes)
  <2>1. OnStack(h) \subseteq AllBytes
    BY DEF OnStack
  <2> QED BY <2>1, AllBytesFinite, FS_Subset DEF Framed
<1>2. h.at[x] \in Cells /\ h.at[x] + SizeOf[x] <= h.top /\ SizeOf[x] \in 1 .. MaxSize /\ h.top \in Nat
  BY BytesArePlaces DEF Framed, Gens
<1> QED BY <1>1, <1>2, AllBytesFinite, RegsAssumption DEF Cells

LEMMA MoveSPKeeps ==
  ASSUME NEW V, NEW D, NEW o, NEW h \in Kept(V, D, o), NEW k \in Cells, NEW e \in BOOLEAN
  PROVE  /\ MoveSP(h, k, e) \in Kept(V, D, o)
         /\ MoveSP(h, k, e).home = h.home /\ MoveSP(h, k, e).bank = h.bank
         /\ MoveSP(h, k, e).at = h.at /\ MoveSP(h, k, e).top = h.top
         /\ MoveSP(h, k, e).reg = h.reg /\ MoveSP(h, k, e).ram = h.ram
         /\ MoveSP(h, k, e).hit = h.hit
BY DEF MoveSP, Kept, Gens, Framed, OnStack, Apart, Backed, Onward
(* A symbol without cells is given fresh ones, all its bytes.              *)
LEMMA ReserveKeeps ==
  ASSUME NEW V, NEW D, NEW o, NEW h \in Kept(V, D, o), NEW x \in Syms
  PROVE  /\ Reserve(h, x) \in Kept(V, D, o) /\ Reserve(h, x).at[x] # None
         /\ Reserve(h, x).home = h.home /\ Reserve(h, x).bank = h.bank
         /\ Reserve(h, x).reg = h.reg /\ Reserve(h, x).ram = h.ram
         /\ Reserve(h, x).hit = h.hit /\ Reserve(h, x).carry = h.carry
         /\ \A y \in Syms : h.at[y] # None => Reserve(h, x).at[y] = h.at[y]
<1>1. CASE h.at[x] # None
  BY <1>1 DEF Reserve
<1>2. CASE h.at[x] = None
  <2> DEFINE k == [h EXCEPT !.at[x] = h.top, !.top = h.top + SizeOf[x]]
             X == {x} \X Bytes(x)
  <2>1. Reserve(h, x) = k
    BY <1>2 DEF Reserve
  <2>2. h \in Gens(V) /\ Framed(h) /\ Backed(h, D) /\ Onward(o, h)
    BY DEF Kept
  <2>3. /\ k.seq = h.seq /\ k.liveTo = h.liveTo /\ k.first = h.first /\ k.home = h.home
        /\ k.bank = h.bank /\ k.offset = h.offset /\ k.reg = h.reg /\ k.carry = h.carry
        /\ k.ram = h.ram /\ k.hit = h.hit /\ k.top = h.top + SizeOf[x]
        /\ k.at = [h.at EXCEPT ![x] = h.top]
    BY <2>2 DEF Gens
  <2>4. /\ k.at[x] = h.top
        /\ \A y \in Syms : y # x => k.at[y] = h.at[y]
    BY <2>2, <2>3 DEF Gens
  <2>5. h.top \in Nat /\ SizeOf[x] \in Nat /\ SizeOf[x] >= 1 /\ k.top \in Nat /\ None \notin Nat
    BY <2>2, <2>3, RegsAssumption DEF Gens
  <2>6. k.top = Cardinality(OnStack(k))
    <3>1. OnStack(k) = OnStack(h) \cup X /\ OnStack(h) \cap X = {}
      <4>1. \A b \in AllBytes : b \in X <=> b[1] = x
        BY BytesArePlaces
      <4>2. X \subseteq AllBytes
        BY BytesArePlaces
      <4>3. \A b \in AllBytes : b[1] \in Syms
        BY BytesArePlaces
      <4> HIDE DEF X, k
      <4> QED BY <1>2, <2>4, <2>5, <4>1, <4>2, <4>3 DEF OnStack
    <3>2. IsFiniteSet(OnStack(h))
      BY AllBytesFinite, FS_Subset DEF OnStack
    <3>3. IsFiniteSet(X) /\ Cardinality(X) = SizeOf[x]
      BY BytesOfSymbol
    <3> HIDE DEF X, k
    <3>4. Cardinality(OnStack(h) \cup X) = Cardinality(OnStack(h)) + Cardinality(X) - Cardinality({})
      BY <3>1, <3>2, <3>3, FS_Union
    <3>5. Cardinality({}) = 0
      BY FS_EmptySet
    <3> QED BY <2>2, <2>3, <2>5, <3>1, <3>3, <3>4, <3>5 DEF Framed
  <2>7. k.top <= Cardinality(AllBytes)
    <3>1. OnStack(k) \subseteq AllBytes
      BY DEF OnStack
    <3> QED BY <2>6, <3>1, AllBytesFinite, FS_Subset
  <2>8. h.top \in Cells
    BY <2>3, <2>5, <2>7, AllBytesFinite, RegsAssumption DEF Cells
  <2>9. k \in Gens(V)
    BY <2>2, <2>5, <2>8 DEF Gens
  <2> HIDE DEF k
  <2>10. \A y \in Syms : k.at[y] # None => k.at[y] + SizeOf[y] <= k.top
    <3> SUFFICES ASSUME NEW y \in Syms, k.at[y] # None PROVE k.at[y] + SizeOf[y] <= k.top
      OBVIOUS
    <3>1. CASE y = x
      BY <2>3, <2>4, <2>5, <3>1
    <3>2. CASE y # x
      <4>1. h.at[y] \in Nat /\ SizeOf[y] \in Nat /\ h.at[y] + SizeOf[y] <= h.top
        BY <2>2, <2>4, <3>2, BytesArePlaces DEF Framed, Gens, Cells
      <4> QED BY <2>3, <2>4, <2>5, <3>2, <4>1
    <3> QED BY <3>1, <3>2
  <2>11. Apart(k)
    <3> SUFFICES ASSUME NEW y \in Syms, NEW z \in Syms, y # z, k.at[y] # None, k.at[z] # None
                 PROVE  k.at[y] + SizeOf[y] <= k.at[z] \/ k.at[z] + SizeOf[z] <= k.at[y]
      BY DEF Apart
    <3>1. CASE y # x /\ z # x
      BY <2>2, <2>4, <3>1 DEF Framed, Apart
    <3>2. CASE y = x
      BY <2>2, <2>4, <3>2 DEF Framed
    <3>3. CASE z = x
      BY <2>2, <2>4, <3>3 DEF Framed
    <3> QED BY <3>1, <3>2, <3>3
  <2>12. Backed(k, D)
    BY <2>2, <2>3 DEF Backed
  <2>13. Onward(o, k) /\ \A y \in Syms : h.at[y] # None => k.at[y] = h.at[y]
    BY <1>2, <2>2, <2>3, <2>4 DEF Onward
  <2>14. k.at[x] # None
    BY <2>4, <2>5
  <2> QED BY <2>1, <2>3, <2>6, <2>9, <2>10, <2>11, <2>12, <2>13, <2>14 DEF Kept, Framed
<1> QED BY <1>1, <1>2

(* What an instruction does to the machine, and what is noted of it.       *)
LEMMA RegKeeps ==
  ASSUME NEW V, NEW D, NEW o, NEW h \in Kept(V, D, o), NEW r \in Regs, NEW v \in V \cup {Junk},
         NEW k, k = [h EXCEPT !.reg[r] = v]
  PROVE  /\ k \in Kept(V, D, o)
         /\ k.home = h.home /\ k.bank = h.bank /\ k.at = h.at
BY DEF Kept, Gens, Framed, OnStack, Apart, Backed, Onward

LEMMA RamKeeps ==
  ASSUME NEW V, NEW D, NEW o, NEW h \in Kept(V, D, o), NEW c \in Cells, NEW v \in V \cup {Junk},
         NEW k, k = [h EXCEPT !.ram[c] = v]
  PROVE  /\ k \in Kept(V, D, o)
         /\ k.home = h.home /\ k.bank = h.bank /\ k.at = h.at /\ k.reg = h.reg
BY DEF Kept, Gens, Framed, OnStack, Apart, Backed, Onward

LEMMA CarryKeeps ==
  ASSUME NEW V, NEW D, NEW o, NEW h \in Kept(V, D, o), NEW c \in {0, 1},
         NEW k, k = [h EXCEPT !.carry = c]
  PROVE  /\ k \in Kept(V, D, o)
         /\ k.home = h.home /\ k.bank = h.bank /\ k.at = h.at /\ k.reg = h.reg
BY DEF Kept, Gens, Framed, OnStack, Apart, Backed, Onward

LEMMA HitKeeps ==
  ASSUME NEW V, NEW D, NEW o, NEW h \in Kept(V, D, o), NEW H \in Noted,
         NEW k, k = [h EXCEPT !.hit = H]
  PROVE  /\ k \in Kept(V, D, o)
         /\ k.home = h.home /\ k.bank = h.bank /\ k.at = h.at /\ k.reg = h.reg
BY DEF Kept, Gens, Framed, OnStack, Apart, Backed, Onward

(* A spill changes no register and no home.                                *)
LEMMA PushKeeps ==
  ASSUME NEW V, NEW D, NEW o, NEW h \in Kept(V, D, o),
         NEW x \in Syms, NEW i \in 0 .. MaxSize - 1, NEW r \in Regs
  PROVE  /\ pushVariable(h, x, i, r) \in Kept(V, D, o)
         /\ pushVariable(h, x, i, r).home = h.home
         /\ pushVariable(h, x, i, r).bank = h.bank
         /\ pushVariable(h, x, i, r).reg = h.reg
<1> DEFINE m == Reserve(h, x)
           k == m.at[x] + i
           e == k # h.offset
           n == MoveSP(m, k, e)
           q == [n EXCEPT !.ram[k] = h.reg[r]]
           H == IF i \in Bytes(x) THEN n.hit ELSE n.hit \cup {"byte beyond type"}
<1>0. pushVariable(h, x, i, r) = [q EXCEPT !.hit = H]
  BY DEF pushVariable
<1>1. m \in Kept(V, D, o) /\ m.at[x] # None /\ m.home = h.home /\ m.bank = h.bank /\ m.reg = h.reg
  BY ReserveKeeps
<1>2. k \in Cells
  <2> HIDE DEF m
  <2> QED BY <1>1, CellIn DEF Kept
<1>e. e \in BOOLEAN
  OBVIOUS
<1> HIDE DEF m, k, e
<1>3. n \in Kept(V, D, o) /\ n.home = h.home /\ n.bank = h.bank /\ n.reg = h.reg
  BY <1>1, <1>2, <1>e, MoveSPKeeps
<1> HIDE DEF n
<1>4. h.reg[r] \in V \cup {Junk}
  BY DEF Kept, Gens
<1>5. q \in Kept(V, D, o) /\ q.home = n.home /\ q.bank = n.bank /\ q.reg = n.reg
  BY <1>2, <1>3, <1>4, RamKeeps
<1> HIDE DEF q
<1>6. H \in Noted
  BY <1>3 DEF Kept, Gens, Noted, Reasons
<1> HIDE DEF H
<1> QED BY <1>0, <1>3, <1>5, <1>6, HitKeeps

LEMMA FetchKeeps ==
  ASSUME NEW V, NEW D, NEW o, NEW h \in Kept(V, D, o), NEW x \in Syms, h.at[x] # None,
         NEW i \in 0 .. MaxSize - 1, NEW r \in Regs, NEW k, k = fetchVariable(h, x, i, r)
  PROVE  k \in Kept(V, D, o) /\ k.home = h.home /\ k.bank = h.bank /\ k.at = h.at
<1> DEFINE c == h.at[x] + i
           e == c # h.offset \/ i > 0
           n == MoveSP(h, c, e)
<1>1. k = [n EXCEPT !.reg[r] = h.ram[c]]
  BY DEF fetchVariable
<1>2. c \in Cells
  BY CellIn DEF Kept
<1>3. e \in BOOLEAN
  OBVIOUS
<1> HIDE DEF c, e
<1>4. n \in Kept(V, D, o) /\ n.home = h.home /\ n.bank = h.bank /\ n.at = h.at
  BY <1>2, <1>3, MoveSPKeeps
<1> HIDE DEF n
<1>5. h.ram[c] \in V \cup {Junk}
  BY <1>2 DEF Kept, Gens
<1> QED BY <1>1, <1>4, <1>5, RegKeeps

-----------------------------------------------------------------------------
(* Register::clear leaves a register that is the home of no byte of D, and *)
(* takes nothing else its home.                                            *)
LEMMA ClearKeeps ==
  ASSUME NEW V, NEW D, NEW o, NEW h \in Kept(V, D, o), NEW r \in Regs,
         NEW k, k = clear(h, r)
  PROVE  /\ k \in Kept(V, D, o) /\ k.reg = h.reg
         /\ \A c \in Places : k.home[c] = h.home[c] \/ (k.home[c] = None /\ h.home[c] = r)
         /\ \A c \in Places : c[1] \in D => k.home[c] # r
         /\ \A q \in Regs : q # r => k.bank[q] = h.bank[q]
<1> DEFINE b == h.bank[r]
           m == IF h.liveTo[b[1]] >= h.seq THEN pushVariable(h, b[1], b[2], r) ELSE h
           n == [m EXCEPT !.home[b] = None]
<1>1. CASE b = None \/ h.home[b] # r
  <2>1. k = h
    BY <1>1 DEF clear
  <2>2. \A c \in Places : c[1] \in D => h.home[c] # r
    <3> SUFFICES ASSUME NEW c \in Places, c[1] \in D, h.home[c] = r PROVE FALSE
      OBVIOUS
    <3>1. r # None
      BY RegsAssumption DEF Regs
    <3>2. b = c
      BY <3>1 DEF Kept, Backed
    <3>3. b # None
      BY <3>2, RegsAssumption DEF Places
    <3> QED BY <1>1, <3>2, <3>3
  <2> QED BY <2>1, <2>2
<1>2. CASE b # None /\ h.home[b] = r
  <2>1. b \in Places /\ b[1] \in Syms /\ b[2] \in 0 .. MaxSize - 1
    <3>1. b \in Places
      BY <1>2 DEF Kept, Gens
    <3> QED BY <3>1, BytesArePlaces
  <2>2. m \in Kept(V, D, o) /\ m.home = h.home /\ m.bank = h.bank /\ m.reg = h.reg
    <3>1. CASE h.liveTo[b[1]] >= h.seq
      <4> HIDE DEF b
      <4> QED BY <2>1, <3>1, PushKeeps
    <3>2. CASE ~(h.liveTo[b[1]] >= h.seq)
      BY <3>2
    <3> QED BY <3>1, <3>2
  <2>3. k = [n EXCEPT !.bank[r] = None]
    BY <1>2 DEF clear
  <2> HIDE DEF b, m
  <2>4. /\ n \in Gens(V) /\ Framed(n) /\ Onward(o, n)
        /\ n.home = [h.home EXCEPT ![b] = None] /\ n.bank = h.bank /\ n.reg = h.reg
    BY <2>1, <2>2 DEF Kept, Gens, Framed, OnStack, Apart, Onward
  <2> HIDE DEF n
  <2>5. /\ k \in Gens(V) /\ Framed(k) /\ Onward(o, k)
        /\ k.home = n.home /\ k.bank = [h.bank EXCEPT ![r] = None] /\ k.reg = h.reg
    BY <2>3, <2>4 DEF Gens, Framed, OnStack, Apart, Onward
  <2>6. h.home \in [Places -> Regs \cup {None}] /\ h.bank \in [Regs -> Places \cup {None}] /\ Backed(h, D)
    BY DEF Kept, Gens
  <2>7. \A c \in Places : c # b => k.home[c] = h.home[c]
    BY <2>1, <2>4, <2>5, <2>6
  <2>8. k.home[b] = None /\ r # None
    BY <2>1, <2>4, <2>5, <2>6, RegsAssumption DEF Regs
  <2>9. \A q \in Regs : q # r => k.bank[q] = h.bank[q]
    BY <2>5, <2>6
  <2>10. \A c \in Places : c[1] \in D => k.home[c] # r
    <3> SUFFICES ASSUME NEW c \in Places, c[1] \in D, k.home[c] = r PROVE FALSE
      OBVIOUS
    <3>1. c # b /\ h.home[c] = r
      BY <2>7, <2>8
    <3>2. h.bank[r] = c
      BY <2>6, <2>8, <3>1 DEF Backed
    <3> QED BY <3>1, <3>2 DEF b
  <2>11. Backed(k, D)
    <3> SUFFICES ASSUME NEW c \in Places, c[1] \in D, k.home[c] # None
                 PROVE  k.bank[k.home[c]] = c
      BY DEF Backed
    <3>1. c # b /\ k.home[c] = h.home[c] /\ h.home[c] # r /\ h.home[c] \in Regs
      BY <2>6, <2>7, <2>8, <2>10
    <3> QED BY <2>6, <2>9, <3>1 DEF Backed
  <2> QED BY <1>2, <2>5, <2>7, <2>8, <2>9, <2>10, <2>11 DEF Kept
<1> QED BY <1>1, <1>2

(* Byte i of x gets a register that was cleared of what it held.           *)
Settled(h, r, x, i) == [occupy(h, r, x, i) EXCEPT !.home[<<x, i>>] = r]

(* No symbol of D has register r.                                          *)
Vacant(h, D, r) == \A c \in Places : c[1] \in D => h.home[c] # r

(* In k byte b has register r, and all else is as in h.                    *)
Gives(h, k, r, b) ==
  /\ \A c \in Places : k.home[c] = IF c = b THEN r ELSE h.home[c]
  /\ \A q \in Regs : k.bank[q] = IF q = r THEN b ELSE h.bank[q]
  /\ k.reg = h.reg /\ k.ram = h.ram /\ k.at = h.at

LEMMA SettleKeeps ==
  ASSUME NEW V, NEW D, NEW o, NEW h \in Kept(V, D, o), NEW r \in Regs, Vacant(h, D, r),
         NEW x \in Syms, NEW i \in 0 .. MaxSize - 1,
         NEW k, k = Settled(h, r, x, i)
  PROVE  k \in Kept(V, D, o) /\ Gives(h, k, r, <<x, i>>)
<1> DEFINE n == occupy(h, r, x, i)
           b == <<x, i>>
<1>1. b \in Places /\ r # None
  BY BytesArePlaces, RegsAssumption DEF Regs
<1>2. h \in Gens(V) /\ Framed(h) /\ Onward(o, h) /\ Backed(h, D)
  BY DEF Kept
<1>3. /\ n \in Gens(V) /\ Framed(n) /\ Onward(o, n)
      /\ n.bank = [h.bank EXCEPT ![r] = b] /\ n.home = h.home /\ n.reg = h.reg
      /\ n.ram = h.ram /\ n.at = h.at
  BY <1>1, <1>2 DEF occupy, Gens, Framed, OnStack, Apart, Onward
<1>4. k = [n EXCEPT !.home[b] = r]
  BY DEF Settled
<1> HIDE DEF n, b
<1>5. /\ k \in Gens(V) /\ Framed(k) /\ Onward(o, k)
      /\ k.bank = [h.bank EXCEPT ![r] = b] /\ k.home = [h.home EXCEPT ![b] = r] /\ k.reg = h.reg
      /\ k.ram = h.ram /\ k.at = h.at
  <2>1. /\ k \in Gens(V) /\ k.home = [n.home EXCEPT ![b] = r]
        /\ k.bank = n.bank /\ k.reg = n.reg /\ k.ram = n.ram /\ k.at = n.at /\ k.top = n.top
        /\ k.seq = n.seq /\ k.liveTo = n.liveTo /\ k.first = n.first
    BY <1>1, <1>3, <1>4 DEF Gens
  <2>2. Framed(k)
    BY <1>3, <2>1 DEF Framed, OnStack, Apart
  <2>3. Onward(o, k)
    BY <1>3, <2>1 DEF Onward
  <2> QED BY <1>3, <2>1, <2>2, <2>3
<1>6. h.home \in [Places -> Regs \cup {None}] /\ h.bank \in [Regs -> Places \cup {None}]
  BY <1>2 DEF Gens
<1>7. Backed(k, D)
  <2> SUFFICES ASSUME NEW c \in Places, c[1] \in D, k.home[c] # None
               PROVE  k.bank[k.home[c]] = c
    BY DEF Backed
  <2>1. CASE c = b
    BY <1>1, <1>5, <1>6, <2>1
  <2>2. CASE c # b
    <3>1. k.home[c] = h.home[c] /\ h.home[c] \in Regs /\ h.home[c] # r
      BY <1>1, <1>5, <1>6, <2>2 DEF Vacant
    <3> QED BY <1>2, <1>5, <1>6, <3>1 DEF Backed
  <2> QED BY <2>1, <2>2
<1>8. \A c \in Places : k.home[c] = IF c = b THEN r ELSE h.home[c]
  BY <1>1, <1>5, <1>6
<1>9. \A q \in Regs : k.bank[q] = IF q = r THEN b ELSE h.bank[q]
  BY <1>1, <1>5, <1>6
<1> QED BY <1>5, <1>7, <1>8, <1>9 DEF Kept, b, Gives

LEMMA AllocateKeeps ==
  ASSUME NEW V, NEW D, NEW o, NEW h \in Kept(V, D, o),
         NEW x \in Syms, NEW i \in 0 .. MaxSize - 1, NEW k, k = Allocate(h, x, i)
  PROVE  /\ k \in Kept(V, D, o) /\ k.home[<<x, i>>] = Victim(h) /\ k.home[<<x, i>>] \in Regs
         /\ \A c \in Places : c # <<x, i>> => k.home[c] = h.home[c] \/ k.home[c] = None
<1> DEFINE r == Victim(h)
           m == clear(h, r)
<1>1. r \in Regs
  BY VictimIn DEF Kept
<1>2. k = Settled(m, r, x, i)
  BY DEF Allocate, Settled
<1> HIDE DEF r
<1>3. /\ m \in Kept(V, D, o)
      /\ \A c \in Places : m.home[c] = h.home[c] \/ (m.home[c] = None /\ h.home[c] = r)
      /\ \A c \in Places : c[1] \in D => m.home[c] # r
  BY <1>1, ClearKeeps
<1> HIDE DEF m
<1>4. k \in Kept(V, D, o) /\ Gives(m, k, r, <<x, i>>)
  <2>1. m \in Kept(V, D, o)
    BY <1>3
  <2>2. Vacant(m, D, r)
    BY <1>3 DEF Vacant
  <2> QED BY <1>1, <1>2, <2>1, <2>2, SettleKeeps, Zenon
<1>5. m.home \in [Places -> Regs \cup {None}] /\ <<x, i>> \in Places
  BY <1>3, BytesArePlaces DEF Kept, Gens
<1> QED BY <1>1, <1>3, <1>4, <1>5 DEF r, Gives
(* Printing an operand leaves it with a register.                          *)
LEMMA TouchKeeps ==
  ASSUME NEW V, NEW D, NEW o, NEW h \in Kept(V, D, o),
         NEW x \in Syms, NEW i \in 0 .. MaxSize - 1, NEW k, k = Touch(h, x, i)
  PROVE  /\ k \in Kept(V, D, o) /\ k.home[<<x, i>>] \in Regs
         /\ \A c \in Places : c # <<x, i>> => k.home[c] = h.home[c] \/ k.home[c] = None
         /\ h.home[<<x, i>>] # None => k = h
<1> DEFINE m == Allocate(h, x, i)
<1>1. h.home[<<x, i>>] \in Regs \cup {None}
  BY BytesArePlaces DEF Kept, Gens
<1>2. CASE h.home[<<x, i>>] # None
  BY <1>1, <1>2 DEF Touch
<1>3. CASE h.home[<<x, i>>] = None
  <2>1. k = IF m.at[x] # None THEN fetchVariable(m, x, i, m.home[<<x, i>>]) ELSE m
    BY <1>3 DEF Touch
  <2> HIDE DEF m
  <2>2. /\ m \in Kept(V, D, o) /\ m.home[<<x, i>>] \in Regs
        /\ \A c \in Places : c # <<x, i>> => m.home[c] = h.home[c] \/ m.home[c] = None
    BY AllocateKeeps DEF m
  <2>3. CASE m.at[x] # None
    <3>1. k \in Kept(V, D, o) /\ k.home = m.home
      BY <2>1, <2>2, <2>3, FetchKeeps
    <3> QED BY <1>3, <2>2, <3>1
  <2>4. CASE m.at[x] = None
    BY <1>3, <2>1, <2>2, <2>4
  <2> QED BY <2>3, <2>4
<1> QED BY <1>2, <1>3

LEMMA TouchNextKeeps ==
  ASSUME NEW V, NEW D, NEW o, NEW h \in Kept(V, D, o), NEW x,
         NEW y \in Syms, NEW i \in 0 .. MaxSize - 1, NEW k, k = TouchNext(h, x, y, i)
  PROVE  k \in Kept(V, D, o) /\ k.home[<<y, i>>] \in Regs
<1> DEFINE m == Touch(h, y, i)
           H == m.hit \cup {"operand evicted"}
<1>1. m \in Kept(V, D, o) /\ m.home[<<y, i>>] \in Regs
  BY TouchKeeps
<1>2. k = m \/ k = [m EXCEPT !.hit = H]
  BY DEF TouchNext
<1> HIDE DEF m
<1>3. H \in Noted
  BY <1>1 DEF Kept, Gens, Noted, Reasons
<1> HIDE DEF H
<1>4. CASE k = m
  BY <1>1, <1>4
<1>5. CASE k = [m EXCEPT !.hit = H]
  <2>1. k \in Kept(V, D, o)
    BY <1>1, <1>3, <1>5, HitKeeps, Zenon
  <2>2. k.home = m.home
    BY <1>1, <1>5 DEF Kept, Gens
  <2> QED BY <1>1, <2>1, <2>2
<1> QED BY <1>2, <1>4, <1>5

-----------------------------------------------------------------------------
(* Instructions of one byte.                                               *)
LEMMA EmitKeeps ==
  ASSUME NEW V, NEW D, NEW o, NEW h \in Kept(V, D, o), NEW r \in Regs,
         NEW v \in V \cup {Junk}, NEW k, k = Emit(h, r, v)
  PROVE  /\ k \in Kept(V, D, o) /\ k.home = h.home /\ k.bank = h.bank /\ k.at = h.at
BY RegKeeps DEF Emit

LEMMA LoadKeeps ==
  ASSUME NEW V, NEW D, NEW o, NEW h \in Kept(V, D, o), NEW x \in Syms, NEW y \in Syms,
         NEW i \in 0 .. MaxSize - 1
  PROVE  Load(h, x, y, i) \in Kept(V, D, o)
<1> DEFINE m == Touch(h, x, i)
           k == TouchNext(m, x, y, i)
<1>1. Load(h, x, y, i) = Emit(k, m.home[<<x, i>>], k.reg[k.home[<<y, i>>]])
  BY DEF Load
<1>2. m \in Kept(V, D, o) /\ m.home[<<x, i>>] \in Regs
  BY TouchKeeps
<1> HIDE DEF m
<1>3. k \in Kept(V, D, o) /\ k.home[<<y, i>>] \in Regs
  BY <1>2, TouchNextKeeps
<1> HIDE DEF k
<1>4. k.reg[k.home[<<y, i>>]] \in V \cup {Junk}
  BY <1>3 DEF Kept, Gens
<1> QED BY <1>1, <1>2, <1>3, <1>4, EmitKeeps

LEMMA LoadLitKeeps ==
  ASSUME NEW V, NEW D, NEW o, NEW h \in Kept(V, D, o), NEW x \in Syms,
         NEW i \in 0 .. MaxSize - 1, NEW c \in V
  PROVE  LoadLit(h, x, i, c) \in Kept(V, D, o)
<1> DEFINE k == Touch(h, x, i)
<1>1. LoadLit(h, x, i, c) = Emit(k, k.home[<<x, i>>], c)
  BY DEF LoadLit
<1>2. k \in Kept(V, D, o) /\ k.home[<<x, i>>] \in Regs
  BY TouchKeeps
<1> HIDE DEF k
<1> QED BY <1>1, <1>2, EmitKeeps

(* The results of operations are bytes, whatever the operands.             *)
LEMMA ResultIn ==
  ASSUME NEW V \in SUBSET Nat, Byte \subseteq V, NEW op \in Ops,
         NEW a \in V \cup {Junk}, NEW b \in V \cup {Junk}, NEW cy \in {0, 1}
  PROVE  Result(op, a, b, cy) \in V \cup {Junk} /\ Carry(op, a, b, cy) \in {0, 1}
<1>1. CASE a = Junk \/ b = Junk
  BY <1>1 DEF Result, Carry
<1>2. CASE a # Junk /\ b # Junk
  <2>1. a \in Nat /\ b \in Nat /\ cy \in Nat /\ RADIX \in Nat \ {0}
    BY <1>2, RegsAssumption
  <2>2. a + b + cy \in Int /\ a - b - cy \in Int /\ a * b \in Int /\ a + b \in Int
    BY <2>1
  <2>3. \A e \in Int : e % RADIX \in V
    BY <2>1, ModRange DEF Byte
  <2>4. /\ (a + b + cy) % RADIX \in V /\ (a - b - cy) % RADIX \in V
        /\ (a * b) % RADIX \in V /\ (a + b) % RADIX \in V
    BY <2>2, <2>3
  <2>5. op \in {"+", "-", "&", "^"}
    BY GenAssumption
  <2> QED BY <1>2, <2>4, <2>5 DEF Result, Carry
<1> QED BY <1>1, <1>2

LEMMA ExecuteKeeps ==
  ASSUME NEW V \in SUBSET Nat, Byte \subseteq V, NEW D, NEW o, NEW h \in Kept(V, D, o),
         NEW op \in Ops, NEW r \in Regs, NEW v \in V \cup {Junk}, NEW i \in Nat
  PROVE  Execute(h, op, r, v, i) \in Kept(V, D, o)
<1> DEFINE cy == IF i > 0 /\ op \in Arith THEN h.carry ELSE 0
           a == Result(op, h.reg[r], v, cy)
           c == Carry(op, h.reg[r], v, cy)
           m == [h EXCEPT !.reg[r] = a]
<1>1. Execute(h, op, r, v, i) = [m EXCEPT !.carry = c]
  BY DEF Execute
<1>2. h.reg[r] \in V \cup {Junk} /\ cy \in {0, 1}
  BY DEF Kept, Gens
<1> HIDE DEF cy
<1>3. a \in V \cup {Junk} /\ c \in {0, 1}
  BY <1>2, ResultIn
<1> HIDE DEF a, c
<1>4. m \in Kept(V, D, o)
  BY <1>3, RegKeeps, Zenon
<1> HIDE DEF m
<1> QED BY <1>1, <1>3, <1>4, CarryKeeps, Zenon

LEMMA NeedsKeeps ==
  ASSUME NEW V, NEW D, NEW o, NEW h \in Kept(V, D, o), NEW op, NEW i, NEW cy
  PROVE  Needs(h, op, i, cy) \in Kept(V, D, o)
<1> DEFINE H == h.hit \cup {"carry lost"}
<1>1. H \in Noted
  BY DEF Kept, Gens, Noted, Reasons
<1>2. \/ Needs(h, op, i, cy) = h
      \/ Needs(h, op, i, cy) = [h EXCEPT !.hit = H]
  BY DEF Needs
<1> HIDE DEF H
<1>3. [h EXCEPT !.hit = H] \in Kept(V, D, o)
  BY <1>1, HitKeeps, Zenon
<1> QED BY <1>2, <1>3

LEMMA OperateKeeps ==
  ASSUME NEW V \in SUBSET Nat, Byte \subseteq V, NEW D, NEW o, NEW h \in Kept(V, D, o),
         NEW op \in Ops, NEW x \in Syms, NEW z \in Syms, NEW i \in 0 .. MaxSize - 1
  PROVE  Operate(h, op, x, z, i) \in Kept(V, D, o)
<1> DEFINE m == Touch(h, x, i)
           k == TouchNext(m, x, z, i)
           n == Needs(k, op, i, h.carry)
           H == h.hit \cup {"same operand"}
           r == m.home[<<x, i>>]
           v == k.reg[k.home[<<z, i>>]]
<1>1. CASE op \in Arith /\ x = z
  <2>1. Operate(h, op, x, z, i) = [h EXCEPT !.hit = H]
    BY <1>1 DEF Operate
  <2>2. H \in Noted
    BY DEF Kept, Gens, Noted, Reasons
  <2> HIDE DEF H
  <2> QED BY <2>1, <2>2, HitKeeps, Zenon
<1>2. CASE ~(op \in Arith /\ x = z)
  <2>1. Operate(h, op, x, z, i) = Execute(n, op, r, v, i)
    BY <1>2 DEF Operate
  <2>2. m \in Kept(V, D, o) /\ r \in Regs
    BY TouchKeeps
  <2> HIDE DEF m, r
  <2>3. k \in Kept(V, D, o) /\ k.home[<<z, i>>] \in Regs
    BY <2>2, TouchNextKeeps
  <2> HIDE DEF k
  <2>4. v \in V \cup {Junk}
    BY <2>3 DEF Kept, Gens
  <2> HIDE DEF v
  <2>5. n \in Kept(V, D, o)
    BY <2>3, NeedsKeeps
  <2> HIDE DEF n
  <2>6. i \in Nat
    OBVIOUS
  <2> QED BY <2>1, <2>2, <2>4, <2>5, <2>6, ExecuteKeeps, Zenon
<1> QED BY <1>1, <1>2

LEMMA OperateLitKeeps ==
  ASSUME NEW V \in SUBSET Nat, Byte \subseteq V, NEW D, NEW o, NEW h \in Kept(V, D, o),
         NEW op \in Ops, NEW x \in Syms, NEW i \in 0 .. MaxSize - 1, NEW c, c[i] \in V
  PROVE  OperateLit(h, op, x, c, i) \in Kept(V, D, o)
<1> DEFINE k == Touch(h, x, i)
           cy == IF i = 1 /\ c[0] = 0 THEN 0 ELSE h.carry
           n == Needs(k, op, i, cy)
           r == k.home[<<x, i>>]
           v == c[i]
<1>1. CASE op \in Arith /\ i = 0 /\ c[0] = 0
  BY <1>1 DEF OperateLit
<1>2. CASE ~(op \in Arith /\ i = 0 /\ c[0] = 0)
  <2>1. OperateLit(h, op, x, c, i) = Execute(n, op, r, v, i)
    BY <1>2 DEF OperateLit
  <2>2. k \in Kept(V, D, o) /\ r \in Regs
    BY TouchKeeps
  <2> HIDE DEF k, r, cy
  <2>3. n \in Kept(V, D, o)
    BY <2>2, NeedsKeeps
  <2>4. v \in V \cup {Junk} /\ i \in Nat
    OBVIOUS
  <2> HIDE DEF n, v
  <2> QED BY <2>1, <2>2, <2>3, <2>4, ExecuteKeeps, Zenon
<1> QED BY <1>1, <1>2

(* Renaming: the register that y gives up is named after x.                *)
LEMMA TakeKeeps ==
  ASSUME NEW V, NEW D, NEW o, NEW h \in Kept(V, D, o), NEW x \in Syms, NEW y \in Syms,
         y \in D, NEW i \in 0 .. MaxSize - 1, h.home[<<y, i>>] # None
  PROVE  Take(h, x, y, i) \in Kept(V, D, o)
<1> DEFINE r == h.home[<<y, i>>]
           b == <<x, i>>
           c == <<y, i>>
           m == [h EXCEPT !.home = [[h.home EXCEPT ![b] = r] EXCEPT ![c] = None]]
           k == [m EXCEPT !.bank[r] = b]
<1>1. /\ b \in Places /\ c \in Places /\ c[1] = y /\ c[2] = i
  BY BytesArePlaces
<1>2. /\ h.home \in [Places -> Regs \cup {None}] /\ h.bank \in [Regs -> Places \cup {None}]
      /\ Backed(h, D) /\ Framed(h) /\ Onward(o, h) /\ h \in Gens(V)
  BY DEF Kept, Gens
<1>3. r \in Regs /\ r # None /\ h.bank[r] = c
  BY <1>1, <1>2, RegsAssumption DEF Backed, Regs
<1>4. Take(h, x, y, i) = k
  <2>1. h.bank[r][2] = i /\ h.bank[r] # None
    BY <1>1, <1>3, RegsAssumption DEF Places
  <2> QED BY <2>1 DEF Take
<1> HIDE DEF b, c, r
<1>5. /\ m \in Gens(V) /\ Framed(m) /\ Onward(o, m) /\ m.bank = h.bank
      /\ m.home = [[h.home EXCEPT ![b] = r] EXCEPT ![c] = None]
  BY <1>1, <1>2, <1>3 DEF Gens, Framed, OnStack, Apart, Onward
<1> HIDE DEF m
<1>6. /\ k \in Gens(V) /\ Framed(k) /\ Onward(o, k)
      /\ k.home = m.home /\ k.bank = [h.bank EXCEPT ![r] = b]
  BY <1>1, <1>3, <1>5 DEF Gens, Framed, OnStack, Apart, Onward
<1> HIDE DEF k
<1>7. \A d \in Places : k.home[d] = IF d = c THEN None ELSE IF d = b THEN r ELSE h.home[d]
  BY <1>1, <1>2, <1>3, <1>5, <1>6
<1>8. \A q \in Regs : k.bank[q] = IF q = r THEN b ELSE h.bank[q]
  BY <1>1, <1>2, <1>3, <1>6
<1>9. Backed(k, D)
  <2> SUFFICES ASSUME NEW d \in Places, d[1] \in D, k.home[d] # None
               PROVE  k.bank[k.home[d]] = d
    BY DEF Backed
  <2>1. CASE d = b
    BY <1>3, <1>7, <1>8, <2>1
  <2>2. CASE d # b
    <3>1. d # c /\ k.home[d] = h.home[d] /\ h.home[d] \in Regs /\ h.bank[h.home[d]] = d
      BY <1>2, <1>7, <2>2 DEF Backed
    <3>2. h.home[d] # r
      BY <1>3, <3>1
    <3> QED BY <1>8, <3>1, <3>2
  <2> QED BY <2>1, <2>2
<1>10. k \in Kept(V, D, o)
  BY <1>6, <1>9 DEF Kept
<1> QED BY <1>4, <1>10
-----------------------------------------------------------------------------
(* Loops over the bytes of a symbol: each goes through states whose i-th   *)
(* is in K[i] when the step for byte i leads from K[i] to K[i + 1].        *)

(* Assign.                                                                 *)
Loads(h, x, y, n) == ForBytes(LAMBDA k, i : Load(k, x, y, i), h, n)

LEMMA LoadsReach ==
  ASSUME NEW x, NEW y, NEW n \in Nat, NEW K, NEW h \in K[0],
         \A i \in 0 .. n - 1 : \A k \in K[i] : Load(k, x, y, i) \in K[i + 1]
  PROVE  Loads(h, x, y, n) \in K[n]
<1> DEFINE Step(k, i) == Load(k, x, y, i)
           F(f) == [k \in 0 .. n |-> IF k = 0 THEN h ELSE Step(f[k - 1], k - 1)]
           G == [a \in Stages(K, n) \X (0 .. n - 1) |-> Step(a[1], a[2])]
           run == CHOOSE f : f = F(f)
<1>1. \A i \in 0 .. n - 1 : \A k \in K[i] : Step(k, i) \in K[i + 1]
  OBVIOUS
<1> HIDE DEF Step
<1>2. \A i \in 0 .. n - 1 : \A k \in K[i] : G[<<k, i>>] = Step(k, i)
  BY DEF Stages
<1>3. \A i \in 0 .. n - 1 : \A k \in K[i] : G[<<k, i>>] \in K[i + 1]
  BY <1>1, <1>2
<1> HIDE DEF G
<1>4. PICK f \in LoopRuns(K, n, h, G) : TRUE
  BY <1>3, LoopExists
<1>5. ASSUME NEW k \in 1 .. n PROVE f[k] = Step(f[k - 1], k - 1)
  <2>1. f[k - 1] \in K[k - 1] /\ k - 1 \in 0 .. n - 1
    BY <1>4 DEF LoopRuns
  <2> QED BY <1>2, <1>4, <2>1 DEF LoopRuns
<1>6. f = F(f)
  BY <1>4, <1>5 DEF LoopRuns
<1>7. run = F(run)
  BY <1>6
<1> HIDE DEF run
<1>8. run[0] = h /\ \A k \in 1 .. n : run[k] = Step(run[k - 1], k - 1)
  BY <1>7
<1>9. \A k \in 1 .. n : run[k - 1] \in K[k - 1] => run[k] \in K[k]
  <2> SUFFICES ASSUME NEW k \in 1 .. n, run[k - 1] \in K[k - 1] PROVE run[k] \in K[k]
    OBVIOUS
  <2>1. k - 1 \in 0 .. n - 1 /\ (k - 1) + 1 = k
    OBVIOUS
  <2> QED BY <1>1, <1>8, <2>1
<1>10. run[n] \in K[n]
  BY <1>8, <1>9, LoopKeeps
<1> QED BY <1>10 DEF Loads, ForBytes, run, Step

(* Assign of a dying iTemp.                                                *)
MoveByte(k, x, y, i) ==
  IF k.home[<<y, i>>] = None THEN [k EXCEPT !.hit = @ \cup {"spilled temporary"}]
  ELSE Take(k, x, y, i)
Moves(h, x, y, n) == ForBytes(LAMBDA k, i : MoveByte(k, x, y, i), h, n)

LEMMA MovesReach ==
  ASSUME NEW x, NEW y, NEW n \in Nat, NEW K, NEW h \in K[0],
         \A i \in 0 .. n - 1 : \A k \in K[i] : MoveByte(k, x, y, i) \in K[i + 1]
  PROVE  Moves(h, x, y, n) \in K[n]
<1> DEFINE Step(k, i) == MoveByte(k, x, y, i)
           F(f) == [k \in 0 .. n |-> IF k = 0 THEN h ELSE Step(f[k - 1], k - 1)]
           G == [a \in Stages(K, n) \X (0 .. n - 1) |-> Step(a[1], a[2])]
           run == CHOOSE f : f = F(f)
<1>1. \A i \in 0 .. n - 1 : \A k \in K[i] : Step(k, i) \in K[i + 1]
  OBVIOUS
<1> HIDE DEF Step
<1>2. \A i \in 0 .. n - 1 : \A k \in K[i] : G[<<k, i>>] = Step(k, i)
  BY DEF Stages
<1>3. \A i \in 0 .. n - 1 : \A k \in K[i] : G[<<k, i>>] \in K[i + 1]
  BY <1>1, <1>2
<1> HIDE DEF G
<1>4. PICK f \in LoopRuns(K, n, h, G) : TRUE
  BY <1>3, LoopExists
<1>5. ASSUME NEW k \in 1 .. n PROVE f[k] = Step(f[k - 1], k - 1)
  <2>1. f[k - 1] \in K[k - 1] /\ k - 1 \in 0 .. n - 1
    BY <1>4 DEF LoopRuns
  <2> QED BY <1>2, <1>4, <2>1 DEF LoopRuns
<1>6. f = F(f)
  BY <1>4, <1>5 DEF LoopRuns
<1>7. run = F(run)
  BY <1>6
<1> HIDE DEF run
<1>8. run[0] = h /\ \A k \in 1 .. n : run[k] = Step(run[k - 1], k - 1)
  BY <1>7
<1>9. \A k \in 1 .. n : run[k - 1] \in K[k - 1] => run[k] \in K[k]
  <2> SUFFICES ASSUME NEW k \in 1 .. n, run[k - 1] \in K[k - 1] PROVE run[k] \in K[k]
    OBVIOUS
  <2>1. k - 1 \in 0 .. n - 1 /\ (k - 1) + 1 = k
    OBVIOUS
  <2> QED BY <1>1, <1>8, <2>1
<1>10. run[n] \in K[n]
  BY <1>8, <1>9, LoopKeeps
<1> QED BY <1>10 DEF Moves, ForBytes, run, Step

(* The left operand of an operation.                                       *)
LeftByte(k, x, y, i) ==
  IF k.home[<<y, i>>] # None /\ Dying(k, y) THEN Take(k, x, y, i) ELSE Load(k, x, y, i)
Lefts(h, x, y, n) == ForBytes(LAMBDA k, i : LeftByte(k, x, y, i), h, n)

LEMMA LeftsReach ==
  ASSUME NEW x, NEW y, NEW n \in Nat, NEW K, NEW h \in K[0],
         \A i \in 0 .. n - 1 : \A k \in K[i] : LeftByte(k, x, y, i) \in K[i + 1]
  PROVE  Lefts(h, x, y, n) \in K[n]
<1> DEFINE Step(k, i) == LeftByte(k, x, y, i)
           F(f) == [k \in 0 .. n |-> IF k = 0 THEN h ELSE Step(f[k - 1], k - 1)]
           G == [a \in Stages(K, n) \X (0 .. n - 1) |-> Step(a[1], a[2])]
           run == CHOOSE f : f = F(f)
<1>1. \A i \in 0 .. n - 1 : \A k \in K[i] : Step(k, i) \in K[i + 1]
  OBVIOUS
<1> HIDE DEF Step
<1>2. \A i \in 0 .. n - 1 : \A k \in K[i] : G[<<k, i>>] = Step(k, i)
  BY DEF Stages
<1>3. \A i \in 0 .. n - 1 : \A k \in K[i] : G[<<k, i>>] \in K[i + 1]
  BY <1>1, <1>2
<1> HIDE DEF G
<1>4. PICK f \in LoopRuns(K, n, h, G) : TRUE
  BY <1>3, LoopExists
<1>5. ASSUME NEW k \in 1 .. n PROVE f[k] = Step(f[k - 1], k - 1)
  <2>1. f[k - 1] \in K[k - 1] /\ k - 1 \in 0 .. n - 1
    BY <1>4 DEF LoopRuns
  <2> QED BY <1>2, <1>4, <2>1 DEF LoopRuns
<1>6. f = F(f)
  BY <1>4, <1>5 DEF LoopRuns
<1>7. run = F(run)
  BY <1>6
<1> HIDE DEF run
<1>8. run[0] = h /\ \A k \in 1 .. n : run[k] = Step(run[k - 1], k - 1)
  BY <1>7
<1>9. \A k \in 1 .. n : run[k - 1] \in K[k - 1] => run[k] \in K[k]
  <2> SUFFICES ASSUME NEW k \in 1 .. n, run[k - 1] \in K[k - 1] PROVE run[k] \in K[k]
    OBVIOUS
  <2>1. k - 1 \in 0 .. n - 1 /\ (k - 1) + 1 = k
    OBVIOUS
  <2> QED BY <1>1, <1>8, <2>1
<1>10. run[n] \in K[n]
  BY <1>8, <1>9, LoopKeeps
<1> QED BY <1>10 DEF Lefts, ForBytes, run, Step

(* Cast.                                                                   *)
CopyByte(k, x, y, i) ==
  LET m == IF k.home[<<x, i>>] = None THEN Allocate(k, x, i) ELSE k
      r == m.home[<<x, i>>]
  IN  IF m.home[<<y, i>>] # None THEN Emit(m, r, m.reg[m.home[<<y, i>>]])
      ELSE IF m.at[y] # None THEN fetchVariable(m, y, i, r)
      ELSE m
Copies(h, x, y, n) == ForBytes(LAMBDA k, i : CopyByte(k, x, y, i), h, n)

LEMMA CopiesReach ==
  ASSUME NEW x, NEW y, NEW n \in Nat, NEW K, NEW h \in K[0],
         \A i \in 0 .. n - 1 : \A k \in K[i] : CopyByte(k, x, y, i) \in K[i + 1]
  PROVE  Copies(h, x, y, n) \in K[n]
<1> DEFINE Step(k, i) == CopyByte(k, x, y, i)
           F(f) == [k \in 0 .. n |-> IF k = 0 THEN h ELSE Step(f[k - 1], k - 1)]
           G == [a \in Stages(K, n) \X (0 .. n - 1) |-> Step(a[1], a[2])]
           run == CHOOSE f : f = F(f)
<1>1. \A i \in 0 .. n - 1 : \A k \in K[i] : Step(k, i) \in K[i + 1]
  OBVIOUS
<1> HIDE DEF Step
<1>2. \A i \in 0 .. n - 1 : \A k \in K[i] : G[<<k, i>>] = Step(k, i)
  BY DEF Stages
<1>3. \A i \in 0 .. n - 1 : \A k \in K[i] : G[<<k, i>>] \in K[i + 1]
  BY <1>1, <1>2
<1> HIDE DEF G
<1>4. PICK f \in LoopRuns(K, n, h, G) : TRUE
  BY <1>3, LoopExists
<1>5. ASSUME NEW k \in 1 .. n PROVE f[k] = Step(f[k - 1], k - 1)
  <2>1. f[k - 1] \in K[k - 1] /\ k - 1 \in 0 .. n - 1
    BY <1>4 DEF LoopRuns
  <2> QED BY <1>2, <1>4, <2>1 DEF LoopRuns
<1>6. f = F(f)
  BY <1>4, <1>5 DEF LoopRuns
<1>7. run = F(run)
  BY <1>6
<1> HIDE DEF run
<1>8. run[0] = h /\ \A k \in 1 .. n : run[k] = Step(run[k - 1], k - 1)
  BY <1>7
<1>9. \A k \in 1 .. n : run[k - 1] \in K[k - 1] => run[k] \in K[k]
  <2> SUFFICES ASSUME NEW k \in 1 .. n, run[k - 1] \in K[k - 1] PROVE run[k] \in K[k]
    OBVIOUS
  <2>1. k - 1 \in 0 .. n - 1 /\ (k - 1) + 1 = k
    OBVIOUS
  <2> QED BY <1>1, <1>8, <2>1
<1>10. run[n] \in K[n]
  BY <1>8, <1>9, LoopKeeps
<1> QED BY <1>10 DEF Copies, ForBytes, run, Step

(* Cast of a dying iTemp.                                                  *)
CastByte(k, x, y, i) ==
  IF k.home[<<y, i>>] # None
  THEN [occupy(k, k.home[<<y, i>>], x, i) EXCEPT
          !.home[<<x, i>>] = k.home[<<y, i>>], !.home[<<y, i>>] = None]
  ELSE IF k.at[y] = None THEN k
  ELSE IF k.home[<<x, i>>] # None THEN fetchVariable(k, y, i, k.home[<<x, i>>])
  ELSE [k EXCEPT !.hit = @ \cup {"spilled temporary"}]
Casts(h, x, y, n) == ForBytes(LAMBDA k, i : CastByte(k, x, y, i), h, n)

LEMMA CastsReach ==
  ASSUME NEW x, NEW y, NEW n \in Nat, NEW K, NEW h \in K[0],
         \A i \in 0 .. n - 1 : \A k \in K[i] : CastByte(k, x, y, i) \in K[i + 1]
  PROVE  Casts(h, x, y, n) \in K[n]
<1> DEFINE Step(k, i) == CastByte(k, x, y, i)
           F(f) == [k \in 0 .. n |-> IF k = 0 THEN h ELSE Step(f[k - 1], k - 1)]
           G == [a \in Stages(K, n) \X (0 .. n - 1) |-> Step(a[1], a[2])]
           run == CHOOSE f : f = F(f)
<1>1. \A i \in 0 .. n - 1 : \A k \in K[i] : Step(k, i) \in K[i + 1]
  OBVIOUS
<1> HIDE DEF Step
<1>2. \A i \in 0 .. n - 1 : \A k \in K[i] : G[<<k, i>>] = Step(k, i)
  BY DEF Stages
<1>3. \A i \in 0 .. n - 1 : \A k \in K[i] : G[<<k, i>>] \in K[i + 1]
  BY <1>1, <1>2
<1> HIDE DEF G
<1>4. PICK f \in LoopRuns(K, n, h, G) : TRUE
  BY <1>3, LoopExists
<1>5. ASSUME NEW k \in 1 .. n PROVE f[k] = Step(f[k - 1], k - 1)
  <2>1. f[k - 1] \in K[k - 1] /\ k - 1 \in 0 .. n - 1
    BY <1>4 DEF LoopRuns
  <2> QED BY <1>2, <1>4, <2>1 DEF LoopRuns
<1>6. f = F(f)
  BY <1>4, <1>5 DEF LoopRuns
<1>7. run = F(run)
  BY <1>6
<1> HIDE DEF run
<1>8. run[0] = h /\ \A k \in 1 .. n : run[k] = Step(run[k - 1], k - 1)
  BY <1>7
<1>9. \A k \in 1 .. n : run[k - 1] \in K[k - 1] => run[k] \in K[k]
  <2> SUFFICES ASSUME NEW k \in 1 .. n, run[k - 1] \in K[k - 1] PROVE run[k] \in K[k]
    OBVIOUS
  <2>1. k - 1 \in 0 .. n - 1 /\ (k - 1) + 1 = k
    OBVIOUS
  <2> QED BY <1>1, <1>8, <2>1
<1>10. run[n] \in K[n]
  BY <1>8, <1>9, LoopKeeps
<1> QED BY <1>10 DEF Casts, ForBytes, run, Step

(* The bytes a widening cast adds to w bytes.                              *)
FillByte(k, x, w, i) == IF i < w THEN k ELSE LoadLit(k, x, i, 0)
Fills(h, x, w, n) == ForBytes(LAMBDA k, i : FillByte(k, x, w, i), h, n)

LEMMA FillsReach ==
  ASSUME NEW x, NEW w, NEW n \in Nat, NEW K, NEW h \in K[0],
         \A i \in 0 .. n - 1 : \A k \in K[i] : FillByte(k, x, w, i) \in K[i + 1]
  PROVE  Fills(h, x, w, n) \in K[n]
<1> DEFINE Step(k, i) == FillByte(k, x, w, i)
           F(f) == [k \in 0 .. n |-> IF k = 0 THEN h ELSE Step(f[k - 1], k - 1)]
           G == [a \in Stages(K, n) \X (0 .. n - 1) |-> Step(a[1], a[2])]
           run == CHOOSE f : f = F(f)
<1>1. \A i \in 0 .. n - 1 : \A k \in K[i] : Step(k, i) \in K[i + 1]
  OBVIOUS
<1> HIDE DEF Step
<1>2. \A i \in 0 .. n - 1 : \A k \in K[i] : G[<<k, i>>] = Step(k, i)
  BY DEF Stages
<1>3. \A i \in 0 .. n - 1 : \A k \in K[i] : G[<<k, i>>] \in K[i + 1]
  BY <1>1, <1>2
<1> HIDE DEF G
<1>4. PICK f \in LoopRuns(K, n, h, G) : TRUE
  BY <1>3, LoopExists
<1>5. ASSUME NEW k \in 1 .. n PROVE f[k] = Step(f[k - 1], k - 1)
  <2>1. f[k - 1] \in K[k - 1] /\ k - 1 \in 0 .. n - 1
    BY <1>4 DEF LoopRuns
  <2> QED BY <1>2, <1>4, <2>1 DEF LoopRuns
<1>6. f = F(f)
  BY <1>4, <1>5 DEF LoopRuns
<1>7. run = F(run)
  BY <1>6
<1> HIDE DEF run
<1>8. run[0] = h /\ \A k \in 1 .. n : run[k] = Step(run[k - 1], k - 1)
  BY <1>7
<1>9. \A k \in 1 .. n : run[k - 1] \in K[k - 1] => run[k] \in K[k]
  <2> SUFFICES ASSUME NEW k \in 1 .. n, run[k - 1] \in K[k - 1] PROVE run[k] \in K[k]
    OBVIOUS
  <2>1. k - 1 \in 0 .. n - 1 /\ (k - 1) + 1 = k
    OBVIOUS
  <2> QED BY <1>1, <1>8, <2>1
<1>10. run[n] \in K[n]
  BY <1>8, <1>9, LoopKeeps
<1> QED BY <1>10 DEF Fills, ForBytes, run, Step

(* Assign of a literal.                                                    *)
LoadLits(h, x, c, n) == ForBytes(LAMBDA k, i : LoadLit(k, x, i, c[i]), h, n)

LEMMA LoadLitsReach ==
  ASSUME NEW x, NEW c, NEW n \in Nat, NEW K, NEW h \in K[0],
         \A i \in 0 .. n - 1 : \A k \in K[i] : LoadLit(k, x, i, c[i]) \in K[i + 1]
  PROVE  LoadLits(h, x, c, n) \in K[n]
<1> DEFINE Step(k, i) == LoadLit(k, x, i, c[i])
           F(f) == [k \in 0 .. n |-> IF k = 0 THEN h ELSE Step(f[k - 1], k - 1)]
           G == [a \in Stages(K, n) \X (0 .. n - 1) |-> Step(a[1], a[2])]
           run == CHOOSE f : f = F(f)
<1>1. \A i \in 0 .. n - 1 : \A k \in K[i] : Step(k, i) \in K[i + 1]
  OBVIOUS
<1> HIDE DEF Step
<1>2. \A i \in 0 .. n - 1 : \A k \in K[i] : G[<<k, i>>] = Step(k, i)
  BY DEF Stages
<1>3. \A i \in 0 .. n - 1 : \A k \in K[i] : G[<<k, i>>] \in K[i + 1]
  BY <1>1, <1>2
<1> HIDE DEF G
<1>4. PICK f \in LoopRuns(K, n, h, G) : TRUE
  BY <1>3, LoopExists
<1>5. ASSUME NEW k \in 1 .. n PROVE f[k] = Step(f[k - 1], k - 1)
  <2>1. f[k - 1] \in K[k - 1] /\ k - 1 \in 0 .. n - 1
    BY <1>4 DEF LoopRuns
  <2> QED BY <1>2, <1>4, <2>1 DEF LoopRuns
<1>6. f = F(f)
  BY <1>4, <1>5 DEF LoopRuns
<1>7. run = F(run)
  BY <1>6
<1> HIDE DEF run
<1>8. run[0] = h /\ \A k \in 1 .. n : run[k] = Step(run[k - 1], k - 1)
  BY <1>7
<1>9. \A k \in 1 .. n : run[k - 1] \in K[k - 1] => run[k] \in K[k]
  <2> SUFFICES ASSUME NEW k \in 1 .. n, run[k - 1] \in K[k - 1] PROVE run[k] \in K[k]
    OBVIOUS
  <2>1. k - 1 \in 0 .. n - 1 /\ (k - 1) + 1 = k
    OBVIOUS
  <2> QED BY <1>1, <1>8, <2>1
<1>10. run[n] \in K[n]
  BY <1>8, <1>9, LoopKeeps
<1> QED BY <1>10 DEF LoadLits, ForBytes, run, Step

(* An operation on x.                                                      *)
Operates(h, op, x, z, n) == ForBytes(LAMBDA k, i : Operate(k, op, x, z, i), h, n)

LEMMA OperatesReach ==
  ASSUME NEW op, NEW x, NEW z, NEW n \in Nat, NEW K, NEW h \in K[0],
         \A i \in 0 .. n - 1 : \A k \in K[i] : Operate(k, op, x, z, i) \in K[i + 1]
  PROVE  Operates(h, op, x, z, n) \in K[n]
<1> DEFINE Step(k, i) == Operate(k, op, x, z, i)
           F(f) == [k \in 0 .. n |-> IF k = 0 THEN h ELSE Step(f[k - 1], k - 1)]
           G == [a \in Stages(K, n) \X (0 .. n - 1) |-> Step(a[1], a[2])]
           run == CHOOSE f : f = F(f)
<1>1. \A i \in 0 .. n - 1 : \A k \in K[i] : Step(k, i) \in K[i + 1]
  OBVIOUS
<1> HIDE DEF Step
<1>2. \A i \in 0 .. n - 1 : \A k \in K[i] : G[<<k, i>>] = Step(k, i)
  BY DEF Stages
<1>3. \A i \in 0 .. n - 1 : \A k \in K[i] : G[<<k, i>>] \in K[i + 1]
  BY <1>1, <1>2
<1> HIDE DEF G
<1>4. PICK f \in LoopRuns(K, n, h, G) : TRUE
  BY <1>3, LoopExists
<1>5. ASSUME NEW k \in 1 .. n PROVE f[k] = Step(f[k - 1], k - 1)
  <2>1. f[k - 1] \in K[k - 1] /\ k - 1 \in 0 .. n - 1
    BY <1>4 DEF LoopRuns
  <2> QED BY <1>2, <1>4, <2>1 DEF LoopRuns
<1>6. f = F(f)
  BY <1>4, <1>5 DEF LoopRuns
<1>7. run = F(run)
  BY <1>6
<1> HIDE DEF run
<1>8. run[0] = h /\ \A k \in 1 .. n : run[k] = Step(run[k - 1], k - 1)
  BY <1>7
<1>9. \A k \in 1 .. n : run[k - 1] \in K[k - 1] => run[k] \in K[k]
  <2> SUFFICES ASSUME NEW k \in 1 .. n, run[k - 1] \in K[k - 1] PROVE run[k] \in K[k]
    OBVIOUS
  <2>1. k - 1 \in 0 .. n - 1 /\ (k - 1) + 1 = k
    OBVIOUS
  <2> QED BY <1>1, <1>8, <2>1
<1>10. run[n] \in K[n]
  BY <1>8, <1>9, LoopKeeps
<1> QED BY <1>10 DEF Operates, ForBytes, run, Step

(* An operation on x with a literal.                                       *)
OperateLits(h, op, x, c, n) == ForBytes(LAMBDA k, i : OperateLit(k, op, x, c, i), h, n)

LEMMA OperateLitsReach ==
  ASSUME NEW op, NEW x, NEW c, NEW n \in Nat, NEW K, NEW h \in K[0],
         \A i \in 0 .. n - 1 : \A k \in K[i] : OperateLit(k, op, x, c, i) \in K[i + 1]
  PROVE  OperateLits(h, op, x, c, n) \in K[n]
<1> DEFINE Step(k, i) == OperateLit(k, op, x, c, i)
           F(f) == [k \in 0 .. n |-> IF k = 0 THEN h ELSE Step(f[k - 1], k - 1)]
           G == [a \in Stages(K, n) \X (0 .. n - 1) |-> Step(a[1], a[2])]
           run == CHOOSE f : f = F(f)
<1>1. \A i \in 0 .. n - 1 : \A k \in K[i] : Step(k, i) \in K[i + 1]
  OBVIOUS
<1> HIDE DEF Step
<1>2. \A i \in 0 .. n - 1 : \A k \in K[i] : G[<<k, i>>] = Step(k, i)
  BY DEF Stages
<1>3. \A i \in 0 .. n - 1 : \A k \in K[i] : G[<<k, i>>] \in K[i + 1]
  BY <1>1, <1>2
<1> HIDE DEF G
<1>4. PICK f \in LoopRuns(K, n, h, G) : TRUE
  BY <1>3, LoopExists
<1>5. ASSUME NEW k \in 1 .. n PROVE f[k] = Step(f[k - 1], k - 1)
  <2>1. f[k - 1] \in K[k - 1] /\ k - 1 \in 0 .. n - 1
    BY <1>4 DEF LoopRuns
  <2> QED BY <1>2, <1>4, <2>1 DEF LoopRuns
<1>6. f = F(f)
  BY <1>4, <1>5 DEF LoopRuns
<1>7. run = F(run)
  BY <1>6
<1> HIDE DEF run
<1>8. run[0] = h /\ \A k \in 1 .. n : run[k] = Step(run[k - 1], k - 1)
  BY <1>7
<1>9. \A k \in 1 .. n : run[k - 1] \in K[k - 1] => run[k] \in K[k]
  <2> SUFFICES ASSUME NEW k \in 1 .. n, run[k - 1] \in K[k - 1] PROVE run[k] \in K[k]
    OBVIOUS
  <2>1. k - 1 \in 0 .. n - 1 /\ (k - 1) + 1 = k
    OBVIOUS
  <2> QED BY <1>1, <1>8, <2>1
<1>10. run[n] \in K[n]
  BY <1>8, <1>9, LoopKeeps
<1> QED BY <1>10 DEF OperateLits, ForBytes, run, Step

(* The assignment of a result that is in place.                            *)
BackByte(k, x, y, i) == IF k.home[<<y, i>>] = None THEN k ELSE Stale(Take(k, x, y, i))
Backs(h, x, y, n) == ForBytes(LAMBDA k, i : BackByte(k, x, y, i), h, n)

LEMMA BacksReach ==
  ASSUME NEW x, NEW y, NEW n \in Nat, NEW K, NEW h \in K[0],
         \A i \in 0 .. n - 1 : \A k \in K[i] : BackByte(k, x, y, i) \in K[i + 1]
  PROVE  Backs(h, x, y, n) \in K[n]
<1> DEFINE Step(k, i) == BackByte(k, x, y, i)
           F(f) == [k \in 0 .. n |-> IF k = 0 THEN h ELSE Step(f[k - 1], k - 1)]
           G == [a \in Stages(K, n) \X (0 .. n - 1) |-> Step(a[1], a[2])]
           run == CHOOSE f : f = F(f)
<1>1. \A i \in 0 .. n - 1 : \A k \in K[i] : Step(k, i) \in K[i + 1]
  OBVIOUS
<1> HIDE DEF Step
<1>2. \A i \in 0 .. n - 1 : \A k \in K[i] : G[<<k, i>>] = Step(k, i)
  BY DEF Stages
<1>3. \A i \in 0 .. n - 1 : \A k \in K[i] : G[<<k, i>>] \in K[i + 1]
  BY <1>1, <1>2
<1> HIDE DEF G
<1>4. PICK f \in LoopRuns(K, n, h, G) : TRUE
  BY <1>3, LoopExists
<1>5. ASSUME NEW k \in 1 .. n PROVE f[k] = Step(f[k - 1], k - 1)
  <2>1. f[k - 1] \in K[k - 1] /\ k - 1 \in 0 .. n - 1
    BY <1>4 DEF LoopRuns
  <2> QED BY <1>2, <1>4, <2>1 DEF LoopRuns
<1>6. f = F(f)
  BY <1>4, <1>5 DEF LoopRuns
<1>7. run = F(run)
  BY <1>6
<1> HIDE DEF run
<1>8. run[0] = h /\ \A k \in 1 .. n : run[k] = Step(run[k - 1], k - 1)
  BY <1>7
<1>9. \A k \in 1 .. n : run[k - 1] \in K[k - 1] => run[k] \in K[k]
  <2> SUFFICES ASSUME NEW k \in 1 .. n, run[k - 1] \in K[k - 1] PROVE run[k] \in K[k]
    OBVIOUS
  <2>1. k - 1 \in 0 .. n - 1 /\ (k - 1) + 1 = k
    OBVIOUS
  <2> QED BY <1>1, <1>8, <2>1
<1>10. run[n] \in K[n]
  BY <1>8, <1>9, LoopKeeps
<1> QED BY <1>10 DEF Backs, ForBytes, run, Step
-----------------------------------------------------------------------------
(* The loops keep what their steps keep.                                   *)
LEMMA LoadsKeep ==
  ASSUME NEW V \in SUBSET Nat, Byte \subseteq V, NEW D, NEW o, NEW h \in Kept(V, D, o),
         NEW x \in Syms, NEW y \in Syms,
         NEW n \in 0 .. MaxSize
  PROVE  Loads(h, x, y, n) \in Kept(V, D, o)
<1> DEFINE K == [j \in 0 .. n |-> Kept(V, D, o)]
<1>1. n \in Nat /\ h \in K[0]
  BY RegsAssumption
<1>2. ASSUME NEW i \in 0 .. n - 1, NEW k \in K[i] PROVE Load(k, x, y, i) \in K[i + 1]
  <2>1. k \in Kept(V, D, o) /\ i \in 0 .. MaxSize - 1 /\ K[i + 1] = Kept(V, D, o)
    BY RegsAssumption
  <2> HIDE DEF K
  <2> QED BY <2>1, LoadKeeps
<1> HIDE DEF K
<1>3. Loads(h, x, y, n) \in K[n]
  BY <1>1, <1>2, LoadsReach
<1> QED BY <1>1, <1>3 DEF K

LEMMA MoveByteKeeps ==
  ASSUME NEW V, NEW D, NEW o, NEW h \in Kept(V, D, o), NEW x \in Syms, NEW y \in Syms,
         y \in D, NEW i \in 0 .. MaxSize - 1
  PROVE  MoveByte(h, x, y, i) \in Kept(V, D, o)
<1> DEFINE H == h.hit \cup {"spilled temporary"}
<1>1. CASE h.home[<<y, i>>] = None
  <2>1. MoveByte(h, x, y, i) = [h EXCEPT !.hit = H]
    BY <1>1 DEF MoveByte
  <2>2. H \in Noted
    BY DEF Kept, Gens, Noted, Reasons
  <2> HIDE DEF H
  <2> QED BY <2>1, <2>2, HitKeeps, Zenon
<1>2. CASE h.home[<<y, i>>] # None
  BY <1>2, TakeKeeps DEF MoveByte
<1> QED BY <1>1, <1>2

LEMMA MovesKeep ==
  ASSUME NEW V \in SUBSET Nat, Byte \subseteq V, NEW D, NEW o, NEW h \in Kept(V, D, o),
         NEW x \in Syms, NEW y \in Syms, y \in D,
         NEW n \in 0 .. MaxSize
  PROVE  Moves(h, x, y, n) \in Kept(V, D, o)
<1> DEFINE K == [j \in 0 .. n |-> Kept(V, D, o)]
<1>1. n \in Nat /\ h \in K[0]
  BY RegsAssumption
<1>2. ASSUME NEW i \in 0 .. n - 1, NEW k \in K[i] PROVE MoveByte(k, x, y, i) \in K[i + 1]
  <2>1. k \in Kept(V, D, o) /\ i \in 0 .. MaxSize - 1 /\ K[i + 1] = Kept(V, D, o)
    BY RegsAssumption
  <2> HIDE DEF K
  <2> QED BY <2>1, MoveByteKeeps
<1> HIDE DEF K
<1>3. Moves(h, x, y, n) \in K[n]
  BY <1>1, <1>2, MovesReach
<1> QED BY <1>1, <1>3 DEF K

LEMMA LeftsKeep ==
  ASSUME NEW V \in SUBSET Nat, Byte \subseteq V, NEW D, NEW o, NEW h \in Kept(V, D, o),
         NEW x \in Syms, NEW y \in Syms, y \in D,
         NEW n \in 0 .. MaxSize
  PROVE  Lefts(h, x, y, n) \in Kept(V, D, o)
<1> DEFINE K == [j \in 0 .. n |-> Kept(V, D, o)]
<1>1. n \in Nat /\ h \in K[0]
  BY RegsAssumption
<1>2. ASSUME NEW i \in 0 .. n - 1, NEW k \in K[i] PROVE LeftByte(k, x, y, i) \in K[i + 1]
  <2>1. k \in Kept(V, D, o) /\ i \in 0 .. MaxSize - 1 /\ K[i + 1] = Kept(V, D, o)
    BY RegsAssumption
  <2> HIDE DEF K
  <2>2. Load(k, x, y, i) \in Kept(V, D, o)
    BY <2>1, LoadKeeps
  <2>3. k.home[<<y, i>>] # None => Take(k, x, y, i) \in Kept(V, D, o)
    BY <2>1, TakeKeeps
  <2> QED BY <2>1, <2>2, <2>3 DEF LeftByte
<1> HIDE DEF K
<1>3. Lefts(h, x, y, n) \in K[n]
  BY <1>1, <1>2, LeftsReach
<1> QED BY <1>1, <1>3 DEF K

LEMMA CopyByteKeeps ==
  ASSUME NEW V, NEW D, NEW o, NEW h \in Kept(V, D, o), NEW x \in Syms, NEW y \in Syms,
         NEW i \in 0 .. MaxSize - 1
  PROVE  CopyByte(h, x, y, i) \in Kept(V, D, o)
<1> DEFINE m == IF h.home[<<x, i>>] = None THEN Allocate(h, x, i) ELSE h
           r == m.home[<<x, i>>]
<1>1. m \in Kept(V, D, o) /\ r \in Regs
  <2>1. CASE h.home[<<x, i>>] = None
    BY <2>1, AllocateKeeps
  <2>2. CASE h.home[<<x, i>>] # None
    BY <2>2, BytesArePlaces DEF Kept, Gens
  <2> QED BY <2>1, <2>2
<1>2. CopyByte(h, x, y, i) = IF m.home[<<y, i>>] # None THEN Emit(m, r, m.reg[m.home[<<y, i>>]])
                             ELSE IF m.at[y] # None THEN fetchVariable(m, y, i, r)
                             ELSE m
  BY DEF CopyByte
<1> HIDE DEF m, r
<1>3. CASE m.home[<<y, i>>] # None
  <2>1. m.reg[m.home[<<y, i>>]] \in V \cup {Junk}
    BY <1>1, <1>3, BytesArePlaces DEF Kept, Gens
  <2> QED BY <1>1, <1>2, <1>3, <2>1, EmitKeeps
<1>4. CASE m.home[<<y, i>>] = None /\ m.at[y] # None
  BY <1>1, <1>2, <1>4, FetchKeeps
<1>5. CASE m.home[<<y, i>>] = None /\ m.at[y] = None
  BY <1>1, <1>2, <1>5
<1> QED BY <1>3, <1>4, <1>5

LEMMA CopiesKeep ==
  ASSUME NEW V \in SUBSET Nat, Byte \subseteq V, NEW D, NEW o, NEW h \in Kept(V, D, o),
         NEW x \in Syms, NEW y \in Syms,
         NEW n \in 0 .. MaxSize
  PROVE  Copies(h, x, y, n) \in Kept(V, D, o)
<1> DEFINE K == [j \in 0 .. n |-> Kept(V, D, o)]
<1>1. n \in Nat /\ h \in K[0]
  BY RegsAssumption
<1>2. ASSUME NEW i \in 0 .. n - 1, NEW k \in K[i] PROVE CopyByte(k, x, y, i) \in K[i + 1]
  <2>1. k \in Kept(V, D, o) /\ i \in 0 .. MaxSize - 1 /\ K[i + 1] = Kept(V, D, o)
    BY RegsAssumption
  <2> HIDE DEF K
  <2> QED BY <2>1, CopyByteKeeps
<1> HIDE DEF K
<1>3. Copies(h, x, y, n) \in K[n]
  BY <1>1, <1>2, CopiesReach
<1> QED BY <1>1, <1>3 DEF K

LEMMA CastByteKeeps ==
  ASSUME NEW V, NEW D, NEW o, NEW h \in Kept(V, D, o), NEW x \in Syms, NEW y \in Syms,
         y \in D, NEW i \in 0 .. MaxSize - 1
  PROVE  CastByte(h, x, y, i) \in Kept(V, D, o)
<1> DEFINE H == h.hit \cup {"spilled temporary"}
           r == h.home[<<y, i>>]
<1>0. <<x, i>> \in Places /\ <<y, i>> \in Places
  BY BytesArePlaces
<1>1. CASE r # None
  <2>1. h.bank[r] = <<y, i>>
    BY <1>0, <1>1 DEF Kept, Backed
  <2>2. CastByte(h, x, y, i) = Take(h, x, y, i)
    <3>1. CastByte(h, x, y, i) = [occupy(h, r, x, i) EXCEPT !.home[<<x, i>>] = r, !.home[<<y, i>>] = None]
      BY <1>1 DEF CastByte
    <3>2. occupy(h, r, x, i) = [h EXCEPT !.bank[r] = <<x, i>>] /\ h.bank[r][2] = i
      BY <2>1 DEF occupy
    <3>3. h.bank[r] # None
      BY <1>0, <2>1, RegsAssumption DEF Places
    <3>4. Take(h, x, y, i) = [h EXCEPT !.home[<<x, i>>] = r, !.home[<<y, i>>] = None, !.bank[r] = <<x, i>>]
      BY <3>2, <3>3 DEF Take
    <3> QED BY <3>1, <3>2, <3>4 DEF Kept, Gens
  <2> QED BY <1>1, <2>2, TakeKeeps
<1>2. CASE r = None /\ h.at[y] = None
  BY <1>2 DEF CastByte
<1>3. CASE r = None /\ h.at[y] # None /\ h.home[<<x, i>>] # None
  <2>1. CastByte(h, x, y, i) = fetchVariable(h, y, i, h.home[<<x, i>>])
    BY <1>3 DEF CastByte
  <2>2. h.home[<<x, i>>] \in Regs
    BY <1>0, <1>3 DEF Kept, Gens
  <2> QED BY <1>3, <2>1, <2>2, FetchKeeps
<1>4. CASE r = None /\ h.at[y] # None /\ h.home[<<x, i>>] = None
  <2>1. CastByte(h, x, y, i) = [h EXCEPT !.hit = H]
    BY <1>4 DEF CastByte
  <2>2. H \in Noted
    BY DEF Kept, Gens, Noted, Reasons
  <2> HIDE DEF H
  <2> QED BY <2>1, <2>2, HitKeeps, Zenon
<1> QED BY <1>1, <1>2, <1>3, <1>4

LEMMA CastsKeep ==
  ASSUME NEW V \in SUBSET Nat, Byte \subseteq V, NEW D, NEW o, NEW h \in Kept(V, D, o),
         NEW x \in Syms, NEW y \in Syms, y \in D,
         NEW n \in 0 .. MaxSize
  PROVE  Casts(h, x, y, n) \in Kept(V, D, o)
<1> DEFINE K == [j \in 0 .. n |-> Kept(V, D, o)]
<1>1. n \in Nat /\ h \in K[0]
  BY RegsAssumption
<1>2. ASSUME NEW i \in 0 .. n - 1, NEW k \in K[i] PROVE CastByte(k, x, y, i) \in K[i + 1]
  <2>1. k \in Kept(V, D, o) /\ i \in 0 .. MaxSize - 1 /\ K[i + 1] = Kept(V, D, o)
    BY RegsAssumption
  <2> HIDE DEF K
  <2> QED BY <2>1, CastByteKeeps
<1> HIDE DEF K
<1>3. Casts(h, x, y, n) \in K[n]
  BY <1>1, <1>2, CastsReach
<1> QED BY <1>1, <1>3 DEF K

LEMMA FillsKeep ==
  ASSUME NEW V \in SUBSET Nat, Byte \subseteq V, NEW D, NEW o, NEW h \in Kept(V, D, o),
         NEW x \in Syms, NEW w,
         NEW n \in 0 .. MaxSize
  PROVE  Fills(h, x, w, n) \in Kept(V, D, o)
<1> DEFINE K == [j \in 0 .. n |-> Kept(V, D, o)]
<1>1. n \in Nat /\ h \in K[0]
  BY RegsAssumption
<1>2. ASSUME NEW i \in 0 .. n - 1, NEW k \in K[i] PROVE FillByte(k, x, w, i) \in K[i + 1]
  <2>1. k \in Kept(V, D, o) /\ i \in 0 .. MaxSize - 1 /\ K[i + 1] = Kept(V, D, o)
    BY RegsAssumption
  <2> HIDE DEF K
  <2>2. 0 \in V
    BY RegsAssumption DEF Byte
  <2>3. LoadLit(k, x, i, 0) \in Kept(V, D, o)
    BY <2>1, <2>2, LoadLitKeeps
  <2> QED BY <2>1, <2>3 DEF FillByte
<1> HIDE DEF K
<1>3. Fills(h, x, w, n) \in K[n]
  BY <1>1, <1>2, FillsReach
<1> QED BY <1>1, <1>3 DEF K

LEMMA LoadLitsKeep ==
  ASSUME NEW V \in SUBSET Nat, Byte \subseteq V, NEW D, NEW o, NEW h \in Kept(V, D, o),
         NEW x \in Syms, NEW c, NEW n \in 0 .. MaxSize,
         \A i \in 0 .. n - 1 : c[i] \in V
  PROVE  LoadLits(h, x, c, n) \in Kept(V, D, o)
<1> DEFINE K == [j \in 0 .. n |-> Kept(V, D, o)]
<1>1. n \in Nat /\ h \in K[0]
  BY RegsAssumption
<1>2. ASSUME NEW i \in 0 .. n - 1, NEW k \in K[i] PROVE LoadLit(k, x, i, c[i]) \in K[i + 1]
  <2>1. k \in Kept(V, D, o) /\ i \in 0 .. MaxSize - 1 /\ K[i + 1] = Kept(V, D, o)
    BY RegsAssumption
  <2> HIDE DEF K
  <2> QED BY <2>1, LoadLitKeeps
<1> HIDE DEF K
<1>3. LoadLits(h, x, c, n) \in K[n]
  BY <1>1, <1>2, LoadLitsReach
<1> QED BY <1>1, <1>3 DEF K

LEMMA OperatesKeep ==
  ASSUME NEW V \in SUBSET Nat, Byte \subseteq V, NEW D, NEW o, NEW h \in Kept(V, D, o),
         NEW op \in Ops, NEW x \in Syms, NEW z \in Syms,
         NEW n \in 0 .. MaxSize
  PROVE  Operates(h, op, x, z, n) \in Kept(V, D, o)
<1> DEFINE K == [j \in 0 .. n |-> Kept(V, D, o)]
<1>1. n \in Nat /\ h \in K[0]
  BY RegsAssumption
<1>2. ASSUME NEW i \in 0 .. n - 1, NEW k \in K[i] PROVE Operate(k, op, x, z, i) \in K[i + 1]
  <2>1. k \in Kept(V, D, o) /\ i \in 0 .. MaxSize - 1 /\ K[i + 1] = Kept(V, D, o)
    BY RegsAssumption
  <2> HIDE DEF K
  <2> QED BY <2>1, OperateKeeps
<1> HIDE DEF K
<1>3. Operates(h, op, x, z, n) \in K[n]
  BY <1>1, <1>2, OperatesReach
<1> QED BY <1>1, <1>3 DEF K

LEMMA OperateLitsKeep ==
  ASSUME NEW V \in SUBSET Nat, Byte \subseteq V, NEW D, NEW o, NEW h \in Kept(V, D, o),
         NEW op \in Ops, NEW x \in Syms, NEW c, NEW n \in 0 .. MaxSize,
         \A i \in 0 .. n - 1 : c[i] \in V
  PROVE  OperateLits(h, op, x, c, n) \in Kept(V, D, o)
<1> DEFINE K == [j \in 0 .. n |-> Kept(V, D, o)]
<1>1. n \in Nat /\ h \in K[0]
  BY RegsAssumption
<1>2. ASSUME NEW i \in 0 .. n - 1, NEW k \in K[i] PROVE OperateLit(k, op, x, c, i) \in K[i + 1]
  <2>1. k \in Kept(V, D, o) /\ i \in 0 .. MaxSize - 1 /\ K[i + 1] = Kept(V, D, o)
    BY RegsAssumption
  <2> HIDE DEF K
  <2> QED BY <2>1, OperateLitKeeps
<1> HIDE DEF K
<1>3. OperateLits(h, op, x, c, n) \in K[n]
  BY <1>1, <1>2, OperateLitsReach
<1> QED BY <1>1, <1>3 DEF K

LEMMA StaleKeeps ==
  ASSUME NEW V, NEW D, NEW o, NEW h \in Kept(V, D, o)
  PROVE  Stale(h) \in Kept(V, D, o)
<1> DEFINE H == h.hit \cup {"stale result"}
<1>1. H \in Noted
  BY DEF Kept, Gens, Noted, Reasons
<1>2. Stale(h) = [h EXCEPT !.hit = H]
  BY DEF Stale
<1> HIDE DEF H
<1> QED BY <1>1, <1>2, HitKeeps, Zenon

LEMMA BacksKeep ==
  ASSUME NEW V \in SUBSET Nat, Byte \subseteq V, NEW D, NEW o, NEW h \in Kept(V, D, o),
         NEW x \in Syms, NEW y \in Syms, y \in D,
         NEW n \in 0 .. MaxSize
  PROVE  Backs(h, x, y, n) \in Kept(V, D, o)
<1> DEFINE K == [j \in 0 .. n |-> Kept(V, D, o)]
<1>1. n \in Nat /\ h \in K[0]
  BY RegsAssumption
<1>2. ASSUME NEW i \in 0 .. n - 1, NEW k \in K[i] PROVE BackByte(k, x, y, i) \in K[i + 1]
  <2>1. k \in Kept(V, D, o) /\ i \in 0 .. MaxSize - 1 /\ K[i + 1] = Kept(V, D, o)
    BY RegsAssumption
  <2> HIDE DEF K
  <2>2. k.home[<<y, i>>] # None => Take(k, x, y, i) \in Kept(V, D, o)
    BY <2>1, TakeKeeps
  <2>3. k.home[<<y, i>>] # None => Stale(Take(k, x, y, i)) \in Kept(V, D, o)
    BY <2>2, StaleKeeps
  <2> QED BY <2>1, <2>3 DEF BackByte
<1> HIDE DEF K
<1>3. Backs(h, x, y, n) \in K[n]
  BY <1>1, <1>2, BacksReach
<1> QED BY <1>1, <1>3 DEF K
-----------------------------------------------------------------------------
(* The code of Assign, of a left operand and of Cast.                      *)
LEMMA AssignCodeKeeps ==
  ASSUME NEW V \in SUBSET Nat, Byte \subseteq V, NEW D, NEW o, NEW h \in Kept(V, D, o),
         NEW x \in Syms, NEW y \in D \cap Syms
  PROVE  AssignCode(h, x, y) \in Kept(V, D, o)
<1>1. AssignCode(h, x, y) = IF Dying(h, y) THEN Moves(h, x, y, SizeOf[y])
                            ELSE Loads(h, x, y, SizeOf[x])
  BY DEF AssignCode, Moves, MoveByte, Loads, ForBytes
<1>2. SizeOf[x] \in 0 .. MaxSize /\ SizeOf[y] \in 0 .. MaxSize
  BY RegsAssumption
<1>3. Moves(h, x, y, SizeOf[y]) \in Kept(V, D, o)
  BY <1>2, MovesKeep
<1>4. Loads(h, x, y, SizeOf[x]) \in Kept(V, D, o)
  BY <1>2, LoadsKeep
<1> QED BY <1>1, <1>3, <1>4

LEMMA CopyCodeKeeps ==
  ASSUME NEW V \in SUBSET Nat, Byte \subseteq V, NEW D, NEW o, NEW h \in Kept(V, D, o),
         NEW x \in Syms, NEW y \in D \cap Syms
  PROVE  CopyCode(h, x, y) \in Kept(V, D, o)
<1>1. CopyCode(h, x, y) = IF Dying(h, y) THEN Backs(h, x, y, SizeOf[y])
                          ELSE Stale(Loads(h, x, y, SizeOf[x]))
  BY DEF CopyCode, Backs, BackByte, Loads, ForBytes
<1>2. SizeOf[x] \in 0 .. MaxSize /\ SizeOf[y] \in 0 .. MaxSize
  BY RegsAssumption
<1>3. Backs(h, x, y, SizeOf[y]) \in Kept(V, D, o)
  BY <1>2, BacksKeep
<1>4. Loads(h, x, y, SizeOf[x]) \in Kept(V, D, o)
  BY <1>2, LoadsKeep
<1>5. Stale(Loads(h, x, y, SizeOf[x])) \in Kept(V, D, o)
  BY <1>4, StaleKeeps
<1> QED BY <1>1, <1>3, <1>5

LEMMA LeftCodeKeeps ==
  ASSUME NEW V \in SUBSET Nat, Byte \subseteq V, NEW D, NEW o, NEW h \in Kept(V, D, o),
         NEW x \in Syms, NEW y \in D \cap Syms
  PROVE  LeftCode(h, x, y) \in Kept(V, D, o)
<1>1. LeftCode(h, x, y) = Lefts(h, x, y, SizeOf[y])
  BY DEF LeftCode, Lefts, LeftByte, ForBytes
<1>2. SizeOf[y] \in 0 .. MaxSize
  BY RegsAssumption
<1> QED BY <1>1, <1>2, LeftsKeep

LEMMA CastCodeKeeps ==
  ASSUME NEW V \in SUBSET Nat, Byte \subseteq V, NEW D, NEW o, NEW h \in Kept(V, D, o),
         NEW x \in Syms, NEW y \in D \cap Syms
  PROVE  CastCode(h, x, y) \in Kept(V, D, o)
<1> DEFINE m == IF Dying(h, y) THEN Casts(h, x, y, SizeOf[y]) ELSE Copies(h, x, y, SizeOf[y])
<1>1. CastCode(h, x, y) = Fills(m, x, SizeOf[y], SizeOf[x])
  BY DEF CastCode, Casts, CastByte, Copies, CopyByte, Fills, FillByte, ForBytes
<1>2. SizeOf[x] \in 0 .. MaxSize /\ SizeOf[y] \in 0 .. MaxSize
  BY RegsAssumption
<1>3. Casts(h, x, y, SizeOf[y]) \in Kept(V, D, o)
  BY <1>2, CastsKeep
<1>4. Copies(h, x, y, SizeOf[y]) \in Kept(V, D, o)
  BY <1>2, CopiesKeep
<1>5. m \in Kept(V, D, o)
  BY <1>3, <1>4
<1> HIDE DEF m
<1> QED BY <1>1, <1>2, <1>5, FillsKeep
-----------------------------------------------------------------------------
(* Pointers: the values are bytes and addresses.                           *)
Values == Byte \cup Addresses

LEMMA ValuesAre ==
  /\ Values \in SUBSET Nat /\ Byte \subseteq Values
  /\ \A k \in Int : Address(k) \in Values \cup {Junk}
  /\ \A v : Cell(v) = Junk \/ Cell(v) \in Cells
  /\ \A v \in Values \cup {Junk}, n \in Int : Shift(v, n) \in Values \cup {Junk}
<1>1. Cells \subseteq Nat /\ RADIX \in Nat \ {0} /\ Junk \notin Nat
  BY AllBytesFinite, RegsAssumption DEF Cells
<1>2. Values \in SUBSET Nat /\ Byte \subseteq Values
  BY <1>1 DEF Values, Byte, Addresses
<1>3. \A k : Address(k) \in Values \cup {Junk}
  BY DEF Values, Addresses, Address
<1>4. \A v : Cell(v) = Junk \/ Cell(v) \in Cells
  BY <1>1 DEF Cell, Addresses
<1>5. \A v \in Values \cup {Junk}, n \in Int : Shift(v, n) \in Values \cup {Junk}
  <2> SUFFICES ASSUME NEW v \in Values \cup {Junk}, NEW n \in Int
               PROVE  Shift(v, n) \in Values \cup {Junk}
    OBVIOUS
  <2>1. CASE v \in Addresses \/ v = Junk
    BY <1>3, <2>1 DEF Shift
  <2>2. CASE v \notin Addresses /\ v # Junk
    <3>1. v \in Nat /\ v + n \in Int
      BY <1>2, <2>2
    <3>2. (v + n) % RADIX \in Byte
      BY <1>1, <3>1, ModRange DEF Byte
    <3> QED BY <1>2, <2>2, <3>2 DEF Shift
  <2> QED BY <2>1, <2>2
<1> QED BY <1>2, <1>3, <1>4, <1>5

LEMMA MarkKeeps ==
  ASSUME NEW V, NEW D, NEW o, NEW h \in Kept(V, D, o), NEW reason \in Reasons, NEW when
  PROVE  Hit(h, reason, when) \in Kept(V, D, o)
<1> DEFINE H == h.hit \cup {reason}
<1>1. H \in Noted
  BY DEF Kept, Gens, Noted
<1>2. Hit(h, reason, when) = h \/ Hit(h, reason, when) = [h EXCEPT !.hit = H]
  BY DEF Hit
<1> HIDE DEF H
<1>3. [h EXCEPT !.hit = H] \in Kept(V, D, o)
  BY <1>1, HitKeeps, Zenon
<1> QED BY <1>2, <1>3

(* A register and the carry, as one instruction sets them.                 *)
LEMMA RegCarryKeeps ==
  ASSUME NEW V, NEW D, NEW o, NEW h \in Kept(V, D, o), NEW r \in Regs, NEW v \in V \cup {Junk},
         NEW c \in {0, 1}, NEW k, k = [h EXCEPT !.reg[r] = v, !.carry = c]
  PROVE  k \in Kept(V, D, o)
<1> DEFINE m == [h EXCEPT !.reg[r] = v]
<1>1. m \in Kept(V, D, o)
  BY RegKeeps, Zenon
<1>2. k = [m EXCEPT !.carry = c]
  OBVIOUS
<1> HIDE DEF m
<1> QED BY <1>1, <1>2, CarryKeeps, Zenon

LEMMA LoadAddressKeeps ==
  ASSUME NEW D, NEW o, NEW h \in Kept(Values, D, o), NEW p \in Syms, NEW x \in Syms
  PROVE  loadAddress(h, p, x) \in Kept(Values, D, o) /\ loadAddress(h, p, x).at[x] # None
<1> DEFINE q == Reserve(h, x)
           k == Touch(q, p, 0)
           r == k.home[<<p, 0>>]
           v == Address(k.offset + k.top - SizeOf[x])
           c == IF k.top = SizeOf[x] THEN k.carry ELSE 0
           m == [k EXCEPT !.reg[r] = v, !.carry = c]
           e == k.offset # 0 \/ k.at[x] + SizeOf[x] # k.top
           z == Hit(m, "address off", e)
<1>1. loadAddress(h, p, x) = z
  BY DEF loadAddress, AddressLoaded
<1>2. q \in Kept(Values, D, o) /\ q.at[x] # None
  BY ReserveKeeps
<1>3. q \in Kept(Values, D, q)
  BY <1>2 DEF Kept, Onward
<1> HIDE DEF q
<1>4. ASSUME NEW u \in {o, q}
      PROVE  z \in Kept(Values, D, u)
  <2>1. q \in Kept(Values, D, u)
    BY <1>2, <1>3
  <2>2. 0 \in 0 .. MaxSize - 1
    BY RegsAssumption
  <2>3. k \in Kept(Values, D, u) /\ r \in Regs
    BY <2>1, <2>2, TouchKeeps
  <2> HIDE DEF k, r
  <2>4. v \in Values \cup {Junk}
    <3>1. k.offset \in Int /\ k.top \in Int /\ SizeOf[x] \in Int
      BY <2>3, AllBytesFinite, RegsAssumption DEF Kept, Gens, Cells
    <3> QED BY <3>1, ValuesAre
  <2>5. c \in {0, 1}
    BY <2>3 DEF Kept, Gens
  <2> HIDE DEF v, c
  <2>6. m \in Kept(Values, D, u)
    BY <2>3, <2>4, <2>5, RegCarryKeeps
  <2>7. "address off" \in Reasons
    BY DEF Reasons
  <2> HIDE DEF m, e
  <2> QED BY <2>6, <2>7, MarkKeeps
<1>5. z \in Kept(Values, D, o) /\ z \in Kept(Values, D, q)
  BY <1>4
<1> HIDE DEF z
<1>6. z.at[x] # None
  BY <1>2, <1>5 DEF Kept, Onward
<1> QED BY <1>1, <1>5, <1>6

LEMMA MoveKeeps ==
  ASSUME NEW D, NEW o, NEW h \in Kept(Values, D, o), NEW p \in Syms, NEW n \in Int
  PROVE  Move(h, p, n) \in Kept(Values, D, o)
<1> DEFINE r == h.home[<<p, 0>>]
           v == Shift(h.reg[r], n)
<1>1. CASE r = None
  <2>1. Move(h, p, n) = Hit(h, "pointer spilled", TRUE)
    BY <1>1 DEF Move
  <2>2. "pointer spilled" \in Reasons
    BY DEF Reasons
  <2> QED BY <2>1, <2>2, MarkKeeps
<1>2. CASE r # None
  <2>1. Move(h, p, n) = [h EXCEPT !.reg[r] = v, !.carry = 0]
    BY <1>2 DEF Move
  <2>2. <<p, 0>> \in Places
    BY RegsAssumption, BytesArePlaces
  <2>3. r \in Regs
    BY <1>2, <2>2 DEF Kept, Gens
  <2>4. h.reg[r] \in Values \cup {Junk}
    BY <2>3 DEF Kept, Gens
  <2>5. v \in Values \cup {Junk}
    BY <2>4, ValuesAre
  <2> HIDE DEF r, v
  <2> QED BY <2>1, <2>3, <2>5, RegCarryKeeps
<1> QED BY <1>1, <1>2

LEMMA StepOnKeeps ==
  ASSUME NEW D, NEW o, NEW h \in Kept(Values, D, o), NEW p \in Syms, NEW i, NEW n
  PROVE  StepOn(h, p, i, n) \in Kept(Values, D, o)
<1>1. Move(h, p, 1) \in Kept(Values, D, o)
  BY MoveKeeps
<1> QED BY <1>1 DEF StepOn

LEMMA WayBackKeeps ==
  ASSUME NEW D, NEW o, NEW h \in Kept(Values, D, o), NEW p, NEW r \in Syms, NEW n \in Nat
  PROVE  WayBack(h, p, r, n) \in Kept(Values, D, o)
<1>1. Move(h, r, 1 - n) \in Kept(Values, D, o)
  BY MoveKeeps
<1> QED BY <1>1 DEF WayBack

LEMMA FetchThroughKeeps ==
  ASSUME NEW D, NEW o, NEW h \in Kept(Values, D, o), NEW x \in Syms, NEW p \in Syms, NEW y,
         NEW i \in 0 .. MaxSize - 1, h.home[<<x, i>>] \in Regs
  PROVE  FetchThrough(h, x, p, y, i) \in Kept(Values, D, o)
<1> DEFINE r == h.home[<<p, 0>>]
           c == Cell(h.reg[r])
           v == Content(h, c)
           m == Fetched(h, x, p, i)
           s == StepOn(m, p, i, SizeOf[x])
           e == h.home[<<y, i>>] # None
<1>1. CASE r = None
  <2>1. FetchThrough(h, x, p, y, i) = Hit(h, "pointer spilled", TRUE)
    BY <1>1 DEF FetchThrough
  <2>2. "pointer spilled" \in Reasons
    BY DEF Reasons
  <2> QED BY <2>1, <2>2, MarkKeeps
<1>2. CASE r # None
  <2>1. FetchThrough(h, x, p, y, i) = Hit(s, "object in register", e)
    BY <1>2 DEF FetchThrough
  <2>2. c = Junk \/ c \in Cells
    BY ValuesAre
  <2>3. v \in Values \cup {Junk}
    BY <2>2 DEF Content, Kept, Gens
  <2>4. m = [h EXCEPT !.reg[h.home[<<x, i>>]] = v]
    BY DEF Fetched
  <2> HIDE DEF m, v, c, e
  <2>5. m \in Kept(Values, D, o)
    BY <2>3, <2>4, RegKeeps, Zenon
  <2>6. s \in Kept(Values, D, o)
    BY <2>5, StepOnKeeps
  <2>7. "object in register" \in Reasons
    BY DEF Reasons
  <2> HIDE DEF s
  <2> QED BY <2>1, <2>6, <2>7, MarkKeeps
<1> QED BY <1>1, <1>2

LEMMA FetchByteKeeps ==
  ASSUME NEW D, NEW o, NEW h \in Kept(Values, D, o), NEW x \in Syms, NEW t \in Syms,
         NEW p \in Syms, NEW y, NEW i \in 0 .. MaxSize - 1
  PROVE  FetchByte(h, x, t, p, y, i) \in Kept(Values, D, o)
<1> DEFINE w == Allocate(h, t, i)
           a == PointerReloaded(h, t, p, i)
           u == Allocate(a, t, i)
           e == x # t
           b == ResultAllocated(a, x, t, i)
           k == Touch(b, x, i)
<1>1. CASE Crashed(h)
  BY <1>1 DEF FetchByte
<1>2. CASE ~Crashed(h)
  <2>1. FetchByte(h, x, t, p, y, i) = FetchThrough(k, x, p, y, i)
    BY <1>2 DEF FetchByte
  <2>2. w \in Kept(Values, D, o)
    BY AllocateKeeps
  <2>3. Victim(h) \in Regs /\ 0 \in 0 .. MaxSize - 1
    BY VictimIn, RegsAssumption DEF Kept
  <2>4. a = h \/ a = w \/ (w.at[p] # None /\ a = fetchVariable(w, p, 0, Victim(h)))
    BY DEF PointerReloaded, Reloaded
  <2> HIDE DEF w, a
  <2>5. a \in Kept(Values, D, o)
    BY <2>2, <2>3, <2>4, FetchKeeps
  <2>6. u \in Kept(Values, D, o)
    BY <2>5, AllocateKeeps
  <2>7. b = a \/ b = Hit(u, "result unallocated", e)
    BY DEF ResultAllocated
  <2>8. "result unallocated" \in Reasons
    BY DEF Reasons
  <2> HIDE DEF u, b, e
  <2>9. b \in Kept(Values, D, o)
    BY <2>5, <2>6, <2>7, <2>8, MarkKeeps
  <2>10. k \in Kept(Values, D, o) /\ k.home[<<x, i>>] \in Regs
    BY <2>9, TouchKeeps
  <2> HIDE DEF k
  <2> QED BY <2>1, <2>10, FetchThroughKeeps
<1> QED BY <1>1, <1>2

LEMMA StoreByteKeeps ==
  ASSUME NEW D, NEW o, NEW h \in Kept(Values, D, o), NEW p \in Syms, NEW y, NEW z \in Syms,
         NEW i \in 0 .. MaxSize - 1, h.home[<<z, i>>] \in Regs
  PROVE  StoreByte(h, p, y, z, i) \in Kept(Values, D, o)
<1> DEFINE r == h.home[<<p, 0>>]
           c == Cell(h.reg[r])
           v == h.reg[h.home[<<z, i>>]]
           m == StoredAt(h, c, v)
           s == StepOn(m, p, i, SizeOf[y])
           e == h.home[<<y, i>>] # None
<1>1. CASE r = None
  <2>1. StoreByte(h, p, y, z, i) = Hit(h, "pointer spilled", TRUE)
    BY <1>1 DEF StoreByte
  <2>2. "pointer spilled" \in Reasons
    BY DEF Reasons
  <2> QED BY <2>1, <2>2, MarkKeeps
<1>2. CASE r # None
  <2>1. StoreByte(h, p, y, z, i) = Hit(s, "object in register", e)
    BY <1>2 DEF StoreByte
  <2>2. c = Junk \/ c \in Cells
    BY ValuesAre
  <2>3. v \in Values \cup {Junk}
    BY DEF Kept, Gens
  <2>4. m = IF c = Junk THEN h ELSE [h EXCEPT !.ram[c] = v]
    BY DEF StoredAt
  <2> HIDE DEF m, v, c, e
  <2>5. m \in Kept(Values, D, o)
    <3>1. CASE c = Junk
      BY <2>4, <3>1
    <3>2. CASE c # Junk
      <4>1. c \in Cells /\ m = [h EXCEPT !.ram[c] = v]
        BY <2>2, <2>4, <3>2
      <4> QED BY <2>3, <4>1, RamKeeps, Zenon
    <3> QED BY <3>1, <3>2
  <2>6. s \in Kept(Values, D, o)
    BY <2>5, StepOnKeeps
  <2>7. "object in register" \in Reasons
    BY DEF Reasons
  <2> HIDE DEF s
  <2> QED BY <2>1, <2>6, <2>7, MarkKeeps
<1> QED BY <1>1, <1>2

LEMMA LoadLitHome ==
  ASSUME NEW V, NEW D, NEW o, NEW h \in Kept(V, D, o), NEW x \in Syms,
         NEW i \in 0 .. MaxSize - 1, NEW c \in V
  PROVE  LoadLit(h, x, i, c).home[<<x, i>>] \in Regs
<1> DEFINE k == Touch(h, x, i)
           m == Emit(k, k.home[<<x, i>>], c)
<1>1. LoadLit(h, x, i, c) = m
  BY DEF LoadLit
<1>2. k \in Kept(V, D, o) /\ k.home[<<x, i>>] \in Regs
  BY TouchKeeps
<1> HIDE DEF k
<1>3. m.home = k.home
  BY <1>2 DEF Emit, Kept, Gens
<1> QED BY <1>1, <1>2, <1>3

(* The loops of AtAddress, and of an assignment through a pointer.         *)
Fetches(h, x, t, p, y, n) == ForBytes(LAMBDA k, i : FetchByte(k, x, t, p, y, i), h, n)

LEMMA FetchesReach ==
  ASSUME NEW x, NEW t, NEW p, NEW y, NEW n \in Nat, NEW K, NEW h \in K[0],
         \A i \in 0 .. n - 1 : \A k \in K[i] : FetchByte(k, x, t, p, y, i) \in K[i + 1]
  PROVE  Fetches(h, x, t, p, y, n) \in K[n]
<1> DEFINE Step(k, i) == FetchByte(k, x, t, p, y, i)
           F(f) == [k \in 0 .. n |-> IF k = 0 THEN h ELSE Step(f[k - 1], k - 1)]
           G == [a \in Stages(K, n) \X (0 .. n - 1) |-> Step(a[1], a[2])]
           run == CHOOSE f : f = F(f)
<1>1. \A i \in 0 .. n - 1 : \A k \in K[i] : Step(k, i) \in K[i + 1]
  OBVIOUS
<1> HIDE DEF Step
<1>2. \A i \in 0 .. n - 1 : \A k \in K[i] : G[<<k, i>>] = Step(k, i)
  BY DEF Stages
<1>3. \A i \in 0 .. n - 1 : \A k \in K[i] : G[<<k, i>>] \in K[i + 1]
  BY <1>1, <1>2
<1> HIDE DEF G
<1>4. PICK f \in LoopRuns(K, n, h, G) : TRUE
  BY <1>3, LoopExists
<1>5. ASSUME NEW k \in 1 .. n PROVE f[k] = Step(f[k - 1], k - 1)
  <2>1. f[k - 1] \in K[k - 1] /\ k - 1 \in 0 .. n - 1
    BY <1>4 DEF LoopRuns
  <2> QED BY <1>2, <1>4, <2>1 DEF LoopRuns
<1>6. f = F(f)
  BY <1>4, <1>5 DEF LoopRuns
<1>7. run = F(run)
  BY <1>6
<1> HIDE DEF run
<1>8. run[0] = h /\ \A k \in 1 .. n : run[k] = Step(run[k - 1], k - 1)
  BY <1>7
<1>9. \A k \in 1 .. n : run[k - 1] \in K[k - 1] => run[k] \in K[k]
  <2> SUFFICES ASSUME NEW k \in 1 .. n, run[k - 1] \in K[k - 1] PROVE run[k] \in K[k]
    OBVIOUS
  <2>1. k - 1 \in 0 .. n - 1 /\ (k - 1) + 1 = k
    OBVIOUS
  <2> QED BY <1>1, <1>8, <2>1
<1>10. run[n] \in K[n]
  BY <1>8, <1>9, LoopKeeps
<1> QED BY <1>10 DEF Fetches, ForBytes, run, Step

(* ... of a symbol.                                                        *)
PutByte(k, p, y, z, i) == IF Crashed(k) THEN k ELSE StoreByte(Touch(k, z, i), p, y, z, i)
Stores(h, p, y, z, n) == ForBytes(LAMBDA k, i : PutByte(k, p, y, z, i), h, n)

LEMMA StoresReach ==
  ASSUME NEW p, NEW y, NEW z, NEW n \in Nat, NEW K, NEW h \in K[0],
         \A i \in 0 .. n - 1 : \A k \in K[i] : PutByte(k, p, y, z, i) \in K[i + 1]
  PROVE  Stores(h, p, y, z, n) \in K[n]
<1> DEFINE Step(k, i) == PutByte(k, p, y, z, i)
           F(f) == [k \in 0 .. n |-> IF k = 0 THEN h ELSE Step(f[k - 1], k - 1)]
           G == [a \in Stages(K, n) \X (0 .. n - 1) |-> Step(a[1], a[2])]
           run == CHOOSE f : f = F(f)
<1>1. \A i \in 0 .. n - 1 : \A k \in K[i] : Step(k, i) \in K[i + 1]
  OBVIOUS
<1> HIDE DEF Step
<1>2. \A i \in 0 .. n - 1 : \A k \in K[i] : G[<<k, i>>] = Step(k, i)
  BY DEF Stages
<1>3. \A i \in 0 .. n - 1 : \A k \in K[i] : G[<<k, i>>] \in K[i + 1]
  BY <1>1, <1>2
<1> HIDE DEF G
<1>4. PICK f \in LoopRuns(K, n, h, G) : TRUE
  BY <1>3, LoopExists
<1>5. ASSUME NEW k \in 1 .. n PROVE f[k] = Step(f[k - 1], k - 1)
  <2>1. f[k - 1] \in K[k - 1] /\ k - 1 \in 0 .. n - 1
    BY <1>4 DEF LoopRuns
  <2> QED BY <1>2, <1>4, <2>1 DEF LoopRuns
<1>6. f = F(f)
  BY <1>4, <1>5 DEF LoopRuns
<1>7. run = F(run)
  BY <1>6
<1> HIDE DEF run
<1>8. run[0] = h /\ \A k \in 1 .. n : run[k] = Step(run[k - 1], k - 1)
  BY <1>7
<1>9. \A k \in 1 .. n : run[k - 1] \in K[k - 1] => run[k] \in K[k]
  <2> SUFFICES ASSUME NEW k \in 1 .. n, run[k - 1] \in K[k - 1] PROVE run[k] \in K[k]
    OBVIOUS
  <2>1. k - 1 \in 0 .. n - 1 /\ (k - 1) + 1 = k
    OBVIOUS
  <2> QED BY <1>1, <1>8, <2>1
<1>10. run[n] \in K[n]
  BY <1>8, <1>9, LoopKeeps
<1> QED BY <1>10 DEF Stores, ForBytes, run, Step

(* ... of a literal.                                                       *)
PutLit(k, p, y, c, i) ==
  IF Crashed(k) THEN k ELSE StoreByte(LoadLit(k, tmpOp, i, c[i]), p, y, tmpOp, i)
StoreLits(h, p, y, c, n) == ForBytes(LAMBDA k, i : PutLit(k, p, y, c, i), h, n)

LEMMA StoreLitsReach ==
  ASSUME NEW p, NEW y, NEW c, NEW n \in Nat, NEW K, NEW h \in K[0],
         \A i \in 0 .. n - 1 : \A k \in K[i] : PutLit(k, p, y, c, i) \in K[i + 1]
  PROVE  StoreLits(h, p, y, c, n) \in K[n]
<1> DEFINE Step(k, i) == PutLit(k, p, y, c, i)
           F(f) == [k \in 0 .. n |-> IF k = 0 THEN h ELSE Step(f[k - 1], k - 1)]
           G == [a \in Stages(K, n) \X (0 .. n - 1) |-> Step(a[1], a[2])]
           run == CHOOSE f : f = F(f)
<1>1. \A i \in 0 .. n - 1 : \A k \in K[i] : Step(k, i) \in K[i + 1]
  OBVIOUS
<1> HIDE DEF Step
<1>2. \A i \in 0 .. n - 1 : \A k \in K[i] : G[<<k, i>>] = Step(k, i)
  BY DEF Stages
<1>3. \A i \in 0 .. n - 1 : \A k \in K[i] : G[<<k, i>>] \in K[i + 1]
  BY <1>1, <1>2
<1> HIDE DEF G
<1>4. PICK f \in LoopRuns(K, n, h, G) : TRUE
  BY <1>3, LoopExists
<1>5. ASSUME NEW k \in 1 .. n PROVE f[k] = Step(f[k - 1], k - 1)
  <2>1. f[k - 1] \in K[k - 1] /\ k - 1 \in 0 .. n - 1
    BY <1>4 DEF LoopRuns
  <2> QED BY <1>2, <1>4, <2>1 DEF LoopRuns
<1>6. f = F(f)
  BY <1>4, <1>5 DEF LoopRuns
<1>7. run = F(run)
  BY <1>6
<1> HIDE DEF run
<1>8. run[0] = h /\ \A k \in 1 .. n : run[k] = Step(run[k - 1], k - 1)
  BY <1>7
<1>9. \A k \in 1 .. n : run[k - 1] \in K[k - 1] => run[k] \in K[k]
  <2> SUFFICES ASSUME NEW k \in 1 .. n, run[k - 1] \in K[k - 1] PROVE run[k] \in K[k]
    OBVIOUS
  <2>1. k - 1 \in 0 .. n - 1 /\ (k - 1) + 1 = k
    OBVIOUS
  <2> QED BY <1>1, <1>8, <2>1
<1>10. run[n] \in K[n]
  BY <1>8, <1>9, LoopKeeps
<1> QED BY <1>10 DEF StoreLits, ForBytes, run, Step

(* The compares of a condition.                                            *)
CompareByte(k, x, i) == [Touch(k, x, i) EXCEPT !.carry = 0]
Compares(h, x, n) == ForBytes(LAMBDA k, i : CompareByte(k, x, i), h, n)

LEMMA ComparesReach ==
  ASSUME NEW x, NEW n \in Nat, NEW K, NEW h \in K[0],
         \A i \in 0 .. n - 1 : \A k \in K[i] : CompareByte(k, x, i) \in K[i + 1]
  PROVE  Compares(h, x, n) \in K[n]
<1> DEFINE Step(k, i) == CompareByte(k, x, i)
           F(f) == [k \in 0 .. n |-> IF k = 0 THEN h ELSE Step(f[k - 1], k - 1)]
           G == [a \in Stages(K, n) \X (0 .. n - 1) |-> Step(a[1], a[2])]
           run == CHOOSE f : f = F(f)
<1>1. \A i \in 0 .. n - 1 : \A k \in K[i] : Step(k, i) \in K[i + 1]
  OBVIOUS
<1> HIDE DEF Step
<1>2. \A i \in 0 .. n - 1 : \A k \in K[i] : G[<<k, i>>] = Step(k, i)
  BY DEF Stages
<1>3. \A i \in 0 .. n - 1 : \A k \in K[i] : G[<<k, i>>] \in K[i + 1]
  BY <1>1, <1>2
<1> HIDE DEF G
<1>4. PICK f \in LoopRuns(K, n, h, G) : TRUE
  BY <1>3, LoopExists
<1>5. ASSUME NEW k \in 1 .. n PROVE f[k] = Step(f[k - 1], k - 1)
  <2>1. f[k - 1] \in K[k - 1] /\ k - 1 \in 0 .. n - 1
    BY <1>4 DEF LoopRuns
  <2> QED BY <1>2, <1>4, <2>1 DEF LoopRuns
<1>6. f = F(f)
  BY <1>4, <1>5 DEF LoopRuns
<1>7. run = F(run)
  BY <1>6
<1> HIDE DEF run
<1>8. run[0] = h /\ \A k \in 1 .. n : run[k] = Step(run[k - 1], k - 1)
  BY <1>7
<1>9. \A k \in 1 .. n : run[k - 1] \in K[k - 1] => run[k] \in K[k]
  <2> SUFFICES ASSUME NEW k \in 1 .. n, run[k - 1] \in K[k - 1] PROVE run[k] \in K[k]
    OBVIOUS
  <2>1. k - 1 \in 0 .. n - 1 /\ (k - 1) + 1 = k
    OBVIOUS
  <2> QED BY <1>1, <1>8, <2>1
<1>10. run[n] \in K[n]
  BY <1>8, <1>9, LoopKeeps
<1> QED BY <1>10 DEF Compares, ForBytes, run, Step

LEMMA FetchesKeep ==
  ASSUME NEW D, NEW o, NEW h \in Kept(Values, D, o),
         NEW x \in Syms, NEW t \in Syms, NEW p \in Syms, NEW y,
         NEW n \in 0 .. MaxSize
  PROVE  Fetches(h, x, t, p, y, n) \in Kept(Values, D, o)
<1> DEFINE K == [j \in 0 .. n |-> Kept(Values, D, o)]
<1>1. n \in Nat /\ h \in K[0]
  BY RegsAssumption
<1>2. ASSUME NEW i \in 0 .. n - 1, NEW k \in K[i] PROVE FetchByte(k, x, t, p, y, i) \in K[i + 1]
  <2>1. k \in Kept(Values, D, o) /\ i \in 0 .. MaxSize - 1 /\ K[i + 1] = Kept(Values, D, o)
    BY RegsAssumption
  <2> HIDE DEF K
  <2> QED BY <2>1, FetchByteKeeps
<1> HIDE DEF K
<1>3. Fetches(h, x, t, p, y, n) \in K[n]
  BY <1>1, <1>2, FetchesReach
<1> QED BY <1>1, <1>3 DEF K

LEMMA StoresKeep ==
  ASSUME NEW D, NEW o, NEW h \in Kept(Values, D, o),
         NEW p \in Syms, NEW y, NEW z \in Syms,
         NEW n \in 0 .. MaxSize
  PROVE  Stores(h, p, y, z, n) \in Kept(Values, D, o)
<1> DEFINE K == [j \in 0 .. n |-> Kept(Values, D, o)]
<1>1. n \in Nat /\ h \in K[0]
  BY RegsAssumption
<1>2. ASSUME NEW i \in 0 .. n - 1, NEW k \in K[i] PROVE PutByte(k, p, y, z, i) \in K[i + 1]
  <2>1. k \in Kept(Values, D, o) /\ i \in 0 .. MaxSize - 1 /\ K[i + 1] = Kept(Values, D, o)
    BY RegsAssumption
  <2> HIDE DEF K
  <2> DEFINE m == Touch(k, z, i)
  <2>2. m \in Kept(Values, D, o) /\ m.home[<<z, i>>] \in Regs
    BY <2>1, TouchKeeps
  <2>3. PutByte(k, p, y, z, i) = IF Crashed(k) THEN k ELSE StoreByte(m, p, y, z, i)
    BY DEF PutByte
  <2> HIDE DEF m
  <2>4. StoreByte(m, p, y, z, i) \in Kept(Values, D, o)
    BY <2>1, <2>2, StoreByteKeeps
  <2> QED BY <2>1, <2>3, <2>4
<1> HIDE DEF K
<1>3. Stores(h, p, y, z, n) \in K[n]
  BY <1>1, <1>2, StoresReach
<1> QED BY <1>1, <1>3 DEF K

LEMMA StoreLitsKeep ==
  ASSUME NEW D, NEW o, NEW h \in Kept(Values, D, o),
         NEW p \in Syms, NEW y, NEW c,
         NEW n \in 0 .. MaxSize, \A i \in 0 .. n - 1 : c[i] \in Byte
  PROVE  StoreLits(h, p, y, c, n) \in Kept(Values, D, o)
<1> DEFINE K == [j \in 0 .. n |-> Kept(Values, D, o)]
<1>1. n \in Nat /\ h \in K[0]
  BY RegsAssumption
<1>2. ASSUME NEW i \in 0 .. n - 1, NEW k \in K[i] PROVE PutLit(k, p, y, c, i) \in K[i + 1]
  <2>1. k \in Kept(Values, D, o) /\ i \in 0 .. MaxSize - 1 /\ K[i + 1] = Kept(Values, D, o)
    BY RegsAssumption
  <2> HIDE DEF K
  <2> DEFINE m == LoadLit(k, tmpOp, i, c[i])
  <2>2. c[i] \in Values /\ tmpOp \in Syms
    BY ValuesAre, PtrAssumption
  <2>3. m \in Kept(Values, D, o) /\ m.home[<<tmpOp, i>>] \in Regs
    BY <2>1, <2>2, LoadLitKeeps, LoadLitHome
  <2>4. PutLit(k, p, y, c, i) = IF Crashed(k) THEN k ELSE StoreByte(m, p, y, tmpOp, i)
    BY DEF PutLit
  <2> HIDE DEF m
  <2>5. StoreByte(m, p, y, tmpOp, i) \in Kept(Values, D, o)
    BY <2>1, <2>2, <2>3, StoreByteKeeps
  <2> QED BY <2>1, <2>4, <2>5
<1> HIDE DEF K
<1>3. StoreLits(h, p, y, c, n) \in K[n]
  BY <1>1, <1>2, StoreLitsReach
<1> QED BY <1>1, <1>3 DEF K

LEMMA ComparesKeep ==
  ASSUME NEW D, NEW o, NEW h \in Kept(Values, D, o),
         NEW x \in Syms,
         NEW n \in 0 .. MaxSize
  PROVE  Compares(h, x, n) \in Kept(Values, D, o)
<1> DEFINE K == [j \in 0 .. n |-> Kept(Values, D, o)]
<1>1. n \in Nat /\ h \in K[0]
  BY RegsAssumption
<1>2. ASSUME NEW i \in 0 .. n - 1, NEW k \in K[i] PROVE CompareByte(k, x, i) \in K[i + 1]
  <2>1. k \in Kept(Values, D, o) /\ i \in 0 .. MaxSize - 1 /\ K[i + 1] = Kept(Values, D, o)
    BY RegsAssumption
  <2> HIDE DEF K
  <2> DEFINE m == Touch(k, x, i)
  <2>2. m \in Kept(Values, D, o)
    BY <2>1, TouchKeeps
  <2>3. CompareByte(k, x, i) = [m EXCEPT !.carry = 0]
    BY DEF CompareByte
  <2> HIDE DEF m
  <2>4. CompareByte(k, x, i) \in Kept(Values, D, o)
    BY <2>2, <2>3, CarryKeeps, Zenon
  <2> QED BY <2>1, <2>4
<1> HIDE DEF K
<1>3. Compares(h, x, n) \in K[n]
  BY <1>1, <1>2, ComparesReach
<1> QED BY <1>1, <1>3 DEF K
-----------------------------------------------------------------------------
(* The code of AtAddress, of an assignment through a pointer and of the    *)
(* compares of a condition.                                                *)
LEMMA AtAddressCodeKeeps ==
  ASSUME NEW D, NEW o, NEW h \in Kept(Values, D, o), NEW x \in Syms, NEW t \in Syms,
         NEW p \in Syms, NEW y
  PROVE  AtAddressCode(h, x, t, p, y) \in Kept(Values, D, o)
<1> DEFINE k == Fetches(h, x, t, p, y, SizeOf[x])
           e == Goes(h, p, SizeOf[x])
           m == Hit(k, "pointer not restored", e)
<1>1. AtAddressCode(h, x, t, p, y) = WayBack(m, p, x, SizeOf[x])
  BY DEF AtAddressCode, Fetches, ForBytes
<1>2. SizeOf[x] \in 0 .. MaxSize /\ SizeOf[x] \in Nat
  BY RegsAssumption
<1>3. k \in Kept(Values, D, o)
  BY <1>2, FetchesKeep
<1>4. "pointer not restored" \in Reasons
  BY DEF Reasons
<1> HIDE DEF k, e
<1>5. m \in Kept(Values, D, o)
  BY <1>3, <1>4, MarkKeeps
<1> HIDE DEF m
<1> QED BY <1>1, <1>2, <1>5, WayBackKeeps

LEMMA PointerSetCodeKeeps ==
  ASSUME NEW D, NEW o, NEW h \in Kept(Values, D, o), NEW p \in Syms, NEW y \in Syms, NEW z \in Syms
  PROVE  PointerSetCode(LAMBDA m, i : Touch(m, z, i), h, p, y, z) \in Kept(Values, D, o)
<1> DEFINE k == Stores(h, p, y, z, SizeOf[y])
<1>1. SizeOf[y] \in 0 .. MaxSize /\ SizeOf[y] \in Nat
  BY RegsAssumption
<1>2. k \in Kept(Values, D, o)
  BY <1>1, StoresKeep
<1> HIDE DEF k
<1>3. WayBack(k, p, p, SizeOf[y]) \in Kept(Values, D, o)
  BY <1>1, <1>2, WayBackKeeps
<1> QED BY <1>3 DEF PointerSetCode, k, Stores, PutByte, ForBytes

LEMMA PointerSetLitCodeKeeps ==
  ASSUME NEW D, NEW o, NEW h \in Kept(Values, D, o), NEW p \in Syms, NEW y \in Syms,
         NEW c \in [Bytes(y) -> Byte]
  PROVE  PointerSetCode(LAMBDA m, i : LoadLit(m, tmpOp, i, c[i]), h, p, y, tmpOp)
           \in Kept(Values, D, o)
<1> DEFINE k == StoreLits(h, p, y, c, SizeOf[y])
<1>1. SizeOf[y] \in 0 .. MaxSize /\ SizeOf[y] \in Nat
  BY RegsAssumption
<1>2. \A i \in 0 .. SizeOf[y] - 1 : c[i] \in Byte
  BY DEF Bytes
<1>3. k \in Kept(Values, D, o)
  BY <1>1, <1>2, StoreLitsKeep
<1> HIDE DEF k
<1>4. WayBack(k, p, p, SizeOf[y]) \in Kept(Values, D, o)
  BY <1>1, <1>3, WayBackKeeps
<1> QED BY <1>4 DEF PointerSetCode, k, StoreLits, PutLit, ForBytes

LEMMA ComparedKeeps ==
  ASSUME NEW D, NEW o, NEW h \in Kept(Values, D, o), NEW c \in Syms
  PROVE  Compared(h, c) \in Kept(Values, D, o)
<1>1. Compared(h, c) = Compares(h, c, SizeOf[c])
  BY DEF Compared, Compares, CompareByte, ForBytes
<1>2. SizeOf[c] \in 0 .. MaxSize
  BY RegsAssumption
<1> QED BY <1>1, <1>2, ComparesKeep

(* The iTemp made for a literal has no register when it is made.           *)
LEMMA ForgetKeeps ==
  ASSUME NEW V, NEW D, NEW o, NEW h \in Kept(V, D, o), NEW x, NEW k,
         k = [h EXCEPT !.home = [b \in Places |-> IF b[1] = x THEN None ELSE h.home[b]]]
  PROVE  k \in Kept(V, D, o)
BY DEF Kept, Gens, Framed, OnStack, Apart, Backed, Onward
-----------------------------------------------------------------------------
(* The invariant of a function with pointers and jumps.  Its core is that  *)
(* every register that is the home of a byte names it; the frame and the   *)
(* addresses that the program holds are what that rests on.                *)
Whole == {h \in Gens(Values) : Framed(h) /\ Backed(h, Syms)}
Vals  == [AllBytes -> Values \cup {Junk}]
Nexts == [copy : Syms \X Syms, is : {"assign", "store", "other"}] \cup {None}

(* An address the program holds is one of an object on the stack.          *)
Pointing(v, h) ==
  \A b \in AllBytes : v[b] \in Addresses =>
    \E x \in Syms : h.at[x] # None /\ v[b] = Address(h.at[x])

GenInv ==
  /\ g \in Whole /\ g.seq \in 1 .. MaxSeq + 1
  /\ val \in Vals /\ Pointing(val, g)
  /\ next \in Nexts
LabelInv ==
  /\ GenInv
  /\ placed \subseteq Labels /\ prev \in Syms \cup {None}
  /\ away # None => /\ away \in [to : Labels \ placed, at : Gens(Values), val : Vals]
                    /\ Pointing(away.val, g)

(* No symbol that has cells gets others, and none lives longer.            *)
Stays ==
  /\ g'.liveTo = g.liveTo /\ g'.seq = g.seq + 1
  /\ \A x \in Syms : g.at[x] # None => g'.at[x] = g.at[x]

LEMMA WholeKept == ASSUME g \in Whole PROVE g \in Kept(Values, Syms, g)
BY DEF Whole, Kept, Onward

LEMMA GenerateKeeps ==
  ASSUME GenInv, NEW h \in Kept(Values, Syms, g), Generate(h)
  PROVE  /\ g' \in Whole /\ g'.seq \in 1 .. MaxSeq + 1 /\ Stays
         /\ g'.at = h.at /\ g.seq <= MaxSeq
<1>1. h \in Gens(Values) /\ Framed(h) /\ Backed(h, Syms) /\ Onward(g, h)
  BY DEF Kept
<1>2. g' = [h EXCEPT !.seq = h.seq + 1] /\ g.seq <= MaxSeq
  BY DEF Generate
<1>3. /\ g' \in Gens(Values) /\ g'.seq = h.seq + 1 /\ g'.at = h.at /\ g'.top = h.top
      /\ g'.home = h.home /\ g'.bank = h.bank /\ g'.liveTo = h.liveTo
  BY <1>1, <1>2 DEF Gens
<1>4. Framed(g') /\ Backed(g', Syms)
  BY <1>1, <1>3 DEF Framed, OnStack, Apart, Backed
<1>5. g'.seq \in 1 .. MaxSeq + 1
  BY <1>1, <1>2, <1>3, GenAssumption DEF Onward, GenInv
<1> QED BY <1>1, <1>2, <1>3, <1>4, <1>5 DEF Whole, Onward, Stays

LEMMA StaysPointing ==
  ASSUME Stays, NEW v, Pointing(v, g)
  PROVE  Pointing(v, g')
BY DEF Stays, Pointing

LEMMA ValIn == ASSUME GenInv PROVE val \in Vals /\ Pointing(val, g)
BY DEF GenInv

LEMMA NextIn ==
  ASSUME NEW y \in Syms, NEW t \in Syms
  PROVE  Copy(y, t) \in Nexts /\ Store(y, t) \in Nexts /\ Other(y, t) \in Nexts /\ None \in Nexts
BY DEF Copy, Store, Other, Nexts

(* The value of a symbol is replaced by bytes that the program may hold.   *)
LEMMA ValueKeeps ==
  ASSUME Stays, NEW f \in Vals, Pointing(f, g), NEW x \in Syms, NEW v,
         \A i \in Bytes(x) : /\ v[i] \in Values \cup {Junk}
                             /\ v[i] \in Addresses =>
                                  \E z \in Syms : g'.at[z] # None /\ v[i] = Address(g'.at[z])
  PROVE  Value(f, x, v) \in Vals /\ Pointing(Value(f, x, v), g')
<1> DEFINE w == Value(f, x, v)
<1>1. Pointing(f, g')
  BY StaysPointing
<1>2. w = [b \in AllBytes |-> IF b[1] = x THEN v[b[2]] ELSE f[b]]
  BY DEF Value
<1>3. \A b \in AllBytes : b[1] = x => b[2] \in Bytes(x)
  BY BytesArePlaces
<1>4. \A b \in AllBytes : w[b] \in Values \cup {Junk}
  BY <1>2, <1>3 DEF Vals
<1>5. w \in Vals
  BY <1>2, <1>4 DEF Vals
<1>6. Pointing(w, g')
  BY <1>1, <1>2, <1>3 DEF Pointing
<1> QED BY <1>5, <1>6

(* Bytes are no addresses.                                                 *)
LEMMA BytesPointNowhere == Byte \cap Addresses = {} /\ Junk \notin Addresses /\ 0 \in Byte
<1>1. Cells \subseteq Nat /\ RADIX \in Nat \ {0} /\ Junk \notin Nat
  BY AllBytesFinite, RegsAssumption DEF Cells
<1>2. \A a \in Addresses : \E k \in Nat : a = RADIX + k
  BY <1>1 DEF Addresses
<1>3. \A a \in Addresses : a \in Nat /\ a >= RADIX
  BY <1>1, <1>2
<1>4. \A b \in Byte : b < RADIX
  BY <1>1 DEF Byte
<1>5. 0 \in Byte
  BY <1>1 DEF Byte
<1>6. Byte \cap Addresses = {}
  BY <1>1, <1>3, <1>4 DEF Byte
<1> QED BY <1>1, <1>3, <1>5, <1>6

(* What is lost is no address.                                             *)
LEMMA LostIn ==
  ASSUME GenInv, NEW t \in Syms
  PROVE  Lost(t) \in Vals /\ Pointing(Lost(t), g)
<1> DEFINE w == Lost(t)
<1>1. w = [b \in AllBytes |-> IF b[1] = t THEN Junk ELSE val[b]]
  BY BytesArePlaces DEF Lost, Value
<1>2. Junk \notin Addresses
  BY BytesPointNowhere
<1> HIDE DEF w
<1>3. w \in Vals
  BY <1>1 DEF Vals, GenInv
<1>4. Pointing(w, g)
  BY <1>1, <1>2 DEF Pointing, GenInv
<1> QED BY <1>3, <1>4 DEF w

(* The carries p of an operation on n bytes, of which its meaning consists.*)
Chain(op, n, a, b, p) ==
  /\ p[0] = 0 /\ \A i \in 0 .. n : p[i] \in {0, 1}
  /\ \A i \in 1 .. n : p[i] = Carry(op, a[i - 1], b[i - 1], IF op \in Arith THEN p[i - 1] ELSE 0)
  /\ Meaning(op, n, a, b) = [i \in 0 .. n - 1 |-> Result(op, a[i], b[i], p[i])]

LEMMA MeaningChain ==
  ASSUME NEW op \in Ops, NEW n \in Nat, NEW a, NEW b,
         \A i \in 0 .. n - 1 : a[i] \in Byte /\ b[i] \in Byte
  PROVE  \E p : Chain(op, n, a, b, p)
<1> DEFINE Step(k, i) == Carry(op, a[i], b[i], IF op \in Arith THEN k ELSE 0)
           F(f) == [i \in 0 .. n |-> IF i = 0 THEN 0 ELSE Step(f[i - 1], i - 1)]
           K == [j \in 0 .. n |-> {0, 1}]
           G == [u \in Stages(K, n) \X (0 .. n - 1) |-> Step(u[1], u[2])]
           p == CHOOSE f : f = F(f)
<1>0. Byte \in SUBSET Nat
  BY RegsAssumption DEF Byte
<1>1. ASSUME NEW i \in 0 .. n - 1, NEW k \in K[i] PROVE Step(k, i) \in K[i + 1]
  <2>1. (IF op \in Arith THEN k ELSE 0) \in {0, 1}
    OBVIOUS
  <2>2. a[i] \in Byte \cup {Junk} /\ b[i] \in Byte \cup {Junk}
    OBVIOUS
  <2>3. Step(k, i) \in {0, 1}
    BY <1>0, <2>1, <2>2, ResultIn
  <2> QED BY <2>3
<1>m. Meaning(op, n, a, b) = [i \in 0 .. n - 1 |-> Result(op, a[i], b[i], p[i])]
  BY DEF Meaning
<1> HIDE DEF Step
<1>k. 0 \in K[0]
  OBVIOUS
<1> HIDE DEF K
<1>2. \A i \in 0 .. n - 1 : \A k \in K[i] : G[<<k, i>>] = Step(k, i)
  BY DEF Stages
<1>3. \A i \in 0 .. n - 1 : \A k \in K[i] : G[<<k, i>>] \in K[i + 1]
  BY <1>1, <1>2
<1> HIDE DEF G
<1>4. PICK f \in LoopRuns(K, n, 0, G) : TRUE
  BY <1>3, <1>k, LoopExists
<1>5. ASSUME NEW k \in 1 .. n PROVE f[k] = Step(f[k - 1], k - 1)
  <2>1. f[k - 1] \in K[k - 1] /\ k - 1 \in 0 .. n - 1
    BY <1>4 DEF LoopRuns
  <2> QED BY <1>2, <1>4, <2>1 DEF LoopRuns
<1>6. f = F(f)
  BY <1>4, <1>5 DEF LoopRuns
<1>7. p = F(p)
  BY <1>6
<1> HIDE DEF p
<1>8. p[0] = 0 /\ \A k \in 1 .. n : p[k] = Step(p[k - 1], k - 1)
  BY <1>7
<1>9. \A m \in 0 .. n : p[m] \in {0, 1}
  <2> SUFFICES ASSUME NEW m \in 0 .. n PROVE p[m] \in {0, 1}
    OBVIOUS
  <2>1. \A k \in 1 .. m : p[k - 1] \in K[k - 1] => p[k] \in K[k]
    <3> SUFFICES ASSUME NEW k \in 1 .. m, p[k - 1] \in K[k - 1] PROVE p[k] \in K[k]
      OBVIOUS
    <3>1. k - 1 \in 0 .. n - 1 /\ (k - 1) + 1 = k /\ k \in 1 .. n
      OBVIOUS
    <3> QED BY <1>1, <1>8, <3>1
  <2>2. p[0] \in K[0] /\ m \in Nat
    BY <1>8, <1>k
  <2>3. p[m] \in K[m]
    BY <2>1, <2>2, LoopKeeps
  <2> QED BY <2>3 DEF K
<1>10. \A i \in 1 .. n : p[i] = Carry(op, a[i - 1], b[i - 1], IF op \in Arith THEN p[i - 1] ELSE 0)
  <2> SUFFICES ASSUME NEW i \in 1 .. n
               PROVE  p[i] = Carry(op, a[i - 1], b[i - 1], IF op \in Arith THEN p[i - 1] ELSE 0)
    OBVIOUS
  <2>1. p[i] = Step(p[i - 1], i - 1)
    BY <1>8
  <2> QED BY <2>1 DEF Step
<1>11. Chain(op, n, a, b, p)
  BY <1>8, <1>9, <1>10, <1>m DEF Chain
<1> QED BY <1>11

(* What an operation means is bytes.                                       *)
LEMMA MeaningIn ==
  ASSUME NEW op \in Ops, NEW n \in Nat, NEW a, NEW b,
         \A i \in 0 .. n - 1 : a[i] \in Byte /\ b[i] \in Byte
  PROVE  \A i \in 0 .. n - 1 : Meaning(op, n, a, b)[i] \in Byte \cup {Junk}
<1>1. PICK c : Chain(op, n, a, b, c)
  BY MeaningChain
<1>2. Byte \in SUBSET Nat
  BY RegsAssumption DEF Byte
<1> SUFFICES ASSUME NEW i \in 0 .. n - 1 PROVE Meaning(op, n, a, b)[i] \in Byte \cup {Junk}
  OBVIOUS
<1>3. c[i] \in {0, 1} /\ Meaning(op, n, a, b)[i] = Result(op, a[i], b[i], c[i])
  BY <1>1 DEF Chain
<1>4. a[i] \in Byte \cup {Junk} /\ b[i] \in Byte \cup {Junk}
  OBVIOUS
<1>5. Result(op, a[i], b[i], c[i]) \in Byte \cup {Junk}
  BY <1>2, <1>3, <1>4, ResultIn
<1> QED BY <1>3, <1>5
-----------------------------------------------------------------------------
(* One lemma for each action.                                              *)
StepKeeps == /\ g' \in Whole /\ g'.seq \in 1 .. MaxSeq + 1 /\ Stays
             /\ val' \in Vals /\ Pointing(val', g')

(* What a symbol holds may be assigned to another.                         *)
LEMMA BytesOfIn ==
  ASSUME GenInv, Stays, NEW y \in Syms, NEW i \in Bytes(y)
  PROVE  /\ BytesOf(y)[i] = val[<<y, i>>] /\ BytesOf(y)[i] \in Values \cup {Junk}
         /\ BytesOf(y)[i] \in Addresses =>
              \E z \in Syms : g'.at[z] # None /\ BytesOf(y)[i] = Address(g'.at[z])
<1>1. <<y, i>> \in AllBytes
  BY BytesArePlaces
<1>2. Pointing(val, g')
  BY StaysPointing DEF GenInv
<1> QED BY <1>1, <1>2 DEF BytesOf, GenInv, Vals, Pointing

LEMMA AssignKeeps ==
  ASSUME GenInv, NEW x \in Syms, NEW y \in Syms, Assign(x, y)
  PROVE  StepKeeps
<1> DEFINE h == AssignCode(g, x, y)
<1>1. g \in Kept(Values, Syms, g)
  BY WholeKept DEF GenInv
<1>2. h \in Kept(Values, Syms, g)
  <2>1. y \in Syms \cap Syms
    OBVIOUS
  <2> QED BY <1>1, <2>1, AssignCodeKeeps, ValuesAre
<1>3. Generate(h) /\ val' = Value(val, x, BytesOf(y)) /\ SizeOf[x] = SizeOf[y]
  BY DEF Assign
<1> HIDE DEF h
<1>4. g' \in Whole /\ g'.seq \in 1 .. MaxSeq + 1 /\ Stays
  BY <1>2, <1>3, GenerateKeeps
<1>5. Bytes(x) = Bytes(y)
  BY <1>3 DEF Bytes
<1> QED BY <1>3, <1>4, <1>5, BytesOfIn, ValIn, ValueKeeps DEF StepKeeps

LEMMA CastKeeps ==
  ASSUME GenInv, NEW x \in Syms, NEW y \in Syms, Cast(x, y)
  PROVE  StepKeeps
<1> DEFINE h == CastCode(g, x, y)
           v == [i \in Bytes(x) |-> IF i \in Bytes(y) THEN val[<<y, i>>] ELSE 0]
<1>1. g \in Kept(Values, Syms, g)
  BY WholeKept DEF GenInv
<1>2. h \in Kept(Values, Syms, g)
  <2>1. y \in Syms \cap Syms
    OBVIOUS
  <2> QED BY <1>1, <2>1, CastCodeKeeps, ValuesAre
<1>3. Generate(h) /\ val' = Value(val, x, v)
  BY DEF Cast
<1> HIDE DEF h
<1>4. g' \in Whole /\ g'.seq \in 1 .. MaxSeq + 1 /\ Stays
  BY <1>2, <1>3, GenerateKeeps
<1>5. 0 \in Values \cup {Junk} /\ 0 \notin Addresses
  BY BytesPointNowhere, ValuesAre
<1>6. \A i \in Bytes(x) :
        /\ v[i] \in Values \cup {Junk}
        /\ v[i] \in Addresses => \E z \in Syms : g'.at[z] # None /\ v[i] = Address(g'.at[z])
  <2> SUFFICES ASSUME NEW i \in Bytes(x)
               PROVE  /\ v[i] \in Values \cup {Junk}
                      /\ v[i] \in Addresses =>
                           \E z \in Syms : g'.at[z] # None /\ v[i] = Address(g'.at[z])
    OBVIOUS
  <2>1. CASE i \in Bytes(y)
    <3>1. v[i] = BytesOf(y)[i]
      BY <2>1 DEF BytesOf
    <3> HIDE DEF v
    <3>2. /\ BytesOf(y)[i] \in Values \cup {Junk}
          /\ BytesOf(y)[i] \in Addresses =>
               \E z \in Syms : g'.at[z] # None /\ BytesOf(y)[i] = Address(g'.at[z])
      BY <1>4, <2>1, BytesOfIn
    <3> QED BY <3>1, <3>2
  <2>2. CASE i \notin Bytes(y)
    <3>1. v[i] = 0
      BY <2>2
    <3> HIDE DEF v
    <3> QED BY <1>5, <3>1
  <2> QED BY <2>1, <2>2
<1> HIDE DEF v
<1>7. Value(val, x, v) \in Vals /\ Pointing(Value(val, x, v), g')
  BY <1>4, <1>6, ValIn, ValueKeeps
<1> QED BY <1>3, <1>4, <1>7 DEF StepKeeps

(* What a literal or an operation gives is no address.                     *)
LEMMA NumbersKeep ==
  ASSUME Stays, NEW f \in Vals, Pointing(f, g),
         NEW x \in Syms, NEW v, \A i \in Bytes(x) : v[i] \in Byte \cup {Junk}
  PROVE  Value(f, x, v) \in Vals /\ Pointing(Value(f, x, v), g')
<1>1. \A i \in Bytes(x) : v[i] \in Values \cup {Junk} /\ v[i] \notin Addresses
  BY BytesPointNowhere, ValuesAre
<1> QED BY <1>1, ValueKeeps

LEMMA AssignLitKeeps ==
  ASSUME GenInv, NEW x \in Syms, NEW c \in Literals(x), AssignLit(x, c)
  PROVE  StepKeeps
<1> DEFINE h == LoadLits(g, x, c, SizeOf[x])
<1>1. g \in Kept(Values, Syms, g)
  BY WholeKept DEF GenInv
<1>2. c \in [Bytes(x) -> Byte]
  BY GenAssumption
<1>3. h \in Kept(Values, Syms, g)
  <2>1. \A i \in 0 .. SizeOf[x] - 1 : c[i] \in Values
    BY <1>2, ValuesAre DEF Bytes
  <2>2. SizeOf[x] \in 0 .. MaxSize
    BY RegsAssumption
  <2> QED BY <1>1, <2>1, <2>2, LoadLitsKeep, ValuesAre
<1>4. Generate(h) /\ val' = Value(val, x, c)
  BY DEF AssignLit, LoadLits, ForBytes
<1> HIDE DEF h
<1>5. g' \in Whole /\ g'.seq \in 1 .. MaxSeq + 1 /\ Stays
  BY <1>3, <1>4, GenerateKeeps
<1>6. \A i \in Bytes(x) : c[i] \in Byte \cup {Junk}
  BY <1>2
<1>7. Value(val, x, c) \in Vals /\ Pointing(Value(val, x, c), g')
  BY <1>5, <1>6, ValIn, NumbersKeep
<1> QED BY <1>4, <1>5, <1>7 DEF StepKeeps
(* The bytes of a number are bytes, and so are those of a result.          *)
LEMMA NumberIn ==
  ASSUME NEW y \in Syms, Number(y)
  PROVE  \A i \in Bytes(y) : BytesOf(y)[i] \in Byte
BY DEF Number, BytesOf

LEMMA ResultKeeps ==
  ASSUME Stays, NEW f \in Vals, Pointing(f, g),
         NEW op \in Ops, NEW x \in Syms, NEW y \in Syms, SizeOf[x] = SizeOf[y],
         NEW a, NEW b, \A i \in Bytes(y) : a[i] \in Byte /\ b[i] \in Byte,
         NEW v, v = Meaning(op, SizeOf[y], a, b)
  PROVE  Value(f, x, v) \in Vals /\ Pointing(Value(f, x, v), g')
<1>1. SizeOf[y] \in Nat
  BY RegsAssumption
<1>2. \A i \in 0 .. SizeOf[y] - 1 : a[i] \in Byte /\ b[i] \in Byte
  BY DEF Bytes
<1>3. \A i \in 0 .. SizeOf[y] - 1 : v[i] \in Byte \cup {Junk}
  BY <1>1, <1>2, MeaningIn
<1>4. \A i \in Bytes(x) : v[i] \in Byte \cup {Junk}
  BY <1>3 DEF Bytes
<1> QED BY <1>4, NumbersKeep

LEMMA OperationKeeps ==
  ASSUME GenInv, NEW op \in Ops, NEW x \in Syms, NEW y \in Syms, NEW z \in Syms,
         Operation(op, x, y, z)
  PROVE  StepKeeps
<1> DEFINE h == IF x = y THEN g ELSE LeftCode(g, x, y)
           H == h.hit \cup {"same operand"}
           m == IF x # y /\ (x = z \/ (y = z /\ Dying(g, y))) THEN [h EXCEPT !.hit = H] ELSE h
           k == Operates(m, op, x, z, SizeOf[y])
           v == Meaning(op, SizeOf[y], BytesOf(y), BytesOf(z))
<1>1. g \in Kept(Values, Syms, g)
  BY WholeKept DEF GenInv
<1>2. /\ Generate(k) /\ val' = Value(val, x, v)
      /\ SizeOf[x] = SizeOf[y] /\ SizeOf[y] = SizeOf[z] /\ Number(y) /\ Number(z)
  BY DEF Operation, Operates, ForBytes
<1>3. h \in Kept(Values, Syms, g)
  <2>1. y \in Syms \cap Syms
    OBVIOUS
  <2> QED BY <1>1, <2>1, LeftCodeKeeps, ValuesAre
<1> HIDE DEF h
<1>4. H \in Noted
  BY <1>3 DEF Kept, Gens, Noted, Reasons
<1> HIDE DEF H
<1>5. m \in Kept(Values, Syms, g)
  <2>1. [h EXCEPT !.hit = H] \in Kept(Values, Syms, g)
    BY <1>3, <1>4, HitKeeps, Zenon
  <2> QED BY <1>3, <2>1
<1> HIDE DEF m
<1>6. k \in Kept(Values, Syms, g)
  <2>1. SizeOf[y] \in 0 .. MaxSize
    BY RegsAssumption
  <2> QED BY <1>5, <2>1, OperatesKeep, ValuesAre
<1> HIDE DEF k
<1>7. g' \in Whole /\ g'.seq \in 1 .. MaxSeq + 1 /\ Stays
  BY <1>2, <1>6, GenerateKeeps
<1>8. \A i \in Bytes(y) : BytesOf(y)[i] \in Byte /\ BytesOf(z)[i] \in Byte
  BY <1>2, NumberIn DEF Bytes
<1>9. Value(val, x, v) \in Vals /\ Pointing(Value(val, x, v), g')
  BY <1>2, <1>7, <1>8, ValIn, ResultKeeps
<1> QED BY <1>2, <1>7, <1>9 DEF StepKeeps

LEMMA OperationLitKeeps ==
  ASSUME GenInv, NEW op \in Ops, NEW x \in Syms, NEW y \in Syms, NEW c \in Literals(y),
         OperationLit(op, x, y, c)
  PROVE  StepKeeps
<1> DEFINE h == IF x = y THEN g ELSE LeftCode(g, x, y)
           k == OperateLits(h, op, x, c, SizeOf[y])
           v == Meaning(op, SizeOf[y], BytesOf(y), c)
<1>1. g \in Kept(Values, Syms, g)
  BY WholeKept DEF GenInv
<1>2. /\ Generate(k) /\ val' = Value(val, x, v) /\ SizeOf[x] = SizeOf[y] /\ Number(y)
  BY DEF OperationLit, OperateLits, ForBytes
<1>3. h \in Kept(Values, Syms, g)
  <2>1. y \in Syms \cap Syms
    OBVIOUS
  <2> QED BY <1>1, <2>1, LeftCodeKeeps, ValuesAre
<1> HIDE DEF h
<1>4. c \in [Bytes(y) -> Byte]
  BY GenAssumption
<1>5. k \in Kept(Values, Syms, g)
  <2>1. SizeOf[y] \in 0 .. MaxSize
    BY RegsAssumption
  <2>2. \A i \in 0 .. SizeOf[y] - 1 : c[i] \in Values
    BY <1>4, ValuesAre DEF Bytes
  <2> QED BY <1>3, <2>1, <2>2, OperateLitsKeep, ValuesAre
<1> HIDE DEF k
<1>6. g' \in Whole /\ g'.seq \in 1 .. MaxSeq + 1 /\ Stays
  BY <1>2, <1>5, GenerateKeeps
<1>7. \A i \in Bytes(y) : BytesOf(y)[i] \in Byte /\ c[i] \in Byte
  BY <1>2, <1>4, NumberIn
<1>8. Value(val, x, v) \in Vals /\ Pointing(Value(val, x, v), g')
  BY <1>2, <1>6, <1>7, ValIn, ResultKeeps
<1> QED BY <1>2, <1>6, <1>8 DEF StepKeeps

LEMMA LitOperationKeeps ==
  ASSUME GenInv, NEW op \in Ops, NEW x \in Syms, NEW z \in Syms, NEW c \in Literals(z),
         LitOperation(op, x, c, z)
  PROVE  StepKeeps
<1> DEFINE h == LoadLits(g, x, c, SizeOf[x])
           H == h.hit \cup {"same operand"}
           m == IF x = z THEN [h EXCEPT !.hit = H] ELSE h
           k == Operates(m, op, x, z, SizeOf[x])
           v == Meaning(op, SizeOf[x], c, BytesOf(z))
<1>1. g \in Kept(Values, Syms, g) /\ SizeOf[x] \in 0 .. MaxSize
  BY WholeKept, RegsAssumption DEF GenInv
<1>2. Generate(k) /\ val' = Value(val, x, v) /\ SizeOf[x] = SizeOf[z] /\ Number(z)
  BY DEF LitOperation, Operates, LoadLits, ForBytes
<1>3. c \in [Bytes(z) -> Byte] /\ Bytes(x) = Bytes(z)
  BY <1>2, GenAssumption DEF Bytes
<1>4. h \in Kept(Values, Syms, g)
  <2>1. \A i \in 0 .. SizeOf[x] - 1 : c[i] \in Values
    BY <1>3, ValuesAre DEF Bytes
  <2> QED BY <1>1, <2>1, LoadLitsKeep, ValuesAre
<1> HIDE DEF h
<1>5. H \in Noted
  BY <1>4 DEF Kept, Gens, Noted, Reasons
<1> HIDE DEF H
<1>6. m \in Kept(Values, Syms, g)
  <2>1. [h EXCEPT !.hit = H] \in Kept(Values, Syms, g)
    BY <1>4, <1>5, HitKeeps, Zenon
  <2> QED BY <1>4, <2>1
<1> HIDE DEF m
<1>7. k \in Kept(Values, Syms, g)
  BY <1>1, <1>6, OperatesKeep, ValuesAre
<1> HIDE DEF k
<1>8. g' \in Whole /\ g'.seq \in 1 .. MaxSeq + 1 /\ Stays
  BY <1>2, <1>7, GenerateKeeps
<1>9. \A i \in Bytes(x) : c[i] \in Byte /\ BytesOf(z)[i] \in Byte
  BY <1>2, <1>3, NumberIn
<1>10. Value(val, x, v) \in Vals /\ Pointing(Value(val, x, v), g')
  BY <1>8, <1>9, ValIn, ResultKeeps
<1> QED BY <1>2, <1>8, <1>10 DEF StepKeeps

LEMMA OperationBackKeeps ==
  ASSUME GenInv, NEW op \in Ops, NEW t \in Syms, NEW y \in Syms, NEW z \in Syms,
         OperationBack(op, t, y, z)
  PROVE  StepKeeps
<1> DEFINE k == Operates(g, op, y, z, SizeOf[y])
           v == Meaning(op, SizeOf[y], BytesOf(y), BytesOf(z))
<1>1. g \in Kept(Values, Syms, g)
  BY WholeKept DEF GenInv
<1>2. /\ Generate(k) /\ val' = Value(Lost(t), y, v) /\ SizeOf[y] = SizeOf[z]
      /\ Number(y) /\ Number(z)
  BY DEF OperationBack, Operates, ForBytes, Back
<1>3. k \in Kept(Values, Syms, g)
  <2>1. SizeOf[y] \in 0 .. MaxSize
    BY RegsAssumption
  <2> QED BY <1>1, <2>1, OperatesKeep, ValuesAre
<1> HIDE DEF k
<1>4. g' \in Whole /\ g'.seq \in 1 .. MaxSeq + 1 /\ Stays
  BY <1>2, <1>3, GenerateKeeps
<1>5. \A i \in Bytes(y) : BytesOf(y)[i] \in Byte /\ BytesOf(z)[i] \in Byte
  BY <1>2, NumberIn DEF Bytes
<1>6. Value(Lost(t), y, v) \in Vals /\ Pointing(Value(Lost(t), y, v), g')
  BY <1>4, <1>5, LostIn, ResultKeeps
<1> QED BY <1>2, <1>4, <1>6 DEF StepKeeps

LEMMA OperationLitBackKeeps ==
  ASSUME GenInv, NEW op \in Ops, NEW t \in Syms, NEW y \in Syms, NEW c \in Literals(y),
         OperationLitBack(op, t, y, c)
  PROVE  StepKeeps
<1> DEFINE k == OperateLits(g, op, y, c, SizeOf[y])
           v == Meaning(op, SizeOf[y], BytesOf(y), c)
<1>1. g \in Kept(Values, Syms, g)
  BY WholeKept DEF GenInv
<1>2. Generate(k) /\ val' = Value(Lost(t), y, v) /\ Number(y)
  BY DEF OperationLitBack, OperateLits, ForBytes, Back
<1>3. c \in [Bytes(y) -> Byte]
  BY GenAssumption
<1>4. k \in Kept(Values, Syms, g)
  <2>1. SizeOf[y] \in 0 .. MaxSize
    BY RegsAssumption
  <2>2. \A i \in 0 .. SizeOf[y] - 1 : c[i] \in Values
    BY <1>3, ValuesAre DEF Bytes
  <2> QED BY <1>1, <2>1, <2>2, OperateLitsKeep, ValuesAre
<1> HIDE DEF k
<1>5. g' \in Whole /\ g'.seq \in 1 .. MaxSeq + 1 /\ Stays
  BY <1>2, <1>4, GenerateKeeps
<1>6. \A i \in Bytes(y) : BytesOf(y)[i] \in Byte /\ c[i] \in Byte
  BY <1>2, <1>3, NumberIn
<1>7. Value(Lost(t), y, v) \in Vals /\ Pointing(Value(Lost(t), y, v), g')
  BY <1>5, <1>6, LostIn, ResultKeeps
<1> QED BY <1>2, <1>5, <1>7 DEF StepKeeps

LEMMA AssignBackKeeps ==
  ASSUME GenInv, NEW x \in Syms, NEW t \in Syms, AssignBack(x, t)
  PROVE  StepKeeps
<1> DEFINE k == CopyCode(g, x, t)
<1>1. g \in Kept(Values, Syms, g)
  BY WholeKept DEF GenInv
<1>2. Generate(k) /\ val' = val
  BY DEF AssignBack
<1>3. k \in Kept(Values, Syms, g)
  BY <1>1, CopyCodeKeeps, ValuesAre
<1> HIDE DEF k
<1>4. g' \in Whole /\ g'.seq \in 1 .. MaxSeq + 1 /\ Stays
  BY <1>2, <1>3, GenerateKeeps
<1> QED BY <1>2, <1>4, StaysPointing DEF StepKeeps, GenInv

(* A pointer points to a symbol.                                           *)
LEMMA TargetIn ==
  ASSUME GenInv, NEW p \in Syms, Pointer(p)
  PROVE  Target(p) \in Syms
<1>1. <<p, 0>> \in AllBytes
  BY BytesArePlaces DEF Pointer, Bytes
<1>2. \E x \in Syms : val[<<p, 0>>] = Address(g.at[x])
  BY <1>1 DEF GenInv, Pointing, Pointer
<1> QED BY <1>2 DEF Target

LEMMA AddressOfKeeps ==
  ASSUME GenInv, NEW p \in Syms, NEW x \in Syms, AddressOf(p, x)
  PROVE  StepKeeps
<1> DEFINE h == loadAddress(g, p, x)
           v == [i \in {0} |-> Address(h.at[x])]
<1>1. g \in Kept(Values, Syms, g)
  BY WholeKept DEF GenInv
<1>2. Generate(h) /\ val' = Value(val, p, v) /\ SizeOf[p] = 1
  BY DEF AddressOf
<1>3. h \in Kept(Values, Syms, g) /\ h.at[x] # None
  BY <1>1, LoadAddressKeeps
<1> HIDE DEF h
<1>4. g' \in Whole /\ g'.seq \in 1 .. MaxSeq + 1 /\ Stays /\ g'.at = h.at
  BY <1>2, <1>3, GenerateKeeps
<1>5. \A i \in Bytes(p) : v[i] = Address(h.at[x])
  BY <1>2 DEF Bytes
<1>6. Address(h.at[x]) \in Values \cup {Junk}
  <2>1. h.at[x] \in Int
    BY <1>3, AllBytesFinite, RegsAssumption DEF Kept, Gens, Cells
  <2> QED BY <2>1, ValuesAre
<1> HIDE DEF v
<1>7. Value(val, p, v) \in Vals /\ Pointing(Value(val, p, v), g')
  BY <1>3, <1>4, <1>5, <1>6, ValIn, ValueKeeps
<1> QED BY <1>2, <1>4, <1>7 DEF StepKeeps

LEMMA CopiedKeeps ==
  ASSUME GenInv, NEW h \in Kept(Values, Syms, g), Generate(h),
         NEW f \in Vals, Pointing(f, g), NEW x \in Syms, NEW y \in Syms, SizeOf[x] = SizeOf[y],
         val' = Value(f, x, BytesOf(y))
  PROVE  StepKeeps
<1>1. g' \in Whole /\ g'.seq \in 1 .. MaxSeq + 1 /\ Stays
  BY GenerateKeeps
<1>2. Bytes(x) = Bytes(y)
  BY DEF Bytes
<1> DEFINE v == BytesOf(y)
<1>3. \A i \in Bytes(x) : /\ v[i] \in Values \cup {Junk}
                          /\ v[i] \in Addresses =>
                               \E z \in Syms : g'.at[z] # None /\ v[i] = Address(g'.at[z])
  BY <1>1, <1>2, BytesOfIn
<1>4. val' = Value(f, x, v)
  OBVIOUS
<1> HIDE DEF v
<1>5. Value(f, x, v) \in Vals /\ Pointing(Value(f, x, v), g')
  BY <1>1, <1>3, ValueKeeps
<1> QED BY <1>1, <1>4, <1>5 DEF StepKeeps

LEMMA AtAddressKeeps ==
  ASSUME GenInv, NEW x \in Syms, NEW p \in Syms, AtAddress(x, p)
  PROVE  StepKeeps
<1> DEFINE y == Target(p)
           h == AtAddressCode(g, x, x, p, y)
<1>1. Pointer(p) /\ SizeOf[x] = SizeOf[y] /\ Generate(h) /\ val' = Value(val, x, BytesOf(y))
  BY DEF AtAddress
<1>2. g \in Kept(Values, Syms, g) /\ y \in Syms
  BY <1>1, WholeKept, TargetIn DEF GenInv
<1>3. h \in Kept(Values, Syms, g)
  BY <1>2, AtAddressCodeKeeps
<1> HIDE DEF h, y
<1> QED BY <1>1, <1>2, <1>3, ValIn, CopiedKeeps

LEMMA AtAddressBackKeeps ==
  ASSUME GenInv, NEW x \in Syms, NEW t \in Syms, NEW p \in Syms, AtAddressBack(x, t, p)
  PROVE  StepKeeps
<1> DEFINE y == Target(p)
           h == AtAddressCode(g, x, t, p, y)
<1>1. /\ Pointer(p) /\ SizeOf[x] = SizeOf[y]
      /\ Generate(h) /\ val' = Value(Lost(t), x, BytesOf(y))
  BY DEF AtAddressBack
<1>2. g \in Kept(Values, Syms, g) /\ y \in Syms
  BY <1>1, WholeKept, TargetIn DEF GenInv
<1>3. h \in Kept(Values, Syms, g)
  BY <1>2, AtAddressCodeKeeps
<1> HIDE DEF h, y
<1> QED BY <1>1, <1>2, <1>3, LostIn, CopiedKeeps

LEMMA AtAddressStoreKeeps ==
  ASSUME GenInv, NEW x \in Syms, NEW t \in Syms, NEW p \in Syms, AtAddressStore(x, t, p)
  PROVE  StepKeeps
<1> DEFINE y == Target(p)
           z == Target(x)
           k == AtAddressCode(g, x, t, p, y)
           h == Hit(k, "pointer lost", TRUE)
<1>1. /\ Pointer(p) /\ Pointer(x) /\ SizeOf[t] = SizeOf[y] /\ SizeOf[z] = SizeOf[y]
      /\ Generate(h) /\ val' = Value(Lost(t), z, BytesOf(y))
  BY DEF AtAddressStore
<1>2. g \in Kept(Values, Syms, g) /\ y \in Syms /\ z \in Syms
  BY <1>1, WholeKept, TargetIn DEF GenInv
<1>3. k \in Kept(Values, Syms, g)
  BY <1>2, AtAddressCodeKeeps
<1>4. "pointer lost" \in Reasons
  BY DEF Reasons
<1> HIDE DEF k, y, z
<1>5. h \in Kept(Values, Syms, g)
  BY <1>3, <1>4, MarkKeeps
<1> HIDE DEF h
<1> QED BY <1>1, <1>2, <1>5, LostIn, CopiedKeeps

LEMMA PointerSetKeeps ==
  ASSUME GenInv, NEW p \in Syms, NEW z \in Syms, PointerSet(p, z)
  PROVE  StepKeeps
<1> DEFINE y == Target(p)
           k == Stores(g, p, y, z, SizeOf[y])
           h == WayBack(k, p, p, SizeOf[y])
<1>1. /\ Pointer(p) /\ SizeOf[z] = SizeOf[y]
      /\ Generate(h) /\ val' = Value(val, y, BytesOf(z))
  BY DEF PointerSet, PointerSetCode, Stores, PutByte, ForBytes
<1>2. g \in Kept(Values, Syms, g) /\ y \in Syms
  BY <1>1, WholeKept, TargetIn DEF GenInv
<1> HIDE DEF y
<1>3. SizeOf[y] \in 0 .. MaxSize /\ SizeOf[y] \in Nat
  BY <1>2, RegsAssumption
<1>4. k \in Kept(Values, Syms, g)
  BY <1>2, <1>3, StoresKeep
<1> HIDE DEF k
<1>5. h \in Kept(Values, Syms, g)
  BY <1>3, <1>4, WayBackKeeps
<1> HIDE DEF h
<1>6. g' \in Whole /\ g'.seq \in 1 .. MaxSeq + 1 /\ Stays
  BY <1>1, <1>5, GenerateKeeps
<1>7. Bytes(y) = Bytes(z)
  BY <1>1 DEF Bytes
<1>8. \A i \in Bytes(y) :
        /\ BytesOf(z)[i] \in Values \cup {Junk}
        /\ BytesOf(z)[i] \in Addresses =>
             \E q \in Syms : g'.at[q] # None /\ BytesOf(z)[i] = Address(g'.at[q])
  BY <1>6, <1>7, BytesOfIn
<1>9. Value(val, y, BytesOf(z)) \in Vals /\ Pointing(Value(val, y, BytesOf(z)), g')
  BY <1>2, <1>6, <1>8, ValIn, ValueKeeps
<1> QED BY <1>1, <1>6, <1>9 DEF StepKeeps

LEMMA PointerSetBackKeeps ==
  ASSUME GenInv, NEW p \in Syms, NEW z \in Syms, PointerSetBack(p, z)
  PROVE  StepKeeps
<1> DEFINE h == PointerSetCode(LAMBDA m, i : Touch(m, z, i), g, p, z, z)
<1>1. Generate(h) /\ val' = val
  BY DEF PointerSetBack
<1>2. g \in Kept(Values, Syms, g)
  BY WholeKept DEF GenInv
<1>3. h \in Kept(Values, Syms, g)
  BY <1>2, PointerSetCodeKeeps
<1> HIDE DEF h
<1>4. g' \in Whole /\ g'.seq \in 1 .. MaxSeq + 1 /\ Stays
  BY <1>1, <1>3, GenerateKeeps
<1> QED BY <1>1, <1>4, StaysPointing DEF StepKeeps, GenInv

LEMMA PointerSetLitKeeps ==
  ASSUME GenInv, NEW p \in Syms, NEW z \in Syms, NEW c \in Literals(z), PointerSetLit(p, c)
  PROVE  StepKeeps
<1> DEFINE y == Target(p)
           h == [g EXCEPT !.home = [b \in Places |-> IF b[1] = tmpOp THEN None ELSE g.home[b]]]
           k == StoreLits(h, p, y, c, SizeOf[y])
           m == WayBack(k, p, p, SizeOf[y])
<1>1. /\ Pointer(p) /\ DOMAIN c = Bytes(y)
      /\ Generate(m) /\ val' = Value(val, y, c)
  BY DEF PointerSetLit, PointerSetCode, StoreLits, PutLit, ForBytes
<1>2. g \in Kept(Values, Syms, g) /\ y \in Syms
  BY <1>1, WholeKept, TargetIn DEF GenInv
<1> HIDE DEF y
<1>3. SizeOf[y] \in 0 .. MaxSize /\ SizeOf[y] \in Nat
  BY <1>2, RegsAssumption
<1>4. h \in Kept(Values, Syms, g)
  BY <1>2, ForgetKeeps
<1> HIDE DEF h
<1>5. \A i \in Bytes(y) : c[i] \in Byte
  <2>1. c \in [Bytes(z) -> Byte]
    BY GenAssumption
  <2> QED BY <1>1, <2>1
<1>6. k \in Kept(Values, Syms, g)
  <2>1. \A i \in 0 .. SizeOf[y] - 1 : c[i] \in Byte
    BY <1>5 DEF Bytes
  <2> QED BY <1>2, <1>3, <1>4, <2>1, StoreLitsKeep
<1> HIDE DEF k
<1>7. m \in Kept(Values, Syms, g)
  BY <1>2, <1>3, <1>6, WayBackKeeps
<1> HIDE DEF m
<1>8. g' \in Whole /\ g'.seq \in 1 .. MaxSeq + 1 /\ Stays
  BY <1>1, <1>7, GenerateKeeps
<1>9. Value(val, y, c) \in Vals /\ Pointing(Value(val, y, c), g')
  BY <1>2, <1>5, <1>8, ValIn, NumbersKeep
<1> QED BY <1>1, <1>8, <1>9 DEF StepKeeps

LEMMA InstructionKeeps ==
  ASSUME GenInv, NEW x \in Syms, Instruction(x)
  PROVE  StepKeeps /\ next' \in Nexts
<1>1. ASSUME NEW y \in Syms, Assign(x, y) PROVE StepKeeps /\ next' \in Nexts
  BY <1>1, AssignKeeps, NextIn DEF Assign
<1>2. ASSUME NEW y \in Syms, AssignBack(x, y) PROVE StepKeeps /\ next' \in Nexts
  BY <1>2, AssignBackKeeps, NextIn DEF AssignBack
<1>3. ASSUME NEW y \in Syms, Cast(x, y) PROVE StepKeeps /\ next' \in Nexts
  BY <1>3, CastKeeps, NextIn DEF Cast
<1>4. ASSUME NEW c \in Literals(x), AssignLit(x, c) PROVE StepKeeps /\ next' \in Nexts
  <2>1. next' \in Nexts
    BY <1>4, NextIn DEF AssignLit
  <2> QED BY <1>4, <2>1, AssignLitKeeps
<1>5. ASSUME NEW op \in Ops, NEW y \in Syms, NEW z \in Syms, Operation(op, x, y, z)
      PROVE  StepKeeps /\ next' \in Nexts
  <2>1. next' \in Nexts
    BY <1>5, NextIn DEF Operation, Ahead
  <2> QED BY <1>5, <2>1, OperationKeeps
<1>6. ASSUME NEW op \in Ops, NEW y \in Syms, NEW z \in Syms, OperationBack(op, x, y, z)
      PROVE  StepKeeps /\ next' \in Nexts
  <2>1. next' \in Nexts
    BY <1>6, NextIn DEF OperationBack, Back
  <2> QED BY <1>6, <2>1, OperationBackKeeps
<1>7. ASSUME NEW op \in Ops, NEW y \in Syms, NEW c \in Literals(y), OperationLit(op, x, y, c)
      PROVE  StepKeeps /\ next' \in Nexts
  <2>1. next' \in Nexts
    BY <1>7, NextIn DEF OperationLit, Ahead
  <2> QED BY <1>7, <2>1, OperationLitKeeps
<1>8. ASSUME NEW op \in Ops, NEW y \in Syms, NEW c \in Literals(y), OperationLitBack(op, x, y, c)
      PROVE  StepKeeps /\ next' \in Nexts
  <2>1. next' \in Nexts
    BY <1>8, NextIn DEF OperationLitBack, Back
  <2> QED BY <1>8, <2>1, OperationLitBackKeeps
<1>9. ASSUME NEW op \in Ops, NEW y \in Syms, NEW c \in Literals(y), LitOperation(op, x, c, y)
      PROVE  StepKeeps /\ next' \in Nexts
  <2>1. next' \in Nexts
    BY <1>9, NextIn DEF LitOperation
  <2> QED BY <1>9, <2>1, LitOperationKeeps
<1> QED BY <1>1, <1>2, <1>3, <1>4, <1>5, <1>6, <1>7, <1>8, <1>9 DEF Instruction

LEMMA PtrInstructionKeeps ==
  ASSUME GenInv, NEW x \in Syms, PtrInstruction(x)
  PROVE  StepKeeps /\ next' \in Nexts
<1>1. ASSUME NEW y \in Syms, AddressOf(x, y) PROVE StepKeeps /\ next' \in Nexts
  BY <1>1, AddressOfKeeps, NextIn DEF AddressOf
<1>2. ASSUME NEW p \in Syms, AtAddress(x, p) PROVE StepKeeps /\ next' \in Nexts
  BY <1>2, AtAddressKeeps, NextIn DEF AtAddress
<1>3. ASSUME NEW y \in Syms, PointerSet(x, y) PROVE StepKeeps /\ next' \in Nexts
  BY <1>3, PointerSetKeeps, NextIn DEF PointerSet
<1>4. ASSUME NEW y \in Syms, PointerSetBack(x, y) PROVE StepKeeps /\ next' \in Nexts
  BY <1>4, PointerSetBackKeeps, NextIn DEF PointerSetBack
<1>5. ASSUME NEW y \in Syms, NEW c \in Literals(y), PointerSetLit(x, c)
      PROVE  StepKeeps /\ next' \in Nexts
  <2>1. next' \in Nexts
    BY <1>5, NextIn DEF PointerSetLit
  <2> QED BY <1>5, <2>1, PointerSetLitKeeps
<1>6. ASSUME NEW y \in Syms, NEW p \in Syms, AtAddressBack(y, x, p)
      PROVE  StepKeeps /\ next' \in Nexts
  BY <1>6, AtAddressBackKeeps, NextIn DEF AtAddressBack
<1>7. ASSUME NEW y \in Syms, NEW p \in Syms, AtAddressStore(y, x, p)
      PROVE  StepKeeps /\ next' \in Nexts
  BY <1>7, AtAddressStoreKeeps, NextIn DEF AtAddressStore
<1> QED BY <1>1, <1>2, <1>3, <1>4, <1>5, <1>6, <1>7, InstructionKeeps DEF PtrInstruction
-----------------------------------------------------------------------------
(* Jumps.                                                                  *)
LEMMA GenerateSame ==
  ASSUME GenInv, Generate(g), UNCHANGED val
  PROVE  StepKeeps
<1>1. g \in Kept(Values, Syms, g)
  BY WholeKept DEF GenInv
<1>2. g' \in Whole /\ g'.seq \in 1 .. MaxSeq + 1 /\ Stays
  BY <1>1, GenerateKeeps
<1> QED BY <1>2, StaysPointing DEF StepKeeps, GenInv

LEMMA BranchKeeps ==
  ASSUME LabelInv, NEW h \in Kept(Values, Syms, g), NEW c \in Syms, NEW l \in Labels,
         NEW taken, Branch(h, c, l, taken)
  PROVE  LabelInv'
<1> DEFINE k == Load(h, c, c, 0)
<1>1. /\ Generate(k) /\ JumpTo(l, h, taken) /\ l \notin placed
      /\ next' = None /\ prev' = None /\ UNCHANGED <<val, placed>>
  BY DEF Branch
<1>2. GenInv
  BY DEF LabelInv
<1>3. k \in Kept(Values, Syms, g)
  <2>1. 0 \in 0 .. MaxSize - 1
    BY RegsAssumption
  <2> QED BY <2>1, LoadKeeps
<1> HIDE DEF k
<1>4. g' \in Whole /\ g'.seq \in 1 .. MaxSeq + 1 /\ Stays
  BY <1>1, <1>2, <1>3, GenerateKeeps
<1>5. GenInv'
  BY <1>1, <1>2, <1>4, StaysPointing, NextIn DEF GenInv, Nexts
<1>6. away' = away \/ away' = [to |-> l, at |-> h, val |-> val]
  BY <1>1 DEF JumpTo
<1>7. h \in Gens(Values)
  BY DEF Kept
<1>8. away' = away => (away # None => Pointing(away.val, g'))
  BY <1>4, StaysPointing DEF LabelInv
<1>9. Pointing(val, g')
  BY <1>1, <1>5 DEF GenInv
<1> QED BY <1>1, <1>2, <1>5, <1>6, <1>7, <1>8, <1>9 DEF LabelInv, GenInv

LEMMA IfxKeeps ==
  ASSUME LabelInv, NEW c \in Syms, NEW l \in Labels, NEW onTrue \in BOOLEAN,
         Ifx(c, l, onTrue) \/ IfxOnFlags(c, l, onTrue)
  PROVE  LabelInv'
<1>1. g \in Kept(Values, Syms, g)
  BY WholeKept DEF LabelInv, GenInv
<1>2. Compared(g, c) \in Kept(Values, Syms, g)
  BY <1>1, ComparedKeeps
<1>3. ASSUME NEW when PROVE Hit(g, "flags differ", when) \in Kept(Values, Syms, g)
  <2>1. "flags differ" \in Reasons
    BY DEF Reasons
  <2> QED BY <1>1, <2>1, MarkKeeps
<1>4. CASE Ifx(c, l, onTrue)
  BY <1>2, <1>4, BranchKeeps DEF Ifx
<1>5. CASE IfxOnFlags(c, l, onTrue)
  <2>1. PICK taken \in BOOLEAN : Branch(Hit(g, "flags differ", taken # Holds(c, onTrue)), c, l, taken)
    BY <1>5 DEF IfxOnFlags
  <2> QED BY <1>3, <2>1, BranchKeeps
<1> QED BY <1>4, <1>5

LEMMA GoToKeeps ==
  ASSUME LabelInv, NEW l \in Labels, GoTo(l)
  PROVE  LabelInv'
<1>1. /\ Generate(g) /\ JumpTo(l, g, TRUE) /\ l \notin placed
      /\ next' = None /\ prev' = None /\ UNCHANGED <<val, placed>>
  BY DEF GoTo
<1>2. GenInv
  BY DEF LabelInv
<1>3. StepKeeps
  BY <1>1, <1>2, GenerateSame
<1>4. GenInv'
  BY <1>1, <1>2, <1>3 DEF StepKeeps, GenInv, Nexts
<1>5. away' = away \/ away' = [to |-> l, at |-> g, val |-> val]
  BY <1>1 DEF JumpTo
<1>6. g \in Gens(Values)
  BY <1>2 DEF GenInv, Whole
<1>7. away # None => Pointing(away.val, g')
  BY <1>3, StaysPointing DEF LabelInv, StepKeeps
<1>8. Pointing(val, g')
  BY <1>1, <1>3 DEF StepKeeps
<1> QED BY <1>1, <1>2, <1>4, <1>5, <1>6, <1>7, <1>8 DEF LabelInv, GenInv

(* The machine comes back with its registers and its frame.                *)
LEMMA ArrivesKeeps ==
  ASSUME g \in Whole, NEW h \in Gens(Values)
  PROVE  Arrives(h) \in Kept(Values, Syms, g)
<1> DEFINE a == [g EXCEPT !.reg = h.reg]
           b == [a EXCEPT !.ram = h.ram]
           c == [b EXCEPT !.carry = h.carry]
           d == [c EXCEPT !.hit = h.hit]
           e == HomesDiffer(h)
           f == g.offset # h.offset
           k == Hit(d, "homes differ", e)
<1>1. Arrives(h) = Hit(k, "sF differs", f)
  BY DEF Arrives
<1>2. a \in Kept(Values, Syms, g)
  BY DEF Whole, Kept, Gens, Framed, OnStack, Apart, Backed, Onward
<1>3. b \in Kept(Values, Syms, g)
  <2> HIDE DEF a
  <2> QED BY <1>2 DEF Kept, Gens, Framed, OnStack, Apart, Backed, Onward
<1>4. h.carry \in {0, 1} /\ h.hit \in Noted
  BY DEF Gens
<1>5. c \in Kept(Values, Syms, g)
  <2> HIDE DEF b
  <2> QED BY <1>3, <1>4, CarryKeeps, Zenon
<1>6. d \in Kept(Values, Syms, g)
  <2> HIDE DEF c
  <2> QED BY <1>4, <1>5, HitKeeps, Zenon
<1>7. "homes differ" \in Reasons /\ "sF differs" \in Reasons
  BY DEF Reasons
<1> HIDE DEF d, e, f
<1>8. k \in Kept(Values, Syms, g)
  BY <1>6, <1>7, MarkKeeps
<1> HIDE DEF k
<1> QED BY <1>1, <1>7, <1>8, MarkKeeps

LEMMA LabelKeeps ==
  ASSUME LabelInv, NEW l \in Labels, Label(l)
  PROVE  LabelInv'
<1>1. /\ GenInv /\ next' = None /\ prev' = None
      /\ l \notin placed /\ placed' = placed \cup {l}
  BY DEF LabelInv, Label
<1>2. CASE away # None /\ away.to = l
  <2> DEFINE h == Arrives(away.at)
  <2>1. Generate(h) /\ val' = away.val /\ away' = None
    BY <1>2 DEF Label
  <2>2. away.at \in Gens(Values) /\ away.val \in Vals /\ Pointing(away.val, g)
    BY <1>2 DEF LabelInv
  <2>3. h \in Kept(Values, Syms, g)
    BY <1>1, <2>2, ArrivesKeeps DEF GenInv
  <2> HIDE DEF h
  <2>4. g' \in Whole /\ g'.seq \in 1 .. MaxSeq + 1 /\ Stays
    BY <1>1, <2>1, <2>3, GenerateKeeps
  <2>5. Pointing(val', g')
    BY <2>1, <2>2, <2>4, StaysPointing
  <2>6. GenInv'
    BY <1>1, <2>1, <2>2, <2>4, <2>5 DEF GenInv, Nexts
  <2> QED BY <1>1, <2>1, <2>6 DEF LabelInv
<1>3. CASE ~(away # None /\ away.to = l)
  <2>1. Generate(g) /\ UNCHANGED <<val, away>>
    BY <1>3 DEF Label
  <2>2. StepKeeps
    BY <1>1, <2>1, GenerateSame
  <2>3. GenInv'
    BY <1>1, <2>1, <2>2 DEF StepKeeps, GenInv, Nexts
  <2>4. away # None => Pointing(away.val, g')
    BY <2>2, StaysPointing DEF LabelInv, StepKeeps
  <2>5. away # None => away \in [to : Labels \ placed', at : Gens(Values), val : Vals]
    BY <1>1, <1>3 DEF LabelInv
  <2> QED BY <1>1, <2>1, <2>3, <2>4, <2>5 DEF LabelInv
<1> QED BY <1>2, <1>3

LEMMA LabelInvInit == LabelInit => LabelInv
<1> SUFFICES ASSUME LabelInit PROVE LabelInv
  OBVIOUS
<1>1. PICK live \in [Syms -> Ends] : g = Fresh([live EXCEPT ![tmpOp] = 0], 0)
  BY DEF LabelInit, PtrInit
<1> DEFINE L == [live EXCEPT ![tmpOp] = 0]
<1>2. L \in [Syms -> Nat]
  BY GenAssumption
<1> HIDE DEF L
<1>3. g = Fresh(L, 0)
  BY <1>1 DEF L
<1>4. 0 \in Cells /\ 0 \in 0 .. REG_CNT - 2 /\ {} \in Noted
  BY AllBytesFinite, RegsAssumption DEF Cells, Noted
<1>5. g \in Gens(Values)
  BY <1>2, <1>3, <1>4 DEF Fresh, Gens
<1>6. g.top = 0 /\ (\A x \in Syms : g.at[x] = None) /\ (\A b \in Places : g.home[b] = None) /\ g.seq = 1
  BY <1>3 DEF Fresh
<1>7. OnStack(g) = {}
  BY <1>6, BytesArePlaces DEF OnStack
<1>8. Framed(g) /\ Backed(g, Syms)
  BY <1>6, <1>7, FS_EmptySet DEF Framed, Apart, Backed
<1>9. val \in Vals /\ Pointing(val, g)
  BY BytesPointNowhere DEF LabelInit, PtrInit, Vals, Pointing
<1>10. g.seq \in 1 .. MaxSeq + 1
  BY <1>6, GenAssumption
<1> QED BY <1>5, <1>8, <1>9, <1>10 DEF LabelInit, PtrInit, LabelInv, GenInv, Whole, Nexts

LEMMA LabelInvStep == LabelInv /\ [LabelNext]_labelVars => LabelInv'
<1> SUFFICES ASSUME LabelInv, [LabelNext]_labelVars PROVE LabelInv'
  OBVIOUS
<1>1. CASE UNCHANGED labelVars
  BY <1>1 DEF labelVars, LabelInv, GenInv, Whole, Pointing
<1>2. ASSUME NEW x \in Syms, PtrInstruction(x), prev' = x, UNCHANGED <<placed, away>>
      PROVE  LabelInv'
  <2>1. StepKeeps /\ next' \in Nexts
    BY <1>2, PtrInstructionKeeps DEF LabelInv
  <2>2. GenInv'
    BY <2>1 DEF StepKeeps, GenInv
  <2>3. away # None => Pointing(away.val, g')
    BY <2>1, StaysPointing DEF LabelInv, StepKeeps
  <2> QED BY <1>2, <2>2, <2>3 DEF LabelInv
<1>3. CASE \E c \in Syms, l \in Labels, onTrue \in BOOLEAN :
             Ifx(c, l, onTrue) \/ IfxOnFlags(c, l, onTrue)
  BY <1>3, IfxKeeps
<1>4. CASE \E l \in Labels : GoTo(l) \/ Label(l)
  BY <1>4, GoToKeeps, LabelKeeps
<1> QED BY <1>1, <1>2, <1>3, <1>4 DEF LabelNext
-----------------------------------------------------------------------------
(* The generator keeps the invariant whatever function it is given, with   *)
(* pointers, jumps and operations of any size: gen.cc, ralloc.cc.          *)
THEOREM LabelsInvariant == LabelSpec => []LabelInv
<1>1. LabelInit => LabelInv
  BY LabelInvInit
<1>2. LabelInv /\ [LabelNext]_labelVars => LabelInv'
  BY LabelInvStep
<1> QED BY <1>1, <1>2, PTL DEF LabelSpec

(* The reserved cells never exceed the bytes of the symbols (Stack), the   *)
(* registers and the frame hold bytes, addresses or nothing.               *)
THEOREM LabelsTyped == LabelSpec => []LabelTypeOK
<1>1. ASSUME LabelInv PROVE LabelTypeOK
  <2>1. g \in Gens(Values) /\ Framed(g) /\ GenInv
    BY <1>1 DEF LabelInv, GenInv, Whole
  <2>2. g.top <= Cardinality(AllBytes) /\ g.top \in Nat
    <3>1. OnStack(g) \subseteq AllBytes
      BY DEF OnStack
    <3> QED BY <2>1, <3>1, AllBytesFinite, FS_Subset DEF Framed, Gens
  <2>3. g.top \in Cells
    BY <2>2, AllBytesFinite, RegsAssumption DEF Cells
  <2>4. TypeOver(Values)
    BY <2>1, <2>3 DEF TypeOver, GenInv, Gens, Vals, Nexts
  <2>5. away # None => away.to \in Labels \ placed
    BY <1>1 DEF LabelInv
  <2> QED BY <1>1, <2>4, <2>5 DEF LabelTypeOK, LabelInv, Values
<1> QED BY <1>1, LabelsInvariant, PTL

(* Register::clear may rely on the name a register has: a register that is *)
(* the home of a byte names that byte, after every handler, spill, reload  *)
(* and renaming (ralloc.cc, Bank and Register).                            *)
THEOREM HomesAlwaysBacked == LabelSpec => []HomesBacked
<1>1. LabelInv => HomesBacked
  BY BytesArePlaces DEF LabelInv, GenInv, Whole, Backed, HomesBacked
<1> QED BY <1>1, LabelsInvariant, PTL

(* No register is ever the home of two bytes (Symbol::regs).               *)
THEOREM HomesAlwaysExclusive == LabelSpec => []HomesExclusive
<1>1. HomesBacked => HomesExclusive
  BY DEF HomesBacked, HomesExclusive
<1> QED BY <1>1, HomesAlwaysBacked, PTL
=============================================================================
