-------------------------- MODULE PbMachineProofs --------------------------
(***************************************************************************)
(* Proofs about what the port prints, as the machine executes it.          *)
(*                                                                         *)
(* The software stack: for every set of symbols, every size of the         *)
(* scratchpad and every place a frame may begin.                           *)
(*                                                                         *)
(* The shift loops: for bytes of every radix, operands of every size and   *)
(* every count.  After t turns the result stands for the operand shifted   *)
(* t times (Result); inside a turn the bytes already shifted stand for     *)
(* twice, or half, of what they were, up to the carry (Partly).            *)
(***************************************************************************)
EXTENDS PbStack, PbShift, ModLemmas

(* A caller moves sF itself only when it is not the main function and its  *)
(* callee takes arguments on the stack: these are the programs without.    *)
CallerKeepsSP == StackSizes = {0} \/ Modes = {TRUE}

(* No function takes arguments on the stack.                               *)
NoStackArgs == StackSizes = {0}

Has(m, top, x) == \E k \in 0 .. top - 1 : m[k].oper = x
Cell           == [oper : Vars \cup {NoVar}, index : Nat]

-----------------------------------------------------------------------------
(* The pointer arithmetic.                                                 *)

LEMMA WrapIn == ASSUME NEW a \in Int PROVE Wrap(a) \in Cells
BY VarsAssumption, ModRange DEF VarsAssumption, Wrap, Cells

LEMMA WrapAdd ==
  ASSUME NEW a \in Int, NEW b \in Int PROVE Wrap(Wrap(a) + b) = Wrap(a + b)
BY VarsAssumption, ModAdd DEF VarsAssumption, Wrap

LEMMA WrapInjective ==
  ASSUME NEW a \in Int, NEW k \in Cells, NEW l \in Cells,
         Wrap(a + k) = Wrap(a + l)
  PROVE  k = l
BY VarsAssumption, ModInjective DEF VarsAssumption, Wrap, Cells

LEMMA WrapCell == ASSUME NEW a \in Cells PROVE Wrap(a) = a
<1>1. a \in Int /\ a = MEMORY_SIZE * 0 + a /\ a \in 0 .. MEMORY_SIZE - 1
  BY VarsAssumption DEF VarsAssumption, Cells
<1> QED BY <1>1, VarsAssumption, ModUnique DEF VarsAssumption, Wrap

(* What a spill or a reload adds to sF takes it from where the compiler    *)
(* believes it is to where the compiler wants it.                          *)
LEMMA WrapMove ==
  ASSUME NEW b \in Int, NEW o \in Int, NEW t \in Int
  PROVE  Wrap(Wrap(b + o) + (t - o)) = Wrap(b + t)
<1>1. b + o \in Int /\ t - o \in Int /\ (b + o) + (t - o) = b + t
  OBVIOUS
<1> QED BY <1>1, WrapAdd

-----------------------------------------------------------------------------
(* Looking for a variable on the stack.                                    *)

LEMMA FirstOfFinds ==
  ASSUME NEW top \in Nat, NEW m, NEW x, Has(m, top, x)
  PROVE  /\ FirstOf(m, top, x) \in 0 .. top - 1
         /\ m[FirstOf(m, top, x)].oper = x
         /\ \A j \in 0 .. FirstOf(m, top, x) - 1 : m[j].oper # x
<1> DEFINE S == {k \in 0 .. top - 1 : m[k].oper = x}
<1>1. S \in SUBSET Nat /\ S # {}
  BY DEF Has
<1>2. PICK k \in S : \A j \in S : k <= j
  BY <1>1, LeastExists
<1>3. /\ k \in 0 .. top - 1
      /\ m[k].oper = x
      /\ \A j \in 0 .. k - 1 : m[j].oper # x
  BY <1>2
<1> QED BY <1>3 DEF FirstOf

LEMMA FirstOfUnique ==
  ASSUME NEW top \in Nat, NEW m, NEW x, NEW k \in 0 .. top - 1,
         m[k].oper = x, \A j \in 0 .. k - 1 : m[j].oper # x
  PROVE  Has(m, top, x) /\ FirstOf(m, top, x) = k
<1>1. Has(m, top, x)
  BY DEF Has
<1>2. /\ FirstOf(m, top, x) \in 0 .. top - 1
      /\ m[FirstOf(m, top, x)].oper = x
      /\ \A j \in 0 .. FirstOf(m, top, x) - 1 : m[j].oper # x
  BY <1>1, FirstOfFinds
<1> QED BY <1>1, <1>2

(* The owners after a block was reserved on top for x.                     *)
Extended(m, top, x, m2) ==
  \A k \in Cells : m2[k] = IF k - top \in Bytes(x)
                           THEN [oper |-> x, index |-> k - top]
                           ELSE m[k]

(* Reserving a block on top for a variable that has none: the variable is  *)
(* found at the old top and every other variable where it was.             *)
LEMMA ReserveFinds ==
  ASSUME NEW m \in [Cells -> Cell], NEW top \in 0 .. MEMORY_SIZE,
         NEW x \in Vars, ~ Has(m, top, x), top + SizeOf[x] <= MEMORY_SIZE,
         NEW m2, Extended(m, top, x, m2)
  PROVE  /\ Has(m2, top + SizeOf[x], x)
         /\ FirstOf(m2, top + SizeOf[x], x) = top
         /\ \A y \in Vars \ {x} :
              /\ Has(m2, top + SizeOf[x], y) <=> Has(m, top, y)
              /\ Has(m, top, y) => FirstOf(m2, top + SizeOf[x], y)
                                     = FirstOf(m, top, y)
<1> DEFINE t == top + SizeOf[x]
<1>1. /\ MEMORY_SIZE \in Nat /\ top \in Nat /\ SizeOf[x] \in Nat \ {0}
      /\ t \in Nat /\ top < t /\ t <= MEMORY_SIZE
  BY VarsAssumption DEF VarsAssumption
<1>2. \A k \in 0 .. top - 1 : m2[k] = m[k]
  <2> TAKE k \in 0 .. top - 1
  <2>1. k \in Cells /\ k - top \notin Bytes(x)
    BY <1>1 DEF Cells, Bytes
  <2> QED BY <2>1 DEF Extended
<1>3. \A k \in top .. t - 1 : m2[k].oper = x
  <2> TAKE k \in top .. t - 1
  <2>1. k \in Cells /\ k - top \in Bytes(x)
    BY <1>1 DEF Cells, Bytes
  <2>2. m2[k] = [oper |-> x, index |-> k - top]
    BY <2>1 DEF Extended
  <2> QED BY <2>2
<1>4. top \in 0 .. t - 1 /\ m2[top].oper = x
  BY <1>1, <1>3
<1>5. \A j \in 0 .. top - 1 : m2[j].oper # x
  BY <1>2 DEF Has
<1>6. Has(m2, t, x) /\ FirstOf(m2, t, x) = top
  BY <1>1, <1>4, <1>5, FirstOfUnique
<1>7. ASSUME NEW y \in Vars \ {x}
      PROVE  /\ Has(m2, t, y) <=> Has(m, top, y)
             /\ Has(m, top, y) => FirstOf(m2, t, y) = FirstOf(m, top, y)
  <2>1. Has(m2, t, y) => Has(m, top, y)
    BY <1>1, <1>2, <1>3 DEF Has
  <2>2. ASSUME Has(m, top, y)
        PROVE  Has(m2, t, y) /\ FirstOf(m2, t, y) = FirstOf(m, top, y)
    <3> DEFINE f == FirstOf(m, top, y)
    <3>1. f \in 0 .. top - 1 /\ m[f].oper = y /\ \A j \in 0 .. f - 1 : m[j].oper # y
      BY <1>1, <2>2, FirstOfFinds
    <3> HIDE DEF f
    <3>2. f \in 0 .. t - 1 /\ m2[f].oper = y /\ \A j \in 0 .. f - 1 : m2[j].oper # y
      BY <1>1, <1>2, <3>1
    <3>3. Has(m2, t, y) /\ FirstOf(m2, t, y) = f
      BY <1>1, <3>2, FirstOfUnique
    <3> QED BY <3>3 DEF f
  <2> QED BY <2>1, <2>2
<1> QED BY <1>6, <1>7
-----------------------------------------------------------------------------
(* Type correctness.                                                       *)

LEMMA ReservedType ==
  ASSUME TypeOK, NEW x \in Vars
  PROVE  /\ Reserved(x) \in [Cells -> Cell]
         /\ \A k \in Cells : Reserved(x)[k] = IF k - lastValue \in Bytes(x)
                                              THEN [oper |-> x, index |-> k - lastValue]
                                              ELSE mem[k]
<1>1. \A k \in Cells : mem[k] \in Cell
  BY DEF TypeOK, Cell
<1>2. \A k \in Cells : k - lastValue \in Bytes(x) =>
                          [oper |-> x, index |-> k - lastValue] \in Cell
  BY DEF Cell, Bytes
<1> QED BY <1>1, <1>2 DEF Reserved

LEMMA FoundIn ==
  ASSUME TypeOK, NEW x \in Vars, contains(x)
  PROVE  /\ Found(x) \in 0 .. lastValue - 1
         /\ mem[Found(x)].oper = x
<1>1. lastValue \in Nat /\ Has(mem, lastValue, x)
  BY DEF TypeOK, contains, Has
<1> QED BY <1>1, FirstOfFinds DEF Found

LEMMA SizeNat == \A x \in Vars : SizeOf[x] \in Nat \ {0} /\ Bytes(x) \subseteq Nat
BY VarsAssumption DEF VarsAssumption, Bytes

LEMMA MoveType == ASSUME TypeOK, NEW d \in Int PROVE Wrap(sp + d) \in Cells
<1>1. sp + d \in Int
  BY VarsAssumption DEF VarsAssumption, TypeOK, Cells
<1> QED BY <1>1, WrapIn

LEMMA InitType == Init => TypeOK
<1> SUFFICES ASSUME Init PROVE TypeOK
  OBVIOUS
<1> USE VarsAssumption DEF VarsAssumption, Init
<1>1. mem \in [Cells -> [oper : Vars \cup {NoVar}, index : Nat]]
  OBVIOUS
<1>2. base \in Cells /\ sp \in Cells
  BY DEF Cells
<1>3. ram \in [Cells -> Values \cup {Junk}] /\ saved \in [AllBytes -> Values \cup {Junk}]
  BY DEF Unspilled
<1>4. isMain \in BOOLEAN /\ active \in BOOLEAN
  OBVIOUS
<1> QED BY <1>1, <1>2, <1>3, <1>4 DEF TypeOK

(* A reload of what is not on the stack changes nothing.                   *)
LEMMA FetchAway ==
  \A x \in Vars : \A c \in Bytes(x) : fetchVariable(x, c) /\ ~contains(x) => UNCHANGED vars
BY DEF fetchVariable, vars

LEMMA NextType == TypeOK /\ [Next]_vars => TypeOK'
<1> SUFFICES ASSUME TypeOK, [Next]_vars PROVE TypeOK'
  OBVIOUS
<1>s. MEMORY_SIZE \in Nat \ {0}
  BY VarsAssumption DEF VarsAssumption
<1>1. ASSUME NEW h \in StackSizes, NEW main \in Modes, NEW b \in Bases,
             functionStart(h, main, b)
      PROVE  TypeOK'
  <2>1. h \in 0 .. MEMORY_SIZE /\ main \in BOOLEAN /\ b \in Cells
    BY VarsAssumption DEF VarsAssumption, Cells
  <2>2. sp' \in Cells
    BY <1>1, <2>1, WrapIn DEF functionStart, Cells
  <2>3. ram' \in [Cells -> Values \cup {Junk}] /\ saved' \in [AllBytes -> Values \cup {Junk}]
    BY <1>1 DEF functionStart, Unspilled
  <2> QED BY <1>1, <2>1, <2>2, <2>3 DEF functionStart, TypeOK
<1>2. ASSUME NEW x \in Vars, NEW c \in Bytes(x), NEW v \in Values,
             pushKnown(x, c, v)
      PROVE  TypeOK'
  <2>1. Found(x) \in Int /\ c \in Int
    BY <1>2, <1>s, FoundIn, SizeNat DEF pushKnown, TypeOK
  <2> DEFINE d == Found(x) - offset + c
  <2>d. d \in Int /\ offset + d \in Int
    BY <2>1 DEF TypeOK
  <2>2. sp' \in Cells /\ offset' \in Int
    BY <1>2, <2>d, MoveType DEF pushKnown
  <2>3. ram' \in [Cells -> Values \cup {Junk}] /\ saved' \in [AllBytes -> Values \cup {Junk}]
    BY <1>2, <2>2 DEF pushKnown, TypeOK
  <2> QED BY <1>2, <2>2, <2>3 DEF pushKnown, TypeOK
<1>3. ASSUME NEW x \in Vars, NEW c \in Bytes(x), NEW v \in Values,
             pushNew(x, c, v)
      PROVE  TypeOK'
  <2>1. c \in Int /\ SizeOf[x] \in Nat
    BY SizeNat
  <2> DEFINE d == lastValue - offset + c
  <2>d. d \in Int /\ offset + d \in Int
    BY <2>1, <1>s DEF TypeOK
  <2>2. sp' \in Cells /\ offset' \in Int
    BY <1>3, <2>d, MoveType DEF pushNew
  <2>3. ram' \in [Cells -> Values \cup {Junk}] /\ saved' \in [AllBytes -> Values \cup {Junk}]
    BY <1>3, <2>2 DEF pushNew, TypeOK
  <2>4. mem' \in [Cells -> [oper : Vars \cup {NoVar}, index : Nat]]
    BY <1>3, ReservedType DEF pushNew, Cell
  <2>5. lastValue' \in 0 .. MEMORY_SIZE
    BY <1>3, <2>1 DEF pushNew, TypeOK, Fits
  <2> QED BY <1>3, <2>2, <2>3, <2>4, <2>5 DEF pushNew, TypeOK
<1>4. ASSUME NEW x \in Vars, NEW c \in Bytes(x), fetchVariable(x, c), contains(x)
      PROVE  TypeOK'
  <2>1. Found(x) \in Int /\ c \in Int
    BY <1>4, <1>s, FoundIn, SizeNat DEF fetchVariable, TypeOK
  <2> DEFINE d == Found(x) - offset + c
  <2>d. d \in Int /\ offset + d \in Int
    BY <2>1 DEF TypeOK
  <2>2. sp' \in Cells /\ offset' \in Int
    BY <1>4, <2>d, MoveType DEF fetchVariable
  <2> QED BY <1>4, <2>2 DEF fetchVariable, TypeOK
<1>5. ASSUME NEW x \in Vars, loadAddress(x)
      PROVE  TypeOK'
  <2>1. SizeOf[x] \in Nat
    BY SizeNat
  <2>2. mem' \in [Cells -> [oper : Vars \cup {NoVar}, index : Nat]]
    BY <1>5, ReservedType DEF loadAddress, Cell
  <2>3. lastValue' \in 0 .. MEMORY_SIZE
    BY <1>5, <2>1 DEF loadAddress, TypeOK, Fits
  <2> QED BY <1>5, <2>2, <2>3 DEF loadAddress, TypeOK
<1>6. ASSUME NEW h \in StackSizes, preCall(h)
      PROVE  TypeOK'
  <2>1. h \in Int
    BY VarsAssumption DEF VarsAssumption
  <2>d. sp + lastValue - offset \in Int
    BY <1>s DEF TypeOK, Cells
  <2>2. Moved \in Cells
    BY <2>d, WrapIn DEF Moved
  <2>3. Wrap(Moved - h) \in Cells
    <3>1. Moved - h \in Int
      BY <2>1, <2>2, <1>s DEF Cells
    <3> QED BY <3>1, WrapIn
  <2>4. sp' \in Cells /\ offset' \in Int
    BY <1>6, <2>2, <2>3, <1>s DEF preCall, TypeOK
  <2>5. ram' \in [Cells -> Values \cup {Junk}]
    BY <1>6 DEF preCall, TypeOK
  <2> QED BY <1>6, <2>4, <2>5 DEF preCall, TypeOK
<1>7. ASSUME functionEnd PROVE TypeOK'
  <2>1. sp' \in Cells
    BY <1>7, <1>s, WrapIn DEF functionEnd, TypeOK, Cells
  <2> QED BY <1>7, <2>1 DEF functionEnd, TypeOK
<1>8. CASE UNCHANGED vars
  BY <1>8 DEF vars, TypeOK
<1> QED BY <1>1, <1>2, <1>3, <1>4, <1>5, <1>6, <1>7, <1>8, FetchAway DEF Next, pushVariable

(* Whatever is generated, the beliefs of the compiler and the machine keep *)
(* their types; lastValue stays within the scratchpad.                     *)
THEOREM TypeCorrect == Spec => []TypeOK
BY InitType, NextType, PTL DEF Spec
-----------------------------------------------------------------------------
(* The compiler's belief about sF.                                         *)

LEMMA MoveTo ==
  ASSUME TypeOK, SPTracked, active, NEW t \in Int, NEW d \in Int, d = t - offset
  PROVE  Wrap(sp + d) = Wrap(base + t) /\ offset + d = t
<1>1. base \in Int /\ offset \in Int
  BY VarsAssumption DEF VarsAssumption, TypeOK, Cells
<1>2. Wrap(Wrap(base + offset) + (t - offset)) = Wrap(base + t)
  BY <1>1, WrapMove
<1> QED BY <1>1, <1>2 DEF SPTracked

(* Where preCall moves sF.                                                 *)
LEMMA MovedToTop ==
  ASSUME TypeOK, SPTracked, active
  PROVE  Moved = Wrap(base + lastValue) /\ Moved \in Cells
<1> DEFINE d == lastValue - offset
<1>1. /\ lastValue \in Int /\ offset \in Int /\ base \in Int /\ sp \in Int
  BY VarsAssumption DEF VarsAssumption, TypeOK, Cells
<1>2. /\ d \in Int /\ sp + lastValue - offset = sp + d /\ base + lastValue \in Int
  BY <1>1
<1> HIDE DEF d
<1>3. Wrap(sp + d) = Wrap(base + lastValue)
  BY <1>1, <1>2, MoveTo DEF d
<1> QED BY <1>2, <1>3, WrapIn DEF Moved

(* Where a spill or a reload of byte c of x leaves sF.                     *)
LEMMA MoveToSlot ==
  ASSUME TypeOK, SPTracked, active, NEW x \in Vars, NEW c \in Bytes(x), contains(x)
  PROVE  /\ Wrap(sp + (Found(x) - offset + c)) = Slot(x, c)
         /\ offset + (Found(x) - offset + c) = Found(x) + c
<1> DEFINE t == Found(x) + c
           d == Found(x) - offset + c
<1>1. /\ Found(x) \in Int /\ c \in Int /\ base \in Int
      /\ t \in Int /\ d \in Int /\ d = t - offset
  BY VarsAssumption, FoundIn, SizeNat DEF VarsAssumption, TypeOK, Cells
<1>2. base + Found(x) + c = base + t
  BY <1>1
<1> HIDE DEF t, d
<1>3. Wrap(sp + d) = Wrap(base + t) /\ offset + d = t
  BY <1>1, MoveTo
<1> QED BY <1>2, <1>3 DEF t, d, Slot

LEMMA MoveToTop ==
  ASSUME TypeOK, SPTracked, active, NEW x \in Vars, NEW c \in Bytes(x)
  PROVE  /\ Wrap(sp + (lastValue - offset + c)) = Wrap(base + (lastValue + c))
         /\ offset + (lastValue - offset + c) = lastValue + c
<1> DEFINE t == lastValue + c
           d == lastValue - offset + c
<1>1. c \in Int /\ t \in Int /\ d \in Int /\ d = t - offset
  BY VarsAssumption, SizeNat DEF VarsAssumption, TypeOK
<1> HIDE DEF t, d
<1>2. Wrap(sp + d) = Wrap(base + t) /\ offset + d = t
  BY <1>1, MoveTo
<1> QED BY <1>2 DEF t, d

SPInv == isMain \in Modes /\ SPTracked

LEMMA InitSP == Init => SPInv
BY DEF Init, SPInv, SPTracked

LEMMA NextSP ==
  ASSUME CallerKeepsSP PROVE TypeOK /\ SPInv /\ [Next]_vars => SPInv'
<1> SUFFICES ASSUME TypeOK, SPInv, [Next]_vars PROVE SPInv'
  OBVIOUS
<1>s. SPTracked /\ MEMORY_SIZE \in Nat \ {0}
  BY VarsAssumption DEF VarsAssumption, SPInv
<1>1. ASSUME NEW h \in StackSizes, NEW main \in Modes, NEW b \in Bases,
             functionStart(h, main, b)
      PROVE  SPInv'
  BY <1>1 DEF functionStart, SPInv, SPTracked
<1>2. ASSUME NEW x \in Vars, NEW c \in Bytes(x), NEW v \in Values,
             pushKnown(x, c, v)
      PROVE  SPInv'
  <2>1. sp' = Slot(x, c) /\ offset' = Found(x) + c
    BY <1>2, <1>s, MoveToSlot DEF pushKnown
  <2>2. sp' = Wrap(base + offset')
    <3>1. Found(x) \in Int /\ c \in Int /\ base \in Int
      BY <1>2, <1>s, FoundIn, SizeNat DEF pushKnown, TypeOK, Cells
    <3>2. base + Found(x) + c = base + (Found(x) + c)
      BY <3>1
    <3> QED BY <2>1, <3>2 DEF Slot
  <2> QED BY <1>2, <2>2 DEF pushKnown, SPInv, SPTracked
<1>3. ASSUME NEW x \in Vars, NEW c \in Bytes(x), NEW v \in Values,
             pushNew(x, c, v)
      PROVE  SPInv'
  <2>1. sp' = Wrap(base + (lastValue + c)) /\ offset' = lastValue + c
    BY <1>3, <1>s, MoveToTop DEF pushNew
  <2> QED BY <1>3, <2>1 DEF pushNew, SPInv, SPTracked
<1>4. ASSUME NEW x \in Vars, NEW c \in Bytes(x), fetchVariable(x, c), contains(x)
      PROVE  SPInv'
  <2>1. sp' = Slot(x, c) /\ offset' = Found(x) + c
    BY <1>4, <1>s, MoveToSlot DEF fetchVariable
  <2>2. sp' = Wrap(base + offset')
    <3>1. Found(x) \in Int /\ c \in Int /\ base \in Int
      BY <1>4, <1>s, FoundIn, SizeNat DEF fetchVariable, TypeOK, Cells
    <3>2. base + Found(x) + c = base + (Found(x) + c)
      BY <3>1
    <3> QED BY <2>1, <3>2 DEF Slot
  <2> QED BY <1>4, <2>2 DEF fetchVariable, SPInv, SPTracked
<1>5. ASSUME NEW x \in Vars, loadAddress(x)
      PROVE  SPInv'
  BY <1>5 DEF loadAddress, SPInv, SPTracked
<1>6. ASSUME NEW h \in StackSizes, preCall(h)
      PROVE  SPInv'
  <2>1. Moved = Wrap(base + lastValue) /\ Moved \in Cells
    BY <1>6, <1>s, MovedToTop DEF preCall
  <2>2. ASSUME ~ isMain PROVE Wrap(Moved - h) = Moved
    <3>1. h = 0
      <4>1. ASSUME Modes = {TRUE} PROVE FALSE
        <5>1. isMain \in Modes
          BY DEF SPInv
        <5>2. isMain \in {TRUE}
          BY <4>1, <5>1
        <5>3. isMain = TRUE
          BY <5>2
        <5> QED BY <2>2, <5>3
      <4>2. StackSizes = {0}
        BY <4>1 DEF CallerKeepsSP
      <4> QED BY <4>2
    <3>2. Moved - h = Moved
      BY <2>1, <3>1, <1>s DEF Cells
    <3> QED BY <2>1, <3>2, WrapCell
  <2>3. sp' = Wrap(base + lastValue)
    BY <1>6, <2>1, <2>2 DEF preCall
  <2> QED BY <1>6, <2>3 DEF preCall, SPInv, SPTracked
<1>7. ASSUME functionEnd PROVE SPInv'
  BY <1>7 DEF functionEnd, SPInv, SPTracked
<1>8. CASE UNCHANGED vars
  BY <1>8 DEF vars, SPInv, SPTracked
<1> QED BY <1>1, <1>2, <1>3, <1>4, <1>5, <1>6, <1>7, <1>8, FetchAway DEF Next, pushVariable

(* In the programs whose callers do not move sF behind the compiler's      *)
(* back, every spill and reload finds sF where the compiler believes it is *)
(* (pushVariable, fetchVariable and preCall of ralloc.cc).                 *)
THEOREM SPAlwaysTracked == ASSUME CallerKeepsSP PROVE Spec => []SPTracked
<1>1. TypeOK /\ SPInv /\ [Next]_vars => TypeOK' /\ SPInv'
  BY NextType, NextSP
<1>2. Init => TypeOK /\ SPInv
  BY InitType, InitSP
<1>3. SPInv => SPTracked
  BY DEF SPInv
<1> QED BY <1>1, <1>2, <1>3, PTL DEF Spec
-----------------------------------------------------------------------------
LEMMA StepReturn ==
  TypeOK /\ SPInv /\ [Next]_vars => (active /\ ~active' => sp' = base)
<1> SUFFICES ASSUME TypeOK, SPInv, [Next]_vars, active, ~active' PROVE sp' = base
  OBVIOUS
<1>1. functionEnd
  BY DEF Next, vars, functionStart, pushVariable, pushKnown, pushNew,
         fetchVariable, loadAddress, preCall
<1> DEFINE d == 0 - offset
<1>2. d \in Int /\ sp - offset = sp + d /\ base + 0 = base /\ base \in Cells
  BY VarsAssumption DEF VarsAssumption, TypeOK, Cells
<1> HIDE DEF d
<1>3. Wrap(sp + d) = Wrap(base + 0)
  BY <1>2, MoveTo DEF SPInv, d
<1> QED BY <1>1, <1>2, <1>3, WrapCell DEF functionEnd

(* The return of every function of such a program pops its whole frame:    *)
(* sF is back where the frame began (Return, gen.cc; functionEnd).         *)
THEOREM ReturnAlwaysPopsFrame == ASSUME CallerKeepsSP PROVE Spec => ReturnPopsFrame
<1>1. TypeOK /\ SPInv /\ [Next]_vars => TypeOK' /\ SPInv'
  BY NextType, NextSP
<1>2. Init => TypeOK /\ SPInv
  BY InitType, InitSP
<1>3. TypeOK /\ SPInv /\ [Next]_vars => [active /\ ~active' => sp' = base]_vars
  BY StepReturn
<1> QED BY <1>1, <1>2, <1>3, PTL DEF Spec, ReturnPopsFrame

-----------------------------------------------------------------------------
(* The frame of a program without stack arguments.                         *)

(* What BlocksWhole says of one variable.                                  *)
Whole(m, top, x) ==
  Has(m, top, x) =>
    /\ FirstOf(m, top, x) + SizeOf[x] <= top
    /\ \A k \in 0 .. top - 1 :
         IF k - FirstOf(m, top, x) \in Bytes(x)
         THEN m[k] = [oper |-> x, index |-> k - FirstOf(m, top, x)]
         ELSE m[k].oper # x

LEMMA BlocksWholeIs == BlocksWhole <=> (active => \A x \in Vars : Whole(mem, lastValue, x))
BY DEF BlocksWhole, Whole, Has, contains, Found

LEMMA ReserveWhole ==
  ASSUME NEW m \in [Cells -> Cell], NEW top \in 0 .. MEMORY_SIZE,
         NEW x \in Vars, ~ Has(m, top, x), top + SizeOf[x] <= MEMORY_SIZE,
         NEW m2, Extended(m, top, x, m2),
         \A y \in Vars : Whole(m, top, y)
  PROVE  \A y \in Vars : Whole(m2, top + SizeOf[x], y)
<1> DEFINE t == top + SizeOf[x]
<1>1. /\ MEMORY_SIZE \in Nat /\ top \in Nat /\ SizeOf[x] \in Nat \ {0}
      /\ t \in Nat /\ top < t /\ t <= MEMORY_SIZE
  BY VarsAssumption DEF VarsAssumption
<1>2. \A k \in 0 .. top - 1 : k \in Cells /\ k - top \notin Bytes(x)
  BY <1>1 DEF Cells, Bytes
<1>3. \A k \in top .. t - 1 : k \in Cells /\ k - top \in Bytes(x)
  BY <1>1 DEF Cells, Bytes
<1>4. \A k \in 0 .. top - 1 : m2[k] = m[k]
  BY <1>2 DEF Extended
<1>5. \A k \in top .. t - 1 : m2[k] = [oper |-> x, index |-> k - top]
  BY <1>3 DEF Extended
<1>6. /\ Has(m2, t, x)
      /\ FirstOf(m2, t, x) = top
      /\ \A y \in Vars \ {x} :
           /\ Has(m2, t, y) <=> Has(m, top, y)
           /\ Has(m, top, y) => FirstOf(m2, t, y) = FirstOf(m, top, y)
  BY ReserveFinds
<1>7. Whole(m2, t, x)
  <2>1. \A k \in 0 .. top - 1 : m2[k].oper # x
    BY <1>4 DEF Has
  <2>2. \A k \in 0 .. t - 1 : k \in 0 .. top - 1 \/ k \in top .. t - 1
    BY <1>1
  <2> QED BY <1>1, <1>2, <1>3, <1>5, <1>6, <2>1, <2>2 DEF Whole
<1>8. ASSUME NEW y \in Vars \ {x} PROVE Whole(m2, t, y)
  <2> SUFFICES ASSUME Has(m2, t, y) PROVE Whole(m2, t, y)
    BY DEF Whole
  <2> DEFINE f == FirstOf(m, top, y)
  <2>1. Has(m, top, y) /\ FirstOf(m2, t, y) = f
    BY <1>6
  <2>2. f \in 0 .. top - 1
    BY <1>1, <2>1, FirstOfFinds
  <2>3. /\ f + SizeOf[y] <= top
        /\ \A k \in 0 .. top - 1 : IF k - f \in Bytes(y)
                                  THEN m[k] = [oper |-> y, index |-> k - f]
                                  ELSE m[k].oper # y
    BY <2>1 DEF Whole
  <2>4. SizeOf[y] \in Nat
    BY SizeNat
  <2> HIDE DEF f
  <2>5. ASSUME NEW k \in top .. t - 1
        PROVE  k - f \notin Bytes(y) /\ m2[k].oper # y
    <3>1. k \in Nat /\ f \in Nat /\ top \in Nat /\ k >= top
      BY <1>1, <2>2
    <3>2. k - f >= SizeOf[y]
      BY <2>3, <2>4, <3>1
    <3>3. k - f \notin Bytes(y)
      BY <2>4, <3>1, <3>2 DEF Bytes
    <3>4. m2[k] = [oper |-> x, index |-> k - top]
      BY <1>5
    <3> QED BY <3>3, <3>4
  <2>6. \A k \in 0 .. t - 1 : k \in 0 .. top - 1 \/ k \in top .. t - 1
    BY <1>1
  <2>7. \A k \in 0 .. t - 1 : IF k - f \in Bytes(y)
                            THEN m2[k] = [oper |-> y, index |-> k - f]
                            ELSE m2[k].oper # y
    BY <1>4, <2>3, <2>5, <2>6
  <2>8. f + SizeOf[y] <= t
    BY <1>1, <2>2, <2>3, <2>4
  <2> QED BY <2>1, <2>7, <2>8 DEF Whole
<1> QED BY <1>7, <1>8

LEMMA BlockCell ==
  ASSUME NEW m, NEW top \in 0 .. MEMORY_SIZE, NEW x \in Vars, NEW c \in Bytes(x),
         Has(m, top, x), Whole(m, top, x)
  PROVE  /\ FirstOf(m, top, x) \in 0 .. top - 1
         /\ FirstOf(m, top, x) + c \in 0 .. top - 1
         /\ m[FirstOf(m, top, x) + c] = [oper |-> x, index |-> c]
<1> DEFINE f == FirstOf(m, top, x)
<1>1. top \in Nat /\ MEMORY_SIZE \in Nat /\ SizeOf[x] \in Nat /\ c \in 0 .. SizeOf[x] - 1
  BY VarsAssumption DEF VarsAssumption, Bytes
<1>2. f \in 0 .. top - 1
  BY <1>1, FirstOfFinds
<1>3. /\ f + SizeOf[x] <= top
      /\ \A k \in 0 .. top - 1 : k - f \in Bytes(x)
                                => m[k] = [oper |-> x, index |-> k - f]
  BY DEF Whole
<1> HIDE DEF f
<1>4. f + c \in 0 .. top - 1 /\ (f + c) - f = c
  BY <1>1, <1>2, <1>3
<1>5. m[f + c] = [oper |-> x, index |-> (f + c) - f]
  BY <1>3, <1>4
<1> QED BY <1>2, <1>4, <1>5 DEF f

(* Two bytes on the stack have two addresses, wherever the frame begins    *)
(* and even when it wraps around the end of the scratchpad.                *)
LEMMA NoAlias ==
  ASSUME NEW m, NEW top \in 0 .. MEMORY_SIZE, NEW b \in Int,
         NEW x \in Vars, NEW c \in Bytes(x), Has(m, top, x), Whole(m, top, x),
         NEW y \in Vars, NEW j \in Bytes(y), Has(m, top, y), Whole(m, top, y),
         <<x, c>> # <<y, j>>
  PROVE  Wrap(b + FirstOf(m, top, x) + c) # Wrap(b + FirstOf(m, top, y) + j)
<1> DEFINE k == FirstOf(m, top, x) + c
           l == FirstOf(m, top, y) + j
<1>1. k \in 0 .. top - 1 /\ m[k] = [oper |-> x, index |-> c]
  BY BlockCell
<1>2. l \in 0 .. top - 1 /\ m[l] = [oper |-> y, index |-> j]
  BY BlockCell
<1>3. FirstOf(m, top, x) \in Int /\ FirstOf(m, top, y) \in Int /\ c \in Int /\ j \in Int
  <2>1. FirstOf(m, top, x) \in 0 .. top - 1
    BY BlockCell
  <2>2. FirstOf(m, top, y) \in 0 .. top - 1
    BY BlockCell
  <2>3. c \in Nat /\ j \in Nat
    BY SizeNat
  <2> QED BY <2>1, <2>2, <2>3
<1>4. b + FirstOf(m, top, x) + c = b + k /\ b + FirstOf(m, top, y) + j = b + l
  BY <1>3
<1> HIDE DEF k, l
<1>5. k \in Cells /\ l \in Cells
  BY <1>1, <1>2, VarsAssumption DEF VarsAssumption, Cells
<1>6. k # l
  <2>1. [oper |-> x, index |-> c] # [oper |-> y, index |-> j]
    OBVIOUS
  <2> QED BY <1>1, <1>2, <2>1
<1> QED BY <1>4, <1>5, <1>6, WrapInjective

FrameInv == /\ active => stackSize = 0
            /\ SPInsideFrame
            /\ BlocksWhole

LEMMA NextFrame ==
  ASSUME NoStackArgs PROVE TypeOK /\ FrameInv /\ [Next]_vars => FrameInv'
<1> SUFFICES ASSUME TypeOK, FrameInv, [Next]_vars PROVE FrameInv'
  OBVIOUS
<1>s. /\ MEMORY_SIZE \in Nat \ {0} /\ lastValue \in 0 .. MEMORY_SIZE /\ offset \in Int
      /\ mem \in [Cells -> Cell]
  BY VarsAssumption DEF VarsAssumption, TypeOK, Cell
<1>b. active => \A y \in Vars : Whole(mem, lastValue, y)
  BY BlocksWholeIs DEF FrameInv
<1>1. ASSUME NEW h \in StackSizes, NEW main \in Modes, NEW b \in Bases,
             functionStart(h, main, b)
      PROVE  FrameInv'
  <2>1. h = 0
    BY DEF NoStackArgs
  <2>2. stackSize' = 0 /\ offset' = 0 /\ lastValue' = 0
    BY <1>1, <2>1 DEF functionStart
  <2>3. BlocksWhole'
    BY <2>2 DEF BlocksWhole, contains
  <2> QED BY <2>2, <2>3 DEF FrameInv, SPInsideFrame
<1>2. ASSUME NEW x \in Vars, NEW c \in Bytes(x), NEW v \in Values,
             pushKnown(x, c, v)
      PROVE  FrameInv'
  <2>1. active /\ Has(mem, lastValue, x) /\ Whole(mem, lastValue, x)
    BY <1>2, <1>b DEF pushKnown, contains, Has
  <2>2. Found(x) \in 0 .. lastValue - 1 /\ Found(x) + c \in 0 .. lastValue - 1
    BY <1>s, <2>1, BlockCell DEF Found
  <2>3. offset' = Found(x) + c
    BY <1>2, <1>s, <2>2, SizeNat DEF pushKnown
  <2>4. SPInsideFrame'
    BY <1>2, <1>s, <2>2, <2>3 DEF pushKnown, SPInsideFrame
  <2>5. BlocksWhole'
    BY <1>2 DEF pushKnown, FrameInv, BlocksWhole, contains, Found
  <2> QED BY <1>2, <2>4, <2>5 DEF pushKnown, FrameInv
<1>r. ASSUME NEW x \in Vars, active, ~ contains(x), Fits(x),
             mem' = Reserved(x), lastValue' = lastValue + SizeOf[x]
      PROVE  BlocksWhole'
  <2>1. ~ Has(mem, lastValue, x) /\ lastValue + SizeOf[x] <= MEMORY_SIZE
    BY <1>r DEF contains, Has, Fits
  <2>2. Extended(mem, lastValue, x, mem')
    BY <1>r, ReservedType DEF Extended
  <2>3. \A y \in Vars : Whole(mem', lastValue', y)
    BY <1>r, <1>b, <1>s, <2>1, <2>2, ReserveWhole
  <2> QED BY <2>3 DEF BlocksWhole, Whole, Has, contains, Found
<1>3. ASSUME NEW x \in Vars, NEW c \in Bytes(x), NEW v \in Values,
             pushNew(x, c, v)
      PROVE  FrameInv'
  <2>1. BlocksWhole'
    BY <1>3, <1>r DEF pushNew
  <2>2. c \in 0 .. SizeOf[x] - 1 /\ SizeOf[x] \in Nat
    BY SizeNat DEF Bytes
  <2>3. offset' = lastValue + c
    BY <1>3, <1>s, <2>2 DEF pushNew
  <2>4. SPInsideFrame'
    BY <1>3, <1>s, <2>2, <2>3 DEF pushNew, SPInsideFrame
  <2> QED BY <1>3, <2>1, <2>4 DEF pushNew, FrameInv
<1>4. ASSUME NEW x \in Vars, NEW c \in Bytes(x), fetchVariable(x, c), contains(x)
      PROVE  FrameInv'
  <2>1. active /\ Has(mem, lastValue, x) /\ Whole(mem, lastValue, x)
    BY <1>4, <1>b DEF fetchVariable, contains, Has
  <2>2. Found(x) \in 0 .. lastValue - 1 /\ Found(x) + c \in 0 .. lastValue - 1
    BY <1>s, <2>1, BlockCell DEF Found
  <2>3. offset' = Found(x) + c
    BY <1>4, <1>s, <2>2, SizeNat DEF fetchVariable
  <2>4. SPInsideFrame'
    BY <1>4, <1>s, <2>2, <2>3 DEF fetchVariable, SPInsideFrame
  <2>5. BlocksWhole'
    BY <1>4 DEF fetchVariable, FrameInv, BlocksWhole, contains, Found
  <2> QED BY <1>4, <2>4, <2>5 DEF fetchVariable, FrameInv
<1>5. ASSUME NEW x \in Vars, loadAddress(x)
      PROVE  FrameInv'
  <2>1. BlocksWhole'
    BY <1>5, <1>r DEF loadAddress
  <2>2. SPInsideFrame'
    BY <1>5, <1>s, SizeNat DEF loadAddress, FrameInv, SPInsideFrame
  <2> QED BY <1>5, <2>1, <2>2 DEF loadAddress, FrameInv
<1>6. ASSUME NEW h \in StackSizes, preCall(h)
      PROVE  FrameInv'
  <2>1. SPInsideFrame'
    BY <1>6, <1>s DEF preCall, SPInsideFrame
  <2>2. BlocksWhole'
    BY <1>6 DEF preCall, FrameInv, BlocksWhole, contains, Found
  <2> QED BY <1>6, <2>1, <2>2 DEF preCall, FrameInv
<1>7. ASSUME functionEnd PROVE FrameInv'
  BY <1>7 DEF functionEnd, FrameInv, SPInsideFrame, BlocksWhole
<1>8. CASE UNCHANGED vars
  BY <1>8 DEF vars, FrameInv, SPInsideFrame, BlocksWhole, contains, Found
<1> QED BY <1>1, <1>2, <1>3, <1>4, <1>5, <1>6, <1>7, <1>8, FetchAway DEF Next, pushVariable
-----------------------------------------------------------------------------
(* Spilled values.                                                         *)

LEMMA SavedType == \A x \in Vars : \A c \in Bytes(x) : <<x, c>> \in AllBytes
BY DEF AllBytes

(* A spill of byte c of x keeps every other spilled byte.                  *)
LEMMA SpillStep ==
  ASSUME TypeOK, FrameInv, SpillsKept, active, TypeOK', BlocksWhole', active',
         base' = base,
         NEW x \in Vars, NEW c \in Bytes(x), NEW v \in Values, contains(x)',
         sp' = Slot(x, c)', ram' = [ram EXCEPT ![sp'] = v],
         saved' = [saved EXCEPT ![<<x, c>>] = v],
         \A y \in Vars : contains(y) => contains(y)' /\ Found(y)' = Found(y)
  PROVE  SpillsKept'
<1> SUFFICES ASSUME NEW y \in Vars, NEW j \in Bytes(y), saved'[<<y, j>>] # Junk
             PROVE  contains(y)' /\ ram'[Slot(y, j)'] = saved'[<<y, j>>]
  BY DEF SpillsKept
<1>1. sp' \in Cells /\ ram \in [Cells -> Values \cup {Junk}]
      /\ saved \in [AllBytes -> Values \cup {Junk}]
  BY DEF TypeOK
<1>2. <<x, c>> \in AllBytes /\ <<y, j>> \in AllBytes
  BY SavedType
<1>3. CASE <<y, j>> = <<x, c>>
  <2>1. y = x /\ j = c
    BY <1>3
  <2>2. saved'[<<y, j>>] = v /\ ram'[sp'] = v
    BY <1>1, <1>2, <1>3
  <2> QED BY <2>1, <2>2
<1>4. CASE <<y, j>> # <<x, c>>
  <2>1. saved'[<<y, j>>] = saved[<<y, j>>]
    BY <1>1, <1>2, <1>4
  <2>2. contains(y) /\ ram[Slot(y, j)] = saved[<<y, j>>]
    BY <2>1 DEF SpillsKept
  <2>3. contains(y)' /\ Slot(y, j)' = Slot(y, j)
    BY <2>2 DEF Slot
  <2>4. Slot(y, j)' # Slot(x, c)'
    <3>1. /\ Has(mem', lastValue', x) /\ Has(mem', lastValue', y)
          /\ Whole(mem', lastValue', x) /\ Whole(mem', lastValue', y)
      BY <2>3 DEF BlocksWhole, Whole, Has, contains, Found
    <3>2. lastValue' \in 0 .. MEMORY_SIZE /\ base' \in Int
      BY VarsAssumption DEF VarsAssumption, TypeOK, Cells
    <3>3. Wrap(base' + FirstOf(mem', lastValue', x) + c)
            # Wrap(base' + FirstOf(mem', lastValue', y) + j)
      BY <1>4, <3>1, <3>2, NoAlias
    <3> QED BY <3>3 DEF Slot, Found
  <2>5. Slot(y, j) \in Cells
    <3>1. Found(y) \in Int
      BY <2>2, FoundIn DEF TypeOK
    <3>2. j \in Nat
      BY SizeNat
    <3>3. base \in Int
      BY VarsAssumption DEF VarsAssumption, TypeOK, Cells
    <3>4. base + Found(y) + j \in Int
      BY <3>1, <3>2, <3>3
    <3> QED BY <3>4, WrapIn DEF Slot
  <2>6. ram'[Slot(y, j)'] = ram[Slot(y, j)]
    BY <1>1, <2>3, <2>4, <2>5
  <2> QED BY <2>1, <2>2, <2>3, <2>6
<1> QED BY <1>3, <1>4

LEMMA ReserveKeeps ==
  ASSUME TypeOK, NEW x \in Vars, ~ contains(x), Fits(x),
         mem' = Reserved(x), lastValue' = lastValue + SizeOf[x]
  PROVE  /\ contains(x)' /\ Found(x)' = lastValue
         /\ \A y \in Vars : contains(y) => contains(y)' /\ Found(y)' = Found(y)
<1>1. /\ mem \in [Cells -> Cell] /\ lastValue \in 0 .. MEMORY_SIZE
      /\ ~ Has(mem, lastValue, x) /\ lastValue + SizeOf[x] <= MEMORY_SIZE
  BY DEF TypeOK, Cell, contains, Has, Fits
<1>2. Extended(mem, lastValue, x, mem')
  BY ReservedType DEF Extended
<1>3. /\ Has(mem', lastValue', x)
      /\ FirstOf(mem', lastValue', x) = lastValue
      /\ \A y \in Vars \ {x} :
           /\ Has(mem', lastValue', y) <=> Has(mem, lastValue, y)
           /\ Has(mem, lastValue, y) => FirstOf(mem', lastValue', y)
                                           = FirstOf(mem, lastValue, y)
  BY <1>1, <1>2, ReserveFinds
<1> QED BY <1>1, <1>3 DEF Has, contains, Found

LEMMA NextSpills ==
  ASSUME NoStackArgs
  PROVE  TypeOK /\ SPInv /\ FrameInv /\ SpillsKept /\ [Next]_vars => SpillsKept'
<1> SUFFICES ASSUME TypeOK, SPInv, FrameInv, SpillsKept, [Next]_vars
             PROVE  SpillsKept'
  OBVIOUS
<1>s. /\ SPTracked /\ TypeOK' /\ FrameInv' /\ BlocksWhole'
  BY NextType, NextFrame DEF SPInv, FrameInv
<1>1. ASSUME NEW h \in StackSizes, NEW main \in Modes, NEW b \in Bases,
             functionStart(h, main, b)
      PROVE  SpillsKept'
  <2>1. saved' = Unspilled
    BY <1>1 DEF functionStart
  <2>2. \A x \in Vars : \A c \in Bytes(x) : saved'[<<x, c>>] = Junk
    BY <2>1, SavedType DEF Unspilled
  <2> QED BY <2>2 DEF SpillsKept
<1>2. ASSUME NEW x \in Vars, NEW c \in Bytes(x), NEW v \in Values,
             pushKnown(x, c, v)
      PROVE  SpillsKept'
  <2>1. /\ active /\ active' /\ base' = base /\ contains(x)'
        /\ \A y \in Vars : /\ contains(y) => contains(y)'
                           /\ Found(y)' = Found(y)
    BY <1>2 DEF pushKnown, contains, Found
  <2>2. sp' = Slot(x, c)
    BY <1>2, <1>s, MoveToSlot DEF pushKnown
  <2>3. sp' = Slot(x, c)'
    BY <2>1, <2>2 DEF Slot
  <2>4. ram' = [ram EXCEPT ![sp'] = v] /\ saved' = [saved EXCEPT ![<<x, c>>] = v]
    BY <1>2 DEF pushKnown
  <2> QED BY <1>s, <2>1, <2>3, <2>4, SpillStep
<1>3. ASSUME NEW x \in Vars, NEW c \in Bytes(x), NEW v \in Values,
             pushNew(x, c, v)
      PROVE  SpillsKept'
  <2>1. /\ contains(x)' /\ Found(x)' = lastValue
        /\ \A y \in Vars : contains(y) => contains(y)' /\ Found(y)' = Found(y)
    BY <1>3, ReserveKeeps DEF pushNew
  <2>2. active /\ active' /\ base' = base
    BY <1>3 DEF pushNew
  <2>3. sp' = Slot(x, c)'
    <3>1. sp' = Wrap(base + (lastValue + c))
      BY <1>3, <1>s, MoveToTop DEF pushNew
    <3>2. base + (lastValue + c) = base + lastValue + c
      BY SizeNat, VarsAssumption DEF VarsAssumption, TypeOK, Cells
    <3> QED BY <2>1, <2>2, <3>1, <3>2 DEF Slot
  <2>4. ram' = [ram EXCEPT ![sp'] = v] /\ saved' = [saved EXCEPT ![<<x, c>>] = v]
    BY <1>3 DEF pushNew
  <2> QED BY <1>s, <2>1, <2>2, <2>3, <2>4, SpillStep
<1>4. ASSUME NEW x \in Vars, NEW c \in Bytes(x), fetchVariable(x, c), contains(x)
      PROVE  SpillsKept'
  BY <1>4 DEF fetchVariable, SpillsKept, contains, Slot, Found
<1>5. ASSUME NEW x \in Vars, loadAddress(x)
      PROVE  SpillsKept'
  <2>1. \A y \in Vars : contains(y) => contains(y)' /\ Found(y)' = Found(y)
    BY <1>5, ReserveKeeps DEF loadAddress
  <2>2. \A y \in Vars : \A j \in Bytes(y) : contains(y) => Slot(y, j)' = Slot(y, j)
    BY <1>5, <2>1 DEF loadAddress, Slot
  <2> QED BY <1>5, <2>1, <2>2 DEF loadAddress, SpillsKept
<1>6. ASSUME NEW h \in StackSizes, preCall(h)
      PROVE  SpillsKept'
  <2> SUFFICES ASSUME NEW y \in Vars, NEW j \in Bytes(y), saved[<<y, j>>] # Junk
               PROVE  contains(y) /\ ram'[Slot(y, j)] = saved[<<y, j>>]
    BY <1>6 DEF preCall, SpillsKept, contains, Slot, Found
  <2>1. active /\ contains(y) /\ ram[Slot(y, j)] = saved[<<y, j>>]
    BY <1>6 DEF preCall, SpillsKept
  <2>2. Has(mem, lastValue, y) /\ Whole(mem, lastValue, y)
    BY <2>1, BlocksWholeIs DEF FrameInv, contains, Has
  <2>3. Found(y) \in 0 .. lastValue - 1 /\ Found(y) + j \in 0 .. lastValue - 1
    BY <2>2, BlockCell DEF TypeOK, Found
  <2>4. base + Found(y) + j \in Int /\ base + Found(y) + j = base + (Found(y) + j)
    BY <2>3, SizeNat, VarsAssumption DEF VarsAssumption, TypeOK, Cells
  <2>5. Slot(y, j) \in Cells /\ Slot(y, j) = Wrap(base + (Found(y) + j))
    BY <2>4, WrapIn DEF Slot
  <2>6. Slot(y, j) \notin Above(Moved)
    <3> SUFFICES ASSUME NEW k \in 0 .. MEMORY_SIZE - lastValue - 1,
                        Slot(y, j) = Wrap(Moved + k)
                 PROVE  FALSE
      BY DEF Above
    <3>1. /\ MEMORY_SIZE \in Nat /\ lastValue \in Nat /\ base \in Int /\ k \in Nat
      BY VarsAssumption DEF VarsAssumption, TypeOK, Cells
    <3>2. /\ base + lastValue \in Int
          /\ (base + lastValue) + k = base + (lastValue + k)
          /\ lastValue + k \in Cells /\ Found(y) + j \in Cells
          /\ lastValue + k # Found(y) + j
      BY <2>3, <3>1 DEF TypeOK, Cells
    <3>3. Moved = Wrap(base + lastValue)
      BY <2>1, <1>s, MovedToTop
    <3>4. Wrap(Moved + k) = Wrap(base + (lastValue + k))
      BY <3>1, <3>2, <3>3, WrapAdd
    <3> QED BY <2>5, <3>1, <3>2, <3>4, WrapInjective
  <2>7. ram'[Slot(y, j)] = ram[Slot(y, j)]
    BY <1>6, <2>5, <2>6 DEF preCall
  <2> QED BY <2>1, <2>7
<1>7. ASSUME functionEnd PROVE SpillsKept'
  BY <1>7 DEF functionEnd, SpillsKept
<1>8. CASE UNCHANGED vars
  BY <1>8 DEF vars, SpillsKept, contains, Slot, Found
<1> QED BY <1>1, <1>2, <1>3, <1>4, <1>5, <1>6, <1>7, <1>8, FetchAway DEF Next, pushVariable

-----------------------------------------------------------------------------
(* The inductive invariant of the frame and what follows from it.          *)

IInv == TypeOK /\ SPInv /\ FrameInv /\ SpillsKept

LEMMA InitInv == Init => IInv
<1> SUFFICES ASSUME Init PROVE FrameInv /\ SpillsKept
  BY InitType, InitSP DEF IInv
<1> QED BY DEF Init, FrameInv, SPInsideFrame, BlocksWhole, SpillsKept

LEMMA NextInv == ASSUME NoStackArgs PROVE IInv /\ [Next]_vars => IInv'
BY NextType, NextSP, NextFrame, NextSpills DEF IInv, NoStackArgs, CallerKeepsSP

(* In a program without stack arguments sF stays inside the frame and      *)
(* every variable on the stack owns all its bytes (pushVariable,           *)
(* loadAddress, preCall of ralloc.cc).                                     *)
THEOREM FrameAlwaysWhole ==
  ASSUME NoStackArgs PROVE Spec => [](SPInsideFrame /\ BlocksWhole)
<1>1. IInv => SPInsideFrame /\ BlocksWhole
  BY DEF IInv, FrameInv
<1> QED BY <1>1, InitInv, NextInv, PTL DEF Spec

(* ... and no spilled byte is lost, whatever is spilled, reloaded or       *)
(* called afterwards.                                                      *)
THEOREM SpillsAlwaysKept == ASSUME NoStackArgs PROVE Spec => []SpillsKept
<1>1. IInv => SpillsKept
  BY DEF IInv
<1> QED BY <1>1, InitInv, NextInv, PTL DEF Spec

LEMMA StepReload == IInv => \A b \in AllBytes : ReadsSpilled(b[1], b[2])
<1> SUFFICES ASSUME IInv, NEW x \in Vars, NEW c \in Bytes(x) PROVE ReadsSpilled(x, c)
  BY DEF AllBytes
<1> SUFFICES ASSUME fetchVariable(x, c), saved[<<x, c>>] # Junk
             PROVE  ram[sp'] = saved[<<x, c>>]
  BY DEF ReadsSpilled
<1>1. sp' = Slot(x, c)
  BY MoveToSlot DEF fetchVariable, IInv, SPInv, SpillsKept
<1> QED BY <1>1 DEF IInv, SpillsKept, fetchVariable

(* What pushVariable stored is what fetchVariable finds.                   *)
THEOREM ReloadAlwaysReturnsSpill ==
  ASSUME NoStackArgs PROVE Spec => ReloadReturnsSpill
<1>1. IInv /\ [Next]_vars => [\A b \in AllBytes : ReadsSpilled(b[1], b[2])]_vars
  BY StepReload
<1> QED BY <1>1, InitInv, NextInv, PTL DEF Spec, ReloadReturnsSpill

-----------------------------------------------------------------------------
LEMMA BelowTop ==
  ASSUME NEW o \in Int, NEW t \in Nat, 0 <= o, o <= t, o # t
  PROVE  o \in 0 .. t - 1
OBVIOUS

LEMMA StepInFrame ==
  ASSUME NoStackArgs, IInv, [Next]_vars, active, active', offset' # lastValue',
         NEW a \in Cells, ram'[a] # ram[a]
  PROVE  \E k \in stackSize .. lastValue' - 1 : a = Wrap(base + k)
<1>s. stackSize = 0 /\ SPTracked /\ TypeOK /\ FrameInv'
  BY NextInv DEF IInv, FrameInv, SPInv
<1>1. PICK x \in Vars : \E c \in Bytes(x), v \in Values : pushVariable(x, c, v)
  BY DEF Next, vars, functionStart, fetchVariable, loadAddress, preCall, functionEnd
<1>2. PICK c \in Bytes(x), v \in Values : pushVariable(x, c, v)
  BY <1>1
<1>3. a = sp'
  BY <1>s, <1>2 DEF pushVariable, pushKnown, pushNew, TypeOK
<1>4. sp' = Wrap(base + offset')
  BY <1>2, NextInv DEF IInv, SPInv, SPTracked, pushVariable, pushKnown, pushNew
<1>5. offset' \in 0 .. lastValue' - 1
  <2>1. TypeOK'
    BY NextInv DEF IInv
  <2>2. offset' \in Int /\ lastValue' \in Nat
    BY <2>1, VarsAssumption DEF VarsAssumption, TypeOK
  <2>3. 0 <= offset' /\ offset' <= lastValue'
    BY <1>s DEF FrameInv, SPInsideFrame
  <2> QED BY <2>2, <2>3, BelowTop
<1> QED BY <1>s, <1>3, <1>4, <1>5

(* A spill writes inside the frame of the function, never a cell of its    *)
(* caller.                                                                 *)
THEOREM SpillsAlwaysInFrame == ASSUME NoStackArgs PROVE Spec => SpillsStayInFrame
<1>1. IInv /\ [Next]_vars =>
        [(active /\ active' /\ offset' # lastValue') =>
           \A a \in Cells : ram'[a] # ram[a] =>
             \E k \in stackSize .. lastValue' - 1 : a = Wrap(base + k)]_vars
  BY StepInFrame
<1> QED BY <1>1, InitInv, NextInv, PTL DEF Spec, SpillsStayInFrame

-----------------------------------------------------------------------------
(* The powers of b, and the sums of the first bytes of a number: a loop    *)
(* that takes one more step reaches the same states before it.             *)
PowSteps(b, N) ==
  {f \in [0 .. N -> Nat] : f[0] = 1 /\ \A j \in 1 .. N : f[j] = b * f[j - 1]}
SumSteps(w, N) ==
  {f \in [0 .. N -> Nat] : f[0] = 0 /\ \A j \in 1 .. N : f[j] = f[j - 1] + w[j - 1]}

LEMMA PowStepsExist ==
  ASSUME NEW b \in Nat, NEW N \in Nat PROVE PowSteps(b, N) # {}
<1> DEFINE T == {k \in Nat : PowSteps(b, k) # {}}
<1>1. 0 \in T
  <2>1. [j \in 0 .. 0 |-> 1] \in PowSteps(b, 0)
    BY DEF PowSteps
  <2> QED BY <2>1
<1>2. ASSUME NEW k \in Nat, k \in T PROVE k + 1 \in T
  <2>1. PICK e \in PowSteps(b, k) : TRUE
    BY <1>2
  <2>2. /\ e \in [0 .. k -> Nat] /\ e[0] = 1
        /\ \A j \in 1 .. k : e[j] = b * e[j - 1]
    BY <2>1 DEF PowSteps
  <2> DEFINE v == b * e[k]
             f == [j \in 0 .. k + 1 |-> IF j = k + 1 THEN v ELSE e[j]]
  <2>3. e[k] \in Nat /\ v \in Nat
    BY <2>2
  <2>4. \A j \in 0 .. k : f[j] = e[j]
    OBVIOUS
  <2>5. f[k + 1] = v
    OBVIOUS
  <2>6. f \in [0 .. k + 1 -> Nat]
    <3>1. \A j \in 0 .. k + 1 : j # k + 1 => j \in 0 .. k
      OBVIOUS
    <3> HIDE DEF v
    <3> QED BY <2>2, <2>3, <3>1
  <2> HIDE DEF f
  <2>7. ASSUME NEW j \in 1 .. k + 1 PROVE f[j] = b * f[j - 1]
    <3>1. CASE j = k + 1
      <4>1. j - 1 = k /\ k \in 0 .. k
        BY <3>1
      <4> QED BY <2>4, <2>5, <3>1, <4>1
    <3>2. CASE j # k + 1
      <4>1. j \in 1 .. k /\ j \in 0 .. k /\ j - 1 \in 0 .. k
        BY <3>2
      <4> QED BY <2>2, <2>4, <4>1
    <3> QED BY <3>1, <3>2
  <2>8. f[0] = 1
    BY <2>2, <2>4
  <2>9. f \in PowSteps(b, k + 1)
    BY <2>6, <2>7, <2>8 DEF PowSteps
  <2> QED BY <2>9
<1>3. Nat \subseteq T
  <2> HIDE DEF T
  <2> QED BY <1>1, <1>2, Inductive
<1> QED BY <1>3

LEMMA PowStep ==
  ASSUME NEW b \in Nat, NEW N \in Nat, NEW F \in PowSteps(b, N), NEW k \in 0 .. N
  PROVE  Pow(b, k) = F[k]
<1>1. /\ F \in [0 .. N -> Nat] /\ F[0] = 1
      /\ \A j \in 1 .. N : F[j] = b * F[j - 1]
  BY DEF PowSteps
<1> DEFINE R(f) == [j \in 0 .. k |-> IF j = 0 THEN 1 ELSE b * f[j - 1]]
           h == [j \in 0 .. k |-> F[j]]
           f == CHOOSE e : e = R(e)
<1>2. \A j \in 0 .. k : h[j] = F[j]
  OBVIOUS
<1>3. h = R(h)
  <2>1. \A j \in 0 .. k : h[j] = IF j = 0 THEN 1 ELSE b * h[j - 1]
    <3> SUFFICES ASSUME NEW j \in 0 .. k, j # 0 PROVE h[j] = b * h[j - 1]
      BY <1>1, <1>2
    <3>1. j \in 1 .. N /\ j - 1 \in 0 .. k
      OBVIOUS
    <3> QED BY <1>1, <1>2, <3>1
  <2>2. h = [j \in 0 .. k |-> h[j]]
    OBVIOUS
  <2> HIDE DEF h
  <2> QED BY <2>1, <2>2
<1> HIDE DEF h
<1>4. f = R(f)
  BY <1>3
<1> HIDE DEF f
<1>5. f[0] = 1 /\ \A j \in 1 .. k : f[j] = b * f[j - 1]
  BY <1>4
<1>6. \A j \in 1 .. k : f[j - 1] = F[j - 1] => f[j] = F[j]
  <2> SUFFICES ASSUME NEW j \in 1 .. k, f[j - 1] = F[j - 1] PROVE f[j] = F[j]
    OBVIOUS
  <2>1. j \in 1 .. N
    OBVIOUS
  <2> QED BY <1>1, <1>5, <2>1
<1>7. f[k] = F[k]
  <2>1. k \in Nat /\ f[0] = F[0]
    BY <1>1, <1>5
  <2> QED BY <1>6, <2>1, LoopSame
<1> QED BY <1>7 DEF Pow, f

LEMMA PowIs ==
  ASSUME NEW b \in Nat, NEW k \in Nat
  PROVE  Pow(b, 0) = 1 /\ Pow(b, k) \in Nat /\ Pow(b, k + 1) = b * Pow(b, k)
<1>1. PICK F \in PowSteps(b, k + 1) : TRUE
  BY PowStepsExist
<1>2. /\ F \in [0 .. k + 1 -> Nat] /\ F[0] = 1
      /\ \A j \in 1 .. k + 1 : F[j] = b * F[j - 1]
  BY <1>1 DEF PowSteps
<1>3. \A j \in 0 .. k + 1 : Pow(b, j) = F[j]
  BY <1>1, PowStep
<1>4. Pow(b, 0) = F[0] /\ Pow(b, k) = F[k] /\ Pow(b, k + 1) = F[k + 1]
  BY <1>3
<1>5. F[k + 1] = b * F[k] /\ F[k] \in Nat
  <2>1. k + 1 \in 1 .. k + 1 /\ (k + 1) - 1 = k /\ k \in 0 .. k + 1
    OBVIOUS
  <2> QED BY <1>2, <2>1
<1> QED BY <1>2, <1>4, <1>5

LEMMA PowPositive ==
  ASSUME NEW b \in Nat \ {0}, NEW k \in Nat
  PROVE  Pow(b, k) \in Nat \ {0}
<1> DEFINE T == {m \in Nat : Pow(b, m) \in Nat \ {0}}
<1>1. 0 \in T
  BY PowIs
<1>2. ASSUME NEW m \in Nat, m \in T PROVE m + 1 \in T
  <2> DEFINE p == Pow(b, m)
  <2>1. p \in Nat \ {0} /\ Pow(b, m + 1) = b * p
    BY <1>2, PowIs
  <2> HIDE DEF p
  <2>2. b * p \in Nat \ {0}
    BY <2>1
  <2> QED BY <2>1, <2>2
<1>3. Nat \subseteq T
  <2> HIDE DEF T
  <2> QED BY <1>1, <1>2, Inductive
<1> QED BY <1>3

LEMMA SumStepsExist ==
  ASSUME NEW N \in Nat, NEW w \in [0 .. N - 1 -> Nat], NEW k \in 0 .. N
  PROVE  SumSteps(w, k) # {}
<1> DEFINE T == {m \in Nat : m <= N => SumSteps(w, m) # {}}
<1>1. 0 \in T
  <2>1. [j \in 0 .. 0 |-> 0] \in SumSteps(w, 0)
    BY DEF SumSteps
  <2> QED BY <2>1
<1>2. ASSUME NEW m \in Nat, m \in T PROVE m + 1 \in T
  <2> SUFFICES ASSUME m + 1 <= N PROVE SumSteps(w, m + 1) # {}
    OBVIOUS
  <2>1. PICK e \in SumSteps(w, m) : TRUE
    BY <1>2
  <2>2. /\ e \in [0 .. m -> Nat] /\ e[0] = 0
        /\ \A j \in 1 .. m : e[j] = e[j - 1] + w[j - 1]
    BY <2>1 DEF SumSteps
  <2> DEFINE v == e[m] + w[m]
             f == [j \in 0 .. m + 1 |-> IF j = m + 1 THEN v ELSE e[j]]
  <2>3. e[m] \in Nat /\ v \in Nat
    BY <2>2
  <2>4. \A j \in 0 .. m : f[j] = e[j]
    OBVIOUS
  <2>5. f[m + 1] = v
    OBVIOUS
  <2>6. f \in [0 .. m + 1 -> Nat]
    <3>1. \A j \in 0 .. m + 1 : j # m + 1 => j \in 0 .. m
      OBVIOUS
    <3> HIDE DEF v
    <3> QED BY <2>2, <2>3, <3>1
  <2> HIDE DEF f
  <2>7. ASSUME NEW j \in 1 .. m + 1 PROVE f[j] = f[j - 1] + w[j - 1]
    <3>1. CASE j = m + 1
      <4>1. j - 1 = m /\ m \in 0 .. m
        BY <3>1
      <4> QED BY <2>4, <2>5, <3>1, <4>1
    <3>2. CASE j # m + 1
      <4>1. j \in 1 .. m /\ j \in 0 .. m /\ j - 1 \in 0 .. m
        BY <3>2
      <4> QED BY <2>2, <2>4, <4>1
    <3> QED BY <3>1, <3>2
  <2>8. f[0] = 0
    BY <2>2, <2>4
  <2>9. f \in SumSteps(w, m + 1)
    BY <2>6, <2>7, <2>8 DEF SumSteps
  <2> QED BY <2>9
<1>3. Nat \subseteq T
  <2> HIDE DEF T
  <2> QED BY <1>1, <1>2, Inductive
<1> QED BY <1>3

-----------------------------------------------------------------------------
(* What the first bytes of a number stand for.                             *)
LEMMA Radix == HALF \in Nat \ {0} /\ RADIX \in Nat \ {0} /\ RADIX >= 2 /\ RADIX = 2 * HALF
BY ShiftAssumption DEF ShiftAssumption, RADIX

LEMMA ByteNat == ASSUME NEW b \in Byte PROVE b \in Nat /\ b < RADIX
BY Radix DEF Byte

Word(N) == [0 .. N - 1 -> Byte]
Weighed(w, N) == [j \in 0 .. N - 1 |-> w[j] * Pow(RADIX, j)]

LEMMA WeighedIs ==
  ASSUME NEW N \in Nat, NEW w \in Word(N)
  PROVE  /\ Weighed(w, N) \in [0 .. N - 1 -> Nat]
         /\ \A j \in 0 .. N - 1 : Weighed(w, N)[j] = w[j] * Pow(RADIX, j)
<1>1. ASSUME NEW j \in 0 .. N - 1 PROVE w[j] * Pow(RADIX, j) \in Nat
  <2> DEFINE p == Pow(RADIX, j)
  <2>1. w[j] \in Nat /\ p \in Nat
    <3>1. w[j] \in Byte /\ j \in Nat
      BY DEF Word
    <3> QED BY <3>1, ByteNat, Radix, PowIs
  <2> HIDE DEF p
  <2>2. w[j] * p \in Nat
    BY <2>1
  <2> QED BY <2>2 DEF p
<1> QED BY <1>1 DEF Weighed

LEMMA NumberStep ==
  ASSUME NEW N \in Nat, NEW w \in Word(N), NEW m \in 0 .. N,
         NEW F \in SumSteps(Weighed(w, N), m), NEW k \in 0 .. m
  PROVE  Number(w, k) = F[k]
<1> DEFINE x == Weighed(w, N)
<1>1. /\ F \in [0 .. m -> Nat] /\ F[0] = 0
      /\ \A j \in 1 .. m : F[j] = F[j - 1] + x[j - 1]
  BY DEF SumSteps
<1>2. \A j \in 1 .. k : x[j - 1] = w[j - 1] * Pow(RADIX, j - 1)
  <2> SUFFICES ASSUME NEW j \in 1 .. k PROVE x[j - 1] = w[j - 1] * Pow(RADIX, j - 1)
    OBVIOUS
  <2>1. j - 1 \in 0 .. N - 1
    OBVIOUS
  <2> HIDE DEF x
  <2>2. \A l \in 0 .. N - 1 : x[l] = w[l] * Pow(RADIX, l)
    BY WeighedIs DEF x
  <2> QED BY <2>1, <2>2
<1> HIDE DEF x
<1>3. ASSUME NEW j \in 1 .. k PROVE F[j] = F[j - 1] + w[j - 1] * Pow(RADIX, j - 1)
  <2>1. j \in 1 .. m
    OBVIOUS
  <2> QED BY <1>1, <1>2, <2>1
<1> DEFINE R(f) == [j \in 0 .. k |-> IF j = 0 THEN 0
                                      ELSE f[j - 1] + w[j - 1] * Pow(RADIX, j - 1)]
           h == [j \in 0 .. k |-> F[j]]
           f == CHOOSE e : e = R(e)
<1>4. \A j \in 0 .. k : h[j] = F[j]
  OBVIOUS
<1>5. h = R(h)
  <2>1. \A j \in 0 .. k : h[j] = IF j = 0 THEN 0
                                  ELSE h[j - 1] + w[j - 1] * Pow(RADIX, j - 1)
    <3> SUFFICES ASSUME NEW j \in 0 .. k, j # 0
                 PROVE h[j] = h[j - 1] + w[j - 1] * Pow(RADIX, j - 1)
      BY <1>1, <1>4
    <3>1. j \in 1 .. k /\ j - 1 \in 0 .. k
      OBVIOUS
    <3>2. h[j] = F[j] /\ h[j - 1] = F[j - 1]
      BY <1>4, <3>1
    <3> HIDE DEF h
    <3>3. F[j] = F[j - 1] + w[j - 1] * Pow(RADIX, j - 1)
      BY <1>3, <3>1
    <3> QED BY <3>2, <3>3
  <2>2. h = [j \in 0 .. k |-> h[j]]
    OBVIOUS
  <2> HIDE DEF h
  <2> QED BY <2>1, <2>2
<1> HIDE DEF h
<1>6. f = R(f)
  BY <1>5
<1> HIDE DEF f
<1>7. f[0] = 0 /\ \A j \in 1 .. k : f[j] = f[j - 1] + w[j - 1] * Pow(RADIX, j - 1)
  BY <1>6
<1>8. \A j \in 1 .. k : f[j - 1] = F[j - 1] => f[j] = F[j]
  BY <1>3, <1>7
<1>9. f[k] = F[k]
  <2>1. k \in Nat /\ f[0] = F[0]
    BY <1>1, <1>7
  <2> QED BY <1>8, <2>1, LoopSame
<1> QED BY <1>9 DEF Number, f

LEMMA NumberIs ==
  ASSUME NEW N \in Nat, NEW w \in Word(N)
  PROVE  /\ Number(w, 0) = 0
         /\ \A k \in 0 .. N : Number(w, k) \in Nat
         /\ \A k \in 0 .. N - 1 : Number(w, k + 1) = Number(w, k) + w[k] * Pow(RADIX, k)
<1> DEFINE x == Weighed(w, N)
<1>1. x \in [0 .. N - 1 -> Nat] /\ \A j \in 0 .. N - 1 : x[j] = w[j] * Pow(RADIX, j)
  BY WeighedIs
<1>2. PICK F \in SumSteps(x, N) : TRUE
  <2> HIDE DEF x
  <2>1. N \in 0 .. N
    OBVIOUS
  <2> QED BY <1>1, <2>1, SumStepsExist
<1>3. \A k \in 0 .. N : Number(w, k) = F[k]
  BY <1>2, NumberStep
<1> HIDE DEF x
<1>4. /\ F \in [0 .. N -> Nat] /\ F[0] = 0
      /\ \A j \in 1 .. N : F[j] = F[j - 1] + x[j - 1]
  BY <1>2 DEF SumSteps
<1>5. ASSUME NEW k \in 0 .. N - 1
      PROVE  Number(w, k + 1) = Number(w, k) + w[k] * Pow(RADIX, k)
  <2>1. k + 1 \in 1 .. N /\ (k + 1) - 1 = k /\ k \in 0 .. N /\ k + 1 \in 0 .. N
    OBVIOUS
  <2>2. F[k + 1] = F[k] + x[k] /\ x[k] = w[k] * Pow(RADIX, k)
    BY <1>1, <1>4, <2>1
  <2>3. Number(w, k + 1) = F[k + 1] /\ Number(w, k) = F[k]
    BY <1>3, <2>1
  <2> QED BY <2>2, <2>3
<1>6. 0 \in 0 .. N
  OBVIOUS
<1> QED BY <1>3, <1>4, <1>5, <1>6

(* Equal bytes add the same.                                               *)
LEMMA NumberTail ==
  ASSUME NEW N \in Nat, NEW u \in Word(N), NEW w \in Word(N),
         NEW l \in 0 .. N, NEW m \in l .. N, \A j \in l .. m - 1 : u[j] = w[j]
  PROVE  Number(u, m) - Number(u, l) = Number(w, m) - Number(w, l)
<1> DEFINE D(k) == Number(u, k) - Number(u, l) = Number(w, k) - Number(w, l)
           T == {k \in Nat : l <= k /\ k <= m => D(k)}
<1>1. \A k \in 0 .. N : Number(u, k) \in Nat /\ Number(w, k) \in Nat
  BY NumberIs
<1>2. D(l)
  BY <1>1
<1>3. ASSUME NEW k \in l .. m - 1, D(k) PROVE D(k + 1)
  <2> DEFINE p == Pow(RADIX, k)
             nu == Number(u, k)
             nw == Number(w, k)
             x == u[k] * p
  <2>1. k \in 0 .. N - 1 /\ k \in 0 .. N /\ u[k] = w[k] /\ l \in 0 .. N
    OBVIOUS
  <2>2. Number(u, k + 1) = nu + x /\ Number(w, k + 1) = nw + x
    BY <2>1, NumberIs
  <2>3. nu \in Nat /\ nw \in Nat /\ Number(u, l) \in Nat /\ Number(w, l) \in Nat
    BY <1>1, <2>1
  <2>4. x \in Int
    <3>1. u[k] \in Nat /\ p \in Nat
      <4>1. u[k] \in Byte /\ k \in Nat
        BY <2>1 DEF Word
      <4> QED BY <4>1, ByteNat, Radix, PowIs
    <3> HIDE DEF p
    <3> QED BY <3>1
  <2>5. nu - Number(u, l) = nw - Number(w, l)
    BY <1>3
  <2> HIDE DEF x, nu, nw
  <2>6. (nu + x) - Number(u, l) = (nw + x) - Number(w, l)
    BY <2>3, <2>4, <2>5
  <2> QED BY <2>2, <2>6
<1> HIDE DEF D
<1>4. 0 \in T
  BY <1>2
<1>5. ASSUME NEW k \in Nat, k \in T PROVE k + 1 \in T
  <2> SUFFICES ASSUME l <= k + 1, k + 1 <= m PROVE D(k + 1)
    OBVIOUS
  <2>1. CASE l = k + 1
    BY <1>2, <2>1
  <2>2. CASE l # k + 1
    <3>1. k \in l .. m - 1 /\ D(k)
      BY <1>5, <2>2
    <3> QED BY <1>3, <3>1
  <2> QED BY <2>1, <2>2
<1>6. Nat \subseteq T
  <2> HIDE DEF T
  <2> QED BY <1>4, <1>5, Inductive
<1>7. D(m)
  BY <1>6
<1> QED BY <1>7 DEF D

(* k bytes stand for less than the k-th power of the radix.                *)
LEMMA NumberBound ==
  ASSUME NEW N \in Nat, NEW w \in Word(N), NEW k \in 0 .. N
  PROVE  Number(w, k) < Pow(RADIX, k)
<1> DEFINE T == {m \in Nat : m <= N => Number(w, m) < Pow(RADIX, m)}
<1>1. 0 \in T
  BY NumberIs, PowIs, Radix
<1>2. ASSUME NEW m \in Nat, m \in T PROVE m + 1 \in T
  <2> SUFFICES ASSUME m + 1 <= N PROVE Number(w, m + 1) < Pow(RADIX, m + 1)
    OBVIOUS
  <2> DEFINE p == Pow(RADIX, m)
             q == Number(w, m)
             b == w[m]
             B == RADIX
  <2>1. p \in Nat /\ Pow(RADIX, m + 1) = B * p
    BY PowIs, Radix
  <2>2. m \in 0 .. N - 1 /\ m \in 0 .. N
    OBVIOUS
  <2>3. q \in Nat /\ Number(w, m + 1) = q + b * p
    BY <2>2, NumberIs
  <2>4. b \in Nat /\ b < B /\ B \in Nat
    <3>1. b \in Byte
      BY <2>2 DEF Word
    <3> QED BY <3>1, ByteNat, Radix
  <2>5. q < p
    BY <1>2
  <2> HIDE DEF p, q, b, B
  <2>6. b * p <= (B - 1) * p
    BY <2>1, <2>4
  <2>7. (B - 1) * p = B * p - p
    BY <2>1, <2>4
  <2>8. b * p \in Nat /\ B * p \in Nat
    BY <2>1, <2>4
  <2>9. q + b * p < B * p
    BY <2>1, <2>3, <2>5, <2>6, <2>7, <2>8
  <2> QED BY <2>1, <2>3, <2>9
<1>3. Nat \subseteq T
  <2> HIDE DEF T
  <2> QED BY <1>1, <1>2, Inductive
<1> QED BY <1>3

-----------------------------------------------------------------------------
(* One byte of a turn: what it loses goes to the carry, and the next byte  *)
(* takes it from there.                                                    *)
LEMMA BitIs == ASSUME NEW c \in BOOLEAN PROVE Bit(c) \in {0, 1}
BY DEF Bit

LEMMA LeftByte ==
  ASSUME NEW N \in Nat, NEW r \in Word(N), NEW v \in Word(N), NEW k \in 0 .. N - 1,
         NEW c \in BOOLEAN, NEW x \in Byte, x = (2 * v[k] + Bit(c)) % RADIX,
         Number(r, k) + Bit(c) * Pow(RADIX, k) = 2 * Number(v, k)
  PROVE  Number([r EXCEPT ![k] = x], k + 1) + Bit(v[k] >= HALF) * Pow(RADIX, k + 1)
           = 2 * Number(v, k + 1)
<1> DEFINE s == [r EXCEPT ![k] = x]
           p == Pow(RADIX, k)
           b == v[k]
           d == Bit(c)
           e == Bit(b >= HALF)
           B == RADIX
<1>1. s \in Word(N) /\ s[k] = x /\ \A j \in 0 .. k - 1 : s[j] = r[j]
  BY DEF Word
<1> HIDE DEF s
<1>2. p \in Nat /\ Pow(RADIX, k + 1) = B * p
  BY PowIs, Radix
<1>3. k \in 0 .. N /\ k \in Nat /\ 0 \in 0 .. N /\ k \in 0 .. N
  OBVIOUS
<1>4. Number(s, k) = Number(r, k)
  <2>1. Number(s, k) - Number(s, 0) = Number(r, k) - Number(r, 0)
    BY <1>1, <1>3, NumberTail
  <2>2. Number(s, 0) = 0 /\ Number(r, 0) = 0 /\ Number(s, k) \in Nat /\ Number(r, k) \in Nat
    BY <1>1, <1>3, NumberIs
  <2> QED BY <2>1, <2>2
<1>5. b \in Byte /\ b \in Nat /\ b < B /\ B \in Nat \ {0} /\ B = 2 * HALF /\ HALF \in Nat
  <2>1. b \in Byte
    BY DEF Word
  <2> QED BY <2>1, ByteNat, Radix
<1>6. d \in {0, 1} /\ e \in {0, 1} /\ (e = 1 <=> b >= HALF)
  BY BitIs DEF Bit
<1>7. Number(s, k + 1) = Number(r, k) + x * p /\ Number(v, k + 1) = Number(v, k) + b * p
  <2>1. Number(s, k + 1) = Number(s, k) + s[k] * p
    BY <1>1, NumberIs
  <2>2. Number(v, k + 1) = Number(v, k) + b * p
    BY NumberIs
  <2> QED BY <1>1, <1>4, <2>1, <2>2
<1>8. Number(r, k) \in Nat /\ Number(v, k) \in Nat
  BY <1>3, NumberIs
<1> DEFINE nr == Number(r, k)
           nv == Number(v, k)
<1>9. x \in Nat /\ nr + d * p = 2 * nv /\ x = (2 * b + d) % B
  BY ByteNat
<1> HIDE DEF p, b, d, e, B, nr, nv
<1>10. x + B * e = 2 * b + d
  <2> DEFINE a == 2 * b + d
  <2>1. a \in Int /\ a - B * e \in 0 .. B - 1
    <3>1. CASE e = 0
      BY <1>5, <1>6, <3>1
    <3>2. CASE e = 1
      BY <1>5, <1>6, <3>2
    <3> QED BY <1>6, <3>1, <3>2
  <2> DEFINE y == a - B * e
  <2>2. a = B * e + y
    BY <1>5, <1>6, <2>1
  <2>3. x = a % B
    BY <1>9
  <2>4. y \in 0 .. B - 1 /\ e \in Int
    BY <1>6, <2>1
  <2> HIDE DEF a, y
  <2>5. a % B = y
    BY <1>5, <2>1, <2>2, <2>4, ModUnique
  <2>6. x = y
    BY <2>3, <2>5
  <2> QED BY <1>5, <1>6, <2>2, <2>4, <2>6 DEF a
<1>11. x * p + e * (B * p) = 2 * (b * p) + d * p
  <2>1. (x + B * e) * p = (2 * b + d) * p
    BY <1>10
  <2>2. (x + B * e) * p = x * p + e * (B * p)
    BY <1>2, <1>5, <1>6, <1>9
  <2>3. (2 * b + d) * p = 2 * (b * p) + d * p
    BY <1>2, <1>5, <1>6
  <2> QED BY <2>1, <2>2, <2>3
<1>12. (nr + x * p) + e * (B * p) = 2 * (nv + b * p)
  <2> DEFINE xp == x * p
             bp == b * p
             dp == d * p
             ep == e * (B * p)
  <2>1. xp \in Int /\ bp \in Int /\ dp \in Int /\ ep \in Int /\ nr \in Int /\ nv \in Int
    BY <1>2, <1>5, <1>6, <1>8, <1>9 DEF nr, nv
  <2>2. xp + ep = 2 * bp + dp /\ nr + dp = 2 * nv
    BY <1>9, <1>11
  <2> HIDE DEF xp, bp, dp, ep
  <2>3. (nr + xp) + ep = 2 * (nv + bp)
    BY <2>1, <2>2
  <2> QED BY <2>3 DEF xp, bp, ep
<1> QED BY <1>2, <1>7, <1>12 DEF nr, nv, b, e, B, s

LEMMA RightByte ==
  ASSUME NEW N \in Nat, NEW r \in Word(N), NEW v \in Word(N), NEW k \in 0 .. N - 1,
         NEW c \in BOOLEAN, NEW x \in Byte, x = v[k] \div 2 + HALF * Bit(c),
         2 * (Number(r, N) - Number(r, k + 1)) + Bit(c) * Pow(RADIX, k + 1)
           = Number(v, N) - Number(v, k + 1)
  PROVE  2 * (Number([r EXCEPT ![k] = x], N) - Number([r EXCEPT ![k] = x], k))
           + Bit(v[k] % 2 = 1) * Pow(RADIX, k) = Number(v, N) - Number(v, k)
<1> DEFINE s == [r EXCEPT ![k] = x]
           p == Pow(RADIX, k)
           b == v[k]
           d == Bit(c)
           e == Bit(b % 2 = 1)
           B == RADIX
<1>1. s \in Word(N) /\ s[k] = x /\ \A j \in k + 1 .. N - 1 : s[j] = r[j]
  BY DEF Word
<1> HIDE DEF s
<1>2. p \in Nat /\ Pow(RADIX, k + 1) = B * p
  BY PowIs, Radix
<1>3. k \in 0 .. N /\ k + 1 \in 0 .. N /\ N \in k + 1 .. N /\ N \in 0 .. N
  OBVIOUS
<1>4. Number(s, N) - Number(s, k + 1) = Number(r, N) - Number(r, k + 1)
  BY <1>1, <1>3, NumberTail
<1>5. b \in Nat /\ B \in Nat \ {0} /\ B = 2 * HALF /\ HALF \in Nat
  <2>1. b \in Byte
    BY DEF Word
  <2> QED BY <2>1, ByteNat, Radix
<1>6. d \in {0, 1} /\ e \in {0, 1} /\ e = b % 2 /\ b \div 2 \in Int /\ b = 2 * (b \div 2) + e
  BY <1>5, BitIs DEF Bit
<1>7. Number(s, k + 1) = Number(s, k) + x * p /\ Number(v, k + 1) = Number(v, k) + b * p
  <2>1. Number(s, k + 1) = Number(s, k) + s[k] * p
    BY <1>1, NumberIs
  <2>2. Number(v, k + 1) = Number(v, k) + b * p
    BY NumberIs
  <2> QED BY <1>1, <2>1, <2>2
<1> DEFINE sN == Number(s, N)
           s1 == Number(s, k + 1)
           s0 == Number(s, k)
           rN == Number(r, N)
           r1 == Number(r, k + 1)
           vN == Number(v, N)
           v1 == Number(v, k + 1)
           v0 == Number(v, k)
           h == b \div 2
<1>8. /\ sN \in Int /\ s1 \in Int /\ s0 \in Int /\ rN \in Int /\ r1 \in Int
      /\ vN \in Int /\ v1 \in Int /\ v0 \in Int
  <2>1. sN \in Nat /\ s1 \in Nat /\ s0 \in Nat
    BY <1>1, <1>3, NumberIs
  <2>2. rN \in Nat /\ r1 \in Nat
    BY <1>3, NumberIs
  <2>3. vN \in Nat /\ v1 \in Nat /\ v0 \in Nat
    BY <1>3, NumberIs
  <2> QED BY <2>1, <2>2, <2>3
<1>9. x \in Int /\ x = h + HALF * d /\ 2 * (rN - r1) + d * (B * p) = vN - v1
  BY <1>2, ByteNat
<1>10. /\ sN - s1 = rN - r1 /\ s1 = s0 + x * p /\ v1 = v0 + b * p
       /\ h \in Int /\ b = 2 * h + e
  BY <1>4, <1>6, <1>7
<1> HIDE DEF p, b, d, e, B, sN, s1, s0, rN, r1, vN, v1, v0, h
<1>11. 2 * (x * p) + e * p = b * p + d * (B * p)
  <2>1. 2 * x + e = b + d * B
    <3>1. CASE d = 0
      BY <1>5, <1>9, <1>10, <3>1
    <3>2. CASE d = 1
      <4>1. HALF * d = HALF /\ d * B = B /\ e \in Int
        BY <1>5, <1>6, <3>2
      <4>2. x = h + HALF
        BY <1>9, <4>1
      <4> QED BY <1>5, <1>10, <4>1, <4>2
    <3> QED BY <1>6, <3>1, <3>2
  <2>2. (2 * x + e) * p = (b + d * B) * p
    BY <2>1
  <2>3. (2 * x + e) * p = 2 * (x * p) + e * p
    BY <1>2, <1>6, <1>9
  <2>4. (b + d * B) * p = b * p + d * (B * p)
    BY <1>2, <1>5, <1>6
  <2> QED BY <2>2, <2>3, <2>4
<1>12. 2 * (sN - s0) + e * p = vN - v0
  <2> DEFINE xp == x * p
             bp == b * p
             dp == d * (B * p)
             ep == e * p
  <2>1. xp \in Int /\ bp \in Int /\ dp \in Int /\ ep \in Int
    BY <1>2, <1>5, <1>6, <1>9
  <2>2. /\ 2 * xp + ep = bp + dp /\ sN - s1 = rN - r1 /\ s1 = s0 + xp
        /\ v1 = v0 + bp /\ 2 * (rN - r1) + dp = vN - v1
    BY <1>9, <1>10, <1>11
  <2> HIDE DEF xp, bp, dp, ep
  <2>3. 2 * (sN - s0) + ep = vN - v0
    BY <1>8, <2>1, <2>2
  <2> QED BY <2>3 DEF ep
<1> QED BY <1>12 DEF sN, s0, vN, v0, p, b, e, s

-----------------------------------------------------------------------------
(* The invariant.                                                          *)

(* The number after the body was executed t times.                         *)
Result(t) ==
  IF dir = "left" THEN (Number(val, n) * Pow(2, t)) % Pow(RADIX, n)
  ELSE Number(val, n) \div Pow(2, t)

Carried == Bit(carry /\ i # First)

(* In the middle of a turn from v: the bytes still to be shifted are those *)
(* of v, and the others stand for twice or half of what they were, up to   *)
(* the carry.                                                              *)
Partly(v) ==
  /\ v \in Word(n)
  /\ dir = "left" =>
       /\ \A j \in i .. n - 1 : res[j] = v[j]
       /\ Number(res, i) + Carried * Pow(RADIX, i) = 2 * Number(v, i)
  /\ dir = "right" =>
       /\ \A j \in 0 .. i : res[j] = v[j]
       /\ 2 * (Number(res, n) - Number(res, i + 1)) + Carried * Pow(RADIX, i + 1)
            = Number(v, n) - Number(v, i + 1)

(* The body has been executed t times and is being executed again, or has  *)
(* been executed t times and the count tested.                             *)
Before == {"print", "crashed", "body"}
InTurn(t) ==
  /\ t < Turns /\ i \in (IF dir = "left" THEN 0 .. n ELSE -1 .. n - 1)
  /\ t = 0 => off = 0
  /\ CarryKept => \E v : Partly(v) /\ Number(v, n) = Result(t)
AfterTurn(t) ==
  /\ t \in 1 .. Turns /\ (zero <=> t = Turns) /\ (ph = "done" => t = Turns)
  /\ t = 1 => off = 0
  /\ CarryKept => Number(res, n) = Result(t)

ShiftIInv ==
  /\ ShiftTypeOK
  /\ move = 0 => off = 0
  /\ \E t \in Nat :
       /\ tmp = (Turns - t) % RADIX
       /\ IF ph \in Before THEN InTurn(t) ELSE AfterTurn(t)

-----------------------------------------------------------------------------
(* Type correctness.                                                       *)
ShiftTypes == ShiftTypeOK /\ n \in Nat \ {0} /\ move \in Int

LEMMA TypesOfShift == ASSUME ShiftTypeOK PROVE ShiftTypes
BY ShiftAssumption DEF ShiftAssumption, ShiftTypes, ShiftTypeOK

LEMMA ShiftInitType == ASSUME ShiftInit PROVE ShiftTypeOK
<1>1. n \in Nat \ {0} /\ 0 \in Byte
  BY ShiftAssumption, Radix DEF ShiftAssumption, ShiftInit, Byte
<1>2. First \in -1 .. n
  BY <1>1 DEF ShiftInit, First
<1> QED BY <1>1, <1>2 DEF ShiftInit, ShiftTypeOK

LEMMA ByteMod == ASSUME NEW a \in Int PROVE a % RADIX \in Byte
BY Radix, ModRange DEF Byte

LEMMA ShiftedByte ==
  ASSUME NEW b \in Byte, NEW c \in BOOLEAN PROVE Shifted(b, c) \in Byte
<1>1. b \in Nat /\ Bit(c) \in {0, 1} /\ HALF \in Nat /\ b < 2 * HALF /\ RADIX = 2 * HALF
  BY ByteNat, BitIs, Radix
<1>2. (2 * b + Bit(c)) % RADIX \in Byte
  <2>1. 2 * b + Bit(c) \in Int
    BY <1>1
  <2> QED BY <2>1, ByteMod
<1>3. b \div 2 + HALF * Bit(c) \in Byte
  <2>1. b \div 2 \in Nat /\ b \div 2 < HALF
    BY <1>1
  <2>2. HALF * Bit(c) \in {0, HALF}
    BY <1>1
  <2> QED BY <1>1, <2>1, <2>2 DEF Byte
<1> QED BY <1>2, <1>3 DEF Shifted

LEMMA OutIs ==
  ASSUME NEW b
  PROVE  /\ Out(b) \in BOOLEAN
         /\ dir = "left" => Out(b) = (b >= HALF)
         /\ dir # "left" => Out(b) = (b % 2 = 1)
<1>1. (b >= HALF) \in BOOLEAN /\ (b % 2 = 1) \in BOOLEAN
  OBVIOUS
<1> DEFINE g == b >= HALF
           h == b % 2 = 1
<1>2. Out(b) = IF dir = "left" THEN g ELSE h
  BY DEF Out
<1>3. g \in BOOLEAN /\ h \in BOOLEAN
  BY <1>1
<1> HIDE DEF g, h
<1>4. Out(b) \in BOOLEAN
  BY <1>2, <1>3, Zenon
<1>5. dir = "left" => Out(b) = g
  BY <1>2, Zenon
<1>6. dir # "left" => Out(b) = h
  BY <1>2, Zenon
<1> QED BY <1>4, <1>5, <1>6, Zenon DEF g, h

LEMMA ShiftNextType ==
  ASSUME ShiftTypeOK, [ShiftNext]_shiftVars PROVE ShiftTypeOK'
<1>t. ShiftTypes
  BY TypesOfShift
<1>1. CASE ShiftByte
  <2>1. PICK b \in Byte, c \in BOOLEAN :
          /\ res' = [res EXCEPT ![i] = Shifted(b, c /\ i # First)]
          /\ carry' = Out(b) /\ zero' = (res'[i] = 0)
    BY <1>1 DEF ShiftByte
  <2>2. Shifted(b, c /\ i # First) \in Byte
    BY <1>t, ShiftedByte DEF ShiftTypes, ShiftTypeOK
  <2>3. carry' \in BOOLEAN /\ zero' \in BOOLEAN
    BY <2>1, OutIs
  <2>4. i' \in -1 .. n
    BY <1>1, <1>t DEF ShiftByte, Done, ShiftTypes, ShiftTypeOK
  <2>5. res' \in [0 .. n - 1 -> Byte]
    BY <1>t, <2>1, <2>2 DEF ShiftTypes, ShiftTypeOK
  <2> QED BY <1>1, <1>t, <2>3, <2>4, <2>5 DEF ShiftByte, shift, ShiftTypes, ShiftTypeOK
<1>2. CASE CountDown
  <2>1. tmp - 1 \in Int
    BY <1>t, ByteNat DEF ShiftTypes, ShiftTypeOK
  <2>2. tmp' \in Byte
    BY <1>2, <2>1, ByteMod DEF CountDown
  <2>3. i' \in -1 .. n
    BY <1>2, <1>t DEF CountDown, ShiftTypes
  <2> QED BY <1>2, <1>t, <2>2, <2>3 DEF CountDown, shift, ShiftTypes, ShiftTypeOK
<1>3. CASE Again
  <2>1. off + move \in Int
    BY <1>t, ByteNat DEF ShiftTypes, ShiftTypeOK
  <2>2. off' \in Byte
    BY <1>3, <2>1, ByteMod DEF Again
  <2>3. i' \in -1 .. n
    BY <1>3, <1>t DEF Again, First, ShiftTypes, ShiftTypeOK
  <2> QED BY <1>3, <1>t, <2>2, <2>3 DEF Again, shift, ShiftTypes, ShiftTypeOK
<1>4. CASE Leave
  BY <1>4, <1>t DEF Leave, shift, ShiftTypes, ShiftTypeOK
<1>5. CASE PrintCount
  BY <1>5, <1>t DEF PrintCount, shift, ShiftTypes, ShiftTypeOK
<1>6. CASE UNCHANGED shiftVars
  BY <1>6, <1>t DEF shiftVars, ShiftTypes, ShiftTypeOK
<1> QED BY <1>1, <1>2, <1>3, <1>4, <1>5, <1>6 DEF ShiftNext

(* While the loop is executed every register stays a byte and Emitter::i   *)
(* a line of the body (ShiftLeft, ShiftRight of gen.cc).                   *)
THEOREM ShiftTyped == ShiftSpec => []ShiftTypeOK
<1>1. ShiftInit => ShiftTypeOK
  BY ShiftInitType
<1>2. ShiftTypeOK /\ [ShiftNext]_shiftVars => ShiftTypeOK'
  BY ShiftNextType
<1> QED BY <1>1, <1>2, PTL DEF ShiftSpec

-----------------------------------------------------------------------------
(* The invariant holds at first and is kept.                               *)
LEMMA TurnsIs ==
  ASSUME given \in Byte
  PROVE  Turns \in 1 .. RADIX /\ (given = 1 <=> Turns = 1)
<1>1. given \in Nat /\ given < RADIX /\ RADIX \in Nat /\ RADIX >= 2
  BY ByteNat, Radix
<1> QED BY <1>1 DEF Turns

LEMMA FirstIs ==
  /\ dir = "left" => First = 0
  /\ dir = "right" => First = n - 1
BY DEF First

(* Before the first byte of a turn nothing is shifted.                     *)
LEMMA PartlyFirst ==
  ASSUME ShiftTypes, i = First PROVE Partly(res)
<1>1. n \in Nat \ {0} /\ res \in Word(n) /\ dir \in {"left", "right"}
  BY DEF ShiftTypes, ShiftTypeOK, Word
<1>2. Carried = 0
  BY DEF Carried, Bit
<1>3. CASE dir = "left"
  <2>1. i = 0 /\ Number(res, 0) = 0 /\ Pow(RADIX, 0) = 1
    BY <1>1, <1>3, FirstIs, NumberIs, Radix, PowIs
  <2> QED BY <1>1, <1>2, <1>3, <2>1 DEF Partly
<1>4. CASE dir = "right"
  <2>1. i + 1 = n /\ n \in 0 .. n
    BY <1>1, <1>4, FirstIs
  <2>2. Number(res, n) \in Nat /\ Pow(RADIX, n) \in Nat
    BY <1>1, <2>1, NumberIs, Radix, PowIs
  <2> DEFINE a == Number(res, n)
             p == Pow(RADIX, n)
  <2>3. 2 * (a - a) + 0 * p = a - a
    <3> HIDE DEF a, p
    <3> QED BY <2>2 DEF a, p
  <2>4. 2 * (Number(res, n) - Number(res, i + 1)) + Carried * Pow(RADIX, i + 1)
          = Number(res, n) - Number(res, i + 1)
    BY <1>2, <2>1, <2>3
  <2> QED BY <1>1, <1>4, <2>4 DEF Partly
<1> QED BY <1>1, <1>3, <1>4

LEMMA ResultFirst == ASSUME ShiftTypes PROVE Number(val, n) = Result(0)
<1> DEFINE a == Number(val, n)
           p == Pow(RADIX, n)
<1>1. n \in Nat /\ n \in 0 .. n /\ val \in Word(n)
  BY DEF ShiftTypes, ShiftTypeOK, Word
<1>2. a \in Nat /\ p \in Nat \ {0} /\ a < p
  BY <1>1, NumberIs, NumberBound, PowPositive, Radix
<1>3. Pow(2, 0) = 1
  BY PowIs
<1>4. (a * 1) % p = a /\ a \div 1 = a
  <2> HIDE DEF a, p
  <2>1. a \in Int /\ a \in 0 .. p - 1 /\ a = p * 0 + a
    BY <1>2
  <2>2. a % p = a
    BY <1>2, <2>1, ModUnique
  <2> QED BY <1>2, <2>2
<1> QED BY <1>3, <1>4 DEF Result

LEMMA ShiftInitInv == ASSUME ShiftInit PROVE ShiftIInv
<1>1. ShiftTypeOK /\ ShiftTypes
  BY ShiftInitType, TypesOfShift
<1>2. Turns \in 1 .. RADIX /\ tmp = given /\ RADIX \in Nat \ {0} /\ tmp \in Byte
  BY <1>1, TurnsIs, Radix DEF ShiftInit, ShiftTypeOK
<1>3. tmp = (Turns - 0) % RADIX
  <2>1. CASE given = 0
    <3>1. Turns = RADIX /\ RADIX = RADIX * 1 + 0 /\ 0 \in 0 .. RADIX - 1 /\ RADIX \in Int
      BY <1>2, <2>1 DEF Turns
    <3>2. RADIX % RADIX = 0
      BY <1>2, <3>1, ModUnique
    <3> QED BY <1>2, <2>1, <3>1, <3>2
  <2>2. CASE given # 0
    <3>1. Turns = tmp /\ tmp \in 0 .. RADIX - 1 /\ tmp = RADIX * 0 + tmp /\ tmp \in Int
      BY <1>2, <2>2 DEF Turns, Byte
    <3>2. tmp % RADIX = tmp
      BY <1>2, <3>1, ModUnique
    <3> QED BY <3>1, <3>2
  <2> QED BY <2>1, <2>2
<1>4. InTurn(0)
  <2>1. Partly(val) /\ Number(val, n) = Result(0)
    BY <1>1, PartlyFirst, ResultFirst DEF ShiftInit
  <2>2. i \in (IF dir = "left" THEN 0 .. n ELSE -1 .. n - 1)
    BY <1>1 DEF ShiftInit, First, ShiftTypes
  <2> QED BY <1>2, <2>1, <2>2 DEF InTurn, ShiftInit
<1> QED BY <1>1, <1>3, <1>4 DEF ShiftInit, ShiftIInv, Before

(* If the carry is kept, a byte that is read was not shifted in this turn  *)
(* yet, and what is shifted into it is what the byte before it gave.       *)
LEMMA ReadsIs ==
  ASSUME ShiftTypes, CarryKept, NEW t \in Nat, t < Turns, tmp = (Turns - t) % RADIX,
         NEW v, Partly(v), i \in 0 .. n - 1,
         NEW b, NEW c \in BOOLEAN, Reads(b, c)
  PROVE  b = v[i] /\ (c /\ i # First) = (carry /\ i # First)
<1>1. res[i] = v[i]
  BY DEF ShiftTypes, ShiftTypeOK, Partly
<1>2. CASE NoReload
  BY <1>1, <1>2 DEF Reads, NoReload
<1>3. CASE ~NoReload
  <2>1. Turns = 1 /\ (i = First \/ i \in inReg)
    BY <1>3 DEF CarryKept
  <2>2. t = 0 /\ given = 1 /\ RADIX \in Nat /\ RADIX >= 2
    BY <2>1, TurnsIs, Radix DEF ShiftTypes, ShiftTypeOK
  <2>3. 1 % RADIX = 1
    <3>1. 1 \in 0 .. RADIX - 1 /\ 1 = RADIX * 0 + 1 /\ RADIX \in Nat \ {0}
      BY <2>2
    <3> QED BY <3>1, ModUnique
  <2>4. tmp = given
    BY <2>1, <2>2, <2>3
  <2> QED BY <1>1, <2>1, <2>4 DEF Reads
<1> QED BY <1>2, <1>3

LEMMA ShiftByteKeeps ==
  ASSUME ShiftTypes, ShiftTypeOK', ShiftByte, NEW t \in Nat, InTurn(t),
         tmp = (Turns - t) % RADIX
  PROVE  InTurn(t)'
<1>1. n \in Nat \ {0} /\ dir \in {"left", "right"} /\ carry \in BOOLEAN /\ res \in Word(n)
  BY DEF ShiftTypes, ShiftTypeOK, Word
<1>2. /\ dir' = dir /\ n' = n /\ val' = val /\ given' = given /\ inReg' = inReg /\ off' = off
      /\ i' = IF dir = "left" THEN i + 1 ELSE i - 1
  BY DEF ShiftByte, shift
<1>3. /\ i \in 0 .. n - 1
      /\ i' \in (IF dir' = "left" THEN 0 .. n' ELSE -1 .. n' - 1)
  BY <1>1, <1>2 DEF InTurn, ShiftByte, Done
<1>4. Turns' = Turns /\ Result(t)' = Result(t) /\ CarryKept' = CarryKept
  BY <1>2 DEF Turns, Result, CarryKept, NoReload, First
<1>5. ASSUME CarryKept, NEW v, Partly(v)
      PROVE  Partly(v)'
  <2> DEFINE c == carry /\ i # First
  <2>0. PICK b \in Byte, d \in BOOLEAN :
          /\ Reads(b, d)
          /\ res' = [res EXCEPT ![i] = Shifted(b, d /\ i # First)]
          /\ carry' = Out(b)
    BY DEF ShiftByte
  <2>2. b = v[i] /\ (d /\ i # First) = c
    BY <1>3, <1>5, <2>0, ReadsIs DEF InTurn
  <2>1. res' = [res EXCEPT ![i] = Shifted(b, c)] /\ carry' = Out(b)
    BY <2>0, <2>2
  <2>3. c \in BOOLEAN /\ v \in Word(n) /\ Carried = Bit(c)
    BY <1>1, <1>5 DEF Partly, Carried
  <2> DEFINE x == Shifted(b, c)
  <2>4. x \in Byte
    <3> HIDE DEF c
    <3> QED BY <2>3, ShiftedByte
  <2>5. v \in Word(n')
    BY <1>2, <2>3
  <2>6. ASSUME dir = "left"
        PROVE  /\ \A j \in i' .. n' - 1 : res'[j] = v[j]
               /\ Number(res', i') + Carried' * Pow(RADIX, i') = 2 * Number(v, i')
    <3>1. i' = i + 1 /\ Carried' = Bit(v[i] >= HALF)
      <4>1. i' = i + 1 /\ First' = 0
        BY <1>2, <2>6, FirstIs DEF First
      <4>2. (carry' /\ i' # First') = carry'
        BY <1>3, <2>1, <4>1, OutIs
      <4>3. carry' = (v[i] >= HALF)
        BY <2>1, <2>2, <2>6, OutIs
      <4> QED BY <4>1, <4>2, <4>3 DEF Carried
    <3>2. \A j \in i' .. n' - 1 : res'[j] = v[j]
      <4> TAKE j \in i' .. n' - 1
      <4>1. j \in i .. n - 1 /\ j # i /\ j \in 0 .. n - 1
        BY <1>2, <1>3, <3>1
      <4>2. res[j] = v[j]
        BY <1>5, <2>6, <4>1 DEF Partly
      <4> QED BY <1>1, <2>1, <4>1, <4>2 DEF Word
    <3>3. x = (2 * v[i] + Bit(c)) % RADIX
      BY <2>2, <2>6 DEF Shifted
    <3>4. Number(res, i) + Bit(c) * Pow(RADIX, i) = 2 * Number(v, i)
      BY <1>5, <2>3, <2>6 DEF Partly
    <3>5. Number([res EXCEPT ![i] = x], i + 1) + Bit(v[i] >= HALF) * Pow(RADIX, i + 1)
            = 2 * Number(v, i + 1)
      <4> HIDE DEF x, c
      <4> QED BY <1>1, <1>3, <2>3, <2>4, <3>3, <3>4, LeftByte
    <3> QED BY <2>1, <3>1, <3>2, <3>5
  <2>7. ASSUME dir = "right"
        PROVE  /\ \A j \in 0 .. i' : res'[j] = v[j]
               /\ 2 * (Number(res', n') - Number(res', i' + 1)) + Carried' * Pow(RADIX, i' + 1)
                    = Number(v, n') - Number(v, i' + 1)
    <3>1. i' + 1 = i /\ Carried' = Bit(v[i] % 2 = 1)
      <4>1. i' = i - 1 /\ First' = n - 1
        BY <1>2, <2>7 DEF First
      <4>2. (carry' /\ i' # First') = carry'
        BY <1>3, <2>1, <4>1, OutIs
      <4>3. carry' = (v[i] % 2 = 1)
        BY <2>1, <2>2, <2>7, OutIs
      <4>4. (i - 1) + 1 = i
        BY <1>3
      <4> QED BY <4>1, <4>2, <4>3, <4>4 DEF Carried
    <3>2. \A j \in 0 .. i' : res'[j] = v[j]
      <4> TAKE j \in 0 .. i'
      <4>1. j \in 0 .. i /\ j # i /\ j \in 0 .. n - 1
        <5>1. i' = i - 1 /\ i \in Int
          BY <1>2, <1>3, <2>7
        <5> QED BY <1>1, <1>3, <5>1
      <4>2. res[j] = v[j]
        BY <1>5, <2>7, <4>1 DEF Partly
      <4> QED BY <1>1, <2>1, <4>1, <4>2 DEF Word
    <3>3. x = v[i] \div 2 + HALF * Bit(c)
      BY <2>2, <2>7 DEF Shifted
    <3>4. 2 * (Number(res, n) - Number(res, i + 1)) + Bit(c) * Pow(RADIX, i + 1)
            = Number(v, n) - Number(v, i + 1)
      BY <1>5, <2>3, <2>7 DEF Partly
    <3>5. 2 * (Number([res EXCEPT ![i] = x], n) - Number([res EXCEPT ![i] = x], i))
            + Bit(v[i] % 2 = 1) * Pow(RADIX, i) = Number(v, n) - Number(v, i)
      <4> HIDE DEF x, c
      <4> QED BY <1>1, <1>3, <2>3, <2>4, <3>3, <3>4, RightByte
    <3> QED BY <1>2, <2>1, <3>1, <3>2, <3>5
  <2> QED BY <1>2, <2>5, <2>6, <2>7 DEF Partly
<1>6. ASSUME CarryKept'
      PROVE  \E v : Partly(v)' /\ Number(v, n') = Result(t)'
  <2>1. PICK v : Partly(v) /\ Number(v, n) = Result(t)
    BY <1>4, <1>6 DEF InTurn
  <2>2. Partly(v)'
    BY <1>4, <1>5, <1>6, <2>1
  <2> QED BY <1>2, <1>4, <2>1, <2>2
<1> QED BY <1>2, <1>3, <1>4, <1>6 DEF InTurn

(* The last byte of a turn was shifted: the number was doubled or halved.  *)
LEMMA TurnEnds ==
  ASSUME ShiftTypes, NEW t \in Nat, NEW v, Partly(v), Number(v, n) = Result(t),
         Done, ph = "body"
  PROVE  Number(res, n) = Result(t + 1)
<1> DEFINE a == Number(val, n)
           p == Pow(2, t)
           m == Pow(RADIX, n)
           x == Number(v, n)
           y == Number(res, n)
<1>1. /\ n \in Nat \ {0} /\ n \in 0 .. n /\ 0 \in 0 .. n
      /\ res \in Word(n) /\ val \in Word(n) /\ v \in Word(n)
      /\ dir \in {"left", "right"} /\ carry \in BOOLEAN
  BY DEF ShiftTypes, ShiftTypeOK, Word, Partly
<1>2. /\ a \in Nat /\ x \in Nat /\ y \in Nat /\ y < m /\ m \in Nat \ {0}
      /\ p \in Nat \ {0} /\ Pow(2, t + 1) = 2 * p
  BY <1>1, NumberIs, NumberBound, PowIs, PowPositive, Radix
<1>3. Carried \in {0, 1} /\ Carried \in Int
  <2> DEFINE c == carry /\ i # First
  <2>1. c \in BOOLEAN /\ Carried = Bit(c)
    BY DEF Carried
  <2> HIDE DEF c
  <2> QED BY <2>1, BitIs
<1>4. CASE dir = "left"
  <2>1. i = n
    BY <1>4 DEF Done
  <2>2. y + Carried * m = 2 * x
    BY <1>4, <2>1 DEF Partly
  <2>3. x = (a * p) % m /\ Result(t + 1) = (a * (2 * p)) % m
    BY <1>2, <1>4 DEF Result
  <2> DEFINE z == a * p
             c == Carried
  <2>4. z \in Int /\ a * (2 * p) = 2 * z
    <3> HIDE DEF a, p
    <3> QED BY <1>2
  <2> HIDE DEF z, a, p, m, x, y, c
  <2>5. (2 * x) % m = y
    <3>1. 2 * x = m * c + y /\ y \in 0 .. m - 1 /\ 2 * x \in Int /\ c \in Int
      BY <1>2, <1>3, <2>2 DEF c
    <3> QED BY <1>2, <3>1, ModUnique
  <2>6. (2 * (z % m)) % m = (2 * z) % m
    BY <1>2, <2>4, ModTwice
  <2>7. x = z % m
    BY <2>3 DEF z
  <2> QED BY <2>3, <2>4, <2>5, <2>6, <2>7 DEF y
<1>5. CASE dir = "right"
  <2>1. i + 1 = 0 /\ i # First
    BY <1>1, <1>5, FirstIs DEF Done
  <2>2. Number(res, 0) = 0 /\ Number(v, 0) = 0 /\ Pow(RADIX, 0) = 1
    BY <1>1, NumberIs, PowIs, Radix
  <2>3. 2 * (y - 0) + Carried * 1 = x - 0
    BY <1>5, <2>1, <2>2 DEF Partly
  <2>4. x = a \div p /\ Result(t + 1) = a \div (2 * p)
    BY <1>2, <1>5 DEF Result
  <2> DEFINE c == Carried
  <2> HIDE DEF a, p, m, x, y, c
  <2>5. x \div 2 = y
    <3>1. x = 2 * y + c /\ c \in 0 .. 2 - 1 /\ 2 \in Nat \ {0} /\ x \in Int /\ y \in Int
      BY <1>2, <1>3, <2>3 DEF c
    <3> QED BY <3>1, DivUnique
  <2>6. a \div (2 * p) = (a \div p) \div 2
    BY <1>2, DivTwice
  <2> QED BY <2>4, <2>5, <2>6 DEF y
<1> QED BY <1>1, <1>4, <1>5

LEMMA CountDownKeeps ==
  ASSUME ShiftTypes, ShiftTypeOK', CountDown, NEW t \in Nat, InTurn(t),
         tmp = (Turns - t) % RADIX
  PROVE  tmp' = (Turns - (t + 1)) % RADIX /\ AfterTurn(t + 1)'
<1>1. /\ dir' = dir /\ n' = n /\ val' = val /\ given' = given /\ inReg' = inReg
      /\ off' = off /\ res' = res /\ ph' = "test"
      /\ tmp' = (tmp - 1) % RADIX /\ zero' = (tmp' = 0)
  BY DEF CountDown, shift
<1>2. Turns' = Turns /\ Result(t + 1)' = Result(t + 1) /\ CarryKept' = CarryKept
  BY <1>1 DEF Turns, Result, CarryKept, NoReload, First
<1>3. Turns \in 1 .. RADIX /\ RADIX \in Nat \ {0}
  BY TurnsIs, Radix DEF ShiftTypes, ShiftTypeOK
<1>4. tmp' = (Turns - (t + 1)) % RADIX
  <2> DEFINE a == Turns - t
  <2>1. a \in Int /\ -1 \in Int /\ (a % RADIX) + (-1) = tmp - 1 /\ a + (-1) = Turns - (t + 1)
    <3>1. a \in Int /\ a % RADIX \in Int
      BY <1>3, ModRange
    <3> QED BY <1>3, <3>1
  <2> HIDE DEF a
  <2>2. ((a % RADIX) + (-1)) % RADIX = (a + (-1)) % RADIX
    BY <1>3, <2>1, ModAdd
  <2> QED BY <1>1, <2>1, <2>2
<1>5. t + 1 \in 1 .. Turns
  BY <1>3 DEF InTurn
<1>6. zero' <=> t + 1 = Turns
  <2> DEFINE d == Turns - (t + 1)
  <2>1. d \in Int /\ d \in 0 .. RADIX - 1 /\ d = RADIX * 0 + d
    BY <1>3, <1>5
  <2> HIDE DEF d
  <2>2. d % RADIX = d
    BY <1>3, <2>1, ModUnique
  <2>3. tmp' = d
    BY <1>4, <2>2 DEF d
  <2>4. d = 0 <=> t + 1 = Turns
    BY <1>3 DEF d
  <2> QED BY <1>1, <2>3, <2>4
<1>7. ASSUME CarryKept' PROVE Number(res', n') = Result(t + 1)'
  <2>1. PICK v : Partly(v) /\ Number(v, n) = Result(t)
    BY <1>2, <1>7 DEF InTurn
  <2>2. Number(res, n) = Result(t + 1)
    BY <2>1, TurnEnds DEF CountDown
  <2> QED BY <1>1, <1>2, <2>2
<1>8. t + 1 = 1 => off' = 0
  BY <1>1 DEF InTurn
<1> QED BY <1>1, <1>2, <1>4, <1>5, <1>6, <1>7, <1>8 DEF AfterTurn

LEMMA AgainKeeps ==
  ASSUME ShiftTypes, ShiftTypes', Again, NEW t \in Nat, AfterTurn(t)
  PROVE  InTurn(t)'
<1>1. /\ dir' = dir /\ n' = n /\ val' = val /\ given' = given /\ inReg' = inReg
      /\ res' = res /\ i' = First /\ First' = First
  BY DEF Again, shift, First
<1>2. Turns' = Turns /\ Result(t)' = Result(t) /\ CarryKept' = CarryKept
  BY <1>1 DEF Turns, Result, CarryKept, NoReload, First
<1>3. t < Turns /\ t # 0
  BY TurnsIs DEF AfterTurn, Again, ShiftTypes, ShiftTypeOK
<1>4. i' \in (IF dir' = "left" THEN 0 .. n' ELSE -1 .. n' - 1)
  BY <1>1 DEF First, ShiftTypes
<1>5. Partly(res)'
  <2>1. (ShiftTypes /\ i = First)' => Partly(res)'
    BY PartlyFirst, PTL
  <2> QED BY <1>1, <2>1
<1>6. ASSUME CarryKept'
      PROVE  \E v : Partly(v)' /\ Number(v, n') = Result(t)'
  <2>1. Number(res', n') = Result(t)'
    BY <1>1, <1>2, <1>6 DEF AfterTurn
  <2> QED BY <1>3, <1>5, <2>1
<1> QED BY <1>2, <1>3, <1>4, <1>6 DEF InTurn

LEMMA ShiftNextInv ==
  ASSUME ShiftIInv, [ShiftNext]_shiftVars PROVE ShiftIInv'
<1>1. ShiftTypeOK /\ ShiftTypes /\ (move = 0 => off = 0)
  BY TypesOfShift DEF ShiftIInv
<1>2. ShiftTypeOK'
  BY <1>1, ShiftNextType
<1>3. ShiftTypes'
  <2>1. ShiftTypeOK' => ShiftTypes'
    BY TypesOfShift, PTL
  <2> QED BY <1>2, <2>1
<1>4. move' = 0 => off' = 0
  <2>1. CASE Again
    <3>1. ASSUME move = 0 PROVE (off + move) % RADIX = 0
      <4>1. off + move = 0 /\ 0 = RADIX * 0 + 0 /\ 0 \in 0 .. RADIX - 1
        BY <1>1, <3>1, Radix
      <4>2. 0 % RADIX = 0
        BY <4>1, Radix, ModUnique
      <4> QED BY <4>1, <4>2
    <3> QED BY <2>1, <3>1 DEF Again, shift
  <2>2. CASE PrintCount \/ ShiftByte \/ CountDown \/ Leave \/ UNCHANGED shiftVars
    BY <1>1, <2>2 DEF PrintCount, ShiftByte, CountDown, Leave, shift, shiftVars
  <2> QED BY <2>1, <2>2 DEF ShiftNext
<1>5. PICK t \in Nat : /\ tmp = (Turns - t) % RADIX
                       /\ IF ph \in Before THEN InTurn(t) ELSE AfterTurn(t)
  BY DEF ShiftIInv
<1> DEFINE Held(k) == /\ tmp = (Turns - k) % RADIX
                      /\ IF ph \in Before THEN InTurn(k) ELSE AfterTurn(k)
<1>6. \E k \in Nat : Held(k)'
  <2>1. CASE ShiftByte
    <3>1. ph \in Before /\ ph' \in Before /\ tmp' = tmp /\ Turns' = Turns
      BY <2>1 DEF ShiftByte, shift, Turns, Before
    <3>2. InTurn(t)'
      BY <1>1, <1>2, <1>5, <2>1, <3>1, ShiftByteKeeps
    <3> QED BY <1>5, <3>1, <3>2
  <2>2. CASE CountDown
    <3>1. ph \in Before /\ ph' \notin Before /\ Turns' = Turns
      BY <2>2 DEF CountDown, shift, Turns, Before
    <3>2. tmp' = (Turns - (t + 1)) % RADIX /\ AfterTurn(t + 1)'
      BY <1>1, <1>2, <1>5, <2>2, <3>1, CountDownKeeps
    <3>3. t + 1 \in Nat
      OBVIOUS
    <3> QED BY <3>1, <3>2, <3>3
  <2>3. CASE Again
    <3>1. ph \notin Before /\ ph' \in Before /\ tmp' = tmp /\ Turns' = Turns
      BY <2>3 DEF Again, shift, Turns, Before
    <3>2. InTurn(t)'
      BY <1>1, <1>3, <1>5, <2>3, <3>1, AgainKeeps
    <3> QED BY <1>5, <3>1, <3>2
  <2>4. CASE Leave
    <3>1. ph \notin Before /\ ph' \notin Before /\ tmp' = tmp /\ Turns' = Turns
      BY <2>4 DEF Leave, shift, Turns, Before
    <3>2. AfterTurn(t)'
      BY <1>5, <2>4, <3>1 DEF AfterTurn, Leave, shift, Turns, CarryKept, NoReload, First, Result
    <3> QED BY <1>5, <3>1, <3>2
  <2>5. CASE UNCHANGED shiftVars
    <3>1. ph' = ph /\ tmp' = tmp /\ Turns' = Turns
      BY <2>5 DEF shiftVars, Turns
    <3>2. CASE ph \in Before
      <4>1. InTurn(t)'
        BY <1>5, <2>5, <3>2
           DEF InTurn, Partly, Carried, First, shiftVars, Turns, CarryKept, NoReload, First, Result
      <4> QED BY <1>5, <3>1, <3>2, <4>1
    <3>3. CASE ph \notin Before
      <4>1. AfterTurn(t)'
        BY <1>5, <2>5, <3>3 DEF AfterTurn, shiftVars, Turns, CarryKept, NoReload, First, Result
      <4> QED BY <1>5, <3>1, <3>3, <4>1
    <3> QED BY <3>2, <3>3
  <2>6. CASE PrintCount
    <3>1. ph \in Before /\ ph' \in Before /\ tmp' = tmp /\ Turns' = Turns
      BY <2>6 DEF PrintCount, shift, Turns, Before
    <3>2. InTurn(t)'
      BY <1>5, <2>6, <3>1
         DEF InTurn, Partly, Carried, First, PrintCount, shift, Turns, CarryKept, NoReload, Result
    <3> QED BY <1>5, <3>1, <3>2
  <2> QED BY <2>1, <2>2, <2>3, <2>4, <2>5, <2>6 DEF ShiftNext
<1> QED BY <1>2, <1>4, <1>6 DEF ShiftIInv

(* Between any two instructions of the loop a whole number of turns is     *)
(* done, the rest of the count is in tmp, and the result stands for the    *)
(* operand shifted that often.                                             *)
THEOREM ShiftInvariant == ShiftSpec => []ShiftIInv
<1>1. ShiftInit => ShiftIInv
  BY ShiftInitInv
<1>2. ShiftIInv /\ [ShiftNext]_shiftVars => ShiftIInv'
  BY ShiftNextInv
<1> QED BY <1>1, <1>2, PTL DEF ShiftSpec

(* The loop that ShiftLeft and ShiftRight print leaves the operand shifted *)
(* by the count, 256 times for a count of 0, if nothing is reloaded in its *)
(* body, or only the byte shifted first and the body is executed once.     *)
THEOREM ShiftIsComputed == ShiftSpec => []ShiftComputes
<1>1. ShiftIInv => ShiftComputes
  BY DEF ShiftIInv, AfterTurn, Before, Result, ShiftComputes
<1> QED BY <1>1, ShiftInvariant, PTL

(* ... and sF where the code after it expects it, if the body does not     *)
(* move sF or is executed once.                                            *)
THEOREM ShiftLeavesSP == ShiftSpec => []ShiftKeepsSP
<1>1. ShiftIInv => ShiftKeepsSP
  BY DEF ShiftIInv, AfterTurn, Before, ShiftKeepsSP
<1> QED BY <1>1, ShiftInvariant, PTL
=============================================================================
