------------------------------- MODULE PbCall -------------------------------
(***************************************************************************)
(* Calls, as the caller sees them: Receive, Send, Call and Return of       *)
(* gen.cc, on top of the allocator and the assignments of PbGen.           *)
(*                                                                         *)
(* The main function calls into the other register bank; any other         *)
(* function shares its bank with its callee.  The callee is external: it   *)
(* leaves a result in the first registers of its bank, may leave anything  *)
(* in the others and in the cells above the frame, and returns with sF     *)
(* where it was (ReturnAlwaysPopsFrame of PbMachineProofs).  All arguments *)
(* go in registers.  Five more reasons are marked in g.hit:                *)
(*   "argument evicted"       reloading an argument took the register of   *)
(*                            one sent before it                           *)
(*   "home forgotten"         a register beyond the counted arguments      *)
(*                            names a live byte that lives elsewhere       *)
(*   "live register dropped"  a register treated as invalid after the call *)
(*                            held a value that is not on the stack        *)
(*   "star register reused"   a literal sent in main goes through a register*)
(*                            that has become another's                    *)
(*   "result overwritten"     loading one byte of the result of a function *)
(*                            overwrote another                            *)
(***************************************************************************)
EXTENDS PbGen, Sequences

CONSTANTS
  ARG_REG_CNT,  \* registers that carry arguments
  ParamLists,   \* the parameter lists a function may have
  Arguments,    \* the literals sent to calls
  starSym       \* the static iTemp of Bank::star, dead in every instruction

ASSUME CallAssumption ==
  /\ ARG_REG_CNT \in 1 .. REG_CNT - 2
  /\ MaxSize <= REG_CNT - 1  \* a bank has room for a result
  /\ ParamLists \subseteq Seq(Syms)
  /\ starSym \in Syms \ Temps
  /\ Arguments \subseteq UNION {[0 .. n - 1 -> Byte] : n \in 1 .. MaxSize}

VARIABLES
  isMain,   \* Function::isMain
  params,   \* the parameters still to be received
  sent,     \* the values sent to the call that comes next
  other,    \* the registers of the other bank
  done      \* the function has returned

callVars == <<g, val, next, isMain, params, sent, other, done>>

Total(n, k)  == LET f[m \in 0 .. k] == IF m = 0 THEN 0 ELSE f[m - 1] + n[m] IN f[k]
Size(s)      == Total([k \in 1 .. Len(s) |-> SizeOf[s[k]]], Len(s))
Length(v)    == Cardinality(DOMAIN v)
Sent(k)      == Total([m \in 1 .. Len(sent) |-> Length(sent[m])], k)  \* bytes of the first k

(* The register that byte i of the k-th argument travels in: the arguments *)
(* are packed from register 0 on.                                          *)
lastReg         == Sent(Len(sent))
ArgReg(k, i)    == Sent(k - 1) + i

CallInit ==
  /\ isMain \in BOOLEAN
  /\ \E live \in [Syms -> Ends], ps \in ParamLists :
       /\ isMain => ps = <<>>
       /\ Size(ps) <= ARG_REG_CNT
       /\ params = ps
       /\ g = Fresh([live EXCEPT ![starSym] = 0], Size(ps))
  /\ val = [b \in AllBytes |-> Junk]
  /\ next = None /\ sent = <<>> /\ done = FALSE
  /\ other = [r \in Regs |-> Junk]

-----------------------------------------------------------------------------
(* Receive: a parameter x with the value c is in its registers.            *)
Receive(x, c) ==
  /\ params # <<>> /\ x = Head(params) /\ g.liveTo[x] >= g.seq
  /\ LET r == g.first - Size(params)
         arrived(k, i) == [occupy(Emit(k, r + i, c[i]), r + i, x, i)
                             EXCEPT !.home[<<x, i>>] = r + i]
     IN  Generate(ForBytes(arrived, g, SizeOf[x]))
  /\ val' = Value(val, x, c)
  /\ params' = Tail(params)
  /\ UNCHANGED <<next, isMain, sent, other, done>>

Ready == params = <<>> /\ ~done

SendByteFirst(h, x, i, r) ==  \* every argument goes to register 0 on
  LET k == Touch(occupy(clear(h, i), i, x, i), x, i)
  IN  Emit(k, i, k.reg[k.home[<<x, i>>]])

(* Send: byte by byte, register lastReg is cleared, occupied by the        *)
(* argument and loaded with it.  The operand is printed last: it may have  *)
(* just lost its register, and a byte that is reloaded may evict an        *)
(* argument that is already in place.                                      *)
SendByte(h, x, i, r) ==
  LET k == Touch(occupy(clear(h, r), r, x, i), x, i)
      m == Emit(k, r, k.reg[k.home[<<x, i>>]])
  IN  IF \A q \in 0 .. r - 1 : m.reg[q] = h.reg[q] THEN m
      ELSE [m EXCEPT !.hit = @ \cup {"argument evicted"}]

(* In main each byte is copied into the other bank as it is printed.       *)
StarByte(k, x, i, r) ==
  LET m == Touch(k[1], x, i)
  IN  <<m, [k[2] EXCEPT ![r + i] = m.reg[m.home[<<x, i>>]]]>>

(* A literal is loaded into its register, which names nothing.  In main it *)
(* goes through the register of a static iTemp, starSym, which is purged   *)
(* while the iTemp still points to it: whatever takes the register next is *)
(* overwritten by the next literal.                                        *)
SendLitByte(h, c, i, r) == Emit(clear(h, r), r, c[i])
StarLitByte(k, c, i, r) ==
  LET b == <<starSym, i>>
      s == k[1].home[b]
      m == LoadLit(k[1], starSym, i, c[i])
      u == [m EXCEPT !.bank[m.home[b]] = None,
                     !.hit = IF s # None /\ k[1].bank[s] # None
                             THEN @ \cup {"star register reused"} ELSE @]
  IN  <<u, [k[2] EXCEPT ![r + i] = c[i]]>>

FitsOnce(v) == Length(v) <= ARG_REG_CNT  \* forgets what was sent before
Fits(v)     == lastReg + Length(v) <= ARG_REG_CNT

(* Send of the bytes v, which Star and Load print.                         *)
SendBytes(v, Star(_, _), Plain(_, _)) ==
  /\ Ready /\ Fits(v)
  /\ IF isMain
     THEN LET starred == ForBytes(Star, <<g, other>>, Length(v))
          IN  Generate(starred[1]) /\ other' = starred[2]
     ELSE Generate(ForBytes(Plain, g, Length(v))) /\ UNCHANGED other
  /\ sent' = Append(sent, v)
  /\ UNCHANGED <<val, next, isMain, params, done>>

Send(x) ==
  /\ Readable(x)
  /\ SendBytes(BytesOf(x), LAMBDA k, i : StarByte(k, x, i, lastReg),
                            LAMBDA k, i : SendByte(k, x, i, lastReg + i))
SendLit(c) ==
  SendBytes(c, LAMBDA k, i : StarLitByte(k, c, i, lastReg),
               LAMBDA k, i : SendLitByte(k, c, i, lastReg + i))

(* Call of a function outside main: the registers beyond the counted       *)
(* arguments that hold something live are cleared, and the home of what    *)
(* they name is forgotten, wherever it was.                                *)
Counted == Max({Sent(k) : k \in {m \in 0 .. Len(sent) : Sent(m) < ARG_REG_CNT}})
SaveNothing(h, r) == h
SaveByte(h, r) ==
  IF r < Counted \/ h.bank[r] = None THEN h
  ELSE IF LiveTo(h, r) <= h.seq THEN h
  ELSE LET b == h.bank[r]
           k == clear(h, r)
       IN  [k EXCEPT !.home[b] = None,
                     !.hit = IF k.home[b] = None THEN @ ELSE @ \cup {"home forgotten"}]

preCall(h) == MoveSP(h, h.top, TRUE)

(* After the call the registers from VAR_REG_START on are treated as       *)
(* invalid: what they name has no register any more.                       *)
Dropped(h)  == {h.bank[r] : r \in {q \in VarRegs(h) : h.bank[q] # None}}
Newer(h, b) == /\ h.liveTo[b[1]] > h.seq /\ h.home[b] # None
               /\ h.at[b[1]] = None \/ h.ram[h.at[b[1]] + b[2]] # h.reg[h.home[b]]
InvalidateBank(h) ==  \* the symbols keep their registers
  [h EXCEPT !.bank = [r \in Regs |-> IF r \in VarRegs(h) THEN None ELSE @[r]]]
Invalidate(h) ==
  [h EXCEPT !.home = [b \in Places |-> IF b \in Dropped(h) THEN None ELSE @[b]],
            !.bank = [r \in Regs |-> IF r \in VarRegs(h) THEN None ELSE @[r]],
            !.hit  = IF \E b \in Dropped(h) : Newer(h, b)
                     THEN @ \cup {"live register dropped"} ELSE @]

(* The callee, returning c: it may have used every other register of its   *)
(* bank, the carry and the cells above the frame.                          *)
Callee(h, regs, c) ==
  [h EXCEPT !.reg = regs,
            !.ram = [k \in Cells |-> IF k < h.top THEN @[k] ELSE Junk]]
Returned(c, n) == [r \in Regs |-> IF r < n THEN c[r] ELSE Junk]

ResultUnnamed(h, x) ==  \* the registers do not name the result
  ForBytes(LAMBDA k, i : [k EXCEPT !.home[<<x, i>>] = i], h, SizeOf[x])
ResultHome(h, x) ==
  ForBytes(LAMBDA k, i : [occupy(k, i, x, i) EXCEPT !.home[<<x, i>>] = i], h, SizeOf[x])

Saved == IF isMain THEN g ELSE ForBytes(SaveByte, g, ARG_REG_CNT)
Called(h, x, c) ==
  IF isMain
  THEN LET k == preCall(ForBytes(clear, h, SizeOf[x]))
       IN  Callee(k, [r \in Regs |-> IF r < SizeOf[x] THEN c[r] ELSE k.reg[r]], c)
  ELSE Callee(Invalidate(preCall(h)), Returned(c, SizeOf[x]), c)

(* A call that returns c for x, from the move of sF on.                    *)
CallFrom(h, x, c) ==
  /\ Ready /\ Writable(x)
  /\ Generate(ResultHome(Called(h, x, c), x))
  /\ other' = IF isMain THEN Returned(c, SizeOf[x]) ELSE other
  /\ val' = Value(val, x, c)
  /\ sent' = <<>>
  /\ UNCHANGED <<next, isMain, params, done>>

Call(x, c) == CallFrom(Saved, x, c)

(* Return x: what outlives the function is stored, then each byte of x is  *)
(* loaded into its result register, which may hold a byte still to come.   *)
Stored(h) == ForBytes(LAMBDA k, r : IF r \in VarRegs(k) /\ k.bank[r] # None
                                    THEN IF LiveTo(k, r) > k.seq THEN clear(k, r) ELSE k
                                    ELSE k, h, REG_CNT - 1)
ReturnAnywhere(h, x, i) ==  \* any register will do
  IF h.home[<<x, i>>] # None THEN h
  ELSE IF h.at[x] # None THEN fetchVariable(h, x, i, i) ELSE Emit(h, i, Junk)
ReturnByte(h, x, i) ==
  IF h.home[<<x, i>>] = i THEN h
  ELSE LET held == \E r \in Regs : h.bank[r] = <<x, i>>
           k == IF held THEN Touch(h, x, i) ELSE h
           m == IF held THEN Emit(k, i, k.reg[k.home[<<x, i>>]])
                ELSE IF h.at[x] # None THEN fetchVariable(h, x, i, i)
                ELSE Emit(h, i, Junk)
       IN  IF \/ \E j \in Bytes(x) : j > i /\ h.home[<<x, j>>] = i
              \/ \E q \in 0 .. i - 1 : m.reg[q] # h.reg[q]
           THEN [m EXCEPT !.hit = @ \cup {"result overwritten"}] ELSE m

Return(x) ==
  /\ Ready /\ sent = <<>> /\ Readable(x)
  /\ Generate(ForBytes(LAMBDA k, i : ReturnByte(k, x, i), Stored(g), SizeOf[x]))
  /\ done' = TRUE
  /\ UNCHANGED <<val, next, isMain, params, sent, other>>

Body(A) == Ready /\ sent = <<>> /\ A /\ UNCHANGED <<isMain, params, sent, other, done>>

CallNext ==
  /\ g.seq <= MaxSeq
  /\ \/ \E x \in Syms : \E c \in Literals(x) : Receive(x, c)
     \/ \E x \in Syms, y \in Syms : Body(Assign(x, y))
     \/ \E x \in Syms : \E c \in Literals(x) : Body(AssignLit(x, c))
     \/ \E x \in Syms : Send(x) \/ Return(x)
     \/ \E c \in Arguments : SendLit(c)
     \/ \E x \in Syms : \E c \in Literals(x) : Call(x, c)

CallSpec == CallInit /\ [][CallNext]_callVars

-----------------------------------------------------------------------------
CallTypeOK ==
  /\ TypeOK
  /\ isMain \in BOOLEAN /\ done \in BOOLEAN
  /\ params \in Seq(Syms) /\ lastReg <= ARG_REG_CNT
  /\ other \in [Regs -> Byte \cup {Junk}]

(* Until the function returns the generated code computes what the program *)
(* means, through its parameters and every call: but for the hazards, what *)
(* is read after a call was saved before it.                               *)
CallCoherent == ~done => Coherent

(* Each argument stays where its Send put it while the next ones are sent: *)
(* the callee finds them packed from register 0 of its bank on.            *)
ArgumentsInPlace ==
  g.hit = {} => \A k \in 1 .. Len(sent) : \A i \in DOMAIN sent[k] :
    (IF isMain THEN other ELSE g.reg)[ArgReg(k, i)] = sent[k][i]

(* A function returns the value of the operand of its return statement,    *)
(* wherever its bytes were: in the result registers of other bytes, in     *)
(* other registers or on the stack.                                        *)
ReturnsResult ==
  [][\A x \in Syms : Return(x) /\ g'.hit = {} =>
       \A i \in Bytes(x) : g'.reg[i] = val[<<x, i>>]]_callVars

(* Two hazards leave a register that is in use without its name.           *)
Named == g.hit \cap {"star register reused", "pointer home kept"} = {}

(* What is read again shares its register with nothing else that is, also  *)
(* when results and parameters are put into registers by decree.           *)
LiveHomesExclusive ==
  Named => \A b, c \in Places : b # c /\ Live(b[1]) /\ Live(c[1]) /\ g.home[b] # None =>
                                  g.home[b] # g.home[c]

(* ... and its register names it.                                          *)
LiveHomesBacked ==
  Named => \A b \in Places : Live(b[1]) /\ g.home[b] # None => g.bank[g.home[b]] = b

(* "Current registers are stored on stack ... else, store everything": a   *)
(* call leaves the value of every symbol that is read after it (gen.cc     *)
(* 77-81, 171).                                                            *)
CallKeepsLive ==
  [][\A x \in Syms : \A c \in Literals(x) :
       Call(x, c) /\ g.hit = {} =>
         \A b \in AllBytes : b[1] # x /\ g.liveTo[b[1]] > g.seq /\ val[b] # Junk =>
                               Reads(b[1], b[2])' = val[b]]_callVars
=============================================================================
