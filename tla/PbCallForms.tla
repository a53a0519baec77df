---------------------------- MODULE PbCallForms ----------------------------
(***************************************************************************)
(* The other forms of a call: through a pointer to a function (PCALL) and  *)
(* the builtin port_out, in the functions of PbCall.                       *)
(*                                                                         *)
(* A pointer to a function is called by CALL (sD, sE), after its bytes     *)
(* have been put there.  port_out is two SENDs and a CALL like any call:   *)
(* Send skips the first one, which it knows to belong to a builtin, but    *)
(* not the second, which it only knows to follow a SEND.  Five more        *)
(* reasons are marked in g.hit:                                            *)
(*   "live register overwritten"  sD or sE held a value still to be read   *)
(*   "pointer overwritten"        one byte of the pointer was overwritten  *)
(*                                by another                               *)
(*   "pointer home kept"          the pointer is taken to be in sD, sE     *)
(*                                after the call too                       *)
(*   "port beyond bank"           the register the port number is sent to  *)
(*                                is sF, or beyond the bank                *)
(*   "operand dead"               the second SEND took the register of the *)
(*                                value, whose last use was the first SEND *)
(***************************************************************************)
EXTENDS PbCall

VARIABLES
  stale,   \* lastReg, which is static: None when a function before left it
  port,    \* the operands of a port_out so far
  effect   \* what the last instruction did outside the function and what it
           \* should have done, or None

formsVars == <<g, val, next, isMain, params, sent, other, done, stale, port, effect>>

FormsInit == CallInit /\ stale = None /\ port = <<>> /\ effect = None

-----------------------------------------------------------------------------
(* The registers of the bytes of the address of a CALL (sD, sE).           *)
TargetReg(i) == REG_CNT - 2 - i

TargetByteAfter(h, f, i) ==  \* the pointer in ascending registers
  LET k == Touch(h, f, i)
      r == TargetReg(SizeOf[f] - 1 - i)
  IN  [Emit(k, r, k.reg[k.home[<<f, i>>]]) EXCEPT
         !.bank[k.home[<<f, i>>]] = None, !.home[<<f, i>>] = r]

(* Outside main the target register is loaded and becomes the home of the  *)
(* byte; the register it had is freed, and the target register keeps the   *)
(* name it had.                                                            *)
TargetByte(h, f, i) ==
  LET k   == Touch(h, f, i)
      r   == TargetReg(i)
      old == k.home[<<f, i>>]
      m   == [Emit(k, r, k.reg[old]) EXCEPT !.bank[old] = None, !.home[<<f, i>>] = r]
      b   == k.bank[r]
      lost(q) == m.reg[q] # h.reg[q]
  IN  [m EXCEPT !.hit = @
        \cup (IF b # None /\ b[1] # f /\ k.home[b] = r /\ k.liveTo[b[1]] > k.seq
              THEN {"live register overwritten"} ELSE {})
        \cup (IF (\E j \in Bytes(f) : j > i /\ h.home[<<f, j>>] = r)
                 \/ (\E j \in 0 .. i - 1 : lost(TargetReg(j)))
              THEN {"pointer overwritten"} ELSE {})
        \cup (IF \E q \in 0 .. lastReg - 1 : lost(q) THEN {"argument evicted"} ELSE {})]

(* In main both bytes are copied into the other bank.                      *)
TargetStar(k, f, i) ==
  LET m == Touch(k[1], f, i)
  IN  <<m, [k[2] EXCEPT ![TargetReg(i)] = m.reg[m.home[<<f, i>>]]]>>

PCall(f, x, c) ==
  /\ Readable(f) /\ SizeOf[f] = 2 /\ port = <<>>
  /\ LET starred == ForBytes(LAMBDA k, i : TargetStar(k, f, i), <<g, other>>, 2)
         loaded  == ForBytes(LAMBDA k, i : TargetByte(k, f, i), Saved, 2)
         h       == IF isMain THEN starred[1]
                    ELSE IF f = x \/ g.liveTo[f] <= g.seq THEN loaded
                    ELSE [loaded EXCEPT !.hit = @ \cup {"pointer home kept"}]
         regs    == IF isMain THEN starred[2] ELSE loaded.reg
     IN  /\ CallFrom(h, x, c)
         /\ effect' = <<[i \in Bytes(f) |-> regs[TargetReg(i)]], BytesOf(f)>>
  /\ UNCHANGED <<stale, port>>

-----------------------------------------------------------------------------
(* port_out(v, n).                                                         *)
SendPort(v) ==
  /\ Ready /\ sent = <<>> /\ port = <<>> /\ Readable(v) /\ SizeOf[v] = 1
  /\ Generate(g) /\ port' = <<v>> /\ effect' = None
  /\ UNCHANGED <<val, next, isMain, params, sent, other, done, stale>>

(* The number goes to register r of the bank of a callee there is none of. *)
SendPortNumber(r, n) ==
  /\ Len(port) = 1 /\ Length(n) = 1
  /\ r \in (IF stale = None THEN 0 .. REG_CNT ELSE {stale})
  /\ LET h == IF isMain THEN StarLitByte(<<g, other>>, n, 0, r)[1]
              ELSE IF r \in Regs THEN SendLitByte(g, n, 0, r) ELSE g
         beyond == r \notin Regs /\ ~(isMain /\ r = REG_CNT - 1)
     IN  Generate([h EXCEPT !.hit = @ \cup (IF beyond THEN {"port beyond bank"} ELSE {})])
  /\ other' = IF isMain /\ r \in Regs THEN [other EXCEPT ![r] = n[0]] ELSE other
  /\ port' = Append(port, n) /\ stale' = r + 1 /\ effect' = None
  /\ UNCHANGED <<val, next, isMain, params, sent, done>>

PortOut ==
  /\ Len(port) = 2
  /\ LET b == <<port[1], 0>>
         k == Touch(g, port[1], 0)
     IN  /\ Generate(IF g.liveTo[port[1]] < g.seq /\ g.home[b] = None
                     THEN [k EXCEPT !.hit = @ \cup {"operand dead"}] ELSE k)
         /\ effect' = <<k.reg[k.home[b]], val[b]>>
  /\ port' = <<>>
  /\ UNCHANGED <<val, next, isMain, params, sent, other, done, stale>>

FormsNext ==
  /\ g.seq <= MaxSeq
  /\ \/ /\ port = <<>> /\ CallNext
        /\ stale' = IF Len(sent') > Len(sent) THEN lastReg' ELSE stale
        /\ effect' = None /\ UNCHANGED port
     \/ \E f \in Syms, x \in Syms : \E c \in Literals(x) : PCall(f, x, c)
     \/ \E v \in Syms : SendPort(v)
     \/ \E r \in 0 .. REG_CNT + MaxSeq, n \in Arguments : SendPortNumber(r, n)
     \/ PortOut

FormsSpec == FormsInit /\ [][FormsNext]_formsVars

-----------------------------------------------------------------------------
FormsTypeOK ==
  /\ CallTypeOK
  /\ stale \in Nat \cup {None} /\ Len(port) \in 0 .. 2

(* What the function does to the world is what the program says: an        *)
(* indirect call goes to the address the pointer holds, and a port is      *)
(* given the value of the operand of port_out.                             *)
EffectsMeant == g.hit = {} /\ effect # None => effect[1] = effect[2]
=============================================================================
