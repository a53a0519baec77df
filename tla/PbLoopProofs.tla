---------------------------- MODULE PbLoopProofs ----------------------------
(***************************************************************************)
(* Three families of loops that must agree.                                *)
(*                                                                         *)
(* The three loops of PbConv over the parameters of a function agree for   *)
(* every number of argument registers and every list of parameters.  The   *)
(* key is Chain: what reg_parm returned for a parameter is a function of   *)
(* what it returned for the one before, so the two other loops, which      *)
(* remember only totals, can be compared with it one parameter at a time.  *)
(*                                                                         *)
(* The branch of PbFlow goes where the comparison says for bytes of every  *)
(* radix and operands of every size.  After k bytes of a subtraction that  *)
(* nothing disturbed the carry is the order, and the zero flag the         *)
(* equality, of the k low bytes; each byte extends both; the jumps of Ifx  *)
(* read them.                                                              *)
(*                                                                         *)
(* The two passes of PbAsm come to every line with the same counters and   *)
(* the same names, for every source.  Pass 2 starts with the table pass 1  *)
(* left and with the segments it left open; the key is Following: the      *)
(* counters are those of pass 1 on top of these segments, and what pass 1  *)
(* knew of a name by then is what pass 2 knows of it now, because Kept     *)
(* lets no line change a value but a .SET symbol's or a dotted label's,    *)
(* and where pass 1 gave one of these its value, so does pass 2.           *)
(***************************************************************************)
EXTENDS PbConv, PbFlow, PbAsm, ModLemmas

(* Registers given away once parameter k is placed, and before it is.      *)
Given(k)  == IF argreg[k] # 0 THEN argreg[k] - 1 + args[k] ELSE ARG_REG_CNT
Before(k) == IF k = 1 THEN 0 ELSE Given(k - 1)

(* Each sequence is as long as its loop has come.                          *)
Lengths ==
  /\ Len(argreg) <= Len(args)
  /\ phase = "parm" => Len(argreg) = pos - 1
  /\ phase \in {"process", "call"} => Len(argreg) = Len(args)
  /\ phase = "process" => Len(placed) = pos - 1
  /\ phase = "call" => Len(placed) = Len(args)

Chain ==
  \A k \in 1 .. Len(argreg) :
    argreg[k] = IF args[k] <= ARG_REG_CNT - Before(k) THEN Before(k) + 1 ELSE 0

(* What the counter of each loop says of the parameters before pos.        *)
ParmCounter ==
  phase = "parm" =>
    /\ regParmFlg = Before(pos)
    /\ regParmFlg < ARG_REG_CNT =>
         \A j \in 1 .. pos - 1 : argreg[j] # 0 /\ argreg[j] + args[j] - 1 <= regParmFlg
ProcessCounters ==
  phase = "process" =>
    /\ stackSize = 0 => registerSize = Before(pos)
    /\ stackSize > 0 => Before(pos) = ARG_REG_CNT
RegistersCounted ==
  phase \in {"process", "call"} =>
    \A k \in 1 .. Len(placed) : argreg[k] # 0 => Given(k) <= registerSize
CallCounter ==
  phase = "call" => argcnt = Before(pos) /\ (pos > 1 => argreg[pos - 1] # 0)

ConvInv ==
  /\ ConvTypeOK /\ Lengths /\ Chain /\ ParmCounter /\ ProcessCounters
  /\ RegistersCounted /\ CallCounter /\ PlacesAgree /\ ParametersDisjoint

-----------------------------------------------------------------------------
(* What Append adds, and that it leaves the rest alone.                    *)
LEMMA AppendFacts ==
  ASSUME NEW S, NEW s \in Seq(S), NEW e \in S
  PROVE  /\ Append(s, e) \in Seq(S)
         /\ Len(Append(s, e)) = Len(s) + 1
         /\ \A k \in 1 .. Len(s) : Append(s, e)[k] = s[k]
         /\ Append(s, e)[Len(s) + 1] = e
OBVIOUS

(* The sequence without elements is a sequence over every set.             *)
LEMMA EmptyFacts ==
  ASSUME NEW S
  PROVE  <<>> \in Seq(S) /\ Len(<<>>) = 0
OBVIOUS

(* The elements of a sequence are in its set.                              *)
LEMMA ElementOf ==
  ASSUME NEW S, NEW s \in Seq(S)
  PROVE  Len(s) \in Nat /\ \A k \in 1 .. Len(s) : s[k] \in S
OBVIOUS

(* What the types of the lists say of their elements.                      *)
LEMMA Elements ==
  ASSUME ConvInv
  PROVE  /\ Len(args) \in Nat /\ Len(argreg) \in Nat /\ Len(placed) \in Nat
         /\ Len(argreg) <= Len(args)
         /\ \A k \in 1 .. Len(args) : args[k] \in Nat \ {0}
         /\ \A k \in 1 .. Len(argreg) : argreg[k] \in 0 .. ARG_REG_CNT
<1>1. args \in Seq(Nat \ {0}) /\ argreg \in Seq(0 .. ARG_REG_CNT) /\ placed \in Seq(0 .. ARG_REG_CNT)
  BY DEF ConvInv, ConvTypeOK
<1>2. Len(args) \in Nat /\ \A k \in 1 .. Len(args) : args[k] \in Nat \ {0}
  BY <1>1, ElementOf
<1>3. Len(argreg) \in Nat /\ \A k \in 1 .. Len(argreg) : argreg[k] \in 0 .. ARG_REG_CNT
  BY <1>1, ElementOf
<1>4. Len(placed) \in Nat
  BY <1>1, ElementOf
<1> QED BY <1>2, <1>3, <1>4 DEF ConvInv, Lengths

(* The invariant holds before the first function.                          *)
LEMMA ConvInitInv == ConvInit => ConvInv
<1> SUFFICES ASSUME ConvInit PROVE ConvInv
  OBVIOUS
<1>1. /\ args = <<>> /\ argreg = <<>> /\ placed = <<>> /\ Len(<<>>) = 0
      /\ phase = "done" /\ pos = 1
  BY EmptyFacts DEF ConvInit
<1>2. ConvTypeOK
  <2>1. args \in Seq(Nat \ {0}) /\ argreg \in Seq(0 .. ARG_REG_CNT) /\ placed \in Seq(0 .. ARG_REG_CNT)
    BY <1>1, EmptyFacts
  <2>2. pos \in 1 .. Len(args) + 1
    BY <1>1
  <2>3. /\ main \in BOOLEAN /\ isMain \in BOOLEAN
        /\ phase \in {"parm", "process", "call", "done"}
    BY DEF ConvInit
  <2>4. /\ regParmFlg \in 0 .. ARG_REG_CNT /\ registerSize \in 0 .. ARG_REG_CNT
        /\ argumentCnt \in Nat /\ stackSize \in Nat /\ argcnt \in Nat
    BY ConvAssumption DEF ConvInit
  <2> QED BY <2>1, <2>2, <2>3, <2>4 DEF ConvTypeOK
<1>3. Lengths /\ Chain /\ ParametersDisjoint
  BY <1>1 DEF Lengths, Chain, ParametersDisjoint
<1>4. ParmCounter /\ ProcessCounters /\ RegistersCounted /\ CallCounter /\ PlacesAgree
  BY <1>1 DEF ParmCounter, ProcessCounters, RegistersCounted, CallCounter, PlacesAgree
<1> QED BY <1>2, <1>3, <1>4 DEF ConvInv

(* What is before a parameter never exceeds the argument registers.        *)
LEMMA BeforeRange ==
  ASSUME ConvInv, NEW k \in 1 .. Len(argreg) + 1
  PROVE  Before(k) \in 0 .. ARG_REG_CNT
<1>1. CASE k = 1
  BY <1>1, ConvAssumption DEF Before
<1>2. CASE k # 1
  <2>1. k - 1 \in 1 .. Len(argreg) /\ k - 1 \in 1 .. Len(args)
    BY <1>2, Elements
  <2>2. argreg[k - 1] \in 0 .. ARG_REG_CNT /\ args[k - 1] \in Nat \ {0}
    BY <2>1, Elements
  <2>3. argreg[k - 1] # 0 => argreg[k - 1] + args[k - 1] - 1 <= ARG_REG_CNT
    BY <2>1 DEF ConvInv, ParametersDisjoint
  <2> QED BY <1>2, <2>2, <2>3, ConvAssumption DEF Before, Given
<1> QED BY <1>1, <1>2

(* reg_parm keeps the invariant: the parameter it places extends Chain.    *)
LEMMA RegParmInv ==
  ASSUME ConvInv, reg_parm
  PROVE  ConvInv'
<1> PICK q \in Nat : q = pos
  BY DEF ConvInv, ConvTypeOK
<1> DEFINE B == Before(q)
           e == IF args[q] <= ARG_REG_CNT - B THEN B + 1 ELSE 0
<1>1. /\ phase = "parm" /\ phase' = "parm" /\ args' = args /\ pos = q /\ pos' = q + 1
      /\ q \in 1 .. Len(args) /\ Len(argreg) = q - 1 /\ regParmFlg = B
      /\ argreg \in Seq(0 .. ARG_REG_CNT) /\ args[q] \in Nat \ {0}
      /\ args \in Seq(Nat \ {0}) /\ ARG_REG_CNT \in Nat \ {0}
  BY ConvAssumption DEF reg_parm, More, ConvInv, ConvTypeOK, Lengths, ParmCounter
<1>2. B \in 0 .. ARG_REG_CNT
  BY <1>1, BeforeRange
<1>3. e \in 0 .. ARG_REG_CNT
  BY <1>1, <1>2
<1>4. argreg' = Append(argreg, e) /\ regParmFlg' = (IF e # 0 THEN B + args[q] ELSE ARG_REG_CNT)
  BY <1>1, <1>2 DEF reg_parm, Size
<1>5. /\ argreg' \in Seq(0 .. ARG_REG_CNT) /\ Len(argreg') = q
      /\ \A k \in 1 .. q - 1 : argreg'[k] = argreg[k]
      /\ argreg'[q] = e
  BY <1>1, <1>3, <1>4, AppendFacts
<1>6. regParmFlg' \in 0 .. ARG_REG_CNT
  BY <1>1, <1>2, <1>4
<1>7. ConvTypeOK'
  BY <1>1, <1>5, <1>6 DEF reg_parm, function, ConvInv, ConvTypeOK
<1>8. Lengths'
  BY <1>1, <1>5 DEF ConvInv, Lengths
<1>9. ASSUME NEW k \in 1 .. q
      PROVE  Before(k)' = Before(k)
  <2>1. CASE k = 1
    BY <2>1 DEF Before
  <2>2. CASE k # 1
    <3>1. k - 1 \in 1 .. q - 1
      BY <2>2
    <3>2. argreg'[k - 1] = argreg[k - 1] /\ args' = args
      BY <1>1, <1>5, <3>1
    <3>3. Given(k - 1)' = Given(k - 1)
      BY <3>2 DEF Given
    <3> QED BY <2>2, <3>3 DEF Before
  <2> QED BY <2>1, <2>2
<1>10. Chain'
  <2>1. ASSUME NEW k \in 1 .. q - 1
        PROVE  argreg'[k] = IF args'[k] <= ARG_REG_CNT - Before(k)' THEN Before(k)' + 1 ELSE 0
    <3>1. k \in 1 .. Len(argreg) /\ k \in 1 .. q
      BY <1>1
    <3>2. argreg[k] = IF args[k] <= ARG_REG_CNT - Before(k) THEN Before(k) + 1 ELSE 0
      BY <3>1 DEF ConvInv, Chain
    <3>3. Before(k)' = Before(k)
      BY <1>9, <3>1
    <3>4. argreg'[k] = argreg[k] /\ args' = args
      BY <1>1, <1>5
    <3> QED BY <3>2, <3>3, <3>4
  <2>2. argreg'[q] = IF args'[q] <= ARG_REG_CNT - Before(q)' THEN Before(q)' + 1 ELSE 0
    <3>1. q \in 1 .. q
      BY <1>1
    <3>2. Before(q)' = B
      BY <1>9, <3>1
    <3> QED BY <1>1, <1>5, <3>2
  <2>3. \A k \in 1 .. q :
          argreg'[k] = IF args'[k] <= ARG_REG_CNT - Before(k)' THEN Before(k)' + 1 ELSE 0
    <3> TAKE k \in 1 .. q
    <3>1. k = q \/ k \in 1 .. q - 1
      BY <1>1
    <3> QED BY <3>1, <2>1, <2>2
  <2> QED BY <1>5, <2>3 DEF Chain
<1>11. ParmCounter'
  <2>1. Before(q + 1)' = IF e # 0 THEN e - 1 + args[q] ELSE ARG_REG_CNT
    <3>1. q + 1 # 1 /\ (q + 1) - 1 = q
      BY <1>1
    <3>2. Before(q + 1)' = Given(q)'
      BY <3>1 DEF Before
    <3> QED BY <1>1, <1>5, <3>2 DEF Given
  <2>2. regParmFlg' = Before(q + 1)'
    BY <1>1, <1>2, <1>3, <1>4, <2>1
  <2>3. ASSUME regParmFlg' < ARG_REG_CNT, NEW j \in 1 .. q
        PROVE  argreg'[j] # 0 /\ argreg'[j] + args[j] - 1 <= regParmFlg'
    <3>1. e # 0 /\ B < ARG_REG_CNT /\ regParmFlg' = B + args[q]
      BY <1>1, <1>2, <1>4, <2>3
    <3>2. CASE j = q
      BY <1>1, <1>2, <1>5, <3>1, <3>2
    <3>3. CASE j # q
      <4>1. j \in 1 .. q - 1 /\ argreg[j] \in 0 .. ARG_REG_CNT /\ args[j] \in Nat
        BY <1>1, <3>3, Elements
      <4>2. argreg[j] # 0 /\ argreg[j] + args[j] - 1 <= B
        BY <1>1, <3>1, <4>1 DEF ConvInv, ParmCounter
      <4>3. argreg'[j] = argreg[j]
        BY <1>5, <4>1
      <4>4. args[q] \in Nat /\ B \in Int
        BY <1>1, <1>2
      <4> QED BY <3>1, <4>1, <4>2, <4>3, <4>4
    <3> QED BY <3>2, <3>3
  <2> QED BY <1>1, <2>2, <2>3 DEF ParmCounter
<1>12. ParametersDisjoint'
  <2>1. ASSUME NEW k \in 1 .. q, argreg'[k] # 0
        PROVE  /\ argreg'[k] + args[k] - 1 <= ARG_REG_CNT
               /\ \A j \in 1 .. k - 1 : argreg'[j] # 0 /\ argreg'[j] + args[j] <= argreg'[k]
    <3>1. CASE k = q
      <4>1. e = B + 1 /\ args[q] <= ARG_REG_CNT - B /\ B < ARG_REG_CNT
        BY <1>1, <1>2, <1>5, <2>1, <3>1
      <4>2. ASSUME NEW j \in 1 .. k - 1
            PROVE  argreg'[j] # 0 /\ argreg'[j] + args[j] <= argreg'[k]
        <5>1. j \in 1 .. q - 1 /\ argreg[j] \in 0 .. ARG_REG_CNT /\ args[j] \in Nat
          BY <1>1, <3>1, Elements
        <5>2. argreg[j] # 0 /\ argreg[j] + args[j] - 1 <= B
          BY <1>1, <4>1, <5>1 DEF ConvInv, ParmCounter
        <5> QED BY <1>2, <1>5, <3>1, <4>1, <5>1, <5>2
      <4>3. argreg'[k] + args[k] - 1 <= ARG_REG_CNT
        BY <1>1, <1>2, <1>5, <3>1, <4>1
      <4> QED BY <4>2, <4>3
    <3>2. CASE k # q
      <4>1. k \in 1 .. q - 1 /\ \A j \in 1 .. k - 1 : j \in 1 .. q - 1
        BY <1>1, <3>2
      <4>2. argreg'[k] = argreg[k] /\ \A j \in 1 .. k - 1 : argreg'[j] = argreg[j]
        BY <1>5, <4>1
      <4> QED BY <1>1, <2>1, <4>1, <4>2 DEF ConvInv, ParametersDisjoint
    <3> QED BY <3>1, <3>2
  <2> QED BY <1>1, <1>5, <2>1 DEF ParametersDisjoint
<1>13. ProcessCounters' /\ RegistersCounted' /\ CallCounter' /\ PlacesAgree'
  BY <1>1 DEF ProcessCounters, RegistersCounted, CallCounter, PlacesAgree
<1> QED BY <1>7, <1>8, <1>10, <1>11, <1>12, <1>13 DEF ConvInv

(* processArg keeps it: the totals are enough to repeat the decision.      *)
LEMMA ProcessArgInv ==
  ASSUME ConvInv, processArg
  PROVE  ConvInv'
<1> PICK q \in Nat : q = pos
  BY DEF ConvInv, ConvTypeOK
<1> DEFINE B == Before(q)
<1>1. /\ phase = "process" /\ phase' = "process" /\ args' = args /\ pos = q /\ pos' = q + 1
      /\ argreg' = argreg /\ Len(argreg) = Len(args)
      /\ q \in 1 .. Len(args) /\ Len(placed) = q - 1
      /\ registerSize \in 0 .. ARG_REG_CNT /\ stackSize \in Nat
      /\ argreg \in Seq(0 .. ARG_REG_CNT) /\ args[q] \in Nat \ {0}
      /\ placed \in Seq(0 .. ARG_REG_CNT)
      /\ args \in Seq(Nat \ {0}) /\ ARG_REG_CNT \in Nat \ {0}
  BY ConvAssumption DEF processArg, More, ConvInv, ConvTypeOK, Lengths
<1>2. B \in 0 .. ARG_REG_CNT /\ argreg[q] = IF args[q] <= ARG_REG_CNT - B THEN B + 1 ELSE 0
  BY <1>1, BeforeRange DEF ConvInv, Chain
<1>3. (stackSize = 0 => registerSize = B) /\ (stackSize > 0 => B = ARG_REG_CNT)
  BY <1>1 DEF ConvInv, ProcessCounters
<1>4. /\ placed' = Append(placed, argreg[q])
      /\ argreg[q] # 0 => registerSize' = B + args[q] /\ registerSize = B /\ stackSize' = 0
      /\ argreg[q] = 0 => registerSize' = registerSize /\ stackSize' > 0
      /\ stackSize' \in Nat /\ registerSize' \in 0 .. ARG_REG_CNT
  <2>1. CASE argreg[q] # 0
    <3>1. B < ARG_REG_CNT /\ args[q] <= ARG_REG_CNT - B
      BY <1>1, <1>2, <2>1
    <3>2. stackSize = 0 /\ registerSize = B /\ argreg[q] = registerSize + 1
      BY <1>1, <1>2, <1>3, <2>1, <3>1
    <3>3. registerSize + args[q] <= ARG_REG_CNT /\ registerSize + args[q] \in Nat
      <4>1. registerSize = B /\ B \in 0 .. ARG_REG_CNT /\ args[q] \in Nat
        BY <1>1, <1>2, <3>2
      <4> HIDE DEF B
      <4> QED BY <3>1, <4>1, ConvAssumption
    <3>4. /\ registerSize' = registerSize + args[q] /\ stackSize' = stackSize
          /\ placed' = Append(placed, registerSize + 1)
      BY <3>2, <3>3 DEF processArg, Size
    <3> QED BY <1>1, <2>1, <3>2, <3>3, <3>4
  <2>2. CASE argreg[q] = 0
    <3>1. ~(args[q] <= ARG_REG_CNT - B)
      BY <1>1, <1>2, <2>2
    <3>2. ~(registerSize + args[q] <= ARG_REG_CNT /\ stackSize = 0)
      BY <1>1, <1>2, <1>3, <3>1
    <3>3. /\ stackSize' = stackSize + args[q] /\ registerSize' = registerSize
          /\ placed' = Append(placed, 0)
      BY <3>2 DEF processArg, Size
    <3>4. stackSize \in Nat /\ args[q] \in Nat \ {0}
      BY <1>1
    <3>5. stackSize + args[q] \in Nat /\ stackSize + args[q] > 0
      BY <3>4
    <3> QED BY <1>1, <2>2, <3>3, <3>5
  <2> QED BY <2>1, <2>2
<1>5. argreg[q] \in 0 .. ARG_REG_CNT
  BY <1>1
<1>6. /\ placed' \in Seq(0 .. ARG_REG_CNT) /\ Len(placed') = q
      /\ \A k \in 1 .. q - 1 : placed'[k] = placed[k]
      /\ placed'[q] = argreg[q]
  BY <1>1, <1>4, <1>5, AppendFacts
<1>7. ConvTypeOK'
  BY <1>1, <1>4, <1>6 DEF processArg, ConvInv, ConvTypeOK
<1>8. Lengths' /\ Chain' /\ ParametersDisjoint' /\ ParmCounter' /\ CallCounter'
  BY <1>1, <1>6 DEF ConvInv, Lengths, Chain, ParametersDisjoint, ParmCounter, CallCounter, Before, Given
<1>9. Given(q) = IF argreg[q] # 0 THEN B + args[q] ELSE ARG_REG_CNT
  BY <1>1, <1>2 DEF Given
<1>10. ProcessCounters'
  <2>1. Before(q + 1)' = Given(q)
    BY <1>1 DEF Before, Given
  <2> QED BY <1>4, <1>9, <2>1, <1>1 DEF ProcessCounters
<1>11. RegistersCounted'
  <2>1. ASSUME NEW k \in 1 .. q, argreg[k] # 0
        PROVE  Given(k) <= registerSize'
    <3>1. registerSize <= registerSize'
      BY <1>1, <1>2, <1>4, SMTT(30)
    <3>2. CASE k = q
      BY <1>1, <1>2, <1>4, <1>9, <2>1, <3>2
    <3>3. CASE k # q
      <4>1. k \in 1 .. q - 1 /\ argreg[k] \in 0 .. ARG_REG_CNT /\ args[k] \in Nat
        BY <1>1, <3>3, Elements, SMTT(30)
      <4>2. Given(k) <= registerSize
        BY <1>1, <2>1, <4>1 DEF ConvInv, RegistersCounted
      <4>3. Given(k) \in Int
        BY <4>1, ConvAssumption DEF Given
      <4> QED BY <1>1, <1>4, <3>1, <4>2, <4>3
    <3> QED BY <3>2, <3>3
  <2> QED BY <1>1, <1>6, <2>1 DEF RegistersCounted, Given
<1>12. PlacesAgree'
  <2>1. \A k \in 1 .. q - 1 : placed[k] = argreg[k]
    BY <1>1 DEF ConvInv, PlacesAgree
  <2>2. \A k \in 1 .. q : placed'[k] = argreg[k]
    <3> TAKE k \in 1 .. q
    <3>1. k = q \/ k \in 1 .. q - 1
      BY <1>1
    <3> QED BY <1>6, <2>1, <3>1
  <2> QED BY <1>1, <1>6, <2>2 DEF PlacesAgree
<1> QED BY <1>7, <1>8, <1>10, <1>11, <1>12 DEF ConvInv

(* The call's loop keeps it: it follows Chain until it breaks.             *)
LEMMA CountArgInv ==
  ASSUME ConvInv, countArg
  PROVE  ConvInv'
<1> PICK q \in Nat : q = pos
  BY DEF ConvInv, ConvTypeOK
<1> DEFINE B == Before(q)
<1>1. /\ phase = "call" /\ phase' = "call" /\ args' = args /\ pos = q /\ pos' = q + 1
      /\ argreg' = argreg /\ placed' = placed /\ Len(argreg) = Len(args)
      /\ q \in 1 .. Len(args) /\ argcnt = B /\ argcnt' = B + args[q]
      /\ B + args[q] < ARG_REG_CNT
      /\ argreg \in Seq(0 .. ARG_REG_CNT) /\ args[q] \in Nat \ {0}
      /\ registerSize' = registerSize /\ stackSize' = stackSize
      /\ args \in Seq(Nat \ {0}) /\ ARG_REG_CNT \in Nat \ {0}
  BY ConvAssumption DEF countArg, function, More, Size, ConvInv, ConvTypeOK, Lengths, CallCounter
<1>2. B \in 0 .. ARG_REG_CNT /\ argreg[q] = B + 1
  BY <1>1, BeforeRange DEF ConvInv, Chain
<1>3. Before(q + 1)' = B + args[q] /\ argreg'[q] # 0
  <2>1. q + 1 # 1 /\ (q + 1) - 1 = q
    BY <1>1
  <2>2. Before(q + 1)' = Given(q)'
    BY <2>1 DEF Before
  <2> QED BY <1>1, <1>2, <2>2 DEF Given
<1>4. ConvTypeOK'
  <2>1. pos' \in 1 .. Len(args) + 1 /\ argcnt' \in Nat
    BY <1>1, <1>2, Elements
  <2> QED BY <2>1 DEF countArg, function, ConvInv, ConvTypeOK
<1>5. CallCounter'
  BY <1>1, <1>3 DEF CallCounter
<1>6. Lengths' /\ Chain' /\ ParmCounter' /\ ProcessCounters'
  BY <1>1 DEF ConvInv, Lengths, Chain, ParmCounter, ProcessCounters, Before, Given
<1>7. RegistersCounted' /\ PlacesAgree' /\ ParametersDisjoint'
  BY <1>1 DEF ConvInv, RegistersCounted, PlacesAgree, ParametersDisjoint, Given
<1> QED BY <1>4, <1>5, <1>6, <1>7 DEF ConvInv

(* The steps between the loops keep it.                                    *)
LEMMA DeclareInv ==
  ASSUME ConvInv, NEW m \in BOOLEAN, NEW as \in ParamLists, Declare(m, as)
  PROVE  ConvInv'
<1>1. args' = as /\ argreg' = <<>> /\ phase' = "parm" /\ pos' = 1 /\ regParmFlg' = 0
  BY DEF Declare
<1>2. as \in Seq(Nat \ {0}) /\ ARG_REG_CNT \in Nat
  BY ConvAssumption
<1>3. Len(args') \in Nat /\ Len(argreg') = 0
  BY <1>1, <1>2, ElementOf, EmptyFacts
<1>5. ConvTypeOK'
  <2>1. argreg' \in Seq(0 .. ARG_REG_CNT) /\ args' \in Seq(Nat \ {0})
    BY <1>1, <1>2, EmptyFacts
  <2>2. 1 \in 1 .. Len(args') + 1 /\ 0 \in 0 .. ARG_REG_CNT
    BY <1>2, <1>3
  <2>3. pos' \in 1 .. Len(args') + 1 /\ regParmFlg' \in 0 .. ARG_REG_CNT
    BY <1>1, <2>2
  <2> QED BY <1>1, <2>1, <2>3 DEF Declare, function, ConvInv, ConvTypeOK
<1>6. Lengths' /\ Chain' /\ ParametersDisjoint'
  <2>1. Lengths'
    <3>1. Len(argreg') <= Len(args') /\ Len(argreg') = pos' - 1
      <4>1. pos' = 1
        BY <1>1
      <4> QED BY <1>3, <4>1
    <3>2. phase' = "parm"
      BY <1>1
    <3> QED BY <3>1, <3>2 DEF Lengths
  <2>2. 1 .. Len(argreg') = {}
    BY <1>3
  <2> QED BY <2>1, <2>2 DEF Chain, ParametersDisjoint
<1>4. ParmCounter' /\ ProcessCounters' /\ RegistersCounted' /\ CallCounter' /\ PlacesAgree'
  BY <1>1 DEF ParmCounter, Before, ProcessCounters, RegistersCounted, CallCounter, PlacesAgree
<1> QED BY <1>4, <1>5, <1>6 DEF ConvInv

LEMMA ProcessNewInv ==
  ASSUME ConvInv, processNew
  PROVE  ConvInv'
<1>1. /\ pos' = 1 /\ placed' = <<>> /\ argreg' = argreg /\ args' = args
      /\ Len(argreg) = Len(args) /\ phase' = "process" /\ registerSize' = 0 /\ stackSize' = 0
  BY DEF processNew, More, ConvInv, ConvTypeOK, Lengths
<1>2. ConvTypeOK'
  BY ConvAssumption, <1>1 DEF processNew, ConvInv, ConvTypeOK
<1>3. Lengths' /\ Chain' /\ ParametersDisjoint' /\ ProcessCounters'
  BY <1>1 DEF ConvInv, Lengths, Chain, ParametersDisjoint, ProcessCounters, Before, Given
<1>4. ParmCounter' /\ CallCounter' /\ RegistersCounted' /\ PlacesAgree'
  BY <1>1 DEF ParmCounter, CallCounter, RegistersCounted, PlacesAgree
<1> QED BY <1>2, <1>3, <1>4 DEF ConvInv

LEMMA StartCallInv ==
  ASSUME ConvInv, StartCall
  PROVE  ConvInv'
<1>1. /\ pos' = 1 /\ placed' = placed /\ argreg' = argreg /\ args' = args
      /\ phase = "process" /\ phase' = "call" /\ registerSize' = registerSize /\ argcnt' = 0
      /\ Len(placed) = Len(args) /\ Len(argreg) = Len(args)
  BY DEF StartCall, function, More, ConvInv, ConvTypeOK, Lengths
<1>2. ConvTypeOK'
  BY ConvAssumption, <1>1 DEF StartCall, function, ConvInv, ConvTypeOK
<1>3. Lengths' /\ Chain' /\ ParametersDisjoint' /\ CallCounter'
  BY <1>1 DEF ConvInv, Lengths, Chain, ParametersDisjoint, CallCounter, Before, Given
<1>4. RegistersCounted' /\ PlacesAgree' /\ ParmCounter' /\ ProcessCounters'
  BY <1>1 DEF ConvInv, RegistersCounted, PlacesAgree, ParmCounter, ProcessCounters, Given
<1> QED BY <1>2, <1>3, <1>4 DEF ConvInv

LEMMA CountEndsInv ==
  ASSUME ConvInv, countEnds
  PROVE  ConvInv'
<1>1. /\ phase' = "done" /\ argreg' = argreg /\ args' = args
      /\ placed' = placed
  BY DEF countEnds, function
<1>2. ConvTypeOK'
  BY <1>1 DEF countEnds, function, ConvInv, ConvTypeOK
<1>3. Lengths' /\ Chain' /\ ParametersDisjoint'
  BY <1>1 DEF ConvInv, Lengths, Chain, ParametersDisjoint, Before, Given
<1>4. RegistersCounted' /\ PlacesAgree' /\ ParmCounter' /\ ProcessCounters' /\ CallCounter'
  BY <1>1 DEF RegistersCounted, PlacesAgree, ParmCounter, ProcessCounters, CallCounter
<1> QED BY <1>2, <1>3, <1>4 DEF ConvInv

LEMMA ConvStutterInv ==
  ASSUME ConvInv, UNCHANGED convVars
  PROVE  ConvInv'
BY DEF convVars, ConvInv, ConvTypeOK, Lengths, Chain, ParmCounter,
   ProcessCounters, RegistersCounted, CallCounter, PlacesAgree, ParametersDisjoint,
   Before, Given

(* The invariant of the three loops.                                       *)
THEOREM ConvInvariant == ConvSpec => []ConvInv
<1>1. ConvInit => ConvInv
  BY ConvInitInv
<1>2. ConvInv /\ [ConvNext]_convVars => ConvInv'
  BY DeclareInv, RegParmInv, ProcessNewInv, ProcessArgInv, StartCallInv, CountArgInv,
     CountEndsInv, ConvStutterInv DEF ConvNext
<1> QED BY <1>1, <1>2, PTL DEF ConvSpec

(* Counters, register numbers and lists stay in range.                     *)
THEOREM ConvTypeCorrect == ConvSpec => []ConvTypeOK
<1>1. ConvInv => ConvTypeOK
  BY DEF ConvInv
<1> QED BY <1>1, ConvInvariant, PTL

(* Caller and callee agree where every parameter is (main.c, util.cc).     *)
THEOREM PlacesAlwaysAgree == ConvSpec => []PlacesAgree
<1>1. ConvInv => PlacesAgree
  BY DEF ConvInv
<1> QED BY <1>1, ConvInvariant, PTL

(* No two parameters share a register (main.c, reg_parm).                  *)
THEOREM ParametersAlwaysDisjoint == ConvSpec => []ParametersDisjoint
<1>1. ConvInv => ParametersDisjoint
  BY DEF ConvInv
<1> QED BY <1>1, ConvInvariant, PTL

(* A call never takes a live value's register for one of its arguments     *)
(* (gen.cc, the count at the head of Call).                                *)
THEOREM CountedAlwaysArguments == ConvSpec => []CountedAreArguments
<1>1. ConvInv => CountedAreArguments
  <2> SUFFICES ASSUME ConvInv, phase = "call" PROVE argcnt <= registerSize
    BY DEF CountedAreArguments
  <2>1. argcnt = Before(pos) /\ registerSize \in Nat /\ Len(placed) = Len(args)
        /\ pos \in 1 .. Len(args) + 1 /\ (pos > 1 => argreg[pos - 1] # 0)
    BY DEF ConvInv, CallCounter, ConvTypeOK, Lengths
  <2>2. CASE pos = 1
    BY <2>1, <2>2 DEF Before
  <2>3. CASE pos # 1
    <3>1. pos - 1 \in 1 .. Len(placed) /\ argreg[pos - 1] # 0 /\ argcnt = Given(pos - 1)
      BY <2>1, <2>3 DEF Before, ConvInv, ConvTypeOK
    <3> QED BY <3>1 DEF ConvInv, RegistersCounted
  <2> QED BY <2>2, <2>3
<1> QED BY <1>1, ConvInvariant, PTL
-----------------------------------------------------------------------------
Zeros == [j \in 0 .. n - 1 |-> 0]
Subtracting == ~same \/ op \in Compares \/ (op = "-" /\ AllPrinted)
Other == IF same THEN r ELSE Zeros  \* what is subtracted

Phases ==
  /\ ph = "prev" => same
  /\ ph = "compare" => ~same
  /\ ph \in {"prev", "compare"} => jump = 1
  /\ ph \in {"jump", "done"} => i = n

Flags ==
  ~disturbed /\ i > 0 =>
    /\ Subtracting => (zero <=> Equal(l, Other, i)) /\ (carry <=> Less(l, Other, i))
    /\ same /\ op = "+" /\ AllPrinted => (zero <=> Equal(l, Zeros, i))
    /\ same /\ op = "logic" => (zero <=> l[i - 1] = 0)

JumpsBehind ==
  ph = "jump" =>
    /\ jump \in 1 .. Len(Jumps) + 1
    /\ \A k \in 1 .. jump - 1 : ~Taken(Jumps[k].flag)

FlowInv == FlowTypeOK /\ Phases /\ Flags /\ JumpsBehind /\ BranchRight

-----------------------------------------------------------------------------
(* The order of k + 1 bytes from byte k and the order of the k below.      *)
LEMMA LessStep ==
  ASSUME NEW x, NEW y, NEW k \in Nat, x[k] \in Int, y[k] \in Int
  PROVE  Less(x, y, k + 1) <=> x[k] < y[k] \/ (x[k] = y[k] /\ Less(x, y, k))
<1>1. ASSUME Less(x, y, k + 1)
      PROVE  x[k] < y[k] \/ (x[k] = y[k] /\ Less(x, y, k))
  <2>1. PICK j \in 0 .. k : x[j] < y[j] /\ \A m \in j + 1 .. k : x[m] = y[m]
    BY <1>1 DEF Less
  <2>2. CASE j = k
    BY <2>1, <2>2
  <2>3. CASE j # k
    <3>1. j \in 0 .. k - 1 /\ k \in j + 1 .. k
      BY <2>3
    <3>2. \A m \in j + 1 .. k - 1 : m \in j + 1 .. k
      OBVIOUS
    <3> QED BY <2>1, <3>1, <3>2 DEF Less
  <2> QED BY <2>2, <2>3
<1>2. ASSUME x[k] < y[k]
      PROVE  Less(x, y, k + 1)
  <2>1. k \in 0 .. (k + 1) - 1 /\ k + 1 .. (k + 1) - 1 = {}
    OBVIOUS
  <2> QED BY <1>2, <2>1 DEF Less
<1>3. ASSUME x[k] = y[k], Less(x, y, k)
      PROVE  Less(x, y, k + 1)
  <2>1. PICK j \in 0 .. k - 1 : x[j] < y[j] /\ \A m \in j + 1 .. k - 1 : x[m] = y[m]
    BY <1>3 DEF Less
  <2>2. \A m \in j + 1 .. k : m = k \/ m \in j + 1 .. k - 1
    OBVIOUS
  <2>3. j \in 0 .. (k + 1) - 1 /\ \A m \in j + 1 .. (k + 1) - 1 : x[m] = y[m]
    BY <1>3, <2>1, <2>2
  <2> QED BY <2>1, <2>3 DEF Less
<1> QED BY <1>1, <1>2, <1>3

(* The same for equality.                                                  *)
LEMMA EqualStep ==
  ASSUME NEW x, NEW y, NEW k \in Nat
  PROVE  Equal(x, y, k + 1) <=> x[k] = y[k] /\ Equal(x, y, k)
<1>1. \A j : j \in 0 .. (k + 1) - 1 <=> j = k \/ j \in 0 .. k - 1
  OBVIOUS
<1> QED BY <1>1 DEF Equal

(* Nothing is less than what it equals, and no bytes are equal.            *)
LEMMA EqualNotLess ==
  ASSUME NEW x, NEW y, NEW k \in Nat, Equal(x, y, k),
         \A j \in 0 .. k - 1 : x[j] \in Int
  PROVE  ~Less(x, y, k)
BY DEF Equal, Less
LEMMA NoBytes ==
  ASSUME NEW x, NEW y
  PROVE  Equal(x, y, 0) /\ ~Less(x, y, 0)
BY DEF Equal, Less

(* A difference of two bytes and a borrow is zero modulo the radix only if *)
(* it is zero, or it is the radix borrowed.                                *)
LEMMA SmallMod ==
  ASSUME NEW M \in Nat \ {0, 1}, NEW a \in 0 .. M - 1, NEW b \in 0 .. M - 1
  PROVE  (a - b) % M = 0 <=> a = b
<1>1. CASE a >= b
  <2>1. a - b \in 0 .. M - 1 /\ a - b \in Int /\ a - b = M * 0 + (a - b)
    BY <1>1
  <2>2. (a - b) % M = a - b
    BY <2>1, ModUnique
  <2> QED BY <2>2
<1>2. CASE a < b
  <2>1. a - b + M \in 0 .. M - 1 /\ a - b \in Int /\ a - b = M * (-1) + (a - b + M)
    BY <1>2
  <2>2. (a - b) % M = a - b + M
    BY <2>1, ModUnique
  <2> QED BY <1>2, <2>2
<1> QED BY <1>1, <1>2

(* The subtraction of one byte extends the order and the equality.         *)
LEMMA SubtractFlags ==
  ASSUME FlowTypeOK, NEW x, NEW y, i < n, x[i] \in Byte, y[i] \in Byte,
         \A j \in 0 .. i - 1 : x[j] \in Int,
         i > 0 => (zero <=> Equal(x, y, i)) /\ (carry <=> Less(x, y, i)),
         Subtract(x[i], y[i])
  PROVE  (zero' <=> Equal(x, y, i + 1)) /\ (carry' <=> Less(x, y, i + 1))
<1> DEFINE a == x[i]
           b == y[i]
           before == i > 0 /\ carry
           d == a - b - Bit(before)
<1>1. /\ i \in Nat /\ a \in 0 .. RADIX - 1 /\ b \in 0 .. RADIX - 1
      /\ RADIX \in Nat \ {0, 1} /\ carry \in BOOLEAN /\ zero \in BOOLEAN
  BY FlowAssumption DEF FlowTypeOK, Byte
<1>2. before <=> Less(x, y, i)
  BY <1>1, NoBytes
<1>3. (i > 0 => zero) <=> Equal(x, y, i)
  BY <1>1, NoBytes
<1>4. (carry' <=> d < 0) /\ (zero' <=> d % RADIX = 0 /\ (i > 0 => zero))
  BY DEF Subtract
<1>5. d < 0 <=> a < b \/ (a = b /\ before)
  BY <1>1 DEF Bit
<1>6. carry' <=> Less(x, y, i + 1)
  BY <1>1, <1>2, <1>4, <1>5, LessStep
<1>7. zero' <=> Equal(x, y, i + 1)
  <2>1. CASE Equal(x, y, i)
    <3>1. ~before
      BY <1>1, <1>2, <2>1, EqualNotLess
    <3>2. d = a - b
      BY <1>1, <3>1 DEF Bit
    <3>3. d % RADIX = 0 <=> a = b
      BY <1>1, <3>2, SmallMod
    <3> QED BY <1>1, <1>3, <1>4, <2>1, <3>3, EqualStep
  <2>2. CASE ~Equal(x, y, i)
    BY <1>1, <1>3, <1>4, <2>2, EqualStep
  <2> QED BY <2>1, <2>2
<1> QED BY <1>6, <1>7

-----------------------------------------------------------------------------
(* The invariant holds when the first handler starts.                      *)
LEMMA FlowInitInv == FlowInit => FlowInv
<1> SUFFICES ASSUME FlowInit PROVE FlowInv
  OBVIOUS
<1>1. n \in Nat \ {0} /\ i = 0 /\ ph \in {"prev", "compare"} /\ jump = 1
  BY FlowAssumption DEF FlowInit
<1>2. FlowTypeOK
  <2>1. i \in 0 .. n /\ jump \in 1 .. 4
    BY <1>1
  <2> QED BY <1>1, <2>1 DEF FlowInit, FlowTypeOK
<1>3. Phases
  BY <1>1 DEF FlowInit, Phases
<1>4. Flags /\ JumpsBehind /\ BranchRight
  BY <1>1 DEF Flags, JumpsBehind, BranchRight
<1> QED BY <1>2, <1>3, <1>4 DEF FlowInv

(* Moving sF between two bytes leaves no claim about the flags.            *)
LEMMA MoveSPInv ==
  ASSUME FlowInv, MoveSP
  PROVE  FlowInv'
<1>1. /\ ph \in {"prev", "compare"} /\ ph' = ph /\ i' = i /\ i \in Nat
      /\ disturbed' = (disturbed \/ i > 0)
  BY FlowAssumption DEF MoveSP, FlowInv, FlowTypeOK
<1>2. FlowTypeOK'
  BY <1>1 DEF MoveSP, instruction, FlowInv, FlowTypeOK
<1>3. Phases'
  BY <1>1 DEF MoveSP, instruction, FlowInv, Phases
<1>4. Flags'
  BY <1>1 DEF Flags
<1>5. JumpsBehind' /\ BranchRight'
  BY <1>1 DEF JumpsBehind, BranchRight
<1> QED BY <1>2, <1>3, <1>4, <1>5 DEF FlowInv

(* A byte of the operation before the branch.                              *)
LEMMA PrevByteInv ==
  ASSUME FlowInv, PrevByte
  PROVE  FlowInv'
<1>1. /\ ph = "prev" /\ ph' = "prev" /\ same /\ i \in Nat /\ i < n /\ i' = i + 1
      /\ n \in Nat /\ disturbed' = disturbed /\ n' = n /\ same' = same /\ op' = op
      /\ l' = l /\ r' = r /\ i' \in 0 .. n
  BY FlowAssumption DEF PrevByte, instruction, FlowInv, FlowTypeOK, Phases
<1>2. carry' \in BOOLEAN /\ zero' \in BOOLEAN
  <2>1. CASE Subtract(l[i], r[i])
    BY <2>1 DEF Subtract
  <2>2. CASE op = "logic" /\ zero' = (l[i] = 0) /\ carry' = FALSE
    BY <2>2
  <2>3. CASE op = "=" /\ UNCHANGED <<carry, zero>>
    BY <2>3 DEF FlowInv, FlowTypeOK
  <2>4. CASE op = "shift" /\ zero' = TRUE /\ carry' = FALSE
    BY <2>4
  <2>5. CASE op = "call" /\ zero' \in BOOLEAN /\ carry' \in BOOLEAN
    BY <2>5
  <2>6. CASE zero' = (l[i] = 0 /\ (i > 0 => zero)) /\ carry' \in BOOLEAN
    BY <2>6
  <2>7. CASE NotPrinted /\ UNCHANGED <<carry, zero>>
    BY <2>7 DEF FlowInv, FlowTypeOK
  <2> QED BY <2>1, <2>2, <2>3, <2>4, <2>5, <2>6, <2>7 DEF PrevByte
<1>3. FlowTypeOK'
  BY <1>1, <1>2 DEF PrevByte, instruction, FlowInv, FlowTypeOK
<1>4. Phases' /\ JumpsBehind' /\ BranchRight'
  BY <1>1 DEF PrevByte, FlowInv, Phases, JumpsBehind, BranchRight
<1>5. Flags'
  <2> DEFINE Prints == op \in Sums => AllPrinted
  <2> SUFFICES ASSUME ~disturbed
               PROVE  /\ Prints /\ op \in Compares \union {"-"} =>
                           (zero' <=> Equal(l, r, i + 1)) /\ (carry' <=> Less(l, r, i + 1))
                      /\ Prints /\ op = "+" => (zero' <=> Equal(l, Zeros, i + 1))
                      /\ op = "logic" => (zero' <=> l[(i + 1) - 1] = 0)
    <3>1. AllPrinted' = AllPrinted /\ Zeros' = Zeros
      BY <1>1 DEF PrevByte, instruction, AllPrinted, Zeros
    <3>2. Other = r /\ Other' = r
      BY <1>1 DEF Other
    <3> QED BY <1>1, <3>1, <3>2 DEF Flags, Subtracting, Sums, Compares, Equal, Less
  <2>0. Prints => ~NotPrinted
    BY DEF NotPrinted, AllPrinted
  <2>1. ASSUME Prints, op \in Compares \union {"-"}
        PROVE  (zero' <=> Equal(l, r, i + 1)) /\ (carry' <=> Less(l, r, i + 1))
    <3>1. Subtract(l[i], r[i])
      BY <2>0, <2>1 DEF PrevByte, Compares
    <3>2. i > 0 => (zero <=> Equal(l, r, i)) /\ (carry <=> Less(l, r, i))
      BY <1>1, <2>1 DEF FlowInv, Flags, Subtracting, Other, Sums
    <3>3. \A j \in 0 .. n - 1 : l[j] \in Byte /\ r[j] \in Byte /\ l[j] \in Int
      BY FlowAssumption DEF FlowInv, FlowTypeOK, Byte
    <3>4. i \in 0 .. n - 1 /\ \A j \in 0 .. i - 1 : j \in 0 .. n - 1
      BY <1>1
    <3>5. l[i] \in Byte /\ r[i] \in Byte /\ \A j \in 0 .. i - 1 : l[j] \in Int
      BY <3>3, <3>4
    <3> QED BY <1>1, <3>1, <3>2, <3>5, SubtractFlags DEF FlowInv
  <2>2. ASSUME op = "logic"
        PROVE  zero' <=> l[(i + 1) - 1] = 0
    <3>1. zero' = (l[i] = 0)
      BY <2>2 DEF PrevByte, NotPrinted, Compares, Sums
    <3>2. (i + 1) - 1 = i
      BY <1>1
    <3> QED BY <3>1, <3>2
  <2>3. ASSUME Prints, op = "+"
        PROVE  zero' <=> Equal(l, Zeros, i + 1)
    <3>1. zero' = (l[i] = 0 /\ (i > 0 => zero))
      BY <2>0, <2>3 DEF PrevByte, Compares
    <3>2. (i > 0 => zero) <=> Equal(l, Zeros, i)
      <4>1. CASE i > 0
        BY <1>1, <2>3, <4>1 DEF FlowInv, Flags, Sums
      <4>2. CASE i = 0
        BY <4>2, NoBytes
      <4> QED BY <1>1, <4>1, <4>2
    <3>3. Zeros[i] = 0
      BY <1>1 DEF Zeros
    <3>4. Equal(l, Zeros, i + 1) <=> l[i] = Zeros[i] /\ Equal(l, Zeros, i)
      BY <1>1, EqualStep
    <3> HIDE DEF Zeros
    <3> QED BY <3>1, <3>2, <3>3, <3>4
  <2> QED BY <2>1, <2>2, <2>3
<1> QED BY <1>3, <1>4, <1>5 DEF FlowInv

(* A byte of the comparison of Ifx with zero.                              *)
LEMMA IfxByteInv ==
  ASSUME FlowInv, IfxByte
  PROVE  FlowInv'
<1> DEFINE y == [j \in 0 .. n - 1 |-> 0]
<1>1. /\ ph = "compare" /\ ph' = "compare" /\ ~same /\ i \in Nat /\ i < n /\ i' = i + 1
      /\ n \in Nat /\ disturbed' = disturbed /\ n' = n /\ same' = same /\ op' = op
      /\ l' = l /\ r' = r /\ i' \in 0 .. n
  BY FlowAssumption DEF IfxByte, instruction, FlowInv, FlowTypeOK, Phases
<1>2. carry' \in BOOLEAN /\ zero' \in BOOLEAN
  BY DEF IfxByte, Subtract
<1>3. FlowTypeOK'
  BY <1>1, <1>2 DEF IfxByte, instruction, FlowInv, FlowTypeOK
<1>4. Phases' /\ JumpsBehind' /\ BranchRight'
  BY <1>1 DEF IfxByte, FlowInv, Phases, JumpsBehind, BranchRight
<1>5. Flags'
  <2> SUFFICES ASSUME ~disturbed
               PROVE  (zero' <=> Equal(l, y, i + 1)) /\ (carry' <=> Less(l, y, i + 1))
    BY <1>1 DEF Flags, Subtracting, Other, Zeros, AllPrinted
  <2>1. i \in 0 .. n - 1 /\ \A j \in 0 .. i - 1 : j \in 0 .. n - 1
    BY <1>1
  <2>2. y[i] = 0 /\ y[i] \in Byte
    BY <2>1, FlowAssumption DEF Byte
  <2>3. Subtract(l[i], y[i])
    BY <2>2 DEF IfxByte
  <2>4. i > 0 => (zero <=> Equal(l, y, i)) /\ (carry <=> Less(l, y, i))
    BY <1>1 DEF FlowInv, Flags, Subtracting, Other, Zeros, AllPrinted
  <2>5. \A j \in 0 .. n - 1 : l[j] \in Byte /\ l[j] \in Int
    BY FlowAssumption DEF FlowInv, FlowTypeOK, Byte
  <2>6. l[i] \in Byte /\ \A j \in 0 .. i - 1 : l[j] \in Int
    BY <2>1, <2>5
  <2> HIDE DEF y
  <2> QED BY <1>1, <2>2, <2>3, <2>4, <2>6, SubtractFlags DEF FlowInv
<1> QED BY <1>3, <1>4, <1>5 DEF FlowInv

(* Ifx prints one, two or three jumps.                                     *)
LEMMA JumpsLength == Len(Jumps) \in {1, 2, 3}
BY DEF Jumps, J

(* After the last byte the flags are those of the operands.                *)
LEMMA CompareDoneInv ==
  ASSUME FlowInv, CompareDone
  PROVE  FlowInv'
<1>1. /\ ph' = "jump" /\ i = n /\ i' = i /\ disturbed' = disturbed /\ n' = n /\ same' = same
      /\ op' = op /\ l' = l /\ r' = r /\ zero' = zero /\ carry' = carry /\ jump' = jump
      /\ toTrue' = toTrue /\ right' = right
  BY DEF CompareDone, instruction
<1>2. FlowTypeOK'
  BY <1>1 DEF CompareDone, instruction, FlowInv, FlowTypeOK
<1>3. Phases' /\ BranchRight'
  BY <1>1 DEF Phases, BranchRight
<1>4. Flags'
  BY <1>1 DEF FlowInv, Flags, Subtracting, Other, Zeros, AllPrinted
<1>5. JumpsBehind'
  <2>1. Len(Jumps)' \in {1, 2, 3}
    BY DEF Jumps, J
  <2>2. jump' = 1
    BY <1>1 DEF CompareDone, FlowInv, Phases
  <2> QED BY <2>1, <2>2 DEF JumpsBehind
<1> QED BY <1>2, <1>3, <1>4, <1>5 DEF FlowInv

(* What the flags say where the jumps read them.                           *)
LEMMA FlagsMean ==
  ASSUME FlowInv, ph = "jump", ~disturbed, Supported
  PROVE  /\ op = "<"  => (Condition <=> carry)
         /\ op = "<=" => (Condition <=> carry \/ zero)
         /\ op = "==" => (Condition <=> zero)
         /\ op \notin Compares => (Condition <=> ~zero)
<1>1. i = n /\ n \in Nat \ {0} /\ i > 0
  BY FlowAssumption DEF FlowInv, FlowTypeOK, Phases
<1>2. CASE same /\ (op \in Compares \/ (op = "-" /\ AllPrinted))
  <2>1. (zero <=> Equal(l, r, n)) /\ (carry <=> Less(l, r, n))
    BY <1>1, <1>2 DEF FlowInv, Flags, Subtracting, Other, Zeros, AllPrinted
  <2>2. CASE op = "<"
    BY <1>2, <2>1, <2>2 DEF Condition, Compares
  <2>3. CASE op = "<="
    BY <1>2, <2>1, <2>3 DEF Condition, Compares
  <2>4. CASE op = "=="
    BY <1>2, <2>1, <2>4 DEF Condition, Compares
  <2>5. CASE op = "-"
    BY <1>2, <2>1, <2>5 DEF Condition, Compares
  <2> QED BY <1>2, <2>2, <2>3, <2>4, <2>5 DEF Compares
<1>3. CASE same /\ op = "logic" /\ n = 1
  <2>1. zero <=> l[0] = 0
    <3>1. zero <=> l[i - 1] = 0
      BY <1>1, <1>3 DEF FlowInv, Flags
    <3>2. i - 1 = 0
      BY <1>1, <1>3
    <3> QED BY <3>1, <3>2
  <2>2. NonZero(l) <=> l[0] # 0
    <3>1. \A j : j \in 0 .. n - 1 <=> j = 0
      BY <1>3
    <3> QED BY <3>1 DEF NonZero
  <2>3. Condition = NonZero(l)
    BY <1>3 DEF Condition
  <2> QED BY <1>3, <2>1, <2>2, <2>3 DEF Compares
<1>4. CASE ~same /\ op \notin Compares
  <2>1. zero <=> Equal(l, [j \in 0 .. n - 1 |-> 0], n)
    BY <1>1, <1>4 DEF FlowInv, Flags, Subtracting, Other, Zeros, AllPrinted
  <2>2. Equal(l, [j \in 0 .. n - 1 |-> 0], n) <=> ~NonZero(l)
    BY DEF Equal, NonZero
  <2>3. Condition = NonZero(l)
    BY <1>4 DEF Condition
  <2> QED BY <1>4, <2>1, <2>2, <2>3 DEF Compares
<1>5. CASE same /\ op = "+" /\ AllPrinted
  <2>1. zero <=> Equal(l, Zeros, n)
    BY <1>1, <1>5 DEF FlowInv, Flags
  <2>2. Equal(l, Zeros, n) <=> ~NonZero(l)
    BY DEF Equal, NonZero, Zeros
  <2>3. Condition = NonZero(l)
    BY <1>5 DEF Condition
  <2> QED BY <1>5, <2>1, <2>2, <2>3 DEF Compares
<1> QED BY <1>2, <1>3, <1>4, <1>5 DEF Supported, Sums

(* The end of Ifx that is reached is the right one.                        *)
LEMMA TakenRight ==
  ASSUME FlowInv, JumpTaken, ~disturbed, Supported
  PROVE  Right'
<1>1. /\ ph = "jump" /\ jump \in 1 .. Len(Jumps) /\ Taken(Jumps[jump].flag)
      /\ branch' = (IF Jumps[jump].label = "on" THEN Onward ELSE Jumps[jump].label)
      /\ \A k \in 1 .. jump - 1 : ~Taken(Jumps[k].flag)
  BY JumpsLength DEF JumpTaken, FlowInv, JumpsBehind, FlowTypeOK
<1>2. Condition' = Condition
  BY DEF JumpTaken, instruction, Condition, Less, Equal, NonZero
<1>3. SUFFICES branch' = IF Condition THEN "true" ELSE "false"
  BY <1>2 DEF Right
<1>4. carry \in BOOLEAN /\ zero \in BOOLEAN /\ toTrue \in BOOLEAN
  BY DEF FlowInv, FlowTypeOK
<1>5. CASE op = "<"
  <2>1. Condition <=> carry
    BY <1>1, <1>5, FlagsMean
  <2>2. CASE toTrue
    <3>1. Jumps = <<J("C", "true")>>
      BY <1>5, <2>2 DEF Jumps
    <3>2. jump = 1 /\ Jumps[jump].flag = "C" /\ Jumps[jump].label = "true"
      BY <1>1, <3>1 DEF J
    <3> QED BY <1>1, <2>1, <3>2 DEF Taken
  <2>3. CASE ~toTrue
    <3>1. Jumps = <<J("NC", "false")>>
      BY <1>5, <2>3 DEF Jumps
    <3>2. jump = 1 /\ Jumps[jump].flag = "NC" /\ Jumps[jump].label = "false"
      BY <1>1, <3>1 DEF J
    <3> QED BY <1>1, <2>1, <3>2 DEF Taken
  <2> QED BY <2>2, <2>3
<1>6. CASE op = "<="
  <2>1. Condition <=> carry \/ zero
    BY <1>1, <1>6, FlagsMean
  <2>2. CASE toTrue
    <3>1. Jumps = <<J("C", "true"), J("Z", "true")>>
      BY <1>6, <2>2 DEF Jumps
    <3>2. Jumps[jump].flag \in {"C", "Z"} /\ Jumps[jump].label = "true"
      BY <1>1, <3>1 DEF J
    <3> QED BY <1>1, <2>1, <3>2 DEF Taken
  <2>3. CASE ~toTrue
    <3>1. Jumps = <<J("Z", "on"), J("C", "on"), J("always", "false")>>
      BY <1>6, <2>3 DEF Jumps
    <3>2. jump \in {1, 2, 3}
      BY <1>1, <3>1
    <3>3. CASE jump \in {1, 2}
      <4>1. Jumps[jump].flag \in {"C", "Z"} /\ Jumps[jump].label = "on"
        BY <3>1, <3>3 DEF J
      <4> QED BY <1>1, <2>1, <2>3, <4>1 DEF Taken, Onward
    <3>4. CASE jump = 3
      <4>1. /\ Jumps[1].flag = "Z" /\ Jumps[2].flag = "C" /\ Jumps[3].label = "false"
            /\ 1 \in 1 .. jump - 1 /\ 2 \in 1 .. jump - 1
        BY <3>1, <3>4 DEF J
      <4>2. ~Taken("Z") /\ ~Taken("C")
        BY <1>1, <4>1
      <4> QED BY <1>1, <2>1, <3>4, <4>1, <4>2 DEF Taken
    <3> QED BY <3>2, <3>3, <3>4
  <2> QED BY <2>2, <2>3
<1>7. CASE op = "=="
  <2>1. Condition <=> zero
    BY <1>1, <1>7, FlagsMean
  <2>2. CASE toTrue
    <3>1. Jumps = <<J("Z", "true")>>
      BY <1>7, <2>2 DEF Jumps
    <3>2. jump = 1 /\ Jumps[jump].flag = "Z" /\ Jumps[jump].label = "true"
      BY <1>1, <3>1 DEF J
    <3> QED BY <1>1, <2>1, <3>2 DEF Taken
  <2>3. CASE ~toTrue
    <3>1. Jumps = <<J("NZ", "false")>>
      BY <1>7, <2>3 DEF Jumps
    <3>2. jump = 1 /\ Jumps[jump].flag = "NZ" /\ Jumps[jump].label = "false"
      BY <1>1, <3>1 DEF J
    <3> QED BY <1>1, <2>1, <3>2 DEF Taken
  <2> QED BY <2>2, <2>3
<1>8. CASE op \notin Compares
  <2>1. Condition <=> ~zero
    BY <1>1, <1>8, FlagsMean
  <2>2. CASE toTrue
    <3>1. Jumps = <<J("NZ", "true")>>
      BY <1>8, <2>2 DEF Jumps, Compares
    <3>2. jump = 1 /\ Jumps[jump].flag = "NZ" /\ Jumps[jump].label = "true"
      BY <1>1, <3>1 DEF J
    <3> QED BY <1>1, <2>1, <3>2 DEF Taken
  <2>3. CASE ~toTrue
    <3>1. Jumps = <<J("Z", "false")>>
      BY <1>8, <2>3 DEF Jumps, Compares
    <3>2. jump = 1 /\ Jumps[jump].flag = "Z" /\ Jumps[jump].label = "false"
      BY <1>1, <3>1 DEF J
    <3> QED BY <1>1, <2>1, <3>2 DEF Taken
  <2> QED BY <2>2, <2>3
<1> QED BY <1>5, <1>6, <1>7, <1>8 DEF Compares
LEMMA FallsRight ==
  ASSUME FlowInv, FallThrough, ~disturbed, Supported
  PROVE  Right'
<1>1. /\ ph = "jump" /\ branch' = Onward /\ jump = Len(Jumps) + 1
      /\ \A k \in 1 .. Len(Jumps) : ~Taken(Jumps[k].flag)
  BY JumpsLength DEF FallThrough, FlowInv, JumpsBehind
<1>2. Condition' = Condition
  BY DEF FallThrough, instruction, Condition, Less, Equal, NonZero
<1>3. SUFFICES branch' = IF Condition THEN "true" ELSE "false"
  BY <1>2 DEF Right
<1>4. CASE op = "<"
  <2>1. Condition <=> carry
    BY <1>1, <1>4, FlagsMean
  <2>2. ~Taken(IF toTrue THEN "C" ELSE "NC")
    BY <1>1, <1>4 DEF Jumps, J
  <2> QED BY <1>1, <2>1, <2>2 DEF Taken, Onward
<1>5. CASE op = "<="
  <2>1. Condition <=> carry \/ zero
    BY <1>1, <1>5, FlagsMean
  <2>2. IF toTrue THEN ~Taken("C") /\ ~Taken("Z") ELSE ~Taken("always")
    BY <1>1, <1>5 DEF Jumps, J
  <2> QED BY <1>1, <2>1, <2>2 DEF Taken, Onward
<1>6. CASE op = "=="
  <2>1. Condition <=> zero
    BY <1>1, <1>6, FlagsMean
  <2>2. ~Taken(IF toTrue THEN "Z" ELSE "NZ")
    BY <1>1, <1>6 DEF Jumps, J
  <2> QED BY <1>1, <2>1, <2>2 DEF Taken, Onward
<1>7. CASE op \notin Compares
  <2>1. Condition <=> ~zero
    BY <1>1, <1>7, FlagsMean
  <2>2. ~Taken(IF toTrue THEN "NZ" ELSE "Z")
    BY <1>1, <1>7 DEF Jumps, J, Compares
  <2> QED BY <1>1, <2>1, <2>2 DEF Taken, Onward
<1> QED BY <1>4, <1>5, <1>6, <1>7 DEF Compares

(* The jumps keep the invariant.                                           *)
LEMMA JumpTakenInv ==
  ASSUME FlowInv, JumpTaken
  PROVE  FlowInv'
<1>1. ph = "jump" /\ ph' = "done" /\ i' = i /\ UNCHANGED <<instruction, carry, zero, disturbed, jump>>
  BY DEF JumpTaken
<1>2. branch' \in {"true", "false"}
  BY DEF JumpTaken, Jumps, J, Onward, FlowInv, JumpsBehind, FlowTypeOK
<1>3. FlowTypeOK'
  BY <1>1, <1>2 DEF instruction, FlowInv, FlowTypeOK
<1>4. Phases' /\ Flags' /\ JumpsBehind'
  BY <1>1 DEF instruction, FlowInv, Phases, Flags, JumpsBehind, Subtracting, Other, Zeros, AllPrinted, Equal, Less
<1>5. BranchRight'
  BY <1>1, TakenRight DEF instruction, BranchRight, Supported, AllPrinted
<1> QED BY <1>3, <1>4, <1>5 DEF FlowInv
LEMMA JumpNotTakenInv ==
  ASSUME FlowInv, JumpNotTaken
  PROVE  FlowInv'
<1>1. /\ ph = "jump" /\ ph' = "jump" /\ i' = i /\ jump' = jump + 1 /\ jump <= Len(Jumps)
      /\ ~Taken(Jumps[jump].flag)
      /\ UNCHANGED <<instruction, carry, zero, disturbed, branch>>
  BY DEF JumpNotTaken
<1>2. jump' \in 1 .. Len(Jumps) + 1 /\ jump' \in 1 .. 4
  BY <1>1, JumpsLength DEF FlowInv, FlowTypeOK
<1>3. FlowTypeOK'
  BY <1>1, <1>2 DEF instruction, FlowInv, FlowTypeOK
<1>4. Phases' /\ Flags' /\ BranchRight'
  BY <1>1 DEF instruction, FlowInv, Phases, Flags, BranchRight, Subtracting, Other, Zeros, AllPrinted, Equal, Less
<1>5. JumpsBehind'
  <2>1. Jumps' = Jumps /\ \A f : Taken(f)' <=> Taken(f)
    BY <1>1 DEF instruction, Jumps, Taken
  <2>2. \A k \in 1 .. jump : ~Taken(Jumps[k].flag)
    <3> TAKE k \in 1 .. jump
    <3>1. k = jump \/ k \in 1 .. jump - 1
      BY DEF FlowInv, FlowTypeOK
    <3> QED BY <1>1, <3>1 DEF FlowInv, JumpsBehind
  <2>3. jump' - 1 = jump
    BY <1>1 DEF FlowInv, FlowTypeOK
  <2> QED BY <1>2, <2>1, <2>2, <2>3 DEF JumpsBehind
<1> QED BY <1>3, <1>4, <1>5 DEF FlowInv
LEMMA FallThroughInv ==
  ASSUME FlowInv, FallThrough
  PROVE  FlowInv'
<1>1. ph = "jump" /\ ph' = "done" /\ i' = i /\ UNCHANGED <<instruction, carry, zero, disturbed, jump>>
  BY DEF FallThrough
<1>2. branch' \in {"true", "false"}
  BY DEF FallThrough, Onward
<1>3. FlowTypeOK'
  BY <1>1, <1>2 DEF instruction, FlowInv, FlowTypeOK
<1>4. Phases' /\ Flags' /\ JumpsBehind'
  BY <1>1 DEF instruction, FlowInv, Phases, Flags, JumpsBehind, Subtracting, Other, Zeros, AllPrinted, Equal, Less
<1>5. BranchRight'
  BY <1>1, FallsRight DEF instruction, BranchRight, Supported, AllPrinted
<1> QED BY <1>3, <1>4, <1>5 DEF FlowInv
LEMMA FlowStutterInv ==
  ASSUME FlowInv, UNCHANGED flowVars
  PROVE  FlowInv'
<1>1. UNCHANGED <<instruction, ph, i, carry, zero, disturbed, jump, branch>>
  BY DEF flowVars, instruction
<1>2. Phases' /\ Flags'
  BY <1>1 DEF instruction, FlowInv, Phases, Flags, Subtracting, Other, Zeros, AllPrinted, Equal, Less
<1>2a. FlowTypeOK'
  BY <1>1 DEF instruction, FlowInv, FlowTypeOK
<1>3. JumpsBehind'
  BY <1>1 DEF instruction, FlowInv, JumpsBehind, Jumps, Taken
<1>4. BranchRight'
  BY <1>1 DEF instruction, FlowInv, BranchRight, Supported, AllPrinted, Right, Condition, NonZero, Equal, Less
<1> QED BY <1>2, <1>2a, <1>3, <1>4 DEF FlowInv

(* The invariant of the comparison and its branch.                         *)
THEOREM FlowInvariant == FlowSpec => []FlowInv
<1>1. FlowInit => FlowInv
  BY FlowInitInv
<1>2. FlowInv /\ [FlowNext]_flowVars => FlowInv'
  BY MoveSPInv, PrevByteInv, IfxByteInv, CompareDoneInv, JumpTakenInv, JumpNotTakenInv,
     FallThroughInv, FlowStutterInv DEF FlowNext
<1> QED BY <1>1, <1>2, PTL DEF FlowSpec

(* The branch goes where the comparison says (gen.cc, CmpLt, CmpEq, Ifx).  *)
THEOREM BranchAlwaysRight == FlowSpec => []BranchRight
<1>1. FlowInv => BranchRight
  BY DEF FlowInv
<1> QED BY <1>1, FlowInvariant, PTL

(* The state of the two handlers stays in range.                           *)
THEOREM FlowTypeCorrect == FlowSpec => []FlowTypeOK
<1>1. FlowInv => FlowTypeOK
  BY DEF FlowInv
<1> QED BY <1>1, FlowInvariant, PTL

-----------------------------------------------------------------------------
(* A line takes one of these to the next.                                  *)
Machine == [ok : BOOLEAN, g : Counters, sym : Tables]

(* What Keep and Unless give, taken apart.                                 *)
LEMMA KeepIs ==
  ASSUME NEW h \in Counters, NEW s \in Tables
  PROVE  /\ Keep(h, s) \in Machine
         /\ Keep(h, s).ok = TRUE /\ Keep(h, s).g = h /\ Keep(h, s).sym = s
BY DEF Keep, Machine

LEMMA UnlessIs ==
  ASSUME NEW m \in Machine, NEW error \in BOOLEAN, NEW h, NEW s,
         ~error => h \in Counters /\ s \in Tables
  PROVE  /\ Unless(m, error, h, s) \in Machine
         /\ Unless(m, error, h, s).ok = ~error
         /\ Unless(m, error, h, s).g = IF error THEN m.g ELSE h
         /\ Unless(m, error, h, s).sym = IF error THEN m.sym ELSE s
<1>1. CASE error = TRUE
  <2>1. Unless(m, error, h, s) = [m EXCEPT !.ok = FALSE]
    BY <1>1 DEF Unless
  <2> QED BY <1>1, <2>1 DEF Machine
<1>2. CASE error = FALSE
  <2>1. Unless(m, error, h, s) = Keep(h, s)
    BY <1>2 DEF Unless
  <2>2. h \in Counters /\ s \in Tables
    BY <1>2
  <2>3. /\ Keep(h, s) \in Machine
        /\ Keep(h, s).ok = TRUE /\ Keep(h, s).g = h /\ Keep(h, s).sym = s
    BY <2>2, KeepIs
  <2> QED BY <1>2, <2>1, <2>3
<1> QED BY <1>1, <1>2

(* The values of expressions.                                              *)
LEMMA EvalIs ==
  ASSUME NEW m \in Machine, NEW e \in Names \union Nat \union {Here}, Eval(m, e) # Undef
  PROVE  Eval(m, e) \in Nat
<1>1. CASE e = Here
  BY <1>1 DEF Eval, Machine, Counters
<1>2. CASE e \in Names /\ e # Here
  <2>1. Known(m, e) /\ Eval(m, e) = Found(m, e).value
    BY <1>2 DEF Eval
  <2>2. m.sym[e] \in Seq(Definitions) /\ m.sym[e] # <<>>
    BY <2>1, <1>2 DEF Known, Machine, Tables
  <2>3. m.sym[e][1] \in Definitions
    BY <2>2
  <2> QED BY <2>1, <2>3 DEF Found, Definitions
<1>3. CASE e \in Nat /\ e # Here /\ e \notin Names
  BY <1>3 DEF Eval
<1> QED BY <1>1, <1>2, <1>3

(* Tables stay tables, and what becomes of the definition a search finds.  *)
LEMMA FoundIs ==
  ASSUME NEW m \in Machine, NEW nm \in Names, Known(m, nm)
  PROVE  /\ Found(m, nm) \in Definitions
         /\ m.sym[nm] \in Seq(Definitions) /\ Len(m.sym[nm]) >= 1
<1>1. m.sym[nm] \in Seq(Definitions) /\ m.sym[nm] # <<>>
  BY DEF Known, Machine, Tables
<1> QED BY <1>1 DEF Found

LEMMA AddedIs ==
  ASSUME NEW m \in Machine, NEW nm \in Names, NEW d \in Definitions
  PROVE  /\ Added(m, nm, d) \in Tables
         /\ \A q \in Names \ {nm} : Added(m, nm, d)[q] = m.sym[q]
         /\ Added(m, nm, d)[nm] # <<>>
         /\ Added(m, nm, d)[nm][1] = IF Known(m, nm) THEN Revalued(Found(m, nm), d) ELSE d
<1> DEFINE old == m.sym[nm]
           new == [k \in DOMAIN old |-> Revalued(old[k], d)]
<1>1. m.sym \in Tables /\ old \in Seq(Definitions) /\ nm # None
  BY AsmAssumption DEF Machine, Tables
<1>2. \A e \in Definitions : Revalued(e, d) \in Definitions
  BY DEF Revalued, Definitions
<1>3. new \in Seq(Definitions) /\ Len(new) = Len(old) /\ DOMAIN old = 1 .. Len(old)
  <2>1. DOMAIN old = 1 .. Len(old) /\ \A k \in DOMAIN old : old[k] \in Definitions
    BY <1>1
  <2>2. Len(old) \in Nat
    BY <1>1
  <2>3. new \in [1 .. Len(old) -> Definitions]
    BY <1>2, <2>1
  <2> QED BY <2>1, <2>2, <2>3
<1>4. Added(m, nm, d) = [m.sym EXCEPT ![nm] = Append(new, d)]
  BY <1>1 DEF Added
<1>5. Append(new, d) \in Seq(Definitions) /\ Append(new, d) # <<>>
  <2> HIDE DEF new
  <2>1. Append(new, d) \in Seq(Definitions) /\ Len(Append(new, d)) = Len(new) + 1
    BY <1>3, AppendFacts
  <2> QED BY <2>1, <1>3
<1>6. Append(new, d)[1] = IF Known(m, nm) THEN Revalued(Found(m, nm), d) ELSE d
  <2>1. CASE old = <<>>
    <3>1. Len(new) = 0
      BY <2>1, <1>3
    <3> HIDE DEF new
    <3>2. Append(new, d)[Len(new) + 1] = d
      BY <1>3, AppendFacts
    <3> QED BY <2>1, <3>1, <3>2 DEF Known
  <2>2. CASE old # <<>>
    <3>1. Len(old) >= 1 /\ 1 \in DOMAIN old
      BY <2>2, <1>1, <1>3
    <3>2. new[1] = Revalued(Found(m, nm), d)
      BY <3>1 DEF Found
    <3> HIDE DEF new
    <3>3. Append(new, d)[1] = new[1]
      BY <1>3, <3>1, AppendFacts
    <3> QED BY <2>2, <3>2, <3>3 DEF Known
  <2> QED BY <2>1, <2>2
<1> HIDE DEF new, old
<1> QED BY <1>1, <1>4, <1>5, <1>6 DEF Tables

LEMMA MovedIs ==
  ASSUME NEW m \in Machine, NEW nm \in Names, Known(m, nm), NEW v \in Nat
  PROVE  /\ Moved(m, nm, v) \in Tables
         /\ \A q \in Names \ {nm} : Moved(m, nm, v)[q] = m.sym[q]
         /\ Moved(m, nm, v)[nm] # <<>>
         /\ Moved(m, nm, v)[nm][1] = [Found(m, nm) EXCEPT !.value = v]
<1> DEFINE d == [Found(m, nm) EXCEPT !.value = v]
           rest == Tail(m.sym[nm])
<1>1. Found(m, nm) \in Definitions /\ m.sym[nm] \in Seq(Definitions) /\ Len(m.sym[nm]) >= 1
  BY FoundIs
<1>2. d \in Definitions /\ rest \in Seq(Definitions)
  BY <1>1 DEF Definitions
<1>3. Moved(m, nm, v) = [m.sym EXCEPT ![nm] = <<d>> \o rest]
  BY DEF Moved
<1> HIDE DEF d, rest
<1>4. <<d>> \o rest \in Seq(Definitions) /\ <<d>> \o rest # <<>> /\ (<<d>> \o rest)[1] = d
  BY <1>2
<1>5. m.sym \in Tables
  BY DEF Machine
<1> USE DEF d
<1> QED BY <1>3, <1>4, <1>5 DEF Tables

LEMMA BuildIs ==
  ASSUME NEW m, NEW ln
  PROVE  /\ ln.op = "label" => build(m, ln) = build_label(m, ln)
         /\ ln.op \in {"jump", "load"} => build(m, ln) = build_code(m, ln)
         /\ ln.op = "if" => build(m, ln) = build_if(m, ln)
         /\ ln.op = "fi" => build(m, ln) = build_fi(m, ln)
         /\ ln.op = "org" => build(m, ln) = build_org(m, ln)
         /\ ln.op = "esg" => build(m, ln) = build_esg(m, ln)
         /\ ln.op = "dsg" => build(m, ln) = build_dsg(m, ln)
         /\ ln.op = "align" => build(m, ln) = build_align(m, ln)
         /\ ln.op = "end" => build(m, ln) = build_end(m, ln)
         /\ ln.op = "scr" => build(m, ln) = build_scr(m, ln)
         /\ ln.op = "equ" => build(m, ln) = build_equ(m, ln)
         /\ ln.op = "set" => build(m, ln) = build_set(m, ln)
         /\ ln.op = "constant" => build(m, ln) = build_constant(m, ln)
         /\ ln.op = "ds" => build(m, ln) = build_ds(m, ln)
         /\ ln.op = "data" => build(m, ln) = build_data(m, ln)
         /\ ln.op = "buf" => build(m, ln) = build_buf(m, ln)
BY DEF build

LEMMA AssembleIs ==
  ASSUME NEW m, NEW ln
  PROVE  /\ ln.op = "label" => assemble(m, ln) = assemble_label(m, ln)
         /\ ln.op \in {"jump", "load"} => assemble(m, ln) = assemble_code(m, ln)
         /\ ln.op = "if" => assemble(m, ln) = assemble_if(m, ln)
         /\ ln.op = "fi" => assemble(m, ln) = assemble_fi(m, ln)
         /\ ln.op = "org" => assemble(m, ln) = assemble_org(m, ln)
         /\ ln.op = "esg" => assemble(m, ln) = assemble_esg(m, ln)
         /\ ln.op = "dsg" => assemble(m, ln) = assemble_dsg(m, ln)
         /\ ln.op = "align" => assemble(m, ln) = assemble_align(m, ln)
         /\ ln.op = "end" => assemble(m, ln) = assemble_end(m, ln)
         /\ ln.op = "scr" => assemble(m, ln) = assemble_scr(m, ln)
         /\ ln.op = "equ" => assemble(m, ln) = assemble_equ(m, ln)
         /\ ln.op = "set" => assemble(m, ln) = assemble_set(m, ln)
         /\ ln.op = "constant" => assemble(m, ln) = assemble_constant(m, ln)
         /\ ln.op = "ds" => assemble(m, ln) = assemble_ds(m, ln)
         /\ ln.op = "data" => assemble(m, ln) = assemble_data(m, ln)
         /\ ln.op = "buf" => assemble(m, ln) = assemble_buf(m, ln)
BY DEF assemble



(* What AsmAssumption says of a line.                                      *)
Expressions == Names \union Nat \union {Here}
LEMMA LineIs ==
  ASSUME NEW ln \in Lines
  PROVE  /\ ln.op \in Named \union Valued \union {"fi", "esg", "scr", "data"}
         /\ ln.name \in Names \union {None} /\ None \notin Names
         /\ ln.op \in Named => ln.name \in Names
         /\ ln.arg \in Expressions \union {None} /\ None \notin Expressions
         /\ ln.op \in Valued => ln.arg \in Expressions
         /\ ln.width \in Nat
<1>1. /\ ln \in Line
      /\ ln.op \in Named => ln.name # None
      /\ ln.op \in Valued => ln.arg # None
  BY AsmAssumption
<1>2. None \notin Names /\ None # Here /\ None \notin Nat
  BY AsmAssumption
<1>3. /\ ln.op \in Named \union Valued \union {"fi", "esg", "scr", "data"}
      /\ ln.name \in Names \union {None} /\ ln.arg \in Names \union Nat \union {Here, None}
      /\ ln.width \in Nat
  BY <1>1 DEF Line
<1> QED BY <1>1, <1>2, <1>3 DEF Expressions

-----------------------------------------------------------------------------
(* The definition a line gives its name in pass 1.                         *)
Gives(m, ln) ==
  IF ln.op = "label" THEN Label(m, ln.name)
  ELSE IF ln.op \in {"esg", "data"} THEN Value("INT", m.g.scr)
  ELSE IF ln.op = "buf" THEN Value("INT", m.g.scr % BYTE)
  ELSE Value(IF ln.op = "set" THEN "SET" ELSE "INT", Eval(m, ln.arg))

Defines == {"label", "equ", "set", "constant", "ds", "esg", "data", "buf"}

(* What a line does to the table in pass 1, if it has no error.            *)
BuildsTable(m, ln, s) ==
  \/ s = m.sym /\ (ln.op \in Defines => ln.name = None \/ ln.op = "ds")
  \/ /\ ln.op \in Defines /\ ln.name \in Names /\ Gives(m, ln) \in Definitions
     /\ s = Added(m, ln.name, Gives(m, ln))
     /\ ln.op # "constant" => ~Known(m, ln.name) \/ Found(m, ln.name).sub = "SET"
     /\ ln.op = "label" => ~IsDot(m, ln.name)
  \/ ln.op = "label" /\ IsDot(m, ln.name) /\ s = Moved(m, ln.name, m.g.pc)

(* What a line does to the counters in either pass, .END and .SCR aside;   *)
(* what it may count on then.                                              *)
Effect(m, ln) ==
  IF ln.op \in {"jump", "load"} THEN IfActive(m, [m.g EXCEPT !.pc = @ + 1])
  ELSE IF ln.op = "if" THEN [m.g EXCEPT !.active = Eval(m, ln.arg) # 0]
  ELSE IF ln.op = "fi" THEN [m.g EXCEPT !.active = TRUE]
  ELSE IF ln.op = "org" THEN IfActive(m, [m.g EXCEPT !.pc = Eval(m, ln.arg)])
  ELSE IF ln.op = "align" THEN IfActive(m, [m.g EXCEPT !.pc = Aligned(m, Eval(m, ln.arg))])
  ELSE IF ln.op = "esg" THEN Popped(m)
  ELSE IF ln.op = "dsg" THEN Pushed(m, Eval(m, ln.arg))
  ELSE IF ln.op = "data" THEN Filled(m, ln)
  ELSE IF ln.op = "buf" THEN Buffer(m, Eval(m, ln.arg))
  ELSE m.g
Reads == {"if", "org", "align", "dsg", "equ", "set", "constant", "ds", "buf"}
Sound(m, ln) ==
  /\ ln.op \in Reads => Eval(m, ln.arg) \in Nat
  /\ ln.op = "align" => Eval(m, ln.arg) > 0
  /\ ln.op = "dsg" /\ m.g.active => Len(m.g.esg) < MAXESG
  /\ ln.op = "esg" /\ m.g.active => m.g.esg # <<>>

Alike(h, k) == h.pc = k.pc /\ h.scr = k.scr /\ h.esg = k.esg /\ h.active = k.active
Shallow(h) == Len(h.esg) <= MAXESG

LEMMA CountersIs ==
  ASSUME NEW m \in Machine
  PROVE  /\ m.ok \in BOOLEAN /\ m.g \in Counters /\ m.sym \in Tables
         /\ m.g.pc \in Nat /\ m.g.scr \in Nat /\ m.g.esg \in Seq(Nat) /\ m.g.range \in Nat
         /\ m.g.size \in Nat /\ m.g.active \in BOOLEAN
BY DEF Machine, Counters

(* A definition with a number for a value is one.                          *)
LEMMA ValueIs ==
  ASSUME NEW v \in Nat
  PROVE  Value("INT", v) \in Definitions /\ Value("SET", v) \in Definitions
BY DEF Value, Definitions
LEMMA LabelIs ==
  ASSUME NEW m \in Machine, NEW nm
  PROVE  Label(m, nm) \in Definitions
BY CountersIs DEF Label, Definitions

(* The table a line leaves, of whatever name it defines.                   *)
LEMMA AddedTyped ==
  ASSUME NEW m \in Machine, NEW nm \in Names \union {None}, NEW d \in Definitions
  PROVE  Added(m, nm, d) \in Tables
<1>1. CASE nm \in Names
  BY <1>1, AddedIs
<1>2. CASE nm = None
  BY <1>2, CountersIs DEF Added
<1> QED BY <1>1, <1>2

LEMMA IfActiveIs ==
  ASSUME NEW m \in Machine, NEW h, m.g.active => h \in Counters
  PROVE  /\ IfActive(m, h) \in Counters
         /\ ~m.g.active => IfActive(m, h) = m.g
         /\ m.g.active => IfActive(m, h) = h
BY CountersIs DEF IfActive

(* Appending to and taking from the list of segments.                      *)
LEMMA SegmentsIs ==
  ASSUME NEW s \in Seq(Nat)
  PROVE  /\ Len(s) \in Nat
         /\ \A v \in Nat : Append(s, v) \in Seq(Nat) /\ Len(Append(s, v)) = Len(s) + 1
         /\ s # <<>> => Last(s) \in Nat /\ Front(s) \in Seq(Nat) /\ Len(Front(s)) = Len(s) - 1
<1>1. Len(s) \in Nat /\ \A v \in Nat : Append(s, v) \in Seq(Nat) /\ Len(Append(s, v)) = Len(s) + 1
  OBVIOUS
<1>2. ASSUME s # <<>>
      PROVE  Last(s) \in Nat /\ Front(s) \in Seq(Nat) /\ Len(Front(s)) = Len(s) - 1
  <2>1. Len(s) \in Nat /\ Len(s) >= 1
    BY <1>2
  <2>2. s[Len(s)] \in Nat
    BY <2>1
  <2>3. Front(s) \in Seq(Nat)
    BY <2>1 DEF Front
  <2>4. Len(Front(s)) = Len(s) - 1
    <3>1. Len(s) - 1 \in Nat /\ Len(s) - 1 <= Len(s)
      BY <2>1
    <3>2. Front(s) = SubSeq(s, 1, Len(s) - 1)
      BY DEF Front
    <3>3. ASSUME NEW k \in Nat, k <= Len(s)
          PROVE  Len(SubSeq(s, 1, k)) = k
      BY <2>1, <3>3
    <3> QED BY <3>1, <3>2, <3>3
  <2> QED BY <2>2, <2>3, <2>4 DEF Last
<1> QED BY <1>1, <1>2

(* Counters that change one at a time.                                     *)
LEMMA CountersWith ==
  ASSUME NEW h \in Counters
  PROVE  /\ \A v \in Nat : [h EXCEPT !.pc = v] \in Counters /\ [h EXCEPT !.scr = v] \in Counters
         /\ \A v \in Nat : [h EXCEPT !.range = v] \in Counters /\ [h EXCEPT !.size = v] \in Counters
         /\ \A b \in BOOLEAN : [h EXCEPT !.active = b] \in Counters
BY DEF Counters

LEMMA EffectIs ==
  ASSUME NEW m \in Machine, NEW ln \in Lines, Sound(m, ln)
  PROVE  /\ Effect(m, ln) \in Counters
         /\ Shallow(m.g) => Shallow(Effect(m, ln))
<1> DEFINE v == Eval(m, ln.arg)
<1> DEFINE e == Effect(m, ln)
<1>1. /\ m.g \in Counters /\ m.g.pc \in Nat /\ m.g.scr \in Nat /\ m.g.esg \in Seq(Nat)
      /\ m.g.active \in BOOLEAN /\ MAXESG \in Nat
  BY CountersIs, AsmAssumption
<1>2. CASE ln.op \in {"jump", "load"}
  <2>1. [m.g EXCEPT !.pc = @ + 1] \in Counters
    <3>1. m.g.pc + 1 \in Nat
      BY <1>1
    <3> QED BY <1>1, <3>1, CountersWith
  <2>2. e = IfActive(m, [m.g EXCEPT !.pc = @ + 1])
    BY <1>2 DEF Effect
  <2> QED BY <1>1, <2>1, <2>2 DEF IfActive, Shallow
<1>3. CASE ln.op \in {"if", "fi"}
  <2>1. e = [m.g EXCEPT !.active = IF ln.op = "if" THEN v # 0 ELSE TRUE]
    BY <1>3 DEF Effect
  <2> QED BY <1>1, <2>1 DEF Counters, Shallow
<1>4. CASE ln.op \in {"org", "align"}
  <2>1. v \in Nat /\ (ln.op = "align" => v > 0)
    BY <1>4 DEF Sound, Reads
  <2> DEFINE p == IF ln.op = "org" THEN v ELSE Aligned(m, v)
  <2>2. p \in Nat
    <3>1. ASSUME ln.op = "align" PROVE Aligned(m, v) \in Nat
      <4> DEFINE q == (m.g.pc + v - 1) \div v
      <4>1. q \in Nat
        <5>1. m.g.pc + v - 1 \in Nat /\ v \in Nat \ {0}
          BY <1>1, <2>1, <3>1
        <5> HIDE DEF v
        <5>2. \A a \in Nat, b \in Nat \ {0} : a \div b \in Nat
          OBVIOUS
        <5> QED BY <5>1, <5>2
      <4>2. Aligned(m, v) = q * v
        BY DEF Aligned
      <4> HIDE DEF q
      <4>3. q * v \in Nat
        <5> HIDE DEF v
        <5>1. \A a \in Nat, b \in Nat : a * b \in Nat
          OBVIOUS
        <5> QED BY <2>1, <4>1, <5>1
      <4> QED BY <4>2, <4>3
    <3> QED BY <1>4, <2>1, <3>1
  <2>3. e = IfActive(m, [m.g EXCEPT !.pc = p])
    BY <1>4 DEF Effect
  <2> HIDE DEF p
  <2>4. [m.g EXCEPT !.pc = p] \in Counters
    BY <1>1, <2>2, CountersWith
  <2> QED BY <1>1, <2>3, <2>4 DEF IfActive, Shallow
<1>5. CASE ln.op = "esg"
  <2>1. e = IF m.g.active THEN [m.g EXCEPT !.scr = Last(m.g.esg), !.esg = Front(m.g.esg)] ELSE m.g
    BY <1>5 DEF Effect, Popped, IfActive
  <2>2. m.g.active => m.g.esg # <<>>
    BY <1>5 DEF Sound
  <2>3. CASE m.g.active
    <3>1. /\ Last(m.g.esg) \in Nat /\ Front(m.g.esg) \in Seq(Nat)
          /\ Len(Front(m.g.esg)) = Len(m.g.esg) - 1 /\ Len(m.g.esg) \in Nat
      BY <1>1, <2>2, <2>3, SegmentsIs
    <3>2. e = [m.g EXCEPT !.scr = Last(m.g.esg), !.esg = Front(m.g.esg)]
      BY <2>1, <2>3
    <3>3. e \in Counters /\ e.esg = Front(m.g.esg)
      <4> DEFINE t == Front(m.g.esg)
                 u == Last(m.g.esg)
      <4>1. t \in Seq(Nat) /\ u \in Nat /\ e = [m.g EXCEPT !.scr = u, !.esg = t]
        BY <3>1, <3>2
      <4> HIDE DEF t, u, e
      <4>2. PICK h \in Counters : h = m.g
        BY <1>1
      <4>3. e = [h EXCEPT !.scr = u, !.esg = t]
        BY <4>1, <4>2
      <4>4. e \in Counters /\ e.esg = t
        BY <4>1, <4>3 DEF Counters
      <4> QED BY <4>4 DEF t
    <3> QED BY <1>1, <3>1, <3>3 DEF Shallow
  <2> QED BY <1>1, <2>1, <2>3
<1>6. CASE ln.op = "dsg"
  <2>1. e = IF m.g.active THEN [m.g EXCEPT !.esg = Append(@, m.g.scr), !.scr = v] ELSE m.g
    BY <1>6 DEF Effect, Pushed, IfActive
  <2>2. v \in Nat /\ (m.g.active => Len(m.g.esg) < MAXESG)
    BY <1>6 DEF Sound, Reads
  <2>3. CASE m.g.active
    <3>1. /\ Append(m.g.esg, m.g.scr) \in Seq(Nat)
          /\ Len(Append(m.g.esg, m.g.scr)) = Len(m.g.esg) + 1 /\ Len(m.g.esg) \in Nat
      BY <1>1, SegmentsIs
    <3>2. e = [m.g EXCEPT !.esg = Append(@, m.g.scr), !.scr = v]
      BY <2>1, <2>3
    <3>3. e \in Counters /\ e.esg = Append(m.g.esg, m.g.scr)
      <4> DEFINE t == Append(m.g.esg, m.g.scr)
      <4>1. t \in Seq(Nat) /\ e = [m.g EXCEPT !.esg = t, !.scr = v]
        BY <3>1, <3>2
      <4> HIDE DEF t, v, e
      <4>2. PICK h \in Counters : h = m.g
        BY <1>1
      <4>3. e = [h EXCEPT !.esg = t, !.scr = v]
        BY <4>1, <4>2
      <4>4. e \in Counters /\ e.esg = t
        BY <2>2, <4>1, <4>3 DEF Counters
      <4> QED BY <4>4 DEF t
    <3> QED BY <1>1, <2>2, <2>3, <3>1, <3>3 DEF Shallow
  <2> QED BY <1>1, <2>1, <2>3
<1>7. CASE ln.op = "data"
  <2>1. ln.width \in Nat
    BY LineIs
  <2>2. [m.g EXCEPT !.scr = @ + ln.width] \in Counters
    <3>1. m.g.scr + ln.width \in Nat
      BY <1>1, <2>1
    <3> QED BY <1>1, <3>1, CountersWith
  <2>3. e = IF ln.arg = None \/ ~m.g.active THEN m.g ELSE [m.g EXCEPT !.scr = @ + ln.width]
    BY <1>7 DEF Effect, Filled, IfActive
  <2> QED BY <1>1, <2>2, <2>3 DEF Shallow
<1>8. CASE ln.op = "buf"
  <2>1. v \in Nat
    BY <1>8 DEF Sound, Reads
  <2>2. [m.g EXCEPT !.scr = @ + v] \in Counters
    <3>1. m.g.scr + v \in Nat
      BY <1>1, <2>1
    <3> QED BY <1>1, <3>1, CountersWith
  <2>3. e = IF m.g.active THEN [m.g EXCEPT !.scr = @ + v] ELSE m.g
    BY <1>8 DEF Effect, Buffer, IfActive
  <2> QED BY <1>1, <2>2, <2>3 DEF Shallow
<1>9. CASE ln.op \notin {"jump", "load", "if", "fi", "org", "align", "esg", "dsg", "data", "buf"}
  <2>1. e = m.g
    BY <1>9 DEF Effect
  <2> QED BY <1>1, <2>1
<1> QED BY <1>2, <1>3, <1>4, <1>5, <1>6, <1>7, <1>8, <1>9

-----------------------------------------------------------------------------
(* What a line of pass 1 leaves: with an error what was there, without one *)
(* the effect of its kind on counters and table.                           *)
Builds(m, ln, k) ==
  /\ k \in Machine
  /\ Shallow(m.g) => Shallow(k.g)
  /\ ~k.ok => k.g = m.g /\ k.sym = m.sym
  /\ k.ok => Sound(m, ln) /\ BuildsTable(m, ln, k.sym) /\ Alike(k.g, Effect(m, ln))

LEMMA BuildsBy ==
  ASSUME NEW m \in Machine, NEW ln \in Lines, NEW error \in BOOLEAN, NEW h, NEW s,
         NEW k, k = Unless(m, error, h, s),
         ~error => /\ h \in Counters /\ s \in Tables /\ (Shallow(m.g) => Shallow(h))
                   /\ Sound(m, ln) /\ BuildsTable(m, ln, s) /\ Alike(h, Effect(m, ln))
  PROVE  Builds(m, ln, k)
<1>1. /\ k \in Machine /\ k.ok = ~error
      /\ k.g = IF error THEN m.g ELSE h
      /\ k.sym = IF error THEN m.sym ELSE s
  BY UnlessIs
<1>2. CASE error = TRUE
  BY <1>1, <1>2 DEF Builds
<1>3. CASE error = FALSE
  BY <1>1, <1>3 DEF Builds
<1> QED BY <1>2, <1>3

(* If the counters are those of the effect.                                *)
LEMMA BuildsEffect ==
  ASSUME NEW m \in Machine, NEW ln \in Lines, NEW error \in BOOLEAN, NEW s,
         NEW k, k = Unless(m, error, Effect(m, ln), s),
         ~error => s \in Tables /\ Sound(m, ln) /\ BuildsTable(m, ln, s)
  PROVE  Builds(m, ln, k)
<1> DEFINE h == Effect(m, ln)
<1>1. ~error => h \in Counters /\ (Shallow(m.g) => Shallow(h))
  BY EffectIs
<1>2. Alike(h, Effect(m, ln))
  BY DEF Alike
<1> HIDE DEF h
<1>3. k = Unless(m, error, h, s)
  BY DEF h
<1> QED BY <1>1, <1>2, <1>3, BuildsBy

(* If, moreover, the line defines its name.                                *)
LEMMA BuildsName ==
  ASSUME NEW m \in Machine, NEW ln \in Lines, NEW error \in BOOLEAN, NEW d,
         ln.op \in Defines \ {"label"}, d = Gives(m, ln),
         NEW k, k = Unless(m, error, Effect(m, ln), Added(m, ln.name, d)),
         ~error => /\ Sound(m, ln) /\ d \in Definitions
                   /\ ln.op # "constant" => Takes(m, ln.name)
  PROVE  Builds(m, ln, k)
<1> DEFINE s == Added(m, ln.name, d)
<1>1. ln.name \in Names \union {None} /\ None \notin Names
  BY LineIs
<1>2. ~error => s \in Tables
  BY <1>1, AddedTyped
<1>3. ~error => BuildsTable(m, ln, s)
  <2> SUFFICES ASSUME ~error PROVE BuildsTable(m, ln, s)
    OBVIOUS
  <2>1. CASE ln.name = None
    <3>1. s = m.sym
      BY <2>1 DEF Added
    <3> QED BY <2>1, <3>1 DEF BuildsTable
  <2>2. CASE ln.name \in Names
    <3>1. ln.op # "constant" => ~Known(m, ln.name) \/ Found(m, ln.name).sub = "SET"
      BY <1>1, <2>2 DEF Takes
    <3> HIDE DEF s
    <3>2. s = Added(m, ln.name, Gives(m, ln))
      BY DEF s
    <3> QED BY <2>2, <3>1, <3>2 DEF BuildsTable
  <2> QED BY <1>1, <2>1, <2>2
<1> HIDE DEF s
<1>4. k = Unless(m, error, Effect(m, ln), s)
  BY DEF s
<1> QED BY <1>2, <1>3, <1>4, BuildsEffect

LEMMA BuildLabel ==
  ASSUME NEW m \in Machine, NEW ln \in Lines, ln.op = "label"
  PROVE  Builds(m, ln, build(m, ln))
<1> DEFINE nm == ln.name
           d == Label(m, nm)
           e == Effect(m, ln)
<1>1. build(m, ln) = build_label(m, ln) /\ nm \in Names /\ nm # None
  BY BuildIs, LineIs DEF Named
<1>2. m.g \in Counters /\ m.g.pc \in Nat /\ d \in Definitions
  BY CountersIs, LabelIs
<1>3. e = m.g /\ Sound(m, ln) /\ d = Gives(m, ln)
  BY DEF Effect, Sound, Reads, Gives
<1>4. CASE IsDot(m, nm)
  <2> DEFINE s == Moved(m, nm, m.g.pc)
  <2>1. build(m, ln) = Unless(m, FALSE, e, s)
    BY <1>1, <1>3, <1>4 DEF build_label, Unless
  <2>2. s \in Tables
    BY <1>1, <1>2, <1>4, MovedIs DEF IsDot
  <2>3. BuildsTable(m, ln, s)
    BY <1>4 DEF BuildsTable
  <2> HIDE DEF s, e
  <2>4. FALSE \in BOOLEAN
    OBVIOUS
  <2>5. build(m, ln) = Unless(m, FALSE, Effect(m, ln), s)
    BY <2>1 DEF e
  <2> QED BY <1>3, <2>2, <2>3, <2>4, <2>5, BuildsEffect
<1>5. CASE ~IsDot(m, nm)
  <2> DEFINE s == Added(m, nm, d)
             error == Rejects(m, nm, d)
  <2>1. build(m, ln) = Unless(m, error, e, s) /\ error \in BOOLEAN
    BY <1>1, <1>3, <1>5 DEF build_label, Rejects, Takes, Refused
  <2>2. s \in Tables
    BY <1>1, <1>2, AddedTyped
  <2>3. ~error => ~Known(m, nm) \/ Found(m, nm).sub = "SET"
    BY <1>1 DEF Rejects, Takes
  <2>4. ~error => BuildsTable(m, ln, s)
    <3> HIDE DEF s, d, error
    <3>1. s = Added(m, nm, Gives(m, ln))
      BY <1>3 DEF s
    <3> QED BY <1>1, <1>2, <1>3, <1>5, <2>3, <3>1 DEF BuildsTable, Defines
  <2> HIDE DEF s, e, error
  <2>5. build(m, ln) = Unless(m, error, Effect(m, ln), s)
    BY <2>1 DEF e
  <2> QED BY <1>3, <2>1, <2>2, <2>4, <2>5, BuildsEffect
<1> QED BY <1>4, <1>5

LEMMA BuildCounters ==
  ASSUME NEW m \in Machine, NEW ln \in Lines,
         ln.op \in {"jump", "load", "if", "fi", "org", "align", "dsg"}
  PROVE  Builds(m, ln, build(m, ln))
<1> DEFINE v == Eval(m, ln.arg)
           e == Effect(m, ln)
           error == IF ln.op = "if" THEN v = Undef
                    ELSE IF ln.op = "org" THEN v = Undef \/ v >= m.g.range
                    ELSE IF ln.op = "align"
                         THEN v <= 0 \/ (m.g.active /\ Aligned(m, v) >= m.g.range)
                    ELSE IF ln.op = "dsg"
                         THEN v = Undef \/ v >= m.g.size \/ (m.g.active /\ Len(m.g.esg) >= MAXESG)
                    ELSE FALSE
<1>1. build(m, ln) = Unless(m, error, e, m.sym)
  <2>1. CASE ln.op \in {"jump", "load"}
    BY <2>1, BuildIs DEF build_code, Effect, Unless
  <2>2. CASE ln.op = "if"
    BY <2>2, BuildIs DEF build_if, Effect
  <2>3. CASE ln.op = "fi"
    BY <2>3, BuildIs DEF build_fi, Effect, Unless
  <2>4. CASE ln.op = "org"
    BY <2>4, BuildIs DEF build_org, Effect
  <2>5. CASE ln.op = "align"
    BY <2>5, BuildIs DEF build_align, Effect
  <2>6. CASE ln.op = "dsg"
    BY <2>6, BuildIs DEF build_dsg, Effect
  <2> QED BY <2>1, <2>2, <2>3, <2>4, <2>5, <2>6
<1>2. error \in BOOLEAN
  OBVIOUS
<1>3. ln.op \in Reads => ln.arg \in Names \union Nat \union {Here}
  BY LineIs DEF Expressions, Valued, Reads
<1>4. ~error => Sound(m, ln)
  <2>1. ln.op \in Reads /\ v # Undef => v \in Nat
    BY <1>3, EvalIs
  <2>2. ln.op = "align" /\ ~error => v # Undef /\ v > 0
    <3>1. ASSUME ln.op = "align", ~error, v = Undef PROVE FALSE
      BY <3>1 DEF Undef
    <3>2. ASSUME ln.op = "align", ~error, v \in Nat PROVE v > 0
      BY <3>2
    <3> QED BY <2>1, <3>1, <3>2 DEF Reads
  <2>3. ln.op = "dsg" /\ ~error /\ m.g.active => Len(m.g.esg) < MAXESG
    BY CountersIs, AsmAssumption
  <2>4. ln.op # "esg" /\ (ln.op \in Reads => ln.op \in {"if", "org", "align", "dsg"})
    BY DEF Reads
  <2>5. ~error /\ ln.op \in Reads => v \in Nat
    BY <2>1, <2>2, <2>4
  <2> QED BY <2>2, <2>3, <2>4, <2>5 DEF Sound
<1>5. m.sym \in Tables
  BY CountersIs
<1>6. BuildsTable(m, ln, m.sym)
  BY DEF BuildsTable, Defines
<1> HIDE DEF e, error
<1>7. build(m, ln) = Unless(m, error, Effect(m, ln), m.sym)
  BY <1>1 DEF e
<1> QED BY <1>2, <1>4, <1>5, <1>6, <1>7, BuildsEffect

(* .END and .SCR: only the sizes change.                                   *)
LEMMA BuildSizes ==
  ASSUME NEW m \in Machine, NEW ln \in Lines, ln.op \in {"end", "scr"}
  PROVE  Builds(m, ln, build(m, ln))
<1> DEFINE v == Eval(m, ln.arg)
           end == [m.g EXCEPT !.range = v + 1]
           size == [m.g EXCEPT !.size = IF ln.arg = None THEN SCRSIZE ELSE v]
           h == IF ln.op = "end" THEN IfActive(m, end)
                ELSE IF ln.arg = None THEN size ELSE IfActive(m, size)
           error == IF ln.op = "end" THEN v = Undef \/ v >= 2 * CODESIZE
                    ELSE \/ BadLoc(m, ln)
                         \/ ln.arg # None /\ (v = Undef \/ (m.g.active /\ (v > 2 * m.g.range \/ m.g.scr > v)))
<1>1. build(m, ln) = Unless(m, error, h, m.sym)
  <2>1. CASE ln.op = "end"
    BY <2>1, BuildIs DEF build_end
  <2>2. CASE ln.op = "scr" /\ ln.arg = None
    BY <2>2, BuildIs DEF build_scr, BadLoc, Unless
  <2>3. CASE ln.op = "scr" /\ ln.arg # None
    BY <2>3, BuildIs DEF build_scr
  <2> QED BY <2>1, <2>2, <2>3
<1>2. error \in BOOLEAN
  OBVIOUS
<1>3. ln.arg # None \/ ln.op = "end" => ln.arg \in Names \union Nat \union {Here}
  BY LineIs DEF Expressions, Valued
<1>4. m.sym \in Tables /\ m.g \in Counters /\ SCRSIZE \in Nat
  BY CountersIs, AsmAssumption
<1>5. BuildsTable(m, ln, m.sym) /\ Sound(m, ln) /\ Effect(m, ln) = m.g
  BY DEF BuildsTable, Defines, Sound, Reads, Effect
<1>6. ~error => /\ h \in Counters /\ Alike(h, m.g)
                /\ Shallow(m.g) => Shallow(h)
  <2> SUFFICES ASSUME ~error
               PROVE  h \in Counters /\ Alike(h, m.g) /\ h.esg = m.g.esg
    BY DEF Shallow
  <2>1. ln.op = "end" \/ ln.arg # None => v \in Nat
    BY <1>3, EvalIs
  <2>2. PICK k \in Counters : k = m.g
    BY <1>4
  <2> DEFINE w == v + 1
             z == IF ln.arg = None THEN SCRSIZE ELSE v
  <2>3. (ln.op = "end" => w \in Nat) /\ (ln.op = "scr" => z \in Nat)
    BY <1>4, <2>1
  <2>4. end = [k EXCEPT !.range = w] /\ size = [k EXCEPT !.size = z]
    BY <2>2
  <2> HIDE DEF w, z, end, size
  <2>5. ln.op = "end" => end \in Counters /\ Alike(end, k) /\ end.esg = k.esg
    BY <2>3, <2>4 DEF Counters, Alike
  <2>6. ln.op = "scr" => size \in Counters /\ Alike(size, k) /\ size.esg = k.esg
    BY <2>3, <2>4 DEF Counters, Alike
  <2> QED BY <2>2, <2>5, <2>6 DEF IfActive, Alike
<1> HIDE DEF h, error
<1> QED BY <1>1, <1>2, <1>4, <1>5, <1>6, BuildsBy

LEMMA BuildValues ==
  ASSUME NEW m \in Machine, NEW ln \in Lines, ln.op \in {"equ", "set", "constant"}
  PROVE  Builds(m, ln, build(m, ln))
<1> DEFINE v == Eval(m, ln.arg)
           d == Value(IF ln.op = "set" THEN "SET" ELSE "INT", v)
           error == v = Undef \/ IF ln.op = "constant" THEN Refused(m, ln.name, d)
                                 ELSE Rejects(m, ln.name, d)
<1>1. build(m, ln) = Unless(m, d.value = Undef \/ IF ln.op = "constant" THEN Refused(m, ln.name, d)
                                  ELSE Rejects(m, ln.name, d), m.g, Added(m, ln.name, d))
  <2>1. CASE ln.op = "equ"
    BY <2>1, BuildIs DEF build_equ
  <2>2. CASE ln.op = "set"
    BY <2>2, BuildIs DEF build_set
  <2>3. CASE ln.op = "constant"
    BY <2>3, BuildIs DEF build_constant
  <2> QED BY <2>1, <2>2, <2>3
<1>2. d.value = v /\ d = Gives(m, ln) /\ Effect(m, ln) = m.g
  BY DEF Value, Gives, Effect
<1>3. error \in BOOLEAN
  BY DEF Rejects, Takes, Refused
<1>4. ~error => Sound(m, ln) /\ d \in Definitions /\ (ln.op # "constant" => Takes(m, ln.name))
  <2> SUFFICES ASSUME ~error
               PROVE  Sound(m, ln) /\ d \in Definitions /\ (ln.op # "constant" => Takes(m, ln.name))
    OBVIOUS
  <2>1. v \in Nat
    BY LineIs, EvalIs DEF Expressions, Valued
  <2> QED BY <2>1, ValueIs DEF Sound, Rejects
<1>5. build(m, ln) = Unless(m, error, Effect(m, ln), Added(m, ln.name, d))
  BY <1>1, <1>2
<1>6. ln.op \in Defines \ {"label"}
  BY DEF Defines
<1>7. d = Gives(m, ln)
  BY <1>2
<1> HIDE DEF d, error
<1> QED BY <1>3, <1>4, <1>5, <1>6, <1>7, BuildsName

LEMMA BuildEsg ==
  ASSUME NEW m \in Machine, NEW ln \in Lines, ln.op = "esg"
  PROVE  Builds(m, ln, build(m, ln))
<1> DEFINE d == Value("INT", m.g.scr)
           error == Rejects(m, ln.name, d) \/ (m.g.active /\ m.g.esg = <<>>)
<1>1. build(m, ln) = Unless(m, error, Popped(m), Added(m, ln.name, d))
  BY BuildIs DEF build_esg
<1>2. d = Gives(m, ln) /\ Effect(m, ln) = Popped(m) /\ ln.op \in Defines \ {"label"}
  BY DEF Gives, Effect, Defines
<1>3. error \in BOOLEAN
  BY DEF Rejects, Takes, Refused
<1>4. ~error => Sound(m, ln) /\ d \in Definitions /\ (ln.op # "constant" => Takes(m, ln.name))
  <2>1. d \in Definitions
    BY CountersIs, ValueIs
  <2> QED BY <2>1 DEF Sound, Reads, Rejects
<1>5. build(m, ln) = Unless(m, error, Effect(m, ln), Added(m, ln.name, d))
  BY <1>1, <1>2
<1>6. d = Gives(m, ln) /\ ln.op \in Defines \ {"label"}
  BY <1>2
<1> HIDE DEF d, error
<1> QED BY <1>3, <1>4, <1>5, <1>6, BuildsName

LEMMA BuildDs ==
  ASSUME NEW m \in Machine, NEW ln \in Lines, ln.op = "ds"
  PROVE  Builds(m, ln, build(m, ln))
<1> DEFINE v == Eval(m, ln.arg)
           d == Value("INT", v)
           error == v = Undef \/ ~Takes(m, ln.name) \/ (m.g.active /\ Refused(m, ln.name, d))
<1>1. build(m, ln) = Unless(m, error, m.g, IF m.g.active THEN Added(m, ln.name, d) ELSE m.sym)
  <2>1. d.value = v
    BY DEF Value
  <2> QED BY <2>1, BuildIs DEF build_ds
<1>2. d = Gives(m, ln) /\ Effect(m, ln) = m.g /\ ln.op \in Defines \ {"label"}
  BY DEF Gives, Effect, Defines
<1>3. error \in BOOLEAN
  BY CountersIs DEF Takes, Refused
<1>4. ~error => Sound(m, ln) /\ d \in Definitions /\ (ln.op # "constant" => Takes(m, ln.name))
  <2> SUFFICES ASSUME ~error
               PROVE  Sound(m, ln) /\ d \in Definitions /\ Takes(m, ln.name)
    OBVIOUS
  <2>1. v \in Nat
    BY LineIs, EvalIs DEF Expressions, Valued
  <2> QED BY <2>1, ValueIs DEF Sound
<1>5. CASE m.g.active
  <2>1. build(m, ln) = Unless(m, error, Effect(m, ln), Added(m, ln.name, d))
    BY <1>1, <1>2, <1>5
  <2>2. d = Gives(m, ln) /\ ln.op \in Defines \ {"label"}
    BY <1>2
  <2> HIDE DEF d, error
  <2> QED BY <1>3, <1>4, <2>1, <2>2, BuildsName
<1>6. CASE ~m.g.active
  <2>1. build(m, ln) = Unless(m, error, Effect(m, ln), m.sym)
    BY <1>1, <1>2, <1>6
  <2>2. BuildsTable(m, ln, m.sym) /\ m.sym \in Tables
    BY CountersIs DEF BuildsTable
  <2>3. ~error => Sound(m, ln)
    BY <1>4
  <2> HIDE DEF d, error
  <2> QED BY <1>3, <2>1, <2>2, <2>3, BuildsEffect
<1> QED BY <1>5, <1>6, CountersIs

LEMMA BuildData ==
  ASSUME NEW m \in Machine, NEW ln \in Lines, ln.op \in {"data", "buf"}
  PROVE  Builds(m, ln, build(m, ln))
<1> DEFINE v == Eval(m, ln.arg)
           p == IF ln.op = "buf" THEN m.g.scr % BYTE ELSE m.g.scr
           d == Value("INT", p)
           full == IF ln.op = "buf" THEN v = Undef \/ (m.g.active /\ m.g.scr + v > m.g.size)
                   ELSE Overfull(m, ln)
           error == Rejects(m, ln.name, d) \/ full
<1>1. build(m, ln) = Unless(m, error, Effect(m, ln), Added(m, ln.name, d))
  <2>1. CASE ln.op = "data"
    BY <2>1, BuildIs DEF build_data, Effect
  <2>2. CASE ln.op = "buf"
    BY <2>2, BuildIs DEF build_buf, Effect
  <2> QED BY <2>1, <2>2
<1>2. d = Gives(m, ln) /\ ln.op \in Defines \ {"label"}
  BY DEF Gives, Defines
<1>3. error \in BOOLEAN
  BY DEF Rejects, Takes, Refused, Overfull
<1>4. ~error => Sound(m, ln) /\ d \in Definitions /\ (ln.op # "constant" => Takes(m, ln.name))
  <2> SUFFICES ASSUME ~error
               PROVE  Sound(m, ln) /\ d \in Definitions /\ Takes(m, ln.name)
    OBVIOUS
  <2>1. ln.op = "buf" => v \in Nat
    BY LineIs, EvalIs DEF Expressions, Valued
  <2>2. p \in Nat
    <3>1. m.g.scr \in Nat /\ BYTE \in Nat \ {0}
      BY CountersIs, AsmAssumption
    <3>2. m.g.scr % BYTE \in Nat
      BY <3>1, ModRange
    <3> QED BY <3>1, <3>2
  <2>3. d \in Definitions
    <3> HIDE DEF p
    <3> QED BY <2>2, ValueIs
  <2> QED BY <2>1, <2>3 DEF Sound, Reads, Rejects
<1> HIDE DEF d, error
<1> QED BY <1>1, <1>2, <1>3, <1>4, BuildsName

(* So it is for every line.                                                *)
LEMMA BuildDoes ==
  ASSUME NEW m \in Machine, NEW ln \in Lines
  PROVE  Builds(m, ln, build(m, ln))
<1>1. ln.op \in Named \union Valued \union {"fi", "esg", "scr", "data"}
  BY LineIs
<1>2. \/ ln.op = "label" \/ ln.op \in {"jump", "load", "if", "fi", "org", "align", "dsg"}
      \/ ln.op \in {"end", "scr"} \/ ln.op \in {"equ", "set", "constant"} \/ ln.op = "esg"
      \/ ln.op = "ds" \/ ln.op \in {"data", "buf"}
  BY <1>1 DEF Named, Valued
<1> QED BY <1>2, BuildLabel, BuildCounters, BuildSizes, BuildValues, BuildEsg, BuildDs, BuildData

-----------------------------------------------------------------------------
(* The same for pass 2, where a definition may only change its value.      *)
AssemblesTable(m, ln, s) ==
  \/ s = m.sym /\ (ln.op \in {"label", "set"} => ~Known(m, ln.name))
  \/ /\ ln.op = "label" /\ Known(m, ln.name) /\ ~Misplaced(m, ln.name)
     /\ s = Moved(m, ln.name, m.g.pc)
  \/ /\ ln.op = "set" /\ Known(m, ln.name) /\ Found(m, ln.name).sub = "SET"
     /\ Eval(m, ln.arg) \in Nat /\ s = Moved(m, ln.name, Eval(m, ln.arg))

Assembles(m, ln, k) ==
  /\ k \in Machine
  /\ Shallow(m.g) => Shallow(k.g)
  /\ ~k.ok => k.g = m.g /\ k.sym = m.sym
  /\ k.ok => /\ AssemblesTable(m, ln, k.sym) /\ Alike(k.g, Effect(m, ln))
             /\ ln.op \in {"jump", "load"} => Eval(m, ln.arg) \in Nat

LEMMA AssemblesBy ==
  ASSUME NEW m \in Machine, NEW ln \in Lines, NEW error \in BOOLEAN, NEW h, NEW s,
         NEW k, k = Unless(m, error, h, s),
         ~error => /\ h \in Counters /\ s \in Tables /\ (Shallow(m.g) => Shallow(h))
                   /\ AssemblesTable(m, ln, s) /\ Alike(h, Effect(m, ln))
                   /\ ln.op \in {"jump", "load"} => Eval(m, ln.arg) \in Nat
  PROVE  Assembles(m, ln, k)
<1>1. /\ k \in Machine /\ k.ok = ~error
      /\ k.g = IF error THEN m.g ELSE h
      /\ k.sym = IF error THEN m.sym ELSE s
  BY UnlessIs
<1>2. CASE error = TRUE
  BY <1>1, <1>2 DEF Assembles
<1>3. CASE error = FALSE
  BY <1>1, <1>3 DEF Assembles
<1> QED BY <1>2, <1>3

LEMMA AssemblesEffect ==
  ASSUME NEW m \in Machine, NEW ln \in Lines, NEW error \in BOOLEAN, NEW s,
         NEW k, k = Unless(m, error, Effect(m, ln), s),
         ~error => /\ s \in Tables /\ Sound(m, ln) /\ AssemblesTable(m, ln, s)
                   /\ ln.op \in {"jump", "load"} => Eval(m, ln.arg) \in Nat
  PROVE  Assembles(m, ln, k)
<1> DEFINE h == Effect(m, ln)
<1>1. ~error => h \in Counters /\ (Shallow(m.g) => Shallow(h))
  BY EffectIs
<1>2. Alike(h, Effect(m, ln))
  BY DEF Alike
<1> HIDE DEF h
<1>3. k = Unless(m, error, h, s)
  BY DEF h
<1> QED BY <1>1, <1>2, <1>3, AssemblesBy

(* A line that is skipped changes nothing, and has no effect.              *)
LEMMA AssemblesSymbol ==
  ASSUME NEW m \in Machine, NEW ln \in Lines, NEW error \in BOOLEAN, NEW s,
         ln.op \in {"esg", "equ", "set", "ds", "data", "buf"},
         NEW k, k = Symbol(m, ln, error, Effect(m, ln), s),
         ~error => s \in Tables /\ Sound(m, ln),
         ~error /\ ~Unfit(m, ln.name) => AssemblesTable(m, ln, s)
  PROVE  Assembles(m, ln, k)
<1>1. CASE Skips(m, ln)
  <2>1. k = Unless(m, FALSE, m.g, m.sym)
    BY <1>1 DEF Symbol, Unless
  <2>2. m.g \in Counters /\ m.sym \in Tables /\ ~m.g.active /\ ~Known(m, ln.name)
    BY <1>1, CountersIs DEF Skips
  <2>3. Alike(m.g, Effect(m, ln)) /\ AssemblesTable(m, ln, m.sym)
    BY <2>2 DEF Effect, Popped, Filled, Buffer, IfActive, Alike, AssemblesTable
  <2>4. FALSE \in BOOLEAN
    OBVIOUS
  <2> QED BY <2>1, <2>2, <2>3, <2>4, AssemblesBy
<1>2. CASE ~Skips(m, ln)
  <2> DEFINE bad == Unfit(m, ln.name) \/ error
  <2>1. k = Unless(m, bad, Effect(m, ln), s)
    BY <1>2 DEF Symbol
  <2>2. bad \in BOOLEAN
    OBVIOUS
  <2>3. ~bad => s \in Tables /\ Sound(m, ln) /\ AssemblesTable(m, ln, s)
    OBVIOUS
  <2> HIDE DEF bad
  <2> QED BY <2>1, <2>2, <2>3, AssemblesEffect
<1> QED BY <1>1, <1>2

LEMMA AssembleLabel ==
  ASSUME NEW m \in Machine, NEW ln \in Lines, ln.op = "label"
  PROVE  Assembles(m, ln, assemble(m, ln))
<1> DEFINE nm == ln.name
           e == Effect(m, ln)
<1>1. assemble(m, ln) = assemble_label(m, ln) /\ nm \in Names
  BY AssembleIs, LineIs DEF Named
<1>2. m.g \in Counters /\ m.g.pc \in Nat /\ m.g.active \in BOOLEAN /\ m.sym \in Tables
  BY CountersIs
<1>3. e = m.g /\ Sound(m, ln)
  BY DEF Effect, Sound, Reads
<1>4. CASE Known(m, nm)
  <2> DEFINE s == Moved(m, nm, m.g.pc)
             error == Misplaced(m, nm)
  <2>1. assemble(m, ln) = Unless(m, error, e, s)
    BY <1>1, <1>3, <1>4 DEF assemble_label
  <2>2. s \in Tables /\ error \in BOOLEAN
    BY <1>1, <1>2, <1>4, MovedIs DEF Misplaced
  <2>3. ~error => AssemblesTable(m, ln, s)
    BY <1>4 DEF AssemblesTable
  <2> HIDE DEF s, e, error
  <2>4. assemble(m, ln) = Unless(m, error, Effect(m, ln), s)
    BY <2>1 DEF e
  <2> QED BY <1>3, <2>2, <2>3, <2>4, AssemblesEffect
<1>5. CASE ~Known(m, nm)
  <2>1. assemble(m, ln) = Unless(m, m.g.active, e, m.sym)
    BY <1>1, <1>3, <1>5 DEF assemble_label
  <2>2. AssemblesTable(m, ln, m.sym)
    BY <1>5 DEF AssemblesTable
  <2> HIDE DEF e
  <2>3. assemble(m, ln) = Unless(m, m.g.active, Effect(m, ln), m.sym)
    BY <2>1 DEF e
  <2> QED BY <1>2, <1>3, <2>2, <2>3, AssemblesEffect
<1> QED BY <1>4, <1>5

LEMMA AssembleCounters ==
  ASSUME NEW m \in Machine, NEW ln \in Lines,
         ln.op \in {"jump", "load", "if", "fi", "org", "align", "dsg", "constant"}
  PROVE  Assembles(m, ln, assemble(m, ln))
<1> DEFINE v == Eval(m, ln.arg)
           e == Effect(m, ln)
           error == IF ln.op \in {"jump", "load"} THEN BadOperand(m, ln) \/ m.g.pc >= m.g.range
                    ELSE IF ln.op \in {"if", "constant"} THEN v = Undef
                    ELSE IF ln.op = "org" THEN v = Undef \/ v >= m.g.range
                    ELSE IF ln.op = "align" THEN v <= 0 \/ e.pc >= m.g.range
                    ELSE IF ln.op = "dsg"
                         THEN v = Undef \/ v >= m.g.size \/ (m.g.active /\ Len(m.g.esg) >= MAXESG)
                    ELSE FALSE
<1>1. assemble(m, ln) = Unless(m, error, e, m.sym)
  <2>1. CASE ln.op \in {"jump", "load"}
    BY <2>1, AssembleIs DEF assemble_code, Effect
  <2>2. CASE ln.op = "if"
    BY <2>2, AssembleIs DEF assemble_if, Effect
  <2>3. CASE ln.op = "fi"
    BY <2>3, AssembleIs DEF assemble_fi, Effect, Unless
  <2>4. CASE ln.op = "org"
    BY <2>4, AssembleIs DEF assemble_org, Effect
  <2>5. CASE ln.op = "align"
    BY <2>5, AssembleIs DEF assemble_align, Effect
  <2>6. CASE ln.op = "dsg"
    BY <2>6, AssembleIs DEF assemble_dsg, Effect
  <2>7. CASE ln.op = "constant"
    BY <2>7, AssembleIs DEF assemble_constant, Effect
  <2> QED BY <2>1, <2>2, <2>3, <2>4, <2>5, <2>6, <2>7
<1>2. error \in BOOLEAN
  BY DEF BadOperand
<1>3. ln.op \in Reads \union {"jump", "load"} => ln.arg \in Names \union Nat \union {Here}
  BY LineIs DEF Expressions, Valued, Reads
<1>4. ~error => Sound(m, ln) /\ (ln.op \in {"jump", "load"} => v \in Nat)
  <2>1. ln.op \in Reads \union {"jump", "load"} /\ v # Undef => v \in Nat
    BY <1>3, EvalIs
  <2>2. ln.op = "align" /\ ~error => v # Undef /\ v > 0
    <3>1. ASSUME ln.op = "align", ~error, v = Undef PROVE FALSE
      BY <3>1 DEF Undef
    <3>2. ASSUME ln.op = "align", ~error, v \in Nat PROVE v > 0
      BY <3>2
    <3> QED BY <2>1, <3>1, <3>2 DEF Reads
  <2>3. ln.op = "dsg" /\ ~error /\ m.g.active => Len(m.g.esg) < MAXESG
    BY CountersIs, AsmAssumption
  <2>4. ln.op # "esg" /\ (ln.op \in Reads => ln.op \in {"if", "org", "align", "dsg", "constant"})
    BY DEF Reads
  <2>5. ~error /\ ln.op \in Reads => v \in Nat
    BY <2>1, <2>2, <2>4
  <2>6. ~error /\ ln.op \in {"jump", "load"} => v \in Nat
    BY <2>1 DEF BadOperand
  <2> QED BY <2>2, <2>3, <2>4, <2>5, <2>6 DEF Sound
<1>5. m.sym \in Tables
  BY CountersIs
<1>6. AssemblesTable(m, ln, m.sym)
  BY DEF AssemblesTable
<1> HIDE DEF e, error
<1>7. assemble(m, ln) = Unless(m, error, Effect(m, ln), m.sym)
  BY <1>1 DEF e
<1> QED BY <1>2, <1>4, <1>5, <1>6, <1>7, AssemblesEffect

LEMMA AssembleSizes ==
  ASSUME NEW m \in Machine, NEW ln \in Lines, ln.op \in {"end", "scr"}
  PROVE  Assembles(m, ln, assemble(m, ln))
<1> DEFINE v == Eval(m, ln.arg)
           end == [m.g EXCEPT !.range = v + 1]
           size == [m.g EXCEPT !.size = IF ln.arg = None THEN SCRSIZE ELSE v]
           h == IF ln.op = "end" THEN IfActive(m, end) ELSE IfActive(m, size)
           error == IF ln.op = "end"
                    THEN v = Undef \/ v >= CODESIZE \/ (m.g.active /\ v + 1 \notin Ranges)
                    ELSE \/ Eval(m, ln.loc) = Undef
                         \/ ln.arg # None /\ (v = Undef \/ (m.g.active /\ (v > CODESIZE \/ m.g.scr > v)))
<1>1. assemble(m, ln) = Unless(m, error, h, m.sym)
  <2>1. CASE ln.op = "end"
    BY <2>1, AssembleIs DEF assemble_end
  <2>2. CASE ln.op = "scr" /\ ln.arg = None
    BY <2>2, AssembleIs DEF assemble_scr
  <2>3. CASE ln.op = "scr" /\ ln.arg # None
    BY <2>3, AssembleIs DEF assemble_scr
  <2> QED BY <2>1, <2>2, <2>3
<1>2. error \in BOOLEAN
  OBVIOUS
<1>3. ln.arg # None \/ ln.op = "end" => ln.arg \in Names \union Nat \union {Here}
  BY LineIs DEF Expressions, Valued
<1>4. m.sym \in Tables /\ m.g \in Counters /\ SCRSIZE \in Nat
  BY CountersIs, AsmAssumption
<1>5. /\ AssemblesTable(m, ln, m.sym) /\ Effect(m, ln) = m.g
      /\ ln.op \notin {"jump", "load"}
  BY DEF AssemblesTable, Effect
<1>6. ~error => /\ h \in Counters /\ Alike(h, m.g)
                /\ Shallow(m.g) => Shallow(h)
  <2> SUFFICES ASSUME ~error
               PROVE  h \in Counters /\ Alike(h, m.g) /\ h.esg = m.g.esg
    BY DEF Shallow
  <2>1. ln.op = "end" \/ ln.arg # None => v \in Nat
    BY <1>3, EvalIs
  <2>2. PICK k \in Counters : k = m.g
    BY <1>4
  <2> DEFINE w == v + 1
             z == IF ln.arg = None THEN SCRSIZE ELSE v
  <2>3. (ln.op = "end" => w \in Nat) /\ (ln.op = "scr" => z \in Nat)
    BY <1>4, <2>1
  <2>4. end = [k EXCEPT !.range = w] /\ size = [k EXCEPT !.size = z]
    BY <2>2
  <2> HIDE DEF w, z, end, size
  <2>5. ln.op = "end" => end \in Counters /\ Alike(end, k) /\ end.esg = k.esg
    BY <2>3, <2>4 DEF Counters, Alike
  <2>6. ln.op = "scr" => size \in Counters /\ Alike(size, k) /\ size.esg = k.esg
    BY <2>3, <2>4 DEF Counters, Alike
  <2> QED BY <2>2, <2>5, <2>6 DEF IfActive, Alike
<1> HIDE DEF h, error
<1> QED BY <1>1, <1>2, <1>4, <1>5, <1>6, AssemblesBy

LEMMA AssembleNames ==
  ASSUME NEW m \in Machine, NEW ln \in Lines,
         ln.op \in {"esg", "equ", "ds", "data", "buf"}
  PROVE  Assembles(m, ln, assemble(m, ln))
<1> DEFINE v == Eval(m, ln.arg)
           error == IF ln.op = "esg" THEN m.g.active /\ m.g.esg = <<>>
                    ELSE IF ln.op = "data" THEN Overruns(m, ln) \/ TooWide(m, ln)
                    ELSE IF ln.op = "buf" THEN v = Undef \/ (m.g.active /\ m.g.scr + v > m.g.size)
                    ELSE v = Undef
<1>1. assemble(m, ln) = Symbol(m, ln, error, Effect(m, ln), m.sym)
  <2>1. CASE ln.op = "esg"
    BY <2>1, AssembleIs DEF assemble_esg, Effect
  <2>2. CASE ln.op = "equ"
    BY <2>2, AssembleIs DEF assemble_equ, Effect
  <2>3. CASE ln.op = "ds"
    BY <2>3, AssembleIs DEF assemble_ds, Effect
  <2>4. CASE ln.op = "data"
    BY <2>4, AssembleIs DEF assemble_data, Effect
  <2>5. CASE ln.op = "buf"
    BY <2>5, AssembleIs DEF assemble_buf, Effect
  <2> QED BY <2>1, <2>2, <2>3, <2>4, <2>5
<1>2. error \in BOOLEAN
  BY CountersIs DEF Overruns, Overfull, TooWide
<1>3. ~error => Sound(m, ln)
  <2> SUFFICES ASSUME ~error PROVE Sound(m, ln)
    OBVIOUS
  <2>1. ln.op \in Reads => v # Undef /\ ln.arg \in Names \union Nat \union {Here}
    BY LineIs DEF Expressions, Valued, Reads
  <2>2. ln.op \in Reads => v \in Nat
    BY <2>1, EvalIs
  <2>3. ln.op = "esg" /\ m.g.active => m.g.esg # <<>>
    OBVIOUS
  <2> HIDE DEF error, v
  <2> QED BY <2>2, <2>3 DEF Sound, v
<1>4. m.sym \in Tables /\ AssemblesTable(m, ln, m.sym)
  BY CountersIs DEF AssemblesTable
<1>5. ln.op \in {"esg", "equ", "set", "ds", "data", "buf"}
  OBVIOUS
<1> HIDE DEF error
<1> QED BY <1>1, <1>2, <1>3, <1>4, <1>5, AssemblesSymbol

LEMMA AssembleSet ==
  ASSUME NEW m \in Machine, NEW ln \in Lines, ln.op = "set"
  PROVE  Assembles(m, ln, assemble(m, ln))
<1> DEFINE v == Eval(m, ln.arg)
           nm == ln.name
           s == Moved(m, nm, v)
           error == v = Undef \/ Found(m, nm).sub # "SET"
<1>1. assemble(m, ln) = Symbol(m, ln, error, m.g, s)
  BY AssembleIs DEF assemble_set
<1>2. Effect(m, ln) = m.g /\ ln.op \in {"esg", "equ", "set", "ds", "data", "buf"}
  BY DEF Effect
<1>3. error \in BOOLEAN
  OBVIOUS
<1>4. nm \in Names /\ nm # None /\ ln.arg \in Names \union Nat \union {Here}
  BY LineIs DEF Expressions, Valued, Named
<1>5. ~error => v \in Nat
  BY <1>4, EvalIs
<1>6. CASE Known(m, nm)
  <2>1. ~error => s \in Tables
    BY <1>4, <1>5, <1>6, MovedIs
  <2>2. ~error => Sound(m, ln) /\ AssemblesTable(m, ln, s)
    BY <1>5, <1>6 DEF Sound, AssemblesTable
  <2> HIDE DEF s, error
  <2>3. assemble(m, ln) = Symbol(m, ln, error, Effect(m, ln), s)
    BY <1>1, <1>2
  <2> QED BY <1>2, <1>3, <2>1, <2>2, <2>3, AssemblesSymbol
<1>7. CASE ~Known(m, nm)
  <2> DEFINE bad == m.g.active
  <2>1. Skips(m, ln) <=> ~m.g.active
    BY <1>4, <1>7 DEF Skips
  <2>2. Unfit(m, nm)
    BY <1>4, <1>7 DEF Unfit
  <2>3. assemble(m, ln) = Unless(m, bad, Effect(m, ln), m.sym)
    <3>1. CASE m.g.active
      BY <1>1, <2>1, <2>2, <3>1 DEF Symbol, Unless
    <3>2. CASE ~m.g.active
      BY <1>1, <1>2, <2>1, <3>2 DEF Symbol, Unless
    <3> QED BY <3>1, <3>2
  <2>4. m.sym \in Tables /\ bad \in BOOLEAN /\ m.g \in Counters
    BY CountersIs
  <2>5. AssemblesTable(m, ln, m.sym) /\ Alike(m.g, Effect(m, ln))
    BY <1>2, <1>7 DEF AssemblesTable, Alike
  <2>6. assemble(m, ln) = Unless(m, bad, m.g, m.sym)
    BY <1>2, <2>3
  <2> HIDE DEF bad
  <2> QED BY <1>2, <2>4, <2>5, <2>6, AssemblesBy
<1> QED BY <1>6, <1>7

LEMMA AssembleDoes ==
  ASSUME NEW m \in Machine, NEW ln \in Lines
  PROVE  Assembles(m, ln, assemble(m, ln))
<1>1. ln.op \in Named \union Valued \union {"fi", "esg", "scr", "data"}
  BY LineIs
<1>2. \/ ln.op = "label" \/ ln.op \in {"jump", "load", "if", "fi", "org", "align", "dsg", "constant"}
      \/ ln.op \in {"end", "scr"} \/ ln.op = "set" \/ ln.op \in {"esg", "equ", "ds", "data", "buf"}
  BY <1>1 DEF Named, Valued
<1> QED BY <1>2, AssembleLabel, AssembleCounters, AssembleSizes, AssembleSet, AssembleNames

-----------------------------------------------------------------------------
(* What a search finds keeps its kind, and its value unless it is a .SET   *)
(* symbol or a dotted label; and its kind is one the names allow.          *)
Keeps(d, e) ==
  /\ e.type = d.type /\ e.sub = d.sub
  /\ d.sub \notin {"SET", "DOT"} => e.value = d.value
Allowed(nm, d) ==
  /\ d.type = "LABEL" => d.sub = IF nm \in Dotted THEN "DOT" ELSE "NONE"
  /\ d.type = "VALUE" => d.sub \in {"INT", "SET"}

(* One line of pass 1: names stay known, and a new one is the line's.      *)
LEMMA BuildKeeps ==
  ASSUME NEW m \in Machine, NEW ln \in Lines, NEW k \in Machine, BuildsTable(m, ln, k.sym),
         NEW nm \in Names
  PROVE  /\ Known(m, nm) => Known(k, nm) /\ Keeps(Found(m, nm), Found(k, nm))
         /\ Known(k, nm) /\ ~Known(m, nm) =>
              /\ nm = ln.name /\ ln.op \in Defines
              /\ Found(k, nm) = Gives(m, ln) /\ Gives(m, ln) \in Definitions
         /\ nm # ln.name => k.sym[nm] = m.sym[nm]
<1>1. Known(m, nm) => Found(m, nm) \in Definitions
  BY FoundIs
<1>2. CASE k.sym = m.sym
  BY <1>2 DEF Known, Found, Keeps
<1>3. CASE /\ ln.op \in Defines /\ ln.name \in Names /\ Gives(m, ln) \in Definitions
           /\ k.sym = Added(m, ln.name, Gives(m, ln))
  <2> DEFINE d == Gives(m, ln)
  <2>1. /\ \A q \in Names \ {ln.name} : k.sym[q] = m.sym[q]
        /\ k.sym[ln.name] # <<>>
        /\ k.sym[ln.name][1] = IF Known(m, ln.name) THEN Revalued(Found(m, ln.name), d) ELSE d
    <3> HIDE DEF d
    <3>1. d \in Definitions /\ k.sym = Added(m, ln.name, d)
      BY <1>3 DEF d
    <3> QED BY <1>3, <3>1, AddedIs
  <2>2. CASE nm # ln.name
    BY <2>1, <2>2 DEF Known, Found, Keeps
  <2>3. CASE nm = ln.name
    <3>1. Known(k, nm) /\ Found(k, nm) = IF Known(m, nm) THEN Revalued(Found(m, nm), d) ELSE d
      BY <2>1, <2>3 DEF Known, Found
    <3>2. Known(m, nm) => Keeps(Found(m, nm), Revalued(Found(m, nm), d))
      BY <1>1 DEF Keeps, Revalued, Definitions
    <3> QED BY <1>3, <2>3, <3>1, <3>2
  <2> QED BY <2>2, <2>3
<1>4. CASE ln.op = "label" /\ IsDot(m, ln.name) /\ k.sym = Moved(m, ln.name, m.g.pc)
  <2>1. ln.name \in Names /\ Known(m, ln.name) /\ m.g.pc \in Nat
    BY <1>4, LineIs, CountersIs DEF Named, IsDot
  <2>2. /\ \A q \in Names \ {ln.name} : k.sym[q] = m.sym[q]
        /\ k.sym[ln.name] # <<>>
        /\ k.sym[ln.name][1] = [Found(m, ln.name) EXCEPT !.value = m.g.pc]
    BY <1>4, <2>1, MovedIs
  <2>3. CASE nm # ln.name
    BY <2>2, <2>3 DEF Known, Found, Keeps
  <2>4. CASE nm = ln.name
    BY <1>1, <1>4, <2>1, <2>2, <2>4 DEF Known, Found, Keeps, Definitions, IsDot
  <2> QED BY <2>3, <2>4
<1> QED BY <1>2, <1>3, <1>4 DEF BuildsTable

(* One line of pass 2: the same names are known.                           *)
LEMMA AssembleKeeps ==
  ASSUME NEW m \in Machine, NEW ln \in Lines, NEW k \in Machine, AssemblesTable(m, ln, k.sym),
         NEW nm \in Names
  PROVE  /\ Known(m, nm) <=> Known(k, nm)
         /\ Known(m, nm) => Keeps(Found(m, nm), Found(k, nm))
         /\ nm # ln.name \/ ln.op \notin {"label", "set"} => k.sym[nm] = m.sym[nm]
<1>1. Known(m, nm) => Found(m, nm) \in Definitions
  BY FoundIs
<1>2. CASE k.sym = m.sym
  BY <1>2 DEF Known, Found, Keeps
<1>3. ASSUME NEW v \in Nat, k.sym = Moved(m, ln.name, v), Known(m, ln.name), ln.name \in Names,
             ln.op \in {"label", "set"},
             Found(m, ln.name).sub \notin {"SET", "DOT"} => Found(m, ln.name).value = v
      PROVE  /\ Known(m, nm) <=> Known(k, nm)
             /\ Known(m, nm) => Keeps(Found(m, nm), Found(k, nm))
             /\ nm # ln.name \/ ln.op \notin {"label", "set"} => k.sym[nm] = m.sym[nm]
  <2>1. /\ \A q \in Names \ {ln.name} : k.sym[q] = m.sym[q]
        /\ k.sym[ln.name] # <<>>
        /\ k.sym[ln.name][1] = [Found(m, ln.name) EXCEPT !.value = v]
    BY <1>3, MovedIs
  <2>2. CASE nm # ln.name
    BY <2>1, <2>2 DEF Known, Found, Keeps
  <2>3. CASE nm = ln.name
    BY <1>1, <1>3, <2>1, <2>3 DEF Known, Found, Keeps, Definitions
  <2> QED BY <2>2, <2>3
<1>4. ln.op \in {"label", "set"} => ln.name \in Names
  BY LineIs DEF Named
<1>5. CASE /\ ln.op = "label" /\ Known(m, ln.name) /\ ~Misplaced(m, ln.name)
           /\ k.sym = Moved(m, ln.name, m.g.pc)
  <2>1. m.g.pc \in Nat /\ (Found(m, ln.name).sub # "DOT" => Found(m, ln.name).value = m.g.pc)
    BY <1>5, CountersIs DEF Misplaced
  <2> QED BY <1>3, <1>4, <1>5, <2>1
<1>6. CASE /\ ln.op = "set" /\ Known(m, ln.name) /\ Found(m, ln.name).sub = "SET"
           /\ Eval(m, ln.arg) \in Nat /\ k.sym = Moved(m, ln.name, Eval(m, ln.arg))
  BY <1>3, <1>4, <1>6
<1> QED BY <1>2, <1>5, <1>6 DEF AssemblesTable

LEMMA KeepsTransitive ==
  ASSUME NEW a, NEW b, NEW c, Keeps(a, b), Keeps(b, c)
  PROVE  Keeps(a, c)
BY DEF Keeps

LEMMA GivesAllowed ==
  ASSUME NEW m \in Machine, NEW ln \in Lines, ln.op \in Defines
  PROVE  Allowed(ln.name, Gives(m, ln))
BY DEF Gives, Allowed, Label, Value, Defines

-----------------------------------------------------------------------------
(* Pass 2 is where pass 1 was: the segments pass 1 left open (low) lie under *)
(* its own, and the names pass 1 knew have the values they had.            *)
Follows(h, k, low) ==
  k.pc = h.pc /\ k.scr = h.scr /\ k.active = h.active /\ k.esg = low \o h.esg
Sees(x, y) ==
  \A nm \in Names : Known(x, nm) => Known(y, nm) /\ Found(y, nm).value = Found(x, nm).value

LEMMA EvalSame ==
  ASSUME NEW x \in Machine, NEW y \in Machine, y.g.pc = x.g.pc, Sees(x, y),
         NEW e, Eval(x, e) # Undef
  PROVE  Eval(y, e) = Eval(x, e)
BY DEF Eval, Sees

LEMMA ConcatIs ==
  ASSUME NEW S, NEW a \in Seq(S), NEW b \in Seq(S)
  PROVE  /\ a \o b \in Seq(S) /\ Len(a \o b) = Len(a) + Len(b)
         /\ Len(a) \in Nat /\ Len(b) \in Nat
         /\ \A k \in 1 .. Len(a) : (a \o b)[k] = a[k]
         /\ \A k \in 1 .. Len(b) : (a \o b)[Len(a) + k] = b[k]
OBVIOUS

LEMMA SameElements ==
  ASSUME NEW S, NEW a \in Seq(S), NEW b \in Seq(S), Len(a) = Len(b),
         \A k \in 1 .. Len(a) : a[k] = b[k]
  PROVE  a = b
OBVIOUS

(* A sequence that has low and then s for its elements is low and then s.  *)
LEMMA IsConcat ==
  ASSUME NEW S, NEW low \in Seq(S), NEW s \in Seq(S), NEW t \in Seq(S),
         Len(t) = Len(low) + Len(s),
         \A k \in 1 .. Len(low) : t[k] = low[k],
         \A k \in 1 .. Len(s) : t[Len(low) + k] = s[k]
  PROVE  t = low \o s
<1> DEFINE u == low \o s
<1>1. /\ u \in Seq(S) /\ Len(u) = Len(low) + Len(s) /\ Len(low) \in Nat /\ Len(s) \in Nat
      /\ \A k \in 1 .. Len(low) : u[k] = low[k]
      /\ \A k \in 1 .. Len(s) : u[Len(low) + k] = s[k]
  BY ConcatIs
<1> HIDE DEF u
<1>2. ASSUME NEW k \in 1 .. Len(t) PROVE t[k] = u[k]
  <2>1. CASE k <= Len(low)
    BY <1>1, <2>1
  <2>2. CASE k > Len(low)
    <3> DEFINE j == k - Len(low)
    <3>1. k \in Int /\ Len(low) \in Int /\ k <= Len(low) + Len(s)
      BY <1>1
    <3>2. j \in 1 .. Len(s) /\ k = Len(low) + j
      BY <1>1, <2>2, <3>1
    <3> HIDE DEF j
    <3> QED BY <1>1, <3>2
  <2> QED BY <1>1, <2>1, <2>2
<1>3. t = u
  BY <1>1, <1>2, SameElements
<1> QED BY <1>3 DEF u

LEMMA Segments ==
  ASSUME NEW low \in Seq(Nat), NEW s \in Seq(Nat)
  PROVE  /\ \A v \in Nat : Append(low \o s, v) = low \o Append(s, v)
         /\ s # <<>> => Last(low \o s) = Last(s) /\ Front(low \o s) = low \o Front(s)
<1> DEFINE t == low \o s
<1>1. /\ t \in Seq(Nat) /\ Len(t) = Len(low) + Len(s) /\ Len(low) \in Nat /\ Len(s) \in Nat
      /\ \A k \in 1 .. Len(low) : t[k] = low[k]
      /\ \A k \in 1 .. Len(s) : t[Len(low) + k] = s[k]
  BY ConcatIs
<1> HIDE DEF t
<1>2. ASSUME NEW v \in Nat PROVE Append(t, v) = low \o Append(s, v)
  <2> DEFINE u == Append(s, v)
             w == Append(t, v)
  <2>1. /\ u \in Seq(Nat) /\ Len(u) = Len(s) + 1 /\ u[Len(s) + 1] = v
        /\ \A k \in 1 .. Len(s) : u[k] = s[k]
    BY AppendFacts
  <2>2. /\ w \in Seq(Nat) /\ Len(w) = Len(t) + 1 /\ w[Len(t) + 1] = v
        /\ \A k \in 1 .. Len(t) : w[k] = t[k]
    BY <1>1, AppendFacts
  <2> HIDE DEF u, w
  <2>3. \A k \in 1 .. Len(low) : w[k] = low[k]
    BY <1>1, <2>2
  <2>4. ASSUME NEW k \in 1 .. Len(u) PROVE w[Len(low) + k] = u[k]
    <3>1. CASE k <= Len(s)
      <4>1. k \in 1 .. Len(s) /\ Len(low) + k \in 1 .. Len(t)
        BY <1>1, <2>1, <3>1
      <4> QED BY <1>1, <2>1, <2>2, <4>1
    <3>2. CASE k = Len(s) + 1
      <4>1. Len(low) + k = Len(t) + 1
        BY <1>1, <3>2
      <4> QED BY <2>1, <2>2, <3>2, <4>1
    <3> QED BY <1>1, <2>1, <3>1, <3>2
  <2>5. Len(w) = Len(low) + Len(u)
    BY <1>1, <2>1, <2>2
  <2> QED BY <2>1, <2>2, <2>3, <2>4, <2>5, IsConcat DEF u, w
<1>3. ASSUME s # <<>>
      PROVE  Last(t) = Last(s) /\ Front(t) = low \o Front(s)
  <2>1. Len(s) >= 1 /\ t # <<>>
    BY <1>1, <1>3
  <2>2. Last(t) = Last(s)
    BY <1>1, <2>1 DEF Last
  <2> DEFINE u == Front(s)
             w == Front(t)
  <2>3. u \in Seq(Nat) /\ Len(u) = Len(s) - 1 /\ w \in Seq(Nat) /\ Len(w) = Len(t) - 1
    BY <1>1, <1>3, <2>1, SegmentsIs
  <2>4. \A k \in 1 .. Len(s) - 1 : u[k] = s[k]
    BY <1>1, <2>1 DEF Front
  <2>5. \A k \in 1 .. Len(t) - 1 : w[k] = t[k]
    BY <1>1, <2>1 DEF Front
  <2> HIDE DEF u, w
  <2>6. ASSUME NEW k \in 1 .. Len(low) PROVE w[k] = low[k]
    <3>1. k \in 1 .. Len(t) - 1
      BY <1>1, <2>1
    <3> QED BY <1>1, <2>5, <3>1
  <2>7. ASSUME NEW k \in 1 .. Len(u) PROVE w[Len(low) + k] = u[k]
    <3>0. k \in Int /\ 1 <= k /\ k <= Len(s) - 1
      BY <1>1, <2>3
    <3>1. k \in 1 .. Len(s) - 1 /\ k \in 1 .. Len(s) /\ Len(low) + k \in 1 .. Len(t) - 1
      <4>1. Len(t) = Len(low) + Len(s) /\ Len(low) \in Nat /\ Len(s) \in Nat
        BY <1>1
      <4>2. \A a \in Nat, b \in Nat : 1 <= k /\ k <= b - 1 =>
              k \in 1 .. b - 1 /\ k \in 1 .. b /\ a + k \in 1 .. a + b - 1
        BY <3>0
      <4> QED BY <3>0, <4>1, <4>2
    <3> QED BY <1>1, <2>4, <2>5, <3>1
  <2>8. Len(w) = Len(low) + Len(u)
    BY <1>1, <2>1, <2>3
  <2>9. w = low \o u
    BY <2>3, <2>6, <2>7, <2>8, IsConcat
  <2> QED BY <2>2, <2>9 DEF u, w
<1> QED BY <1>2, <1>3 DEF t

LEMMA EffectFollows ==
  ASSUME NEW x \in Machine, NEW y \in Machine, NEW ln \in Lines, Sound(x, ln),
         NEW low \in Seq(Nat), Follows(x.g, y.g, low), Sees(x, y)
  PROVE  Follows(Effect(x, ln), Effect(y, ln), low)
<1> DEFINE v == Eval(x, ln.arg)
           a == Effect(x, ln)
           b == Effect(y, ln)
<1>1. /\ x.g \in Counters /\ y.g \in Counters /\ x.g.esg \in Seq(Nat)
      /\ x.g.pc \in Nat /\ x.g.scr \in Nat /\ x.g.active \in BOOLEAN
  BY CountersIs
<1>2. /\ y.g.pc = x.g.pc /\ y.g.scr = x.g.scr /\ y.g.active = x.g.active
      /\ y.g.esg = low \o x.g.esg
  BY DEF Follows
<1>3. ln.op \in Reads => v \in Nat /\ Eval(y, ln.arg) = v
  <2>1. ln.op \in Reads => v \in Nat /\ v # Undef
    BY DEF Sound, Undef
  <2> QED BY <1>2, <2>1, EvalSame
<1>4. CASE ln.op \in {"jump", "load"}
  BY <1>1, <1>2, <1>4 DEF Effect, IfActive, Counters, Follows
<1>5. CASE ln.op \in {"if", "fi"}
  BY <1>1, <1>2, <1>3, <1>5 DEF Effect, Reads, Counters, Follows
<1>6. CASE ln.op \in {"org", "align"}
  <2>1. Aligned(y, v) = Aligned(x, v)
    BY <1>2 DEF Aligned
  <2> DEFINE p == IF ln.op = "org" THEN v ELSE Aligned(x, v)
  <2>2. a = IfActive(x, [x.g EXCEPT !.pc = p]) /\ b = IfActive(y, [y.g EXCEPT !.pc = p])
    BY <1>3, <1>6, <2>1 DEF Effect, Reads
  <2> HIDE DEF p, a, b
  <2>3. Follows(a, b, low)
    BY <1>1, <1>2, <2>2 DEF IfActive, Counters, Follows
  <2> QED BY <2>3 DEF a, b
<1>7. CASE ln.op = "esg"
  <2>1. a = Popped(x) /\ b = Popped(y)
    BY <1>7 DEF Effect
  <2>2. x.g.active => Last(y.g.esg) = Last(x.g.esg) /\ Front(y.g.esg) = low \o Front(x.g.esg)
    BY <1>1, <1>2, <1>7, Segments DEF Sound
  <2> HIDE DEF a, b
  <2>3. Follows(a, b, low)
    BY <1>1, <1>2, <2>1, <2>2 DEF Popped, IfActive, Counters, Follows
  <2> QED BY <2>3 DEF a, b
<1>8. CASE ln.op = "dsg"
  <2>1. a = Pushed(x, v) /\ b = Pushed(y, v)
    BY <1>3, <1>8 DEF Effect, Reads
  <2>2. Append(y.g.esg, y.g.scr) = low \o Append(x.g.esg, x.g.scr)
    BY <1>1, <1>2, Segments
  <2> HIDE DEF a, b, v
  <2>3. Follows(a, b, low)
    BY <1>1, <1>2, <2>1, <2>2 DEF Pushed, IfActive, Counters, Follows
  <2> QED BY <2>3 DEF a, b
<1>9. CASE ln.op \in {"data", "buf"}
  <2> DEFINE w == IF ln.op = "data" THEN ln.width ELSE v
             none == ln.op = "data" /\ ln.arg = None
  <2>1. /\ a = IF none THEN x.g ELSE IfActive(x, [x.g EXCEPT !.scr = @ + w])
        /\ b = IF none THEN y.g ELSE IfActive(y, [y.g EXCEPT !.scr = @ + w])
    BY <1>3, <1>9 DEF Effect, Filled, Buffer, Reads
  <2> HIDE DEF a, b, w, none
  <2>2. Follows(a, b, low)
    BY <1>1, <1>2, <2>1 DEF IfActive, Counters, Follows
  <2> QED BY <2>2 DEF a, b
<1>10. CASE ln.op \notin {"jump", "load", "if", "fi", "org", "align", "esg", "dsg", "data", "buf"}
  BY <1>2, <1>10 DEF Effect, Follows
<1> QED BY <1>4, <1>5, <1>6, <1>7, <1>8, <1>9, <1>10

(* A line without an error, and not over a .SET symbol, leads both passes  *)
(* to the same values, if what pass 1 knows then pass 2 knows, of the same *)
(* kind.                                                                   *)
LEMMA TableSees ==
  ASSUME NEW x \in Machine, NEW y \in Machine, NEW ln \in Lines, Sound(x, ln),
         y.g.pc = x.g.pc, Sees(x, y), ~Overwrites(x, ln),
         \A nm \in Names : Known(x, nm) => Allowed(nm, Found(x, nm)),
         NEW u \in Machine, BuildsTable(x, ln, u.sym),
         NEW v \in Machine, AssemblesTable(y, ln, v.sym),
         \A nm \in Names : Known(u, nm) => Known(v, nm) /\ Keeps(Found(u, nm), Found(v, nm))
  PROVE  Sees(u, v)
<1> SUFFICES ASSUME NEW nm \in Names, Known(u, nm)
             PROVE  Found(v, nm).value = Found(u, nm).value
  BY DEF Sees
<1>1. /\ Known(x, nm) => Known(u, nm) /\ Keeps(Found(x, nm), Found(u, nm))
      /\ ~Known(x, nm) => /\ nm = ln.name /\ ln.op \in Defines
                          /\ Found(u, nm) = Gives(x, ln) /\ Gives(x, ln) \in Definitions
      /\ nm # ln.name => u.sym[nm] = x.sym[nm]
  BY BuildKeeps
<1>2. /\ Known(y, nm) <=> Known(v, nm)
      /\ nm # ln.name \/ ln.op \notin {"label", "set"} => v.sym[nm] = y.sym[nm]
  BY AssembleKeeps
<1>3. Known(v, nm) /\ Keeps(Found(u, nm), Found(v, nm)) /\ Known(y, nm)
  BY <1>2
<1>4. Known(x, nm) => Found(y, nm).value = Found(x, nm).value
  BY DEF Sees
<1>5. Known(x, nm) => Found(x, nm) \in Definitions
  BY FoundIs
<1>6. CASE Found(u, nm).sub \notin {"SET", "DOT"}
  BY <1>3, <1>6 DEF Keeps
<1>7. CASE nm # ln.name
  <2>1. u.sym[nm] = x.sym[nm] /\ v.sym[nm] = y.sym[nm]
    BY <1>1, <1>2, <1>7
  <2> QED BY <1>4, <2>1 DEF Known, Found
<1>8. ASSUME nm = ln.name, ln.op \notin {"label", "set"}, Found(u, nm).sub \in {"SET", "DOT"}
      PROVE  Found(v, nm).value = Found(u, nm).value
  <2>1. v.sym[nm] = y.sym[nm]
    BY <1>2, <1>8
  <2>2. Known(x, nm)
    <3>1. ln.op \in Defines => Gives(x, ln).sub = "INT"
      BY <1>8 DEF Gives, Value, Defines
    <3> QED BY <1>1, <1>8, <3>1
  <2>3. ln.op \in {"jump", "load"} \/ Found(x, nm).sub = "DOT"
    <3>1. Found(x, nm).sub \in {"SET", "DOT"}
      BY <1>1, <1>8, <2>2 DEF Keeps
    <3>2. ln.op \in {"jump", "load"} \/ Found(x, nm).sub # "SET"
      BY <1>8, <2>2, LineIs DEF Overwrites
    <3> QED BY <3>1, <3>2
  <2>4. \/ u.sym[nm] = x.sym[nm]
        \/ /\ ln.op \notin {"jump", "load"}
           /\ u.sym = Added(x, nm, Gives(x, ln)) /\ Gives(x, ln) \in Definitions
    BY <1>8 DEF BuildsTable, Defines
  <2>5. Found(u, nm) = Found(x, nm)
    <3>1. CASE u.sym[nm] = x.sym[nm]
      BY <3>1 DEF Found
    <3>2. CASE /\ ln.op \notin {"jump", "load"}
               /\ u.sym = Added(x, nm, Gives(x, ln)) /\ Gives(x, ln) \in Definitions
      <4>1. u.sym[nm][1] = Revalued(Found(x, nm), Gives(x, ln))
        BY <2>2, <3>2, AddedIs
      <4> QED BY <2>3, <3>2, <4>1 DEF Revalued, Found
    <3> QED BY <2>4, <3>1, <3>2
  <2> QED BY <1>4, <2>1, <2>2, <2>5 DEF Found
<1>9. ASSUME nm = ln.name, ln.op = "label"
      PROVE  Found(v, nm).value = Found(u, nm).value
  <2>1. v.sym = Moved(y, nm, y.g.pc) /\ y.g.pc \in Nat
    BY <1>3, <1>9, CountersIs DEF AssemblesTable
  <2>2. Found(v, nm).value = y.g.pc
    <3>1. v.sym[nm][1] = [Found(y, nm) EXCEPT !.value = y.g.pc]
      BY <1>3, <2>1, MovedIs
    <3>2. Found(y, nm) \in Definitions
      BY <1>3, FoundIs
    <3> QED BY <3>1, <3>2 DEF Found, Definitions
  <2>3. Known(x, nm) => Found(x, nm).sub # "SET"
    BY <1>9, LineIs DEF Overwrites, Named
  <2>4. \/ ~Known(x, nm)
        \/ IsDot(x, nm) /\ u.sym = Moved(x, nm, x.g.pc)
    BY <1>9, <2>3, LineIs DEF BuildsTable, Defines, Named
  <2>5. CASE ~Known(x, nm)
    <3>1. Found(u, nm) = Label(x, nm)
      BY <1>1, <1>9, <2>5 DEF Gives
    <3> QED BY <2>2, <3>1 DEF Label
  <2>6. CASE IsDot(x, nm) /\ u.sym = Moved(x, nm, x.g.pc)
    <3>1. Known(x, nm) /\ x.g.pc \in Nat
      BY <2>6, CountersIs DEF IsDot
    <3>2. u.sym[nm][1] = [Found(x, nm) EXCEPT !.value = x.g.pc]
      BY <2>6, <3>1, MovedIs
    <3> QED BY <1>5, <2>2, <3>1, <3>2 DEF Found, Definitions
  <2> QED BY <2>4, <2>5, <2>6
<1>10. ASSUME nm = ln.name, ln.op = "set"
       PROVE  Found(v, nm).value = Found(u, nm).value
  <2> DEFINE w == Eval(x, ln.arg)
  <2>1. w \in Nat /\ Eval(y, ln.arg) = w
    <3>1. w \in Nat /\ w # Undef
      BY <1>10 DEF Sound, Reads, Undef
    <3> QED BY <3>1, EvalSame
  <2>2. v.sym = Moved(y, nm, w)
    BY <1>3, <1>10, <2>1 DEF AssemblesTable
  <2> HIDE DEF w
  <2>3. Found(v, nm).value = w
    <3>1. v.sym[nm][1] = [Found(y, nm) EXCEPT !.value = w]
      BY <1>3, <2>1, <2>2, MovedIs
    <3>2. Found(y, nm) \in Definitions
      BY <1>3, FoundIs
    <3> QED BY <3>1, <3>2 DEF Found, Definitions
  <2>4. Gives(x, ln) = Value("SET", w)
    BY <1>10 DEF Gives, w
  <2>5. CASE ~Known(x, nm)
    BY <1>1, <2>3, <2>4, <2>5 DEF Value
  <2>6. CASE Known(x, nm)
    <3>1. Found(x, nm).sub = "SET" /\ u.sym = Added(x, nm, Gives(x, ln)) /\ Gives(x, ln) \in Definitions
      BY <1>10, <2>6, LineIs DEF BuildsTable, Defines, Named
    <3>2. Found(x, nm).type = "VALUE"
      BY <1>5, <2>6, <3>1 DEF Allowed, Definitions
    <3>3. u.sym[nm][1] = Revalued(Found(x, nm), Gives(x, ln))
      BY <2>6, <3>1, AddedIs
    <3> QED BY <1>5, <2>3, <2>4, <2>6, <3>1, <3>2, <3>3 DEF Revalued, Value, Found, Definitions
  <2> QED BY <2>5, <2>6
<1> QED BY <1>6, <1>7, <1>8, <1>9, <1>10, <1>1, <1>5, FoundIs

-----------------------------------------------------------------------------
(* The traces hold the state before each line that was read.               *)
At(x) == [ok |-> TRUE, g |-> x.g, sym |-> x.sym]
Snap == [g |-> g, sym |-> sym]
Snaps == [g : Counters, sym : Tables]
Passed == 1 .. Len(trace[2])

LEMMA AtIs ==
  ASSUME NEW x \in Snaps
  PROVE  /\ At(x) \in Machine /\ At(x).g = x.g /\ At(x).sym = x.sym /\ At(x).ok = TRUE
         /\ x.g \in Counters /\ x.sym \in Tables
         /\ \A nm : Known(At(x), nm) = Known(x, nm) /\ Found(At(x), nm) = Found(x, nm)
BY DEF At, Snaps, Machine, Known, Found

Recorded ==
  /\ Len(trace[1]) = Len(src) /\ Len(src) <= MAXLINES
  /\ pass = 1 => /\ at = Len(src) + 1 /\ trace[2] = <<>>
                 /\ gCode = [a \in 0 .. CODESIZE - 1 |-> None]
  /\ pass = 2 => at = Len(trace[2]) + 1 /\ Len(trace[2]) <= Len(src) /\ src # <<>>

(* What a step of pass 1 does.                                             *)
Pass1Does(ln) ==
  /\ pass = 1 /\ pass' = 1 /\ result = TRUE /\ gCode' = gCode
  /\ Now = At(Snap) /\ Snap \in Snaps /\ Now \in Machine
  /\ Builds(Now, ln, build(Now, ln))
  /\ Now' = build(Now, ln) /\ Now' \in Machine
  /\ over' = (over \/ Overwrites(Now, ln))
  /\ Len(src) \in Nat /\ Len(src) + 1 <= MAXLINES
  /\ Len(src') = Len(src) + 1 /\ src' \in Seq(Lines) /\ src'[Len(src) + 1] = ln
  /\ \A k \in 1 .. Len(src) : src'[k] = src[k]
  /\ trace' \in [1 .. 2 -> Seq(Snaps)] /\ trace'[2] = trace[2]
  /\ Len(trace'[1]) = Len(src) + 1 /\ trace'[1][Len(src) + 1] = Snap
  /\ \A k \in 1 .. Len(src) : trace'[1][k] = trace[1][k]
  /\ at' = at + 1

LEMMA Pass1Is ==
  ASSUME AsmTypeOK, Recorded, Pass1
  PROVE  \E ln \in Lines : Pass1Does(ln)
<1>1. PICK ln \in Lines :
        /\ Becomes(build(Now, ln)) /\ src' = Append(src, ln) /\ over' = (over \/ Overwrites(Now, ln))
  BY DEF Pass1
<1>2. /\ pass = 1 /\ pass' = pass /\ gCode' = gCode /\ result = TRUE /\ at' = at + 1
      /\ Len(src) < MAXLINES /\ MAXLINES \in Nat
      /\ trace' = [trace EXCEPT ![1] = Append(@, Snap)]
  BY AsmAssumption DEF Pass1, Traced, Snap, AsmTypeOK
<1>3. Snap \in Snaps /\ Now = At(Snap) /\ Now \in Machine
  BY <1>2 DEF Snap, Snaps, Now, At, Machine, AsmTypeOK
<1>4. Builds(Now, ln, build(Now, ln))
  BY <1>3, BuildDoes
<1>5. Now' = build(Now, ln) /\ Now' \in Machine
  <2>1. build(Now, ln) \in Machine
    BY <1>4 DEF Builds
  <2> DEFINE k == build(Now, ln)
  <2>2. result' = k.ok /\ g' = k.g /\ sym' = k.sym
    BY <1>1 DEF Becomes
  <2> HIDE DEF k
  <2>3. Now' = [ok |-> k.ok, g |-> k.g, sym |-> k.sym]
    BY <2>2 DEF Now
  <2>4. k \in Machine
    BY <2>1 DEF k
  <2>5. Now' = k
    BY <2>3, <2>4 DEF Machine
  <2> QED BY <2>4, <2>5 DEF k
<1>6. src \in Seq(Lines) /\ trace \in [1 .. 2 -> Seq(Snaps)] /\ Len(trace[1]) = Len(src)
  BY DEF AsmTypeOK, Snaps, Recorded
<1>7. /\ src' \in Seq(Lines) /\ Len(src') = Len(src) + 1 /\ src'[Len(src) + 1] = ln
      /\ Len(src) \in Nat
      /\ \A k \in 1 .. Len(src) : src'[k] = src[k]
  BY <1>1, <1>6, AppendFacts
<1>8. /\ trace' \in [1 .. 2 -> Seq(Snaps)] /\ trace'[2] = trace[2]
      /\ Len(trace'[1]) = Len(src) + 1 /\ trace'[1][Len(src) + 1] = Snap
      /\ \A k \in 1 .. Len(src) : trace'[1][k] = trace[1][k]
  <2> DEFINE t == Append(trace[1], Snap)
  <2>1. trace[1] \in Seq(Snaps)
    BY <1>6
  <2>2. /\ t \in Seq(Snaps) /\ Len(t) = Len(src) + 1 /\ t[Len(src) + 1] = Snap
        /\ \A k \in 1 .. Len(src) : t[k] = trace[1][k]
    BY <1>3, <1>6, <2>1, AppendFacts
  <2>3. trace' = [trace EXCEPT ![1] = t]
    BY <1>2
  <2> HIDE DEF t
  <2> QED BY <1>6, <2>2, <2>3
<1>9. Len(src) + 1 <= MAXLINES
  BY <1>2, <1>7
<1> QED BY <1>1, <1>2, <1>3, <1>4, <1>5, <1>7, <1>8, <1>9 DEF Pass1Does

(* And of pass 2.                                                          *)
Pass2Does(ln) ==
  /\ ln = src[at] /\ pass = 2 /\ pass' = 2 /\ result = TRUE /\ src' = src /\ over' = over
  /\ at \in 1 .. Len(src) /\ at' = at + 1 /\ ln \in Lines
  /\ Len(src) \in Nat /\ Len(trace[2]) \in Nat /\ at = Len(trace[2]) + 1
  /\ Now = At(Snap) /\ Snap \in Snaps /\ Now \in Machine
  /\ Assembles(Now, ln, assemble(Now, ln))
  /\ Now' = assemble(Now, ln) /\ Now' \in Machine
  /\ gCode' = IF Emits(Now, ln)
              THEN [gCode EXCEPT ![g.pc] = [line |-> at, operand |-> Operand(Now, ln)]]
              ELSE gCode
  /\ trace' \in [1 .. 2 -> Seq(Snaps)] /\ trace'[1] = trace[1]
  /\ Len(trace'[2]) = at /\ trace'[2][at] = Snap
  /\ \A k \in 1 .. at - 1 : trace'[2][k] = trace[2][k]

LEMMA Pass2Is ==
  ASSUME AsmTypeOK, Recorded, Pass2
  PROVE  Pass2Does(src[at])
<1> DEFINE ln == src[at]
<1>1. /\ pass = 2 /\ pass' = pass /\ result = TRUE /\ src' = src /\ over' = over
      /\ at <= Len(src) /\ at' = at + 1 /\ at = Len(trace[2]) + 1
      /\ Becomes(assemble(Now, ln))
      /\ gCode' = IF Emits(Now, ln)
                  THEN [gCode EXCEPT ![g.pc] = [line |-> at, operand |-> Operand(Now, ln)]]
                  ELSE gCode
      /\ trace' = [trace EXCEPT ![2] = Append(@, Snap)]
  BY DEF Pass2, Traced, Snap, AsmTypeOK, Recorded
<1>2. /\ src \in Seq(Lines) /\ trace \in [1 .. 2 -> Seq(Snaps)] /\ at \in Nat /\ at >= 1
      /\ Len(src) \in Nat /\ Len(trace[2]) \in Nat
  <2>1. src \in Seq(Lines) /\ trace \in [1 .. 2 -> Seq(Snaps)] /\ at \in Nat /\ at >= 1
    BY AsmAssumption DEF AsmTypeOK, Snaps
  <2>2. trace[2] \in Seq(Snaps)
    BY <2>1
  <2> QED BY <2>1, <2>2
<1>3. at \in 1 .. Len(src) /\ ln \in Lines
  BY <1>1, <1>2
<1>4. Snap \in Snaps /\ Now = At(Snap) /\ Now \in Machine
  BY <1>1 DEF Snap, Snaps, Now, At, Machine, AsmTypeOK
<1>5. Assembles(Now, ln, assemble(Now, ln))
  BY <1>3, <1>4, AssembleDoes
<1>6. Now' = assemble(Now, ln) /\ Now' \in Machine
  <2> DEFINE k == assemble(Now, ln)
  <2>1. k \in Machine
    BY <1>5 DEF Assembles
  <2>2. result' = k.ok /\ g' = k.g /\ sym' = k.sym
    BY <1>1 DEF Becomes
  <2> HIDE DEF k
  <2>3. Now' = [ok |-> k.ok, g |-> k.g, sym |-> k.sym]
    BY <2>2 DEF Now
  <2>5. Now' = k
    BY <2>1, <2>3 DEF Machine
  <2> QED BY <2>1, <2>5 DEF k
<1>7. /\ trace' \in [1 .. 2 -> Seq(Snaps)] /\ trace'[1] = trace[1]
      /\ Len(trace'[2]) = at /\ trace'[2][at] = Snap
      /\ \A k \in 1 .. at - 1 : trace'[2][k] = trace[2][k]
  <2> DEFINE t == Append(trace[2], Snap)
  <2>1. trace[2] \in Seq(Snaps)
    BY <1>2
  <2>2. /\ t \in Seq(Snaps) /\ Len(t) = at /\ t[at] = Snap
        /\ \A k \in 1 .. Len(trace[2]) : t[k] = trace[2][k]
    BY <1>1, <1>4, <2>1, AppendFacts
  <2>3. trace' = [trace EXCEPT ![2] = t]
    BY <1>1
  <2>4. at - 1 = Len(trace[2])
    BY <1>1, <1>2
  <2> HIDE DEF t
  <2> QED BY <1>2, <2>2, <2>3, <2>4
<1> HIDE DEF ln
<1> QED BY <1>1, <1>2, <1>3, <1>4, <1>5, <1>6, <1>7 DEF ln, Pass2Does

-----------------------------------------------------------------------------
(* The types, and how far the traces are.                                  *)
LEMMA RewindIs ==
  ASSUME AsmTypeOK, Recorded, Rewind
  PROVE  /\ pass = 1 /\ pass' = 2 /\ at' = 1 /\ result = TRUE /\ src # <<>>
         /\ src' = src /\ sym' = sym /\ gCode' = gCode /\ result' = result
         /\ trace' = trace /\ over' = over /\ trace[2] = <<>>
         /\ g' = Reset(g.esg) /\ g' \in Counters /\ g'.esg = g.esg
<1>1. /\ pass = 1 /\ pass' = 2 /\ at' = 1 /\ result = TRUE /\ src # <<>>
      /\ src' = src /\ sym' = sym /\ gCode' = gCode /\ result' = result
      /\ trace' = trace /\ over' = over /\ g' = Reset(g.esg) /\ trace[2] = <<>>
  BY DEF Rewind, AsmTypeOK, Recorded
<1>2. Reset(g.esg) \in Counters /\ Reset(g.esg).esg = g.esg
  BY AsmAssumption DEF Reset, AsmTypeOK, Counters
<1> QED BY <1>1, <1>2

(* An operand is a number.                                                 *)
LEMMA OperandIs ==
  ASSUME NEW m \in Machine, NEW ln \in Lines, Emits(m, ln), Assembles(m, ln, assemble(m, ln))
  PROVE  Operand(m, ln) \in Nat /\ Eval(m, ln.arg) \in Nat
<1>1. Eval(m, ln.arg) \in Nat
  BY DEF Emits, Assembles
<1>2. BYTE \in Nat \ {0}
  BY AsmAssumption
<1>3. Eval(m, ln.arg) % BYTE \in Nat
  BY <1>1, <1>2, ModRange
<1> QED BY <1>1, <1>3 DEF Operand

LEMMA AsmTypeStep ==
  ASSUME AsmTypeOK, Recorded, AsmNext
  PROVE  AsmTypeOK' /\ Recorded'
<1>0. /\ pass \in 1 .. 2 /\ at \in 1 .. MAXLINES + 1 /\ src \in Seq(Lines)
      /\ g \in Counters /\ Len(g.esg) <= MAXESG /\ sym \in Tables
      /\ gCode \in [0 .. CODESIZE - 1 -> [line : 1 .. MAXLINES, operand : Nat] \union {None}]
      /\ result \in BOOLEAN /\ over \in BOOLEAN
      /\ trace \in [1 .. 2 -> Seq(Snaps)] /\ MAXLINES \in Nat
  BY AsmAssumption DEF AsmTypeOK, Snaps
<1>1. ASSUME Pass1 PROVE AsmTypeOK' /\ Recorded'
  <2>1. PICK ln \in Lines : Pass1Does(ln)
    BY <1>1, Pass1Is
  <2> USE DEF Pass1Does
  <2>2. g' \in Counters /\ sym' \in Tables /\ result' \in BOOLEAN
    BY <2>1 DEF Now, Machine
  <2>3. Shallow(g')
    <3>1. Now.g = g /\ Now'.g = g'
      BY DEF Now
    <3> QED BY <1>0, <2>1, <3>1 DEF Builds, Shallow
  <2>4. over' \in BOOLEAN
    BY <2>1 DEF Overwrites
  <2>5. at = Len(src) + 1 /\ trace[2] = <<>> /\ gCode = [a \in 0 .. CODESIZE - 1 |-> None]
    BY <2>1 DEF Recorded
  <2>6. at' \in 1 .. MAXLINES + 1
    BY <1>0, <2>1, <2>5
  <2>7. AsmTypeOK'
    BY <1>0, <2>1, <2>2, <2>3, <2>4, <2>6 DEF AsmTypeOK, Snaps, Shallow
  <2>8. Recorded'
    BY <2>1, <2>5 DEF Recorded
  <2> QED BY <2>7, <2>8
<1>2. ASSUME Rewind PROVE AsmTypeOK' /\ Recorded'
  <2>1. /\ pass' = 2 /\ at' = 1 /\ src # <<>>
        /\ src' = src /\ sym' = sym /\ gCode' = gCode /\ result' = result
        /\ trace' = trace /\ over' = over /\ trace[2] = <<>>
        /\ g' \in Counters /\ g'.esg = g.esg
    BY <1>2, RewindIs
  <2>2. Len(trace[1]) = Len(src) /\ Len(src) \in Nat /\ Len(src) <= MAXLINES
    BY <1>0 DEF Recorded
  <2>3. AsmTypeOK'
    BY <1>0, <2>1 DEF AsmTypeOK, Snaps
  <2>4. Len(<<>>) = 0
    OBVIOUS
  <2>5. Recorded'
    BY <2>1, <2>2, <2>4 DEF Recorded
  <2> QED BY <2>3, <2>5
<1>3. ASSUME Pass2 PROVE AsmTypeOK' /\ Recorded'
  <2> DEFINE ln == src[at]
  <2>1. Pass2Does(ln)
    BY <1>3, Pass2Is
  <2> USE DEF Pass2Does
  <2>2. g' \in Counters /\ sym' \in Tables /\ result' \in BOOLEAN
    BY <2>1 DEF Now, Machine
  <2>3. Shallow(g')
    <3>1. Now.g = g /\ Now'.g = g'
      BY DEF Now
    <3> QED BY <1>0, <2>1, <3>1 DEF Assembles, Shallow
  <2> HIDE DEF ln
  <2>4. Len(trace[1]) = Len(src) /\ src # <<>> /\ Len(src) <= MAXLINES
    BY <2>1 DEF Recorded
  <2>6. at' \in 1 .. MAXLINES + 1 /\ at \in 1 .. MAXLINES
    BY <1>0, <2>1, <2>4
  <2>7. gCode' \in [0 .. CODESIZE - 1 -> [line : 1 .. MAXLINES, operand : Nat] \union {None}]
    <3>1. CASE Emits(Now, ln)
      <4> DEFINE e == [line |-> at, operand |-> Operand(Now, ln)]
      <4>1. e \in [line : 1 .. MAXLINES, operand : Nat]
        BY <2>1, <2>6, <3>1, OperandIs
      <4>2. gCode' = [gCode EXCEPT ![g.pc] = e]
        BY <2>1, <3>1
      <4> HIDE DEF e
      <4> QED BY <1>0, <4>1, <4>2
    <3>2. CASE ~Emits(Now, ln)
      BY <1>0, <2>1, <3>2
    <3> QED BY <3>1, <3>2
  <2>8. AsmTypeOK'
    BY <1>0, <2>1, <2>2, <2>3, <2>6, <2>7 DEF AsmTypeOK, Snaps, Shallow
  <2>9. Recorded'
    BY <2>1, <2>4 DEF Recorded
  <2> QED BY <2>8, <2>9
<1> QED BY <1>1, <1>2, <1>3 DEF AsmNext

-----------------------------------------------------------------------------
(* The states the two passes came to line k with.                          *)
FirstAt(k) == At(trace[1][k])
SecondAt(k) == At(trace[2][k])

LEMMA RecordsAre ==
  ASSUME AsmTypeOK, Recorded
  PROVE  /\ Len(src) \in Nat /\ Len(trace[2]) \in Nat /\ Len(trace[2]) <= Len(src)
         /\ \A k \in 1 .. Len(src) : src[k] \in Lines /\ trace[1][k] \in Snaps
         /\ \A k \in Passed : trace[2][k] \in Snaps
         /\ Now \in Machine /\ Now.g = g /\ Now.sym = sym
<1>1. src \in Seq(Lines) /\ trace \in [1 .. 2 -> Seq(Snaps)] /\ pass \in 1 .. 2
  BY DEF AsmTypeOK, Snaps
<1>2. trace[1] \in Seq(Snaps) /\ trace[2] \in Seq(Snaps)
  BY <1>1
<1>3. Len(trace[1]) = Len(src) /\ (pass = 1 => Len(trace[2]) = 0) /\ (pass = 2 => Len(trace[2]) <= Len(src))
  <2>1. Len(<<>>) = 0
    OBVIOUS
  <2> QED BY <2>1 DEF Recorded
<1>4. Now \in Machine /\ Now.g = g /\ Now.sym = sym
  BY DEF Now, Machine, AsmTypeOK
<1> QED BY <1>1, <1>2, <1>3, <1>4 DEF Passed

(* The first pass starts with no symbol, and each of its lines takes it    *)
(* from one recorded state to the next.                                    *)
Fresh(x) == x.g = Reset(<<>>) /\ \A nm \in Names : ~Known(x, nm)
Chained ==
  /\ \A k \in 1 .. Len(src) - 1 : Builds(FirstAt(k), src[k], FirstAt(k + 1))
  /\ pass = 1 /\ result /\ src # <<>> => Builds(FirstAt(Len(src)), src[Len(src)], Now)
  /\ src # <<>> => Fresh(FirstAt(1))
  /\ src = <<>> => Fresh(Now)

LEMMA ChainedStep ==
  ASSUME AsmTypeOK, Recorded, Chained, AsmNext
  PROVE  Chained'
<1>0. Len(src) \in Nat /\ (src = <<>> <=> Len(src) = 0)
  <2>1. src \in Seq(Lines)
    BY DEF AsmTypeOK
  <2> QED BY <2>1
<1>1. ASSUME Pass1 PROVE Chained'
  <2>1. PICK ln \in Lines : Pass1Does(ln)
    BY <1>1, Pass1Is
  <2>2. /\ pass = 1 /\ result = TRUE /\ Now = At(Snap) /\ Now' = build(Now, ln)
        /\ Builds(Now, ln, build(Now, ln)) /\ Len(src') = Len(src) + 1
        /\ src'[Len(src) + 1] = ln /\ trace'[1][Len(src) + 1] = Snap
        /\ \A k \in 1 .. Len(src) : src'[k] = src[k] /\ trace'[1][k] = trace[1][k]
    BY <2>1 DEF Pass1Does
  <2> DEFINE F(k) == At(trace'[1][k])
  <2>3. /\ \A k \in 1 .. Len(src) : F(k) = FirstAt(k)
        /\ F(Len(src) + 1) = Now
    BY <2>2 DEF FirstAt
  <2>4. \A k : FirstAt(k)' = F(k)
    BY DEF FirstAt, At
  <2> HIDE DEF F
  <2>5. ASSUME NEW k \in 1 .. Len(src') - 1
        PROVE  Builds(F(k), src'[k], F(k + 1))
    <3>1. CASE k \in 1 .. Len(src) - 1
      <4>1. F(k) = FirstAt(k) /\ F(k + 1) = FirstAt(k + 1) /\ src'[k] = src[k]
        BY <1>0, <2>2, <2>3, <3>1
      <4> QED BY <3>1, <4>1 DEF Chained
    <3>2. CASE k = Len(src)
      <4>1. F(k) = FirstAt(k) /\ F(k + 1) = Now /\ src'[k] = src[k] /\ src # <<>>
        BY <1>0, <2>2, <2>3, <3>2
      <4> QED BY <2>2, <3>2, <4>1 DEF Chained
    <3> QED BY <1>0, <2>2, <3>1, <3>2
  <2>6. Builds(F(Len(src')), src'[Len(src')], Now')
    BY <2>2, <2>3
  <2>7. Fresh(F(1))
    <3>1. CASE src = <<>>
      BY <1>0, <2>3, <3>1 DEF Chained
    <3>2. CASE src # <<>>
      BY <1>0, <2>3, <3>2 DEF Chained
    <3> QED BY <3>1, <3>2
  <2>8. src' # <<>>
    <3>1. Len(<<>>) = 0
      OBVIOUS
    <3> QED BY <1>0, <2>2, <3>1
  <2> QED BY <2>4, <2>5, <2>6, <2>7, <2>8 DEF Chained
<1>2. ASSUME Rewind PROVE Chained'
  <2>1. pass' = 2 /\ src # <<>> /\ src' = src /\ trace' = trace
    BY <1>2, RewindIs
  <2> QED BY <2>1 DEF Chained, FirstAt, At
<1>3. ASSUME Pass2 PROVE Chained'
  <2>1. pass' = 2 /\ src' = src /\ trace'[1] = trace[1] /\ src # <<>>
    BY <1>3, Pass2Is DEF Pass2Does, Recorded
  <2> QED BY <2>1 DEF Chained, FirstAt, At
<1> QED BY <1>1, <1>2, <1>3 DEF AsmNext

(* Where no .SET symbol was given a value in another way, none was on any  *)
(* line of the first pass.                                                 *)
Unbroken == ~over => \A k \in 1 .. Len(src) : ~Overwrites(FirstAt(k), src[k])

LEMMA UnbrokenStep ==
  ASSUME AsmTypeOK, Recorded, Unbroken, AsmNext
  PROVE  Unbroken'
<1>0. Len(src) \in Nat
  BY RecordsAre
<1>1. ASSUME Pass1 PROVE Unbroken'
  <2>1. PICK ln \in Lines : Pass1Does(ln)
    BY <1>1, Pass1Is
  <2>2. /\ Now = At(Snap) /\ Len(src') = Len(src) + 1
        /\ over' = (over \/ Overwrites(Now, ln))
        /\ src'[Len(src) + 1] = ln /\ trace'[1][Len(src) + 1] = Snap
        /\ \A k \in 1 .. Len(src) : src'[k] = src[k] /\ trace'[1][k] = trace[1][k]
    BY <2>1 DEF Pass1Does
  <2> DEFINE F(k) == At(trace'[1][k])
  <2>3. /\ \A k \in 1 .. Len(src) : F(k) = FirstAt(k)
        /\ F(Len(src) + 1) = Now
    BY <2>2 DEF FirstAt
  <2>4. \A k : FirstAt(k)' = F(k)
    BY DEF FirstAt, At
  <2> HIDE DEF F
  <2>5. ASSUME NEW k \in 1 .. Len(src'), ~over'
        PROVE  ~Overwrites(F(k), src'[k])
    <3>1. CASE k \in 1 .. Len(src)
      BY <2>2, <2>3, <2>5, <3>1 DEF Unbroken
    <3>2. CASE k = Len(src) + 1
      BY <2>2, <2>3, <2>5, <3>2
    <3> QED BY <1>0, <2>2, <3>1, <3>2
  <2> QED BY <2>4, <2>5 DEF Unbroken
<1>2. ASSUME Rewind PROVE Unbroken'
  <2>1. src' = src /\ trace' = trace /\ over' = over
    BY <1>2, RewindIs
  <2> QED BY <2>1 DEF Unbroken, FirstAt, At
<1>3. ASSUME Pass2 PROVE Unbroken'
  <2>1. src' = src /\ trace'[1] = trace[1] /\ over' = over
    BY <1>3, Pass2Is DEF Pass2Does
  <2> QED BY <2>1 DEF Unbroken, FirstAt, At
<1> QED BY <1>1, <1>2, <1>3 DEF AsmNext

-----------------------------------------------------------------------------
(* A name stays known, and what the table says of it keeps what no line    *)
(* may change: the kind, and the value unless it is a .SET symbol's or a   *)
(* dotted label's.                                                         *)
LEMMA FirstKeeps ==
  ASSUME NEW m \in Machine, NEW ln \in Lines, NEW k, Builds(m, ln, k), NEW nm \in Names
  PROVE  /\ Known(m, nm) => Known(k, nm) /\ Keeps(Found(m, nm), Found(k, nm))
         /\ Known(k, nm) /\ ~Known(m, nm) => Allowed(nm, Found(k, nm))
<1>1. k \in Machine
  BY DEF Builds
<1>2. CASE k.ok = TRUE
  <2>1. BuildsTable(m, ln, k.sym)
    BY <1>2 DEF Builds
  <2> QED BY <1>1, <2>1, BuildKeeps, GivesAllowed
<1>3. CASE k.ok = FALSE
  <2>1. k.sym = m.sym
    BY <1>3 DEF Builds
  <2> QED BY <2>1 DEF Known, Found, Keeps
<1> QED BY <1>1, <1>2, <1>3 DEF Machine

LEMMA SecondKeeps ==
  ASSUME NEW m \in Machine, NEW ln \in Lines, NEW k, Assembles(m, ln, k), NEW nm \in Names
  PROVE  /\ Known(m, nm) <=> Known(k, nm)
         /\ Known(m, nm) => Keeps(Found(m, nm), Found(k, nm))
<1>1. k \in Machine
  BY DEF Assembles
<1>2. CASE k.ok = TRUE
  <2>1. AssemblesTable(m, ln, k.sym)
    BY <1>2 DEF Assembles
  <2> QED BY <1>1, <2>1, AssembleKeeps
<1>3. CASE k.ok = FALSE
  <2>1. k.sym = m.sym
    BY <1>3 DEF Assembles
  <2> QED BY <2>1 DEF Known, Found, Keeps
<1> QED BY <1>1, <1>2, <1>3 DEF Machine

LEMMA AllowedKept ==
  ASSUME NEW nm, NEW d, NEW e, Allowed(nm, d), Keeps(d, e)
  PROVE  Allowed(nm, e)
BY DEF Allowed, Keeps

Kept ==
  /\ \A k \in 1 .. Len(src), nm \in Names :
       Known(FirstAt(k), nm) => Known(Now, nm) /\ Keeps(Found(FirstAt(k), nm), Found(Now, nm))
  /\ \A k \in Passed, nm \in Names :
       /\ Known(SecondAt(k), nm) <=> Known(Now, nm)
       /\ Known(Now, nm) => Keeps(Found(SecondAt(k), nm), Found(Now, nm))
  /\ \A nm \in Names : Known(Now, nm) => Allowed(nm, Found(Now, nm))

LEMMA KeptStep ==
  ASSUME AsmTypeOK, Recorded, Kept, AsmNext
  PROVE  Kept'
<1>0. Len(src) \in Nat /\ Len(trace[2]) \in Nat /\ Now \in Machine
  BY RecordsAre
<1> DEFINE F(k) == At(trace'[1][k])
           S(k) == At(trace'[2][k])
<1>a. \A k : FirstAt(k)' = F(k) /\ SecondAt(k)' = S(k)
  BY DEF FirstAt, SecondAt, At
<1>1. ASSUME Pass1 PROVE Kept'
  <2>1. PICK ln \in Lines : Pass1Does(ln)
    BY <1>1, Pass1Is
  <2>2. /\ Now = At(Snap) /\ Len(src') = Len(src) + 1 /\ Builds(Now, ln, Now')
        /\ trace'[1][Len(src) + 1] = Snap /\ trace'[2] = <<>>
        /\ \A k \in 1 .. Len(src) : trace'[1][k] = trace[1][k]
    BY <2>1 DEF Pass1Does, Recorded
  <2>3. /\ \A k \in 1 .. Len(src) : F(k) = FirstAt(k)
        /\ F(Len(src) + 1) = Now
    BY <2>2 DEF FirstAt
  <2> HIDE DEF F, S
  <2>4. \A nm \in Names :
          /\ Known(Now, nm) => Known(Now', nm) /\ Keeps(Found(Now, nm), Found(Now', nm))
          /\ Known(Now', nm) /\ ~Known(Now, nm) => Allowed(nm, Found(Now', nm))
    BY <1>0, <2>2, FirstKeeps
  <2>5. ASSUME NEW k \in 1 .. Len(src'), NEW nm \in Names, Known(F(k), nm)
        PROVE  Known(Now', nm) /\ Keeps(Found(F(k), nm), Found(Now', nm))
    <3>1. CASE k \in 1 .. Len(src)
      <4>1. F(k) = FirstAt(k)
        BY <2>3, <3>1
      <4>2. Known(Now, nm) /\ Keeps(Found(F(k), nm), Found(Now, nm))
        BY <2>5, <3>1, <4>1 DEF Kept
      <4> QED BY <2>4, <4>2, KeepsTransitive
    <3>2. CASE k = Len(src) + 1
      BY <2>3, <2>4, <2>5, <3>2
    <3> QED BY <1>0, <2>2, <3>1, <3>2
  <2>6. ASSUME NEW nm \in Names, Known(Now', nm) PROVE Allowed(nm, Found(Now', nm))
    <3>1. CASE Known(Now, nm)
      <4>1. Allowed(nm, Found(Now, nm))
        BY <3>1 DEF Kept
      <4> QED BY <2>4, <3>1, <4>1, AllowedKept
    <3>2. CASE ~Known(Now, nm)
      BY <2>4, <2>6, <3>2
    <3> QED BY <3>1, <3>2
  <2>7. Passed' = {}
    <3>1. Len(<<>>) = 0
      OBVIOUS
    <3> QED BY <2>2, <3>1 DEF Passed
  <2> QED BY <1>a, <2>5, <2>6, <2>7 DEF Kept
<1>2. ASSUME Rewind PROVE Kept'
  <2>1. src' = src /\ trace' = trace /\ sym' = sym
    BY <1>2, RewindIs
  <2>2. Now'.sym = Now.sym
    BY <2>1 DEF Now
  <2>3. \A nm : Known(Now', nm) = Known(Now, nm) /\ Found(Now', nm) = Found(Now, nm)
    BY <2>2 DEF Known, Found
  <2>4. \A k : F(k) = FirstAt(k) /\ S(k) = SecondAt(k)
    BY <2>1 DEF FirstAt, SecondAt
  <2>5. Passed' = Passed
    BY <2>1 DEF Passed
  <2> HIDE DEF F, S
  <2> QED BY <1>a, <2>1, <2>3, <2>4, <2>5 DEF Kept
<1>3. ASSUME Pass2 PROVE Kept'
  <2>1. Pass2Does(src[at])
    BY <1>3, Pass2Is
  <2>2. /\ Now = At(Snap) /\ src' = src /\ Assembles(Now, src[at], Now') /\ src[at] \in Lines
        /\ trace'[1] = trace[1] /\ at = Len(trace[2]) + 1
        /\ Len(trace'[2]) = at /\ trace'[2][at] = Snap
        /\ \A k \in 1 .. at - 1 : trace'[2][k] = trace[2][k]
    BY <2>1 DEF Pass2Does
  <2>3. /\ \A k : F(k) = FirstAt(k)
        /\ \A k \in 1 .. at - 1 : S(k) = SecondAt(k)
        /\ S(at) = Now
    BY <2>2 DEF FirstAt, SecondAt
  <2>4. Passed = 1 .. at - 1 /\ Passed' = 1 .. at /\ at \in Nat
    BY <1>0, <2>2 DEF Passed
  <2> HIDE DEF F, S
  <2>5. \A nm \in Names :
          /\ Known(Now, nm) <=> Known(Now', nm)
          /\ Known(Now, nm) => Keeps(Found(Now, nm), Found(Now', nm))
    BY <1>0, <2>2, SecondKeeps
  <2>6. ASSUME NEW k \in 1 .. Len(src'), NEW nm \in Names, Known(F(k), nm)
        PROVE  Known(Now', nm) /\ Keeps(Found(F(k), nm), Found(Now', nm))
    <3>1. Known(Now, nm) /\ Keeps(Found(F(k), nm), Found(Now, nm))
      BY <2>2, <2>3, <2>6 DEF Kept
    <3> QED BY <2>5, <3>1, KeepsTransitive
  <2>7. ASSUME NEW k \in 1 .. at, NEW nm \in Names
        PROVE  /\ Known(S(k), nm) <=> Known(Now', nm)
               /\ Known(Now', nm) => Keeps(Found(S(k), nm), Found(Now', nm))
    <3>1. CASE k \in 1 .. at - 1
      <4>1. /\ Known(S(k), nm) <=> Known(Now, nm)
            /\ Known(Now, nm) => Keeps(Found(S(k), nm), Found(Now, nm))
        BY <2>3, <2>4, <3>1 DEF Kept
      <4> QED BY <2>5, <4>1, KeepsTransitive
    <3>2. CASE k = at
      BY <2>3, <2>5, <3>2
    <3> QED BY <2>4, <3>1, <3>2
  <2>8. ASSUME NEW nm \in Names, Known(Now', nm) PROVE Allowed(nm, Found(Now', nm))
    <3>1. Known(Now, nm) /\ Allowed(nm, Found(Now, nm))
      BY <2>5, <2>8 DEF Kept
    <3> QED BY <2>5, <3>1, AllowedKept
  <2> QED BY <1>a, <2>4, <2>6, <2>7, <2>8 DEF Kept
<1> QED BY <1>1, <1>2, <1>3 DEF AsmNext

-----------------------------------------------------------------------------
(* The passes agree because pass 2 follows pass 1: where pass 1 came to a  *)
(* line with the counters h, pass 2 comes to it with the same ones, on top *)
(* of the segments pass 1 left open, and the names known then have the     *)
(* same values.                                                            *)
Following ==
  pass = 2 /\ result /\ ~over /\ at <= Len(src) =>
    \E low \in Seq(Nat) : Follows(FirstAt(at).g, g, low) /\ Sees(FirstAt(at), Now)

LEMMA FreshFollowed ==
  ASSUME NEW x \in Machine, NEW y \in Machine, NEW low \in Seq(Nat), Fresh(x), y.g = Reset(low)
  PROVE  Follows(x.g, y.g, low) /\ Sees(x, y)
<1>1. low = low \o <<>>
  OBVIOUS
<1>2. Reset(low).esg = low /\ Reset(<<>>).esg = <<>>
  BY DEF Reset
<1>3. Follows(Reset(<<>>), Reset(low), low)
  BY <1>1, <1>2 DEF Reset, Follows
<1> QED BY <1>3 DEF Fresh, Sees

LEMMA LineFollows ==
  ASSUME NEW x \in Machine, NEW y \in Machine, NEW ln \in Lines,
         NEW u, Builds(x, ln, u), u.ok = TRUE, NEW v, Assembles(y, ln, v), v.ok = TRUE,
         NEW low \in Seq(Nat), Follows(x.g, y.g, low), Sees(x, y), ~Overwrites(x, ln),
         \A nm \in Names : Known(x, nm) => Allowed(nm, Found(x, nm)),
         \A nm \in Names : Known(u, nm) => Known(v, nm) /\ Keeps(Found(u, nm), Found(v, nm))
  PROVE  Follows(u.g, v.g, low) /\ Sees(u, v)
<1>1. /\ u \in Machine /\ Sound(x, ln) /\ BuildsTable(x, ln, u.sym) /\ Alike(u.g, Effect(x, ln))
      /\ v \in Machine /\ AssemblesTable(y, ln, v.sym) /\ Alike(v.g, Effect(y, ln))
  BY DEF Builds, Assembles
<1>2. Follows(Effect(x, ln), Effect(y, ln), low)
  BY <1>1, EffectFollows
<1>3. Follows(u.g, v.g, low)
  BY <1>1, <1>2 DEF Follows, Alike
<1>4. Sees(u, v)
  BY <1>1, TableSees DEF Follows
<1> QED BY <1>3, <1>4

LEMMA FollowingStep ==
  ASSUME AsmTypeOK, Recorded, Chained, Unbroken, Kept, Following, AsmNext
  PROVE  Following'
<1>0. /\ Len(src) \in Nat /\ Now \in Machine /\ Now.g = g
      /\ \A k \in 1 .. Len(src) : FirstAt(k) \in Machine /\ FirstAt(k).ok = TRUE
  BY RecordsAre, AtIs DEF FirstAt
<1> DEFINE F(k) == At(trace'[1][k])
<1>a. \A k : FirstAt(k)' = F(k)
  BY DEF FirstAt, At
<1>1. ASSUME Pass1 PROVE Following'
  <2>1. pass' = 1
    BY <1>1, Pass1Is DEF Pass1Does
  <2> QED BY <2>1 DEF Following
<1>2. ASSUME Rewind PROVE Following'
  <2>1. /\ at' = 1 /\ src # <<>> /\ src' = src /\ trace' = trace
        /\ g' = Reset(g.esg) /\ g.esg \in Seq(Nat) /\ g' \in Counters
        /\ sym' = sym /\ result' = TRUE
    BY <1>2, RewindIs DEF AsmTypeOK, Counters
  <2>2. Now' \in Machine /\ Now'.g = g'
    BY <2>1 DEF Now, Machine, AsmTypeOK
  <2>3. F(1) = FirstAt(1) /\ Fresh(FirstAt(1))
    BY <2>1 DEF Chained, FirstAt
  <2>4. 1 \in 1 .. Len(src)
    <3>1. src \in Seq(Lines)
      BY DEF AsmTypeOK
    <3> QED BY <2>1, <3>1
  <2> DEFINE y == Now'
             low == g.esg
  <2>5. F(1) \in Machine /\ y \in Machine /\ low \in Seq(Nat) /\ y.g = Reset(low) /\ Fresh(F(1))
    BY <1>0, <2>1, <2>2, <2>3, <2>4
  <2> HIDE DEF F, y, low
  <2>6. Follows(F(1).g, y.g, low) /\ Sees(F(1), y)
    BY <2>5, FreshFollowed
  <2>7. \E t \in Seq(Nat) : Follows(F(1).g, g', t) /\ Sees(F(1), Now')
    BY <2>2, <2>5, <2>6 DEF y
  <2> QED BY <1>a, <2>1, <2>7 DEF Following
<1>3. ASSUME Pass2 PROVE Following'
  <2> DEFINE ln == src[at]
  <2>1. Pass2Does(ln)
    BY <1>3, Pass2Is
  <2>2. /\ pass = 2 /\ result = TRUE /\ src' = src /\ over' = over /\ at \in 1 .. Len(src)
        /\ at' = at + 1 /\ ln \in Lines /\ Assembles(Now, ln, Now') /\ trace'[1] = trace[1]
        /\ Now' \in Machine /\ Now'.g = g' /\ Now'.ok = result'
    <3>1. Now'.g = g' /\ Now'.ok = result'
      BY DEF Now
    <3> QED BY <2>1, <3>1 DEF Pass2Does
  <2> SUFFICES ASSUME result' = TRUE, ~over, at + 1 <= Len(src)
               PROVE  \E low \in Seq(Nat) : Follows(F(at + 1).g, g', low) /\ Sees(F(at + 1), Now')
    BY <1>a, <2>2 DEF Following, AsmTypeOK
  <2> DEFINE x == FirstAt(at)
             u == FirstAt(at + 1)
  <2>3. F(at + 1) = u
    BY <2>2 DEF FirstAt
  <2>4. PICK low \in Seq(Nat) : Follows(x.g, Now.g, low) /\ Sees(x, Now)
    BY <1>0, <2>2 DEF Following
  <2>5. Builds(x, ln, u) /\ u.ok = TRUE /\ x \in Machine /\ ~Overwrites(x, ln)
    <3>1. at \in 1 .. Len(src) - 1 /\ at + 1 \in 1 .. Len(src)
      BY <1>0, <2>2
    <3> QED BY <1>0, <2>2, <3>1 DEF Chained, Unbroken
  <2>6. \A nm \in Names : Known(x, nm) => Allowed(nm, Found(x, nm))
    BY <2>2 DEF Kept, Keeps, Allowed
  <2>7. \A nm \in Names : Known(u, nm) => Known(Now', nm) /\ Keeps(Found(u, nm), Found(Now', nm))
    <3>1. at + 1 \in 1 .. Len(src)
      BY <1>0, <2>2
    <3>2. TAKE nm \in Names
    <3>3. Known(u, nm) => Known(Now, nm) /\ Keeps(Found(u, nm), Found(Now, nm))
      BY <3>1 DEF Kept
    <3>4. Known(Now, nm) => Known(Now', nm) /\ Keeps(Found(Now, nm), Found(Now', nm))
      BY <1>0, <2>2, SecondKeeps
    <3> QED BY <3>3, <3>4, KeepsTransitive
  <2> HIDE DEF F, x, u, ln
  <2>8. Follows(u.g, Now'.g, low) /\ Sees(u, Now')
    BY <1>0, <2>2, <2>4, <2>5, <2>6, <2>7, LineFollows
  <2> QED BY <2>2, <2>3, <2>8
<1> QED BY <1>1, <1>2, <1>3 DEF AsmNext

LEMMA PassesAgreeStep ==
  ASSUME AsmTypeOK, Recorded, Following, PassesAgree, AsmNext
  PROVE  PassesAgree'
<1>0. /\ Len(src) \in Nat /\ Len(trace[2]) \in Nat /\ Now.g = g /\ Now.sym = sym
      /\ \A k \in 1 .. Len(src) : trace[1][k] \in Snaps
  BY RecordsAre
<1>1. ASSUME Pass1 PROVE PassesAgree'
  <2>1. trace'[2] = <<>>
    BY <1>1, Pass1Is DEF Pass1Does, Recorded
  <2>2. Len(<<>>) = 0
    OBVIOUS
  <2> QED BY <2>1, <2>2 DEF PassesAgree
<1>2. ASSUME Rewind PROVE PassesAgree'
  <2>1. trace' = trace /\ over' = over
    BY <1>2, RewindIs
  <2> QED BY <2>1 DEF PassesAgree
<1>3. ASSUME Pass2 PROVE PassesAgree'
  <2>1. Pass2Does(src[at])
    BY <1>3, Pass2Is
  <2>2. /\ pass = 2 /\ result = TRUE /\ over' = over /\ at \in 1 .. Len(src)
        /\ trace'[1] = trace[1] /\ Len(trace'[2]) = at /\ trace'[2][at] = Snap
        /\ at = Len(trace[2]) + 1
        /\ \A k \in 1 .. at - 1 : trace'[2][k] = trace[2][k]
    BY <2>1 DEF Pass2Does
  <2> SUFFICES ASSUME ~over, NEW k \in 1 .. at
               PROVE  Agrees(trace[1][k], trace'[2][k])
    BY <2>2 DEF PassesAgree
  <2>3. CASE k \in 1 .. at - 1
    <3>1. k \in 1 .. Len(trace[2]) /\ trace'[2][k] = trace[2][k]
      BY <1>0, <2>2, <2>3
    <3> QED BY <3>1 DEF PassesAgree
  <2>4. CASE k = at
    <3> DEFINE x == trace[1][at]
    <3>1. PICK low \in Seq(Nat) : Follows(FirstAt(at).g, g, low) /\ Sees(FirstAt(at), Now)
      BY <2>2 DEF Following
    <3>2. /\ FirstAt(at).g = x.g
          /\ \A nm : Known(FirstAt(at), nm) = Known(x, nm) /\ Found(FirstAt(at), nm) = Found(x, nm)
      BY <1>0, <2>2, AtIs DEF FirstAt
    <3>3. /\ Snap.g = g
          /\ \A nm : Known(Snap, nm) = Known(Now, nm) /\ Found(Snap, nm) = Found(Now, nm)
      BY <1>0 DEF Snap, Known, Found
    <3> HIDE DEF x
    <3>4. x.g.pc = g.pc /\ x.g.scr = g.scr /\ x.g.active = g.active
      BY <3>1, <3>2 DEF Follows
    <3>5. \A nm \in Names : Known(x, nm) => Known(Snap, nm) /\ Found(x, nm).value = Found(Snap, nm).value
      BY <3>1, <3>2, <3>3 DEF Sees
    <3>6. Agrees(x, Snap)
      BY <3>3, <3>4, <3>5 DEF Agrees
    <3> QED BY <2>2, <2>4, <3>6 DEF x
  <2> QED BY <1>0, <2>2, <2>3, <2>4
<1> QED BY <1>1, <1>2, <1>3 DEF AsmNext

-----------------------------------------------------------------------------
(* What an address of the code holds comes from an opcode pass 2 was at,   *)
(* as the table was then; and where pass 2 went on after a label that is   *)
(* known, the label was in its place.                                      *)
Coding ==
  \A a \in Coded :
    /\ gCode[a].line \in Passed
    /\ src[gCode[a].line].op \in {"jump", "load"}
    /\ Eval(SecondAt(gCode[a].line), src[gCode[a].line].arg) \in Nat
    /\ gCode[a].operand = Operand(SecondAt(gCode[a].line), src[gCode[a].line])
InPlace ==
  result => \A k \in Passed :
    (src[k].op = "label" /\ Known(SecondAt(k), src[k].name)) => ~Misplaced(SecondAt(k), src[k].name)

LEMMA PassedAt ==
  ASSUME AsmTypeOK, Recorded, Pass2Does(src[at])
  PROVE  /\ Passed = 1 .. at - 1 /\ Passed' = 1 .. at /\ at \in Nat
         /\ \A k \in 1 .. at - 1 : At(trace'[2][k]) = SecondAt(k)
         /\ At(trace'[2][at]) = Now
<1>1. /\ at \in 1 .. Len(src) /\ Len(src) \in Nat /\ Len(trace[2]) \in Nat /\ at = Len(trace[2]) + 1
      /\ Now = At(Snap) /\ Len(trace'[2]) = at /\ trace'[2][at] = Snap
      /\ \A k \in 1 .. at - 1 : trace'[2][k] = trace[2][k]
  BY DEF Pass2Does
<1>2. Len(trace[2]) = at - 1 /\ at \in Nat
  BY <1>1
<1> QED BY <1>1, <1>2 DEF SecondAt, Passed

LEMMA CodingStep ==
  ASSUME AsmTypeOK, Recorded, Coding, AsmNext
  PROVE  Coding'
<1>0. gCode \in [0 .. CODESIZE - 1 -> [line : 1 .. MAXLINES, operand : Nat] \union {None}]
  BY DEF AsmTypeOK
<1>1. ASSUME Pass1 \/ Rewind PROVE Coding'
  <2>1. gCode' = gCode /\ gCode = [a \in 0 .. CODESIZE - 1 |-> None]
    BY <1>1, Pass1Is, RewindIs DEF Pass1Does, Recorded
  <2> QED BY <2>1 DEF Coding, Coded
<1>2. ASSUME Pass2 PROVE Coding'
  <2>1. Pass2Does(src[at])
    BY <1>2, Pass2Is
  <2>2. /\ src' = src /\ src[at] \in Lines /\ Now \in Machine
        /\ Assembles(Now, src[at], assemble(Now, src[at]))
        /\ gCode' = IF Emits(Now, src[at])
                    THEN [gCode EXCEPT ![g.pc] = [line |-> at, operand |-> Operand(Now, src[at])]]
                    ELSE gCode
    BY <2>1 DEF Pass2Does
  <2>3. /\ Passed = 1 .. at - 1 /\ Passed' = 1 .. at /\ at \in Nat
        /\ \A k \in 1 .. at - 1 : At(trace'[2][k]) = SecondAt(k)
        /\ At(trace'[2][at]) = Now
    BY <2>1, PassedAt
  <2> DEFINE S(k) == At(trace'[2][k])
  <2>4. \A k : SecondAt(k)' = S(k)
    BY DEF SecondAt, At
  <2>5. /\ \A k \in 1 .. at - 1 : S(k) = SecondAt(k)
        /\ S(at) = Now
    BY <2>3
  <2> HIDE DEF S
  <2>6. ASSUME NEW a \in Coded'
        PROVE  /\ gCode'[a].line \in 1 .. at
               /\ src[gCode'[a].line].op \in {"jump", "load"}
               /\ Eval(S(gCode'[a].line), src[gCode'[a].line].arg) \in Nat
               /\ gCode'[a].operand = Operand(S(gCode'[a].line), src[gCode'[a].line])
    <3>1. a \in DOMAIN gCode' /\ gCode'[a] # None
      BY <2>6 DEF Coded
    <3>2. CASE gCode'[a] = gCode[a]
      <4>1. a \in Coded
        BY <1>0, <2>2, <3>1, <3>2 DEF Coded
      <4>2. /\ gCode[a].line \in 1 .. at - 1
            /\ src[gCode[a].line].op \in {"jump", "load"}
            /\ Eval(SecondAt(gCode[a].line), src[gCode[a].line].arg) \in Nat
            /\ gCode[a].operand = Operand(SecondAt(gCode[a].line), src[gCode[a].line])
        BY <2>3, <4>1 DEF Coding
      <4>3. S(gCode[a].line) = SecondAt(gCode[a].line) /\ gCode[a].line \in 1 .. at
        BY <2>3, <2>5, <4>2
      <4> QED BY <3>2, <4>2, <4>3
    <3>3. CASE gCode'[a] # gCode[a]
      <4>1. Emits(Now, src[at]) /\ gCode'[a] = [line |-> at, operand |-> Operand(Now, src[at])]
        BY <1>0, <2>2, <3>1, <3>3
      <4>2. src[at].op \in {"jump", "load"} /\ Eval(Now, src[at].arg) \in Nat
        BY <2>2, <4>1, OperandIs DEF Emits
      <4>3. at \in 1 .. at
        BY <2>1 DEF Pass2Does
      <4> QED BY <2>5, <4>1, <4>2, <4>3
    <3> QED BY <3>2, <3>3
  <2> QED BY <2>2, <2>3, <2>4, <2>6 DEF Coding
<1> QED BY <1>1, <1>2 DEF AsmNext

LEMMA InPlaceStep ==
  ASSUME AsmTypeOK, Recorded, InPlace, AsmNext
  PROVE  InPlace'
<1>1. ASSUME Pass1 \/ Rewind PROVE InPlace'
  <2>1. trace'[2] = <<>>
    BY <1>1, Pass1Is, RewindIs DEF Pass1Does, Recorded
  <2>2. Passed' = {}
    <3>1. Len(<<>>) = 0
      OBVIOUS
    <3> QED BY <2>1, <3>1 DEF Passed
  <2> QED BY <2>2 DEF InPlace
<1>2. ASSUME Pass2 PROVE InPlace'
  <2>1. Pass2Does(src[at])
    BY <1>2, Pass2Is
  <2> DEFINE ln == src[at]
             k == Now'
  <2>2. /\ src' = src /\ ln \in Lines /\ Now \in Machine /\ k.ok = result'
        /\ Assembles(Now, ln, k) /\ result = TRUE
    <3>1. Now'.ok = result'
      BY DEF Now
    <3> QED BY <2>1, <3>1 DEF Pass2Does
  <2>3. /\ Passed = 1 .. at - 1 /\ Passed' = 1 .. at /\ at \in Nat
        /\ \A j \in 1 .. at - 1 : At(trace'[2][j]) = SecondAt(j)
        /\ At(trace'[2][at]) = Now
    BY <2>1, PassedAt
  <2> DEFINE S(j) == At(trace'[2][j])
  <2>4. \A j : SecondAt(j)' = S(j)
    BY DEF SecondAt, At
  <2>5. /\ \A j \in 1 .. at - 1 : S(j) = SecondAt(j)
        /\ S(at) = Now
    BY <2>3
  <2> HIDE DEF S, k
  <2>6. ASSUME result', NEW j \in 1 .. at, src[j].op = "label", Known(S(j), src[j].name)
        PROVE  ~Misplaced(S(j), src[j].name)
    <3>1. CASE j \in 1 .. at - 1
      BY <2>2, <2>3, <2>5, <2>6, <3>1 DEF InPlace
    <3>2. CASE j = at
      <4>1. AssemblesTable(Now, ln, k.sym)
        BY <2>2, <2>6 DEF Assembles
      <4> QED BY <2>5, <2>6, <3>2, <4>1 DEF AssemblesTable
    <3> QED BY <2>3, <3>1, <3>2
  <2> QED BY <2>2, <2>3, <2>4, <2>6 DEF InPlace
<1> QED BY <1>1, <1>2 DEF AsmNext

(* What an opcode's name stands for when pass 2 is at it.                  *)
LEMMA NameIs ==
  ASSUME NEW m \in Machine, NEW nm \in Names, Eval(m, nm) \in Nat
  PROVE  Known(m, nm) /\ Eval(m, nm) = Found(m, nm).value
<1>1. nm # Here /\ Undef \notin Nat
  BY AsmAssumption DEF Undef
<1> QED BY <1>1 DEF Eval

LEMMA JumpsLandHere ==
  ASSUME AsmTypeOK, Recorded, Kept, Coding, InPlace
  PROVE  JumpsLand
<1> SUFFICES ASSUME NEW a \in Coded, LineOf(a).op = "jump", LineOf(a).arg \in Plain,
                    NEW k \in Places(LineOf(a).arg, Passed), result
             PROVE  gCode[a].operand = trace[2][k].g.pc
  BY DEF JumpsLand, Passed
<1> DEFINE e == gCode[a].line
           nm == src[e].arg
           d == Found(Now, nm)
<1>1. e \in Passed /\ src[e].op = "jump" /\ nm \in Plain /\ nm \in Names /\ nm \notin Dotted
  BY AsmAssumption DEF LineOf, Coding, Names
<1>2. k \in Passed /\ src[k].op = "label" /\ src[k].name = nm
  BY DEF Places, LineOf
<1>3. /\ SecondAt(e) \in Machine /\ SecondAt(k) \in Machine
      /\ SecondAt(k).g = trace[2][k].g
  BY <1>1, <1>2, RecordsAre, AtIs DEF SecondAt
<1>4. Eval(SecondAt(e), nm) \in Nat /\ gCode[a].operand = Eval(SecondAt(e), nm)
  BY <1>1 DEF Coding, Operand
<1> HIDE DEF e, nm, d
<1>5. Known(SecondAt(e), nm) /\ gCode[a].operand = Found(SecondAt(e), nm).value
  BY <1>1, <1>3, <1>4, NameIs
<1>6. /\ Known(Now, nm) /\ Known(SecondAt(k), nm) /\ Allowed(nm, d)
      /\ Keeps(Found(SecondAt(e), nm), d) /\ Keeps(Found(SecondAt(k), nm), d)
  BY <1>1, <1>2, <1>5 DEF Kept, d
<1>7. ~Misplaced(SecondAt(k), nm)
  BY <1>2, <1>6 DEF InPlace
<1>8. Found(SecondAt(k), nm).type = "LABEL"
  BY <1>7 DEF Misplaced
<1>9. d.type = "LABEL" /\ d.sub = "NONE"
  BY <1>1, <1>6, <1>8 DEF Keeps, Allowed
<1>10. Found(SecondAt(k), nm).sub = "NONE" /\ Found(SecondAt(e), nm).sub = "NONE"
  BY <1>6, <1>9 DEF Keeps
<1>11. Found(SecondAt(k), nm).value = SecondAt(k).g.pc
  BY <1>7, <1>10 DEF Misplaced
<1>12. d.value = Found(SecondAt(k), nm).value /\ d.value = Found(SecondAt(e), nm).value
  BY <1>6, <1>10 DEF Keeps
<1> QED BY <1>3, <1>5, <1>11, <1>12

-----------------------------------------------------------------------------
(* Where no .SET symbol got a value in another way, a name of data has the *)
(* scratchpad address pass 1 put the data at, from then on.                *)
Addressed ==
  ~over => \A k \in 1 .. Len(src) :
    (src[k].op = "data" /\ src[k].name \in Names /\ (k < Len(src) \/ pass = 2 \/ result)) =>
      /\ Known(Now, src[k].name) /\ Found(Now, src[k].name).sub = "INT"
      /\ Found(Now, src[k].name).value = trace[1][k].g.scr

LEMMA DataGives ==
  ASSUME NEW m \in Machine, NEW ln \in Lines, NEW k, Builds(m, ln, k), k.ok = TRUE,
         ln.op = "data", ln.name \in Names, ~Overwrites(m, ln)
  PROVE  /\ Known(k, ln.name) /\ Found(k, ln.name).sub = "INT"
         /\ Found(k, ln.name).value = m.g.scr
<1>1. k \in Machine /\ BuildsTable(m, ln, k.sym) /\ ln.name # None /\ ln.op \in Defines
  BY LineIs DEF Builds, Defines
<1>2. ~Known(m, ln.name)
  BY <1>1 DEF BuildsTable, Overwrites, Defines
<1>3. Known(k, ln.name)
  <2>1. k.sym = Added(m, ln.name, Gives(m, ln)) /\ Gives(m, ln) \in Definitions
    BY <1>1, <1>2 DEF BuildsTable, IsDot
  <2> QED BY <2>1, AddedIs DEF Known
<1>4. Found(k, ln.name) = Value("INT", m.g.scr)
  BY <1>1, <1>2, <1>3, BuildKeeps DEF Gives
<1> QED BY <1>3, <1>4 DEF Value

LEMMA AddressedStep ==
  ASSUME AsmTypeOK, Recorded, Addressed, AsmNext
  PROVE  Addressed'
<1>0. Len(src) \in Nat /\ Now \in Machine
  BY RecordsAre
<1>1. ASSUME Pass1 PROVE Addressed'
  <2>1. PICK ln \in Lines : Pass1Does(ln)
    BY <1>1, Pass1Is
  <2> DEFINE v == Now'
  <2>2. /\ Len(src') = Len(src) + 1 /\ Builds(Now, ln, v) /\ pass = 1 /\ result = TRUE
        /\ pass' = 1 /\ v.ok = result' /\ over' = (over \/ Overwrites(Now, ln))
        /\ src'[Len(src) + 1] = ln /\ trace'[1][Len(src) + 1].g = Now.g
        /\ \A k \in 1 .. Len(src) : trace'[1][k] = trace[1][k] /\ src'[k] = src[k]
    <3>1. Now'.ok = result' /\ Snap.g = Now.g
      BY DEF Now, Snap
    <3> QED BY <2>1, <3>1 DEF Pass1Does
  <2>3. Addressed' <=> (~over' => \A k \in 1 .. Len(src') :
          (src'[k].op = "data" /\ src'[k].name \in Names /\ (k < Len(src') \/ pass' = 2 \/ result')) =>
            /\ Known(v, src'[k].name) /\ Found(v, src'[k].name).sub = "INT"
            /\ Found(v, src'[k].name).value = trace'[1][k].g.scr)
    BY DEF Addressed, Known, Found
  <2> HIDE DEF v
  <2>4. ASSUME ~over', NEW k \in 1 .. Len(src'), src'[k].op = "data", src'[k].name \in Names,
               k < Len(src') \/ pass' = 2 \/ result'
        PROVE  /\ Known(v, src'[k].name) /\ Found(v, src'[k].name).sub = "INT"
               /\ Found(v, src'[k].name).value = trace'[1][k].g.scr
    <3> DEFINE nm == src'[k].name
    <3>1. CASE k \in 1 .. Len(src)
      <4>1. Known(Now, nm) /\ Found(Now, nm).sub = "INT" /\ Found(Now, nm).value = trace[1][k].g.scr
        BY <2>2, <2>4, <3>1 DEF Addressed
      <4>2. nm \in Names /\ trace'[1][k] = trace[1][k]
        BY <2>2, <2>4, <3>1
      <4> HIDE DEF nm
      <4>3. Known(v, nm) /\ Keeps(Found(Now, nm), Found(v, nm))
        BY <1>0, <2>2, <4>1, <4>2, FirstKeeps
      <4>4. Known(v, nm) /\ Found(v, nm).sub = "INT" /\ Found(v, nm).value = trace'[1][k].g.scr
        BY <4>1, <4>2, <4>3 DEF Keeps
      <4> QED BY <4>4 DEF nm
    <3>2. CASE k = Len(src) + 1
      <4>1. src'[k] = ln /\ ~Overwrites(Now, ln) /\ v.ok = TRUE /\ trace'[1][k].g.scr = Now.g.scr
        <5>1. result' = TRUE
          BY <1>0, <2>2, <2>4, <3>2 DEF AsmTypeOK
        <5> QED BY <2>2, <2>4, <3>2, <5>1
      <4> QED BY <1>0, <2>2, <2>4, <4>1, DataGives
    <3> QED BY <1>0, <2>2, <3>1, <3>2
  <2> QED BY <2>3, <2>4
<1>2. ASSUME Rewind PROVE Addressed'
  <2>1. src' = src /\ trace' = trace /\ sym' = sym /\ over' = over /\ result = TRUE
    BY <1>2, RewindIs
  <2> QED BY <2>1 DEF Addressed, Known, Found, Now
<1>3. ASSUME Pass2 PROVE Addressed'
  <2>1. Pass2Does(src[at])
    BY <1>3, Pass2Is
  <2> DEFINE v == Now'
  <2>2. /\ src' = src /\ trace'[1] = trace[1] /\ over' = over /\ pass = 2
        /\ src[at] \in Lines /\ Assembles(Now, src[at], v)
    BY <2>1 DEF Pass2Does
  <2>3. Addressed' <=> (~over' => \A k \in 1 .. Len(src') :
          (src'[k].op = "data" /\ src'[k].name \in Names /\ (k < Len(src') \/ pass' = 2 \/ result')) =>
            /\ Known(v, src'[k].name) /\ Found(v, src'[k].name).sub = "INT"
            /\ Found(v, src'[k].name).value = trace'[1][k].g.scr)
    BY DEF Addressed, Known, Found
  <2> HIDE DEF v
  <2>4. ASSUME ~over, NEW k \in 1 .. Len(src), src[k].op = "data", src[k].name \in Names
        PROVE  /\ Known(v, src[k].name) /\ Found(v, src[k].name).sub = "INT"
               /\ Found(v, src[k].name).value = trace[1][k].g.scr
    <3> DEFINE nm == src[k].name
    <3>1. /\ Known(Now, nm) /\ Found(Now, nm).sub = "INT" /\ Found(Now, nm).value = trace[1][k].g.scr
          /\ nm \in Names
      BY <2>2, <2>4 DEF Addressed
    <3> HIDE DEF nm
    <3>2. Known(v, nm) /\ Keeps(Found(Now, nm), Found(v, nm))
      BY <1>0, <2>2, <3>1, SecondKeeps
    <3>3. Known(v, nm) /\ Found(v, nm).sub = "INT" /\ Found(v, nm).value = trace[1][k].g.scr
      BY <3>1, <3>2 DEF Keeps
    <3> QED BY <3>3 DEF nm
  <2> QED BY <2>2, <2>3, <2>4
<1> QED BY <1>1, <1>2, <1>3 DEF AsmNext

LEMMA DataLandHere ==
  ASSUME AsmTypeOK, Recorded, Kept, Coding, Addressed, PassesAgree
  PROVE  DataLand
<1> SUFFICES ASSUME ~over, NEW a \in Coded, LineOf(a).op = "load",
                    NEW k \in Datum(LineOf(a).arg), k \in Passed
             PROVE  gCode[a].operand = trace[2][k].g.scr % BYTE
  <2>1. Len(trace[2]) \in Nat /\ Len(src) \in Nat /\ src \in Seq(Lines)
    BY RecordsAre DEF AsmTypeOK
  <2>3. DOMAIN src = 1 .. Len(src)
    BY <2>1
  <2> QED BY <2>1, <2>3 DEF DataLand, Passed, Datum
<1> DEFINE e == gCode[a].line
           nm == src[e].arg
           d == Found(Now, nm)
<1>0. Len(trace[2]) \in Nat /\ Len(src) \in Nat /\ Len(trace[2]) <= Len(src)
  BY RecordsAre
<1>1. e \in Passed /\ src[e].op = "load" /\ e \in 1 .. Len(src) /\ k \in 1 .. Len(src)
  BY <1>0 DEF LineOf, Coding, Passed
<1>2. k \in Passed /\ src[k].op = "data" /\ src[k].name = nm
  BY DEF Datum, LineOf
<1>3. nm \in Names
  <2>1. src[e] \in Lines /\ src[k] \in Lines
    BY <1>1, RecordsAre
  <2>2. nm # None /\ src[k].name \in Names \union {None}
    BY <1>1, <2>1, LineIs DEF Valued
  <2> QED BY <1>2, <2>2
<1>4. SecondAt(e) \in Machine
  BY <1>1, RecordsAre, AtIs DEF SecondAt
<1>5. Eval(SecondAt(e), nm) \in Nat /\ gCode[a].operand = Eval(SecondAt(e), nm) % BYTE
  BY <1>1 DEF Coding, Operand
<1>6. pass = 2
  <2>1. pass = 1 => Passed = {}
    <3>1. Len(<<>>) = 0
      OBVIOUS
    <3> QED BY <3>1 DEF Recorded, Passed
  <2> QED BY <1>2, <2>1 DEF AsmTypeOK
<1>7. Known(Now, nm) /\ d.sub = "INT" /\ d.value = trace[1][k].g.scr
  BY <1>1, <1>2, <1>3, <1>6 DEF Addressed
<1>8. trace[1][k].g.scr = trace[2][k].g.scr
  BY <1>2 DEF PassesAgree, Agrees, Passed
<1> HIDE DEF e, nm, d
<1>9. Eval(SecondAt(e), nm) = Found(SecondAt(e), nm).value
  BY <1>3, <1>4, <1>5, NameIs
<1>10. Keeps(Found(SecondAt(e), nm), d)
  BY <1>1, <1>3, <1>7 DEF Kept, d
<1>11. d.value = Found(SecondAt(e), nm).value
  BY <1>7, <1>10 DEF Keeps
<1> QED BY <1>5, <1>7, <1>8, <1>9, <1>11

-----------------------------------------------------------------------------
(* The greatest of some line numbers.                                      *)
LEMMA MostIs ==
  ASSUME NEW S \in SUBSET Nat, NEW k \in S, \A j \in S : j <= k
  PROVE  Most(S) = k
<1>1. Most(S) \in S /\ \A j \in S : j <= Most(S)
  BY DEF Most
<1>2. Most(S) <= k /\ k <= Most(S) /\ Most(S) \in Nat /\ k \in Nat
  BY <1>1
<1> QED BY <1>2

LEMMA MostIn ==
  ASSUME NEW N \in Nat, NEW S \in SUBSET (1 .. N), S # {}
  PROVE  Most(S) \in S
<1> DEFINE D == {N - k : k \in S}
<1>1. D \in SUBSET Nat /\ D # {}
  <2>1. \A k \in S : k \in 1 .. N
    OBVIOUS
  <2>2. \A k \in S : N - k \in Nat
    BY <2>1
  <2> QED BY <2>2
<1>2. PICK d \in D : \A e \in D : d <= e
  <2> HIDE DEF D
  <2> QED BY <1>1, LeastExists
<1>3. PICK k \in S : d = N - k
  OBVIOUS
<1>4. \A j \in S : j <= k
  <2> TAKE j \in S
  <2>1. N - j \in D
    OBVIOUS
  <2>2. N - k <= N - j
    BY <1>2, <1>3, <2>1
  <2>3. j \in 1 .. N /\ k \in 1 .. N
    OBVIOUS
  <2> QED BY <2>2, <2>3
<1> QED BY <1>3, <1>4, MostIs

(* A line's effect on a dotted label: only its own places move it.         *)
LEMMA DottedBuilt ==
  ASSUME NEW m \in Machine, NEW ln \in Lines, NEW k, Builds(m, ln, k), k.ok = TRUE,
         NEW nm \in Dotted, IsDot(k, nm)
  PROVE  /\ ln.op = "label" /\ ln.name = nm => Found(k, nm).value = m.g.pc
         /\ ~(ln.op = "label" /\ ln.name = nm) => IsDot(m, nm) /\ Found(k, nm) = Found(m, nm)
<1>1. k \in Machine /\ BuildsTable(m, ln, k.sym) /\ nm \in Names /\ nm # None
  BY AsmAssumption DEF Builds, Names
<1>2. CASE nm # ln.name
  <2>1. k.sym[nm] = m.sym[nm]
    BY <1>1, <1>2, BuildKeeps
  <2> QED BY <1>2, <2>1 DEF IsDot, Known, Found
<1>3. CASE nm = ln.name /\ ~Known(m, nm)
  <2>1. nm = ln.name /\ ln.op \in Defines /\ Found(k, nm) = Gives(m, ln)
    BY <1>1, <1>3, BuildKeeps DEF IsDot
  <2>2. ln.op = "label"
    BY <2>1 DEF IsDot, Gives, Value
  <2> QED BY <2>1, <2>2 DEF Gives, Label
<1>4. CASE nm = ln.name /\ Known(m, nm)
  <2>1. IsDot(m, nm) /\ Found(m, nm) \in Definitions
    BY <1>1, <1>4, BuildKeeps, FoundIs DEF IsDot, Keeps
  <2>2. CASE k.sym = m.sym /\ (ln.op \in Defines => ln.name = None \/ ln.op = "ds")
    <3>1. ln.op # "label"
      BY <1>1, <1>4, <2>2 DEF Defines
    <3> QED BY <2>1, <2>2, <3>1 DEF Known, Found
  <2>3. CASE /\ ln.op \in Defines /\ Gives(m, ln) \in Definitions /\ k.sym = Added(m, nm, Gives(m, ln))
             /\ ln.op # "constant" => Found(m, nm).sub = "SET"
    <3>1. ln.op = "constant"
      BY <2>1, <2>3 DEF IsDot
    <3>2. Found(k, nm) = Revalued(Found(m, nm), Gives(m, ln))
      BY <1>1, <1>4, <2>3, AddedIs DEF Found
    <3> QED BY <2>1, <3>1, <3>2 DEF Revalued, IsDot
  <2>4. CASE ln.op = "label" /\ k.sym = Moved(m, nm, m.g.pc)
    <3>1. Found(k, nm) = [Found(m, nm) EXCEPT !.value = m.g.pc]
      BY <1>1, <1>4, <2>4, MovedIs, CountersIs DEF Found
    <3> QED BY <1>4, <2>1, <2>4, <3>1 DEF Definitions
  <2> QED BY <1>1, <1>4, <2>2, <2>3, <2>4 DEF BuildsTable
<1> QED BY <1>2, <1>3, <1>4

LEMMA DottedAssembled ==
  ASSUME NEW m \in Machine, NEW ln \in Lines, NEW k, Assembles(m, ln, k), k.ok = TRUE,
         NEW nm \in Dotted, IsDot(m, nm)
  PROVE  /\ ln.op = "label" /\ ln.name = nm => Found(k, nm).value = m.g.pc
         /\ ~(ln.op = "label" /\ ln.name = nm) => Found(k, nm) = Found(m, nm)
<1>1. /\ k \in Machine /\ AssemblesTable(m, ln, k.sym) /\ nm \in Names
      /\ Known(m, nm) /\ Found(m, nm).sub = "DOT"
  BY DEF Assembles, Names, IsDot
<1>2. CASE nm # ln.name \/ ln.op \notin {"label", "set"}
  <2>1. k.sym[nm] = m.sym[nm]
    BY <1>1, <1>2, AssembleKeeps
  <2> QED BY <1>2, <2>1 DEF Found
<1>3. CASE nm = ln.name /\ ln.op = "set"
  BY <1>1, <1>3 DEF AssemblesTable, Found
<1>4. CASE nm = ln.name /\ ln.op = "label"
  <2>1. k.sym = Moved(m, nm, m.g.pc)
    BY <1>1, <1>4 DEF AssemblesTable
  <2>2. Found(k, nm) = [Found(m, nm) EXCEPT !.value = m.g.pc] /\ Found(m, nm) \in Definitions
    BY <1>1, <2>1, MovedIs, FoundIs, CountersIs DEF Found
  <2> QED BY <1>4, <2>2 DEF Definitions
<1> QED BY <1>2, <1>3, <1>4

-----------------------------------------------------------------------------
(* Where a dotted label is when pass 2 comes to line j: at its last place  *)
(* before, or where pass 1 left it.                                        *)
Target(nm, j) ==
  IF Places(nm, 1 .. j - 1) # {} THEN trace[2][Most(Places(nm, 1 .. j - 1))].g.pc
  ELSE trace[1][Most(Places(nm, 1 .. Len(src)))].g.pc
Moving ==
  \A nm \in Dotted : IsDot(Now, nm) =>
    /\ pass = 1 /\ result =>
         /\ Places(nm, 1 .. Len(src)) # {}
         /\ Found(Now, nm).value = trace[1][Most(Places(nm, 1 .. Len(src)))].g.pc
    /\ \A j \in Passed : Found(SecondAt(j), nm).value = Target(nm, j)
    /\ pass = 2 /\ result => Found(Now, nm).value = Target(nm, at)

LEMMA MovingStep ==
  ASSUME AsmTypeOK, Recorded, Moving, AsmNext
  PROVE  Moving'
<1>0. Len(src) \in Nat /\ Now \in Machine /\ Now.g = g /\ Len(trace[2]) \in Nat
  BY RecordsAre
<1> DEFINE P(nm, S) == {k \in S : src'[k].op = "label" /\ src'[k].name = nm}
           T(nm, j) == IF P(nm, 1 .. j - 1) # {} THEN trace'[2][Most(P(nm, 1 .. j - 1))].g.pc
                       ELSE trace'[1][Most(P(nm, 1 .. Len(src')))].g.pc
           S(k) == At(trace'[2][k])
           v == Now'
<1>a. Moving' <=>
        \A nm \in Dotted : IsDot(v, nm) =>
          /\ pass' = 1 /\ result' =>
               /\ P(nm, 1 .. Len(src')) # {}
               /\ Found(v, nm).value = trace'[1][Most(P(nm, 1 .. Len(src')))].g.pc
          /\ \A j \in Passed' : Found(S(j), nm).value = T(nm, j)
          /\ pass' = 2 /\ result' => Found(v, nm).value = T(nm, at')
  BY DEF Moving, IsDot, Known, Found, SecondAt, At, Target, Places, Most
<1>b. v.ok = result' /\ v.sym = sym'
  BY DEF Now
<1> HIDE DEF v
<1>1. ASSUME Pass1 PROVE Moving'
  <2>1. PICK ln \in Lines : Pass1Does(ln)
    BY <1>1, Pass1Is
  <2>2. /\ Len(src') = Len(src) + 1 /\ Builds(Now, ln, v) /\ pass = 1 /\ result = TRUE
        /\ pass' = 1 /\ src'[Len(src) + 1] = ln /\ trace'[1][Len(src) + 1].g = g
        /\ \A k \in 1 .. Len(src) : trace'[1][k] = trace[1][k] /\ src'[k] = src[k]
        /\ Passed' = {}
    <3>1. Snap.g = g /\ Len(<<>>) = 0
      BY DEF Snap
    <3>2. trace'[2] = <<>>
      BY <2>1 DEF Pass1Does, Recorded
    <3> QED BY <2>1, <3>1, <3>2 DEF Pass1Does, v, Passed
  <2> HIDE DEF P, T, S
  <2>3. ASSUME NEW nm \in Dotted, IsDot(v, nm), result'
        PROVE  /\ P(nm, 1 .. Len(src')) # {}
               /\ Found(v, nm).value = trace'[1][Most(P(nm, 1 .. Len(src')))].g.pc
    <3>1. v.ok = TRUE
      BY <1>b, <2>3, <2>1 DEF Pass1Does, Machine, v
    <3> DEFINE old == Places(nm, 1 .. Len(src))
               new == P(nm, 1 .. Len(src'))
    <3>2. CASE ln.op = "label" /\ ln.name = nm
      <4>1. Len(src) + 1 \in new /\ new \in SUBSET Nat /\ \A j \in new : j <= Len(src) + 1
        BY <1>0, <2>2, <3>2 DEF P
      <4>2. Most(new) = Len(src) + 1
        <5> HIDE DEF new
        <5> QED BY <4>1, MostIs
      <4>3. Found(v, nm).value = Now.g.pc
        <5>1. Now \in Machine /\ Builds(Now, ln, v) /\ v.ok = TRUE /\ IsDot(v, nm)
          BY <1>0, <2>2, <2>3, <3>1
        <5>2. /\ ln.op = "label" /\ ln.name = nm => Found(v, nm).value = Now.g.pc
              /\ ~(ln.op = "label" /\ ln.name = nm) => IsDot(Now, nm) /\ Found(v, nm) = Found(Now, nm)
          BY <5>1, DottedBuilt
        <5> QED BY <3>2, <5>2
      <4> QED BY <1>0, <2>2, <4>1, <4>2, <4>3
    <3>3. CASE ~(ln.op = "label" /\ ln.name = nm)
      <4>1. new = old
        BY <1>0, <2>2, <3>3 DEF P, Places
      <4>2. IsDot(Now, nm) /\ Found(v, nm) = Found(Now, nm)
        BY <1>0, <2>2, <2>3, <3>1, <3>3, DottedBuilt
      <4>3. old # {} /\ Found(Now, nm).value = trace[1][Most(old)].g.pc
        BY <2>2, <4>2 DEF Moving
      <4>4. old \in SUBSET (1 .. Len(src))
        BY DEF Places
      <4> HIDE DEF old, new
      <4>5. Most(old) \in 1 .. Len(src)
        BY <1>0, <4>3, <4>4, MostIn
      <4>6. Found(v, nm).value = trace'[1][Most(new)].g.pc /\ new # {}
        BY <2>2, <4>1, <4>2, <4>3, <4>5
      <4> QED BY <4>6 DEF new
    <3> QED BY <3>2, <3>3
  <2> QED BY <1>a, <2>2, <2>3
<1>2. ASSUME Rewind PROVE Moving'
  <2>1. /\ pass = 1 /\ pass' = 2 /\ at' = 1 /\ result = TRUE
        /\ src' = src /\ trace' = trace /\ sym' = sym /\ trace[2] = <<>>
    BY <1>2, RewindIs
  <2>2. Passed' = {}
    <3>1. Len(<<>>) = 0
      OBVIOUS
    <3> QED BY <2>1, <3>1 DEF Passed
  <2>3. \A nm : IsDot(v, nm) = IsDot(Now, nm) /\ Found(v, nm) = Found(Now, nm)
    BY <1>b, <2>1 DEF Found, Now, IsDot, Known
  <2>4. \A nm : T(nm, 1) = trace[1][Most(Places(nm, 1 .. Len(src)))].g.pc
    <3>1. 1 .. 1 - 1 = {}
      OBVIOUS
    <3> QED BY <2>1, <3>1 DEF Places
  <2> HIDE DEF P, T, S
  <2> QED BY <1>a, <2>1, <2>2, <2>3, <2>4 DEF Moving
<1>3. ASSUME Pass2 PROVE Moving'
  <2> DEFINE ln == src[at]
  <2>1. Pass2Does(ln)
    BY <1>3, Pass2Is
  <2>2. /\ pass = 2 /\ pass' = 2 /\ result = TRUE /\ src' = src /\ at' = at + 1
        /\ ln \in Lines /\ Assembles(Now, ln, v) /\ v \in Machine
        /\ trace'[1] = trace[1] /\ trace'[2][at].g = g
        /\ \A k \in 1 .. at - 1 : trace'[2][k] = trace[2][k]
    <3>1. Snap.g = g
      BY DEF Snap
    <3> QED BY <2>1, <3>1 DEF Pass2Does, v
  <2>3. /\ Passed = 1 .. at - 1 /\ Passed' = 1 .. at /\ at \in Nat
        /\ \A k \in 1 .. at - 1 : S(k) = SecondAt(k)
        /\ S(at) = Now
    BY <2>1, PassedAt
  <2>4. ASSUME NEW nm, NEW j \in 1 .. at PROVE T(nm, j) = Target(nm, j)
    <3> DEFINE B == Places(nm, 1 .. j - 1)
               A == Places(nm, 1 .. Len(src))
    <3>1. P(nm, 1 .. j - 1) = B /\ P(nm, 1 .. Len(src')) = A
      BY <2>2 DEF Places
    <3>2. B \in SUBSET (1 .. j - 1) /\ j - 1 \in Nat
      BY <2>3 DEF Places
    <3>3. T(nm, j) = IF B # {} THEN trace'[2][Most(B)].g.pc ELSE trace[1][Most(A)].g.pc
      BY <2>2, <3>1
    <3>4. Target(nm, j) = IF B # {} THEN trace[2][Most(B)].g.pc ELSE trace[1][Most(A)].g.pc
      BY DEF Target
    <3> HIDE DEF A, B, T
    <3>5. B # {} => Most(B) \in 1 .. at - 1
      <4>1. B # {} => Most(B) \in 1 .. j - 1
        BY <3>2, MostIn
      <4> QED BY <2>3, <4>1
    <3> QED BY <2>2, <3>3, <3>4, <3>5
  <2>5. ASSUME NEW nm PROVE
          /\ ~(ln.op = "label" /\ ln.name = nm) => T(nm, at + 1) = T(nm, at)
          /\ ln.op = "label" /\ ln.name = nm => T(nm, at + 1) = g.pc
    <3> DEFINE B == P(nm, 1 .. at - 1)
               C == P(nm, 1 .. at)
    <3>1. (at + 1) - 1 = at
      BY <2>3
    <3>2. CASE ~(ln.op = "label" /\ ln.name = nm)
      <4>1. C = B
        BY <2>2, <2>3, <3>2
      <4> HIDE DEF P
      <4> QED BY <3>1, <3>2, <4>1
    <3>3. CASE ln.op = "label" /\ ln.name = nm
      <4>1. at \in C /\ C \in SUBSET Nat /\ \A j \in C : j <= at
        BY <2>1, <2>2, <2>3, <3>3 DEF Pass2Does
      <4>2. T(nm, at + 1) = IF C # {} THEN trace'[2][Most(C)].g.pc
                            ELSE trace'[1][Most(P(nm, 1 .. Len(src')))].g.pc
        BY <3>1
      <4> HIDE DEF P, T, C
      <4>3. Most(C) = at
        BY <4>1, MostIs
      <4> QED BY <2>2, <3>3, <4>1, <4>2, <4>3
    <3> QED BY <3>2, <3>3
  <2> HIDE DEF P, T, S, ln
  <2>6. ASSUME NEW nm \in Dotted, IsDot(v, nm)
        PROVE  /\ \A j \in 1 .. at : Found(S(j), nm).value = T(nm, j)
               /\ result' => Found(v, nm).value = T(nm, at')
    <3>1. IsDot(Now, nm)
      BY <1>0, <2>2, <2>6, SecondKeeps DEF IsDot, Keeps, Names
    <3>2. /\ \A j \in 1 .. at - 1 : Found(SecondAt(j), nm).value = Target(nm, j)
          /\ Found(Now, nm).value = Target(nm, at)
      BY <2>2, <2>3, <3>1 DEF Moving
    <3>3. at \in 1 .. at
      BY <2>1 DEF Pass2Does
    <3>4. ASSUME NEW j \in 1 .. at PROVE Found(S(j), nm).value = T(nm, j)
      <4>1. CASE j \in 1 .. at - 1
        BY <2>3, <2>4, <3>2, <4>1
      <4>2. CASE j = at
        BY <2>3, <2>4, <3>2, <4>2
      <4> QED BY <2>3, <4>1, <4>2
    <3>5. ASSUME result' PROVE Found(v, nm).value = T(nm, at + 1)
      <4>1. v.ok = TRUE
        BY <1>b, <2>2, <3>5 DEF Machine
      <4>2. /\ ln.op = "label" /\ ln.name = nm => Found(v, nm).value = Now.g.pc
            /\ ~(ln.op = "label" /\ ln.name = nm) => Found(v, nm) = Found(Now, nm)
        BY <1>0, <2>2, <3>1, <4>1, DottedAssembled
      <4> QED BY <1>0, <2>4, <2>5, <3>2, <3>3, <4>2
    <3> QED BY <2>2, <3>4, <3>5
  <2> QED BY <1>a, <2>2, <2>3, <2>6
<1> QED BY <1>1, <1>2, <1>3 DEF AsmNext

LEMMA DottedLandHere ==
  ASSUME AsmTypeOK, Recorded, Kept, Coding, Moving
  PROVE  DottedLand
<1>0. Len(trace[2]) \in Nat /\ Len(src) \in Nat /\ Len(trace[2]) <= Len(src) /\ DOMAIN src = 1 .. Len(src)
  <2>1. src \in Seq(Lines)
    BY DEF AsmTypeOK
  <2> QED BY <2>1, RecordsAre
<1> SUFFICES ASSUME NEW a \in Coded, LineOf(a).op = "jump", LineOf(a).arg \in Dotted,
                    Found(Now, LineOf(a).arg).type = "LABEL"
             PROVE  gCode[a].operand =
                      IF Places(LineOf(a).arg, 1 .. gCode[a].line) # {}
                      THEN trace[2][Most(Places(LineOf(a).arg, 1 .. gCode[a].line))].g.pc
                      ELSE trace[1][Most(Places(LineOf(a).arg, 1 .. Len(src)))].g.pc
  BY <1>0 DEF DottedLand
<1> DEFINE e == gCode[a].line
           nm == src[e].arg
<1>1. /\ e \in Passed /\ src[e].op = "jump" /\ e \in 1 .. Len(src) /\ nm \in Dotted /\ nm \in Names
      /\ Found(Now, nm).type = "LABEL"
  BY <1>0 DEF LineOf, Coding, Passed, Names
<1>2. SecondAt(e) \in Machine
  BY <1>1, RecordsAre, AtIs DEF SecondAt
<1>3. Eval(SecondAt(e), nm) \in Nat /\ gCode[a].operand = Eval(SecondAt(e), nm)
  BY <1>1 DEF Coding, Operand
<1>4. Places(nm, 1 .. e) = Places(nm, 1 .. e - 1)
  <2>1. e \in Nat
    BY <1>1
  <2> HIDE DEF e
  <2> QED BY <1>1, <2>1 DEF Places
<1> HIDE DEF e, nm
<1>5. Known(SecondAt(e), nm) /\ gCode[a].operand = Found(SecondAt(e), nm).value
  BY <1>1, <1>2, <1>3, NameIs
<1>6. IsDot(Now, nm)
  BY <1>1, <1>5 DEF Kept, Allowed, IsDot
<1>7. gCode[a].operand = Target(nm, e)
  BY <1>1, <1>5, <1>6 DEF Moving
<1>8. gCode[a].operand = IF Places(nm, 1 .. e) # {} THEN trace[2][Most(Places(nm, 1 .. e))].g.pc
                         ELSE trace[1][Most(Places(nm, 1 .. Len(src)))].g.pc
  BY <1>4, <1>7 DEF Target
<1> QED BY <1>8 DEF e, nm, LineOf

-----------------------------------------------------------------------------
AsmInv ==
  /\ AsmTypeOK /\ Recorded
  /\ Chained /\ Unbroken /\ Kept /\ Following /\ PassesAgree
  /\ Coding /\ InPlace /\ Addressed /\ Moving

LEMMA AsmInitInv == AsmInit => AsmInv
<1> SUFFICES ASSUME AsmInit PROVE AsmInv
  OBVIOUS
<1>1. /\ pass = 1 /\ at = 1 /\ src = <<>> /\ g = Reset(<<>>) /\ sym = [nm \in Names |-> <<>>]
      /\ gCode = [a \in 0 .. CODESIZE - 1 |-> None] /\ result = TRUE /\ over = FALSE
      /\ trace = [p \in 1 .. 2 |-> <<>>] /\ trace[1] = <<>> /\ trace[2] = <<>>
  BY DEF AsmInit
<1>2. /\ Len(<<>>) = 0 /\ Len(src) = 0 /\ Passed = {} /\ 1 .. Len(src) = {}
  BY <1>1 DEF Passed
<1>3. AsmTypeOK
  <2>1. /\ CODERANGE \in Nat /\ SCRSIZE \in Nat /\ MAXLINES \in Nat /\ MAXESG \in Nat
    BY AsmAssumption
  <2>2. g \in Counters /\ Len(g.esg) <= MAXESG
    BY <1>1, <2>1 DEF Reset, Counters
  <2>3. sym \in Tables
    BY <1>1 DEF Tables
  <2>4. gCode \in [0 .. CODESIZE - 1 -> [line : 1 .. MAXLINES, operand : Nat] \union {None}]
    BY <1>1
  <2>5. trace \in [1 .. 2 -> Seq(Snaps)]
    BY <1>1
  <2>6. pass \in 1 .. 2 /\ at \in 1 .. MAXLINES + 1 /\ src \in Seq(Lines)
    BY <1>1, <2>1
  <2>7. result \in BOOLEAN /\ over \in BOOLEAN
    BY <1>1
  <2> QED BY <2>2, <2>3, <2>4, <2>5, <2>6, <2>7 DEF AsmTypeOK, Snaps
<1>4. Recorded
  <2>1. MAXLINES \in Nat
    BY AsmAssumption
  <2> QED BY <1>1, <1>2, <2>1 DEF Recorded
<1>5. \A nm \in Names : ~Known(Now, nm)
  BY <1>1 DEF Known, Now
<1>6. Chained
  <2>1. Now.g = g
    BY DEF Now
  <2>2. 1 .. Len(src) - 1 = {}
    BY <1>2
  <2> QED BY <1>1, <1>5, <2>1, <2>2 DEF Chained, Fresh
<1>7. Unbroken /\ Kept
  BY <1>2, <1>5 DEF Unbroken, Kept
<1>8. Following /\ PassesAgree
  <2>1. 1 .. Len(trace[2]) = {}
    BY <1>1, <1>2
  <2> QED BY <1>1, <2>1 DEF Following, PassesAgree
<1>9. Coding /\ InPlace /\ Addressed
  BY <1>1, <1>2 DEF Coding, InPlace, Addressed, Coded
<1>10. Moving
  BY <1>5 DEF Moving, IsDot, Names
<1> QED BY <1>3, <1>4, <1>6, <1>7, <1>8, <1>9, <1>10 DEF AsmInv

LEMMA AsmStutterInv == AsmInv /\ UNCHANGED asmVars => AsmInv'
<1> SUFFICES ASSUME AsmInv, UNCHANGED asmVars PROVE AsmInv'
  OBVIOUS
<1> USE DEF asmVars
<1>1. AsmTypeOK'
  BY DEF AsmInv, AsmTypeOK
<1>2. Recorded'
  BY DEF AsmInv, Recorded
<1>3. Now' = Now /\ Passed' = Passed
  BY DEF Now, Passed
<1>4. \A k : FirstAt(k)' = FirstAt(k) /\ SecondAt(k)' = SecondAt(k)
  BY DEF FirstAt, SecondAt, At
<1>5. Chained' /\ Unbroken'
  BY <1>3, <1>4 DEF AsmInv, Chained, Unbroken, Fresh
<1>6. Kept'
  BY <1>3, <1>4 DEF AsmInv, Kept
<1>7. Following' /\ PassesAgree'
  BY <1>3, <1>4 DEF AsmInv, Following, PassesAgree
<1>8. Coding' /\ InPlace'
  BY <1>3, <1>4 DEF AsmInv, Coding, InPlace, Coded
<1>9. Addressed'
  BY <1>3 DEF AsmInv, Addressed
<1>10. Moving'
  <2>1. \A nm, S : Places(nm, S)' = Places(nm, S)
    BY DEF Places
  <2>2. \A nm, j : Target(nm, j)' = Target(nm, j)
    BY DEF Target, Places, Most
  <2>3. SUFFICES ASSUME NEW nm \in Dotted, IsDot(Now', nm)
        PROVE  /\ pass' = 1 /\ result' =>
                    /\ Places(nm, 1 .. Len(src))' # {}
                    /\ Found(Now', nm).value = trace'[1][Most(Places(nm, 1 .. Len(src))')].g.pc
               /\ \A j \in Passed' : Found(SecondAt(j)', nm).value = Target(nm, j)'
               /\ pass' = 2 /\ result' => Found(Now', nm).value = Target(nm, at)'
    BY DEF Moving, IsDot, Known, Found, Most
  <2>4. /\ pass' = pass /\ result' = result /\ trace' = trace
        /\ Places(nm, 1 .. Len(src))' = Places(nm, 1 .. Len(src)) /\ Target(nm, at)' = Target(nm, at)
    BY DEF Target, Places, Most
  <2> QED BY <1>3, <1>4, <2>2, <2>3, <2>4 DEF AsmInv, Moving
<1> QED BY <1>1, <1>2, <1>5, <1>6, <1>7, <1>8, <1>9, <1>10 DEF AsmInv

(* Whatever the lines, the sizes and the bounds are, both passes keep the  *)
(* inductive invariant.                                                    *)
THEOREM AsmInvariant == AsmSpec => []AsmInv
<1>1. AsmInv /\ AsmNext => AsmInv'
  <2> SUFFICES ASSUME AsmInv, AsmNext PROVE AsmInv'
    OBVIOUS
  <2>1. AsmTypeOK' /\ Recorded'
    BY AsmTypeStep DEF AsmInv
  <2>2. Chained' /\ Unbroken' /\ Kept'
    BY ChainedStep, UnbrokenStep, KeptStep DEF AsmInv
  <2>3. Following' /\ PassesAgree'
    BY FollowingStep, PassesAgreeStep DEF AsmInv
  <2>4. Coding' /\ InPlace'
    BY CodingStep, InPlaceStep DEF AsmInv
  <2>5. Addressed' /\ Moving'
    BY AddressedStep, MovingStep DEF AsmInv
  <2> QED BY <2>1, <2>2, <2>3, <2>4, <2>5 DEF AsmInv
<1>2. AsmInv /\ [AsmNext]_asmVars => AsmInv'
  BY <1>1, AsmStutterInv
<1> QED BY <1>2, AsmInitInv, PTL DEF AsmSpec

(* The counters, the symbol table, the code and the records of the passes  *)
(* keep their types: no line takes an address below zero, and the segments *)
(* open in either pass are no more than gESG has room for (pbParser.c).    *)
THEOREM AsmTyped == AsmSpec => []AsmTypeOK
<1>1. AsmInv => AsmTypeOK
  BY DEF AsmInv
<1> QED BY <1>1, AsmInvariant, PTL

(* Pass 2 of pbParser.c comes to every line with the code address, the     *)
(* scratchpad address, the condition and the values pass 1 came to it      *)
(* with, for every source that gives .SET symbols values by .SET only.     *)
THEOREM PassesAlwaysAgree == AsmSpec => []PassesAgree
<1>1. AsmInv => PassesAgree
  BY DEF AsmInv
<1> QED BY <1>1, AsmInvariant, PTL

(* Every jump to a label that the assembler puts into the code lands at    *)
(* the address pass 2 came to the label with.                              *)
THEOREM JumpsAlwaysLand == AsmSpec => []JumpsLand
<1>1. AsmInv => JumpsLand
  BY JumpsLandHere DEF AsmInv
<1> QED BY <1>1, AsmInvariant, PTL

(* Every jump to a dotted label lands at its nearest place before, or else *)
(* at its last place.                                                      *)
THEOREM DottedAlwaysLand == AsmSpec => []DottedLand
<1>1. AsmInv => DottedLand
  BY DottedLandHere DEF AsmInv
<1> QED BY <1>1, AsmInvariant, PTL

(* Every operand that names data is the scratchpad address of the data.    *)
THEOREM DataAlwaysLands == AsmSpec => []DataLand
<1>1. AsmInv => DataLand
  BY DataLandHere DEF AsmInv
<1> QED BY <1>1, AsmInvariant, PTL
=============================================================================
