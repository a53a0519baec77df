------------------------------- MODULE PbConv -------------------------------
(***************************************************************************)
(* How the parameters of a function are divided between registers and      *)
(* stack.  Three pieces of code decide it, each with a loop and a counter  *)
(* of its own, and never compare notes:                                    *)
(*   reg_parm    (main.c) called by SDCC for each parameter in order: the  *)
(*               number in RECEIVE and SEND comes from here                *)
(*   processNew  (util.cc) when the function is generated: the size of the *)
(*               stack arguments and VAR_REG_START come from here          *)
(*   Call        (gen.cc) when it is called: the registers left alone when *)
(*               live values are saved come from here                      *)
(* A parameter is its size.  One step of the model is one iteration of one *)
(* of the loops.                                                           *)
(***************************************************************************)
EXTENDS Integers, Sequences

CONSTANTS
  ARG_REG_CNT,  \* registers that carry arguments (ralloc.h)
  ParamLists    \* the lists of parameters a function may have

ASSUME ConvAssumption ==
  /\ ARG_REG_CNT \in Nat \ {0}
  /\ ParamLists \subseteq Seq(Nat \ {0})

VARIABLES
  main,          \* the function at hand is named main
  args,          \* its parameters
  phase, pos,    \* which loop runs, and the parameter it is at
  regParmFlg,    \* reg_parm: registers given away
  argreg,        \* argreg[k]: what reg_parm returned for parameter k
  isMain, argumentCnt, registerSize, stackSize,  \* class Function
  placed,        \* placed[k]: where processNew put k, register + 1 or 0
  argcnt         \* Call

convVars == <<main, args, phase, pos, regParmFlg, argreg, isMain,
              argumentCnt, registerSize, stackSize, placed, argcnt>>
function == <<isMain, argumentCnt, registerSize, stackSize, placed>>

ConvInit ==
  /\ main = FALSE /\ args = <<>> /\ phase = "done" /\ pos = 1
  /\ regParmFlg = 0 /\ argreg = <<>>
  /\ isMain = FALSE /\ argumentCnt = 0 /\ registerSize = 0 /\ stackSize = 0
  /\ placed = <<>> /\ argcnt = 0

(* SDCC meets the declaration of a function: reset_regparms.               *)
Declare(m, as) ==
  /\ phase = "done"
  /\ phase' = "parm" /\ pos' = 1
  /\ main' = m /\ args' = as
  /\ regParmFlg' = 0 /\ argreg' = <<>>
  /\ UNCHANGED <<function, argcnt>>

Size == args[pos]
More == pos <= Len(args)

reg_parmSpilling ==  \* a slip: what does not fit leaves the registers free
  /\ phase = "parm" /\ More
  /\ pos' = pos + 1
  /\ IF Size > ARG_REG_CNT - regParmFlg
     THEN argreg' = Append(argreg, 0) /\ UNCHANGED regParmFlg
     ELSE regParmFlg' = regParmFlg + Size /\ argreg' = Append(argreg, regParmFlg + 1)
  /\ UNCHANGED <<main, args, phase, function, argcnt>>

(* reg_parm: "all remaining go on stack" once one does not fit.            *)
reg_parm ==
  /\ phase = "parm" /\ More
  /\ pos' = pos + 1
  /\ \/ /\ regParmFlg < ARG_REG_CNT /\ Size > ARG_REG_CNT - regParmFlg
        /\ regParmFlg' = ARG_REG_CNT
        /\ argreg' = Append(argreg, 0)
     \/ /\ regParmFlg < ARG_REG_CNT /\ Size <= ARG_REG_CNT - regParmFlg
        /\ regParmFlg' = regParmFlg + Size
        /\ argreg' = Append(argreg, regParmFlg + 1)
     \/ /\ regParmFlg >= ARG_REG_CNT
        /\ argreg' = Append(argreg, 0)
        /\ UNCHANGED regParmFlg
  /\ UNCHANGED <<main, args, phase, function, argcnt>>

(* processNew, before its loop.                                            *)
processNew ==
  /\ phase = "parm" /\ ~More
  /\ phase' = "process" /\ pos' = 1
  /\ isMain' = (main \/ isMain)
  /\ argumentCnt' = 0 /\ registerSize' = 0 /\ stackSize' = 0 /\ placed' = <<>>
  /\ UNCHANGED <<main, args, regParmFlg, argreg, argcnt>>

(* An iteration of the loop of processNew.                                 *)
processArg ==
  /\ phase = "process" /\ More
  /\ pos' = pos + 1 /\ argumentCnt' = argumentCnt + 1
  /\ IF registerSize + Size <= ARG_REG_CNT /\ stackSize = 0
     THEN /\ registerSize' = registerSize + Size
          /\ placed' = Append(placed, registerSize + 1)
          /\ UNCHANGED stackSize
     ELSE /\ stackSize' = stackSize + Size
          /\ placed' = Append(placed, 0)
          /\ UNCHANGED registerSize
  /\ UNCHANGED <<main, args, phase, regParmFlg, argreg, isMain, argcnt>>

(* The function is called: the loop of Call counts registers, and breaks.  *)
StartCall ==
  /\ phase = "process" /\ ~More
  /\ phase' = "call" /\ pos' = 1 /\ argcnt' = 0
  /\ UNCHANGED <<main, args, regParmFlg, argreg, function>>

countSkipping ==  \* a slip: no break, a later parameter may still count
  /\ phase = "call" /\ More
  /\ pos' = pos + 1
  /\ argcnt' = argcnt + IF argcnt + Size < ARG_REG_CNT THEN Size ELSE 0
  /\ UNCHANGED <<main, args, phase, regParmFlg, argreg, function>>
countArg ==
  /\ phase = "call" /\ More /\ argcnt + Size < ARG_REG_CNT
  /\ pos' = pos + 1 /\ argcnt' = argcnt + Size
  /\ UNCHANGED <<main, args, phase, regParmFlg, argreg, function>>
countEnds ==
  /\ phase = "call"
  /\ More => argcnt + Size >= ARG_REG_CNT
  /\ phase' = "done"
  /\ UNCHANGED <<main, args, pos, regParmFlg, argreg, function, argcnt>>

ConvNext ==
  \/ \E m \in BOOLEAN, as \in ParamLists : Declare(m, as)
  \/ reg_parm \/ processNew \/ processArg \/ StartCall \/ countArg \/ countEnds

ConvSpec == ConvInit /\ [][ConvNext]_convVars

-----------------------------------------------------------------------------
ConvTypeOK ==
  /\ main \in BOOLEAN /\ isMain \in BOOLEAN
  /\ args \in Seq(Nat \ {0})
  /\ phase \in {"parm", "process", "call", "done"} /\ pos \in 1 .. Len(args) + 1
  /\ regParmFlg \in 0 .. ARG_REG_CNT /\ registerSize \in 0 .. ARG_REG_CNT
  /\ argumentCnt \in Nat /\ stackSize \in Nat /\ argcnt \in Nat
  /\ argreg \in Seq(0 .. ARG_REG_CNT) /\ placed \in Seq(0 .. ARG_REG_CNT)

(* The caller's and the callee's view of a parameter agree: processNew     *)
(* counts it where reg_parm told SDCC to send and receive it, whatever the *)
(* sizes and wherever the registers run out.                               *)
PlacesAgree ==
  phase \in {"process", "call"} => \A k \in 1 .. Len(placed) : placed[k] = argreg[k]

(* Two parameters never share a register, and none is beyond the last      *)
(* argument register.                                                      *)
ParametersDisjoint ==
  \A k \in 1 .. Len(argreg) : argreg[k] # 0 =>
    /\ argreg[k] + args[k] - 1 <= ARG_REG_CNT
    /\ \A j \in 1 .. k - 1 : argreg[j] # 0 /\ argreg[j] + args[j] <= argreg[k]

(* Call skips only registers that carry its arguments when it saves live   *)
(* values: it may count fewer than there are (an exact fit), never more.   *)
CountedAreArguments == phase = "call" => argcnt <= registerSize
=============================================================================
