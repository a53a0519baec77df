------------------------------ MODULE PbProgram ------------------------------
(***************************************************************************)
(* A whole program: the text that the handlers of gen.cc print function by *)
(* function and pblaze_glue puts between its startup and its last jump,    *)
(* and then the run of that text from reset.                               *)
(*                                                                         *)
(* A line of text keeps what it does to control and to the register bank,  *)
(* the function it was printed in and the bank that Bank::m_first named    *)
(* when it was printed: the bank its registers were chosen for.  main and  *)
(* the rest of the program use different banks and meet only in calls.     *)
(*                                                                         *)
(* What may keep them from meeting there, or from meeting well, is marked  *)
(* in hit as the text is printed (after an open end it grows no more):     *)
(*   "open end"             a function that does not end in a jump or a    *)
(*                          return goes on into what follows, or any but   *)
(*                          main into the last line                        *)
(*   "main returned"        main ends by a return instruction              *)
(*   "switch outside main"  a function printed after main changes banks    *)
(*                          around its calls, as main does                 *)
(***************************************************************************)
EXTENDS Integers, Sequences, SequencesExt

CONSTANTS
  Funs, main,  \* the functions of the program, with bodies
  Labels,      \* their labels
  MaxLines,    \* bound on the printed lines
  MAXSTK       \* the levels of the call stack

ASSUME ProgramAssumption ==
  /\ main \in Funs /\ Funs \cap Labels = {}
  /\ {"A", "B", "any", "glue", "none", "__sdcc_loop"} \cap (Funs \cup Labels) = {}
  /\ MaxLines \in Nat /\ MAXSTK \in Nat

VARIABLES
  text,     \* the lines of the program
  current,  \* the function being printed, or "none"
  isMain,   \* Function::isMain
  first,    \* Bank::m_first
  hit,
  pc,       \* the line that is executed next, 0 before reset
  bank,     \* the register bank of the processor
  stack,    \* the lines to return to
  fault     \* what stopped the processor, or "none"

printer   == <<text, current, isMain, first, hit>>
processor == <<pc, bank, stack, fault>>
programVars == <<printer, processor>>

BankOf(m_first) == IF m_first THEN "A" ELSE "B"
Line(op, to, f, b) == [op |-> op, to |-> to, fun |-> f, bank |-> b]

(* What stands before the code of the functions: line 1 is at address 0.   *)
Loop == 2
Startup == <<Line("jump", main, "glue", "A"),
             Line("label", "__sdcc_loop", "glue", "A"),
             Line("jump", "__sdcc_loop", "glue", "A")>>
NoLastLines == <<>>  \* a slip: nothing after the code
LastLines == <<Line("jump", "__sdcc_loop", "glue", "A")>>

Lines == DOMAIN text
Defined(l) == \E i \in Lines : text[i].op = "label" /\ text[i].to = l
Where(l)   == CHOOSE i \in Lines : text[i].op = "label" /\ text[i].to = l

ProgramInit ==
  /\ text = Startup /\ current = "none" /\ isMain = FALSE /\ first = TRUE /\ hit = {}
  /\ pc = 0 /\ bank = "A" /\ stack = <<>> /\ fault = "none"

-----------------------------------------------------------------------------
(* Emitter: the handlers add lines to the text, each for the bank that is  *)
(* chosen when it is printed.                                              *)
Emit(lines) ==
  /\ pc = 0 /\ "open end" \notin hit /\ Len(text) + Len(lines) <= MaxLines
  /\ text' = text \o lines
  /\ UNCHANGED processor
Here(op, to) == Line(op, to, current, BankOf(first))
Closes(line) == line.op \in {"ret", "jump"}
Mark(reasons) == hit' = hit \cup reasons

Function(f) ==
  /\ current = "none" /\ ~Defined(f)
  /\ current' = f
  /\ first' = (f = main)
  /\ isMain' = (isMain \/ f = main)
  /\ Emit(<<Line("label", f, f, BankOf(f = main))>>)
  /\ Mark(IF Closes(Last(text)) THEN {} ELSE {"open end"})

(* EndFunction prints nothing.  Every label jumped to has been printed.    *)
EndFunction ==
  /\ current # "none" /\ pc = 0
  /\ \A i \in Lines : text[i].fun = current /\ text[i].op \in {"jump", "jumpif"} => Defined(text[i].to)
  /\ current' = "none"
  /\ UNCHANGED <<text, isMain, first, hit, processor>>

InFunction == current # "none" /\ UNCHANGED <<current, isMain, first>>

(* Labels are a function's own, and there is one of each.                  *)
Own(l) == \A i \in Lines : text[i].to = l => text[i].fun = current
Label(l) == /\ InFunction /\ Own(l) /\ ~Defined(l)
            /\ Emit(<<Here("label", l)>>) /\ Mark({})
GoTo(l)  == InFunction /\ Own(l) /\ Emit(<<Here("jump", l)>>) /\ Mark({})
Ifx(l)   == InFunction /\ Own(l) /\ Emit(<<Here("jumpif", l)>>) /\ Mark({})

(* Bank::swap: the instruction for the other bank, and the other bank.     *)
SwapToB(m_first) == Line("regbank", "B", current, BankOf(m_first))  \* a slip: always B
Swap(m_first) == Line("regbank", BankOf(~m_first), current, BankOf(m_first))

(* A call of f, or with to = "any" through a pointer, of a function with a *)
(* result of so many bytes, which main copies from the other bank.         *)
JumpLine(to, m_first) == Line("jump", to, current, BankOf(m_first))  \* a slip: a jump
CallLine(to, m_first) == Line("call", to, current, BankOf(m_first))

Call(to, size) ==
  /\ InFunction
  /\ IF isMain
     THEN Emit(<<Swap(first), CallLine(to, ~first)>>
                \o [k \in 1 .. size |-> Line("star", "none", current, BankOf(~first))]
                \o <<Swap(~first)>>)
     ELSE Emit(<<CallLine(to, first)>>)
  /\ Mark(IF isMain /\ current # main THEN {"switch outside main"} ELSE {})

Return ==
  /\ InFunction /\ Emit(<<Here("ret", "none")>>)
  /\ Mark(IF current = main THEN {"main returned"} ELSE {})

(* pblaze_glue: the file is complete if there is a main and every function *)
(* called has been printed; the processor starts at address 0.             *)
Glue ==
  /\ pc = 0 /\ current = "none" /\ Defined(main)
  /\ \A i \in Lines : text[i].op = "call" /\ text[i].to # "any" => Defined(text[i].to)
  /\ text' = text \o LastLines
  /\ Mark(IF Closes(Last(text)) \/ Last(text).fun = main THEN {} ELSE {"open end"})
  /\ pc' = 1
  /\ UNCHANGED <<current, isMain, first, bank, stack, fault>>

-----------------------------------------------------------------------------
(* One instruction of the processor: the next line, unless it is one that  *)
(* jumps, calls or returns.  A label takes no address: it is passed.       *)
Runs(ops) == pc \in Lines /\ fault = "none" /\ text[pc].op \in ops /\ UNCHANGED printer

Pass == /\ Runs({"star", "label", "jumpif"})
        /\ pc' = pc + 1
        /\ UNCHANGED <<bank, stack, fault>>
Jump == /\ Runs({"jump", "jumpif"})
        /\ pc' = Where(text[pc].to)
        /\ UNCHANGED <<bank, stack, fault>>
RegBank == /\ Runs({"regbank"})
           /\ bank' = text[pc].to /\ pc' = pc + 1
           /\ UNCHANGED <<stack, fault>>

(* The program does not call main, directly or through a pointer.          *)
Callees == {f \in Funs \ {main} : Defined(f)}
PushNothing == stack  \* a slip
Push == Append(stack, pc + 1)
CallTo(f) ==
  /\ Runs({"call"}) /\ Len(stack) < MAXSTK
  /\ f \in (IF text[pc].to = "any" THEN Callees ELSE {text[pc].to})
  /\ pc' = Where(f) /\ stack' = Push
  /\ UNCHANGED <<bank, fault>>
ReturnTo ==
  /\ Runs({"ret"}) /\ stack # <<>>
  /\ pc' = Last(stack) /\ stack' = Front(stack)
  /\ UNCHANGED <<bank, fault>>

(* A call or a return the call stack does not allow ends the run.          *)
Overflow ==
  /\ Runs({"call"}) /\ Len(stack) = MAXSTK /\ fault' = "overflow"
  /\ UNCHANGED <<pc, bank, stack>>
Underflow ==
  /\ Runs({"ret"}) /\ stack = <<>> /\ fault' = "underflow"
  /\ UNCHANGED <<pc, bank, stack>>

Step == Pass \/ Jump \/ RegBank \/ (\E f \in Funs : CallTo(f)) \/ ReturnTo
        \/ Overflow \/ Underflow

Handler ==
  \/ \E f \in Funs : Function(f)
  \/ EndFunction \/ Return
  \/ \E l \in Labels : Label(l) \/ GoTo(l) \/ Ifx(l)
  \/ \E to \in (Funs \ {main}) \cup {"any"}, size \in 0 .. 1 : Call(to, size)

ProgramNext == Handler \/ Glue \/ Step

(* The processor does not stop between two instructions.                   *)
ProgramSpec == ProgramInit /\ [][ProgramNext]_programVars /\ WF_programVars(Step)

-----------------------------------------------------------------------------
(* The registers of every instruction are those of the bank it was printed *)
(* for, however control came to it: "Banks are switched" (gen.cc 74-76).   *)
BankAsBelieved == hit = {} /\ pc \in Lines => bank = text[pc].bank

(* A function is entered by a call, or from address 0: never by running on *)
(* from the function before it or by returning into it.                    *)
EntersByCall ==
  [][hit = {} /\ pc' \in Lines /\ text[pc'].op = "label" /\ text[pc'].to \in Funs /\ pc > 1
       => text[pc].op = "call"]_processor

(* No function returns that was not called.                                *)
NoUnderflow == hit = {} => fault # "underflow"

(* "return from main will lock up" (glue.cc 620), if main does not return  *)
(* but ends: a program that neither jumps back nor calls what stands       *)
(* further on comes to rest in the loop.                                   *)
Onward ==
  \A i \in Lines :
    /\ text[i].fun # "glue" /\ text[i].op \in {"jump", "jumpif"} => i < Where(text[i].to)
    /\ text[i].op = "call" => text[i].to # "any" /\ Where(text[i].to) < Where(text[i].fun)
LocksUp ==
  (pc = 1 /\ hit = {} /\ Onward) ~> (fault = "overflow" \/ (pc \in Loop .. Loop + 1))
=============================================================================
