------------------------------ MODULE PbLabels ------------------------------
(***************************************************************************)
(* Jumps: Ifx, GoTo and Label of gen.cc between the instructions of PbPtr. *)
(* The generator follows the text: where registers, cells and sF are after *)
(* a line is what the next line starts from, and Label changes nothing of  *)
(* it.  The machine jumps.  While it is away the text is generated on and  *)
(* executed by nobody; at its label the machine comes back with what it    *)
(* had at the jump, to code generated for the state at the label:          *)
(*   "homes differ"   a byte that is still read has another register, or   *)
(*                    has one where it had none                            *)
(*   "sF differs"     sF is not where the compiler believes it is          *)
(*   "flags differ"   a condition that is the result before it is not      *)
(*                    compared, and the flags are not those of its value   *)
(* Jumps go forward.  The condition decides as PbFlow says.                *)
(***************************************************************************)
EXTENDS PbPtr

CONSTANT Labels

VARIABLES
  placed,   \* the labels printed
  away,     \* None, or the label the machine has jumped to, with the
            \* generator, the machine and val at the jump
  prev      \* the result of the iCode before (getPrev), None if it has none

labelVars == <<g, val, next, placed, away, prev>>

LabelInit == PtrInit /\ placed = {} /\ away = None /\ prev = None

(* A jump the machine takes when it is here.                               *)
JumpTo(l, h, taken) ==
  away' = IF taken /\ away = None THEN [to |-> l, at |-> h, val |-> val] ELSE away

Compared(h, c) ==
  ForBytes(LAMBDA k, i : [Touch(k, c, i) EXCEPT !.carry = 0], h, SizeOf[c])

(* "if (c) goto l" and "if (!c) goto l".  The Load of the condition into   *)
(* itself is printed behind the jump.                                      *)
Branch(h, c, l, taken) ==
  /\ Usual /\ Number(c) /\ l \notin placed /\ g.seq < MaxSeq
  /\ Generate(Load(h, c, c, 0)) /\ JumpTo(l, h, taken)
  /\ next' = None /\ prev' = None
  /\ UNCHANGED <<val, placed>>
Holds(c, onTrue) == onTrue # (\A i \in Bytes(c) : val[<<c, i>>] = 0)

Ifx(c, l, onTrue) == Branch(Compared(g, c), c, l, Holds(c, onTrue))

(* The condition is the Operand the instruction before has as its result:  *)
(* the jump goes by what that left in the flags, a copy nothing at all and *)
(* an operation of several bytes only what is so of the last one.          *)
IfxOnFlags(c, l, onTrue) ==
  /\ prev = c
  /\ \E taken \in BOOLEAN :
       Branch(Hit(g, "flags differ", taken # Holds(c, onTrue)), c, l, taken)

GoTo(l) ==
  /\ Usual /\ l \notin placed /\ g.seq < MaxSeq
  /\ Generate(g) /\ JumpTo(l, g, TRUE)
  /\ next' = None /\ prev' = None
  /\ UNCHANGED <<val, placed>>

HomesDiffer(h) ==
  \E b \in AllBytes : /\ g.liveTo[b[1]] > g.seq /\ away.val[b] # Junk
                      /\ g.home[b] # h.home[b]
Arrives(h) ==
  Hit(Hit([g EXCEPT !.reg = h.reg, !.ram = h.ram, !.carry = h.carry, !.hit = h.hit],
          "homes differ", HomesDiffer(h)),
      "sF differs", g.offset # h.offset)

Label(l) ==
  /\ Usual /\ l \notin placed /\ placed' = placed \cup {l}
  /\ IF away # None /\ away.to = l
     THEN Generate(Arrives(away.at)) /\ val' = away.val /\ away' = None
     ELSE Generate(g) /\ UNCHANGED <<val, away>>
  /\ next' = None /\ prev' = None

LabelNext ==
  /\ g.seq <= MaxSeq
  /\ \/ \E x \in Syms : PtrInstruction(x) /\ prev' = x /\ UNCHANGED <<placed, away>>
     \/ \E c \in Syms, l \in Labels, onTrue \in BOOLEAN :
          Ifx(c, l, onTrue) \/ IfxOnFlags(c, l, onTrue)
     \/ \E l \in Labels : GoTo(l) \/ Label(l)

LabelSpec == LabelInit /\ [][LabelNext]_labelVars

-----------------------------------------------------------------------------
LabelTypeOK ==
  /\ TypeOver(Byte \cup Addresses)
  /\ placed \subseteq Labels
  /\ prev \in Syms \cup {None}
  /\ away # None => away.to \in Labels \ placed

(* Wherever the machine runs, the generated code computes what the program *)
(* means: through pointers, behind branches that were taken and behind     *)
(* those that were not, but for the hazards.                               *)
LabelCoherent == away = None => Coherent

=============================================================================
