--------------------------- MODULE PbProgramProofs ---------------------------
(***************************************************************************)
(* For every set of functions and labels and every size of the call stack, *)
(* the program runs in the banks it was printed for.  The invariant has a  *)
(* part about the text alone (TextOK: what each line, and each line after  *)
(* which control goes on to the next, looks like) and a part that puts the *)
(* processor in it: calls are made in bank B, so that is the bank each     *)
(* return address expects, and the first return address is main's.         *)
(***************************************************************************)
EXTENDS PbProgram, TLAPS

Ops == {"label", "jump", "jumpif", "ret", "star", "regbank", "call"}
Dests == Funs \cup Labels \cup {"A", "B", "any", "none", "__sdcc_loop"}
LineType == [op : Ops, to : Dests, fun : Funs \cup {"glue"}, bank : {"A", "B"}]

ProgramTypeOK ==
  /\ text \in Seq(LineType) /\ Len(text) >= 3
  /\ current \in Funs \cup {"none"} /\ isMain \in BOOLEAN /\ first \in BOOLEAN

ProcessorTypeOK ==
  /\ pc \in Nat /\ bank \in {"A", "B"} /\ stack \in Seq(Nat \ {0})
  /\ fault \in {"none", "overflow", "underflow"}

-----------------------------------------------------------------------------
(* The text.                                                               *)
Home(f)  == IF f = main \/ f = "glue" THEN "A" ELSE "B"
After(x) == IF x.op = "regbank" THEN x.to ELSE x.bank

LineOK(x) ==
  /\ x.op = "label" /\ x.to \in Funs => x.to = x.fun
  /\ x.op = "label" /\ x.to = "__sdcc_loop" => x.fun = "glue"
  /\ x.op \in {"jump", "jumpif"} =>
       \/ x.fun = "glue" /\ x.to = "__sdcc_loop"
       \/ x.fun \in Funs /\ x.to \in Labels
  /\ x.op \in {"label", "jump", "jumpif", "ret"} => x.bank = Home(x.fun)
  /\ x.op = "call" => x.bank = "B" /\ x.to \in (Funs \ {main}) \cup {"any"}
  /\ x.op = "ret" => x.fun \in Funs \ {main}
  /\ x.op = "regbank" => x.to \in {"A", "B"}

EntersFunction(x) == x.op = "label" /\ x.to \in Funs
Follows(x, y) ==
  x.op \notin {"jump", "ret"} =>
    /\ y.bank = After(x) /\ ~EntersFunction(y)
    /\ y.fun = x.fun \/ (x.fun = main /\ y.fun = "glue")

SameOwner(x, y) == x.to \in Labels /\ x.to = y.to => x.fun = y.fun

TextOK(t) ==
  /\ t[1] = Line("jump", main, "glue", "A")
  /\ t[2] = Line("label", "__sdcc_loop", "glue", "A")
  /\ \A i \in 2 .. Len(t) : LineOK(t[i])
  /\ \A i \in 1 .. Len(t) - 1 : Follows(t[i], t[i + 1])
  /\ \A i, j \in 1 .. Len(t) : SameOwner(t[i], t[j])

LEMMA Concat ==
  ASSUME NEW S, NEW t \in Seq(S), NEW u \in Seq(S)
  PROVE  /\ t \o u \in Seq(S) /\ Len(t \o u) = Len(t) + Len(u)
         /\ \A i \in 1 .. Len(t) : (t \o u)[i] = t[i]
         /\ \A i \in 1 .. Len(u) : (t \o u)[Len(t) + i] = u[i]
         /\ \A i \in 1 .. Len(t) + Len(u) :
              i \in 1 .. Len(t) \/ (\E k \in 1 .. Len(u) : i = Len(t) + k)
<1>1. \A i \in 1 .. Len(t) + Len(u) : i \in 1 .. Len(t) \/ i - Len(t) \in 1 .. Len(u)
  BY SMT
<1>2. \A i \in 1 .. Len(t) + Len(u) : i = Len(t) + (i - Len(t))
  BY SMT
<1>3. QED  BY <1>1, <1>2, SMTT(30)

(* Lines added by one handler keep the text well formed.                   *)
Chunk(t, u) ==
  /\ \A k \in 1 .. Len(u) : LineOK(u[k])
  /\ Follows(t[Len(t)], u[1])
  /\ \A k \in 1 .. Len(u) - 1 : Follows(u[k], u[k + 1])
  /\ \A k \in 1 .. Len(u), i \in 1 .. Len(t) : SameOwner(u[k], t[i])
  /\ \A k, m \in 1 .. Len(u) : SameOwner(u[k], u[m])

LEMMA Grows ==
  ASSUME NEW t \in Seq(LineType), Len(t) >= 3, TextOK(t),
         NEW u \in Seq(LineType), Len(u) >= 1, Chunk(t, u)
  PROVE  TextOK(t \o u)
<1> DEFINE w == t \o u
           n == Len(t)
           m == Len(u)
<1>0. n \in Nat /\ m \in Nat
  OBVIOUS
<1>1. /\ w \in Seq(LineType) /\ Len(w) = n + m
      /\ \A i \in 1 .. n : w[i] = t[i]
      /\ \A i \in 1 .. m : w[n + i] = u[i]
      /\ \A i \in 1 .. n + m : i \in 1 .. n \/ (\E k \in 1 .. m : i = n + k)
  BY Concat
<1> HIDE DEF w, n, m
<1>n. n >= 3 /\ m >= 1
  BY DEF n, m
<1>2. w[1] = t[1] /\ w[2] = t[2]
  BY <1>0, <1>1, <1>n
<1>3. ASSUME NEW i \in 2 .. n + m
      PROVE  LineOK(w[i])
  <2>1. CASE i \in 1 .. n
    BY <2>1, <1>0, <1>1 DEF TextOK, n
  <2>2. CASE \E k \in 1 .. m : i = n + k
    BY <2>2, <1>1 DEF Chunk, m
  <2>3. QED  BY <2>1, <2>2, <1>0, <1>1
<1>4. ASSUME NEW i \in 1 .. n + m - 1
      PROVE  Follows(w[i], w[i + 1])
  <2>1. CASE i \in 1 .. n - 1
    <3>1. i \in 1 .. n /\ i + 1 \in 1 .. n
      BY <2>1, <1>0
    <3>2. Follows(t[i], t[i + 1])
      BY <2>1 DEF TextOK, n
    <3>3. QED  BY <3>1, <3>2, <1>1
  <2>2. CASE i = n
    <3>1. w[n] = t[n] /\ w[n + 1] = u[1]
      BY <1>0, <1>n, <1>1
    <3>2. QED  BY <2>2, <3>1 DEF Chunk, n
  <2>3. CASE i > n
    <3>1. PICK k \in 1 .. m : i = n + k
      BY <2>3, <1>0, <1>1
    <3>2. k \in 1 .. m - 1 /\ k + 1 \in 1 .. m /\ i + 1 = n + (k + 1)
      BY <3>1, <1>0
    <3>3. Follows(u[k], u[k + 1])
      BY <3>2 DEF Chunk, m
    <3>4. QED  BY <3>1, <3>2, <3>3, <1>1
  <2>4. QED  BY <2>1, <2>2, <2>3, <1>0
<1>5. ASSUME NEW i \in 1 .. n + m, NEW j \in 1 .. n + m
      PROVE  SameOwner(w[i], w[j])
  <2>1. CASE i \in 1 .. n /\ j \in 1 .. n
    BY <2>1, <1>1 DEF TextOK, n
  <2>2. CASE i \in 1 .. n /\ \E k \in 1 .. m : j = n + k
    <3>1. PICK k \in 1 .. m : j = n + k
      BY <2>2
    <3>2. SameOwner(u[k], t[i])
      BY <2>2 DEF Chunk, n, m
    <3>3. w[i] = t[i] /\ w[j] = u[k]
      BY <2>2, <3>1, <1>1
    <3>4. SameOwner(t[i], u[k])
      BY <3>2 DEF SameOwner
    <3>5. QED  BY <3>3, <3>4
  <2>3. CASE j \in 1 .. n /\ \E k \in 1 .. m : i = n + k
    BY <2>3, <1>1 DEF Chunk, n, m
  <2>4. CASE (\E k \in 1 .. m : i = n + k) /\ (\E k \in 1 .. m : j = n + k)
    BY <2>4, <1>1 DEF Chunk, m
  <2>5. QED  BY <2>1, <2>2, <2>3, <2>4, <1>1
<1>6. TextOK(w)
  <2>1. w[1] = Line("jump", main, "glue", "A") /\ w[2] = Line("label", "__sdcc_loop", "glue", "A")
    BY <1>2 DEF TextOK
  <2>2. Len(w) = n + m
    BY <1>1
  <2>3. \A i \in 2 .. Len(w) : LineOK(w[i])
    BY <1>3, <2>2
  <2>4. \A i \in 1 .. Len(w) - 1 : Follows(w[i], w[i + 1])
    <3>1. Len(w) - 1 = n + m - 1
      BY <2>2, <1>0
    <3>2. QED  BY <1>4, <3>1, Zenon
  <2>5. \A i, j \in 1 .. Len(w) : SameOwner(w[i], w[j])
    BY <1>5, <2>2
  <2>6. QED  BY <2>1, <2>3, <2>4, <2>5, Zenon DEF TextOK
<1>7. QED  BY <1>6 DEF w

-----------------------------------------------------------------------------
(* The printer: what it has printed last, and which labels it still owes.  *)
PrinterOK ==
  /\ After(text[Len(text)]) = Home(text[Len(text)].fun)
  /\ current # "none" =>
       /\ text[Len(text)].fun = current /\ first = (current = main)
       /\ current = main => isMain
  /\ \A i \in Lines \ {1} :
       text[i].op \in {"jump", "jumpif"} /\ text[i].fun # current => Defined(text[i].to)

(* The processor in the text.                                              *)
Mains == {main, "glue"}
ReturnOK(x) == x.bank = "B" /\ ~EntersFunction(x)
RunOK ==
  /\ pc = 0 => bank = "A" /\ stack = <<>> /\ fault = "none"
  /\ pc # 0 => /\ current = "none" /\ Defined(main)
               /\ \A i \in Lines : text[i].op = "call" /\ text[i].to # "any"
                                     => Defined(text[i].to)
  /\ pc \in Lines => bank = text[pc].bank
  /\ pc \in Lines /\ stack = <<>> => text[pc].fun \in Mains
  /\ \A k \in 1 .. Len(stack) : stack[k] \in Lines => ReturnOK(text[stack[k]])
  /\ Len(stack) >= 1 /\ stack[1] \in Lines => text[stack[1]].fun \in Mains
  /\ fault # "underflow"

Meets == ProcessorTypeOK /\ TextOK(text) /\ PrinterOK /\ RunOK
ProgramInv == ProgramTypeOK /\ (hit = {} => Meets)

-----------------------------------------------------------------------------
(* The lines of a call in main.                                            *)
LEMMA CallLines ==
  ASSUME NEW S, NEW a \in S, NEW b \in S, NEW c \in S, NEW d \in S, NEW size \in Nat,
         NEW u, u = <<a, b>> \o [k \in 1 .. size |-> c] \o <<d>>
  PROVE  /\ u \in Seq(S) /\ Len(u) = size + 3
         /\ u[1] = a /\ u[2] = b /\ u[size + 3] = d
         /\ \A k \in 1 .. size : u[2 + k] = c
<1> DEFINE s == [k \in 1 .. size |-> c]
           ab == <<a, b>>
           v == ab \o s
<1>1. /\ s \in Seq(S) /\ Len(s) = size /\ \A k \in 1 .. size : s[k] = c
  OBVIOUS
<1>2. ab \in Seq(S) /\ Len(ab) = 2 /\ ab[1] = a /\ ab[2] = b
  OBVIOUS
<1>3. <<d>> \in Seq(S) /\ Len(<<d>>) = 1 /\ <<d>>[1] = d
  OBVIOUS
<1> HIDE DEF s, ab
<1>4. /\ v \in Seq(S) /\ Len(v) = 2 + size
      /\ \A k \in 1 .. 2 : v[k] = ab[k]
      /\ \A k \in 1 .. size : v[2 + k] = s[k]
  <2>1. ab \in Seq(S) /\ s \in Seq(S)
    BY <1>1, <1>2
  <2>2. /\ v \in Seq(S) /\ Len(v) = Len(ab) + Len(s)
        /\ \A k \in 1 .. Len(ab) : v[k] = ab[k]
        /\ \A k \in 1 .. Len(s) : v[Len(ab) + k] = s[k]
    BY <2>1, Concat
  <2> HIDE DEF v
  <2>3. QED  BY <1>1, <1>2, <2>2
<1>5. v[1] = a /\ v[2] = b /\ \A k \in 1 .. size : v[2 + k] = c
  BY <1>1, <1>2, <1>4
<1> HIDE DEF v
<1>6. u = v \o <<d>>
  BY DEF v, s, ab
<1>7. /\ u \in Seq(S) /\ Len(u) = 2 + size + 1
      /\ \A k \in 1 .. 2 + size : u[k] = v[k]
      /\ u[2 + size + 1] = d
  <2> DEFINE dd == <<d>>
  <2>1. dd \in Seq(S) /\ Len(dd) = 1 /\ dd[1] = d /\ u = v \o dd
    BY <1>3, <1>6
  <2> HIDE DEF dd
  <2> DEFINE w == v \o dd
  <2>2. /\ w \in Seq(S) /\ Len(w) = Len(v) + Len(dd)
        /\ \A k \in 1 .. Len(v) : w[k] = v[k]
        /\ \A k \in 1 .. Len(dd) : w[Len(v) + k] = dd[k]
    <3>1. v \in Seq(S) /\ dd \in Seq(S)
      BY <1>4, <2>1
    <3>2. QED  BY <3>1, Concat
  <2>w. u = w
    BY <2>1
  <2> HIDE DEF w
  <2>3. QED  BY <1>4, <2>1, <2>2, <2>w
<1>8. \A k \in 1 .. size : 2 + k \in 1 .. 2 + size
  OBVIOUS
<1>9. 1 \in 1 .. 2 + size /\ 2 \in 1 .. 2 + size /\ 2 + size + 1 = size + 3
  OBVIOUS
<1>10. QED  BY <1>5, <1>7, <1>8, <1>9

(* What any handler prints.                                                *)
LEMMA LineTyped ==
  ASSUME NEW op \in Ops, NEW to \in Dests, NEW f \in Funs, NEW b \in BOOLEAN
  PROVE  /\ Line(op, to, f, BankOf(b)) \in LineType
         /\ Swap(b).to \in {"A", "B"}
BY DEF Line, LineType, BankOf, Swap

-----------------------------------------------------------------------------
(* Type correctness.                                                       *)
LEMMA EmitType ==
  ASSUME ProgramTypeOK, NEW u \in Seq(LineType), Emit(u)
  PROVE  text' \in Seq(LineType) /\ Len(text') >= 3 /\ UNCHANGED processor
<1>1. text' = text \o u /\ UNCHANGED processor
  BY DEF Emit
<1>2. text \in Seq(LineType) /\ Len(text) >= 3
  BY DEF ProgramTypeOK
<1>3. text' \in Seq(LineType) /\ Len(text') = Len(text) + Len(u)
  BY <1>1, <1>2, Concat
<1>4. Len(u) \in Nat /\ Len(text) \in Nat
  BY <1>2
<1>5. QED  BY <1>1, <1>2, <1>3, <1>4

LEMMA InitType == ProgramInit => ProgramTypeOK
<1> SUFFICES ASSUME ProgramInit PROVE ProgramTypeOK
  OBVIOUS
<1>1. /\ Line("jump", main, "glue", "A") \in LineType
      /\ Line("label", "__sdcc_loop", "glue", "A") \in LineType
      /\ Line("jump", "__sdcc_loop", "glue", "A") \in LineType
  BY ProgramAssumption DEF Line, LineType, Ops, Dests
<1>2. Startup \in Seq(LineType) /\ Len(Startup) = 3
  BY <1>1 DEF Startup
<1>3. text \in Seq(LineType) /\ Len(text) >= 3
  BY <1>2 DEF ProgramInit
<1>4. current \in Funs \cup {"none"} /\ isMain \in BOOLEAN /\ first \in BOOLEAN
  BY Zenon DEF ProgramInit
<1>5. QED  BY <1>3, <1>4 DEF ProgramTypeOK

LEMMA HandlerType == ProgramTypeOK /\ Handler => ProgramTypeOK'
<1> SUFFICES ASSUME ProgramTypeOK, Handler PROVE ProgramTypeOK'
  OBVIOUS
<1> USE DEF ProgramTypeOK
<1>1. \A x \in LineType : <<x>> \in Seq(LineType)
  OBVIOUS
<1>2. ASSUME NEW f \in Funs, Function(f)
      PROVE  ProgramTypeOK'
  <2>1. <<Line("label", f, f, BankOf(f = main))>> \in Seq(LineType)
    BY <1>1 DEF Line, LineType, Ops, Dests, BankOf
  <2>2. QED  BY <1>2, <2>1, EmitType DEF Function, processor
<1>3. CASE EndFunction
  BY <1>3 DEF EndFunction, processor
<1>4. ASSUME NEW op \in Ops, NEW to \in Dests, InFunction, Emit(<<Here(op, to)>>)
      PROVE  ProgramTypeOK'
  <2>1. Here(op, to) \in LineType
    BY <1>4 DEF Here, InFunction, Line, LineType, BankOf
  <2>2. <<Here(op, to)>> \in Seq(LineType)
    BY <1>1, <2>1
  <2>3. QED  BY <1>4, <2>2, EmitType DEF InFunction, processor
<1>5. CASE Return
  BY <1>5, <1>4 DEF Return, Ops, Dests
<1>6. ASSUME NEW l \in Labels, Label(l) \/ GoTo(l) \/ Ifx(l)
      PROVE  ProgramTypeOK'
  BY <1>6, <1>4 DEF Label, GoTo, Ifx, Ops, Dests
<1>7. ASSUME NEW to \in (Funs \ {main}) \cup {"any"}, NEW size \in 0 .. 1, Call(to, size)
      PROVE  ProgramTypeOK'
  <2> DEFINE u == <<Swap(first), CallLine(to, ~first)>>
                  \o [k \in 1 .. size |-> Line("star", "none", current, BankOf(~first))]
                  \o <<Swap(~first)>>
  <2>1. /\ Swap(first) \in LineType /\ Swap(~first) \in LineType
        /\ CallLine(to, first) \in LineType /\ CallLine(to, ~first) \in LineType
        /\ Line("star", "none", current, BankOf(~first)) \in LineType
    BY <1>7 DEF Call, InFunction, Swap, CallLine, Line, LineType, Ops, Dests, BankOf
  <2>2. u \in Seq(LineType)
    BY <2>1, CallLines
  <2>3. <<CallLine(to, first)>> \in Seq(LineType)
    BY <1>1, <2>1
  <2>4. Emit(u) \/ Emit(<<CallLine(to, first)>>)
    BY <1>7 DEF Call
  <2> HIDE DEF u
  <2>5. text' \in Seq(LineType) /\ Len(text') >= 3 /\ UNCHANGED processor
    BY <2>2, <2>3, <2>4, EmitType
  <2>6. QED  BY <1>7, <2>5 DEF Call, InFunction, processor
<1>8. QED  BY <1>2, <1>3, <1>5, <1>6, <1>7 DEF Handler

LEMMA WhereIs ==
  ASSUME NEW l, Defined(l)
  PROVE  Where(l) \in Lines /\ text[Where(l)].op = "label" /\ text[Where(l)].to = l
BY DEF Defined, Where

LEMMA GlueType == ProgramTypeOK /\ Glue => ProgramTypeOK'
<1> SUFFICES ASSUME ProgramTypeOK, Glue PROVE ProgramTypeOK'
  OBVIOUS
<1> USE DEF ProgramTypeOK
<1>1. Line("jump", "__sdcc_loop", "glue", "A") \in LineType
  BY DEF Line, LineType, Ops, Dests
<1>2. LastLines \in Seq(LineType) /\ Len(LastLines) = 1
  BY <1>1 DEF LastLines
<1>3. text' \in Seq(LineType) /\ Len(text') = Len(text) + Len(LastLines)
  <2>1. text \in Seq(LineType) /\ LastLines \in Seq(LineType) /\ text' = text \o LastLines
    BY <1>2 DEF Glue
  <2>2. QED  BY <2>1, Concat
<1>4. Len(text') >= 3
  BY <1>2, <1>3
<1>5. QED  BY <1>3, <1>4, Zenon DEF Glue

-----------------------------------------------------------------------------
(* Whatever is printed keeps the text and what is known of it.             *)
LEMMA EmitMeets ==
  ASSUME ProgramTypeOK, Meets, NEW u \in Seq(LineType), Len(u) >= 1,
         Emit(u), Chunk(text, u),
         After(u[Len(u)]) = Home(u[Len(u)].fun),
         current' \in Funs, current \in {"none", current'},
         u[Len(u)].fun = current', first' = (current' = main), current' = main => isMain',
         \A k \in 1 .. Len(u) : u[k].op \in {"jump", "jumpif"} => u[k].fun = current'
  PROVE  Meets'
<1> DEFINE n == Len(text)
           m == Len(u)
<1>1. /\ text \in Seq(LineType) /\ n >= 3 /\ text' = text \o u
      /\ pc = 0 /\ UNCHANGED <<pc, bank, stack, fault>>
  BY DEF ProgramTypeOK, Emit, processor
<1>2. /\ Len(text') = n + m
      /\ \A i \in 1 .. n : text'[i] = text[i]
      /\ \A i \in 1 .. m : text'[n + i] = u[i]
      /\ \A i \in 1 .. n + m : i \in 1 .. n \/ (\E k \in 1 .. m : i = n + k)
      /\ text' \in Seq(LineType)
  BY <1>1, Concat
<1>3. Lines = 1 .. n /\ Lines' = 1 .. n + m /\ n \in Nat /\ m \in Nat
  BY <1>1, <1>2 DEF Lines
<1>4. TextOK(text)'
  <2>1. TextOK(text \o u)
    BY <1>1, Grows DEF Meets
  <2>2. QED  BY <1>1, <2>1 DEF TextOK
<1>5. ProcessorTypeOK'
  BY <1>1 DEF Meets, ProcessorTypeOK
<1>6. RunOK'
  <2>1. pc' = 0 /\ stack' = <<>> /\ bank' = "A" /\ fault' = "none"
    BY <1>1 DEF Meets, RunOK
  <2>2. pc' \notin Lines'
    BY <1>3, <2>1
  <2>3. Len(stack') = 0
    BY <2>1
  <2>4. QED  BY <2>1, <2>2, <2>3 DEF RunOK
<1>7. PrinterOK'
  <2>1. text'[Len(text')] = u[m]
    BY <1>2, <1>3
  <2>2. After(text[Len(text)])' = Home(text[Len(text)].fun)' /\ text'[Len(text')].fun = current'
    BY <2>1 DEF After, Home
  <2>3. ASSUME NEW i \in Lines' \ {1}, text'[i].op \in {"jump", "jumpif"}, text'[i].fun # current'
        PROVE  Defined(text[i].to)'
    <3>1. CASE i \in 1 .. n
      <4>1. text'[i] = text[i]
        BY <3>1, <1>2
      <4>2. text[i].fun # current
        <5>1. text[i] \in LineType
          BY <3>1, <1>1
        <5>2. text[i].fun # "none"
          BY <5>1, ProgramAssumption DEF LineType
        <5>3. text[i].fun # current'
          BY <4>1, <2>3
        <5>4. QED  BY <5>2, <5>3
      <4>3. Defined(text[i].to)
        BY <3>1, <4>1, <4>2, <2>3, <1>3 DEF Meets, PrinterOK
      <4>4. PICK j \in 1 .. n : text[j].op = "label" /\ text[j].to = text[i].to
        BY <4>3, <1>3 DEF Defined
      <4>5. j \in Lines' /\ text'[j] = text[j]
        BY <1>2, <1>3
      <4>6. QED  BY <4>1, <4>4, <4>5 DEF Defined
    <3>2. CASE \E k \in 1 .. m : i = n + k
      BY <3>2, <2>3, <1>2
    <3>3. QED  BY <3>1, <3>2, <1>2, <1>3
  <2>4. QED  BY <2>2, <2>3 DEF PrinterOK
<1>8. QED  BY <1>4, <1>5, <1>6, <1>7 DEF Meets

(* The one line that most handlers print.                                  *)
LEMMA OneLine ==
  ASSUME ProgramTypeOK, Meets, NEW x \in LineType, Emit(<<x>>),
         LineOK(x), Follows(text[Len(text)], x),
         \A i \in 1 .. Len(text) : SameOwner(x, text[i]),
         After(x) = Home(x.fun),
         current' \in Funs, current \in {"none", current'},
         x.fun = current', first' = (current' = main), current' = main => isMain'
  PROVE  Meets'
<1> DEFINE u == <<x>>
<1>1. u \in Seq(LineType) /\ Len(u) = 1 /\ u[1] = x /\ Emit(u)
  OBVIOUS
<1> HIDE DEF u
<1>2. Chunk(text, u)
  BY <1>1 DEF Chunk, SameOwner
<1>3. \A k \in 1 .. Len(u) : u[k].op \in {"jump", "jumpif"} => u[k].fun = current'
  BY <1>1
<1>4. QED  BY <1>1, <1>2, <1>3, EmitMeets

LEMMA FunctionMeets ==
  ASSUME ProgramTypeOK, Meets, NEW f \in Funs, Function(f), hit' = {}
  PROVE  Meets'
<1> DEFINE x == Line("label", f, f, BankOf(f = main))
           y == text[Len(text)]
<1>1. /\ x \in LineType /\ x.op = "label" /\ x.to = f /\ x.fun = f
      /\ x.bank = Home(f) /\ After(x) = Home(f)
  BY ProgramAssumption DEF Line, LineType, Ops, Dests, BankOf, Home, After
<1>2. LineOK(x)
  BY <1>1, ProgramAssumption DEF LineOK
<1>3. Follows(y, x)
  <2>1. Last(text) = y
    BY DEF Last
  <2>2. Closes(y)
    BY <2>1 DEF Function, Mark
  <2>3. QED  BY <2>2 DEF Closes, Follows
<1>4. \A i \in 1 .. Len(text) : SameOwner(x, text[i])
  BY <1>1, ProgramAssumption DEF SameOwner
<1> HIDE DEF x, y
<1>5. /\ Emit(<<x>>) /\ current = "none" /\ current' = f /\ first' = (f = main)
      /\ isMain' = (isMain \/ f = main)
  BY DEF Function, x
<1>6. QED  BY <1>1, <1>2, <1>3, <1>4, <1>5, OneLine DEF y

LEMMA HereMeets ==
  ASSUME ProgramTypeOK, Meets, NEW op \in Ops \ {"regbank", "call", "star"}, NEW to \in Dests,
         InFunction, Emit(<<Here(op, to)>>),
         to \in Labels => Own(to),
         op \in {"label", "jump", "jumpif"} => to \in Labels,
         op = "ret" => current # main
  PROVE  Meets'
<1> DEFINE x == Here(op, to)
           y == text[Len(text)]
<1>1. current \in Funs /\ UNCHANGED <<current, isMain, first>>
  BY DEF InFunction, ProgramTypeOK
<1>2. /\ first = (current = main) /\ (current = main => isMain)
      /\ y.fun = current /\ After(y) = Home(current)
  <2>1. current # "none"
    BY <1>1, ProgramAssumption
  <2>2. QED  BY <2>1, Zenon DEF Meets, PrinterOK
<1>3. /\ x \in LineType /\ x.op = op /\ x.to = to /\ x.fun = current
      /\ x.bank = Home(current) /\ After(x) = Home(current)
  <2>1. BankOf(first) = Home(current)
    <3>1. CASE current = main
      <4>1. first
        BY <1>2, <3>1, Zenon
      <4>2. QED  BY <3>1, <4>1 DEF BankOf, Home
    <3>2. CASE current # main
      <4>1. ~first
        BY <1>2, <3>2, Zenon
      <4>2. QED  BY <1>1, <3>2, <4>1, ProgramAssumption DEF BankOf, Home
    <3>3. QED  BY <3>1, <3>2
  <2>2. x = [op |-> op, to |-> to, fun |-> current, bank |-> Home(current)]
    BY <2>1 DEF Here, Line
  <2>3. Home(current) \in {"A", "B"}
    BY DEF Home
  <2>4. QED  BY <1>1, <2>2, <2>3 DEF LineType, After
<1>4. LineOK(x)
  BY <1>1, <1>3, ProgramAssumption DEF LineOK, Ops
<1>5. Follows(y, x)
  BY <1>2, <1>3, ProgramAssumption DEF Follows, EntersFunction
<1>6. \A i \in 1 .. Len(text) : SameOwner(x, text[i])
  BY <1>3 DEF SameOwner, Own, Lines, ProgramTypeOK
<1> HIDE DEF x, y
<1>7. Emit(<<x>>)
  BY DEF x
<1>8. /\ current' \in Funs /\ current \in {"none", current'} /\ x.fun = current'
      /\ first' = (current' = main) /\ (current' = main => isMain') /\ After(x) = Home(x.fun)
  BY <1>1, <1>2, <1>3, Zenon
<1>9. Follows(text[Len(text)], x)
  BY <1>5 DEF y
<1>10. QED  BY <1>3, <1>4, <1>6, <1>7, <1>8, <1>9, OneLine, Zenon

LEMMA CallMeets ==
  ASSUME ProgramTypeOK, Meets, NEW to \in (Funs \ {main}) \cup {"any"}, NEW size \in 0 .. 1,
         Call(to, size), hit' = {}
  PROVE  Meets'
<1> DEFINE y == text[Len(text)]
<1>1. current \in Funs /\ UNCHANGED <<current, isMain, first>>
  BY DEF Call, InFunction, ProgramTypeOK
<1>2. /\ first = (current = main) /\ (current = main => isMain)
      /\ y.fun = current /\ After(y) = Home(current)
  <2>1. current # "none"
    BY <1>1, ProgramAssumption
  <2>2. QED  BY <2>1, Zenon DEF Meets, PrinterOK
<1>3. to \notin Labels /\ to \in Dests /\ "none" \notin Labels /\ "A" \notin Labels /\ "B" \notin Labels
  BY ProgramAssumption DEF Dests
<1>4. CASE isMain
  <2>0. current = main
    BY <1>4 DEF Call, Mark
  <2>1. current = main /\ first
    BY <1>2, <2>0, Zenon
  <2> DEFINE a == Swap(first)
             b == CallLine(to, ~first)
             c == Line("star", "none", current, BankOf(~first))
             d == Swap(~first)
             u == <<a, b>> \o [k \in 1 .. size |-> c] \o <<d>>
  <2>2. /\ a = Line("regbank", "B", main, "A") /\ b = Line("call", to, main, "B")
        /\ c = Line("star", "none", main, "B") /\ d = Line("regbank", "A", main, "B")
    BY <2>1 DEF Swap, CallLine, BankOf
  <2>3. a \in LineType /\ b \in LineType /\ c \in LineType /\ d \in LineType
    BY <2>2, <1>3, ProgramAssumption DEF Line, LineType, Ops, Dests
  <2>4. LineOK(a) /\ LineOK(b) /\ LineOK(c) /\ LineOK(d)
    BY <2>2 DEF Line, LineOK
  <2>5. Follows(y, a) /\ Follows(a, b) /\ Follows(b, c) /\ Follows(b, d) /\ Follows(c, d) /\ Follows(c, c)
    <3>1. /\ a.op = "regbank" /\ a.to = "B" /\ a.fun = main /\ a.bank = "A"
          /\ b.op = "call" /\ b.fun = main /\ b.bank = "B"
          /\ c.op = "star" /\ c.fun = main /\ c.bank = "B"
          /\ d.op = "regbank" /\ d.fun = main /\ d.bank = "B"
      BY <2>2 DEF Line
    <3>2. After(y) = "A" /\ y.fun = main
      BY <1>2, <2>1 DEF Home
    <3> HIDE DEF a, b, c, d, y
    <3>3. QED  BY <3>1, <3>2 DEF Follows, After, EntersFunction
  <2>6. \A x : SameOwner(a, x) /\ SameOwner(b, x) /\ SameOwner(c, x) /\ SameOwner(d, x)
    BY <1>3, <2>2 DEF Line, SameOwner
  <2>7. /\ a.op \notin {"jump", "jumpif"} /\ b.op \notin {"jump", "jumpif"}
        /\ c.op \notin {"jump", "jumpif"} /\ d.op \notin {"jump", "jumpif"}
        /\ After(d) = Home(main) /\ d.fun = main
    BY <2>2 DEF Line, After, Home
  <2>8. Emit(u)
    BY <1>4 DEF Call
  <2> HIDE DEF a, b, c, d
  <2>9. /\ u \in Seq(LineType) /\ Len(u) = size + 3
        /\ u[1] = a /\ u[2] = b /\ u[size + 3] = d
        /\ \A k \in 1 .. size : u[2 + k] = c
    <3>1. u = <<a, b>> \o [k \in 1 .. size |-> c] \o <<d>> /\ size \in Nat
      BY <2>3
    <3> HIDE DEF u
    <3> QED BY <2>3, <3>1, CallLines
  <2> HIDE DEF u
  <2>10. \A k \in 1 .. Len(u) : u[k] \in {a, b, c, d}
    <3>1. CASE size = 0
      BY <3>1, <2>9
    <3>2. CASE size = 1
      BY <3>2, <2>9
    <3>3. QED  BY <3>1, <3>2
  <2>11. \A k \in 1 .. Len(u) - 1 : Follows(u[k], u[k + 1])
    <3>1. CASE size = 0
      BY <3>1, <2>9, <2>5
    <3>2. CASE size = 1
      BY <3>2, <2>9, <2>5
    <3>3. QED  BY <3>1, <3>2
  <2>12. Chunk(text, u)
    BY <2>4, <2>5, <2>6, <2>9, <2>10, <2>11 DEF Chunk
  <2>13. u[Len(u)] = d /\ Len(u) >= 1
    BY <2>9
  <2>14. \A k \in 1 .. Len(u) : u[k].op \notin {"jump", "jumpif"}
    BY <2>7, <2>10
  <2>15. QED  BY <1>1, <1>2, <2>1, <2>7, <2>8, <2>9, <2>12, <2>13, <2>14, EmitMeets
<1>5. CASE ~isMain
  <2> DEFINE x == CallLine(to, first)
  <2>1. current # main /\ ~first
    BY <1>2, <1>5, Zenon
  <2>2. x = Line("call", to, current, "B")
    BY <2>1 DEF CallLine, BankOf
  <2>3. x \in LineType /\ LineOK(x) /\ x.fun = current /\ After(x) = Home(current)
    BY <1>1, <1>3, <2>1, <2>2, ProgramAssumption DEF Line, LineType, Ops, LineOK, After, Home
  <2>4. Follows(y, x)
    BY <1>1, <1>2, <2>1, <2>2, ProgramAssumption DEF Line, Follows, EntersFunction, Home
  <2>5. \A i \in 1 .. Len(text) : SameOwner(x, text[i])
    BY <1>3, <2>2 DEF Line, SameOwner
  <2>6. Emit(<<x>>)
    BY <1>5 DEF Call
  <2> HIDE DEF x
  <2>7. /\ current' \in Funs /\ current \in {"none", current'} /\ x.fun = current'
        /\ first' = (current' = main) /\ (current' = main => isMain') /\ After(x) = Home(x.fun)
    BY <1>1, <1>2, <2>3, Zenon
  <2>8. QED  BY <2>3, <2>4, <2>5, <2>6, <2>7, OneLine, Zenon
<1>6. QED  BY <1>4, <1>5

LEMMA EndFunctionMeets ==
  ASSUME ProgramTypeOK, Meets, EndFunction
  PROVE  Meets'
<1>1. /\ UNCHANGED <<text, pc, bank, stack, fault>> /\ current' = "none" /\ pc = 0
      /\ \A i \in Lines : text[i].fun = current /\ text[i].op \in {"jump", "jumpif"}
                           => Defined(text[i].to)
  BY DEF EndFunction, processor
<1>2. TextOK(text)' /\ ProcessorTypeOK'
  BY <1>1 DEF Meets, TextOK, ProcessorTypeOK
<1>3. Lines' = Lines /\ \A l : Defined(l)' <=> Defined(l)
  BY <1>1 DEF Lines, Defined
<1>4. PrinterOK'
  BY <1>1, <1>3 DEF Meets, PrinterOK, After, Home
<1>5. 0 \notin Lines
  BY DEF ProgramTypeOK, Lines
<1>6. RunOK'
  BY <1>1, <1>3, <1>5 DEF Meets, RunOK, ReturnOK, Mains
<1>7. QED  BY <1>2, <1>4, <1>6 DEF Meets

LEMMA GlueMeets ==
  ASSUME ProgramTypeOK, Meets, Glue, hit' = {}
  PROVE  Meets'
<1> DEFINE x == Line("jump", "__sdcc_loop", "glue", "A")
           y == text[Len(text)]
           n == Len(text)
           u == LastLines
<1>1. /\ x \in LineType /\ x.op = "jump" /\ x.to = "__sdcc_loop" /\ x.fun = "glue" /\ x.bank = "A"
      /\ u \in Seq(LineType) /\ Len(u) = 1 /\ u[1] = x
  BY DEF LastLines, Line, LineType, Ops, Dests
<1>2. /\ text \in Seq(LineType) /\ n >= 3 /\ n \in Nat /\ Lines = 1 .. n
      /\ text' = text \o u /\ current = "none" /\ current' = "none" /\ pc = 0 /\ pc' = 1
      /\ UNCHANGED <<bank, stack, fault>>
  <2>1. text \in Seq(LineType) /\ n >= 3 /\ n \in Nat /\ Lines = 1 .. n
    BY DEF ProgramTypeOK, Lines
  <2>2. QED  BY <2>1, Zenon DEF Glue
<1> HIDE DEF x, u
<1>3. /\ Len(text') = n + 1 /\ text' \in Seq(LineType)
      /\ \A i \in 1 .. n : text'[i] = text[i]
      /\ text'[n + 1] = x
      /\ Lines' = 1 .. n + 1
  <2>1. /\ Len(text') = n + Len(u) /\ text' \in Seq(LineType)
        /\ \A i \in 1 .. n : text'[i] = text[i]
        /\ \A i \in 1 .. Len(u) : text'[n + i] = u[i]
    <3> DEFINE w == text \o u
    <3>1. /\ Len(w) = Len(text) + Len(u) /\ w \in Seq(LineType)
          /\ \A i \in 1 .. Len(text) : w[i] = text[i]
          /\ \A i \in 1 .. Len(u) : w[Len(text) + i] = u[i]
      <4>1. text \in Seq(LineType) /\ u \in Seq(LineType)
        BY <1>1, <1>2
      <4>2. QED  BY <4>1, Concat
    <3>2. text' = w
      BY <1>2
    <3> HIDE DEF w
    <3>3. QED  BY <3>1, <3>2
  <2>2. QED  BY <1>1, <2>1 DEF Lines
<1>4. TextOK(text)'
  <2>1. LineOK(x)
    BY <1>1, ProgramAssumption DEF LineOK, Home
  <2>2. Follows(y, x)
    <3>1. Last(text) = y
      BY DEF Last
    <3>2. Closes(y) \/ y.fun = main
      BY <3>1 DEF Glue, Mark
    <3>3. After(y) = Home(y.fun)
      BY DEF Meets, PrinterOK
    <3>4. QED  BY <1>1, <3>2, <3>3 DEF Closes, Follows, EntersFunction, Home
  <2>3. \A z : SameOwner(x, z)
    BY <1>1, ProgramAssumption DEF SameOwner
  <2>4. Chunk(text, u)
    BY <1>1, <2>1, <2>2, <2>3 DEF Chunk
  <2>5. TextOK(text \o u)
    <3>1. TextOK(text) /\ Len(u) >= 1 /\ Len(text) >= 3
      BY <1>1, <1>2 DEF Meets
    <3>2. QED  BY <1>1, <1>2, <2>4, <3>1, Grows, Zenon
  <2>6. QED  BY <1>2, <2>5 DEF TextOK
<1>5. \A l : Defined(l) => Defined(l)'
  <2>1. SUFFICES ASSUME NEW l, Defined(l) PROVE Defined(l)'
    OBVIOUS
  <2>2. PICK j \in 1 .. n : text[j].op = "label" /\ text[j].to = l
    BY <1>2, <2>1 DEF Defined
  <2>3. j \in Lines' /\ text'[j] = text[j]
    BY <1>2, <1>3
  <2>4. QED  BY <2>2, <2>3 DEF Defined
<1>6. PrinterOK'
  <2>1. text'[Len(text')] = x
    BY <1>2, <1>3
  <2>2. After(text[Len(text)])' = Home(text[Len(text)].fun)'
    BY <1>1, <2>1 DEF After, Home
  <2>3. ASSUME NEW i \in Lines' \ {1}, text'[i].op \in {"jump", "jumpif"}
        PROVE  Defined(text[i].to)'
    <3>1. CASE i = n + 1
      <4>1. Defined("__sdcc_loop")
        <5>1. 2 \in Lines
          BY <1>2
        <5>2. text[2].op = "label" /\ text[2].to = "__sdcc_loop"
          BY DEF Meets, TextOK, Line
        <5>3. QED  BY <5>1, <5>2 DEF Defined
      <4>2. text'[i].to = "__sdcc_loop"
        BY <3>1, <1>1, <1>3
      <4>3. QED  BY <4>1, <4>2, <1>5
    <3>2. CASE i \in 1 .. n
      <4>1. text'[i] = text[i] /\ text[i].fun # current
        <5>1. text[i] \in LineType /\ text'[i] = text[i]
          BY <3>2, <1>2, <1>3
        <5>2. QED  BY <5>1, <1>2, ProgramAssumption DEF LineType
      <4>2. Defined(text[i].to)
        BY <3>2, <4>1, <2>3, <1>2 DEF Meets, PrinterOK
      <4>3. QED  BY <4>1, <4>2, <1>5
    <3>3. QED  BY <3>1, <3>2, <1>2, <1>3
  <2>4. QED  BY <1>2, <2>2, <2>3 DEF PrinterOK
<1>7. ProcessorTypeOK'
  BY <1>2 DEF Meets, ProcessorTypeOK
<1>8. RunOK'
  <2>1. bank' = "A" /\ stack' = <<>> /\ fault' = "none" /\ Len(stack') = 0
    BY <1>2 DEF Meets, RunOK
  <2>2. Defined(main)'
    BY <1>5 DEF Glue
  <2>3. ASSUME NEW i \in Lines', text'[i].op = "call", text'[i].to # "any"
        PROVE  Defined(text[i].to)'
    <3>1. i \in 1 .. n
      BY <1>1, <1>2, <1>3, <2>3
    <3>2. text'[i] = text[i] /\ Defined(text[i].to)
      BY <3>1, <1>2, <1>3, <2>3 DEF Glue
    <3>3. QED  BY <3>2, <1>5
  <2>4. text'[1].bank = "A" /\ text'[1].fun = "glue"
    BY <1>4 DEF TextOK, Line
  <2>5. pc' = 1 /\ current' = "none"
    BY <1>2
  <2>6. QED  BY <2>1, <2>2, <2>3, <2>4, <2>5 DEF RunOK, Mains
<1>9. QED  BY <1>4, <1>6, <1>7, <1>8 DEF Meets

-----------------------------------------------------------------------------
(* The processor in a text that does not change.                           *)
ReturnsOK(s) ==
  /\ \A k \in 1 .. Len(s) : s[k] \in Lines => ReturnOK(text[s[k]])
  /\ Len(s) >= 1 /\ s[1] \in Lines => text[s[1]].fun \in Mains

LEMMA Moves ==
  ASSUME ProgramTypeOK, Meets, UNCHANGED printer, pc # 0, pc' # 0, ProcessorTypeOK',
         fault' # "underflow", ReturnsOK(stack'),
         pc' \in Lines => bank' = text[pc'].bank,
         pc' \in Lines /\ stack' = <<>> => text[pc'].fun \in Mains
  PROVE  Meets'
<1>1. text' = text /\ current' = current /\ first' = first /\ isMain' = isMain
  BY DEF printer
<1>2. TextOK(text)'
  BY <1>1 DEF Meets, TextOK
<1>3. Lines' = Lines /\ \A l : Defined(l)' <=> Defined(l)
  BY <1>1 DEF Lines, Defined
<1>4. PrinterOK'
  BY <1>1, <1>3 DEF Meets, PrinterOK, After, Home
<1>5. RunOK'
  BY <1>1, <1>3 DEF Meets, RunOK, ReturnsOK, ReturnOK, Mains
<1>6. QED  BY <1>2, <1>4, <1>5 DEF Meets

(* The next line, when control goes on to it.                              *)
LEMMA GoesOn ==
  ASSUME ProgramTypeOK, Meets, pc \in Lines, text[pc].op \notin {"jump", "ret"}, pc + 1 \in Lines
  PROVE  /\ text[pc + 1].bank = After(text[pc]) /\ ~EntersFunction(text[pc + 1])
         /\ text[pc + 1].fun = text[pc].fun \/ text[pc + 1].fun = "glue"
         /\ stack = <<>> => text[pc + 1].fun \in Mains
<1>1. pc \in 1 .. Len(text) - 1
  BY DEF ProgramTypeOK, Lines
<1>2. Follows(text[pc], text[pc + 1])
  BY <1>1 DEF Meets, TextOK
<1>3. stack = <<>> => text[pc].fun \in Mains
  BY DEF Meets, RunOK
<1>4. QED  BY <1>2, <1>3 DEF Follows, Mains

LEMMA AdvanceMeets ==
  ASSUME ProgramTypeOK, Meets, Pass \/ RegBank
  PROVE  Meets'
<1>1. /\ UNCHANGED <<printer, stack, fault>> /\ pc \in Lines /\ pc' = pc + 1 /\ bank' = After(text[pc])
      /\ text[pc].op \in {"star", "label", "jumpif", "regbank"}
  BY DEF Pass, RegBank, Runs, After, Meets, RunOK
<1>2. pc \in 1 .. Len(text) /\ Len(text) \in Nat
  BY <1>1 DEF Lines, ProgramTypeOK
<1>3. pc # 0 /\ pc' # 0 /\ pc' \in Nat
  BY <1>1, <1>2
<1>4. bank' \in {"A", "B"}
  <2>1. CASE Pass
    BY <2>1 DEF Pass, Meets, ProcessorTypeOK
  <2>2. CASE RegBank
    <3>1. text[pc].op = "regbank"
      BY <2>2 DEF RegBank, Runs
    <3>2. pc # 1
      BY <3>1 DEF Meets, TextOK, Line
    <3>3. LineOK(text[pc])
      BY <1>2, <3>2 DEF Meets, TextOK
    <3>4. QED  BY <2>2, <3>1, <3>3 DEF RegBank, LineOK
  <2>3. QED  BY <2>1, <2>2
<1>5. ProcessorTypeOK'
  BY <1>1, <1>3, <1>4 DEF Meets, ProcessorTypeOK
<1>6. ReturnsOK(stack') /\ fault' # "underflow"
  BY <1>1 DEF Meets, RunOK, ReturnsOK
<1>7. pc' \in Lines => bank' = text[pc'].bank /\ (stack' = <<>> => text[pc'].fun \in Mains)
  BY <1>1, GoesOn
<1>8. QED  BY <1>1, <1>3, <1>5, <1>6, <1>7, Moves

LEMMA Target ==
  ASSUME ProgramTypeOK, Meets, NEW i \in Lines, i # 1 \/ pc = 1, pc # 0,
         text[i].op \in {"jump", "jumpif"}
  PROVE  LET j == Where(text[i].to) IN
           /\ j \in Lines /\ text[j].bank = text[i].bank
           /\ text[i].fun \in Mains => text[j].fun \in Mains
           /\ i # 1 => ~EntersFunction(text[j])
<1> DEFINE j == Where(text[i].to)
<1>0. i \in 1 .. Len(text) /\ Len(text) \in Nat /\ Lines = 1 .. Len(text)
  BY DEF Lines, ProgramTypeOK
<1>1. Defined(text[i].to)
  <2>1. CASE i = 1
    BY <2>1 DEF Meets, RunOK, TextOK, Line
  <2>2. CASE i # 1
    <3>1. text[i].fun # current
      <4>1. text[i] \in LineType
        BY <1>0 DEF ProgramTypeOK
      <4>2. current = "none"
        BY DEF Meets, RunOK
      <4>3. QED  BY <4>1, <4>2, ProgramAssumption DEF LineType
    <3>2. QED  BY <2>2, <3>1 DEF Meets, PrinterOK
  <2>3. QED  BY <2>1, <2>2
<1>2. j \in Lines /\ text[j].op = "label" /\ text[j].to = text[i].to
  BY <1>1, WhereIs
<1> HIDE DEF j
<1>3. j \in 2 .. Len(text)
  BY <1>0, <1>2 DEF Meets, TextOK, Line
<1>4. LineOK(text[j])
  BY <1>3 DEF Meets, TextOK
<1>5. CASE i = 1
  <2>1. text[i].to = main /\ text[i].bank = "A"
    BY <1>5 DEF Meets, TextOK, Line
  <2>2. QED  BY <2>1, <1>2, <1>4, <1>5, ProgramAssumption DEF LineOK, Home, Mains, j
<1>6. CASE i # 1
  <2>1. LineOK(text[i])
    BY <1>0, <1>6 DEF Meets, TextOK
  <2>2. SameOwner(text[i], text[j])
    BY <1>0, <1>2 DEF Meets, TextOK
  <2>3. text[j].fun = text[i].fun /\ text[j].to \notin Funs
    BY <2>1, <2>2, <1>2, <1>4, ProgramAssumption DEF LineOK, SameOwner
  <2>4. text[j].bank = text[i].bank
    BY <2>1, <2>3, <1>2, <1>4 DEF LineOK
  <2>5. QED  BY <2>3, <2>4, <1>2 DEF EntersFunction, j
<1>7. QED  BY <1>5, <1>6

LEMMA JumpMeets ==
  ASSUME ProgramTypeOK, Meets, Jump
  PROVE  Meets'
<1>1. /\ UNCHANGED <<printer, bank, stack, fault>> /\ pc \in Lines /\ pc' = Where(text[pc].to)
      /\ text[pc].op \in {"jump", "jumpif"}
  BY DEF Jump, Runs
<1>2. pc # 0 /\ (pc # 1 \/ pc = 1)
  BY <1>1 DEF Lines, ProgramTypeOK
<1>3. /\ pc' \in Lines /\ text[pc'].bank = text[pc].bank
      /\ text[pc].fun \in Mains => text[pc'].fun \in Mains
  BY <1>1, <1>2, Target
<1>4. pc' \in Nat /\ pc' # 0
  BY <1>3 DEF Lines, ProgramTypeOK
<1>5. ProcessorTypeOK'
  BY <1>1, <1>4 DEF Meets, ProcessorTypeOK
<1>6. ReturnsOK(stack') /\ fault' # "underflow"
  BY <1>1 DEF Meets, RunOK, ReturnsOK
<1>7. bank' = text[pc'].bank /\ (stack' = <<>> => text[pc'].fun \in Mains)
  BY <1>1, <1>3 DEF Meets, RunOK
<1>8. QED  BY <1>1, <1>2, <1>4, <1>5, <1>6, <1>7, Moves

LEMMA CallToMeets ==
  ASSUME ProgramTypeOK, Meets, NEW f \in Funs, CallTo(f)
  PROVE  Meets'
<1>1. /\ UNCHANGED <<printer, bank, fault>> /\ pc \in Lines /\ text[pc].op = "call"
      /\ pc' = Where(f) /\ stack' = Append(stack, pc + 1)
      /\ f \in (IF text[pc].to = "any" THEN Callees ELSE {text[pc].to})
  BY DEF CallTo, Runs, Push
<1>2. pc \in 1 .. Len(text) /\ Len(text) \in Nat /\ pc # 0 /\ Lines = 1 .. Len(text)
  BY <1>1 DEF Lines, ProgramTypeOK
<1>3. pc # 1
  BY <1>1 DEF Meets, TextOK, Line
<1>4. LineOK(text[pc])
  BY <1>2, <1>3 DEF Meets, TextOK
<1>5. text[pc].bank = "B" /\ bank = "B" /\ f \in Funs \ {main} /\ Defined(f)
  BY <1>1, <1>2, <1>4 DEF LineOK, Meets, RunOK, Callees
<1>6. pc' \in Lines /\ text[pc'].op = "label" /\ text[pc'].to = f
  BY <1>1, <1>5, WhereIs
<1>7. pc' \in 2 .. Len(text)
  BY <1>2, <1>6 DEF Meets, TextOK, Line
<1>8. LineOK(text[pc'])
  BY <1>7 DEF Meets, TextOK
<1>9. text[pc'].bank = "B"
  BY <1>5, <1>6, <1>8, ProgramAssumption DEF LineOK, Home
<1>10. stack \in Seq(Nat \ {0}) /\ pc + 1 \in Nat \ {0} /\ pc' \in Nat /\ pc' # 0
  BY <1>2, <1>7 DEF Meets, ProcessorTypeOK
<1>11. ProcessorTypeOK'
  BY <1>1, <1>10 DEF Meets, ProcessorTypeOK
<1>12. ReturnsOK(stack')
  <2>1. pc + 1 \in Lines =>
          /\ ReturnOK(text[pc + 1]) /\ (stack = <<>> => text[pc + 1].fun \in Mains)
    BY <1>1, <1>5, GoesOn DEF ReturnOK, After
  <2>2. ReturnsOK(stack)
    BY DEF Meets, RunOK, ReturnsOK
  <2>3. /\ Len(stack') = Len(stack) + 1 /\ Len(stack) \in Nat
        /\ \A k \in 1 .. Len(stack) : stack'[k] = stack[k]
        /\ stack'[Len(stack) + 1] = pc + 1
    BY <1>1, <1>10
  <2>4. CASE Len(stack) = 0
    <3>1. stack = <<>>
      BY <2>4, <1>10
    <3>2. Len(stack') = 1 /\ stack'[1] = pc + 1
      BY <2>3, <2>4
    <3>3. QED  BY <2>1, <3>1, <3>2 DEF ReturnsOK
  <2>5. CASE Len(stack) >= 1
    <3>1. ASSUME NEW k \in 1 .. Len(stack'), stack'[k] \in Lines
          PROVE  ReturnOK(text[stack'[k]])
      <4>1. CASE k \in 1 .. Len(stack)
        <5>1. stack'[k] = stack[k]
          BY <4>1, <2>3
        <5>2. QED  BY <4>1, <5>1, <2>2, <3>1 DEF ReturnsOK
      <4>2. CASE k = Len(stack) + 1
        <5>1. stack'[k] = pc + 1
          BY <4>2, <2>3
        <5>2. QED  BY <5>1, <2>1, <3>1
      <4>3. QED  BY <4>1, <4>2, <2>3
    <3>2. stack'[1] = stack[1]
      BY <2>3, <2>5
    <3>3. QED  BY <2>2, <2>5, <3>1, <3>2 DEF ReturnsOK
  <2>6. QED  BY <2>3, <2>4, <2>5
<1>13. stack' # <<>>
  BY <1>1, <1>10
<1>14. fault' # "underflow"
  BY <1>1 DEF Meets, RunOK
<1>15. QED  BY <1>1, <1>2, <1>5, <1>9, <1>10, <1>11, <1>12, <1>13, <1>14, Moves

LEMMA ReturnToMeets ==
  ASSUME ProgramTypeOK, Meets, ReturnTo
  PROVE  Meets'
<1>1. /\ UNCHANGED <<printer, bank, fault>> /\ pc \in Lines /\ text[pc].op = "ret" /\ stack # <<>>
      /\ pc' = stack[Len(stack)] /\ stack' = SubSeq(stack, 1, Len(stack) - 1)
  BY DEF ReturnTo, Runs, Last, Front
<1>2. pc \in 1 .. Len(text) /\ Len(text) \in Nat /\ pc # 0
  BY <1>1 DEF Lines, ProgramTypeOK
<1>3. pc # 1
  BY <1>1 DEF Meets, TextOK, Line
<1>4. LineOK(text[pc])
  BY <1>2, <1>3 DEF Meets, TextOK
<1>5. text[pc].bank = "B" /\ bank = "B"
  BY <1>1, <1>4, ProgramAssumption DEF LineOK, Home, Meets, RunOK
<1>6. stack \in Seq(Nat \ {0}) /\ Len(stack) \in Nat /\ Len(stack) >= 1
  BY <1>1 DEF Meets, ProcessorTypeOK
<1>7. /\ stack' \in Seq(Nat \ {0}) /\ Len(stack') = Len(stack) - 1
      /\ \A k \in 1 .. Len(stack) - 1 : stack'[k] = stack[k]
  <2>1. stack' = [k \in 1 .. Len(stack) - 1 |-> stack[k]]
    BY <1>1, <1>6
  <2>2. \A k \in 1 .. Len(stack) - 1 : k \in 1 .. Len(stack)
    BY <1>6
  <2>3. \A k \in 1 .. Len(stack) : stack[k] \in Nat \ {0}
    BY <1>6
  <2>4. QED  BY <1>6, <2>1, <2>2, <2>3
<1>8. ReturnsOK(stack)
  BY DEF Meets, RunOK, ReturnsOK
<1>9. ReturnsOK(stack')
  BY <1>6, <1>7, <1>8 DEF ReturnsOK
<1>10. pc' \in Lines => ReturnOK(text[pc'])
  BY <1>1, <1>6, <1>8 DEF ReturnsOK
<1>11. pc' \in Lines /\ stack' = <<>> => text[pc'].fun \in Mains
  <2>1. stack' = <<>> => Len(stack) = 1
    BY <1>6, <1>7
  <2>2. QED  BY <2>1, <1>1, <1>6, <1>8 DEF ReturnsOK
<1>12. pc' \in Nat \ {0}
  BY <1>1, <1>6
<1>13. ProcessorTypeOK'
  BY <1>1, <1>7, <1>12 DEF Meets, ProcessorTypeOK
<1>14. pc' \in Lines => bank' = text[pc'].bank
  BY <1>1, <1>5, <1>10 DEF ReturnOK
<1>15. fault' # "underflow"
  BY <1>1 DEF Meets, RunOK
<1>16. QED  BY <1>1, <1>2, <1>9, <1>11, <1>12, <1>13, <1>14, <1>15, Moves

LEMMA FaultMeets ==
  ASSUME ProgramTypeOK, Meets, Overflow \/ Underflow
  PROVE  Meets'
<1>1. /\ UNCHANGED <<printer, pc, bank, stack>> /\ pc \in Lines
      /\ fault' \in {"overflow", "underflow"}
  BY DEF Overflow, Underflow, Runs
<1>2. pc \in 1 .. Len(text) /\ Len(text) \in Nat /\ pc # 0
  BY <1>1 DEF Lines, ProgramTypeOK
<1>3. fault' # "underflow"
  <2>1. CASE Overflow
    BY <2>1 DEF Overflow
  <2>2. CASE Underflow
    <3>1. text[pc].op = "ret" /\ stack = <<>>
      BY <2>2 DEF Underflow, Runs
    <3>2. pc # 1
      BY <3>1 DEF Meets, TextOK, Line
    <3>3. LineOK(text[pc])
      BY <1>2, <3>2 DEF Meets, TextOK
    <3>4. text[pc].fun \in Mains /\ text[pc].fun \in Funs \ {main}
      BY <1>1, <3>1, <3>3 DEF LineOK, Meets, RunOK
    <3>5. QED  BY <3>4, ProgramAssumption DEF Mains
  <2>3. QED  BY <2>1, <2>2
<1>4. ProcessorTypeOK'
  BY <1>1 DEF Meets, ProcessorTypeOK
<1>5. ReturnsOK(stack')
  BY <1>1 DEF Meets, RunOK, ReturnsOK
<1>6. pc' \in Lines => bank' = text[pc'].bank /\ (stack' = <<>> => text[pc'].fun \in Mains)
  BY <1>1 DEF Meets, RunOK
<1>7. pc' # 0
  BY <1>1, <1>2
<1>8. QED  BY <1>1, <1>2, <1>3, <1>4, <1>5, <1>6, <1>7, Moves

-----------------------------------------------------------------------------
(* The invariant.                                                          *)
LEMMA HandlerMeets ==
  ASSUME ProgramTypeOK, Meets, Handler, hit' = {}
  PROVE  Meets'
<1>1. ASSUME NEW l \in Labels, Label(l) \/ GoTo(l) \/ Ifx(l)
      PROVE  Meets'
  <2>1. l \in Dests
    BY DEF Dests
  <2>2. PICK op \in {"label", "jump", "jumpif"} : InFunction /\ Emit(<<Here(op, l)>>) /\ Own(l)
    BY <1>1 DEF Label, GoTo, Ifx
  <2>3. op \in Ops \ {"regbank", "call", "star"} /\ op # "ret"
    BY DEF Ops
  <2>4. QED  BY <2>1, <2>2, <2>3, HereMeets
<1>2. CASE Return
  <2>1. "none" \in Dests /\ "none" \notin Labels /\ "ret" \in Ops \ {"regbank", "call", "star"}
    BY ProgramAssumption DEF Dests, Ops
  <2>2. InFunction /\ Emit(<<Here("ret", "none")>>) /\ current # main
    BY <1>2 DEF Return, Mark
  <2>3. QED  BY <2>1, <2>2, HereMeets
<1>3. QED  BY <1>1, <1>2, FunctionMeets, EndFunctionMeets, CallMeets DEF Handler

LEMMA StepMeets ==
  ASSUME ProgramTypeOK, Meets, Step
  PROVE  Meets'
BY AdvanceMeets, JumpMeets, CallToMeets, ReturnToMeets, FaultMeets DEF Step

LEMMA InvInit == ProgramInit => ProgramInv
<1> SUFFICES ASSUME ProgramInit PROVE ProgramInv
  OBVIOUS
<1>1. ProgramTypeOK
  BY InitType
<1>2. /\ Len(text) = 3 /\ text[1] = Line("jump", main, "glue", "A")
      /\ text[2] = Line("label", "__sdcc_loop", "glue", "A")
      /\ text[3] = Line("jump", "__sdcc_loop", "glue", "A")
  BY DEF ProgramInit, Startup
<1>3. Lines = 1 .. 3
  BY <1>2, <1>1 DEF Lines, ProgramTypeOK
<1>4. TextOK(text)
  <2>1. LineOK(text[2]) /\ LineOK(text[3])
    BY <1>2, ProgramAssumption DEF Line, LineOK, Home
  <2>2. Follows(text[1], text[2]) /\ Follows(text[2], text[3])
    BY <1>2 DEF Line, Follows, After, EntersFunction
  <2>3. \A i \in 1 .. 3 : text[i].to \notin Labels
    BY <1>2, ProgramAssumption DEF Line
  <2>4. QED  BY <1>2, <2>1, <2>2, <2>3 DEF TextOK, SameOwner
<1>5. PrinterOK
  <2>1. After(text[3]) = Home(text[3].fun)
    BY <1>2 DEF Line, After, Home
  <2>2. Defined("__sdcc_loop")
    BY <1>2, <1>3 DEF Defined, Line
  <2>3. \A i \in Lines \ {1} : text[i].to = "__sdcc_loop"
    BY <1>2, <1>3 DEF Line
  <2>4. QED  BY <1>2, <2>1, <2>2, <2>3 DEF PrinterOK, ProgramInit
<1>6. RunOK /\ ProcessorTypeOK
  BY <1>3 DEF ProgramInit, RunOK, ProcessorTypeOK
<1>7. QED  BY <1>1, <1>4, <1>5, <1>6 DEF ProgramInv, Meets

LEMMA InvNext == ProgramInv /\ [ProgramNext]_programVars => ProgramInv'
<1> SUFFICES ASSUME ProgramInv, [ProgramNext]_programVars PROVE ProgramInv'
  OBVIOUS
<1>1. ProgramTypeOK /\ (hit = {} => Meets)
  BY DEF ProgramInv
<1>2. CASE Handler
  <2>1. hit' = {} => hit = {}
    BY <1>2 DEF Handler, Function, EndFunction, Label, GoTo, Ifx, Call, Return, Mark
  <2>2. QED  BY <1>1, <1>2, <2>1, HandlerType, HandlerMeets DEF ProgramInv
<1>3. CASE Glue
  <2>1. hit' = {} => hit = {}
    BY <1>3 DEF Glue, Mark
  <2>2. QED  BY <1>1, <1>3, <2>1, GlueType, GlueMeets DEF ProgramInv
<1>4. CASE Step
  <2>1. UNCHANGED printer
    BY <1>4 DEF Step, Pass, Jump, RegBank, CallTo, ReturnTo, Overflow, Underflow, Runs
  <2>2. ProgramTypeOK' /\ hit' = hit
    BY <1>1, <2>1 DEF printer, ProgramTypeOK
  <2>3. QED  BY <1>1, <1>4, <2>2, StepMeets DEF ProgramInv
<1>5. CASE UNCHANGED programVars
  <2>1. UNCHANGED <<text, current, isMain, first, hit, pc, bank, stack, fault>>
    BY <1>5 DEF programVars, printer, processor
  <2>2. ProgramTypeOK' /\ hit' = hit
    BY <1>1, <2>1 DEF ProgramTypeOK
  <2>3. ASSUME Meets PROVE Meets'
    <3>1. TextOK(text)' /\ ProcessorTypeOK'
      BY <2>1, <2>3 DEF Meets, TextOK, ProcessorTypeOK
    <3>2. Lines' = Lines /\ \A l : Defined(l)' <=> Defined(l)
      BY <2>1 DEF Lines, Defined
    <3>3. PrinterOK' /\ RunOK'
      BY <2>1, <2>3, <3>2 DEF Meets, PrinterOK, RunOK, After, Home, ReturnOK, Mains
    <3>4. QED  BY <3>1, <3>3 DEF Meets
  <2>4. QED  BY <1>1, <2>2, <2>3 DEF ProgramInv
<1>6. QED  BY <1>2, <1>3, <1>4, <1>5 DEF ProgramNext

LEMMA InvAlways == ProgramSpec => []ProgramInv
BY InvInit, InvNext, PTL DEF ProgramSpec

(* For every program, the text has its form throughout (gen.cc, glue.cc).  *)
THEOREM ProgramTypeCorrect == ProgramSpec => []ProgramTypeOK
<1>1. ProgramInv => ProgramTypeOK
  BY DEF ProgramInv
<1>2. QED  BY <1>1, InvAlways, PTL

(* For every program in which main does not return, no function is left    *)
(* open and none after main calls, each instruction finds the bank it was  *)
(* printed for (Bank::choose and Bank::swap).                              *)
THEOREM BankAlwaysAsBelieved == ProgramSpec => []BankAsBelieved
<1>1. ProgramInv => BankAsBelieved
  BY DEF ProgramInv, Meets, RunOK, BankAsBelieved
<1>2. QED  BY <1>1, InvAlways, PTL

(* In such a program no return finds the call stack empty.                 *)
THEOREM NeverUnderflows == ProgramSpec => []NoUnderflow
<1>1. ProgramInv => NoUnderflow
  BY DEF ProgramInv, Meets, RunOK, NoUnderflow
<1>2. QED  BY <1>1, InvAlways, PTL

(* In such a program control enters a function by a call alone.            *)
THEOREM AlwaysEntersByCall == ProgramSpec => EntersByCall
<1> DEFINE A == hit = {} /\ pc' \in Lines /\ text[pc'].op = "label" /\ text[pc'].to \in Funs
                  /\ pc > 1 => text[pc].op = "call"
<1>1. ProgramInv /\ [ProgramNext]_programVars => [A]_processor
  <2>1. SUFFICES ASSUME ProgramInv, [ProgramNext]_programVars, hit = {}, pc' \in Lines,
                        EntersFunction(text[pc']), pc > 1, processor' # processor
                 PROVE  text[pc].op = "call"
    BY DEF EntersFunction
  <2>2. ProgramTypeOK /\ Meets
    BY <2>1 DEF ProgramInv
  <2>3. Step
    <3>1. ~Glue
      <4>1. pc # 0
        BY <2>1
      <4>2. QED  BY <4>1, Zenon DEF Glue
    <3>2. ~Handler
      BY <2>1 DEF Handler, Function, EndFunction, Label, GoTo, Ifx, Call, Return, Emit
    <3>3. QED  BY <2>1, <3>1, <3>2 DEF ProgramNext, programVars
  <2>4. CASE Pass \/ RegBank
    <3>1. /\ pc \in Lines /\ pc' = pc + 1 /\ text[pc].op \notin {"jump", "ret"}
      BY <2>4 DEF Pass, RegBank, Runs
    <3>2. QED  BY <2>1, <2>2, <3>1, GoesOn
  <2>5. CASE Jump
    <3>1. pc \in Lines /\ pc' = Where(text[pc].to) /\ text[pc].op \in {"jump", "jumpif"}
      BY <2>5 DEF Jump, Runs
    <3>2. pc # 1 /\ pc # 0
      BY <2>1, <3>1 DEF Lines, ProgramTypeOK
    <3>3. QED  BY <2>1, <2>2, <3>1, <3>2, Target
  <2>6. CASE \E f \in Funs : CallTo(f)
    BY <2>6 DEF CallTo, Runs
  <2>7. CASE ReturnTo
    <3>1. stack # <<>> /\ pc' = stack[Len(stack)]
      BY <2>7 DEF ReturnTo, Last
    <3>2. Len(stack) \in 1 .. Len(stack)
      BY <2>2, <3>1 DEF Meets, ProcessorTypeOK
    <3>3. QED  BY <2>1, <2>2, <3>1, <3>2 DEF Meets, RunOK, ReturnOK
  <2>8. CASE Overflow \/ Underflow
    BY <2>1, <2>8 DEF Overflow, Underflow, Runs, EntersFunction
  <2>9. QED  BY <2>3, <2>4, <2>5, <2>6, <2>7, <2>8 DEF Step
<1>2. QED  BY <1>1, InvAlways, PTL DEF ProgramSpec, EntersByCall
=============================================================================
