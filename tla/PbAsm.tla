------------------------------- MODULE PbAsm -------------------------------
(***************************************************************************)
(* The two passes of the assembler (pbParser.c): build reads every line    *)
(* and gives the symbols their values; assemble reads the lines again and  *)
(* fills the code.  A line is a label, an opcode or a directive; a label   *)
(* and an opcode on one line are two lines here.  An expression is a       *)
(* number, a name or ".", and the symbol table is the list of the          *)
(* definitions of each name in the order a search passes them (PbSymbols). *)
(* A line takes the record m, of g, the table and whether there was no     *)
(* error, to the next one.                                                 *)
(* Registers, strings and .DEF macros are left out, and both passes stop   *)
(* at their first error.                                                   *)
(***************************************************************************)
EXTENDS Integers, Sequences, SequencesExt

CONSTANTS
  Plain, Dotted,      \* names; those with a dot are redefinable labels
  Lines,              \* the lines a source may have
  MAXLINES,           \* bound: lines of a source
  CODESIZE, CODERANGE, SCRSIZE, Ranges,  \* code and scratchpad sizes
  MAXESG,             \* nested data segments
  BYTE,               \* values of a byte
  Here, None

Names == Plain \union Dotted
Undef == -1

(* What a line may be: the directives in Named give a name, those in       *)
(* Valued need an expression.  loc is the location .SCR gives before its   *)
(* size, ranged is FALSE for a .WBE.                                       *)
Named == {"label", "equ", "set", "constant", "ds"}
Valued == {"jump", "load", "if", "org", "dsg", "align", "end", "equ", "set", "constant", "ds", "buf"}
Line == [op : Named \union Valued \union {"fi", "esg", "scr", "data"},
         name : Names \union {None}, arg : Names \union Nat \union {Here, None},
         loc : Names \union Nat \union {Here}, width : Nat \ {0}, ranged : BOOLEAN]

ASSUME AsmAssumption ==
  /\ {MAXLINES, CODESIZE, CODERANGE, SCRSIZE, MAXESG} \subseteq Nat /\ BYTE \in Nat \ {0}
  /\ Plain \intersect Dotted = {}
  /\ Here # None /\ {Here, None} \intersect Nat = {}
  /\ \A n \in Names : n \notin Nat /\ n \notin {Here, None}
  /\ \A l \in Lines :
       /\ l \in Line
       /\ l.op \in Named => l.name # None
       /\ l.op \in Valued => l.arg # None

VARIABLES
  pass, at,    \* the pass and the line it is at
  src,         \* the lines of the file, as far as read
  g,           \* gPC, gSCR, gESG, gCodeRange, gScrSize and bActive
  sym,         \* the symbol table
  gCode,       \* what each code address holds: its line and operand
  result,      \* no error yet
  trace,       \* ghost: g and the table at each line of each pass
  over         \* ghost: a .SET symbol was defined by another directive

asmVars == <<pass, at, src, g, sym, gCode, result, trace, over>>

Reset(esg) ==
  [pc |-> 0, scr |-> 0, esg |-> esg, range |-> CODERANGE, size |-> SCRSIZE, active |-> TRUE]

AsmInit ==
  /\ pass = 1 /\ at = 1 /\ src = <<>>
  /\ g = Reset(<<>>)
  /\ sym = [n \in Names |-> <<>>]
  /\ gCode = [a \in 0 .. CODESIZE - 1 |-> None]
  /\ result = TRUE /\ trace = [p \in 1 .. 2 |-> <<>>] /\ over = FALSE

-----------------------------------------------------------------------------
(* find_symbol, add_symbol and the value of an expression.                 *)
Known(m, n) == m.sym[n] # <<>>
Found(m, n) == m.sym[n][1]
IsDot(m, n) == Known(m, n) /\ Found(m, n).type = "LABEL" /\ Found(m, n).sub = "DOT"

Label(m, n) ==
  [type |-> "LABEL", sub |-> IF n \in Dotted THEN "DOT" ELSE "NONE", value |-> m.g.pc]
Value(sub, v) == [type |-> "VALUE", sub |-> sub, value |-> v]
Revalued(e, d) ==
  IF e.type = d.type /\ e.sub = "SET" THEN [e EXCEPT !.value = d.value] ELSE e
Refused(m, n, d) == n # None /\ d.sub # "SET" /\ d \in Range(m.sym[n])
Added(m, n, d) ==
  IF n = None THEN m.sym
  ELSE [m.sym EXCEPT ![n] = Append([k \in DOMAIN m.sym[n] |-> Revalued(m.sym[n][k], d)], d)]
Moved(m, n, v) == [m.sym EXCEPT ![n] = <<[Found(m, n) EXCEPT !.value = v]>> \o Tail(m.sym[n])]

Eval(m, e) ==
  IF e = Here THEN m.g.pc
  ELSE IF e \in Names THEN (IF Known(m, e) THEN Found(m, e).value ELSE Undef)
  ELSE e

(* A line has an error, or changes the counters and the symbols.           *)
Keep(h, s) == [ok |-> TRUE, g |-> h, sym |-> s]
Unless(m, error, h, s) == IF error THEN [m EXCEPT !.ok = FALSE] ELSE Keep(h, s)
IfActive(m, h) == IF m.g.active THEN h ELSE m.g

-----------------------------------------------------------------------------
(* Pass 1.  A name may be defined when it is new, or a .SET symbol.        *)
Takes(m, n) == n = None \/ ~Known(m, n) \/ Found(m, n).sub = "SET"
Rejects(m, n, d) == ~Takes(m, n) \/ Refused(m, n, d)

build_label(m, l) ==
  LET d == Label(m, l.name)
  IN  IF IsDot(m, l.name) THEN Keep(m.g, Moved(m, l.name, m.g.pc))
      ELSE Unless(m, Rejects(m, l.name, d), m.g, Added(m, l.name, d))

build_code(m, l) == Keep(IfActive(m, [m.g EXCEPT !.pc = @ + 1]), m.sym)

build_if(m, l) ==
  LET v == Eval(m, l.arg)
  IN  Unless(m, v = Undef, [m.g EXCEPT !.active = v # 0], m.sym)
build_fi(m, l) == Keep([m.g EXCEPT !.active = TRUE], m.sym)

build_org(m, l) ==
  LET v == Eval(m, l.arg)
  IN  Unless(m, v = Undef \/ v >= m.g.range, IfActive(m, [m.g EXCEPT !.pc = v]), m.sym)

(* .ESG takes gSCR back from gESG, .DSG puts it there.                     *)
Popped(m) == IfActive(m, [m.g EXCEPT !.scr = Last(m.g.esg), !.esg = Front(m.g.esg)])
Pushed(m, v) == IfActive(m, [m.g EXCEPT !.esg = Append(@, m.g.scr), !.scr = v])
build_esg(m, l) ==
  LET d == Value("INT", m.g.scr)
  IN  Unless(m, Rejects(m, l.name, d) \/ (m.g.active /\ m.g.esg = <<>>),
             Popped(m), Added(m, l.name, d))
build_dsg(m, l) ==
  LET v == Eval(m, l.arg)
  IN  Unless(m, v = Undef \/ v >= m.g.size \/ (m.g.active /\ Len(m.g.esg) >= MAXESG),
             Pushed(m, v), m.sym)

Aligned(m, v) == ((m.g.pc + v - 1) \div v) * v
build_align(m, l) ==
  LET v == Eval(m, l.arg)
  IN  Unless(m, v <= 0 \/ (m.g.active /\ Aligned(m, v) >= m.g.range),
             IfActive(m, [m.g EXCEPT !.pc = Aligned(m, v)]), m.sym)

build_end(m, l) ==
  LET v == Eval(m, l.arg)
  IN  Unless(m, v = Undef \/ v >= 2 * CODESIZE, IfActive(m, [m.g EXCEPT !.range = v + 1]), m.sym)

BadLoc(m, l) == Eval(m, l.loc) = Undef \/ (m.g.active /\ Eval(m, l.loc) >= m.g.range)
build_scr(m, l) ==
  LET v == Eval(m, l.arg)
  IN  IF l.arg = None THEN Unless(m, BadLoc(m, l), [m.g EXCEPT !.size = SCRSIZE], m.sym)
      ELSE Unless(m, BadLoc(m, l) \/ v = Undef \/ (m.g.active /\ (v > 2 * m.g.range \/ m.g.scr > v)),
                  IfActive(m, [m.g EXCEPT !.size = v]), m.sym)

build_equ(m, l) ==
  LET d == Value("INT", Eval(m, l.arg))
  IN  Unless(m, d.value = Undef \/ Rejects(m, l.name, d), m.g, Added(m, l.name, d))
build_set(m, l) ==
  LET d == Value("SET", Eval(m, l.arg))
  IN  Unless(m, d.value = Undef \/ Rejects(m, l.name, d), m.g, Added(m, l.name, d))
build_constant(m, l) ==
  LET d == Value("INT", Eval(m, l.arg))
  IN  Unless(m, d.value = Undef \/ Refused(m, l.name, d), m.g, Added(m, l.name, d))
build_ds(m, l) ==
  LET d == Value("INT", Eval(m, l.arg))
  IN  Unless(m, d.value = Undef \/ ~Takes(m, l.name) \/ (m.g.active /\ Refused(m, l.name, d)),
             m.g, IF m.g.active THEN Added(m, l.name, d) ELSE m.sym)

(* .BYT, .WBE, .LBE: one value of l.width bytes, or only the symbol.       *)
Filled(m, l) == IF l.arg = None THEN m.g ELSE IfActive(m, [m.g EXCEPT !.scr = @ + l.width])
Overfull(m, l) == l.arg # None /\ (Eval(m, l.arg) = Undef \/ Filled(m, l).scr > m.g.size)
build_dataAfter(m, l) ==  \* a slip: the symbol is the address after the data
  LET d == Value("INT", Filled(m, l).scr)
  IN  Unless(m, Rejects(m, l.name, d) \/ Overfull(m, l), Filled(m, l), Added(m, l.name, d))
build_data(m, l) ==
  LET d == Value("INT", m.g.scr)
  IN  Unless(m, Rejects(m, l.name, d) \/ Overfull(m, l), Filled(m, l), Added(m, l.name, d))
Buffer(m, v) == IfActive(m, [m.g EXCEPT !.scr = @ + v])
build_buf(m, l) ==
  LET d == Value("INT", m.g.scr % BYTE)
      v == Eval(m, l.arg)
  IN  Unless(m, Rejects(m, l.name, d) \/ v = Undef \/ (m.g.active /\ m.g.scr + v > m.g.size),
             Buffer(m, v), Added(m, l.name, d))

build(m, l) ==
  CASE l.op = "label" -> build_label(m, l)
    [] l.op \in {"jump", "load"} -> build_code(m, l)
    [] l.op = "if" -> build_if(m, l)
    [] l.op = "fi" -> build_fi(m, l)
    [] l.op = "org" -> build_org(m, l)
    [] l.op = "esg" -> build_esg(m, l)
    [] l.op = "dsg" -> build_dsg(m, l)
    [] l.op = "align" -> build_align(m, l)
    [] l.op = "end" -> build_end(m, l)
    [] l.op = "scr" -> build_scr(m, l)
    [] l.op = "equ" -> build_equ(m, l)
    [] l.op = "set" -> build_set(m, l)
    [] l.op = "constant" -> build_constant(m, l)
    [] l.op = "ds" -> build_ds(m, l)
    [] l.op = "data" -> build_data(m, l)
    [] l.op = "buf" -> build_buf(m, l)

-----------------------------------------------------------------------------
(* Pass 2.  An unknown name is an error, but skips an inactive line.       *)
Skips(m, l) == l.name # None /\ ~Known(m, l.name) /\ ~m.g.active
Unfit(m, n) == n # None /\ (~Known(m, n) \/ Found(m, n).type = "LABEL")
Symbol(m, l, error, h, s) ==
  IF Skips(m, l) THEN Keep(m.g, m.sym) ELSE Unless(m, Unfit(m, l.name) \/ error, h, s)

MisplacedNever(m, n) ==  \* a slip: no phasing error
  Found(m, n).type # "LABEL"
Misplaced(m, n) ==
  \/ Found(m, n).type # "LABEL"
  \/ Found(m, n).value # m.g.pc /\ Found(m, n).sub # "DOT"
assemble_labelStays(m, l) ==  \* a slip: dotted labels do not move in pass 2
  IF Known(m, l.name) THEN Unless(m, Misplaced(m, l.name), m.g, m.sym)
  ELSE Unless(m, m.g.active, m.g, m.sym)
assemble_label(m, l) ==
  IF Known(m, l.name) THEN Unless(m, Misplaced(m, l.name), m.g, Moved(m, l.name, m.g.pc))
  ELSE Unless(m, m.g.active, m.g, m.sym)

(* An opcode line: the opcodes differ in their operands only, and an       *)
(* operand is an address of the code or a byte.                            *)
Operand(m, l) == IF l.op = "jump" THEN Eval(m, l.arg) ELSE Eval(m, l.arg) % BYTE
BadOperand(m, l) ==
  Eval(m, l.arg) = Undef \/ (l.op = "jump" /\ Eval(m, l.arg) >= m.g.range)
assemble_code(m, l) ==
  Unless(m, BadOperand(m, l) \/ m.g.pc >= m.g.range,
         IfActive(m, [m.g EXCEPT !.pc = @ + 1]), m.sym)

assemble_if(m, l) ==
  LET v == Eval(m, l.arg)
  IN  Unless(m, v = Undef, [m.g EXCEPT !.active = v # 0], m.sym)
assemble_fi(m, l) == Keep([m.g EXCEPT !.active = TRUE], m.sym)

assemble_org(m, l) ==
  LET v == Eval(m, l.arg)
  IN  Unless(m, v = Undef \/ v >= m.g.range, IfActive(m, [m.g EXCEPT !.pc = v]), m.sym)

assemble_esg(m, l) == Symbol(m, l, m.g.active /\ m.g.esg = <<>>, Popped(m), m.sym)
assemble_dsgDeep(m, l) ==  \* a slip: the segments pass 1 left open are not counted
  LET v == Eval(m, l.arg)
  IN  Unless(m, v = Undef \/ v >= m.g.size, Pushed(m, v), m.sym)
assemble_dsg(m, l) ==
  LET v == Eval(m, l.arg)
  IN  Unless(m, v = Undef \/ v >= m.g.size \/ (m.g.active /\ Len(m.g.esg) >= MAXESG),
             Pushed(m, v), m.sym)

assemble_align(m, l) ==
  LET v == Eval(m, l.arg)
      h == IfActive(m, [m.g EXCEPT !.pc = Aligned(m, v)])
  IN  Unless(m, v <= 0 \/ h.pc >= m.g.range, h, m.sym)

assemble_end(m, l) ==
  LET v == Eval(m, l.arg)
  IN  Unless(m, v = Undef \/ v >= CODESIZE \/ (m.g.active /\ v + 1 \notin Ranges),
             IfActive(m, [m.g EXCEPT !.range = v + 1]), m.sym)

assemble_scr(m, l) ==
  LET v == Eval(m, l.arg)
      lost == Eval(m, l.loc) = Undef
  IN  IF l.arg = None THEN Unless(m, lost, IfActive(m, [m.g EXCEPT !.size = SCRSIZE]), m.sym)
      ELSE Unless(m, lost \/ v = Undef \/ (m.g.active /\ (v > CODESIZE \/ m.g.scr > v)),
                  IfActive(m, [m.g EXCEPT !.size = v]), m.sym)

assemble_equ(m, l) == Symbol(m, l, Eval(m, l.arg) = Undef, m.g, m.sym)
assemble_setOnce(m, l) ==  \* a slip: the symbol keeps the value of pass 1
  Symbol(m, l, Eval(m, l.arg) = Undef \/ Found(m, l.name).sub # "SET", m.g, m.sym)
assemble_set(m, l) ==
  LET v == Eval(m, l.arg)
  IN  Symbol(m, l, v = Undef \/ Found(m, l.name).sub # "SET", m.g, Moved(m, l.name, v))
assemble_constant(m, l) == Unless(m, Eval(m, l.arg) = Undef, m.g, m.sym)
assemble_ds(m, l) == Symbol(m, l, Eval(m, l.arg) = Undef, m.g, m.sym)

TooWide(m, l) == l.arg # None /\ Eval(m, l.arg) >= BYTE ^ l.width
Overruns(m, l) ==  \* the end of a .WBE is not compared with gScrSize again
  IF l.ranged THEN Overfull(m, l) ELSE l.arg # None /\ Eval(m, l.arg) = Undef
assemble_data(m, l) == Symbol(m, l, Overruns(m, l) \/ TooWide(m, l), Filled(m, l), m.sym)
assemble_buf(m, l) ==
  LET v == Eval(m, l.arg)
  IN  Symbol(m, l, v = Undef \/ (m.g.active /\ m.g.scr + v > m.g.size), Buffer(m, v), m.sym)

assemble(m, l) ==
  CASE l.op = "label" -> assemble_label(m, l)
    [] l.op \in {"jump", "load"} -> assemble_code(m, l)
    [] l.op = "if" -> assemble_if(m, l)
    [] l.op = "fi" -> assemble_fi(m, l)
    [] l.op = "org" -> assemble_org(m, l)
    [] l.op = "esg" -> assemble_esg(m, l)
    [] l.op = "dsg" -> assemble_dsg(m, l)
    [] l.op = "align" -> assemble_align(m, l)
    [] l.op = "end" -> assemble_end(m, l)
    [] l.op = "scr" -> assemble_scr(m, l)
    [] l.op = "equ" -> assemble_equ(m, l)
    [] l.op = "set" -> assemble_set(m, l)
    [] l.op = "constant" -> assemble_constant(m, l)
    [] l.op = "ds" -> assemble_ds(m, l)
    [] l.op = "data" -> assemble_data(m, l)
    [] l.op = "buf" -> assemble_buf(m, l)

-----------------------------------------------------------------------------
(* The driver: read the file, and read it again if there was no error.     *)
Now == [ok |-> result, g |-> g, sym |-> sym]
Becomes(m) == result' = m.ok /\ g' = m.g /\ sym' = m.sym
Traced(p) == trace' = [trace EXCEPT ![p] = Append(@, [g |-> g, sym |-> sym])]

Overwrites(m, l) ==
  /\ l.op \notin {"set", "jump", "load"}
  /\ l.name # None /\ Known(m, l.name) /\ Found(m, l.name).sub = "SET"

Pass1 ==
  /\ pass = 1 /\ result /\ Len(src) < MAXLINES
  /\ \E l \in Lines :
       /\ Becomes(build(Now, l))
       /\ src' = Append(src, l)
       /\ over' = (over \/ Overwrites(Now, l))
  /\ at' = at + 1 /\ Traced(1)
  /\ UNCHANGED <<pass, gCode>>

Rewind ==
  /\ pass = 1 /\ result /\ src # <<>>
  /\ pass' = 2 /\ at' = 1
  /\ g' = Reset(g.esg)
  /\ UNCHANGED <<src, sym, gCode, result, trace, over>>

(* An opcode in an active line is put into the code.                       *)
Emits(m, l) == l.op \in {"jump", "load"} /\ assemble(m, l).ok /\ m.g.active
Pass2 ==
  /\ pass = 2 /\ result /\ at <= Len(src)
  /\ Becomes(assemble(Now, src[at]))
  /\ gCode' = IF Emits(Now, src[at])
              THEN [gCode EXCEPT ![g.pc] = [line |-> at, operand |-> Operand(Now, src[at])]]
              ELSE gCode
  /\ at' = at + 1 /\ Traced(2)
  /\ UNCHANGED <<pass, src, over>>

AsmNext == Pass1 \/ Rewind \/ Pass2
AsmSpec == AsmInit /\ [][AsmNext]_asmVars

-----------------------------------------------------------------------------
Definitions == [type : {"LABEL", "VALUE"}, sub : {"NONE", "DOT", "INT", "SET"}, value : Nat]
Counters == [pc : Nat, scr : Nat, esg : Seq(Nat), range : Nat, size : Nat, active : BOOLEAN]
Tables == [Names -> Seq(Definitions)]
AsmTypeOK ==
  /\ pass \in 1 .. 2 /\ at \in 1 .. MAXLINES + 1 /\ src \in Seq(Lines)
  /\ g \in Counters /\ Len(g.esg) <= MAXESG /\ sym \in Tables
  /\ gCode \in [0 .. CODESIZE - 1 -> [line : 1 .. MAXLINES, operand : Nat] \union {None}]
  /\ result \in BOOLEAN /\ over \in BOOLEAN
  /\ trace \in [1 .. 2 -> Seq([g : Counters, sym : Tables])]

(* The passes agree: pass 2 comes to every line with the code address, the *)
(* scratchpad address, the condition and the values of the names pass 1    *)
(* came to it with, unless the source gave a .SET symbol a value in        *)
(* another way.                                                            *)
Agrees(x, y) ==
  /\ x.g.pc = y.g.pc /\ x.g.scr = y.g.scr /\ x.g.active = y.g.active
  /\ \A n \in Names : Known(x, n) => Known(y, n) /\ Found(x, n).value = Found(y, n).value
PassesAgree ==
  ~over => \A k \in 1 .. Len(trace[2]) : Agrees(trace[1][k], trace[2][k])

Coded == {a \in DOMAIN gCode : gCode[a] # None}
LineOf(a) == src[gCode[a].line]
Places(n, S) == {k \in S : src[k].op = "label" /\ src[k].name = n}
Most(S) == CHOOSE k \in S : \A j \in S : j <= k

(* A jump to a label lands on the instruction after the label, whatever    *)
(* stands between them and however the passes went.                        *)
JumpsLand ==
  \A a \in Coded : LET l == LineOf(a) IN
    (l.op = "jump" /\ l.arg \in Plain) =>
      \A k \in Places(l.arg, 1 .. Len(trace[2])) : (k < at /\ result) =>
        gCode[a].operand = trace[2][k].g.pc

(* A dotted label is a moving target: a jump back lands on its nearest     *)
(* place before the jump; a jump ahead lands on its last place, if nothing *)
(* stands before.                                                          *)
DottedLand ==
  \A a \in Coded : LET l == LineOf(a)
                       back == Places(l.arg, 1 .. gCode[a].line)
                       all  == Places(l.arg, DOMAIN src) IN
    (l.op = "jump" /\ l.arg \in Dotted /\ all # {} /\ Found(Now, l.arg).type = "LABEL") =>
      gCode[a].operand =
        IF back # {} THEN trace[2][Most(back)].g.pc ELSE trace[1][Most(all)].g.pc

(* An operand that names data is the scratchpad address the data is put    *)
(* at, in its byte.                                                        *)
Datum(n) == {k \in DOMAIN src : src[k].op = "data" /\ src[k].name = n}
DataLand ==
  ~over => \A a \in Coded : LET l == LineOf(a) IN
    l.op = "load" =>
      \A k \in Datum(l.arg) : k <= Len(trace[2]) =>
        gCode[a].operand = trace[2][k].g.scr % BYTE
=============================================================================
