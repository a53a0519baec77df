------------------------------ MODULE PbSymbols ------------------------------
(***************************************************************************)
(* The symbol table of the assembler (pbSymbols.c): a hash table with      *)
(* linear probing, from which nothing is removed until the end.  Opcodes,  *)
(* directives and registers are entered first, as any other symbol; the    *)
(* parser then adds the symbols of the source and moves dotted labels.     *)
(* The hash function is any function.                                      *)
(***************************************************************************)
EXTENDS Integers, Sequences

CONSTANTS
  SIZE,      \* places of the table
  Names, Values,
  Kinds,     \* type and subtype of a symbol
  Keywords,  \* entries init_symbol adds, in order
  Empty, None

SymEntry ==
  {[name |-> x, type |-> k.type, sub |-> k.sub, value |-> v] : x \in Names, k \in Kinds, v \in Values}
Places == 0 .. SIZE - 1

ASSUME SymAssumption ==
  /\ SIZE \in Nat \ {0}
  /\ Keywords \in Seq(SymEntry)
  /\ Empty \notin SymEntry
  /\ None \notin {[type |-> k.type, sub |-> k.sub, value |-> v] : k \in Kinds, v \in Values}

VARIABLES
  home,     \* hash(name)
  symbols,  \* the table
  kw,       \* init_symbol: the next keyword
  freed,    \* free_symbol has been called
  last      \* the last add_symbol: its name, whether it was known, its result

symVars == <<home, symbols, kw, freed, last>>

SymInit ==
  /\ home \in [Names -> Places]
  /\ symbols = [s \in Places |-> Empty]
  /\ kw = 1 /\ freed = FALSE
  /\ last = [name |-> None, known |-> FALSE, ok |-> FALSE]

Least(S) == CHOOSE k \in S : \A j \in S : k <= j
Place(x, k) == (home[x] + k) % SIZE
Holds(s, x) == symbols[s] # Empty /\ symbols[s].name = x

(* find_symbol stops at an empty place or at the name.                     *)
Stops(x) == {k \in Places : symbols[Place(x, k)] = Empty \/ Holds(Place(x, k), x)}
FoundAt(x) == Place(x, Least(Stops(x)))
Known(x) == Stops(x) # {} /\ Holds(FoundAt(x), x)
find_symbol(x) ==
  IF Known(x)
  THEN LET s == symbols[FoundAt(x)]
       IN  [type |-> s.type, sub |-> s.sub, value |-> s.value]
  ELSE None

(* add_symbol goes on where find_symbol stops: it ends at an empty place   *)
(* or at the very same symbol, and gives every .SET symbol of the name it  *)
(* passes the new value.                                                   *)
PassesAny(s, e) ==  \* a slip: a redefinition changes every kind of symbol
  Holds(s, e.name) /\ symbols[s].type = e.type
Passes(s, e) == Holds(s, e.name) /\ symbols[s].type = e.type /\ symbols[s].sub = "SET"
Same(s, e) ==
  /\ Holds(s, e.name) /\ ~Passes(s, e)
  /\ symbols[s].type = e.type /\ symbols[s].sub = e.sub /\ symbols[s].value = e.value
EndsLate(e) ==  \* a slip: the first place is not looked at
  {k \in Places \ {0} : symbols[Place(e.name, k)] = Empty \/ Same(Place(e.name, k), e)}
Ends(e) == {k \in Places : symbols[Place(e.name, k)] = Empty \/ Same(Place(e.name, k), e)}
Before(e) == IF Ends(e) = {} THEN Places ELSE 0 .. Least(Ends(e)) - 1
Free(e) == Ends(e) # {} /\ symbols[Place(e.name, Least(Ends(e)))] = Empty

add(e) ==
  /\ symbols' = [s \in Places |->
       IF Free(e) /\ s = Place(e.name, Least(Ends(e))) THEN e
       ELSE IF Passes(s, e) /\ (\E k \in Before(e) : s = Place(e.name, k))
            THEN [symbols[s] EXCEPT !.value = e.value]
       ELSE symbols[s]]
  /\ last' = [name |-> e.name, known |-> Known(e.name), ok |-> Free(e)]

(* init_symbol, one keyword.                                               *)
init_symbol ==
  /\ ~freed /\ kw <= Len(Keywords)
  /\ add(Keywords[kw])
  /\ kw' = kw + 1
  /\ UNCHANGED <<home, freed>>

(* What the parser adds: a name it did not find, or found to be a .SET     *)
(* symbol; and CONSTANT, which does not look.                              *)
Admitted(e) ==
  Known(e.name) => symbols[FoundAt(e.name)].sub = "SET" \/ e.sub = "INT"
add_symbol(e) ==
  /\ ~freed /\ kw > Len(Keywords)
  /\ Admitted(e)
  /\ add(e)
  /\ UNCHANGED <<home, kw, freed>>

(* build and assemble: a dotted label moves to the current address.        *)
(* assemble: .SET gives its symbol the value of this place of the source.  *)
SetValue(x, v) ==
  /\ ~freed /\ kw > Len(Keywords)
  /\ Known(x) /\ symbols[FoundAt(x)].sub \in {"DOT", "SET"}
  /\ symbols' = [symbols EXCEPT ![FoundAt(x)] = [symbols[FoundAt(x)] EXCEPT !.value = v]]
  /\ UNCHANGED <<home, kw, freed, last>>

free_symbol ==
  /\ ~freed /\ kw > Len(Keywords)
  /\ freed' = TRUE
  /\ symbols' = [s \in Places |-> Empty]
  /\ last' = [name |-> None, known |-> FALSE, ok |-> FALSE]
  /\ UNCHANGED <<home, kw>>

SymNext ==
  \/ init_symbol
  \/ \E e \in SymEntry : add_symbol(e)
  \/ \E x \in Names, v \in Values : SetValue(x, v)
  \/ free_symbol
SymSpec == SymInit /\ [][SymNext]_symVars

-----------------------------------------------------------------------------
SymTypeOK ==
  /\ home \in [Names -> Places]
  /\ symbols \in [Places -> SymEntry \union {Empty}]
  /\ kw \in 1 .. Len(Keywords) + 1 /\ freed \in BOOLEAN
  /\ last \in [name : Names \union {None}, known : BOOLEAN, ok : BOOLEAN]

(* No symbol is beyond an empty place on its way from hash(name): a search *)
(* that stops at an empty place has missed nothing.                        *)
ProbesReach ==
  \A s \in Places : symbols[s] # Empty =>
    \E k \in Places :
      /\ s = Place(symbols[s].name, k)
      /\ \A j \in 0 .. k - 1 : symbols[Place(symbols[s].name, j)] # Empty

(* What add_symbol said it added is found.                                 *)
AddedFound == last.ok => Known(last.name)

(* The table is the map the assembler relies on.                           *)
Map == INSTANCE SymMap WITH bound <- [x \in Names |-> find_symbol(x)]
IsMap == Map!MapSpec
=============================================================================
