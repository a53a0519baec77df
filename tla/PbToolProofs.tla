---------------------------- MODULE PbToolProofs ----------------------------
(***************************************************************************)
(* Proofs about the two tools the tests are run with.                      *)
(*                                                                         *)
(* The symbol table of the assembler implements the map of SymMap for      *)
(* every table size, every hash function and every sequence of additions.  *)
(* What makes it so is ProbesReach: no symbol is beyond an empty place on  *)
(* its way from its home, so a search misses nothing; it holds because     *)
(* add_symbol fills the first empty place of that way and nothing is       *)
(* emptied before the end.                                                 *)
(*                                                                         *)
(* For every program, stack size and interrupt vector, the call stack of   *)
(* the simulator gives every return what its call or interrupt put there.  *)
(* The invariant relates the array of cells to the list of what is owed:   *)
(* a push writes the one cell above all that are owed, and a pop gives up  *)
(* the last; it is stated of the record step() works on, since an          *)
(* interrupt and the first instruction of its handler are one step.        *)
(***************************************************************************)
EXTENDS PbSymbols, PbSim, ModLemmas

SymInv == SymTypeOK /\ ProbesReach
AddedInv == (last.ok => last.name \in Names) /\ AddedFound

(* From one state of the table to the next, symbols stay where they are;   *)
(* all that may change of one is its value.                                *)
Grows ==
  /\ home' = home
  /\ \A s \in Places : symbols[s] # Empty =>
       /\ symbols'[s] # Empty /\ symbols'[s].name = symbols[s].name
       /\ symbols'[s].type = symbols[s].type /\ symbols'[s].sub = symbols[s].sub

-----------------------------------------------------------------------------
(* Least picks the least element.                                          *)
LEMMA LeastIs ==
  ASSUME NEW S \in SUBSET Nat, S # {}
  PROVE  Least(S) \in S /\ \A j \in S : Least(S) <= j
BY LeastExists DEF Least

(* There is only one.                                                      *)
LEMMA LeastUnique ==
  ASSUME NEW S \in SUBSET Nat, NEW m \in S, \A j \in Nat : j < m => j \notin S
  PROVE  Least(S) = m
<1>1. Least(S) \in S /\ Least(S) <= m
  BY LeastIs
<1>2. ~(Least(S) < m)
  BY <1>1
<1>3. Least(S) \in Nat /\ m \in Nat
  BY <1>1
<1> QED BY <1>1, <1>2, <1>3

(* A probe is a place of the table.                                        *)
LEMMA PlaceIn ==
  ASSUME SymTypeOK, NEW x \in Names, NEW k \in Int
  PROVE  Place(x, k) \in Places
<1>1. home[x] \in Places
  BY DEF SymTypeOK
<1>2. home[x] + k \in Int /\ SIZE \in Nat \ {0}
  BY <1>1, SymAssumption DEF Places
<1> QED BY <1>2, ModRange DEF Place, Places

(* The parts of a symbol.                                                  *)
LEMMA EntryParts ==
  ASSUME NEW e \in SymEntry
  PROVE  /\ e.name \in Names /\ e # Empty
         /\ [type |-> e.type, sub |-> e.sub, value |-> e.value] # None
         /\ \A v \in Values : [e EXCEPT !.value = v] \in SymEntry
         /\ e.value \in Values
         /\ \A v \in Values : /\ [e EXCEPT !.value = v].name = e.name
                              /\ [e EXCEPT !.value = v].type = e.type
                              /\ [e EXCEPT !.value = v].sub = e.sub
                              /\ [e EXCEPT !.value = v].value = v
<1>1. PICK x \in Names, k \in Kinds, w \in Values :
        e = [name |-> x, type |-> k.type, sub |-> k.sub, value |-> w]
  BY DEF SymEntry
<1>2. \A v \in Values :
        [e EXCEPT !.value = v] = [name |-> x, type |-> k.type, sub |-> k.sub, value |-> v]
  BY <1>1
<1>3. e # Empty /\ [type |-> e.type, sub |-> e.sub, value |-> e.value] # None
  BY <1>1, SymAssumption
<1> QED BY <1>1, <1>2, <1>3 DEF SymEntry

(* A name is found exactly if some place holds it.                         *)
LEMMA KnownIff ==
  ASSUME SymInv, NEW x \in Names
  PROVE  Known(x) <=> \E s \in Places : Holds(s, x)
<1>1. Stops(x) \in SUBSET Nat
  BY SymAssumption DEF Stops, Places
<1>2. ASSUME Known(x)
      PROVE  \E s \in Places : Holds(s, x)
  <2>1. Least(Stops(x)) \in Places
    BY <1>1, <1>2, LeastIs DEF Known, Stops
  <2>2. FoundAt(x) \in Places
    BY <2>1, PlaceIn, SymAssumption DEF FoundAt, SymInv, Places
  <2> QED BY <1>2, <2>2 DEF Known
<1>3. ASSUME NEW s \in Places, Holds(s, x)
      PROVE  Known(x)
  <2>1. PICK k \in Places : s = Place(x, k) /\ \A j \in 0 .. k - 1 : symbols[Place(x, j)] # Empty
    BY <1>3 DEF SymInv, ProbesReach, Holds
  <2>2. k \in Stops(x)
    BY <1>3, <2>1 DEF Stops
  <2> DEFINE m == Least(Stops(x))
  <2>3. m \in Stops(x) /\ m <= k
    BY <1>1, <2>2, LeastIs
  <2>4. CASE m = k
    BY <1>3, <2>1, <2>2, <2>4 DEF Known, FoundAt
  <2>5. CASE m # k
    <3>1. m \in 0 .. k - 1
      BY <2>3, <2>5, <1>1, SymAssumption DEF Places
    <3>2. symbols[Place(x, m)] # Empty
      BY <2>1, <3>1
    <3>3. Holds(Place(x, m), x)
      BY <2>3, <3>2 DEF Stops
    <3> QED BY <2>2, <3>3 DEF Known, FoundAt
  <2> QED BY <2>4, <2>5
<1> QED BY <1>2, <1>3

(* The probes of a name do not change.                                     *)
LEMMA PlaceStays ==
  ASSUME SymTypeOK, home' = home, NEW x \in Names, NEW k \in Places
  PROVE  Place(x, k) \in Places /\ Place(x, k)' = Place(x, k)
<1>1. k \in Int
  BY SymAssumption DEF Places
<1>2. Place(x, k) \in Places
  BY <1>1, PlaceIn
<1>3. Place(x, k)' = Place(x, k)
  BY DEF Place
<1> QED BY <1>2, <1>3

(* What is found stays where it is found.                                  *)
LEMMA FoundStays ==
  ASSUME SymInv, Grows, NEW x \in Names, Known(x)
  PROVE  Known(x)' /\ FoundAt(x)' = FoundAt(x) /\ FoundAt(x) \in Places /\ Holds(FoundAt(x), x)
<1>1. Stops(x) \in SUBSET Nat /\ (Stops(x))' \in SUBSET Nat
  BY SymAssumption DEF Stops, Places
<1>2. Least(Stops(x)) \in Stops(x) /\ \A j \in Stops(x) : Least(Stops(x)) <= j
  BY <1>1, LeastIs DEF Known
<1>3. PICK m \in Places : m = Least(Stops(x))
  BY <1>2 DEF Stops
<1>4. PICK s \in Places : s = Place(x, m)
  BY PlaceStays DEF SymInv, Grows
<1>5. s = FoundAt(x) /\ Holds(s, x) /\ Place(x, m)' = s
  BY <1>3, <1>4, PlaceStays DEF SymInv, Grows, Known, FoundAt
<1>6. Holds(s, x)'
  BY <1>5 DEF Holds, Grows
<1>7. m \in (Stops(x))'
  BY <1>5, <1>6 DEF Stops
<1>8. ASSUME NEW j \in Nat, j < m
      PROVE  j \notin (Stops(x))'
  <2>1. j \in Places
    BY <1>8, SymAssumption DEF Places
  <2>2. m \in Nat /\ j \notin Stops(x)
    BY <1>2, <1>3, <1>8, <1>1
  <2>3. PICK t \in Places : t = Place(x, j) /\ Place(x, j)' = t
    BY <2>1, PlaceStays DEF SymInv, Grows
  <2>4. symbols[t] # Empty /\ symbols[t].name # x
    BY <2>1, <2>2, <2>3 DEF Stops, Holds
  <2>5. symbols'[t] # Empty /\ symbols'[t].name # x
    BY <2>4 DEF Grows
  <2> QED BY <2>3, <2>5 DEF Stops, Holds
<1>9. Least((Stops(x))') = m
  BY <1>1, <1>7, <1>8, LeastUnique
<1>10. FoundAt(x)' = s
  BY <1>5, <1>9 DEF FoundAt
<1>11. Known(x)'
  BY <1>6, <1>7, <1>10 DEF Known
<1> QED BY <1>4, <1>5, <1>10, <1>11

(* A name that is found is held by the place where it is found.            *)
LEMMA FoundHolds ==
  ASSUME SymTypeOK, home' = home, NEW x \in Names, Known(x)'
  PROVE  FoundAt(x)' \in Places /\ Holds(FoundAt(x), x)'
<1>1. (Stops(x))' \in SUBSET Nat /\ (Stops(x))' \in SUBSET Places /\ (Stops(x))' # {}
  BY SymAssumption DEF Stops, Places, Known
<1>2. PICK k \in Places : k = Least((Stops(x))')
  BY <1>1, LeastIs
<1>3. FoundAt(x)' = Place(x, k)' /\ Place(x, k)' \in Places
  BY <1>2, PlaceStays DEF FoundAt
<1> QED BY <1>3 DEF Known

(* A table that keeps its symbols and adds one only where every earlier    *)
(* probe is taken keeps every symbol within reach.                         *)
LEMMA ReachStays ==
  ASSUME SymInv, Grows,
         \A s \in Places : symbols'[s] # Empty =>
           \/ symbols[s] # Empty
           \/ /\ symbols'[s].name \in Names
              /\ \E k \in Places : /\ s = Place(symbols'[s].name, k)
                                   /\ \A j \in 0 .. k - 1 : symbols[Place(symbols'[s].name, j)] # Empty
  PROVE  ProbesReach'
<1> SUFFICES ASSUME NEW s \in Places, symbols'[s] # Empty
             PROVE  \E k \in Places :
                      /\ s = (home'[symbols'[s].name] + k) % SIZE
                      /\ \A j \in 0 .. k - 1 : symbols'[(home'[symbols'[s].name] + j) % SIZE] # Empty
  BY DEF ProbesReach, Place
<1>1. PICK x \in Names : x = symbols'[s].name
  <2>1. CASE symbols[s] # Empty
    <3>1. symbols[s] \in SymEntry
      BY <2>1 DEF SymInv, SymTypeOK
    <3> QED BY <2>1, <3>1, EntryParts DEF Grows
  <2> QED BY <2>1
<1>2. PICK k \in Places : s = Place(x, k) /\ \A j \in 0 .. k - 1 : symbols[Place(x, j)] # Empty
  BY <1>1 DEF SymInv, ProbesReach, Grows
<1>3. ASSUME NEW j \in 0 .. k - 1
      PROVE  symbols'[(home[x] + j) % SIZE] # Empty
  <2>1. j \in Places
    BY SymAssumption DEF Places
  <2>2. symbols[Place(x, j)] # Empty
    BY <1>2
  <2>3. SymTypeOK /\ j \in Int
    BY DEF SymInv
  <2>4. Place(x, j) \in Places
    BY <2>3, PlaceIn
  <2> QED BY <2>2, <2>4 DEF Grows, Place
<1> QED BY <1>1, <1>2, <1>3 DEF Grows, Place

-----------------------------------------------------------------------------
(* What add_symbol does to a place: nothing, a new value of a .SET symbol, *)
(* or the symbol itself where a search for it ends.                        *)
LEMMA AddStep ==
  ASSUME SymInv, NEW e \in SymEntry, add(e), home' = home
  PROVE  /\ symbols' \in [Places -> SymEntry \union {Empty}]
         /\ Grows
         /\ \A s \in Places :
              \/ symbols'[s] = symbols[s]
              \/ Passes(s, e) /\ symbols'[s] = [symbols[s] EXCEPT !.value = e.value]
              \/ /\ symbols[s] = Empty /\ symbols'[s] = e
                 /\ Free(e) /\ s = Place(e.name, Least(Ends(e)))
<1>1. \A s \in Places :
        \/ symbols'[s] = symbols[s]
        \/ Passes(s, e) /\ symbols'[s] = [symbols[s] EXCEPT !.value = e.value]
        \/ /\ symbols[s] = Empty /\ symbols'[s] = e
           /\ Free(e) /\ s = Place(e.name, Least(Ends(e)))
  BY DEF add, Free
<1>2. ASSUME NEW s \in Places
      PROVE  /\ symbols'[s] \in SymEntry \union {Empty}
             /\ symbols[s] # Empty =>
                  /\ symbols'[s] # Empty /\ symbols'[s].name = symbols[s].name
                  /\ symbols'[s].type = symbols[s].type /\ symbols'[s].sub = symbols[s].sub
  <2>1. symbols[s] \in SymEntry \union {Empty} /\ e.value \in Values
    BY EntryParts DEF SymInv, SymTypeOK
  <2>2. CASE Passes(s, e) /\ symbols'[s] = [symbols[s] EXCEPT !.value = e.value]
    <3>1. symbols[s] \in SymEntry
      BY <2>1, <2>2 DEF Passes, Holds
    <3> QED BY <2>1, <2>2, <3>1, EntryParts
  <2> QED BY <1>1, <2>1, <2>2
<1>3. symbols' = [s \in Places |-> symbols'[s]]
  BY DEF add
<1>4. symbols' \in [Places -> SymEntry \union {Empty}]
  BY <1>2, <1>3
<1> QED BY <1>1, <1>2, <1>4 DEF Grows

(* A name that was not known is found where add_symbol put it.             *)
LEMMA AddFinds ==
  ASSUME SymInv, NEW e \in SymEntry, add(e), home' = home, Free(e)
  PROVE  Known(e.name)'
<1>1. PICK x \in Names : x = e.name
  BY EntryParts
<1>2. Grows
  BY AddStep
<1>3. CASE Known(x)
  BY <1>1, <1>2, <1>3, FoundStays
<1>4. CASE ~Known(x)
  <2>1. \A s \in Places : ~Holds(s, x)
    BY <1>4, KnownIff
  <2>2. Ends(e) \in SUBSET Nat /\ (Stops(x))' \in SUBSET Nat
    BY SymAssumption DEF Ends, Stops, Places
  <2>3. Least(Ends(e)) \in Ends(e) /\ \A j \in Ends(e) : Least(Ends(e)) <= j
    BY <2>2, LeastIs DEF Free
  <2>4. PICK m \in Places : m = Least(Ends(e))
    BY <2>3 DEF Ends
  <2>5. PICK s \in Places : s = Place(x, m) /\ Place(x, m)' = s
    BY PlaceStays DEF SymInv
  <2>6. symbols'[s] = e /\ e # Empty
    BY <1>1, <2>4, <2>5, EntryParts DEF add
  <2>7. Holds(s, x)'
    BY <1>1, <2>6 DEF Holds
  <2>8. m \in (Stops(x))'
    BY <2>5, <2>7 DEF Stops
  <2>9. ASSUME NEW j \in Nat, j < m
        PROVE  j \notin (Stops(x))'
    <3>1. j \in Places
      BY <2>9, SymAssumption DEF Places
    <3>2. m \in Nat /\ j \notin Ends(e)
      BY <2>2, <2>3, <2>4, <2>9
    <3>3. PICK t \in Places : t = Place(x, j) /\ Place(x, j)' = t
      BY <3>1, PlaceStays DEF SymInv
    <3>4. symbols[t] # Empty /\ symbols[t].name # x
      BY <1>1, <2>1, <3>1, <3>2, <3>3 DEF Ends, Holds
    <3>5. symbols'[t] # Empty /\ symbols'[t].name # x
      BY <1>2, <3>4 DEF Grows
    <3> QED BY <3>3, <3>5 DEF Stops, Holds
  <2>10. Least((Stops(x))') = m
    BY <2>2, <2>8, <2>9, LeastUnique
  <2>11. FoundAt(x)' = s
    BY <2>5, <2>10 DEF FoundAt
  <2>12. Known(x)'
    BY <2>7, <2>8, <2>11 DEF Known
  <2> QED BY <1>1, <2>12
<1> QED BY <1>3, <1>4

(* An addition keeps every symbol within reach.                            *)
LEMMA AddReaches ==
  ASSUME SymInv, NEW e \in SymEntry, add(e), home' = home
  PROVE  ProbesReach'
<1>1. PICK x \in Names : x = e.name
  BY EntryParts
<1>2. ASSUME NEW s \in Places, symbols[s] = Empty, symbols'[s] # Empty
      PROVE  /\ symbols'[s].name = x
             /\ \E k \in Places : s = Place(x, k) /\ \A j \in 0 .. k - 1 : symbols[Place(x, j)] # Empty
  <2>1. symbols'[s] = e /\ Free(e) /\ s = Place(x, Least(Ends(e)))
    BY <1>1, <1>2, AddStep DEF Passes, Holds
  <2>2. Ends(e) \in SUBSET Nat
    BY SymAssumption DEF Ends, Places
  <2>3. Least(Ends(e)) \in Ends(e) /\ \A j \in Ends(e) : Least(Ends(e)) <= j
    BY <2>1, <2>2, LeastIs DEF Free
  <2>4. PICK k \in Places : k = Least(Ends(e))
    BY <2>3 DEF Ends
  <2>5. ASSUME NEW j \in 0 .. k - 1
        PROVE  symbols[Place(x, j)] # Empty
    <3>1. j \in Places /\ j < k /\ j \in Nat /\ k \in Nat
      BY SymAssumption DEF Places
    <3>2. j \notin Ends(e)
      BY <2>3, <2>4, <3>1
    <3> QED BY <1>1, <3>1, <3>2 DEF Ends
  <2> QED BY <1>1, <2>1, <2>4, <2>5
<1> QED BY <1>2, AddStep, ReachStays

(* A symbol that gets another value keeps its name and its place.          *)
LEMMA MoveStep ==
  ASSUME SymInv, NEW x \in Names, NEW v \in Values, SetValue(x, v)
  PROVE  /\ symbols' \in [Places -> SymEntry \union {Empty}] /\ Grows
         /\ \A s \in Places : /\ symbols'[s] # Empty => symbols[s] # Empty
                              /\ s # FoundAt(x) => symbols'[s] = symbols[s]
         /\ FoundAt(x) \in Places /\ Holds(FoundAt(x), x)
         /\ symbols'[FoundAt(x)] = [symbols[FoundAt(x)] EXCEPT !.value = v]
<1>1. Known(x) /\ Stops(x) \in SUBSET Nat /\ Stops(x) \in SUBSET Places
  BY SymAssumption DEF SetValue, Stops, Places
<1>2. PICK k \in Places : k = Least(Stops(x))
  BY <1>1, LeastIs DEF Known
<1>3. PICK f \in Places : f = FoundAt(x) /\ Holds(f, x)
  BY <1>1, <1>2, PlaceIn, SymAssumption DEF FoundAt, Known, SymInv, Places
<1>4. symbols \in [Places -> SymEntry \union {Empty}] /\ symbols[f] \in SymEntry
  BY <1>3 DEF SymInv, SymTypeOK, Holds
<1>5. /\ symbols' = [symbols EXCEPT ![f] = [symbols[f] EXCEPT !.value = v]]
      /\ home' = home
  BY <1>3 DEF SetValue
<1>6. PICK w \in SymEntry : /\ w = [symbols[f] EXCEPT !.value = v] /\ w # Empty
                            /\ w.name = symbols[f].name
                            /\ w.type = symbols[f].type /\ w.sub = symbols[f].sub
  <2>1. PICK e \in SymEntry : e = symbols[f]
    BY <1>4
  <2> DEFINE w == [e EXCEPT !.value = v]
  <2>2. /\ w \in SymEntry /\ w.name = e.name /\ w.type = e.type /\ w.sub = e.sub
    BY EntryParts
  <2>3. w = [symbols[f] EXCEPT !.value = v]
    BY <2>1
  <2> HIDE DEF w
  <2>4. w # Empty
    BY <2>2, EntryParts
  <2> QED BY <2>1, <2>2, <2>3, <2>4
<1>7. symbols' = [symbols EXCEPT ![f] = w]
  BY <1>5, <1>6
<1>8. symbols'[f] = w /\ \A s \in Places : s # f => symbols'[s] = symbols[s]
  BY <1>4, <1>7
<1>9. symbols' \in [Places -> SymEntry \union {Empty}]
  BY <1>4, <1>7
<1>10. Grows
  BY <1>5, <1>6, <1>8 DEF Grows
<1> QED BY <1>3, <1>4, <1>6, <1>8, <1>9, <1>10, EntryParts DEF Holds

-----------------------------------------------------------------------------
(* The empty table is within reach of everything.                          *)
LEMMA SymInitInv ==
  ASSUME SymInit
  PROVE  SymInv /\ AddedInv
<1>1. Len(Keywords) \in Nat
  BY SymAssumption
<1>2. SymTypeOK
  <2>1. kw \in 1 .. Len(Keywords) + 1
    BY <1>1 DEF SymInit
  <2>2. last \in [name : Names \union {None}, known : BOOLEAN, ok : BOOLEAN]
    BY DEF SymInit
  <2>3. symbols \in [Places -> SymEntry \union {Empty}]
    BY DEF SymInit
  <2> QED BY <2>1, <2>2, <2>3 DEF SymInit, SymTypeOK
<1>3. ProbesReach
  BY DEF SymInit, ProbesReach
<1> QED BY <1>2, <1>3 DEF SymInv, AddedInv, AddedFound, SymInit

(* The table is well formed and every symbol within reach.                 *)
THEOREM SymInvariant == SymSpec => [](SymInv /\ AddedInv)
<1>1. SymInit => SymInv /\ AddedInv
  BY SymInitInv
<1>2. ASSUME SymInv, AddedInv, [SymNext]_symVars
      PROVE  SymInv' /\ AddedInv'
  <2>1. ASSUME NEW e \in SymEntry, add(e), home' = home, kw' \in 1 .. Len(Keywords) + 1, freed' = freed
        PROVE  SymInv' /\ AddedInv'
    <3>1. ProbesReach'
      BY <1>2, <2>1, AddReaches
    <3>2. symbols' \in [Places -> SymEntry \union {Empty}]
      BY <1>2, <2>1, AddStep
    <3>3. last' \in [name : Names \union {None}, known : BOOLEAN, ok : BOOLEAN] /\ last'.name = e.name
          /\ last'.ok = Free(e) /\ e.name \in Names
      BY <2>1, EntryParts DEF add, Known, Free
    <3>4. SymTypeOK'
      BY <1>2, <2>1, <3>2, <3>3 DEF SymInv, SymTypeOK
    <3>5. last'.ok => Known(e.name)'
      BY <1>2, <2>1, <3>3, AddFinds
    <3>6. AddedInv'
      BY <3>3, <3>5 DEF AddedInv, AddedFound
    <3> QED BY <3>1, <3>4, <3>6 DEF SymInv
  <2>2. CASE init_symbol
    <3>1. kw \in 1 .. Len(Keywords) /\ Len(Keywords) \in Nat
      BY <1>2, <2>2, SymAssumption DEF init_symbol, SymInv, SymTypeOK
    <3>2. Keywords[kw] \in SymEntry
      BY <3>1, SymAssumption
    <3>3. add(Keywords[kw]) /\ home' = home /\ kw' \in 1 .. Len(Keywords) + 1 /\ freed' = freed
      BY <2>2, <3>1 DEF init_symbol
    <3> QED BY <2>1, <3>2, <3>3
  <2>3. ASSUME NEW e \in SymEntry, add_symbol(e)
        PROVE  SymInv' /\ AddedInv'
    BY <1>2, <2>1, <2>3 DEF add_symbol, SymInv, SymTypeOK
  <2>4. ASSUME NEW x \in Names, NEW v \in Values, SetValue(x, v)
        PROVE  SymInv' /\ AddedInv'
    <3>1. symbols' \in [Places -> SymEntry \union {Empty}] /\ Grows
          /\ \A s \in Places : symbols'[s] # Empty => symbols[s] # Empty
      BY <1>2, <2>4, MoveStep
    <3>2. ProbesReach'
      BY <1>2, <3>1, ReachStays
    <3>3. UNCHANGED <<home, kw, freed, last>>
      BY <2>4 DEF SetValue
    <3>4. SymTypeOK'
      BY <1>2, <3>1, <3>3 DEF SymInv, SymTypeOK
    <3>5. ASSUME last.ok
          PROVE  Known(last.name)'
      BY <1>2, <3>1, <3>3, <3>5, FoundStays DEF AddedInv, AddedFound
    <3>6. AddedInv'
      BY <1>2, <3>3, <3>5 DEF AddedInv, AddedFound
    <3> QED BY <3>2, <3>4, <3>6 DEF SymInv
  <2>5. CASE free_symbol
    <3>1. SymTypeOK'
      BY <1>2, <2>5 DEF free_symbol, SymInv, SymTypeOK
    <3>2. ProbesReach'
      BY <2>5 DEF free_symbol, ProbesReach
    <3>3. AddedInv'
      BY <2>5 DEF free_symbol, AddedInv, AddedFound
    <3> QED BY <3>1, <3>2, <3>3 DEF SymInv
  <2>6. CASE UNCHANGED symVars
    <3>1. SymInv'
      BY <1>2, <2>6 DEF symVars, SymInv, SymTypeOK, ProbesReach, Place
    <3>2. AddedInv'
      BY <1>2, <2>6 DEF symVars, AddedInv, AddedFound, Known, Stops, FoundAt, Holds, Place
    <3> QED BY <3>1, <3>2
  <2> QED BY <1>2, <2>2, <2>3, <2>4, <2>5, <2>6 DEF SymNext
<1> QED BY <1>1, <1>2, PTL DEF SymSpec

(* Every variable keeps its type, for every size and hash function.        *)
THEOREM SymTypeCorrect == SymSpec => []SymTypeOK
BY SymInvariant, PTL DEF SymInv

(* No symbol is ever beyond an empty place on its way from its hash.       *)
THEOREM ProbesAlwaysReach == SymSpec => []ProbesReach
BY SymInvariant, PTL DEF SymInv

(* What add_symbol said it added is found.                                 *)
THEOREM AddedAlwaysFound == SymSpec => []AddedFound
BY SymInvariant, PTL DEF AddedInv

-----------------------------------------------------------------------------
(* A symbol found where nothing has changed is the same symbol.            *)
LEMMA SameFound ==
  ASSUME SymInv, Grows, NEW x \in Names, Known(x), symbols'[FoundAt(x)] = symbols[FoundAt(x)]
  PROVE  find_symbol(x)' = find_symbol(x)
<1>1. PICK f \in Places : f = FoundAt(x) /\ FoundAt(x)' = f
  BY FoundStays
<1> QED BY <1>1, FoundStays DEF find_symbol

(* A new value of the symbol found is a new value of what is found.        *)
LEMMA ValueFound ==
  ASSUME SymInv, Grows, NEW x \in Names, Known(x), NEW v \in Values,
         symbols'[FoundAt(x)] = [symbols[FoundAt(x)] EXCEPT !.value = v]
  PROVE  find_symbol(x)' = [find_symbol(x) EXCEPT !.value = v]
<1>1. PICK f \in Places : f = FoundAt(x) /\ FoundAt(x)' = f /\ Holds(f, x)
  BY FoundStays
<1>2. PICK q \in SymEntry : q = symbols[f] /\ symbols'[f] = [q EXCEPT !.value = v]
  BY <1>1 DEF SymInv, SymTypeOK, Holds
<1>3. PICK w \in SymEntry : w = [q EXCEPT !.value = v]
  BY EntryParts
<1>4. w.type = q.type /\ w.sub = q.sub /\ w.value = v
  BY <1>3, EntryParts
<1>5. find_symbol(x)' = [type |-> w.type, sub |-> w.sub, value |-> w.value]
  BY <1>1, <1>2, <1>3, FoundStays DEF find_symbol
<1>6. find_symbol(x) = [type |-> q.type, sub |-> q.sub, value |-> q.value]
  BY <1>1, <1>2 DEF find_symbol
<1> QED BY <1>4, <1>5, <1>6

(* A name that no place gets stays unknown.                                *)
LEMMA StaysUnknown ==
  ASSUME SymTypeOK, home' = home, NEW x \in Names, \A s \in Places : ~Holds(s, x)'
  PROVE  find_symbol(x)' = None
BY FoundHolds DEF find_symbol

(* A symbol without its name is a definition of the map.                   *)
LEMMA FoundDefinition ==
  ASSUME NEW e \in SymEntry
  PROVE  [type |-> e.type, sub |-> e.sub, value |-> e.value] \in Map!Definition
<1>1. PICK x \in Names, k \in Kinds, w \in Values :
        e = [name |-> x, type |-> k.type, sub |-> k.sub, value |-> w]
  BY DEF SymEntry
<1> QED BY <1>1 DEF Map!Definition

(* What an addition does to what is found: nothing, a binding of a name    *)
(* that was free, or a new value of a .SET symbol.                         *)
LEMMA AddMaps ==
  ASSUME SymInv, NEW e \in SymEntry, add(e), home' = home
  PROVE  \/ \A y \in Names : find_symbol(y)' = find_symbol(y)
         \/ /\ find_symbol(e.name) = None
            /\ find_symbol(e.name)' \in Map!Definition
            /\ \A y \in Names : y # e.name => find_symbol(y)' = find_symbol(y)
         \/ /\ find_symbol(e.name) # None /\ find_symbol(e.name).sub = "SET"
            /\ find_symbol(e.name)' = [find_symbol(e.name) EXCEPT !.value = e.value]
            /\ \A y \in Names : y # e.name => find_symbol(y)' = find_symbol(y)
<1>1. PICK x \in Names : x = e.name
  BY EntryParts
<1>2. Grows /\ SymTypeOK
  BY AddStep DEF SymInv
<1>3. \A s \in Places :
        \/ symbols'[s] = symbols[s]
        \/ Passes(s, e) /\ symbols'[s] = [symbols[s] EXCEPT !.value = e.value]
        \/ symbols[s] = Empty /\ symbols'[s] = e
  BY AddStep
<1>4. ASSUME NEW y \in Names, y # x
      PROVE  find_symbol(y)' = find_symbol(y)
  <2>1. CASE Known(y)
    <3>1. PICK f \in Places : f = FoundAt(y) /\ Holds(f, y)
      BY <1>2, <2>1, FoundStays
    <3>2. symbols'[f] = symbols[f]
      BY <1>1, <1>3, <1>4, <3>1 DEF Holds, Passes
    <3> QED BY <1>2, <2>1, <3>1, <3>2, SameFound
  <2>2. CASE ~Known(y)
    <3>1. \A s \in Places : ~Holds(s, y)
      BY <2>2, KnownIff
    <3>2. ASSUME NEW s \in Places
          PROVE  ~Holds(s, y)'
      BY <1>1, <1>2, <1>3, <1>4, <3>1 DEF Holds, Grows, Passes
    <3> QED BY <1>2, <2>2, <3>2, StaysUnknown DEF find_symbol
  <2> QED BY <2>1, <2>2
<1>5. CASE Known(x)
  <2>1. PICK f \in Places : f = FoundAt(x) /\ Holds(f, x)
    BY <1>2, <1>5, FoundStays
  <2>2. CASE symbols'[f] = symbols[f]
    BY <1>1, <1>2, <1>4, <1>5, <2>1, <2>2, SameFound
  <2>3. CASE Passes(f, e) /\ symbols'[f] = [symbols[f] EXCEPT !.value = e.value]
    <3>1. find_symbol(x)' = [find_symbol(x) EXCEPT !.value = e.value]
      BY <1>2, <1>5, <2>1, <2>3, EntryParts, ValueFound
    <3>2. symbols[f] \in SymEntry
      BY <2>1 DEF SymInv, SymTypeOK, Holds
    <3>3. find_symbol(x) # None /\ find_symbol(x).sub = "SET"
      BY <1>5, <2>1, <2>3, <3>2, EntryParts DEF find_symbol, Passes
    <3> QED BY <1>1, <1>4, <3>1, <3>3
  <2> QED BY <1>3, <2>1, <2>2, <2>3 DEF Holds
<1>6. CASE ~Known(x)
  <2>1. \A s \in Places : ~Holds(s, x)
    BY <1>6, KnownIff
  <2>2. find_symbol(x) = None
    BY <1>6 DEF find_symbol
  <2>3. CASE Known(x)'
    <3>1. PICK t \in Places : t = FoundAt(x)' /\ Holds(t, x)'
      BY <1>2, <2>3, FoundHolds
    <3>2. symbols'[t] = e
      BY <1>1, <1>3, <2>1, <3>1 DEF Holds, Passes
    <3>3. find_symbol(x)' = [type |-> e.type, sub |-> e.sub, value |-> e.value]
      BY <2>3, <3>1, <3>2 DEF find_symbol
    <3> QED BY <1>1, <1>4, <2>2, <3>3, FoundDefinition
  <2>4. CASE ~Known(x)'
    <3>1. find_symbol(x)' = None
      BY <2>4 DEF find_symbol
    <3> QED BY <1>1, <1>4, <2>2, <3>1
  <2> QED BY <2>3, <2>4
<1> QED BY <1>5, <1>6

(* The table implements the map: what is found of a name changes as        *)
(* SymMap lets it, for every table size, hash function and source.         *)
THEOREM TableIsMap == SymSpec => IsMap
<1> DEFINE found == [x \in Names |-> find_symbol(x)]
<1>1. SymInit => Map!MapInit
  <2> SUFFICES ASSUME SymInit PROVE Map!MapInit
    OBVIOUS
  <2>1. SymInv
    BY SymInitInv
  <2>2. ASSUME NEW x \in Names
        PROVE  find_symbol(x) = None
    BY <2>1, KnownIff DEF find_symbol, Holds, SymInit
  <2> QED BY <2>2 DEF Map!MapInit
<1>2. ASSUME SymInv, [SymNext]_symVars
      PROVE  [Map!MapNext]_found
  <2>1. ASSUME NEW e \in SymEntry, add(e), home' = home
        PROVE  [Map!MapNext]_found
    <3>1. PICK x \in Names, v \in Values : x = e.name /\ v = e.value
      BY EntryParts
    <3>2. CASE \A y \in Names : find_symbol(y)' = find_symbol(y)
      <4>1. found' = found
        BY <3>2
      <4> QED BY <4>1
    <3>3. CASE /\ find_symbol(x) = None
               /\ find_symbol(x)' \in Map!Definition
               /\ \A y \in Names : y # x => find_symbol(y)' = find_symbol(y)
      <4>1. PICK d \in Map!Definition : d = find_symbol(x)'
        BY <3>3
      <4>2. found' = [found EXCEPT ![x] = d]
        BY <3>3, <4>1
      <4>3. Map!Bind(x, d)
        BY <3>3, <4>2 DEF Map!Bind
      <4> QED BY <4>3 DEF Map!MapNext
    <3>4. CASE /\ find_symbol(x) # None /\ find_symbol(x).sub = "SET"
               /\ find_symbol(x)' = [find_symbol(x) EXCEPT !.value = v]
               /\ \A y \in Names : y # x => find_symbol(y)' = find_symbol(y)
      <4>1. found' = [found EXCEPT ![x] = [found[x] EXCEPT !.value = v]]
        BY <3>4
      <4>2. Map!Update(x, v)
        BY <3>4, <4>1 DEF Map!Update, Map!Variable
      <4> QED BY <4>2 DEF Map!MapNext
    <3> QED BY <1>2, <2>1, <3>1, <3>2, <3>3, <3>4, AddMaps
  <2>2. CASE init_symbol
    <3>1. Keywords[kw] \in SymEntry
      BY <1>2, <2>2, SymAssumption DEF init_symbol, SymInv, SymTypeOK
    <3> QED BY <2>1, <2>2, <3>1 DEF init_symbol
  <2>3. ASSUME NEW e \in SymEntry, add_symbol(e)
        PROVE  [Map!MapNext]_found
    BY <2>1, <2>3 DEF add_symbol
  <2>4. ASSUME NEW x \in Names, NEW v \in Values, SetValue(x, v)
        PROVE  [Map!MapNext]_found
    <3>1. Grows /\ SymTypeOK /\ Known(x)
      BY <1>2, <2>4, MoveStep DEF SymInv, SetValue
    <3>2. PICK f \in Places : f = FoundAt(x) /\ Holds(f, x) /\ symbols'[f] = [symbols[f] EXCEPT !.value = v]
                              /\ symbols[f].sub \in {"DOT", "SET"}
      BY <1>2, <2>4, MoveStep DEF SetValue
    <3>3. find_symbol(x)' = [find_symbol(x) EXCEPT !.value = v]
      BY <1>2, <3>1, <3>2, ValueFound
    <3>4. symbols[f] \in SymEntry
      BY <1>2, <3>2 DEF SymInv, SymTypeOK, Holds
    <3>5. find_symbol(x) # None /\ find_symbol(x).sub \in {"DOT", "SET"}
      BY <3>1, <3>2, <3>4, EntryParts DEF find_symbol
    <3>6. ASSUME NEW y \in Names, y # x
          PROVE  find_symbol(y)' = find_symbol(y)
      <4>1. CASE Known(y)
        <5>1. PICK t \in Places : t = FoundAt(y) /\ Holds(t, y)
          BY <1>2, <3>1, <4>1, FoundStays
        <5>2. symbols'[t] = symbols[t]
          BY <1>2, <2>4, <3>2, <3>6, <5>1, MoveStep DEF Holds
        <5> QED BY <1>2, <3>1, <4>1, <5>1, <5>2, SameFound
      <4>2. CASE ~Known(y)
        <5>1. \A s \in Places : ~Holds(s, y)
          BY <1>2, <4>2, KnownIff
        <5>2. ASSUME NEW s \in Places
              PROVE  ~Holds(s, y)'
          BY <1>2, <2>4, <3>1, <5>1, MoveStep DEF Holds, Grows
        <5>3. home' = home
          BY <2>4 DEF SetValue
        <5> QED BY <3>1, <4>2, <5>2, <5>3, StaysUnknown DEF find_symbol
      <4> QED BY <4>1, <4>2
    <3>7. found' = [found EXCEPT ![x] = [found[x] EXCEPT !.value = v]]
      BY <3>3, <3>6
    <3>8. Map!Update(x, v)
      BY <3>5, <3>7 DEF Map!Update, Map!Variable
    <3> QED BY <3>8 DEF Map!MapNext
  <2>5. CASE free_symbol
    <3>1. ASSUME NEW x \in Names
          PROVE  find_symbol(x)' = None
      BY <1>2, <2>5, StaysUnknown DEF free_symbol, Holds, SymInv
    <3>2. Map!Clear
      BY <3>1 DEF Map!Clear
    <3> QED BY <3>2 DEF Map!MapNext
  <2>6. CASE UNCHANGED symVars
    <3>1. found' = found
      BY <2>6 DEF symVars, find_symbol, Known, FoundAt, Stops, Holds, Place
    <3> QED BY <3>1
  <2> QED BY <1>2, <2>2, <2>3, <2>4, <2>5, <2>6 DEF SymNext
<1> QED BY <1>1, <1>2, SymInvariant, PTL DEF SymSpec, IsMap, Map!MapSpec

-----------------------------------------------------------------------------
(* The call stack of the simulator.                                        *)
Cells == [0 .. MAXSTK - 1 -> Cell]
States ==
  [pc : Nat, sp : 0 .. MAXSTK - 1, stack : Cells, zero : BOOLEAN, carry : BOOLEAN,
   bank : 0 .. 1, enable : BOOLEAN, ack : BOOLEAN, owed : Seq(Frames)]
Given(s, k) ==
  /\ s.stack[k - 1].pc = s.owed[k].cell.pc
  /\ s.owed[k].kind = "interrupt" => s.stack[k - 1] = s.owed[k].cell
Sound(s) ==
  /\ s \in States
  /\ Len(s.owed) = s.sp
  /\ \A k \in 1 .. s.sp : Given(s, k)
SimInv == SimTypeOK /\ FramesKept

-----------------------------------------------------------------------------
(* The invariant is soundness of the processor's state.                    *)
LEMMA InvSound ==
  ASSUME SimInv
  PROVE  Sound(State)
BY DEF SimInv, SimTypeOK, FramesKept, Sound, State, States, Given, Cells

(* Changing anything but the stack keeps a state sound.                    *)
LEMMA SameStack ==
  ASSUME NEW s, Sound(s), NEW t \in States,
         t.sp = s.sp, t.stack = s.stack, t.owed = s.owed
  PROVE  Sound(t)
BY DEF Sound, Given

(* One more frame, on the cell above those in use.                         *)
LEMMA PushSound ==
  ASSUME NEW s, Sound(s), s.sp <= MAXSTK - 2, NEW t \in States, NEW f \in Frames,
         NEW c \in Cell, c.pc = f.cell.pc, f.kind = "interrupt" => c = f.cell,
         t.sp = s.sp + 1, t.stack = [s.stack EXCEPT ![s.sp] = c],
         t.owed = Append(s.owed, f)
  PROVE  Sound(t)
<1>1. /\ s.sp \in 0 .. MAXSTK - 1 /\ s.stack \in Cells /\ s.owed \in Seq(Frames)
      /\ MAXSTK \in Nat /\ Len(s.owed) = s.sp
  BY SimAssumption DEF Sound, States
<1>2. Len(t.owed) = t.sp
  BY <1>1
<1>3. ASSUME NEW k \in 1 .. t.sp
      PROVE  Given(t, k)
  <2>1. CASE k = t.sp
    <3>1. t.owed[k] = f /\ t.stack[k - 1] = c
      BY <1>1, <2>1 DEF Cells
    <3> QED BY <3>1 DEF Given
  <2>2. CASE k # t.sp
    <3>1. k \in 1 .. s.sp /\ k - 1 # s.sp /\ k - 1 \in 0 .. MAXSTK - 1
      BY <1>1, <2>2
    <3>2. t.owed[k] = s.owed[k] /\ t.stack[k - 1] = s.stack[k - 1]
      BY <1>1, <3>1 DEF Cells
    <3>3. Given(s, k)
      BY <3>1 DEF Sound
    <3> QED BY <3>2, <3>3 DEF Given
  <2> QED BY <2>1, <2>2
<1> QED BY <1>2, <1>3 DEF Sound

(* One frame less.                                                         *)
LEMMA PopSound ==
  ASSUME NEW s, Sound(s), s.sp > 0, NEW t \in States,
         t.sp = s.sp - 1, t.stack = s.stack, t.owed = Front(s.owed)
  PROVE  Sound(t)
<1>1. /\ s.sp \in 0 .. MAXSTK - 1 /\ s.owed \in Seq(Frames) /\ Len(s.owed) = s.sp
      /\ MAXSTK \in Nat
  BY SimAssumption DEF Sound, States
<1>2. Len(t.owed) = t.sp
  BY <1>1 DEF Front
<1>3. ASSUME NEW k \in 1 .. t.sp
      PROVE  Given(t, k)
  <2>1. k \in 1 .. s.sp /\ t.owed[k] = s.owed[k]
    BY <1>1 DEF Front
  <2> QED BY <2>1 DEF Sound, Given
<1> QED BY <1>2, <1>3 DEF Sound

(* Assigning fields of a state: the counter,                               *)
LEMMA SetPc ==
  ASSUME NEW s \in States, NEW a \in Nat,
         NEW t, t = [s EXCEPT !.pc = a]
  PROVE  t \in States /\ t.sp = s.sp /\ t.stack = s.stack /\ t.owed = s.owed
BY DEF States

(* the flags,                                                              *)
LEMMA SetFlags ==
  ASSUME NEW s \in States, NEW z \in BOOLEAN, NEW c \in BOOLEAN,
         NEW t, t = [s EXCEPT !.zero = z, !.carry = c]
  PROVE  t \in States /\ t.sp = s.sp /\ t.stack = s.stack /\ t.owed = s.owed
BY DEF States

(* the carry and the enable flag,                                          *)
LEMMA SetEnabled ==
  ASSUME NEW s \in States, NEW c \in BOOLEAN, NEW e \in BOOLEAN,
         NEW t, t = [s EXCEPT !.carry = c, !.enable = e]
  PROVE  t \in States /\ t.sp = s.sp /\ t.stack = s.stack /\ t.owed = s.owed
BY DEF States

(* the bank.                                                               *)
LEMMA SetBank ==
  ASSUME NEW s \in States, NEW b \in 0 .. 1,
         NEW t, t = [s EXCEPT !.bank = b]
  PROVE  t \in States /\ t.sp = s.sp /\ t.stack = s.stack /\ t.owed = s.owed
BY DEF States

-----------------------------------------------------------------------------
(* Taking an interrupt, if there is room for its frame.                    *)
LEMMA BegunSound ==
  ASSUME SimInv, ~(Accepts /\ Full)
  PROVE  Sound(Begun)
<1>1. Sound(State) /\ State \in States
  BY InvSound DEF Sound
<1>2. /\ INTVECT \in Nat /\ MAXSTK \in Nat
      /\ pc \in Nat /\ sp \in 0 .. MAXSTK - 1 /\ stack \in Cells /\ owed \in Seq(Frames)
      /\ zero \in BOOLEAN /\ carry \in BOOLEAN /\ bank \in 0 .. 1
  BY SimAssumption DEF SimInv, SimTypeOK, Cells
<1>3. CASE Accepts
  <2> DEFINE c == [pc |-> pc, zero |-> zero, carry |-> carry, bank |-> bank]
             f == [kind |-> "interrupt", cell |-> c]
  <2>1. c \in Cell /\ f \in Frames
    BY <1>2 DEF Cell, Frames
  <2>2. sp <= MAXSTK - 2
    BY <1>2, <1>3 DEF Full
  <2>3. Begun = [pc |-> INTVECT, sp |-> sp + 1, stack |-> [stack EXCEPT ![sp] = c],
                 zero |-> zero, carry |-> carry, bank |-> bank, enable |-> FALSE,
                 ack |-> TRUE, owed |-> Append(owed, f)]
    BY <1>3 DEF Begun, Accepts, Interrupted, Pushed, State
  <2>4. [stack EXCEPT ![sp] = c] \in Cells /\ Append(owed, f) \in Seq(Frames)
        /\ sp + 1 \in 0 .. MAXSTK - 1
    BY <1>2, <2>1, <2>2 DEF Cells
  <2>5. Begun \in States
    BY <1>2, <2>3, <2>4 DEF States
  <2>6. Begun.sp = sp + 1 /\ Begun.stack = [stack EXCEPT ![sp] = c]
        /\ Begun.owed = Append(owed, f)
    BY <2>3
  <2>7. State.sp = sp /\ State.stack = stack /\ State.owed = owed
    BY DEF State
  <2>8. c.pc = f.cell.pc /\ c = f.cell
    OBVIOUS
  <2> HIDE DEF c, f
  <2> QED BY <1>1, <2>1, <2>2, <2>5, <2>6, <2>7, <2>8, PushSound
<1>4. CASE ~Accepts
  <2>1. Begun = State \/ Begun = [State EXCEPT !.ack = FALSE]
    BY <1>4 DEF Begun
  <2>2. Begun \in States
    BY <1>1, <2>1 DEF States
  <2> QED BY <1>1, <2>1, <2>2, SameStack DEF State
<1> QED BY <1>3, <1>4

(* Executing an instruction of the program.                                *)
LEMMA ExecutedSound ==
  ASSUME NEW s, Sound(s), NEW i \in Insts \union {Move}, NEW t \in Executed(s, i)
  PROVE  Sound(t)
<1>1. s \in States /\ s.sp \in 0 .. MAXSTK - 1 /\ s.pc \in Nat /\ MAXSTK \in Nat
      /\ s.owed \in Seq(Frames) /\ s.stack \in Cells /\ Len(s.owed) = s.sp
  BY SimAssumption DEF Sound, States
<1>2. i.arg \in Nat /\ (i.op = "bank" => i.arg \in 0 .. 1) /\ BYTE \in Nat
  BY SimAssumption
<1>3. /\ Next1(s) \in States /\ Next1(s).sp = s.sp /\ Next1(s).stack = s.stack
      /\ Next1(s).owed = s.owed
  <2>1. s.pc + 1 \in Nat /\ Next1(s) = [s EXCEPT !.pc = s.pc + 1]
    BY <1>1 DEF Next1
  <2> QED BY <1>1, <2>1, SetPc
<1>4. ASSUME NEW a \in Nat
      PROVE  /\ Goto(s, a) \in States /\ Goto(s, a).sp = s.sp /\ Goto(s, a).stack = s.stack
             /\ Goto(s, a).owed = s.owed
  BY <1>1, SetPc DEF Goto
<1>5. Sound(Next1(s)) /\ \A a \in Nat : Sound(Goto(s, a))
  BY <1>3, <1>4, SameStack
<1>6. ASSUME NEW a \in Nat, s.sp <= MAXSTK - 2
      PROVE  Sound(Called(s, a))
  <2> DEFINE c == [s.stack[s.sp] EXCEPT !.pc = s.pc + 1]
             f == [kind |-> "call", cell |-> [NoCell EXCEPT !.pc = s.pc + 1]]
             k == [s.stack EXCEPT ![s.sp] = c]
             o == Append(s.owed, f)
  <2>1. PICK c0 \in Cell : c0 = s.stack[s.sp]
    BY <1>1 DEF Cells
  <2>2. c \in Cell /\ c.pc = s.pc + 1
    BY <1>1, <2>1, SMTT(30) DEF Cell
  <2>3. [NoCell EXCEPT !.pc = s.pc + 1] \in Cell /\ [NoCell EXCEPT !.pc = s.pc + 1].pc = s.pc + 1
    <3>1. NoCell \in Cell
      BY DEF Cell, NoCell
    <3> QED BY <1>1, <3>1 DEF Cell
  <2>4. f \in Frames /\ c.pc = f.cell.pc /\ f.kind # "interrupt"
    BY <2>2, <2>3 DEF Frames
  <2>5. Called(s, a) = [Goto(s, a) EXCEPT !.stack = k, !.sp = s.sp + 1, !.owed = o]
    BY <1>4 DEF Called
  <2>6. k \in Cells /\ o \in Seq(Frames) /\ s.sp + 1 \in 0 .. MAXSTK - 1
    BY <1>1, <1>6, <2>2, <2>4 DEF Cells
  <2>6a. k = [s.stack EXCEPT ![s.sp] = c] /\ o = Append(s.owed, f)
    OBVIOUS
  <2> HIDE DEF c, f, k, o
  <2>7. /\ Called(s, a) \in States /\ Called(s, a).sp = s.sp + 1
        /\ Called(s, a).stack = k /\ Called(s, a).owed = o
    <3>1. PICK n \in States : n = Goto(s, a)
      BY <1>4
    <3>2. Called(s, a) = [n EXCEPT !.stack = k, !.sp = s.sp + 1, !.owed = o]
      BY <2>5, <3>1
    <3> QED BY <2>6, <3>2 DEF States
  <2> QED BY <1>6, <2>2, <2>4, <2>6a, <2>7, PushSound
<1>6a. ASSUME s.sp > 0
      PROVE  /\ Returned(s) \in States /\ Returned(s).sp = s.sp - 1
             /\ Returned(s).stack = s.stack /\ Returned(s).owed = Front(s.owed)
             /\ Sound(Returned(s)) /\ Top(s) \in Cell
  <2>1. Top(s) \in Cell /\ Top(s).pc \in Nat
    BY <1>1, <1>6a DEF Top, Cells, Cell
  <2>2. Front(s.owed) \in Seq(Frames) /\ s.sp - 1 \in 0 .. MAXSTK - 1
    BY <1>1, <1>6a DEF Front
  <2>3. Returned(s) = [Goto(s, Top(s).pc) EXCEPT !.sp = s.sp - 1, !.owed = Front(s.owed)]
    BY <1>4, <2>1 DEF Returned
  <2>4. /\ Returned(s) \in States /\ Returned(s).sp = s.sp - 1
        /\ Returned(s).stack = s.stack /\ Returned(s).owed = Front(s.owed)
    <3>1. PICK n \in States : n = Goto(s, Top(s).pc)
      BY <1>4, <2>1
    <3>2. n.stack = s.stack /\ Returned(s) = [n EXCEPT !.sp = s.sp - 1, !.owed = Front(s.owed)]
      BY <1>4, <2>1, <2>3, <3>1
    <3> QED BY <2>2, <3>2 DEF States
  <2> QED BY <1>6a, <2>1, <2>4, PopSound
<1>7. CASE i.op \in {"move", "io"}
  BY <1>5, <1>7 DEF Executed
<1>8. CASE i.op = "data"
  <2>1. PICK f \in BOOLEAN \X BOOLEAN : t = [Next1(s) EXCEPT !.zero = f[1], !.carry = f[2]]
    BY <1>8 DEF Executed, Flags
  <2>2. f[1] \in BOOLEAN /\ f[2] \in BOOLEAN
    OBVIOUS
  <2>3. t \in States /\ t.sp = s.sp /\ t.stack = s.stack /\ t.owed = s.owed
    BY <1>3, <2>1, <2>2, SetFlags
  <2> QED BY <2>3, SameStack
<1>9. CASE i.op \in {"jump", "break"}
  BY <1>2, <1>5, <1>9 DEF Executed, Jumps
<1>10. CASE i.op = "jumpto"
  BY <1>2, <1>5, <1>10 DEF Executed, JumpsTo
<1>11. CASE i.op = "call"
  BY <1>1, <1>2, <1>5, <1>6, <1>11 DEF Executed, Calls
<1>12. CASE i.op = "callto"
  BY <1>1, <1>2, <1>6, <1>12 DEF Executed, CallsTo
<1>13. CASE i.op = "ret"
  BY <1>1, <1>5, <1>6a, <1>13 DEF Executed, Returns
<1>14. CASE i.op = "reti"
  <2>1. s.sp > 0 /\ t = [Returned(s) EXCEPT !.zero = Top(s).zero, !.carry = Top(s).carry,
                                            !.bank = Top(s).bank, !.enable = (i.arg = 1)]
    BY <1>1, <1>14 DEF Executed, ReturnsInterrupt
  <2>2. Top(s).zero \in BOOLEAN /\ Top(s).carry \in BOOLEAN /\ Top(s).bank \in 0 .. 1
    BY <1>6a, <2>1 DEF Cell
  <2>3. /\ t \in States /\ t.sp = s.sp - 1 /\ t.stack = s.stack
        /\ t.owed = Front(s.owed)
    <3>1. PICK n \in States : n = Returned(s)
      BY <1>6a, <2>1
    <3>2. t = [n EXCEPT !.zero = Top(s).zero, !.carry = Top(s).carry,
                        !.bank = Top(s).bank, !.enable = (i.arg = 1)]
      BY <2>1, <3>1
    <3>3. (i.arg = 1) \in BOOLEAN
      OBVIOUS
    <3>4. t \in States /\ t.sp = n.sp /\ t.stack = n.stack /\ t.owed = n.owed
      BY <2>2, <3>2, <3>3 DEF States
    <3> QED BY <1>6a, <2>1, <3>1, <3>4
  <2> QED BY <2>1, <2>3, PopSound
<1>15. CASE i.op = "int"
  <2>1. PICK c \in {s.carry, s.enable} :
          t = [Next1(s) EXCEPT !.carry = c, !.enable = (i.arg = 1)]
    BY <1>15 DEF Executed, SetsEnable
  <2>1a. c \in BOOLEAN /\ (i.arg = 1) \in BOOLEAN
    BY <1>1 DEF States
  <2>2. t \in States /\ t.sp = s.sp /\ t.stack = s.stack /\ t.owed = s.owed
    BY <1>3, <2>1, <2>1a, SetEnabled, ZenonT(60)
  <2> QED BY <2>2, SameStack
<1>16. CASE i.op = "bank"
  <2>1. t = [Next1(s) EXCEPT !.bank = i.arg]
    BY <1>16 DEF Executed
  <2>2. t \in States /\ t.sp = s.sp /\ t.stack = s.stack /\ t.owed = s.owed
    BY <1>2, <1>3, <1>16, <2>1, SetBank
  <2> QED BY <2>2, SameStack
<1> QED
  BY <1>7, <1>8, <1>9, <1>10, <1>11, <1>12, <1>13, <1>14, <1>15, <1>16 DEF Executed

(* What an instruction that closes a frame does: it takes the topmost one  *)
(* only, and gives back what was owed for it.                              *)
LEMMA ExecutedReturns ==
  ASSUME NEW s, Sound(s), NEW i \in Insts \union {Move}, NEW t \in Executed(s, i)
  PROVE  /\ Len(t.owed) >= Len(s.owed) - 1
         /\ Len(t.owed) < Len(s.owed) =>
              LET f == Last(s.owed) IN
                /\ t.pc = f.cell.pc
                /\ (i.op = "reti" /\ f.kind = "interrupt") =>
                     t.zero = f.cell.zero /\ t.carry = f.cell.carry /\ t.bank = f.cell.bank
<1>1. s \in States /\ s.sp \in 0 .. MAXSTK - 1 /\ MAXSTK \in Nat
      /\ s.owed \in Seq(Frames) /\ Len(s.owed) = s.sp /\ Len(s.owed) \in Nat
  BY SimAssumption DEF Sound, States
<1>2. Next1(s).owed = s.owed /\ \A a : Goto(s, a).owed = s.owed
  BY <1>1 DEF Next1, Goto, States
<1>3. ASSUME NEW a
      PROVE  Len(Called(s, a).owed) = Len(s.owed) + 1
  <2> DEFINE f == [kind |-> "call", cell |-> [NoCell EXCEPT !.pc = s.pc + 1]]
  <2>1. PICK n : n = Goto(s, a) /\ n.owed = s.owed
    BY <1>2
  <2>2. Called(s, a).owed = Append(s.owed, f)
    BY <1>1, <2>1 DEF Called, Goto, States
  <2> HIDE DEF f
  <2> QED BY <1>1, <2>2
<1>4. CASE Len(t.owed) >= Len(s.owed)
  BY <1>1, <1>4
<1>5. CASE i.op \in {"ret", "reti"} /\ s.sp > 0 /\ Len(t.owed) < Len(s.owed)
  <2>1. Given(s, s.sp) /\ Last(s.owed) = s.owed[s.sp] /\ Top(s) = s.stack[s.sp - 1]
    BY <1>1, <1>5 DEF Sound, Last, Top
  <2>2. /\ Returned(s).pc = Top(s).pc
        /\ Len(Returned(s).owed) = Len(s.owed) - 1
        /\ Returned(s).owed = Front(s.owed)
    <3>1. Returned(s).pc = Top(s).pc /\ Returned(s).owed = Front(s.owed)
      BY <1>1, <1>2 DEF Returned, Goto, States
    <3> QED BY <1>1, <1>5, <3>1 DEF Front
  <2>3. CASE i.op = "ret"
    <3>1. t = Returned(s)
      BY <1>1, <1>2, <1>5, <2>3 DEF Executed, Returns
    <3> QED BY <1>1, <2>1, <2>2, <2>3, <3>1 DEF Given
  <2>4. CASE i.op = "reti"
    <3>1. t = [Returned(s) EXCEPT !.zero = Top(s).zero, !.carry = Top(s).carry,
                                  !.bank = Top(s).bank, !.enable = (i.arg = 1)]
      BY <1>1, <1>5, <2>4 DEF Executed, ReturnsInterrupt
    <3>2. PICK n : n = Returned(s)
      OBVIOUS
    <3>3. /\ t.pc = Top(s).pc /\ t.owed = Front(s.owed)
          /\ t.zero = Top(s).zero /\ t.carry = Top(s).carry /\ t.bank = Top(s).bank
      BY <1>1, <2>2, <3>1 DEF Returned, Goto, States
    <3>4. Len(t.owed) = Len(s.owed) - 1
      BY <2>2, <3>3
    <3> QED BY <1>1, <2>1, <3>3, <3>4 DEF Given
  <2> QED BY <1>5, <2>3, <2>4
<1>6. i.op \notin {"ret", "reti"} \/ s.sp = 0 => Len(t.owed) >= Len(s.owed)
  <2>1. CASE i.op \in {"move", "io", "data", "int", "bank"}
    <3>1. t.owed = Next1(s).owed
      BY <1>1, <2>1 DEF Executed, Flags, SetsEnable, Next1, States
    <3> QED BY <1>1, <1>2, <3>1
  <2>2. CASE i.op \in {"jump", "break", "jumpto"}
    <3>1. t = Next1(s) \/ \E a : t = Goto(s, a)
      BY <2>2 DEF Executed, Jumps, JumpsTo
    <3> QED BY <1>1, <1>2, <3>1
  <2>3. CASE i.op \in {"call", "callto"}
    <3>1. t = Next1(s) \/ \E a : t = Called(s, a)
      BY <2>3 DEF Executed, Calls, CallsTo
    <3> QED BY <1>1, <1>2, <1>3, <3>1
  <2>4. CASE i.op = "ret" /\ s.sp = 0
    BY <1>1, <1>2, <2>4 DEF Executed, Returns
  <2>5. CASE i.op = "reti" /\ s.sp = 0
    BY <1>1, <2>5 DEF Executed, ReturnsInterrupt
  <2> QED BY <2>1, <2>2, <2>3, <2>4, <2>5 DEF Executed
<1> QED BY <1>1, <1>4, <1>5, <1>6

-----------------------------------------------------------------------------
(* A step into a sound state of the processor.                             *)
LEMMA BecomesInv ==
  ASSUME SimInv, NEW s, Sound(s), Becomes(s), Code' = Code,
         interrupt' \in BOOLEAN, running' \in BOOLEAN
  PROVE  SimInv'
<1>1. s \in States /\ MAXSTK \in Nat
  BY SimAssumption DEF Sound
<1>2. SimTypeOK'
  BY <1>1 DEF SimInv, SimTypeOK, States, Cells, Becomes
<1>3. FramesKept'
  BY <1>1 DEF FramesKept, Becomes, Sound, Given, States
<1> QED BY <1>2, <1>3 DEF SimInv

(* Any cell holds an instruction.                                          *)
LEMMA FetchedInst ==
  ASSUME SimInv, NEW a
  PROVE  Fetched(a) \subseteq Insts \union {Move}
BY DEF SimInv, SimTypeOK, Fetched

(* No return false comes behind a change.                                  *)
LEMMA FailedSame ==
  ASSUME NEW s, NEW i, NEW t \in Failed(s, i)
  PROVE  t = s
BY DEF Failed, FailsIO, FailsCall, FailsReturn, FailsReturnInterrupt

LEMMA SimInitInv == SimInit => SimInv
<1> SUFFICES ASSUME SimInit
             PROVE  SimInv
  OBVIOUS
<1>1. Code \in [0 .. MAXMEM - 1 -> Insts \union {Move}]
  BY DEF SimInit
<1>2. /\ pc = 0 /\ sp = 0 /\ zero = FALSE /\ carry = FALSE /\ bank = 0 /\ enable = FALSE /\ interrupt = FALSE
      /\ acknowledge = FALSE /\ running = TRUE /\ owed = <<>>
  BY DEF SimInit
<1>3. NoCell \in Cell /\ 0 \in 0 .. MAXSTK - 1
  BY SimAssumption DEF NoCell, Cell
<1>4. stack \in [0 .. MAXSTK - 1 -> Cell]
  <2>1. ASSUME NEW b \in 0 .. 1
        PROVE  [NoCell EXCEPT !.bank = b] \in Cell
    BY DEF NoCell, Cell
  <2>2. {[NoCell EXCEPT !.bank = b] : b \in 0 .. 1} \subseteq Cell
    BY <2>1
  <2>3. stack \in [0 .. MAXSTK - 1 -> {[NoCell EXCEPT !.bank = b] : b \in 0 .. 1}]
    BY DEF SimInit
  <2> QED BY <2>2, <2>3
<1>5. SimTypeOK
  <2>1. pc \in Nat /\ sp \in 0 .. MAXSTK - 1 /\ bank \in 0 .. 1 /\ owed \in Seq(Frames)
    BY <1>2, <1>3
  <2>2. /\ zero \in BOOLEAN /\ carry \in BOOLEAN /\ enable \in BOOLEAN
        /\ interrupt \in BOOLEAN /\ acknowledge \in BOOLEAN /\ running \in BOOLEAN
    BY <1>2
  <2> QED BY <1>1, <1>4, <2>1, <2>2 DEF SimTypeOK
<1>6. FramesKept
  BY <1>2 DEF FramesKept
<1> QED BY <1>5, <1>6 DEF SimInv

LEMMA SimNextInv == SimInv /\ [SimNext]_simVars => SimInv'
<1> SUFFICES ASSUME SimInv, [SimNext]_simVars
             PROVE  SimInv'
  OBVIOUS
<1>1. CASE Run
  <2>1. Code' = Code /\ interrupt' \in BOOLEAN
    BY <1>1 DEF Run, SimInv, SimTypeOK
  <2>2. running' \in BOOLEAN
    <3>1. PICK b \in Breaks(pc') : running' = (ir'.ok /\ ~b)
      BY <1>1 DEF Run
    <3> QED BY <3>1
  <2>3. \E s : Sound(s) /\ Becomes(s)
    <3>1. CASE Accepts /\ Full
      BY <1>1, <3>1, InvSound DEF Run, step
    <3>2. CASE ~(Accepts /\ Full)
      <4>1. Sound(Begun)
        BY <3>2, BegunSound
      <4>2. PICK i \in Fetched(Begun.pc) :
              (\E s \in Executed(Begun, i) : Becomes(s)) \/ Becomes(Begun)
        BY <1>1, <3>2, FailedSame DEF Run, step
      <4>3. i \in Insts \union {Move}
        BY FetchedInst
      <4> QED BY <4>1, <4>2, <4>3, ExecutedSound
    <3> QED BY <3>1, <3>2
  <2> QED BY <2>1, <2>2, <2>3, BecomesInv
<1>2. CASE setInterrupt
  BY <1>2 DEF setInterrupt, cpu, SimInv, SimTypeOK, FramesKept
<1>3. CASE resetPB
  <2>1. 0 \in 0 .. MAXSTK - 1
    BY SimAssumption
  <2>2. SimTypeOK'
    <3>1. pc' \in Nat /\ sp' \in 0 .. MAXSTK - 1 /\ bank' \in 0 .. 1 /\ owed' \in Seq(Frames)
      BY <1>3, <2>1 DEF resetPB
    <3>2. /\ zero' \in BOOLEAN /\ carry' \in BOOLEAN /\ enable' \in BOOLEAN
          /\ acknowledge' \in BOOLEAN /\ running' \in BOOLEAN
      BY <1>3 DEF resetPB
    <3>3. Code' = Code /\ stack' = stack /\ interrupt' = interrupt
      BY <1>3 DEF resetPB
    <3> QED BY <3>1, <3>2, <3>3 DEF SimInv, SimTypeOK
  <2>3. FramesKept'
    BY <1>3 DEF resetPB, FramesKept
  <2> QED BY <2>2, <2>3 DEF SimInv
<1>4. CASE UNCHANGED simVars
  BY <1>4 DEF simVars, SimInv, SimTypeOK, FramesKept
<1> QED BY <1>1, <1>2, <1>3, <1>4 DEF SimNext

THEOREM SimInvariant == SimSpec => []SimInv
BY SimInitInv, SimNextInv, PTL DEF SimSpec

(* The processor keeps its types: the stack pointer never leaves the       *)
(* stack, whose last cell stays unused (step, CALL: sp > 30).              *)
THEOREM SimTypeCorrect == SimSpec => []SimTypeOK
<1>1. SimInv => SimTypeOK
  BY DEF SimInv
<1> QED BY <1>1, SimInvariant, PTL

(* FramesKept: the stack holds what every open call and interrupt expects  *)
(* back.                                                                   *)
THEOREM FramesAlwaysKept == SimSpec => []FramesKept
<1>1. SimInv => FramesKept
  BY DEF SimInv
<1> QED BY <1>1, SimInvariant, PTL

-----------------------------------------------------------------------------
ReturnStep ==
  (ir'.ok /\ ir'.op # "none" /\ Len(owed') < Len(owed)) =>
    LET f == Last(owed) IN
      /\ pc' = f.cell.pc
      /\ (ir'.op = "reti" /\ f.kind = "interrupt") =>
           zero' = f.cell.zero /\ carry' = f.cell.carry /\ bank' = f.cell.bank
FailStep ==
  (ir.ok /\ ~ir'.ok) =>
    /\ \A k \in 0 .. sp - 1 : stack'[k] = stack[k]
    /\ \/ UNCHANGED cpu
       \/ /\ enable /\ interrupt /\ sp' = sp + 1
          /\ stack'[sp] = [pc |-> pc, zero |-> zero, carry |-> carry, bank |-> bank]
          /\ pc' = INTVECT /\ ~enable' /\ acknowledge'

LEMMA ReturnsWell == SimInv /\ [SimNext]_simVars => ReturnStep
<1> SUFFICES ASSUME SimInv, [SimNext]_simVars, ir'.ok, ir'.op # "none", Len(owed') < Len(owed)
             PROVE  LET f == Last(owed) IN
                      /\ pc' = f.cell.pc
                      /\ (ir'.op = "reti" /\ f.kind = "interrupt") =>
                           zero' = f.cell.zero /\ carry' = f.cell.carry /\ bank' = f.cell.bank
  BY DEF ReturnStep
<1>1. owed \in Seq(Frames) /\ Len(owed) \in Nat
  BY DEF SimInv, SimTypeOK
<1>2. Run
  BY <1>1 DEF SimNext, setInterrupt, resetPB, simVars
<1>3. ~(Accepts /\ Full)
  BY <1>2 DEF Run, step
<1>4. PICK i \in Fetched(Begun.pc) : \E s \in Executed(Begun, i) :
        Becomes(s) /\ ir' = [op |-> i.op, ok |-> TRUE]
  BY <1>2, <1>3 DEF Run, step
<1>4a. PICK s \in Executed(Begun, i) : Becomes(s) /\ ir' = [op |-> i.op, ok |-> TRUE]
  BY <1>4
<1>5. Sound(Begun) /\ i \in Insts \union {Move}
  BY <1>3, BegunSound, FetchedInst
<1>6. owed' = s.owed /\ pc' = s.pc /\ zero' = s.zero /\ carry' = s.carry /\ bank' = s.bank
      /\ ir'.op = i.op
  BY <1>4a DEF Becomes
<1>7. Begun.owed = owed
  <2>1. CASE Accepts
    <3> DEFINE f == [kind |-> "interrupt",
                     cell |-> [pc |-> pc, zero |-> zero, carry |-> carry, bank |-> bank]]
    <3>1. Begun.owed = Append(owed, f)
      BY <2>1 DEF Begun, Accepts, Interrupted, Pushed, State
    <3> HIDE DEF f
    <3>2. Len(Begun.owed) = Len(owed) + 1
      BY <1>1, <3>1
    <3>3. Len(s.owed) >= Len(Begun.owed) - 1
      BY <1>5, ExecutedReturns
    <3>4. Len(s.owed) < Len(owed) /\ Len(s.owed) \in Nat
      <4>1. Sound(s)
        BY <1>5, ExecutedSound
      <4> QED BY <1>6, <4>1 DEF Sound, States
    <3> QED BY <1>1, <3>2, <3>3, <3>4
  <2>2. CASE ~Accepts
    BY <2>2 DEF Begun, State
  <2> QED BY <2>1, <2>2
<1> QED BY <1>5, <1>6, <1>7, ExecutedReturns

(* ReturnRestores: every return gives back what its call or interrupt put  *)
(* on the stack, RETI the flags and the bank too.                          *)
THEOREM ReturnsAlwaysRestore == SimSpec => ReturnRestores
<1>1. SimInv /\ [SimNext]_simVars => [ReturnStep]_simVars
  BY ReturnsWell
<1>2. SimSpec => [][ReturnStep]_simVars
  BY <1>1, SimInvariant, PTL DEF SimSpec
<1> QED BY <1>2 DEF ReturnRestores, ReturnStep

(* FailureResumes: the program a failing step stops can go on from what is *)
(* left, also when the step had taken an interrupt first.                  *)
THEOREM FailuresAlwaysResume == SimSpec => FailureResumes
<1>1. SimInv /\ [SimNext]_simVars => [FailStep]_simVars
  <2> SUFFICES ASSUME SimInv, SimNext, ir.ok, ~ir'.ok
               PROVE  /\ \A k \in 0 .. sp - 1 : stack'[k] = stack[k]
                      /\ \/ UNCHANGED cpu
                         \/ /\ enable /\ interrupt /\ sp' = sp + 1
                            /\ stack'[sp] = [pc |-> pc, zero |-> zero, carry |-> carry, bank |-> bank]
                            /\ pc' = INTVECT /\ ~enable' /\ acknowledge'
    BY DEF FailStep
  <2>1. Run
    BY DEF SimNext, setInterrupt, resetPB
  <2>2. Becomes(State) \/ (Becomes(Begun) /\ ~(Accepts /\ Full))
    BY <2>1, FailedSame DEF Run, step
  <2>3. CASE ~Accepts \/ Becomes(State)
    BY <2>2, <2>3 DEF Begun, Becomes, State, cpu
  <2>4. CASE Accepts /\ Becomes(Begun)
    <3>1. sp \in 0 .. MAXSTK - 1 /\ stack \in [0 .. MAXSTK - 1 -> Cell]
      BY DEF SimInv, SimTypeOK
    <3> DEFINE c == [pc |-> pc, zero |-> zero, carry |-> carry, bank |-> bank]
               k == [stack EXCEPT ![sp] = c]
    <3>2. /\ Begun.stack = k /\ Begun.sp = sp + 1 /\ Begun.pc = INTVECT
          /\ Begun.enable = FALSE /\ Begun.ack = TRUE
      BY <2>4 DEF Begun, Accepts, Interrupted, Pushed, State
    <3>3. k[sp] = c /\ \A n \in 0 .. sp - 1 : k[n] = stack[n]
      BY <3>1
    <3> QED BY <2>4, <3>2, <3>3 DEF Becomes, Accepts
  <2> QED BY <2>2, <2>3, <2>4
<1>2. SimSpec => [][FailStep]_simVars
  BY <1>1, SimInvariant, PTL DEF SimSpec
<1> QED BY <1>2 DEF FailureResumes, FailStep
=============================================================================
